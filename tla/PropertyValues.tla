---------------------------- MODULE PropertyValues ----------------------------
(***************************************************************************)
(* The values of properties: the host keeps them in one list that its      *)
(* application, its facade and its service write, each with code of its    *)
(* own; a client sets and gets them, in full, in part, in pages and in     *)
(* encodings, and shows what it got in a map and in the list of the        *)
(* tooling.  Messages between the two keep their order; each handler runs  *)
(* under the facade's mutex and is one action.                             *)
(*                                                                         *)
(* A JSON tree is the set of its leaves, each with the path that leads to  *)
(* it, so that {"a":{"b":1}} is {<<<<"a","b">>, 1>>}.  A body is an object *)
(* [tree], an array [items], an object of JSON pointers [updates], text    *)
(* that is not JSON [text], or one of these in a binary encoding.          *)
(* Notifications are kept in a history: the client refuses them, see       *)
(* PropertySubscription.  Media types, which no reader looks at, are left  *)
(* out.                                                                    *)
(***************************************************************************)
EXTENDS Integers, Sequences, FiniteSets, SequencesExt, TLC

CONSTANTS
    ResourceList,   \* the property that lists the others
    SystemIds,      \* sequence of the properties the device answers for itself
    UserIds,        \* properties whose values are stored
    ResIds,         \* resource ids; "" is none
    Codecs,         \* encodings that change the bytes
    Gets, Sets,     \* the requests of the client's application
    Writes,         \* what the host's application sets: [id, resId, body]
    SystemBodies,   \* what it gives the properties of SystemIds
    AutoGets,       \* sequence of properties a client gets once they are listed
    Subscriptions,  \* sequence of [resource, encoding]: who is to be notified
    MaxRequests, MaxChanges  \* bounds

Empty == [none |-> TRUE]      \* a body of no bytes
Braces == [tree |-> {}]       \* {}
ReadOnly == Range(SystemIds) \cup {ResourceList}

ASSUME ValuesAssumption ==
    /\ ReadOnly \cap UserIds = {} /\ ResourceList \notin Range(SystemIds)
    /\ "" \in ResIds
    /\ \A g \in Gets : g.id \in ReadOnly \cup UserIds /\ g.resId \in ResIds
    /\ \A s \in Sets : s.id \in ReadOnly \cup UserIds /\ s.resId \in ResIds
    /\ \A w \in Writes : w.id \in UserIds /\ w.resId \in ResIds
    /\ MaxRequests \in Nat /\ MaxChanges \in Nat

VARIABLES
    values,   \* property_values of the host: [id, resId, body], in order
    listed,   \* metadata_list_: the user's properties, in order
    system,   \* the bodies of SystemIds
    toHost,   \* requests on their way: [n, type, id, resId, enc, page, ...]
    toClient, \* and answers: [n, type, ok, enc, total, body, ...]
    requests, \* number of requests sent
    open,     \* open_requests_: the requests without an answer, by number
    shown,    \* values_ of the client's list: id -> [resId, body]
    mirror,   \* properties_ of ClientConnectionModel: [id, resId, body]
    changes,  \* number of changes by the host's application
    written,  \* history: <<id, resId>> -> the last body written in full
    answers,  \* history: what the callbacks got, with the request
    notices   \* history: the notifications sent

vars == <<values, listed, system, toHost, toClient, requests, open, shown,
          mirror, changes, written, answers, notices>>
hostVars == <<values, listed, system, changes, written, notices>>
clientVars == <<requests, open, shown, mirror, answers>>

Init ==
    /\ values = <<>>
    /\ listed = SetToSeq(UserIds)
    /\ system = [p \in Range(SystemIds) |-> CHOOSE b \in SystemBodies : TRUE]
    /\ toHost = <<>> /\ toClient = <<>>
    /\ requests = 0 /\ open = <<>>
    /\ shown = <<>> /\ mirror = <<>>
    /\ changes = 0
    /\ written = <<>>
    /\ answers = <<>> /\ notices = <<>>

-----------------------------------------------------------------------------
(* Bodies *)

Has(body, kind) == kind \in DOMAIN body
IsJson(body) == Has(body, "tree") \/ Has(body, "items") \/ Has(body, "updates")

\* encodeBody and decodeBody: no encoding, ASCII and an unknown one keep the
\* bytes.
Encoded(body, enc) ==
    IF enc \in Codecs /\ body # Empty THEN [by |-> enc, of |-> body] ELSE body
Decoded(body, enc) ==
    IF enc \in Codecs /\ Has(body, "by") THEN body.of ELSE body

\* patch: what the path leads to is replaced; a path that leads nowhere, the
\* empty one too, changes nothing.
Patched(tree, path, new) ==
    IF path # <<>> /\ \E l \in tree : IsPrefix(path, l[1])
    THEN {l \in tree : ~ IsPrefix(path, l[1])}
         \cup {<<path \o l[1], l[2]>> : l \in new}
    ELSE tree

\* applyPartialUpdates, and the caller, which keeps the body when either is
\* not an object or not even JSON.  The keys of an object that is no set of
\* updates are not JSON pointers, and change nothing.
Merged(body, update) ==
    IF Has(body, "tree") /\ Has(update, "updates")
    THEN [tree |-> FoldLeft(LAMBDA t, u : Patched(t, u[1], u[2]),
                            body.tree, update.updates)]
    ELSE body

-----------------------------------------------------------------------------
(* The list of values *)

\* Index of the first value of a property, of any or of one resource id; or 0.
FirstOf(vs, id) == SelectInSeq(vs, LAMBDA v : v.id = id)
IndexOf(vs, id, resId) ==
    SelectInSeq(vs, LAMBDA v : v.id = id /\ v.resId = resId)

\* propertyBinaryGetter: without a resource id, the first value will do.
Stored(vs, id, resId) ==
    LET i == IF resId = "" THEN FirstOf(vs, id) ELSE IndexOf(vs, id, resId)
    IN IF i = 0 THEN Empty ELSE vs[i].body

\* Mutant: only the first value of the property is compared.
WithValueUnlessFirst(vs, id, resId, body) ==
    LET i == FirstOf(vs, id)
    IN IF i = 0 \/ vs[i].resId # resId
       THEN Append(vs, [id |-> id, resId |-> resId, body |-> body])
       ELSE [vs EXCEPT ![i].body = body]
\* setPropertyValue of facade and service, updateValue, propertyBinarySetter.
WithValue(vs, id, resId, body) ==
    LET i == IndexOf(vs, id, resId)
    IN IF i = 0
       THEN Append(vs, [id |-> id, resId |-> resId, body |-> body])
       ELSE [vs EXCEPT ![i].body = body]

Without(vs, id) == SelectSeq(vs, LAMBDA v : v.id # id)

-----------------------------------------------------------------------------
(* Notifications *)

\* Mutant: what was encoded is kept, for which encoding is not.
EncodingsKept(body, encs) ==
    FoldLeft(LAMBDA s, e :
        LET data == IF s.last = "" THEN Encoded(body, e) ELSE s.data
        IN [last |-> e, data |-> data, sent |-> Append(s.sent, data)],
        [last |-> "", data |-> body, sent |-> <<>>], encs).sent
\* The loop of create_property_notification: the last encoding is kept, so
\* that subscriptions with the same one in a row share the work.
Encodings(body, encs) ==
    FoldLeft(LAMBDA s, e :
        IF e = s.last THEN [s EXCEPT !.sent = Append(@, s.data)]
        ELSE IF e = "" THEN [s EXCEPT !.sent = Append(@, body)]
        ELSE [last |-> e, data |-> Encoded(body, e),
              sent |-> Append(s.sent, Encoded(body, e))],
        [last |-> "", data |-> body, sent |-> <<>>], encs).sent

\* One message for each subscription to the property; `among` is a history of
\* the bodies the host has for the property.
Notices(vs, id, body) ==
    LET encs == [i \in DOMAIN SelectSeq(Subscriptions, LAMBDA s : s.resource = id)
                 |-> SelectSeq(Subscriptions, LAMBDA s : s.resource = id)[i].encoding]
        data == Encodings(body, encs)
        among == {v.body : v \in {w \in Range(vs) : w.id = id}}
    IN [i \in DOMAIN encs |-> [enc |-> encs[i], data |-> data[i], among |-> among]]

\* notify_property_updated_to_subscribers: it tells the first value that the
\* property has, of whatever resource id.
NoticesOfFirst(vs, id) ==
    IF FirstOf(vs, id) = 0 THEN <<>>
    ELSE Notices(vs, id, vs[FirstOf(vs, id)].body)

-----------------------------------------------------------------------------
(* The host's application *)

MayChange == changes < MaxChanges /\ changes' = changes + 1

\* setPropertyValue of the facade, which update_property_value and the
\* setters of StandardProperties call.
HostWrite(w) ==
    /\ MayChange
    /\ values' = WithValue(values, w.id, w.resId, w.body)
    /\ written' = (<<w.id, w.resId>> :> w.body) @@ written
    /\ notices' = notices \o Notices(values', w.id, w.body)
    /\ UNCHANGED <<listed, system, toHost, toClient, clientVars>>

Forgotten(id) == [k \in {j \in DOMAIN written : j[1] # id} |-> written[k]]

\* removeProperty: also the values go.
HostRemove(id) ==
    /\ id \in Range(listed)
    /\ MayChange
    /\ listed' = SelectSeq(listed, LAMBDA p : p # id)
    /\ values' = Without(values, id)
    /\ written' = Forgotten(id)
    /\ UNCHANGED <<system, notices, toHost, toClient, clientVars>>

\* addMetadata.
HostAdd(id) ==
    /\ id \notin Range(listed)
    /\ MayChange
    /\ listed' = Append(listed, id)
    /\ UNCHANGED <<values, system, written, notices, toHost, toClient, clientVars>>

\* updatePropertyMetadata removes the property and adds it again: its values
\* are lost.
HostUpdateMetadata(id) ==
    /\ id \in Range(listed)
    /\ MayChange
    /\ listed' = Append(SelectSeq(listed, LAMBDA p : p # id), id)
    /\ values' = Without(values, id)
    /\ written' = Forgotten(id)
    /\ UNCHANGED <<system, notices, toHost, toClient, clientVars>>

\* updateCommonRulesDeviceInfo, ...ChannelList and updateJsonSchema: nobody
\* but the application is told.
HostUpdateSystem(id, body) ==
    /\ MayChange
    /\ system' = [system EXCEPT ![id] = body]
    /\ UNCHANGED <<values, listed, written, notices, toHost, toClient, clientVars>>

-----------------------------------------------------------------------------
(* The host answers *)

\* Mutant: the limit is taken for the end.
PageToLimit(items, page) ==
    IF page[1] >= Len(items) THEN <<>>
    ELSE SubSeq(items, page[1] + 1, IF page[2] < Len(items) THEN page[2] ELSE Len(items))
\* The items from the offset page[1] on, at most page[2].
Page(items, page) ==
    IF page[1] >= Len(items) THEN <<>>
    ELSE SubSeq(items, page[1] + 1,
                IF page[1] + page[2] < Len(items) THEN page[1] + page[2]
                ELSE Len(items))

\* What the property is as JSON, before pages.
JsonOf(r) ==
    CASE r.id = ResourceList -> [items |-> SystemIds \o listed]
      [] r.id \in Range(SystemIds) -> system[r.id]
      [] OTHER -> Stored(values, r.id, r.resId)

Answer(r, ok, enc, total, body) ==
    [n |-> r.n, ok |-> ok, enc |-> enc, total |-> total, body |-> body,
     allowed |-> {}]

\* getPropertyData: as JSON when there is no other encoding, and the value's
\* bytes otherwise; the properties of the device have no such bytes.
GetAnswer(r) ==
    LET json == JsonOf(r)
        paged == Has(json, "items") /\ r.page # <<>>
        header == IF r.enc = "ASCII" THEN "" ELSE r.enc
    IN IF r.enc \notin {"", "ASCII"}
       THEN Answer(r, TRUE, header, -1, Encoded(Stored(values, r.id, r.resId), r.enc))
       ELSE IF json # Empty /\ ~ IsJson(json)
       THEN Answer(r, FALSE, "", -1, Empty)
       ELSE Answer(r, TRUE, header,
                   IF paged THEN Len(json.items) ELSE -1,
                   IF json = Empty THEN Braces
                   ELSE IF paged THEN [items |-> Page(json.items, r.page)]
                   ELSE json)

\* History: the bodies the answer may carry.  Without a resource id, any
\* value of the property will do.
Allowed(r) ==
    LET keys == {k \in DOMAIN written :
                    k[1] = r.id /\ (r.resId = "" \/ k[2] = r.resId)}
    IN IF r.id = ResourceList THEN {[items |-> SystemIds \o listed]}
       ELSE IF r.id \in Range(SystemIds) THEN {system[r.id]}
       ELSE IF keys = {} THEN {Empty} ELSE {written[k] : k \in keys}

HostGets(r) ==
    /\ r.type = "get"
    /\ toClient' = Append(toClient, [GetAnswer(r) EXCEPT !.allowed = Allowed(r)])
    /\ UNCHANGED hostVars

\* updateValue decodes the body, as the service did.
SetBody(r) == Decoded(r.body, r.enc)

\* A partial update is merged into the first value of the property ...
AfterService(r) ==
    LET i == FirstOf(values, r.id)
    IN IF ~ r.partial THEN WithValue(values, r.id, r.resId, SetBody(r))
       ELSE IF i = 0 THEN values
       ELSE [values EXCEPT ![i].body = Merged(@, SetBody(r))]

\* ... and then the facade, on the status 200 of the service, stores the
\* body of the message in any case, and notifies.
HostSets(r) ==
    /\ r.type = "set"
    /\ IF r.id \in ReadOnly
       THEN /\ toClient' = Append(toClient, Answer(r, FALSE, "", -1, Empty))
            /\ UNCHANGED hostVars
       ELSE /\ values' = WithValue(AfterService(r), r.id, r.resId, SetBody(r))
            /\ notices' = notices \o NoticesOfFirst(values', r.id)
            /\ toClient' = Append(toClient, Answer(r, TRUE, "", -1, Empty))
            /\ written' = IF r.partial
                          THEN [k \in DOMAIN written \cup {<<r.id, r.resId>>} |->
                                  IF k[1] = r.id THEN Stored(values', k[1], k[2])
                                  ELSE written[k]]
                          ELSE (<<r.id, r.resId>> :> r.plain) @@ written
            /\ UNCHANGED <<listed, system, changes>>

HostReceives ==
    /\ toHost # <<>>
    /\ toHost' = Tail(toHost)
    /\ HostGets(Head(toHost)) \/ HostSets(Head(toHost))
    /\ UNCHANGED clientVars

-----------------------------------------------------------------------------
(* The client *)

Request(n, type, r, body) ==
    [n |-> n, type |-> type, id |-> r.id, resId |-> r.resId, enc |-> r.enc,
     page |-> r.page, partial |-> r.partial, plain |-> r.body, body |-> body]

\* sendGetPropertyData and getPropertyData.
ClientGet(g) ==
    LET r == Request(requests + 1, "get", g @@ [partial |-> FALSE, body |-> Empty], Empty)
    IN /\ requests < MaxRequests
       /\ requests' = requests + 1
       /\ open' = (r.n :> r) @@ open
       /\ toHost' = Append(toHost, r)
       /\ UNCHANGED <<toClient, hostVars, shown, mirror, answers>>

\* sendSetPropertyData and setPropertyData.
ClientSet(s) ==
    LET r == Request(requests + 1, "set", s @@ [page |-> <<>>], Encoded(s.body, s.enc))
    IN /\ requests < MaxRequests
       /\ requests' = requests + 1
       /\ open' = (r.n :> r) @@ open
       /\ toHost' = Append(toHost, r)
       /\ UNCHANGED <<toClient, hostVars, shown, mirror, answers>>

\* setPropertyValue of the client's list: one value for each property.
Showing(id, resId, body) == (id :> [resId |-> resId, body |-> body]) @@ shown

Entry(s, id) == [id |-> id, resId |-> s[id].resId, body |-> s[id].body]

\* The tooling's callback for a value: the property's entry is replaced.
MirrorOf(m, s, id) == Append(SelectSeq(m, LAMBDA e : e.id # id), Entry(s, id))

\* The catalog callback of the client's list: values of properties that are
\* not listed go, new ones are empty.
Cataloged(s, ids) ==
    [id \in ids |-> IF id \in DOMAIN s THEN s[id]
                    ELSE [resId |-> "", body |-> Empty]]

\* Mutant: the tooling only adds.
MirrorGrown(m, s) == m \o SetToSeq({Entry(s, id) : id \in DOMAIN s} \ Range(m))
\* And that of the tooling: the list is made anew.
MirrorRebuilt(m, s) == SetToSeq({Entry(s, id) : id \in DOMAIN s})

AutoRequests(ids) ==
    LET wanted == SelectSeq(AutoGets, LAMBDA p : p \in ids)
    IN [i \in DOMAIN wanted |->
          Request(requests + i, "get",
                  [id |-> wanted[i], resId |-> "", enc |-> "", page |-> <<>>,
                   partial |-> FALSE, body |-> Empty], Empty)]

\* processGetDataReply with the status 200: the body is shown as it came,
\* and a new resource list brings the catalog up to date.
ClientShows(r, a) ==
    LET s == Showing(r.id, r.resId, a.body)
        m == MirrorOf(mirror, s, r.id)
        ids == Range(a.body.items)
        more == AutoRequests(ids)
        rest == [n \in DOMAIN open \ {r.n} |-> open[n]]
    IN IF r.id = ResourceList /\ Has(a.body, "items")
       THEN /\ shown' = Cataloged(s, ids)
            /\ mirror' = MirrorRebuilt(m, shown')
            /\ requests' = requests + Len(more)
            /\ toHost' = toHost \o more
            /\ open' = [n \in DOMAIN rest \cup (requests + 1 .. requests') |->
                          IF n \in DOMAIN rest THEN rest[n] ELSE more[n - requests]]
       ELSE /\ shown' = s
            /\ mirror' = m
            /\ open' = rest
            /\ UNCHANGED <<requests, toHost>>

\* processGetDataReply and processSetDataReply: the callback comes first, a
\* reply with another status is not shown.
ClientReceives ==
    /\ toClient # <<>>
    /\ LET a == Head(toClient)
           r == open[a.n]
       IN /\ answers' = Append(answers, [request |-> r, answer |-> a])
          /\ IF r.type = "get" /\ a.ok THEN ClientShows(r, a)
             ELSE /\ open' = [n \in DOMAIN open \ {a.n} |-> open[n]]
                  /\ UNCHANGED <<shown, mirror, requests, toHost>>
    /\ toClient' = Tail(toClient)
    /\ UNCHANGED hostVars

Next ==
    \/ \E g \in Gets : ClientGet(g)
    \/ \E s \in Sets : ClientSet(s)
    \/ \E w \in Writes : HostWrite(w)
    \/ \E id \in UserIds : HostRemove(id) \/ HostAdd(id) \/ HostUpdateMetadata(id)
    \/ \E id \in Range(SystemIds), b \in SystemBodies : HostUpdateSystem(id, b)
    \/ HostReceives
    \/ ClientReceives

Spec == Init /\ [][Next]_vars

-----------------------------------------------------------------------------
(* Properties *)

\* What a page of an array is, said by its members.
IsPage(part, items, page) ==
    /\ Len(part) = Cardinality({i \in DOMAIN items : i > page[1] /\ i <= page[1] + page[2]})
    /\ \A i \in DOMAIN part : part[i] = items[page[1] + i]

AsJson(body) == IF body = Empty THEN Braces ELSE body

\* What a callback gets for a get with status 200 is, decoded as its header
\* says, what was last written to that property and resource id, by whoever
\* it was: through setPropertyValue of the host, or a set request in any
\* encoding; its page, when one was asked for; nothing when it was removed.
\* Properties of the device itself cannot be had in an encoding (their
\* answer is empty), and of what a partial set leaves this says nothing.
AnswersAreRight ==
    \A x \in Range(answers) :
        LET r == x.request
            a == x.answer
        IN r.type = "get" /\ a.ok /\ (r.id \in ReadOnly => r.enc \notin Codecs) =>
             \E b \in a.allowed :
                IF r.page # <<>> /\ Has(b, "items") /\ r.enc \notin Codecs
                THEN /\ IsPage(a.body.items, b.items, r.page)
                     /\ a.total = Len(b.items)
                ELSE \/ Decoded(a.body, a.enc) = b
                     \/ r.enc \notin Codecs /\ a.body = AsJson(b)

\* A notification, decoded as its subscription says, carries a body that the
\* host had for the property when it was sent, whatever the encodings of the
\* subscriptions before it: the encoded body is reused from one subscription
\* to the next.
NoticesAreStored ==
    \A n \in Range(notices) : Decoded(n.data, n.enc) \in n.among

\* Facade, service and list look the value up each in its own way before they
\* write or append it: there is never a second value for the same resource
\* id, which no getter would find.
OneValueEach ==
    \A i, j \in DOMAIN values :
        values[i].id = values[j].id /\ values[i].resId = values[j].resId => i = j

\* What was set last is what is read, whoever set it and in whatever form, and
\* no older value stays beside it.
WrittenIsRead == AnswersAreRight /\ OneValueEach

\* The tooling's list, which follows by callbacks for single values and for
\* the whole catalog, shows each property of the client's map once and as it
\* is there.
MirrorFollows ==
    /\ Len(mirror) = Cardinality(DOMAIN shown)
    /\ Range(mirror) = {Entry(shown, id) : id \in DOMAIN shown}
=============================================================================
