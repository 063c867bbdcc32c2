----------------------------- MODULE SessionSetup -----------------------------
(***************************************************************************)
(* One device as MIDI-CI initiator: it discovers peers, keeps a            *)
(* ClientConnection to each that answers, asks for its capabilities, loads *)
(* its ResourceList and then, by itself, DeviceInfo, AllCtrlList and       *)
(* ProgramList.  Meanwhile the application gets properties of its own,     *)
(* also through a connection object that has been replaced since.  The     *)
(* connection list of the tooling (CIDeviceModel) follows by callback.     *)
(*                                                                         *)
(* Each peer is reached over a transport that keeps the order.  A handler  *)
(* runs under the device mutex and is one action; getPropertyData runs     *)
(* under the mutex of its connection, and is one, too.  The body of a      *)
(* reply is named by the property it is the value of.  Endpoint and        *)
(* profile inquiries change nothing here and are left out.                 *)
(***************************************************************************)
EXTENDS Integers, Sequences, SequencesExt

CONSTANTS
    Peers,
    Resources,      \* property ids
    ResourceList,   \* the property that lists the others
    DeviceInfo, AllCtrlList, ProgramList, \* those fetched once they are listed
    Catalog,        \* Catalog[p]: properties in the ResourceList of p
    Failing,        \* properties that peers answer with an error status
    Reporting,      \* peers whose process inquiry offers message reports
    Wanted,         \* properties the application asks for
    NumIds,         \* 256: values of the request id counter
    FirstId,        \* its value after the requests of the past
    MaxDiscoveries, MaxGoodbyes, MaxGets, \* bounds
    Absent, Empty   \* a property that is not listed, or has no value yet

Automatic == {DeviceInfo, AllCtrlList, ProgramList}

ASSUME SessionAssumption ==
    /\ {ResourceList} \cup Automatic \cup Wanted \subseteq Resources
    /\ ResourceList \notin Automatic
    /\ Catalog \in [Peers -> SUBSET Resources]
    /\ Failing \subseteq Resources \ {ResourceList}
    /\ Reporting \subseteq Peers
    /\ NumIds \in Nat /\ NumIds > 3 /\ FirstId \in 0 .. NumIds - 1
    /\ Absent \notin Resources /\ Empty \notin Resources
    /\ {MaxDiscoveries, MaxGoodbyes, MaxGets} \subseteq Nat

VARIABLES
    conns,    \* ClientConnection objects, in the order of their creation
    current,  \* connections_: the index of the one to a peer, or 0
    model,    \* connections of CIDeviceModel: [conn, shown], or NoModel
    toPeer,   \* messages on their way to a peer
    fromPeer, \* and back
    counter,  \* request_id_counter_
    calls,    \* history: the application's getPropertyData calls
    discoveries, goodbyes  \* numbers of both, bounded

vars == <<conns, current, model, toPeer, fromPeer, counter, calls,
          discoveries, goodbyes>>
bounds == <<discoveries, goodbyes>>

RequestId == 0 .. NumIds - 1
NoModel == [conn |-> 0]
NoAnswer == Absent

\* A message; `by` is the connection a get request belongs to and is not on
\* the wire.
Message(type, id, prop, by) ==
    [type |-> type, id |-> id, prop |-> prop, by |-> by]
Plain(type) == Message(type, 0, ResourceList, 0)
Get(id, prop, by) == Message("get", id, prop, by)

-----------------------------------------------------------------------------
Init ==
    /\ conns = <<>>
    /\ current = [p \in Peers |-> 0]
    /\ model = [p \in Peers |-> NoModel]
    /\ toPeer = [p \in Peers |-> <<>>]
    /\ fromPeer = [p \in Peers |-> <<>>]
    /\ counter = FirstId
    /\ calls = <<>>
    /\ discoveries = 0
    /\ goodbyes = 0

\* sendDiscovery: one broadcast.
SendDiscovery ==
    /\ discoveries < MaxDiscoveries
    /\ discoveries' = discoveries + 1
    /\ toPeer' = [p \in Peers |-> Append(toPeer[p], Plain("discovery"))]
    /\ UNCHANGED <<conns, current, model, fromPeer, counter, calls, goodbyes>>

\* What a device sends back: processDiscovery and the other inquiries.
Answer(m) ==
    CASE m.type = "discovery" -> <<Plain("discoveryReply")>>
      [] m.type = "propCaps"  -> <<Plain("propCapsReply")>>
      [] m.type = "procCaps"  -> <<Plain("procCapsReply")>>
      [] m.type = "get"       -> <<[m EXCEPT !.type = "getReply"]>>
      [] m.type = "report"    -> <<>>

PeerAnswers(p) ==
    /\ toPeer[p] # <<>>
    /\ toPeer' = [toPeer EXCEPT ![p] = Tail(@)]
    /\ fromPeer' = [fromPeer EXCEPT ![p] = @ \o Answer(Head(toPeer[p]))]
    /\ UNCHANGED <<conns, current, model, counter, calls, bounds>>

\* A peer sends InvalidateMUID, in the 18 bytes that processInput waits for (this
\* library writes 17, see CIMessages); whose MUID it names is not looked at.
Goodbye(p) ==
    /\ goodbyes < MaxGoodbyes
    /\ goodbyes' = goodbyes + 1
    /\ fromPeer' = [fromPeer EXCEPT ![p] = Append(@, Plain("invalidate"))]
    /\ UNCHANGED <<conns, current, model, toPeer, counter, calls, discoveries>>

-----------------------------------------------------------------------------
\* Mutant: the counter is read but not advanced.
NextIdStuck(i) == counter

\* The id of the i-th request from now: ++request_id_counter_, 8 bits.
NextId(i) == (counter + i) % NumIds

\* Open requests and callbacks are maps from request ids.
Put(f, id, x) == [i \in DOMAIN f \cup {id} |-> IF i = id THEN x ELSE f[i]]

\* The application calls getPropertyData on a connection it holds, be it
\* still the current one or not.
GetProperty(c, x) ==
    /\ Len(calls) < MaxGets
    /\ conns' = [conns EXCEPT ![c].open = Put(@, NextId(1), x),
                              ![c].waiting = Put(@, NextId(1), Len(calls) + 1)]
    /\ calls' = Append(calls, [conn |-> c, prop |-> x, answer |-> NoAnswer])
    /\ counter' = NextId(1)
    /\ toPeer' = [toPeer EXCEPT ![conns[c].peer] = Append(@, Get(NextId(1), x, c))]
    /\ UNCHANGED <<current, model, fromPeer, bounds>>

NewConnection(p) ==
    [peer |-> p, open |-> <<>>, waiting |-> <<>>, listed |-> {},
     values |-> [x \in Resources |-> Absent],
     reporting |-> FALSE, allCtrl |-> FALSE, reported |-> FALSE]

\* on_connections_changed: CIDeviceModel adds a model for a MUID it does not
\* know and drops those that are gone; others stay as they are.
Synced(m, c, values) ==
    IF c = 0 THEN NoModel
    ELSE IF m = NoModel THEN [conn |-> c, shown |-> values] ELSE m

\* Mutant: the connection is stored over the one there is.
ModelOfNewStored(p) ==
    LET new == NewConnection(p) IN Synced(model[p], Len(conns) + 1, new.values)

\* removeConnection and storeConnection call back one after the other.
ModelOfNew(p) ==
    LET new == NewConnection(p)
        removed == IF current[p] # 0 THEN Synced(model[p], 0, new.values)
                   ELSE model[p]
    IN  Synced(removed, Len(conns) + 1, new.values)

\* Mutant: process inquiry is not asked for.
GreetingShort == <<Plain("propCaps")>>

\* What handleNewEndpoint sends.
Greeting == <<Plain("propCaps"), Plain("procCaps")>>

\* processDiscoveryReply with handleNewEndpoint.
NewEndpoint(p) ==
    /\ conns' = Append(conns, NewConnection(p))
    /\ current' = [current EXCEPT ![p] = Len(conns) + 1]
    /\ model' = [model EXCEPT ![p] = ModelOfNew(p)]
    /\ toPeer' = [toPeer EXCEPT ![p] = @ \o Greeting]
    /\ UNCHANGED <<counter, calls>>

\* processInvalidateMUID
Invalidate(p) ==
    /\ current' = [current EXCEPT ![p] = 0]
    /\ model' = [model EXCEPT ![p] = NoModel]
    /\ UNCHANGED <<conns, toPeer, counter, calls>>

\* requestPropertyList: the id is always 0.
RequestList(p) ==
    LET c == current[p] IN
    /\ c # 0
    /\ conns' = [conns EXCEPT ![c].open = Put(@, 0, ResourceList)]
    /\ toPeer' = [toPeer EXCEPT ![p] = Append(@, Get(0, ResourceList, c))]
    /\ UNCHANGED <<current, model, counter, calls>>

\* processProcessInquiryReply
SetFeatures(p) ==
    /\ current[p] # 0
    /\ conns' = [conns EXCEPT ![current[p]].reporting = p \in Reporting]
    /\ UNCHANGED <<current, model, toPeer, counter, calls>>

\* Values once property x got a body: setPropertyValue and, for the list,
\* the catalog callback, which keeps and adds what is listed.  A body that
\* is no list makes parseResourceList throw and the catalog stays.
NewCatalog(conn, x, body) == x = ResourceList /\ body = ResourceList
Values(conn, x, body) ==
    LET set == [conn.values EXCEPT ![x] = body] IN
    IF ~NewCatalog(conn, x, body) THEN set
    ELSE [y \in Resources |->
            IF y \notin Catalog[conn.peer] THEN Absent
            ELSE IF set[y] = Absent THEN Empty ELSE set[y]]

\* Properties propertyValueUpdated requests, in order.
Follow(conn, x, body) ==
    LET get(y) == IF y \in Catalog[conn.peer] THEN <<y>> ELSE <<>> IN
    IF NewCatalog(conn, x, body)
    THEN get(DeviceInfo) \o get(AllCtrlList) \o get(ProgramList) ELSE <<>>

\* Mutants: a reply with an error is not told; the callback stays.
CalledIfFine(conn, m) ==
    IF m.id \in DOMAIN conn.waiting /\ m.prop \notin Failing
    THEN [calls EXCEPT ![conn.waiting[m.id]].answer = m.prop] ELSE calls

\* The application's callback gets the reply, whatever its status.
Called(conn, m) ==
    IF m.id \in DOMAIN conn.waiting
    THEN [calls EXCEPT ![conn.waiting[m.id]].answer = m.prop] ELSE calls

\* open_requests_ after these gets: one takes the place of another of its id.
Opened(open, gets) ==
    LET new == {NextId(k) : k \in 1 .. Len(gets)} IN
    [id \in DOMAIN open \cup new |->
        IF id \in new THEN gets[CHOOSE k \in 1 .. Len(gets) : NextId(k) = id]
        ELSE open[id]]

Without(f, id) == [i \in DOMAIN f \ {id} |-> f[i]]

\* Mutants: a failed request stays open; a callback is kept.
ClosedIfFine(conn, m) ==
    [conn EXCEPT !.open = IF m.prop \in Failing THEN @ ELSE Without(@, m.id),
                 !.waiting = Without(@, m.id)]
ClosedHalf(conn, m) == [conn EXCEPT !.open = Without(@, m.id)]

\* The callback is taken before it is called; the request is erased last,
\* together with one that has taken its id meanwhile.
Closed(conn, m) ==
    [conn EXCEPT !.open = Without(@, m.id), !.waiting = Without(@, m.id)]

\* processGetDataReply for an open request of the current connection.
TakeReply(p, m) ==
    LET c == current[p]
        conn == conns[c]
        x == conn.open[m.id]
        fine == m.prop \notin Failing
        gets == IF fine THEN Follow(conn, x, m.prop) ELSE <<>>
        n == Len(gets)
        report == fine /\ x = AllCtrlList /\ conn.reporting
        values == IF fine THEN Values(conn, x, m.prop) ELSE conn.values
        sent == [conn EXCEPT
            !.open = Opened(@, gets),
            !.values = values,
            !.listed = IF fine /\ NewCatalog(conn, x, m.prop) THEN Catalog[p] ELSE @,
            !.allCtrl = @ \/ (fine /\ x = AllCtrlList),
            !.reported = @ \/ report]
    IN
    /\ c # 0
    /\ m.id \in DOMAIN conn.open
    /\ calls' = Called(conn, m)
    /\ conns' = [conns EXCEPT ![c] = Closed(sent, m)]
    /\ model' = IF model[p] # NoModel THEN [model EXCEPT ![p].shown = values]
                ELSE model
    /\ counter' = NextId(n)
    /\ toPeer' = [toPeer EXCEPT ![p] = @
            \o [k \in 1 .. n |-> Get(NextId(k), gets[k], c)]
            \o (IF report THEN <<Plain("report")>> ELSE <<>>)]
    /\ UNCHANGED current

\* A message for a connection that is gone, or a reply nobody waits for.
Ignored(p, m) ==
    \/ current[p] = 0 /\ m.type \in {"propCapsReply", "procCapsReply", "getReply"}
    \/ /\ current[p] # 0 /\ m.type = "getReply"
       /\ m.id \notin DOMAIN conns[current[p]].open

\* Messenger::processInput
Receive(p) ==
    LET m == Head(fromPeer[p]) IN
    /\ fromPeer[p] # <<>>
    /\ fromPeer' = [fromPeer EXCEPT ![p] = Tail(@)]
    /\ \/ m.type = "discoveryReply" /\ NewEndpoint(p)
       \/ m.type = "invalidate" /\ Invalidate(p)
       \/ m.type = "propCapsReply" /\ RequestList(p)
       \/ m.type = "procCapsReply" /\ SetFeatures(p)
       \/ m.type = "getReply" /\ TakeReply(p, m)
       \/ /\ Ignored(p, m)
          /\ UNCHANGED <<conns, current, model, toPeer, counter, calls>>
    /\ UNCHANGED bounds

Next ==
    \/ SendDiscovery
    \/ \E p \in Peers : PeerAnswers(p) \/ Goodbye(p) \/ Receive(p)
    \/ \E c \in 1 .. Len(conns), x \in Wanted : GetProperty(c, x)

Spec == Init /\ [][Next]_vars

\* Peers and the device keep reading their ports, and no message is lost.
FairSpec ==
    Spec /\ \A p \in Peers : WF_vars(PeerAnswers(p)) /\ WF_vars(Receive(p))

-----------------------------------------------------------------------------
Bodies == Resources \cup {Absent, Empty}
Types == {"discovery", "propCaps", "procCaps", "get", "report",
          "discoveryReply", "propCapsReply", "procCapsReply", "getReply",
          "invalidate"}
Messages == [type : Types, id : RequestId, prop : Resources, by : 0 .. Len(conns)]

ConnectionOK(conn) ==
    /\ conn.peer \in Peers
    /\ DOMAIN conn.waiting \subseteq DOMAIN conn.open
    /\ DOMAIN conn.open \subseteq RequestId
    /\ \A id \in DOMAIN conn.open : conn.open[id] \in Resources
    /\ \A id \in DOMAIN conn.waiting : conn.waiting[id] \in 1 .. Len(calls)
    /\ conn.listed \subseteq Resources
    /\ conn.values \in [Resources -> Bodies]
    /\ {conn.reporting, conn.allCtrl, conn.reported} \subseteq BOOLEAN

\* Every variable keeps its type; a callback waits only for an open request.
TypeOK ==
    /\ \A c \in 1 .. Len(conns) : ConnectionOK(conns[c])
    /\ current \in [Peers -> 0 .. Len(conns)]
    /\ DOMAIN model = Peers
    /\ toPeer \in [Peers -> Seq(Messages)] /\ fromPeer \in [Peers -> Seq(Messages)]
    /\ counter \in RequestId
    /\ \A n \in 1 .. Len(calls) :
        calls[n] \in [conn : 1 .. Len(conns), prop : Resources, answer : Bodies]
    /\ discoveries \in 0 .. MaxDiscoveries /\ goodbyes \in 0 .. MaxGoodbyes

\* What the tooling lists is what the device has: the same connections, the
\* very objects, with their current property values.
ModelFollows ==
    \A p \in Peers :
        model[p] = IF current[p] = 0 THEN NoModel
                   ELSE [conn |-> current[p], shown |-> conns[current[p]].values]

\* Whatever requests are under way, a reply sets the value of the property
\* it is about and of no other.
OwnValue ==
    \A c \in 1 .. Len(conns), x \in Resources :
        conns[c].values[x] \in {Absent, Empty, x}

\* A getPropertyData callback gets the reply to its own request.
OwnCallback ==
    \A n \in 1 .. Len(calls) : calls[n].answer \in {NoAnswer, calls[n].prop}

\* Requests of connection c that are not answered yet.
InFlight(c) ==
    LET p == conns[c].peer IN
    {m \in ToSet(toPeer[p]) \cup ToSet(fromPeer[p]) :
        m.type \in {"get", "getReply"} /\ m.by = c}

\* No request stays open without an answer to come, and none but the list,
\* whose fixed id may be in use twice, is forgotten while its answer comes.
OpenIsAwaited ==
    \A p \in Peers : current[p] # 0 =>
        LET conn == conns[current[p]]
            open == {<<id, conn.open[id]>> : id \in DOMAIN conn.open}
            awaited == {<<m.id, m.prop>> : m \in InFlight(current[p])}
        IN  /\ open \subseteq awaited
            /\ \A r \in awaited \ open : r[2] = ResourceList

\* Once AllCtrlList is there, a peer that offers MIDI message reports has been
\* asked for one: its features are known by then.
ReportRequested ==
    \A c \in 1 .. Len(conns) :
        conns[c].allCtrl /\ conns[c].peer \in Reporting => conns[c].reported

\* Replies find their requests whatever is under way at once: the value goes to
\* its property, the callback gets its own answer, and no request stays open
\* without an answer to come; and what one reply sets is there when the next
\* depends on it.
RepliesMatch == OwnValue /\ OwnCallback /\ OpenIsAwaited /\ ReportRequested

\* Every connection that stays gets loaded: its catalog, and each of the
\* Automatic properties that is listed.
Loaded(c) ==
    LET conn == conns[c] IN
    /\ conn.listed = Catalog[conn.peer]
    /\ \A x \in (Automatic \cap conn.listed) \ Failing : conn.values[x] = x

ConnectionsLoad == <>[] \A p \in Peers : current[p] # 0 => Loaded(current[p])

\* Every call through a connection that stays is answered, also with an error.
CallsAnswered ==
    <>[] \A n \in 1 .. Len(calls) :
        \/ calls[n].conn \notin {current[p] : p \in Peers}
        \/ calls[n].answer # NoAnswer

\* Discovery leads to a loaded connection, and every call through a connection
\* that stays comes back, though connections are replaced while replies of the
\* old ones are under way.
AllLoaded == ConnectionsLoad /\ CallsAnswered
=============================================================================
