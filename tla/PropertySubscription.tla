------------------------- MODULE PropertySubscription -------------------------
(***************************************************************************)
(* Subscriptions to properties.  Every device is both a client (one        *)
(* PropertyClientFacade per connection) and a host (PropertyHostFacade     *)
(* over a CommonRulesPropertyService).  The host keeps subscribers twice:  *)
(* the facade's list, which the application sees, and the service's list,  *)
(* which decides who is notified.                                          *)
(*                                                                         *)
(* Devices exchange messages over transports that keep the order between   *)
(* two devices.  A handler runs under the device mutex and is one action.  *)
(* Messages whose handler changes nothing (NAK, the reply of a client to   *)
(* a host's message) are not put on the wire.  A message is the fields of  *)
(* its JSON header that are read: command "none" is a header without one.  *)
(***************************************************************************)
EXTENDS Integers, Sequences, SequencesExt, FiniteSets, Lists

CONSTANTS
    Devices,
    Props,          \* ids of subscribable properties
    Connected,      \* <<d, p>>: d holds a ClientConnection to p
    Scenarios,      \* what the applications do: the subscriptions they use
                    \* (<<d, p, x>>: d subscribes to x of p) and what those
                    \* of hosts do besides
    NumIds,         \* 256: values of the request id counter
    MaxRequests,    \* bound: requests a device sends
    NoId            \* no subscribeId

ASSUME SubscriptionAssumption ==
    /\ Connected \subseteq Devices \X Devices
    /\ Scenarios \subseteq
            [uses : SUBSET (Devices \X Devices \X Props),
             hosts : SUBSET {"shutdown", "terminate", "remove", "set"}]
    /\ \A s \in Scenarios, d, p \in Devices, x \in Props :
            <<d, p, x>> \in s.uses => <<d, p>> \in Connected /\ d # p
    /\ NumIds \in Nat \ {0} /\ MaxRequests \in Nat /\ NoId \notin Nat

\* Hypotheses of the theorems, which the instances of the runs meet: no two
\* devices subscribe to the same property of a host; of two devices at most
\* one has a connection to the other; and no device sends so many requests
\* that its ids come again.
OneSubscriber ==
    \A s \in Scenarios, d, e, p \in Devices, x \in Props :
        <<d, p, x>> \in s.uses /\ <<e, p, x>> \in s.uses => d = e
OneWay == \A d, p \in Devices : <<d, p>> \in Connected => <<p, d>> \notin Connected
FewRequests == MaxRequests < NumIds

VARIABLES
    clientSubs,  \* clientSubs[d][p]: subscriptions_ of d's facade for p
    ruleSubs,    \* ruleSubs[d][p]: subscriptions_ of its property rules
    facadeSubs,  \* facadeSubs[p]: subscriptions_ of the host facade
    serviceSubs, \* serviceSubs[p]: subscriptions_ of the service
    counter,     \* request_id_counter_ of the device's Messenger
    sent,        \* number of requests a device has sent
    lastId,      \* subscribe ids handed out, by any host
    wire,        \* wire[d][p]: messages on their way from d to p
    rejected,    \* updates answered with a NAK: <<client, host, subscribeId>>
    scenario     \* what the applications of this behaviour do

vars == <<clientSubs, ruleSubs, facadeSubs, serviceSubs, counter, sent, lastId,
          wire, rejected, scenario>>
hostVars == <<facadeSubs, serviceSubs, lastId>>
clientVars == <<clientSubs, ruleSubs>>

SubIds == Nat \ {0}

\* ++request_id_counter_, an 8 bit counter.
NextRequestId(d) == (counter[d] + 1) % NumIds

Message(command, prop, id, req) ==
    [command |-> command, prop |-> prop, id |-> id, req |-> req]

\* The places of a list with an entry for property x.
Of(s, x) == {i \in 1 .. Len(s) : s[i].prop = x}

Drop(s, i) == IF i = 0 THEN s ELSE RemoveAt(s, i)

Push(w, d, p, m) == [w EXCEPT ![d][p] = Append(@, m)]

-----------------------------------------------------------------------------
Init ==
    /\ clientSubs = [d \in Devices |-> [p \in Devices |-> <<>>]]
    /\ ruleSubs = [d \in Devices |-> [p \in Devices |-> <<>>]]
    /\ facadeSubs = [p \in Devices |-> <<>>]
    /\ serviceSubs = [p \in Devices |-> <<>>]
    /\ counter = [d \in Devices |-> 0]
    /\ sent = [d \in Devices |-> 0]
    /\ lastId = 0
    /\ wire = [d \in Devices |-> [p \in Devices |-> <<>>]]
    /\ rejected = {}
    /\ scenario \in Scenarios

\* getNextRequestId and Messenger::send of one request.
SendRequest(d, p, command, prop, id) ==
    /\ sent[d] < MaxRequests
    /\ sent' = [sent EXCEPT ![d] = @ + 1]
    /\ counter' = [counter EXCEPT ![d] = NextRequestId(d)]
    /\ wire' = Push(wire, d, p, Message(command, prop, id, NextRequestId(d)))

\* sendSubscribeProperty with addPendingSubscription.
Subscribe(d, p, x) ==
    /\ <<d, p, x>> \in scenario.uses
    /\ clientSubs' = [clientSubs EXCEPT ![d][p] = Append(@,
            [prop |-> x, id |-> NoId, req |-> NextRequestId(d),
             state |-> "Subscribing"])]
    /\ SendRequest(d, p, "start", x, NoId)
    /\ UNCHANGED <<ruleSubs, facadeSubs, serviceSubs, lastId, rejected>>

AsUnsubscribing(subs, i, req) ==
    [subs EXCEPT ![i] = [@ EXCEPT !.req = req, !.state = "Unsubscribing"]]

\* sendUnsubscribeProperty with promoteSubscriptionAsUnsubscribing: the first
\* subscription to x.  The facade puts its subscribeId into the fields of
\* the header; createSubscriptionHeader copies only command and encoding.
Unsubscribe(d, p, x) ==
    LET i == First(Of(clientSubs[d][p], x)) IN
    /\ i # 0
    /\ clientSubs[d][p][i].state # "Unsubscribing"
    /\ clientSubs' = [clientSubs EXCEPT
            ![d][p] = AsUnsubscribing(clientSubs[d][p], i, NextRequestId(d))]
    /\ SendRequest(d, p, "end", x, NoId)
    /\ UNCHANGED <<ruleSubs, facadeSubs, serviceSubs, lastId, rejected>>

-----------------------------------------------------------------------------
\* Host side.

\* PropertyHostFacade::processSubscribeProperty, command "start": the service
\* makes up a new id; the facade's entry is built from the request.
HostStart(d, p, m, w) ==
    /\ lastId' = lastId + 1
    /\ serviceSubs' = [serviceSubs EXCEPT ![d] =
            Append(@, [muid |-> p, prop |-> m.prop, id |-> lastId + 1])]
    /\ facadeSubs' = [facadeSubs EXCEPT ![d] =
            Append(@, [muid |-> p, prop |-> m.prop])]
    /\ wire' = Push(w, d, p, Message("reply", m.prop, lastId + 1, m.req))
    /\ UNCHANGED <<clientVars, rejected>>

\* Mutants: the resource is not compared; only the id is.
UnsubscribedAny(d, m) ==
    First({i \in 1 .. Len(serviceSubs[d]) :
            m.id = NoId \/ serviceSubs[d][i].id = m.id})
UnsubscribedById(d, m) ==
    First({i \in 1 .. Len(serviceSubs[d]) : serviceSubs[d][i].id = m.id})

\* The entry unsubscribe(resource, subscribe_id) picks, or 0.
Unsubscribed(d, m) ==
    First({i \in 1 .. Len(serviceSubs[d]) :
            IF m.id # NoId THEN serviceSubs[d][i].id = m.id
            ELSE serviceSubs[d][i].prop = m.prop})

\* subscriptions_ of d's host facade without those of p to x.
FacadeWithout(d, p, x) ==
    Picked(facadeSubs[d], {i \in 1 .. Len(facadeSubs[d]) :
                            facadeSubs[d][i] # [muid |-> p, prop |-> x]})

\* Mutant: the facade's list is left alone.
HostEndKeeps(d, p, m, w) ==
    /\ serviceSubs' = [serviceSubs EXCEPT ![d] = Drop(@, Unsubscribed(d, m))]
    /\ wire' = Push(w, d, p, Message("reply", m.prop, m.id, m.req))
    /\ UNCHANGED <<clientVars, facadeSubs, lastId, rejected>>

\* The same with command "end".
HostEnd(d, p, m, w) ==
    /\ serviceSubs' = [serviceSubs EXCEPT ![d] = Drop(@, Unsubscribed(d, m))]
    /\ facadeSubs' = [facadeSubs EXCEPT ![d] = FacadeWithout(d, p, m.prop)]
    /\ wire' = Push(w, d, p, Message("reply", m.prop, m.id, m.req))
    /\ UNCHANGED <<clientVars, lastId, rejected>>

\* createShutdownSubscriptionHeader: an empty header when the service has no
\* subscription to x, of anyone.
ShutdownMessage(d, x, req) ==
    Message(IF Of(serviceSubs[d], x) # {} THEN "end" ELSE "none", x, NoId, req)

\* shutdownSubscription
Shutdown(d, p, x) ==
    /\ "shutdown" \in scenario.hosts
    /\ \E i \in 1 .. Len(facadeSubs[d]) :
            facadeSubs[d][i] = [muid |-> p, prop |-> x]
    /\ facadeSubs' = [facadeSubs EXCEPT ![d] = FacadeWithout(d, p, x)]
    /\ SendRequest(d, p, ShutdownMessage(d, x, NextRequestId(d)).command, x, NoId)
    /\ UNCHANGED <<clientVars, serviceSubs, lastId, rejected>>

\* terminateSubscriptionsToAllSubscribers: one message per entry, in order.
Terminate(d) ==
    LET n == Len(facadeSubs[d])
        messages == [i \in 1 .. n |->
            ShutdownMessage(d, facadeSubs[d][i].prop, (counter[d] + i) % NumIds)]
    IN
    /\ "terminate" \in scenario.hosts
    /\ n > 0 /\ sent[d] + n <= MaxRequests
    /\ wire' = [wire EXCEPT ![d] = [p \in Devices |-> wire[d][p] \o
            Picked(messages, {i \in 1 .. n : facadeSubs[d][i].muid = p})]]
    /\ sent' = [sent EXCEPT ![d] = @ + n]
    /\ counter' = [counter EXCEPT ![d] = (@ + n) % NumIds]
    /\ facadeSubs' = [facadeSubs EXCEPT ![d] = <<>>]
    /\ UNCHANGED <<clientVars, serviceSubs, lastId, rejected>>

\* Mutant: the service forgets its subscribers without telling them.
RemovePropertySilently(d, x) ==
    /\ "remove" \in scenario.hosts
    /\ Of(facadeSubs[d], x) # {}
    /\ facadeSubs' = [facadeSubs EXCEPT ![d] =
            Picked(@, 1 .. Len(@) \ Of(@, x))]
    /\ serviceSubs' = [serviceSubs EXCEPT ![d] =
            Picked(@, 1 .. Len(@) \ Of(@, x))]
    /\ UNCHANGED <<clientVars, lastId, counter, sent, wire, rejected>>

\* removeProperty, as far as subscriptions go.
RemoveProperty(d, x) ==
    /\ "remove" \in scenario.hosts
    /\ Of(facadeSubs[d], x) # {}
    /\ facadeSubs' = [facadeSubs EXCEPT ![d] =
            Picked(@, 1 .. Len(@) \ Of(@, x))]
    /\ UNCHANGED <<clientVars, serviceSubs, lastId, counter, sent, wire, rejected>>

\* setPropertyValue notifies: one broadcast per subscription of the service,
\* with resource and subscribeId but without a command.
SetProperty(d, x) ==
    LET subs == Picked(serviceSubs[d], Of(serviceSubs[d], x))
        n == Len(subs)
        updates == [i \in 1 .. n |->
                        Message("none", x, subs[i].id, (counter[d] + i) % NumIds)]
    IN
    /\ "set" \in scenario.hosts
    /\ n > 0 /\ sent[d] + n <= MaxRequests
    /\ wire' = [wire EXCEPT ![d] =
            [p \in Devices |-> IF p = d THEN wire[d][d] ELSE wire[d][p] \o updates]]
    /\ sent' = [sent EXCEPT ![d] = @ + n]
    /\ counter' = [counter EXCEPT ![d] = (@ + n) % NumIds]
    /\ UNCHANGED <<clientVars, hostVars, rejected>>

-----------------------------------------------------------------------------
\* Client side.

\* Mutants: a result without an id is stored, too; an entry there is kept.
RulesResultUnchecked(rules, x, id) ==
    Append(Drop(rules, First(Of(rules, x))), [prop |-> x, id |-> id])
RulesResultKeeps(rules, x, id) ==
    IF id = NoId \/ Of(rules, x) # {} THEN rules
    ELSE Append(rules, [prop |-> x, id |-> id])

\* processPropertySubscriptionResult: one entry per property, the newest.
RulesResult(rules, x, id) ==
    IF id = NoId THEN rules
    ELSE Append(Drop(rules, First(Of(rules, x))), [prop |-> x, id |-> id])

\* Which subscriptions a reply is about: those of its subscribeId or of the
\* request it answers.
\* Mutant: the request id is not compared.
AnsweredById(s, m) == s.id # NoId /\ s.id = m.id

Answered(s, m) == (s.id # NoId /\ s.id = m.id) \/ s.req = m.req

AsSubscribed(subs, i, id) ==
    [subs EXCEPT ![i] = [@ EXCEPT !.id = id, !.state = "Subscribed"]]

\* processSubscribePropertyReply, status 200.
ClientReply(d, p, m, w) ==
    LET subs == clientSubs[d][p]
        i == First({j \in 1 .. Len(subs) : Answered(subs[j], m)})
        ignored == \/ i = 0
                   \/ m.id = NoId /\ subs[i].state # "Unsubscribing"
                   \/ subs[i].state = "Subscribed"
    IN
    /\ wire' = w
    /\ IF ignored THEN UNCHANGED clientVars
       ELSE /\ clientSubs' = [clientSubs EXCEPT ![d][p] =
                    IF subs[i].state = "Unsubscribing" THEN Drop(subs, i)
                    ELSE AsSubscribed(subs, i, m.id)]
            /\ ruleSubs' = [ruleSubs EXCEPT ![d][p] =
                    RulesResult(@, subs[i].prop, m.id)]
    /\ UNCHANGED <<hostVars, rejected>>

\* handleUnsubscriptionNotification: the host ends a subscription.
ClientEnd(d, p, m, w) ==
    /\ clientSubs' = [clientSubs EXCEPT ![d][p] = Drop(@,
            First({i \in 1 .. Len(@) :
                    (@[i].id # NoId /\ @[i].id = m.id) \/ @[i].prop = m.prop}))]
    /\ wire' = Push(w, d, p, Message("reply", m.prop, NoId, m.req))
    /\ UNCHANGED <<ruleSubs, hostVars, rejected>>

\* A SubscribeProperty message without a command is answered with a NAK.
Reject(d, p, m, w) ==
    /\ wire' = w
    /\ rejected' = IF m.id = NoId THEN rejected ELSE rejected \cup {<<d, p, m.id>>}
    /\ UNCHANGED <<clientVars, hostVars>>

\* Messenger::processInput and processSubscribeProperty: d takes the next
\* message of p.  An "end" goes to the client side if d has a connection to
\* p, to the host side otherwise; a reply reaches a connection or nobody.
Receive(d, p) ==
    LET m == Head(wire[p][d])
        w == [wire EXCEPT ![p][d] = Tail(@)]
    IN
    /\ wire[p][d] # <<>>
    /\ \/ m.command = "start" /\ HostStart(d, p, m, w)
       \/ m.command = "end" /\ <<d, p>> \in Connected /\ ClientEnd(d, p, m, w)
       \/ m.command = "end" /\ <<d, p>> \notin Connected /\ HostEnd(d, p, m, w)
       \/ m.command = "reply" /\ <<d, p>> \in Connected /\ ClientReply(d, p, m, w)
       \/ /\ m.command = "reply" /\ <<d, p>> \notin Connected
          /\ wire' = w /\ UNCHANGED <<clientVars, hostVars, rejected>>
       \/ m.command = "none" /\ Reject(d, p, m, w)
    /\ UNCHANGED <<counter, sent>>

Next ==
    /\ \E d \in Devices :
        \/ \E x \in Props : RemoveProperty(d, x) \/ SetProperty(d, x)
        \/ \E p \in Devices, x \in Props :
            Subscribe(d, p, x) \/ Unsubscribe(d, p, x) \/ Shutdown(d, p, x)
        \/ Terminate(d)
        \/ \E p \in Devices : Receive(d, p)
    /\ UNCHANGED scenario

Spec == Init /\ [][Next]_vars

\* The transport delivers what was sent: every device keeps reading its ports.
FairSpec == Spec /\ \A d, p \in Devices : WF_vars(Receive(d, p) /\ UNCHANGED scenario)

-----------------------------------------------------------------------------
States == {"Subscribing", "Subscribed", "Unsubscribing"}

Messages ==
    [command : {"start", "end", "reply", "none"}, prop : Props,
     id : SubIds \cup {NoId}, req : 0 .. NumIds - 1]

\* Every variable keeps its type.
TypeOK ==
    /\ clientSubs \in [Devices -> [Devices -> Seq(
            [prop : Props, id : SubIds \cup {NoId}, req : 0 .. NumIds - 1,
             state : States])]]
    /\ ruleSubs \in [Devices -> [Devices -> Seq([prop : Props, id : SubIds])]]
    /\ facadeSubs \in [Devices -> Seq([muid : Devices, prop : Props])]
    /\ serviceSubs \in [Devices ->
            Seq([muid : Devices, prop : Props, id : SubIds])]
    /\ counter \in [Devices -> 0 .. NumIds - 1]
    /\ sent \in [Devices -> 0 .. MaxRequests]
    /\ lastId \in Nat
    /\ wire \in [Devices -> [Devices -> Seq(Messages)]]
    /\ rejected \subseteq Devices \X Devices \X SubIds
    /\ scenario \in Scenarios

\* Subscribe ids d holds for x of p, and those p's service serves d, in order.
Held(d, p, x) ==
    LET subs == clientSubs[d][p]
    IN  Picked([i \in 1 .. Len(subs) |-> subs[i].id], Of(subs, x))

ServedIds(d, p, x) ==
    LET subs == serviceSubs[p]
    IN  Picked([i \in 1 .. Len(subs) |-> subs[i].id],
               {i \in 1 .. Len(subs) : subs[i].muid = d /\ subs[i].prop = x})

\* In this behaviour d subscribes to x of p.
Uses(d, p, x) == <<d, p, x>> \in scenario.uses

Quiet(d, p) == wire[d][p] = <<>> /\ wire[p][d] = <<>>

\* What a client shows as Subscribed is served: the host's service has the
\* entry with that subscribeId, so the client is notified of changes.
HostServes ==
    \A d, p \in Devices, x \in Props : \A i \in 1 .. Len(clientSubs[d][p]) :
        LET s == clientSubs[d][p][i] IN
        Uses(d, p, x) /\ s.prop = x /\ s.state = "Subscribed" =>
            \E j \in 1 .. Len(serviceSubs[p]) :
                serviceSubs[p][j] = [muid |-> d, prop |-> x, id |-> s.id]

\* With no message under way, client and service list the same ids in the
\* same order, whatever starts, ends and replies crossed before.
Agreement ==
    \A d, p \in Devices, x \in Props :
        Uses(d, p, x) /\ scenario.hosts = {} /\ Quiet(d, p) =>
            Held(d, p, x) = ServedIds(d, p, x)

\* Once a client has left a property the host's list shows it no more.
UnsubscribedIsRemoved ==
    \A d, p \in Devices, x \in Props :
        Uses(d, p, x) /\ scenario.hosts = {} /\ Quiet(d, p) /\ Held(d, p, x) = <<>>
        => \A i \in 1 .. Len(facadeSubs[p]) :
            facadeSubs[p][i] # [muid |-> d, prop |-> x]

\* The rules, which map a subscribeId to its property when an update comes,
\* know the newest subscription that is in force.
RulesKnowNewest ==
    \A d, p \in Devices, x \in Props :
        LET subs == clientSubs[d][p]
            on == Picked(subs, {i \in 1 .. Len(subs) :
                                subs[i].prop = x /\ subs[i].state = "Subscribed"})
        IN  Uses(d, p, x) /\ on # <<>> => \E j \in 1 .. Len(ruleSubs[d][p]) :
                ruleSubs[d][p][j] = [prop |-> x, id |-> Last(on).id]

\* What a client shows as Subscribed is in force at both ends: the host has it
\* in the list it notifies from, and the client's rules can map the updates of
\* the newest subscription to its property; whatever starts and ends crossed.
SubscribedIsServed == HostServes /\ RulesKnowNewest

\* A subscriber takes the updates of its subscription: a client that is
\* Subscribed does not answer one with a NAK.
UpdatesAccepted ==
    \A d, p \in Devices, x \in Props : \A i \in 1 .. Len(clientSubs[d][p]) :
        Uses(d, p, x) => <<d, p, clientSubs[d][p][i].id>> \notin rejected

\* When the applications stop asking, every subscription ends up Subscribed
\* or gone: no request stays unanswered and no answer is dropped.
Settles ==
    <>[] \A d, p \in Devices : \A i \in 1 .. Len(clientSubs[d][p]) :
            clientSubs[d][p][i].state = "Subscribed"
=============================================================================
