------------------------- MODULE SessionSetup_proofs -------------------------
(***************************************************************************)
(* Proofs about SessionSetup, for any peers, properties and bounds.  What  *)
(* the tooling lists is proved of every behaviour; that replies match      *)
(* their requests only until the 8-bit request ids come round, as the code *)
(* gives out an id again whether or not its request is still open.         *)
(***************************************************************************)
EXTENDS SessionSetup, SequenceTheorems, TLAPS

Partial(S) == UNION {[D -> S] : D \in SUBSET RequestId}

Connection == [peer : Peers, open : Partial(Resources), waiting : Partial(Nat),
               listed : SUBSET Resources, values : [Resources -> Bodies],
               reporting : BOOLEAN, allCtrl : BOOLEAN, reported : BOOLEAN]
Inquiries == {"discovery", "propCaps", "procCaps", "get", "report"}
Inquiry == [type : Inquiries, id : RequestId, prop : Resources, by : Nat]
Reply == [type : Types \ Inquiries, id : RequestId, prop : Resources, by : Nat]
Call == [conn : Nat, prop : Resources, answer : Bodies]

Shape ==
    /\ conns \in Seq(Connection)
    /\ current \in [Peers -> Nat]
    /\ DOMAIN model = Peers
    /\ toPeer \in [Peers -> Seq(Inquiry)] /\ fromPeer \in [Peers -> Seq(Reply)]
    /\ counter \in RequestId
    /\ calls \in Seq(Call)
    /\ discoveries \in 0 .. MaxDiscoveries /\ goodbyes \in 0 .. MaxGoodbyes

ByKnown(line, n) == \A i \in 1 .. Len(line) : line[i].by <= n

\* What is numbered exists, and a connection is to the peer it is kept for.
Numbered ==
    /\ \A p \in Peers : current[p] <= Len(conns)
    /\ \A p \in Peers : current[p] # 0 => conns[current[p]].peer = p
    /\ \A p \in Peers : ByKnown(toPeer[p], Len(conns)) /\ ByKnown(fromPeer[p], Len(conns))
    /\ \A n \in 1 .. Len(calls) : calls[n].conn \in 1 .. Len(conns)

\* A callback waits for an open request and belongs to a call.
CallbacksHeld ==
    \A c \in 1 .. Len(conns) :
        /\ DOMAIN conns[c].waiting \subseteq DOMAIN conns[c].open
        /\ \A id \in DOMAIN conns[c].waiting : conns[c].waiting[id] \in 1 .. Len(calls)

Structure == Shape /\ Numbered /\ CallbacksHeld

-----------------------------------------------------------------------------
\* A get request or the reply to one.
Getting(m) == m.type \in {"get", "getReply"}

\* Of the requests on one line, those with an id of the counter differ in it.
Fresh(line, count) ==
    \A i \in 1 .. Len(line) : Getting(line[i]) =>
        /\ line[i].id <= count
        /\ line[i].id = 0 => line[i].prop = ResourceList

Once(line) ==
    \A i, j \in 1 .. Len(line) :
        Getting(line[i]) /\ Getting(line[j]) /\ line[i].id = line[j].id
        => line[i].id = 0 \/ i = j

Apart(to, from) ==
    \A i \in 1 .. Len(to), j \in 1 .. Len(from) :
        Getting(to[i]) /\ Getting(from[j]) /\ to[i].id = from[j].id => to[i].id = 0

\* A message with the id of an open request is about the same property; one
\* of this very connection is open, unless it is the list.
Same(line, c, open) ==
    \A i \in 1 .. Len(line) : Getting(line[i]) =>
        /\ line[i].id \in DOMAIN open => line[i].prop = open[line[i].id]
        /\ line[i].by = c /\ line[i].id # 0 => line[i].id \in DOMAIN open

\* The request has a message on the line.
Comes(line, c, id, x) ==
    \E i \in 1 .. Len(line) :
        /\ Getting(line[i])
        /\ line[i].by = c /\ line[i].id = id /\ line[i].prop = x

Matched(to, from, c, open) ==
    /\ Same(to, c, open) /\ Same(from, c, open)
    /\ \A id \in DOMAIN open : Comes(to, c, id, open[id]) \/ Comes(from, c, id, open[id])

Numbers(to, from, count) ==
    Fresh(to, count) /\ Fresh(from, count) /\ Once(to) /\ Once(from) /\ Apart(to, from)

\* The features of a peer come before the reply to any request.
Has(line, type) == \E i \in 1 .. Len(line) : line[i].type = type
FirstOf(line, type, c) ==
    \A i \in 1 .. Len(line) : Getting(line[i]) /\ line[i].by = c =>
        \E j \in 1 .. i - 1 : line[j].type = type

FeaturesFirst(to, from, c) ==
    /\ Has(from, "procCapsReply") \/ Has(to, "procCaps")
    /\ Has(from, "procCapsReply") \/ FirstOf(to, "procCaps", c)
    /\ FirstOf(from, "procCapsReply", c)

\* Callbacks are of calls for the property that is open; the list has none.
Tidy(conn, count, made) ==
    /\ \A id \in DOMAIN conn.open :
        id <= count /\ (id = 0 => conn.open[id] = ResourceList)
    /\ \A id \in DOMAIN conn.waiting :
        id # 0 /\ made[conn.waiting[id]].prop = conn.open[id]

LineOK(to, from, count, c, open) ==
    Numbers(to, from, count) /\ (c # 0 => Matched(to, from, c, open))

Lines ==
    \A p \in Peers :
        LineOK(toPeer[p], fromPeer[p], counter, current[p], conns[current[p]].open)

FeaturesOK(to, from, c, reporting) == c # 0 => reporting \/ FeaturesFirst(to, from, c)

FeaturesKnown ==
    \A p \in Reporting :
        FeaturesOK(toPeer[p], fromPeer[p], current[p], conns[current[p]].reporting)

AllTidy == \A c \in 1 .. Len(conns) : Tidy(conns[c], counter, calls)

Inductive == Lines /\ FeaturesKnown /\ AllTidy /\ OwnValue /\ OwnCallback
             /\ ReportRequested

-----------------------------------------------------------------------------
(* The operators of the model.                                             *)

LEMMA Constants ==
    /\ {DeviceInfo, AllCtrlList, ProgramList, ResourceList} \subseteq Resources
    /\ Wanted \subseteq Resources /\ ResourceList # AllCtrlList
    /\ NumIds \in Nat /\ NumIds > 3 /\ 0 \in RequestId /\ FirstId \in RequestId
    /\ RequestId \subseteq Nat
  BY SessionAssumption DEF Automatic, RequestId

LEMMA PartialHas ==
    ASSUME NEW S, NEW f \in Partial(S)
    PROVE  /\ DOMAIN f \subseteq RequestId /\ f = [i \in DOMAIN f |-> f[i]]
           /\ \A i \in DOMAIN f : f[i] \in S
  BY DEF Partial

LEMMA PartialIs ==
    ASSUME NEW S, NEW f, DOMAIN f \subseteq RequestId, f = [i \in DOMAIN f |-> f[i]],
           \A i \in DOMAIN f : f[i] \in S
    PROVE  f \in Partial(S)
<1>1. f \in [DOMAIN f -> S]
  OBVIOUS
<1> QED
  BY <1>1 DEF Partial

LEMMA PutIs ==
    ASSUME NEW S, NEW f \in Partial(S), NEW id \in RequestId, NEW x \in S
    PROVE  /\ Put(f, id, x) \in Partial(S)
           /\ DOMAIN Put(f, id, x) = DOMAIN f \cup {id}
           /\ \A i \in DOMAIN Put(f, id, x) :
                Put(f, id, x)[i] = IF i = id THEN x ELSE f[i]
<1> DEFINE g == Put(f, id, x)
<1>1. /\ DOMAIN g = DOMAIN f \cup {id} /\ g = [i \in DOMAIN g |-> g[i]]
      /\ \A i \in DOMAIN g : g[i] = IF i = id THEN x ELSE f[i]
  BY DEF Put
<1>2. DOMAIN f \subseteq RequestId /\ \A i \in DOMAIN f : f[i] \in S
  BY PartialHas
<1> HIDE DEF g
<1>3. DOMAIN g \subseteq RequestId /\ \A i \in DOMAIN g : g[i] \in S
  BY <1>1, <1>2
<1>4. g \in Partial(S)
  BY <1>1, <1>3, PartialIs
<1> QED
  BY <1>1, <1>4 DEF g

LEMMA WithoutIs ==
    ASSUME NEW S, NEW f \in Partial(S), NEW id
    PROVE  /\ Without(f, id) \in Partial(S)
           /\ DOMAIN Without(f, id) = DOMAIN f \ {id}
           /\ \A i \in DOMAIN Without(f, id) : Without(f, id)[i] = f[i]
<1> DEFINE g == Without(f, id)
<1>1. /\ DOMAIN g = DOMAIN f \ {id} /\ g = [i \in DOMAIN g |-> g[i]]
      /\ \A i \in DOMAIN g : g[i] = f[i]
  BY DEF Without
<1>2. DOMAIN f \subseteq RequestId /\ \A i \in DOMAIN f : f[i] \in S
  BY PartialHas
<1> HIDE DEF g
<1>3. DOMAIN g \subseteq RequestId /\ \A i \in DOMAIN g : g[i] \in S
  BY <1>1, <1>2
<1>4. g \in Partial(S)
  BY <1>1, <1>3, PartialIs
<1> QED
  BY <1>1, <1>4 DEF g

LEMMA EmptyMap ==
    ASSUME NEW S
    PROVE  <<>> \in Partial(S) /\ DOMAIN <<>> = {}
<1>1. DOMAIN <<>> = {} /\ <<>> = [i \in {} |-> 0]
  OBVIOUS
<1>2. <<>> = [i \in DOMAIN <<>> |-> <<>>[i]]
  BY <1>1
<1> QED
  BY <1>1, <1>2, PartialIs

\* Three ids in a row differ.
LEMMA NextIds ==
    ASSUME counter \in RequestId
    PROVE  /\ \A k \in 0 .. 3 : NextId(k) \in RequestId
           /\ \A k, l \in 1 .. 3 : NextId(k) = NextId(l) => k = l
           /\ NextId(0) = counter
           /\ \A k, n \in 0 .. 3 : counter <= NextId(n) /\ k <= n => NextId(k) = counter + k
<1>1. NumIds \in Nat /\ NumIds > 3
  BY Constants
<1>2. \A k \in 0 .. 3 :
        NextId(k) = IF counter + k < NumIds THEN counter + k ELSE counter + k - NumIds
  BY <1>1 DEF NextId, RequestId
<1> QED
  BY <1>1, <1>2 DEF RequestId

LEMMA OpenedIs ==
    ASSUME counter \in RequestId, NEW open \in Partial(Resources),
           NEW gets \in Seq(Resources), Len(gets) <= 3
    PROVE  /\ Opened(open, gets) \in Partial(Resources)
           /\ DOMAIN Opened(open, gets)
                = DOMAIN open \cup {NextId(k) : k \in 1 .. Len(gets)}
           /\ \A k \in 1 .. Len(gets) : Opened(open, gets)[NextId(k)] = gets[k]
           /\ \A i \in DOMAIN open :
                i \notin {NextId(k) : k \in 1 .. Len(gets)}
                => Opened(open, gets)[i] = open[i]
<1> DEFINE n == Len(gets)
           new == {NextId(k) : k \in 1 .. n}
           at(i) == CHOOSE k \in 1 .. n : NextId(k) = i
           g == Opened(open, gets)
<1>0. n \in Nat /\ n <= 3 /\ \A k \in 1 .. n : gets[k] \in Resources
  BY LenProperties, ElementOfSeq
<1>1. n \in 0 .. 3 /\ \A k \in 1 .. n : gets[k] \in Resources /\ k \in 1 .. 3
  <2> HIDE DEF n
  <2> QED
    BY <1>0
<1>2. /\ DOMAIN g = DOMAIN open \cup new /\ g = [i \in DOMAIN g |-> g[i]]
      /\ \A i \in DOMAIN g : g[i] = IF i \in new THEN gets[at(i)] ELSE open[i]
  BY DEF Opened
<1>3. \A k \in 1 .. n : NextId(k) \in RequestId
  BY <1>1, NextIds
<1>4. ASSUME NEW k \in 1 .. n PROVE at(NextId(k)) = k
  <2>1. \A l \in 1 .. n : NextId(l) = NextId(k) => l = k
    BY <1>1, NextIds
  <2> QED
    BY <2>1
<1>5. DOMAIN open \subseteq RequestId /\ \A i \in DOMAIN open : open[i] \in Resources
  BY PartialHas
<1>6. \A i \in new : \E k \in 1 .. n : i = NextId(k) /\ at(i) = k
  BY <1>4
<1>7. \A k \in 1 .. n : NextId(k) \in new
  OBVIOUS
<1>8. new \subseteq RequestId
  BY <1>3
<1> HIDE DEF g, n, new, at
<1>9. DOMAIN g \subseteq RequestId /\ \A i \in DOMAIN g : g[i] \in Resources
  BY <1>1, <1>2, <1>5, <1>6, <1>8
<1>10. g \in Partial(Resources)
  BY <1>2, <1>9, PartialIs
<1>11. \A k \in 1 .. n : g[NextId(k)] = gets[k]
  BY <1>2, <1>4, <1>7
<1> QED
  BY <1>2, <1>10, <1>11 DEF g, n, new

LEMMA FollowIs ==
    ASSUME NEW conn, NEW x, NEW body
    PROVE  /\ Follow(conn, x, body) \in Seq(Resources)
           /\ Len(Follow(conn, x, body)) <= 3
<1> DEFINE get(y) == IF y \in Catalog[conn.peer] THEN <<y>> ELSE <<>>
<1>1. \A y \in Resources : get(y) \in Seq(Resources) /\ Len(get(y)) <= 1
  OBVIOUS
<1>2. /\ get(DeviceInfo) \in Seq(Resources) /\ Len(get(DeviceInfo)) <= 1
      /\ get(AllCtrlList) \in Seq(Resources) /\ Len(get(AllCtrlList)) <= 1
      /\ get(ProgramList) \in Seq(Resources) /\ Len(get(ProgramList)) <= 1
  BY <1>1, Constants
<1>3. Follow(conn, x, body) \in {<<>>, get(DeviceInfo) \o get(AllCtrlList) \o get(ProgramList)}
  BY DEF Follow
<1> HIDE DEF get
<1>4. /\ get(DeviceInfo) \o get(AllCtrlList) \in Seq(Resources)
      /\ Len(get(DeviceInfo) \o get(AllCtrlList)) <= 2
  BY <1>2, ConcatProperties, LenProperties
<1>5. /\ get(DeviceInfo) \o get(AllCtrlList) \o get(ProgramList) \in Seq(Resources)
      /\ Len(get(DeviceInfo) \o get(AllCtrlList) \o get(ProgramList)) <= 3
  BY <1>2, <1>4, ConcatProperties, LenProperties
<1>6. <<>> \in Seq(Resources) /\ Len(<<>>) <= 3
  OBVIOUS
<1> DEFINE f == Follow(conn, x, body)
           all == get(DeviceInfo) \o get(AllCtrlList) \o get(ProgramList)
<1>7. f = <<>> \/ f = all
  BY <1>3
<1>8. all \in Seq(Resources) /\ Len(all) <= 3
  BY <1>5
<1> HIDE DEF f, all
<1>9. f \in Seq(Resources) /\ Len(f) <= 3
  BY <1>6, <1>7, <1>8
<1> QED
  BY <1>9 DEF f

\* A body sets its property, and the catalog adds and removes others.
LEMMA ValuesIs ==
    ASSUME NEW conn \in Connection, NEW x \in Resources, NEW body \in Resources
    PROVE  /\ Values(conn, x, body) \in [Resources -> Bodies]
           /\ \A y \in Resources :
                Values(conn, x, body)[y]
                    \in {Absent, Empty, conn.values[y]} \cup (IF y = x THEN {body} ELSE {})
<1> DEFINE set == [conn.values EXCEPT ![x] = body]
           v == Values(conn, x, body)
<1>1. conn.values \in [Resources -> Bodies]
  BY DEF Connection
<1>2. /\ set \in [Resources -> Bodies]
      /\ \A y \in Resources : set[y] = IF y = x THEN body ELSE conn.values[y]
  BY <1>1 DEF Bodies
<1>3. /\ v \in [Resources -> Bodies]
      /\ \A y \in Resources : v[y] \in {Absent, Empty, set[y]}
  <2>1. CASE ~NewCatalog(conn, x, body)
    BY <1>2, <2>1 DEF Values
  <2>2. CASE NewCatalog(conn, x, body)
    <3>1. v = [y \in Resources |-> IF y \notin Catalog[conn.peer] THEN Absent
                                   ELSE IF set[y] = Absent THEN Empty ELSE set[y]]
      BY <2>2 DEF Values
    <3> HIDE DEF v, set
    <3> QED
      BY <1>2, <3>1 DEF Bodies
  <2> QED
    BY <2>1, <2>2
<1> HIDE DEF v, set
<1> QED
  BY <1>2, <1>3 DEF v

-----------------------------------------------------------------------------
(* The actions.                                                            *)

LEMMA CurrentIs ==
    ASSUME Structure, NEW p \in Peers, current[p] # 0
    PROVE  /\ current[p] \in 1 .. Len(conns)
           /\ conns[current[p]] \in Connection /\ conns[current[p]].peer = p
<1>1. /\ current[p] \in Nat /\ current[p] <= Len(conns) /\ Len(conns) \in Nat
      /\ conns[current[p]].peer = p
  BY LenProperties DEF Structure, Shape, Numbered
<1>2. current[p] \in 1 .. Len(conns)
  BY <1>1
<1> QED
  BY <1>1, <1>2, ElementOfSeq DEF Structure, Shape

LEMMA GetFields ==
    ASSUME NEW id, NEW x, NEW c
    PROVE  /\ Get(id, x, c).by = c /\ Get(id, x, c).id = id
           /\ Get(id, x, c).prop = x /\ Getting(Get(id, x, c))
  BY DEF Get, Message, Getting

\* The messages that the reply makes the device send.
Sent(gets, c, report) ==
    [k \in 1 .. Len(gets) |-> Get(NextId(k), gets[k], c)]
        \o (IF report THEN <<Plain("report")>> ELSE <<>>)

LEMMA SentIs ==
    ASSUME counter \in RequestId, NEW gets \in Seq(Resources), Len(gets) <= 3,
           NEW c \in Nat, NEW report \in BOOLEAN
    PROVE  LET s == Sent(gets, c, report) IN
           /\ s \in Seq(Inquiry)
           /\ Len(s) = Len(gets) + (IF report THEN 1 ELSE 0)
           /\ \A k \in 1 .. Len(gets) : s[k] = Get(NextId(k), gets[k], c)
           /\ report => s[Len(gets) + 1] = Plain("report")
<1> DEFINE n == Len(gets)
           new == [k \in 1 .. n |-> Get(NextId(k), gets[k], c)]
           rest == IF report THEN <<Plain("report")>> ELSE <<>>
<1>1. n \in Nat /\ n <= 3 /\ \A k \in 1 .. n : gets[k] \in Resources
  BY LenProperties, ElementOfSeq
<1>2. \A k \in 1 .. n : NextId(k) \in RequestId
  <2> HIDE DEF n
  <2>1. \A k \in 1 .. n : k \in 0 .. 3
    BY <1>1
  <2> QED
    BY <2>1, NextIds
<1>3. \A k \in 1 .. n : Get(NextId(k), gets[k], c) \in Inquiry
  BY <1>1, <1>2 DEF Get, Message, Inquiry, Inquiries
<1>4. Plain("report") \in Inquiry
  BY Constants DEF Plain, Message, Inquiry, Inquiries
<1>5. new \in Seq(Inquiry) /\ Len(new) = n /\ \A k \in 1 .. n : new[k] = Get(NextId(k), gets[k], c)
  <2> HIDE DEF n
  <2>1. /\ DOMAIN new = 1 .. n /\ new \in [1 .. n -> Inquiry]
        /\ \A k \in 1 .. n : new[k] = Get(NextId(k), gets[k], c)
    BY <1>3 DEF n
  <2> HIDE DEF new
  <2> QED
    BY <1>1, <2>1, IsASeq, LenProperties
<1>6. /\ rest \in Seq(Inquiry) /\ Len(rest) = (IF report THEN 1 ELSE 0)
      /\ report => rest[1] = Plain("report")
  <2> DEFINE one == Plain("report")
  <2>1. one \in Inquiry
    BY <1>4
  <2> HIDE DEF one
  <2>2. <<one>> \in Seq(Inquiry) /\ Len(<<one>>) = 1 /\ <<one>>[1] = one
    BY <2>1
  <2>3. <<>> \in Seq(Inquiry) /\ Len(<<>>) = 0
    OBVIOUS
  <2>4. rest = IF report THEN <<one>> ELSE <<>>
    BY DEF one
  <2> HIDE DEF rest
  <2> QED
    BY <2>2, <2>3, <2>4 DEF one
<1>7. Sent(gets, c, report) = new \o rest
  BY DEF Sent
<1>8. /\ new \o rest \in Seq(Inquiry) /\ Len(new \o rest) = n + Len(rest)
      /\ \A k \in 1 .. n : (new \o rest)[k] = new[k]
      /\ Len(rest) = 1 => (new \o rest)[n + 1] = rest[1]
  <2> HIDE DEF n, new, rest
  <2>1. Len(rest) \in {0, 1}
    BY <1>6
  <2> QED
    BY <1>1, <1>5, <1>6, <2>1, ConcatProperties
<1> HIDE DEF n, new, rest
<1> QED
  BY <1>5, <1>6, <1>7, <1>8 DEF n

\* A step that takes reply m, requests gets and leaves the connection as new.
Replied(p, m, gets, report, new) ==
    LET c == current[p]
        conn == conns[c]
        x == conn.open[m.id]
    IN
    /\ c # 0 /\ m.id \in DOMAIN conn.open /\ Len(gets) <= 3
    /\ calls' = Called(conn, m)
    /\ conns' = [conns EXCEPT ![c] = new]
    /\ new.peer = conn.peer /\ new.reporting = conn.reporting
    /\ new.open = Without(Opened(conn.open, gets), m.id)
    /\ new.waiting = Without(conn.waiting, m.id)
    /\ \A y \in Resources :
         new.values[y] \in {Absent, Empty, conn.values[y]}
                             \cup (IF y = x THEN {m.prop} ELSE {})
    /\ conn.reported => new.reported
    /\ new.allCtrl /\ ~conn.allCtrl /\ conn.reporting => new.reported
    /\ new.allCtrl /\ ~conn.allCtrl => x = AllCtrlList
    /\ model' = IF model[p] # NoModel
                THEN [model EXCEPT ![p].shown = new.values] ELSE model
    /\ counter' = NextId(Len(gets))
    /\ toPeer' = [toPeer EXCEPT ![p] = @ \o Sent(gets, c, report)]
    /\ current' = current

LEMMA TakeReplyIs ==
    ASSUME Structure, NEW p \in Peers, NEW m \in Reply, TakeReply(p, m)
    PROVE  \E gets \in Seq(Resources), report \in BOOLEAN, new \in Connection :
           Replied(p, m, gets, report, new)
<1> DEFINE c == current[p]
           conn == conns[c]
           x == conn.open[m.id]
           fine == m.prop \notin Failing
           gets == IF fine THEN Follow(conn, x, m.prop) ELSE <<>>
           report == fine /\ x = AllCtrlList /\ conn.reporting
           values == IF fine THEN Values(conn, x, m.prop) ELSE conn.values
           listed == IF fine /\ NewCatalog(conn, x, m.prop) THEN Catalog[p] ELSE conn.listed
           allCtrl == conn.allCtrl \/ (fine /\ x = AllCtrlList)
           reported == conn.reported \/ report
           sent == [conn EXCEPT !.open = Opened(conn.open, gets), !.values = values,
                                !.listed = listed, !.allCtrl = allCtrl,
                                !.reported = reported]
           new == Closed(sent, m)
<1>1. /\ c # 0 /\ m.id \in DOMAIN conn.open
      /\ calls' = Called(conn, m)
      /\ conns' = [conns EXCEPT ![c] = new]
      /\ model' = IF model[p] # NoModel
                  THEN [model EXCEPT ![p].shown = values] ELSE model
      /\ counter' = NextId(Len(gets))
      /\ toPeer' = [toPeer EXCEPT ![p] = @
            \o [k \in 1 .. Len(gets) |-> Get(NextId(k), gets[k], c)]
            \o (IF report THEN <<Plain("report")>> ELSE <<>>)]
      /\ current' = current
  BY DEF TakeReply
<1>2. conn \in Connection /\ counter \in RequestId /\ m.prop \in Resources
  <2>1. m.prop \in Resources
    BY DEF Reply
  <2> QED
    BY <1>1, <2>1, CurrentIs DEF Structure, Shape
<1>3. /\ conn.open \in Partial(Resources) /\ conn.waiting \in Partial(Nat)
      /\ conn.values \in [Resources -> Bodies] /\ conn.listed \in SUBSET Resources
      /\ conn.allCtrl \in BOOLEAN /\ conn.reported \in BOOLEAN /\ conn.reporting \in BOOLEAN
  BY <1>2 DEF Connection
<1>4. x \in Resources
  BY <1>1, <1>3, PartialHas
<1>5. gets \in Seq(Resources) /\ Len(gets) <= 3
  <2>1. <<>> \in Seq(Resources) /\ Len(<<>>) <= 3
    OBVIOUS
  <2> HIDE DEF conn, x
  <2> DEFINE f == Follow(conn, x, m.prop)
  <2>2. f \in Seq(Resources) /\ Len(f) <= 3
    BY FollowIs
  <2>3. gets = IF fine THEN f ELSE <<>>
    OBVIOUS
  <2> HIDE DEF f, gets
  <2> QED
    BY <2>1, <2>2, <2>3
<1>6. /\ values \in [Resources -> Bodies]
      /\ \A y \in Resources :
            values[y] \in {Absent, Empty, conn.values[y]} \cup (IF y = x THEN {m.prop} ELSE {})
  <2> HIDE DEF conn, x
  <2>1. CASE fine
    <3>1. values = Values(conn, x, m.prop)
      BY <2>1
    <3> HIDE DEF values
    <3> QED
      BY <1>2, <1>4, <3>1, ValuesIs
  <2>2. CASE ~fine
    BY <1>3, <2>2
  <2> QED
    BY <2>1, <2>2
<1>7. listed \in SUBSET Resources
  BY <1>3, SessionAssumption
<1>8. allCtrl \in BOOLEAN /\ reported \in BOOLEAN /\ report \in BOOLEAN
  BY <1>3
<1>9. /\ conn.reported => reported
      /\ allCtrl /\ ~conn.allCtrl /\ conn.reporting => reported
      /\ allCtrl /\ ~conn.allCtrl => x = AllCtrlList
  OBVIOUS
<1> HIDE DEF conn, x, fine, gets, values, listed, allCtrl, reported, report
<1>10. Opened(conn.open, gets) \in Partial(Resources)
  BY <1>2, <1>3, <1>5, OpenedIs
<1>11. /\ sent \in Connection /\ sent.open = Opened(conn.open, gets)
       /\ sent.peer = conn.peer /\ sent.reporting = conn.reporting
       /\ sent.waiting = conn.waiting /\ sent.values = values
       /\ sent.allCtrl = allCtrl /\ sent.reported = reported
  BY <1>2, <1>6, <1>7, <1>8, <1>10 DEF Connection
<1> HIDE DEF sent
<1>12. /\ Without(sent.open, m.id) \in Partial(Resources)
       /\ Without(sent.waiting, m.id) \in Partial(Nat)
  BY <1>3, <1>10, <1>11, WithoutIs
<1>13. /\ new \in Connection /\ new.open = Without(sent.open, m.id)
       /\ new.waiting = Without(sent.waiting, m.id)
       /\ new.peer = sent.peer /\ new.reporting = sent.reporting
       /\ new.values = sent.values /\ new.allCtrl = sent.allCtrl
       /\ new.reported = sent.reported
  BY <1>11, <1>12 DEF Closed, Connection
<1> HIDE DEF new
<1>14. toPeer' = [toPeer EXCEPT ![p] = @ \o Sent(gets, c, report)]
  <2> DEFINE a == toPeer[p]
             b == [k \in 1 .. Len(gets) |-> Get(NextId(k), gets[k], c)]
             d == IF report THEN <<Plain("report")>> ELSE <<>>
  <2>1. a \in Seq(Inquiry)
    BY DEF Structure, Shape
  <2>2. Len(gets) \in Nat
    BY <1>5, LenProperties
  <2>3. b \in Seq({b[k] : k \in 1 .. Len(gets)}) /\ d \in Seq({Plain("report")})
    <3> DEFINE n == Len(gets)
               R == {b[k] : k \in 1 .. n}
               one == Plain("report")
    <3>1. DOMAIN b = 1 .. n /\ b \in [1 .. n -> R] /\ n \in Nat
      BY <2>2
    <3>2. <<>> \in Seq({one}) /\ <<one>> \in Seq({one}) /\ d \in {<<>>, <<one>>}
      <4> HIDE DEF one
      <4>1. <<>> \in Seq({one}) /\ <<one>> \in Seq({one})
        OBVIOUS
      <4> QED
        BY <4>1 DEF one
    <3> HIDE DEF b, d, n, R
    <3>3. b \in Seq(R)
      BY <3>1, IsASeq
    <3> QED
      BY <3>2, <3>3 DEF n, R
  <2>4. (a \o b) \o d = a \o (b \o d)
    <3> DEFINE S == Inquiry \cup {b[k] : k \in 1 .. Len(gets)} \cup {Plain("report")}
    <3>1. a \in Seq(S) /\ b \in Seq(S) /\ d \in Seq(S)
      BY <2>1, <2>3, SeqMonotonic
    <3> HIDE DEF a, b, d, S
    <3> QED
      BY <3>1, ConcatAssociative
  <2>5. toPeer' = [toPeer EXCEPT ![p] = (a \o b) \o d]
    BY <1>1
  <2> QED
    BY <2>4, <2>5 DEF Sent
<1> HIDE DEF c
<1> USE <1>5, <1>8, <1>13
<1> WITNESS gets \in Seq(Resources), report \in BOOLEAN, new \in Connection
<1> QED
  BY <1>1, <1>6, <1>9, <1>11, <1>14 DEF c, conn, x, Replied

-----------------------------------------------------------------------------
(* Lines of messages and how they change.                                  *)

LEMMA TailIs ==
    ASSUME NEW S, NEW line \in Seq(S), line # <<>>
    PROVE  /\ Head(line) \in S /\ Head(line) = line[1] /\ 1 \in 1 .. Len(line)
           /\ Tail(line) \in Seq(S) /\ Len(Tail(line)) = Len(line) - 1
           /\ Len(line) \in Nat
           /\ \A i \in 1 .. Len(Tail(line)) :
                i + 1 \in 1 .. Len(line) /\ Tail(line)[i] = line[i + 1]
  BY HeadTailProperties, LenProperties, EmptySeq

LEMMA ConcatIs ==
    ASSUME NEW S, NEW a \in Seq(S), NEW b \in Seq(S)
    PROVE  /\ a \o b \in Seq(S) /\ Len(a \o b) = Len(a) + Len(b)
           /\ Len(a) \in Nat /\ Len(b) \in Nat
           /\ \A i \in 1 .. Len(a) : i \in 1 .. Len(a \o b) /\ (a \o b)[i] = a[i]
           /\ \A j \in 1 .. Len(b) :
                Len(a) + j \in 1 .. Len(a \o b) /\ (a \o b)[Len(a) + j] = b[j]
           /\ \A i \in 1 .. Len(a \o b) :
                i \in 1 .. Len(a) \/ \E j \in 1 .. Len(b) : i = Len(a) + j
<1>1. Len(a) \in Nat /\ Len(b) \in Nat
  BY LenProperties
<1>2. /\ a \o b \in Seq(S) /\ Len(a \o b) = Len(a) + Len(b)
      /\ \A i \in 1 .. Len(a) + Len(b) :
            (a \o b)[i] = IF i <= Len(a) THEN a[i] ELSE b[i - Len(a)]
  BY ConcatProperties
<1> DEFINE n == Len(a)
           k == Len(b)
           l == a \o b
<1> HIDE DEF n, k, l
<1>3. /\ l \in Seq(S) /\ Len(l) = n + k /\ n \in Nat /\ k \in Nat
      /\ \A i \in 1 .. n + k : l[i] = IF i <= n THEN a[i] ELSE b[i - n]
  BY <1>1, <1>2 DEF n, k, l
<1>4. \A i \in 1 .. n : i \in 1 .. Len(l) /\ l[i] = a[i]
  BY <1>3
<1>5. \A j \in 1 .. k : n + j \in 1 .. Len(l) /\ l[n + j] = b[j]
  BY <1>3
<1>6. ASSUME NEW i \in 1 .. Len(l), i \notin 1 .. n PROVE \E j \in 1 .. k : i = n + j
  <2>1. i - n \in 1 .. k /\ i = n + (i - n)
    BY <1>3, <1>6
  <2> QED
    BY <2>1
<1> QED
  BY <1>3, <1>4, <1>5, <1>6 DEF n, k, l

LEMMA OneIs ==
    ASSUME NEW S, NEW x \in S
    PROVE  <<x>> \in Seq(S) /\ Len(<<x>>) = 1 /\ <<x>>[1] = x
  OBVIOUS

LEMMA AppendIs ==
    ASSUME NEW S, NEW line \in Seq(S), NEW x \in S
    PROVE  Append(line, x) = line \o <<x>>
  BY AppendIsConcat

LEMMA ByKnownChanges ==
    ASSUME NEW S, NEW line \in Seq(S), NEW n \in Nat, ByKnown(line, n),
           \A x \in S : x.by \in Nat
    PROVE  /\ \A k \in Nat : n <= k => ByKnown(line, k)
           /\ line # <<>> => ByKnown(Tail(line), n) /\ Head(line).by <= n
           /\ \A new \in Seq(S) : ByKnown(new, n) => ByKnown(line \o new, n)
<1>1. \A i \in 1 .. Len(line) : line[i].by \in Nat /\ line[i].by <= n
  BY ElementOfSeq DEF ByKnown
<1>2. \A k \in Nat : n <= k => ByKnown(line, k)
  BY <1>1 DEF ByKnown
<1>3. ASSUME line # <<>> PROVE ByKnown(Tail(line), n) /\ Head(line).by <= n
  BY <1>1, <1>3, TailIs DEF ByKnown
<1>4. ASSUME NEW new \in Seq(S), ByKnown(new, n) PROVE ByKnown(line \o new, n)
  <2>1. \A i \in 1 .. Len(line \o new) :
            \/ i \in 1 .. Len(line) /\ (line \o new)[i] = line[i]
            \/ \E j \in 1 .. Len(new) : (line \o new)[i] = new[j]
    BY ConcatIs
  <2> QED
    BY <1>1, <1>4, <2>1 DEF ByKnown
<1> QED
  BY <1>2, <1>3, <1>4

\* What a peer sends back to one message.
LEMMA AnswerIs ==
    ASSUME NEW m \in Inquiry
    PROVE  \/ Answer(m) = <<>> /\ ~Getting(m) /\ m.type # "procCaps"
           \/ \E r \in Reply :
                /\ Answer(m) = <<r>> /\ r.by \in {0, m.by}
                /\ m.type = "procCaps" => r.type = "procCapsReply"
                /\ Getting(m) <=> Getting(r)
                /\ Getting(m) => r.by = m.by /\ r.id = m.id /\ r.prop = m.prop
<1>1. CASE m.type = "get"
  <2> DEFINE r == [m EXCEPT !.type = "getReply"]
  <2>1. r \in Reply /\ r.by = m.by /\ r.id = m.id /\ r.prop = m.prop /\ Getting(r) /\ Getting(m)
    BY <1>1 DEF Inquiry, Reply, Inquiries, Types, Getting
  <2>2. Answer(m) = <<r>>
    BY <1>1 DEF Answer
  <2> HIDE DEF r
  <2> QED
    BY <1>1, <2>1, <2>2
<1>2. CASE m.type = "report"
  BY <1>2 DEF Answer, Getting
<1>3. ASSUME NEW t \in {"discoveryReply", "propCapsReply", "procCapsReply"},
             Answer(m) = <<Plain(t)>>, m.type \in {"discovery", "propCaps", "procCaps"},
             m.type = "procCaps" => t = "procCapsReply"
      PROVE  \E r \in Reply :
                /\ Answer(m) = <<r>> /\ r.by \in {0, m.by}
                /\ m.type = "procCaps" => r.type = "procCapsReply"
                /\ ~Getting(m) /\ ~Getting(r)
  <2> DEFINE r == Plain(t)
  <2>1. r \in Reply /\ r.by = 0 /\ r.type = t
    BY <1>3, Constants DEF Plain, Message, Reply, Inquiries, Types
  <2>2. ~Getting(m) /\ ~Getting(r) /\ Answer(m) = <<r>>
    BY <1>3, <2>1 DEF Getting
  <2> HIDE DEF r
  <2> QED
    BY <1>3, <2>1, <2>2
<1>4. CASE m.type = "discovery"
  <2>1. Answer(m) = <<Plain("discoveryReply")>>
    BY <1>4 DEF Answer
  <2> QED
    BY <1>3, <1>4, <2>1
<1>5. CASE m.type = "propCaps"
  <2>1. Answer(m) = <<Plain("propCapsReply")>>
    BY <1>5 DEF Answer
  <2> QED
    BY <1>3, <1>5, <2>1
<1>6. CASE m.type = "procCaps"
  <2>1. Answer(m) = <<Plain("procCapsReply")>>
    BY <1>6 DEF Answer
  <2> QED
    BY <1>3, <1>6, <2>1
<1> QED
  BY <1>1, <1>2, <1>4, <1>5, <1>6 DEF Inquiry, Inquiries

LEMMA GreetingIs ==
    /\ Greeting \in Seq(Inquiry) /\ Len(Greeting) = 2
    /\ \A i \in 1 .. 2 : Greeting[i].by = 0 /\ ~Getting(Greeting[i])
    /\ Greeting[2].type = "procCaps"
<1> DEFINE a == Plain("propCaps")
           b == Plain("procCaps")
<1>1. /\ a \in Inquiry /\ a.by = 0 /\ ~Getting(a)
      /\ b \in Inquiry /\ b.by = 0 /\ ~Getting(b) /\ b.type = "procCaps"
  BY Constants DEF Plain, Message, Inquiry, Inquiries, Getting
<1>2. Greeting = <<a, b>>
  BY DEF Greeting
<1> HIDE DEF a, b
<1> QED
  BY <1>1, <1>2

LEMMA PlainIs ==
    /\ \A t \in Inquiries : Plain(t) \in Inquiry
    /\ \A t \in Types \ Inquiries : Plain(t) \in Reply
    /\ \A t \in Types : /\ Plain(t).by = 0 /\ Plain(t).type = t
                        /\ t \notin {"get", "getReply"} => ~Getting(Plain(t))
  BY Constants DEF Plain, Message, Inquiry, Reply, Getting

LEMMA GetIs ==
    ASSUME NEW id \in RequestId, NEW x \in Resources, NEW c \in Nat
    PROVE  /\ Get(id, x, c) \in Inquiry /\ Get(id, x, c).by = c
           /\ Get(id, x, c).id = id /\ Get(id, x, c).prop = x
           /\ Get(id, x, c).type = "get" /\ Getting(Get(id, x, c))
  BY DEF Get, Message, Inquiry, Inquiries, Getting

LEMMA NewConnectionIs ==
    ASSUME NEW p \in Peers
    PROVE  LET new == NewConnection(p) IN
           /\ new \in Connection /\ new.peer = p /\ new.open = <<>> /\ new.waiting = <<>>
           /\ new.values = [x \in Resources |-> Absent]
           /\ ~new.reporting /\ ~new.allCtrl
<1>1. <<>> \in Partial(Resources) /\ <<>> \in Partial(Nat)
  BY EmptyMap
<1>2. [x \in Resources |-> Absent] \in [Resources -> Bodies]
  BY DEF Bodies
<1> QED
  BY <1>1, <1>2 DEF NewConnection, Connection

\* One connection changes.
LEMMA Replaced ==
    ASSUME conns \in Seq(Connection), NEW c \in 1 .. Len(conns), NEW new \in Connection,
           conns' = [conns EXCEPT ![c] = new]
    PROVE  /\ conns' \in Seq(Connection) /\ Len(conns') = Len(conns) /\ conns'[c] = new
           /\ \A d \in 1 .. Len(conns) : d # c => conns'[d] = conns[d]
  BY ExceptSeq

LEMMA GetPropertyIs ==
    ASSUME Structure, NEW c \in 1 .. Len(conns), NEW x \in Wanted, GetProperty(c, x)
    PROVE  \E new \in Connection :
           /\ conns' = [conns EXCEPT ![c] = new]
           /\ NextId(1) \in RequestId /\ Len(calls) \in Nat /\ conns[c] \in Connection
           /\ new.open = Put(conns[c].open, NextId(1), x)
           /\ new.waiting = Put(conns[c].waiting, NextId(1), Len(calls) + 1)
           /\ new.peer = conns[c].peer /\ new.values = conns[c].values
           /\ new.reporting = conns[c].reporting /\ new.allCtrl = conns[c].allCtrl
           /\ new.reported = conns[c].reported
<1> DEFINE new == [conns[c] EXCEPT !.open = Put(conns[c].open, NextId(1), x),
                           !.waiting = Put(conns[c].waiting, NextId(1), Len(calls) + 1)]
           o == Put(conns[c].open, NextId(1), x)
           w == Put(conns[c].waiting, NextId(1), Len(calls) + 1)
<1>1. /\ conns[c] \in Connection /\ NextId(1) \in RequestId /\ x \in Resources
      /\ Len(calls) + 1 \in Nat /\ Len(calls) \in Nat
  BY ElementOfSeq, LenProperties, NextIds, Constants DEF Structure, Shape
<1>2. o \in Partial(Resources) /\ w \in Partial(Nat)
  BY <1>1, PutIs DEF Connection
<1>3. conns' = [conns EXCEPT ![c] = new]
  BY DEF GetProperty
<1>4. /\ new \in Connection /\ new.open = o /\ new.waiting = w
      /\ new.peer = conns[c].peer /\ new.values = conns[c].values
      /\ new.reporting = conns[c].reporting /\ new.allCtrl = conns[c].allCtrl
      /\ new.reported = conns[c].reported
  <2> HIDE DEF o, w
  <2>1. new = [conns[c] EXCEPT !.open = o, !.waiting = w]
    BY DEF o, w
  <2> HIDE DEF new
  <2> QED
    BY <1>1, <1>2, <2>1 DEF Connection
<1> HIDE DEF new
<1> QED
  BY <1>1, <1>3, <1>4

LEMMA RequestListIs ==
    ASSUME Structure, NEW p \in Peers, RequestList(p)
    PROVE  \E new \in Connection :
           LET c == current[p] IN
           /\ c # 0 /\ conns' = [conns EXCEPT ![c] = new]
           /\ new.open = Put(conns[c].open, 0, ResourceList)
           /\ new.waiting = conns[c].waiting
           /\ new.peer = conns[c].peer /\ new.values = conns[c].values
           /\ new.reporting = conns[c].reporting /\ new.allCtrl = conns[c].allCtrl
           /\ new.reported = conns[c].reported
<1> DEFINE c == current[p]
           o == Put(conns[c].open, 0, ResourceList)
           new == [conns[c] EXCEPT !.open = o]
<1>1. c # 0 /\ conns' = [conns EXCEPT ![c] = new]
  BY DEF RequestList
<1>2. conns[c] \in Connection
  BY <1>1, CurrentIs
<1>3. o \in Partial(Resources)
  BY <1>2, PutIs, Constants DEF Connection
<1>4. /\ new \in Connection /\ new.open = o /\ new.waiting = conns[c].waiting
      /\ new.peer = conns[c].peer /\ new.values = conns[c].values
      /\ new.reporting = conns[c].reporting /\ new.allCtrl = conns[c].allCtrl
      /\ new.reported = conns[c].reported
  <2> HIDE DEF o, c
  <2> QED
    BY <1>2, <1>3 DEF Connection
<1> HIDE DEF new
<1> QED
  BY <1>1, <1>4

-----------------------------------------------------------------------------
(* The structure is kept, whatever the ids.                                *)

LEMMA InitStructure == Init => Structure
<1> SUFFICES ASSUME Init PROVE Structure
  OBVIOUS
<1>1. Shape
  BY Constants, SessionAssumption DEF Init, Shape
<1>2. Numbered /\ CallbacksHeld
  BY DEF Init, Numbered, CallbacksHeld, ByKnown
<1> QED
  BY <1>1, <1>2 DEF Structure

\* The lines with what is sent and what is taken.
LEMMA LinesKept ==
    ASSUME Structure, NEW n \in Nat, Len(conns) <= n, NEW p \in Peers,
           NEW send \in Seq(Inquiry), ByKnown(send, n),
           toPeer' = [toPeer EXCEPT ![p] = @ \o send] \/ toPeer' = toPeer,
           \/ fromPeer' = fromPeer
           \/ fromPeer[p] # <<>> /\ fromPeer' = [fromPeer EXCEPT ![p] = Tail(@)]
    PROVE  /\ toPeer' \in [Peers -> Seq(Inquiry)] /\ fromPeer' \in [Peers -> Seq(Reply)]
           /\ \A q \in Peers : ByKnown(toPeer'[q], n) /\ ByKnown(fromPeer'[q], n)
<1>1. /\ toPeer \in [Peers -> Seq(Inquiry)] /\ fromPeer \in [Peers -> Seq(Reply)]
      /\ \A q \in Peers : ByKnown(toPeer[q], Len(conns)) /\ ByKnown(fromPeer[q], Len(conns))
      /\ Len(conns) \in Nat
  BY LenProperties DEF Structure, Shape, Numbered
<1>2. \A q \in Peers : ByKnown(toPeer[q], n) /\ ByKnown(fromPeer[q], n)
  <2>1. (\A x \in Inquiry : x.by \in Nat) /\ (\A x \in Reply : x.by \in Nat)
    BY DEF Inquiry, Reply
  <2> QED
    BY <1>1, <2>1, ByKnownChanges
<1>3. /\ toPeer[p] \o send \in Seq(Inquiry) /\ ByKnown(toPeer[p] \o send, n)
      /\ fromPeer[p] # <<>> =>
            Tail(fromPeer[p]) \in Seq(Reply) /\ ByKnown(Tail(fromPeer[p]), n)
  <2>1. (\A x \in Inquiry : x.by \in Nat) /\ (\A x \in Reply : x.by \in Nat)
    BY DEF Inquiry, Reply
  <2>2. toPeer[p] \o send \in Seq(Inquiry) /\ ByKnown(toPeer[p] \o send, n)
    BY <1>1, <1>2, <2>1, ByKnownChanges, ConcatIs
  <2>3. fromPeer[p] # <<>> =>
            Tail(fromPeer[p]) \in Seq(Reply) /\ ByKnown(Tail(fromPeer[p]), n)
    BY <1>1, <1>2, <2>1, ByKnownChanges, TailIs
  <2> QED
    BY <2>2, <2>3
<1>4. toPeer' \in [Peers -> Seq(Inquiry)] /\ \A q \in Peers : ByKnown(toPeer'[q], n)
  BY <1>1, <1>2, <1>3
<1>5. fromPeer' \in [Peers -> Seq(Reply)] /\ \A q \in Peers : ByKnown(fromPeer'[q], n)
  BY <1>1, <1>2, <1>3
<1> QED
  BY <1>4, <1>5

LEMMA CalledIs ==
    ASSUME Structure, NEW c \in 1 .. Len(conns), NEW m \in Reply,
           calls' = Called(conns[c], m)
    PROVE  /\ calls' \in Seq(Call) /\ Len(calls') = Len(calls)
           /\ \A n \in 1 .. Len(calls) :
                /\ calls'[n].conn = calls[n].conn /\ calls'[n].prop = calls[n].prop
                /\ \/ calls'[n].answer = calls[n].answer
                   \/ /\ m.id \in DOMAIN conns[c].waiting /\ conns[c].waiting[m.id] = n
                      /\ calls'[n].answer = m.prop
<1> DEFINE conn == conns[c]
<1>1. /\ calls \in Seq(Call) /\ \A n \in 1 .. Len(calls) : calls[n] \in Call
      /\ m.id \in DOMAIN conn.waiting => conn.waiting[m.id] \in 1 .. Len(calls)
      /\ m.prop \in Bodies
  BY ElementOfSeq DEF Structure, Shape, CallbacksHeld, Reply, Bodies
<1> HIDE DEF conn
<1>2. CASE m.id \notin DOMAIN conn.waiting
  BY <1>1, <1>2 DEF Called, conn
<1>3. CASE m.id \in DOMAIN conn.waiting
  <2> DEFINE n == conn.waiting[m.id]
             new == [calls[n] EXCEPT !.answer = m.prop]
  <2>1. n \in 1 .. Len(calls) /\ calls[n] \in Call
    BY <1>1, <1>3
  <2>2. calls' = [calls EXCEPT ![n] = new]
    BY <1>3 DEF Called, conn
  <2>3. /\ new \in Call /\ new.conn = calls[n].conn /\ new.prop = calls[n].prop
        /\ new.answer = m.prop
    BY <1>1, <2>1 DEF Call
  <2>4. m.id \in DOMAIN conns[c].waiting /\ conns[c].waiting[m.id] = n
    BY <1>3 DEF conn
  <2> HIDE DEF n, new
  <2>5. /\ calls' \in Seq(Call) /\ Len(calls') = Len(calls) /\ calls'[n] = new
        /\ \A k \in 1 .. Len(calls) : k # n => calls'[k] = calls[k]
    BY <1>1, <2>1, <2>2, <2>3, ExceptSeq
  <2> QED
    BY <2>3, <2>4, <2>5
<1> QED
  BY <1>2, <1>3

\* The parts of the structure, after a step that changes one connection at
\* most, or adds one.
LEMMA NumberedKept ==
    ASSUME Structure, Shape', Len(conns) <= Len(conns'),
           \A c \in 1 .. Len(conns) : conns'[c].peer = conns[c].peer,
           \A p \in Peers : \/ current'[p] \in {0, current[p]}
                            \/ current'[p] \in 1 .. Len(conns') /\ conns'[current'[p]].peer = p,
           \A q \in Peers : ByKnown(toPeer'[q], Len(conns')) /\ ByKnown(fromPeer'[q], Len(conns')),
           \A n \in 1 .. Len(calls') : calls'[n].conn \in 1 .. Len(conns')
    PROVE  Numbered'
<1>1. Len(conns) \in Nat /\ Len(conns') \in Nat
  BY LenProperties DEF Structure, Shape
<1>2. ASSUME NEW p \in Peers PROVE current'[p] <= Len(conns')
  <2>1. current[p] <= Len(conns) /\ current[p] \in Nat
    BY DEF Structure, Shape, Numbered
  <2>2. current'[p] \in {0, current[p]} \/ current'[p] \in 1 .. Len(conns')
    OBVIOUS
  <2> QED
    BY <1>1, <2>1, <2>2
<1>3. ASSUME NEW p \in Peers, current'[p] # 0 PROVE conns'[current'[p]].peer = p
  <2>1. CASE current'[p] = current[p]
    BY <1>3, <2>1, CurrentIs
  <2>2. CASE current'[p] # current[p]
    BY <1>3, <2>2
  <2> QED
    BY <2>1, <2>2
<1> QED
  BY <1>2, <1>3 DEF Numbered

\* Callbacks of connection c after a step that changes it to new.
LEMMA CallbacksKept ==
    ASSUME Structure, NEW c \in 1 .. Len(conns), NEW new \in Connection,
           conns' = [conns EXCEPT ![c] = new], Len(calls) <= Len(calls'),
           Len(calls') \in Nat,
           DOMAIN new.waiting \subseteq DOMAIN new.open,
           \A id \in DOMAIN new.waiting : new.waiting[id] \in 1 .. Len(calls')
    PROVE  CallbacksHeld'
<1>1. /\ Len(conns') = Len(conns) /\ conns'[c] = new
      /\ \A d \in 1 .. Len(conns) : d # c => conns'[d] = conns[d]
  BY Replaced DEF Structure, Shape
<1>2. Len(calls) \in Nat
  BY LenProperties DEF Structure, Shape
<1>3. ASSUME NEW d \in 1 .. Len(conns)
      PROVE  /\ DOMAIN conns'[d].waiting \subseteq DOMAIN conns'[d].open
             /\ \A id \in DOMAIN conns'[d].waiting : conns'[d].waiting[id] \in 1 .. Len(calls')
  <2>1. CASE d = c
    BY <1>1, <2>1
  <2>2. CASE d # c
    BY <1>1, <1>2, <2>2 DEF Structure, CallbacksHeld
  <2> QED
    BY <2>1, <2>2
<1> QED
  BY <1>1, <1>3 DEF CallbacksHeld

LEMMA DiscoveryStructure ==
    ASSUME Structure, SendDiscovery PROVE Structure'
<1> DEFINE m == Plain("discovery")
<1>1. m \in Inquiry /\ m.by = 0 /\ <<m>> \in Seq(Inquiry) /\ ByKnown(<<m>>, 0)
  BY PlainIs, OneIs DEF Inquiries, Types, ByKnown
<1>2. /\ toPeer \in [Peers -> Seq(Inquiry)] /\ Len(conns) \in Nat
      /\ \A p \in Peers : ByKnown(toPeer[p], Len(conns)) /\ ByKnown(fromPeer[p], Len(conns))
  BY LenProperties DEF Structure, Shape, Numbered
<1>3. UNCHANGED <<conns, current, model, fromPeer, counter, calls, goodbyes>>
      /\ toPeer' = [p \in Peers |-> Append(toPeer[p], m)]
      /\ discoveries' \in 0 .. MaxDiscoveries
  BY SessionAssumption DEF SendDiscovery, Structure, Shape
<1> HIDE DEF m
<1>4. ASSUME NEW p \in Peers
      PROVE  toPeer'[p] \in Seq(Inquiry) /\ ByKnown(toPeer'[p], Len(conns))
  <2>1. toPeer'[p] = toPeer[p] \o <<m>>
    BY <1>1, <1>2, <1>3, AppendIs
  <2>2. (\A x \in Inquiry : x.by \in Nat) /\ ByKnown(<<m>>, Len(conns))
    BY <1>1, <1>2 DEF Inquiry, ByKnown
  <2>3. toPeer[p] \in Seq(Inquiry) /\ <<m>> \in Seq(Inquiry) /\ ByKnown(toPeer[p], Len(conns))
    BY <1>1, <1>2
  <2>4. toPeer[p] \o <<m>> \in Seq(Inquiry)
    BY <2>3, ConcatIs
  <2>5. ByKnown(toPeer[p] \o <<m>>, Len(conns))
    BY <1>2, <2>2, <2>3, ByKnownChanges
  <2> QED
    BY <2>1, <2>4, <2>5
<1>5. Shape'
  BY <1>3, <1>4 DEF Structure, Shape
<1>6. Numbered'
  BY <1>2, <1>3, <1>4 DEF Structure, Numbered
<1>7. CallbacksHeld'
  BY <1>3 DEF Structure, CallbacksHeld
<1> QED
  BY <1>5, <1>6, <1>7 DEF Structure

LEMMA AnswersStructure ==
    ASSUME Structure, NEW p \in Peers, PeerAnswers(p) PROVE Structure'
<1> DEFINE m == Head(toPeer[p])
           n == Len(conns)
<1>1. /\ toPeer \in [Peers -> Seq(Inquiry)] /\ fromPeer \in [Peers -> Seq(Reply)]
      /\ n \in Nat /\ \A q \in Peers : ByKnown(toPeer[q], n) /\ ByKnown(fromPeer[q], n)
  BY LenProperties DEF Structure, Shape, Numbered
<1>2. /\ toPeer[p] # <<>> /\ toPeer' = [toPeer EXCEPT ![p] = Tail(@)]
      /\ fromPeer' = [fromPeer EXCEPT ![p] = @ \o Answer(m)]
      /\ UNCHANGED <<conns, current, model, counter, calls, discoveries, goodbyes>>
  BY DEF PeerAnswers, bounds
<1>3. (\A x \in Inquiry : x.by \in Nat) /\ (\A x \in Reply : x.by \in Nat)
  BY DEF Inquiry, Reply
<1>4. /\ m \in Inquiry /\ m.by <= n
      /\ Tail(toPeer[p]) \in Seq(Inquiry) /\ ByKnown(Tail(toPeer[p]), n)
  BY <1>1, <1>2, <1>3, TailIs, ByKnownChanges
<1> HIDE DEF m, n
<1>5. Answer(m) \in Seq(Reply) /\ ByKnown(Answer(m), n)
  <2>1. CASE Answer(m) = <<>>
    BY <2>1 DEF ByKnown
  <2>2. ASSUME NEW r \in Reply, Answer(m) = <<r>>, r.by \in {0, m.by}
        PROVE  Answer(m) \in Seq(Reply) /\ ByKnown(Answer(m), n)
    <3>1. r.by <= n
      BY <1>1, <1>4, <2>2
    <3> QED
      BY <2>2, <3>1, OneIs DEF ByKnown
  <2> QED
    BY <1>4, <2>1, <2>2, AnswerIs
<1>6. fromPeer[p] \o Answer(m) \in Seq(Reply) /\ ByKnown(fromPeer[p] \o Answer(m), n)
  BY <1>1, <1>3, <1>5, ConcatIs, ByKnownChanges
<1>7. /\ toPeer' \in [Peers -> Seq(Inquiry)] /\ fromPeer' \in [Peers -> Seq(Reply)]
      /\ \A q \in Peers : ByKnown(toPeer'[q], n) /\ ByKnown(fromPeer'[q], n)
  BY <1>1, <1>2, <1>4, <1>6
<1>8. Shape' /\ CallbacksHeld'
  BY <1>2, <1>7 DEF Structure, Shape, CallbacksHeld
<1>9. Numbered'
  BY <1>2, <1>7 DEF Structure, Numbered, n
<1> QED
  BY <1>8, <1>9 DEF Structure

LEMMA GoodbyeStructure ==
    ASSUME Structure, NEW p \in Peers, Goodbye(p) PROVE Structure'
<1> DEFINE m == Plain("invalidate")
           n == Len(conns)
<1>1. /\ fromPeer \in [Peers -> Seq(Reply)]
      /\ n \in Nat /\ \A q \in Peers : ByKnown(toPeer[q], n) /\ ByKnown(fromPeer[q], n)
  BY LenProperties DEF Structure, Shape, Numbered
<1>2. /\ fromPeer' = [fromPeer EXCEPT ![p] = Append(@, m)]
      /\ UNCHANGED <<conns, current, model, toPeer, counter, calls, discoveries>>
      /\ goodbyes' \in 0 .. MaxGoodbyes
  BY SessionAssumption DEF Goodbye, Structure, Shape
<1>3. m \in Reply /\ m.by = 0
  BY PlainIs DEF Inquiries, Types
<1> HIDE DEF m, n
<1>4. <<m>> \in Seq(Reply) /\ ByKnown(<<m>>, n)
  BY <1>1, <1>3, OneIs DEF ByKnown
<1>5. fromPeer[p] \o <<m>> \in Seq(Reply) /\ ByKnown(fromPeer[p] \o <<m>>, n)
  <2>1. \A x \in Reply : x.by \in Nat
    BY DEF Reply
  <2> QED
    BY <1>1, <1>4, <2>1, ConcatIs, ByKnownChanges
<1>6. fromPeer' = [fromPeer EXCEPT ![p] = fromPeer[p] \o <<m>>]
  BY <1>1, <1>2, <1>3, AppendIs
<1>7. /\ fromPeer' \in [Peers -> Seq(Reply)]
      /\ \A q \in Peers : ByKnown(toPeer'[q], n) /\ ByKnown(fromPeer'[q], n)
  BY <1>1, <1>2, <1>5, <1>6
<1>8. Shape' /\ CallbacksHeld'
  BY <1>2, <1>7 DEF Structure, Shape, CallbacksHeld
<1>9. Numbered'
  BY <1>2, <1>7 DEF Structure, Numbered, n
<1> QED
  BY <1>8, <1>9 DEF Structure

LEMMA GetPropertyStructure ==
    ASSUME Structure, NEW c \in 1 .. Len(conns), NEW x \in Wanted, GetProperty(c, x)
    PROVE  Structure'
<1> DEFINE p == conns[c].peer
           m == Get(NextId(1), x, c)
           call == [conn |-> c, prop |-> x, answer |-> NoAnswer]
<1>1. PICK new \in Connection :
           /\ conns' = [conns EXCEPT ![c] = new]
           /\ NextId(1) \in RequestId /\ Len(calls) \in Nat /\ conns[c] \in Connection
           /\ new.open = Put(conns[c].open, NextId(1), x)
           /\ new.waiting = Put(conns[c].waiting, NextId(1), Len(calls) + 1)
           /\ new.peer = conns[c].peer
  BY GetPropertyIs
<1>2. /\ conns \in Seq(Connection) /\ Len(conns) \in Nat /\ p \in Peers /\ x \in Resources
      /\ c \in Nat /\ toPeer \in [Peers -> Seq(Inquiry)] /\ calls \in Seq(Call)
  <2>1. conns \in Seq(Connection) /\ toPeer \in [Peers -> Seq(Inquiry)] /\ calls \in Seq(Call)
    BY DEF Structure, Shape
  <2>2. Len(conns) \in Nat /\ c \in Nat
    BY <2>1, LenProperties
  <2>3. p \in Peers
    BY <1>1 DEF Connection
  <2>4. x \in Resources
    BY Constants
  <2> QED
    BY <2>1, <2>2, <2>3, <2>4
<1>3. /\ conns' \in Seq(Connection) /\ Len(conns') = Len(conns) /\ conns'[c] = new
      /\ \A d \in 1 .. Len(conns) : d # c => conns'[d] = conns[d]
  BY <1>1, <1>2, Replaced
<1>4. /\ calls' = Append(calls, call) /\ counter' = NextId(1)
      /\ toPeer' = [toPeer EXCEPT ![p] = Append(@, m)]
      /\ UNCHANGED <<current, model, fromPeer, discoveries, goodbyes>>
  BY DEF GetProperty, bounds
<1>5. m \in Inquiry /\ m.by = c /\ call \in Call /\ call.conn = c
  BY <1>1, <1>2, GetIs DEF Call, Bodies, NoAnswer
<1> HIDE DEF m, call, p
<1>6. toPeer' = [toPeer EXCEPT ![p] = @ \o <<m>>]
  BY <1>2, <1>4, <1>5, AppendIs
<1>7. <<m>> \in Seq(Inquiry) /\ ByKnown(<<m>>, Len(conns))
  BY <1>2, <1>5, OneIs DEF ByKnown
<1>8. /\ toPeer' \in [Peers -> Seq(Inquiry)] /\ fromPeer' \in [Peers -> Seq(Reply)]
      /\ \A q \in Peers : ByKnown(toPeer'[q], Len(conns)) /\ ByKnown(fromPeer'[q], Len(conns))
  <2>1. Len(conns) <= Len(conns) /\ fromPeer' = fromPeer
    BY <1>2, <1>4
  <2> QED
    BY <1>2, <1>6, <1>7, <2>1, LinesKept
<1>9. /\ calls' \in Seq(Call) /\ Len(calls') = Len(calls) + 1
      /\ calls'[Len(calls) + 1] = call
      /\ \A n \in 1 .. Len(calls) : calls'[n] = calls[n]
  BY <1>2, <1>4, <1>5, AppendProperties
<1>10. Shape'
  BY <1>1, <1>3, <1>4, <1>8, <1>9 DEF Structure, Shape
<1>11. Numbered'
  <2>1. \A n \in 1 .. Len(calls') : calls'[n].conn \in 1 .. Len(conns')
    BY <1>1, <1>3, <1>5, <1>9 DEF Structure, Numbered
  <2>2. \A d \in 1 .. Len(conns) : conns'[d].peer = conns[d].peer
    BY <1>1, <1>3
  <2>3. \A q \in Peers : current'[q] = current[q]
    BY <1>4
  <2> QED
    BY <1>2, <1>3, <1>8, <1>10, <2>1, <2>2, <2>3, NumberedKept
<1>12. CallbacksHeld'
  <2>1. conns[c].open \in Partial(Resources) /\ conns[c].waiting \in Partial(Nat)
    BY <1>1 DEF Connection
  <2>2. /\ DOMAIN new.open = DOMAIN conns[c].open \cup {NextId(1)}
        /\ DOMAIN new.waiting = DOMAIN conns[c].waiting \cup {NextId(1)}
        /\ \A id \in DOMAIN new.waiting :
             new.waiting[id] = IF id = NextId(1) THEN Len(calls) + 1 ELSE conns[c].waiting[id]
    <3> DEFINE n == Len(calls) + 1
               id1 == NextId(1)
               w == conns[c].waiting
               o == conns[c].open
    <3>1. n \in Nat /\ id1 \in RequestId /\ x \in Resources
      BY <1>1, <1>2
    <3> HIDE DEF n, id1, w, o
    <3>2. DOMAIN Put(o, id1, x) = DOMAIN o \cup {id1}
      BY DEF Put
    <3>3. /\ DOMAIN Put(w, id1, n) = DOMAIN w \cup {id1}
          /\ \A id \in DOMAIN Put(w, id1, n) :
                Put(w, id1, n)[id] = IF id = id1 THEN n ELSE w[id]
      BY DEF Put
    <3>4. new.open = Put(o, id1, x) /\ new.waiting = Put(w, id1, n)
      BY <1>1 DEF n, id1, w, o
    <3> QED
      BY <3>2, <3>3, <3>4 DEF n, id1, w, o
  <2>3. DOMAIN new.waiting \subseteq DOMAIN new.open
    BY <2>2 DEF Structure, CallbacksHeld
  <2>4. \A id \in DOMAIN new.waiting : new.waiting[id] \in 1 .. Len(calls')
    BY <1>1, <1>9, <2>2 DEF Structure, CallbacksHeld
  <2>5. Len(calls) <= Len(calls') /\ Len(calls') \in Nat
    BY <1>1, <1>9
  <2> QED
    BY <1>1, <2>3, <2>4, <2>5, CallbacksKept
<1> QED
  BY <1>10, <1>11, <1>12 DEF Structure

\* What processInput does with the first message of a line.
Handled(p, m) ==
    \/ m.type = "discoveryReply" /\ NewEndpoint(p)
    \/ m.type = "invalidate" /\ Invalidate(p)
    \/ m.type = "propCapsReply" /\ RequestList(p)
    \/ m.type = "procCapsReply" /\ SetFeatures(p)
    \/ m.type = "getReply" /\ TakeReply(p, m)
    \/ Ignored(p, m) /\ UNCHANGED <<conns, current, model, toPeer, counter, calls>>

LEMMA ReceiveIs ==
    ASSUME Structure, NEW p \in Peers, Receive(p)
    PROVE  \E m \in Reply :
           /\ m = Head(fromPeer[p]) /\ fromPeer[p] # <<>> /\ m.by <= Len(conns)
           /\ fromPeer' = [fromPeer EXCEPT ![p] = Tail(@)]
           /\ Handled(p, m) /\ UNCHANGED <<discoveries, goodbyes>>
<1> DEFINE m == Head(fromPeer[p])
<1>1. /\ fromPeer[p] # <<>> /\ fromPeer' = [fromPeer EXCEPT ![p] = Tail(@)]
      /\ Handled(p, m) /\ UNCHANGED <<discoveries, goodbyes>>
  BY DEF Receive, Handled, bounds
<1>2. fromPeer[p] \in Seq(Reply) /\ ByKnown(fromPeer[p], Len(conns)) /\ Len(conns) \in Nat
  BY LenProperties DEF Structure, Shape, Numbered
<1>3. m \in Reply /\ m.by <= Len(conns)
  <2>1. \A x \in Reply : x.by \in Nat
    BY DEF Reply
  <2> QED
    BY <1>1, <1>2, <2>1, TailIs, ByKnownChanges
<1> HIDE DEF m
<1> QED
  BY <1>1, <1>3 DEF m

LEMMA NewEndpointStructure ==
    ASSUME Structure, NEW p \in Peers, NewEndpoint(p), fromPeer[p] # <<>>,
           fromPeer' = [fromPeer EXCEPT ![p] = Tail(@)],
           UNCHANGED <<discoveries, goodbyes>>
    PROVE  Structure'
<1> DEFINE new == NewConnection(p)
           n == Len(conns)
<1>1. /\ conns' = Append(conns, new) /\ current' = [current EXCEPT ![p] = n + 1]
      /\ DOMAIN model' = DOMAIN model
      /\ toPeer' = [toPeer EXCEPT ![p] = @ \o Greeting]
      /\ UNCHANGED <<counter, calls>>
  BY DEF NewEndpoint, Structure, Shape
<1>2. /\ new \in Connection /\ new.peer = p /\ new.open = <<>> /\ new.waiting = <<>>
      /\ conns \in Seq(Connection) /\ n \in Nat /\ current \in [Peers -> Nat]
  BY NewConnectionIs, LenProperties DEF Structure, Shape
<1> HIDE DEF new
<1>3. /\ conns' \in Seq(Connection) /\ Len(conns') = n + 1 /\ conns'[n + 1] = new
      /\ \A c \in 1 .. n : conns'[c] = conns[c]
  BY <1>1, <1>2, AppendProperties
<1>4. /\ toPeer' \in [Peers -> Seq(Inquiry)] /\ fromPeer' \in [Peers -> Seq(Reply)]
      /\ \A q \in Peers : ByKnown(toPeer'[q], n + 1) /\ ByKnown(fromPeer'[q], n + 1)
  <2>1. Greeting \in Seq(Inquiry) /\ ByKnown(Greeting, n + 1) /\ n + 1 \in Nat /\ n <= n + 1
    BY <1>2, GreetingIs DEF ByKnown
  <2> QED
    BY <1>1, <2>1, LinesKept
<1>5. Shape'
  BY <1>1, <1>2, <1>3, <1>4 DEF Structure, Shape
<1>6. Numbered'
  <2>1. n <= Len(conns') /\ Len(conns') = n + 1
    BY <1>2, <1>3
  <2>2. \A c \in 1 .. n : conns'[c].peer = conns[c].peer
    BY <1>3
  <2>3. ASSUME NEW q \in Peers
        PROVE  \/ current'[q] \in {0, current[q]}
               \/ current'[q] \in 1 .. Len(conns') /\ conns'[current'[q]].peer = q
    <3>1. CASE q = p
      <4>1. current'[q] = n + 1 /\ n + 1 \in 1 .. Len(conns')
        BY <1>1, <1>2, <1>3, <3>1
      <4> QED
        BY <1>2, <1>3, <3>1, <4>1
    <3>2. CASE q # p
      BY <1>1, <1>2, <3>2
    <3> QED
      BY <3>1, <3>2
  <2>4. \A k \in 1 .. Len(calls') : calls'[k].conn \in 1 .. Len(conns')
    BY <1>1, <1>2, <1>3 DEF Structure, Numbered
  <2> QED
    BY <1>4, <1>5, <2>1, <2>2, <2>3, <2>4, NumberedKept
<1>7. CallbacksHeld'
  <2>1. DOMAIN new.waiting = {} /\ DOMAIN new.open = {}
    BY <1>2, EmptyMap
  <2>2. \A c \in 1 .. n + 1 : c \in 1 .. n \/ c = n + 1
    BY <1>2
  <2> QED
    BY <1>1, <1>3, <2>1, <2>2 DEF Structure, CallbacksHeld
<1> QED
  BY <1>5, <1>6, <1>7 DEF Structure

\* The connection changes to new and sends something.
LEMMA ChangedStructure ==
    ASSUME Structure, NEW p \in Peers, current[p] # 0, NEW new \in Connection,
           new.peer = conns[current[p]].peer,
           conns' = [conns EXCEPT ![current[p]] = new],
           DOMAIN new.waiting \subseteq DOMAIN new.open,
           \A id \in DOMAIN new.waiting : new.waiting[id] \in 1 .. Len(calls),
           NEW send \in Seq(Inquiry), ByKnown(send, Len(conns)),
           toPeer' = [toPeer EXCEPT ![p] = @ \o send] \/ toPeer' = toPeer,
           fromPeer[p] # <<>> /\ fromPeer' = [fromPeer EXCEPT ![p] = Tail(@)],
           current' = current, DOMAIN model' = DOMAIN model, counter' \in RequestId,
           calls' \in Seq(Call), Len(calls') = Len(calls),
           \A n \in 1 .. Len(calls) : calls'[n].conn = calls[n].conn,
           UNCHANGED <<discoveries, goodbyes>>
    PROVE  Structure'
<1> DEFINE c == current[p]
<1>1. c \in 1 .. Len(conns) /\ conns \in Seq(Connection)
  BY CurrentIs DEF Structure, Shape
<1>2. /\ conns' \in Seq(Connection) /\ Len(conns') = Len(conns) /\ conns'[c] = new
      /\ \A d \in 1 .. Len(conns) : d # c => conns'[d] = conns[d]
  BY <1>1, Replaced
<1>3. Len(conns) \in Nat /\ Len(calls) \in Nat /\ Len(calls) <= Len(calls')
  BY <1>1, LenProperties DEF Structure, Shape
<1>4. /\ toPeer' \in [Peers -> Seq(Inquiry)] /\ fromPeer' \in [Peers -> Seq(Reply)]
      /\ \A q \in Peers : ByKnown(toPeer'[q], Len(conns)) /\ ByKnown(fromPeer'[q], Len(conns))
  <2>1. Len(conns) <= Len(conns)
    BY <1>3
  <2> QED
    BY <1>3, <2>1, LinesKept
<1>5. Shape'
  BY <1>2, <1>4 DEF Structure, Shape
<1>6. Numbered'
  <2>1. \A d \in 1 .. Len(conns) : conns'[d].peer = conns[d].peer
    BY <1>1, <1>2
  <2>2. \A k \in 1 .. Len(calls') : calls'[k].conn \in 1 .. Len(conns')
    BY <1>2 DEF Structure, Numbered
  <2>3. \A q \in Peers : current'[q] = current[q]
    OBVIOUS
  <2> QED
    BY <1>2, <1>3, <1>4, <1>5, <2>1, <2>2, <2>3, NumberedKept
<1>7. CallbacksHeld'
  BY <1>1, <1>3, CallbacksKept
<1> QED
  BY <1>5, <1>6, <1>7 DEF Structure

LEMMA TakeReplyStructure ==
    ASSUME Structure, NEW p \in Peers, NEW m \in Reply, TakeReply(p, m), fromPeer[p] # <<>>,
           fromPeer' = [fromPeer EXCEPT ![p] = Tail(@)],
           UNCHANGED <<discoveries, goodbyes>>
    PROVE  Structure'
<1> DEFINE c == current[p]
           conn == conns[c]
<1>0. PICK gets \in Seq(Resources), report \in BOOLEAN, new \in Connection :
        Replied(p, m, gets, report, new)
  BY TakeReplyIs
<1>1. /\ c # 0 /\ m.id \in DOMAIN conn.open /\ Len(gets) <= 3
      /\ calls' = Called(conn, m)
      /\ conns' = [conns EXCEPT ![c] = new]
      /\ new.peer = conn.peer
      /\ new.open = Without(Opened(conn.open, gets), m.id)
      /\ new.waiting = Without(conn.waiting, m.id)
      /\ model' = IF model[p] # NoModel
                  THEN [model EXCEPT ![p].shown = new.values] ELSE model
      /\ counter' = NextId(Len(gets))
      /\ toPeer' = [toPeer EXCEPT ![p] = @ \o Sent(gets, c, report)]
      /\ current' = current
  BY <1>0 DEF Replied
<1>2. c \in 1 .. Len(conns) /\ conn \in Connection /\ counter \in RequestId
      /\ Len(conns) \in Nat
  BY <1>1, CurrentIs, LenProperties DEF Structure, Shape
<1>3. conn.open \in Partial(Resources) /\ conn.waiting \in Partial(Nat) /\ c \in Nat
  BY <1>2 DEF Connection
<1> HIDE DEF conn, c
<1>4. /\ Opened(conn.open, gets) \in Partial(Resources)
      /\ DOMAIN conn.open \subseteq DOMAIN Opened(conn.open, gets)
  BY <1>1, <1>2, <1>3, OpenedIs
<1>5. /\ DOMAIN new.open = DOMAIN Opened(conn.open, gets) \ {m.id}
      /\ DOMAIN new.waiting = DOMAIN conn.waiting \ {m.id}
      /\ \A id \in DOMAIN new.waiting : new.waiting[id] = conn.waiting[id]
  <2> DEFINE o == Opened(conn.open, gets)
             w == conn.waiting
             id1 == m.id
  <2>1. o \in Partial(Resources) /\ w \in Partial(Nat)
    BY <1>3, <1>4
  <2>2. new.open = Without(o, id1) /\ new.waiting = Without(w, id1)
    BY <1>1
  <2> HIDE DEF o, w, id1
  <2>3. DOMAIN Without(o, id1) = DOMAIN o \ {id1}
    BY <2>1, WithoutIs
  <2>4. /\ DOMAIN Without(w, id1) = DOMAIN w \ {id1}
        /\ \A id \in DOMAIN Without(w, id1) : Without(w, id1)[id] = w[id]
    BY <2>1, WithoutIs
  <2> QED
    BY <2>2, <2>3, <2>4 DEF o, w, id1
<1>6. /\ DOMAIN conn.waiting \subseteq DOMAIN conn.open
      /\ \A id \in DOMAIN conn.waiting : conn.waiting[id] \in 1 .. Len(calls)
  BY <1>2 DEF Structure, CallbacksHeld, conn
<1>7. /\ DOMAIN new.waiting \subseteq DOMAIN new.open
      /\ \A id \in DOMAIN new.waiting : new.waiting[id] \in 1 .. Len(calls)
  BY <1>4, <1>5, <1>6
<1>8. Sent(gets, c, report) \in Seq(Inquiry) /\ ByKnown(Sent(gets, c, report), Len(conns))
  <2> DEFINE s == Sent(gets, c, report)
  <2>1. /\ s \in Seq(Inquiry) /\ Len(s) = Len(gets) + (IF report THEN 1 ELSE 0)
        /\ \A k \in 1 .. Len(gets) : s[k] = Get(NextId(k), gets[k], c)
        /\ report => s[Len(gets) + 1] = Plain("report")
    BY <1>1, <1>2, <1>3, SentIs
  <2>2. Len(gets) \in Nat
    BY LenProperties
  <2> HIDE DEF s
  <2>3. \A k \in 1 .. Len(gets) : s[k].by = c
    BY <2>1, GetFields
  <2>4. report => s[Len(gets) + 1].by = 0
    BY <2>1, PlainIs DEF Types
  <2>5. c <= Len(conns) /\ 0 <= Len(conns)
    BY <1>2
  <2> DEFINE n == Len(gets)
  <2> HIDE DEF n
  <2>6. ASSUME NEW i \in 1 .. Len(s) PROVE s[i].by <= Len(conns)
    <3>1. n \in Nat /\ Len(s) = n + (IF report THEN 1 ELSE 0)
      BY <2>1, <2>2 DEF n
    <3>2. i \in 1 .. n \/ (report /\ i = n + 1)
      BY <3>1
    <3>3. s[i].by \in {0, c}
      BY <2>3, <2>4, <3>2 DEF n
    <3> QED
      BY <2>5, <3>3
  <2> QED
    BY <2>1, <2>6 DEF s, ByKnown
<1>9. counter' \in RequestId
  <2>1. Len(gets) \in Nat /\ Len(gets) <= 3
    BY <1>1, LenProperties
  <2>2. Len(gets) \in 0 .. 3
    <3> DEFINE n == Len(gets)
    <3> HIDE DEF n
    <3>1. n \in Nat /\ n <= 3
      BY <2>1 DEF n
    <3>2. n \in 0 .. 3
      BY <3>1
    <3> QED
      BY <3>2 DEF n
  <2> QED
    BY <1>1, <1>2, <2>2, NextIds
<1>10. DOMAIN model' = DOMAIN model
  BY <1>1
<1>11. /\ calls' \in Seq(Call) /\ Len(calls') = Len(calls)
       /\ \A n \in 1 .. Len(calls) : calls'[n].conn = calls[n].conn
  BY <1>1, <1>2, CalledIs DEF conn
<1> QED
  BY <1>1, <1>7, <1>8, <1>9, <1>10, <1>11, ChangedStructure DEF c, conn

LEMMA RequestListStructure ==
    ASSUME Structure, NEW p \in Peers, RequestList(p), fromPeer[p] # <<>>,
           fromPeer' = [fromPeer EXCEPT ![p] = Tail(@)],
           UNCHANGED <<discoveries, goodbyes>>
    PROVE  Structure'
<1> DEFINE c == current[p]
           conn == conns[c]
           m == Get(0, ResourceList, c)
<1>1. PICK new \in Connection :
           /\ c # 0 /\ conns' = [conns EXCEPT ![c] = new]
           /\ new.open = Put(conn.open, 0, ResourceList)
           /\ new.waiting = conn.waiting /\ new.peer = conn.peer
  BY RequestListIs
<1>2. /\ toPeer' = [toPeer EXCEPT ![p] = Append(@, m)]
      /\ UNCHANGED <<current, model, calls, counter>>
  BY DEF RequestList
<1>3. /\ c \in 1 .. Len(conns) /\ Len(conns) \in Nat /\ counter \in RequestId
      /\ toPeer \in [Peers -> Seq(Inquiry)] /\ calls \in Seq(Call)
  BY <1>1, CurrentIs, LenProperties DEF Structure, Shape
<1>4. m \in Inquiry /\ m.by = c
  BY <1>3, Constants, GetIs
<1> HIDE DEF m, c
<1>5. <<m>> \in Seq(Inquiry) /\ ByKnown(<<m>>, Len(conns))
  BY <1>3, <1>4, OneIs DEF ByKnown
<1>6. toPeer' = [toPeer EXCEPT ![p] = @ \o <<m>>]
  BY <1>2, <1>3, <1>4, AppendIs
<1>7. /\ DOMAIN new.waiting \subseteq DOMAIN new.open
      /\ \A id \in DOMAIN new.waiting : new.waiting[id] \in 1 .. Len(calls)
  <2>1. DOMAIN new.open = DOMAIN conn.open \cup {0}
    BY <1>1 DEF Put
  <2> QED
    BY <1>1, <1>3, <2>1 DEF Structure, CallbacksHeld
<1> QED
  BY <1>1, <1>2, <1>3, <1>5, <1>6, <1>7, ChangedStructure DEF c

LEMMA SetFeaturesIs ==
    ASSUME Structure, NEW p \in Peers, SetFeatures(p)
    PROVE  \E new \in Connection :
           LET c == current[p] IN
           /\ c # 0 /\ conns' = [conns EXCEPT ![c] = new]
           /\ new.open = conns[c].open /\ new.waiting = conns[c].waiting
           /\ new.peer = conns[c].peer /\ new.values = conns[c].values
           /\ new.reporting <=> p \in Reporting
           /\ new.allCtrl = conns[c].allCtrl /\ new.reported = conns[c].reported
<1> DEFINE c == current[p]
           new == [conns[c] EXCEPT !.reporting = p \in Reporting]
<1>1. c # 0 /\ conns' = [conns EXCEPT ![c] = new]
  BY DEF SetFeatures
<1>2. conns[c] \in Connection
  BY <1>1, CurrentIs
<1>3. /\ new \in Connection
      /\ new.open = conns[c].open /\ new.waiting = conns[c].waiting
      /\ new.peer = conns[c].peer /\ new.values = conns[c].values
      /\ new.reporting <=> p \in Reporting
      /\ new.allCtrl = conns[c].allCtrl /\ new.reported = conns[c].reported
  <2> DEFINE b == p \in Reporting
  <2>1. b \in BOOLEAN
    OBVIOUS
  <2>2. new = [conns[c] EXCEPT !.reporting = b]
    OBVIOUS
  <2> HIDE DEF b, c, new
  <2>3. /\ new \in Connection /\ new.open = conns[c].open /\ new.waiting = conns[c].waiting
        /\ new.peer = conns[c].peer /\ new.values = conns[c].values
        /\ new.allCtrl = conns[c].allCtrl /\ new.reported = conns[c].reported
    BY <1>2, <2>1, <2>2 DEF Connection
  <2>4. new.reporting = b
    BY <1>2, <2>2 DEF Connection
  <2>5. new.reporting <=> p \in Reporting
    BY <2>4, Zenon DEF b
  <2> QED
    BY <2>3, <2>5
<1> HIDE DEF new
<1> QED
  BY <1>1, <1>3

LEMMA SetFeaturesStructure ==
    ASSUME Structure, NEW p \in Peers, SetFeatures(p), fromPeer[p] # <<>>,
           fromPeer' = [fromPeer EXCEPT ![p] = Tail(@)],
           UNCHANGED <<discoveries, goodbyes>>
    PROVE  Structure'
<1> DEFINE c == current[p]
<1>1. PICK new \in Connection :
           /\ c # 0 /\ conns' = [conns EXCEPT ![c] = new]
           /\ new.open = conns[c].open /\ new.waiting = conns[c].waiting
           /\ new.peer = conns[c].peer
  BY SetFeaturesIs
<1>2. UNCHANGED <<current, model, toPeer, calls, counter>>
  BY DEF SetFeatures
<1>3. /\ c \in 1 .. Len(conns) /\ counter \in RequestId /\ calls \in Seq(Call)
  BY <1>1, CurrentIs DEF Structure, Shape
<1>4. <<>> \in Seq(Inquiry) /\ ByKnown(<<>>, Len(conns))
  BY DEF ByKnown
<1>5. /\ DOMAIN new.waiting \subseteq DOMAIN new.open
      /\ \A id \in DOMAIN new.waiting : new.waiting[id] \in 1 .. Len(calls)
  BY <1>1, <1>3 DEF Structure, CallbacksHeld
<1> QED
  BY <1>1, <1>2, <1>3, <1>4, <1>5, ChangedStructure

LEMMA DropStructure ==
    ASSUME Structure, NEW p \in Peers, fromPeer[p] # <<>>,
           fromPeer' = [fromPeer EXCEPT ![p] = Tail(@)],
           current' \in [Peers -> Nat], \A q \in Peers : current'[q] \in {0, current[q]},
           DOMAIN model' = DOMAIN model,
           UNCHANGED <<conns, toPeer, counter, calls, discoveries, goodbyes>>
    PROVE  Structure'
<1>1. <<>> \in Seq(Inquiry) /\ ByKnown(<<>>, Len(conns))
  BY DEF ByKnown
<1>2. Len(conns) \in Nat /\ Len(conns) <= Len(conns)
  <2>1. Len(conns) \in Nat
    BY LenProperties DEF Structure, Shape
  <2> QED
    BY <2>1
<1>3. /\ toPeer' \in [Peers -> Seq(Inquiry)] /\ fromPeer' \in [Peers -> Seq(Reply)]
      /\ \A q \in Peers : ByKnown(toPeer'[q], Len(conns)) /\ ByKnown(fromPeer'[q], Len(conns))
  BY <1>1, <1>2, LinesKept
<1>4. Shape' /\ CallbacksHeld'
  BY <1>3 DEF Structure, Shape, CallbacksHeld
<1>5. Numbered'
  <2>1. \A n \in 1 .. Len(calls') : calls'[n].conn \in 1 .. Len(conns')
    BY DEF Structure, Numbered
  <2>2. \A c \in 1 .. Len(conns) : conns'[c].peer = conns[c].peer
    OBVIOUS
  <2> QED
    BY <1>2, <1>3, <1>4, <2>1, <2>2, NumberedKept
<1> QED
  BY <1>4, <1>5 DEF Structure

LEMMA StepStructure == Structure /\ [Next]_vars => Structure'
<1> SUFFICES ASSUME Structure, [Next]_vars PROVE Structure'
  OBVIOUS
<1>1. CASE SendDiscovery
  BY <1>1, DiscoveryStructure
<1>2. ASSUME NEW p \in Peers, PeerAnswers(p) PROVE Structure'
  BY <1>2, AnswersStructure
<1>3. ASSUME NEW p \in Peers, Goodbye(p) PROVE Structure'
  BY <1>3, GoodbyeStructure
<1>4. ASSUME NEW p \in Peers, Receive(p) PROVE Structure'
  <2>1. PICK m \in Reply :
           /\ m = Head(fromPeer[p]) /\ fromPeer[p] # <<>>
           /\ fromPeer' = [fromPeer EXCEPT ![p] = Tail(@)]
           /\ Handled(p, m) /\ UNCHANGED <<discoveries, goodbyes>>
    BY <1>4, ReceiveIs
  <2>2. CASE NewEndpoint(p)
    BY <2>1, <2>2, NewEndpointStructure
  <2>3. CASE Invalidate(p)
    <3>1. current \in [Peers -> Nat]
      BY DEF Structure, Shape
    <3>2. /\ current' = [current EXCEPT ![p] = 0] /\ DOMAIN model' = DOMAIN model
          /\ UNCHANGED <<conns, toPeer, counter, calls>>
      BY <2>3 DEF Invalidate
    <3>3. current' \in [Peers -> Nat] /\ \A q \in Peers : current'[q] \in {0, current[q]}
      BY <3>1, <3>2
    <3> QED
      BY <2>1, <3>2, <3>3, DropStructure
  <2>4. CASE RequestList(p)
    BY <2>1, <2>4, RequestListStructure
  <2>5. CASE SetFeatures(p)
    BY <2>1, <2>5, SetFeaturesStructure
  <2>6. CASE TakeReply(p, m)
    BY <2>1, <2>6, TakeReplyStructure
  <2>7. CASE UNCHANGED <<conns, current, model, toPeer, counter, calls>>
    <3>1. current' \in [Peers -> Nat] /\ \A q \in Peers : current'[q] \in {0, current[q]}
      BY <2>7 DEF Structure, Shape
    <3> QED
      BY <2>1, <2>7, <3>1, DropStructure
  <2> QED
    BY <2>1, <2>2, <2>3, <2>4, <2>5, <2>6, <2>7 DEF Handled
<1>5. ASSUME NEW c \in 1 .. Len(conns), NEW x \in Wanted, GetProperty(c, x) PROVE Structure'
  BY <1>5, GetPropertyStructure
<1>6. CASE UNCHANGED vars
  BY <1>6 DEF vars, Structure, Shape, Numbered, CallbacksHeld
<1> QED
  BY <1>1, <1>2, <1>3, <1>4, <1>5, <1>6 DEF Next

LEMMA TypesHold == Structure => TypeOK
<1> SUFFICES ASSUME Structure PROVE TypeOK
  OBVIOUS
<1>1. ASSUME NEW c \in 1 .. Len(conns) PROVE ConnectionOK(conns[c])
  <2>1. conns[c] \in Connection
    BY ElementOfSeq DEF Structure, Shape
  <2>2. /\ conns[c].open \in Partial(Resources)
        /\ conns[c].peer \in Peers /\ conns[c].listed \subseteq Resources
        /\ conns[c].values \in [Resources -> Bodies]
        /\ {conns[c].reporting, conns[c].allCtrl, conns[c].reported} \subseteq BOOLEAN
    BY <2>1 DEF Connection
  <2>3. /\ DOMAIN conns[c].open \subseteq RequestId
        /\ \A id \in DOMAIN conns[c].open : conns[c].open[id] \in Resources
    BY <2>2, PartialHas
  <2> QED
    BY <2>2, <2>3 DEF ConnectionOK, Structure, CallbacksHeld
<1>2. current \in [Peers -> 0 .. Len(conns)]
  <2>1. Len(conns) \in Nat
    BY LenProperties DEF Structure, Shape
  <2> QED
    BY <2>1 DEF Structure, Shape, Numbered
<1>3. ASSUME NEW p \in Peers
      PROVE  toPeer[p] \in Seq(Messages) /\ fromPeer[p] \in Seq(Messages)
  <2>1. /\ toPeer[p] \in Seq(Inquiry) /\ fromPeer[p] \in Seq(Reply)
        /\ ByKnown(toPeer[p], Len(conns)) /\ ByKnown(fromPeer[p], Len(conns))
        /\ Len(conns) \in Nat
    BY LenProperties DEF Structure, Shape, Numbered
  <2>2. \A i \in 1 .. Len(toPeer[p]) : toPeer[p][i] \in Inquiry /\ toPeer[p][i].by <= Len(conns)
    BY <2>1, ElementOfSeq DEF ByKnown
  <2>3. \A i \in 1 .. Len(fromPeer[p]) :
            fromPeer[p][i] \in Reply /\ fromPeer[p][i].by <= Len(conns)
    BY <2>1, ElementOfSeq DEF ByKnown
  <2>4. \A m : (m \in Inquiry \/ m \in Reply) /\ m.by <= Len(conns) => m \in Messages
    BY <2>1 DEF Inquiry, Reply, Messages, Types, Inquiries
  <2>5. \A i \in 1 .. Len(toPeer[p]) : toPeer[p][i] \in Messages
    BY <2>2, <2>4
  <2>6. \A i \in 1 .. Len(fromPeer[p]) : fromPeer[p][i] \in Messages
    BY <2>3, <2>4
  <2>7. toPeer[p] \in Seq(Messages)
    BY <2>1, <2>5, LenProperties, IsASeq
  <2>8. fromPeer[p] \in Seq(Messages)
    BY <2>1, <2>6, LenProperties, IsASeq
  <2> QED
    BY <2>7, <2>8
<1>4. ASSUME NEW n \in 1 .. Len(calls)
      PROVE  calls[n] \in [conn : 1 .. Len(conns), prop : Resources, answer : Bodies]
  <2>1. calls[n] \in Call /\ calls[n].conn \in 1 .. Len(conns)
    BY ElementOfSeq DEF Structure, Shape, Numbered
  <2> QED
    BY <2>1 DEF Call
<1> QED
  BY <1>1, <1>2, <1>3, <1>4 DEF TypeOK, Structure, Shape

\* Every variable keeps its type, and a callback of getPropertyData waits only
\* while its request is open, whatever becomes of the request ids.
THEOREM TypeCorrect == Spec => []TypeOK
<1>1. Init => Structure
  BY InitStructure
<1>2. Structure /\ [Next]_vars => Structure'
  BY StepStructure
<1>3. Structure => TypeOK
  BY TypesHold
<1> QED
  BY <1>1, <1>2, <1>3, PTL DEF Spec

-----------------------------------------------------------------------------
(* What the tooling shows.                                                 *)

\* What the tooling has to list for a peer.
Listing(c, connections) ==
    IF c = 0 THEN NoModel ELSE [conn |-> c, shown |-> connections[c].values]

\* A step that leaves the values of every current connection follows.
LEMMA FollowsKept ==
    ASSUME Structure, ModelFollows, UNCHANGED <<current, model>>,
           \A c \in 1 .. Len(conns) : conns'[c].values = conns[c].values
    PROVE  ModelFollows'
<1> SUFFICES ASSUME NEW p \in Peers PROVE model'[p] = Listing(current'[p], conns')
  BY DEF ModelFollows, Listing
<1>1. model[p] = Listing(current[p], conns)
  BY DEF ModelFollows, Listing
<1>2. CASE current[p] = 0
  BY <1>1, <1>2 DEF Listing
<1>3. CASE current[p] # 0
  <2>1. current[p] \in 1 .. Len(conns)
    BY <1>3, CurrentIs
  <2> QED
    BY <1>1, <1>3, <2>1 DEF Listing
<1> QED
  BY <1>2, <1>3

\* A change of the values of the connection to one peer, told to its model.
LEMMA ShownFollows ==
    ASSUME Structure, ModelFollows, NEW p \in Peers, NEW new \in Connection,
           current[p] # 0, conns' = [conns EXCEPT ![current[p]] = new], current' = current,
           model' = IF model[p] # NoModel
                    THEN [model EXCEPT ![p].shown = new.values] ELSE model
    PROVE  ModelFollows'
<1> DEFINE c == current[p]
<1>1. c \in 1 .. Len(conns) /\ conns \in Seq(Connection) /\ DOMAIN model = Peers
  BY CurrentIs DEF Structure, Shape
<1>2. /\ conns'[c] = new
      /\ \A d \in 1 .. Len(conns) : d # c => conns'[d] = conns[d]
  BY <1>1, Replaced
<1>3. model[p] = [conn |-> c, shown |-> conns[c].values]
  BY DEF ModelFollows
<1>4. model[p] # NoModel
  BY <1>3 DEF NoModel
<1>5. /\ model'[p] = [conn |-> c, shown |-> new.values]
      /\ \A q \in Peers : q # p => model'[q] = model[q]
  BY <1>1, <1>3, <1>4
<1>6. ASSUME NEW q \in Peers PROVE model'[q] = Listing(current'[q], conns')
  <2>1. CASE q = p
    BY <1>2, <1>5, <2>1 DEF Listing
  <2>2. CASE q # p /\ current[q] = 0
    BY <1>5, <2>2 DEF Listing, ModelFollows
  <2>3. CASE q # p /\ current[q] # 0
    <3>1. current[q] \in 1 .. Len(conns) /\ conns[current[q]].peer = q /\ conns[c].peer = p
      BY <2>3, CurrentIs
    <3>2. conns'[current[q]] = conns[current[q]]
      BY <1>2, <2>3, <3>1
    <3> QED
      BY <1>5, <2>3, <3>2 DEF Listing, ModelFollows
  <2> QED
    BY <2>1, <2>2, <2>3
<1> QED
  BY <1>6 DEF ModelFollows, Listing

LEMMA NewEndpointFollows ==
    ASSUME Structure, ModelFollows, NEW p \in Peers, NewEndpoint(p)
    PROVE  ModelFollows'
<1> DEFINE new == NewConnection(p)
           n == Len(conns)
<1>1. /\ conns' = Append(conns, new) /\ current' = [current EXCEPT ![p] = n + 1]
      /\ model' = [model EXCEPT ![p] = ModelOfNew(p)]
  BY DEF NewEndpoint
<1>2. /\ new \in Connection /\ conns \in Seq(Connection) /\ n \in Nat
      /\ current \in [Peers -> Nat] /\ DOMAIN model = Peers
  BY NewConnectionIs, LenProperties DEF Structure, Shape
<1>3. ModelOfNew(p) = [conn |-> n + 1, shown |-> new.values]
  <2> DEFINE removed == IF current[p] # 0 THEN Synced(model[p], 0, new.values) ELSE model[p]
  <2>1. removed = NoModel
    BY DEF ModelFollows, Synced
  <2>2. ModelOfNew(p) = Synced(removed, n + 1, new.values)
    BY DEF ModelOfNew
  <2>3. n + 1 # 0
    BY <1>2
  <2> HIDE DEF removed, new, n
  <2> QED
    BY <2>1, <2>2, <2>3 DEF Synced
<1> HIDE DEF new
<1>4. conns'[n + 1] = new /\ \A c \in 1 .. n : conns'[c] = conns[c]
  BY <1>1, <1>2, AppendProperties
<1>5. ASSUME NEW q \in Peers PROVE model'[q] = Listing(current'[q], conns')
  <2>1. CASE q = p
    <3>1. current'[q] = n + 1 /\ n + 1 # 0 /\ model'[q] = [conn |-> n + 1, shown |-> new.values]
      BY <1>1, <1>2, <1>3, <2>1
    <3> QED
      BY <1>4, <3>1 DEF Listing
  <2>2. CASE q # p
    <3>1. current'[q] = current[q] /\ model'[q] = model[q]
      BY <1>1, <1>2, <2>2
    <3>2. current[q] # 0 => conns'[current[q]] = conns[current[q]]
      BY <1>4, CurrentIs
    <3> QED
      BY <3>1, <3>2 DEF Listing, ModelFollows
  <2> QED
    BY <2>1, <2>2
<1> QED
  BY <1>5 DEF ModelFollows, Listing

LEMMA StepFollows == Structure /\ ModelFollows /\ [Next]_vars => ModelFollows'
<1> SUFFICES ASSUME Structure, ModelFollows, [Next]_vars PROVE ModelFollows'
  OBVIOUS
<1>0. conns \in Seq(Connection)
  BY DEF Structure, Shape
<1>1. CASE SendDiscovery
  BY <1>1, FollowsKept DEF SendDiscovery
<1>2. ASSUME NEW p \in Peers, PeerAnswers(p) PROVE ModelFollows'
  BY <1>2, FollowsKept DEF PeerAnswers
<1>3. ASSUME NEW p \in Peers, Goodbye(p) PROVE ModelFollows'
  BY <1>3, FollowsKept DEF Goodbye
<1>4. ASSUME NEW p \in Peers, Receive(p) PROVE ModelFollows'
  <2>1. PICK m \in Reply : Handled(p, m)
    BY <1>4, ReceiveIs
  <2>2. CASE NewEndpoint(p)
    BY <2>2, NewEndpointFollows
  <2>3. CASE Invalidate(p)
    <3>1. /\ current' = [current EXCEPT ![p] = 0] /\ model' = [model EXCEPT ![p] = NoModel]
          /\ conns' = conns
      BY <2>3 DEF Invalidate
    <3>2. current \in [Peers -> Nat] /\ DOMAIN model = Peers
      BY DEF Structure, Shape
    <3> QED
      BY <3>1, <3>2 DEF ModelFollows
  <2>4. CASE RequestList(p)
    <3>1. PICK new \in Connection :
            /\ current[p] # 0 /\ conns' = [conns EXCEPT ![current[p]] = new]
            /\ new.values = conns[current[p]].values
      BY <2>4, RequestListIs
    <3>2. current[p] \in 1 .. Len(conns)
      BY <3>1, CurrentIs
    <3>3. \A c \in 1 .. Len(conns) : conns'[c].values = conns[c].values
      BY <1>0, <3>1, <3>2, Replaced
    <3> QED
      BY <2>4, <3>3, FollowsKept DEF RequestList
  <2>5. CASE SetFeatures(p)
    <3>1. PICK new \in Connection :
            /\ current[p] # 0 /\ conns' = [conns EXCEPT ![current[p]] = new]
            /\ new.values = conns[current[p]].values
      BY <2>5, SetFeaturesIs
    <3>2. current[p] \in 1 .. Len(conns)
      BY <3>1, CurrentIs
    <3>3. \A c \in 1 .. Len(conns) : conns'[c].values = conns[c].values
      BY <1>0, <3>1, <3>2, Replaced
    <3> QED
      BY <2>5, <3>3, FollowsKept DEF SetFeatures
  <2>6. CASE TakeReply(p, m)
    <3>1. PICK gets \in Seq(Resources), report \in BOOLEAN, new \in Connection :
            Replied(p, m, gets, report, new)
      BY <2>6, TakeReplyIs
    <3>2. /\ current[p] # 0 /\ conns' = [conns EXCEPT ![current[p]] = new]
          /\ current' = current
          /\ model' = IF model[p] # NoModel
                      THEN [model EXCEPT ![p].shown = new.values] ELSE model
      BY <3>1 DEF Replied
    <3> QED
      BY <3>2, ShownFollows
  <2>7. CASE UNCHANGED <<conns, current, model, toPeer, counter, calls>>
    BY <2>7, FollowsKept
  <2> QED
    BY <2>1, <2>2, <2>3, <2>4, <2>5, <2>6, <2>7 DEF Handled
<1>5. ASSUME NEW c \in 1 .. Len(conns), NEW x \in Wanted, GetProperty(c, x)
      PROVE  ModelFollows'
  <2>1. PICK new \in Connection :
          conns' = [conns EXCEPT ![c] = new] /\ new.values = conns[c].values
    BY <1>5, GetPropertyIs
  <2>2. \A d \in 1 .. Len(conns) : conns'[d].values = conns[d].values
    BY <1>0, <2>1, Replaced
  <2> QED
    BY <1>5, <2>2, FollowsKept DEF GetProperty
<1>6. CASE UNCHANGED vars
  BY <1>6, FollowsKept DEF vars
<1> QED
  BY <1>1, <1>2, <1>3, <1>4, <1>5, <1>6 DEF Next

\* The list of the tooling is the list of the device, with the very objects and
\* the values they have now, however often a peer is found anew.
THEOREM ListFollows == Spec => []ModelFollows
<1>1. Init => Structure /\ ModelFollows
  BY InitStructure DEF Init, ModelFollows
<1>2. Structure /\ ModelFollows /\ [Next]_vars => (Structure /\ ModelFollows)'
  BY StepStructure, StepFollows
<1> QED
  BY <1>1, <1>2, PTL DEF Spec

-----------------------------------------------------------------------------
(* One line: requests to a peer and replies back.                          *)

\* New messages: their ids are new, or 0 for the list.
New(send, count, next) ==
    /\ \A k \in 1 .. Len(send) : Getting(send[k]) =>
        \/ send[k].id = 0 /\ send[k].prop = ResourceList
        \/ count < send[k].id /\ send[k].id <= next
    /\ Once(send)

\* The requests that open with them.
Opens(send, count, c, open, more) ==
    /\ Same(send, c, more)
    /\ \A id \in DOMAIN more : id = 0 => more[id] = ResourceList
    /\ \A id \in DOMAIN open : id \in DOMAIN more /\ more[id] = open[id]
    /\ \A id \in DOMAIN more \ DOMAIN open :
        (id = 0 \/ count < id) /\ Comes(send, c, id, more[id])

LEMMA IdsAreNat ==
    /\ \A x \in Inquiry : x.id \in Nat /\ x.by \in Nat
    /\ \A x \in Reply : x.id \in Nat /\ x.by \in Nat
  BY Constants DEF Inquiry, Reply

LEMMA NumbersSend ==
    ASSUME NEW to \in Seq(Inquiry), NEW from \in Seq(Reply), NEW send \in Seq(Inquiry),
           NEW count \in Nat, NEW next \in Nat, count <= next,
           Numbers(to, from, count), New(send, count, next)
    PROVE  Numbers(to \o send, from, next)
<1> DEFINE all == to \o send
           n == Len(to)
<1>1. /\ \A i \in 1 .. n : to[i].id \in Nat
      /\ \A i \in 1 .. Len(send) : send[i].id \in Nat
      /\ \A i \in 1 .. Len(from) : from[i].id \in Nat
  BY ElementOfSeq, IdsAreNat
<1>2. /\ \A i \in 1 .. n : all[i] = to[i]
      /\ \A j \in 1 .. Len(send) : all[n + j] = send[j]
      /\ \A i \in 1 .. Len(all) :
            i \in 1 .. n \/ \E j \in 1 .. Len(send) : i = n + j
  BY ConcatIs
<1> HIDE DEF all, n
<1>3. Fresh(to, count) /\ Fresh(from, count) /\ Once(to) /\ Once(from) /\ Apart(to, from)
  BY DEF Numbers
<1>4. \A i \in 1 .. n : Getting(to[i]) =>
        to[i].id <= count /\ (to[i].id = 0 => to[i].prop = ResourceList)
  BY <1>3 DEF Fresh, n
<1>5. \A i \in 1 .. Len(from) : Getting(from[i]) =>
        from[i].id <= count /\ (from[i].id = 0 => from[i].prop = ResourceList)
  BY <1>3 DEF Fresh
<1>6. \A k \in 1 .. Len(send) : Getting(send[k]) =>
        /\ send[k].id <= next /\ (send[k].id = 0 => send[k].prop = ResourceList)
        /\ send[k].id = 0 \/ count < send[k].id
  BY <1>1 DEF New
<1>7. Fresh(all, next)
  <2> SUFFICES ASSUME NEW i \in 1 .. Len(all), Getting(all[i])
               PROVE  all[i].id <= next /\ (all[i].id = 0 => all[i].prop = ResourceList)
    BY DEF Fresh
  <2>1. CASE i \in 1 .. n
    BY <1>1, <1>2, <1>4, <2>1
  <2>2. ASSUME NEW j \in 1 .. Len(send), i = n + j
        PROVE  all[i].id <= next /\ (all[i].id = 0 => all[i].prop = ResourceList)
    BY <1>2, <1>6, <2>2
  <2> QED
    BY <1>2, <2>1, <2>2
<1>8. Fresh(from, next)
  BY <1>1, <1>5 DEF Fresh
<1>9. Once(all)
  <2> SUFFICES ASSUME NEW i \in 1 .. Len(all), NEW j \in 1 .. Len(all),
                      Getting(all[i]), Getting(all[j]), all[i].id = all[j].id, all[i].id # 0
               PROVE  i = j
    BY DEF Once
  <2>1. CASE i \in 1 .. n /\ j \in 1 .. n
    BY <1>2, <1>3, <2>1 DEF Once, n
  <2>2. ASSUME NEW k \in 1 .. Len(send), NEW l \in 1 .. Len(send), i = n + k, j = n + l
        PROVE  i = j
    <3>1. all[i] = send[k] /\ all[j] = send[l]
      BY <1>2, <2>2
    <3>2. k = l
      BY <3>1 DEF New, Once
    <3> QED
      BY <2>2, <3>2
  <2>3. ASSUME NEW k \in 1 .. n, NEW l \in 1 .. Len(send),
               Getting(all[k]), Getting(all[n + l]), all[k].id = all[n + l].id,
               all[k].id # 0
        PROVE  FALSE
    <3>1. all[k] = to[k] /\ all[n + l] = send[l]
      BY <1>2
    <3>2. to[k].id \in Nat /\ to[k].id <= count
      BY <1>1, <1>4, <2>3, <3>1
    <3>3. send[l].id = 0 \/ count < send[l].id
      BY <1>6, <2>3, <3>1
    <3> QED
      BY <2>3, <3>1, <3>2, <3>3
  <2> QED
    BY <1>2, <2>1, <2>2, <2>3
<1>10. Apart(all, from)
  <2> SUFFICES ASSUME NEW i \in 1 .. Len(all), NEW j \in 1 .. Len(from),
                      Getting(all[i]), Getting(from[j]), all[i].id = from[j].id
               PROVE  all[i].id = 0
    BY DEF Apart
  <2>1. CASE i \in 1 .. n
    BY <1>2, <1>3, <2>1 DEF Apart, n
  <2>2. ASSUME NEW k \in 1 .. Len(send), i = n + k PROVE all[i].id = 0
    <3>1. all[i] = send[k] /\ Getting(send[k])
      BY <1>2, <2>2
    <3>2. from[j].id \in Nat /\ from[j].id <= count
      BY <1>1, <1>5
    <3>3. send[k].id = 0 \/ count < send[k].id
      BY <1>6, <3>1
    <3>4. send[k].id = from[j].id
      BY <3>1
    <3> QED
      BY <3>1, <3>2, <3>3, <3>4
  <2> QED
    BY <1>2, <2>1, <2>2
<1> QED
  BY <1>3, <1>7, <1>8, <1>9, <1>10 DEF Numbers, all

LEMMA MatchedSend ==
    ASSUME NEW to \in Seq(Inquiry), NEW from \in Seq(Reply), NEW send \in Seq(Inquiry),
           NEW count \in Nat, NEW c, NEW open, NEW more,
           Numbers(to, from, count), Matched(to, from, c, open),
           Opens(send, count, c, open, more)
    PROVE  Matched(to \o send, from, c, more)
<1> DEFINE all == to \o send
           n == Len(to)
<1>1. /\ \A i \in 1 .. n : to[i].id \in Nat
      /\ \A i \in 1 .. Len(from) : from[i].id \in Nat
  BY ElementOfSeq, IdsAreNat
<1>2. /\ \A i \in 1 .. n : i \in 1 .. Len(all) /\ all[i] = to[i]
      /\ \A j \in 1 .. Len(send) : n + j \in 1 .. Len(all) /\ all[n + j] = send[j]
      /\ \A i \in 1 .. Len(all) :
            i \in 1 .. n \/ \E j \in 1 .. Len(send) : i = n + j
  BY ConcatIs
<1> HIDE DEF all, n
<1>3. ASSUME NEW m, m.id \in Nat, m.id <= count, m.id = 0 => m.prop = ResourceList,
             m.id \in DOMAIN open => m.prop = open[m.id],
             m.by = c /\ m.id # 0 => m.id \in DOMAIN open
      PROVE  /\ m.id \in DOMAIN more => m.prop = more[m.id]
             /\ m.by = c /\ m.id # 0 => m.id \in DOMAIN more
  <2>1. CASE m.id \in DOMAIN open
    BY <1>3, <2>1 DEF Opens
  <2>2. CASE m.id \notin DOMAIN open
    <3>1. m.id \in DOMAIN more => m.id = 0
      BY <1>3, <2>2 DEF Opens
    <3> QED
      BY <1>3, <2>2, <3>1 DEF Opens
  <2> QED
    BY <2>1, <2>2
<1>4. Same(from, c, more)
  <2> SUFFICES ASSUME NEW i \in 1 .. Len(from), Getting(from[i])
               PROVE  /\ from[i].id \in DOMAIN more => from[i].prop = more[from[i].id]
                      /\ from[i].by = c /\ from[i].id # 0 => from[i].id \in DOMAIN more
    BY DEF Same
  <2>1. /\ from[i].id <= count /\ (from[i].id = 0 => from[i].prop = ResourceList)
        /\ from[i].id \in DOMAIN open => from[i].prop = open[from[i].id]
        /\ from[i].by = c /\ from[i].id # 0 => from[i].id \in DOMAIN open
    BY DEF Matched, Numbers, Fresh, Same
  <2> QED
    BY <1>1, <1>3, <2>1
<1>5. \A i \in 1 .. n : Getting(to[i]) =>
        /\ to[i].id \in DOMAIN more => to[i].prop = more[to[i].id]
        /\ to[i].by = c /\ to[i].id # 0 => to[i].id \in DOMAIN more
  BY <1>1, <1>3 DEF Matched, Numbers, Fresh, Same, n
<1>6. \A k \in 1 .. Len(send) : Getting(send[k]) =>
        /\ send[k].id \in DOMAIN more => send[k].prop = more[send[k].id]
        /\ send[k].by = c /\ send[k].id # 0 => send[k].id \in DOMAIN more
  BY DEF Opens, Same
<1>7. Same(all, c, more)
  <2> SUFFICES ASSUME NEW i \in 1 .. Len(all), Getting(all[i])
               PROVE  /\ all[i].id \in DOMAIN more => all[i].prop = more[all[i].id]
                      /\ all[i].by = c /\ all[i].id # 0 => all[i].id \in DOMAIN more
    BY DEF Same
  <2>1. CASE i \in 1 .. n
    BY <1>2, <1>5, <2>1
  <2>2. ASSUME NEW j \in 1 .. Len(send), i = n + j
        PROVE  /\ all[i].id \in DOMAIN more => all[i].prop = more[all[i].id]
               /\ all[i].by = c /\ all[i].id # 0 => all[i].id \in DOMAIN more
    BY <1>2, <1>6, <2>2
  <2> QED
    BY <1>2, <2>1, <2>2
<1>8. ASSUME NEW id \in DOMAIN more
      PROVE  Comes(all, c, id, more[id]) \/ Comes(from, c, id, more[id])
  <2>1. CASE id \in DOMAIN open
    <3>1. more[id] = open[id] /\ (Comes(to, c, id, open[id]) \/ Comes(from, c, id, open[id]))
      BY <2>1 DEF Opens, Matched
    <3>2. Comes(to, c, id, open[id]) => Comes(all, c, id, open[id])
      BY <1>2 DEF Comes, n
    <3> QED
      BY <3>1, <3>2
  <2>2. CASE id \notin DOMAIN open
    <3>1. Comes(send, c, id, more[id])
      BY <2>2 DEF Opens
    <3> QED
      BY <1>2, <3>1 DEF Comes
  <2> QED
    BY <2>1, <2>2
<1> QED
  BY <1>4, <1>7, <1>8 DEF Matched, all

LEMMA Shifted ==
    ASSUME NEW S, NEW line \in Seq(S), line # <<>>
    PROVE  /\ 1 \in 1 .. Len(line)
           /\ \A i \in 1 .. Len(Tail(line)) :
                i + 1 \in 1 .. Len(line) /\ Tail(line)[i] = line[i + 1] /\ i + 1 # 1
           /\ \A i \in 1 .. Len(line) :
                i = 1 \/ (i - 1 \in 1 .. Len(Tail(line)) /\ Tail(line)[i - 1] = line[i])
           /\ \A i, j \in 1 .. Len(Tail(line)) : i + 1 = j + 1 => i = j
<1> DEFINE t == Tail(line)
<1>1. /\ Len(line) \in Nat /\ Len(t) = Len(line) - 1 /\ 1 \in 1 .. Len(line)
      /\ \A i \in 1 .. Len(t) : i + 1 \in 1 .. Len(line) /\ t[i] = line[i + 1]
  BY TailIs
<1> HIDE DEF t
<1>2. \A i \in 1 .. Len(line) : i = 1 \/ (i - 1 \in 1 .. Len(t) /\ i = (i - 1) + 1)
  BY <1>1
<1>3. \A i \in 1 .. Len(line) : i = 1 \/ (i - 1 \in 1 .. Len(t) /\ t[i - 1] = line[i])
  BY <1>1, <1>2
<1>4. \A i \in 1 .. Len(t) : i + 1 # 1
  BY <1>1
<1>5. \A i, j \in 1 .. Len(t) : i + 1 = j + 1 => i = j
  BY <1>1
<1> QED
  BY <1>1, <1>3, <1>4, <1>5 DEF t

LEMMA Added ==
    ASSUME NEW S, NEW line \in Seq(S), NEW r \in S
    PROVE  /\ \A i \in 1 .. Len(line) :
                i \in 1 .. Len(line \o <<r>>) /\ (line \o <<r>>)[i] = line[i]
                /\ i < Len(line) + 1
           /\ Len(line) + 1 \in 1 .. Len(line \o <<r>>)
           /\ (line \o <<r>>)[Len(line) + 1] = r
           /\ \A i \in 1 .. Len(line \o <<r>>) : i \in 1 .. Len(line) \/ i = Len(line) + 1
<1> DEFINE all == line \o <<r>>
           n == Len(line)
<1>1. <<r>> \in Seq(S) /\ Len(<<r>>) = 1 /\ <<r>>[1] = r
  BY OneIs
<1>2. /\ \A i \in 1 .. n : i \in 1 .. Len(all) /\ all[i] = line[i]
      /\ \A j \in 1 .. Len(<<r>>) : n + j \in 1 .. Len(all) /\ all[n + j] = <<r>>[j]
      /\ \A i \in 1 .. Len(all) :
            i \in 1 .. n \/ \E j \in 1 .. Len(<<r>>) : i = n + j
      /\ n \in Nat
  BY <1>1, ConcatIs
<1>3. 1 \in 1 .. Len(<<r>>) /\ \A j \in 1 .. Len(<<r>>) : j = 1
  BY <1>1
<1> HIDE DEF all, n
<1>4. n + 1 \in 1 .. Len(all) /\ all[n + 1] = r
  BY <1>1, <1>2, <1>3
<1>5. \A i \in 1 .. Len(all) : i \in 1 .. n \/ i = n + 1
  BY <1>2, <1>3
<1>6. \A i \in 1 .. n : i < n + 1
  BY <1>2
<1> QED
  BY <1>2, <1>4, <1>5, <1>6 DEF all, n

\* The reply at the head of a line is taken; its request is closed, and with
\* it what has the same id.
LEMMA NumbersTaken ==
    ASSUME NEW to \in Seq(Inquiry), NEW from \in Seq(Reply), from # <<>>,
           NEW count, Numbers(to, from, count)
    PROVE  Numbers(to, Tail(from), count)
<1> DEFINE rest == Tail(from)
<1>1. /\ \A i \in 1 .. Len(rest) : i + 1 \in 1 .. Len(from) /\ rest[i] = from[i + 1]
      /\ \A i, j \in 1 .. Len(rest) : i + 1 = j + 1 => i = j
  BY Shifted
<1> HIDE DEF rest
<1>2. Fresh(rest, count) /\ Apart(to, rest)
  <2>1. Fresh(from, count) /\ Apart(to, from)
    BY DEF Numbers
  <2>2. Fresh(rest, count)
    BY <1>1, <2>1 DEF Fresh
  <2>3. Apart(to, rest)
    BY <1>1, <2>1 DEF Apart
  <2> QED
    BY <2>2, <2>3
<1>3. Once(rest)
  <2> SUFFICES ASSUME NEW i \in 1 .. Len(rest), NEW j \in 1 .. Len(rest),
                      Getting(rest[i]), Getting(rest[j]), rest[i].id = rest[j].id,
                      rest[i].id # 0
               PROVE  i = j
    BY DEF Once
  <2>1. /\ i + 1 \in 1 .. Len(from) /\ rest[i] = from[i + 1]
        /\ j + 1 \in 1 .. Len(from) /\ rest[j] = from[j + 1]
    BY <1>1
  <2>2. Once(from)
    BY DEF Numbers
  <2>3. i + 1 = j + 1
    BY <2>1, <2>2 DEF Once
  <2> QED
    BY <1>1, <2>3
<1> QED
  BY <1>2, <1>3 DEF Numbers, rest

LEMMA MatchedTaken ==
    ASSUME NEW to \in Seq(Inquiry), NEW from \in Seq(Reply), from # <<>>,
           NEW count, NEW c, NEW open, NEW rest,
           Numbers(to, from, count), Matched(to, from, c, open), Getting(from[1]),
           DOMAIN rest = DOMAIN open \ {from[1].id},
           \A id \in DOMAIN rest : rest[id] = open[id]
    PROVE  Matched(to, Tail(from), c, rest)
<1> DEFINE t == Tail(from)
           m == from[1]
<1>1. /\ \A i \in 1 .. Len(t) : i + 1 \in 1 .. Len(from) /\ t[i] = from[i + 1] /\ i + 1 # 1
      /\ \A i \in 1 .. Len(from) : i = 1 \/ (i - 1 \in 1 .. Len(t) /\ t[i - 1] = from[i])
      /\ 1 \in 1 .. Len(from)
  BY Shifted
<1> HIDE DEF t
<1>2. \A i \in 1 .. Len(to) : Getting(to[i]) /\ to[i].id = m.id => to[i].id = 0
  BY <1>1 DEF Numbers, Apart
<1>3. ASSUME NEW i \in 1 .. Len(t), Getting(t[i]), t[i].id = m.id PROVE t[i].id = 0
  <2>1. i + 1 \in 1 .. Len(from) /\ t[i] = from[i + 1] /\ i + 1 # 1 /\ 1 \in 1 .. Len(from)
    BY <1>1
  <2>2. Once(from)
    BY DEF Numbers
  <2>3. Getting(from[i + 1]) /\ Getting(from[1]) /\ from[i + 1].id = from[1].id
    BY <1>3, <2>1
  <2>4. from[1].id = 0
    BY <2>1, <2>2, <2>3 DEF Once
  <2> QED
    BY <1>3, <2>4
<1>4. Same(to, c, rest)
  BY <1>2 DEF Matched, Same
<1>5. Same(t, c, rest)
  <2>1. \A i \in 1 .. Len(t) : Getting(t[i]) =>
            /\ t[i].id \in DOMAIN open => t[i].prop = open[t[i].id]
            /\ t[i].by = c /\ t[i].id # 0 => t[i].id \in DOMAIN open
    BY <1>1 DEF Matched, Same
  <2> QED
    BY <1>3, <2>1 DEF Same
<1>6. ASSUME NEW id \in DOMAIN rest
      PROVE  Comes(to, c, id, rest[id]) \/ Comes(t, c, id, rest[id])
  <2>1. id # m.id /\ rest[id] = open[id]
        /\ (Comes(to, c, id, open[id]) \/ Comes(from, c, id, open[id]))
    BY DEF Matched
  <2>2. ASSUME Comes(from, c, id, open[id]) PROVE Comes(t, c, id, open[id])
    <3>1. PICK i \in 1 .. Len(from) :
             Getting(from[i]) /\ from[i].by = c /\ from[i].id = id /\ from[i].prop = open[id]
      BY <2>2 DEF Comes
    <3>2. i # 1
      BY <2>1, <3>1
    <3>3. i - 1 \in 1 .. Len(t) /\ t[i - 1] = from[i]
      BY <1>1, <3>2
    <3> QED
      BY <3>1, <3>3 DEF Comes
  <2> QED
    BY <2>1, <2>2
<1> QED
  BY <1>4, <1>5, <1>6 DEF Matched, t

LEMMA MatchedIgnored ==
    ASSUME NEW to \in Seq(Inquiry), NEW from \in Seq(Reply), from # <<>>,
           NEW c, NEW open, Matched(to, from, c, open),
           ~Getting(from[1]) \/ from[1].id \notin DOMAIN open
    PROVE  Matched(to, Tail(from), c, open)
<1> DEFINE t == Tail(from)
<1>1. /\ \A i \in 1 .. Len(t) : i + 1 \in 1 .. Len(from) /\ t[i] = from[i + 1]
      /\ \A i \in 1 .. Len(from) : i = 1 \/ (i - 1 \in 1 .. Len(t) /\ t[i - 1] = from[i])
  BY Shifted
<1> HIDE DEF t
<1>2. Same(to, c, open) /\ Same(t, c, open)
  <2>1. Same(to, c, open) /\ Same(from, c, open)
    BY DEF Matched
  <2> SUFFICES ASSUME NEW i \in 1 .. Len(t), Getting(t[i])
               PROVE  /\ t[i].id \in DOMAIN open => t[i].prop = open[t[i].id]
                      /\ t[i].by = c /\ t[i].id # 0 => t[i].id \in DOMAIN open
    BY <2>1 DEF Same
  <2>2. i + 1 \in 1 .. Len(from) /\ t[i] = from[i + 1]
    BY <1>1
  <2> QED
    BY <2>1, <2>2 DEF Same
<1>3. ASSUME NEW id \in DOMAIN open
      PROVE  Comes(to, c, id, open[id]) \/ Comes(t, c, id, open[id])
  <2>1. ASSUME Comes(from, c, id, open[id]) PROVE Comes(t, c, id, open[id])
    <3>1. PICK i \in 1 .. Len(from) :
             Getting(from[i]) /\ from[i].by = c /\ from[i].id = id /\ from[i].prop = open[id]
      BY <2>1 DEF Comes
    <3>2. i # 1
      BY <3>1
    <3>3. i - 1 \in 1 .. Len(t) /\ t[i - 1] = from[i]
      BY <1>1, <3>2
    <3> QED
      BY <3>1, <3>3 DEF Comes
  <2> QED
    BY <2>1 DEF Matched
<1> QED
  BY <1>2, <1>3 DEF Matched, t

\* A peer sends something that is no reply to a request.
LEMMA LineAdded ==
    ASSUME NEW to \in Seq(Inquiry), NEW from \in Seq(Reply), NEW r \in Reply, ~Getting(r)
    PROVE  /\ \A count : Numbers(to, from, count) => Numbers(to, from \o <<r>>, count)
           /\ \A c, open : Matched(to, from, c, open) => Matched(to, from \o <<r>>, c, open)
<1> DEFINE all == from \o <<r>>
           n == Len(from)
<1>2. /\ \A i \in 1 .. n : i \in 1 .. Len(all) /\ all[i] = from[i]
      /\ \A i \in 1 .. Len(all) : i \in 1 .. n \/ i = n + 1
      /\ all[n + 1] = r
  BY Added
<1> HIDE DEF all, n
<1>3. \A i \in 1 .. Len(all) : Getting(all[i]) => i \in 1 .. n /\ all[i] = from[i]
  BY <1>2
<1>4. ASSUME NEW count, Numbers(to, from, count) PROVE Numbers(to, all, count)
  BY <1>3, <1>4 DEF Numbers, Fresh, Once, Apart, n
<1>5. ASSUME NEW c, NEW open, Matched(to, from, c, open) PROVE Matched(to, all, c, open)
  <2>1. Same(all, c, open)
    BY <1>3, <1>5 DEF Matched, Same, n
  <2>2. \A id, x : Comes(from, c, id, x) => Comes(all, c, id, x)
    BY <1>2 DEF Comes, n
  <2> QED
    BY <1>5, <2>1, <2>2 DEF Matched
<1> QED
  BY <1>4, <1>5 DEF all

\* The peer answers: the reply takes the place of the request.
LEMMA LineAnswered ==
    ASSUME NEW to \in Seq(Inquiry), NEW from \in Seq(Reply), to # <<>>, NEW r \in Reply,
           Getting(to[1]) <=> Getting(r),
           Getting(r) => r.by = to[1].by /\ r.id = to[1].id /\ r.prop = to[1].prop
    PROVE  /\ \A count : Numbers(to, from, count)
                         => Numbers(Tail(to), from \o <<r>>, count)
           /\ \A c, open : Matched(to, from, c, open)
                           => Matched(Tail(to), from \o <<r>>, c, open)
<1> DEFINE all == from \o <<r>>
           n == Len(from)
           t == Tail(to)
<1>1. /\ 1 \in 1 .. Len(to)
      /\ \A i \in 1 .. Len(t) : i + 1 \in 1 .. Len(to) /\ t[i] = to[i + 1] /\ i + 1 # 1
      /\ \A i \in 1 .. Len(to) : i = 1 \/ (i - 1 \in 1 .. Len(t) /\ t[i - 1] = to[i])
      /\ \A i, j \in 1 .. Len(t) : i + 1 = j + 1 => i = j
  BY Shifted
<1>2. /\ \A i \in 1 .. n : i \in 1 .. Len(all) /\ all[i] = from[i]
      /\ n + 1 \in 1 .. Len(all) /\ all[n + 1] = r
      /\ \A i \in 1 .. Len(all) : i \in 1 .. n \/ i = n + 1
  BY Added
<1> HIDE DEF all, n, t
<1>3. ASSUME NEW count, Numbers(to, from, count) PROVE Numbers(t, all, count)
  <2>1. Fresh(to, count) /\ Fresh(from, count) /\ Once(to) /\ Once(from) /\ Apart(to, from)
    BY <1>3 DEF Numbers
  <2>2. Fresh(t, count)
    BY <1>1, <2>1 DEF Fresh
  <2>3. Fresh(all, count)
    <3> SUFFICES ASSUME NEW i \in 1 .. Len(all), Getting(all[i])
                 PROVE  all[i].id <= count /\ (all[i].id = 0 => all[i].prop = ResourceList)
      BY DEF Fresh
    <3>1. CASE i \in 1 .. n
      BY <1>2, <2>1, <3>1 DEF Fresh, n
    <3>2. CASE i = n + 1
      BY <1>1, <1>2, <2>1, <3>2 DEF Fresh
    <3> QED
      BY <1>2, <3>1, <3>2
  <2>4. Once(t)
    <3> SUFFICES ASSUME NEW i \in 1 .. Len(t), NEW j \in 1 .. Len(t),
                        Getting(t[i]), Getting(t[j]), t[i].id = t[j].id, t[i].id # 0
                 PROVE  i = j
      BY DEF Once
    <3>1. /\ i + 1 \in 1 .. Len(to) /\ t[i] = to[i + 1]
          /\ j + 1 \in 1 .. Len(to) /\ t[j] = to[j + 1]
      BY <1>1
    <3>2. i + 1 = j + 1
      BY <2>1, <3>1 DEF Once
    <3> QED
      BY <1>1, <3>2
  <2>5. \A i \in 1 .. n : Getting(from[i]) /\ Getting(r) /\ from[i].id = r.id => r.id = 0
    BY <1>1, <2>1 DEF Apart, n
  <2>6. Once(all)
    <3> SUFFICES ASSUME NEW i \in 1 .. Len(all), NEW j \in 1 .. Len(all),
                        Getting(all[i]), Getting(all[j]), all[i].id = all[j].id,
                        all[i].id # 0
                 PROVE  i = j
      BY DEF Once
    <3>1. CASE i \in 1 .. n /\ j \in 1 .. n
      BY <1>2, <2>1, <3>1 DEF Once, n
    <3>2. CASE i \in 1 .. n /\ j = n + 1
      BY <1>2, <2>5, <3>2
    <3>3. CASE i = n + 1 /\ j \in 1 .. n
      BY <1>2, <2>5, <3>3
    <3> QED
      BY <1>2, <3>1, <3>2, <3>3
  <2>7. Apart(t, all)
    <3> SUFFICES ASSUME NEW i \in 1 .. Len(t), NEW j \in 1 .. Len(all),
                        Getting(t[i]), Getting(all[j]), t[i].id = all[j].id
                 PROVE  t[i].id = 0
      BY DEF Apart
    <3>1. i + 1 \in 1 .. Len(to) /\ t[i] = to[i + 1] /\ i + 1 # 1
      BY <1>1
    <3>2. CASE j \in 1 .. n
      BY <1>2, <2>1, <3>1, <3>2 DEF Apart, n
    <3>3. CASE j = n + 1
      BY <1>1, <1>2, <2>1, <3>1, <3>3 DEF Once
    <3> QED
      BY <1>2, <3>2, <3>3
  <2> QED
    BY <2>2, <2>3, <2>4, <2>6, <2>7 DEF Numbers
<1>4. ASSUME NEW c, NEW open, Matched(to, from, c, open) PROVE Matched(t, all, c, open)
  <2>1. Same(t, c, open)
    BY <1>1, <1>4 DEF Matched, Same
  <2>2. Same(all, c, open)
    <3> SUFFICES ASSUME NEW i \in 1 .. Len(all), Getting(all[i])
                 PROVE  /\ all[i].id \in DOMAIN open => all[i].prop = open[all[i].id]
                        /\ all[i].by = c /\ all[i].id # 0 => all[i].id \in DOMAIN open
      BY DEF Same
    <3>1. CASE i \in 1 .. n
      BY <1>2, <1>4, <3>1 DEF Matched, Same, n
    <3>2. CASE i = n + 1
      BY <1>1, <1>2, <1>4, <3>2 DEF Matched, Same
    <3> QED
      BY <1>2, <3>1, <3>2
  <2>3. ASSUME NEW id \in DOMAIN open
        PROVE  Comes(t, c, id, open[id]) \/ Comes(all, c, id, open[id])
    <3>1. CASE Comes(from, c, id, open[id])
      BY <1>2, <3>1 DEF Comes, n
    <3>2. CASE Comes(to, c, id, open[id])
      <4>1. PICK i \in 1 .. Len(to) :
              /\ Getting(to[i])
              /\ to[i].by = c /\ to[i].id = id /\ to[i].prop = open[id]
        BY <3>2 DEF Comes
      <4>2. CASE i = 1
        BY <1>2, <4>1, <4>2 DEF Comes
      <4>3. CASE i # 1
        BY <1>1, <4>1, <4>3 DEF Comes
      <4> QED
        BY <4>2, <4>3
    <3> QED
      BY <1>4, <3>1, <3>2 DEF Matched
  <2> QED
    BY <2>1, <2>2, <2>3 DEF Matched
<1> QED
  BY <1>3, <1>4 DEF all, t

\* The peer has no answer.
LEMMA LineSkipped ==
    ASSUME NEW to \in Seq(Inquiry), NEW from \in Seq(Reply), to # <<>>, ~Getting(to[1])
    PROVE  /\ \A count : Numbers(to, from, count) => Numbers(Tail(to), from, count)
           /\ \A c, open : Matched(to, from, c, open) => Matched(Tail(to), from, c, open)
<1> DEFINE t == Tail(to)
<1>1. /\ \A i \in 1 .. Len(t) : i + 1 \in 1 .. Len(to) /\ t[i] = to[i + 1] /\ i + 1 # 1
      /\ \A i \in 1 .. Len(to) : i = 1 \/ (i - 1 \in 1 .. Len(t) /\ t[i - 1] = to[i])
      /\ \A i, j \in 1 .. Len(t) : i + 1 = j + 1 => i = j
  BY Shifted
<1> HIDE DEF t
<1>2. ASSUME NEW count, Numbers(to, from, count) PROVE Numbers(t, from, count)
  <2>0. Fresh(to, count) /\ Apart(to, from)
    BY <1>2 DEF Numbers
  <2>1. Fresh(t, count)
    BY <1>1, <2>0 DEF Fresh
  <2>3. Apart(t, from)
    BY <1>1, <2>0 DEF Apart
  <2>2. Once(t)
    <3> SUFFICES ASSUME NEW i \in 1 .. Len(t), NEW j \in 1 .. Len(t),
                        Getting(t[i]), Getting(t[j]), t[i].id = t[j].id, t[i].id # 0
                 PROVE  i = j
      BY DEF Once
    <3>1. /\ i + 1 \in 1 .. Len(to) /\ t[i] = to[i + 1]
          /\ j + 1 \in 1 .. Len(to) /\ t[j] = to[j + 1]
      BY <1>1
    <3>2. i + 1 = j + 1
      BY <1>2, <3>1 DEF Numbers, Once
    <3> QED
      BY <1>1, <3>2
  <2> QED
    BY <1>2, <2>1, <2>2, <2>3 DEF Numbers
<1>3. ASSUME NEW c, NEW open, Matched(to, from, c, open) PROVE Matched(t, from, c, open)
  <2>1. Same(t, c, open)
    BY <1>1, <1>3 DEF Matched, Same
  <2>2. ASSUME NEW id \in DOMAIN open, Comes(to, c, id, open[id])
        PROVE  Comes(t, c, id, open[id])
    <3>1. PICK i \in 1 .. Len(to) :
            /\ Getting(to[i])
            /\ to[i].by = c /\ to[i].id = id /\ to[i].prop = open[id]
      BY <2>2 DEF Comes
    <3>2. i - 1 \in 1 .. Len(t) /\ t[i - 1] = to[i]
      BY <1>1, <3>1
    <3> QED
      BY <3>1, <3>2 DEF Comes
  <2> QED
    BY <1>3, <2>1, <2>2 DEF Matched
<1> QED
  BY <1>2, <1>3 DEF t

\* The features of the peer stay before what depends on them.
LEMMA FeaturesAnswered ==
    ASSUME NEW to \in Seq(Inquiry), NEW from \in Seq(Reply), to # <<>>, NEW r \in Reply,
           NEW c, FeaturesFirst(to, from, c),
           to[1].type = "procCaps" => r.type = "procCapsReply",
           Getting(to[1]) <=> Getting(r), Getting(r) => r.by = to[1].by
    PROVE  FeaturesFirst(Tail(to), from \o <<r>>, c)
<1> DEFINE all == from \o <<r>>
           n == Len(from)
           t == Tail(to)
<1>1. /\ 1 \in 1 .. Len(to)
      /\ \A i \in 1 .. Len(t) : i + 1 \in 1 .. Len(to) /\ t[i] = to[i + 1] /\ i + 1 # 1
      /\ \A i \in 1 .. Len(to) : i = 1 \/ (i - 1 \in 1 .. Len(t) /\ t[i - 1] = to[i])
      /\ n \in Nat
  BY Shifted, LenProperties
<1>2. /\ \A i \in 1 .. n : i \in 1 .. Len(all) /\ all[i] = from[i]
      /\ n + 1 \in 1 .. Len(all) /\ all[n + 1] = r
      /\ \A i \in 1 .. Len(all) : i \in 1 .. n \/ i = n + 1
  BY Added
<1> HIDE DEF all, n, t
<1>3. Has(from, "procCapsReply") => Has(all, "procCapsReply")
  BY <1>2 DEF Has, n
<1>4. to[1].type = "procCaps" => Has(all, "procCapsReply")
  BY <1>2 DEF Has
<1>5. Has(all, "procCapsReply") \/ Has(t, "procCaps")
  <2>1. ASSUME Has(to, "procCaps"), to[1].type # "procCaps" PROVE Has(t, "procCaps")
    <3>1. PICK i \in 1 .. Len(to) : to[i].type = "procCaps"
      BY <2>1 DEF Has
    <3>2. i - 1 \in 1 .. Len(t) /\ t[i - 1] = to[i]
      BY <1>1, <2>1, <3>1
    <3> QED
      BY <3>1, <3>2 DEF Has
  <2> QED
    BY <1>3, <1>4, <2>1 DEF FeaturesFirst
<1>6. Has(all, "procCapsReply") \/ FirstOf(t, "procCaps", c)
  <2> SUFFICES ASSUME FirstOf(to, "procCaps", c), to[1].type # "procCaps",
                      NEW i \in 1 .. Len(t), Getting(t[i]), t[i].by = c
               PROVE  \E j \in 1 .. i - 1 : t[j].type = "procCaps"
    BY <1>3, <1>4 DEF FeaturesFirst, FirstOf
  <2>1. i + 1 \in 1 .. Len(to) /\ t[i] = to[i + 1]
    BY <1>1
  <2>2. PICK j \in 1 .. (i + 1) - 1 : to[j].type = "procCaps"
    BY <2>1 DEF FirstOf
  <2>3. j \in 1 .. Len(to) /\ j # 1
    BY <2>1, <2>2
  <2>4. t[j - 1] = to[j] /\ j - 1 \in 1 .. i - 1
    BY <1>1, <2>2, <2>3
  <2> QED
    BY <2>2, <2>4
<1>7. FirstOf(all, "procCapsReply", c)
  <2> SUFFICES ASSUME NEW i \in 1 .. Len(all), Getting(all[i]), all[i].by = c
               PROVE  \E j \in 1 .. i - 1 : all[j].type = "procCapsReply"
    BY DEF FirstOf
  <2>1. CASE i \in 1 .. n
    <3>1. PICK j \in 1 .. i - 1 : from[j].type = "procCapsReply"
      BY <1>2, <2>1 DEF FeaturesFirst, FirstOf, n
    <3>2. j \in 1 .. n
      BY <1>1, <2>1, <3>1
    <3> QED
      BY <1>2, <3>1, <3>2
  <2>2. CASE i = n + 1
    <3>1. Getting(to[1]) /\ to[1].by = c
      BY <1>2, <2>2
    <3>2. ~FirstOf(to, "procCaps", c)
      BY <1>1, <3>1 DEF FirstOf
    <3>3. PICK j \in 1 .. n : from[j].type = "procCapsReply"
      BY <3>2 DEF FeaturesFirst, Has, n
    <3>4. j \in 1 .. i - 1
      BY <1>1, <2>2, <3>3
    <3> QED
      BY <1>2, <3>3, <3>4
  <2> QED
    BY <1>2, <2>1, <2>2
<1> QED
  BY <1>5, <1>6, <1>7 DEF FeaturesFirst, all, t

LEMMA FeaturesSkipped ==
    ASSUME NEW to \in Seq(Inquiry), NEW from \in Seq(Reply), to # <<>>,
           NEW c, FeaturesFirst(to, from, c), to[1].type # "procCaps"
    PROVE  FeaturesFirst(Tail(to), from, c)
<1> DEFINE t == Tail(to)
<1>1. /\ \A i \in 1 .. Len(t) : i + 1 \in 1 .. Len(to) /\ t[i] = to[i + 1] /\ i + 1 # 1
      /\ \A i \in 1 .. Len(to) : i = 1 \/ (i - 1 \in 1 .. Len(t) /\ t[i - 1] = to[i])
  BY Shifted
<1> HIDE DEF t
<1>2. ASSUME Has(to, "procCaps") PROVE Has(t, "procCaps")
  <2>1. PICK i \in 1 .. Len(to) : to[i].type = "procCaps"
    BY <1>2 DEF Has
  <2>2. i - 1 \in 1 .. Len(t) /\ t[i - 1] = to[i]
    BY <1>1, <2>1
  <2> QED
    BY <2>1, <2>2 DEF Has
<1>3. ASSUME FirstOf(to, "procCaps", c),
             NEW i \in 1 .. Len(t), Getting(t[i]), t[i].by = c
      PROVE  \E j \in 1 .. i - 1 : t[j].type = "procCaps"
  <2>1. i + 1 \in 1 .. Len(to) /\ t[i] = to[i + 1]
    BY <1>1
  <2>2. PICK j \in 1 .. (i + 1) - 1 : to[j].type = "procCaps"
    BY <1>3, <2>1 DEF FirstOf
  <2>3. j \in 1 .. Len(to) /\ j # 1
    BY <2>1, <2>2
  <2>4. t[j - 1] = to[j] /\ j - 1 \in 1 .. i - 1
    BY <1>1, <2>2, <2>3
  <2> QED
    BY <2>2, <2>4
<1> QED
  BY <1>2, <1>3 DEF FeaturesFirst, FirstOf, t

LEMMA FeaturesSend ==
    ASSUME NEW to \in Seq(Inquiry), NEW from \in Seq(Reply), NEW send \in Seq(Inquiry),
           NEW c, FeaturesFirst(to, from, c)
    PROVE  FeaturesFirst(to \o send, from, c)
<1> DEFINE all == to \o send
           n == Len(to)
<1>1. /\ \A i \in 1 .. n : i \in 1 .. Len(all) /\ all[i] = to[i]
      /\ \A i \in 1 .. Len(all) :
            i \in 1 .. n \/ \E j \in 1 .. Len(send) : i = n + j
      /\ n \in Nat
  BY ConcatIs
<1> HIDE DEF all, n
<1>2. Has(to, "procCaps") => Has(all, "procCaps")
  BY <1>1 DEF Has, n
<1>3. ASSUME ~Has(from, "procCapsReply") PROVE FirstOf(all, "procCaps", c)
  <2> SUFFICES ASSUME NEW i \in 1 .. Len(all), Getting(all[i]), all[i].by = c
               PROVE  \E j \in 1 .. i - 1 : all[j].type = "procCaps"
    BY DEF FirstOf
  <2>1. CASE i \in 1 .. n
    <3>1. FirstOf(to, "procCaps", c)
      BY <1>3 DEF FeaturesFirst
    <3>2. PICK j \in 1 .. i - 1 : to[j].type = "procCaps"
      BY <1>1, <2>1, <3>1 DEF FirstOf, n
    <3>3. j \in 1 .. n
      BY <1>1, <2>1, <3>2
    <3> QED
      BY <1>1, <3>2, <3>3
  <2>2. ASSUME NEW k \in 1 .. Len(send), i = n + k
        PROVE  \E j \in 1 .. i - 1 : all[j].type = "procCaps"
    <3>1. PICK j \in 1 .. n : to[j].type = "procCaps"
      BY <1>3 DEF FeaturesFirst, Has, n
    <3>2. j \in 1 .. i - 1
      BY <1>1, <2>2, <3>1
    <3> QED
      BY <1>1, <3>1, <3>2
  <2> QED
    BY <1>1, <2>1, <2>2
<1> QED
  BY <1>2, <1>3 DEF FeaturesFirst, all

LEMMA FeaturesAdded ==
    ASSUME NEW to \in Seq(Inquiry), NEW from \in Seq(Reply), NEW r \in Reply, ~Getting(r),
           NEW c, FeaturesFirst(to, from, c)
    PROVE  FeaturesFirst(to, from \o <<r>>, c)
<1> DEFINE all == from \o <<r>>
           n == Len(from)
<1>1. /\ \A i \in 1 .. n : i \in 1 .. Len(all) /\ all[i] = from[i]
      /\ all[n + 1] = r
      /\ \A i \in 1 .. Len(all) : i \in 1 .. n \/ i = n + 1
      /\ n \in Nat
  BY Added, LenProperties
<1> HIDE DEF all, n
<1>2. Has(from, "procCapsReply") => Has(all, "procCapsReply")
  BY <1>1 DEF Has, n
<1>3. FirstOf(all, "procCapsReply", c)
  <2> SUFFICES ASSUME NEW i \in 1 .. Len(all), Getting(all[i]), all[i].by = c
               PROVE  \E j \in 1 .. i - 1 : all[j].type = "procCapsReply"
    BY DEF FirstOf
  <2>1. i \in 1 .. n /\ all[i] = from[i]
    BY <1>1
  <2>2. PICK j \in 1 .. i - 1 : from[j].type = "procCapsReply"
    BY <2>1 DEF FeaturesFirst, FirstOf, n
  <2>3. j \in 1 .. n
    BY <1>1, <2>1, <2>2
  <2> QED
    BY <1>1, <2>2, <2>3
<1> QED
  BY <1>2, <1>3 DEF FeaturesFirst, all

\* No reply comes first; what else comes first may go.
LEMMA FeaturesTaken ==
    ASSUME NEW to \in Seq(Inquiry), NEW from \in Seq(Reply), from # <<>>,
           NEW c, FeaturesFirst(to, from, c), from[1].type # "procCapsReply"
    PROVE  FeaturesFirst(to, Tail(from), c) /\ ~(Getting(from[1]) /\ from[1].by = c)
<1> DEFINE t == Tail(from)
<1>1. /\ 1 \in 1 .. Len(from)
      /\ \A i \in 1 .. Len(t) : i + 1 \in 1 .. Len(from) /\ t[i] = from[i + 1] /\ i + 1 # 1
      /\ \A i \in 1 .. Len(from) : i = 1 \/ (i - 1 \in 1 .. Len(t) /\ t[i - 1] = from[i])
  BY Shifted
<1> HIDE DEF t
<1>2. ASSUME Has(from, "procCapsReply") PROVE Has(t, "procCapsReply")
  <2>1. PICK i \in 1 .. Len(from) : from[i].type = "procCapsReply"
    BY <1>2 DEF Has
  <2>2. i - 1 \in 1 .. Len(t) /\ t[i - 1] = from[i]
    BY <1>1, <2>1
  <2> QED
    BY <2>1, <2>2 DEF Has
<1>3. ASSUME NEW i \in 1 .. Len(t), Getting(t[i]), t[i].by = c
      PROVE  \E j \in 1 .. i - 1 : t[j].type = "procCapsReply"
  <2>1. i + 1 \in 1 .. Len(from) /\ t[i] = from[i + 1]
    BY <1>1
  <2>2. PICK j \in 1 .. (i + 1) - 1 : from[j].type = "procCapsReply"
    BY <1>3, <2>1 DEF FeaturesFirst, FirstOf
  <2>3. j \in 1 .. Len(from) /\ j # 1
    BY <2>1, <2>2
  <2>4. t[j - 1] = from[j] /\ j - 1 \in 1 .. i - 1
    BY <1>1, <2>2, <2>3
  <2> QED
    BY <2>2, <2>4
<1>4. ~(Getting(from[1]) /\ from[1].by = c)
  BY <1>1 DEF FeaturesFirst, FirstOf
<1>5. FirstOf(t, "procCapsReply", c)
  BY <1>3 DEF FirstOf
<1> QED
  BY <1>2, <1>4, <1>5 DEF FeaturesFirst, t

\* A new connection: nothing on the line is of it.
LEMMA LineNew ==
    ASSUME NEW to \in Seq(Inquiry), NEW from \in Seq(Reply), NEW n \in Nat,
           ByKnown(to, n), ByKnown(from, n), NEW send \in Seq(Inquiry), ByKnown(send, n),
           NEW k \in 1 .. Len(send), send[k].type = "procCaps"
    PROVE  Matched(to \o send, from, n + 1, <<>>) /\ FeaturesFirst(to \o send, from, n + 1)
<1> DEFINE all == to \o send
<1>1. Len(to) + k \in 1 .. Len(all) /\ all[Len(to) + k] = send[k]
  BY ConcatIs
<1>2. ByKnown(all, n) /\ all \in Seq(Inquiry)
  BY IdsAreNat, ByKnownChanges, ConcatIs
<1> HIDE DEF all
<1>3. \A i \in 1 .. Len(all) : all[i].by # n + 1
  <2>1. \A i \in 1 .. Len(all) : all[i].by \in Nat /\ all[i].by <= n
    BY <1>2, IdsAreNat, ElementOfSeq DEF ByKnown
  <2> QED
    BY <2>1
<1>4. \A i \in 1 .. Len(from) : from[i].by # n + 1
  <2>1. \A i \in 1 .. Len(from) : from[i].by \in Nat /\ from[i].by <= n
    BY IdsAreNat, ElementOfSeq DEF ByKnown
  <2> QED
    BY <2>1
<1>5. DOMAIN <<>> = {}
  BY EmptyMap
<1>6. Matched(all, from, n + 1, <<>>)
  <2> DEFINE e == <<>>
  <2>1. DOMAIN e = {}
    BY <1>5
  <2> HIDE DEF e
  <2>2. Same(all, n + 1, e) /\ Same(from, n + 1, e)
    BY <1>3, <1>4, <2>1 DEF Same
  <2>3. Matched(all, from, n + 1, e)
    BY <2>1, <2>2 DEF Matched
  <2> QED
    BY <2>3 DEF e
<1>7. FirstOf(all, "procCaps", n + 1) /\ FirstOf(from, "procCapsReply", n + 1)
  BY <1>3, <1>4 DEF FirstOf
<1>8. Has(all, "procCaps")
  BY <1>1 DEF Has
<1> QED
  BY <1>6, <1>7, <1>8 DEF FeaturesFirst, all

-----------------------------------------------------------------------------
(* Replies match as long as the request ids have not come round.           *)

\* The step hands out no id again.
NotRound == counter <= counter'

LEMMA CounterIsNat ==
    ASSUME Structure PROVE counter \in Nat
  BY Constants DEF Structure, Shape

LEMMA NumbersLater ==
    ASSUME NEW to \in Seq(Inquiry), NEW from \in Seq(Reply),
           NEW count \in Nat, NEW next \in Nat, count <= next, Numbers(to, from, count)
    PROVE  Numbers(to, from, next)
<1>1. /\ \A i \in 1 .. Len(to) : to[i].id \in Nat
      /\ \A i \in 1 .. Len(from) : from[i].id \in Nat
  BY ElementOfSeq, IdsAreNat
<1>2. Fresh(to, count) /\ Fresh(from, count)
  BY DEF Numbers
<1>3. Fresh(to, next) /\ Fresh(from, next)
  BY <1>1, <1>2 DEF Fresh
<1> QED
  BY <1>3 DEF Numbers

LEMMA TidyKept ==
    ASSUME NEW conn \in Connection, NEW count \in Nat, NEW next \in Nat, count <= next,
           NEW made, NEW more, Tidy(conn, count, made),
           \A id \in DOMAIN conn.waiting : conn.waiting[id] \in 1 .. Len(made),
           \A n \in 1 .. Len(made) : more[n].prop = made[n].prop
    PROVE  Tidy(conn, next, more)
<1>1. DOMAIN conn.open \subseteq Nat
  <2>1. conn.open \in Partial(Resources)
    BY DEF Connection
  <2> QED
    BY <2>1, PartialHas, Constants
<1>2. \A id \in DOMAIN conn.open : id <= next /\ (id = 0 => conn.open[id] = ResourceList)
  BY <1>1 DEF Tidy
<1> QED
  BY <1>2 DEF Tidy

\* Connections, counter and calls stay; lines change, connections may go.
LEMMA QuietStep ==
    ASSUME Structure, Inductive, UNCHANGED <<conns, counter, calls>>,
           \A q \in Peers : current'[q] \in {0, current[q]},
           \A q \in Peers :
             /\ LineOK(toPeer'[q], fromPeer'[q], counter, current'[q], conns[current'[q]].open)
             /\ q \in Reporting =>
                  FeaturesOK(toPeer'[q], fromPeer'[q], current'[q], conns[current'[q]].reporting)
    PROVE  Inductive'
<1>1. Lines' /\ FeaturesKnown'
  BY SessionAssumption DEF Lines, FeaturesKnown
<1>2. (AllTidy /\ OwnValue /\ OwnCallback /\ ReportRequested)'
  BY DEF Inductive, AllTidy, OwnValue, OwnCallback, ReportRequested
<1> QED
  BY <1>1, <1>2 DEF Inductive

\* A connection to p changes, and the lines of p.
Changed(p, c, new) ==
    /\ conns[c].peer = p /\ new.peer = p
    /\ conns' = [conns EXCEPT ![c] = new] /\ current' = current
    /\ counter <= counter' /\ counter' \in Nat
    /\ \A q \in Peers : q # p => toPeer'[q] = toPeer[q] /\ fromPeer'[q] = fromPeer[q]
    /\ Numbers(toPeer'[p], fromPeer'[p], counter')
    /\ current[p] = c => Matched(toPeer'[p], fromPeer'[p], c, new.open)
    /\ current[p] \notin {0, c} =>
         Matched(toPeer'[p], fromPeer'[p], current[p], conns[current[p]].open)
    /\ p \in Reporting /\ current[p] = c =>
         FeaturesOK(toPeer'[p], fromPeer'[p], c, new.reporting)
    /\ p \in Reporting /\ current[p] \notin {0, c} =>
         FeaturesOK(toPeer'[p], fromPeer'[p], current[p], conns[current[p]].reporting)
    /\ Tidy(new, counter', calls')
    /\ \A n \in 1 .. Len(calls) : calls'[n].prop = calls[n].prop
    /\ \A x \in Resources : new.values[x] \in {Absent, Empty, x}
    /\ new.allCtrl /\ p \in Reporting => new.reported
    /\ OwnCallback'

LEMMA ChangedStep ==
    ASSUME Structure, Inductive, NEW p \in Peers, NEW c \in 1 .. Len(conns),
           NEW new \in Connection, Changed(p, c, new)
    PROVE  Inductive'
<1> USE DEF Changed
<1>1. /\ conns \in Seq(Connection) /\ Len(conns') = Len(conns) /\ conns'[c] = new
      /\ \A d \in 1 .. Len(conns) : d # c => conns'[d] = conns[d]
  BY Replaced DEF Structure, Shape
<1>2. counter \in Nat
  BY CounterIsNat
<1>3. ASSUME NEW q \in Peers, q # p, current[q] # 0
      PROVE  conns'[current[q]] = conns[current[q]]
  <2>1. current[q] \in 1 .. Len(conns) /\ conns[current[q]].peer = q
    BY <1>3, CurrentIs
  <2> QED
    BY <1>1, <1>3, <2>1
<1>4. ASSUME NEW q \in Peers
      PROVE  LineOK(toPeer'[q], fromPeer'[q], counter', current'[q], conns'[current'[q]].open)
  <2>1. toPeer[q] \in Seq(Inquiry) /\ fromPeer[q] \in Seq(Reply)
    BY DEF Structure, Shape
  <2>2. LineOK(toPeer[q], fromPeer[q], counter, current[q], conns[current[q]].open)
    BY DEF Inductive, Lines
  <2>3. CASE q # p
    <3>1. Numbers(toPeer[q], fromPeer[q], counter')
      BY <1>2, <2>1, <2>2, NumbersLater DEF LineOK
    <3> QED
      BY <1>3, <2>2, <2>3, <3>1 DEF LineOK
  <2>4. CASE q = p /\ current[p] = c
    BY <1>1, <2>4 DEF LineOK
  <2>5. CASE q = p /\ current[p] # c
    <3>1. current[p] # 0 => conns'[current[p]] = conns[current[p]]
      BY <1>1, <2>5, CurrentIs
    <3> QED
      BY <2>5, <3>1 DEF LineOK
  <2> QED
    BY <2>3, <2>4, <2>5
<1>5. ASSUME NEW q \in Reporting
      PROVE  FeaturesOK(toPeer'[q], fromPeer'[q], current'[q], conns'[current'[q]].reporting)
  <2>1. q \in Peers
    BY SessionAssumption
  <2>2. FeaturesOK(toPeer[q], fromPeer[q], current[q], conns[current[q]].reporting)
    BY DEF Inductive, FeaturesKnown
  <2>3. CASE q # p
    BY <1>3, <2>1, <2>2, <2>3 DEF FeaturesOK
  <2>4. CASE q = p /\ current[p] = c
    BY <1>1, <2>4 DEF FeaturesOK
  <2>5. CASE q = p /\ current[p] # c
    <3>1. current[p] # 0 => conns'[current[p]] = conns[current[p]]
      BY <1>1, <2>5, CurrentIs
    <3> QED
      BY <2>5, <3>1 DEF FeaturesOK
  <2> QED
    BY <2>3, <2>4, <2>5
<1>6. ASSUME NEW d \in 1 .. Len(conns) PROVE Tidy(conns'[d], counter', calls')
  <2>1. CASE d = c
    BY <1>1, <2>1
  <2>2. CASE d # c
    <3>1. /\ conns[d] \in Connection /\ Tidy(conns[d], counter, calls)
          /\ \A id \in DOMAIN conns[d].waiting : conns[d].waiting[id] \in 1 .. Len(calls)
      BY <1>1, ElementOfSeq DEF Inductive, AllTidy, Structure, CallbacksHeld
    <3>2. Tidy(conns[d], counter', calls')
      BY <1>2, <3>1, TidyKept
    <3> QED
      BY <1>1, <2>2, <3>2
  <2> QED
    BY <2>1, <2>2
<1>7. OwnValue'
  BY <1>1 DEF Inductive, OwnValue
<1>8. ReportRequested'
  BY <1>1 DEF Inductive, ReportRequested
<1> QED
  BY <1>1, <1>4, <1>5, <1>6, <1>7, <1>8 DEF Inductive, Lines, FeaturesKnown, AllTidy

LEMMA InitInductive == Init => Inductive
<1> SUFFICES ASSUME Init PROVE Inductive
  OBVIOUS
<1>1. /\ conns = <<>> /\ calls = <<>> /\ Len(conns) = 0 /\ Len(calls) = 0
      /\ \A p \in Peers : current[p] = 0 /\ toPeer[p] = <<>> /\ fromPeer[p] = <<>>
  BY DEF Init
<1>2. Lines
  BY <1>1 DEF Lines, LineOK, Numbers, Fresh, Once, Apart
<1>3. FeaturesKnown
  BY <1>1, SessionAssumption DEF FeaturesKnown, FeaturesOK
<1>4. AllTidy /\ OwnValue /\ OwnCallback /\ ReportRequested
  BY <1>1 DEF AllTidy, OwnValue, OwnCallback, ReportRequested
<1> QED
  BY <1>2, <1>3, <1>4 DEF Inductive

\* What holds of the lines of one peer.
LEMMA LineIs ==
    ASSUME Structure, Inductive, NEW p \in Peers
    PROVE  /\ toPeer[p] \in Seq(Inquiry) /\ fromPeer[p] \in Seq(Reply)
           /\ Numbers(toPeer[p], fromPeer[p], counter) /\ counter \in Nat
           /\ current[p] # 0 =>
                /\ current[p] \in 1 .. Len(conns) /\ conns[current[p]] \in Connection
                /\ conns[current[p]].peer = p
                /\ Matched(toPeer[p], fromPeer[p], current[p], conns[current[p]].open)
                /\ Tidy(conns[current[p]], counter, calls)
           /\ p \in Reporting =>
                FeaturesOK(toPeer[p], fromPeer[p], current[p], conns[current[p]].reporting)
<1>1. LineOK(toPeer[p], fromPeer[p], counter, current[p], conns[current[p]].open)
  BY DEF Inductive, Lines
<1>2. /\ current[p] # 0 =>
            /\ current[p] \in 1 .. Len(conns) /\ conns[current[p]] \in Connection
            /\ conns[current[p]].peer = p /\ Tidy(conns[current[p]], counter, calls)
  BY CurrentIs DEF Inductive, AllTidy
<1> QED
  BY <1>1, <1>2, CounterIsNat DEF Structure, Shape, Inductive, FeaturesKnown, LineOK

LEMMA PlainSent ==
    ASSUME NEW to \in Seq(Inquiry), NEW from \in Seq(Reply), NEW send \in Seq(Inquiry),
           NEW count \in Nat, \A k \in 1 .. Len(send) : ~Getting(send[k]),
           Numbers(to, from, count)
    PROVE  /\ Numbers(to \o send, from, count)
           /\ \A c, open : Matched(to, from, c, open)
                           /\ (\A id \in DOMAIN open : id = 0 => open[id] = ResourceList)
                           => Matched(to \o send, from, c, open)
<1>1. New(send, count, count)
  BY DEF New, Once
<1>2. count <= count
  OBVIOUS
<1>3. Numbers(to \o send, from, count)
  BY <1>1, <1>2, NumbersSend
<1>4. ASSUME NEW c, NEW open, Matched(to, from, c, open),
             \A id \in DOMAIN open : id = 0 => open[id] = ResourceList
      PROVE  Matched(to \o send, from, c, open)
  <2>1. Opens(send, count, c, open, open)
    BY <1>4 DEF Opens, Same
  <2> QED
    BY <1>4, <2>1, MatchedSend
<1> QED
  BY <1>3, <1>4

LEMMA DiscoveryStep ==
    ASSUME Structure, Inductive, SendDiscovery PROVE Inductive'
<1> DEFINE m == Plain("discovery")
<1>1. m \in Inquiry /\ ~Getting(m)
  BY PlainIs DEF Inquiries, Types
<1>2. /\ UNCHANGED <<conns, current, fromPeer, counter, calls>>
      /\ toPeer' = [p \in Peers |-> Append(toPeer[p], m)]
  BY DEF SendDiscovery
<1> HIDE DEF m
<1>3. <<m>> \in Seq(Inquiry) /\ \A k \in 1 .. Len(<<m>>) : ~Getting(<<m>>[k])
  BY <1>1, OneIs
<1>4. ASSUME NEW q \in Peers
      PROVE  /\ LineOK(toPeer'[q], fromPeer'[q], counter, current'[q], conns[current'[q]].open)
             /\ q \in Reporting =>
                  FeaturesOK(toPeer'[q], fromPeer'[q], current'[q], conns[current'[q]].reporting)
  <2> DEFINE to == toPeer[q]
             from == fromPeer[q]
             c == current[q]
             conn == conns[c]
  <2>1. /\ to \in Seq(Inquiry) /\ from \in Seq(Reply) /\ counter \in Nat
        /\ Numbers(to, from, counter)
        /\ c # 0 => Matched(to, from, c, conn.open) /\ Tidy(conn, counter, calls)
        /\ q \in Reporting => FeaturesOK(to, from, c, conn.reporting)
    BY LineIs
  <2>2. toPeer'[q] = to \o <<m>> /\ fromPeer'[q] = from /\ current'[q] = c
    BY <1>1, <1>2, <2>1, AppendIs
  <2> HIDE DEF to, from, conn
  <2>3. Numbers(to \o <<m>>, from, counter)
    BY <1>3, <2>1, PlainSent
  <2>4. c # 0 => Matched(to \o <<m>>, from, c, conn.open)
    BY <1>3, <2>1, PlainSent DEF Tidy
  <2>5. q \in Reporting => FeaturesOK(to \o <<m>>, from, c, conn.reporting)
    BY <1>3, <2>1, FeaturesSend DEF FeaturesOK
  <2> QED
    BY <2>2, <2>3, <2>4, <2>5 DEF LineOK, conn
<1> QED
  BY <1>2, <1>4, QuietStep

LEMMA AnswersStep ==
    ASSUME Structure, Inductive, NEW p \in Peers, PeerAnswers(p) PROVE Inductive'
<1> DEFINE to == toPeer[p]
           from == fromPeer[p]
           c == current[p]
           conn == conns[c]
           m == Head(to)
<1>1. /\ to # <<>> /\ toPeer' = [toPeer EXCEPT ![p] = Tail(to)]
      /\ fromPeer' = [fromPeer EXCEPT ![p] = from \o Answer(m)]
      /\ UNCHANGED <<conns, current, counter, calls>>
  BY DEF PeerAnswers
<1>2. /\ to \in Seq(Inquiry) /\ from \in Seq(Reply) /\ counter \in Nat
      /\ Numbers(to, from, counter)
      /\ c # 0 => Matched(to, from, c, conn.open)
      /\ p \in Reporting => FeaturesOK(to, from, c, conn.reporting)
  BY LineIs
<1>3. toPeer \in [Peers -> Seq(Inquiry)] /\ fromPeer \in [Peers -> Seq(Reply)]
  BY DEF Structure, Shape
<1> HIDE DEF to, from, conn, c, m
<1>4. m \in Inquiry /\ m = to[1]
  BY <1>1, <1>2, TailIs DEF m
<1>5. /\ Numbers(Tail(to), from \o Answer(m), counter)
      /\ c # 0 => Matched(Tail(to), from \o Answer(m), c, conn.open)
      /\ p \in Reporting => FeaturesOK(Tail(to), from \o Answer(m), c, conn.reporting)
  <2>1. CASE Answer(m) = <<>> /\ ~Getting(m) /\ m.type # "procCaps"
    <3>1. from \o Answer(m) = from
      BY <1>2, <2>1, ConcatEmptySeq
    <3>2. /\ Numbers(Tail(to), from, counter)
          /\ c # 0 => Matched(Tail(to), from, c, conn.open)
      BY <1>1, <1>2, <1>4, <2>1, LineSkipped
    <3>3. p \in Reporting => FeaturesOK(Tail(to), from, c, conn.reporting)
      BY <1>1, <1>2, <1>4, <2>1, FeaturesSkipped DEF FeaturesOK
    <3> QED
      BY <3>1, <3>2, <3>3
  <2>2. ASSUME NEW r \in Reply, Answer(m) = <<r>>,
               m.type = "procCaps" => r.type = "procCapsReply",
               Getting(m) <=> Getting(r),
               Getting(m) => r.by = m.by /\ r.id = m.id /\ r.prop = m.prop
        PROVE  /\ Numbers(Tail(to), from \o Answer(m), counter)
               /\ c # 0 => Matched(Tail(to), from \o Answer(m), c, conn.open)
               /\ p \in Reporting => FeaturesOK(Tail(to), from \o Answer(m), c, conn.reporting)
    <3>1. /\ Numbers(Tail(to), from \o <<r>>, counter)
          /\ c # 0 => Matched(Tail(to), from \o <<r>>, c, conn.open)
      BY <1>1, <1>2, <1>4, <2>2, LineAnswered
    <3>2. p \in Reporting => FeaturesOK(Tail(to), from \o <<r>>, c, conn.reporting)
      BY <1>1, <1>2, <1>4, <2>2, FeaturesAnswered DEF FeaturesOK
    <3> QED
      BY <2>2, <3>1, <3>2
  <2> QED
    BY <1>4, <2>1, <2>2, AnswerIs
<1>6. ASSUME NEW q \in Peers
      PROVE  /\ LineOK(toPeer'[q], fromPeer'[q], counter, current'[q], conns[current'[q]].open)
             /\ q \in Reporting =>
                  FeaturesOK(toPeer'[q], fromPeer'[q], current'[q], conns[current'[q]].reporting)
  <2>1. CASE q = p
    <3>1. toPeer'[q] = Tail(to) /\ fromPeer'[q] = from \o Answer(m) /\ current'[q] = c
      BY <1>1, <1>3, <2>1 DEF c
    <3> QED
      BY <1>5, <2>1, <3>1 DEF LineOK, conn
  <2>2. CASE q # p
    <3>1. toPeer'[q] = toPeer[q] /\ fromPeer'[q] = fromPeer[q] /\ current'[q] = current[q]
      BY <1>1, <1>3, <2>2
    <3> QED
      BY <3>1, LineIs DEF LineOK
  <2> QED
    BY <2>1, <2>2
<1>7. \A q \in Peers : current'[q] \in {0, current[q]}
  BY <1>1
<1> QED
  BY <1>1, <1>6, <1>7, QuietStep

LEMMA GoodbyeStep ==
    ASSUME Structure, Inductive, NEW p \in Peers, Goodbye(p) PROVE Inductive'
<1> DEFINE from == fromPeer[p]
           c == current[p]
           conn == conns[c]
           r == Plain("invalidate")
<1>1. r \in Reply /\ ~Getting(r)
  BY PlainIs DEF Inquiries, Types
<1>2. /\ fromPeer' = [fromPeer EXCEPT ![p] = Append(from, r)]
      /\ UNCHANGED <<conns, current, toPeer, counter, calls>>
  BY DEF Goodbye
<1>3. /\ toPeer[p] \in Seq(Inquiry) /\ from \in Seq(Reply)
      /\ Numbers(toPeer[p], from, counter)
      /\ c # 0 => Matched(toPeer[p], from, c, conn.open)
      /\ p \in Reporting => FeaturesOK(toPeer[p], from, c, conn.reporting)
  BY LineIs
<1>4. fromPeer \in [Peers -> Seq(Reply)]
  BY DEF Structure, Shape
<1> HIDE DEF r, from, conn, c
<1>5. /\ Numbers(toPeer[p], from \o <<r>>, counter)
      /\ c # 0 => Matched(toPeer[p], from \o <<r>>, c, conn.open)
  BY <1>1, <1>3, LineAdded
<1>6. p \in Reporting => FeaturesOK(toPeer[p], from \o <<r>>, c, conn.reporting)
  BY <1>1, <1>3, FeaturesAdded DEF FeaturesOK
<1>7. Append(from, r) = from \o <<r>>
  BY <1>1, <1>3, AppendIs
<1>8. ASSUME NEW q \in Peers
      PROVE  /\ LineOK(toPeer'[q], fromPeer'[q], counter, current'[q], conns[current'[q]].open)
             /\ q \in Reporting =>
                  FeaturesOK(toPeer'[q], fromPeer'[q], current'[q], conns[current'[q]].reporting)
  <2>1. CASE q = p
    <3>1. toPeer'[q] = toPeer[p] /\ fromPeer'[q] = from \o <<r>> /\ current'[q] = c
      BY <1>2, <1>4, <1>7, <2>1 DEF c
    <3> QED
      BY <1>5, <1>6, <2>1, <3>1 DEF LineOK, conn
  <2>2. CASE q # p
    <3>1. toPeer'[q] = toPeer[q] /\ fromPeer'[q] = fromPeer[q] /\ current'[q] = current[q]
      BY <1>2, <1>4, <2>2
    <3> QED
      BY <3>1, LineIs DEF LineOK
  <2> QED
    BY <2>1, <2>2
<1>9. \A q \in Peers : current'[q] \in {0, current[q]}
  BY <1>2
<1> QED
  BY <1>2, <1>8, <1>9, QuietStep

\* A message is dropped, or the connection is.
LEMMA DroppedStep ==
    ASSUME Structure, Inductive, NEW p \in Peers, fromPeer[p] # <<>>,
           fromPeer' = [fromPeer EXCEPT ![p] = Tail(@)],
           UNCHANGED <<conns, toPeer, counter, calls>>,
           \A q \in Peers : q # p => current'[q] = current[q],
           current'[p] \in {0, current[p]},
           current'[p] # 0 =>
             /\ fromPeer[p][1].type = "getReply"
             /\ fromPeer[p][1].id \notin DOMAIN conns[current[p]].open
    PROVE  Inductive'
<1> DEFINE to == toPeer[p]
           from == fromPeer[p]
           c == current[p]
           conn == conns[c]
<1>1. /\ to \in Seq(Inquiry) /\ from \in Seq(Reply)
      /\ Numbers(to, from, counter)
      /\ c # 0 => Matched(to, from, c, conn.open)
      /\ p \in Reporting => FeaturesOK(to, from, c, conn.reporting)
  BY LineIs
<1>2. fromPeer \in [Peers -> Seq(Reply)]
  BY DEF Structure, Shape
<1>3. Numbers(to, Tail(from), counter)
  BY <1>1, NumbersTaken
<1>4. ASSUME current'[p] # 0
      PROVE  /\ current'[p] = c /\ Matched(to, Tail(from), c, conn.open)
             /\ p \in Reporting => FeaturesOK(to, Tail(from), c, conn.reporting)
  <2>1. c # 0 /\ current'[p] = c
    BY <1>4
  <2>2. from[1].id \notin DOMAIN conn.open /\ from[1].type # "procCapsReply"
    BY <1>4
  <2> HIDE DEF to, from, c, conn
  <2>3. Matched(to, Tail(from), c, conn.open)
    BY <1>1, <2>1, <2>2, MatchedIgnored DEF from
  <2>4. p \in Reporting => FeaturesOK(to, Tail(from), c, conn.reporting)
    BY <1>1, <2>1, <2>2, FeaturesTaken DEF FeaturesOK, from
  <2> QED
    BY <2>1, <2>3, <2>4
<1>5. ASSUME NEW q \in Peers
      PROVE  /\ LineOK(toPeer'[q], fromPeer'[q], counter, current'[q], conns[current'[q]].open)
             /\ q \in Reporting =>
                  FeaturesOK(toPeer'[q], fromPeer'[q], current'[q], conns[current'[q]].reporting)
  <2>1. CASE q = p
    <3>1. toPeer'[q] = to /\ fromPeer'[q] = Tail(from)
      BY <1>2, <2>1
    <3> QED
      BY <1>3, <1>4, <2>1, <3>1 DEF LineOK, FeaturesOK
  <2>2. CASE q # p
    <3>1. toPeer'[q] = toPeer[q] /\ fromPeer'[q] = fromPeer[q] /\ current'[q] = current[q]
      BY <1>2, <2>2
    <3> QED
      BY <3>1, LineIs DEF LineOK
  <2> QED
    BY <2>1, <2>2
<1> QED
  BY <1>5, QuietStep

LEMMA NewEndpointStep ==
    ASSUME Structure, Inductive, NEW p \in Peers, NewEndpoint(p), fromPeer[p] # <<>>,
           fromPeer' = [fromPeer EXCEPT ![p] = Tail(@)]
    PROVE  Inductive'
<1> DEFINE new == NewConnection(p)
           n == Len(conns)
           to == toPeer[p]
           from == fromPeer[p]
<1>1. /\ conns' = Append(conns, new) /\ current' = [current EXCEPT ![p] = n + 1]
      /\ toPeer' = [toPeer EXCEPT ![p] = to \o Greeting]
      /\ UNCHANGED <<counter, calls>>
  BY DEF NewEndpoint
<1>2. /\ new \in Connection /\ new.open = <<>> /\ new.waiting = <<>>
      /\ new.values = [x \in Resources |-> Absent] /\ ~new.allCtrl
      /\ conns \in Seq(Connection) /\ n \in Nat /\ current \in [Peers -> Nat]
      /\ toPeer \in [Peers -> Seq(Inquiry)] /\ fromPeer \in [Peers -> Seq(Reply)]
  BY NewConnectionIs, LenProperties DEF Structure, Shape
<1> HIDE DEF new
<1>3. /\ Len(conns') = n + 1 /\ conns'[n + 1] = new
      /\ \A c \in 1 .. n : conns'[c] = conns[c]
      /\ \A c \in 1 .. n + 1 : c \in 1 .. n \/ c = n + 1
  BY <1>1, <1>2, AppendProperties
<1>4. /\ toPeer'[p] = to \o Greeting /\ fromPeer'[p] = Tail(from) /\ current'[p] = n + 1
      /\ \A q \in Peers : q # p =>
           toPeer'[q] = toPeer[q] /\ fromPeer'[q] = fromPeer[q] /\ current'[q] = current[q]
  BY <1>1, <1>2
<1>5. /\ to \in Seq(Inquiry) /\ from \in Seq(Reply) /\ Numbers(to, from, counter)
      /\ counter \in Nat /\ ByKnown(to, n) /\ ByKnown(from, n)
  BY LineIs DEF Structure, Numbered
<1> HIDE DEF to, from, n
<1>6. /\ Tail(from) \in Seq(Reply) /\ ByKnown(Tail(from), n)
      /\ Numbers(to, Tail(from), counter)
  BY <1>2, <1>5, TailIs, ByKnownChanges, NumbersTaken, IdsAreNat DEF from
<1>7. /\ Greeting \in Seq(Inquiry) /\ ByKnown(Greeting, n) /\ 2 \in 1 .. Len(Greeting)
      /\ Greeting[2].type = "procCaps"
      /\ \A k \in 1 .. Len(Greeting) : ~Getting(Greeting[k])
  BY <1>2, GreetingIs DEF ByKnown
<1>8. Numbers(to \o Greeting, Tail(from), counter)
  BY <1>5, <1>6, <1>7, PlainSent
<1>9. Matched(to \o Greeting, Tail(from), n + 1, <<>>)
      /\ FeaturesFirst(to \o Greeting, Tail(from), n + 1)
  BY <1>2, <1>5, <1>6, <1>7, LineNew
<1>10. ASSUME NEW q \in Peers
       PROVE  /\ LineOK(toPeer'[q], fromPeer'[q], counter, current'[q], conns'[current'[q]].open)
              /\ q \in Reporting =>
                   FeaturesOK(toPeer'[q], fromPeer'[q], current'[q], conns'[current'[q]].reporting)
  <2>1. CASE q = p
    BY <1>2, <1>3, <1>4, <1>8, <1>9, <2>1 DEF LineOK, FeaturesOK
  <2>2. CASE q # p
    <3>1. current[q] # 0 => conns'[current[q]] = conns[current[q]]
      BY <1>3, CurrentIs DEF n
    <3> QED
      BY <1>4, <2>2, <3>1, LineIs DEF LineOK, FeaturesOK
  <2> QED
    BY <2>1, <2>2
<1>11. Tidy(new, counter, calls)
  BY <1>2, EmptyMap DEF Tidy
<1>12. AllTidy'
  BY <1>1, <1>3, <1>11 DEF Inductive, AllTidy, n
<1>13. OwnValue'
  <2> SUFFICES ASSUME NEW c \in 1 .. n + 1, NEW x \in Resources
               PROVE  conns'[c].values[x] \in {Absent, Empty, x}
    BY <1>3 DEF OwnValue
  <2>1. CASE c \in 1 .. n
    BY <1>3, <2>1 DEF Inductive, OwnValue, n
  <2>2. CASE c = n + 1
    BY <1>2, <1>3, <2>2
  <2> QED
    BY <1>3, <2>1, <2>2
<1>16. ReportRequested'
  <2> SUFFICES ASSUME NEW c \in 1 .. n + 1
               PROVE  conns'[c].allCtrl /\ conns'[c].peer \in Reporting
                      => conns'[c].reported
    BY <1>3 DEF ReportRequested
  <2>1. CASE c \in 1 .. n
    BY <1>3, <2>1 DEF Inductive, ReportRequested, n
  <2>2. CASE c = n + 1
    BY <1>2, <1>3, <2>2
  <2> QED
    BY <1>3, <2>1, <2>2
<1>14. OwnCallback'
  BY <1>1 DEF Inductive, OwnCallback
<1>15. Lines' /\ FeaturesKnown'
  BY <1>1, <1>10, SessionAssumption DEF Lines, FeaturesKnown
<1> QED
  BY <1>12, <1>13, <1>14, <1>15, <1>16 DEF Inductive

\* One request is sent: for the list, or with a new id.
LEMMA OneGet ==
    ASSUME NEW to \in Seq(Inquiry), NEW from \in Seq(Reply), NEW count \in Nat,
           NEW next \in Nat, count <= next, Numbers(to, from, count),
           NEW id \in RequestId, NEW x \in Resources, NEW c \in Nat,
           (id = 0 /\ x = ResourceList) \/ (count < id /\ id <= next)
    PROVE  LET send == <<Get(id, x, c)>> IN
           /\ send \in Seq(Inquiry)
           /\ Numbers(to \o send, from, next)
           /\ \A d \in Nat, open \in Partial(Resources) :
                /\ Matched(to, from, d, open)
                /\ \A i \in DOMAIN open : i <= count /\ (i = 0 => open[i] = ResourceList)
                => Matched(to \o send, from, d, IF d = c THEN Put(open, id, x) ELSE open)
<1> DEFINE g == Get(id, x, c)
           send == <<g>>
<1>1. g \in Inquiry /\ g.by = c /\ g.id = id /\ g.prop = x /\ Getting(g)
  BY GetIs
<1> HIDE DEF g
<1>2. send \in Seq(Inquiry) /\ Len(send) = 1 /\ send[1] = g
  BY <1>1, OneIs
<1>3. \A k \in 1 .. Len(send) : k = 1 /\ send[k] = g
  BY <1>2
<1> HIDE DEF send
<1>4. New(send, count, next)
  BY <1>1, <1>3 DEF New, Once
<1>5. Numbers(to \o send, from, next)
  BY <1>2, <1>4, NumbersSend
<1>6. ASSUME NEW d \in Nat, NEW open \in Partial(Resources), Matched(to, from, d, open),
             \A i \in DOMAIN open : i <= count /\ (i = 0 => open[i] = ResourceList)
      PROVE  Matched(to \o send, from, d, IF d = c THEN Put(open, id, x) ELSE open)
  <2>1. DOMAIN open \subseteq Nat /\ id \in Nat
    BY PartialHas, Constants
  <2>2. id \in DOMAIN open => id = 0 /\ x = ResourceList
    BY <1>6, <2>1
  <2>3. CASE d = c
    <3> DEFINE more == Put(open, id, x)
    <3>1. /\ DOMAIN more = DOMAIN open \cup {id}
          /\ \A i \in DOMAIN more : more[i] = IF i = id THEN x ELSE open[i]
      BY DEF Put
    <3> HIDE DEF more
    <3>2. Same(send, d, more)
      BY <1>1, <1>3, <3>1 DEF Same
    <3>3. \A i \in DOMAIN more : i = 0 => more[i] = ResourceList
      BY <1>6, <3>1
    <3>4. \A i \in DOMAIN open : i \in DOMAIN more /\ more[i] = open[i]
      BY <1>6, <2>2, <3>1
    <3>5. Comes(send, d, id, x)
      BY <1>1, <1>2, <2>3 DEF Comes
    <3>6. \A i \in DOMAIN more \ DOMAIN open :
            (i = 0 \/ count < i) /\ Comes(send, d, i, more[i])
      BY <3>1, <3>5
    <3>7. Opens(send, count, d, open, more)
      BY <3>2, <3>3, <3>4, <3>6 DEF Opens
    <3>8. Matched(to \o send, from, d, more)
      BY <1>2, <1>6, <3>7, MatchedSend
    <3> QED
      BY <2>3, <3>8 DEF more
  <2>4. CASE d # c
    <3>1. Same(send, d, open)
      BY <1>1, <1>3, <1>6, <2>2, <2>4 DEF Same
    <3>2. Opens(send, count, d, open, open)
      BY <1>6, <3>1 DEF Opens
    <3>3. Matched(to \o send, from, d, open)
      BY <1>2, <1>6, <3>2, MatchedSend
    <3> QED
      BY <2>4, <3>3
  <2> QED
    BY <2>3, <2>4
<1> QED
  BY <1>2, <1>5, <1>6 DEF g, send

LEMMA RequestListStep ==
    ASSUME Structure, Inductive, NEW p \in Peers, RequestList(p), fromPeer[p] # <<>>,
           fromPeer[p][1].type = "propCapsReply",
           fromPeer' = [fromPeer EXCEPT ![p] = Tail(@)]
    PROVE  Inductive'
<1> DEFINE c == current[p]
           conn == conns[c]
           to == toPeer[p]
           from == fromPeer[p]
           send == <<Get(0, ResourceList, c)>>
<1>1. PICK new \in Connection :
           /\ c # 0 /\ conns' = [conns EXCEPT ![c] = new]
           /\ new.open = Put(conn.open, 0, ResourceList)
           /\ new.waiting = conn.waiting
           /\ new.peer = conn.peer /\ new.values = conn.values
           /\ new.reporting = conn.reporting /\ new.allCtrl = conn.allCtrl
           /\ new.reported = conn.reported
  BY RequestListIs
<1>2. /\ toPeer' = [toPeer EXCEPT ![p] = Append(to, Get(0, ResourceList, c))]
      /\ UNCHANGED <<current, calls, counter>>
  BY DEF RequestList
<1>3. /\ to \in Seq(Inquiry) /\ from \in Seq(Reply) /\ counter \in Nat
      /\ Numbers(to, from, counter)
      /\ c \in 1 .. Len(conns) /\ conn \in Connection /\ conn.peer = p
      /\ Matched(to, from, c, conn.open) /\ Tidy(conn, counter, calls)
      /\ p \in Reporting => FeaturesOK(to, from, c, conn.reporting)
  BY <1>1, LineIs
<1>4. /\ toPeer \in [Peers -> Seq(Inquiry)] /\ fromPeer \in [Peers -> Seq(Reply)]
      /\ conn.open \in Partial(Resources) /\ c \in Nat /\ from[1].type = "propCapsReply"
      /\ Tail(from) \in Seq(Reply)
  BY <1>3, TailIs DEF Structure, Shape, Connection
<1>5. Append(to, Get(0, ResourceList, c)) = to \o send /\ send \in Seq(Inquiry)
  BY <1>3, <1>4, GetIs, Constants, AppendIs, OneIs
<1>6. /\ toPeer'[p] = to \o send /\ fromPeer'[p] = Tail(from)
      /\ \A q \in Peers : q # p => toPeer'[q] = toPeer[q] /\ fromPeer'[q] = fromPeer[q]
  BY <1>2, <1>4, <1>5
<1> HIDE DEF to, from, conn, c
<1>7. /\ Numbers(to, Tail(from), counter) /\ Matched(to, Tail(from), c, conn.open)
      /\ p \in Reporting => FeaturesOK(to, Tail(from), c, conn.reporting)
  <2>1. Numbers(to, Tail(from), counter)
    BY <1>3, NumbersTaken DEF from
  <2>2. Matched(to, Tail(from), c, conn.open)
    BY <1>3, <1>4, MatchedIgnored DEF from, Getting
  <2>3. p \in Reporting => FeaturesOK(to, Tail(from), c, conn.reporting)
    BY <1>3, <1>4, FeaturesTaken DEF from, FeaturesOK
  <2> QED
    BY <2>1, <2>2, <2>3
<1>8. counter <= counter /\ 0 \in RequestId /\ ResourceList \in Resources
  BY <1>3, Constants
<1>9. /\ Numbers(to \o send, Tail(from), counter)
      /\ Matched(to \o send, Tail(from), c, new.open)
  <2>1. /\ Numbers(to \o send, Tail(from), counter)
        /\ \A d \in Nat, open \in Partial(Resources) :
             /\ Matched(to, Tail(from), d, open)
             /\ \A i \in DOMAIN open :
                  i <= counter /\ (i = 0 => open[i] = ResourceList)
             => Matched(to \o send, Tail(from), d,
                        IF d = c THEN Put(open, 0, ResourceList) ELSE open)
    BY <1>3, <1>4, <1>7, <1>8, OneGet
  <2>2. \A i \in DOMAIN conn.open : i <= counter /\ (i = 0 => conn.open[i] = ResourceList)
    BY <1>3 DEF Tidy
  <2> QED
    BY <1>1, <1>4, <1>7, <2>1, <2>2
<1>10. p \in Reporting => FeaturesOK(to \o send, Tail(from), c, new.reporting)
  BY <1>1, <1>3, <1>4, <1>5, <1>7, FeaturesSend DEF FeaturesOK
<1>11. Tidy(new, counter, calls)
  <2>1. /\ DOMAIN new.open = DOMAIN conn.open \cup {0}
        /\ \A i \in DOMAIN new.open :
             new.open[i] = IF i = 0 THEN ResourceList ELSE conn.open[i]
    BY <1>1 DEF Put
  <2>2. DOMAIN conn.waiting \subseteq DOMAIN conn.open
    BY <1>3 DEF Structure, CallbacksHeld, conn
  <2> QED
    BY <1>1, <1>3, <2>1, <2>2 DEF Tidy
<1>12. \A x \in Resources : new.values[x] \in {Absent, Empty, x}
  BY <1>1, <1>3 DEF Inductive, OwnValue, conn
<1>13. new.allCtrl /\ p \in Reporting => new.reported
  BY <1>1, <1>3 DEF Inductive, ReportRequested, conn
<1>14. OwnCallback'
  BY <1>2 DEF Inductive, OwnCallback
<1> QED
  <2> HIDE DEF send
  <2>1. c \in 1 .. Len(conns) /\ Changed(p, c, new)
    BY <1>1, <1>2, <1>3, <1>6, <1>8, <1>9, <1>10, <1>11, <1>12, <1>13, <1>14
       DEF conn, c, Changed
  <2> QED
    BY <2>1, ChangedStep

LEMMA SetFeaturesStep ==
    ASSUME Structure, Inductive, NEW p \in Peers, SetFeatures(p), fromPeer[p] # <<>>,
           fromPeer[p][1].type = "procCapsReply",
           fromPeer' = [fromPeer EXCEPT ![p] = Tail(@)]
    PROVE  Inductive'
<1> DEFINE c == current[p]
           conn == conns[c]
           to == toPeer[p]
           from == fromPeer[p]
<1>1. PICK new \in Connection :
           /\ c # 0 /\ conns' = [conns EXCEPT ![c] = new]
           /\ new.open = conn.open /\ new.waiting = conn.waiting
           /\ new.peer = conn.peer /\ new.values = conn.values
           /\ new.reporting <=> p \in Reporting
           /\ new.allCtrl = conn.allCtrl /\ new.reported = conn.reported
  BY SetFeaturesIs
<1>2. UNCHANGED <<current, toPeer, calls, counter>>
  BY DEF SetFeatures
<1>3. /\ to \in Seq(Inquiry) /\ from \in Seq(Reply) /\ counter \in Nat
      /\ Numbers(to, from, counter)
      /\ c \in 1 .. Len(conns) /\ conn \in Connection /\ conn.peer = p
      /\ Matched(to, from, c, conn.open) /\ Tidy(conn, counter, calls)
  BY <1>1, LineIs
<1>4. /\ fromPeer \in [Peers -> Seq(Reply)] /\ from[1].type = "procCapsReply"
  BY DEF Structure, Shape
<1>5. /\ toPeer'[p] = to /\ fromPeer'[p] = Tail(from)
      /\ \A q \in Peers : q # p => toPeer'[q] = toPeer[q] /\ fromPeer'[q] = fromPeer[q]
  BY <1>2, <1>4
<1> HIDE DEF to, from, conn, c
<1>6. Numbers(to, Tail(from), counter)
  BY <1>3, NumbersTaken DEF from
<1>7. Matched(to, Tail(from), c, new.open)
  BY <1>1, <1>3, <1>4, MatchedIgnored DEF from, Getting
<1>8. p \in Reporting => FeaturesOK(to, Tail(from), c, new.reporting)
  BY <1>1 DEF FeaturesOK
<1>9. Tidy(new, counter, calls)
  BY <1>1, <1>3 DEF Tidy
<1>10. \A x \in Resources : new.values[x] \in {Absent, Empty, x}
  BY <1>1, <1>3 DEF Inductive, OwnValue, conn
<1>11. new.allCtrl /\ p \in Reporting => new.reported
  BY <1>1, <1>3 DEF Inductive, ReportRequested, conn
<1>12. OwnCallback' /\ counter <= counter
  BY <1>2, <1>3 DEF Inductive, OwnCallback
<1> QED
  <2>1. c \in 1 .. Len(conns) /\ Changed(p, c, new)
    BY <1>1, <1>2, <1>3, <1>5, <1>6, <1>7, <1>8, <1>9, <1>10, <1>11, <1>12
       DEF conn, c, Changed
  <2> QED
    BY <2>1, ChangedStep

LEMMA GetPropertyStep ==
    ASSUME Structure, Inductive, NEW c \in 1 .. Len(conns), NEW x \in Wanted,
           GetProperty(c, x), NotRound
    PROVE  Inductive'
<1> DEFINE conn == conns[c]
           p == conn.peer
           d == current[p]
           to == toPeer[p]
           from == fromPeer[p]
           id == NextId(1)
           send == <<Get(id, x, c)>>
           n == Len(calls)
           call == [conn |-> c, prop |-> x, answer |-> NoAnswer]
<1>1. PICK new \in Connection :
           /\ conns' = [conns EXCEPT ![c] = new]
           /\ id \in RequestId /\ n \in Nat /\ conn \in Connection
           /\ new.open = Put(conn.open, id, x)
           /\ new.waiting = Put(conn.waiting, id, n + 1)
           /\ new.peer = conn.peer /\ new.values = conn.values
           /\ new.reporting = conn.reporting /\ new.allCtrl = conn.allCtrl
           /\ new.reported = conn.reported
  BY GetPropertyIs
<1>2. /\ calls' = Append(calls, call) /\ counter' = id
      /\ toPeer' = [toPeer EXCEPT ![p] = Append(to, Get(id, x, c))]
      /\ UNCHANGED <<current, fromPeer>>
  BY DEF GetProperty
<1>3. /\ p \in Peers /\ x \in Resources /\ c \in Nat /\ conn.open \in Partial(Resources)
      /\ call \in Call /\ call.prop = x /\ call.answer = NoAnswer
  BY <1>1, Constants DEF Connection, Call, NoAnswer, Bodies
<1>4. /\ to \in Seq(Inquiry) /\ from \in Seq(Reply) /\ counter \in Nat
      /\ Numbers(to, from, counter)
      /\ d # 0 =>
           /\ d \in 1 .. Len(conns) /\ conns[d] \in Connection
           /\ Matched(to, from, d, conns[d].open) /\ Tidy(conns[d], counter, calls)
      /\ p \in Reporting => FeaturesOK(to, from, d, conns[d].reporting)
  BY <1>3, LineIs
<1>5. /\ Tidy(conn, counter, calls) /\ DOMAIN conn.waiting \subseteq DOMAIN conn.open
      /\ \A i \in DOMAIN conn.waiting : conn.waiting[i] \in 1 .. n
      /\ toPeer \in [Peers -> Seq(Inquiry)] /\ d \in Nat
      /\ calls \in Seq(Call)
  BY <1>3 DEF Inductive, AllTidy, Structure, CallbacksHeld, Shape
<1>6. id = counter + 1
  <2>1. counter \in RequestId /\ counter <= NextId(1)
    BY <1>2 DEF Structure, Shape, NotRound
  <2>2. 1 \in 0 .. 3 /\ 1 <= 1
    OBVIOUS
  <2> QED
    BY <2>1, <2>2, NextIds
<1> HIDE DEF id
<1>7. counter <= id /\ counter < id /\ id <= id /\ id \in Nat
  BY <1>4, <1>6
<1>8. Append(to, Get(id, x, c)) = to \o send /\ send \in Seq(Inquiry)
  <2>1. id \in RequestId
    BY <1>4, <1>6, <1>7, NextIds DEF Structure, Shape, id
  <2>2. Get(id, x, c) \in Inquiry
    BY <1>3, <2>1, GetIs
  <2> QED
    BY <1>4, <2>2, AppendIs, OneIs
<1>9. /\ toPeer'[p] = to \o send
      /\ \A q \in Peers : q # p => toPeer'[q] = toPeer[q]
  BY <1>2, <1>3, <1>5, <1>8
<1>10. /\ Len(calls') = n + 1 /\ calls'[n + 1] = call
       /\ \A k \in 1 .. n : calls'[k] = calls[k]
  BY <1>2, <1>3, <1>5, AppendProperties
<1> HIDE DEF to, from, conn, call, d, n
<1>11. /\ Numbers(to \o send, from, id)
       /\ d # 0 => Matched(to \o send, from, d,
                           IF d = c THEN Put(conns[d].open, id, x) ELSE conns[d].open)
  <2>1. /\ Numbers(to \o send, from, id)
        /\ \A e \in Nat, open \in Partial(Resources) :
             /\ Matched(to, from, e, open)
             /\ \A i \in DOMAIN open :
                  i <= counter /\ (i = 0 => open[i] = ResourceList)
             => Matched(to \o send, from, e, IF e = c THEN Put(open, id, x) ELSE open)
    BY <1>1, <1>3, <1>4, <1>7, OneGet
  <2>2. d # 0 => /\ conns[d].open \in Partial(Resources)
                 /\ \A i \in DOMAIN conns[d].open :
                      i <= counter /\ (i = 0 => conns[d].open[i] = ResourceList)
    BY <1>4 DEF Tidy, Connection
  <2> QED
    BY <1>4, <1>5, <2>1, <2>2
<1>12. p \in Reporting => FeaturesOK(to \o send, from, d, conns[d].reporting)
  BY <1>4, <1>5, <1>8, FeaturesSend DEF FeaturesOK
<1>13. Tidy(new, id, calls')
  <2>1. calls'[n + 1].prop = x /\ \A k \in 1 .. n : calls'[k].prop = calls[k].prop
    BY <1>3, <1>10
  <2>2. /\ DOMAIN new.open = DOMAIN conn.open \cup {id}
        /\ \A i \in DOMAIN new.open : new.open[i] = IF i = id THEN x ELSE conn.open[i]
    BY <1>1 DEF Put
  <2>3. /\ DOMAIN new.waiting = DOMAIN conn.waiting \cup {id}
        /\ \A i \in DOMAIN new.waiting :
             new.waiting[i] = IF i = id THEN n + 1 ELSE conn.waiting[i]
    BY <1>1 DEF Put
  <2>4. DOMAIN conn.open \subseteq Nat
    BY <1>3, PartialHas, Constants
  <2>5. \A i \in DOMAIN new.open : i <= id /\ (i = 0 => new.open[i] = ResourceList)
    BY <1>4, <1>5, <1>7, <2>2, <2>4 DEF Tidy
  <2>6. ASSUME NEW i \in DOMAIN new.waiting
        PROVE  i # 0 /\ calls'[new.waiting[i]].prop = new.open[i]
    <3>1. CASE i = id
      <4>1. id # 0
        BY <1>4, <1>7
      <4> QED
        BY <2>1, <2>2, <2>3, <3>1, <4>1
    <3>2. CASE i # id
      <4>1. i \in DOMAIN conn.waiting /\ i \in DOMAIN conn.open
            /\ new.waiting[i] = conn.waiting[i] /\ new.open[i] = conn.open[i]
        BY <1>5, <2>2, <2>3, <3>2
      <4>2. i # 0 /\ calls[conn.waiting[i]].prop = conn.open[i] /\ conn.waiting[i] \in 1 .. n
        BY <1>5, <4>1 DEF Tidy
      <4> QED
        BY <2>1, <4>1, <4>2
    <3> QED
      BY <3>1, <3>2
  <2> QED
    BY <2>5, <2>6 DEF Tidy
<1>14. \A y \in Resources : new.values[y] \in {Absent, Empty, y}
  BY <1>1 DEF Inductive, OwnValue, conn
<1>15. new.allCtrl /\ p \in Reporting => new.reported
  BY <1>1 DEF Inductive, ReportRequested, conn
<1>16. OwnCallback'
  <2>1. \A k \in 1 .. n + 1 : k \in 1 .. n \/ k = n + 1
    BY <1>1
  <2> QED
    BY <1>3, <1>10, <2>1 DEF Inductive, OwnCallback, n
<1>17. \A k \in 1 .. Len(calls) : calls'[k].prop = calls[k].prop
  BY <1>10 DEF n
<1>18. d = c => Matched(to \o send, from, c, new.open)
  BY <1>1, <1>4, <1>11 DEF conn
<1>19. d \notin {0, c} => Matched(to \o send, from, d, conns[d].open)
  BY <1>11
<1>20. p \in Reporting /\ d = c => FeaturesOK(to \o send, from, c, new.reporting)
  BY <1>1, <1>12 DEF conn
<1>21. \A q \in Peers : fromPeer'[q] = fromPeer[q]
  BY <1>2
<1>22. /\ Numbers(toPeer'[p], fromPeer'[p], counter')
       /\ d = c => Matched(toPeer'[p], fromPeer'[p], c, new.open)
       /\ d \notin {0, c} => Matched(toPeer'[p], fromPeer'[p], d, conns[d].open)
       /\ p \in Reporting /\ d = c => FeaturesOK(toPeer'[p], fromPeer'[p], c, new.reporting)
       /\ p \in Reporting /\ d \notin {0, c} =>
            FeaturesOK(toPeer'[p], fromPeer'[p], d, conns[d].reporting)
  BY <1>2, <1>3, <1>9, <1>11, <1>12, <1>18, <1>19, <1>20, <1>21 DEF from
<1>23. /\ conns[c].peer = p /\ new.peer = p /\ new \in Connection
       /\ conns' = [conns EXCEPT ![c] = new] /\ current' = current
       /\ counter <= counter' /\ counter' \in Nat /\ Tidy(new, counter', calls')
  BY <1>1, <1>2, <1>7, <1>13 DEF conn
<1> HIDE DEF p, send
<1> QED
  <2>1. p \in Peers /\ c \in 1 .. Len(conns) /\ new \in Connection /\ Changed(p, c, new)
    BY <1>3, <1>9, <1>14, <1>15, <1>16, <1>17, <1>21, <1>22, <1>23 DEF d, Changed
  <2> QED
    BY <2>1, ChangedStep

\* What follows a reply is requested under new ids, and stays open.
LEMMA SentOpens ==
    ASSUME counter \in RequestId, NEW open \in Partial(Resources),
           \A i \in DOMAIN open : i <= counter /\ (i = 0 => open[i] = ResourceList),
           NEW gets \in Seq(Resources), Len(gets) <= 3, counter <= NextId(Len(gets)),
           NEW c \in Nat, NEW report \in BOOLEAN, NEW id \in DOMAIN open
    PROVE  /\ New(Sent(gets, c, report), counter, NextId(Len(gets)))
           /\ Opens(Sent(gets, c, report), counter, c, Without(open, id),
                    Without(Opened(open, gets), id))
<1> DEFINE n == Len(gets)
           s == Sent(gets, c, report)
           o == Opened(open, gets)
           rest == Without(open, id)
           more == Without(o, id)
<1>1. /\ s \in Seq(Inquiry) /\ Len(s) = n + (IF report THEN 1 ELSE 0)
      /\ \A k \in 1 .. n : s[k] = Get(NextId(k), gets[k], c)
      /\ report => s[n + 1] = Plain("report")
  BY SentIs
<1>2. n \in Nat /\ n <= 3
  BY LenProperties
<1>3. /\ o \in Partial(Resources) /\ DOMAIN o = DOMAIN open \cup {NextId(k) : k \in 1 .. n}
      /\ \A k \in 1 .. n : o[NextId(k)] = gets[k]
      /\ \A i \in DOMAIN open : i \notin {NextId(k) : k \in 1 .. n} => o[i] = open[i]
  BY OpenedIs
<1>4. /\ DOMAIN rest = DOMAIN open \ {id} /\ \A i \in DOMAIN rest : rest[i] = open[i]
      /\ DOMAIN more = DOMAIN o \ {id} /\ \A i \in DOMAIN more : more[i] = o[i]
  BY DEF Without
<1>5. DOMAIN open \subseteq Nat /\ counter \in Nat
  BY PartialHas, Constants
<1>6. counter <= NextId(n)
  OBVIOUS
<1> HIDE DEF n, s, o, rest, more
<1>7. n \in 0 .. 3 /\ n <= n /\ \A k \in 1 .. n : k \in 0 .. 3 /\ k <= n
  BY <1>2
<1>8. NextId(n) = counter + n /\ \A k \in 1 .. n : NextId(k) = counter + k
  BY <1>6, <1>7, NextIds
<1>9. \A k \in 1 .. n : s[k].id = counter + k /\ s[k].prop = gets[k] /\ s[k].by = c
                         /\ Getting(s[k])
  BY <1>1, <1>8, GetFields
<1>10. report => ~Getting(s[n + 1])
  BY <1>1, PlainIs DEF Types
<1>11. \A k \in 1 .. Len(s) : Getting(s[k]) => k \in 1 .. n
  <2>1. \A k \in 1 .. Len(s) : k \in 1 .. n \/ (report /\ k = n + 1)
    BY <1>1, <1>2
  <2> QED
    BY <1>10, <2>1
<1>12. \A k \in 1 .. n : k \in 1 .. Len(s)
  BY <1>1, <1>2
<1>13. New(s, counter, NextId(n))
  <2>1. \A k \in 1 .. n : counter < s[k].id /\ s[k].id <= NextId(n)
    BY <1>2, <1>5, <1>8, <1>9
  <2>2. \A i, j \in 1 .. n : s[i].id = s[j].id => i = j
    BY <1>2, <1>5, <1>9
  <2>3. Once(s)
    BY <1>11, <2>2 DEF Once
  <2> QED
    BY <1>11, <2>1, <2>3 DEF New
<1>14. \A k \in 1 .. n : /\ counter + k \in DOMAIN more /\ more[counter + k] = gets[k]
                         /\ counter < counter + k
  <2>1. \A k \in 1 .. n : counter < counter + k /\ counter + k # id
    BY <1>2, <1>5
  <2>2. \A k \in 1 .. n : counter + k \in DOMAIN o /\ o[counter + k] = gets[k]
    BY <1>3, <1>8
  <2> QED
    BY <1>4, <2>1, <2>2
<1>15. \A i \in DOMAIN open : o[i] = open[i]
  <2>1. \A i \in DOMAIN open, k \in 1 .. n : i # NextId(k)
    BY <1>2, <1>5, <1>8
  <2> QED
    BY <1>3, <2>1
<1>16. \A i \in DOMAIN more :
         \/ i \in DOMAIN rest /\ more[i] = open[i]
         \/ i \notin DOMAIN open /\ \E k \in 1 .. n : i = counter + k
  BY <1>3, <1>4, <1>8, <1>15
<1>17. Same(s, c, more)
  BY <1>9, <1>11, <1>14 DEF Same
<1>18. \A i \in DOMAIN more : i = 0 => more[i] = ResourceList
  <2>1. \A k \in 1 .. n : counter + k # 0
    BY <1>2, <1>5
  <2> QED
    BY <1>4, <1>16, <2>1
<1>19. \A i \in DOMAIN rest : i \in DOMAIN more /\ more[i] = rest[i]
  BY <1>3, <1>4, <1>15
<1>20. ASSUME NEW i \in DOMAIN more \ DOMAIN rest
       PROVE  (i = 0 \/ counter < i) /\ Comes(s, c, i, more[i])
  <2>1. PICK k \in 1 .. n : i = counter + k
    BY <1>16
  <2>2. counter < i /\ more[i] = gets[k] /\ k \in 1 .. Len(s)
    BY <1>12, <1>14, <2>1
  <2> QED
    BY <1>9, <2>1, <2>2 DEF Comes
<1>21. Opens(s, counter, c, rest, more)
  BY <1>17, <1>18, <1>19, <1>20 DEF Opens
<1> QED
  BY <1>13, <1>21 DEF n, s, o, rest, more

\* The reply at the head of a line is that of the open request of its id.
LEMMA ReplyIsOwn ==
    ASSUME NEW to \in Seq(Inquiry), NEW from \in Seq(Reply), from # <<>>, Getting(from[1]),
           NEW count, NEW c, NEW open, Numbers(to, from, count), Matched(to, from, c, open),
           from[1].id \in DOMAIN open
    PROVE  from[1].prop = open[from[1].id] /\ (from[1].id # 0 => from[1].by = c)
<1>1. 1 \in 1 .. Len(from)
  BY TailIs
<1>2. from[1].prop = open[from[1].id]
  BY <1>1 DEF Matched, Same
<1>3. ASSUME from[1].id # 0 PROVE from[1].by = c
  <2>1. CASE Comes(to, c, from[1].id, open[from[1].id])
    <3>1. PICK i \in 1 .. Len(to) : Getting(to[i]) /\ to[i].id = from[1].id
      BY <2>1 DEF Comes
    <3> QED
      BY <1>1, <1>3, <3>1 DEF Numbers, Apart
  <2>2. CASE Comes(from, c, from[1].id, open[from[1].id])
    <3>1. PICK i \in 1 .. Len(from) :
            Getting(from[i]) /\ from[i].id = from[1].id /\ from[i].by = c
      BY <2>2 DEF Comes
    <3>2. i = 1
      BY <1>1, <1>3, <3>1 DEF Numbers, Once
    <3> QED
      BY <3>1, <3>2
  <2> QED
    BY <2>1, <2>2 DEF Matched
<1> QED
  BY <1>2, <1>3

LEMMA TakeReplyStep ==
    ASSUME Structure, Inductive, NEW p \in Peers, NEW m \in Reply, TakeReply(p, m),
           fromPeer[p] # <<>>, m = fromPeer[p][1], m.type = "getReply",
           fromPeer' = [fromPeer EXCEPT ![p] = Tail(@)], NotRound
    PROVE  Inductive'
<1> DEFINE c == current[p]
           conn == conns[c]
           to == toPeer[p]
           from == fromPeer[p]
           x == conn.open[m.id]
<1>1. PICK gets \in Seq(Resources), report \in BOOLEAN, new \in Connection :
        Replied(p, m, gets, report, new)
  BY TakeReplyIs
<1> DEFINE send == Sent(gets, c, report)
           next == NextId(Len(gets))
           open == Opened(conn.open, gets)
<1>2. /\ c # 0 /\ m.id \in DOMAIN conn.open /\ Len(gets) <= 3
      /\ calls' = Called(conn, m) /\ conns' = [conns EXCEPT ![c] = new]
      /\ new.peer = conn.peer /\ new.reporting = conn.reporting
      /\ new.open = Without(open, m.id) /\ new.waiting = Without(conn.waiting, m.id)
      /\ \A y \in Resources :
           new.values[y] \in {Absent, Empty, conn.values[y]}
                               \cup (IF y = x THEN {m.prop} ELSE {})
      /\ conn.reported => new.reported
      /\ new.allCtrl /\ ~conn.allCtrl /\ conn.reporting => new.reported
      /\ new.allCtrl /\ ~conn.allCtrl => x = AllCtrlList
      /\ counter' = next
      /\ toPeer' = [toPeer EXCEPT ![p] = to \o send]
      /\ current' = current
  BY <1>1 DEF Replied
<1>3. /\ to \in Seq(Inquiry) /\ from \in Seq(Reply) /\ counter \in Nat
      /\ Numbers(to, from, counter)
      /\ c \in 1 .. Len(conns) /\ conn \in Connection /\ conn.peer = p
      /\ Matched(to, from, c, conn.open) /\ Tidy(conn, counter, calls)
      /\ p \in Reporting => FeaturesOK(to, from, c, conn.reporting)
  BY <1>2, LineIs
<1>4. /\ toPeer \in [Peers -> Seq(Inquiry)] /\ fromPeer \in [Peers -> Seq(Reply)]
      /\ conn.open \in Partial(Resources) /\ c \in Nat /\ counter \in RequestId
      /\ from # <<>> /\ m = from[1] /\ Getting(from[1]) /\ from[1].type # "procCapsReply"
      /\ Tail(from) \in Seq(Reply)
  BY <1>3, TailIs DEF Structure, Shape, Connection, Getting
<1>5. /\ DOMAIN conn.waiting \subseteq DOMAIN conn.open
      /\ \A i \in DOMAIN conn.waiting : conn.waiting[i] \in 1 .. Len(calls)
  BY <1>3 DEF Structure, CallbacksHeld
<1>6. counter <= next /\ next \in Nat
  <2>1. counter <= next
    BY <1>2 DEF NotRound
  <2>2. Len(gets) \in Nat /\ Len(gets) <= 3
    BY <1>2, LenProperties
  <2> DEFINE n == Len(gets)
  <2> HIDE DEF n
  <2>3. n \in 0 .. 3
    <3>1. n \in Nat /\ n <= 3
      BY <2>2 DEF n
    <3> QED
      BY <3>1
  <2>4. NextId(n) \in RequestId
    BY <1>4, <2>3, NextIds
  <2> QED
    BY <2>1, <2>4, Constants DEF n
<1>7. /\ toPeer'[p] = to \o send /\ fromPeer'[p] = Tail(from)
      /\ \A q \in Peers : q # p => toPeer'[q] = toPeer[q] /\ fromPeer'[q] = fromPeer[q]
  BY <1>2, <1>4
<1>8. send \in Seq(Inquiry)
  BY <1>2, <1>4, SentIs
<1>9. New(send, counter, next) /\ Opens(send, counter, c, Without(conn.open, m.id), new.open)
  <2>1. \A i \in DOMAIN conn.open : i <= counter /\ (i = 0 => conn.open[i] = ResourceList)
    BY <1>3 DEF Tidy
  <2> DEFINE o == conn.open
             id == m.id
  <2>2. /\ counter \in RequestId /\ o \in Partial(Resources) /\ id \in DOMAIN o
        /\ \A i \in DOMAIN o : i <= counter /\ (i = 0 => o[i] = ResourceList)
        /\ Len(gets) <= 3 /\ counter <= NextId(Len(gets)) /\ c \in Nat
    BY <1>2, <1>4, <1>6, <2>1
  <2>3. new.open = Without(Opened(o, gets), id)
    BY <1>2
  <2> HIDE DEF o, id, c
  <2>4. /\ New(Sent(gets, c, report), counter, NextId(Len(gets)))
        /\ Opens(Sent(gets, c, report), counter, c, Without(o, id),
                 Without(Opened(o, gets), id))
    BY <2>2, SentOpens
  <2> QED
    BY <2>3, <2>4 DEF o, id
<1>10. /\ DOMAIN new.open = (DOMAIN conn.open \cup {NextId(k) : k \in 1 .. Len(gets)}) \ {m.id}
       /\ \A i \in DOMAIN new.open : i = 0 => new.open[i] = ResourceList
       /\ \A i \in DOMAIN conn.open : i # m.id => new.open[i] = conn.open[i] /\ i \in DOMAIN new.open
       /\ DOMAIN new.waiting = DOMAIN conn.waiting \ {m.id}
       /\ \A i \in DOMAIN new.waiting : new.waiting[i] = conn.waiting[i]
  <2>1. /\ DOMAIN Without(conn.open, m.id) = DOMAIN conn.open \ {m.id}
        /\ \A i \in DOMAIN Without(conn.open, m.id) :
             Without(conn.open, m.id)[i] = conn.open[i]
    BY DEF Without
  <2>2. \A i \in DOMAIN conn.open : i # m.id => new.open[i] = conn.open[i] /\ i \in DOMAIN new.open
    BY <1>9, <2>1 DEF Opens
  <2>3. DOMAIN open = DOMAIN conn.open \cup {NextId(k) : k \in 1 .. Len(gets)}
    BY DEF Opened
  <2>4. DOMAIN new.open = DOMAIN open \ {m.id}
    BY <1>2 DEF Without
  <2>5. /\ DOMAIN new.waiting = DOMAIN conn.waiting \ {m.id}
        /\ \A i \in DOMAIN new.waiting : new.waiting[i] = conn.waiting[i]
    BY <1>2 DEF Without
  <2>6. \A i \in DOMAIN new.open : i = 0 => new.open[i] = ResourceList
    BY <1>9 DEF Opens
  <2> QED
    BY <2>2, <2>3, <2>4, <2>5, <2>6
<1> HIDE DEF c, conn, to, from, x, send, next, open
<1>11. m.prop = x /\ (m.id # 0 => m.by = c)
  BY <1>2, <1>3, <1>4, ReplyIsOwn DEF x
<1>12. /\ Numbers(to, Tail(from), counter)
       /\ Matched(to, Tail(from), c, Without(conn.open, m.id))
  <2>1. Numbers(to, Tail(from), counter)
    BY <1>3, <1>4, NumbersTaken
  <2> DEFINE rest == Without(conn.open, m.id)
  <2>2. DOMAIN rest = DOMAIN conn.open \ {from[1].id} /\ \A i \in DOMAIN rest : rest[i] = conn.open[i]
    BY <1>4 DEF Without
  <2> HIDE DEF rest
  <2>3. Matched(to, Tail(from), c, rest)
    BY <1>3, <1>4, <2>2, MatchedTaken
  <2> QED
    BY <2>1, <2>3 DEF rest
<1>13. Numbers(to \o send, Tail(from), next)
  BY <1>3, <1>4, <1>6, <1>8, <1>9, <1>12, NumbersSend
<1>14. Matched(to \o send, Tail(from), c, new.open)
  BY <1>3, <1>4, <1>8, <1>9, <1>12, MatchedSend
<1>15. p \in Reporting => conn.reporting \/ FeaturesFirst(to, from, c)
  BY <1>2, <1>3 DEF FeaturesOK
<1>16. FeaturesFirst(to, from, c) =>
         /\ FeaturesFirst(to \o send, Tail(from), c)
         /\ ~(Getting(from[1]) /\ from[1].by = c)
  BY <1>3, <1>4, <1>8, FeaturesTaken, FeaturesSend
<1>17. p \in Reporting => FeaturesOK(to \o send, Tail(from), c, new.reporting)
  BY <1>2, <1>15, <1>16 DEF FeaturesOK
<1>18. new.allCtrl /\ p \in Reporting => new.reported
  <2> SUFFICES ASSUME new.allCtrl, p \in Reporting PROVE new.reported
    OBVIOUS
  <2>1. CASE conn.allCtrl
    <3>1. conn.reported
      BY <1>3, <2>1 DEF Inductive, ReportRequested, conn
    <3> QED
      BY <1>2, <3>1
  <2>2. CASE ~conn.allCtrl
    <3>1. m.id # 0
      BY <1>2, <1>3, <2>2, Constants DEF Tidy, x
    <3>2. m.by = c
      BY <1>11, <3>1
    <3>3. conn.reporting
      BY <1>4, <1>15, <1>16, <3>2
    <3> QED
      BY <1>2, <2>2, <3>3
  <2> QED
    BY <2>1, <2>2
<1>19. \A y \in Resources : new.values[y] \in {Absent, Empty, y}
  <2>1. \A y \in Resources : conn.values[y] \in {Absent, Empty, y}
    BY <1>3 DEF Inductive, OwnValue, conn
  <2> QED
    BY <1>2, <1>11, <2>1
<1>20. /\ Len(calls') = Len(calls)
       /\ \A n \in 1 .. Len(calls) :
            /\ calls'[n].conn = calls[n].conn /\ calls'[n].prop = calls[n].prop
            /\ \/ calls'[n].answer = calls[n].answer
               \/ /\ m.id \in DOMAIN conn.waiting /\ conn.waiting[m.id] = n
                  /\ calls'[n].answer = m.prop
  BY <1>2, <1>3, CalledIs DEF conn
<1>21. OwnCallback'
  <2>1. m.id \in DOMAIN conn.waiting => calls[conn.waiting[m.id]].prop = m.prop
    BY <1>3, <1>11 DEF Tidy, x
  <2> QED
    BY <1>20, <2>1 DEF Inductive, OwnCallback
<1>22. Tidy(new, next, calls')
  <2>1. \A i \in DOMAIN new.open : i <= next
    <3>1. new.open \in Partial(Resources)
      BY DEF Connection
    <3>2. DOMAIN new.open \subseteq Nat /\ DOMAIN conn.open \subseteq Nat
      BY <1>4, <3>1, PartialHas, Constants
    <3>3. \A i \in DOMAIN conn.open : i <= next
      BY <1>3, <1>6, <3>2 DEF Tidy
    <3>4. ASSUME NEW i \in DOMAIN new.open, i \notin DOMAIN conn.open PROVE i <= next
      <4>1. i \notin DOMAIN Without(conn.open, m.id)
        BY <3>4 DEF Without
      <4>2. i = 0 \/ Comes(send, c, i, new.open[i])
        BY <1>9, <4>1 DEF Opens
      <4>3. CASE i = 0
        BY <1>6, <4>3
      <4>4. CASE i # 0
        <5>1. PICK k \in 1 .. Len(send) : Getting(send[k]) /\ send[k].id = i
          BY <4>2, <4>4 DEF Comes
        <5> QED
          BY <1>9, <4>4, <5>1 DEF New
      <4> QED
        BY <4>3, <4>4
    <3> QED
      BY <3>3, <3>4
  <2>2. ASSUME NEW i \in DOMAIN new.waiting
        PROVE  i # 0 /\ calls'[new.waiting[i]].prop = new.open[i]
    <3>1. /\ i \in DOMAIN conn.waiting /\ i # m.id /\ new.waiting[i] = conn.waiting[i]
          /\ new.open[i] = conn.open[i]
      BY <1>5, <1>10
    <3>2. i # 0 /\ calls[conn.waiting[i]].prop = conn.open[i]
      BY <1>3, <3>1 DEF Tidy
    <3>3. calls'[conn.waiting[i]].prop = calls[conn.waiting[i]].prop
      BY <1>5, <1>20, <3>1
    <3> QED
      BY <3>1, <3>2, <3>3
  <2> QED
    BY <1>10, <2>1, <2>2 DEF Tidy
<1>23. /\ counter <= counter' /\ counter' \in Nat /\ Tidy(new, counter', calls')
       /\ Numbers(toPeer'[p], fromPeer'[p], counter')
       /\ Matched(toPeer'[p], fromPeer'[p], c, new.open)
       /\ p \in Reporting => FeaturesOK(toPeer'[p], fromPeer'[p], c, new.reporting)
  BY <1>2, <1>6, <1>7, <1>13, <1>14, <1>17, <1>22
<1>24. \A n \in 1 .. Len(calls) : calls'[n].prop = calls[n].prop
  BY <1>20
<1>25. conns[c].peer = p /\ new.peer = p
  BY <1>2, <1>3 DEF conn
<1> QED
  <2>1. c \in 1 .. Len(conns) /\ new \in Connection /\ Changed(p, c, new)
    BY <1>2, <1>3, <1>7, <1>18, <1>19, <1>21, <1>23, <1>24, <1>25 DEF c, Changed
  <2> QED
    BY <2>1, ChangedStep

\* The one step that reads a line.
LEMMA ReceiveStep ==
    ASSUME Structure, Inductive, NEW p \in Peers, Receive(p), NotRound PROVE Inductive'
<1>1. PICK m \in Reply :
        /\ m = Head(fromPeer[p]) /\ fromPeer[p] # <<>>
        /\ fromPeer' = [fromPeer EXCEPT ![p] = Tail(@)] /\ Handled(p, m)
  BY ReceiveIs
<1>2. m = fromPeer[p][1]
  BY <1>1, TailIs DEF Structure, Shape
<1>3. current \in [Peers -> Nat]
  BY DEF Structure, Shape
<1>4. CASE m.type = "discoveryReply" /\ NewEndpoint(p)
  BY <1>1, <1>4, NewEndpointStep
<1>5. CASE m.type = "invalidate" /\ Invalidate(p)
  <2>1. /\ UNCHANGED <<conns, toPeer, counter, calls>>
        /\ current' = [current EXCEPT ![p] = 0]
    BY <1>5 DEF Invalidate
  <2>2. current'[p] = 0 /\ \A q \in Peers : q # p => current'[q] = current[q]
    BY <1>3, <2>1
  <2> QED
    BY <1>1, <2>1, <2>2, DroppedStep
<1>6. CASE m.type = "propCapsReply" /\ RequestList(p)
  BY <1>1, <1>2, <1>6, RequestListStep
<1>7. CASE m.type = "procCapsReply" /\ SetFeatures(p)
  BY <1>1, <1>2, <1>7, SetFeaturesStep
<1>8. CASE m.type = "getReply" /\ TakeReply(p, m)
  BY <1>1, <1>2, <1>8, TakeReplyStep
<1>9. CASE Ignored(p, m) /\ UNCHANGED <<conns, current, model, toPeer, counter, calls>>
  <2>1. current[p] # 0 =>
          m.type = "getReply" /\ m.id \notin DOMAIN conns[current[p]].open
    BY <1>9 DEF Ignored
  <2> QED
    BY <1>1, <1>2, <1>9, <2>1, DroppedStep
<1> QED
  BY <1>1, <1>4, <1>5, <1>6, <1>7, <1>8, <1>9 DEF Handled

LEMMA StepInductive ==
    Structure /\ Inductive /\ [Next]_vars /\ [NotRound]_vars => Inductive'
<1> SUFFICES ASSUME Structure, Inductive, [Next]_vars, [NotRound]_vars PROVE Inductive'
  OBVIOUS
<1>1. CASE UNCHANGED vars
  <2>1. /\ UNCHANGED <<conns, counter, calls>>
        /\ toPeer' = toPeer /\ fromPeer' = fromPeer /\ current' = current
    BY <1>1 DEF vars
  <2>2. \A q \in Peers :
          /\ LineOK(toPeer[q], fromPeer[q], counter, current[q], conns[current[q]].open)
          /\ q \in Reporting =>
               FeaturesOK(toPeer[q], fromPeer[q], current[q], conns[current[q]].reporting)
    BY DEF Inductive, Lines, FeaturesKnown
  <2> QED
    BY <2>1, <2>2, QuietStep
<1>2. CASE Next /\ NotRound
  <2>1. CASE SendDiscovery
    BY <2>1, DiscoveryStep
  <2>2. ASSUME NEW p \in Peers, PeerAnswers(p) PROVE Inductive'
    BY <2>2, AnswersStep
  <2>3. ASSUME NEW p \in Peers, Goodbye(p) PROVE Inductive'
    BY <2>3, GoodbyeStep
  <2>4. ASSUME NEW p \in Peers, Receive(p) PROVE Inductive'
    BY <1>2, <2>4, ReceiveStep
  <2>5. ASSUME NEW c \in 1 .. Len(conns), NEW x \in Wanted, GetProperty(c, x)
        PROVE  Inductive'
    BY <1>2, <2>5, GetPropertyStep
  <2> QED
    BY <1>2, <2>1, <2>2, <2>3, <2>4, <2>5 DEF Next
<1> QED
  BY <1>1, <1>2

LEMMA RepliesHold == Structure /\ Inductive => RepliesMatch
<1> SUFFICES ASSUME Structure, Inductive PROVE OpenIsAwaited
  BY DEF Inductive, RepliesMatch
<1> SUFFICES ASSUME NEW p \in Peers, current[p] # 0
             PROVE  LET conn == conns[current[p]]
                        open == {<<id, conn.open[id]>> : id \in DOMAIN conn.open}
                        awaited == {<<m.id, m.prop>> : m \in InFlight(current[p])}
                    IN  /\ open \subseteq awaited
                        /\ \A r \in awaited \ open : r[2] = ResourceList
  BY DEF OpenIsAwaited
<1> DEFINE c == current[p]
           conn == conns[c]
           to == toPeer[p]
           from == fromPeer[p]
           open == {<<id, conn.open[id]>> : id \in DOMAIN conn.open}
           awaited == {<<m.id, m.prop>> : m \in InFlight(c)}
<1>1. /\ Numbers(to, from, counter) /\ Matched(to, from, c, conn.open) /\ conn.peer = p
      /\ to \in Seq(Inquiry) /\ from \in Seq(Reply)
  BY LineIs
<1>2. \A m : m \in InFlight(c) <=>
        /\ Getting(m) /\ m.by = c
        /\ \/ \E i \in 1 .. Len(to) : m = to[i]
           \/ \E i \in 1 .. Len(from) : m = from[i]
  <2>1. ToSet(to) = {to[i] : i \in 1 .. Len(to)} /\ ToSet(from) = {from[i] : i \in 1 .. Len(from)}
    BY <1>1 DEF ToSet
  <2>2. InFlight(c) = {m \in ToSet(to) \cup ToSet(from) :
                        m.type \in {"get", "getReply"} /\ m.by = c}
    BY <1>1 DEF InFlight
  <2> HIDE DEF to, from, conn, c
  <2> QED
    BY <2>1, <2>2 DEF Getting
<1> HIDE DEF to, from, c, conn
<1>3. ASSUME NEW id \in DOMAIN conn.open PROVE <<id, conn.open[id]>> \in awaited
  <2>1. Comes(to, c, id, conn.open[id]) \/ Comes(from, c, id, conn.open[id])
    BY <1>1 DEF Matched
  <2>2. PICK m : /\ Getting(m) /\ m.by = c /\ m.id = id /\ m.prop = conn.open[id]
                 /\ \/ \E i \in 1 .. Len(to) : m = to[i]
                    \/ \E i \in 1 .. Len(from) : m = from[i]
    BY <2>1 DEF Comes
  <2> QED
    BY <1>2, <2>2
<1>4. ASSUME NEW m \in InFlight(c) PROVE <<m.id, m.prop>> \in open \/ m.prop = ResourceList
  <2>1. /\ m.id = 0 => m.prop = ResourceList
        /\ m.id \in DOMAIN conn.open => m.prop = conn.open[m.id]
        /\ m.id # 0 => m.id \in DOMAIN conn.open
    <3>1. Fresh(to, counter) /\ Fresh(from, counter)
          /\ Same(to, c, conn.open) /\ Same(from, c, conn.open)
      BY <1>1 DEF Numbers, Matched
    <3>2. Getting(m) /\ m.by = c
      BY <1>2
    <3>3. CASE \E i \in 1 .. Len(to) : m = to[i]
      BY <3>1, <3>2, <3>3 DEF Fresh, Same
    <3>4. CASE \E i \in 1 .. Len(from) : m = from[i]
      BY <3>1, <3>2, <3>4 DEF Fresh, Same
    <3> QED
      BY <1>2, <3>3, <3>4
  <2> QED
    BY <2>1
<1>5. open \subseteq awaited
  BY <1>3
<1>6. \A r \in awaited \ open : r[2] = ResourceList
  BY <1>4
<1> QED
  BY <1>5, <1>6 DEF conn, c

\* Whatever is under way at once, as long as no request id is given out again:
\* a reply sets the value of the property it is about (setPropertyValue), the
\* callback of getPropertyData gets the reply to its own call, every open
\* request has an answer on its way, and message reports are asked for.
THEOREM RepliesFind == Spec /\ [][NotRound]_vars => []RepliesMatch
<1>1. Init => Structure /\ Inductive
  BY InitStructure, InitInductive
<1>2. Structure /\ Inductive /\ [Next]_vars /\ [NotRound]_vars => (Structure /\ Inductive)'
  BY StepStructure, StepInductive
<1>3. Structure /\ Inductive => RepliesMatch
  BY RepliesHold
<1> QED
  BY <1>1, <1>2, <1>3, PTL DEF Spec
=============================================================================
