------------------------ MODULE RequestTracker_proofs ------------------------
(***************************************************************************)
(* Proofs about RequestTracker, for any keys and any number of questions   *)
(* of the user.  Request ids are 8 bits and come back; what keeps those    *)
(* from the counter apart is that a request under way is not older than    *)
(* those sent after it are many.                                           *)
(***************************************************************************)
EXTENDS RequestTracker, SequenceTheorems, TLAPS

Message == [id : RequestIds, key : Keys \cup {ResourceList}, by : {"ui", "library"}]

\* How many ids were handed out after this one, when the counter is at c.
Ago(id, c) == IF c >= id THEN c - id ELSE c - id + NumIds

Types ==
    /\ conn \in 1 .. MaxConnections
    /\ counter \in RequestIds
    /\ wire \in Seq(Message)
    /\ Len(wire) <= MaxUnderWay
    /\ pending \in [Keys -> Ages]
    /\ \A id \in DOMAIN ids : ids[id] \in Keys
    /\ registering = Nothing
       \/ \E id \in RequestIds, k \in Keys : registering = <<id, k>>

\* The requests of w whose ids are from the counter were sent in the order of
\* their ids, and of the ids handed out since each is still in w.
Ordered(w, c) ==
    \A i \in 1 .. Len(w) : w[i].key # ResourceList =>
        /\ Ago(w[i].id, c) <= Len(w) - i
        /\ \A j \in 1 .. Len(w) :
                i < j /\ w[j].key # ResourceList => Ago(w[i].id, c) > Ago(w[j].id, c)

\* A request of the user blocks its key, one of the library excuses it.
Blocked ==
    \A i \in 1 .. Len(wire) :
        IF wire[i].by = "library" THEN wire[i].key \in excused \cup {ResourceList}
        ELSE /\ wire[i].key \in Keys
             /\ wire[i].key \in excused \/ pending[wire[i].key] # "none"

\* The part of OneUnderWay that does not follow from Ordered.
Once == \A k \in Keys \ excused : \A i, j \in Requests(k) : i = j

Inductive == Types /\ Ordered(wire, counter) /\ Blocked /\ Once /\ NothingIsLeft

-----------------------------------------------------------------------------
LEMMA AgoType ==
    ASSUME NEW id \in RequestIds, NEW c \in RequestIds
    PROVE  Ago(id, c) \in RequestIds /\ Ago(id, c) \in Nat
  BY TrackerAssumption DEF Ago, RequestIds

LEMMA Modulo ==
    ASSUME NEW a \in RequestIds, NEW b \in RequestIds
    PROVE  /\ (a + b) % NumIds = IF a + b < NumIds THEN a + b ELSE a + b - NumIds
           /\ (a + b) % NumIds \in RequestIds
<1>1. NumIds \in Nat \ {0}
  BY TrackerAssumption
<1> QED
  BY <1>1 DEF RequestIds

\* Handing out n ids makes those before n older.
LEMMA Advance ==
    ASSUME counter \in RequestIds, NEW n \in RequestIds, counter' = NextId(n)
    PROVE  /\ counter' \in RequestIds
           /\ \A id \in RequestIds : Ago(id, counter) + n < NumIds
                => Ago(id, counter') = Ago(id, counter) + n
           /\ \A i \in 1 .. n : NextId(i) \in RequestIds /\ Ago(NextId(i), counter') = n - i
<1>1. NumIds \in Nat \ {0}
  BY TrackerAssumption
<1>2. /\ counter' = IF counter + n < NumIds THEN counter + n ELSE counter + n - NumIds
      /\ counter' \in RequestIds
  BY Modulo DEF NextId
<1>3. ASSUME NEW id \in RequestIds, Ago(id, counter) + n < NumIds
      PROVE  Ago(id, counter') = Ago(id, counter) + n
  BY <1>1, <1>2, <1>3 DEF Ago, RequestIds
<1>4. ASSUME NEW i \in 1 .. n
      PROVE  NextId(i) \in RequestIds /\ Ago(NextId(i), counter') = n - i
  <2>1. i \in RequestIds
    BY <1>1 DEF RequestIds
  <2>2. /\ NextId(i) = IF counter + i < NumIds THEN counter + i ELSE counter + i - NumIds
        /\ NextId(i) \in RequestIds
    BY <2>1, Modulo DEF NextId
  <2> QED
    BY <1>1, <1>2, <2>2 DEF Ago, RequestIds
<1> QED
  BY <1>2, <1>3, <1>4

LEMMA InSequence ==
    ASSUME NEW w \in Seq(Message)
    PROVE  /\ Len(w) \in Nat
           /\ \A i \in 1 .. Len(w) :
                /\ w[i].key \in Keys \cup {ResourceList} /\ w[i].by \in {"ui", "library"}
                /\ w[i].id \in RequestIds
<1>1. Len(w) \in Nat /\ \A i \in 1 .. Len(w) : w[i] \in Message
  OBVIOUS
<1> QED
  BY <1>1 DEF Message

\* The ids of the counter under way: no two are the same.
LEMMA Distinct ==
    ASSUME Types, Ordered(wire, counter),
           NEW i \in 1 .. Len(wire), NEW j \in 1 .. Len(wire), wire[i].id = wire[j].id,
           wire[i].key # ResourceList, wire[j].key # ResourceList
    PROVE  i = j
<1>1. Len(wire) \in Nat /\ wire[i].id \in RequestIds /\ counter \in RequestIds
  BY InSequence DEF Types
<1>2. Ago(wire[i].id, counter) \in Nat
  BY <1>1, AgoType
<1>3. ~(i < j) /\ ~(j < i)
  BY <1>2 DEF Ordered
<1> QED
  BY <1>1, <1>3

-----------------------------------------------------------------------------
\* Requests that come and go.

LEMMA Tails ==
    ASSUME NEW w \in Seq(Message), w # <<>>
    PROVE  /\ Len(Tail(w)) = Len(w) - 1 /\ Len(w) \in Nat \ {0} /\ Tail(w) \in Seq(Message)
           /\ \A i \in 1 .. Len(w) - 1 : Tail(w)[i] = w[i + 1] /\ i + 1 \in 1 .. Len(w)
           /\ Head(w) = w[1] /\ 1 \in 1 .. Len(w)
  BY HeadTailProperties

LEMMA Concatenated ==
    ASSUME NEW S, NEW s \in Seq(S), NEW t \in Seq(S)
    PROVE  /\ s \o t \in Seq(S) /\ Len(s \o t) = Len(s) + Len(t)
           /\ \A i \in 1 .. Len(s) : (s \o t)[i] = s[i]
           /\ \A i \in 1 .. Len(t) : (s \o t)[Len(s) + i] = t[i]
  OBVIOUS

LEMMA OrderedTail ==
    ASSUME NEW w \in Seq(Message), w # <<>>, NEW c, Ordered(w, c)
    PROVE  Ordered(Tail(w), c)
<1> DEFINE t == Tail(w)
<1>1. /\ Len(t) = Len(w) - 1 /\ Len(w) \in Nat \ {0}
      /\ \A i \in 1 .. Len(t) : t[i] = w[i + 1] /\ i + 1 \in 1 .. Len(w)
  BY Tails
<1> HIDE DEF t
<1>2. ASSUME NEW i \in 1 .. Len(t), t[i].key # ResourceList
      PROVE  /\ Ago(t[i].id, c) <= Len(t) - i
             /\ \A j \in 1 .. Len(t) :
                    i < j /\ t[j].key # ResourceList => Ago(t[i].id, c) > Ago(t[j].id, c)
  <2>1. t[i] = w[i + 1] /\ i + 1 \in 1 .. Len(w) /\ Len(t) - i = Len(w) - (i + 1)
    BY <1>1
  <2>2. Ago(t[i].id, c) <= Len(t) - i
    BY <1>2, <2>1 DEF Ordered
  <2>3. ASSUME NEW j \in 1 .. Len(t), i < j, t[j].key # ResourceList
        PROVE  Ago(t[i].id, c) > Ago(t[j].id, c)
    <3>1. t[j] = w[j + 1] /\ j + 1 \in 1 .. Len(w) /\ i + 1 < j + 1
      BY <1>1, <2>3
    <3> QED
      BY <1>2, <2>1, <2>3, <3>1 DEF Ordered
  <2> QED
    BY <2>2, <2>3
<1> QED
  BY <1>2 DEF Ordered, t

\* n requests more, with ids of the counter.
LEMMA OrderedSend ==
    ASSUME counter \in RequestIds, NEW n \in RequestIds, counter' = NextId(n),
           NEW w \in Seq(Message), Ordered(w, counter), NEW v \in Seq(Message),
           Len(v) = Len(w) + n, Len(v) < NumIds,
           \A i \in 1 .. Len(w) : v[i] = w[i],
           \A i \in 1 .. n : v[Len(w) + i].id = NextId(i)
    PROVE  Ordered(v, counter')
<1>1. Len(w) \in Nat /\ n \in Nat /\ NumIds \in Nat /\ Len(w) + n < NumIds
  BY TrackerAssumption DEF RequestIds
<1> DEFINE new(i) == \E j \in 1 .. n : i = Len(w) + j
<1>2. \A i \in 1 .. Len(v) : i \in 1 .. Len(w) \/ new(i)
  <2>1. SUFFICES ASSUME NEW i \in 1 .. Len(v), i > Len(w) PROVE new(i)
    BY <1>1
  <2>2. i - Len(w) \in 1 .. n /\ i = Len(w) + (i - Len(w))
    BY <1>1, <2>1
  <2> QED
    BY <2>2
<1>3. ASSUME NEW i \in 1 .. Len(w), v[i].key # ResourceList
      PROVE  /\ Ago(v[i].id, counter') = Ago(w[i].id, counter) + n
             /\ Ago(w[i].id, counter) \in Nat
             /\ Ago(w[i].id, counter) <= Len(w) - i
  <2>1. w[i].id \in RequestIds
    BY InSequence
  <2>2. Ago(w[i].id, counter) \in Nat /\ Ago(w[i].id, counter) <= Len(w) - i
    BY <1>3, <2>1, AgoType DEF Ordered
  <2>3. Ago(w[i].id, counter) + n < NumIds
    BY <1>1, <2>2
  <2> QED
    BY <2>1, <2>2, <2>3, Advance
<1>4. ASSUME NEW i, new(i)
      PROVE  Ago(v[i].id, counter') = Len(v) - i /\ Len(v) - i \in 0 .. n - 1 /\ i > Len(w)
  <2>1. PICK j \in 1 .. n : i = Len(w) + j
    BY <1>4
  <2>2. v[i].id = NextId(j) /\ Ago(NextId(j), counter') = n - j
    BY <2>1, Advance
  <2> QED
    BY <1>1, <2>1, <2>2
<1> HIDE DEF new
<1>5. ASSUME NEW i \in 1 .. Len(v), v[i].key # ResourceList
      PROVE  /\ Ago(v[i].id, counter') <= Len(v) - i
             /\ \A j \in 1 .. Len(v) : i < j /\ v[j].key # ResourceList
                    => Ago(v[i].id, counter') > Ago(v[j].id, counter')
  <2>1. CASE new(i)
    <3>1. \A j \in 1 .. Len(v) : i < j => new(j)
      BY <1>1, <1>2, <1>4, <2>1
    <3>2. \A j \in 1 .. Len(v) : i < j => Ago(v[j].id, counter') = Len(v) - j
      BY <1>4, <3>1
    <3> QED
      BY <1>1, <1>4, <2>1, <3>2
  <2>2. CASE i \in 1 .. Len(w)
    <3>1. Ago(v[i].id, counter') <= Len(v) - i
      BY <1>1, <1>3, <1>5, <2>2
    <3>2. ASSUME NEW j \in 1 .. Len(v), i < j, v[j].key # ResourceList
          PROVE  Ago(v[i].id, counter') > Ago(v[j].id, counter')
      <4>1. CASE j \in 1 .. Len(w)
        <5>1. Ago(w[i].id, counter) > Ago(w[j].id, counter)
          BY <1>5, <2>2, <3>2, <4>1 DEF Ordered
        <5> QED
          BY <1>1, <1>3, <1>5, <2>2, <3>2, <4>1, <5>1
      <4>2. CASE new(j)
        <5>1. Ago(v[j].id, counter') \in 0 .. n - 1
          BY <1>4, <4>2
        <5>2. Ago(v[i].id, counter') = Ago(w[i].id, counter) + n /\ Ago(w[i].id, counter) \in Nat
          BY <1>3, <1>5, <2>2
        <5> QED
          BY <1>1, <5>1, <5>2
      <4> QED
        BY <1>2, <4>1, <4>2
    <3> QED
      BY <3>1, <3>2
  <2> QED
    BY <1>2, <2>1, <2>2
<1> QED
  BY <1>5 DEF Ordered

-----------------------------------------------------------------------------
LEMMA WireType ==
    ASSUME Types
    PROVE  /\ Len(wire) \in Nat /\ Len(wire) < NumIds
           /\ pending \in [Keys -> Ages] /\ counter \in RequestIds
           /\ \A i \in 1 .. Len(wire) :
                /\ wire[i].key \in Keys \cup {ResourceList}
                /\ wire[i].by \in {"ui", "library"} /\ wire[i].id \in RequestIds
  BY InSequence, TrackerAssumption DEF Types

\* What a chunk extends had an entry.
LEMMA ExtendedType ==
    ASSUME Types, NEW id
    PROVE  /\ Extended(id) \in [Keys -> Ages]
           /\ \A k \in Keys : Extended(id)[k] = "none" <=> pending[k] = "none"
<1>1. pending \in [Keys -> Ages] /\ (id \in DOMAIN ids => ids[id] \in Keys)
  BY DEF Types
<1> QED
  BY <1>1 DEF Extended, Ages

LEMMA CleanedType ==
    ASSUME Types
    PROVE  /\ Cleaned(pending) \in [Keys -> Ages]
           /\ \A k \in Keys : Cleaned(pending)[k] =
                IF pending[k] = "late" THEN "none" ELSE pending[k]
  BY DEF Types, Cleaned, Ages

LEMMA RequestIs ==
    \A id, k, by : /\ Request(id, k, by).id = id
                   /\ Request(id, k, by).key = k /\ Request(id, k, by).by = by
  BY DEF Request

LEMMA HeardType == \A id, ok : Heard(id, ok) \subseteq {State} \cup {open[id]}
                               /\ ResourceList \notin Heard(id, ok)
  BY TrackerAssumption DEF Heard

\* One request more.
LEMMA Appending ==
    ASSUME Types, NEW m \in Message, Len(wire) < MaxUnderWay, wire' = Append(wire, m)
    PROVE  /\ Len(wire') = Len(wire) + 1 /\ wire' \in Seq(Message)
           /\ Len(wire') <= MaxUnderWay /\ Len(wire') < NumIds
           /\ \A i \in 1 .. Len(wire) : i \in 1 .. Len(wire') /\ wire'[i] = wire[i]
           /\ wire'[Len(wire) + 1] = m
           /\ \A i \in 1 .. Len(wire') : i \in 1 .. Len(wire) \/ i = Len(wire) + 1
<1>1. wire \in Seq(Message) /\ Len(wire) \in Nat
  BY DEF Types
<1>2. /\ Len(wire') = Len(wire) + 1 /\ wire' \in Seq(Message)
      /\ \A i \in 1 .. Len(wire) : wire'[i] = wire[i]
      /\ wire'[Len(wire) + 1] = m
  BY <1>1, AppendProperties
<1> QED
  BY <1>1, <1>2, TrackerAssumption

LEMMA Asking ==
    ASSUME Types, NEW k \in Keys, Len(wire) < MaxUnderWay
    PROVE  1 \in RequestIds /\ NextId(1) \in RequestIds /\ Request(NextId(1), k, "ui") \in Message
<1>1. 1 \in RequestIds
  BY WireType, TrackerAssumption DEF RequestIds
<1>2. NextId(1) \in RequestIds
  BY <1>1, WireType, Modulo DEF NextId
<1> QED
  BY <1>1, <1>2 DEF Request, Message

LEMMA Listing ==
    ASSUME Types
    PROVE  Request(0, ResourceList, "library") \in Message
  BY WireType, TrackerAssumption DEF Request, Message, RequestIds

\* The requests of the library, one after the other.
LEMMA Getting ==
    ASSUME Types, Len(Automatic) <= MaxUnderWay
    PROVE  /\ Len(Automatic) \in RequestIds
           /\ AutomaticGets \in Seq(Message) /\ Len(AutomaticGets) = Len(Automatic)
           /\ \A i \in 1 .. Len(Automatic) :
                AutomaticGets[i] = Request(NextId(i), Automatic[i], "library")
           /\ \A i \in 1 .. Len(Automatic) : Automatic[i] \in Keys
<1> DEFINE n == Len(Automatic)
<1>1. n \in Nat /\ \A i \in 1 .. n : Automatic[i] \in Keys
  BY TrackerAssumption
<1>2. n \in RequestIds
  BY <1>1, TrackerAssumption DEF RequestIds
<1>3. counter \in RequestIds /\ \A i \in 1 .. n : i \in RequestIds
  BY <1>1, <1>2, TrackerAssumption DEF Types, RequestIds
<1>4. \A i \in 1 .. n : Request(NextId(i), Automatic[i], "library") \in Message
  BY <1>1, <1>3, Modulo DEF Request, Message, NextId
<1>5. AutomaticGets \in [1 .. n -> Message]
  BY <1>4 DEF AutomaticGets
<1>6. AutomaticGets \in Seq(Message) /\ Len(AutomaticGets) = n
  BY <1>1, <1>5
<1>7. \A i \in 1 .. n :
        AutomaticGets[i] = Request(NextId(i), Automatic[i], "library")
  BY DEF AutomaticGets
<1> QED
  BY <1>1, <1>2, <1>6, <1>7

\* An answer: the rest moves up, and the requests gets follow.
Follows(gets) ==
    /\ gets \in Seq(Message) /\ Len(gets) \in RequestIds
    /\ counter' = NextId(Len(gets))
    /\ \A i \in 1 .. Len(gets) :
            /\ gets[i].id = NextId(i) /\ gets[i].key \in Keys /\ gets[i].by = "library"
            /\ gets[i].key \in excused'
    /\ wire' = Tail(wire) \o gets
    /\ wire' \in Seq(Message) /\ Len(wire') = Len(wire) - 1 + Len(gets)
    /\ Len(wire') <= MaxUnderWay
    /\ \A i \in 1 .. Len(wire) - 1 :
            i \in 1 .. Len(wire') /\ wire'[i] = wire[i + 1] /\ i + 1 \in 1 .. Len(wire)
    /\ \A i \in 1 .. Len(gets) : wire'[Len(wire) - 1 + i] = gets[i]
    /\ \A i \in 1 .. Len(wire') :
            \/ i \in 1 .. Len(wire) - 1
            \/ \E j \in 1 .. Len(gets) : i = Len(wire) - 1 + j

LEMMA Answering ==
    ASSUME Types, NEW ok \in BOOLEAN, Answer(ok)
    PROVE  \E gets : Follows(gets)
<1> DEFINE m == Head(wire)
           loads == /\ ok /\ m.key = ResourceList
                    /\ m.id \in DOMAIN open /\ open[m.id] = ResourceList
           gets == IF loads THEN AutomaticGets ELSE <<>>
<1>1. /\ wire # <<>> /\ Len(wire) - 1 + Len(gets) <= MaxUnderWay
      /\ counter' = NextId(Len(gets)) /\ wire' = Tail(wire) \o gets
      /\ {r.key : r \in ToSet(gets)} \subseteq excused'
  BY DEF Answer
<1>2. wire \in Seq(Message) /\ MaxUnderWay \in Nat /\ NumIds \in Nat /\ NumIds > MaxUnderWay
  BY TrackerAssumption DEF Types
<1>3. /\ Len(Tail(wire)) = Len(wire) - 1 /\ Len(wire) \in Nat \ {0}
      /\ Tail(wire) \in Seq(Message)
      /\ \A i \in 1 .. Len(wire) - 1 : Tail(wire)[i] = wire[i + 1] /\ i + 1 \in 1 .. Len(wire)
  BY <1>1, <1>2, Tails
<1>4. /\ gets \in Seq(Message) /\ Len(gets) \in RequestIds
      /\ \A i \in 1 .. Len(gets) :
            gets[i].id = NextId(i) /\ gets[i].key \in Keys /\ gets[i].by = "library"
  <2>1. CASE ~loads
    <3>1. gets = <<>>
      BY <2>1
    <3> HIDE DEF gets
    <3>2. Len(gets) = 0 /\ gets \in Seq(Message)
      BY <3>1
    <3> QED
      BY <1>2, <3>2 DEF RequestIds
  <2>2. CASE loads
    <3>1. gets = AutomaticGets
      BY <2>2
    <3>2. Len(gets) = Len(Automatic)
      <4>1. AutomaticGets = [i \in 1 .. Len(Automatic) |->
                                Request(NextId(i), Automatic[i], "library")]
        BY DEF AutomaticGets
      <4>2. Len(Automatic) \in Nat
        BY TrackerAssumption
      <4> QED
        BY <3>1, <4>1, <4>2
    <3>3. Len(Automatic) <= MaxUnderWay
      <4>1. Len(Automatic) \in Nat
        BY TrackerAssumption
      <4> HIDE DEF gets
      <4> QED
        BY <1>1, <1>2, <1>3, <3>2, <4>1
    <3> HIDE DEF gets
    <3> QED
      BY <3>1, <3>2, <3>3, Getting, RequestIs
  <2> QED
    BY <2>1, <2>2
<1> HIDE DEF gets
<1>5. \A i \in 1 .. Len(gets) : gets[i].key \in excused'
  BY <1>1, <1>4 DEF ToSet
<1>6. /\ wire' \in Seq(Message) /\ Len(wire') = Len(wire) - 1 + Len(gets)
      /\ \A i \in 1 .. Len(wire) - 1 : wire'[i] = Tail(wire)[i]
      /\ \A i \in 1 .. Len(gets) : wire'[Len(wire) - 1 + i] = gets[i]
  <2>1. /\ Tail(wire) \o gets \in Seq(Message)
        /\ Len(Tail(wire) \o gets) = Len(Tail(wire)) + Len(gets)
        /\ \A i \in 1 .. Len(Tail(wire)) : (Tail(wire) \o gets)[i] = Tail(wire)[i]
        /\ \A i \in 1 .. Len(gets) : (Tail(wire) \o gets)[Len(Tail(wire)) + i] = gets[i]
    BY <1>3, <1>4, Concatenated
  <2> QED
    BY <1>1, <1>3, <2>1
<1>7. Len(gets) \in Nat
  BY <1>4
<1>8. \A i \in 1 .. Len(wire') :
            \/ i \in 1 .. Len(wire) - 1
            \/ \E j \in 1 .. Len(gets) : i = Len(wire) - 1 + j
  <2>1. SUFFICES ASSUME NEW i \in 1 .. Len(wire'), i > Len(wire) - 1
                 PROVE  \E j \in 1 .. Len(gets) : i = Len(wire) - 1 + j
    BY <1>3
  <2>2. /\ i - (Len(wire) - 1) \in 1 .. Len(gets)
        /\ i = Len(wire) - 1 + (i - (Len(wire) - 1))
    BY <1>3, <1>6, <1>7, <2>1
  <2> QED
    BY <2>2
<1>9. /\ Len(wire') <= MaxUnderWay
      /\ \A i \in 1 .. Len(wire) - 1 :
            i \in 1 .. Len(wire') /\ wire'[i] = wire[i + 1] /\ i + 1 \in 1 .. Len(wire)
  BY <1>1, <1>3, <1>6, <1>7
<1>10. Follows(gets)
  BY <1>1, <1>4, <1>5, <1>6, <1>8, <1>9 DEF Follows
<1> QED
  BY <1>10

-----------------------------------------------------------------------------
\* The actions that neither send nor receive.
Still ==
    \/ UNCHANGED vars
    \/ \E k \in Keys : Age(k) \/ Foreign(k)
    \/ Register \/ Reconnect \/ Hook \/ Chunk

LEMMA StillOne ==
    ASSUME Types, Still
    PROVE  UNCHANGED <<counter, wire, excused>>
  BY DEF Still, Age, Foreign, Register, Reconnect, Hook, Chunk, vars, history

LEMMA Steps ==
    ASSUME [Next]_vars
    PROVE  Still \/ RequestList \/ (\E k \in Keys : Ask(k)) \/ \E ok \in BOOLEAN : Answer(ok)
  BY DEF Next, Still

LEMMA TypesStep ==
    ASSUME Types, [Next]_vars
    PROVE  Types'
<1> USE DEF Types
<1>1. CASE UNCHANGED vars
  BY <1>1 DEF vars, connection
<1>2. ASSUME NEW k \in Keys, Ask(k) PROVE Types'
  <2>1. Cleaned(pending) \in [Keys -> Ages]
    BY CleanedType
  <2>2. pending' \in [Keys -> Ages]
    BY <1>2, <2>1 DEF Ask, Ages
  <2>3. /\ counter' \in RequestIds /\ wire' \in Seq(Message)
        /\ Len(wire') <= MaxUnderWay
        /\ registering' = Nothing
           \/ \E id \in RequestIds, l \in Keys : registering' = <<id, l>>
    <3>1. CASE UNCHANGED <<counter, wire, registering>>
      BY <3>1
    <3>2. CASE /\ Len(wire) < MaxUnderWay /\ counter' = NextId(1)
               /\ wire' = Append(wire, Request(NextId(1), k, "ui"))
               /\ registering' = IF k = State THEN Nothing ELSE <<NextId(1), k>>
      <4>1. NextId(1) \in RequestIds /\ Request(NextId(1), k, "ui") \in Message
        BY <3>2, Asking
      <4>2. wire' \in Seq(Message) /\ Len(wire') <= MaxUnderWay
        BY <3>2, <4>1, Appending
      <4> QED
        BY <3>2, <4>1, <4>2
    <3> QED
      BY <1>2, <3>1, <3>2 DEF Ask
  <2> QED
    BY <1>2, <2>2, <2>3 DEF Ask, connection
<1>3. ASSUME NEW k \in Keys, Age(k) \/ Foreign(k) PROVE Types'
  BY <1>3 DEF Age, Foreign, connection, Ages
<1>4. CASE Register
  <2>1. PICK id \in RequestIds, k \in Keys : registering = <<id, k>>
    BY <1>4 DEF Register
  <2>2. ids' = Put(ids, id, k)
    BY <1>4, <2>1 DEF Register
  <2>3. \A i \in DOMAIN ids' : ids'[i] \in Keys
    BY <2>2 DEF Put
  <2> QED
    BY <1>4, <2>3 DEF Register, connection
<1>5. CASE RequestList
  <2>1. wire' \in Seq(Message) /\ Len(wire') <= MaxUnderWay
    BY <1>5, Listing, Appending DEF RequestList
  <2> QED
    BY <1>5, <2>1 DEF RequestList
<1>6. CASE Reconnect \/ Hook
  <2>1. MaxConnections \in Nat
    BY TrackerAssumption
  <2>2. conn' \in 1 .. MaxConnections
    BY <1>6, <2>1 DEF Reconnect, Hook
  <2>3. UNCHANGED <<counter, wire, pending, ids, registering>>
    BY <1>6 DEF Reconnect, Hook
  <2> QED
    BY <2>2, <2>3
<1>7. CASE Chunk
  BY <1>7, ExtendedType DEF Chunk, connection
<1>8. ASSUME NEW ok \in BOOLEAN, Answer(ok) PROVE Types'
  <2>1. PICK gets : Follows(gets)
    BY <1>8, Answering
  <2>2. counter' \in RequestIds /\ wire' \in Seq(Message) /\ Len(wire') <= MaxUnderWay
    BY <2>1, Advance DEF Follows
  <2>3. Extended(Head(wire).id) \in [Keys -> Ages]
    BY ExtendedType
  <2>4. pending' \in [Keys -> Ages]
    BY <1>8, <2>3 DEF Answer, Cleared, Ages
  <2>5. \A i \in DOMAIN ids' : ids'[i] \in Keys
    BY <1>8 DEF Answer, Untracked, Restrict
  <2> QED
    BY <1>8, <2>2, <2>4, <2>5 DEF Answer, connection
<1> QED
  BY <1>1, <1>2, <1>3, <1>4, <1>5, <1>6, <1>7, <1>8 DEF Next

-----------------------------------------------------------------------------
LEMMA OrderedStep ==
    ASSUME Types, Types', Ordered(wire, counter), [Next]_vars
    PROVE  Ordered(wire, counter)'
<1>0. /\ wire \in Seq(Message) /\ wire' \in Seq(Message) /\ counter \in RequestIds
      /\ Len(wire) \in Nat /\ Len(wire') < NumIds
  BY TrackerAssumption DEF Types
<1>1. CASE UNCHANGED <<counter, wire>>
  BY <1>1 DEF Ordered, Ago
<1>2. ASSUME NEW k \in Keys, Ask(k) PROVE Ordered(wire', counter')
  <2>1. CASE /\ Len(wire) < MaxUnderWay /\ counter' = NextId(1)
             /\ wire' = Append(wire, Request(NextId(1), k, "ui"))
    <3>1. 1 \in RequestIds /\ Request(NextId(1), k, "ui") \in Message
      BY <2>1, Asking
    <3>2. /\ Len(wire') = Len(wire) + 1
          /\ \A i \in 1 .. Len(wire) : wire'[i] = wire[i]
          /\ wire'[Len(wire) + 1] = Request(NextId(1), k, "ui")
      BY <2>1, <3>1, Appending
    <3>3. \A i \in 1 .. 1 : wire'[Len(wire) + i].id = NextId(i)
      <4>1. \A i \in 1 .. 1 : i = 1
        OBVIOUS
      <4> QED
        BY <3>2, <4>1, RequestIs
    <3> QED
      BY <1>0, <2>1, <3>1, <3>2, <3>3, OrderedSend
  <2>2. CASE UNCHANGED <<counter, wire>>
    BY <2>2
  <2> QED
    BY <1>2, <2>1, <2>2 DEF Ask
<1>3. CASE RequestList
  <2>1. /\ Len(wire') = Len(wire) + 1
        /\ \A i \in 1 .. Len(wire) : wire'[i] = wire[i]
        /\ wire'[Len(wire) + 1] = Request(0, ResourceList, "library")
        /\ \A i \in 1 .. Len(wire') : i \in 1 .. Len(wire) \/ i = Len(wire) + 1
    BY <1>3, Listing, Appending DEF RequestList
  <2>2. counter' = counter
    BY <1>3 DEF RequestList
  <2>3. \A i \in 1 .. Len(wire') : wire'[i].key # ResourceList => i \in 1 .. Len(wire)
    BY <2>1, RequestIs
  <2>4. ASSUME NEW i \in 1 .. Len(wire'), wire'[i].key # ResourceList
        PROVE  /\ Ago(wire'[i].id, counter) <= Len(wire') - i
               /\ \A j \in 1 .. Len(wire') : i < j /\ wire'[j].key # ResourceList
                    => Ago(wire'[i].id, counter) > Ago(wire'[j].id, counter)
    <3>1. i \in 1 .. Len(wire) /\ wire'[i] = wire[i] /\ wire[i].id \in RequestIds
      BY <1>0, <2>1, <2>3, <2>4, InSequence
    <3>2. Ago(wire[i].id, counter) \in Nat /\ Ago(wire[i].id, counter) <= Len(wire) - i
      BY <1>0, <2>4, <3>1, AgoType DEF Ordered
    <3>3. ASSUME NEW j \in 1 .. Len(wire'), i < j, wire'[j].key # ResourceList
          PROVE  Ago(wire'[i].id, counter) > Ago(wire'[j].id, counter)
      <4>1. j \in 1 .. Len(wire) /\ wire'[j] = wire[j]
        BY <2>1, <2>3, <3>3
      <4> QED
        BY <2>4, <3>1, <3>3, <4>1 DEF Ordered
    <3>4. Ago(wire'[i].id, counter) <= Len(wire') - i
      BY <1>0, <2>1, <3>1, <3>2
    <3> QED
      BY <3>3, <3>4
  <2> QED
    BY <2>2, <2>4 DEF Ordered
<1>4. ASSUME NEW ok \in BOOLEAN, Answer(ok) PROVE Ordered(wire', counter')
  <2>1. wire # <<>>
    BY <1>4 DEF Answer
  <2>2. PICK gets : Follows(gets)
    BY <1>4, Answering
  <2> DEFINE w == Tail(wire)
  <2>3. /\ w \in Seq(Message) /\ Len(w) = Len(wire) - 1 /\ Ordered(w, counter)
        /\ \A i \in 1 .. Len(w) : w[i] = wire[i + 1]
    BY <1>0, <2>1, Tails, OrderedTail
  <2> HIDE DEF w
  <2>4. /\ Len(gets) \in RequestIds /\ counter' = NextId(Len(gets))
        /\ Len(wire') = Len(w) + Len(gets)
        /\ \A i \in 1 .. Len(w) : wire'[i] = w[i]
        /\ \A i \in 1 .. Len(gets) : wire'[Len(w) + i].id = NextId(i)
    BY <2>2, <2>3 DEF Follows
  <2> QED
    BY <1>0, <2>3, <2>4, OrderedSend
<1> QED
  BY <1>1, <1>2, <1>3, <1>4, Steps, StillOne

-----------------------------------------------------------------------------
LEMMA BlockedStep ==
    ASSUME Types, Types', Blocked, Once, [Next]_vars
    PROVE  Blocked'
<1> DEFINE Is(i) ==
        IF wire[i].by = "library" THEN wire[i].key \in excused \cup {ResourceList}
        ELSE wire[i].key \in Keys /\ (wire[i].key \in excused \/ pending[wire[i].key] # "none")
           Then(i) ==
        IF wire'[i].by = "library" THEN wire'[i].key \in excused' \cup {ResourceList}
        ELSE /\ wire'[i].key \in Keys
             /\ wire'[i].key \in excused' \/ pending'[wire'[i].key] # "none"
<1>1. /\ Len(wire) \in Nat /\ pending \in [Keys -> Ages]
      /\ \A i \in 1 .. Len(wire) : wire[i].by \in {"ui", "library"}
  BY WireType
<1>2. ASSUME excused \subseteq excused',
             \A k \in Keys : k \in excused \/ pending[k] # "none"
                => k \in excused' \/ pending'[k] # "none",
             NEW i \in 1 .. Len(wire), wire'[i] = wire[i]
      PROVE  Then(i)
  BY <1>2 DEF Blocked
<1>3. ASSUME UNCHANGED <<wire, excused>>,
             \A k \in Keys : pending[k] # "none" => pending'[k] # "none"
      PROVE  Blocked'
  BY <1>2, <1>3 DEF Blocked
<1>4. CASE UNCHANGED vars
  BY <1>4 DEF vars, history, Blocked
<1>5. ASSUME NEW k \in Keys, Ask(k) PROVE Blocked'
  <2>1. /\ excused' = excused \cup {l \in Keys : pending[l] = "late"}
        /\ \A l \in Keys : pending'[l] = Cleaned(pending)[l] \/ pending'[l] = "fresh"
        /\ \A l \in Keys : Cleaned(pending)[l] =
                IF pending[l] = "late" THEN "none" ELSE pending[l]
    BY <1>5, CleanedType DEF Ask
  <2>2. /\ excused \subseteq excused'
        /\ \A l \in Keys : l \in excused \/ pending[l] # "none"
                => l \in excused' \/ pending'[l] # "none"
    BY <2>1
  <2>3. CASE UNCHANGED wire
    BY <1>2, <2>2, <2>3 DEF Blocked
  <2>4. CASE /\ Len(wire) < MaxUnderWay
             /\ wire' = Append(wire, Request(NextId(1), k, "ui"))
             /\ pending' = [Cleaned(pending) EXCEPT ![k] = "fresh"]
    <3>1. /\ \A i \in 1 .. Len(wire) : wire'[i] = wire[i]
          /\ wire'[Len(wire) + 1] = Request(NextId(1), k, "ui")
          /\ \A i \in 1 .. Len(wire') : i \in 1 .. Len(wire) \/ i = Len(wire) + 1
      BY <2>4, Asking, Appending
    <3>2. wire'[Len(wire) + 1].key = k /\ wire'[Len(wire) + 1].by = "ui"
      BY <3>1, RequestIs
    <3>3. pending'[k] # "none"
      BY <2>4, CleanedType
    <3>4. \A i \in 1 .. Len(wire) : Then(i)
      BY <1>2, <2>2, <3>1
    <3> QED
      BY <3>1, <3>2, <3>3, <3>4 DEF Blocked
  <2> QED
    BY <1>5, <2>3, <2>4 DEF Ask
<1>6. ASSUME NEW k \in Keys, Age(k) \/ Foreign(k) PROVE Blocked'
  BY <1>1, <1>3, <1>6 DEF Age, Foreign, history
<1>7. CASE Register \/ Reconnect \/ Hook
  BY <1>3, <1>7 DEF Register, Reconnect, Hook, history
<1>8. CASE Chunk
  BY <1>3, <1>8, ExtendedType DEF Chunk, history
<1>9. CASE RequestList
  <2>1. /\ \A i \in 1 .. Len(wire) : wire'[i] = wire[i]
        /\ wire'[Len(wire) + 1] = Request(0, ResourceList, "library")
        /\ \A i \in 1 .. Len(wire') : i \in 1 .. Len(wire) \/ i = Len(wire) + 1
    BY <1>9, Listing, Appending DEF RequestList
  <2>2. pending' = pending /\ excused' = excused
    BY <1>9 DEF RequestList, history
  <2>3. wire'[Len(wire) + 1].key = ResourceList /\ wire'[Len(wire) + 1].by = "library"
    BY <2>1, RequestIs
  <2>4. \A i \in 1 .. Len(wire) : Then(i)
    BY <1>2, <2>1, <2>2
  <2> QED
    BY <2>1, <2>3, <2>4 DEF Blocked
<1>10. ASSUME NEW ok \in BOOLEAN, Answer(ok) PROVE Blocked'
  <2> DEFINE m == Head(wire)
             heard == Heard(m.id, ok)
  <2>1. PICK gets : Follows(gets)
    BY <1>10, Answering
  <2>2. m = wire[1] /\ 1 \in 1 .. Len(wire)
    BY <1>10, Tails DEF Answer, Types
  <2>3. /\ excused \subseteq excused' /\ heard \ {m.key} \subseteq excused'
        /\ pending' = Cleared(Extended(m.id), heard)
    BY <1>10 DEF Answer
  <2>4. ResourceList \notin heard
    BY HeardType
  <2> HIDE DEF heard
  <2>5. \A k \in Keys : k \notin heard /\ pending[k] # "none" => pending'[k] # "none"
    BY <2>3, ExtendedType DEF Cleared
  <2>6. ASSUME NEW i \in 1 .. Len(wire) - 1, wire[i + 1].by = "ui",
               wire[i + 1].key \in heard
        PROVE  wire[i + 1].key \in excused'
    <3>1. SUFFICES ASSUME wire[i + 1].key = m.key, m.key \notin excused PROVE FALSE
      BY <2>3, <2>6
    <3>2. i + 1 \in 1 .. Len(wire) /\ i + 1 # 1
      BY <2>1 DEF Follows
    <3>3. m.by = "ui" /\ m.key \in Keys
      BY <1>1, <2>2, <2>4, <2>6, <3>1 DEF Blocked
    <3>4. 1 \in Requests(m.key) /\ i + 1 \in Requests(m.key)
      BY <2>2, <2>6, <3>1, <3>2, <3>3 DEF Requests
    <3> QED
      BY <3>1, <3>2, <3>3, <3>4 DEF Once
  <2>7. ASSUME NEW i \in 1 .. Len(wire) - 1
        PROVE  Then(i)
    <3>1. wire'[i] = wire[i + 1] /\ i + 1 \in 1 .. Len(wire) /\ wire[i + 1].by \in {"ui", "library"}
      BY <1>1, <2>1 DEF Follows
    <3>2. Is(i + 1)
      BY <3>1 DEF Blocked
    <3> QED
      BY <2>3, <2>5, <2>6, <3>1, <3>2
  <2>8. ASSUME NEW j \in 1 .. Len(gets)
        PROVE  Then(Len(wire) - 1 + j)
    BY <2>1 DEF Follows
  <2>9. \A i \in 1 .. Len(wire') : Then(i)
    BY <2>1, <2>7, <2>8 DEF Follows
  <2> QED
    BY <2>9 DEF Blocked
<1> QED
  BY <1>4, <1>5, <1>6, <1>7, <1>8, <1>9, <1>10 DEF Next

LEMMA OnceStep ==
    ASSUME Types, Types', Blocked, Once, [Next]_vars
    PROVE  Once'
<1>1. Len(wire) \in Nat /\ pending \in [Keys -> Ages]
  BY WireType
<1>2. ASSUME excused \subseteq excused', \A l \in Keys : Requests(l)' \subseteq Requests(l)
      PROVE  Once'
  BY <1>2 DEF Once
<1>3. CASE Still
  BY <1>2, <1>3, StillOne DEF Requests
<1>4. ASSUME NEW k \in Keys, Ask(k) PROVE Once'
  <2>1. excused' = excused \cup {l \in Keys : pending[l] = "late"}
    BY <1>4 DEF Ask
  <2>2. CASE UNCHANGED wire
    BY <1>2, <2>1, <2>2 DEF Requests
  <2>3. CASE /\ Len(wire) < MaxUnderWay
             /\ wire' = Append(wire, Request(NextId(1), k, "ui"))
             /\ Cleaned(pending)[k] = "none"
    <3>1. /\ \A i \in 1 .. Len(wire) : wire'[i] = wire[i]
          /\ wire'[Len(wire) + 1] = Request(NextId(1), k, "ui")
          /\ \A i \in 1 .. Len(wire') : i \in 1 .. Len(wire) \/ i = Len(wire) + 1
      BY <2>3, Asking, Appending
    <3>2. wire'[Len(wire) + 1].key = k
      BY <3>1, RequestIs
    <3>3. \A l \in Keys : Requests(l)' \subseteq Requests(l) \cup {Len(wire) + 1}
      BY <3>1 DEF Requests
    <3>4. \A l \in Keys : l # k => Requests(l)' \subseteq Requests(l)
      BY <3>1, <3>2 DEF Requests
    <3>5. k \notin excused' => Requests(k) = {}
      <4>1. SUFFICES ASSUME k \notin excused', NEW i \in Requests(k) PROVE FALSE
        OBVIOUS
      <4>2. k \notin excused /\ pending[k] = "none"
        BY <2>1, <2>3, <4>1, CleanedType
      <4> QED
        BY <4>2 DEF Blocked, Requests
    <3>6. k \notin excused' => \A i, j \in Requests(k)' : i = j
      BY <3>3, <3>5
    <3>7. \A l \in Keys \ excused' : l # k => \A i, j \in Requests(l)' : i = j
      BY <2>1, <3>4 DEF Once
    <3> QED
      BY <3>6, <3>7 DEF Once
  <2> QED
    BY <1>4, <2>2, <2>3 DEF Ask
<1>5. CASE RequestList
  <2>1. /\ \A i \in 1 .. Len(wire) : wire'[i] = wire[i]
        /\ wire'[Len(wire) + 1] = Request(0, ResourceList, "library")
        /\ \A i \in 1 .. Len(wire') : i \in 1 .. Len(wire) \/ i = Len(wire) + 1
    BY <1>5, Listing, Appending DEF RequestList
  <2>2. wire'[Len(wire) + 1].by # "ui"
    BY <2>1, RequestIs
  <2>3. \A l \in Keys : Requests(l)' \subseteq Requests(l)
    BY <2>1, <2>2 DEF Requests
  <2> QED
    BY <1>2, <1>5, <2>3 DEF RequestList, history
<1>6. ASSUME NEW ok \in BOOLEAN, Answer(ok) PROVE Once'
  <2>1. PICK gets : Follows(gets)
    BY <1>6, Answering
  <2>2. \A l \in Keys : \A i \in Requests(l)' : i + 1 \in Requests(l) /\ i \in Int
    BY <2>1 DEF Requests, Follows
  <2>3. excused \subseteq excused'
    BY <1>6 DEF Answer
  <2>4. ASSUME NEW l \in Keys \ excused', NEW i \in Requests(l)', NEW j \in Requests(l)'
        PROVE  i = j
    <3>1. i + 1 = j + 1
      BY <2>2, <2>3 DEF Once
    <3> QED
      BY <2>2, <3>1
  <2> QED
    BY <2>4 DEF Once
<1> QED
  BY <1>3, <1>4, <1>5, <1>6, Steps

-----------------------------------------------------------------------------
\* Where a request of the user was and is not answered now, it still is.
LEMMA StaysUnderWay ==
    ASSUME Types, NEW ok \in BOOLEAN, Answer(ok), NEW k \in Keys, NEW i \in Requests(k),
           ~(Head(wire).key = k /\ Head(wire).by = "ui")
    PROVE  i - 1 \in Requests(k)' /\ wire'[i - 1].id = wire[i].id
<1>1. PICK gets : Follows(gets)
  BY Answering
<1>2. Head(wire) = wire[1] /\ Len(wire) \in Nat
  BY Tails DEF Answer, Types
<1>3. i \in 1 .. Len(wire) /\ i # 1
  BY <1>2 DEF Requests
<1>4. i - 1 \in 1 .. Len(wire) - 1 /\ (i - 1) + 1 = i
  BY <1>2, <1>3
<1>5. wire'[i - 1] = wire[i] /\ i - 1 \in 1 .. Len(wire')
  BY <1>1, <1>4 DEF Follows
<1> QED
  BY <1>5 DEF Requests

LEMMA AwaitedStep ==
    ASSUME Types, Types', PendingIsAwaited, [Next]_vars
    PROVE  PendingIsAwaited'
<1>1. Len(wire) \in Nat /\ pending \in [Keys -> Ages]
  BY WireType
<1>2. ASSUME UNCHANGED missed, \A k \in Keys : Requests(k) \subseteq Requests(k)',
             \A k \in Keys : pending'[k] # "none" =>
                pending[k] # "none" \/ Requests(k)' # {}
      PROVE  PendingIsAwaited'
  BY <1>2 DEF PendingIsAwaited
<1>3. ASSUME UNCHANGED wire PROVE \A k \in Keys : Requests(k)' = Requests(k)
  BY <1>3 DEF Requests
<1>4. CASE UNCHANGED vars
  BY <1>2, <1>3, <1>4 DEF vars, history
<1>5. ASSUME NEW k \in Keys, Ask(k) PROVE PendingIsAwaited'
  <2>1. /\ \A l \in Keys : Cleaned(pending)[l] # "none" => pending[l] # "none"
        /\ Cleaned(pending) \in [Keys -> Ages]
    BY CleanedType
  <2>2. missed' = missed
    BY <1>5 DEF Ask
  <2>3. CASE UNCHANGED wire /\ pending' = Cleaned(pending)
    BY <1>2, <1>3, <2>1, <2>2, <2>3
  <2>4. CASE /\ Len(wire) < MaxUnderWay
             /\ wire' = Append(wire, Request(NextId(1), k, "ui"))
             /\ pending' = [Cleaned(pending) EXCEPT ![k] = "fresh"]
    <3>1. /\ Len(wire') = Len(wire) + 1
          /\ \A i \in 1 .. Len(wire) : i \in 1 .. Len(wire') /\ wire'[i] = wire[i]
          /\ wire'[Len(wire) + 1] = Request(NextId(1), k, "ui")
      BY <2>4, Asking, Appending
    <3>2. wire'[Len(wire) + 1].key = k /\ wire'[Len(wire) + 1].by = "ui"
      BY <3>1, RequestIs
    <3>3. \A l \in Keys : Requests(l) \subseteq Requests(l)'
      BY <3>1 DEF Requests
    <3>4. Len(wire) + 1 \in Requests(k)'
      BY <1>1, <3>1, <3>2 DEF Requests
    <3>5. \A l \in Keys : l # k => pending'[l] = Cleaned(pending)[l]
      BY <2>1, <2>4
    <3> QED
      BY <1>2, <2>1, <2>2, <3>3, <3>4, <3>5
  <2> QED
    BY <1>5, <2>3, <2>4 DEF Ask
<1>6. ASSUME NEW k \in Keys, Age(k) \/ Foreign(k) PROVE PendingIsAwaited'
  <2>1. /\ UNCHANGED <<wire, missed>> /\ pending[k] # "none"
        /\ \A l \in Keys : l # k => pending'[l] = pending[l]
    BY <1>1, <1>6 DEF Age, Foreign, history
  <2> QED
    BY <1>2, <1>3, <2>1
<1>7. CASE Register \/ Reconnect \/ Hook
  BY <1>2, <1>3, <1>7 DEF Register, Reconnect, Hook, history
<1>8. CASE Chunk
  BY <1>2, <1>3, <1>8, ExtendedType DEF Chunk, history
<1>9. CASE RequestList
  <2>1. \A i \in 1 .. Len(wire) : i \in 1 .. Len(wire') /\ wire'[i] = wire[i]
    BY <1>9, Listing, Appending DEF RequestList
  <2>2. \A l \in Keys : Requests(l) \subseteq Requests(l)'
    BY <2>1 DEF Requests
  <2> QED
    BY <1>2, <1>9, <2>2 DEF RequestList, history
<1>10. ASSUME NEW ok \in BOOLEAN, Answer(ok) PROVE PendingIsAwaited'
  <2> DEFINE m == Head(wire)
             heard == Heard(m.id, ok)
  <2>1. /\ pending' = Cleared(Extended(m.id), heard)
        /\ missed' = (missed \ heard) \cup (IF m.by = "ui" THEN {m.key} \ heard ELSE {})
    BY <1>10 DEF Answer
  <2> HIDE DEF heard
  <2>2. \A k \in Keys : pending'[k] # "none" => k \notin heard /\ pending[k] # "none"
    BY <2>1, ExtendedType DEF Cleared
  <2>3. ASSUME NEW k \in Keys \ missed', pending'[k] # "none" PROVE Requests(k)' # {}
    <3>1. k \notin missed /\ ~(m.key = k /\ m.by = "ui") /\ pending[k] # "none"
      BY <2>1, <2>2, <2>3
    <3>2. PICK i \in Requests(k) : TRUE
      BY <3>1 DEF PendingIsAwaited
    <3> QED
      BY <1>10, <3>1, <3>2, StaysUnderWay
  <2> QED
    BY <2>3 DEF PendingIsAwaited
<1> QED
  BY <1>4, <1>5, <1>6, <1>7, <1>8, <1>9, <1>10 DEF Next

LEMMA TrackedStep ==
    ASSUME Types, Types', TrackedIsUnderWay, [Next]_vars
    PROVE  TrackedIsUnderWay'
<1> DEFINE In(w, id, k) ==
            \E i \in 1 .. Len(w) : w[i].key = k /\ w[i].by = "ui" /\ w[i].id = id
           Under(id, k) == In(wire, id, k)
           StillUnder(id, k) == In(wire', id, k)
<1>0. \A id \in DOMAIN ids : ids[id] \notin missed \cup raced => Under(id, ids[id])
  BY DEF TrackedIsUnderWay, Requests
<1>1. ASSUME \A id \in DOMAIN ids' : ids'[id] \notin missed' \cup raced'
                => StillUnder(id, ids'[id])
      PROVE  TrackedIsUnderWay'
  BY <1>1 DEF TrackedIsUnderWay, Requests
<1>2. ASSUME UNCHANGED <<ids, missed, raced>>,
             \A i \in 1 .. Len(wire) : i \in 1 .. Len(wire') /\ wire'[i] = wire[i]
      PROVE  TrackedIsUnderWay'
  <2>1. \A id, k : Under(id, k) => StillUnder(id, k)
    BY <1>2
  <2> HIDE DEF Under, StillUnder
  <2> QED
    BY <1>0, <1>1, <1>2, <2>1
<1>3. CASE UNCHANGED <<wire, ids, missed, raced>>
  BY <1>2, <1>3
<1>4. ASSUME NEW k \in Keys, Ask(k) PROVE TrackedIsUnderWay'
  <2>1. UNCHANGED <<ids, missed, raced>>
    BY <1>4 DEF Ask
  <2>2. CASE UNCHANGED wire
    BY <1>3, <2>1, <2>2
  <2>3. CASE /\ Len(wire) < MaxUnderWay
             /\ wire' = Append(wire, Request(NextId(1), k, "ui"))
    <3>1. \A i \in 1 .. Len(wire) : i \in 1 .. Len(wire') /\ wire'[i] = wire[i]
      BY <2>3, Asking, Appending
    <3> QED
      BY <1>2, <2>1, <3>1
  <2> QED
    BY <1>4, <2>2, <2>3 DEF Ask
<1>5. CASE RequestList
  <2>1. \A i \in 1 .. Len(wire) : i \in 1 .. Len(wire') /\ wire'[i] = wire[i]
    BY <1>5, Listing, Appending DEF RequestList
  <2> QED
    BY <1>2, <1>5, <2>1 DEF RequestList, history
<1>6. CASE Register
  <2>1. PICK id \in RequestIds, k \in Keys : registering = <<id, k>>
    BY <1>6 DEF Register, Types
  <2>2. registering[1] = id /\ registering[2] = k
    BY <2>1
  <2>3. /\ UNCHANGED <<wire, missed>>
        /\ ids' = Put(ids, id, k)
        /\ raced' = IF \E i \in Requests(k) : wire[i].id = id THEN raced
                    ELSE raced \cup {k}
    BY <1>6, <2>2 DEF Register
  <2>4. \A j, l : StillUnder(j, l) <=> Under(j, l)
    BY <2>3
  <2>5. k \notin raced' => Under(id, k)
    BY <2>3 DEF Requests
  <2>6. DOMAIN ids' = DOMAIN ids \cup {id} /\ ids'[id] = k
        /\ \A j \in DOMAIN ids : j # id => ids'[j] = ids[j]
    BY <2>3 DEF Put
  <2>7. raced \subseteq raced'
    BY <2>3
  <2> HIDE DEF Under, StillUnder
  <2> QED
    BY <1>0, <1>1, <2>3, <2>4, <2>5, <2>6, <2>7
<1>7. ASSUME NEW ok \in BOOLEAN, Answer(ok) PROVE TrackedIsUnderWay'
  <2> DEFINE m == Head(wire)
             heard == Heard(m.id, ok)
  <2>1. /\ ids' = Untracked(heard) /\ raced' = raced \ heard
        /\ missed' = (missed \ heard) \cup (IF m.by = "ui" THEN {m.key} \ heard ELSE {})
    BY <1>7 DEF Answer
  <2> HIDE DEF heard
  <2>2. \A id \in DOMAIN ids' :
            id \in DOMAIN ids /\ ids'[id] = ids[id] /\ ids[id] \notin heard
    BY <2>1 DEF Untracked, Restrict
  <2>3. ASSUME NEW id \in DOMAIN ids', ids'[id] \notin missed' \cup raced'
        PROVE  StillUnder(id, ids'[id])
    <3>0. PICK k : k = ids[id]
      OBVIOUS
    <3>1. /\ k \notin missed \cup raced /\ ~(m.key = k /\ m.by = "ui")
          /\ id \in DOMAIN ids /\ ids'[id] = k
      BY <2>1, <2>2, <2>3, <3>0
    <3>2. k \in Keys
      BY <3>0, <3>1 DEF Types
    <3>3. PICK i \in Requests(k) : wire[i].id = id
      BY <1>0, <3>0, <3>1 DEF Requests
    <3>4. i - 1 \in Requests(k)' /\ wire'[i - 1].id = id
      BY <1>7, <3>1, <3>2, <3>3, StaysUnderWay
    <3>5. StillUnder(id, k)
      BY <3>4 DEF Requests
    <3> QED
      BY <3>1, <3>5
  <2> QED
    BY <1>1, <2>3
<1>8. CASE UNCHANGED vars \/ Reconnect \/ Hook \/ Chunk \/ \E k \in Keys : Age(k) \/ Foreign(k)
  BY <1>3, <1>8 DEF vars, history, Reconnect, Hook, Chunk, Age, Foreign
<1> QED
  BY <1>4, <1>5, <1>6, <1>7, <1>8 DEF Next

-----------------------------------------------------------------------------
LEMMA Initially == Init => Inductive
<1> SUFFICES ASSUME Init PROVE Inductive
  OBVIOUS
<1>1. wire = <<>> /\ Len(wire) = 0 /\ ids = <<>> /\ DOMAIN ids = {}
  BY DEF Init
<1>2. Types
  <2>1. MaxConnections \in Nat \ {0} /\ MaxUnderWay \in Nat
    BY TrackerAssumption
  <2>2. wire \in Seq(Message) /\ Len(wire) <= MaxUnderWay
    BY <1>1, <2>1
  <2>3. conn \in 1 .. MaxConnections /\ counter \in RequestIds
    BY <2>1 DEF Init
  <2>4. pending \in [Keys -> Ages] /\ registering = Nothing
    BY DEF Init, Ages
  <2> QED
    BY <1>1, <2>2, <2>3, <2>4 DEF Types
<1>3. \A k : Requests(k) = {}
  BY <1>1 DEF Requests
<1>4. Ordered(wire, counter) /\ Blocked
  BY <1>1 DEF Ordered, Blocked
<1>5. Once /\ PendingIsAwaited
  BY <1>3 DEF Init, Once, PendingIsAwaited
<1>6. TrackedIsUnderWay
  BY <1>1 DEF TrackedIsUnderWay
<1> QED
  BY <1>2, <1>4, <1>5, <1>6 DEF Inductive, NothingIsLeft

LEMMA Always == Spec => []Inductive
<1>1. Inductive /\ [Next]_vars => Inductive'
  <2> SUFFICES ASSUME Inductive, [Next]_vars PROVE Inductive'
    OBVIOUS
  <2> USE DEF Inductive, NothingIsLeft
  <2>1. Types'
    BY TypesStep
  <2>2. Ordered(wire, counter)' /\ Blocked' /\ Once'
    BY <2>1, OrderedStep, BlockedStep, OnceStep
  <2>3. PendingIsAwaited' /\ TrackedIsUnderWay'
    BY <2>1, AwaitedStep, TrackedStep
  <2> QED
    BY <2>1, <2>2, <2>3
<1> QED
  BY <1>1, Initially, PTL DEF Spec

\* One request of the user is under way for a key, with the exceptions that
\* OneUnderWay names, and no two requests have the same id from the counter,
\* wherever it starts and however often its 8 bits have come round, as long as
\* fewer requests than ids are under way.
THEOREM OneAtATime == Spec => []OneUnderWay
<1>1. Inductive => OneUnderWay
  <2> SUFFICES ASSUME Inductive PROVE OneUnderWay
    OBVIOUS
  <2>1. \A i, j \in 1 .. Len(wire) :
            /\ wire[i].key # ResourceList /\ wire[j].key # ResourceList
            /\ wire[i].id = wire[j].id
            => i = j
    BY Distinct DEF Inductive
  <2> QED
    BY <2>1 DEF Inductive, Once, OneUnderWay
<1> QED
  BY <1>1, Always, PTL

\* What MidiCIManager has heard the answer of leaves neither an entry nor a
\* tracked id, so no later message extends an entry by a request id that came
\* round; also where answers are matched to another request with their id.
THEOREM NothingIsKept == Spec => []NothingIsLeft
<1>1. Inductive => NothingIsLeft
  BY DEF Inductive
<1> QED
  BY <1>1, Always, PTL
=============================================================================
