---------------------- MODULE PropertySubscription_proofs ----------------------
(***************************************************************************)
(* Proofs about PropertySubscription, for any devices, properties and      *)
(* scenarios.  What a client d, a host p and the lines between them hold   *)
(* of a property x is explained by a history: what the requests of d were, *)
(* which ids the host gave to its starts, and how far host and client have *)
(* come in taking requests and replies.  Every state has such a history    *)
(* (Sound), and what the history says of a line without messages, or of an *)
(* entry that is Subscribed, are the properties.                           *)
(***************************************************************************)
EXTENDS PropertySubscription, FiniteSetTheorems, SequenceTheorems,
        WellFoundedInduction, TLAPS

-----------------------------------------------------------------------------
\* Lists and places in them.

LEMMA LeastOf ==
    ASSUME NEW S \in SUBSET Nat, S # {}
    PROVE  \E c \in S : \A d \in S : c <= d
<1>1. PICK c \in S : \A d \in S : <<d, c>> \notin OpToRel(<, Nat)
  BY NatLessThanWellFounded, WFMin
<1>2. ASSUME NEW d \in S PROVE c <= d
  <2>1. ~(d < c)
    BY <1>1 DEF OpToRel
  <2> QED
    BY <2>1
<1> QED
  BY <1>2

\* Rank numbers the elements of a set without gaps.
LEMMA RankIs ==
    ASSUME NEW n \in Nat, NEW I \in SUBSET (1 .. n)
    PROVE  /\ Cardinality(I) \in Nat
           /\ \A i \in I : Rank(I, i) \in 1 .. Cardinality(I)
           /\ \A i, j \in I : Rank(I, i) = Rank(I, j) => i = j
           /\ \A m \in 1 .. Cardinality(I) : \E i \in I : Rank(I, i) = m
<1> DEFINE Up(i) == {j \in I : j <= i}
           size == Cardinality(I)
<1>1. IsFiniteSet(I) /\ size \in Nat
  <2>1. IsFiniteSet(1 .. n)
    BY FS_Interval
  <2>2. IsFiniteSet(I)
    BY <2>1, FS_Subset
  <2> QED
    BY <2>2, FS_CardinalityType
<1>2. ASSUME NEW i \in I
      PROVE  IsFiniteSet(Up(i)) /\ Cardinality(Up(i)) \in 1 .. size
  <2> DEFINE U == Up(i)
  <2>1. IsFiniteSet(U) /\ Cardinality(U) <= size
    BY <1>1, FS_Subset
  <2>2. i \in U
    <3>1. i \in 1 .. n /\ i <= i
      OBVIOUS
    <3> QED
      BY <3>1
  <2> HIDE DEF U
  <2>3. Cardinality(U) \in Nat /\ Cardinality(U) # 0
    BY <2>1, <2>2, FS_CardinalityType, FS_EmptySet
  <2>4. IsFiniteSet(U) /\ Cardinality(U) \in 1 .. size
    BY <1>1, <2>1, <2>3
  <2> QED
    BY <2>4 DEF U
<1>3. ASSUME NEW i \in I, NEW j \in I, i < j PROVE Cardinality(Up(i)) # Cardinality(Up(j))
  <2>1. Up(i) \in SUBSET Up(j)
    <3>1. \A k \in 1 .. n : k <= i => k <= j
      BY <1>3
    <3> QED
      BY <3>1
  <2>2. j \in Up(j) /\ j \notin Up(i)
    <3>1. j \in 1 .. n /\ j <= j /\ ~(j <= i)
      BY <1>3
    <3> QED
      BY <3>1
  <2>3. IsFiniteSet(Up(j))
    BY <1>2
  <2> HIDE DEF Up
  <2> QED
    BY <2>1, <2>2, <2>3, FS_Subset
<1>4. \A i \in I : Rank(I, i) = Cardinality(Up(i))
  BY DEF Rank
<1> HIDE DEF Up
<1>5. \A i, j \in I : Rank(I, i) = Rank(I, j) => i = j
  <2> SUFFICES ASSUME NEW i \in I, NEW j \in I, Rank(I, i) = Rank(I, j) PROVE i = j
    OBVIOUS
  <2>1. ~(i < j) /\ ~(j < i)
    BY <1>3, <1>4
  <2> QED
    BY <2>1
<1>6. \A i \in I : Rank(I, i) \in 1 .. size
  BY <1>2, <1>4
<1> DEFINE f == [i \in I |-> Rank(I, i)]
<1>7. f \in Injection(I, 1 .. size)
  BY <1>5, <1>6 DEF Injection, IsInjective
<1>8. IsFiniteSet(1 .. size) /\ Cardinality(1 .. size) = size
  <2>1. 1 \in Int /\ size \in Int /\ size - 1 + 1 = size /\ (1 > size => size = 0)
    BY <1>1
  <2> HIDE DEF size
  <2> QED
    BY <2>1, FS_Interval
<1>9. f \in Surjection(I, 1 .. size)
  BY <1>7, <1>8, FS_Injection DEF size
<1>10. \A m \in 1 .. size : \E i \in I : Rank(I, i) = m
  BY <1>9 DEF Surjection
<1> QED
  BY <1>1, <1>5, <1>6, <1>10

LEMMA PickedIs ==
    ASSUME NEW S, NEW list \in Seq(S), NEW I \in SUBSET (1 .. Len(list))
    PROVE  /\ Picked(list, I) \in Seq(S)
           /\ \A n \in 1 .. Len(Picked(list, I)) :
                \E i \in I : Picked(list, I)[n] = list[i] /\ Rank(I, i) = n
           /\ \A i \in I :
                \E n \in 1 .. Len(Picked(list, I)) : Picked(list, I)[n] = list[i]
<1> DEFINE p == Picked(list, I)
           size == Cardinality(I)
           At(n) == CHOOSE i \in I : Rank(I, i) = n
<1>1. /\ size \in Nat
      /\ \A i \in I : Rank(I, i) \in 1 .. size
      /\ \A i, j \in I : Rank(I, i) = Rank(I, j) => i = j
      /\ \A m \in 1 .. size : \E i \in I : Rank(I, i) = m
  BY RankIs, LenProperties
<1>2. \A n \in 1 .. size : At(n) \in I /\ Rank(I, At(n)) = n
  BY <1>1
<1>3. p = [n \in 1 .. size |-> list[At(n)]]
  BY DEF Picked
<1> HIDE DEF p, size, At
<1>4. \A n \in 1 .. size : list[At(n)] \in S
  BY <1>2, ElementOfSeq
<1>5. p \in Seq(S) /\ Len(p) = size
  BY <1>1, <1>3, <1>4, IsASeq
<1>6. \A n \in 1 .. Len(p) : \E i \in I : p[n] = list[i] /\ Rank(I, i) = n
  BY <1>2, <1>3, <1>5
<1>7. ASSUME NEW i \in I PROVE \E n \in 1 .. Len(p) : p[n] = list[i]
  <2>1. Rank(I, i) \in 1 .. size /\ At(Rank(I, i)) = i
    BY <1>1, <1>2
  <2> QED
    BY <1>3, <1>5, <2>1
<1> QED
  BY <1>5, <1>6, <1>7 DEF p

LEMMA TailIs ==
    ASSUME NEW S, NEW line \in Seq(S), line # <<>>
    PROVE  /\ Head(line) \in S /\ Head(line) = line[1] /\ 1 \in 1 .. Len(line)
           /\ Tail(line) \in Seq(S) /\ Len(Tail(line)) = Len(line) - 1
           /\ Len(line) \in Nat
           /\ \A i \in 1 .. Len(Tail(line)) :
                i + 1 \in 1 .. Len(line) /\ Tail(line)[i] = line[i + 1]
  BY HeadTailProperties, LenProperties, EmptySeq

Joined(a, n, b, l) ==
    /\ \A i \in 1 .. n : i \in 1 .. Len(l) /\ l[i] = a[i]
    /\ \A j \in 1 .. Len(b) : n + j \in 1 .. Len(l) /\ l[n + j] = b[j]
    /\ \A i \in 1 .. Len(l) : i \in 1 .. n \/ \E j \in 1 .. Len(b) : i = n + j

LEMMA ConcatIs ==
    ASSUME NEW S, NEW a \in Seq(S), NEW b \in Seq(S)
    PROVE  /\ a \o b \in Seq(S) /\ Len(a) \in Nat
           /\ Joined(a, Len(a), b, a \o b)
<1>1. Len(a) \in Nat /\ Len(b) \in Nat
  BY LenProperties
<1>2. /\ a \o b \in Seq(S) /\ Len(a \o b) = Len(a) + Len(b)
      /\ \A i \in 1 .. Len(a) + Len(b) :
            (a \o b)[i] = IF i <= Len(a) THEN a[i] ELSE b[i - Len(a)]
  BY ConcatProperties
<1> DEFINE n == Len(a)
           k == Len(b)
           l == a \o b
<1> HIDE DEF n, k, l
<1>3. /\ l \in Seq(S) /\ Len(l) = n + k /\ n \in Nat /\ k \in Nat
      /\ \A i \in 1 .. n + k : l[i] = IF i <= n THEN a[i] ELSE b[i - n]
  BY <1>1, <1>2 DEF n, k, l
<1>4. \A i \in 1 .. n : i \in 1 .. Len(l) /\ l[i] = a[i]
  BY <1>3
<1>5. \A j \in 1 .. k : n + j \in 1 .. Len(l) /\ l[n + j] = b[j]
  BY <1>3
<1>6. ASSUME NEW i \in 1 .. Len(l), i \notin 1 .. n PROVE \E j \in 1 .. k : i = n + j
  <2>1. i - n \in 1 .. k /\ i = n + (i - n)
    BY <1>3, <1>6
  <2> QED
    BY <2>1
<1>7. Joined(a, n, b, l)
  BY <1>4, <1>5, <1>6 DEF k, Joined
<1> QED
  BY <1>3, <1>7 DEF n, l

LEMMA OneIs ==
    ASSUME NEW S, NEW x \in S
    PROVE  <<x>> \in Seq(S) /\ Len(<<x>>) = 1 /\ <<x>>[1] = x
  OBVIOUS

LEMMA AppendIs ==
    ASSUME NEW S, NEW line \in Seq(S), NEW x \in S
    PROVE  Append(line, x) = line \o <<x>>
  BY AppendIsConcat


\* The first of a set of places.
LEMMA FirstIs ==
    ASSUME NEW n \in Nat, NEW I \in SUBSET (1 .. n)
    PROVE  /\ First(I) \in 0 .. n
           /\ First(I) = 0 <=> I = {}
           /\ I # {} => First(I) \in I /\ \A i \in I : First(I) <= i
<1>1. CASE I = {}
  BY <1>1 DEF First
<1>2. CASE I # {}
  <2>1. I \in SUBSET Nat
    OBVIOUS
  <2>2. \E c \in I : \A d \in I : c <= d
    BY <1>2, <2>1, LeastOf
  <2> DEFINE c == CHOOSE i \in I : \A j \in I : i <= j
  <2>3. c \in I /\ \A j \in I : c <= j
    BY <2>2
  <2>4. First(I) = c
    BY <1>2 DEF First
  <2> HIDE DEF c
  <2>5. c \in 1 .. n
    BY <2>3
  <2> QED
    BY <1>2, <2>3, <2>4, <2>5
<1> QED
  BY <1>1, <1>2

LEMMA AppendAt ==
    ASSUME NEW S, NEW s \in Seq(S), NEW e \in S
    PROVE  /\ Append(s, e) \in Seq(S) /\ Len(s) \in Nat
           /\ Len(Append(s, e)) = Len(s) + 1
           /\ \A i \in 1 .. Len(s) : Append(s, e)[i] = s[i]
           /\ Append(s, e)[Len(s) + 1] = e
  BY AppendProperties, LenProperties

\* An element less.
LEMMA DropIs ==
    ASSUME NEW S, NEW s \in Seq(S), NEW i \in 1 .. Len(s)
    PROVE  /\ Drop(s, i) \in Seq(S) /\ Len(s) \in Nat
           /\ Len(Drop(s, i)) = Len(s) - 1
           /\ \A j \in 1 .. Len(s) - 1 :
                Drop(s, i)[j] = IF j < i THEN s[j] ELSE s[j + 1]
<1>1. Len(s) \in Nat /\ i # 0 /\ \A j \in 1 .. Len(s) : s[j] \in S
  BY LenProperties, ElementOfSeq
<1> DEFINE n == Len(s)
           a == SubSeq(s, 1, i - 1)
           b == SubSeq(s, i + 1, n)
<1>2. Drop(s, i) = a \o b
  BY <1>1 DEF Drop, RemoveAt
<1>3. /\ a \in Seq(S) /\ Len(a) = i - 1
      /\ \A j \in 1 .. i - 1 : a[j] = s[j]
  <2>1. \A j \in 1 .. i - 1 : s[j] \in S
    BY <1>1
  <2>2. /\ a \in Seq(S) /\ Len(a) = IF 1 <= i - 1 THEN (i - 1) - 1 + 1 ELSE 0
        /\ \A j \in 1 .. (i - 1) - 1 + 1 : a[j] = s[1 + j - 1]
    <3>1. 1 \in Int /\ i - 1 \in Int
      BY <1>1
    <3> QED
      BY <2>1, <3>1, SubSeqProperties
  <2> HIDE DEF a
  <2> QED
    BY <1>1, <2>2
<1>4. /\ b \in Seq(S) /\ Len(b) = n - i
      /\ \A j \in 1 .. n - i : b[j] = s[i + j]
  <2>1. \A j \in i + 1 .. n : s[j] \in S
    BY <1>1
  <2>2. /\ b \in Seq(S) /\ Len(b) = IF i + 1 <= n THEN n - (i + 1) + 1 ELSE 0
        /\ \A j \in 1 .. n - (i + 1) + 1 : b[j] = s[i + 1 + j - 1]
    <3>1. i + 1 \in Int /\ n \in Int
      BY <1>1
    <3> QED
      BY <2>1, <3>1, SubSeqProperties
  <2> HIDE DEF b
  <2>3. \A j \in 1 .. n - i : b[j] = s[i + 1 + j - 1] /\ i + 1 + j - 1 = i + j
    BY <1>1, <2>2
  <2>4. \A j \in 1 .. n - i : b[j] = s[i + j]
    BY <2>3
  <2> QED
    BY <1>1, <2>2, <2>4
<1>5. /\ a \o b \in Seq(S) /\ Len(a \o b) = Len(a) + Len(b)
      /\ \A j \in 1 .. Len(a) + Len(b) :
            (a \o b)[j] = IF j <= Len(a) THEN a[j] ELSE b[j - Len(a)]
  BY <1>3, <1>4, ConcatProperties
<1> DEFINE l == a \o b
<1> HIDE DEF a, b, l
<1>6. /\ l \in Seq(S) /\ Len(l) = n - 1
      /\ \A j \in 1 .. n - 1 : l[j] = IF j <= i - 1 THEN a[j] ELSE b[j - (i - 1)]
  BY <1>1, <1>3, <1>4, <1>5 DEF l
<1>7. ASSUME NEW j \in 1 .. n - 1 PROVE l[j] = IF j < i THEN s[j] ELSE s[j + 1]
  <2>1. CASE j < i
    <3>1. j \in 1 .. i - 1 /\ j <= i - 1
      BY <1>1, <2>1
    <3> QED
      BY <1>3, <1>6, <2>1, <3>1
  <2>2. CASE ~(j < i)
    <3>1. j - (i - 1) \in 1 .. n - i /\ ~(j <= i - 1) /\ i + (j - (i - 1)) = j + 1
      BY <1>1, <2>2
    <3>2. l[j] = b[j - (i - 1)] /\ b[j - (i - 1)] = s[i + (j - (i - 1))]
      BY <1>4, <1>6, <3>1
    <3> QED
      BY <2>2, <3>1, <3>2
  <2> QED
    BY <2>1, <2>2
<1> QED
  BY <1>1, <1>2, <1>6, <1>7 DEF l

LEMMA DropNone ==
    ASSUME NEW s
    PROVE  Drop(s, 0) = s
  BY DEF Drop

-----------------------------------------------------------------------------
(* Types.                                                                  *)

Subs == [prop : Props, id : SubIds \cup {NoId}, req : 0 .. NumIds - 1, state : States]
Rules == [prop : Props, id : SubIds]
Shown == [muid : Devices, prop : Props]
Served == [muid : Devices, prop : Props, id : SubIds]
Lines == [Devices -> [Devices -> Seq(Messages)]]

LEMMA TypesAre ==
    TypeOK <=>
    /\ clientSubs \in [Devices -> [Devices -> Seq(Subs)]]
    /\ ruleSubs \in [Devices -> [Devices -> Seq(Rules)]]
    /\ facadeSubs \in [Devices -> Seq(Shown)]
    /\ serviceSubs \in [Devices -> Seq(Served)]
    /\ counter \in [Devices -> 0 .. NumIds - 1]
    /\ sent \in [Devices -> 0 .. MaxRequests]
    /\ lastId \in Nat
    /\ wire \in Lines
    /\ rejected \subseteq Devices \X Devices \X SubIds
    /\ scenario \in Scenarios
  BY DEF TypeOK, Subs, Rules, Shown, Served, Lines

LEMMA NextTypesAre ==
    TypeOK' <=>
    /\ clientSubs' \in [Devices -> [Devices -> Seq(Subs)]]
    /\ ruleSubs' \in [Devices -> [Devices -> Seq(Rules)]]
    /\ facadeSubs' \in [Devices -> Seq(Shown)]
    /\ serviceSubs' \in [Devices -> Seq(Served)]
    /\ counter' \in [Devices -> 0 .. NumIds - 1]
    /\ sent' \in [Devices -> 0 .. MaxRequests]
    /\ lastId' \in Nat
    /\ wire' \in Lines
    /\ rejected' \subseteq Devices \X Devices \X SubIds
    /\ scenario' \in Scenarios
  BY DEF TypeOK, Subs, Rules, Shown, Served, Lines

LEMMA Numbers ==
    /\ NumIds \in Nat \ {0} /\ MaxRequests \in Nat /\ NoId \notin Nat
    /\ 0 .. NumIds - 1 \subseteq Nat /\ 0 .. MaxRequests \subseteq Nat
    /\ SubIds \subseteq Nat /\ NoId \notin SubIds
  BY SubscriptionAssumption DEF SubIds

LEMMA Modulo ==
    ASSUME NEW n \in Nat
    PROVE  n % NumIds \in 0 .. NumIds - 1 /\ (n < NumIds => n % NumIds = n)
<1>1. NumIds \in Nat \ {0}
  BY Numbers
<1> QED
  BY <1>1

LEMMA MessageIs ==
    ASSUME NEW command \in {"start", "end", "reply", "none"}, NEW x \in Props,
           NEW id \in SubIds \cup {NoId}, NEW req \in 0 .. NumIds - 1
    PROVE  /\ Message(command, x, id, req) \in Messages
           /\ Message(command, x, id, req).command = command
           /\ Message(command, x, id, req).prop = x
           /\ Message(command, x, id, req).id = id
           /\ Message(command, x, id, req).req = req
  BY DEF Message, Messages

LEMMA Fields ==
    ASSUME NEW m \in Messages
    PROVE  /\ m.command \in {"start", "end", "reply", "none"} /\ m.prop \in Props
           /\ m.id \in SubIds \cup {NoId} /\ m.req \in 0 .. NumIds - 1 /\ m.req \in Nat
  BY Numbers DEF Messages

\* A message more on one line.
Pushed(w, new, d, p, m) ==
    /\ new[d][p] = Append(w[d][p], m)
    /\ \A e, f \in Devices : e # d \/ f # p => new[e][f] = w[e][f]

LEMMA PushIs ==
    ASSUME NEW w \in Lines, NEW d \in Devices, NEW p \in Devices, NEW m \in Messages
    PROVE  Push(w, d, p, m) \in Lines /\ Pushed(w, Push(w, d, p, m), d, p, m)
<1>1. w[d][p] \in Seq(Messages)
  BY DEF Lines
<1>2. Append(w[d][p], m) \in Seq(Messages)
  BY <1>1, AppendAt
<1> QED
  BY <1>2 DEF Push, Lines, Pushed

\* A message less.
LEMMA TakenIs ==
    ASSUME NEW w \in Lines, NEW d \in Devices, NEW p \in Devices, w[p][d] # <<>>
    PROVE  /\ [w EXCEPT ![p][d] = Tail(@)] \in Lines
           /\ [w EXCEPT ![p][d] = Tail(@)][p][d] = Tail(w[p][d])
           /\ \A e, f \in Devices : e # p \/ f # d =>
                [w EXCEPT ![p][d] = Tail(@)][e][f] = w[e][f]
           /\ Head(w[p][d]) \in Messages
<1>1. w[p][d] \in Seq(Messages)
  BY DEF Lines
<1>2. Tail(w[p][d]) \in Seq(Messages) /\ Head(w[p][d]) \in Messages
  BY <1>1, TailIs
<1> QED
  BY <1>2 DEF Lines

\* The parts of SendRequest.
LEMMA SendIs ==
    ASSUME TypeOK, NEW d \in Devices, NEW p \in Devices, NEW x \in Props,
           NEW command \in {"start", "end", "reply", "none"},
           SendRequest(d, p, command, x, NoId)
    PROVE  /\ sent' \in [Devices -> 0 .. MaxRequests]
           /\ counter' \in [Devices -> 0 .. NumIds - 1]
           /\ wire' \in Lines
           /\ NextRequestId(d) \in 0 .. NumIds - 1
           /\ counter'[d] = NextRequestId(d) /\ sent'[d] = sent[d] + 1
           /\ \A e \in Devices : e # d => counter'[e] = counter[e] /\ sent'[e] = sent[e]
           /\ Message(command, x, NoId, NextRequestId(d)) \in Messages
           /\ wire'[d][p] = Append(wire[d][p], Message(command, x, NoId, NextRequestId(d)))
           /\ \A e, f \in Devices : e # d \/ f # p => wire'[e][f] = wire[e][f]
<1>1. /\ counter \in [Devices -> 0 .. NumIds - 1] /\ sent \in [Devices -> 0 .. MaxRequests]
      /\ wire \in Lines
  BY TypesAre
<1>2. NextRequestId(d) \in 0 .. NumIds - 1
  <2> DEFINE n == counter[d]
  <2>1. n \in Nat
    BY <1>1, Numbers
  <2>2. NextRequestId(d) = (n + 1) % NumIds
    BY DEF NextRequestId
  <2> HIDE DEF n
  <2>3. n + 1 \in Nat
    BY <2>1
  <2> QED
    BY <2>2, <2>3, Modulo
<1> DEFINE m == Message(command, x, NoId, NextRequestId(d))
           r == NextRequestId(d)
<1>3. m \in Messages
  BY <1>2, MessageIs
<1>4. /\ sent[d] < MaxRequests /\ sent' = [sent EXCEPT ![d] = @ + 1]
      /\ counter' = [counter EXCEPT ![d] = r] /\ wire' = Push(wire, d, p, m)
  BY DEF SendRequest
<1> HIDE DEF m, r
<1>5. /\ wire' \in Lines /\ wire'[d][p] = Append(wire[d][p], m)
      /\ \A e, f \in Devices : e # d \/ f # p => wire'[e][f] = wire[e][f]
  <2>1. wire \in Lines /\ m \in Messages /\ wire' = Push(wire, d, p, m)
    BY <1>1, <1>3, <1>4
  <2>2. Push(wire, d, p, m) \in Lines /\ Pushed(wire, Push(wire, d, p, m), d, p, m)
    BY <2>1, PushIs
  <2>3. wire' \in Lines /\ Pushed(wire, wire', d, p, m)
    BY <2>1, <2>2
  <2> QED
    BY <2>3 DEF Pushed
<1>6. sent[d] + 1 \in 0 .. MaxRequests
  <2> DEFINE n == sent[d]
  <2>1. n \in 0 .. MaxRequests /\ n < MaxRequests
    BY <1>1, <1>4
  <2> HIDE DEF n
  <2>2. n + 1 \in 0 .. MaxRequests
    BY <2>1, Numbers
  <2> QED
    BY <2>2 DEF n
<1>7. /\ sent' \in [Devices -> 0 .. MaxRequests] /\ sent'[d] = sent[d] + 1
      /\ \A e \in Devices : e # d => sent'[e] = sent[e]
  BY <1>1, <1>4, <1>6
<1>8. /\ counter' \in [Devices -> 0 .. NumIds - 1] /\ counter'[d] = r
      /\ \A e \in Devices : e # d => counter'[e] = counter[e]
  BY <1>1, <1>2, <1>4 DEF r
<1> QED
  BY <1>2, <1>3, <1>5, <1>7, <1>8 DEF m, r

\* A list in one place of a table.
LEMMA TableIs ==
    ASSUME NEW S, NEW t \in [Devices -> [Devices -> S]], NEW d \in Devices,
           NEW p \in Devices, NEW v \in S
    PROVE  /\ [t EXCEPT ![d][p] = v] \in [Devices -> [Devices -> S]]
           /\ [t EXCEPT ![d][p] = v][d][p] = v
           /\ \A e, f \in Devices : e # d \/ f # p => [t EXCEPT ![d][p] = v][e][f] = t[e][f]
  OBVIOUS

LEMMA SubscribeTypes ==
    ASSUME TypeOK, NEW d \in Devices, NEW p \in Devices, NEW x \in Props,
           Subscribe(d, p, x), UNCHANGED scenario
    PROVE  TypeOK'
<1> DEFINE e == [prop |-> x, id |-> NoId, req |-> NextRequestId(d), state |-> "Subscribing"]
<1>1. /\ clientSubs' = [clientSubs EXCEPT ![d][p] = Append(@, e)]
      /\ SendRequest(d, p, "start", x, NoId)
      /\ UNCHANGED <<ruleSubs, facadeSubs, serviceSubs, lastId, rejected>>
  BY DEF Subscribe
<1>2. /\ sent' \in [Devices -> 0 .. MaxRequests] /\ counter' \in [Devices -> 0 .. NumIds - 1]
      /\ wire' \in Lines /\ NextRequestId(d) \in 0 .. NumIds - 1
  BY <1>1, SendIs
<1>3. clientSubs \in [Devices -> [Devices -> Seq(Subs)]]
  BY TypesAre
<1>4. e \in Subs
  BY <1>2 DEF Subs, States
<1> HIDE DEF e
<1>5. clientSubs' \in [Devices -> [Devices -> Seq(Subs)]]
  <2>1. Append(clientSubs[d][p], e) \in Seq(Subs)
    BY <1>3, <1>4, AppendAt
  <2> QED
    BY <1>1, <1>3, <2>1
<1> QED
  BY <1>1, <1>2, <1>5, TypesAre, NextTypesAre

\* An entry of the client's list changed in place.
LEMMA AsUnsubscribingIs ==
    ASSUME NEW subs \in Seq(Subs), NEW i \in 1 .. Len(subs), NEW req \in 0 .. NumIds - 1
    PROVE  LET new == AsUnsubscribing(subs, i, req) IN
           /\ new \in Seq(Subs) /\ Len(new) = Len(subs)
           /\ new[i].prop = subs[i].prop /\ new[i].id = subs[i].id
           /\ new[i].req = req /\ new[i].state = "Unsubscribing"
           /\ \A j \in 1 .. Len(subs) : j # i => new[j] = subs[j]
<1> DEFINE e == [subs[i] EXCEPT !.req = req, !.state = "Unsubscribing"]
<1>1. subs[i] \in Subs
  BY ElementOfSeq
<1>2. /\ e \in Subs /\ e.prop = subs[i].prop /\ e.id = subs[i].id
      /\ e.req = req /\ e.state = "Unsubscribing"
  BY <1>1 DEF Subs, States
<1>3. AsUnsubscribing(subs, i, req) = [subs EXCEPT ![i] = e]
  BY DEF AsUnsubscribing
<1> HIDE DEF e
<1> QED
  BY <1>2, <1>3, ExceptSeq

LEMMA AsSubscribedIs ==
    ASSUME NEW subs \in Seq(Subs), NEW i \in 1 .. Len(subs), NEW id \in SubIds \cup {NoId}
    PROVE  LET new == AsSubscribed(subs, i, id) IN
           /\ new \in Seq(Subs) /\ Len(new) = Len(subs)
           /\ new[i].prop = subs[i].prop /\ new[i].req = subs[i].req
           /\ new[i].id = id /\ new[i].state = "Subscribed"
           /\ \A j \in 1 .. Len(subs) : j # i => new[j] = subs[j]
<1> DEFINE e == [subs[i] EXCEPT !.id = id, !.state = "Subscribed"]
<1>1. subs[i] \in Subs
  BY ElementOfSeq
<1>2. /\ e \in Subs /\ e.prop = subs[i].prop /\ e.req = subs[i].req
      /\ e.id = id /\ e.state = "Subscribed"
  BY <1>1 DEF Subs, States
<1>3. AsSubscribed(subs, i, id) = [subs EXCEPT ![i] = e]
  BY DEF AsSubscribed
<1> HIDE DEF e
<1> QED
  BY <1>2, <1>3, ExceptSeq

\* The first entry of a property.
LEMMA FirstOfIs ==
    ASSUME NEW S, NEW list \in Seq(S), NEW x
    PROVE  LET i == First(Of(list, x)) IN
           /\ i \in 0 .. Len(list) /\ Len(list) \in Nat
           /\ i # 0 => i \in 1 .. Len(list) /\ list[i].prop = x
           /\ \A j \in 1 .. Len(list) : list[j].prop = x => i # 0 /\ i <= j
<1> DEFINE I == Of(list, x)
           n == Len(list)
<1>1. n \in Nat
  BY LenProperties
<1>2. I \in SUBSET (1 .. n) /\ \A j \in 1 .. n : j \in I <=> list[j].prop = x
  BY DEF Of
<1> HIDE DEF I, n
<1>3. /\ First(I) \in 0 .. n /\ (First(I) = 0 <=> I = {})
      /\ I # {} => First(I) \in I /\ \A i \in I : First(I) <= i
  BY <1>1, <1>2, FirstIs
<1>4. First(I) # 0 => First(I) \in 1 .. n /\ list[First(I)].prop = x
  BY <1>2, <1>3
<1>5. \A j \in 1 .. n : list[j].prop = x => First(I) # 0 /\ First(I) <= j
  BY <1>2, <1>3
<1> QED
  BY <1>1, <1>3, <1>4, <1>5 DEF I, n

TakesBack(d, p, x) ==
    LET subs == clientSubs[d][p]
        i == First(Of(subs, x))
    IN  /\ i \in 1 .. Len(subs) /\ subs[i].prop = x
        /\ \A j \in 1 .. Len(subs) : subs[j].prop = x => i <= j
        /\ subs[i].state # "Unsubscribing"
        /\ clientSubs' \in [Devices -> [Devices -> Seq(Subs)]]
        /\ clientSubs'[d][p] = AsUnsubscribing(subs, i, NextRequestId(d))
        /\ \A e, f \in Devices : e # d \/ f # p => clientSubs'[e][f] = clientSubs[e][f]
        /\ SendRequest(d, p, "end", x, NoId)
        /\ UNCHANGED <<ruleSubs, facadeSubs, serviceSubs, lastId, rejected>>

LEMMA UnsubscribeIs ==
    ASSUME TypeOK, NEW d \in Devices, NEW p \in Devices, NEW x \in Props,
           Unsubscribe(d, p, x)
    PROVE  TakesBack(d, p, x)
<1> DEFINE subs == clientSubs[d][p]
           i == First(Of(subs, x))
           r == NextRequestId(d)
           new == AsUnsubscribing(subs, i, r)
<1>1. /\ i # 0 /\ subs[i].state # "Unsubscribing"
      /\ clientSubs' = [clientSubs EXCEPT ![d][p] = new]
      /\ SendRequest(d, p, "end", x, NoId)
      /\ UNCHANGED <<ruleSubs, facadeSubs, serviceSubs, lastId, rejected>>
  BY DEF Unsubscribe
<1>2. clientSubs \in [Devices -> [Devices -> Seq(Subs)]]
  BY TypesAre
<1>3. r \in 0 .. NumIds - 1
  BY <1>1, SendIs
<1>4. subs \in Seq(Subs) /\ Len(subs) \in Nat
  BY <1>2, LenProperties
<1> HIDE DEF r
<1>6. i \in 1 .. Len(subs) /\ subs[i].prop = x /\ \A j \in 1 .. Len(subs) : subs[j].prop = x => i <= j
  BY <1>1, <1>4, FirstOfIs
<1> HIDE DEF i
<1>7. new \in Seq(Subs)
  BY <1>3, <1>4, <1>6, AsUnsubscribingIs
<1> HIDE DEF new
<1>8. /\ clientSubs' \in [Devices -> [Devices -> Seq(Subs)]] /\ clientSubs'[d][p] = new
      /\ \A e, f \in Devices : e # d \/ f # p => clientSubs'[e][f] = clientSubs[e][f]
  BY <1>1, <1>2, <1>7, TableIs
<1> QED
  BY <1>1, <1>6, <1>8 DEF new, i, r, TakesBack

LEMMA UnsubscribeTypes ==
    ASSUME TypeOK, NEW d \in Devices, NEW p \in Devices, NEW x \in Props,
           Unsubscribe(d, p, x), UNCHANGED scenario
    PROVE  TypeOK'
<1>1. /\ clientSubs' \in [Devices -> [Devices -> Seq(Subs)]]
      /\ SendRequest(d, p, "end", x, NoId)
      /\ UNCHANGED <<ruleSubs, facadeSubs, serviceSubs, lastId, rejected>>
  BY UnsubscribeIs DEF TakesBack
<1>2. /\ sent' \in [Devices -> 0 .. MaxRequests] /\ counter' \in [Devices -> 0 .. NumIds - 1]
      /\ wire' \in Lines
  BY <1>1, SendIs
<1> QED
  BY <1>1, <1>2, TypesAre, NextTypesAre

-----------------------------------------------------------------------------
\* Host side.

\* The list new is part of list, without x for p.
LeavesOut(new, list, p, x) ==
    \A i \in 1 .. Len(new) : \E j \in 1 .. Len(list) :
        new[i] = list[j] /\ list[j] # [muid |-> p, prop |-> x]

LEMMA FacadeWithoutIs ==
    ASSUME TypeOK, NEW d \in Devices, NEW p \in Devices, NEW x \in Props
    PROVE  /\ FacadeWithout(d, p, x) \in Seq(Shown)
           /\ LeavesOut(FacadeWithout(d, p, x), facadeSubs[d], p, x)
<1> DEFINE list == facadeSubs[d]
           I == {i \in 1 .. Len(list) : list[i] # [muid |-> p, prop |-> x]}
<1>1. list \in Seq(Shown)
  BY TypesAre
<1>2. FacadeWithout(d, p, x) = Picked(list, I)
  BY DEF FacadeWithout
<1>3. I \in SUBSET (1 .. Len(list)) /\ \A i \in I : list[i] # [muid |-> p, prop |-> x]
  OBVIOUS
<1> HIDE DEF I, list
<1>4. /\ Picked(list, I) \in Seq(Shown)
      /\ \A n \in 1 .. Len(Picked(list, I)) :
            \E i \in I : Picked(list, I)[n] = list[i] /\ Rank(I, i) = n
  BY <1>1, <1>3, PickedIs
<1>5. LeavesOut(Picked(list, I), list, p, x)
  BY <1>3, <1>4 DEF LeavesOut
<1> QED
  BY <1>2, <1>4, <1>5 DEF list

\* A list of a device.
LEMMA PlaceIs ==
    ASSUME NEW S, NEW t \in [Devices -> S], NEW d \in Devices, NEW v \in S
    PROVE  /\ [t EXCEPT ![d] = v] \in [Devices -> S]
           /\ [t EXCEPT ![d] = v][d] = v
           /\ \A e \in Devices : e # d => [t EXCEPT ![d] = v][e] = t[e]
  OBVIOUS

LEMMA HostStartIs ==
    ASSUME TypeOK, NEW d \in Devices, NEW p \in Devices, NEW m \in Messages,
           NEW w \in Lines, HostStart(d, p, m, w)
    PROVE  LET r == Message("reply", m.prop, lastId + 1, m.req)
               e == [muid |-> p, prop |-> m.prop, id |-> lastId + 1]
               f == [muid |-> p, prop |-> m.prop]
           IN  /\ lastId' = lastId + 1 /\ lastId \in Nat
               /\ r \in Messages /\ wire' \in Lines /\ wire' = Push(w, d, p, r)
               /\ e \in Served /\ serviceSubs' \in [Devices -> Seq(Served)]
               /\ serviceSubs'[d] = Append(serviceSubs[d], e)
               /\ \A g \in Devices : g # d => serviceSubs'[g] = serviceSubs[g]
               /\ f \in Shown /\ facadeSubs' \in [Devices -> Seq(Shown)]
               /\ facadeSubs'[d] = Append(facadeSubs[d], f)
               /\ \A g \in Devices : g # d => facadeSubs'[g] = facadeSubs[g]
               /\ UNCHANGED <<clientSubs, ruleSubs, rejected>>
<1> DEFINE r == Message("reply", m.prop, lastId + 1, m.req)
           e == [muid |-> p, prop |-> m.prop, id |-> lastId + 1]
           f == [muid |-> p, prop |-> m.prop]
<1>1. /\ lastId' = lastId + 1
      /\ serviceSubs' = [serviceSubs EXCEPT ![d] = Append(@, e)]
      /\ facadeSubs' = [facadeSubs EXCEPT ![d] = Append(@, f)]
      /\ wire' = Push(w, d, p, r)
      /\ UNCHANGED <<clientSubs, ruleSubs, rejected>>
  BY DEF HostStart, clientVars
<1>2. lastId \in Nat /\ serviceSubs \in [Devices -> Seq(Served)] /\ facadeSubs \in [Devices -> Seq(Shown)]
  BY TypesAre
<1>3. m.prop \in Props /\ m.req \in 0 .. NumIds - 1
  BY Fields
<1>4. lastId + 1 \in SubIds
  BY <1>2 DEF SubIds
<1>5. r \in Messages /\ e \in Served /\ f \in Shown
  BY <1>3, <1>4, MessageIs DEF Served, Shown
<1> HIDE DEF r, e, f
<1>6. wire' \in Lines
  BY <1>1, <1>5, PushIs
<1>7. Append(serviceSubs[d], e) \in Seq(Served) /\ Append(facadeSubs[d], f) \in Seq(Shown)
  BY <1>2, <1>5, AppendAt
<1>8. /\ serviceSubs' \in [Devices -> Seq(Served)]
      /\ serviceSubs'[d] = Append(serviceSubs[d], e)
      /\ \A g \in Devices : g # d => serviceSubs'[g] = serviceSubs[g]
  BY <1>1, <1>2, <1>7, PlaceIs
<1>9. /\ facadeSubs' \in [Devices -> Seq(Shown)]
      /\ facadeSubs'[d] = Append(facadeSubs[d], f)
      /\ \A g \in Devices : g # d => facadeSubs'[g] = facadeSubs[g]
  BY <1>1, <1>2, <1>7, PlaceIs
<1> QED
  BY <1>1, <1>2, <1>5, <1>6, <1>8, <1>9 DEF r, e, f

\* What the service's list has at the place it gives up.
LEMMA UnsubscribedIs ==
    ASSUME TypeOK, NEW d \in Devices, NEW m \in Messages
    PROVE  /\ Unsubscribed(d, m) \in 0 .. Len(serviceSubs[d])
           /\ m.id = NoId => Unsubscribed(d, m) = First(Of(serviceSubs[d], m.prop))
<1> DEFINE list == serviceSubs[d]
           n == Len(list)
           I == {i \in 1 .. n : IF m.id # NoId THEN list[i].id = m.id
                                ELSE list[i].prop = m.prop}
<1>1. list \in Seq(Served)
  BY TypesAre
<1>2. n \in Nat
  BY <1>1, LenProperties
<1>3. Unsubscribed(d, m) = First(I) /\ I \in SUBSET (1 .. n)
  BY DEF Unsubscribed
<1>4. m.id = NoId => I = Of(list, m.prop)
  BY DEF Of
<1> HIDE DEF I, n
<1>5. First(I) \in 0 .. n
  BY <1>2, <1>3, FirstIs
<1> QED
  BY <1>3, <1>4, <1>5 DEF n

LEMMA HostEndIs ==
    ASSUME TypeOK, NEW d \in Devices, NEW p \in Devices, NEW m \in Messages,
           NEW w \in Lines, HostEnd(d, p, m, w)
    PROVE  LET r == Message("reply", m.prop, m.id, m.req) IN
           /\ r \in Messages /\ wire' \in Lines /\ wire' = Push(w, d, p, r)
           /\ serviceSubs' \in [Devices -> Seq(Served)]
           /\ serviceSubs'[d] = Drop(serviceSubs[d], Unsubscribed(d, m))
           /\ \A g \in Devices : g # d => serviceSubs'[g] = serviceSubs[g]
           /\ facadeSubs' \in [Devices -> Seq(Shown)]
           /\ facadeSubs'[d] = FacadeWithout(d, p, m.prop)
           /\ \A g \in Devices : g # d => facadeSubs'[g] = facadeSubs[g]
           /\ UNCHANGED <<clientSubs, ruleSubs, lastId, rejected>>
<1> DEFINE r == Message("reply", m.prop, m.id, m.req)
           i == Unsubscribed(d, m)
           fac == FacadeWithout(d, p, m.prop)
           list == serviceSubs[d]
<1>1. /\ serviceSubs' = [serviceSubs EXCEPT ![d] = Drop(list, i)]
      /\ facadeSubs' = [facadeSubs EXCEPT ![d] = fac]
      /\ wire' = Push(w, d, p, r)
      /\ UNCHANGED <<clientSubs, ruleSubs, lastId, rejected>>
  BY DEF HostEnd, clientVars
<1>2. list \in Seq(Served) /\ serviceSubs \in [Devices -> Seq(Served)] /\ facadeSubs \in [Devices -> Seq(Shown)]
  BY TypesAre
<1>3. m.prop \in Props /\ m.req \in 0 .. NumIds - 1 /\ m.id \in SubIds \cup {NoId}
  BY Fields
<1>4. r \in Messages
  BY <1>3, MessageIs
<1>5. fac \in Seq(Shown)
  BY <1>3, FacadeWithoutIs
<1>6. Drop(list, i) \in Seq(Served)
  <2>1. i \in 0 .. Len(list) /\ Len(list) \in Nat
    BY <1>2, UnsubscribedIs, LenProperties
  <2> HIDE DEF i, list
  <2>2. CASE i = 0
    BY <1>2, <2>2, DropNone
  <2>3. CASE i # 0
    <3>1. i \in 1 .. Len(list)
      BY <2>1, <2>3
    <3> QED
      BY <1>2, <3>1, DropIs
  <2> QED
    BY <2>2, <2>3
<1> HIDE DEF r, i, fac
<1>7. wire' \in Lines
  BY <1>1, <1>4, PushIs
<1>8. /\ serviceSubs' \in [Devices -> Seq(Served)] /\ serviceSubs'[d] = Drop(list, i)
      /\ \A g \in Devices : g # d => serviceSubs'[g] = serviceSubs[g]
  BY <1>1, <1>2, <1>6, PlaceIs
<1>9. /\ facadeSubs' \in [Devices -> Seq(Shown)] /\ facadeSubs'[d] = fac
      /\ \A g \in Devices : g # d => facadeSubs'[g] = facadeSubs[g]
  BY <1>1, <1>2, <1>5, PlaceIs
<1> QED
  BY <1>1, <1>4, <1>7, <1>8, <1>9 DEF r, i, fac

LEMMA ShutdownMessageIs ==
    ASSUME NEW d, NEW x \in Props, NEW req \in 0 .. NumIds - 1
    PROVE  /\ ShutdownMessage(d, x, req).command \in {"end", "none"}
           /\ ShutdownMessage(d, x, req) \in Messages
           /\ ShutdownMessage(d, x, req).id = NoId
           /\ ShutdownMessage(d, x, req).prop = x
<1>1. CASE Of(serviceSubs[d], x) # {}
  BY <1>1, MessageIs DEF ShutdownMessage
<1>2. CASE Of(serviceSubs[d], x) = {}
  BY <1>2, MessageIs DEF ShutdownMessage
<1> QED
  BY <1>1, <1>2

LEMMA ShutdownIs ==
    ASSUME TypeOK, NEW d \in Devices, NEW p \in Devices, NEW x \in Props,
           Shutdown(d, p, x)
    PROVE  /\ "shutdown" \in scenario.hosts
           /\ \E i \in 1 .. Len(facadeSubs[d]) : facadeSubs[d][i] = [muid |-> p, prop |-> x]
           /\ facadeSubs' \in [Devices -> Seq(Shown)]
           /\ \A g \in Devices : g # d => facadeSubs'[g] = facadeSubs[g]
           /\ facadeSubs'[d] = FacadeWithout(d, p, x)
           /\ \E command \in {"end", "none"} : SendRequest(d, p, command, x, NoId)
           /\ UNCHANGED <<clientSubs, ruleSubs, serviceSubs, lastId, rejected>>
<1> DEFINE fac == FacadeWithout(d, p, x)
           c == ShutdownMessage(d, x, NextRequestId(d)).command
<1>1. /\ facadeSubs' = [facadeSubs EXCEPT ![d] = fac]
      /\ SendRequest(d, p, c, x, NoId)
      /\ UNCHANGED <<clientSubs, ruleSubs, serviceSubs, lastId, rejected>>
      /\ "shutdown" \in scenario.hosts
      /\ \E i \in 1 .. Len(facadeSubs[d]) : facadeSubs[d][i] = [muid |-> p, prop |-> x]
  BY DEF Shutdown, clientVars
<1>2. facadeSubs \in [Devices -> Seq(Shown)]
  BY TypesAre
<1>3. fac \in Seq(Shown)
  BY FacadeWithoutIs
<1> DEFINE n == counter[d]
<1>4. n \in Nat
  BY TypesAre, Numbers
<1>5. NextRequestId(d) = (n + 1) % NumIds
  BY DEF NextRequestId
<1> HIDE DEF n, fac
<1>6. n + 1 \in Nat
  BY <1>4
<1>7. NextRequestId(d) \in 0 .. NumIds - 1
  BY <1>5, <1>6, Modulo
<1>8. c \in {"end", "none"}
  BY <1>7, ShutdownMessageIs
<1>9. /\ facadeSubs' \in [Devices -> Seq(Shown)] /\ facadeSubs'[d] = fac
      /\ \A g \in Devices : g # d => facadeSubs'[g] = facadeSubs[g]
  BY <1>1, <1>2, <1>3, PlaceIs
<1> HIDE DEF c
<1> QED
  BY <1>1, <1>8, <1>9 DEF fac

\* Messages more on the lines of a device, numbered with ids of its counter.
LEMMA CountIs ==
    ASSUME TypeOK, NEW d \in Devices, NEW n \in Nat, sent[d] + n <= MaxRequests,
           sent' = [sent EXCEPT ![d] = @ + n],
           counter' = [counter EXCEPT ![d] = (@ + n) % NumIds]
    PROVE  /\ sent' \in [Devices -> 0 .. MaxRequests]
           /\ counter' \in [Devices -> 0 .. NumIds - 1]
           /\ sent'[d] = sent[d] + n /\ counter'[d] = (counter[d] + n) % NumIds
           /\ \A e \in Devices : e # d => counter'[e] = counter[e] /\ sent'[e] = sent[e]
<1> DEFINE s == sent[d] + n
           c == (counter[d] + n) % NumIds
<1>1. sent \in [Devices -> 0 .. MaxRequests] /\ counter \in [Devices -> 0 .. NumIds - 1]
  BY TypesAre
<1>2. s \in 0 .. MaxRequests
  <2> DEFINE k == sent[d]
  <2>1. k \in Nat /\ k + n <= MaxRequests
    BY <1>1, Numbers
  <2> HIDE DEF k
  <2>2. k + n \in 0 .. MaxRequests
    BY <2>1, Numbers
  <2> QED
    BY <2>2 DEF k
<1>3. c \in 0 .. NumIds - 1
  <2> DEFINE k == counter[d]
  <2>1. k \in Nat
    BY <1>1, Numbers
  <2> HIDE DEF k
  <2>2. k + n \in Nat
    BY <2>1
  <2>3. (k + n) % NumIds \in 0 .. NumIds - 1
    BY <2>2, Modulo
  <2> QED
    BY <2>3 DEF k
<1>4. sent' = [sent EXCEPT ![d] = s] /\ counter' = [counter EXCEPT ![d] = c]
  OBVIOUS
<1> HIDE DEF s, c
<1>5. /\ sent' \in [Devices -> 0 .. MaxRequests] /\ sent'[d] = s
      /\ \A e \in Devices : e # d => sent'[e] = sent[e]
  BY <1>1, <1>2, <1>4
<1>6. /\ counter' \in [Devices -> 0 .. NumIds - 1] /\ counter'[d] = c
      /\ \A e \in Devices : e # d => counter'[e] = counter[e]
  BY <1>1, <1>3, <1>4
<1> QED
  BY <1>5, <1>6 DEF s, c

\* The message for an entry of the facade's list, and those for p.
Parting(d, i) == ShutdownMessage(d, facadeSubs[d][i].prop, (counter[d] + i) % NumIds)
PartingTo(d, p) ==
    Picked([i \in 1 .. Len(facadeSubs[d]) |-> Parting(d, i)],
           {i \in 1 .. Len(facadeSubs[d]) : facadeSubs[d][i].muid = p})

LEMMA PartingIs ==
    ASSUME TypeOK, NEW d \in Devices, NEW p \in Devices
    PROVE  /\ PartingTo(d, p) \in Seq(Messages)
           /\ \A i \in 1 .. Len(PartingTo(d, p)) :
                /\ PartingTo(d, p)[i].command \in {"end", "none"}
                /\ PartingTo(d, p)[i].id = NoId
                /\ \E j \in 1 .. Len(facadeSubs[d]) :
                    facadeSubs[d][j] = [muid |-> p, prop |-> PartingTo(d, p)[i].prop]
<1> DEFINE list == facadeSubs[d]
           n == Len(list)
           I == {i \in 1 .. n : list[i].muid = p}
           all == [i \in 1 .. n |-> Parting(d, i)]
<1>1. list \in Seq(Shown) /\ n \in Nat
  BY TypesAre, LenProperties
<1>2. \A i \in 1 .. n : list[i] \in Shown
  BY <1>1, ElementOfSeq
<1>3. ASSUME NEW i \in 1 .. n
      PROVE  /\ Parting(d, i) \in Messages /\ Parting(d, i).id = NoId
             /\ Parting(d, i).command \in {"end", "none"}
             /\ Parting(d, i).prop = list[i].prop
  <2> DEFINE k == counter[d]
             r == (counter[d] + i) % NumIds
             x == list[i].prop
  <2>1. x \in Props
    BY <1>2 DEF Shown
  <2>2. k \in Nat
    BY TypesAre, Numbers
  <2>3. r = (k + i) % NumIds
    OBVIOUS
  <2>4. Parting(d, i) = ShutdownMessage(d, x, r)
    BY DEF Parting
  <2> HIDE DEF k, r, x
  <2>5. i \in Nat
    BY <1>1
  <2>6. k + i \in Nat
    BY <2>2, <2>5
  <2>7. r \in 0 .. NumIds - 1
    BY <2>3, <2>6, Modulo
  <2> QED
    BY <2>1, <2>4, <2>7, ShutdownMessageIs DEF x
<1>4. PartingTo(d, p) = Picked(all, I)
  BY DEF PartingTo
<1>5. I \in SUBSET (1 .. n) /\ \A i \in I : list[i].muid = p
  OBVIOUS
<1> HIDE DEF n, I, list
<1>6. all \in Seq(Messages) /\ Len(all) = n /\ \A i \in 1 .. n : all[i] = Parting(d, i)
  <2>1. \A i \in 1 .. n : Parting(d, i) \in Messages
    BY <1>3
  <2> QED
    BY <1>1, <2>1, IsASeq
<1> HIDE DEF all
<1> DEFINE b == Picked(all, I)
<1>7. b \in Seq(Messages) /\ \A k \in 1 .. Len(b) : \E i \in I : b[k] = all[i]
  BY <1>5, <1>6, PickedIs
<1> HIDE DEF b
<1>8. ASSUME NEW k \in 1 .. Len(b)
      PROVE  /\ b[k].command \in {"end", "none"} /\ b[k].id = NoId
             /\ \E j \in 1 .. n : list[j] = [muid |-> p, prop |-> b[k].prop]
  <2>1. PICK i \in I : b[k] = all[i]
    BY <1>7
  <2>2. i \in 1 .. n /\ list[i].muid = p
    BY <1>5
  <2>3. b[k] = Parting(d, i) /\ list[i] \in Shown
    BY <1>2, <1>6, <2>1, <2>2
  <2>4. b[k].prop = list[i].prop /\ b[k].id = NoId /\ b[k].command \in {"end", "none"}
    BY <1>3, <2>2, <2>3
  <2>5. list[i] = [muid |-> p, prop |-> list[i].prop]
    BY <2>2, <2>3 DEF Shown
  <2> QED
    BY <2>2, <2>4, <2>5
<1> QED
  BY <1>4, <1>7, <1>8 DEF b, n, list

LEMMA TerminateIs ==
    ASSUME TypeOK, NEW d \in Devices, Terminate(d)
    PROVE  /\ "terminate" \in scenario.hosts
           /\ wire' \in Lines
           /\ \A p \in Devices : wire'[d][p] = wire[d][p] \o PartingTo(d, p)
           /\ \A e, p \in Devices : e # d => wire'[e][p] = wire[e][p]
           /\ \E n \in Nat : /\ sent[d] + n <= MaxRequests
                             /\ sent' = [sent EXCEPT ![d] = @ + n]
                             /\ counter' = [counter EXCEPT ![d] = (@ + n) % NumIds]
           /\ facadeSubs' \in [Devices -> Seq(Shown)] /\ facadeSubs'[d] = <<>>
           /\ \A e \in Devices : e # d => facadeSubs'[e] = facadeSubs[e]
           /\ UNCHANGED <<clientSubs, ruleSubs, serviceSubs, lastId, rejected>>
<1> DEFINE n == Len(facadeSubs[d])
           none == <<>>
           row == [p \in Devices |-> wire[d][p] \o PartingTo(d, p)]
<1>1. /\ "terminate" \in scenario.hosts /\ sent[d] + n <= MaxRequests
      /\ sent' = [sent EXCEPT ![d] = @ + n]
      /\ counter' = [counter EXCEPT ![d] = (@ + n) % NumIds]
      /\ facadeSubs' = [facadeSubs EXCEPT ![d] = none]
      /\ UNCHANGED <<clientSubs, ruleSubs, serviceSubs, lastId, rejected>>
  BY DEF Terminate, clientVars
<1>2. wire' = [wire EXCEPT ![d] = row]
  BY DEF Terminate, PartingTo, Parting
<1>3. /\ wire \in [Devices -> [Devices -> Seq(Messages)]]
      /\ facadeSubs \in [Devices -> Seq(Shown)]
  BY TypesAre DEF Lines
<1>4. n \in Nat
  BY <1>3, LenProperties
<1>5. none \in Seq(Shown)
  OBVIOUS
<1>6. row \in [Devices -> Seq(Messages)] /\ \A p \in Devices : row[p] = wire[d][p] \o PartingTo(d, p)
  <2>1. \A p \in Devices : wire[d][p] \o PartingTo(d, p) \in Seq(Messages)
    BY <1>3, PartingIs, ConcatProperties
  <2> QED
    BY <2>1
<1> HIDE DEF n, row, none
<1>7. /\ facadeSubs' \in [Devices -> Seq(Shown)] /\ facadeSubs'[d] = none
      /\ \A e \in Devices : e # d => facadeSubs'[e] = facadeSubs[e]
  BY <1>1, <1>3, <1>5, PlaceIs
<1>8. /\ wire' \in [Devices -> [Devices -> Seq(Messages)]] /\ wire'[d] = row
      /\ \A e \in Devices : e # d => wire'[e] = wire[e]
  BY <1>2, <1>3, <1>6, PlaceIs
<1>9. wire' \in Lines
  BY <1>8 DEF Lines
<1>10. \A p \in Devices : wire'[d][p] = wire[d][p] \o PartingTo(d, p)
  BY <1>6, <1>8
<1> QED
  BY <1>1, <1>4, <1>7, <1>8, <1>9, <1>10 DEF none

\* The notifications of a value, to one subscriber after the other.
Updates(d, x) ==
    LET subs == Picked(serviceSubs[d], Of(serviceSubs[d], x))
    IN  [i \in 1 .. Len(subs) |->
            Message("none", x, subs[i].id, (counter[d] + i) % NumIds)]

LEMMA UpdatesAre ==
    ASSUME TypeOK, NEW d \in Devices, NEW x \in Props
    PROVE  /\ Updates(d, x) \in Seq(Messages)
           /\ \A i \in 1 .. Len(Updates(d, x)) : Updates(d, x)[i].command = "none"
<1> DEFINE list == serviceSubs[d]
           subs == Picked(list, Of(list, x))
           n == Len(subs)
           Update(i) == Message("none", x, subs[i].id, (counter[d] + i) % NumIds)
           all == [i \in 1 .. n |-> Update(i)]
<1>1. list \in Seq(Served)
  BY TypesAre
<1>2. Of(list, x) \in SUBSET (1 .. Len(list))
  BY DEF Of
<1> HIDE DEF list
<1>3. subs \in Seq(Served)
  BY <1>1, <1>2, PickedIs
<1>4. Updates(d, x) = all
  BY DEF Updates, list
<1> HIDE DEF subs
<1>5. n \in Nat /\ \A i \in 1 .. n : subs[i] \in Served
  BY <1>3, LenProperties, ElementOfSeq
<1>6. ASSUME NEW i \in 1 .. n
      PROVE  Update(i) \in Messages /\ Update(i).command = "none"
  <2> DEFINE k == counter[d]
             r == (counter[d] + i) % NumIds
             id == subs[i].id
  <2>1. k \in Nat /\ i \in Nat
    BY <1>5, TypesAre, Numbers
  <2>2. r = (k + i) % NumIds
    OBVIOUS
  <2>3. id \in SubIds \cup {NoId}
    BY <1>5 DEF Served
  <2> HIDE DEF k, r, id
  <2>4. k + i \in Nat
    BY <2>1
  <2>5. r \in 0 .. NumIds - 1
    BY <2>2, <2>4, Modulo
  <2>6. /\ Message("none", x, id, r) \in Messages
        /\ Message("none", x, id, r).command = "none"
    BY <2>3, <2>5, MessageIs
  <2> QED
    BY <2>6 DEF r, id
<1> HIDE DEF n, Update
<1>7. all \in Seq(Messages) /\ Len(all) = n /\ \A i \in 1 .. n : all[i] = Update(i)
  <2>1. \A i \in 1 .. n : Update(i) \in Messages
    BY <1>6
  <2> QED
    BY <1>5, <2>1, IsASeq
<1> HIDE DEF all
<1> QED
  BY <1>4, <1>6, <1>7

LEMMA SetPropertyIs ==
    ASSUME TypeOK, NEW d \in Devices, NEW x \in Props, SetProperty(d, x)
    PROVE  /\ wire' \in Lines
           /\ wire'[d][d] = wire[d][d]
           /\ \A p \in Devices : p # d => wire'[d][p] = wire[d][p] \o Updates(d, x)
           /\ \A e, p \in Devices : e # d => wire'[e][p] = wire[e][p]
           /\ \E n \in Nat : /\ sent[d] + n <= MaxRequests
                             /\ sent' = [sent EXCEPT ![d] = @ + n]
                             /\ counter' = [counter EXCEPT ![d] = (@ + n) % NumIds]
           /\ UNCHANGED <<clientSubs, ruleSubs, serviceSubs, facadeSubs, lastId, rejected>>
<1> DEFINE n == Len(Picked(serviceSubs[d], Of(serviceSubs[d], x)))
           row == [p \in Devices |-> IF p = d THEN wire[d][d] ELSE wire[d][p] \o Updates(d, x)]
<1>1. /\ sent[d] + n <= MaxRequests
      /\ sent' = [sent EXCEPT ![d] = @ + n]
      /\ counter' = [counter EXCEPT ![d] = (@ + n) % NumIds]
      /\ UNCHANGED <<clientSubs, ruleSubs, serviceSubs, facadeSubs, lastId, rejected>>
  BY DEF SetProperty, clientVars, hostVars
<1>2. wire' = [wire EXCEPT ![d] = row]
  BY DEF SetProperty, Updates
<1>3. wire \in [Devices -> [Devices -> Seq(Messages)]] /\ serviceSubs[d] \in Seq(Served)
  BY TypesAre DEF Lines
<1>4. n \in Nat
  <2>1. Of(serviceSubs[d], x) \in SUBSET (1 .. Len(serviceSubs[d]))
    BY DEF Of
  <2>2. Picked(serviceSubs[d], Of(serviceSubs[d], x)) \in Seq(Served)
    BY <1>3, <2>1, PickedIs
  <2> QED
    BY <2>2, LenProperties
<1>6. /\ row \in [Devices -> Seq(Messages)] /\ row[d] = wire[d][d]
      /\ \A p \in Devices : p # d => row[p] = wire[d][p] \o Updates(d, x)
  <2>1. \A p \in Devices : wire[d][p] \o Updates(d, x) \in Seq(Messages)
    BY <1>3, UpdatesAre, ConcatProperties
  <2> QED
    BY <1>3, <2>1
<1> HIDE DEF n, row
<1>8. /\ wire' \in [Devices -> [Devices -> Seq(Messages)]] /\ wire'[d] = row
      /\ \A e \in Devices : e # d => wire'[e] = wire[e]
  BY <1>2, <1>3, <1>6, PlaceIs
<1>9. wire' \in Lines
  BY <1>8 DEF Lines
<1> QED
  BY <1>1, <1>4, <1>6, <1>8, <1>9

LEMMA RemovePropertyIs ==
    ASSUME TypeOK, NEW d \in Devices, NEW x \in Props, RemoveProperty(d, x)
    PROVE  /\ "remove" \in scenario.hosts
           /\ facadeSubs' \in [Devices -> Seq(Shown)]
           /\ \A i \in 1 .. Len(facadeSubs'[d]) :
                \E j \in 1 .. Len(facadeSubs[d]) : facadeSubs'[d][i] = facadeSubs[d][j]
           /\ \A e \in Devices : e # d => facadeSubs'[e] = facadeSubs[e]
           /\ UNCHANGED <<clientSubs, ruleSubs, serviceSubs, lastId, counter, sent,
                          wire, rejected>>
<1> DEFINE list == facadeSubs[d]
           I == 1 .. Len(list) \ Of(list, x)
           new == Picked(list, I)
<1>1. /\ "remove" \in scenario.hosts
      /\ facadeSubs' = [facadeSubs EXCEPT ![d] = new]
      /\ UNCHANGED <<clientSubs, ruleSubs, serviceSubs, lastId, counter, sent, wire, rejected>>
  BY DEF RemoveProperty, clientVars
<1>2. facadeSubs \in [Devices -> Seq(Shown)] /\ list \in Seq(Shown)
  BY TypesAre
<1>3. I \in SUBSET (1 .. Len(list))
  OBVIOUS
<1> HIDE DEF I, list
<1>4. new \in Seq(Shown) /\ \A n \in 1 .. Len(new) : \E i \in I : new[n] = list[i]
  BY <1>2, <1>3, PickedIs
<1>5. \A n \in 1 .. Len(new) : \E i \in 1 .. Len(list) : new[n] = list[i]
  BY <1>3, <1>4
<1> HIDE DEF new
<1>6. /\ facadeSubs' \in [Devices -> Seq(Shown)] /\ facadeSubs'[d] = new
      /\ \A e \in Devices : e # d => facadeSubs'[e] = facadeSubs[e]
  BY <1>1, <1>2, <1>4, PlaceIs
<1> QED
  BY <1>1, <1>5, <1>6 DEF list

-----------------------------------------------------------------------------
\* Client side.

LEMMA DropTypes ==
    ASSUME NEW S, NEW list \in Seq(S), NEW i \in 0 .. Len(list)
    PROVE  Drop(list, i) \in Seq(S)
<1>1. Len(list) \in Nat
  BY LenProperties
<1>2. CASE i = 0
  BY <1>2, DropNone
<1>3. CASE i # 0
  <2>1. i \in 1 .. Len(list)
    BY <1>1, <1>3
  <2> QED
    BY <2>1, DropIs
<1> QED
  BY <1>2, <1>3

\* What the rules make of the result of a request for x.
LEMMA RulesResultIs ==
    ASSUME NEW rules \in Seq(Rules), NEW x \in Props, NEW id \in SubIds \cup {NoId}
    PROVE  LET new == RulesResult(rules, x, id) IN
           /\ new \in Seq(Rules)
           /\ id = NoId => new = rules
           /\ id # NoId => \E j \in 1 .. Len(new) : new[j] = [prop |-> x, id |-> id]
           /\ \A i \in 1 .. Len(rules) : rules[i].prop # x =>
                \E j \in 1 .. Len(new) : new[j] = rules[i]
<1>1. CASE id = NoId
  <2>1. RulesResult(rules, x, id) = rules
    BY <1>1 DEF RulesResult
  <2> QED
    BY <1>1, <2>1
<1>2. CASE id # NoId
  <2> DEFINE k == First(Of(rules, x))
             less == Drop(rules, k)
             e == [prop |-> x, id |-> id]
             new == Append(less, e)
             n == Len(rules)
  <2>1. RulesResult(rules, x, id) = new
    BY <1>2 DEF RulesResult
  <2>2. k \in 0 .. n /\ n \in Nat /\ (k # 0 => k \in 1 .. n /\ rules[k].prop = x)
    BY FirstOfIs
  <2>3. e \in Rules
    BY <1>2 DEF Rules
  <2> HIDE DEF k, e
  <2>4. less \in Seq(Rules)
    BY <2>2, DropTypes
  <2>5. ASSUME NEW i \in 1 .. n, rules[i].prop # x
        PROVE  \E j \in 1 .. Len(less) : less[j] = rules[i]
    <3>1. CASE k = 0
      BY <2>5, <3>1, DropNone
    <3>2. CASE k # 0
      <4>1. k \in 1 .. n /\ i # k
        BY <2>2, <2>5, <3>2
      <4>2. /\ Len(less) = n - 1
            /\ \A j \in 1 .. n - 1 : less[j] = IF j < k THEN rules[j] ELSE rules[j + 1]
        BY <4>1, DropIs
      <4> HIDE DEF less, n
      <4>3. CASE i < k
        <5>1. i \in 1 .. n - 1
          BY <2>2, <4>1, <4>3
        <5> QED
          BY <4>2, <4>3, <5>1
      <4>4. CASE i > k
        <5>1. i - 1 \in 1 .. n - 1 /\ ~(i - 1 < k) /\ i - 1 + 1 = i
          BY <2>2, <4>1, <4>4
        <5> QED
          BY <4>2, <5>1
      <4>5. i < k \/ i > k
        BY <2>2, <4>1
      <4> QED
        BY <4>3, <4>4, <4>5
    <3> QED
      BY <3>1, <3>2
  <2> HIDE DEF less
  <2>6. /\ new \in Seq(Rules) /\ Len(less) \in Nat /\ Len(new) = Len(less) + 1
        /\ \A i \in 1 .. Len(less) : new[i] = less[i]
        /\ new[Len(less) + 1] = e
    BY <2>3, <2>4, AppendAt
  <2> HIDE DEF new
  <2>7. Len(less) + 1 \in 1 .. Len(new) /\ \A i \in 1 .. Len(less) : i \in 1 .. Len(new)
    BY <2>6
  <2>8. \A i \in 1 .. n : rules[i].prop # x => \E j \in 1 .. Len(new) : new[j] = rules[i]
    BY <2>5, <2>6, <2>7
  <2> QED
    BY <1>2, <2>1, <2>6, <2>7, <2>8 DEF e, n
<1> QED
  BY <1>1, <1>2

\* The entry a reply is about.
AnsweredAt(subs, m) == First({j \in 1 .. Len(subs) : Answered(subs[j], m)})

LEMMA AnsweredAtIs ==
    ASSUME NEW subs \in Seq(Subs), NEW m
    PROVE  LET i == AnsweredAt(subs, m) IN
           /\ i \in 0 .. Len(subs) /\ Len(subs) \in Nat
           /\ i # 0 => i \in 1 .. Len(subs) /\ Answered(subs[i], m)
           /\ \A j \in 1 .. Len(subs) : Answered(subs[j], m) => i # 0
<1> DEFINE n == Len(subs)
           I == {j \in 1 .. n : Answered(subs[j], m)}
<1>1. n \in Nat
  BY LenProperties
<1>2. I \in SUBSET (1 .. n) /\ \A j \in I : Answered(subs[j], m)
  OBVIOUS
<1>3. \A j \in 1 .. n : Answered(subs[j], m) => j \in I
  OBVIOUS
<1>4. AnsweredAt(subs, m) = First(I)
  BY DEF AnsweredAt
<1> HIDE DEF I, n
<1>5. First(I) \in 0 .. n /\ (First(I) = 0 <=> I = {}) /\ (I # {} => First(I) \in I)
  BY <1>1, <1>2, FirstIs
<1>6. First(I) # 0 => First(I) \in 1 .. n /\ Answered(subs[First(I)], m)
  BY <1>2, <1>5
<1>7. \A j \in 1 .. n : Answered(subs[j], m) => First(I) # 0
  BY <1>3, <1>5
<1> QED
  BY <1>1, <1>4, <1>5, <1>6, <1>7 DEF n

\* Whether a reply is dropped, and what becomes of the list.
Ignored(subs, m) ==
    LET i == AnsweredAt(subs, m)
    IN  \/ i = 0
        \/ m.id = NoId /\ subs[i].state # "Unsubscribing"
        \/ subs[i].state = "Subscribed"

AfterReply(subs, m) ==
    LET i == AnsweredAt(subs, m)
    IN  IF subs[i].state = "Unsubscribing" THEN Drop(subs, i)
        ELSE AsSubscribed(subs, i, m.id)

LEMMA ClientReplyIs ==
    ASSUME TypeOK, NEW d \in Devices, NEW p \in Devices, NEW m \in Messages,
           NEW w \in Lines, ClientReply(d, p, m, w)
    PROVE  LET subs == clientSubs[d][p]
               i == AnsweredAt(subs, m)
           IN
           /\ wire' = w
           /\ Ignored(subs, m) => UNCHANGED <<clientSubs, ruleSubs>>
           /\ ~Ignored(subs, m) =>
                /\ i \in 1 .. Len(subs) /\ Answered(subs[i], m)
                /\ clientSubs'[d][p] = AfterReply(subs, m)
                /\ ruleSubs'[d][p] = RulesResult(ruleSubs[d][p], subs[i].prop, m.id)
           /\ clientSubs' \in [Devices -> [Devices -> Seq(Subs)]]
           /\ ruleSubs' \in [Devices -> [Devices -> Seq(Rules)]]
           /\ \A e, f \in Devices : e # d \/ f # p =>
                clientSubs'[e][f] = clientSubs[e][f] /\ ruleSubs'[e][f] = ruleSubs[e][f]
           /\ UNCHANGED <<facadeSubs, serviceSubs, lastId, rejected>>
<1> DEFINE subs == clientSubs[d][p]
           rules == ruleSubs[d][p]
           i == AnsweredAt(subs, m)
           ig == Ignored(subs, m)
           new == AfterReply(subs, m)
           res == RulesResult(rules, subs[i].prop, m.id)
<1>1. /\ wire' = w
      /\ IF ig THEN UNCHANGED clientVars
         ELSE /\ clientSubs' = [clientSubs EXCEPT ![d][p] = new]
              /\ ruleSubs' = [ruleSubs EXCEPT ![d][p] = res]
      /\ UNCHANGED <<hostVars, rejected>>
  BY DEF ClientReply, Ignored, AfterReply, AnsweredAt
<1>2. /\ clientSubs \in [Devices -> [Devices -> Seq(Subs)]]
      /\ ruleSubs \in [Devices -> [Devices -> Seq(Rules)]]
  BY TypesAre
<1>3. subs \in Seq(Subs) /\ rules \in Seq(Rules) /\ m.id \in SubIds \cup {NoId}
  BY <1>2, Fields
<1>4. UNCHANGED <<facadeSubs, serviceSubs, lastId, rejected>>
  BY <1>1 DEF hostVars
<1>5. CASE ig
  <2>1. UNCHANGED <<clientSubs, ruleSubs>>
    BY <1>1, <1>5 DEF clientVars
  <2> QED
    BY <1>1, <1>2, <1>4, <1>5, <2>1
<1>6. CASE ~ig
  <2>1. /\ clientSubs' = [clientSubs EXCEPT ![d][p] = new]
        /\ ruleSubs' = [ruleSubs EXCEPT ![d][p] = res]
    BY <1>1, <1>6
  <2>2. i \in 1 .. Len(subs) /\ Answered(subs[i], m)
    BY <1>3, <1>6, AnsweredAtIs DEF Ignored
  <2>3. subs[i] \in Subs
    BY <1>3, <2>2, ElementOfSeq
  <2>4. subs[i].prop \in Props
    BY <2>3 DEF Subs
  <2>5. new \in Seq(Subs)
    <3>1. new = IF subs[i].state = "Unsubscribing" THEN Drop(subs, i)
                ELSE AsSubscribed(subs, i, m.id)
      BY DEF AfterReply
    <3> HIDE DEF new, i, subs
    <3>2. Drop(subs, i) \in Seq(Subs) /\ AsSubscribed(subs, i, m.id) \in Seq(Subs)
      BY <1>3, <2>2, DropIs, AsSubscribedIs
    <3> QED
      BY <3>1, <3>2
  <2>6. res \in Seq(Rules)
    BY <1>3, <2>4, RulesResultIs
  <2> HIDE DEF new, res, ig, i
  <2>7. /\ clientSubs' \in [Devices -> [Devices -> Seq(Subs)]] /\ clientSubs'[d][p] = new
        /\ \A e, f \in Devices : e # d \/ f # p => clientSubs'[e][f] = clientSubs[e][f]
    BY <1>2, <2>1, <2>5, TableIs
  <2>8. /\ ruleSubs' \in [Devices -> [Devices -> Seq(Rules)]] /\ ruleSubs'[d][p] = res
        /\ \A e, f \in Devices : e # d \/ f # p => ruleSubs'[e][f] = ruleSubs[e][f]
    BY <1>2, <2>1, <2>6, TableIs
  <2> QED
    BY <1>1, <1>4, <1>6, <2>2, <2>7, <2>8 DEF new, res, ig, i
<1> QED
  BY <1>5, <1>6

\* The entry the host's end is about.
EndedAt(subs, m) ==
    First({i \in 1 .. Len(subs) : (subs[i].id # NoId /\ subs[i].id = m.id) \/ subs[i].prop = m.prop})

LEMMA EndedAtIs ==
    ASSUME NEW subs \in Seq(Subs), NEW m
    PROVE  /\ EndedAt(subs, m) \in 0 .. Len(subs)
           /\ m.id = NoId => EndedAt(subs, m) = First(Of(subs, m.prop))
<1> DEFINE n == Len(subs)
           I == {i \in 1 .. n : (subs[i].id # NoId /\ subs[i].id = m.id) \/ subs[i].prop = m.prop}
<1>1. n \in Nat
  BY LenProperties
<1>2. EndedAt(subs, m) = First(I) /\ I \in SUBSET (1 .. n)
  BY DEF EndedAt
<1>3. m.id = NoId => I = Of(subs, m.prop)
  BY DEF Of
<1> HIDE DEF I, n
<1>4. First(I) \in 0 .. n
  BY <1>1, <1>2, FirstIs
<1> QED
  BY <1>2, <1>3, <1>4 DEF n

LEMMA ClientEndIs ==
    ASSUME TypeOK, NEW d \in Devices, NEW p \in Devices, NEW m \in Messages,
           NEW w \in Lines, ClientEnd(d, p, m, w)
    PROVE  LET r == Message("reply", m.prop, NoId, m.req) IN
           /\ r \in Messages /\ wire' \in Lines /\ wire' = Push(w, d, p, r)
           /\ clientSubs' \in [Devices -> [Devices -> Seq(Subs)]]
           /\ clientSubs'[d][p] = Drop(clientSubs[d][p], EndedAt(clientSubs[d][p], m))
           /\ \A e, f \in Devices : e # d \/ f # p => clientSubs'[e][f] = clientSubs[e][f]
           /\ UNCHANGED <<ruleSubs, facadeSubs, serviceSubs, lastId, rejected>>
<1> DEFINE r == Message("reply", m.prop, NoId, m.req)
           new == Drop(clientSubs[d][p], EndedAt(clientSubs[d][p], m))
<1>1. /\ clientSubs' = [clientSubs EXCEPT ![d][p] = new]
      /\ wire' = Push(w, d, p, r)
      /\ UNCHANGED <<ruleSubs, facadeSubs, serviceSubs, lastId, rejected>>
  BY DEF ClientEnd, EndedAt, hostVars
<1>2. clientSubs \in [Devices -> [Devices -> Seq(Subs)]]
  BY TypesAre
<1>3. r \in Messages
  BY Fields, MessageIs
<1>4. new \in Seq(Subs)
  BY <1>2, EndedAtIs, DropTypes
<1> HIDE DEF r, new
<1>5. wire' \in Lines
  BY <1>1, <1>3, PushIs
<1>6. /\ clientSubs' \in [Devices -> [Devices -> Seq(Subs)]] /\ clientSubs'[d][p] = new
      /\ \A e, f \in Devices : e # d \/ f # p => clientSubs'[e][f] = clientSubs[e][f]
  BY <1>1, <1>2, <1>4, TableIs
<1> QED
  BY <1>1, <1>3, <1>5, <1>6 DEF r, new

-----------------------------------------------------------------------------
\* Receiving.

Taken(d, p) == [wire EXCEPT ![p][d] = Tail(@)]

LEMMA ReceiveIs ==
    ASSUME TypeOK, NEW d \in Devices, NEW p \in Devices, Receive(d, p)
    PROVE  LET m == Head(wire[p][d])
               w == Taken(d, p)
           IN
           /\ wire[p][d] # <<>> /\ m \in Messages /\ w \in Lines
           /\ w[p][d] = Tail(wire[p][d])
           /\ \A e, f \in Devices : e # p \/ f # d => w[e][f] = wire[e][f]
           /\ UNCHANGED <<counter, sent>>
           /\ \/ m.command = "start" /\ HostStart(d, p, m, w)
              \/ m.command = "end" /\ <<d, p>> \in Connected /\ ClientEnd(d, p, m, w)
              \/ m.command = "end" /\ <<d, p>> \notin Connected /\ HostEnd(d, p, m, w)
              \/ m.command = "reply" /\ <<d, p>> \in Connected /\ ClientReply(d, p, m, w)
              \/ /\ m.command = "reply" /\ <<d, p>> \notin Connected
                 /\ wire' = w /\ UNCHANGED <<clientVars, hostVars, rejected>>
              \/ m.command = "none" /\ Reject(d, p, m, w)
<1>1. wire \in Lines /\ wire[p][d] # <<>>
  BY TypesAre DEF Receive
<1>2. /\ Taken(d, p) \in Lines /\ Taken(d, p)[p][d] = Tail(wire[p][d])
      /\ \A e, f \in Devices : e # p \/ f # d => Taken(d, p)[e][f] = wire[e][f]
      /\ Head(wire[p][d]) \in Messages
  BY <1>1, TakenIs DEF Taken
<1> QED
  BY <1>1, <1>2 DEF Receive, Taken

LEMMA ReceiveTypes ==
    ASSUME TypeOK, NEW d \in Devices, NEW p \in Devices, Receive(d, p), UNCHANGED scenario
    PROVE  TypeOK'
<1> DEFINE m == Head(wire[p][d])
           w == Taken(d, p)
<1>1. /\ m \in Messages /\ w \in Lines /\ UNCHANGED <<counter, sent>>
      /\ \/ m.command = "start" /\ HostStart(d, p, m, w)
         \/ m.command = "end" /\ <<d, p>> \in Connected /\ ClientEnd(d, p, m, w)
         \/ m.command = "end" /\ <<d, p>> \notin Connected /\ HostEnd(d, p, m, w)
         \/ m.command = "reply" /\ <<d, p>> \in Connected /\ ClientReply(d, p, m, w)
         \/ /\ m.command = "reply" /\ <<d, p>> \notin Connected
            /\ wire' = w /\ UNCHANGED <<clientVars, hostVars, rejected>>
         \/ m.command = "none" /\ Reject(d, p, m, w)
  BY ReceiveIs
<1> HIDE DEF m, w
<1>2. CASE HostStart(d, p, m, w)
  <2>1. /\ lastId' = lastId + 1 /\ lastId \in Nat /\ wire' \in Lines
        /\ serviceSubs' \in [Devices -> Seq(Served)] /\ facadeSubs' \in [Devices -> Seq(Shown)]
        /\ UNCHANGED <<clientSubs, ruleSubs, rejected>>
    BY <1>1, <1>2, HostStartIs
  <2>2. lastId' \in Nat
    BY <2>1
  <2> QED
    BY <1>1, <2>1, <2>2, TypesAre, NextTypesAre
<1>3. CASE HostEnd(d, p, m, w)
  <2>1. /\ wire' \in Lines /\ UNCHANGED <<clientSubs, ruleSubs, lastId, rejected>>
        /\ serviceSubs' \in [Devices -> Seq(Served)] /\ facadeSubs' \in [Devices -> Seq(Shown)]
    BY <1>1, <1>3, HostEndIs
  <2> QED
    BY <1>1, <2>1, TypesAre, NextTypesAre
<1>4. CASE ClientReply(d, p, m, w)
  <2>1. /\ wire' = w /\ UNCHANGED <<facadeSubs, serviceSubs, lastId, rejected>>
        /\ clientSubs' \in [Devices -> [Devices -> Seq(Subs)]]
        /\ ruleSubs' \in [Devices -> [Devices -> Seq(Rules)]]
    BY <1>1, <1>4, ClientReplyIs
  <2> QED
    BY <1>1, <2>1, TypesAre, NextTypesAre
<1>5. CASE ClientEnd(d, p, m, w)
  <2>1. /\ wire' \in Lines /\ UNCHANGED <<ruleSubs, facadeSubs, serviceSubs, lastId, rejected>>
        /\ clientSubs' \in [Devices -> [Devices -> Seq(Subs)]]
    BY <1>1, <1>5, ClientEndIs
  <2> QED
    BY <1>1, <2>1, TypesAre, NextTypesAre
<1>6. CASE wire' = w /\ UNCHANGED <<clientVars, hostVars, rejected>>
  BY <1>1, <1>6, TypesAre, NextTypesAre DEF clientVars, hostVars
<1>7. CASE Reject(d, p, m, w)
  <2>1. /\ wire' = w /\ UNCHANGED <<clientSubs, ruleSubs, facadeSubs, serviceSubs, lastId>>
        /\ rejected' = IF m.id = NoId THEN rejected ELSE rejected \cup {<<d, p, m.id>>}
    BY <1>7 DEF Reject, clientVars, hostVars
  <2>2. rejected' \subseteq Devices \X Devices \X SubIds
    <3>1. m.id \in SubIds \cup {NoId} /\ rejected \subseteq Devices \X Devices \X SubIds
      BY <1>1, Fields, TypesAre
    <3> QED
      BY <2>1, <3>1
  <2> QED
    BY <1>1, <2>1, <2>2, TypesAre, NextTypesAre
<1> QED
  BY <1>1, <1>2, <1>3, <1>4, <1>5, <1>6, <1>7

LEMMA TypeInit ==
    ASSUME Init
    PROVE  TypeOK
<1> DEFINE none == <<>>
<1>1. /\ clientSubs = [d \in Devices |-> [p \in Devices |-> none]]
      /\ ruleSubs = [d \in Devices |-> [p \in Devices |-> none]]
      /\ facadeSubs = [p \in Devices |-> none] /\ serviceSubs = [p \in Devices |-> none]
      /\ counter = [d \in Devices |-> 0] /\ sent = [d \in Devices |-> 0] /\ lastId = 0
      /\ wire = [d \in Devices |-> [p \in Devices |-> none]]
      /\ rejected = {} /\ scenario \in Scenarios
  BY DEF Init
<1>2. /\ none \in Seq(Subs) /\ none \in Seq(Rules) /\ none \in Seq(Shown)
      /\ none \in Seq(Served) /\ none \in Seq(Messages)
  OBVIOUS
<1>3. 0 \in 0 .. NumIds - 1 /\ 0 \in 0 .. MaxRequests
  BY Numbers
<1> HIDE DEF none
<1>4. wire \in Lines
  BY <1>1, <1>2 DEF Lines
<1> QED
  BY <1>1, <1>2, <1>3, <1>4, TypesAre

\* The steps of Next.
LEMMA NextIs ==
    ASSUME Next
    PROVE  /\ UNCHANGED scenario
           /\ \E d \in Devices :
                \/ \E x \in Props : RemoveProperty(d, x) \/ SetProperty(d, x)
                \/ \E p \in Devices, x \in Props :
                    Subscribe(d, p, x) \/ Unsubscribe(d, p, x) \/ Shutdown(d, p, x)
                \/ Terminate(d)
                \/ \E p \in Devices : Receive(d, p)
  BY DEF Next

LEMMA TypeStep ==
    ASSUME TypeOK, [Next]_vars
    PROVE  TypeOK'
<1>1. CASE UNCHANGED vars
  BY <1>1, TypesAre, NextTypesAre DEF vars
<1>2. CASE Next
  <2>1. PICK d \in Devices :
            \/ \E x \in Props : RemoveProperty(d, x) \/ SetProperty(d, x)
            \/ \E p \in Devices, x \in Props :
                Subscribe(d, p, x) \/ Unsubscribe(d, p, x) \/ Shutdown(d, p, x)
            \/ Terminate(d)
            \/ \E p \in Devices : Receive(d, p)
    BY <1>2, NextIs
  <2>2. UNCHANGED scenario
    BY <1>2, NextIs
  <2>3. ASSUME NEW x \in Props, RemoveProperty(d, x) PROVE TypeOK'
    BY <2>2, <2>3, RemovePropertyIs, TypesAre, NextTypesAre
  <2>4. ASSUME NEW x \in Props, SetProperty(d, x) PROVE TypeOK'
    <3>1. /\ wire' \in Lines
          /\ UNCHANGED <<clientSubs, ruleSubs, serviceSubs, facadeSubs, lastId, rejected>>
          /\ \E n \in Nat : /\ sent[d] + n <= MaxRequests
                            /\ sent' = [sent EXCEPT ![d] = @ + n]
                            /\ counter' = [counter EXCEPT ![d] = (@ + n) % NumIds]
      BY <2>4, SetPropertyIs
    <3>2. sent' \in [Devices -> 0 .. MaxRequests] /\ counter' \in [Devices -> 0 .. NumIds - 1]
      BY <3>1, CountIs
    <3> QED
      BY <2>2, <3>1, <3>2, TypesAre, NextTypesAre
  <2>5. ASSUME Terminate(d) PROVE TypeOK'
    <3>1. /\ wire' \in Lines /\ facadeSubs' \in [Devices -> Seq(Shown)]
          /\ UNCHANGED <<clientSubs, ruleSubs, serviceSubs, lastId, rejected>>
          /\ \E n \in Nat : /\ sent[d] + n <= MaxRequests
                            /\ sent' = [sent EXCEPT ![d] = @ + n]
                            /\ counter' = [counter EXCEPT ![d] = (@ + n) % NumIds]
      BY <2>5, TerminateIs
    <3>2. sent' \in [Devices -> 0 .. MaxRequests] /\ counter' \in [Devices -> 0 .. NumIds - 1]
      BY <3>1, CountIs
    <3> QED
      BY <2>2, <3>1, <3>2, TypesAre, NextTypesAre
  <2>6. ASSUME NEW p \in Devices, NEW x \in Props, Shutdown(d, p, x) PROVE TypeOK'
    <3>1. /\ facadeSubs' \in [Devices -> Seq(Shown)]
          /\ \E command \in {"end", "none"} : SendRequest(d, p, command, x, NoId)
          /\ UNCHANGED <<clientSubs, ruleSubs, serviceSubs, lastId, rejected>>
      BY <2>6, ShutdownIs
    <3>2. /\ sent' \in [Devices -> 0 .. MaxRequests] /\ counter' \in [Devices -> 0 .. NumIds - 1]
          /\ wire' \in Lines
      BY <3>1, SendIs
    <3> QED
      BY <2>2, <3>1, <3>2, TypesAre, NextTypesAre
  <2> QED
    BY <2>1, <2>2, <2>3, <2>4, <2>5, <2>6, SubscribeTypes, UnsubscribeTypes, ReceiveTypes
<1> QED
  BY <1>1, <1>2

\* Every variable keeps its type, in every behaviour.
THEOREM TypeCorrect == Spec => []TypeOK
<1>1. Init => TypeOK
  BY TypeInit
<1>2. TypeOK /\ [Next]_vars => TypeOK'
  BY TypeStep
<1> QED
  BY <1>1, <1>2, PTL DEF Spec

-----------------------------------------------------------------------------
(* What is in the lists and on the lines belongs to a subscription that    *)
(* the applications use.                                                   *)

Elems(list) == {list[i] : i \in 1 .. Len(list)}

LEMMA ElemsAppend ==
    ASSUME NEW S, NEW list \in Seq(S), NEW e \in S
    PROVE  Elems(Append(list, e)) = Elems(list) \cup {e}
<1> DEFINE n == Len(list)
           new == Append(list, e)
<1>1. /\ n \in Nat /\ Len(new) = n + 1
      /\ \A i \in 1 .. n : new[i] = list[i]
      /\ new[n + 1] = e
  BY AppendAt
<1> HIDE DEF new
<1>2. ASSUME NEW a \in Elems(new) PROVE a \in Elems(list) \cup {e}
  <2>1. PICK i \in 1 .. Len(new) : a = new[i]
    BY DEF Elems
  <2>2. i \in 1 .. n \/ i = n + 1
    <3> HIDE DEF n
    <3> QED
      BY <1>1, <2>1
  <2> QED
    BY <1>1, <2>1, <2>2 DEF Elems
<1>3. ASSUME NEW a \in Elems(list) \cup {e} PROVE a \in Elems(new)
  <2> HIDE DEF n
  <2>1. CASE a = e
    <3>1. n + 1 \in 1 .. Len(new)
      BY <1>1
    <3> QED
      BY <1>1, <2>1, <3>1 DEF Elems
  <2>2. CASE a \in Elems(list)
    <3>1. PICK i \in 1 .. n : a = list[i]
      BY <2>2 DEF Elems, n
    <3>2. i \in 1 .. Len(new)
      BY <1>1
    <3> QED
      BY <1>1, <3>1, <3>2 DEF Elems
  <2> QED
    BY <2>1, <2>2
<1> QED
  BY <1>2, <1>3 DEF new

LEMMA ElemsTail ==
    ASSUME NEW S, NEW list \in Seq(S), list # <<>>
    PROVE  Elems(Tail(list)) \subseteq Elems(list) /\ Head(list) \in Elems(list)
<1> DEFINE new == Tail(list)
<1>1. /\ Head(list) = list[1] /\ 1 \in 1 .. Len(list)
      /\ \A i \in 1 .. Len(new) : i + 1 \in 1 .. Len(list) /\ new[i] = list[i + 1]
  BY TailIs
<1> HIDE DEF new
<1>2. Elems(new) \subseteq Elems(list)
  BY <1>1 DEF Elems
<1>3. Head(list) \in Elems(list)
  BY <1>1 DEF Elems
<1> QED
  BY <1>2, <1>3 DEF new

LEMMA ElemsConcat ==
    ASSUME NEW S, NEW a \in Seq(S), NEW b \in Seq(S)
    PROVE  Elems(a \o b) = Elems(a) \cup Elems(b)
<1> DEFINE l == a \o b
           n == Len(a)
<1>0. Joined(a, n, b, l)
  BY ConcatIs
<1> HIDE DEF l, n
<1>1. /\ \A i \in 1 .. n : i \in 1 .. Len(l) /\ l[i] = a[i]
      /\ \A j \in 1 .. Len(b) : n + j \in 1 .. Len(l) /\ l[n + j] = b[j]
      /\ \A i \in 1 .. Len(l) : i \in 1 .. n \/ \E j \in 1 .. Len(b) : i = n + j
  BY <1>0 DEF Joined
<1> USE DEF n
<1>2. ASSUME NEW e \in Elems(l) PROVE e \in Elems(a) \cup Elems(b)
  <2>1. PICK i \in 1 .. Len(l) : e = l[i]
    BY DEF Elems
  <2> QED
    BY <1>1, <2>1 DEF Elems
<1>3. ASSUME NEW e \in Elems(a) PROVE e \in Elems(l)
  BY <1>1 DEF Elems
<1>4. ASSUME NEW e \in Elems(b) PROVE e \in Elems(l)
  <2>1. PICK j \in 1 .. Len(b) : e = b[j]
    BY DEF Elems
  <2>2. n + j \in 1 .. Len(l) /\ l[n + j] = e
    BY <1>1, <2>1
  <2> QED
    BY <2>2 DEF Elems
<1> QED
  BY <1>2, <1>3, <1>4 DEF l

LEMMA ElemsDrop ==
    ASSUME NEW S, NEW list \in Seq(S), NEW i \in 0 .. Len(list)
    PROVE  Elems(Drop(list, i)) \subseteq Elems(list)
<1>1. Len(list) \in Nat
  BY LenProperties
<1>2. CASE i = 0
  BY <1>2, DropNone
<1>3. CASE i # 0
  <2> DEFINE n == Len(list)
             new == Drop(list, i)
  <2>1. i \in 1 .. n
    BY <1>1, <1>3
  <2>2. /\ Len(new) = n - 1
        /\ \A j \in 1 .. n - 1 : new[j] = IF j < i THEN list[j] ELSE list[j + 1]
    BY <2>1, DropIs
  <2> HIDE DEF new
  <2>3. ASSUME NEW e \in Elems(new) PROVE e \in Elems(list)
    <3>1. PICK j \in 1 .. n - 1 : e = new[j]
      BY <2>2 DEF Elems
    <3>2. j \in 1 .. n /\ j + 1 \in 1 .. n
      <4> HIDE DEF n
      <4> QED
        BY <1>1, <3>1 DEF n
    <3>3. e = list[j] \/ e = list[j + 1]
      BY <2>2, <3>1
    <3> QED
      BY <3>2, <3>3 DEF Elems
  <2> QED
    BY <2>3 DEF new
<1> QED
  BY <1>2, <1>3

-----------------------------------------------------------------------------
Used(u, d, p, x) == <<d, p, x>> \in u.uses

MessageOwned(u, d, p, m) ==
    /\ m.command = "start" => Used(u, d, p, m.prop)
    /\ m.command = "end" =>
        Used(u, d, p, m.prop) \/ (Used(u, p, d, m.prop) /\ u.hosts # {})
    /\ m.command \in {"start", "end"} => m.id = NoId

LinesOwned(u, w) ==
    \A d, p \in Devices : \A m \in Elems(w[d][p]) : MessageOwned(u, d, p, m)
ClientsOwned(u, lists) ==
    \A d, p \in Devices : \A e \in Elems(lists[d][p]) : Used(u, d, p, e.prop)
HostsOwned(u, lists) ==
    \A p \in Devices : \A e \in Elems(lists[p]) : Used(u, e.muid, p, e.prop)

Owned ==
    /\ ClientsOwned(scenario, clientSubs)
    /\ HostsOwned(scenario, serviceSubs)
    /\ HostsOwned(scenario, facadeSubs)
    /\ LinesOwned(scenario, wire)

LEMMA OwnedIs ==
    ASSUME UNCHANGED scenario
    PROVE  Owned' <=>
           /\ ClientsOwned(scenario, clientSubs')
           /\ HostsOwned(scenario, serviceSubs')
           /\ HostsOwned(scenario, facadeSubs')
           /\ LinesOwned(scenario, wire')
  BY DEF Owned

\* A device that subscribes to something of another has a connection to it.
LEMMA UsedIs ==
    ASSUME TypeOK, NEW d \in Devices, NEW p \in Devices, NEW x \in Props,
           Used(scenario, d, p, x)
    PROVE  <<d, p>> \in Connected /\ d # p
  BY SubscriptionAssumption, TypesAre DEF Used

LEMMA PushOwned ==
    ASSUME NEW u, NEW w \in Lines, LinesOwned(u, w), NEW d \in Devices, NEW p \in Devices,
           NEW m \in Messages, MessageOwned(u, d, p, m)
    PROVE  LinesOwned(u, Push(w, d, p, m))
<1> DEFINE v == Push(w, d, p, m)
<1>1. /\ v[d][p] = Append(w[d][p], m)
      /\ \A e, f \in Devices : e # d \/ f # p => v[e][f] = w[e][f]
  BY PushIs DEF Pushed
<1>2. w[d][p] \in Seq(Messages)
  BY DEF Lines
<1> HIDE DEF v
<1>3. Elems(v[d][p]) = Elems(w[d][p]) \cup {m}
  BY <1>1, <1>2, ElemsAppend
<1>4. ASSUME NEW e \in Devices, NEW f \in Devices, NEW l \in Elems(v[e][f])
      PROVE  MessageOwned(u, e, f, l)
  <2>1. CASE e = d /\ f = p
    BY <1>3, <2>1 DEF LinesOwned
  <2>2. CASE e # d \/ f # p
    BY <1>1, <2>2 DEF LinesOwned
  <2> QED
    BY <2>1, <2>2
<1> QED
  BY <1>4 DEF LinesOwned, v

LEMMA TakenLines ==
    ASSUME TypeOK, NEW d \in Devices, NEW p \in Devices, wire[p][d] # <<>>
    PROVE  /\ Taken(d, p) \in Lines /\ Taken(d, p)[p][d] = Tail(wire[p][d])
           /\ \A e, f \in Devices : e # p \/ f # d => Taken(d, p)[e][f] = wire[e][f]
           /\ Head(wire[p][d]) \in Messages
<1>1. wire \in Lines /\ wire[p][d] # <<>>
  BY TypesAre
<1> DEFINE v == [wire EXCEPT ![p][d] = Tail(@)]
<1>2. v \in Lines /\ v[p][d] = Tail(wire[p][d]) /\ Head(wire[p][d]) \in Messages
  BY <1>1, TakenIs
<1>3. \A e, f \in Devices : e # p \/ f # d => v[e][f] = wire[e][f]
  BY <1>1, TakenIs, Z3
<1>4. Taken(d, p) = v
  BY DEF Taken
<1> HIDE DEF v
<1> QED
  BY <1>2, <1>3, <1>4

LEMMA TakenOwned ==
    ASSUME TypeOK, NEW u, LinesOwned(u, wire), NEW d \in Devices, NEW p \in Devices,
           wire[p][d] # <<>>
    PROVE  LinesOwned(u, Taken(d, p)) /\ MessageOwned(u, p, d, Head(wire[p][d]))
<1> DEFINE v == Taken(d, p)
<1>1. wire \in Lines /\ wire[p][d] \in Seq(Messages)
  BY TypesAre DEF Lines
<1>2. /\ v[p][d] = Tail(wire[p][d])
      /\ \A e, f \in Devices : e # p \/ f # d => v[e][f] = wire[e][f]
  BY TakenLines
<1> HIDE DEF v
<1>3. Elems(Tail(wire[p][d])) \subseteq Elems(wire[p][d]) /\ Head(wire[p][d]) \in Elems(wire[p][d])
  BY <1>1, ElemsTail
<1>4. ASSUME NEW e \in Devices, NEW f \in Devices, NEW l \in Elems(v[e][f])
      PROVE  MessageOwned(u, e, f, l)
  <2>1. CASE e = p /\ f = d
    BY <1>2, <1>3, <2>1 DEF LinesOwned
  <2>2. CASE e # p \/ f # d
    BY <1>2, <2>2 DEF LinesOwned
  <2> QED
    BY <2>1, <2>2
<1>5. MessageOwned(u, p, d, Head(wire[p][d]))
  BY <1>3 DEF LinesOwned
<1> QED
  BY <1>4, <1>5 DEF LinesOwned, v

\* One list of a table or of the devices changes.
LEMMA ClientsOwnedIs ==
    ASSUME NEW u, NEW old, NEW new, ClientsOwned(u, old), NEW d \in Devices, NEW p \in Devices,
           \A e, f \in Devices : e # d \/ f # p => new[e][f] = old[e][f],
           \A a \in Elems(new[d][p]) : Used(u, d, p, a.prop)
    PROVE  ClientsOwned(u, new)
<1>1. ASSUME NEW e \in Devices, NEW f \in Devices, NEW a \in Elems(new[e][f])
      PROVE  Used(u, e, f, a.prop)
  <2>1. CASE e = d /\ f = p
    BY <2>1
  <2>2. CASE e # d \/ f # p
    BY <2>2 DEF ClientsOwned
  <2> QED
    BY <2>1, <2>2
<1> QED
  BY <1>1 DEF ClientsOwned

LEMMA HostsOwnedIs ==
    ASSUME NEW u, NEW old, NEW new, HostsOwned(u, old), NEW d \in Devices,
           \A e \in Devices : e # d => new[e] = old[e],
           \A a \in Elems(new[d]) : Used(u, a.muid, d, a.prop)
    PROVE  HostsOwned(u, new)
<1>1. ASSUME NEW e \in Devices, NEW a \in Elems(new[e])
      PROVE  Used(u, a.muid, e, a.prop)
  <2>1. CASE e = d
    BY <2>1
  <2>2. CASE e # d
    BY <2>2 DEF HostsOwned
  <2> QED
    BY <2>1, <2>2
<1> QED
  BY <1>1 DEF HostsOwned

LEMMA FacadeWithoutOwned ==
    ASSUME TypeOK, Owned, NEW d \in Devices, NEW p \in Devices, NEW x \in Props
    PROVE  \A a \in Elems(FacadeWithout(d, p, x)) : Used(scenario, a.muid, d, a.prop)
<1> DEFINE new == FacadeWithout(d, p, x)
<1>3. LeavesOut(new, facadeSubs[d], p, x)
  BY FacadeWithoutIs
<1> HIDE DEF new
<1>1. \A i \in 1 .. Len(new) : \E j \in 1 .. Len(facadeSubs[d]) :
        new[i] = facadeSubs[d][j] /\ facadeSubs[d][j] # [muid |-> p, prop |-> x]
  BY <1>3 DEF LeavesOut
<1>2. Elems(new) \subseteq Elems(facadeSubs[d])
  BY <1>1 DEF Elems
<1> QED
  BY <1>2 DEF Owned, HostsOwned, new

LEMMA SubscribeOwned ==
    ASSUME TypeOK, Owned, NEW d \in Devices, NEW p \in Devices, NEW x \in Props,
           Subscribe(d, p, x), UNCHANGED scenario
    PROVE  Owned'
<1> DEFINE e == [prop |-> x, id |-> NoId, req |-> NextRequestId(d), state |-> "Subscribing"]
           m == Message("start", x, NoId, NextRequestId(d))
           list == clientSubs[d][p]
<1>1. /\ clientSubs' = [clientSubs EXCEPT ![d][p] = Append(@, e)]
      /\ SendRequest(d, p, "start", x, NoId)
      /\ UNCHANGED <<ruleSubs, facadeSubs, serviceSubs, lastId, rejected>>
      /\ Used(scenario, d, p, x)
  BY DEF Subscribe, Used
<1>2. /\ m \in Messages /\ wire' = Push(wire, d, p, m) /\ NextRequestId(d) \in 0 .. NumIds - 1
  BY <1>1, SendIs DEF SendRequest
<1>3. clientSubs \in [Devices -> [Devices -> Seq(Subs)]] /\ wire \in Lines
  BY TypesAre
<1>4. e \in Subs /\ e.prop = x
  BY <1>2 DEF Subs, States
<1>5. MessageOwned(scenario, d, p, m)
  <2>1. m.command = "start" /\ m.prop = x /\ m.id = NoId
    BY DEF Message
  <2> QED
    BY <1>1, <2>1 DEF MessageOwned
<1> HIDE DEF e, m
<1>6. LinesOwned(scenario, wire')
  BY <1>2, <1>3, <1>5, PushOwned DEF Owned
<1>7. Append(list, e) \in Seq(Subs) /\ Elems(Append(list, e)) = Elems(list) \cup {e}
  BY <1>3, <1>4, AppendAt, ElemsAppend
<1>8. /\ clientSubs'[d][p] = Append(list, e)
      /\ \A g, f \in Devices : g # d \/ f # p => clientSubs'[g][f] = clientSubs[g][f]
  BY <1>1, <1>3, <1>7, TableIs
<1>9. \A a \in Elems(clientSubs'[d][p]) : Used(scenario, d, p, a.prop)
  <2>1. \A a \in Elems(list) : Used(scenario, d, p, a.prop)
    BY DEF Owned, ClientsOwned
  <2> HIDE DEF list
  <2> QED
    BY <1>1, <1>4, <1>7, <1>8, <2>1
<1>10. ClientsOwned(scenario, clientSubs')
  <2>1. ClientsOwned(scenario, clientSubs)
    BY DEF Owned
  <2>2. \A g, f \in Devices : g # d \/ f # p => clientSubs'[g][f] = clientSubs[g][f]
    BY <1>8
  <2> QED
    BY <1>9, <2>1, <2>2, ClientsOwnedIs
<1> QED
  BY <1>1, <1>6, <1>10, OwnedIs DEF Owned

LEMMA UnsubscribeOwned ==
    ASSUME TypeOK, Owned, NEW d \in Devices, NEW p \in Devices, NEW x \in Props,
           Unsubscribe(d, p, x), UNCHANGED scenario
    PROVE  Owned'
<1> DEFINE m == Message("end", x, NoId, NextRequestId(d))
           list == clientSubs[d][p]
           i == First(Of(list, x))
           new == AsUnsubscribing(list, i, NextRequestId(d))
<1>1. /\ i \in 1 .. Len(list) /\ list[i].prop = x
      /\ clientSubs'[d][p] = new
      /\ \A e, f \in Devices : e # d \/ f # p => clientSubs'[e][f] = clientSubs[e][f]
      /\ SendRequest(d, p, "end", x, NoId)
      /\ UNCHANGED <<ruleSubs, facadeSubs, serviceSubs, lastId, rejected>>
  BY UnsubscribeIs DEF TakesBack
<1>2. /\ m \in Messages /\ wire' = Push(wire, d, p, m) /\ NextRequestId(d) \in 0 .. NumIds - 1
  BY <1>1, SendIs DEF SendRequest
<1>3. list \in Seq(Subs) /\ wire \in Lines
  BY TypesAre
<1>4. /\ Len(new) = Len(list) /\ new[i].prop = list[i].prop
      /\ \A j \in 1 .. Len(list) : j # i => new[j] = list[j]
  BY <1>1, <1>2, <1>3, AsUnsubscribingIs
<1>5. \A a \in Elems(list) : Used(scenario, d, p, a.prop)
  BY DEF Owned, ClientsOwned
<1> HIDE DEF new, i
<1>6. \A j \in 1 .. Len(list) : new[j].prop = list[j].prop
  BY <1>4
<1>7. \A a \in Elems(new) : Used(scenario, d, p, a.prop)
  BY <1>4, <1>5, <1>6 DEF Elems
<1>8. MessageOwned(scenario, d, p, m)
  <2>1. m.command = "end" /\ m.prop = x /\ m.id = NoId
    BY DEF Message
  <2>2. Used(scenario, d, p, x)
    BY <1>1, <1>5 DEF Elems
  <2> QED
    BY <2>1, <2>2 DEF MessageOwned
<1> HIDE DEF m
<1>9. LinesOwned(scenario, wire')
  BY <1>2, <1>3, <1>8, PushOwned DEF Owned
<1>10. ClientsOwned(scenario, clientSubs')
  BY <1>1, <1>7, ClientsOwnedIs DEF Owned
<1> QED
  BY <1>1, <1>9, <1>10, OwnedIs DEF Owned

LEMMA ShutdownOwned ==
    ASSUME TypeOK, Owned, NEW d \in Devices, NEW p \in Devices, NEW x \in Props,
           Shutdown(d, p, x), UNCHANGED scenario
    PROVE  Owned'
<1>1. /\ "shutdown" \in scenario.hosts
      /\ \E i \in 1 .. Len(facadeSubs[d]) : facadeSubs[d][i] = [muid |-> p, prop |-> x]
      /\ \A g \in Devices : g # d => facadeSubs'[g] = facadeSubs[g]
      /\ facadeSubs'[d] = FacadeWithout(d, p, x)
      /\ \E command \in {"end", "none"} : SendRequest(d, p, command, x, NoId)
      /\ UNCHANGED <<clientSubs, ruleSubs, serviceSubs, lastId, rejected>>
  BY ShutdownIs
<1>2. PICK command \in {"end", "none"} : SendRequest(d, p, command, x, NoId)
  BY <1>1
<1> DEFINE m == Message(command, x, NoId, NextRequestId(d))
<1>3. m \in Messages /\ wire' = Push(wire, d, p, m) /\ wire \in Lines
  BY <1>2, SendIs, TypesAre DEF SendRequest
<1>4. Used(scenario, p, d, x)
  <2>1. PICK i \in 1 .. Len(facadeSubs[d]) : facadeSubs[d][i] = [muid |-> p, prop |-> x]
    BY <1>1
  <2>2. [muid |-> p, prop |-> x] \in Elems(facadeSubs[d])
    BY <2>1 DEF Elems
  <2> QED
    BY <2>2 DEF Owned, HostsOwned
<1>5. MessageOwned(scenario, d, p, m)
  <2>1. m.command \in {"end", "none"} /\ m.prop = x /\ m.id = NoId
    BY DEF Message
  <2> QED
    BY <1>1, <1>4, <2>1 DEF MessageOwned
<1> HIDE DEF m
<1>6. LinesOwned(scenario, wire')
  BY <1>3, <1>5, PushOwned DEF Owned
<1>7. \A a \in Elems(facadeSubs'[d]) : Used(scenario, a.muid, d, a.prop)
  BY <1>1, FacadeWithoutOwned
<1>8. HostsOwned(scenario, facadeSubs')
  BY <1>1, <1>7, HostsOwnedIs DEF Owned
<1> QED
  BY <1>1, <1>6, <1>8, OwnedIs DEF Owned

LEMMA TerminateOwned ==
    ASSUME TypeOK, Owned, NEW d \in Devices, Terminate(d), UNCHANGED scenario
    PROVE  Owned'
<1> DEFINE none == <<>>
<1>1. /\ "terminate" \in scenario.hosts
      /\ \A p \in Devices : wire'[d][p] = wire[d][p] \o PartingTo(d, p)
      /\ \A e, p \in Devices : e # d => wire'[e][p] = wire[e][p]
      /\ facadeSubs'[d] = none
      /\ \A e \in Devices : e # d => facadeSubs'[e] = facadeSubs[e]
      /\ UNCHANGED <<clientSubs, ruleSubs, serviceSubs, lastId, rejected>>
  BY TerminateIs
<1>2. Elems(none) = {}
  <2>1. Len(none) = 0 /\ 1 .. 0 = {}
    OBVIOUS
  <2> QED
    BY <2>1 DEF Elems
<1> HIDE DEF none
<1>3. HostsOwned(scenario, facadeSubs')
  BY <1>1, <1>2, HostsOwnedIs DEF Owned
<1>4. ASSUME NEW p \in Devices, NEW m \in Elems(PartingTo(d, p))
      PROVE  MessageOwned(scenario, d, p, m)
  <2> DEFINE b == PartingTo(d, p)
  <2>1. PICK i \in 1 .. Len(b) : m = b[i]
    BY <1>4 DEF Elems
  <2>2. /\ b[i].command \in {"end", "none"} /\ b[i].id = NoId
        /\ \E j \in 1 .. Len(facadeSubs[d]) :
            facadeSubs[d][j] = [muid |-> p, prop |-> b[i].prop]
    BY PartingIs
  <2> HIDE DEF b
  <2>3. [muid |-> p, prop |-> m.prop] \in Elems(facadeSubs[d])
    BY <2>1, <2>2 DEF Elems
  <2>4. Used(scenario, p, d, m.prop)
    BY <2>3 DEF Owned, HostsOwned
  <2> QED
    BY <1>1, <2>1, <2>2, <2>4 DEF MessageOwned
<1>5. ASSUME NEW p \in Devices
      PROVE  Elems(wire'[d][p]) = Elems(wire[d][p]) \cup Elems(PartingTo(d, p))
  <2>1. wire[d][p] \in Seq(Messages) /\ PartingTo(d, p) \in Seq(Messages)
    BY TypesAre, PartingIs DEF Lines
  <2> DEFINE a == wire[d][p]
             b == PartingTo(d, p)
  <2>2. wire'[d][p] = a \o b
    BY <1>1
  <2> HIDE DEF a, b
  <2>3. Elems(a \o b) = Elems(a) \cup Elems(b)
    BY <2>1, ElemsConcat DEF a, b
  <2> QED
    BY <2>2, <2>3 DEF a, b
<1>6. LinesOwned(scenario, wire')
  <2>1. ASSUME NEW e \in Devices, NEW f \in Devices, NEW l \in Elems(wire'[e][f])
        PROVE  MessageOwned(scenario, e, f, l)
    <3>1. CASE e = d
      BY <1>4, <1>5, <3>1 DEF Owned, LinesOwned
    <3>2. CASE e # d
      BY <1>1, <3>2 DEF Owned, LinesOwned
    <3> QED
      BY <3>1, <3>2
  <2> QED
    BY <2>1 DEF LinesOwned
<1> QED
  BY <1>1, <1>3, <1>6, OwnedIs DEF Owned

LEMMA SetPropertyOwned ==
    ASSUME TypeOK, Owned, NEW d \in Devices, NEW x \in Props, SetProperty(d, x),
           UNCHANGED scenario
    PROVE  Owned'
<1>1. /\ wire'[d][d] = wire[d][d]
      /\ \A p \in Devices : p # d => wire'[d][p] = wire[d][p] \o Updates(d, x)
      /\ \A e, p \in Devices : e # d => wire'[e][p] = wire[e][p]
      /\ UNCHANGED <<clientSubs, ruleSubs, serviceSubs, facadeSubs, lastId, rejected>>
  BY SetPropertyIs
<1>2. ASSUME NEW p \in Devices, NEW m \in Elems(Updates(d, x))
      PROVE  MessageOwned(scenario, d, p, m)
  <2>1. m.command = "none"
    BY UpdatesAre DEF Elems
  <2> QED
    BY <2>1 DEF MessageOwned
<1>3. ASSUME NEW p \in Devices, p # d
      PROVE  Elems(wire'[d][p]) = Elems(wire[d][p]) \cup Elems(Updates(d, x))
  <2>1. wire[d][p] \in Seq(Messages) /\ Updates(d, x) \in Seq(Messages)
    BY TypesAre, UpdatesAre DEF Lines
  <2> DEFINE a == wire[d][p]
             b == Updates(d, x)
  <2>2. wire'[d][p] = a \o b
    BY <1>1, <1>3
  <2> HIDE DEF a, b
  <2>3. Elems(a \o b) = Elems(a) \cup Elems(b)
    BY <2>1, ElemsConcat DEF a, b
  <2> QED
    BY <2>2, <2>3 DEF a, b
<1>4. LinesOwned(scenario, wire')
  <2>1. ASSUME NEW e \in Devices, NEW f \in Devices, NEW l \in Elems(wire'[e][f])
        PROVE  MessageOwned(scenario, e, f, l)
    <3>1. CASE e = d /\ f # d
      BY <1>2, <1>3, <3>1 DEF Owned, LinesOwned
    <3>2. CASE e # d \/ f = d
      BY <1>1, <3>2 DEF Owned, LinesOwned
    <3> QED
      BY <3>1, <3>2
  <2> QED
    BY <2>1 DEF LinesOwned
<1> QED
  BY <1>1, <1>4, OwnedIs DEF Owned

LEMMA RemovePropertyOwned ==
    ASSUME TypeOK, Owned, NEW d \in Devices, NEW x \in Props, RemoveProperty(d, x),
           UNCHANGED scenario
    PROVE  Owned'
<1>1. /\ \A i \in 1 .. Len(facadeSubs'[d]) :
            \E j \in 1 .. Len(facadeSubs[d]) : facadeSubs'[d][i] = facadeSubs[d][j]
      /\ \A e \in Devices : e # d => facadeSubs'[e] = facadeSubs[e]
      /\ UNCHANGED <<clientSubs, ruleSubs, serviceSubs, lastId, counter, sent, wire, rejected>>
  BY RemovePropertyIs
<1>2. Elems(facadeSubs'[d]) \subseteq Elems(facadeSubs[d])
  BY <1>1 DEF Elems
<1>3. \A a \in Elems(facadeSubs'[d]) : Used(scenario, a.muid, d, a.prop)
  BY <1>2 DEF Owned, HostsOwned
<1>4. HostsOwned(scenario, facadeSubs')
  BY <1>1, <1>3, HostsOwnedIs DEF Owned
<1> QED
  BY <1>1, <1>4, OwnedIs DEF Owned

LEMMA ReceiveOwned ==
    ASSUME TypeOK, Owned, NEW d \in Devices, NEW p \in Devices, Receive(d, p),
           UNCHANGED scenario
    PROVE  Owned'
<1> DEFINE m == Head(wire[p][d])
           w == Taken(d, p)
<1>1. /\ wire[p][d] # <<>> /\ m \in Messages /\ w \in Lines
      /\ \/ m.command = "start" /\ HostStart(d, p, m, w)
         \/ m.command = "end" /\ <<d, p>> \in Connected /\ ClientEnd(d, p, m, w)
         \/ m.command = "end" /\ <<d, p>> \notin Connected /\ HostEnd(d, p, m, w)
         \/ m.command = "reply" /\ <<d, p>> \in Connected /\ ClientReply(d, p, m, w)
         \/ /\ m.command = "reply" /\ <<d, p>> \notin Connected
            /\ wire' = w /\ UNCHANGED <<clientVars, hostVars, rejected>>
         \/ m.command = "none" /\ Reject(d, p, m, w)
  BY ReceiveIs
<1>2. LinesOwned(scenario, w) /\ MessageOwned(scenario, p, d, m)
  BY <1>1, TakenOwned DEF Owned
<1> HIDE DEF m, w
<1>3. ASSUME NEW r \in Messages, r.command = "reply", wire' = Push(w, d, p, r)
      PROVE  LinesOwned(scenario, wire')
  <2>1. MessageOwned(scenario, d, p, r)
    BY <1>3 DEF MessageOwned
  <2> QED
    BY <1>1, <1>2, <1>3, <2>1, PushOwned
<1>4. m.prop \in Props /\ m.req \in 0 .. NumIds - 1 /\ m.id \in SubIds \cup {NoId}
  BY <1>1, Fields
<1>5. CASE m.command = "start" /\ HostStart(d, p, m, w)
  <2> DEFINE r == Message("reply", m.prop, lastId + 1, m.req)
             e == [muid |-> p, prop |-> m.prop, id |-> lastId + 1]
             f == [muid |-> p, prop |-> m.prop]
  <2>1. /\ r \in Messages /\ wire' = Push(w, d, p, r)
        /\ e \in Served /\ serviceSubs'[d] = Append(serviceSubs[d], e)
        /\ \A g \in Devices : g # d => serviceSubs'[g] = serviceSubs[g]
        /\ f \in Shown /\ facadeSubs'[d] = Append(facadeSubs[d], f)
        /\ \A g \in Devices : g # d => facadeSubs'[g] = facadeSubs[g]
        /\ UNCHANGED <<clientSubs, ruleSubs, rejected>>
    BY <1>1, <1>5, HostStartIs
  <2>2. r.command = "reply"
    BY DEF Message
  <2>3. /\ e.muid = p /\ e.prop = m.prop /\ f.muid = p /\ f.prop = m.prop
        /\ Used(scenario, p, d, m.prop)
    BY <1>2, <1>5 DEF MessageOwned
  <2> HIDE DEF r, e, f
  <2>4. LinesOwned(scenario, wire')
    BY <1>3, <2>1, <2>2
  <2>5. serviceSubs[d] \in Seq(Served) /\ facadeSubs[d] \in Seq(Shown)
    BY TypesAre
  <2>6. /\ Elems(serviceSubs'[d]) = Elems(serviceSubs[d]) \cup {e}
        /\ Elems(facadeSubs'[d]) = Elems(facadeSubs[d]) \cup {f}
    BY <2>1, <2>5, ElemsAppend
  <2>7. \A a \in Elems(serviceSubs'[d]) : Used(scenario, a.muid, d, a.prop)
    BY <2>3, <2>6 DEF Owned, HostsOwned
  <2>8. \A a \in Elems(facadeSubs'[d]) : Used(scenario, a.muid, d, a.prop)
    <3>1. \A a \in Elems(facadeSubs[d]) : Used(scenario, a.muid, d, a.prop)
      BY DEF Owned, HostsOwned
    <3>2. Used(scenario, f.muid, d, f.prop)
      BY <2>3
    <3>3. \A a \in Elems(facadeSubs'[d]) : a \in Elems(facadeSubs[d]) \/ a = f
      BY <2>6
    <3> QED
      BY <3>1, <3>2, <3>3
  <2>9. HostsOwned(scenario, serviceSubs') /\ HostsOwned(scenario, facadeSubs')
    <3>1. HostsOwned(scenario, serviceSubs) /\ HostsOwned(scenario, facadeSubs)
      BY DEF Owned
    <3>2. /\ \A g \in Devices : g # d => serviceSubs'[g] = serviceSubs[g]
          /\ \A g \in Devices : g # d => facadeSubs'[g] = facadeSubs[g]
      BY <2>1
    <3>3. HostsOwned(scenario, serviceSubs')
      BY <2>7, <3>1, <3>2, HostsOwnedIs
    <3>4. HostsOwned(scenario, facadeSubs')
      BY <2>8, <3>1, <3>2, HostsOwnedIs
    <3> QED
      BY <3>3, <3>4
  <2> QED
    BY <2>1, <2>4, <2>9, OwnedIs DEF Owned
<1>6. CASE ClientEnd(d, p, m, w)
  <2> DEFINE r == Message("reply", m.prop, NoId, m.req)
  <2>1. /\ r \in Messages /\ wire' = Push(w, d, p, r)
        /\ clientSubs'[d][p] = Drop(clientSubs[d][p], EndedAt(clientSubs[d][p], m))
        /\ \A e, f \in Devices : e # d \/ f # p => clientSubs'[e][f] = clientSubs[e][f]
        /\ UNCHANGED <<ruleSubs, facadeSubs, serviceSubs, lastId, rejected>>
    BY <1>1, <1>6, ClientEndIs
  <2>2. r.command = "reply"
    BY DEF Message
  <2> HIDE DEF r
  <2>3. LinesOwned(scenario, wire')
    BY <1>3, <2>1, <2>2
  <2>4. clientSubs[d][p] \in Seq(Subs)
    BY TypesAre
  <2>5. Elems(clientSubs'[d][p]) \subseteq Elems(clientSubs[d][p])
    BY <2>1, <2>4, EndedAtIs, ElemsDrop
  <2>6. \A a \in Elems(clientSubs'[d][p]) : Used(scenario, d, p, a.prop)
    BY <2>5 DEF Owned, ClientsOwned
  <2>7. ClientsOwned(scenario, clientSubs')
    BY <2>1, <2>6, ClientsOwnedIs DEF Owned
  <2> QED
    BY <2>1, <2>3, <2>7, OwnedIs DEF Owned
<1>7. CASE HostEnd(d, p, m, w)
  <2> DEFINE r == Message("reply", m.prop, m.id, m.req)
  <2>1. /\ r \in Messages /\ wire' = Push(w, d, p, r)
        /\ serviceSubs'[d] = Drop(serviceSubs[d], Unsubscribed(d, m))
        /\ \A g \in Devices : g # d => serviceSubs'[g] = serviceSubs[g]
        /\ facadeSubs'[d] = FacadeWithout(d, p, m.prop)
        /\ \A g \in Devices : g # d => facadeSubs'[g] = facadeSubs[g]
        /\ UNCHANGED <<clientSubs, ruleSubs, lastId, rejected>>
    BY <1>1, <1>7, HostEndIs
  <2>2. r.command = "reply"
    BY DEF Message
  <2> HIDE DEF r
  <2>3. LinesOwned(scenario, wire')
    BY <1>3, <2>1, <2>2
  <2>4. serviceSubs[d] \in Seq(Served)
    BY TypesAre
  <2>5. Elems(serviceSubs'[d]) \subseteq Elems(serviceSubs[d])
    BY <1>1, <2>1, <2>4, UnsubscribedIs, ElemsDrop
  <2>6. \A a \in Elems(serviceSubs'[d]) : Used(scenario, a.muid, d, a.prop)
    BY <2>5 DEF Owned, HostsOwned
  <2>7. \A a \in Elems(facadeSubs'[d]) : Used(scenario, a.muid, d, a.prop)
    BY <1>4, <2>1, FacadeWithoutOwned
  <2>8. HostsOwned(scenario, serviceSubs') /\ HostsOwned(scenario, facadeSubs')
    BY <2>1, <2>6, <2>7, HostsOwnedIs DEF Owned
  <2> QED
    BY <2>1, <2>3, <2>8, OwnedIs DEF Owned
<1>8. CASE ClientReply(d, p, m, w)
  <2> DEFINE subs == clientSubs[d][p]
             i == AnsweredAt(subs, m)
             new == AfterReply(subs, m)
             ig == Ignored(subs, m)
  <2>1. /\ wire' = w
        /\ ig => UNCHANGED <<clientSubs, ruleSubs>>
        /\ ~ig => i \in 1 .. Len(subs) /\ clientSubs'[d][p] = new
        /\ \A e, f \in Devices : e # d \/ f # p => clientSubs'[e][f] = clientSubs[e][f]
        /\ UNCHANGED <<facadeSubs, serviceSubs, lastId, rejected>>
    BY <1>1, <1>8, ClientReplyIs
  <2>2. subs \in Seq(Subs) /\ Len(subs) \in Nat
    BY TypesAre, LenProperties
  <2>3. new = IF subs[i].state = "Unsubscribing" THEN Drop(subs, i)
              ELSE AsSubscribed(subs, i, m.id)
    BY DEF AfterReply
  <2>4. \A a \in Elems(subs) : Used(scenario, d, p, a.prop)
    BY DEF Owned, ClientsOwned
  <2> HIDE DEF new, i, ig
  <2>5. CASE ig
    BY <1>2, <2>1, <2>5, OwnedIs DEF Owned
  <2>6. CASE ~ig
    <3>1. Elems(Drop(subs, i)) \subseteq Elems(subs)
      <4>1. i \in 0 .. Len(subs)
        <5> HIDE DEF subs
        <5> QED
          BY <2>1, <2>2, <2>6
      <4> QED
        BY <2>2, <4>1, ElemsDrop
    <3>2. \A a \in Elems(AsSubscribed(subs, i, m.id)) : Used(scenario, d, p, a.prop)
      <4> DEFINE s == AsSubscribed(subs, i, m.id)
      <4>1. /\ Len(s) = Len(subs) /\ s[i].prop = subs[i].prop
            /\ \A j \in 1 .. Len(subs) : j # i => s[j] = subs[j]
        BY <1>4, <2>1, <2>2, <2>6, AsSubscribedIs
      <4> HIDE DEF s
      <4>2. \A j \in 1 .. Len(subs) : s[j].prop = subs[j].prop
        BY <4>1
      <4>3. \A a \in Elems(s) : Used(scenario, d, p, a.prop)
        BY <2>4, <4>1, <4>2 DEF Elems
      <4> QED
        BY <4>3 DEF s
    <3>3. \A a \in Elems(clientSubs'[d][p]) : Used(scenario, d, p, a.prop)
      BY <2>1, <2>3, <2>4, <2>6, <3>1, <3>2
    <3>4. ClientsOwned(scenario, clientSubs')
      BY <2>1, <3>3, ClientsOwnedIs DEF Owned
    <3> QED
      BY <1>2, <2>1, <3>4, OwnedIs DEF Owned
  <2> QED
    BY <2>5, <2>6
<1>9. CASE wire' = w /\ UNCHANGED <<clientVars, hostVars, rejected>>
  BY <1>2, <1>9, OwnedIs DEF Owned, clientVars, hostVars
<1>10. CASE Reject(d, p, m, w)
  BY <1>2, <1>10, OwnedIs DEF Owned, Reject, clientVars, hostVars
<1> QED
  BY <1>1, <1>5, <1>6, <1>7, <1>8, <1>9, <1>10

LEMMA OwnedInit ==
    ASSUME Init
    PROVE  Owned
<1> DEFINE none == <<>>
<1>1. /\ clientSubs = [d \in Devices |-> [p \in Devices |-> none]]
      /\ facadeSubs = [p \in Devices |-> none] /\ serviceSubs = [p \in Devices |-> none]
      /\ wire = [d \in Devices |-> [p \in Devices |-> none]]
  BY DEF Init
<1>2. Elems(none) = {}
  <2>1. Len(none) = 0 /\ 1 .. 0 = {}
    OBVIOUS
  <2> QED
    BY <2>1 DEF Elems
<1> HIDE DEF none
<1> QED
  BY <1>1, <1>2 DEF Owned, ClientsOwned, HostsOwned, LinesOwned

LEMMA OwnedStep ==
    ASSUME TypeOK, Owned, [Next]_vars
    PROVE  Owned'
<1>1. CASE UNCHANGED vars
  BY <1>1, OwnedIs DEF vars, Owned
<1>2. CASE Next
  <2>1. PICK d \in Devices :
            \/ \E x \in Props : RemoveProperty(d, x) \/ SetProperty(d, x)
            \/ \E p \in Devices, x \in Props :
                Subscribe(d, p, x) \/ Unsubscribe(d, p, x) \/ Shutdown(d, p, x)
            \/ Terminate(d)
            \/ \E p \in Devices : Receive(d, p)
    BY <1>2, NextIs
  <2>2. UNCHANGED scenario
    BY <1>2, NextIs
  <2> QED
    BY <2>1, <2>2, RemovePropertyOwned, SetPropertyOwned, SubscribeOwned,
       UnsubscribeOwned, ShutdownOwned, TerminateOwned, ReceiveOwned
<1> QED
  BY <1>1, <1>2


-----------------------------------------------------------------------------
(* Lines.  The messages of a line whose commands are in cs carry the       *)
(* request ids from lo + 1 to hi that kind does not leave out, in order.   *)

Within(l, cs, kind, lo, hi) ==
    \A i \in 1 .. Len(l) : l[i].command \in cs =>
        lo < l[i].req /\ l[i].req <= hi /\ kind[l[i].req] # "none"
Covered(l, cs, kind, lo, hi) ==
    \A r \in Nat : lo < r /\ r <= hi /\ kind[r] # "none" =>
        \E i \in 1 .. Len(l) : l[i].command \in cs /\ l[i].req = r
Rising(l, cs) ==
    \A i, j \in 1 .. Len(l) :
        i < j /\ l[i].command \in cs /\ l[j].command \in cs => l[i].req < l[j].req
Numbered(l, cs, kind, lo, hi) ==
    Within(l, cs, kind, lo, hi) /\ Covered(l, cs, kind, lo, hi) /\ Rising(l, cs)

\* Other messages after them.
LEMMA NumberedMore ==
    ASSUME NEW l \in Seq(Messages), NEW b \in Seq(Messages), NEW cs, NEW kind,
           NEW lo \in Nat, NEW hi \in Nat, Numbered(l, cs, kind, lo, hi),
           \A m \in Elems(b) : m.command \notin cs
    PROVE  Numbered(l \o b, cs, kind, lo, hi)
<1> DEFINE n == Len(l)
           new == l \o b
<1>1. n \in Nat /\ Joined(l, n, b, new)
  BY ConcatIs
<1> HIDE DEF new, n
<1>7. /\ \A i \in 1 .. n : i \in 1 .. Len(new) /\ new[i] = l[i]
      /\ \A j \in 1 .. Len(b) : new[n + j] = b[j]
      /\ \A i \in 1 .. Len(new) : i \in 1 .. n \/ \E j \in 1 .. Len(b) : i = n + j
  BY <1>1 DEF Joined
<1>2. ASSUME NEW i \in 1 .. Len(new), new[i].command \in cs PROVE i \in 1 .. n
  <2>1. ASSUME NEW j \in 1 .. Len(b), i = n + j PROVE FALSE
    <3>1. new[i] = b[j]
      BY <1>7, <2>1
    <3>2. b[j] \in Elems(b)
      BY DEF Elems
    <3> QED
      BY <1>2, <3>1, <3>2
  <2> QED
    BY <1>7, <2>1
<1>6. \A i \in 1 .. n : i \in 1 .. Len(l)
  BY DEF n
<1>3. Within(new, cs, kind, lo, hi)
  BY <1>2, <1>6, <1>7 DEF Numbered, Within
<1>4. Covered(new, cs, kind, lo, hi)
  <2>1. ASSUME NEW r \in Nat, lo < r, r <= hi, kind[r] # "none"
        PROVE  \E i \in 1 .. Len(new) : new[i].command \in cs /\ new[i].req = r
    <3>1. PICK i \in 1 .. n : l[i].command \in cs /\ l[i].req = r
      BY <2>1 DEF Numbered, Covered, n
    <3> QED
      BY <1>7, <3>1
  <2> QED
    BY <2>1 DEF Covered
<1>5. Rising(new, cs)
  BY <1>2, <1>6, <1>7 DEF Numbered, Rising
<1> QED
  BY <1>3, <1>4, <1>5 DEF Numbered, new

\* The next of them.
LEMMA NumberedNext ==
    ASSUME NEW l \in Seq(Messages), NEW m \in Messages, NEW cs, NEW kind, NEW new,
           NEW lo \in Nat, NEW hi \in Nat, Numbered(l, cs, kind, lo, hi),
           m.command \in cs, lo <= hi, hi < m.req,
           \A r \in Nat : lo < r /\ r <= hi => new[r] = kind[r],
           \A r \in Nat : hi < r /\ r < m.req => new[r] = "none",
           new[m.req] # "none"
    PROVE  Numbered(Append(l, m), cs, new, lo, m.req)
<1> DEFINE n == Len(l)
           k == Append(l, m)
           q == m.req
<1>1. /\ n \in Nat /\ Len(k) = n + 1 /\ k \in Seq(Messages)
      /\ \A i \in 1 .. n : k[i] = l[i]
      /\ k[n + 1] = m
  BY AppendAt
<1>2. q \in Nat /\ \A i \in 1 .. n : l[i].req \in Nat
  <2>1. \A i \in 1 .. n : l[i] \in Messages
    BY ElementOfSeq
  <2> QED
    BY <2>1, Fields
<1> HIDE DEF k, n, q
<1>3. /\ lo <= hi /\ hi < q /\ m.req = q /\ new[q] # "none"
      /\ \A r \in Nat : hi < r /\ r < q => new[r] = "none"
  BY DEF q
<1>4. ASSUME NEW i \in 1 .. n, l[i].command \in cs
      PROVE  lo < l[i].req /\ l[i].req <= hi /\ kind[l[i].req] # "none"
  BY <1>4 DEF Numbered, Within, n
<1>5. \A i \in 1 .. n + 1 : i \in 1 .. n \/ i = n + 1
  BY <1>1
<1>6. ASSUME NEW i \in 1 .. n + 1, k[i].command \in cs
      PROVE  lo < k[i].req /\ k[i].req <= q /\ new[k[i].req] # "none"
  <2>1. CASE i \in 1 .. n
    <3>1. k[i] = l[i] /\ l[i].req \in Nat
      BY <1>1, <1>2, <2>1
    <3>2. lo < l[i].req /\ l[i].req <= hi /\ kind[l[i].req] # "none"
      BY <1>4, <1>6, <2>1, <3>1
    <3>3. new[l[i].req] = kind[l[i].req]
      BY <3>1, <3>2
    <3> QED
      BY <1>2, <1>3, <3>1, <3>2, <3>3
  <2>2. CASE i = n + 1
    BY <1>1, <1>2, <1>3, <2>2
  <2> QED
    BY <1>5, <2>1, <2>2
<1>7. ASSUME NEW r \in Nat, lo < r, r <= q, new[r] # "none"
      PROVE  \E i \in 1 .. n + 1 : k[i].command \in cs /\ k[i].req = r
  <2>1. CASE r = q
    <3>1. n + 1 \in 1 .. n + 1
      BY <1>1
    <3> QED
      BY <1>1, <1>3, <2>1, <3>1
  <2>2. CASE r # q
    <3>1. r <= hi
      BY <1>2, <1>3, <1>7, <2>2
    <3>2. kind[r] # "none"
      BY <1>7, <3>1
    <3>3. PICK i \in 1 .. n : l[i].command \in cs /\ l[i].req = r
      BY <1>7, <3>1, <3>2 DEF Numbered, Covered, n
    <3>4. i \in 1 .. n + 1
      BY <1>1
    <3> QED
      BY <1>1, <3>3, <3>4
  <2> QED
    BY <2>1, <2>2
<1>8. ASSUME NEW i \in 1 .. n + 1, NEW j \in 1 .. n + 1, i < j,
             k[i].command \in cs, k[j].command \in cs
      PROVE  k[i].req < k[j].req
  <2>1. i \in 1 .. n
    BY <1>1, <1>8
  <2>2. CASE j \in 1 .. n
    BY <1>1, <1>8, <2>1, <2>2 DEF Numbered, Rising, n
  <2>3. CASE j = n + 1
    <3>1. l[i].req <= hi /\ l[i].req \in Nat /\ k[i] = l[i] /\ k[j] = m
      BY <1>1, <1>2, <1>4, <1>8, <2>1, <2>3
    <3> QED
      BY <1>2, <1>3, <3>1
  <2> QED
    BY <1>5, <2>2, <2>3
<1>9. Within(k, cs, new, lo, q) /\ Covered(k, cs, new, lo, q) /\ Rising(k, cs)
  BY <1>1, <1>6, <1>7, <1>8 DEF Within, Covered, Rising
<1> QED
  BY <1>9 DEF Numbered, k, q

\* Requests that are not on this line.
LEMMA NumberedFurther ==
    ASSUME NEW l \in Seq(Messages), NEW cs, NEW kind,
           NEW lo \in Nat, NEW hi \in Nat, NEW top \in Nat,
           Numbered(l, cs, kind, lo, hi), hi <= top,
           \A r \in Nat : hi < r => kind[r] = "none"
    PROVE  Numbered(l, cs, kind, lo, top)
<1>1. \A i \in 1 .. Len(l) : l[i].req \in Nat
  <2>1. \A i \in 1 .. Len(l) : l[i] \in Messages
    BY ElementOfSeq
  <2> QED
    BY <2>1, Fields
<1>2. Within(l, cs, kind, lo, top)
  BY <1>1 DEF Numbered, Within
<1>3. Covered(l, cs, kind, lo, top)
  <2>1. \A r \in Nat : kind[r] # "none" => r <= hi
    OBVIOUS
  <2> QED
    BY <2>1 DEF Numbered, Covered
<1> QED
  BY <1>2, <1>3 DEF Numbered

\* The first message is another one.
LEMMA NumberedTail ==
    ASSUME NEW l \in Seq(Messages), NEW cs, NEW kind, NEW lo \in Nat, NEW hi \in Nat,
           Numbered(l, cs, kind, lo, hi), l # <<>>, Head(l).command \notin cs
    PROVE  Numbered(Tail(l), cs, kind, lo, hi)
<1> DEFINE k == Tail(l)
           h == Head(l)
<1>1. /\ h = l[1] /\ Len(k) = Len(l) - 1 /\ Len(l) \in Nat
      /\ \A i \in 1 .. Len(k) : i + 1 \in 1 .. Len(l) /\ k[i] = l[i + 1]
  BY TailIs
<1> HIDE DEF k, h
<1>2. h.command \notin cs
  BY DEF h
<1>3. Within(k, cs, kind, lo, hi)
  BY <1>1 DEF Numbered, Within
<1>4. Covered(k, cs, kind, lo, hi)
  <2>1. ASSUME NEW r \in Nat, lo < r, r <= hi, kind[r] # "none"
        PROVE  \E i \in 1 .. Len(k) : k[i].command \in cs /\ k[i].req = r
    <3>1. PICK i \in 1 .. Len(l) : l[i].command \in cs /\ l[i].req = r
      BY <2>1 DEF Numbered, Covered
    <3>2. i # 1
      BY <1>1, <1>2, <3>1
    <3>3. i - 1 \in 1 .. Len(k) /\ i - 1 + 1 = i
      BY <1>1, <3>2
    <3>4. k[i - 1] = l[i]
      BY <1>1, <3>3
    <3> QED
      BY <3>1, <3>3, <3>4
  <2> QED
    BY <2>1 DEF Covered
<1>5. Rising(k, cs)
  <2>1. ASSUME NEW i \in 1 .. Len(k), NEW j \in 1 .. Len(k), i < j,
               k[i].command \in cs, k[j].command \in cs
        PROVE  k[i].req < k[j].req
    <3>1. i + 1 \in 1 .. Len(l) /\ j + 1 \in 1 .. Len(l) /\ i + 1 < j + 1
      BY <1>1, <2>1
    <3>2. k[i] = l[i + 1] /\ k[j] = l[j + 1]
      BY <1>1
    <3> QED
      BY <2>1, <3>1, <3>2 DEF Numbered, Rising
  <2> QED
    BY <2>1 DEF Rising
<1> QED
  BY <1>3, <1>4, <1>5 DEF Numbered, k

\* The first message is one of them: the one with the least id.  Apart says
\* that nothing is skipped.
Apart(kind, lo, q) == lo < q /\ \A r \in Nat : lo < r /\ r < q => kind[r] = "none"

LEMMA NumberedHead ==
    ASSUME NEW l \in Seq(Messages), NEW cs, NEW kind, NEW lo \in Nat, NEW hi \in Nat,
           NEW q, Numbered(l, cs, kind, lo, hi), l # <<>>, Head(l).command \in cs,
           q = Head(l).req
    PROVE  /\ Numbered(Tail(l), cs, kind, q, hi)
           /\ lo < q /\ q <= hi /\ kind[q] # "none" /\ Apart(kind, lo, q)
<1> DEFINE k == Tail(l)
<1>1. /\ Head(l) = l[1] /\ 1 \in 1 .. Len(l) /\ Len(k) = Len(l) - 1 /\ Len(l) \in Nat
      /\ \A i \in 1 .. Len(k) : i + 1 \in 1 .. Len(l) /\ k[i] = l[i + 1]
  BY TailIs
<1>2. \A i \in 1 .. Len(l) : l[i].req \in Nat
  <2>1. \A i \in 1 .. Len(l) : l[i] \in Messages
    BY ElementOfSeq
  <2> QED
    BY <2>1, Fields
<1>3. q = l[1].req /\ q \in Nat /\ l[1].command \in cs
  BY <1>1, <1>2
<1> HIDE DEF k
<1>4. lo < q /\ q <= hi /\ kind[q] # "none"
  BY <1>1, <1>3 DEF Numbered, Within
<1>5. ASSUME NEW i \in 1 .. Len(l), l[i].command \in cs, i # 1 PROVE q < l[i].req
  <2>1. 1 < i
    BY <1>1, <1>5
  <2> QED
    BY <1>1, <1>3, <1>5, <2>1 DEF Numbered, Rising
<1>6. ASSUME NEW r \in Nat, lo < r, r < q PROVE kind[r] = "none"
  <2> SUFFICES ASSUME kind[r] # "none" PROVE FALSE
    OBVIOUS
  <2>1. r <= hi
    BY <1>3, <1>4, <1>6
  <2>2. PICK i \in 1 .. Len(l) : l[i].command \in cs /\ l[i].req = r
    BY <1>6, <2>1 DEF Numbered, Covered
  <2> QED
    BY <1>2, <1>3, <1>5, <1>6, <2>2
<1>7. Within(k, cs, kind, q, hi)
  <2>1. ASSUME NEW i \in 1 .. Len(k), k[i].command \in cs
        PROVE  q < k[i].req /\ k[i].req <= hi /\ kind[k[i].req] # "none"
    <3>1. i + 1 \in 1 .. Len(l) /\ k[i] = l[i + 1] /\ i + 1 # 1
      BY <1>1
    <3> QED
      BY <1>5, <2>1, <3>1 DEF Numbered, Within
  <2> QED
    BY <2>1 DEF Within
<1>8. Covered(k, cs, kind, q, hi)
  <2>1. ASSUME NEW r \in Nat, q < r, r <= hi, kind[r] # "none"
        PROVE  \E i \in 1 .. Len(k) : k[i].command \in cs /\ k[i].req = r
    <3>1. PICK i \in 1 .. Len(l) : l[i].command \in cs /\ l[i].req = r
      <4>1. lo < r
        BY <1>3, <1>4, <2>1
      <4> QED
        BY <2>1, <4>1 DEF Numbered, Covered
    <3>2. i # 1
      BY <1>3, <2>1, <3>1
    <3>3. i - 1 \in 1 .. Len(k) /\ i - 1 + 1 = i
      BY <1>1, <3>2
    <3>4. k[i - 1] = l[i]
      BY <1>1, <3>3
    <3> QED
      BY <3>1, <3>3, <3>4
  <2> QED
    BY <2>1 DEF Covered
<1>9. Rising(k, cs)
  <2>1. ASSUME NEW i \in 1 .. Len(k), NEW j \in 1 .. Len(k), i < j,
               k[i].command \in cs, k[j].command \in cs
        PROVE  k[i].req < k[j].req
    <3>1. i + 1 \in 1 .. Len(l) /\ j + 1 \in 1 .. Len(l) /\ i + 1 < j + 1
      BY <1>1, <2>1
    <3>2. k[i] = l[i + 1] /\ k[j] = l[j + 1]
      BY <1>1
    <3> QED
      BY <2>1, <3>1, <3>2 DEF Numbered, Rising
  <2> QED
    BY <2>1 DEF Rising
<1> QED
  BY <1>4, <1>6, <1>7, <1>8, <1>9 DEF Numbered, Apart, k

LEMMA NumberedSame ==
    ASSUME NEW l \in Seq(Messages), NEW cs, NEW kind, NEW new, NEW lo \in Nat, NEW hi \in Nat,
           Numbered(l, cs, kind, lo, hi),
           \A r \in Nat : lo < r /\ r <= hi => new[r] = kind[r]
    PROVE  Numbered(l, cs, new, lo, hi)
<1>1. \A i \in 1 .. Len(l) : l[i].req \in Nat
  <2>1. \A i \in 1 .. Len(l) : l[i] \in Messages
    BY ElementOfSeq
  <2> QED
    BY <2>1, Fields
<1>2. Within(l, cs, new, lo, hi)
  BY <1>1 DEF Numbered, Within
<1>3. Covered(l, cs, new, lo, hi)
  BY DEF Numbered, Covered
<1> QED
  BY <1>2, <1>3 DEF Numbered

LEMMA NumberedElems ==
    ASSUME NEW l \in Seq(Messages), NEW cs, NEW kind, NEW lo \in Nat, NEW hi \in Nat,
           Numbered(l, cs, kind, lo, hi), NEW m \in Elems(l), m.command \in cs
    PROVE  m \in Messages /\ m.req \in Nat /\ lo < m.req /\ m.req <= hi
<1>1. PICK i \in 1 .. Len(l) : m = l[i]
  BY DEF Elems
<1>2. m \in Messages
  BY <1>1, ElementOfSeq
<1> QED
  BY <1>1, <1>2, Fields DEF Numbered, Within

-----------------------------------------------------------------------------
(* What happened between d and p, for one property x that d subscribes to. *)
(* The request r of d was a start or an end for property prop[r], if it    *)
(* was sent to p at all (kind[r]).  The host has taken those up to host,   *)
(* the client the replies up to client.  A start taken was given the id    *)
(* given[r].  The host serves the starts of x after gone; the client wants *)
(* the starts of x after left.  match[r] is the start that the end r is    *)
(* meant for.                                                              *)

Ask == {"start", "end"}
IsStart(kind, prop, r, x) == kind[r] = "start" /\ prop[r] = x
IsEnd(kind, prop, r, x) == kind[r] = "end" /\ prop[r] = x

Silent(kind, n) == \A r \in Nat : n < r => kind[r] = "none"
Sizes(host, client, gone, left, n) ==
    client <= host /\ host <= n /\ gone <= host /\ gone <= left /\ left <= n

\* Requests and replies are about what was asked.
Requests(S, kind, prop) ==
    \A m \in S : m.command \in Ask => kind[m.req] = m.command /\ prop[m.req] = m.prop
Replies(S, kind, prop, given) ==
    \A m \in S : m.command = "reply" =>
        /\ prop[m.req] = m.prop
        /\ m.id = NoId => kind[m.req] = "end"
        /\ m.id # NoId => kind[m.req] = "start" /\ m.id = given[m.req]

\* Later starts have higher ids.
Given(kind, given, host, last) ==
    /\ \A r \in Nat : r <= host /\ kind[r] = "start" => given[r] \in SubIds /\ given[r] <= last
    /\ \A r, s \in Nat :
        r < s /\ s <= host /\ kind[r] = "start" /\ kind[s] = "start" => given[r] < given[s]

\* The service has the starts after gone.
Serving(S, kind, prop, given, gone, host, x) ==
    /\ \A e \in S : e.prop = x =>
        \E r \in Nat : gone < r /\ r <= host /\ IsStart(kind, prop, r, x) /\ e.id = given[r]
    /\ \A r \in Nat : gone < r /\ r <= host /\ IsStart(kind, prop, r, x) =>
        \E e \in S : e.prop = x /\ e.id = given[r]

\* The client's entries, of any property.
Asked(S, kind, prop, given, client, n) ==
    \A e \in S :
        /\ e.req <= n /\ prop[e.req] = e.prop
        /\ e.state = "Unsubscribing" => kind[e.req] = "end" /\ client < e.req
        /\ e.state # "Unsubscribing" => kind[e.req] = "start"
        /\ e.id # NoId => \E r \in Nat : r <= client /\ kind[r] = "start" /\ e.id = given[r]
InOrder(l) ==
    \A i, j \in 1 .. Len(l) : i < j /\ l[i].prop = l[j].prop =>
        /\ l[j].state # "Unsubscribing"
        /\ l[i].state # "Unsubscribing" => l[i].req < l[j].req

\* The client has the starts after left.
Kept(S, kind, prop, given, client, left, n, x) ==
    /\ \A e \in S : e.prop = x /\ e.state # "Unsubscribing" =>
        /\ left < e.req
        /\ e.req <= client => e.state = "Subscribed" /\ e.id = given[e.req]
        /\ client < e.req => e.state = "Subscribing" /\ e.id = NoId
    /\ \A r \in Nat : left < r /\ r <= n /\ IsStart(kind, prop, r, x) =>
        \E e \in S : e.prop = x /\ e.state # "Unsubscribing" /\ e.req = r

\* An end under way is meant for a start that the host still serves.
Matched(kind, prop, match, gone, left, host, n, x) ==
    /\ \A r \in Nat : host < r /\ r <= n /\ IsEnd(kind, prop, r, x) =>
        /\ gone < match[r] /\ match[r] <= left /\ match[r] < r
        /\ IsStart(kind, prop, match[r], x)
    /\ \A r, s \in Nat :
        /\ host < r /\ r < s /\ s <= n
        /\ IsEnd(kind, prop, r, x) /\ IsEnd(kind, prop, s, x)
        => match[r] < match[s]
AllMatched(kind, prop, match, gone, left, host, n, x) ==
    \A s \in Nat : gone < s /\ s <= left /\ IsStart(kind, prop, s, x) =>
        \E r \in Nat : host < r /\ r <= n /\ IsEnd(kind, prop, r, x) /\ match[r] = s

\* The rules have the newest start that was answered.
Known(S, kind, prop, given, client, left, x) ==
    \A r \in Nat :
        /\ left < r /\ r <= client /\ IsStart(kind, prop, r, x)
        /\ \A s \in Nat : r < s /\ s <= client => ~IsStart(kind, prop, s, x)
        => [prop |-> x, id |-> given[r]] \in S

\* The facade shows d only while it serves d.
ShownOnly(S, kind, prop, gone, host, d, x) ==
    [muid |-> d, prop |-> x] \in S =>
        \E r \in Nat : gone < r /\ r <= host /\ IsStart(kind, prop, r, x)

Kinds == [Nat -> {"start", "end", "none"}]

-----------------------------------------------------------------------------
(* A request more: the parts that do not change.                           *)

Same(kind, prop, kind2, prop2, n) ==
    \A r \in Nat : r <= n => kind2[r] = kind[r] /\ prop2[r] = prop[r]

LEMMA RequestsSame ==
    ASSUME NEW S, NEW kind, NEW prop, NEW kind2, NEW prop2, NEW n \in Nat,
           Same(kind, prop, kind2, prop2, n), Requests(S, kind, prop),
           \A m \in S : m.command \in Ask => m.req \in Nat /\ m.req <= n
    PROVE  Requests(S, kind2, prop2)
  BY DEF Same, Requests

LEMMA RepliesSame ==
    ASSUME NEW S, NEW kind, NEW prop, NEW given, NEW kind2, NEW prop2, NEW n \in Nat,
           Same(kind, prop, kind2, prop2, n), Replies(S, kind, prop, given),
           \A m \in S : m.command = "reply" => m.req \in Nat /\ m.req <= n
    PROVE  Replies(S, kind2, prop2, given)
  BY DEF Same, Replies

LEMMA GivenSame ==
    ASSUME NEW kind, NEW prop, NEW given, NEW kind2, NEW prop2, NEW n \in Nat, NEW host \in Nat,
           NEW last, Same(kind, prop, kind2, prop2, n), host <= n, Given(kind, given, host, last)
    PROVE  Given(kind2, given, host, last)
<1>1. \A r \in Nat : r <= host => kind2[r] = kind[r]
  BY DEF Same
<1>2. \A r, s \in Nat : r < s /\ s <= host => r <= host
  OBVIOUS
<1> QED
  BY <1>1, <1>2 DEF Given

LEMMA ServingSame ==
    ASSUME NEW S, NEW kind, NEW prop, NEW given, NEW kind2, NEW prop2, NEW n \in Nat,
           NEW gone \in Nat, NEW host \in Nat, NEW x, host <= n,
           Same(kind, prop, kind2, prop2, n), Serving(S, kind, prop, given, gone, host, x)
    PROVE  Serving(S, kind2, prop2, given, gone, host, x)
<1>1. \A r \in Nat : r <= host => (IsStart(kind2, prop2, r, x) <=> IsStart(kind, prop, r, x))
  BY DEF Same, IsStart
<1> QED
  BY <1>1 DEF Serving

LEMMA AskedSame ==
    ASSUME NEW S \in SUBSET Subs, NEW kind, NEW prop, NEW given, NEW kind2, NEW prop2,
           NEW n \in Nat, NEW client \in Nat, client <= n,
           Same(kind, prop, kind2, prop2, n), Asked(S, kind, prop, given, client, n)
    PROVE  Asked(S, kind2, prop2, given, client, n + 1)
<1>1. ASSUME NEW e \in S
      PROVE  e.req \in Nat /\ e.req <= n /\ e.req <= n + 1
  <2>1. e \in Subs /\ e.req <= n
    BY DEF Asked
  <2>2. e.req \in Nat
    BY <2>1, Numbers DEF Subs
  <2> QED
    BY <2>1, <2>2
<1>2. \A e \in S : kind2[e.req] = kind[e.req] /\ prop2[e.req] = prop[e.req]
  BY <1>1 DEF Same
<1>3. \A r \in Nat : r <= client => kind2[r] = kind[r]
  BY DEF Same
<1> QED
  BY <1>1, <1>2, <1>3 DEF Asked

LEMMA KnownSame ==
    ASSUME NEW S, NEW kind, NEW prop, NEW given, NEW kind2, NEW prop2, NEW n \in Nat,
           NEW client \in Nat, NEW left \in Nat, NEW x, client <= n,
           Same(kind, prop, kind2, prop2, n), Known(S, kind, prop, given, client, left, x)
    PROVE  Known(S, kind2, prop2, given, client, left, x)
<1>1. \A r \in Nat : r <= client => (IsStart(kind2, prop2, r, x) <=> IsStart(kind, prop, r, x))
  BY DEF Same, IsStart
<1> QED
  BY <1>1 DEF Known

LEMMA ShownSame ==
    ASSUME NEW S, NEW kind, NEW prop, NEW kind2, NEW prop2, NEW n \in Nat,
           NEW gone \in Nat, NEW host \in Nat, NEW d, NEW x, host <= n,
           Same(kind, prop, kind2, prop2, n), ShownOnly(S, kind, prop, gone, host, d, x)
    PROVE  ShownOnly(S, kind2, prop2, gone, host, d, x)
<1>1. \A r \in Nat : r <= host => (IsStart(kind2, prop2, r, x) <=> IsStart(kind, prop, r, x))
  BY DEF Same, IsStart
<1> QED
  BY <1>1 DEF ShownOnly

\* Ends of x are as before unless the new request is one.
LEMMA MatchedSame ==
    ASSUME NEW kind, NEW prop, NEW match \in [Nat -> Nat], NEW kind2, NEW prop2, NEW n \in Nat,
           NEW gone \in Nat, NEW left \in Nat, NEW host \in Nat, NEW x, host <= n,
           Same(kind, prop, kind2, prop2, n), ~IsEnd(kind2, prop2, n + 1, x),
           Matched(kind, prop, match, gone, left, host, n, x)
    PROVE  Matched(kind2, prop2, match, gone, left, host, n + 1, x)
<1>1. \A r \in Nat : r <= n =>
            /\ IsStart(kind2, prop2, r, x) <=> IsStart(kind, prop, r, x)
            /\ IsEnd(kind2, prop2, r, x) <=> IsEnd(kind, prop, r, x)
  BY DEF Same, IsStart, IsEnd
<1>2. \A r \in Nat : r <= n + 1 /\ IsEnd(kind2, prop2, r, x) => r <= n /\ IsEnd(kind, prop, r, x)
  <2>1. \A r \in Nat : r <= n + 1 => r <= n \/ r = n + 1
    OBVIOUS
  <2> QED
    BY <1>1, <2>1
<1>3. ASSUME NEW r \in Nat, host < r, r <= n + 1, IsEnd(kind2, prop2, r, x)
      PROVE  /\ gone < match[r] /\ match[r] <= left /\ match[r] < r
             /\ IsStart(kind2, prop2, match[r], x)
  <2>1. r <= n /\ IsEnd(kind, prop, r, x)
    BY <1>2, <1>3
  <2>2. /\ gone < match[r] /\ match[r] <= left /\ match[r] < r
        /\ IsStart(kind, prop, match[r], x)
    BY <1>3, <2>1 DEF Matched
  <2>3. match[r] \in Nat /\ match[r] <= n
    BY <2>1, <2>2
  <2> QED
    BY <1>1, <2>2, <2>3
<1>4. ASSUME NEW r \in Nat, NEW s \in Nat, host < r, r < s, s <= n + 1,
             IsEnd(kind2, prop2, r, x), IsEnd(kind2, prop2, s, x)
      PROVE  match[r] < match[s]
  <2>1. s <= n /\ IsEnd(kind, prop, s, x) /\ r <= n + 1
    BY <1>2, <1>4
  <2>2. IsEnd(kind, prop, r, x)
    BY <1>2, <1>4, <2>1
  <2> QED
    BY <1>4, <2>1, <2>2 DEF Matched
<1> QED
  BY <1>3, <1>4 DEF Matched

LEMMA AllMatchedSame ==
    ASSUME NEW kind, NEW prop, NEW match, NEW kind2, NEW prop2, NEW n \in Nat,
           NEW gone \in Nat, NEW left \in Nat, NEW host \in Nat, NEW x, left <= n,
           Same(kind, prop, kind2, prop2, n),
           AllMatched(kind, prop, match, gone, left, host, n, x)
    PROVE  AllMatched(kind2, prop2, match, gone, left, host, n + 1, x)
<1>1. \A r \in Nat : r <= n =>
            /\ IsStart(kind2, prop2, r, x) <=> IsStart(kind, prop, r, x)
            /\ IsEnd(kind2, prop2, r, x) <=> IsEnd(kind, prop, r, x)
  BY DEF Same, IsStart, IsEnd
<1>2. ASSUME NEW s \in Nat, gone < s, s <= left, IsStart(kind2, prop2, s, x)
      PROVE  \E r \in Nat : host < r /\ r <= n + 1 /\ IsEnd(kind2, prop2, r, x) /\ match[r] = s
  <2>1. IsStart(kind, prop, s, x)
    BY <1>1, <1>2
  <2>2. PICK r \in Nat : host < r /\ r <= n /\ IsEnd(kind, prop, r, x) /\ match[r] = s
    BY <1>2, <2>1 DEF AllMatched
  <2>3. r <= n + 1
    BY <2>2
  <2> QED
    BY <1>1, <2>2, <2>3
<1> QED
  BY <1>2 DEF AllMatched

-----------------------------------------------------------------------------
\* Requests to others are counted, too.

LEMMA AskedFurther ==
    ASSUME NEW S \in SUBSET Subs, NEW kind, NEW prop, NEW given, NEW client, NEW n \in Nat,
           NEW top \in Nat, n <= top, Asked(S, kind, prop, given, client, n)
    PROVE  Asked(S, kind, prop, given, client, top)
<1>1. \A e \in S : e.req \in Nat
  BY Numbers DEF Subs
<1>2. \A e \in S : e.req <= top
  BY <1>1 DEF Asked
<1> QED
  BY <1>2 DEF Asked

LEMMA KeptFurther ==
    ASSUME NEW S, NEW kind, NEW prop, NEW given, NEW client, NEW left, NEW x, NEW n \in Nat,
           NEW top \in Nat, Silent(kind, n), Kept(S, kind, prop, given, client, left, n, x)
    PROVE  Kept(S, kind, prop, given, client, left, top, x)
<1>1. \A r \in Nat : IsStart(kind, prop, r, x) => r <= n
  BY DEF Silent, IsStart
<1> QED
  BY <1>1 DEF Kept

LEMMA MatchedFurther ==
    ASSUME NEW kind, NEW prop, NEW match, NEW gone, NEW left, NEW host, NEW x, NEW n \in Nat,
           NEW top \in Nat, Silent(kind, n), n <= top
    PROVE  /\ Matched(kind, prop, match, gone, left, host, n, x) =>
                Matched(kind, prop, match, gone, left, host, top, x)
           /\ AllMatched(kind, prop, match, gone, left, host, n, x) =>
                AllMatched(kind, prop, match, gone, left, host, top, x)
<1>1. \A r \in Nat : IsEnd(kind, prop, r, x) => r <= n
  BY DEF Silent, IsEnd
<1>2. \A r \in Nat : r <= n => r <= top
  OBVIOUS
<1>3. ASSUME Matched(kind, prop, match, gone, left, host, n, x)
      PROVE  Matched(kind, prop, match, gone, left, host, top, x)
  BY <1>1, <1>3 DEF Matched
<1>4. ASSUME AllMatched(kind, prop, match, gone, left, host, n, x)
      PROVE  AllMatched(kind, prop, match, gone, left, host, top, x)
  BY <1>2, <1>4 DEF AllMatched
<1> QED
  BY <1>3, <1>4

-----------------------------------------------------------------------------
\* A new subscription.

LEMMA AskedNew ==
    ASSUME NEW S \in SUBSET Subs, NEW e \in Subs, NEW kind, NEW prop, NEW given,
           NEW kind2, NEW prop2, NEW n \in Nat, NEW client \in Nat, client <= n,
           Same(kind, prop, kind2, prop2, n), Asked(S, kind, prop, given, client, n),
           e.req = n + 1, e.id = NoId, e.state = "Subscribing",
           kind2[n + 1] = "start", prop2[n + 1] = e.prop
    PROVE  Asked(S \cup {e}, kind2, prop2, given, client, n + 1)
<1>1. Asked(S, kind2, prop2, given, client, n + 1)
  BY AskedSame
<1>2. n + 1 <= n + 1
  OBVIOUS
<1>3. ASSUME NEW f \in S \cup {e}
      PROVE  /\ f.req <= n + 1 /\ prop2[f.req] = f.prop
             /\ f.state = "Unsubscribing" => kind2[f.req] = "end" /\ client < f.req
             /\ f.state # "Unsubscribing" => kind2[f.req] = "start"
             /\ f.id # NoId => \E r \in Nat : r <= client /\ kind2[r] = "start" /\ f.id = given[r]
  <2>1. CASE f \in S
    BY <1>1, <2>1 DEF Asked
  <2>2. CASE f = e
    BY <1>2, <2>2
  <2> QED
    BY <2>1, <2>2
<1> QED
  BY <1>3 DEF Asked

LEMMA InOrderNew ==
    ASSUME NEW l \in Seq(Subs), NEW e \in Subs, NEW kind, NEW prop, NEW given, NEW client,
           NEW n \in Nat, Asked(Elems(l), kind, prop, given, client, n), InOrder(l),
           e.req = n + 1, e.state = "Subscribing"
    PROVE  InOrder(Append(l, e))
<1> DEFINE k == Append(l, e)
           m == Len(l)
<1>1. /\ m \in Nat /\ Len(k) = m + 1
      /\ \A i \in 1 .. m : k[i] = l[i]
      /\ k[m + 1] = e
  BY AppendAt
<1>2. \A i \in 1 .. m : l[i].req \in Nat /\ l[i].req <= n
  <2>1. \A i \in 1 .. m : l[i] \in Subs /\ l[i] \in Elems(l)
    BY ElementOfSeq DEF Elems
  <2> QED
    BY <2>1, Numbers DEF Subs, Asked
<1> HIDE DEF k, m
<1>3. ASSUME NEW i \in 1 .. m + 1, NEW j \in 1 .. m + 1, i < j, k[i].prop = k[j].prop
      PROVE  /\ k[j].state # "Unsubscribing"
             /\ k[i].state # "Unsubscribing" => k[i].req < k[j].req
  <2>1. i \in 1 .. m /\ (j \in 1 .. m \/ j = m + 1)
    BY <1>1, <1>3
  <2>2. CASE j \in 1 .. m
    BY <1>1, <1>3, <2>1, <2>2 DEF InOrder, m
  <2>3. CASE j = m + 1
    BY <1>1, <1>2, <2>1, <2>3
  <2> QED
    BY <2>1, <2>2, <2>3
<1>4. InOrder(k)
  BY <1>1, <1>3 DEF InOrder
<1> QED
  BY <1>4 DEF k

LEMMA KeptNew ==
    ASSUME NEW S \in SUBSET Subs, NEW e \in Subs, NEW kind, NEW prop, NEW given,
           NEW kind2, NEW prop2, NEW n \in Nat, NEW client \in Nat, NEW left \in Nat, NEW x,
           client <= n, left <= n,
           Same(kind, prop, kind2, prop2, n), Asked(S, kind, prop, given, client, n),
           Kept(S, kind, prop, given, client, left, n, x),
           e.req = n + 1, e.id = NoId, e.state = "Subscribing",
           kind2[n + 1] = "start", prop2[n + 1] = e.prop
    PROVE  Kept(S \cup {e}, kind2, prop2, given, client, left, n + 1, x)
<1>1. \A r \in Nat : r <= n => (IsStart(kind2, prop2, r, x) <=> IsStart(kind, prop, r, x))
  BY DEF Same, IsStart
<1>2. left < n + 1 /\ client < n + 1 /\ ~(n + 1 <= client)
  OBVIOUS
<1>3. ASSUME NEW f \in S \cup {e}, f.prop = x, f.state # "Unsubscribing"
      PROVE  /\ left < f.req
             /\ f.req <= client => f.state = "Subscribed" /\ f.id = given[f.req]
             /\ client < f.req => f.state = "Subscribing" /\ f.id = NoId
  <2>1. CASE f \in S
    BY <1>3, <2>1 DEF Kept
  <2>2. CASE f = e
    BY <1>2, <2>2
  <2> QED
    BY <2>1, <2>2
<1>4. ASSUME NEW r \in Nat, left < r, r <= n + 1, IsStart(kind2, prop2, r, x)
      PROVE  \E f \in S \cup {e} : f.prop = x /\ f.state # "Unsubscribing" /\ f.req = r
  <2>1. CASE r <= n
    BY <1>1, <1>4, <2>1 DEF Kept
  <2>2. CASE r = n + 1
    <3>1. e.prop = x
      BY <1>4, <2>2 DEF IsStart
    <3> QED
      BY <2>2, <3>1
  <2> QED
    BY <1>4, <2>1, <2>2
<1> QED
  BY <1>3, <1>4 DEF Kept

-----------------------------------------------------------------------------
\* The first subscription to y is left.  new is the list of the client after.

LEMMA AskedLeft ==
    ASSUME NEW l \in Seq(Subs), NEW new \in Seq(Subs), NEW i \in 1 .. Len(l),
           NEW kind, NEW prop, NEW given,
           NEW kind2, NEW prop2, NEW n \in Nat, NEW client \in Nat, client <= n,
           Same(kind, prop, kind2, prop2, n), Asked(Elems(l), kind, prop, given, client, n),
           kind2[n + 1] = "end", prop2[n + 1] = l[i].prop,
           Len(new) = Len(l), new[i].prop = l[i].prop, new[i].id = l[i].id,
           new[i].req = n + 1, new[i].state = "Unsubscribing",
           \A j \in 1 .. Len(l) : j # i => new[j] = l[j]
    PROVE  Asked(Elems(new), kind2, prop2, given, client, n + 1)
<1>1. Elems(l) \in SUBSET Subs
  BY ElementOfSeq DEF Elems
<1>2. Asked(Elems(l), kind2, prop2, given, client, n + 1)
  BY <1>1, AskedSame
<1>3. n + 1 <= n + 1 /\ client < n + 1
  OBVIOUS
<1>4. \A j \in 1 .. Len(l) : l[j] \in Elems(l)
  BY DEF Elems
<1>5. ASSUME NEW j \in 1 .. Len(l)
      PROVE  /\ new[j].req <= n + 1 /\ prop2[new[j].req] = new[j].prop
             /\ new[j].state = "Unsubscribing" =>
                    kind2[new[j].req] = "end" /\ client < new[j].req
             /\ new[j].state # "Unsubscribing" => kind2[new[j].req] = "start"
             /\ new[j].id # NoId =>
                    \E r \in Nat : r <= client /\ kind2[r] = "start" /\ new[j].id = given[r]
  <2>1. CASE j # i
    BY <1>2, <1>4, <2>1 DEF Asked
  <2>2. CASE j = i
    <3>1. l[i].id # NoId =>
            \E r \in Nat : r <= client /\ kind2[r] = "start" /\ l[i].id = given[r]
      BY <1>2, <1>4 DEF Asked
    <3> QED
      BY <1>3, <2>2, <3>1
  <2> QED
    BY <2>1, <2>2
<1>6. \A e \in Elems(new) : \E j \in 1 .. Len(l) : e = new[j]
  BY DEF Elems
<1> QED
  BY <1>5, <1>6 DEF Asked

LEMMA InOrderLeft ==
    ASSUME NEW l \in Seq(Subs), NEW new, NEW i \in 1 .. Len(l), InOrder(l),
           Len(new) = Len(l), new[i].prop = l[i].prop, new[i].state = "Unsubscribing",
           \A j \in 1 .. Len(l) : j # i => new[j] = l[j],
           \A j \in 1 .. Len(l) : l[j].prop = l[i].prop => i <= j
    PROVE  InOrder(new)
<1>1. Len(l) \in Nat /\ \A j \in 1 .. Len(l) : new[j].prop = l[j].prop
  BY LenProperties
<1>2. ASSUME NEW j \in 1 .. Len(l), NEW k \in 1 .. Len(l), j < k, new[j].prop = new[k].prop
      PROVE  /\ new[k].state # "Unsubscribing"
             /\ new[j].state # "Unsubscribing" => new[j].req < new[k].req
  <2>1. l[j].prop = l[k].prop /\ l[k].state # "Unsubscribing"
    BY <1>1, <1>2 DEF InOrder
  <2>2. k # i
    BY <1>1, <1>2, <2>1
  <2>3. new[k] = l[k]
    BY <2>2
  <2>4. CASE j = i
    BY <2>1, <2>3, <2>4
  <2>5. CASE j # i
    BY <1>2, <2>1, <2>3, <2>5 DEF InOrder
  <2> QED
    BY <2>4, <2>5
<1> QED
  BY <1>2 DEF InOrder

LEMMA KeptOthers ==
    ASSUME NEW S, NEW T, NEW kind, NEW prop, NEW given, NEW kind2, NEW prop2,
           NEW n \in Nat, NEW top \in Nat, NEW client \in Nat, NEW left \in Nat, NEW x,
           Kept(S, kind, prop, given, client, left, n, x),
           \A e \in S : e.prop = x => e \in T,
           \A e \in T : e.prop = x => e \in S,
           \A r \in Nat : left < r /\ r <= top /\ IsStart(kind2, prop2, r, x) =>
                r <= n /\ IsStart(kind, prop, r, x)
    PROVE  Kept(T, kind2, prop2, given, client, left, top, x)
  BY DEF Kept

Without(l, i, T, x) ==
    /\ \A e \in T : e.prop = x /\ e.state # "Unsubscribing" =>
        \E j \in 1 .. Len(l) : j # i /\ e = l[j]
    /\ \A j \in 1 .. Len(l) : j # i => l[j] \in T
FirstPlace(l, i, x) ==
    l[i].prop = x /\ \A j \in 1 .. Len(l) : l[j].prop = x => i <= j
NoNewStart(kind2, prop2, top, kind, prop, n, lo, x) ==
    \A r \in Nat : lo < r /\ r <= top /\ IsStart(kind2, prop2, r, x) =>
        r <= n /\ IsStart(kind, prop, r, x)
OnlyStart(kind, prop, lo, q, n, x) ==
    \A r \in Nat : lo < r /\ r <= q /\ r <= n /\ IsStart(kind, prop, r, x) => r = q

\* The first entry of x is one less that is wanted: i is its place, new the
\* list with the entry marked or removed.
LEMMA KeptLess ==
    ASSUME NEW l \in Seq(Subs), NEW new, NEW i \in 1 .. Len(l), NEW x, NEW q,
           NEW kind, NEW prop, NEW given, NEW kind2, NEW prop2,
           NEW n \in Nat, NEW top \in Nat, NEW client \in Nat, NEW left \in Nat,
           Kept(Elems(l), kind, prop, given, client, left, n, x), InOrder(l),
           FirstPlace(l, i, x), l[i].req = q, l[i].state # "Unsubscribing",
           Without(l, i, new, x), NoNewStart(kind2, prop2, top, kind, prop, n, q, x)
    PROVE  /\ Kept(new, kind2, prop2, given, client, q, top, x)
           /\ left < q /\ q \in Nat
           /\ OnlyStart(kind, prop, left, q, n, x)
<1>0. /\ l[i].prop = x /\ \A j \in 1 .. Len(l) : l[j].prop = x => i <= j
      /\ \A e \in new : e.prop = x /\ e.state # "Unsubscribing" =>
            \E j \in 1 .. Len(l) : j # i /\ e = l[j]
      /\ \A j \in 1 .. Len(l) : j # i => l[j] \in new
      /\ \A r \in Nat : q < r /\ r <= top /\ IsStart(kind2, prop2, r, x) =>
            r <= n /\ IsStart(kind, prop, r, x)
  BY DEF FirstPlace, Without, NoNewStart
<1>1. Len(l) \in Nat /\ \A j \in 1 .. Len(l) : l[j].req \in Nat /\ l[j] \in Elems(l)
  <2>1. \A j \in 1 .. Len(l) : l[j] \in Subs
    BY ElementOfSeq
  <2> QED
    BY <2>1, Numbers, LenProperties DEF Subs, Elems
<1>2. q \in Nat /\ left < q
  BY <1>0, <1>1 DEF Kept
<1>3. ASSUME NEW j \in 1 .. Len(l), l[j].prop = x, j # i PROVE q < l[j].req /\ l[j].state # "Unsubscribing"
  <2>1. i < j
    BY <1>0, <1>1, <1>3
  <2> QED
    BY <1>0, <1>3, <2>1 DEF InOrder
<1>4. ASSUME NEW e \in new, e.prop = x, e.state # "Unsubscribing"
      PROVE  /\ q < e.req
             /\ e.req <= client => e.state = "Subscribed" /\ e.id = given[e.req]
             /\ client < e.req => e.state = "Subscribing" /\ e.id = NoId
  <2>1. PICK j \in 1 .. Len(l) : j # i /\ e = l[j]
    BY <1>0, <1>4
  <2>2. q < l[j].req
    BY <1>3, <1>4, <2>1
  <2>3. e \in Elems(l)
    BY <1>1, <2>1
  <2> QED
    BY <1>4, <2>1, <2>2, <2>3 DEF Kept
<1>5. ASSUME NEW r \in Nat, left < r, r <= n, IsStart(kind, prop, r, x)
      PROVE  \E j \in 1 .. Len(l) : l[j].prop = x /\ l[j].state # "Unsubscribing" /\ l[j].req = r
  <2>1. \E e \in Elems(l) : e.prop = x /\ e.state # "Unsubscribing" /\ e.req = r
    BY <1>5 DEF Kept
  <2> QED
    BY <2>1 DEF Elems
<1>6. ASSUME NEW r \in Nat, q < r, r <= top, IsStart(kind2, prop2, r, x)
      PROVE  \E e \in new : e.prop = x /\ e.state # "Unsubscribing" /\ e.req = r
  <2>1. r <= n /\ IsStart(kind, prop, r, x) /\ left < r
    BY <1>0, <1>2, <1>6
  <2>2. PICK j \in 1 .. Len(l) : l[j].prop = x /\ l[j].state # "Unsubscribing" /\ l[j].req = r
    BY <1>5, <2>1
  <2>3. j # i
    BY <1>2, <1>6, <2>2
  <2> QED
    BY <1>0, <2>2, <2>3
<1>7. ASSUME NEW r \in Nat, left < r, r <= q, r <= n, IsStart(kind, prop, r, x)
      PROVE  r = q
  <2>1. PICK j \in 1 .. Len(l) : l[j].prop = x /\ l[j].state # "Unsubscribing" /\ l[j].req = r
    BY <1>5, <1>7
  <2>2. CASE j = i
    BY <2>1, <2>2
  <2>3. CASE j # i
    BY <1>2, <1>3, <1>7, <2>1, <2>3
  <2> QED
    BY <2>2, <2>3
<1>8. Kept(new, kind2, prop2, given, client, q, top, x)
  BY <1>4, <1>6 DEF Kept
<1> QED
  BY <1>2, <1>7, <1>8 DEF OnlyStart

\* The next end, n + 1, is for the start q, the first that is wanted.
EndsFirst(kind, prop, match, match2, left, q, n, x) ==
    /\ \A r \in Nat : r <= n => match2[r] = match[r]
    /\ match2[n + 1] = q /\ left < q /\ q <= n /\ IsStart(kind, prop, q, x)
    /\ \A r \in Nat : left < r /\ r <= q /\ r <= n /\ IsStart(kind, prop, r, x) => r = q

LEMMA MatchedLeft ==
    ASSUME NEW kind, NEW prop, NEW match \in [Nat -> Nat], NEW kind2, NEW prop2,
           NEW match2 \in [Nat -> Nat], NEW n \in Nat, NEW q \in Nat,
           NEW gone \in Nat, NEW left \in Nat, NEW host \in Nat, NEW x, host <= n, gone <= left,
           Same(kind, prop, kind2, prop2, n), EndsFirst(kind, prop, match, match2, left, q, n, x),
           IsEnd(kind2, prop2, n + 1, x),
           Matched(kind, prop, match, gone, left, host, n, x)
    PROVE  Matched(kind2, prop2, match2, gone, q, host, n + 1, x)
<1> SUFFICES ASSUME \A r \in Nat : r <= n => match2[r] = match[r],
                    match2[n + 1] = q, left < q, q <= n, IsStart(kind, prop, q, x)
             PROVE  Matched(kind2, prop2, match2, gone, q, host, n + 1, x)
  BY DEF EndsFirst
<1>1. \A r \in Nat : r <= n =>
            /\ IsStart(kind2, prop2, r, x) <=> IsStart(kind, prop, r, x)
            /\ IsEnd(kind2, prop2, r, x) <=> IsEnd(kind, prop, r, x)
  BY DEF Same, IsStart, IsEnd
<1>2. \A r \in Nat : r <= n + 1 => r <= n \/ r = n + 1
  OBVIOUS
<1>3. ASSUME NEW r \in Nat, host < r, r <= n, IsEnd(kind2, prop2, r, x)
      PROVE  /\ gone < match2[r] /\ match2[r] <= left /\ match2[r] < r
             /\ IsStart(kind, prop, match2[r], x) /\ match2[r] \in Nat
  BY <1>1, <1>3 DEF Matched
<1>4. ASSUME NEW r \in Nat, host < r, r <= n + 1, IsEnd(kind2, prop2, r, x)
      PROVE  /\ gone < match2[r] /\ match2[r] <= q /\ match2[r] < r
             /\ IsStart(kind2, prop2, match2[r], x)
  <2>1. CASE r <= n
    <3>1. /\ gone < match2[r] /\ match2[r] <= left /\ match2[r] < r
          /\ IsStart(kind, prop, match2[r], x) /\ match2[r] \in Nat
      BY <1>3, <1>4, <2>1
    <3>2. match2[r] <= q /\ match2[r] <= n
      BY <2>1, <3>1
    <3> QED
      BY <1>1, <3>1, <3>2
  <2>2. CASE r = n + 1
    <3>1. match2[r] = q /\ gone < q /\ q < r /\ q <= q
      BY <2>2
    <3> QED
      BY <1>1, <3>1
  <2> QED
    BY <1>2, <1>4, <2>1, <2>2
<1>5. ASSUME NEW r \in Nat, NEW s \in Nat, host < r, r < s, s <= n + 1,
             IsEnd(kind2, prop2, r, x), IsEnd(kind2, prop2, s, x)
      PROVE  match2[r] < match2[s]
  <2>1. r <= n /\ IsEnd(kind, prop, r, x) /\ match2[r] = match[r]
    <3>1. r <= n
      BY <1>5
    <3> QED
      BY <1>1, <1>5, <3>1
  <2>2. CASE s <= n
    <3>1. IsEnd(kind, prop, s, x) /\ match2[s] = match[s]
      BY <1>1, <1>5, <2>2
    <3> QED
      BY <1>5, <2>1, <2>2, <3>1 DEF Matched
  <2>3. CASE s = n + 1
    <3>1. match2[r] <= left /\ match2[r] \in Nat /\ match2[s] = q
      BY <1>3, <1>5, <2>1, <2>3
    <3> QED
      BY <3>1
  <2> QED
    BY <1>2, <1>5, <2>2, <2>3
<1> QED
  BY <1>4, <1>5 DEF Matched

LEMMA AllMatchedLeft ==
    ASSUME NEW kind, NEW prop, NEW match, NEW kind2, NEW prop2, NEW match2, NEW n \in Nat,
           NEW q \in Nat, NEW gone \in Nat, NEW left \in Nat, NEW host \in Nat, NEW x,
           host <= n,
           Same(kind, prop, kind2, prop2, n), EndsFirst(kind, prop, match, match2, left, q, n, x),
           IsEnd(kind2, prop2, n + 1, x),
           AllMatched(kind, prop, match, gone, left, host, n, x)
    PROVE  AllMatched(kind2, prop2, match2, gone, q, host, n + 1, x)
<1> SUFFICES ASSUME \A r \in Nat : r <= n => match2[r] = match[r],
                    match2[n + 1] = q, q <= n,
                    \A r \in Nat : left < r /\ r <= q /\ r <= n /\ IsStart(kind, prop, r, x)
                                        => r = q
             PROVE  AllMatched(kind2, prop2, match2, gone, q, host, n + 1, x)
  BY DEF EndsFirst
<1>1. \A r \in Nat : r <= n =>
            /\ IsStart(kind2, prop2, r, x) <=> IsStart(kind, prop, r, x)
            /\ IsEnd(kind2, prop2, r, x) <=> IsEnd(kind, prop, r, x)
  BY DEF Same, IsStart, IsEnd
<1>2. ASSUME NEW s \in Nat, gone < s, s <= q, IsStart(kind2, prop2, s, x)
      PROVE  \E r \in Nat : host < r /\ r <= n + 1 /\ IsEnd(kind2, prop2, r, x) /\ match2[r] = s
  <2>1. s <= n
    BY <1>2
  <2>2. IsStart(kind, prop, s, x)
    BY <1>1, <1>2, <2>1
  <2>3. CASE s <= left
    <3>1. PICK r \in Nat : host < r /\ r <= n /\ IsEnd(kind, prop, r, x) /\ match[r] = s
      BY <1>2, <2>2, <2>3 DEF AllMatched
    <3>2. r <= n + 1 /\ match2[r] = s /\ IsEnd(kind2, prop2, r, x)
      BY <1>1, <3>1
    <3> QED
      BY <3>1, <3>2
  <2>4. CASE left < s
    <3>1. s = q
      BY <1>2, <2>1, <2>2, <2>4
    <3>2. n + 1 \in Nat /\ host < n + 1 /\ n + 1 <= n + 1
      OBVIOUS
    <3> QED
      BY <3>1, <3>2
  <2> QED
    BY <2>3, <2>4
<1> QED
  BY <1>2 DEF AllMatched

-----------------------------------------------------------------------------
\* The host takes the next request q.

\* A start is given the next id.
LEMMA GivenStart ==
    ASSUME NEW kind, NEW given \in [Nat -> Nat], NEW given2 \in [Nat -> Nat],
           NEW host \in Nat, NEW last \in Nat, NEW q \in Nat,
           Given(kind, given, host, last), Apart(kind, host, q),
           given2[q] = last + 1, \A r \in Nat : r # q => given2[r] = given[r]
    PROVE  Given(kind, given2, q, last + 1)
<1>1. \A r \in Nat : r <= q /\ kind[r] = "start" => r <= host \/ r = q
  BY DEF Apart
<1>2. host < q
  BY DEF Apart
<1>3. \A r \in Nat : r <= host => given2[r] = given[r]
  BY <1>2
<1>4. ASSUME NEW r \in Nat, r <= q, kind[r] = "start"
      PROVE  given2[r] \in SubIds /\ given2[r] <= last + 1
  <2>1. CASE r <= host
    <3>1. given[r] \in SubIds /\ given[r] <= last /\ given2[r] = given[r]
      BY <1>3, <1>4, <2>1 DEF Given
    <3> QED
      BY <3>1 DEF SubIds
  <2>2. CASE r = q
    BY <2>2 DEF SubIds
  <2> QED
    BY <1>1, <1>4, <2>1, <2>2
<1>5. ASSUME NEW r \in Nat, NEW s \in Nat, r < s, s <= q, kind[r] = "start", kind[s] = "start"
      PROVE  given2[r] < given2[s]
  <2>1. r <= host
    BY <1>1, <1>2, <1>5
  <2>2. given2[r] = given[r] /\ given[r] <= last /\ given[r] \in Nat
    BY <1>3, <1>5, <2>1 DEF Given
  <2>3. CASE s <= host
    BY <1>3, <1>5, <2>2, <2>3 DEF Given
  <2>4. CASE s = q
    BY <2>2, <2>4
  <2> QED
    BY <1>1, <1>5, <2>3, <2>4
<1> QED
  BY <1>4, <1>5 DEF Given

LEMMA GivenEnd ==
    ASSUME NEW kind, NEW given, NEW host \in Nat, NEW last \in Nat, NEW q \in Nat,
           NEW top \in Nat, last <= top,
           Given(kind, given, host, last), Apart(kind, host, q), kind[q] # "start"
    PROVE  Given(kind, given, q, top)
<1>1. \A r \in Nat : r <= q /\ kind[r] = "start" => r <= host
  BY DEF Apart
<1>2. \A r \in Nat : r <= host /\ kind[r] = "start" => given[r] \in SubIds /\ given[r] <= top
  BY DEF Given, SubIds
<1> QED
  BY <1>1, <1>2 DEF Given

LEMMA GivenMore ==
    ASSUME NEW kind, NEW given, NEW host \in Nat, NEW last \in Nat, NEW top \in Nat,
           last <= top, Given(kind, given, host, last)
    PROVE  Given(kind, given, host, top)
<1>1. \A r \in Nat : r <= host /\ kind[r] = "start" => given[r] \in SubIds /\ given[r] <= top
  BY DEF Given, SubIds
<1> QED
  BY <1>1 DEF Given

\* given2 differs from given at q only, which is after what the parts look at.
LEMMA RepliesGiven ==
    ASSUME NEW S, NEW kind, NEW prop, NEW given, NEW given2, NEW host \in Nat, NEW q \in Nat,
           Replies(S, kind, prop, given), host < q, \A r \in Nat : r # q => given2[r] = given[r],
           \A m \in S : m.command = "reply" => m.req \in Nat /\ m.req <= host
    PROVE  Replies(S, kind, prop, given2)
<1>1. \A m \in S : m.command = "reply" => given2[m.req] = given[m.req]
  OBVIOUS
<1> QED
  BY <1>1 DEF Replies

LEMMA AskedGiven ==
    ASSUME NEW S, NEW kind, NEW prop, NEW given, NEW given2, NEW client \in Nat, NEW n,
           NEW q \in Nat, client < q, \A r \in Nat : r # q => given2[r] = given[r],
           Asked(S, kind, prop, given, client, n)
    PROVE  Asked(S, kind, prop, given2, client, n)
<1>1. \A r \in Nat : r <= client => given2[r] = given[r]
  OBVIOUS
<1> QED
  BY <1>1 DEF Asked

LEMMA KeptGiven ==
    ASSUME NEW S \in SUBSET Subs, NEW kind, NEW prop, NEW given, NEW given2,
           NEW client \in Nat, NEW left, NEW n, NEW x,
           NEW q \in Nat, client < q, \A r \in Nat : r # q => given2[r] = given[r],
           Kept(S, kind, prop, given, client, left, n, x)
    PROVE  Kept(S, kind, prop, given2, client, left, n, x)
<1>1. \A e \in S : e.req \in Nat
  BY Numbers DEF Subs
<1>2. \A e \in S : e.req <= client => given2[e.req] = given[e.req]
  BY <1>1
<1> QED
  BY <1>2 DEF Kept

LEMMA KnownGiven ==
    ASSUME NEW S, NEW kind, NEW prop, NEW given, NEW given2,
           NEW client \in Nat, NEW left \in Nat, NEW x,
           NEW q \in Nat, client < q, \A r \in Nat : r # q => given2[r] = given[r],
           Known(S, kind, prop, given, client, left, x)
    PROVE  Known(S, kind, prop, given2, client, left, x)
<1>1. \A r \in Nat : r <= client => given2[r] = given[r]
  OBVIOUS
<1> QED
  BY <1>1 DEF Known

\* A start of y is served: the elements of T are those of S and e.
LEMMA ServingStart ==
    ASSUME NEW S, NEW e, NEW kind, NEW prop, NEW given, NEW given2, NEW gone \in Nat,
           NEW host \in Nat, NEW q \in Nat, NEW x, gone <= host,
           Apart(kind, host, q), \A r \in Nat : r # q => given2[r] = given[r],
           kind[q] = "start", prop[q] = e.prop, e.id = given2[q],
           Serving(S, kind, prop, given, gone, host, x)
    PROVE  Serving(S \cup {e}, kind, prop, given2, gone, q, x)
<1>1. host < q /\ \A r \in Nat : r <= q /\ IsStart(kind, prop, r, x) => r <= host \/ r = q
  BY DEF Apart, IsStart
<1>2. \A r \in Nat : r <= host => given2[r] = given[r] /\ r <= q
  BY <1>1
<1>3. ASSUME NEW f \in S \cup {e}, f.prop = x
      PROVE  \E r \in Nat : gone < r /\ r <= q /\ IsStart(kind, prop, r, x) /\ f.id = given2[r]
  <2>1. CASE f \in S
    <3>1. PICK r \in Nat : gone < r /\ r <= host /\ IsStart(kind, prop, r, x) /\ f.id = given[r]
      BY <1>3, <2>1 DEF Serving
    <3> QED
      BY <1>2, <3>1
  <2>2. CASE f = e
    <3>1. gone < q /\ q <= q /\ IsStart(kind, prop, q, x) /\ f.id = given2[q]
      BY <1>1, <1>3, <2>2 DEF IsStart
    <3> QED
      BY <3>1
  <2> QED
    BY <2>1, <2>2
<1>4. ASSUME NEW r \in Nat, gone < r, r <= q, IsStart(kind, prop, r, x)
      PROVE  \E f \in S \cup {e} : f.prop = x /\ f.id = given2[r]
  <2>1. CASE r <= host
    BY <1>2, <1>4, <2>1 DEF Serving
  <2>2. CASE r = q
    BY <1>4, <2>2 DEF IsStart
  <2> QED
    BY <1>1, <1>4, <2>1, <2>2
<1> QED
  BY <1>3, <1>4 DEF Serving

\* A request that is no start of x: the same entries for x.
LEMMA ServingOther ==
    ASSUME NEW S, NEW T, NEW kind, NEW prop, NEW given, NEW given2, NEW gone \in Nat,
           NEW host \in Nat, NEW q \in Nat, NEW x, host <= q,
           \A r \in Nat : r <= q /\ IsStart(kind, prop, r, x) => r <= host,
           \A r \in Nat : r <= host => given2[r] = given[r],
           \A e \in S : e.prop = x => e \in T, \A e \in T : e.prop = x => e \in S,
           Serving(S, kind, prop, given, gone, host, x)
    PROVE  Serving(T, kind, prop, given2, gone, q, x)
<1>1. \A r \in Nat : r <= host => r <= q
  OBVIOUS
<1>2. ASSUME NEW e \in T, e.prop = x
      PROVE  \E r \in Nat : gone < r /\ r <= q /\ IsStart(kind, prop, r, x) /\ e.id = given2[r]
  <2>1. PICK r \in Nat : gone < r /\ r <= host /\ IsStart(kind, prop, r, x) /\ e.id = given[r]
    BY <1>2 DEF Serving
  <2> QED
    BY <1>1, <2>1
<1>3. ASSUME NEW r \in Nat, gone < r, r <= q, IsStart(kind, prop, r, x)
      PROVE  \E e \in T : e.prop = x /\ e.id = given2[r]
  BY <1>3 DEF Serving
<1> QED
  BY <1>2, <1>3 DEF Serving

\* Ends under way, when a request that is not an end of x is taken.
LEMMA MatchedTaken ==
    ASSUME NEW kind, NEW prop, NEW match, NEW gone, NEW left, NEW host \in Nat, NEW n,
           NEW q \in Nat, NEW x, Apart(kind, host, q), ~IsEnd(kind, prop, q, x)
    PROVE  /\ Matched(kind, prop, match, gone, left, host, n, x) =>
                Matched(kind, prop, match, gone, left, q, n, x)
           /\ AllMatched(kind, prop, match, gone, left, host, n, x) =>
                AllMatched(kind, prop, match, gone, left, q, n, x)
<1>1. \A r \in Nat : q < r => host < r
  BY DEF Apart
<1>2. \A r \in Nat : host < r /\ IsEnd(kind, prop, r, x) => q < r
  <2>1. \A r \in Nat : host < r /\ IsEnd(kind, prop, r, x) => ~(r < q) /\ r # q
    BY DEF Apart, IsEnd
  <2> QED
    BY <2>1
<1>3. ASSUME Matched(kind, prop, match, gone, left, host, n, x)
      PROVE  Matched(kind, prop, match, gone, left, q, n, x)
  BY <1>1, <1>3 DEF Matched
<1>4. ASSUME AllMatched(kind, prop, match, gone, left, host, n, x)
      PROVE  AllMatched(kind, prop, match, gone, left, q, n, x)
  BY <1>2, <1>4 DEF AllMatched
<1> QED
  BY <1>3, <1>4

LEMMA ShownTaken ==
    ASSUME NEW S, NEW T, NEW kind, NEW prop, NEW gone \in Nat, NEW host \in Nat, NEW q \in Nat,
           NEW d, NEW x, host < q, gone <= host, ShownOnly(S, kind, prop, gone, host, d, x),
           [muid |-> d, prop |-> x] \in T =>
                [muid |-> d, prop |-> x] \in S \/ IsStart(kind, prop, q, x)
    PROVE  ShownOnly(T, kind, prop, gone, q, d, x)
<1>1. gone < q /\ q <= q /\ \A r \in Nat : r <= host => r <= q
  OBVIOUS
<1> QED
  BY <1>1 DEF ShownOnly

-----------------------------------------------------------------------------
\* The ids of a service's list.

Ascending(l) == \A i, j \in 1 .. Len(l) : i < j => l[i].id < l[j].id

LEMMA DropDistinct ==
    ASSUME NEW l \in Seq(Served), Ascending(l), NEW i \in 1 .. Len(l)
    PROVE  /\ Ascending(Drop(l, i))
           /\ Elems(Drop(l, i)) = {e \in Elems(l) : e.id # l[i].id}
<1> DEFINE n == Len(l)
           k == Drop(l, i)
<1>1. /\ n \in Nat /\ Len(k) = n - 1
      /\ \A j \in 1 .. n - 1 : k[j] = IF j < i THEN l[j] ELSE l[j + 1]
  BY DropIs
<1>2. \A j \in 1 .. n : l[j].id \in Nat
  <2>1. \A j \in 1 .. n : l[j] \in Served
    BY ElementOfSeq
  <2> QED
    BY <2>1, Numbers DEF Served
<1> HIDE DEF k, n
<1>3. i \in 1 .. n /\ i \in Nat
  BY <1>1 DEF n
<1>4. \A a, b \in 1 .. n : a < b => l[a].id < l[b].id
  BY DEF Ascending, n
<1>5. ASSUME NEW a \in 1 .. n - 1, NEW b \in 1 .. n - 1, a < b PROVE k[a].id < k[b].id
  <2>1. a \in 1 .. n /\ a + 1 \in 1 .. n /\ b \in 1 .. n /\ b + 1 \in 1 .. n /\ a < b + 1
        /\ a + 1 < b + 1
    BY <1>1, <1>5
  <2>2. (b < i => a < i)
    BY <1>3, <1>5
  <2> QED
    BY <1>1, <1>4, <1>5, <2>1, <2>2
<1>6. ASSUME NEW a \in 1 .. n - 1 PROVE k[a] \in Elems(l) /\ k[a].id # l[i].id
  <2>1. a \in 1 .. n /\ a + 1 \in 1 .. n
    BY <1>1
  <2>2. CASE a < i
    <3>1. k[a] = l[a] /\ l[a].id < l[i].id /\ l[a].id \in Nat /\ l[i].id \in Nat
      BY <1>1, <1>2, <1>3, <1>4, <2>1, <2>2
    <3> QED
      BY <2>1, <3>1 DEF Elems, n
  <2>3. CASE ~(a < i)
    <3>1. i < a + 1
      BY <1>3, <2>3
    <3>2. k[a] = l[a + 1] /\ l[i].id < l[a + 1].id /\ l[a + 1].id \in Nat /\ l[i].id \in Nat
      BY <1>1, <1>2, <1>3, <1>4, <2>1, <2>3, <3>1
    <3> QED
      BY <2>1, <3>2 DEF Elems, n
  <2> QED
    BY <2>2, <2>3
<1>7. ASSUME NEW e \in Elems(l), e.id # l[i].id PROVE e \in Elems(k)
  <2>1. PICK a \in 1 .. n : e = l[a]
    BY DEF Elems, n
  <2>2. a # i
    BY <1>7, <2>1
  <2>3. CASE a < i
    <3>1. a \in 1 .. n - 1
      BY <1>1, <1>3, <2>3
    <3>2. k[a] = e
      BY <1>1, <2>1, <2>3, <3>1
    <3> QED
      BY <1>1, <3>1, <3>2 DEF Elems
  <2>4. CASE i < a
    <3>1. a - 1 \in 1 .. n - 1 /\ ~(a - 1 < i) /\ a - 1 + 1 = a
      BY <1>1, <1>3, <2>4
    <3>2. k[a - 1] = e
      BY <1>1, <2>1, <3>1
    <3> QED
      BY <1>1, <3>1, <3>2 DEF Elems
  <2>5. a < i \/ i < a
    BY <1>1, <1>3, <2>1, <2>2
  <2> QED
    BY <2>3, <2>4, <2>5
<1>8. Ascending(k)
  BY <1>1, <1>5 DEF Ascending
<1>9. \A e \in Elems(k) : e \in Elems(l) /\ e.id # l[i].id
  <2>1. \A e \in Elems(k) : \E a \in 1 .. n - 1 : e = k[a]
    BY <1>1 DEF Elems
  <2> QED
    BY <1>6, <2>1
<1>10. Elems(k) = {e \in Elems(l) : e.id # l[i].id}
  BY <1>7, <1>9
<1> QED
  BY <1>8, <1>10 DEF k

LEMMA AppendAscending ==
    ASSUME NEW l \in Seq(Served), Ascending(l), NEW e \in Served,
           \A f \in Elems(l) : f.id < e.id
    PROVE  Ascending(Append(l, e))
<1> DEFINE k == Append(l, e)
           m == Len(l)
<1>1. /\ m \in Nat /\ Len(k) = m + 1
      /\ \A i \in 1 .. m : k[i] = l[i]
      /\ k[m + 1] = e
  BY AppendAt
<1> HIDE DEF k, m
<1>2. ASSUME NEW i \in 1 .. m + 1, NEW j \in 1 .. m + 1, i < j PROVE k[i].id < k[j].id
  <2>1. i \in 1 .. m /\ (j \in 1 .. m \/ j = m + 1)
    BY <1>1, <1>2
  <2>2. CASE j \in 1 .. m
    BY <1>1, <1>2, <2>1, <2>2 DEF Ascending, m
  <2>3. CASE j = m + 1
    <3>1. l[i] \in Elems(l)
      BY <2>1 DEF Elems, m
    <3> QED
      BY <1>1, <2>1, <2>3, <3>1
  <2> QED
    BY <2>1, <2>2, <2>3
<1>3. Ascending(k)
  BY <1>1, <1>2 DEF Ascending
<1> QED
  BY <1>3 DEF k

\* The host takes an end of x: it stops serving the first start that it
\* serves, and the client wants that one no more.
LEMMA EndTaken ==
    ASSUME NEW l \in Seq(Served), Ascending(l),
           NEW kind, NEW prop, NEW given \in [Nat -> Nat], NEW match \in [Nat -> Nat],
           NEW gone \in Nat, NEW left \in Nat, NEW host \in Nat, NEW last, NEW n \in Nat, NEW q \in Nat, NEW x,
           Given(kind, given, host, last),
           Serving(Elems(l), kind, prop, given, gone, host, x),
           Matched(kind, prop, match, gone, left, host, n, x),
           Apart(kind, host, q), q <= n, IsEnd(kind, prop, q, x)
    PROVE  /\ First(Of(l, x)) \in 1 .. Len(l)
           /\ \E c \in Nat :
                /\ gone < c /\ c <= host /\ c <= left
                /\ Serving(Elems(Drop(l, First(Of(l, x)))), kind, prop, given, c, q, x)
                /\ Matched(kind, prop, match, c, left, q, n, x)
                /\ AllMatched(kind, prop, match, gone, left, host, n, x) =>
                    AllMatched(kind, prop, match, c, left, q, n, x)
<1>2. host < q /\ \A r \in Nat : r < q /\ kind[r] # "none" => r <= host
  <2>1. host < q /\ \A r \in Nat : host < r /\ r < q => kind[r] = "none"
    BY DEF Apart
  <2>2. \A r \in Nat : r < q /\ kind[r] # "none" => ~(host < r)
    BY <2>1
  <2> QED
    BY <2>1, <2>2
<1> DEFINE i == First(Of(l, x))
           v == match[q]
           new == Drop(l, i)
<1>1. /\ i \in 0 .. Len(l) /\ Len(l) \in Nat
      /\ i # 0 => i \in 1 .. Len(l) /\ l[i].prop = x
      /\ \A j \in 1 .. Len(l) : l[j].prop = x => i # 0 /\ i <= j
  BY FirstOfIs
<1>3. /\ v \in Nat /\ gone < v /\ v <= left /\ v < q /\ IsStart(kind, prop, v, x)
  BY <1>2 DEF Matched
<1> HIDE DEF i, v, new
<1>4. v <= host
  BY <1>2, <1>3 DEF IsStart
<1>5. ASSUME NEW r \in Nat, gone < r, r <= host, IsStart(kind, prop, r, x)
      PROVE  \E j \in 1 .. Len(l) : l[j].prop = x /\ l[j].id = given[r]
  <2>1. \E e \in Elems(l) : e.prop = x /\ e.id = given[r]
    BY <1>5 DEF Serving
  <2> QED
    BY <2>1 DEF Elems
<1>6. i \in 1 .. Len(l) /\ l[i].prop = x
  BY <1>1, <1>3, <1>4, <1>5
<1>7. PICK c \in Nat : gone < c /\ c <= host /\ IsStart(kind, prop, c, x) /\ l[i].id = given[c]
  <2>1. l[i] \in Elems(l)
    BY <1>6 DEF Elems
  <2> QED
    BY <1>6, <2>1 DEF Serving
<1>8. \A r \in Nat : r <= host /\ kind[r] = "start" => given[r] \in Nat
  BY Numbers DEF Given
<1>9. \A r, s \in Nat :
        r < s /\ s <= host /\ kind[r] = "start" /\ kind[s] = "start" => given[r] < given[s]
  BY DEF Given
<1>10. \A j \in 1 .. Len(l) : l[j].id \in Nat
  <2>1. \A j \in 1 .. Len(l) : l[j] \in Served
    BY ElementOfSeq
  <2> QED
    BY <2>1, Numbers DEF Served
<1>11. ASSUME NEW r \in Nat, gone < r, r <= host, IsStart(kind, prop, r, x) PROVE c <= r
  <2>1. PICK j \in 1 .. Len(l) : l[j].prop = x /\ l[j].id = given[r]
    BY <1>5, <1>11
  <2>2. i <= j
    BY <1>1, <2>1
  <2>3. l[i].id <= l[j].id
    <3>1. i < j => l[i].id < l[j].id
      BY <1>6 DEF Ascending
    <3>2. i = j \/ i < j
      BY <1>1, <1>6, <2>2
    <3> DEFINE a == l[i].id
               b == l[j].id
    <3>3. a \in Nat /\ b \in Nat
      BY <1>6, <1>10
    <3>4. a = b \/ a < b
      BY <3>1, <3>2
    <3> HIDE DEF a, b
    <3>5. a <= b
      BY <3>3, <3>4
    <3> QED
      BY <3>5 DEF a, b
  <2>4. given[c] <= given[r] /\ given[c] \in Nat /\ given[r] \in Nat
    BY <1>7, <1>8, <1>11, <2>1, <2>3 DEF IsStart
  <2>5. ~(given[r] < given[c])
    BY <2>4
  <2>6. ~(r < c)
    BY <1>7, <1>9, <1>11, <2>5 DEF IsStart
  <2> QED
    BY <2>6
<1>12. c <= v /\ c <= left
  BY <1>3, <1>4, <1>11
<1>13. Elems(new) = {e \in Elems(l) : e.id # l[i].id}
  BY <1>6, DropDistinct DEF new
<1>14. ASSUME NEW e \in Elems(new), e.prop = x
       PROVE  \E r \in Nat : c < r /\ r <= q /\ IsStart(kind, prop, r, x) /\ e.id = given[r]
  <2>1. e \in Elems(l) /\ e.id # given[c]
    BY <1>7, <1>13
  <2>2. PICK r \in Nat : gone < r /\ r <= host /\ IsStart(kind, prop, r, x) /\ e.id = given[r]
    BY <1>14, <2>1 DEF Serving
  <2>3. r # c /\ c <= r
    BY <1>11, <2>1, <2>2
  <2>4. c < r /\ r <= q
    BY <1>2, <2>2, <2>3
  <2> QED
    BY <2>2, <2>4
<1>15. ASSUME NEW r \in Nat, c < r, r <= q, IsStart(kind, prop, r, x)
       PROVE  \E e \in Elems(new) : e.prop = x /\ e.id = given[r]
  <2>1. r # q /\ kind[r] # "none"
    <3>1. kind[r] = "start" /\ kind[q] = "end"
      BY <1>15 DEF IsStart, IsEnd
    <3> QED
      BY <3>1
  <2>2. r <= host /\ gone < r
    <3>1. r < q /\ gone < r
      BY <1>7, <1>15, <2>1
    <3> QED
      BY <1>2, <2>1, <3>1
  <2>3. PICK e \in Elems(l) : e.prop = x /\ e.id = given[r]
    BY <1>15, <2>2 DEF Serving
  <2>4. given[c] < given[r] /\ given[c] \in Nat /\ given[r] \in Nat
    BY <1>7, <1>8, <1>9, <1>15, <2>2 DEF IsStart
  <2>5. e.id # l[i].id
    BY <1>7, <2>3, <2>4
  <2> QED
    BY <1>13, <2>3, <2>5
<1>16. Serving(Elems(new), kind, prop, given, c, q, x)
  BY <1>14, <1>15 DEF Serving
<1>17. \A r \in Nat : q < r => host < r
  BY <1>2
<1>18. Matched(kind, prop, match, c, left, q, n, x)
  <2>1. ASSUME NEW r \in Nat, q < r, r <= n, IsEnd(kind, prop, r, x)
        PROVE  /\ c < match[r] /\ match[r] <= left /\ match[r] < r
               /\ IsStart(kind, prop, match[r], x)
    <3>1. /\ match[r] <= left /\ match[r] < r /\ IsStart(kind, prop, match[r], x)
      BY <1>17, <2>1 DEF Matched
    <3>2. v < match[r] /\ match[r] \in Nat
      BY <1>2, <2>1 DEF Matched, v
    <3> QED
      BY <1>3, <1>12, <3>1, <3>2
  <2>2. \A r, s \in Nat :
            /\ q < r /\ r < s /\ s <= n
            /\ IsEnd(kind, prop, r, x) /\ IsEnd(kind, prop, s, x)
            => match[r] < match[s]
    BY <1>17 DEF Matched
  <2> QED
    BY <2>1, <2>2 DEF Matched
<1>19. ASSUME AllMatched(kind, prop, match, gone, left, host, n, x)
       PROVE  AllMatched(kind, prop, match, c, left, q, n, x)
  <2>1. \A r \in Nat : host < r /\ IsEnd(kind, prop, r, x) => r = q \/ q < r
    <3>1. \A r \in Nat : IsEnd(kind, prop, r, x) => kind[r] # "none"
      BY DEF IsEnd
    <3>2. \A r \in Nat : host < r /\ IsEnd(kind, prop, r, x) => ~(r < q)
      BY <1>2, <3>1
    <3> QED
      BY <3>2
  <2>2. v = c
    <3>1. PICK r \in Nat : host < r /\ r <= n /\ IsEnd(kind, prop, r, x) /\ match[r] = c
      BY <1>7, <1>12, <1>19 DEF AllMatched
    <3>2. CASE r = q
      BY <3>1, <3>2 DEF v
    <3>3. CASE q < r
      <4>1. v < c
        BY <1>2, <3>1, <3>3 DEF Matched, v
      <4> QED
        BY <1>3, <1>12, <4>1
    <3> QED
      BY <2>1, <3>1, <3>2, <3>3
  <2>3. ASSUME NEW s \in Nat, c < s, s <= left, IsStart(kind, prop, s, x)
        PROVE  \E r \in Nat : q < r /\ r <= n /\ IsEnd(kind, prop, r, x) /\ match[r] = s
    <3>1. gone < s
      BY <1>7, <2>3
    <3>2. PICK r \in Nat : host < r /\ r <= n /\ IsEnd(kind, prop, r, x) /\ match[r] = s
      BY <1>19, <2>3, <3>1 DEF AllMatched
    <3>3. r # q
      BY <2>2, <2>3, <3>2 DEF v
    <3> QED
      BY <2>1, <3>2, <3>3
  <2> QED
    BY <2>3 DEF AllMatched
<1> QED
  BY <1>6, <1>7, <1>12, <1>16, <1>18, <1>19 DEF i, new

-----------------------------------------------------------------------------
\* The client's list with an entry less.

LEMMA DropElems ==
    ASSUME NEW S, NEW l \in Seq(S), NEW i \in 1 .. Len(l)
    PROVE  /\ \A j \in 1 .. Len(l) : j # i => l[j] \in Elems(Drop(l, i))
           /\ \A e \in Elems(Drop(l, i)) : \E j \in 1 .. Len(l) : j # i /\ e = l[j]
<1> DEFINE n == Len(l)
           k == Drop(l, i)
<1>1. /\ n \in Nat /\ Len(k) = n - 1
      /\ \A j \in 1 .. n - 1 : k[j] = IF j < i THEN l[j] ELSE l[j + 1]
  BY DropIs
<1> HIDE DEF k, n
<1>2. i \in 1 .. n /\ i \in Nat
  BY <1>1 DEF n
<1>3. ASSUME NEW a \in 1 .. n, a # i PROVE l[a] \in Elems(k)
  <2>1. CASE a < i
    <3>1. a \in 1 .. n - 1
      BY <1>1, <1>2, <2>1
    <3>2. k[a] = l[a]
      BY <1>1, <2>1, <3>1
    <3> QED
      BY <1>1, <3>1, <3>2 DEF Elems
  <2>2. CASE i < a
    <3>1. a - 1 \in 1 .. n - 1 /\ ~(a - 1 < i) /\ a - 1 + 1 = a
      BY <1>1, <1>2, <2>2
    <3>2. k[a - 1] = l[a]
      BY <1>1, <3>1
    <3> QED
      BY <1>1, <3>1, <3>2 DEF Elems
  <2>3. a < i \/ i < a
    BY <1>1, <1>2, <1>3
  <2> QED
    BY <2>1, <2>2, <2>3
<1>4. ASSUME NEW e \in Elems(k) PROVE \E j \in 1 .. n : j # i /\ e = l[j]
  <2>1. PICK a \in 1 .. n - 1 : e = k[a]
    BY <1>1 DEF Elems
  <2>2. CASE a < i
    <3>1. a \in 1 .. n /\ a # i /\ e = l[a]
      BY <1>1, <1>2, <2>1, <2>2
    <3> QED
      BY <3>1
  <2>3. CASE ~(a < i)
    <3>1. a + 1 \in 1 .. n /\ a + 1 # i
      BY <1>1, <1>2, <2>3
    <3>2. e = l[a + 1]
      BY <1>1, <2>1, <2>3
    <3> QED
      BY <3>1, <3>2
  <2> QED
    BY <2>2, <2>3
<1> QED
  BY <1>3, <1>4 DEF k, n

LEMMA InOrderDrop ==
    ASSUME NEW l \in Seq(Subs), NEW i \in 1 .. Len(l), InOrder(l)
    PROVE  InOrder(Drop(l, i))
<1> DEFINE n == Len(l)
           k == Drop(l, i)
           At(j) == IF j < i THEN j ELSE j + 1
<1>1. /\ n \in Nat /\ Len(k) = n - 1
      /\ \A j \in 1 .. n - 1 : k[j] = IF j < i THEN l[j] ELSE l[j + 1]
  BY DropIs
<1> HIDE DEF k, n
<1>2. i \in 1 .. n /\ i \in Nat
  BY <1>1 DEF n
<1>3. \A j \in 1 .. n - 1 : At(j) \in 1 .. n /\ k[j] = l[At(j)]
  BY <1>1, <1>2
<1>4. \A a, b \in 1 .. n - 1 : a < b => At(a) < At(b)
  BY <1>1, <1>2
<1> HIDE DEF At
<1>5. ASSUME NEW a \in 1 .. n - 1, NEW b \in 1 .. n - 1, a < b, k[a].prop = k[b].prop
      PROVE  /\ k[b].state # "Unsubscribing"
             /\ k[a].state # "Unsubscribing" => k[a].req < k[b].req
  <2>1. At(a) \in 1 .. n /\ At(b) \in 1 .. n /\ At(a) < At(b) /\ k[a] = l[At(a)] /\ k[b] = l[At(b)]
    BY <1>3, <1>4, <1>5
  <2> QED
    BY <1>5, <2>1 DEF InOrder, n
<1>6. InOrder(k)
  BY <1>1, <1>5 DEF InOrder
<1> QED
  BY <1>6 DEF k

LEMMA SubsElems ==
    ASSUME NEW l \in Seq(Subs)
    PROVE  /\ Elems(l) \in SUBSET Subs /\ Len(l) \in Nat
           /\ \A j \in 1 .. Len(l) : l[j] \in Elems(l)
           /\ \A e \in Elems(l) : e.req \in Nat /\ \E j \in 1 .. Len(l) : e = l[j]
<1>1. \A j \in 1 .. Len(l) : l[j] \in Subs
  BY ElementOfSeq
<1>2. Elems(l) \in SUBSET Subs
  BY <1>1 DEF Elems
<1>3. \A e \in Subs : e.req \in Nat
  BY Numbers DEF Subs
<1> QED
  BY <1>2, <1>3, LenProperties DEF Elems

\* No two entries of a client carry the same request id.
LEMMA UniqueReq ==
    ASSUME NEW l \in Seq(Subs), NEW kind, NEW prop, NEW given, NEW client, NEW n,
           Asked(Elems(l), kind, prop, given, client, n), InOrder(l),
           NEW i \in 1 .. Len(l), NEW j \in 1 .. Len(l), l[i].req = l[j].req
    PROVE  i = j
<1>1. /\ Len(l) \in Nat /\ l[i] \in Elems(l) /\ l[j] \in Elems(l)
      /\ l[i].req \in Nat /\ l[j].req \in Nat
  BY SubsElems
<1>2. l[i].prop = l[j].prop /\ (l[i].state = "Unsubscribing" <=> l[j].state = "Unsubscribing")
  <2>1. l[i].prop = l[j].prop
    BY <1>1 DEF Asked
  <2>2. /\ l[i].state = "Unsubscribing" => kind[l[i].req] = "end"
        /\ l[j].state = "Unsubscribing" => kind[l[i].req] = "end"
        /\ l[i].state # "Unsubscribing" => kind[l[i].req] = "start"
        /\ l[j].state # "Unsubscribing" => kind[l[i].req] = "start"
    BY <1>1 DEF Asked
  <2> QED
    BY <2>1, <2>2
<1>3. ~(i < j)
  <2> SUFFICES ASSUME i < j PROVE FALSE
    OBVIOUS
  <2>1. l[i].req < l[j].req
    BY <1>2 DEF InOrder
  <2> QED
    BY <1>1, <2>1
<1>4. ~(j < i)
  <2> SUFFICES ASSUME j < i PROVE FALSE
    OBVIOUS
  <2>1. l[j].req < l[i].req
    BY <1>2 DEF InOrder
  <2> QED
    BY <1>1, <2>1
<1> QED
  BY <1>1, <1>3, <1>4

\* A reply is about the entry with its request id: no id that the client
\* already has is given again.
LEMMA AnsweredReq ==
    ASSUME NEW l \in Seq(Subs), NEW m \in Messages, NEW kind, NEW prop,
           NEW given \in [Nat -> Nat], NEW client \in Nat, NEW host \in Nat, NEW last, NEW n,
           Asked(Elems(l), kind, prop, given, client, n), Given(kind, given, host, last),
           client < m.req, m.req <= host,
           m.id # NoId => kind[m.req] = "start" /\ m.id = given[m.req],
           NEW j \in 1 .. Len(l)
    PROVE  Answered(l[j], m) <=> l[j].req = m.req
<1>1. l[j] \in Elems(l) /\ m.req \in Nat
  BY SubsElems, Fields
<1>2. ASSUME l[j].id # NoId, l[j].id = m.id PROVE FALSE
  <2>1. PICK r \in Nat : r <= client /\ kind[r] = "start" /\ l[j].id = given[r]
    BY <1>1, <1>2 DEF Asked
  <2> DEFINE q == m.req
             id == m.id
  <2>7. id # NoId /\ id = l[j].id /\ q \in Nat /\ client < q
    BY <1>1, <1>2
  <2>8. id # NoId => kind[q] = "start" /\ id = given[q]
    OBVIOUS
  <2> HIDE DEF q, id
  <2>2. kind[q] = "start" /\ id = given[q]
    BY <2>7, <2>8
  <2>3. r < q
    BY <2>1, <2>7
  <2>4. given[r] < given[q]
    BY <1>1, <2>1, <2>2, <2>3, <2>7 DEF Given, q
  <2>5. given[r] = given[q]
    BY <2>1, <2>2, <2>7
  <2>6. given[q] \in Nat
    BY <2>7
  <2> DEFINE g == given[q]
  <2>9. g \in Nat /\ g < g
    BY <2>4, <2>5, <2>6
  <2> HIDE DEF g
  <2> QED
    BY <2>9
<1> QED
  BY <1>2 DEF Answered

-----------------------------------------------------------------------------
\* The client takes the reply to q.  The entries that are not about q:

LEMMA AskedTaken ==
    ASSUME NEW S \in SUBSET Subs, NEW T, NEW kind, NEW prop, NEW given,
           NEW client \in Nat, NEW q \in Nat, NEW n \in Nat, q <= n,
           Asked(S, kind, prop, given, client, n), Apart(kind, client, q),
           \A e \in T : \/ e \in S /\ (e.state = "Unsubscribing" => e.req # q)
                        \/ /\ e.req = q /\ prop[q] = e.prop /\ kind[q] = "start"
                           /\ e.state # "Unsubscribing" /\ e.id = given[q]
    PROVE  Asked(T, kind, prop, given, q, n)
<1>1. client < q /\ \A r \in Nat : client < r /\ kind[r] # "none" /\ r # q => q < r
  <2>1. client < q /\ \A r \in Nat : client < r /\ r < q => kind[r] = "none"
    BY DEF Apart
  <2>2. \A r \in Nat : client < r /\ kind[r] # "none" => ~(r < q)
    BY <2>1
  <2> QED
    BY <2>1, <2>2
<1>2. \A r \in Nat : r <= client => r <= q
  BY <1>1
<1>3. ASSUME NEW e \in T
      PROVE  /\ e.req <= n /\ prop[e.req] = e.prop
             /\ e.state = "Unsubscribing" => kind[e.req] = "end" /\ q < e.req
             /\ e.state # "Unsubscribing" => kind[e.req] = "start"
             /\ e.id # NoId => \E r \in Nat : r <= q /\ kind[r] = "start" /\ e.id = given[r]
  <2>1. CASE e \in S /\ (e.state = "Unsubscribing" => e.req # q)
    <3>1. e.req \in Nat
      BY <2>1, Numbers DEF Subs
    <3>2. /\ e.req <= n /\ prop[e.req] = e.prop
          /\ e.state = "Unsubscribing" => kind[e.req] = "end" /\ client < e.req
          /\ e.state # "Unsubscribing" => kind[e.req] = "start"
      BY <2>1 DEF Asked
    <3>3. e.id # NoId => \E r \in Nat : r <= q /\ kind[r] = "start" /\ e.id = given[r]
      <4>1. e.id # NoId => \E r \in Nat : r <= client /\ kind[r] = "start" /\ e.id = given[r]
        BY <2>1 DEF Asked
      <4> QED
        BY <1>2, <4>1
    <3>4. e.state = "Unsubscribing" => q < e.req
      BY <1>1, <2>1, <3>1, <3>2
    <3> QED
      BY <3>2, <3>3, <3>4
  <2>2. CASE /\ e.req = q /\ prop[q] = e.prop /\ kind[q] = "start"
             /\ e.state # "Unsubscribing" /\ e.id = given[q]
    <3>1. q <= q
      OBVIOUS
    <3> QED
      BY <2>2, <3>1
  <2> QED
    BY <1>3, <2>1, <2>2
<1> QED
  BY <1>3 DEF Asked

\* T is S, where an entry of x with request q has become Subscribed.
LEMMA KeptTaken ==
    ASSUME NEW S \in SUBSET Subs, NEW T, NEW kind, NEW prop, NEW given,
           NEW client \in Nat, NEW left \in Nat, NEW q \in Nat, NEW n \in Nat, NEW x,
           Asked(S, kind, prop, given, client, n), Apart(kind, client, q),
           Kept(S, kind, prop, given, client, left, n, x),
           \A e \in T : e.prop = x /\ e.state # "Unsubscribing" =>
                \/ e \in S /\ e.req # q
                \/ /\ e.req = q /\ e.state = "Subscribed" /\ e.id = given[q]
                   /\ \E f \in S : f.prop = x /\ f.state # "Unsubscribing" /\ f.req = q,
           \A e \in S : e.prop = x /\ e.state # "Unsubscribing" =>
                \E f \in T : f.prop = x /\ f.state # "Unsubscribing" /\ f.req = e.req
    PROVE  Kept(T, kind, prop, given, q, left, n, x)
<1>1. client < q /\ \A r \in Nat : client < r /\ kind[r] # "none" /\ r # q => q < r
  <2>1. client < q /\ \A r \in Nat : client < r /\ r < q => kind[r] = "none"
    BY DEF Apart
  <2>2. \A r \in Nat : client < r /\ kind[r] # "none" => ~(r < q)
    BY <2>1
  <2> QED
    BY <2>1, <2>2
<1>2. ASSUME NEW e \in T, e.prop = x, e.state # "Unsubscribing"
      PROVE  /\ left < e.req
             /\ e.req <= q => e.state = "Subscribed" /\ e.id = given[e.req]
             /\ q < e.req => e.state = "Subscribing" /\ e.id = NoId
  <2>1. CASE e \in S /\ e.req # q
    <3>1. e.req \in Nat
      BY <2>1, Numbers DEF Subs
    <3>2. /\ left < e.req
          /\ e.req <= client => e.state = "Subscribed" /\ e.id = given[e.req]
          /\ client < e.req => e.state = "Subscribing" /\ e.id = NoId
      BY <1>2, <2>1 DEF Kept
    <3>3. kind[e.req] # "none"
      <4>1. kind[e.req] = "start"
        BY <1>2, <2>1 DEF Asked
      <4> QED
        BY <4>1
    <3>4. client < e.req => q < e.req
      BY <1>1, <2>1, <3>1, <3>3
    <3>5. e.req <= q => e.req <= client
      BY <1>1, <3>1, <3>4
    <3>6. q < e.req => client < e.req
      BY <1>1, <3>1
    <3> QED
      BY <3>2, <3>5, <3>6
  <2>2. CASE /\ e.req = q /\ e.state = "Subscribed" /\ e.id = given[q]
             /\ \E f \in S : f.prop = x /\ f.state # "Unsubscribing" /\ f.req = q
    <3>1. left < q
      BY <2>2 DEF Kept
    <3>2. ~(q < q)
      OBVIOUS
    <3> QED
      BY <2>2, <3>1, <3>2
  <2> QED
    BY <1>2, <2>1, <2>2
<1>3. ASSUME NEW r \in Nat, left < r, r <= n, IsStart(kind, prop, r, x)
      PROVE  \E e \in T : e.prop = x /\ e.state # "Unsubscribing" /\ e.req = r
  <2>1. PICK e \in S : e.prop = x /\ e.state # "Unsubscribing" /\ e.req = r
    BY <1>3 DEF Kept
  <2> QED
    BY <2>1
<1> QED
  BY <1>2, <1>3 DEF Kept

\* The rules, when the reply is not about a start of x that is wanted.
LEMMA KnownOther ==
    ASSUME NEW S, NEW T, NEW kind, NEW prop, NEW given, NEW client \in Nat, NEW left \in Nat,
           NEW q \in Nat, NEW x, Apart(kind, client, q),
           Known(S, kind, prop, given, client, left, x),
           IsStart(kind, prop, q, x) => q <= left,
           \A e \in S : e.prop = x => e \in T
    PROVE  Known(T, kind, prop, given, q, left, x)
<1>1. client < q /\ \A r \in Nat : client < r /\ r < q => kind[r] = "none"
  BY DEF Apart
<1>2. ASSUME NEW r \in Nat, left < r, r <= q, IsStart(kind, prop, r, x),
             \A s \in Nat : r < s /\ s <= q => ~IsStart(kind, prop, s, x)
      PROVE  [prop |-> x, id |-> given[r]] \in T
  <2>1. r # q
    BY <1>2
  <2>2. kind[r] # "none"
    BY <1>2 DEF IsStart
  <2>3. ~(client < r)
    BY <1>1, <1>2, <2>1, <2>2
  <2>4. r <= client
    BY <2>3
  <2>5. \A s \in Nat : r < s /\ s <= client => ~IsStart(kind, prop, s, x)
    BY <1>1, <1>2
  <2>6. [prop |-> x, id |-> given[r]] \in S
    BY <1>2, <2>4, <2>5 DEF Known
  <2> QED
    BY <2>6
<1> QED
  BY <1>2 DEF Known

LEMMA KnownNewest ==
    ASSUME NEW T, NEW kind, NEW prop, NEW given, NEW left \in Nat, NEW q \in Nat, NEW x,
           IsStart(kind, prop, q, x), [prop |-> x, id |-> given[q]] \in T
    PROVE  Known(T, kind, prop, given, q, left, x)
<1>1. q <= q /\ \A r \in Nat : r <= q => r = q \/ r < q
  OBVIOUS
<1> QED
  BY <1>1 DEF Known

-----------------------------------------------------------------------------
(* The parts of the history, by the state they explain.                    *)

LinesGood(kind, prop, given, host, client, n, last, out, in) ==
    /\ Silent(kind, n)
    /\ Numbered(out, Ask, kind, host, n) /\ Requests(Elems(out), kind, prop)
    /\ Numbered(in, {"reply"}, kind, client, host) /\ Replies(Elems(in), kind, prop, given)
    /\ Given(kind, given, host, last)
HostGood(kind, prop, given, gone, host, hosts, service, facade, d, x) ==
    /\ Serving(Elems(service), kind, prop, given, gone, host, x)
    /\ hosts = {} => ShownOnly(Elems(facade), kind, prop, gone, host, d, x)
ClientGood(kind, prop, given, client, left, n, subs, rules, x) ==
    /\ Asked(Elems(subs), kind, prop, given, client, n) /\ InOrder(subs)
    /\ Kept(Elems(subs), kind, prop, given, client, left, n, x)
    /\ Known(Elems(rules), kind, prop, given, client, left, x)
EndsGood(kind, prop, match, gone, left, host, n, hosts, x) ==
    /\ Matched(kind, prop, match, gone, left, host, n, x)
    /\ hosts = {} => AllMatched(kind, prop, match, gone, left, host, n, x)

LEMMA LinesCount ==
    ASSUME NEW kind, NEW prop, NEW given, NEW host \in Nat, NEW client, NEW n \in Nat,
           NEW top \in Nat, NEW last \in Nat, NEW last2 \in Nat, NEW out \in Seq(Messages),
           NEW in, n <= top, last <= last2,
           LinesGood(kind, prop, given, host, client, n, last, out, in)
    PROVE  LinesGood(kind, prop, given, host, client, top, last2, out, in)
<1>1. \A r \in Nat : n < r => kind[r] = "none"
  BY DEF LinesGood, Silent
<1>2. Numbered(out, Ask, kind, host, top)
  BY <1>1, NumberedFurther DEF LinesGood
<1>3. Silent(kind, top)
  BY <1>1 DEF Silent
<1>4. Given(kind, given, host, last2)
  BY GivenMore DEF LinesGood
<1> QED
  BY <1>2, <1>3, <1>4 DEF LinesGood

LEMMA LinesOut ==
    ASSUME NEW kind, NEW prop, NEW given, NEW host \in Nat, NEW client, NEW n \in Nat,
           NEW last, NEW out \in Seq(Messages), NEW in, NEW b \in Seq(Messages),
           \A m \in Elems(b) : m.command \notin Ask,
           LinesGood(kind, prop, given, host, client, n, last, out, in)
    PROVE  LinesGood(kind, prop, given, host, client, n, last, out \o b, in)
<1>1. Numbered(out \o b, Ask, kind, host, n)
  BY NumberedMore DEF LinesGood
<1>2. Elems(out \o b) = Elems(out) \cup Elems(b)
  BY ElemsConcat
<1>3. Requests(Elems(out \o b), kind, prop)
  BY <1>2 DEF LinesGood, Requests
<1> QED
  BY <1>1, <1>3 DEF LinesGood

LEMMA LinesIn ==
    ASSUME NEW kind, NEW prop, NEW given, NEW host \in Nat, NEW client \in Nat, NEW n,
           NEW last, NEW out, NEW in \in Seq(Messages), NEW b \in Seq(Messages),
           \A m \in Elems(b) : m.command # "reply",
           LinesGood(kind, prop, given, host, client, n, last, out, in)
    PROVE  LinesGood(kind, prop, given, host, client, n, last, out, in \o b)
<1>1. \A m \in Elems(b) : m.command \notin {"reply"}
  OBVIOUS
<1>2. Numbered(in \o b, {"reply"}, kind, client, host)
  BY <1>1, NumberedMore DEF LinesGood
<1>3. Elems(in \o b) = Elems(in) \cup Elems(b)
  BY ElemsConcat
<1>4. Replies(Elems(in \o b), kind, prop, given)
  BY <1>3 DEF LinesGood, Replies
<1> QED
  BY <1>2, <1>4 DEF LinesGood

LEMMA LinesOutTail ==
    ASSUME NEW kind, NEW prop, NEW given, NEW host \in Nat, NEW client, NEW n \in Nat,
           NEW last, NEW out \in Seq(Messages), NEW in, out # <<>>, Head(out).command \notin Ask,
           LinesGood(kind, prop, given, host, client, n, last, out, in)
    PROVE  LinesGood(kind, prop, given, host, client, n, last, Tail(out), in)
<1>1. Numbered(Tail(out), Ask, kind, host, n)
  BY NumberedTail DEF LinesGood
<1>2. Requests(Elems(Tail(out)), kind, prop)
  <2>1. Elems(Tail(out)) \subseteq Elems(out)
    BY ElemsTail
  <2> QED
    BY <2>1 DEF LinesGood, Requests
<1> QED
  BY <1>1, <1>2 DEF LinesGood

LEMMA LinesInTail ==
    ASSUME NEW kind, NEW prop, NEW given, NEW host \in Nat, NEW client \in Nat, NEW n,
           NEW last, NEW out, NEW in \in Seq(Messages), in # <<>>, Head(in).command # "reply",
           LinesGood(kind, prop, given, host, client, n, last, out, in)
    PROVE  LinesGood(kind, prop, given, host, client, n, last, out, Tail(in))
<1>1. Numbered(Tail(in), {"reply"}, kind, client, host)
  <2>1. Head(in).command \notin {"reply"}
    OBVIOUS
  <2> QED
    BY <2>1, NumberedTail DEF LinesGood
<1>2. Replies(Elems(Tail(in)), kind, prop, given)
  <2>1. Elems(Tail(in)) \subseteq Elems(in)
    BY ElemsTail
  <2> QED
    BY <2>1 DEF LinesGood, Replies
<1> QED
  BY <1>1, <1>2 DEF LinesGood

\* A request more.
LEMMA LinesAsk ==
    ASSUME NEW kind, NEW prop, NEW given, NEW kind2, NEW prop2, NEW host \in Nat,
           NEW client \in Nat, NEW n \in Nat, NEW last, NEW out \in Seq(Messages),
           NEW in \in Seq(Messages), NEW m \in Messages, host <= n,
           LinesGood(kind, prop, given, host, client, n, last, out, in),
           m.command \in Ask, m.req = n + 1, Same(kind, prop, kind2, prop2, n),
           kind2[n + 1] = m.command, prop2[n + 1] = m.prop, Silent(kind2, n + 1)
    PROVE  LinesGood(kind2, prop2, given, host, client, n + 1, last, Append(out, m), in)
<1>1. /\ Numbered(out, Ask, kind, host, n) /\ Requests(Elems(out), kind, prop)
      /\ Numbered(in, {"reply"}, kind, client, host) /\ Replies(Elems(in), kind, prop, given)
      /\ Given(kind, given, host, last)
  BY DEF LinesGood
<1>2. Numbered(Append(out, m), Ask, kind2, host, n + 1)
  <2>1. /\ n < m.req /\ \A r \in Nat : host < r /\ r <= n => kind2[r] = kind[r]
        /\ \A r \in Nat : n < r /\ r < m.req => kind2[r] = "none"
        /\ kind2[m.req] # "none"
    BY DEF Same, Ask
  <2>2. Numbered(Append(out, m), Ask, kind2, host, m.req)
    BY <1>1, <2>1, NumberedNext
  <2> QED
    BY <2>2
<1>3. Requests(Elems(Append(out, m)), kind2, prop2)
  <2>1. \A k \in Elems(out) : k.command \in Ask => k.req \in Nat /\ k.req <= n
    BY <1>1, NumberedElems
  <2>2. Requests(Elems(out), kind2, prop2)
    BY <1>1, <2>1, RequestsSame
  <2>3. Elems(Append(out, m)) = Elems(out) \cup {m}
    BY ElemsAppend
  <2> QED
    BY <2>2, <2>3 DEF Requests
<1>4. Numbered(in, {"reply"}, kind2, client, host)
  <2>1. \A r \in Nat : client < r /\ r <= host => kind2[r] = kind[r]
    BY DEF Same
  <2> QED
    BY <1>1, <2>1, NumberedSame
<1>5. Replies(Elems(in), kind2, prop2, given)
  <2>1. \A k \in Elems(in) : k.command = "reply" => k.req \in Nat /\ k.req <= n
    <3>1. \A k \in Elems(in) : k.command \in {"reply"} => k.req \in Nat /\ k.req <= host
      BY <1>1, NumberedElems
    <3> QED
      BY <3>1
  <2> QED
    BY <1>1, <2>1, RepliesSame
<1>6. Given(kind2, given, host, last)
  BY <1>1, GivenSame
<1> QED
  BY <1>2, <1>3, <1>4, <1>5, <1>6 DEF LinesGood

\* The host takes a request q and answers it.
LEMMA LinesTaken ==
    ASSUME NEW kind, NEW prop, NEW given \in [Nat -> Nat], NEW given2 \in [Nat -> Nat],
           NEW host \in Nat, NEW client \in Nat, NEW n \in Nat, NEW last \in Nat, NEW last2,
           NEW out \in Seq(Messages), NEW in \in Seq(Messages), NEW r \in Messages,
           out # <<>>, Head(out).command \in Ask, client <= host,
           LinesGood(kind, prop, given, host, client, n, last, out, in),
           \A s \in Nat : s # Head(out).req => given2[s] = given[s],
           r.command = "reply", r.req = Head(out).req, r.prop = Head(out).prop,
           Head(out).command = "end" => r.id = NoId,
           Head(out).command = "start" => r.id = given2[r.req],
           Given(kind, given2, Head(out).req, last2)
    PROVE  LinesGood(kind, prop, given2, Head(out).req, client, n, last2, Tail(out), Append(in, r))
<1> DEFINE m == Head(out)
           q == m.req
<1>1. /\ Numbered(out, Ask, kind, host, n) /\ Requests(Elems(out), kind, prop)
      /\ Numbered(in, {"reply"}, kind, client, host) /\ Replies(Elems(in), kind, prop, given)
      /\ Given(kind, given, host, last) /\ Silent(kind, n)
  BY DEF LinesGood
<1>2. /\ Numbered(Tail(out), Ask, kind, q, n)
      /\ host < q /\ q <= n /\ kind[q] # "none"
      /\ Apart(kind, host, q)
  BY <1>1, NumberedHead
<1>3. /\ Elems(Tail(out)) \subseteq Elems(out) /\ m \in Elems(out)
  BY ElemsTail
<1>4. kind[q] = m.command /\ prop[q] = m.prop
  BY <1>1, <1>3 DEF Requests
<1>5. q \in Nat
  <2>1. m \in Messages
    BY TailIs
  <2> QED
    BY <2>1, Fields
<1> HIDE DEF q, m
<1>6. Requests(Elems(Tail(out)), kind, prop)
  BY <1>1, <1>3 DEF Requests
<1>7. Numbered(Append(in, r), {"reply"}, kind, client, q)
  <2>1. /\ r.command \in {"reply"} /\ host < r.req /\ r.req = q
        /\ \A s \in Nat : client < s /\ s <= host => kind[s] = kind[s]
        /\ \A s \in Nat : host < s /\ s < r.req => kind[s] = "none"
        /\ kind[r.req] # "none"
    BY <1>2 DEF q, m, Apart
  <2>2. Numbered(Append(in, r), {"reply"}, kind, client, r.req)
    BY <1>1, <2>1, NumberedNext
  <2> QED
    BY <2>1, <2>2
<1>8. Replies(Elems(in), kind, prop, given2)
  <2>1. \A k \in Elems(in) : k.command = "reply" => k.req \in Nat /\ k.req <= host
    <3>1. \A k \in Elems(in) : k.command \in {"reply"} => k.req \in Nat /\ k.req <= host
      BY <1>1, NumberedElems
    <3> QED
      BY <3>1
  <2>2. \A s \in Nat : s # q => given2[s] = given[s]
    BY DEF q, m
  <2> QED
    BY <1>1, <1>2, <1>5, <2>1, <2>2, RepliesGiven
<1>9. /\ prop[r.req] = r.prop
      /\ r.id = NoId => kind[r.req] = "end"
      /\ r.id # NoId => kind[r.req] = "start" /\ r.id = given2[r.req]
  <2>1. r.req = q /\ r.prop = m.prop
    BY DEF q, m
  <2>2. m.command \in {"start", "end"}
    BY DEF Ask, m
  <2>3. CASE m.command = "start"
    <3>1. r.id = given2[q] /\ given2[q] \in Nat
      BY <1>5, <2>1, <2>3 DEF m
    <3>2. r.id # NoId
      BY <3>1, Numbers
    <3> QED
      BY <1>4, <2>1, <2>3, <3>1, <3>2
  <2>4. CASE m.command = "end"
    <3>1. r.id = NoId
      BY <2>4 DEF m
    <3> QED
      BY <1>4, <2>1, <2>4, <3>1
  <2> QED
    BY <2>2, <2>3, <2>4
<1>10. Replies(Elems(Append(in, r)), kind, prop, given2)
  <2>1. Elems(Append(in, r)) = Elems(in) \cup {r}
    BY ElemsAppend
  <2> QED
    BY <1>8, <1>9, <2>1 DEF Replies
<1>11. Given(kind, given2, q, last2)
  BY DEF q, m
<1>12. LinesGood(kind, prop, given2, q, client, n, last2, Tail(out), Append(in, r))
  BY <1>1, <1>2, <1>6, <1>7, <1>10, <1>11 DEF LinesGood
<1> QED
  BY <1>12 DEF q, m

\* The reply m answers the request q of the client.
Answers(kind, prop, given, host, client, n, last, out, in, q, m) ==
    /\ LinesGood(kind, prop, given, host, q, n, last, out, Tail(in))
    /\ q \in Nat /\ m \in Messages /\ q <= host /\ client < q /\ Apart(kind, client, q)
    /\ q = m.req /\ prop[q] = m.prop /\ Given(kind, given, host, last)
    /\ m.id = NoId => kind[q] = "end"
    /\ m.id # NoId => kind[q] = "start" /\ m.id = given[q]

\* The client takes a reply.
LEMMA LinesAnswered ==
    ASSUME NEW kind, NEW prop, NEW given, NEW host \in Nat, NEW client \in Nat, NEW n,
           NEW last, NEW out, NEW in \in Seq(Messages), in # <<>>, Head(in).command = "reply",
           LinesGood(kind, prop, given, host, client, n, last, out, in)
    PROVE  Answers(kind, prop, given, host, client, n, last, out, in, Head(in).req, Head(in))
<1> DEFINE m == Head(in)
           q == m.req
<1>1. Head(in).command \in {"reply"}
  OBVIOUS
<1>2. /\ Numbered(in, {"reply"}, kind, client, host) /\ Replies(Elems(in), kind, prop, given)
  BY DEF LinesGood
<1>3. /\ Numbered(Tail(in), {"reply"}, kind, q, host)
      /\ client < q /\ q <= host /\ Apart(kind, client, q)
  BY <1>1, <1>2, NumberedHead
<1>4. Elems(Tail(in)) \subseteq Elems(in) /\ m \in Elems(in)
  BY ElemsTail
<1>5. m \in Messages /\ q \in Nat
  <2>1. m \in Messages
    BY TailIs
  <2> QED
    BY <2>1, Fields
<1>6. /\ prop[q] = m.prop
      /\ m.id = NoId => kind[q] = "end"
      /\ m.id # NoId => kind[q] = "start" /\ m.id = given[q]
  BY <1>2, <1>4 DEF Replies
<1>7. Replies(Elems(Tail(in)), kind, prop, given)
  BY <1>2, <1>4 DEF Replies
<1>8. LinesGood(kind, prop, given, host, q, n, last, out, Tail(in))
  BY <1>3, <1>7 DEF LinesGood
<1>9. Given(kind, given, host, last)
  BY DEF LinesGood
<1> QED
  BY <1>3, <1>5, <1>6, <1>8, <1>9 DEF Answers

-----------------------------------------------------------------------------
(* A history that explains what d and p know about x.  n is the counter of *)
(* d, last the last subscribe id, out and in are the lines from and to d.  *)

Fits(kind, prop, given, match, host, client, gone, left,
     d, x, n, last, out, in, hosts, service, facade, subs, rules) ==
    /\ Sizes(host, client, gone, left, n)
    /\ LinesGood(kind, prop, given, host, client, n, last, out, in)
    /\ HostGood(kind, prop, given, gone, host, hosts, service, facade, d, x)
    /\ ClientGood(kind, prop, given, client, left, n, subs, rules, x)
    /\ EndsGood(kind, prop, match, gone, left, host, n, hosts, x)

History(d, x, n, last, out, in, hosts, service, facade, subs, rules) ==
    \E kind \in Kinds, prop \in [Nat -> Props], given \in [Nat -> Nat],
       match \in [Nat -> Nat], host \in Nat, client \in Nat, gone \in Nat, left \in Nat :
        Fits(kind, prop, given, match, host, client, gone, left,
             d, x, n, last, out, in, hosts, service, facade, subs, rules)

LEMMA HistoryFrom ==
    ASSUME NEW d, NEW x, NEW n, NEW last, NEW out, NEW in, NEW hosts, NEW service,
           NEW facade, NEW subs, NEW rules,
           NEW kind \in Kinds, NEW prop \in [Nat -> Props], NEW given \in [Nat -> Nat],
           NEW match \in [Nat -> Nat], NEW host \in Nat, NEW client \in Nat,
           NEW gone \in Nat, NEW left \in Nat,
           Fits(kind, prop, given, match, host, client, gone, left,
                d, x, n, last, out, in, hosts, service, facade, subs, rules)
    PROVE  History(d, x, n, last, out, in, hosts, service, facade, subs, rules)
BY Zenon DEF History

\* Nothing has happened.
LEMMA HistoryEmpty ==
    ASSUME NEW d, NEW x, NEW hosts, NEW y \in Props
    PROVE  History(d, x, 0, 0, <<>>, <<>>, hosts, <<>>, <<>>, <<>>, <<>>)
<1> DEFINE kind == [r \in Nat |-> "none"]
           prop == [r \in Nat |-> y]
           given == [r \in Nat |-> 0]
           none == <<>>
<1>1. kind \in Kinds /\ \A r \in Nat : kind[r] = "none"
  BY DEF Kinds
<1>2. prop \in [Nat -> Props] /\ given \in [Nat -> Nat]
  OBVIOUS
<1>3. Len(none) = 0 /\ Elems(none) = {}
  BY DEF Elems
<1> HIDE DEF kind, prop, given, none
<1>4. Sizes(0, 0, 0, 0, 0)
  BY DEF Sizes
<1>5. LinesGood(kind, prop, given, 0, 0, 0, 0, none, none)
  <2>1. Silent(kind, 0)
    BY <1>1 DEF Silent
  <2>2. Requests(Elems(none), kind, prop) /\ Replies(Elems(none), kind, prop, given)
    BY <1>3 DEF Requests, Replies
  <2>3. ASSUME NEW cs PROVE Numbered(none, cs, kind, 0, 0)
    BY <1>1, <1>3 DEF Numbered, Within, Covered, Rising
  <2>4. Given(kind, given, 0, 0)
    BY <1>1 DEF Given
  <2> QED
    BY <2>1, <2>2, <2>3, <2>4 DEF LinesGood
<1>6. HostGood(kind, prop, given, 0, 0, hosts, none, none, d, x)
  BY <1>1, <1>3 DEF HostGood, Serving, ShownOnly, IsStart
<1>7. ClientGood(kind, prop, given, 0, 0, 0, none, none, x)
  BY <1>1, <1>3 DEF ClientGood, Asked, InOrder, Kept, Known, IsStart
<1>8. EndsGood(kind, prop, given, 0, 0, 0, 0, hosts, x)
  BY <1>1 DEF EndsGood, Matched, AllMatched, IsStart, IsEnd
<1>9. Fits(kind, prop, given, given, 0, 0, 0, 0,
           d, x, 0, 0, none, none, hosts, none, none, none, none)
  BY <1>4, <1>5, <1>6, <1>7, <1>8 DEF Fits
<1> QED
  BY <1>1, <1>2, <1>9, HistoryFrom DEF none

LEMMA SizesFurther ==
    ASSUME NEW host \in Nat, NEW client \in Nat, NEW gone \in Nat, NEW left \in Nat,
           NEW n \in Nat, NEW top \in Nat, n <= top, Sizes(host, client, gone, left, n)
    PROVE  Sizes(host, client, gone, left, top)
BY DEF Sizes

LEMMA SizesAre ==
    ASSUME NEW host \in Nat, NEW client \in Nat, NEW gone \in Nat, NEW left \in Nat,
           NEW n \in Nat, Sizes(host, client, gone, left, n)
    PROVE  /\ host <= n /\ client <= n /\ left <= n /\ gone <= n
           /\ client <= host /\ gone <= host /\ gone <= left
           /\ n <= n + 1 /\ n + 1 \in Nat
BY DEF Sizes

\* Requests of d to others, ids given by other hosts.
LEMMA HistoryCount ==
    ASSUME NEW d, NEW x, NEW n \in Nat, NEW last \in Nat, NEW out \in Seq(Messages), NEW in,
           NEW hosts, NEW service, NEW facade, NEW subs \in Seq(Subs), NEW rules,
           History(d, x, n, last, out, in, hosts, service, facade, subs, rules),
           NEW top \in Nat, NEW last2 \in Nat, n <= top, last <= last2
    PROVE  History(d, x, top, last2, out, in, hosts, service, facade, subs, rules)
<1>1. PICK kind \in Kinds, prop \in [Nat -> Props], given \in [Nat -> Nat],
           match \in [Nat -> Nat], host \in Nat, client \in Nat, gone \in Nat, left \in Nat :
        Fits(kind, prop, given, match, host, client, gone, left,
             d, x, n, last, out, in, hosts, service, facade, subs, rules)
  BY DEF History
<1>2. /\ Sizes(host, client, gone, left, n)
      /\ LinesGood(kind, prop, given, host, client, n, last, out, in)
      /\ HostGood(kind, prop, given, gone, host, hosts, service, facade, d, x)
      /\ ClientGood(kind, prop, given, client, left, n, subs, rules, x)
      /\ EndsGood(kind, prop, match, gone, left, host, n, hosts, x)
  BY <1>1 DEF Fits
<1>3. Silent(kind, n)
  BY <1>2 DEF LinesGood
<1>4. Sizes(host, client, gone, left, top)
  BY <1>2, SizesFurther
<1>5. LinesGood(kind, prop, given, host, client, top, last2, out, in)
  BY <1>2, LinesCount
<1>6. ClientGood(kind, prop, given, client, left, top, subs, rules, x)
  <2>1. Elems(subs) \in SUBSET Subs
    BY SubsElems
  <2> QED
    BY <1>2, <1>3, <2>1, AskedFurther, KeptFurther DEF ClientGood
<1>7. EndsGood(kind, prop, match, gone, left, host, top, hosts, x)
  BY <1>2, <1>3, MatchedFurther DEF EndsGood
<1>8. Fits(kind, prop, given, match, host, client, gone, left,
           d, x, top, last2, out, in, hosts, service, facade, subs, rules)
  BY <1>2, <1>4, <1>5, <1>6, <1>7 DEF Fits
<1> QED
  BY <1>8, HistoryFrom

\* Messages of other kinds on the two lines.
LEMMA HistoryOut ==
    ASSUME NEW d, NEW x, NEW n \in Nat, NEW last, NEW out \in Seq(Messages), NEW in,
           NEW hosts, NEW service, NEW facade, NEW subs, NEW rules,
           History(d, x, n, last, out, in, hosts, service, facade, subs, rules),
           NEW b \in Seq(Messages), \A m \in Elems(b) : m.command \notin Ask
    PROVE  History(d, x, n, last, out \o b, in, hosts, service, facade, subs, rules)
<1>1. PICK kind \in Kinds, prop \in [Nat -> Props], given \in [Nat -> Nat],
           match \in [Nat -> Nat], host \in Nat, client \in Nat, gone \in Nat, left \in Nat :
        Fits(kind, prop, given, match, host, client, gone, left,
             d, x, n, last, out, in, hosts, service, facade, subs, rules)
  BY DEF History
<1>2. LinesGood(kind, prop, given, host, client, n, last, out, in)
  BY <1>1 DEF Fits
<1>3. LinesGood(kind, prop, given, host, client, n, last, out \o b, in)
  BY <1>2, LinesOut
<1>4. Fits(kind, prop, given, match, host, client, gone, left,
           d, x, n, last, out \o b, in, hosts, service, facade, subs, rules)
  BY <1>1, <1>3 DEF Fits
<1> QED
  BY <1>4, HistoryFrom

LEMMA HistoryIn ==
    ASSUME NEW d, NEW x, NEW n, NEW last, NEW out, NEW in \in Seq(Messages),
           NEW hosts, NEW service, NEW facade, NEW subs, NEW rules,
           History(d, x, n, last, out, in, hosts, service, facade, subs, rules),
           NEW b \in Seq(Messages), \A m \in Elems(b) : m.command # "reply"
    PROVE  History(d, x, n, last, out, in \o b, hosts, service, facade, subs, rules)
<1>1. PICK kind \in Kinds, prop \in [Nat -> Props], given \in [Nat -> Nat],
           match \in [Nat -> Nat], host \in Nat, client \in Nat, gone \in Nat, left \in Nat :
        Fits(kind, prop, given, match, host, client, gone, left,
             d, x, n, last, out, in, hosts, service, facade, subs, rules)
  BY DEF History
<1>2. LinesGood(kind, prop, given, host, client, n, last, out, in)
  BY <1>1 DEF Fits
<1>3. LinesGood(kind, prop, given, host, client, n, last, out, in \o b)
  BY <1>2, LinesIn
<1>4. Fits(kind, prop, given, match, host, client, gone, left,
           d, x, n, last, out, in \o b, hosts, service, facade, subs, rules)
  BY <1>1, <1>3 DEF Fits
<1> QED
  BY <1>4, HistoryFrom

LEMMA HistoryOutTail ==
    ASSUME NEW d, NEW x, NEW n \in Nat, NEW last, NEW out \in Seq(Messages), NEW in,
           NEW hosts, NEW service, NEW facade, NEW subs, NEW rules,
           History(d, x, n, last, out, in, hosts, service, facade, subs, rules),
           out # <<>>, Head(out).command \notin Ask
    PROVE  History(d, x, n, last, Tail(out), in, hosts, service, facade, subs, rules)
<1>1. PICK kind \in Kinds, prop \in [Nat -> Props], given \in [Nat -> Nat],
           match \in [Nat -> Nat], host \in Nat, client \in Nat, gone \in Nat, left \in Nat :
        Fits(kind, prop, given, match, host, client, gone, left,
             d, x, n, last, out, in, hosts, service, facade, subs, rules)
  BY DEF History
<1>2. LinesGood(kind, prop, given, host, client, n, last, out, in)
  BY <1>1 DEF Fits
<1>3. LinesGood(kind, prop, given, host, client, n, last, Tail(out), in)
  BY <1>2, LinesOutTail
<1>4. Fits(kind, prop, given, match, host, client, gone, left,
           d, x, n, last, Tail(out), in, hosts, service, facade, subs, rules)
  BY <1>1, <1>3 DEF Fits
<1> QED
  BY <1>4, HistoryFrom

LEMMA HistoryInTail ==
    ASSUME NEW d, NEW x, NEW n, NEW last, NEW out, NEW in \in Seq(Messages),
           NEW hosts, NEW service, NEW facade, NEW subs, NEW rules,
           History(d, x, n, last, out, in, hosts, service, facade, subs, rules),
           in # <<>>, Head(in).command # "reply"
    PROVE  History(d, x, n, last, out, Tail(in), hosts, service, facade, subs, rules)
<1>1. PICK kind \in Kinds, prop \in [Nat -> Props], given \in [Nat -> Nat],
           match \in [Nat -> Nat], host \in Nat, client \in Nat, gone \in Nat, left \in Nat :
        Fits(kind, prop, given, match, host, client, gone, left,
             d, x, n, last, out, in, hosts, service, facade, subs, rules)
  BY DEF History
<1>2. LinesGood(kind, prop, given, host, client, n, last, out, in)
  BY <1>1 DEF Fits
<1>3. LinesGood(kind, prop, given, host, client, n, last, out, Tail(in))
  BY <1>2, LinesInTail
<1>4. Fits(kind, prop, given, match, host, client, gone, left,
           d, x, n, last, out, Tail(in), hosts, service, facade, subs, rules)
  BY <1>1, <1>3 DEF Fits
<1> QED
  BY <1>4, HistoryFrom

\* What the host does about other clients and other properties.
LEMMA HistoryHost ==
    ASSUME NEW d, NEW x, NEW n, NEW last, NEW out, NEW in,
           NEW hosts, NEW service, NEW facade, NEW subs, NEW rules,
           History(d, x, n, last, out, in, hosts, service, facade, subs, rules),
           NEW service2, NEW facade2,
           \A e \in Elems(service) : e.prop = x => e \in Elems(service2),
           \A e \in Elems(service2) : e.prop = x => e \in Elems(service),
           [muid |-> d, prop |-> x] \in Elems(facade2) =>
                [muid |-> d, prop |-> x] \in Elems(facade)
    PROVE  History(d, x, n, last, out, in, hosts, service2, facade2, subs, rules)
<1>1. PICK kind \in Kinds, prop \in [Nat -> Props], given \in [Nat -> Nat],
           match \in [Nat -> Nat], host \in Nat, client \in Nat, gone \in Nat, left \in Nat :
        Fits(kind, prop, given, match, host, client, gone, left,
             d, x, n, last, out, in, hosts, service, facade, subs, rules)
  BY DEF History
<1>2. HostGood(kind, prop, given, gone, host, hosts, service, facade, d, x)
  BY <1>1 DEF Fits
<1>3. Serving(Elems(service2), kind, prop, given, gone, host, x)
  BY <1>2 DEF HostGood, Serving
<1>4. hosts = {} => ShownOnly(Elems(facade2), kind, prop, gone, host, d, x)
  BY <1>2 DEF HostGood, ShownOnly
<1>5. Fits(kind, prop, given, match, host, client, gone, left,
           d, x, n, last, out, in, hosts, service2, facade2, subs, rules)
  BY <1>1, <1>3, <1>4 DEF Fits, HostGood
<1> QED
  BY <1>5, HistoryFrom

-----------------------------------------------------------------------------
(* Requests of d to p.                                                     *)

Topics == [Nat -> Props]
With(f, n, v) == [f EXCEPT ![n + 1] = v]

\* The history with one more request.
Asks(kind, prop, n, c, y, kind2, prop2) ==
    /\ kind2 \in Kinds /\ prop2 \in Topics
    /\ Same(kind, prop, kind2, prop2, n) /\ Silent(kind2, n + 1)
    /\ kind2[n + 1] = c /\ prop2[n + 1] = y

LEMMA AskMore ==
    ASSUME NEW kind \in Kinds, NEW prop \in Topics, NEW n \in Nat, Silent(kind, n),
           NEW c \in Ask, NEW y \in Props
    PROVE  Asks(kind, prop, n, c, y, With(kind, n, c), With(prop, n, y))
<1> DEFINE q == n + 1
           kind2 == [kind EXCEPT ![q] = c]
           prop2 == [prop EXCEPT ![q] = y]
<1>1. kind2 \in Kinds /\ prop2 \in Topics
  BY DEF Kinds, Ask, Topics
<1>2. q \in Nat /\ kind2[q] = c /\ prop2[q] = y
  BY DEF Kinds, Topics
<1>3. \A r \in Nat : r # q => kind2[r] = kind[r] /\ prop2[r] = prop[r]
  BY DEF Kinds, Topics
<1>4. \A r \in Nat : (r <= n => r # q) /\ (q < r => r # q /\ n < r)
  OBVIOUS
<1>5. With(kind, n, c) = kind2 /\ With(prop, n, y) = prop2
  BY DEF With
<1> HIDE DEF kind2, prop2
<1>6. Same(kind, prop, kind2, prop2, n)
  BY <1>3, <1>4 DEF Same
<1>7. Silent(kind2, n + 1)
  BY <1>3, <1>4 DEF Silent
<1> QED
  BY <1>1, <1>2, <1>5, <1>6, <1>7 DEF Asks

LEMMA HostGoodSame ==
    ASSUME NEW kind, NEW prop, NEW given, NEW kind2, NEW prop2, NEW n \in Nat,
           NEW gone \in Nat, NEW host \in Nat, NEW hosts, NEW service, NEW facade,
           NEW d, NEW x, host <= n, Same(kind, prop, kind2, prop2, n),
           HostGood(kind, prop, given, gone, host, hosts, service, facade, d, x)
    PROVE  HostGood(kind2, prop2, given, gone, host, hosts, service, facade, d, x)
BY ServingSame, ShownSame DEF HostGood

LEMMA HistorySubscribe ==
    ASSUME NEW d, NEW x, NEW n \in Nat, NEW last, NEW out \in Seq(Messages),
           NEW in \in Seq(Messages), NEW hosts, NEW service, NEW facade,
           NEW subs \in Seq(Subs), NEW rules,
           History(d, x, n, last, out, in, hosts, service, facade, subs, rules),
           NEW m \in Messages, m.command = "start", m.req = n + 1,
           NEW e \in Subs, e.prop = m.prop, e.req = n + 1, e.id = NoId,
           e.state = "Subscribing"
    PROVE  History(d, x, n + 1, last, Append(out, m), in, hosts, service, facade,
                   Append(subs, e), rules)
<1>1. PICK kind \in Kinds, prop \in [Nat -> Props], given \in [Nat -> Nat],
           match \in [Nat -> Nat], host \in Nat, client \in Nat, gone \in Nat, left \in Nat :
        Fits(kind, prop, given, match, host, client, gone, left,
             d, x, n, last, out, in, hosts, service, facade, subs, rules)
  BY DEF History
<1>2. /\ Sizes(host, client, gone, left, n)
      /\ LinesGood(kind, prop, given, host, client, n, last, out, in)
      /\ HostGood(kind, prop, given, gone, host, hosts, service, facade, d, x)
      /\ ClientGood(kind, prop, given, client, left, n, subs, rules, x)
      /\ EndsGood(kind, prop, match, gone, left, host, n, hosts, x)
  BY <1>1 DEF Fits
<1> DEFINE c == "start"
           y == m.prop
           kind2 == With(kind, n, c)
           prop2 == With(prop, n, y)
<1>3. /\ kind2 \in Kinds /\ prop2 \in [Nat -> Props]
      /\ Same(kind, prop, kind2, prop2, n) /\ Silent(kind2, n + 1)
      /\ kind2[n + 1] = "start" /\ prop2[n + 1] = m.prop
  <2>1. Silent(kind, n) /\ c \in Ask
    BY <1>2 DEF LinesGood, Ask
  <2>2. y \in Props
    BY Fields
  <2> HIDE DEF y, c
  <2>4. prop \in Topics
    BY DEF Topics
  <2>3. Asks(kind, prop, n, c, y, kind2, prop2)
    BY <2>1, <2>2, <2>4, AskMore
  <2> HIDE DEF kind2, prop2
  <2> QED
    BY <2>3 DEF y, c, Topics, Asks
<1> HIDE DEF c, y, kind2, prop2
<1>4. host <= n /\ client <= n /\ left <= n /\ n <= n + 1 /\ n + 1 \in Nat
  BY <1>2, SizesAre
<1>5. Sizes(host, client, gone, left, n + 1)
  BY <1>2, <1>4, SizesFurther
<1>6. LinesGood(kind2, prop2, given, host, client, n + 1, last, Append(out, m), in)
  <2>1. m.command \in Ask /\ kind2[n + 1] = m.command
    BY <1>3 DEF Ask
  <2> QED
    BY <1>2, <1>3, <1>4, <2>1, LinesAsk
<1>7. HostGood(kind2, prop2, given, gone, host, hosts, service, facade, d, x)
  BY <1>2, <1>3, <1>4, HostGoodSame
<1>8. ClientGood(kind2, prop2, given, client, left, n + 1, Append(subs, e), rules, x)
  <2>1. /\ Asked(Elems(subs), kind, prop, given, client, n) /\ InOrder(subs)
        /\ Kept(Elems(subs), kind, prop, given, client, left, n, x)
        /\ Known(Elems(rules), kind, prop, given, client, left, x)
    BY <1>2 DEF ClientGood
  <2>2. Elems(subs) \in SUBSET Subs
    BY SubsElems
  <2>3. Elems(Append(subs, e)) = Elems(subs) \cup {e}
    BY ElemsAppend
  <2>4. prop2[n + 1] = e.prop
    BY <1>3
  <2>5. Asked(Elems(subs) \cup {e}, kind2, prop2, given, client, n + 1)
    BY <1>3, <1>4, <2>1, <2>2, <2>4, AskedNew
  <2>6. InOrder(Append(subs, e))
    BY <2>1, InOrderNew
  <2>7. Kept(Elems(subs) \cup {e}, kind2, prop2, given, client, left, n + 1, x)
    BY <1>3, <1>4, <2>1, <2>2, <2>4, KeptNew
  <2>8. Known(Elems(rules), kind2, prop2, given, client, left, x)
    BY <1>3, <1>4, <2>1, KnownSame
  <2> QED
    BY <2>3, <2>5, <2>6, <2>7, <2>8 DEF ClientGood
<1>9. EndsGood(kind2, prop2, match, gone, left, host, n + 1, hosts, x)
  <2>1. /\ Matched(kind, prop, match, gone, left, host, n, x)
        /\ hosts = {} => AllMatched(kind, prop, match, gone, left, host, n, x)
    BY <1>2 DEF EndsGood
  <2>2. ~IsEnd(kind2, prop2, n + 1, x)
    BY <1>3 DEF IsEnd
  <2>3. Matched(kind2, prop2, match, gone, left, host, n + 1, x)
    BY <1>3, <1>4, <2>1, <2>2, MatchedSame
  <2>4. hosts = {} => AllMatched(kind2, prop2, match, gone, left, host, n + 1, x)
    BY <1>3, <1>4, <2>1, AllMatchedSame
  <2> QED
    BY <2>3, <2>4 DEF EndsGood
<1>10. Fits(kind2, prop2, given, match, host, client, gone, left, d, x, n + 1, last,
            Append(out, m), in, hosts, service, facade, Append(subs, e), rules)
  BY <1>5, <1>6, <1>7, <1>8, <1>9 DEF Fits
<1> QED
  BY <1>3, <1>10, HistoryFrom

LEMMA KnownLess ==
    ASSUME NEW S, NEW kind, NEW prop, NEW given, NEW client \in Nat, NEW left \in Nat,
           NEW q \in Nat, NEW x, left <= q, Known(S, kind, prop, given, client, left, x)
    PROVE  Known(S, kind, prop, given, client, q, x)
<1>1. \A r \in Nat : q < r => left < r
  OBVIOUS
<1> QED
  BY <1>1, Zenon DEF Known

LEMMA HistoryUnsubscribe ==
    ASSUME NEW d, NEW x, NEW n \in Nat, NEW last, NEW out \in Seq(Messages),
           NEW in \in Seq(Messages), NEW hosts, NEW service, NEW facade,
           NEW subs \in Seq(Subs), NEW rules,
           History(d, x, n, last, out, in, hosts, service, facade, subs, rules),
           NEW i \in 1 .. Len(subs), subs[i].state # "Unsubscribing",
           \A j \in 1 .. Len(subs) : subs[j].prop = subs[i].prop => i <= j,
           NEW m \in Messages, m.command = "end", m.req = n + 1, m.prop = subs[i].prop,
           NEW new \in Seq(Subs), Len(new) = Len(subs), new[i].prop = subs[i].prop,
           new[i].id = subs[i].id, new[i].req = n + 1, new[i].state = "Unsubscribing",
           \A j \in 1 .. Len(subs) : j # i => new[j] = subs[j]
    PROVE  History(d, x, n + 1, last, Append(out, m), in, hosts, service, facade,
                   new, rules)
<1>1. PICK kind \in Kinds, prop \in [Nat -> Props], given \in [Nat -> Nat],
           match \in [Nat -> Nat], host \in Nat, client \in Nat, gone \in Nat, left \in Nat :
        Fits(kind, prop, given, match, host, client, gone, left,
             d, x, n, last, out, in, hosts, service, facade, subs, rules)
  BY DEF History
<1>2. /\ Sizes(host, client, gone, left, n)
      /\ LinesGood(kind, prop, given, host, client, n, last, out, in)
      /\ HostGood(kind, prop, given, gone, host, hosts, service, facade, d, x)
      /\ ClientGood(kind, prop, given, client, left, n, subs, rules, x)
      /\ EndsGood(kind, prop, match, gone, left, host, n, hosts, x)
  BY <1>1 DEF Fits
<1> DEFINE c == "end"
           y == m.prop
           kind2 == With(kind, n, c)
           prop2 == With(prop, n, y)
<1>3. /\ kind2 \in Kinds /\ prop2 \in [Nat -> Props]
      /\ Same(kind, prop, kind2, prop2, n) /\ Silent(kind2, n + 1)
      /\ kind2[n + 1] = "end" /\ prop2[n + 1] = m.prop
  <2>1. Silent(kind, n) /\ c \in Ask
    BY <1>2 DEF LinesGood, Ask
  <2>2. y \in Props
    BY Fields
  <2> HIDE DEF y, c
  <2>4. prop \in Topics
    BY DEF Topics
  <2>3. Asks(kind, prop, n, c, y, kind2, prop2)
    BY <2>1, <2>2, <2>4, AskMore
  <2> HIDE DEF kind2, prop2
  <2> QED
    BY <2>3 DEF y, c, Topics, Asks
<1> HIDE DEF c, y, kind2, prop2
<1>4. /\ host <= n /\ client <= n /\ left <= n /\ gone <= left /\ n <= n + 1 /\ n + 1 \in Nat
      /\ client <= host /\ gone <= host
  BY <1>2, SizesAre
<1>5. LinesGood(kind2, prop2, given, host, client, n + 1, last, Append(out, m), in)
  <2>1. m.command \in Ask /\ kind2[n + 1] = m.command
    BY <1>3 DEF Ask
  <2> QED
    BY <1>2, <1>3, <1>4, <2>1, LinesAsk
<1>6. HostGood(kind2, prop2, given, gone, host, hosts, service, facade, d, x)
  BY <1>2, <1>3, <1>4, HostGoodSame
<1>7. /\ Asked(Elems(subs), kind, prop, given, client, n) /\ InOrder(subs)
      /\ Kept(Elems(subs), kind, prop, given, client, left, n, x)
      /\ Known(Elems(rules), kind, prop, given, client, left, x)
      /\ Matched(kind, prop, match, gone, left, host, n, x)
      /\ hosts = {} => AllMatched(kind, prop, match, gone, left, host, n, x)
  BY <1>2 DEF ClientGood, EndsGood
<1>8. Asked(Elems(new), kind2, prop2, given, client, n + 1)
  <2>1. prop2[n + 1] = subs[i].prop
    BY <1>3
  <2> QED
    BY <1>3, <1>4, <1>7, <2>1, AskedLeft
<1>9. InOrder(new)
  BY <1>7, InOrderLeft
<1>10. Known(Elems(rules), kind2, prop2, given, client, left, x)
  BY <1>3, <1>4, <1>7, KnownSame
<1>11. \A j \in 1 .. Len(subs) : j # i => subs[j] \in Elems(new)
  BY DEF Elems
<1>12. \A e \in Elems(new) : e = new[i] \/ \E j \in 1 .. Len(subs) : j # i /\ e = subs[j]
  BY DEF Elems
<1>13. \A r \in Nat : r <= n + 1 /\ IsStart(kind2, prop2, r, x) =>
            r <= n /\ IsStart(kind, prop, r, x)
  <2>1. \A r \in Nat : r <= n + 1 => r <= n \/ r = n + 1
    OBVIOUS
  <2>2. ~IsStart(kind2, prop2, n + 1, x)
    BY <1>3 DEF IsStart
  <2>3. \A r \in Nat : r <= n => kind2[r] = kind[r] /\ prop2[r] = prop[r]
    BY <1>3 DEF Same
  <2> QED
    BY <2>1, <2>2, <2>3 DEF IsStart
<1>14. CASE subs[i].prop # x
  <2>1. Kept(Elems(new), kind2, prop2, given, client, left, n + 1, x)
    <3>1. \A e \in Elems(subs) : e.prop = x => e \in Elems(new)
      <4>1. \A e \in Elems(subs) : \E j \in 1 .. Len(subs) : e = subs[j]
        BY SubsElems
      <4> QED
        BY <1>11, <1>14, <4>1
    <3>2. \A e \in Elems(new) : e.prop = x => e \in Elems(subs)
      <4>1. \A j \in 1 .. Len(subs) : subs[j] \in Elems(subs)
        BY SubsElems
      <4> QED
        BY <1>12, <1>14, <4>1
    <3> QED
      BY <1>4, <1>7, <1>13, <3>1, <3>2, KeptOthers
  <2>2. ClientGood(kind2, prop2, given, client, left, n + 1, new, rules, x)
    BY <1>8, <1>9, <1>10, <2>1 DEF ClientGood
  <2>3. ~IsEnd(kind2, prop2, n + 1, x)
    BY <1>3, <1>14 DEF IsEnd
  <2>4. Matched(kind2, prop2, match, gone, left, host, n + 1, x)
    BY <1>3, <1>4, <1>7, <2>3, MatchedSame
  <2>5. hosts = {} => AllMatched(kind2, prop2, match, gone, left, host, n + 1, x)
    BY <1>3, <1>4, <1>7, AllMatchedSame
  <2>6. EndsGood(kind2, prop2, match, gone, left, host, n + 1, hosts, x)
    BY <2>4, <2>5 DEF EndsGood
  <2>7. Sizes(host, client, gone, left, n + 1)
    BY <1>2, <1>4, SizesFurther
  <2>8. Fits(kind2, prop2, given, match, host, client, gone, left, d, x, n + 1, last,
             Append(out, m), in, hosts, service, facade, new, rules)
    BY <1>5, <1>6, <2>2, <2>6, <2>7 DEF Fits
  <2> QED
    BY <1>3, <2>8, HistoryFrom
<1>15. CASE subs[i].prop = x
  <2> DEFINE q == subs[i].req
             match2 == [match EXCEPT ![n + 1] = q]
  <2>1. /\ Kept(Elems(new), kind2, prop2, given, client, q, n + 1, x)
        /\ left < q /\ q \in Nat
        /\ \A r \in Nat : left < r /\ r <= q /\ r <= n /\ IsStart(kind, prop, r, x) => r = q
    <3>1. Without(subs, i, Elems(new), x)
      <4>1. \A e \in Elems(new) : e.prop = x /\ e.state # "Unsubscribing" =>
                \E j \in 1 .. Len(subs) : j # i /\ e = subs[j]
        BY <1>12
      <4> QED
        BY <1>11, <4>1 DEF Without
    <3>2. NoNewStart(kind2, prop2, n + 1, kind, prop, n, q, x)
      BY <1>13 DEF NoNewStart
    <3>3. subs[i].req = q /\ FirstPlace(subs, i, x)
      BY <1>15 DEF FirstPlace
    <3> HIDE DEF q
    <3>4. /\ Kept(Elems(new), kind2, prop2, given, client, q, n + 1, x)
          /\ left < q /\ q \in Nat
          /\ OnlyStart(kind, prop, left, q, n, x)
      BY <1>4, <1>7, <3>1, <3>2, <3>3, KeptLess
    <3> QED
      BY <3>4 DEF OnlyStart
  <2>2. q <= n /\ IsStart(kind, prop, q, x)
    <3>1. subs[i] \in Elems(subs)
      BY SubsElems
    <3> QED
      BY <1>7, <1>15, <3>1 DEF Asked, IsStart
  <2>3. match2 \in [Nat -> Nat] /\ match2[n + 1] = q
    BY <1>4, <2>1
  <2>4. \A r \in Nat : r <= n => match2[r] = match[r]
    <3>1. \A r \in Nat : r <= n => r # n + 1
      OBVIOUS
    <3> QED
      BY <3>1
  <2> HIDE DEF q, match2
  <2>20. EndsFirst(kind, prop, match, match2, left, q, n, x)
    BY <2>1, <2>2, <2>3, <2>4 DEF EndsFirst
  <2>21. q \in Nat /\ match2 \in [Nat -> Nat]
    BY <2>1, <2>3
  <2>5. IsEnd(kind2, prop2, n + 1, x)
    BY <1>3, <1>15 DEF IsEnd
  <2>6. Matched(kind2, prop2, match2, gone, q, host, n + 1, x)
    BY <1>3, <1>4, <1>7, <2>5, <2>20, <2>21, MatchedLeft
  <2>7. hosts = {} => AllMatched(kind2, prop2, match2, gone, q, host, n + 1, x)
    BY <1>3, <1>4, <1>7, <2>5, <2>20, <2>21, AllMatchedLeft
  <2>8. EndsGood(kind2, prop2, match2, gone, q, host, n + 1, hosts, x)
    BY <2>6, <2>7 DEF EndsGood
  <2>9. left <= q
    BY <2>1
  <2>10. Known(Elems(rules), kind2, prop2, given, client, q, x)
    BY <1>10, <2>1, <2>9, KnownLess
  <2>11. ClientGood(kind2, prop2, given, client, q, n + 1, new, rules, x)
    BY <1>8, <1>9, <2>1, <2>10 DEF ClientGood
  <2>12. Sizes(host, client, gone, q, n + 1)
    BY <1>4, <2>1, <2>2 DEF Sizes
  <2>13. Fits(kind2, prop2, given, match2, host, client, gone, q, d, x, n + 1, last,
              Append(out, m), in, hosts, service, facade, new, rules)
    BY <1>5, <1>6, <2>8, <2>11, <2>12 DEF Fits
  <2> QED
    BY <1>3, <2>1, <2>3, <2>13, HistoryFrom
<1> QED
  BY <1>14, <1>15

-----------------------------------------------------------------------------
(* The host takes requests.                                                *)

\* The request m is the next that the host takes; its id is q.
Takes(kind, prop, given, host, n, last, q, m) ==
    /\ q \in Nat /\ q <= n /\ Apart(kind, host, q) /\ host < q
    /\ kind[q] = m.command /\ prop[q] = m.prop
    /\ Given(kind, given, host, last)

LEMMA LinesFirst ==
    ASSUME NEW kind, NEW prop, NEW given, NEW host \in Nat, NEW client, NEW n \in Nat,
           NEW last, NEW out \in Seq(Messages), NEW in, out # <<>>, Head(out).command \in Ask,
           LinesGood(kind, prop, given, host, client, n, last, out, in)
    PROVE  Takes(kind, prop, given, host, n, last, Head(out).req, Head(out))
<1> DEFINE q == Head(out).req
<1>1. /\ Numbered(out, Ask, kind, host, n) /\ Requests(Elems(out), kind, prop)
      /\ Given(kind, given, host, last)
  BY DEF LinesGood
<1>2. host < q /\ q <= n /\ Apart(kind, host, q)
  BY <1>1, NumberedHead
<1>3. Head(out) \in Elems(out)
  BY ElemsTail
<1>4. kind[q] = Head(out).command /\ prop[q] = Head(out).prop
  BY <1>1, <1>3 DEF Requests
<1>5. q \in Nat
  <2>1. Head(out) \in Messages
    BY TailIs
  <2> QED
    BY <2>1, Fields
<1> QED
  BY <1>1, <1>2, <1>4, <1>5 DEF Takes

LEMMA Between ==
    ASSUME NEW host \in Nat, NEW q \in Nat, NEW s \in Nat, s <= q
    PROVE  s <= host \/ (host < s /\ s < q) \/ s = q
OBVIOUS

LEMMA SizesTaken ==
    ASSUME NEW host \in Nat, NEW client \in Nat, NEW gone \in Nat, NEW left \in Nat,
           NEW n \in Nat, NEW q \in Nat, host < q, q <= n, client <= host,
           gone <= host, gone <= left, left <= n
    PROVE  Sizes(q, client, gone, left, n)
BY DEF Sizes

\* The client's parts do not depend on what the host gives for later requests.
LEMMA ClientGoodGiven ==
    ASSUME NEW kind, NEW prop, NEW given, NEW given2, NEW client \in Nat, NEW left \in Nat,
           NEW n, NEW subs \in Seq(Subs), NEW rules, NEW x, NEW q \in Nat, client < q,
           \A r \in Nat : r # q => given2[r] = given[r],
           ClientGood(kind, prop, given, client, left, n, subs, rules, x)
    PROVE  ClientGood(kind, prop, given2, client, left, n, subs, rules, x)
<1>1. Elems(subs) \in SUBSET Subs
  BY SubsElems
<1>2. Asked(Elems(subs), kind, prop, given2, client, n)
  BY AskedGiven DEF ClientGood
<1>3. Kept(Elems(subs), kind, prop, given2, client, left, n, x)
  BY <1>1, KeptGiven DEF ClientGood
<1>4. Known(Elems(rules), kind, prop, given2, client, left, x)
  BY KnownGiven DEF ClientGood
<1> QED
  BY <1>2, <1>3, <1>4 DEF ClientGood

LEMMA HistoryStart ==
    ASSUME NEW d, NEW x, NEW n \in Nat, NEW last \in Nat, NEW out \in Seq(Messages),
           NEW in \in Seq(Messages), NEW hosts, NEW service \in Seq(Served),
           NEW facade \in Seq(Shown), NEW subs \in Seq(Subs), NEW rules,
           History(d, x, n, last, out, in, hosts, service, facade, subs, rules),
           out # <<>>, Head(out).command = "start",
           NEW r \in Messages, r.command = "reply", r.req = Head(out).req,
           r.prop = Head(out).prop, r.id = last + 1,
           NEW e \in Served, e.prop = Head(out).prop, e.id = last + 1,
           NEW f \in Shown, f.prop = Head(out).prop
    PROVE  History(d, x, n, last + 1, Tail(out), Append(in, r), hosts, Append(service, e),
                   Append(facade, f), subs, rules)
<1>1. PICK kind \in Kinds, prop \in [Nat -> Props], given \in [Nat -> Nat],
           match \in [Nat -> Nat], host \in Nat, client \in Nat, gone \in Nat, left \in Nat :
        Fits(kind, prop, given, match, host, client, gone, left,
             d, x, n, last, out, in, hosts, service, facade, subs, rules)
  BY DEF History
<1>2. /\ Sizes(host, client, gone, left, n)
      /\ LinesGood(kind, prop, given, host, client, n, last, out, in)
      /\ HostGood(kind, prop, given, gone, host, hosts, service, facade, d, x)
      /\ ClientGood(kind, prop, given, client, left, n, subs, rules, x)
      /\ EndsGood(kind, prop, match, gone, left, host, n, hosts, x)
  BY <1>1 DEF Fits
<1>3. client <= host /\ gone <= host /\ gone <= left /\ left <= n
  BY <1>2, SizesAre
<1> DEFINE m == Head(out)
           q == Head(out).req
           given2 == [given EXCEPT ![q] = last + 1]
<1>4. Head(out).command \in Ask /\ q = Head(out).req
  BY DEF Ask
<1> HIDE DEF q
<1>5. /\ q \in Nat /\ q <= n /\ Apart(kind, host, q) /\ host < q
      /\ kind[q] = "start" /\ prop[q] = m.prop /\ Given(kind, given, host, last)
  <2>1. Head(out).command \in Ask
    BY <1>4
  <2>2. LinesGood(kind, prop, given, host, client, n, last, out, in)
    BY <1>2
  <2>3. Takes(kind, prop, given, host, n, last, Head(out).req, Head(out))
    BY <2>1, <2>2, LinesFirst
  <2>4. Takes(kind, prop, given, host, n, last, q, m)
    BY <1>4, <2>3
  <2> QED
    BY <2>4 DEF Takes
<1>6. /\ given2 \in [Nat -> Nat] /\ given2[q] = last + 1
      /\ \A s \in Nat : s # q => given2[s] = given[s]
  BY <1>5
<1> HIDE DEF given2
<1>7. Given(kind, given2, q, last + 1)
  BY <1>5, <1>6, GivenStart
<1>8. LinesGood(kind, prop, given2, q, client, n, last + 1, Tail(out), Append(in, r))
  <2>1. r.id = given2[r.req] /\ Head(out).command # "end"
    BY <1>4, <1>6
  <2>2. /\ \A s \in Nat : s # Head(out).req => given2[s] = given[s]
        /\ Given(kind, given2, Head(out).req, last + 1)
    BY <1>4, <1>6, <1>7
  <2>3. LinesGood(kind, prop, given2, Head(out).req, client, n, last + 1, Tail(out), Append(in, r))
    BY <1>2, <1>3, <1>4, <1>6, <2>1, <2>2, LinesTaken
  <2> QED
    BY <1>4, <2>3
<1> HIDE DEF m
<1>9. HostGood(kind, prop, given2, gone, q, hosts, Append(service, e), Append(facade, f), d, x)
  <2>1. /\ Serving(Elems(service), kind, prop, given, gone, host, x)
        /\ hosts = {} => ShownOnly(Elems(facade), kind, prop, gone, host, d, x)
    BY <1>2 DEF HostGood
  <2>2. Elems(Append(service, e)) = Elems(service) \cup {e}
    BY ElemsAppend
  <2>3. Elems(Append(facade, f)) = Elems(facade) \cup {f}
    BY ElemsAppend
  <2>4. prop[q] = e.prop /\ e.id = given2[q] /\ prop[q] = f.prop
    BY <1>5, <1>6 DEF m
  <2>5. Serving(Elems(service) \cup {e}, kind, prop, given2, gone, q, x)
    BY <1>3, <1>5, <1>6, <2>1, <2>4, ServingStart
  <2>6. [muid |-> d, prop |-> x] \in Elems(facade) \cup {f} =>
            [muid |-> d, prop |-> x] \in Elems(facade) \/ IsStart(kind, prop, q, x)
    <3>1. [muid |-> d, prop |-> x] = f => x = f.prop
      <4>1. [muid |-> d, prop |-> x].prop = x
        OBVIOUS
      <4> QED
        BY <4>1
    <3> QED
      BY <1>5, <2>4, <3>1 DEF IsStart
  <2>7. hosts = {} => ShownOnly(Elems(facade) \cup {f}, kind, prop, gone, q, d, x)
    BY <1>3, <1>5, <2>1, <2>6, ShownTaken
  <2> QED
    BY <2>2, <2>3, <2>5, <2>7 DEF HostGood
<1>10. ClientGood(kind, prop, given2, client, left, n, subs, rules, x)
  <2>1. client < q
    BY <1>3, <1>5
  <2> QED
    BY <1>2, <1>5, <1>6, <2>1, ClientGoodGiven
<1>11. EndsGood(kind, prop, match, gone, left, q, n, hosts, x)
  <2>1. ~IsEnd(kind, prop, q, x)
    BY <1>5 DEF IsEnd
  <2> QED
    BY <1>2, <1>5, <2>1, MatchedTaken DEF EndsGood
<1>12. Sizes(q, client, gone, left, n)
  BY <1>3, <1>5, SizesTaken
<1>13. Fits(kind, prop, given2, match, q, client, gone, left, d, x, n, last + 1, Tail(out),
            Append(in, r), hosts, Append(service, e), Append(facade, f), subs, rules)
  BY <1>8, <1>9, <1>10, <1>11, <1>12 DEF Fits
<1> QED
  BY <1>5, <1>6, <1>13, HistoryFrom

LEMMA HistoryEnd ==
    ASSUME NEW d, NEW x, NEW n \in Nat, NEW last \in Nat, NEW out \in Seq(Messages),
           NEW in \in Seq(Messages), NEW hosts, NEW service \in Seq(Served), Ascending(service),
           NEW facade \in Seq(Shown), NEW subs \in Seq(Subs), NEW rules,
           History(d, x, n, last, out, in, hosts, service, facade, subs, rules),
           out # <<>>, Head(out).command = "end",
           NEW r \in Messages, r.command = "reply", r.req = Head(out).req,
           r.prop = Head(out).prop, r.id = NoId,
           NEW y, y = Head(out).prop,
           NEW facade2, Elems(facade2) \subseteq Elems(facade),
           [muid |-> d, prop |-> y] \notin Elems(facade2)
    PROVE  History(d, x, n, last, Tail(out), Append(in, r), hosts,
                   Drop(service, First(Of(service, y))), facade2, subs, rules)
<1>1. PICK kind \in Kinds, prop \in [Nat -> Props], given \in [Nat -> Nat],
           match \in [Nat -> Nat], host \in Nat, client \in Nat, gone \in Nat, left \in Nat :
        Fits(kind, prop, given, match, host, client, gone, left,
             d, x, n, last, out, in, hosts, service, facade, subs, rules)
  BY DEF History
<1>2. /\ Sizes(host, client, gone, left, n)
      /\ LinesGood(kind, prop, given, host, client, n, last, out, in)
      /\ HostGood(kind, prop, given, gone, host, hosts, service, facade, d, x)
      /\ ClientGood(kind, prop, given, client, left, n, subs, rules, x)
      /\ EndsGood(kind, prop, match, gone, left, host, n, hosts, x)
  BY <1>1 DEF Fits
<1>3. client <= host /\ gone <= host /\ gone <= left /\ left <= n
  BY <1>2, SizesAre
<1> DEFINE m == Head(out)
           q == Head(out).req
           service2 == Drop(service, First(Of(service, y)))
<1>4. Head(out).command \in Ask /\ q = Head(out).req
  BY DEF Ask
<1> HIDE DEF q
<1>5. /\ q \in Nat /\ q <= n /\ Apart(kind, host, q) /\ host < q
      /\ kind[q] = "end" /\ prop[q] = m.prop /\ Given(kind, given, host, last)
  <2>1. Head(out).command \in Ask
    BY <1>4
  <2>2. LinesGood(kind, prop, given, host, client, n, last, out, in)
    BY <1>2
  <2>3. Takes(kind, prop, given, host, n, last, Head(out).req, Head(out))
    BY <2>1, <2>2, LinesFirst
  <2>4. Takes(kind, prop, given, host, n, last, q, m)
    BY <1>4, <2>3
  <2> QED
    BY <2>4 DEF Takes
<1>6. Given(kind, given, q, last)
  <2>1. kind[q] # "start" /\ last <= last
    BY <1>5
  <2> QED
    BY <1>5, <2>1, GivenEnd
<1>7. LinesGood(kind, prop, given, q, client, n, last, Tail(out), Append(in, r))
  <2>1. r.id = NoId /\ Head(out).command # "start"
    OBVIOUS
  <2>2. /\ \A s \in Nat : s # Head(out).req => given[s] = given[s]
        /\ Given(kind, given, Head(out).req, last)
    BY <1>4, <1>6
  <2>3. LinesGood(kind, prop, given, Head(out).req, client, n, last, Tail(out), Append(in, r))
    BY <1>2, <1>3, <1>4, <2>1, <2>2, LinesTaken
  <2> QED
    BY <1>4, <2>3
<1>8. prop[q] = y
  BY <1>5 DEF m
<1> HIDE DEF m
<1>9. /\ Serving(Elems(service), kind, prop, given, gone, host, x)
      /\ hosts = {} => ShownOnly(Elems(facade), kind, prop, gone, host, d, x)
      /\ Matched(kind, prop, match, gone, left, host, n, x)
      /\ hosts = {} => AllMatched(kind, prop, match, gone, left, host, n, x)
  BY <1>2 DEF HostGood, EndsGood
<1>10. CASE y # x
  <2>1. ~IsEnd(kind, prop, q, x) /\ ~IsStart(kind, prop, q, x)
    BY <1>5, <1>8, <1>10 DEF IsEnd, IsStart
  <2>2. \A s \in Nat : s <= q /\ IsStart(kind, prop, s, x) => s <= host
    <3>1. \A s \in Nat : s <= q => s <= host \/ (host < s /\ s < q) \/ s = q
      <4>1. q \in Nat
        BY <1>5
      <4> QED
        BY <4>1, Between
    <3> QED
      BY <1>5, <2>1, <3>1 DEF Apart, IsStart
  <2>3. /\ \A e \in Elems(service) : e.prop = x => e \in Elems(service2)
        /\ \A e \in Elems(service2) : e.prop = x => e \in Elems(service)
    <3> DEFINE i == First(Of(service, y))
    <3>1. i \in 0 .. Len(service) /\ Len(service) \in Nat
          /\ (i # 0 => i \in 1 .. Len(service) /\ service[i].prop = y)
      BY FirstOfIs
    <3> HIDE DEF i
    <3>2. CASE i = 0
      BY <3>2, DropNone DEF i
    <3>3. CASE i # 0
      <4>1. /\ \A j \in 1 .. Len(service) : j # i => service[j] \in Elems(Drop(service, i))
            /\ \A e \in Elems(Drop(service, i)) :
                    \E j \in 1 .. Len(service) : j # i /\ e = service[j]
        BY <3>1, <3>3, DropElems
      <4>2. \A e \in Elems(service) : e.prop = x => e \in Elems(Drop(service, i))
        BY <1>10, <3>1, <3>3, <4>1 DEF Elems
      <4>3. \A e \in Elems(Drop(service, i)) : e \in Elems(service)
        BY <4>1 DEF Elems
      <4> QED
        BY <4>2, <4>3 DEF i
    <3> QED
      BY <3>2, <3>3
  <2> HIDE DEF service2
  <2>4. Serving(Elems(service2), kind, prop, given, gone, q, x)
    <3>1. host <= q /\ \A s \in Nat : s <= host => given[s] = given[s]
      BY <1>5
    <3> QED
      BY <1>5, <1>9, <2>2, <2>3, <3>1, ServingOther
  <2>5. hosts = {} => ShownOnly(Elems(facade2), kind, prop, gone, q, d, x)
    BY <1>3, <1>5, <1>9, ShownTaken
  <2>6. HostGood(kind, prop, given, gone, q, hosts, service2, facade2, d, x)
    BY <2>4, <2>5 DEF HostGood
  <2>7. EndsGood(kind, prop, match, gone, left, q, n, hosts, x)
    BY <1>5, <1>9, <2>1, MatchedTaken DEF EndsGood
  <2>8. Sizes(q, client, gone, left, n)
    BY <1>3, <1>5, SizesTaken
  <2>9. Fits(kind, prop, given, match, q, client, gone, left, d, x, n, last, Tail(out),
             Append(in, r), hosts, service2, facade2, subs, rules)
    BY <1>2, <1>7, <2>6, <2>7, <2>8 DEF Fits
  <2>10. History(d, x, n, last, Tail(out), Append(in, r), hosts, service2, facade2, subs, rules)
    BY <1>5, <2>9, HistoryFrom
  <2> QED
    BY <2>10 DEF service2
<1>11. CASE y = x
  <2>1. IsEnd(kind, prop, q, x)
    BY <1>5, <1>8, <1>11 DEF IsEnd
  <2>2. PICK c \in Nat :
            /\ gone < c /\ c <= host /\ c <= left
            /\ Serving(Elems(Drop(service, First(Of(service, x)))), kind, prop, given, c, q, x)
            /\ Matched(kind, prop, match, c, left, q, n, x)
            /\ AllMatched(kind, prop, match, gone, left, host, n, x) =>
                AllMatched(kind, prop, match, c, left, q, n, x)
    BY <1>5, <1>9, <2>1, EndTaken
  <2>3. Serving(Elems(service2), kind, prop, given, c, q, x)
    BY <1>11, <2>2
  <2> HIDE DEF service2
  <2>4. ShownOnly(Elems(facade2), kind, prop, c, q, d, x)
    BY <1>11 DEF ShownOnly
  <2>5. HostGood(kind, prop, given, c, q, hosts, service2, facade2, d, x)
    BY <2>3, <2>4 DEF HostGood
  <2>6. EndsGood(kind, prop, match, c, left, q, n, hosts, x)
    BY <1>9, <2>2 DEF EndsGood
  <2>7. Sizes(q, client, c, left, n)
    BY <1>3, <1>5, <2>2, SizesTaken
  <2>8. Fits(kind, prop, given, match, q, client, c, left, d, x, n, last, Tail(out),
             Append(in, r), hosts, service2, facade2, subs, rules)
    BY <1>2, <1>7, <2>5, <2>6, <2>7 DEF Fits
  <2>9. History(d, x, n, last, Tail(out), Append(in, r), hosts, service2, facade2, subs, rules)
    BY <1>5, <2>2, <2>8, HistoryFrom
  <2> QED
    BY <2>9 DEF service2
<1> QED
  BY <1>10, <1>11

-----------------------------------------------------------------------------
(* The client takes replies and ends.                                      *)

LEMMA InOrderSame ==
    ASSUME NEW l, NEW new, NEW i, InOrder(l), Len(new) = Len(l),
           new[i].prop = l[i].prop, new[i].req = l[i].req,
           l[i].state # "Unsubscribing", new[i].state # "Unsubscribing",
           \A j \in 1 .. Len(l) : j # i => new[j] = l[j]
    PROVE  InOrder(new)
<1>1. \A j \in 1 .. Len(l) :
        /\ new[j].prop = l[j].prop /\ new[j].req = l[j].req
        /\ new[j].state = "Unsubscribing" <=> l[j].state = "Unsubscribing"
  <2> TAKE j \in 1 .. Len(l)
  <2>1. CASE j = i
    BY <2>1
  <2>2. CASE j # i
    BY <2>2
  <2> QED
    BY <2>1, <2>2
<1> QED
  BY <1>1 DEF InOrder

\* The list and the rules after the reply.
Replied(subs, rules, m, subs2, rules2) ==
    /\ Ignored(subs, m) => subs2 = subs /\ rules2 = rules
    /\ ~Ignored(subs, m) =>
        /\ subs2 = AfterReply(subs, m)
        /\ rules2 = RulesResult(rules, subs[AnsweredAt(subs, m)].prop, m.id)

\* What a reply changes is one of four things.
Nothing(subs, rules, q, subs2, rules2) ==
    /\ subs2 = subs /\ rules2 = rules
    /\ \A j \in 1 .. Len(subs) : subs[j].req = q =>
        subs[j].state # "Unsubscribing" /\ subs[j].state # "Subscribing"
Ended(subs, rules, q, subs2, rules2) ==
    \E i \in 1 .. Len(subs) :
        /\ subs[i].req = q /\ subs[i].state = "Unsubscribing"
        /\ subs2 = Drop(subs, i) /\ rules2 = rules
Began(subs, rules, q, id, subs2, rules2) ==
    \E i \in 1 .. Len(subs) :
        /\ subs[i].req = q /\ subs[i].state = "Subscribing" /\ id # NoId
        /\ subs2 = AsSubscribed(subs, i, id)
        /\ rules2 = RulesResult(rules, subs[i].prop, id)

LEMMA ReplyCases ==
    ASSUME NEW subs \in Seq(Subs), NEW rules \in Seq(Rules), NEW m \in Messages,
           NEW kind, NEW prop, NEW given \in [Nat -> Nat], NEW host \in Nat,
           NEW client \in Nat, NEW n, NEW last, NEW out, NEW in, NEW q,
           Answers(kind, prop, given, host, client, n, last, out, in, q, m),
           Asked(Elems(subs), kind, prop, given, client, n), InOrder(subs),
           NEW subs2, NEW rules2, Replied(subs, rules, m, subs2, rules2)
    PROVE  \/ Nothing(subs, rules, q, subs2, rules2)
           \/ Ended(subs, rules, q, subs2, rules2)
           \/ Began(subs, rules, q, m.id, subs2, rules2)
<1> DEFINE i == AnsweredAt(subs, m)
<1>1. /\ q = m.req /\ q \in Nat /\ q <= host /\ client < q /\ Given(kind, given, host, last)
      /\ m.id = NoId => kind[q] = "end"
      /\ m.id # NoId => kind[q] = "start" /\ m.id = given[q]
  BY DEF Answers
<1>2. \A j \in 1 .. Len(subs) : Answered(subs[j], m) <=> subs[j].req = q
  <2>1. /\ client < m.req /\ m.req <= host
        /\ m.id # NoId => kind[m.req] = "start" /\ m.id = given[m.req]
    BY <1>1
  <2>2. \A j \in 1 .. Len(subs) : Answered(subs[j], m) <=> subs[j].req = m.req
    BY <1>1, <2>1, AnsweredReq
  <2> QED
    BY <1>1, <2>2
<1>3. /\ i \in 0 .. Len(subs) /\ Len(subs) \in Nat
      /\ i # 0 => i \in 1 .. Len(subs) /\ subs[i].req = q
      /\ \A j \in 1 .. Len(subs) : subs[j].req = q => i # 0
  BY <1>2, AnsweredAtIs
<1>4. Ignored(subs, m) <=> \/ i = 0
                           \/ m.id = NoId /\ subs[i].state # "Unsubscribing"
                           \/ subs[i].state = "Subscribed"
  BY DEF Ignored
<1>5. AfterReply(subs, m) = IF subs[i].state = "Unsubscribing" THEN Drop(subs, i)
                            ELSE AsSubscribed(subs, i, m.id)
  BY DEF AfterReply
<1>6. \A j \in 1 .. Len(subs) :
        /\ subs[j].state \in {"Subscribing", "Subscribed", "Unsubscribing"}
        /\ subs[j].state = "Unsubscribing" => kind[subs[j].req] = "end"
        /\ subs[j].state # "Unsubscribing" => kind[subs[j].req] = "start"
        /\ subs[j] \in Elems(subs)
  <2>1. \A j \in 1 .. Len(subs) : subs[j] \in Subs /\ subs[j] \in Elems(subs)
    BY ElementOfSeq, SubsElems
  <2> QED
    BY <2>1 DEF Subs, States, Asked
<1> HIDE DEF i
<1>7. CASE i = 0
  BY <1>3, <1>4, <1>7 DEF Replied, Nothing
<1>8. CASE i # 0 /\ subs[i].state = "Unsubscribing"
  <2>1. m.id = NoId
    BY <1>1, <1>3, <1>6, <1>8
  <2>2. ~Ignored(subs, m)
    BY <1>4, <1>8
  <2>3. subs2 = Drop(subs, i)
    BY <1>5, <1>8, <2>2 DEF Replied
  <2>4. rules2 = rules
    BY <2>1, <2>2 DEF Replied, RulesResult
  <2> QED
    BY <1>3, <1>8, <2>3, <2>4 DEF Ended
<1>9. CASE i # 0 /\ subs[i].state = "Subscribing"
  <2>1. m.id # NoId
    BY <1>1, <1>3, <1>6, <1>9
  <2>2. ~Ignored(subs, m)
    BY <1>4, <1>9, <2>1
  <2>3. subs2 = AsSubscribed(subs, i, m.id)
    BY <1>5, <1>9, <2>2 DEF Replied
  <2>4. rules2 = RulesResult(rules, subs[i].prop, m.id)
    BY <2>2 DEF Replied, i
  <2> QED
    BY <1>3, <1>9, <2>1, <2>3, <2>4 DEF Began
<1>10. CASE i # 0 /\ subs[i].state = "Subscribed"
  <2>1. Ignored(subs, m)
    BY <1>4, <1>10
  <2>2. \A j \in 1 .. Len(subs) : subs[j].req = q => j = i
    BY <1>3, <1>10, UniqueReq
  <2> QED
    BY <1>10, <2>1, <2>2 DEF Replied, Nothing
<1> QED
  BY <1>3, <1>6, <1>7, <1>8, <1>9, <1>10

LEMMA ReplyNothing ==
    ASSUME NEW subs \in Seq(Subs), NEW rules, NEW kind, NEW prop, NEW given,
           NEW client \in Nat, NEW left \in Nat, NEW n \in Nat, NEW q \in Nat, NEW x,
           Apart(kind, client, q), client < q, q <= n,
           ClientGood(kind, prop, given, client, left, n, subs, rules, x),
           NEW subs2, NEW rules2, Nothing(subs, rules, q, subs2, rules2)
    PROVE  ClientGood(kind, prop, given, q, left, n, subs2, rules2, x)
<1> DEFINE S == Elems(subs)
<1>1. /\ Asked(S, kind, prop, given, client, n) /\ InOrder(subs)
      /\ Kept(S, kind, prop, given, client, left, n, x)
      /\ Known(Elems(rules), kind, prop, given, client, left, x)
  BY DEF ClientGood
<1>2. S \in SUBSET Subs /\ \A e \in S : e.req = q =>
        e.state # "Unsubscribing" /\ e.state # "Subscribing"
  BY SubsElems DEF Nothing
<1> HIDE DEF S
<1>3. \A e \in S : e.prop = x => e.req # q
  BY <1>1, <1>2 DEF Kept
<1>4. Asked(S, kind, prop, given, q, n)
  BY <1>1, <1>2, AskedTaken
<1>5. Kept(S, kind, prop, given, q, left, n, x)
  <2>1. /\ \A e \in S : e.prop = x /\ e.state # "Unsubscribing" =>
            \/ e \in S /\ e.req # q
            \/ /\ e.req = q /\ e.state = "Subscribed" /\ e.id = given[q]
               /\ \E f \in S : f.prop = x /\ f.state # "Unsubscribing" /\ f.req = q
        /\ \A e \in S : e.prop = x /\ e.state # "Unsubscribing" =>
                \E f \in S : f.prop = x /\ f.state # "Unsubscribing" /\ f.req = e.req
    BY <1>3
  <2> QED
    BY <1>1, <1>2, <2>1, KeptTaken
<1>6. Known(Elems(rules), kind, prop, given, q, left, x)
  <2>1. IsStart(kind, prop, q, x) => q <= left
    <3> SUFFICES ASSUME IsStart(kind, prop, q, x), ~(q <= left) PROVE FALSE
      OBVIOUS
    <3>1. left < q
      OBVIOUS
    <3>2. \E e \in S : e.prop = x /\ e.state # "Unsubscribing" /\ e.req = q
      BY <1>1, <3>1 DEF Kept
    <3> QED
      BY <1>3, <3>2
  <2>2. \A e \in Elems(rules) : e.prop = x => e \in Elems(rules)
    OBVIOUS
  <2> QED
    BY <1>1, <2>1, <2>2, KnownOther
<1> QED
  BY <1>1, <1>4, <1>5, <1>6 DEF ClientGood, Nothing, S

LEMMA ReplyEnded ==
    ASSUME NEW subs \in Seq(Subs), NEW rules, NEW kind, NEW prop, NEW given,
           NEW client \in Nat, NEW left \in Nat, NEW n \in Nat, NEW q \in Nat, NEW x,
           Apart(kind, client, q), client < q, q <= n,
           ClientGood(kind, prop, given, client, left, n, subs, rules, x),
           NEW subs2, NEW rules2, Ended(subs, rules, q, subs2, rules2)
    PROVE  ClientGood(kind, prop, given, q, left, n, subs2, rules2, x)
<1> DEFINE S == Elems(subs)
           T == Elems(subs2)
<1>1. /\ Asked(S, kind, prop, given, client, n) /\ InOrder(subs)
      /\ Kept(S, kind, prop, given, client, left, n, x)
      /\ Known(Elems(rules), kind, prop, given, client, left, x)
  BY DEF ClientGood
<1>2. PICK i \in 1 .. Len(subs) :
        /\ subs[i].req = q /\ subs[i].state = "Unsubscribing"
        /\ subs2 = Drop(subs, i) /\ rules2 = rules
  BY DEF Ended
<1>3. \A j \in 1 .. Len(subs) : subs[j].req = q => j = i
  BY <1>1, <1>2, UniqueReq
<1>4. /\ S \in SUBSET Subs /\ \A j \in 1 .. Len(subs) : subs[j] \in S
      /\ \A e \in S : \E j \in 1 .. Len(subs) : e = subs[j]
  BY SubsElems
<1>5. /\ \A j \in 1 .. Len(subs) : j # i => subs[j] \in T
      /\ \A e \in T : \E j \in 1 .. Len(subs) : j # i /\ e = subs[j]
  BY <1>2, DropElems
<1>6. kind[q] = "end"
  BY <1>1, <1>2, <1>4 DEF Asked
<1>7. InOrder(subs2)
  BY <1>1, <1>2, InOrderDrop
<1> HIDE DEF S, T
<1>8. \A e \in T : e \in S /\ e.req # q
  BY <1>3, <1>4, <1>5
<1>9. Asked(T, kind, prop, given, q, n)
  BY <1>1, <1>4, <1>8, AskedTaken
<1>10. Kept(T, kind, prop, given, q, left, n, x)
  <2>1. \A e \in S : e.prop = x /\ e.state # "Unsubscribing" =>
            \E f \in T : f.prop = x /\ f.state # "Unsubscribing" /\ f.req = e.req
    BY <1>2, <1>4, <1>5
  <2>2. \A e \in T : e.prop = x /\ e.state # "Unsubscribing" =>
            \/ e \in S /\ e.req # q
            \/ /\ e.req = q /\ e.state = "Subscribed" /\ e.id = given[q]
               /\ \E f \in S : f.prop = x /\ f.state # "Unsubscribing" /\ f.req = q
    BY <1>8
  <2> QED
    BY <1>1, <1>4, <2>1, <2>2, KeptTaken
<1>11. Known(Elems(rules), kind, prop, given, q, left, x)
  <2>1. /\ ~IsStart(kind, prop, q, x)
        /\ \A e \in Elems(rules) : e.prop = x => e \in Elems(rules)
    BY <1>6 DEF IsStart
  <2> QED
    BY <1>1, <2>1, KnownOther
<1> QED
  BY <1>2, <1>7, <1>9, <1>10, <1>11 DEF ClientGood, T

LEMMA ReplyBegan ==
    ASSUME NEW subs \in Seq(Subs), NEW rules \in Seq(Rules), NEW kind, NEW prop, NEW given,
           NEW client \in Nat, NEW left \in Nat, NEW n \in Nat, NEW q \in Nat, NEW x,
           Apart(kind, client, q), client < q, q <= n, NEW id \in SubIds \cup {NoId},
           id # NoId => kind[q] = "start" /\ id = given[q],
           ClientGood(kind, prop, given, client, left, n, subs, rules, x),
           NEW subs2, NEW rules2, Began(subs, rules, q, id, subs2, rules2)
    PROVE  ClientGood(kind, prop, given, q, left, n, subs2, rules2, x)
<1> DEFINE S == Elems(subs)
           T == Elems(subs2)
<1>1. /\ Asked(S, kind, prop, given, client, n) /\ InOrder(subs)
      /\ Kept(S, kind, prop, given, client, left, n, x)
      /\ Known(Elems(rules), kind, prop, given, client, left, x)
  BY DEF ClientGood
<1>2. PICK i \in 1 .. Len(subs) :
        /\ subs[i].req = q /\ subs[i].state = "Subscribing" /\ id # NoId
        /\ subs2 = AsSubscribed(subs, i, id)
        /\ rules2 = RulesResult(rules, subs[i].prop, id)
  BY DEF Began
<1>3. \A j \in 1 .. Len(subs) : subs[j].req = q => j = i
  BY <1>1, <1>2, UniqueReq
<1>4. /\ S \in SUBSET Subs /\ \A j \in 1 .. Len(subs) : subs[j] \in S
      /\ \A e \in S : \E j \in 1 .. Len(subs) : e = subs[j]
  BY SubsElems
<1>5. /\ Len(subs2) = Len(subs)
      /\ subs2[i].prop = subs[i].prop /\ subs2[i].req = q
      /\ subs2[i].id = id /\ subs2[i].state = "Subscribed"
      /\ \A j \in 1 .. Len(subs) : j # i => subs2[j] = subs[j]
  BY <1>2, AsSubscribedIs
<1>6. kind[q] = "start" /\ id = given[q] /\ prop[q] = subs[i].prop
  BY <1>1, <1>2, <1>4 DEF Asked
<1>7. InOrder(subs2)
  BY <1>1, <1>2, <1>5, InOrderSame
<1>8. /\ \A j \in 1 .. Len(subs) : subs2[j] \in T
      /\ \A e \in T : \E j \in 1 .. Len(subs) : e = subs2[j]
  BY <1>5 DEF Elems
<1> HIDE DEF S, T
<1>9. \A e \in T : \/ e \in S /\ e.req # q
                   \/ /\ e.req = q /\ e.prop = subs[i].prop /\ e.state = "Subscribed"
                      /\ e.id = given[q]
  <2> TAKE e \in T
  <2>1. PICK j \in 1 .. Len(subs) : e = subs2[j]
    BY <1>8
  <2>2. CASE j = i
    BY <1>5, <1>6, <2>1, <2>2
  <2>3. CASE j # i
    BY <1>3, <1>4, <1>5, <2>1, <2>3
  <2> QED
    BY <2>2, <2>3
<1>10. Asked(T, kind, prop, given, q, n)
  <2>1. \A e \in T : \/ e \in S /\ (e.state = "Unsubscribing" => e.req # q)
                     \/ /\ e.req = q /\ prop[q] = e.prop /\ kind[q] = "start"
                        /\ e.state # "Unsubscribing" /\ e.id = given[q]
    BY <1>6, <1>9
  <2> QED
    BY <1>1, <1>4, <2>1, AskedTaken
<1>11. Kept(T, kind, prop, given, q, left, n, x)
  <2>1. \A e \in S : e.prop = x /\ e.state # "Unsubscribing" =>
            \E f \in T : f.prop = x /\ f.state # "Unsubscribing" /\ f.req = e.req
    <3> TAKE e \in S
    <3>1. PICK j \in 1 .. Len(subs) : e = subs[j]
      BY <1>4
    <3>2. CASE j = i
      BY <1>2, <1>5, <1>8, <3>1, <3>2
    <3>3. CASE j # i
      BY <1>5, <1>8, <3>1, <3>3
    <3> QED
      BY <3>2, <3>3
  <2>2. \A e \in T : e.prop = x /\ e.state # "Unsubscribing" =>
            \/ e \in S /\ e.req # q
            \/ /\ e.req = q /\ e.state = "Subscribed" /\ e.id = given[q]
               /\ \E f \in S : f.prop = x /\ f.state # "Unsubscribing" /\ f.req = q
    BY <1>2, <1>4, <1>9
  <2> QED
    BY <1>1, <1>4, <2>1, <2>2, KeptTaken
<1>12. Known(Elems(rules2), kind, prop, given, q, left, x)
  <2> DEFINE y == subs[i].prop
  <2>1. y \in Props
    BY <1>4 DEF Subs
  <2>2. /\ \E j \in 1 .. Len(rules2) : rules2[j] = [prop |-> y, id |-> id]
        /\ \A k \in 1 .. Len(rules) : rules[k].prop # y =>
            \E j \in 1 .. Len(rules2) : rules2[j] = rules[k]
    <3> DEFINE new == RulesResult(rules, y, id)
    <3>1. y = subs[i].prop /\ rules2 = new
      BY <1>2
    <3> HIDE DEF y
    <3>2. /\ id # NoId => \E j \in 1 .. Len(new) : new[j] = [prop |-> y, id |-> id]
          /\ \A k \in 1 .. Len(rules) : rules[k].prop # y =>
                \E j \in 1 .. Len(new) : new[j] = rules[k]
      BY <2>1, RulesResultIs
    <3> HIDE DEF new
    <3> QED
      BY <1>2, <3>1, <3>2
  <2> HIDE DEF y
  <2>3. CASE y = x
    <3>1. IsStart(kind, prop, q, x)
      BY <1>6, <2>3 DEF IsStart, y
    <3>2. [prop |-> x, id |-> given[q]] \in Elems(rules2)
      BY <1>6, <2>2, <2>3 DEF Elems
    <3> QED
      BY <3>1, <3>2, KnownNewest
  <2>4. CASE y # x
    <3>1. ~IsStart(kind, prop, q, x)
      BY <1>6, <2>4 DEF IsStart, y
    <3>2. \A e \in Elems(rules) : e.prop = x => e \in Elems(rules2)
      BY <2>2, <2>4 DEF Elems
    <3> QED
      BY <1>1, <3>1, <3>2, KnownOther
  <2> QED
    BY <2>3, <2>4
<1> QED
  BY <1>7, <1>10, <1>11, <1>12 DEF ClientGood, T

LEMMA HistoryReply ==
    ASSUME NEW d, NEW x, NEW n \in Nat, NEW last, NEW out, NEW in \in Seq(Messages),
           NEW hosts, NEW service, NEW facade, NEW subs \in Seq(Subs), NEW rules \in Seq(Rules),
           History(d, x, n, last, out, in, hosts, service, facade, subs, rules),
           in # <<>>, Head(in).command = "reply",
           NEW subs2, NEW rules2, Replied(subs, rules, Head(in), subs2, rules2)
    PROVE  History(d, x, n, last, out, Tail(in), hosts, service, facade, subs2, rules2)
<1>1. PICK kind \in Kinds, prop \in [Nat -> Props], given \in [Nat -> Nat],
           match \in [Nat -> Nat], host \in Nat, client \in Nat, gone \in Nat, left \in Nat :
        Fits(kind, prop, given, match, host, client, gone, left,
             d, x, n, last, out, in, hosts, service, facade, subs, rules)
  BY DEF History
<1>2. /\ Sizes(host, client, gone, left, n)
      /\ LinesGood(kind, prop, given, host, client, n, last, out, in)
      /\ HostGood(kind, prop, given, gone, host, hosts, service, facade, d, x)
      /\ ClientGood(kind, prop, given, client, left, n, subs, rules, x)
      /\ EndsGood(kind, prop, match, gone, left, host, n, hosts, x)
  BY <1>1 DEF Fits
<1> DEFINE m == Head(in)
           q == Head(in).req
<1>3. Answers(kind, prop, given, host, client, n, last, out, in, q, m)
  BY <1>2, LinesAnswered
<1>4. Replied(subs, rules, m, subs2, rules2)
  OBVIOUS
<1> HIDE DEF m, q
<1>5. /\ LinesGood(kind, prop, given, host, q, n, last, out, Tail(in))
      /\ q \in Nat /\ m \in Messages /\ q <= host /\ client < q /\ Apart(kind, client, q)
      /\ m.id # NoId => kind[q] = "start" /\ m.id = given[q]
  BY <1>3 DEF Answers
<1>6. m.id \in SubIds \cup {NoId}
  BY <1>5, Fields
<1>7. host <= n /\ gone <= host /\ gone <= left /\ left <= n
  BY <1>2, SizesAre
<1>8. q <= n
  BY <1>5, <1>7
<1>9. \/ Nothing(subs, rules, q, subs2, rules2)
      \/ Ended(subs, rules, q, subs2, rules2)
      \/ Began(subs, rules, q, m.id, subs2, rules2)
  <2>1. Asked(Elems(subs), kind, prop, given, client, n) /\ InOrder(subs)
    BY <1>2 DEF ClientGood
  <2> QED
    BY <1>3, <1>4, <1>5, <2>1, ReplyCases
<1>10. ClientGood(kind, prop, given, q, left, n, subs2, rules2, x)
  <2>1. CASE Nothing(subs, rules, q, subs2, rules2)
    BY <1>2, <1>5, <1>8, <2>1, ReplyNothing
  <2>2. CASE Ended(subs, rules, q, subs2, rules2)
    BY <1>2, <1>5, <1>8, <2>2, ReplyEnded
  <2>3. CASE Began(subs, rules, q, m.id, subs2, rules2)
    BY <1>2, <1>5, <1>6, <1>8, <2>3, ReplyBegan
  <2> QED
    BY <1>9, <2>1, <2>2, <2>3
<1>11. Sizes(host, q, gone, left, n)
  BY <1>5, <1>7 DEF Sizes
<1>12. Fits(kind, prop, given, match, host, q, gone, left, d, x, n, last, out, Tail(in),
            hosts, service, facade, subs2, rules2)
  BY <1>2, <1>5, <1>10, <1>11 DEF Fits
<1> QED
  BY <1>5, <1>12, HistoryFrom

\* The host has ended a subscription to y: the client drops its first one.
LEMMA MatchedMore ==
    ASSUME NEW kind, NEW prop, NEW match \in [Nat -> Nat], NEW gone \in Nat, NEW left \in Nat,
           NEW q \in Nat, NEW host, NEW n, NEW x, left <= q,
           Matched(kind, prop, match, gone, left, host, n, x)
    PROVE  Matched(kind, prop, match, gone, q, host, n, x)
<1>1. ASSUME NEW r \in Nat, match[r] <= left PROVE match[r] <= q
  <2> DEFINE k == match[r]
  <2>1. k \in Nat /\ k <= left
    BY <1>1
  <2> HIDE DEF k
  <2>2. k <= q
    BY <2>1
  <2> QED
    BY <2>2 DEF k
<1> QED
  BY <1>1 DEF Matched

LEMMA KeptDropped ==
    ASSUME NEW l \in Seq(Subs), NEW T, NEW i \in 1 .. Len(l), NEW kind, NEW prop, NEW given,
           NEW client, NEW left, NEW n, NEW x,
           Kept(Elems(l), kind, prop, given, client, left, n, x),
           l[i].prop # x \/ l[i].state = "Unsubscribing",
           \A j \in 1 .. Len(l) : j # i => l[j] \in T,
           T \subseteq Elems(l)
    PROVE  Kept(T, kind, prop, given, client, left, n, x)
<1>1. \A e \in Elems(l) : e.prop = x /\ e.state # "Unsubscribing" => e \in T
  <2> TAKE e \in Elems(l)
  <2>1. PICK j \in 1 .. Len(l) : e = l[j]
    BY DEF Elems
  <2> QED
    BY <2>1
<1>2. \A e \in T : e \in Elems(l)
  OBVIOUS
<1> HIDE DEF Elems
<1> QED
  BY <1>1, <1>2, Zenon DEF Kept

LEMMA AskedSome ==
    ASSUME NEW S, NEW T, T \subseteq S, NEW kind, NEW prop, NEW given, NEW client, NEW n,
           Asked(S, kind, prop, given, client, n)
    PROVE  Asked(T, kind, prop, given, client, n)
BY DEF Asked

LEMMA HistoryLost ==
    ASSUME NEW d, NEW x, NEW n \in Nat, NEW last, NEW out, NEW in, NEW hosts, hosts # {},
           NEW service, NEW facade, NEW subs \in Seq(Subs), NEW rules, NEW y,
           History(d, x, n, last, out, in, hosts, service, facade, subs, rules)
    PROVE  History(d, x, n, last, out, in, hosts, service, facade,
                   Drop(subs, First(Of(subs, y))), rules)
<1> DEFINE i == First(Of(subs, y))
           new == Drop(subs, i)
<1>1. PICK kind \in Kinds, prop \in [Nat -> Props], given \in [Nat -> Nat],
           match \in [Nat -> Nat], host \in Nat, client \in Nat, gone \in Nat, left \in Nat :
        Fits(kind, prop, given, match, host, client, gone, left,
             d, x, n, last, out, in, hosts, service, facade, subs, rules)
  BY DEF History
<1>2. /\ Sizes(host, client, gone, left, n)
      /\ LinesGood(kind, prop, given, host, client, n, last, out, in)
      /\ HostGood(kind, prop, given, gone, host, hosts, service, facade, d, x)
      /\ ClientGood(kind, prop, given, client, left, n, subs, rules, x)
      /\ EndsGood(kind, prop, match, gone, left, host, n, hosts, x)
  BY <1>1 DEF Fits
<1>3. /\ Asked(Elems(subs), kind, prop, given, client, n) /\ InOrder(subs)
      /\ Kept(Elems(subs), kind, prop, given, client, left, n, x)
      /\ Known(Elems(rules), kind, prop, given, client, left, x)
      /\ Matched(kind, prop, match, gone, left, host, n, x)
  BY <1>2 DEF ClientGood, EndsGood
<1>4. /\ i \in 0 .. Len(subs) /\ Len(subs) \in Nat
      /\ i # 0 => i \in 1 .. Len(subs) /\ subs[i].prop = y
      /\ \A j \in 1 .. Len(subs) : subs[j].prop = y => i # 0 /\ i <= j
  BY FirstOfIs
<1>5. CASE i = 0
  <2>1. new = subs
    BY <1>5, DropNone
  <2> QED
    BY <2>1
<1>6. CASE i # 0
  <2>1. i \in 1 .. Len(subs)
    BY <1>4, <1>6
  <2> HIDE DEF i
  <2>2. /\ \A j \in 1 .. Len(subs) : j # i => subs[j] \in Elems(new)
        /\ \A e \in Elems(new) : \E j \in 1 .. Len(subs) : j # i /\ e = subs[j]
    BY <2>1, DropElems
  <2>3. InOrder(new)
    BY <1>3, <2>1, InOrderDrop
  <2> HIDE DEF new
  <2>4. Elems(new) \subseteq Elems(subs)
    BY <2>2 DEF Elems
  <2>5. Asked(Elems(new), kind, prop, given, client, n)
    BY <1>3, <2>4, AskedSome
  <2>6. CASE subs[i].prop # x \/ subs[i].state = "Unsubscribing"
    <3>1. Kept(Elems(new), kind, prop, given, client, left, n, x)
      BY <1>3, <2>1, <2>2, <2>4, <2>6, KeptDropped
    <3>2. ClientGood(kind, prop, given, client, left, n, new, rules, x)
      BY <1>3, <2>3, <2>5, <3>1 DEF ClientGood
    <3>3. Fits(kind, prop, given, match, host, client, gone, left,
               d, x, n, last, out, in, hosts, service, facade, new, rules)
      BY <1>2, <3>2 DEF Fits
    <3>4. History(d, x, n, last, out, in, hosts, service, facade, new, rules)
      BY <3>3, HistoryFrom
    <3> QED
      BY <3>4 DEF new, i
  <2>7. CASE subs[i].prop = x /\ subs[i].state # "Unsubscribing"
    <3> DEFINE q == subs[i].req
    <3>1. Without(subs, i, Elems(new), x)
      BY <2>2 DEF Without
    <3>2. FirstPlace(subs, i, x)
      BY <1>4, <1>6, <2>7 DEF FirstPlace
    <3>3. NoNewStart(kind, prop, n, kind, prop, n, q, x)
      BY DEF NoNewStart
    <3>4. subs[i].req = q
      OBVIOUS
    <3>5. q <= n
      <4>1. subs[i] \in Elems(subs)
        BY <2>1, SubsElems
      <4> QED
        BY <1>3, <4>1 DEF Asked
    <3> HIDE DEF q
    <3>6. /\ Kept(Elems(new), kind, prop, given, client, q, n, x)
          /\ left < q /\ q \in Nat
      BY <1>3, <2>1, <2>7, <3>1, <3>2, <3>3, <3>4, KeptLess
    <3>7. left <= q
      BY <3>6
    <3>8. Known(Elems(rules), kind, prop, given, client, q, x)
      BY <1>3, <3>6, <3>7, KnownLess
    <3>9. ClientGood(kind, prop, given, client, q, n, new, rules, x)
      BY <2>3, <2>5, <3>6, <3>8 DEF ClientGood
    <3>10. EndsGood(kind, prop, match, gone, q, host, n, hosts, x)
      <4>1. Matched(kind, prop, match, gone, q, host, n, x)
        BY <1>3, <3>6, <3>7, MatchedMore
      <4> QED
        BY <4>1 DEF EndsGood
    <3>11. Sizes(host, client, gone, q, n)
      <4>1. client <= host /\ host <= n /\ gone <= host /\ gone <= left
        BY <1>2 DEF Sizes
      <4>2. gone <= q
        BY <3>6, <4>1
      <4> QED
        BY <3>5, <4>1, <4>2 DEF Sizes
    <3>12. Fits(kind, prop, given, match, host, client, gone, q,
                d, x, n, last, out, in, hosts, service, facade, new, rules)
      BY <1>2, <3>9, <3>10, <3>11 DEF Fits
    <3>13. History(d, x, n, last, out, in, hosts, service, facade, new, rules)
      BY <3>6, <3>12, HistoryFrom
    <3> QED
      BY <3>13 DEF new, i
  <2> QED
    BY <2>6, <2>7
<1> QED
  BY <1>5, <1>6

-----------------------------------------------------------------------------
\* The counter counts the requests.
Counted == \A d \in Devices : counter[d] = sent[d]
Grows == \A d \in Devices : counter[d] <= counter'[d]

LEMMA CountersAre ==
    ASSUME TypeOK
    PROVE  \A d \in Devices : counter[d] \in Nat /\ sent[d] \in Nat /\ sent[d] <= MaxRequests
<1>1. counter \in [Devices -> 0 .. NumIds - 1] /\ sent \in [Devices -> 0 .. MaxRequests]
  BY TypesAre
<1>2. NumIds \in Nat /\ MaxRequests \in Nat
  BY Numbers
<1> QED
  BY <1>1, <1>2

LEMMA SendCounted ==
    ASSUME TypeOK, FewRequests, Counted, NEW d \in Devices, NEW p \in Devices, NEW x \in Props,
           NEW command \in {"start", "end", "reply", "none"},
           SendRequest(d, p, command, x, NoId)
    PROVE  NextRequestId(d) = counter[d] + 1 /\ counter'[d] = counter[d] + 1 /\ Counted' /\ Grows
<1>1. /\ sent' \in [Devices -> 0 .. MaxRequests]
      /\ counter'[d] = NextRequestId(d) /\ sent'[d] = sent[d] + 1
      /\ \A e \in Devices : e # d => counter'[e] = counter[e] /\ sent'[e] = sent[e]
  BY SendIs
<1>2. \A e \in Devices : counter[e] \in Nat /\ sent[e] \in Nat /\ counter[e] = sent[e]
  BY CountersAre DEF Counted
<1>3. NextRequestId(d) = counter[d] + 1
  <2> DEFINE n == counter[d] + 1
  <2>1. n \in Nat
    BY <1>2
  <2>2. n < NumIds
    <3>1. n \in 0 .. MaxRequests
      BY <1>1, <1>2
    <3>2. MaxRequests \in Nat /\ NumIds \in Nat
      BY Numbers
    <3> HIDE DEF n
    <3> QED
      BY <2>1, <3>1, <3>2 DEF FewRequests
  <2> HIDE DEF n
  <2>3. n % NumIds = n
    BY <2>1, <2>2, Modulo
  <2> QED
    BY <2>3 DEF n, NextRequestId
<1>4. Counted'
  BY <1>1, <1>2, <1>3 DEF Counted
<1>5. Grows
  <2>1. ASSUME NEW e \in Devices PROVE counter[e] <= counter'[e]
    <3> DEFINE n == counter[e]
    <3>1. n \in Nat /\ (counter'[e] = n \/ counter'[e] = n + 1)
      BY <1>1, <1>2, <1>3
    <3> HIDE DEF n
    <3>2. n <= counter'[e]
      BY <3>1
    <3> QED
      BY <3>2 DEF n
  <2> QED
    BY <2>1 DEF Grows
<1> QED
  BY <1>1, <1>3, <1>4, <1>5

LEMMA CountCounted ==
    ASSUME TypeOK, FewRequests, Counted, NEW d \in Devices,
           \E n \in Nat : /\ sent[d] + n <= MaxRequests
                          /\ sent' = [sent EXCEPT ![d] = @ + n]
                          /\ counter' = [counter EXCEPT ![d] = (@ + n) % NumIds]
    PROVE  Counted' /\ Grows
<1>1. PICK n \in Nat : /\ sent[d] + n <= MaxRequests
                       /\ sent' = [sent EXCEPT ![d] = @ + n]
                       /\ counter' = [counter EXCEPT ![d] = (@ + n) % NumIds]
  OBVIOUS
<1>2. /\ sent'[d] = sent[d] + n /\ counter'[d] = (counter[d] + n) % NumIds
      /\ \A e \in Devices : e # d => counter'[e] = counter[e] /\ sent'[e] = sent[e]
  BY <1>1, CountIs
<1>3. \A e \in Devices : counter[e] \in Nat /\ sent[e] \in Nat /\ counter[e] = sent[e]
  BY CountersAre DEF Counted
<1>4. (counter[d] + n) % NumIds = counter[d] + n
  <2> DEFINE k == counter[d] + n
  <2>1. k \in Nat /\ k <= MaxRequests
    BY <1>1, <1>3
  <2>2. MaxRequests \in Nat /\ NumIds \in Nat
    BY Numbers
  <2> HIDE DEF k
  <2>3. k < NumIds
    BY <2>1, <2>2 DEF FewRequests
  <2>4. k % NumIds = k
    BY <2>1, <2>3, Modulo
  <2> QED
    BY <2>4 DEF k
<1>5. Counted'
  BY <1>2, <1>3, <1>4 DEF Counted
<1>6. Grows
  <2>1. ASSUME NEW e \in Devices PROVE counter[e] <= counter'[e]
    <3> DEFINE k == counter[e]
    <3>1. k \in Nat /\ (counter'[e] = k \/ counter'[e] = k + n)
      BY <1>2, <1>3, <1>4
    <3> HIDE DEF k
    <3>2. k <= counter'[e]
      BY <3>1
    <3> QED
      BY <3>2 DEF k
  <2> QED
    BY <2>1 DEF Grows
<1> QED
  BY <1>5, <1>6

LEMMA SameCounted ==
    ASSUME TypeOK, Counted, UNCHANGED <<counter, sent>>
    PROVE  Counted' /\ Grows
<1>1. \A d \in Devices : counter[d] \in Nat
  BY CountersAre
<1>2. \A d \in Devices : counter[d] <= counter'[d]
  <2> TAKE d \in Devices
  <2> DEFINE n == counter[d]
  <2>1. n \in Nat /\ counter'[d] = n
    BY <1>1
  <2> HIDE DEF n
  <2>2. n <= counter'[d]
    BY <2>1
  <2> QED
    BY <2>2 DEF n
<1> QED
  BY <1>2 DEF Counted, Grows

LEMMA CountedStep ==
    ASSUME TypeOK, FewRequests, Counted, [Next]_vars
    PROVE  Counted' /\ Grows
<1>1. CASE UNCHANGED vars
  BY <1>1, SameCounted DEF vars
<1>2. ASSUME NEW d \in Devices, NEW x \in Props, RemoveProperty(d, x) PROVE Counted' /\ Grows
  BY <1>2, SameCounted, RemovePropertyIs
<1>3. ASSUME NEW d \in Devices, NEW x \in Props, SetProperty(d, x) PROVE Counted' /\ Grows
  BY <1>3, CountCounted, SetPropertyIs
<1>4. ASSUME NEW d \in Devices, NEW p \in Devices, NEW x \in Props, Subscribe(d, p, x)
      PROVE  Counted' /\ Grows
  BY <1>4, SendCounted DEF Subscribe
<1>5. ASSUME NEW d \in Devices, NEW p \in Devices, NEW x \in Props, Unsubscribe(d, p, x)
      PROVE  Counted' /\ Grows
  <2>1. SendRequest(d, p, "end", x, NoId)
    BY <1>5, UnsubscribeIs DEF TakesBack
  <2> QED
    BY <2>1, SendCounted
<1>6. ASSUME NEW d \in Devices, NEW p \in Devices, NEW x \in Props, Shutdown(d, p, x)
      PROVE  Counted' /\ Grows
  <2>1. PICK command \in {"end", "none"} : SendRequest(d, p, command, x, NoId)
    BY <1>6, ShutdownIs
  <2>2. command \in {"start", "end", "reply", "none"}
    OBVIOUS
  <2> QED
    BY <2>1, <2>2, SendCounted
<1>7. ASSUME NEW d \in Devices, Terminate(d) PROVE Counted' /\ Grows
  BY <1>7, CountCounted, TerminateIs
<1>8. ASSUME NEW d \in Devices, NEW p \in Devices, Receive(d, p) PROVE Counted' /\ Grows
  BY <1>8, SameCounted, ReceiveIs
<1>9. CASE Next
  <2>1. PICK d \in Devices :
            \/ \E x \in Props : RemoveProperty(d, x) \/ SetProperty(d, x)
            \/ \E p \in Devices, x \in Props :
                Subscribe(d, p, x) \/ Unsubscribe(d, p, x) \/ Shutdown(d, p, x)
            \/ Terminate(d)
            \/ \E p \in Devices : Receive(d, p)
    BY <1>9, NextIs
  <2> QED
    BY <1>2, <1>3, <1>4, <1>5, <1>6, <1>7, <1>8, <2>1
<1> QED
  BY <1>1, <1>9

-----------------------------------------------------------------------------
\* The ids of a service's list rise, and the last one given is the highest.

IdsUpTo(l, last) == Ascending(l) /\ \A e \in Elems(l) : e.id <= last
Issued == \A p \in Devices : IdsUpTo(serviceSubs[p], lastId)

LEMMA IdsMore ==
    ASSUME NEW l \in Seq(Served), NEW last \in Nat, IdsUpTo(l, last)
    PROVE  IdsUpTo(l, last + 1)
<1>1. ASSUME NEW e \in Elems(l) PROVE e.id <= last + 1
  <2> DEFINE n == e.id
  <2>1. e \in Served
    BY DEF Elems
  <2>2. n \in Nat
    BY <2>1, Numbers DEF Served
  <2>3. n <= last
    BY DEF IdsUpTo
  <2> HIDE DEF n
  <2>4. n <= last + 1
    BY <2>2, <2>3
  <2> QED
    BY <2>4 DEF n
<1> QED
  BY <1>1 DEF IdsUpTo

LEMMA IdsAppend ==
    ASSUME NEW l \in Seq(Served), NEW last \in Nat, IdsUpTo(l, last), NEW e \in Served,
           e.id = last + 1
    PROVE  IdsUpTo(Append(l, e), last + 1)
<1>1. Elems(Append(l, e)) = Elems(l) \cup {e}
  BY ElemsAppend
<1>2. ASSUME NEW f \in Elems(l) PROVE f.id < e.id
  <2> DEFINE n == f.id
  <2>1. f \in Served
    BY DEF Elems
  <2>2. n \in Nat
    BY <2>1, Numbers DEF Served
  <2>3. n <= last
    BY DEF IdsUpTo
  <2> HIDE DEF n
  <2>4. n < last + 1
    BY <2>2, <2>3
  <2> QED
    BY <2>4 DEF n
<1>3. Ascending(Append(l, e))
  BY <1>2, AppendAscending DEF IdsUpTo
<1>4. \A f \in Elems(l) : f.id <= last + 1
  BY IdsMore DEF IdsUpTo
<1>5. last + 1 <= last + 1
  OBVIOUS
<1> QED
  BY <1>1, <1>3, <1>4, <1>5 DEF IdsUpTo

LEMMA IdsDrop ==
    ASSUME NEW l \in Seq(Served), NEW last, IdsUpTo(l, last), NEW i \in 0 .. Len(l)
    PROVE  IdsUpTo(Drop(l, i), last)
<1>1. Elems(Drop(l, i)) \subseteq Elems(l)
  BY ElemsDrop
<1>2. Ascending(Drop(l, i))
  <2>1. CASE i = 0
    BY <2>1, DropNone DEF IdsUpTo
  <2>2. CASE i # 0
    <3>1. i \in 1 .. Len(l)
      BY <2>2, LenProperties
    <3> QED
      BY <3>1, DropDistinct DEF IdsUpTo
  <2> QED
    BY <2>1, <2>2
<1> QED
  BY <1>1, <1>2 DEF IdsUpTo

LEMMA IssuedReceive ==
    ASSUME TypeOK, Issued, NEW d \in Devices, NEW p \in Devices, Receive(d, p)
    PROVE  Issued' /\ lastId <= lastId'
<1> DEFINE m == Head(wire[p][d])
           w == Taken(d, p)
<1>1. /\ m \in Messages /\ w \in Lines
      /\ \/ HostStart(d, p, m, w)
         \/ ClientEnd(d, p, m, w)
         \/ HostEnd(d, p, m, w)
         \/ ClientReply(d, p, m, w)
         \/ wire' = w /\ UNCHANGED <<clientVars, hostVars, rejected>>
         \/ Reject(d, p, m, w)
  BY ReceiveIs
<1>2. lastId \in Nat /\ \A q \in Devices : serviceSubs[q] \in Seq(Served)
  BY TypesAre
<1> HIDE DEF m, w
<1>3. CASE UNCHANGED <<serviceSubs, lastId>>
  BY <1>2, <1>3 DEF Issued
<1>4. CASE HostStart(d, p, m, w)
  <2> DEFINE e == [muid |-> p, prop |-> m.prop, id |-> lastId + 1]
  <2>1. /\ lastId' = lastId + 1 /\ e \in Served
        /\ serviceSubs'[d] = Append(serviceSubs[d], e)
        /\ \A g \in Devices : g # d => serviceSubs'[g] = serviceSubs[g]
    BY <1>1, <1>4, HostStartIs
  <2>2. e.id = lastId + 1
    OBVIOUS
  <2> HIDE DEF e
  <2>3. ASSUME NEW g \in Devices PROVE IdsUpTo(serviceSubs'[g], lastId + 1)
    <3>1. IdsUpTo(serviceSubs[g], lastId)
      BY DEF Issued
    <3>2. CASE g = d
      BY <1>2, <2>1, <2>2, <3>1, <3>2, IdsAppend
    <3>3. CASE g # d
      BY <1>2, <2>1, <3>1, <3>3, IdsMore
    <3> QED
      BY <3>2, <3>3
  <2> QED
    BY <1>2, <2>1, <2>3 DEF Issued
<1>5. CASE HostEnd(d, p, m, w)
  <2>1. /\ serviceSubs'[d] = Drop(serviceSubs[d], Unsubscribed(d, m))
        /\ \A g \in Devices : g # d => serviceSubs'[g] = serviceSubs[g]
        /\ UNCHANGED lastId
    BY <1>1, <1>5, HostEndIs
  <2>2. Unsubscribed(d, m) \in 0 .. Len(serviceSubs[d])
    BY <1>1, UnsubscribedIs
  <2>3. ASSUME NEW g \in Devices PROVE IdsUpTo(serviceSubs'[g], lastId)
    <3>1. IdsUpTo(serviceSubs[g], lastId)
      BY DEF Issued
    <3>2. CASE g = d
      BY <1>2, <2>1, <2>2, <3>1, <3>2, IdsDrop
    <3>3. CASE g # d
      BY <2>1, <3>1, <3>3
    <3> QED
      BY <3>2, <3>3
  <2> QED
    BY <1>2, <2>1, <2>3 DEF Issued
<1>6. CASE ClientEnd(d, p, m, w)
  BY <1>1, <1>3, <1>6, ClientEndIs
<1>7. CASE ClientReply(d, p, m, w)
  BY <1>1, <1>3, <1>7, ClientReplyIs
<1>8. CASE wire' = w /\ UNCHANGED <<clientVars, hostVars, rejected>>
  BY <1>3, <1>8 DEF hostVars
<1>9. CASE Reject(d, p, m, w)
  BY <1>3, <1>9 DEF Reject, hostVars
<1> QED
  BY <1>1, <1>4, <1>5, <1>6, <1>7, <1>8, <1>9

LEMMA IssuedStep ==
    ASSUME TypeOK, Issued, [Next]_vars
    PROVE  Issued' /\ lastId <= lastId'
<1>1. CASE UNCHANGED <<serviceSubs, lastId>>
  <2>1. lastId \in Nat
    BY TypesAre
  <2> QED
    BY <1>1, <2>1 DEF Issued
<1>2. CASE UNCHANGED vars
  BY <1>1, <1>2 DEF vars
<1>3. ASSUME NEW d \in Devices, NEW x \in Props, RemoveProperty(d, x) \/ SetProperty(d, x)
      PROVE  UNCHANGED <<serviceSubs, lastId>>
  BY <1>3, RemovePropertyIs, SetPropertyIs
<1>4. ASSUME NEW d \in Devices, NEW p \in Devices, NEW x \in Props,
             Subscribe(d, p, x) \/ Unsubscribe(d, p, x) \/ Shutdown(d, p, x)
      PROVE  UNCHANGED <<serviceSubs, lastId>>
  BY <1>4, UnsubscribeIs, ShutdownIs DEF Subscribe, TakesBack
<1>5. ASSUME NEW d \in Devices, Terminate(d) PROVE UNCHANGED <<serviceSubs, lastId>>
  BY <1>5, TerminateIs
<1>6. CASE Next
  <2>1. PICK d \in Devices :
            \/ \E x \in Props : RemoveProperty(d, x) \/ SetProperty(d, x)
            \/ \E p \in Devices, x \in Props :
                Subscribe(d, p, x) \/ Unsubscribe(d, p, x) \/ Shutdown(d, p, x)
            \/ Terminate(d)
            \/ \E p \in Devices : Receive(d, p)
    BY <1>6, NextIs
  <2> QED
    BY <1>1, <1>3, <1>4, <1>5, <2>1, IssuedReceive
<1> QED
  BY <1>2, <1>6

-----------------------------------------------------------------------------
(* Every subscription that is used has a history that explains it.         *)

Explained(d, p, x) ==
    History(d, x, counter[d], lastId, wire[d][p], wire[p][d], scenario.hosts,
            serviceSubs[p], facadeSubs[p], clientSubs[d][p], ruleSubs[d][p])
AllExplained ==
    \A d, p \in Devices, x \in Props : Used(scenario, d, p, x) => Explained(d, p, x)

\* b is a with messages more, none of them of a command in cs.
More(a, b, cs) ==
    \E m \in Seq(Messages) : b = a \o m /\ \A e \in Elems(m) : e.command \notin cs

LEMMA MoreSame ==
    ASSUME NEW a \in Seq(Messages), NEW cs
    PROVE  More(a, a, cs)
<1> DEFINE none == <<>>
<1>1. none \in Seq(Messages) /\ a \o none = a
  BY ConcatEmptySeq
<1>2. \A e \in Elems(none) : e.command \notin cs
  BY DEF Elems
<1> HIDE DEF none
<1> QED
  BY <1>1, <1>2 DEF More

LEMMA MoreOne ==
    ASSUME NEW a \in Seq(Messages), NEW cs, NEW m \in Messages, m.command \notin cs
    PROVE  More(a, Append(a, m), cs)
<1> DEFINE one == <<m>>
<1>1. one \in Seq(Messages) /\ Append(a, m) = a \o one
  BY AppendIs, OneIs
<1>2. \A e \in Elems(one) : e.command \notin cs
  <2>1. \A i \in 1 .. Len(one) : one[i] = m
    OBVIOUS
  <2> QED
    BY <2>1 DEF Elems
<1> HIDE DEF one
<1> QED
  BY <1>1, <1>2 DEF More

\* What a list says of x, and of d and x.
SameTopic(service, service2, x) ==
    /\ \A e \in Elems(service) : e.prop = x => e \in Elems(service2)
    /\ \A e \in Elems(service2) : e.prop = x => e \in Elems(service)
NotAdded(facade, facade2, d, x) ==
    [muid |-> d, prop |-> x] \in Elems(facade2) => [muid |-> d, prop |-> x] \in Elems(facade)

LEMMA HistoryAside ==
    ASSUME NEW d, NEW x, NEW n \in Nat, NEW last \in Nat, NEW out \in Seq(Messages),
           NEW in \in Seq(Messages), NEW hosts, NEW service, NEW facade,
           NEW subs \in Seq(Subs), NEW rules,
           History(d, x, n, last, out, in, hosts, service, facade, subs, rules),
           NEW top \in Nat, NEW last2 \in Nat, n <= top, last <= last2,
           NEW out2, More(out, out2, Ask), NEW in2, More(in, in2, {"reply"}),
           NEW service2, SameTopic(service, service2, x),
           NEW facade2, NotAdded(facade, facade2, d, x)
    PROVE  History(d, x, top, last2, out2, in2, hosts, service2, facade2, subs, rules)
<1>1. PICK a \in Seq(Messages) : out2 = out \o a /\ \A e \in Elems(a) : e.command \notin Ask
  BY DEF More
<1>2. PICK b \in Seq(Messages) : in2 = in \o b /\ \A e \in Elems(b) : e.command \notin {"reply"}
  BY DEF More
<1>3. History(d, x, top, last2, out, in, hosts, service, facade, subs, rules)
  BY HistoryCount
<1>4. History(d, x, top, last2, out2, in, hosts, service, facade, subs, rules)
  <2>1. \A m \in Elems(a) : m.command \notin Ask
    BY <1>1
  <2>2. History(d, x, top, last2, out \o a, in, hosts, service, facade, subs, rules)
    BY <1>3, <2>1, HistoryOut
  <2> QED
    BY <1>1, <2>2
<1>5. History(d, x, top, last2, out2, in2, hosts, service, facade, subs, rules)
  <2>1. \A m \in Elems(b) : m.command # "reply"
    BY <1>2
  <2>2. History(d, x, top, last2, out2, in \o b, hosts, service, facade, subs, rules)
    BY <1>4, <2>1, HistoryIn
  <2> QED
    BY <1>2, <2>2
<1> QED
  BY <1>5, HistoryHost DEF SameTopic, NotAdded

\* A step that is not about x of p and d.
Aside(d, p, x) ==
    /\ counter[d] <= counter'[d] /\ lastId <= lastId'
    /\ More(wire[d][p], wire'[d][p], Ask) /\ More(wire[p][d], wire'[p][d], {"reply"})
    /\ clientSubs'[d][p] = clientSubs[d][p] /\ ruleSubs'[d][p] = ruleSubs[d][p]
    /\ SameTopic(serviceSubs[p], serviceSubs'[p], x)
    /\ NotAdded(facadeSubs[p], facadeSubs'[p], d, x)

LEMMA ListsAre ==
    ASSUME TypeOK, NEW d \in Devices, NEW p \in Devices
    PROVE  /\ counter[d] \in Nat /\ lastId \in Nat
           /\ wire[d][p] \in Seq(Messages) /\ wire[p][d] \in Seq(Messages)
           /\ serviceSubs[p] \in Seq(Served) /\ facadeSubs[p] \in Seq(Shown)
           /\ clientSubs[d][p] \in Seq(Subs) /\ ruleSubs[d][p] \in Seq(Rules)
<1>1. counter[d] \in Nat
  BY CountersAre
<1>2. wire \in Lines
  BY TypesAre
<1>3. wire[d][p] \in Seq(Messages) /\ wire[p][d] \in Seq(Messages)
  BY <1>2 DEF Lines
<1> QED
  BY <1>1, <1>3, TypesAre

LEMMA NextListsAre ==
    ASSUME TypeOK', NEW d \in Devices
    PROVE  counter'[d] \in Nat /\ lastId' \in Nat
<1>1. counter' \in [Devices -> 0 .. NumIds - 1] /\ lastId' \in Nat
  BY NextTypesAre
<1> QED
  BY <1>1, Numbers

LEMMA AsideExplained ==
    ASSUME TypeOK, TypeOK', UNCHANGED scenario, NEW d \in Devices, NEW p \in Devices, NEW x,
           Explained(d, p, x), Aside(d, p, x)
    PROVE  Explained(d, p, x)'
<1>1. /\ counter[d] \in Nat /\ lastId \in Nat
      /\ wire[d][p] \in Seq(Messages) /\ wire[p][d] \in Seq(Messages)
      /\ clientSubs[d][p] \in Seq(Subs)
  BY ListsAre
<1>2. counter'[d] \in Nat /\ lastId' \in Nat
  BY NextListsAre
<1>3. History(d, x, counter[d], lastId, wire[d][p], wire[p][d], scenario.hosts,
              serviceSubs[p], facadeSubs[p], clientSubs[d][p], ruleSubs[d][p])
  BY DEF Explained
<1>4. /\ counter[d] <= counter'[d] /\ lastId <= lastId'
      /\ More(wire[d][p], wire'[d][p], Ask) /\ More(wire[p][d], wire'[p][d], {"reply"})
      /\ SameTopic(serviceSubs[p], serviceSubs'[p], x)
      /\ NotAdded(facadeSubs[p], facadeSubs'[p], d, x)
  BY DEF Aside
<1>5. History(d, x, counter'[d], lastId', wire'[d][p], wire'[p][d], scenario.hosts,
              serviceSubs'[p], facadeSubs'[p], clientSubs[d][p], ruleSubs[d][p])
  BY <1>1, <1>2, <1>3, <1>4, HistoryAside
<1>6. clientSubs'[d][p] = clientSubs[d][p] /\ ruleSubs'[d][p] = ruleSubs[d][p]
  BY DEF Aside
<1> QED
  BY <1>5, <1>6 DEF Explained

LEMMA TopicSame ==
    ASSUME NEW l, NEW x
    PROVE  SameTopic(l, l, x)
  BY DEF SameTopic

LEMMA NoneAdded ==
    ASSUME NEW l, NEW new, NEW d, NEW x, Elems(new) \subseteq Elems(l)
    PROVE  NotAdded(l, new, d, x)
  BY DEF NotAdded

\* A request of another device, or to another.
LEMMA SendAside ==
    ASSUME TypeOK, FewRequests, Counted, NEW e \in Devices, NEW f \in Devices, NEW y \in Props,
           NEW command \in {"start", "end", "none"}, SendRequest(e, f, command, y, NoId),
           NEW d \in Devices, NEW p \in Devices, e # d \/ f # p
    PROVE  /\ counter[d] <= counter'[d]
           /\ More(wire[d][p], wire'[d][p], Ask) /\ More(wire[p][d], wire'[p][d], {"reply"})
<1> DEFINE m == Message(command, y, NoId, NextRequestId(e))
<1>1. command \in {"start", "end", "reply", "none"}
  OBVIOUS
<1>2. /\ m \in Messages /\ NextRequestId(e) \in 0 .. NumIds - 1
      /\ wire'[e][f] = Append(wire[e][f], m)
      /\ \A g, h \in Devices : g # e \/ h # f => wire'[g][h] = wire[g][h]
  BY <1>1, SendIs
<1>3. m.command # "reply"
  BY DEF Message
<1>4. Grows
  BY <1>1, SendCounted
<1>5. wire[d][p] \in Seq(Messages) /\ wire[p][d] \in Seq(Messages)
  BY ListsAre
<1> HIDE DEF m
<1>6. More(wire[d][p], wire'[d][p], Ask)
  <2>1. wire'[d][p] = wire[d][p]
    BY <1>2
  <2> QED
    BY <1>5, <2>1, MoreSame
<1>7. More(wire[p][d], wire'[p][d], {"reply"})
  <2>1. CASE e = p /\ f = d
    <3>1. wire'[p][d] = Append(wire[p][d], m)
      BY <1>2, <2>1
    <3>2. m.command \notin {"reply"}
      BY <1>3
    <3> QED
      BY <1>2, <1>5, <3>1, <3>2, MoreOne
  <2>2. CASE e # p \/ f # d
    <3>1. wire'[p][d] = wire[p][d]
      BY <1>2, <2>2
    <3> QED
      BY <1>5, <3>1, MoreSame
  <2> QED
    BY <2>1, <2>2
<1> QED
  BY <1>4, <1>6, <1>7 DEF Grows

-----------------------------------------------------------------------------
(* The steps.                                                              *)

Sound == TypeOK /\ Owned /\ Counted /\ Issued /\ AllExplained
Assumed == OneSubscriber /\ OneWay /\ FewRequests

\* A request on the line of d and p.
LEMMA SendLines ==
    ASSUME TypeOK, FewRequests, Counted, NEW d \in Devices, NEW p \in Devices, d # p,
           NEW x \in Props, NEW command \in {"start", "end"},
           SendRequest(d, p, command, x, NoId)
    PROVE  LET m == Message(command, x, NoId, NextRequestId(d)) IN
           /\ m \in Messages /\ m.command = command /\ m.prop = x /\ m.req = counter[d] + 1
           /\ NextRequestId(d) = counter[d] + 1 /\ NextRequestId(d) \in 0 .. NumIds - 1
           /\ counter'[d] = counter[d] + 1
           /\ wire'[d][p] = Append(wire[d][p], m) /\ wire'[p][d] = wire[p][d]
<1>1. command \in {"start", "end", "reply", "none"}
  OBVIOUS
<1> DEFINE m == Message(command, x, NoId, NextRequestId(d))
<1>2. NextRequestId(d) = counter[d] + 1 /\ counter'[d] = counter[d] + 1
  BY <1>1, SendCounted
<1>3. m \in Messages /\ wire'[d][p] = Append(wire[d][p], m)
  BY <1>1, SendIs
<1>4. wire'[p][d] = wire[p][d] /\ NextRequestId(d) \in 0 .. NumIds - 1
  BY <1>1, SendIs
<1>5. m.command = command /\ m.prop = x /\ m.req = counter[d] + 1
  BY <1>2 DEF Message
<1> QED
  BY <1>2, <1>3, <1>4, <1>5

LEMMA SubscribeExplained ==
    ASSUME Assumed, Sound, TypeOK', UNCHANGED scenario,
           NEW e \in Devices, NEW f \in Devices, NEW y \in Props, Subscribe(e, f, y),
           NEW d \in Devices, NEW p \in Devices, NEW x \in Props, Used(scenario, d, p, x)
    PROVE  Explained(d, p, x)'
<1>1. Explained(d, p, x)
  BY DEF Sound, AllExplained
<1>2. TypeOK /\ Counted /\ FewRequests
  BY DEF Sound, Assumed
<1> DEFINE s == [prop |-> y, id |-> NoId, req |-> NextRequestId(e), state |-> "Subscribing"]
<1>3. /\ clientSubs' = [clientSubs EXCEPT ![e][f] = Append(@, s)]
      /\ SendRequest(e, f, "start", y, NoId)
      /\ UNCHANGED <<ruleSubs, facadeSubs, serviceSubs, lastId, rejected>>
  BY DEF Subscribe
<1>4. /\ counter[d] \in Nat /\ lastId \in Nat
      /\ wire[d][p] \in Seq(Messages) /\ wire[p][d] \in Seq(Messages)
      /\ clientSubs[d][p] \in Seq(Subs)
  BY <1>2, ListsAre
<1>5. clientSubs \in [Devices -> [Devices -> Seq(Subs)]]
  BY <1>2, TypesAre
<1>6. CASE e = d /\ f = p
  <2> DEFINE m == Message("start", y, NoId, NextRequestId(d))
  <2>1. d # p
    BY <1>2, UsedIs
  <2>2. SendRequest(d, p, "start", y, NoId)
    BY <1>3, <1>6
  <2>3. /\ m \in Messages /\ m.command = "start" /\ m.prop = y /\ m.req = counter[d] + 1
        /\ NextRequestId(d) = counter[d] + 1 /\ NextRequestId(d) \in 0 .. NumIds - 1
        /\ counter'[d] = counter[d] + 1
        /\ wire'[d][p] = Append(wire[d][p], m) /\ wire'[p][d] = wire[p][d]
    BY <1>2, <2>1, <2>2, SendLines
  <2>4. s \in Subs /\ s.prop = m.prop /\ s.req = counter[d] + 1 /\ s.id = NoId
        /\ s.state = "Subscribing"
    BY <1>6, <2>3 DEF Subs, States
  <2> HIDE DEF m, s
  <2>5. clientSubs'[d][p] = Append(clientSubs[d][p], s)
    BY <1>3, <1>5, <1>6
  <2>6. History(d, x, counter[d], lastId, wire[d][p], wire[p][d], scenario.hosts,
                serviceSubs[p], facadeSubs[p], clientSubs[d][p], ruleSubs[d][p])
    BY <1>1 DEF Explained
  <2>7. History(d, x, counter[d] + 1, lastId, Append(wire[d][p], m), wire[p][d],
                scenario.hosts, serviceSubs[p], facadeSubs[p],
                Append(clientSubs[d][p], s), ruleSubs[d][p])
    BY <1>4, <2>3, <2>4, <2>6, HistorySubscribe
  <2> QED
    BY <1>3, <2>3, <2>5, <2>7 DEF Explained
<1>7. CASE e # d \/ f # p
  <2> HIDE DEF s
  <2>1. /\ counter[d] <= counter'[d]
        /\ More(wire[d][p], wire'[d][p], Ask) /\ More(wire[p][d], wire'[p][d], {"reply"})
    BY <1>2, <1>3, <1>7, SendAside
  <2>2. clientSubs'[d][p] = clientSubs[d][p]
    BY <1>3, <1>5, <1>7
  <2>3. lastId <= lastId'
    BY <1>3, <1>4
  <2>4. Aside(d, p, x)
    BY <1>3, <2>1, <2>2, <2>3, TopicSame DEF Aside, NotAdded
  <2> QED
    BY <1>1, <1>2, <2>4, AsideExplained
<1> QED
  BY <1>6, <1>7

LEMMA UnsubscribeExplained ==
    ASSUME Assumed, Sound, TypeOK', UNCHANGED scenario,
           NEW e \in Devices, NEW f \in Devices, NEW y \in Props, Unsubscribe(e, f, y),
           NEW d \in Devices, NEW p \in Devices, NEW x \in Props, Used(scenario, d, p, x)
    PROVE  Explained(d, p, x)'
<1>1. Explained(d, p, x)
  BY DEF Sound, AllExplained
<1>2. TypeOK /\ Counted /\ FewRequests
  BY DEF Sound, Assumed
<1> DEFINE subs == clientSubs[e][f]
           i == First(Of(subs, y))
           new == AsUnsubscribing(subs, i, NextRequestId(e))
<1>30. TakesBack(e, f, y)
  BY <1>2, UnsubscribeIs
<1>3. /\ i \in 1 .. Len(subs) /\ subs[i].prop = y
      /\ \A j \in 1 .. Len(subs) : subs[j].prop = y => i <= j
      /\ subs[i].state # "Unsubscribing"
      /\ clientSubs'[e][f] = new
      /\ \A g, h \in Devices : g # e \/ h # f => clientSubs'[g][h] = clientSubs[g][h]
      /\ SendRequest(e, f, "end", y, NoId)
      /\ UNCHANGED <<ruleSubs, facadeSubs, serviceSubs, lastId, rejected>>
  BY <1>30 DEF TakesBack
<1>4. /\ counter[d] \in Nat /\ lastId \in Nat
      /\ wire[d][p] \in Seq(Messages) /\ wire[p][d] \in Seq(Messages)
      /\ clientSubs[d][p] \in Seq(Subs) /\ subs \in Seq(Subs)
  BY <1>2, ListsAre
<1>5. CASE e = d /\ f = p
  <2> DEFINE m == Message("end", y, NoId, NextRequestId(d))
  <2>1. d # p
    BY <1>2, UsedIs
  <2>2. SendRequest(d, p, "end", y, NoId)
    BY <1>3, <1>5
  <2>3. /\ m \in Messages /\ m.command = "end" /\ m.prop = y /\ m.req = counter[d] + 1
        /\ NextRequestId(d) = counter[d] + 1 /\ NextRequestId(d) \in 0 .. NumIds - 1
        /\ counter'[d] = counter[d] + 1
        /\ wire'[d][p] = Append(wire[d][p], m) /\ wire'[p][d] = wire[p][d]
    BY <1>2, <2>1, <2>2, SendLines
  <2>4. NextRequestId(e) \in 0 .. NumIds - 1 /\ NextRequestId(e) = counter[d] + 1
    BY <1>5, <2>3
  <2>5. subs = clientSubs[d][p] /\ clientSubs'[d][p] = new
    BY <1>3, <1>5
  <2> HIDE DEF m, i, subs
  <2>6. /\ new \in Seq(Subs) /\ Len(new) = Len(subs)
        /\ new[i].prop = subs[i].prop /\ new[i].id = subs[i].id
        /\ new[i].req = NextRequestId(e) /\ new[i].state = "Unsubscribing"
        /\ \A j \in 1 .. Len(subs) : j # i => new[j] = subs[j]
    BY <1>3, <1>4, <2>4, AsUnsubscribingIs
  <2> HIDE DEF new
  <2>7. History(d, x, counter[d], lastId, wire[d][p], wire[p][d], scenario.hosts,
                serviceSubs[p], facadeSubs[p], subs, ruleSubs[d][p])
    BY <1>1, <2>5 DEF Explained
  <2> DEFINE n == counter[d]
             out == wire[d][p]
             in == wire[p][d]
             hosts == scenario.hosts
             service == serviceSubs[p]
             facade == facadeSubs[p]
             rules == ruleSubs[d][p]
  <2>8. n \in Nat /\ out \in Seq(Messages) /\ in \in Seq(Messages) /\ subs \in Seq(Subs)
    BY <1>4
  <2>10. History(d, x, n, lastId, out, in, hosts, service, facade, subs, rules)
    BY <2>7
  <2>11. m \in Messages /\ m.command = "end" /\ m.req = n + 1 /\ m.prop = subs[i].prop
    BY <1>3, <2>3
  <2>12. i \in 1 .. Len(subs) /\ subs[i].state # "Unsubscribing"
    BY <1>3
  <2>13. \A j \in 1 .. Len(subs) : subs[j].prop = subs[i].prop => i <= j
    BY <1>3
  <2>14. /\ new \in Seq(Subs) /\ Len(new) = Len(subs) /\ new[i].prop = subs[i].prop
         /\ new[i].id = subs[i].id /\ new[i].req = n + 1 /\ new[i].state = "Unsubscribing"
    BY <2>4, <2>6
  <2>15. \A j \in 1 .. Len(subs) : j # i => new[j] = subs[j]
    BY <2>6
  <2> HIDE DEF n, out, in, hosts, service, facade, rules
  <2>16. History(d, x, n + 1, lastId, Append(out, m), in, hosts, service, facade, new, rules)
    BY <2>8, <2>10, <2>11, <2>12, <2>13, <2>14, <2>15, HistoryUnsubscribe
  <2>9. History(d, x, counter[d] + 1, lastId, Append(wire[d][p], m), wire[p][d],
                scenario.hosts, serviceSubs[p], facadeSubs[p], new, ruleSubs[d][p])
    BY <2>16 DEF n, out, in, hosts, service, facade, rules
  <2> QED
    BY <1>3, <2>3, <2>5, <2>9 DEF Explained
<1>6. CASE e # d \/ f # p
  <2> HIDE DEF subs, i, new
  <2>1. /\ counter[d] <= counter'[d]
        /\ More(wire[d][p], wire'[d][p], Ask) /\ More(wire[p][d], wire'[p][d], {"reply"})
    BY <1>2, <1>3, <1>6, SendAside
  <2>2. clientSubs'[d][p] = clientSubs[d][p]
    BY <1>3, <1>6
  <2>3. lastId <= lastId'
    BY <1>3, <1>4
  <2>4. Aside(d, p, x)
    BY <1>3, <2>1, <2>2, <2>3, TopicSame DEF Aside, NotAdded
  <2> QED
    BY <1>1, <1>2, <2>4, AsideExplained
<1> QED
  BY <1>5, <1>6

\* The host of a client that has a connection to it is no client of it.
LEMMA NoWayBack ==
    ASSUME Assumed, TypeOK, NEW d \in Devices, NEW p \in Devices, NEW x \in Props,
           Used(scenario, d, p, x)
    PROVE  <<d, p>> \in Connected /\ <<p, d>> \notin Connected /\ d # p
           /\ \A y \in Props : ~Used(scenario, p, d, y)
<1>1. <<d, p>> \in Connected /\ d # p
  BY UsedIs
<1>2. <<p, d>> \notin Connected
  BY <1>1 DEF Assumed, OneWay
<1> QED
  BY <1>1, <1>2, UsedIs

LEMMA FacadeLess ==
    ASSUME TypeOK, NEW d \in Devices, NEW p \in Devices, NEW x \in Props
    PROVE  /\ Elems(FacadeWithout(d, p, x)) \subseteq Elems(facadeSubs[d])
           /\ [muid |-> p, prop |-> x] \notin Elems(FacadeWithout(d, p, x))
<1> DEFINE new == FacadeWithout(d, p, x)
<1>0. LeavesOut(new, facadeSubs[d], p, x)
  BY FacadeWithoutIs
<1> HIDE DEF new
<1>1. \A i \in 1 .. Len(new) : \E j \in 1 .. Len(facadeSubs[d]) :
        new[i] = facadeSubs[d][j] /\ facadeSubs[d][j] # [muid |-> p, prop |-> x]
  BY <1>0 DEF LeavesOut
<1>2. Elems(new) \subseteq Elems(facadeSubs[d])
  BY <1>1 DEF Elems
<1>3. [muid |-> p, prop |-> x] \notin Elems(new)
  BY <1>1 DEF Elems
<1> QED
  BY <1>2, <1>3 DEF new

LEMMA ShutdownExplained ==
    ASSUME Assumed, Sound, TypeOK', UNCHANGED scenario,
           NEW e \in Devices, NEW f \in Devices, NEW y \in Props, Shutdown(e, f, y),
           NEW d \in Devices, NEW p \in Devices, NEW x \in Props, Used(scenario, d, p, x)
    PROVE  Explained(d, p, x)'
<1>1. Explained(d, p, x) /\ Owned
  BY DEF Sound, AllExplained
<1>2. TypeOK /\ Counted /\ FewRequests
  BY DEF Sound, Assumed
<1>3. /\ \E i \in 1 .. Len(facadeSubs[e]) : facadeSubs[e][i] = [muid |-> f, prop |-> y]
      /\ \A g \in Devices : g # e => facadeSubs'[g] = facadeSubs[g]
      /\ facadeSubs'[e] = FacadeWithout(e, f, y)
      /\ \E command \in {"end", "none"} : SendRequest(e, f, command, y, NoId)
      /\ UNCHANGED <<clientSubs, ruleSubs, serviceSubs, lastId, rejected>>
  BY <1>2, ShutdownIs
<1>4. Used(scenario, f, e, y)
  <2> DEFINE a == [muid |-> f, prop |-> y]
  <2>1. a \in Elems(facadeSubs[e]) /\ a.muid = f /\ a.prop = y
    BY <1>3 DEF Elems
  <2> HIDE DEF a
  <2> QED
    BY <1>1, <2>1 DEF Owned, HostsOwned
<1>5. e # d \/ f # p
  BY <1>2, <1>4, NoWayBack
<1>6. PICK command \in {"end", "none"} : SendRequest(e, f, command, y, NoId)
  BY <1>3
<1>7. /\ counter[d] <= counter'[d]
      /\ More(wire[d][p], wire'[d][p], Ask) /\ More(wire[p][d], wire'[p][d], {"reply"})
  <2>1. command \in {"start", "end", "none"}
    OBVIOUS
  <2> QED
    BY <1>2, <1>5, <1>6, <2>1, SendAside
<1>8. Elems(facadeSubs'[p]) \subseteq Elems(facadeSubs[p])
  <2>1. CASE p = e
    <3>1. Elems(FacadeWithout(e, f, y)) \subseteq Elems(facadeSubs[e])
      BY <1>2, FacadeLess
    <3> QED
      BY <1>3, <2>1, <3>1
  <2>2. CASE p # e
    BY <1>3, <2>2
  <2> QED
    BY <2>1, <2>2
<1>9. lastId <= lastId'
  BY <1>2, <1>3, ListsAre
<1>10. Aside(d, p, x)
  BY <1>3, <1>7, <1>8, <1>9, TopicSame, NoneAdded DEF Aside
<1> QED
  BY <1>1, <1>2, <1>10, AsideExplained

\* A device hands out ids of its counter for messages of no concern.
LEMMA CountAside ==
    ASSUME TypeOK, FewRequests, Counted, NEW e \in Devices,
           \E n \in Nat : /\ sent[e] + n <= MaxRequests
                          /\ sent' = [sent EXCEPT ![e] = @ + n]
                          /\ counter' = [counter EXCEPT ![e] = (@ + n) % NumIds],
           NEW d \in Devices
    PROVE  counter[d] <= counter'[d]
<1>1. Grows
  BY CountCounted
<1> QED
  BY <1>1 DEF Grows

LEMMA TerminateExplained ==
    ASSUME Assumed, Sound, TypeOK', UNCHANGED scenario, NEW e \in Devices, Terminate(e),
           NEW d \in Devices, NEW p \in Devices, NEW x \in Props, Used(scenario, d, p, x)
    PROVE  Explained(d, p, x)'
<1>1. Explained(d, p, x) /\ Owned
  BY DEF Sound, AllExplained
<1>2. TypeOK /\ Counted /\ FewRequests
  BY DEF Sound, Assumed
<1>3. /\ \A g \in Devices : wire'[e][g] = wire[e][g] \o PartingTo(e, g)
      /\ \A h, g \in Devices : h # e => wire'[h][g] = wire[h][g]
      /\ \E n \in Nat : /\ sent[e] + n <= MaxRequests
                        /\ sent' = [sent EXCEPT ![e] = @ + n]
                        /\ counter' = [counter EXCEPT ![e] = (@ + n) % NumIds]
      /\ facadeSubs'[e] = <<>>
      /\ \A h \in Devices : h # e => facadeSubs'[h] = facadeSubs[h]
      /\ UNCHANGED <<clientSubs, ruleSubs, serviceSubs, lastId, rejected>>
  BY <1>2, TerminateIs
<1>4. counter[d] <= counter'[d]
  BY <1>2, <1>3, CountAside
<1>5. wire[d][p] \in Seq(Messages) /\ wire[p][d] \in Seq(Messages)
  BY <1>2, ListsAre
<1>6. ASSUME NEW g \in Devices
      PROVE  /\ PartingTo(e, g) \in Seq(Messages)
             /\ \A m \in Elems(PartingTo(e, g)) :
                    m.command \in {"end", "none"} /\ Used(scenario, g, e, m.prop)
  <2> DEFINE l == PartingTo(e, g)
  <2>1. /\ l \in Seq(Messages)
        /\ \A i \in 1 .. Len(l) :
                /\ l[i].command \in {"end", "none"} /\ l[i].id = NoId
                /\ \E j \in 1 .. Len(facadeSubs[e]) :
                    facadeSubs[e][j] = [muid |-> g, prop |-> l[i].prop]
    BY <1>2, PartingIs
  <2> HIDE DEF l
  <2>2. ASSUME NEW i \in 1 .. Len(l) PROVE Used(scenario, g, e, l[i].prop)
    <3> DEFINE a == [muid |-> g, prop |-> l[i].prop]
    <3>1. a \in Elems(facadeSubs[e]) /\ a.muid = g /\ a.prop = l[i].prop
      BY <2>1 DEF Elems
    <3> HIDE DEF a
    <3> QED
      BY <1>1, <3>1 DEF Owned, HostsOwned
  <2>3. \A m \in Elems(l) : m.command \in {"end", "none"} /\ Used(scenario, g, e, m.prop)
    BY <2>1, <2>2 DEF Elems
  <2> QED
    BY <2>1, <2>3 DEF l
<1>7. More(wire[d][p], wire'[d][p], Ask)
  <2>1. CASE e = d
    <3>1. \A m \in Elems(PartingTo(e, p)) : m.prop \in Props
      BY <1>6, Fields DEF Elems
    <3>4. \A y \in Props : ~Used(scenario, p, d, y)
      BY <1>2, NoWayBack
    <3>2. \A m \in Elems(PartingTo(e, p)) : m.command \notin Ask
      BY <1>6, <2>1, <3>1, <3>4
    <3>3. wire'[d][p] = wire[d][p] \o PartingTo(e, p)
      BY <1>3, <2>1
    <3> QED
      BY <1>6, <3>2, <3>3 DEF More
  <2>2. CASE e # d
    <3>1. wire'[d][p] = wire[d][p]
      BY <1>3, <2>2
    <3> QED
      BY <1>5, <3>1, MoreSame
  <2> QED
    BY <2>1, <2>2
<1>8. More(wire[p][d], wire'[p][d], {"reply"})
  <2>1. CASE e = p
    <3>1. \A m \in Elems(PartingTo(e, d)) : m.command \notin {"reply"}
      BY <1>6
    <3>2. wire'[p][d] = wire[p][d] \o PartingTo(e, d)
      BY <1>3, <2>1
    <3> QED
      BY <1>6, <3>1, <3>2 DEF More
  <2>2. CASE e # p
    <3>1. wire'[p][d] = wire[p][d]
      BY <1>3, <2>2
    <3> QED
      BY <1>5, <3>1, MoreSame
  <2> QED
    BY <2>1, <2>2
<1>9. Elems(facadeSubs'[p]) \subseteq Elems(facadeSubs[p])
  <2>1. CASE p = e
    <3>1. Len(facadeSubs'[p]) = 0
      BY <1>3, <2>1
    <3> QED
      BY <3>1 DEF Elems
  <2>2. CASE p # e
    BY <1>3, <2>2
  <2> QED
    BY <2>1, <2>2
<1>10. lastId <= lastId'
  BY <1>2, <1>3, ListsAre
<1>11. Aside(d, p, x)
  BY <1>3, <1>4, <1>7, <1>8, <1>9, <1>10, TopicSame, NoneAdded DEF Aside
<1> QED
  BY <1>1, <1>2, <1>11, AsideExplained

LEMMA SetPropertyExplained ==
    ASSUME Assumed, Sound, TypeOK', UNCHANGED scenario, NEW e \in Devices, NEW y \in Props,
           SetProperty(e, y),
           NEW d \in Devices, NEW p \in Devices, NEW x \in Props, Used(scenario, d, p, x)
    PROVE  Explained(d, p, x)'
<1>1. Explained(d, p, x)
  BY DEF Sound, AllExplained
<1>2. TypeOK /\ Counted /\ FewRequests
  BY DEF Sound, Assumed
<1>3. /\ wire'[e][e] = wire[e][e]
      /\ \A g \in Devices : g # e => wire'[e][g] = wire[e][g] \o Updates(e, y)
      /\ \A h, g \in Devices : h # e => wire'[h][g] = wire[h][g]
      /\ \E n \in Nat : /\ sent[e] + n <= MaxRequests
                        /\ sent' = [sent EXCEPT ![e] = @ + n]
                        /\ counter' = [counter EXCEPT ![e] = (@ + n) % NumIds]
      /\ UNCHANGED <<clientSubs, ruleSubs, serviceSubs, facadeSubs, lastId, rejected>>
  BY <1>2, SetPropertyIs
<1>4. counter[d] <= counter'[d]
  BY <1>2, <1>3, CountAside
<1>5. wire[d][p] \in Seq(Messages) /\ wire[p][d] \in Seq(Messages) /\ d # p
  BY <1>2, ListsAre, UsedIs
<1> DEFINE l == Updates(e, y)
<1>6. l \in Seq(Messages) /\ \A i \in 1 .. Len(l) : l[i].command = "none"
  BY <1>2, UpdatesAre
<1> HIDE DEF l
<1>7. \A m \in Elems(l) : m.command \notin Ask /\ m.command \notin {"reply"}
  BY <1>6 DEF Elems, Ask
<1>8. ASSUME NEW g \in Devices, NEW h \in Devices, g # h
      PROVE  wire'[g][h] = wire[g][h] \/ wire'[g][h] = wire[g][h] \o l
  BY <1>3, <1>8 DEF l
<1>9. More(wire[d][p], wire'[d][p], Ask) /\ More(wire[p][d], wire'[p][d], {"reply"})
  <2>1. More(wire[d][p], wire[d][p] \o l, Ask) /\ More(wire[p][d], wire[p][d] \o l, {"reply"})
    BY <1>6, <1>7 DEF More
  <2>2. More(wire[d][p], wire[d][p], Ask) /\ More(wire[p][d], wire[p][d], {"reply"})
    BY <1>5, MoreSame
  <2> QED
    BY <1>5, <1>8, <2>1, <2>2
<1>10. lastId <= lastId'
  BY <1>2, <1>3, ListsAre
<1>11. Aside(d, p, x)
  BY <1>3, <1>4, <1>9, <1>10, TopicSame DEF Aside, NotAdded
<1> QED
  BY <1>1, <1>2, <1>11, AsideExplained

LEMMA RemovePropertyExplained ==
    ASSUME Assumed, Sound, TypeOK', UNCHANGED scenario, NEW e \in Devices, NEW y \in Props,
           RemoveProperty(e, y),
           NEW d \in Devices, NEW p \in Devices, NEW x \in Props, Used(scenario, d, p, x)
    PROVE  Explained(d, p, x)'
<1>1. Explained(d, p, x)
  BY DEF Sound, AllExplained
<1>2. TypeOK
  BY DEF Sound
<1>3. /\ \A i \in 1 .. Len(facadeSubs'[e]) :
            \E j \in 1 .. Len(facadeSubs[e]) : facadeSubs'[e][i] = facadeSubs[e][j]
      /\ \A g \in Devices : g # e => facadeSubs'[g] = facadeSubs[g]
      /\ UNCHANGED <<clientSubs, ruleSubs, serviceSubs, lastId, counter, sent, wire, rejected>>
  BY <1>2, RemovePropertyIs
<1>4. Elems(facadeSubs'[p]) \subseteq Elems(facadeSubs[p])
  <2>1. CASE p = e
    BY <1>3, <2>1 DEF Elems
  <2>2. CASE p # e
    BY <1>3, <2>2
  <2> QED
    BY <2>1, <2>2
<1>5. /\ counter[d] \in Nat /\ lastId \in Nat
      /\ wire[d][p] \in Seq(Messages) /\ wire[p][d] \in Seq(Messages)
  BY <1>2, ListsAre
<1>6. counter[d] <= counter'[d] /\ lastId <= lastId'
  <2> DEFINE n == counter[d]
  <2>1. n \in Nat /\ counter'[d] = n
    BY <1>3, <1>5
  <2> HIDE DEF n
  <2>2. n <= counter'[d]
    BY <2>1
  <2> QED
    BY <1>3, <1>5, <2>2 DEF n
<1>7. More(wire[d][p], wire'[d][p], Ask) /\ More(wire[p][d], wire'[p][d], {"reply"})
  BY <1>3, <1>5, MoreSame
<1>8. Aside(d, p, x)
  BY <1>3, <1>4, <1>6, <1>7, TopicSame, NoneAdded DEF Aside
<1> QED
  BY <1>1, <1>2, <1>8, AsideExplained

-----------------------------------------------------------------------------
(* Receiving.                                                              *)

LEMMA TopicAppend ==
    ASSUME NEW S, NEW l \in Seq(S), NEW a \in S, NEW x, a.prop # x
    PROVE  SameTopic(l, Append(l, a), x)
<1>1. Elems(Append(l, a)) = Elems(l) \cup {a}
  BY ElemsAppend
<1> QED
  BY <1>1 DEF SameTopic

LEMMA TopicDrop ==
    ASSUME NEW S, NEW l \in Seq(S), NEW x, NEW y, y # x
    PROVE  SameTopic(l, Drop(l, First(Of(l, y))), x)
<1> DEFINE i == First(Of(l, y))
<1>1. i \in 0 .. Len(l) /\ Len(l) \in Nat /\ (i # 0 => i \in 1 .. Len(l) /\ l[i].prop = y)
  BY FirstOfIs
<1> HIDE DEF i
<1>2. CASE i = 0
  BY <1>2, DropNone, TopicSame DEF i
<1>3. CASE i # 0
  <2> DEFINE new == Drop(l, i)
  <2>1. i \in 1 .. Len(l) /\ l[i].prop = y
    BY <1>1, <1>3
  <2>2. /\ \A j \in 1 .. Len(l) : j # i => l[j] \in Elems(new)
        /\ \A e \in Elems(new) : \E j \in 1 .. Len(l) : j # i /\ e = l[j]
    BY <2>1, DropElems
  <2> HIDE DEF new
  <2>3. \A e \in Elems(l) : e.prop = x => e \in Elems(new)
    BY <2>1, <2>2 DEF Elems
  <2>4. \A e \in Elems(new) : e.prop = x => e \in Elems(l)
    BY <2>2 DEF Elems
  <2>5. SameTopic(l, new, x)
    BY <2>3, <2>4 DEF SameTopic
  <2> QED
    BY <2>5 DEF new, i
<1> QED
  BY <1>2, <1>3

LEMMA ShownAppend ==
    ASSUME NEW l \in Seq(Shown), NEW a \in Shown, NEW d, NEW x, a.prop # x
    PROVE  NotAdded(l, Append(l, a), d, x)
<1>1. Elems(Append(l, a)) = Elems(l) \cup {a}
  BY ElemsAppend
<1>2. [muid |-> d, prop |-> x] # a
  OBVIOUS
<1> QED
  BY <1>1, <1>2 DEF NotAdded

\* The head of a line belongs to a subscription that is used.
LEMMA HeadOwned ==
    ASSUME TypeOK, Owned, NEW d \in Devices, NEW p \in Devices, wire[p][d] # <<>>
    PROVE  MessageOwned(scenario, p, d, Head(wire[p][d]))
<1>1. LinesOwned(scenario, wire)
  BY DEF Owned
<1> QED
  BY <1>1, TakenOwned

\* The reply r, and the entries a and b of the host's lists, for a start.
HostStarts(d, p, m, w, r, a, b) ==
    /\ wire' = Push(w, d, p, r)
    /\ r.command = "reply" /\ r.prop = m.prop /\ r.id = lastId + 1 /\ r.req = m.req
    /\ a.prop = m.prop /\ a.id = lastId + 1 /\ b.prop = m.prop
    /\ serviceSubs'[d] = Append(serviceSubs[d], a)
    /\ facadeSubs'[d] = Append(facadeSubs[d], b)
    /\ \A g \in Devices : g # d =>
            serviceSubs'[g] = serviceSubs[g] /\ facadeSubs'[g] = facadeSubs[g]
    /\ lastId' = lastId + 1 /\ UNCHANGED <<clientSubs, ruleSubs>>

LEMMA HostStartEntries ==
    ASSUME TypeOK, NEW d \in Devices, NEW p \in Devices, NEW m \in Messages,
           NEW w \in Lines, HostStart(d, p, m, w)
    PROVE  \E r \in Messages, a \in Served, b \in Shown : HostStarts(d, p, m, w, r, a, b)
<1> DEFINE r == Message("reply", m.prop, lastId + 1, m.req)
           a == [muid |-> p, prop |-> m.prop, id |-> lastId + 1]
           b == [muid |-> p, prop |-> m.prop]
<1>1. /\ lastId' = lastId + 1 /\ r \in Messages /\ wire' = Push(w, d, p, r)
      /\ a \in Served /\ serviceSubs'[d] = Append(serviceSubs[d], a)
      /\ b \in Shown /\ facadeSubs'[d] = Append(facadeSubs[d], b)
      /\ UNCHANGED <<clientSubs, ruleSubs>>
  BY HostStartIs
<1>2. \A g \in Devices : g # d =>
            serviceSubs'[g] = serviceSubs[g] /\ facadeSubs'[g] = facadeSubs[g]
  BY HostStartIs
<1>3. /\ r.command = "reply" /\ r.prop = m.prop /\ r.id = lastId + 1 /\ r.req = m.req
      /\ a.prop = m.prop /\ a.id = lastId + 1 /\ b.prop = m.prop
  BY DEF Message
<1> HIDE DEF r, a, b
<1>4. HostStarts(d, p, m, w, r, a, b)
  BY <1>1, <1>2, <1>3 DEF HostStarts
<1> QED
  BY <1>1, <1>4

\* What a Receive of e leaves alone elsewhere.
LEMMA ReceiveElsewhere ==
    ASSUME Assumed, Sound, NEW e \in Devices, NEW f \in Devices, Receive(e, f),
           NEW d \in Devices, NEW p \in Devices, NEW x \in Props, Used(scenario, d, p, x),
           ~(e = p /\ f = d), ~(e = d /\ f = p)
    PROVE  /\ wire'[d][p] = wire[d][p] /\ wire'[p][d] = wire[p][d]
           /\ clientSubs'[d][p] = clientSubs[d][p] /\ ruleSubs'[d][p] = ruleSubs[d][p]
           /\ SameTopic(serviceSubs[p], serviceSubs'[p], x)
           /\ NotAdded(facadeSubs[p], facadeSubs'[p], d, x)
<1> DEFINE m == Head(wire[f][e])
           w == Taken(e, f)
<1>1. TypeOK /\ Owned
  BY DEF Sound
<1>2. /\ wire[f][e] # <<>> /\ m \in Messages /\ w \in Lines
      /\ \A g, h \in Devices : g # f \/ h # e => w[g][h] = wire[g][h]
      /\ \/ m.command = "start" /\ HostStart(e, f, m, w)
         \/ m.command = "end" /\ <<e, f>> \in Connected /\ ClientEnd(e, f, m, w)
         \/ m.command = "end" /\ <<e, f>> \notin Connected /\ HostEnd(e, f, m, w)
         \/ m.command = "reply" /\ <<e, f>> \in Connected /\ ClientReply(e, f, m, w)
         \/ /\ m.command = "reply" /\ <<e, f>> \notin Connected
            /\ wire' = w /\ UNCHANGED <<clientVars, hostVars, rejected>>
         \/ m.command = "none" /\ Reject(e, f, m, w)
  BY <1>1, ReceiveIs
<1>3. MessageOwned(scenario, f, e, m)
  BY <1>1, <1>2, HeadOwned
<1>4. m.prop \in Props
  BY <1>2, Fields
<1>5. serviceSubs[p] \in Seq(Served) /\ facadeSubs[p] \in Seq(Shown)
  BY <1>1, ListsAre
<1>6. w[d][p] = wire[d][p] /\ w[p][d] = wire[p][d]
  BY <1>2
<1>7. ASSUME NEW r \in Messages, wire' = Push(w, e, f, r)
      PROVE  wire'[d][p] = wire[d][p] /\ wire'[p][d] = wire[p][d]
  <2>1. Pushed(w, wire', e, f, r)
    BY <1>2, <1>7, PushIs
  <2>2. \A g, h \in Devices : g # e \/ h # f => wire'[g][h] = w[g][h]
    BY <2>1 DEF Pushed
  <2> QED
    BY <1>6, <2>2
<1>8. e = p /\ Used(scenario, f, e, m.prop) => m.prop # x
  <2>1. scenario \in Scenarios
    BY <1>1, TypesAre
  <2> QED
    BY <1>4, <2>1 DEF Assumed, OneSubscriber, Used
<1>9. SameTopic(serviceSubs[p], serviceSubs[p], x) /\ NotAdded(facadeSubs[p], facadeSubs[p], d, x)
  BY TopicSame DEF NotAdded
<1> HIDE DEF m, w
<1>10. CASE m.command = "start" /\ HostStart(e, f, m, w)
  <2>0. TypeOK /\ m \in Messages /\ w \in Lines /\ HostStart(e, f, m, w)
    BY <1>1, <1>2, <1>10
  <2>1. PICK r \in Messages, a \in Served, b \in Shown :
            HostStarts(e, f, m, w, r, a, b)
    BY <2>0, HostStartEntries
  <2>2. /\ wire' = Push(w, e, f, r) /\ a.prop = m.prop /\ b.prop = m.prop
        /\ serviceSubs'[e] = Append(serviceSubs[e], a)
        /\ facadeSubs'[e] = Append(facadeSubs[e], b)
        /\ \A g \in Devices : g # e =>
                serviceSubs'[g] = serviceSubs[g] /\ facadeSubs'[g] = facadeSubs[g]
        /\ UNCHANGED <<clientSubs, ruleSubs>>
    BY <2>1 DEF HostStarts
  <2>3. Used(scenario, f, e, m.prop)
    BY <1>3, <1>10 DEF MessageOwned
  <2>4. wire'[d][p] = wire[d][p] /\ wire'[p][d] = wire[p][d]
    BY <1>7, <2>2
  <2>5. SameTopic(serviceSubs[p], serviceSubs'[p], x)
    <3>1. CASE e = p
      <4>1. a.prop # x
        BY <1>8, <2>2, <2>3, <3>1
      <4>2. SameTopic(serviceSubs[p], Append(serviceSubs[p], a), x)
        BY <1>5, <4>1, TopicAppend
      <4> QED
        BY <2>2, <3>1, <4>2
    <3>2. CASE e # p
      BY <1>9, <2>2, <3>2
    <3> QED
      BY <3>1, <3>2
  <2>6. NotAdded(facadeSubs[p], facadeSubs'[p], d, x)
    <3>1. CASE e = p
      <4>1. b.prop # x
        BY <1>8, <2>2, <2>3, <3>1
      <4>2. NotAdded(facadeSubs[p], Append(facadeSubs[p], b), d, x)
        BY <1>5, <4>1, ShownAppend
      <4> QED
        BY <2>2, <3>1, <4>2
    <3>2. CASE e # p
      BY <1>9, <2>2, <3>2
    <3> QED
      BY <3>1, <3>2
  <2> QED
    BY <2>2, <2>4, <2>5, <2>6
<1>11. CASE m.command = "end" /\ <<e, f>> \in Connected /\ ClientEnd(e, f, m, w)
  <2> DEFINE r == Message("reply", m.prop, NoId, m.req)
  <2>1. /\ r \in Messages /\ wire' = Push(w, e, f, r)
        /\ \A g, h \in Devices : g # e \/ h # f => clientSubs'[g][h] = clientSubs[g][h]
        /\ UNCHANGED <<ruleSubs, facadeSubs, serviceSubs, lastId, rejected>>
    BY <1>1, <1>2, <1>11, ClientEndIs
  <2> HIDE DEF r
  <2>2. clientSubs'[d][p] = clientSubs[d][p]
    BY <2>1
  <2> QED
    BY <1>7, <1>9, <2>1, <2>2
<1>12. CASE m.command = "end" /\ <<e, f>> \notin Connected /\ HostEnd(e, f, m, w)
  <2> DEFINE r == Message("reply", m.prop, m.id, m.req)
  <2>1. /\ r \in Messages /\ wire' = Push(w, e, f, r)
        /\ serviceSubs'[e] = Drop(serviceSubs[e], Unsubscribed(e, m))
        /\ \A g \in Devices : g # e => serviceSubs'[g] = serviceSubs[g]
        /\ facadeSubs'[e] = FacadeWithout(e, f, m.prop)
        /\ \A g \in Devices : g # e => facadeSubs'[g] = facadeSubs[g]
        /\ UNCHANGED <<clientSubs, ruleSubs, lastId, rejected>>
    <3>1. TypeOK /\ m \in Messages /\ w \in Lines /\ HostEnd(e, f, m, w)
      BY <1>1, <1>2, <1>12
    <3> QED
      BY <3>1, HostEndIs
  <2>2. Used(scenario, f, e, m.prop) /\ m.id = NoId
    <3>1. m.id = NoId /\ (Used(scenario, f, e, m.prop) \/ Used(scenario, e, f, m.prop))
      BY <1>3, <1>12 DEF MessageOwned
    <3>2. ~Used(scenario, e, f, m.prop)
      BY <1>1, <1>4, <1>12, UsedIs
    <3> QED
      BY <3>1, <3>2
  <2>3. Unsubscribed(e, m) = First(Of(serviceSubs[e], m.prop))
    BY <1>1, <1>2, <2>2, UnsubscribedIs
  <2> HIDE DEF r
  <2>4. SameTopic(serviceSubs[p], serviceSubs'[p], x)
    <3>1. CASE e = p
      <4>1. m.prop # x
        BY <1>8, <2>2, <3>1
      <4>2. SameTopic(serviceSubs[p], Drop(serviceSubs[p], First(Of(serviceSubs[p], m.prop))), x)
        BY <1>5, <4>1, TopicDrop
      <4> QED
        BY <2>1, <2>3, <3>1, <4>2
    <3>2. CASE e # p
      BY <1>9, <2>1, <3>2
    <3> QED
      BY <3>1, <3>2
  <2>5. NotAdded(facadeSubs[p], facadeSubs'[p], d, x)
    <3>1. CASE e = p
      <4>1. Elems(FacadeWithout(e, f, m.prop)) \subseteq Elems(facadeSubs[e])
        BY <1>1, <1>4, FacadeLess
      <4> QED
        BY <2>1, <3>1, <4>1, NoneAdded
    <3>2. CASE e # p
      BY <1>9, <2>1, <3>2
    <3> QED
      BY <3>1, <3>2
  <2> QED
    BY <1>7, <2>1, <2>4, <2>5
<1>13. CASE m.command = "reply" /\ <<e, f>> \in Connected /\ ClientReply(e, f, m, w)
  <2>1. /\ wire' = w
        /\ \A g, h \in Devices : g # e \/ h # f =>
                clientSubs'[g][h] = clientSubs[g][h] /\ ruleSubs'[g][h] = ruleSubs[g][h]
        /\ UNCHANGED <<facadeSubs, serviceSubs, lastId, rejected>>
    BY <1>1, <1>2, <1>13, ClientReplyIs
  <2>2. clientSubs'[d][p] = clientSubs[d][p] /\ ruleSubs'[d][p] = ruleSubs[d][p]
    BY <2>1
  <2> QED
    BY <1>6, <1>9, <2>1, <2>2
<1>14. CASE m.command = "reply" /\ <<e, f>> \notin Connected
            /\ wire' = w /\ UNCHANGED <<clientVars, hostVars, rejected>>
  BY <1>6, <1>9, <1>14 DEF clientVars, hostVars
<1>15. CASE m.command = "none" /\ Reject(e, f, m, w)
  BY <1>6, <1>9, <1>15 DEF Reject, clientVars, hostVars
<1> QED
  BY <1>2, <1>10, <1>11, <1>12, <1>13, <1>14, <1>15

LEMMA CountSame ==
    ASSUME TypeOK, NEW e \in Devices, NEW f \in Devices, Receive(e, f), NEW d \in Devices
    PROVE  counter'[d] = counter[d] /\ counter[d] <= counter'[d]
<1> DEFINE n == counter[d]
<1>1. n \in Nat /\ counter'[d] = n
  BY ReceiveIs, CountersAre
<1> HIDE DEF n
<1>2. n <= counter'[d]
  BY <1>1
<1> QED
  BY <1>1, <1>2 DEF n

LEMMA OtherReceives ==
    ASSUME Assumed, Sound, TypeOK', UNCHANGED scenario,
           NEW e \in Devices, NEW f \in Devices, Receive(e, f),
           NEW d \in Devices, NEW p \in Devices, NEW x \in Props, Used(scenario, d, p, x),
           ~(e = p /\ f = d), ~(e = d /\ f = p)
    PROVE  Explained(d, p, x)'
<1>1. TypeOK /\ Issued /\ Explained(d, p, x)
  BY DEF Sound, AllExplained
<1>2. /\ wire'[d][p] = wire[d][p] /\ wire'[p][d] = wire[p][d]
      /\ clientSubs'[d][p] = clientSubs[d][p] /\ ruleSubs'[d][p] = ruleSubs[d][p]
      /\ SameTopic(serviceSubs[p], serviceSubs'[p], x)
      /\ NotAdded(facadeSubs[p], facadeSubs'[p], d, x)
  BY ReceiveElsewhere
<1>3. counter[d] <= counter'[d] /\ lastId <= lastId'
  BY <1>1, CountSame, IssuedReceive
<1>4. More(wire[d][p], wire'[d][p], Ask) /\ More(wire[p][d], wire'[p][d], {"reply"})
  BY <1>1, <1>2, ListsAre, MoreSame
<1>5. Aside(d, p, x)
  BY <1>2, <1>3, <1>4 DEF Aside
<1> QED
  BY <1>1, <1>5, AsideExplained

\* The host p takes a message of its client d.
LEMMA HostReceives ==
    ASSUME Assumed, Sound, TypeOK', UNCHANGED scenario,
           NEW d \in Devices, NEW p \in Devices, NEW x \in Props, Used(scenario, d, p, x),
           Receive(p, d)
    PROVE  Explained(d, p, x)'
<1> DEFINE m == Head(wire[d][p])
           w == Taken(p, d)
           n == counter[d]
           out == wire[d][p]
           in == wire[p][d]
           hosts == scenario.hosts
           service == serviceSubs[p]
           facade == facadeSubs[p]
           subs == clientSubs[d][p]
           rules == ruleSubs[d][p]
<1>1. TypeOK /\ Owned /\ Issued /\ Explained(d, p, x)
  BY DEF Sound, AllExplained
<1>2. /\ out # <<>> /\ m \in Messages /\ w \in Lines
      /\ w[d][p] = Tail(out)
      /\ \A g, h \in Devices : g # d \/ h # p => w[g][h] = wire[g][h]
      /\ \/ m.command = "start" /\ HostStart(p, d, m, w)
         \/ m.command = "end" /\ <<p, d>> \in Connected /\ ClientEnd(p, d, m, w)
         \/ m.command = "end" /\ <<p, d>> \notin Connected /\ HostEnd(p, d, m, w)
         \/ m.command = "reply" /\ <<p, d>> \in Connected /\ ClientReply(p, d, m, w)
         \/ /\ m.command = "reply" /\ <<p, d>> \notin Connected
            /\ wire' = w /\ UNCHANGED <<clientVars, hostVars, rejected>>
         \/ m.command = "none" /\ Reject(p, d, m, w)
  BY <1>1, ReceiveIs
<1>3. MessageOwned(scenario, d, p, m)
  BY <1>1, <1>2, HeadOwned
<1>4. d # p /\ <<p, d>> \notin Connected /\ \A y \in Props : ~Used(scenario, p, d, y)
  BY <1>1, NoWayBack
<1>5. /\ n \in Nat /\ lastId \in Nat /\ out \in Seq(Messages) /\ in \in Seq(Messages)
      /\ service \in Seq(Served) /\ facade \in Seq(Shown) /\ subs \in Seq(Subs)
  BY <1>1, ListsAre
<1>6. w[p][d] = in
  BY <1>2, <1>4
<1>7. counter'[d] = n
  BY <1>1, CountSame
<1>8. History(d, x, n, lastId, out, in, hosts, service, facade, subs, rules)
  BY <1>1 DEF Explained
<1>9. m.prop \in Props /\ m = Head(out)
  BY <1>2, Fields
<1>10. IdsUpTo(service, lastId)
  BY <1>1 DEF Issued
<1>11. Explained(d, p, x)' <=>
            History(d, x, n, lastId', wire'[d][p], wire'[p][d], hosts,
                    serviceSubs'[p], facadeSubs'[p], clientSubs'[d][p], ruleSubs'[d][p])
  BY <1>7 DEF Explained
<1>12. subs = clientSubs[d][p] /\ rules = ruleSubs[d][p] /\ service = serviceSubs[p]
       /\ facade = facadeSubs[p] /\ in = wire[p][d] /\ out = wire[d][p]
  OBVIOUS
<1> HIDE DEF m, w, n, out, in, hosts, service, facade, subs, rules
<1>13. ASSUME NEW r \in Messages, wire' = Push(w, p, d, r)
       PROVE  wire'[d][p] = Tail(out) /\ wire'[p][d] = Append(in, r)
  <2>3. w \in Lines
    BY <1>2
  <2>4. Pushed(w, wire', p, d, r)
    BY <1>13, <2>3, PushIs
  <2>1. \A g, h \in Devices : g # p \/ h # d => wire'[g][h] = w[g][h]
    BY <2>4 DEF Pushed
  <2>2. wire'[p][d] = Append(w[p][d], r)
    BY <2>4 DEF Pushed
  <2> QED
    BY <1>2, <1>4, <1>6, <1>13, <2>1, <2>2
<1>14. CASE m.command = "start" /\ HostStart(p, d, m, w)
  <2>0. TypeOK /\ m \in Messages /\ w \in Lines /\ HostStart(p, d, m, w)
    BY <1>1, <1>2, <1>14
  <2>1. PICK r \in Messages, a \in Served, b \in Shown :
            HostStarts(p, d, m, w, r, a, b)
    BY <2>0, HostStartEntries
  <2>2. /\ a.prop = m.prop /\ a.id = lastId + 1 /\ b.prop = m.prop
        /\ serviceSubs'[p] = Append(serviceSubs[p], a)
        /\ facadeSubs'[p] = Append(facadeSubs[p], b)
        /\ lastId' = lastId + 1 /\ UNCHANGED <<clientSubs, ruleSubs>>
    BY <2>1 DEF HostStarts
  <2>3. /\ wire' = Push(w, p, d, r) /\ r.command = "reply" /\ r.prop = m.prop
        /\ r.id = lastId + 1 /\ r.req = m.req
    BY <2>1 DEF HostStarts
  <2>4. wire'[d][p] = Tail(out) /\ wire'[p][d] = Append(in, r)
    BY <1>13, <2>3
  <2>5. /\ Head(out).command = "start"
        /\ r.req = Head(out).req /\ r.prop = Head(out).prop
        /\ a.prop = Head(out).prop /\ b.prop = Head(out).prop
    BY <1>9, <1>14, <2>2, <2>3
  <2>6. History(d, x, n, lastId + 1, Tail(out), Append(in, r), hosts, Append(service, a),
                Append(facade, b), subs, rules)
    BY <1>2, <1>5, <1>8, <2>2, <2>3, <2>5, HistoryStart
  <2> QED
    BY <1>11, <1>12, <2>2, <2>4, <2>6
<1>15. CASE m.command = "end" /\ HostEnd(p, d, m, w)
  <2> DEFINE r == Message("reply", m.prop, m.id, m.req)
             y == m.prop
             facade2 == FacadeWithout(p, d, m.prop)
  <2>1. /\ r \in Messages /\ wire' = Push(w, p, d, r)
        /\ serviceSubs'[p] = Drop(serviceSubs[p], Unsubscribed(p, m))
        /\ facadeSubs'[p] = facade2
        /\ UNCHANGED <<clientSubs, ruleSubs, lastId, rejected>>
    <3>1. TypeOK /\ m \in Messages /\ w \in Lines /\ HostEnd(p, d, m, w)
      BY <1>1, <1>2, <1>15
    <3> QED
      BY <3>1, HostEndIs
  <2>2. m.id = NoId
    BY <1>3, <1>15 DEF MessageOwned
  <2>3. Unsubscribed(p, m) = First(Of(serviceSubs[p], m.prop))
    BY <1>1, <1>2, <2>2, UnsubscribedIs
  <2>4. /\ Elems(facade2) \subseteq Elems(facade)
        /\ [muid |-> d, prop |-> y] \notin Elems(facade2)
    BY <1>1, <1>9, <1>12, FacadeLess
  <2>5. r.command = "reply" /\ r.prop = m.prop /\ r.id = NoId /\ r.req = m.req
    BY <2>2 DEF Message
  <2>6. y = m.prop
    OBVIOUS
  <2> HIDE DEF r, y, facade2
  <2>7. wire'[d][p] = Tail(out) /\ wire'[p][d] = Append(in, r)
    BY <1>13, <2>1
  <2>8. /\ Head(out).command = "end"
        /\ r.req = Head(out).req /\ r.prop = Head(out).prop /\ y = Head(out).prop
    BY <1>9, <1>15, <2>5, <2>6
  <2>9. Ascending(service)
    BY <1>10 DEF IdsUpTo
  <2>10. History(d, x, n, lastId, Tail(out), Append(in, r), hosts,
                 Drop(service, First(Of(service, y))), facade2, subs, rules)
    BY <1>2, <1>5, <1>8, <2>1, <2>4, <2>5, <2>8, <2>9, HistoryEnd
  <2> QED
    BY <1>11, <1>12, <2>1, <2>3, <2>6, <2>7, <2>10
<1>16. CASE wire' = w /\ UNCHANGED <<clientSubs, ruleSubs, facadeSubs, serviceSubs, lastId>>
            /\ m.command \notin Ask
  <2>1. Head(out).command \notin Ask
    BY <1>9, <1>16
  <2>2. History(d, x, n, lastId, Tail(out), in, hosts, service, facade, subs, rules)
    BY <1>2, <1>5, <1>8, <2>1, HistoryOutTail
  <2>3. wire'[d][p] = Tail(out) /\ wire'[p][d] = in
    BY <1>2, <1>6, <1>16
  <2> QED
    BY <1>11, <1>12, <1>16, <2>2, <2>3
<1>17. CASE m.command = "reply"
            /\ wire' = w /\ UNCHANGED <<clientVars, hostVars, rejected>>
  BY <1>16, <1>17 DEF clientVars, hostVars, Ask
<1>18. CASE m.command = "none" /\ Reject(p, d, m, w)
  BY <1>16, <1>18 DEF Reject, clientVars, hostVars, Ask
<1> QED
  BY <1>2, <1>4, <1>14, <1>15, <1>17, <1>18

\* The client d takes a message of its host p.
LEMMA ClientReceives ==
    ASSUME Assumed, Sound, TypeOK', UNCHANGED scenario,
           NEW d \in Devices, NEW p \in Devices, NEW x \in Props, Used(scenario, d, p, x),
           Receive(d, p)
    PROVE  Explained(d, p, x)'
<1> DEFINE m == Head(wire[p][d])
           w == Taken(d, p)
           n == counter[d]
           out == wire[d][p]
           in == wire[p][d]
           hosts == scenario.hosts
           service == serviceSubs[p]
           facade == facadeSubs[p]
           subs == clientSubs[d][p]
           rules == ruleSubs[d][p]
<1>1. TypeOK /\ Owned /\ Explained(d, p, x)
  BY DEF Sound, AllExplained
<1>2. /\ in # <<>> /\ m \in Messages /\ w \in Lines
      /\ w[p][d] = Tail(in)
      /\ \A g, h \in Devices : g # p \/ h # d => w[g][h] = wire[g][h]
      /\ \/ m.command = "start" /\ HostStart(d, p, m, w)
         \/ m.command = "end" /\ <<d, p>> \in Connected /\ ClientEnd(d, p, m, w)
         \/ m.command = "end" /\ <<d, p>> \notin Connected /\ HostEnd(d, p, m, w)
         \/ m.command = "reply" /\ <<d, p>> \in Connected /\ ClientReply(d, p, m, w)
         \/ /\ m.command = "reply" /\ <<d, p>> \notin Connected
            /\ wire' = w /\ UNCHANGED <<clientVars, hostVars, rejected>>
         \/ m.command = "none" /\ Reject(d, p, m, w)
  BY <1>1, ReceiveIs
<1>3. MessageOwned(scenario, p, d, m)
  BY <1>1, <1>2, HeadOwned
<1>4. d # p /\ <<d, p>> \in Connected /\ \A y \in Props : ~Used(scenario, p, d, y)
  BY <1>1, NoWayBack
<1>5. /\ n \in Nat /\ lastId \in Nat /\ out \in Seq(Messages) /\ in \in Seq(Messages)
      /\ subs \in Seq(Subs) /\ rules \in Seq(Rules)
  BY <1>1, ListsAre
<1>6. w[d][p] = out
  BY <1>2, <1>4
<1>7. counter'[d] = n
  BY <1>1, CountSame
<1>8. History(d, x, n, lastId, out, in, hosts, service, facade, subs, rules)
  BY <1>1 DEF Explained
<1>9. m.prop \in Props /\ m = Head(in)
  BY <1>2, Fields
<1>10. Explained(d, p, x)' <=>
            History(d, x, n, lastId', wire'[d][p], wire'[p][d], hosts,
                    serviceSubs'[p], facadeSubs'[p], clientSubs'[d][p], ruleSubs'[d][p])
  BY <1>7 DEF Explained
<1>11. subs = clientSubs[d][p] /\ rules = ruleSubs[d][p] /\ service = serviceSubs[p]
       /\ facade = facadeSubs[p] /\ hosts = scenario.hosts
  OBVIOUS
<1> HIDE DEF m, w, n, out, in, hosts, service, facade, subs, rules
<1>12. m.command # "start"
  BY <1>3, <1>4, <1>9 DEF MessageOwned
<1>13. CASE m.command = "end" /\ ClientEnd(d, p, m, w)
  <2> DEFINE r == Message("reply", m.prop, NoId, m.req)
             y == m.prop
  <2>0. TypeOK /\ m \in Messages /\ w \in Lines /\ ClientEnd(d, p, m, w)
    BY <1>1, <1>2, <1>13
  <2>1. /\ r \in Messages /\ wire' = Push(w, d, p, r)
        /\ clientSubs'[d][p] = Drop(clientSubs[d][p], EndedAt(clientSubs[d][p], m))
        /\ UNCHANGED <<ruleSubs, facadeSubs, serviceSubs, lastId, rejected>>
    BY <2>0, ClientEndIs
  <2>2. r.command \notin Ask
    BY DEF Message, Ask
  <2>3. m.id = NoId /\ hosts # {}
    BY <1>3, <1>4, <1>9, <1>11, <1>13 DEF MessageOwned
  <2>4. EndedAt(subs, m) = First(Of(subs, y))
    BY <1>5, <2>3, EndedAtIs
  <2> HIDE DEF r, y
  <2>5. Pushed(w, wire', d, p, r)
    BY <2>0, <2>1, PushIs
  <2>6. /\ wire'[d][p] = Append(w[d][p], r)
        /\ \A g, h \in Devices : g # d \/ h # p => wire'[g][h] = w[g][h]
    BY <2>5 DEF Pushed
  <2>7. wire'[d][p] = Append(out, r) /\ wire'[p][d] = Tail(in)
    BY <1>2, <1>4, <1>6, <2>6
  <2>8. Head(in).command # "reply"
    BY <1>9, <1>13
  <2>9. History(d, x, n, lastId, out, Tail(in), hosts, service, facade, subs, rules)
    BY <1>2, <1>5, <1>8, <2>8, HistoryInTail
  <2>10. History(d, x, n, lastId, out, Tail(in), hosts, service, facade,
                 Drop(subs, First(Of(subs, y))), rules)
    BY <1>5, <2>3, <2>9, HistoryLost
  <2>11. PICK b \in Seq(Messages) : Append(out, r) = out \o b /\ \A e \in Elems(b) : e.command \notin Ask
    <3>1. More(out, Append(out, r), Ask)
      BY <1>5, <2>1, <2>2, MoreOne
    <3> QED
      BY <3>1 DEF More
  <2>12. History(d, x, n, lastId, out \o b, Tail(in), hosts, service, facade,
                 Drop(subs, First(Of(subs, y))), rules)
    <3>1. \A e \in Elems(b) : e.command \notin Ask
      BY <2>11
    <3> QED
      BY <1>5, <2>10, <3>1, HistoryOut
  <2> QED
    BY <1>10, <1>11, <2>1, <2>4, <2>7, <2>11, <2>12
<1>14. CASE m.command = "reply" /\ ClientReply(d, p, m, w)
  <2>0. TypeOK /\ m \in Messages /\ w \in Lines /\ ClientReply(d, p, m, w)
    BY <1>1, <1>2, <1>14
  <2>1. /\ wire' = w
        /\ UNCHANGED <<facadeSubs, serviceSubs, lastId, rejected>>
    BY <2>0, ClientReplyIs
  <2>2. /\ Ignored(clientSubs[d][p], m) => UNCHANGED <<clientSubs, ruleSubs>>
        /\ ~Ignored(clientSubs[d][p], m) =>
            /\ clientSubs'[d][p] = AfterReply(clientSubs[d][p], m)
            /\ ruleSubs'[d][p] = RulesResult(ruleSubs[d][p],
                    clientSubs[d][p][AnsweredAt(clientSubs[d][p], m)].prop, m.id)
    BY <2>0, ClientReplyIs
  <2> DEFINE subs2 == clientSubs'[d][p]
             rules2 == ruleSubs'[d][p]
  <2>3. Replied(subs, rules, Head(in), subs2, rules2)
    BY <1>9, <1>11, <2>2 DEF Replied
  <2>4. Head(in).command = "reply"
    BY <1>9, <1>14
  <2>5. subs2 = clientSubs'[d][p] /\ rules2 = ruleSubs'[d][p]
    OBVIOUS
  <2> HIDE DEF subs2, rules2
  <2>6. History(d, x, n, lastId, out, Tail(in), hosts, service, facade, subs2, rules2)
    BY <1>2, <1>5, <1>8, <2>3, <2>4, HistoryReply
  <2>7. wire'[d][p] = out /\ wire'[p][d] = Tail(in)
    BY <1>2, <1>6, <2>1
  <2> QED
    BY <1>10, <1>11, <2>1, <2>5, <2>6, <2>7
<1>15. CASE m.command = "none" /\ Reject(d, p, m, w)
  <2>1. wire' = w /\ UNCHANGED <<clientSubs, ruleSubs, facadeSubs, serviceSubs, lastId>>
    BY <1>15 DEF Reject, clientVars, hostVars
  <2>2. Head(in).command # "reply"
    BY <1>9, <1>15
  <2>3. History(d, x, n, lastId, out, Tail(in), hosts, service, facade, subs, rules)
    BY <1>2, <1>5, <1>8, <2>2, HistoryInTail
  <2>4. wire'[d][p] = out /\ wire'[p][d] = Tail(in)
    BY <1>2, <1>6, <2>1
  <2> QED
    BY <1>10, <1>11, <2>1, <2>3, <2>4
<1> QED
  BY <1>2, <1>4, <1>12, <1>13, <1>14, <1>15

LEMMA ReceiveExplained ==
    ASSUME Assumed, Sound, TypeOK', UNCHANGED scenario,
           NEW e \in Devices, NEW f \in Devices, Receive(e, f),
           NEW d \in Devices, NEW p \in Devices, NEW x \in Props, Used(scenario, d, p, x)
    PROVE  Explained(d, p, x)'
<1>1. CASE e = p /\ f = d
  BY <1>1, HostReceives
<1>2. CASE e = d /\ f = p
  BY <1>2, ClientReceives
<1>3. CASE ~(e = p /\ f = d) /\ ~(e = d /\ f = p)
  BY <1>3, OtherReceives
<1> QED
  BY <1>1, <1>2, <1>3

LEMMA ExplainedStep ==
    ASSUME Assumed, Sound, TypeOK', [Next]_vars,
           NEW d \in Devices, NEW p \in Devices, NEW x \in Props, Used(scenario, d, p, x)
    PROVE  Explained(d, p, x)'
<1>1. CASE UNCHANGED vars
  <2>1. Explained(d, p, x)
    BY DEF Sound, AllExplained
  <2> QED
    BY <1>1, <2>1 DEF vars, Explained
<1>2. CASE Next
  <2>1. UNCHANGED scenario
    BY <1>2, NextIs
  <2>2. PICK e \in Devices :
            \/ \E y \in Props : RemoveProperty(e, y) \/ SetProperty(e, y)
            \/ \E f \in Devices, y \in Props :
                Subscribe(e, f, y) \/ Unsubscribe(e, f, y) \/ Shutdown(e, f, y)
            \/ Terminate(e)
            \/ \E f \in Devices : Receive(e, f)
    BY <1>2, NextIs
  <2>3. CASE \E y \in Props : RemoveProperty(e, y) \/ SetProperty(e, y)
    BY <2>1, <2>3, RemovePropertyExplained, SetPropertyExplained
  <2>4. CASE \E f \in Devices, y \in Props :
                Subscribe(e, f, y) \/ Unsubscribe(e, f, y) \/ Shutdown(e, f, y)
    BY <2>1, <2>4, SubscribeExplained, UnsubscribeExplained, ShutdownExplained
  <2>5. CASE Terminate(e)
    BY <2>1, <2>5, TerminateExplained
  <2>6. CASE \E f \in Devices : Receive(e, f)
    BY <2>1, <2>6, ReceiveExplained
  <2> QED
    BY <2>2, <2>3, <2>4, <2>5, <2>6
<1> QED
  BY <1>1, <1>2

LEMMA SoundStep ==
    ASSUME Assumed, Sound, [Next]_vars
    PROVE  Sound'
<1>1. TypeOK /\ Owned /\ Counted /\ Issued /\ FewRequests
  BY DEF Sound, Assumed
<1>2. TypeOK'
  BY <1>1, TypeStep
<1>3. Owned' /\ Counted' /\ Issued'
  BY <1>1, OwnedStep, CountedStep, IssuedStep
<1>4. scenario' = scenario
  BY NextIs DEF vars
<1>5. \A d, p \in Devices, x \in Props : Used(scenario, d, p, x) => Explained(d, p, x)'
  BY <1>2, ExplainedStep
<1>6. AllExplained'
  BY <1>4, <1>5 DEF AllExplained
<1> QED
  BY <1>2, <1>3, <1>6 DEF Sound

LEMMA SoundInit ==
    ASSUME Init
    PROVE  Sound
<1>1. TypeOK /\ Owned
  BY TypeInit, OwnedInit
<1>2. Counted
  BY DEF Init, Counted
<1>3. Issued
  <2> DEFINE none == <<>>
  <2>1. Len(none) = 0
    OBVIOUS
  <2>2. \A p \in Devices : serviceSubs[p] = none
    BY DEF Init
  <2> HIDE DEF none
  <2>3. IdsUpTo(none, lastId)
    BY <2>1 DEF IdsUpTo, Ascending, Elems
  <2> QED
    BY <2>2, <2>3 DEF Issued
<1>4. ASSUME NEW d \in Devices, NEW p \in Devices, NEW x \in Props PROVE Explained(d, p, x)
  <2> DEFINE none == <<>>
             hosts == scenario.hosts
  <2>1. History(d, x, 0, 0, none, none, hosts, none, none, none, none)
    BY HistoryEmpty
  <2>2. /\ counter[d] = 0 /\ lastId = 0 /\ wire[d][p] = none /\ wire[p][d] = none
        /\ serviceSubs[p] = none /\ facadeSubs[p] = none
        /\ clientSubs[d][p] = none /\ ruleSubs[d][p] = none
    BY DEF Init
  <2> HIDE DEF none
  <2> QED
    BY <2>1, <2>2 DEF Explained, hosts
<1> QED
  BY <1>1, <1>2, <1>3, <1>4 DEF Sound, AllExplained

-----------------------------------------------------------------------------
(* Parts of lists.                                                         *)

LEMMA RankRises ==
    ASSUME NEW n \in Nat, NEW I \in SUBSET (1 .. n), NEW i \in I, NEW j \in I, i < j
    PROVE  Rank(I, i) < Rank(I, j)
<1> DEFINE U == {k \in I : k <= i}
           V == {k \in I : k <= j}
<1>1. U \in SUBSET V
  <2>1. \A k \in 1 .. n : k <= i => k <= j
    OBVIOUS
  <2> QED
    BY <2>1
<1>2. j \in V /\ j \notin U
  <2>1. j \in 1 .. n /\ j <= j /\ ~(j <= i)
    OBVIOUS
  <2> QED
    BY <2>1
<1>3. IsFiniteSet(V)
  <2>1. IsFiniteSet(1 .. n)
    BY FS_Interval
  <2>2. V \subseteq 1 .. n
    OBVIOUS
  <2> QED
    BY <2>1, <2>2, FS_Subset
<1>4. Rank(I, i) = Cardinality(U) /\ Rank(I, j) = Cardinality(V)
  BY DEF Rank
<1> HIDE DEF U, V
<1>5. IsFiniteSet(U) /\ Cardinality(U) <= Cardinality(V) /\ Cardinality(U) # Cardinality(V)
  BY <1>1, <1>2, <1>3, FS_Subset
<1>6. Cardinality(U) \in Nat /\ Cardinality(V) \in Nat
  BY <1>3, <1>5, FS_CardinalityType
<1> QED
  BY <1>4, <1>5, <1>6

\* The last of the elements picked is the one at the greatest place.
LEMMA PickedLast ==
    ASSUME NEW S, NEW list \in Seq(S), NEW I \in SUBSET (1 .. Len(list)),
           Picked(list, I) # <<>>
    PROVE  \E k \in I : Last(Picked(list, I)) = list[k] /\ \A j \in I : j <= k
<1> DEFINE p == Picked(list, I)
           n == Len(p)
<1>1. Len(list) \in Nat /\ I \in SUBSET (1 .. Len(list))
  BY LenProperties
<1>2. /\ p \in Seq(S)
      /\ \A m \in 1 .. Len(p) : \E i \in I : p[m] = list[i] /\ Rank(I, i) = m
  BY PickedIs
<1>3. n \in Nat /\ n # 0
  BY <1>2, LenProperties, EmptySeq
<1>4. \A i \in I : Rank(I, i) \in 1 .. n
  <2>1. n = Cardinality(I)
    <3>1. Cardinality(I) \in Nat
      BY <1>1, RankIs
    <3> QED
      BY <3>1 DEF Picked
  <2>2. \A i \in I : Rank(I, i) \in 1 .. Cardinality(I)
    BY <1>1, RankIs
  <2> QED
    BY <2>1, <2>2
<1>5. Last(p) = p[n]
  BY DEF Last
<1> HIDE DEF n, p
<1>6. n = Len(p)
  BY DEF n
<1>7. n \in 1 .. Len(p)
  BY <1>3, <1>6
<1>8. PICK k \in I : p[n] = list[k] /\ Rank(I, k) = n
  BY <1>2, <1>7
<1>9. ASSUME NEW j \in I, ~(j <= k) PROVE FALSE
  <2>1. k < j
    BY <1>1, <1>9
  <2>2. Rank(I, k) < Rank(I, j)
    BY <1>1, <2>1, RankRises
  <2>3. Rank(I, j) \in 1 .. n
    BY <1>4
  <2> QED
    BY <1>3, <1>8, <2>2, <2>3
<1> QED
  BY <1>5, <1>8, <1>9 DEF p

Increasing(l) == \A i, j \in 1 .. Len(l) : i < j => l[i] < l[j]

\* Elements that are greater at greater places stay so.
LEMMA PickedIncreasing ==
    ASSUME NEW S, NEW list \in Seq(S), NEW I \in SUBSET (1 .. Len(list)),
           \A i, j \in I : i < j => list[i] < list[j]
    PROVE  Increasing(Picked(list, I))
<1> DEFINE p == Picked(list, I)
<1>1. Len(list) \in Nat /\ I \in SUBSET (1 .. Len(list))
  BY LenProperties
<1>2. /\ p \in Seq(S)
      /\ \A m \in 1 .. Len(p) : \E i \in I : p[m] = list[i] /\ Rank(I, i) = m
  BY PickedIs
<1> HIDE DEF p
<1>3. ASSUME NEW m \in 1 .. Len(p), NEW k \in 1 .. Len(p), m < k PROVE p[m] < p[k]
  <2>1. PICK i \in I : p[m] = list[i] /\ Rank(I, i) = m
    BY <1>2
  <2>2. PICK j \in I : p[k] = list[j] /\ Rank(I, j) = k
    BY <1>2
  <2>3. i \in Nat /\ j \in Nat /\ m \in Int /\ k \in Int
    BY <1>1
  <2>4. ~(j < i)
    <3>1. ASSUME j < i PROVE FALSE
      <4>1. Rank(I, j) < Rank(I, i)
        BY <1>1, <3>1, RankRises
      <4> QED
        BY <1>3, <2>1, <2>2, <2>3, <4>1
    <3> QED
      BY <3>1
  <2>5. i # j
    BY <1>3, <2>1, <2>2, <2>3
  <2>6. i < j
    BY <2>3, <2>4, <2>5
  <2> QED
    BY <2>1, <2>2, <2>6
<1> QED
  BY <1>3 DEF Increasing, p

\* Lists of the same numbers in increasing order are the same.
LEMMA IncreasingPrefix ==
    ASSUME NEW a \in Seq(Nat), NEW b \in Seq(Nat), Increasing(a), Increasing(b),
           Elems(a) = Elems(b)
    PROVE  \A i \in Nat : i \in 1 .. Len(a) /\ i \in 1 .. Len(b) => a[i] = b[i]
<1> DEFINE Bad == {i \in Nat : i \in 1 .. Len(a) /\ i \in 1 .. Len(b) /\ a[i] # b[i]}
<1>1. Len(a) \in Nat /\ Len(b) \in Nat
  BY LenProperties
<1>2. ASSUME Bad # {} PROVE FALSE
  <2>1. Bad \in SUBSET Nat
    OBVIOUS
  <2>2. PICK c \in Bad : \A d \in Bad : c <= d
    BY <1>2, <2>1, LeastOf
  <2>3. c \in Nat /\ c \in 1 .. Len(a) /\ c \in 1 .. Len(b) /\ a[c] # b[c]
    OBVIOUS
  <2>4. ASSUME NEW j \in Nat, j < c, j \in 1 .. Len(a), j \in 1 .. Len(b) PROVE a[j] = b[j]
    <3>1. ~(c <= j)
      BY <2>3, <2>4
    <3>2. j \notin Bad
      BY <2>2, <3>1
    <3> QED
      BY <2>4, <3>2
  <2> HIDE DEF Bad
  <2>5. a[c] \in Nat /\ b[c] \in Nat
    BY <2>3, ElementOfSeq
  <2>6. PICK j \in 1 .. Len(b) : a[c] = b[j]
    <3>1. a[c] \in Elems(b)
      BY <2>3 DEF Elems
    <3> QED
      BY <3>1 DEF Elems
  <2>7. PICK k \in 1 .. Len(a) : b[c] = a[k]
    <3>1. b[c] \in Elems(a)
      BY <2>3 DEF Elems
    <3> QED
      BY <3>1 DEF Elems
  <2>8. j \in Nat /\ k \in Nat
    OBVIOUS
  <2>9. j # c /\ k # c
    BY <2>3, <2>6, <2>7
  <2>10. CASE a[c] < b[c]
    <3>1. ~(c < j)
      <4>1. c < j => b[c] < b[j]
        BY <2>3 DEF Increasing
      <4> QED
        BY <2>5, <2>6, <2>10, <4>1
    <3>2. j < c
      BY <2>3, <2>8, <2>9, <3>1
    <3>3. j \in 1 .. Len(a)
      BY <1>1, <2>3, <2>8, <3>2
    <3>4. a[j] = b[j] /\ a[j] < a[c]
      BY <2>3, <2>4, <2>8, <3>2, <3>3 DEF Increasing
    <3> QED
      BY <2>5, <2>6, <3>4
  <2>11. CASE b[c] < a[c]
    <3>1. ~(c < k)
      <4>1. c < k => a[c] < a[k]
        BY <2>3 DEF Increasing
      <4> QED
        BY <2>5, <2>7, <2>11, <4>1
    <3>2. k < c
      BY <2>3, <2>8, <2>9, <3>1
    <3>3. k \in 1 .. Len(b)
      BY <1>1, <2>3, <2>8, <3>2
    <3>4. a[k] = b[k] /\ b[k] < b[c]
      BY <2>3, <2>4, <2>8, <3>2, <3>3 DEF Increasing
    <3> QED
      BY <2>5, <2>7, <3>4
  <2> QED
    BY <2>3, <2>5, <2>10, <2>11
<1> QED
  BY <1>2

LEMMA IncreasingLonger ==
    ASSUME NEW a \in Seq(Nat), NEW b \in Seq(Nat), Increasing(a), Increasing(b),
           Elems(a) = Elems(b)
    PROVE  Len(b) <= Len(a)
<1> DEFINE m == Len(a)
           n == Len(b)
<1>1. m \in Nat /\ n \in Nat
  BY LenProperties
<1>2. \A i \in Nat : i \in 1 .. m /\ i \in 1 .. n => a[i] = b[i]
  BY IncreasingPrefix
<1>3. m = Len(a) /\ n = Len(b)
  OBVIOUS
<1> HIDE DEF m, n
<1>4. ASSUME ~(n <= m) PROVE FALSE
  <2>1. m + 1 \in 1 .. n
    BY <1>1, <1>4
  <2>2. PICK j \in 1 .. m : b[m + 1] = a[j]
    <3>1. b[m + 1] \in Elems(a)
      BY <1>3, <2>1 DEF Elems
    <3> QED
      BY <1>3, <3>1 DEF Elems
  <2>3. j \in Nat /\ j \in 1 .. n /\ j < m + 1
    BY <1>1, <1>4
  <2>4. a[j] = b[j]
    BY <1>2, <2>3
  <2>5. b[j] < b[m + 1]
    BY <1>3, <2>1, <2>3 DEF Increasing
  <2>6. b[j] \in Nat
    BY <1>3, <2>3, ElementOfSeq
  <2> QED
    BY <2>2, <2>4, <2>5, <2>6
<1> QED
  BY <1>3, <1>4

LEMMA IncreasingSame ==
    ASSUME NEW a \in Seq(Nat), NEW b \in Seq(Nat), Increasing(a), Increasing(b),
           Elems(a) = Elems(b)
    PROVE  a = b
<1>1. Len(a) <= Len(b) /\ Len(b) <= Len(a) /\ Len(a) \in Nat /\ Len(b) \in Nat
  BY IncreasingLonger, LenProperties
<1>2. Len(a) = Len(b)
  BY <1>1
<1>3. \A i \in 1 .. Len(a) : a[i] = b[i]
  BY <1>2, IncreasingPrefix
<1> QED
  BY <1>2, <1>3, SeqEqual

-----------------------------------------------------------------------------
(* What a history says.                                                    *)

\* An entry that is Subscribed is a start r that was answered with id.
InForce(kind, prop, given, host, client, gone, left, n, x, r, id) ==
    /\ r \in Nat /\ IsStart(kind, prop, r, x) /\ id = given[r]
    /\ gone < r /\ left < r /\ r <= client /\ r <= host /\ r <= n

LEMMA SubscribedStart ==
    ASSUME NEW kind, NEW prop, NEW given, NEW host \in Nat, NEW client \in Nat,
           NEW gone \in Nat, NEW left \in Nat, NEW n \in Nat, NEW x,
           Sizes(host, client, gone, left, n), NEW subs \in Seq(Subs), NEW rules,
           ClientGood(kind, prop, given, client, left, n, subs, rules, x),
           NEW s \in Elems(subs), s.prop = x, s.state = "Subscribed"
    PROVE  InForce(kind, prop, given, host, client, gone, left, n, x, s.req, s.id)
<1>1. s.req \in Nat
  BY SubsElems
<1>2. Asked(Elems(subs), kind, prop, given, client, n) /\ Kept(Elems(subs), kind, prop, given, client, left, n, x)
  BY DEF ClientGood
<1>3. s.state # "Unsubscribing" /\ s.state # "Subscribing"
  OBVIOUS
<1>4. IsStart(kind, prop, s.req, x)
  BY <1>2, <1>3 DEF Asked, IsStart
<1>5. left < s.req /\ ~(client < s.req) /\ (s.req <= client => s.id = given[s.req])
  BY <1>2, <1>3 DEF Kept
<1> DEFINE r == s.req
<1>6. r \in Nat /\ left < r /\ ~(client < r) /\ client <= host /\ host <= n /\ gone <= left
  BY <1>1, <1>5 DEF Sizes
<1> HIDE DEF r
<1>7. gone < r /\ left < r /\ r <= client /\ r <= host /\ r <= n
  BY <1>6
<1>8. gone < s.req /\ left < s.req /\ s.req <= client /\ s.req <= host /\ s.req <= n
  BY <1>7 DEF r
<1> QED
  BY <1>1, <1>4, <1>5, <1>8 DEF InForce

LEMMA HistoryServes ==
    ASSUME NEW d, NEW x, NEW n \in Nat, NEW last, NEW out, NEW in, NEW hosts, NEW service,
           NEW facade, NEW subs \in Seq(Subs), NEW rules,
           History(d, x, n, last, out, in, hosts, service, facade, subs, rules),
           NEW s \in Elems(subs), s.prop = x, s.state = "Subscribed"
    PROVE  \E e \in Elems(service) : e.prop = x /\ e.id = s.id
<1>1. PICK kind \in Kinds, prop \in [Nat -> Props], given \in [Nat -> Nat],
           match \in [Nat -> Nat], host \in Nat, client \in Nat, gone \in Nat, left \in Nat :
            Fits(kind, prop, given, match, host, client, gone, left,
                 d, x, n, last, out, in, hosts, service, facade, subs, rules)
  BY DEF History
<1>2. /\ Sizes(host, client, gone, left, n)
      /\ HostGood(kind, prop, given, gone, host, hosts, service, facade, d, x)
      /\ ClientGood(kind, prop, given, client, left, n, subs, rules, x)
  BY <1>1 DEF Fits
<1>5. InForce(kind, prop, given, host, client, gone, left, n, x, s.req, s.id)
  BY <1>2, SubscribedStart
<1>3. /\ s.req \in Nat /\ IsStart(kind, prop, s.req, x) /\ s.id = given[s.req]
      /\ gone < s.req /\ s.req <= host
  BY <1>5 DEF InForce
<1>4. Serving(Elems(service), kind, prop, given, gone, host, x)
  BY <1>2 DEF HostGood
<1> QED
  BY <1>3, <1>4 DEF Serving

LEMMA HistoryKnows ==
    ASSUME NEW d, NEW x, NEW n \in Nat, NEW last, NEW out, NEW in, NEW hosts, NEW service,
           NEW facade, NEW subs \in Seq(Subs), NEW rules,
           History(d, x, n, last, out, in, hosts, service, facade, subs, rules),
           NEW k \in 1 .. Len(subs), subs[k].prop = x, subs[k].state = "Subscribed",
           \A j \in 1 .. Len(subs) : subs[j].prop = x /\ subs[j].state = "Subscribed" => j <= k
    PROVE  [prop |-> x, id |-> subs[k].id] \in Elems(rules)
<1>1. PICK kind \in Kinds, prop \in [Nat -> Props], given \in [Nat -> Nat],
           match \in [Nat -> Nat], host \in Nat, client \in Nat, gone \in Nat, left \in Nat :
            Fits(kind, prop, given, match, host, client, gone, left,
                 d, x, n, last, out, in, hosts, service, facade, subs, rules)
  BY DEF History
<1>2. /\ Sizes(host, client, gone, left, n)
      /\ ClientGood(kind, prop, given, client, left, n, subs, rules, x)
  BY <1>1 DEF Fits
<1> DEFINE r == subs[k].req
<1>3. subs[k] \in Elems(subs)
  BY SubsElems
<1>10. InForce(kind, prop, given, host, client, gone, left, n, x, subs[k].req, subs[k].id)
  BY <1>2, <1>3, SubscribedStart
<1>4. /\ r \in Nat /\ IsStart(kind, prop, r, x) /\ subs[k].id = given[r]
      /\ left < r /\ r <= client
  BY <1>10 DEF InForce
<1>5. /\ InOrder(subs) /\ Kept(Elems(subs), kind, prop, given, client, left, n, x)
      /\ Known(Elems(rules), kind, prop, given, client, left, x)
  BY <1>2 DEF ClientGood
<1>6. client <= n
  BY <1>2 DEF Sizes
<1>7. r = subs[k].req
  OBVIOUS
<1> HIDE DEF r
<1>8. ASSUME NEW s \in Nat, r < s, s <= client, IsStart(kind, prop, s, x) PROVE FALSE
  <2>1. left < s /\ s <= n /\ s # r /\ ~(s < r)
    BY <1>4, <1>6, <1>8
  <2>2. PICK e \in Elems(subs) : e.prop = x /\ e.state # "Unsubscribing" /\ e.req = s
    BY <1>5, <1>8, <2>1 DEF Kept
  <2>3. e.state = "Subscribed"
    BY <1>5, <1>8, <2>2 DEF Kept
  <2>4. PICK j \in 1 .. Len(subs) : e = subs[j]
    BY SubsElems
  <2>5. j <= k /\ j # k
    BY <1>7, <2>1, <2>2, <2>3, <2>4
  <2>6. j < k
    BY <2>5, SubsElems
  <2>7. subs[j].req < subs[k].req
    BY <1>5, <2>2, <2>4, <2>6 DEF InOrder
  <2> QED
    BY <1>7, <2>1, <2>2, <2>4, <2>7
<1>9. [prop |-> x, id |-> given[r]] \in Elems(rules)
  BY <1>4, <1>5, <1>8 DEF Known
<1> QED
  BY <1>4, <1>9

\* Nothing is under way on an empty line.
LEMMA LineEmpty ==
    ASSUME NEW kind, NEW cs, NEW lo \in Nat, NEW hi \in Nat, Numbered(<<>>, cs, kind, lo, hi),
           NEW r \in Nat, lo < r, r <= hi
    PROVE  kind[r] = "none"
<1> DEFINE none == <<>>
<1>1. Len(none) = 0 /\ Covered(none, cs, kind, lo, hi)
  BY DEF Numbered
<1> HIDE DEF none
<1> QED
  BY <1>1 DEF Covered

\* Without messages under way every request was answered, and what the client
\* has left is not served.
Settled(kind, prop, host, client, gone, left, n, x) ==
    /\ \A r \in Nat : client < r /\ r <= n => kind[r] = "none"
    /\ \A r \in Nat : gone < r /\ r <= left => ~IsStart(kind, prop, r, x)

LEMMA QuietSettled ==
    ASSUME NEW d, NEW x, NEW n \in Nat, NEW last, NEW service, NEW facade, NEW subs, NEW rules,
           NEW kind, NEW prop, NEW given, NEW match, NEW host \in Nat, NEW client \in Nat,
           NEW gone \in Nat, NEW left \in Nat,
           Fits(kind, prop, given, match, host, client, gone, left,
                d, x, n, last, <<>>, <<>>, {}, service, facade, subs, rules)
    PROVE  Settled(kind, prop, host, client, gone, left, n, x)
<1> DEFINE none == <<>>
<1>1. /\ LinesGood(kind, prop, given, host, client, n, last, none, none)
      /\ EndsGood(kind, prop, match, gone, left, host, n, {}, x)
  BY DEF Fits
<1>2. Numbered(none, Ask, kind, host, n) /\ Numbered(none, {"reply"}, kind, client, host)
  BY <1>1 DEF LinesGood
<1>3. \A r \in Nat : host < r /\ r <= n => kind[r] = "none"
  BY <1>2, LineEmpty
<1>4. \A r \in Nat : client < r /\ r <= host => kind[r] = "none"
  BY <1>2, LineEmpty
<1>5. \A r \in Nat : client < r /\ r <= n => kind[r] = "none"
  <2>1. \A r \in Nat : r <= host \/ host < r
    OBVIOUS
  <2> QED
    BY <1>3, <1>4, <2>1
<1>6. AllMatched(kind, prop, match, gone, left, host, n, x)
  BY <1>1 DEF EndsGood
<1>7. ASSUME NEW s \in Nat, gone < s, s <= left, IsStart(kind, prop, s, x) PROVE FALSE
  <2>1. PICK r \in Nat : host < r /\ r <= n /\ IsEnd(kind, prop, r, x)
    BY <1>6, <1>7 DEF AllMatched
  <2> QED
    BY <1>3, <2>1 DEF IsEnd
<1> QED
  BY <1>5, <1>7 DEF Settled

\* The entries of a client that nothing is under way to or from.
IsOn(s) == s.state = "Subscribed"

LEMMA SettledEntry ==
    ASSUME NEW kind, NEW prop, NEW given, NEW host \in Nat,
           NEW client \in Nat, NEW gone \in Nat, NEW left \in Nat, NEW n \in Nat, NEW x,
           Sizes(host, client, gone, left, n), NEW subs \in Seq(Subs), NEW rules,
           ClientGood(kind, prop, given, client, left, n, subs, rules, x),
           Settled(kind, prop, host, client, gone, left, n, x),
           NEW s \in Elems(subs), s.prop = x
    PROVE  IsOn(s)
<1>1. s.req \in Nat /\ s.state \in States
  <2>1. s \in Subs
    BY SubsElems
  <2> QED
    BY <2>1, SubsElems DEF Subs
<1>2. Asked(Elems(subs), kind, prop, given, client, n) /\ Kept(Elems(subs), kind, prop, given, client, left, n, x)
  BY DEF ClientGood
<1> DEFINE r == s.req
<1>7. r \in Nat /\ r <= n
  BY <1>1, <1>2 DEF Asked
<1>3. r \in Nat /\ r <= n /\ (client < r \/ r <= client)
  <2> HIDE DEF r
  <2> QED
    BY <1>7
<1>4. s.state # "Unsubscribing"
  <2>1. s.state = "Unsubscribing" => kind[r] = "end" /\ client < r
    BY <1>2 DEF Asked
  <2>2. client < r => kind[r] = "none"
    BY <1>3 DEF Settled
  <2> QED
    BY <2>1, <2>2
<1>5. ~(client < r)
  <2>1. kind[r] = "start"
    BY <1>2, <1>4 DEF Asked
  <2>2. client < r => kind[r] = "none"
    BY <1>3 DEF Settled
  <2> QED
    BY <2>1, <2>2
<1>6. r <= client
  BY <1>3, <1>5
<1> QED
  BY <1>2, <1>4, <1>6 DEF Kept, IsOn

LEMMA HistoryRemoved ==
    ASSUME NEW d, NEW x, NEW n \in Nat, NEW last, NEW service, NEW facade,
           NEW subs \in Seq(Subs), NEW rules,
           History(d, x, n, last, <<>>, <<>>, {}, service, facade, subs, rules),
           \A s \in Elems(subs) : s.prop # x
    PROVE  [muid |-> d, prop |-> x] \notin Elems(facade)
<1>1. PICK kind \in Kinds, prop \in [Nat -> Props], given \in [Nat -> Nat],
           match \in [Nat -> Nat], host \in Nat, client \in Nat, gone \in Nat, left \in Nat :
            Fits(kind, prop, given, match, host, client, gone, left,
                 d, x, n, last, <<>>, <<>>, {}, service, facade, subs, rules)
  BY DEF History
<1>2. Settled(kind, prop, host, client, gone, left, n, x)
  BY <1>1, QuietSettled
<1>3. /\ Sizes(host, client, gone, left, n)
      /\ HostGood(kind, prop, given, gone, host, {}, service, facade, d, x)
      /\ ClientGood(kind, prop, given, client, left, n, subs, rules, x)
  BY <1>1 DEF Fits
<1>4. ASSUME NEW r \in Nat, gone < r, r <= host, IsStart(kind, prop, r, x) PROVE FALSE
  <2>1. host <= n
    BY <1>3 DEF Sizes
  <2>2. left < r \/ r <= left
    BY <1>4
  <2>3. ~(r <= left)
    BY <1>2, <1>4 DEF Settled
  <2>4. r <= n
    BY <1>4, <2>1
  <2>5. Kept(Elems(subs), kind, prop, given, client, left, n, x)
    BY <1>3 DEF ClientGood
  <2>6. \E e \in Elems(subs) : e.prop = x
    BY <1>4, <2>2, <2>3, <2>4, <2>5 DEF Kept
  <2> QED
    BY <2>6
<1>5. ShownOnly(Elems(facade), kind, prop, gone, host, d, x)
  BY <1>3 DEF HostGood
<1> QED
  BY <1>4, <1>5 DEF ShownOnly

\* Without messages under way client and host know the same ids of x.
SameIds(subs, service, x) ==
    /\ \A i, j \in 1 .. Len(subs) :
            i < j /\ subs[i].prop = x /\ subs[j].prop = x => subs[i].id < subs[j].id
    /\ \A s \in Elems(subs) : s.prop = x =>
            s.id \in Nat /\ \E e \in Elems(service) : e.prop = x /\ e.id = s.id
    /\ \A e \in Elems(service) : e.prop = x =>
            \E s \in Elems(subs) : s.prop = x /\ s.id = e.id

LEMMA HistoryAgrees ==
    ASSUME NEW d, NEW x, NEW n \in Nat, NEW last, NEW service, NEW facade,
           NEW subs \in Seq(Subs), NEW rules,
           History(d, x, n, last, <<>>, <<>>, {}, service, facade, subs, rules)
    PROVE  SameIds(subs, service, x)
<1>1. PICK kind \in Kinds, prop \in [Nat -> Props], given \in [Nat -> Nat],
           match \in [Nat -> Nat], host \in Nat, client \in Nat, gone \in Nat, left \in Nat :
            Fits(kind, prop, given, match, host, client, gone, left,
                 d, x, n, last, <<>>, <<>>, {}, service, facade, subs, rules)
  BY DEF History
<1>2. Settled(kind, prop, host, client, gone, left, n, x)
  BY <1>1, QuietSettled
<1>3. /\ Sizes(host, client, gone, left, n)
      /\ HostGood(kind, prop, given, gone, host, {}, service, facade, d, x)
      /\ ClientGood(kind, prop, given, client, left, n, subs, rules, x)
  BY <1>1 DEF Fits
<1>4. Given(kind, given, host, last)
  BY <1>1 DEF Fits, LinesGood
<1>5. Serving(Elems(service), kind, prop, given, gone, host, x)
  BY <1>3 DEF HostGood
<1>6. InOrder(subs) /\ Kept(Elems(subs), kind, prop, given, client, left, n, x)
  BY <1>3 DEF ClientGood
<1>7. host <= n
  BY <1>3 DEF Sizes
<1>8. ASSUME NEW s \in Elems(subs), s.prop = x
      PROVE  s.state = "Subscribed"
             /\ InForce(kind, prop, given, host, client, gone, left, n, x, s.req, s.id)
  <2>2. IsOn(s)
    BY <1>2, <1>3, <1>8, SettledEntry
  <2>1. s.state = "Subscribed"
    BY <2>2 DEF IsOn
  <2> QED
    BY <1>3, <1>8, <2>1, SubscribedStart
<1>9. ASSUME NEW i \in 1 .. Len(subs), NEW j \in 1 .. Len(subs), i < j,
             subs[i].prop = x, subs[j].prop = x
      PROVE  subs[i].id < subs[j].id
  <2>1. subs[i] \in Elems(subs) /\ subs[j] \in Elems(subs)
    BY SubsElems
  <2>2. /\ subs[i].state = "Subscribed"
        /\ InForce(kind, prop, given, host, client, gone, left, n, x, subs[i].req, subs[i].id)
        /\ InForce(kind, prop, given, host, client, gone, left, n, x, subs[j].req, subs[j].id)
    BY <1>8, <1>9, <2>1
  <2>3. subs[i].req < subs[j].req
    BY <1>6, <1>9, <2>2 DEF InOrder
  <2>4. /\ subs[i].req \in Nat /\ kind[subs[i].req] = "start" /\ subs[i].id = given[subs[i].req]
        /\ subs[j].req \in Nat /\ kind[subs[j].req] = "start" /\ subs[j].id = given[subs[j].req]
        /\ subs[j].req <= host
    BY <2>2 DEF InForce, IsStart
  <2> QED
    BY <1>4, <2>3, <2>4 DEF Given
<1>10. ASSUME NEW s \in Elems(subs), s.prop = x
       PROVE  s.id \in Nat /\ \E e \in Elems(service) : e.prop = x /\ e.id = s.id
  <2>1. InForce(kind, prop, given, host, client, gone, left, n, x, s.req, s.id)
    BY <1>8, <1>10
  <2>2. s.req \in Nat /\ IsStart(kind, prop, s.req, x) /\ s.id = given[s.req]
        /\ gone < s.req /\ s.req <= host
    BY <2>1 DEF InForce
  <2> QED
    BY <1>5, <2>2 DEF Serving
<1>11. ASSUME NEW e \in Elems(service), e.prop = x
       PROVE  \E s \in Elems(subs) : s.prop = x /\ s.id = e.id
  <2>1. PICK r \in Nat : gone < r /\ r <= host /\ IsStart(kind, prop, r, x) /\ e.id = given[r]
    BY <1>5, <1>11 DEF Serving
  <2>2. ~(r <= left)
    BY <1>2, <2>1 DEF Settled
  <2>3. left < r /\ r <= n
    BY <1>7, <2>1, <2>2
  <2>4. PICK s \in Elems(subs) : s.prop = x /\ s.state # "Unsubscribing" /\ s.req = r
    BY <1>6, <2>1, <2>3 DEF Kept
  <2>5. InForce(kind, prop, given, host, client, gone, left, n, x, s.req, s.id)
    BY <1>8, <2>4
  <2>6. s.id = given[r]
    BY <2>4, <2>5 DEF InForce
  <2> QED
    BY <2>1, <2>4, <2>6
<1> QED
  BY <1>9, <1>10, <1>11 DEF SameIds

-----------------------------------------------------------------------------
(* What a client and a host say of a property.                             *)

LEMMA ExplainedIs ==
    ASSUME Sound, NEW d \in Devices, NEW p \in Devices, NEW x \in Props,
           Used(scenario, d, p, x)
    PROVE  History(d, x, counter[d], lastId, wire[d][p], wire[p][d], scenario.hosts,
                   serviceSubs[p], facadeSubs[p], clientSubs[d][p], ruleSubs[d][p])
  BY DEF Sound, AllExplained, Explained

\* No other device subscribes to x of p.
LEMMA ServedOwn ==
    ASSUME Assumed, Sound, NEW d \in Devices, NEW p \in Devices, NEW x \in Props,
           Used(scenario, d, p, x), NEW e \in Elems(serviceSubs[p]), e.prop = x
    PROVE  e \in Served /\ e.muid = d /\ e = [muid |-> d, prop |-> x, id |-> e.id]
<1>1. TypeOK /\ Owned
  BY DEF Sound
<1>2. e \in Served
  BY <1>1, ListsAre DEF Elems
<1>3. Used(scenario, e.muid, p, x)
  BY <1>1 DEF Owned, HostsOwned
<1>4. scenario \in Scenarios /\ e.muid \in Devices
  BY <1>1, <1>2, TypesAre DEF Served
<1>5. e.muid = d
  BY <1>3, <1>4 DEF Assumed, OneSubscriber, Used
<1> QED
  BY <1>2, <1>5 DEF Served

LEMMA SoundServes ==
    ASSUME Assumed, Sound
    PROVE  HostServes
<1>1. ASSUME NEW d \in Devices, NEW p \in Devices, NEW x \in Props,
             NEW i \in 1 .. Len(clientSubs[d][p]), Uses(d, p, x),
             clientSubs[d][p][i].prop = x, clientSubs[d][p][i].state = "Subscribed"
      PROVE  \E j \in 1 .. Len(serviceSubs[p]) :
                serviceSubs[p][j] = [muid |-> d, prop |-> x, id |-> clientSubs[d][p][i].id]
  <2> DEFINE subs == clientSubs[d][p]
             s == subs[i]
  <2>1. Used(scenario, d, p, x)
    BY <1>1 DEF Uses, Used
  <2>2. TypeOK
    BY DEF Sound
  <2>3. subs \in Seq(Subs) /\ counter[d] \in Nat
    BY <2>2, ListsAre
  <2>4. s \in Elems(subs) /\ s.prop = x /\ s.state = "Subscribed"
    BY <1>1 DEF Elems
  <2>5. History(d, x, counter[d], lastId, wire[d][p], wire[p][d], scenario.hosts,
                serviceSubs[p], facadeSubs[p], subs, ruleSubs[d][p])
    BY <2>1, ExplainedIs
  <2> HIDE DEF subs, s
  <2>6. PICK e \in Elems(serviceSubs[p]) : e.prop = x /\ e.id = s.id
    BY <2>3, <2>4, <2>5, HistoryServes
  <2>7. e = [muid |-> d, prop |-> x, id |-> e.id]
    BY <2>1, <2>6, ServedOwn
  <2>8. PICK j \in 1 .. Len(serviceSubs[p]) : e = serviceSubs[p][j]
    BY DEF Elems
  <2> QED
    BY <2>6, <2>7, <2>8 DEF s, subs
<1> QED
  BY <1>1 DEF HostServes

LEMMA SoundKnows ==
    ASSUME Assumed, Sound
    PROVE  RulesKnowNewest
<1> DEFINE On(d, p, x) == {i \in 1 .. Len(clientSubs[d][p]) :
                clientSubs[d][p][i].prop = x /\ clientSubs[d][p][i].state = "Subscribed"}
<1>1. ASSUME NEW d \in Devices, NEW p \in Devices, NEW x \in Props, Uses(d, p, x),
             Picked(clientSubs[d][p], On(d, p, x)) # <<>>
      PROVE  \E j \in 1 .. Len(ruleSubs[d][p]) : ruleSubs[d][p][j] =
                [prop |-> x, id |-> Last(Picked(clientSubs[d][p], On(d, p, x))).id]
  <2> DEFINE subs == clientSubs[d][p]
             I == On(d, p, x)
  <2>1. Used(scenario, d, p, x)
    BY <1>1 DEF Uses, Used
  <2>2. TypeOK
    BY DEF Sound
  <2>3. subs \in Seq(Subs) /\ counter[d] \in Nat
    BY <2>2, ListsAre
  <2>4. History(d, x, counter[d], lastId, wire[d][p], wire[p][d], scenario.hosts,
                serviceSubs[p], facadeSubs[p], subs, ruleSubs[d][p])
    BY <2>1, ExplainedIs
  <2>5. I \in SUBSET (1 .. Len(subs)) /\ \A i \in 1 .. Len(subs) :
            i \in I <=> subs[i].prop = x /\ subs[i].state = "Subscribed"
    OBVIOUS
  <2>6. Picked(subs, I) # <<>>
    BY <1>1
  <2> HIDE DEF subs, I
  <2>7. PICK k \in I : Last(Picked(subs, I)) = subs[k] /\ \A j \in I : j <= k
    BY <2>3, <2>5, <2>6, PickedLast
  <2>8. k \in 1 .. Len(subs) /\ subs[k].prop = x /\ subs[k].state = "Subscribed"
        /\ \A j \in 1 .. Len(subs) : subs[j].prop = x /\ subs[j].state = "Subscribed" => j <= k
    BY <2>5, <2>7
  <2>9. [prop |-> x, id |-> subs[k].id] \in Elems(ruleSubs[d][p])
    BY <2>3, <2>4, <2>8, HistoryKnows
  <2>10. \E j \in 1 .. Len(ruleSubs[d][p]) :
            ruleSubs[d][p][j] = [prop |-> x, id |-> Last(Picked(subs, I)).id]
    BY <2>7, <2>9 DEF Elems
  <2> QED
    BY <2>10 DEF subs, I
<1> QED
  BY <1>1 DEF RulesKnowNewest

\* The two lists of ids.
HeldList(d, p) == [i \in 1 .. Len(clientSubs[d][p]) |-> clientSubs[d][p][i].id]
ServedList(p) == [i \in 1 .. Len(serviceSubs[p]) |-> serviceSubs[p][i].id]
ServedPlaces(d, p, x) == {i \in 1 .. Len(serviceSubs[p]) :
                            serviceSubs[p][i].muid = d /\ serviceSubs[p][i].prop = x}

LEMMA HeldIs ==
    ASSUME NEW d, NEW p, NEW x
    PROVE  /\ Held(d, p, x) = Picked(HeldList(d, p), Of(clientSubs[d][p], x))
           /\ ServedIds(d, p, x) = Picked(ServedList(p), ServedPlaces(d, p, x))
  BY DEF Held, HeldList, ServedIds, ServedList, ServedPlaces

LEMMA IdsAre ==
    ASSUME TypeOK, NEW d \in Devices, NEW p \in Devices
    PROVE  /\ HeldList(d, p) \in Seq(SubIds \cup {NoId})
           /\ Len(HeldList(d, p)) = Len(clientSubs[d][p])
           /\ ServedList(p) \in Seq(SubIds) /\ Len(ServedList(p)) = Len(serviceSubs[p])
<1>1. clientSubs[d][p] \in Seq(Subs) /\ serviceSubs[p] \in Seq(Served)
  BY ListsAre
<1> DEFINE a == clientSubs[d][p]
           b == serviceSubs[p]
           m == Len(a)
           n == Len(b)
<1>2. m \in Nat /\ n \in Nat
  BY <1>1, LenProperties
<1>8. a \in Seq(Subs) /\ b \in Seq(Served) /\ m = Len(a) /\ n = Len(b)
  BY <1>1
<1>5. HeldList(d, p) = [i \in 1 .. m |-> a[i].id] /\ ServedList(p) = [i \in 1 .. n |-> b[i].id]
  BY DEF HeldList, ServedList
<1> HIDE DEF a, b, m, n
<1>3. ASSUME NEW i \in 1 .. m PROVE a[i].id \in SubIds \cup {NoId}
  <2>1. a[i] \in Subs
    BY <1>8, ElementOfSeq
  <2> QED
    BY <2>1 DEF Subs
<1>4. ASSUME NEW i \in 1 .. n PROVE b[i].id \in SubIds
  <2>1. b[i] \in Served
    BY <1>8, ElementOfSeq
  <2> QED
    BY <2>1 DEF Served
<1>6. [i \in 1 .. m |-> a[i].id] \in Seq(SubIds \cup {NoId}) /\ Len([i \in 1 .. m |-> a[i].id]) = m
  BY <1>2, <1>3, IsASeq
<1>7. [i \in 1 .. n |-> b[i].id] \in Seq(SubIds) /\ Len([i \in 1 .. n |-> b[i].id]) = n
  BY <1>2, <1>4, IsASeq
<1> QED
  BY <1>5, <1>6, <1>7, <1>8 DEF a, b

LEMMA SeqNarrow ==
    ASSUME NEW S, NEW T, NEW l \in Seq(S), \A i \in 1 .. Len(l) : l[i] \in T
    PROVE  l \in Seq(T)
<1>1. Len(l) \in Nat /\ l = [i \in 1 .. Len(l) |-> l[i]]
  BY LenProperties
<1> QED
  BY <1>1, IsASeq

\* What the ids of x at both ends are without messages under way.
LEMMA QuietIds ==
    ASSUME Assumed, Sound, NEW d \in Devices, NEW p \in Devices, NEW x \in Props,
           Uses(d, p, x), scenario.hosts = {}, Quiet(d, p)
    PROVE  SameIds(clientSubs[d][p], serviceSubs[p], x)
<1> DEFINE none == <<>>
           out == wire[d][p]
           in == wire[p][d]
           hosts == scenario.hosts
           subs == clientSubs[d][p]
<1>1. Used(scenario, d, p, x)
  BY DEF Uses, Used
<1>2. TypeOK
  BY DEF Sound
<1>3. subs \in Seq(Subs) /\ counter[d] \in Nat
  BY <1>2, ListsAre
<1>4. History(d, x, counter[d], lastId, out, in, hosts,
              serviceSubs[p], facadeSubs[p], subs, ruleSubs[d][p])
  BY <1>1, ExplainedIs
<1>5. out = none /\ in = none /\ hosts = {}
  BY DEF Quiet
<1> HIDE DEF none, out, in, hosts, subs
<1>6. History(d, x, counter[d], lastId, none, none, {},
              serviceSubs[p], facadeSubs[p], subs, ruleSubs[d][p])
  BY <1>4, <1>5
<1>7. SameIds(subs, serviceSubs[p], x)
  BY <1>3, <1>6, HistoryAgrees DEF none
<1> QED
  BY <1>7 DEF subs

LEMMA HeldPlaces ==
    ASSUME NEW list, NEW x
    PROVE  /\ Of(list, x) \in SUBSET (1 .. Len(list))
           /\ \A i \in 1 .. Len(list) : i \in Of(list, x) <=> list[i].prop = x
  BY DEF Of

LEMMA HeldIncreases ==
    ASSUME TypeOK, NEW d \in Devices, NEW p \in Devices, NEW x \in Props,
           SameIds(clientSubs[d][p], serviceSubs[p], x)
    PROVE  /\ Held(d, p, x) \in Seq(Nat) /\ Increasing(Held(d, p, x))
           /\ Elems(Held(d, p, x)) = {s.id : s \in {t \in Elems(clientSubs[d][p]) : t.prop = x}}
<1> DEFINE subs == clientSubs[d][p]
           l == HeldList(d, p)
           I == Of(subs, x)
           h == Picked(l, I)
<1>1. /\ l \in Seq(SubIds \cup {NoId}) /\ Len(l) = Len(subs)
      /\ \A i \in 1 .. Len(subs) : l[i] = subs[i].id
  BY IdsAre DEF HeldList
<1>2. Held(d, p, x) = h
  BY HeldIs
<1>3. I \in SUBSET (1 .. Len(subs)) /\ \A i \in 1 .. Len(subs) : i \in I <=> subs[i].prop = x
  BY HeldPlaces
<1>4. /\ \A i, j \in 1 .. Len(subs) :
            i < j /\ subs[i].prop = x /\ subs[j].prop = x => subs[i].id < subs[j].id
      /\ \A s \in Elems(subs) : s.prop = x => s.id \in Nat
  BY DEF SameIds
<1> HIDE DEF subs, l, I
<1>5. \A i, j \in I : i < j => l[i] < l[j]
  BY <1>1, <1>3, <1>4
<1>6. Increasing(h)
  BY <1>1, <1>3, <1>5, PickedIncreasing
<1>7. \A i \in I : l[i] \in Nat /\ subs[i] \in Elems(subs) /\ l[i] = subs[i].id /\ subs[i].prop = x
  BY <1>1, <1>3, <1>4 DEF Elems
<1>8. /\ h \in Seq(SubIds \cup {NoId})
      /\ \A n \in 1 .. Len(h) : \E i \in I : h[n] = l[i]
      /\ \A i \in I : \E n \in 1 .. Len(h) : h[n] = l[i]
  <2>1. I \in SUBSET (1 .. Len(l))
    BY <1>1, <1>3
  <2> QED
    BY <1>1, <2>1, PickedIs
<1> HIDE DEF h
<1>9. h \in Seq(Nat)
  <2>1. \A n \in 1 .. Len(h) : h[n] \in Nat
    BY <1>7, <1>8
  <2> QED
    BY <1>8, <2>1, SeqNarrow
<1>10. \A s \in Elems(subs) : s.prop = x => \E i \in I : s = subs[i]
  BY <1>3 DEF Elems
<1>11. Elems(h) = {s.id : s \in {t \in Elems(subs) : t.prop = x}}
  <2>1. ASSUME NEW v \in Elems(h) PROVE \E s \in Elems(subs) : s.prop = x /\ v = s.id
    <3>1. PICK n \in 1 .. Len(h) : v = h[n]
      BY <2>1 DEF Elems
    <3>2. PICK i \in I : h[n] = l[i]
      BY <1>8
    <3> QED
      BY <1>7, <3>1, <3>2
  <2>2. ASSUME NEW s \in Elems(subs), s.prop = x PROVE s.id \in Elems(h)
    <3>1. PICK i \in I : s = subs[i]
      BY <1>10, <2>2
    <3>2. PICK n \in 1 .. Len(h) : h[n] = l[i]
      BY <1>8
    <3>3. h[n] = s.id
      BY <1>7, <3>1, <3>2
    <3> QED
      BY <3>3 DEF Elems
  <2> QED
    BY <2>1, <2>2
<1> QED
  BY <1>2, <1>6, <1>9, <1>11 DEF subs

LEMMA ServedIncreases ==
    ASSUME Assumed, Sound, NEW d \in Devices, NEW p \in Devices, NEW x \in Props,
           Used(scenario, d, p, x)
    PROVE  /\ ServedIds(d, p, x) \in Seq(Nat) /\ Increasing(ServedIds(d, p, x))
           /\ Elems(ServedIds(d, p, x)) =
                {s.id : s \in {t \in Elems(serviceSubs[p]) : t.prop = x}}
<1> DEFINE subs == serviceSubs[p]
           l == ServedList(p)
           I == ServedPlaces(d, p, x)
           h == Picked(l, I)
<1>0. TypeOK /\ Issued
  BY DEF Sound
<1>1. /\ l \in Seq(SubIds) /\ Len(l) = Len(subs)
      /\ \A i \in 1 .. Len(subs) : l[i] = subs[i].id
  BY <1>0, IdsAre DEF ServedList
<1>2. ServedIds(d, p, x) = h
  BY HeldIs
<1>3. I \in SUBSET (1 .. Len(subs)) /\ \A i \in 1 .. Len(subs) : i \in I <=> subs[i].prop = x
  <2>1. \A i \in 1 .. Len(subs) : subs[i].prop = x => subs[i].muid = d
    BY ServedOwn DEF Elems
  <2> QED
    BY <2>1 DEF ServedPlaces
<1>4. \A i, j \in 1 .. Len(subs) : i < j => subs[i].id < subs[j].id
  BY <1>0 DEF Issued, IdsUpTo, Ascending
<1> HIDE DEF subs, l, I
<1>5. \A i, j \in I : i < j => l[i] < l[j]
  BY <1>1, <1>3, <1>4
<1>6. Increasing(h)
  BY <1>1, <1>3, <1>5, PickedIncreasing
<1>7. \A i \in I : subs[i] \in Elems(subs) /\ l[i] = subs[i].id /\ subs[i].prop = x
  BY <1>1, <1>3 DEF Elems
<1>8. /\ h \in Seq(SubIds)
      /\ \A n \in 1 .. Len(h) : \E i \in I : h[n] = l[i]
      /\ \A i \in I : \E n \in 1 .. Len(h) : h[n] = l[i]
  <2>1. I \in SUBSET (1 .. Len(l))
    BY <1>1, <1>3
  <2> QED
    BY <1>1, <2>1, PickedIs
<1> HIDE DEF h
<1>9. h \in Seq(Nat)
  <2>1. \A n \in 1 .. Len(h) : h[n] \in Nat
    BY <1>8, ElementOfSeq, Numbers
  <2> QED
    BY <1>8, <2>1, SeqNarrow
<1>10. \A s \in Elems(subs) : s.prop = x => \E i \in I : s = subs[i]
  BY <1>3 DEF Elems
<1>11. Elems(h) = {s.id : s \in {t \in Elems(subs) : t.prop = x}}
  <2>1. ASSUME NEW v \in Elems(h) PROVE \E s \in Elems(subs) : s.prop = x /\ v = s.id
    BY <1>7, <1>8 DEF Elems
  <2>2. ASSUME NEW s \in Elems(subs), s.prop = x PROVE s.id \in Elems(h)
    <3>1. PICK i \in I : s = subs[i]
      BY <1>10, <2>2
    <3>2. PICK n \in 1 .. Len(h) : h[n] = l[i]
      BY <1>8
    <3>3. h[n] = s.id
      BY <1>7, <3>1, <3>2
    <3> QED
      BY <3>3 DEF Elems
  <2> QED
    BY <2>1, <2>2
<1> QED
  BY <1>2, <1>6, <1>9, <1>11 DEF subs

LEMMA SoundAgrees ==
    ASSUME Assumed, Sound
    PROVE  Agreement
<1>1. ASSUME NEW d \in Devices, NEW p \in Devices, NEW x \in Props,
             Uses(d, p, x), scenario.hosts = {}, Quiet(d, p)
      PROVE  Held(d, p, x) = ServedIds(d, p, x)
  <2> DEFINE a == Held(d, p, x)
             b == ServedIds(d, p, x)
             A == Elems(clientSubs[d][p])
             B == Elems(serviceSubs[p])
  <2>1. TypeOK /\ Used(scenario, d, p, x)
    BY <1>1 DEF Sound, Uses, Used
  <2>2. SameIds(clientSubs[d][p], serviceSubs[p], x)
    BY <1>1, QuietIds
  <2>3. /\ a \in Seq(Nat) /\ Increasing(a)
        /\ Elems(a) = {s.id : s \in {t \in A : t.prop = x}}
    BY <2>1, <2>2, HeldIncreases
  <2>4. /\ b \in Seq(Nat) /\ Increasing(b)
        /\ Elems(b) = {s.id : s \in {t \in B : t.prop = x}}
    BY <2>1, ServedIncreases
  <2>5. /\ \A s \in A : s.prop = x => \E e \in B : e.prop = x /\ e.id = s.id
        /\ \A e \in B : e.prop = x => \E s \in A : s.prop = x /\ s.id = e.id
    BY <2>2 DEF SameIds
  <2> HIDE DEF a, b, A, B
  <2>6. Elems(a) = Elems(b)
    BY <2>3, <2>4, <2>5
  <2>7. a = b
    BY <2>3, <2>4, <2>6, IncreasingSame
  <2> QED
    BY <2>7 DEF a, b
<1> QED
  BY <1>1 DEF Agreement

LEMMA SoundRemoved ==
    ASSUME Assumed, Sound
    PROVE  UnsubscribedIsRemoved
<1>1. ASSUME NEW d \in Devices, NEW p \in Devices, NEW x \in Props,
             Uses(d, p, x), scenario.hosts = {}, Quiet(d, p), Held(d, p, x) = <<>>
      PROVE  [muid |-> d, prop |-> x] \notin Elems(facadeSubs[p])
  <2> DEFINE none == <<>>
             out == wire[d][p]
             in == wire[p][d]
             hosts == scenario.hosts
             subs == clientSubs[d][p]
             h == Held(d, p, x)
  <2>1. TypeOK /\ Used(scenario, d, p, x)
    BY <1>1 DEF Sound, Uses, Used
  <2>2. SameIds(subs, serviceSubs[p], x)
    BY <1>1, QuietIds
  <2>3. Elems(h) = {s.id : s \in {t \in Elems(subs) : t.prop = x}}
    BY <2>1, <2>2, HeldIncreases
  <2>4. Len(h) = 0
    BY <1>1
  <2>5. subs \in Seq(Subs) /\ counter[d] \in Nat
    BY <2>1, ListsAre
  <2>6. History(d, x, counter[d], lastId, out, in, hosts,
                serviceSubs[p], facadeSubs[p], subs, ruleSubs[d][p])
    BY <2>1, ExplainedIs
  <2>7. out = none /\ in = none /\ hosts = {}
    BY <1>1 DEF Quiet
  <2> HIDE DEF none, out, in, hosts, subs, h
  <2>8. Elems(h) = {}
    BY <2>4 DEF Elems
  <2>9. \A s \in Elems(subs) : s.prop # x
    BY <2>3, <2>8
  <2>10. History(d, x, counter[d], lastId, none, none, {},
                 serviceSubs[p], facadeSubs[p], subs, ruleSubs[d][p])
    BY <2>6, <2>7
  <2> QED
    BY <2>5, <2>9, <2>10, HistoryRemoved DEF none
<1> QED
  BY <1>1 DEF UnsubscribedIsRemoved, Elems

-----------------------------------------------------------------------------
(* The theorems.                                                           *)

LEMMA AlwaysSound ==
    ASSUME Assumed
    PROVE  Spec => []Sound
<1>1. Init => Sound
  BY SoundInit
<1>2. Sound /\ [Next]_vars => Sound'
  BY SoundStep
<1> QED
  BY <1>1, <1>2, PTL DEF Spec

\* What a client shows as Subscribed is in force at both ends: the host's
\* service has it, and the client's rules have the newest subscription.
THEOREM Subscribed ==
    ASSUME OneSubscriber, OneWay, FewRequests
    PROVE  Spec => []SubscribedIsServed
<1>1. Assumed
  BY DEF Assumed
<1>2. Spec => []Sound
  BY <1>1, AlwaysSound
<1>3. Sound => SubscribedIsServed
  BY <1>1, SoundServes, SoundKnows DEF SubscribedIsServed
<1> QED
  BY <1>2, <1>3, PTL

\* Where no host ends a subscription, a client and a host with no message
\* between them list the same subscribeIds in the same order.
THEOREM BothAgree ==
    ASSUME OneSubscriber, OneWay, FewRequests
    PROVE  Spec => []Agreement
<1>1. Assumed
  BY DEF Assumed
<1>2. Spec => []Sound
  BY <1>1, AlwaysSound
<1>3. Sound => Agreement
  BY <1>1, SoundAgrees
<1> QED
  BY <1>2, <1>3, PTL

\* A property that a client has left is gone from the list that the host's
\* application sees.
THEOREM LeftIsRemoved ==
    ASSUME OneSubscriber, OneWay, FewRequests
    PROVE  Spec => []UnsubscribedIsRemoved
<1>1. Assumed
  BY DEF Assumed
<1>2. Spec => []Sound
  BY <1>1, AlwaysSound
<1>3. Sound => UnsubscribedIsRemoved
  BY <1>1, SoundRemoved
<1> QED
  BY <1>2, <1>3, PTL
=============================================================================
