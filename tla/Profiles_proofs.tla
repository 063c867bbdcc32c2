--------------------------- MODULE Profiles_proofs ---------------------------
(***************************************************************************)
(* Proofs about Profiles, for any profiles, addresses and bounds.  What a  *)
(* list says about one profile is absent, off or on; what a line of        *)
(* messages makes of that is a function on these three.                    *)
(***************************************************************************)
EXTENDS Profiles, FiniteSetTheorems, SequenceTheorems, WellFoundedInduction, TLAPS

States == {"absent", "off", "on"}

OnOff(e) == IF e.enabled THEN "on" ELSE "off"

\* What a list says about k.
State(list, k) ==
    IF Has(list, k) THEN OnOff(list[CHOOSE i \in 1 .. Len(list) : IsFirst(list, k, i)])
    ELSE "absent"

-----------------------------------------------------------------------------
\* Picking elements of a list.

LEMMA LeastOf ==
    ASSUME NEW S \in SUBSET Nat, S # {}
    PROVE  \E c \in S : \A d \in S : c <= d
<1>1. PICK c \in S : \A d \in S : <<d, c>> \notin OpToRel(<, Nat)
  BY NatLessThanWellFounded, WFMin
<1>2. ASSUME NEW d \in S PROVE c <= d
  <2>1. ~(d < c)
    BY <1>1 DEF OpToRel
  <2> QED
    BY <2>1
<1> QED
  BY <1>2

\* Rank numbers the elements of a set without gaps.
LEMMA RankIs ==
    ASSUME NEW n \in Nat, NEW I \in SUBSET (1 .. n)
    PROVE  /\ Cardinality(I) \in Nat
           /\ \A i \in I : Rank(I, i) \in 1 .. Cardinality(I)
           /\ \A i, j \in I : Rank(I, i) = Rank(I, j) => i = j
           /\ \A m \in 1 .. Cardinality(I) : \E i \in I : Rank(I, i) = m
<1> DEFINE Up(i) == {j \in I : j <= i}
           size == Cardinality(I)
<1>1. IsFiniteSet(I) /\ size \in Nat
  <2>1. IsFiniteSet(1 .. n)
    BY FS_Interval
  <2>2. IsFiniteSet(I)
    BY <2>1, FS_Subset
  <2> QED
    BY <2>2, FS_CardinalityType
<1>2. ASSUME NEW i \in I
      PROVE  IsFiniteSet(Up(i)) /\ Cardinality(Up(i)) \in 1 .. size
  <2> DEFINE U == Up(i)
  <2>1. IsFiniteSet(U) /\ Cardinality(U) <= size
    BY <1>1, FS_Subset
  <2>2. i \in U
    <3>1. i \in 1 .. n /\ i <= i
      OBVIOUS
    <3> QED
      BY <3>1
  <2> HIDE DEF U
  <2>3. Cardinality(U) \in Nat /\ Cardinality(U) # 0
    BY <2>1, <2>2, FS_CardinalityType, FS_EmptySet
  <2>4. IsFiniteSet(U) /\ Cardinality(U) \in 1 .. size
    BY <1>1, <2>1, <2>3
  <2> QED
    BY <2>4 DEF U
<1>3. ASSUME NEW i \in I, NEW j \in I, i < j PROVE Cardinality(Up(i)) # Cardinality(Up(j))
  <2>1. Up(i) \in SUBSET Up(j)
    <3>1. \A k \in 1 .. n : k <= i => k <= j
      BY <1>3
    <3> QED
      BY <3>1
  <2>2. j \in Up(j) /\ j \notin Up(i)
    <3>1. j \in 1 .. n /\ j <= j /\ ~(j <= i)
      BY <1>3
    <3> QED
      BY <3>1
  <2>3. IsFiniteSet(Up(j))
    BY <1>2
  <2> HIDE DEF Up
  <2> QED
    BY <2>1, <2>2, <2>3, FS_Subset
<1>4. \A i \in I : Rank(I, i) = Cardinality(Up(i))
  BY DEF Rank
<1> HIDE DEF Up
<1>5. \A i, j \in I : Rank(I, i) = Rank(I, j) => i = j
  <2> SUFFICES ASSUME NEW i \in I, NEW j \in I, Rank(I, i) = Rank(I, j) PROVE i = j
    OBVIOUS
  <2>1. ~(i < j) /\ ~(j < i)
    BY <1>3, <1>4
  <2> QED
    BY <2>1
<1>6. \A i \in I : Rank(I, i) \in 1 .. size
  BY <1>2, <1>4
<1> DEFINE f == [i \in I |-> Rank(I, i)]
<1>7. f \in Injection(I, 1 .. size)
  BY <1>5, <1>6 DEF Injection, IsInjective
<1>8. IsFiniteSet(1 .. size) /\ Cardinality(1 .. size) = size
  <2>1. 1 \in Int /\ size \in Int /\ size - 1 + 1 = size /\ (1 > size => size = 0)
    BY <1>1
  <2> HIDE DEF size
  <2> QED
    BY <2>1, FS_Interval
<1>9. f \in Surjection(I, 1 .. size)
  BY <1>7, <1>8, FS_Injection DEF size
<1>10. \A m \in 1 .. size : \E i \in I : Rank(I, i) = m
  BY <1>9 DEF Surjection
<1> QED
  BY <1>1, <1>5, <1>6, <1>10

LEMMA PickedIs ==
    ASSUME NEW S, NEW list \in Seq(S), NEW I \in SUBSET (1 .. Len(list))
    PROVE  /\ Picked(list, I) \in Seq(S)
           /\ \A n \in 1 .. Len(Picked(list, I)) :
                \E i \in I : Picked(list, I)[n] = list[i] /\ Rank(I, i) = n
           /\ \A i \in I :
                \E n \in 1 .. Len(Picked(list, I)) : Picked(list, I)[n] = list[i]
<1> DEFINE p == Picked(list, I)
           size == Cardinality(I)
           At(n) == CHOOSE i \in I : Rank(I, i) = n
<1>1. /\ size \in Nat
      /\ \A i \in I : Rank(I, i) \in 1 .. size
      /\ \A i, j \in I : Rank(I, i) = Rank(I, j) => i = j
      /\ \A m \in 1 .. size : \E i \in I : Rank(I, i) = m
  BY RankIs, LenProperties
<1>2. \A n \in 1 .. size : At(n) \in I /\ Rank(I, At(n)) = n
  BY <1>1
<1>3. p = [n \in 1 .. size |-> list[At(n)]]
  BY DEF Picked
<1> HIDE DEF p, size, At
<1>4. \A n \in 1 .. size : list[At(n)] \in S
  BY <1>2, ElementOfSeq
<1>5. p \in Seq(S) /\ Len(p) = size
  BY <1>1, <1>3, <1>4, IsASeq
<1>6. \A n \in 1 .. Len(p) : \E i \in I : p[n] = list[i] /\ Rank(I, i) = n
  BY <1>2, <1>3, <1>5
<1>7. ASSUME NEW i \in I PROVE \E n \in 1 .. Len(p) : p[n] = list[i]
  <2>1. Rank(I, i) \in 1 .. size /\ At(Rank(I, i)) = i
    BY <1>1, <1>2
  <2> QED
    BY <1>3, <1>5, <2>1
<1> QED
  BY <1>5, <1>6, <1>7 DEF p

-----------------------------------------------------------------------------
\* Lists put together.

LEMMA TailIs ==
    ASSUME NEW S, NEW line \in Seq(S), line # <<>>
    PROVE  /\ Head(line) \in S /\ Head(line) = line[1] /\ 1 \in 1 .. Len(line)
           /\ Tail(line) \in Seq(S) /\ Len(Tail(line)) = Len(line) - 1
           /\ Len(line) \in Nat
           /\ \A i \in 1 .. Len(Tail(line)) :
                i + 1 \in 1 .. Len(line) /\ Tail(line)[i] = line[i + 1]
  BY HeadTailProperties, LenProperties, EmptySeq

LEMMA ConcatIs ==
    ASSUME NEW S, NEW a \in Seq(S), NEW b \in Seq(S)
    PROVE  /\ a \o b \in Seq(S) /\ Len(a \o b) = Len(a) + Len(b)
           /\ Len(a) \in Nat /\ Len(b) \in Nat
           /\ \A i \in 1 .. Len(a) : i \in 1 .. Len(a \o b) /\ (a \o b)[i] = a[i]
           /\ \A j \in 1 .. Len(b) :
                Len(a) + j \in 1 .. Len(a \o b) /\ (a \o b)[Len(a) + j] = b[j]
           /\ \A i \in 1 .. Len(a \o b) :
                i \in 1 .. Len(a) \/ \E j \in 1 .. Len(b) : i = Len(a) + j
<1>1. Len(a) \in Nat /\ Len(b) \in Nat
  BY LenProperties
<1>2. /\ a \o b \in Seq(S) /\ Len(a \o b) = Len(a) + Len(b)
      /\ \A i \in 1 .. Len(a) + Len(b) :
            (a \o b)[i] = IF i <= Len(a) THEN a[i] ELSE b[i - Len(a)]
  BY ConcatProperties
<1> DEFINE n == Len(a)
           k == Len(b)
           l == a \o b
<1> HIDE DEF n, k, l
<1>3. /\ l \in Seq(S) /\ Len(l) = n + k /\ n \in Nat /\ k \in Nat
      /\ \A i \in 1 .. n + k : l[i] = IF i <= n THEN a[i] ELSE b[i - n]
  BY <1>1, <1>2 DEF n, k, l
<1>4. \A i \in 1 .. n : i \in 1 .. Len(l) /\ l[i] = a[i]
  BY <1>3
<1>5. \A j \in 1 .. k : n + j \in 1 .. Len(l) /\ l[n + j] = b[j]
  BY <1>3
<1>6. ASSUME NEW i \in 1 .. Len(l), i \notin 1 .. n PROVE \E j \in 1 .. k : i = n + j
  <2>1. i - n \in 1 .. k /\ i = n + (i - n)
    BY <1>3, <1>6
  <2> QED
    BY <2>1
<1> QED
  BY <1>3, <1>4, <1>5, <1>6 DEF n, k, l

LEMMA OneIs ==
    ASSUME NEW S, NEW x \in S
    PROVE  <<x>> \in Seq(S) /\ Len(<<x>>) = 1 /\ <<x>>[1] = x
  OBVIOUS

LEMMA AppendIs ==
    ASSUME NEW S, NEW line \in Seq(S), NEW x \in S
    PROVE  Append(line, x) = line \o <<x>>
  BY AppendIsConcat

-----------------------------------------------------------------------------
\* What a list says about a profile.

LEMMA Fields ==
    ASSUME NEW e \in Entries
    PROVE  e.id \in Ids /\ e.address \in Addresses /\ e.enabled \in BOOLEAN
           /\ Key(e) \in ProfileKeys /\ OnOff(e) \in {"off", "on"}
           /\ Key(e)[1] = e.id /\ Key(e)[2] = e.address
  BY DEF Entries, Key, ProfileKeys, OnOff

LEMMA FirstIs ==
    ASSUME NEW list \in Seq(Entries), NEW k, Has(list, k)
    PROVE  \E i \in 1 .. Len(list) : IsFirst(list, k, i)
<1> DEFINE P == {i \in 1 .. Len(list) : Key(list[i]) = k}
<1>1. P \in SUBSET Nat /\ P # {}
  BY DEF Has
<1>2. PICK i \in P : \A j \in P : i <= j
  BY <1>1, LeastOf
<1> QED
  BY <1>2 DEF IsFirst

LEMMA StateFirst ==
    ASSUME NEW list \in Seq(Entries), NEW k, NEW i, IsFirst(list, k, i)
    PROVE  State(list, k) = OnOff(list[i])
<1> DEFINE j == CHOOSE j \in 1 .. Len(list) : IsFirst(list, k, j)
<1>1. IsFirst(list, k, j)
  BY DEF IsFirst
<1>2. i \in 1 .. Len(list) /\ j \in 1 .. Len(list) /\ i <= j /\ j <= i
  BY <1>1 DEF IsFirst
<1>3. i = j
  <2> HIDE DEF j
  <2> QED
    BY <1>2, LenProperties
<1>4. Has(list, k)
  BY DEF IsFirst, Has
<1> QED
  BY <1>3, <1>4 DEF State

\* Of a list that has nothing twice any entry will do.
LEMMA StateOf ==
    ASSUME NEW list \in Seq(Entries), NoneTwice(list), NEW i \in 1 .. Len(list)
    PROVE  State(list, Key(list[i])) = OnOff(list[i])
<1>1. \A j \in 1 .. Len(list) : Key(list[j]) = Key(list[i]) => i <= j
  BY LenProperties DEF NoneTwice
<1>2. IsFirst(list, Key(list[i]), i)
  BY <1>1 DEF IsFirst
<1> QED
  BY <1>2, StateFirst

LEMMA StateIs ==
    ASSUME NEW list \in Seq(Entries), NEW k
    PROVE  /\ State(list, k) \in States
           /\ State(list, k) = "absent" <=> ~Has(list, k)
           /\ \A i \in 1 .. Len(list) : Key(list[i]) = k => State(list, k) # "absent"
<1>1. CASE Has(list, k)
  <2>1. PICK i \in 1 .. Len(list) : IsFirst(list, k, i)
    BY <1>1, FirstIs
  <2>2. State(list, k) = OnOff(list[i])
    BY <2>1, StateFirst
  <2> QED
    BY <1>1, <2>2 DEF OnOff, States
<1>2. CASE ~Has(list, k)
  BY <1>2 DEF State, States, Has
<1> QED
  BY <1>1, <1>2

LEMMA StateEmpty ==
    /\ <<>> \in Seq(Entries) /\ NoneTwice(<<>>)
    /\ \A k : State(<<>>, k) = "absent" /\ ~Has(<<>>, k)
<1>1. Len(<<>>) = 0 /\ 1 .. 0 = {} /\ <<>> \in Seq(Entries)
  OBVIOUS
<1>2. \A k : ~Has(<<>>, k)
  BY <1>1 DEF Has
<1> QED
  BY <1>1, <1>2, StateIs DEF NoneTwice

\* The first of two lists that knows k decides.
LEMMA StateConcat ==
    ASSUME NEW a \in Seq(Entries), NEW b \in Seq(Entries), NEW k
    PROVE  /\ State(a \o b, k) = IF Has(a, k) THEN State(a, k) ELSE State(b, k)
           /\ Has(a \o b, k) <=> Has(a, k) \/ Has(b, k)
<1> DEFINE l == a \o b
           n == Len(a)
<1>1. /\ l \in Seq(Entries) /\ n \in Nat /\ Len(b) \in Nat
      /\ \A i \in 1 .. n : i \in 1 .. Len(l) /\ l[i] = a[i]
      /\ \A j \in 1 .. Len(b) : n + j \in 1 .. Len(l) /\ l[n + j] = b[j]
      /\ \A i \in 1 .. Len(l) : i \in 1 .. n \/ \E j \in 1 .. Len(b) : i = n + j
  BY ConcatIs
<1> HIDE DEF l, n
<1>2. Has(l, k) <=> Has(a, k) \/ Has(b, k)
  BY <1>1 DEF Has, n
<1>3. CASE Has(a, k)
  <2>1. PICK i \in 1 .. n : IsFirst(a, k, i)
    BY <1>3, FirstIs DEF n
  <2>2. IsFirst(l, k, i)
    <3>1. i \in 1 .. Len(l) /\ Key(l[i]) = k
      BY <1>1, <2>1 DEF IsFirst
    <3>2. ASSUME NEW j \in 1 .. Len(l), Key(l[j]) = k PROVE i <= j
      <4>1. CASE j \in 1 .. n
        BY <1>1, <2>1, <3>2, <4>1 DEF IsFirst, n
      <4>2. CASE j \notin 1 .. n
        BY <1>1, <4>2
      <4> QED
        BY <4>1, <4>2
    <3> QED
      BY <3>1, <3>2 DEF IsFirst
  <2>3. State(l, k) = OnOff(l[i]) /\ State(a, k) = OnOff(a[i])
    BY <1>1, <2>1, <2>2, StateFirst
  <2> QED
    BY <1>1, <1>2, <1>3, <2>3 DEF l
<1>4. CASE ~Has(a, k) /\ Has(b, k)
  <2>1. PICK i \in 1 .. Len(b) : IsFirst(b, k, i)
    BY <1>4, FirstIs
  <2>2. IsFirst(l, k, n + i)
    <3>1. n + i \in 1 .. Len(l) /\ Key(l[n + i]) = k
      BY <1>1, <2>1 DEF IsFirst
    <3>2. ASSUME NEW j \in 1 .. Len(l), Key(l[j]) = k PROVE n + i <= j
      <4>1. j \notin 1 .. n
        BY <1>1, <1>4, <3>2 DEF Has, n
      <4>2. PICK h \in 1 .. Len(b) : j = n + h
        BY <1>1, <4>1
      <4>3. i <= h
        BY <1>1, <2>1, <3>2, <4>2 DEF IsFirst
      <4> QED
        BY <1>1, <4>2, <4>3
    <3> QED
      BY <3>1, <3>2 DEF IsFirst
  <2>3. State(l, k) = OnOff(l[n + i]) /\ State(b, k) = OnOff(b[i])
    BY <1>1, <2>1, <2>2, StateFirst
  <2> QED
    BY <1>1, <1>2, <1>4, <2>3 DEF l
<1>5. CASE ~Has(a, k) /\ ~Has(b, k)
  BY <1>1, <1>2, <1>5, StateIs DEF l
<1> QED
  BY <1>3, <1>4, <1>5

\* The keys of a list, taken from places that have different keys.
LEMMA PickedOnce ==
    ASSUME NEW list \in Seq(Entries), NEW I \in SUBSET (1 .. Len(list)),
           \A i, j \in I : Key(list[i]) = Key(list[j]) => i = j
    PROVE  /\ Picked(list, I) \in Seq(Entries) /\ NoneTwice(Picked(list, I))
           /\ \A n \in 1 .. Len(Picked(list, I)) : \E i \in I : Picked(list, I)[n] = list[i]
           /\ \A i \in I : State(Picked(list, I), Key(list[i])) = OnOff(list[i])
<1> DEFINE p == Picked(list, I)
<1>1. /\ p \in Seq(Entries)
      /\ \A n \in 1 .. Len(p) : \E i \in I : p[n] = list[i] /\ Rank(I, i) = n
      /\ \A i \in I : \E n \in 1 .. Len(p) : p[n] = list[i]
  BY PickedIs
<1> HIDE DEF p
<1>2. NoneTwice(p)
  BY <1>1 DEF NoneTwice
<1>3. ASSUME NEW i \in I PROVE State(p, Key(list[i])) = OnOff(list[i])
  <2>1. PICK n \in 1 .. Len(p) : p[n] = list[i]
    BY <1>1
  <2> QED
    BY <1>1, <1>2, <2>1, StateOf
<1> QED
  BY <1>1, <1>2, <1>3 DEF p

LEMMA StateAdded ==
    ASSUME NEW list \in Seq(Entries), NoneTwice(list), NEW entries \in Seq(Entries)
    PROVE  /\ Added(list, entries) \in Seq(Entries) /\ NoneTwice(Added(list, entries))
           /\ \A k : State(Added(list, entries), k) =
                IF State(list, k) = "absent" THEN State(entries, k) ELSE State(list, k)
<1> DEFINE I == {i \in 1 .. Len(entries) :
                    /\ ~Has(list, Key(entries[i]))
                    /\ IsFirst(entries, Key(entries[i]), i)}
           p == Picked(entries, I)
           l == list \o p
<1>1. I \in SUBSET (1 .. Len(entries))
  OBVIOUS
<1>2. \A i, j \in I : Key(entries[i]) = Key(entries[j]) => i = j
  BY LenProperties DEF IsFirst
<1>3. /\ p \in Seq(Entries) /\ NoneTwice(p)
      /\ \A n \in 1 .. Len(p) : \E i \in I : p[n] = entries[i]
      /\ \A i \in I : State(p, Key(entries[i])) = OnOff(entries[i])
  BY <1>1, <1>2, PickedOnce
<1>4. \A n \in 1 .. Len(p) : ~Has(list, Key(p[n])) /\ Has(entries, Key(p[n]))
  <2>1. \A i \in I : ~Has(list, Key(entries[i])) /\ Has(entries, Key(entries[i]))
    BY DEF Has
  <2> HIDE DEF p, I
  <2> QED
    BY <1>3, <2>1
<1>5. /\ l \in Seq(Entries)
      /\ \A i \in 1 .. Len(list) : l[i] = list[i]
      /\ \A j \in 1 .. Len(p) : l[Len(list) + j] = p[j]
      /\ \A i \in 1 .. Len(l) :
            i \in 1 .. Len(list) \/ \E j \in 1 .. Len(p) : i = Len(list) + j
  <2> HIDE DEF I, p
  <2> QED
    BY <1>3, ConcatIs
<1>6. Added(list, entries) = l
  BY DEF Added
<1>7. \A k : State(l, k) = IF Has(list, k) THEN State(list, k) ELSE State(p, k)
  BY <1>3, StateConcat
<1>8. ASSUME NEW k, ~Has(list, k) PROVE State(p, k) = State(entries, k)
  <2>1. CASE Has(entries, k)
    <3>1. PICK i \in 1 .. Len(entries) : IsFirst(entries, k, i)
      BY <2>1, FirstIs
    <3>2. Key(entries[i]) = k
      BY <3>1 DEF IsFirst
    <3>3. i \in I
      BY <1>8, <3>1, <3>2
    <3> HIDE DEF I, p
    <3>4. State(p, k) = OnOff(entries[i])
      BY <1>3, <3>2, <3>3
    <3> QED
      BY <3>1, <3>4, StateFirst
  <2>2. CASE ~Has(entries, k)
    <3> HIDE DEF I, p
    <3>1. ~Has(p, k)
      BY <1>4, <2>2 DEF Has
    <3> QED
      BY <1>3, <2>2, <3>1, StateIs
  <2> QED
    BY <2>1, <2>2
<1> HIDE DEF I, p, l
<1>9. NoneTwice(l)
  <2> SUFFICES ASSUME NEW i \in 1 .. Len(l), NEW j \in 1 .. Len(l), Key(l[i]) = Key(l[j])
               PROVE  i = j
    BY DEF NoneTwice
  <2>1. CASE i \in 1 .. Len(list) /\ j \in 1 .. Len(list)
    BY <1>5, <2>1 DEF NoneTwice
  <2>2. ASSUME NEW a \in 1 .. Len(list), NEW b \in 1 .. Len(p) PROVE Key(list[a]) # Key(p[b])
    BY <1>4 DEF Has
  <2>3. ASSUME NEW a \in 1 .. Len(p), NEW b \in 1 .. Len(p), i = Len(list) + a, j = Len(list) + b
        PROVE  i = j
    <3>1. Key(p[a]) = Key(p[b])
      BY <1>5, <2>3
    <3> QED
      BY <1>3, <2>3, <3>1 DEF NoneTwice
  <2>4. CASE i \notin 1 .. Len(list) /\ j \notin 1 .. Len(list)
    BY <1>5, <2>3, <2>4
  <2>5. CASE i \in 1 .. Len(list) /\ j \notin 1 .. Len(list)
    <3>1. PICK b \in 1 .. Len(p) : j = Len(list) + b
      BY <1>5, <2>5
    <3>2. l[i] = list[i] /\ l[j] = p[b]
      BY <1>5, <2>5, <3>1
    <3> QED
      BY <2>2, <2>5, <3>2
  <2>6. CASE i \notin 1 .. Len(list) /\ j \in 1 .. Len(list)
    <3>1. PICK b \in 1 .. Len(p) : i = Len(list) + b
      BY <1>5, <2>6
    <3>2. l[j] = list[j] /\ l[i] = p[b]
      BY <1>5, <2>6, <3>1
    <3> QED
      BY <2>2, <2>6, <3>2
  <2> QED
    BY <2>1, <2>4, <2>5, <2>6
<1> QED
  BY <1>3, <1>5, <1>6, <1>7, <1>8, <1>9, StateIs

LEMMA StateWithout ==
    ASSUME NEW list \in Seq(Entries), NoneTwice(list), NEW gone
    PROVE  /\ Without(list, gone) \in Seq(Entries) /\ NoneTwice(Without(list, gone))
           /\ \A k : State(Without(list, gone), k) =
                IF k = gone THEN "absent" ELSE State(list, k)
           /\ \A n \in 1 .. Len(Without(list, gone)) :
                \E i \in 1 .. Len(list) :
                    Without(list, gone)[n] = list[i] /\ Key(list[i]) # gone
<1> DEFINE I == {i \in 1 .. Len(list) : Key(list[i]) # gone}
           p == Picked(list, I)
<1>1. I \in SUBSET (1 .. Len(list)) /\ \A i, j \in I : Key(list[i]) = Key(list[j]) => i = j
  BY DEF NoneTwice
<1>2. /\ p \in Seq(Entries) /\ NoneTwice(p)
      /\ \A n \in 1 .. Len(p) : \E i \in I : p[n] = list[i]
      /\ \A i \in I : State(p, Key(list[i])) = OnOff(list[i])
  BY <1>1, PickedOnce
<1> HIDE DEF p
<1>3. \A n \in 1 .. Len(p) : \E i \in 1 .. Len(list) : p[n] = list[i] /\ Key(list[i]) # gone
  BY <1>2
<1>4. ASSUME NEW k PROVE State(p, k) = IF k = gone THEN "absent" ELSE State(list, k)
  <2>1. CASE Has(list, k) /\ k # gone
    <3>1. PICK i \in 1 .. Len(list) : Key(list[i]) = k
      BY <2>1 DEF Has
    <3>2. State(list, k) = OnOff(list[i])
      BY <3>1, StateOf
    <3> QED
      BY <1>2, <2>1, <3>1, <3>2
  <2>2. CASE ~Has(list, k) \/ k = gone
    <3>1. ~Has(p, k)
      BY <1>3, <2>2 DEF Has
    <3> QED
      BY <1>2, <2>2, <3>1, StateIs
  <2> QED
    BY <2>1, <2>2
<1>5. Without(list, gone) = p
  BY DEF Without, p
<1> QED
  BY <1>2, <1>3, <1>4, <1>5

LEMMA ToggledIs ==
    ASSUME NEW list \in Seq(Entries), NEW changed, NEW on \in BOOLEAN
    PROVE  /\ Toggled(list, changed, on) \in Seq(Entries)
           /\ Len(Toggled(list, changed, on)) = Len(list)
           /\ \A i \in 1 .. Len(list) :
                /\ Key(Toggled(list, changed, on)[i]) = Key(list[i])
                /\ Toggled(list, changed, on)[i].enabled =
                     IF Key(list[i]) = changed THEN on ELSE list[i].enabled
<1> DEFINE t == Toggled(list, changed, on)
           n == Len(list)
           x(i) == IF Key(list[i]) = changed THEN [list[i] EXCEPT !.enabled = on]
                   ELSE list[i]
<1>1. t = [i \in 1 .. n |-> x(i)] /\ n \in Nat
  BY LenProperties DEF Toggled
<1>2. \A i \in 1 .. n : list[i] \in Entries
  BY ElementOfSeq
<1>3. \A e \in Entries :
        /\ [e EXCEPT !.enabled = on] \in Entries
        /\ [e EXCEPT !.enabled = on].enabled = on
        /\ Key([e EXCEPT !.enabled = on]) = Key(e)
  BY DEF Entries, Key
<1>4. \A i \in 1 .. n : /\ x(i) \in Entries /\ Key(x(i)) = Key(list[i])
                        /\ x(i).enabled = IF Key(list[i]) = changed THEN on ELSE list[i].enabled
  BY <1>2, <1>3
<1> HIDE DEF x, n, t
<1>5. t \in Seq(Entries) /\ Len(t) = n
  BY <1>1, <1>4, IsASeq
<1> QED
  BY <1>1, <1>4, <1>5 DEF n, t

LEMMA StateToggled ==
    ASSUME NEW list \in Seq(Entries), NoneTwice(list), NEW changed, NEW on \in BOOLEAN
    PROVE  /\ NoneTwice(Toggled(list, changed, on))
           /\ \A k : State(Toggled(list, changed, on), k) =
                IF k = changed /\ State(list, k) # "absent"
                THEN (IF on THEN "on" ELSE "off") ELSE State(list, k)
<1> DEFINE t == Toggled(list, changed, on)
<1>1. /\ t \in Seq(Entries) /\ Len(t) = Len(list)
      /\ \A i \in 1 .. Len(list) :
           /\ Key(t[i]) = Key(list[i])
           /\ t[i].enabled = IF Key(list[i]) = changed THEN on ELSE list[i].enabled
  BY ToggledIs
<1> HIDE DEF t
<1>2. NoneTwice(t)
  BY <1>1 DEF NoneTwice
<1>3. ASSUME NEW k, Has(list, k)
      PROVE  State(t, k) = IF k = changed THEN (IF on THEN "on" ELSE "off") ELSE State(list, k)
  <2>1. PICK i \in 1 .. Len(list) : Key(list[i]) = k
    BY <1>3 DEF Has
  <2>2. State(list, k) = OnOff(list[i]) /\ State(t, k) = OnOff(t[i])
    BY <1>1, <1>2, <2>1, StateOf
  <2> QED
    BY <1>1, <2>1, <2>2 DEF OnOff
<1>4. ASSUME NEW k, ~Has(list, k) PROVE State(t, k) = "absent" /\ State(list, k) = "absent"
  <2>1. ~Has(t, k)
    BY <1>1, <1>4 DEF Has
  <2> QED
    BY <1>1, <1>4, <2>1, StateIs
<1>5. \A k : Has(list, k) => State(list, k) # "absent"
  BY StateIs
<1> QED
  BY <1>2, <1>3, <1>4, <1>5 DEF t

LEMMA StateMatching ==
    ASSUME host \in Seq(Entries), NoneTwice(host), NEW address, NEW on \in BOOLEAN
    PROVE  /\ Matching(address, on) \in Seq(Entries)
           /\ \A k : State(Matching(address, on), k) =
                IF k[2] = address /\ State(host, k) = (IF on THEN "on" ELSE "off")
                THEN State(host, k) ELSE "absent"
<1> DEFINE I == {i \in 1 .. Len(host) : host[i].address = address /\ host[i].enabled = on}
           p == Picked(host, I)
<1>1. I \in SUBSET (1 .. Len(host)) /\ \A i, j \in I : Key(host[i]) = Key(host[j]) => i = j
  BY DEF NoneTwice
<1>2. /\ p \in Seq(Entries)
      /\ \A n \in 1 .. Len(p) : \E i \in I : p[n] = host[i]
      /\ \A i \in I : State(p, Key(host[i])) = OnOff(host[i])
  BY <1>1, PickedOnce
<1>3. Matching(address, on) = p
  BY DEF Matching
<1>4. \A i \in 1 .. Len(host) :
        /\ host[i] \in Entries /\ State(host, Key(host[i])) = OnOff(host[i])
        /\ Key(host[i])[2] = host[i].address
  BY ElementOfSeq, StateOf, Fields
<1> HIDE DEF p
<1>5. ASSUME NEW k
      PROVE  State(p, k) = IF k[2] = address /\ State(host, k) = (IF on THEN "on" ELSE "off")
                           THEN State(host, k) ELSE "absent"
  <2>1. CASE Has(host, k)
    <3>1. PICK i \in 1 .. Len(host) : Key(host[i]) = k
      BY <2>1 DEF Has
    <3>2. i \in I <=> k[2] = address /\ State(host, k) = (IF on THEN "on" ELSE "off")
      BY <1>4, <3>1, Fields DEF OnOff
    <3>3. CASE i \in I
      BY <1>2, <1>4, <3>1, <3>2, <3>3
    <3>4. CASE i \notin I
      <4>1. \A j \in I : Key(host[j]) # k
        BY <3>1, <3>4 DEF NoneTwice
      <4>2. ~Has(p, k)
        BY <1>2, <4>1 DEF Has
      <4> QED
        BY <1>2, <3>2, <3>4, <4>2, StateIs
    <3> QED
      BY <3>3, <3>4
  <2>2. CASE ~Has(host, k)
    <3>1. ~Has(p, k)
      BY <1>2, <2>2 DEF Has
    <3> QED
      BY <1>2, <2>2, <3>1, StateIs
  <2> QED
    BY <2>1, <2>2
<1> QED
  BY <1>2, <1>3, <1>5

-----------------------------------------------------------------------------
\* What holds of each part.

\* A report is about one profile.
Reports == {m \in Messages : m.kind # "reply" /\ Len(m.entries) = 1}

Replies == {m \in Messages : m.kind = "reply"}

Answers ==
    [todo : SUBSET Addresses, found : {Nothing} \cup {<<l>> : l \in Seq(Entries)},
     replies : Seq(Replies)]

HostOK ==
    /\ host \in Seq(Entries) /\ NoneTwice(host)
    /\ local \in Seq(ProfileKeys) /\ LocalCovers
    /\ due = Nothing \/ \E m \in Reports : due = <<m>>
    /\ changes \in 0 .. MaxChanges
    /\ torn \subseteq ProfileKeys

AnswerOK ==
    \/ answer = Nothing
    \/ \E a \in Answers : answer = <<a>> /\ (a.found # Nothing => a.todo # {})

LineOK == wire \in Seq(Reports \cup Replies) /\ inquiries \in 0 .. conn

ClientOK ==
    /\ client \in Seq(Entries) /\ NoneTwice(client) /\ ShownFollows
    /\ conn \in 0 .. MaxConnections /\ (conn = 0 => client = <<>>)

Structure == HostOK /\ AnswerOK /\ LineOK /\ ClientOK

LEMMA KeysOfIs ==
    ASSUME NEW list \in Seq(Entries)
    PROVE  /\ KeysOf(list) \in Seq(ProfileKeys) /\ Len(KeysOf(list)) = Len(list)
           /\ \A i \in 1 .. Len(list) : KeysOf(list)[i] = Key(list[i])
<1> DEFINE n == Len(list)
           keys == KeysOf(list)
<1>1. keys = [i \in 1 .. n |-> Key(list[i])] /\ n \in Nat
  BY LenProperties DEF KeysOf
<1>2. \A i \in 1 .. n : Key(list[i]) \in ProfileKeys
  BY ElementOfSeq, Fields
<1> HIDE DEF keys, n
<1>3. keys \in Seq(ProfileKeys) /\ Len(keys) = n
  BY <1>1, <1>2, IsASeq
<1> QED
  BY <1>1, <1>3 DEF keys, n

LEMMA EntryIs ==
    ASSUME NEW k \in ProfileKeys, NEW on \in BOOLEAN
    PROVE  /\ Entry(k, on) \in Entries /\ Key(Entry(k, on)) = k
           /\ OnOff(Entry(k, on)) = IF on THEN "on" ELSE "off"
           /\ k[1] \in Ids /\ k[2] \in Addresses
  BY DEF Entry, Entries, Key, ProfileKeys, OnOff

LEMMA ReportIs ==
    ASSUME NEW k \in ProfileKeys, NEW kind \in {"added", "removed", "enabled", "disabled"}
    PROVE  \E m \in Reports :
             /\ Report(kind, k) = <<m>> /\ m.kind = kind
             /\ m.entries = <<Entry(k, kind = "enabled")>> /\ Key(m.entries[1]) = k
<1> DEFINE e == Entry(k, kind = "enabled")
           m == [kind |-> kind, entries |-> <<e>>]
<1>1. e \in Entries /\ Key(e) = k
  BY EntryIs
<1> HIDE DEF e
<1>2. <<e>> \in Seq(Entries) /\ Len(<<e>>) = 1 /\ <<e>>[1] = e
  BY <1>1, OneIs
<1>3. m \in Reports
  BY <1>2 DEF Reports, Messages
<1>4. Report(kind, k) = <<m>>
  BY DEF Report, e
<1> QED
  BY <1>1, <1>2, <1>3, <1>4 DEF e

LEMMA LeftoverIs ==
    ASSUME NEW list \in Seq(Entries), NEW k \in ProfileKeys, Has(list, k)
    PROVE  Leftover(list, k) \in ShownKeys /\ (Leftover(list, k) = k \/ Leftover(list, k)[1] = Gone)
<1>1. Len(list) \in 1 .. Len(list)
  BY LenProperties DEF Has
<1>2. Last(list) \in Entries
  BY <1>1, ElementOfSeq DEF Last
<1>3. Last(list).address \in Addresses
  BY <1>2, Fields
<1> QED
  BY <1>3 DEF Leftover, ShownKeys, ProfileKeys

LEMMA LowestIs ==
    ASSUME NEW todo \in SUBSET Addresses, todo # {}
    PROVE  Lowest(todo) \in todo
<1>1. todo \in SUBSET Nat
  BY ProfilesAssumption
<1>2. \E c \in todo : \A d \in todo : c <= d
  BY <1>1, LeastOf
<1> QED
  BY <1>2 DEF Lowest

LEMMA TypesHold == Structure => TypeOK
<1> SUFFICES ASSUME Structure PROVE TypeOK
  OBVIOUS
<1> USE DEF Structure
<1>1. shown \in Seq(ShownKeys)
  <2>1. KeysOf(client) \in Seq(ProfileKeys) /\ ProfileKeys \subseteq ShownKeys
    BY KeysOfIs DEF ClientOK, ProfileKeys, ShownKeys
  <2>2. KeysOf(client) \in Seq(ShownKeys)
    BY <2>1
  <2> QED
    BY <2>2, AppendProperties DEF ClientOK, ShownFollows
<1>2. due = Nothing \/ due[1] \in Messages
  BY DEF HostOK, Reports
<1>3. wire \in Seq(Messages)
  <2>1. Reports \cup Replies \subseteq Messages
    BY DEF Reports, Replies
  <2> QED
    BY <2>1 DEF LineOK
<1>4. answer # Nothing =>
        /\ answer[1].todo \subseteq Addresses
        /\ answer[1].found # Nothing => answer[1].found[1] \in Seq(Entries)
        /\ answer[1].replies \in Seq(Messages)
  <2> SUFFICES ASSUME answer # Nothing
               PROVE  /\ answer[1].todo \subseteq Addresses
                      /\ answer[1].found # Nothing => answer[1].found[1] \in Seq(Entries)
                      /\ answer[1].replies \in Seq(Messages)
    OBVIOUS
  <2>1. PICK a \in Answers : answer = <<a>>
    BY DEF AnswerOK
  <2>2. answer[1] = a
    BY <2>1
  <2>3. a.todo \subseteq Addresses /\ a.replies \in Seq(Replies)
        /\ (a.found = Nothing \/ \E l \in Seq(Entries) : a.found = <<l>>)
    BY DEF Answers
  <2>4. a.replies \in Seq(Messages)
    BY <2>3 DEF Replies
  <2> QED
    BY <2>2, <2>3, <2>4
<1>5. conn \in 0 .. MaxConnections /\ inquiries \in 0 .. MaxConnections
  BY ProfilesAssumption DEF ClientOK, LineOK
<1> QED
  BY <1>1, <1>2, <1>3, <1>4, <1>5 DEF TypeOK, HostOK, ClientOK

LEMMA MirrorsHold == Structure => MirrorsFollow
  BY DEF Structure, HostOK, ClientOK, MirrorsFollow

-----------------------------------------------------------------------------
\* Every step keeps it.

LEMMA StateOne ==
    ASSUME NEW e \in Entries
    PROVE  /\ <<e>> \in Seq(Entries) /\ NoneTwice(<<e>>)
           /\ \A k : State(<<e>>, k) = IF k = Key(e) THEN OnOff(e) ELSE "absent"
<1> DEFINE one == <<e>>
<1>1. one \in Seq(Entries) /\ 1 .. Len(one) = {1} /\ one[1] = e
  BY OneIs
<1> HIDE DEF one
<1>2. NoneTwice(one)
  BY <1>1 DEF NoneTwice
<1>3. \A k : Has(one, k) <=> k = Key(e)
  BY <1>1 DEF Has
<1>4. State(one, Key(e)) = OnOff(e)
  BY <1>1, <1>2, StateOf
<1>5. \A k : k # Key(e) => State(one, k) = "absent"
  BY <1>1, <1>3, StateIs
<1> QED
  BY <1>1, <1>2, <1>4, <1>5 DEF one

Covers(list, keys) == \A k : Has(list, k) => \E j \in 1 .. Len(keys) : keys[j] = k

LEMMA CoversIs ==
    /\ LocalCovers <=> Covers(host, local)
    /\ LocalCovers' <=> Covers(host', local')
  BY DEF LocalCovers, Covers, Has

LEMMA InitStructure == Init => Structure
<1> SUFFICES ASSUME Init PROVE Structure
  OBVIOUS
<1> USE DEF Init
<1>1. /\ Initial \in Seq(Entries) /\ KeysOf(Initial) \in Seq(ProfileKeys)
      /\ Len(KeysOf(Initial)) = Len(Initial)
      /\ \A i \in 1 .. Len(Initial) : KeysOf(Initial)[i] = Key(Initial[i])
  BY ProfilesAssumption, KeysOfIs
<1>2. NoneTwice(Initial)
  BY <1>1, ProfilesAssumption DEF NoneTwice
<1>3. LocalCovers
  BY <1>1 DEF LocalCovers
<1>4. ShownFollows
  BY DEF ShownFollows, KeysOf
<1>5. <<>> \in Seq(Entries) /\ NoneTwice(<<>>)
  BY StateEmpty
<1> QED
  BY <1>1, <1>2, <1>3, <1>4, <1>5, ProfilesAssumption
     DEF Structure, HostOK, AnswerOK, LineOK, ClientOK, Nothing

LEMMA AddTypes ==
    ASSUME HostOK, NEW k \in ProfileKeys, AddProfile(k)
    PROVE  HostOK'
<1> DEFINE e == Entry(k, FALSE)
<1>1. e \in Entries /\ Key(e) = k
  BY EntryIs
<1> HIDE DEF e
<1>2. /\ <<e>> \in Seq(Entries)
      /\ \A q : State(<<e>>, q) # "absent" => q = k
  BY <1>1, StateOne
<1>3. /\ host' \in Seq(Entries) /\ NoneTwice(host')
      /\ \A q : State(host', q) = IF State(host, q) = "absent" THEN State(<<e>>, q)
                                  ELSE State(host, q)
  BY <1>2, StateAdded DEF AddProfile, HostOK, e
<1>4. /\ local' = Append(local, k) /\ local \in Seq(ProfileKeys) /\ Len(local) \in Nat
      /\ due' = Report("added", k) /\ torn' = torn
      /\ changes < MaxChanges /\ changes' = changes + 1
  BY LenProperties DEF AddProfile, HostOK, Changes
<1>5. /\ local' \in Seq(ProfileKeys) /\ Len(local') = Len(local) + 1
      /\ \A j \in 1 .. Len(local) : local'[j] = local[j] /\ j \in 1 .. Len(local')
      /\ local'[Len(local) + 1] = k /\ Len(local) + 1 \in 1 .. Len(local')
  BY <1>4, AppendProperties
<1>6. LocalCovers'
  <2>1. ASSUME NEW q, Has(host', q) PROVE \E j \in 1 .. Len(local') : local'[j] = q
    <3>1. Has(host, q) \/ q = k
      BY <1>2, <1>3, <2>1, StateIs DEF HostOK
    <3>2. CASE Has(host, q)
      <4>1. PICK j \in 1 .. Len(local) : local[j] = q
        BY <3>2, CoversIs DEF HostOK, Covers
      <4> QED
        BY <1>5, <4>1
    <3>3. CASE q = k
      BY <1>5, <3>3
    <3> QED
      BY <3>1, <3>2, <3>3
  <2> QED
    BY <2>1, CoversIs DEF Covers
<1>7. changes' \in 0 .. MaxChanges
  BY <1>4, ProfilesAssumption DEF HostOK
<1>8. \E m \in Reports : due' = <<m>>
  BY <1>4, ReportIs
<1> QED
  BY <1>3, <1>4, <1>5, <1>6, <1>7, <1>8 DEF HostOK

LEMMA RemoveTypes ==
    ASSUME HostOK, NEW k \in ProfileKeys, RemoveProfile(k)
    PROVE  HostOK'
<1> DEFINE gone == Leftover(host, k)
           I == {i \in 1 .. Len(local) : local[i] # gone}
           p == Picked(local, I)
<1>1. gone = k \/ gone[1] = Gone
  BY LeftoverIs DEF RemoveProfile, HostOK
<1>2. /\ host' \in Seq(Entries) /\ NoneTwice(host')
      /\ \A q : State(host', q) = IF q = k THEN "absent" ELSE State(host, q)
  BY StateWithout DEF RemoveProfile, HostOK
<1>3. /\ local' = p /\ due' = Report("removed", k) /\ torn' = torn
      /\ changes < MaxChanges /\ changes' = changes + 1
  BY DEF RemoveProfile, Changes, LocalWithout
<1> HIDE DEF gone
<1>4. /\ local' \in Seq(ProfileKeys)
      /\ \A i \in I : \E n \in 1 .. Len(local') : local'[n] = local[i]
  <2>1. I \in SUBSET (1 .. Len(local)) /\ local \in Seq(ProfileKeys)
    BY DEF HostOK
  <2> HIDE DEF I
  <2> QED
    BY <1>3, <2>1, PickedIs
<1> HIDE DEF p
<1>5. LocalCovers'
  <2>1. ASSUME NEW q, Has(host', q) PROVE \E j \in 1 .. Len(local') : local'[j] = q
    <3>1. Has(host, q) /\ q # k
      BY <1>2, <2>1, StateIs DEF HostOK
    <3>2. PICK j \in 1 .. Len(local) : local[j] = q
      BY <3>1, CoversIs DEF HostOK, Covers
    <3>3. local[j] \in ProfileKeys
      BY ElementOfSeq DEF HostOK
    <3>4. q # gone
      BY <1>1, <3>1, <3>2, <3>3, ProfilesAssumption DEF ProfileKeys
    <3> QED
      BY <1>4, <3>2, <3>4
  <2> QED
    BY <2>1, CoversIs DEF Covers
<1>6. changes' \in 0 .. MaxChanges
  BY <1>3, ProfilesAssumption DEF HostOK
<1>7. \E m \in Reports : due' = <<m>>
  BY <1>3, ReportIs
<1> QED
  BY <1>2, <1>3, <1>4, <1>5, <1>6, <1>7 DEF HostOK

LEMMA SetTypes ==
    ASSUME HostOK, NEW k \in ProfileKeys, NEW on \in BOOLEAN, SetEnabled(k, on)
    PROVE  HostOK'
<1>1. /\ host' \in Seq(Entries) /\ NoneTwice(host') /\ Len(host') = Len(host)
      /\ \A i \in 1 .. Len(host) : Key(host'[i]) = Key(host[i])
  BY ToggledIs, StateToggled DEF SetEnabled, HostOK
<1>2. /\ local' = local /\ due' = Report(IF on THEN "enabled" ELSE "disabled", k)
      /\ torn' \subseteq ProfileKeys /\ changes < MaxChanges /\ changes' = changes + 1
  BY DEF SetEnabled, HostOK, Changes
<1>3. LocalCovers'
  BY <1>1, <1>2 DEF HostOK, LocalCovers
<1>4. changes' \in 0 .. MaxChanges
  BY <1>2, ProfilesAssumption DEF HostOK
<1>5. \E m \in Reports : due' = <<m>>
  BY <1>2, ReportIs
<1> QED
  BY <1>1, <1>2, <1>3, <1>4, <1>5 DEF HostOK

\* A part whose variables stay as they are stays sound.
LEMMA HostStays == HostOK /\ UNCHANGED <<host, local, due, changes, torn>> => HostOK'
<1> SUFFICES ASSUME HostOK, UNCHANGED <<host, local, due, changes, torn>> PROVE HostOK'
  OBVIOUS
<1>1. LocalCovers'
  BY DEF HostOK, LocalCovers
<1> QED
  BY <1>1 DEF HostOK

LEMMA ClientStays == ClientOK /\ UNCHANGED peer => ClientOK'
<1> SUFFICES ASSUME ClientOK, UNCHANGED peer PROVE ClientOK'
  OBVIOUS
<1> USE DEF peer
<1>1. ShownFollows'
  BY DEF ClientOK, ShownFollows
<1> QED
  BY <1>1 DEF ClientOK

\* The answer at work, taken apart.
LEMMA AnswerIs ==
    ASSUME AnswerOK, answer # Nothing
    PROVE  /\ answer[1] \in Answers /\ answer = <<answer[1]>>
           /\ answer[1].todo \in SUBSET Addresses /\ answer[1].replies \in Seq(Replies)
           /\ answer[1].found # Nothing =>
                /\ answer[1].found[1] \in Seq(Entries)
                /\ answer[1].todo # {} /\ Lowest(answer[1].todo) \in answer[1].todo
<1>1. PICK a \in Answers : answer = <<a>> /\ (a.found # Nothing => a.todo # {})
  BY DEF AnswerOK
<1>2. answer[1] = a
  BY <1>1
<1>3. /\ a.todo \in SUBSET Addresses /\ a.replies \in Seq(Replies)
      /\ a.found = Nothing \/ \E l \in Seq(Entries) : a.found = <<l>>
  BY DEF Answers
<1>4. a.found # Nothing => a.found[1] \in Seq(Entries)
  BY <1>3
<1>5. a.found # Nothing => Lowest(a.todo) \in a.todo
  BY <1>1, <1>3, LowestIs
<1> QED
  BY <1>1, <1>2, <1>3, <1>4, <1>5

LEMMA LookUpEnabledTypes ==
    ASSUME Structure, LookUpEnabled
    PROVE  AnswerOK'
<1> DEFINE a == answer[1]
           l == Matching(Lowest(a.todo), TRUE)
           b == [todo |-> a.todo, found |-> <<l>>, replies |-> a.replies]
<1>1. /\ a.todo \in SUBSET Addresses /\ a.replies \in Seq(Replies) /\ a.todo # {}
      /\ answer' = <<b>>
  BY AnswerIs DEF Structure, LookUpEnabled
<1>2. l \in Seq(Entries)
  BY StateMatching DEF Structure, HostOK
<1> HIDE DEF a, l
<1>3. b \in Answers /\ b.todo # {}
  BY <1>1, <1>2 DEF Answers
<1> QED
  BY <1>1, <1>3 DEF AnswerOK

LEMMA LookUpDisabledTypes ==
    ASSUME Structure, LookUpDisabled
    PROVE  AnswerOK'
<1> DEFINE a == answer[1]
           l == Matching(Lowest(a.todo), FALSE)
           r == [kind |-> "reply", entries |-> a.found[1] \o l]
           b == [todo |-> a.todo \ {Lowest(a.todo)}, found |-> Nothing,
                 replies |-> Append(a.replies, r)]
<1>1. /\ a.todo \in SUBSET Addresses /\ a.replies \in Seq(Replies)
      /\ a.found[1] \in Seq(Entries)
      /\ answer' = <<b>>
  BY AnswerIs DEF Structure, LookUpDisabled
<1>2. l \in Seq(Entries)
  BY StateMatching DEF Structure, HostOK
<1> HIDE DEF a, l
<1>3. r \in Replies
  <2>1. a.found[1] \o l \in Seq(Entries)
    BY <1>1, <1>2, ConcatProperties
  <2> QED
    BY <2>1 DEF Replies, Messages
<1> HIDE DEF r
<1>4. Append(a.replies, r) \in Seq(Replies)
  BY <1>1, <1>3, AppendProperties
<1>5. b \in Answers /\ b.found = Nothing
  BY <1>1, <1>4 DEF Answers
<1> QED
  BY <1>1, <1>5 DEF AnswerOK

LEMMA BeginAnswerTypes ==
    ASSUME Structure, BeginAnswer
    PROVE  Structure'
<1> DEFINE todo == {host[i].address : i \in 1 .. Len(host)}
           b == [todo |-> todo, found |-> Nothing, replies |-> <<>>]
<1>1. todo \in SUBSET Addresses
  BY ElementOfSeq, Fields DEF Structure, HostOK
<1> HIDE DEF todo
<1>2. answer' = <<b>>
  BY DEF BeginAnswer, todo
<1>3. b \in Answers /\ b.found = Nothing
  BY <1>1 DEF Answers
<1>4. AnswerOK'
  BY <1>2, <1>3 DEF AnswerOK
<1>5. inquiries' \in 0 .. conn'
  BY DEF BeginAnswer, Structure, LineOK, ClientOK, peer
<1>6. HostOK'
  <2>1. LocalCovers'
    BY DEF BeginAnswer, Structure, HostOK, LocalCovers
  <2> QED
    BY <2>1 DEF BeginAnswer, Structure, HostOK
<1>7. ClientOK'
  BY ClientStays DEF BeginAnswer, Structure
<1> QED
  BY <1>4, <1>5, <1>6, <1>7 DEF BeginAnswer, Structure, LineOK

\* The message at the head of the wire.
LEMMA HeadIs ==
    ASSUME LineOK, wire # <<>>
    PROVE  /\ wire \in Seq(Reports \cup Replies) /\ Tail(wire) \in Seq(Reports \cup Replies)
           /\ Head(wire) \in Messages /\ Head(wire).entries \in Seq(Entries)
           /\ Head(wire).kind # "reply" =>
                Key(Head(wire).entries[1]) \in ProfileKeys /\ Len(Head(wire).entries) = 1
<1>1. wire \in Seq(Reports \cup Replies)
  BY DEF LineOK
<1>2. Head(wire) \in Reports \cup Replies /\ Tail(wire) \in Seq(Reports \cup Replies)
  BY <1>1, HeadTailProperties
<1>3. Head(wire) \in Messages /\ Head(wire).entries \in Seq(Entries)
      /\ (Head(wire).kind # "reply" => Len(Head(wire).entries) = 1)
  BY <1>2 DEF Reports, Replies, Messages
<1>4. Len(Head(wire).entries) = 1 => Key(Head(wire).entries[1]) \in ProfileKeys
  BY <1>3, ElementOfSeq, Fields
<1> QED
  BY <1>1, <1>2, <1>3, <1>4

LEMMA ReceiveTypes ==
    ASSUME Structure, Receive
    PROVE  Structure'
<1> DEFINE m == Head(wire)
           k == Key(m.entries[1])
<1>1. /\ wire # <<>> /\ wire' = Tail(wire)
      /\ \/ conn > 0 /\ (TakeReply(m) \/ TakeRemoved(m) \/ TakeToggled(m))
         \/ UNCHANGED <<client, shown>>
      /\ UNCHANGED <<application, inquiries, answer, conn>>
  BY DEF Receive
<1>2. /\ wire' \in Seq(Reports \cup Replies) /\ m.entries \in Seq(Entries)
      /\ m.kind # "reply" => k \in ProfileKeys
  BY <1>1, HeadIs DEF Structure
<1> HIDE DEF m, k
<1>3. LineOK' /\ AnswerOK'
  BY <1>1, <1>2 DEF LineOK, AnswerOK, Structure
<1>4. HostOK'
  BY <1>1, HostStays DEF Structure, application
<1>5. client \in Seq(Entries) /\ NoneTwice(client) /\ ShownFollows /\ conn \in 0 .. MaxConnections
  BY DEF Structure, ClientOK
<1>6. CASE conn > 0 /\ TakeReply(m)
  <2>1. client' \in Seq(Entries) /\ NoneTwice(client')
    BY <1>2, <1>5, <1>6, StateAdded DEF TakeReply
  <2>2. ShownFollows'
    BY <1>5, <1>6 DEF TakeReply, ShownAfter, ShownFollows
  <2> QED
    BY <1>1, <1>3, <1>4, <1>5, <1>6, <2>1, <2>2 DEF Structure, ClientOK
<1>7. CASE conn > 0 /\ TakeRemoved(m)
  <2>1. /\ Has(client, k) /\ client' = Without(client, k) /\ k \in ProfileKeys
        /\ shown' = Append(KeysOf(client'), Leftover(client, k))
    BY <1>2, <1>7 DEF TakeRemoved, k
  <2>2. client' \in Seq(Entries) /\ NoneTwice(client')
    BY <1>5, <2>1, StateWithout
  <2>3. ShownFollows'
    BY <1>5, <2>1, LeftoverIs DEF ShownFollows
  <2> QED
    BY <1>1, <1>3, <1>4, <1>5, <1>7, <2>2, <2>3 DEF Structure, ClientOK
<1>8. CASE conn > 0 /\ TakeToggled(m)
  <2>1. /\ client' = Toggled(client, k, m.kind = "enabled") /\ shown' = KeysOf(client')
        /\ (m.kind = "enabled") \in BOOLEAN
    BY <1>8 DEF TakeToggled, k
  <2>2. client' \in Seq(Entries) /\ NoneTwice(client')
    BY <1>5, <2>1, ToggledIs, StateToggled
  <2>3. ShownFollows'
    BY <2>1 DEF ShownFollows
  <2> QED
    BY <1>1, <1>3, <1>4, <1>5, <1>8, <2>2, <2>3 DEF Structure, ClientOK
<1>9. CASE UNCHANGED <<client, shown>>
  <2>1. ClientOK'
    BY <1>1, <1>9, ClientStays DEF Structure, peer
  <2> QED
    BY <1>3, <1>4, <2>1 DEF Structure
<1> QED
  BY <1>1, <1>6, <1>7, <1>8, <1>9

LEMMA SendReportTypes ==
    ASSUME Structure, SendReport
    PROVE  Structure'
<1>1. PICK m \in Reports : due = <<m>>
  BY DEF SendReport, Structure, HostOK
<1>2. <<m>> \in Seq(Reports \cup Replies)
  BY OneIs
<1>3. wire' \in Seq(Reports \cup Replies)
  BY <1>1, <1>2, ConcatProperties DEF SendReport, Structure, LineOK
<1>4. HostOK'
  <2>1. LocalCovers'
    BY DEF SendReport, Structure, HostOK, LocalCovers
  <2> QED
    BY <2>1 DEF SendReport, Structure, HostOK
<1>5. ClientOK'
  BY ClientStays DEF SendReport, Structure
<1> QED
  BY <1>3, <1>4, <1>5 DEF SendReport, Structure, AnswerOK, LineOK, peer

LEMMA SendRepliesTypes ==
    ASSUME Structure, SendReplies
    PROVE  Structure'
<1>1. answer[1].replies \in Seq(Reports \cup Replies)
  BY AnswerIs DEF SendReplies, Structure
<1>2. wire' \in Seq(Reports \cup Replies)
  BY <1>1, ConcatProperties DEF SendReplies, Structure, LineOK
<1>3. HostOK' /\ ClientOK'
  BY HostStays, ClientStays DEF SendReplies, Structure, application
<1> QED
  BY <1>2, <1>3 DEF SendReplies, Structure, AnswerOK, LineOK, peer

LEMMA ConnectTypes ==
    ASSUME Structure, Connect
    PROVE  Structure'
<1>1. HostOK'
  BY HostStays DEF Connect, Structure, application
<1>2. ShownFollows'
  BY DEF Connect, ShownFollows, KeysOf
<1>3. client' \in Seq(Entries) /\ NoneTwice(client')
  BY StateEmpty DEF Connect
<1>4. conn' \in 0 .. MaxConnections /\ inquiries' \in 0 .. conn'
  BY ProfilesAssumption DEF Connect, Structure, ClientOK, LineOK
<1> QED
  BY <1>1, <1>2, <1>3, <1>4 DEF Connect, Structure, AnswerOK, LineOK, ClientOK

LEMMA StructureStep == Structure /\ [Next]_vars => Structure'
<1> SUFFICES ASSUME Structure, [Next]_vars PROVE Structure'
  OBVIOUS
<1>1. ASSUME NEW k \in ProfileKeys,
             AddProfile(k) \/ RemoveProfile(k) \/ \E on \in BOOLEAN : SetEnabled(k, on)
      PROVE  Structure'
  <2>1. UNCHANGED <<inquiries, answer, wire, peer>>
    BY <1>1 DEF AddProfile, RemoveProfile, SetEnabled, Changes
  <2>2. HostOK'
    BY <1>1, AddTypes, RemoveTypes, SetTypes DEF Structure
  <2>3. ClientOK'
    BY <2>1, ClientStays DEF Structure
  <2> QED
    BY <2>1, <2>2, <2>3 DEF Structure, AnswerOK, LineOK, peer
<1>2. ASSUME LookUpEnabled \/ LookUpDisabled PROVE Structure'
  <2>1. UNCHANGED <<application, inquiries, wire, peer>>
    BY <1>2 DEF LookUpEnabled, LookUpDisabled
  <2>2. HostOK' /\ ClientOK'
    BY <2>1, HostStays, ClientStays DEF Structure, application
  <2>3. AnswerOK'
    BY <1>2, LookUpEnabledTypes, LookUpDisabledTypes
  <2> QED
    BY <2>1, <2>2, <2>3 DEF Structure, LineOK, peer
<1>3. CASE UNCHANGED vars
  <2>1. HostOK' /\ ClientOK'
    BY <1>3, HostStays, ClientStays DEF Structure, vars, application
  <2> QED
    BY <1>3, <2>1 DEF Structure, AnswerOK, LineOK, vars, peer
<1> QED
  BY <1>1, <1>2, <1>3, BeginAnswerTypes, SendReportTypes, SendRepliesTypes, ConnectTypes,
     ReceiveTypes DEF Next

\* Whatever is done, every variable keeps its type and no list has a profile
\* twice at an address.
THEOREM TypeCorrect == Spec => []TypeOK
<1>1. Spec => []Structure
  BY InitStructure, StructureStep, PTL DEF Spec
<1> QED
  BY <1>1, TypesHold, PTL

\* The two lists of the tooling have every profile of the lists they mirror,
\* whatever the callbacks of a removal name.
THEOREM MirrorsKeepUp == Spec => []MirrorsFollow
<1>1. Spec => []Structure
  BY InitStructure, StructureStep, PTL DEF Spec
<1> QED
  BY <1>1, MirrorsHold, PTL

-----------------------------------------------------------------------------
\* What messages make of what a client knows of a profile.

Sound == Reports \cup Replies

Effect(m, k, s) ==
    CASE m.kind \in {"reply", "added"} -> IF s = "absent" THEN State(m.entries, k) ELSE s
      [] m.kind = "removed" -> IF Key(m.entries[1]) = k THEN "absent" ELSE s
      [] OTHER -> IF Key(m.entries[1]) = k /\ s # "absent"
                  THEN (IF m.kind = "enabled" THEN "on" ELSE "off") ELSE s

\* e[j] is what the messages from the j-th on make of each state.
IsEffect(line, k, e) ==
    /\ \A j \in 1 .. Len(line) + 1, s \in States : e[j][s] \in States
    /\ \A s \in States : e[Len(line) + 1][s] = s
    /\ \A j \in 1 .. Len(line), s \in States : e[j][s] = e[j + 1][Effect(line[j], k, s)]

LEMMA SoundIs ==
    ASSUME NEW m \in Sound
    PROVE  /\ m.entries \in Seq(Entries)
           /\ m.kind \in {"reply", "added", "removed", "enabled", "disabled"}
           /\ m.kind # "reply" => Len(m.entries) = 1 /\ m.entries[1] \in Entries
<1>1. /\ m.entries \in Seq(Entries)
      /\ m.kind \in {"reply", "added", "removed", "enabled", "disabled"}
      /\ m.kind # "reply" => Len(m.entries) = 1
  BY DEF Sound, Reports, Replies, Messages
<1>2. Len(m.entries) = 1 => m.entries[1] \in Entries
  BY <1>1, ElementOfSeq
<1> QED
  BY <1>1, <1>2

LEMMA EffectIs ==
    ASSUME NEW m \in Sound, NEW k
    PROVE  /\ \A s \in States : Effect(m, k, s) \in States
           /\ m.kind = "reply" => \A s \in States : s # "absent" => Effect(m, k, s) = s
           /\ m.kind = "reply" => Effect(m, k, "absent") = State(m.entries, k)
<1>1. State(m.entries, k) \in States
  BY SoundIs, StateIs
<1> QED
  BY <1>1 DEF Effect, States

LEMMA OneEffect ==
    ASSUME NEW m \in Sound, NEW k
    PROVE  \E e : IsEffect(<<m>>, k, e) /\ \A s \in States : e[1][s] = Effect(m, k, s)
<1> DEFINE line == <<m>>
           e == [j \in 1 .. 2 |-> [s \in States |-> IF j = 1 THEN Effect(m, k, s) ELSE s]]
<1>1. Len(line) = 1 /\ line[1] = m
  OBVIOUS
<1>2. /\ \A s \in States : e[1][s] = Effect(m, k, s) /\ e[2][s] = s
      /\ \A s \in States : Effect(m, k, s) \in States
  BY EffectIs
<1> HIDE DEF e, line
<1>3. IsEffect(line, k, e)
  <2>1. \A j \in 1 .. Len(line) + 1 : j = 1 \/ j = 2
    BY <1>1
  <2>2. \A j \in 1 .. Len(line) : j = 1
    BY <1>1
  <2>3. Len(line) + 1 = 2 /\ 1 + 1 = 2
    BY <1>1
  <2> QED
    BY <1>1, <1>2, <2>1, <2>2, <2>3 DEF IsEffect
<1> QED
  BY <1>2, <1>3 DEF line

\* The effect of messages that have nothing to say.
Idle(line) == [j \in 1 .. Len(line) + 1 |-> [s \in States |-> s]]

LEMMA IdleEffect ==
    ASSUME NEW line \in Seq(Sound), NEW k,
           \A j \in 1 .. Len(line), s \in States : Effect(line[j], k, s) = s
    PROVE  /\ IsEffect(line, k, Idle(line))
           /\ \A j \in 1 .. Len(line) + 1, s \in States : Idle(line)[j][s] = s
<1> DEFINE n == Len(line)
           e == Idle(line)
<1>1. n \in Nat
  BY LenProperties
<1>2. \A j \in 1 .. n + 1, s \in States : e[j][s] = s
  BY DEF Idle
<1> HIDE DEF e
<1>3. IsEffect(line, k, e)
  BY <1>1, <1>2 DEF IsEffect
<1> QED
  BY <1>2, <1>3 DEF e

\* One line of messages after another.
LEMMA JoinEffect ==
    ASSUME NEW a \in Seq(Sound), NEW b \in Seq(Sound), NEW k,
           NEW e, IsEffect(a, k, e), NEW f, IsEffect(b, k, f)
    PROVE  \E g : /\ IsEffect(a \o b, k, g)
                  /\ \A j \in 1 .. Len(a) + 1, s \in States : g[j][s] = f[1][e[j][s]]
                  /\ \A j \in 1 .. Len(b) + 1, s \in States : g[Len(a) + j][s] = f[j][s]
                  /\ \A j \in 1 .. Len(a \o b) + 1 :
                       \/ j \in 1 .. Len(a) + 1
                       \/ \E i \in 1 .. Len(b) + 1 : j = Len(a) + i
<1> DEFINE n == Len(a)
           m == Len(b)
           l == a \o b
           g == [j \in 1 .. n + m + 1 |->
                    [s \in States |-> IF j <= n THEN f[1][e[j][s]] ELSE f[j - n][s]]]
<1>1. /\ l \in Seq(Sound) /\ n \in Nat /\ m \in Nat /\ Len(l) = n + m
      /\ \A i \in 1 .. n : i \in 1 .. Len(l) /\ l[i] = a[i]
      /\ \A j \in 1 .. m : n + j \in 1 .. Len(l) /\ l[n + j] = b[j]
      /\ \A i \in 1 .. Len(l) : i \in 1 .. n \/ \E j \in 1 .. m : i = n + j
  BY ConcatIs
<1> HIDE DEF n, m, l
<1>2. \A i \in 1 .. n : a[i] \in Sound
  BY ElementOfSeq DEF n
<1>3. \A i \in 1 .. n, s \in States : Effect(a[i], k, s) \in States
  BY <1>2, EffectIs
<1>4. \A j \in 1 .. m, s \in States : Effect(b[j], k, s) \in States
  BY ElementOfSeq, EffectIs DEF m
<1>5. /\ \A j \in 1 .. n + 1, s \in States : e[j][s] \in States
      /\ \A s \in States : e[n + 1][s] = s
      /\ \A j \in 1 .. n, s \in States : e[j][s] = e[j + 1][Effect(a[j], k, s)]
  BY DEF IsEffect, n
<1>6. /\ \A j \in 1 .. m + 1, s \in States : f[j][s] \in States
      /\ \A s \in States : f[m + 1][s] = s
      /\ \A j \in 1 .. m, s \in States : f[j][s] = f[j + 1][Effect(b[j], k, s)]
  BY DEF IsEffect, m
<1>7. \A j \in 1 .. n, s \in States : g[j][s] = f[1][e[j][s]]
  BY <1>1
<1>8. ASSUME NEW j \in 1 .. m + 1, NEW s \in States PROVE g[n + j][s] = f[j][s]
  <2>1. \A i \in 1 .. n + m + 1 : ~(i <= n) => g[i][s] = f[i - n][s]
    OBVIOUS
  <2> DEFINE i == n + j
  <2>2. i \in 1 .. n + m + 1 /\ ~(i <= n) /\ i - n = j
    BY <1>1
  <2> HIDE DEF i, g
  <2>3. g[i][s] = f[j][s]
    BY <2>1, <2>2
  <2> QED
    BY <2>3 DEF i
<1> HIDE DEF g
<1>9. \A j \in 1 .. n + 1, s \in States : g[j][s] = f[1][e[j][s]]
  <2> SUFFICES ASSUME NEW j \in 1 .. n + 1, NEW s \in States PROVE g[j][s] = f[1][e[j][s]]
    OBVIOUS
  <2>1. CASE j \in 1 .. n
    BY <1>7, <2>1
  <2>2. CASE j = n + 1
    <3>1. 1 \in 1 .. m + 1
      BY <1>1
    <3> QED
      BY <1>5, <1>8, <2>2, <3>1
  <2> QED
    BY <1>1, <2>1, <2>2
<1>10. \A j \in 1 .. n + m + 1 :
         j \in 1 .. n + 1 \/ \E i \in 1 .. m + 1 : j = n + i
  <2> SUFFICES ASSUME NEW j \in 1 .. n + m + 1, j \notin 1 .. n + 1
               PROVE  \E i \in 1 .. m + 1 : j = n + i
    OBVIOUS
  <2>1. j - n \in 1 .. m + 1 /\ j = n + (j - n)
    BY <1>1
  <2> QED
    BY <2>1
<1>11. 1 \in 1 .. m + 1 /\ n + m + 1 = n + (m + 1) /\ m + 1 \in 1 .. m + 1
  BY <1>1
<1>12. \A j \in 1 .. n + m + 1, s \in States : g[j][s] \in States
  <2> SUFFICES ASSUME NEW j \in 1 .. n + m + 1, NEW s \in States PROVE g[j][s] \in States
    OBVIOUS
  <2>1. CASE j \in 1 .. n + 1
    BY <1>5, <1>6, <1>9, <1>11, <2>1
  <2>2. ASSUME NEW i \in 1 .. m + 1, j = n + i PROVE g[j][s] \in States
    BY <1>6, <1>8, <2>2
  <2> QED
    BY <1>10, <2>1, <2>2
<1>13. \A s \in States : g[n + m + 1][s] = s
  BY <1>6, <1>8, <1>11
<1>14. ASSUME NEW j \in 1 .. n + m, NEW s \in States
       PROVE  g[j][s] = g[j + 1][Effect(l[j], k, s)]
  <2>1. CASE j \in 1 .. n
    <3>1. j + 1 \in 1 .. n + 1 /\ j \in 1 .. n + 1 /\ l[j] = a[j]
      BY <1>1, <2>1
    <3>2. Effect(a[j], k, s) \in States /\ e[j][s] = e[j + 1][Effect(a[j], k, s)]
      BY <1>3, <1>5, <2>1
    <3> QED
      BY <1>9, <3>1, <3>2
  <2>2. ASSUME NEW i \in 1 .. m, j = n + i PROVE g[j][s] = g[j + 1][Effect(l[j], k, s)]
    <3>1. i \in 1 .. m + 1 /\ i + 1 \in 1 .. m + 1 /\ j + 1 = n + (i + 1) /\ l[j] = b[i]
      BY <1>1, <2>2
    <3>2. Effect(b[i], k, s) \in States /\ f[i][s] = f[i + 1][Effect(b[i], k, s)]
      BY <1>4, <1>6
    <3> QED
      BY <1>8, <2>2, <3>1, <3>2
  <2> QED
    BY <1>1, <2>1, <2>2
<1>15. IsEffect(l, k, g)
  BY <1>1, <1>12, <1>13, <1>14 DEF IsEffect
<1> QED
  BY <1>1, <1>8, <1>9, <1>10, <1>15 DEF l, n, m

LEMMA TailEffect ==
    ASSUME NEW line \in Seq(Sound), line # <<>>, NEW k, NEW e, IsEffect(line, k, e)
    PROVE  \E f : /\ IsEffect(Tail(line), k, f)
                  /\ \A j \in 1 .. Len(Tail(line)) + 1 :
                       j + 1 \in 1 .. Len(line) + 1 /\ \A s \in States : f[j][s] = e[j + 1][s]
                  /\ \A s \in States : e[1][s] = f[1][Effect(Head(line), k, s)]
<1> DEFINE t == Tail(line)
           n == Len(t)
           f == [j \in 1 .. n + 1 |-> [s \in States |-> e[j + 1][s]]]
<1>1. /\ Head(line) \in Sound /\ Head(line) = line[1] /\ n = Len(line) - 1 /\ n \in Nat
      /\ \A i \in 1 .. n : i + 1 \in 1 .. Len(line) /\ t[i] = line[i + 1]
      /\ Len(line) = n + 1 /\ Len(line) + 1 = (n + 1) + 1 /\ 1 \in 1 .. Len(line)
  BY TailIs, LenProperties
<1>2. \A j \in 1 .. n + 1, s \in States : f[j][s] = e[j + 1][s]
  OBVIOUS
<1> HIDE DEF t, n, f
<1>3. \A i \in 1 .. n, s \in States : Effect(t[i], k, s) \in States
  BY <1>1, ElementOfSeq, EffectIs
<1>4. /\ \A j \in 1 .. Len(line) + 1, s \in States : e[j][s] \in States
      /\ \A s \in States : e[Len(line) + 1][s] = s
      /\ \A j \in 1 .. Len(line), s \in States : e[j][s] = e[j + 1][Effect(line[j], k, s)]
  BY DEF IsEffect
<1>5. \A j \in 1 .. n + 1 : j + 1 \in 1 .. Len(line) + 1
  BY <1>1
<1>6. \A j \in 1 .. n + 1, s \in States : f[j][s] \in States
  BY <1>2, <1>4, <1>5
<1>7. \A s \in States : f[n + 1][s] = s
  <2>1. n + 1 \in 1 .. n + 1
    BY <1>1
  <2> QED
    BY <1>1, <1>2, <1>4, <2>1
<1>8. ASSUME NEW j \in 1 .. n, NEW s \in States PROVE f[j][s] = f[j + 1][Effect(t[j], k, s)]
  <2>1. j \in 1 .. n + 1 /\ j + 1 \in 1 .. n + 1 /\ j + 1 \in 1 .. Len(line) /\ t[j] = line[j + 1]
    BY <1>1
  <2>2. e[j + 1][s] = e[(j + 1) + 1][Effect(t[j], k, s)]
    BY <1>4, <2>1
  <2> QED
    BY <1>2, <1>3, <2>1, <2>2
<1>9. IsEffect(t, k, f)
  BY <1>6, <1>7, <1>8 DEF IsEffect, n
<1>10. ASSUME NEW s \in States PROVE e[1][s] = f[1][Effect(Head(line), k, s)]
  <2>1. Effect(Head(line), k, s) \in States
    BY <1>1, EffectIs
  <2>2. e[1][s] = e[1 + 1][Effect(line[1], k, s)] /\ 1 \in 1 .. n + 1
    BY <1>1, <1>4
  <2> QED
    BY <1>1, <1>2, <2>1, <2>2
<1> QED
  BY <1>2, <1>5, <1>9, <1>10 DEF t, n

-----------------------------------------------------------------------------
\* What is on its way, and what it will make of the client.

\* What the report that is due makes of a state.
After(d, k, s) == IF d = Nothing THEN s ELSE Effect(d[1], k, s)

\* Wherever the messages are cut off, a client that knows nothing of k either
\* still does when all have come, or knows what the host knows, h; a client
\* that knows c comes to one of T.
Good(line, d, k, h, c, T) ==
    \E e : /\ IsEffect(line, k, e)
           /\ \A j \in 1 .. Len(line) + 1 : After(d, k, e[j]["absent"]) \in {"absent", h}
           /\ After(d, k, e[1][c]) \in T

\* The same of replies; they change nothing that is known.
GoodReplies(line, d, k, h, T) ==
    \E e : /\ IsEffect(line, k, e)
           /\ \A j \in 1 .. Len(line) + 1, s \in States : s # "absent" => e[j][s] = s
           /\ \A j \in 1 .. Len(line) + 1 : After(d, k, e[j]["absent"]) \in {"absent", h}
           /\ After(d, k, e[1]["absent"]) \in T

LEMMA AfterIs ==
    ASSUME NEW m, NEW k, NEW s
    PROVE  After(Nothing, k, s) = s /\ After(<<m>>, k, s) = Effect(m, k, s)
  BY DEF After, Nothing

\* The host changes, and owes the report m.
LEMMA GoodChanged ==
    ASSUME NEW line \in Seq(Sound), NEW m, NEW k, NEW h, NEW h2, NEW c, NEW T, NEW T2,
           Good(line, Nothing, k, h, c, T),
           \A s \in {"absent", h} : Effect(m, k, s) \in {"absent", h2},
           \A s \in T : Effect(m, k, s) \in T2
    PROVE  Good(line, <<m>>, k, h2, c, T2)
  BY AfterIs DEF Good

LEMMA RepliesChanged ==
    ASSUME NEW line \in Seq(Sound), NEW m, NEW k, NEW h, NEW h2, NEW T, NEW T2,
           GoodReplies(line, Nothing, k, h, T),
           \A s \in {"absent", h} : Effect(m, k, s) \in {"absent", h2},
           \A s \in T : Effect(m, k, s) \in T2
    PROVE  GoodReplies(line, <<m>>, k, h2, T2)
  BY AfterIs DEF GoodReplies

LEMMA GoodWeakens ==
    ASSUME NEW line, NEW d, NEW k, NEW h, NEW c, NEW T, NEW T2, T \subseteq T2,
           Good(line, d, k, h, c, T)
    PROVE  Good(line, d, k, h, c, T2)
  BY DEF Good

\* A client that begins anew.
LEMMA GoodAnew ==
    ASSUME NEW line \in Seq(Sound), NEW d, NEW k, NEW h, NEW c, NEW T,
           Good(line, d, k, h, c, T)
    PROVE  Good(line, d, k, h, "absent", {"absent", h})
<1>1. 1 \in 1 .. Len(line) + 1
  BY LenProperties
<1> QED
  BY <1>1 DEF Good

LEMMA GoodTaken ==
    ASSUME NEW line \in Seq(Sound), line # <<>>, NEW d, NEW k, NEW h, NEW c \in States, NEW T,
           Good(line, d, k, h, c, T)
    PROVE  Good(Tail(line), d, k, h, Effect(Head(line), k, c), T)
<1>1. PICK e : /\ IsEffect(line, k, e)
               /\ \A j \in 1 .. Len(line) + 1 : After(d, k, e[j]["absent"]) \in {"absent", h}
               /\ After(d, k, e[1][c]) \in T
  BY DEF Good
<1>2. PICK f : /\ IsEffect(Tail(line), k, f)
               /\ \A j \in 1 .. Len(Tail(line)) + 1 :
                    j + 1 \in 1 .. Len(line) + 1 /\ \A s \in States : f[j][s] = e[j + 1][s]
               /\ \A s \in States : e[1][s] = f[1][Effect(Head(line), k, s)]
  BY <1>1, TailEffect
<1>3. "absent" \in States
  BY DEF States
<1>4. ASSUME NEW j \in 1 .. Len(Tail(line)) + 1
      PROVE  After(d, k, f[j]["absent"]) \in {"absent", h}
  <2>1. f[j]["absent"] = e[j + 1]["absent"] /\ j + 1 \in 1 .. Len(line) + 1
    BY <1>2, <1>3
  <2> QED
    BY <1>1, <2>1
<1>5. After(d, k, f[1][Effect(Head(line), k, c)]) \in T
  BY <1>1, <1>2
<1> QED
  BY <1>2, <1>4, <1>5 DEF Good

\* The report that was due is sent.
LEMMA GoodSent ==
    ASSUME NEW line \in Seq(Sound), NEW m \in Sound, NEW k, NEW h, NEW c \in States, NEW T,
           Good(line, <<m>>, k, h, c, T)
    PROVE  Good(line \o <<m>>, Nothing, k, h, c, T)
<1> DEFINE one == <<m>>
           n == Len(line)
           l == line \o one
<1>1. PICK e : /\ IsEffect(line, k, e)
               /\ \A j \in 1 .. n + 1 : Effect(m, k, e[j]["absent"]) \in {"absent", h}
               /\ Effect(m, k, e[1][c]) \in T
  BY AfterIs DEF Good
<1>2. PICK f : IsEffect(one, k, f) /\ \A s \in States : f[1][s] = Effect(m, k, s)
  BY OneEffect
<1>3. one \in Seq(Sound) /\ Len(one) = 1
  BY OneIs
<1> HIDE DEF one
<1>4. PICK g : /\ IsEffect(l, k, g)
               /\ \A j \in 1 .. n + 1, s \in States : g[j][s] = f[1][e[j][s]]
               /\ \A j \in 1 .. Len(one) + 1, s \in States : g[n + j][s] = f[j][s]
               /\ \A j \in 1 .. Len(l) + 1 :
                    \/ j \in 1 .. n + 1
                    \/ \E i \in 1 .. Len(one) + 1 : j = n + i
  BY <1>1, <1>2, <1>3, JoinEffect
<1>5. n \in Nat
  BY LenProperties
<1> HIDE DEF n, l
<1>6. "absent" \in States /\ \A j \in 1 .. n + 1, s \in States : e[j][s] \in States
  BY <1>1 DEF IsEffect, n, States
<1>7. \A j \in 1 .. n + 1, s \in States : g[j][s] = Effect(m, k, e[j][s])
  BY <1>2, <1>4, <1>6
<1>8. ASSUME NEW j \in 1 .. Len(l) + 1 PROVE After(Nothing, k, g[j]["absent"]) \in {"absent", h}
  <2>1. CASE j \in 1 .. n + 1
    BY <1>1, <1>6, <1>7, <2>1, AfterIs
  <2>2. CASE j \notin 1 .. n + 1
    <3>1. PICK i \in 1 .. Len(one) + 1 : j = n + i
      BY <1>4, <2>2
    <3>2. i = Len(one) + 1
      BY <1>3, <1>5, <2>2, <3>1
    <3>3. g[j]["absent"] = f[Len(one) + 1]["absent"]
      BY <1>4, <1>6, <3>1, <3>2
    <3>4. f[Len(one) + 1]["absent"] = "absent"
      BY <1>2, <1>6 DEF IsEffect
    <3> QED
      BY <3>3, <3>4, AfterIs
  <2> QED
    BY <2>1, <2>2
<1>9. After(Nothing, k, g[1][c]) \in T
  <2>1. 1 \in 1 .. n + 1
    BY <1>5
  <2> QED
    BY <1>1, <1>7, <2>1, AfterIs
<1> QED
  BY <1>4, <1>8, <1>9 DEF Good, l, one

\* The replies are sent, before the report that is due.
LEMMA GoodAnswered ==
    ASSUME NEW a \in Seq(Sound), NEW b \in Seq(Sound), NEW d, NEW k, NEW h,
           NEW c \in States, NEW T,
           \A s \in States : s # "absent" /\ After(d, k, s) = "absent" => h = "absent",
           Good(a, d, k, h, c, {"absent", h}), GoodReplies(b, d, k, h, T), h \in T
    PROVE  Good(a \o b, d, k, h, c, T)
<1> DEFINE n == Len(a)
           m == Len(b)
           l == a \o b
<1>1. PICK e : /\ IsEffect(a, k, e)
               /\ \A j \in 1 .. n + 1 : After(d, k, e[j]["absent"]) \in {"absent", h}
               /\ After(d, k, e[1][c]) \in {"absent", h}
  BY DEF Good
<1>2. PICK f : /\ IsEffect(b, k, f)
               /\ \A j \in 1 .. m + 1, s \in States : s # "absent" => f[j][s] = s
               /\ \A j \in 1 .. m + 1 : After(d, k, f[j]["absent"]) \in {"absent", h}
               /\ After(d, k, f[1]["absent"]) \in T
  BY DEF GoodReplies
<1>3. PICK g : /\ IsEffect(l, k, g)
               /\ \A j \in 1 .. n + 1, s \in States : g[j][s] = f[1][e[j][s]]
               /\ \A j \in 1 .. m + 1, s \in States : g[n + j][s] = f[j][s]
               /\ \A j \in 1 .. Len(l) + 1 :
                    \/ j \in 1 .. n + 1
                    \/ \E i \in 1 .. m + 1 : j = n + i
  BY <1>1, <1>2, JoinEffect
<1>4. n \in Nat /\ m \in Nat /\ 1 \in 1 .. n + 1 /\ 1 \in 1 .. m + 1
  BY LenProperties
<1> HIDE DEF n, m, l
<1>5. "absent" \in States /\ \A j \in 1 .. n + 1, s \in States : e[j][s] \in States
  BY <1>1 DEF IsEffect, n, States
<1>6. ASSUME NEW j \in 1 .. Len(l) + 1 PROVE After(d, k, g[j]["absent"]) \in {"absent", h}
  <2>1. CASE j \in 1 .. n + 1
    <3>1. g[j]["absent"] = f[1][e[j]["absent"]]
      BY <1>3, <1>5, <2>1
    <3>2. CASE e[j]["absent"] = "absent"
      BY <1>2, <1>4, <3>1, <3>2
    <3>3. CASE e[j]["absent"] # "absent"
      BY <1>1, <1>2, <1>4, <1>5, <2>1, <3>1, <3>3
    <3> QED
      BY <3>2, <3>3
  <2>2. ASSUME NEW i \in 1 .. m + 1, j = n + i
        PROVE  After(d, k, g[j]["absent"]) \in {"absent", h}
    BY <1>2, <1>3, <1>5, <2>2
  <2> QED
    BY <1>3, <2>1, <2>2
<1>7. After(d, k, g[1][c]) \in T
  <2>1. g[1][c] = f[1][e[1][c]] /\ e[1][c] \in States
    BY <1>3, <1>4, <1>5
  <2>2. CASE e[1][c] = "absent"
    BY <1>2, <2>1, <2>2
  <2>3. CASE e[1][c] # "absent"
    <3>1. g[1][c] = e[1][c]
      BY <1>2, <1>4, <2>1, <2>3
    <3>2. After(d, k, e[1][c]) = h
      BY <1>1, <2>1, <2>3
    <3> QED
      BY <3>1, <3>2
  <2> QED
    BY <2>2, <2>3
<1> QED
  BY <1>3, <1>6, <1>7 DEF Good, l

-----------------------------------------------------------------------------
\* The invariant, for each profile.

Allowed(h, exact) == IF exact THEN {h} ELSE {"absent", h}

\* Some answer to an inquiry of this connection has been sent, and it was not
\* torn.
Informed(k) == conn > 0 /\ inquiries = 0 /\ answer = Nothing /\ k \notin torn

\* The report that is due leaves what the host knows.
DueOK(k) == After(due, k, State(host, k)) = State(host, k)

WireOK(k) ==
    Good(wire, due, k, State(host, k), State(client, k),
         Allowed(State(host, k), Informed(k)))

\* An answer a, when the host knows h of k: nothing is said of k before its
\* address has been looked up, and once it has the replies tell of k; between
\* the two look-ups k has been found, or is not enabled, or is torn.
Reading(a, d, k, h, tears) ==
    /\ k[2] \in a.todo => \A i \in 1 .. Len(a.replies) : ~Has(a.replies[i].entries, k)
    /\ k[2] \notin a.todo => GoodReplies(a.replies, d, k, h, Allowed(h, k \notin tears))
    /\ a.found # Nothing /\ Has(a.found[1], k) =>
         Lowest(a.todo) = k[2] /\ State(a.found[1], k) = "on" /\ After(d, k, "on") = h
    /\ a.found # Nothing /\ ~Has(a.found[1], k) /\ Lowest(a.todo) = k[2] =>
         k \in tears \/ h # "on"

ReadingOK(k) == answer # Nothing => Reading(answer[1], due, k, State(host, k), torn)

Inductive == \A k \in ProfileKeys : DueOK(k) /\ WireOK(k) /\ ReadingOK(k)

LEMMA DueHarmless ==
    ASSUME HostOK, NEW k, DueOK(k)
    PROVE  \A s \in States :
             s # "absent" /\ After(due, k, s) = "absent" => State(host, k) = "absent"
<1>1. CASE due = Nothing
  BY <1>1 DEF After
<1>2. ASSUME NEW m \in Reports, due = <<m>>
      PROVE  \A s \in States :
               s # "absent" /\ After(due, k, s) = "absent" => State(host, k) = "absent"
  <2>1. m \in Sound
    BY DEF Sound
  <2>2. \A s : After(due, k, s) = Effect(m, k, s)
    BY <1>2, AfterIs
  <2>3. Effect(m, k, State(host, k)) = State(host, k)
    BY <2>2 DEF DueOK
  <2> QED
    BY <2>1, <2>2, <2>3, SoundIs DEF Effect
<1> QED
  BY <1>1, <1>2 DEF HostOK

\* What a report makes of what is known.
LEMMA ReportEffect ==
    ASSUME NEW q \in ProfileKeys, NEW m \in Reports, Key(m.entries[1]) = q,
           m.entries = <<Entry(q, m.kind = "enabled")>>
    PROVE  /\ \A k, s : k # q => Effect(m, k, s) = s
           /\ m.kind = "added" => \A s : Effect(m, q, s) = IF s = "absent" THEN "off" ELSE s
           /\ m.kind = "removed" => \A s : Effect(m, q, s) = "absent"
           /\ m.kind = "enabled" => \A s : Effect(m, q, s) = IF s = "absent" THEN s ELSE "on"
           /\ m.kind = "disabled" => \A s : Effect(m, q, s) = IF s = "absent" THEN s ELSE "off"
<1> DEFINE e == Entry(q, m.kind = "enabled")
<1>1. e \in Entries /\ Key(e) = q /\ (m.kind = "added" => OnOff(e) = "off")
  BY EntryIs
<1> HIDE DEF e
<1>2. \A k : State(m.entries, k) = IF k = q THEN OnOff(e) ELSE "absent"
  BY <1>1, StateOne DEF e
<1>3. m.kind \in {"added", "removed", "enabled", "disabled"}
  BY SoundIs DEF Sound, Reports
<1>4. CASE m.kind = "added"
  BY <1>1, <1>2, <1>4 DEF Effect
<1>5. CASE m.kind # "added"
  BY <1>3, <1>5 DEF Effect
<1> QED
  BY <1>4, <1>5

\* What a change of the host and its report have to do with each other.
ChangedBy(m) ==
    /\ due = Nothing /\ due' = <<m>> /\ UNCHANGED <<inquiries, answer, wire, peer>>
    /\ torn \subseteq torn' /\ (answer = Nothing => torn' = torn)
    /\ \A k \in ProfileKeys :
         /\ Effect(m, k, State(host', k)) = State(host', k)
         /\ Effect(m, k, State(host, k)) = State(host', k)
         /\ Effect(m, k, "absent") \in {"absent", State(host', k)}
         /\ State(host', k) = "on" /\ State(host, k) # "on" /\ BetweenLookups(k) =>
              k \in torn'

LEMMA AddIs ==
    ASSUME Structure, NEW q \in ProfileKeys, AddProfile(q)
    PROVE  \E m \in Reports : ChangedBy(m)
<1> DEFINE e == Entry(q, FALSE)
<1>1. PICK m \in Reports : /\ Report("added", q) = <<m>> /\ m.kind = "added"
                           /\ m.entries = <<Entry(q, "added" = "enabled")>>
                           /\ Key(m.entries[1]) = q
  BY ReportIs
<1>2. /\ \A k, s : k # q => Effect(m, k, s) = s
      /\ \A s : Effect(m, q, s) = IF s = "absent" THEN "off" ELSE s
  BY <1>1, ReportEffect
<1>3. e \in Entries /\ Key(e) = q /\ OnOff(e) = "off"
  BY EntryIs
<1> HIDE DEF e
<1>4. \A k : State(host', k) = IF State(host, k) = "absent" THEN State(<<e>>, k)
                               ELSE State(host, k)
  <2> DEFINE one == <<e>>
  <2>1. one \in Seq(Entries) /\ host' = Added(host, one)
    BY <1>3, StateOne DEF AddProfile, e
  <2>2. host \in Seq(Entries) /\ NoneTwice(host)
    BY DEF Structure, HostOK
  <2> HIDE DEF one
  <2>3. \A k : State(Added(host, one), k) =
                IF State(host, k) = "absent" THEN State(one, k) ELSE State(host, k)
    BY <2>1, <2>2, StateAdded
  <2> QED
    BY <2>1, <2>3 DEF one
<1>5. State(host, q) = "absent"
  BY StateIs DEF AddProfile, Structure, HostOK
<1>6. \A k : State(host', k) = IF k = q THEN "off" ELSE State(host, k)
  <2>1. \A k : State(<<e>>, k) = IF k = q THEN "off" ELSE "absent"
    BY <1>3, StateOne
  <2> DEFINE S(k) == State(<<e>>, k)
             H(k) == State(host, k)
             H2(k) == State(host', k)
  <2>2. /\ \A k : S(k) = IF k = q THEN "off" ELSE "absent"
        /\ \A k : H2(k) = IF H(k) = "absent" THEN S(k) ELSE H(k)
        /\ H(q) = "absent"
    BY <1>4, <1>5, <2>1
  <2> HIDE DEF S, H, H2
  <2>3. \A k : H2(k) = IF k = q THEN "off" ELSE H(k)
    BY <2>2
  <2> QED
    BY <2>3 DEF H, H2
<1>7. /\ due = Nothing /\ due' = <<m>> /\ torn' = torn
      /\ UNCHANGED <<inquiries, answer, wire, peer>>
  BY <1>1 DEF AddProfile, Changes
<1> QED
  BY <1>2, <1>5, <1>6, <1>7 DEF ChangedBy

LEMMA RemoveIs ==
    ASSUME Structure, NEW q \in ProfileKeys, RemoveProfile(q)
    PROVE  \E m \in Reports : ChangedBy(m)
<1>1. PICK m \in Reports : /\ Report("removed", q) = <<m>> /\ m.kind = "removed"
                           /\ m.entries = <<Entry(q, "removed" = "enabled")>>
                           /\ Key(m.entries[1]) = q
  BY ReportIs
<1>2. /\ \A k, s : k # q => Effect(m, k, s) = s
      /\ \A s : Effect(m, q, s) = "absent"
  BY <1>1, ReportEffect
<1>3. \A k : State(host', k) = IF k = q THEN "absent" ELSE State(host, k)
  BY StateWithout DEF RemoveProfile, Structure, HostOK
<1>4. /\ due = Nothing /\ due' = <<m>> /\ torn' = torn
      /\ UNCHANGED <<inquiries, answer, wire, peer>>
  BY <1>1 DEF RemoveProfile, Changes
<1> QED
  BY <1>2, <1>3, <1>4 DEF ChangedBy

LEMMA SetIs ==
    ASSUME Structure, NEW q \in ProfileKeys, NEW on \in BOOLEAN, SetEnabled(q, on)
    PROVE  \E m \in Reports : ChangedBy(m)
<1> DEFINE kind == IF on THEN "enabled" ELSE "disabled"
           to == IF on THEN "on" ELSE "off"
<1>1. PICK m \in Reports : /\ Report(kind, q) = <<m>> /\ m.kind = kind
                           /\ m.entries = <<Entry(q, kind = "enabled")>>
                           /\ Key(m.entries[1]) = q
  BY ReportIs
<1>2. /\ \A k, s : k # q => Effect(m, k, s) = s
      /\ \A s : Effect(m, q, s) = IF s = "absent" THEN s ELSE to
  BY <1>1, ReportEffect
<1>3. /\ State(host, q) # "absent"
      /\ \A k : State(host', k) = IF k = q THEN to ELSE State(host, k)
  BY StateIs, StateToggled DEF SetEnabled, Structure, HostOK
<1>4. /\ due = Nothing /\ due' = <<m>> /\ UNCHANGED <<inquiries, answer, wire, peer>>
      /\ torn' = IF on /\ BetweenLookups(q) THEN torn \cup {q} ELSE torn
  BY <1>1 DEF SetEnabled, Changes
<1>5. torn \subseteq torn' /\ (answer = Nothing => torn' = torn)
  BY <1>4 DEF BetweenLookups
<1>6. \A k \in ProfileKeys :
        State(host', k) = "on" /\ State(host, k) # "on" /\ BetweenLookups(k) => k \in torn'
  BY <1>3, <1>4
<1> QED
  BY <1>2, <1>3, <1>4, <1>5, <1>6 DEF ChangedBy

-----------------------------------------------------------------------------
\* Every step keeps the invariant.

LEMMA LinesAre ==
    ASSUME Structure
    PROVE  /\ wire \in Seq(Sound) /\ host \in Seq(Entries) /\ client \in Seq(Entries)
           /\ NoneTwice(host) /\ NoneTwice(client)
           /\ \A k : State(host, k) \in States /\ State(client, k) \in States
           /\ answer # Nothing => answer[1].replies \in Seq(Replies)
  BY StateIs, AnswerIs DEF Structure, LineOK, HostOK, ClientOK, Sound

LEMMA NoMessage ==
    ASSUME NEW k
    PROVE  \E e : /\ IsEffect(<<>>, k, e)
                  /\ \A j \in 1 .. Len(<<>>) + 1, s \in States : e[j][s] = s
<1> DEFINE none == <<>>
           e == [j \in {1} |-> [s \in States |-> s]]
<1>1. Len(none) + 1 = 1 /\ 1 .. Len(none) = {} /\ 1 .. Len(none) + 1 = {1}
  OBVIOUS
<1>2. \A s \in States : e[1][s] = s
  OBVIOUS
<1> HIDE DEF none, e
<1>3. IsEffect(none, k, e)
  BY <1>1, <1>2 DEF IsEffect
<1>4. \A j \in 1 .. Len(none) + 1, s \in States : e[j][s] = s
  BY <1>1, <1>2
<1> QED
  BY <1>3, <1>4 DEF none

\* A client that knows nothing, and no message.
LEMMA GoodAtFirst ==
    ASSUME NEW k, NEW h
    PROVE  Good(<<>>, Nothing, k, h, "absent", {"absent", h})
<1> DEFINE none == <<>>
<1>1. PICK e : /\ IsEffect(none, k, e)
               /\ \A j \in 1 .. Len(none) + 1, s \in States : e[j][s] = s
  BY NoMessage
<1>2. "absent" \in States /\ 1 \in 1 .. Len(none) + 1
  BY DEF States
<1> HIDE DEF none
<1>3. \A j \in 1 .. Len(none) + 1 : After(Nothing, k, e[j]["absent"]) = "absent"
  BY <1>1, <1>2, AfterIs
<1>4. Good(none, Nothing, k, h, "absent", {"absent", h})
  BY <1>1, <1>2, <1>3 DEF Good
<1> QED
  BY <1>4 DEF none

LEMMA InitInductive == Init => Inductive
<1> SUFFICES ASSUME Init, NEW k \in ProfileKeys PROVE DueOK(k) /\ WireOK(k) /\ ReadingOK(k)
  BY DEF Inductive
<1>1. /\ due = Nothing /\ wire = <<>> /\ client = <<>> /\ conn = 0 /\ answer = Nothing
  BY DEF Init
<1>2. DueOK(k) /\ ReadingOK(k)
  BY <1>1, AfterIs DEF DueOK, ReadingOK
<1>3. State(client, k) = "absent"
  BY <1>1, StateEmpty
<1>4. Good(wire, due, k, State(host, k), "absent", {"absent", State(host, k)})
  BY <1>1, GoodAtFirst
<1>5. Allowed(State(host, k), Informed(k)) = {"absent", State(host, k)}
  BY <1>1 DEF Allowed, Informed
<1>6. WireOK(k)
  BY <1>3, <1>4, <1>5 DEF WireOK
<1> QED
  BY <1>2, <1>6

LEMMA ChangeStep ==
    ASSUME Structure, Inductive, NEW m \in Reports, ChangedBy(m)
    PROVE  Inductive'
<1> SUFFICES ASSUME NEW k \in ProfileKeys PROVE (DueOK(k) /\ WireOK(k) /\ ReadingOK(k))'
  BY DEF Inductive
<1> DEFINE h == State(host, k)
           h2 == State(host', k)
           c == State(client, k)
           T == Allowed(h, Informed(k))
           T2 == Allowed(h2, Informed(k)')
<1>1. /\ due = Nothing /\ due' = <<m>> /\ torn \subseteq torn'
      /\ (answer = Nothing => torn' = torn)
      /\ inquiries' = inquiries /\ answer' = answer /\ wire' = wire
      /\ conn' = conn /\ client' = client
  BY DEF ChangedBy, peer
<1>2. /\ Effect(m, k, h2) = h2 /\ Effect(m, k, h) = h2
      /\ Effect(m, k, "absent") \in {"absent", h2}
      /\ h2 = "on" /\ h # "on" /\ BetweenLookups(k) => k \in torn'
  BY DEF ChangedBy
<1>3. DueOK(k)'
  BY <1>1, <1>2, AfterIs DEF DueOK
<1>4. wire \in Seq(Sound) /\ (answer # Nothing => answer[1].replies \in Seq(Replies))
  BY LinesAre
<1>5. Good(wire, Nothing, k, h, c, T)
  BY <1>1 DEF Inductive, WireOK
<1>6. \A s \in {"absent", h} : Effect(m, k, s) \in {"absent", h2}
  BY <1>2
<1>7. \A s \in T : Effect(m, k, s) \in T2
  <2>1. Informed(k)' => Informed(k)
    BY <1>1 DEF Informed
  <2> QED
    BY <1>2, <2>1 DEF Allowed
<1> HIDE DEF T, T2, h, h2, c
<1>8. Good(wire, <<m>>, k, h2, c, T2)
  BY <1>4, <1>5, <1>6, <1>7, GoodChanged
<1>9. WireOK(k)'
  BY <1>1, <1>8 DEF WireOK, T2, h2, c
<1>10. ASSUME answer # Nothing PROVE Reading(answer[1], <<m>>, k, h2, torn')
  <2> DEFINE a == answer[1]
             U == Allowed(h, k \notin torn)
             U2 == Allowed(h2, k \notin torn')
  <2>1. Reading(a, Nothing, k, h, torn) /\ a.replies \in Seq(Sound)
    BY <1>1, <1>4, <1>10 DEF Inductive, ReadingOK, Sound, h
  <2>2. \A s \in U : Effect(m, k, s) \in U2
    BY <1>1, <1>2 DEF Allowed
  <2>3. BetweenLookups(k) <=> a.found # Nothing /\ Lowest(a.todo) = k[2]
    BY <1>10 DEF BetweenLookups
  <2> HIDE DEF a, U, U2
  <2>4. ASSUME k[2] \notin a.todo PROVE GoodReplies(a.replies, <<m>>, k, h2, U2)
    <3>1. GoodReplies(a.replies, Nothing, k, h, U)
      BY <2>1, <2>4 DEF Reading, U
    <3> QED
      BY <1>6, <2>1, <2>2, <3>1, RepliesChanged
  <2>5. ASSUME a.found # Nothing, Has(a.found[1], k)
        PROVE  /\ Lowest(a.todo) = k[2] /\ State(a.found[1], k) = "on"
               /\ After(<<m>>, k, "on") = h2
    <3>1. /\ Lowest(a.todo) = k[2] /\ State(a.found[1], k) = "on"
          /\ After(Nothing, k, "on") = h
      BY <2>1, <2>5 DEF Reading
    <3> QED
      BY <1>2, <3>1, AfterIs
  <2>6. ASSUME a.found # Nothing, ~Has(a.found[1], k), Lowest(a.todo) = k[2]
        PROVE  k \in torn' \/ h2 # "on"
    <3>1. k \in torn \/ h # "on"
      BY <2>1, <2>6 DEF Reading
    <3> QED
      BY <1>1, <1>2, <2>3, <2>6, <3>1
  <2>7. k[2] \in a.todo => \A i \in 1 .. Len(a.replies) : ~Has(a.replies[i].entries, k)
    BY <2>1 DEF Reading
  <2>8. Reading(a, <<m>>, k, h2, torn')
    BY <2>4, <2>5, <2>6, <2>7 DEF Reading, U2
  <2> QED
    BY <2>8 DEF a
<1>11. ReadingOK(k)'
  BY <1>1, <1>10 DEF ReadingOK, h2
<1> QED
  BY <1>3, <1>9, <1>11

\* The client does with a message what Effect says.
LEMMA TakeIs ==
    ASSUME Structure, Receive, conn > 0, NEW k
    PROVE  State(client', k) = Effect(Head(wire), k, State(client, k))
<1> DEFINE m == Head(wire)
           q == Key(m.entries[1])
<1>1. /\ wire # <<>>
      /\ \/ TakeReply(m) \/ TakeRemoved(m) \/ TakeToggled(m)
         \/ /\ m.kind \in {"removed", "enabled", "disabled"} /\ ~Has(client, q)
            /\ client' = client
  BY DEF Receive, Structure, ClientOK
<1>2. m \in Sound
  BY <1>1, HeadTailProperties, LinesAre
<1>3. /\ m.entries \in Seq(Entries) /\ client \in Seq(Entries) /\ NoneTwice(client)
      /\ m.kind \in {"reply", "added", "removed", "enabled", "disabled"}
  BY <1>2, SoundIs, LinesAre
<1> HIDE DEF m
<1>4. CASE TakeReply(m)
  <2>1. m.kind \in {"reply", "added"} /\ client' = Added(client, m.entries)
    BY <1>4 DEF TakeReply
  <2> QED
    BY <1>3, <2>1, StateAdded DEF Effect, m
<1>5. CASE TakeRemoved(m)
  <2>1. m.kind = "removed" /\ client' = Without(client, q)
    BY <1>5 DEF TakeRemoved
  <2> QED
    BY <1>3, <2>1, StateWithout DEF Effect, m
<1>6. CASE TakeToggled(m)
  <2>1. /\ m.kind \in {"enabled", "disabled"}
        /\ client' = Toggled(client, q, m.kind = "enabled")
    BY <1>6 DEF TakeToggled
  <2>2. \A on \in BOOLEAN :
          State(Toggled(client, q, on), k) =
             IF k = q /\ State(client, k) # "absent" THEN (IF on THEN "on" ELSE "off")
             ELSE State(client, k)
    BY <1>3, StateToggled
  <2>3. CASE m.kind = "enabled"
    <3>1. client' = Toggled(client, q, TRUE)
      BY <2>1, <2>3
    <3> QED
      BY <2>2, <2>3, <3>1 DEF Effect, m
  <2>4. CASE m.kind = "disabled"
    <3>1. client' = Toggled(client, q, FALSE)
      BY <2>1, <2>4
    <3> QED
      BY <2>2, <2>4, <3>1 DEF Effect, m
  <2> QED
    BY <2>1, <2>3, <2>4
<1>7. CASE m.kind \in {"removed", "enabled", "disabled"} /\ ~Has(client, q) /\ client' = client
  <2>1. State(client, q) = "absent"
    BY <1>3, <1>7, StateIs
  <2> QED
    BY <1>7, <2>1 DEF Effect, m
<1> QED
  BY <1>1, <1>4, <1>5, <1>6, <1>7

LEMMA ReceiveStep ==
    ASSUME Structure, Inductive, Receive
    PROVE  Inductive'
<1> SUFFICES ASSUME NEW k \in ProfileKeys PROVE (DueOK(k) /\ WireOK(k) /\ ReadingOK(k))'
  BY DEF Inductive
<1> DEFINE h == State(host, k)
           c == State(client, k)
           T == Allowed(h, Informed(k))
<1>1. /\ wire # <<>> /\ wire' = Tail(wire)
      /\ UNCHANGED <<host, due, torn, inquiries, answer, conn>>
      /\ conn = 0 => client' = client
  BY DEF Receive, application, Structure, ClientOK
<1>2. DueOK(k)' /\ ReadingOK(k)' /\ (Informed(k)' <=> Informed(k))
  BY <1>1 DEF Inductive, DueOK, ReadingOK, Informed
<1>3. wire \in Seq(Sound) /\ Tail(wire) \in Seq(Sound) /\ c \in States
  BY <1>1, LinesAre, HeadTailProperties
<1>4. Good(wire, due, k, h, c, T)
  BY DEF Inductive, WireOK
<1> HIDE DEF h, c, T
<1>5. Good(Tail(wire), due, k, h, Effect(Head(wire), k, c), T)
  BY <1>1, <1>3, <1>4, GoodTaken
<1>6. /\ Allowed(State(host', k), Informed(k)') = T
      /\ State(host', k) = h /\ due' = due /\ wire' = Tail(wire)
  BY <1>1, <1>2 DEF T, h, Allowed
<1>7. CASE conn > 0
  <2>1. State(client', k) = Effect(Head(wire), k, c)
    BY <1>7, TakeIs DEF c
  <2>2. WireOK(k)'
    BY <1>5, <1>6, <2>1 DEF WireOK
  <2> QED
    BY <1>2, <2>2
<1>8. CASE ~(conn > 0)
  <2>1. conn = 0 /\ client = <<>> /\ client' = client
    BY <1>1, <1>8 DEF Structure, ClientOK
  <2>2. State(client', k) = "absent" /\ ~Informed(k)
    BY <1>8, <2>1, StateEmpty DEF Informed
  <2>3. Good(Tail(wire), due, k, h, "absent", {"absent", h})
    BY <1>3, <1>5, GoodAnew
  <2>4. T = {"absent", h}
    BY <2>2 DEF Allowed, T, h
  <2>5. WireOK(k)'
    BY <1>6, <2>2, <2>3, <2>4 DEF WireOK
  <2> QED
    BY <1>2, <2>5
<1> QED
  BY <1>7, <1>8

LEMMA SendReportStep ==
    ASSUME Structure, Inductive, SendReport
    PROVE  Inductive'
<1> SUFFICES ASSUME NEW k \in ProfileKeys PROVE (DueOK(k) /\ WireOK(k) /\ ReadingOK(k))'
  BY DEF Inductive
<1> DEFINE h == State(host, k)
           c == State(client, k)
           T == Allowed(h, Informed(k))
<1>1. PICK m \in Reports : due = <<m>>
  BY DEF SendReport, Structure, HostOK
<1>2. /\ wire' = wire \o <<m>> /\ due' = Nothing /\ answer = Nothing
      /\ UNCHANGED <<host, torn, inquiries, answer, conn, client>>
  BY <1>1 DEF SendReport, DeviceFree, peer
<1>3. DueOK(k)' /\ ReadingOK(k)' /\ (Informed(k)' <=> Informed(k))
  BY <1>2, AfterIs DEF DueOK, ReadingOK, Informed
<1>4. wire \in Seq(Sound) /\ m \in Sound /\ c \in States
  BY LinesAre DEF Sound
<1>5. Good(wire, <<m>>, k, h, c, T)
  BY <1>1 DEF Inductive, WireOK
<1>6. Allowed(State(host', k), Informed(k)') = T
  BY <1>2, <1>3 DEF Allowed
<1> HIDE DEF T
<1>7. Good(wire \o <<m>>, Nothing, k, h, c, T)
  BY <1>4, <1>5, GoodSent
<1>8. WireOK(k)'
  BY <1>2, <1>6, <1>7 DEF WireOK
<1> QED
  BY <1>3, <1>8

LEMMA SendRepliesStep ==
    ASSUME Structure, Inductive, SendReplies
    PROVE  Inductive'
<1> SUFFICES ASSUME NEW k \in ProfileKeys PROVE (DueOK(k) /\ WireOK(k) /\ ReadingOK(k))'
  BY DEF Inductive
<1> DEFINE h == State(host, k)
           c == State(client, k)
           replies == answer[1].replies
           U == Allowed(h, k \notin torn)
           T2 == Allowed(h, Informed(k)')
<1>1. /\ answer # Nothing /\ answer[1].todo = {} /\ answer' = Nothing
      /\ wire' = wire \o replies
      /\ UNCHANGED <<host, due, torn, inquiries, conn, client>>
  BY DEF SendReplies, application, peer
<1>2. DueOK(k)' /\ ReadingOK(k)'
  BY <1>1 DEF Inductive, DueOK, ReadingOK
<1>3. wire \in Seq(Sound) /\ replies \in Seq(Sound) /\ c \in States
  BY <1>1, LinesAre DEF Sound
<1>4. GoodReplies(replies, due, k, h, U)
  BY <1>1 DEF Inductive, ReadingOK, Reading
<1>5. Good(wire, due, k, h, c, {"absent", h})
  <2>1. ~Informed(k)
    BY <1>1 DEF Informed
  <2>2. Allowed(h, Informed(k)) = {"absent", h}
    BY <2>1 DEF Allowed
  <2> QED
    BY <2>2 DEF Inductive, WireOK
<1>6. \A s \in States : s # "absent" /\ After(due, k, s) = "absent" => h = "absent"
  BY DueHarmless DEF Structure, Inductive
<1>7. h \in U /\ U \subseteq T2
  <2>1. Informed(k)' => k \notin torn
    BY <1>1 DEF Informed
  <2> QED
    BY <2>1 DEF Allowed
<1>8. Allowed(State(host', k), Informed(k)') = T2
  BY <1>1 DEF Allowed
<1> HIDE DEF h, c, replies, U, T2
<1>9. Good(wire \o replies, due, k, h, c, U)
  BY <1>3, <1>4, <1>5, <1>6, <1>7, GoodAnswered
<1>10. Good(wire \o replies, due, k, h, c, T2)
  BY <1>7, <1>9, GoodWeakens
<1>11. WireOK(k)'
  BY <1>1, <1>8, <1>10 DEF WireOK, h, c
<1> QED
  BY <1>2, <1>11

LEMMA ConnectStep ==
    ASSUME Structure, Inductive, Connect
    PROVE  Inductive'
<1> SUFFICES ASSUME NEW k \in ProfileKeys PROVE (DueOK(k) /\ WireOK(k) /\ ReadingOK(k))'
  BY DEF Inductive
<1> DEFINE h == State(host, k)
<1>1. /\ client' = <<>> /\ inquiries' = inquiries + 1
      /\ UNCHANGED <<host, due, torn, answer, wire>>
  BY DEF Connect, application
<1>2. DueOK(k)' /\ ReadingOK(k)'
  BY <1>1 DEF Inductive, DueOK, ReadingOK
<1>3. ~Informed(k)' /\ State(client', k) = "absent"
  BY <1>1, StateEmpty DEF Informed, Structure, LineOK, ClientOK
<1>4. Allowed(h, Informed(k)') = {"absent", h}
  BY <1>3 DEF Allowed
<1>5. wire \in Seq(Sound) /\ Good(wire, due, k, h, State(client, k), Allowed(h, Informed(k)))
  BY LinesAre DEF Inductive, WireOK
<1>6. Good(wire, due, k, h, "absent", {"absent", h})
  BY <1>5, GoodAnew
<1>7. WireOK(k)'
  BY <1>1, <1>3, <1>4, <1>6 DEF WireOK
<1> QED
  BY <1>2, <1>7

\* An answer that has looked up nothing misses no profile of an address that
\* it is not going to look up.
LEMMA BeginAnswerStep ==
    ASSUME Structure, Inductive, BeginAnswer
    PROVE  Inductive'
<1> SUFFICES ASSUME NEW k \in ProfileKeys PROVE (DueOK(k) /\ WireOK(k) /\ ReadingOK(k))'
  BY DEF Inductive
<1> DEFINE h == State(host, k)
           c == State(client, k)
           todo == {host[i].address : i \in 1 .. Len(host)}
           b == [todo |-> todo, found |-> Nothing, replies |-> <<>>]
<1>1. /\ answer' = <<b>> /\ torn' = {}
      /\ UNCHANGED <<host, due, wire, conn, client>>
  BY DEF BeginAnswer, peer
<1>2. DueOK(k)' /\ DueOK(k)
  BY <1>1 DEF Inductive, DueOK
<1>3. ~Informed(k)'
  BY <1>1 DEF Informed, Nothing
<1>4. Good(wire, due, k, h, c, Allowed(h, Informed(k)))
  BY DEF Inductive, WireOK
<1>5. Allowed(h, Informed(k)') = {"absent", h} /\ Allowed(h, Informed(k)) \subseteq {"absent", h}
  BY <1>3 DEF Allowed
<1>6. Good(wire, due, k, h, c, {"absent", h})
  BY <1>4, <1>5, GoodWeakens
<1>7. WireOK(k)'
  BY <1>1, <1>5, <1>6 DEF WireOK
<1>8. ASSUME k[2] \notin todo PROVE GoodReplies(<<>>, due, k, h, Allowed(h, TRUE))
  <2>1. \A i \in 1 .. Len(host) : Key(host[i]) # k
    BY <1>8 DEF Key
  <2>2. h = "absent"
    BY <2>1, LinesAre, StateIs DEF Has
  <2>3. After(due, k, "absent") = "absent"
    BY <1>2, <2>2 DEF DueOK
  <2> DEFINE none == <<>>
  <2>4. PICK e : /\ IsEffect(none, k, e)
                 /\ \A j \in 1 .. Len(none) + 1, s \in States : e[j][s] = s
    BY NoMessage
  <2>5. "absent" \in States /\ 1 \in 1 .. Len(none) + 1
    BY DEF States
  <2> HIDE DEF none, h
  <2>6. \A j \in 1 .. Len(none) + 1 : e[j]["absent"] = "absent"
    BY <2>4, <2>5
  <2>7. \A j \in 1 .. Len(none) + 1, s \in States : s # "absent" => e[j][s] = s
    BY <2>4
  <2>8. GoodReplies(none, due, k, h, Allowed(h, TRUE))
    BY <2>2, <2>3, <2>4, <2>5, <2>6, <2>7 DEF GoodReplies, Allowed
  <2> QED
    BY <2>8 DEF none
<1>9. Reading(b, due, k, h, {})
  <2>1. b.todo = todo /\ b.found = Nothing /\ b.replies = <<>>
    OBVIOUS
  <2>2. Allowed(h, k \notin {}) = Allowed(h, TRUE)
    BY DEF Allowed
  <2> HIDE DEF todo, b, h
  <2>3. \A i \in 1 .. Len(b.replies) : ~Has(b.replies[i].entries, k)
    BY <2>1
  <2> QED
    BY <1>8, <2>1, <2>2, <2>3 DEF Reading
<1>10. answer'[1] = b
  BY <1>1
<1>11. ReadingOK(k)'
  <2> HIDE DEF b
  <2> QED
    BY <1>1, <1>9, <1>10 DEF ReadingOK
<1> QED
  BY <1>2, <1>7, <1>11

LEMMA LookUpEnabledStep ==
    ASSUME Structure, Inductive, LookUpEnabled
    PROVE  Inductive'
<1> SUFFICES ASSUME NEW k \in ProfileKeys PROVE (DueOK(k) /\ WireOK(k) /\ ReadingOK(k))'
  BY DEF Inductive
<1> DEFINE h == State(host, k)
           a == answer[1]
           l == Matching(Lowest(a.todo), TRUE)
           b == [todo |-> a.todo, found |-> <<l>>, replies |-> a.replies]
<1>1. /\ answer # Nothing /\ answer' = <<b>>
      /\ UNCHANGED <<host, due, torn, inquiries, wire, conn, client>>
  BY DEF LookUpEnabled, application, peer
<1>2. DueOK(k)' /\ (Informed(k)' <=> Informed(k))
  BY <1>1 DEF Inductive, DueOK, Informed, Nothing
<1>3. WireOK(k)'
  <2>1. Allowed(State(host', k), Informed(k)') = Allowed(h, Informed(k))
    BY <1>1, <1>2 DEF Allowed
  <2>2. WireOK(k)
    BY DEF Inductive
  <2> QED
    BY <1>1, <2>1, <2>2 DEF WireOK
<1>4. DueOK(k) /\ Reading(a, due, k, h, torn)
  BY <1>1 DEF Inductive, ReadingOK
<1>5. l \in Seq(Entries)
      /\ State(l, k) = IF k[2] = Lowest(a.todo) /\ h = "on" THEN h ELSE "absent"
  <2>1. /\ Matching(Lowest(a.todo), TRUE) \in Seq(Entries)
        /\ State(Matching(Lowest(a.todo), TRUE), k) =
             IF k[2] = Lowest(a.todo) /\ State(host, k) = (IF TRUE THEN "on" ELSE "off")
             THEN State(host, k) ELSE "absent"
    BY LinesAre, StateMatching
  <2> QED
    BY <2>1
<1>6. /\ b.todo = a.todo /\ b.replies = a.replies /\ b.found[1] = l
      /\ answer'[1] = b
  BY <1>1
<1>7. Has(l, k) <=> State(l, k) # "absent"
  BY <1>5, StateIs
<1>8. Reading(b, due, k, h, torn)
  <2> HIDE DEF a, l, b
  <2>1. Has(l, k) => /\ Lowest(a.todo) = k[2] /\ State(l, k) = "on" /\ After(due, k, "on") = h
    <3>1. ASSUME Has(l, k) PROVE h = "on" /\ Lowest(a.todo) = k[2] /\ State(l, k) = h
      BY <1>5, <1>7, <3>1
    <3>2. After(due, k, h) = h
      BY <1>4 DEF DueOK
    <3> QED
      BY <3>1, <3>2
  <2>2. ~Has(l, k) /\ Lowest(a.todo) = k[2] => h # "on"
    BY <1>5, <1>7
  <2>3. /\ k[2] \in a.todo => \A i \in 1 .. Len(a.replies) : ~Has(a.replies[i].entries, k)
        /\ k[2] \notin a.todo => GoodReplies(a.replies, due, k, h, Allowed(h, k \notin torn))
    BY <1>4 DEF Reading
  <2> QED
    BY <1>6, <2>1, <2>2, <2>3 DEF Reading
<1>9. ReadingOK(k)'
  <2> HIDE DEF b
  <2> QED
    BY <1>1, <1>6, <1>8 DEF ReadingOK
<1> QED
  BY <1>2, <1>3, <1>9

\* One more reply.
LEMMA RepliesMore ==
    ASSUME NEW line \in Seq(Sound), NEW r \in Sound, NEW k, NEW e, IsEffect(line, k, e)
    PROVE  \E g : /\ IsEffect(line \o <<r>>, k, g)
                  /\ \A s \in States : g[1][s] = Effect(r, k, e[1][s])
                  /\ \A j \in 1 .. Len(line \o <<r>>) + 1 :
                       \/ \E i \in 1 .. Len(line) + 1 :
                            \A s \in States : g[j][s] = Effect(r, k, e[i][s])
                       \/ \A s \in States : g[j][s] = s
<1> DEFINE one == <<r>>
           n == Len(line)
           l == line \o one
<1>1. PICK f : IsEffect(one, k, f) /\ \A s \in States : f[1][s] = Effect(r, k, s)
  BY OneEffect
<1>2. one \in Seq(Sound) /\ Len(one) = 1
  BY OneIs
<1> HIDE DEF one
<1>3. PICK g : /\ IsEffect(l, k, g)
               /\ \A j \in 1 .. n + 1, s \in States : g[j][s] = f[1][e[j][s]]
               /\ \A j \in 1 .. Len(one) + 1, s \in States : g[n + j][s] = f[j][s]
               /\ \A j \in 1 .. Len(l) + 1 :
                    \/ j \in 1 .. n + 1
                    \/ \E i \in 1 .. Len(one) + 1 : j = n + i
  BY <1>1, <1>2, JoinEffect
<1>4. n \in Nat /\ 1 \in 1 .. n + 1
  BY LenProperties
<1>5. \A j \in 1 .. n + 1, s \in States : e[j][s] \in States
  BY DEF IsEffect
<1> HIDE DEF n, l
<1>6. \A j \in 1 .. n + 1, s \in States : g[j][s] = Effect(r, k, e[j][s])
  BY <1>1, <1>3, <1>5
<1>7. ASSUME NEW j \in 1 .. Len(l) + 1, j \notin 1 .. n + 1
      PROVE  \A s \in States : g[j][s] = s
  <2>1. PICK i \in 1 .. Len(one) + 1 : j = n + i
    BY <1>3, <1>7
  <2>2. i = Len(one) + 1
    BY <1>2, <1>4, <1>7, <2>1
  <2>3. \A s \in States : g[j][s] = f[Len(one) + 1][s]
    BY <1>3, <2>1, <2>2
  <2>4. \A s \in States : f[Len(one) + 1][s] = s
    BY <1>1 DEF IsEffect
  <2> QED
    BY <2>3, <2>4
<1>8. \A j \in 1 .. Len(l) + 1 :
         \/ \E i \in 1 .. n + 1 : \A s \in States : g[j][s] = Effect(r, k, e[i][s])
         \/ \A s \in States : g[j][s] = s
  <2> SUFFICES ASSUME NEW j \in 1 .. Len(l) + 1, ~(\A s \in States : g[j][s] = s)
               PROVE  \E i \in 1 .. n + 1 : \A s \in States : g[j][s] = Effect(r, k, e[i][s])
    OBVIOUS
  <2>1. j \in 1 .. n + 1
    BY <1>7
  <2> WITNESS j \in 1 .. n + 1
  <2> QED
    BY <1>6, <2>1
<1>9. IsEffect(line \o <<r>>, k, g)
  BY <1>3 DEF l, one
<1>10. \A s \in States : g[1][s] = Effect(r, k, e[1][s])
  BY <1>4, <1>6
<1>11. \A j \in 1 .. Len(line \o <<r>>) + 1 :
         \/ \E i \in 1 .. Len(line) + 1 : \A s \in States : g[j][s] = Effect(r, k, e[i][s])
         \/ \A s \in States : g[j][s] = s
  BY <1>8 DEF l, n, one
<1> QED
  BY <1>9, <1>10, <1>11

\* A reply that says nothing of k.
LEMMA RepliesIdle ==
    ASSUME NEW line \in Seq(Sound), NEW r \in Replies, NEW d, NEW k, NEW h, NEW T,
           ~Has(r.entries, k), GoodReplies(line, d, k, h, T),
           After(d, k, "absent") \in {"absent", h}
    PROVE  GoodReplies(line \o <<r>>, d, k, h, T)
<1> DEFINE l == line \o <<r>>
<1>1. PICK e : /\ IsEffect(line, k, e)
               /\ \A j \in 1 .. Len(line) + 1, s \in States : s # "absent" => e[j][s] = s
               /\ \A j \in 1 .. Len(line) + 1 : After(d, k, e[j]["absent"]) \in {"absent", h}
               /\ After(d, k, e[1]["absent"]) \in T
  BY DEF GoodReplies
<1>2. r \in Sound /\ \A s \in States : Effect(r, k, s) = s
  <2>1. r \in Sound /\ r.kind = "reply"
    BY DEF Sound, Replies
  <2>2. State(r.entries, k) = "absent"
    BY <2>1, SoundIs, StateIs
  <2> QED
    BY <2>1, <2>2, EffectIs
<1>3. PICK g : /\ IsEffect(l, k, g)
               /\ \A s \in States : g[1][s] = Effect(r, k, e[1][s])
               /\ \A j \in 1 .. Len(l) + 1 :
                    \/ \E i \in 1 .. Len(line) + 1 :
                         \A s \in States : g[j][s] = Effect(r, k, e[i][s])
                    \/ \A s \in States : g[j][s] = s
  BY <1>1, <1>2, RepliesMore
<1>4. /\ "absent" \in States /\ 1 \in 1 .. Len(line) + 1
      /\ \A i \in 1 .. Len(line) + 1, s \in States : e[i][s] \in States
  BY <1>1, LenProperties DEF States, IsEffect
<1> HIDE DEF l
<1>5. \A j \in 1 .. Len(l) + 1 :
         \/ \E i \in 1 .. Len(line) + 1 : \A s \in States : g[j][s] = e[i][s]
         \/ \A s \in States : g[j][s] = s
  BY <1>2, <1>3, <1>4
<1>6. \A j \in 1 .. Len(l) + 1, s \in States : s # "absent" => g[j][s] = s
  BY <1>1, <1>5
<1>7. \A j \in 1 .. Len(l) + 1 : After(d, k, g[j]["absent"]) \in {"absent", h}
  BY <1>1, <1>4, <1>5
<1>8. After(d, k, g[1]["absent"]) \in T
  BY <1>1, <1>2, <1>3, <1>4
<1> QED
  BY <1>3, <1>6, <1>7, <1>8 DEF GoodReplies, l

\* The first reply that tells of k.
LEMMA RepliesFirst ==
    ASSUME NEW line \in Seq(Replies), NEW r \in Replies, NEW d, NEW k, NEW h, NEW T,
           \A i \in 1 .. Len(line) : ~Has(line[i].entries, k),
           After(d, k, "absent") \in {"absent", h},
           After(d, k, State(r.entries, k)) \in {"absent", h},
           After(d, k, State(r.entries, k)) \in T
    PROVE  GoodReplies(line \o <<r>>, d, k, h, T)
<1> DEFINE l == line \o <<r>>
<1>1. /\ line \in Seq(Sound) /\ r \in Sound /\ r.kind = "reply"
      /\ \A i \in 1 .. Len(line) : line[i] \in Replies /\ line[i] \in Sound
  BY ElementOfSeq DEF Sound, Replies
<1>2. ASSUME NEW i \in 1 .. Len(line), NEW s \in States PROVE Effect(line[i], k, s) = s
  <2> DEFINE m == line[i]
  <2>1. m \in Sound /\ m.kind = "reply" /\ ~Has(m.entries, k)
    BY <1>1 DEF Replies
  <2> HIDE DEF m
  <2>2. State(m.entries, k) = "absent"
    BY <2>1, SoundIs, StateIs
  <2>3. /\ s # "absent" => Effect(m, k, s) = s
        /\ Effect(m, k, "absent") = "absent"
    BY <2>1, <2>2, EffectIs
  <2>4. Effect(m, k, s) = s
    BY <2>3
  <2> QED
    BY <2>4 DEF m
<1>3. \A j \in 1 .. Len(line), s \in States : Effect(line[j], k, s) = s
  BY <1>2
<1> DEFINE e == Idle(line)
<1>4. /\ IsEffect(line, k, e)
      /\ \A j \in 1 .. Len(line) + 1, s \in States : e[j][s] = s
  BY <1>1, <1>3, IdleEffect
<1> HIDE DEF e
<1>5. PICK g : /\ IsEffect(l, k, g)
               /\ \A s \in States : g[1][s] = Effect(r, k, e[1][s])
               /\ \A j \in 1 .. Len(l) + 1 :
                    \/ \E i \in 1 .. Len(line) + 1 :
                         \A s \in States : g[j][s] = Effect(r, k, e[i][s])
                    \/ \A s \in States : g[j][s] = s
  BY <1>1, <1>4, RepliesMore
<1>6. "absent" \in States /\ 1 \in 1 .. Len(line) + 1
  BY LenProperties DEF States
<1>7. /\ \A s \in States : s # "absent" => Effect(r, k, s) = s
      /\ Effect(r, k, "absent") = State(r.entries, k)
  BY <1>1, EffectIs
<1> HIDE DEF l
<1>8. \A j \in 1 .. Len(l) + 1 :
         \/ \A s \in States : g[j][s] = Effect(r, k, s)
         \/ \A s \in States : g[j][s] = s
  BY <1>5, <1>4
<1>9. \A j \in 1 .. Len(l) + 1, s \in States : s # "absent" => g[j][s] = s
  BY <1>7, <1>8
<1>10. \A j \in 1 .. Len(l) + 1 : After(d, k, g[j]["absent"]) \in {"absent", h}
  BY <1>6, <1>7, <1>8
<1>11. After(d, k, g[1]["absent"]) \in T
  BY <1>5, <1>6, <1>7, <1>4
<1> QED
  BY <1>5, <1>9, <1>10, <1>11 DEF GoodReplies, l

LEMMA LookUpDisabledStep ==
    ASSUME Structure, Inductive, LookUpDisabled
    PROVE  Inductive'
<1> SUFFICES ASSUME NEW k \in ProfileKeys PROVE (DueOK(k) /\ WireOK(k) /\ ReadingOK(k))'
  BY DEF Inductive
<1> DEFINE h == State(host, k)
           a == answer[1]
           low == Lowest(a.todo)
           l == Matching(low, FALSE)
           r == [kind |-> "reply", entries |-> a.found[1] \o l]
           b == [todo |-> a.todo \ {low}, found |-> Nothing,
                 replies |-> Append(a.replies, r)]
           U == Allowed(h, k \notin torn)
<1>1. /\ answer # Nothing /\ a.found # Nothing /\ answer' = <<b>>
      /\ UNCHANGED <<host, due, torn, inquiries, wire, conn, client>>
  BY DEF LookUpDisabled, application, peer
<1>2. DueOK(k)' /\ DueOK(k) /\ (Informed(k)' <=> Informed(k))
  BY <1>1 DEF Inductive, DueOK, Informed, Nothing
<1>3. WireOK(k)'
  <2>1. Allowed(State(host', k), Informed(k)') = Allowed(h, Informed(k))
    BY <1>1, <1>2 DEF Allowed
  <2>2. WireOK(k)
    BY DEF Inductive
  <2> QED
    BY <1>1, <2>1, <2>2 DEF WireOK
<1>4. Reading(a, due, k, h, torn)
  BY <1>1 DEF Inductive, ReadingOK
<1>5. /\ a.replies \in Seq(Replies) /\ a.found[1] \in Seq(Entries) /\ low \in a.todo
  BY <1>1, AnswerIs DEF Structure
<1>6. l \in Seq(Entries)
      /\ State(l, k) = IF k[2] = low /\ h = "off" THEN h ELSE "absent"
  <2>1. /\ Matching(low, FALSE) \in Seq(Entries)
        /\ State(Matching(low, FALSE), k) =
             IF k[2] = low /\ State(host, k) = (IF FALSE THEN "on" ELSE "off")
             THEN State(host, k) ELSE "absent"
    BY LinesAre, StateMatching
  <2> QED
    BY <2>1
<1>7. /\ b.todo = a.todo \ {low} /\ b.found = Nothing /\ b.replies = Append(a.replies, r)
      /\ answer'[1] = b
  BY <1>1
<1>8. h \in States
  BY LinesAre
<1>9. After(due, k, h) = h /\ After(due, k, "absent") \in {"absent", h}
  <2>1. PICK e : /\ IsEffect(wire, k, e)
                 /\ \A j \in 1 .. Len(wire) + 1 : After(due, k, e[j]["absent"]) \in {"absent", h}
    BY DEF Inductive, WireOK, Good
  <2>2. Len(wire) + 1 \in 1 .. Len(wire) + 1 /\ "absent" \in States
    BY LinesAre, LenProperties DEF States
  <2>3. e[Len(wire) + 1]["absent"] = "absent"
    BY <2>1, <2>2 DEF IsEffect
  <2>4. After(due, k, "absent") \in {"absent", h}
    BY <2>1, <2>2, <2>3
  <2> QED
    BY <1>2, <2>4 DEF DueOK
<1> DEFINE entries == a.found[1] \o l
<1>10. /\ entries \in Seq(Entries)
       /\ State(entries, k) = IF Has(a.found[1], k) THEN State(a.found[1], k) ELSE State(l, k)
       /\ Has(entries, k) <=> Has(a.found[1], k) \/ Has(l, k)
       /\ State(entries, k) = "absent" <=> ~Has(entries, k)
       /\ State(l, k) = "absent" <=> ~Has(l, k)
  <2> HIDE DEF a, l
  <2>1. entries \in Seq(Entries)
    BY <1>5, <1>6, ConcatIs
  <2> QED
    BY <1>5, <1>6, <2>1, StateConcat, StateIs
<1>11. r \in Replies /\ r.entries = entries
  <2> HIDE DEF entries
  <2> QED
    BY <1>10 DEF Replies, Messages, entries
<1>12. a.replies \in Seq(Sound) /\ b.replies = a.replies \o <<r>>
  <2>1. Append(a.replies, r) = a.replies \o <<r>>
    <3> HIDE DEF a, r
    <3> QED
      BY <1>5, <1>11, AppendIs
  <2> HIDE DEF a, r, b
  <2>2. a.replies \in Seq(Sound)
    BY <1>5 DEF Sound
  <2> QED
    BY <1>7, <2>1, <2>2
<1>13. (k[2] # low => ~Has(entries, k)) /\ (Has(a.found[1], k) => k[2] = low)
  BY <1>1, <1>4, <1>6, <1>10 DEF Reading
<1>14. ASSUME k[2] = low PROVE After(due, k, State(entries, k)) \in {"absent", h} \cap U
  <2>1. CASE Has(a.found[1], k)
    <3>1. State(a.found[1], k) = "on" /\ After(due, k, "on") = h
      BY <1>1, <1>4, <2>1 DEF Reading
    <3> QED
      BY <1>10, <2>1, <3>1 DEF Allowed
  <2>2. CASE ~Has(a.found[1], k)
    <3>1. k \in torn \/ h # "on"
      BY <1>1, <1>4, <1>14, <2>2 DEF Reading
    <3>2. State(entries, k) = IF h = "off" THEN h ELSE "absent"
      BY <1>6, <1>10, <1>14, <2>2
    <3> HIDE DEF h
    <3>3. CASE h # "on"
      BY <1>8, <1>9, <3>2, <3>3 DEF Allowed, States
    <3>4. CASE h = "on"
      <4>1. State(entries, k) = "absent" /\ k \in torn
        BY <3>1, <3>2, <3>4
      <4> QED
        BY <1>9, <4>1 DEF Allowed
    <3> QED
      BY <3>3, <3>4
  <2> QED
    BY <2>1, <2>2
<1> HIDE DEF h, a, low, l, r, b, U, entries
<1>15. ASSUME k[2] \in b.todo
       PROVE  \A i \in 1 .. Len(b.replies) : ~Has(b.replies[i].entries, k)
  <2>1. /\ k[2] # low
        /\ \A i \in 1 .. Len(a.replies) : ~Has(a.replies[i].entries, k)
    BY <1>4, <1>7, <1>15 DEF Reading
  <2>2. ~Has(r.entries, k)
    BY <1>11, <1>13, <2>1
  <2>3. \A i \in 1 .. Len(b.replies) :
          \/ i \in 1 .. Len(a.replies) /\ b.replies[i] = a.replies[i]
          \/ b.replies[i] = r
    BY <1>5, <1>7, <1>11, AppendProperties
  <2> QED
    BY <2>1, <2>2, <2>3
<1>16. ASSUME k[2] \notin b.todo PROVE GoodReplies(b.replies, due, k, h, U)
  <2>1. CASE k[2] = low
    <3>1. \A i \in 1 .. Len(a.replies) : ~Has(a.replies[i].entries, k)
      BY <1>4, <1>5, <2>1 DEF Reading
    <3>2. /\ After(due, k, State(r.entries, k)) \in {"absent", h}
          /\ After(due, k, State(r.entries, k)) \in U
      BY <1>11, <1>14, <2>1
    <3>3. GoodReplies(a.replies \o <<r>>, due, k, h, U)
      BY <1>5, <1>9, <1>11, <3>1, <3>2, RepliesFirst
    <3> QED
      BY <1>12, <3>3
  <2>2. CASE k[2] # low
    <3>1. GoodReplies(a.replies, due, k, h, U)
      BY <1>4, <1>7, <1>16, <2>2 DEF Reading, U
    <3>2. ~Has(r.entries, k)
      BY <1>11, <1>13, <2>2
    <3>3. GoodReplies(a.replies \o <<r>>, due, k, h, U)
      BY <1>9, <1>11, <1>12, <3>1, <3>2, RepliesIdle
    <3> QED
      BY <1>12, <3>3
  <2> QED
    BY <2>1, <2>2
<1>17. Reading(b, due, k, h, torn)
  BY <1>7, <1>15, <1>16 DEF Reading, U
<1>18. ReadingOK(k)'
  BY <1>1, <1>7, <1>17 DEF ReadingOK, h
<1> QED
  BY <1>2, <1>3, <1>18

LEMMA InductiveStep == Structure /\ Inductive /\ [Next]_vars => Inductive'
<1> SUFFICES ASSUME Structure, Inductive, [Next]_vars PROVE Inductive'
  OBVIOUS
<1>1. ASSUME NEW k \in ProfileKeys,
             AddProfile(k) \/ RemoveProfile(k) \/ \E on \in BOOLEAN : SetEnabled(k, on)
      PROVE  Inductive'
  BY <1>1, AddIs, RemoveIs, SetIs, ChangeStep
<1>2. CASE UNCHANGED vars
  <2> SUFFICES ASSUME NEW k \in ProfileKeys PROVE (DueOK(k) /\ WireOK(k) /\ ReadingOK(k))'
    BY DEF Inductive
  <2>1. UNCHANGED <<host, due, torn, inquiries, answer, wire, conn, client>>
    BY <1>2 DEF vars, application, peer
  <2>2. DueOK(k) /\ WireOK(k) /\ ReadingOK(k)
    BY DEF Inductive
  <2>3. Allowed(State(host', k), Informed(k)') = Allowed(State(host, k), Informed(k))
    BY <2>1 DEF Allowed, Informed
  <2> QED
    BY <2>1, <2>2, <2>3 DEF DueOK, WireOK, ReadingOK
<1> QED
  BY <1>1, <1>2, SendReportStep, BeginAnswerStep, LookUpEnabledStep, LookUpDisabledStep,
     SendRepliesStep, ConnectStep, ReceiveStep DEF Next

-----------------------------------------------------------------------------
\* Two lists that say the same of every profile that is not torn.

LEMMA KnownHalf ==
    ASSUME NEW a \in Seq(Entries), NoneTwice(a), NEW b \in Seq(Entries), NoneTwice(b),
           \A k \in ProfileKeys : k \notin torn => State(a, k) = State(b, k)
    PROVE  Known(a) \subseteq Known(b)
<1> SUFFICES ASSUME NEW i \in 1 .. Len(a), Key(a[i]) \notin torn
             PROVE  \E j \in 1 .. Len(b) : Key(b[j]) \notin torn /\ b[j] = a[i]
  BY DEF Known
<1>1. a[i] \in Entries /\ Key(a[i]) \in ProfileKeys
  BY ElementOfSeq, Fields
<1>2. State(b, Key(a[i])) = OnOff(a[i]) /\ OnOff(a[i]) # "absent"
  BY <1>1, StateOf, Fields
<1>3. PICK j \in 1 .. Len(b) : Key(b[j]) = Key(a[i])
  BY <1>2, StateIs DEF Has
<1>4. b[j] \in Entries /\ OnOff(b[j]) = OnOff(a[i])
  BY <1>2, <1>3, StateOf, ElementOfSeq
<1>5. b[j].enabled = a[i].enabled
  BY <1>1, <1>4, Fields DEF OnOff
<1>6. b[j].id = a[i].id /\ b[j].address = a[i].address
  BY <1>3 DEF Key
<1>7. b[j] = a[i]
  BY <1>1, <1>4, <1>5, <1>6 DEF Entries
<1> QED
  BY <1>3, <1>7

LEMMA AgreementHolds == Structure /\ Inductive => Agreement
<1> SUFFICES ASSUME Structure, Inductive, Settled PROVE Known(client) = Known(host)
  BY DEF Agreement
<1>1. /\ wire = <<>> /\ due = Nothing
      /\ \A k : k \notin torn => Informed(k)
  BY DEF Settled, Informed
<1>2. ASSUME NEW k \in ProfileKeys, k \notin torn PROVE State(client, k) = State(host, k)
  <2> DEFINE none == <<>>
             c == State(client, k)
  <2>1. Allowed(State(host, k), Informed(k)) = {State(host, k)}
    BY <1>1, <1>2 DEF Allowed
  <2>2. Good(none, Nothing, k, State(host, k), c, {State(host, k)})
    BY <1>1, <2>1 DEF Inductive, WireOK
  <2>3. Len(none) + 1 = 1 /\ c \in States
    BY LinesAre
  <2> HIDE DEF none, c
  <2>4. PICK e : IsEffect(none, k, e) /\ After(Nothing, k, e[1][c]) = State(host, k)
    BY <2>2 DEF Good
  <2>5. e[1][c] = c
    BY <2>3, <2>4 DEF IsEffect
  <2> QED
    BY <2>4, <2>5, AfterIs DEF c
<1>3. Known(client) \subseteq Known(host) /\ Known(host) \subseteq Known(client)
  BY <1>2, KnownHalf, LinesAre
<1> QED
  BY <1>3

\* When every inquiry is answered and every change reported and received, the
\* client knows of each profile, whether it is there and whether it is enabled,
\* what the host knows; in whatever order replies and reports have come, and
\* except for profiles enabled between the two look-ups of the last answer.
THEOREM ClientAgrees == Spec => []Agreement
<1>1. Spec => [](Structure /\ Inductive)
  <2>1. Init => Structure /\ Inductive
    BY InitStructure, InitInductive
  <2>2. Structure /\ Inductive /\ [Next]_vars => (Structure /\ Inductive)'
    BY StructureStep, InductiveStep
  <2> QED
    BY <2>1, <2>2, PTL DEF Spec
<1> QED
  BY <1>1, AgreementHolds, PTL
=============================================================================
