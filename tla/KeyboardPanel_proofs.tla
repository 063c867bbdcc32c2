------------------------- MODULE KeyboardPanel_proofs -------------------------
(***************************************************************************)
(* Proofs about the controls of KeyboardPanel, for any devices and lists.  *)
(* A panel is good if each control of a list has a key that values are     *)
(* looked up by, and the value the panel remembers for it, unless the user *)
(* moved it.  Every function on panels leaves a good panel good.  What the *)
(* panel remembers or has still queued is what was told.                   *)
(***************************************************************************)
EXTENDS KeyboardPanel, SequenceTheorems, WellFoundedInduction, TLAPS

Fields == {"lists", "maps", "values", "heard", "targets", "own", "selected",
           "last", "popup", "context", "channel", "key"}

IsPanel(p) ==
    /\ DOMAIN p = Fields
    /\ DOMAIN p.lists = Devices /\ DOMAIN p.values = Keys /\ DOMAIN p.heard = Identities
    /\ \A d \in Devices : p.lists[d] = NoList \/ p.lists[d] \in ListsOf[d]

\* The value of a key is the one heard for its identity.
Kept(p, d, id) ==
    /\ <<d, id>> \in p.targets
    /\ p.heard[id] # NoValue /\ <<d, id>> \notin p.own
        => p.values[<<d, id>>] = p.heard[id]

Showing(p) ==
    \A d \in Devices : p.lists[d] # NoList =>
        \A i \in 1 .. Len(p.lists[d]) : Kept(p, d, Identity(p.lists[d][i]))

Good(p) == IsPanel(p) /\ Showing(p)

\* What the input thread may queue.
Told == {<<k, <<c.index[1]>>>> : k \in Kinds, c \in Controls}
        \cup {<<k, <<c.index[1], c.index[2]>>>> : k \in Kinds, c \in Controls}

Queued ==
    /\ updates \in Seq(Requests) /\ heard \in Seq(Told \X Values)
    /\ DOMAIN store = Devices
    /\ \A d \in Devices : DOMAIN store[d] = {"list", "map"}
    /\ \A d \in Devices : store[d].list = NoList \/ store[d].list \in ListsOf[d]

\* v is the last value of id among the first n that are queued, or, if there
\* is none, w.
LastIs(id, n, v, w) ==
    \/ v = w /\ \A i \in 1 .. n : heard[i][1] # id
    \/ \E i \in 1 .. n : /\ heard[i] = <<id, v>>
                        /\ \A j \in i + 1 .. n : heard[j][1] # id

\* What was told is what the panel will remember when the queue is empty.
Remembered ==
    /\ DOMAIN told = Identities
    /\ \A id \in Identities : LastIs(id, Len(heard), told[id], panel.heard[id])

Inductive == Good(panel) /\ Queued /\ Remembered

-----------------------------------------------------------------------------
\* Keys.

LEMMA ListIs ==
    ASSUME NEW d \in Devices, NEW l \in ListsOf[d]
    PROVE  Len(l) \in Nat /\ \A i \in 1 .. Len(l) : l[i] \in Controls
<1>1. l \in Seq(ToSet(l))
  BY PanelAssumption
<1>2. Len(l) \in Nat /\ DOMAIN l = 1 .. Len(l)
  BY <1>1, LenProperties
<1>3. \A i \in 1 .. Len(l) : l[i] \in ToSet(l)
  BY <1>2 DEF ToSet
<1> QED
  BY <1>2, <1>3 DEF Controls

LEMMA KeyIs ==
    ASSUME NEW d \in Devices, NEW l \in ListsOf[d], NEW i \in 1 .. Len(l)
    PROVE  /\ Identity(l[i]) \in Identities /\ <<d, Identity(l[i])>> \in Keys
           /\ Key(d, l[i]) = <<d, Identity(l[i])>>
<1>1. l[i] \in Controls
  BY ListIs
<1>2. Identity(l[i]) \in Identities
  BY <1>1 DEF Identities
<1> QED
  BY <1>2 DEF Keys, Key

-----------------------------------------------------------------------------
\* Functions on panels.

\* Lists may go, the user may move controls, and values may come where there
\* are none.
LEMMA StaysGood ==
    ASSUME NEW p, NEW q, Good(p), IsPanel(q),
           \A d \in Devices : q.lists[d] \in {p.lists[d], NoList},
           q.targets = p.targets, q.heard = p.heard, p.own \subseteq q.own,
           \A k \in Keys : q.values[k] = p.values[k] \/ p.values[k] = NoValue \/ k \in q.own
    PROVE  Good(q)
<1>1. ASSUME NEW d \in Devices, q.lists[d] # NoList, NEW i \in 1 .. Len(q.lists[d])
      PROVE  Kept(q, d, Identity(q.lists[d][i]))
  <2> DEFINE id == Identity(q.lists[d][i])
             k == <<d, id>>
  <2>1. q.lists[d] = p.lists[d] /\ p.lists[d] \in ListsOf[d]
    BY <1>1 DEF Good, IsPanel
  <2>2. Kept(p, d, id)
    BY <1>1, <2>1 DEF Good, Showing
  <2>3. k \in Keys
    BY <1>1, <2>1, KeyIs
  <2> HIDE DEF id
  <2>4. k \in p.targets /\ (p.heard[id] # NoValue /\ k \notin p.own => p.values[k] = p.heard[id])
    BY <2>2 DEF Kept
  <2>5. q.values[k] = p.values[k] \/ p.values[k] = NoValue \/ k \in q.own
    BY <2>3
  <2>6. k \in q.targets /\ (q.heard[id] # NoValue /\ k \notin q.own => q.values[k] = q.heard[id])
    BY <2>4, <2>5
  <2>7. Kept(q, d, id)
    BY <2>6 DEF Kept
  <2> QED
    BY <2>7 DEF id
<1> QED
  BY <1>1 DEF Good, Showing

LEMMA DirtiedGood ==
    ASSUME NEW p, IsPanel(p), NEW selected
    PROVE  Good(Dirtied(p, selected))
<1> DEFINE q == Dirtied(p, selected)
<1>1. /\ DOMAIN q = Fields /\ q.lists = [d \in Devices |-> NoList]
      /\ q.values = [k \in Keys |-> NoValue] /\ q.heard = [i \in Identities |-> NoValue]
  BY DEF IsPanel, Dirtied, Empty, Fields
<1> HIDE DEF q
<1>2. IsPanel(q) /\ Showing(q)
  BY <1>1 DEF IsPanel, Showing
<1> QED
  BY <1>2 DEF Good, q

\* The keys and values of d are made anew.
LEMMA RebuiltGood ==
    ASSUME NEW p, Good(p), NEW d \in Devices, NEW list \in ListsOf[d]
    PROVE  Good(Rebuilt([p EXCEPT !.lists[d] = list], d, list))
<1> DEFINE listed == [p EXCEPT !.lists[d] = list]
           q == Rebuilt(listed, d, list)
           new == {Key(d, list[i]) : i \in 1 .. Len(list)}
<1>1. IsPanel(p) /\ Showing(p)
  BY DEF Good
<1>2. /\ DOMAIN listed = Fields /\ listed.lists = [p.lists EXCEPT ![d] = list]
      /\ listed.targets = p.targets /\ listed.values = p.values
      /\ listed.heard = p.heard /\ listed.own = p.own
  BY <1>1 DEF IsPanel, Fields
<1> HIDE DEF listed
<1>3. /\ DOMAIN q = Fields /\ q.lists = listed.lists /\ q.heard = listed.heard
      /\ q.targets = {k \in listed.targets : k[1] # d} \cup new
      /\ q.values = [k \in Keys |->
            IF k \in new /\ listed.heard[k[2]] # NoValue THEN listed.heard[k[2]]
            ELSE listed.values[k]]
      /\ q.own = listed.own \ {k \in new : listed.heard[k[2]] # NoValue}
  BY <1>2 DEF Rebuilt, Fields
<1> HIDE DEF q
<1>4. /\ q.lists[d] = list /\ \A e \in Devices : e # d => q.lists[e] = p.lists[e]
      /\ DOMAIN q.lists = Devices /\ DOMAIN q.values = Keys /\ DOMAIN q.heard = Identities
  BY <1>1, <1>2, <1>3 DEF IsPanel
<1>5. IsPanel(q)
  BY <1>1, <1>3, <1>4 DEF IsPanel
<1>6. \A e \in Devices : \A id : <<e, id>> \in new => e = d
  BY DEF Key
<1>7. \A i \in 1 .. Len(list) : <<d, Identity(list[i])>> \in new
  BY DEF Key
<1> HIDE DEF new
<1>8. ASSUME NEW e \in Devices, q.lists[e] # NoList, NEW i \in 1 .. Len(q.lists[e])
      PROVE  Kept(q, e, Identity(q.lists[e][i]))
  <2> DEFINE id == Identity(q.lists[e][i])
             k == <<e, id>>
  <2>1. k \in Keys
    BY <1>5, <1>8, KeyIs DEF IsPanel
  <2>2. k[1] = e /\ k[2] = id
    OBVIOUS
  <2>3. e = d => k \in new
    BY <1>4, <1>7, <1>8
  <2>4. e # d => Kept(p, e, id)
    BY <1>1, <1>4, <1>8 DEF Showing
  <2>5. e # d => k \notin new
    BY <1>6
  <2> HIDE DEF id, k
  <2>6. /\ q.values[k] = IF k \in new /\ p.heard[id] # NoValue THEN p.heard[id] ELSE p.values[k]
        /\ q.heard[id] = p.heard[id]
        /\ k \in q.own <=> k \in p.own /\ ~(k \in new /\ p.heard[id] # NoValue)
        /\ k \in q.targets <=> (k \in p.targets /\ e # d) \/ k \in new
    BY <1>2, <1>3, <2>1, <2>2
  <2>7. CASE e = d
    <3>1. k \in q.targets /\ (q.heard[id] # NoValue => q.values[k] = q.heard[id])
      BY <2>3, <2>6, <2>7
    <3> QED
      BY <3>1 DEF Kept, k, id
  <2>8. CASE e # d
    <3>1. k \in p.targets /\ (p.heard[id] # NoValue /\ k \notin p.own => p.values[k] = p.heard[id])
      BY <2>4, <2>8 DEF Kept, k
    <3>2. k \in q.targets /\ (q.heard[id] # NoValue /\ k \notin q.own => q.values[k] = q.heard[id])
      BY <2>5, <2>6, <2>8, <3>1
    <3> QED
      BY <3>2 DEF Kept, k, id
  <2> QED
    BY <2>7, <2>8
<1> QED
  BY <1>5, <1>8 DEF Good, Showing, q, listed

LEMMA TakenGood ==
    ASSUME Queued, NEW p, Good(p), NEW u \in Requests
    PROVE  Good(Taken(p, u)) /\ Taken(p, u).heard = p.heard
<1> DEFINE d == u[1]
           m == u[2]
           new == [exists |-> TRUE, pending |-> FALSE, late |-> FALSE,
                   checked |-> TRUE, value |-> MapOf(d, m)]
           mapped == [p EXCEPT !.maps[d][m] = new]
<1>1. d \in Devices
  BY DEF Requests
<1>2. CASE m = NoMap /\ store[d].list # NoList
  <2>1. Taken(p, u) = Rebuilt([p EXCEPT !.lists[d] = store[d].list], d, store[d].list)
    BY <1>2 DEF Taken
  <2>2. store[d].list \in ListsOf[d]
    BY <1>1, <1>2 DEF Queued
  <2>3. Rebuilt([p EXCEPT !.lists[d] = store[d].list], d, store[d].list).heard = p.heard
    BY DEF Rebuilt, Good, IsPanel, Fields
  <2> QED
    BY <1>1, <2>1, <2>2, <2>3, RebuiltGood
<1>3. Taken(p, u) \in {p, mapped} \/ (m = NoMap /\ store[d].list # NoList)
  BY DEF Taken
<1>4. Good(mapped) /\ mapped.heard = p.heard
  <2> HIDE DEF new, d, m
  <2>1. /\ DOMAIN mapped = Fields /\ mapped.lists = p.lists /\ mapped.values = p.values
        /\ mapped.heard = p.heard /\ mapped.targets = p.targets /\ mapped.own = p.own
    BY DEF Good, IsPanel, Fields
  <2> HIDE DEF mapped
  <2>2. IsPanel(mapped)
    BY <2>1 DEF Good, IsPanel
  <2>3. Good(mapped)
    BY <2>1, <2>2, StaysGood
  <2> QED
    BY <2>1, <2>3
<1> QED
  BY <1>2, <1>3, <1>4

LEMMA ShownGood ==
    ASSUME NEW p, Good(p), NEW h
    PROVE  Good(Shown(p, h)) /\ Shown(p, h).heard = [p.heard EXCEPT ![h[1]] = h[2]]
<1> DEFINE q == Shown(p, h)
           g == h[1]
<1>1. IsPanel(p) /\ Showing(p)
  BY DEF Good
<1>2. /\ DOMAIN q = Fields /\ q.lists = p.lists /\ q.targets = p.targets
      /\ q.heard = [p.heard EXCEPT ![g] = h[2]]
      /\ q.values = [k \in Keys |-> IF k \in p.targets /\ k[2] = g THEN h[2] ELSE p.values[k]]
      /\ q.own = {k \in p.own : k[2] # g}
  BY <1>1 DEF Shown, IsPanel, Fields
<1> HIDE DEF q, g
<1>3. IsPanel(q)
  BY <1>1, <1>2 DEF IsPanel
<1>4. ASSUME NEW e \in Devices, q.lists[e] # NoList, NEW i \in 1 .. Len(q.lists[e])
      PROVE  Kept(q, e, Identity(q.lists[e][i]))
  <2> DEFINE id == Identity(q.lists[e][i])
             k == <<e, id>>
  <2>1. k \in Keys /\ id \in Identities
    BY <1>3, <1>4, KeyIs DEF IsPanel
  <2>2. k[2] = id
    OBVIOUS
  <2>3. Kept(p, e, id)
    BY <1>1, <1>2, <1>4 DEF Showing
  <2> HIDE DEF id, k
  <2>4. k \in p.targets /\ (p.heard[id] # NoValue /\ k \notin p.own => p.values[k] = p.heard[id])
    BY <2>3 DEF Kept, k
  <2>5. /\ q.values[k] = IF id = g THEN h[2] ELSE p.values[k]
        /\ q.heard[id] = IF id = g THEN h[2] ELSE p.heard[id]
        /\ k \in q.own <=> k \in p.own /\ id # g
    BY <1>1, <1>2, <2>1, <2>2, <2>4 DEF IsPanel
  <2>6. k \in q.targets /\ (q.heard[id] # NoValue /\ k \notin q.own => q.values[k] = q.heard[id])
    BY <1>2, <2>4, <2>5
  <2> QED
    BY <2>6 DEF Kept, k, id
<1>5. Good(q)
  BY <1>3, <1>4 DEF Good, Showing
<1> QED
  BY <1>2, <1>5 DEF q, g

-----------------------------------------------------------------------------
\* The queues.

\* The first n entries of the queues exist: the function of Caught, that far.
CaughtUpTo(f, p, top) ==
    f = [n \in 0 .. top |->
            IF n = 0 THEN p
            ELSE IF n <= Len(updates) THEN Taken(f[n - 1], updates[n])
            ELSE Shown(f[n - 1], heard[n - Len(updates)])]

LEMMA LeastOf ==
    ASSUME NEW S \in SUBSET Nat, S # {}
    PROVE  \E c \in S : \A d \in S : c <= d
<1>1. PICK c \in S : \A d \in S : <<d, c>> \notin OpToRel(<, Nat)
  BY NatLessThanWellFounded, WFMin
<1>2. ASSUME NEW d \in S PROVE c <= d
  <2>1. ~(d < c)
    BY <1>1 DEF OpToRel
  <2> QED
    BY <2>1
<1> QED
  BY <1>2

LEMMA CaughtOne ==
    ASSUME NEW p, NEW top \in Nat, NEW f, CaughtUpTo(f, p, top)
    PROVE  \E g : CaughtUpTo(g, p, top + 1)
<1> DEFINE step(h, n) == IF n <= Len(updates) THEN Taken(h, updates[n])
                         ELSE Shown(h, heard[n - Len(updates)])
           g == [n \in 0 .. top + 1 |-> IF n = top + 1 THEN step(f[top], top + 1) ELSE f[n]]
<1>1. f = [n \in 0 .. top |-> IF n = 0 THEN p ELSE step(f[n - 1], n)]
  BY DEF CaughtUpTo
<1> HIDE DEF step
<1>2. \A n \in 0 .. top : g[n] = f[n]
  OBVIOUS
<1>3. g[top + 1] = step(f[top], top + 1) /\ f[0] = p
  BY <1>1
<1>4. ASSUME NEW n \in 0 .. top + 1
      PROVE  g[n] = IF n = 0 THEN p ELSE step(g[n - 1], n)
  <2>1. CASE n = top + 1
    <3>1. n # 0 /\ n - 1 = top /\ top \in 0 .. top
      BY <2>1
    <3> QED
      BY <1>2, <1>3, <2>1, <3>1
  <2>2. CASE n # top + 1 /\ n # 0
    <3>1. n \in 0 .. top /\ n - 1 \in 0 .. top
      BY <2>2
    <3>2. g[n] = f[n] /\ g[n - 1] = f[n - 1]
      BY <1>2, <3>1
    <3>3. f[n] = step(f[n - 1], n)
      BY <1>1, <2>2, <3>1
    <3> QED
      BY <2>2, <3>2, <3>3
  <2>3. CASE n = 0
    BY <1>2, <1>3, <2>3
  <2> QED
    BY <2>1, <2>2, <2>3
<1>5. g = [n \in 0 .. top + 1 |-> IF n = 0 THEN p ELSE step(g[n - 1], n)]
  <2>1. g = [n \in 0 .. top + 1 |-> g[n]]
    OBVIOUS
  <2> HIDE DEF g
  <2>2. [n \in 0 .. top + 1 |-> g[n]]
            = [n \in 0 .. top + 1 |-> IF n = 0 THEN p ELSE step(g[n - 1], n)]
    BY <1>4
  <2> QED
    BY <2>1, <2>2
<1> HIDE DEF g
<1>6. CaughtUpTo(g, p, top + 1)
  BY <1>5 DEF CaughtUpTo, step
<1> QED
  BY <1>6

LEMMA CaughtExists ==
    ASSUME NEW p, NEW top \in Nat
    PROVE  \E f : CaughtUpTo(f, p, top)
<1> DEFINE Fails == {n \in Nat : ~\E f : CaughtUpTo(f, p, n)}
<1>1. SUFFICES ASSUME Fails # {} PROVE FALSE
  OBVIOUS
<1>2. PICK c \in Fails : \A d \in Fails : c <= d
  BY <1>1, LeastOf
<1>3. c # 0
  <2> DEFINE f == [n \in 0 .. 0 |-> p]
  <2>1. CaughtUpTo(f, p, 0)
    <3>1. \A n \in 0 .. 0 : n = 0
      OBVIOUS
    <3> QED
      BY <3>1 DEF CaughtUpTo
  <2> QED
    BY <2>1
<1>4. c - 1 \in Nat /\ c - 1 \notin Fails
  BY <1>2, <1>3
<1>5. PICK f : CaughtUpTo(f, p, c - 1)
  BY <1>4
<1>6. c - 1 + 1 = c
  BY <1>2
<1>7. \E g : CaughtUpTo(g, p, c - 1 + 1)
  BY <1>4, <1>5, CaughtOne
<1> QED
  BY <1>2, <1>6, <1>7

\* One value more, for g.
LEMMA LastIsNext ==
    ASSUME heard \in Seq(Told \X Values), NEW n \in Nat, n + 1 <= Len(heard),
           NEW id, NEW v, NEW w, NEW x, LastIs(id, n, v, w),
           x = IF id = heard[n + 1][1] THEN heard[n + 1][2] ELSE v
    PROVE  LastIs(id, n + 1, x, w)
<1>1. Len(heard) \in Nat /\ n + 1 \in 1 .. Len(heard)
  BY LenProperties
<1>2. heard[n + 1] = <<heard[n + 1][1], heard[n + 1][2]>>
  BY <1>1, ElementOfSeq
<1>3. CASE id = heard[n + 1][1]
  <2>1. n + 1 \in 1 .. n + 1 /\ heard[n + 1] = <<id, x>>
    BY <1>2, <1>3
  <2>2. \A j \in n + 1 + 1 .. n + 1 : heard[j][1] # id
    OBVIOUS
  <2> QED
    BY <2>1, <2>2 DEF LastIs
<1>4. CASE id # heard[n + 1][1]
  <2>1. \A i \in 1 .. n + 1 : i \in 1 .. n \/ i = n + 1
    OBVIOUS
  <2>2. CASE v = w /\ \A i \in 1 .. n : heard[i][1] # id
    BY <1>4, <2>1, <2>2 DEF LastIs
  <2>3. ASSUME NEW i \in 1 .. n, heard[i] = <<id, v>>, \A j \in i + 1 .. n : heard[j][1] # id
        PROVE  LastIs(id, n + 1, x, w)
    <3>1. \A j \in i + 1 .. n + 1 : heard[j][1] # id
      <4>1. \A j \in i + 1 .. n + 1 : j \in i + 1 .. n \/ j = n + 1
        OBVIOUS
      <4> QED
        BY <1>4, <2>3, <4>1
    <3>2. i \in 1 .. n + 1 /\ heard[i] = <<id, x>>
      BY <1>4, <2>3
    <3> QED
      BY <3>1, <3>2 DEF LastIs
  <2> QED
    BY <2>2, <2>3 DEF LastIs
<1> QED
  BY <1>3, <1>4

\* The last value is one.
LEMMA LastIsOne ==
    ASSUME NEW n \in Nat, NEW id, NEW v, NEW w, NEW x, NEW y,
           LastIs(id, n, v, w), LastIs(id, n, x, y)
    PROVE  \/ v = x
           \/ v = w /\ x = y /\ \A i \in 1 .. n : heard[i][1] # id
<1>1. ASSUME NEW i \in 1 .. n, heard[i] = <<id, v>>, \A j \in i + 1 .. n : heard[j][1] # id,
             NEW k \in 1 .. n, heard[k] = <<id, x>>, \A j \in k + 1 .. n : heard[j][1] # id
      PROVE  v = x
  <2>1. heard[i][1] = id /\ heard[k][1] = id
    BY <1>1
  <2>2. ~(i < k) /\ ~(k < i)
    BY <1>1, <2>1
  <2>3. i = k
    BY <2>2
  <2> QED
    BY <1>1, <2>3
<1>2. ASSUME NEW i \in 1 .. n, heard[i] = <<id, v>> \/ heard[i] = <<id, x>>
      PROVE  heard[i][1] = id
  BY <1>2
<1> QED
  BY <1>1, <1>2 DEF LastIs

LEMMA CaughtGood ==
    ASSUME Queued, NEW p, Good(p)
    PROVE  /\ Good(Caught(p))
           /\ \A id \in Identities : LastIs(id, Len(heard), Caught(p).heard[id], p.heard[id])
<1> DEFINE top == Len(updates) + Len(heard)
           after == CHOOSE f : CaughtUpTo(f, p, top)
<1>1. Len(updates) \in Nat /\ Len(heard) \in Nat /\ top \in Nat
  BY LenProperties DEF Queued
<1>2. Caught(p) = after[top]
  BY DEF Caught, CaughtUpTo
<1> HIDE DEF top
<1>3. CaughtUpTo(after, p, top)
  BY <1>1, CaughtExists
<1> HIDE DEF after
<1>4. /\ after[0] = p
      /\ \A n \in 1 .. top : after[n] = IF n <= Len(updates) THEN Taken(after[n - 1], updates[n])
                                        ELSE Shown(after[n - 1], heard[n - Len(updates)])
  BY <1>1, <1>3 DEF CaughtUpTo
<1> DEFINE Holds(n) ==
        /\ Good(after[n])
        /\ n <= Len(updates) => after[n].heard = p.heard
        /\ n >= Len(updates) => \A id \in Identities :
                LastIs(id, n - Len(updates), after[n].heard[id], p.heard[id])
<1>5. \A n \in 0 .. top : n = Len(updates) /\ after[n].heard = p.heard
            => \A id \in Identities :
                LastIs(id, n - Len(updates), after[n].heard[id], p.heard[id])
  <2>1. \A i \in 1 .. Len(updates) - Len(updates) : FALSE
    BY <1>1
  <2> QED
    BY <2>1 DEF LastIs
<1> DEFINE Fails == {n \in 0 .. top : ~Holds(n)}
<1>6. ASSUME Fails # {} PROVE FALSE
  <2>1. Fails \in SUBSET Nat
    BY <1>1
  <2> HIDE DEF Holds
  <2>2. PICK c \in Fails : \A d \in Fails : c <= d
    BY <1>6, <2>1, LeastOf
  <2>3. c \in 0 .. top /\ ~Holds(c)
    BY <2>2
  <2>4. c # 0
    <3>1. 0 \in 0 .. top /\ 0 <= Len(updates) /\ (0 >= Len(updates) => 0 = Len(updates))
      BY <1>1
    <3>2. Holds(0)
      BY <1>4, <1>5, <3>1 DEF Holds
    <3> QED
      BY <2>3, <3>2
  <2>5. c \in 1 .. top /\ c - 1 \in 0 .. top
    BY <1>1, <2>3, <2>4
  <2>6. Holds(c - 1)
    BY <1>1, <2>2, <2>5
  <2>7. CASE c <= Len(updates)
    <3>1. updates[c] \in Requests
      BY <2>5, <2>7, ElementOfSeq DEF Queued
    <3>2. after[c] = Taken(after[c - 1], updates[c])
      BY <1>4, <2>5, <2>7
    <3>3. Good(after[c - 1]) /\ after[c - 1].heard = p.heard
      BY <1>1, <2>5, <2>6, <2>7 DEF Holds
    <3>4. Good(after[c]) /\ after[c].heard = p.heard
      BY <3>1, <3>2, <3>3, TakenGood
    <3>5. c >= Len(updates) => c = Len(updates)
      BY <1>1, <2>5, <2>7
    <3> QED
      BY <1>5, <2>3, <3>4, <3>5 DEF Holds
  <2>8. CASE ~(c <= Len(updates))
    <3> DEFINE n == (c - 1) - Len(updates)
    <3>1. /\ n \in Nat /\ n + 1 <= Len(heard) /\ c - Len(updates) = n + 1
          /\ c - 1 >= Len(updates)
      BY <1>1, <2>5, <2>8 DEF top
    <3>2. after[c] = Shown(after[c - 1], heard[n + 1])
      BY <1>4, <2>5, <2>8, <3>1
    <3>3. /\ Good(after[c - 1])
          /\ \A id \in Identities : LastIs(id, n, after[c - 1].heard[id], p.heard[id])
      BY <2>6, <3>1 DEF Holds
    <3> HIDE DEF n
    <3>4. /\ Good(after[c])
          /\ after[c].heard = [after[c - 1].heard EXCEPT ![heard[n + 1][1]] = heard[n + 1][2]]
      BY <3>2, <3>3, ShownGood
    <3>5. ASSUME NEW id \in Identities
          PROVE  LastIs(id, n + 1, after[c].heard[id], p.heard[id])
      <4>1. DOMAIN after[c - 1].heard = Identities
        BY <3>3 DEF Good, IsPanel
      <4>2. after[c].heard[id] = IF id = heard[n + 1][1] THEN heard[n + 1][2]
                                 ELSE after[c - 1].heard[id]
        BY <3>4, <4>1
      <4>3. LastIs(id, n, after[c - 1].heard[id], p.heard[id])
        BY <3>3
      <4> QED
        BY <3>1, <4>2, <4>3, LastIsNext DEF Queued
    <3> QED
      BY <2>3, <2>8, <3>1, <3>4, <3>5 DEF Holds
  <2> QED
    BY <2>7, <2>8
<1>7. top \in 0 .. top /\ top >= Len(updates) /\ top - Len(updates) = Len(heard)
  BY <1>1 DEF top
<1>8. Holds(top)
  BY <1>6, <1>7
<1> QED
  BY <1>2, <1>7, <1>8

-----------------------------------------------------------------------------
\* Drawing.

\* q differs from p only in what no value depends on.
Alike(p, q) ==
    /\ DOMAIN q = Fields /\ q.lists = p.lists /\ q.values = p.values
    /\ q.heard = p.heard /\ q.targets = p.targets /\ q.own = p.own

LEMMA AlikeGood ==
    ASSUME NEW p, NEW q, Good(p), Alike(p, q)
    PROVE  Good(q)
<1>1. IsPanel(q)
  BY DEF Good, IsPanel, Alike
<1> QED
  BY <1>1, StaysGood DEF Alike

LEMMA ReselectedGood ==
    ASSUME NEW p, Good(p)
    PROVE  Good(Reselected(p)) /\ Reselected(p).heard = p.heard
<1>1. IsPanel(p)
  BY DEF Good
<1>2. CASE p.selected \in {p.last, NoDevice}
  BY <1>2 DEF Reselected
<1>3. CASE p.selected \notin {p.last, NoDevice} /\ p.last = NoDevice
  <2>1. Reselected(p) = [p EXCEPT !.last = p.selected]
    BY <1>3 DEF Reselected
  <2>2. Alike(p, [p EXCEPT !.last = p.selected])
    BY <1>1 DEF IsPanel, Alike, Fields
  <2> QED
    BY <2>1, <2>2, AlikeGood DEF Alike
<1>4. CASE p.selected \notin {p.last, NoDevice} /\ p.last # NoDevice
  <2> DEFINE q == Reselected(p)
  <2>1. /\ DOMAIN q = Fields /\ q.lists = [p.lists EXCEPT ![p.last] = NoList]
        /\ q.values = p.values /\ q.heard = p.heard /\ q.targets = p.targets /\ q.own = p.own
    BY <1>1, <1>4 DEF IsPanel, Reselected, Fields
  <2> HIDE DEF q
  <2>2. \A d \in Devices : q.lists[d] \in {p.lists[d], NoList}
    BY <1>1, <2>1 DEF IsPanel
  <2>3. IsPanel(q)
    BY <1>1, <2>1, <2>2 DEF IsPanel
  <2>4. Good(q)
    BY <2>1, <2>2, <2>3, StaysGood
  <2> QED
    BY <2>1, <2>4 DEF q
<1> QED
  BY <1>2, <1>3, <1>4

LEMMA DefaultedGood ==
    ASSUME NEW p, Good(p)
    PROVE  Good(Defaulted(p)) /\ Defaulted(p).heard = p.heard
<1> DEFINE q == Defaulted(p)
           rows == Rows(p)
           of == [i \in 1 .. Len(rows) |-> Key(p.selected, rows[i])]
<1> HIDE DEF rows
<1>1. IsPanel(p)
  BY DEF Good
<1>2. /\ DOMAIN q = Fields /\ q.lists = p.lists
      /\ q.heard = p.heard /\ q.targets = p.targets /\ q.own = p.own
      /\ q.values = [k \in Keys |->
            IF p.values[k] = NoValue /\ \E i \in 1 .. Len(of) : of[i] = k
            THEN rows[CHOOSE i \in 1 .. Len(of) : of[i] = k].default
            ELSE p.values[k]]
  BY <1>1 DEF IsPanel, Defaulted, Fields, rows
<1> HIDE DEF q, of
<1>3. IsPanel(q)
  BY <1>1, <1>2 DEF IsPanel
<1>4. \A k \in Keys : q.values[k] = p.values[k] \/ p.values[k] = NoValue
  BY <1>2
<1>5. Good(q)
  BY <1>2, <1>3, <1>4, StaysGood
<1> QED
  BY <1>2, <1>5 DEF q

LEMMA PrunedGood ==
    ASSUME NEW p, Good(p)
    PROVE  Good(Pruned(p)) /\ Pruned(p).heard = p.heard
<1>1. CASE p.selected = NoDevice
  BY <1>1 DEF Pruned
<1>2. CASE p.selected # NoDevice
  <2> DEFINE maps == [m \in Maps |->
                IF \E i \in 1 .. Len(Rows(p)) : Rows(p)[i].map = m
                THEN [p.maps[p.selected][m] EXCEPT !.exists = TRUE]
                ELSE [p.maps[p.selected][m] EXCEPT !.checked = FALSE, !.value = NoMap]]
  <2>1. Pruned(p) = [p EXCEPT !.maps[p.selected] = maps]
    BY <1>2 DEF Pruned
  <2> HIDE DEF maps
  <2>2. Alike(p, [p EXCEPT !.maps[p.selected] = maps])
    BY DEF Good, IsPanel, Alike, Fields
  <2> QED
    BY <2>1, <2>2, AlikeGood DEF Alike
<1> QED
  BY <1>1, <1>2

LEMMA DrawGood ==
    ASSUME Good(panel), Draw
    PROVE  Good(panel') /\ panel'.heard = panel.heard
<1> DEFINE p == Pruned(Defaulted(Reselected(panel)))
           d == p.selected
           m == PopupMap(p)
           looked == Looked(d, m, p.maps[d][m])
<1>1. Good(p) /\ p.heard = panel.heard
  BY ReselectedGood, DefaultedGood, PrunedGood
<1>2. \/ panel' = [p EXCEPT !.popup = 0]
      \/ panel' = [p EXCEPT !.maps[d][m] = [looked EXCEPT !.pending = TRUE, !.late = FALSE]]
      \/ panel' = [p EXCEPT !.maps[d][m] = looked]
  BY DEF Draw
<1> HIDE DEF p, d, m, looked
<1>3. Alike(p, panel')
  BY <1>1, <1>2 DEF Good, IsPanel, Alike, Fields
<1> QED
  BY <1>1, <1>3, AlikeGood DEF Alike

-----------------------------------------------------------------------------
\* The steps.

LEMMA InitGood == Init => Inductive
<1> SUFFICES ASSUME Init PROVE Inductive
  OBVIOUS
<1>1. /\ DOMAIN panel = Fields /\ panel.lists = [d \in Devices |-> NoList]
      /\ panel.values = [k \in Keys |-> NoValue] /\ panel.heard = [i \in Identities |-> NoValue]
  BY DEF Init, Fields
<1>2. Good(panel)
  BY <1>1 DEF Good, IsPanel, Showing
<1>3. Queued
  <2>1. /\ store = [d \in Devices |-> [list |-> NoList, map |-> NoMap]]
        /\ updates = <<>> /\ heard = <<>>
    BY DEF Init
  <2>2. updates \in Seq(Requests) /\ heard \in Seq(Told \X Values)
    BY <2>1
  <2> QED
    BY <2>1, <2>2 DEF Queued
<1>4. Remembered
  <2>1. told = [id \in Identities |-> NoValue] /\ Len(heard) = 0
    BY DEF Init
  <2>2. \A i \in 1 .. Len(heard) : FALSE
    BY <2>1
  <2> QED
    BY <1>1, <2>1, <2>2 DEF Remembered, LastIs
<1> QED
  BY <1>2, <1>3, <1>4 DEF Inductive

LEMMA ApplyGood ==
    ASSUME Inductive, Apply
    PROVE  Inductive'
<1>1. PICK selected : panel' = Caught(IF ciDirty THEN Dirtied(panel, selected) ELSE panel)
  BY DEF Apply
<1> DEFINE p == IF ciDirty THEN Dirtied(panel, selected) ELSE panel
<1>2. Good(p)
  BY DirtiedGood DEF Inductive, Good
<1>3. /\ DOMAIN p.heard = Identities
      /\ p.heard = IF ciDirty THEN [i \in Identities |-> NoValue] ELSE panel.heard
  BY <1>2 DEF Inductive, Good, IsPanel, Dirtied, Empty, Fields
<1>4. panel' = Caught(p)
  BY <1>1
<1> HIDE DEF p
<1>5. /\ Good(panel')
      /\ \A id \in Identities : LastIs(id, Len(heard), panel'.heard[id], p.heard[id])
  BY <1>2, <1>4, CaughtGood DEF Inductive
<1>6. updates' = <<>> /\ heard' = <<>> /\ store' = store
  BY DEF Apply
<1>7. Queued'
  <2>1. updates' \in Seq(Requests) /\ heard' \in Seq(Told \X Values)
    BY <1>6
  <2> QED
    BY <1>6, <2>1 DEF Inductive, Queued
<1>8. /\ DOMAIN told' = Identities
      /\ \A id \in Identities :
            told'[id] = IF ciDirty /\ ~IsQueued(id) THEN NoValue ELSE told[id]
  BY DEF Apply
<1>9. ASSUME NEW id \in Identities PROVE told'[id] = panel'.heard[id]
  <2>1. LastIs(id, Len(heard), told[id], panel.heard[id]) /\ Len(heard) \in Nat
    BY LenProperties DEF Inductive, Remembered, Queued
  <2>2. LastIs(id, Len(heard), panel'.heard[id], p.heard[id])
    BY <1>5
  <2>3. CASE IsQueued(id)
    <3>1. told[id] = panel'.heard[id]
      BY <2>1, <2>2, <2>3, LastIsOne DEF IsQueued
    <3> QED
      BY <1>8, <2>3, <3>1
  <2>4. CASE ~IsQueued(id)
    <3>1. \A i \in 1 .. Len(heard) : heard[i] # <<id, told[id]>> /\ heard[i] # <<id, panel'.heard[id]>>
      BY <2>4 DEF IsQueued
    <3>2. told[id] = panel.heard[id] /\ panel'.heard[id] = p.heard[id]
      BY <2>1, <2>2, <3>1 DEF LastIs
    <3> QED
      BY <1>3, <1>8, <2>4, <3>2
  <2> QED
    BY <2>3, <2>4
<1>10. Remembered'
  <2>1. \A i \in 1 .. Len(heard') : FALSE
    BY <1>6
  <2>2. ASSUME NEW id \in Identities
        PROVE  LastIs(id, Len(heard), told[id], panel.heard[id])'
    BY <1>9, <2>1, <2>2 DEF LastIs
  <2> QED
    BY <1>8, <2>2 DEF Remembered
<1> QED
  BY <1>5, <1>7, <1>10 DEF Inductive

LEMMA ClickGood ==
    ASSUME Good(panel), Click,
           \/ UNCHANGED panel
           \/ \E d : panel' = [panel EXCEPT !.selected = d, !.popup = 0]
           \/ \E c : panel' = [panel EXCEPT !.context = c, !.popup = 0]
           \/ \E i : panel' = [panel EXCEPT !.popup = i]
    PROVE  Good(panel') /\ panel'.heard = panel.heard
<1>1. Alike(panel, panel')
  BY DEF Good, IsPanel, Alike, Fields
<1> QED
  BY <1>1, AlikeGood DEF Alike

LEMMA SlideGood ==
    ASSUME Good(panel), NEW i, NEW v, Slide(i, v)
    PROVE  Good(panel') /\ panel'.heard = panel.heard
<1> DEFINE k == Key(panel.selected, Rows(panel)[i])
<1>1. panel' = [panel EXCEPT !.values[k] = v, !.own = @ \cup {k}, !.popup = 0]
  BY DEF Slide
<1> HIDE DEF k
<1>2. /\ DOMAIN panel' = Fields /\ panel'.lists = panel.lists
      /\ panel'.values = [panel.values EXCEPT ![k] = v] /\ panel'.own = panel.own \cup {k}
      /\ panel'.heard = panel.heard /\ panel'.targets = panel.targets
  BY <1>1 DEF Good, IsPanel, Fields
<1>3. IsPanel(panel')
  BY <1>2 DEF Good, IsPanel
<1>4. \A l \in Keys : panel'.values[l] = panel.values[l] \/ l \in panel'.own
  BY <1>2 DEF Good, IsPanel
<1> QED
  BY <1>2, <1>3, <1>4, StaysGood

\* The identity of a message that a control sends.
LEMMA ToldIs ==
    ASSUME NEW c \in Controls, NEW v \in Values, MessageOf(panel, c, v) # NoMessage
    PROVE  LET m == MessageOf(panel, c, v) IN <<IdentityOf(m), m.value>> \in Told \X Values
<1> DEFINE m == MessageOf(panel, c, v)
           one == <<c.index[1]>>
           two == <<c.index[1], c.index[2]>>
<1>1. c.kind \in Kinds
  BY PanelAssumption
<1>2. /\ c.kind \in {"rpn", "nrpn"} => m.status = c.kind /\ m.byte3 = c.index[1] /\ m.byte4 = c.index[2]
      /\ c.kind = "pnac" => m.status = "pnac" /\ m.byte4 = c.index[1]
      /\ c.kind \notin {"rpn", "nrpn", "pnac"} => m.status = "cc" /\ m.byte3 = c.index[1]
      /\ m.value = v
  BY DEF MessageOf
<1> HIDE DEF m
<1>3. IdentityOf(m) \in {<<m.status, one>>, <<m.status, two>>} /\ m.status \in Kinds
  BY <1>1, <1>2 DEF IdentityOf, Kinds
<1>4. IdentityOf(m) \in Told
  BY <1>3 DEF Told
<1> QED
  BY <1>2, <1>4 DEF m

LEMMA QueuedIs ==
    ASSUME Queued, UNCHANGED <<updates, heard, store>>
    PROVE  Queued'
  BY DEF Queued

LEMMA RememberedIs ==
    ASSUME Remembered, UNCHANGED hearing, panel'.heard = panel.heard
    PROVE  Remembered'
<1>1. heard' = heard /\ told' = told
  BY DEF hearing
<1>2. ASSUME NEW id \in Identities
      PROVE  LastIs(id, Len(heard), told[id], panel.heard[id])'
  <2>1. LastIs(id, Len(heard), told[id], panel.heard[id])
    BY DEF Remembered
  <2> QED
    BY <1>1, <2>1 DEF LastIs
<1> QED
  BY <1>1, <1>2 DEF Remembered

\* The queue holds one value more.
LEMMA RememberedNext ==
    ASSUME Queued, Remembered, NEW g, NEW v, heard' = Append(heard, <<g, v>>),
           heard' \in Seq(Told \X Values), told' = [told EXCEPT ![g] = v],
           panel' = panel
    PROVE  Remembered'
<1>1. /\ Len(heard) \in Nat /\ Len(heard') = Len(heard) + 1
      /\ \A i \in 1 .. Len(heard) : heard'[i] = heard[i]
      /\ heard'[Len(heard) + 1] = <<g, v>>
  BY AppendProperties, LenProperties DEF Queued
<1>2. \A i \in 1 .. Len(heard') : i \in 1 .. Len(heard) \/ i = Len(heard) + 1
  BY <1>1
<1>3. ASSUME NEW id \in Identities
      PROVE  LastIs(id, Len(heard), told[id], panel.heard[id])'
  <2>1. LastIs(id, Len(heard), told[id], panel.heard[id])
    BY DEF Remembered
  <2>2. CASE id = g
    <3>1. heard'[Len(heard')] = <<id, told'[id]>> /\ Len(heard') \in 1 .. Len(heard')
      BY <1>1, <2>2 DEF Remembered
    <3>2. \A j \in Len(heard') + 1 .. Len(heard') : heard'[j][1] # id
      BY <1>1
    <3> QED
      BY <3>1, <3>2 DEF LastIs
  <2>3. CASE id # g
    <3>1. told'[id] = told[id] /\ heard'[Len(heard) + 1][1] # id
      BY <1>1, <2>3 DEF Remembered
    <3>2. CASE told[id] = panel.heard[id] /\ \A i \in 1 .. Len(heard) : heard[i][1] # id
      <4>1. \A i \in 1 .. Len(heard') : heard'[i][1] # id
        BY <1>1, <1>2, <3>1, <3>2
      <4> QED
        BY <3>1, <3>2, <4>1 DEF LastIs
    <3>3. ASSUME NEW i \in 1 .. Len(heard), heard[i] = <<id, told[id]>>,
                 \A j \in i + 1 .. Len(heard) : heard[j][1] # id
          PROVE  LastIs(id, Len(heard), told[id], panel.heard[id])'
      <4>1. i \in 1 .. Len(heard') /\ heard'[i] = <<id, told'[id]>>
        BY <1>1, <3>1, <3>3
      <4>2. \A j \in i + 1 .. Len(heard') : heard'[j][1] # id
        <5>1. \A j \in i + 1 .. Len(heard') :
                j = Len(heard) + 1 \/ (j \in i + 1 .. Len(heard) /\ j \in 1 .. Len(heard))
          <6>1. SUFFICES ASSUME NEW j \in i + 1 .. Len(heard')
                         PROVE  j = Len(heard) + 1 \/ (j \in i + 1 .. Len(heard) /\ j \in 1 .. Len(heard))
            OBVIOUS
          <6>2. i \in Nat \ {0} /\ Len(heard) \in Nat /\ Len(heard') = Len(heard) + 1
            BY <1>1
          <6> QED
            BY <6>2
        <5> QED
          BY <1>1, <3>1, <3>3, <5>1
      <4> QED
        BY <4>1, <4>2 DEF LastIs
    <3> QED
      BY <2>1, <3>2, <3>3 DEF LastIs
  <2> QED
    BY <2>2, <2>3
<1>4. DOMAIN told' = Identities
  BY DEF Remembered
<1> QED
  BY <1>3, <1>4 DEF Remembered

LEMMA AnswerQueues ==
    ASSUME Queued, NEW d \in Devices, NEW m \in Maps \cup {NoMap}, Answer(d, m)
    PROVE  Queued'
<1>1. updates' = Append(updates, <<d, m>>) /\ heard' = heard
  BY DEF Answer, Answered, hearing
<1>2. <<d, m>> \in Requests
  BY DEF Requests
<1>3. updates' \in Seq(Requests)
  BY <1>1, <1>2, AppendProperties DEF Queued
<1>4. /\ DOMAIN store' = Devices
      /\ \A e \in Devices : DOMAIN store'[e] = {"list", "map"}
      /\ \A e \in Devices : store'[e].list = NoList \/ store'[e].list \in ListsOf[e]
  <2>1. CASE m = NoMap
    <3>1. PICK l \in ListsOf[d] : store' = [store EXCEPT ![d].list = l]
      BY <2>1 DEF Answer
    <3> QED
      BY <3>1 DEF Queued
  <2>2. CASE m # NoMap
    <3>1. store' = [store EXCEPT ![d].map = m]
      BY <2>2 DEF Answer
    <3> QED
      BY <3>1 DEF Queued
  <2> QED
    BY <2>1, <2>2
<1> QED
  BY <1>1, <1>3, <1>4 DEF Queued

LEMMA StepGood ==
    ASSUME Inductive, [Next]_vars
    PROVE  Inductive'
<1>0. Good(panel) /\ Queued /\ Remembered
  BY DEF Inductive
<1> DEFINE Idle == UNCHANGED <<updates, heard, store, hearing>>
<1>1. CASE UNCHANGED vars
  <2>1. panel' = panel /\ Idle
    BY <1>1 DEF vars, hearing
  <2> QED
    BY <1>0, <2>1, QueuedIs, RememberedIs DEF Inductive
<1>2. CASE Apply
  BY <1>2, ApplyGood
<1>3. CASE Draw
  <2>1. Idle
    BY <1>3 DEF Draw, hearing
  <2> QED
    BY <1>0, <1>3, <2>1, DrawGood, QueuedIs, RememberedIs DEF Inductive
<1>4. CASE \/ Pass \/ RequestList
           \/ \E d \in Devices : Select(d)
           \/ \E context \in {"group", "channel", "key", "global"} : SelectContext(context)
           \/ \E i \in 1 .. Len(Rows(panel)) : Arrow(i)
  <2>1. Idle /\ Click
    BY <1>4 DEF Pass, RequestList, Select, SelectContext, Arrow, Click, hearing
  <2>2. \/ UNCHANGED panel
        \/ \E d : panel' = [panel EXCEPT !.selected = d, !.popup = 0]
        \/ \E c : panel' = [panel EXCEPT !.context = c, !.popup = 0]
        \/ \E i : panel' = [panel EXCEPT !.popup = i]
    <3>1. CASE Pass
      BY <3>1 DEF Pass
    <3>2. CASE RequestList
      BY <3>2 DEF RequestList
    <3>3. ASSUME NEW d \in Devices, Select(d)
          PROVE  panel' = [panel EXCEPT !.selected = d, !.popup = 0]
      BY <3>3 DEF Select
    <3>4. ASSUME NEW c, SelectContext(c)
          PROVE  panel' = [panel EXCEPT !.context = c, !.popup = 0]
      BY <3>4 DEF SelectContext
    <3>5. ASSUME NEW i, Arrow(i) PROVE \E j : panel' = [panel EXCEPT !.popup = j]
      BY <3>5 DEF Arrow
    <3> QED
      BY <1>4, <3>1, <3>2, <3>3, <3>4, <3>5
  <2> QED
    BY <1>0, <2>1, <2>2, ClickGood, QueuedIs, RememberedIs DEF Inductive
<1>5. ASSUME NEW i \in 1 .. Len(Rows(panel)), NEW v \in Values, Slide(i, v)
      PROVE  Inductive'
  <2>1. Idle
    BY <1>5 DEF Slide, Click, hearing
  <2> QED
    BY <1>0, <1>5, <2>1, SlideGood, QueuedIs, RememberedIs DEF Inductive
<1>6. ASSUME NEW d \in Devices, NEW m \in Maps \cup {NoMap}, Answer(d, m)
      PROVE  Inductive'
  <2>1. panel' = panel /\ UNCHANGED hearing
    BY <1>6 DEF Answer, inputIdle
  <2> QED
    BY <1>0, <1>6, <2>1, AnswerQueues, RememberedIs DEF Inductive
<1>7. ASSUME NEW d \in Devices, NEW m \in Maps, CacheAges(d, m)
      PROVE  Inductive'
  <2>1. Alike(panel, panel') /\ Idle
    BY <1>0, <1>7 DEF CacheAges, CacheTime, Good, IsPanel, Alike, Fields, hearing
  <2> QED
    BY <1>0, <2>1, AlikeGood, QueuedIs, RememberedIs DEF Inductive, Alike
<1>8. ASSUME NEW c \in Controls, NEW v \in Values, HearControl(c, v)
      PROVE  Inductive'
  <2> DEFINE m == MessageOf(panel, c, v)
  <2>1. /\ m # NoMessage /\ heard' = Append(heard, <<IdentityOf(m), m.value>>)
        /\ told' = [told EXCEPT ![IdentityOf(m)] = m.value]
        /\ panel' = panel /\ updates' = updates /\ store' = store
    BY <1>8 DEF HearControl, inputIdle
  <2>2. <<IdentityOf(m), m.value>> \in Told \X Values
    BY <2>1, ToldIs
  <2> HIDE DEF m
  <2>3. heard' \in Seq(Told \X Values)
    BY <1>0, <2>1, <2>2, AppendProperties DEF Queued
  <2> QED
    BY <1>0, <2>1, <2>3, RememberedNext DEF Inductive, Queued
<1>9. ASSUME Replaced PROVE Inductive'
  <2>1. /\ panel' = panel /\ updates' = updates /\ heard' = heard
        /\ UNCHANGED hearing
        /\ store' = [d \in Devices |-> [list |-> NoList, map |-> NoMap]]
    BY <1>9 DEF Replaced, inputIdle, hearing
  <2> QED
    BY <1>0, <2>1, RememberedIs DEF Inductive, Queued
<1>10. CASE \/ \E d \in Devices, m \in Maps \cup {NoMap} :
                    Lose(<<d, m>>) \/ TrackerAges(<<d, m>>)
            \/ \E m \in NoteMessages : HearNote(m)
            \/ \E at \in Moves, down \in BOOLEAN : MouseMoves(at, down)
            \/ DevicesChanged
  <2>1. panel' = panel /\ Idle
    BY <1>10 DEF Lose, TrackerAges, HearNote, MouseMoves, DevicesChanged, inputIdle, hearing
  <2> QED
    BY <1>0, <2>1, QueuedIs, RememberedIs DEF Inductive
<1> QED
  BY <1>1, <1>2, <1>3, <1>4, <1>5, <1>6, <1>7, <1>8, <1>9, <1>10 DEF Next

\* What was told of a control since devices last changed is what its slider
\* shows once nothing of it is queued, in whatever order lists and values came,
\* unless the user has moved it since.
THEOREM HeardIsShown == Spec => []ReceivedIsShown
<1>1. Init => Inductive
  BY InitGood
<1>2. Inductive /\ [Next]_vars => Inductive'
  BY StepGood
<1>3. Inductive => ReceivedIsShown
  <2> SUFFICES ASSUME Inductive, NEW d \in Devices, panel.lists[d] # NoList,
                      NEW i \in 1 .. Len(panel.lists[d])
               PROVE  LET k == Key(d, panel.lists[d][i]) IN
                      told[k[2]] # NoValue /\ ~IsQueued(k[2]) /\ k \notin panel.own
                        => panel.values[k] = told[k[2]]
    BY DEF ReceivedIsShown
  <2> DEFINE id == Identity(panel.lists[d][i])
  <2>1. panel.lists[d] \in ListsOf[d]
    BY DEF Inductive, Good, IsPanel
  <2>2. Kept(panel, d, id)
    BY DEF Inductive, Good, Showing
  <2>3. Key(d, panel.lists[d][i]) = <<d, id>> /\ id \in Identities
    BY <2>1, KeyIs
  <2> HIDE DEF id
  <2>4. LastIs(id, Len(heard), told[id], panel.heard[id])
    BY <2>3 DEF Inductive, Remembered
  <2>5. ~IsQueued(id) => told[id] = panel.heard[id]
    <3>1. HAVE ~IsQueued(id)
    <3>2. \A j \in 1 .. Len(heard) : heard[j] # <<id, told[id]>>
      BY <3>1 DEF IsQueued
    <3> QED
      BY <2>4, <3>2 DEF LastIs
  <2>6. <<d, id>>[2] = id
    OBVIOUS
  <2> QED
    BY <2>2, <2>3, <2>5, <2>6 DEF Kept
<1> QED
  BY <1>1, <1>2, <1>3, PTL DEF Spec
=============================================================================
