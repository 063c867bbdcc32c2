------------------------ MODULE PropertyChunks_proofs ------------------------
(***************************************************************************)
(* Proofs about PropertyChunks, for any transfers, peers and lengths.      *)
(* Inductive adds to the invariants what they rest on: the pending chunk   *)
(* of an undisturbed transfer is exactly the part of its body that has     *)
(* arrived, and no packet is left to send after the last.                  *)
(***************************************************************************)
EXTENDS PropertyChunks, TLAPS

\* The cutting of a message into packets, for all lengths: the pieces follow each
\* other and together are the whole body.
LEMMA NatProduct ==
    ASSUME NEW a \in Nat, NEW b \in Nat
    PROVE  a * b \in Nat
  BY SMT

LEMMA CapacityType ==
    ASSUME NEW h \in Nat, NEW len \in Nat, NEW max \in Nat
    PROVE  /\ FirstCapacity(h, max) \in Nat
           /\ RegularCapacity(max) \in Nat
           /\ FirstLen(h, len, max) \in 0 .. len
  BY DEF FirstCapacity, RegularCapacity, Capacity, Overhead, FirstLen

\* Rounding a quotient up leaves no remainder out.
LEMMA Ceiling ==
    ASSUME NEW a \in Nat \ {0}, NEW r \in Nat \ {0}
    PROVE  /\ (a + r - 1) \div r \in Nat \ {0}
           /\ ((a + r - 1) \div r) * r >= a
  BY SMT

\* num_chunks is at least 1.
LEMMA NumChunksType ==
    ASSUME NEW h \in Nat, NEW len \in Nat, NEW max \in Nat,
           Sendable(h, len, max)
    PROVE  NumChunks(h, len, max) \in Nat \ {0}
<1> DEFINE first == FirstLen(h, len, max)
           rest == len - first
           r == RegularCapacity(max)
<1>1. first \in 0 .. len /\ r \in Nat
  BY CapacityType
<1>2. CASE rest = 0
  BY <1>2 DEF NumChunks
<1>3. CASE rest # 0
  <2>1. rest \in Nat \ {0} /\ r \in Nat \ {0}
    BY <1>1, <1>3 DEF Sendable
  <2>2. (rest + r - 1) \div r \in Nat \ {0}
    BY <2>1, Ceiling
  <2> QED
    BY <1>3, <2>2 DEF NumChunks
<1> QED
  BY <1>2, <1>3

\* Offsets are natural numbers that do not decrease.
LEMMA OffsetMonotone ==
    ASSUME NEW h \in Nat, NEW len \in Nat, NEW max \in Nat,
           NEW k \in Nat \ {0}
    PROVE  /\ Offset(h, len, max, k) \in Nat
           /\ Offset(h, len, max, k + 1) \in Nat
           /\ Offset(h, len, max, k) <= Offset(h, len, max, k + 1)
<1> DEFINE first == FirstLen(h, len, max)
           r == RegularCapacity(max)
<1>1. first \in 0 .. len /\ r \in Nat
  BY CapacityType
<1>2. (k - 1) * r \in Nat
  <2>1. k - 1 \in Nat
    OBVIOUS
  <2> QED
    BY <2>1, <1>1, NatProduct
<1>3. CASE k = 1
  BY <1>1, <1>2, <1>3 DEF Offset
<1>4. CASE k # 1
  <2>1. k - 2 \in Nat
    BY <1>4
  <2>2. (k - 2) * r \in Nat
    BY <2>1, <1>1, NatProduct
  <2>3. (k - 1) * r = (k - 2) * r + r
    BY <1>1
  <2>4. (k + 1) - 2 = k - 1
    OBVIOUS
  <2> HIDE DEF first, r
  <2> QED
    BY <1>1, <1>2, <1>4, <2>2, <2>3, <2>4 DEF Offset, first, r
<1> QED
  BY <1>3, <1>4

\* The packets carry the body from its first byte to its last.
LEMMA OffsetEnds ==
    ASSUME NEW h \in Nat, NEW len \in Nat, NEW max \in Nat,
           Sendable(h, len, max)
    PROVE  /\ Offset(h, len, max, 1) = 0
           /\ Offset(h, len, max, NumChunks(h, len, max) + 1) = len
<1> DEFINE first == FirstLen(h, len, max)
           rest == len - first
           r == RegularCapacity(max)
           n == NumChunks(h, len, max)
<1>1. first \in 0 .. len /\ r \in Nat /\ n \in Nat \ {0}
  BY CapacityType, NumChunksType
<1>2. first + (n - 1) * r >= len
  <2>1. CASE rest = 0
    <3>1. (n - 1) * r \in Nat
      <4>1. n - 1 \in Nat
        BY <1>1
      <4> QED
        BY <1>1, <4>1, NatProduct
    <3> QED
      BY <1>1, <2>1, <3>1
  <2>2. CASE rest # 0
    <3>1. rest \in Nat \ {0} /\ r \in Nat \ {0}
      BY <1>1, <2>2 DEF Sendable
    <3>2. ((rest + r - 1) \div r) * r >= rest /\ (rest + r - 1) \div r \in Nat
      BY <3>1, Ceiling
    <3>3. n - 1 = (rest + r - 1) \div r
      BY <2>2, <3>2 DEF NumChunks
    <3> HIDE DEF n, r, first
    <3>4. (n - 1) * r \in Nat
      BY <3>1, <3>2, <3>3, NatProduct
    <3> QED
      BY <1>1, <3>1, <3>2, <3>3, <3>4
  <2> QED
    BY <2>1, <2>2
<1>3. (n + 1) - 2 = n - 1 /\ n + 1 # 1
  BY <1>1
<1> HIDE DEF n, r, first
<1>4. (n - 1) * r \in Int
  BY <1>1
<1>5. Offset(h, len, max, n + 1) = len
  BY <1>1, <1>2, <1>3, <1>4 DEF Offset, first, r
<1> QED
  BY <1>5 DEF Offset, n

-----------------------------------------------------------------------------
\* Lengths of a message in flight.
LEMMA MessageType ==
    ASSUME NEW m \in Messages
    PROVE  /\ m.src \in Sources /\ m.id \in RequestIds
           /\ m.h \in Nat /\ m.len \in Nat /\ m.max \in Nat
           /\ Sendable(m.h, m.len, m.max)
  BY ChunksAssumption DEF Messages

\* Byte ranges: typed, and adjacent ranges join.
LEMMA BytesType ==
    ASSUME NEW t \in Transfers, NEW a \in Nat, NEW b \in Nat, a <= b
    PROVE  Bytes(t, a, b) \in Seq(Transfers \X (Nat \ {0}))
  BY DEF Bytes

LEMMA BytesJoin ==
    ASSUME NEW t \in Transfers, NEW a \in Nat, NEW b \in Nat, a <= b
    PROVE  Bytes(t, 0, a) \o Bytes(t, a, b) = Bytes(t, 0, b)
  BY DEF Bytes

-----------------------------------------------------------------------------
\* The packets of a transfer that is not idle.
LEMMA PacketType ==
    ASSUME TypeOK, NEW t \in Transfers, status[t] # "idle"
    PROVE  /\ Key(t) \in Keys
           /\ Manager(msg[t].src) \in Managers
           /\ Pending(t) \in Entries \cup {NoEntry}
           /\ Last(t) \in Nat \ {0}
           /\ From(t, next[t]) \in Nat /\ From(t, next[t] + 1) \in Nat
           /\ From(t, next[t]) <= From(t, next[t] + 1)
           /\ PacketHeader(t) \in Transfers \cup {NoHeader}
           /\ PacketBody(t) \in Seq(Transfers \X (Nat \ {0}))
<1>1. msg[t] \in Messages /\ next[t] \in Nat \ {0}
  BY DEF TypeOK
<1>2. /\ msg[t].src \in Sources /\ msg[t].id \in RequestIds
      /\ msg[t].h \in Nat /\ msg[t].len \in Nat /\ msg[t].max \in Nat
      /\ Sendable(msg[t].h, msg[t].len, msg[t].max)
  BY <1>1, MessageType
<1>3. Key(t) \in Keys /\ Manager(msg[t].src) \in Managers
  BY <1>2 DEF Key, Keys, Manager, Managers
<1>4. Pending(t) \in Entries \cup {NoEntry}
  BY <1>3 DEF TypeOK, Pending
<1>5. Last(t) \in Nat \ {0}
  BY <1>2, NumChunksType DEF Last
<1>6. /\ From(t, next[t]) \in Nat /\ From(t, next[t] + 1) \in Nat
      /\ From(t, next[t]) <= From(t, next[t] + 1)
  BY <1>1, <1>2, OffsetMonotone DEF From
<1>7. PacketHeader(t) \in Transfers \cup {NoHeader}
  BY DEF PacketHeader
<1>8. PacketBody(t) \in Seq(Transfers \X (Nat \ {0}))
  BY <1>6, BytesType DEF PacketBody
<1> QED
  BY <1>3, <1>4, <1>5, <1>6, <1>7, <1>8

\* What the two outcomes of a packet are made of.
LEMMA OutcomeType ==
    ASSUME TypeOK, NEW t \in Transfers, status[t] # "idle"
    PROVE  Extended(t) \in Entries /\ Completed(t) \in Results
<1> DEFINE S == Seq(Transfers \X (Nat \ {0}))
<1>1. /\ Pending(t) \in Entries \cup {NoEntry}
      /\ PacketHeader(t) \in Transfers \cup {NoHeader}
      /\ PacketBody(t) \in S
  BY PacketType
<1>2. CASE Pending(t) = NoEntry
  BY <1>1, <1>2 DEF Extended, Completed, Entries, Results
<1>3. CASE Pending(t) # NoEntry
  <2>1. Pending(t) \in [header : Transfers \cup {NoHeader}, data : S]
    BY <1>1, <1>3 DEF Entries
  <2>2. Pending(t).data \o PacketBody(t) \in S
    BY <1>1, <2>1
  <2> HIDE DEF S
  <2>3. Extended(t) \in [header : Transfers \cup {NoHeader}, data : S]
    BY <1>3, <2>1, <2>2 DEF Extended
  <2>4. Completed(t) \in [header : Transfers \cup {NoHeader}, body : S]
    BY <1>3, <2>1, <2>2 DEF Completed
  <2> QED
    BY <2>3, <2>4 DEF Entries, Results, S
<1> QED
  BY <1>2, <1>3

\* SetPending changes one entry of one manager.
LEMMA PendingChange ==
    ASSUME TypeOK, NEW t \in Transfers, status[t] # "idle",
           NEW entry, SetPending(t, entry)
    PROVE  /\ \A m \in Managers, k \in Keys :
                chunks'[m][k] = IF m = Manager(msg[t].src) /\ k = Key(t)
                                THEN entry ELSE chunks[m][k]
           /\ entry \in Entries \cup {NoEntry} =>
                chunks' \in [Managers -> [Keys -> Entries \cup {NoEntry}]]
<1>1. Key(t) \in Keys /\ Manager(msg[t].src) \in Managers
  BY PacketType
<1>2. chunks \in [Managers -> [Keys -> Entries \cup {NoEntry}]]
  BY DEF TypeOK
<1> QED
  BY <1>1, <1>2 DEF SetPending

\* SwitchManager empties the connection's manager of one source.
LEMMA SwitchChange ==
    ASSUME TypeOK, NEW s \in Sources, SwitchManager(s)
    PROVE  /\ \A m \in Managers, k \in Keys :
                chunks'[m][k] = IF m = "connection" /\ k[1] = s
                                THEN NoEntry ELSE chunks[m][k]
           /\ chunks' \in [Managers -> [Keys -> Entries \cup {NoEntry}]]
<1>1. chunks \in [Managers -> [Keys -> Entries \cup {NoEntry}]]
  BY DEF TypeOK
<1> QED
  BY <1>1 DEF SwitchManager, Managers

-----------------------------------------------------------------------------
\* Every step keeps the types.
LEMMA TypeStep == TypeOK /\ [Next]_vars => TypeOK'
<1> SUFFICES ASSUME TypeOK, [Next]_vars PROVE TypeOK'
  OBVIOUS
<1>1. ASSUME NEW t \in Transfers, NEW m \in Messages, Start(t, m)
      PROVE  TypeOK'
  BY <1>1 DEF Start, TypeOK
<1>2. ASSUME NEW t \in Transfers, ReceivePart(t) PROVE TypeOK'
  <2>1. status[t] # "idle"
    BY <1>2 DEF ReceivePart
  <2>2. SetPending(t, Extended(t)) /\ Extended(t) \in Entries
    BY <1>2, <2>1, OutcomeType DEF ReceivePart
  <2>3. chunks' \in [Managers -> [Keys -> Entries \cup {NoEntry}]]
    BY <2>1, <2>2, PendingChange
  <2>4. progress' \in [of : Transfers \cup {NoHeader},
                       header : Transfers \cup {NoHeader}]
    BY <1>2, <2>1, PacketType DEF ReceivePart, NotifyChunk, Entries
  <2>5. disturbed' \subseteq Transfers
    BY <1>2 DEF ReceivePart, NoteMixing, TypeOK
  <2>6. next' \in [Transfers -> Nat \ {0}]
    BY <1>2 DEF ReceivePart, TypeOK
  <2> QED
    BY <1>2, <2>3, <2>4, <2>5, <2>6 DEF ReceivePart, TypeOK
<1>3. ASSUME NEW t \in Transfers, ReceiveLast(t) PROVE TypeOK'
  <2>1. status[t] # "idle"
    BY <1>3 DEF ReceiveLast
  <2>2. SetPending(t, NoEntry) /\ Completed(t) \in Results
    BY <1>3, <2>1, OutcomeType DEF ReceiveLast
  <2>3. chunks' \in [Managers -> [Keys -> Entries \cup {NoEntry}]]
    BY <2>1, <2>2, PendingChange
  <2>4. progress' \in [of : Transfers \cup {NoHeader},
                       header : Transfers \cup {NoHeader}]
    BY <1>3, <2>1, PacketType DEF ReceiveLast, NotifyChunk, Entries
  <2>5. disturbed' \subseteq Transfers
    BY <1>3 DEF ReceiveLast, NoteMixing, TypeOK
  <2>6. next' \in [Transfers -> Nat \ {0}]
    BY <1>3 DEF ReceiveLast, TypeOK
  <2>7. /\ delivered' \in [Transfers -> Results]
        /\ status' \in [Transfers -> {"idle", "sending", "done", "failed"}]
        /\ \A u \in Transfers : status'[u] # "idle" => msg'[u] \in Messages
    BY <1>3, <2>1, <2>2 DEF ReceiveLast, TypeOK
  <2> QED
    BY <1>3, <2>3, <2>4, <2>5, <2>6, <2>7 DEF ReceiveLast, TypeOK
<1>4. ASSUME NEW t \in Transfers, SendFails(t) PROVE TypeOK'
  BY <1>4 DEF SendFails, TypeOK
<1>5. ASSUME NEW s \in Sources, NewEndpoint(s) \/ Invalidate(s)
      PROVE  TypeOK'
  <2>1. SwitchManager(s) /\ connected' \subseteq Sources
    BY <1>5 DEF NewEndpoint, Invalidate, TypeOK
  <2>2. chunks' \in [Managers -> [Keys -> Entries \cup {NoEntry}]]
    BY <2>1, SwitchChange
  <2> QED
    BY <2>1, <2>2 DEF SwitchManager, TypeOK
<1>6. CASE UNCHANGED vars
  BY <1>6 DEF vars, TypeOK
<1> QED
  BY <1>1, <1>2, <1>3, <1>4, <1>5, <1>6 DEF Next

\* Every reachable state is well typed: in particular a chunk that handleChunk
\* extends or finishes has a header and a body, whatever was mixed into it.
THEOREM TypeCorrect == Spec => []TypeOK
<1>1. Init => TypeOK
  BY DEF Init, TypeOK, NoMessage, NoResult, Results
<1> QED
  BY <1>1, TypeStep, PTL DEF Spec

-----------------------------------------------------------------------------
\* No packet is left after the last; before the first nothing happened.
NoneLeft ==
    \A t \in Transfers :
        /\ status[t] = "idle" => next[t] = 1
        /\ status[t] = "sending" => next[t] <= Last(t)

\* What an undisturbed transfer has pending: its header and body so far.
Gathered ==
    \A t \in Transfers \ disturbed :
        Underway(t) =>
            Pending(t) = [header |-> t, data |-> Bytes(t, 0, From(t, next[t]))]

\* NoResidue, and in which manager the chunk of an undisturbed transfer is.
Accounted ==
    \A m \in Managers, k \in Keys :
        chunks[m][k] # NoEntry =>
            \E t \in Transfers :
                /\ status[t] # "idle" /\ Key(t) = k /\ next[t] > 1
                /\ \/ Underway(t) /\ m = Manager(msg[t].src)
                   \/ status[t] = "failed" \/ t \in disturbed

Inductive ==
    TypeOK /\ NoneLeft /\ Gathered /\ ExactDelivery /\ ProgressHeader /\ Accounted

\* Taking the next packet of t: whoever shares its key is disturbed.
LEMMA Mixing ==
    ASSUME TypeOK, NEW t \in Transfers, status[t] = "sending", NoteMixing(t)
    PROVE  /\ disturbed \subseteq disturbed'
           /\ \A u \in Transfers \ disturbed' :
                u # t /\ Underway(u) => Key(u) # Key(t)
           /\ t \notin disturbed' /\ next[t] = 1 => Pending(t) = NoEntry
  BY DEF NoteMixing

\* What an undisturbed transfer has once its next packet is in.
LEMMA Gathering ==
    ASSUME Inductive, NEW t \in Transfers, status[t] = "sending",
           t \notin disturbed', NoteMixing(t)
    PROVE  /\ Extended(t) = [header |-> t, data |-> Bytes(t, 0, From(t, next[t] + 1))]
           /\ Completed(t) = [header |-> t, body |-> Bytes(t, 0, From(t, next[t] + 1))]
<1>1. TypeOK /\ t \notin disturbed
  BY Mixing DEF Inductive
<1>2. /\ From(t, next[t]) \in Nat /\ From(t, next[t] + 1) \in Nat
      /\ From(t, next[t]) <= From(t, next[t] + 1)
  BY <1>1, PacketType
<1>3. CASE next[t] = 1
  <2>1. Pending(t) = NoEntry /\ PacketHeader(t) = t
    BY <1>1, <1>3, Mixing DEF PacketHeader
  <2>2. From(t, next[t]) = 0
    BY <1>3 DEF From, Offset
  <2> QED
    BY <2>1, <2>2 DEF Extended, Completed, PacketBody
<1>4. CASE next[t] # 1
  <2>1. next[t] > 1
    BY <1>1, <1>4 DEF TypeOK
  <2>2. Pending(t) = [header |-> t, data |-> Bytes(t, 0, From(t, next[t]))]
    BY <1>1, <2>1 DEF Inductive, Gathered, Underway
  <2>3. Pending(t) # NoEntry
    <3>1. Bytes(t, 0, From(t, next[t])) \in Seq(Transfers \X (Nat \ {0}))
      BY <1>2, BytesType
    <3> QED
      BY <2>2, <3>1, ChunksAssumption DEF Entries
  <2>4. Pending(t).data \o PacketBody(t) = Bytes(t, 0, From(t, next[t] + 1))
    <3>1. Bytes(t, 0, From(t, next[t])) \o Bytes(t, From(t, next[t]), From(t, next[t] + 1))
          = Bytes(t, 0, From(t, next[t] + 1))
      BY <1>2, BytesJoin, Zenon
    <3>2. Pending(t).data = Bytes(t, 0, From(t, next[t]))
      BY <2>2
    <3> QED
      BY <3>1, <3>2, Zenon DEF PacketBody
  <2>5. Pending(t).header = t
    BY <2>2
  <2> QED
    BY <2>3, <2>4, <2>5 DEF Extended, Completed
<1> QED
  BY <1>3, <1>4

-----------------------------------------------------------------------------
\* The next packet of t, whether or not it is the last.
LEMMA PacketStep ==
    ASSUME Inductive, NEW t \in Transfers, status[t] = "sending",
           NotifyChunk(t), NoteMixing(t), NEW entry, SetPending(t, entry),
           UNCHANGED <<msg, connected>>,
           next' = [next EXCEPT ![t] = @ + 1],
           \A u \in Transfers \ {t} : status'[u] = status[u]
    PROVE  /\ \A u \in Transfers \ disturbed' : u # t /\ Underway(u)' =>
                /\ Pending(u)' = [header |-> u, data |-> Bytes(u, 0, From(u, next[u]))]
                /\ next'[u] = next[u]
           /\ ProgressHeader'
<1>1. TypeOK /\ disturbed \subseteq disturbed'
  BY Mixing DEF Inductive
<1>2. ASSUME NEW u \in Transfers, u \notin disturbed', u # t, Underway(u)'
      PROVE  /\ Pending(u)' = [header |-> u, data |-> Bytes(u, 0, From(u, next[u]))]
             /\ next'[u] = next[u]
  <2>1. next'[u] = next[u] /\ Underway(u)
    BY <1>1, <1>2 DEF Underway, TypeOK
  <2>2. Key(u) # Key(t)
    BY <1>1, <1>2, <2>1, Mixing
  <2>3. Key(u) \in Keys /\ Manager(msg[u].src) \in Managers
    BY <1>1, <2>1, PacketType DEF Underway
  <2>4. Pending(u)' = Pending(u)
    BY <1>1, <2>2, <2>3, PendingChange DEF Pending, Key, Manager
  <2>5. Pending(u) = [header |-> u, data |-> Bytes(u, 0, From(u, next[u]))]
    BY <1>1, <1>2, <2>1 DEF Inductive, Gathered
  <2> QED
    BY <2>1, <2>4, <2>5
<1>3. ASSUME t \notin disturbed' PROVE progress'.header = t
  <2>1. CASE next[t] = 1
    BY <2>1, ChunksAssumption DEF NotifyChunk, PacketHeader
  <2>2. CASE next[t] # 1
    <3>1. Underway(t) /\ t \notin disturbed
      BY <1>1, <1>3, <2>2 DEF Underway, TypeOK
    <3>2. Pending(t) = [header |-> t, data |-> Bytes(t, 0, From(t, next[t]))]
      BY <3>1 DEF Inductive, Gathered
    <3>3. Pending(t) # NoEntry
      <4>1. From(t, next[t]) \in Nat
        BY <1>1, PacketType
      <4>2. Bytes(t, 0, From(t, next[t])) \in Seq(Transfers \X (Nat \ {0}))
        BY <4>1, BytesType
      <4> QED
        BY <3>2, <4>2, ChunksAssumption DEF Entries
    <3> QED
      BY <2>2, <3>2, <3>3 DEF NotifyChunk, PacketHeader
  <2> QED
    BY <2>1, <2>2
<1>4. progress'.of = t
  BY DEF NotifyChunk
<1> QED
  BY <1>2, <1>3, <1>4 DEF ProgressHeader

LEMMA PartStep ==
    ASSUME Inductive, NEW t \in Transfers, ReceivePart(t)
    PROVE  /\ NoneLeft' /\ Gathered' /\ ExactDelivery' /\ ProgressHeader'
           /\ Accounted'
<1>1. /\ TypeOK /\ status[t] = "sending" /\ NoteMixing(t) /\ NotifyChunk(t)
      /\ SetPending(t, Extended(t)) /\ UNCHANGED <<status, msg, connected, delivered>>
      /\ next' = [next EXCEPT ![t] = @ + 1] /\ next[t] < Last(t)
  BY DEF Inductive, ReceivePart
<1>2. /\ Key(t) \in Keys /\ Manager(msg[t].src) \in Managers
      /\ Last(t) \in Nat \ {0} /\ next[t] \in Nat \ {0}
  BY <1>1, PacketType DEF TypeOK
<1>3. disturbed \subseteq disturbed'
  BY <1>1, Mixing
<1>4. NoteMixing(t) /\ \A u \in Transfers \ {t} : status'[u] = status[u]
  BY <1>1
<1>5. /\ \A u \in Transfers \ disturbed' : u # t /\ Underway(u)' =>
            /\ Pending(u)' = [header |-> u, data |-> Bytes(u, 0, From(u, next[u]))]
            /\ next'[u] = next[u]
      /\ ProgressHeader'
  BY <1>1, <1>4, PacketStep
<1>6. NoneLeft'
  BY <1>1, <1>2 DEF Inductive, NoneLeft, Last, TypeOK
<1>7. Gathered'
  <2>1. ASSUME t \notin disturbed'
        PROVE  Pending(t)' = [header |-> t, data |-> Bytes(t, 0, From(t, next[t] + 1))]
    <3>1. Extended(t) = [header |-> t, data |-> Bytes(t, 0, From(t, next[t] + 1))]
      BY <1>1, <2>1, Gathering
    <3>2. Pending(t)' = Extended(t)
      BY <1>1, <1>2, PendingChange DEF Pending, Key, Manager
    <3> QED
      BY <3>1, <3>2
  <2>2. next'[t] = next[t] + 1
    BY <1>1 DEF TypeOK
  <2> QED
    BY <1>1, <1>5, <2>1, <2>2 DEF Gathered, From
<1>8. ExactDelivery'
  BY <1>1, <1>3 DEF Inductive, ExactDelivery, Exact
<1>9. Accounted'
  <2> SUFFICES ASSUME NEW m \in Managers, NEW k \in Keys, chunks'[m][k] # NoEntry
               PROVE  \E u \in Transfers :
                        /\ status'[u] # "idle" /\ Key(u)' = k /\ next'[u] > 1
                        /\ \/ Underway(u)' /\ m = Manager(msg[u].src)'
                           \/ status'[u] = "failed" \/ u \in disturbed'
    BY DEF Accounted
  <2>1. CASE m = Manager(msg[t].src) /\ k = Key(t)
    <3>1. next'[t] > 1 /\ Underway(t)' /\ status'[t] # "idle"
      BY <1>1, <1>2 DEF Underway, TypeOK
    <3>2. Key(t)' = k /\ m = Manager(msg[t].src)'
      BY <1>1, <2>1 DEF Key, Manager
    <3> QED
      BY <3>1, <3>2
  <2>2. CASE ~(m = Manager(msg[t].src) /\ k = Key(t))
    <3>1. chunks[m][k] # NoEntry
      BY <1>1, <2>2, PendingChange
    <3>2. PICK u \in Transfers :
            /\ status[u] # "idle" /\ Key(u) = k /\ next[u] > 1
            /\ \/ Underway(u) /\ m = Manager(msg[u].src)
               \/ status[u] = "failed" \/ u \in disturbed
      BY <3>1 DEF Inductive, Accounted
    <3>3. status'[u] # "idle" /\ Key(u)' = k
      BY <1>1, <3>2 DEF Key
    <3>4. next'[u] > 1
      BY <1>1, <3>2 DEF TypeOK
    <3>5. Underway(u) => Underway(u)' /\ Manager(msg[u].src)' = Manager(msg[u].src)
      BY <1>1, <3>4 DEF Underway, Manager
    <3> QED
      BY <1>1, <1>3, <3>2, <3>3, <3>4, <3>5
  <2> QED
    BY <2>1, <2>2
<1> QED
  BY <1>5, <1>6, <1>7, <1>8, <1>9

LEMMA LastStep ==
    ASSUME Inductive, NEW t \in Transfers, ReceiveLast(t)
    PROVE  /\ NoneLeft' /\ Gathered' /\ ExactDelivery' /\ ProgressHeader'
           /\ Accounted'
<1>1. /\ TypeOK /\ status[t] = "sending" /\ NoteMixing(t) /\ NotifyChunk(t)
      /\ SetPending(t, NoEntry) /\ UNCHANGED <<msg, connected>>
      /\ delivered' = [delivered EXCEPT ![t] = Completed(t)]
      /\ status' = [status EXCEPT ![t] = "done"]
      /\ next' = [next EXCEPT ![t] = @ + 1] /\ next[t] = Last(t)
  <2>1. TypeOK /\ NoneLeft /\ status[t] = "sending" /\ next[t] >= Last(t)
    BY DEF Inductive, ReceiveLast
  <2>2. next[t] \in Nat /\ Last(t) \in Nat /\ next[t] <= Last(t)
    BY <2>1, PacketType DEF NoneLeft, TypeOK
  <2>3. next[t] = Last(t)
    BY <2>1, <2>2
  <2> QED
    BY <2>1, <2>3 DEF ReceiveLast
<1>2. /\ Key(t) \in Keys /\ Manager(msg[t].src) \in Managers
      /\ Last(t) \in Nat \ {0} /\ next[t] \in Nat \ {0}
  BY <1>1, PacketType DEF TypeOK
<1>3. disturbed \subseteq disturbed'
  BY <1>1, Mixing
<1>4. \A u \in Transfers \ {t} : status'[u] = status[u] /\ next'[u] = next[u]
  BY <1>1 DEF TypeOK
<1>5. /\ \A u \in Transfers \ disturbed' : u # t /\ Underway(u)' =>
            /\ Pending(u)' = [header |-> u, data |-> Bytes(u, 0, From(u, next[u]))]
            /\ next'[u] = next[u]
      /\ ProgressHeader'
  BY <1>1, <1>4, PacketStep
<1>6. status'[t] = "done" /\ delivered'[t] = Completed(t)
  BY <1>1 DEF TypeOK
<1>7. NoneLeft'
  BY <1>1, <1>4, <1>6 DEF Inductive, NoneLeft, Last
<1>8. Gathered'
  BY <1>1, <1>5, <1>6 DEF Gathered, From, Underway
<1>9. ExactDelivery'
  <2>1. ASSUME t \notin disturbed' PROVE delivered'[t] = Exact(t)'
    <3>1. Completed(t) = [header |-> t, body |-> Bytes(t, 0, From(t, next[t] + 1))]
      BY <1>1, <2>1, Gathering
    <3>2. From(t, next[t] + 1) = msg[t].len
      <4>1. msg[t] \in Messages
        BY <1>1 DEF TypeOK
      <4> QED
        BY <1>1, <4>1, MessageType, OffsetEnds DEF From, Last
    <3> QED
      BY <1>1, <1>6, <3>1, <3>2 DEF Exact
  <2>2. ASSUME NEW u \in Transfers, u # t, u \notin disturbed', status'[u] = "done"
        PROVE  delivered'[u] = Exact(u)'
    <3>1. delivered'[u] = delivered[u] /\ Exact(u)' = Exact(u) /\ status[u] = "done"
      BY <1>1, <1>4, <2>2 DEF Exact, TypeOK
    <3> QED
      BY <1>3, <2>2, <3>1 DEF Inductive, ExactDelivery
  <2> QED
    BY <2>1, <2>2 DEF ExactDelivery
<1>10. Accounted'
  <2> SUFFICES ASSUME NEW m \in Managers, NEW k \in Keys, chunks'[m][k] # NoEntry
               PROVE  \E u \in Transfers :
                        /\ status'[u] # "idle" /\ Key(u)' = k /\ next'[u] > 1
                        /\ \/ Underway(u)' /\ m = Manager(msg[u].src)'
                           \/ status'[u] = "failed" \/ u \in disturbed'
    BY DEF Accounted
  <2>1. chunks[m][k] # NoEntry /\ ~(m = Manager(msg[t].src) /\ k = Key(t))
    BY <1>1, PendingChange
  <2>2. PICK u \in Transfers :
          /\ status[u] # "idle" /\ Key(u) = k /\ next[u] > 1
          /\ \/ Underway(u) /\ m = Manager(msg[u].src)
             \/ status[u] = "failed" \/ u \in disturbed
    BY <2>1 DEF Inductive, Accounted
  <2>3. /\ status'[u] # "idle" /\ Key(u)' = k /\ next'[u] > 1
        /\ Manager(msg[u].src)' = Manager(msg[u].src)
    BY <1>1, <1>2, <1>4, <1>6, <2>2 DEF Key, Manager, TypeOK
  <2>4. CASE u = t
    BY <1>1, <1>3, <2>1, <2>2, <2>3, <2>4
  <2>5. CASE u # t
    BY <1>3, <1>4, <2>2, <2>3, <2>5 DEF Underway
  <2> QED
    BY <2>4, <2>5
<1> QED
  BY <1>5, <1>7, <1>8, <1>9, <1>10

\* A connection that comes or goes disturbs what its peer has underway and
\* nothing else.
LEMMA SwitchStep ==
    ASSUME Inductive, NEW s \in Sources, NewEndpoint(s) \/ Invalidate(s)
    PROVE  /\ NoneLeft' /\ Gathered' /\ ExactDelivery' /\ ProgressHeader'
           /\ Accounted'
<1>1. /\ TypeOK /\ SwitchManager(s)
      /\ UNCHANGED <<status, msg, next, delivered, progress>>
      /\ disturbed' = disturbed \cup {t \in Transfers : Underway(t) /\ msg[t].src = s}
      /\ \A r \in Sources \ {s} : Manager(r)' = Manager(r)
  BY DEF Inductive, NewEndpoint, Invalidate, SwitchManager, Manager
<1>2. NoneLeft' /\ ExactDelivery' /\ ProgressHeader'
  BY <1>1 DEF Inductive, NoneLeft, Last, ExactDelivery, Exact, ProgressHeader
<1>3. Gathered'
  <2> SUFFICES ASSUME NEW t \in Transfers, t \notin disturbed', Underway(t)'
               PROVE  Pending(t)' = [header |-> t,
                                     data |-> Bytes(t, 0, From(t, next[t]))]'
    BY DEF Gathered
  <2>1. Underway(t) /\ t \notin disturbed /\ msg[t].src # s
    BY <1>1 DEF Underway
  <2>2. /\ Key(t) \in Keys /\ Manager(msg[t].src) \in Managers
        /\ msg[t].src \in Sources /\ Key(t)[1] = msg[t].src
    BY <1>1, <2>1, PacketType, MessageType DEF Underway, TypeOK, Key
  <2>3. Pending(t)' = Pending(t)
    BY <1>1, <2>1, <2>2, SwitchChange DEF Pending, Key
  <2> QED
    BY <1>1, <2>1, <2>3 DEF Inductive, Gathered, From
<1>4. Accounted'
  <2> SUFFICES ASSUME NEW m \in Managers, NEW k \in Keys, chunks'[m][k] # NoEntry
               PROVE  \E u \in Transfers :
                        /\ status'[u] # "idle" /\ Key(u)' = k /\ next'[u] > 1
                        /\ \/ Underway(u)' /\ m = Manager(msg[u].src)'
                           \/ status'[u] = "failed" \/ u \in disturbed'
    BY DEF Accounted
  <2>1. chunks[m][k] # NoEntry
    BY <1>1, SwitchChange
  <2>2. PICK u \in Transfers :
          /\ status[u] # "idle" /\ Key(u) = k /\ next[u] > 1
          /\ \/ Underway(u) /\ m = Manager(msg[u].src)
             \/ status[u] = "failed" \/ u \in disturbed
    BY <2>1 DEF Inductive, Accounted
  <2>3. msg[u].src \in Sources
    BY <1>1, <2>2, MessageType DEF TypeOK
  <2>4. CASE msg[u].src = s
    BY <1>1, <2>2, <2>4 DEF Key, Underway
  <2>5. CASE msg[u].src # s
    BY <1>1, <2>2, <2>3, <2>5 DEF Key, Underway
  <2> QED
    BY <2>4, <2>5
<1> QED
  BY <1>2, <1>3, <1>4

\* Steps that touch no chunk.
LEMMA QuietStep ==
    ASSUME Inductive, NEW t \in Transfers,
           (\E m \in Messages : Start(t, m)) \/ SendFails(t)
    PROVE  /\ NoneLeft' /\ Gathered' /\ ExactDelivery' /\ ProgressHeader'
           /\ Accounted'
<1>1. /\ TypeOK /\ NoneLeft
      /\ UNCHANGED <<next, chunks, connected, delivered, progress, disturbed>>
      /\ \A u \in Transfers \ {t} : status'[u] = status[u] /\ msg'[u] = msg[u]
      /\ \/ status[t] = "idle" /\ status'[t] = "sending" /\ next[t] = 1
            /\ msg'[t] \in Messages
         \/ status[t] = "sending" /\ status'[t] = "failed" /\ msg'[t] = msg[t]
  BY DEF Inductive, Start, SendFails, TypeOK, NoneLeft
<1>2. NoneLeft'
  <2>1. status'[t] = "sending" => next'[t] <= Last(t)'
    <3>1. ASSUME status'[t] = "sending" PROVE Last(t)' \in Nat \ {0}
      BY <1>1, <3>1, MessageType, NumChunksType DEF Last
    <3> QED
      BY <1>1, <3>1
  <2> QED
    BY <1>1, <2>1 DEF NoneLeft, Last
<1>3. Gathered'
  <2> SUFFICES ASSUME NEW u \in Transfers, u \notin disturbed, Underway(u)'
               PROVE  Pending(u)' = [header |-> u,
                                     data |-> Bytes(u, 0, From(u, next[u]))]'
    BY <1>1 DEF Gathered
  <2>1. u # t /\ Underway(u)
    BY <1>1 DEF Underway
  <2> QED
    BY <1>1, <2>1 DEF Inductive, Gathered, Pending, Key, Manager, From
<1>4. ExactDelivery' /\ ProgressHeader'
  BY <1>1 DEF Inductive, ExactDelivery, Exact, ProgressHeader
<1>5. Accounted'
  <2> SUFFICES ASSUME NEW m \in Managers, NEW k \in Keys, chunks[m][k] # NoEntry
               PROVE  \E u \in Transfers :
                        /\ status'[u] # "idle" /\ Key(u)' = k /\ next[u] > 1
                        /\ \/ Underway(u)' /\ m = Manager(msg[u].src)'
                           \/ status'[u] = "failed" \/ u \in disturbed
    BY <1>1 DEF Accounted
  <2>1. PICK u \in Transfers :
          /\ status[u] # "idle" /\ Key(u) = k /\ next[u] > 1
          /\ \/ Underway(u) /\ m = Manager(msg[u].src)
             \/ status[u] = "failed" \/ u \in disturbed
    BY DEF Inductive, Accounted
  <2>2. msg'[u] = msg[u]
    BY <1>1, <2>1
  <2>3. Key(u)' = k /\ Manager(msg[u].src)' = Manager(msg[u].src)
    BY <1>1, <2>1, <2>2 DEF Key, Manager
  <2> QED
    BY <1>1, <2>1, <2>3 DEF Underway
<1> QED
  BY <1>2, <1>3, <1>4, <1>5

LEMMA InductiveStep == Inductive /\ [Next]_vars => Inductive'
<1> SUFFICES ASSUME Inductive, [Next]_vars PROVE Inductive'
  OBVIOUS
<1>1. TypeOK'
  BY TypeStep DEF Inductive
<1>2. CASE Next
  BY <1>1, <1>2, PartStep, LastStep, SwitchStep, QuietStep DEF Next, Inductive
<1>3. CASE UNCHANGED vars
  BY <1>1, <1>3 DEF vars, Inductive, NoneLeft, Gathered, ExactDelivery,
     ProgressHeader, Accounted, Underway, Pending, Key, Last, From, Exact, Manager
<1> QED
  BY <1>2, <1>3

LEMMA Invariance == Spec => []Inductive
<1>1. Init => Inductive
  BY DEF Init, Inductive, TypeOK, NoneLeft, Gathered, ExactDelivery,
     ProgressHeader, Accounted, Underway, NoMessage, NoResult, Results
<1> QED
  BY <1>1, InductiveStep, PTL DEF Spec

\* on_complete gets exactly what was sent, for every undisturbed transfer.
THEOREM DeliveryIsExact == Spec => []ExactDelivery
  BY Invariance, PTL DEF Inductive

\* The chunk notifications name the message that a packet belongs to.
THEOREM ProgressIsRight == Spec => []ProgressHeader
  BY Invariance, PTL DEF Inductive

\* An undisturbed transfer leaves nothing behind in any chunk manager.
THEOREM NothingStays == Spec => []NoResidue
<1>1. Inductive => NoResidue
  BY DEF Inductive, Accounted, NoResidue
<1> QED
  BY <1>1, Invariance, PTL

-----------------------------------------------------------------------------
\* The abstract state of PropertyTransfer that a state stands for.
Fate == [t \in Transfers |->
            IF status[t] # "done" THEN status[t]
            ELSE IF delivered[t] = Exact(t) THEN "exact" ELSE "spoiled"]

\* A step that leaves the other transfers alone leaves their fate alone.
LEMMA FateChange ==
    ASSUME NEW t \in Transfers,
           \A u \in Transfers \ {t} : /\ status'[u] = status[u]
                                      /\ delivered'[u] = delivered[u]
                                      /\ msg'[u] = msg[u]
    PROVE  Fate' = [Fate EXCEPT ![t] = Fate'[t]]
  BY DEF Fate, Exact

\* Every step is a step of the abstract specification or changes no fate.
LEMMA RefinedStep ==
    ASSUME Inductive, [Next]_vars
    PROVE  [Whole!Next]_<<Fate, disturbed>>
<1>1. TypeOK /\ Inductive' /\ disturbed' \subseteq Transfers
  BY InductiveStep DEF Inductive, TypeOK
<1>2. ASSUME NEW t \in Transfers, NEW m \in Messages, Start(t, m)
      PROVE  Whole!Next
  <2>1. Fate' = [Fate EXCEPT ![t] = Fate'[t]]
    BY <1>1, <1>2, FateChange DEF Start, TypeOK
  <2>2. Fate[t] = "idle" /\ Fate'[t] = "sending"
    BY <1>1, <1>2 DEF Start, TypeOK, Fate
  <2>3. Whole!Submit(t)
    BY <2>1, <2>2 DEF Whole!Submit, Fate
  <2> QED
    BY <1>1, <1>2, <2>3 DEF Whole!Next, Start
<1>3. ASSUME NEW t \in Transfers, ReceivePart(t) PROVE Whole!Next
  <2>1. UNCHANGED <<status, delivered, msg>> /\ disturbed \subseteq disturbed'
    BY <1>1, <1>3, Mixing DEF ReceivePart
  <2>2. UNCHANGED Fate
    BY <2>1 DEF Fate, Exact
  <2> QED
    BY <1>1, <2>1, <2>2 DEF Whole!Next, Fate
<1>4. ASSUME NEW t \in Transfers, ReceiveLast(t) PROVE Whole!Next
  <2>1. Fate' = [Fate EXCEPT ![t] = Fate'[t]]
    BY <1>1, <1>4, FateChange DEF ReceiveLast, TypeOK
  <2>2. Fate[t] = "sending" /\ status'[t] = "done"
    BY <1>1, <1>4 DEF ReceiveLast, TypeOK, Fate
  <2>3. Fate'[t] = "exact" \/ (t \in disturbed' /\ Fate'[t] = "spoiled")
    BY <1>1, <2>2 DEF Fate, Inductive, ExactDelivery
  <2>4. Whole!Deliver(t)
    BY <2>1, <2>2, <2>3 DEF Whole!Deliver, Fate
  <2>5. disturbed \subseteq disturbed'
    BY <1>1, <1>4, Mixing DEF ReceiveLast
  <2> QED
    BY <1>1, <2>4, <2>5 DEF Whole!Next
<1>5. ASSUME NEW t \in Transfers, SendFails(t) PROVE Whole!Next
  <2>1. Fate' = [Fate EXCEPT ![t] = Fate'[t]]
    BY <1>1, <1>5, FateChange DEF SendFails, TypeOK
  <2>2. Fate[t] = "sending" /\ Fate'[t] = "failed"
    BY <1>1, <1>5 DEF SendFails, TypeOK, Fate
  <2>3. Whole!Fail(t)
    BY <2>1, <2>2 DEF Whole!Fail, Fate
  <2> QED
    BY <1>1, <1>5, <2>3 DEF Whole!Next, SendFails
<1>6. ASSUME NEW s \in Sources, NewEndpoint(s) \/ Invalidate(s)
      PROVE  Whole!Next
  <2>1. UNCHANGED <<status, delivered, msg>> /\ disturbed \subseteq disturbed'
    BY <1>6 DEF NewEndpoint, Invalidate, SwitchManager
  <2>2. UNCHANGED Fate
    BY <2>1 DEF Fate, Exact
  <2> QED
    BY <1>1, <2>1, <2>2 DEF Whole!Next, Fate
<1>7. CASE UNCHANGED vars
  BY <1>7 DEF vars, Fate, Exact
<1> QED
  BY <1>2, <1>3, <1>4, <1>5, <1>6, <1>7 DEF Next

\* handleChunk hands every message over once and whole, or spoiled only
\* after its chunks were disturbed.
THEOREM Implements == Spec => Refinement
<1>1. Init => Whole!Init
  BY DEF Init, Whole!Init
<1>2. Inductive /\ [Next]_vars => [Whole!Next]_<<Fate, disturbed>>
  BY RefinedStep
<1>3. Fate = [t \in Transfers |->
                IF status[t] # "done" THEN status[t]
                ELSE IF delivered[t] = Exact(t) THEN "exact" ELSE "spoiled"]
  BY DEF Fate
<1> QED
  BY <1>1, <1>2, <1>3, Invariance, PTL DEF Spec, Refinement, Whole!Spec, Fate
=============================================================================
