------------------------ MODULE SysexAssembly_proofs ------------------------
(***************************************************************************)
(* Proofs about SysexAssembly, for any transmissions, routes and lengths.  *)
(* Inductive says what the buffers hold between two packets: the begun     *)
(* part of the one MIDI-CI message that nothing has disturbed, or          *)
(* something whose transmission was disturbed or cut off.                  *)
(***************************************************************************)
EXTENDS SysexAssembly, FiniteSetTheorems, SequenceTheorems, WellFoundedInduction, TLAPS

\* The first n packets of t.
Begun(t, n) == [k \in 1 .. n |-> <<t, k>>]

Pieces == Transmissions \X (Nat \ {0})

LEMMA CountType ==
    ASSUME NEW t \in Transmissions
    PROVE  PacketCount(t) \in Nat \ {0} /\ (t \in Ci => PacketCount(t) > 1)
<1>1. Length[t] \in Nat \ {0} /\ Radix \in Nat \ {0} /\ (t \in Ci => Length[t] > Radix)
  BY AssemblyAssumption
<1>2. \A n \in Nat \ {0}, r \in Nat \ {0} :
        /\ (n + r - 1) \div r \in Nat \ {0}
        /\ n > r => (n + r - 1) \div r > 1
  BY SMT
<1> QED
  BY <1>1, <1>2 DEF PacketCount

\* The status of a packet tells its place.
LEMMA StatusPlace ==
    ASSUME NEW t \in Transmissions, NEW i \in 1 .. PacketCount(t)
    PROVE  /\ Status(t, i) \in {"complete", "start", "continue", "end"}
           /\ Status(t, i) = "complete" <=> PacketCount(t) = 1
           /\ Status(t, i) = "start" <=> PacketCount(t) > 1 /\ i = 1
           /\ Status(t, i) = "continue" <=> i > 1 /\ i < PacketCount(t)
           /\ Status(t, i) = "end" <=> i > 1 /\ i = PacketCount(t)
<1>1. PacketCount(t) \in Nat \ {0}
  BY CountType
<1>2. CASE PacketCount(t) = 1
  BY <1>1, <1>2 DEF Status
<1>3. CASE PacketCount(t) > 1 /\ i = 1
  BY <1>1, <1>3 DEF Status
<1>4. CASE i > 1 /\ i = PacketCount(t)
  BY <1>1, <1>4 DEF Status
<1>5. CASE i > 1 /\ i < PacketCount(t)
  BY <1>1, <1>5 DEF Status
<1> QED
  BY <1>1, <1>2, <1>3, <1>4, <1>5

LEMMA BegunType ==
    ASSUME NEW t \in Transmissions, NEW n \in Nat
    PROVE  /\ Begun(t, n) \in Seq(Pieces) /\ Len(Begun(t, n)) = n
           /\ Append(Begun(t, n), <<t, n + 1>>) = Begun(t, n + 1)
           /\ n > 0 => Head(Begun(t, n)) = <<t, 1>>
           /\ Begun(t, PacketCount(t)) = Packets(t)
<1>1. Begun(t, n) \in Seq(Pieces) /\ Len(Begun(t, n)) = n
  BY DEF Begun, Pieces
<1>2. Append(Begun(t, n), <<t, n + 1>>) = Begun(t, n + 1)
  BY DEF Begun
<1>3. n > 0 => Head(Begun(t, n)) = <<t, 1>>
  BY DEF Begun
<1> QED
  BY <1>1, <1>2, <1>3 DEF Begun, Packets

\* A packet put at the end of a buffer.
LEMMA AppendPiece ==
    ASSUME NEW s \in Seq(Pieces), NEW x \in Pieces
    PROVE  /\ Append(s, x) \in Seq(Pieces) /\ Append(s, x) # <<>>
           /\ Len(Append(s, x)) = Len(s) + 1
           /\ Append(s, x)[Len(Append(s, x))] = x
           /\ \A k \in 1 .. Len(s) : Append(s, x)[k] = s[k]
           /\ Head(Append(s, x)) = IF s = <<>> THEN x ELSE Head(s)
<1>1. /\ Append(s, x) \in Seq(Pieces)
      /\ Len(Append(s, x)) = Len(s) + 1 /\ Len(s) \in Nat
      /\ \A k \in 1 .. Len(s) : Append(s, x)[k] = s[k]
      /\ Append(s, x)[Len(s) + 1] = x
  OBVIOUS
<1>2. Head(Append(s, x)) = Append(s, x)[1] /\ (s # <<>> => Head(s) = s[1] /\ Len(s) > 0)
  OBVIOUS
<1>3. s = <<>> => Len(s) = 0
  OBVIOUS
<1>4. Append(s, x) # <<>>
  BY AppendProperties
<1> QED
  BY <1>1, <1>2, <1>3, <1>4

-----------------------------------------------------------------------------
\* What a buffer that begins like a MIDI-CI message belongs to.
Open == Underway \cup disturbed \cup cut

Answered(buffer, open) == IsCi(buffer) => Head(buffer)[1] \in open

\* Undisturbed MIDI-CI messages that have begun and not ended.
Growing == (Ci \cap Underway) \ disturbed

Grown(t) ==
    /\ session_buffer = Begun(t, arrived[t])
    /\ manager_buffer = Begun(t, arrived[t])
    /\ sysex_buffer = Begun(t, arrived[t])
    /\ sysex_in_progress

Buffers ==
    /\ Answered(session_buffer, Open) /\ Answered(manager_buffer, Open)
    /\ sysex_in_progress => Answered(sysex_buffer, Open)
    /\ \A t \in Growing : Grown(t)

\* While no more than Limit messages were sent none is forgotten before its
\* echo.
Remembered ==
    /\ IsFiniteSet(recentOutgoing) /\ Cardinality(recentOutgoing) <= Len(sent)
    /\ Len(sent) <= Limit =>
        \A t \in Own :
            /\ SentOnce(t) /\ arrived[t] < PacketCount(t)
            /\ \E k \in 1 .. Len(sent) : sent[k] = t
            => Content[t] \in recentOutgoing

Inductive ==
    TypeOK /\ Buffers /\ Remembered /\ HandedIsWhole /\ WholeIsHanded

-----------------------------------------------------------------------------
\* What the next packet of t does to the streams.
LEMMA PacketMoves ==
    ASSUME TypeOK, NEW t \in Transmissions, Packet(t)
    PROVE  /\ arrived[t] + 1 \in 1 .. PacketCount(t)
           /\ arrived' \in [Transmissions -> Nat]
           /\ \A u \in Transmissions :
                arrived'[u] = IF u = t THEN arrived[t] + 1 ELSE arrived[u]
           /\ cut' = cut /\ t \notin cut
           /\ disturbed' = disturbed \cup (Underway \ {t})
           /\ Open \subseteq Open' \cup {t}
           /\ t \in Underway' <=> arrived[t] + 1 < PacketCount(t)
           /\ t \in Underway <=> arrived[t] > 0
           /\ Growing' \ {t} = {}
           /\ t \in Growing <=> t \in Ci /\ t \notin disturbed /\ arrived[t] > 0
           /\ t \notin Underway \ {t}
<1> USE CountType
<1>1. /\ arrived[t] \in Nat /\ PacketCount(t) \in Nat
      /\ arrived[t] + 1 <= PacketCount(t)
  BY DEF Packet, TypeOK
<1>2. /\ arrived' \in [Transmissions -> Nat]
      /\ \A u \in Transmissions :
            arrived'[u] = IF u = t THEN arrived[t] + 1 ELSE arrived[u]
      /\ cut' = cut /\ t \notin cut
      /\ disturbed' = disturbed \cup (Underway \ {t})
  BY <1>1 DEF Packet, TypeOK
<1>3. /\ t \in Underway' <=> arrived[t] + 1 < PacketCount(t)
      /\ t \in Underway <=> arrived[t] > 0
      /\ Underway' \ {t} = Underway \ {t}
  BY <1>1, <1>2 DEF Underway, PacketCount
<1> QED
  BY <1>1, <1>2, <1>3 DEF Open, Growing

\* A buffer that held the begun part of t, or something to be answered for,
\* does so after the next packet; and what it hands over is whole or not to be
\* trusted.
LEMMA BufferStep ==
    ASSUME TypeOK, NEW t \in Transmissions, Packet(t),
           NEW buffer \in Seq(Pieces), Answered(buffer, Open),
           t \in Growing => buffer = Begun(t, arrived[t]),
           NEW i, i = arrived[t] + 1,
           NEW new, new = Gathered(buffer, t, i)
    PROVE  /\ new \in Seq(Pieces) /\ new # <<>> /\ new[Len(new)] = <<t, i>>
           /\ ~Ends(new, t, i) => Answered(new, Open')
           /\ t \in Growing' => new = Begun(t, i) /\ ~Ends(new, t, i)
           /\ Ends(new, t, i) => \/ Head(new)[1] \in disturbed' \cup cut'
                                 \/ Head(new)[1] = t /\ new = Packets(t)
           /\ t \in Ci \ disturbed /\ i = PacketCount(t) =>
                Ends(new, t, i) /\ new = Packets(t)
<1>1. i \in 1 .. PacketCount(t) /\ PacketCount(t) \in Nat \ {0} /\ i \in Nat \ {0}
  BY PacketMoves, CountType
<1>2. <<t, i>> \in Pieces
  BY <1>1 DEF Pieces
<1>3. CASE i = 1 /\ PacketCount(t) > 1
  <2>1. Status(t, i) = "start"
    BY <1>1, <1>3, StatusPlace
  <2>2. new = <<<<t, 1>>>> /\ new = Begun(t, 1)
    BY <2>1, <1>3 DEF Gathered, Begun
  <2>3. ~Ends(new, t, i) /\ t \in Open'
    BY <2>1, <1>1, <1>3, PacketMoves DEF Ends, Open
  <2>4. new = Append(<<>>, <<t, i>>)
    BY <2>2, <1>3
  <2>5. /\ new \in Seq(Pieces) /\ new # <<>> /\ new[Len(new)] = <<t, i>>
        /\ Head(new) = <<t, i>>
    <3>1. <<>> \in Seq(Pieces)
      OBVIOUS
    <3> QED
      BY <2>4, <3>1, <1>2, AppendPiece
  <2> QED
    BY <2>2, <2>3, <2>5, <1>3 DEF Answered
<1>4. CASE ~(i = 1 /\ PacketCount(t) > 1)
  <2>1. Status(t, i) # "start"
    BY <1>1, <1>4, StatusPlace
  <2>2. new = Append(buffer, <<t, i>>)
    BY <2>1 DEF Gathered
  <2>3. new \in Seq(Pieces) /\ new # <<>> /\ new[Len(new)] = <<t, i>>
    <3>1. /\ Append(buffer, <<t, i>>) \in Seq(Pieces)
          /\ Append(buffer, <<t, i>>) # <<>>
          /\ Append(buffer, <<t, i>>)[Len(Append(buffer, <<t, i>>))] = <<t, i>>
      BY <1>2, AppendPiece, Zenon
    <3> QED
      BY <2>2, <3>1, Zenon
  <2>4. ASSUME t \in Ci PROVE i > 1
    BY <2>4, <1>1, <1>4, CountType
  <2>5. ASSUME IsCi(new)
        PROVE  buffer # <<>> /\ Head(new) = Head(buffer) /\ Head(new)[1] \in Open
    <3>1. CASE buffer = <<>>
      <4>1. Head(new) = <<t, i>>
        BY <3>1, <2>2, <1>2, AppendPiece
      <4> QED
        BY <4>1, <2>4, <2>5 DEF IsCi
    <3>2. CASE buffer # <<>>
      <4>1. Head(new) = Head(buffer)
        BY <3>2, <2>2, <1>2, AppendPiece
      <4> QED
        BY <4>1, <3>2, <2>5 DEF IsCi, Answered
    <3> QED
      BY <3>1, <3>2
  <2>6. ASSUME t \in Ci \ disturbed
        PROVE  new = Begun(t, i) /\ IsCi(new)
    <3>1. arrived[t] \in Nat /\ arrived[t] > 0 /\ t \in Growing
      BY <2>4, <2>6, PacketMoves DEF TypeOK
    <3>2. new = Begun(t, i)
      BY <3>1, <2>2, BegunType
    <3>3. Head(new) = <<t, 1>>
      <4>1. i \in Nat /\ i > 0
        BY <1>1
      <4>2. Head(Begun(t, i)) = <<t, 1>>
        BY <4>1, BegunType
      <4> QED
        BY <3>2, <4>2
    <3> QED
      BY <3>2, <3>3, <2>3, <2>6 DEF IsCi
  <2>7. ASSUME IsCi(new), Head(new)[1] = t
        PROVE  t \in disturbed \/ (t \in Underway /\ new = Begun(t, i))
    <3>1. t \in Open /\ t \notin cut
      BY <2>5, <2>7, PacketMoves
    <3> QED
      BY <3>1, <2>6, <2>7 DEF Open, IsCi
  <2>8. ASSUME ~Ends(new, t, i) PROVE Answered(new, Open')
    <3> SUFFICES ASSUME IsCi(new) PROVE Head(new)[1] \in Open'
      BY DEF Answered
    <3>1. Head(new)[1] \in Open
      BY <2>5
    <3>2. CASE Head(new)[1] = t /\ t \notin disturbed
      <4>1. i > 1
        BY <3>2, <2>4 DEF IsCi
      <4>2. i # PacketCount(t)
        BY <4>1, <2>8, <1>1, StatusPlace DEF Ends
      <4> QED
        BY <4>2, <3>2, <1>1, PacketMoves DEF Open
    <3> QED
      BY <3>1, <3>2, PacketMoves DEF Open
  <2>9. ASSUME Ends(new, t, i)
        PROVE  \/ Head(new)[1] \in disturbed' \cup cut'
               \/ Head(new)[1] = t /\ new = Packets(t)
    <3>1. IsCi(new) /\ i = PacketCount(t)
      BY <2>9, <1>1, <1>4, StatusPlace DEF Ends
    <3>2. Head(new)[1] \in Open
      BY <3>1, <2>5
    <3>3. CASE Head(new)[1] # t
      BY <3>2, <3>3, PacketMoves DEF Open
    <3>4. CASE Head(new)[1] = t
      <4>1. t \in disturbed \/ new = Begun(t, PacketCount(t))
        BY <3>1, <3>4, <2>7
      <4>2. Begun(t, PacketCount(t)) = Packets(t)
        BY <1>1, BegunType
      <4> QED
        BY <4>1, <4>2, <3>4, PacketMoves
    <3> QED
      BY <3>3, <3>4
  <2>10. ASSUME t \in Growing' PROVE new = Begun(t, i) /\ ~Ends(new, t, i)
    <3>1. t \in Ci \ disturbed /\ i < PacketCount(t)
      BY <2>10, PacketMoves DEF Growing
    <3>2. Status(t, i) = "continue"
      BY <3>1, <2>4, <1>1, StatusPlace
    <3> QED
      BY <3>1, <3>2, <2>6 DEF Ends
  <2>11. ASSUME t \in Ci \ disturbed, i = PacketCount(t)
         PROVE  Ends(new, t, i) /\ new = Packets(t)
    <3>1. Status(t, i) = "end"
      BY <2>4, <2>11, <1>1, StatusPlace
    <3> QED
      BY <3>1, <2>6, <2>11, BegunType, CountType DEF Ends
  <2> QED
    BY <2>3, <2>8, <2>9, <2>10, <2>11
<1> QED
  BY <1>1, <1>3, <1>4

\* Invariant parts are about the buffers that TypeOK describes.
LEMMA BufferTypes ==
    ASSUME TypeOK
    PROVE  /\ session_buffer \in Seq(Pieces) /\ manager_buffer \in Seq(Pieces)
           /\ sysex_buffer \in Seq(Pieces)
  BY DEF TypeOK, Pieces

\* What the tooling makes of a packet.
LEMMA ToolStep ==
    ASSUME TypeOK, Buffers, NEW t \in Transmissions, Packet(t)
    PROVE  /\ session_buffer' \in Seq(Pieces) /\ manager_buffer' \in Seq(Pieces)
           /\ Answered(session_buffer', Open') /\ Answered(manager_buffer', Open')
           /\ t \in Growing' => /\ session_buffer' = Begun(t, arrived'[t])
                                /\ manager_buffer' = Begun(t, arrived'[t])
           /\ processed \subseteq processed'
           /\ \A p \in processed' \ processed :
                \E buffer \in Seq(Pieces) :
                    /\ p[2] = HandedOver(buffer, t) /\ IsCi(buffer)
                    /\ \/ Head(buffer)[1] \in disturbed' \cup cut'
                       \/ Head(buffer)[1] = t /\ buffer = Packets(t)
           /\ t \in Ci \ disturbed /\ arrived'[t] = PacketCount(t) =>
                \A by \in {"session", "manager"} :
                    <<by, HandedOver(Packets(t), t)>> \in processed'
<1> DEFINE i == arrived[t] + 1
           inSession == Gathered(session_buffer, t, i)
           inManager == Gathered(manager_buffer, t, i)
<1>1. /\ session_buffer \in Seq(Pieces) /\ Answered(session_buffer, Open)
      /\ manager_buffer \in Seq(Pieces) /\ Answered(manager_buffer, Open)
      /\ t \in Growing => /\ session_buffer = Begun(t, arrived[t])
                          /\ manager_buffer = Begun(t, arrived[t])
  BY BufferTypes DEF Buffers, Grown
<1>2. /\ session_buffer' = Kept(inSession, t, i)
      /\ manager_buffer' = Kept(inManager, t, i)
      /\ processed' = processed \cup Given("session", inSession, t, i)
                                \cup Given("manager", inManager, t, i)
  BY DEF Packet, ToolReceives
<1>3. arrived'[t] = i
  BY PacketMoves
<1> HIDE DEF inSession, inManager, i
<1>4. /\ inSession \in Seq(Pieces)
      /\ ~Ends(inSession, t, i) => Answered(inSession, Open')
      /\ t \in Growing' => inSession = Begun(t, i) /\ ~Ends(inSession, t, i)
      /\ Ends(inSession, t, i) =>
            \/ Head(inSession)[1] \in disturbed' \cup cut'
            \/ Head(inSession)[1] = t /\ inSession = Packets(t)
      /\ t \in Ci \ disturbed /\ i = PacketCount(t) =>
            Ends(inSession, t, i) /\ inSession = Packets(t)
  BY <1>1, BufferStep DEF inSession, i
<1>5. /\ inManager \in Seq(Pieces)
      /\ ~Ends(inManager, t, i) => Answered(inManager, Open')
      /\ t \in Growing' => inManager = Begun(t, i) /\ ~Ends(inManager, t, i)
      /\ Ends(inManager, t, i) =>
            \/ Head(inManager)[1] \in disturbed' \cup cut'
            \/ Head(inManager)[1] = t /\ inManager = Packets(t)
      /\ t \in Ci \ disturbed /\ i = PacketCount(t) =>
            Ends(inManager, t, i) /\ inManager = Packets(t)
  BY <1>1, BufferStep DEF inManager, i
<1>6. \A buffer : ~IsCi(<<>>) /\ (Ends(buffer, t, i) => IsCi(buffer))
  BY DEF IsCi, Ends
<1>7. /\ session_buffer' \in Seq(Pieces) /\ Answered(session_buffer', Open')
      /\ t \in Growing' => session_buffer' = Begun(t, i)
  <2>1. CASE Ends(inSession, t, i)
    BY <2>1, <1>2, <1>4, <1>6 DEF Kept, Answered
  <2>2. CASE ~Ends(inSession, t, i)
    BY <2>2, <1>2, <1>4 DEF Kept
  <2> QED
    BY <2>1, <2>2
<1>8. /\ manager_buffer' \in Seq(Pieces) /\ Answered(manager_buffer', Open')
      /\ t \in Growing' => manager_buffer' = Begun(t, i)
  <2>1. CASE Ends(inManager, t, i)
    BY <2>1, <1>2, <1>5, <1>6 DEF Kept, Answered
  <2>2. CASE ~Ends(inManager, t, i)
    BY <2>2, <1>2, <1>5 DEF Kept
  <2> QED
    BY <2>1, <2>2
<1>9. ASSUME NEW p \in processed' \ processed
      PROVE  \E buffer \in Seq(Pieces) :
                /\ p[2] = HandedOver(buffer, t) /\ IsCi(buffer)
                /\ \/ Head(buffer)[1] \in disturbed' \cup cut'
                   \/ Head(buffer)[1] = t /\ buffer = Packets(t)
  <2>1. \/ Ends(inSession, t, i) /\ p = <<"session", HandedOver(inSession, t)>>
        \/ Ends(inManager, t, i) /\ p = <<"manager", HandedOver(inManager, t)>>
    BY <1>2, <1>9 DEF Given
  <2>2. CASE Ends(inSession, t, i) /\ p = <<"session", HandedOver(inSession, t)>>
    BY <2>2, <1>4, <1>6
  <2>3. CASE Ends(inManager, t, i) /\ p = <<"manager", HandedOver(inManager, t)>>
    BY <2>3, <1>5, <1>6
  <2> QED
    BY <2>1, <2>2, <2>3
<1>10. ASSUME t \in Ci \ disturbed, i = PacketCount(t)
       PROVE  \A by \in {"session", "manager"} :
                <<by, HandedOver(Packets(t), t)>> \in processed'
  BY <1>2, <1>4, <1>5, <1>10 DEF Given
<1> QED
  BY <1>2, <1>3, <1>7, <1>8, <1>9, <1>10

-----------------------------------------------------------------------------
\* What ends with a packet of t and is taken for an echo of u, which was sent
\* once, is from t = u.
LEMMA EchoIsWhole ==
    ASSUME NEW t \in Transmissions, Packet(t),
           NEW buffer \in Seq(Pieces), buffer # <<>>,
           buffer[Len(buffer)] = <<t, arrived[t] + 1>>,
           IsEcho(buffer),
           NEW u \in Own, SentOnce(u), \E k \in 1 .. Len(sent) : sent[k] = u,
           Content[Head(buffer)[1]] = Content[u]
    PROVE  t = u
<1>1. PICK o \in Own : Bytes(buffer) = Bytes(Packets(o))
  BY DEF IsEcho
<1>2. o \in Transmissions /\ Own \subseteq Transmissions /\ Content \in [Transmissions -> Nat]
  BY AssemblyAssumption
<1>3. PacketCount(o) \in Nat \ {0}
  BY <1>2, CountType
<1>4. Len(Packets(o)) = PacketCount(o)
  BY <1>3 DEF Packets
<1>5. Len(buffer) \in Nat \ {0} /\ \A k \in 1 .. Len(buffer) : buffer[k] \in Pieces
  BY EmptySeq, LenProperties, ElementOfSeq
<1>6. /\ Len(buffer) = PacketCount(o)
      /\ \A k \in 1 .. Len(buffer) : /\ Content[buffer[k][1]] = Content[o]
                                     /\ buffer[k][2] = k
  <2>1. DOMAIN Bytes(buffer) = 1 .. Len(buffer)
        /\ DOMAIN Bytes(Packets(o)) = 1 .. PacketCount(o)
    BY <1>4 DEF Bytes
  <2>2. 1 .. Len(buffer) = 1 .. PacketCount(o)
    BY <2>1, <1>1
  <2>3. Len(buffer) = PacketCount(o)
    BY <2>2, <1>3, <1>5
  <2>4. ASSUME NEW k \in 1 .. Len(buffer)
        PROVE  <<Content[buffer[k][1]], buffer[k][2]>> = <<Content[o], k>>
    <3>1. Bytes(buffer)[k] = <<Content[buffer[k][1]], buffer[k][2]>>
      BY DEF Bytes
    <3>2. Packets(o)[k] = <<o, k>>
      BY <2>3 DEF Packets
    <3>3. Bytes(Packets(o))[k] = <<Content[o], k>>
      BY <3>2, <2>3, <1>4 DEF Bytes
    <3> QED
      BY <3>1, <3>3, <1>1
  <2> QED
    BY <2>3, <2>4
<1>7. Content[o] = Content[u]
  <2>1. Head(buffer) = buffer[1] /\ 1 \in 1 .. Len(buffer)
    BY <1>5
  <2> QED
    BY <2>1, <1>6
<1>8. Content[t] = Content[u]
  <2>1. Len(buffer) \in 1 .. Len(buffer)
    BY <1>5
  <2> QED
    BY <2>1, <1>6, <1>7
<1>9. t \in Own
  BY <1>8, SourceAssumption
<1> QED
  <2>1. PICK j \in 1 .. Len(sent) : sent[j] = t
    BY <1>9 DEF Packet
  <2>2. PICK k \in 1 .. Len(sent) : sent[k] = u
    OBVIOUS
  <2>3. Content[sent[j]] = Content[u] /\ Content[sent[k]] = Content[u]
    BY <2>1, <2>2, <1>8
  <2> QED
    BY <2>1, <2>2, <2>3 DEF SentOnce

\* What the keyboard makes of a packet: new is what its buffer would hold.
LEMMA KeyboardStep ==
    ASSUME TypeOK, Buffers, NEW t \in Transmissions, Packet(t)
    PROVE  /\ sysex_buffer' \in Seq(Pieces) /\ sysex_in_progress' \in BOOLEAN
           /\ sysex_in_progress' =>
                /\ Answered(sysex_buffer', Open')
                /\ sysex_buffer'[Len(sysex_buffer')] = <<t, arrived'[t]>>
                   /\ Status(t, arrived'[t]) \in {"start", "continue"}
           /\ t \in Growing' =>
                sysex_buffer' = Begun(t, arrived'[t]) /\ sysex_in_progress'
           /\ \/ UNCHANGED <<recentOutgoing, accepted>>
                 /\ ~(t \in Ci \ disturbed /\ arrived'[t] = PacketCount(t))
              \/ /\ KeyboardCompletes(sysex_buffer', t)
                 /\ sysex_buffer' # <<>>
                 /\ sysex_buffer'[Len(sysex_buffer')] = <<t, arrived[t] + 1>>
                 /\ arrived'[t] = PacketCount(t)
                 /\ IsCi(sysex_buffer') =>
                        \/ Head(sysex_buffer')[1] \in disturbed' \cup cut'
                        \/ Head(sysex_buffer')[1] = t /\ sysex_buffer' = Packets(t)
                 /\ t \in Ci \ disturbed =>
                        IsCi(sysex_buffer') /\ sysex_buffer' = Packets(t)
<1> DEFINE i == arrived[t] + 1
           new == Gathered(sysex_buffer, t, i)
<1>1. /\ i \in 1 .. PacketCount(t) /\ i \in Nat \ {0} /\ <<t, i>> \in Pieces
      /\ arrived'[t] = i
  BY PacketMoves, CountType DEF Pieces
<1>2. KeyboardReceives(t, i)
  BY DEF Packet
<1>3. sysex_buffer \in Seq(Pieces) /\ sysex_in_progress \in BOOLEAN
  BY BufferTypes DEF TypeOK
<1>4. t \in Growing =>
        sysex_buffer = Begun(t, arrived[t]) /\ sysex_in_progress
  BY DEF Buffers, Grown
<1>5. /\ t \in Growing <=> t \in Ci /\ t \notin disturbed /\ arrived[t] > 0
      /\ t \in Growing' => t \in Ci /\ t \notin disturbed /\ i < PacketCount(t)
      /\ t \in Ci => PacketCount(t) > 1
      /\ PacketCount(t) \in Nat /\ arrived[t] \in Nat
  BY PacketMoves, CountType DEF Growing, TypeOK
<1> HIDE DEF i
<1>6. CASE Status(t, i) = "complete"
  <2>1. i = 1 /\ i = PacketCount(t) /\ t \notin Ci
    BY <1>1, <1>5, <1>6, StatusPlace
  <2>2. KeyboardCompletes(<<<<t, i>>>>, t)
    BY <1>2, <1>6, <1>1, StatusPlace DEF KeyboardReceives
  <2>3. /\ sysex_buffer' = <<<<t, i>>>> /\ ~sysex_in_progress'
        /\ sysex_in_progress' \in BOOLEAN
    BY <2>2 DEF KeyboardCompletes
  <2>4. /\ <<<<t, i>>>> \in Seq(Pieces) /\ Len(<<<<t, i>>>>) = 1
        /\ <<<<t, i>>>> # <<>> /\ Head(<<<<t, i>>>>) = <<t, i>>
    BY <1>1
  <2>5. ~IsCi(sysex_buffer')
    BY <2>1, <2>3, <2>4 DEF IsCi
  <2>6. sysex_buffer'[Len(sysex_buffer')] = <<t, i>>
    BY <2>3
  <2> QED
    BY <1>1, <1>5, <2>1, <2>2, <2>3, <2>4, <2>5, <2>6 DEF i
<1>7. CASE Status(t, i) = "start"
  <2>1. i = 1 /\ 1 < PacketCount(t)
    BY <1>1, <1>7, StatusPlace
  <2>2. KeyboardStarts(t, i)
    BY <1>2, <1>7, <1>1, StatusPlace DEF KeyboardReceives
  <2>3. sysex_buffer' = <<<<t, i>>>> /\ sysex_in_progress'
        /\ sysex_in_progress' \in BOOLEAN
    BY <2>2 DEF KeyboardStarts
  <2>4. /\ <<<<t, i>>>> \in Seq(Pieces) /\ Len(<<<<t, i>>>>) = 1
        /\ Head(<<<<t, i>>>>) = <<t, i>>
    BY <1>1
  <2>5. Answered(sysex_buffer', Open')
    BY <1>1, <2>1, <2>3, <2>4, PacketMoves DEF Answered, Open, i
  <2>6. <<<<t, i>>>> = Begun(t, i)
    BY <2>1 DEF Begun
  <2>7. sysex_buffer'[Len(sysex_buffer')] = <<t, i>>
    BY <2>3
  <2> QED
    BY <1>1, <1>5, <1>7, <2>1, <2>2, <2>3, <2>4, <2>5, <2>6, <2>7 DEF KeyboardStarts
<1>8. CASE Status(t, i) \in {"continue", "end"} /\ ~sysex_in_progress
  <2>1. i > 1 /\ UNCHANGED keyboard
    <3>1. KeyboardGathers(t, i)
      BY <1>2, <1>8, <1>1, StatusPlace DEF KeyboardReceives
    <3> QED
      BY <3>1, <1>1, <1>8, StatusPlace DEF KeyboardGathers
  <2>2. ~(t \in Ci \ disturbed)
    BY <2>1, <1>4, <1>5, <1>8 DEF i
  <2> QED
    BY <2>1, <2>2, <1>3, <1>5, <1>8 DEF keyboard
<1>9. CASE Status(t, i) \in {"continue", "end"} /\ sysex_in_progress
  <2> HIDE DEF new
  <2>1. /\ new \in Seq(Pieces) /\ new # <<>> /\ new[Len(new)] = <<t, i>>
        /\ ~Ends(new, t, i) => Answered(new, Open')
        /\ t \in Growing' => new = Begun(t, i) /\ ~Ends(new, t, i)
        /\ Ends(new, t, i) => \/ Head(new)[1] \in disturbed' \cup cut'
                              \/ Head(new)[1] = t /\ new = Packets(t)
        /\ t \in Ci \ disturbed /\ i = PacketCount(t) =>
                Ends(new, t, i) /\ new = Packets(t)
    <3>1. Answered(sysex_buffer, Open)
      BY <1>9 DEF Buffers
    <3>2. i = arrived[t] + 1 /\ new = Gathered(sysex_buffer, t, i)
      BY DEF new, i
    <3> QED
      BY <3>1, <3>2, <1>3, <1>4, BufferStep, ZenonT(40)
  <2>2. new = Append(sysex_buffer, <<t, i>>)
    BY <1>9 DEF Gathered, new
  <2>3. KeyboardGathers(t, i)
    BY <1>2, <1>9, <1>1, StatusPlace DEF KeyboardReceives
  <2>4. CASE Status(t, i) = "continue"
    <3>1. /\ sysex_buffer' = new
          /\ UNCHANGED <<sysex_in_progress, recentOutgoing, accepted>>
      BY <2>2, <2>3, <2>4, <1>9 DEF KeyboardGathers
    <3>2. ~Ends(new, t, i) /\ i < PacketCount(t)
      BY <2>4, <1>1, StatusPlace DEF Ends
    <3> QED
      BY <3>1, <3>2, <2>1, <2>4, <1>1, <1>3, <1>5, <1>9
  <2>5. CASE Status(t, i) = "end"
    <3>1. KeyboardCompletes(new, t)
      BY <2>2, <2>3, <2>5, <1>9 DEF KeyboardGathers
    <3>2. /\ sysex_buffer' = new /\ ~sysex_in_progress'
          /\ sysex_in_progress' \in BOOLEAN
      BY <3>1 DEF KeyboardCompletes
    <3>3. i = PacketCount(t) /\ (IsCi(new) <=> Ends(new, t, i))
      BY <2>5, <1>1, StatusPlace DEF Ends
    <3> QED
      BY <3>1, <3>2, <3>3, <2>1, <1>1, <1>5 DEF i
  <2> QED
    BY <2>4, <2>5, <1>9
<1> QED
  BY <1>1, <1>3, <1>6, <1>7, <1>8, <1>9, StatusPlace

-----------------------------------------------------------------------------
LEMMA LeastExists ==
    ASSUME NEW S \in SUBSET Nat, S # {}
    PROVE  \E c \in S : \A d \in S : c <= d
<1>1. PICK c \in S : \A d \in S : <<d, c>> \notin OpToRel(<, Nat)
  BY NatLessThanWellFounded, WFMin
<1>2. ASSUME NEW d \in S PROVE c <= d
  <2>1. ~(d < c)
    BY <1>1 DEF OpToRel
  <2> QED
    BY <2>1
<1> QED
  BY <1>2

\* Trimming takes away at most one, and enough.
LEMMA TrimmedSize ==
    ASSUME NEW S \in SUBSET Nat, IsFiniteSet(S), NEW c \in Nat,
           Cardinality(S) <= Limit
    PROVE  /\ Trimmed(S \cup {c}) \subseteq S \cup {c}
           /\ IsFiniteSet(Trimmed(S \cup {c}))
           /\ Cardinality(Trimmed(S \cup {c})) <= Limit
           /\ Cardinality(Trimmed(S \cup {c})) <= Cardinality(S) + 1
           /\ Cardinality(S) < Limit => Trimmed(S \cup {c}) = S \cup {c}
<1> DEFINE R == S \cup {c}
           T == Trimmed(R)
<1>1. /\ IsFiniteSet(R) /\ Cardinality(R) \in Nat /\ Cardinality(S) \in Nat
      /\ Cardinality(R) <= Cardinality(S) + 1 /\ Limit \in Nat
  <2>1. /\ IsFiniteSet(R)
        /\ Cardinality(R) = IF c \in S THEN Cardinality(S) ELSE Cardinality(S) + 1
    BY FS_AddElement
  <2>2. Cardinality(S) \in Nat /\ Limit \in Nat
    BY FS_CardinalityType, AssemblyAssumption
  <2> QED
    BY <2>1, <2>2
<1>2. CASE Cardinality(R) <= Limit
  BY <1>1, <1>2 DEF Trimmed
<1>3. CASE Cardinality(R) > Limit
  <2>1. PICK m \in R : \A d \in R : m <= d
    BY LeastExists
  <2>2. T = {e \in R : \E d \in R : d < e}
    BY <1>1, <1>3 DEF Trimmed
  <2>3. T \subseteq R \ {m}
    BY <2>1, <2>2
  <2>4. IsFiniteSet(R \ {m}) /\ Cardinality(R \ {m}) = Cardinality(R) - 1
    BY <1>1, <2>1, FS_RemoveElement
  <2>5. IsFiniteSet(T) /\ Cardinality(T) <= Cardinality(R \ {m})
    BY <2>3, <2>4, FS_Subset
  <2>6. Cardinality(T) \in Nat
    BY <2>5, FS_CardinalityType
  <2> QED
    <3> HIDE DEF T
    <3>1. /\ T \subseteq R /\ IsFiniteSet(T) /\ Cardinality(T) <= Limit
          /\ Cardinality(T) <= Cardinality(S) + 1 /\ ~(Cardinality(S) < Limit)
      BY <1>1, <1>3, <2>3, <2>4, <2>5, <2>6
    <3> QED
      BY <3>1 DEF T
<1> QED
  BY <1>2, <1>3, <1>1

\* What was handed over is made of packets, and from a stream.
LEMMA HandedTypes ==
    ASSUME TypeOK, NEW h \in AllHanded
    PROVE  h.what \in Seq(Pieces) /\ h.stream \in Streams
  BY DEF TypeOK, Pieces

LEMMA TypeStep ==
    ASSUME TypeOK, Buffers, IsFiniteSet(recentOutgoing), [Next]_vars
    PROVE  TypeOK' /\ IsFiniteSet(recentOutgoing')
<1>1. ASSUME NEW t \in Transmissions, Packet(t)
      PROVE  TypeOK' /\ IsFiniteSet(recentOutgoing')
  <2>1. /\ arrived' \in [Transmissions -> Nat]
        /\ \A u \in Transmissions : arrived'[u] <= PacketCount(u)
    <3>1. /\ arrived' \in [Transmissions -> Nat]
          /\ \A u \in Transmissions :
                arrived'[u] = IF u = t THEN arrived[t] + 1 ELSE arrived[u]
          /\ arrived[t] + 1 <= PacketCount(t)
          /\ \A u \in Transmissions : arrived[u] <= PacketCount(u)
      BY <1>1, PacketMoves, CountType DEF TypeOK
    <3> QED
      BY <3>1
  <2>2. cut' \subseteq Transmissions /\ disturbed' \subseteq Transmissions
    BY <1>1, PacketMoves DEF TypeOK, Underway
  <2>3. /\ session_buffer' \in Seq(Pieces) /\ manager_buffer' \in Seq(Pieces)
        /\ sysex_buffer' \in Seq(Pieces) /\ sysex_in_progress' \in BOOLEAN
    BY <1>1, ToolStep, KeyboardStep
  <2>4. sysex_in_progress' =>
            LET last == sysex_buffer'[Len(sysex_buffer')]
            IN  Status(last[1], last[2]) \in {"start", "continue"}
    BY <1>1, KeyboardStep
  <2>5. recentOutgoing' \subseteq recentOutgoing
    <3>1. KeyboardCompletes(sysex_buffer', t) => recentOutgoing' \subseteq recentOutgoing
      BY DEF KeyboardCompletes
    <3> QED
      BY <1>1, <3>1, KeyboardStep
  <2>6. /\ recentOutgoing' \subseteq {Content[u] : u \in Own}
        /\ IsFiniteSet(recentOutgoing') /\ Cardinality(recentOutgoing') <= Limit
    <3>1. IsFiniteSet(recentOutgoing')
          /\ Cardinality(recentOutgoing') <= Cardinality(recentOutgoing)
      BY <2>5, FS_Subset
    <3>2. /\ Cardinality(recentOutgoing') \in Nat /\ Cardinality(recentOutgoing) \in Nat
          /\ Limit \in Nat
      BY <3>1, FS_CardinalityType, AssemblyAssumption
    <3> QED
      BY <2>5, <3>1, <3>2 DEF TypeOK
  <2>7. ASSUME NEW h \in AllHanded'
        PROVE  h.what \in Seq(Pieces) /\ h.stream \in Streams
    <3>1. \/ h \in AllHanded
          \/ h \in accepted' \ accepted
          \/ \E p \in processed' \ processed : h = p[2]
      BY DEF AllHanded
    <3>2. ASSUME NEW buffer \in Seq(Pieces), h = HandedOver(buffer, t)
          PROVE  h.what \in Seq(Pieces) /\ h.stream \in Streams
      BY <3>2, AssemblyAssumption DEF HandedOver
    <3>3. CASE h \in accepted' \ accepted
      <4>1. h = HandedOver(sysex_buffer', t)
        BY <1>1, <3>3, KeyboardStep DEF KeyboardCompletes
      <4> QED
        BY <4>1, <2>3, <3>2
    <3>4. CASE \E p \in processed' \ processed : h = p[2]
      <4>1. PICK q \in processed' \ processed : h = q[2]
        BY <3>4
      <4>2. PICK buffer \in Seq(Pieces) : q[2] = HandedOver(buffer, t)
        BY <1>1, <4>1, ToolStep
      <4> QED
        BY <3>2, <4>1, <4>2
    <3> QED
      BY <3>1, <3>3, <3>4, HandedTypes
  <2>8. sent' \in Seq(Own)
    BY <1>1 DEF Packet, TypeOK
  <2> QED
    BY <2>1, <2>2, <2>3, <2>4, <2>6, <2>7, <2>8 DEF TypeOK, Pieces
<1>2. ASSUME NEW t \in Transmissions, Cut(t)
      PROVE  TypeOK' /\ IsFiniteSet(recentOutgoing')
  BY <1>2 DEF Cut, TypeOK, tool, keyboard, AllHanded
<1>3. ASSUME NEW t \in Transmissions, Send(t)
      PROVE  TypeOK' /\ IsFiniteSet(recentOutgoing')
  <2>1. /\ recentOutgoing \in SUBSET Nat /\ Content[t] \in Nat
        /\ Cardinality(recentOutgoing) <= Limit
    BY AssemblyAssumption DEF TypeOK
  <2>2. /\ recentOutgoing' \subseteq recentOutgoing \cup {Content[t]}
        /\ IsFiniteSet(recentOutgoing') /\ Cardinality(recentOutgoing') <= Limit
    BY <1>3, <2>1, TrimmedSize DEF Send
  <2>3. t \in Own /\ sent \in Seq(Own) /\ sent' = Append(sent, t)
    BY <1>3 DEF Send, TypeOK
  <2>4. recentOutgoing' \subseteq {Content[u] : u \in Own}
    BY <2>2, <2>3 DEF TypeOK
  <2>5. sent' \in Seq(Own)
    BY <2>3
  <2> QED
    BY <1>3, <2>2, <2>4, <2>5 DEF Send, TypeOK, streams, tool, AllHanded
<1>4. CASE UNCHANGED vars
  BY <1>4 DEF vars, streams, tool, keyboard, TypeOK, AllHanded
<1> QED
  BY <1>1, <1>2, <1>3, <1>4 DEF Next

LEMMA BuffersStep ==
    ASSUME TypeOK, Buffers, [Next]_vars PROVE Buffers'
<1>1. ASSUME NEW t \in Transmissions, Packet(t) PROVE Buffers'
  <2>1. /\ Answered(session_buffer', Open') /\ Answered(manager_buffer', Open')
        /\ sysex_in_progress' => Answered(sysex_buffer', Open')
    BY <1>1, ToolStep, KeyboardStep
  <2>2. ASSUME NEW u \in Growing' PROVE Grown(u)'
    <3>1. u = t
      BY <1>1, <2>2, PacketMoves
    <3> QED
      BY <1>1, <2>2, <3>1, ToolStep, KeyboardStep DEF Grown
  <2> QED
    BY <2>1, <2>2 DEF Buffers
<1>2. ASSUME NEW t \in Transmissions, Cut(t) PROVE Buffers'
  <2>1. /\ UNCHANGED <<arrived, disturbed, session_buffer, manager_buffer,
                       sysex_buffer, sysex_in_progress>>
        /\ cut' = cut \cup {t}
    BY <1>2 DEF Cut, tool, keyboard
  <2>2. Open \subseteq Open' /\ Growing' \subseteq Growing
    BY <2>1 DEF Open, Growing, Underway
  <2> QED
    BY <2>1, <2>2 DEF Buffers, Grown, Answered
<1>3. ASSUME NEW t \in Transmissions, Send(t) PROVE Buffers'
  BY <1>3 DEF Send, streams, tool, Buffers, Grown, Answered, Open, Growing, Underway
<1>4. CASE UNCHANGED vars
  BY <1>4 DEF vars, streams, tool, keyboard, Buffers, Grown, Answered, Open,
              Growing, Underway
<1> QED
  BY <1>1, <1>2, <1>3, <1>4 DEF Next

-----------------------------------------------------------------------------
LEMMA HandedStep ==
    ASSUME TypeOK, Buffers, HandedIsWhole, [Next]_vars PROVE HandedIsWhole'
<1> SUFFICES ASSUME NEW h \in AllHanded'
             PROVE  /\ IsCi(h.what)
                    /\ \/ Head(h.what)[1] \in disturbed' \cup cut'
                       \/ h = HandedOver(Packets(Head(h.what)[1]), Head(h.what)[1])
  BY DEF HandedIsWhole
<1>1. CASE h \in AllHanded /\ disturbed \subseteq disturbed' /\ cut \subseteq cut'
  BY <1>1 DEF HandedIsWhole
<1>2. ASSUME NEW t \in Transmissions, Packet(t), h \notin AllHanded
      PROVE  /\ IsCi(h.what)
             /\ \/ Head(h.what)[1] \in disturbed' \cup cut'
                \/ h = HandedOver(Packets(Head(h.what)[1]), Head(h.what)[1])
  <2>1. \/ h \in accepted' \ accepted
        \/ \E p \in processed' \ processed : h = p[2]
    BY <1>2 DEF AllHanded
  <2>2. ASSUME NEW buffer, h = HandedOver(buffer, t), IsCi(buffer),
               \/ Head(buffer)[1] \in disturbed' \cup cut'
               \/ Head(buffer)[1] = t /\ buffer = Packets(t)
        PROVE  /\ IsCi(h.what)
               /\ \/ Head(h.what)[1] \in disturbed' \cup cut'
                  \/ h = HandedOver(Packets(Head(h.what)[1]), Head(h.what)[1])
    <3>1. h.what = buffer
      BY <2>2 DEF HandedOver
    <3> QED
      BY <2>2, <3>1
  <2>3. CASE h \in accepted' \ accepted
    <3>1. KeyboardCompletes(sysex_buffer', t)
      BY <1>2, <2>3, KeyboardStep
    <3>2. h = HandedOver(sysex_buffer', t) /\ IsCi(sysex_buffer')
      BY <2>3, <3>1 DEF KeyboardCompletes
    <3> QED
      BY <1>2, <2>2, <2>3, <3>2, KeyboardStep
  <2>4. CASE \E p \in processed' \ processed : h = p[2]
    <3>1. PICK p \in processed' \ processed : h = p[2]
      BY <2>4
    <3>2. PICK buffer \in Seq(Pieces) :
            /\ p[2] = HandedOver(buffer, t) /\ IsCi(buffer)
            /\ \/ Head(buffer)[1] \in disturbed' \cup cut'
               \/ Head(buffer)[1] = t /\ buffer = Packets(t)
      BY <1>2, ToolStep
    <3> QED
      BY <2>2, <3>1, <3>2
  <2> QED
    BY <2>1, <2>3, <2>4
<1>3. ASSUME NEW t \in Transmissions, Packet(t)
      PROVE  disturbed \subseteq disturbed' /\ cut \subseteq cut'
  BY <1>3, PacketMoves
<1>4. ASSUME NEW t \in Transmissions, Cut(t) \/ Send(t)
      PROVE  AllHanded' = AllHanded /\ disturbed \subseteq disturbed' /\ cut \subseteq cut'
  BY <1>4 DEF Cut, Send, tool, keyboard, streams, AllHanded
<1>5. CASE UNCHANGED vars
  BY <1>1, <1>5 DEF vars, streams, tool, keyboard, AllHanded
<1> QED
  BY <1>1, <1>2, <1>3, <1>4, <1>5 DEF Next

LEMMA HeardStep ==
    ASSUME TypeOK, Buffers, MessagesAreHeard, [Next]_vars PROVE MessagesAreHeard'
<1> SUFFICES ASSUME NEW u \in Ci, Whole(u)'
             PROVE  /\ \A by \in {"session", "manager"} :
                            <<by, HandedOver(Packets(u), u)>> \in processed'
                    /\ u \notin Own => HandedOver(Packets(u), u) \in accepted'
  BY DEF MessagesAreHeard, Packets, HandedOver, PacketCount
<1>1. CASE Whole(u) /\ processed \subseteq processed' /\ accepted \subseteq accepted'
  BY <1>1 DEF MessagesAreHeard
<1>2. u \in Transmissions
  BY AssemblyAssumption
<1>3. ASSUME NEW t \in Transmissions, Packet(t)
      PROVE  processed \subseteq processed' /\ accepted \subseteq accepted'
  <2>1. KeyboardCompletes(sysex_buffer', t) => accepted \subseteq accepted'
    BY DEF KeyboardCompletes
  <2> QED
    BY <1>3, <2>1, ToolStep, KeyboardStep
<1>4. ASSUME NEW t \in Transmissions, Packet(t), ~Whole(u)
      PROVE  /\ \A by \in {"session", "manager"} :
                    <<by, HandedOver(Packets(u), u)>> \in processed'
             /\ u \notin Own => HandedOver(Packets(u), u) \in accepted'
  <2>1. u \notin disturbed' /\ arrived'[u] = PacketCount(u)
    BY DEF Whole, PacketCount
  <2>2. u = t /\ t \in Ci \ disturbed
    BY <1>2, <1>4, <2>1, PacketMoves DEF Whole
  <2>3. \A by \in {"session", "manager"} :
            <<by, HandedOver(Packets(u), u)>> \in processed'
    BY <1>4, <2>1, <2>2, ToolStep
  <2>4. /\ KeyboardCompletes(sysex_buffer', t)
        /\ IsCi(sysex_buffer') /\ sysex_buffer' = Packets(t)
    BY <1>4, <2>1, <2>2, KeyboardStep
  <2>5. ASSUME u \notin Own PROVE ~IsEcho(Packets(t))
    <3> SUFFICES ASSUME NEW o \in Own, Bytes(Packets(t)) = Bytes(Packets(o))
                 PROVE  FALSE
      BY DEF IsEcho
    <3>1. o \in Transmissions
      BY AssemblyAssumption
    <3>2. /\ PacketCount(t) \in Nat \ {0} /\ PacketCount(o) \in Nat \ {0}
      BY <3>1, CountType
    <3>3. /\ Bytes(Packets(t))[1] = <<Content[t], 1>>
          /\ Bytes(Packets(o))[1] = <<Content[o], 1>>
      BY <3>2 DEF Bytes, Packets
    <3>4. Content[t] = Content[o]
      BY <3>3
    <3> QED
      BY <2>2, <2>5, <3>4, SourceAssumption
  <2>6. ASSUME u \notin Own PROVE HandedOver(Packets(u), u) \in accepted'
    BY <2>2, <2>4, <2>5, <2>6 DEF KeyboardCompletes
  <2> QED
    BY <2>3, <2>6
<1>5. ASSUME NEW t \in Transmissions, Cut(t) \/ Send(t)
      PROVE  /\ Whole(u) /\ processed \subseteq processed' /\ accepted \subseteq accepted'
  BY <1>5 DEF Cut, Send, tool, keyboard, streams, Whole, PacketCount
<1>6. CASE UNCHANGED vars
  BY <1>1, <1>6 DEF vars, streams, tool, keyboard, Whole, PacketCount
<1> QED
  BY <1>1, <1>3, <1>4, <1>5, <1>6 DEF Next

\* An echo that is due is remembered, and what is remembered is ignored.
LEMMA EchoStep ==
    ASSUME Inductive, [Next]_vars, IsFiniteSet(recentOutgoing')
    PROVE  Remembered' /\ FewEchoesIgnored'
<1> USE DEF Inductive
<1>1. ASSUME NEW t \in Transmissions, Packet(t)
      PROVE  Remembered' /\ FewEchoesIgnored'
  <2>1. sent' = sent /\ sent \in Seq(Own) /\ Own \subseteq Transmissions
    BY <1>1, AssemblyAssumption DEF Packet, TypeOK
  <2>2. /\ arrived[t] \in Nat /\ arrived[t] < PacketCount(t)
        /\ t \in Own => \E k \in 1 .. Len(sent) : sent[k] = t
        /\ \A u \in Transmissions : arrived'[u] < PacketCount(u) => arrived[u] < PacketCount(u)
        /\ arrived'[t] = arrived[t] + 1
    <3>1. PacketCount(t) \in Nat /\ arrived[t] \in Nat
      BY CountType DEF TypeOK
    <3>2. /\ arrived[t] + 1 \in 1 .. PacketCount(t) /\ arrived'[t] = arrived[t] + 1
          /\ \A u \in Transmissions : u # t => arrived'[u] = arrived[u]
      BY <1>1, PacketMoves
    <3>3. t \in Own => \E k \in 1 .. Len(sent) : sent[k] = t
      BY <1>1 DEF Packet
    <3> QED
      BY <3>1, <3>2, <3>3
  <2>3. \A u : SentOnce(u)' <=> SentOnce(u)
    BY <2>1 DEF SentOnce
  <2>4. CASE UNCHANGED <<recentOutgoing, accepted>>
    <3>1. Remembered'
      BY <2>1, <2>2, <2>3, <2>4 DEF Remembered, PacketCount
    <3>2. FewEchoesIgnored'
      BY <2>1, <2>3, <2>4 DEF WholeIsHanded, FewEchoesIgnored, HandedOver, Packets, PacketCount
    <3> QED
      BY <3>1, <3>2
  <2>5. CASE /\ KeyboardCompletes(sysex_buffer', t) /\ sysex_buffer' # <<>>
             /\ sysex_buffer'[Len(sysex_buffer')] = <<t, arrived[t] + 1>>
             /\ arrived'[t] = PacketCount(t) /\ sysex_buffer' \in Seq(Pieces)
    <3>1. recentOutgoing' \subseteq recentOutgoing
      BY <2>5 DEF KeyboardCompletes
    <3>2. Cardinality(recentOutgoing') <= Len(sent')
      <4>1. Cardinality(recentOutgoing') <= Cardinality(recentOutgoing)
        BY <3>1, FS_Subset DEF Remembered
      <4>2. /\ Cardinality(recentOutgoing') \in Nat /\ Cardinality(recentOutgoing) \in Nat
            /\ Len(sent) \in Nat
        BY <2>1, FS_CardinalityType DEF Remembered
      <4> QED
        BY <2>1, <4>1, <4>2 DEF Remembered
    <3>3. ASSUME Len(sent) <= Limit, NEW u \in Own, SentOnce(u),
                 arrived'[u] < PacketCount(u), \E k \in 1 .. Len(sent) : sent[k] = u
          PROVE  Content[u] \in recentOutgoing'
      <4>1. Content[u] \in recentOutgoing
        BY <2>1, <2>2, <3>3 DEF Remembered
      <4>2. t # u
        <5>1. PacketCount(t) \in Nat
          BY CountType
        <5> QED
          BY <2>5, <3>3, <5>1
      <4>3. ASSUME IsEcho(sysex_buffer')
            PROVE  Content[Head(sysex_buffer')[1]] # Content[u]
        BY <1>1, <2>5, <3>3, <4>2, <4>3, EchoIsWhole
      <4> QED
        BY <2>5, <4>1, <4>3 DEF KeyboardCompletes
    <3>4. ASSUME Len(sent) <= Limit, NEW u \in Own, SentOnce(u),
                 HandedOver(Packets(u), u) \in accepted' \ accepted
          PROVE  FALSE
      <4>1. HandedOver(Packets(u), u) = HandedOver(sysex_buffer', t)
            /\ ~IsEcho(sysex_buffer')
        BY <2>5, <3>4 DEF KeyboardCompletes
      <4>2. sysex_buffer' = Packets(u)
        BY <4>1 DEF HandedOver
      <4>3. PacketCount(u) \in Nat \ {0}
        BY <2>1, CountType
      <4>4. Len(Packets(u)) = PacketCount(u) /\ Packets(u)[PacketCount(u)] = <<u, PacketCount(u)>>
        BY <4>3 DEF Packets
      <4>5. u = t
        BY <2>5, <4>2, <4>4
      <4>6. Content[u] \in recentOutgoing
        BY <2>2, <3>4, <4>5 DEF Remembered
      <4> QED
        BY <4>1, <4>2, <4>6 DEF IsEcho
    <3>5. Remembered'
      BY <2>1, <2>3, <3>2, <3>3 DEF Remembered, PacketCount
    <3>6. FewEchoesIgnored'
      BY <2>1, <2>3, <3>4 DEF WholeIsHanded, FewEchoesIgnored, HandedOver, Packets, PacketCount
    <3> QED
      BY <3>5, <3>6
  <2> QED
    BY <1>1, <2>4, <2>5, KeyboardStep
<1>2. ASSUME NEW t \in Transmissions, Send(t)
      PROVE  Remembered' /\ FewEchoesIgnored'
  <2>1. /\ t \in Own /\ sent \in Seq(Own) /\ sent' = Append(sent, t)
        /\ recentOutgoing' = Trimmed(recentOutgoing \cup {Content[t]})
        /\ UNCHANGED <<arrived, accepted>>
    BY <1>2 DEF Send, TypeOK, streams
  <2>2. /\ Len(sent') = Len(sent) + 1 /\ Len(sent) \in Nat
        /\ \A k \in 1 .. Len(sent) : sent'[k] = sent[k]
        /\ sent'[Len(sent) + 1] = t
    BY <2>1
  <2>3. /\ recentOutgoing \in SUBSET Nat /\ Content[t] \in Nat /\ Limit \in Nat
        /\ IsFiniteSet(recentOutgoing) /\ Cardinality(recentOutgoing) \in Nat
        /\ Cardinality(recentOutgoing) <= Limit
        /\ Cardinality(recentOutgoing) <= Len(sent)
    BY AssemblyAssumption, FS_CardinalityType DEF TypeOK, Remembered
  <2>4. /\ Cardinality(recentOutgoing') <= Cardinality(recentOutgoing) + 1
        /\ IsFiniteSet(recentOutgoing')
        /\ Cardinality(recentOutgoing) < Limit =>
                recentOutgoing' = recentOutgoing \cup {Content[t]}
    BY <2>1, <2>3, TrimmedSize
  <2>5. Cardinality(recentOutgoing') <= Len(sent')
    <3>1. Cardinality(recentOutgoing') \in Nat
      BY <2>4, FS_CardinalityType
    <3> QED
      BY <2>2, <2>3, <2>4, <3>1
  <2>6. ASSUME NEW u, SentOnce(u)' PROVE SentOnce(u)
    <3> SUFFICES ASSUME NEW k \in 1 .. Len(sent), NEW l \in 1 .. Len(sent),
                        Content[sent[k]] = Content[u], Content[sent[l]] = Content[u]
                 PROVE  k = l
      BY DEF SentOnce
    <3>1. k \in 1 .. Len(sent') /\ l \in 1 .. Len(sent')
      BY <2>2
    <3> QED
      BY <2>2, <2>6, <3>1 DEF SentOnce
  <2>7. Len(sent') <= Limit => Len(sent) <= Limit /\ Cardinality(recentOutgoing) < Limit
    BY <2>2, <2>3
  <2>8. ASSUME Len(sent') <= Limit, NEW u \in Own, SentOnce(u)',
               arrived[u] < PacketCount(u), NEW k \in 1 .. Len(sent'), sent'[k] = u
        PROVE  Content[u] \in recentOutgoing'
    <3>1. CASE k = Len(sent) + 1
      BY <2>2, <2>4, <2>7, <2>8, <3>1
    <3>2. CASE k # Len(sent) + 1
      <4>1. k \in 1 .. Len(sent)
        BY <2>2, <3>2
      <4>2. Content[u] \in recentOutgoing
        BY <2>2, <2>6, <2>7, <2>8, <4>1 DEF Remembered
      <4> QED
        BY <2>4, <2>7, <2>8, <4>2
    <3> QED
      BY <3>1, <3>2
  <2>9. Remembered'
    BY <2>1, <2>4, <2>5, <2>8 DEF Remembered, PacketCount
  <2>10. FewEchoesIgnored'
    BY <2>1, <2>6, <2>7 DEF WholeIsHanded, FewEchoesIgnored, HandedOver, Packets, PacketCount
  <2> QED
    BY <2>9, <2>10
<1>3. CASE UNCHANGED <<arrived, recentOutgoing, accepted, sent>>
  BY <1>3 DEF Remembered, WholeIsHanded, FewEchoesIgnored, SentOnce, PacketCount,
              HandedOver, Packets
<1>4. ASSUME NEW t \in Transmissions, Cut(t)
      PROVE  UNCHANGED <<arrived, recentOutgoing, accepted, sent>>
  BY <1>4 DEF Cut, keyboard
<1>5. CASE UNCHANGED vars
  BY <1>3, <1>5 DEF vars, streams, keyboard
<1> QED
  BY <1>1, <1>2, <1>3, <1>4, <1>5 DEF Next

-----------------------------------------------------------------------------
LEMMA InductiveHolds == Spec => []Inductive
<1>1. Init => Inductive
  <2> SUFFICES ASSUME Init PROVE Inductive
    OBVIOUS
  <2>1. TypeOK
    <3>1. Cardinality({}) <= Limit
      BY FS_EmptySet, AssemblyAssumption
    <3>2. \A t \in Transmissions : 0 <= PacketCount(t)
      BY CountType
    <3>3. AllHanded = {}
      BY DEF Init, AllHanded
    <3>4. /\ arrived \in [Transmissions -> Nat]
          /\ \A t \in Transmissions : arrived[t] <= PacketCount(t)
      BY <3>2 DEF Init
    <3>5. /\ session_buffer \in Seq(Transmissions \X (Nat \ {0}))
          /\ manager_buffer \in Seq(Transmissions \X (Nat \ {0}))
          /\ sysex_buffer \in Seq(Transmissions \X (Nat \ {0}))
          /\ sent \in Seq(Own)
      BY DEF Init
    <3> QED
      BY <3>1, <3>3, <3>4, <3>5 DEF Init, TypeOK
  <2>2. Buffers
    <3>1. Growing = {}
      BY DEF Init, Growing, Underway
    <3> QED
      BY <3>1 DEF Init, Buffers, Answered, IsCi
  <2>3. Remembered
    <3>1. IsFiniteSet({}) /\ Cardinality({}) = 0
      BY FS_EmptySet
    <3> QED
      BY <3>1 DEF Init, Remembered
  <2>4. HandedIsWhole
    BY DEF Init, HandedIsWhole, AllHanded
  <2>5. WholeIsHanded
    <3>1. ASSUME NEW t \in Ci PROVE ~Whole(t)
      <4>1. t \in Transmissions /\ PacketCount(t) > 1 /\ PacketCount(t) \in Nat
        BY CountType, AssemblyAssumption
      <4> QED
        BY <4>1 DEF Init, Whole
    <3> QED
      BY <3>1 DEF Init, WholeIsHanded, MessagesAreHeard, FewEchoesIgnored
  <2> QED
    BY <2>1, <2>2, <2>3, <2>4, <2>5 DEF Inductive
<1>2. Inductive /\ [Next]_vars => Inductive'
  <2> SUFFICES ASSUME Inductive, [Next]_vars PROVE Inductive'
    OBVIOUS
  <2>1. TypeOK' /\ IsFiniteSet(recentOutgoing')
    BY TypeStep DEF Inductive, Remembered
  <2>2. Buffers' /\ HandedIsWhole' /\ MessagesAreHeard'
    BY BuffersStep, HandedStep, HeardStep DEF Inductive, WholeIsHanded
  <2>3. Remembered' /\ FewEchoesIgnored'
    BY <2>1, EchoStep
  <2> QED
    BY <2>1, <2>2, <2>3 DEF Inductive, WholeIsHanded
<1> QED
  BY <1>1, <1>2, PTL DEF Spec

\* In every reachable state the buffers hold packets and no more than Limit
\* messages are remembered.
THEOREM TypeCorrect == Spec => []TypeOK
  BY InductiveHolds, PTL DEF Inductive

\* However transmissions interleave and break off, what a receiver hands over
\* is one whole MIDI-CI message from its own group, or begins with one that was
\* disturbed or cut off.
THEOREM NothingMixed == Spec => []HandedIsWhole
  BY InductiveHolds, PTL DEF Inductive

\* However many transmissions came before, a whole message is handed over by
\* all three receivers, and an echo sent once is ignored while the keyboard
\* remembers what it sent.
THEOREM NothingLost == Spec => []WholeIsHanded
  BY InductiveHolds, PTL DEF Inductive
=============================================================================
