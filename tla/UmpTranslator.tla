----------------------------- MODULE UmpTranslator -----------------------------
(***************************************************************************)
(* UmpTranslator: MIDI 1.0 bytes to UMPs, which gathers parameter numbers, *)
(* data entry and bank selects over several messages, and UMPs to bytes    *)
(* and between the protocols.                                              *)
(***************************************************************************)
EXTENDS Umps, FiniteSets

CONSTANT ContextGroup       \* group of the context: of the UMPs made of bytes

-----------------------------------------------------------------------------
(* The states: two 7-bit halves, of which each may be unset (bit 0x80).    *)

Unset == 128
Empty == <<Unset, Unset>>
Whole(state) == Unset \notin {state[1], state[2]}

NewContext(protocol, reordered, smf) ==
    [midiProtocol |-> protocol, allowReorderedDTE |-> reordered, isMidi1Smf |-> smf,
     rpnState |-> Empty, nrpnState |-> Empty, dteState |-> Empty, bankState |-> Empty,
     tempo |-> 500000]

\* Nothing is gathered; at its end the code asks the same but for the bank.
Complete(c) == {c.rpnState, c.nrpnState, c.dteState} = {Empty}

High7(v) == <<2 * v, 0, 0, 0>>
High14(v) == <<v \div 64, 4 * (v % 64), 0, 0>>
Low7(data) == data[1] \div 2
Low14(data) == (256 * data[1] + data[2]) \div 4

-----------------------------------------------------------------------------
(* MIDI 1.0 bytes to UMPs.                                                 *)

getMidi1MessageSize(status) ==
    CASE status \div 16 \in {PROGRAM, CAF} -> 2
      [] status \div 16 \in {NOTE_OFF, NOTE_ON, PAF, CC, PITCH_BEND} -> 3
      [] status \in {\hF1, \hF3} -> 2
      [] status = \hF2 -> 3
      [] OTHER -> 1

\* The bytes of a variable length quantity, at most 4, and its value; 0 bytes
\* when it does not end in time.
QuantitySize(bytes) ==
    LET ends == {k \in 1 .. 4 : k <= Len(bytes) /\ bytes[k] < 128}
    IN  IF ends = {} THEN 0 ELSE CHOOSE k \in ends : \A j \in ends : k <= j

Quantity(bytes) ==
    FoldLeft(LAMBDA v, b : 128 * v + (b % 128), 0, SubSeq(bytes, 1, QuantitySize(bytes)))

\* The packets of a delta time.
Clockstamps(ticks) ==
    LET full == IF ticks = 0 THEN 0 ELSE (ticks - 1) \div \hFFFFF
    IN  IF ticks = 0 THEN <<>>
        ELSE [k \in 1 .. full |-> deltaClockstamp(\hFFFFF)]
                \o <<deltaClockstamp(ticks - full * \hFFFFF)>>

\* mapMajorKeyTonic, mapMinorKeyTonic: the circle of fifths, A = 1 to G = 7.
Tonic(sharps, isMinor) ==
    IF sharps \notin -7 .. 7 THEN 0
    ELSE 1 + (((IF isMinor THEN 0 ELSE 2) + 4 * sharps) % 7)

Signed8(byte) == IF byte >= 128 THEN byte - 256 ELSE byte

TempoOf(data) == 65536 * data[1] + 256 * data[2] + data[3]

\* In multiples of 10 ns.
TempoUmp(data) ==
    LET v == 100 * TempoOf(data)
    IN  tempo(ContextGroup, 0, Bytes2(v \div 65536) \o Bytes2(v % 65536))

MetaText == {1, 2, 3, 4, 6, 7}
MetaStatus(type) ==
    CASE type = 2 -> 4 [] type = 3 -> 3 [] type = 4 -> 9 [] OTHER -> 0

MetaValid(type, data) ==
    /\ type = \h51 => Len(data) = 3
    /\ type = \h58 => Len(data) >= 4
    /\ type = \h59 => Len(data) >= 2

\* translateMetaToFlexData for what is valid; the rest is skipped.
MetaUmps(type, data) ==
    CASE type = \h51 -> <<TempoUmp(data)>>
      [] type = \h58 ->
            <<timeSignature(ContextGroup, 0, data[1], IF data[2] < 8 THEN 2 ^ data[2] ELSE 0, data[4])>>
      [] type = \h59 ->
            LET sharps == Signed8(data[1])
            IN  <<keySignature(ContextGroup, 1, 0, sharps, Tonic(sharps, data[2] # 0))>>
      [] type \in MetaText -> metadataText(ContextGroup, 1, 0, MetaStatus(type), data)
      [] type = 5 -> performanceText(ContextGroup, 1, 0, 1, data)
      [] OTHER -> <<>>

\* The outcome of one turn of the loop that is over with so many bytes.
Turn(c, out, used) == [context |-> c, umps |-> out, used |-> used, result |-> "OK"]
Fail(c, out, why) == [context |-> c, umps |-> out, used |-> 0, result |-> why]

MetaTurn(c, bytes) ==
    LET rest == SubSeq(bytes, 3, Len(bytes))
        first == 3 + QuantitySize(rest)
        data == SubSeq(bytes, first, first + Quantity(rest) - 1)
    IN  IF \/ Len(bytes) < 3 \/ QuantitySize(rest) = 0
           \/ first + Quantity(rest) - 1 > Len(bytes)
           \/ ~MetaValid(bytes[2], data)
        THEN Fail(c, <<>>, "INVALID_STATUS")
        ELSE Turn([c EXCEPT !.tempo = IF bytes[2] = \h51 THEN TempoOf(data) ELSE @],
                  MetaUmps(bytes[2], data), first + Quantity(rest) - 1)

\* In a file, too, a SysEx is what lies between F0 and F7.
SysexTurn(c, bytes) ==
    LET ends == {k \in 2 .. Len(bytes) : bytes[k] = \hF7}
        end == CHOOSE k \in ends : \A j \in ends : k <= j
    IN  IF ends = {} THEN Fail(c, <<>>, "INVALID_SYSEX")
        ELSE Turn(c, sysex7(ContextGroup, SubSeq(bytes, 2, end - 1)), end)

\* Mutant: the parameter number stays.
ConvertedKeeping(c) == [c EXCEPT !.dteState = Empty]

\* convertMidi1DteToUmp: what is gathered is forgotten.
Converted(c) == [c EXCEPT !.rpnState = Empty, !.nrpnState = Empty, !.dteState = Empty]

\* Mutant: the lower half of the data is left out.
DteUmpCoarse(c, channel) ==
    LET isRpn == Whole(c.rpnState)
        number == IF isRpn THEN c.rpnState ELSE c.nrpnState
        data == 128 * (c.dteState[1] % 128)
    IN  midi2Parameter(IF isRpn THEN RPN ELSE NRPN, ContextGroup, channel,
                       number[1], number[2], High14(data))

\* An RPN goes before an NRPN; an unset half of the data counts as 0.
DteUmp(c, channel) ==
    LET isRpn == Whole(c.rpnState)
        number == IF isRpn THEN c.rpnState ELSE c.nrpnState
        data == 128 * (c.dteState[1] % 128) + (c.dteState[2] % 128)
    IN  midi2Parameter(IF isRpn THEN RPN ELSE NRPN, ContextGroup, channel,
                       number[1], number[2], High14(data))

\* Which state a controller is half of, and which half.
Gathers ==
    (RPN_MSB :> <<"rpnState", 1>>) @@ (RPN_LSB :> <<"rpnState", 2>>)
        @@ (NRPN_MSB :> <<"nrpnState", 1>>) @@ (NRPN_LSB :> <<"nrpnState", 2>>)
        @@ (DTE_MSB :> <<"dteState", 1>>) @@ (DTE_LSB :> <<"dteState", 2>>)
        @@ (BANK_SELECT :> <<"bankState", 1>>) @@ (BANK_SELECT_LSB :> <<"bankState", 2>>)

Gathered(c, number, value) == [c EXCEPT ![Gathers[number][1]][Gathers[number][2]] = value]

\* A controller in the MIDI 2.0 protocol: data entry ends with its lower half.
CCTurn(c, channel, number, value) ==
    LET gathered == Gathered(c, number, value)
        numbered == Whole(c.rpnState) \/ Whole(c.nrpnState)
    IN  CASE number \notin DOMAIN Gathers ->
                Turn(c, <<midi2CC(ContextGroup, channel, number, High7(value))>>, 3)
          [] number = DTE_LSB ->
                IF ~numbered \/ (c.dteState[1] = Unset /\ ~c.allowReorderedDTE)
                THEN Fail(gathered, <<>>, "INVALID_DTE_SEQUENCE")
                ELSE Turn(Converted(gathered), <<DteUmp(gathered, channel)>>, 3)
          [] number = DTE_MSB /\ c.allowReorderedDTE /\ Whole(gathered.dteState) ->
                Turn(Converted(gathered), <<DteUmp(gathered, channel)>>, 3)
          [] OTHER -> Turn(gathered, <<>>, 3)

\* A half that is not set is 0.
Half(v) == IF v = Unset THEN 0 ELSE v

ProgramTurn(c, channel, program) ==
    Turn([c EXCEPT !.bankState = Empty],
         <<midi2Program(ContextGroup, channel, IF c.bankState = Empty THEN 0 ELSE 1, program,
                        Half(c.bankState[1]), Half(c.bankState[2]))>>, 2)

\* The other messages; a system message has no translation in this protocol.
Midi2Turn(c, m) ==
    LET code == m[1] \div 16
        channel == m[1] % 16
    IN  CASE code \in {NOTE_OFF, NOTE_ON} ->
                Turn(c, <<midi2Note(code, ContextGroup, channel, m[2], 0, 512 * m[3], 0)>>, 3)
          [] code = PAF -> Turn(c, <<midi2PAf(ContextGroup, channel, m[2], High7(m[3]))>>, 3)
          [] code = CC -> CCTurn(c, channel, m[2], m[3])
          [] code = PROGRAM -> ProgramTurn(c, channel, m[2])
          [] code = CAF -> Turn(c, <<midi2CAf(ContextGroup, channel, High7(m[2]))>>, 2)
          [] code = PITCH_BEND ->
                Turn(c, <<midi2PitchBend(ContextGroup, channel, High14(128 * m[3] + m[2]))>>, 3)
          [] OTHER -> Fail(c, <<>>, "INVALID_STATUS")

\* In the MIDI 1.0 protocol the status loses its lower half, which a system
\* message needs.
FixedTurn(c, bytes) ==
    LET size == getMidi1MessageSize(bytes[1])
        m == Taken(SubSeq(bytes, 1, size), 0, 3)
    IN  IF size > Len(bytes) THEN Fail(c, <<>>, "INVALID_STATUS")
        ELSE IF c.midiProtocol = "MIDI1"
        THEN Turn(c, <<midi1Message(ContextGroup, m[1] \div 16, m[1] % 16, m[2], m[3])>>, size)
        ELSE Midi2Turn(c, m)

\* One turn without the delta time.
MessageTurn(c, bytes) ==
    IF bytes = <<>> THEN Fail(c, <<>>, "INVALID_STATUS")
    ELSE IF c.isMidi1Smf /\ bytes[1] = \hFF THEN MetaTurn(c, bytes)
    ELSE IF bytes[1] = \hF0 THEN SysexTurn(c, bytes)
    ELSE FixedTurn(c, bytes)

\* One turn of the loop; the clockstamps stay also when the message fails.
LoopTurn(c, bytes) ==
    LET size == IF c.isMidi1Smf THEN QuantitySize(bytes) ELSE 0
    IN  IF c.isMidi1Smf /\ size = 0 THEN Fail(c, <<>>, "INVALID_STATUS")
        ELSE [MessageTurn(c, SubSeq(bytes, size + 1, Len(bytes))) EXCEPT
                !.umps = Clockstamps(Quantity(SubSeq(bytes, 1, size))) \o @, !.used = size + @]

\* All turns.
Ended(all) ==
    IF all.result = "OK" /\ ~Complete(all.context)
    THEN [all EXCEPT !.result = "INVALID_DTE_SEQUENCE"] ELSE all
translateMidi1BytesToUmp(c, bytes) ==
    LET Again(acc, k) ==
            IF acc.result # "OK" \/ acc.used # k - 1 THEN acc
            ELSE [LoopTurn(acc.context, SubSeq(bytes, k, Len(bytes))) EXCEPT
                    !.umps = acc.umps \o @, !.used = acc.used + @]
    IN  Ended(FoldLeft(Again, Turn(c, <<>>, 0), [k \in 1 .. Len(bytes) |-> k]))

-----------------------------------------------------------------------------
(* UMPs to MIDI 1.0 bytes, and between the protocols.                      *)

\* The controllers of a parameter and its data, <<number, value>> each.
ParameterCCs(u) ==
    LET isRpn == StatusCode(u) = RPN
        data == Low14(Midi2Data(u))
    IN  <<<<IF isRpn THEN RPN_MSB ELSE NRPN_MSB, Midi1Msb(u)>>,
          <<IF isRpn THEN RPN_LSB ELSE NRPN_LSB, Midi1Lsb(u)>>,
          <<DTE_MSB, data \div 128>>, <<DTE_LSB, data % 128>>>>

BankCCs(u) ==
    IF Midi2BankValid(u)
    THEN <<<<BANK_SELECT, Midi2BankMsb(u)>>, <<BANK_SELECT_LSB, Midi2BankLsb(u)>>>> ELSE <<>>

\* translateMidi2UmpToMidi1Ump for one UMP, which may become several; what
\* MIDI 1.0 does not have is dropped.
ToMidi1Ump(u) ==
    LET code == StatusCode(u)
        channel == ChannelInGroup(u)
        One(byte3, byte4) == <<midi1Message(Group(u), code, channel, byte3, byte4)>>
        CCs(pairs) == [k \in 1 .. Len(pairs) |->
                          midi1CC(Group(u), channel, pairs[k][1], pairs[k][2])]
    IN  CASE MessageType(u) # MIDI2 -> <<u>>
          [] OTHER ->
             CASE code \in {NOTE_OFF, NOTE_ON} -> One(Midi1Msb(u), Midi2Velocity16(u) \div 512)
               [] code \in {PAF, CC} -> One(Midi1Msb(u), Low7(Midi2Data(u)))
               [] code = PROGRAM -> CCs(BankCCs(u)) \o One(Midi2Program(u), 0)
               [] code = CAF -> One(Low7(Midi2Data(u)), 0)
               [] code = PITCH_BEND ->
                    <<midi1PitchBend(Group(u), channel, Low14(Midi2Data(u)))>>
               [] code \in {RPN, NRPN} -> CCs(ParameterCCs(u))
               [] OTHER -> <<>>

\* translateMidi1UmpToMidi2Ump for one UMP.
ToMidi2Ump(u) ==
    LET code == StatusCode(u)
        channel == ChannelInGroup(u)
        msb == Midi1Msb(u)
        lsb == Midi1Lsb(u)
    IN  CASE MessageType(u) # MIDI1 -> u
          [] OTHER ->
             CASE code \in {NOTE_OFF, NOTE_ON} ->
                    midi2Note(code, Group(u), channel, msb, 0, 512 * lsb, 0)
               [] code = PAF -> midi2PAf(Group(u), channel, msb, High7(lsb))
               [] code = CC -> midi2CC(Group(u), channel, msb, High7(lsb))
               [] code = PROGRAM -> midi2Program(Group(u), channel, 0, msb, 0, 0)
               [] code = CAF -> midi2CAf(Group(u), channel, High7(msb))
               [] code = PITCH_BEND ->
                    midi2PitchBend(Group(u), channel, High14(128 * lsb + msb))
               [] OTHER -> u

\* The event of one UMP without its delta time.  Of a system message only the
\* status is left, as its code is compared with whole statuses.
EventBytes(u) ==
    LET ccStatus == 16 * CC + ChannelInGroup(u)
        CCs(pairs) == FlattenSeq([k \in 1 .. Len(pairs) |-> <<ccStatus>> \o pairs[k]])
        midi1 == ToMidi1Ump(u)[1]
    IN  CASE MessageType(u) = SYSTEM -> <<StatusByte(u)>>
          [] MessageType(u) = MIDI2 /\ StatusCode(u) \in {RPN, NRPN} -> CCs(ParameterCCs(u))
          [] MessageType(u) = MIDI2 /\ StatusCode(u) = PROGRAM ->
                CCs(BankCCs(u)) \o <<StatusByte(u), Midi2Program(u)>>
          [] \/ MessageType(u) = MIDI1
             \/ MessageType(u) = MIDI2 /\ StatusCode(u) \in NOTE_OFF .. PITCH_BEND ->
                SubSeq(<<StatusByte(u), Midi1Msb(midi1), Midi1Lsb(midi1)>>, 1,
                       IF StatusCode(u) \in {PROGRAM, CAF} THEN 2 ELSE 3)
          [] OTHER -> <<>>

\* translateSingleUmpToMidi1Bytes: delta is -1 for none.  A delta time is not
\* counted in the size, so that the event loses its last byte; programs and
\* parameters come without one.
AfterDelta(event, delta) ==
    IF event = <<>> THEN event ELSE SubSeq(<<delta % 128>> \o event, 1, Len(event))
SingleBytes(u, delta) ==
    IF \/ delta < 0
       \/ MessageType(u) = MIDI2 /\ StatusCode(u) \in {RPN, NRPN, PROGRAM}
    THEN EventBytes(u)
    ELSE AfterDelta(EventBytes(u), delta)

BytesOf(done) ==
    [bytes |-> done.bytes,
     result |-> IF done.sysex = <<>> THEN "OK" ELSE "INCOMPLETE_SYSEX7"]
\* translateUmpToMidi1Bytes
ToMidi1Bytes(all, skipDeltaTime) ==
    LET One(acc, u) ==
            LET sysex == IF MessageType(u) # SYSEX7 THEN acc.sysex
                         ELSE acc.sysex \o [k \in DOMAIN SysexBytes(u) |-> SysexBytes(u)[k] % 128]
                ends == MessageType(u) = SYSEX7
                            /\ BinaryChunkStatus(u) \in {"END", "COMPLETE_PACKET"}
            IN  IF IsUtility(u, 4) THEN [acc EXCEPT !.delta = @ + DeltaClockstamp(u)]
                ELSE IF IsUtility(u, 2)
                THEN [acc EXCEPT !.delta = @ + (IF skipDeltaTime THEN 0 ELSE JRTimestamp(u))]
                ELSE [bytes |-> acc.bytes
                          \o SingleBytes(u, IF skipDeltaTime THEN -1 ELSE acc.delta)
                          \o (IF ends THEN <<\hF0>> \o sysex \o <<\hF7>> ELSE <<>>),
                      sysex |-> IF ends THEN <<>> ELSE sysex, delta |-> 0]
    IN  BytesOf(FoldLeft(One, [bytes |-> <<>>, sysex |-> <<>>, delta |-> 0], all))
=============================================================================
