-------------------------------- MODULE Umps --------------------------------
(***************************************************************************)
(* Universal MIDI Packets: how UmpFactory writes them and how Ump and      *)
(* UmpRetriever read them.  A packet is the sequence of its 4, 8 or 16     *)
(* bytes, int1 first and the most significant byte of each int first; an   *)
(* argument of 32 bits is the sequence of its four bytes.                  *)
(***************************************************************************)
EXTENDS Integers, Sequences, SequencesExt

UTILITY == 0
SYSTEM == 1
MIDI1 == 2
SYSEX7 == 3
MIDI2 == 4
SYSEX8_MDS == 5
FLEX_DATA == 13
UMP_STREAM == 15

NOTE_OFF == 8
NOTE_ON == 9
PAF == 10
CC == 11
PROGRAM == 12
CAF == 13
PITCH_BEND == 14
PER_NOTE_RCC == 0
PER_NOTE_ACC == 1
RPN == 2
NRPN == 3
RELATIVE_RPN == 4
RELATIVE_NRPN == 5
PER_NOTE_PITCH_BEND == 6
PER_NOTE_MANAGEMENT == 15

BANK_SELECT == 0
DTE_MSB == 6
BANK_SELECT_LSB == 32
DTE_LSB == 38
DTE_INCREMENT == 96
DTE_DECREMENT == 97
NRPN_LSB == 98
NRPN_MSB == 99
RPN_LSB == 100
RPN_MSB == 101
OMNI_MODE_OFF == 124
OMNI_MODE_ON == 125
MONO_MODE_ON == 126
POLY_MODE_ON == 127

Zeros(n) == [k \in 1 .. n |-> 0]
Bytes2(v) == <<v \div 256, v % 256>>

\* n bytes from index on (0 is the first), zeros where there are none.
Taken(bytes, index, n) ==
    [k \in 1 .. n |-> IF index + k <= Len(bytes) THEN bytes[index + k] ELSE 0]

-----------------------------------------------------------------------------
(* Reading: Ump and its accessors.                                         *)

MessageType(u) == u[1] \div 16
Group(u) == u[1] % 16
StatusByte(u) == u[2]
StatusCode(u) == u[2] \div 16
ChannelInGroup(u) == u[2] % 16
SysexSize(u) == u[2] % 16

\* Mutant: type 5 has two words.
SizeInIntsLate(type) == IF type > 5 THEN 4 ELSE IF type >= 3 THEN 2 ELSE 1

\* umpSizeInInts; the UMP standard gives the reserved types other sizes.
SizeInInts(type) == IF type >= 5 THEN 4 ELSE IF type >= 3 THEN 2 ELSE 1

\* What is no START, CONTINUE or END counts as COMPLETE_PACKET.
BinaryChunkStatus(u) ==
    CASE StatusCode(u) = 1 -> "START"
      [] StatusCode(u) = 2 -> "CONTINUE"
      [] StatusCode(u) = 3 -> "END"
      [] OTHER -> "COMPLETE_PACKET"

Midi1Msb(u) == u[3] % 128
Midi1Lsb(u) == u[4] % 128
Midi2Data(u) == SubSeq(u, 5, 8)
Midi2Velocity16(u) == u[5] * 256 + u[6]
Midi2BankValid(u) == u[4] % 2 = 1
Midi2Program(u) == u[5] % 128
Midi2BankMsb(u) == u[7] % 128
Midi2BankLsb(u) == u[8] % 128

IsUtility(u, status) == MessageType(u) = UTILITY /\ StatusCode(u) = status
JRTimestamp(u) == IF IsUtility(u, 2) THEN u[3] * 256 + u[4] ELSE 0
DeltaClockstamp(u) ==
    IF IsUtility(u, 4) THEN (u[2] % 16) * 65536 + u[3] * 256 + u[4] ELSE 0
IsClip(u, status) == MessageType(u) = UMP_STREAM /\ StatusByte(u) = status

\* isTempo (0), isTimeSignature (1): whatever the status bank.
IsFlexData(u, status) == MessageType(u) = FLEX_DATA /\ u[4] = status

\* parseUmpsFromWords and fromBytes, word by word: a packet that would reach
\* past the end, and all from there on, is left out.
Parsed(bytes) ==
    LET Word(acc, k) ==
            LET next == acc.next + 4 * SizeInInts(bytes[4 * k - 3] \div 16)
            IN  IF acc.next # 4 * (k - 1) THEN acc
                ELSE IF next > Len(bytes) THEN [acc EXCEPT !.next = next]
                ELSE [next |-> next,
                      umps |-> Append(acc.umps, SubSeq(bytes, 4 * k - 3, next))]
    IN  FoldLeft(Word, [next |-> 0, umps |-> <<>>], [k \in 1 .. Len(bytes) \div 4 |-> k]).umps

-----------------------------------------------------------------------------
(* Writing: utility, system and channel voice messages.                    *)

noop == Zeros(4)
jrClock(time) == <<0, 16>> \o Bytes2(time)
jrTimestamp(time) == <<0, 32>> \o Bytes2(time)
dctpq(ticks) == <<0, 48>> \o Bytes2(ticks)
deltaClockstamp(ticks) == <<0, 64 + ((ticks \div 65536) % 16)>> \o Bytes2(ticks % 65536)

\* Each packet before the last says one tick less than it stands for.
jrTimestamps(ticks) ==
    [k \in 1 .. ticks \div 65536 |-> jrTimestamp(65535)] \o <<jrTimestamp(ticks % 65536)>>

systemMessage(group, status, byte2, byte3) ==
    <<16 * SYSTEM + (group % 16), status, byte2 % 128, byte3 % 128>>

\* midi1Message, and what calls it with one of the codes.
midi1Message(group, code, channel, byte3, byte4) ==
    <<16 * MIDI1 + (group % 16), 16 * code + (channel % 16), byte3 % 128, byte4 % 128>>

midi1CC(group, channel, index, data) == midi1Message(group, CC, channel, index, data)

\* midi1PitchBendDirect, for 14 bits of data.
midi1PitchBend(group, channel, data) ==
    midi1Message(group, PITCH_BEND, channel, data % 128, data \div 128)

\* midi2ChannelMessage8_8_32 and 8_8_16_16
midi2Message(group, code, channel, byte3, byte4, data) ==
    <<16 * MIDI2 + (group % 16), 16 * code + (channel % 16), byte3, byte4>> \o data

\* midi2NoteOff and midi2NoteOn
midi2Note(code, group, channel, note, attributeType, velocity, attribute) ==
    midi2Message(group, code, channel, note % 128, attributeType,
                 Bytes2(velocity) \o Bytes2(attribute))

midi2PAf(group, channel, note, data) ==
    midi2Message(group, PAF, channel, note % 128, 0, data)
midi2CC(group, channel, index, data) == midi2Message(group, CC, channel, index, 0, data)
midi2Program(group, channel, options, program, bankMsb, bankLsb) ==
    midi2Message(group, PROGRAM, channel, 0, options % 2, <<program % 128, 0, bankMsb, bankLsb>>)
midi2CAf(group, channel, data) == midi2Message(group, CAF, channel, 0, 0, data)
midi2PitchBend(group, channel, data) == midi2Message(group, PITCH_BEND, channel, 0, 0, data)

\* midi2RPN, midi2NRPN and the relative ones.
midi2Parameter(code, group, channel, msb, lsb, data) ==
    midi2Message(group, code, channel, msb, lsb, data)

\* midi2PerNoteRCC, PerNoteACC, PerNoteManagement and PerNotePitchBend
midi2PerNote(code, group, channel, note, index, data) ==
    midi2Message(group, code, channel, note % 128, index, data)

-----------------------------------------------------------------------------
(* System exclusive messages.                                              *)

\* sysex7GetSysexLength, and the bytes it counts.
Sysex7Bytes(bytes) ==
    LET ends == {k \in 1 .. Len(bytes) : bytes[k] = \hF7}
        length == IF ends = {} THEN Len(bytes)
                  ELSE (CHOOSE k \in ends : \A j \in ends : k <= j) - 1
    IN  IF bytes # <<>> /\ Head(bytes) = \hF0 THEN SubSeq(bytes, 2, length)
        ELSE SubSeq(bytes, 1, length)

SysexPackets(length, radix) == (length + radix - 1) \div radix

\* sysexGetPacketOf: the code of the status of packet k of n, from 1 on.
SysexStatus(k, n) ==
    CASE n = 1 -> 0
      [] n # 1 /\ k = 1 -> 1
      [] n # 1 /\ k # 1 /\ k = n -> 3
      [] n # 1 /\ k # 1 /\ k # n -> 2

sysex7(group, bytes) ==
    LET data == Sysex7Bytes(bytes)
        n == SysexPackets(Len(data), 6)
    IN  [k \in 1 .. n |->
            LET size == IF k < n THEN 6 ELSE Len(data) - 6 * (n - 1)
            IN  <<16 * SYSEX7 + (group % 16), 16 * SysexStatus(k, n) + size>>
                    \o Taken(data, 6 * (k - 1), 6)]

\* An empty message is one packet that says START.
sysex8(group, bytes, streamId) ==
    LET n == SysexPackets(Len(bytes), 13)
    IN  [k \in 1 .. (IF n = 0 THEN 1 ELSE n) |->
            LET size == IF k < n THEN 13 ELSE Len(bytes) - 13 * (k - 1)
            IN  <<16 * SYSEX8_MDS + (group % 16), 16 * SysexStatus(k, n) + size + 1, streamId>>
                    \o Taken(bytes, 13 * (k - 1), 13)]

\* takeSysex7Bytes, takeSysex8Bytes: the bytes of one packet.
SysexBytes(u) ==
    IF MessageType(u) = SYSEX7 THEN SubSeq(u, 3, 2 + SysexSize(u))
    ELSE SubSeq(u, 4, 2 + SysexSize(u))

\* getSysex7Data, getSysex8Data
SysexData(umps, type) ==
    FlattenSeq([k \in 1 .. Len(umps) |->
        IF MessageType(umps[k]) = type THEN SysexBytes(umps[k]) ELSE <<>>])

\* mdsGetHeader
mdsHeader(group, mdsId, numBytes, numChunks, chunkIndex, ids) ==
    <<16 * SYSEX8_MDS + (group % 16), \h80 + (mdsId % 16)>>
        \o FlattenSeq([k \in 1 .. 7 |-> Bytes2((<<numBytes, numChunks, chunkIndex>> \o ids)[k])])

\* mdsProcess and mdsGetPayloadOf, for chunks of up to max payloads (65535): a
\* chunk after the first starts at 14 * (max + 1) * c, past which its size is
\* compared with an offset from the start of all data.
mds(group, bytes, mdsId, max) ==
    LET n == SysexPackets(Len(bytes), 14 * (max + 1))
        rest == Len(bytes) % (14 * max)
        ChunkSize(c) == IF c < n \/ rest = 0 THEN 14 * max ELSE rest
        Least(a, b) == IF a < b THEN a ELSE b
        Payload(c, p) ==
            LET offset == 14 * ((max + 1) * (c - 1) + p - 1)
                size == Least(Least(ChunkSize(c) - offset, 14), Len(bytes) - offset)
            IN  IF offset >= Len(bytes) THEN <<>>
                ELSE <<<<16 * SYSEX8_MDS + (group % 16), \h90 + (mdsId % 16)>>
                         \o Taken(SubSeq(bytes, offset + 1, offset + size), 0, 14)>>
    IN  FlattenSeq([c \in 1 .. n |->
            FlattenSeq([p \in 1 .. SysexPackets(ChunkSize(c), 14) |-> Payload(c, p)])])

-----------------------------------------------------------------------------
(* Text in several packets, and the other stream and flex data messages.   *)

\* umpStreamTextProcess, flexDataProcess: the format of packet k of n.
Format(k, n) == IF n = 1 THEN 0 ELSE IF k = 1 THEN 1 ELSE IF k = n THEN 3 ELSE 2

\* Mutant: a text that fills its packets gets one more.
TextPacketsMore(text, capacity) == Len(text) \div capacity + 1

TextPackets(text, capacity) ==
    IF Len(text) <= capacity THEN 1 ELSE SysexPackets(Len(text), capacity)

\* The prefix is a byte of its own, and capacity counts what follows it.
umpStreamText(status, text, prefix) ==
    LET capacity == 14 - Len(prefix)
        n == TextPackets(text, capacity)
    IN  [k \in 1 .. n |->
            <<16 * UMP_STREAM + 4 * Format(k, n), status>> \o prefix
                \o Taken(text, capacity * (k - 1), capacity)]

\* Addresses have two bits; the code lets four through, into the format.
flexDataText(group, address, channel, statusBank, status, text) ==
    LET n == TextPackets(text, 12)
    IN  [k \in 1 .. n |->
            <<16 * FLEX_DATA + (group % 16),
              64 * Format(k, n) + 16 * (address % 4) + (channel % 16), statusBank, status>>
                \o Taken(text, 12 * (k - 1), 12)]

endpointName(text) == umpStreamText(3, text, <<>>)
productInstanceId(text) == umpStreamText(4, text, <<>>)
functionBlockName(block, text) == umpStreamText(\h12, text, <<block>>)

streamMessage(status, rest) == Taken(<<16 * UMP_STREAM, status>> \o rest, 0, 16)

endpointDiscovery(major, minor, filter) ==
    streamMessage(0, <<major, minor, 0, 0, 0, filter % 32>>)

Bit(condition, value) == IF condition THEN value ELSE 0

\* A number of blocks over 127 sets the flag before it.
endpointInfo(major, minor, isStatic, blocks, midi2, midi1, rxJR, txJR) ==
    streamMessage(1, <<major, minor, Bit(isStatic \/ blocks >= 128, 128) + (blocks % 128), 0,
                       Bit(midi2, 2) + Bit(midi1, 1), Bit(rxJR, 2) + Bit(txJR, 1)>>)

deviceIdentity(manufacturer, family, model, revision) ==
    streamMessage(2, <<0, 0>> \o manufacturer \o Bytes2(family) \o Bytes2(model) \o revision)

\* streamConfigRequest (5), streamConfigNotification (6)
streamConfig(status, protocol, rxJR, txJR) ==
    streamMessage(status, <<protocol, Bit(rxJR, 2) + Bit(txJR, 1)>>)

functionBlockDiscovery(block, filter) == streamMessage(\h10, <<block, filter>>)

functionBlockInfo(active, block, hint, midi1, direction, firstGroup, groups, ci, streams) ==
    streamMessage(\h11, <<Bit(active \/ block >= 128, 128) + (block % 128),
                          16 * (hint % 4) + 4 * (midi1 % 4) + (direction % 4),
                          firstGroup, groups, ci, streams>>)

startOfClip == streamMessage(\h20, <<>>)
endOfClip == streamMessage(\h21, <<>>)

flexDataCompleteBinary(group, address, channel, status, data) ==
    Taken(<<16 * FLEX_DATA + (group % 16), 16 * (address % 16) + (channel % 16), 0, status>>
            \o data, 0, 16)

tempo(group, channel, data) == flexDataCompleteBinary(group, 1, channel, 0, data)
timeSignature(group, channel, numerator, denominator, notes32) ==
    flexDataCompleteBinary(group, 1, channel, 1, <<numerator, denominator, notes32>>)
metronome(group, channel, clocks, accents, subdivisions) ==
    flexDataCompleteBinary(group, 1, channel, 2, <<clocks>> \o accents \o subdivisions)

\* Four bits of two's complement.
Sharps(n) == n % 16

keySignature(group, address, channel, sharps, tonic) ==
    flexDataCompleteBinary(group, address, channel, 5, <<16 * Sharps(sharps) + tonic>>)
chordName(group, address, channel, sharps, tonic, type, alters, bassSharps, bass, bType, bAlters) ==
    flexDataCompleteBinary(group, address, channel, 6,
        <<16 * Sharps(sharps) + tonic, type>> \o alters \o <<0, 0>>
            \o <<16 * Sharps(bassSharps) + bass, bType>> \o bAlters)

\* metadataText (bank 1), performanceText (bank 2)
metadataText(group, address, channel, status, text) ==
    flexDataText(group, address, channel, 1, status, text)
performanceText(group, address, channel, status, text) ==
    flexDataText(group, address, channel, 2, status, text)
=============================================================================
