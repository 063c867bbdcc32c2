---------------------------- MODULE UmpTranslation ----------------------------
(***************************************************************************)
(* A run of UmpTranslator over MIDI 1.0 messages: Gather and Translate     *)
(* take one, as one turn of the loop of translateMidi1BytesToUmp does, and *)
(* Finish is the end of the loop.  Two receivers look on: one hears the    *)
(* bytes, the other what the UMPs become as MIDI 1.0 UMPs.                 *)
(***************************************************************************)
EXTENDS UmpTranslator, Midi1Machine

CONSTANTS
    Channels,       \* the channels that occur
    Contexts,       \* contexts to start with: the protocol and two options
    Gatherings,     \* what is translated: parameters, banks and programs,
    Others,         \* and other messages, as sequences of bytes
    Deltas,         \* delta times before these others in a file
    MaxGatherings, MaxOthers    \* bounds: messages in one run

VARIABLES
    context,    \* Midi1ToUmpTranslatorContext
    result,     \* of translateMidi1BytesToUmp
    umps,       \* what the last message has become
    source,     \* a receiver of the bytes
    target,     \* a receiver of the translation
    owner,      \* the channel of the last message that was gathered
    tidy,       \* the sender has kept to the habits SameEffect asks for
    waiting,    \* ticks of the last message: read, less translated
    gatherings, others  \* messages so far

vars == <<context, result, umps, source, target, owner, tidy, waiting, gatherings, others>>

Init ==
    /\ context \in Contexts
    /\ result = "none" /\ umps = <<>> /\ owner = 0 /\ tidy = TRUE /\ waiting = 0 /\ gatherings = 0 /\ others = 0
    /\ source = [c \in Channels |-> NewChannel] /\ target = source

\* write7BitEncodedInt, for the delta times of a file.
QuantityBytes(v) ==
    LET size == CHOOSE n \in 1 .. 4 : v < 128 ^ n /\ (n = 1 \/ v >= 128 ^ (n - 1))
    IN  [k \in 1 .. size |->
            ((v \div 128 ^ (size - k)) % 128) + (IF k < size THEN 128 ELSE 0)]

IsChannelMessage(m) == m[1] < \hF0
IsCC(m, numbers) == m[1] \div 16 = CC /\ m[2] \in numbers

\* What the target hears of UMPs.
Heard(machine, all) ==
    LET midi1 == FlattenSeq([k \in 1 .. Len(all) |-> ToMidi1Ump(all[k])])
        Hear(acc, u) == IF MessageType(u) = MIDI1 /\ StatusCode(u) < 15
                        THEN processMessage(acc, <<StatusByte(u), Midi1Msb(u), Midi1Lsb(u)>>)
                        ELSE acc
    IN  FoldLeft(Hear, machine, midi1)

\* The habits: one parameter at a time, of one kind and of one channel, first
\* its number, then the upper and then the lower half of its data; both halves
\* of a bank and then the program, of one channel; and no increments in between.
PartOf(c, m) ==
    LET open == IF Complete(c) THEN {"rpnState", "nrpnState"}
                ELSE {s \in {"rpnState", "nrpnState"} : c[s] # Empty}
    IN  /\ IsCC(m, {RPN_MSB, RPN_LSB, NRPN_MSB, NRPN_LSB}) =>
              Gathers[m[2]][1] \in open /\ c.dteState = Empty
        /\ IsCC(m, {DTE_MSB}) => Whole(c.rpnState) \/ Whole(c.nrpnState)
        /\ IsCC(m, {DTE_LSB}) => c.dteState[1] # Unset
        /\ IsCC(m, {DTE_INCREMENT, DTE_DECREMENT}) => Complete(c)
        /\ m[1] \div 16 = PROGRAM => c.bankState = Empty \/ Whole(c.bankState)

\* What is gathered is of one channel.
SameChannel(c, m) ==
    /\ IsCC(m, DOMAIN Gathers) =>
            (Complete(c) /\ c.bankState = Empty) \/ owner = m[1] % 16
    /\ m[1] \div 16 = PROGRAM => c.bankState = Empty \/ owner = m[1] % 16

Tidy(c, m) ==
    IsChannelMessage(m) => PartOf(c, m) /\ SameChannel(c, m)

TicksOf(all) ==
    FoldLeft(LAMBDA n, u : n + DeltaClockstamp(u), 0, all)

\* The outcome of the turn that takes message m.
TurnedTo(turn, m, delta) ==
    /\ context' = turn.context
    /\ result' = IF turn.result = "OK" THEN "none" ELSE turn.result
    /\ umps' = turn.umps
    /\ source' = IF IsChannelMessage(m) THEN processMessage(source, m) ELSE source
    /\ target' = Heard(target, turn.umps)
    /\ owner' = IF IsCC(m, DOMAIN Gathers) THEN m[1] % 16 ELSE owner
    /\ tidy' = (tidy /\ Tidy(context, m))
    /\ waiting' = delta - TicksOf(turn.umps)

\* One message, in a file with a delta time before it.  After a breach of the
\* habits the run is not followed any further.
Take(m, delta) ==
    /\ result = "none" /\ tidy
    /\ TurnedTo(LoopTurn(context, IF context.isMidi1Smf THEN QuantityBytes(delta) \o m ELSE m),
                m, delta)

Gather ==
    /\ gatherings < MaxGatherings
    /\ \E m \in Gatherings : Take(m, 0)
    /\ gatherings' = gatherings + 1 /\ UNCHANGED others

Translate ==
    /\ others < MaxOthers
    /\ \E m \in Others, delta \in Deltas :
        /\ ~context.isMidi1Smf => delta = 0
        /\ Take(m, delta)
    /\ others' = others + 1 /\ UNCHANGED gatherings

\* The end of translateMidi1BytesToUmp.
Finish ==
    /\ result = "none"
    /\ result' = IF Complete(context) THEN "OK" ELSE "INVALID_DTE_SEQUENCE"
    /\ UNCHANGED <<context, umps, source, target, owner, tidy, waiting, gatherings, others>>

Next == Gather \/ Translate \/ Finish

Spec == Init /\ [][Next]_vars

-----------------------------------------------------------------------------
\* As long as the sender keeps to the habits, the receiver of the translation
\* knows what the receiver of the bytes knows, whenever nothing is gathered:
\* notes, controllers, parameters, program and pitch bend of every channel.
SameEffect ==
    /\ result \in {"none", "OK"} /\ tidy
    /\ Complete(context) /\ context.bankState = Empty
    => source = target

\* What has a translation back into bytes: all but a mangled system message.
Plain(u) == ~(MessageType(u) = MIDI1 /\ StatusCode(u) = 15)
IsMusic(u) == MessageType(u) \in {MIDI1, MIDI2, SYSEX7}

Becomes(again, music) == again.result = "OK" /\ again.umps = music
BackAgain(back, music) ==
    /\ back.result = "OK"
    /\ Becomes(translateMidi1BytesToUmp(NewContext(context.midiProtocol, FALSE, FALSE), back.bytes),
               music)

\* What a message has become is what its bytes, translated back, become again;
\* it keeps the ticks it was read with, and going to MIDI 2.0 and back changes
\* no UMP of MIDI 1.0.
LastIsFaithful ==
    result \in {"none", "OK"} =>
        LET all == SelectSeq(umps, Plain)
        IN  /\ BackAgain(ToMidi1Bytes(all, TRUE), SelectSeq(all, IsMusic))
            /\ waiting = 0
            /\ \A k \in DOMAIN all :
                MessageType(all[k]) = MIDI1 => ToMidi1Ump(ToMidi2Ump(all[k])) = <<all[k]>>
=============================================================================
