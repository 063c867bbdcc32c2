--------------------------- MODULE SysexAssembly ---------------------------
(***************************************************************************)
(* SysEx7: UmpFactory cuts a message into packets of 6 bytes, and three    *)
(* receivers put the packets together again and hand a MIDI-CI message to  *)
(* the device: MidiCISession, CIDeviceManager of the tooling, and          *)
(* KeyboardController of midicci-app.  Each has one buffer for the packets *)
(* of all its ports and groups.  The keyboard also keeps what it sent      *)
(* lately, to ignore it when a loop in the MIDI setup brings it back.      *)
(*                                                                         *)
(* A transmission is one sending of a message on a stream (a group of a    *)
(* port).  Its packets arrive in order, or stop halfway; those of          *)
(* different streams interleave.  The bytes of a packet are named by       *)
(* transmission and index; a transmission in the middle does not look like *)
(* the head of a MIDI-CI message.                                          *)
(***************************************************************************)
EXTENDS Integers, Sequences, FiniteSets

CONSTANTS
    Transmissions,
    Content,    \* Content[t]: the message t carries, numbered in byte order
    Length,     \* Length[t]: its size in bytes, without F0 and F7
    Ci,         \* transmissions of MIDI-CI messages
    Own,        \* echoes of messages the keyboard sent itself
    Streams,
    Route,      \* Route[t]: the stream t arrives on
    Radix,      \* SYSEX7_RADIX: 6
    Limit       \* sent messages the keyboard remembers: 10

ASSUME AssemblyAssumption ==
    /\ Content \in [Transmissions -> Nat]
    /\ Length \in [Transmissions -> Nat \ {0}]
    /\ Own \subseteq Ci /\ Ci \subseteq Transmissions
    /\ Route \in [Transmissions -> Streams]
    /\ Radix \in Nat \ {0} /\ Limit \in Nat
    /\ \A t \in Ci : Length[t] > Radix    \* the common header has 13 bytes

\* A message carries the MUID of its sender: no peer sends the bytes of an own
\* message.
ASSUME SourceAssumption ==
    \A t \in Transmissions \ Own, own \in Own : Content[t] # Content[own]

VARIABLES
    arrived,        \* arrived[t]: packets of t so far
    cut,            \* transmissions that stopped halfway
    disturbed,      \* history: packets of another stream came in between
    session_buffer, \* buffered_sysex7_ of MidiCISession
    manager_buffer, \* buffered_sysex7_ of CIDeviceManager
    processed,      \* history: what these two gave to the device they share
    sysex_buffer,   \* of KeyboardController
    sysex_in_progress,
    recentOutgoing, \* recentOutgoingSysEx
    accepted,       \* history: what KeyboardController gave to its device
    sent            \* history: what it sent, in order

streams == <<arrived, cut, disturbed>>
tool == <<session_buffer, manager_buffer, processed>>
keyboard == <<sysex_buffer, sysex_in_progress, recentOutgoing, accepted>>
vars == <<streams, tool, keyboard, sent>>

Init ==
    /\ arrived = [t \in Transmissions |-> 0]
    /\ cut = {}
    /\ disturbed = {}
    /\ session_buffer = <<>>
    /\ manager_buffer = <<>>
    /\ processed = {}
    /\ sysex_buffer = <<>>
    /\ sysex_in_progress = FALSE
    /\ recentOutgoing = {}
    /\ accepted = {}
    /\ sent = <<>>

-----------------------------------------------------------------------------
\* sysex7GetPacketCount
PacketCount(t) == (Length[t] + Radix - 1) \div Radix

\* sysexGetPacketOf: the status of the i-th packet.
Status(t, i) ==
    CASE PacketCount(t) = 1 -> "complete"
      [] PacketCount(t) > 1 /\ i = 1 -> "start"
      [] i > 1 /\ i = PacketCount(t) -> "end"
      [] i > 1 /\ i < PacketCount(t) -> "continue"

\* sysex7Process: all packets of a message, in order.
Packets(t) == [i \in 1 .. PacketCount(t) |-> <<t, i>>]

\* The head of MIDI-CI, 7E, any, 0D, is in the first packet of a message.
IsCi(buffer) == buffer # <<>> /\ Head(buffer)[1] \in Ci /\ Head(buffer)[2] = 1

HandedOver(buffer, t) == [what |-> buffer, stream |-> Route[t]]

-----------------------------------------------------------------------------
\* Mutant: a start does not clear.
GatheredOnto(buffer, t, i) == Append(buffer, <<t, i>>)

Gathered(buffer, t, i) ==
    Append(IF Status(t, i) = "start" THEN <<>> ELSE buffer, <<t, i>>)

Ends(buffer, t, i) == Status(t, i) \in {"end", "complete"} /\ IsCi(buffer)

\* What ends without being MIDI-CI stays in the buffer.
Kept(buffer, t, i) == IF Ends(buffer, t, i) THEN <<>> ELSE buffer

Given(by, buffer, t, i) ==
    IF Ends(buffer, t, i) THEN {<<by, HandedOver(buffer, t)>>} ELSE {}

\* MidiCISession::processUmpInput, then, on the same thread, the same again
\* in CIDeviceManager::process_single_ump_packet: both give the message to
\* the one device of the session, which takes it twice.
ToolReceives(t, i) ==
    LET inSession == Gathered(session_buffer, t, i)
        inManager == Gathered(manager_buffer, t, i)
    IN
    /\ session_buffer' = Kept(inSession, t, i)
    /\ manager_buffer' = Kept(inManager, t, i)
    /\ processed' = processed \cup Given("session", inSession, t, i)
                              \cup Given("manager", inManager, t, i)

\* The contents of a buffer, and of a whole transmission.
Bytes(buffer) == [k \in 1 .. Len(buffer) |-> <<Content[buffer[k][1]], buffer[k][2]>>]

\* Found in recentOutgoingSysEx: bytes the keyboard sent.
IsEcho(buffer) ==
    \E t \in Own : Content[t] \in recentOutgoing /\ Bytes(buffer) = Bytes(Packets(t))

\* Mutant: the flag stays up after the end.
KeyboardCompletesOpen(buffer, t) ==
    /\ sysex_buffer' = buffer
    /\ UNCHANGED <<sysex_in_progress, recentOutgoing>>
    /\ accepted' =
            IF IsCi(buffer) /\ ~IsEcho(buffer)
            THEN accepted \cup {HandedOver(buffer, t)} ELSE accepted

\* An echo is ignored and forgotten; processSysExForMidiCI takes the others.
KeyboardCompletes(buffer, t) ==
    /\ sysex_buffer' = buffer
    /\ sysex_in_progress' = FALSE
    /\ recentOutgoing' =
            IF IsEcho(buffer) THEN recentOutgoing \ {Content[Head(buffer)[1]]}
            ELSE recentOutgoing
    /\ accepted' =
            IF IsCi(buffer) /\ ~IsEcho(buffer)
            THEN accepted \cup {HandedOver(buffer, t)} ELSE accepted

KeyboardStarts(t, i) ==
    /\ sysex_buffer' = <<<<t, i>>>>
    /\ sysex_in_progress' = TRUE
    /\ UNCHANGED <<recentOutgoing, accepted>>

\* Mutant: a packet is taken without a start.
KeyboardGathersAny(t, i) ==
    \/ /\ Status(t, i) = "continue"
       /\ sysex_buffer' = Append(sysex_buffer, <<t, i>>)
       /\ UNCHANGED <<sysex_in_progress, recentOutgoing, accepted>>
    \/ Status(t, i) = "end" /\ KeyboardCompletes(Append(sysex_buffer, <<t, i>>), t)

KeyboardGathers(t, i) ==
    \/ /\ ~sysex_in_progress
       /\ UNCHANGED keyboard
    \/ /\ sysex_in_progress /\ Status(t, i) = "continue"
       /\ sysex_buffer' = Append(sysex_buffer, <<t, i>>)
       /\ UNCHANGED <<sysex_in_progress, recentOutgoing, accepted>>
    \/ /\ sysex_in_progress /\ Status(t, i) = "end"
       /\ KeyboardCompletes(Append(sysex_buffer, <<t, i>>), t)

\* KeyboardController::onMidiInput
KeyboardReceives(t, i) ==
    \/ Status(t, i) = "complete" /\ KeyboardCompletes(<<<<t, i>>>>, t)
    \/ Status(t, i) = "start" /\ KeyboardStarts(t, i)
    \/ Status(t, i) \in {"continue", "end"} /\ KeyboardGathers(t, i)

-----------------------------------------------------------------------------
Underway == {t \in Transmissions \ cut : arrived[t] \in 1 .. PacketCount(t) - 1}

\* The next packet of t.  An echo follows the sending of its message.
Packet(t) ==
    LET i == arrived[t] + 1 IN
    /\ t \notin cut
    /\ i <= PacketCount(t)
    /\ t \in Own => \E k \in 1 .. Len(sent) : sent[k] = t
    /\ \A u \in Underway \ {t} : Route[u] # Route[t]
    /\ arrived' = [arrived EXCEPT ![t] = i]
    /\ disturbed' = disturbed \cup (Underway \ {t})
    /\ ToolReceives(t, i)
    /\ KeyboardReceives(t, i)
    /\ UNCHANGED <<cut, sent>>

\* The sender of t gives up, or its port is closed.
Cut(t) ==
    /\ t \in Underway
    /\ cut' = cut \cup {t}
    /\ UNCHANGED <<arrived, disturbed, tool, keyboard, sent>>

\* Mutant: trimmed one too early.
TrimmedEarly(recent) ==
    IF Cardinality(recent) < Limit THEN recent
    ELSE {c \in recent : \E d \in recent : d < c}

\* At more than Limit messages the first in byte order goes.
Trimmed(recent) ==
    IF Cardinality(recent) <= Limit THEN recent
    ELSE {c \in recent : \E d \in recent : d < c}

\* KeyboardController::sendSysExViaMidi; whether and when t comes back is
\* left to Packet.
Send(t) ==
    /\ t \in Own
    /\ \A k \in 1 .. Len(sent) : sent[k] # t
    /\ recentOutgoing' = Trimmed(recentOutgoing \cup {Content[t]})
    /\ sent' = Append(sent, t)
    /\ UNCHANGED <<streams, tool, sysex_buffer, sysex_in_progress, accepted>>

Next == \E t \in Transmissions : Packet(t) \/ Cut(t) \/ Send(t)

Spec == Init /\ [][Next]_vars

-----------------------------------------------------------------------------
AllHanded == accepted \cup {p[2] : p \in processed}

\* Every variable keeps its type; the keyboard is gathering only between a
\* start and an end, and remembers no more than Limit messages.
TypeOK ==
    /\ arrived \in [Transmissions -> Nat]
    /\ \A t \in Transmissions : arrived[t] <= PacketCount(t)
    /\ cut \subseteq Transmissions /\ disturbed \subseteq Transmissions
    /\ session_buffer \in Seq(Transmissions \X (Nat \ {0}))
    /\ manager_buffer \in Seq(Transmissions \X (Nat \ {0}))
    /\ sysex_buffer \in Seq(Transmissions \X (Nat \ {0}))
    /\ sysex_in_progress \in BOOLEAN
    /\ sysex_in_progress =>
        LET last == sysex_buffer[Len(sysex_buffer)]
        IN  Status(last[1], last[2]) \in {"start", "continue"}
    /\ recentOutgoing \subseteq {Content[t] : t \in Own}
    /\ Cardinality(recentOutgoing) <= Limit
    /\ \A h \in AllHanded :
        h.what \in Seq(Transmissions \X (Nat \ {0})) /\ h.stream \in Streams
    /\ sent \in Seq(Own)

\* What the tooling or the keyboard gives to a device begins with a MIDI-CI
\* message and is exactly that message, from its own group, unless packets
\* of another stream came in between or the message was cut off: no byte
\* of an earlier or a later message is ever mixed into a good one.
HandedIsWhole ==
    \A h \in AllHanded :
        LET t == Head(h.what)[1] IN
        /\ IsCi(h.what)
        /\ t \in disturbed \cup cut \/ h = HandedOver(Packets(t), t)

Whole(t) == t \notin disturbed /\ arrived[t] = PacketCount(t)

\* A MIDI-CI message that arrived undisturbed was handed over, whatever was
\* left in the buffers by messages before it; only the keyboard leaves out
\* echoes of its own.
MessagesAreHeard ==
    \A t \in Ci : Whole(t) =>
        /\ \A by \in {"session", "manager"} : <<by, HandedOver(Packets(t), t)>> \in processed
        /\ t \notin Own => HandedOver(Packets(t), t) \in accepted

\* The contents of t were sent only once.
SentOnce(t) ==
    \A k, l \in 1 .. Len(sent) :
        Content[sent[k]] = Content[t] /\ Content[sent[l]] = Content[t] => k = l

\* While no more than Limit messages were sent, none of them that was sent
\* once is taken from an echo.
FewEchoesIgnored ==
    Len(sent) <= Limit =>
        \A t \in Own : SentOnce(t) => HandedOver(Packets(t), t) \notin accepted

\* What arrives whole is handed over if and only if it should be: messages of
\* peers however broken those before them, echoes not, as long as the keyboard
\* remembers what it sent.
WholeIsHanded == MessagesAreHeard /\ FewEchoesIgnored
=============================================================================
