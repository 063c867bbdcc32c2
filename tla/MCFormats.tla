------------------------------ MODULE MCFormats ------------------------------
(***************************************************************************)
(* Formats over small inputs: the closed forms of PropertyChunking against *)
(* the loop they stand for, MIDI-CI messages from Message::serialize       *)
(* through SysEx7 packets to Messenger::processInput, UMPs from UmpFactory *)
(* to the accessors of Ump and to UmpRetriever, MIDI files, JSON, and the  *)
(* lists of the standard properties.  A first state names an area, its     *)
(* successors are the inputs of that area; of the area of translation the  *)
(* behaviours of UmpTranslation follow.                                    *)
(***************************************************************************)
EXTENDS CIMessages, Umps, MidiFiles

CONSTANTS
    MaxHeader, MaxBody, MaxChunk,   \* lengths of property messages
    ChunkSizes,                     \* max_property_chunk_size for messages
    MaxText,                        \* lengths of texts and SysEx data
    MaxPayloads,                    \* of a chunk of mixed data: 65535 in the code
    FileTracks,                     \* tracks to be written and read,
    TimedTracks,                    \* and tracks to be merged
    JsonNumbers, MaxExact, Digits,  \* see Json
    ContextGroup, Notes, Controllers, ParameterNumbers, \* see UmpTranslation
    Contexts, Gatherings, Others, Deltas, MaxGatherings, MaxOthers

P == INSTANCE StandardProperties

VARIABLES
    input,
    context, result, umps, source, target, owner, tidy, waiting, gatherings, others

U == INSTANCE UmpTranslator
translation == <<context, result, umps, source, target, owner, tidy, waiting, gatherings, others>>

T == INSTANCE UmpTranslation WITH Channels <- {0, 1}

Here == \h01020304
There == \h11121314

Commons ==
    {[source |-> Here, destination |-> There, address |-> a] : a \in {0, 1, FunctionBlock}}

Messages(c) ==
    DiscoveryMessages(c) \cup PropertyMessages(c) \cup EndpointMessages(c)
        \cup ProfileMessages(c) \cup ProfileDataMessages(c) \cup ProcessMessages(c)

-----------------------------------------------------------------------------
(* JSON values, and lists of standard properties *)

StringsUpTo(n, alphabet) == UNION {[1 .. k -> alphabet] : k \in 0 .. n}
Characters == {"a", "n", "0001", "u", " ", P!Quote, P!Backslash, P!High, P!Control, "\n"}
Atoms ==
    {P!Null, P!Bool(TRUE), P!Bool(FALSE), P!Num(0), P!Num(-1), P!Str(<<>>),
     P!Str(<<"a", P!Quote>>), P!Arr(<<>>), P!Obj(<<>>), P!Arr(<<P!Num(7), P!Null>>),
     P!Obj(<<P!Quote>> :> P!Arr(<<P!Str(<<"a">>)>>))}
JsonValues ==
    {P!Str(s) : s \in StringsUpTo(3, Characters)} \cup {P!Num(n) : n \in JsonNumbers}
        \cup {P!Arr(<<a, b>>) : a, b \in Atoms}
        \cup {P!Obj((<<"a">> :> a) @@ (<<P!Backslash>> :> b)) : a, b \in Atoms}

OptionalStrings == {<<>>, << <<>> >>, << <<"a", P!Quote>> >>}
OptionalNumbers == {<<>>, <<0>>, <<255>>}
Transmits == {<<>>, P!Absolute, <<"relative">>}
States ==
    [title : {<<>>, <<"a">>}, stateId : {<<"a">>}, stateRev : OptionalStrings,
     timestamp : OptionalNumbers, description : OptionalStrings, size : {<<>>, <<-1>>}]
Controls ==
    {[P!AControl(<<"a">>, t, i) EXCEPT !.channel = n, !.paramPath = s, !.typeHint = s,
        !.ctrlMapId = m, !.transmit = x, !.recognize = y, !.minMax = r,
        !.defaultCCMap = t = <<>>] :
        t \in {<<>>, <<"cc">>}, i \in {<<>>, <<0>>, <<1, 255>>}, n \in OptionalNumbers,
        s, m \in OptionalStrings, x, y \in Transmits,
        r \in {<<>>, <<0, 7>>, <<0, MaxExact>>, <<1, MaxExact>>}}
Programs ==
    [title : {<<>>, <<"a">>}, bankPC : {<<>>, <<0, 1, 127>>},
     category : {<<>>, << <<>> >>, << << <<"a">>, <<>> >> >>},
     tags : {<<>>, << <<>> >>, << << <<"a">>, <<>> >> >>}]
Channels0 ==
    [title : {<<"a">>}, channel : {0, 15, 255}, program_title : {<<>>, <<"a">>},
     bank_msb : {0, 1}, bank_lsb : {0, 127}, program : {0, 1},
     cluster_channel_start : {0, 1}, cluster_length : {1, 2}, is_omni_on : BOOLEAN,
     is_poly_mode : BOOLEAN, cluster_type : {<<>>, <<"OTHER">>, <<"other">>}]
Metadata ==
    {[P!AMetadata(<<"a">>) EXCEPT !.canGet = a, !.canSet = <<b>>, !.canSubscribe = c,
        !.requireResId = ~ a, !.mediaTypes = m, !.encodings = e, !.schema = s,
        !.canPaginate = ~ c, !.columns = l] :
        a, c \in BOOLEAN, b \in {"none", "partial"},
        m \in {<<>>, << <<"application/json">> >>, << <<"text/plain">>, <<"a">> >>},
        e \in {<<>>, << <<"ASCII">> >>, << <<"Mcoded7">> >>},
        s \in {<<>>, <<"a">>, <<"{", "}">>},
        l \in {<<>>, <<[property |-> <<"a">>, link |-> <<>>, title |-> <<"a">>]>>}}
StandardMetadata ==
    {P!stateListMetadata, P!stateMetadata, P!allCtrlListMetadata, P!chCtrlListMetadata,
     P!ctrlMapListMetadata, P!programListMetadata}
Infos ==
    [manufacturer_id : {1, \h123456}, family_id : {0, \h1234}, model_id : {7}, version_id : {\h01020304},
     manufacturer : {<<>>, <<"a">>}, family : {<<"a">>}, model : {<<P!Quote>>},
     version : {<<>>}, serial_number : {<<>>, <<"a">>}]
Lists ==
    {[states |-> <<s>>] : s \in States} \cup {[controls |-> <<c>>] : c \in Controls}
        \cup {[programs |-> <<p, q>>] : p, q \in Programs}
        \cup {[channels |-> <<c>>] : c \in Channels0} \cup {[channels |-> <<>>]}
        \cup {[metadata |-> <<m>>] : m \in Metadata}
        \cup {[metadata |-> <<m, n>>] : m, n \in StandardMetadata}
        \cup {[info |-> i] : i \in Infos}

Maps(n) == <<[value |-> n, title |-> <<"a">>], [value |-> MaxExact, title |-> <<>>]>>
SetCalls ==
    {<<id, resId, n>> : id \in {"CtrlMapList", "State"}, resId \in {"x", "y"}, n \in {0, 7}}
        \cup {<<id, "", n>> : id \in {"StateList", "ProgramList", "ChCtrlList"}, n \in {0, 7}}

-----------------------------------------------------------------------------
Starts ==
    [area : {"lengths", "packets", "data", "files", "merges", "json", "lists", "stores"}]
        \cup [common : Commons]

Init ==
    /\ T!Init
    /\ \/ input \in Starts /\ context = CHOOSE c \in Contexts : TRUE
       \/ input = [area |-> "translation"]

NextInput ==
    \/ /\ input = [area |-> "lengths"]
       /\ \E h \in 0 .. MaxHeader, len \in 0 .. MaxBody, max \in 0 .. MaxChunk :
            input' = [h |-> h, len |-> len, max |-> max]
    \/ /\ input = [area |-> "packets"]
       /\ \E g, c \in {0, 9, 15}, a, b \in {0, 1, 127}, d \in 0 .. 3 :
            input' = [group |-> g, channel |-> c, a |-> a, b |-> b, data |-> d]
    \/ /\ input = [area |-> "data"]
       /\ \E n \in 0 .. MaxText, g \in {0, 15} : input' = [size |-> n, group |-> g]
    \/ /\ input = [area |-> "files"]
       /\ \E events \in FileTracks, disable \in BOOLEAN, spec \in {480, -6360} :
            input' = [disable |-> disable,
                      music |-> [format |-> 1, deltaTimeSpec |-> spec,
                                 tracks |-> <<events, <<>>, Tail(events)>>]]
    \/ /\ input = [area |-> "merges"]
       /\ \E tracks \in TimedTracks :
            input' = [merged |-> [format |-> 1, deltaTimeSpec |-> 4, tracks |-> tracks]]
    \/ /\ input = [area |-> "json"]
       /\ \E v \in JsonValues : input' = [json |-> v]
    \/ /\ input = [area |-> "lists"]
       /\ \E list \in Lists : input' = list
    \/ /\ input = [area |-> "stores"]
       /\ \E calls \in [1 .. 3 -> SetCalls] : input' = [calls |-> calls]
    \/ \E c \in Commons :
        /\ input = [common |-> c]
        /\ \E m \in Messages(c), max \in ChunkSizes : input' = [message |-> m, max |-> max]

Next ==
    \/ NextInput /\ UNCHANGED translation
    \/ input = [area |-> "translation"] /\ T!Next /\ UNCHANGED input

Spec == Init /\ [][Next]_<<input, translation>>

-----------------------------------------------------------------------------
Lesser(a, b) == IF a < b THEN a ELSE b

\* The while loop of midiCIPropertyChunks: the lengths of the payloads still
\* to be cut from `offset` on.
RECURSIVE Loop(_, _, _)
Loop(offset, len, max) ==
    IF offset >= len THEN <<>>
    ELSE LET n == Lesser(RegularCapacity(max), len - offset)
         IN  <<n>> \o Loop(offset + n, len, max)

\* chunk_payloads, as lengths.
Payloads(h, len, max) ==
    IF len = 0 THEN <<0>>
    ELSE LET first == Lesser(Capacity(max, Overhead + h), len)
         IN  IF h > 0 THEN <<first>> \o Loop(first, len, max) ELSE Loop(0, len, max)

\* NumChunks and Offset describe the payloads the loop produces: packet k of
\* the message carries body bytes Offset(k) + 1 .. Offset(k + 1).
MatchesLoop ==
    "len" \in DOMAIN input /\ Sendable(input.h, input.len, input.max) =>
        LET payloads == Payloads(input.h, input.len, input.max)
            Before(k) == Offset(input.h, input.len, input.max, k)
        IN  /\ NumChunks(input.h, input.len, input.max) = Len(payloads)
            /\ \A k \in 1 .. Len(payloads) : Before(k + 1) - Before(k) = payloads[k]

\* No packet exceeds max_property_chunk_size as long as the header alone fits;
\* Messenger::send lowers that size to what the remote device can receive.
Fits ==
    "len" \in DOMAIN input /\ Sendable(input.h, input.len, input.max)
            /\ Overhead + input.h <= input.max =>
        \A k \in 1 .. NumChunks(input.h, input.len, input.max) :
            PacketSize(input.h, input.len, input.max, k) <= input.max

\* A property message of any lengths is cut into the packets the loop of the
\* code makes, at every capacity from none to more than the body, and they fit.
CutIntoPackets == MatchesLoop /\ Fits

-----------------------------------------------------------------------------
\* A SysEx on its way through packets: sysex7 of createMidiCiSession, and the
\* buffer of MidiCISession::processUmpInput.
Carried(bytes) == SysexData(sysex7(0, bytes), SYSEX7)

AlwaysFunctionBlock ==
    {"DiscoveryInquiry", "EndpointInquiry", "EndpointReply", "ProcessInquiryCapabilities",
     "GetPropertyData", "SetPropertyData", "SubscribeProperty", "GetPropertyDataReply",
     "SetPropertyDataReply", "SubscribePropertyReply"}

AlwaysBroadcast ==
    {"DiscoveryInquiry", "ProfileEnabledReport", "ProfileDisabledReport",
     "ProfileAddedReport", "ProfileRemovedReport"}

\* m with the address and the destination CIFactory writes in any case.
Addressed(m) ==
    [m EXCEPT !.address = IF m.type \in AlwaysFunctionBlock THEN FunctionBlock ELSE @,
              !.destination = IF m.type \in AlwaysBroadcast THEN Broadcast ELSE @]

\* What the receiver makes of the packets of a message: the parts of a
\* property message in order, with the header of the first.
Joined(parts) ==
    IF "header" \in DOMAIN parts[1]
    THEN [key \in DOMAIN parts[1] \ {"total", "index"} |->
            IF key = "body" THEN FlattenSeq([k \in 1 .. Len(parts) |-> parts[k].body])
            ELSE parts[1][key]]
    ELSE parts[1]

Received(m, max, muid) ==
    LET packets == Serialize(m, max)
    IN  [k \in 1 .. Len(packets) |-> Read(Carried(packets[k]), muid)]

\* Each packet but the last has an index below the total, the last has it.
Numbered(parts) ==
    \A k \in 1 .. Len(parts) : "total" \in DOMAIN parts[k] =>
        parts[k].total = Len(parts) /\ parts[k].index = k

IsWhole(parts, m) == Numbered(parts) /\ Joined(parts) = Addressed(m)

\* Written in a form that Messenger::processInput does not read: one byte
\* short, sent to the sender itself, or with another length field.
Misread ==
    {"InvalidateMUID", "ProcessInquiryCapabilitiesReply", "ProfileDetailsReply",
     "ProfileSpecificData"}

\* Every other message that Message::serialize writes and SysEx7 packets carry
\* is read by processInput with the members it was made of, whatever the
\* lengths of header and body and the chunk size; with two layers that pack
\* lengths in their own ways, most lengths are in no test.
ReadAsWritten ==
    "message" \in DOMAIN input /\ input.message.type \notin Misread
            /\ Sendable(IF "header" \in DOMAIN input.message
                        THEN Len(input.message.header) ELSE 0,
                        IF "body" \in DOMAIN input.message
                        THEN Len(input.message.body) ELSE 0, input.max) =>
        IsWhole(Received(input.message, input.max, There), input.message)

\* What the answers to m tell the inquirer.
Heard(m, muid) == Read(Carried(Serialize(m, 256)[1]), muid)
Learned(m) == {Heard(a, Here) : a \in Answers(Heard(m, There), There, 4096)}

ProfilesIn(a) ==
    [address : {a.address}, profile : Range(a.enabled), enabled : {TRUE}]
    \cup [address : {a.address}, profile : Range(a.disabled), enabled : {FALSE}]

TellsOf(learned, m) ==
    LET Come(t) == /\ learned # {}
                   /\ \A a \in learned : a.type = t /\ a.source = There /\ a.destination = Here
    IN  CASE m.type = "DiscoveryInquiry" ->
                /\ Come("DiscoveryReply")
                /\ \A a \in learned, key \in DOMAIN OwnDetails : a[key] = OwnDetails[key]
          [] m.type = "EndpointInquiry" ->
                /\ Come("EndpointReply")
                /\ \A a \in learned : a.status = m.status /\ (m.status = 0 => a.data = InstanceId)
          [] m.type = "PropertyGetCapabilities" ->
                /\ Come("PropertyGetCapabilitiesReply")
                /\ \A a \in learned : a.features <= m.features
          [] m.type = "ProfileInquiry" ->
                /\ m.address \in {FunctionBlock, 0} => Come("ProfileReply")
                /\ UNION {ProfilesIn(a) : a \in learned} =
                        {p \in Range(HostProfiles) : m.address \in {FunctionBlock, p.address}}
          [] OTHER -> TRUE

\* An inquiry that arrives is answered to the inquirer: with the identity, the
\* id, the capabilities within those asked for, and for profiles with those of the
\* address asked for, or of every address, none missing and none invented.
AnswerArrives ==
    "message" \in DOMAIN input => TellsOf(Learned(input.message), input.message)

\* What crosses the wire, through both layers and back, is what was meant: each
\* message as it was written, and the answer that the receiver gives to it.
MessagesAreRead == ReadAsWritten /\ AnswerArrives

-----------------------------------------------------------------------------
Word4(n) == <<n, 127 - n, 1, 64 + n>>

\* Packets of every size made of one input.
Samples(i) ==
    <<noop, jrClock(i.data * 300), jrTimestamp(i.data * 300), dctpq(480),
      deltaClockstamp(i.data * 70000), systemMessage(i.group, \hF2, i.a, i.b),
      midi1Message(i.group, NOTE_ON, i.channel, i.a, i.b),
      midi1PitchBend(i.group, i.channel, 128 * i.b + i.a),
      midi2Note(NOTE_ON, i.group, i.channel, i.a, 3, 512 * i.b, 700),
      midi2PAf(i.group, i.channel, i.a, Word4(i.data)),
      midi2Program(i.group, i.channel, 1, i.a, i.b, i.data),
      midi2CAf(i.group, i.channel, Word4(i.data)),
      midi2PitchBend(i.group, i.channel, Word4(i.data)),
      midi2Parameter(RPN, i.group, i.channel, i.a, i.b, Word4(i.data)),
      midi2PerNote(PER_NOTE_RCC, i.group, i.channel, i.a, i.b, Word4(i.data)),
      mdsHeader(i.group, 1, 14, 1, 1, <<2, 3, 4, 5>>),
      endpointDiscovery(1, 1, 31), endpointInfo(1, 1, TRUE, i.a, TRUE, FALSE, TRUE, FALSE),
      deviceIdentity(Word4(0), 300, 400, Word4(1)), streamConfig(5, 2, TRUE, TRUE),
      functionBlockDiscovery(i.a, 3), functionBlockInfo(TRUE, i.a, 1, 2, 3, i.group, 1, 2, 0),
      startOfClip, endOfClip, tempo(i.group, i.channel, Word4(i.data)),
      timeSignature(i.group, i.channel, 3, 4, 8),
      metronome(i.group, i.channel, 24, <<4, 2, 0>>, <<1, 2>>),
      keySignature(i.group, 1, i.channel, -3, 3),
      chordName(i.group, 1, i.channel, -1, 1, 2, <<1, 2, 3, 4>>, 1, 2, 3, <<4, 5>>)>>

AsWritten(all) ==
    LET bytes == FlattenSeq(all)
        In(k, code) == /\ Group(all[k]) = input.group
                       /\ StatusCode(all[k]) = code
                       /\ ChannelInGroup(all[k]) = input.channel
    IN  /\ Parsed(bytes) = all
        /\ \A lost \in 1 .. 3 :
            Parsed(SubSeq(bytes, 1, Len(bytes) - 4 * lost)) = Front(all)
        /\ JRTimestamp(all[3]) = input.data * 300
        /\ DeltaClockstamp(all[5]) = input.data * 70000
        /\ In(7, NOTE_ON) /\ <<Midi1Msb(all[7]), Midi1Lsb(all[7])>> = <<input.a, input.b>>
        /\ In(8, PITCH_BEND)
        /\ Midi1Msb(all[8]) + 128 * Midi1Lsb(all[8]) = 128 * input.b + input.a
        /\ In(9, NOTE_ON) /\ Midi1Msb(all[9]) = input.a
        /\ Midi2Velocity16(all[9]) = 512 * input.b
        /\ In(11, PROGRAM) /\ Midi2BankValid(all[11])
        /\ <<Midi2Program(all[11]), Midi2BankMsb(all[11]), Midi2BankLsb(all[11])>> =
                <<input.a, input.b, input.data>>
        /\ In(14, RPN) /\ Midi2Data(all[14]) = Word4(input.data)
        /\ IsClip(all[23], \h20) /\ IsFlexData(all[25], 0)

\* A stream of packets of all sizes is taken apart where they meet, wherever it
\* ends, and the accessors return what the factory was given.
PacketsAsWritten == "channel" \in DOMAIN input => AsWritten(Samples(input))

Sample(n) == [k \in 1 .. n |-> 1 + ((7 * k) % 120)]

\* Of n packets: which is START, CONTINUE, END or COMPLETE_PACKET.
InOrder(packets) ==
    \A k \in 1 .. Len(packets) :
        BinaryChunkStatus(packets[k]) =
            CASE Len(packets) = 1 -> "COMPLETE_PACKET"
              [] Len(packets) > 1 /\ k = 1 -> "START"
              [] k > 1 /\ k = Len(packets) -> "END"
              [] k > 1 /\ k < Len(packets) -> "CONTINUE"

\* The formats of the packets of a text, and the text itself.
Formats(packets, divisor, at) == [k \in 1 .. Len(packets) |-> (packets[k][at] \div divisor) % 4]
Text(packets, used, size) ==
    SubSeq(FlattenSeq([k \in 1 .. Len(packets) |-> SubSeq(packets[k], used + 1, 16)]), 1, size)
Sequenced(formats) ==
    \/ formats = <<0>>
    \/ formats[1] = 1 /\ formats[Len(formats)] = 3
       /\ \A k \in 2 .. Len(formats) - 1 : formats[k] = 2

\* The last packet of a text has some of it.
NoneIdle(packets, used, text) ==
    Len(packets) = 1 \/ (Len(packets) - 1) * (16 - used) < Len(text)

\* Data of any length arrives whole and once, in packets whose statuses are in
\* order: SysEx7 with and without F0 and F7, SysEx8, mixed data of one chunk,
\* and texts of stream and flex data messages.
DataIsCarried ==
    "size" \in DOMAIN input =>
        LET bytes == Sample(input.size)
            plain == sysex7(input.group, bytes)
            eight == sysex8(input.group, bytes, 5)
            name == endpointName(bytes)
            block == functionBlockName(3, bytes)
            text == metadataText(input.group, 1, 0, 3, bytes)
        IN  /\ SysexData(plain, SYSEX7) = bytes /\ InOrder(plain)
            /\ sysex7(input.group, <<\hF0>> \o bytes \o <<\hF7>>) = plain
            /\ SysexData(eight, SYSEX8_MDS) = bytes /\ (bytes # <<>> => InOrder(eight))
            /\ Len(bytes) <= 14 * MaxPayloads =>
                LET payloads == mds(input.group, bytes, 1, MaxPayloads)
                IN  Text(payloads, 2, Len(bytes)) = bytes
            /\ Text(name, 2, Len(bytes)) = bytes /\ Sequenced(Formats(name, 4, 1))
            /\ Text(block, 3, Len(bytes)) = bytes /\ Sequenced(Formats(block, 4, 1))
            /\ Text(text, 4, Len(bytes)) = bytes /\ Sequenced(Formats(text, 64, 2))
            /\ NoneIdle(name, 2, bytes) /\ NoneIdle(block, 3, bytes) /\ NoneIdle(text, 4, bytes)

\* What the factory writes is what the accessors and the retriever read: the
\* members of single packets, and data that spans any number of them.
UmpsAreRead == PacketsAsWritten /\ DataIsCarried
-----------------------------------------------------------------------------
\* What comes back of a track: long META events in pieces, and an end.
Stored(events) ==
    LET Split(e) ==
            IF e.message.status # META THEN <<e>>
            ELSE [k \in 1 .. Pieces(Len(e.message.data)) |->
                    Event(IF k = 1 THEN e.deltaTime ELSE 0,
                          [e.message EXCEPT !.data =
                              SubSeq(@, 127 * (k - 1) + 1, Lesser(127 * k, Len(@)))])]
        end == Event(0, Message(META, END_OF_TRACK, 0, <<>>))
    IN  FlattenSeq([k \in DOMAIN events |-> Split(events[k])])
            \o (IF EndsTrack(events) THEN <<>> ELSE <<end>>)

\* A music that is written is read back whatever the lengths of times, META
\* events and SysEx, with and without running status: the size written before
\* a track, computed by other code than what writes it, is the size it has.
FilesReadBack ==
    "music" \in DOMAIN input =>
        ReadMusic(WriteMusic(input.music, input.disable)) =
            [valid |-> TRUE,
             music |-> [input.music EXCEPT !.tracks = [k \in DOMAIN @ |-> Stored(@[k])]]]

\* The events with the number of a track in their last byte.
OfTrack(events, n) == SelectSeq(events, LAMBDA e : e.message.lsb = n)
Timed(events) == [k \in DOMAIN events |-> Event(Times(events)[k], events[k].message)]

\* The tempo that counts from time t on.
TempoAt(events, t) ==
    LET before == {k \in DOMAIN events : IsTempo(events[k]) /\ Times(events)[k] <= t}
    IN  IF before = {} THEN DEFAULT_TEMPO ELSE TempoValue(events[Max(before)])

\* Merged tracks have every event of every track, at its time and in the order
\* of its track, whatever the sort does with equal times; and the play time
\* grows with each tick by the tempo that counts then, up to the end.
MergeKeepsTimes ==
    "merged" \in DOMAIN input =>
        \A music \in mergeTracks(input.merged) :
            LET events == music.tracks[1]
                total == getTotalTicks(events)
                PlayTime(n) == PlayTimeAt(events, n)
            IN  /\ \A n \in 1 .. 3 :
                    OfTrack(Timed(events), n) = Timed(input.merged.tracks[n])
                /\ Len(events) = FoldLeft(LAMBDA k, track : k + Len(track), 0, input.merged.tracks)
                /\ PlayTime(0) = 0 /\ PlayTime(total + 1) = PlayTime(total)
                /\ \A n \in 1 .. total :
                    PlayTime(n) = PlayTime(n - 1) + TempoAt(events, n - 1)

\* Nothing of a music is lost on its way to a file and back, or when its tracks
\* are merged to be played.
MusicIsKept == FilesReadBack /\ MergeKeepsTimes
-----------------------------------------------------------------------------
\* Strings that come back: without bytes from 80 on, and without a backslash
\* before what makes an escape.
PlainString(s) ==
    \A i \in DOMAIN s : /\ s[i] # P!High
                        /\ s[i] = P!Backslash /\ i < Len(s) =>
                             /\ s[i + 1] \notin DOMAIN P!Unescapes
                             /\ ~ (i + 2 <= Len(s) /\ s[i + 1] = "u"
                                    /\ s[i + 2] \in DOMAIN P!Decoded4)
PlainNumber(n) == n \in 0 .. MaxExact \/ P!Magnitude(n) < 10 ^ Digits

RECURSIVE Plain(_)
Plain(v) ==
    CASE P!Is(v, "string") -> PlainString(v.string)
      [] P!Is(v, "number") -> PlainNumber(v.number)
      [] P!Is(v, "array") -> \A i \in DOMAIN v.array : Plain(v.array[i])
      [] P!Is(v, "object") -> \A k \in DOMAIN v.object : PlainString(k) /\ Plain(v.object[k])
      [] OTHER -> TRUE

\* v has, as far as it goes, the items and members of w.
PartOf(v, w) ==
    CASE P!Is(v, "array") -> P!Is(w, "array") /\ IsPrefix(v.array, w.array)
      [] P!Is(v, "object") -> /\ P!Is(w, "object")
                              /\ \A k \in DOMAIN v.object :
                                    k \in DOMAIN w.object /\ v.object[k] = w.object[k]
      [] OTHER -> v = w

NothingElse(cut, v) == cut = P!Failed \/ PartOf(cut, v)
ReadBack(text, v) ==
    /\ Plain(v) => /\ P!Parse(text) = v
                   /\ \A n \in 0 .. Len(text) - 1 : NothingElse(P!Parse(SubSeq(text, 1, n)), v)
    /\ P!Is(v, "number") /\ ~ PlainNumber(v.number) =>
            P!Parse(text) = P!Num(P!Rounded(v.number))

\* Every JSON value comes back from its text, escapes included, but for strings
\* that are unescaped twice or have bytes beyond ASCII, and numbers that have
\* more digits than are written; and of a text that is cut off, as by a lost
\* chunk, nothing is read that was not written.
JsonReadBack ==
    "json" \in DOMAIN input => ReadBack(P!Serialized(input.json), input.json)

Usual(s, default) == IF s = <<>> THEN default ELSE s
NotEmpty(o) == IF o = << <<>> >> THEN <<>> ELSE o

\* What comes back of a control: recognize only with another transmit, and of
\* what the standard wants to have a length only what has one.
ControlKept(c) ==
    [c EXCEPT !.transmit = Usual(@, P!Absolute),
              !.recognize = IF c.transmit = P!Absolute THEN P!Absolute ELSE Usual(@, P!Absolute),
              !.ctrlIndex = Usual(@, <<0>>), !.minMax = Usual(@, <<0, MaxExact>>),
              !.paramPath = NotEmpty(@), !.ctrlMapId = NotEmpty(@)]

Kept(record, names) == [name \in names |-> record[name]]

LastSet(calls, id, resId) ==
    LET at == {i \in DOMAIN calls : calls[i][1] = id /\ calls[i][2] = resId}
    IN  IF at = {} THEN <<>> ELSE <<calls[Max(at)][3]>>

AState(n) ==
    [title |-> <<"a">>, stateId |-> <<"a">>, stateRev |-> <<>>, timestamp |-> <<n>>,
     description |-> <<>>, size |-> <<n>>]
AControl(n) == P!AControl(<<"a">>, <<"cc">>, <<n>>)
AProgram(n) == [title |-> <<"a">>, bankPC |-> <<n, n, n>>, category |-> <<>>, tags |-> <<>>]

Called(values, call) ==
    CASE call[1] = "StateList" -> P!setStateList(values, <<AState(call[3])>>)
      [] call[1] = "ProgramList" -> P!setProgramList(values, <<AProgram(call[3])>>)
      [] call[1] = "ChCtrlList" -> P!setControlList(values, call[1], <<AControl(call[3])>>)
      [] call[1] = "CtrlMapList" -> P!setCtrlMapList(values, call[2], Maps(call[3]))
      [] call[1] = "State" -> P!setState(values, call[2], <<call[3]>>)

\* back has what was written, but for the members named.
KeptBut(back, written, lost) ==
    /\ Len(back) = Len(written)
    /\ \A i \in DOMAIN back :
        LET sure == DOMAIN back[i] \ lost IN Kept(back[i], sure) = Kept(written[i], sure)

\* What is got after the calls.
GotBack(values, calls) ==
    LET LastOf(id, resId, Of(_)) == P!Each(LastSet(calls, id, resId), Of)
    IN  /\ P!getControlList(values, "AllCtrlList") = <<>>
        /\ P!getControlList(values, "ChCtrlList") =
                LastOf("ChCtrlList", "", LAMBDA n : <<AControl(n)>>)
        /\ P!getStateList(values) = LastOf("StateList", "", LAMBDA n : <<AState(n)>>)
        /\ P!getProgramList(values) = LastOf("ProgramList", "", LAMBDA n : <<AProgram(n)>>)
        /\ \A id \in {"x", "y"} :
            /\ P!getCtrlMapList(values, id) = LastOf("CtrlMapList", id, Maps)
            /\ P!getState(values, id) = LastOf("State", id, LAMBDA n : <<n>>)

\* Through a property of a device.
Through(id, resId, v) == P!SetValue(<<>>, id, resId, P!Serialized(v))

\* Lists of structs come back from JSON with every member, written or usual,
\* but for: recognize beside an absolute transmit, the ids of a device, which
\* are written as bytes and read as numbers, omni mode and the cluster type
\* OTHER of a channel, and the schema and columns of a property.  And through
\* the getters a device has what was last set, for each property and id.
ListsReadBack ==
    CASE "states" \in DOMAIN input ->
            P!parseStateList(P!stateListJson(input.states)) = input.states
      [] "controls" \in DOMAIN input ->
            P!parseControlList(P!controlListJson(input.controls))
                = P!Each(input.controls, ControlKept)
      [] "programs" \in DOMAIN input ->
            P!parseProgramList(P!programListJson(input.programs))
                = P!Each(input.programs, LAMBDA p :
                     [p EXCEPT !.category = NotEmpty(@), !.tags = NotEmpty(@)])
      [] "channels" \in DOMAIN input ->
            KeptBut(P!getChannelList(Through("ChannelList", "", P!ChannelListJson(input.channels)))[1],
                    P!Each(input.channels, LAMBDA c :
                        [c EXCEPT !.cluster_type = IF @ = <<"OTHER">> THEN <<>> ELSE @]),
                    {"is_omni_on"})
      [] "metadata" \in DOMAIN input ->
            KeptBut(P!getMetadataListForBody(P!resourceListJson(input.metadata)),
                    input.metadata, {"schema", "columns"})
      [] "info" \in DOMAIN input ->
            KeptBut(P!getDeviceInfo(Through("DeviceInfo", "x", P!DeviceInfoJson(input.info))),
                    <<input.info>>, {"manufacturer_id", "family_id", "model_id", "version_id"})
      [] "calls" \in DOMAIN input -> GotBack(FoldLeft(Called, <<>>, input.calls), input.calls)
      [] OTHER -> TRUE

\* What the standard properties hold survives its JSON text, and whatever JSON
\* text is read, cut off or not, it gives no value that was not written.
JsonIsRead == JsonReadBack /\ ListsReadBack
-----------------------------------------------------------------------------
\* As long as the sender of MIDI 1.0 bytes keeps to the habits of Tidy, the
\* receiver of their translation to UMPs knows what the receiver of the bytes
\* knows, whenever nothing is gathered.
SameEffect == T!SameEffect

\* What a message has become is what its bytes, translated back, become again.
LastIsFaithful == T!LastIsFaithful
-----------------------------------------------------------------------------
MCValues == {0, 1, 127}
MCNumbers == {1, \h123456}
MCJsonNumbers == {-99999, -12345, -12300, -1000, -999, -1, 0, 1, 2, 4, 7, 15, 16, 18, 52, 86, 127, 255, 256, 999,
                  1000, 9999, 10000, 12345, 12300, 99900, 99950, -100000, 100000, 3}
MCChannels == {0, 1, 300}
MCProfile(n) == <<126, n, 1, 1, n>>
MCProfileSets == {<<>>, <<MCProfile(1)>>, <<MCProfile(1), MCProfile(2)>>}
MCDatas == {Sample(n) : n \in {0, 3, 20, 130}}
MCRequestIds == {0, 1, 127}
MCOwnDetails == [manufacturer |-> 5, family |-> 1, model |-> 2, revision |-> \h01020304]
MCInstanceId == <<49, 50, 51>>
MCHostProfiles ==
    <<[address |-> 0, profile |-> MCProfile(1), enabled |-> TRUE],
      [address |-> FunctionBlock, profile |-> MCProfile(1), enabled |-> FALSE],
      [address |-> 0, profile |-> MCProfile(2), enabled |-> FALSE]>>
MCFileTracks ==
    LET Metas == {Message(META, 1, 0, Sample(n)) : n \in {0, 3, 126, 127, 128, 254, 255, 381}}
        Plains == {Message(144, 60, 100, <<>>), Message(128, 60, 0, <<>>), Message(192, 5, 0, <<>>),
                   Message(224, 0, 64, <<>>), Message(SYSEX, 0, 0, Sample(3)),
                   Message(SYSEX, 0, 0, Sample(130)), Message(SYSEX_END, 0, 0, <<>>),
                   Message(META, END_OF_TRACK, 0, <<>>)}
        Events(deltas) == {Event(d, m) : d \in deltas, m \in Metas \cup Plains}
    IN  {<<a, b>> : a \in Events({0, 127, 128, 16384, \hFFFFFFF}), b \in Events({0})}
            \cup {<<Event(0, m), Event(1, n), Event(200, m)>> : m, n \in Plains}

\* Notes and changes of tempo with the number of the track in their last byte.
MCTimedTracks ==
    LET Note(n) == Message(144, 60, n, <<>>)
        Tempo(n) == Message(META, TEMPO, n, <<0, n, 7>>)
        Events(n) == {Event(d, m) : d \in {0, 1, 2}, m \in {Note(n), Tempo(n)}}
        Short(n) == {<<>>} \cup {<<e>> : e \in Events(n)}
        Long(n) == {<<e, Event(d, Note(n))>> : e \in Events(n), d \in {0, 1, 2}}
    IN  (Long(1) \X Long(2) \X {<<>>}) \cup (Long(1) \X Short(2) \X Short(3))

\* For the translation: all messages on channel 0, parameters and programs also
\* on channel 1, and for files delta times and meta events.
MCGatherings ==
    {<<176 + c, RPN_MSB, 0>> : c \in {0, 1}} \cup {<<176 + c, RPN_LSB, 0>> : c \in {0, 1}}
        \cup {<<176 + c, DTE_MSB, 1>> : c \in {0, 1}} \cup {<<176 + c, DTE_LSB, 5>> : c \in {0, 1}}
        \cup {<<176, RPN_LSB, 1>>, <<176, NRPN_MSB, 1>>, <<176, NRPN_LSB, 0>>,
              <<176, DTE_MSB, 100>>, <<176, BANK_SELECT, 3>>, <<176, BANK_SELECT_LSB, 4>>,
              <<192, 9>>, <<193, 8>>}

MCChannelMessages ==
    {<<176, 7, 100>>, <<176, DTE_INCREMENT, 1>>, <<144, 60, 100>>, <<128, 60, 1>>,
     <<160, 60, 9>>, <<208, 77>>, <<224, 1, 127>>}

MCSystemMessages ==
    {<<\hF0, \hF7>>, <<\hF0>> \o [k \in 1 .. 7 |-> 127 - k] \o <<\hF7>>, <<\hF0, 1>>,
     <<\hF8>>, <<\hF2, 1, 2>>}

MCMetaEvents ==
    {<<\hFF, \h51, 3, 7, 161, 32>>, <<\hFF, \h58, 4, 6, 3, 24, 8>>, <<\hFF, \h59, 2, 253, 1>>,
     <<\hFF, 3, 2, 72, 105>>, <<\hFF, \h2F, 0>>, <<\hFF, \h51, 1, 7>>}

MCOthers == MCChannelMessages \cup MCSystemMessages \cup MCMetaEvents
MCContexts ==
    {U!NewContext("UMP", reordered, FALSE) : reordered \in BOOLEAN}
        \cup {U!NewContext("UMP", FALSE, TRUE), U!NewContext("MIDI1", FALSE, FALSE)}
MCDeltas == {0, 3 * \hFFFFF + 200}
MCControllers == DOMAIN U!Gathers \cup {7, DTE_INCREMENT}
MCParameterNumbers == {0, 1, 128, 129}
=============================================================================
