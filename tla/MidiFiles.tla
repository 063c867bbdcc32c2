------------------------------- MODULE MidiFiles -------------------------------
(***************************************************************************)
(* Standard MIDI Files: Midi1Writer and Midi1Reader, and what Midi1Music   *)
(* computes of tracks.  A message is [status, msb, lsb, data], where data  *)
(* is that of a Midi1CompoundMessage and empty for the others; a track is  *)
(* a sequence of events [deltaTime, message].                              *)
(***************************************************************************)
EXTENDS Integers, Sequences, SequencesExt, FiniteSets, FiniteSetsExt

META == 255
SYSEX == 240
SYSEX_END == 247
END_OF_TRACK == 47
TEMPO == 81
DEFAULT_TEMPO == 500000

Message(status, msb, lsb, data) == [status |-> status, msb |-> msb, lsb |-> lsb, data |-> data]
Event(deltaTime, message) == [deltaTime |-> deltaTime, message |-> message]

getStatusCode(status) ==
    IF status \in {META, SYSEX, SYSEX_END} THEN status ELSE status - (status % 16)

fixedDataSize(statusByte) ==
    CASE statusByte \in {\hF1, \hF3} -> 1
      [] statusByte = \hF2 -> 2
      [] statusByte >= \hF0 /\ statusByte \notin {\hF1, \hF2, \hF3} -> 0
      [] statusByte \in \hC0 .. \hDF -> 1
      [] OTHER -> 2

Big(v, n) == [k \in 1 .. n |-> (v \div 256 ^ (n - k)) % 256]

-----------------------------------------------------------------------------
(* Midi1Writer.                                                            *)

get7BitEncodedLength(v) ==
    IF v = 0 THEN 1 ELSE CHOOSE n \in 1 .. 5 : v \div 128 ^ (n - 1) \in 1 .. 127

write7BitEncodedInt(v) ==
    LET size == get7BitEncodedLength(v)
    IN  [k \in 1 .. size |->
            ((v \div 128 ^ (size - k)) % 128) + (IF k < size THEN 128 ELSE 0)]

Pieces(length) == IF length = 0 THEN 1 ELSE (length + 126) \div 127

\* defaultMetaEventWriter: a long event becomes several of the same time.
MetaEventBytes(m) ==
    LET Piece(k) ==
            LET data == SubSeq(m.data, 127 * (k - 1) + 1,
                               IF 127 * k < Len(m.data) THEN 127 * k ELSE Len(m.data))
            IN  (IF k > 1 THEN <<0>> ELSE <<>>) \o <<META, m.msb, Len(data)>> \o data
    IN  FlattenSeq([k \in 1 .. Pieces(Len(m.data)) |-> Piece(k)])

\* Mutant: the time of the last piece is not counted.
MetaEventSizeShort(m) ==
    LET repeatCount == Len(m.data) \div 127
        mod == Len(m.data) % 127
    IN  IF repeatCount = 0 THEN 3 + Len(m.data)
        ELSE repeatCount * 131 - 1 + (IF mod > 0 THEN 3 + mod ELSE 0)

\* defaultMetaEventWriter, when it only counts.
MetaEventSize(m) ==
    LET repeatCount == Len(m.data) \div 127
        mod == Len(m.data) % 127
    IN  IF repeatCount = 0 THEN 3 + Len(m.data)
        ELSE repeatCount * 131 - 1 + (IF mod > 0 THEN 4 + mod ELSE 0)

EndsTrack(events) ==
    \E k \in DOMAIN events : events[k].message.status = META /\ events[k].message.msb = END_OF_TRACK

\* The status of the event before.
RunningStatus(events, k) == IF k = 1 THEN 0 ELSE events[k - 1].message.status
WritesStatus(events, k, disableRunningStatus) ==
    disableRunningStatus \/ events[k].message.status # RunningStatus(events, k)

\* getTrackDataSize
getTrackDataSize(events, disableRunningStatus) ==
    LET Size(k) ==
            LET m == events[k].message
            IN  get7BitEncodedLength(events[k].deltaTime)
                + CASE m.status = META -> MetaEventSize(m)
                    [] m.status \in {SYSEX, SYSEX_END} ->
                            1 + get7BitEncodedLength(Len(m.data)) + Len(m.data)
                    [] OTHER ->
                            (IF WritesStatus(events, k, disableRunningStatus) THEN 1 ELSE 0)
                            + fixedDataSize(getStatusCode(m.status))
    IN  FoldLeft(LAMBDA size, k : size + Size(k), IF EndsTrack(events) THEN 0 ELSE 4,
                 [k \in 1 .. Len(events) |-> k])

\* The events of writeTrack, which always writes the first byte of data.
EventsWritten(events, disableRunningStatus) ==
    LET One(k) ==
            LET m == events[k].message
            IN  write7BitEncodedInt(events[k].deltaTime)
                \o CASE m.status = META -> MetaEventBytes(m)
                     [] m.status \in {SYSEX, SYSEX_END} ->
                            <<m.status>> \o write7BitEncodedInt(Len(m.data)) \o m.data
                     [] OTHER ->
                            (IF WritesStatus(events, k, disableRunningStatus)
                             THEN <<m.status>> ELSE <<>>)
                            \o (IF fixedDataSize(getStatusCode(m.status)) > 1
                                THEN <<m.msb, m.lsb>> ELSE <<m.msb>>)
    IN  FlattenSeq([k \in 1 .. Len(events) |-> One(k)])

writeTrack(events, disableRunningStatus) ==
    <<77, 84, 114, 107>> \o Big(getTrackDataSize(events, disableRunningStatus), 4)
        \o EventsWritten(events, disableRunningStatus)
        \o (IF EndsTrack(events) THEN <<>> ELSE <<0, META, END_OF_TRACK, 0>>)

\* Midi1Writer::write
WriteMusic(music, disableRunningStatus) ==
    <<77, 84, 104, 100>> \o Big(6, 4) \o Big(music.format, 2) \o Big(Len(music.tracks), 2)
        \o Big(music.deltaTimeSpec % 65536, 2)
        \o FlattenSeq([k \in DOMAIN music.tracks |->
                           writeTrack(music.tracks[k], disableRunningStatus)])

-----------------------------------------------------------------------------
(* Midi1Reader: what is read from byte `at` on, and `next`, where reading  *)
(* goes on; 0 for an exception.                                            *)

Value(bytes) == FoldLeft(LAMBDA v, b : 256 * v + b, 0, bytes)

\* readVariableLength
VariableLength(bytes, at) ==
    LET ends == {n \in 1 .. 4 : at + n - 1 <= Len(bytes) /\ bytes[at + n - 1] < 128}
        size == Min(ends)
    IN  IF ends = {} THEN [value |-> 0, next |-> 0]
        ELSE [value |-> FoldLeft(LAMBDA v, b : 128 * v + (b % 128), 0,
                                 SubSeq(bytes, at, at + size - 1)),
              next |-> at + size]

DataOf(bytes, length, status, msb) ==
    LET end == length.next + length.value
    IN  IF length.next = 0 \/ end - 1 > Len(bytes)
        THEN [message |-> Message(status, msb, 0, <<>>), next |-> 0]
        ELSE [message |-> Message(status, msb, 0, SubSeq(bytes, length.next, end - 1)),
              next |-> end]
\* The data of a META or SysEx, with its length before it.
ReadData(bytes, at, status, msb) ==
    IF at > Len(bytes) THEN [message |-> Message(status, msb, 0, <<>>), next |-> 0]
    ELSE DataOf(bytes, VariableLength(bytes, at), status, msb)

\* readEvent
readEvent(bytes, at, runningStatus) ==
    LET explicit == bytes[at] >= 128
        status == IF explicit THEN bytes[at] ELSE runningStatus
        first == IF explicit THEN at + 1 ELSE at
        size == IF fixedDataSize(status) = 2 THEN 2 ELSE 1
        Byte(k) == IF k <= size THEN bytes[first + k - 1] ELSE 0
    IN  IF at > Len(bytes) THEN [message |-> Message(0, 0, 0, <<>>), next |-> 0]
        ELSE IF status \in {SYSEX, SYSEX_END} THEN ReadData(bytes, first, status, 0)
        ELSE IF status = META THEN ReadData(bytes, first + 1, status, bytes[first])
        ELSE IF first + size - 1 > Len(bytes)
        THEN [message |-> Message(status, 0, 0, <<>>), next |-> 0]
        ELSE [message |-> Message(status, Byte(1), Byte(2), <<>>), next |-> first + size]

\* The loop of readTrack: events until the size is reached or passed.
Nothing == [events |-> <<>>, next |-> 0]

RECURSIVE EventsFrom(_, _, _, _), AfterDelta(_, _, _, _), AfterEvent(_, _, _, _)
EventsFrom(bytes, at, stop, runningStatus) ==
    IF at >= stop THEN [events |-> <<>>, next |-> at]
    ELSE AfterDelta(bytes, VariableLength(bytes, at), stop, runningStatus)

AfterDelta(bytes, delta, stop, runningStatus) ==
    IF delta.next = 0 THEN Nothing
    ELSE AfterEvent(bytes, delta.value, readEvent(bytes, delta.next, runningStatus), stop)

AfterEvent(bytes, deltaTime, event, stop) ==
    IF event.next = 0 THEN Nothing
    ELSE [EventsFrom(bytes, event.next, stop, event.message.status) EXCEPT
            !.events = <<Event(deltaTime, event.message)>> \o @]

\* readTrack
IfEndsAt(all, stop) == IF all.next = stop THEN all ELSE Nothing
readTrack(bytes, at) ==
    LET stop == at + 8 + Value(SubSeq(bytes, at + 4, at + 7))
    IN  IF at + 7 > Len(bytes) \/ SubSeq(bytes, at, at + 3) # <<77, 84, 114, 107>> THEN Nothing
        ELSE IfEndsAt(EventsFrom(bytes, at + 8, stop, 0), stop)

\* Midi1Reader::read; "valid" is FALSE for an exception.
WithTrack(acc, track) == [tracks |-> Append(acc.tracks, track.events), next |-> track.next]
ReadTracks(bytes) ==
    FoldLeft(LAMBDA acc, k : IF acc.next = 0 THEN acc ELSE WithTrack(acc, readTrack(bytes, acc.next)),
             [tracks |-> <<>>, next |-> 15], [k \in 1 .. Value(SubSeq(bytes, 11, 12)) |-> k])
MusicOf(bytes, all) ==
    LET spec == Value(SubSeq(bytes, 13, 14))
    IN  [valid |-> Len(bytes) >= 14 /\ SubSeq(bytes, 1, 8) = <<77, 84, 104, 100, 0, 0, 0, 6>>
                       /\ all.next # 0,
         music |-> [format |-> Value(SubSeq(bytes, 9, 10)) % 256, tracks |-> all.tracks,
                    deltaTimeSpec |-> IF spec >= 32768 THEN spec - 65536 ELSE spec]]
ReadMusic(bytes) == MusicOf(bytes, ReadTracks(bytes))

-----------------------------------------------------------------------------
(* Midi1Music.                                                             *)

\* The times of the events of a track, as in filterEvents.
Times(events) ==
    [k \in 1 .. Len(events) |-> FoldLeft(LAMBDA t, e : t + e.deltaTime, 0, SubSeq(events, 1, k))]

getTotalTicks(events) == FoldLeft(LAMBDA t, e : t + e.deltaTime, 0, events)

\* mergeTracks: the events of all tracks, with times instead of delta times,
AllTimed(tracks) ==
    FlattenSeq([n \in DOMAIN tracks |->
        [k \in DOMAIN tracks[n] |-> Event(Times(tracks[n])[k], tracks[n][k].message)]])

\* in blocks of equal time, each as <<first, last>>,
Blocks(all) ==
    LET IsFirst(k) == k = 1 \/ all[k - 1].deltaTime # all[k].deltaTime
        IsLast(k) == k = Len(all) \/ all[k + 1].deltaTime # all[k].deltaTime
    IN  {<<a, b>> \in (1 .. Len(all)) \X (1 .. Len(all)) :
            a <= b /\ IsFirst(a) /\ IsLast(b) /\ \A k \in a .. b - 1 : ~IsLast(k)}

\* which std::sort puts in any order that their times allow,
Sorted(all) ==
    {order \in SetToSeqs(Blocks(all)) :
        \A i \in 1 .. Len(order) - 1 :
            all[order[i][1]].deltaTime <= all[order[i + 1][1]].deltaTime}

\* Mutant: the wait before the first event is lost.
DeltasFromStart(all) ==
    [k \in DOMAIN all |->
        Event(IF k = 1 THEN 0 ELSE all[k].deltaTime - all[k - 1].deltaTime, all[k].message)]

\* and delta times again at the end.
DeltasAgain(all) ==
    [k \in DOMAIN all |->
        Event(all[k].deltaTime - (IF k = 1 THEN 0 ELSE all[k - 1].deltaTime), all[k].message)]

\* The musics that mergeTracks may return.
mergeTracks(music) ==
    LET all == AllTimed(music.tracks)
        Put(order) == FlattenSeq([i \in DOMAIN order |-> SubSeq(all, order[i][1], order[i][2])])
    IN  {[format |-> 0, deltaTimeSpec |-> music.deltaTimeSpec,
          tracks |-> <<DeltasAgain(Put(order))>>] : order \in Sorted(all)}

\* getTempoValue: the first three bytes of the data.
IsTempo(event) == event.message.status = META /\ event.message.msb = TEMPO
TempoValue(event) == Value(SubSeq(event.message.data, 1, 3))

\* getPlayTimeMillisecondsAtTick, as a multiple of 1 / (1000 * deltaTimeSpec)
\* milliseconds: the rounding of the doubles is left out.
PlayTimeAt(events, ticks) ==
    LET Again(acc, e) ==
            LET deltaTime == IF acc.t + e.deltaTime < ticks THEN e.deltaTime ELSE ticks - acc.t
            IN  IF acc.stopped THEN acc
                ELSE [v |-> acc.v + acc.tempo * deltaTime,
                      stopped |-> deltaTime # e.deltaTime, t |-> acc.t + e.deltaTime,
                      tempo |-> IF IsTempo(e) THEN TempoValue(e) ELSE acc.tempo]
    IN  FoldLeft(Again, [v |-> 0, t |-> 0, tempo |-> DEFAULT_TEMPO, stopped |-> FALSE], events).v
=============================================================================
