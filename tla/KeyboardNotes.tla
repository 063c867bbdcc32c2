---------------------------- MODULE KeyboardNotes ----------------------------
(***************************************************************************)
(* The on-screen piano: which keys the mouse presses and which are lit by  *)
(* notes that come in.  The operators say what a function makes of the     *)
(* record of the keyboard: octave, the notes pressed, the one held by the  *)
(* mouse, those lit, those incoming with whether they are on; sounding is  *)
(* what a receiver of the messages sent plays.  A mouse is down or not,    *)
(* clicked or not, and at the offset of a key from the left-most one, or   *)
(* at Left or Right (the buttons that shift the octave) or Elsewhere.      *)
(***************************************************************************)
EXTENDS Integers, Sequences, SequencesExt

CONSTANTS
    Offsets,    \* keys the mouse visits
    NumOctaves  \* num_octaves_

ASSUME NotesAssumption ==
    NumOctaves \in 1 .. 10 /\ Offsets \subseteq 0 .. 12 * NumOctaves - 1

AllNotes == 0 .. 127
NoNote == -1
Left == -1
Right == -2
Elsewhere == -3

NotesInit ==
    [octave |-> 2, pressed |-> {}, held |-> NoNote, lit |-> {},
     sounding |-> {}, incoming |-> <<>>]

\* handle_key_event, the panel's key callback, noteOn and noteOff: a press
\* and a release are sent once.
Press(k, note) ==
    IF note \in k.pressed THEN k
    ELSE [k EXCEPT !.pressed = @ \cup {note}, !.sounding = @ \cup {note}]

Release(k, note) ==
    IF note \notin k.pressed THEN k
    ELSE [k EXCEPT !.pressed = @ \ {note}, !.sounding = @ \ {note}]

\* release_all_keys
ReleaseAll(k) ==
    [k EXCEPT !.sounding = @ \ k.pressed, !.pressed = {}]

\* set_octave_range clamps, setup_keys lays the keys out from there.
Clamped(octave) ==
    IF octave < 0 THEN 0
    ELSE IF octave > 10 - NumOctaves THEN 10 - NumOctaves ELSE octave

\* shift_octave
Shifted(k, delta) == [ReleaseAll(k) EXCEPT !.octave = Clamped(@ + delta)]

\* get_note_from_position
NoteAt(k, mouse) ==
    IF mouse.at \notin Offsets THEN NoNote ELSE 12 * k.octave + mouse.at

\* Mutant: the key is let go only over the keyboard.
MousedInside(k, mouse) ==
    LET note == NoteAt(k, mouse)
        let == IF k.held = NoNote THEN k ELSE Release(k, k.held)
    IN  IF mouse.down /\ note # NoNote /\ note # k.held
        THEN [Press(let, note) EXCEPT !.held = note]
        ELSE IF ~mouse.down /\ note # NoNote THEN [let EXCEPT !.held = NoNote]
        ELSE k

\* render: the held key follows the mouse as long as the button is down, and
\* stays down outside the keyboard.
Moused(k, mouse) ==
    LET shifted == IF ~mouse.clicked THEN k
                   ELSE IF mouse.at = Left THEN Shifted(k, -1)
                   ELSE IF mouse.at = Right THEN Shifted(k, 1) ELSE k
        note == NoteAt(shifted, mouse)
        let == IF shifted.held = NoNote THEN shifted
               ELSE Release(shifted, shifted.held)
    IN  IF mouse.down /\ note # NoNote /\ note # shifted.held
        THEN [Press(let, note) EXCEPT !.held = note]
        ELSE IF ~mouse.down THEN [let EXCEPT !.held = NoNote] ELSE shifted

\* extract_note_event: is this note message a press?  A MIDI 2.0 velocity
\* counts with its upper 7 bits.
IsPress(m) ==
    /\ m.status = "on"
    /\ (IF m.type = 4 THEN m.velocity \div 512 ELSE m.velocity) > 0

\* enqueue_incoming_note_event, on the input thread.
NoteComes(k, m) ==
    IF m.note \notin AllNotes THEN k
    ELSE [k EXCEPT !.incoming = Append(@, <<m.note, IsPress(m)>>)]

\* process_incoming_note_events with set_external_key_state.
NotesShown(k) ==
    LET Latest(note) == {i \in 1 .. Len(k.incoming) :
            /\ k.incoming[i][1] = note
            /\ \A j \in i + 1 .. Len(k.incoming) : k.incoming[j][1] # note}
    IN  [k EXCEPT
            !.incoming = <<>>,
            !.lit = {note \in AllNotes :
                IF Latest(note) = {} THEN note \in @
                ELSE \A i \in Latest(note) : k.incoming[i][2]}]
=============================================================================
