--------------------------- MODULE MCKeyboardPorts ---------------------------
(***************************************************************************)
(* Two inputs and two outputs: the first of each match by their token, the *)
(* second by their names; two devices are behind the first.  One input is  *)
(* the application's own.                                                  *)
(***************************************************************************)
EXTENDS KeyboardPorts

CONSTANTS d, e

Port(id, token, base, own) ==
    [id |-> id, token |-> token, base |-> base, own |-> own]

Ins == {Port("in1", "1", "Synth MIDI 1", FALSE), Port("in2", "", "Piano", FALSE)}
       \cup {Port("own", "", "midicci", TRUE)}
Outs == {Port("out1", "1", "Synth MIDI 2", FALSE), Port("out2", "", "Piano", FALSE)}

MCBehind == [p \in Ins |->
    CASE p.id = "in1" -> {d, e} [] p.id = "in2" -> {e} [] OTHER -> {}]
=============================================================================
