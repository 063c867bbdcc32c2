-------------------------- MODULE MCSysexAssembly --------------------------
(***************************************************************************)
(* Values for SysexAssembly.  Transmissions 1 and 2 come from peers: a     *)
(* MIDI-CI message of three packets and, on the same stream, a short       *)
(* message that is not MIDI-CI.  3, 4 and 5 are echoes of own messages, on *)
(* two streams; one more than are remembered.                              *)
(***************************************************************************)
EXTENDS SysexAssembly

MixedLength == <<14, 5, 13, 13, 13>>
MixedContent == <<1, 2, 3, 4, 5>>
MixedRoute == <<"physical", "physical", "virtual", "physical", "physical">>
=============================================================================
