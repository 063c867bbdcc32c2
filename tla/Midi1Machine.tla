----------------------------- MODULE Midi1Machine -----------------------------
(***************************************************************************)
(* What a MIDI 1.0 receiver knows of a channel after some messages:        *)
(* Midi1MachineChannel and Midi1Machine::processMessage.  A message is     *)
(* <<status byte, msb, lsb>>.                                              *)
(***************************************************************************)
EXTENDS Umps

CONSTANTS
    Notes,              \* the notes that occur, of 0 .. 127
    Controllers,        \* the controller numbers that occur, of 0 .. 127
    ParameterNumbers    \* the RPNs and NRPNs that occur, of 0 .. 16383

NewChannel ==
    [noteOn |-> [n \in Notes |-> FALSE], noteVelocity |-> [n \in Notes |-> 0],
     pafVelocity |-> [n \in Notes |-> 0], controls |-> [c \in Controllers |-> 0],
     omniMode |-> FALSE, monoPolyMode |-> TRUE,
     rpns |-> [p \in ParameterNumbers |-> 0], nrpns |-> [p \in ParameterNumbers |-> 0],
     program |-> 0, caf |-> 0, pitchbend |-> 8192, dteTarget |-> "rpns"]

Int16(v) == ((v + 32768) % 65536) - 32768

\* getCurrentRPN or getCurrentNRPN, whichever data entry goes to.
CurrentParameter(ch) ==
    IF ch.dteTarget = "rpns" THEN 128 * ch.controls[RPN_MSB] + ch.controls[RPN_LSB]
    ELSE 128 * ch.controls[NRPN_MSB] + ch.controls[NRPN_LSB]

\* processDte: the half that is not sent stays.
Dte(old, number, value) ==
    IF number = DTE_MSB THEN (old % 128) + 128 * value
    ELSE 128 * ((old % 16384) \div 128) + value

\* What a controller does besides being stored.
Controlled(ch, number, value) ==
    LET p == CurrentParameter(ch)
        target == ch.dteTarget
    IN  CASE number \in {NRPN_MSB, NRPN_LSB} -> [ch EXCEPT !.dteTarget = "nrpns"]
          [] number \in {RPN_MSB, RPN_LSB} -> [ch EXCEPT !.dteTarget = "rpns"]
          [] number \in {DTE_MSB, DTE_LSB} -> [ch EXCEPT ![target][p] = Dte(@, number, value)]
          [] number = DTE_INCREMENT -> [ch EXCEPT ![target][p] = Int16(@ + 1)]
          [] number = DTE_DECREMENT -> [ch EXCEPT ![target][p] = Int16(@ - 1)]
          [] number \in {OMNI_MODE_OFF, OMNI_MODE_ON} ->
                [ch EXCEPT !.omniMode = (number = OMNI_MODE_ON)]
          [] number \in {MONO_MODE_ON, POLY_MODE_ON} ->
                [ch EXCEPT !.monoPolyMode = (number = POLY_MODE_ON)]
          [] OTHER -> ch

\* processMessage for the channel of the message; system messages change nothing.
\* The bytes of the pitch bend are put together the other way round.
Processed(ch, m) ==
    LET code == m[1] \div 16
    IN  CASE code \in {NOTE_ON, NOTE_OFF} ->
                [ch EXCEPT !.noteVelocity[m[2]] = m[3], !.noteOn[m[2]] = (code = NOTE_ON)]
          [] code = PAF -> [ch EXCEPT !.pafVelocity[m[2]] = m[3]]
          [] code = CC -> [Controlled(ch, m[2], m[3]) EXCEPT !.controls[m[2]] = m[3]]
          [] code = PROGRAM -> [ch EXCEPT !.program = m[2]]
          [] code = CAF -> [ch EXCEPT !.caf = m[2]]
          [] code = PITCH_BEND -> [ch EXCEPT !.pitchbend = Int16(128 * m[2] + m[3])]
          [] OTHER -> ch

processMessage(machine, m) == [machine EXCEPT ![m[1] % 16] = Processed(@, m)]
=============================================================================
