--------------------------- MODULE MCKeyboardPanel ---------------------------
(***************************************************************************)
(* Two devices with one control in common: dev1 answers with one or two    *)
(* controls, which have maps of their own.  A behaviour is about notes or  *)
(* about controls.                                                         *)
(***************************************************************************)
EXTENDS KeyboardPanel

CONSTANTS dev1, dev2, m1, m2

Control(kind, index, map) ==
    [kind |-> kind, index |-> index, channel |-> 1, map |-> map, default |-> 0]

Volume == Control("cc", <<7>>, m1)
Cutoff == Control("nrpn", <<1, 2>>, m2)

MCListsOf == (dev1 :> {<<Volume, Cutoff>>, <<Cutoff>>}) @@ (dev2 :> {<<Volume>>})
MCMoves == {Elsewhere, Left, Right, 0, 13}
MCNotes == {[type |-> t, status |-> s, note |-> 60, velocity |-> v] :
                t \in {2, 4}, s \in {"on", "off"}, v \in {0, 64}}

MCBudgets == {[notes |-> 5, events |-> 0, losses |-> 0],
              [notes |-> 0, events |-> 4, losses |-> 1]}
=============================================================================
