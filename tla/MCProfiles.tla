----------------------------- MODULE MCProfiles -----------------------------
(***************************************************************************)
(* Two profiles at two addresses; the host starts with one that is enabled *)
(* and one that is not, at the same address.                               *)
(***************************************************************************)
EXTENDS Profiles

CONSTANTS piano, organ

AtStart == <<[id |-> piano, address |-> 1, enabled |-> TRUE],
             [id |-> organ, address |-> 1, enabled |-> FALSE]>>
=============================================================================
