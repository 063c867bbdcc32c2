--------------------------- MODULE PropertyTransfer ---------------------------
(***************************************************************************)
(* What multi-packet property messages promise to the layers above: each   *)
(* message is handed over at most once, and exactly as it was sent, unless *)
(* it was disturbed before: its chunks were mixed with those of a transfer *)
(* of the same source and request id, or the connection changed halfway.   *)
(***************************************************************************)
CONSTANT Transfers

VARIABLES fate, disturbed

Init ==
    /\ fate = [t \in Transfers |-> "idle"]
    /\ disturbed = {}

Submit(t) ==
    /\ fate[t] = "idle"
    /\ fate' = [fate EXCEPT ![t] = "sending"]

Deliver(t) ==
    /\ fate[t] = "sending"
    /\ \/ fate' = [fate EXCEPT ![t] = "exact"]
       \/ t \in disturbed' /\ fate' = [fate EXCEPT ![t] = "spoiled"]

Fail(t) ==
    /\ fate[t] = "sending"
    /\ fate' = [fate EXCEPT ![t] = "failed"]

Next ==
    /\ disturbed \subseteq disturbed' /\ disturbed' \subseteq Transfers
    /\ \/ \E t \in Transfers : Submit(t) \/ Deliver(t) \/ Fail(t)
       \/ UNCHANGED fate

Spec == Init /\ [][Next]_<<fate, disturbed>>
=============================================================================
