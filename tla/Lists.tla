-------------------------------- MODULE Lists --------------------------------
(***************************************************************************)
(* What the lists of devices, profiles and subscriptions are searched and  *)
(* filtered with, in terms of the places of a list.                        *)
(***************************************************************************)
EXTENDS Integers, Sequences, FiniteSets

\* The elements of list at the places in I, in order (std::copy_if and
\* std::remove_if).
Rank(I, i) == Cardinality({j \in I : j <= i})
Picked(list, I) ==
    [n \in 1 .. Cardinality(I) |-> list[CHOOSE i \in I : Rank(I, i) = n]]

\* The first of the places in I, or 0 (std::find_if).
First(I) == IF I = {} THEN 0 ELSE CHOOSE i \in I : \A j \in I : i <= j
=============================================================================
