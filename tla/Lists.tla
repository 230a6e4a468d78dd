-------------------------------- MODULE Lists --------------------------------
(***************************************************************************)
(* What a filter leaves of a list.                                         *)
(***************************************************************************)
EXTENDS Integers, FiniteSets

(* The elements at some places, in the order they stand. *)
Keeping(list, at) ==
    LET place(t) == Cardinality({u \in at : u <= t})
    IN  [i \in 1 .. Cardinality(at) |-> list[CHOOSE t \in at : place(t) = i]]

=============================================================================
