---------------------------- MODULE UndoHistory ----------------------------
(***************************************************************************)
(* What the edit journal promises: a linear history of whole workbooks.    *)
(* The history is a line of places with a workbook at each.  A step back   *)
(* or forward leads to another place and to exactly the workbook that was  *)
(* left there; a new operation adds a place and forgets those behind the   *)
(* one it starts from.                                                     *)
(***************************************************************************)
EXTENDS Naturals

CONSTANT Texts      \* the contents a workbook can have

VARIABLES
    text,     \* the workbook
    at,       \* the place it is at
    saved,    \* the workbook each place leads to, this one included
    slips     \* the steps that failed half-way

hist == <<text, at, saved, slips>>
Places == DOMAIN saved

Init == text \in Texts /\ at = 0 /\ saved = [p \in {0} |-> text] /\ slips = 0

Here == text' = saved'[at']

Operate ==
    /\ at' \in Nat /\ at' > at
    /\ text' \in Texts
    /\ saved' = [p \in {q \in Places : q <= at} \cup {at'} |-> IF p = at' THEN text' ELSE saved[p]]
    /\ UNCHANGED slips

(* The places on the way to at' and behind it are not all safe once a step *)
(* has failed: what it left half-written is seen from the other side.      *)
Safe(p) == slips = 0 \/ (at' <= at /\ p <= at') \/ (at <= at' /\ at' <= p)

(* An undo or a redo, or several at once.                                  *)
Travel ==
    /\ at' \in Places
    /\ Here
    /\ DOMAIN saved' = Places
    /\ \A p \in Places : Safe(p) => saved'[p] = saved[p]
    /\ UNCHANGED slips

(* Rows moved: the history starts over with the workbook as it is then. *)
Forget ==
    /\ text' \in Texts /\ at' = 0 /\ saved' = [p \in {0} |-> text']
    /\ UNCHANGED slips

(* A step fails half-way: the history keeps its places, not their contents. *)
Slip ==
    /\ slips' = slips + 1
    /\ at' \in Places
    /\ saved' \in [Places -> Texts] /\ Here

Next == Operate \/ Travel \/ Forget \/ Slip

Spec == Init /\ [][Next]_hist

=============================================================================
