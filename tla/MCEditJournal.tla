--------------------------- MODULE MCEditJournal ---------------------------
(* EditJournal with the tables TLC places. *)
EXTENDS EditJournal

(* The second table shows a part of the sheet nobody edits. *)
TableBesideAnother == <<{1, 2}, {}>>

=============================================================================
