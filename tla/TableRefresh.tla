---------------------------- MODULE TableRefresh ----------------------------
(***************************************************************************)
(* Bringing a table on the page from one content to another without a      *)
(* second table appearing beside it                                        *)
(* (src/packages/sheet-host-model/src/table-refresh.ts): rows the two have *)
(* in common are kept, others deleted, inserted or written over.           *)
(*                                                                         *)
(* A content is [rows, merges]; a row stands for the signature of one      *)
(* (its texts, styles and height).  Columns, widths and decoration follow  *)
(* the same way and are left out.                                          *)
(***************************************************************************)
EXTENDS Lists, Sequences, SequencesExt, FiniteSetsExt

(* A row the host has just inserted; and what a row or a table shows after  *)
(* writes meant for something else than what it showed.                     *)
EmptyRow == [text |-> "", height |-> 0]
GarbledRow == [text |-> "garbled", height |-> 0]
Garbled == [rows |-> <<GarbledRow>>, merges |-> {}]

(* Only what changes is written, over what is taken to be there. *)
WrittenOver(shown, taken, next, mess) ==
    IF taken = next THEN shown ELSE IF shown = taken THEN next ELSE mess

-----------------------------------------------------------------------------
(* Where what is left of two lists begins. *)
Cuts(a, b) == (1 .. Len(a) + 1) \X (1 .. Len(b) + 1)

(* The length of the longest common subsequence of a from p[1] and b from   *)
(* p[2].                                                                    *)
Common(a, b) ==
    LET lcs[p \in Cuts(a, b)] ==
            IF p[1] > Len(a) \/ p[2] > Len(b) THEN 0
            ELSE IF a[p[1]] = b[p[2]] THEN lcs[<<p[1] + 1, p[2] + 1>>] + 1
                 ELSE Max({lcs[<<p[1] + 1, p[2]>>], lcs[<<p[1], p[2] + 1>>]})
    IN  lcs

(* The rows of a and of b that are kept as they are: pairs <<row of a, row  *)
(* of b>>.                                                                  *)
Matched(a, b) ==
    LET lcs == Common(a, b)
        from[p \in Cuts(a, b)] ==
            IF p[1] > Len(a) \/ p[2] > Len(b) THEN {}
            ELSE IF a[p[1]] = b[p[2]] THEN {p} \cup from[<<p[1] + 1, p[2] + 1>>]
                 ELSE IF lcs[<<p[1] + 1, p[2]>>] >= lcs[<<p[1], p[2] + 1>>]
                      THEN from[<<p[1] + 1, p[2]>>] ELSE from[<<p[1], p[2] + 1>>]
    IN  from[<<1, 1>>]

(* Slip, of Before: a changed row may take a row that lies further down.    *)
Anywhere(pairs, j, b, a) == Len(a) + 1

(* The first row of a that a row of b after j keeps. *)
Before(pairs, j, b, a) == Min({p[1] : p \in {q \in pairs : q[2] > j}} \cup {Len(a) + 1})

(* alignRows: rows of b without a match take, in order, the rows of a that  *)
(* lie free between their neighbours'; they are written over.               *)
AlignRows(a, b) ==
    LET matched == Matched(a, b)
        free == DOMAIN a \ {p[1] : p \in matched}
        upTo[j \in 0 .. Len(b)] ==
            IF j = 0 THEN {}
            ELSE LET pairs == upTo[j - 1]
                     own == {p \in matched : p[2] = j}
                     above == Max({p[1] : p \in pairs} \cup {0})
                     here == {i \in free : above < i /\ i < Before(matched, j, b, a)}
                 IN  IF own # {} THEN pairs \cup own
                     ELSE IF here = {} THEN pairs ELSE pairs \cup {<<Min(here), j>>}
    IN  upTo[Len(b)]

(* tableRefreshOps, applied to the table it was computed for: rows nothing  *)
(* keeps are deleted, new ones inserted where they will stand, from the top *)
(* down, and rows that differ are written.                                  *)
RowsAfter(a, b) ==
    LET pairs == AlignRows(a, b)
        stands[j \in 0 .. Len(b)] ==
            IF j = 0 THEN Keeping(a, {p[1] : p \in pairs})
            ELSE IF \E p \in pairs : p[2] = j THEN stands[j - 1]
                 ELSE InsertAt(stands[j - 1], j, EmptyRow)
        seen(j) == IF \E p \in pairs : p[2] = j
                   THEN a[(CHOOSE p \in pairs : p[2] = j)[1]] ELSE EmptyRow
    IN  [j \in DOMAIN stands[Len(b)] |->
            IF j \in DOMAIN b THEN WrittenOver(stands[Len(b)][j], seen(j), b[j], GarbledRow)
                               ELSE stands[Len(b)][j]]

(* applyTableRefresh on a table that shows shown, taken to show prev. *)
Refreshed(shown, prev, next) ==
    WrittenOver(shown, prev, [rows |-> RowsAfter(prev.rows, next.rows), merges |-> next.merges],
                Garbled)

=============================================================================
