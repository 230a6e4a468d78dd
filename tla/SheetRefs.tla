----------------------------- MODULE SheetRefs -----------------------------
(***************************************************************************)
(* What inserting or deleting rows or columns, and copying a formula, does *)
(* to coordinates: the reference rewrite of crate sheet-parser and the     *)
(* physical shift of cells and merges of crate sheet-calc.                 *)
(*                                                                         *)
(* A line is a row or a column, counted from 0.  An edit is                *)
(* [axis, insert, at, n]: n lines inserted before, or deleted from, at.    *)
(***************************************************************************)
EXTENDS Integers

CONSTANTS
    MaxRow,     \* the last row
    MaxCol      \* the last column

ASSUME GridAssumption == MaxRow \in Nat /\ MaxCol \in 0 .. MaxRow

(* A deleted line, or one pushed off the grid. *)
Gone == -1
NoSpan == <<Gone, Gone>>

Axes == {"row", "col"}
Last(axis) == IF axis = "row" THEN MaxRow ELSE MaxCol

(* The edits the session accepts: no span leaves the sheet. *)
EditsOn(axis) ==
    {e \in [axis : {axis}, insert : BOOLEAN, at : 0 .. Last(axis), n : 1 .. Last(axis) + 1] :
        e.at + e.n <= Last(axis) + 1}

-----------------------------------------------------------------------------
(* Where line c of a grid that ends at max goes. *)
ShiftLine(c, e, max) ==
    IF c < e.at THEN c
    ELSE IF e.insert THEN IF c + e.n > max THEN Gone ELSE c + e.n
         ELSE IF c < e.at + e.n THEN Gone ELSE c - e.n

(* Slip, of ShrunkSpan: an end inside the deleted span is not cut back. *)
ShrunkSpanKeepingEnd(lo, hi, e) ==
    << IF lo < e.at THEN lo ELSE IF lo < e.at + e.n THEN e.at ELSE lo - e.n,
       IF hi < e.at + e.n THEN hi ELSE hi - e.n >>

(* The lines lo .. hi after a deletion that spares some of them. *)
ShrunkSpan(lo, hi, e) ==
    << IF lo < e.at THEN lo ELSE IF lo < e.at + e.n THEN e.at ELSE lo - e.n,
       IF hi < e.at THEN hi ELSE IF hi < e.at + e.n THEN e.at - 1 ELSE hi - e.n >>

(* The lines lo .. hi after an edit: a deletion cuts them to what survives, *)
(* an insertion that pushes an end off the grid takes all of them.          *)
ShiftSpan(lo, hi, e, max) ==
    IF e.insert
    THEN LET span == <<ShiftLine(lo, e, max), ShiftLine(hi, e, max)>>
         IN  IF Gone \in {span[1], span[2]} THEN NoSpan ELSE span
    ELSE IF lo >= e.at /\ hi < e.at + e.n THEN NoSpan ELSE ShrunkSpan(lo, hi, e)

(* A line that moves by delta when its formula is copied, unless it is      *)
(* anchored ($).                                                            *)
FillLine(c, anchored, delta, max) ==
    IF anchored THEN c
    ELSE IF c + delta \in 0 .. max THEN c + delta ELSE Gone

-----------------------------------------------------------------------------
(***************************************************************************)
(* A box is [top, bottom, left, right].  An area, what a formula refers    *)
(* to, also has the set anchored of the axes that carry a dollar sign (in  *)
(* the code each end of an area has its own; here both ends share them, so *)
(* that the ends of an area stay in order).                                *)
(***************************************************************************)
Boxes ==
    {b \in [top : 0 .. MaxRow, bottom : 0 .. MaxRow, left : 0 .. MaxCol, right : 0 .. MaxCol] :
        b.top <= b.bottom /\ b.left <= b.right}

Areas ==
    {a \in [top : 0 .. MaxRow, bottom : 0 .. MaxRow, left : 0 .. MaxCol, right : 0 .. MaxCol,
            anchored : SUBSET Axes] : a.top <= a.bottom /\ a.left <= a.right}

Apart(b, c) ==
    \/ b.bottom < c.top \/ c.bottom < b.top \/ b.right < c.left \/ c.right < b.left

Lines(box, axis) ==
    IF axis = "row" THEN <<box.top, box.bottom>> ELSE <<box.left, box.right>>

WithLines(box, axis, span) ==
    IF axis = "row" THEN [box EXCEPT !.top = span[1], !.bottom = span[2]]
                    ELSE [box EXCEPT !.left = span[1], !.right = span[2]]

Spans(box, axis) == Lines(box, axis) = <<0, Last(axis)>>

NoBox == [top |-> Gone, bottom |-> Gone, left |-> Gone, right |-> Gone]

(* A reference under an edit of its sheet.  A whole-column or whole-row     *)
(* band stays one.                                                          *)
ShiftRange(area, e) ==
    LET span == ShiftSpan(Lines(area, e.axis)[1], Lines(area, e.axis)[2], e, Last(e.axis))
    IN  IF Spans(area, e.axis) THEN area
        ELSE IF span = NoSpan THEN NoBox ELSE WithLines(area, e.axis, span)

(* A reference copied drow rows down and dcol columns right; anchored holds *)
(* the axes whose lines carry a dollar sign.                                *)
FillArea(area, drow, dcol) ==
    LET moved == [area EXCEPT !.top = FillLine(@, "row" \in area.anchored, drow, MaxRow),
                              !.bottom = FillLine(@, "row" \in area.anchored, drow, MaxRow),
                              !.left = FillLine(@, "col" \in area.anchored, dcol, MaxCol),
                              !.right = FillLine(@, "col" \in area.anchored, dcol, MaxCol)]
    IN  IF Gone \in {moved.top, moved.bottom, moved.left, moved.right} THEN NoBox ELSE moved

(* A merge under an edit.  The engine bounds both axes by the longer one.   *)
ShiftMerge(box, e) ==
    LET span == ShiftSpan(Lines(box, e.axis)[1], Lines(box, e.axis)[2], e, MaxRow)
    IN  IF span = NoSpan THEN NoBox ELSE WithLines(box, e.axis, span)

(* A cell's own position under an edit, with the same bound. *)
ShiftCell(row, col, e) ==
    IF e.axis = "row" THEN <<ShiftLine(row, e, MaxRow), col>>
                      ELSE <<row, ShiftLine(col, e, MaxRow)>>

=============================================================================
