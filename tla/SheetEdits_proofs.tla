-------------------------- MODULE SheetEdits_proofs --------------------------
(***************************************************************************)
(* Saving writes the workbook, references follow the lines they named, and *)
(* a sort moves rows whole: for any workbooks, any grid and any number of  *)
(* edits.                                                                  *)
(*                                                                         *)
(* It begins with what SheetRefs does to coordinates, for a grid of any    *)
(* size: an edit never makes two lines one, a reference covers after an    *)
(* edit exactly the lines it covered that survive, and a deletion takes    *)
(* back what an insertion did.                                             *)
(***************************************************************************)
EXTENDS SheetEdits, FiniteSetTheorems, TLAPS

Survives(c, e, max) == ShiftLine(c, e, max) # Gone
InSpan(c, span) == span[1] <= c /\ c <= span[2]

-----------------------------------------------------------------------------
(* An edit of a grid that ends at max, on either axis. *)
LineEdit(e, max) ==
    /\ e.insert \in BOOLEAN /\ e.at \in 0 .. max /\ e.n \in 1 .. max + 1
    /\ e.at + e.n <= max + 1

(* Both axes have a last line. *)
LEMMA LastLine == ASSUME NEW axis \in Axes PROVE Last(axis) \in Nat
  BY GridAssumption DEF Last, Axes

(* Every edit the session accepts is an edit of the lines of its axis. *)
LEMMA EditShape ==
    ASSUME NEW axis \in Axes, NEW e \in EditsOn(axis)
    PROVE  e.axis = axis /\ LineEdit(e, Last(axis))
  BY DEF EditsOn, LineEdit

(* A surviving line stays on the grid (shift_coord). *)
THEOREM ImageOnGrid ==
    ASSUME NEW max \in Nat, NEW e, LineEdit(e, max), NEW c \in 0 .. max, Survives(c, e, max)
    PROVE  ShiftLine(c, e, max) \in 0 .. max
  BY DEF LineEdit, Survives, ShiftLine, Gone

(* Surviving lines keep their order, so no two of them become one. *)
THEOREM OrderKept ==
    ASSUME NEW max \in Nat, NEW e, LineEdit(e, max), NEW c \in 0 .. max, NEW d \in 0 .. max,
           Survives(c, e, max), Survives(d, e, max), c < d
    PROVE  ShiftLine(c, e, max) < ShiftLine(d, e, max)
  BY DEF LineEdit, Survives, ShiftLine, Gone

LEMMA LinesApart ==
    ASSUME NEW max \in Nat, NEW e, LineEdit(e, max), NEW c \in 0 .. max, NEW d \in 0 .. max,
           Survives(c, e, max), Survives(d, e, max), c # d
    PROVE  ShiftLine(c, e, max) # ShiftLine(d, e, max)
  <1>1. CASE c < d  BY <1>1, OrderKept, ImageOnGrid
  <1>2. CASE d < c  BY <1>2, OrderKept, ImageOnGrid
  <1> QED  BY <1>1, <1>2

(* A line is dropped only by a deletion that contains it or by an insertion *)
(* that pushes it off the end of the grid.                                  *)
LEMMA DroppedLines ==
    ASSUME NEW max \in Nat, NEW e, LineEdit(e, max), NEW c \in 0 .. max
    PROVE  ~Survives(c, e, max) <=>
             \/ e.insert /\ c >= e.at /\ c + e.n > max
             \/ ~e.insert /\ c >= e.at /\ c < e.at + e.n
  BY DEF LineEdit, Survives, ShiftLine, Gone

-----------------------------------------------------------------------------
(* A reference that is not lost covers, after the edit, exactly the lines   *)
(* it covered that survive (shift_range): none slips out at either end and  *)
(* none that was outside comes in.                                          *)
THEOREM SpanFollowsLines ==
    ASSUME NEW max \in Nat, NEW e, LineEdit(e, max),
           NEW lo \in 0 .. max, NEW hi \in lo .. max, ShiftSpan(lo, hi, e, max) # NoSpan,
           NEW c \in 0 .. max, Survives(c, e, max)
    PROVE  InSpan(c, <<lo, hi>>) <=> InSpan(ShiftLine(c, e, max), ShiftSpan(lo, hi, e, max))
  <1>1. CASE e.insert
    <2>1. ShiftSpan(lo, hi, e, max) = <<ShiftLine(lo, e, max), ShiftLine(hi, e, max)>>
      BY <1>1 DEF ShiftSpan, NoSpan
    <2>2. Survives(lo, e, max) /\ Survives(hi, e, max)
      BY <1>1 DEF ShiftSpan, NoSpan, Survives
    <2> QED  BY <1>1, <2>1, <2>2 DEF InSpan, ShiftLine, Survives, LineEdit, Gone
  <1>2. CASE ~e.insert
    <2>1. ShiftSpan(lo, hi, e, max) = ShrunkSpan(lo, hi, e) /\ ~(lo >= e.at /\ hi < e.at + e.n)
      BY <1>2 DEF ShiftSpan, NoSpan
    <2> QED  BY <1>2, <2>1 DEF InSpan, ShrunkSpan, ShiftLine, Survives, LineEdit, Gone
  <1> QED  BY <1>1, <1>2

(* A deletion loses a reference only when nothing it covered survives. *)
THEOREM DeletionSparesSurvivors ==
    ASSUME NEW max \in Nat, NEW e, LineEdit(e, max), ~e.insert,
           NEW lo \in 0 .. max, NEW hi \in lo .. max
    PROVE  ShiftSpan(lo, hi, e, max) = NoSpan <=> \A c \in lo .. hi : ~Survives(c, e, max)
  <1>1. CASE lo >= e.at /\ hi < e.at + e.n
    <2>1. ShiftSpan(lo, hi, e, max) = NoSpan  BY <1>1 DEF ShiftSpan
    <2>2. \A c \in lo .. hi : ~Survives(c, e, max)
      BY <1>1 DEF LineEdit, Survives, ShiftLine
    <2> QED  BY <2>1, <2>2
  <1>2. CASE lo < e.at \/ hi >= e.at + e.n
    <2>1. ShiftSpan(lo, hi, e, max) = ShrunkSpan(lo, hi, e)
      BY <1>2 DEF ShiftSpan, LineEdit
    <2>2. ShrunkSpan(lo, hi, e)[1] # Gone
      BY <1>2 DEF ShrunkSpan, LineEdit, Gone
    <2>3. ShiftSpan(lo, hi, e, max) # NoSpan  BY <2>1, <2>2 DEF NoSpan
    <2>4. lo \in lo .. hi /\ hi \in lo .. hi  OBVIOUS
    <2>5. Survives(lo, e, max) \/ Survives(hi, e, max)
      BY <1>2 DEF LineEdit, Survives, ShiftLine, Gone
    <2> QED  BY <2>3, <2>4, <2>5
  <1> QED  BY <1>1, <1>2 DEF LineEdit

(* What is left of a span lies in order on the grid. *)
LEMMA SpanStaysASpan ==
    ASSUME NEW max \in Nat, NEW e, LineEdit(e, max),
           NEW lo \in 0 .. max, NEW hi \in lo .. max, ShiftSpan(lo, hi, e, max) # NoSpan
    PROVE  LET span == ShiftSpan(lo, hi, e, max)
           IN  span[1] \in 0 .. max /\ span[2] \in span[1] .. max
  <1>1. CASE e.insert
    <2>1. ShiftSpan(lo, hi, e, max) = <<ShiftLine(lo, e, max), ShiftLine(hi, e, max)>>
      BY <1>1 DEF ShiftSpan, NoSpan
    <2>2. Survives(lo, e, max) /\ Survives(hi, e, max)
      BY <1>1 DEF ShiftSpan, NoSpan, Survives
    <2> QED  BY <1>1, <2>1, <2>2 DEF ShiftLine, Survives, LineEdit, Gone
  <1>2. CASE ~e.insert
    <2>1. ShiftSpan(lo, hi, e, max) = ShrunkSpan(lo, hi, e) /\ ~(lo >= e.at /\ hi < e.at + e.n)
      BY <1>2 DEF ShiftSpan, NoSpan
    <2> QED  BY <1>2, <2>1 DEF ShrunkSpan, LineEdit
  <1> QED  BY <1>1, <1>2

(* Spans apart stay apart. *)
LEMMA SpansApart ==
    ASSUME NEW max \in Nat, NEW e, LineEdit(e, max),
           NEW lo \in 0 .. max, NEW hi \in lo .. max, NEW lo2 \in 0 .. max, NEW hi2 \in lo2 .. max,
           hi < lo2,
           ShiftSpan(lo, hi, e, max) # NoSpan, ShiftSpan(lo2, hi2, e, max) # NoSpan
    PROVE  ShiftSpan(lo, hi, e, max)[2] < ShiftSpan(lo2, hi2, e, max)[1]
  <1>1. CASE e.insert
    <2>1. /\ ShiftSpan(lo, hi, e, max) = <<ShiftLine(lo, e, max), ShiftLine(hi, e, max)>>
          /\ ShiftSpan(lo2, hi2, e, max) = <<ShiftLine(lo2, e, max), ShiftLine(hi2, e, max)>>
      BY <1>1 DEF ShiftSpan, NoSpan
    <2>2. Survives(hi, e, max) /\ Survives(lo2, e, max)
      BY <1>1 DEF ShiftSpan, NoSpan, Survives
    <2> QED  BY <2>1, <2>2, OrderKept
  <1>2. CASE ~e.insert
    <2>1. /\ ShiftSpan(lo, hi, e, max) = ShrunkSpan(lo, hi, e)
          /\ ShiftSpan(lo2, hi2, e, max) = ShrunkSpan(lo2, hi2, e)
          /\ ~(lo >= e.at /\ hi < e.at + e.n) /\ ~(lo2 >= e.at /\ hi2 < e.at + e.n)
      BY <1>2 DEF ShiftSpan, NoSpan
    <2> QED  BY <1>2, <2>1 DEF ShrunkSpan, LineEdit
  <1> QED  BY <1>1, <1>2

-----------------------------------------------------------------------------
(* Deleting the lines just inserted puts every line that is still on the    *)
(* grid back where it was, and every reference that kept its ends.          *)
UndoOf(e) == [e EXCEPT !.insert = FALSE]

THEOREM DeletionUndoesInsertion ==
    ASSUME NEW max \in Nat, NEW axis \in Axes, NEW e \in EditsOn(axis), e.insert, LineEdit(e, max),
           NEW c \in 0 .. max, Survives(c, e, max)
    PROVE  ShiftLine(ShiftLine(c, e, max), UndoOf(e), max) = c
  <1>1. UndoOf(e).at = e.at /\ UndoOf(e).n = e.n /\ UndoOf(e).insert = FALSE
    BY DEF EditsOn, UndoOf
  <1> QED  BY <1>1 DEF LineEdit, Survives, ShiftLine, Gone

THEOREM DeletionRestoresSpans ==
    ASSUME NEW max \in Nat, NEW axis \in Axes, NEW e \in EditsOn(axis), e.insert, LineEdit(e, max),
           NEW lo \in 0 .. max, NEW hi \in lo .. max, ShiftSpan(lo, hi, e, max) # NoSpan
    PROVE  LET span == ShiftSpan(lo, hi, e, max)
           IN  ShiftSpan(span[1], span[2], UndoOf(e), max) = <<lo, hi>>
  <1>1. UndoOf(e).at = e.at /\ UndoOf(e).n = e.n /\ UndoOf(e).insert = FALSE
    BY DEF EditsOn, UndoOf
  <1>2. ShiftSpan(lo, hi, e, max) = <<ShiftLine(lo, e, max), ShiftLine(hi, e, max)>>
    BY DEF ShiftSpan, NoSpan
  <1>3. Survives(lo, e, max) /\ Survives(hi, e, max)
    BY DEF ShiftSpan, NoSpan, Survives
  <1>4. ShiftSpan(ShiftLine(lo, e, max), ShiftLine(hi, e, max), UndoOf(e), max)
          = ShrunkSpan(ShiftLine(lo, e, max), ShiftLine(hi, e, max), UndoOf(e))
    BY <1>1, <1>3 DEF ShiftSpan, ShiftLine, Survives, LineEdit, Gone
  <1>5. ShrunkSpan(ShiftLine(lo, e, max), ShiftLine(hi, e, max), UndoOf(e)) = <<lo, hi>>
    BY <1>1, <1>3 DEF ShrunkSpan, ShiftLine, Survives, LineEdit, Gone
  <1> QED  BY <1>2, <1>4, <1>5

-----------------------------------------------------------------------------
Covers(b, p) == InSpan(p[1], Lines(b, "row")) /\ InSpan(p[2], Lines(b, "col"))

(* The engine bounds the lines of both axes by the longer one. *)
LEMMA EditOfLongerAxis ==
    ASSUME NEW axis \in Axes, NEW e \in EditsOn(axis)
    PROVE  LineEdit(e, MaxRow) /\ e.axis = axis
  BY GridAssumption, EditShape DEF LineEdit, Last, Axes

(* No two cells of a sheet land in one place (apply_edit_structural writes  *)
(* the shifted cells into one map, where the later would replace the        *)
(* earlier).                                                                *)
THEOREM CellsApart ==
    ASSUME NEW axis \in Axes, NEW e \in EditsOn(axis),
           NEW p \in (0 .. MaxRow) \X (0 .. MaxRow), NEW q \in (0 .. MaxRow) \X (0 .. MaxRow), p # q,
           Gone \notin {ShiftCell(p[1], p[2], e)[1], ShiftCell(p[1], p[2], e)[2]},
           Gone \notin {ShiftCell(q[1], q[2], e)[1], ShiftCell(q[1], q[2], e)[2]}
    PROVE  ShiftCell(p[1], p[2], e) # ShiftCell(q[1], q[2], e)
  <1>1. LineEdit(e, MaxRow) /\ e.axis = axis  BY EditOfLongerAxis
  <1>2. MaxRow \in Nat /\ MaxCol \in 0 .. MaxRow  BY GridAssumption
  <1>3. p[1] \in 0 .. MaxRow /\ p[2] \in 0 .. MaxRow /\ q[1] \in 0 .. MaxRow /\ q[2] \in 0 .. MaxRow
    BY <1>2
  <1>4. p[1] # q[1] \/ p[2] # q[2]  OBVIOUS
  <1>5. CASE axis = "row"
    <2>1. /\ ShiftCell(p[1], p[2], e) = <<ShiftLine(p[1], e, MaxRow), p[2]>>
          /\ ShiftCell(q[1], q[2], e) = <<ShiftLine(q[1], e, MaxRow), q[2]>>
      BY <1>1, <1>5 DEF ShiftCell
    <2>2. Survives(p[1], e, MaxRow) /\ Survives(q[1], e, MaxRow)  BY <2>1 DEF Survives
    <2>3. p[1] # q[1] => ShiftLine(p[1], e, MaxRow) # ShiftLine(q[1], e, MaxRow)
      BY <1>1, <1>2, <1>3, <2>2, LinesApart
    <2> QED  BY <1>4, <2>1, <2>3
  <1>6. CASE axis = "col"
    <2>1. /\ ShiftCell(p[1], p[2], e) = <<p[1], ShiftLine(p[2], e, MaxRow)>>
          /\ ShiftCell(q[1], q[2], e) = <<q[1], ShiftLine(q[2], e, MaxRow)>>
      BY <1>1, <1>6 DEF ShiftCell
    <2>2. Survives(p[2], e, MaxRow) /\ Survives(q[2], e, MaxRow)  BY <2>1 DEF Survives
    <2>3. p[2] # q[2] => ShiftLine(p[2], e, MaxRow) # ShiftLine(q[2], e, MaxRow)
      BY <1>1, <1>2, <1>3, <2>2, LinesApart
    <2> QED  BY <1>4, <2>1, <2>3
  <1> QED  BY <1>5, <1>6 DEF Axes

(* A reference names, after an edit, exactly the cells it named that are    *)
(* still there: what the shift of cells does to a cell and what the rewrite *)
(* does to a reference agree, though they are written in different crates.  *)
(* A whole-column or whole-row band stays whole.                            *)
THEOREM ReferenceFollowsCells ==
    ASSUME NEW axis \in Axes, NEW e \in EditsOn(axis),
           NEW b \in Boxes, ShiftRange(b, e) # NoBox,
           NEW p \in (0 .. MaxRow) \X (0 .. MaxCol),
           Survives(IF axis = "row" THEN p[1] ELSE p[2], e, Last(axis))
    PROVE  Covers(b, p) <=> Covers(ShiftRange(b, e), ShiftCell(p[1], p[2], e))
  <1> DEFINE c == IF axis = "row" THEN p[1] ELSE p[2]
             lo == Lines(b, axis)[1]
             hi == Lines(b, axis)[2]
             span == ShiftSpan(lo, hi, e, Last(axis))
  <1>1. LineEdit(e, Last(axis)) /\ e.axis = axis  BY EditShape
  <1>2. MaxRow \in Nat /\ MaxCol \in 0 .. MaxRow /\ Last(axis) \in Nat  BY GridAssumption, LastLine
  <1>3. lo \in 0 .. Last(axis) /\ hi \in lo .. Last(axis)
    BY <1>2 DEF Boxes, Lines, Last, Axes
  <1>4. c \in 0 .. Last(axis)  BY <1>2 DEF Last, Axes
  <1>5. Survives(c, e, Last(axis))  OBVIOUS
  <1>6. ShiftLine(c, e, MaxRow) = ShiftLine(c, e, Last(axis))
    BY <1>1, <1>2, <1>4, <1>5 DEF ShiftLine, Survives, LineEdit, Gone, Last, Axes
  <1>7. CASE Spans(b, axis)
    <2>1. ShiftRange(b, e) = b  BY <1>1, <1>7 DEF ShiftRange
    <2>2. ShiftLine(c, e, Last(axis)) \in 0 .. Last(axis)  BY <1>1, <1>2, <1>4, <1>5, ImageOnGrid
    <2>3. lo = 0 /\ hi = Last(axis)  BY <1>7 DEF Spans
    <2>4. CASE axis = "row"
      BY <1>1, <1>2, <1>4, <1>6, <2>1, <2>2, <2>3, <2>4 DEF Covers, InSpan, ShiftCell, Lines, Last
    <2>5. CASE axis = "col"
      BY <1>1, <1>2, <1>4, <1>6, <2>1, <2>2, <2>3, <2>5 DEF Covers, InSpan, ShiftCell, Lines, Last
    <2> QED  BY <2>4, <2>5 DEF Axes
  <1>8. CASE ~Spans(b, axis)
    <2>1. span # NoSpan /\ ShiftRange(b, e) = WithLines(b, axis, span)
      BY <1>1, <1>8 DEF ShiftRange
    <2>2. InSpan(c, <<lo, hi>>) <=> InSpan(ShiftLine(c, e, Last(axis)), span)
      BY <1>1, <1>2, <1>3, <1>4, <1>5, <2>1, SpanFollowsLines
    <2>3. CASE axis = "row"
      <3>1. ShiftRange(b, e).top = span[1] /\ ShiftRange(b, e).bottom = span[2]
            /\ ShiftRange(b, e).left = b.left /\ ShiftRange(b, e).right = b.right
        BY <2>1, <2>3 DEF WithLines, Boxes
      <3>2. ShiftCell(p[1], p[2], e) = <<ShiftLine(c, e, Last(axis)), p[2]>>
        BY <1>1, <1>6, <2>3 DEF ShiftCell
      <3> QED  BY <2>2, <2>3, <3>1, <3>2 DEF Covers, Lines, InSpan
    <2>4. CASE axis = "col"
      <3>1. ShiftRange(b, e).top = b.top /\ ShiftRange(b, e).bottom = b.bottom
            /\ ShiftRange(b, e).left = span[1] /\ ShiftRange(b, e).right = span[2]
        BY <2>1, <2>4 DEF WithLines, Boxes
      <3>2. ShiftCell(p[1], p[2], e) = <<p[1], ShiftLine(c, e, Last(axis))>>
        BY <1>1, <1>6, <2>4 DEF ShiftCell
      <3> QED  BY <2>2, <2>4, <3>1, <3>2 DEF Covers, Lines, InSpan
    <2> QED  BY <2>3, <2>4 DEF Axes
  <1> QED  BY <1>7, <1>8

(* The boxes a merge may come to: the engine bounds both axes by the longer *)
(* one.                                                                     *)
WideBoxes ==
    {b \in [top : 0 .. MaxRow, bottom : 0 .. MaxRow, left : 0 .. MaxRow, right : 0 .. MaxRow] :
        b.top <= b.bottom /\ b.left <= b.right}

(* Merged ranges that do not overlap never come to overlap (shift_merge). *)
THEOREM MergesApart ==
    ASSUME NEW axis \in Axes, NEW e \in EditsOn(axis),
           NEW b \in WideBoxes, NEW c \in WideBoxes, Apart(b, c),
           ShiftMerge(b, e) # NoBox, ShiftMerge(c, e) # NoBox
    PROVE  Apart(ShiftMerge(b, e), ShiftMerge(c, e))
  <1> DEFINE SpanOf(x) == ShiftSpan(Lines(x, axis)[1], Lines(x, axis)[2], e, MaxRow)
  <1>1. LineEdit(e, MaxRow) /\ e.axis = axis  BY EditOfLongerAxis
  <1>2. MaxRow \in Nat /\ MaxCol \in 0 .. MaxRow  BY GridAssumption
  <1>3. \A x \in {b, c} : /\ Lines(x, axis)[1] \in 0 .. MaxRow
                          /\ Lines(x, axis)[2] \in Lines(x, axis)[1] .. MaxRow
    BY <1>2 DEF WideBoxes, Lines, Axes
  <1>4. /\ SpanOf(b) # NoSpan /\ ShiftMerge(b, e) = WithLines(b, axis, SpanOf(b))
        /\ SpanOf(c) # NoSpan /\ ShiftMerge(c, e) = WithLines(c, axis, SpanOf(c))
    BY <1>1 DEF ShiftMerge
  <1>5. /\ Lines(b, axis)[2] < Lines(c, axis)[1] => SpanOf(b)[2] < SpanOf(c)[1]
        /\ Lines(c, axis)[2] < Lines(b, axis)[1] => SpanOf(c)[2] < SpanOf(b)[1]
    BY <1>1, <1>2, <1>3, <1>4, SpansApart
  <1>6. CASE axis = "row"
    <2>1. /\ ShiftMerge(b, e).top = SpanOf(b)[1] /\ ShiftMerge(b, e).bottom = SpanOf(b)[2]
          /\ ShiftMerge(b, e).left = b.left /\ ShiftMerge(b, e).right = b.right
          /\ ShiftMerge(c, e).top = SpanOf(c)[1] /\ ShiftMerge(c, e).bottom = SpanOf(c)[2]
          /\ ShiftMerge(c, e).left = c.left /\ ShiftMerge(c, e).right = c.right
      BY <1>4, <1>6 DEF WithLines, WideBoxes
    <2>2. Lines(b, axis) = <<b.top, b.bottom>> /\ Lines(c, axis) = <<c.top, c.bottom>>
      BY <1>6 DEF Lines
    <2> QED  BY <1>5, <2>1, <2>2 DEF Apart
  <1>7. CASE axis = "col"
    <2>1. /\ ShiftMerge(b, e).top = b.top /\ ShiftMerge(b, e).bottom = b.bottom
          /\ ShiftMerge(b, e).left = SpanOf(b)[1] /\ ShiftMerge(b, e).right = SpanOf(b)[2]
          /\ ShiftMerge(c, e).top = c.top /\ ShiftMerge(c, e).bottom = c.bottom
          /\ ShiftMerge(c, e).left = SpanOf(c)[1] /\ ShiftMerge(c, e).right = SpanOf(c)[2]
      BY <1>4, <1>7 DEF WithLines, WideBoxes
    <2>2. Lines(b, axis) = <<b.left, b.right>> /\ Lines(c, axis) = <<c.left, c.right>>
      BY <1>7 DEF Lines
    <2> QED  BY <1>5, <2>1, <2>2 DEF Apart
  <1> QED  BY <1>6, <1>7 DEF Axes

-----------------------------------------------------------------------------
(* What the variables hold.  Cells and merges may lie past the last column, *)
(* up to the bound of the engine.                                           *)
Ids == 1 .. fresh - 1
Grid == Rows \X Rows

Meanings ==
    {m \in [sid : Nat, born : 0 .. fresh, rows : SUBSET Ids, cols : SUBSET Ids] :
        \A id \in m.rows \cup m.cols : id < m.born}

Contents ==
    [kind : {"value"}, v : Nat] \cup [kind : {"ref"}, sheet : Sheets, area : Areas, of : Meanings]
        \cup [kind : {"broken"}, of : Meanings] \cup [kind : {"verbatim"}, sid : Ids, v : Nat]

Partial(S, T) == UNION {[P -> T] : P \in SUBSET S}

SheetRecords ==
    [name : SheetNames, sid : Ids, rows : [Rows -> Ids], cols : [Cols -> Ids],
     cells : Partial(Grid, Contents), home : Partial(Grid, Nat \X Nat),
     merges : SUBSET [box : WideBoxes, of : Meanings]]

TypeOK ==
    /\ fresh \in Nat \ {0}
    /\ book \in Seq(SheetRecords)
    /\ \A s \in Sheets : DOMAIN book[s].home = DOMAIN book[s].cells
    /\ DOMAIN texts \subseteq Sheets \X Grid
    /\ edited \subseteq Sheets \X Grid
    /\ extraDirty \subseteq Sheets

-----------------------------------------------------------------------------
(* Functions on part of a set. *)
LEMMA PartialIs ==
    ASSUME NEW S, NEW T, NEW f
    PROVE  f \in Partial(S, T) <=> /\ f = [x \in DOMAIN f |-> f[x]]
                                   /\ DOMAIN f \subseteq S
                                   /\ \A x \in DOMAIN f : f[x] \in T
  <1>1. ASSUME f \in Partial(S, T)
        PROVE  f = [x \in DOMAIN f |-> f[x]] /\ DOMAIN f \subseteq S /\ \A x \in DOMAIN f : f[x] \in T
    <2>1. PICK P \in SUBSET S : f \in [P -> T]  BY <1>1 DEF Partial
    <2> QED  BY <2>1
  <1>2. ASSUME f = [x \in DOMAIN f |-> f[x]], DOMAIN f \subseteq S, \A x \in DOMAIN f : f[x] \in T
        PROVE  f \in Partial(S, T)
    <2>1. f \in [DOMAIN f -> T]  BY <1>2
    <2> QED  BY <1>2, <2>1 DEF Partial
  <1> QED  BY <1>1, <1>2

(* The fields of a sheet. *)
LEMMA SheetFields ==
    ASSUME TypeOK, NEW s \in Sheets
    PROVE  /\ book[s] \in SheetRecords
           /\ book[s].name \in SheetNames /\ book[s].sid \in Ids
           /\ book[s].rows \in [Rows -> Ids] /\ book[s].cols \in [Cols -> Ids]
           /\ DOMAIN book[s].cells \subseteq Grid
           /\ book[s].cells = [p \in DOMAIN book[s].cells |-> book[s].cells[p]]
           /\ \A p \in DOMAIN book[s].cells : book[s].cells[p] \in Contents
           /\ DOMAIN book[s].home = DOMAIN book[s].cells
           /\ book[s].home = [p \in DOMAIN book[s].home |-> book[s].home[p]]
           /\ \A p \in DOMAIN book[s].home : book[s].home[p] \in Nat \X Nat
           /\ \A m \in book[s].merges : m.box \in WideBoxes /\ m.of \in Meanings
           /\ Sheets = 1 .. Len(book) /\ Len(book) \in Nat
  <1>1. book[s] \in SheetRecords /\ Sheets = 1 .. Len(book) /\ Len(book) \in Nat  BY DEF TypeOK, Sheets
  <1>2. book[s].cells \in Partial(Grid, Contents) /\ book[s].home \in Partial(Grid, Nat \X Nat)
    BY <1>1 DEF SheetRecords
  <1>3. /\ book[s].name \in SheetNames /\ book[s].sid \in Ids
        /\ book[s].rows \in [Rows -> Ids] /\ book[s].cols \in [Cols -> Ids]
        /\ book[s].merges \in SUBSET [box : WideBoxes, of : Meanings]
    BY <1>1 DEF SheetRecords
  <1>4. DOMAIN book[s].home = DOMAIN book[s].cells  BY DEF TypeOK
  <1> QED  BY <1>1, <1>2, <1>3, <1>4, PartialIs

(* The cells that hold formulas, by sheet and position. *)
LEMMA FormulaKeys ==
    ASSUME NEW b, NEW k
    PROVE  k \in Formulas(b) <=> \E s \in DOMAIN b : \E p \in DOMAIN b[s].cells :
                                    k = <<s, p>> /\ Parsed(b[s].cells[p])
  <1>1. k \in CellsOf(b) <=> \E s \in DOMAIN b : k \in {s} \X DOMAIN b[s].cells  BY DEF CellsOf
  <1>2. \A s : k \in {s} \X DOMAIN b[s].cells <=> \E p \in DOMAIN b[s].cells : k = <<s, p>>
    OBVIOUS
  <1>3. k \in Formulas(b) <=> k \in CellsOf(b) /\ Parsed(b[k[1]].cells[k[2]])  BY DEF Formulas
  <1>4. ASSUME k \in Formulas(b)
        PROVE  \E s \in DOMAIN b : \E p \in DOMAIN b[s].cells : k = <<s, p>> /\ Parsed(b[s].cells[p])
    <2>1. PICK s \in DOMAIN b : \E p \in DOMAIN b[s].cells : k = <<s, p>>  BY <1>1, <1>2, <1>3, <1>4
    <2>2. PICK p \in DOMAIN b[s].cells : k = <<s, p>>  BY <2>1
    <2>3. k[1] = s /\ k[2] = p  BY <2>2
    <2> QED  BY <1>3, <1>4, <2>1, <2>2, <2>3
  <1>5. ASSUME NEW s \in DOMAIN b, NEW p \in DOMAIN b[s].cells, k = <<s, p>>, Parsed(b[s].cells[p])
        PROVE  k \in Formulas(b)
    <2>1. k[1] = s /\ k[2] = p  BY <1>5
    <2>2. k \in CellsOf(b)  BY <1>1, <1>2, <1>5
    <2> QED  BY <1>3, <1>5, <2>1, <2>2
  <1> QED  BY <1>4, <1>5

LEMMA FormulaAt ==
    ASSUME NEW b, NEW s, NEW p
    PROVE  <<s, p>> \in Formulas(b) <=> s \in DOMAIN b /\ p \in DOMAIN b[s].cells /\ Parsed(b[s].cells[p])
  <1>1. \A t, q : <<s, p>> = <<t, q>> <=> s = t /\ p = q  OBVIOUS
  <1>2. <<s, p>> \in Formulas(b) <=> \E t \in DOMAIN b : \E q \in DOMAIN b[t].cells :
                                         <<s, p>> = <<t, q>> /\ Parsed(b[t].cells[q])
    BY FormulaKeys
  <1> QED  BY <1>1, <1>2, Zenon

-----------------------------------------------------------------------------
(* Writing cells. *)
KeptCells(s, contents) ==
    {p \in DOMAIN book[s].cells \cup DOMAIN contents :
        IF p \in DOMAIN contents THEN contents[p] # Blank ELSE TRUE}

(* The sheets with just these fields. *)
Exactly(name, sid, rows, cols, cells, home, merges) ==
    [name : {name}, sid : {sid}, rows : {rows}, cols : {cols}, cells : {cells}, home : {home}, merges : {merges}]

LEMMA ExactlyIs ==
    ASSUME NEW name, NEW sid, NEW rows, NEW cols, NEW cells, NEW home, NEW merges,
           NEW sh \in Exactly(name, sid, rows, cols, cells, home, merges)
    PROVE  /\ sh.name = name /\ sh.sid = sid /\ sh.rows = rows /\ sh.cols = cols
           /\ sh.cells = cells /\ sh.home = home /\ sh.merges = merges
           /\ \A A, B, C, D, E, F, G :
                 name \in A /\ sid \in B /\ rows \in C /\ cols \in D /\ cells \in E /\ home \in F /\ merges \in G
                   => sh \in [name : A, sid : B, rows : C, cols : D, cells : E, home : F, merges : G]
  BY DEF Exactly

LEMMA WrittenIs ==
    ASSUME TypeOK, NEW s \in Sheets, NEW contents
    PROVE  /\ DOMAIN Written(s, contents) = Sheets
           /\ Written(s, contents) = [t \in Sheets |-> Written(s, contents)[t]]
           /\ \A t \in Sheets \ {s} : Written(s, contents)[t] = book[t]
           /\ Written(s, contents)[s] \in
                Exactly(book[s].name, book[s].sid, book[s].rows, book[s].cols,
                        [p \in KeptCells(s, contents) |->
                           IF p \in DOMAIN contents THEN contents[p] ELSE book[s].cells[p]],
                        [p \in KeptCells(s, contents) |->
                           IF p \in DOMAIN contents THEN <<book[s].rows[p[1]], book[s].cols[p[2]]>>
                           ELSE book[s].home[p]],
                        book[s].merges)
  <1>1. book[s] \in SheetRecords  BY SheetFields
  <1>2. book \in Seq(SheetRecords) /\ DOMAIN book = Sheets  BY DEF TypeOK, Sheets
  <1> DEFINE kept == KeptCells(s, contents)
             C == [p \in kept |-> IF p \in DOMAIN contents THEN contents[p] ELSE book[s].cells[p]]
             H == [p \in kept |-> IF p \in DOMAIN contents THEN <<book[s].rows[p[1]], book[s].cols[p[2]]>>
                                  ELSE book[s].home[p]]
             written == [book[s] EXCEPT !.cells = C, !.home = H]
  <1>3. Written(s, contents) = [book EXCEPT ![s] = written]
    BY <1>1, <1>2 DEF Written, KeptCells, SheetRecords
  <1>4. written \in Exactly(book[s].name, book[s].sid, book[s].rows, book[s].cols, C, H, book[s].merges)
    <2> HIDE DEF C, H
    <2> QED  BY <1>1 DEF SheetRecords, Exactly
  <1> HIDE DEF written, C, H, kept
  <1>5. /\ DOMAIN Written(s, contents) = Sheets
        /\ \A t \in Sheets \ {s} : Written(s, contents)[t] = book[t]
        /\ Written(s, contents)[s] = written
        /\ Written(s, contents) = [t \in Sheets |-> Written(s, contents)[t]]
    BY <1>2, <1>3
  <1> QED  BY <1>4, <1>5 DEF C, H, kept

(* A reference follows what it meant, and #REF! stands for what is lost. *)
ContentFollows(c) ==
    /\ c.kind = "ref" => AreaFollows(book[c.sheet], c.area, c.of)
    /\ c.kind = "broken" => Lost(c.of)

CellsFollow == \A s \in Sheets : \A p \in DOMAIN book[s].cells : ContentFollows(book[s].cells[p])

(* What is written: values and formulas, at positions on the sheet, and     *)
(* while the references there follow, references that follow.               *)
Fits(contents) ==
    /\ DOMAIN contents \subseteq Positions
    /\ \A p \in DOMAIN contents :
          /\ contents[p] = Blank \/ (contents[p] \in Contents /\ contents[p].kind # "verbatim")
          /\ CellsFollow => ContentFollows(contents[p])

LEMMA OnGrid == MaxRow \in Nat /\ MaxCol \in 0 .. MaxRow /\ Positions \subseteq Grid /\ Cols \subseteq Rows
  BY GridAssumption DEF Positions, Grid, Rows, Cols

LEMMA WriteKeepsType ==
    ASSUME TypeOK, NEW s \in Sheets, NEW contents, Fits(contents), Write(s, contents)
    PROVE  TypeOK' /\ Sheets' = Sheets
  <1> DEFINE C == [p \in KeptCells(s, contents) |->
                      IF p \in DOMAIN contents THEN contents[p] ELSE book[s].cells[p]]
             H == [p \in KeptCells(s, contents) |->
                      IF p \in DOMAIN contents THEN <<book[s].rows[p[1]], book[s].cols[p[2]]>>
                      ELSE book[s].home[p]]
  <1>1. book' = Written(s, contents)  BY DEF Write
  <1>2. /\ DOMAIN book' = Sheets
        /\ \A t \in Sheets \ {s} : book'[t] = book[t]
        /\ book'[s] \in Exactly(book[s].name, book[s].sid, book[s].rows, book[s].cols, C, H, book[s].merges)
    BY <1>1, WrittenIs
  <1>3. Sheets' = Sheets  BY <1>2 DEF Sheets
  <1>4. fresh' = fresh  BY DEF Write
  <1>5. Ids' = Ids /\ Meanings' = Meanings /\ Contents' = Contents /\ SheetRecords' = SheetRecords
    BY <1>3, <1>4 DEF Ids, Meanings, Contents, SheetRecords
  <1>6. C \in Partial(Grid, Contents) /\ DOMAIN C = KeptCells(s, contents)
    <2>1. DOMAIN C \subseteq Grid  BY SheetFields, OnGrid DEF KeptCells, Fits
    <2>2. \A p \in DOMAIN C : C[p] \in Contents  BY SheetFields DEF KeptCells, Fits
    <2> QED  BY <2>1, <2>2, PartialIs
  <1>7. H \in Partial(Grid, Nat \X Nat) /\ DOMAIN H = KeptCells(s, contents)
    <2>1. DOMAIN H \subseteq Grid  BY SheetFields, OnGrid DEF KeptCells, Fits
    <2>2. ASSUME NEW p \in DOMAIN H  PROVE H[p] \in Nat \X Nat
      <3>1. CASE p \in DOMAIN contents
        <4>1. p[1] \in Rows /\ p[2] \in Cols  BY <3>1 DEF Fits, Positions
        <4>2. book[s].rows \in [Rows -> Ids] /\ book[s].cols \in [Cols -> Ids]  BY SheetFields
        <4>3. Ids \subseteq Nat  BY DEF Ids, TypeOK
        <4>4. book[s].rows[p[1]] \in Nat /\ book[s].cols[p[2]] \in Nat  BY <4>1, <4>2, <4>3
        <4> QED  BY <3>1, <4>4
      <3>2. CASE p \notin DOMAIN contents
        <4>1. p \in DOMAIN book[s].home  BY <3>2, SheetFields DEF KeptCells
        <4> QED  BY <3>2, <4>1, SheetFields
      <3> QED  BY <3>1, <3>2
    <2>3. H = [p \in DOMAIN H |-> H[p]] /\ DOMAIN H = KeptCells(s, contents)  OBVIOUS
    <2> HIDE DEF H
    <2> QED  BY <2>1, <2>2, <2>3, PartialIs
  <1> HIDE DEF C, H
  <1>8. book'[s] \in SheetRecords /\ book'[s].home = H /\ book'[s].cells = C
    <2>1. book[s].merges \in SUBSET [box : WideBoxes, of : Meanings]  BY SheetFields DEF SheetRecords
    <2>2. book[s].name \in SheetNames /\ book[s].sid \in Ids
          /\ book[s].rows \in [Rows -> Ids] /\ book[s].cols \in [Cols -> Ids]
      BY SheetFields
    <2> QED  BY <1>2, <1>6, <1>7, <2>1, <2>2 DEF SheetRecords, Exactly
  <1>9. book' \in Seq(SheetRecords)
    <2>1. Sheets = 1 .. Len(book) /\ Len(book) \in Nat  BY SheetFields
    <2>2. \A t \in Sheets : book'[t] \in SheetRecords  BY <1>2, <1>8, SheetFields
    <2>3. book' = [t \in Sheets |-> book'[t]]
      BY <1>1, WrittenIs
    <2> HIDE DEF SheetRecords
    <2> QED  BY <2>1, <2>2, <2>3
  <1>10. edited' \subseteq Sheets \X Grid  BY OnGrid DEF Write, Fits, TypeOK
  <1>11. \A t \in Sheets : DOMAIN book'[t].home = DOMAIN book'[t].cells
    BY <1>2, <1>6, <1>7, <1>8, SheetFields
  <1>12. DOMAIN texts' \subseteq Sheets \X Grid /\ extraDirty' \subseteq Sheets /\ fresh' \in Nat \ {0}
    BY <1>4 DEF Write, TypeOK
  <1>13. Grid' = Grid  BY DEF Grid, Rows
  <1> QED  BY <1>3, <1>5, <1>9, <1>10, <1>11, <1>12, <1>13 DEF TypeOK

-----------------------------------------------------------------------------
(* Sorting: the order of the rows. *)

(* Row q comes before row r: by the key, and equal keys as they stand. *)
Before(key, q, r, ascending) ==
    IF key[q] = key[r] THEN q < r ELSE Precedes(key[q], key[r], ascending)

SortKeys == Nat \cup {NoKey}

LEMMA BeforeIsAnOrder ==
    ASSUME NEW rows \in SUBSET Nat, NEW key \in [rows -> SortKeys], NEW ascending \in BOOLEAN,
           NEW q \in rows, NEW r \in rows, NEW t \in rows
    PROVE  /\ ~Before(key, q, q, ascending)
           /\ q # r => Before(key, q, r, ascending) \/ Before(key, r, q, ascending)
           /\ Before(key, q, r, ascending) /\ Before(key, r, t, ascending) => Before(key, q, t, ascending)
  BY DEF Before, Precedes, SortKeys, NoKey

(* The rows that come before one. *)
Ahead(rows, key, r, ascending) == {q \in rows : Before(key, q, r, ascending)}

LEMMA PlacesDiffer ==
    ASSUME NEW rows \in SUBSET Nat, IsFiniteSet(rows), NEW key \in [rows -> SortKeys],
           NEW ascending \in BOOLEAN, NEW q \in rows, NEW r \in rows, Before(key, q, r, ascending)
    PROVE  /\ Cardinality(Ahead(rows, key, q, ascending)) < Cardinality(Ahead(rows, key, r, ascending))
           /\ Cardinality(Ahead(rows, key, q, ascending)) \in Nat
           /\ Cardinality(Ahead(rows, key, r, ascending)) \in Nat
  <1> DEFINE Q == Ahead(rows, key, q, ascending)
             R == Ahead(rows, key, r, ascending)
  <1>1. Q \subseteq rows /\ R \subseteq rows  BY DEF Ahead
  <1>2. IsFiniteSet(Q) /\ IsFiniteSet(R)  BY <1>1, FS_Subset
  <1>3. Q \subseteq R
    <2>1. ASSUME NEW t \in rows, Before(key, t, q, ascending)
          PROVE  Before(key, t, r, ascending)
      BY <2>1, BeforeIsAnOrder
    <2> QED  BY <2>1 DEF Ahead
  <1>4. q \in R /\ q \notin Q  BY BeforeIsAnOrder DEF Ahead
  <1>5. Cardinality(Q) \in Nat /\ Cardinality(R) \in Nat  BY <1>2, FS_CardinalityType
  <1>6. Cardinality(Q) <= Cardinality(R) /\ (Cardinality(R) = Cardinality(Q) => R = Q)
    BY <1>2, <1>3, FS_Subset
  <1> HIDE DEF Q, R
  <1>7. Cardinality(Q) < Cardinality(R)  BY <1>4, <1>5, <1>6
  <1> QED  BY <1>5, <1>7 DEF Q, R

LEMMA PlacesFit ==
    ASSUME NEW rows \in SUBSET Nat, IsFiniteSet(rows), NEW key \in [rows -> SortKeys],
           NEW ascending \in BOOLEAN, NEW r \in rows
    PROVE  Cardinality(Ahead(rows, key, r, ascending)) \in 0 .. Cardinality(rows) - 1
  <1> DEFINE R == Ahead(rows, key, r, ascending)
  <1>1. R \subseteq rows /\ r \notin R  BY BeforeIsAnOrder DEF Ahead
  <1>2. IsFiniteSet(R)  BY <1>1, FS_Subset
  <1>3. Cardinality(R) \in Nat /\ Cardinality(rows) \in Nat  BY <1>2, FS_CardinalityType
  <1>4. Cardinality(R) <= Cardinality(rows) /\ (Cardinality(rows) = Cardinality(R) => rows = R)
    BY <1>1, FS_Subset
  <1> HIDE DEF R
  <1> QED  BY <1>1, <1>3, <1>4 DEF R

LEMMA InjectionIs ==
    ASSUME NEW S, NEW T, NEW f \in [S -> T], \A q, r \in S : f[q] = f[r] => q = r
    PROVE  f \in Injection(S, T)
  BY DEF Injection, IsInjective

(* Every place is taken by one row. *)
LEMMA PlacesTaken ==
    ASSUME NEW rows \in SUBSET Nat, IsFiniteSet(rows), NEW key \in [rows -> SortKeys],
           NEW ascending \in BOOLEAN, NEW n \in 0 .. Cardinality(rows) - 1
    PROVE  \E r \in rows : Cardinality(Ahead(rows, key, r, ascending)) = n
  <1> DEFINE place == [r \in rows |-> Cardinality(Ahead(rows, key, r, ascending))]
             places == 0 .. Cardinality(rows) - 1
  <1>1. Cardinality(rows) \in Nat  BY FS_CardinalityType
  <1>2. place \in [rows -> places]  BY PlacesFit
  <1>3. \A q, r \in rows : place[q] = place[r] => q = r
    <2>1. \A q, r \in rows : Before(key, q, r, ascending) => place[q] # place[r]
      BY PlacesDiffer
    <2> HIDE DEF place
    <2> QED  BY <2>1, BeforeIsAnOrder
  <1>4. IsFiniteSet(places) /\ Cardinality(places) = Cardinality(rows)
    BY <1>1, FS_Interval
  <1> HIDE DEF place, places
  <1>5. place \in Injection(rows, places)  BY <1>2, <1>3, InjectionIs
  <1>6. place \in Surjection(rows, places)  BY <1>4, <1>5, FS_Injection
  <1> QED  BY <1>6 DEF Surjection, place, places

(* The order is a permutation of the rows, and it is sorted. *)
LEMMA SortOrderIs ==
    ASSUME NEW box \in Boxes, NEW header \in BOOLEAN, NEW ascending \in BOOLEAN,
           NEW key \in [DataRows(box, header) -> SortKeys]
    PROVE  LET rows == DataRows(box, header)
               from == SortOrder(box, header, key, ascending)
           IN  /\ from \in [rows -> rows]
               /\ \A r \in rows : \E i \in rows : from[i] = r
               /\ \A i, j \in rows : i < j => Before(key, from[i], from[j], ascending)
  <1> DEFINE rows == DataRows(box, header)
             n == Cardinality(rows)
             first == box.bottom - n + 1
             Place(r) == Cardinality(Ahead(rows, key, r, ascending))
             from == SortOrder(box, header, key, ascending)
  <1>1. rows \in SUBSET Nat /\ IsFiniteSet(rows) /\ box.bottom \in Nat /\ n \in Nat
        /\ first \in Nat /\ \A i : i \in rows <=> i \in Nat /\ i >= first /\ i <= box.bottom
    <2> DEFINE lo == IF header THEN box.top + 1 ELSE box.top
    <2>1. box.top \in Nat /\ box.bottom \in Nat /\ box.top <= box.bottom  BY OnGrid DEF Boxes
    <2>2. rows = lo .. box.bottom /\ lo \in Nat /\ lo <= box.bottom + 1  BY <2>1 DEF DataRows
    <2> HIDE DEF lo
    <2>3. IsFiniteSet(lo .. box.bottom)
          /\ Cardinality(lo .. box.bottom) = IF lo > box.bottom THEN 0 ELSE box.bottom - lo + 1
      <3>1. lo \in Int /\ box.bottom \in Int  BY <2>1, <2>2
      <3> QED  BY <3>1, FS_Interval, Zenon
    <2>4. n = Cardinality(lo .. box.bottom) /\ IsFiniteSet(rows)  BY <2>2, <2>3
    <2> HIDE DEF n, rows
    <2>5. n = box.bottom - lo + 1  BY <2>1, <2>2, <2>3, <2>4
    <2>6. first = lo  BY <2>1, <2>2, <2>5
    <2>7. \A i : i \in rows <=> i \in Nat /\ i >= lo /\ i <= box.bottom  BY <2>1, <2>2
    <2>8. rows \in SUBSET Nat /\ n \in Nat  BY <2>1, <2>2, <2>5
    <2> QED  BY <2>1, <2>2, <2>4, <2>6, <2>7, <2>8
  <1>2. from = [i \in rows |-> CHOOSE r \in rows : first + Place(r) = i]
    BY DEF SortOrder, Ahead, Before
  <1>3. \A r \in rows : Place(r) \in 0 .. n - 1  BY <1>1, PlacesFit
  <1>4. \A m \in 0 .. n - 1 : \E r \in rows : Place(r) = m  BY <1>1, PlacesTaken
  <1>5. \A q, r \in rows : Before(key, q, r, ascending) => Place(q) < Place(r)  BY <1>1, PlacesDiffer
  <1>6. \A q, r \in rows : ~(Before(key, q, r, ascending) /\ Before(key, r, q, ascending))
    BY <1>1, BeforeIsAnOrder
  <1>7. \A q, r \in rows : q = r \/ Before(key, q, r, ascending) \/ Before(key, r, q, ascending)
    BY <1>1, BeforeIsAnOrder
  <1> HIDE DEF Place, n, from, rows
  <1>8. \A i \in rows : from[i] \in rows /\ first + Place(from[i]) = i
    <2>1. SUFFICES ASSUME NEW i \in rows  PROVE  \E r \in rows : first + Place(r) = i
      BY <1>2
    <2>2. i - first \in 0 .. n - 1  BY <1>1
    <2>3. PICK r \in rows : Place(r) = i - first  BY <1>4, <2>2
    <2> QED  BY <1>1, <2>3
  <1>9. from \in [rows -> rows]  BY <1>2, <1>8
  <1>10. \A r \in rows : \E i \in rows : from[i] = r
    <2>1. SUFFICES ASSUME NEW r \in rows  PROVE  \E i \in rows : from[i] = r
      OBVIOUS
    <2>2. first + Place(r) \in rows  BY <1>1, <1>3
    <2>3. Place(from[first + Place(r)]) = Place(r)  BY <1>1, <1>3, <1>8, <2>2
    <2>4. from[first + Place(r)] = r  BY <1>3, <1>5, <1>7, <1>8, <2>2, <2>3
    <2> QED  BY <2>2, <2>4
  <1>11. ASSUME NEW i \in rows, NEW j \in rows, i < j
         PROVE  Before(key, from[i], from[j], ascending)
    <2>1. Place(from[i]) < Place(from[j])  BY <1>1, <1>3, <1>8, <1>11
    <2> QED  BY <1>3, <1>5, <1>7, <1>8, <2>1
  <1> QED  BY <1>9, <1>10, <1>11 DEF from, rows

-----------------------------------------------------------------------------
(* What is entered and what is copied. *)
LEMMA MeaningIs ==
    ASSUME TypeOK, NEW s \in Sheets, NEW area \in Areas
    PROVE  Meaning(book, s, area) \in Meanings
  <1>1. book[s].rows \in [Rows -> Ids] /\ book[s].cols \in [Cols -> Ids] /\ book[s].sid \in Ids
    BY SheetFields
  <1>2. area.top .. area.bottom \subseteq Rows /\ area.left .. area.right \subseteq Cols
    BY OnGrid DEF Areas, Rows, Cols
  <1>3. /\ {book[s].rows[i] : i \in area.top .. area.bottom} \subseteq Ids
        /\ {book[s].cols[i] : i \in area.left .. area.right} \subseteq Ids
    BY <1>1, <1>2
  <1>4. fresh \in 0 .. fresh /\ Ids \subseteq Nat /\ \A id \in Ids : id < fresh
    BY DEF TypeOK, Ids
  <1> QED  BY <1>1, <1>3, <1>4 DEF Meaning, Meanings

LEMMA NoMeaningIs == ASSUME TypeOK PROVE NoMeaning \in Meanings
  BY DEF TypeOK, NoMeaning, Meanings

LEMMA FilledAreaIs ==
    ASSUME NEW area \in Areas, NEW drow \in Int, NEW dcol \in Int
    PROVE  FillArea(area, drow, dcol) = NoBox \/ FillArea(area, drow, dcol) \in Areas
  <1> DEFINE top == FillLine(area.top, "row" \in area.anchored, drow, MaxRow)
             bottom == FillLine(area.bottom, "row" \in area.anchored, drow, MaxRow)
             left == FillLine(area.left, "col" \in area.anchored, dcol, MaxCol)
             right == FillLine(area.right, "col" \in area.anchored, dcol, MaxCol)
             moved == [area EXCEPT !.top = top, !.bottom = bottom, !.left = left, !.right = right]
  <1>1. /\ top = Gone \/ bottom = Gone \/ (top \in Rows /\ bottom \in Rows /\ top <= bottom)
        /\ left = Gone \/ right = Gone \/ (left \in Cols /\ right \in Cols /\ left <= right)
    BY OnGrid DEF Areas, FillLine, Rows, Cols
  <1>2. area \in [top : Rows, bottom : Rows, left : Cols, right : Cols, anchored : SUBSET Axes]
    BY DEF Areas, Rows, Cols
  <1>3. FillArea(area, drow, dcol) = IF Gone \in {moved.top, moved.bottom, moved.left, moved.right}
                                     THEN NoBox ELSE moved
    BY DEF FillArea
  <1> HIDE DEF top, bottom, left, right
  <1>4. moved.top = top /\ moved.bottom = bottom /\ moved.left = left /\ moved.right = right
    BY <1>2
  <1>5. ASSUME top \in Rows, bottom \in Rows, left \in Cols, right \in Cols
        PROVE  moved \in [top : Rows, bottom : Rows, left : Cols, right : Cols, anchored : SUBSET Axes]
    BY <1>2, <1>5
  <1> HIDE DEF moved
  <1>6. moved \in [top : Rows, bottom : Rows, left : Cols, right : Cols, anchored : SUBSET Axes]
          /\ moved.top <= moved.bottom /\ moved.left <= moved.right => moved \in Areas
    BY DEF Areas, Rows, Cols
  <1> QED  BY <1>1, <1>3, <1>4, <1>5, <1>6

LEMMA CopiedFits ==
    ASSUME TypeOK, NEW content \in Contents \cup {Blank}, NEW drow \in Int, NEW dcol \in Int
    PROVE  LET copy == Copied(content, drow, dcol)
           IN  copy = Blank \/ (copy \in Contents /\ copy.kind # "verbatim")
  <1>1. CASE content.kind = "verbatim"
    <2>1. content.v \in Nat /\ Copied(content, drow, dcol) = Value(content.v)
      BY <1>1 DEF Copied, Contents, Blank
    <2> QED  BY <2>1 DEF Value, Contents
  <1>2. CASE content.kind = "ref" /\ <<drow, dcol>> # <<0, 0>>
    <2> DEFINE area == FillArea(content.area, drow, dcol)
    <2>1. content.area \in Areas /\ content.sheet \in Sheets  BY <1>2 DEF Contents, Blank
    <2>2. area = NoBox \/ area \in Areas  BY <2>1, FilledAreaIs
    <2>3. Copied(content, drow, dcol) = IF area = NoBox THEN Broken(NoMeaning)
                                        ELSE Ref(content.sheet, area, Meaning(book, content.sheet, area))
      BY <1>2 DEF Copied
    <2> HIDE DEF area
    <2>4. CASE area = NoBox
      <3>1. Broken(NoMeaning) \in Contents /\ Broken(NoMeaning).kind = "broken"
        BY NoMeaningIs DEF Broken, Contents
      <3> QED  BY <2>3, <2>4, <3>1
    <2>5. CASE area # NoBox
      <3>1. Meaning(book, content.sheet, area) \in Meanings  BY <2>1, <2>2, <2>5, MeaningIs
      <3>2. \A of \in Meanings : /\ Ref(content.sheet, area, of) \in Contents
                                 /\ Ref(content.sheet, area, of).kind = "ref"
        BY <2>1, <2>2, <2>5 DEF Ref, Contents
      <3> QED  BY <2>3, <2>5, <3>1, <3>2
    <2> QED  BY <2>4, <2>5
  <1>3. CASE content.kind # "verbatim" /\ ~(content.kind = "ref" /\ <<drow, dcol>> # <<0, 0>>)
    <2>1. Copied(content, drow, dcol) = content  BY <1>3 DEF Copied
    <2> QED  BY <1>3, <2>1
  <1> QED  BY <1>1, <1>2, <1>3

LEMMA EnteredFits ==
    ASSUME TypeOK, NEW entry \in TypedEntries, entry.kind = "ref" => entry.sheet \in Sheets
    PROVE  Entered(book, entry) = Blank
             \/ (Entered(book, entry) \in Contents /\ Entered(book, entry).kind # "verbatim")
  <1>1. CASE entry.kind = "value"
    <2>1. entry \in [kind : {"value"}, v : Keys]  BY <1>1 DEF TypedEntries, ReadEntries
    <2>2. entry.v \in Keys  BY <2>1
    <2>4. Keys \subseteq Nat  BY NamesAssumption, Zenon
    <2>3. Entered(book, entry) = Value(entry.v)  BY <1>1 DEF Entered
    <2>5. entry.v \in Nat  BY <2>2, <2>4, Zenon
    <2> QED  BY <2>3, <2>5 DEF Value, Contents
  <1>2. CASE entry.kind = "ref"
    <2>1. entry.area \in Areas /\ entry.sheet \in Sheets  BY <1>2 DEF TypedEntries, ReadEntries
    <2>2. Entered(book, entry) = Ref(entry.sheet, entry.area, Meaning(book, entry.sheet, entry.area))
      BY <1>2 DEF Entered
    <2>3. \A of \in Meanings : /\ Ref(entry.sheet, entry.area, of) \in Contents
                               /\ Ref(entry.sheet, entry.area, of).kind = "ref"
      BY <2>1 DEF Ref, Contents
    <2> QED  BY <2>1, <2>2, <2>3, MeaningIs
  <1>3. CASE entry.kind = "blank"
    BY <1>3 DEF Entered
  <1> QED  BY <1>1, <1>2, <1>3 DEF TypedEntries, ReadEntries

-----------------------------------------------------------------------------
(* What is entered means the lines it covers, and a copy what it lies over. *)
LEMMA MeaningFitsLines ==
    ASSUME TypeOK, NEW s \in Sheets, NEW area \in Areas \cup Boxes
    PROVE  LET of == Meaning(book, s, area)
           IN  /\ book[s].sid = of.sid
               /\ \A band : SpanFollows(area.top, area.bottom, book[s].rows, of.rows, of.born, band)
               /\ \A band : SpanFollows(area.left, area.right, book[s].cols, of.cols, of.born, band)
  <1> DEFINE of == Meaning(book, s, area)
             sh == book[s]
  <1>1. sh.rows \in [Rows -> Ids] /\ sh.cols \in [Cols -> Ids]  BY SheetFields
  <1>2. /\ area.top \in area.top .. area.bottom /\ area.bottom \in area.top .. area.bottom
        /\ area.left \in area.left .. area.right /\ area.right \in area.left .. area.right
        /\ area.top .. area.bottom \subseteq Rows /\ area.left .. area.right \subseteq Cols
    BY OnGrid DEF Areas, Boxes, Rows, Cols
  <1>3. /\ of.sid = sh.sid /\ of.born = fresh
        /\ of.rows = {sh.rows[i] : i \in area.top .. area.bottom}
        /\ of.cols = {sh.cols[i] : i \in area.left .. area.right}
    BY DEF Meaning
  <1>4. \A id \in Ids : id < fresh  BY DEF Ids, TypeOK
  <1> HIDE DEF of, sh
  <1>5. ASSUME NEW D, NEW ids \in [D -> Ids], NEW lo, NEW hi, NEW band, lo .. hi \subseteq D,
               lo \in lo .. hi, hi \in lo .. hi
        PROVE  SpanFollows(lo, hi, ids, {ids[i] : i \in lo .. hi}, fresh, band)
    <2>1. {id \in {ids[i] : i \in lo .. hi} : id < fresh} = {ids[i] : i \in lo .. hi}
      BY <1>4, <1>5
    <2>2. {ids[i] : i \in lo .. hi} \cap {ids[i] : i \in DOMAIN ids} = {ids[i] : i \in lo .. hi}
      BY <1>5
    <2>3. {ids[lo], ids[hi]} \subseteq {ids[i] : i \in lo .. hi}  BY <1>5
    <2> QED  BY <2>1, <2>2, <2>3 DEF SpanFollows
  <1>6. ASSUME NEW band
        PROVE  /\ SpanFollows(area.top, area.bottom, sh.rows, of.rows, of.born, band)
               /\ SpanFollows(area.left, area.right, sh.cols, of.cols, of.born, band)
    BY <1>1, <1>2, <1>3, <1>5
  <1> QED  BY <1>3, <1>6 DEF of, sh

LEMMA MeaningFollows ==
    ASSUME TypeOK, NEW s \in Sheets, NEW area \in Areas
    PROVE  AreaFollows(book[s], area, Meaning(book, s, area))
  BY MeaningFitsLines DEF AreaFollows

(* Nothing was ever meant by a reference copied off the sheet. *)
LEMMA NoMeaningLost == ASSUME TypeOK PROVE Lost(NoMeaning)
  <1>0. 0 \notin Ids  BY DEF Ids, TypeOK
  <1>1. \A s \in Sheets : book[s].sid # 0  BY <1>0, SheetFields
  <1> QED  BY <1>1 DEF Lost, NoMeaning

LEMMA CopiedFollows ==
    ASSUME TypeOK, NEW content \in Contents \cup {Blank}, ContentFollows(content),
           NEW drow \in Int, NEW dcol \in Int
    PROVE  ContentFollows(Copied(content, drow, dcol))
  <1>1. CASE content.kind = "verbatim"
    <2>1. Copied(content, drow, dcol) = Value(content.v)  BY <1>1 DEF Copied
    <2>2. Value(content.v).kind = "value"  BY DEF Value
    <2> QED  BY <2>1, <2>2 DEF ContentFollows
  <1>2. CASE content.kind = "ref" /\ <<drow, dcol>> # <<0, 0>>
    <2> DEFINE area == FillArea(content.area, drow, dcol)
    <2>1. content.area \in Areas /\ content.sheet \in Sheets  BY <1>2 DEF Contents, Blank
    <2>2. area = NoBox \/ area \in Areas  BY <2>1, FilledAreaIs
    <2>3. Copied(content, drow, dcol) = IF area = NoBox THEN Broken(NoMeaning)
                                        ELSE Ref(content.sheet, area, Meaning(book, content.sheet, area))
      BY <1>2 DEF Copied
    <2> HIDE DEF area
    <2>4. CASE area = NoBox
      <3>1. Broken(NoMeaning).kind = "broken" /\ Broken(NoMeaning).of = NoMeaning  BY DEF Broken
      <3> QED  BY <2>3, <2>4, <3>1, NoMeaningLost DEF ContentFollows
    <2>5. CASE area # NoBox
      <3>1. AreaFollows(book[content.sheet], area, Meaning(book, content.sheet, area))
        BY <2>1, <2>2, <2>5, MeaningFollows
      <3>2. \A of : LET c == Ref(content.sheet, area, of)
                    IN  c.kind = "ref" /\ c.sheet = content.sheet /\ c.area = area /\ c.of = of
        BY DEF Ref
      <3> QED  BY <2>3, <2>5, <3>1, <3>2 DEF ContentFollows
    <2> QED  BY <2>4, <2>5
  <1>3. CASE content.kind # "verbatim" /\ ~(content.kind = "ref" /\ <<drow, dcol>> # <<0, 0>>)
    <2>1. Copied(content, drow, dcol) = content  BY <1>3 DEF Copied
    <2> QED  BY <2>1
  <1> QED  BY <1>1, <1>2, <1>3

LEMMA EnteredFollows ==
    ASSUME TypeOK, NEW entry \in TypedEntries, entry.kind = "ref" => entry.sheet \in Sheets
    PROVE  ContentFollows(Entered(book, entry))
  <1>1. CASE entry.kind = "value"
    <2>1. Entered(book, entry) = Value(entry.v)  BY <1>1 DEF Entered
    <2>2. Value(entry.v).kind = "value"  BY DEF Value
    <2> QED  BY <2>1, <2>2 DEF ContentFollows
  <1>2. CASE entry.kind = "ref"
    <2>1. entry.area \in Areas /\ entry.sheet \in Sheets  BY <1>2 DEF TypedEntries, ReadEntries
    <2>2. Entered(book, entry) = Ref(entry.sheet, entry.area, Meaning(book, entry.sheet, entry.area))
      BY <1>2 DEF Entered
    <2>3. AreaFollows(book[entry.sheet], entry.area, Meaning(book, entry.sheet, entry.area))
      BY <2>1, MeaningFollows
    <2>4. \A of : LET c == Ref(entry.sheet, entry.area, of)
                  IN  c.kind = "ref" /\ c.sheet = entry.sheet /\ c.area = entry.area /\ c.of = of
      BY DEF Ref
    <2> QED  BY <2>2, <2>3, <2>4 DEF ContentFollows
  <1>3. CASE entry.kind = "blank"
    BY <1>3 DEF Entered, Blank, ContentFollows
  <1> QED  BY <1>1, <1>2, <1>3 DEF TypedEntries, ReadEntries

LEMMA BlankFollows == ContentFollows(Blank)
  BY DEF ContentFollows, Blank

-----------------------------------------------------------------------------
(* Typing, sorting and filling write contents that fit. *)
LEMMA AtFollows ==
    ASSUME CellsFollow, NEW s \in Sheets, NEW p
    PROVE  ContentFollows(ContentAt(book, s, p))
  BY BlankFollows DEF CellsFollow, ContentAt

LEMMA ContentAtIs ==
    ASSUME TypeOK, NEW s \in Sheets, NEW p
    PROVE  ContentAt(book, s, p) \in Contents \cup {Blank}
  BY SheetFields DEF ContentAt

LEMMA DifferingIs ==
    ASSUME NEW s, NEW contents
    PROVE  /\ DOMAIN Differing(s, contents) \subseteq DOMAIN contents
           /\ \A p \in DOMAIN Differing(s, contents) : Differing(s, contents)[p] = contents[p]
           /\ \A p \in DOMAIN contents :
                 p \notin DOMAIN Differing(s, contents) =>
                    Printed(book, s, contents[p]) = Printed(book, s, ContentAt(book, s, p))
  BY DEF Differing, Only

LEMMA SetCellFits ==
    ASSUME TypeOK, NEW s, NEW p \in Positions, NEW entry \in TypedEntries, SetCell(s, p, entry)
    PROVE  s \in Sheets /\ \E contents : Fits(contents) /\ Write(s, contents)
  <1> DEFINE contents == [q \in {p} |-> Entered(book, entry)]
  <1>1. s \in Sheets /\ Write(s, contents) /\ (entry.kind = "ref" => entry.sheet \in Sheets)
    BY DEF SetCell
  <1>2. Fits(contents)
    <2>1. Entered(book, entry) = Blank
             \/ (Entered(book, entry) \in Contents /\ Entered(book, entry).kind # "verbatim")
      BY <1>1, EnteredFits
    <2>2. DOMAIN contents = {p} /\ contents[p] = Entered(book, entry)  OBVIOUS
    <2>3. ContentFollows(contents[p])  BY <1>1, <2>2, EnteredFollows
    <2> HIDE DEF contents
    <2> QED  BY <2>1, <2>2, <2>3 DEF Fits
  <1> QED  BY <1>1, <1>2

(* Rows of a sort are rows of the sheet. *)
LEMMA SortedCells ==
    ASSUME NEW box \in Boxes, NEW header \in BOOLEAN
    PROVE  /\ DataRows(box, header) \subseteq Rows
           /\ DataRows(box, header) \subseteq box.top .. box.bottom
           /\ box.left .. box.right \subseteq Cols
           /\ DataRows(box, header) \X (box.left .. box.right) \subseteq Positions
  BY OnGrid DEF Boxes, DataRows, Rows, Cols, Positions

LEMMA KeyIs ==
    ASSUME TypeOK, NEW content \in Contents \cup {Blank}, NEW hint \in Keys
    PROVE  KeyOf(content, hint) \in SortKeys
  <1>1. hint \in Nat  BY NamesAssumption, Zenon
  <1>2. CASE content = Blank  BY <1>2 DEF KeyOf, SortKeys
  <1>3. CASE content # Blank /\ Parsed(content)  BY <1>1, <1>3 DEF KeyOf, SortKeys
  <1>4. CASE content # Blank /\ ~Parsed(content)
    <2>1. content.v \in Nat  BY <1>4 DEF Contents, Parsed
    <2> QED  BY <1>4, <2>1 DEF KeyOf, SortKeys
  <1> QED  BY <1>2, <1>3, <1>4

(* What a sort writes: copies of the rows the order names, where they       *)
(* differ from what is there.                                               *)
SortWrites(s, box, header, from) ==
    [p \in DataRows(box, header) \X (box.left .. box.right) |->
        Copied(ContentAt(book, s, <<from[p[1]], p[2]>>), p[1] - from[p[1]], 0)]

RowKeys(s, box, col, header, hint) ==
    [r \in DataRows(box, header) |-> KeyOf(ContentAt(book, s, <<r, col>>), hint)]

LEMMA SortIs ==
    ASSUME TypeOK, NEW s, NEW box \in Boxes, NEW col, NEW ascending \in BOOLEAN,
           NEW header \in BOOLEAN, NEW hint \in Keys, Sort(s, box, col, ascending, header, hint)
    PROVE  LET key == RowKeys(s, box, col, header, hint)
               from == SortOrder(box, header, key, ascending)
           IN  /\ s \in Sheets
               /\ key \in [DataRows(box, header) -> SortKeys]
               /\ from \in [DataRows(box, header) -> DataRows(box, header)]
               /\ Fits(SortWrites(s, box, header, from))
               /\ Fits(Differing(s, SortWrites(s, box, header, from)))
               /\ Write(s, Differing(s, SortWrites(s, box, header, from)))
  <1> DEFINE key == RowKeys(s, box, col, header, hint)
             from == SortOrder(box, header, key, ascending)
             contents == SortWrites(s, box, header, from)
  <1>1. s \in Sheets /\ Write(s, Differing(s, contents))  BY DEF Sort, RowKeys, SortWrites
  <1>2. key \in [DataRows(box, header) -> SortKeys]  BY <1>1, ContentAtIs, KeyIs DEF RowKeys
  <1> HIDE DEF key
  <1>3. from \in [DataRows(box, header) -> DataRows(box, header)]  BY <1>2, SortOrderIs
  <1> HIDE DEF from
  <1>4. DOMAIN contents \subseteq Positions  BY SortedCells DEF SortWrites
  <1>5. ASSUME NEW p \in DOMAIN contents
        PROVE  /\ contents[p] = Blank \/ (contents[p] \in Contents /\ contents[p].kind # "verbatim")
               /\ CellsFollow => ContentFollows(contents[p])
    <2>1. p[1] \in DataRows(box, header)  BY <1>5 DEF SortWrites
    <2>2. p[1] - from[p[1]] \in Int  BY <1>3, <2>1, SortedCells, OnGrid DEF Rows
    <2>3. contents[p] = Copied(ContentAt(book, s, <<from[p[1]], p[2]>>), p[1] - from[p[1]], 0)
      BY <1>5 DEF SortWrites
    <2>4. contents[p] = Blank \/ (contents[p] \in Contents /\ contents[p].kind # "verbatim")
      BY <1>1, <2>2, <2>3, ContentAtIs, CopiedFits
    <2>5. CellsFollow => ContentFollows(contents[p])
      <3> DEFINE at == ContentAt(book, s, <<from[p[1]], p[2]>>)
      <3>1. at \in Contents \cup {Blank} /\ (CellsFollow => ContentFollows(at))  BY <1>1, ContentAtIs, AtFollows
      <3>2. 0 \in Int  OBVIOUS
      <3> HIDE DEF at
      <3>3. ContentFollows(at) => ContentFollows(Copied(at, p[1] - from[p[1]], 0))
        BY <2>2, <3>1, <3>2, CopiedFollows
      <3> QED  BY <2>3, <3>1, <3>3 DEF at
    <2> QED  BY <2>4, <2>5
  <1>6. Fits(contents)  BY <1>4, <1>5 DEF Fits
  <1> HIDE DEF contents
  <1>7. Fits(Differing(s, contents))  BY <1>6, DifferingIs DEF Fits
  <1> QED  BY <1>1, <1>2, <1>3, <1>6, <1>7 DEF key, from, contents

LEMMA FillFits ==
    ASSUME TypeOK, NEW s, NEW src \in Boxes, NEW dst \in Boxes, Fill(s, src, dst)
    PROVE  s \in Sheets /\ \E contents : Fits(contents) /\ Write(s, contents)
  <1> DEFINE From(p) == << IF p[1] \in src.top .. src.bottom THEN p[1] ELSE Repeated(p[1], src.top, src.bottom),
                           IF p[2] \in src.left .. src.right THEN p[2] ELSE Repeated(p[2], src.left, src.right) >>
             targets == {q \in Positions : In(q, dst) /\ ~In(q, src)}
             contents == [p \in targets |->
                            Copied(ContentAt(book, s, From(p)), p[1] - From(p)[1], p[2] - From(p)[2])]
  <1>1. s \in Sheets /\ Write(s, Differing(s, contents))  BY DEF Fill
  <1>2. ASSUME NEW p \in targets
        PROVE  /\ contents[p] = Blank \/ (contents[p] \in Contents /\ contents[p].kind # "verbatim")
               /\ CellsFollow => ContentFollows(contents[p])
    <2>1. p[1] \in Int /\ p[2] \in Int  BY OnGrid DEF Positions, Rows, Cols
    <2>2. /\ src.top \in Int /\ src.bottom \in Int /\ src.left \in Int /\ src.right \in Int
          /\ src.top <= src.bottom /\ src.left <= src.right
      BY OnGrid DEF Boxes
    <2>3. \A i, lo, hi \in Int : lo <= hi => Repeated(i, lo, hi) \in Int  BY DEF Repeated
    <2>4. From(p)[1] \in Int /\ From(p)[2] \in Int  BY <2>1, <2>2, <2>3
    <2> HIDE DEF From
    <2>5. p[1] - From(p)[1] \in Int /\ p[2] - From(p)[2] \in Int  BY <2>1, <2>4
    <2>6. contents[p] = Copied(ContentAt(book, s, From(p)), p[1] - From(p)[1], p[2] - From(p)[2])
      OBVIOUS
    <2> DEFINE at == ContentAt(book, s, From(p))
    <2>7. at \in Contents \cup {Blank} /\ (CellsFollow => ContentFollows(at))  BY <1>1, ContentAtIs, AtFollows
    <2>8. contents[p] = Copied(at, p[1] - From(p)[1], p[2] - From(p)[2])  BY <2>6
    <2> HIDE DEF at, contents
    <2>9. contents[p] = Blank \/ (contents[p] \in Contents /\ contents[p].kind # "verbatim")
      BY <2>5, <2>7, <2>8, CopiedFits
    <2>10. ContentFollows(at) => ContentFollows(contents[p])  BY <2>5, <2>7, <2>8, CopiedFollows
    <2> QED  BY <2>7, <2>9, <2>10
  <1>3. Fits(contents)
    <2>1. DOMAIN contents = targets /\ targets \subseteq Positions  OBVIOUS
    <2> HIDE DEF contents
    <2> QED  BY <1>2, <2>1 DEF Fits
  <1> HIDE DEF contents
  <1>4. Fits(Differing(s, contents))  BY <1>3, DifferingIs DEF Fits
  <1> QED  BY <1>1, <1>4

-----------------------------------------------------------------------------
(* Inserting and deleting rows and columns. *)

(* Growing the number of identities takes nothing away. *)
LEMMA TypesGrow ==
    ASSUME TypeOK, Sheets' = Sheets, fresh' \in Nat, fresh <= fresh'
    PROVE  /\ Ids \subseteq Ids' /\ Meanings \subseteq Meanings' /\ Contents \subseteq Contents'
           /\ Grid' = Grid
  <1>0. fresh \in Nat  BY DEF TypeOK
  <1>5. \A m, n \in Nat : m <= n => 1 .. m - 1 \subseteq 1 .. n - 1 /\ 0 .. m \subseteq 0 .. n  OBVIOUS
  <1>6. Ids = 1 .. fresh - 1 /\ Ids' = 1 .. fresh' - 1  BY DEF Ids
  <1>1. Ids \subseteq Ids' /\ 0 .. fresh \subseteq 0 .. fresh'  BY <1>0, <1>5, <1>6, Zenon
  <1>2. Meanings \subseteq Meanings'  BY <1>1 DEF Meanings
  <1>3. Contents \subseteq Contents'  BY <1>1, <1>2 DEF Contents
  <1> QED  BY <1>1, <1>2, <1>3 DEF Grid, Rows

(* The cells an edit leaves, and where each was. *)
KeptAfter(sh, e) ==
    {p \in {ShiftCell(q[1], q[2], e) : q \in DOMAIN sh.cells} : Gone \notin {p[1], p[2]}}
CameAt(sh, e, p) == CHOOSE q \in DOMAIN sh.cells : ShiftCell(q[1], q[2], e) = p

RowsAfter(sh, e) == IF e.axis = "row" THEN LinesAfter(sh.rows, e) ELSE sh.rows
ColsAfter(sh, e) == IF e.axis = "col" THEN LinesAfter(sh.cols, e) ELSE sh.cols
CellsAfter(sh, e) == [p \in KeptAfter(sh, e) |-> sh.cells[CameAt(sh, e, p)]]
HomeAfter(sh, e) ==
    [p \in KeptAfter(sh, e) |-> IF p \in Positions THEN sh.home[CameAt(sh, e, p)] ELSE Adrift]
MergesAfter(sh, e) == {MergeAfter(k, e) : k \in {m \in sh.merges : ShiftMerge(m.box, e) # NoBox}}

LEMMA SheetAfterIs ==
    ASSUME NEW sh \in SheetRecords, NEW e
    PROVE  SheetAfter(sh, e) \in
              Exactly(sh.name, sh.sid, RowsAfter(sh, e), ColsAfter(sh, e), CellsAfter(sh, e),
                      HomeAfter(sh, e), MergesAfter(sh, e))
  <1>1. SheetAfter(sh, e) =
          [sh EXCEPT !.rows = RowsAfter(sh, e), !.cols = ColsAfter(sh, e), !.cells = CellsAfter(sh, e),
                     !.home = HomeAfter(sh, e), !.merges = MergesAfter(sh, e)]
    BY DEF SheetAfter, RowsAfter, ColsAfter, CellsAfter, HomeAfter, MergesAfter, KeptAfter, CameAt, SheetRecords
  <1> QED  BY <1>1 DEF Exactly, SheetRecords

LEMMA CameIs ==
    ASSUME NEW axis \in Axes, NEW e \in EditsOn(axis), NEW sh, DOMAIN sh.cells \subseteq Grid,
           NEW p \in KeptAfter(sh, e)
    PROVE  /\ CameAt(sh, e, p) \in DOMAIN sh.cells
           /\ ShiftCell(CameAt(sh, e, p)[1], CameAt(sh, e, p)[2], e) = p
           /\ p \in Grid
  <1>1. PICK q \in DOMAIN sh.cells : ShiftCell(q[1], q[2], e) = p  BY DEF KeptAfter
  <1>2. /\ CameAt(sh, e, p) \in DOMAIN sh.cells
        /\ ShiftCell(CameAt(sh, e, p)[1], CameAt(sh, e, p)[2], e) = p
    BY <1>1 DEF CameAt
  <1>3. q[1] \in 0 .. MaxRow /\ q[2] \in 0 .. MaxRow  BY <1>1 DEF Grid, Rows
  <1>4. LineEdit(e, MaxRow) /\ MaxRow \in Nat  BY EditOfLongerAxis, OnGrid
  <1>5. ~Survives(q[1], e, MaxRow) \/ ShiftLine(q[1], e, MaxRow) \in 0 .. MaxRow  BY <1>3, <1>4, ImageOnGrid
  <1>6. ~Survives(q[2], e, MaxRow) \/ ShiftLine(q[2], e, MaxRow) \in 0 .. MaxRow  BY <1>3, <1>4, ImageOnGrid
  <1>7. Gone \notin {p[1], p[2]}  BY DEF KeptAfter
  <1>8. p \in Grid  BY <1>1, <1>3, <1>5, <1>6, <1>7 DEF ShiftCell, Survives, Grid, Rows
  <1> QED  BY <1>2, <1>8

LEMMA MergeStays ==
    ASSUME NEW axis \in Axes, NEW e \in EditsOn(axis), NEW box \in WideBoxes, ShiftMerge(box, e) # NoBox
    PROVE  ShiftMerge(box, e) \in WideBoxes
  <1> DEFINE lo == Lines(box, axis)[1]
             hi == Lines(box, axis)[2]
             span == ShiftSpan(lo, hi, e, MaxRow)
  <1>1. LineEdit(e, MaxRow) /\ MaxRow \in Nat /\ e.axis = axis  BY EditOfLongerAxis, OnGrid
  <1>2. lo \in 0 .. MaxRow /\ hi \in lo .. MaxRow  BY <1>1 DEF WideBoxes, Lines
  <1>3. span # NoSpan /\ ShiftMerge(box, e) = WithLines(box, axis, span)  BY <1>1 DEF ShiftMerge
  <1>4. span[1] \in 0 .. MaxRow /\ span[2] \in span[1] .. MaxRow  BY <1>1, <1>2, <1>3, SpanStaysASpan
  <1> HIDE DEF span, lo, hi
  <1> DEFINE B == [top : 0 .. MaxRow, bottom : 0 .. MaxRow, left : 0 .. MaxRow, right : 0 .. MaxRow]
             tall == [box EXCEPT !.top = span[1], !.bottom = span[2]]
             wide == [box EXCEPT !.left = span[1], !.right = span[2]]
  <1>5. box \in B /\ box.top <= box.bottom /\ box.left <= box.right  BY DEF WideBoxes
  <1>6. tall \in B /\ wide \in B
    <2>1. ASSUME NEW x \in 0 .. MaxRow, NEW y \in 0 .. MaxRow
          PROVE  [box EXCEPT !.top = x, !.bottom = y] \in B /\ [box EXCEPT !.left = x, !.right = y] \in B
      BY <1>5
    <2>2. span[1] \in 0 .. MaxRow /\ span[2] \in 0 .. MaxRow  BY <1>1, <1>4
    <2> HIDE DEF B
    <2> QED  BY <2>1, <2>2, Zenon
  <1>7. /\ tall.top = span[1] /\ tall.bottom = span[2] /\ tall.left = box.left /\ tall.right = box.right
        /\ wide.top = box.top /\ wide.bottom = box.bottom /\ wide.left = span[1] /\ wide.right = span[2]
    BY <1>5
  <1>8. span[1] <= span[2]  BY <1>1, <1>4
  <1>9. ShiftMerge(box, e) = tall \/ ShiftMerge(box, e) = wide  BY <1>3 DEF WithLines
  <1> HIDE DEF tall, wide
  <1>10. tall \in WideBoxes /\ wide \in WideBoxes  BY <1>5, <1>6, <1>7, <1>8 DEF WideBoxes
  <1> QED  BY <1>9, <1>10

LEMMA LinesAfterAre ==
    ASSUME TypeOK, NEW max \in 0 .. MaxRow, NEW ids \in [0 .. max -> Ids], NEW e, LineEdit(e, max),
           fresh' = fresh + MaxRow + 1
    PROVE  LinesAfter(ids, e) \in [0 .. max -> Ids']
  <1>1. MaxRow \in Nat /\ fresh \in Nat \ {0}  BY OnGrid DEF TypeOK
  <1>2. \A i \in 0 .. max : ids[i] \in Ids'  BY <1>1 DEF Ids
  <1>4. e.at \in 0 .. max /\ e.n \in 1 .. max + 1  BY DEF LineEdit
  <1>5. DOMAIN ids = 0 .. max  OBVIOUS
  <1>3. \A i \in 0 .. max : /\ i >= e.at /\ e.insert /\ i < e.at + e.n => fresh + i - e.at \in Ids'
                            /\ i >= e.at /\ e.insert /\ ~(i < e.at + e.n) => i - e.n \in 0 .. max
                            /\ fresh + i \in Ids'
    <2>1. Ids' = 1 .. fresh + MaxRow  BY <1>1 DEF Ids
    <2> QED  BY <1>1, <1>4, <2>1
  <1> QED  BY <1>1, <1>2, <1>3, <1>4, <1>5 DEF LinesAfter

LEMMA ShiftedAreaIs ==
    ASSUME NEW axis \in Axes, NEW e \in EditsOn(axis), NEW area \in Areas, ShiftRange(area, e) # NoBox
    PROVE  ShiftRange(area, e) \in Areas
  <1> DEFINE lo == Lines(area, axis)[1]
             hi == Lines(area, axis)[2]
             span == ShiftSpan(lo, hi, e, Last(axis))
             B == [top : 0 .. MaxRow, bottom : 0 .. MaxRow, left : 0 .. MaxCol, right : 0 .. MaxCol,
                   anchored : SUBSET Axes]
             tall == [area EXCEPT !.top = span[1], !.bottom = span[2]]
             wide == [area EXCEPT !.left = span[1], !.right = span[2]]
  <1>1. LineEdit(e, Last(axis)) /\ Last(axis) \in Nat /\ e.axis = axis  BY EditShape, LastLine
  <1>2. area \in B /\ area.top <= area.bottom /\ area.left <= area.right  BY DEF Areas
  <1>3. lo \in 0 .. Last(axis) /\ hi \in lo .. Last(axis)  BY <1>2, OnGrid DEF Lines, Last, Axes
  <1>4. CASE Spans(area, axis)
    <2>1. ShiftRange(area, e) = area  BY <1>1, <1>4 DEF ShiftRange
    <2> QED  BY <2>1
  <1>5. CASE ~Spans(area, axis)
    <2>1. span # NoSpan /\ ShiftRange(area, e) = WithLines(area, axis, span)
      BY <1>1, <1>5 DEF ShiftRange
    <2>2. span[1] \in 0 .. Last(axis) /\ span[2] \in span[1] .. Last(axis)
      BY <1>1, <1>3, <2>1, SpanStaysASpan
    <2> HIDE DEF span, lo, hi
    <2>3. span[1] \in 0 .. Last(axis) /\ span[2] \in 0 .. Last(axis) /\ span[1] <= span[2]  BY <1>1, <2>2
    <2>4. CASE axis = "row"
      <3>1. ASSUME NEW x \in 0 .. MaxRow, NEW y \in 0 .. MaxRow
            PROVE  [area EXCEPT !.top = x, !.bottom = y] \in B
        BY <1>2
      <3>2. tall.top = span[1] /\ tall.bottom = span[2] /\ tall.left = area.left /\ tall.right = area.right
        BY <1>2
      <3>3. Last(axis) = MaxRow  BY <2>4 DEF Last
      <3> HIDE DEF B
      <3>4. tall \in B  BY <2>3, <3>1, <3>3, Zenon
      <3>5. ShiftRange(area, e) = tall  BY <2>1, <2>4 DEF WithLines
      <3> HIDE DEF tall
      <3> QED  BY <1>2, <2>3, <3>2, <3>4, <3>5 DEF Areas, B
    <2>5. CASE axis = "col"
      <3>1. ASSUME NEW x \in 0 .. MaxCol, NEW y \in 0 .. MaxCol
            PROVE  [area EXCEPT !.left = x, !.right = y] \in B
        BY <1>2
      <3>2. wide.left = span[1] /\ wide.right = span[2] /\ wide.top = area.top /\ wide.bottom = area.bottom
        BY <1>2
      <3>3. Last(axis) = MaxCol  BY <2>5 DEF Last
      <3> HIDE DEF B
      <3>4. wide \in B  BY <2>3, <3>1, <3>3, Zenon
      <3>5. ShiftRange(area, e) = wide  BY <2>1, <2>5 DEF WithLines
      <3> HIDE DEF wide
      <3> QED  BY <1>2, <2>3, <3>2, <3>4, <3>5 DEF Areas, B
    <2> QED  BY <2>4, <2>5 DEF Axes
  <1> QED  BY <1>4, <1>5

LEMMA RewrittenIs ==
    ASSUME TypeOK, NEW s \in Sheets, NEW axis \in Axes, NEW e \in EditsOn(axis), NEW content \in Contents
    PROVE  /\ Rewritten(content, s, e) \in Contents
           /\ Parsed(Rewritten(content, s, e)) <=> Parsed(content)
           /\ ~Parsed(content) => Rewritten(content, s, e) = content
           /\ content.kind # "ref" => Rewritten(content, s, e) = content
           /\ content.kind = "ref" /\ content.sheet # s => Rewritten(content, s, e) = content
           /\ content.kind = "ref" /\ content.sheet = s =>
                 IF ShiftRange(content.area, e) = NoBox
                 THEN Rewritten(content, s, e) = Broken(Meaning(book, s, content.area))
                 ELSE /\ Rewritten(content, s, e).kind = "ref" /\ Rewritten(content, s, e).sheet = s
                      /\ Rewritten(content, s, e).area = ShiftRange(content.area, e)
                      /\ Rewritten(content, s, e).of = content.of
  <1>1. CASE content.kind # "ref"  BY <1>1 DEF Rewritten
  <1>2. CASE content.kind = "ref" /\ content.sheet # s  BY <1>2 DEF Rewritten
  <1>3. CASE content.kind = "ref" /\ content.sheet = s
    <2> DEFINE area == ShiftRange(content.area, e)
               moved == [content EXCEPT !.area = area]
    <2>1. content \in [kind : {"ref"}, sheet : Sheets, area : Areas, of : Meanings]  BY <1>3 DEF Contents
    <2>2. area = NoBox \/ area \in Areas  BY <2>1, ShiftedAreaIs
    <2>3. Rewritten(content, s, e) = IF area = NoBox THEN Broken(Meaning(book, s, content.area)) ELSE moved
      BY <1>3 DEF Rewritten
    <2>4. Meaning(book, s, content.area) \in Meanings  BY <2>1, MeaningIs
    <2>5. \A of \in Meanings : Broken(of) \in Contents /\ Broken(of).kind = "broken"
      BY DEF Broken, Contents
    <2> HIDE DEF area
    <2>6. CASE area = NoBox
      <3>1. Rewritten(content, s, e) = Broken(Meaning(book, s, content.area))  BY <2>3, <2>6
      <3>2. Rewritten(content, s, e) \in Contents /\ Rewritten(content, s, e).kind = "broken"
        BY <2>4, <2>5, <3>1
      <3> QED  BY <1>3, <2>6, <3>1, <3>2 DEF Parsed, area
    <2>7. CASE area # NoBox
      <3>1. moved \in Contents  BY <2>1, <2>2, <2>7 DEF Contents
      <3>2. moved.kind = "ref" /\ moved.sheet = s /\ moved.area = area /\ moved.of = content.of
        BY <1>3, <2>1
      <3> HIDE DEF moved
      <3> QED  BY <1>3, <2>3, <2>7, <3>1, <3>2 DEF Parsed, area
    <2> QED  BY <2>6, <2>7
  <1> QED  BY <1>1, <1>2, <1>3

(* The sheets after an edit. *)
LEMMA EditIs ==
    ASSUME TypeOK, NEW s, NEW axis \in Axes, NEW e \in EditsOn(axis), StructuralEdit(s, e)
    PROVE  /\ s \in Sheets /\ Sheets' = Sheets /\ DOMAIN book' = Sheets
           /\ book' = [t \in Sheets |-> book'[t]]
           /\ fresh' = fresh + MaxRow + 1
           /\ \A t \in Sheets \ {s} :
                 book'[t] \in Exactly(book[t].name, book[t].sid, book[t].rows, book[t].cols,
                                      [p \in DOMAIN book[t].cells |-> Rewritten(book[t].cells[p], s, e)],
                                      book[t].home, book[t].merges)
           /\ book'[s] \in Exactly(book[s].name, book[s].sid, RowsAfter(book[s], e), ColsAfter(book[s], e),
                                   [p \in KeptAfter(book[s], e) |->
                                       Rewritten(book[s].cells[CameAt(book[s], e, p)], s, e)],
                                   HomeAfter(book[s], e), MergesAfter(book[s], e))
  <1>1. s \in Sheets /\ fresh' = fresh + MaxRow + 1  BY DEF StructuralEdit
  <1>2. \A t \in Sheets : book[t] \in SheetRecords  BY SheetFields
  <1>3. DOMAIN book = Sheets  BY DEF Sheets
  <1> DEFINE moved == [book EXCEPT ![s] = SheetAfter(book[s], e)]
  <1>4. book' = [t \in Sheets |-> [moved[t] EXCEPT !.cells =
                        [p \in DOMAIN moved[t].cells |-> Rewritten(moved[t].cells[p], s, e)]]]
    BY <1>1, <1>3 DEF StructuralEdit
  <1>5. moved[s] = SheetAfter(book[s], e) /\ \A t \in Sheets \ {s} : moved[t] = book[t]
    BY <1>1, <1>3
  <1> HIDE DEF moved
  <1>6. DOMAIN book' = Sheets /\ book' = [t \in Sheets |-> book'[t]]  BY <1>4
  <1>7. Sheets' = Sheets  BY <1>6 DEF Sheets
  <1>8. ASSUME NEW t \in Sheets, NEW name, NEW sid, NEW rows, NEW cols, NEW cells, NEW home, NEW merges,
               moved[t] \in Exactly(name, sid, rows, cols, cells, home, merges)
        PROVE  book'[t] \in Exactly(name, sid, rows, cols,
                                    [p \in DOMAIN cells |-> Rewritten(cells[p], s, e)], home, merges)
    <2>1. moved[t].cells = cells  BY <1>8 DEF Exactly
    <2>2. book'[t] = [moved[t] EXCEPT !.cells = [p \in DOMAIN cells |-> Rewritten(cells[p], s, e)]]
      BY <1>4, <2>1
    <2> QED  BY <1>8, <2>2 DEF Exactly
  <1>9. ASSUME NEW t \in Sheets \ {s}
        PROVE  book'[t] \in Exactly(book[t].name, book[t].sid, book[t].rows, book[t].cols,
                                      [p \in DOMAIN book[t].cells |-> Rewritten(book[t].cells[p], s, e)],
                                      book[t].home, book[t].merges)
    <2>1. book[t] \in Exactly(book[t].name, book[t].sid, book[t].rows, book[t].cols,
                              book[t].cells, book[t].home, book[t].merges)
      BY <1>2 DEF Exactly, SheetRecords
    <2> QED  BY <1>5, <1>8, <2>1
  <1>10. book'[s] \in Exactly(book[s].name, book[s].sid, RowsAfter(book[s], e), ColsAfter(book[s], e),
                                   [p \in KeptAfter(book[s], e) |->
                                       Rewritten(book[s].cells[CameAt(book[s], e, p)], s, e)],
                                   HomeAfter(book[s], e), MergesAfter(book[s], e))
    <2>1. book'[s] \in Exactly(book[s].name, book[s].sid, RowsAfter(book[s], e), ColsAfter(book[s], e),
                               [p \in DOMAIN CellsAfter(book[s], e) |-> Rewritten(CellsAfter(book[s], e)[p], s, e)],
                               HomeAfter(book[s], e), MergesAfter(book[s], e))
      BY <1>1, <1>2, <1>5, <1>8, SheetAfterIs
    <2>2. [p \in DOMAIN CellsAfter(book[s], e) |-> Rewritten(CellsAfter(book[s], e)[p], s, e)]
            = [p \in KeptAfter(book[s], e) |-> Rewritten(book[s].cells[CameAt(book[s], e, p)], s, e)]
      BY DEF CellsAfter
    <2> QED  BY <2>1, <2>2
  <1> QED  BY <1>1, <1>6, <1>7, <1>9, <1>10

(* A record of sheets with these fields is one of SheetRecords. *)
LEMMA ExactlyFits ==
    ASSUME NEW name \in SheetNames, NEW sid \in Ids', NEW rows \in [Rows -> Ids'], NEW cols \in [Cols -> Ids'],
           NEW cells \in Partial(Grid, Contents'), NEW home \in Partial(Grid, Nat \X Nat),
           NEW merges \in SUBSET [box : WideBoxes, of : Meanings'],
           NEW sh \in Exactly(name, sid, rows, cols, cells, home, merges)
    PROVE  sh \in SheetRecords'
  <1>1. SheetRecords' = [name : SheetNames, sid : Ids', rows : [Rows -> Ids'], cols : [Cols -> Ids'],
                         cells : Partial(Grid, Contents'), home : Partial(Grid, Nat \X Nat),
                         merges : SUBSET [box : WideBoxes, of : Meanings']]
    BY DEF SheetRecords, Partial, Rows, Cols, Grid
  <1>2. sh \in [name : SheetNames, sid : Ids', rows : [Rows -> Ids'], cols : [Cols -> Ids'],
                cells : Partial(Grid, Contents'), home : Partial(Grid, Nat \X Nat),
                merges : SUBSET [box : WideBoxes, of : Meanings']]
    <2> HIDE DEF Ids, Contents, Meanings
    <2> QED  BY DEF Exactly
  <1> QED  BY <1>1, <1>2, Zenon

LEMMA EditKeepsType ==
    ASSUME TypeOK, NEW s, NEW axis \in Axes, NEW e \in EditsOn(axis), StructuralEdit(s, e)
    PROVE  TypeOK'
  <1>1. /\ s \in Sheets /\ Sheets' = Sheets /\ DOMAIN book' = Sheets
        /\ book' = [t \in Sheets |-> book'[t]] /\ fresh' = fresh + MaxRow + 1
    BY EditIs
  <1>2. fresh \in Nat \ {0} /\ MaxRow \in Nat  BY OnGrid DEF TypeOK
  <1>3. Ids \subseteq Ids' /\ Meanings \subseteq Meanings' /\ Contents \subseteq Contents' /\ Grid' = Grid
    BY <1>1, <1>2, TypesGrow
  <1>4. book[s] \in SheetRecords  BY <1>1, SheetFields
  <1>5. ASSUME NEW t \in Sheets \ {s}
        PROVE  book'[t] \in SheetRecords' /\ DOMAIN book'[t].home = DOMAIN book'[t].cells
    <2> DEFINE C == [p \in DOMAIN book[t].cells |-> Rewritten(book[t].cells[p], s, e)]
    <2>1. book'[t] \in Exactly(book[t].name, book[t].sid, book[t].rows, book[t].cols, C, book[t].home, book[t].merges)
      BY EditIs
    <2>2. /\ book[t].name \in SheetNames /\ book[t].sid \in Ids
          /\ book[t].rows \in [Rows -> Ids] /\ book[t].cols \in [Cols -> Ids]
          /\ DOMAIN book[t].cells \subseteq Grid /\ DOMAIN book[t].home = DOMAIN book[t].cells
          /\ \A p \in DOMAIN book[t].cells : book[t].cells[p] \in Contents
      BY SheetFields
    <2>3. book[t].home \in Partial(Grid, Nat \X Nat) /\ book[t].merges \in SUBSET [box : WideBoxes, of : Meanings]
      BY SheetFields DEF SheetRecords
    <2>4. C \in Partial(Grid, Contents') /\ DOMAIN C = DOMAIN book[t].cells
      <3>1. \A p \in DOMAIN C : C[p] \in Contents'  BY <1>1, <1>3, <2>2, RewrittenIs
      <3> QED  BY <2>2, <3>1, PartialIs
    <2> HIDE DEF C
    <2>5. /\ book[t].sid \in Ids' /\ book[t].rows \in [Rows -> Ids'] /\ book[t].cols \in [Cols -> Ids']
          /\ book[t].merges \in SUBSET [box : WideBoxes, of : Meanings']
      BY <1>3, <2>2, <2>3
    <2>6. book'[t] \in SheetRecords'  BY <2>1, <2>2, <2>3, <2>4, <2>5, ExactlyFits, Zenon
    <2>7. book'[t].cells = C /\ book'[t].home = book[t].home  BY <2>1, ExactlyIs
    <2> QED  BY <2>2, <2>4, <2>6, <2>7
  <1>6. book'[s] \in SheetRecords' /\ DOMAIN book'[s].home = DOMAIN book'[s].cells
    <2> DEFINE C == [p \in KeptAfter(book[s], e) |-> Rewritten(book[s].cells[CameAt(book[s], e, p)], s, e)]
               H == HomeAfter(book[s], e)
               M == MergesAfter(book[s], e)
               R == RowsAfter(book[s], e)
               L == ColsAfter(book[s], e)
    <2>1. book'[s] \in Exactly(book[s].name, book[s].sid, R, L, C, H, M)  BY EditIs
    <2>2. /\ book[s].name \in SheetNames /\ book[s].sid \in Ids
          /\ book[s].rows \in [Rows -> Ids] /\ book[s].cols \in [Cols -> Ids]
          /\ DOMAIN book[s].cells \subseteq Grid /\ DOMAIN book[s].home = DOMAIN book[s].cells
          /\ \A p \in DOMAIN book[s].cells : book[s].cells[p] \in Contents
          /\ \A p \in DOMAIN book[s].home : book[s].home[p] \in Nat \X Nat
          /\ \A m \in book[s].merges : m.box \in WideBoxes /\ m.of \in Meanings
      BY <1>1, SheetFields
    <2>3. \A p \in KeptAfter(book[s], e) : CameAt(book[s], e, p) \in DOMAIN book[s].cells /\ p \in Grid
      BY <2>2, CameIs
    <2>4. C \in Partial(Grid, Contents') /\ DOMAIN C = KeptAfter(book[s], e)
      <3>1. \A p \in DOMAIN C : C[p] \in Contents'  BY <1>1, <1>3, <2>2, <2>3, RewrittenIs
      <3> QED  BY <2>3, <3>1, PartialIs
    <2>5. H \in Partial(Grid, Nat \X Nat) /\ DOMAIN H = KeptAfter(book[s], e)
      <3>1. \A p \in DOMAIN H : H[p] \in Nat \X Nat  BY <2>2, <2>3 DEF HomeAfter, Adrift
      <3>2. H = [p \in DOMAIN H |-> H[p]] /\ DOMAIN H = KeptAfter(book[s], e)  BY DEF HomeAfter
      <3> QED  BY <2>3, <3>1, <3>2, PartialIs
    <2>6. M \in SUBSET [box : WideBoxes, of : Meanings']
      <3>1. ASSUME NEW m \in book[s].merges, ShiftMerge(m.box, e) # NoBox
            PROVE  MergeAfter(m, e) \in [box : WideBoxes, of : Meanings']
        <4>1. m.box \in WideBoxes /\ m.of \in Meanings'  BY <1>3, <2>2, <3>1
        <4>2. ShiftMerge(m.box, e) \in WideBoxes  BY <3>1, <4>1, MergeStays
        <4>3. NoMeaning \in Meanings'  BY <1>3, NoMeaningIs
        <4> QED  BY <4>1, <4>2, <4>3 DEF MergeAfter
      <3> QED  BY <3>1 DEF MergesAfter
    <2>7. R \in [Rows -> Ids'] /\ L \in [Cols -> Ids']
      <3>1. book[s].rows \in [Rows -> Ids'] /\ book[s].cols \in [Cols -> Ids']  BY <1>3, <2>2
      <3>2. LineEdit(e, Last(axis)) /\ e.axis = axis  BY EditShape
      <3>3. MaxRow \in 0 .. MaxRow /\ MaxCol \in 0 .. MaxRow  BY OnGrid
      <3>4. axis = "row" => LinesAfter(book[s].rows, e) \in [Rows -> Ids']
        BY <1>1, <2>2, <3>2, <3>3, LinesAfterAre DEF Last, Rows
      <3>5. axis = "col" => LinesAfter(book[s].cols, e) \in [Cols -> Ids']
        BY <1>1, <2>2, <3>2, <3>3, LinesAfterAre DEF Last, Cols
      <3> QED  BY <3>1, <3>2, <3>4, <3>5 DEF RowsAfter, ColsAfter, Axes
    <2>8. book[s].sid \in Ids'  BY <1>3, <2>2
    <2> HIDE DEF C, H, M, R, L
    <2>9. book'[s] \in SheetRecords'  BY <2>1, <2>2, <2>4, <2>5, <2>6, <2>7, <2>8, ExactlyFits, Zenon
    <2>10. book'[s].cells = C /\ book'[s].home = H  BY <2>1, ExactlyIs
    <2> QED  BY <2>4, <2>5, <2>9, <2>10
  <1>7. \A t \in Sheets : book'[t] \in SheetRecords' /\ DOMAIN book'[t].home = DOMAIN book'[t].cells
    BY <1>5, <1>6
  <1>8. book' \in Seq(SheetRecords')
    <2>1. Sheets = 1 .. Len(book) /\ Len(book) \in Nat  BY <1>1, SheetFields
    <2> QED  BY <1>1, <1>7, <2>1
  <1>9. DOMAIN texts' \subseteq Sheets \X Grid  BY DEF StructuralEdit, Only, TypeOK
  <1>10. edited' \subseteq Sheets \X Grid
    <2>1. \A k \in Formulas(book') : k \in Sheets \X Grid
      <3>1. SUFFICES ASSUME NEW k \in Formulas(book')  PROVE k \in Sheets \X Grid  OBVIOUS
      <3>2. PICK t \in DOMAIN book' : \E p \in DOMAIN book'[t].cells : k = <<t, p>>  BY FormulaKeys
      <3>3. DOMAIN book'[t].cells \subseteq Grid
        <4>1. book'[t] \in SheetRecords'  BY <1>1, <1>7, <3>2
        <4>2. book'[t].cells \in Partial(Grid, Contents')  BY <4>1 DEF SheetRecords, Partial, Grid, Rows
        <4> QED  BY <4>2, PartialIs
      <3> QED  BY <1>1, <3>2, <3>3
    <2> QED  BY <2>1 DEF StructuralEdit, Reprinted, TypeOK
  <1>11. extraDirty' \subseteq Sheets  BY <1>1 DEF StructuralEdit, TypeOK
  <1>12. fresh' \in Nat \ {0}  BY <1>1, <1>2
  <1> HIDE DEF SheetRecords
  <1> QED  BY <1>1, <1>3, <1>7, <1>8, <1>9, <1>10, <1>11, <1>12 DEF TypeOK

-----------------------------------------------------------------------------
(* Renaming, deleting and adding sheets, and saving. *)
LEMMA RenameIs ==
    ASSUME TypeOK, NEW s, NEW name, RenameSheet(s, name)
    PROVE  /\ s \in Sheets /\ Sheets' = Sheets /\ DOMAIN book' = Sheets /\ fresh' = fresh
           /\ book' = [t \in Sheets |-> book'[t]]
           /\ \A t \in Sheets \ {s} : book'[t] = book[t]
           /\ book'[s] \in Exactly(name, book[s].sid, book[s].rows, book[s].cols,
                                   book[s].cells, book[s].home, book[s].merges)
  <1>1. s \in Sheets /\ fresh' = fresh /\ book' = [book EXCEPT ![s].name = name]  BY DEF RenameSheet
  <1>2. book[s] \in SheetRecords  BY <1>1, SheetFields
  <1>3. book \in Seq(SheetRecords) /\ DOMAIN book = Sheets  BY DEF TypeOK, Sheets
  <1>4. [book[s] EXCEPT !.name = name] \in
           Exactly(name, book[s].sid, book[s].rows, book[s].cols, book[s].cells, book[s].home, book[s].merges)
    BY <1>2 DEF Exactly, SheetRecords
  <1>5. /\ DOMAIN book' = Sheets /\ book'[s] = [book[s] EXCEPT !.name = name]
        /\ book' = [t \in Sheets |-> book'[t]]
        /\ \A t \in Sheets \ {s} : book'[t] = book[t]
    BY <1>1, <1>3
  <1> QED  BY <1>1, <1>4, <1>5 DEF Sheets

LEMMA RenameKeepsType ==
    ASSUME TypeOK, NEW s, NEW name \in SheetNames, RenameSheet(s, name)
    PROVE  TypeOK'
  <1>1. /\ s \in Sheets /\ Sheets' = Sheets /\ DOMAIN book' = Sheets /\ fresh' = fresh
        /\ book' = [t \in Sheets |-> book'[t]]
        /\ \A t \in Sheets \ {s} : book'[t] = book[t]
        /\ book'[s] \in Exactly(name, book[s].sid, book[s].rows, book[s].cols,
                                   book[s].cells, book[s].home, book[s].merges)
    BY RenameIs
  <1>2. fresh \in Nat \ {0}  BY DEF TypeOK
  <1>3. /\ Ids' = Ids /\ Meanings' = Meanings /\ Contents' = Contents /\ Grid' = Grid
        /\ SheetRecords' = SheetRecords
    BY <1>1 DEF Ids, Meanings, Contents, Grid, Rows, SheetRecords
  <1>4. book'[s] \in SheetRecords
    <2>1. book[s] \in SheetRecords  BY <1>1, SheetFields
    <2>2. /\ book[s].sid \in Ids /\ book[s].rows \in [Rows -> Ids] /\ book[s].cols \in [Cols -> Ids]
          /\ book[s].cells \in Partial(Grid, Contents) /\ book[s].home \in Partial(Grid, Nat \X Nat)
          /\ book[s].merges \in SUBSET [box : WideBoxes, of : Meanings]
      BY <2>1 DEF SheetRecords
    <2> QED  BY <1>1, <2>2 DEF SheetRecords, Exactly
  <1>5. book'[s].home = book[s].home /\ book'[s].cells = book[s].cells  BY <1>1, ExactlyIs
  <1>6. \A t \in Sheets : book'[t] \in SheetRecords /\ DOMAIN book'[t].home = DOMAIN book'[t].cells
    <2>1. \A t \in Sheets : book[t] \in SheetRecords /\ DOMAIN book[t].home = DOMAIN book[t].cells
      BY SheetFields
    <2> HIDE DEF SheetRecords
    <2> QED  BY <1>1, <1>4, <1>5, <2>1
  <1>7. book' \in Seq(SheetRecords)
    <2>1. Sheets = 1 .. Len(book) /\ Len(book) \in Nat  BY <1>1, SheetFields
    <2> HIDE DEF SheetRecords
    <2> QED  BY <1>1, <1>6, <2>1
  <1>8. DOMAIN texts' \subseteq Sheets \X Grid /\ edited' \subseteq Sheets \X Grid
    BY DEF RenameSheet, Retexted, Touched, TypeOK
  <1>9. extraDirty' \subseteq Sheets  BY <1>1 DEF RenameSheet, TouchedUnread, TypeOK
  <1> HIDE DEF SheetRecords
  <1> QED  BY <1>1, <1>2, <1>3, <1>6, <1>7, <1>8, <1>9 DEF TypeOK

LEMMA DroppedIs ==
    ASSUME TypeOK, NEW gone \in Sheets, Sheets' = 1 .. Len(book) - 1, fresh' = fresh, NEW content \in Contents
    PROVE  /\ Dropped(content, gone) \in Contents'
           /\ Parsed(Dropped(content, gone)) <=> Parsed(content)
           /\ content.kind # "ref" => Dropped(content, gone) = content
           /\ content.kind = "ref" /\ content.sheet = gone => Dropped(content, gone) = Broken(content.of)
           /\ content.kind = "ref" /\ content.sheet # gone =>
                 /\ Dropped(content, gone).kind = "ref" /\ Dropped(content, gone).sheet = Up(content.sheet, gone)
                 /\ Dropped(content, gone).area = content.area /\ Dropped(content, gone).of = content.of
  <1>1. Sheets = 1 .. Len(book) /\ Len(book) \in Nat  BY SheetFields
  <1>2. Ids' = Ids /\ Meanings' = Meanings  BY DEF Ids, Meanings
  <1>3. CASE content.kind # "ref"
    <2>1. Dropped(content, gone) = content  BY <1>3 DEF Dropped
    <2>2. content \in Contents'  BY <1>2, <1>3 DEF Contents
    <2> QED  BY <1>3, <2>1, <2>2
  <1>4. CASE content.kind = "ref" /\ content.sheet = gone
    <2>1. content.of \in Meanings  BY <1>4 DEF Contents
    <2>2. Dropped(content, gone) = Broken(content.of)  BY <1>1, <1>4 DEF Dropped
    <2>3. Broken(content.of) \in Contents' /\ Broken(content.of).kind = "broken"
      BY <1>2, <2>1 DEF Contents, Broken
    <2> QED  BY <1>4, <2>2, <2>3 DEF Parsed
  <1>5. CASE content.kind = "ref" /\ content.sheet # gone
    <2> DEFINE R(sheets) == [kind : {"ref"}, sheet : sheets, area : Areas, of : Meanings]
    <2>1. content \in R(Sheets)  BY <1>5 DEF Contents
    <2>2. content.sheet \in Sheets /\ Up(content.sheet, gone) \in Sheets'  BY <1>1, <1>5, <2>1 DEF Up
    <2>3. CASE content.sheet > gone
      <3>1. Dropped(content, gone) = [content EXCEPT !.sheet = Up(content.sheet, gone)]
        BY <1>5, <2>3 DEF Dropped, Up
      <3>2. Dropped(content, gone) \in R(Sheets')  BY <2>1, <2>2, <3>1
      <3>3. /\ Dropped(content, gone).kind = "ref" /\ Dropped(content, gone).sheet = Up(content.sheet, gone)
            /\ Dropped(content, gone).area = content.area /\ Dropped(content, gone).of = content.of
        BY <2>1, <3>1
      <3>4. Dropped(content, gone) \in Contents'  BY <1>2, <3>2 DEF Contents
      <3> QED  BY <1>5, <3>3, <3>4 DEF Parsed
    <2>4. CASE ~(content.sheet > gone)
      <3>1. Dropped(content, gone) = content  BY <1>5, <2>4 DEF Dropped
      <3>2. Up(content.sheet, gone) = content.sheet  BY <2>4 DEF Up
      <3>3. content \in R(Sheets')  BY <2>1, <2>2, <3>2
      <3>4. content \in Contents'  BY <1>2, <3>3 DEF Contents
      <3> QED  BY <1>5, <3>1, <3>2, <3>4
    <2> QED  BY <2>3, <2>4
  <1> QED  BY <1>3, <1>4, <1>5

LEMMA DeleteIs ==
    ASSUME TypeOK, NEW gone, DeleteSheet(gone)
    PROVE  /\ gone \in Sheets /\ Len(book) > 1 /\ Sheets = 1 .. Len(book)
           /\ Len(book) \in Nat
           /\ Sheets' = 1 .. Len(book) - 1 /\ DOMAIN book' = Sheets' /\ fresh' = fresh
           /\ book' = [t \in Sheets' |-> book'[t]]
           /\ \A t \in Sheets' : /\ Down(t, gone) \in Sheets \ {gone} /\ Up(Down(t, gone), gone) = t
                                 /\ book'[t] \in
                                      Exactly(book[Down(t, gone)].name, book[Down(t, gone)].sid,
                                              book[Down(t, gone)].rows, book[Down(t, gone)].cols,
                                              [p \in DOMAIN book[Down(t, gone)].cells |->
                                                 Dropped(book[Down(t, gone)].cells[p], gone)],
                                              book[Down(t, gone)].home, book[Down(t, gone)].merges)
           /\ \A t \in Sheets \ {gone} : Up(t, gone) \in Sheets' /\ Down(Up(t, gone), gone) = t
  <1>1. gone \in Sheets /\ Len(book) > 1 /\ fresh' = fresh  BY DEF DeleteSheet
  <1>2. Sheets = 1 .. Len(book) /\ Len(book) \in Nat  BY <1>1, SheetFields
  <1>3. book' = [t \in 1 .. Len(book) - 1 |->
                   [book[Down(t, gone)] EXCEPT
                      !.cells = [p \in DOMAIN book[Down(t, gone)].cells |->
                                   Dropped(book[Down(t, gone)].cells[p], gone)]]]
    BY DEF DeleteSheet
  <1>4. DOMAIN book' = 1 .. Len(book) - 1  BY <1>3
  <1>5. Sheets' = 1 .. Len(book) - 1  BY <1>4 DEF Sheets
  <1>6. \A t \in Sheets' : Down(t, gone) \in Sheets \ {gone} /\ Up(Down(t, gone), gone) = t
    BY <1>1, <1>2, <1>5 DEF Down, Up
  <1>7. \A t \in Sheets \ {gone} : Up(t, gone) \in Sheets' /\ Down(Up(t, gone), gone) = t
    BY <1>1, <1>2, <1>5 DEF Down, Up
  <1>8. ASSUME NEW t \in Sheets'
        PROVE  book'[t] \in
                  Exactly(book[Down(t, gone)].name, book[Down(t, gone)].sid,
                          book[Down(t, gone)].rows, book[Down(t, gone)].cols,
                          [p \in DOMAIN book[Down(t, gone)].cells |->
                             Dropped(book[Down(t, gone)].cells[p], gone)],
                          book[Down(t, gone)].home, book[Down(t, gone)].merges)
    <2> DEFINE sh == book[Down(t, gone)]
    <2>1. sh \in SheetRecords  BY <1>6, SheetFields
    <2>2. book'[t] = [sh EXCEPT !.cells = [p \in DOMAIN sh.cells |-> Dropped(sh.cells[p], gone)]]
      BY <1>3, <1>5
    <2> HIDE DEF sh
    <2>3. book'[t] \in Exactly(sh.name, sh.sid, sh.rows, sh.cols,
                               [p \in DOMAIN sh.cells |-> Dropped(sh.cells[p], gone)], sh.home, sh.merges)
      BY <2>1, <2>2 DEF Exactly, SheetRecords
    <2> QED  BY <2>3 DEF sh
  <1>9. book' = [t \in Sheets' |-> book'[t]]  BY <1>3, <1>5
  <1> QED  BY <1>1, <1>2, <1>4, <1>5, <1>6, <1>7, <1>8, <1>9

LEMMA DeleteKeepsType ==
    ASSUME TypeOK, NEW gone, DeleteSheet(gone)
    PROVE  TypeOK'
  <1>1. /\ gone \in Sheets /\ Len(book) > 1 /\ Sheets = 1 .. Len(book) /\ Len(book) \in Nat
        /\ Sheets' = 1 .. Len(book) - 1 /\ DOMAIN book' = Sheets' /\ fresh' = fresh
        /\ book' = [t \in Sheets' |-> book'[t]]
        /\ \A t \in Sheets' : Down(t, gone) \in Sheets \ {gone}
        /\ \A t \in Sheets \ {gone} : Up(t, gone) \in Sheets'
    BY DeleteIs
  <1>2. fresh \in Nat \ {0}  BY DEF TypeOK
  <1>3. Ids' = Ids /\ Meanings' = Meanings /\ Grid' = Grid  BY <1>1 DEF Ids, Meanings, Grid, Rows
  <1>4. ASSUME NEW t \in Sheets'
        PROVE  book'[t] \in SheetRecords' /\ DOMAIN book'[t].home = DOMAIN book'[t].cells
    <2> DEFINE sh == book[Down(t, gone)]
               C == [p \in DOMAIN sh.cells |-> Dropped(sh.cells[p], gone)]
    <2>1. book'[t] \in Exactly(sh.name, sh.sid, sh.rows, sh.cols, C, sh.home, sh.merges)  BY DeleteIs
    <2>2. Down(t, gone) \in Sheets  BY <1>1
    <2>3. /\ sh \in SheetRecords /\ DOMAIN sh.home = DOMAIN sh.cells /\ DOMAIN sh.cells \subseteq Grid
          /\ \A p \in DOMAIN sh.cells : sh.cells[p] \in Contents
      BY <2>2, SheetFields
    <2>4. /\ sh.name \in SheetNames /\ sh.sid \in Ids /\ sh.rows \in [Rows -> Ids] /\ sh.cols \in [Cols -> Ids]
          /\ sh.home \in Partial(Grid, Nat \X Nat) /\ sh.merges \in SUBSET [box : WideBoxes, of : Meanings]
      BY <2>3 DEF SheetRecords
    <2> HIDE DEF sh
    <2>5. C \in Partial(Grid, Contents') /\ DOMAIN C = DOMAIN sh.cells
      <3>1. \A p \in DOMAIN C : C[p] \in Contents'  BY <1>1, <2>3, DroppedIs
      <3>2. C = [p \in DOMAIN C |-> C[p]] /\ DOMAIN C = DOMAIN sh.cells  OBVIOUS
      <3> HIDE DEF C
      <3> QED  BY <2>3, <3>1, <3>2, PartialIs
    <2> HIDE DEF C
    <2>6. /\ sh.sid \in Ids' /\ sh.rows \in [Rows -> Ids'] /\ sh.cols \in [Cols -> Ids']
          /\ sh.merges \in SUBSET [box : WideBoxes, of : Meanings']
      BY <1>3, <2>4
    <2>7. book'[t] \in SheetRecords'  BY <2>1, <2>4, <2>5, <2>6, ExactlyFits, Zenon
    <2>8. book'[t].cells = C /\ book'[t].home = sh.home  BY <2>1, ExactlyIs
    <2> QED  BY <2>3, <2>5, <2>7, <2>8
  <1>5. book' \in Seq(SheetRecords')
    <2> HIDE DEF SheetRecords
    <2> QED  BY <1>1, <1>4
  <1>6. \A keys \in SUBSET (Sheets \X Grid) : UpKeys(keys, gone) \subseteq Sheets' \X Grid
    BY <1>1 DEF UpKeys
  <1>7. DOMAIN texts' \subseteq Sheets' \X Grid
    <2>1. DOMAIN texts' = UpKeys(DOMAIN texts, gone)  BY DEF DeleteSheet, Retexted
    <2>2. DOMAIN texts \in SUBSET (Sheets \X Grid)  BY DEF TypeOK
    <2> QED  BY <1>6, <2>1, <2>2
  <1>8. Formulas(book) \subseteq Sheets \X Grid
    <2>1. SUFFICES ASSUME NEW k \in Formulas(book)  PROVE k \in Sheets \X Grid  OBVIOUS
    <2>2. PICK t \in DOMAIN book : \E p \in DOMAIN book[t].cells : k = <<t, p>>  BY FormulaKeys
    <2>3. DOMAIN book[t].cells \subseteq Grid /\ t \in Sheets  BY <2>2, SheetFields DEF Sheets
    <2> QED  BY <2>2, <2>3
  <1> DEFINE shifted == [k \in UpKeys(DOMAIN texts, gone) |-> texts[<<Down(k[1], gone), k[2]>>]]
             lost == {k \in Formulas(book) : book[k[1]].cells[k[2]].kind = "ref"
                                             /\ book[k[1]].cells[k[2]].sheet = gone}
  <1>9. /\ edited' = UpKeys(edited, gone) \cup UpKeys(lost, gone) \cup Touched(book', shifted, book[gone].name)
        /\ extraDirty' = {Up(s, gone) : s \in extraDirty \ {gone}}
                            \cup {k[1] : k \in TouchedUnread(book', shifted, book[gone].name)}
    BY DEF DeleteSheet
  <1>10. /\ Touched(book', shifted, book[gone].name) \subseteq UpKeys(DOMAIN texts, gone)
         /\ TouchedUnread(book', shifted, book[gone].name) \subseteq UpKeys(DOMAIN texts, gone)
    BY DEF Touched, TouchedUnread
  <1>11. /\ UpKeys(edited, gone) \subseteq Sheets' \X Grid /\ UpKeys(lost, gone) \subseteq Sheets' \X Grid
         /\ UpKeys(DOMAIN texts, gone) \subseteq Sheets' \X Grid
    <2>1. /\ edited \in SUBSET (Sheets \X Grid) /\ lost \in SUBSET (Sheets \X Grid)
          /\ DOMAIN texts \in SUBSET (Sheets \X Grid)
      BY <1>8 DEF TypeOK
    <2> HIDE DEF lost
    <2> QED  BY <1>6, <2>1
  <1>12. extraDirty \subseteq Sheets  BY DEF TypeOK
  <1> HIDE DEF shifted, lost
  <1>13. edited' \subseteq Sheets' \X Grid  BY <1>9, <1>10, <1>11
  <1>14. extraDirty' \subseteq Sheets'  BY <1>1, <1>9, <1>10, <1>11, <1>12
  <1>15. fresh' \in Nat \ {0}  BY <1>1, <1>2
  <1>16. \A t \in Sheets' : DOMAIN book'[t].home = DOMAIN book'[t].cells  BY <1>4
  <1>17. DOMAIN texts' \subseteq Sheets' \X Grid' /\ edited' \subseteq Sheets' \X Grid'
    BY <1>3, <1>7, <1>13
  <1> HIDE DEF SheetRecords, Grid
  <1> QED  BY <1>5, <1>14, <1>15, <1>16, <1>17, Zenon DEF TypeOK

LEMMA AddIs ==
    ASSUME TypeOK, NEW name \in SheetNames, AddSheet(name)
    PROVE  /\ Sheets = 1 .. Len(book) /\ Len(book) \in Nat /\ Sheets' = 1 .. Len(book) + 1
           /\ Len(book) + 1 \notin Sheets
           /\ book' \in Seq(SheetRecords') /\ fresh' = fresh + MaxRow + 1
           /\ \A t \in Sheets : book'[t] = book[t]
           /\ LET sh == book'[Len(book) + 1]
              IN  /\ sh.name = name /\ sh.sid = fresh
                  /\ sh.rows = [i \in Rows |-> fresh + i] /\ sh.cols = [i \in Cols |-> fresh + i]
                  /\ DOMAIN sh.cells = {} /\ DOMAIN sh.home = {} /\ sh.merges = {}
  <1> DEFINE sh == [name |-> name, sid |-> fresh,
                    rows |-> [i \in Rows |-> fresh + i], cols |-> [i \in Cols |-> fresh + i],
                    cells |-> Only(texts, {}), home |-> Only(texts, {}), merges |-> {}]
  <1>1. book' = Append(book, sh) /\ fresh' = fresh + MaxRow + 1  BY DEF AddSheet
  <1>2. book \in Seq(SheetRecords) /\ fresh \in Nat \ {0} /\ MaxRow \in Nat  BY OnGrid DEF TypeOK
  <1>3. Sheets = 1 .. Len(book) /\ Len(book) \in Nat /\ Sheets' = 1 .. Len(book) + 1
    <2> HIDE DEF SheetRecords, sh
    <2> QED  BY <1>1, <1>2 DEF Sheets
  <1>4. Ids \subseteq Ids' /\ Meanings \subseteq Meanings'
    <2>1. \A m, n \in Nat : m <= n => 1 .. m - 1 \subseteq 1 .. n - 1 /\ 0 .. m \subseteq 0 .. n  OBVIOUS
    <2>2. fresh <= fresh' /\ fresh \in Nat /\ fresh' \in Nat  BY <1>1, <1>2
    <2>3. Ids = 1 .. fresh - 1 /\ Ids' = 1 .. fresh' - 1  BY DEF Ids
    <2>4. Ids \subseteq Ids' /\ 0 .. fresh \subseteq 0 .. fresh'  BY <2>1, <2>2, <2>3, Zenon
    <2> QED  BY <2>4 DEF Meanings
  <1>5. Sheets \subseteq Sheets'  BY <1>3
  <1>6. Contents \subseteq Contents'  BY <1>4, <1>5 DEF Contents
  <1>7. SheetRecords \subseteq SheetRecords'
    <2>1. \A f : f \in Partial(Grid, Contents) => f \in Partial(Grid, Contents')  BY <1>6, PartialIs
    <2>2. Grid' = Grid  BY DEF Grid, Rows
    <2>3. Partial(Grid, Nat \X Nat)' = Partial(Grid, Nat \X Nat) /\ Partial(Grid, Contents)' = Partial(Grid, Contents')
      BY <2>2 DEF Partial
    <2> HIDE DEF Ids, Contents, Meanings
    <2> QED  BY <1>4, <2>1, <2>3 DEF SheetRecords
  <1>8. sh \in SheetRecords'
    <2>1. fresh \in Ids' /\ (\A i \in Rows : fresh + i \in Ids') /\ (\A i \in Cols : fresh + i \in Ids')
      <3>1. Ids' = 1 .. fresh + MaxRow  BY <1>1, <1>2 DEF Ids
      <3> QED  BY <1>2, <3>1, OnGrid DEF Rows, Cols
    <2>2. ASSUME NEW T  PROVE Only(texts, {}) \in Partial(Grid, T)
      <3>1. Only(texts, {}) = [k \in {} |-> texts[k]]  BY DEF Only
      <3>2. [k \in {} |-> texts[k]] \in [{} -> T]  OBVIOUS
      <3> QED  BY <3>1, <3>2 DEF Partial
    <2> DEFINE R == [i \in Rows |-> fresh + i]
               L == [i \in Cols |-> fresh + i]
               E == Only(texts, {})
    <2>3. R \in [Rows -> Ids'] /\ L \in [Cols -> Ids'] /\ E \in Partial(Grid, Contents')
          /\ E \in Partial(Grid, Nat \X Nat) /\ {} \in SUBSET [box : WideBoxes, of : Meanings']
      BY <2>1, <2>2
    <2>4. sh \in Exactly(name, fresh, R, L, E, E, {})  BY DEF Exactly
    <2> HIDE DEF R, L, E, sh
    <2> QED  BY <2>1, <2>3, <2>4, ExactlyFits, Zenon
  <1>9. /\ sh.name = name /\ sh.sid = fresh
        /\ sh.rows = [i \in Rows |-> fresh + i] /\ sh.cols = [i \in Cols |-> fresh + i]
        /\ DOMAIN sh.cells = {} /\ DOMAIN sh.home = {} /\ sh.merges = {}
    BY DEF Only
  <1> HIDE DEF sh, SheetRecords
  <1>10. book' \in Seq(SheetRecords') /\ (\A t \in Sheets : book'[t] = book[t]) /\ book'[Len(book) + 1] = sh
    <2>1. \A t \in Sheets : book'[t] = book[t]  BY <1>1, <1>2, <1>3
    <2>2. book'[Len(book) + 1] = sh  BY <1>1, <1>2
    <2>3. book \in Seq(SheetRecords')  BY <1>2, <1>7
    <2>4. book' \in Seq(SheetRecords')  BY <1>1, <1>8, <2>3
    <2> QED  BY <2>1, <2>2, <2>4
  <1>11. Len(book) + 1 \notin Sheets  BY <1>3
  <1> QED  BY <1>1, <1>3, <1>9, <1>10, <1>11

LEMMA AddKeepsType ==
    ASSUME TypeOK, NEW name \in SheetNames, AddSheet(name)
    PROVE  TypeOK'
  <1>1. /\ Sheets = 1 .. Len(book) /\ Len(book) \in Nat /\ Sheets' = 1 .. Len(book) + 1
        /\ book' \in Seq(SheetRecords') /\ fresh' = fresh + MaxRow + 1
        /\ \A t \in Sheets : book'[t] = book[t]
        /\ DOMAIN book'[Len(book) + 1].cells = {} /\ DOMAIN book'[Len(book) + 1].home = {}
    BY AddIs
  <1>2. \A t \in Sheets' : DOMAIN book'[t].home = DOMAIN book'[t].cells
    <2>1. \A t \in Sheets : DOMAIN book[t].home = DOMAIN book[t].cells  BY DEF TypeOK
    <2>2. \A t \in Sheets' : t \in Sheets \/ t = Len(book) + 1  BY <1>1
    <2> HIDE DEF Sheets
    <2> QED  BY <1>1, <2>1, <2>2, Zenon
  <1>3. fresh' \in Nat \ {0}  BY <1>1, OnGrid DEF TypeOK
  <1>4. Sheets \subseteq Sheets' /\ Grid' = Grid  BY <1>1 DEF Grid, Rows
  <1>5. /\ DOMAIN texts' \subseteq Sheets' \X Grid /\ edited' \subseteq Sheets' \X Grid
        /\ extraDirty' \subseteq Sheets'
    BY <1>4 DEF AddSheet, TypeOK
  <1> HIDE DEF SheetRecords, Grid
  <1> QED  BY <1>1, <1>2, <1>3, <1>4, <1>5, Zenon DEF TypeOK

LEMMA FormulasOnGrid == ASSUME TypeOK PROVE Formulas(book) \subseteq Sheets \X Grid
  <1>1. SUFFICES ASSUME NEW k \in Formulas(book)  PROVE k \in Sheets \X Grid  OBVIOUS
  <1>2. PICK t \in DOMAIN book : \E p \in DOMAIN book[t].cells : k = <<t, p>>  BY FormulaKeys
  <1>3. DOMAIN book[t].cells \subseteq Grid /\ t \in Sheets  BY <1>2, SheetFields DEF Sheets
  <1> QED  BY <1>2, <1>3

LEMMA SaveKeepsType ==
    ASSUME TypeOK, Save
    PROVE  TypeOK' /\ book' = book /\ Sheets' = Sheets /\ fresh' = fresh
  <1>1. book' = book /\ fresh' = fresh /\ edited' = {} /\ extraDirty' = {} /\ texts' = TextsOnSave
    BY DEF Save
  <1>2. Sheets' = Sheets  BY <1>1 DEF Sheets
  <1>3. /\ Ids' = Ids /\ Meanings' = Meanings /\ Contents' = Contents /\ Grid' = Grid
        /\ SheetRecords' = SheetRecords
    BY <1>1, <1>2 DEF Ids, Meanings, Contents, Grid, Rows, SheetRecords
  <1>4. DOMAIN texts' \subseteq Sheets \X Grid
    <2>1. DOMAIN TextsOnSave \subseteq DOMAIN texts \cup edited  BY DEF TextsOnSave
    <2> QED  BY <1>1, <2>1 DEF TypeOK
  <1> HIDE DEF SheetRecords, Grid, Sheets
  <1> QED  BY <1>1, <1>2, <1>3, <1>4 DEF TypeOK

-----------------------------------------------------------------------------
(* A workbook just loaded. *)
FirstRows == [i \in Rows |-> 1 + i]
FirstCols == [i \in Cols |-> 1 + i]

LEMMA LoadedIs ==
    ASSUME Init
    PROVE  \E opened \in Books :
              /\ Sheets = 1 .. Len(opened) /\ Len(opened) \in Nat /\ DOMAIN opened = Sheets
              /\ fresh = MaxRow + 2 + Len(opened)
              /\ book = [s \in Sheets |-> book[s]]
              /\ \E blanks :
                   /\ DOMAIN blanks = Sheets
                   /\ \A s \in Sheets :
                         blanks[s].sid = s /\ blanks[s].rows = FirstRows /\ blanks[s].cols = FirstCols
                   /\ \A s \in Sheets : book[s] \in
                         Exactly(opened[s].name, s, FirstRows, FirstCols,
                                 [p \in DOMAIN opened[s].cells |-> Entered(blanks, opened[s].cells[p])],
                                 [p \in DOMAIN opened[s].cells |-> <<FirstRows[p[1]], FirstCols[p[2]]>>],
                                 {[box |-> m, of |-> Meaning(blanks, s, m)] : m \in opened[s].merges})
  <1>1. PICK opened \in Books :
         LET blanks == [s \in DOMAIN opened |-> Sheet(opened, opened[s].name, s)]
             At(s, p) == <<blanks[s].rows[p[1]], blanks[s].cols[p[2]]>>
         IN  /\ fresh = MaxRow + 2 + Len(opened)
             /\ book = [s \in DOMAIN opened |->
                   [name |-> opened[s].name, sid |-> s,
                    rows |-> blanks[s].rows, cols |-> blanks[s].cols,
                    cells |-> [p \in DOMAIN opened[s].cells |-> Entered(blanks, opened[s].cells[p])],
                    home |-> [p \in DOMAIN opened[s].cells |-> At(s, p)],
                    merges |-> {[box |-> m, of |-> Meaning(blanks, s, m)] : m \in opened[s].merges}]]
             /\ \E table \in NameTables : names = [n \in Names |-> EnteredName(blanks, table[n])]
    BY Zenon DEF Init
  <1> DEFINE blanks == [s \in DOMAIN opened |-> Sheet(opened, opened[s].name, s)]
  <1>2. Len(opened) \in Nat /\ DOMAIN opened = 1 .. Len(opened)  BY BooksAssumption
  <1>3. \A s \in DOMAIN opened : blanks[s].sid = s /\ blanks[s].rows = FirstRows /\ blanks[s].cols = FirstCols
    BY DEF Sheet, FirstRows, FirstCols
  <1>4. DOMAIN blanks = DOMAIN opened  OBVIOUS
  <1>5. Sheets = DOMAIN opened /\ fresh = MaxRow + 2 + Len(opened)  BY <1>1 DEF Sheets
  <1> HIDE DEF blanks
  <1>6. ASSUME NEW s \in Sheets
        PROVE  book[s] \in
                  Exactly(opened[s].name, s, FirstRows, FirstCols,
                          [p \in DOMAIN opened[s].cells |-> Entered(blanks, opened[s].cells[p])],
                          [p \in DOMAIN opened[s].cells |-> <<FirstRows[p[1]], FirstCols[p[2]]>>],
                          {[box |-> m, of |-> Meaning(blanks, s, m)] : m \in opened[s].merges})
    <2>1. book[s] = [name |-> opened[s].name, sid |-> s, rows |-> blanks[s].rows, cols |-> blanks[s].cols,
                     cells |-> [p \in DOMAIN opened[s].cells |-> Entered(blanks, opened[s].cells[p])],
                     home |-> [p \in DOMAIN opened[s].cells |-> <<blanks[s].rows[p[1]], blanks[s].cols[p[2]]>>],
                     merges |-> {[box |-> m, of |-> Meaning(blanks, s, m)] : m \in opened[s].merges}]
      BY <1>1, <1>5 DEF blanks
    <2>2. blanks[s].rows = FirstRows /\ blanks[s].cols = FirstCols  BY <1>3, <1>5
    <2> QED  BY <2>1, <2>2 DEF Exactly
  <1>7. book = [s \in Sheets |-> book[s]]  BY <1>1, <1>5
  <1>8. /\ DOMAIN blanks = Sheets
        /\ \A s \in Sheets : blanks[s].sid = s /\ blanks[s].rows = FirstRows /\ blanks[s].cols = FirstCols
    BY <1>3, <1>4, <1>5
  <1>9. /\ Sheets = 1 .. Len(opened) /\ Len(opened) \in Nat /\ DOMAIN opened = Sheets
        /\ fresh = MaxRow + 2 + Len(opened)
    BY <1>2, <1>5
  <1>10. \E b :
           /\ DOMAIN b = Sheets
           /\ \A s \in Sheets : b[s].sid = s /\ b[s].rows = FirstRows /\ b[s].cols = FirstCols
           /\ \A s \in Sheets : book[s] \in
                  Exactly(opened[s].name, s, FirstRows, FirstCols,
                          [p \in DOMAIN opened[s].cells |-> Entered(b, opened[s].cells[p])],
                          [p \in DOMAIN opened[s].cells |-> <<FirstRows[p[1]], FirstCols[p[2]]>>],
                          {[box |-> m, of |-> Meaning(b, s, m)] : m \in opened[s].merges})
    <2> WITNESS blanks
    <2> QED  BY <1>6, <1>8, Zenon
  <1>11. opened \in Books  BY <1>1
  <1> HIDE DEF Sheets
  <1> WITNESS opened \in Books
  <1> QED  BY <1>7, <1>9, <1>10

LEMMA LoadedContents ==
    ASSUME NEW n \in Nat, Sheets = 1 .. n, fresh = MaxRow + 2 + n, NEW blanks,
           \A s \in Sheets : blanks[s].sid = s /\ blanks[s].rows = FirstRows /\ blanks[s].cols = FirstCols
    PROVE  /\ fresh \in Nat \ {0} /\ Sheets \subseteq Ids
           /\ FirstRows \in [Rows -> Ids] /\ FirstCols \in [Cols -> Ids] /\ Ids \subseteq Nat
           /\ \A s \in Sheets : \A box \in Areas \cup Boxes : Meaning(blanks, s, box) \in Meanings
           /\ \A entry \in FileEntries :
                 (entry.kind # "value" => entry.sheet \in Sheets) => Entered(blanks, entry) \in Contents
  <1>1. MaxRow \in Nat /\ fresh \in Nat \ {0} /\ Ids \subseteq Nat  BY OnGrid DEF Ids
  <1>2. \A i \in Rows : 1 + i \in Ids  BY <1>1 DEF Rows, Ids
  <1>3. FirstRows \in [Rows -> Ids] /\ FirstCols \in [Cols -> Ids]
    BY <1>2, OnGrid DEF FirstRows, FirstCols
  <1>4. Sheets \subseteq Ids  BY <1>1 DEF Ids
  <1>5. ASSUME NEW s \in Sheets, NEW box \in Areas \cup Boxes
        PROVE  Meaning(blanks, s, box) \in Meanings
    <2>1. box.top .. box.bottom \subseteq Rows /\ box.left .. box.right \subseteq Cols
      BY OnGrid DEF Areas, Boxes, Rows, Cols
    <2>2. /\ {blanks[s].rows[i] : i \in box.top .. box.bottom} \subseteq Ids
          /\ {blanks[s].cols[i] : i \in box.left .. box.right} \subseteq Ids
      BY <1>3, <2>1
    <2>3. fresh \in 0 .. fresh /\ \A id \in Ids : id < fresh  BY <1>1 DEF Ids
    <2>4. blanks[s].sid \in Nat  BY <1>1, <1>4
    <2> DEFINE R == {blanks[s].rows[i] : i \in box.top .. box.bottom}
               L == {blanks[s].cols[i] : i \in box.left .. box.right}
    <2>5. Meaning(blanks, s, box) = [sid |-> blanks[s].sid, born |-> fresh, rows |-> R, cols |-> L]
      BY DEF Meaning
    <2> HIDE DEF R, L
    <2>6. R \subseteq Ids /\ L \subseteq Ids  BY <2>2 DEF R, L
    <2> QED  BY <2>3, <2>4, <2>5, <2>6 DEF Meanings
  <1>6. ASSUME NEW entry \in FileEntries, entry.kind # "value" => entry.sheet \in Sheets
        PROVE  Entered(blanks, entry) \in Contents
    <2>1. Keys \subseteq Nat  BY NamesAssumption, Zenon
    <2>2. CASE entry.kind = "value"
      <3>1. entry \in [kind : {"value"}, v : Keys]  BY <2>2 DEF FileEntries, ReadEntries
      <3>2. entry.v \in Keys  BY <3>1
      <3>3. entry.v \in Nat  BY <2>1, <3>2, Zenon
      <3>4. Entered(blanks, entry) = Value(entry.v)  BY <2>2 DEF Entered
      <3> QED  BY <3>3, <3>4 DEF Value, Contents
    <2>3. CASE entry.kind = "ref"
      <3>1. entry.area \in Areas /\ entry.sheet \in Sheets  BY <1>6, <2>3 DEF FileEntries, ReadEntries
      <3>2. Entered(blanks, entry) = Ref(entry.sheet, entry.area, Meaning(blanks, entry.sheet, entry.area))
        BY <2>3 DEF Entered
      <3>3. \A of \in Meanings : Ref(entry.sheet, entry.area, of) \in Contents
        BY <3>1 DEF Ref, Contents
      <3> QED  BY <1>5, <3>1, <3>2, <3>3
    <2>4. CASE entry.kind = "verbatim"
      <3>1. entry \in [kind : {"verbatim"}, sheet : Nat, v : Keys]  BY <2>4 DEF FileEntries, ReadEntries
      <3>2. entry.v \in Keys /\ entry.sheet \in Sheets  BY <1>6, <2>4, <3>1
      <3>3. entry.v \in Nat  BY <2>1, <3>2, Zenon
      <3>4. blanks[entry.sheet].sid \in Ids  BY <1>4, <3>2
      <3>5. Entered(blanks, entry) = Verbatim(blanks[entry.sheet].sid, entry.v)  BY <2>4 DEF Entered
      <3> QED  BY <3>3, <3>4, <3>5 DEF Verbatim, Contents
    <2> QED  BY <2>2, <2>3, <2>4 DEF FileEntries, ReadEntries
  <1> QED  BY <1>1, <1>3, <1>4, <1>5, <1>6

LEMMA InitType == Init => TypeOK
  <1> SUFFICES ASSUME Init PROVE TypeOK  OBVIOUS
  <1>1. PICK opened \in Books :
              /\ Sheets = 1 .. Len(opened) /\ Len(opened) \in Nat /\ DOMAIN opened = Sheets
              /\ fresh = MaxRow + 2 + Len(opened)
              /\ book = [s \in Sheets |-> book[s]]
              /\ \E blanks :
                   /\ DOMAIN blanks = Sheets
                   /\ \A s \in Sheets :
                         blanks[s].sid = s /\ blanks[s].rows = FirstRows /\ blanks[s].cols = FirstCols
                   /\ \A s \in Sheets : book[s] \in
                         Exactly(opened[s].name, s, FirstRows, FirstCols,
                                 [p \in DOMAIN opened[s].cells |-> Entered(blanks, opened[s].cells[p])],
                                 [p \in DOMAIN opened[s].cells |-> <<FirstRows[p[1]], FirstCols[p[2]]>>],
                                 {[box |-> m, of |-> Meaning(blanks, s, m)] : m \in opened[s].merges})
    BY LoadedIs, Zenon
  <1>2. PICK blanks :
           /\ \A s \in Sheets :
                 blanks[s].sid = s /\ blanks[s].rows = FirstRows /\ blanks[s].cols = FirstCols
           /\ \A s \in Sheets : book[s] \in
                         Exactly(opened[s].name, s, FirstRows, FirstCols,
                                 [p \in DOMAIN opened[s].cells |-> Entered(blanks, opened[s].cells[p])],
                                 [p \in DOMAIN opened[s].cells |-> <<FirstRows[p[1]], FirstCols[p[2]]>>],
                                 {[box |-> m, of |-> Meaning(blanks, s, m)] : m \in opened[s].merges})
    BY <1>1, Zenon
  <1>3. /\ fresh \in Nat \ {0} /\ Sheets \subseteq Ids
        /\ FirstRows \in [Rows -> Ids] /\ FirstCols \in [Cols -> Ids] /\ Ids \subseteq Nat
        /\ \A s \in Sheets : \A box \in Areas \cup Boxes : Meaning(blanks, s, box) \in Meanings
        /\ \A entry \in FileEntries :
              (entry.kind # "value" => entry.sheet \in Sheets) => Entered(blanks, entry) \in Contents
    BY <1>1, <1>2, LoadedContents
  <1>4. ASSUME NEW s \in Sheets
        PROVE  book[s] \in SheetRecords /\ DOMAIN book[s].home = DOMAIN book[s].cells
               /\ DOMAIN book[s].cells \subseteq Grid
    <2> DEFINE C == [p \in DOMAIN opened[s].cells |-> Entered(blanks, opened[s].cells[p])]
               H == [p \in DOMAIN opened[s].cells |-> <<FirstRows[p[1]], FirstCols[p[2]]>>]
               M == {[box |-> m, of |-> Meaning(blanks, s, m)] : m \in opened[s].merges}
    <2>1. /\ opened[s].name \in SheetNames /\ DOMAIN opened[s].cells \subseteq Positions
          /\ \A p \in DOMAIN opened[s].cells :
                /\ opened[s].cells[p] \in FileEntries
                /\ opened[s].cells[p].kind # "value" => opened[s].cells[p].sheet \in Sheets
          /\ opened[s].merges \subseteq Boxes
      BY <1>1, BooksAssumption
    <2>2. book[s] \in Exactly(opened[s].name, s, FirstRows, FirstCols, C, H, M)  BY <1>2
    <2>3. C \in Partial(Grid, Contents) /\ DOMAIN C = DOMAIN opened[s].cells /\ DOMAIN C \subseteq Grid
      <3>1. \A p \in DOMAIN C : C[p] \in Contents  BY <1>3, <2>1
      <3>2. C = [p \in DOMAIN C |-> C[p]] /\ DOMAIN C = DOMAIN opened[s].cells  OBVIOUS
      <3>3. DOMAIN C \subseteq Grid  BY <2>1, <3>2, OnGrid
      <3> HIDE DEF C
      <3> QED  BY <3>1, <3>2, <3>3, PartialIs
    <2>4. H \in Partial(Grid, Nat \X Nat) /\ DOMAIN H = DOMAIN opened[s].cells
      <3>1. ASSUME NEW p \in DOMAIN H  PROVE H[p] \in Nat \X Nat
        <4>1. p[1] \in Rows /\ p[2] \in Cols  BY <2>1 DEF Positions
        <4>2. FirstRows[p[1]] \in Nat /\ FirstCols[p[2]] \in Nat  BY <1>3, <4>1
        <4> QED  BY <4>2
      <3>2. H = [p \in DOMAIN H |-> H[p]] /\ DOMAIN H = DOMAIN opened[s].cells  OBVIOUS
      <3>3. DOMAIN H \subseteq Grid  BY <2>1, <3>2, OnGrid
      <3> HIDE DEF H
      <3> QED  BY <3>1, <3>2, <3>3, PartialIs
    <2>5. M \in SUBSET [box : WideBoxes, of : Meanings]
      <3>1. Boxes \subseteq WideBoxes  BY OnGrid DEF Boxes, WideBoxes
      <3> QED  BY <1>3, <2>1, <3>1
    <2> HIDE DEF C, H, M
    <2>6. s \in Ids  BY <1>3
    <2>7. book[s].cells = C /\ book[s].home = H  BY <2>2, ExactlyIs
    <2>8. book[s] \in SheetRecords
      <3> HIDE DEF Ids, Contents, Meanings
      <3> QED  BY <1>3, <2>1, <2>2, <2>3, <2>4, <2>5, <2>6 DEF Exactly, SheetRecords
    <2> QED  BY <2>3, <2>4, <2>7, <2>8
  <1>5. book \in Seq(SheetRecords)
    <2> HIDE DEF SheetRecords
    <2> QED  BY <1>1, <1>4
  <1>6. DOMAIN texts \subseteq Sheets \X Grid
    <2>1. DOMAIN texts \subseteq CellsOf(book)
      <3>1. texts = [k \in {j \in CellsOf(book) : book[j[1]].cells[j[2]].kind \in {"ref", "verbatim"}} |->
                        PrintedAt(book, k)]
        BY Zenon DEF Init
      <3> QED  BY <3>1
    <2>2. CellsOf(book) \subseteq Sheets \X Grid
      <3>1. SUFFICES ASSUME NEW k \in CellsOf(book)  PROVE k \in Sheets \X Grid  OBVIOUS
      <3>2. PICK t \in Sheets : k \in {t} \X DOMAIN book[t].cells  BY DEF CellsOf, Sheets
      <3> QED  BY <1>4, <3>2
    <2> QED  BY <2>1, <2>2
  <1>7. edited = {} /\ extraDirty = {}  BY Zenon DEF Init
  <1>8. \A s \in Sheets : DOMAIN book[s].home = DOMAIN book[s].cells  BY <1>4
  <1> HIDE DEF SheetRecords, Grid, Sheets
  <1> QED  BY <1>3, <1>5, <1>6, <1>7, <1>8 DEF TypeOK

-----------------------------------------------------------------------------
(* What a step does. *)
LEMMA StepIs ==
    ASSUME TypeOK, Next
    PROVE  \/ \E s \in Sheets : \E contents : Fits(contents) /\ Write(s, contents)
           \/ \E s \in Sheets, axis \in Axes : \E e \in EditsOn(axis) : StructuralEdit(s, e)
           \/ \E s \in Sheets, name \in SheetNames : RenameSheet(s, name)
           \/ \E s \in Sheets : DeleteSheet(s)
           \/ \E name \in SheetNames : AddSheet(name)
           \/ Save
  <1>1. CASE Sorting
    <2>1. PICK s \in Sheets, box \in SortRanges, ascending \in BOOLEAN, header \in BOOLEAN, hint \in Keys :
            \E col \in box.left .. box.right : Sort(s, box, col, ascending, header, hint)
      BY <1>1 DEF Sorting
    <2>2. PICK col \in box.left .. box.right : Sort(s, box, col, ascending, header, hint)  BY <2>1
    <2>3. box \in Boxes  BY InputsAssumption
    <2>4. \E contents : Fits(contents) /\ Write(s, contents)
      <3> DEFINE key == RowKeys(s, box, col, header, hint)
                 from == SortOrder(box, header, key, ascending)
      <3>1. /\ Fits(Differing(s, SortWrites(s, box, header, from)))
            /\ Write(s, Differing(s, SortWrites(s, box, header, from)))
        BY <2>2, <2>3, SortIs
      <3> QED  BY <3>1, Zenon
    <2> QED  BY <2>4
  <1>2. CASE Editing
    <2>1. CASE \E entry \in Entries : SetCell(entry[1], entry[2], entry[3])
      <3>1. PICK entry \in Entries : SetCell(entry[1], entry[2], entry[3])  BY <2>1
      <3>2. entry[2] \in Positions /\ entry[3] \in TypedEntries  BY InputsAssumption
      <3>3. entry[1] \in Sheets /\ \E contents : Fits(contents) /\ Write(entry[1], contents)
        BY <3>1, <3>2, SetCellFits
      <3> QED  BY <3>3
    <2>2. CASE \E s \in Sheets, fill \in Fills : Fill(s, fill[1], fill[2])
      <3>1. PICK s \in Sheets, fill \in Fills : Fill(s, fill[1], fill[2])  BY <2>2
      <3>2. fill[1] \in Boxes /\ fill[2] \in Boxes  BY InputsAssumption
      <3>3. \E contents : Fits(contents) /\ Write(s, contents)  BY <3>1, <3>2, FillFits
      <3> QED  BY <3>3
    <2> QED  BY <1>2, <2>1, <2>2, Zenon DEF Editing
  <1> QED  BY <1>1, <1>2 DEF Next

LEMMA StepKeepsType == TypeOK /\ [Next]_vars => TypeOK'
  <1> SUFFICES ASSUME TypeOK, [Next]_vars PROVE TypeOK'  OBVIOUS
  <1>1. CASE Next
    <2>1. CASE \E s \in Sheets : \E contents : Fits(contents) /\ Write(s, contents)
      BY <2>1, WriteKeepsType, Zenon
    <2>2. CASE \E s \in Sheets, axis \in Axes : \E e \in EditsOn(axis) : StructuralEdit(s, e)
      BY <2>2, EditKeepsType, Zenon
    <2>3. CASE \E s \in Sheets, name \in SheetNames : RenameSheet(s, name)
      BY <2>3, RenameKeepsType, Zenon
    <2>4. CASE \E s \in Sheets : DeleteSheet(s)
      BY <2>4, DeleteKeepsType, Zenon
    <2>5. CASE \E name \in SheetNames : AddSheet(name)
      BY <2>5, AddKeepsType, Zenon
    <2>6. CASE Save
      BY <2>6, SaveKeepsType
    <2> QED  BY <1>1, <2>1, <2>2, <2>3, <2>4, <2>5, <2>6, StepIs, Zenon
  <1>2. CASE UNCHANGED vars
    <2>1. book' = book /\ fresh' = fresh /\ texts' = texts /\ edited' = edited /\ extraDirty' = extraDirty
      BY <1>2 DEF vars
    <2>2. Sheets' = Sheets  BY <2>1 DEF Sheets
    <2>3. Grid' = Grid /\ SheetRecords' = SheetRecords
      BY <2>1, <2>2 DEF Ids, Meanings, Contents, Grid, Rows, SheetRecords, Partial
    <2> HIDE DEF Sheets, Grid, SheetRecords
    <2> QED  BY <2>1, <2>2, <2>3 DEF TypeOK
  <1> QED  BY <1>1, <1>2

(* Every sheet, cell, formula and remembered place is one there can be. *)
THEOREM TypeCorrect == Spec => []TypeOK
  BY InitType, StepKeepsType, PTL DEF Spec

-----------------------------------------------------------------------------
(***************************************************************************)
(* What a save would write is the workbook, because: a cell that is not to *)
(* be printed again has its text stored; a stored text belongs to a cell   *)
(* that holds no value; and a part of the file that will not be written    *)
(* again is what the sheet would print.                                    *)
(***************************************************************************)
Distinct == \A s, t \in Sheets : s # t => book[s].name # book[t].name /\ book[s].sid # book[t].sid

StoredCell(s, p) ==
    LET c == book[s].cells[p]
    IN  IF <<s, p>> \in edited THEN c.kind # "verbatim"
        ELSE c.kind # "value" => <<s, p>> \in DOMAIN texts /\ texts[<<s, p>>] = Printed(book, s, c)

Stored == \A s \in Sheets : \A p \in DOMAIN book[s].cells : StoredCell(s, p)

NoStrays ==
    \A s \in Sheets : \A p : <<s, p>> \in DOMAIN texts \ edited =>
        p \in DOMAIN book[s].cells /\ book[s].cells[p].kind # "value"

Whole(s) == [p \in DOMAIN book[s].cells |-> Printed(book, s, book[s].cells[p])]

Kept ==
    \A s \in Sheets : \/ book[s].sid \in PartsOnSave
                      \/ book[s].sid \in DOMAIN file /\ file[book[s].sid] = Whole(s)

SaveInv == Distinct /\ Stored /\ NoStrays /\ Kept

LEMMA ContentKinds ==
    ASSUME NEW c \in Contents
    PROVE  /\ c.kind \in {"value", "ref", "broken", "verbatim"}
           /\ Parsed(c) <=> c.kind \in {"ref", "broken"}
           /\ c.kind = "ref" => c.sheet \in Sheets
           /\ c.kind = "verbatim" => c.sid \in Ids
  BY DEF Contents, Parsed

(* What is printed, by kind. *)
ShownValue(v) == [value |-> v]
NoName == ""
ReadText(area, name) == [area |-> area, names |-> name]
UnreadText(name) == [unread |-> TRUE, names |-> name]

LEMMA PrintedIs ==
    \A b, s, c :
       /\ c.kind = "value" => Printed(b, s, c) = ShownValue(c.v)
       /\ c.kind = "broken" => Printed(b, s, c) = ReadText(NoBox, NoName)
       /\ c.kind = "ref" /\ c.sheet = s => Printed(b, s, c) = ReadText(c.area, NoName)
       /\ c.kind = "ref" /\ c.sheet # s => Printed(b, s, c) = ReadText(c.area, b[c.sheet].name)
       /\ c.kind = "verbatim" => Printed(b, s, c) = UnreadText(NameOf(b, c.sid))
  <1> TAKE b, s, c
  <1>1. ASSUME c.kind = "value" PROVE Printed(b, s, c) = ShownValue(c.v)
    BY <1>1 DEF Printed, ShownValue
  <1>2. ASSUME c.kind = "broken" PROVE Printed(b, s, c) = ReadText(NoBox, NoName)
    BY <1>2 DEF Printed, ReadText, NoName
  <1>3. ASSUME c.kind = "ref", c.sheet = s PROVE Printed(b, s, c) = ReadText(c.area, NoName)
    BY <1>3 DEF Printed, ReadText, NoName
  <1>4. ASSUME c.kind = "ref", c.sheet # s PROVE Printed(b, s, c) = ReadText(c.area, b[c.sheet].name)
    BY <1>4 DEF Printed, ReadText, NoName
  <1>5. ASSUME c.kind = "verbatim" PROVE Printed(b, s, c) = UnreadText(NameOf(b, c.sid))
    BY <1>5 DEF Printed, UnreadText
  <1> QED  BY <1>1, <1>2, <1>3, <1>4, <1>5, Zenon

LEMMA TextNames ==
    \A area, name, old, new :
       /\ ReadText(area, name).names = name /\ UnreadText(name).names = name
       /\ Renaming(UnreadText(name), old, new) = UnreadText(IF name = old THEN new ELSE name)
       /\ name # old => Renaming(ReadText(area, name), old, new) = ReadText(area, name)
  BY DEF Renaming, ReadText, UnreadText

LEMMA NameOfIs ==
    ASSUME NEW b, \A s, t \in DOMAIN b : s # t => b[s].sid # b[t].sid, NEW sid
    PROVE  /\ \A s \in DOMAIN b : b[s].sid = sid => NameOf(b, sid) = b[s].name
           /\ (\A s \in DOMAIN b : b[s].sid # sid) => NameOf(b, sid) = "#REF"
  <1>1. ASSUME NEW s \in DOMAIN b, b[s].sid = sid  PROVE NameOf(b, sid) = b[s].name
    <2> DEFINE r == CHOOSE t \in DOMAIN b : b[t].sid = sid
    <2>1. r \in DOMAIN b /\ b[r].sid = sid  BY <1>1
    <2>2. r = s  BY <1>1, <2>1
    <2> QED  BY <1>1, <2>2 DEF NameOf
  <1>2. (\A s \in DOMAIN b : b[s].sid # sid) => NameOf(b, sid) = "#REF"  BY DEF NameOf
  <1> QED  BY <1>1, <1>2

(* Sheets of the same names print the same. *)
LEMMA SamePrint ==
    ASSUME NEW b, NEW d, DOMAIN b = DOMAIN d,
           \A s \in DOMAIN b : b[s].name = d[s].name /\ b[s].sid = d[s].sid,
           \A s, t \in DOMAIN b : s # t => b[s].sid # b[t].sid,
           NEW s, NEW c, c.kind = "ref" => c.sheet \in DOMAIN b,
           c.kind \in {"value", "ref", "broken", "verbatim"}
    PROVE  Printed(b, s, c) = Printed(d, s, c)
  <1>1. \A sid : NameOf(b, sid) = NameOf(d, sid)
    <2>1. \A t, u \in DOMAIN d : t # u => d[t].sid # d[u].sid  OBVIOUS
    <2>2. SUFFICES ASSUME NEW sid PROVE NameOf(b, sid) = NameOf(d, sid)  OBVIOUS
    <2>3. CASE \E t \in DOMAIN b : b[t].sid = sid
      <3>1. PICK t \in DOMAIN b : b[t].sid = sid  BY <2>3
      <3>2. NameOf(b, sid) = b[t].name  BY <3>1, NameOfIs
      <3>3. NameOf(d, sid) = d[t].name  BY <2>1, <3>1, NameOfIs
      <3> QED  BY <3>1, <3>2, <3>3
    <2>4. CASE ~\E t \in DOMAIN b : b[t].sid = sid
      <3>1. NameOf(b, sid) = "#REF"  BY <2>4, NameOfIs
      <3>2. NameOf(d, sid) = "#REF"  BY <2>1, <2>4, NameOfIs
      <3> QED  BY <3>1, <3>2
    <2> QED  BY <2>3, <2>4
  <1>2. CASE c.kind = "value"  BY <1>2, PrintedIs
  <1>3. CASE c.kind = "broken"  BY <1>3, PrintedIs
  <1>4. CASE c.kind = "ref"
    <2>1. c.sheet \in DOMAIN b /\ b[c.sheet].name = d[c.sheet].name  BY <1>4
    <2>2. CASE c.sheet = s  BY <1>4, <2>2, PrintedIs
    <2>3. CASE c.sheet # s
      <3>1. Printed(b, s, c) = ReadText(c.area, b[c.sheet].name)  BY <1>4, <2>3, PrintedIs
      <3>2. Printed(d, s, c) = ReadText(c.area, d[c.sheet].name)  BY <1>4, <2>3, PrintedIs
      <3> QED  BY <2>1, <3>1, <3>2
    <2> QED  BY <2>2, <2>3
  <1>5. CASE c.kind = "verbatim"
    <2>1. Printed(b, s, c) = UnreadText(NameOf(b, c.sid))  BY <1>5, PrintedIs
    <2>2. Printed(d, s, c) = UnreadText(NameOf(d, c.sid))  BY <1>5, PrintedIs
    <2> QED  BY <1>1, <2>1, <2>2
  <1> QED  BY <1>2, <1>3, <1>4, <1>5

(* The cell a save encodes. *)
LEMMA EncodedIs ==
    ASSUME TypeOK, Stored, NoStrays, NEW s \in Sheets, NEW p \in DOMAIN book[s].cells
    PROVE  /\ Encoded(s, p) = Printed(book, s, book[s].cells[p])
           /\ book[s].cells[p].kind # "value" =>
                 <<s, p>> \in DOMAIN TextsOnSave /\ TextsOnSave[<<s, p>>] = Printed(book, s, book[s].cells[p])
  <1> DEFINE c == book[s].cells[p]
             k == <<s, p>>
             printed == edited \cap Formulas(book)
  <1>1. c \in Contents  BY SheetFields
  <1>2. k \in Formulas(book) <=> Parsed(c)  BY FormulaAt DEF Sheets
  <1>3. StoredCell(s, p)  BY DEF Stored
  <1>4. k \in DOMAIN texts \ edited => c.kind # "value"  BY DEF NoStrays
  <1>5. /\ DOMAIN TextsOnSave = (DOMAIN texts \ edited) \cup printed
        /\ \A j \in DOMAIN TextsOnSave : TextsOnSave[j] = IF j \in printed THEN PrintedAt(book, j) ELSE texts[j]
    BY DEF TextsOnSave
  <1>6. PrintedAt(book, k) = Printed(book, s, c)  BY DEF PrintedAt
  <1>7. Encoded(s, p) = IF k \in DOMAIN TextsOnSave THEN TextsOnSave[k]
                        ELSE IF Parsed(c) THEN [value |-> -2] ELSE [value |-> c.v]
    BY DEF Encoded
  <1>8. c.kind \in {"value", "ref", "broken", "verbatim"} /\ (Parsed(c) <=> c.kind \in {"ref", "broken"})
    BY <1>1, ContentKinds
  <1>9. c.kind = "value" => Printed(book, s, c) = [value |-> c.v]  BY PrintedIs DEF ShownValue
  <1>10. IF k \in edited THEN c.kind # "verbatim"
         ELSE c.kind # "value" => k \in DOMAIN texts /\ texts[k] = Printed(book, s, c)
    BY <1>3 DEF StoredCell
  <1> HIDE DEF c, k
  <1>11. c.kind # "value" => k \in DOMAIN TextsOnSave /\ TextsOnSave[k] = Printed(book, s, c)
    <2>1. CASE k \in edited
      <3>1. c.kind # "value" => k \in printed  BY <1>2, <1>8, <1>10, <2>1
      <3> HIDE DEF printed
      <3> QED  BY <1>5, <1>6, <3>1
    <2>2. CASE k \notin edited
      <3>1. k \notin printed  BY <2>2
      <3> QED  BY <1>5, <1>10, <2>2, <3>1
    <2> QED  BY <2>1, <2>2
  <1>12. c.kind = "value" => k \notin DOMAIN TextsOnSave  BY <1>2, <1>4, <1>5, <1>8
  <1>13. Encoded(s, p) = Printed(book, s, c)  BY <1>7, <1>8, <1>9, <1>11, <1>12
  <1> QED  BY <1>11, <1>13 DEF c, k

LEMMA SaveInvSuffices == TypeOK /\ SaveInv => SaveWritesWorkbook
  <1> SUFFICES ASSUME TypeOK, SaveInv, NEW s \in Sheets  PROVE PartOnSave(s) = Whole(s)
    BY DEF SaveWritesWorkbook, Whole
  <1>1. \A p \in DOMAIN book[s].cells : Encoded(s, p) = Printed(book, s, book[s].cells[p])
    BY EncodedIs DEF SaveInv
  <1>2. CASE book[s].sid \in PartsOnSave
    <2>1. PartOnSave(s) = [p \in DOMAIN book[s].cells |-> Encoded(s, p)]  BY <1>2 DEF PartOnSave
    <2> QED  BY <1>1, <2>1 DEF Whole
  <1>3. CASE book[s].sid \notin PartsOnSave
    <2>1. file[book[s].sid] = Whole(s)  BY <1>3 DEF SaveInv, Kept
    <2> QED  BY <1>3, <2>1 DEF PartOnSave
  <1> QED  BY <1>2, <1>3

LEMMA NamesApart == ASSUME TypeOK, NEW s \in Sheets PROVE book[s].name # NoName /\ book[s].name # "#REF"
  <1>1. book[s].name \in SheetNames  BY SheetFields
  <1> QED  BY <1>1, NamesAssumption, Zenon DEF NoName

(* The parts a save writes, by sheet. *)
LEMMA PartOf ==
    ASSUME TypeOK, Distinct, NEW s \in Sheets
    PROVE  book[s].sid \in PartsOnSave <=>
             \/ book[s].sid \in dirtyParts
             \/ s \in extraDirty
             \/ \E k \in edited : k[1] = s
  <1>1. book[s].sid \in PartsOnSave <=>
             \/ book[s].sid \in dirtyParts
             \/ \E t \in extraDirty \cup {k[1] : k \in edited} : book[t].sid = book[s].sid
    BY DEF PartsOnSave
  <1>2. extraDirty \cup {k[1] : k \in edited} \subseteq Sheets  BY DEF TypeOK
  <1>3. \A t \in Sheets : book[t].sid = book[s].sid => t = s  BY DEF Distinct
  <1> QED  BY <1>1, <1>2, <1>3

LEMMA PartAfter ==
    ASSUME TypeOK', Distinct', NEW s \in Sheets'
    PROVE  (book'[s].sid \in PartsOnSave') <=>
             \/ book'[s].sid \in dirtyParts'
             \/ s \in extraDirty'
             \/ \E k \in edited' : k[1] = s
  <1>1. (book'[s].sid \in PartsOnSave') <=>
             \/ book'[s].sid \in dirtyParts'
             \/ \E t \in extraDirty' \cup {k[1] : k \in edited'} : book'[t].sid = book'[s].sid
    BY DEF PartsOnSave
  <1>2. extraDirty' \cup {k[1] : k \in edited'} \subseteq Sheets'  BY DEF TypeOK
  <1>3. \A t \in Sheets' : book'[t].sid = book'[s].sid => t = s  BY DEF Distinct
  <1> QED  BY <1>1, <1>2, <1>3

(* While the sheets keep their names, a content prints as it did. *)
LEMMA PrintsAsBefore ==
    ASSUME TypeOK, Distinct, DOMAIN book' = Sheets,
           \A s \in Sheets : book'[s].name = book[s].name /\ book'[s].sid = book[s].sid,
           NEW c \in Contents, NEW s \in Sheets
    PROVE  Printed(book', s, c) = Printed(book, s, c)
  <1>1. \A r, t \in Sheets : r # t => book'[r].sid # book'[t].sid  BY DEF Distinct
  <1>2. c.kind = "ref" => c.sheet \in Sheets  BY ContentKinds
  <1>3. c.kind \in {"value", "ref", "broken", "verbatim"}  BY ContentKinds
  <1>4. DOMAIN book = Sheets  BY DEF Sheets
  <1> HIDE DEF Sheets
  <1> QED  BY <1>1, <1>2, <1>3, <1>4, SamePrint

(* Writing cells. *)
LEMMA WriteKeepsSave ==
    ASSUME TypeOK, SaveInv, NEW s \in Sheets, NEW contents, Fits(contents), Write(s, contents)
    PROVE  SaveInv'
  <1> DEFINE C == [p \in KeptCells(s, contents) |->
                      IF p \in DOMAIN contents THEN contents[p] ELSE book[s].cells[p]]
  <1>1. TypeOK' /\ Sheets' = Sheets  BY WriteKeepsType
  <1>2. book' = Written(s, contents) /\ edited' = edited \cup ({s} \X DOMAIN contents)
        /\ texts' = texts /\ extraDirty' = extraDirty /\ dirtyParts' = dirtyParts /\ file' = file
    BY DEF Write
  <1>3. /\ DOMAIN book' = Sheets
        /\ \A t \in Sheets \ {s} : book'[t] = book[t]
        /\ book'[s].name = book[s].name /\ book'[s].sid = book[s].sid /\ book'[s].cells = C
    <2> DEFINE H == [p \in KeptCells(s, contents) |->
                      IF p \in DOMAIN contents THEN <<book[s].rows[p[1]], book[s].cols[p[2]]>>
                      ELSE book[s].home[p]]
    <2>1. /\ DOMAIN book' = Sheets
          /\ \A t \in Sheets \ {s} : book'[t] = book[t]
          /\ book'[s] \in Exactly(book[s].name, book[s].sid, book[s].rows, book[s].cols, C, H, book[s].merges)
      BY <1>2, WrittenIs
    <2> HIDE DEF C, H
    <2> QED  BY <2>1, ExactlyIs
  <1>4. \A t \in Sheets : book'[t].name = book[t].name /\ book'[t].sid = book[t].sid  BY <1>3
  <1>5. Distinct /\ Stored /\ NoStrays /\ Kept  BY DEF SaveInv
  <1>6. Distinct'  BY <1>1, <1>4, <1>5 DEF Distinct
  <1>7. \A t \in Sheets : \A c \in Contents : Printed(book', t, c) = Printed(book, t, c)
    BY <1>3, <1>4, <1>5, PrintsAsBefore
  <1> HIDE DEF C
  <1>8. \A t, p : <<t, p>> \in edited' <=> <<t, p>> \in edited \/ (t = s /\ p \in DOMAIN contents)
    BY <1>2
  <1>9. ASSUME NEW t \in Sheets, NEW p \in DOMAIN book'[t].cells, ~(t = s /\ p \in DOMAIN contents)
        PROVE  p \in DOMAIN book[t].cells /\ book'[t].cells[p] = book[t].cells[p]
    <2>1. CASE t = s
      <3>1. DOMAIN C = KeptCells(s, contents) /\ C[p] = book[s].cells[p]  BY <1>3, <1>9, <2>1 DEF C
      <3>2. p \in DOMAIN book[s].cells  BY <1>3, <1>9, <2>1, <3>1 DEF KeptCells
      <3> QED  BY <1>3, <2>1, <3>1, <3>2
    <2>2. CASE t # s  BY <1>3, <2>2
    <2> QED  BY <2>1, <2>2
  <1>10. ASSUME NEW t \in Sheets, NEW p \in DOMAIN book[t].cells, ~(t = s /\ p \in DOMAIN contents)
         PROVE  p \in DOMAIN book'[t].cells /\ book'[t].cells[p] = book[t].cells[p]
    <2>1. CASE t = s
      <3>1. p \in KeptCells(s, contents)  BY <1>10, <2>1 DEF KeptCells
      <3>2. p \in DOMAIN C /\ C[p] = book[s].cells[p]  BY <1>10, <2>1, <3>1 DEF C
      <3> QED  BY <1>3, <2>1, <3>2
    <2>2. CASE t # s  BY <1>3, <2>2
    <2> QED  BY <2>1, <2>2
  <1>11. Stored'
    <2>1. ASSUME NEW t \in Sheets, NEW p \in DOMAIN book'[t].cells
          PROVE  StoredCell(t, p)'
      <3>1. CASE t = s /\ p \in DOMAIN contents
        <4>1. contents[p] # Blank /\ book'[t].cells[p] = contents[p]
          BY <1>3, <2>1, <3>1 DEF C, KeptCells
        <4>2. book'[t].cells[p].kind # "verbatim"  BY <3>1, <4>1 DEF Fits
        <4>3. <<t, p>> \in edited'  BY <1>8, <3>1
        <4> QED  BY <4>2, <4>3 DEF StoredCell
      <3>2. CASE ~(t = s /\ p \in DOMAIN contents)
        <4>1. p \in DOMAIN book[t].cells /\ book'[t].cells[p] = book[t].cells[p]  BY <1>9, <3>2
        <4>2. book[t].cells[p] \in Contents  BY <4>1, SheetFields
        <4>3. Printed(book', t, book'[t].cells[p]) = Printed(book, t, book[t].cells[p])  BY <1>7, <4>1, <4>2
        <4>4. <<t, p>> \in edited' <=> <<t, p>> \in edited  BY <1>8, <3>2
        <4>5. StoredCell(t, p)  BY <1>5, <4>1 DEF Stored
        <4> QED  BY <1>2, <4>1, <4>3, <4>4, <4>5 DEF StoredCell
      <3> QED  BY <3>1, <3>2
    <2> QED  BY <1>1, <2>1 DEF Stored
  <1>12. NoStrays'
    <2>1. ASSUME NEW t \in Sheets, NEW p, <<t, p>> \in DOMAIN texts' \ edited'
          PROVE  p \in DOMAIN book'[t].cells /\ book'[t].cells[p].kind # "value"
      <3>1. <<t, p>> \in DOMAIN texts \ edited /\ ~(t = s /\ p \in DOMAIN contents)  BY <1>2, <1>8, <2>1
      <3>2. p \in DOMAIN book[t].cells /\ book[t].cells[p].kind # "value"  BY <1>5, <3>1 DEF NoStrays
      <3> QED  BY <1>10, <3>1, <3>2
    <2> QED  BY <1>1, <2>1 DEF NoStrays
  <1>13. Kept'
    <2>1. ASSUME NEW t \in Sheets, book'[t].sid \notin PartsOnSave'
          PROVE  book'[t].sid \in DOMAIN file' /\ file'[book'[t].sid] = Whole(t)'
      <3>1. /\ book'[t].sid \notin dirtyParts' /\ t \notin extraDirty' /\ ~\E k \in edited' : k[1] = t
        BY <1>1, <1>6, <2>1, PartAfter
      <3>2. book[t].sid \notin PartsOnSave
        BY <1>2, <1>3, <1>4, <1>5, <3>1, PartOf
      <3>3. book[t].sid \in DOMAIN file /\ file[book[t].sid] = Whole(t)  BY <1>5, <3>2 DEF Kept
      <3>4. \A p : ~(t = s /\ p \in DOMAIN contents)
        <4>1. SUFFICES ASSUME NEW p, t = s, p \in DOMAIN contents PROVE FALSE  OBVIOUS
        <4>2. <<t, p>> \in edited' /\ <<t, p>>[1] = t  BY <1>8, <4>1
        <4> QED  BY <3>1, <4>2
      <3>5. DOMAIN book'[t].cells = DOMAIN book[t].cells  BY <1>9, <1>10, <3>4
      <3>6. ASSUME NEW p \in DOMAIN book[t].cells
            PROVE  Printed(book', t, book'[t].cells[p]) = Printed(book, t, book[t].cells[p])
        <4>1. book[t].cells[p] \in Contents  BY SheetFields
        <4>2. book'[t].cells[p] = book[t].cells[p]  BY <1>10, <3>4
        <4> QED  BY <1>7, <4>1, <4>2
      <3>7. Whole(t)' = Whole(t)  BY <3>5, <3>6 DEF Whole
      <3> QED  BY <1>2, <1>4, <3>3, <3>7
    <2> QED  BY <1>1, <2>1 DEF Kept
  <1> QED  BY <1>6, <1>11, <1>12, <1>13 DEF SaveInv

(* Inserting and deleting rows and columns. *)
LEMMA EditKeepsSave ==
    ASSUME TypeOK, SaveInv, NEW s, NEW axis \in Axes, NEW e \in EditsOn(axis), StructuralEdit(s, e)
    PROVE  SaveInv'
  <1>1. /\ s \in Sheets /\ Sheets' = Sheets /\ DOMAIN book' = Sheets
    BY EditIs
  <1>2. /\ ~Blocked(s) /\ texts' = Only(texts, {k \in DOMAIN texts : k[1] # s})
        /\ edited' = {k \in edited : k[1] # s} \cup Reprinted(book', s)
        /\ extraDirty' = extraDirty \cup {s} /\ dirtyParts' = dirtyParts /\ file' = file
    BY DEF StructuralEdit
  <1>3. TypeOK'  BY EditKeepsType
  <1>4. \A t \in Sheets \ {s} :
           /\ book'[t].name = book[t].name /\ book'[t].sid = book[t].sid
           /\ book'[t].cells = [p \in DOMAIN book[t].cells |-> Rewritten(book[t].cells[p], s, e)]
    <2> TAKE t \in Sheets \ {s}
    <2> DEFINE C == [p \in DOMAIN book[t].cells |-> Rewritten(book[t].cells[p], s, e)]
    <2>1. book'[t] \in Exactly(book[t].name, book[t].sid, book[t].rows, book[t].cols, C, book[t].home, book[t].merges)
      BY EditIs
    <2> HIDE DEF C
    <2>2. book'[t].name = book[t].name /\ book'[t].sid = book[t].sid /\ book'[t].cells = C
      BY <2>1, ExactlyIs
    <2> QED  BY <2>2 DEF C
  <1>5. /\ book'[s].name = book[s].name /\ book'[s].sid = book[s].sid
        /\ book'[s].cells = [p \in KeptAfter(book[s], e) |-> Rewritten(book[s].cells[CameAt(book[s], e, p)], s, e)]
    <2> DEFINE C == [p \in KeptAfter(book[s], e) |-> Rewritten(book[s].cells[CameAt(book[s], e, p)], s, e)]
    <2>1. book'[s] \in Exactly(book[s].name, book[s].sid, RowsAfter(book[s], e), ColsAfter(book[s], e), C,
                               HomeAfter(book[s], e), MergesAfter(book[s], e))
      BY EditIs
    <2> HIDE DEF C
    <2>2. book'[s].name = book[s].name /\ book'[s].sid = book[s].sid /\ book'[s].cells = C
      BY <2>1, ExactlyIs
    <2> QED  BY <2>2 DEF C
  <1>6. \A t \in Sheets : book'[t].name = book[t].name /\ book'[t].sid = book[t].sid  BY <1>4, <1>5
  <1>7. Distinct /\ Stored /\ NoStrays /\ Kept  BY DEF SaveInv
  <1>8. Distinct'  BY <1>1, <1>6, <1>7 DEF Distinct
  <1>9. \A t \in Sheets : \A c \in Contents : Printed(book', t, c) = Printed(book, t, c)
    BY <1>1, <1>6, <1>7, PrintsAsBefore
  (* No cell of the sheet is a formula left unread. *)
  <1>10. ASSUME NEW q \in DOMAIN book[s].cells  PROVE book[s].cells[q].kind # "verbatim"
    <2>1. SUFFICES ASSUME book[s].cells[q].kind = "verbatim" PROVE FALSE  OBVIOUS
    <2>2. StoredCell(s, q)  BY <1>1, <1>7 DEF Stored
    <2>3. <<s, q>> \in DOMAIN texts  BY <2>1, <2>2 DEF StoredCell
    <2>4. <<s, q>> \notin Formulas(book)  BY <2>1, FormulaAt DEF Parsed
    <2>5. <<s, q>>[1] = s  OBVIOUS
    <2>6. Blocked(s)  BY <2>3, <2>4, <2>5 DEF Blocked
    <2> QED  BY <1>2, <2>6
  <1>11. \A t \in Sheets : \A p \in DOMAIN book[t].cells : book[t].cells[p] \in Contents  BY SheetFields
  <1>12. \A c \in Contents : /\ Rewritten(c, s, e) \in Contents
                             /\ Parsed(Rewritten(c, s, e)) <=> Parsed(c)
                             /\ ~Parsed(c) => Rewritten(c, s, e) = c
    BY <1>1, RewrittenIs
  <1>13. \A c \in Contents : /\ c.kind \in {"value", "ref", "broken", "verbatim"}
                             /\ Parsed(c) <=> c.kind \in {"ref", "broken"}
    BY ContentKinds
  <1>14. \A t, p : <<t, p>> \in Formulas(book') <=>
                      t \in Sheets /\ p \in DOMAIN book'[t].cells /\ Parsed(book'[t].cells[p])
    <2>1. SUFFICES ASSUME NEW t, NEW p
                   PROVE  <<t, p>> \in Formulas(book') <=>
                             t \in Sheets /\ p \in DOMAIN book'[t].cells /\ Parsed(book'[t].cells[p])
      OBVIOUS
    <2>2. <<t, p>> \in Formulas(book') <=>
             t \in DOMAIN book' /\ p \in DOMAIN book'[t].cells /\ Parsed(book'[t].cells[p])
      BY FormulaAt
    <2> QED  BY <1>1, <2>2, Zenon
  <1>15. \A t \in Sheets \ {s} : \A p : <<t, p>> \in Reprinted(book', s) <=>
            /\ <<t, p>> \in Formulas(book')
            /\ <<t, p>> \in DOMAIN texts => texts[<<t, p>>] # Printed(book', t, book'[t].cells[p])
    <2>1. SUFFICES ASSUME NEW t \in Sheets \ {s}, NEW p
                   PROVE  <<t, p>> \in Reprinted(book', s) <=>
                             /\ <<t, p>> \in Formulas(book')
                             /\ <<t, p>> \in DOMAIN texts =>
                                   texts[<<t, p>>] # Printed(book', t, book'[t].cells[p])
      OBVIOUS
    <2>2. <<t, p>>[1] = t /\ <<t, p>>[2] = p /\ t # s  OBVIOUS
    <2> QED  BY <2>2 DEF Reprinted, PrintedAt
  <1>16. \A p : <<s, p>> \in Reprinted(book', s) <=> <<s, p>> \in Formulas(book')
    BY DEF Reprinted
  <1>17. \A t, p : <<t, p>> \in edited' <=> (t # s /\ <<t, p>> \in edited) \/ <<t, p>> \in Reprinted(book', s)
    BY <1>2
  <1>18. \A t, p : /\ <<t, p>> \in DOMAIN texts' <=> <<t, p>> \in DOMAIN texts /\ t # s
                   /\ <<t, p>> \in DOMAIN texts' => texts'[<<t, p>>] = texts[<<t, p>>]
    BY <1>2 DEF Only
  <1>19. Stored'
    <2>1. ASSUME NEW p \in DOMAIN book'[s].cells  PROVE StoredCell(s, p)'
      <3> DEFINE q == CameAt(book[s], e, p)
      <3>1. p \in KeptAfter(book[s], e) /\ book'[s].cells[p] = Rewritten(book[s].cells[q], s, e)
        BY <1>5, <2>1
      <3>2. q \in DOMAIN book[s].cells
        <4>1. DOMAIN book[s].cells \subseteq Grid  BY <1>1, SheetFields
        <4> QED  BY <3>1, <4>1, CameIs
      <3> HIDE DEF q
      <3>3. book[s].cells[q] \in Contents /\ book[s].cells[q].kind # "verbatim"  BY <1>1, <1>10, <1>11, <3>2
      <3>4. book'[s].cells[p].kind # "verbatim"
        BY <1>12, <1>13, <3>1, <3>3
      <3>5. book'[s].cells[p].kind # "value" => <<s, p>> \in edited'
        <4>1. SUFFICES ASSUME book'[s].cells[p].kind # "value" PROVE <<s, p>> \in edited'  OBVIOUS
        <4>2. book'[s].cells[p] \in Contents  BY <1>12, <3>1, <3>3
        <4>3. Parsed(book'[s].cells[p])  BY <1>13, <3>4, <4>1, <4>2
        <4> QED  BY <1>1, <1>14, <1>16, <1>17, <2>1, <4>3
      <3> QED  BY <3>4, <3>5 DEF StoredCell
    <2>2. ASSUME NEW t \in Sheets \ {s}, NEW p \in DOMAIN book'[t].cells  PROVE StoredCell(t, p)'
      <3> DEFINE c == book[t].cells[p]
                 d == book'[t].cells[p]
      <3>1. p \in DOMAIN book[t].cells /\ d = Rewritten(c, s, e)  BY <1>4, <2>2
      <3>2. c \in Contents /\ StoredCell(t, p)  BY <1>7, <1>11, <3>1 DEF Stored
      <3>3. d \in Contents  BY <1>12, <3>1, <3>2
      <3>4. Printed(book', t, d) = Printed(book, t, d)  BY <1>9, <3>3
      <3>5. CASE Parsed(d)
        <4>1. <<t, p>> \in Formulas(book')  BY <1>14, <2>2, <3>5
        <4>2. d.kind # "verbatim"  BY <1>13, <3>3, <3>5
        <4>3. CASE <<t, p>> \in edited'  BY <4>2, <4>3 DEF StoredCell
        <4>4. CASE <<t, p>> \notin edited'
          <5>1. <<t, p>> \notin Reprinted(book', s)  BY <1>17, <4>4
          <5>2. <<t, p>> \in DOMAIN texts /\ texts[<<t, p>>] = Printed(book', t, d)  BY <1>15, <2>2, <4>1, <5>1
          <5>3. <<t, p>> \in DOMAIN texts' /\ texts'[<<t, p>>] = Printed(book', t, d)  BY <1>18, <2>2, <5>2
          <5> QED  BY <4>4, <5>3 DEF StoredCell
        <4> QED  BY <4>3, <4>4
      <3>6. CASE ~Parsed(d)
        <4>1. d = c  BY <1>12, <3>1, <3>2, <3>6
        <4>2. <<t, p>> \notin Reprinted(book', s)  BY <1>14, <1>15, <2>2, <3>6
        <4>3. <<t, p>> \in edited' <=> <<t, p>> \in edited  BY <1>17, <2>2, <4>2
        <4>4. StoredCell(t, p)  BY <3>2
        <4>5. IF <<t, p>> \in edited THEN c.kind # "verbatim"
              ELSE c.kind # "value" => <<t, p>> \in DOMAIN texts /\ texts[<<t, p>>] = Printed(book, t, c)
          BY <4>4 DEF StoredCell
        <4>6. IF <<t, p>> \in edited' THEN d.kind # "verbatim"
              ELSE d.kind # "value" => <<t, p>> \in DOMAIN texts' /\ texts'[<<t, p>>] = Printed(book', t, d)
          BY <1>18, <2>2, <3>4, <4>1, <4>3, <4>5
        <4> QED  BY <4>6 DEF StoredCell
      <3> QED  BY <3>5, <3>6
    <2> QED  BY <1>1, <2>1, <2>2 DEF Stored
  <1>20. NoStrays'
    <2>1. ASSUME NEW t \in Sheets, NEW p, <<t, p>> \in DOMAIN texts' \ edited'
          PROVE  p \in DOMAIN book'[t].cells /\ book'[t].cells[p].kind # "value"
      <3>1. <<t, p>> \in DOMAIN texts \ edited /\ t # s  BY <1>17, <1>18, <2>1
      <3>2. p \in DOMAIN book[t].cells /\ book[t].cells[p].kind # "value"  BY <1>7, <3>1 DEF NoStrays
      <3>3. p \in DOMAIN book'[t].cells /\ book'[t].cells[p] = Rewritten(book[t].cells[p], s, e)
        BY <1>4, <3>1, <3>2
      <3>4. book[t].cells[p] \in Contents  BY <1>11, <3>2
      <3>5. book'[t].cells[p].kind # "value"  BY <1>12, <1>13, <3>2, <3>3, <3>4
      <3> QED  BY <3>3, <3>5
    <2> QED  BY <1>1, <2>1 DEF NoStrays
  <1>21. Kept'
    <2>1. ASSUME NEW t \in Sheets, book'[t].sid \notin PartsOnSave'
          PROVE  book'[t].sid \in DOMAIN file' /\ file'[book'[t].sid] = Whole(t)'
      <3>1. /\ book'[t].sid \notin dirtyParts' /\ t \notin extraDirty' /\ ~\E k \in edited' : k[1] = t
        BY <1>1, <1>3, <1>8, <2>1, PartAfter
      <3>2. t # s  BY <1>2, <3>1
      <3>3. book[t].sid \notin PartsOnSave
        <4>1. ~\E k \in edited : k[1] = t  BY <1>2, <3>1, <3>2
        <4>2. book[t].sid \notin dirtyParts /\ t \notin extraDirty  BY <1>2, <1>6, <3>1
        <4> QED  BY <1>7, <4>1, <4>2, PartOf
      <3>4. book[t].sid \in DOMAIN file /\ file[book[t].sid] = Whole(t)  BY <1>7, <3>3 DEF Kept
      <3>5. DOMAIN book'[t].cells = DOMAIN book[t].cells  BY <1>4, <3>2
      <3>6. ASSUME NEW p \in DOMAIN book[t].cells
            PROVE  Printed(book', t, book'[t].cells[p]) = Printed(book, t, book[t].cells[p])
        <4> DEFINE c == book[t].cells[p]
                   d == book'[t].cells[p]
        <4>1. d = Rewritten(c, s, e) /\ c \in Contents
          <5>1. t \in Sheets \ {s}  BY <3>2
          <5>2. book'[t].cells = [r \in DOMAIN book[t].cells |-> Rewritten(book[t].cells[r], s, e)]
            BY <1>4, <5>1
          <5> QED  BY <1>11, <5>2
        <4>2. <<t, p>>[1] = t  OBVIOUS
        <4>3. <<t, p>> \notin edited /\ <<t, p>> \notin edited'  BY <1>2, <3>1, <3>2, <4>2
        <4>4. CASE ~Parsed(c)  BY <1>9, <1>12, <4>1, <4>4
        <4>5. CASE Parsed(c)
          <5>1. <<t, p>> \in Formulas(book')  BY <1>12, <1>14, <3>5, <4>1, <4>5
          <5>2. <<t, p>> \notin Reprinted(book', s)  BY <1>17, <4>3
          <5>3. texts[<<t, p>>] = Printed(book', t, d)  BY <1>15, <3>2, <5>1, <5>2
          <5>4. c.kind # "value"  BY <1>13, <4>1, <4>5
          <5>5. StoredCell(t, p)  BY <1>7 DEF Stored
          <5>6. texts[<<t, p>>] = Printed(book, t, c)  BY <4>3, <5>4, <5>5 DEF StoredCell
          <5> QED  BY <5>3, <5>6
        <4> QED  BY <4>4, <4>5
      <3>7. Whole(t)' = Whole(t)  BY <3>5, <3>6 DEF Whole
      <3> QED  BY <1>2, <1>6, <3>4, <3>7
    <2> QED  BY <1>1, <2>1 DEF Kept
  <1> QED  BY <1>8, <1>19, <1>20, <1>21 DEF SaveInv

(* Renaming a sheet: a content prints as it did, with the new name for the old. *)
LEMMA PrintsRenamed ==
    ASSUME TypeOK, Distinct, NEW s, NEW name, RenameSheet(s, name), NEW t \in Sheets, NEW c \in Contents
    PROVE  /\ c.kind = "value" => Printed(book', t, c) = Printed(book, t, c)
           /\ c.kind # "value" /\ Printed(book, t, c).names # book[s].name =>
                 Printed(book', t, c) = Printed(book, t, c)
           /\ c.kind = "verbatim" =>
                 Printed(book', t, c) = Renaming(Printed(book, t, c), book[s].name, name)
  <1>1. /\ s \in Sheets /\ DOMAIN book' = Sheets /\ DOMAIN book = Sheets
        /\ \A u \in Sheets \ {s} : book'[u] = book[u]
        /\ book'[s].name = name /\ book'[s].sid = book[s].sid
    BY RenameIs, ExactlyIs DEF Sheets
  <1>2. book[s].name # NoName /\ book[s].name # "#REF"  BY <1>1, NamesApart
  <1>3. /\ \A u, v \in Sheets : u # v => book[u].sid # book[v].sid /\ book[u].name # book[v].name
        /\ \A u, v \in Sheets : u # v => book'[u].sid # book'[v].sid
    BY <1>1 DEF Distinct
  <1>4. CASE c.kind = "value"  BY <1>4, PrintedIs
  <1>5. CASE c.kind = "broken"  BY <1>5, PrintedIs
  <1>6. CASE c.kind = "ref"
    <2>1. c.sheet \in Sheets  BY <1>6, ContentKinds
    <2>2. CASE c.sheet = t  BY <1>6, <2>2, PrintedIs
    <2>3. CASE c.sheet # t
      <3>1. Printed(book, t, c) = ReadText(c.area, book[c.sheet].name)  BY <1>6, <2>3, PrintedIs
      <3>2. Printed(book', t, c) = ReadText(c.area, book'[c.sheet].name)  BY <1>6, <2>3, PrintedIs
      <3>3. Printed(book, t, c).names = book[c.sheet].name  BY <3>1, TextNames
      <3>4. c.sheet # s => book'[c.sheet].name = book[c.sheet].name  BY <1>1, <2>1
      <3> QED  BY <1>6, <3>1, <3>2, <3>3, <3>4
    <2> QED  BY <2>2, <2>3
  <1>7. CASE c.kind = "verbatim"
    <2>1. Printed(book, t, c) = UnreadText(NameOf(book, c.sid))  BY <1>7, PrintedIs
    <2>2. Printed(book', t, c) = UnreadText(NameOf(book', c.sid))  BY <1>7, PrintedIs
    <2>3. Printed(book, t, c).names = NameOf(book, c.sid)  BY <2>1, TextNames
    <2>4. NameOf(book', c.sid) = IF NameOf(book, c.sid) = book[s].name THEN name ELSE NameOf(book, c.sid)
      <3>1. CASE \E u \in Sheets : book[u].sid = c.sid
        <4>1. PICK u \in Sheets : book[u].sid = c.sid  BY <3>1
        <4>2. book'[u].sid = c.sid  BY <1>1, <4>1
        <4>3. NameOf(book, c.sid) = book[u].name  BY <1>1, <1>3, <4>1, NameOfIs
        <4>4. NameOf(book', c.sid) = book'[u].name  BY <1>1, <1>3, <4>2, NameOfIs
        <4> QED  BY <1>1, <1>3, <4>3, <4>4
      <3>2. CASE ~\E u \in Sheets : book[u].sid = c.sid
        <4>1. NameOf(book, c.sid) = "#REF"  BY <1>1, <1>3, <3>2, NameOfIs
        <4>2. \A u \in Sheets : book'[u].sid # c.sid  BY <1>1, <3>2
        <4>3. NameOf(book', c.sid) = "#REF"  BY <1>1, <1>3, <4>2, NameOfIs
        <4> QED  BY <1>2, <4>1, <4>3
      <3> QED  BY <3>1, <3>2
    <2>5. Renaming(Printed(book, t, c), book[s].name, name) = Printed(book', t, c)
      BY <2>1, <2>2, <2>4, TextNames
    <2> QED  BY <1>7, <2>1, <2>2, <2>3, <2>4, <2>5
  <1> QED  BY <1>4, <1>5, <1>6, <1>7, ContentKinds

LEMMA RenameKeepsSave ==
    ASSUME TypeOK, SaveInv, NEW s, NEW name \in SheetNames, RenameSheet(s, name)
    PROVE  SaveInv'
  <1> DEFINE old == book[s].name
  <1>1. /\ s \in Sheets /\ Sheets' = Sheets /\ DOMAIN book' = Sheets
        /\ \A t \in Sheets \ {s} : book'[t] = book[t]
        /\ book'[s].name = name /\ book'[s].sid = book[s].sid /\ book'[s].cells = book[s].cells
    BY RenameIs, ExactlyIs
  <1>2. /\ \A t \in Sheets : book[t].name # name
        /\ texts' = Retexted(book, texts, old, name)
        /\ edited' = edited \cup Touched(book, texts, old)
        /\ extraDirty' = extraDirty \cup {k[1] : k \in TouchedUnread(book, texts, old)}
        /\ dirtyParts' = dirtyParts /\ file' = file
    BY DEF RenameSheet
  <1>3. TypeOK'  BY RenameKeepsType
  <1>4. Distinct /\ Stored /\ NoStrays /\ Kept  BY DEF SaveInv
  <1>5. \A t \in Sheets : book'[t].sid = book[t].sid /\ book'[t].cells = book[t].cells  BY <1>1
  <1>6. Distinct'  BY <1>1, <1>2, <1>4, <1>5 DEF Distinct
  <1>7. ASSUME NEW t \in Sheets, NEW p \in DOMAIN book[t].cells
        PROVE  LET c == book[t].cells[p]
                   k == <<t, p>>
               IN  /\ k \in edited' <=> k \in edited \/ (k \in DOMAIN texts /\ texts[k].names = old /\ Parsed(c))
                   /\ k \in DOMAIN texts' <=> k \in DOMAIN texts
                   /\ k \in DOMAIN texts => texts'[k] = IF Parsed(c) THEN texts[k] ELSE Renaming(texts[k], old, name)
    <2> DEFINE k == <<t, p>>
    <2>1. k \in Formulas(book) <=> Parsed(book[t].cells[p])  BY FormulaAt DEF Sheets
    <2> HIDE DEF k, old
    <2> QED  BY <1>2, <2>1 DEF Touched, Retexted, k
  <1>8. ASSUME NEW t \in Sheets, NEW p \in DOMAIN book[t].cells
        PROVE  /\ book[t].cells[p] \in Contents /\ StoredCell(t, p)
               /\ book[t].cells[p].kind \in {"value", "ref", "broken", "verbatim"}
               /\ Parsed(book[t].cells[p]) <=> book[t].cells[p].kind \in {"ref", "broken"}
    <2>1. book[t].cells[p] \in Contents  BY SheetFields
    <2> QED  BY <1>4, <2>1, ContentKinds DEF Stored
  <1> HIDE DEF old
  <1>9. Stored'
    <2>1. ASSUME NEW t \in Sheets, NEW p \in DOMAIN book'[t].cells  PROVE StoredCell(t, p)'
      <3> DEFINE c == book[t].cells[p]
                 k == <<t, p>>
      <3>1. p \in DOMAIN book[t].cells /\ book'[t].cells[p] = c  BY <1>5, <2>1
      <3>2. /\ c \in Contents /\ c.kind \in {"value", "ref", "broken", "verbatim"}
            /\ Parsed(c) <=> c.kind \in {"ref", "broken"}
            /\ IF k \in edited THEN c.kind # "verbatim"
               ELSE c.kind # "value" => k \in DOMAIN texts /\ texts[k] = Printed(book, t, c)
        BY <1>8, <3>1 DEF StoredCell
      <3>3. /\ k \in edited' <=> k \in edited \/ (k \in DOMAIN texts /\ texts[k].names = old /\ Parsed(c))
            /\ k \in DOMAIN texts' <=> k \in DOMAIN texts
            /\ k \in DOMAIN texts => texts'[k] = IF Parsed(c) THEN texts[k] ELSE Renaming(texts[k], old, name)
        BY <1>7, <3>1
      <3>4. /\ c.kind # "value" /\ Printed(book, t, c).names # old => Printed(book', t, c) = Printed(book, t, c)
            /\ c.kind = "verbatim" => Printed(book', t, c) = Renaming(Printed(book, t, c), old, name)
        BY <1>4, <3>2, PrintsRenamed DEF old
      <3> HIDE DEF c, k
      <3>5. IF k \in edited' THEN c.kind # "verbatim"
            ELSE c.kind # "value" => k \in DOMAIN texts' /\ texts'[k] = Printed(book', t, c)
        <4>1. CASE k \in edited'  BY <3>2, <3>3, <4>1
        <4>2. CASE k \notin edited' /\ c.kind # "value"
          <5>1. k \notin edited /\ k \in DOMAIN texts /\ texts[k] = Printed(book, t, c)  BY <3>2, <3>3, <4>2
          <5>2. CASE c.kind = "verbatim"
            <6>1. ~Parsed(c)  BY <3>2, <5>2
            <6> QED  BY <3>3, <3>4, <4>2, <5>1, <5>2, <6>1
          <5>3. CASE c.kind # "verbatim"
            <6>1. Parsed(c)  BY <3>2, <4>2, <5>3
            <6> QED  BY <3>3, <3>4, <4>2, <5>1, <6>1
          <5> QED  BY <5>2, <5>3
        <4>3. CASE k \notin edited' /\ c.kind = "value"  BY <4>3
        <4> QED  BY <4>1, <4>2, <4>3
      <3> QED  BY <3>1, <3>5 DEF StoredCell, c, k
    <2> QED  BY <1>1, <2>1 DEF Stored
  <1>10. NoStrays'
    <2>1. ASSUME NEW t \in Sheets, NEW p, <<t, p>> \in DOMAIN texts' \ edited'
          PROVE  p \in DOMAIN book'[t].cells /\ book'[t].cells[p].kind # "value"
      <3>1. <<t, p>> \in DOMAIN texts \ edited  BY <1>2, <2>1 DEF Retexted
      <3> QED  BY <1>4, <1>5, <3>1 DEF NoStrays
    <2> QED  BY <1>1, <2>1 DEF NoStrays
  <1>11. Kept'
    <2>1. ASSUME NEW t \in Sheets, book'[t].sid \notin PartsOnSave'
          PROVE  book'[t].sid \in DOMAIN file' /\ file'[book'[t].sid] = Whole(t)'
      <3>1. /\ book'[t].sid \notin dirtyParts' /\ t \notin extraDirty' /\ ~\E k \in edited' : k[1] = t
        BY <1>1, <1>3, <1>6, <2>1, PartAfter
      <3>2. book[t].sid \notin PartsOnSave  BY <1>2, <1>4, <1>5, <3>1, PartOf
      <3>3. book[t].sid \in DOMAIN file /\ file[book[t].sid] = Whole(t)  BY <1>4, <3>2 DEF Kept
      <3>4. ASSUME NEW p \in DOMAIN book[t].cells
            PROVE  Printed(book', t, book[t].cells[p]) = Printed(book, t, book[t].cells[p])
        <4> DEFINE c == book[t].cells[p]
                   k == <<t, p>>
        <4>1. k[1] = t /\ k \notin edited' /\ k \notin edited
          BY <1>2, <3>1
        <4>2. k \in TouchedUnread(book, texts, old) => t \in extraDirty'  BY <1>2, <4>1
        <4>3. /\ c \in Contents
              /\ c.kind # "value" => k \in DOMAIN texts /\ texts[k] = Printed(book, t, c)
          BY <1>8, <4>1 DEF StoredCell
        <4>4. k \in DOMAIN texts => texts[k].names # old
          BY <1>2, <3>1, <4>1, <4>2 DEF Touched, TouchedUnread
        <4>5. /\ c.kind = "value" => Printed(book', t, c) = Printed(book, t, c)
              /\ c.kind # "value" /\ Printed(book, t, c).names # old => Printed(book', t, c) = Printed(book, t, c)
          BY <1>4, <4>3, PrintsRenamed DEF old
        <4> HIDE DEF c, k
        <4>6. Printed(book', t, c) = Printed(book, t, c)  BY <4>3, <4>4, <4>5
        <4> QED  BY <4>6 DEF c
      <3>5. Whole(t)' = Whole(t)  BY <1>5, <3>4 DEF Whole
      <3> QED  BY <1>2, <1>5, <3>3, <3>5
    <2> QED  BY <1>1, <2>1 DEF Kept
  <1> QED  BY <1>6, <1>9, <1>10, <1>11 DEF SaveInv

(* Deleting a sheet: what was remembered of the others moves up with them. *)
LEMMA UpKeysAre ==
    ASSUME TypeOK, NEW gone, DeleteSheet(gone), NEW keys \in SUBSET (Sheets \X Grid), NEW t \in Sheets', NEW p
    PROVE  <<t, p>> \in UpKeys(keys, gone) <=> <<Down(t, gone), p>> \in keys
  <1>1. /\ \A u \in Sheets' : Down(u, gone) \in Sheets \ {gone} /\ Up(Down(u, gone), gone) = u
        /\ \A u \in Sheets \ {gone} : Up(u, gone) \in Sheets' /\ Down(Up(u, gone), gone) = u
    BY DeleteIs
  <1>2. ASSUME <<t, p>> \in UpKeys(keys, gone)  PROVE <<Down(t, gone), p>> \in keys
    <2>1. PICK k \in keys : k[1] # gone /\ <<Up(k[1], gone), k[2]>> = <<t, p>>  BY <1>2 DEF UpKeys
    <2>2. k = <<k[1], k[2]>> /\ k[1] \in Sheets  OBVIOUS
    <2>3. Up(k[1], gone) = t /\ k[2] = p  BY <2>1
    <2>4. k[1] = Down(t, gone)  BY <1>1, <2>1, <2>2, <2>3
    <2> QED  BY <2>2, <2>3, <2>4
  <1>3. ASSUME <<Down(t, gone), p>> \in keys  PROVE <<t, p>> \in UpKeys(keys, gone)
    <2> DEFINE k == <<Down(t, gone), p>>
    <2>1. k[1] = Down(t, gone) /\ k[2] = p  OBVIOUS
    <2>2. k[1] # gone /\ Up(k[1], gone) = t  BY <1>1, <2>1
    <2>3. <<Up(k[1], gone), k[2]>> \in UpKeys(keys, gone)  BY <1>3, <2>2 DEF UpKeys
    <2> QED  BY <2>1, <2>2, <2>3
  <1> QED  BY <1>2, <1>3

(* The rest prints as it did, with "#REF" for the name of the sheet. *)
LEMMA PrintsDropped ==
    ASSUME TypeOK, Distinct, NEW gone, DeleteSheet(gone), NEW t \in Sheets', NEW c \in Contents,
           ~(c.kind = "ref" /\ c.sheet = gone)
    PROVE  LET d == Down(t, gone)
               c2 == Dropped(c, gone)
           IN  /\ c.kind = "value" => Printed(book', t, c2) = Printed(book, d, c)
               /\ c.kind # "value" /\ Printed(book, d, c).names # book[gone].name =>
                     Printed(book', t, c2) = Printed(book, d, c)
               /\ c.kind = "verbatim" =>
                     Printed(book', t, c2) = Renaming(Printed(book, d, c), book[gone].name, "#REF")
  <1> DEFINE d == Down(t, gone)
             c2 == Dropped(c, gone)
  <1>1. /\ gone \in Sheets /\ DOMAIN book' = Sheets' /\ DOMAIN book = Sheets
        /\ Sheets' = 1 .. Len(book) - 1 /\ fresh' = fresh
        /\ \A u \in Sheets' : Down(u, gone) \in Sheets \ {gone} /\ Up(Down(u, gone), gone) = u
        /\ \A u \in Sheets \ {gone} : Up(u, gone) \in Sheets' /\ Down(Up(u, gone), gone) = u
    BY DeleteIs DEF Sheets
  <1>2. \A u \in Sheets' : book'[u].name = book[Down(u, gone)].name /\ book'[u].sid = book[Down(u, gone)].sid
    <2> TAKE u \in Sheets'
    <2> DEFINE sh == book[Down(u, gone)]
               C == [p \in DOMAIN sh.cells |-> Dropped(sh.cells[p], gone)]
    <2>1. book'[u] \in Exactly(sh.name, sh.sid, sh.rows, sh.cols, C, sh.home, sh.merges)  BY DeleteIs
    <2> HIDE DEF C
    <2> QED  BY <2>1, ExactlyIs
  <1>3. book[gone].name # NoName /\ book[gone].name # "#REF"  BY <1>1, NamesApart
  <1>4. \A u, v \in Sheets : u # v => book[u].sid # book[v].sid /\ book[u].name # book[v].name
    BY DEF Distinct
  <1>5. \A u, v \in Sheets' : u # v => book'[u].sid # book'[v].sid  BY <1>1, <1>2, <1>4
  <1>6. /\ c.kind # "ref" => c2 = c
        /\ c.kind = "ref" => /\ c2.kind = "ref" /\ c2.sheet = Up(c.sheet, gone) /\ c2.area = c.area
    BY <1>1, DroppedIs
  <1>7. c.kind \in {"value", "ref", "broken", "verbatim"} /\ (c.kind = "ref" => c.sheet \in Sheets)
    BY ContentKinds
  <1> SUFFICES /\ c.kind = "value" => Printed(book', t, c2) = Printed(book, d, c)
               /\ c.kind # "value" /\ Printed(book, d, c).names # book[gone].name =>
                     Printed(book', t, c2) = Printed(book, d, c)
               /\ c.kind = "verbatim" =>
                     Printed(book', t, c2) = Renaming(Printed(book, d, c), book[gone].name, "#REF")
    BY Zenon
  <1> HIDE DEF d, c2
  <1>8. d \in Sheets \ {gone} /\ Up(d, gone) = t  BY <1>1 DEF d
  <1>9. CASE c.kind = "value"  BY <1>6, <1>9, PrintedIs
  <1>10. CASE c.kind = "broken"
    <2>1. Printed(book, d, c) = ReadText(NoBox, NoName)  BY <1>10, PrintedIs
    <2>2. Printed(book', t, c2) = ReadText(NoBox, NoName)  BY <1>6, <1>10, PrintedIs
    <2> QED  BY <1>10, <2>1, <2>2
  <1>11. CASE c.kind = "ref"
    <2>1. c.sheet \in Sheets \ {gone}  BY <1>7, <1>11
    <2>2. CASE c.sheet = d
      <3>1. c2.kind = "ref" /\ c2.sheet = t /\ c2.area = c.area  BY <1>6, <1>8, <1>11, <2>2
      <3>2. Printed(book, d, c) = ReadText(c.area, NoName)  BY <1>11, <2>2, PrintedIs
      <3>3. Printed(book', t, c2) = ReadText(c.area, NoName)  BY <3>1, PrintedIs
      <3> QED  BY <1>11, <3>2, <3>3
    <2>3. CASE c.sheet # d
      <3>1. c2.kind = "ref" /\ c2.sheet = Up(c.sheet, gone) /\ c2.area = c.area  BY <1>6, <1>11
      <3>2. c2.sheet # t /\ c2.sheet \in Sheets' /\ Down(c2.sheet, gone) = c.sheet
        BY <1>1, <2>1, <2>3, <3>1 DEF d
      <3>3. Printed(book, d, c) = ReadText(c.area, book[c.sheet].name)  BY <1>11, <2>3, PrintedIs
      <3>4. Printed(book', t, c2) = ReadText(c2.area, book'[c2.sheet].name)  BY <3>1, <3>2, PrintedIs
      <3>5. book'[c2.sheet].name = book[c.sheet].name  BY <1>2, <3>2
      <3> QED  BY <1>11, <3>1, <3>3, <3>4, <3>5
    <2> QED  BY <2>2, <2>3
  <1>12. CASE c.kind = "verbatim"
    <2>1. Printed(book, d, c) = UnreadText(NameOf(book, c.sid))  BY <1>12, PrintedIs
    <2>2. Printed(book', t, c2) = UnreadText(NameOf(book', c.sid))  BY <1>6, <1>12, PrintedIs
    <2>3. Printed(book, d, c).names = NameOf(book, c.sid)  BY <2>1, TextNames
    <2>4. NameOf(book', c.sid) = IF NameOf(book, c.sid) = book[gone].name THEN "#REF" ELSE NameOf(book, c.sid)
      <3>1. CASE \E u \in Sheets \ {gone} : book[u].sid = c.sid
        <4>1. PICK u \in Sheets \ {gone} : book[u].sid = c.sid  BY <3>1
        <4>2. Up(u, gone) \in Sheets' /\ book'[Up(u, gone)].sid = c.sid /\ book'[Up(u, gone)].name = book[u].name
          BY <1>1, <1>2, <4>1
        <4>3. NameOf(book, c.sid) = book[u].name  BY <1>1, <1>4, <4>1, NameOfIs
        <4>4. NameOf(book', c.sid) = book'[Up(u, gone)].name
          <5>1. \A v \in DOMAIN book' : book'[v].sid = c.sid => NameOf(book', c.sid) = book'[v].name
            BY <1>1, <1>5, NameOfIs
          <5> QED  BY <1>1, <4>2, <5>1
        <4> QED  BY <1>1, <1>4, <4>1, <4>2, <4>3, <4>4
      <3>2. CASE ~\E u \in Sheets \ {gone} : book[u].sid = c.sid
        <4>1. \A u \in Sheets' : book'[u].sid # c.sid  BY <1>1, <1>2, <3>2
        <4>2. NameOf(book', c.sid) = "#REF"  BY <1>1, <1>5, <4>1, NameOfIs
        <4>3. CASE book[gone].sid = c.sid
          <5>1. NameOf(book, c.sid) = book[gone].name  BY <1>1, <1>4, <4>3, NameOfIs
          <5> QED  BY <4>2, <5>1
        <4>4. CASE book[gone].sid # c.sid
          <5>1. NameOf(book, c.sid) = "#REF"  BY <1>1, <1>4, <3>2, <4>4, NameOfIs
          <5> QED  BY <1>3, <4>2, <5>1
        <4> QED  BY <4>3, <4>4
      <3> QED  BY <3>1, <3>2
    <2>5. Renaming(Printed(book, d, c), book[gone].name, "#REF") = Printed(book', t, c2)
      BY <2>1, <2>2, <2>4, TextNames
    <2> QED  BY <1>12, <2>1, <2>2, <2>3, <2>4, <2>5
  <1> QED  BY <1>7, <1>9, <1>10, <1>11, <1>12

(* What a deletion leaves of what was remembered, cell by cell. *)
LEMMA RememberedAfterDelete ==
    ASSUME TypeOK, NEW gone, DeleteSheet(gone), NEW t \in Sheets', NEW p
    PROVE  LET k == <<t, p>>
               j == <<Down(t, gone), p>>
               old == book[gone].name
               read == k \in Formulas(book')
           IN  /\ k \in DOMAIN texts' <=> j \in DOMAIN texts
               /\ j \in DOMAIN texts => texts'[k] = IF read THEN texts[j] ELSE Renaming(texts[j], old, "#REF")
               /\ k \in edited' <=>
                     \/ j \in edited
                     \/ j \in Formulas(book) /\ book[j[1]].cells[j[2]].kind = "ref" /\ book[j[1]].cells[j[2]].sheet = gone
                     \/ j \in DOMAIN texts /\ texts[j].names = old /\ read
               /\ j \in DOMAIN texts /\ texts[j].names = old /\ ~read => t \in extraDirty'
               /\ Down(t, gone) \in extraDirty => t \in extraDirty'
  <1> DEFINE k == <<t, p>>
             j == <<Down(t, gone), p>>
             old == book[gone].name
             shifted == [i \in UpKeys(DOMAIN texts, gone) |-> texts[<<Down(i[1], gone), i[2]>>]]
             lost == {i \in Formulas(book) : book[i[1]].cells[i[2]].kind = "ref"
                                             /\ book[i[1]].cells[i[2]].sheet = gone}
  <1>1. /\ texts' = Retexted(book', shifted, old, "#REF")
        /\ edited' = UpKeys(edited, gone) \cup UpKeys(lost, gone) \cup Touched(book', shifted, old)
        /\ extraDirty' = {Up(s, gone) : s \in extraDirty \ {gone}}
                            \cup {i[1] : i \in TouchedUnread(book', shifted, old)}
    BY DEF DeleteSheet
  <1>2. /\ DOMAIN texts \in SUBSET (Sheets \X Grid) /\ edited \in SUBSET (Sheets \X Grid)
        /\ lost \in SUBSET (Sheets \X Grid)
    BY FormulasOnGrid DEF TypeOK
  <1>3. \A keys \in SUBSET (Sheets \X Grid) : k \in UpKeys(keys, gone) <=> j \in keys
    BY UpKeysAre
  <1>4. k[1] = t /\ k[2] = p  OBVIOUS
  <1>5. DOMAIN shifted = UpKeys(DOMAIN texts, gone)
        /\ (k \in UpKeys(DOMAIN texts, gone) => shifted[k] = texts[j])
    BY <1>4
  <1>6. Down(t, gone) \in Sheets \ {gone} /\ Up(Down(t, gone), gone) = t  BY DeleteIs
  <1> HIDE DEF shifted, lost, k, old
  <1>7. k \in DOMAIN shifted <=> j \in DOMAIN texts  BY <1>2, <1>3, <1>5
  <1>8. j \in DOMAIN texts => shifted[k] = texts[j]  BY <1>2, <1>3, <1>5
  <1> HIDE DEF j
  <1>9. k \in DOMAIN texts' <=> j \in DOMAIN texts  BY <1>1, <1>7 DEF Retexted
  <1>10. j \in DOMAIN texts => texts'[k] = IF k \in Formulas(book') THEN texts[j] ELSE Renaming(texts[j], old, "#REF")
    BY <1>1, <1>7, <1>8 DEF Retexted
  <1>11. k \in Touched(book', shifted, old) <=> j \in DOMAIN texts /\ texts[j].names = old /\ k \in Formulas(book')
    BY <1>7, <1>8 DEF Touched
  <1>12. k \in edited' <=> j \in edited \/ j \in lost \/ k \in Touched(book', shifted, old)
    BY <1>1, <1>2, <1>3
  <1>13. j \in DOMAIN texts /\ texts[j].names = old /\ k \notin Formulas(book') => t \in extraDirty'
    <2>1. SUFFICES ASSUME j \in DOMAIN texts, texts[j].names = old, k \notin Formulas(book')
                   PROVE  k \in TouchedUnread(book', shifted, old)
      BY <1>1, <1>4
    <2> QED  BY <1>7, <1>8, <2>1 DEF TouchedUnread
  <1>14. Down(t, gone) \in extraDirty => t \in extraDirty'
    <2>1. SUFFICES ASSUME Down(t, gone) \in extraDirty PROVE t \in {Up(s, gone) : s \in extraDirty \ {gone}}
      BY <1>1
    <2> QED  BY <1>6, <2>1
  <1>15. j \in lost <=> j \in Formulas(book) /\ book[j[1]].cells[j[2]].kind = "ref" /\ book[j[1]].cells[j[2]].sheet = gone
    BY DEF lost
  <1> QED  BY <1>9, <1>10, <1>11, <1>12, <1>13, <1>14, <1>15, Zenon DEF k, j, old

LEMMA DeleteKeepsSave ==
    ASSUME TypeOK, SaveInv, NEW gone, DeleteSheet(gone)
    PROVE  SaveInv'
  <1> DEFINE old == book[gone].name
  <1>1. /\ gone \in Sheets /\ DOMAIN book' = Sheets' /\ DOMAIN book = Sheets
        /\ Sheets' = 1 .. Len(book) - 1 /\ fresh' = fresh
        /\ \A u \in Sheets' : Down(u, gone) \in Sheets \ {gone} /\ Up(Down(u, gone), gone) = u
        /\ \A u \in Sheets \ {gone} : Up(u, gone) \in Sheets' /\ Down(Up(u, gone), gone) = u
    BY DeleteIs DEF Sheets
  <1>2. \A u \in Sheets' :
           /\ book'[u].name = book[Down(u, gone)].name /\ book'[u].sid = book[Down(u, gone)].sid
           /\ book'[u].cells = [p \in DOMAIN book[Down(u, gone)].cells |->
                                   Dropped(book[Down(u, gone)].cells[p], gone)]
    <2> TAKE u \in Sheets'
    <2> DEFINE sh == book[Down(u, gone)]
               C == [p \in DOMAIN sh.cells |-> Dropped(sh.cells[p], gone)]
    <2>1. book'[u] \in Exactly(sh.name, sh.sid, sh.rows, sh.cols, C, sh.home, sh.merges)  BY DeleteIs
    <2> HIDE DEF C
    <2>2. book'[u].name = sh.name /\ book'[u].sid = sh.sid /\ book'[u].cells = C  BY <2>1, ExactlyIs
    <2> QED  BY <2>2 DEF C
  <1>3. TypeOK' /\ dirtyParts' = dirtyParts /\ file' = file  BY DeleteKeepsType DEF DeleteSheet
  <1>4. Distinct /\ Stored /\ NoStrays /\ Kept  BY DEF SaveInv
  <1>5. Distinct'
    <2>1. ASSUME NEW u \in Sheets', NEW v \in Sheets', u # v
          PROVE  book'[u].name # book'[v].name /\ book'[u].sid # book'[v].sid
      <3>1. Down(u, gone) \in Sheets /\ Down(v, gone) \in Sheets /\ Down(u, gone) # Down(v, gone)
        BY <1>1, <2>1
      <3>2. /\ book[Down(u, gone)].name # book[Down(v, gone)].name
            /\ book[Down(u, gone)].sid # book[Down(v, gone)].sid
        BY <1>4, <3>1 DEF Distinct
      <3> QED  BY <1>2, <3>2
    <2> QED  BY <2>1 DEF Distinct
  <1>6. ASSUME NEW t \in Sheets', NEW p \in DOMAIN book[Down(t, gone)].cells
        PROVE  LET c == book[Down(t, gone)].cells[p]
                   c2 == book'[t].cells[p]
                   k == <<t, p>>
                   j == <<Down(t, gone), p>>
               IN  /\ c2 = Dropped(c, gone) /\ c \in Contents /\ c2 \in Contents'
                   /\ Parsed(c2) <=> Parsed(c)
                   /\ ~Parsed(c) => c2 = c
                   /\ c.kind \in {"value", "ref", "broken", "verbatim"} /\ (Parsed(c) <=> c.kind \in {"ref", "broken"})
                   /\ c2.kind \in {"value", "ref", "broken", "verbatim"} /\ (Parsed(c2) <=> c2.kind \in {"ref", "broken"})
                   /\ IF j \in edited THEN c.kind # "verbatim"
                      ELSE c.kind # "value" => j \in DOMAIN texts /\ texts[j] = Printed(book, Down(t, gone), c)
                   /\ k \in Formulas(book') <=> Parsed(c)
                   /\ j \in Formulas(book) <=> Parsed(c)
    <2> DEFINE d == Down(t, gone)
               c == book[d].cells[p]
               c2 == book'[t].cells[p]
    <2>1. d \in Sheets \ {gone}  BY <1>1
    <2>2. c \in Contents  BY <1>6, <2>1, SheetFields
    <2>3. c2 = Dropped(c, gone) /\ p \in DOMAIN book'[t].cells  BY <1>2, <1>6
    <2>4. /\ c2 \in Contents' /\ (Parsed(c2) <=> Parsed(c)) /\ (~Parsed(c) => c2 = c)
      <3>1. ~Parsed(c) => c.kind # "ref"  BY DEF Parsed
      <3> QED  BY <1>1, <2>2, <2>3, <3>1, DroppedIs
    <2>5. /\ c.kind \in {"value", "ref", "broken", "verbatim"}
          /\ Parsed(c) <=> c.kind \in {"ref", "broken"}
      BY <2>2, ContentKinds
    <2>6. /\ c2.kind \in {"value", "ref", "broken", "verbatim"}
          /\ Parsed(c2) <=> c2.kind \in {"ref", "broken"}
      BY <2>4 DEF Contents, Parsed
    <2>7. StoredCell(d, p)  BY <1>4, <1>6, <2>1 DEF Stored
    <2>8. <<t, p>> \in Formulas(book') <=> Parsed(c2)  BY <1>1, <2>3, FormulaAt
    <2>9. <<d, p>> \in Formulas(book) <=> Parsed(c)  BY <1>1, <1>6, <2>1, FormulaAt
    <2>10. IF <<d, p>> \in edited THEN c.kind # "verbatim"
           ELSE c.kind # "value" => <<d, p>> \in DOMAIN texts /\ texts[<<d, p>>] = Printed(book, d, c)
      BY <2>7 DEF StoredCell
    <2> HIDE DEF c, c2, d
    <2>11. /\ c2 = Dropped(c, gone) /\ c \in Contents /\ c2 \in Contents'
           /\ Parsed(c2) <=> Parsed(c)
           /\ ~Parsed(c) => c2 = c
           /\ c.kind \in {"value", "ref", "broken", "verbatim"} /\ (Parsed(c) <=> c.kind \in {"ref", "broken"})
           /\ c2.kind \in {"value", "ref", "broken", "verbatim"} /\ (Parsed(c2) <=> c2.kind \in {"ref", "broken"})
           /\ IF <<d, p>> \in edited THEN c.kind # "verbatim"
              ELSE c.kind # "value" => <<d, p>> \in DOMAIN texts /\ texts[<<d, p>>] = Printed(book, d, c)
           /\ <<t, p>> \in Formulas(book') <=> Parsed(c)
           /\ <<d, p>> \in Formulas(book) <=> Parsed(c)
      BY <2>2, <2>3, <2>4, <2>5, <2>6, <2>8, <2>9, <2>10, Zenon
    <2> QED  BY <2>11, Zenon DEF c, c2, d
  (* What a cell that was not lost prints. *)
  <1>7. ASSUME NEW t \in Sheets', NEW p \in DOMAIN book[Down(t, gone)].cells,
               ~(book[Down(t, gone)].cells[p].kind = "ref" /\ book[Down(t, gone)].cells[p].sheet = gone)
        PROVE  LET d == Down(t, gone)
                   c == book[d].cells[p]
                   c2 == book'[t].cells[p]
               IN  /\ c.kind = "value" => Printed(book', t, c2) = Printed(book, d, c)
                   /\ c.kind # "value" /\ Printed(book, d, c).names # old => Printed(book', t, c2) = Printed(book, d, c)
                   /\ c.kind = "verbatim" => Printed(book', t, c2) = Renaming(Printed(book, d, c), old, "#REF")
    <2> DEFINE c == book[Down(t, gone)].cells[p]
    <2>1. c \in Contents /\ book'[t].cells[p] = Dropped(c, gone)  BY <1>6
    <2> QED  BY <1>4, <1>7, <2>1, PrintsDropped
  <1>8. ASSUME NEW t \in Sheets', NEW p \in DOMAIN book[Down(t, gone)].cells, <<t, p>> \notin edited'
        PROVE  ~(book[Down(t, gone)].cells[p].kind = "ref" /\ book[Down(t, gone)].cells[p].sheet = gone)
    <2> DEFINE d == Down(t, gone)
               j == <<d, p>>
    <2>1. j[1] = d /\ j[2] = p  OBVIOUS
    <2>2. book[d].cells[p].kind = "ref" => j \in Formulas(book)
      <3>1. j \in Formulas(book) <=> Parsed(book[d].cells[p])  BY <1>6
      <3> QED  BY <3>1 DEF Parsed
    <2>3. j \in Formulas(book) /\ book[j[1]].cells[j[2]].kind = "ref" /\ book[j[1]].cells[j[2]].sheet = gone
             => <<t, p>> \in edited'
      BY RememberedAfterDelete
    <2> HIDE DEF j
    <2> QED  BY <1>8, <2>1, <2>2, <2>3
  <1>9. ASSUME NEW t \in Sheets', NEW p
        PROVE  LET k == <<t, p>>
                   j == <<Down(t, gone), p>>
                   read == k \in Formulas(book')
               IN  /\ k \in DOMAIN texts' <=> j \in DOMAIN texts
                   /\ j \in DOMAIN texts => texts'[k] = IF read THEN texts[j] ELSE Renaming(texts[j], old, "#REF")
                   /\ j \in edited => k \in edited'
                   /\ k \in edited' => j \in edited \/ read \/ j \in Formulas(book)
                   /\ j \in DOMAIN texts /\ texts[j].names = old => IF read THEN k \in edited' ELSE t \in extraDirty'
                   /\ Down(t, gone) \in extraDirty => t \in extraDirty'
    BY RememberedAfterDelete
  <1> HIDE DEF old
  <1>10. Stored'
    <2>1. ASSUME NEW t \in Sheets', NEW p \in DOMAIN book'[t].cells  PROVE StoredCell(t, p)'
      <3> DEFINE d == Down(t, gone)
                 c == book[d].cells[p]
                 c2 == book'[t].cells[p]
                 k == <<t, p>>
                 j == <<d, p>>
      <3>1. p \in DOMAIN book[d].cells  BY <1>2, <2>1
      <3>2. /\ Parsed(c2) <=> Parsed(c)
            /\ ~Parsed(c) => c2 = c
            /\ c.kind \in {"value", "ref", "broken", "verbatim"} /\ (Parsed(c) <=> c.kind \in {"ref", "broken"})
            /\ c2.kind \in {"value", "ref", "broken", "verbatim"} /\ (Parsed(c2) <=> c2.kind \in {"ref", "broken"})
            /\ IF j \in edited THEN c.kind # "verbatim"
               ELSE c.kind # "value" => j \in DOMAIN texts /\ texts[j] = Printed(book, d, c)
            /\ k \in Formulas(book') <=> Parsed(c)
            /\ j \in Formulas(book) <=> Parsed(c)
        BY <1>6, <3>1
      <3>3. /\ k \in DOMAIN texts' <=> j \in DOMAIN texts
            /\ j \in DOMAIN texts => texts'[k] = IF k \in Formulas(book') THEN texts[j] ELSE Renaming(texts[j], old, "#REF")
            /\ j \in edited => k \in edited'
            /\ k \in edited' => j \in edited \/ k \in Formulas(book') \/ j \in Formulas(book)
            /\ j \in DOMAIN texts /\ texts[j].names = old => IF k \in Formulas(book') THEN k \in edited' ELSE t \in extraDirty'
        BY <1>9
      <3>4. k \notin edited' =>
              /\ c.kind # "value" /\ Printed(book, d, c).names # old => Printed(book', t, c2) = Printed(book, d, c)
              /\ c.kind = "verbatim" => Printed(book', t, c2) = Renaming(Printed(book, d, c), old, "#REF")
        <4>1. SUFFICES ASSUME k \notin edited'
                       PROVE  /\ c.kind # "value" /\ Printed(book, d, c).names # old => Printed(book', t, c2) = Printed(book, d, c)
                              /\ c.kind = "verbatim" => Printed(book', t, c2) = Renaming(Printed(book, d, c), old, "#REF")
          BY Zenon
        <4>2. ~(book[d].cells[p].kind = "ref" /\ book[d].cells[p].sheet = gone)  BY <1>8, <3>1, <4>1
        <4> QED  BY <1>7, <3>1, <4>2
      <3>5. k \in edited' => c2.kind # "verbatim"
        <4> HIDE DEF c, c2, k, j, d
        <4> QED  BY <3>2, <3>3
      <3>6. k \notin edited' /\ c2.kind # "value" => k \in DOMAIN texts' /\ texts'[k] = Printed(book', t, c2)
        <4> HIDE DEF c, c2, k, j, d
        <4>1. SUFFICES ASSUME k \notin edited', c2.kind # "value"
                       PROVE  k \in DOMAIN texts' /\ texts'[k] = Printed(book', t, c2)
          OBVIOUS
        <4>2. j \notin edited /\ c.kind # "value"  BY <3>2, <3>3, <4>1
        <4>3. j \in DOMAIN texts /\ texts[j] = Printed(book, d, c)  BY <3>2, <4>2
        <4>4. CASE c.kind = "verbatim"
          <5>1. k \notin Formulas(book')  BY <3>2, <4>4
          <5> QED  BY <3>3, <3>4, <4>1, <4>3, <4>4, <5>1
        <4>5. CASE c.kind # "verbatim"
          <5>1. k \in Formulas(book')  BY <3>2, <4>2, <4>5
          <5>2. texts[j].names # old  BY <3>3, <4>1, <4>3, <5>1
          <5> QED  BY <3>3, <3>4, <4>1, <4>2, <4>3, <5>1, <5>2
        <4> QED  BY <4>4, <4>5
      <3>7. IF k \in edited' THEN c2.kind # "verbatim"
            ELSE c2.kind # "value" => k \in DOMAIN texts' /\ texts'[k] = Printed(book', t, c2)
        BY <3>5, <3>6, Zenon
      <3> QED  BY <3>7, Zenon DEF StoredCell
    <2> QED  BY <2>1, Zenon DEF Stored
  <1>11. NoStrays'
    <2>1. ASSUME NEW t \in Sheets', NEW p, <<t, p>> \in DOMAIN texts' \ edited'
          PROVE  p \in DOMAIN book'[t].cells /\ book'[t].cells[p].kind # "value"
      <3> DEFINE d == Down(t, gone)
      <3>1. <<d, p>> \in DOMAIN texts \ edited  BY <1>9, <2>1
      <3>2. d \in Sheets  BY <1>1
      <3>3. p \in DOMAIN book[d].cells /\ book[d].cells[p].kind # "value"  BY <1>4, <3>1, <3>2 DEF NoStrays
      <3>4. /\ Parsed(book'[t].cells[p]) <=> Parsed(book[d].cells[p])
            /\ ~Parsed(book[d].cells[p]) => book'[t].cells[p] = book[d].cells[p]
            /\ Parsed(book'[t].cells[p]) <=> book'[t].cells[p].kind \in {"ref", "broken"}
        BY <1>6, <3>3
      <3>5. DOMAIN book'[t].cells = DOMAIN book[d].cells  BY <1>2
      <3>6. book'[t].cells[p].kind # "value"
        <4> HIDE DEF d
        <4> QED  BY <3>3, <3>4
      <3> QED  BY <3>3, <3>5, <3>6
    <2> QED  BY <2>1, Zenon DEF NoStrays
  <1>12. Kept'
    <2>1. ASSUME NEW t \in Sheets', book'[t].sid \notin PartsOnSave'
          PROVE  book'[t].sid \in DOMAIN file' /\ file'[book'[t].sid] = Whole(t)'
      <3> DEFINE d == Down(t, gone)
      <3>1. /\ book'[t].sid \notin dirtyParts' /\ t \notin extraDirty' /\ ~\E k \in edited' : k[1] = t
        BY <1>3, <1>5, <2>1, PartAfter
      <3>2. d \in Sheets /\ book'[t].sid = book[d].sid  BY <1>1, <1>2
      <3>3. book[d].sid \notin PartsOnSave
        <4>1. book[d].sid \notin dirtyParts /\ d \notin extraDirty  BY <1>3, <1>9, <3>1, <3>2
        <4>2. ~\E k \in edited : k[1] = d
          <5>1. SUFFICES ASSUME NEW k \in edited, k[1] = d PROVE FALSE  OBVIOUS
          <5>2. k = <<d, k[2]>>  BY <5>1 DEF TypeOK
          <5>3. <<t, k[2]>> \in edited'
            <6>1. <<d, k[2]>> \in edited  BY <5>1, <5>2
            <6> QED  BY <1>9, <6>1
          <5>4. <<t, k[2]>>[1] = t  OBVIOUS
          <5> QED  BY <3>1, <5>3, <5>4
        <4> QED  BY <1>4, <3>2, <4>1, <4>2, PartOf
      <3>4. book[d].sid \in DOMAIN file /\ file[book[d].sid] = Whole(d)  BY <1>4, <3>2, <3>3 DEF Kept
      <3>5. ASSUME NEW p \in DOMAIN book[d].cells
            PROVE  Printed(book', t, book'[t].cells[p]) = Printed(book, d, book[d].cells[p])
        <4> DEFINE c == book[d].cells[p]
                   c2 == book'[t].cells[p]
                   k == <<t, p>>
                   j == <<d, p>>
        <4>1. k \notin edited'
          <5>1. k[1] = t  OBVIOUS
          <5> HIDE DEF k
          <5> QED  BY <3>1, <5>1
        <4>2. /\ j \in edited => k \in edited'
              /\ j \in DOMAIN texts /\ texts[j].names = old => IF k \in Formulas(book') THEN k \in edited' ELSE t \in extraDirty'
          BY <1>9
        <4>3. IF j \in edited THEN c.kind # "verbatim"
              ELSE c.kind # "value" => j \in DOMAIN texts /\ texts[j] = Printed(book, d, c)
          BY <1>6, <3>5
        <4>4. ~(c.kind = "ref" /\ c.sheet = gone)  BY <1>8, <3>5, <4>1
        <4>5. /\ c.kind = "value" => Printed(book', t, c2) = Printed(book, d, c)
              /\ c.kind # "value" /\ Printed(book, d, c).names # old => Printed(book', t, c2) = Printed(book, d, c)
          BY <1>7, <3>5, <4>4
        <4> HIDE DEF c, c2, k, j, d
        <4>6. Printed(book', t, c2) = Printed(book, d, c)  BY <3>1, <4>1, <4>2, <4>3, <4>5
        <4> QED  BY <4>6 DEF c, c2
      <3>6. Whole(t)' = [p \in DOMAIN book'[t].cells |-> Printed(book', t, book'[t].cells[p])]  BY DEF Whole
      <3>7. DOMAIN book'[t].cells = DOMAIN book[d].cells  BY <1>2
      <3>8. Whole(d) = [p \in DOMAIN book[d].cells |-> Printed(book, d, book[d].cells[p])]  BY DEF Whole
      <3>9. Whole(t)' = Whole(d)
        <4> HIDE DEF d
        <4> QED  BY <3>5, <3>6, <3>7, <3>8
      <3> QED  BY <1>3, <3>2, <3>4, <3>9
    <2> QED  BY <2>1, Zenon DEF Kept
  <1> QED  BY <1>5, <1>10, <1>11, <1>12 DEF SaveInv

(* Adding a sheet: the others print as they did. *)
LEMMA PrintsWithAdded ==
    ASSUME TypeOK, Distinct, NEW name \in SheetNames, AddSheet(name), NEW c \in Contents, NEW s \in Sheets
    PROVE  Printed(book', s, c) = Printed(book, s, c)
  <1>1. /\ Sheets = 1 .. Len(book) /\ Len(book) \in Nat /\ Sheets' = 1 .. Len(book) + 1
        /\ \A t \in Sheets : book'[t] = book[t]
        /\ book'[Len(book) + 1].sid = fresh
    BY AddIs
  <1>2. DOMAIN book = Sheets /\ DOMAIN book' = Sheets'  BY DEF Sheets
  <1>3. \A t \in Sheets' : t \in Sheets \/ t = Len(book) + 1  BY <1>1
  <1>4. \A sid \in Ids : sid # fresh  BY DEF Ids, TypeOK
  <1>5. \A t \in Sheets : book[t].sid \in Ids  BY SheetFields
  <1>6. Sheets \subseteq Sheets'  BY <1>1
  <1> DEFINE added == Len(book) + 1
  <1> HIDE DEF Sheets, added
  <1>7. \A t, u \in Sheets' : t # u => book'[t].sid # book'[u].sid
    <2>1. \A t \in Sheets' : t \in Sheets \/ (t = added /\ book'[t].sid = fresh)  BY <1>1, <1>3 DEF added
    <2>2. \A t \in Sheets : book'[t].sid = book[t].sid /\ book'[t].sid # fresh  BY <1>1, <1>4, <1>5
    <2>3. \A t, u \in Sheets : t # u => book[t].sid # book[u].sid  BY DEF Distinct
    <2> QED  BY <2>1, <2>2, <2>3
  <1>8. c.kind \in {"value", "ref", "broken", "verbatim"} /\ (c.kind = "ref" => c.sheet \in Sheets)
        /\ (c.kind = "verbatim" => c.sid \in Ids)
    BY ContentKinds
  <1>9. CASE c.kind = "value"  BY <1>9, PrintedIs
  <1>10. CASE c.kind = "broken"  BY <1>10, PrintedIs
  <1>11. CASE c.kind = "ref"
    <2>1. book'[c.sheet].name = book[c.sheet].name  BY <1>1, <1>8, <1>11
    <2>2. CASE c.sheet = s  BY <1>11, <2>2, PrintedIs
    <2>3. CASE c.sheet # s
      <3>1. Printed(book, s, c) = ReadText(c.area, book[c.sheet].name)  BY <1>11, <2>3, PrintedIs
      <3>2. Printed(book', s, c) = ReadText(c.area, book'[c.sheet].name)  BY <1>11, <2>3, PrintedIs
      <3> QED  BY <2>1, <3>1, <3>2
    <2> QED  BY <2>2, <2>3
  <1>12. CASE c.kind = "verbatim"
    <2>1. Printed(book, s, c) = UnreadText(NameOf(book, c.sid))  BY <1>12, PrintedIs
    <2>2. Printed(book', s, c) = UnreadText(NameOf(book', c.sid))  BY <1>12, PrintedIs
    <2>3. \A t, u \in Sheets : t # u => book[t].sid # book[u].sid  BY DEF Distinct
    <2>4. c.sid \in Ids /\ c.sid # fresh  BY <1>4, <1>8, <1>12
    <2>5. CASE \E t \in Sheets : book[t].sid = c.sid
      <3>1. PICK t \in Sheets : book[t].sid = c.sid  BY <2>5
      <3>2. NameOf(book, c.sid) = book[t].name  BY <1>2, <2>3, <3>1, NameOfIs
      <3>3. t \in DOMAIN book' /\ book'[t].sid = c.sid /\ book'[t].name = book[t].name  BY <1>1, <1>2, <1>6, <3>1
      <3>4. NameOf(book', c.sid) = book'[t].name  BY <1>2, <1>7, <3>3, NameOfIs
      <3> QED  BY <2>1, <2>2, <3>2, <3>3, <3>4
    <2>6. CASE ~\E t \in Sheets : book[t].sid = c.sid
      <3>1. NameOf(book, c.sid) = "#REF"  BY <1>2, <2>3, <2>6, NameOfIs
      <3>2. \A t \in Sheets' : book'[t].sid # c.sid
        <4>1. \A t \in Sheets' : t \in Sheets \/ book'[t].sid = fresh  BY <1>1, <1>3
        <4> QED  BY <1>1, <2>4, <2>6, <4>1
      <3>3. NameOf(book', c.sid) = "#REF"  BY <1>2, <1>7, <3>2, NameOfIs
      <3> QED  BY <2>1, <2>2, <3>1, <3>3
    <2> QED  BY <2>5, <2>6
  <1> QED  BY <1>8, <1>9, <1>10, <1>11, <1>12

LEMMA AddKeepsSave ==
    ASSUME TypeOK, SaveInv, NEW name \in SheetNames, AddSheet(name)
    PROVE  SaveInv'
  <1> DEFINE added == Len(book) + 1
  <1>1. /\ Sheets = 1 .. Len(book) /\ Len(book) \in Nat /\ Sheets' = 1 .. Len(book) + 1
        /\ added \notin Sheets
        /\ \A t \in Sheets : book'[t] = book[t]
        /\ book'[added].name = name /\ book'[added].sid = fresh /\ DOMAIN book'[added].cells = {}
    BY AddIs
  <1>2. /\ \A t \in Sheets : book[t].name # name
        /\ file' = [sid \in DOMAIN file \cup {fresh} |-> IF sid = fresh THEN Only(texts, {}) ELSE file[sid]]
        /\ texts' = texts /\ edited' = edited /\ extraDirty' = extraDirty /\ dirtyParts' = dirtyParts
    BY DEF AddSheet
  <1>3. \A t \in Sheets' : t \in Sheets \/ t = added  BY <1>1
  <1>4. added \in Sheets' /\ Sheets \subseteq Sheets'  BY <1>1
  <1>5. TypeOK'  BY AddKeepsType
  <1>6. Distinct /\ Stored /\ NoStrays /\ Kept  BY DEF SaveInv
  <1>7. \A t \in Sheets : book[t].sid # fresh
    <2>1. \A t \in Sheets : book[t].sid \in Ids  BY SheetFields
    <2> QED  BY <2>1 DEF Ids, TypeOK
  <1>8. \A s \in Sheets : \A p \in DOMAIN book[s].cells :
           Printed(book', s, book[s].cells[p]) = Printed(book, s, book[s].cells[p])
    <2>1. \A s \in Sheets : \A p \in DOMAIN book[s].cells : book[s].cells[p] \in Contents  BY SheetFields
    <2> HIDE DEF Sheets, added
    <2> QED  BY <1>6, <2>1, PrintsWithAdded, Zenon
  <1>9. edited \subseteq Sheets \X Grid /\ DOMAIN texts \subseteq Sheets \X Grid  BY DEF TypeOK
  <1> HIDE DEF Sheets, added
  <1>10. Distinct'  BY <1>1, <1>2, <1>3, <1>6, <1>7 DEF Distinct
  <1>11. Stored'
    <2>1. ASSUME NEW s \in Sheets', NEW p \in DOMAIN book'[s].cells  PROVE StoredCell(s, p)'
      <3>1. s \in Sheets  BY <1>1, <1>3, <2>1
      <3>2. book'[s] = book[s] /\ p \in DOMAIN book[s].cells  BY <1>1, <2>1, <3>1
      <3>3. StoredCell(s, p)  BY <1>6, <3>1, <3>2 DEF Stored
      <3>4. Printed(book', s, book[s].cells[p]) = Printed(book, s, book[s].cells[p])  BY <1>8, <3>1, <3>2
      <3> QED  BY <1>2, <3>2, <3>3, <3>4 DEF StoredCell
    <2> QED  BY <2>1, Zenon DEF Stored
  <1>12. NoStrays'
    <2>1. ASSUME NEW s \in Sheets', NEW p, <<s, p>> \in DOMAIN texts' \ edited'
          PROVE  p \in DOMAIN book'[s].cells /\ book'[s].cells[p].kind # "value"
      <3>1. s \in Sheets /\ <<s, p>> \in DOMAIN texts \ edited  BY <1>2, <1>9, <2>1
      <3> QED  BY <1>1, <1>6, <3>1 DEF NoStrays
    <2> QED  BY <2>1, Zenon DEF NoStrays
  <1>13. Kept'
    <2>1. ASSUME NEW s \in Sheets', book'[s].sid \notin PartsOnSave'
          PROVE  book'[s].sid \in DOMAIN file' /\ file'[book'[s].sid] = Whole(s)'
      <3>1. Whole(s)' = [p \in DOMAIN book'[s].cells |-> Printed(book', s, book'[s].cells[p])]  BY DEF Whole
      <3>2. CASE s \in Sheets
        <4>1. book'[s] = book[s]  BY <1>1, <3>2
        <4>2. book'[s].sid \notin dirtyParts' /\ s \notin extraDirty' /\ ~\E k \in edited' : k[1] = s
          BY <1>5, <1>10, <2>1, PartAfter
        <4>3. book[s].sid \notin PartsOnSave  BY <1>2, <1>6, <3>2, <4>1, <4>2, PartOf
        <4>4. book[s].sid \in DOMAIN file /\ file[book[s].sid] = Whole(s)  BY <1>6, <3>2, <4>3 DEF Kept
        <4>5. Whole(s)' = Whole(s)  BY <1>8, <3>1, <3>2, <4>1 DEF Whole
        <4> QED  BY <1>2, <1>7, <3>2, <4>1, <4>4, <4>5
      <3>3. CASE s = added
        <4>1. Whole(s)' = [p \in {} |-> Printed(book', s, book'[s].cells[p])]  BY <1>1, <3>1, <3>3
        <4>2. Only(texts, {}) = [p \in {} |-> texts[p]]  BY DEF Only
        <4>3. Whole(s)' = Only(texts, {})  BY <4>1, <4>2
        <4> QED  BY <1>1, <1>2, <3>3, <4>3
      <3> QED  BY <1>3, <3>2, <3>3
    <2> QED  BY <2>1, Zenon DEF Kept
  <1> QED  BY <1>10, <1>11, <1>12, <1>13 DEF SaveInv

LEMMA SaveKeepsSave ==
    ASSUME TypeOK, SaveInv, Save
    PROVE  SaveInv'
  <1>1. TypeOK' /\ book' = book /\ Sheets' = Sheets /\ fresh' = fresh  BY SaveKeepsType
  <1>2. /\ texts' = TextsOnSave /\ dirtyParts' = PartsOnSave /\ edited' = {} /\ extraDirty' = {}
        /\ file' = [sid \in {book[s].sid : s \in Sheets} |-> PartOnSave(CHOOSE s \in Sheets : book[s].sid = sid)]
    BY DEF Save
  <1>3. Distinct /\ Stored /\ NoStrays /\ Kept  BY DEF SaveInv
  <1>4. Distinct'  BY <1>1, <1>3 DEF Distinct
  <1>5. Stored'
    <2>1. ASSUME NEW s \in Sheets, NEW p \in DOMAIN book[s].cells
          PROVE  book[s].cells[p].kind # "value" =>
                    <<s, p>> \in DOMAIN texts' /\ texts'[<<s, p>>] = Printed(book, s, book[s].cells[p])
      BY <1>2, <1>3, EncodedIs
    <2> QED  BY <1>1, <1>2, <2>1 DEF Stored, StoredCell
  <1>6. NoStrays'
    <2>1. ASSUME NEW s \in Sheets, NEW p, <<s, p>> \in DOMAIN TextsOnSave
          PROVE  p \in DOMAIN book[s].cells /\ book[s].cells[p].kind # "value"
      <3>1. CASE <<s, p>> \in DOMAIN texts \ edited  BY <1>3, <3>1 DEF NoStrays
      <3>2. CASE <<s, p>> \in Formulas(book)
        <4>1. p \in DOMAIN book[s].cells /\ Parsed(book[s].cells[p])  BY <3>2, FormulaAt
        <4> QED  BY <4>1 DEF Parsed
      <3>3. DOMAIN TextsOnSave \subseteq (DOMAIN texts \ edited) \cup Formulas(book)  BY DEF TextsOnSave
      <3> QED  BY <2>1, <3>1, <3>2, <3>3
    <2> QED  BY <1>1, <1>2, <2>1 DEF NoStrays
  <1>7. \A s \in Sheets : book[s].sid \in DOMAIN file' /\ file'[book[s].sid] = Whole(s)
    <2>1. SaveWritesWorkbook  BY SaveInvSuffices
    <2>2. \A s \in Sheets : PartOnSave(s) = Whole(s)  BY <2>1 DEF SaveWritesWorkbook, Whole
    <2>3. SUFFICES ASSUME NEW s \in Sheets PROVE book[s].sid \in DOMAIN file' /\ file'[book[s].sid] = Whole(s)
      OBVIOUS
    <2> DEFINE t == CHOOSE r \in Sheets : book[r].sid = book[s].sid
    <2>4. t \in Sheets /\ book[t].sid = book[s].sid  OBVIOUS
    <2>5. t = s  BY <1>3, <2>4 DEF Distinct
    <2>6. file'[book[s].sid] = PartOnSave(t) /\ book[s].sid \in DOMAIN file'  BY <1>2
    <2> QED  BY <2>2, <2>5, <2>6
  <1>8. Kept'
    <2>1. \A s \in Sheets : Whole(s)' = Whole(s)  BY <1>1 DEF Whole
    <2> QED  BY <1>1, <1>7, <2>1 DEF Kept
  <1> QED  BY <1>4, <1>5, <1>6, <1>8 DEF SaveInv

LEMMA StutterKeepsSave ==
    ASSUME SaveInv, UNCHANGED vars
    PROVE  SaveInv'
  <1>1. /\ book' = book /\ texts' = texts /\ edited' = edited /\ extraDirty' = extraDirty
        /\ dirtyParts' = dirtyParts /\ file' = file
    BY DEF vars
  <1>2. Sheets' = Sheets  BY <1>1 DEF Sheets
  <1>3. PartsOnSave' = PartsOnSave  BY <1>1 DEF PartsOnSave
  <1>4. \A s : Whole(s)' = Whole(s)  BY <1>1 DEF Whole
  <1>5. \A s, p : StoredCell(s, p)' = StoredCell(s, p)  BY <1>1 DEF StoredCell
  <1> QED  BY <1>1, <1>2, <1>3, <1>4, <1>5 DEF SaveInv, Distinct, Stored, NoStrays, Kept

LEMMA InitSave == Init => SaveInv
  <1> SUFFICES ASSUME Init PROVE SaveInv  OBVIOUS
  <1>1. PICK opened \in Books :
              /\ Sheets = 1 .. Len(opened) /\ Len(opened) \in Nat /\ DOMAIN opened = Sheets
              /\ fresh = MaxRow + 2 + Len(opened)
              /\ book = [s \in Sheets |-> book[s]]
              /\ \E blanks :
                   /\ DOMAIN blanks = Sheets
                   /\ \A s \in Sheets :
                         blanks[s].sid = s /\ blanks[s].rows = FirstRows /\ blanks[s].cols = FirstCols
                   /\ \A s \in Sheets : book[s] \in
                         Exactly(opened[s].name, s, FirstRows, FirstCols,
                                 [p \in DOMAIN opened[s].cells |-> Entered(blanks, opened[s].cells[p])],
                                 [p \in DOMAIN opened[s].cells |-> <<FirstRows[p[1]], FirstCols[p[2]]>>],
                                 {[box |-> m, of |-> Meaning(blanks, s, m)] : m \in opened[s].merges})
    BY LoadedIs, Zenon
  <1>2. PICK blanks :
           \A s \in Sheets : book[s] \in
                         Exactly(opened[s].name, s, FirstRows, FirstCols,
                                 [p \in DOMAIN opened[s].cells |-> Entered(blanks, opened[s].cells[p])],
                                 [p \in DOMAIN opened[s].cells |-> <<FirstRows[p[1]], FirstCols[p[2]]>>],
                                 {[box |-> m, of |-> Meaning(blanks, s, m)] : m \in opened[s].merges})
    BY <1>1, Zenon
  <1>3. \A s \in Sheets :
           /\ book[s].name = opened[s].name /\ book[s].sid = s
           /\ book[s].cells = [p \in DOMAIN opened[s].cells |-> Entered(blanks, opened[s].cells[p])]
    <2> TAKE s \in Sheets
    <2> DEFINE C == [p \in DOMAIN opened[s].cells |-> Entered(blanks, opened[s].cells[p])]
               H == [p \in DOMAIN opened[s].cells |-> <<FirstRows[p[1]], FirstCols[p[2]]>>]
               M == {[box |-> m, of |-> Meaning(blanks, s, m)] : m \in opened[s].merges}
    <2>1. book[s] \in Exactly(opened[s].name, s, FirstRows, FirstCols, C, H, M)  BY <1>2
    <2> HIDE DEF C, H, M
    <2>2. book[s].name = opened[s].name /\ book[s].sid = s /\ book[s].cells = C  BY <2>1, ExactlyIs
    <2> QED  BY <2>2 DEF C
  <1>4. \A s \in Sheets : \A p \in DOMAIN book[s].cells :
           book[s].cells[p].kind \in {"value", "ref", "verbatim"}
    <2>1. \A entry \in FileEntries : Entered(blanks, entry).kind \in {"value", "ref", "verbatim"}
      BY DEF FileEntries, ReadEntries, Entered, Value, Ref, Verbatim
    <2>2. \A s \in Sheets : \A p \in DOMAIN opened[s].cells : opened[s].cells[p] \in FileEntries
      BY <1>1, BooksAssumption
    <2> SUFFICES ASSUME NEW s \in Sheets, NEW p \in DOMAIN book[s].cells
                 PROVE  book[s].cells[p].kind \in {"value", "ref", "verbatim"}
      OBVIOUS
    <2> DEFINE C == [q \in DOMAIN opened[s].cells |-> Entered(blanks, opened[s].cells[q])]
    <2>3. p \in DOMAIN opened[s].cells /\ book[s].cells[p] = Entered(blanks, opened[s].cells[p])
      <3>1. book[s].cells = C  BY <1>3
      <3>2. p \in DOMAIN C /\ book[s].cells[p] = C[p]  BY <3>1
      <3> QED  BY <3>2
    <2> QED  BY <2>1, <2>2, <2>3
  <1>5. /\ texts = [k \in {j \in CellsOf(book) : book[j[1]].cells[j[2]].kind \in {"ref", "verbatim"}} |->
                       PrintedAt(book, k)]
        /\ file = [s \in DOMAIN book |-> [p \in DOMAIN book[s].cells |-> Printed(book, s, book[s].cells[p])]]
        /\ edited = {} /\ extraDirty = {} /\ dirtyParts = {}
    BY Zenon DEF Init
  <1>6. Distinct
    <2>1. \A s, t \in Sheets : s # t => opened[s].name # opened[t].name  BY <1>1, BooksAssumption
    <2>2. \A s \in Sheets : book[s].name = opened[s].name /\ book[s].sid = s  BY <1>3
    <2> HIDE DEF Sheets
    <2> QED  BY <2>1, <2>2 DEF Distinct
  <1>7. \A s, p : <<s, p>> \in CellsOf(book) <=> s \in Sheets /\ p \in DOMAIN book[s].cells
    <2>1. \A s, p : <<s, p>> \in CellsOf(book) <=> \E t \in Sheets : <<s, p>> \in {t} \X DOMAIN book[t].cells
      BY DEF CellsOf, Sheets
    <2>2. \A s, p : \A t \in Sheets :
             <<s, p>> \in {t} \X DOMAIN book[t].cells <=> s = t /\ p \in DOMAIN book[t].cells
      OBVIOUS
    <2>3. ASSUME NEW s, NEW p, <<s, p>> \in CellsOf(book)  PROVE s \in Sheets /\ p \in DOMAIN book[s].cells
      <3>1. PICK t \in Sheets : <<s, p>> \in {t} \X DOMAIN book[t].cells  BY <2>1, <2>3, Zenon
      <3> QED  BY <2>2, <3>1
    <2>4. ASSUME NEW s \in Sheets, NEW p \in DOMAIN book[s].cells  PROVE <<s, p>> \in CellsOf(book)
      <3>1. <<s, p>> \in {s} \X DOMAIN book[s].cells  OBVIOUS
      <3> QED  BY <2>1, <3>1, Zenon
    <2> QED  BY <2>3, <2>4, Zenon
  <1>8. \A s, p : <<s, p>> \in DOMAIN texts <=>
           s \in Sheets /\ p \in DOMAIN book[s].cells /\ book[s].cells[p].kind \in {"ref", "verbatim"}
    <2> TAKE s, p
    <2> DEFINE k == <<s, p>>
    <2>1. k[1] = s /\ k[2] = p  OBVIOUS
    <2>2. k \in CellsOf(book) <=> s \in Sheets /\ p \in DOMAIN book[s].cells  BY <1>7
    <2>3. k \in DOMAIN texts <=> k \in CellsOf(book) /\ book[k[1]].cells[k[2]].kind \in {"ref", "verbatim"}
      BY <1>5
    <2> HIDE DEF k
    <2>4. k \in DOMAIN texts <=>
             s \in Sheets /\ p \in DOMAIN book[s].cells /\ book[s].cells[p].kind \in {"ref", "verbatim"}
      BY <2>1, <2>2, <2>3
    <2> QED  BY <2>4 DEF k
  <1>9. \A s, p : <<s, p>> \in DOMAIN texts => texts[<<s, p>>] = Printed(book, s, book[s].cells[p])
    BY <1>5 DEF PrintedAt
  <1>10. Stored
    <2>1. ASSUME NEW s \in Sheets, NEW p \in DOMAIN book[s].cells  PROVE StoredCell(s, p)
      <3> DEFINE c == book[s].cells[p]
      <3>1. c.kind \in {"value", "ref", "verbatim"}  BY <1>4, <2>1
      <3>2. c.kind \in {"ref", "verbatim"} =>
              <<s, p>> \in DOMAIN texts /\ texts[<<s, p>>] = Printed(book, s, c)
        BY <1>8, <1>9, <2>1
      <3>3. <<s, p>> \notin edited  BY <1>5
      <3> HIDE DEF c
      <3> QED  BY <3>1, <3>2, <3>3 DEF StoredCell, c
    <2> QED  BY <2>1 DEF Stored
  <1>11. NoStrays
    <2>1. ASSUME NEW s \in Sheets, NEW p, <<s, p>> \in DOMAIN texts \ edited
          PROVE  p \in DOMAIN book[s].cells /\ book[s].cells[p].kind # "value"
      <3>1. <<s, p>> \in DOMAIN texts  BY <2>1
      <3> QED  BY <1>8, <3>1
    <2> QED  BY <2>1 DEF NoStrays
  <1>12. Kept
    <2>1. \A s \in Sheets : book[s].sid \in DOMAIN file /\ file[book[s].sid] = Whole(s)
      BY <1>3, <1>5 DEF Whole, Sheets
    <2> QED  BY <2>1 DEF Kept
  <1> QED  BY <1>6, <1>10, <1>11, <1>12 DEF SaveInv

LEMMA StepKeepsSave == TypeOK /\ SaveInv /\ [Next]_vars => SaveInv'
  <1> SUFFICES ASSUME TypeOK, SaveInv, [Next]_vars PROVE SaveInv'  OBVIOUS
  <1>1. CASE Next
    <2>1. CASE \E s \in Sheets : \E contents : Fits(contents) /\ Write(s, contents)
      BY <2>1, WriteKeepsSave, Zenon
    <2>2. CASE \E s \in Sheets, axis \in Axes : \E e \in EditsOn(axis) : StructuralEdit(s, e)
      BY <2>2, EditKeepsSave, Zenon
    <2>3. CASE \E s \in Sheets, name \in SheetNames : RenameSheet(s, name)
      BY <2>3, RenameKeepsSave, Zenon
    <2>4. CASE \E s \in Sheets : DeleteSheet(s)
      BY <2>4, DeleteKeepsSave, Zenon
    <2>5. CASE \E name \in SheetNames : AddSheet(name)
      BY <2>5, AddKeepsSave, Zenon
    <2>6. CASE Save
      BY <2>6, SaveKeepsSave
    <2> QED  BY <1>1, <2>1, <2>2, <2>3, <2>4, <2>5, <2>6, StepIs, Zenon
  <1>2. CASE UNCHANGED vars  BY <1>2, StutterKeepsSave
  <1> QED  BY <1>1, <1>2

(***************************************************************************)
(* Whatever was typed, sorted, filled, inserted, deleted, added or renamed *)
(* since, a save writes every sheet with every value and every formula     *)
(* under the current names, those of formulas Paged cannot read and of     *)
(* sheets nobody edited as well.  (save_xlsx, edited, extra_dirty,         *)
(* formula_texts)                                                          *)
(***************************************************************************)
THEOREM SaveCorrect == Spec => []SaveWritesWorkbook
  <1>1. Init => TypeOK /\ SaveInv  BY InitType, InitSave
  <1>2. TypeOK /\ SaveInv /\ [Next]_vars => (TypeOK /\ SaveInv)'  BY StepKeepsType, StepKeepsSave
  <1>3. TypeOK /\ SaveInv => SaveWritesWorkbook  BY SaveInvSuffices
  <1> QED  BY <1>1, <1>2, <1>3, PTL DEF Spec

-----------------------------------------------------------------------------
(* Sorting moves rows whole. *)

(* What cells hold once contents are written. *)
LEMMA WrittenContent ==
    ASSUME TypeOK, NEW s \in Sheets, NEW contents, Write(s, contents), NEW t \in Sheets, NEW p
    PROVE  ContentAt(book', t, p) =
             IF t = s /\ p \in DOMAIN contents THEN contents[p] ELSE ContentAt(book, t, p)
  <1> DEFINE C == [q \in KeptCells(s, contents) |->
                      IF q \in DOMAIN contents THEN contents[q] ELSE book[s].cells[q]]
  <1>1. /\ \A u \in Sheets \ {s} : book'[u] = book[u]
        /\ book'[s].cells = C
    <2> DEFINE H == [q \in KeptCells(s, contents) |->
                        IF q \in DOMAIN contents THEN <<book[s].rows[q[1]], book[s].cols[q[2]]>>
                        ELSE book[s].home[q]]
    <2>1. book' = Written(s, contents)  BY DEF Write
    <2>2. /\ \A u \in Sheets \ {s} : book'[u] = book[u]
          /\ book'[s] \in Exactly(book[s].name, book[s].sid, book[s].rows, book[s].cols, C, H, book[s].merges)
      BY <2>1, WrittenIs
    <2> HIDE DEF C, H
    <2> QED  BY <2>2, ExactlyIs
  <1>2. CASE t # s  BY <1>1, <1>2 DEF ContentAt
  <1>3. CASE t = s
    <2>1. DOMAIN C = KeptCells(s, contents)
          /\ \A q \in DOMAIN C : C[q] = IF q \in DOMAIN contents THEN contents[q] ELSE book[s].cells[q]
      OBVIOUS
    <2> HIDE DEF C
    <2>2. ContentAt(book', s, p) = IF p \in DOMAIN C THEN C[p] ELSE Blank  BY <1>1 DEF ContentAt
    <2>3. p \in DOMAIN C <=> IF p \in DOMAIN contents THEN contents[p] # Blank ELSE p \in DOMAIN book[s].cells
      BY <2>1 DEF KeptCells
    <2>4. CASE p \in DOMAIN contents  BY <1>3, <2>1, <2>2, <2>3, <2>4
    <2>5. CASE p \notin DOMAIN contents  BY <1>3, <2>1, <2>2, <2>3, <2>5 DEF ContentAt
    <2> QED  BY <2>4, <2>5
  <1> QED  BY <1>2, <1>3

(* An input the cell shows already is what the cell holds. *)
LEMMA SameShown ==
    ASSUME TypeOK, NEW s \in Sheets, NEW x \in Contents \cup {Blank}, NEW y \in Contents \cup {Blank},
           x.kind # "verbatim", Printed(book, s, x) = Printed(book, s, y)
    PROVE  x.kind = y.kind /\ (x.kind = "value" => x.v = y.v) /\ (x = Blank => y = Blank)
  <1>1. ASSUME NEW c \in Contents \cup {Blank}
        PROVE  \/ c.kind = "value" /\ c.v \in Nat /\ Printed(book, s, c) = ShownValue(c.v)
               \/ c.kind = "broken" /\ Printed(book, s, c) = ReadText(NoBox, NoName)
               \/ c.kind = "ref" /\ \E area \in Areas : \E name : Printed(book, s, c) = ReadText(area, name)
               \/ c.kind = "verbatim" /\ \E name : Printed(book, s, c) = UnreadText(name)
               \/ c = Blank /\ c.kind = "blank" /\ Printed(book, s, c) = ShownValue(-1)
    <2>1. CASE c = Blank
      <3>1. c.kind = "blank"  BY <2>1 DEF Blank
      <3> QED  BY <2>1, <3>1 DEF Printed, ShownValue
    <2>2. CASE c # Blank
      <3>1. /\ c \in Contents /\ c.kind \in {"value", "ref", "broken", "verbatim"}
            /\ c.kind = "value" => c.v \in Nat
            /\ c.kind = "ref" => c.area \in Areas
        BY <2>2 DEF Contents
      <3>2. CASE c.kind = "ref"
        <4>1. Printed(book, s, c) = ReadText(c.area, NoName)
              \/ Printed(book, s, c) = ReadText(c.area, book[c.sheet].name)
          BY <3>2, PrintedIs
        <4> QED  BY <3>1, <3>2, <4>1
      <3>3. CASE c.kind # "ref"  BY <3>1, <3>3, PrintedIs
      <3> QED  BY <3>2, <3>3
    <2> QED  BY <2>1, <2>2
  <1>2. \A v, area, name, other : /\ ShownValue(v) # ReadText(area, name) /\ ShownValue(v) # UnreadText(name)
                                  /\ ReadText(area, name) # UnreadText(other)
    <2>1. \A v, area, name, other :
             /\ DOMAIN ShownValue(v) = {"value"} /\ DOMAIN ReadText(area, name) = {"area", "names"}
             /\ DOMAIN UnreadText(other) = {"unread", "names"}
      BY DEF ShownValue, ReadText, UnreadText
    <2> QED  BY <2>1
  <1>3. \A v, w, a, b, m, n : /\ ShownValue(v) = ShownValue(w) => v = w
                              /\ ReadText(a, m) = ReadText(b, n) => a = b
    BY DEF ShownValue, ReadText
  <1>4. NoBox \notin Areas
    <2>1. NoBox.top \notin 0 .. MaxRow  BY OnGrid DEF NoBox, Gone
    <2> QED  BY <2>1 DEF Areas
  <1>5. \A n \in Nat : n # -1  OBVIOUS
  <1>6. \/ y.kind = "value" /\ y.v \in Nat /\ Printed(book, s, y) = ShownValue(y.v)
        \/ y.kind = "broken" /\ Printed(book, s, y) = ReadText(NoBox, NoName)
        \/ y.kind = "ref" /\ \E area \in Areas : \E name : Printed(book, s, y) = ReadText(area, name)
        \/ y.kind = "verbatim" /\ \E name : Printed(book, s, y) = UnreadText(name)
        \/ y = Blank /\ y.kind = "blank" /\ Printed(book, s, y) = ShownValue(-1)
    BY <1>1
  <1>7. CASE x.kind = "value" /\ x.v \in Nat /\ Printed(book, s, x) = ShownValue(x.v)
    BY <1>2, <1>3, <1>5, <1>6, <1>7 DEF Blank
  <1>8. CASE x.kind = "broken" /\ Printed(book, s, x) = ReadText(NoBox, NoName)
    BY <1>2, <1>3, <1>4, <1>6, <1>8 DEF Blank
  <1>9. CASE x.kind = "ref" /\ \E area \in Areas : \E name : Printed(book, s, x) = ReadText(area, name)
    BY <1>2, <1>3, <1>4, <1>6, <1>9 DEF Blank
  <1>10. CASE x = Blank /\ x.kind = "blank" /\ Printed(book, s, x) = ShownValue(-1)
    BY <1>2, <1>3, <1>5, <1>6, <1>10
  <1> QED  BY <1>1, <1>7, <1>8, <1>9, <1>10

(* A copy down the sheet is what CameFrom asks of it. *)
LEMMA CopyCameFrom ==
    ASSUME TypeOK, NEW old \in Contents \cup {Blank}, NEW drow \in Int
    PROVE  LET copy == Copied(old, drow, 0)
           IN  /\ old.kind = "ref" =>
                     copy.kind = (IF FillArea(old.area, drow, 0) = NoBox THEN "broken" ELSE "ref")
               /\ old.kind \in {"value", "verbatim"} => copy.kind = "value" /\ copy.v = old.v
               /\ old.kind = "broken" => copy.kind = "broken"
               /\ old = Blank => copy = Blank
               /\ old.kind \in {"ref", "value", "verbatim", "broken"} \/ old = Blank
  <1>1. old.kind \in {"ref", "value", "verbatim", "broken"} \/ old = Blank  BY DEF Contents
  <1>2. CASE old.kind = "ref"
    <2> DEFINE area == FillArea(old.area, drow, 0)
    <2>1. CASE drow # 0
      <3>1. Copied(old, drow, 0) = IF area = NoBox THEN Broken(NoMeaning)
                                   ELSE Ref(old.sheet, area, Meaning(book, old.sheet, area))
        BY <1>2, <2>1 DEF Copied
      <3> HIDE DEF area
      <3>2. Copied(old, drow, 0).kind = IF area = NoBox THEN "broken" ELSE "ref"  BY <3>1 DEF Broken, Ref
      <3>3. old # Blank  BY <1>2 DEF Blank
      <3> QED  BY <1>2, <3>2, <3>3 DEF area
    <2>2. CASE drow = 0
      <3>1. Copied(old, drow, 0) = old  BY <2>2, <1>2 DEF Copied
      <3>2. old.area \in Areas  BY <1>2 DEF Contents, Blank
      <3>3. \A c, max \in Nat : \A b \in BOOLEAN : c <= max => FillLine(c, b, 0, max) = c  BY DEF FillLine
      <3>4. area # NoBox
        <4> DEFINE a == old.area
                   moved == [a EXCEPT !.top = FillLine(a.top, "row" \in a.anchored, 0, MaxRow),
                                      !.bottom = FillLine(a.bottom, "row" \in a.anchored, 0, MaxRow),
                                      !.left = FillLine(a.left, "col" \in a.anchored, 0, MaxCol),
                                      !.right = FillLine(a.right, "col" \in a.anchored, 0, MaxCol)]
        <4>1. /\ a \in [top : 0 .. MaxRow, bottom : 0 .. MaxRow, left : 0 .. MaxCol, right : 0 .. MaxCol,
                        anchored : SUBSET Axes]
              /\ MaxRow \in Nat /\ MaxCol \in Nat
          BY <3>2, OnGrid DEF Areas
        <4>2. /\ FillLine(a.top, "row" \in a.anchored, 0, MaxRow) = a.top
              /\ FillLine(a.bottom, "row" \in a.anchored, 0, MaxRow) = a.bottom
              /\ FillLine(a.left, "col" \in a.anchored, 0, MaxCol) = a.left
              /\ FillLine(a.right, "col" \in a.anchored, 0, MaxCol) = a.right
          BY <4>1 DEF FillLine
        <4>3. moved = a  BY <4>1, <4>2
        <4>4. Gone \notin {a.top, a.bottom, a.left, a.right}  BY <4>1 DEF Gone
        <4>5. area = IF Gone \in {moved.top, moved.bottom, moved.left, moved.right} THEN NoBox ELSE moved
          BY <2>2 DEF FillArea
        <4>6. area = a  BY <4>3, <4>4, <4>5
        <4>7. NoBox.top \notin 0 .. MaxRow  BY OnGrid DEF NoBox, Gone
        <4> QED  BY <4>1, <4>6, <4>7
      <3>5. old # Blank  BY <1>2 DEF Blank
      <3> QED  BY <1>2, <3>1, <3>4, <3>5
    <2> QED  BY <2>1, <2>2
  <1>3. CASE old.kind \in {"value", "broken"}
    <2>1. Copied(old, drow, 0) = old /\ old # Blank  BY <1>3 DEF Copied, Blank
    <2> QED  BY <1>3, <2>1
  <1>4. CASE old.kind = "verbatim"
    <2>1. Copied(old, drow, 0) = Value(old.v) /\ old # Blank  BY <1>4 DEF Copied, Blank
    <2> QED  BY <1>4, <2>1 DEF Value
  <1>5. CASE old = Blank
    <2>1. old.kind = "blank"  BY <1>5 DEF Blank
    <2>2. Copied(old, drow, 0) = old  BY <2>1 DEF Copied
    <2> QED  BY <1>5, <2>1, <2>2
  <1> QED  BY <1>1, <1>2, <1>3, <1>4, <1>5

(* The sort's order is a permutation of its rows. *)
LEMMA SortPermutes ==
    ASSUME NEW rows \in SUBSET Nat, NEW key \in [rows -> SortKeys], NEW ascending \in BOOLEAN,
           NEW from \in [rows -> rows], \A r \in rows : \E i \in rows : from[i] = r,
           \A i, j \in rows : i < j => Before(key, from[i], from[j], ascending)
    PROVE  from \in Bijection(rows, rows)
  <1>1. \A i, j \in rows : from[i] = from[j] => i = j
    <2>1. SUFFICES ASSUME NEW i \in rows, NEW j \in rows, from[i] = from[j], i # j PROVE FALSE
      OBVIOUS
    <2>2. ~Before(key, from[i], from[i], ascending)
      <3>1. from[i] \in rows  OBVIOUS
      <3>2. \A q \in rows : ~Before(key, q, q, ascending)  BY BeforeIsAnOrder
      <3> QED  BY <3>1, <3>2
    <2>3. i \in Nat /\ j \in Nat  OBVIOUS
    <2>4. Before(key, from[i], from[j], ascending) \/ Before(key, from[j], from[i], ascending)
      BY <2>1, <2>3
    <2> QED  BY <2>1, <2>2, <2>4
  <1>2. from \in Injection(rows, rows)  BY <1>1, InjectionIs
  <1>3. from \in Surjection(rows, rows)  BY DEF Surjection
  <1> QED  BY <1>2, <1>3 DEF Bijection

LEMMA SortStep ==
    ASSUME TypeOK, Sorting, NEW sort \in sorted'
    PROVE  /\ \E perm \in Bijection(sort.rows, sort.rows) : \A i \in sort.rows : SortedRow(sort, perm, i)
           /\ \A t \in Sheets, p \in Positions :
                 t # sort.sheet \/ ~In(p, sort.box) \/ p[1] \notin sort.rows =>
                     ContentAt(book', t, p) = ContentAt(book, t, p)
  <1>1. PICK s \in Sheets, box \in SortRanges, ascending \in BOOLEAN, header \in BOOLEAN, hint \in Keys :
          \E col \in box.left .. box.right :
            /\ Sort(s, box, col, ascending, header, hint)
            /\ sorted' = {[sheet |-> s, box |-> box, col |-> col,
                            ascending |-> ascending, rows |-> DataRows(box, header)]}
    BY DEF Sorting
  <1>2. PICK col \in box.left .. box.right :
            /\ Sort(s, box, col, ascending, header, hint)
            /\ sorted' = {[sheet |-> s, box |-> box, col |-> col,
                            ascending |-> ascending, rows |-> DataRows(box, header)]}
    BY <1>1
  <1>3. box \in Boxes  BY InputsAssumption
  <1> DEFINE rows == DataRows(box, header)
             key == RowKeys(s, box, col, header, hint)
             from == SortOrder(box, header, key, ascending)
             contents == SortWrites(s, box, header, from)
  <1>4. sort.sheet = s /\ sort.box = box /\ sort.col = col /\ sort.ascending = ascending /\ sort.rows = rows
    BY <1>2
  <1>5. /\ key \in [rows -> SortKeys] /\ from \in [rows -> rows]
        /\ Write(s, Differing(s, contents))
    BY <1>2, <1>3, SortIs
  <1>6. /\ \A r \in rows : \E i \in rows : from[i] = r
        /\ \A i, j \in rows : i < j => Before(key, from[i], from[j], ascending)
    BY <1>3, <1>5, SortOrderIs
  <1>7. rows \in SUBSET Nat /\ rows \subseteq box.top .. box.bottom /\ rows \X (box.left .. box.right) \subseteq Positions
    BY <1>3, SortedCells, OnGrid DEF Rows
  <1>8. \A r \in rows : key[r] = KeyOf(ContentAt(book, s, <<r, col>>), hint)  BY DEF RowKeys
  <1>9. /\ DOMAIN contents = rows \X (box.left .. box.right)
        /\ \A p \in DOMAIN contents : contents[p] = Copied(ContentAt(book, s, <<from[p[1]], p[2]>>), p[1] - from[p[1]], 0)
    BY DEF SortWrites
  <1>10. \A t \in Sheets : \A p : ContentAt(book', t, p) =
            IF t = s /\ p \in DOMAIN Differing(s, contents) THEN Differing(s, contents)[p] ELSE ContentAt(book, t, p)
    BY <1>5, WrittenContent
  <1>11. /\ DOMAIN Differing(s, contents) \subseteq DOMAIN contents
         /\ \A p \in DOMAIN Differing(s, contents) : Differing(s, contents)[p] = contents[p]
         /\ \A p \in DOMAIN contents :
               p \notin DOMAIN Differing(s, contents) =>
                  Printed(book, s, contents[p]) = Printed(book, s, ContentAt(book, s, p))
    BY DifferingIs
  <1> HIDE DEF rows, key, from, contents
  <1>12. from \in Bijection(rows, rows)  BY <1>5, <1>6, <1>7, SortPermutes
  <1>13. ASSUME NEW i \in rows
         PROVE  CameFrom(s, i, from[i], box.left .. box.right)
    <2>1. SUFFICES ASSUME NEW c \in box.left .. box.right
                   PROVE  LET old == ContentAt(book, s, <<from[i], c>>)
                              new == ContentAt(book', s, <<i, c>>)
                          IN  CASE old.kind = "ref" ->
                                      new.kind = (IF FillArea(old.area, i - from[i], 0) = NoBox THEN "broken" ELSE "ref")
                                [] old.kind \in {"value", "verbatim"} -> new.kind \in {"value", "verbatim"} /\ new.v = old.v
                                [] old.kind = "broken" -> new.kind = "broken"
                                [] OTHER -> new = old
      BY DEF CameFrom
    <2> DEFINE old == ContentAt(book, s, <<from[i], c>>)
               new == ContentAt(book', s, <<i, c>>)
               copy == Copied(old, i - from[i], 0)
               p == <<i, c>>
    <2>2. p \in DOMAIN contents /\ contents[p] = copy
      <3>1. p[1] = i /\ p[2] = c /\ p \in rows \X (box.left .. box.right)  OBVIOUS
      <3> QED  BY <1>9, <3>1
    <2>3. i - from[i] \in Int
      <3>1. from[i] \in rows  BY <1>5
      <3>2. i \in Nat /\ from[i] \in Nat  BY <1>7, <3>1
      <3> QED  BY <3>2
    <2>4. old \in Contents \cup {Blank} /\ ContentAt(book, s, p) \in Contents \cup {Blank}  BY ContentAtIs
    <2>5. copy = Blank \/ (copy \in Contents /\ copy.kind # "verbatim")
      <3>1. 0 \in Int  OBVIOUS
      <3> QED  BY <2>3, <2>4, <3>1, CopiedFits
    <2>6. copy \in Contents \cup {Blank} /\ copy.kind # "verbatim"  BY <2>5 DEF Blank
    <2>7. new = copy \/ (new = ContentAt(book, s, p) /\ Printed(book, s, copy) = Printed(book, s, ContentAt(book, s, p)))
      BY <1>10, <1>11, <2>2
    <2>8. copy.kind = new.kind /\ (copy.kind = "value" => copy.v = new.v) /\ (copy = Blank => new = Blank)
      BY <2>4, <2>6, <2>7, SameShown
    <2>9. /\ old.kind = "ref" =>
                copy.kind = (IF FillArea(old.area, i - from[i], 0) = NoBox THEN "broken" ELSE "ref")
          /\ old.kind \in {"value", "verbatim"} => copy.kind = "value" /\ copy.v = old.v
          /\ old.kind = "broken" => copy.kind = "broken"
          /\ old = Blank => copy = Blank
          /\ old.kind \in {"ref", "value", "verbatim", "broken"} \/ old = Blank
      BY <2>3, <2>4, CopyCameFrom
    <2> HIDE DEF old, new, copy
    <2>10. CASE old = Blank
      <3>1. old.kind = "blank" /\ new = old  BY <2>8, <2>9, <2>10 DEF Blank
      <3> QED  BY <3>1 DEF old, new
    <2>11. CASE old.kind = "ref"
      <3>1. new.kind = (IF FillArea(old.area, i - from[i], 0) = NoBox THEN "broken" ELSE "ref")  BY <2>8, <2>9, <2>11
      <3> QED  BY <2>11, <3>1 DEF old, new
    <2>12. CASE old.kind \in {"value", "verbatim"}
      <3>1. new.kind = "value" /\ new.v = old.v  BY <2>8, <2>9, <2>12
      <3> QED  BY <2>12, <3>1 DEF old, new
    <2>13. CASE old.kind = "broken"
      <3>1. new.kind = "broken"  BY <2>8, <2>9, <2>13
      <3> QED  BY <2>13, <3>1 DEF old, new
    <2> QED  BY <2>9, <2>10, <2>11, <2>12, <2>13
  <1>14. ASSUME NEW i \in rows, NEW j \in rows
         PROVE  LET a == ContentAt(book, s, <<from[i], col>>)
                    b == ContentAt(book, s, <<from[j], col>>)
                IN  i < j /\ ~Parsed(a) /\ ~Parsed(b) =>
                      \/ b = Blank /\ (a = Blank => from[i] < from[j])
                      \/ a # Blank /\ b # Blank /\ a.v = b.v /\ from[i] < from[j]
                      \/ a # Blank /\ b # Blank /\ (IF ascending THEN a.v < b.v ELSE a.v > b.v)
    <2> DEFINE a == ContentAt(book, s, <<from[i], col>>)
               b == ContentAt(book, s, <<from[j], col>>)
    <2>1. a \in Contents \cup {Blank} /\ b \in Contents \cup {Blank}  BY ContentAtIs
    <2>2. key[from[i]] = KeyOf(a, hint) /\ key[from[j]] = KeyOf(b, hint)  BY <1>5, <1>8
    <2>3. i < j => Before(key, from[i], from[j], ascending)  BY <1>6
    <2>4. from[i] \in Nat /\ from[j] \in Nat  BY <1>5, <1>7
    <2>5. \A c \in Contents \cup {Blank} : ~Parsed(c) =>
             /\ c = Blank => KeyOf(c, hint) = NoKey
             /\ c # Blank => KeyOf(c, hint) = c.v /\ c.v \in Nat
      BY DEF KeyOf, Contents, Parsed
    <2> HIDE DEF a, b
    <2>6. i < j /\ ~Parsed(a) /\ ~Parsed(b) =>
                      \/ b = Blank /\ (a = Blank => from[i] < from[j])
                      \/ a # Blank /\ b # Blank /\ a.v = b.v /\ from[i] < from[j]
                      \/ a # Blank /\ b # Blank /\ (IF ascending THEN a.v < b.v ELSE a.v > b.v)
      <3>1. SUFFICES ASSUME i < j, ~Parsed(a), ~Parsed(b)
                     PROVE  \/ b = Blank /\ (a = Blank => from[i] < from[j])
                            \/ a # Blank /\ b # Blank /\ a.v = b.v /\ from[i] < from[j]
                            \/ a # Blank /\ b # Blank /\ (IF ascending THEN a.v < b.v ELSE a.v > b.v)
        BY Zenon
      <3> DEFINE ka == key[from[i]]
                 kb == key[from[j]]
      <3>2. /\ a = Blank => ka = NoKey
            /\ a # Blank => ka = a.v /\ a.v \in Nat
            /\ b = Blank => kb = NoKey
            /\ b # Blank => kb = b.v /\ b.v \in Nat
        BY <2>1, <2>2, <2>5, <3>1
      <3>3. IF ka = kb THEN from[i] < from[j] ELSE ka # NoKey /\ (kb = NoKey \/ IF ascending THEN ka < kb ELSE kb < ka)
        BY <2>3, <3>1 DEF Before, Precedes
      <3> HIDE DEF ka, kb
      <3> QED  BY <2>4, <3>2, <3>3 DEF NoKey
    <2> QED  BY <2>6, Zenon DEF a, b
  <1>15. \A i \in rows : SortedRow(sort, from, i)  BY <1>4, <1>13, <1>14, Zenon DEF SortedRow
  <1>16. ASSUME NEW t \in Sheets, NEW p \in Positions, t # s \/ ~In(p, box) \/ p[1] \notin rows
         PROVE  ContentAt(book', t, p) = ContentAt(book, t, p)
    <2>1. t = s /\ p \in DOMAIN contents => In(p, box) /\ p[1] \in rows  BY <1>7, <1>9 DEF In
    <2> QED  BY <1>10, <1>11, <1>16, <2>1
  <1>17. \E perm \in Bijection(rows, rows) : \A i \in rows : SortedRow(sort, perm, i)
    BY <1>12, <1>15
  <1> QED  BY <1>4, <1>16, <1>17

(***************************************************************************)
(* A sort moves rows whole, each once, in the order of the key, with       *)
(* blanks last and equal rows as they stood, for any range and any sheet;  *)
(* a header and everything outside stay.  (sort_range, sort_key_cmp)       *)
(***************************************************************************)
THEOREM SortCorrect == Spec => RowsTravelWhole
  <1> DEFINE RowsWhole == \A sort \in sorted' :
                /\ \E perm \in Bijection(sort.rows, sort.rows) : \A i \in sort.rows : SortedRow(sort, perm, i)
                /\ \A t \in Sheets, p \in Positions :
                      t # sort.sheet \/ ~In(p, sort.box) \/ p[1] \notin sort.rows =>
                          ContentAt(book', t, p) = ContentAt(book, t, p)
  <1>1. TypeOK /\ [Next]_vars => [RowsWhole]_vars
    <2> SUFFICES ASSUME TypeOK, Next PROVE RowsWhole  OBVIOUS
    <2>1. CASE Sorting  BY <2>1, SortStep
    <2>2. CASE sorted' = {}  BY <2>2
    <2> QED  BY <2>1, <2>2 DEF Next
  <1>2. Spec => []TypeOK  BY TypeCorrect
  <1>3. RowsTravelWhole <=> [][RowsWhole]_vars  BY DEF RowsTravelWhole
  <1> QED  BY <1>1, <1>2, <1>3, PTL DEF Spec

-----------------------------------------------------------------------------
(* References follow the lines they meant: first, one axis of one sheet.    *)
OneLine(ids) == \A i, j \in DOMAIN ids : ids[i] = ids[j] => i = j
Covered(lo, hi, ids) == {ids[i] : i \in lo .. hi}
Alive(ids) == {ids[i] : i \in DOMAIN ids}
OldOnly(lo, hi, ids, meant, born) == {id \in Covered(lo, hi, ids) : id < born} = meant \cap Alive(ids)
EndsMeant(lo, hi, ids, meant) == {ids[lo], ids[hi]} \subseteq meant \/ ~(meant \subseteq Alive(ids))

LEMMA SpanFollowsIs ==
    ASSUME NEW lo, NEW hi, NEW ids, NEW meant, NEW born, NEW band
    PROVE  SpanFollows(lo, hi, ids, meant, born, band) <=>
              OldOnly(lo, hi, ids, meant, born) /\ (band \/ EndsMeant(lo, hi, ids, meant))
  BY DEF SpanFollows, OldOnly, EndsMeant, Covered, Alive

(* Where lines come from after an edit: a surviving line moves, and every   *)
(* other line is new.                                                       *)
LinesMoved(ids, after, e, max) ==
    /\ DOMAIN after = 0 .. max
    /\ \A c \in 0 .. max : Survives(c, e, max) =>
          ShiftLine(c, e, max) \in 0 .. max /\ after[ShiftLine(c, e, max)] = ids[c]
    /\ \A i \in 0 .. max : after[i] \in Nat /\
          (after[i] < fresh => \E c \in 0 .. max : Survives(c, e, max) /\ ShiftLine(c, e, max) = i)
    /\ OneLine(ids) => OneLine(after)

LEMMA LinesMove ==
    ASSUME NEW max \in Nat, fresh \in Nat, NEW ids \in [0 .. max -> Nat], \A i \in 0 .. max : ids[i] < fresh,
           NEW e, LineEdit(e, max), e.insert \in BOOLEAN
    PROVE  LinesMoved(ids, LinesAfter(ids, e), e, max)
  <1> DEFINE after == LinesAfter(ids, e)
             at == e.at
             n == e.n
  <1>1. at \in 0 .. max /\ at \in Nat /\ n \in Nat /\ n # 0 /\ DOMAIN ids = 0 .. max  BY DEF LineEdit
  <1>2. /\ DOMAIN after = 0 .. max
        /\ \A i \in 0 .. max : after[i] =
              IF i < at THEN ids[i]
              ELSE IF e.insert THEN IF i < at + n THEN fresh + i - at ELSE ids[i - n]
                   ELSE IF i + n \in 0 .. max THEN ids[i + n] ELSE fresh + i
    BY <1>1 DEF LinesAfter
  <1>3. \A c \in 0 .. max : Survives(c, e, max) =>
           /\ ShiftLine(c, e, max) \in 0 .. max
           /\ IF c < at THEN ShiftLine(c, e, max) = c
              ELSE IF e.insert THEN ShiftLine(c, e, max) = c + n ELSE ShiftLine(c, e, max) = c - n /\ c - n >= at
    BY <1>1, ImageOnGrid DEF ShiftLine, Survives, LineEdit, Gone
  <1>4. \A c, i \in 0 .. max :
           \/ c < at /\ i = c
           \/ ~(c < at) /\ e.insert /\ i = c + n
           \/ ~(c < at) /\ ~e.insert /\ i = c - n /\ i >= at
           => Survives(c, e, max) /\ ShiftLine(c, e, max) = i
    BY <1>1 DEF ShiftLine, Survives, Gone
  <1> HIDE DEF after, at, n
  <1>5. \A i \in 0 .. max :
           /\ i < at => after[i] = ids[i]
           /\ ~(i < at) /\ e.insert /\ i < at + n => after[i] = fresh + i - at
           /\ ~(i < at) /\ e.insert /\ ~(i < at + n) => after[i] = ids[i - n]
           /\ ~(i < at) /\ ~e.insert /\ i + n \in 0 .. max => after[i] = ids[i + n]
           /\ ~(i < at) /\ ~e.insert /\ i + n \notin 0 .. max => after[i] = fresh + i
    BY <1>1, <1>2
  <1>6. ASSUME NEW c \in 0 .. max, NEW i \in 0 .. max,
               \/ c < at /\ i = c
               \/ ~(c < at) /\ e.insert /\ i = c + n
               \/ ~(c < at) /\ ~e.insert /\ i = c - n /\ i >= at
        PROVE  after[i] = ids[c]
    <2>1. CASE c < at /\ i = c  BY <1>5, <2>1
    <2>2. CASE ~(c < at) /\ e.insert /\ i = c + n
      <3>1. ~(i < at) /\ ~(i < at + n) /\ i - n = c  BY <1>1, <2>2
      <3>2. after[i] = ids[i - n]  BY <1>5, <2>2, <3>1
      <3> QED  BY <3>1, <3>2
    <2>3. CASE ~(c < at) /\ ~e.insert /\ i = c - n /\ i >= at
      <3>1. ~(i < at) /\ i + n = c  BY <1>1, <2>3
      <3>2. after[i] = ids[i + n]  BY <1>5, <2>3, <3>1
      <3> QED  BY <3>1, <3>2
    <2> QED  BY <1>6, <2>1, <2>2, <2>3
  <1>7. ASSUME NEW c \in 0 .. max, Survives(c, e, max)
        PROVE  ShiftLine(c, e, max) \in 0 .. max /\ after[ShiftLine(c, e, max)] = ids[c]
    <2> DEFINE i == ShiftLine(c, e, max)
    <2>1. /\ i \in 0 .. max
          /\ IF c < at THEN i = c ELSE IF e.insert THEN i = c + n ELSE i = c - n /\ c - n >= at
      BY <1>3, <1>7
    <2> HIDE DEF i
    <2>2. after[i] = ids[c]  BY <1>6, <2>1
    <2> QED  BY <2>1, <2>2 DEF i
  <1>8. ASSUME NEW i \in 0 .. max
        PROVE  \/ \E c \in 0 .. max : Survives(c, e, max) /\ ShiftLine(c, e, max) = i /\ after[i] = ids[c]
               \/ after[i] = (IF e.insert THEN fresh + i - at ELSE fresh + i) /\ (e.insert => ~(i < at))
    <2>1. CASE i < at  BY <1>4, <1>5, <2>1
    <2>2. CASE ~(i < at) /\ e.insert /\ i < at + n  BY <1>5, <2>2
    <2>3. CASE ~(i < at) /\ e.insert /\ ~(i < at + n)
      <3>1. PICK c \in 0 .. max : c = i - n  BY <1>1, <2>3
      <3>2. ~(c < at) /\ i = c + n  BY <1>1, <2>3, <3>1
      <3> QED  BY <1>4, <1>6, <2>3, <3>2
    <2>4. CASE ~(i < at) /\ ~e.insert /\ i + n \in 0 .. max
      <3>1. PICK c \in 0 .. max : c = i + n  BY <2>4
      <3>2. ~(c < at) /\ i = c - n /\ i >= at  BY <1>1, <2>4, <3>1
      <3> QED  BY <1>4, <1>6, <2>4, <3>2
    <2>5. CASE ~(i < at) /\ ~e.insert /\ i + n \notin 0 .. max  BY <1>5, <2>5
    <2> QED  BY <2>1, <2>2, <2>3, <2>4, <2>5
  <1>9. ASSUME NEW i \in 0 .. max
        PROVE  /\ after[i] \in Nat
               /\ after[i] < fresh => \E c \in 0 .. max : Survives(c, e, max) /\ ShiftLine(c, e, max) = i
               /\ ~(after[i] < fresh) => after[i] = (IF e.insert THEN fresh + i - at ELSE fresh + i)
    <2>1. CASE \E c \in 0 .. max : Survives(c, e, max) /\ ShiftLine(c, e, max) = i /\ after[i] = ids[c]
      <3>1. PICK c \in 0 .. max : Survives(c, e, max) /\ ShiftLine(c, e, max) = i /\ after[i] = ids[c]  BY <2>1
      <3>2. ids[c] \in Nat /\ ids[c] < fresh  OBVIOUS
      <3> QED  BY <3>1, <3>2
    <2>2. CASE after[i] = (IF e.insert THEN fresh + i - at ELSE fresh + i) /\ (e.insert => ~(i < at))
      <3>1. after[i] \in Nat /\ ~(after[i] < fresh)  BY <1>1, <2>2
      <3> QED  BY <2>2, <3>1
    <2> QED  BY <1>8, <2>1, <2>2
  <1>10. ASSUME OneLine(ids), NEW i \in 0 .. max, NEW j \in 0 .. max, after[i] = after[j]
         PROVE  i = j
    <2>1. \A c, d \in 0 .. max : ids[c] = ids[d] => c = d  BY <1>1, <1>10 DEF OneLine
    <2>2. CASE after[i] < fresh
      <3>1. PICK c \in 0 .. max : Survives(c, e, max) /\ ShiftLine(c, e, max) = i  BY <1>9, <2>2
      <3>2. PICK d \in 0 .. max : Survives(d, e, max) /\ ShiftLine(d, e, max) = j  BY <1>9, <1>10, <2>2
      <3>3. after[i] = ids[c] /\ after[j] = ids[d]  BY <1>7, <3>1, <3>2
      <3>4. c = d  BY <1>10, <2>1, <3>3
      <3> QED  BY <3>1, <3>2, <3>4
    <2>3. CASE ~(after[i] < fresh)
      <3>1. /\ after[i] = (IF e.insert THEN fresh + i - at ELSE fresh + i)
            /\ after[j] = (IF e.insert THEN fresh + j - at ELSE fresh + j)
        BY <1>9, <1>10, <2>3
      <3>2. CASE e.insert
        <4>1. fresh + i - at = fresh + j - at  BY <1>10, <3>1, <3>2
        <4> QED  BY <1>1, <4>1
      <3>3. CASE ~e.insert
        <4>1. fresh + i = fresh + j  BY <1>10, <3>1, <3>3
        <4> QED  BY <4>1
      <3> QED  BY <3>2, <3>3
    <2> QED  BY <2>2, <2>3
  <1>11. OneLine(ids) => OneLine(after)  BY <1>2, <1>10 DEF OneLine
  <1> QED  BY <1>2, <1>7, <1>9, <1>11 DEF LinesMoved, after

(* What is alive after an edit, of what was there. *)
Lined(ids, max) ==
    max \in Nat /\ fresh \in Nat /\ ids \in [0 .. max -> Nat] /\ \A i \in 0 .. max : ids[i] < fresh

OldAlive(ids, after, e, max) ==
    \A id \in Nat : id < fresh =>
        (id \in Alive(after) <=> \E c \in 0 .. max : Survives(c, e, max) /\ ids[c] = id)

LEMMA AliveAfter ==
    ASSUME NEW max, NEW ids, Lined(ids, max), NEW e, NEW after, LinesMoved(ids, after, e, max)
    PROVE  OldAlive(ids, after, e, max)
  <1> SUFFICES ASSUME NEW id \in Nat, id < fresh
               PROVE  id \in Alive(after) <=> \E c \in 0 .. max : Survives(c, e, max) /\ ids[c] = id
    BY DEF OldAlive
  <1> max \in Nat /\ fresh \in Nat /\ ids \in [0 .. max -> Nat] /\ \A i \in 0 .. max : ids[i] < fresh
    BY DEF Lined
  <1>1. /\ DOMAIN after = 0 .. max
        /\ \A c \in 0 .. max : Survives(c, e, max) =>
              ShiftLine(c, e, max) \in 0 .. max /\ after[ShiftLine(c, e, max)] = ids[c]
        /\ \A i \in 0 .. max :
              after[i] < fresh => \E c \in 0 .. max : Survives(c, e, max) /\ ShiftLine(c, e, max) = i
    BY DEF LinesMoved
  <1>2. ASSUME id \in Alive(after)  PROVE \E c \in 0 .. max : Survives(c, e, max) /\ ids[c] = id
    <2>1. PICK i \in 0 .. max : after[i] = id  BY <1>1, <1>2 DEF Alive
    <2>2. PICK c \in 0 .. max : Survives(c, e, max) /\ ShiftLine(c, e, max) = i  BY <1>1, <2>1
    <2> QED  BY <1>1, <2>1, <2>2
  <1>3. ASSUME NEW c \in 0 .. max, Survives(c, e, max), ids[c] = id  PROVE id \in Alive(after)
    BY <1>1, <1>3 DEF Alive
  <1> QED  BY <1>2, <1>3

(* A band of a whole axis. *)
LEMMA BandKept ==
    ASSUME NEW max \in Nat, fresh \in Nat, NEW ids \in [0 .. max -> Nat], \A i \in 0 .. max : ids[i] < fresh,
           NEW e, NEW after, LinesMoved(ids, after, e, max),
           NEW born \in 0 .. fresh, NEW meant \in SUBSET Nat, \A id \in meant : id < born,
           OldOnly(0, max, ids, meant, born)
    PROVE  OldOnly(0, max, after, meant, born)
  <1>1. /\ DOMAIN after = 0 .. max
        /\ \A i \in 0 .. max : after[i] \in Nat /\
              (after[i] < fresh => \E c \in 0 .. max : Survives(c, e, max) /\ ShiftLine(c, e, max) = i)
    BY DEF LinesMoved
  <1>2. \A id \in Nat : id < fresh =>
          (id \in Alive(after) <=> \E c \in 0 .. max : Survives(c, e, max) /\ ids[c] = id)
    <2>1. Lined(ids, max)  BY DEF Lined
    <2>2. OldAlive(ids, after, e, max)  BY <2>1, AliveAfter
    <2> QED  BY <2>2 DEF OldAlive
  <1>3. \A id : id \in Covered(0, max, ids) /\ id < born <=> id \in meant /\ id \in Alive(ids)
    BY DEF OldOnly
  <1>4. Covered(0, max, after) = Alive(after)  BY <1>1 DEF Covered, Alive
  <1>5. Alive(after) \subseteq Nat  BY <1>1 DEF Alive
  <1>6. ASSUME NEW id \in Alive(after), id < born  PROVE id \in meant
    <2>1. id < fresh /\ id \in Nat  BY <1>5, <1>6
    <2>2. PICK c \in 0 .. max : ids[c] = id  BY <1>2, <2>1
    <2>3. id \in Covered(0, max, ids)  BY <2>2 DEF Covered
    <2> QED  BY <1>3, <1>6, <2>3
  <1>7. ASSUME NEW id \in Alive(after), id \in meant  PROVE id < born  BY <1>7
  <1>8. {id \in Covered(0, max, after) : id < born} = meant \cap Alive(after)
    BY <1>4, <1>6, <1>7
  <1> QED  BY <1>8 DEF OldOnly

(* A span that is not lost keeps the lines it meant, and the ends it meant. *)
LEMMA SpanKept ==
    ASSUME NEW max \in Nat, fresh \in Nat, NEW ids \in [0 .. max -> Nat], \A i \in 0 .. max : ids[i] < fresh,
           OneLine(ids), NEW e, LineEdit(e, max), NEW after, LinesMoved(ids, after, e, max),
           NEW born \in 0 .. fresh, NEW meant \in SUBSET Nat, \A id \in meant : id < born,
           NEW lo \in 0 .. max, NEW hi \in lo .. max, ShiftSpan(lo, hi, e, max) # NoSpan,
           OldOnly(lo, hi, ids, meant, born), EndsMeant(lo, hi, ids, meant)
    PROVE  LET span == ShiftSpan(lo, hi, e, max)
           IN  /\ OldOnly(span[1], span[2], after, meant, born)
               /\ EndsMeant(span[1], span[2], after, meant)
  <1> DEFINE span == ShiftSpan(lo, hi, e, max)
  <1>1. /\ DOMAIN after = 0 .. max
        /\ \A c \in 0 .. max : Survives(c, e, max) =>
              ShiftLine(c, e, max) \in 0 .. max /\ after[ShiftLine(c, e, max)] = ids[c]
        /\ \A i \in 0 .. max : after[i] \in Nat /\
              (after[i] < fresh => \E c \in 0 .. max : Survives(c, e, max) /\ ShiftLine(c, e, max) = i)
    BY DEF LinesMoved
  <1>2. \A id \in Nat : id < fresh =>
          (id \in Alive(after) <=> \E c \in 0 .. max : Survives(c, e, max) /\ ids[c] = id)
    <2>1. Lined(ids, max)  BY DEF Lined
    <2>2. OldAlive(ids, after, e, max)  BY <2>1, AliveAfter
    <2> QED  BY <2>2 DEF OldAlive
  <1>3. span[1] \in 0 .. max /\ span[2] \in span[1] .. max  BY SpanStaysASpan
  <1>4. \A c \in 0 .. max : Survives(c, e, max) =>
          (c \in lo .. hi <=> ShiftLine(c, e, max) \in span[1] .. span[2])
    <2> SUFFICES  ASSUME NEW c \in 0 .. max, Survives(c, e, max)
                 PROVE  c \in lo .. hi <=> ShiftLine(c, e, max) \in span[1] .. span[2]
      OBVIOUS
    <2>1. InSpan(c, <<lo, hi>>) <=> InSpan(ShiftLine(c, e, max), span)  BY SpanFollowsLines
    <2>2. ShiftLine(c, e, max) \in 0 .. max  BY <1>1
    <2> HIDE DEF span
    <2> QED  BY <1>3, <2>1, <2>2 DEF InSpan
  <1>5. \A id : id \in Covered(lo, hi, ids) /\ id < born <=> id \in meant /\ id \in Alive(ids)
    BY DEF OldOnly
  <1>6. \A c, d \in 0 .. max : ids[c] = ids[d] => c = d  BY DEF OneLine
  <1>7. Survives(lo, e, max) => span[1] = ShiftLine(lo, e, max)
    BY DEF ShiftSpan, ShrunkSpan, ShiftLine, Survives, NoSpan, LineEdit, Gone
  <1>8. Survives(hi, e, max) => span[2] = ShiftLine(hi, e, max)
    BY DEF ShiftSpan, ShrunkSpan, ShiftLine, Survives, NoSpan, LineEdit, Gone
  <1> HIDE DEF span
  <1>9. Alive(after) \subseteq Nat /\ \A i \in span[1] .. span[2] : i \in 0 .. max
    <2>1. \A id \in Alive(after) : id \in Nat  BY <1>1 DEF Alive
    <2> QED  BY <1>3, <2>1
  <1>10. ASSUME NEW id \in Covered(span[1], span[2], after), id < born  PROVE id \in meant /\ id \in Alive(after)
    <2>1. PICK i \in span[1] .. span[2] : id = after[i]  BY DEF Covered
    <2>2. id \in Nat /\ id < fresh /\ i \in 0 .. max  BY <1>1, <1>9, <1>10, <2>1
    <2>3. PICK c \in 0 .. max : Survives(c, e, max) /\ ShiftLine(c, e, max) = i  BY <1>1, <2>1, <2>2
    <2>4. ids[c] = id /\ c \in lo .. hi  BY <1>1, <1>4, <2>1, <2>3
    <2>5. id \in Covered(lo, hi, ids)  BY <2>4 DEF Covered
    <2>6. id \in Alive(after)  BY <1>1, <2>1, <2>2 DEF Alive
    <2> QED  BY <1>5, <1>10, <2>5, <2>6
  <1>11. ASSUME NEW id \in Alive(after), id \in meant  PROVE id \in Covered(span[1], span[2], after) /\ id < born
    <2>1. id < born /\ id < fresh /\ id \in Nat  BY <1>9, <1>11
    <2>2. PICK c \in 0 .. max : Survives(c, e, max) /\ ids[c] = id  BY <1>2, <2>1
    <2>3. id \in Alive(ids)  BY <2>2 DEF Alive
    <2>4. id \in Covered(lo, hi, ids)  BY <1>5, <1>11, <2>3
    <2>5. PICK d \in lo .. hi : ids[d] = id  BY <2>4 DEF Covered
    <2>6. c = d  BY <1>6, <2>2, <2>5
    <2>7. ShiftLine(c, e, max) \in span[1] .. span[2] /\ after[ShiftLine(c, e, max)] = id
      BY <1>1, <1>4, <2>2, <2>5, <2>6
    <2> QED  BY <2>1, <2>7 DEF Covered
  <1>12. OldOnly(span[1], span[2], after, meant, born)  BY <1>10, <1>11 DEF OldOnly
  <1>13. EndsMeant(span[1], span[2], after, meant)
    <2>1. ASSUME NEW id \in meant, id \notin Alive(ids)  PROVE id \notin Alive(after)
      <3>1. id < fresh /\ id \in Nat  BY <2>1
      <3>2. \A c \in 0 .. max : ids[c] \in Alive(ids)  BY DEF Alive
      <3> QED  BY <1>2, <2>1, <3>1, <3>2
    <2>2. CASE ~(meant \subseteq Alive(ids))  BY <2>1, <2>2 DEF EndsMeant
    <2>3. CASE {ids[lo], ids[hi]} \subseteq meant
      <3>1. ASSUME NEW d \in 0 .. max, ids[d] \in meant, ~Survives(d, e, max)  PROVE ids[d] \notin Alive(after)
        <4>1. ids[d] < fresh /\ ids[d] \in Nat  OBVIOUS
        <4>2. ~\E c \in 0 .. max : Survives(c, e, max) /\ ids[c] = ids[d]  BY <1>6, <3>1
        <4> QED  BY <1>2, <4>1, <4>2
      <3>2. lo \in 0 .. max /\ hi \in 0 .. max  OBVIOUS
      <3>3. CASE ~Survives(lo, e, max)  BY <2>3, <3>1, <3>2, <3>3 DEF EndsMeant
      <3>4. CASE ~Survives(hi, e, max)  BY <2>3, <3>1, <3>2, <3>4 DEF EndsMeant
      <3>5. CASE Survives(lo, e, max) /\ Survives(hi, e, max)
        <4>1. after[span[1]] = ids[lo] /\ after[span[2]] = ids[hi]  BY <1>1, <1>7, <1>8, <3>2, <3>5
        <4> QED  BY <2>3, <4>1 DEF EndsMeant
      <3> QED  BY <3>3, <3>4, <3>5
    <2> QED  BY <2>2, <2>3 DEF EndsMeant
  <1> QED  BY <1>12, <1>13 DEF span

(* A span is lost when nothing of it is left, or an end fell off. *)
LEMMA SpanLost ==
    ASSUME NEW max \in Nat, fresh \in Nat, NEW ids \in [0 .. max -> Nat], \A i \in 0 .. max : ids[i] < fresh,
           OneLine(ids), NEW e, LineEdit(e, max), NEW after, LinesMoved(ids, after, e, max),
           NEW lo \in 0 .. max, NEW hi \in lo .. max, ShiftSpan(lo, hi, e, max) = NoSpan
    PROVE  IF e.insert THEN \E c \in {lo, hi} : c \in DOMAIN ids \cap (max + 1 - e.n .. max)
           ELSE Covered(lo, hi, ids) \cap Alive(after) = {}
  <1>1. CASE e.insert
    <2>1. ShiftLine(lo, e, max) = Gone \/ ShiftLine(hi, e, max) = Gone
      <3>1. SUFFICES ASSUME ShiftLine(lo, e, max) # Gone, ShiftLine(hi, e, max) # Gone PROVE FALSE  OBVIOUS
      <3>2. ShiftSpan(lo, hi, e, max) = <<ShiftLine(lo, e, max), ShiftLine(hi, e, max)>>
        BY <1>1, <3>1 DEF ShiftSpan
      <3> QED  BY <3>1, <3>2 DEF NoSpan
    <2>2. \A c \in 0 .. max : ShiftLine(c, e, max) = Gone => c \in max + 1 - e.n .. max
      BY <1>1 DEF ShiftLine, Gone, LineEdit
    <2>3. lo \in 0 .. max /\ hi \in 0 .. max /\ DOMAIN ids = 0 .. max  OBVIOUS
    <2> QED  BY <1>1, <2>1, <2>2, <2>3
  <1>2. CASE ~e.insert
    <2>1. \A c \in lo .. hi : ~Survives(c, e, max)  BY <1>2, DeletionSparesSurvivors
    <2>2. SUFFICES ASSUME NEW id \in Covered(lo, hi, ids), id \in Alive(after)  PROVE FALSE
      BY <1>2
    <2>3. PICK c \in lo .. hi : ids[c] = id  BY DEF Covered
    <2>4. id < fresh /\ c \in 0 .. max  BY <2>3
    <2>5. PICK d \in 0 .. max : Survives(d, e, max) /\ ids[d] = id
      <3>1. Lined(ids, max) /\ id \in Nat  BY <2>3 DEF Lined
      <3>2. OldAlive(ids, after, e, max)  BY <3>1, AliveAfter
      <3> QED  BY <2>2, <2>4, <3>1, <3>2 DEF OldAlive
    <2>6. c = d  BY <2>3, <2>4, <2>5 DEF OneLine
    <2> QED  BY <2>1, <2>5, <2>6
  <1> QED  BY <1>1, <1>2

-----------------------------------------------------------------------------
(***************************************************************************)
(* Through any edits: no line is there twice; references follow what they  *)
(* meant; a cell that is not adrift is at home in its row and column; and  *)
(* merges stay on their cells, apart.                                      *)
(***************************************************************************)
LinesOnce == \A s \in Sheets : OneLine(book[s].rows) /\ OneLine(book[s].cols)

AtHome(sh, p) == sh.home[p] = Adrift \/ (p \in Positions /\ sh.home[p] = <<sh.rows[p[1]], sh.cols[p[2]]>>)
HomesHold == \A s \in Sheets : \A p \in DOMAIN book[s].cells : AtHome(book[s], p)

BoxFollows(sh, box, of) ==
    /\ sh.sid = of.sid
    /\ SpanFollows(box.top, box.bottom, sh.rows, of.rows, of.born, FALSE)
    /\ SpanFollows(box.left, box.right, sh.cols, of.cols, of.born, FALSE)
OnCells(sh, m) == m.of = NoMeaning \/ (m.box \in Boxes /\ BoxFollows(sh, m.box, m.of))
MergesHold ==
    \A s \in Sheets : \A m \in book[s].merges :
        OnCells(book[s], m) /\ \A k \in book[s].merges : k # m => Apart(m.box, k.box)

FollowInv == LinesOnce /\ CellsFollow /\ HomesHold /\ MergesHold

LEMMA SpanFollowsAnyway ==
    ASSUME NEW lo, NEW hi, NEW ids, NEW meant, NEW born, NEW band,
           SpanFollows(lo, hi, ids, meant, born, FALSE)
    PROVE  SpanFollows(lo, hi, ids, meant, born, band)
  BY DEF SpanFollows

LEMMA FollowInvSuffices == TypeOK /\ FollowInv => EditsMoveTogether
  <1> SUFFICES ASSUME TypeOK, FollowInv PROVE EditsMoveTogether  OBVIOUS
  <1>1. RefsFollow
    <2>1. SUFFICES ASSUME NEW k \in Formulas(book)
                   PROVE  LET content == book[k[1]].cells[k[2]]
                          IN  IF content.kind = "ref"
                              THEN AreaFollows(book[content.sheet], content.area, content.of)
                              ELSE Lost(content.of)
      BY DEF RefsFollow
    <2>2. PICK s \in DOMAIN book : \E p \in DOMAIN book[s].cells : k = <<s, p>> /\ Parsed(book[s].cells[p])
      BY FormulaKeys
    <2>3. PICK p \in DOMAIN book[s].cells : k = <<s, p>> /\ Parsed(book[s].cells[p])  BY <2>2
    <2>4. k[1] = s /\ k[2] = p  BY <2>3
    <2>5. ContentFollows(book[s].cells[p])  BY <2>2, <2>3 DEF FollowInv, CellsFollow, Sheets
    <2> QED  BY <2>3, <2>4, <2>5 DEF ContentFollows, Parsed
  <1>2. StayPut
    <2>1. SUFFICES ASSUME NEW s \in Sheets
                   PROVE  /\ \A p \in DOMAIN book[s].cells :
                                book[s].home[p] = Adrift \/ book[s].home[p] = <<book[s].rows[p[1]], book[s].cols[p[2]]>>
                          /\ \A m \in book[s].merges :
                                /\ m.of = NoMeaning \/ AreaFollows(book[s], m.box, m.of)
                                /\ \A k \in book[s].merges \ {m} :
                                      ~\E p \in Positions : In(p, m.box) /\ In(p, k.box)
      BY DEF StayPut
    <2>2. ASSUME NEW p \in DOMAIN book[s].cells
          PROVE  book[s].home[p] = Adrift \/ book[s].home[p] = <<book[s].rows[p[1]], book[s].cols[p[2]]>>
      BY DEF FollowInv, HomesHold, AtHome
    <2>3. ASSUME NEW m \in book[s].merges  PROVE m.of = NoMeaning \/ AreaFollows(book[s], m.box, m.of)
      <3>1. m.of = NoMeaning \/ BoxFollows(book[s], m.box, m.of)  BY DEF FollowInv, MergesHold, OnCells
      <3> QED  BY <3>1, SpanFollowsAnyway DEF BoxFollows, AreaFollows
    <2>4. ASSUME NEW m \in book[s].merges, NEW k \in book[s].merges \ {m}, NEW p \in Positions,
                 In(p, m.box), In(p, k.box)
          PROVE  FALSE
      <3>1. Apart(m.box, k.box)  BY DEF FollowInv, MergesHold
      <3>2. m.box \in WideBoxes /\ k.box \in WideBoxes  BY SheetFields
      <3>3. p[1] \in Nat /\ p[2] \in Nat  BY OnGrid DEF Positions, Rows, Cols
      <3> QED  BY <2>4, <3>1, <3>2, <3>3, OnGrid DEF Apart, In, WideBoxes
    <2> QED  BY <2>2, <2>3, <2>4
  <1> QED  BY <1>1, <1>2 DEF EditsMoveTogether

(* What follows, in a given workbook. *)
LostOn(sh, fell, of) ==
    sh.sid = of.sid =>
        \/ of.rows \cap {sh.rows[i] : i \in Rows} = {}
        \/ of.cols \cap {sh.cols[i] : i \in Cols} = {}
        \/ \E id \in of.rows : <<"row", of.sid, id>> \in fell
        \/ \E id \in of.cols : <<"col", of.sid, id>> \in fell
FollowsIn(b, fell, c) ==
    /\ c.kind = "ref" => AreaFollows(b[c.sheet], c.area, c.of)
    /\ c.kind = "broken" => \A t \in DOMAIN b : LostOn(b[t], fell, c.of)

LEMMA FollowsHere == \A c : ContentFollows(c) <=> FollowsIn(book, fallen, c)
  BY DEF ContentFollows, FollowsIn, Lost, LostOn, Sheets

LEMMA FollowsThere ==
    CellsFollow' <=> \A t \in Sheets' : \A p \in DOMAIN book'[t].cells : FollowsIn(book', fallen', book'[t].cells[p])
  <1>1. ASSUME NEW c  PROVE FollowsIn(book', fallen', c) <=> ContentFollows(c)'
    BY DEF ContentFollows, FollowsIn, Lost, LostOn, Sheets, AreaFollows
  <1> QED  BY <1>1 DEF CellsFollow

(* What is said of a sheet rests on its identity and its lines. *)
SameLines(sh, sh2) == sh.sid = sh2.sid /\ sh.rows = sh2.rows /\ sh.cols = sh2.cols

LEMMA SameLinesFollow ==
    ASSUME NEW sh, NEW sh2, SameLines(sh, sh2)
    PROVE  /\ \A area, of : AreaFollows(sh, area, of) <=> AreaFollows(sh2, area, of)
           /\ \A fell, of : LostOn(sh, fell, of) <=> LostOn(sh2, fell, of)
           /\ \A m : OnCells(sh, m) <=> OnCells(sh2, m)
  BY DEF SameLines, AreaFollows, LostOn, OnCells, BoxFollows

LEMMA SheetsAlike ==
    ASSUME Sheets' = Sheets, fallen' = fallen, \A t \in Sheets : SameLines(book[t], book'[t])
    PROVE  /\ \A c : (c.kind = "ref" => c.sheet \in Sheets) =>
                        (FollowsIn(book, fallen, c) <=> FollowsIn(book', fallen', c))
           /\ LinesOnce => LinesOnce'
  <1>1. \A t \in Sheets : /\ \A area, of : AreaFollows(book[t], area, of) <=> AreaFollows(book'[t], area, of)
                          /\ \A of : LostOn(book[t], fallen, of) <=> LostOn(book'[t], fallen', of)
    BY SameLinesFollow
  <1>2. DOMAIN book = Sheets /\ DOMAIN book' = Sheets  BY DEF Sheets
  <1>3. ASSUME NEW c, c.kind = "ref" => c.sheet \in Sheets
        PROVE  FollowsIn(book, fallen, c) <=> FollowsIn(book', fallen', c)
    BY <1>1, <1>2, <1>3 DEF FollowsIn
  <1>4. LinesOnce => LinesOnce'  BY DEF LinesOnce, SameLines, OneLine
  <1> QED  BY <1>3, <1>4

LEMMA WriteKeepsFollow ==
    ASSUME TypeOK, FollowInv, NEW s \in Sheets, NEW contents, Fits(contents), Write(s, contents)
    PROVE  FollowInv'
  <1> DEFINE C == [p \in KeptCells(s, contents) |->
                      IF p \in DOMAIN contents THEN contents[p] ELSE book[s].cells[p]]
             H == [p \in KeptCells(s, contents) |->
                      IF p \in DOMAIN contents THEN <<book[s].rows[p[1]], book[s].cols[p[2]]>>
                      ELSE book[s].home[p]]
  <1>1. book' = Written(s, contents) /\ fallen' = fallen  BY DEF Write
  <1>2. /\ \A t \in Sheets \ {s} : book'[t] = book[t]
        /\ book'[s] \in Exactly(book[s].name, book[s].sid, book[s].rows, book[s].cols, C, H, book[s].merges)
    BY <1>1, WrittenIs
  <1>3. Sheets' = Sheets  BY WriteKeepsType
  <1>4. /\ book'[s].sid = book[s].sid /\ book'[s].rows = book[s].rows /\ book'[s].cols = book[s].cols
        /\ book'[s].cells = C /\ book'[s].home = H /\ book'[s].merges = book[s].merges
    BY <1>2, ExactlyIs
  <1>5. \A t \in Sheets : SameLines(book[t], book'[t])  BY <1>2, <1>4 DEF SameLines
  <1>6. /\ DOMAIN C = KeptCells(s, contents) /\ DOMAIN H = KeptCells(s, contents)
        /\ \A p \in KeptCells(s, contents) :
              /\ C[p] = IF p \in DOMAIN contents THEN contents[p] ELSE book[s].cells[p]
              /\ H[p] = IF p \in DOMAIN contents THEN <<book[s].rows[p[1]], book[s].cols[p[2]]>>
                        ELSE book[s].home[p]
              /\ p \in DOMAIN contents \/ p \in DOMAIN book[s].cells
              /\ p \in DOMAIN contents => contents[p] # Blank
    BY DEF KeptCells
  <1> HIDE DEF C, H
  <1>7. LinesOnce'  BY <1>1, <1>3, <1>5, SheetsAlike DEF FollowInv
  <1>8. CellsFollow'
    <2>1. SUFFICES ASSUME NEW t \in Sheets, NEW p \in DOMAIN book'[t].cells
                   PROVE  FollowsIn(book', fallen', book'[t].cells[p])
      BY <1>3, FollowsThere
    <2>2. CellsFollow  BY DEF FollowInv
    <2>3. book'[t].cells[p] \in Contents /\ ContentFollows(book'[t].cells[p])
      <3>1. CASE t # s
        BY <1>2, <2>2, <3>1, SheetFields DEF CellsFollow
      <3>2. CASE t = s /\ p \in DOMAIN contents
        BY <1>4, <1>6, <2>2, <3>2 DEF Fits
      <3>3. CASE t = s /\ p \notin DOMAIN contents
        BY <1>4, <1>6, <2>2, <3>3, SheetFields DEF CellsFollow
      <3> QED  BY <3>1, <3>2, <3>3
    <2>4. book'[t].cells[p].kind = "ref" => book'[t].cells[p].sheet \in Sheets  BY <2>3, ContentKinds
    <2> QED  BY <1>1, <1>3, <1>5, <2>3, <2>4, SheetsAlike, FollowsHere
  <1>9. HomesHold'
    <2>1. SUFFICES ASSUME NEW t \in Sheets, NEW p \in DOMAIN book'[t].cells  PROVE AtHome(book'[t], p)
      BY <1>3 DEF HomesHold, AtHome
    <2>2. CASE t # s  BY <1>2, <2>2 DEF FollowInv, HomesHold
    <2>3. CASE t = s /\ p \in DOMAIN contents
      <3>1. p \in Positions  BY <2>3 DEF Fits
      <3> QED  BY <1>4, <1>6, <2>3, <3>1 DEF AtHome
    <2>4. CASE t = s /\ p \notin DOMAIN contents
      <3>1. AtHome(book[s], p)  BY <1>4, <1>6, <2>4 DEF FollowInv, HomesHold
      <3> QED  BY <1>4, <1>6, <2>4, <3>1 DEF AtHome
    <2> QED  BY <2>2, <2>3, <2>4
  <1>10. MergesHold'
    <2>1. \A t \in Sheets : book'[t].merges = book[t].merges  BY <1>2, <1>4
    <2>2. \A t \in Sheets : \A m : OnCells(book[t], m) <=> OnCells(book'[t], m)  BY <1>5, SameLinesFollow
    <2> QED  BY <1>3, <2>1, <2>2 DEF FollowInv, MergesHold, OnCells, BoxFollows
  <1> QED  BY <1>7, <1>8, <1>9, <1>10 DEF FollowInv

(* Edits that leave every sheet with its cells, its lines and its merges. *)
LEMMA CalmKeepsFollow ==
    ASSUME TypeOK, FollowInv, Sheets' = Sheets, fallen' = fallen,
           \A t \in Sheets : /\ SameLines(book[t], book'[t]) /\ book'[t].cells = book[t].cells
                             /\ book'[t].home = book[t].home /\ book'[t].merges = book[t].merges
    PROVE  FollowInv'
  <1>1. LinesOnce'  BY SheetsAlike DEF FollowInv
  <1>2. CellsFollow'
    <2>1. SUFFICES ASSUME NEW t \in Sheets, NEW p \in DOMAIN book'[t].cells
                   PROVE  FollowsIn(book', fallen', book'[t].cells[p])
      BY FollowsThere
    <2>2. book'[t].cells[p] \in Contents /\ ContentFollows(book'[t].cells[p])
      BY SheetFields DEF FollowInv, CellsFollow
    <2>3. book'[t].cells[p].kind = "ref" => book'[t].cells[p].sheet \in Sheets  BY <2>2, ContentKinds
    <2> QED  BY <2>2, <2>3, SheetsAlike, FollowsHere
  <1>3. HomesHold'
    <2>1. \A t \in Sheets : \A p \in DOMAIN book[t].cells : AtHome(book[t], p)  BY DEF FollowInv, HomesHold
    <2>2. \A t \in Sheets : \A p : AtHome(book[t], p) <=> AtHome(book'[t], p)  BY DEF AtHome, SameLines
    <2> QED  BY <2>1, <2>2 DEF HomesHold, AtHome
  <1>4. MergesHold'
    <2>1. \A t \in Sheets : \A m : OnCells(book[t], m) <=> OnCells(book'[t], m)  BY SameLinesFollow
    <2> QED  BY <2>1 DEF FollowInv, MergesHold, OnCells, BoxFollows
  <1> QED  BY <1>1, <1>2, <1>3, <1>4 DEF FollowInv

LEMMA RenameKeepsFollow ==
    ASSUME TypeOK, FollowInv, NEW s, NEW name, RenameSheet(s, name)
    PROVE  FollowInv'
  <1>1. /\ s \in Sheets /\ Sheets' = Sheets
        /\ \A t \in Sheets \ {s} : book'[t] = book[t]
        /\ book'[s] \in Exactly(name, book[s].sid, book[s].rows, book[s].cols,
                                book[s].cells, book[s].home, book[s].merges)
    BY RenameIs
  <1>2. fallen' = fallen  BY DEF RenameSheet
  <1>3. /\ book'[s].sid = book[s].sid /\ book'[s].rows = book[s].rows /\ book'[s].cols = book[s].cols
        /\ book'[s].cells = book[s].cells /\ book'[s].home = book[s].home /\ book'[s].merges = book[s].merges
    BY <1>1, ExactlyIs
  <1> QED  BY <1>1, <1>2, <1>3, CalmKeepsFollow DEF SameLines

LEMMA SameBookKeepsFollow ==
    ASSUME TypeOK, FollowInv, book' = book, fallen' = fallen
    PROVE  FollowInv'
  BY CalmKeepsFollow DEF SameLines, Sheets

LEMMA DeleteKeepsFollow ==
    ASSUME TypeOK, Distinct, FollowInv, NEW gone, DeleteSheet(gone)
    PROVE  FollowInv'
  <1> DEFINE from(t) == Down(t, gone)
  <1>1. /\ gone \in Sheets /\ Sheets' = 1 .. Len(book) - 1 /\ fresh' = fresh
        /\ \A t \in Sheets' : /\ from(t) \in Sheets \ {gone} /\ Up(from(t), gone) = t
                              /\ book'[t] \in
                                   Exactly(book[from(t)].name, book[from(t)].sid,
                                           book[from(t)].rows, book[from(t)].cols,
                                           [p \in DOMAIN book[from(t)].cells |->
                                              Dropped(book[from(t)].cells[p], gone)],
                                           book[from(t)].home, book[from(t)].merges)
        /\ \A t \in Sheets \ {gone} : Up(t, gone) \in Sheets' /\ from(Up(t, gone)) = t
    BY DeleteIs
  <1>2. fallen' = fallen  BY DEF DeleteSheet
  <1> HIDE DEF from
  <1>3. \A t \in Sheets' :
          /\ SameLines(book[from(t)], book'[t])
          /\ book'[t].cells = [p \in DOMAIN book[from(t)].cells |-> Dropped(book[from(t)].cells[p], gone)]
          /\ book'[t].home = book[from(t)].home /\ book'[t].merges = book[from(t)].merges
    BY <1>1, ExactlyIs DEF SameLines
  <1>4. \A t \in Sheets' : /\ from(t) \in Sheets /\ from(t) # gone
                           /\ DOMAIN book'[t].cells = DOMAIN book[from(t)].cells
                           /\ \A p \in DOMAIN book[from(t)].cells :
                                 book'[t].cells[p] = Dropped(book[from(t)].cells[p], gone)
    BY <1>1, <1>3
  <1>5. LinesOnce'
    <2>1. ASSUME NEW t \in Sheets'  PROVE OneLine(book'[t].rows) /\ OneLine(book'[t].cols)
      <3>1. OneLine(book[from(t)].rows) /\ OneLine(book[from(t)].cols)  BY <1>4 DEF FollowInv, LinesOnce
      <3>2. book'[t].rows = book[from(t)].rows /\ book'[t].cols = book[from(t)].cols  BY <1>3 DEF SameLines
      <3> QED  BY <3>1, <3>2
    <2> QED  BY <2>1 DEF LinesOnce, OneLine
  <1>6. CellsFollow'
    <2>1. SUFFICES ASSUME NEW t \in Sheets', NEW p \in DOMAIN book'[t].cells
                   PROVE  FollowsIn(book', fallen', book'[t].cells[p])
      BY FollowsThere
    <2> DEFINE c == book[from(t)].cells[p]
               d == book'[t].cells[p]
    <2>2. c \in Contents /\ ContentFollows(c) /\ d = Dropped(c, gone)
      BY <1>4, SheetFields DEF FollowInv, CellsFollow
    <2>3. /\ c.kind # "ref" => d = c
          /\ c.kind = "ref" /\ c.sheet = gone => d = Broken(c.of)
          /\ c.kind = "ref" /\ c.sheet # gone =>
                d.kind = "ref" /\ d.sheet = Up(c.sheet, gone) /\ d.area = c.area /\ d.of = c.of
          /\ c.kind = "ref" => c.sheet \in Sheets
      BY <1>1, <2>2, DroppedIs, ContentKinds
    <2> HIDE DEF c, d
    <2>4. DOMAIN book' = Sheets' /\ DOMAIN book = Sheets  BY DEF Sheets
    <2>5. \A u \in Sheets' : \A of : LostOn(book[from(u)], fallen, of) <=> LostOn(book'[u], fallen', of)
      BY <1>2, <1>3, SameLinesFollow
    <2>6. CASE c.kind = "ref" /\ c.sheet # gone
      <3>1. AreaFollows(book[c.sheet], c.area, c.of)  BY <2>2, <2>6 DEF ContentFollows
      <3>2. Up(c.sheet, gone) \in Sheets' /\ from(Up(c.sheet, gone)) = c.sheet  BY <1>1, <2>3, <2>6
      <3>3. AreaFollows(book'[Up(c.sheet, gone)], c.area, c.of)  BY <1>3, <3>1, <3>2, SameLinesFollow
      <3> QED  BY <2>3, <2>6, <3>3 DEF FollowsIn, d
    <2>7. CASE c.kind = "ref" /\ c.sheet = gone
      <3>1. c.of.sid = book[gone].sid  BY <2>2, <2>7 DEF ContentFollows, AreaFollows
      <3>2. ASSUME NEW u \in Sheets'  PROVE book'[u].sid # book[gone].sid
        <4>1. book'[u].sid = book[from(u)].sid  BY <1>3 DEF SameLines
        <4>2. from(u) \in Sheets /\ from(u) # gone /\ gone \in Sheets  BY <1>1, <1>4
        <4> QED  BY <4>1, <4>2 DEF Distinct
      <3>3. \A u \in Sheets' : LostOn(book'[u], fallen', c.of)  BY <3>1, <3>2 DEF LostOn
      <3>4. d.kind = "broken" /\ d.of = c.of  BY <2>3, <2>7 DEF Broken
      <3> QED  BY <2>4, <3>3, <3>4 DEF FollowsIn, d
    <2>8. CASE c.kind # "ref"
      <3>1. c.kind = "broken" => \A u \in Sheets : LostOn(book[u], fallen, c.of)
        BY <2>2, <2>4, FollowsHere DEF FollowsIn
      <3>2. d = c  BY <2>3, <2>8
      <3>3. c.kind = "broken" => \A u \in Sheets' : LostOn(book'[u], fallen', c.of)  BY <1>4, <2>5, <3>1
      <3> QED  BY <2>4, <2>8, <3>2, <3>3 DEF FollowsIn, d
    <2> QED  BY <2>6, <2>7, <2>8
  <1>7. HomesHold'
    <2>1. ASSUME NEW t \in Sheets', NEW p \in DOMAIN book'[t].cells  PROVE AtHome(book'[t], p)
      <3>1. AtHome(book[from(t)], p)  BY <1>4 DEF FollowInv, HomesHold
      <3> QED  BY <1>3, <3>1 DEF AtHome, SameLines
    <2> QED  BY <2>1 DEF HomesHold, AtHome
  <1>8. MergesHold'
    <2>1. \A t \in Sheets' : \A m : OnCells(book[from(t)], m) <=> OnCells(book'[t], m)  BY <1>3, SameLinesFollow
    <2>2. ASSUME NEW t \in Sheets', NEW m \in book'[t].merges
          PROVE  OnCells(book'[t], m) /\ \A k \in book'[t].merges : k # m => Apart(m.box, k.box)
      <3>1. m \in book[from(t)].merges /\ book'[t].merges = book[from(t)].merges /\ from(t) \in Sheets
        BY <1>3, <1>4
      <3> QED  BY <2>1, <3>1 DEF FollowInv, MergesHold
    <2> QED  BY <2>2 DEF MergesHold, OnCells, BoxFollows
  <1> QED  BY <1>5, <1>6, <1>7, <1>8 DEF FollowInv

LEMMA AddKeepsFollow ==
    ASSUME TypeOK, FollowInv, NEW name \in SheetNames, AddSheet(name)
    PROVE  FollowInv'
  <1> DEFINE new == Len(book) + 1
  <1>1. /\ Sheets = 1 .. Len(book) /\ Len(book) \in Nat /\ Sheets' = 1 .. Len(book) + 1
        /\ \A t \in Sheets : book'[t] = book[t]
        /\ LET sh == book'[new]
           IN  /\ sh.rows = [i \in Rows |-> fresh + i] /\ sh.cols = [i \in Cols |-> fresh + i]
               /\ DOMAIN sh.cells = {} /\ sh.merges = {}
    BY AddIs
  <1>2. fallen' = fallen  BY DEF AddSheet
  <1>3. Sheets' = Sheets \cup {new} /\ new \notin Sheets  BY <1>1
  <1> HIDE DEF new
  <1>4. fresh \in Nat /\ Rows \subseteq Nat /\ Cols \subseteq Nat /\ \A id \in Ids : id < fresh
    BY OnGrid DEF TypeOK, Ids, Rows, Cols
  <1>5. OneLine(book'[new].rows) /\ OneLine(book'[new].cols)
    <2>1. \A D \in SUBSET Nat : OneLine([i \in D |-> fresh + i])  BY <1>4 DEF OneLine
    <2> QED  BY <1>1, <1>4, <2>1
  <1>6. LinesOnce'  BY <1>1, <1>3, <1>5 DEF FollowInv, LinesOnce, OneLine
  <1>7. CellsFollow'
    <2>1. SUFFICES ASSUME NEW t \in Sheets', NEW p \in DOMAIN book'[t].cells
                   PROVE  FollowsIn(book', fallen', book'[t].cells[p])
      BY FollowsThere
    <2>2. t \in Sheets /\ book'[t] = book[t]  BY <1>1, <1>3
    <2> DEFINE c == book[t].cells[p]
    <2>3. c \in Contents /\ ContentFollows(c) /\ book'[t].cells[p] = c
      BY <2>2, SheetFields DEF FollowInv, CellsFollow
    <2> HIDE DEF c
    <2>4. DOMAIN book' = Sheets' /\ DOMAIN book = Sheets  BY DEF Sheets
    <2>5. c.kind = "ref" => c.sheet \in Sheets /\ AreaFollows(book[c.sheet], c.area, c.of)
      BY <2>3, ContentKinds DEF ContentFollows
    <2>6. ASSUME c.kind = "broken"  PROVE \A u \in DOMAIN book' : LostOn(book'[u], fallen', c.of)
      <3>1. \A u \in Sheets : LostOn(book'[u], fallen', c.of)
        BY <1>1, <1>2, <2>3, <2>4, <2>6, FollowsHere DEF FollowsIn
      <3>2. c.of \in Meanings  BY <2>3, <2>6 DEF Contents
      <3>3. c.of.rows \subseteq Ids  BY <3>2 DEF Meanings
      <3>4. \A i \in Rows : book'[new].rows[i] = fresh + i  BY <1>1
      <3>6. \A i \in Rows : ~(fresh + i < fresh)  BY <1>4
      <3>5. c.of.rows \cap {book'[new].rows[i] : i \in Rows} = {}  BY <1>4, <3>3, <3>4, <3>6
      <3> QED  BY <1>3, <2>4, <3>1, <3>5 DEF LostOn
    <2> QED  BY <1>1, <2>3, <2>5, <2>6 DEF FollowsIn
  <1>8. HomesHold'
    <2>1. ASSUME NEW t \in Sheets', NEW p \in DOMAIN book'[t].cells  PROVE AtHome(book'[t], p)
      BY <1>1, <1>3 DEF FollowInv, HomesHold
    <2> QED  BY <2>1 DEF HomesHold, AtHome
  <1>9. MergesHold'
    <2>1. ASSUME NEW t \in Sheets', NEW m \in book'[t].merges
          PROVE  OnCells(book'[t], m) /\ \A k \in book'[t].merges : k # m => Apart(m.box, k.box)
      BY <1>1, <1>3 DEF FollowInv, MergesHold
    <2> QED  BY <2>1 DEF MergesHold, OnCells, BoxFollows
  <1> QED  BY <1>6, <1>7, <1>8, <1>9 DEF FollowInv

LEMMA BoxMeaningFollows ==
    ASSUME TypeOK, NEW s \in Sheets, NEW box \in Boxes
    PROVE  BoxFollows(book[s], box, Meaning(book, s, box))
  BY MeaningFitsLines DEF BoxFollows

LEMMA InitFollow == Init => FollowInv
  <1> SUFFICES ASSUME Init PROVE FollowInv  OBVIOUS
  <1>0. TypeOK  BY InitType
  <1>1. PICK opened \in Books :
              /\ Sheets = 1 .. Len(opened) /\ Len(opened) \in Nat /\ DOMAIN opened = Sheets
              /\ fresh = MaxRow + 2 + Len(opened)
              /\ \E blanks :
                   /\ \A s \in Sheets :
                         blanks[s].sid = s /\ blanks[s].rows = FirstRows /\ blanks[s].cols = FirstCols
                   /\ \A s \in Sheets : book[s] \in
                         Exactly(opened[s].name, s, FirstRows, FirstCols,
                                 [p \in DOMAIN opened[s].cells |-> Entered(blanks, opened[s].cells[p])],
                                 [p \in DOMAIN opened[s].cells |-> <<FirstRows[p[1]], FirstCols[p[2]]>>],
                                 {[box |-> m, of |-> Meaning(blanks, s, m)] : m \in opened[s].merges})
    BY LoadedIs, Zenon
  <1>2. PICK blanks :
           /\ \A s \in Sheets :
                 blanks[s].sid = s /\ blanks[s].rows = FirstRows /\ blanks[s].cols = FirstCols
           /\ \A s \in Sheets : book[s] \in
                         Exactly(opened[s].name, s, FirstRows, FirstCols,
                                 [p \in DOMAIN opened[s].cells |-> Entered(blanks, opened[s].cells[p])],
                                 [p \in DOMAIN opened[s].cells |-> <<FirstRows[p[1]], FirstCols[p[2]]>>],
                                 {[box |-> m, of |-> Meaning(blanks, s, m)] : m \in opened[s].merges})
    BY <1>1, Zenon
  <1>3. ASSUME NEW s \in Sheets
        PROVE  /\ book[s].sid = s /\ book[s].rows = FirstRows /\ book[s].cols = FirstCols
               /\ book[s].cells = [p \in DOMAIN opened[s].cells |-> Entered(blanks, opened[s].cells[p])]
               /\ book[s].home = [p \in DOMAIN opened[s].cells |-> <<FirstRows[p[1]], FirstCols[p[2]]>>]
               /\ book[s].merges = {[box |-> m, of |-> Meaning(blanks, s, m)] : m \in opened[s].merges}
    <2> DEFINE C == [p \in DOMAIN opened[s].cells |-> Entered(blanks, opened[s].cells[p])]
               H == [p \in DOMAIN opened[s].cells |-> <<FirstRows[p[1]], FirstCols[p[2]]>>]
               M == {[box |-> m, of |-> Meaning(blanks, s, m)] : m \in opened[s].merges}
    <2>1. book[s] \in Exactly(opened[s].name, s, FirstRows, FirstCols, C, H, M)  BY <1>2
    <2> HIDE DEF C, H, M
    <2>2. /\ book[s].sid = s /\ book[s].rows = FirstRows /\ book[s].cols = FirstCols
          /\ book[s].cells = C /\ book[s].home = H /\ book[s].merges = M
      BY <2>1, ExactlyIs
    <2> QED  BY <2>2 DEF C, H, M
  <1>4. \A s \in Sheets :
          /\ DOMAIN opened[s].cells \subseteq Positions
          /\ \A p \in DOMAIN opened[s].cells :
                /\ opened[s].cells[p] \in FileEntries
                /\ opened[s].cells[p].kind # "value" => opened[s].cells[p].sheet \in Sheets
          /\ opened[s].merges \subseteq Boxes
          /\ \A m, k \in opened[s].merges : m # k => Apart(m, k)
    BY <1>1, BooksAssumption
  <1>5. ASSUME NEW s \in Sheets, NEW area  PROVE Meaning(blanks, s, area) = Meaning(book, s, area)
    <2>1. /\ blanks[s].sid = book[s].sid /\ blanks[s].rows = book[s].rows /\ blanks[s].cols = book[s].cols
      BY <1>2, <1>3
    <2> QED  BY <2>1 DEF Meaning
  <1>6. LinesOnce
    <2>1. OneLine(FirstRows) /\ OneLine(FirstCols)
      BY OnGrid DEF OneLine, FirstRows, FirstCols, Rows, Cols
    <2> QED  BY <1>3, <2>1 DEF LinesOnce
  <1>7. CellsFollow
    <2>1. SUFFICES ASSUME NEW s \in Sheets, NEW p \in DOMAIN book[s].cells
                   PROVE  ContentFollows(book[s].cells[p])
      BY DEF CellsFollow
    <2> DEFINE entry == opened[s].cells[p]
               C == [q \in DOMAIN opened[s].cells |-> Entered(blanks, opened[s].cells[q])]
    <2>0. book[s].cells = C  BY <1>3
    <2>2. /\ book[s].cells[p] = Entered(blanks, entry) /\ entry \in FileEntries
          /\ entry.kind # "value" => entry.sheet \in Sheets
      <3>1. p \in DOMAIN opened[s].cells  BY <2>0
      <3>2. book[s].cells[p] = Entered(blanks, entry)  BY <2>0, <3>1
      <3> QED  BY <1>4, <3>1, <3>2
    <2> HIDE DEF entry
    <2>3. CASE entry.kind = "value"
      <3>1. Entered(blanks, entry) = Value(entry.v)  BY <2>3 DEF Entered
      <3>2. Value(entry.v).kind = "value"  BY DEF Value
      <3> QED  BY <2>2, <3>1, <3>2 DEF ContentFollows
    <2>4. CASE entry.kind = "ref"
      <3>1. entry.area \in Areas /\ entry.sheet \in Sheets  BY <2>2, <2>4 DEF FileEntries, ReadEntries
      <3>2. Entered(blanks, entry) = Ref(entry.sheet, entry.area, Meaning(book, entry.sheet, entry.area))
        BY <1>5, <2>4, <3>1 DEF Entered
      <3>3. AreaFollows(book[entry.sheet], entry.area, Meaning(book, entry.sheet, entry.area))
        BY <1>0, <3>1, MeaningFollows
      <3>4. \A of : LET c == Ref(entry.sheet, entry.area, of)
                    IN  c.kind = "ref" /\ c.sheet = entry.sheet /\ c.area = entry.area /\ c.of = of
        BY DEF Ref
      <3> QED  BY <2>2, <3>2, <3>3, <3>4 DEF ContentFollows
    <2>5. CASE entry.kind = "verbatim"
      <3>1. Entered(blanks, entry).kind = "verbatim"  BY <2>5 DEF Entered, Verbatim
      <3> QED  BY <2>2, <3>1 DEF ContentFollows
    <2> QED  BY <2>2, <2>3, <2>4, <2>5 DEF FileEntries, ReadEntries
  <1>8. HomesHold
    <2>1. SUFFICES ASSUME NEW s \in Sheets, NEW p \in DOMAIN book[s].cells  PROVE AtHome(book[s], p)
      BY DEF HomesHold
    <2>2. DOMAIN book[s].cells = DOMAIN opened[s].cells  BY <1>3
    <2>3. book[s].home = [q \in DOMAIN opened[s].cells |-> <<FirstRows[q[1]], FirstCols[q[2]]>>]
      BY <1>3
    <2>4. book[s].home[p] = <<FirstRows[p[1]], FirstCols[p[2]]>>  BY <2>2, <2>3
    <2>5. p \in Positions  BY <1>4, <2>2
    <2>6. book[s].rows = FirstRows /\ book[s].cols = FirstCols  BY <1>3
    <2> QED  BY <2>4, <2>5, <2>6 DEF AtHome
  <1>9. MergesHold
    <2>1. SUFFICES ASSUME NEW s \in Sheets, NEW m \in book[s].merges
                   PROVE  OnCells(book[s], m) /\ \A k \in book[s].merges : k # m => Apart(m.box, k.box)
      BY DEF MergesHold
    <2>0. \A k \in book[s].merges : \E box \in opened[s].merges : k = [box |-> box, of |-> Meaning(book, s, box)]
      <3>1. book[s].merges = {[box |-> k, of |-> Meaning(blanks, s, k)] : k \in opened[s].merges}  BY <1>3
      <3>2. \A area : Meaning(blanks, s, area) = Meaning(book, s, area)  BY <1>5
      <3> QED  BY <3>1, <3>2
    <2>2. PICK box \in opened[s].merges : m = [box |-> box, of |-> Meaning(book, s, box)]
      BY <2>0
    <2>3. box \in Boxes /\ m.box = box /\ m.of = Meaning(book, s, box)  BY <1>4, <2>2
    <2>4. BoxFollows(book[s], box, Meaning(book, s, box))  BY <1>0, <2>3, BoxMeaningFollows
    <2>5. ASSUME NEW k \in book[s].merges, k # m  PROVE Apart(m.box, k.box)
      <3>1. PICK other \in opened[s].merges : k = [box |-> other, of |-> Meaning(book, s, other)]
        BY <2>0
      <3>2. other # box /\ k.box = other  BY <2>2, <2>5, <3>1
      <3> QED  BY <1>4, <2>3, <3>2
    <2> QED  BY <2>3, <2>4, <2>5 DEF OnCells
  <1> QED  BY <1>6, <1>7, <1>8, <1>9 DEF FollowInv

-----------------------------------------------------------------------------
(* Inserting and deleting: what follows a span of the edited axis follows   *)
(* where the edit takes it, and a band of the whole axis stays one.         *)
Meant(meant, born) == born \in 0 .. fresh /\ meant \in SUBSET Nat /\ \A id \in meant : id < born
AxisMoves(ids, after, e, max) ==
    Lined(ids, max) /\ OneLine(ids) /\ LineEdit(e, max) /\ LinesMoved(ids, after, e, max)
SpanGoes(lo, hi, e, max, band, span) ==
    /\ lo \in 0 .. max /\ hi \in lo .. max
    /\ IF band THEN lo = 0 /\ hi = max /\ span = <<lo, hi>>
       ELSE ShiftSpan(lo, hi, e, max) # NoSpan /\ span = ShiftSpan(lo, hi, e, max)

LEMMA AxisKept ==
    ASSUME NEW max, NEW ids, NEW e, NEW after, AxisMoves(ids, after, e, max),
           NEW born, NEW meant, Meant(meant, born), NEW lo, NEW hi, NEW band, NEW span,
           SpanGoes(lo, hi, e, max, band, span), SpanFollows(lo, hi, ids, meant, born, band),
           NEW band2, band => band2
    PROVE  SpanFollows(span[1], span[2], after, meant, born, band2)
  <1>0. /\ Lined(ids, max) /\ OneLine(ids) /\ LineEdit(e, max) /\ LinesMoved(ids, after, e, max)
        /\ born \in 0 .. fresh /\ meant \in SUBSET Nat /\ (\A id \in meant : id < born)
        /\ lo \in 0 .. max /\ hi \in lo .. max
    BY DEF AxisMoves, Meant, SpanGoes
  <1>1. max \in Nat /\ fresh \in Nat /\ ids \in [0 .. max -> Nat] /\ \A i \in 0 .. max : ids[i] < fresh
    BY <1>0 DEF Lined
  <1>2. OldOnly(lo, hi, ids, meant, born) /\ (band \/ EndsMeant(lo, hi, ids, meant))  BY SpanFollowsIs
  <1>3. CASE band
    <2>0. lo = 0 /\ hi = max /\ span = <<lo, hi>>  BY <1>3 DEF SpanGoes
    <2>1. OldOnly(0, max, ids, meant, born)  BY <1>2, <2>0
    <2>2. OldOnly(0, max, after, meant, born)  BY <1>0, <1>1, <2>1, BandKept
    <2>3. span[1] = 0 /\ span[2] = max  BY <2>0
    <2> QED  BY <1>3, <2>2, <2>3, SpanFollowsIs
  <1>4. CASE ~band
    <2>1. ShiftSpan(lo, hi, e, max) # NoSpan /\ span = ShiftSpan(lo, hi, e, max)  BY <1>4 DEF SpanGoes
    <2>2. EndsMeant(lo, hi, ids, meant)  BY <1>2, <1>4
    <2>3. OldOnly(span[1], span[2], after, meant, born) /\ EndsMeant(span[1], span[2], after, meant)
      BY <1>0, <1>1, <1>2, <2>1, <2>2, SpanKept
    <2> QED  BY <2>3, SpanFollowsIs
  <1> QED  BY <1>3, <1>4

(* The grid of the engine is as long both ways; on it, what stays within an *)
(* axis goes where the axis takes it.                                       *)
LEMMA BoundsAgree ==
    ASSUME NEW max \in Nat, NEW wide \in Nat, max <= wide, NEW e, LineEdit(e, max),
           NEW lo \in 0 .. max, NEW hi \in lo .. max, ShiftSpan(lo, hi, e, wide) # NoSpan,
           ShiftSpan(lo, hi, e, wide)[1] <= max, ShiftSpan(lo, hi, e, wide)[2] <= max
    PROVE  ShiftSpan(lo, hi, e, max) = ShiftSpan(lo, hi, e, wide)
  <1>1. CASE ~e.insert  BY <1>1 DEF ShiftSpan
  <1>2. CASE e.insert
    <2>1. ShiftSpan(lo, hi, e, wide) = <<ShiftLine(lo, e, wide), ShiftLine(hi, e, wide)>>
          /\ ShiftLine(lo, e, wide) # Gone /\ ShiftLine(hi, e, wide) # Gone
      BY <1>2 DEF ShiftSpan
    <2>2. ShiftLine(lo, e, wide) <= max /\ ShiftLine(hi, e, wide) <= max  BY <2>1
    <2>3. \A c \in 0 .. max : ShiftLine(c, e, wide) # Gone /\ ShiftLine(c, e, wide) <= max
                                => ShiftLine(c, e, max) = ShiftLine(c, e, wide)
      BY <1>2 DEF ShiftLine, Gone, LineEdit
    <2>4. lo \in 0 .. max /\ hi \in 0 .. max  OBVIOUS
    <2>5. ShiftLine(lo, e, max) = ShiftLine(lo, e, wide) /\ ShiftLine(hi, e, max) = ShiftLine(hi, e, wide)
      BY <2>1, <2>2, <2>3, <2>4
    <2> QED  BY <1>2, <2>1, <2>5 DEF ShiftSpan
  <1> QED  BY <1>1, <1>2

(* The lines of a sheet before and after an edit of it. *)
Moved(sh, sh2, e) == sh2.sid = sh.sid /\ sh2.rows = RowsAfter(sh, e) /\ sh2.cols = ColsAfter(sh, e)

LEMMA SheetLined ==
    ASSUME TypeOK, NEW s \in Sheets
    PROVE  Lined(book[s].rows, MaxRow) /\ Lined(book[s].cols, MaxCol)
  <1>1. book[s].rows \in [Rows -> Ids] /\ book[s].cols \in [Cols -> Ids]  BY SheetFields
  <1>2. MaxRow \in Nat /\ MaxCol \in Nat /\ fresh \in Nat  BY OnGrid DEF TypeOK
  <1>3. Ids \subseteq Nat /\ \A id \in Ids : id < fresh  BY DEF Ids, TypeOK
  <1>4. book[s].rows \in [0 .. MaxRow -> Nat] /\ book[s].cols \in [0 .. MaxCol -> Nat]
    BY <1>1, <1>3 DEF Rows, Cols
  <1>5. (\A i \in 0 .. MaxRow : book[s].rows[i] < fresh) /\ (\A i \in 0 .. MaxCol : book[s].cols[i] < fresh)
    <2>1. (\A i \in Rows : book[s].rows[i] \in Ids) /\ (\A i \in Cols : book[s].cols[i] \in Ids)  BY <1>1
    <2> QED  BY <1>3, <2>1 DEF Rows, Cols
  <1> QED  BY <1>2, <1>4, <1>5 DEF Lined

LEMMA EditedLines ==
    ASSUME TypeOK, NEW s \in Sheets, NEW axis \in Axes, NEW e \in EditsOn(axis)
    PROVE  /\ axis = "row" => /\ LineEdit(e, MaxRow) /\ e.axis = "row" /\ Last(axis) = MaxRow
                              /\ LinesMoved(book[s].rows, RowsAfter(book[s], e), e, MaxRow)
                              /\ ColsAfter(book[s], e) = book[s].cols
           /\ axis = "col" => /\ LineEdit(e, MaxCol) /\ e.axis = "col" /\ Last(axis) = MaxCol
                              /\ LinesMoved(book[s].cols, ColsAfter(book[s], e), e, MaxCol)
                              /\ RowsAfter(book[s], e) = book[s].rows
  <1>1. LineEdit(e, Last(axis)) /\ e.axis = axis  BY EditShape
  <1>2. e.insert \in BOOLEAN  BY DEF EditsOn
  <1>3. Lined(book[s].rows, MaxRow) /\ Lined(book[s].cols, MaxCol)  BY SheetLined
  <1>4. ASSUME axis = "row"
        PROVE  /\ LineEdit(e, MaxRow) /\ Last(axis) = MaxRow
               /\ LinesMoved(book[s].rows, LinesAfter(book[s].rows, e), e, MaxRow)
    <2>1. LineEdit(e, MaxRow) /\ Last(axis) = MaxRow  BY <1>1, <1>4 DEF Last
    <2>2. LinesMoved(book[s].rows, LinesAfter(book[s].rows, e), e, MaxRow)
      BY <1>2, <1>3, <2>1, LinesMove DEF Lined
    <2> QED  BY <2>1, <2>2
  <1>5. ASSUME axis = "col"
        PROVE  /\ LineEdit(e, MaxCol) /\ Last(axis) = MaxCol
               /\ LinesMoved(book[s].cols, LinesAfter(book[s].cols, e), e, MaxCol)
    <2>1. LineEdit(e, MaxCol) /\ Last(axis) = MaxCol  BY <1>1, <1>5 DEF Last
    <2>2. LinesMoved(book[s].cols, LinesAfter(book[s].cols, e), e, MaxCol)
      BY <1>2, <1>3, <2>1, LinesMove DEF Lined
    <2> QED  BY <2>1, <2>2
  <1> QED  BY <1>1, <1>4, <1>5 DEF RowsAfter, ColsAfter

LEMMA MeantFits ==
    ASSUME TypeOK, NEW of \in Meanings
    PROVE  /\ Meant(of.rows, of.born) /\ Meant(of.cols, of.born)
           /\ (\A id \in of.rows : id \in Nat /\ id < fresh) /\ (\A id \in of.cols : id \in Nat /\ id < fresh)
  <1>1. /\ of.born \in 0 .. fresh /\ of.rows \subseteq Ids /\ of.cols \subseteq Ids
        /\ \A id \in of.rows \cup of.cols : id < of.born
    BY DEF Meanings
  <1>2. Ids \subseteq Nat /\ \A id \in Ids : id < fresh  BY DEF Ids, TypeOK
  <1> QED  BY <1>1, <1>2 DEF Meant

(* A reference that an edit does not lose follows. *)
LEMMA AreaKept ==
    ASSUME TypeOK, LinesOnce, NEW s \in Sheets, NEW axis \in Axes, NEW e \in EditsOn(axis),
           NEW sh2, Moved(book[s], sh2, e), NEW area \in Areas, NEW of \in Meanings,
           AreaFollows(book[s], area, of), ShiftRange(area, e) # NoBox
    PROVE  AreaFollows(sh2, ShiftRange(area, e), of)
  <1> DEFINE sh == book[s]
             new == ShiftRange(area, e)
  <1>1. sh2.sid = of.sid /\ sh2.rows = RowsAfter(sh, e) /\ sh2.cols = ColsAfter(sh, e)
    BY DEF Moved, AreaFollows
  <1>2. /\ SpanFollows(area.top, area.bottom, sh.rows, of.rows, of.born, Spans(area, "row"))
        /\ SpanFollows(area.left, area.right, sh.cols, of.cols, of.born, Spans(area, "col"))
    BY DEF AreaFollows
  <1>3. Lined(sh.rows, MaxRow) /\ Lined(sh.cols, MaxCol) /\ OneLine(sh.rows) /\ OneLine(sh.cols)
    BY SheetLined DEF LinesOnce
  <1>4. /\ area.top \in 0 .. MaxRow /\ area.bottom \in area.top .. MaxRow
        /\ area.left \in 0 .. MaxCol /\ area.right \in area.left .. MaxCol
    BY OnGrid DEF Areas
  <1>5. new \in Areas  BY ShiftedAreaIs
  <1>6. /\ Spans(area, "row") => area.top = 0 /\ area.bottom = MaxRow
        /\ Spans(area, "col") => area.left = 0 /\ area.right = MaxCol
    BY DEF Spans, Lines, Last
  <1>7. area \in [top : 0 .. MaxRow, bottom : 0 .. MaxRow, left : 0 .. MaxCol, right : 0 .. MaxCol,
                  anchored : SUBSET Axes]
    BY DEF Areas
  <1>8. e.axis = axis  BY EditShape
  <1>9. CASE axis = "row"
    <2> DEFINE span == <<new.top, new.bottom>>
    <2>1. /\ LineEdit(e, MaxRow) /\ LinesMoved(sh.rows, RowsAfter(sh, e), e, MaxRow)
          /\ ColsAfter(sh, e) = sh.cols /\ Last(axis) = MaxRow
      BY <1>9, EditedLines
    <2>2. /\ Spans(area, "row") => new = area
          /\ ~Spans(area, "row") =>
                /\ ShiftSpan(area.top, area.bottom, e, MaxRow) # NoSpan
                /\ new = WithLines(area, "row", ShiftSpan(area.top, area.bottom, e, MaxRow))
      BY <1>8, <1>9, <2>1 DEF ShiftRange, Lines
    <2>3. \A x : WithLines(area, "row", x).top = x[1] /\ WithLines(area, "row", x).bottom = x[2]
                 /\ WithLines(area, "row", x).left = area.left /\ WithLines(area, "row", x).right = area.right
      BY <1>7 DEF WithLines
    <2>4. new.left = area.left /\ new.right = area.right  BY <2>2, <2>3
    <2>5. ~Spans(area, "row") => span = ShiftSpan(area.top, area.bottom, e, MaxRow)
      <3>1. ~Spans(area, "row") => /\ new.top = ShiftSpan(area.top, area.bottom, e, MaxRow)[1]
                                   /\ new.bottom = ShiftSpan(area.top, area.bottom, e, MaxRow)[2]
        BY <2>2, <2>3
      <3>2. \A lo, hi : ShiftSpan(lo, hi, e, MaxRow) = <<ShiftSpan(lo, hi, e, MaxRow)[1], ShiftSpan(lo, hi, e, MaxRow)[2]>>
        BY DEF ShiftSpan, ShrunkSpan, NoSpan
      <3> QED  BY <3>1, <3>2
    <2>6. Spans(area, "row") => span = <<area.top, area.bottom>> /\ Spans(new, "row")  BY <2>2
    <2>7. Spans(new, "col") <=> Spans(area, "col")  BY <2>4 DEF Spans, Lines
    <2> HIDE DEF new
    <2>8. SpanFollows(span[1], span[2], RowsAfter(sh, e), of.rows, of.born, Spans(new, "row"))
      <3>1. ~Spans(area, "row") => ShiftSpan(area.top, area.bottom, e, MaxRow) # NoSpan  BY <2>2
      <3> HIDE DEF span, sh
      <3>2. SpanGoes(area.top, area.bottom, e, MaxRow, Spans(area, "row"), span)
        BY <1>4, <1>6, <2>5, <2>6, <3>1 DEF SpanGoes
      <3>3. AxisMoves(sh.rows, RowsAfter(sh, e), e, MaxRow)  BY <1>3, <2>1 DEF AxisMoves
      <3>4. Meant(of.rows, of.born)  BY MeantFits
      <3> QED  BY <1>2, <2>6, <3>2, <3>3, <3>4, AxisKept
    <2>9. SpanFollows(new.top, new.bottom, sh2.rows, of.rows, of.born, Spans(new, "row"))  BY <1>1, <2>8
    <2>10. SpanFollows(new.left, new.right, sh2.cols, of.cols, of.born, Spans(new, "col"))
      BY <1>1, <1>2, <2>1, <2>4, <2>7 DEF SpanFollows
    <2> QED  BY <1>1, <2>9, <2>10 DEF AreaFollows, new
  <1>10. CASE axis = "col"
    <2> DEFINE span == <<new.left, new.right>>
    <2>1. /\ LineEdit(e, MaxCol) /\ LinesMoved(sh.cols, ColsAfter(sh, e), e, MaxCol)
          /\ RowsAfter(sh, e) = sh.rows /\ Last(axis) = MaxCol
      BY <1>10, EditedLines
    <2>2. /\ Spans(area, "col") => new = area
          /\ ~Spans(area, "col") =>
                /\ ShiftSpan(area.left, area.right, e, MaxCol) # NoSpan
                /\ new = WithLines(area, "col", ShiftSpan(area.left, area.right, e, MaxCol))
      BY <1>8, <1>10, <2>1 DEF ShiftRange, Lines
    <2>3. \A x : WithLines(area, "col", x).left = x[1] /\ WithLines(area, "col", x).right = x[2]
                 /\ WithLines(area, "col", x).top = area.top /\ WithLines(area, "col", x).bottom = area.bottom
      BY <1>7 DEF WithLines
    <2>4. new.top = area.top /\ new.bottom = area.bottom  BY <2>2, <2>3
    <2>5. ~Spans(area, "col") => span = ShiftSpan(area.left, area.right, e, MaxCol)
      <3>1. ~Spans(area, "col") => /\ new.left = ShiftSpan(area.left, area.right, e, MaxCol)[1]
                                   /\ new.right = ShiftSpan(area.left, area.right, e, MaxCol)[2]
        BY <2>2, <2>3
      <3>2. \A lo, hi : ShiftSpan(lo, hi, e, MaxCol) = <<ShiftSpan(lo, hi, e, MaxCol)[1], ShiftSpan(lo, hi, e, MaxCol)[2]>>
        BY DEF ShiftSpan, ShrunkSpan, NoSpan
      <3> QED  BY <3>1, <3>2
    <2>6. Spans(area, "col") => span = <<area.left, area.right>> /\ Spans(new, "col")  BY <2>2
    <2>7. Spans(new, "row") <=> Spans(area, "row")  BY <2>4 DEF Spans, Lines
    <2> HIDE DEF new
    <2>8. SpanFollows(span[1], span[2], ColsAfter(sh, e), of.cols, of.born, Spans(new, "col"))
      <3>1. ~Spans(area, "col") => ShiftSpan(area.left, area.right, e, MaxCol) # NoSpan  BY <2>2
      <3> HIDE DEF span, sh
      <3>2. SpanGoes(area.left, area.right, e, MaxCol, Spans(area, "col"), span)
        BY <1>4, <1>6, <2>5, <2>6, <3>1 DEF SpanGoes
      <3>3. AxisMoves(sh.cols, ColsAfter(sh, e), e, MaxCol)  BY <1>3, <2>1 DEF AxisMoves
      <3>4. Meant(of.cols, of.born)  BY MeantFits
      <3> QED  BY <1>2, <2>6, <3>2, <3>3, <3>4, AxisKept
    <2>9. SpanFollows(new.left, new.right, sh2.cols, of.cols, of.born, Spans(new, "col"))  BY <1>1, <2>8
    <2>10. SpanFollows(new.top, new.bottom, sh2.rows, of.rows, of.born, Spans(new, "row"))
      BY <1>1, <1>2, <2>1, <2>4, <2>7 DEF SpanFollows
    <2> QED  BY <1>1, <2>9, <2>10 DEF AreaFollows, new
  <1> QED  BY <1>9, <1>10 DEF Axes

(* The lines an insertion pushes off the end of the axis. *)
FellAfter(s, e, fell) ==
    IF ~e.insert THEN fell
    ELSE LET ids == IF e.axis = "row" THEN book[s].rows ELSE book[s].cols
         IN  fell \cup {<<e.axis, book[s].sid, ids[i]>> : i \in DOMAIN ids \cap (Last(e.axis) + 1 - e.n .. Last(e.axis))}

(* What was lost stays lost. *)
LEMMA StaysLost ==
    ASSUME TypeOK, NEW s \in Sheets, NEW axis \in Axes, NEW e \in EditsOn(axis),
           NEW sh2, Moved(book[s], sh2, e), NEW of \in Meanings, LostOn(book[s], fallen, of)
    PROVE  LostOn(sh2, FellAfter(s, e, fallen), of)
  <1> DEFINE sh == book[s]
             fell == FellAfter(s, e, fallen)
  <1> SUFFICES ASSUME sh2.sid = of.sid
               PROVE  \/ of.rows \cap {sh2.rows[i] : i \in Rows} = {}
                      \/ of.cols \cap {sh2.cols[i] : i \in Cols} = {}
                      \/ \E id \in of.rows : <<"row", of.sid, id>> \in fell
                      \/ \E id \in of.cols : <<"col", of.sid, id>> \in fell
    BY DEF LostOn
  <1>1. sh2.sid = sh.sid /\ sh2.rows = RowsAfter(sh, e) /\ sh2.cols = ColsAfter(sh, e)  BY DEF Moved
  <1>2. fallen \subseteq fell  BY DEF FellAfter
  <1>3. \/ of.rows \cap {sh.rows[i] : i \in Rows} = {}
        \/ of.cols \cap {sh.cols[i] : i \in Cols} = {}
        \/ \E id \in of.rows : <<"row", of.sid, id>> \in fallen
        \/ \E id \in of.cols : <<"col", of.sid, id>> \in fallen
    BY <1>1 DEF LostOn
  <1>4. (\A id \in of.rows : id \in Nat /\ id < fresh) /\ (\A id \in of.cols : id \in Nat /\ id < fresh)
    BY MeantFits
  <1>5. ASSUME NEW max, NEW ids, NEW after, Lined(ids, max), LinesMoved(ids, after, e, max),
               NEW meant, \A id \in meant : id \in Nat /\ id < fresh,
               meant \cap {ids[i] : i \in 0 .. max} = {}
        PROVE  meant \cap {after[i] : i \in 0 .. max} = {}
    <2>1. OldAlive(ids, after, e, max)  BY <1>5, AliveAfter
    <2>2. Alive(after) = {after[i] : i \in 0 .. max}  BY <1>5 DEF Alive, LinesMoved
    <2>3. ASSUME NEW id \in meant, id \in Alive(after)  PROVE FALSE
      <3>1. id \in Nat /\ id < fresh  BY <1>5
      <3>2. PICK c \in 0 .. max : ids[c] = id  BY <2>1, <2>3, <3>1 DEF OldAlive
      <3> QED  BY <1>5, <3>2
    <2> QED  BY <2>2, <2>3
  <1>6. Lined(sh.rows, MaxRow) /\ Lined(sh.cols, MaxCol)  BY SheetLined
  <1>7. of.rows \cap {sh.rows[i] : i \in Rows} = {} => of.rows \cap {sh2.rows[i] : i \in Rows} = {}
    <2>1. CASE axis = "row"
      <3>1. LinesMoved(sh.rows, sh2.rows, e, MaxRow)  BY <1>1, <2>1, EditedLines
      <3> HIDE DEF sh
      <3> QED  BY <1>4, <1>5, <1>6, <3>1 DEF Rows
    <2>2. CASE axis = "col"  BY <1>1, <2>2, EditedLines
    <2> QED  BY <2>1, <2>2 DEF Axes
  <1>8. of.cols \cap {sh.cols[i] : i \in Cols} = {} => of.cols \cap {sh2.cols[i] : i \in Cols} = {}
    <2>1. CASE axis = "col"
      <3>1. LinesMoved(sh.cols, sh2.cols, e, MaxCol)  BY <1>1, <2>1, EditedLines
      <3> HIDE DEF sh
      <3> QED  BY <1>4, <1>5, <1>6, <3>1 DEF Cols
    <2>2. CASE axis = "row"  BY <1>1, <2>2, EditedLines
    <2> QED  BY <2>1, <2>2 DEF Axes
  <1> QED  BY <1>2, <1>3, <1>7, <1>8

(* A reference that an edit loses is lost. *)
LEMMA AreaLost ==
    ASSUME TypeOK, LinesOnce, NEW s \in Sheets, NEW axis \in Axes, NEW e \in EditsOn(axis),
           NEW sh2, Moved(book[s], sh2, e), NEW area \in Areas, ShiftRange(area, e) = NoBox
    PROVE  LostOn(sh2, FellAfter(s, e, fallen), Meaning(book, s, area))
  <1> DEFINE sh == book[s]
             fell == FellAfter(s, e, fallen)
             of == Meaning(book, s, area)
  <1>1. sh2.sid = sh.sid /\ sh2.rows = RowsAfter(sh, e) /\ sh2.cols = ColsAfter(sh, e)  BY DEF Moved
  <1>2. /\ of.sid = sh.sid /\ of.rows = Covered(area.top, area.bottom, sh.rows)
        /\ of.cols = Covered(area.left, area.right, sh.cols)
    BY DEF Meaning, Covered
  <1>3. Lined(sh.rows, MaxRow) /\ Lined(sh.cols, MaxCol) /\ OneLine(sh.rows) /\ OneLine(sh.cols)
    BY SheetLined DEF LinesOnce
  <1>4. /\ area.top \in 0 .. MaxRow /\ area.bottom \in area.top .. MaxRow
        /\ area.left \in 0 .. MaxCol /\ area.right \in area.left .. MaxCol
    BY OnGrid DEF Areas
  <1>5. e.axis = axis  BY EditShape
  <1>6. area # NoBox
    <2>1. NoBox.top = -1  BY DEF NoBox, Gone
    <2> QED  BY <1>4, <2>1, OnGrid
  <1>7. \A x : x # NoSpan /\ x[1] \in Nat => WithLines(area, axis, x) # NoBox
    <2>1. area \in [top : 0 .. MaxRow, bottom : 0 .. MaxRow, left : 0 .. MaxCol, right : 0 .. MaxCol,
                    anchored : SUBSET Axes]
      BY DEF Areas
    <2>2. NoBox.top = -1 /\ NoBox.left = -1  BY DEF NoBox, Gone
    <2>3. \A x : IF axis = "row" THEN WithLines(area, axis, x).top = x[1]
                 ELSE WithLines(area, axis, x).left = x[1]
      BY <2>1 DEF WithLines
    <2>4. -1 \notin Nat  OBVIOUS
    <2> QED  BY <2>2, <2>3, <2>4
  <1> HIDE DEF of
  <1>8. CASE axis = "row"
    <2>1. /\ LineEdit(e, MaxRow) /\ LinesMoved(sh.rows, sh2.rows, e, MaxRow) /\ Last(axis) = MaxRow
      BY <1>1, <1>8, EditedLines
    <2>2. ShiftSpan(area.top, area.bottom, e, MaxRow) = NoSpan
      <3>1. SUFFICES ASSUME ShiftSpan(area.top, area.bottom, e, MaxRow) # NoSpan  PROVE FALSE  OBVIOUS
      <3>2. ShiftSpan(area.top, area.bottom, e, MaxRow)[1] \in Nat
        BY <1>4, <2>1, <3>1, OnGrid, SpanStaysASpan
      <3>3. ShiftRange(area, e) = area
              \/ ShiftRange(area, e) = WithLines(area, axis, ShiftSpan(area.top, area.bottom, e, MaxRow))
        BY <1>5, <1>8, <2>1, <3>1 DEF ShiftRange, Lines
      <3> QED  BY <1>6, <1>7, <3>1, <3>2, <3>3
    <2>3. IF e.insert THEN \E c \in {area.top, area.bottom} : c \in DOMAIN sh.rows \cap (MaxRow + 1 - e.n .. MaxRow)
          ELSE Covered(area.top, area.bottom, sh.rows) \cap Alive(sh2.rows) = {}
      <3>1. /\ MaxRow \in Nat /\ fresh \in Nat /\ sh.rows \in [0 .. MaxRow -> Nat]
            /\ \A i \in 0 .. MaxRow : sh.rows[i] < fresh
        BY <1>3 DEF Lined
      <3> HIDE DEF sh
      <3> QED  BY <1>3, <1>4, <2>1, <2>2, <3>1, SpanLost
    <2>4. CASE e.insert
      <3>1. PICK c \in {area.top, area.bottom} : c \in DOMAIN sh.rows \cap (MaxRow + 1 - e.n .. MaxRow)
        BY <2>3, <2>4
      <3>2. <<"row", sh.sid, sh.rows[c]>> \in fell  BY <1>5, <1>8, <2>1, <2>4, <3>1 DEF FellAfter
      <3>3. c \in area.top .. area.bottom  BY <1>4, OnGrid
      <3>4. sh.rows[c] \in of.rows  BY <1>2, <3>3 DEF Covered
      <3> QED  BY <1>2, <3>2, <3>4 DEF LostOn, of
    <2>5. CASE ~e.insert
      <3>1. Alive(sh2.rows) = {sh2.rows[i] : i \in Rows}  BY <2>1 DEF Alive, LinesMoved, Rows
      <3> QED  BY <1>2, <2>3, <2>5, <3>1 DEF LostOn, of
    <2> QED  BY <2>4, <2>5
  <1>9. CASE axis = "col"
    <2>1. /\ LineEdit(e, MaxCol) /\ LinesMoved(sh.cols, sh2.cols, e, MaxCol) /\ Last(axis) = MaxCol
      BY <1>1, <1>9, EditedLines
    <2>2. ShiftSpan(area.left, area.right, e, MaxCol) = NoSpan
      <3>1. SUFFICES ASSUME ShiftSpan(area.left, area.right, e, MaxCol) # NoSpan  PROVE FALSE  OBVIOUS
      <3>2. ShiftSpan(area.left, area.right, e, MaxCol)[1] \in Nat
        BY <1>4, <2>1, <3>1, OnGrid, SpanStaysASpan
      <3>3. ShiftRange(area, e) = area
              \/ ShiftRange(area, e) = WithLines(area, axis, ShiftSpan(area.left, area.right, e, MaxCol))
        BY <1>5, <1>9, <2>1, <3>1 DEF ShiftRange, Lines
      <3> QED  BY <1>6, <1>7, <3>1, <3>2, <3>3
    <2>3. IF e.insert THEN \E c \in {area.left, area.right} : c \in DOMAIN sh.cols \cap (MaxCol + 1 - e.n .. MaxCol)
          ELSE Covered(area.left, area.right, sh.cols) \cap Alive(sh2.cols) = {}
      <3>1. /\ MaxCol \in Nat /\ fresh \in Nat /\ sh.cols \in [0 .. MaxCol -> Nat]
            /\ \A i \in 0 .. MaxCol : sh.cols[i] < fresh
        BY <1>3 DEF Lined
      <3> HIDE DEF sh
      <3> QED  BY <1>3, <1>4, <2>1, <2>2, <3>1, SpanLost
    <2>4. CASE e.insert
      <3>1. PICK c \in {area.left, area.right} : c \in DOMAIN sh.cols \cap (MaxCol + 1 - e.n .. MaxCol)
        BY <2>3, <2>4
      <3>2. <<"col", sh.sid, sh.cols[c]>> \in fell  BY <1>5, <1>9, <2>1, <2>4, <3>1 DEF FellAfter
      <3>3. c \in area.left .. area.right  BY <1>4, OnGrid
      <3>4. sh.cols[c] \in of.cols  BY <1>2, <3>3 DEF Covered
      <3> QED  BY <1>2, <3>2, <3>4 DEF LostOn, of
    <2>5. CASE ~e.insert
      <3>1. Alive(sh2.cols) = {sh2.cols[i] : i \in Cols}  BY <2>1 DEF Alive, LinesMoved, Cols
      <3> QED  BY <1>2, <2>3, <2>5, <3>1 DEF LostOn, of
    <2> QED  BY <2>4, <2>5
  <1> QED  BY <1>8, <1>9 DEF Axes

(* A merge stays on its cells as long as it stays on the sheet. *)
LEMMA MergeKept ==
    ASSUME TypeOK, LinesOnce, NEW s \in Sheets, NEW axis \in Axes, NEW e \in EditsOn(axis),
           NEW sh2, Moved(book[s], sh2, e), NEW m, m.box \in WideBoxes, m.of \in Meanings,
           OnCells(book[s], m), ShiftMerge(m.box, e) # NoBox
    PROVE  OnCells(sh2, MergeAfter(m, e))
  <1> DEFINE sh == book[s]
             box == m.box
             of == m.of
             new == ShiftMerge(box, e)
  <1>1. MergeAfter(m, e).box = new /\ MergeAfter(m, e).of = IF new \in Boxes THEN of ELSE NoMeaning
    BY DEF MergeAfter
  <1>2. CASE new \notin Boxes \/ of = NoMeaning  BY <1>1, <1>2 DEF OnCells
  <1>3. CASE new \in Boxes /\ of # NoMeaning
    <2>1. box \in Boxes /\ BoxFollows(sh, box, of)  BY <1>3 DEF OnCells
    <2>2. sh2.sid = of.sid /\ sh2.rows = RowsAfter(sh, e) /\ sh2.cols = ColsAfter(sh, e)
      BY <2>1 DEF Moved, BoxFollows
    <2>3. /\ SpanFollows(box.top, box.bottom, sh.rows, of.rows, of.born, FALSE)
          /\ SpanFollows(box.left, box.right, sh.cols, of.cols, of.born, FALSE)
      BY <2>1 DEF BoxFollows
    <2>4. Lined(sh.rows, MaxRow) /\ Lined(sh.cols, MaxCol) /\ OneLine(sh.rows) /\ OneLine(sh.cols)
      BY SheetLined DEF LinesOnce
    <2>5. /\ box.top \in 0 .. MaxRow /\ box.bottom \in box.top .. MaxRow
          /\ box.left \in 0 .. MaxCol /\ box.right \in box.left .. MaxCol
          /\ box \in [top : 0 .. MaxRow, bottom : 0 .. MaxRow, left : 0 .. MaxCol, right : 0 .. MaxCol]
      BY <2>1, OnGrid DEF Boxes
    <2>6. e.axis = axis /\ Meant(of.rows, of.born) /\ Meant(of.cols, of.born)  BY EditShape, MeantFits
    <2>7. /\ new.top \in 0 .. MaxRow /\ new.bottom \in 0 .. MaxRow
          /\ new.left \in 0 .. MaxCol /\ new.right \in 0 .. MaxCol
      BY <1>3 DEF Boxes
    <2>8. \A lo, hi, max : ShiftSpan(lo, hi, e, max) = <<ShiftSpan(lo, hi, e, max)[1], ShiftSpan(lo, hi, e, max)[2]>>
      BY DEF ShiftSpan, ShrunkSpan, NoSpan
    <2> HIDE DEF sh, of
    <2>9. CASE axis = "row"
      <3> DEFINE wide == ShiftSpan(box.top, box.bottom, e, MaxRow)
      <3>1. /\ LineEdit(e, MaxRow) /\ LinesMoved(sh.rows, RowsAfter(sh, e), e, MaxRow)
            /\ ColsAfter(sh, e) = sh.cols
        BY <2>9, EditedLines DEF sh
      <3>2. wide # NoSpan /\ new = WithLines(box, "row", wide)
        BY <2>6, <2>9 DEF ShiftMerge, Lines
      <3>3. new.top = wide[1] /\ new.bottom = wide[2] /\ new.left = box.left /\ new.right = box.right
        BY <2>5, <3>2 DEF WithLines
      <3>4. wide = <<new.top, new.bottom>>  BY <2>8, <3>3
      <3> HIDE DEF box, new
      <3>5. SpanGoes(box.top, box.bottom, e, MaxRow, FALSE, wide)  BY <2>5, <3>2 DEF SpanGoes
      <3>6. AxisMoves(sh.rows, RowsAfter(sh, e), e, MaxRow)  BY <2>4, <3>1 DEF AxisMoves
      <3> HIDE DEF wide
      <3>7. SpanFollows(wide[1], wide[2], RowsAfter(sh, e), of.rows, of.born, FALSE)
        BY <2>3, <2>6, <3>5, <3>6, AxisKept
      <3>8. BoxFollows(sh2, new, of)  BY <2>2, <2>3, <3>1, <3>3, <3>7 DEF BoxFollows
      <3> QED  BY <1>1, <1>3, <3>8 DEF OnCells, new, of
    <2>10. CASE axis = "col"
      <3> DEFINE wide == ShiftSpan(box.left, box.right, e, MaxRow)
                 span == ShiftSpan(box.left, box.right, e, MaxCol)
      <3>1. /\ LineEdit(e, MaxCol) /\ LinesMoved(sh.cols, ColsAfter(sh, e), e, MaxCol)
            /\ RowsAfter(sh, e) = sh.rows
        BY <2>10, EditedLines DEF sh
      <3>2. wide # NoSpan /\ new = WithLines(box, "col", wide)
        BY <2>6, <2>10 DEF ShiftMerge, Lines
      <3>3. new.left = wide[1] /\ new.right = wide[2] /\ new.top = box.top /\ new.bottom = box.bottom
        BY <2>5, <3>2 DEF WithLines
      <3>4. wide = <<new.left, new.right>>  BY <2>8, <3>3
      <3> HIDE DEF box, new
      <3>5. span = wide
        <4>1. wide[1] <= MaxCol /\ wide[2] <= MaxCol  BY <2>7, <3>3, OnGrid
        <4> QED  BY <2>5, <3>1, <3>2, <4>1, OnGrid, BoundsAgree
      <3>6. SpanGoes(box.left, box.right, e, MaxCol, FALSE, span)  BY <2>5, <3>2, <3>5 DEF SpanGoes
      <3>7. AxisMoves(sh.cols, ColsAfter(sh, e), e, MaxCol)  BY <2>4, <3>1 DEF AxisMoves
      <3> HIDE DEF wide, span
      <3>8. SpanFollows(span[1], span[2], ColsAfter(sh, e), of.cols, of.born, FALSE)
        BY <2>3, <2>6, <3>6, <3>7, AxisKept
      <3>9. BoxFollows(sh2, new, of)  BY <2>2, <2>3, <3>1, <3>3, <3>5, <3>8 DEF BoxFollows
      <3> QED  BY <1>1, <1>3, <3>9 DEF OnCells, new, of
    <2> QED  BY <2>9, <2>10 DEF Axes
  <1> QED  BY <1>2, <1>3

(* A cell that an edit keeps is at home where it lands. *)
LEMMA HomeKept ==
    ASSUME TypeOK, HomesHold, NEW s \in Sheets, NEW axis \in Axes, NEW e \in EditsOn(axis),
           NEW sh2, Moved(book[s], sh2, e), sh2.home = HomeAfter(book[s], e),
           NEW p \in KeptAfter(book[s], e)
    PROVE  AtHome(sh2, p)
  <1> DEFINE sh == book[s]
             q == CameAt(sh, e, p)
  <1>1. sh2.rows = RowsAfter(sh, e) /\ sh2.cols = ColsAfter(sh, e)  BY DEF Moved
  <1>2. DOMAIN sh.cells \subseteq Grid  BY SheetFields
  <1>3. q \in DOMAIN sh.cells /\ ShiftCell(q[1], q[2], e) = p /\ p \in Grid  BY <1>2, CameIs
  <1>4. sh2.home[p] = IF p \in Positions THEN sh.home[q] ELSE Adrift  BY DEF HomeAfter
  <1>5. AtHome(sh, q)  BY <1>3 DEF HomesHold
  <1> HIDE DEF q
  <1>6. CASE p \notin Positions \/ sh.home[q] = Adrift  BY <1>4, <1>6 DEF AtHome
  <1>7. CASE p \in Positions /\ sh.home[q] # Adrift
    <2>1. q \in Positions /\ sh.home[q] = <<sh.rows[q[1]], sh.cols[q[2]]>>  BY <1>5, <1>7 DEF AtHome
    <2>2. q[1] \in 0 .. MaxRow /\ q[2] \in 0 .. MaxCol /\ p[1] \in 0 .. MaxRow /\ p[2] \in 0 .. MaxCol
      BY <1>7, <2>1 DEF Positions, Rows, Cols
    <2>3. MaxRow \in Nat /\ MaxCol \in 0 .. MaxRow  BY OnGrid
    <2> HIDE DEF sh
    <2>4. CASE axis = "row"
      <3>1. e.axis = "row" /\ LinesMoved(sh.rows, sh2.rows, e, MaxRow) /\ sh2.cols = sh.cols
        BY <1>1, <2>4, EditedLines DEF sh
      <3>2. p = <<ShiftLine(q[1], e, MaxRow), q[2]>>  BY <1>3, <3>1 DEF ShiftCell
      <3>3. p[1] = ShiftLine(q[1], e, MaxRow) /\ p[2] = q[2] /\ Survives(q[1], e, MaxRow)
        BY <2>2, <2>3, <3>2 DEF Survives, Gone
      <3>4. sh2.rows[p[1]] = sh.rows[q[1]]  BY <2>2, <3>1, <3>3 DEF LinesMoved
      <3> QED  BY <1>4, <1>7, <2>1, <3>1, <3>3, <3>4 DEF AtHome
    <2>5. CASE axis = "col"
      <3>1. /\ e.axis = "col" /\ LinesMoved(sh.cols, sh2.cols, e, MaxCol) /\ sh2.rows = sh.rows
            /\ LineEdit(e, MaxCol)
        BY <1>1, <2>5, EditedLines DEF sh
      <3>2. p = <<q[1], ShiftLine(q[2], e, MaxRow)>>  BY <1>3, <3>1 DEF ShiftCell
      <3>3. p[1] = q[1] /\ p[2] = ShiftLine(q[2], e, MaxRow)  BY <3>2
      <3>4. ShiftLine(q[2], e, MaxCol) = p[2] /\ Survives(q[2], e, MaxCol)
        BY <2>2, <2>3, <3>1, <3>3 DEF ShiftLine, Survives, Gone, LineEdit
      <3>5. sh2.cols[p[2]] = sh.cols[q[2]]  BY <2>2, <3>1, <3>4 DEF LinesMoved
      <3> QED  BY <1>4, <1>7, <2>1, <3>1, <3>3, <3>5 DEF AtHome
    <2> QED  BY <2>4, <2>5 DEF Axes
  <1> QED  BY <1>6, <1>7

LEMMA EditKeepsFollow ==
    ASSUME TypeOK, Distinct, FollowInv, NEW s, NEW axis \in Axes, NEW e \in EditsOn(axis), StructuralEdit(s, e)
    PROVE  FollowInv'
  <1> DEFINE sh == book[s]
             sh2 == book'[s]
             C(t) == [p \in DOMAIN book[t].cells |-> Rewritten(book[t].cells[p], s, e)]
             K == [p \in KeptAfter(sh, e) |-> Rewritten(sh.cells[CameAt(sh, e, p)], s, e)]
  <1>1. /\ s \in Sheets /\ Sheets' = Sheets
        /\ \A t \in Sheets \ {s} :
              book'[t] \in Exactly(book[t].name, book[t].sid, book[t].rows, book[t].cols, C(t),
                                   book[t].home, book[t].merges)
        /\ sh2 \in Exactly(sh.name, sh.sid, RowsAfter(sh, e), ColsAfter(sh, e), K,
                           HomeAfter(sh, e), MergesAfter(sh, e))
    BY EditIs
  <1>2. fallen' = FellAfter(s, e, fallen)  BY DEF StructuralEdit, FellAfter
  <1>3. Moved(sh, sh2, e) /\ sh2.cells = K /\ sh2.home = HomeAfter(sh, e) /\ sh2.merges = MergesAfter(sh, e)
    <2> HIDE DEF K, sh2
    <2> QED  BY <1>1, ExactlyIs DEF Moved
  <1>4. ASSUME NEW t \in Sheets \ {s}
        PROVE  /\ SameLines(book[t], book'[t]) /\ book'[t].cells = C(t)
               /\ book'[t].home = book[t].home /\ book'[t].merges = book[t].merges
    <2> HIDE DEF C
    <2> QED  BY <1>1, ExactlyIs DEF SameLines
  <1>5. LinesOnce /\ CellsFollow /\ HomesHold /\ MergesHold  BY DEF FollowInv
  <1>6. DOMAIN book = Sheets /\ DOMAIN book' = Sheets  BY <1>1 DEF Sheets
  <1>7. LinesOnce'
    <2>1. ASSUME NEW t \in Sheets  PROVE OneLine(book'[t].rows) /\ OneLine(book'[t].cols)
      <3>1. OneLine(book[t].rows) /\ OneLine(book[t].cols)  BY <1>5 DEF LinesOnce
      <3>2. CASE t # s  BY <1>4, <3>1, <3>2 DEF SameLines
      <3>3. CASE t = s
        <4>1. sh2.rows = RowsAfter(sh, e) /\ sh2.cols = ColsAfter(sh, e)  BY <1>3 DEF Moved
        <4>2. OneLine(RowsAfter(sh, e)) /\ OneLine(ColsAfter(sh, e))
          <5>1. CASE axis = "row"  BY <1>1, <3>1, <3>3, <5>1, EditedLines DEF LinesMoved
          <5>2. CASE axis = "col"  BY <1>1, <3>1, <3>3, <5>2, EditedLines DEF LinesMoved
          <5> QED  BY <5>1, <5>2 DEF Axes
        <4> QED  BY <3>3, <4>1, <4>2
      <3> QED  BY <3>2, <3>3
    <2> QED  BY <1>1, <2>1 DEF LinesOnce, OneLine
  (* A content is rewritten to one that follows. *)
  <1>8. ASSUME NEW c \in Contents, ContentFollows(c)  PROVE FollowsIn(book', fallen', Rewritten(c, s, e))
    <2> DEFINE d == Rewritten(c, s, e)
    <2>1. /\ c.kind # "ref" => d = c
          /\ c.kind = "ref" /\ c.sheet # s => d = c
          /\ c.kind = "ref" /\ c.sheet = s =>
                 IF ShiftRange(c.area, e) = NoBox
                 THEN d = Broken(Meaning(book, s, c.area))
                 ELSE /\ d.kind = "ref" /\ d.sheet = s /\ d.area = ShiftRange(c.area, e) /\ d.of = c.of
      BY <1>1, RewrittenIs
    <2>2. c.kind = "ref" => c.sheet \in Sheets /\ c.area \in Areas /\ c.of \in Meanings
      BY DEF Contents
    <2>3. c.kind = "broken" => c.of \in Meanings  BY DEF Contents
    <2> HIDE DEF d, sh, sh2
    <2>4. CASE c.kind \notin {"ref", "broken"}  BY <2>1, <2>4 DEF FollowsIn, d
    <2>5. CASE c.kind = "broken"
      <3>1. d = c  BY <2>1, <2>5
      <3>2. ASSUME NEW t \in Sheets  PROVE LostOn(book'[t], fallen', c.of)
        <4>1. LostOn(book[t], fallen, c.of)  BY <1>6, <1>8, <2>5, FollowsHere DEF FollowsIn
        <4>2. CASE t # s
          <5>1. LostOn(book'[t], fallen, c.of)  BY <1>4, <4>1, <4>2, SameLinesFollow
          <5>2. fallen \subseteq fallen'  BY <1>2 DEF FellAfter
          <5> QED  BY <5>1, <5>2 DEF LostOn
        <4>3. CASE t = s  BY <1>1, <1>2, <1>3, <2>3, <2>5, <4>1, <4>3, StaysLost DEF sh, sh2
        <4> QED  BY <4>2, <4>3
      <3> QED  BY <1>6, <2>5, <3>1, <3>2 DEF FollowsIn, d
    <2>6. CASE c.kind = "ref" /\ c.sheet # s
      <3>1. AreaFollows(book[c.sheet], c.area, c.of)  BY <1>8, <2>6 DEF ContentFollows
      <3>2. AreaFollows(book'[c.sheet], c.area, c.of)  BY <1>4, <2>2, <2>6, <3>1, SameLinesFollow
      <3> QED  BY <2>1, <2>6, <3>2 DEF FollowsIn, d
    <2>7. CASE c.kind = "ref" /\ c.sheet = s /\ ShiftRange(c.area, e) # NoBox
      <3>1. AreaFollows(book[s], c.area, c.of)  BY <1>8, <2>7 DEF ContentFollows
      <3>2. AreaFollows(book'[s], ShiftRange(c.area, e), c.of)
        BY <1>1, <1>3, <1>5, <2>2, <2>7, <3>1, AreaKept DEF sh, sh2
      <3> QED  BY <2>1, <2>7, <3>2 DEF FollowsIn, d
    <2>8. CASE c.kind = "ref" /\ c.sheet = s /\ ShiftRange(c.area, e) = NoBox
      <3> DEFINE of == Meaning(book, s, c.area)
      <3>1. d.kind = "broken" /\ d.of = of  BY <2>1, <2>8 DEF Broken
      <3>2. of.sid = book[s].sid  BY DEF Meaning
      <3>3. LostOn(book'[s], fallen', of)
        BY <1>1, <1>2, <1>3, <1>5, <2>2, <2>8, AreaLost DEF sh, sh2
      <3> HIDE DEF of
      <3>4. ASSUME NEW t \in Sheets  PROVE LostOn(book'[t], fallen', of)
        <4>1. CASE t = s  BY <3>3, <4>1
        <4>2. CASE t # s
          <5>1. book[t].sid # book[s].sid  BY <1>1, <4>2 DEF Distinct
          <5>2. book'[t].sid = book[t].sid  BY <1>4, <4>2 DEF SameLines
          <5> QED  BY <3>2, <5>1, <5>2 DEF LostOn
        <4> QED  BY <4>1, <4>2
      <3> QED  BY <1>6, <3>1, <3>4 DEF FollowsIn, d
    <2> QED  BY <2>4, <2>5, <2>6, <2>7, <2>8
  <1>9. CellsFollow'
    <2>1. SUFFICES ASSUME NEW t \in Sheets, NEW p \in DOMAIN book'[t].cells
                   PROVE  FollowsIn(book', fallen', book'[t].cells[p])
      BY <1>1, FollowsThere
    <2>2. \A u \in Sheets : \A q \in DOMAIN book[u].cells :
             book[u].cells[q] \in Contents /\ ContentFollows(book[u].cells[q])
      BY <1>5, SheetFields DEF CellsFollow
    <2>3. CASE t # s
      <3>1. book'[t].cells = C(t)  BY <1>4, <2>3
      <3>2. p \in DOMAIN book[t].cells /\ book'[t].cells[p] = Rewritten(book[t].cells[p], s, e)
        BY <3>1
      <3> QED  BY <1>8, <2>2, <3>2
    <2>4. CASE t = s
      <3>1. p \in KeptAfter(sh, e) /\ book'[t].cells[p] = Rewritten(sh.cells[CameAt(sh, e, p)], s, e)
        BY <1>3, <2>4
      <3>2. CameAt(sh, e, p) \in DOMAIN sh.cells
        <4>1. DOMAIN sh.cells \subseteq Grid  BY <1>1, SheetFields
        <4> QED  BY <3>1, <4>1, CameIs
      <3> QED  BY <1>1, <1>8, <2>2, <3>1, <3>2
    <2> QED  BY <2>3, <2>4
  <1>10. HomesHold'
    <2>1. ASSUME NEW t \in Sheets, NEW p \in DOMAIN book'[t].cells  PROVE AtHome(book'[t], p)
      <3>1. CASE t # s
        <4>1. p \in DOMAIN book[t].cells  BY <1>4, <3>1
        <4>2. AtHome(book[t], p)  BY <1>5, <4>1 DEF HomesHold
        <4> QED  BY <1>4, <3>1, <4>2 DEF AtHome, SameLines
      <3>2. CASE t = s
        <4>1. p \in KeptAfter(sh, e)  BY <1>3, <3>2
        <4> QED  BY <1>1, <1>3, <1>5, <3>2, <4>1, HomeKept
      <3> QED  BY <3>1, <3>2
    <2> QED  BY <1>1, <2>1 DEF HomesHold, AtHome
  <1>11. MergesHold'
    <2>1. ASSUME NEW t \in Sheets, NEW m \in book'[t].merges
          PROVE  OnCells(book'[t], m) /\ \A k \in book'[t].merges : k # m => Apart(m.box, k.box)
      <3>1. CASE t # s
        <4>1. m \in book[t].merges /\ book'[t].merges = book[t].merges  BY <1>4, <3>1
        <4>2. OnCells(book[t], m) /\ \A k \in book[t].merges : k # m => Apart(m.box, k.box)
          BY <1>5, <4>1 DEF MergesHold
        <4>3. OnCells(book'[t], m)  BY <1>4, <3>1, <4>2, SameLinesFollow
        <4> QED  BY <4>1, <4>2, <4>3
      <3>2. CASE t = s
        <4>1. \A k \in book'[s].merges : \E old \in sh.merges : ShiftMerge(old.box, e) # NoBox /\ k = MergeAfter(old, e)
          BY <1>3 DEF MergesAfter
        <4>2. PICK old \in sh.merges : ShiftMerge(old.box, e) # NoBox /\ m = MergeAfter(old, e)
          BY <3>2, <4>1
        <4>3. \A k \in sh.merges : k.box \in WideBoxes /\ k.of \in Meanings  BY <1>1, SheetFields
        <4>4. OnCells(sh, old)  BY <1>1, <1>5 DEF MergesHold
        <4>5. OnCells(sh2, m)  BY <1>1, <1>3, <1>5, <4>2, <4>3, <4>4, MergeKept
        <4>6. ASSUME NEW k \in book'[s].merges, k # m  PROVE Apart(m.box, k.box)
          <5>1. PICK other \in sh.merges : ShiftMerge(other.box, e) # NoBox /\ k = MergeAfter(other, e)
            BY <4>1
          <5>2. other # old  BY <4>2, <4>6, <5>1
          <5>3. Apart(old.box, other.box)  BY <1>1, <1>5, <5>2 DEF MergesHold
          <5>4. m.box = ShiftMerge(old.box, e) /\ k.box = ShiftMerge(other.box, e)
            BY <4>2, <5>1 DEF MergeAfter
          <5> QED  BY <4>2, <4>3, <5>1, <5>3, <5>4, MergesApart
        <4> QED  BY <3>2, <4>5, <4>6
      <3> QED  BY <3>1, <3>2
    <2> QED  BY <1>1, <2>1 DEF MergesHold, OnCells, BoxFollows
  <1> QED  BY <1>7, <1>9, <1>10, <1>11 DEF FollowInv

LEMMA StepKeepsFollow == TypeOK /\ SaveInv /\ FollowInv /\ [Next]_vars => FollowInv'
  <1> SUFFICES ASSUME TypeOK, SaveInv, FollowInv, [Next]_vars PROVE FollowInv'  OBVIOUS
  <1>0. Distinct  BY DEF SaveInv
  <1>1. CASE Next
    <2>1. CASE \E s \in Sheets : \E contents : Fits(contents) /\ Write(s, contents)
      BY <2>1, WriteKeepsFollow, Zenon
    <2>2. CASE \E s \in Sheets, axis \in Axes : \E e \in EditsOn(axis) : StructuralEdit(s, e)
      BY <1>0, <2>2, EditKeepsFollow, Zenon
    <2>3. CASE \E s \in Sheets, name \in SheetNames : RenameSheet(s, name)
      BY <2>3, RenameKeepsFollow, Zenon
    <2>4. CASE \E s \in Sheets : DeleteSheet(s)
      BY <1>0, <2>4, DeleteKeepsFollow, Zenon
    <2>5. CASE \E name \in SheetNames : AddSheet(name)
      BY <2>5, AddKeepsFollow, Zenon
    <2>6. CASE Save
      <3>1. book' = book /\ fallen' = fallen  BY <2>6 DEF Save
      <3> QED  BY <3>1, SameBookKeepsFollow
    <2> QED  BY <1>1, <2>1, <2>2, <2>3, <2>4, <2>5, <2>6, StepIs, Zenon
  <1>2. CASE UNCHANGED vars
    <2>1. book' = book /\ fallen' = fallen  BY <1>2 DEF vars
    <2> QED  BY <2>1, SameBookKeepsFollow
  <1> QED  BY <1>1, <1>2

(***************************************************************************)
(* Whatever was typed, sorted, filled, inserted, deleted, added or renamed *)
(* since: a formula refers to the lines it meant that still exist, and is  *)
(* #REF! only where nothing of them is left or part was pushed off the     *)
(* sheet; cells and merges stay on their rows and columns, and merges      *)
(* apart.  (rewrite, drop_sheet_refs, apply_edit_structural, shift_merge)  *)
(***************************************************************************)
THEOREM FollowCorrect == Spec => []EditsMoveTogether
  <1>1. Init => TypeOK /\ SaveInv /\ FollowInv  BY InitType, InitSave, InitFollow
  <1>2. TypeOK /\ SaveInv /\ FollowInv /\ [Next]_vars => (TypeOK /\ SaveInv /\ FollowInv)'
    BY StepKeepsType, StepKeepsSave, StepKeepsFollow
  <1>3. TypeOK /\ SaveInv /\ FollowInv => EditsMoveTogether  BY FollowInvSuffices
  <1> QED  BY <1>1, <1>2, <1>3, PTL DEF Spec

=============================================================================
