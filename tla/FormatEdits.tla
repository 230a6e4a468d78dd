----------------------------- MODULE FormatEdits ----------------------------
(***************************************************************************)
(* Formatting a sheet and undoing it: the format verbs of the session      *)
(* (session.ts, Wave 6 and 9) over the doors of the engine (sheet-js       *)
(* core/format.rs, core/fill.rs) and the style part they grow.             *)
(*                                                                         *)
(* The sheet is one row of cells, so a box is an interval of columns.  A   *)
(* journal record is one undo step: its format step, or none, and the cell *)
(* edits of the same batch.  A change of styles is a task: the engine      *)
(* patches one style after another in a draft of the style part, and the   *)
(* part, the cells and the journal take the result when all are patched.   *)
(* Nothing else runs in between.                                           *)
(*                                                                         *)
(* trail, lost, buried and crossed are history: the sheet after each step  *)
(* as it was made, the cells whose formats the journal does not keep,      *)
(* those whose contents a merge has swallowed while undoing, and whether a *)
(* name was deleted whose slot undo will not find again.                   *)
(***************************************************************************)
EXTENDS StyleSheet

CONSTANTS
  NumCells,    \* the columns of the sheet
  Selections,  \* the boxes the user selects
  Framed,      \* the boxes borders are drawn for
  Named,       \* the boxes names are defined for
  Kinds,       \* the border tools used
  Texts,       \* what may be entered; "" clears
  Patches,     \* the style patches asked for
  Borders,     \* the edges asked for by the border tools
  Widths,      \* explicit column widths; 0 is the default
  Scopes,      \* where names may be defined; "workbook" or a sheet
  Files,       \* the files opened: a style part, and a sheet's cells, merges and names
  MaxFormatId, \* bound: the number-format ids of a file
  MaxOps       \* bound: commits

ASSUME FormatAssumption ==
  /\ NumCells \in Nat \ {0}
  /\ MaxFormatId \in Nat /\ MaxOps \in Nat
  /\ \A b \in Selections \cup Framed \cup Named : b[1] \in 1..NumCells /\ b[2] \in b[1]..NumCells
  /\ Kinds \subseteq {"all", "none", "outline", "top", "bottom", "left", "right"}
  /\ \A p \in Patches : DOMAIN p \subseteq Fields
  /\ \A file \in Files :
       Tables(file[1]) /\ InOrder(file[1]) /\ FormatIdsBelow(file[1], MaxFormatId)

(* A spelling is defined once in a scope.                                  *)
ASSUME SheetAssumption ==
  /\ "parked" \notin Scopes
  /\ \A file \in Files :
       LET cells == file[2].cells
           names == file[2].names
       IN  /\ cells = [c \in 1..NumCells |-> [text |-> cells[c].text, style |-> cells[c].style]]
           /\ IsTable(names)
           /\ \A k \in 1..Len(names) :
                names[k] = [scope |-> names[k].scope, target |-> names[k].target]
           /\ \A j, k \in 1..Len(names) : names[j].scope = names[k].scope => j = k

VARIABLES
  book,        \* cells, merges, widths, freeze and names
  part,        \* styles.xml
  draft,       \* the part a style change is building
  task,        \* the style change under way, or Idle
  journal, cursor,
  trail, lost, buried, crossed,
  ops

vars == <<book, part, draft, task, journal, cursor, trail, lost, buried, crossed, ops>>

Cells == 1..NumCells
Span(box) == box[1]..box[2]

NoText == ""
Blank == [text |-> NoText, style |-> 1]
None == [kind |-> "none"]
Idle == [calls |-> <<>>]

-----------------------------------------------------------------------------
(* The doors of the engine                                                 *)

(* Entering "" removes the cell, its style with it; anything else keeps    *)
(* the style.                                                              *)
Entered(cell, text) == IF text = NoText THEN Blank ELSE [cell EXCEPT !.text = text]

(* set_cell_style: a blank cell of the default style is no cell.           *)
Styled(cells, ids, box) ==
  [c \in Cells |-> IF c \in Span(box) THEN [cells[c] EXCEPT !.style = ids[c]] ELSE cells[c]]

(* get_style_ids                                                           *)
StyleIds(cells, box) == [c \in Span(box) |-> cells[c].style]

(* A batch of entries, no two of them at one cell: their order is nothing. *)
Of(edits, c) == {e \in edits : e.cell = c}
WriteAll(cells, edits, field) ==
  [c \in Cells |-> IF Of(edits, c) = {} THEN cells[c]
                   ELSE Entered(cells[c], (CHOOSE e \in Of(edits, c) : TRUE)[field])]

Meets(a, b) == a[1] <= b[2] /\ b[1] <= a[2]

(* The entries that clear some cells, those which hold something.          *)
Clears(cells, at) ==
  {[cell |-> c, prev |-> cells[c].text, next |-> NoText] : c \in {d \in at : cells[d].text # NoText}}

(* A slip: the last cell of the box is left out.                           *)
ClearingOpen(cells, box) == Clears(cells, Span(box) \ {box[2]})

Clearing(cells, box) == Clears(cells, Span(box))

CanMerge(b, box) == box[1] < box[2] /\ \A m \in b.merges : ~Meets(m, box)

(* merge: the first cell keeps its content, the others are cleared.        *)
MergeEdits(b, box) == Clearing(b.cells, <<box[1] + 1, box[2]>>)
Cleared(cells, under) ==
  [c \in Cells |-> IF c \in under /\ cells[c].text # NoText THEN Blank ELSE cells[c]]
Under(boxes) == UNION {(m[1] + 1)..m[2] : m \in boxes}
Merged(b, boxes) ==
  [b EXCEPT !.cells = Cleared(@, Under(boxes)), !.merges = @ \cup boxes]

Unmerged(b, box) == [b EXCEPT !.merges = {m \in @ : ~Meets(m, box)}]

Sized(b, box, width) ==
  [b EXCEPT !.widths = [c \in Cells |-> IF c \in Span(box) THEN width ELSE @[c]]]

(* Defined names, all of one spelling, at most one in each scope.  The slot *)
(* of a deleted name is parked, formulas keep it; what scope it had is     *)
(* forgotten, and the name that is defined next takes the first one.       *)
Slots(names, scope) == {k \in 1..Len(names) : names[k].scope = scope}
FirstSlot(slots) == CHOOSE k \in slots : \A j \in slots : k <= j

Defined(names, scope, target) ==
  LET def  == [scope |-> scope, target |-> target]
      live == Slots(names, scope)
      free == Slots(names, "parked")
  IN  CASE live # {} -> [names EXCEPT ![FirstSlot(live)] = def]
        [] live = {} /\ free # {} -> [names EXCEPT ![FirstSlot(free)] = def]
        [] OTHER -> Append(names, def)

Deleted(names, scope) ==
  [names EXCEPT ![FirstSlot(Slots(names, scope))] = [scope |-> "parked", target |-> <<"#NAME?">>]]

(* The name as listed, or <<>>.                                            *)
Listed(names, scope) ==
  IF Slots(names, scope) = {} THEN <<>> ELSE <<names[FirstSlot(Slots(names, scope))].target>>

-----------------------------------------------------------------------------
(* The journal                                                             *)

(* One step back or forward of each kind of format step.                   *)
FmtUndone(b, fmt) ==
  CASE fmt.kind = "style"   -> [b EXCEPT !.cells = Styled(@, fmt.before, fmt.box)]
    [] fmt.kind = "merge"   -> Unmerged(b, fmt.box)
    [] fmt.kind = "unmerge" -> Merged(b, fmt.gone)
    [] fmt.kind = "width"   ->
         [b EXCEPT !.widths = [c \in Cells |-> IF c \in Span(fmt.box) THEN fmt.had[c] ELSE @[c]]]
    [] fmt.kind = "freeze"  -> [b EXCEPT !.freeze = fmt.before]
    [] fmt.kind = "name"    ->
         [b EXCEPT !.names = IF fmt.prior = <<>> THEN Deleted(@, fmt.scope)
                             ELSE Defined(@, fmt.scope, fmt.prior[1])]
    [] OTHER -> b

FmtRedone(b, fmt) ==
  CASE fmt.kind = "style"   -> [b EXCEPT !.cells = Styled(@, fmt.after, fmt.box)]
    [] fmt.kind = "merge"   -> Merged(b, {fmt.box})
    [] fmt.kind = "unmerge" -> Unmerged(b, fmt.box)
    [] fmt.kind = "width"   -> Sized(b, fmt.box, fmt.size)
    [] fmt.kind = "freeze"  -> [b EXCEPT !.freeze = fmt.after]
    [] fmt.kind = "name"    ->
         [b EXCEPT !.names = IF fmt.target = <<>> THEN Deleted(@, fmt.scope)
                             ELSE Defined(@, fmt.scope, fmt.target[1])]
    [] OTHER -> b

(* A name that stood for text cannot be defined again, and the step back   *)
(* is refused.                                                             *)
Undoable(fmt) == fmt.kind = "name" => fmt.prior # <<<<"text">>>>

Written(b, edits, field) == [b EXCEPT !.cells = WriteAll(@, edits, field)]

(* Undo runs the format step, then the cell inputs; redo the inputs, then  *)
(* the format step.                                                        *)
Undone(b, rec) == Written(FmtUndone(b, rec.fmt), rec.edits, "prev")
Redone(b, rec) == FmtRedone(Written(b, rec.edits, "next"), rec.fmt)

(* The record of a change, and the sheet after it.                         *)
Record(rec, after) ==
  /\ journal' = Append(SubSeq(journal, 1, cursor), rec)
  /\ cursor' = cursor + 1
  /\ trail' = SubSeq(trail, 1, cursor) \o <<book, after>>
  /\ book' = after
  /\ ops' = ops + 1

Commit(rec, after) == Record(rec, after) /\ UNCHANGED <<part, draft, task, lost, buried, crossed>>

Ready == task = Idle /\ ops < MaxOps

(* journaledSetCell                                                        *)
SetCell(c, text) ==
  /\ Ready
  /\ Commit([fmt |-> None, edits |-> {[cell |-> c, prev |-> book.cells[c].text, next |-> text]}],
            [book EXCEPT !.cells[c] = Entered(@, text)])

(* clearSelection writes every cell of the box and journals those that     *)
(* held something: a blank cell loses its format without a record, and a   *)
(* box of blank cells makes no step at all.                                *)
ClearSelection(box) ==
  /\ Ready
  /\ LET edits == Clearing(book.cells, box)
         after == [book EXCEPT !.cells = [c \in Cells |-> IF c \in Span(box) THEN Blank ELSE @[c]]]
     IN  IF edits = {}
         THEN book' = after /\ ops' = ops + 1 /\ UNCHANGED <<journal, cursor, trail>>
         ELSE Record([fmt |-> None, edits |-> edits], after)
  /\ lost' = lost \cup {c \in Span(box) : book.cells[c].text = NoText}
  /\ UNCHANGED <<part, draft, task, buried, crossed>>

MergeTarget(box) ==
  /\ Ready
  /\ CanMerge(book, box)
  /\ Commit([fmt |-> [kind |-> "merge", box |-> box], edits |-> MergeEdits(book, box)],
            Merged(book, {box}))

(* Journaled even when there is nothing to take apart.                     *)
UnmergeTarget(box) ==
  /\ Ready
  /\ Commit([fmt |-> [kind |-> "unmerge", box |-> box, gone |-> {m \in book.merges : Meets(m, box)}],
             edits |-> {}],
            Unmerged(book, box))

SetColumnWidth(box, width) ==
  /\ Ready
  /\ Commit([fmt |-> [kind |-> "width", box |-> box, size |-> width,
                      had |-> [c \in Span(box) |-> book.widths[c]]], edits |-> {}],
            Sized(book, box, width))

(* The split goes before the selected cell, or away.                       *)
ToggleFreeze(c) ==
  /\ Ready
  /\ book.freeze = 0 => c > 1
  /\ LET at == IF book.freeze > 0 THEN 0 ELSE c - 1
     IN  Commit([fmt |-> [kind |-> "freeze", before |-> book.freeze, after |-> at], edits |-> {}],
                [book EXCEPT !.freeze = at])

DefineName(scope, box) ==
  /\ Ready
  /\ Commit([fmt |-> [kind |-> "name", scope |-> scope, prior |-> Listed(book.names, scope),
                      target |-> <<box>>], edits |-> {}],
            [book EXCEPT !.names = Defined(@, scope, box)])

DeleteName(scope) ==
  /\ Ready
  /\ Slots(book.names, scope) # {}
  /\ Record([fmt |-> [kind |-> "name", scope |-> scope, prior |-> Listed(book.names, scope),
                      target |-> <<>>], edits |-> {}],
            [book EXCEPT !.names = Deleted(@, scope)])
  /\ crossed' = (crossed \/ \E k \in Slots(book.names, "parked") : k < FirstSlot(Slots(book.names, scope)))
  /\ UNCHANGED <<part, draft, task, lost, buried>>

(* A fill goes to one side of its source.  Its targets, from the source    *)
(* outwards, repeat the source cells from the nearest on.                  *)
Extends(dst, src) ==
  \/ dst[1] = src[1] /\ dst[2] > src[2]
  \/ dst[2] = src[2] /\ dst[1] < src[1]

Source(src, c) ==
  LET width == src[2] - src[1] + 1
  IN  IF c > src[2] THEN src[1] + ((c - src[2] - 1) % width)
      ELSE src[2] - ((src[1] - c - 1) % width)

(* What each target takes over.                                            *)
FillPlan(cells, src, dst) == [c \in Span(dst) \ Span(src) |-> cells[Source(src, c)]]

Restyled(cells, plan) ==
  [c \in Cells |-> IF c \in DOMAIN plan THEN [cells[c] EXCEPT !.style = plan[c].style] ELSE cells[c]]

(* fillTo over fill_range: the formats go first, where they differ, and    *)
(* the swap is read before the inputs are written; then the inputs that    *)
(* differ, in one batch.                                                   *)
Fill(src, dst) ==
  /\ Ready
  /\ Extends(dst, src)
  /\ LET plan   == FillPlan(book.cells, src, dst)
         styled == Restyled(book.cells, plan)
         swap   == IF styled = book.cells THEN None
                   ELSE [kind |-> "style", box |-> dst, before |-> StyleIds(book.cells, dst),
                         after |-> StyleIds(styled, dst)]
         edits  == {[cell |-> c, prev |-> styled[c].text, next |-> plan[c].text] :
                      c \in {d \in DOMAIN plan : styled[d].text # plan[d].text}}
     IN  /\ swap # None \/ edits # {}
         /\ Commit([fmt |-> swap, edits |-> edits],
                   [book EXCEPT !.cells = WriteAll(styled, edits, "next")])

-----------------------------------------------------------------------------
(* Style changes                                                           *)

(* set_style collects the styles of the range, the blank cells' included.  *)
Bases(cells, box) == {cells[c].style : c \in Span(box)}

StartCall(cells, calls) == Bases(cells, calls[1].box)

Begin(box, calls) ==
  /\ Ready
  /\ \A k \in 1..Len(calls) : Acceptable(calls[k].patch)
  /\ task' = [box |-> box, calls |-> calls, before |-> StyleIds(book.cells, box),
              started |-> book, todo |-> StartCall(book.cells, calls), map |-> <<>>]
  /\ draft' = part
  /\ UNCHANGED <<book, part, journal, cursor, trail, lost, buried, crossed, ops>>

SetStyle(box, patch) == Begin(box, <<[box |-> box, patch |-> patch]>>)

One(f, edge) == [g \in {f} |-> edge]
Four(edge) == [g \in BorderFields |-> edge]

(* The strips of the border tool.  In one row the top and bottom strips    *)
(* are the block itself.                                                   *)
BorderCalls(kind, box, edge) ==
  LET first == <<box[1], box[1]>>
      last  == <<box[2], box[2]>>
      Call(b, patch) == [box |-> b, patch |-> patch]
  IN  CASE kind = "all"     -> <<Call(box, Four(edge))>>
        [] kind = "none"    -> <<Call(box, Four([style |-> "none", color |-> ""]))>>
        [] kind = "outline" -> <<Call(box, One("top", edge)), Call(box, One("bottom", edge)),
                                 Call(first, One("left", edge)), Call(last, One("right", edge))>>
        [] kind = "left"    -> <<Call(first, One("left", edge))>>
        [] kind = "right"   -> <<Call(last, One("right", edge))>>
        [] OTHER            -> <<Call(box, One(kind, edge))>>

SetBorders(kind, box, edge) == Begin(box, BorderCalls(kind, box, edge))

(* apply_style_patch takes the styles in ascending order.                  *)
PatchNext ==
  /\ task # Idle
  /\ task.todo # {}
  /\ LET base == CHOOSE b \in task.todo : \A o \in task.todo : b <= o
         res  == ApplyToXf(draft, base, task.calls[1].patch)
     IN  /\ draft' = res.part
         /\ task' = [task EXCEPT !.todo = @ \ {base},
                                 !.map = [b \in (DOMAIN @) \cup {base} |-> IF b = base THEN res.id ELSE @[b]]]
  /\ UNCHANGED <<book, part, journal, cursor, trail, lost, buried, crossed, ops>>

(* All styles of a call are patched: the part, re-read, and the cells take *)
(* them.  After the last call the step is journaled.                       *)
Assigned(box) ==
  [book EXCEPT !.cells = Styled(@, [c \in Span(box) |-> task.map[@[c].style]], box)]

FinishCall ==
  /\ task # Idle
  /\ task.todo = {}
  /\ part' = draft
  /\ LET after == Assigned(task.calls[1].box)
         rest  == Tail(task.calls)
     IN  IF rest = <<>>
         THEN /\ task' = Idle
              /\ trail' = SubSeq(trail, 1, cursor) \o <<task.started, after>>
              /\ journal' = Append(SubSeq(journal, 1, cursor),
                                   [fmt |-> [kind |-> "style", box |-> task.box,
                                             before |-> task.before,
                                             after |-> StyleIds(after.cells, task.box)],
                                    edits |-> {}])
              /\ cursor' = cursor + 1
              /\ ops' = ops + 1
              /\ book' = after
         ELSE /\ task' = [task EXCEPT !.calls = rest, !.map = <<>>,
                                      !.todo = StartCall(after.cells, rest)]
              /\ book' = after
              /\ UNCHANGED <<journal, cursor, trail, ops>>
  /\ UNCHANGED <<draft, lost, buried, crossed>>

-----------------------------------------------------------------------------
(* Cells a step of the journal empties, before it or after it, lose the    *)
(* format they had.                                                        *)
Emptied(rec) ==
  {e.cell : e \in {f \in rec.edits : NoText \in {f.prev, f.next}}}

(* Cells under the merges an undo puts back.                               *)
Swallowed(rec) ==
  IF rec.fmt.kind # "unmerge" THEN {}
  ELSE Under(rec.fmt.gone)

Step(rec, after) ==
  /\ book' = after
  /\ lost' = lost \cup Emptied(rec) \cup Swallowed(rec)
  /\ buried' = buried \cup Swallowed(rec)
  /\ UNCHANGED <<part, draft, task, journal, trail, crossed, ops>>

Undo ==
  /\ task = Idle
  /\ cursor > 0
  /\ Undoable(journal[cursor].fmt)
  /\ cursor' = cursor - 1
  /\ Step(journal[cursor], Undone(book, journal[cursor]))

Redo ==
  /\ task = Idle
  /\ cursor < Len(journal)
  /\ cursor' = cursor + 1
  /\ Step(journal[cursor + 1], Redone(book, journal[cursor + 1]))

Init ==
  /\ \E file \in Files :
       /\ part = file[1]
       /\ book = [cells |-> file[2].cells, merges |-> file[2].merges, names |-> file[2].names,
                  widths |-> [c \in Cells |-> 0], freeze |-> 0]
  /\ draft = part
  /\ task = Idle
  /\ journal = <<>> /\ cursor = 0
  /\ trail = <<book>>
  /\ lost = {} /\ buried = {} /\ crossed = FALSE
  /\ ops = 0

Edit ==
  \/ \E c \in Cells, text \in Texts : SetCell(c, text)
  \/ \E box \in Selections : ClearSelection(box)
  \/ \E box \in Selections : MergeTarget(box)
  \/ \E box \in Selections : UnmergeTarget(box)
  \/ \E box \in Selections, w \in Widths : SetColumnWidth(box, w)
  \/ \E box \in Selections : ToggleFreeze(box[1])
  \/ \E scope \in Scopes, box \in Named : DefineName(scope, box)
  \/ \E scope \in Scopes : DeleteName(scope)
  \/ \E src, dst \in Selections : Fill(src, dst)
  \/ \E box \in Selections, p \in Patches : SetStyle(box, p)
  \/ \E kind \in Kinds, box \in Framed, edge \in Borders : SetBorders(kind, box, edge)

Next == Edit \/ PatchNext \/ FinishCall \/ Undo \/ Redo

Spec == Init /\ [][Next]_vars

-----------------------------------------------------------------------------
(* The slots in use, with what they stand for.                             *)
Live(names) == {<<k, names[k]>> : k \in (1..Len(names)) \ Slots(names, "parked")}

(* The sheet is the one the steps up to the cursor made: undo and redo     *)
(* bring back contents, formats, merges, widths, the split and the names,  *)
(* also in the slots formulas hold.  Out of the promise are the formats of *)
(* cells a step emptied, what lies under a merge that an undo put back,    *)
(* and the slots of names of one spelling deleted out of turn.             *)
(* (session.ts stepJournal, sheet-js core/format.rs)                       *)
OnTrail ==
  task = Idle =>
    LET then == trail[cursor + 1]
    IN  /\ book.merges = then.merges
        /\ book.widths = then.widths
        /\ book.freeze = then.freeze
        /\ \A scope \in Scopes : Listed(book.names, scope) = Listed(then.names, scope)
        /\ ~crossed => Live(book.names) = Live(then.names)
        /\ \A c \in Cells \ buried : book.cells[c].text = then.cells[c].text
        /\ \A c \in Cells \ lost : book.cells[c].style = then.cells[c].style

(* No record is ever rewritten: what a style says, on the page and in the  *)
(* panel, it says for good, whatever is patched later (style_edit.rs:      *)
(* "Existing records are never rewritten, so every index stays valid").    *)
RecordsKept ==
  [][part' # part =>
       \A id \in 1..Len(part.xfs) :
         Page(part', id) = Page(part, id) /\ Panel(part', id) = Panel(part, id)]_part
=============================================================================
