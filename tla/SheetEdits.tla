----------------------------- MODULE SheetEdits -----------------------------
(***************************************************************************)
(* The edits of a workbook that move cells, formulas and sheets            *)
(* (sheet-js/src/core.rs, core/ops.rs, core/fill.rs over sheet-calc and    *)
(* sheet-xlsx): typing, sorting, filling, inserting and deleting rows and  *)
(* columns, adding, renaming and deleting sheets, and saving.  A session   *)
(* holds the model (the sheets, with formulas whose references are         *)
(* addresses) beside the file it came from (the stored text of each        *)
(* formula, which names sheets), and remembers which cells to print again  *)
(* when it saves.                                                          *)
(*                                                                         *)
(* Results, styles and sizes are left out.  Every line of every sheet and  *)
(* every sheet carry an identity no edit changes: they say what a          *)
(* reference meant when it was entered.                                    *)
(***************************************************************************)
EXTENDS SheetRefs, Sequences, FiniteSets, Functions

CONSTANTS
    SheetNames,     \* names a sheet may have
    Names,          \* defined names
    Keys,           \* values of cells, as the sort orders them
    Books,          \* workbooks to open: sequences of [name, cells, merges], where
                    \* cells maps positions to what is entered there
    NameTables,     \* the names of such a workbook, by what is entered for them
    Entries,        \* what a user types: <<sheet, position, entry>>
    SortRanges,     \* boxes a user sorts
    Fills,          \* what a user fills: <<source box, target box>>
    MaxOps          \* edits of one session (a bound of the model)

VARIABLES
    book,           \* SheetModel: the sheets, in order
    names,          \* SheetModel: what each defined name stands for
    texts,          \* XlsxDocument::formula_texts
    edited,         \* SheetSession::edited: cells to print again on save
    extraDirty,     \* SheetSession::extra_dirty: sheets to write again
    dirtyParts,     \* parts of the file flagged for a rewrite, by sheet identity
    file,           \* what the parts of the file hold, by sheet identity
    fresh,          \* history: the next identity
    fallen,         \* history: lines pushed off the end of their sheet
    sorted,         \* history: the sort just made, if the last edit was one
    ops             \* edits so far

vars == <<book, names, texts, edited, extraDirty, dirtyParts, file, fresh, fallen, sorted, ops>>

Rows == 0 .. MaxRow
Cols == 0 .. MaxCol
Positions == Rows \X Cols
Sheets == DOMAIN book
CellsOf(b) == UNION {{s} \X DOMAIN b[s].cells : s \in DOMAIN b}
In(p, box) == p[1] \in box.top .. box.bottom /\ p[2] \in box.left .. box.right
Only(f, keys) == [k \in keys |-> f[k]]

-----------------------------------------------------------------------------
(* What is entered in a cell.  Only a file can hold a formula that Paged    *)
(* does not read; what a user types is read or is a value.                  *)
ReadEntries == [kind : {"value"}, v : Keys] \cup [kind : {"ref"}, sheet : Nat, area : Areas]
TypedEntries == ReadEntries \cup [kind : {"blank"}]
FileEntries == ReadEntries \cup [kind : {"verbatim"}, sheet : Nat, v : Keys]

ASSUME NamesAssumption == "" \notin SheetNames /\ "#REF" \notin SheetNames /\ Keys \subseteq Nat

(* A file holds at least the cells of its sheets, on the sheet; its sheets  *)
(* have different names, and its merges do not overlap.                     *)
ASSUME BooksAssumption ==
    \A b \in Books :
        /\ Len(b) \in Nat /\ DOMAIN b = 1 .. Len(b)
        /\ \A s, t \in DOMAIN b : s # t => b[s].name # b[t].name
        /\ \A s \in DOMAIN b :
              /\ b[s].name \in SheetNames
              /\ DOMAIN b[s].cells \subseteq Positions
              /\ \A p \in DOMAIN b[s].cells :
                    /\ b[s].cells[p] \in FileEntries
                    /\ b[s].cells[p].kind # "value" => b[s].cells[p].sheet \in DOMAIN b
              /\ b[s].merges \subseteq Boxes
              /\ \A m, k \in b[s].merges : m # k => Apart(m, k)

(* What the panels offer lies on the sheet. *)
ASSUME InputsAssumption ==
    /\ Entries \subseteq Nat \X Positions \X TypedEntries
    /\ SortRanges \subseteq Boxes
    /\ Fills \subseteq Boxes \X Boxes

-----------------------------------------------------------------------------
(***************************************************************************)
(* A cell holds a value, a formula that refers to an area of a sheet, a    *)
(* formula whose reference has become #REF!, or a formula the parser did   *)
(* not read: that one is a value in the model and a text in the file.      *)
(* What a reference meant, of, are the lines it covered when entered, and  *)
(* for one that has become #REF! those it covered last.                    *)
(***************************************************************************)
Meaning(b, sheet, area) ==
    [sid |-> b[sheet].sid, born |-> fresh,
     rows |-> {b[sheet].rows[i] : i \in area.top .. area.bottom},
     cols |-> {b[sheet].cols[i] : i \in area.left .. area.right}]
NoMeaning == [sid |-> 0, born |-> 0, rows |-> {}, cols |-> {}]

Blank == [kind |-> "blank"]
Value(v) == [kind |-> "value", v |-> v]
Ref(sheet, area, of) == [kind |-> "ref", sheet |-> sheet, area |-> area, of |-> of]
Broken(of) == [kind |-> "broken", of |-> of]
Verbatim(sid, v) == [kind |-> "verbatim", sid |-> sid, v |-> v]
Parsed(content) == content.kind \in {"ref", "broken"}
ContentAt(b, s, p) == IF p \in DOMAIN b[s].cells THEN b[s].cells[p] ELSE Blank

(* Entries name sheets by number; only a file can hold a verbatim one. *)
Entered(b, entry) ==
    CASE entry.kind = "value" -> Value(entry.v)
      [] entry.kind = "ref" -> Ref(entry.sheet, entry.area, Meaning(b, entry.sheet, entry.area))
      [] entry.kind = "verbatim" -> Verbatim(b[entry.sheet].sid, entry.v)
      [] OTHER -> Blank

(* A defined name stands for a range, or is kept as a text. *)
EnteredName(b, entry) ==
    IF entry.kind = "text" THEN [kind |-> "text", names |-> b[entry.sheet].name] ELSE Entered(b, entry)

NameOf(b, sid) ==
    IF \E s \in DOMAIN b : b[s].sid = sid
    THEN b[CHOOSE s \in DOMAIN b : b[s].sid = sid].name ELSE "#REF"

(* What stands for a cell of sheet s in the file, or in the formula bar: a  *)
(* value, or a text, which names the sheet it refers to unless that is s.   *)
Printed(b, s, content) ==
    CASE content.kind = "ref" ->
            [area |-> content.area,
             names |-> IF content.sheet = s THEN "" ELSE b[content.sheet].name]
      [] content.kind = "broken" -> [area |-> NoBox, names |-> ""]
      [] content.kind = "verbatim" -> [unread |-> TRUE, names |-> NameOf(b, content.sid)]
      [] content.kind = "value" -> [value |-> content.v]
      [] OTHER -> [value |-> -1]

Formulas(b) == {k \in CellsOf(b) : Parsed(b[k[1]].cells[k[2]])}
PrintedAt(b, k) == Printed(b, k[1], b[k[1]].cells[k[2]])

-----------------------------------------------------------------------------
(* A workbook has just been loaded. *)
Sheet(b, name, n) ==
    [name |-> name, sid |-> n,
     rows |-> [i \in Rows |-> 1 + i], cols |-> [i \in Cols |-> 1 + i]]

Init ==
    /\ fallen = {} /\ ops = 0
    /\ \E opened \in Books :
         LET blanks == [s \in DOMAIN opened |-> Sheet(opened, opened[s].name, s)]
             At(s, p) == <<blanks[s].rows[p[1]], blanks[s].cols[p[2]]>>
         IN  /\ fresh = MaxRow + 2 + Len(opened)
             /\ book = [s \in DOMAIN opened |->
                   [name |-> opened[s].name, sid |-> s,
                    rows |-> blanks[s].rows, cols |-> blanks[s].cols,
                    cells |-> [p \in DOMAIN opened[s].cells |-> Entered(blanks, opened[s].cells[p])],
                    home |-> [p \in DOMAIN opened[s].cells |-> At(s, p)],
                    merges |-> {[box |-> m, of |-> Meaning(blanks, s, m)] : m \in opened[s].merges}]]
             /\ \E table \in NameTables : names = [n \in Names |-> EnteredName(blanks, table[n])]
    /\ texts = [k \in {j \in CellsOf(book) : book[j[1]].cells[j[2]].kind \in {"ref", "verbatim"}} |->
                  PrintedAt(book, k)]
    /\ file = [s \in DOMAIN book |->
                  [p \in DOMAIN book[s].cells |-> Printed(book, s, book[s].cells[p])]]
    /\ edited = {} /\ extraDirty = {} /\ dirtyParts = {} /\ sorted = {}

-----------------------------------------------------------------------------
(* Typing, sorting, filling: inputs written to cells, in one batch *)

(* The cells of sheet s once contents, a map from positions, is written. *)
Written(s, contents) ==
    LET kept == {p \in DOMAIN book[s].cells \cup DOMAIN contents :
                    IF p \in DOMAIN contents THEN contents[p] # Blank ELSE TRUE}
    IN  [book EXCEPT
            ![s].cells = [p \in kept |-> IF p \in DOMAIN contents THEN contents[p] ELSE @[p]],
            ![s].home = [p \in kept |-> IF p \in DOMAIN contents
                                        THEN <<book[s].rows[p[1]], book[s].cols[p[2]]>> ELSE @[p]]]

Write(s, contents) ==
    /\ book' = Written(s, contents)
    /\ edited' = edited \cup ({s} \X (DOMAIN contents))
    /\ UNCHANGED <<names, texts, extraDirty, dirtyParts, file, fresh, fallen>>

(* An input that is what the cell shows already is not written. *)
Differing(s, contents) ==
    Only(contents, {p \in DOMAIN contents :
        Printed(book, s, contents[p]) # Printed(book, s, ContentAt(book, s, p))})

(* A value is copied, and so is the result of an unread formula; a formula  *)
(* copied elsewhere refers to what lies as far from it there.               *)
Copied(content, drow, dcol) ==
    CASE content.kind = "verbatim" -> Value(content.v)
      [] content.kind = "ref" /\ <<drow, dcol>> # <<0, 0>> ->
            LET area == FillArea(content.area, drow, dcol)
            IN  IF area = NoBox THEN Broken(NoMeaning)
                ELSE Ref(content.sheet, area, Meaning(book, content.sheet, area))
      [] OTHER -> content

SetCell(s, p, entry) ==
    /\ s \in Sheets
    /\ entry.kind = "ref" => entry.sheet \in Sheets
    /\ Write(s, [q \in {p} |-> Entered(book, entry)])

(* The sort key of a cell; hint is what formulas show. *)
NoKey == -1
KeyOf(content, hint) ==
    IF content = Blank THEN NoKey ELSE IF Parsed(content) THEN hint ELSE content.v

(* Slip: a descending sort turns the blanks round too. *)
PrecedesReversed(a, b, ascending) ==
    IF ascending THEN b = NoKey \/ (a # NoKey /\ a < b) ELSE a = NoKey \/ (b # NoKey /\ b < a)

(* sort_key_cmp, between different keys: blanks go last both ways. *)
Precedes(a, b, ascending) ==
    /\ a # NoKey
    /\ b = NoKey \/ IF ascending THEN a < b ELSE b < a

DataRows(box, header) == (IF header THEN box.top + 1 ELSE box.top) .. box.bottom

(* The row each row of the result comes from: the order is stable. *)
SortOrder(box, header, key, ascending) ==
    LET rows == DataRows(box, header)
        place(r) == Cardinality({q \in rows : IF key[q] = key[r] THEN q < r
                                              ELSE Precedes(key[q], key[r], ascending)})
    IN  [i \in rows |-> CHOOSE r \in rows : box.bottom - Cardinality(rows) + 1 + place(r) = i]

(* SheetSession::sort_range *)
Sort(s, box, col, ascending, header, hint) ==
    /\ s \in Sheets
    /\ Cardinality(DataRows(box, header)) > 1
    /\ \E key \in {[r \in DataRows(box, header) |-> KeyOf(ContentAt(book, s, <<r, col>>), hint)]} :
       \E from \in {SortOrder(box, header, key, ascending)} :
          Write(s, Differing(s, [p \in DataRows(box, header) \X (box.left .. box.right) |->
                     Copied(ContentAt(book, s, <<from[p[1]], p[2]>>), p[1] - from[p[1]], 0)]))

(* The line of lo .. hi that line i outside it repeats. *)
Repeated(i, lo, hi) == IF i > hi THEN lo + ((i - hi - 1) % (hi - lo + 1))
                                 ELSE hi - ((lo - 1 - i) % (hi - lo + 1))

(* One box extends the other along one axis, to one side. *)
Extends(src, dst) ==
    \/ /\ <<src.left, src.right>> = <<dst.left, dst.right>>
       /\ \/ dst.top = src.top /\ dst.bottom > src.bottom
          \/ dst.bottom = src.bottom /\ dst.top < src.top
    \/ /\ <<src.top, src.bottom>> = <<dst.top, dst.bottom>>
       /\ \/ dst.left = src.left /\ dst.right > src.right
          \/ dst.right = src.right /\ dst.left < src.left

(* SheetSession::fill_range, the plain repeat *)
Fill(s, src, dst) ==
    /\ s \in Sheets
    /\ Extends(src, dst)
    /\ LET From(p) == << IF p[1] \in src.top .. src.bottom THEN p[1] ELSE Repeated(p[1], src.top, src.bottom),
                         IF p[2] \in src.left .. src.right THEN p[2] ELSE Repeated(p[2], src.left, src.right) >>
       IN  Write(s, Differing(s, [p \in {q \in Positions : In(q, dst) /\ ~In(q, src)} |->
                     Copied(ContentAt(book, s, From(p)), p[1] - From(p)[1], p[2] - From(p)[2])]))

-----------------------------------------------------------------------------
(* Inserting and deleting rows and columns *)

(* What a formula refers to after edit e of sheet s. *)
Rewritten(content, s, e) ==
    IF content.kind # "ref" \/ content.sheet # s THEN content
    ELSE LET area == ShiftRange(content.area, e)
         IN  IF area = NoBox THEN Broken(Meaning(book, s, content.area)) ELSE [content EXCEPT !.area = area]

(* The identities of the lines after e: an insertion makes new ones, a      *)
(* deletion brings up blank ones from below the sheet.                      *)
LinesAfter(ids, e) ==
    [i \in DOMAIN ids |->
        IF i < e.at THEN ids[i]
        ELSE IF e.insert THEN IF i < e.at + e.n THEN fresh + i - e.at ELSE ids[i - e.n]
             ELSE IF i + e.n \in DOMAIN ids THEN ids[i + e.n] ELSE fresh + i]

(* The engine bounds both axes by the longer one: what an insertion of      *)
(* columns pushes past the last column stays, off the sheet, and comes back *)
(* with a deletion.  It is adrift: no row and column are its own any more.  *)
Adrift == <<0, 0>>
MergeAfter(m, e) ==
    [box |-> ShiftMerge(m.box, e), of |-> IF ShiftMerge(m.box, e) \in Boxes THEN m.of ELSE NoMeaning]

SheetAfter(sh, e) ==
    LET From(p) == CHOOSE q \in DOMAIN sh.cells : ShiftCell(q[1], q[2], e) = p
        kept == {p \in {ShiftCell(q[1], q[2], e) : q \in DOMAIN sh.cells} : Gone \notin {p[1], p[2]}}
    IN  [sh EXCEPT !.rows = IF e.axis = "row" THEN LinesAfter(@, e) ELSE @,
                   !.cols = IF e.axis = "col" THEN LinesAfter(@, e) ELSE @,
                   !.cells = [p \in kept |-> @[From(p)]],
                   !.home = [p \in kept |-> IF p \in Positions THEN @[From(p)] ELSE Adrift],
                   !.merges = {MergeAfter(k, e) : k \in {m \in @ : ShiftMerge(m.box, e) # NoBox}}]

(* The formulas that keep a structural edit away: unread ones, which cannot *)
(* be rewritten, and defined names kept as text.                            *)
Blocked(s) ==
    \/ \E k \in DOMAIN texts : k \notin Formulas(book) /\ (k[1] = s \/ texts[k].names = book[s].name)
    \/ \E n \in Names : names[n].kind = "text" /\ names[n].names = book[s].name

(* The formulas to print again: all of the sheet, and elsewhere those whose *)
(* text is no longer what is stored.                                        *)
Reprinted(b, s) ==
    {k \in Formulas(b) : k[1] = s \/ k \notin DOMAIN texts \/ texts[k] # PrintedAt(b, k)}

(* SheetSession::structural_edit *)
StructuralEdit(s, e) ==
    /\ s \in Sheets
    /\ ~Blocked(s)
    /\ LET moved == [book EXCEPT ![s] = SheetAfter(@, e)]
       IN  book' = [t \in Sheets |-> [moved[t] EXCEPT !.cells =
                        [p \in DOMAIN @ |-> Rewritten(@[p], s, e)]]]
    /\ texts' = Only(texts, {k \in DOMAIN texts : k[1] # s})
    /\ edited' = {k \in edited : k[1] # s} \cup Reprinted(book', s)
    /\ extraDirty' = extraDirty \cup {s}
    /\ fresh' = fresh + MaxRow + 1
    /\ fallen' = IF ~e.insert THEN fallen
                 ELSE LET ids == IF e.axis = "row" THEN book[s].rows ELSE book[s].cols
                      IN  fallen \cup {<<e.axis, book[s].sid, ids[i]>> : i \in DOMAIN ids \cap (Last(e.axis) + 1 - e.n .. Last(e.axis))}
    /\ UNCHANGED <<names, dirtyParts, file>>

-----------------------------------------------------------------------------
(* Sheets *)

(* rewrite_sheet_refs on a stored text *)
Renaming(text, old, new) == IF text.names = old THEN [text EXCEPT !.names = new] ELSE text

(* SheetSession::retext_formula, over every stored text that names old: a   *)
(* formula is printed again on save, an unread one is replaced now.         *)
Retexted(b, ts, old, new) ==
    [k \in DOMAIN ts |-> IF k \in Formulas(b) THEN ts[k] ELSE Renaming(ts[k], old, new)]
Touched(b, ts, old) == {k \in DOMAIN ts : ts[k].names = old /\ k \in Formulas(b)}
TouchedUnread(b, ts, old) == {k \in DOMAIN ts : ts[k].names = old /\ k \notin Formulas(b)}

RenamedName(target, old, new) == IF target.kind = "text" THEN Renaming(target, old, new) ELSE target

(* SheetSession::rename_sheet *)
RenameSheet(s, name) ==
    /\ s \in Sheets
    /\ \A t \in Sheets : book[t].name # name
    /\ book' = [book EXCEPT ![s].name = name]
    /\ names' = [n \in Names |-> RenamedName(names[n], book[s].name, name)]
    /\ texts' = Retexted(book, texts, book[s].name, name)
    /\ edited' = edited \cup Touched(book, texts, book[s].name)
    /\ extraDirty' = extraDirty \cup {k[1] : k \in TouchedUnread(book, texts, book[s].name)}
    /\ UNCHANGED <<dirtyParts, file, fresh, fallen>>

(* drop_sheet_refs: references into the sheet are lost, sheets after it     *)
(* move up.                                                                 *)
Dropped(content, gone) ==
    CASE content.kind = "ref" /\ content.sheet = gone -> Broken(content.of)
      [] content.kind = "ref" /\ content.sheet > gone -> [content EXCEPT !.sheet = @ - 1]
      [] OTHER -> content

(* A name that stands for a range only moves up with its sheet. *)
DroppedName(target, gone, name) ==
    IF target.kind = "ref" /\ target.sheet = gone THEN target
    ELSE RenamedName(Dropped(target, gone), name, "#REF")

Up(s, gone) == IF s > gone THEN s - 1 ELSE s

UpKeys(keys, gone) == {<<Up(k[1], gone), k[2]>> : k \in {j \in keys : j[1] # gone}}

Down(s, gone) == IF s >= gone THEN s + 1 ELSE s

(* SheetSession::delete_sheet, with XlsxDocument::remove_sheet_part *)
DeleteSheet(gone) ==
    /\ gone \in Sheets
    /\ Len(book) > 1
    /\ book' = [s \in 1 .. Len(book) - 1 |->
                   LET sh == book[Down(s, gone)]
                   IN  [sh EXCEPT !.cells = [p \in DOMAIN @ |-> Dropped(@[p], gone)]]]
    /\ names' = [n \in Names |-> DroppedName(names[n], gone, book[gone].name)]
    /\ LET shifted == [k \in UpKeys(DOMAIN texts, gone) |-> texts[<<Down(k[1], gone), k[2]>>]]
           lost == {k \in Formulas(book) : book[k[1]].cells[k[2]].kind = "ref"
                                           /\ book[k[1]].cells[k[2]].sheet = gone}
       IN  /\ texts' = Retexted(book', shifted, book[gone].name, "#REF")
           /\ edited' = UpKeys(edited, gone) \cup UpKeys(lost, gone)
                        \cup Touched(book', shifted, book[gone].name)
           /\ extraDirty' = {Up(s, gone) : s \in extraDirty \ {gone}}
                            \cup {k[1] : k \in TouchedUnread(book', shifted, book[gone].name)}
    /\ UNCHANGED <<dirtyParts, file, fresh, fallen>>

(* SheetSession::add_sheet *)
AddSheet(name) ==
    /\ \A t \in Sheets : book[t].name # name
    /\ book' = Append(book, [name |-> name, sid |-> fresh,
                             rows |-> [i \in Rows |-> fresh + i], cols |-> [i \in Cols |-> fresh + i],
                             cells |-> Only(texts, {}), home |-> Only(texts, {}), merges |-> {}])
    /\ file' = [sid \in DOMAIN file \cup {fresh} |-> IF sid = fresh THEN Only(texts, {}) ELSE file[sid]]
    /\ fresh' = fresh + MaxRow + 1
    /\ UNCHANGED <<names, texts, edited, extraDirty, dirtyParts, fallen>>

-----------------------------------------------------------------------------
(* Saving *)

(* save_xlsx: edited formulas are printed, and the texts of edited cells    *)
(* that hold none are dropped.                                              *)
TextsOnSave ==
    LET printed == edited \cap Formulas(book)
    IN  [k \in (DOMAIN texts \ edited) \cup printed |->
            IF k \in printed THEN PrintedAt(book, k) ELSE texts[k]]

(* Slip: only the sheets of edited cells are written again. *)
PartsEditedOnly == dirtyParts \cup {book[k[1]].sid : k \in edited}

PartsOnSave == dirtyParts \cup {book[s].sid : s \in extraDirty \cup {k[1] : k \in edited}}

(* A cell as the writer encodes it: its stored text, or else its value. *)
Encoded(s, p) ==
    IF <<s, p>> \in DOMAIN TextsOnSave THEN TextsOnSave[<<s, p>>]
    ELSE IF Parsed(book[s].cells[p]) THEN [value |-> -2] ELSE [value |-> book[s].cells[p].v]

PartOnSave(s) == IF book[s].sid \in PartsOnSave THEN [p \in DOMAIN book[s].cells |-> Encoded(s, p)]
                                               ELSE file[book[s].sid]

(* SheetSession::save_xlsx.  A part keeps its flag. *)
Save ==
    /\ texts' = TextsOnSave
    /\ dirtyParts' = PartsOnSave
    /\ file' = [sid \in {book[s].sid : s \in Sheets} |->
                   PartOnSave(CHOOSE s \in Sheets : book[s].sid = sid)]
    /\ edited' = {} /\ extraDirty' = {}
    /\ UNCHANGED <<book, names, fresh, fallen>>

-----------------------------------------------------------------------------
Sorting ==
    \E s \in Sheets, box \in SortRanges, ascending, header \in BOOLEAN, hint \in Keys :
        \E col \in box.left .. box.right :
            /\ Sort(s, box, col, ascending, header, hint)
            /\ sorted' = {[sheet |-> s, box |-> box, col |-> col,
                            ascending |-> ascending, rows |-> DataRows(box, header)]}

Editing ==
    \/ \E entry \in Entries : SetCell(entry[1], entry[2], entry[3])
    \/ \E s \in Sheets, fill \in Fills : Fill(s, fill[1], fill[2])
    \/ \E s \in Sheets, axis \in Axes : \E e \in EditsOn(axis) : StructuralEdit(s, e)
    \/ \E s \in Sheets, name \in SheetNames : RenameSheet(s, name)
    \/ \E s \in Sheets : DeleteSheet(s)
    \/ \E name \in SheetNames : AddSheet(name)
    \/ Save

Next ==
    /\ ops < MaxOps /\ ops' = ops + 1
    /\ Sorting \/ (Editing /\ sorted' = {})

Spec == Init /\ [][Next]_vars

-----------------------------------------------------------------------------
(* Properties *)

(* The lines of a span follow what was meant: those that were there then    *)
(* and still are, and between them only lines that came later.              *)
SpanFollows(lo, hi, ids, meant, born, band) ==
    LET covered == {ids[i] : i \in lo .. hi}
        alive == {ids[i] : i \in DOMAIN ids}
    IN  /\ {id \in covered : id < born} = meant \cap alive
        /\ band \/ {ids[lo], ids[hi]} \subseteq meant \/ ~(meant \subseteq alive)

AreaFollows(sh, area, of) ==
    /\ sh.sid = of.sid
    /\ SpanFollows(area.top, area.bottom, sh.rows, of.rows, of.born, Spans(area, "row"))
    /\ SpanFollows(area.left, area.right, sh.cols, of.cols, of.born, Spans(area, "col"))

(* Nothing is left of what was meant, or part of it fell off its sheet. *)
Lost(of) ==
    \A s \in Sheets : book[s].sid = of.sid =>
        \/ of.rows \cap {book[s].rows[i] : i \in Rows} = {}
        \/ of.cols \cap {book[s].cols[i] : i \in Cols} = {}
        \/ \E id \in of.rows : <<"row", of.sid, id>> \in fallen
        \/ \E id \in of.cols : <<"col", of.sid, id>> \in fallen

(***************************************************************************)
(* Through every sequence of edits a formula refers to what it meant: the  *)
(* lines it covered that still exist, on the sheet it named, and lines     *)
(* inserted between them; #REF! stands only where nothing is left of what  *)
(* it last covered, or where part of that was pushed off the sheet.        *)
(* (rewrite, drop_sheet_refs, apply_edit)                                  *)
(***************************************************************************)
RefsFollow ==
    \A k \in Formulas(book) :
        LET content == book[k[1]].cells[k[2]]
        IN  IF content.kind = "ref" THEN AreaFollows(book[content.sheet], content.area, content.of)
            ELSE Lost(content.of)

(***************************************************************************)
(* A cell stays in its row and column and a merge on its cells, unless it  *)
(* went adrift, no cell ever lands on another, and merges that did not     *)
(* overlap never come to.                                                  *)
(* (apply_edit_structural, shift_coord, shift_merge)                       *)
(***************************************************************************)
StayPut ==
    \A s \in Sheets :
        /\ \A p \in DOMAIN book[s].cells :
               book[s].home[p] = Adrift \/ book[s].home[p] = <<book[s].rows[p[1]], book[s].cols[p[2]]>>
        /\ \A m \in book[s].merges :
               /\ m.of = NoMeaning \/ AreaFollows(book[s], m.box, m.of)
               /\ \A k \in book[s].merges \ {m} : ~\E p \in Positions : In(p, m.box) /\ In(p, k.box)

(***************************************************************************)
(* One edit moves cells, merges and references together: none lags behind  *)
(* at the old place.  (apply_edit_structural)                              *)
(***************************************************************************)
EditsMoveTogether == RefsFollow /\ StayPut

(***************************************************************************)
(* What a save would write, now, is the workbook: every sheet with every   *)
(* value and every formula under the current names of its sheets, also     *)
(* those that were not edited, and formulas Paged cannot read.             *)
(* (save_xlsx, edited, extra_dirty, formula_texts and what each edit does  *)
(* to them)                                                                *)
(***************************************************************************)
SaveWritesWorkbook ==
    \A s \in Sheets :
        PartOnSave(s) = [p \in DOMAIN book[s].cells |-> Printed(book, s, book[s].cells[p])]

(* A row of the result is a row of the source, its values as they were and  *)
(* its formulas as copies.                                                  *)
CameFrom(s, to, from, cols) ==
    \A c \in cols :
        LET old == ContentAt(book, s, <<from, c>>)
            new == ContentAt(book', s, <<to, c>>)
        IN  CASE old.kind = "ref" ->
                    new.kind = (IF FillArea(old.area, to - from, 0) = NoBox THEN "broken" ELSE "ref")
              [] old.kind \in {"value", "verbatim"} -> new.kind \in {"value", "verbatim"} /\ new.v = old.v
              [] old.kind = "broken" -> new.kind = "broken"
              [] OTHER -> new = old

(***************************************************************************)
(* A sort moves rows whole: the rows of the result are the rows there      *)
(* were, each once, in the order of the key with blanks last and equal     *)
(* rows as they stood; a header and everything outside stay.  (sort_range) *)
(***************************************************************************)
SortedRow(sort, perm, i) ==
    /\ CameFrom(sort.sheet, i, perm[i], sort.box.left .. sort.box.right)
    /\ \A j \in sort.rows :
           LET a == ContentAt(book, sort.sheet, <<perm[i], sort.col>>)
               b == ContentAt(book, sort.sheet, <<perm[j], sort.col>>)
           IN  i < j /\ ~Parsed(a) /\ ~Parsed(b) =>
                  \/ b = Blank /\ (a = Blank => perm[i] < perm[j])
                  \/ a # Blank /\ b # Blank /\ a.v = b.v /\ perm[i] < perm[j]
                  \/ a # Blank /\ b # Blank /\ (IF sort.ascending THEN a.v < b.v ELSE a.v > b.v)

RowsTravelWhole ==
    [][ \A sort \in sorted' :
          /\ \E perm \in Bijection(sort.rows, sort.rows) : \A i \in sort.rows : SortedRow(sort, perm, i)
          /\ \A t \in Sheets, p \in Positions :
                t # sort.sheet \/ ~In(p, sort.box) \/ p[1] \notin sort.rows =>
                    ContentAt(book', t, p) = ContentAt(book, t, p) ]_vars

(***************************************************************************)
(* A defined name that stands for a range follows its cells as a formula   *)
(* does, or the edit that would move them is refused.                      *)
(* (structural_edit_blockers, delete_sheet)                                *)
(***************************************************************************)
NamesFollow ==
    \A n \in Names :
        CASE names[n].kind = "ref" -> /\ names[n].sheet \in Sheets
                                      /\ AreaFollows(book[names[n].sheet], names[n].area, names[n].of)
          [] names[n].kind = "broken" -> Lost(names[n].of)
          [] OTHER -> TRUE

=============================================================================
