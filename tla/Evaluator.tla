------------------------------ MODULE Evaluator ------------------------------
(***************************************************************************)
(* The evaluation of a formula over the cells of a workbook: sheet-calc's  *)
(* eval.rs with its lift (element-wise evaluation) and lambda (evaluation  *)
(* by substitution), the defined names of names.rs and the windows of      *)
(* argview.rs; and what a formula is registered to read (extract.rs of the *)
(* parser, refs_with_names, register of graph.rs).                         *)
(*                                                                         *)
(* A formula is a tree of nodes [k, x, args].  A world is what evaluation  *)
(* reads: the cells, which of them hold a formula, the area each spill or  *)
(* array formula covers, the cell the formula is in, and how many names    *)
(* evaluation is inside of.                                                *)
(***************************************************************************)
EXTENDS Registry

CONSTANTS
    Names,         \* name -> the node it stands for
    Tables,        \* table -> [area, header, totals, columns]
    Addresses,     \* text -> the area INDIRECT reads it as
    MaxRow, MaxCol,
    MaxNameDepth

ASSUME BoundsAreNatural == MaxRow \in Nat /\ MaxCol \in Nat /\ MaxNameDepth \in Nat

Node(k, x, args) == [k |-> k, x |-> x, args |-> args]

Lit(v)        == Node("lit", v, <<>>)
Local(n)      == Node("local", n, <<>>)
Func(f, args) == Node("func", f, args)
Binary(op, a, b) == Node("binary", op, <<a, b>>)

(* A cell <<sheet, row, column>> as written, fixed (`abs') or relative.    *)
Ref(at)       == Node("ref", [at |-> at, abs |-> TRUE], <<>>)
Span(from, to) == Node("range", [from |-> from, to |-> to, abs |-> TRUE], <<>>)

IsFunc(e, flag) == e.k = "func" /\ Is(e.x, flag)

-----------------------------------------------------------------------------
(* Areas.                                                                  *)

Area(sheet, top, left, bottom, right) ==
    [type |-> "area", sheet |-> sheet, top |-> top, left |-> left,
     bottom |-> bottom, right |-> right]

Cell(p) == Area(p[1], p[2], p[3], p[2], p[3])

Box(p, q) == Area(p[1], Min({p[2], q[2]}), Min({p[3], q[3]}),
                        Max({p[2], q[2]}), Max({p[3], q[3]}))

Start(a) == <<a.sheet, a.top, a.left>>

Height(a) == a.bottom - a.top + 1

Width(a) == a.right - a.left + 1

Single(a) == Height(a) = 1 /\ Width(a) = 1

Inside(p, a) ==
    p[1] = a.sheet /\ p[2] \in a.top..a.bottom /\ p[3] \in a.left..a.right

Read(w, p) == IF p \in DOMAIN w.cells THEN w.cells[p] ELSE Blank

SubtotalFamily == {"SUBTOTAL", "AGGREGATE"}

IsSubtotal(w, p) ==
    p \in DOMAIN w.formulas /\ w.formulas[p].k = "func" /\ w.formulas[p].x \in SubtotalFamily

(* What a function is shown of a cell: SUBTOTAL does not see subtotals.    *)
Seen(w, fn, p) ==
    IF fn \in SubtotalFamily /\ IsSubtotal(w, p) THEN Blank ELSE Read(w, p)

RowsOf(w, a, fn) ==
    [r \in 1..Height(a) |-> [c \in 1..Width(a) |->
        Seen(w, fn, <<a.sheet, a.top + r - 1, a.left + c - 1>>)]]

(* The window's live rows: between the sheet's first and last rows that    *)
(* hold anything.                                                          *)
Populated(w, sheet) ==
    {p[2] : p \in {q \in DOMAIN w.cells :
                    q[1] = sheet /\ (w.cells[q] # Blank \/ q \in DOMAIN w.formulas)}}

LiveRows(w, a) ==
    LET rows == Populated(w, a.sheet)
    IN  IF rows = {} THEN <<0, 0>>
        ELSE IF Max(rows) < a.top \/ Min(rows) > a.bottom THEN <<0, 0>>
        ELSE <<Max({Min(rows) - a.top, 0}), Min({Max(rows) - a.top + 1, Height(a)})>>

Materialized(w, a, fn) == Window(Start(a), RowsOf(w, a, fn), LiveRows(w, a))

Values(w, a) ==
    IF Single(a) THEN Read(w, Start(a)) ELSE Block(RowsOf(w, a, ""))

(* An area where one value is wanted.                                      *)
OneValue(w, a) ==
    IF a.type # "area" THEN a
    ELSE IF Single(a) THEN Read(w, Start(a)) ELSE Error("#VALUE!")

Collapse(r) ==
    IF ~IsBlock(r) THEN r
    ELSE IF Len(r.rows) = 1 /\ Len(r.rows[1]) = 1 THEN r.rows[1][1] ELSE Error("#VALUE!")

-----------------------------------------------------------------------------
(* What names, structured references and spill references stand for.       *)

(* A relative reference of a name is counted from the cell that reads the  *)
(* name, round the edges of the sheet.                                     *)
Shifted(p, at) == <<p[1], (p[2] + at[2]) % (MaxRow + 1), (p[3] + at[3]) % (MaxCol + 1)>>

RECURSIVE Rebase(_, _)
Rebase(e, at) ==
    CASE e.k = "ref" /\ ~e.x.abs   -> Node("ref", [e.x EXCEPT !.at = Shifted(@, at)], <<>>)
      [] e.k = "range" /\ ~e.x.abs -> Node("range", [e.x EXCEPT !.from = Shifted(@, at),
                                                                !.to = Shifted(@, at)], <<>>)
      [] OTHER -> [e EXCEPT !.args = [i \in DOMAIN e.args |-> Rebase(e.args[i], at)]]

(* A name of a plain range; a name of a formula.                           *)
NamesRange(e) ==
    e.k = "name" /\ e.x \in DOMAIN Names /\ Names[e.x].k \in {"range", "ref"} /\ Names[e.x].x.abs

NamesFormula(e) == e.k = "name" /\ e.x \in DOMAIN Names /\ ~NamesRange(e)

NameArea(e) ==
    IF Names[e.x].k = "ref" THEN Cell(Names[e.x].x.at) ELSE Box(Names[e.x].x.from, Names[e.x].x.to)

(* deref_name: through names of names.                                     *)
RECURSIVE DerefIn(_, _, _)
DerefIn(e, at, left) ==
    IF left > 0 /\ NamesFormula(e) THEN DerefIn(Rebase(Names[e.x], at), at, left - 1) ELSE e

Deref(w, e) == DerefIn(e, w.here, MaxNameDepth)

(* The table a reference without a table name is in: by row only.          *)
Own(here) == {t \in DOMAIN Tables : /\ Tables[t].area.sheet = here[1]
                                    /\ here[2] \in Tables[t].area.top..Tables[t].area.bottom}

TableOf(s, here) ==
    CASE s.table # "" -> IF s.table \in DOMAIN Tables THEN Tables[s.table] ELSE Error("#NAME?")
      [] s.table = "" /\ Own(here) # {} -> Tables[CHOOSE t \in Own(here) : TRUE]
      [] OTHER -> Error(IF s.part = "ThisRow" THEN "#VALUE!" ELSE "#REF!")

Bit(b) == IF b THEN 1 ELSE 0

(* The rows of a part of a table, none when the table lacks the part.      *)
PartRows(t, part, here) ==
    LET top == t.area.top + Bit(t.header)
        bottom == t.area.bottom - Bit(t.totals)
    IN  CASE part = "All"         -> <<t.area.top, t.area.bottom>>
          [] part = "Headers"     -> IF t.header THEN <<t.area.top, t.area.top>> ELSE <<>>
          [] part = "Totals"      -> IF t.totals THEN <<t.area.bottom, t.area.bottom>> ELSE <<>>
          [] part = "Data"        -> IF top <= bottom THEN <<top, bottom>> ELSE <<>>
          [] part = "HeadersData" -> IF t.header THEN <<t.area.top, bottom>> ELSE <<>>
          [] part = "DataTotals"  -> IF t.totals THEN <<top, t.area.bottom>> ELSE <<>>
          [] part = "ThisRow"     -> IF top <= bottom THEN <<here[2], here[2]>> ELSE <<>>

OutsideBody(t, here) ==
    \/ here[1] # t.area.sheet
    \/ here[2] \notin (t.area.top + Bit(t.header))..(t.area.bottom - Bit(t.totals))

ColumnAt(t, c) == t.area.left - 1 + CHOOSE i \in DOMAIN t.columns : t.columns[i] = c

(* resolve_structured_at: the area, or the error it is.                    *)
Structured(s, here) ==
    LET found == TableOf(s, here)
        rows == PartRows(found, s.part, here)
        asked == ToSet(s.columns)
    IN  CASE "area" \notin DOMAIN found -> found
          [] "area" \in DOMAIN found /\ rows = <<>> -> Error("#REF!")
          [] s.part = "ThisRow" /\ OutsideBody(found, here) -> Error("#VALUE!")
          [] ~(asked \subseteq ToSet(found.columns)) -> Error("#REF!")
          [] OTHER ->
               LET cols == IF asked = {} THEN {found.area.left, found.area.right}
                           ELSE {ColumnAt(found, c) : c \in asked}
               IN  Area(found.area.sheet, rows[1], Min(cols), rows[2], Max(cols))

(* `X#': the area X spills, the cell itself of any other formula.          *)
Spilled(w, e) ==
    LET anchor == e.args[1].x.at
    IN  CASE e.args[1].k # "ref" -> Error("#REF!")
          [] e.args[1].k = "ref" /\ anchor \in DOMAIN w.regions -> w.regions[anchor]
          [] OTHER -> IF anchor \in DOMAIN w.formulas THEN Cell(anchor) ELSE Error("#REF!")

-----------------------------------------------------------------------------
(* Which operands are arrays.  A tree of operators and functions of values *)
(* over one is evaluated element by element.                               *)

Liftable(fn) == \A flag \in {"range", "ref", "special", "array"} : ~Is(fn, flag)

(* The parameters of a range-aware function that take one value.           *)
ScalarParams(fn) ==
    CASE fn = "MATCH"   -> {1, 3}
      [] fn = "INDEX"   -> {2, 3, 4}
      [] fn = "VLOOKUP" -> {1, 3, 4}
      [] OTHER          -> {}

(* The arguments of a call that are taken element by element.              *)
Lifted(e) == IF Liftable(e.x) THEN DOMAIN e.args ELSE ScalarParams(e.x) \intersect DOMAIN e.args

ReferenceOps == {":", ",", " "}

RECURSIVE ArrayShaped(_, _)

ContainsArray(e, depth) ==
    CASE e.k = "unary" -> ArrayShaped(e.args[1], depth)
      [] e.k = "binary" -> e.x \notin ReferenceOps /\ \E i \in 1..2 : ArrayShaped(e.args[i], depth)
      [] e.k = "func" -> \E i \in Lifted(e) : ArrayShaped(e.args[i], depth)
      [] OTHER -> FALSE

(* array_operand or contains_array.                                        *)
ArrayShaped(e, depth) ==
    CASE e.k = "range" -> ~Single(Box(e.x.from, e.x.to))
      [] e.k \in {"array", "table", "spill"} -> TRUE
      [] e.k = "name" -> \/ NamesRange(e) /\ ~Single(NameArea(e))
                         \/ NamesFormula(e) /\ depth < MaxNameDepth
                                            /\ ArrayShaped(Names[e.x], depth + 1)
      [] OTHER -> ContainsArray(e, depth)

NeedsLift(e) == ContainsArray(e, 0)

(* map_n: an operand of one row or column repeats along it; past the edge  *)
(* of a larger one is #N/A.                                                *)
RowsIn(r) == IF IsBlock(r) THEN r.rows ELSE <<<<r>>>>

Along(n, i) == IF n = 1 THEN 1 ELSE i

ElementAt(g, i, j) ==
    LET r == Along(Len(g), i)
        c == Along(Len(g[1]), j)
    IN  IF r <= Len(g) /\ c <= Len(g[1]) THEN g[r][c] ELSE Error("#N/A")

(* The operands of each element, and the result the elements make.         *)
Elementwise(vals) ==
    LET gs == [k \in DOMAIN vals |-> RowsIn(vals[k])]
    IN  [i \in 1..Max({Len(gs[k]) : k \in DOMAIN gs}) |->
            [j \in 1..Max({Len(gs[k][1]) : k \in DOMAIN gs}) |->
                [k \in DOMAIN gs |-> ElementAt(gs[k], i, j)]]]

Mapped(vals, made) == IF \A k \in DOMAIN vals : ~IsBlock(vals[k]) THEN made[1][1] ELSE Block(made)

-----------------------------------------------------------------------------
(* Substitution.  A LET that binds the name again and a LAMBDA with it as  *)
(* a parameter stop it.                                                    *)

Parameters(e) == {e.args[i].x : i \in {j \in 1..(Len(e.args) - 1) : e.args[j].k = "local"}}

Rebound(e, name) ==
    {i \in 1..(Len(e.args) - 1) : i % 2 = 1 /\ e.args[i].k = "local" /\ e.args[i].x = name}

(* Without the scopes: an inner binding of the name does not hide it.      *)
ReachedHidden(e, name) ==
    CASE e.k = "func" /\ e.x = "LAMBDA" -> {Len(e.args)}
      [] e.k = "func" /\ e.x = "LET" -> {i \in DOMAIN e.args : i % 2 = 0 \/ i = Len(e.args)}
      [] OTHER -> DOMAIN e.args

(* The arguments of a LET or LAMBDA the name reaches.                      *)
Reached(e, name) ==
    CASE e.k = "func" /\ e.x = "LAMBDA" -> IF name \in Parameters(e) THEN {} ELSE {Len(e.args)}
      [] e.k = "func" /\ e.x = "LET" ->
            {i \in DOMAIN e.args : /\ i % 2 = 0 \/ i = Len(e.args)
                                   /\ \A b \in Rebound(e, name) : i <= b + 1}
      [] OTHER -> DOMAIN e.args

RECURSIVE Subst(_, _, _)
Subst(e, name, by) ==
    IF e.k = "local" THEN IF e.x = name THEN by ELSE e
    ELSE [e EXCEPT !.args = [i \in DOMAIN e.args |->
                IF i \in Reached(e, name) THEN Subst(e.args[i], name, by) ELSE e.args[i]]]

RefShaped(e) ==
    e.k \in {"ref", "range", "name", "table", "spill"}
    \/ (e.k = "func" /\ e.x \in {"OFFSET", "INDIRECT"})

ZeroForBlank(v) == IF v = Blank THEN Number(0) ELSE v

(* A computed value as an expression; a blank one is 0.                    *)
Literal(v) == Lit(ZeroForBlank(v))

AsExpr(r) ==
    CASE r.type = "area" -> IF Single(r) THEN Ref(Start(r))
                            ELSE Span(Start(r), <<r.sheet, r.bottom, r.right>>)
      [] r.type = "lambda" -> Func("LAMBDA", Append(r.params, r.body))
      [] IsBlock(r) -> IF Len(r.rows) = 1 /\ Len(r.rows[1]) = 1 THEN Literal(r.rows[1][1])
                       ELSE Node("array", Len(r.rows[1]),
                                 FlattenSeq([i \in DOMAIN r.rows |->
                                    [j \in DOMAIN r.rows[i] |-> Literal(r.rows[i][j])]]))
      [] OTHER -> Literal(r)

-----------------------------------------------------------------------------
(* Evaluation.  Do(w, way, e) evaluates e in the world w:                  *)
(*   "value"   to one value (eval)                                         *)
(*   "rich"    to a value or a block, as a root does (eval_expr_rich)      *)
(*   "array"   element by element (eval_array)                             *)
(*   "ref"     to the area it denotes, or the error it is (eval_as_ref)    *)
(*   "reduce"  to a lambda, a value or a block (reduce)                    *)

RECURSIVE Do(_, _, _)

(* Inside one more name, or what `past' says when there are too many.      *)
Within(w, way, e, past) ==
    IF w.depth >= MaxNameDepth THEN Error(past) ELSE Do([w EXCEPT !.depth = @ + 1], way, e)

Value(w, e) == Do(w, "value", e)

Denotes(w, e) == Do(w, "ref", e).type = "area"

Reads(w, e) == RefShaped(e) /\ Denotes(w, e)

(* ---- arguments ---- *)

Argument(w, r) ==
    IF IsBlock(r) THEN Window(w.here, r.rows, <<0, Len(r.rows)>>) ELSE Scalar(r)

(* Arguments that are taken as an area when they denote one.               *)
TakenAsArea(w, e) ==
    /\ \/ e.k \in {"range", "name", "spill", "table"}
       \/ e.k = "func" /\ e.x = "INDEX"
       \/ e.k = "binary" /\ e.x = ":"
       \/ IsFunc(e, "special") /\ ~IsFunc(e, "array")
    /\ Denotes(w, e)
    /\ e.k = "func" /\ e.x = "INDEX" => ~Single(Do(w, "ref", e))

(* An argument, written as it is or through names.                         *)
PlannedAs(w, fn, e) ==
    CASE NeedsLift(e) -> Argument(w, Do(w, "array", e))
      [] e.k = "ref" -> IF Is(fn, "ref") THEN Materialized(w, Cell(e.x.at), "")
                        ELSE Scalar(Seen(w, fn, e.x.at))
      [] e.k \in {"array", "call"} \/ IsFunc(e, "array") -> Argument(w, Do(w, "rich", e))
      [] OTHER -> IF TakenAsArea(w, e) THEN Materialized(w, Do(w, "ref", e), fn)
                  ELSE Scalar(Value(w, e))

ArgumentOf(w, fn, written) == PlannedAs(w, fn, Deref(w, written))

(* A call whose arguments are at hand.                                     *)
Planned(fn, plan) == Node("planned", fn, plan)

Plan(w, fn, args) == [i \in DOMAIN args |-> ArgumentOf(w, fn, args[i])]

(* ---- references ---- *)

(* The whole number an argument is, or its error.                          *)
AsInteger(w, e) == ToNumber(Value(w, e))

IndexTarget(w, args) ==
    LET base == Do(w, "ref", args[1])
        n == [i \in DOMAIN Tail(args) |-> AsInteger(w, Tail(args)[i])]
        r == IF Len(n) = 1 /\ Height(base) = 1 THEN 1 ELSE n[1].n
        c == CASE Len(n) = 2 -> n[2].n
               [] Len(n) = 1 /\ Height(base) = 1 -> n[1].n
               [] OTHER -> IF Width(base) = 1 THEN 1 ELSE 0
    IN  IF base.type # "area" THEN base
        ELSE IF \E i \in DOMAIN n : IsError(n[i]) THEN Error("#REF!")
        ELSE IF r \notin 0..Height(base) \/ c \notin 0..Width(base) THEN Error("#REF!")
        ELSE [base EXCEPT
                !.top = IF r > 0 THEN @ + r - 1 ELSE @,
                !.bottom = IF r > 0 THEN base.top + r - 1 ELSE @,
                !.left = IF c > 0 THEN @ + c - 1 ELSE @,
                !.right = IF c > 0 THEN base.left + c - 1 ELSE @]

OffsetTarget(w, args) ==
    LET base == Do(w, "ref", args[1])
        Sized(i, own) == IF i > Len(args) THEN Number(own)
                         ELSE IF args[i].k = "missing" THEN Number(own) ELSE AsInteger(w, args[i])
        n == <<AsInteger(w, args[2]), AsInteger(w, args[3]),
               Sized(4, Height(base)), Sized(5, Width(base))>>
        top == base.top + n[1].n
        left == base.left + n[2].n
    IN  CASE base.type # "area" -> Error("#REF!")
          [] base.type = "area" /\ IsError(FirstError(n)) -> FirstError(n)
          [] n[3].n <= 0 \/ n[4].n <= 0 -> Error("#REF!")
          [] \/ top < 0 \/ left < 0
             \/ top + n[3].n - 1 > MaxRow \/ left + n[4].n - 1 > MaxCol -> Error("#REF!")
          [] OTHER -> Area(base.sheet, top, left, top + n[3].n - 1, left + n[4].n - 1)

IndirectTarget(w, args) ==
    LET v == Value(w, args[1])
        a1 == IF Len(args) > 1 THEN Value(w, args[2]) ELSE Bool(TRUE)
    IN  CASE IsError(v) -> v
          [] IsError(a1) -> a1
          [] ToNumber(a1) = Number(0) -> Error("#REF!")
          [] ToText(v) \in DOMAIN Addresses -> Addresses[ToText(v)]
          [] OTHER -> Error("#REF!")

(* `a:b' between references: the box of both, on one sheet.                *)
Joined(w, a, b) ==
    LET p == Do(w, "ref", a)
        q == Do(w, "ref", b)
    IN  IF ~Denotes(w, a) \/ ~Denotes(w, b) THEN Error("#VALUE!")
        ELSE IF p.sheet # q.sheet THEN Error("#VALUE!")
        ELSE Area(p.sheet, Min({p.top, q.top}), Min({p.left, q.left}),
                           Max({p.bottom, q.bottom}), Max({p.right, q.right}))

NameRef(w, e) ==
    CASE NamesRange(e) -> NameArea(e)
      [] NamesFormula(e) /\ Deref(w, e).k # "name" -> Within(w, "ref", Deref(w, e), "#NAME?")
      [] OTHER -> Error("#NAME?")

AsRef(w, e) ==
    CASE e.k = "ref"   -> Cell(e.x.at)
      [] e.k = "range" -> Box(e.x.from, e.x.to)
      [] e.k = "table" -> Structured(e.x, w.here)
      [] e.k = "spill" -> Spilled(w, e)
      [] e.k = "name"  -> NameRef(w, e)
      [] e.k = "binary" /\ e.x = ":" -> Joined(w, e.args[1], e.args[2])
      [] e.k = "func" /\ e.x = "INDEX" /\ Len(e.args) > 1 -> IndexTarget(w, e.args)
      [] e.k = "func" /\ e.x = "OFFSET" -> OffsetTarget(w, e.args)
      [] e.k = "func" /\ e.x = "INDIRECT" -> IndirectTarget(w, e.args)
      [] OTHER -> Error("#VALUE!")

(* ---- lambdas ---- *)

(* The expression put in the place of a bound name: a reference stays one, *)
(* a lambda stays one, anything else is computed here and now.             *)
Bind(w, e) ==
    IF Reads(w, e) THEN AsExpr(Do(w, "ref", e)) ELSE AsExpr(Do(w, "reduce", e))

SubstAll(body, params, by) ==
    FoldLeft(LAMBDA e, i : Subst(e, params[i].x, by[i]), body, [i \in DOMAIN params |-> i])

Apply(w, lambda, by) ==
    IF Len(by) # Len(lambda.params) THEN Error("#VALUE!")
    ELSE Do(w, "reduce", SubstAll(lambda.body, lambda.params, by))

Grounded(r) == IF r.type = "lambda" THEN Error("#VALUE!") ELSE r

ApplyValue(w, lambda, by) == Grounded(Apply(w, lambda, by))

NotCalled(r) == IF IsError(r) THEN r ELSE Error("#VALUE!")

(* LAMBDA(p, ..., body); LET binds its first name in all that follows.     *)
Lambda(args) ==
    IF \E i \in 1..(Len(args) - 1) : args[i].k # "local" THEN Error("#VALUE!")
    ELSE [type |-> "lambda", params |-> SubSeq(args, 1, Len(args) - 1), body |-> Last(args)]

Let(w, args) ==
    IF Len(args) < 3 \/ Len(args) % 2 = 0 \/ args[1].k # "local" THEN Error("#VALUE!")
    ELSE LET rest == Subst(Func("LET", SubSeq(args, 3, Len(args))), args[1].x, Bind(w, args[2]))
         IN  Do(w, "reduce", IF Len(args) = 3 THEN rest.args[1] ELSE rest)

Call(w, e) ==
    LET callee == Do(w, "reduce", e.args[1])
    IN  IF callee.type # "lambda" THEN NotCalled(callee)
        ELSE Apply(w, callee, [i \in 1..(Len(e.args) - 1) |-> Bind(w, e.args[i + 1])])

(* The elements of an array argument: cells of an area, else values.       *)
Elements(w, e) ==
    IF Reads(w, e) THEN Do(w, "ref", e)
    ELSE LET r == Grounded(Do(w, "reduce", e))
         IN  IF IsBlock(r) \/ IsError(r) THEN r ELSE Block(<<<<r>>>>)

Tall(x) == IF x.type = "area" THEN Height(x) ELSE Len(x.rows)

Wide(x) == IF x.type = "area" THEN Width(x) ELSE Len(x.rows[1])

Part(x, i1, i2, j1, j2) ==
    IF x.type = "area"
    THEN AsExpr(Area(x.sheet, x.top + i1 - 1, x.left + j1 - 1, x.top + i2 - 1, x.left + j2 - 1))
    ELSE AsExpr(Block([i \in 1..(i2 - i1 + 1) |-> SubSeq(x.rows[i1 + i - 1], j1, j2)]))

Element(x, i, j) ==
    IF i > Tall(x) \/ j > Wide(x) THEN Literal(Error("#N/A")) ELSE Part(x, i, i, j, j)

Map(w, args) ==
    LET lambda == Do(w, "reduce", Last(args))
        arrays == [k \in DOMAIN Front(args) |-> Elements(w, args[k])]
        one(i, j) == Collapse(ApplyValue(w, lambda,
                        [k \in DOMAIN arrays |-> Element(arrays[k], i, j)]))
    IN  CASE lambda.type # "lambda" -> NotCalled(lambda)
          [] lambda.type = "lambda" /\ IsError(FirstError(arrays)) -> FirstError(arrays)
          [] OTHER -> Block([i \in 1..Max({Tall(arrays[k]) : k \in DOMAIN arrays}) |->
                        [j \in 1..Max({Wide(arrays[k]) : k \in DOMAIN arrays}) |-> one(i, j)]])

(* REDUCE and SCAN carry the last result; SCAN keeps each of them.         *)
Fold(w, lambda, x, initial) ==
    FoldLeft(LAMBDA st, n :
        LET by == <<st.acc, Element(x, 1 + (n - 1) \div Wide(x), 1 + ((n - 1) % Wide(x)))>>
        IN  CHOOSE next \in {[acc |-> AsExpr(r), seen |-> Append(st.seen, r)] :
                                r \in {ApplyValue(w, lambda, by)}} : TRUE,
        [acc |-> initial, seen |-> <<>>], [n \in 1..(Tall(x) * Wide(x)) |-> n])

ReduceScan(w, args, scan) ==
    LET lambda == Do(w, "reduce", args[3])
        x == Elements(w, args[2])
        seen == Fold(w, lambda, x, Bind(w, args[1])).seen
    IN  CASE lambda.type # "lambda" -> NotCalled(lambda)
          [] lambda.type = "lambda" /\ IsError(x) -> x
          [] OTHER -> IF ~scan THEN Last(seen)
                      ELSE Block([i \in 1..Tall(x) |-> [j \in 1..Wide(x) |->
                                    Collapse(seen[(i - 1) * Wide(x) + j])]])

ByLine(w, args, rows) ==
    LET lambda == Do(w, "reduce", args[2])
        x == Elements(w, args[1])
        one(e) == Collapse(ApplyValue(w, lambda, <<e>>))
    IN  CASE lambda.type # "lambda" -> NotCalled(lambda)
          [] lambda.type = "lambda" /\ IsError(x) -> x
          [] rows  -> Block([i \in 1..Tall(x) |-> <<one(Part(x, i, i, 1, Wide(x)))>>])
          [] OTHER -> Block(<<[j \in 1..Wide(x) |-> one(Part(x, 1, Tall(x), j, j))]>>)

MakeArray(w, args) ==
    LET n == <<AsInteger(w, args[1]), AsInteger(w, args[2])>>
        lambda == Do(w, "reduce", args[3])
    IN  CASE IsError(FirstError(n)) -> FirstError(n)
          [] n[1].n < 1 \/ n[2].n < 1 -> Error("#VALUE!")
          [] lambda.type # "lambda" -> NotCalled(lambda)
          [] OTHER -> Block([i \in 1..n[1].n |-> [j \in 1..n[2].n |->
                        Collapse(ApplyValue(w, lambda, <<Lit(Number(i)), Lit(Number(j))>>))]])

(* ---- calls ---- *)

(* Forms that read the workbook itself.                                    *)
Special(w, e) ==
    CASE ~Arity(e.x, e.args)          -> Error("#VALUE!")
      [] e.x = "LET"                  -> Grounded(Let(w, e.args))
      [] e.x = "LAMBDA"               -> Error("#VALUE!")
      [] e.x = "MAP"                  -> Map(w, e.args)
      [] e.x \in {"REDUCE", "SCAN"}   -> ReduceScan(w, e.args, e.x = "SCAN")
      [] e.x \in {"BYROW", "BYCOL"}   -> ByLine(w, e.args, e.x = "BYROW")
      [] e.x = "MAKEARRAY"            -> MakeArray(w, e.args)
      [] e.x \in {"OFFSET", "INDIRECT"} -> OneValue(w, Do(w, "ref", e))
      [] e.x = "ISREF"                -> Bool(Denotes(w, e.args[1]))
      [] e.x = "ISFORMULA"            ->
            IF Denotes(w, e.args[1])
            THEN Bool(Start(Do(w, "ref", e.args[1])) \in DOMAIN w.formulas)
            ELSE Error("#VALUE!")

RichCall(w, e) ==
    IF Is(e.x, "special") THEN Special(w, e)
    ELSE Do(w, "rich", Planned(e.x, Plan(w, e.x, e.args)))

ArrayLiteral(w, e) ==
    Block([i \in 1..(Len(e.args) \div e.x) |-> [j \in 1..e.x |->
        Value(w, e.args[(i - 1) * e.x + j])]])

Rich(w, e) ==
    CASE e.k = "func"  -> RichCall(w, e)
      [] e.k = "planned" -> Dispatch(e.x, e.args, w.here)
      [] e.k = "array" -> ArrayLiteral(w, e)
      [] e.k = "call"  -> Grounded(Call(w, e))
      [] e.k = "spill" -> Do(w, "array", e)
      [] OTHER         -> Value(w, e)

NameValue(w, e) ==
    CASE NamesRange(e)   -> Read(w, Start(NameArea(e)))
      [] NamesFormula(e) -> Within(w, "value", Rebase(Names[e.x], w.here), "#NAME?")
      [] OTHER           -> Error("#NAME?")

Eval(w, e) ==
    CASE e.k = "lit"     -> e.x
      [] e.k = "missing" -> Blank
      [] e.k = "ref"     -> Read(w, e.x.at)
      [] e.k \in {"range", "array"} -> Error("#VALUE!")
      [] e.k \in {"table", "spill"} -> OneValue(w, Do(w, "ref", e))
      [] e.k = "name"    -> NameValue(w, e)
      [] e.k = "unary"   -> UnaryValue(e.x, Value(w, e.args[1]))
      [] e.k = "binary"  -> BinaryValue(e.x, Value(w, e.args[1]), Value(w, e.args[2]))
      [] e.k = "local"   -> Error("#NAME?")
      [] e.k = "call"    -> Collapse(Grounded(Call(w, e)))
      [] e.k = "func"    -> IF IsFunc(e, "array") /\ ~IsFunc(e, "special") THEN Error("#VALUE!")
                            ELSE Collapse(Do(w, "rich", e))

(* ---- element by element ---- *)

(* What is taken element by element: all arguments of a function of        *)
(* values; of a function of ranges those that are values.                  *)
Operands(e) == IF e.k = "func" THEN SetToSortSeq(Lifted(e), <) ELSE <<1, 2>>

PlanAround(w, e) ==
    [i \in DOMAIN e.args \ Lifted(e) |-> ArgumentOf(w, e.x, e.args[i])]

OfElement(w, e, vs, plan) ==
    CASE e.k = "unary"  -> UnaryValue(e.x, vs[1])
      [] e.k = "binary" -> BinaryValue(e.x, vs[1], vs[2])
      [] e.k = "func"   ->
            Do(w, "rich", Planned(e.x, [i \in DOMAIN e.args |->
                IF i \in DOMAIN plan THEN plan[i]
                ELSE Scalar(vs[CHOOSE k \in DOMAIN vs : Operands(e)[k] = i])]))

OfElements(w, e, elements, plan) ==
    [r \in DOMAIN elements |-> [c \in DOMAIN elements[r] |-> OfElement(w, e, elements[r][c], plan)]]

LiftOver(w, e, vals, plan) == Mapped(vals, OfElements(w, e, Elementwise(vals), plan))

Lift(w, e) ==
    LiftOver(w, e, [k \in DOMAIN e.args \intersect DOMAIN Operands(e) |->
                        Do(w, "array", e.args[Operands(e)[k]])],
             IF e.k = "func" THEN PlanAround(w, e) ELSE <<>>)

EvalArray(w, e) ==
    CASE e.k \in {"range", "table", "spill"} \/ NamesRange(e) ->
            LET a == Do(w, "ref", e) IN IF a.type = "area" THEN Values(w, a) ELSE a
      [] e.k = "name" /\ NamesFormula(e) ->
            IF Deref(w, e).k = "name" THEN Value(w, e)
            ELSE Within(w, "array", Deref(w, e), "#NAME?")
      [] e.k = "array" -> ArrayLiteral(w, e)
      [] e.k = "unary" \/ (e.k = "binary" /\ e.x \notin ReferenceOps) -> Lift(w, e)
      [] IsFunc(e, "array") -> Do(w, "rich", e)
      [] e.k = "func" /\ ~Is(e.x, "array") /\ NeedsLift(e) -> Lift(w, e)
      [] OTHER -> Value(w, e)

Reduce(w, e) ==
    CASE e.k = "func" /\ e.x = "LAMBDA" -> Lambda(e.args)
      [] e.k = "func" /\ e.x = "LET"    -> Let(w, e.args)
      [] e.k = "call"                   -> Call(w, e)
      [] OTHER -> IF Reads(w, e) THEN Values(w, Do(w, "ref", e)) ELSE Do(w, "rich", e)

Do(w, way, e) ==
    CASE way = "value"  -> Eval(w, e)
      [] way = "rich"   -> Rich(w, e)
      [] way = "array"  -> EvalArray(w, e)
      [] way = "ref"    -> AsRef(w, e)
      [] way = "reduce" -> Reduce(w, e)

(* expr_spills: the roots that may fill more cells than their own.         *)
Spills(e) == e.k \in {"array", "call", "spill"} \/ IsFunc(e, "array")

(* What a formula cell stores, a blank as 0: of an array formula the value *)
(* of each element, of a spilling root all of its block, else one value.   *)
AllShown(r) ==
    IF IsBlock(r) THEN Block([i \in DOMAIN r.rows |-> [j \in DOMAIN r.rows[i] |-> ZeroForBlank(r.rows[i][j])]])
    ELSE ZeroForBlank(r)

Shown(w, formula) ==
    AllShown(Do(w, IF formula.array THEN "array" ELSE IF Spills(formula.expr) THEN "rich" ELSE "value",
                formula.expr))

-----------------------------------------------------------------------------
(* What a formula is registered to read.                                   *)

GeometryOnly == {"ROW", "ROWS", "COLUMN", "COLUMNS"}

(* extract_refs: every node of a formula, without the direct references   *)
(* of which only the geometry is asked.                                    *)
Skipped(e, arg) == e.k = "func" /\ e.x \in GeometryOnly /\ arg.k \in {"ref", "range"}

RECURSIVE NodesOf(_)
NodesOf(e) ==
    <<e>> \o FlattenSeq([i \in DOMAIN e.args |->
                IF Skipped(e, e.args[i]) THEN <<>> ELSE NodesOf(e.args[i])])

NamesOf(nodes) == {n.x : n \in ToSet(SelectSeq(nodes, NamesFormula))}

(* refs_with_names: also those of the formulas the names stand for, seen   *)
(* from the cell that reads them.                                          *)
NodesOfName(name, at) == NodesOf(Rebase(Names[name], at))

(* Only the names a formula holds itself.                                  *)
NamesHeld(names, at) == names

RECURSIVE Closure(_, _)
Closure(names, at) ==
    LET more == names \union UNION {NamesOf(NodesOfName(n, at)) : n \in names}
    IN  IF more = names THEN names ELSE Closure(more, at)

AllNodes(e, at) ==
    LET names == SetToSeq(Closure(NamesOf(NodesOf(e)), at))
    IN  NodesOf(e) \o FlattenSeq([i \in DOMAIN names |-> NodesOfName(names[i], at)])

(* A structured reference that does not resolve is the whole of its table. *)
TableAreas(s, at) ==
    LET area == Structured(s, at)
        table == TableOf(s, at)
    IN  IF area.type = "area" THEN {area}
        ELSE IF "area" \in DOMAIN table THEN {table.area} ELSE {}

AreasOf(n, at) ==
    CASE n.k = "ref"     -> {Cell(n.x.at)}
      [] n.k = "range"   -> {Box(n.x.from, n.x.to)}
      [] n.k = "table"   -> TableAreas(n.x, at)
      [] NamesRange(n)   -> {NameArea(n)}
      [] OTHER           -> {}

(* register: the areas a change of which makes the formula dirty.          *)
Precedents(e, at) ==
    LET nodes == AllNodes(e, at) IN UNION {AreasOf(nodes[i], at) : i \in DOMAIN nodes}

Volatile(e, at) ==
    LET nodes == AllNodes(e, at) IN \E i \in DOMAIN nodes : IsFunc(nodes[i], "volatile")
=============================================================================
