----------------------------- MODULE MCEvaluator -----------------------------
(***************************************************************************)
(* A sheet of four cells that change, a subtotal over them (A3), an array  *)
(* that spills (D1:D2) and the formulas of E1, each held with the value it *)
(* was last given.  An edit evaluates the formulas that its cells dirty.   *)
(*                                                                         *)
(* The formulas come in pairs that are two ways to write one computation,  *)
(* so that what one part of the evaluator makes of it is checked against   *)
(* another part.                                                           *)
(***************************************************************************)
EXTENDS Evaluator

CONSTANT Sheets     \* name -> the values of the cells that change, and the laws

VARIABLES
    sheet,      \* which sheet it is
    cells,      \* what each cell holds
    graph,      \* formula -> what it is registered to read
    held        \* the value each formula of E1 is stored with

vars == <<sheet, cells, graph, held>>

At(r, c) == <<"S", r, c>>
A1 == At(0, 0)
B1 == At(0, 1)
D1 == At(0, 3)
E1 == At(0, 4)
A2 == At(1, 0)
B2 == At(1, 1)
A3 == At(2, 0)

CellA1 == Ref(A1)
CellA2 == Ref(A2)
CellB1 == Ref(B1)
CellB2 == Ref(B2)
ColA == Span(A1, A2)
ColB == Span(B1, B2)
ColA3 == Span(A1, A3)
Row1 == Span(A1, B1)
Row2 == Span(A2, B2)
Square == Span(A1, B2)

N(n) == Lit(Number(n))
x == Local("x")
y == Local("y")
Fun(params, body) == Func("LAMBDA", Append(params, body))
Called(f, args) == Node("call", "", <<f>> \o args)
Neg(e) == Node("unary", "-", <<e>>)
Pos(e) == Node("unary", "+", <<e>>)
Percent(e) == Node("unary", "%", <<e>>)
Column(vs) == Node("array", 1, [i \in DOMAIN vs |-> N(vs[i])])
OfTable(part, columns) == Node("table", [table |-> "T", part |-> part, columns |-> columns], <<>>)
AtRow(column) == Node("table", [table |-> "", part |-> "ThisRow", columns |-> <<column>>], <<>>)
Name(n) == Node("name", n, <<>>)
SpillOf(at) == Node("spill", "", <<Ref(at)>>)
Sum(e) == Func("SUM", <<e>>)
VStacked(a, b) == Func("VSTACK", <<a, b>>)
HStacked(a, b) == Func("HSTACK", <<a, b>>)

(* Defined names: a range, one relative to the cell that reads it, a       *)
(* formula, a name of a name.                                              *)
MCNames ==
       "area" :> ColA
    @@ "left" :> Node("range", [from |-> At(0, 1), to |-> At(1, 1), abs |-> FALSE], <<>>)
    @@ "total" :> Func("SUM", <<Name("left")>>)
    @@ "again" :> Name("total")
    @@ "pair" :> Column(<<1, 2>>)
    @@ "loop" :> Binary("+", Name("loop"), N(1))

MCTables == "T" :> [area |-> Box(A1, B2), header |-> FALSE, totals |-> FALSE, columns |-> <<"a", "b">>]

MCAddresses == "A1:A2" :> Box(A1, A2)

MCDateParts == <<>>

MCNumberIn == "7" :> 7
MCLower == "D" :> "d" @@ "X" :> "x"
MCCollation == <<"", "7", "A1:A2", "D", "X", "d", "x">>

-----------------------------------------------------------------------------
(* A formula of E1, as an array formula or not.                            *)
Plain(e) == [array |-> FALSE, expr |-> e]
Arrayed(e) == [array |-> TRUE, expr |-> e]

Pair(a, b) == <<a, b>>

Bindings == <<
    \* LET and LAMBDA put expressions in the place of names
    Pair(Plain(Func("LET", <<x, CellA1, y, Binary("+", x, CellA2), Binary("&", x, y)>>)),
         Plain(Binary("&", CellA1, Binary("+", CellA1, CellA2)))),
    Pair(Plain(Func("LET", <<x, CellA1, Binary("+", Func("LET", <<x, CellB1, x>>), x)>>)),
         Plain(Binary("+", CellB1, CellA1))),
    Pair(Plain(Func("LET", <<x, CellA1, y, x, x, CellB1, Binary("-", x, y)>>)),
         Plain(Binary("-", CellB1, CellA1))),
    Pair(Plain(Called(Called(Fun(<<x>>, Fun(<<y>>, Binary("-", x, y))), <<CellA1>>), <<CellB1>>)),
         Plain(Called(Fun(<<x, y>>, Binary("-", x, y)), <<CellA1, CellB1>>))),
    Pair(Plain(Func("LET", <<y, Fun(<<x>>, Binary("*", x, N(2))),
                            Binary("+", Called(y, <<CellA1>>), Called(y, <<CellB2>>))>>)),
         Plain(Binary("+", Binary("*", CellA1, N(2)), Binary("*", CellB2, N(2))))),
    Pair(Plain(Called(Fun(<<x>>, Called(Fun(<<x>>, Sum(x)), <<ColA>>)), <<CellB1>>)),
         Plain(Sum(ColA))),
    \* folds and maps
    Pair(Plain(Func("REDUCE", <<N(0), ColA, Fun(<<x, y>>, Binary("+", x, y))>>)),
         Plain(Binary("+", Binary("+", N(0), CellA1), CellA2))),
    Pair(Plain(Func("SCAN", <<N(0), ColA, Fun(<<x, y>>, Binary("+", x, y))>>)),
         Plain(VStacked(Binary("+", N(0), CellA1), Binary("+", Binary("+", N(0), CellA1), CellA2)))),
    Pair(Plain(Func("BYROW", <<Square, Fun(<<x>>, Sum(x))>>)), Plain(VStacked(Sum(Row1), Sum(Row2)))),
    Pair(Plain(Func("BYCOL", <<Square, Fun(<<x>>, Sum(x))>>)), Plain(HStacked(Sum(ColA), Sum(ColB)))),
    Pair(Plain(Func("MAKEARRAY", <<N(2), N(2), Fun(<<x, y>>,
                    Binary("-", Binary("+", Binary("*", x, N(2)), y), N(2)))>>)),
         Plain(Func("SEQUENCE", <<N(2), N(2)>>))),
    Pair(Plain(Func("MAP", <<ColA, Fun(<<x>>, Binary("*", x, N(2)))>>)), Arrayed(Binary("*", ColA, N(2)))),
    Pair(Plain(Func("MAP", <<ColA, Column(<<10, 20>>), Fun(<<x, y>>, Binary("+", x, y))>>)),
         Arrayed(Binary("+", ColA, Column(<<10, 20>>)))) >>

References == <<
    \* a reference computed and the same one written
    Pair(Plain(Func("INDEX", <<ColA, N(2)>>)), Plain(CellA2)),
    Pair(Plain(Sum(Func("INDEX", <<Square, N(0), N(2)>>))), Plain(Sum(ColB))),
    Pair(Plain(Sum(Binary(":", CellA1, Func("INDEX", <<ColA, N(2)>>)))), Plain(Sum(ColA))),
    Pair(Plain(Sum(Func("OFFSET", <<CellA1, N(0), N(1), N(2)>>))), Plain(Sum(ColB))),
    Pair(Plain(Sum(Func("INDIRECT", <<Lit(Text("A1:A2"))>>))), Plain(Sum(ColA))),
    Pair(Plain(Sum(Func("INDIRECT", <<CellA1>>))),
         Plain(Func("IF", <<Binary("=", CellA1, Lit(Text("A1:A2"))), Sum(ColA), Lit(Error("#REF!"))>>))),
    Pair(Plain(Func("MAX", <<Name("area")>>)), Plain(Func("MAX", <<Name("left")>>))),
    Pair(Plain(Binary("*", Name("again"), N(2))), Plain(Binary("*", Sum(ColA), N(2)))),
    Pair(Arrayed(Binary("*", Name("pair"), CellB2)), Arrayed(Binary("*", Column(<<1, 2>>), CellB2))),
    Pair(Plain(Name("loop")), Plain(Lit(Error("#NAME?")))),
    Pair(Plain(Sum(SpillOf(D1))), Plain(Sum(Row1))),
    Pair(Plain(SpillOf(D1)), Plain(Func("TRANSPOSE", <<Row1>>))),
    Pair(Plain(Sum(OfTable("Data", <<"a">>))), Plain(Sum(ColA))),
    Pair(Plain(Sum(OfTable("All", <<>>))), Plain(Sum(Square))),
    Pair(Plain(AtRow("b")), Plain(CellB1)),
    Pair(Plain(OfTable("Totals", <<>>)), Plain(Lit(Error("#REF!")))),
    Pair(Plain(Binary("+", Func("ROWS", <<ColA>>), Func("ROW", <<CellA2>>))), Plain(N(4))),
    Pair(Plain(Binary("+", Func("COLUMN", <<>>), Func("COLUMNS", <<Row1>>))), Plain(N(7))),
    Pair(Plain(HStacked(Func("ISFORMULA", <<Ref(A3)>>), Func("ISREF", <<Func("OFFSET", <<CellA1, N(5), N(0)>>)>>))),
         Plain(HStacked(Lit(Bool(TRUE)), Lit(Bool(FALSE))))) >>

Arrays == <<
    \* element by element, and each element on its own
    Pair(Plain(Sum(Binary("*", ColA, N(2)))), Plain(Binary("+", Binary("*", CellA1, N(2)), Binary("*", CellA2, N(2))))),
    Pair(Arrayed(Binary("+", ColA, Row1)),
         Plain(VStacked(HStacked(Binary("+", CellA1, CellA1), Binary("+", CellA1, CellB1)),
                        HStacked(Binary("+", CellA2, CellA1), Binary("+", CellA2, CellB1))))),
    Pair(Arrayed(Func("IF", <<Binary("=", ColA, N(1)), ColB, N(0)>>)),
         Plain(VStacked(Func("IF", <<Binary("=", CellA1, N(1)), CellB1, N(0)>>),
                        Func("IF", <<Binary("=", CellA2, N(1)), CellB2, N(0)>>)))),
    Pair(Arrayed(Func("MATCH", <<ColA, Column(<<0, 1, 2>>), N(0)>>)),
         Plain(VStacked(Func("MATCH", <<CellA1, Column(<<0, 1, 2>>), N(0)>>),
                        Func("MATCH", <<CellA2, Column(<<0, 1, 2>>), N(0)>>)))),
    Pair(Plain(Sum(Func("INDEX", <<Square, Column(<<1, 2>>), N(2)>>))),
         Plain(Sum(VStacked(Func("INDEX", <<Square, N(1), N(2)>>), Func("INDEX", <<Square, N(2), N(2)>>))))),
    \* what undoes what
    Pair(Plain(Func("TRANSPOSE", <<Func("TRANSPOSE", <<Square>>)>>)), Plain(Func("VSTACK", <<Square>>))),
    Pair(Plain(VStacked(Func("TAKE", <<Square, N(1)>>), Func("DROP", <<Square, N(1)>>))), Plain(Func("VSTACK", <<Square>>))),
    Pair(Plain(HStacked(Func("DROP", <<Square, N(0), N(-1)>>), Func("TAKE", <<Square, N(2), N(-1)>>))), Plain(Func("VSTACK", <<Square>>))),
    Pair(Plain(HStacked(Func("CHOOSECOLS", <<Square, N(1)>>), Func("CHOOSECOLS", <<Square, N(-1)>>))), Plain(Func("VSTACK", <<Square>>))),
    Pair(Plain(Func("CHOOSEROWS", <<Square, N(2), N(1)>>)), Plain(VStacked(Row2, Row1))),
    Pair(Plain(Func("TOROW", <<Square>>)), Plain(HStacked(Row1, Row2))),
    Pair(Plain(Func("TOCOL", <<Square, N(0), Lit(Bool(TRUE))>>)), Plain(VStacked(ColA, ColB))),
    Pair(Plain(Func("SORT", <<Func("SORT", <<ColA3, N(1), N(-1)>>)>>)), Plain(Func("SORT", <<ColA3>>))),
    Pair(Plain(Func("UNIQUE", <<VStacked(ColA, ColA)>>)), Plain(Func("UNIQUE", <<ColA>>))),
    Pair(Plain(Func("FILTER", <<VStacked(ColA, ColB), Column(<<1, 1, 0, 0>>)>>)),
         Plain(Func("FILTER", <<ColA, Column(<<1, 1>>)>>))) >>

Functions2 == <<
    Pair(Plain(Func("SUBTOTAL", <<N(9), ColA3>>)), Plain(Func("SUBTOTAL", <<N(109), ColA>>))),
    Pair(Plain(Func("AGGREGATE", <<N(9), N(4), ColA3>>)), Plain(Sum(ColA))),
    Pair(Plain(VStacked(HStacked(Func("SUBTOTAL", <<N(4), ColA>>), Func("SUBTOTAL", <<N(5), ColA>>)),
                        HStacked(Func("SUBTOTAL", <<N(6), ColA>>), Func("SUBTOTAL", <<N(1), ColA>>)))),
         Plain(VStacked(HStacked(Func("MAX", <<ColA>>), Func("MIN", <<ColA>>)),
                        HStacked(Func("PRODUCT", <<ColA>>), Func("AVERAGE", <<ColA>>))))),
    Pair(Plain(Func("AVERAGE", <<Square>>)), Plain(Binary("/", Sum(Square), Func("COUNT", <<Square>>)))),
    Pair(Plain(Func("COUNTA", <<ColA>>)), Plain(Func("AGGREGATE", <<N(3), N(6), ColA>>))),
    Pair(Plain(Func("AND", <<CellB1, CellB2>>)),
         Plain(Func("NOT", <<Func("OR", <<Func("NOT", <<CellB1>>), Func("NOT", <<CellB2>>)>>)>>))),
    Pair(Plain(Func("IFERROR", <<Func("VLOOKUP", <<CellA1, Square, N(2), Lit(Bool(FALSE))>>), N(0)>>)),
         Plain(Func("IFERROR", <<Func("INDEX", <<ColB, Func("MATCH", <<CellA1, ColA, N(0)>>)>>), N(0)>>))),
    Pair(Plain(Func("CHOOSE", <<N(2), CellA1, CellA2>>)), Plain(CellA2)),
    Pair(Plain(Func("IF", <<Func("ISNUMBER", <<CellA1>>), CellA1, N(0)>>)), Plain(Func("IFERROR", <<Sum(Span(A1, A1)), N(0)>>))),
    Pair(Plain(Neg(Neg(CellA1))), Plain(Percent(Binary("*", CellA1, N(100))))),
    Pair(Plain(Binary("+", Binary("<", CellA1, CellA2), Binary(">=", CellA1, CellA2))),
         Plain(Func("IF", <<Binary("=", CellA1, CellA2), N(1), N(1)>>))) >>

MCSheets ==
    "mixed" :>
       [steps |->    A1 :> <<Number(1), Number(2), Text("x"), Blank, Text("A1:A2"), Text("7"), Error("#N/A")>>
                  @@ A2 :> <<Blank, Number(0), Text("X"), Number(2)>>
                  @@ B1 :> <<Number(1), Blank>>
                  @@ B2 :> <<Bool(TRUE), Number(2)>>,
        laws |-> Bindings \o References \o Arrays \o Functions2]

Steps == Sheets[sheet].steps
FormulaOf(f) == Sheets[sheet].laws[f[1]][f[2]]
Formulas == (DOMAIN Sheets[sheet].laws) \X {1, 2}

(* The first sheet holds two formulas besides those of E1.                 *)
Others == IF sheet = "mixed"
          THEN A3 :> Func("SUBTOTAL", <<N(9), ColA>>) @@ D1 :> Func("TRANSPOSE", <<Row1>>)
          ELSE <<>>
RegionOf == A3 :> Cell(A3) @@ D1 :> Box(D1, At(1, 3))
Spilling == {A3, D1, At(1, 3)}

World(at, ins) ==
    [cells |-> ins, formulas |-> Others, regions |-> [f \in DOMAIN Others \ {A3} |-> RegionOf[f]],
     here |-> at, depth |-> 0]

ValueAt(at, formula, ins) == Shown(World(at, ins), formula)

(* The inputs and what the other formulas make of them.                    *)
Laid(made, ins) ==
    [p \in {q \in Spilling : \E f \in DOMAIN made : Inside(q, RegionOf[f])} |->
        LET f == CHOOSE f \in DOMAIN made : Inside(p, RegionOf[f])
        IN  made[f][1 + p[2] - f[2]][1 + p[3] - f[3]]] @@ ins

Shows(ins) == Laid([f \in DOMAIN Others |-> RowsIn(ValueAt(f, Plain(Others[f]), ins))], ins)

Registered(e, at) == [volatile |-> Volatile(e, at), areas |-> Precedents(e, at)]

(* The cells an edit of one dirties, and the formulas that read them.      *)
Dirtied(p) ==
    {p} \union {q \in Spilling :
        \E f \in DOMAIN Others : /\ Inside(q, RegionOf[f])
                                 /\ \E a \in graph[f].areas : Inside(p, a)}

Dirty(f, p) == graph[f].volatile \/ \E a \in graph[f].areas, q \in Dirtied(p) : Inside(q, a)

Init ==
    /\ sheet \in DOMAIN Sheets
    /\ graph = [f \in Formulas \union DOMAIN Others |->
                    IF f \in DOMAIN Others THEN Registered(Others[f], f)
                    ELSE Registered(FormulaOf(f).expr, E1)]
    /\ cells = Shows([p \in DOMAIN Steps |-> Steps[p][1]])
    /\ held = [f \in Formulas |-> ValueAt(E1, FormulaOf(f), cells)]

(* A cell moves on to the next of its values.                              *)
Edit(p) ==
    /\ cells' = Shows([q \in DOMAIN Steps |->
                    IF q # p THEN cells[q]
                    ELSE LET i == CHOOSE k \in DOMAIN Steps[p] : Steps[p][k] = cells[p]
                         IN  Steps[p][1 + (i % Len(Steps[p]))]])
    /\ held' = [f \in Formulas |->
                    IF Dirty(f, p) THEN ValueAt(E1, FormulaOf(f), cells') ELSE held[f]]
    /\ UNCHANGED <<sheet, graph>>

Next == \E p \in DOMAIN Steps : Edit(p)

Spec == Init /\ [][Next]_vars

-----------------------------------------------------------------------------
(***************************************************************************)
(* After every edit each formula holds the value that evaluating it now    *)
(* would give: evaluation reads no cell outside the areas the formula is   *)
(* registered to read, through names, tables, spills, lambdas and computed *)
(* references alike. (extract_refs, refs_with_names, register)             *)
(***************************************************************************)
ReadsRegistered == \A f \in DOMAIN held : held[f] = ValueAt(E1, FormulaOf(f), cells)

(***************************************************************************)
(* Two ways to write one computation give one value, or the same error:    *)
(* binding a name or applying a lambda is writing its expression out, a    *)
(* computed reference is the reference written, an array is evaluated as   *)
(* each of its elements. (eval, eval_array, substitute, map_n, dispatch)   *)
(***************************************************************************)
SameValue == \A f \in DOMAIN held : RowsIn(held[<<f[1], 1>>]) = RowsIn(held[<<f[1], 2>>])
=============================================================================
