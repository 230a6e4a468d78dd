------------------------------- MODULE Kernels -------------------------------
(***************************************************************************)
(* Functions of a formula as sheet-fn computes them: each takes its        *)
(* arguments already evaluated (a value, or a window onto a range or a     *)
(* block) and yields a value or a block.  The four statistics of SUBTOTAL  *)
(* (deviations and variances) and the wildcards of MATCH are left out.     *)
(***************************************************************************)
EXTENDS CellValues, FiniteSetsExt

Block(rows) == [type |-> "block", rows |-> rows]

IsBlock(r) == r.type = "block"

(* An argument.  A window has the address of its first cell, its rows and  *)
(* the rows of it that may hold a value (the others are blank).            *)
Scalar(v) == [is |-> "scalar", v |-> v]

Window(at, rows, live) == [is |-> "range", at |-> at, rows |-> rows, live |-> live]

First(a) == IF a.is = "scalar" THEN a.v ELSE a.rows[1][1]

Grid(a) == IF a.is = "scalar" THEN <<<<a.v>>>> ELSE a.rows

Firsts(args) == [i \in DOMAIN args |-> First(args[i])]

ScalarError(args) ==
    FirstError(Firsts(SelectSeq(args, LAMBDA a : a.is = "scalar")))

(* The i-th argument as a number; an argument not given is the default.    *)
Given(args, i, default) ==
    IF i \in DOMAIN args THEN ToNumber(First(args[i])) ELSE Number(default)

Flag(args, i, default) ==
    IF i \in DOMAIN args THEN ToBool(First(args[i])) ELSE Bool(default)

(* What `of' makes of the values, or the first of them that is an error.   *)
Unless(vs, Of(_)) ==
    LET bad == FirstError(vs) IN IF IsError(bad) THEN bad ELSE Of(vs)

-----------------------------------------------------------------------------
(* Aggregation.  A value given as such is converted, a cell of a window    *)
(* counts only when it holds a number; an error in either is the result.   *)

Numeric(v) == v.type \in {"number", "error"}

Contributions(args) ==
    FlattenSeq([i \in DOMAIN args |->
        IF args[i].is = "scalar" THEN <<ToNumber(args[i].v)>>
        ELSE SelectSeq(FlattenSeq(args[i].rows), Numeric)])

Total(vs) == FoldLeft(LAMBDA n, v : n + v.n, 0, vs)

Mean(vs) ==
    IF vs = <<>> THEN Error("#DIV/0!") ELSE Number(Cut(Total(vs), Len(vs)))

Product(vs) ==
    Number(IF vs = <<>> THEN 0 ELSE FoldLeft(LAMBDA n, v : n * v.n, 1, vs))

Ns(vs) == {v.n : v \in ToSet(vs)}

Largest(vs) == Number(IF vs = <<>> THEN 0 ELSE Max(Ns(vs)))

Smallest(vs) == Number(IF vs = <<>> THEN 0 ELSE Min(Ns(vs)))

Count(args) ==
    Number(Len(SelectSeq(Contributions(args), LAMBDA v : ~IsError(v))))

CountA(args) ==
    Number(Len(SelectSeq(FlattenSeq([i \in DOMAIN args |->
        IF args[i].is = "scalar" THEN <<Bool(TRUE)>> ELSE FlattenSeq(args[i].rows)]),
        LAMBDA v : v # Blank)))

(* AND and OR skip text, in a window blanks too; nothing left is #VALUE!.  *)
Logicals(args) ==
    FlattenSeq([i \in DOMAIN args |->
        IF args[i].is = "range"
        THEN SelectSeq(FlattenSeq(args[i].rows), LAMBDA v : v.type \notin {"text", "blank"})
        ELSE IF args[i].v.type = "text" /\ IsError(ToBool(args[i].v)) THEN <<>>
        ELSE <<args[i].v>>])

Both(vs) ==
    IF vs = <<>> THEN Error("#VALUE!")
    ELSE Bool(\A i \in DOMAIN vs : ToBool(vs[i]).b)

Either(vs) ==
    IF vs = <<>> THEN Error("#VALUE!")
    ELSE Bool(\E i \in DOMAIN vs : ToBool(vs[i]).b)

(* SUBTOTAL and AGGREGATE: the cells are scanned once for every inner      *)
(* function; a text given as a value is dropped, an error is not.          *)
Scanned(args) ==
    FlattenSeq([i \in DOMAIN args |->
        IF args[i].is = "range" THEN SelectSeq(FlattenSeq(args[i].rows), Numeric)
        ELSE IF IsError(args[i].v) \/ ~IsError(ToNumber(args[i].v))
             THEN <<ToNumber(args[i].v)>> ELSE <<>>])

Present(args) ==
    Len(SelectSeq(FlattenSeq([i \in DOMAIN args |-> FlattenSeq(Grid(args[i]))]),
                  LAMBDA v : v # Blank))

Inner(n, vs, present) ==
    CASE n = 1 -> Mean(vs)
      [] n = 2 -> Number(Len(vs))
      [] n = 3 -> Number(present)
      [] n = 4 -> Largest(vs)
      [] n = 5 -> Smallest(vs)
      [] n = 6 -> Product(vs)
      [] n = 9 -> Number(Total(vs))
      [] n \notin 1..11 -> Error("#VALUE!")

Subtotal(args) ==
    LET n == ToNumber(First(args[1]))
        inner == IF n.n \in 101..111 THEN n.n - 100 ELSE n.n
        refs == Tail(args)
    IN  IF IsError(n) THEN n
        ELSE IF inner \notin 1..11 THEN Error("#VALUE!")
        ELSE Unless(Scanned(refs), LAMBDA vs : Inner(inner, vs, Present(refs)))

Aggregate(args) ==
    LET n == ToNumber(First(args[1]))
        option == ToNumber(First(args[2]))
        refs == Tail(Tail(args))
        sound == SelectSeq(Scanned(refs), LAMBDA v : ~IsError(v))
    IN  CASE IsError(n) -> n
          [] IsError(option) -> option
          [] n.n \notin 1..11 \/ option.n \notin {0, 4, 6} -> Error("#VALUE!")
          [] option.n = 6 -> Inner(n.n, sound, Present(refs))
          [] OTHER -> Unless(Scanned(refs), LAMBDA vs : Inner(n.n, vs, Present(refs)))

-----------------------------------------------------------------------------
(* Choice.  Both branches arrive evaluated.                                *)

If(args) ==
    LET c == ToBool(First(args[1]))
    IN  CASE IsError(c) -> c
          [] ~IsError(c) /\ c.b -> First(args[2])
          [] OTHER -> IF Len(args) > 2 THEN First(args[3]) ELSE Bool(FALSE)

IfError(args) ==
    LET v == First(args[1])
    IN  IF IsError(v) THEN First(args[2]) ELSE IF v = Blank THEN Number(0) ELSE v

Not(args) ==
    LET c == ToBool(First(args[1])) IN IF IsError(c) THEN c ELSE Bool(~c.b)

IsNumber(args) == Bool(First(args[1]).type = "number")

Choose(args) ==
    LET i == ToNumber(First(args[1]))
    IN  IF IsError(i) THEN i
        ELSE IF i.n + 1 \in 2..Len(args) THEN First(args[i.n + 1]) ELSE Error("#VALUE!")

-----------------------------------------------------------------------------
(* Lookup.                                                                 *)

Whole(n) == IF n = 0 THEN 1 ELSE n

(* A 0 row or column is the whole of it, of which a value shows the first  *)
(* cell; one selector of a vector counts along it.                         *)
Index(args) ==
    LET g == Grid(args[1])
        row == Given(args, 2, 1)
        col == Given(args, 3, 1)
        r == CASE args[1].is = "scalar" -> row.n
               [] Len(g) = 1 /\ Len(args) = 2 -> 1
               [] OTHER -> Whole(row.n)
        c == CASE args[1].is = "scalar" -> col.n
               [] Len(g) = 1 /\ Len(args) = 2 -> Whole(row.n)
               [] OTHER -> Whole(col.n)
    IN  CASE IsError(ScalarError(Tail(args))) -> ScalarError(Tail(args))
          [] args[1].is = "scalar" /\ IsError(args[1].v) -> args[1].v
          [] IsError(row) -> row
          [] IsError(col) -> col
          [] args[1].is = "scalar" /\ (r = 0 \/ c = 0) -> Error("#VALUE!")
          [] r \notin 1..Len(g) \/ c \notin 1..Len(g[1]) -> Error("#REF!")
          [] OTHER -> g[r][c]

(* The places where the key is found, the wanted one chosen from them.  A  *)
(* text key meets texts only; in a sorted search a blank is no candidate   *)
(* for another key.                                                        *)
ExactPlaces(key, vector) ==
    {i \in DOMAIN vector :
        IF key.type = "text"
        THEN vector[i].type = "text" /\ Folded(vector[i].t) = Folded(key.t)
        ELSE Compare(key, vector[i]) = 0}

Candidates(key, vector) == {i \in DOMAIN vector : vector[i] # Blank \/ key = Blank}

SortedPlaces(key, vector, way) ==
    LET equal == {i \in Candidates(key, vector) : Compare(vector[i], key) = 0}
        within == {i \in Candidates(key, vector) : Compare(vector[i], key) = -way}
    IN  IF equal # {} THEN {Min(equal)} ELSE IF within # {} THEN {Max(within)} ELSE {}

(* The search ends with the last live row, unless the key is blank.        *)
Searched(arg, key) ==
    IF arg.is = "scalar" THEN <<<<arg.v>>>>
    ELSE IF key = Blank THEN arg.rows ELSE SubSeq(arg.rows, 1, arg.live[2])

Match(args) ==
    LET key == First(args[1])
        way == Given(args, 3, 1)
        vector == FlattenSeq(Searched(args[2], key))
        found == IF way.n = 0 THEN ExactPlaces(key, vector)
                 ELSE SortedPlaces(key, vector, IF way.n > 0 THEN 1 ELSE -1)
    IN  CASE IsError(ScalarError(SubSeq(args, 1, 2))) -> ScalarError(SubSeq(args, 1, 2))
          [] IsError(way) -> way
          [] found = {} -> Error("#N/A")
          [] OTHER -> Number(Min(found))

VLookup(args) ==
    LET key == First(args[1])
        column == Given(args, 3, 1)
        near == Flag(args, 4, TRUE)
        table == Searched(args[2], key)
        keys == [i \in DOMAIN table |-> table[i][1]]
        found == IF near.b THEN SortedPlaces(key, keys, 1) ELSE ExactPlaces(key, keys)
    IN  CASE IsError(ScalarError(SubSeq(args, 1, 2))) -> ScalarError(SubSeq(args, 1, 2))
          [] IsError(column) -> column
          [] column.n < 1 -> Error("#VALUE!")
          [] args[2].is = "scalar" /\ column.n > 1 -> Error("#REF!")
          [] IsError(near) -> near
          [] column.n > Len(Grid(args[2])[1]) -> Error("#REF!")
          [] found = {} -> Error("#N/A")
          [] OTHER -> table[Min(found)][column.n]

Origin(args, here) ==
    IF args # <<>> /\ args[1].is = "range" THEN args[1].at ELSE here

Extent(args, Size1(_)) ==
    IF args[1].is = "scalar" /\ IsError(args[1].v) THEN args[1].v
    ELSE Number(Size1(Grid(args[1])))

-----------------------------------------------------------------------------
(* Blocks.                                                                 *)

Transposed(g) == [c \in DOMAIN g[1] |-> [r \in DOMAIN g |-> g[r][c]]]

Sequence(args) ==
    LET n == <<Given(args, 1, 1), Given(args, 2, 1), Given(args, 3, 1), Given(args, 4, 1)>>
    IN  CASE IsError(FirstError(n)) -> FirstError(n)
          [] n[1].n <= 0 \/ n[2].n <= 0 -> Error("#VALUE!")
          [] OTHER -> Block([r \in 1..n[1].n |-> [c \in 1..n[2].n |->
                        Number(n[3].n + ((r - 1) * n[2].n + c - 1) * n[4].n)]])

SameRow(a, b) ==
    Len(a) = Len(b) /\ \A i \in DOMAIN a : Ordering(a[i], b[i]) = 0

(* The rows in the order they are first met, each with its count.          *)
Tally(entries) ==
    FoldLeft(LAMBDA seen, e :
        LET met == {i \in DOMAIN seen : SameRow(seen[i].row, e)}
        IN  IF met = {} THEN Append(seen, [row |-> e, count |-> 1])
            ELSE [seen EXCEPT ![Min(met)].count = @ + 1],
        <<>>, entries)

Oriented(g, byCol) == IF byCol THEN Transposed(g) ELSE g

Unique(args) ==
    LET g == Grid(args[1])
        bad == FirstError(FlattenSeq(g))
        byCol == Flag(args, 2, FALSE)
        once == Flag(args, 3, FALSE)
        kept == SelectSeq(Tally(Oriented(g, byCol.b)), LAMBDA e : ~once.b \/ e.count = 1)
    IN  CASE IsError(bad) -> bad
          [] IsError(byCol) -> byCol
          [] IsError(once) -> once
          [] kept = <<>> -> Error("#N/A")
          [] OTHER -> Block(Oriented([i \in DOMAIN kept |-> kept[i].row], byCol.b))

(* A stable sort: rows with equal keys keep their order.                   *)
Sorted(entries, key, way) ==
    LET Before(i, j) == LET c == way * Compare(entries[i][key], entries[j][key])
                        IN  c < 0 \/ (c = 0 /\ i < j)
        order == SetToSortSeq(DOMAIN entries, Before)
    IN  [i \in DOMAIN entries |-> entries[order[i]]]

Sort(args) ==
    LET g == Grid(args[1])
        bad == FirstError(FlattenSeq(g))
        key == Given(args, 2, 1)
        way == Given(args, 3, 1)
        byCol == Flag(args, 4, FALSE)
    IN  CASE IsError(bad) -> bad
          [] IsError(key) -> key
          [] IsError(way) -> way
          [] IsError(byCol) -> byCol
          [] way.n \notin {1, -1} -> Error("#VALUE!")
          [] key.n \notin DOMAIN Oriented(g, byCol.b)[1] -> Error("#VALUE!")
          [] OTHER -> Block(Oriented(Sorted(Oriented(g, byCol.b), key.n, way.n), byCol.b))

Truthy(v) == ~IsError(ToBool(v)) /\ ToBool(v).b

Positions(mask) == SelectSeq([i \in DOMAIN mask |-> i], LAMBDA i : Truthy(mask[i]))

(* The mask keeps rows when it is as long as there are rows, else columns. *)
Filter(args) ==
    LET g == Grid(args[1])
        mask == FlattenSeq(Grid(args[2]))
        bad == FirstError(FlattenSeq(g) \o mask)
        kept == Positions(mask)
    IN  CASE IsError(bad) -> bad
          [] Len(mask) \notin {Len(g), Len(g[1])} -> Error("#VALUE!")
          [] kept = <<>> -> IF Len(args) > 2 THEN Block(<<<<First(args[3])>>>>)
                                            ELSE Error("#N/A")
          [] Len(mask) = Len(g) -> Block([i \in DOMAIN kept |-> g[kept[i]]])
          [] OTHER -> Block([r \in DOMAIN g |-> [i \in DOMAIN kept |-> g[r][kept[i]]]])

Padded(row, w) == row \o [i \in 1..(w - Len(row)) |-> Error("#N/A")]

VStack(args) ==
    LET w == Max({Len(Grid(args[i])[1]) : i \in DOMAIN args})
    IN  Block(FlattenSeq([i \in DOMAIN args |->
            [r \in DOMAIN Grid(args[i]) |-> Padded(Grid(args[i])[r], w)]]))

HStack(args) ==
    LET tall(i) == [is |-> "range", rows |-> Transposed(Grid(args[i]))]
    IN  Block(Transposed(VStack([i \in DOMAIN args |-> tall(i)]).rows))

Taken(v, n) ==
    IF n >= 0 THEN SubSeq(v, 1, Min({n, Len(v)})) ELSE SubSeq(v, Max({1, Len(v) + n + 1}), Len(v))

Dropped(v, n) ==
    IF n >= 0 THEN SubSeq(v, Min({n, Len(v)}) + 1, Len(v)) ELSE SubSeq(v, 1, Max({0, Len(v) + n}))

TakeDrop(args, take) ==
    LET rows == Given(args, 2, 0)
        cols == Given(args, 3, 0)
        Pick(v, n) == IF take THEN Taken(v, n) ELSE Dropped(v, n)
        picked == Pick(Grid(args[1]), rows.n)
        out == IF Len(args) < 3 THEN picked ELSE [r \in DOMAIN picked |-> Pick(picked[r], cols.n)]
    IN  CASE IsError(rows) -> rows
          [] IsError(cols) -> cols
          [] take /\ (rows.n = 0 \/ (Len(args) > 2 /\ cols.n = 0)) -> Error("#VALUE!")
          [] out = <<>> \/ \A r \in DOMAIN out : out[r] = <<>> -> Error("#VALUE!")
          [] OTHER -> Block(out)

(* CHOOSEROWS and, of the transposed block, CHOOSECOLS; -1 is the last.    *)
Chosen(args, g) ==
    LET Place1(v) == IF IsError(v) \/ v.n \in 1..Len(g) THEN v
                     ELSE IF -v.n \in 1..Len(g) THEN Number(Len(g) + 1 + v.n)
                     ELSE Error("#VALUE!")
        picks == FlattenSeq([i \in DOMAIN Tail(args) |-> FlattenSeq(Grid(Tail(args)[i]))])
    IN  Unless([i \in DOMAIN picks |-> Place1(ToNumber(picks[i]))],
               LAMBDA ps : Block([i \in DOMAIN ps |-> g[ps[i].n]]))

Flattened(args) ==
    LET skip == Given(args, 2, 0)
        byCol == Flag(args, 3, FALSE)
        kept == SelectSeq(FlattenSeq(Oriented(Grid(args[1]), byCol.b)),
                          LAMBDA v : /\ v = Blank => skip.n \in {0, 2}
                                     /\ IsError(v) => skip.n \in {0, 1})
    IN  CASE IsError(skip) -> skip
          [] skip.n \notin 0..3 -> Error("#VALUE!")
          [] IsError(byCol) -> byCol
          [] kept = <<>> -> Error("#VALUE!")
          [] OTHER -> Block(<<kept>>)

Turned(r) == IF IsBlock(r) THEN Block(Transposed(r.rows)) ELSE r

-----------------------------------------------------------------------------
(* The registry rows of these functions and of the evaluator's own forms:  *)
(* least and most arguments, and the flags that route a call.              *)

Many == 255

CoreMeta ==
       "SUM" :> <<1, Many, {"range"}>>      @@ "PRODUCT" :> <<1, Many, {"range"}>>
    @@ "AVERAGE" :> <<1, Many, {"range"}>>  @@ "MAX" :> <<1, Many, {"range"}>>
    @@ "MIN" :> <<1, Many, {"range"}>>      @@ "COUNT" :> <<1, Many, {"range"}>>
    @@ "COUNTA" :> <<1, Many, {"range"}>>   @@ "AND" :> <<1, Many, {"range"}>>
    @@ "OR" :> <<1, Many, {"range"}>>       @@ "SUBTOTAL" :> <<2, Many, {"range"}>>
    @@ "AGGREGATE" :> <<3, Many, {"range"}>> @@ "INDEX" :> <<2, 3, {"range"}>>
    @@ "MATCH" :> <<2, 3, {"range"}>>       @@ "VLOOKUP" :> <<3, 4, {"range"}>>
    @@ "IF" :> <<2, 3, {}>>                 @@ "IFERROR" :> <<2, 2, {}>>
    @@ "NOT" :> <<1, 1, {}>>                @@ "ISNUMBER" :> <<1, 1, {}>>
    @@ "CHOOSE" :> <<2, Many, {}>>
    @@ "ROW" :> <<0, 1, {"range", "ref"}>>  @@ "COLUMN" :> <<0, 1, {"range", "ref"}>>
    @@ "ROWS" :> <<1, 1, {"range", "ref"}>> @@ "COLUMNS" :> <<1, 1, {"range", "ref"}>>
    @@ "OFFSET" :> <<3, 5, {"range", "ref", "special", "volatile"}>>
    @@ "INDIRECT" :> <<1, 2, {"range", "ref", "special", "volatile"}>>
    @@ "ISFORMULA" :> <<1, 1, {"range", "ref", "special"}>>
    @@ "ISREF" :> <<1, 1, {"range", "ref", "special"}>>
    @@ "SEQUENCE" :> <<1, 4, {"array"}>>
    @@ "TRANSPOSE" :> <<1, 1, {"range", "array"}>> @@ "UNIQUE" :> <<1, 3, {"range", "array"}>>
    @@ "SORT" :> <<1, 4, {"range", "array"}>>      @@ "FILTER" :> <<2, 3, {"range", "array"}>>
    @@ "VSTACK" :> <<1, Many, {"range", "array"}>> @@ "HSTACK" :> <<1, Many, {"range", "array"}>>
    @@ "TAKE" :> <<2, 3, {"range", "array"}>>      @@ "DROP" :> <<2, 3, {"range", "array"}>>
    @@ "CHOOSEROWS" :> <<2, Many, {"range", "array"}>>
    @@ "CHOOSECOLS" :> <<2, Many, {"range", "array"}>>
    @@ "TOCOL" :> <<1, 3, {"range", "array"}>>     @@ "TOROW" :> <<1, 3, {"range", "array"}>>
    @@ "LET" :> <<3, Many, {"special", "array"}>>  @@ "LAMBDA" :> <<1, Many, {"special"}>>
    @@ "MAP" :> <<2, Many, {"special", "array"}>>  @@ "REDUCE" :> <<3, 3, {"special", "array"}>>
    @@ "SCAN" :> <<3, 3, {"special", "array"}>>    @@ "BYROW" :> <<2, 2, {"special", "array"}>>
    @@ "BYCOL" :> <<2, 2, {"special", "array"}>>
    @@ "MAKEARRAY" :> <<3, 3, {"special", "array"}>>

CoreKernel(fn, args, here) ==
    CASE fn = "SUM"       -> Unless(Contributions(args), LAMBDA vs : Number(Total(vs)))
      [] fn = "PRODUCT"   -> Unless(Contributions(args), Product)
      [] fn = "AVERAGE"   -> Unless(Contributions(args), Mean)
      [] fn = "MAX"       -> Unless(Contributions(args), Largest)
      [] fn = "MIN"       -> Unless(Contributions(args), Smallest)
      [] fn = "COUNT"     -> Count(args)
      [] fn = "COUNTA"    -> CountA(args)
      [] fn = "AND"       -> Unless(Logicals(args), Both)
      [] fn = "OR"        -> Unless(Logicals(args), Either)
      [] fn = "SUBTOTAL"  -> Subtotal(args)
      [] fn = "AGGREGATE" -> Aggregate(args)
      [] fn = "INDEX"     -> Index(args)
      [] fn = "MATCH"     -> Match(args)
      [] fn = "VLOOKUP"   -> VLookup(args)
      [] fn = "IF"        -> If(args)
      [] fn = "IFERROR"   -> IfError(args)
      [] fn = "NOT"       -> Not(args)
      [] fn = "ISNUMBER"  -> IsNumber(args)
      [] fn = "CHOOSE"    -> Choose(args)
      [] fn = "ROW"       -> Number(Origin(args, here)[2] + 1)
      [] fn = "COLUMN"    -> Number(Origin(args, here)[3] + 1)
      [] fn = "ROWS"      -> Extent(args, Len)
      [] fn = "COLUMNS"   -> Extent(args, LAMBDA g : Len(g[1]))
      [] fn = "SEQUENCE"  -> Sequence(args)
      [] fn = "TRANSPOSE" -> Block(Transposed(Grid(args[1])))
      [] fn = "UNIQUE"    -> Unique(args)
      [] fn = "SORT"      -> Sort(args)
      [] fn = "FILTER"    -> Filter(args)
      [] fn = "VSTACK"    -> VStack(args)
      [] fn = "HSTACK"    -> HStack(args)
      [] fn = "TAKE"      -> TakeDrop(args, TRUE)
      [] fn = "DROP"      -> TakeDrop(args, FALSE)
      [] fn = "CHOOSEROWS" -> Chosen(args, Grid(args[1]))
      [] fn = "CHOOSECOLS" -> Turned(Chosen(args, Transposed(Grid(args[1]))))
      [] fn = "TOCOL"     -> Turned(Flattened(args))
      [] fn = "TOROW"     -> Flattened(args)
=============================================================================
