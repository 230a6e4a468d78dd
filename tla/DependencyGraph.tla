-------------------------- MODULE DependencyGraph --------------------------
(***************************************************************************)
(* The dependency graph of the engine (sheet-calc/src/graph.rs): who reads *)
(* a cell, by single references and by boxes of cells, kept up to date one *)
(* formula at a time, with the segment trees that answer "which boxes hold *)
(* this cell".                                                             *)
(*                                                                         *)
(* A cell is <<sheet, row, col>>, a box [sheet, top, bottom, left, right]. *)
(* The hash maps of the code are functions whose domain is the keys that   *)
(* are present.  What a formula refers to (a RefSet) is                    *)
(* [cells, boxes, names, structured]; a structured reference is "column"   *)
(* (a column of the table) or "row" (the cell of it in the formula's row). *)
(***************************************************************************)
EXTENDS Integers, FiniteSets, FiniteSetsExt

CONSTANTS
    FormulaCells,   \* the cells that may hold a formula
    RefSets,        \* what a formula may refer to
    Names,          \* defined names
    Boxes,          \* the boxes a name may stand for
    NotRange,       \* the target of a name that is not a range
    Table,          \* the extent of the workbook's table, and
    TableColumn,    \* the column of it that structured references name
    Depth,          \* levels of a row tree under its root (32 in the code)
    NarrowCols      \* a box of at most so many columns is indexed in each (8)

ASSUME TreeAssumption == Depth \in Nat /\ NarrowCols \in Nat \ {0} /\ NotRange \notin Boxes

Power[k \in 0 .. Depth + 1] == IF k = 0 THEN 1 ELSE 2 * Power[k - 1]
Leaves == Power[Depth]

IsBox(box) ==
    /\ box = [sheet |-> box.sheet, top |-> box.top, bottom |-> box.bottom,
              left |-> box.left, right |-> box.right]
    /\ {box.top, box.bottom} \subseteq 0 .. Leaves - 1 /\ {box.left, box.right} \subseteq Nat

(* A formula refers to finitely many things, on rows the trees have.        *)
ASSUME RefsAssumption ==
    /\ \A refs \in RefSets :
           /\ IsFiniteSet(refs.boxes) /\ \A box \in refs.boxes : IsBox(box)
           /\ refs.names \subseteq Names /\ IsFiniteSet(refs.names)
           /\ refs.structured \subseteq {"column", "row"}
    /\ \A box \in Boxes \cup {Table, TableColumn} : IsBox(box)

VARIABLES
    formulas,       \* the model: what the formula of each formula cell refers to
    names,          \* the model: what each defined name stands for
    graph           \* DepGraph

vars == <<formulas, names, graph>>

Levels == 0 .. Depth
WideLane == -1
EmptyMap == [k \in {} |-> {}]

(* entry(k).or_default().insert(x); remove(x), which drops an emptied entry *)
At(map, k) == IF k \in DOMAIN map THEN map[k] ELSE {}
Put(map, keys, x) == [k \in DOMAIN map \cup keys |-> At(map, k) \cup IF k \in keys THEN {x} ELSE {}]
With(map, k, value) == [x \in DOMAIN map \cup {k} |-> IF x = k THEN value ELSE map[x]]
Without(map, keys) == [k \in DOMAIN map \ keys |-> map[k]]
Take(map, keys, x) ==
    LET left == [k \in DOMAIN map |-> IF k \in keys THEN map[k] \ {x} ELSE map[k]]
    IN  Without(left, {k \in keys \cap DOMAIN map : left[k] = {}})

Holds(box, c) == /\ c[1] = box.sheet
                 /\ c[2] \in box.top .. box.bottom /\ c[3] \in box.left .. box.right

-----------------------------------------------------------------------------
(* RangeIndex: the boxes, filed in row trees *)

NoTree == [nodes |-> EmptyMap, perLevel |-> [l \in Levels |-> 0], boxes |-> {}]
TreeAt(lanes, lane) == IF lane \in DOMAIN lanes THEN lanes[lane] ELSE NoTree

LevelOf(node) == CHOOSE k \in Levels : node \in Power[k] .. Power[k + 1] - 1

(* RangeIndex::nodes_of: the canonical nodes of the rows of a box.  The     *)
(* climb halves the ends l .. r - 1 and takes the odd ones that it leaves.  *)
OddEnds(ends) ==
    {n \in {ends[1]} : n % 2 = 1} \cup {n \in {ends[2] - 1} : ends[2] % 2 = 1}

Climb(box) ==
    LET ends[d \in Levels] == IF d = 0 THEN <<Leaves + box.top, Leaves + box.bottom + 1>>
                              ELSE <<(ends[d - 1][1] + 1) \div 2, ends[d - 1][2] \div 2>>
    IN  ends

NodesOf(box) ==
    LET climb == Climb(box)
    IN  UNION {OddEnds(climb[d]) : d \in {e \in Levels : climb[e][1] < climb[e][2]}}

(* A slip: a wide box is also filed under its first column. *)
LanesAndFirst(box) ==
    {box.sheet} \X (IF box.right - box.left < NarrowCols THEN box.left .. box.right
                     ELSE {WideLane, box.left})

LanesOf(box) ==
    {box.sheet} \X (IF box.right - box.left < NarrowCols THEN box.left .. box.right ELSE {WideLane})

(* per_level counts the nodes in use. *)
Recount(tree, box, by, nodes) ==
    [l \in Levels |-> tree.perLevel[l] + by * Cardinality({n \in nodes : LevelOf(n) = l})]

Inserted(tree, box) ==
    [nodes |-> Put(tree.nodes, NodesOf(box), box),
     perLevel |-> Recount(tree, box, 1, NodesOf(box) \ DOMAIN tree.nodes),
     boxes |-> tree.boxes \cup {box}]

Removed(tree, box) ==
    [nodes |-> Take(tree.nodes, NodesOf(box), box),
     perLevel |-> Recount(tree, box, -1, {n \in NodesOf(box) : At(tree.nodes, n) = {box}}),
     boxes |-> tree.boxes \ {box}]

InsertBox(lanes, box) ==
    [lane \in DOMAIN lanes \cup LanesOf(box) |->
        IF lane \in LanesOf(box) /\ box \notin TreeAt(lanes, lane).boxes
        THEN Inserted(TreeAt(lanes, lane), box) ELSE lanes[lane]]

(* A slip: a box of several columns leaves its first lane only. *)
RemoveBoxFirstLane(lanes, box) ==
    LET first == {lane \in LanesOf(box) : lane[2] \in {box.left, WideLane}}
        rest == [lane \in DOMAIN lanes |->
                    IF lane \in first THEN Removed(lanes[lane], box) ELSE lanes[lane]]
    IN  Without(rest, {lane \in first : rest[lane].boxes = {}})

RemoveBox(lanes, box) ==
    LET rest == [lane \in DOMAIN lanes |->
                    IF lane \in LanesOf(box) /\ box \in lanes[lane].boxes
                    THEN Removed(lanes[lane], box) ELSE lanes[lane]]
    IN  Without(rest, {lane \in LanesOf(box) \cap DOMAIN lanes : rest[lane].boxes = {}})

UsedLevels(tree) == {l \in Levels : tree.perLevel[l] > 0}

(* A slip: the walk trusts the lane of the wide boxes as it does the others. *)
MetUnfiltered(lanes, lane, c) ==
    LET tree == TreeAt(lanes, lane)
    IN  UNION {{n} \X At(tree.nodes, n) :
                  n \in {(Leaves + c[2]) \div Power[Depth - l] : l \in UsedLevels(tree)}}

(* RangeIndex::stab in one lane, each hit as <<where it was met, box>>: a   *)
(* lane with few boxes is scanned, any other is walked from root to leaf.   *)
Met(lanes, lane, c) ==
    LET tree == TreeAt(lanes, lane)
        path == {(Leaves + c[2]) \div Power[Depth - l] : l \in UsedLevels(tree)}
    IN  IF Cardinality(tree.boxes) <= Cardinality(UsedLevels(tree))
        THEN {0} \X {box \in tree.boxes : Holds(box, c)}
        ELSE UNION {{n} \X {box \in At(tree.nodes, n) :
                               lane[2] # WideLane \/ c[3] \in box.left .. box.right} : n \in path}

(* Every hit of a probe, with the lane and the node it was met at. *)
Hits(lanes, c) ==
    UNION {{lane} \X Met(lanes, lane, c) : lane \in {<<c[1], c[3]>>, <<c[1], WideLane>>}}

Stab(lanes, c) == {hit[2][2] : hit \in Hits(lanes, c)}

-----------------------------------------------------------------------------
(* DepGraph *)

NoGraph == [cellReaders |-> EmptyMap, boxReaders |-> EmptyMap,
            cellsOf |-> EmptyMap, boxesOf |-> EmptyMap, nodes |-> {}, lanes |-> EmptyMap]

Entry(map, k, S) == IF S = {} THEN map ELSE With(map, k, S)

(* DepGraph::unregister *)
Unregistered(g, cell) ==
    LET readers == Take(g.boxReaders, At(g.boxesOf, cell), cell)
        emptied == DOMAIN g.boxReaders \ DOMAIN readers
    IN  [cellReaders |-> Take(g.cellReaders, At(g.cellsOf, cell), cell),
         boxReaders |-> readers,
         cellsOf |-> Without(g.cellsOf, {cell}),
         boxesOf |-> Without(g.boxesOf, {cell}),
         nodes |-> g.nodes \ {cell},
         lanes |-> FoldSet(LAMBDA box, lanes : RemoveBox(lanes, box), g.lanes, emptied)]

(* eval::resolve_structured_at: "row" needs a formula in a row of the table. *)
Resolved(ref, cell) ==
    IF ref = "column" THEN TableColumn
    ELSE IF cell[1] = Table.sheet /\ cell[2] \in Table.top .. Table.bottom
         THEN [TableColumn EXCEPT !.top = cell[2], !.bottom = cell[2]]
         ELSE Table

(* The boxes a formula reads: its ranges, the names that stand for one, and *)
(* its structured references; one that does not resolve takes the table.    *)
BoxesRead(refs, table, cell) ==
    refs.boxes \cup {table[n] : n \in {m \in refs.names : table[m] # NotRange}}
               \cup {Resolved(ref, cell) : ref \in refs.structured}

(* DepGraph::register *)
Registered(g, table, cell, refs) ==
    LET clean == Unregistered(g, cell)
        boxes == BoxesRead(refs, table, cell)
        fresh == boxes \ DOMAIN clean.boxReaders
    IN  [cellReaders |-> Put(clean.cellReaders, refs.cells, cell),
         boxReaders |-> Put(clean.boxReaders, boxes, cell),
         cellsOf |-> Entry(clean.cellsOf, cell, refs.cells),
         boxesOf |-> Entry(clean.boxesOf, cell, boxes),
         nodes |-> clean.nodes \cup {cell},
         lanes |-> FoldSet(LAMBDA box, lanes : InsertBox(lanes, box), clean.lanes, fresh)]

(* DepGraph::rebuild *)
Rebuilt(fs, table) ==
    FoldSet(LAMBDA cell, g : Registered(g, table, cell, fs[cell]), NoGraph, DOMAIN fs)

(* DepGraph::dependents_of *)
DependentsOf(g, c) ==
    At(g.cellReaders, c) \cup UNION {At(g.boxReaders, box) : box \in Stab(g.lanes, c)}

(* Candidates::inside: a scan of the cut, or a seek in each column. *)
Inside(cut, box) ==
    IF box.right - box.left + 1 > Cardinality(cut)
    THEN {c \in cut : Holds(box, c)}
    ELSE UNION {{c \in cut : c[1] = box.sheet /\ c[3] = col /\ c[2] \in box.top .. box.bottom}
                   : col \in box.left .. box.right}

(* DepGraph::precedents_in *)
PrecedentsIn(g, cell, cut) ==
    (At(g.cellsOf, cell) \cap cut) \cup UNION {Inside(cut, box) : box \in At(g.boxesOf, cell)}

-----------------------------------------------------------------------------
(* A workbook was loaded: no formula yet, and some names. *)
Init ==
    /\ formulas = EmptyMap
    /\ names \in [Names -> Boxes \cup {NotRange}]
    /\ graph = NoGraph

(* Engine::stage_cell puts a formula into a cell ... *)
Register(cell, refs) ==
    /\ formulas' = With(formulas, cell, refs)
    /\ graph' = Registered(graph, names, cell, refs)
    /\ UNCHANGED names

(* ... or takes it out. *)
Unregister(cell) ==
    /\ formulas' = Without(formulas, {cell})
    /\ graph' = Unregistered(graph, cell)
    /\ UNCHANGED names

(* SheetSession::with_names: the engine is made anew, with its graph. *)
Retarget(name, target) ==
    /\ names' = [names EXCEPT ![name] = target]
    /\ graph' = Rebuilt(formulas, names')
    /\ UNCHANGED formulas

Next ==
    \/ \E cell \in FormulaCells, refs \in RefSets : Register(cell, refs)
    \/ \E cell \in FormulaCells : Unregister(cell)
    \/ \E name \in Names, target \in Boxes \cup {NotRange} : Retarget(name, target)

Spec == Init /\ [][Next]_vars

-----------------------------------------------------------------------------
(* Properties *)

(* What a formula cell reads, by definition. *)
ReadsCell(cell, c) ==
    \/ c \in formulas[cell].cells
    \/ \E box \in BoxesRead(formulas[cell], names, cell) : Holds(box, c)

Grid == {1, 2} \X (0 .. Leaves - 1) \X (0 .. NarrowCols + 1)

(***************************************************************************)
(* A write to a cell dirties exactly the formulas that read it, however    *)
(* the formulas and the names were edited before: the stab through the     *)
(* narrow and the wide lanes loses no reader and adds none.                *)
(* (register, unregister, add_range_edge, RangeIndex, dependents_of)       *)
(***************************************************************************)
DependentsExact ==
    \A c \in Grid : DependentsOf(graph, c) = {cell \in DOMAIN formulas : ReadsCell(cell, c)}

(***************************************************************************)
(* The order of a recalculation sees every edge inside the dirty cut and   *)
(* no other, by the scan and by the seek alike.  (precedents_in, inside)   *)
(***************************************************************************)
PrecedentsExact ==
    \A cut \in SUBSET graph.nodes : \A cell \in cut :
        PrecedentsIn(graph, cell, cut) = {c \in cut : ReadsCell(cell, c)}

(***************************************************************************)
(* The edges of the graph, from either end, are what the formulas read:    *)
(* who must be recomputed, and in which order.                             *)
(* (dependents_of, precedents_in)                                          *)
(***************************************************************************)
EdgesExact == DependentsExact /\ PrecedentsExact

(***************************************************************************)
(* The graph is a function of the workbook: what a history of edits leaves *)
(* is what a rebuild from scratch would make, down to the counts that let  *)
(* a stab skip a level; nothing of a replaced formula stays behind.        *)
(* (register, unregister, insert, remove against rebuild)                  *)
(***************************************************************************)
AsRebuilt == graph = Rebuilt(formulas, names)

=============================================================================
