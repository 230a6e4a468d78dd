----------------------------- MODULE SheetCalc -----------------------------
(***************************************************************************)
(* The calculation engine of the plugin (crate sheet-calc): one Engine     *)
(* owns the cells, the dependency graph, the dirty set and the ledger of   *)
(* spilled arrays.  Every edit goes through set_cell / set_cells, which    *)
(* stage the inputs and then run ONE recalculation: a fixpoint of passes,  *)
(* each of which drains the dirty set, evaluates it in dependency order,   *)
(* settles the cells that sit on a cycle, and finishes what lies           *)
(* downstream of them.                                                     *)
(*                                                                         *)
(* The evaluator is a parameter: a formula is an opaque value, of which    *)
(* the engine knows the cells it reads, whether it is volatile, whether    *)
(* its root spills, and the result it computes from the cells it reads.    *)
(* Everything else, the scheduling and the bookkeeping, is modelled.       *)
(***************************************************************************)
EXTENDS Integers, FiniteSets

CONSTANTS
    Cells,          \* the cells of the sheet, <<row, col>> pairs
    Formulas,       \* parsed formulas
    Values,         \* the values a cell can show; holds Zero, RefErr, SpillErr
    Empty,          \* the value of a blank cell
    NoFormula,      \* "this cell has no formula"
    NoOwner,        \* "no spilled array covers this cell"
    Zero,           \* Number(0.0)
    RefErr,         \* Error(Ref), what a cycle member shows
    SpillErr,       \* Error(Spill), what a blocked anchor shows
    Salts,          \* the seeds a volatile function may see
    Reads(_),       \* Reads(f): the cells formula f refers to
    IsVolatile(_),  \* f calls a volatile function (RAND, NOW, ...)
    SpillRoot(_),   \* the root of f can return an array (Engine::cell_spills)
    Eval(_, _, _),  \* Eval(f, v, s): the FnResult of f over the cell values v
    Settled(_, _),  \* cell_delta(old, new) <= max_change
    Palette(_),     \* Palette(c): the inputs a user enters into cell c
    InteriorWrites, \* callers may write into a spilled (non-anchor) cell
    Iteration,      \* callers may toggle iterative calculation
    Rebuilds,       \* sheets and names may be added, renamed or deleted
    MaxBatch,       \* inputs of one set_cells call (a bound of the model)
    MaxPasses,      \* passes of one recalculation (64 in the code)
    MaxIter         \* sweeps of one iteration (CalcSettings.max_iter)

(***************************************************************************)
(* What a user enters: a formula, a literal, or nothing.                   *)
(***************************************************************************)
Input == [formula : Formulas \cup {NoFormula}, value : Values \cup {Empty}]
Blank == [formula |-> NoFormula, value |-> Empty]

ASSUME CellsAssumption  == IsFiniteSet(Cells) /\ Cells \subseteq Int \X Int
ASSUME ValuesAssumption == /\ {Zero, RefErr, SpillErr} \subseteq Values
                           /\ Empty \notin Values
                           /\ NoFormula \notin Formulas
                           /\ NoOwner \notin Cells
                           /\ Salts # {}
ASSUME BoundsAssumption == /\ MaxPasses \in Nat
                           /\ MaxBatch \in Nat \ {0}
                           /\ MaxIter \in Nat \ {0}
                           /\ InteriorWrites \in BOOLEAN
                           /\ Iteration \in BOOLEAN
                           /\ Rebuilds \in BOOLEAN
ASSUME FormulaAssumption ==
    \A f \in Formulas : /\ Reads(f) \subseteq Cells
                        /\ IsVolatile(f) \in BOOLEAN
                        /\ SpillRoot(f) \in BOOLEAN
ASSUME PaletteAssumption ==
    \A c \in Cells : \A in \in Palette(c) :
        in \in Input /\ (in.formula # NoFormula => in.value = Empty)

(***************************************************************************)
(* An FnResult is [array, grid]: array tells Array from Scalar, grid maps  *)
(* the offsets <<dr, dc>> from the anchor to the elements and holds at     *)
(* least <<0, 0>>.  An element may be blank.                               *)
(***************************************************************************)
ASSUME EvalAssumption ==
    \A f \in Formulas, s \in Salts, v \in [Cells -> Values \cup {Empty}] :
        LET r == Eval(f, v, s)
        IN  /\ r.array \in BOOLEAN
            /\ <<0, 0>> \in DOMAIN r.grid
            /\ \A o \in DOMAIN r.grid : r.grid[o] \in Values \cup {Empty}

VARIABLES
    formula,     \* model: the formula of each cell, or NoFormula
    value,       \* model: the stored value of each cell
    graph,       \* DepGraph: the formula each cell is REGISTERED with
    dirty,       \* Dirty::set
    region,      \* SpillState::anchors: the cells an anchor owns, {} for none
    owner,       \* SpillState::owner_of
    blocked,     \* SpillState::blocked
    iterative,   \* CalcSettings::iterative
    pc,          \* where the engine stands in a call
    staged,      \* inputs staged so far in this call
    pass,        \* passes begun in this recalculation
    salt,        \* the volatile seed of this pass (rng_seed mixed with Engine::pass)
    pending,     \* the cells of the drained cut not evaluated yet
    members,     \* the cycle members being iterated
    todo,        \* members not visited in the current sweep
    sweep,       \* sweeps begun by iterate_cycle
    still,       \* no member moved so far in this sweep
    circular,    \* RecalcResult::circular of the last recalculation
    diverged,    \* RecalcResult::non_converged of the last recalculation
    entered,     \* history: what the user last entered into each cell
    unsettled    \* history: the cells whose last iteration ran out of sweeps

model  == <<formula, value, graph>>
ledger == <<region, owner, blocked>>
cycle  == <<members, todo, sweep, still>>
report == <<circular, diverged>>
history == <<entered, unsettled>>
vars   == <<model, dirty, ledger, iterative, pc, staged, pass, salt, pending, cycle, report, history>>

TypeOK ==
    /\ formula   \in [Cells -> Formulas \cup {NoFormula}]
    /\ value     \in [Cells -> Values \cup {Empty}]
    /\ graph     \in [Cells -> Formulas \cup {NoFormula}]
    /\ dirty     \in SUBSET Cells
    /\ region    \in [Cells -> SUBSET Cells]
    /\ owner     \in [Cells -> Cells \cup {NoOwner}]
    /\ blocked   \in SUBSET Cells
    /\ iterative \in BOOLEAN
    /\ pc        \in {"idle", "staging", "draining", "ordering", "iterating", "after"}
    /\ staged    \in 0 .. MaxBatch
    /\ pass      \in 0 .. MaxPasses
    /\ salt      \in Salts
    /\ pending   \in SUBSET Cells
    /\ members   \in SUBSET Cells
    /\ todo      \in SUBSET Cells
    /\ sweep     \in 0 .. MaxIter
    /\ still     \in BOOLEAN
    /\ circular  \in SUBSET Cells
    /\ diverged  \in SUBSET Cells
    /\ entered   \in [Cells -> Input]
    /\ unsettled \in SUBSET Cells

-----------------------------------------------------------------------------
(* The dependency graph *)

Registered == {c \in Cells : graph[c] # NoFormula}

DependentsIn(g, S) == {d \in Cells : g[d] # NoFormula /\ Reads(g[d]) \cap S # {}}

(* The part of cut that c waits for: topo::order counts only edges in it. *)
PrecedentsIn(cut, c) == IF graph[c] = NoFormula THEN {} ELSE Reads(graph[c]) \cap cut

(* A slip: the walk adds the cells it starts from. *)
PropagateWithOrigins(g, D, origins) ==
    LET walk[n \in 0 .. Cardinality(Cells)] ==
            IF n = 0 THEN DependentsIn(g, origins) \cup {c \in origins : g[c] # NoFormula}
                     ELSE LET last == walk[n - 1]
                          IN  last \cup (DependentsIn(g, last) \ D)
    IN  D \cup walk[Cardinality(Cells)]

(***************************************************************************)
(* Dirty::propagate_from, from every cell of origins.  The walk adds the   *)
(* dependents of the origins and goes on from each cell it ADDS: it stops  *)
(* at a cell that is dirty already, trusting that the dependents of that   *)
(* cell are dirty too.                                                     *)
(***************************************************************************)
PropagateIn(g, D, origins) ==
    LET walk[n \in 0 .. Cardinality(Cells)] ==
            IF n = 0 THEN DependentsIn(g, origins) \ D
                     ELSE LET last == walk[n - 1]
                          IN  last \cup (DependentsIn(g, last) \ D)
        added == walk[Cardinality(Cells)]
    IN  D \cup {c \in Cells : g[c] # NoFormula /\ c \in added}

Propagate(D, origins) == PropagateIn(graph, D, origins)

(* CellRef orders by row, then column. *)
Before(c, d) == c[1] < d[1] \/ (c[1] = d[1] /\ c[2] < d[2])
IsFirst(c, S) == c \in S /\ \A d \in S \ {c} : Before(c, d)

(* The cells of cut whose precedents in cut have all been emitted. *)
Ready(cut) == {c \in cut : PrecedentsIn(cut, c) = {}}

(* What c feeds, directly or not, without leaving cut. *)
Feeds(cut, c) ==
    LET walk[n \in 0 .. Cardinality(Cells)] ==
            IF n = 0 THEN DependentsIn(graph, {c}) \cap cut
                     ELSE LET last == walk[n - 1]
                          IN  last \cup (DependentsIn(graph, last) \cap cut)
    IN  walk[Cardinality(Cells)]

(* Slips: what lies downstream of a cycle is filed as a member of it; a     *)
(* cell that reads itself is not found.                                     *)
CycleOrDownstream(cut) == cut
LongCyclesOnly(cut) == {c \in cut : \E d \in Feeds(cut, c) \ {c} : c \in Feeds(cut, d)}

(* topo::cycle_members: an SCC of two or more, or a self-loop. *)
OnCycle(cut) == {c \in cut : c \in Feeds(cut, c)}

-----------------------------------------------------------------------------
(* Spilling *)

Offset(a, c) == <<c[1] - a[1], c[2] - a[2]>>
Footprint(a, grid) == {c \in Cells : Offset(a, c) \in DOMAIN grid}
Interior(a) == region[a] \ {a}
Interiors == UNION {Interior(a) : a \in Cells}
IntoShown(v) == IF v = Empty THEN Zero ELSE v

(* Slips: the reverse index keeps its entries; readers of a cleared cell    *)
(* are not dirtied; only a formula blocks a spill.                          *)
KeptOwner(a)    == owner
UntouchedDirty(a) == dirty
FormulaBlockers(a, cells) == {c \in cells \ {a} : formula[c] # NoFormula}

(* Engine::clear_spill_region on the model, the ledger and the dirty set *)
ClearedFormula(a) == [c \in Cells |-> IF c \in Interior(a) THEN NoFormula ELSE formula[c]]
ClearedValue(a)   == [c \in Cells |-> IF c \in Interior(a) THEN Empty ELSE value[c]]
ClearedOwner(a)   == [c \in Cells |-> IF c \in region[a] /\ owner[c] = a THEN NoOwner ELSE owner[c]]
ClearedRegion(a)  == [region EXCEPT ![a] = {}]
ClearedDirty(a)   == Propagate(dirty, Interior(a))

(* Engine::cell_is_blocker, once the region of a has been cleared *)
Blockers(a, cells) ==
    {c \in cells \ {a} : /\ ClearedOwner(a)[c] # a
                         /\ \/ ClearedFormula(a)[c] # NoFormula
                            \/ ClearedValue(a)[c] # Empty}

(* The FnResult of the formula of c over the cell values v.  A cell that    *)
(* lost its formula evaluates to its stored value, ungrounded.              *)
ResultOver(v, c, s) ==
    IF formula[c] = NoFormula
    THEN [array |-> FALSE, grid |-> [o \in {<<0, 0>>} |-> v[c]]]
    ELSE LET r == Eval(formula[c], v, s)
         IN  [array |-> r.array, grid |-> [o \in DOMAIN r.grid |-> IntoShown(r.grid[o])]]

Spills(c) == formula[c] # NoFormula /\ SpillRoot(formula[c])

(* Engine::evaluate_cell: the top-left element. *)
ScalarOver(v, c, s) == ResultOver(v, c, s).grid[<<0, 0>>]

(* Engine::evaluate_cell_rich, once the region of c has been cleared *)
RichResult(c) == ResultOver(ClearedValue(c), c, salt)

-----------------------------------------------------------------------------
(* A workbook has just been loaded: Engine::new, then recalc_all. *)
Init ==
    /\ entered \in [Cells -> UNION {Palette(c) : c \in Cells}]
    /\ \A c \in Cells : entered[c] \in Palette(c)
    /\ formula = [c \in Cells |-> entered[c].formula]
    /\ value = [c \in Cells |-> entered[c].value]
    /\ graph = formula
    /\ dirty = Registered
    /\ region = [c \in Cells |-> {}]
    /\ owner = [c \in Cells |-> NoOwner]
    /\ blocked = {}
    /\ iterative = FALSE
    /\ pc = "draining"
    /\ staged = 0 /\ pass = 0 /\ pending = {} /\ salt \in Salts
    /\ members = {} /\ todo = {} /\ sweep = 0 /\ still = TRUE
    /\ circular = {} /\ diverged = {} /\ unsettled = {}

(***************************************************************************)
(* Engine::stage_cell.  A live anchor releases its region; a spilled       *)
(* interior cell dirties its anchor.  The cell is then unregistered,       *)
(* replaced and, as a formula, registered again; what reads it is dirty.   *)
(***************************************************************************)
StageCell(c, in) ==
    /\ pc \in {"idle", "staging"}
    /\ staged < MaxBatch
    /\ InteriorWrites \/ owner[c] \in {NoOwner, c}
    /\ LET released == IF region[c] = {} /\ owner[c] # NoOwner
                       THEN Propagate(dirty \cup {owner[c]}, {owner[c]})
                       ELSE ClearedDirty(c)
           own == IF in.formula = NoFormula THEN {} ELSE {c}
       IN  /\ graph' = [graph EXCEPT ![c] = in.formula]
           /\ dirty' = PropagateIn(graph', (released \ {c}) \cup own, {c})
    /\ formula' = [ClearedFormula(c) EXCEPT ![c] = in.formula]
    /\ value' = [ClearedValue(c) EXCEPT ![c] = in.value]
    /\ region' = ClearedRegion(c)
    /\ owner' = ClearedOwner(c)
    /\ entered' = [entered EXCEPT ![c] = in]
    /\ staged' = staged + 1
    /\ pc' = "staging"
    /\ UNCHANGED <<blocked, iterative, pass, salt, pending, cycle, report, unsettled>>

(* A slip: the volatile cells alone are reseeded, not what they feed. *)
ReseedCellsOnly(D) == D \cup {c \in Registered : IsVolatile(graph[c])}

(* Volatiles and all they feed: Dirty::reseed_volatile. *)
Reseed(D) ==
    LET volatile == {c \in Registered : IsVolatile(graph[c])}
    IN  Propagate(D \cup volatile, volatile)

(***************************************************************************)
(* The end of set_cell / set_cells: blocked anchors are tried again        *)
(* (redirty_blocked_spills), then recalc_dirty begins.                     *)
(***************************************************************************)
BeginRecalc ==
    /\ pc = "staging"
    /\ blocked' = blocked \cap Registered
    /\ dirty' = Reseed(dirty \cup blocked')
    /\ circular' = {} /\ diverged' = {}
    /\ staged' = 0
    /\ pc' = "draining"
    /\ UNCHANGED <<model, region, owner, iterative, pass, salt, pending, cycle, history>>

(* Engine::recalc_all *)
RecalcAll ==
    /\ pc = "idle"
    /\ dirty' = Reseed(Registered)
    /\ circular' = {} /\ diverged' = {}
    /\ pc' = "draining"
    /\ UNCHANGED <<model, ledger, iterative, staged, pass, salt, pending, cycle, history>>

(* Engine::set_iterative *)
SetIterative ==
    /\ Iteration
    /\ pc = "idle"
    /\ iterative' = ~iterative
    /\ dirty' = Reseed(Registered)
    /\ circular' = {} /\ diverged' = {}
    /\ pc' = "draining"
    /\ UNCHANGED <<model, ledger, staged, pass, salt, pending, cycle, history>>

(***************************************************************************)
(* Adding, renaming or deleting a sheet, or a defined name, takes the      *)
(* model out of the engine and makes a new engine of it: the graph and the *)
(* dirty set are rebuilt, and the ledger starts empty while the spilled    *)
(* values stay in the model.  A change of names recalculates at once, a    *)
(* new or renamed sheet waits for the next edit.                           *)
(***************************************************************************)
RebuildEngine ==
    /\ Rebuilds
    /\ pc = "idle"
    /\ graph' = formula
    /\ dirty' = {c \in Cells : formula[c] # NoFormula}
    /\ region' = [c \in Cells |-> {}]
    /\ owner' = [c \in Cells |-> NoOwner]
    /\ blocked' = {}
    /\ pc' \in {"idle", "draining"}
    /\ circular' = {} /\ diverged' = {}
    /\ UNCHANGED <<formula, value, iterative, staged, pass, salt, pending, cycle, history>>

-----------------------------------------------------------------------------
(* Engine::recalc_dirty: the passes *)

(* A slip: volatile cells are reseeded in every pass. *)
BeginPassReseeding ==
    /\ pc = "draining"
    /\ dirty # {}
    /\ pass < MaxPasses
    /\ pending' = dirty
    /\ dirty' = Reseed({})
    /\ pass' = pass + 1
    /\ salt' \in Salts
    /\ pc' = "ordering"
    /\ UNCHANGED <<model, ledger, iterative, staged, cycle, report, history>>

BeginPass ==
    /\ pc = "draining"
    /\ dirty # {}
    /\ pass < MaxPasses
    /\ pending' = dirty
    /\ dirty' = {}
    /\ pass' = pass + 1
    /\ salt' \in Salts
    /\ pc' = "ordering"
    /\ UNCHANGED <<model, ledger, iterative, staged, cycle, report, history>>

(* The next cell in dependency order; equal ranks go by CellRef. *)
IsNext(c) ==
    /\ pc \in {"ordering", "after"}
    /\ IsFirst(c, Ready(pending))

(* A cell that does not spill, or whose spilling root grounded to a scalar. *)
EvaluateScalar(c) ==
    /\ IsNext(c)
    /\ ~(Spills(c) /\ RichResult(c).array)
    /\ formula' = ClearedFormula(c)
    /\ value' = [ClearedValue(c) EXCEPT ![c] = ScalarOver(ClearedValue(c), c, salt)]
    /\ region' = ClearedRegion(c)
    /\ owner' = ClearedOwner(c)
    /\ dirty' = ClearedDirty(c)
    /\ pending' = pending \ {c}
    /\ UNCHANGED <<graph, blocked, iterative, pc, staged, pass, salt, cycle, report, history>>

(* Engine::materialize_spill over a rectangle that is not free. *)
BlockSpill(c) ==
    /\ IsNext(c)
    /\ Spills(c)
    /\ LET r == RichResult(c)
       IN  r.array /\ Blockers(c, Footprint(c, r.grid)) # {}
    /\ blocked' = blocked \cup {c}
    /\ formula' = ClearedFormula(c)
    /\ value' = [ClearedValue(c) EXCEPT ![c] = SpillErr]
    /\ region' = ClearedRegion(c)
    /\ owner' = ClearedOwner(c)
    /\ dirty' = ClearedDirty(c)
    /\ pending' = pending \ {c}
    /\ UNCHANGED <<graph, iterative, pc, staged, pass, salt, cycle, report, history>>

(* Engine::materialize_spill over a free rectangle: every cell of it is     *)
(* written, the region is recorded, and what reads it is dirty again.       *)
Materialize(c) ==
    /\ IsNext(c)
    /\ Spills(c)
    /\ LET r == RichResult(c)
           rect == Footprint(c, r.grid)
       IN  /\ r.array
           /\ Blockers(c, rect) = {}
           /\ formula' = ClearedFormula(c)
           /\ value' = [d \in Cells |-> IF d \in rect THEN r.grid[Offset(c, d)]
                                                      ELSE ClearedValue(c)[d]]
           /\ region' = [region EXCEPT ![c] = rect]
           /\ owner' = [d \in Cells |-> IF d \in rect THEN c ELSE ClearedOwner(c)[d]]
           /\ dirty' = Propagate(ClearedDirty(c), rect)
    /\ blocked' = blocked \ {c}
    /\ pending' = pending \ {c}
    /\ UNCHANGED <<graph, iterative, pc, staged, pass, salt, cycle, report, history>>

(* No cell is left that waits for nothing: what remains sits on a cycle or  *)
(* downstream of one.  Without iteration the members store #REF!.           *)
CommitCycle ==
    /\ pc = "ordering"
    /\ Ready(pending) = {}
    /\ ~iterative \/ OnCycle(pending) = {}
    /\ value' = [c \in Cells |-> IF c \in OnCycle(pending) THEN RefErr ELSE value[c]]
    /\ circular' = IF pass = 1 THEN OnCycle(pending) ELSE circular
    /\ pending' = pending \ OnCycle(pending)
    /\ pc' = "after"
    /\ UNCHANGED <<formula, graph, dirty, ledger, iterative, staged, pass, salt, cycle, diverged, history>>

(* Engine::iterate_cycle: every member starts from zero, ... *)
IterateSeed ==
    /\ pc = "ordering"
    /\ Ready(pending) = {}
    /\ iterative
    /\ OnCycle(pending) # {}
    /\ value' = [c \in Cells |-> IF c \in OnCycle(pending) THEN Zero ELSE value[c]]
    /\ members' = OnCycle(pending)
    /\ todo' = OnCycle(pending)
    /\ sweep' = 1
    /\ still' = TRUE
    /\ pc' = "iterating"
    /\ UNCHANGED <<formula, graph, dirty, ledger, iterative, staged, pass, salt, pending, report, history>>

(* ... is recomputed in CellRef order, each seeing the ones before it, ... *)
IterateMember(m) ==
    /\ pc = "iterating"
    /\ IsFirst(m, todo)
    /\ LET new == ScalarOver(value, m, salt)
       IN  /\ value' = [value EXCEPT ![m] = new]
           /\ still' = (still /\ Settled(value[m], new))
    /\ todo' = todo \ {m}
    /\ UNCHANGED <<formula, graph, dirty, ledger, iterative, pc, staged, pass, salt, pending,
                   members, sweep, report, history>>

(* A slip: the sweeps are not counted against max_iter. *)
NextSweepUnbounded ==
    /\ pc = "iterating"
    /\ todo = {}
    /\ ~still
    /\ sweep' = sweep + 1
    /\ todo' = members
    /\ still' = TRUE
    /\ UNCHANGED <<model, dirty, ledger, iterative, pc, staged, pass, salt, pending, members,
                   report, history>>

(* ... and again, until no member moved or max_iter sweeps are done. *)
NextSweep ==
    /\ pc = "iterating"
    /\ todo = {}
    /\ ~still
    /\ sweep < MaxIter
    /\ sweep' = sweep + 1
    /\ todo' = members
    /\ still' = TRUE
    /\ UNCHANGED <<model, dirty, ledger, iterative, pc, staged, pass, salt, pending, members,
                   report, history>>

IterateDone ==
    /\ pc = "iterating"
    /\ todo = {}
    /\ still \/ sweep = MaxIter
    /\ diverged' = IF pass > 1 THEN diverged ELSE IF still THEN {} ELSE members
    /\ pending' = pending \ members
    /\ unsettled' = IF still THEN unsettled \ members ELSE unsettled \cup members
    /\ members' = {} /\ sweep' = 0 /\ still' = TRUE
    /\ pc' = "after"
    /\ UNCHANGED <<model, dirty, ledger, iterative, staged, pass, salt, todo, circular, entered>>

EndPass ==
    /\ pc = "after"
    /\ pending = {}
    /\ pc' = "draining"
    /\ UNCHANGED <<model, dirty, ledger, iterative, staged, pass, salt, pending, cycle, report, history>>

(* The fixpoint is reached, or the cap is: what is still dirty is dropped. *)
Finish ==
    /\ pc = "draining"
    /\ dirty = {} \/ pass = MaxPasses
    /\ dirty' = {}
    /\ pass' = 0
    /\ pc' = "idle"
    /\ UNCHANGED <<model, ledger, iterative, staged, salt, pending, cycle, report, history>>

Evaluate(c) == EvaluateScalar(c) \/ BlockSpill(c) \/ Materialize(c)

(* What happens inside one call of the engine, which runs to its end. *)
Recalculate ==
    \/ BeginRecalc
    \/ BeginPass
    \/ \E c \in Cells : Evaluate(c)
    \/ CommitCycle
    \/ IterateSeed \/ (\E m \in Cells : IterateMember(m)) \/ NextSweep \/ IterateDone
    \/ EndPass
    \/ Finish

Next ==
    \/ \E c \in Cells : \E in \in Palette(c) : StageCell(c, in)
    \/ RecalcAll
    \/ SetIterative
    \/ RebuildEngine
    \/ Recalculate

Spec == Init /\ [][Next]_vars /\ WF_vars(Recalculate)

-----------------------------------------------------------------------------
(* Properties *)

(***************************************************************************)
(* The ledger of spilled arrays is sound at every step: anchors and the    *)
(* reverse index describe the same regions, no two regions share a cell,   *)
(* a live anchor holds its formula, and an interior cell is a plain,       *)
(* non-blank value that no formula hides behind.                           *)
(* (SpillState::{insert, remove}, clear_spill_region, materialize_spill)   *)
(***************************************************************************)
LedgerSound ==
    \A a \in Cells :
        /\ region[a] # {} => a \in region[a] /\ formula[a] # NoFormula
        /\ \A c \in Cells : owner[c] = a <=> c \in region[a]
        /\ \A c \in Interior(a) : formula[c] = NoFormula /\ value[c] # Empty

(***************************************************************************)
(* What the user entered is what the workbook holds, at every step: the    *)
(* engine rewrites results, never an entry.  A spilled array covers only   *)
(* cells the user left blank, every other literal is stored as entered,    *)
(* and the graph knows exactly the formulas the model holds.               *)
(* (stage_cell, cell_is_blocker, clear_spill_region, commit_value)         *)
(***************************************************************************)
EntriesKept ==
    \A c \in Cells :
        /\ formula[c] = entered[c].formula
        /\ graph[c] = formula[c]
        /\ formula[c] = NoFormula =>
               IF c \in Interiors THEN entered[c].value = Empty
                                  ELSE value[c] = entered[c].value

(* c shows what its formula computes from the cells as they stand: one     *)
(* value, or a whole materialized array, or #SPILL! with the anchor on the *)
(* list that the next edit tries again.                                    *)
ShowsResult(c) ==
    \E s \in Salts :
        LET r == ResultOver(value, c, s)
        IN  IF ~(Spills(c) /\ r.array)
            THEN region[c] = {} /\ value[c] = r.grid[<<0, 0>>]
            ELSE \/ /\ region[c] = Footprint(c, r.grid)
                    /\ \A d \in region[c] : value[d] = r.grid[Offset(c, d)]
                 \/ region[c] = {} /\ value[c] = SpillErr /\ c \in blocked

(***************************************************************************)
(* When a call returns, no formula is stale: the incremental recalculation *)
(* of the dirty cut leaves the sheet as if every formula had just been     *)
(* computed.  A cell on a circular reference shows #REF!, or, with         *)
(* iteration on, the fixed point, unless the sweeps ran out.               *)
(* (propagate_from, reseed_volatile, topo::order, the spill re-passes)     *)
(***************************************************************************)
Fresh ==
    pc = "idle" =>
        LET loop == OnCycle(Registered)
        IN  \A c \in Cells :
                formula[c] # NoFormula =>
                    IF c \in loop
                    THEN IF iterative THEN ShowsResult(c) \/ c \in unsettled
                                      ELSE value[c] = RefErr
                    ELSE ShowsResult(c)

(***************************************************************************)
(* RecalcResult::circular names whole cycles only: every cell it lists     *)
(* sits on a cycle of the workbook, together with every cell it depends on *)
(* and feeds, so the author sees the complete loop, and a cell that merely *)
(* reads a loop is not reported.  (topo::cycle_members)                    *)
(***************************************************************************)
CircularWhole ==
    pc = "idle" =>
        \A c \in circular :
            LET loop == {d \in Feeds(Registered, c) : c \in Feeds(Registered, d)}
            IN  c \in loop /\ loop \subseteq circular

(***************************************************************************)
(* The fixpoint settles by itself: the cap on the passes never cuts it     *)
(* off, so no dirty cell is ever dropped.  (the loop of recalc_dirty)      *)
(***************************************************************************)
CapNotHit == pc = "draining" /\ pass = MaxPasses => dirty = {}

(* Every call returns, whatever the user entered: a batch that was staged  *)
(* is recalculated to the end.  (recalc_dirty, iterate_cycle)              *)
RecalcEnds == pc # "idle" ~> pc = "idle"

=============================================================================
