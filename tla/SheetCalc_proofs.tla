-------------------------- MODULE SheetCalc_proofs --------------------------
(***************************************************************************)
(* Proofs about SheetCalc, for every sheet, set of formulas, evaluator and *)
(* bound: type correctness, and, for callers that leave spilled cells      *)
(* alone, the soundness of the spill ledger and the survival of everything *)
(* the user entered.                                                       *)
(***************************************************************************)
EXTENDS SheetCalc, TLAPS

(* The walk keeps what was dirty and adds registered formulas only. *)
LEMMA PropagateBounds ==
    ASSUME NEW g, NEW D \in SUBSET Cells, NEW origins
    PROVE  /\ PropagateIn(g, D, origins) \in SUBSET Cells
           /\ D \subseteq PropagateIn(g, D, origins)
           /\ PropagateIn(g, D, origins) \subseteq D \cup {c \in Cells : g[c] # NoFormula}
<1> DEFINE walk[n \in 0 .. Cardinality(Cells)] ==
            IF n = 0 THEN DependentsIn(g, origins) \ D
                     ELSE LET last == walk[n - 1]
                          IN  last \cup (DependentsIn(g, last) \ D)
           added == walk[Cardinality(Cells)]
<1>1. PropagateIn(g, D, origins) = D \cup {c \in Cells : g[c] # NoFormula /\ c \in added}
  BY DEF PropagateIn
<1> HIDE DEF added
<1>2. QED BY <1>1

(* A formula yields shown values, a cell without one its stored value. *)
LEMMA ResultType ==
    ASSUME TypeOK, NEW v \in [Cells -> Values \cup {Empty}], NEW c \in Cells
    PROVE  LET r == ResultOver(v, c, salt)
           IN  /\ r.array \in BOOLEAN
               /\ <<0, 0>> \in DOMAIN r.grid
               /\ \A o \in DOMAIN r.grid : r.grid[o] \in Values \cup {Empty}
               /\ formula[c] # NoFormula => \A o \in DOMAIN r.grid : r.grid[o] \in Values
<1>1. CASE formula[c] = NoFormula
  BY <1>1 DEF ResultOver
<1>2. CASE formula[c] # NoFormula
  <2> DEFINE e == Eval(formula[c], v, salt)
  <2>1. formula[c] \in Formulas /\ salt \in Salts
    BY <1>2 DEF TypeOK
  <2>2. /\ e.array \in BOOLEAN
        /\ <<0, 0>> \in DOMAIN e.grid
        /\ \A o \in DOMAIN e.grid : e.grid[o] \in Values \cup {Empty}
    BY <2>1, EvalAssumption
  <2> HIDE DEF e
  <2>3. \A o \in DOMAIN e.grid : IntoShown(e.grid[o]) \in Values
    BY <2>2, ValuesAssumption DEF IntoShown
  <2>4. ResultOver(v, c, salt) =
            [array |-> e.array, grid |-> [o \in DOMAIN e.grid |-> IntoShown(e.grid[o])]]
    BY <1>2 DEF ResultOver, e
  <2>5. QED BY <2>2, <2>3, <2>4
<1>3. QED BY <1>1, <1>2

LEMMA ScalarType ==
    ASSUME TypeOK, NEW v \in [Cells -> Values \cup {Empty}], NEW c \in Cells
    PROVE  ScalarOver(v, c, salt) \in Values \cup {Empty}
BY ResultType DEF ScalarOver

(* Releasing the region of an anchor keeps the types. *)
LEMMA ClearedType ==
    ASSUME TypeOK, NEW c \in Cells
    PROVE  /\ ClearedFormula(c) \in [Cells -> Formulas \cup {NoFormula}]
           /\ ClearedValue(c) \in [Cells -> Values \cup {Empty}]
           /\ ClearedOwner(c) \in [Cells -> Cells \cup {NoOwner}]
           /\ ClearedRegion(c) \in [Cells -> SUBSET Cells]
           /\ ClearedDirty(c) \in SUBSET Cells
<1>1. ClearedFormula(c) \in [Cells -> Formulas \cup {NoFormula}]
  BY DEF TypeOK, ClearedFormula
<1>2. ClearedValue(c) \in [Cells -> Values \cup {Empty}]
  BY DEF TypeOK, ClearedValue
<1>3. ClearedOwner(c) \in [Cells -> Cells \cup {NoOwner}]
  BY DEF TypeOK, ClearedOwner
<1>4. ClearedRegion(c) \in [Cells -> SUBSET Cells]
  BY DEF TypeOK, ClearedRegion
<1>5. ClearedDirty(c) \in SUBSET Cells
  BY PropagateBounds DEF TypeOK, ClearedDirty, Propagate
<1>6. QED BY <1>1, <1>2, <1>3, <1>4, <1>5

LEMMA ReseedType ==
    ASSUME NEW D \in SUBSET Cells
    PROVE  Reseed(D) \in SUBSET Cells /\ Reseed(D) \subseteq D \cup Registered
<1> DEFINE volatile == {c \in Registered : IsVolatile(graph[c])}
<1>1. volatile \subseteq Registered /\ D \cup volatile \in SUBSET Cells
  BY DEF Registered
<1>2. Reseed(D) = PropagateIn(graph, D \cup volatile, volatile)
  BY DEF Reseed, Propagate
<1> HIDE DEF volatile
<1>3. QED BY <1>1, <1>2, PropagateBounds DEF Registered

-----------------------------------------------------------------------------
(* Type correctness *)

LEMMA TypeInit == Init => TypeOK
<1> SUFFICES ASSUME Init PROVE TypeOK
  OBVIOUS
<1>1. entered \in [Cells -> Input]
  BY PaletteAssumption DEF Init
<1>2. \A c \in Cells : entered[c].formula \in Formulas \cup {NoFormula}
                       /\ entered[c].value \in Values \cup {Empty}
  BY <1>1 DEF Input
<1>3. /\ formula \in [Cells -> Formulas \cup {NoFormula}]
      /\ value \in [Cells -> Values \cup {Empty}]
      /\ graph \in [Cells -> Formulas \cup {NoFormula}]
  BY <1>2 DEF Init
<1>4. 0 \in 0 .. MaxPasses /\ 0 \in 0 .. MaxIter /\ 0 \in 0 .. MaxBatch
  BY BoundsAssumption
<1>5. QED BY <1>1, <1>3, <1>4 DEF Init, TypeOK, Registered

LEMMA TypeStage ==
    ASSUME TypeOK, NEW c \in Cells, NEW in \in Palette(c), StageCell(c, in)
    PROVE  TypeOK'
<1>1. in \in Input /\ in.formula \in Formulas \cup {NoFormula} /\ in.value \in Values \cup {Empty}
  BY PaletteAssumption DEF Input
<1> DEFINE released == IF region[c] = {} /\ owner[c] # NoOwner
                       THEN Propagate(dirty \cup {owner[c]}, {owner[c]})
                       ELSE ClearedDirty(c)
           own == IF in.formula = NoFormula THEN {} ELSE {c}
<1>2. released \in SUBSET Cells
  <2>1. CASE region[c] = {} /\ owner[c] # NoOwner
    <3>1. dirty \cup {owner[c]} \in SUBSET Cells
      BY <2>1 DEF TypeOK
    <3>2. QED BY <2>1, <3>1, PropagateBounds DEF Propagate
  <2>2. CASE ~(region[c] = {} /\ owner[c] # NoOwner)
    BY <2>2, ClearedType
  <2>3. QED BY <2>1, <2>2
<1>3. dirty' = PropagateIn(graph', (released \ {c}) \cup own, {c})
  BY DEF StageCell
<1> HIDE DEF released
<1>4. dirty' \in SUBSET Cells
  BY <1>2, <1>3, PropagateBounds
<1>5. graph' \in [Cells -> Formulas \cup {NoFormula}]
  BY <1>1 DEF StageCell, TypeOK
<1>6. /\ formula' \in [Cells -> Formulas \cup {NoFormula}]
      /\ value' \in [Cells -> Values \cup {Empty}]
      /\ region' \in [Cells -> SUBSET Cells]
      /\ owner' \in [Cells -> Cells \cup {NoOwner}]
  BY <1>1, ClearedType DEF StageCell
<1>7. entered' \in [Cells -> Input]
  BY <1>1 DEF StageCell, TypeOK
<1>8. staged' \in 0 .. MaxBatch /\ pc' = "staging"
  BY BoundsAssumption DEF StageCell, TypeOK
<1>9. QED BY <1>4, <1>5, <1>6, <1>7, <1>8 DEF StageCell, TypeOK, cycle, report

LEMMA TypeBegin ==
    ASSUME TypeOK, BeginRecalc \/ RecalcAll \/ SetIterative
    PROVE  TypeOK'
<1>1. dirty' \in SUBSET Cells
  <2>1. CASE BeginRecalc
    <3>1. dirty \cup blocked' \in SUBSET Cells
      BY <2>1 DEF BeginRecalc, TypeOK
    <3>2. QED BY <2>1, <3>1, ReseedType DEF BeginRecalc
  <2>2. CASE RecalcAll \/ SetIterative
    BY <2>2, ReseedType DEF RecalcAll, SetIterative, Registered
  <2>3. QED BY <2>1, <2>2
<1>2. blocked' \in SUBSET Cells /\ staged' \in 0 .. MaxBatch /\ iterative' \in BOOLEAN
  <2>1. blocked' \in SUBSET Cells
    BY DEF BeginRecalc, RecalcAll, SetIterative, TypeOK, ledger
  <2>2. staged' \in 0 .. MaxBatch
    BY BoundsAssumption DEF BeginRecalc, RecalcAll, SetIterative, TypeOK
  <2>3. iterative' \in BOOLEAN
    BY ZenonT(20) DEF BeginRecalc, RecalcAll, SetIterative, TypeOK
  <2>4. QED BY <2>1, <2>2, <2>3
<1>3. circular' = {} /\ diverged' = {} /\ pc' = "draining"
  BY DEF BeginRecalc, RecalcAll, SetIterative
<1>4. UNCHANGED <<model, region, owner, pass, salt, pending, cycle, history>>
  BY DEF BeginRecalc, RecalcAll, SetIterative, ledger
<1>5. QED BY <1>1, <1>2, <1>3, <1>4 DEF TypeOK, model, cycle, history

LEMMA TypeRebuild ==
    ASSUME TypeOK, RebuildEngine
    PROVE  TypeOK'
<1>1. /\ graph' \in [Cells -> Formulas \cup {NoFormula}]
      /\ dirty' \in SUBSET Cells
      /\ region' \in [Cells -> SUBSET Cells]
      /\ owner' \in [Cells -> Cells \cup {NoOwner}]
      /\ blocked' \in SUBSET Cells
  BY DEF RebuildEngine, TypeOK
<1>2. pc' \in {"idle", "draining"} /\ circular' = {} /\ diverged' = {}
  BY DEF RebuildEngine
<1>3. UNCHANGED <<formula, value, iterative, staged, pass, salt, pending, cycle, history>>
  BY DEF RebuildEngine
<1>4. QED BY <1>1, <1>2, <1>3 DEF TypeOK, cycle, history

LEMMA TypeScalar ==
    ASSUME TypeOK, NEW c \in Cells, EvaluateScalar(c)
    PROVE  TypeOK'
<1>1. ScalarOver(ClearedValue(c), c, salt) \in Values \cup {Empty}
  BY ClearedType, ScalarType
<1>2. /\ formula' \in [Cells -> Formulas \cup {NoFormula}]
      /\ value' \in [Cells -> Values \cup {Empty}]
      /\ region' \in [Cells -> SUBSET Cells]
      /\ owner' \in [Cells -> Cells \cup {NoOwner}]
      /\ dirty' \in SUBSET Cells
  BY <1>1, ClearedType DEF EvaluateScalar
<1>3. QED BY <1>2 DEF EvaluateScalar, TypeOK, cycle, report, history

LEMMA TypeBlock ==
    ASSUME TypeOK, NEW c \in Cells, BlockSpill(c)
    PROVE  TypeOK'
<1>1. SpillErr \in Values
  BY ValuesAssumption
<1>2. /\ formula' \in [Cells -> Formulas \cup {NoFormula}]
      /\ value' \in [Cells -> Values \cup {Empty}]
      /\ region' \in [Cells -> SUBSET Cells]
      /\ owner' \in [Cells -> Cells \cup {NoOwner}]
      /\ dirty' \in SUBSET Cells
      /\ blocked' \in SUBSET Cells
  BY <1>1, ClearedType DEF BlockSpill, TypeOK
<1>3. QED BY <1>2 DEF BlockSpill, TypeOK, cycle, report, history

LEMMA TypeMaterialize ==
    ASSUME TypeOK, NEW c \in Cells, Materialize(c)
    PROVE  TypeOK'
<1> DEFINE r == RichResult(c)
           rect == Footprint(c, r.grid)
<1>1. rect \in SUBSET Cells
  BY DEF Footprint
<1>2. \A d \in rect : r.grid[Offset(c, d)] \in Values \cup {Empty}
  BY ClearedType, ResultType DEF RichResult, Footprint
<1>3. /\ formula' = ClearedFormula(c)
      /\ value' = [d \in Cells |-> IF d \in rect THEN r.grid[Offset(c, d)]
                                                 ELSE ClearedValue(c)[d]]
      /\ region' = [region EXCEPT ![c] = rect]
      /\ owner' = [d \in Cells |-> IF d \in rect THEN c ELSE ClearedOwner(c)[d]]
      /\ dirty' = PropagateIn(graph, ClearedDirty(c), rect)
  BY DEF Materialize, Propagate
<1> HIDE DEF r, rect
<1>4. /\ formula' \in [Cells -> Formulas \cup {NoFormula}]
      /\ value' \in [Cells -> Values \cup {Empty}]
      /\ owner' \in [Cells -> Cells \cup {NoOwner}]
  BY <1>2, <1>3, ClearedType
<1>5. region' \in [Cells -> SUBSET Cells]
  BY <1>1, <1>3 DEF TypeOK
<1>6. dirty' \in SUBSET Cells
  BY <1>3, ClearedType, PropagateBounds
<1>7. QED BY <1>4, <1>5, <1>6 DEF Materialize, TypeOK, cycle, report, history

LEMMA TypePass ==
    ASSUME TypeOK, BeginPass \/ CommitCycle \/ EndPass \/ Finish
    PROVE  TypeOK'
<1>1. pass' \in 0 .. MaxPasses
  BY BoundsAssumption DEF BeginPass, CommitCycle, EndPass, Finish, TypeOK
<1>2. value' \in [Cells -> Values \cup {Empty}]
  BY ValuesAssumption DEF BeginPass, CommitCycle, EndPass, Finish, TypeOK, model
<1>3. pending' \in SUBSET Cells /\ circular' \in SUBSET Cells
  BY DEF BeginPass, CommitCycle, EndPass, Finish, TypeOK, OnCycle, report
<1>4. QED BY <1>1, <1>2, <1>3
          DEF BeginPass, CommitCycle, EndPass, Finish, TypeOK, model, ledger, cycle, report, history

LEMMA TypeIterate ==
    ASSUME TypeOK, IterateSeed \/ NextSweep \/ IterateDone \/ \E m \in Cells : IterateMember(m)
    PROVE  TypeOK'
<1>1. CASE IterateSeed
  <2>1. OnCycle(pending) \in SUBSET Cells /\ 1 \in 0 .. MaxIter /\ Zero \in Values
    BY BoundsAssumption, ValuesAssumption DEF OnCycle, TypeOK
  <2>2. QED BY <1>1, <2>1 DEF IterateSeed, TypeOK, ledger, report, history
<1>2. CASE NextSweep
  <2>1. sweep' \in 0 .. MaxIter
    BY <1>2, BoundsAssumption DEF NextSweep, TypeOK
  <2>2. QED BY <1>2, <2>1 DEF NextSweep, TypeOK, model, ledger, report, history
<1>3. CASE IterateDone
  <2>1. 0 \in 0 .. MaxIter
    BY BoundsAssumption
  <2>2. QED BY <1>3, <2>1 DEF IterateDone, TypeOK, model, ledger
<1>4. CASE \E m \in Cells : IterateMember(m)
  <2> PICK m \in Cells : IterateMember(m)
    BY <1>4
  <2>1. ScalarOver(value, m, salt) \in Values \cup {Empty}
    BY ScalarType DEF TypeOK
  <2>2. value' \in [Cells -> Values \cup {Empty}]
    BY <2>1 DEF IterateMember, TypeOK
  <2>3. still' \in BOOLEAN
    BY DEF IterateMember
  <2>4. QED BY <2>2, <2>3 DEF IterateMember, TypeOK, ledger, report, history
<1>5. QED BY <1>1, <1>2, <1>3, <1>4

LEMMA TypeNext == TypeOK /\ [Next]_vars => TypeOK'
<1> SUFFICES ASSUME TypeOK, [Next]_vars PROVE TypeOK'
  OBVIOUS
<1>1. CASE \E c \in Cells : \E in \in Palette(c) : StageCell(c, in)
  BY <1>1, TypeStage
<1>2. CASE BeginRecalc \/ RecalcAll \/ SetIterative
  BY <1>2, TypeBegin
<1>3. CASE \E c \in Cells : Evaluate(c)
  BY <1>3, TypeScalar, TypeBlock, TypeMaterialize DEF Evaluate
<1>4. CASE BeginPass \/ CommitCycle \/ EndPass \/ Finish
  BY <1>4, TypePass
<1>5. CASE IterateSeed \/ NextSweep \/ IterateDone \/ \E m \in Cells : IterateMember(m)
  BY <1>5, TypeIterate
<1>6. CASE RebuildEngine
  BY <1>6, TypeRebuild
<1>7. CASE UNCHANGED vars
  BY <1>7 DEF TypeOK, vars, model, ledger, cycle, report, history
<1>8. QED BY <1>1, <1>2, <1>3, <1>4, <1>5, <1>6, <1>7 DEF Next, Recalculate

(* Every variable keeps its type, for every sheet, evaluator and bound. *)
THEOREM TypeCorrect == Spec => []TypeOK
<1>1. QED BY TypeInit, TypeNext, PTL DEF Spec

-----------------------------------------------------------------------------
(* The spill ledger and the entries *)

(***************************************************************************)
(* LedgerSound and EntriesKept are inductive together, once two facts join *)
(* them: whatever is dirty or waits in a pass is a registered formula, so  *)
(* that results are committed to formula cells only; and nothing waits     *)
(* between the passes, where the graph may change.                         *)
(***************************************************************************)
Phase ==
    /\ dirty \subseteq Registered
    /\ pending \subseteq Registered
    /\ members \subseteq Registered
    /\ todo \subseteq Registered
    /\ pc \in {"idle", "staging", "draining"} => pending = {}
    /\ pc # "iterating" => members = {} /\ todo = {}

IInv == TypeOK /\ Phase /\ LedgerSound /\ EntriesKept

(* The two properties of a workbook with formulas f, values v, regions r,  *)
(* reverse index o and entries e.                                          *)
Sound(f, v, r, o) ==
    \A a \in Cells :
        /\ r[a] # {} => a \in r[a] /\ f[a] # NoFormula
        /\ \A c \in Cells : o[c] = a <=> c \in r[a]
        /\ \A c \in r[a] \ {a} : f[c] = NoFormula /\ v[c] # Empty

Covered(r, c) == \E a \in Cells : c \in r[a] \ {a}

Kept(f, v, r, e) ==
    \A c \in Cells :
        /\ f[c] = e[c].formula
        /\ f[c] = NoFormula => IF Covered(r, c) THEN e[c].value = Empty
                                                ELSE v[c] = e[c].value

LEMMA SoundIsLedger == LedgerSound <=> Sound(formula, value, region, owner)
BY DEF LedgerSound, Sound, Interior

LEMMA KeptIsEntries ==
    EntriesKept <=> Kept(formula, value, region, entered) /\ \A c \in Cells : graph[c] = formula[c]
BY DEF EntriesKept, Kept, Interiors, Interior, Covered

(* Releasing a region breaks neither, and leaves the formulas as they were. *)
LEMMA ClearKeeps ==
    ASSUME TypeOK, NEW c \in Cells,
           Sound(formula, value, region, owner), Kept(formula, value, region, entered)
    PROVE  /\ ClearedFormula(c) = formula
           /\ Sound(formula, ClearedValue(c), ClearedRegion(c), ClearedOwner(c))
           /\ Kept(formula, ClearedValue(c), ClearedRegion(c), entered)
           /\ ClearedRegion(c)[c] = {}
<1>1. ClearedFormula(c) = formula
  BY DEF TypeOK, ClearedFormula, Interior, Sound
<1>2. \A a \in Cells : ClearedRegion(c)[a] = IF a = c THEN {} ELSE region[a]
  BY DEF TypeOK, ClearedRegion
<1>3. \A d \in Cells : ClearedOwner(c)[d] = IF d \in region[c] THEN NoOwner ELSE owner[d]
  BY DEF TypeOK, ClearedOwner, Sound
<1>4. \A d \in Cells : ClearedValue(c)[d] = IF d \in region[c] \ {c} THEN Empty ELSE value[d]
  BY DEF TypeOK, ClearedValue, Interior
<1>5. \A a \in Cells : \A d \in region[a] : d \in Cells /\ owner[d] = a
  BY DEF TypeOK, Sound
<1>6. Sound(formula, ClearedValue(c), ClearedRegion(c), ClearedOwner(c))
  <2> SUFFICES ASSUME NEW a \in Cells
               PROVE  /\ ClearedRegion(c)[a] # {} => a \in ClearedRegion(c)[a] /\ formula[a] # NoFormula
                      /\ \A d \in Cells : ClearedOwner(c)[d] = a <=> d \in ClearedRegion(c)[a]
                      /\ \A d \in ClearedRegion(c)[a] \ {a} :
                             formula[d] = NoFormula /\ ClearedValue(c)[d] # Empty
    BY DEF Sound
  <2>1. ClearedRegion(c)[a] # {} => a \in ClearedRegion(c)[a] /\ formula[a] # NoFormula
    BY <1>2 DEF Sound
  <2>2. \A d \in Cells : ClearedOwner(c)[d] = a <=> d \in ClearedRegion(c)[a]
    BY <1>2, <1>3, <1>5, ValuesAssumption DEF Sound
  <2>3. \A d \in ClearedRegion(c)[a] \ {a} : formula[d] = NoFormula /\ ClearedValue(c)[d] # Empty
    BY <1>2, <1>4, <1>5 DEF Sound
  <2>4. QED BY <2>1, <2>2, <2>3
<1>7. Kept(formula, ClearedValue(c), ClearedRegion(c), entered)
  <2> SUFFICES ASSUME NEW d \in Cells, formula[d] = NoFormula
               PROVE  IF Covered(ClearedRegion(c), d) THEN entered[d].value = Empty
                                                     ELSE ClearedValue(c)[d] = entered[d].value
    BY DEF Kept
  <2>1. CASE d \in region[c] \ {c}
    <3>1. entered[d].value = Empty
      BY <2>1 DEF Kept, Covered
    <3>2. QED BY <2>1, <3>1, <1>4
  <2>2. CASE d \notin region[c] \ {c}
    <3>1. Covered(ClearedRegion(c), d) <=> Covered(region, d)
      BY <2>2, <1>2 DEF Covered
    <3>2. QED BY <2>2, <3>1, <1>4 DEF Kept
  <2>3. QED BY <2>1, <2>2
<1>8. QED BY <1>1, <1>2, <1>6, <1>7

(* Results committed to formula cells disturb neither. *)
LEMMA CommitKeeps ==
    ASSUME NEW f, NEW v, NEW w, NEW r \in [Cells -> SUBSET Cells], NEW o, NEW e,
           \A c \in Cells : f[c] = NoFormula => w[c] = v[c],
           Sound(f, v, r, o), Kept(f, v, r, e)
    PROVE  Sound(f, w, r, o) /\ Kept(f, w, r, e)
<1>1. Sound(f, w, r, o)
  BY DEF Sound
<1>2. Kept(f, w, r, e)
  BY DEF Kept
<1>3. QED BY <1>1, <1>2

(* Writing an array over a free rectangle records one more region and       *)
(* covers only cells that the user left blank.                              *)
LEMMA MaterializeKeeps ==
    ASSUME NEW f, NEW v \in [Cells -> Values \cup {Empty}], NEW r \in [Cells -> SUBSET Cells],
           NEW o \in [Cells -> Cells \cup {NoOwner}], NEW e,
           Sound(f, v, r, o), Kept(f, v, r, e),
           NEW c \in Cells, f[c] # NoFormula, r[c] = {}, ~Covered(r, c),
           NEW rect \in SUBSET Cells, c \in rect,
           \A d \in rect \ {c} : f[d] = NoFormula /\ v[d] = Empty,
           NEW w \in [Cells -> Values \cup {Empty}],
           \A d \in Cells : d \in rect => w[d] \in Values,
           \A d \in Cells : d \notin rect => w[d] = v[d],
           NEW r2, \A a \in Cells : r2[a] = IF a = c THEN rect ELSE r[a],
           NEW o2, \A d \in Cells : o2[d] = IF d \in rect THEN c ELSE o[d]
    PROVE  Sound(f, w, r2, o2) /\ Kept(f, w, r2, e)
<1>1. \A a \in Cells : r2[a] = IF a = c THEN rect ELSE r[a]
  OBVIOUS
<1>2. \A d \in Cells : o2[d] = IF d \in rect THEN c ELSE o[d]
  OBVIOUS
<1>3. \A a \in Cells : r[a] \cap rect = {}
  <2> SUFFICES ASSUME NEW a \in Cells, NEW d \in rect, d \in r[a] PROVE FALSE
    OBVIOUS
  <2>1. a # c
    OBVIOUS
  <2>2. CASE d = a
    <3>1. f[a] # NoFormula
      BY DEF Sound
    <3>2. QED BY <3>1, <2>1, <2>2
  <2>3. CASE d # a
    <3>1. CASE d = c
      BY <3>1, <2>3 DEF Covered
    <3>2. CASE d # c
      BY <3>2, <2>3 DEF Sound
    <3>3. QED BY <3>1, <3>2
  <2>4. QED BY <2>2, <2>3
<1>4. Sound(f, w, r2, o2)
  <2> SUFFICES ASSUME NEW a \in Cells
               PROVE  /\ r2[a] # {} => a \in r2[a] /\ f[a] # NoFormula
                      /\ \A d \in Cells : o2[d] = a <=> d \in r2[a]
                      /\ \A d \in r2[a] \ {a} : f[d] = NoFormula /\ w[d] # Empty
    BY DEF Sound
  <2>1. CASE a = c
    <3>1. \A d \in Cells : o[d] # c
      BY DEF Sound
    <3>2. QED BY <1>1, <1>2, <2>1, <3>1, ValuesAssumption
  <2>2. CASE a # c
    <3>1. \A d \in r[a] : w[d] = v[d]
      BY <1>3
    <3>2. QED BY <1>1, <1>2, <1>3, <2>2, <3>1 DEF Sound
  <2>3. QED BY <2>1, <2>2
<1>5. Kept(f, w, r2, e)
  <2> SUFFICES ASSUME NEW d \in Cells
               PROVE  /\ f[d] = e[d].formula
                      /\ f[d] = NoFormula => IF Covered(r2, d) THEN e[d].value = Empty
                                                               ELSE w[d] = e[d].value
    BY DEF Kept
  <2>1. f[d] = e[d].formula
    BY DEF Kept
  <2>2. CASE d \in rect \ {c}
    <3>1. ~Covered(r, d)
      BY <1>3, <2>2 DEF Covered
    <3>2. e[d].value = Empty
      BY <2>2, <3>1 DEF Kept
    <3>3. Covered(r2, d)
      BY <1>1, <2>2 DEF Covered
    <3>4. QED BY <2>1, <3>2, <3>3
  <2>3. CASE d = c
    BY <2>1, <2>3
  <2>4. CASE d \notin rect
    <3>1. Covered(r2, d) <=> Covered(r, d)
      BY <1>1, <2>4 DEF Covered
    <3>2. QED BY <2>1, <2>4, <3>1 DEF Kept
  <2>5. QED BY <2>2, <2>3, <2>4
<1>6. QED BY <1>4, <1>5

(* A new entry in a cell outside every region disturbs neither. *)
LEMMA StageKeeps ==
    ASSUME NEW f \in [Cells -> Formulas \cup {NoFormula}],
           NEW v \in [Cells -> Values \cup {Empty}], NEW r \in [Cells -> SUBSET Cells],
           NEW o, NEW e \in [Cells -> Input],
           Sound(f, v, r, o), Kept(f, v, r, e),
           NEW c \in Cells, r[c] = {}, \A a \in Cells : c \notin r[a],
           NEW in \in Input
    PROVE  /\ Sound([f EXCEPT ![c] = in.formula], [v EXCEPT ![c] = in.value], r, o)
           /\ Kept([f EXCEPT ![c] = in.formula], [v EXCEPT ![c] = in.value], r,
                   [e EXCEPT ![c] = in])
<1> DEFINE f2 == [f EXCEPT ![c] = in.formula]
           v2 == [v EXCEPT ![c] = in.value]
           e2 == [e EXCEPT ![c] = in]
<1>1. f2[c] = in.formula /\ v2[c] = in.value /\ e2[c] = in
  OBVIOUS
<1>2. \A d \in Cells \ {c} : f2[d] = f[d] /\ v2[d] = v[d] /\ e2[d] = e[d]
  OBVIOUS
<1> HIDE DEF f2, v2, e2
<1>3. Sound(f2, v2, r, o)
  <2> SUFFICES ASSUME NEW a \in Cells
               PROVE  /\ r[a] # {} => a \in r[a] /\ f2[a] # NoFormula
                      /\ \A d \in Cells : o[d] = a <=> d \in r[a]
                      /\ \A d \in r[a] \ {a} : f2[d] = NoFormula /\ v2[d] # Empty
    BY DEF Sound
  <2>1. r[a] # {} => a \in r[a] /\ f2[a] # NoFormula
    BY <1>2 DEF Sound
  <2>2. \A d \in Cells : o[d] = a <=> d \in r[a]
    BY DEF Sound
  <2>3. \A d \in r[a] \ {a} : f2[d] = NoFormula /\ v2[d] # Empty
    BY <1>2 DEF Sound
  <2>4. QED BY <2>1, <2>2, <2>3
<1>4. Kept(f2, v2, r, e2)
  <2>1. ~Covered(r, c)
    BY DEF Covered
  <2>2. QED BY <1>1, <1>2, <2>1 DEF Kept
<1>5. QED BY <1>3, <1>4 DEF f2, v2, e2

-----------------------------------------------------------------------------
(* The inductive steps, one per action *)

LEMMA InvInit == Init => IInv
<1> SUFFICES ASSUME Init PROVE IInv
  OBVIOUS
<1>1. TypeOK
  BY TypeInit
<1>2. Phase
  BY DEF Init, Phase
<1>3. LedgerSound
  BY ValuesAssumption DEF Init, LedgerSound, Interior
<1>4. EntriesKept
  BY DEF Init, EntriesKept, Interiors, Interior
<1>5. QED BY <1>1, <1>2, <1>3, <1>4 DEF IInv

LEMMA InvStage ==
    ASSUME ~InteriorWrites, IInv, NEW c \in Cells, NEW in \in Palette(c), StageCell(c, in)
    PROVE  Phase' /\ LedgerSound' /\ EntriesKept'
<1>1. TypeOK /\ Sound(formula, value, region, owner) /\ Kept(formula, value, region, entered)
      /\ graph = formula
  BY SoundIsLedger, KeptIsEntries DEF IInv, TypeOK
<1>2. /\ ClearedFormula(c) = formula
      /\ Sound(formula, ClearedValue(c), ClearedRegion(c), ClearedOwner(c))
      /\ Kept(formula, ClearedValue(c), ClearedRegion(c), entered)
      /\ ClearedRegion(c)[c] = {}
  BY <1>1, ClearKeeps
<1>3. in \in Input /\ in.formula \in Formulas \cup {NoFormula}
  BY PaletteAssumption DEF Input
<1>4. ClearedOwner(c)[c] = NoOwner
  BY <1>1, ValuesAssumption DEF StageCell, ClearedOwner, Sound
<1>5. \A a \in Cells : c \notin ClearedRegion(c)[a]
  BY <1>2, <1>4, ValuesAssumption DEF Sound
<1>6. /\ formula' = [formula EXCEPT ![c] = in.formula]
      /\ value' = [ClearedValue(c) EXCEPT ![c] = in.value]
      /\ region' = ClearedRegion(c)
      /\ owner' = ClearedOwner(c)
      /\ entered' = [entered EXCEPT ![c] = in]
      /\ graph' = [graph EXCEPT ![c] = in.formula]
  BY <1>2 DEF StageCell
<1>7. Sound(formula', value', region', owner') /\ Kept(formula', value', region', entered')
  <2>1. formula \in [Cells -> Formulas \cup {NoFormula}] /\ entered \in [Cells -> Input]
    BY <1>1 DEF TypeOK
  <2>2. QED BY <1>1, <1>2, <1>3, <1>5, <1>6, <2>1, ClearedType, StageKeeps
<1>8. graph' = formula'
  BY <1>1, <1>6
<1>9. Phase'
  <2> DEFINE own == IF in.formula = NoFormula THEN {} ELSE {c}
  <2>1. ~(region[c] = {} /\ owner[c] # NoOwner)
    BY <1>1, ValuesAssumption DEF StageCell, Sound
  <2>2. dirty' = PropagateIn(graph', (ClearedDirty(c) \ {c}) \cup own, {c})
    BY <2>1 DEF StageCell
  <2>3. ClearedDirty(c) \in SUBSET Registered
    BY <1>1, PropagateBounds DEF ClearedDirty, Propagate, IInv, Phase, Registered
  <2>4. (ClearedDirty(c) \ {c}) \cup own \subseteq Registered'
    BY <1>1, <1>3, <1>6, <2>3 DEF Registered, TypeOK
  <2>5. dirty' \subseteq Registered'
    BY <2>2, <2>4, PropagateBounds DEF Registered
  <2>6. pending = {} /\ members = {} /\ todo = {}
    BY DEF IInv, Phase, StageCell
  <2>7. QED BY <2>5, <2>6 DEF Phase, StageCell, cycle
<1>10. QED BY <1>7, <1>8, <1>9 DEF LedgerSound, EntriesKept, Sound, Kept, Covered, Interior, Interiors

LEMMA InvBegin ==
    ASSUME IInv, BeginRecalc \/ RecalcAll \/ SetIterative
    PROVE  Phase' /\ LedgerSound' /\ EntriesKept'
<1>1. UNCHANGED <<model, region, owner, pending, cycle, history>> /\ pc' = "draining"
  BY DEF BeginRecalc, RecalcAll, SetIterative, ledger
<1>2. dirty' \subseteq Registered
  <2>1. CASE BeginRecalc
    <3>1. dirty \cup blocked' \in SUBSET Cells /\ dirty \cup blocked' \subseteq Registered
      BY <2>1 DEF BeginRecalc, IInv, Phase, Registered
    <3>2. QED BY <2>1, <3>1, ReseedType DEF BeginRecalc
  <2>2. CASE RecalcAll \/ SetIterative
    BY <2>2, ReseedType DEF RecalcAll, SetIterative, Registered
  <2>3. QED BY <2>1, <2>2
<1>3. pc \in {"idle", "staging"}
  BY DEF BeginRecalc, RecalcAll, SetIterative
<1>4. Phase'
  BY <1>1, <1>2, <1>3 DEF IInv, Phase, Registered, model, cycle
<1>5. LedgerSound' /\ EntriesKept'
  BY <1>1 DEF IInv, LedgerSound, EntriesKept, Interior, Interiors, model, history
<1>6. QED BY <1>4, <1>5

(* What an evaluation of c may count on. *)
LEMMA NextCell ==
    ASSUME IInv, NEW c \in Cells, IsNext(c)
    PROVE  /\ formula[c] # NoFormula /\ graph = formula
           /\ ClearedFormula(c) = formula
           /\ Sound(formula, ClearedValue(c), ClearedRegion(c), ClearedOwner(c))
           /\ Kept(formula, ClearedValue(c), ClearedRegion(c), entered)
           /\ ClearedRegion(c)[c] = {}
           /\ ClearedDirty(c) \in SUBSET Registered
<1>1. TypeOK /\ Sound(formula, value, region, owner) /\ Kept(formula, value, region, entered)
      /\ graph = formula
  BY SoundIsLedger, KeptIsEntries DEF IInv, TypeOK
<1>2. formula[c] # NoFormula
  BY <1>1 DEF IInv, Phase, IsNext, IsFirst, Ready, Registered
<1>3. ClearedDirty(c) \in SUBSET Registered
  BY <1>1, PropagateBounds DEF ClearedDirty, Propagate, IInv, Phase, Registered
<1>4. QED BY <1>1, <1>2, <1>3, ClearKeeps

(* Fold the two properties of the next state back. *)
LEMMA Fold ==
    ASSUME Sound(formula', value', region', owner'), Kept(formula', value', region', entered'),
           graph' = formula'
    PROVE  LedgerSound' /\ EntriesKept'
BY DEF LedgerSound, EntriesKept, Sound, Kept, Covered, Interior, Interiors

LEMMA InvScalar ==
    ASSUME IInv, NEW c \in Cells, EvaluateScalar(c) \/ BlockSpill(c)
    PROVE  Phase' /\ LedgerSound' /\ EntriesKept'
<1>1. IsNext(c)
  BY DEF EvaluateScalar, BlockSpill
<1>2. PICK x : /\ formula' = ClearedFormula(c)
               /\ value' = [ClearedValue(c) EXCEPT ![c] = x]
               /\ region' = ClearedRegion(c)
               /\ owner' = ClearedOwner(c)
               /\ dirty' = ClearedDirty(c)
               /\ pending' = pending \ {c}
               /\ UNCHANGED <<graph, pc, cycle, history>>
  BY DEF EvaluateScalar, BlockSpill
<1>3. \A d \in Cells : formula[d] = NoFormula => value'[d] = ClearedValue(c)[d]
  BY <1>1, <1>2, NextCell, ClearedType DEF IInv
<1>4. Sound(formula', value', region', owner') /\ Kept(formula', value', region', entered')
  <2>1. ClearedRegion(c) \in [Cells -> SUBSET Cells]
    BY ClearedType DEF IInv
  <2>2. entered' = entered
    BY <1>2 DEF history
  <2>3. /\ Sound(formula, ClearedValue(c), ClearedRegion(c), ClearedOwner(c))
        /\ Kept(formula, ClearedValue(c), ClearedRegion(c), entered)
    BY <1>1, NextCell
  <2>4. /\ Sound(formula, value', ClearedRegion(c), ClearedOwner(c))
        /\ Kept(formula, value', ClearedRegion(c), entered)
    BY <1>3, <2>1, <2>3, CommitKeeps
  <2>5. formula' = formula
    BY <1>1, <1>2, NextCell
  <2>6. QED BY <1>2, <2>2, <2>4, <2>5
<1>5. graph' = formula'
  BY <1>1, <1>2, NextCell
<1>6. Phase'
  BY <1>1, <1>2, NextCell DEF IInv, Phase, Registered, IsNext, cycle
<1>7. QED BY <1>4, <1>5, <1>6, Fold

LEMMA InvMaterialize ==
    ASSUME IInv, NEW c \in Cells, Materialize(c)
    PROVE  Phase' /\ LedgerSound' /\ EntriesKept'
<1> DEFINE r == RichResult(c)
           rect == Footprint(c, r.grid)
<1>1. IsNext(c) /\ TypeOK
  BY DEF Materialize, IInv
<1>2. /\ formula[c] # NoFormula /\ graph = formula
      /\ ClearedFormula(c) = formula
      /\ Sound(formula, ClearedValue(c), ClearedRegion(c), ClearedOwner(c))
      /\ Kept(formula, ClearedValue(c), ClearedRegion(c), entered)
      /\ ClearedRegion(c)[c] = {}
      /\ ClearedDirty(c) \in SUBSET Registered
  BY <1>1, NextCell
<1>3. c \in rect /\ rect \in SUBSET Cells
  <2>1. <<0, 0>> \in DOMAIN r.grid
    BY <1>1, ClearedType, ResultType DEF RichResult
  <2>2. c \in Int \X Int
    BY CellsAssumption
  <2>3. Offset(c, c) = <<0, 0>>
    BY <2>2 DEF Offset
  <2>4. QED BY <2>1, <2>3 DEF Footprint
<1>4. \A d \in rect : r.grid[Offset(c, d)] \in Values
  BY <1>1, <1>2, ClearedType, ResultType DEF RichResult, Footprint
<1>5. /\ formula' = formula
      /\ value' = [d \in Cells |-> IF d \in rect THEN r.grid[Offset(c, d)]
                                                 ELSE ClearedValue(c)[d]]
      /\ region' = [region EXCEPT ![c] = rect]
      /\ owner' = [d \in Cells |-> IF d \in rect THEN c ELSE ClearedOwner(c)[d]]
      /\ dirty' = PropagateIn(graph, ClearedDirty(c), rect)
      /\ Blockers(c, rect) = {}
      /\ pending' = pending \ {c}
      /\ UNCHANGED <<graph, pc, cycle, history>>
  BY <1>2 DEF Materialize, Propagate
<1> HIDE DEF r, rect
<1>6. \A d \in rect \ {c} : formula[d] = NoFormula /\ ClearedValue(c)[d] = Empty
  <2> SUFFICES ASSUME NEW d \in rect \ {c}
               PROVE  formula[d] = NoFormula /\ ClearedValue(c)[d] = Empty
    OBVIOUS
  <2>1. ClearedOwner(c)[d] # c
    BY <1>2, <1>3 DEF Sound
  <2>2. QED BY <1>2, <1>5, <2>1 DEF Blockers
<1>7. ~Covered(ClearedRegion(c), c)
  BY <1>2 DEF Sound, Covered
<1>8. region' = [ClearedRegion(c) EXCEPT ![c] = rect]
  BY <1>5 DEF ClearedRegion
<1>9. Sound(formula', value', region', owner') /\ Kept(formula', value', region', entered')
  <2>1. value' \in [Cells -> Values \cup {Empty}]
    BY <1>1, TypeMaterialize DEF TypeOK
  <2>2. /\ \A d \in Cells : d \in rect => value'[d] \in Values
        /\ \A d \in Cells : d \notin rect => value'[d] = ClearedValue(c)[d]
    BY <1>4, <1>5
  <2>3. entered' = entered
    BY <1>5 DEF history
  <2>4. /\ ClearedValue(c) \in [Cells -> Values \cup {Empty}]
        /\ ClearedOwner(c) \in [Cells -> Cells \cup {NoOwner}]
        /\ ClearedRegion(c) \in [Cells -> SUBSET Cells]
    BY <1>1, ClearedType
  <2>5. \A a \in Cells : region'[a] = IF a = c THEN rect ELSE ClearedRegion(c)[a]
    BY <1>8, <2>4
  <2>6. \A d \in Cells : owner'[d] = IF d \in rect THEN c ELSE ClearedOwner(c)[d]
    BY <1>5
  <2>7. Sound(formula, value', region', owner') /\ Kept(formula, value', region', entered)
    BY <1>2, <1>3, <1>6, <1>7, <2>1, <2>2, <2>4, <2>5, <2>6, MaterializeKeeps
  <2>8. QED BY <1>5, <2>3, <2>7
<1>10. Phase'
  <2>1. dirty' \subseteq Registered
    BY <1>2, <1>5, PropagateBounds DEF Registered
  <2>2. QED BY <1>1, <1>5, <2>1 DEF IInv, Phase, Registered, IsNext, cycle
<1>11. QED BY <1>2, <1>5, <1>9, <1>10, Fold

LEMMA InvPass ==
    ASSUME IInv, BeginPass \/ CommitCycle \/ EndPass \/ Finish
    PROVE  Phase' /\ LedgerSound' /\ EntriesKept'
<1>1. UNCHANGED <<formula, graph, region, owner, history>>
  BY DEF BeginPass, CommitCycle, EndPass, Finish, model, ledger
<1>2. \A d \in Cells : formula[d] = NoFormula => value'[d] = value[d]
  <2>1. CASE CommitCycle
    BY <2>1 DEF CommitCycle, OnCycle, IInv, Phase, Registered, EntriesKept, TypeOK
  <2>2. CASE BeginPass \/ EndPass \/ Finish
    BY <2>2 DEF BeginPass, EndPass, Finish, model
  <2>3. QED BY <2>1, <2>2
<1>3. /\ Sound(formula, value', region, owner) /\ Kept(formula, value', region, entered)
      /\ graph = formula
  <2>1. Sound(formula, value, region, owner) /\ Kept(formula, value, region, entered)
        /\ graph = formula /\ region \in [Cells -> SUBSET Cells]
    BY SoundIsLedger, KeptIsEntries DEF IInv, TypeOK
  <2>2. QED BY <1>2, <2>1, CommitKeeps
<1>4. LedgerSound' /\ EntriesKept'
  BY <1>1, <1>3, Fold DEF history
<1>5. Phase'
  <2>1. CASE BeginPass
    BY <2>1, <1>1 DEF BeginPass, IInv, Phase, Registered, cycle
  <2>2. CASE CommitCycle
    BY <2>2, <1>1 DEF CommitCycle, IInv, Phase, Registered, cycle
  <2>3. CASE EndPass
    BY <2>3, <1>1 DEF EndPass, IInv, Phase, Registered, cycle
  <2>4. CASE Finish
    BY <2>4, <1>1 DEF Finish, IInv, Phase, Registered, cycle
  <2>5. QED BY <2>1, <2>2, <2>3, <2>4
<1>6. QED BY <1>4, <1>5

LEMMA InvIterate ==
    ASSUME IInv, IterateSeed \/ NextSweep \/ IterateDone \/ \E m \in Cells : IterateMember(m)
    PROVE  Phase' /\ LedgerSound' /\ EntriesKept'
<1>1. UNCHANGED <<formula, graph, region, owner, entered>>
  BY DEF IterateSeed, NextSweep, IterateDone, IterateMember, model, ledger, history
<1>2. \A d \in Cells : formula[d] = NoFormula => value'[d] = value[d]
  <2>1. CASE IterateSeed
    BY <2>1 DEF IterateSeed, OnCycle, IInv, Phase, Registered, EntriesKept, TypeOK
  <2>2. CASE NextSweep \/ IterateDone
    BY <2>2 DEF NextSweep, IterateDone, model
  <2>3. CASE \E m \in Cells : IterateMember(m)
    BY <2>3 DEF IterateMember, IsFirst, IInv, Phase, Registered, EntriesKept, TypeOK
  <2>4. QED BY <2>1, <2>2, <2>3
<1>3. /\ Sound(formula, value', region, owner) /\ Kept(formula, value', region, entered)
      /\ graph = formula
  <2>1. Sound(formula, value, region, owner) /\ Kept(formula, value, region, entered)
        /\ graph = formula /\ region \in [Cells -> SUBSET Cells]
    BY SoundIsLedger, KeptIsEntries DEF IInv, TypeOK
  <2>2. QED BY <1>2, <2>1, CommitKeeps
<1>4. LedgerSound' /\ EntriesKept'
  BY <1>1, <1>3, Fold
<1>5. Phase'
  <2>1. CASE IterateSeed
    BY <2>1, <1>1 DEF IterateSeed, IInv, Phase, Registered, OnCycle
  <2>2. CASE NextSweep
    BY <2>2, <1>1 DEF NextSweep, IInv, Phase, Registered
  <2>3. CASE IterateDone
    BY <2>3, <1>1 DEF IterateDone, IInv, Phase, Registered
  <2>4. CASE \E m \in Cells : IterateMember(m)
    BY <2>4, <1>1 DEF IterateMember, IInv, Phase, Registered
  <2>5. QED BY <2>1, <2>2, <2>3, <2>4
<1>6. QED BY <1>4, <1>5

LEMMA InvNext == ~InteriorWrites /\ ~Rebuilds /\ IInv /\ [Next]_vars => IInv'
<1> SUFFICES ASSUME ~InteriorWrites, ~Rebuilds, IInv, [Next]_vars PROVE IInv'
  OBVIOUS
<1>1. TypeOK'
  BY TypeNext DEF IInv
<1>2. Phase' /\ LedgerSound' /\ EntriesKept'
  <2>1. CASE \E c \in Cells : \E in \in Palette(c) : StageCell(c, in)
    BY <2>1, InvStage
  <2>2. CASE BeginRecalc \/ RecalcAll \/ SetIterative
    BY <2>2, InvBegin
  <2>3. CASE \E c \in Cells : Evaluate(c)
    BY <2>3, InvScalar, InvMaterialize DEF Evaluate
  <2>4. CASE BeginPass \/ CommitCycle \/ EndPass \/ Finish
    BY <2>4, InvPass
  <2>5. CASE IterateSeed \/ NextSweep \/ IterateDone \/ \E m \in Cells : IterateMember(m)
    BY <2>5, InvIterate
  <2>6. CASE UNCHANGED vars
    <3>1. UNCHANGED <<formula, value, graph, dirty, region, owner, pc, pending, members, todo, entered>>
      BY <2>6 DEF vars, model, ledger, cycle, history
    <3>2. QED BY <3>1 DEF IInv, Phase, LedgerSound, EntriesKept, Interior, Interiors, Registered
  <2>7. QED BY <2>1, <2>2, <2>3, <2>4, <2>5, <2>6 DEF Next, Recalculate, RebuildEngine
<1>3. QED BY <1>1, <1>2 DEF IInv

(***************************************************************************)
(* While callers leave spilled cells alone, as sort and replace-all do,    *)
(* and the engine is not rebuilt, the ledger of spilled arrays is sound at *)
(* every step of every edit, whatever the formulas compute: no two arrays  *)
(* ever share a cell.                                                      *)
(***************************************************************************)
THEOREM LedgerCorrect == ~InteriorWrites /\ ~Rebuilds => (Spec => []LedgerSound)
<1> SUFFICES ASSUME ~InteriorWrites, ~Rebuilds PROVE Spec => []LedgerSound
  OBVIOUS
<1>1. IInv /\ [Next]_vars => IInv'
  BY InvNext
<1>2. IInv => LedgerSound
  BY DEF IInv
<1>3. QED BY InvInit, <1>1, <1>2, PTL DEF Spec

(***************************************************************************)
(* Under the same guards no recalculation loses or rewrites an entry: the   *)
(* workbook holds, at every step, the formula or the literal that the user *)
(* entered last, and spilled values lie on cells the user left blank.      *)
(***************************************************************************)
THEOREM EntriesCorrect == ~InteriorWrites /\ ~Rebuilds => (Spec => []EntriesKept)
<1> SUFFICES ASSUME ~InteriorWrites, ~Rebuilds PROVE Spec => []EntriesKept
  OBVIOUS
<1>1. IInv /\ [Next]_vars => IInv'
  BY InvNext
<1>2. IInv => EntriesKept
  BY DEF IInv
<1>3. QED BY InvInit, <1>1, <1>2, PTL DEF Spec

=============================================================================
