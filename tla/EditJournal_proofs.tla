------------------------ MODULE EditJournal_proofs -------------------------
(***************************************************************************)
(* For any cells, inputs and tables and any length of the session: the     *)
(* cursor of the undo journal never rests inside a batch, and the stamps   *)
(* the follower compares grow along the journal from batch to batch and    *)
(* never exceed the version of the workbook; the journal is an undo        *)
(* history of whole workbooks (UndoHistory); and the page comes to show    *)
(* the workbook, when the document was not undone for all tables at once,  *)
(* and when it was undone in peace for one table with cells to show.       *)
(*                                                                         *)
(* Neither of the first two is inductive alone.  The follower unwinds to   *)
(* the last entry a version has seen, which is between two batches only    *)
(* because the stamps differ there and nowhere else (Stamped); a new batch *)
(* is apart from the entry before it only because no entry holds a later   *)
(* number (BatchesCounted); and a version the follower hears must be a     *)
(* number of the past, wherever the document kept it (TypeOK).  That a     *)
(* step leads to the workbook left at its goal rests on what each entry    *)
(* holds of the cell around it (Consistent).  That the page follows rests  *)
(* on where in the journal each version lies (IsPlace): every page the     *)
(* document can come back to shows the workbook at the place of its        *)
(* version (PrintsTrue), and the follower goes to exactly that place.      *)
(***************************************************************************)
EXTENDS EditJournal, SequenceTheorems, FiniteSetTheorems, WellFoundedInduction, TLAPS

USE InputsAssumption, RangesAssumption, LimitsAssumption

(* No entry carries a batch number that was not handed out. *)
BatchesCounted == \A i \in 1 .. Len(journal) : journal[i].batch <= batches

JInv == JournalOK /\ BatchesCounted /\ Stamped /\ BatchesWhole
IInv == TypeOK /\ JInv

-----------------------------------------------------------------------------
(* Least and greatest numbers                                              *)

Less == {p \in Nat \X Nat : p[1] < p[2]}

LEMMA LessWellFounded == IsWellFoundedOn(Less, Nat)
  <1>1. Less = OpToRel(<, Nat)  BY Zenon DEF Less, OpToRel
  <1> QED  BY <1>1, NatLessThanWellFounded, Zenon

LEMMA LeastNatural ==
    ASSUME NEW S \in SUBSET Nat, S # {}
    PROVE  \E n \in S : \A m \in S : n <= m
  <1>1. PICK x \in S : \A y \in S : ~(<<y, x>> \in Less)
    BY LessWellFounded, WFMin, Zenon
  <1>2. \A y \in S : ~(y < x)  BY <1>1 DEF Less
  <1> QED  BY <1>2

LEMMA GreatestNatural ==
    ASSUME NEW S \in SUBSET Nat, S # {}, NEW bound \in Nat, \A i \in S : i <= bound
    PROVE  \E n \in S : \A i \in S : i <= n
  <1> DEFINE Above == {n \in Nat : \A i \in S : i <= n}
  <1>1. Above \in SUBSET Nat /\ Above # {}  OBVIOUS
  <1>2. PICK top \in Above : \A n \in Above : top <= n  BY <1>1, LeastNatural
  <1>3. ASSUME top \notin S PROVE FALSE
    <2>1. \A i \in S : i < top  BY <1>2, <1>3
    <2>2. top > 0
      <3>1. PICK i \in S : TRUE  OBVIOUS
      <3> QED  BY <3>1, <2>1, <1>2
    <2>3. top - 1 \in Above  BY <2>1, <2>2, <1>2
    <2> QED  BY <2>3, <1>2
  <1> QED  BY <1>2, <1>3

LEMMA MinIsLeast ==
    ASSUME NEW S \in SUBSET Nat, S # {}
    PROVE  Min(S) \in S /\ \A m \in S : Min(S) <= m
  BY LeastNatural DEF Min

LEMMA MaxIsGreatest ==
    ASSUME NEW S \in SUBSET Nat, S # {}, NEW bound \in Nat, \A i \in S : i <= bound
    PROVE  Max(S) \in S /\ \A m \in S : Max(S) >= m
  <1>1. \E n \in S : \A i \in S : n >= i  BY GreatestNatural
  <1> QED  BY <1>1 DEF Max

-----------------------------------------------------------------------------
(* Writing the journal                                                     *)

(* The numbers the invariant is about.                                     *)
LEMMA JournalNumbers ==
    ASSUME JournalOK
    PROVE  /\ Len(journal) \in Nat /\ cursor \in Nat /\ cursor <= Len(journal)
           /\ revision \in Nat /\ batches \in Nat
           /\ \A i \in 1 .. Len(journal) :
                journal[i] \in Entries /\ journal[i].batch \in Nat /\ journal[i].rev \in Nat
  <1>1. journal \in Seq(Entries) /\ cursor \in 0 .. Len(journal)  BY DEF JournalOK
  <1>2. ASSUME NEW i \in 1 .. Len(journal) PROVE journal[i] \in Entries
    BY <1>1, ElementOfSeq
  <1>3. ASSUME NEW e \in Entries PROVE e.batch \in Nat /\ e.rev \in Nat  BY DEF Entries
  <1> QED  BY <1>1, <1>2, <1>3 DEF JournalOK

(* What Record leaves in the journal.                                      *)
LEMMA RecordShape ==
    ASSUME JournalOK, NEW W \in SUBSET Cells, NEW new \in [W -> Inputs], NEW batch \in Nat,
           Record(new, batch)
    PROVE  /\ cells' \in Texts /\ journal' \in Seq(Entries)
           /\ Cardinality(W) \in Nat /\ Len(journal') = cursor + Cardinality(W)
           /\ cursor' = Len(journal')
           /\ \A i \in 1 .. cursor : journal'[i] = journal[i]
           /\ \A i \in cursor + 1 .. Len(journal') :
                journal'[i].batch = batch /\ journal'[i].rev = revision + 1
           /\ \E at \in Orders(W) : \A i \in 1 .. Cardinality(W) :
                journal'[cursor + i] = Entry(at[i], new[at[i]], batch, revision + 1)
  <1>0. cursor \in Nat /\ cursor <= Len(journal) /\ revision \in Nat /\ Len(journal) \in Nat
    BY DEF JournalOK
  <1>1. Cardinality(W) \in Nat
    <2>1. IsFiniteSet(Cells)  BY FS_Interval DEF Cells
    <2> QED  BY <2>1, FS_Subset, FS_CardinalityType
  <1>2. PICK at \in Orders(W) : journal' = SubSeq(journal, 1, cursor) \o Written(at, new, batch)
    BY DEF Record
  <1> DEFINE kept == SubSeq(journal, 1, cursor)
             wrote == Written(at, new, batch)
  <1>3. at \in Seq(W) /\ Len(at) = Cardinality(W)  BY <1>1 DEF Orders
  <1>4. ASSUME NEW i \in 1 .. Len(at)
        PROVE  Entry(at[i], new[at[i]], batch, revision + 1) \in Entries
    <2>1. at[i] \in W /\ at[i] \in Cells  BY <1>3
    <2>2. cells[at[i]] \in Inputs /\ new[at[i]] \in Inputs  BY <2>1 DEF JournalOK, Texts
    <2> QED  BY <2>1, <2>2, <1>0 DEF Entry, Entries
  <1>5. wrote \in Seq(Entries) /\ Len(wrote) = Cardinality(W)
        /\ \A i \in 1 .. Len(wrote) : wrote[i].batch = batch /\ wrote[i].rev = revision + 1
    BY <1>1, <1>3, <1>4 DEF Written, Entry
  <1>6. kept \in Seq(Entries) /\ Len(kept) = cursor /\ \A i \in 1 .. cursor : kept[i] = journal[i]
    <2>1. \A i \in 1 .. cursor : journal[i] \in Entries  BY <1>0 DEF JournalOK
    <2> QED  BY <1>0, <2>1, SubSeqProperties
  <1> HIDE DEF kept, wrote
  <1> DEFINE both == kept \o wrote
  <1>7. /\ both \in Seq(Entries)
        /\ Len(both) = cursor + Cardinality(W)
        /\ \A i \in 1 .. cursor + Cardinality(W) :
             both[i] = IF i <= cursor THEN kept[i] ELSE wrote[i - cursor]
    <2>1. /\ both \in Seq(Entries)
          /\ Len(both) = Len(kept) + Len(wrote)
          /\ \A i \in 1 .. Len(kept) + Len(wrote) :
               both[i] = IF i <= Len(kept) THEN kept[i] ELSE wrote[i - Len(kept)]
      BY <1>5, <1>6, ConcatProperties, Zenon
    <2> QED  BY <2>1, <1>5, <1>6, Zenon
  <1> HIDE DEF both
  <1>8. journal' = both  BY <1>2 DEF kept, wrote, both
  <1>9. cells' \in Texts  BY DEF Record, JournalOK, Texts
  <1>10. ASSUME NEW i \in cursor + 1 .. Len(journal')
         PROVE  journal'[i].batch = batch /\ journal'[i].rev = revision + 1
    <2>1. i - cursor \in 1 .. Len(wrote) /\ ~(i <= cursor) /\ i \in 1 .. cursor + Cardinality(W)
      BY <1>0, <1>1, <1>5, <1>7, <1>8
    <2>2. journal'[i] = wrote[i - cursor]  BY <1>7, <1>8, <2>1, Zenon
    <2> QED  BY <2>1, <2>2, <1>5
  <1>11. ASSUME NEW i \in 1 .. cursor PROVE journal'[i] = journal[i]
    <2>1. i <= cursor /\ i \in 1 .. cursor + Cardinality(W)  BY <1>0, <1>1
    <2> QED  BY <1>6, <1>7, <1>8, <2>1, Zenon
  <1>12. cursor' = Len(journal')  BY DEF Record
  <1>13. ASSUME NEW i \in 1 .. Cardinality(W)
         PROVE  journal'[cursor + i] = Entry(at[i], new[at[i]], batch, revision + 1)
    <2>1. cursor + i \in 1 .. cursor + Cardinality(W) /\ ~(cursor + i <= cursor)
          /\ cursor + i - cursor = i /\ i \in 1 .. Len(at)
      BY <1>0, <1>1, <1>3
    <2>2. ASSUME NEW j \in 1 .. cursor + Cardinality(W), ~(j <= cursor)
          PROVE  journal'[j] = wrote[j - cursor]
      BY <1>7, <1>8, <2>2, Zenon
    <2>3. journal'[cursor + i] = wrote[i]
      <3>1. journal'[cursor + i] = wrote[(cursor + i) - cursor]  BY <2>1, <2>2
      <3>2. i \in Nat /\ (cursor + i) - cursor = i  BY <1>0
      <3> QED  BY <3>1, <3>2, Zenon
    <2> QED  BY <2>1, <2>3 DEF wrote, Written
  <1> QED  BY <1>1, <1>7, <1>8, <1>9, <1>10, <1>11, <1>12, <1>13, Zenon

(* One operation written: its entries share a stamp and a number later     *)
(* than any before, or it is one entry without a number.                   *)
LEMMA RecordKept ==
    ASSUME JInv, NEW W \in SUBSET Cells, NEW new \in [W -> Inputs], NEW batch \in Nat,
           Record(new, batch), revision' = revision + 1,
           \/ batch = 0 /\ Cardinality(W) = 1 /\ batches' = batches
           \/ batch = batches + 1 /\ batches' = batch
    PROVE  JInv'
  <1>0. /\ Len(journal) \in Nat /\ cursor \in Nat /\ cursor <= Len(journal)
        /\ revision \in Nat /\ batches \in Nat
        /\ \A i \in 1 .. Len(journal) : journal[i].batch \in Nat /\ journal[i].rev \in Nat
    BY JournalNumbers DEF JInv
  <1>1. /\ cells' \in Texts /\ journal' \in Seq(Entries)
        /\ Cardinality(W) \in Nat /\ Len(journal') = cursor + Cardinality(W)
        /\ cursor' = Len(journal')
        /\ \A i \in 1 .. cursor : journal'[i] = journal[i]
        /\ \A i \in cursor + 1 .. Len(journal') :
             journal'[i].batch = batch /\ journal'[i].rev = revision + 1
    BY RecordShape DEF JInv
  <1>2. batches' \in Nat /\ batches' >= batches /\ batch <= batches'  BY <1>0
  <1>3. JournalOK'  BY <1>0, <1>1, <1>2 DEF JournalOK
  <1>4. ASSUME NEW i \in 1 .. Len(journal') PROVE journal'[i].batch <= batches'
    <2>1. CASE i \in 1 .. cursor
      <3>1. journal'[i] = journal[i] /\ journal[i].batch <= batches
        BY <1>0, <1>1, <2>1 DEF JInv, BatchesCounted
      <3> QED  BY <1>0, <1>2, <2>1, <3>1
    <2>2. CASE i \in cursor + 1 .. Len(journal')  BY <1>1, <1>2, <2>2
    <2> QED  BY <1>0, <1>1, <2>1, <2>2
  <1>5. BatchesWhole'  BY <1>1 DEF BatchesWhole, Boundary
  <1>6. \A i \in 1 .. Len(journal') : journal'[i].rev \in 1 .. revision'
    BY <1>0, <1>1 DEF JInv, Stamped
  <1>7. ASSUME NEW i \in 1 .. Len(journal') - 1
        PROVE  IF Joined(i)' THEN journal'[i].rev = journal'[i + 1].rev
                             ELSE journal'[i].rev < journal'[i + 1].rev
    <2>1. CASE i < cursor
      <3>1. journal'[i] = journal[i] /\ journal'[i + 1] = journal[i + 1]  BY <1>0, <1>1, <2>1
      <3>2. i \in 1 .. Len(journal) - 1  BY <1>0, <2>1
      <3> QED  BY <3>1, <3>2 DEF JInv, Stamped, Joined
    <2>2. CASE i = cursor
      <3>1. journal'[i] = journal[i] /\ journal'[i + 1].batch = batch
            /\ journal'[i + 1].rev = revision + 1
        BY <1>0, <1>1, <2>2
      <3>2. journal[i].rev <= revision /\ journal[i].batch <= batches
        BY <1>0, <2>2 DEF JInv, Stamped, BatchesCounted
      <3> QED  BY <1>0, <3>1, <3>2, <2>2 DEF Joined
    <2>3. CASE i > cursor
      <3>0. i \in cursor + 1 .. Len(journal') /\ i + 1 \in cursor + 1 .. Len(journal')
        <4>1. Len(journal') \in Nat /\ i \in Int  BY <1>0, <1>1
        <4> QED  BY <1>0, <2>3, <4>1
      <3>1. journal'[i].batch = batch /\ journal'[i].rev = revision + 1
            /\ journal'[i + 1].batch = batch /\ journal'[i + 1].rev = revision + 1
        BY <1>1, <3>0, Zenon
      <3>2. batch # 0  BY <1>0, <1>1, <2>3
      <3> QED  BY <3>1, <3>2 DEF Joined
    <2> QED  BY <1>0, <2>1, <2>2, <2>3
  <1> QED  BY <1>3, <1>4, <1>5, <1>6, <1>7 DEF JInv, Stamped, BatchesCounted
-----------------------------------------------------------------------------
(* Moving the cursor                                                       *)

(* Undo and redo aim at the nearest place between two batches.             *)
LEMMA UndoGoalFound ==
    ASSUME JInv, cursor > 0
    PROVE  UndoGoal \in 0 .. Len(journal) /\ Boundary(UndoGoal) /\ UndoGoal # cursor
  <1> DEFINE S == {p \in 0 .. cursor - 1 : Boundary(p)}
  <1>1. cursor \in Nat /\ cursor <= Len(journal) /\ Len(journal) \in Nat  BY JournalNumbers DEF JInv
  <1>2. S \in SUBSET Nat /\ 0 \in S /\ \A p \in S : p <= cursor  BY <1>1 DEF Boundary
  <1>3. PICK p \in S : \A q \in S : q <= p
    <2> HIDE DEF S
    <2> QED  BY <1>1, <1>2, GreatestNatural
  <1>4. p \in 0 .. cursor - 1 /\ Boundary(p) /\ \A q \in p + 1 .. cursor - 1 : ~Boundary(q)
    BY <1>1, <1>3
  <1>5. UndoGoal \in 0 .. cursor - 1 /\ Boundary(UndoGoal)
    <2> HIDE DEF S
    <2> QED  BY <1>4 DEF UndoGoal
  <1> QED  BY <1>1, <1>5

LEMMA RedoGoalFound ==
    ASSUME JInv, cursor < Len(journal)
    PROVE  RedoGoal \in 0 .. Len(journal) /\ Boundary(RedoGoal) /\ RedoGoal # cursor
  <1> DEFINE S == {p \in cursor + 1 .. Len(journal) : Boundary(p)}
  <1>1. cursor \in Nat /\ cursor <= Len(journal) /\ Len(journal) \in Nat  BY JournalNumbers DEF JInv
  <1>2. S \in SUBSET Nat /\ Len(journal) \in S  BY <1>1 DEF Boundary
  <1>3. PICK p \in S : \A q \in S : p <= q
    <2> HIDE DEF S
    <2> QED  BY <1>2, LeastNatural
  <1>4. p \in cursor + 1 .. Len(journal) /\ Boundary(p) /\ \A q \in cursor + 1 .. p - 1 : ~Boundary(q)
    BY <1>1, <1>3
  <1>5. RedoGoal \in cursor + 1 .. Len(journal) /\ Boundary(RedoGoal)
    <2> HIDE DEF S
    <2> QED  BY <1>4 DEF RedoGoal
  <1> QED  BY <1>1, <1>5

(* Where the stamp changes, one batch ends and another begins.             *)
LEMMA StampChangesBetweenBatches ==
    ASSUME JInv, NEW p \in 1 .. Len(journal) - 1, journal[p].rev # journal[p + 1].rev
    PROVE  Boundary(p)
  BY DEF JInv, Stamped, Boundary

(* So the follower, which reads the stamps only, stops between batches.    *)
LEMMA UnwindStopsBetweenBatches ==
    ASSUME JInv, NEW target \in Nat
    PROVE  UnwindTo(target) \in 0 .. Len(journal) /\ Boundary(UnwindTo(target))
  <1> DEFINE S == {p \in 0 .. cursor : p = 0 \/ journal[p].rev <= target}
             u == UnwindTo(target)
  <1>1. /\ cursor \in Nat /\ cursor <= Len(journal) /\ Len(journal) \in Nat
        /\ \A i \in 1 .. Len(journal) : journal[i].rev \in Nat
    BY JournalNumbers DEF JInv
  <1>2. S \in SUBSET Nat /\ 0 \in S /\ \A p \in S : p <= cursor  BY <1>1
  <1>3. PICK p \in S : \A q \in S : q <= p
    <2> HIDE DEF S
    <2> QED  BY <1>1, <1>2, GreatestNatural
  <1>4. /\ p \in 0 .. cursor /\ (p = 0 \/ journal[p].rev <= target)
        /\ \A q \in p + 1 .. cursor : journal[q].rev > target
    <2>1. ASSUME NEW q \in p + 1 .. cursor PROVE journal[q].rev > target
      <3>1. q \in 1 .. Len(journal) /\ q \in 0 .. cursor /\ q > p  BY <1>1, <1>3, <2>1
      <3>2. q \notin S  BY <1>3, <3>1
      <3> QED  BY <1>1, <3>1, <3>2
    <2> QED  BY <1>3, <2>1
  <1>5. /\ u \in 0 .. cursor /\ (u = 0 \/ journal[u].rev <= target)
        /\ \A q \in u + 1 .. cursor : journal[q].rev > target
    <2> HIDE DEF S
    <2> QED  BY <1>4 DEF UnwindTo
  <1> HIDE DEF u
  <1>6. CASE u = 0  BY <1>1, <1>6 DEF u, Boundary
  <1>7. CASE u = cursor  BY <1>1, <1>7 DEF u, JInv, BatchesWhole
  <1>8. CASE u \in 1 .. cursor - 1
    <2>1. u \in 1 .. Len(journal) - 1 /\ u + 1 \in u + 1 .. cursor /\ u + 1 \in 1 .. Len(journal)
          /\ u # 0 /\ u \in 1 .. Len(journal)
      BY <1>1, <1>8
    <2>2. journal[u].rev <= target /\ journal[u + 1].rev > target  BY <1>5, <2>1
    <2>3. journal[u].rev # journal[u + 1].rev  BY <1>1, <2>1, <2>2
    <2>4. Boundary(u)  BY <2>1, <2>3, StampChangesBetweenBatches
    <2> QED  BY <1>1, <2>1, <2>4 DEF u
  <1> QED  BY <1>1, <1>5, <1>6, <1>7, <1>8

LEMMA ForwardStopsBetweenBatches ==
    ASSUME JInv, NEW target \in Nat
    PROVE  ForwardTo(target) \in 0 .. Len(journal) /\ Boundary(ForwardTo(target))
  <1> DEFINE S == {p \in cursor .. Len(journal) : p = Len(journal) \/ journal[p + 1].rev > target}
             u == ForwardTo(target)
  <1>1. /\ cursor \in Nat /\ cursor <= Len(journal) /\ Len(journal) \in Nat
        /\ \A i \in 1 .. Len(journal) : journal[i].rev \in Nat
    BY JournalNumbers DEF JInv
  <1>2. S \in SUBSET Nat /\ Len(journal) \in S  BY <1>1
  <1>3. PICK p \in S : \A q \in S : p <= q
    <2> HIDE DEF S
    <2> QED  BY <1>2, LeastNatural
  <1>4. /\ p \in cursor .. Len(journal) /\ (p = Len(journal) \/ journal[p + 1].rev > target)
        /\ \A q \in cursor + 1 .. p : journal[q].rev <= target
    <2>1. ASSUME NEW q \in cursor + 1 .. p PROVE journal[q].rev <= target
      <3>1. q \in 1 .. Len(journal) /\ q - 1 \in cursor .. Len(journal) /\ q - 1 < p /\ q - 1 + 1 = q
        BY <1>1, <1>3, <2>1
      <3>2. q - 1 \notin S
        <4>1. p \in Nat /\ q - 1 \in Nat /\ \A r \in S : p <= r  BY <1>1, <1>3, <3>1
        <4> HIDE DEF S
        <4> QED  BY <3>1, <4>1
      <3>3. ~(journal[q - 1 + 1].rev > target)  BY <3>1, <3>2
      <3> QED  BY <1>1, <3>1, <3>3
    <2> QED  BY <1>3, <2>1
  <1>5. /\ u \in cursor .. Len(journal) /\ (u = Len(journal) \/ journal[u + 1].rev > target)
        /\ \A q \in cursor + 1 .. u : journal[q].rev <= target
    <2> HIDE DEF S
    <2> QED  BY <1>4 DEF ForwardTo
  <1> HIDE DEF u
  <1>6. CASE u = Len(journal)  BY <1>1, <1>6 DEF u, Boundary
  <1>7. CASE u = cursor  BY <1>1, <1>7 DEF u, JInv, BatchesWhole
  <1>8. CASE u \in cursor + 1 .. Len(journal) - 1
    <2>1. u \in 1 .. Len(journal) - 1 /\ u \in cursor + 1 .. u /\ u + 1 \in 1 .. Len(journal)
          /\ u # Len(journal) /\ u \in 1 .. Len(journal)
      BY <1>1, <1>8
    <2>2. journal[u].rev <= target /\ journal[u + 1].rev > target  BY <1>5, <2>1
    <2>3. journal[u].rev \in Nat /\ journal[u + 1].rev \in Nat  BY <1>1, <2>1
    <2>5. journal[u].rev # journal[u + 1].rev  BY <2>2, <2>3
    <2>4. Boundary(u)  BY <2>1, <2>5, StampChangesBetweenBatches
    <2> QED  BY <1>1, <2>1, <2>4 DEF u
  <1> QED  BY <1>1, <1>5, <1>6, <1>7, <1>8
(* The steps on the way are a finite set, with the cursor among them.      *)
LEMMA StopsCounted ==
    ASSUME JInv, NEW p \in 0 .. Len(journal)
    PROVE  Cardinality(Stops(p)) \in Nat \ {0} /\ Stops(p) \subseteq 0 .. Len(journal)
  <1>1. cursor \in Nat /\ cursor <= Len(journal) /\ Len(journal) \in Nat /\ p \in Int
    BY JournalNumbers DEF JInv
  <1>2. IsFiniteSet(Between(cursor, p))
    <2>1. IsFiniteSet(cursor .. p) /\ IsFiniteSet(p .. cursor)  BY <1>1, FS_Interval
    <2> QED  BY <2>1, FS_Union, Zenon DEF Between
  <1>3. cursor \in Stops(p)  BY <1>1 DEF Stops, Between, JInv, BatchesWhole
  <1>4. Stops(p) \in SUBSET Between(cursor, p)  BY DEF Stops
  <1>5. IsFiniteSet(Stops(p))  BY <1>2, <1>4, FS_Subset
  <1>6. Cardinality(Stops(p)) \in Nat  BY <1>5, FS_CardinalityType
  <1>7. Cardinality(Stops(p)) # 0  BY <1>3, <1>5, FS_EmptySet
  <1>8. Between(cursor, p) \subseteq 0 .. Len(journal)  BY <1>1 DEF Between
  <1> QED  BY <1>4, <1>6, <1>7, <1>8

LEMMA TextAtType ==
    ASSUME JInv, NEW p \in 0 .. Len(journal)
    PROVE  TextAt(p) \in Texts
  <1>1. /\ cursor \in Nat /\ cursor <= Len(journal) /\ Len(journal) \in Nat /\ p \in Nat
        /\ \A i \in 1 .. Len(journal) : journal[i] \in Entries
    BY JournalNumbers DEF JInv
  <1>2. \A i \in 1 .. Len(journal) : journal[i].prev \in Inputs /\ journal[i].next \in Inputs
    BY <1>1 DEF Entries
  <1> SUFFICES ASSUME NEW c \in Cells
               PROVE  LET undone == {i \in p + 1 .. cursor : journal[i].cell = c}
                          redone == {i \in cursor + 1 .. p : journal[i].cell = c}
                      IN  (IF undone # {} THEN journal[Min(undone)].prev
                           ELSE IF redone # {} THEN journal[Max(redone)].next
                           ELSE cells[c]) \in Inputs
    BY DEF TextAt, Texts
  <1> DEFINE undone == {i \in p + 1 .. cursor : journal[i].cell = c}
             redone == {i \in cursor + 1 .. p : journal[i].cell = c}
  <1>3. CASE undone # {}
    <2>1. undone \in SUBSET Nat /\ undone \subseteq 1 .. Len(journal)  BY <1>1
    <2>2. Min(undone) \in undone  BY <1>3, <2>1, MinIsLeast
    <2>3. journal[Min(undone)].prev \in Inputs  BY <1>2, <2>1, <2>2
    <2> QED  BY <1>3, <2>3
  <1>4. CASE undone = {} /\ redone # {}
    <2>1. redone \in SUBSET Nat /\ redone \subseteq 1 .. Len(journal) /\ \A i \in redone : i <= p
      BY <1>1
    <2>2. Max(redone) \in redone
      <3> HIDE DEF redone
      <3> QED  BY <1>1, <1>4, <2>1, MaxIsGreatest
    <2>3. journal[Max(redone)].next \in Inputs  BY <1>2, <2>1, <2>2
    <2> QED  BY <1>4, <2>3
  <1>5. CASE undone = {} /\ redone = {}
    <2>1. cells[c] \in Inputs  BY DEF JInv, JournalOK, Texts
    <2> QED  BY <1>5, <2>1
  <1> QED  BY <1>3, <1>4, <1>5

(* A run of steps that ends, or is stopped, between two batches.           *)
LEMMA StepKept ==
    ASSUME JInv, NEW goal \in 0 .. Len(journal), Boundary(goal), StepTo(goal),
           UNCHANGED <<journal, batches>>
    PROVE  JInv' /\ revision <= revision'
  <1>1. /\ cursor \in Nat /\ cursor <= Len(journal) /\ Len(journal) \in Nat
        /\ revision \in Nat /\ batches \in Nat
    BY JournalNumbers DEF JInv
  <1>2. \A p \in 0 .. Len(journal) :
          Cardinality(Stops(p)) \in Nat \ {0} /\ Stops(p) \subseteq 0 .. Len(journal)
    BY StopsCounted
  <1>3. \E p \in 0 .. Len(journal) :
          /\ cursor' = p /\ Boundary(p) /\ revision' = revision + Cardinality(Stops(p)) - 1
    <2>1. \A p \in Stops(goal) : p \in 0 .. Len(journal) /\ Boundary(p)  BY <1>2 DEF Stops
    <2> QED  BY <2>1 DEF StepTo
  <1>4. \E q \in 0 .. Len(journal) : cells' = TextAt(q)
    <2>1. ASSUME NEW p \in 0 .. Len(journal) PROVE Between(p, goal) \subseteq 0 .. Len(journal)
      BY <1>1 DEF Between
    <2>2. Stops(goal) \subseteq 0 .. Len(journal)  BY <1>2
    <2> QED  BY <2>1, <2>2 DEF StepTo
  <1>5. cells' \in Texts  BY <1>4, TextAtType
  <1>6. revision' \in Nat /\ revision <= revision' /\ cursor' \in 0 .. Len(journal)
    <2>1. PICK p \in 0 .. Len(journal) : cursor' = p /\ revision' = revision + Cardinality(Stops(p)) - 1
      BY <1>3
    <2>2. Cardinality(Stops(p)) \in Nat \ {0}  BY <1>2
    <2> QED  BY <1>1, <2>1, <2>2
  <1>7. Boundary(cursor)'  BY <1>3 DEF Boundary, Joined
  <1>8. JournalOK'  BY <1>5, <1>6 DEF JInv, JournalOK
  <1>9. BatchesCounted'  BY DEF JInv, BatchesCounted
  <1>10. Stamped'
    <2>1. ASSUME NEW i \in 1 .. Len(journal) PROVE journal[i].rev \in 1 .. revision'
      <3>1. journal[i].rev \in 1 .. revision  BY DEF JInv, Stamped
      <3> QED  BY <1>1, <1>6, <3>1
    <2>2. \A i \in 1 .. Len(journal) - 1 :
            IF Joined(i) THEN journal[i].rev = journal[i + 1].rev
                         ELSE journal[i].rev < journal[i + 1].rev
      BY DEF JInv, Stamped
    <2>3. \A i : Joined(i)' <=> Joined(i)  BY DEF Joined
    <2> QED  BY <2>1, <2>2, <2>3 DEF Stamped
  <1> QED  BY <1>6, <1>7, <1>8, <1>9, <1>10 DEF JInv, BatchesWhole
-----------------------------------------------------------------------------
(* What is recorded of the tables                                          *)

LEMMA RangeOfTable == ASSUME NEW t \in Tables PROVE Ranges[t] \in SUBSET Cells
  BY ElementOfSeq DEF Tables

LEMMA InContents ==
    ASSUME NEW t \in Tables, NEW c \in [Ranges[t] -> Inputs] PROVE c \in Contents
  BY RangeOfTable DEF Contents

LEMMA ContentType == ASSUME JournalOK, NEW t \in Tables PROVE Content(t) \in [Ranges[t] -> Inputs]
  BY RangeOfTable DEF Content, JournalOK, Texts

(* One record of a shot.                                                   *)
RecordOf(newest, t) == [version : 0 .. newest, content : [Ranges[t] -> Inputs]]

LEMMA ShotIs ==
    ASSUME NEW newest, NEW s
    PROVE  s \in Shots(newest) <=> /\ s \in [Tables -> [version : 0 .. newest, content : Contents]]
                                   /\ \A t \in Tables : s[t] \in RecordOf(newest, t)
  <1> DEFINE Shot == [version : 0 .. newest, content : Contents]
  <1>1. ASSUME s \in [Tables -> Shot], NEW t \in Tables
        PROVE  s[t].content \in [Ranges[t] -> Inputs] <=> s[t] \in RecordOf(newest, t)
    <2>1. s[t] \in Shot  BY <1>1, Zenon
    <2>2. ASSUME NEW r \in Shot
          PROVE  r.content \in [Ranges[t] -> Inputs] <=> r \in RecordOf(newest, t)
      BY DEF RecordOf
    <2> QED  BY <2>1, <2>2, Zenon
  <1> HIDE DEF Shot
  <1>2. s \in Shots(newest) <=> /\ s \in [Tables -> Shot]
                                /\ \A t \in Tables : s[t].content \in [Ranges[t] -> Inputs]
    BY Zenon DEF Shots, Shot
  <1> QED  BY <1>1, <1>2, Zenon DEF Shot

LEMMA RecordFits ==
    ASSUME NEW newest, NEW t \in Tables
    PROVE  RecordOf(newest, t) \subseteq [version : 0 .. newest, content : Contents]
  BY InContents DEF RecordOf

(* A shot with one table recorded anew.                                    *)
LEMMA ShotWith ==
    ASSUME NEW newest, NEW s \in Shots(newest), NEW t \in Tables, NEW r \in RecordOf(newest, t)
    PROVE  [s EXCEPT ![t] = r] \in Shots(newest)
  <1> DEFINE new == [s EXCEPT ![t] = r]
  <1>1. s \in [Tables -> [version : 0 .. newest, content : Contents]]
        /\ \A u \in Tables : s[u] \in RecordOf(newest, u)
    BY ShotIs, Zenon
  <1>2. r \in [version : 0 .. newest, content : Contents]  BY RecordFits
  <1>3. new \in [Tables -> [version : 0 .. newest, content : Contents]]  BY <1>1, <1>2, Zenon
  <1>4. \A u \in Tables : new[u] = IF u = t THEN r ELSE s[u]  BY <1>1, Zenon
  <1>5. \A u \in Tables : new[u] \in RecordOf(newest, u)  BY <1>1, <1>4, Zenon
  <1> QED  BY <1>3, <1>5, ShotIs, Zenon

LEMMA ShotParts ==
    ASSUME NEW newest, NEW s \in Shots(newest), NEW t \in Tables,
           NEW v \in 0 .. newest, NEW c \in [Ranges[t] -> Inputs]
    PROVE  /\ [s EXCEPT ![t] = [version |-> v, content |-> c]] \in Shots(newest)
           /\ [s EXCEPT ![t].content = c] \in Shots(newest)
           /\ [s EXCEPT ![t].version = v] \in Shots(newest)
           /\ s[t].version \in 0 .. newest /\ s[t].content \in [Ranges[t] -> Inputs]
           /\ [s[t] EXCEPT !.version = v] \in RecordOf(newest, t)
  <1>1. s[t] \in RecordOf(newest, t)  BY ShotIs, Zenon
  <1>2. ASSUME NEW r \in RecordOf(newest, t)
        PROVE  /\ [r EXCEPT !.content = c] \in RecordOf(newest, t)
               /\ [r EXCEPT !.version = v] \in RecordOf(newest, t)
               /\ r.version \in 0 .. newest /\ r.content \in [Ranges[t] -> Inputs]
    BY DEF RecordOf
  <1>3. [version |-> v, content |-> c] \in RecordOf(newest, t)  BY DEF RecordOf
  <1> QED  BY <1>1, <1>2, <1>3, ShotWith, Zenon

(* What was a version then is one now.                                     *)
LEMMA VersionsGrow ==
    ASSUME NEW n \in Nat, NEW m \in Nat, n <= m
    PROVE  /\ Shots(n) \subseteq Shots(m) /\ Seq(Shots(n)) \subseteq Seq(Shots(m))
           /\ Refreshes(n) \subseteq Refreshes(m) /\ Readings(n) \subseteq Readings(m)
  <1>1. 0 .. n \subseteq 0 .. m  OBVIOUS
  <1>2. ASSUME NEW s \in Shots(n) PROVE s \in Shots(m)
    <2>1. s \in [Tables -> [version : 0 .. n, content : Contents]]
          /\ \A t \in Tables : s[t] \in RecordOf(n, t)
      BY ShotIs, Zenon
    <2>2. [version : 0 .. n, content : Contents] \subseteq [version : 0 .. m, content : Contents]
      BY <1>1
    <2>3. \A t : RecordOf(n, t) \subseteq RecordOf(m, t)  BY <1>1 DEF RecordOf
    <2>4. s \in [Tables -> [version : 0 .. m, content : Contents]]
          /\ \A t \in Tables : s[t] \in RecordOf(m, t)
      BY <2>1, <2>2, <2>3, Zenon
    <2> QED  BY <2>4, ShotIs, Zenon
  <1>3. Seq(Shots(n)) \subseteq Seq(Shots(m))  BY <1>2, SeqMonotonic, Zenon
  <1>4. ASSUME NEW r \in Refreshes(n) PROVE r \in Refreshes(m)
    <2> DEFINE A == Shots(n)
               B == Shots(m)
    <2>1. A \subseteq B  BY <1>2
    <2>2. r \in [version : 0 .. n, infos : A, at : Tables, next : Contents]
          /\ r.next \in [Ranges[r.at] -> Inputs]
      BY Zenon DEF Refreshes
    <2> HIDE DEF A, B
    <2>3. r \in [version : 0 .. m, infos : B, at : Tables, next : Contents]
      BY <1>1, <2>1, <2>2
    <2> QED  BY <2>2, <2>3, Zenon DEF Refreshes, B
  <1>5. ASSUME NEW r \in Readings(n) PROVE r \in Readings(m)
    BY <1>1 DEF Readings
  <1> QED  BY <1>2, <1>3, <1>4, <1>5

LEMMA PagesKept ==
    ASSUME JournalOK, PagesOK, revision' \in Nat, revision <= revision',
           UNCHANGED <<placed, page, past, future>>,
           refresh' = refresh, reading' = reading
    PROVE  PagesOK'
  <1>1. revision \in Nat  BY DEF JournalOK
  <1>2. /\ Shots(revision) \subseteq Shots(revision')
        /\ Seq(Shots(revision)) \subseteq Seq(Shots(revision'))
        /\ Refreshes(revision) \subseteq Refreshes(revision')
        /\ Readings(revision) \subseteq Readings(revision')
    BY <1>1, VersionsGrow, Zenon
  <1>3. /\ placed' \in Shots(revision') /\ page' \in Shots(revision')
        /\ past' \in Seq(Shots(revision')) /\ future' \in Seq(Shots(revision'))
        /\ (refresh' # None => refresh' \in Refreshes(revision'))
        /\ (reading' # None => reading' \in Readings(revision'))
    BY <1>2 DEF PagesOK
  <1> QED  BY <1>3, Zenon DEF PagesOK

(* Where a refresh goes on.                                                *)
LEMMA GoOnType ==
    ASSUME JournalOK, NEW t \in Nat \ {0}, NEW infos \in Shots(revision),
           NEW version \in 0 .. revision, GoOn(t, infos, version)
    PROVE  refresh' # None => refresh' \in Refreshes(revision)
  <1> DEFINE stale == {u \in t .. Len(Ranges) :
                         infos[u].version # version /\ infos[u].content # Content(u)}
             at == Min(stale)
             r == [version |-> version, infos |-> infos, at |-> at, next |-> Content(at)]
             A == Shots(revision)
  <1>1. refresh' = IF stale = {} THEN None ELSE r  BY Zenon DEF GoOn
  <1>2. CASE stale = {}  BY <1>1, <1>2, Zenon
  <1>3. CASE stale # {}
    <2>1. stale \in SUBSET Nat  OBVIOUS
    <2>2. at \in stale
      <3> HIDE DEF stale
      <3> QED  BY <1>3, <2>1, MinIsLeast, Zenon
    <2>3. at \in Tables  BY <2>2 DEF Tables
    <2>4. Content(at) \in [Ranges[at] -> Inputs] /\ Content(at) \in Contents
      BY <2>3, ContentType, InContents, Zenon
    <2> HIDE DEF at, stale, A
    <2>5. infos \in A  BY Zenon DEF A
    <2>6. r \in [version : 0 .. revision, infos : A, at : Tables, next : Contents]
          /\ r.at = at /\ r.next = Content(at)
      BY <2>3, <2>4, <2>5
    <2> HIDE DEF r
    <2>7. r \in Refreshes(revision)  BY <2>4, <2>6, Zenon DEF Refreshes, A
    <2> QED  BY <1>1, <2>7, Zenon
  <1> QED  BY <1>2, <1>3
-----------------------------------------------------------------------------
(* The journal's actions                                                   *)

(* A change of the workbook leaves what is recorded of the tables alone.   *)
LEMMA BookKept ==
    ASSUME IInv, JInv', revision <= revision', JournalFrame
    PROVE  PagesOK'
  BY PagesKept DEF IInv, TypeOK, JInv, JournalOK, JournalFrame, shown, document, follower

LEMMA ScheduleType ==
    ASSUME CountsOK, ScheduleRefresh
    PROVE  chain' \in Nat /\ timer' \in BOOLEAN /\ deferred' \in BOOLEAN
  BY Zenon DEF CountsOK, ScheduleRefresh

LEMMA EditCounts ==
    ASSUME CountsOK, Edit, MarkEdited, JournalFrame, calm' \in BOOLEAN, UNCHANGED faults
    PROVE  CountsOK'
  <1>1. chain' \in Nat /\ timer' \in BOOLEAN /\ deferred' \in BOOLEAN
    BY ScheduleType DEF MarkEdited
  <1>2. edits' \in Nat  BY DEF CountsOK, Edit
  <1> QED  BY <1>1, <1>2, Zenon DEF CountsOK, JournalFrame, frame, follower

LEMMA EditCellKept == ASSUME IInv, EditCell PROVE IInv'
  <1>1. PICK c \in Cells, input \in Inputs : Record([x \in {c} |-> input], 0)  BY Zenon DEF EditCell
  <1>2. {c} \in SUBSET Cells /\ [x \in {c} |-> input] \in [{c} -> Inputs]  OBVIOUS
  <1>3. Cardinality({c}) = 1  BY FS_Singleton
  <1>4. revision' = revision + 1 /\ batches' = batches  BY DEF EditCell, MarkEdited
  <1>5. JInv'  BY <1>1, <1>2, <1>3, <1>4, RecordKept DEF IInv
  <1>6. revision <= revision'  BY <1>4 DEF IInv, JInv, JournalOK
  <1>7. PagesOK'  BY <1>5, <1>6, BookKept DEF EditCell
  <1>8. calm' \in BOOLEAN  BY Zenon DEF EditCell
  <1>9. CountsOK'  BY <1>8, EditCounts, Zenon DEF EditCell, IInv, TypeOK
  <1> QED  BY <1>5, <1>7, <1>9, Zenon DEF IInv, TypeOK, JInv

LEMMA EditBatchKept == ASSUME IInv, EditBatch PROVE IInv'
  <1>0. PICK W \in SUBSET Cells : \E new \in [W -> Inputs] : Record(new, batches')
    BY Zenon DEF EditBatch
  <1>1. PICK new \in [W -> Inputs] : Record(new, batches')  BY <1>0, Zenon
  <1>2. revision' = revision + 1 /\ batches' = batches + 1  BY DEF EditBatch, MarkEdited
  <1>3. batches' \in Nat  BY <1>2 DEF IInv, JInv, JournalOK
  <1>4. JInv'  BY <1>1, <1>2, <1>3, RecordKept DEF IInv
  <1>5. revision <= revision'  BY <1>2 DEF IInv, JInv, JournalOK
  <1>6. PagesOK'  BY <1>4, <1>5, BookKept DEF EditBatch
  <1>7. calm' \in BOOLEAN  BY Zenon DEF EditBatch
  <1>8. CountsOK'  BY <1>7, EditCounts, Zenon DEF EditBatch, IInv, TypeOK
  <1> QED  BY <1>4, <1>6, <1>8, Zenon DEF IInv, TypeOK, JInv

LEMMA InsertRowKept == ASSUME IInv, InsertRow PROVE IInv'
  <1>1. revision' = revision + 1 /\ batches' = batches /\ journal' = <<>> /\ cursor' = 0
    BY DEF InsertRow, MarkEdited
  <1>2. cells' \in Texts
    <2>1. PICK at \in Cells : cells' =
            [c \in Cells |-> IF c < at THEN cells[c] ELSE IF c = at THEN Empty ELSE cells[c - 1]]
      BY DEF InsertRow
    <2>2. ASSUME NEW c \in Cells, ~(c < at), c # at PROVE c - 1 \in Cells
      BY <2>2 DEF Cells
    <2>3. cells \in [Cells -> Inputs]  BY DEF IInv, JInv, JournalOK, Texts
    <2> QED  BY <2>1, <2>2, <2>3 DEF Texts
  <1>3. revision \in Nat /\ batches \in Nat  BY DEF IInv, JInv, JournalOK
  <1>4. Len(journal') = 0 /\ journal' \in Seq(Entries)  BY <1>1
  <1>5. JournalOK'  BY <1>1, <1>2, <1>3, <1>4 DEF JournalOK
  <1>6. JInv'  BY <1>1, <1>4, <1>5 DEF JInv, BatchesCounted, Stamped, BatchesWhole, Boundary
  <1>7. revision <= revision'  BY <1>1, <1>3
  <1>8. PagesOK'  BY <1>6, <1>7, BookKept DEF InsertRow
  <1>9. CountsOK'  BY EditCounts DEF InsertRow, IInv, TypeOK
  <1> QED  BY <1>5, <1>6, <1>8, <1>9, Zenon DEF IInv, TypeOK

LEMMA StepCounts ==
    ASSUME NEW goal, StepTo(goal), faults \in Nat PROVE faults' \in Nat
  BY DEF StepTo, Succeeds, Fails

LEMMA UserStepKept ==
    ASSUME IInv, NEW goal \in 0 .. Len(journal), Boundary(goal), UserStep(goal)
    PROVE  IInv'
  <1>1. JInv' /\ revision <= revision'  BY StepKept DEF UserStep, IInv
  <1>2. PagesOK'  BY <1>1, BookKept DEF UserStep
  <1>3. faults' \in Nat  BY StepCounts DEF UserStep, IInv, TypeOK, CountsOK
  <1>4. chain' \in Nat /\ timer' \in BOOLEAN /\ deferred' \in BOOLEAN
    <2>1. CASE cursor' = cursor  BY <2>1, Zenon DEF UserStep, due, IInv, TypeOK, CountsOK
    <2>2. CASE cursor' # cursor  BY <2>2, ScheduleType, Zenon DEF UserStep, IInv, TypeOK
    <2> QED  BY <2>1, <2>2
  <1>5. CountsOK'
    BY <1>3, <1>4, Zenon DEF UserStep, JournalFrame, frame, follower, IInv, TypeOK, CountsOK
  <1> QED  BY <1>1, <1>2, <1>5, Zenon DEF IInv, TypeOK, JInv

LEMMA UndoEditKept == ASSUME IInv, UndoEdit PROVE IInv'
  <1>1. UndoGoal \in 0 .. Len(journal) /\ Boundary(UndoGoal)  BY UndoGoalFound DEF IInv, UndoEdit
  <1> QED  BY <1>1, UserStepKept DEF UndoEdit

LEMMA RedoEditKept == ASSUME IInv, RedoEdit PROVE IInv'
  <1>1. RedoGoal \in 0 .. Len(journal) /\ Boundary(RedoGoal)  BY RedoGoalFound DEF IInv, RedoEdit
  <1> QED  BY <1>1, UserStepKept DEF RedoEdit

-----------------------------------------------------------------------------
(* The frame, the timer and the refreshes                                  *)

(* Nothing the journal's invariant is about changes.                       *)
LEMMA JournalUnmoved ==
    ASSUME JInv, UNCHANGED <<book, revision>> PROVE JInv'
  BY Zenon DEF JInv, JournalOK, BatchesCounted, Stamped, BatchesWhole, Boundary, Joined, book

LEMMA PagesUnmoved ==
    ASSUME IInv, UNCHANGED <<book, revision, shown, document, reading>> PROVE PagesOK'
  BY PagesKept DEF IInv, TypeOK, JournalOK, shown, document

LEMMA FrameKept ==
    ASSUME IInv, EnterFrame \/ LeaveFrame \/ TimerFires PROVE IInv'
  <1>1. UNCHANGED <<book, revision, shown, document, reading, follow, docSteps, calm, faults>>
    BY Zenon DEF EnterFrame, LeaveFrame, TimerFires, follower
  <1>2. JInv'  BY <1>1, JournalUnmoved DEF IInv
  <1>3. PagesOK'  BY <1>1, PagesUnmoved
  <1>4. cursor \in Nat  BY JournalNumbers DEF IInv, JInv
  <1>5. chain' \in Nat /\ floor' \in Nat /\ inFrame' \in BOOLEAN /\ timer' \in BOOLEAN
        /\ deferred' \in BOOLEAN
    <2>1. CASE EnterFrame
      BY <1>4, <2>1, Zenon DEF EnterFrame, due, IInv, TypeOK, CountsOK
    <2>2. CASE LeaveFrame
      <3>1. chain' \in Nat /\ floor' \in Nat  BY <2>2 DEF LeaveFrame, IInv, TypeOK, CountsOK
      <3> QED  BY <2>2, <3>1, Zenon DEF LeaveFrame, IInv, TypeOK, CountsOK
    <2>3. CASE TimerFires
      <3>1. chain' \in Nat  BY <2>3 DEF TimerFires, IInv, TypeOK, CountsOK
      <3> QED  BY <2>3, <3>1, Zenon DEF TimerFires, frame, IInv, TypeOK, CountsOK
    <2> QED  BY <2>1, <2>2, <2>3
  <1>6. CountsOK'  BY <1>1, <1>5, Zenon DEF CountsOK, book, IInv, TypeOK
  <1> QED  BY <1>2, <1>3, <1>6, Zenon DEF IInv, TypeOK, JInv

LEMMA RefreshBeginsKept == ASSUME IInv, RefreshBegins PROVE IInv'
  <1>1. UNCHANGED <<book, revision>>  BY Zenon DEF RefreshBegins
  <1>2. JInv'  BY <1>1, JournalUnmoved DEF IInv
  <1>3. revision \in Nat /\ placed \in Shots(revision)  BY DEF IInv, TypeOK, JournalOK, PagesOK
  <1>4. refresh' # None => refresh' \in Refreshes(revision)
    <2>1. revision \in 0 .. revision /\ 1 \in Nat \ {0}  BY <1>3
    <2>2. JournalOK /\ GoOn(1, placed, revision)  BY Zenon DEF RefreshBegins, IInv, TypeOK
    <2> QED  BY <1>3, <2>1, <2>2, GoOnType, Zenon
  <1>5. PagesOK'
    BY <1>1, <1>4, Zenon DEF RefreshBegins, document, follower, IInv, TypeOK, PagesOK
  <1>6. chain' \in Nat  BY DEF RefreshBegins, IInv, TypeOK, CountsOK
  <1>7. CountsOK'
    BY <1>1, <1>6, Zenon DEF RefreshBegins, frame, follower, book, IInv, TypeOK, CountsOK
  <1> QED  BY <1>2, <1>5, <1>7, Zenon DEF IInv, TypeOK, JInv

(* The refresh under way.                                                  *)
LEMMA RefreshParts ==
    ASSUME NEW n, NEW r \in Refreshes(n)
    PROVE  /\ r.version \in 0 .. n /\ r.infos \in Shots(n) /\ r.at \in Tables
           /\ r.next \in [Ranges[r.at] -> Inputs]
  <1> DEFINE A == Shots(n)
  <1>1. r \in [version : 0 .. n, infos : A, at : Tables, next : Contents]
        /\ r.next \in [Ranges[r.at] -> Inputs]
    BY Zenon DEF Refreshes
  <1> HIDE DEF A
  <1>2. r.version \in 0 .. n /\ r.infos \in A /\ r.at \in Tables  BY <1>1
  <1> QED  BY <1>1, <1>2, Zenon DEF A

LEMMA RepouredType ==
    ASSUME NEW n, page \in Shots(n), refresh \in Refreshes(n)
    PROVE  Repoured \in [Ranges[refresh.at] -> Inputs]
  <1>1. refresh.at \in Tables /\ refresh.next \in [Ranges[refresh.at] -> Inputs]
    BY RefreshParts, Zenon
  <1>2. page[refresh.at].content \in [Ranges[refresh.at] -> Inputs]
    <2>1. page[refresh.at] \in RecordOf(n, refresh.at)  BY <1>1, ShotIs, Zenon
    <2> QED  BY <2>1 DEF RecordOf
  <1> QED  BY <1>1, <1>2, Zenon DEF Repoured

(* Pages are put on and taken off the document's undo.                     *)
LEMMA Pushed ==
    ASSUME NEW S, NEW s \in Seq(S), NEW e \in S PROVE Append(s, e) \in Seq(S)
  OBVIOUS

LEMMA Popped ==
    ASSUME NEW S, NEW s \in Seq(S), s # <<>> PROVE Last(s) \in S /\ Front(s) \in Seq(S)
  <1>1. Len(s) \in Nat \ {0}  BY EmptySeq
  <1>2. \A i \in 1 .. Len(s) : s[i] \in S  BY ElementOfSeq
  <1>3. Len(s) \in 1 .. Len(s) /\ 1 .. Len(s) - 1 \subseteq 1 .. Len(s) /\ Len(s) - 1 \in Int
    BY <1>1
  <1> DEFINE m == Len(s) - 1
  <1> HIDE DEF m
  <1>4. m \in Int /\ 1 \in Int /\ \A i \in 1 .. m : s[i] \in S  BY <1>2, <1>3 DEF m
  <1>5. SubSeq(s, 1, m) \in Seq(S)  BY <1>4, SubSeqProperties, Zenon
  <1> QED  BY <1>2, <1>3, <1>5, Zenon DEF Last, Front, m
(* What one write, or what is left of a refused one, does to the document. *)
LEMMA AppliedType ==
    ASSUME NEW n, page \in Shots(n), past \in Seq(Shots(n)), future \in Seq(Shots(n)),
           refresh \in Refreshes(n), Applied \/ Refused
    PROVE  page' \in Shots(n) /\ past' \in Seq(Shots(n)) /\ future' \in Seq(Shots(n))
  <1> DEFINE S == Shots(n)
             t == refresh.at
             poured == [page EXCEPT ![t].content = Repoured]
  <1>1. t \in Tables /\ refresh.version \in 0 .. n  BY RefreshParts, Zenon
  <1>2. Repoured \in [Ranges[t] -> Inputs]  BY RepouredType, Zenon
  <1>3. <<>> \in Seq(S)  BY EmptySeq, Zenon
  <1>4. CASE Applied
    <2>1. page' \in S  BY <1>1, <1>2, <1>4, ShotParts, Zenon DEF Applied
    <2>2. past' \in Seq(S)  BY <1>4, Pushed, Zenon DEF Applied
    <2> QED  BY <1>3, <1>4, <2>1, <2>2, Zenon DEF Applied
  <1>5. CASE Refused
    <2>1. PICK cellsTaken \in BOOLEAN, bindingTaken \in BOOLEAN :
             LET left == IF cellsTaken THEN poured ELSE page
             IN  /\ page' = IF bindingTaken
                              THEN [left EXCEPT ![t].version = refresh.version]
                              ELSE left
                 /\ past' = past \o (IF cellsTaken THEN <<page>> ELSE <<>>)
                                 \o (IF bindingTaken THEN <<left>> ELSE <<>>)
                 /\ future' = IF cellsTaken \/ bindingTaken THEN <<>> ELSE future
      BY <1>5, Zenon DEF Refused
    <2> DEFINE left == IF cellsTaken THEN poured ELSE page
               first == IF cellsTaken THEN <<page>> ELSE <<>>
               second == IF bindingTaken THEN <<left>> ELSE <<>>
    <2>2. poured \in S  BY <1>1, <1>2, ShotParts, Zenon
    <2>3. left \in S  BY <2>2, Zenon
    <2>4. [left EXCEPT ![t].version = refresh.version] \in S
      <3>1. \A s \in Shots(n) : [s EXCEPT ![t].version = refresh.version] \in Shots(n)
        BY <1>1, <1>2, ShotParts, Zenon
      <3> QED  BY <2>3, <3>1, Zenon
    <2>5. page' \in S  BY <2>1, <2>3, <2>4, Zenon
    <2>6. ASSUME NEW s \in S PROVE <<s>> \in Seq(S)
      <3> HIDE DEF S
      <3> QED  OBVIOUS
    <2>7. first \in Seq(S) /\ second \in Seq(S)  BY <1>3, <2>3, <2>6, Zenon
    <2>8. past \o first \o second \in Seq(S)
      <3> HIDE DEF S, first, second
      <3>1. past \in Seq(S)  BY Zenon DEF S
      <3>2. past \o first \in Seq(S)  BY <2>7, <3>1, ConcatProperties, Zenon
      <3> QED  BY <2>7, <3>2, ConcatProperties, Zenon
    <2>9. past' = past \o first \o second  BY <2>1, Zenon
    <2>10. future' \in Seq(S)  BY <1>3, <2>1, Zenon
    <2> QED  BY <2>5, <2>8, <2>9, <2>10, Zenon
  <1> QED  BY <1>4, <1>5

LEMMA FaultsCounted ==
    ASSUME faults \in Nat, Fails \/ Succeeds PROVE faults' \in Nat
  BY DEF Fails, Succeeds

LEMMA TableWrittenKept == ASSUME IInv, TableWritten PROVE IInv'
  <1> DEFINE S == Shots(revision)
  <1>1. UNCHANGED <<book, revision>> /\ refresh # None  BY Zenon DEF TableWritten
  <1>2. JInv'  BY <1>1, JournalUnmoved DEF IInv
  <1>3. /\ placed \in S /\ page \in S /\ past \in Seq(S) /\ future \in Seq(S)
        /\ refresh \in Refreshes(revision) /\ revision \in Nat
    BY <1>1, Zenon DEF IInv, TypeOK, PagesOK, JournalOK
  <1>4. /\ refresh.version \in 0 .. revision /\ refresh.infos \in S /\ refresh.at \in Tables
        /\ refresh.next \in [Ranges[refresh.at] -> Inputs]
    BY <1>3, RefreshParts, Zenon
  <1> DEFINE Typed == /\ placed' \in S /\ page' \in S /\ past' \in Seq(S) /\ future' \in Seq(S)
                      /\ refresh' # None => refresh' \in Refreshes(revision)
                      /\ faults' \in Nat
  <1>5. Typed
    <2>1. ASSUME Applied \/ Refused,
                 placed' = [placed EXCEPT
                   ![refresh.at] = [version |-> refresh.version, content |-> refresh.next]],
                 GoOn(refresh.at + 1, refresh.infos, refresh.version)
          PROVE  Typed
      <3>1. placed' \in S  BY <1>3, <1>4, <2>1, ShotParts, Zenon
      <3>2. page' \in S /\ past' \in Seq(S) /\ future' \in Seq(S)
        BY <1>3, <2>1, AppliedType, Zenon
      <3>3. refresh.at + 1 \in Nat \ {0}  BY <1>4 DEF Tables
      <3>4. refresh' # None => refresh' \in Refreshes(revision)
        BY <1>4, <2>1, <3>3, GoOnType, Zenon DEF IInv, TypeOK
      <3>5. faults' \in Nat
        BY <2>1, FaultsCounted, Zenon DEF Applied, Refused, IInv, TypeOK, CountsOK
      <3> QED  BY <3>1, <3>2, <3>4, <3>5, Zenon
    <2>2. ASSUME Fails, refresh' = None, UNCHANGED <<placed, document>>
          PROVE  Typed
      BY <1>3, <2>2, FaultsCounted, Zenon DEF document, IInv, TypeOK, CountsOK
    <2> QED  BY <2>1, <2>2, Zenon DEF TableWritten
  <1>6. PagesOK'
    BY <1>1, <1>5, Zenon DEF TableWritten, follower, IInv, TypeOK, PagesOK
  <1>7. CountsOK'
    BY <1>1, <1>5, Zenon DEF TableWritten, frame, due, follower, book, IInv, TypeOK, CountsOK
  <1> QED  BY <1>2, <1>6, <1>7, Zenon DEF IInv, TypeOK, JInv
-----------------------------------------------------------------------------
(* The document's undo and the follower                                    *)

LEMMA DocStepKept ==
    ASSUME IInv, DocStep,
           page' \in Shots(revision), past' \in Seq(Shots(revision)), future' \in Seq(Shots(revision))
    PROVE  IInv'
  <1>1. UNCHANGED <<book, revision>>  BY Zenon DEF DocStep
  <1>2. JInv'  BY <1>1, JournalUnmoved DEF IInv
  <1>3. PagesOK'  BY <1>1, Zenon DEF DocStep, shown, IInv, TypeOK, PagesOK
  <1>4. docSteps' \in Nat /\ follow' \in Nat  BY DEF DocStep, IInv, TypeOK, CountsOK
  <1>5. calm' \in BOOLEAN  BY Zenon DEF DocStep
  <1>6. CountsOK'
    BY <1>1, <1>4, <1>5, Zenon DEF DocStep, frame, due, book, IInv, TypeOK, CountsOK
  <1> QED  BY <1>2, <1>3, <1>6, Zenon DEF IInv, TypeOK, JInv

LEMMA DocUndoKept == ASSUME IInv, DocUndo PROVE IInv'
  <1> DEFINE S == Shots(revision)
  <1>1. page \in S /\ past \in Seq(S) /\ future \in Seq(S)  BY Zenon DEF IInv, TypeOK, PagesOK
  <1>2. page' \in S /\ past' \in Seq(S) /\ future' \in Seq(S)
    <2> HIDE DEF S
    <2> QED  BY <1>1, Popped, Pushed, Zenon DEF DocUndo
  <1> QED  BY <1>2, DocStepKept, Zenon DEF DocUndo

LEMMA DocRedoKept == ASSUME IInv, DocRedo PROVE IInv'
  <1> DEFINE S == Shots(revision)
  <1>1. page \in S /\ past \in Seq(S) /\ future \in Seq(S)  BY Zenon DEF IInv, TypeOK, PagesOK
  <1>2. page' \in S /\ past' \in Seq(S) /\ future' \in Seq(S)
    <2> HIDE DEF S
    <2> QED  BY <1>1, Popped, Pushed, Zenon DEF DocRedo
  <1> QED  BY <1>2, DocStepKept, Zenon DEF DocRedo

LEMMA VersionOf ==
    ASSUME NEW n, NEW s \in Shots(n), NEW t \in Tables PROVE s[t].version \in 0 .. n
  <1>1. s[t] \in RecordOf(n, t)  BY ShotIs, Zenon
  <1> QED  BY <1>1 DEF RecordOf

(* Hearing a version keeps what the follower knows a reading.              *)
LEMMA MovedType ==
    ASSUME NEW n \in Nat, reading \in Readings(n), NEW version \in 0 .. n
    PROVE  Moved(version) \in Readings(n) /\ Moved(version).at = reading.at
  <1>1. version # None /\ reading.known \in 0 .. n /\ reading.known # None
    BY DEF Readings
  <1>2. CASE version = reading.known  BY <1>2, Zenon DEF Moved
  <1>3. CASE version # reading.known
    <2>1. Moved(version) = [reading EXCEPT
            !.target = IF reading.target = None THEN version ELSE reading.target,
            !.from = IF reading.from = None THEN reading.known ELSE reading.from,
            !.moved = reading.moved \cup {reading.at}]
      BY <1>3 DEF Moved
    <2>2. /\ reading.at \in Tables /\ reading.moved \cup {reading.at} \in SUBSET Tables
          /\ (reading.target = None <=> reading.from = None)
      BY DEF Readings
    <2>3. CASE reading.target = None
      <3>1. Moved(version) = [reading EXCEPT !.target = version, !.from = reading.known,
                                             !.moved = reading.moved \cup {reading.at}]
        BY <2>1, <2>2, <2>3, Zenon
      <3> QED  BY <1>1, <2>2, <3>1 DEF Readings
    <2>4. CASE reading.target # None
      <3>1. Moved(version) = [reading EXCEPT !.target = reading.target, !.from = reading.from,
                                             !.moved = reading.moved \cup {reading.at}]
        BY <2>1, <2>2, <2>4, Zenon
      <3> QED  BY <1>1, <2>2, <2>4, <3>1 DEF Readings
    <2> QED  BY <2>3, <2>4
  <1> QED  BY <1>2, <1>3

LEMMA FollowUnmoved ==
    ASSUME IInv, UNCHANGED <<book, revision, frame, due, shown, document, docSteps, calm>>,
           reading' # None => reading' \in Readings(revision), follow' \in Nat, faults' \in Nat
    PROVE  IInv'
  <1>1. JInv'  BY JournalUnmoved DEF IInv
  <1>2. PagesOK'  BY Zenon DEF shown, document, IInv, TypeOK, PagesOK
  <1>3. CountsOK'  BY Zenon DEF frame, due, book, IInv, TypeOK, CountsOK
  <1> QED  BY <1>1, <1>2, <1>3, Zenon DEF IInv, TypeOK, JInv

LEMMA FirstTable == 1 \in Tables /\ Len(Ranges) \in Nat \ {0}
  BY EmptySeq DEF Tables

LEMMA FollowBeginsKept == ASSUME IInv, FollowBegins PROVE IInv'
  <1>1. revision \in Nat /\ placed \in Shots(revision)  BY DEF IInv, TypeOK, JournalOK, PagesOK
  <1>2. placed[1].version \in 0 .. revision  BY <1>1, FirstTable, VersionOf, Zenon
  <1>3. reading' \in Readings(revision)  BY <1>2, FirstTable DEF FollowBegins, Readings
  <1>4. follow' \in Nat  BY DEF FollowBegins, IInv, TypeOK, CountsOK
  <1>5. faults' \in Nat  BY DEF FollowBegins, IInv, TypeOK, CountsOK
  <1> QED  BY <1>3, <1>4, <1>5, FollowUnmoved, Zenon DEF FollowBegins

(* What it can know once a binding has answered.                           *)
LEMMA HeardType ==
    ASSUME IInv, reading # None, NEW known \in {reading, Moved(page[reading.at].version)}
    PROVE  known \in Readings(revision) /\ known.at = reading.at
  <1>1. /\ revision \in Nat /\ page \in Shots(revision) /\ reading \in Readings(revision)
    BY DEF IInv, TypeOK, JournalOK, PagesOK
  <1>2. reading.at \in Tables  BY <1>1 DEF Readings
  <1>3. page[reading.at].version \in 0 .. revision  BY <1>1, <1>2, VersionOf, Zenon
  <1>4. Moved(page[reading.at].version) \in Readings(revision)
        /\ Moved(page[reading.at].version).at = reading.at
    BY <1>1, <1>3, MovedType
  <1> QED  BY <1>1, <1>4, Zenon

LEMMA FollowReadsKept == ASSUME IInv, FollowReads PROVE IInv'
  <1>1. PICK known \in {reading, Moved(page[reading.at].version)} :
          /\ Heard(known)
          /\ reading' = [known EXCEPT !.at = known.at + 1, !.known = placed[reading.at + 1].version]
    BY Zenon DEF FollowReads
  <1>2. known \in Readings(revision) /\ known.at = reading.at /\ reading.at < Len(Ranges)
    BY HeardType, Zenon DEF FollowReads
  <1>3. revision \in Nat /\ placed \in Shots(revision)  BY DEF IInv, TypeOK, JournalOK, PagesOK
  <1>4. known.at \in Tables  BY <1>2 DEF Readings
  <1>5. known.at + 1 \in Tables  BY <1>2, <1>4, FirstTable DEF Tables
  <1>6. placed[reading.at + 1].version \in 0 .. revision  BY <1>2, <1>3, <1>5, VersionOf, Zenon
  <1>7. reading' \in Readings(revision)  BY <1>1, <1>2, <1>5, <1>6 DEF Readings
  <1>8. faults' \in Nat
    <2>1. Fails \/ Succeeds  BY <1>1, Zenon DEF Heard
    <2> QED  BY <2>1, FaultsCounted DEF IInv, TypeOK, CountsOK
  <1>9. follow' \in Nat  BY DEF FollowReads, IInv, TypeOK, CountsOK
  <1> QED  BY <1>7, <1>8, <1>9, FollowUnmoved, Zenon DEF FollowReads

LEMMA RebasedType ==
    ASSUME NEW n \in Nat, placed \in Shots(n), NEW known \in Readings(n), known.target # None
    PROVE  Rebased(known) \in Shots(n)
  <1>1. known.target \in 0 .. n  BY DEF Readings
  <1>2. ASSUME NEW t \in Tables PROVE Rebased(known)[t] \in RecordOf(n, t)
    <2>1. placed[t] \in RecordOf(n, t)  BY ShotIs, Zenon
    <2>2. [placed[t] EXCEPT !.version = known.target] \in RecordOf(n, t)
      <3>1. placed[t].content \in [Ranges[t] -> Inputs]  BY <2>1 DEF RecordOf
      <3> QED  BY <1>1, <3>1, ShotParts, Zenon
    <2> QED  BY <2>1, <2>2, Zenon DEF Rebased
  <1>3. \A t \in Tables : Rebased(known)[t] \in [version : 0 .. n, content : Contents]
    BY <1>2, RecordFits
  <1>4. Rebased(known) \in [Tables -> [version : 0 .. n, content : Contents]]
    BY <1>3, Zenon DEF Rebased
  <1> QED  BY <1>2, <1>4, ShotIs, Zenon

LEMMA FollowEndsKept == ASSUME IInv, FollowEnds PROVE IInv'
  <1>1. PICK known \in {reading, Moved(page[reading.at].version)} :
         IF known.target = None
           THEN Heard(known) /\ UNCHANGED <<cells, cursor, revision, placed>>
           ELSE /\ known = Moved(page[reading.at].version)
                /\ StepTo(IF known.target < known.from THEN UnwindTo(known.target)
                                                       ELSE ForwardTo(known.target))
                /\ placed' = Rebased(known)
    BY Zenon DEF FollowEnds
  <1>2. known \in Readings(revision)  BY HeardType, Zenon DEF FollowEnds
  <1>3. revision \in Nat /\ placed \in Shots(revision) /\ JInv
    BY DEF IInv, TypeOK, JournalOK, PagesOK
  <1>4. reading' = None /\ UNCHANGED <<journal, batches, edits, frame, due, refresh, document, follow,
                                       docSteps, calm>>
    BY Zenon DEF FollowEnds
  <1>5. CASE known.target = None
    <2>1. Heard(known) /\ UNCHANGED <<cells, cursor, revision, placed>>  BY <1>1, <1>5, Zenon
    <2>2. JInv'  BY <1>3, <1>4, <2>1, JournalUnmoved, Zenon DEF book
    <2>3. PagesOK'  BY <1>4, <2>1, Zenon DEF document, IInv, TypeOK, PagesOK
    <2>4. faults' \in Nat
      <3>1. Fails \/ Succeeds  BY <2>1, Zenon DEF Heard
      <3> QED  BY <3>1, FaultsCounted DEF IInv, TypeOK, CountsOK
    <2>5. CountsOK'  BY <1>4, <2>4, Zenon DEF frame, due, IInv, TypeOK, CountsOK
    <2> QED  BY <2>2, <2>3, <2>5, Zenon DEF IInv, TypeOK, JInv
  <1>6. CASE known.target # None
    <2> DEFINE goal == IF known.target < known.from THEN UnwindTo(known.target)
                                                    ELSE ForwardTo(known.target)
    <2>1. StepTo(goal) /\ placed' = Rebased(known)  BY <1>1, <1>6, Zenon
    <2>2. known.target \in Nat  BY <1>2, <1>3, <1>6 DEF Readings
    <2>3. goal \in 0 .. Len(journal) /\ Boundary(goal)
      BY <1>3, <2>2, UnwindStopsBetweenBatches, ForwardStopsBetweenBatches, Zenon
    <2> HIDE DEF goal
    <2>4. JInv' /\ revision <= revision'  BY <1>3, <1>4, <2>1, <2>3, StepKept, Zenon
    <2>5. revision' \in Nat  BY <2>4, Zenon DEF JInv, JournalOK
    <2>6. /\ Shots(revision) \subseteq Shots(revision')
          /\ Seq(Shots(revision)) \subseteq Seq(Shots(revision'))
          /\ Refreshes(revision) \subseteq Refreshes(revision')
      BY <1>3, <2>4, <2>5, VersionsGrow, Zenon
    <2>7. placed' \in Shots(revision')  BY <1>2, <1>3, <1>6, <2>1, <2>6, RebasedType, Zenon
    <2>8. /\ page' \in Shots(revision')
          /\ past' \in Seq(Shots(revision')) /\ future' \in Seq(Shots(revision'))
          /\ (refresh' # None => refresh' \in Refreshes(revision'))
      BY <1>4, <2>6, Zenon DEF document, IInv, TypeOK, PagesOK
    <2>9. PagesOK'  BY <1>4, <2>7, <2>8, Zenon DEF PagesOK
    <2>10. faults' \in Nat
      <3>1. faults \in Nat  BY DEF IInv, TypeOK, CountsOK
      <3> QED  BY <2>1, <3>1, StepCounts, Zenon
    <2>11. CountsOK'  BY <1>4, <2>10, Zenon DEF frame, due, IInv, TypeOK, CountsOK
    <2> QED  BY <2>4, <2>9, <2>11, Zenon DEF IInv, TypeOK, JInv
  <1> QED  BY <1>5, <1>6

-----------------------------------------------------------------------------
LEMMA InitHolds == ASSUME Init PROVE IInv
  <1>1. cells \in Texts  BY DEF Init, Texts
  <1>2. journal = <<>> /\ cursor = 0 /\ batches = 0 /\ revision = 0  BY DEF Init
  <1>3. Len(journal) = 0 /\ journal \in Seq(Entries)  BY <1>2
  <1>4. JInv
    BY <1>1, <1>2, <1>3 DEF JInv, JournalOK, BatchesCounted, Stamped, BatchesWhole, Boundary
  <1>5. FirstShot \in Shots(0)
    <2>1. ASSUME NEW t \in Tables PROVE FirstShot[t] \in RecordOf(0, t)
      BY <2>1 DEF FirstShot, RecordOf
    <2>2. \A t \in Tables : FirstShot[t] \in [version : 0 .. 0, content : Contents]
      BY <2>1, RecordFits
    <2>3. FirstShot \in [Tables -> [version : 0 .. 0, content : Contents]]
      BY <2>2, Zenon DEF FirstShot
    <2> QED  BY <2>1, <2>3, ShotIs, Zenon
  <1>6. <<>> \in Seq(Shots(0))  BY EmptySeq, Zenon
  <1>7. PagesOK  BY <1>2, <1>5, <1>6, Zenon DEF Init, PagesOK
  <1>8. CountsOK
    <2>1. 0 \in Nat  OBVIOUS
    <2> QED  BY <2>1, Zenon DEF Init, CountsOK
  <1> QED  BY <1>4, <1>7, <1>8, Zenon DEF IInv, TypeOK, JInv

LEMMA StutterKept == ASSUME IInv, UNCHANGED vars PROVE IInv'
  <1>1. UNCHANGED <<book, revision, frame, due, shown, document, follower, docSteps, calm, faults>>
    BY Zenon DEF vars, book, frame, due, shown, document, follower
  <1>2. reading' # None => reading' \in Readings(revision)
    BY <1>1, Zenon DEF follower, IInv, TypeOK, PagesOK
  <1>3. follow' \in Nat /\ faults' \in Nat  BY <1>1, Zenon DEF follower, IInv, TypeOK, CountsOK
  <1> QED  BY <1>1, <1>2, <1>3, FollowUnmoved, Zenon

LEMMA NextKept == ASSUME IInv, [Next]_vars PROVE IInv'
  <1>1. ASSUME EditCell \/ EditBatch \/ InsertRow PROVE IInv'
    BY <1>1, EditCellKept, EditBatchKept, InsertRowKept, Zenon
  <1>2. ASSUME UndoEdit \/ RedoEdit PROVE IInv'
    BY <1>2, UndoEditKept, RedoEditKept, Zenon
  <1>3. ASSUME EnterFrame \/ LeaveFrame \/ TimerFires PROVE IInv'
    BY <1>3, FrameKept, Zenon
  <1>4. ASSUME Refreshing PROVE IInv'
    BY <1>4, RefreshBeginsKept, TableWrittenKept, Zenon DEF Refreshing
  <1>5. ASSUME DocUndo \/ DocRedo PROVE IInv'
    BY <1>5, DocUndoKept, DocRedoKept, Zenon
  <1>6. ASSUME Following PROVE IInv'
    BY <1>6, FollowBeginsKept, FollowReadsKept, FollowEndsKept, Zenon DEF Following
  <1> QED  BY <1>1, <1>2, <1>3, <1>4, <1>5, <1>6, StutterKept, Zenon DEF Next

LEMMA Invariance == Spec => []IInv
  BY InitHolds, NextKept, PTL DEF Spec

(***************************************************************************)
(* The journal, the cursor and whatever is recorded of the tables keep     *)
(* their shapes, and nobody holds a version the workbook has not reached.  *)
(***************************************************************************)
THEOREM TypeCorrect == Spec => []TypeOK
  <1>1. IInv => TypeOK  BY DEF IInv
  <1> QED  BY <1>1, Invariance, PTL

(***************************************************************************)
(* The cursor never rests inside a batch: undo and redo take a whole sort, *)
(* paste or fill, also after a step that failed half-way, and also when    *)
(* the document's undo moved the journal by version stamps.                *)
(***************************************************************************)
THEOREM BatchesWholeCorrect == Spec => []BatchesWhole
  <1>1. IInv => BatchesWhole  BY DEF IInv, JInv
  <1> QED  BY <1>1, Invariance, PTL

(***************************************************************************)
(* Along the journal the version stamps grow from one operation to the     *)
(* next, are equal exactly inside one, and never exceed the version of the *)
(* workbook, so a version tells the follower where to stop.                *)
(***************************************************************************)
THEOREM StampedCorrect == Spec => []Stamped
  <1>1. IInv => Stamped  BY DEF IInv, JInv
  <1> QED  BY <1>1, Invariance, PTL
-----------------------------------------------------------------------------
(* The journal as a history of whole workbooks                             *)

(* Until a step fails half-way, every entry holds what its cell had before *)
(* and after it.                                                           *)
Consistent ==
    faults = 0 => \A i \in 1 .. Len(journal) :
        /\ TextAt(i - 1)[journal[i].cell] = journal[i].prev
        /\ TextAt(i)[journal[i].cell] = journal[i].next

HInv == IInv /\ Consistent

Undone(p, c) == {i \in p + 1 .. cursor : journal[i].cell = c}
Redone(p, c) == {i \in cursor + 1 .. p : journal[i].cell = c}

LEMMA TextAtIs ==
    ASSUME NEW p, NEW c \in Cells
    PROVE  TextAt(p)[c] = IF Undone(p, c) # {} THEN journal[Min(Undone(p, c))].prev
                          ELSE IF Redone(p, c) # {} THEN journal[Max(Redone(p, c))].next
                          ELSE cells[c]
  BY DEF TextAt, Undone, Redone

LEMMA TextAtShape == ASSUME NEW p PROVE TextAt(p) = [c \in Cells |-> TextAt(p)[c]]
  BY DEF TextAt

(* The least and the greatest of two sets of numbers.                      *)
LEMMA MinIs ==
    ASSUME NEW S \in SUBSET Nat, NEW m \in S, \A i \in S : m <= i
    PROVE  Min(S) = m
  <1>1. Min(S) \in S /\ \A i \in S : Min(S) <= i  BY MinIsLeast
  <1>2. Min(S) \in Nat /\ m \in Nat  BY <1>1
  <1>3. Min(S) <= m /\ m <= Min(S)  BY <1>1, Zenon
  <1> QED  BY <1>2, <1>3

LEMMA MaxIs ==
    ASSUME NEW S \in SUBSET Nat, NEW m \in S, \A i \in S : i <= m
    PROVE  Max(S) = m
  <1>0. m \in Nat  OBVIOUS
  <1>1. Max(S) \in S /\ \A i \in S : Max(S) >= i  BY <1>0, MaxIsGreatest, Zenon
  <1>2. Max(S) \in Nat  BY <1>1
  <1>3. Max(S) >= m /\ Max(S) <= m  BY <1>1, Zenon
  <1> QED  BY <1>0, <1>2, <1>3

(* A cell keeps its text over places where no entry is about it.           *)
LEMMA SameAcross ==
    ASSUME JInv, NEW p \in 0 .. Len(journal), NEW q \in 0 .. Len(journal), NEW c \in Cells,
           \A i \in p + 1 .. q : journal[i].cell # c,
           p <= q
    PROVE  TextAt(p)[c] = TextAt(q)[c]
  <1>1. cursor \in Nat /\ cursor <= Len(journal) /\ Len(journal) \in Nat  BY JournalNumbers DEF JInv
  <1>2. Undone(p, c) = Undone(q, c)  BY <1>1 DEF Undone
  <1>3. Redone(p, c) = Redone(q, c)  BY <1>1 DEF Redone
  <1> QED  BY <1>2, <1>3, TextAtIs, Zenon

(* The cursor moves to k and the cells take the text of k: a place beyond  *)
(* k keeps its text, and while the journal is consistent every place does. *)
LEMMA CursorMoves ==
    ASSUME JInv, NEW k \in 0 .. Len(journal), NEW q \in 0 .. Len(journal),
           journal' = journal, cursor' = k, cells' = TextAt(k),
           \/ faults = 0 /\ Consistent
           \/ k <= cursor /\ q <= k
           \/ cursor <= k /\ k <= q
    PROVE  TextAt(q)' = TextAt(q)
  <1>1. /\ cursor \in Nat /\ cursor <= Len(journal) /\ Len(journal) \in Nat
        /\ \A i \in 1 .. Len(journal) : journal[i] \in Entries
    BY JournalNumbers DEF JInv
  <1>7. /\ TextAt(q) = [c \in Cells |-> TextAt(q)[c]]
        /\ TextAt(q)' = [c \in Cells |-> TextAt(q)'[c]]
    BY Zenon DEF TextAt
  <1> SUFFICES ASSUME NEW c \in Cells PROVE TextAt(q)'[c] = TextAt(q)[c]
    BY <1>7, Zenon
  <1> DEFINE undone == {i \in q + 1 .. k : journal[i].cell = c}
             redone == {i \in k + 1 .. q : journal[i].cell = c}
  <1>2. TextAt(q)'[c] = IF undone # {} THEN journal[Min(undone)].prev
                        ELSE IF redone # {} THEN journal[Max(redone)].next
                        ELSE TextAt(k)[c]
    BY DEF TextAt
  <1>3. undone \in SUBSET Nat /\ redone \in SUBSET Nat  BY <1>1
  <1>4. CASE undone = {} /\ redone = {}
    <2>1. TextAt(q)'[c] = TextAt(k)[c]  BY <1>2, <1>4, Zenon
    <2>2. CASE q <= k
      <3>1. \A i \in q + 1 .. k : journal[i].cell # c  BY <1>4
      <3> QED  BY <2>1, <2>2, <3>1, SameAcross
    <2>3. CASE k <= q
      <3>1. \A i \in k + 1 .. q : journal[i].cell # c  BY <1>4
      <3> QED  BY <2>1, <2>3, <3>1, SameAcross
    <2> QED  BY <1>1, <2>2, <2>3
  <1>5. CASE undone # {}
    <2>1. PICK m \in undone : \A i \in undone : m <= i
      <3> HIDE DEF undone
      <3> QED  BY <1>3, <1>5, LeastNatural
    <2>2. Min(undone) = m
      <3> HIDE DEF undone
      <3> QED  BY <1>3, <2>1, MinIs
    <2>3. TextAt(q)'[c] = journal[m].prev  BY <1>2, <1>5, <2>2, Zenon
    <2>4. /\ m \in q + 1 .. k /\ journal[m].cell = c
          /\ \A i \in q + 1 .. m - 1 : journal[i].cell # c
      <3>1. ASSUME NEW i \in q + 1 .. m - 1, journal[i].cell = c PROVE FALSE
        BY <1>1, <2>1, <3>1
      <3> QED  BY <2>1, <3>1
    <2>5. CASE k <= cursor
      <3>1. m \in Undone(q, c) /\ Undone(q, c) \in SUBSET Nat  BY <1>1, <2>4, <2>5 DEF Undone
      <3>2. \A i \in Undone(q, c) : m <= i  BY <1>1, <2>4 DEF Undone
      <3>3. Min(Undone(q, c)) = m  BY <3>1, <3>2, MinIs, Zenon
      <3>4. Undone(q, c) # {}  BY <3>1
      <3> QED  BY <2>3, <3>3, <3>4, TextAtIs, Zenon
    <2>6. CASE faults = 0 /\ Consistent
      <3>1. m \in 1 .. Len(journal) /\ m - 1 \in 0 .. Len(journal) /\ q <= m - 1  BY <1>1, <2>4
      <3>2. TextAt(m - 1)[c] = journal[m].prev  BY <2>4, <2>6, <3>1 DEF Consistent
      <3>3. TextAt(q)[c] = TextAt(m - 1)[c]  BY <2>4, <3>1, SameAcross
      <3> QED  BY <2>3, <3>2, <3>3
    <2>7. q < k  BY <1>1, <2>4
    <2> QED  BY <1>1, <2>5, <2>6, <2>7
  <1>6. CASE undone = {} /\ redone # {}
    <2>1. PICK m \in redone : \A i \in redone : i <= m
      <3>1. \A i \in redone : i <= q  BY <1>1
      <3>2. q \in Nat  BY <1>1
      <3> HIDE DEF redone
      <3>3. \E n \in redone : \A i \in redone : n >= i  BY <1>3, <1>6, <3>1, <3>2, GreatestNatural
      <3> QED  BY <3>3, <1>3
    <2>2. Max(redone) = m
      <3> HIDE DEF redone
      <3> QED  BY <1>3, <2>1, MaxIs
    <2>3. TextAt(q)'[c] = journal[m].next  BY <1>2, <1>6, <2>2, Zenon
    <2>4. /\ m \in k + 1 .. q /\ journal[m].cell = c
          /\ \A i \in m + 1 .. q : journal[i].cell # c
      <3>1. ASSUME NEW i \in m + 1 .. q, journal[i].cell = c PROVE FALSE
        BY <1>1, <2>1, <3>1
      <3> QED  BY <2>1, <3>1
    <2>5. CASE cursor <= k
      <3>1. m \in Redone(q, c) /\ Redone(q, c) \in SUBSET Nat  BY <1>1, <2>4, <2>5 DEF Redone
      <3>2. \A i \in Redone(q, c) : i <= m  BY <1>1, <2>4 DEF Redone
      <3>3. Max(Redone(q, c)) = m  BY <3>1, <3>2, MaxIs, Zenon
      <3>4. Redone(q, c) # {} /\ Undone(q, c) = {}  BY <1>1, <2>4, <2>5, <3>1 DEF Undone
      <3> QED  BY <2>3, <3>3, <3>4, TextAtIs, Zenon
    <2>6. CASE faults = 0 /\ Consistent
      <3>1. m \in 1 .. Len(journal) /\ m \in 0 .. Len(journal) /\ m <= q  BY <1>1, <2>4
      <3>2. TextAt(m)[c] = journal[m].next  BY <2>4, <2>6, <3>1 DEF Consistent
      <3>3. TextAt(m)[c] = TextAt(q)[c]  BY <2>4, <3>1, SameAcross
      <3> QED  BY <2>3, <3>2, <3>3
    <2>7. k < q  BY <1>1, <2>4
    <2> QED  BY <1>1, <2>5, <2>6, <2>7
  <1> QED  BY <1>4, <1>5, <1>6

(* The entries of one write: one for each of its cells.                    *)
EntriesOf(W, new) ==
    /\ \A j \in cursor + 1 .. cursor' :
         /\ journal'[j].cell \in W
         /\ journal'[j].prev = cells[journal'[j].cell]
         /\ journal'[j].next = new[journal'[j].cell]
    /\ \A c \in W : \E j \in cursor + 1 .. cursor' : journal'[j].cell = c
    /\ \A j, l \in cursor + 1 .. cursor' : journal'[j].cell = journal'[l].cell => j = l

LEMMA RecordEntries ==
    ASSUME JInv, NEW W \in SUBSET Cells, NEW new \in [W -> Inputs], NEW batch \in Nat,
           Record(new, batch)
    PROVE  EntriesOf(W, new)
  <1>1. cursor \in Nat /\ revision \in Nat  BY JournalNumbers DEF JInv
  <1>2. Cardinality(W) \in Nat /\ cursor' = cursor + Cardinality(W)  BY RecordShape DEF JInv
  <1>3. PICK at \in Orders(W) : \A i \in 1 .. Cardinality(W) :
            journal'[cursor + i] = Entry(at[i], new[at[i]], batch, revision + 1)
    BY RecordShape DEF JInv
  <1>4. /\ \A i \in 1 .. Cardinality(W) : at[i] \in W
        /\ \A i, j \in 1 .. Cardinality(W) : i < j => at[i] < at[j]
        /\ \A c \in W : \E i \in 1 .. Cardinality(W) : at[i] = c
    BY DEF Orders
  <1>5. ASSUME NEW i \in 1 .. Cardinality(W)
        PROVE  /\ journal'[cursor + i].cell = at[i]
               /\ journal'[cursor + i].prev = cells[at[i]]
               /\ journal'[cursor + i].next = new[at[i]]
    <2>1. journal'[cursor + i] = Entry(at[i], new[at[i]], batch, revision + 1)  BY <1>3
    <2> QED  BY <2>1 DEF Entry
  <1>6. ASSUME NEW j \in cursor + 1 .. cursor'
        PROVE  j - cursor \in 1 .. Cardinality(W) /\ j = cursor + (j - cursor)
    BY <1>1, <1>2
  <1>7. \A i, j \in 1 .. Cardinality(W) : at[i] = at[j] => i = j
    <2>1. ASSUME NEW i \in 1 .. Cardinality(W), NEW j \in 1 .. Cardinality(W), i < j
          PROVE  at[i] # at[j]
      <3>1. at[i] < at[j]  BY <1>4, <2>1
      <3>2. at[i] \in Nat /\ at[j] \in Nat  BY <1>4 DEF Cells
      <3> QED  BY <3>1, <3>2
    <2> QED  BY <1>2, <2>1
  <1>8. ASSUME NEW j \in cursor + 1 .. cursor'
        PROVE  /\ journal'[j].cell = at[j - cursor]
               /\ journal'[j].prev = cells[at[j - cursor]]
               /\ journal'[j].next = new[at[j - cursor]]
    BY <1>5, <1>6, Zenon
  <1>9. ASSUME NEW j \in cursor + 1 .. cursor'
        PROVE  /\ journal'[j].cell \in W
               /\ journal'[j].prev = cells[journal'[j].cell]
               /\ journal'[j].next = new[journal'[j].cell]
    <2>1. j - cursor \in 1 .. Cardinality(W)  BY <1>6, Zenon
    <2> QED  BY <1>4, <1>8, <2>1, Zenon
  <1>10. ASSUME NEW c \in W PROVE \E j \in cursor + 1 .. cursor' : journal'[j].cell = c
    <2>1. PICK i \in 1 .. Cardinality(W) : at[i] = c  BY <1>4
    <2>2. cursor + i \in cursor + 1 .. cursor'  BY <1>1, <1>2
    <2>3. journal'[cursor + i].cell = c  BY <1>5, <2>1, Zenon
    <2> QED  BY <2>2, <2>3, Zenon
  <1>11. ASSUME NEW j \in cursor + 1 .. cursor', NEW l \in cursor + 1 .. cursor',
                journal'[j].cell = journal'[l].cell
         PROVE  j = l
    <2>1. at[j - cursor] = at[l - cursor]  BY <1>8, <1>11, Zenon
    <2>2. j - cursor = l - cursor  BY <1>6, <1>7, <2>1, Zenon
    <2> QED  BY <1>1, <2>2
  <1> QED  BY <1>9, <1>10, <1>11 DEF EntriesOf

LEMMA TextAtCursor == ASSUME JInv PROVE TextAt(cursor) = cells
  <1>1. cursor \in Nat /\ cells \in [Cells -> Inputs]  BY JournalNumbers DEF JInv, JournalOK, Texts
  <1>2. ASSUME NEW c \in Cells PROVE TextAt(cursor)[c] = cells[c]
    <2>1. Undone(cursor, c) = {} /\ Redone(cursor, c) = {}  BY <1>1 DEF Undone, Redone
    <2> QED  BY <2>1, TextAtIs, Zenon
  <1>3. TextAt(cursor) = [c \in Cells |-> TextAt(cursor)[c]]  BY TextAtShape
  <1>4. cells = [c \in Cells |-> cells[c]]  BY <1>1
  <1> QED  BY <1>2, <1>3, <1>4, Zenon

(* A write leaves the texts of all places up to the one it starts from.    *)
LEMMA RecordKeepsPast ==
    ASSUME JInv, NEW W \in SUBSET Cells, NEW new \in [W -> Inputs], NEW batch \in Nat,
           Record(new, batch), NEW p \in 0 .. cursor
    PROVE  TextAt(p)' = TextAt(p)
  <1>1. /\ cursor \in Nat /\ cursor <= Len(journal) /\ Len(journal) \in Nat
        /\ cursor' \in Nat /\ cursor <= cursor'
        /\ \A i \in 1 .. cursor : journal'[i] = journal[i]
    <2>1. Cardinality(W) \in Nat /\ cursor' = cursor + Cardinality(W)
          /\ \A i \in 1 .. cursor : journal'[i] = journal[i]
      BY RecordShape DEF JInv
    <2> QED  BY <2>1, JournalNumbers DEF JInv
  <1>2. \A j \in cursor + 1 .. cursor' :
            journal'[j].cell \in W /\ journal'[j].prev = cells[journal'[j].cell]
    BY RecordEntries DEF EntriesOf
  <1>3. \A c \in W : \E j \in cursor + 1 .. cursor' : journal'[j].cell = c
    BY RecordEntries DEF EntriesOf
  <1>4. /\ TextAt(p) = [c \in Cells |-> TextAt(p)[c]]
        /\ TextAt(p)' = [c \in Cells |-> TextAt(p)'[c]]
    BY Zenon DEF TextAt
  <1> SUFFICES ASSUME NEW c \in Cells PROVE TextAt(p)'[c] = TextAt(p)[c]
    BY <1>4, Zenon
  <1> DEFINE undone == {i \in p + 1 .. cursor' : journal'[i].cell = c}
             redone == {i \in cursor' + 1 .. p : journal'[i].cell = c}
  <1>5. TextAt(p)'[c] = IF undone # {} THEN journal'[Min(undone)].prev
                        ELSE IF redone # {} THEN journal'[Max(redone)].next
                        ELSE cells'[c]
    BY DEF TextAt
  <1>6. redone = {} /\ Redone(p, c) = {} /\ undone \in SUBSET Nat /\ Undone(p, c) \in SUBSET Nat
    BY <1>1 DEF Redone, Undone
  <1>7. CASE Undone(p, c) # {}
    <2>1. PICK m \in Undone(p, c) : \A i \in Undone(p, c) : m <= i  BY <1>6, <1>7, LeastNatural
    <2>2. Min(Undone(p, c)) = m  BY <1>6, <2>1, MinIs
    <2>3. m \in p + 1 .. cursor /\ journal[m].cell = c /\ journal'[m] = journal[m]
      BY <1>1, <2>1 DEF Undone
    <2>4. m \in undone  BY <1>1, <2>3
    <2>5. ASSUME NEW i \in undone PROVE m <= i
      <3>1. CASE i <= cursor
        <4>1. i \in Undone(p, c)  BY <1>1, <3>1 DEF Undone
        <4> QED  BY <2>1, <4>1
      <3> QED  BY <1>1, <2>3, <3>1
    <2>6. Min(undone) = m
      <3> HIDE DEF undone
      <3> QED  BY <1>6, <2>4, <2>5, MinIs
    <2>7. TextAt(p)'[c] = journal[m].prev  BY <1>5, <2>3, <2>4, <2>6, Zenon
    <2> QED  BY <1>7, <2>2, <2>7, TextAtIs, Zenon
  <1>8. CASE Undone(p, c) = {}
    <2>1. TextAt(p)[c] = cells[c]  BY <1>6, <1>8, TextAtIs, Zenon
    <2>2. ASSUME NEW i \in undone PROVE i \in cursor + 1 .. cursor' /\ journal'[i].cell = c
      <3>1. i \in p + 1 .. cursor' /\ journal'[i].cell = c  OBVIOUS
      <3>2. ASSUME i <= cursor PROVE FALSE
        <4>1. i \in p + 1 .. cursor /\ journal'[i] = journal[i]  BY <1>1, <3>1, <3>2
        <4>2. i \in Undone(p, c)  BY <3>1, <4>1 DEF Undone
        <4> QED  BY <1>8, <4>2
      <3> QED  BY <1>1, <3>1, <3>2
    <2>3. CASE undone # {}
      <3>1. Min(undone) \in undone
        <4> HIDE DEF undone
        <4> QED  BY <1>6, <2>3, MinIsLeast
      <3>2. journal'[Min(undone)].prev = cells[c]  BY <1>2, <2>2, <3>1, Zenon
      <3> QED  BY <1>5, <2>1, <2>3, <3>2, Zenon
    <2>4. CASE undone = {}
      <3>1. c \notin W
        <4>1. ASSUME NEW j \in cursor + 1 .. cursor', journal'[j].cell = c PROVE FALSE
          BY <1>1, <2>4, <4>1
        <4> QED  BY <1>3, <4>1, Zenon
      <3>2. cells'[c] = cells[c]  BY <3>1 DEF Record
      <3> QED  BY <1>5, <1>6, <2>1, <2>4, <3>2, Zenon
    <2> QED  BY <2>3, <2>4
  <1> QED  BY <1>7, <1>8
LEMMA RecordConsistent ==
    ASSUME JInv, Consistent, NEW W \in SUBSET Cells, NEW new \in [W -> Inputs],
           NEW batch \in Nat, Record(new, batch), faults' = faults
    PROVE  Consistent'
  <1>1. /\ cursor \in Nat /\ cursor <= Len(journal) /\ Len(journal) \in Nat
        /\ cursor' \in Nat /\ cursor <= cursor' /\ cursor' = Len(journal')
        /\ \A i \in 1 .. cursor : journal'[i] = journal[i]
    <2>1. Cardinality(W) \in Nat /\ cursor' = cursor + Cardinality(W) /\ cursor' = Len(journal')
          /\ \A i \in 1 .. cursor : journal'[i] = journal[i]
      BY RecordShape DEF JInv
    <2> QED  BY <2>1, JournalNumbers DEF JInv
  <1>2. \A j \in cursor + 1 .. cursor' :
            /\ journal'[j].cell \in W
            /\ journal'[j].prev = cells[journal'[j].cell]
            /\ journal'[j].next = new[journal'[j].cell]
    <2>1. EntriesOf(W, new)  BY RecordEntries, Zenon
    <2> QED  BY <2>1, Zenon DEF EntriesOf
  <1>3. \A j, l \in cursor + 1 .. cursor' : journal'[j].cell = journal'[l].cell => j = l
    <2>1. EntriesOf(W, new)  BY RecordEntries, Zenon
    <2> QED  BY <2>1, Zenon DEF EntriesOf
  <1> SUFFICES ASSUME faults = 0, NEW i \in 1 .. cursor'
               PROVE  /\ TextAt(i - 1)'[journal'[i].cell] = journal'[i].prev
                      /\ TextAt(i)'[journal'[i].cell] = journal'[i].next
    BY <1>1 DEF Consistent
  <1>4. CASE i <= cursor
    <2>1. i \in 1 .. Len(journal) /\ i \in 0 .. cursor /\ i - 1 \in 0 .. cursor /\ i \in 1 .. cursor
      BY <1>1, <1>4
    <2>2. TextAt(i)' = TextAt(i) /\ TextAt(i - 1)' = TextAt(i - 1)
      BY <2>1, RecordKeepsPast
    <2>3. journal'[i] = journal[i]  BY <1>1, <2>1
    <2>4. /\ TextAt(i - 1)[journal[i].cell] = journal[i].prev
          /\ TextAt(i)[journal[i].cell] = journal[i].next
      BY <2>1 DEF Consistent
    <2> QED  BY <2>2, <2>3, <2>4
  <1>5. CASE i \in cursor + 1 .. cursor'
    <2> DEFINE c == journal'[i].cell
    <2>1. /\ c \in W /\ c \in Cells
          /\ journal'[i].prev = cells[c] /\ journal'[i].next = new[c]
      BY <1>2, <1>5
    <2>2. TextAt(i)'[c] = journal'[i].next
      <3> DEFINE undone == {j \in i + 1 .. cursor' : journal'[j].cell = c}
                 redone == {j \in cursor' + 1 .. i : journal'[j].cell = c}
      <3>1. TextAt(i)'[c] = IF undone # {} THEN journal'[Min(undone)].prev
                            ELSE IF redone # {} THEN journal'[Max(redone)].next
                            ELSE cells'[c]
        BY <2>1, Zenon DEF TextAt
      <3>2. undone = {}
        <4>1. ASSUME NEW j \in undone PROVE FALSE
          <5>1. j \in cursor + 1 .. cursor' /\ j > i /\ journal'[j].cell = c  BY <1>1, <1>5, <4>1
          <5>2. j = i  BY <1>3, <1>5, <5>1, Zenon
          <5> QED  BY <1>1, <1>5, <5>1, <5>2
        <4> QED  BY <4>1
      <3>3. redone = {}  BY <1>1, <1>5
      <3>4. cells'[c] = new[c]  BY <2>1 DEF Record
      <3> QED  BY <2>1, <3>1, <3>2, <3>3, <3>4, Zenon
    <2>3. TextAt(i - 1)'[c] = journal'[i].prev
      <3> DEFINE undone == {j \in i - 1 + 1 .. cursor' : journal'[j].cell = c}
                 redone == {j \in cursor' + 1 .. i - 1 : journal'[j].cell = c}
      <3>1. TextAt(i - 1)'[c] = IF undone # {} THEN journal'[Min(undone)].prev
                                ELSE IF redone # {} THEN journal'[Max(redone)].next
                                ELSE cells'[c]
        BY <2>1, Zenon DEF TextAt
      <3>2. i \in undone /\ undone \in SUBSET Nat  BY <1>1, <1>5
      <3>3. ASSUME NEW j \in undone PROVE journal'[j].prev = cells[c]
        <4>1. j \in cursor + 1 .. cursor' /\ journal'[j].cell = c  BY <1>1, <1>5
        <4> QED  BY <1>2, <4>1, Zenon
      <3>4. Min(undone) \in undone
        <4> HIDE DEF undone
        <4> QED  BY <3>2, MinIsLeast
      <3>5. undone # {} /\ journal'[Min(undone)].prev = cells[c]  BY <3>2, <3>3, <3>4, Zenon
      <3> HIDE DEF undone
      <3> QED  BY <2>1, <3>1, <3>5, Zenon
    <2> QED  BY <2>2, <2>3
  <1> QED  BY <1>1, <1>4, <1>5

(* The places of the history lie between operations.                       *)
LEMMA PlacesAre ==
    ASSUME JInv
    PROVE  HistoryPlaces \subseteq 0 .. Len(journal) /\ cursor \in HistoryPlaces
  BY JournalNumbers DEF JInv, BatchesWhole, HistoryPlaces

LEMMA SavedShape ==
    ASSUME JInv
    PROVE  /\ Saved = [p \in HistoryPlaces |-> TextAt(p)] /\ DOMAIN Saved = HistoryPlaces
           /\ Saved \in [HistoryPlaces -> Texts] /\ Saved[cursor] = cells
  <1>1. \A p \in HistoryPlaces : TextAt(p) \in Texts  BY PlacesAre, TextAtType
  <1>2. TextAt(cursor) = cells  BY TextAtCursor
  <1> QED  BY <1>1, <1>2, PlacesAre, Zenon DEF Saved

(* What leaves the workbook, the journal and the cursor alone leaves the   *)
(* history alone.                                                          *)
LEMMA HistoryUnmoved ==
    ASSUME UNCHANGED <<cells, journal, cursor>>
    PROVE  Saved' = Saved /\ \A p : TextAt(p)' = TextAt(p)
  <1>1. \A p : TextAt(p)' = TextAt(p)  BY Zenon DEF TextAt
  <1>2. \A p : Boundary(p)' <=> Boundary(p)  BY Zenon DEF Boundary, Joined
  <1>3. HistoryPlaces' = HistoryPlaces  BY <1>2, Zenon DEF HistoryPlaces
  <1> QED  BY <1>1, <1>3, Zenon DEF Saved

(* The journal stays: so do its places.                                    *)
LEMMA PlacesStay ==
    ASSUME UNCHANGED journal PROVE HistoryPlaces' = HistoryPlaces
  <1>1. \A p : Boundary(p)' <=> Boundary(p)  BY Zenon DEF Boundary, Joined
  <1> QED  BY <1>1, Zenon DEF HistoryPlaces
(* So in the next state, where the invariant holds too.                    *)
SavedOK ==
    /\ HistoryPlaces \subseteq 0 .. Len(journal) /\ cursor \in HistoryPlaces
    /\ DOMAIN Saved = HistoryPlaces /\ Saved \in [HistoryPlaces -> Texts] /\ Saved[cursor] = cells

LEMMA SavedIs == JInv => SavedOK
  BY PlacesAre, SavedShape DEF SavedOK

LEMMA SavedIsThen == JInv' => SavedOK'
  BY SavedIs, PTL

LEMMA StrictlyBetween ==
    ASSUME NEW low \in Nat, NEW high \in Nat, NEW p \in 0 .. high, ~(p <= low), p # high
    PROVE  p \in low + 1 .. high - 1
  OBVIOUS

(* Where the write begins and where it ends one operation gives way to the *)
(* next; inside it nothing does.                                           *)
LEMMA RecordPlaces ==
    ASSUME JInv, NEW W \in SUBSET Cells, NEW new \in [W -> Inputs], NEW batch \in Nat,
           Record(new, batch), Cardinality(W) # 0,
           \/ batch = 0 /\ Cardinality(W) = 1
           \/ batch = batches + 1
    PROVE  /\ cursor' \in Nat /\ cursor < cursor'
           /\ HistoryPlaces' = {p \in HistoryPlaces : p <= cursor} \cup {cursor'}
  <1>1. /\ Len(journal) \in Nat /\ cursor \in Nat /\ cursor <= Len(journal) /\ batches \in Nat
        /\ \A i \in 1 .. Len(journal) : journal[i].batch <= batches
    BY JournalNumbers DEF JInv, BatchesCounted
  <1>2. /\ Cardinality(W) \in Nat /\ Len(journal') = cursor + Cardinality(W)
        /\ cursor' = Len(journal')
        /\ \A i \in 1 .. cursor : journal'[i] = journal[i]
        /\ \A i \in cursor + 1 .. Len(journal') : journal'[i].batch = batch
    BY RecordShape DEF JInv
  <1>3. cursor' \in Nat /\ cursor < cursor'  BY <1>1, <1>2
  <1>4. ASSUME NEW p \in 0 .. cursor PROVE Boundary(p)' <=> Boundary(p)
    <2>1. CASE p = 0  BY <2>1 DEF Boundary
    <2>2. CASE p \in 1 .. cursor - 1
      <3>1. journal'[p] = journal[p] /\ journal'[p + 1] = journal[p + 1]  BY <1>1, <1>2, <2>2
      <3>2. p # Len(journal) /\ p # Len(journal')  BY <1>1, <1>2, <1>3, <2>2
      <3> QED  BY <3>1, <3>2 DEF Boundary, Joined
    <2>3. CASE p = cursor /\ p # 0
      <3>1. Boundary(p)  BY <2>3 DEF JInv, BatchesWhole
      <3>2. journal'[p] = journal[p] /\ journal[p].batch <= batches /\ journal'[p + 1].batch = batch
        BY <1>1, <1>2, <1>3, <2>3
      <3>3. batch = 0 \/ batch = batches + 1  OBVIOUS
      <3>4. ~Joined(p)'
        <4>1. journal[p].batch \in Nat
          <5>1. p \in 1 .. Len(journal)  BY <1>1, <2>3
          <5> QED  BY <5>1, JournalNumbers DEF JInv
        <4> QED  BY <1>1, <3>2, <3>3, <4>1 DEF Joined
      <3> QED  BY <3>1, <3>4 DEF Boundary
    <2> QED  BY <1>1, <2>1, <2>2, <2>3
  <1>5. ASSUME NEW p \in cursor + 1 .. cursor' - 1 PROVE ~Boundary(p)'
    <2>1. p \in cursor + 1 .. Len(journal') /\ p + 1 \in cursor + 1 .. Len(journal')
          /\ p # 0 /\ p # Len(journal')
      BY <1>1, <1>2
    <2>2. journal'[p].batch = batch /\ journal'[p + 1].batch = batch  BY <1>2, <2>1, Zenon
    <2>3. batch # 0  BY <1>1, <1>2
    <2> QED  BY <2>1, <2>2, <2>3 DEF Boundary, Joined
  <1>7. HistoryPlaces' = {p \in 0 .. cursor' : Boundary(p)'}  BY <1>2, Zenon DEF HistoryPlaces
  <1>8. cursor' \in HistoryPlaces'
    <2>1. cursor' \in 0 .. cursor'  BY <1>3
    <2> QED  BY <1>2, <2>1 DEF HistoryPlaces, Boundary
  <1>9. ASSUME NEW p \in 0 .. cursor'
        PROVE  p \in HistoryPlaces' <=> p \in {q \in HistoryPlaces : q <= cursor} \cup {cursor'}
    <2>0. p \in Int /\ 0 <= p /\ p <= cursor'  BY <1>3
    <2>1. CASE p <= cursor
      <3>1. p \in 0 .. cursor /\ p \in 0 .. Len(journal) /\ p # cursor'
        BY <1>1, <1>3, <2>0, <2>1
      <3> QED  BY <1>4, <1>7, <2>1, <3>1, Zenon DEF HistoryPlaces
    <2>2. CASE ~(p <= cursor) /\ p # cursor'
      <3>1. p \in cursor + 1 .. cursor' - 1  BY <1>1, <1>3, <2>2, StrictlyBetween, Zenon
      <3>2. p \notin HistoryPlaces'  BY <1>5, <1>7, <3>1, Zenon
      <3> QED  BY <2>2, <3>2
    <2>3. CASE p = cursor'  BY <1>8, <2>3
    <2> QED  BY <2>1, <2>2, <2>3
  <1>10. HistoryPlaces' = {p \in HistoryPlaces : p <= cursor} \cup {cursor'}
    <2> DEFINE B == {p \in HistoryPlaces : p <= cursor} \cup {cursor'}
               A == HistoryPlaces'
    <2>1. A \subseteq 0 .. cursor'  BY <1>7, Zenon
    <2>2. B \subseteq 0 .. cursor'
      <3>1. \A p \in 0 .. Len(journal) : p <= cursor => p \in 0 .. cursor'  BY <1>1, <1>3
      <3>2. cursor' \in 0 .. cursor'  BY <1>3
      <3> QED  BY <3>1, <3>2, Zenon DEF HistoryPlaces
    <2>3. \A p \in 0 .. cursor' : p \in A <=> p \in B  BY <1>9, Zenon
    <2> HIDE DEF A, B
    <2>4. A = B  BY <2>1, <2>2, <2>3
    <2> QED  BY <2>4 DEF A, B
  <1> QED  BY <1>3, <1>10

(* A write is a new operation of the history.                              *)
LEMMA RecordOperates ==
    ASSUME JInv, JInv', NEW W \in SUBSET Cells, NEW new \in [W -> Inputs], NEW batch \in Nat,
           Record(new, batch), Cardinality(W) # 0, faults' = faults,
           \/ batch = 0 /\ Cardinality(W) = 1
           \/ batch = batches + 1
    PROVE  History!Operate
  <1>1. /\ cursor' \in Nat /\ cursor' > cursor
        /\ HistoryPlaces' = {p \in HistoryPlaces : p <= cursor} \cup {cursor'}
    <2>1. cursor \in Nat  BY JournalNumbers DEF JInv
    <2> QED  BY <2>1, RecordPlaces
  <1>2. cells' \in Texts  BY RecordShape DEF JInv
  <1>3. SavedOK' /\ SavedOK  BY SavedIs, SavedIsThen
  <1> DEFINE next == [p \in {q \in HistoryPlaces : q <= cursor} \cup {cursor'} |->
                        IF p = cursor' THEN cells' ELSE Saved[p]]
  <1>4. ASSUME NEW p \in HistoryPlaces' PROVE Saved'[p] = next[p]
    <2>1. CASE p = cursor'
      <3>1. Saved'[cursor'] = cells'  BY <1>3 DEF SavedOK
      <3> QED  BY <1>1, <2>1, <3>1, Zenon
    <2>2. CASE p # cursor'
      <3>1. p \in HistoryPlaces /\ p <= cursor  BY <1>1, <2>2
      <3>2. p \in 0 .. cursor
        <4>1. p \in Nat  BY <1>3, <3>1 DEF SavedOK
        <4>2. cursor \in Nat  BY JournalNumbers DEF JInv
        <4> QED  BY <3>1, <4>1, <4>2
      <3>3. TextAt(p)' = TextAt(p)  BY <3>2, RecordKeepsPast
      <3>4. Saved'[p] = TextAt(p)' /\ Saved[p] = TextAt(p)  BY <3>1, Zenon DEF Saved
      <3> QED  BY <1>1, <2>2, <3>3, <3>4, Zenon
    <2> QED  BY <2>1, <2>2
  <1>5. Saved' = next
    <2>1. Saved' = [p \in HistoryPlaces' |-> Saved'[p]]  BY Zenon DEF Saved
    <2>2. next = [p \in HistoryPlaces' |-> next[p]]  BY <1>1, Zenon
    <2> HIDE DEF next
    <2> QED  BY <1>4, <2>1, <2>2, Zenon
  <1>6. DOMAIN Saved = HistoryPlaces  BY <1>3 DEF SavedOK
  <1> QED  BY <1>1, <1>2, <1>5, <1>6, Zenon DEF History!Operate, History!Places

(* The cursor at another place, the cells as that place has them: a step   *)
(* through the history, with its places and their contents as they were.   *)
LEMMA MoveTravels ==
    ASSUME JInv, JInv', Consistent, NEW goal \in 0 .. Len(journal), Boundary(goal),
           journal' = journal, cursor' = goal, cells' = TextAt(goal), faults' = faults
    PROVE  History!Travel /\ Consistent'
  <1>1. SavedOK /\ SavedOK'  BY SavedIs, SavedIsThen
  <1>2. HistoryPlaces' = HistoryPlaces  BY PlacesStay
  <1>3. goal \in HistoryPlaces  BY DEF HistoryPlaces
  <1>4. ASSUME NEW p \in HistoryPlaces,
               faults = 0 \/ (goal <= cursor /\ p <= goal) \/ (cursor <= goal /\ goal <= p)
        PROVE  Saved'[p] = Saved[p]
    <2>1. p \in 0 .. Len(journal)  BY DEF HistoryPlaces
    <2>2. TextAt(p)' = TextAt(p)  BY <1>4, <2>1, CursorMoves
    <2> QED  BY <1>2, <2>2, Zenon DEF Saved
  <1>5. History!Travel
    BY <1>1, <1>2, <1>3, <1>4, Zenon DEF SavedOK, History!Travel, History!Places, History!Here,
       History!Safe
  <1>6. Consistent'
    <2>1. ASSUME faults = 0, NEW p \in 0 .. Len(journal) PROVE TextAt(p)' = TextAt(p)
      BY <2>1, CursorMoves
    <2>2. Len(journal) \in Nat  BY JournalNumbers DEF JInv
    <2>3. \A i \in 1 .. Len(journal) : i \in 0 .. Len(journal) /\ i - 1 \in 0 .. Len(journal)
      BY <2>2
    <2> QED  BY <2>1, <2>3, Zenon DEF Consistent
  <1> QED  BY <1>5, <1>6

(* A step that fails half-way.                                             *)
LEMMA FailureSlips ==
    ASSUME JInv, JInv', faults \in Nat, journal' = journal, faults' = faults + 1
    PROVE  History!Slip /\ Consistent'
  <1>1. SavedOK /\ SavedOK'  BY SavedIs, SavedIsThen
  <1>2. HistoryPlaces' = HistoryPlaces  BY PlacesStay
  <1>3. History!Slip
    BY <1>1, <1>2, Zenon DEF SavedOK, History!Slip, History!Places, History!Here
  <1>4. faults' # 0  OBVIOUS
  <1> QED  BY <1>3, <1>4, Zenon DEF Consistent

LEMMA StepRefines ==
    ASSUME HInv, JInv', NEW goal \in 0 .. Len(journal), Boundary(goal), StepTo(goal),
           journal' = journal
    PROVE  [History!Next]_(History!hist) /\ Consistent'
  <1>1. JInv /\ Consistent /\ faults \in Nat  BY DEF HInv, IInv, TypeOK, CountsOK
  <1>2. CASE faults' = faults + 1
    BY <1>1, <1>2, FailureSlips, Zenon DEF History!Next
  <1>3. CASE faults' = faults /\ cells' = TextAt(goal) /\ cursor' = goal
    BY <1>1, <1>3, MoveTravels, Zenon DEF History!Next
  <1> QED  BY <1>2, <1>3, Zenon DEF StepTo, Succeeds, Fails

(* What leaves the journal and the workbook alone, and may fail at that.   *)
LEMMA AsideRefines ==
    ASSUME HInv, JInv', UNCHANGED <<cells, journal, cursor>>, Fails \/ Succeeds
    PROVE  [History!Next]_(History!hist) /\ Consistent'
  <1>1. JInv /\ Consistent /\ faults \in Nat  BY DEF HInv, IInv, TypeOK, CountsOK
  <1>2. CASE Fails
    BY <1>1, <1>2, FailureSlips, Zenon DEF Fails, History!Next
  <1>3. CASE Succeeds
    <2>1. Saved' = Saved /\ \A p : TextAt(p)' = TextAt(p)  BY HistoryUnmoved
    <2>2. faults' = faults  BY <1>3 DEF Succeeds
    <2>3. Consistent'  BY <1>1, <2>1, <2>2, Zenon DEF Consistent
    <2> QED  BY <2>1, <2>2, <2>3, Zenon DEF History!hist
  <1> QED  BY <1>2, <1>3

LEMMA EditRefines ==
    ASSUME HInv, JInv', EditCell \/ EditBatch
    PROVE  [History!Next]_(History!hist) /\ Consistent'
  <1>1. JInv /\ Consistent  BY DEF HInv, IInv
  <1>2. CASE EditCell
    <2>1. PICK c \in Cells, input \in Inputs : Record([x \in {c} |-> input], 0)
      BY <1>2, Zenon DEF EditCell
    <2>2. {c} \in SUBSET Cells /\ [x \in {c} |-> input] \in [{c} -> Inputs] /\ 0 \in Nat  OBVIOUS
    <2>3. Cardinality({c}) = 1  BY FS_Singleton
    <2>4. faults' = faults  BY <1>2, Zenon DEF EditCell
    <2>5. History!Operate  BY <1>1, <2>1, <2>2, <2>3, <2>4, RecordOperates
    <2>6. Consistent'  BY <1>1, <2>1, <2>2, <2>4, RecordConsistent, Zenon
    <2> QED  BY <2>5, <2>6, Zenon DEF History!Next
  <1>3. CASE EditBatch
    <2>1. PICK W \in SUBSET Cells :
            Cardinality(W) > 1 /\ \E new \in [W -> Inputs] : Record(new, batches')
      BY <1>3, Zenon DEF EditBatch
    <2>2. PICK new \in [W -> Inputs] : Record(new, batches')  BY <2>1, Zenon
    <2>3. batches' = batches + 1 /\ faults' = faults  BY <1>3, Zenon DEF EditBatch
    <2>4. batches' \in Nat  BY Zenon DEF JInv, JournalOK
    <2>5. Cardinality(W) # 0  BY <2>1
    <2>6. History!Operate  BY <1>1, <2>2, <2>3, <2>4, <2>5, RecordOperates, Zenon
    <2>7. Consistent'  BY <1>1, <2>2, <2>3, <2>4, RecordConsistent, Zenon
    <2> QED  BY <2>6, <2>7, Zenon DEF History!Next
  <1> QED  BY <1>2, <1>3

LEMMA InsertRowRefines ==
    ASSUME HInv, JInv', InsertRow
    PROVE  [History!Next]_(History!hist) /\ Consistent'
  <1>1. journal' = <<>> /\ cursor' = 0 /\ faults' = faults  BY Zenon DEF InsertRow
  <1>2. Len(journal') = 0  BY <1>1
  <1>3. SavedOK'  BY SavedIsThen
  <1>4. cells' \in Texts  BY Zenon DEF JInv, JournalOK
  <1>5. HistoryPlaces' = {0}
    <2>1. HistoryPlaces' \subseteq {0} /\ 0 \in HistoryPlaces'  BY <1>1, <1>2, <1>3 DEF SavedOK
    <2> QED  BY <2>1
  <1>6. Saved' = [p \in {0} |-> cells']
    <2>1. Saved' = [p \in HistoryPlaces' |-> Saved'[p]]  BY Zenon DEF Saved
    <2>2. Saved'[0] = cells'  BY <1>1, <1>3 DEF SavedOK
    <2> QED  BY <1>5, <2>1, <2>2
  <1>7. History!Forget  BY <1>1, <1>4, <1>6, Zenon DEF History!Forget
  <1>8. Consistent'  BY <1>2 DEF Consistent
  <1> QED  BY <1>7, <1>8, Zenon DEF History!Next

LEMMA UserStepRefines ==
    ASSUME HInv, JInv', UndoEdit \/ RedoEdit
    PROVE  [History!Next]_(History!hist) /\ Consistent'
  <1>1. JInv  BY DEF HInv, IInv
  <1>2. CASE UndoEdit
    <2>1. UndoGoal \in 0 .. Len(journal) /\ Boundary(UndoGoal)
      BY <1>1, <1>2, UndoGoalFound DEF UndoEdit
    <2>2. StepTo(UndoGoal) /\ journal' = journal  BY <1>2, Zenon DEF UndoEdit, UserStep
    <2> QED  BY <2>1, <2>2, StepRefines, Zenon
  <1>3. CASE RedoEdit
    <2>1. RedoGoal \in 0 .. Len(journal) /\ Boundary(RedoGoal)
      BY <1>1, <1>3, RedoGoalFound DEF RedoEdit
    <2>2. StepTo(RedoGoal) /\ journal' = journal  BY <1>3, Zenon DEF RedoEdit, UserStep
    <2> QED  BY <2>1, <2>2, StepRefines, Zenon
  <1> QED  BY <1>2, <1>3

LEMMA FollowEndsRefines ==
    ASSUME HInv, JInv', FollowEnds
    PROVE  [History!Next]_(History!hist) /\ Consistent'
  <1>1. PICK known \in {reading, Moved(page[reading.at].version)} :
         IF known.target = None
           THEN Heard(known) /\ UNCHANGED <<cells, cursor, revision, placed>>
           ELSE /\ known = Moved(page[reading.at].version)
                /\ StepTo(IF known.target < known.from THEN UnwindTo(known.target)
                                                       ELSE ForwardTo(known.target))
                /\ placed' = Rebased(known)
    BY Zenon DEF FollowEnds
  <1>2. known \in Readings(revision)  BY HeardType, Zenon DEF FollowEnds, HInv
  <1>3. JInv /\ revision \in Nat /\ journal' = journal
    BY Zenon DEF FollowEnds, HInv, IInv, JInv, JournalOK
  <1>4. CASE known.target = None
    <2>1. UNCHANGED <<cells, journal, cursor>> /\ (Fails \/ Succeeds)
      BY <1>1, <1>3, <1>4, Zenon DEF Heard
    <2> QED  BY <2>1, AsideRefines, Zenon
  <1>5. CASE known.target # None
    <2> DEFINE goal == IF known.target < known.from THEN UnwindTo(known.target)
                                                    ELSE ForwardTo(known.target)
    <2>1. StepTo(goal)  BY <1>1, <1>5, Zenon
    <2>2. known.target \in Nat  BY <1>2, <1>3, <1>5 DEF Readings
    <2>3. goal \in 0 .. Len(journal) /\ Boundary(goal)
      BY <1>3, <2>2, UnwindStopsBetweenBatches, ForwardStopsBetweenBatches, Zenon
    <2> HIDE DEF goal
    <2> QED  BY <1>3, <2>1, <2>3, StepRefines, Zenon
  <1> QED  BY <1>4, <1>5

(* Every step of the session is a step of the history, or none.            *)
LEMMA NextRefines ==
    ASSUME HInv, [Next]_vars
    PROVE  [History!Next]_(History!hist) /\ HInv'
  <1> DEFINE Good == [History!Next]_(History!hist) /\ Consistent'
  <1>1. IInv'  BY NextKept DEF HInv
  <1>2. JInv'  BY <1>1, Zenon DEF IInv
  <1>3. ASSUME EditCell \/ EditBatch PROVE Good  BY <1>2, <1>3, EditRefines, Zenon
  <1>4. ASSUME InsertRow PROVE Good  BY <1>2, <1>4, InsertRowRefines, Zenon
  <1>5. ASSUME UndoEdit \/ RedoEdit PROVE Good  BY <1>2, <1>5, UserStepRefines, Zenon
  <1>6. ASSUME FollowEnds PROVE Good  BY <1>2, <1>6, FollowEndsRefines, Zenon
  <1>7. ASSUME TableWritten \/ FollowReads PROVE Good
    <2>1. UNCHANGED <<cells, journal, cursor>>
      BY <1>7, Zenon DEF TableWritten, FollowReads, book
    <2>2. Fails \/ Succeeds
      BY <1>7, Zenon DEF TableWritten, FollowReads, Applied, Refused, Heard
    <2> QED  BY <1>2, <2>1, <2>2, AsideRefines, Zenon
  <1>8. ASSUME \/ EnterFrame \/ LeaveFrame \/ TimerFires \/ RefreshBegins \/ DocUndo \/ DocRedo
               \/ FollowBegins \/ UNCHANGED vars
        PROVE  Good
    <2>1. UNCHANGED <<cells, journal, cursor>> /\ Succeeds
      BY <1>8, Zenon DEF EnterFrame, LeaveFrame, TimerFires, RefreshBegins, DocUndo, DocRedo,
         DocStep, FollowBegins, vars, book, Succeeds
    <2> QED  BY <1>2, <2>1, AsideRefines, Zenon
  <1> HIDE DEF Good
  <1>9. Good
    BY <1>3, <1>4, <1>5, <1>6, <1>7, <1>8, Zenon DEF Next, Refreshing, Following
  <1> QED  BY <1>1, <1>9, Zenon DEF Good, HInv

LEMMA HistoryBegins == ASSUME Init PROVE HInv /\ History!Init
  <1>1. IInv  BY InitHolds
  <1>2. journal = <<>> /\ cursor = 0 /\ faults = 0  BY DEF Init
  <1>3. Len(journal) = 0  BY <1>2
  <1>4. SavedOK  BY <1>1, SavedIs DEF IInv
  <1>5. cells \in Texts  BY <1>1 DEF IInv, JInv, JournalOK
  <1>6. Consistent  BY <1>3 DEF Consistent
  <1>7. HistoryPlaces = {0}
    <2>1. HistoryPlaces \subseteq {0} /\ 0 \in HistoryPlaces  BY <1>2, <1>3, <1>4 DEF SavedOK
    <2> QED  BY <2>1
  <1>8. Saved = [p \in {0} |-> cells]
    <2>1. Saved = [p \in HistoryPlaces |-> Saved[p]]  BY Zenon DEF Saved
    <2>2. Saved[0] = cells  BY <1>2, <1>4 DEF SavedOK
    <2> QED  BY <1>7, <2>1, <2>2
  <1> QED  BY <1>1, <1>2, <1>5, <1>6, <1>8, Zenon DEF HInv, History!Init

(***************************************************************************)
(* The journal, which keeps one input before and one after per cell, is an *)
(* undo history of whole workbooks: an undo or redo, several at once when  *)
(* the document's undo moves the journal, leads to exactly the workbook    *)
(* that was left at the place it stops at, and leaves every other place    *)
(* with its workbook; a new operation forgets the places behind it; and a  *)
(* step that fails half-way spoils only what lies on the other side of it. *)
(***************************************************************************)
THEOREM HistoryKeptCorrect == Spec => HistoryKept
  <1>1. Init => HInv /\ History!Init  BY HistoryBegins
  <1>2. HInv /\ [Next]_vars => [History!Next]_(History!hist) /\ HInv'  BY NextRefines
  <1> QED  BY <1>1, <1>2, PTL DEF Spec, HistoryKept, History!Spec

-----------------------------------------------------------------------------
(* The page while the document was not undone                              *)

Idle == ~timer /\ ~deferred /\ chain = 0

(* The page shows what was last written, a refresh goes on from there, and *)
(* with no refresh to come the tables it has passed show the workbook.     *)
Undisturbed ==
    /\ reading = None /\ follow = 0 /\ page = placed
    /\ \A t \in Tables : placed[t].version = revision => placed[t].content = Content(t)
    /\ refresh # None =>
         /\ \A t \in refresh.at .. Len(Ranges) : refresh.infos[t] = placed[t]
         /\ refresh.version = revision => refresh.next = Content(refresh.at)
    /\ Idle /\ refresh = None => PageCurrent
    /\ Idle /\ refresh # None =>
         /\ refresh.version = revision
         /\ \A t \in 1 .. refresh.at - 1 : page[t].content = Content(t)

Quiet == faults = 0 /\ docSteps = 0 => Undisturbed

LEMMA ShotTyped ==
    ASSUME NEW n \in Nat, NEW s \in Shots(n), NEW t \in Tables
    PROVE  /\ s[t].version \in 0 .. n /\ s[t].version \in Nat /\ s[t].version <= n
           /\ s[t].content \in [Ranges[t] -> Inputs]
           /\ s[t] = [version |-> s[t].version, content |-> s[t].content]
  <1>1. s[t] \in RecordOf(n, t)  BY ShotIs, Zenon
  <1> QED  BY <1>1 DEF RecordOf

LEMMA ContentSame ==
    ASSUME cells' = cells PROVE \A t : Content(t)' = Content(t)
  BY Zenon DEF Content

(* A step that succeeds is at least one step.                              *)
LEMMA StepMoves ==
    ASSUME JInv, NEW goal \in 0 .. Len(journal), Boundary(goal), goal # cursor,
           StepTo(goal), faults \in Nat, faults' = 0
    PROVE  /\ faults = 0 /\ faults' = faults /\ cursor' = goal /\ cells' = TextAt(goal)
           /\ revision' \in Nat /\ revision' > revision
  <1>1. faults' = faults /\ cells' = TextAt(goal) /\ cursor' = goal
        /\ revision' = revision + Cardinality(Stops(goal)) - 1
    BY DEF StepTo, Succeeds, Fails
  <1>2. cursor \in Nat /\ cursor <= Len(journal) /\ Len(journal) \in Nat /\ revision \in Nat
    BY JournalNumbers DEF JInv
  <1>3. Cardinality(Stops(goal)) \in Nat /\ Stops(goal) \subseteq 0 .. Len(journal)
    BY StopsCounted
  <1>4. IsFiniteSet(Stops(goal))
    <2>1. IsFiniteSet(0 .. Len(journal))  BY <1>2, FS_Interval
    <2> QED  BY <1>3, <2>1, FS_Subset
  <1>5. cursor \in Stops(goal) /\ goal \in Stops(goal)
    BY <1>2 DEF Stops, Between, JInv, BatchesWhole
  <1>6. Cardinality(Stops(goal)) # 1
    <2>1. ASSUME Cardinality(Stops(goal)) = 1 PROVE FALSE
      <3>1. \E e : Stops(goal) = {e}  BY <1>4, <2>1, FS_Singleton
      <3> QED  BY <1>5, <3>1
    <2> QED  BY <2>1
  <1>7. Cardinality(Stops(goal)) # 0  BY <1>4, <1>5, FS_EmptySet
  <1>8. revision' \in Nat /\ revision' > revision  BY <1>1, <1>2, <1>3, <1>6, <1>7
  <1> QED  BY <1>1, <1>8

LEMMA RefreshIsSome ==
    ASSUME NEW n \in Nat, NEW infos \in Shots(n), NEW version \in Nat, NEW t \in Tables,
           NEW next \in [Ranges[t] -> Inputs]
    PROVE  [version |-> version, infos |-> infos, at |-> t, next |-> next] # None
  <1> DEFINE Shot == [Tables -> [version : Nat, content : Contents]]
             r == [version |-> version, infos |-> infos, at |-> t, next |-> next]
  <1>1. infos \in [Tables -> [version : 0 .. n, content : Contents]]  BY ShotIs, Zenon
  <1>2. infos \in Shot
    <2>1. 0 .. n \subseteq Nat  OBVIOUS
    <2>2. [version : 0 .. n, content : Contents] \subseteq [version : Nat, content : Contents]
      BY <2>1
    <2> QED  BY <1>1, <2>2
  <1>3. next \in Contents  BY InContents, Zenon
  <1> HIDE DEF Shot
  <1>4. r \in [version : Nat, infos : Shot, at : Tables, next : Contents]  BY <1>2, <1>3
  <1> HIDE DEF r
  <1>5. r # None  BY <1>4, NoneAssumption, Zenon DEF Shot
  <1> QED  BY <1>5, Zenon DEF r

(* What a refresh writes next, and why it passes the tables before.        *)
LEMMA GoOnIs ==
    ASSUME IInv, NEW t \in Nat \ {0}, NEW n \in Nat, NEW infos \in Shots(n), NEW version \in Nat,
           GoOn(t, infos, version)
    PROVE  \/ /\ refresh' = None
              /\ \A u \in t .. Len(Ranges) :
                   infos[u].version = version \/ infos[u].content = Content(u)
           \/ /\ refresh' # None
              /\ \E m \in t .. Len(Ranges) :
                   /\ refresh' = [version |-> version, infos |-> infos, at |-> m, next |-> Content(m)]
                   /\ infos[m].version # version /\ infos[m].content # Content(m)
                   /\ \A u \in t .. m - 1 :
                        infos[u].version = version \/ infos[u].content = Content(u)
  <1> DEFINE stale == {u \in t .. Len(Ranges) :
                         infos[u].version # version /\ infos[u].content # Content(u)}
             m == Min(stale)
  <1>1. refresh' = IF stale = {} THEN None
                   ELSE [version |-> version, infos |-> infos, at |-> m, next |-> Content(m)]
    BY Zenon DEF GoOn
  <1>2. Len(Ranges) \in Nat /\ t .. Len(Ranges) \subseteq Tables  BY FirstTable DEF Tables
  <1>3. CASE stale = {}  BY <1>1, <1>3, Zenon
  <1>4. CASE stale # {}
    <2>1. stale \in SUBSET Nat  BY <1>2
    <2>2. m \in stale /\ \A u \in stale : m <= u
      <3> HIDE DEF stale
      <3> QED  BY <1>4, <2>1, MinIsLeast, Zenon
    <2> HIDE DEF m
    <2>3. m \in t .. Len(Ranges) /\ infos[m].version # version /\ infos[m].content # Content(m)
      BY <2>2
    <2>4. ASSUME NEW u \in t .. m - 1 PROVE infos[u].version = version \/ infos[u].content = Content(u)
      <3>1. u \in t .. Len(Ranges) /\ ~(m <= u)  BY <1>2, <2>3
      <3> QED  BY <2>2, <3>1
    <2>5. Content(m) \in [Ranges[m] -> Inputs] /\ m \in Tables
      BY <1>2, <2>3, ContentType, Zenon DEF IInv, TypeOK
    <2>6. [version |-> version, infos |-> infos, at |-> m, next |-> Content(m)] # None
      BY <2>5, RefreshIsSome, Zenon
    <2>7. refresh' = [version |-> version, infos |-> infos, at |-> m, next |-> Content(m)]
      BY <1>1, <1>4, Zenon
    <2> HIDE DEF stale
    <2> QED  BY <2>3, <2>4, <2>6, <2>7, Zenon
  <1> QED  BY <1>3, <1>4

(* An edit, an undo, a redo in the sheet or rows moved: the workbook has a *)
(* new version, and a refresh is due.                                      *)
LEMMA ChangeQuiet ==
    ASSUME IInv, Quiet, faults = 0, revision' \in Nat, revision' > revision,
           ScheduleRefresh, JournalFrame
    PROVE  Quiet'
  <1>1. UNCHANGED <<refresh, placed, page, follow, reading, docSteps>>
    BY Zenon DEF JournalFrame, shown, document, follower
  <1>2. SUFFICES ASSUME docSteps' = 0 PROVE Undisturbed'  BY Zenon DEF Quiet
  <1>3. Undisturbed  BY <1>1, <1>2, Zenon DEF Quiet
  <1>4. ~Idle'  BY Zenon DEF Idle, ScheduleRefresh
  <1>5. revision \in Nat /\ placed \in Shots(revision)
        /\ (refresh # None => refresh.version \in 0 .. revision)
    BY RefreshParts, Zenon DEF IInv, TypeOK, JournalOK, PagesOK
  <1>6. \A t \in Tables : placed'[t].version # revision'
    <2>1. \A t \in Tables : placed[t].version \in 0 .. revision  BY <1>5, ShotTyped, Zenon
    <2>2. \A t \in Tables : placed'[t].version \in 0 .. revision  BY <1>1, <2>1, Zenon
    <2>3. revision' \notin 0 .. revision  BY <1>5
    <2> QED  BY <2>2, <2>3, Zenon
  <1>7. refresh' # None => refresh'.version # revision'
    <2>1. revision' \notin 0 .. revision  BY <1>5
    <2> QED  BY <1>1, <1>5, <2>1, Zenon
  <1> QED  BY <1>1, <1>3, <1>4, <1>6, <1>7, Zenon DEF Undisturbed

LEMMA EditQuiet ==
    ASSUME IInv, Quiet, faults' = 0, EditCell \/ EditBatch \/ InsertRow PROVE Quiet'
  <1>1. faults = 0 /\ MarkEdited /\ JournalFrame  BY Zenon DEF EditCell, EditBatch, InsertRow
  <1>2. revision \in Nat  BY DEF IInv, JInv, JournalOK
  <1>3. revision' \in Nat /\ revision' > revision /\ ScheduleRefresh  BY <1>1, <1>2 DEF MarkEdited
  <1> QED  BY <1>1, <1>3, ChangeQuiet

LEMMA UserGoal ==
    ASSUME JInv, UndoEdit \/ RedoEdit
    PROVE  \E goal \in 0 .. Len(journal) : Boundary(goal) /\ goal # cursor /\ UserStep(goal)
  <1>1. CASE UndoEdit
    <2>1. UndoGoal \in 0 .. Len(journal) /\ Boundary(UndoGoal) /\ UndoGoal # cursor
      BY <1>1, UndoGoalFound DEF UndoEdit
    <2> QED  BY <1>1, <2>1, Zenon DEF UndoEdit
  <1>2. CASE RedoEdit
    <2>1. RedoGoal \in 0 .. Len(journal) /\ Boundary(RedoGoal) /\ RedoGoal # cursor
      BY <1>2, RedoGoalFound DEF RedoEdit
    <2> QED  BY <1>2, <2>1, Zenon DEF RedoEdit
  <1> QED  BY <1>1, <1>2

LEMMA UserStepQuiet ==
    ASSUME IInv, Quiet, faults' = 0, UndoEdit \/ RedoEdit PROVE Quiet'
  <1>1. JInv /\ faults \in Nat  BY DEF IInv, TypeOK, CountsOK
  <1>2. PICK goal \in 0 .. Len(journal) : Boundary(goal) /\ goal # cursor /\ UserStep(goal)
    BY <1>1, UserGoal, Zenon
  <1>3. StepTo(goal) /\ JournalFrame  BY <1>2, Zenon DEF UserStep
  <1>4. faults = 0 /\ cursor' = goal /\ revision' \in Nat /\ revision' > revision
    BY <1>1, <1>2, <1>3, StepMoves
  <1>5. ScheduleRefresh  BY <1>2, <1>4, Zenon DEF UserStep
  <1> QED  BY <1>3, <1>4, <1>5, ChangeQuiet

(* Only the frame and what is due changes.                                 *)
LEMMA FrameQuiet ==
    ASSUME Quiet, Idle' <=> Idle,
           UNCHANGED <<book, revision, shown, document, follower, docSteps, calm, faults>>
    PROVE  Quiet'
  <1>1. UNCHANGED <<cells, revision, refresh, placed, page, follow, reading, docSteps, faults>>
    BY Zenon DEF book, shown, document, follower
  <1>2. \A t : Content(t)' = Content(t)  BY <1>1, ContentSame, Zenon
  <1>3. PageCurrent => PageCurrent'  BY <1>1, <1>2, Zenon DEF PageCurrent
  <1>4. Undisturbed => Undisturbed'  BY <1>1, <1>2, <1>3, Zenon DEF Undisturbed
  <1>5. faults' = 0 /\ docSteps' = 0 => faults = 0 /\ docSteps = 0  BY <1>1
  <1> QED  BY <1>4, <1>5, Zenon DEF Quiet

(* What is due when a frame is entered or left, or the timer fires.        *)
LEMMA IdleKept ==
    ASSUME IInv, EnterFrame \/ LeaveFrame \/ TimerFires \/ UNCHANGED vars
    PROVE  /\ Idle' <=> Idle
           /\ UNCHANGED <<book, revision, shown, document, follower, docSteps, calm, faults>>
           /\ (deferred => inFrame) => (deferred' => inFrame')
  <1>1. chain \in Nat  BY DEF IInv, TypeOK, CountsOK
  <1>2. CASE EnterFrame
    <2>1. inFrame' /\ UNCHANGED <<timer, deferred, chain>>  BY <1>2, Zenon DEF EnterFrame, due
    <2>2. UNCHANGED <<book, revision, shown, document, follower, docSteps, calm, faults>>
      BY <1>2, Zenon DEF EnterFrame
    <2> QED  BY <2>1, <2>2, Zenon DEF Idle
  <1>3. CASE LeaveFrame
    <2>1. ~deferred' /\ timer' = timer /\ chain' = IF deferred THEN chain + 1 ELSE chain
      BY <1>3, Zenon DEF LeaveFrame
    <2>2. UNCHANGED <<book, revision, shown, document, follower, docSteps, calm, faults>>
      BY <1>3, Zenon DEF LeaveFrame
    <2>3. Idle' <=> Idle  BY <1>1, <2>1 DEF Idle
    <2> QED  BY <2>1, <2>2, <2>3, Zenon
  <1>4. CASE TimerFires
    <2>1. timer /\ chain' = chain + 1 /\ UNCHANGED <<inFrame, deferred>>
      BY <1>4, Zenon DEF TimerFires, frame
    <2>2. UNCHANGED <<book, revision, shown, document, follower, docSteps, calm, faults>>
      BY <1>4, Zenon DEF TimerFires
    <2>3. Idle' <=> Idle  BY <1>1, <2>1 DEF Idle
    <2> QED  BY <2>1, <2>2, <2>3, Zenon
  <1>5. CASE UNCHANGED vars
    <2>1. UNCHANGED <<inFrame, timer, deferred, chain>>  BY <1>5, Zenon DEF vars
    <2>2. UNCHANGED <<book, revision, shown, document, follower, docSteps, calm, faults>>
      BY <1>5, Zenon DEF vars, book, shown, document, follower
    <2> QED  BY <2>1, <2>2, Zenon DEF Idle
  <1> QED  BY <1>2, <1>3, <1>4, <1>5

LEMMA RefreshBeginsQuiet == ASSUME IInv, Quiet, RefreshBegins PROVE Quiet'
  <1>1. /\ UNCHANGED <<cells, revision, timer, deferred, placed, page, follow, reading, docSteps, faults>>
        /\ refresh = None /\ GoOn(1, placed, revision)
    BY Zenon DEF RefreshBegins, book, document, follower
  <1>2. SUFFICES ASSUME Undisturbed PROVE Undisturbed'
    <2>1. faults' = 0 /\ docSteps' = 0 => faults = 0 /\ docSteps = 0  BY <1>1
    <2> QED  BY <1>2, <2>1, Zenon DEF Quiet
  <1>3. revision \in Nat /\ placed \in Shots(revision) /\ 1 \in Nat \ {0}
    BY DEF IInv, TypeOK, JournalOK, PagesOK
  <1>4. \A t : Content(t)' = Content(t)  BY <1>1, ContentSame, Zenon
  <1>5. page = placed /\ \A t \in Tables : placed[t].version = revision => placed[t].content = Content(t)
    BY <1>2, Zenon DEF Undisturbed
  <1>6. Tables = 1 .. Len(Ranges)  BY DEF Tables
  <1>7. \/ /\ refresh' = None
           /\ \A u \in 1 .. Len(Ranges) :
                placed[u].version = revision \/ placed[u].content = Content(u)
        \/ /\ refresh' # None
           /\ \E m \in 1 .. Len(Ranges) :
                /\ refresh' = [version |-> revision, infos |-> placed, at |-> m, next |-> Content(m)]
                /\ \A u \in 1 .. m - 1 : placed[u].version = revision \/ placed[u].content = Content(u)
    BY <1>1, <1>3, GoOnIs
  <1>8. CASE refresh' = None
    <2>1. PageCurrent'  BY <1>1, <1>4, <1>5, <1>6, <1>7, <1>8, Zenon DEF PageCurrent
    <2> QED  BY <1>1, <1>2, <1>4, <1>8, <2>1, Zenon DEF Undisturbed
  <1>9. CASE refresh' # None
    <2>1. PICK m \in 1 .. Len(Ranges) :
            /\ refresh' = [version |-> revision, infos |-> placed, at |-> m, next |-> Content(m)]
            /\ \A u \in 1 .. m - 1 : placed[u].version = revision \/ placed[u].content = Content(u)
      BY <1>7, <1>9, Zenon
    <2>2. refresh'.version = revision /\ refresh'.infos = placed /\ refresh'.at = m
          /\ refresh'.next = Content(m)
      BY <2>1
    <2>3. 1 .. m - 1 \subseteq Tables  BY <1>6, FirstTable
    <2>4. \A u \in 1 .. m - 1 : page[u].content = Content(u)  BY <1>5, <2>1, <2>3, Zenon
    <2> QED  BY <1>1, <1>2, <1>4, <1>9, <2>2, <2>4, Zenon DEF Undisturbed
  <1> QED  BY <1>8, <1>9

LEMMA TableWrittenQuiet == ASSUME IInv, IInv', Quiet, faults' = 0, TableWritten PROVE Quiet'
  <1> DEFINE written == [version |-> refresh.version, content |-> refresh.next]
             at == refresh.at
  <1>1. ~Fails  BY DEF Fails, IInv, TypeOK, CountsOK
  <1>2. /\ refresh # None /\ Applied
        /\ placed' = [placed EXCEPT ![at] = written]
        /\ page' = [page EXCEPT ![at] = [version |-> refresh.version, content |-> Repoured]]
        /\ GoOn(at + 1, refresh.infos, refresh.version)
        /\ UNCHANGED <<cells, revision, timer, deferred, chain, follow, reading, docSteps>>
    BY <1>1, Zenon DEF TableWritten, Refused, Applied, book, due, follower
  <1>3. faults = 0  BY <1>2, Zenon DEF Applied, Succeeds
  <1>4. SUFFICES ASSUME Undisturbed PROVE Undisturbed'
    <2>1. docSteps' = 0 => docSteps = 0  BY <1>2
    <2> QED  BY <1>3, <1>4, <2>1, Zenon DEF Quiet
  <1>5. /\ at \in 1 .. Len(Ranges) /\ Tables = 1 .. Len(Ranges) /\ revision \in Nat
        /\ Len(Ranges) \in Nat /\ refresh.infos \in Shots(revision)
        /\ refresh.version \in Nat /\ refresh.next \in [Ranges[at] -> Inputs]
        /\ placed \in Shots(revision)
    <2>1. refresh \in Refreshes(revision)  BY <1>2, Zenon DEF IInv, TypeOK, PagesOK
    <2>2. refresh.infos \in Shots(revision) /\ refresh.version \in 0 .. revision /\ at \in Tables
          /\ refresh.next \in [Ranges[at] -> Inputs]
      BY <2>1, RefreshParts, Zenon
    <2>3. revision \in Nat /\ placed \in Shots(revision)
      BY DEF IInv, TypeOK, JournalOK, PagesOK
    <2> QED  BY <2>2, <2>3, FirstTable DEF Tables
  <1>6. page = placed /\ refresh.infos[at] = placed[at] /\ DOMAIN placed = Tables
    <2>1. at \in at .. Len(Ranges)  BY <1>5
    <2> QED  BY <1>2, <1>4, <1>5, <2>1 DEF Undisturbed, Shots
  <1>7. Repoured = refresh.next
    <2>1. Repoured = [c \in Ranges[at] |-> IF refresh.next[c] # refresh.infos[at].content[c]
                                             THEN refresh.next[c] ELSE refresh.infos[at].content[c]]
      BY <1>6, Zenon DEF Repoured
    <2>2. Repoured = [c \in Ranges[at] |-> refresh.next[c]]  BY <2>1
    <2> QED  BY <1>5, <2>2
  <1>8. page' = placed'  BY <1>2, <1>6, <1>7
  <1>9. placed'[at] = written /\ \A t \in Tables \ {at} : placed'[t] = placed[t]
    BY <1>2, <1>5, <1>6, Zenon
  <1>10. written.version = refresh.version /\ written.content = refresh.next  OBVIOUS
  <1> HIDE DEF written, at
  <1>11. \A t : Content(t)' = Content(t)  BY <1>2, ContentSame, Zenon
  <1>12. ASSUME NEW t \in Tables, placed'[t].version = revision
         PROVE  placed'[t].content = Content(t)
    <2>1. CASE t = at  BY <1>2, <1>4, <1>9, <1>10, <1>12, <2>1, Zenon DEF Undisturbed, at
    <2>2. CASE t # at
      <3>1. placed'[t] = placed[t]  BY <1>9, <2>2
      <3> QED  BY <1>4, <1>12, <3>1, Zenon DEF Undisturbed
    <2> QED  BY <2>1, <2>2
  <1>13. Idle' => Idle  BY <1>2, Zenon DEF Idle
  <1>14. ASSUME Idle
         PROVE  /\ refresh.version = revision
                /\ \A t \in 1 .. at : placed'[t].content = Content(t)
    <2>1. refresh.version = revision /\ \A t \in 1 .. at - 1 : placed[t].content = Content(t)
      BY <1>2, <1>4, <1>14, Zenon DEF Undisturbed, at
    <2>2. placed'[at].content = Content(at)  BY <1>5, <1>9, <1>10, <1>12, <2>1, Zenon
    <2>3. ASSUME NEW t \in 1 .. at, t # at PROVE placed'[t].content = Content(t)
      <3>1. t \in 1 .. at - 1 /\ t \in Tables \ {at}  BY <1>5, <2>3
      <3>2. placed'[t] = placed[t] /\ placed[t].content = Content(t)  BY <1>9, <2>1, <3>1, Zenon
      <3> QED  BY <3>2
    <2> QED  BY <2>1, <2>2, <2>3
  <1>15. ASSUME NEW u \in at + 1 .. Len(Ranges)
         PROVE  /\ u \in Tables /\ refresh.infos[u] = placed[u] /\ placed'[u] = placed[u]
    <2>1. u \in at .. Len(Ranges) /\ u \in Tables \ {at}  BY <1>5
    <2>2. refresh.infos[u] = placed[u]  BY <1>2, <1>4, <2>1, Zenon DEF Undisturbed, at
    <2> QED  BY <1>9, <2>1, <2>2, Zenon
  <1>16. ASSUME refresh.version = revision, NEW u \in at + 1 .. Len(Ranges),
                refresh.infos[u].version = refresh.version \/ refresh.infos[u].content = Content(u)
         PROVE  placed'[u].content = Content(u)
    <2>1. u \in Tables /\ refresh.infos[u] = placed'[u]  BY <1>15, <1>16, Zenon
    <2> QED  BY <1>12, <1>16, <2>1, Zenon
  <1>17. \/ /\ refresh' = None
            /\ \A u \in at + 1 .. Len(Ranges) :
                 refresh.infos[u].version = refresh.version \/ refresh.infos[u].content = Content(u)
         \/ /\ refresh' # None
            /\ \E m \in at + 1 .. Len(Ranges) :
                 /\ refresh' = [version |-> refresh.version, infos |-> refresh.infos,
                                at |-> m, next |-> Content(m)]
                 /\ \A u \in at + 1 .. m - 1 :
                      refresh.infos[u].version = refresh.version \/ refresh.infos[u].content = Content(u)
    <2>1. at + 1 \in Nat \ {0}  BY <1>5
    <2>2. GoOn(at + 1, refresh.infos, refresh.version)  BY <1>2, Zenon DEF at
    <2> QED  BY <1>5, <2>1, <2>2, GoOnIs
  <1>18. /\ reading' = None /\ follow' = 0 /\ page' = placed'
         /\ \A t \in Tables : placed'[t].version = revision' => placed'[t].content = Content(t)'
    BY <1>2, <1>4, <1>8, <1>11, <1>12, Zenon DEF Undisturbed
  <1>19. CASE refresh' = None
    <2>1. ASSUME Idle' PROVE PageCurrent'
      <3>1. \A t \in 1 .. at : placed'[t].content = Content(t)  BY <1>13, <1>14, <2>1
      <3>2. \A t \in at + 1 .. Len(Ranges) : placed'[t].content = Content(t)
        BY <1>13, <1>14, <1>16, <1>17, <1>19, <2>1, Zenon
      <3>3. \A t \in Tables : t \in 1 .. at \/ t \in at + 1 .. Len(Ranges)  BY <1>5
      <3> QED  BY <1>8, <1>11, <3>1, <3>2, <3>3, Zenon DEF PageCurrent
    <2> QED  BY <1>18, <1>19, <2>1, Zenon DEF Undisturbed
  <1>20. CASE refresh' # None
    <2>1. PICK m \in at + 1 .. Len(Ranges) :
            /\ refresh' = [version |-> refresh.version, infos |-> refresh.infos,
                           at |-> m, next |-> Content(m)]
            /\ \A u \in at + 1 .. m - 1 :
                 refresh.infos[u].version = refresh.version \/ refresh.infos[u].content = Content(u)
      BY <1>17, <1>20, Zenon
    <2>2. refresh'.version = refresh.version /\ refresh'.infos = refresh.infos /\ refresh'.at = m
          /\ refresh'.next = Content(m)
      BY <2>1
    <2>3. \A t \in m .. Len(Ranges) : refresh'.infos[t] = placed'[t]
      <3>1. m .. Len(Ranges) \subseteq at + 1 .. Len(Ranges)  BY <1>5
      <3> QED  BY <1>15, <2>2, <3>1, Zenon
    <2>4. ASSUME Idle', NEW t \in 1 .. m - 1 PROVE page'[t].content = Content(t)'
      <3>1. t \in 1 .. at \/ (t \in at + 1 .. Len(Ranges) /\ t \in at + 1 .. m - 1)  BY <1>5
      <3>2. placed'[t].content = Content(t)  BY <1>13, <1>14, <1>16, <2>1, <2>4, <3>1, Zenon
      <3> QED  BY <1>8, <1>11, <3>2, Zenon
    <2>5. Idle' => refresh'.version = revision'  BY <1>2, <1>13, <1>14, <2>2, Zenon
    <2> QED  BY <1>11, <1>18, <1>20, <2>2, <2>3, <2>4, <2>5, Zenon DEF Undisturbed
  <1> QED  BY <1>19, <1>20

(* The document's undo ends it, and nothing is heard of before.            *)
LEMMA DocumentQuiet ==
    ASSUME IInv, IInv', Quiet, faults' = 0,
           DocUndo \/ DocRedo \/ FollowBegins \/ FollowReads \/ FollowEnds
    PROVE  docSteps' # 0 /\ Quiet' /\ (DocUndo \/ DocRedo \/ docSteps # 0)
  <1>1. docSteps \in Nat /\ follow \in Nat /\ ~Fails
    BY DEF Fails, IInv, TypeOK, CountsOK
  <1>2. CASE DocUndo \/ DocRedo
    <2>1. docSteps' = docSteps + 1  BY <1>2, Zenon DEF DocUndo, DocRedo, DocStep
    <2>2. docSteps' # 0  BY <1>1, <2>1
    <2> QED  BY <1>2, <2>2, Zenon DEF Quiet
  <1>3. CASE FollowBegins \/ FollowReads \/ FollowEnds
    <2>1. docSteps' = docSteps /\ (reading # None \/ follow > 0)
      BY <1>3, Zenon DEF FollowBegins, FollowReads, FollowEnds
    <2>2. faults' = faults
      BY <1>1, <1>3, Zenon DEF FollowBegins, FollowReads, FollowEnds, Heard, StepTo, Succeeds
    <2>3. reading # None \/ follow # 0  BY <2>1
    <2>4. docSteps # 0  BY <2>2, <2>3, Zenon DEF Quiet, Undisturbed
    <2> QED  BY <2>1, <2>4, Zenon DEF Quiet
  <1> QED  BY <1>2, <1>3

LEMMA NextQuiet == ASSUME IInv, IInv', Quiet, [Next]_vars PROVE Quiet'
  <1> SUFFICES ASSUME faults' = 0 PROVE Quiet'  BY Zenon DEF Quiet
  <1>1. CASE EditCell \/ EditBatch \/ InsertRow  BY <1>1, EditQuiet
  <1>2. CASE UndoEdit \/ RedoEdit  BY <1>2, UserStepQuiet
  <1>3. CASE EnterFrame \/ LeaveFrame \/ TimerFires \/ UNCHANGED vars
    <2>1. /\ Idle' <=> Idle
          /\ UNCHANGED <<book, revision, shown, document, follower, docSteps, calm, faults>>
      BY <1>3, IdleKept, Zenon
    <2> QED  BY <2>1, FrameQuiet
  <1>4. CASE RefreshBegins  BY <1>4, RefreshBeginsQuiet
  <1>5. CASE TableWritten  BY <1>5, TableWrittenQuiet
  <1>6. CASE DocUndo \/ DocRedo \/ FollowBegins \/ FollowReads \/ FollowEnds
    BY <1>6, DocumentQuiet
  <1> QED  BY <1>1, <1>2, <1>3, <1>4, <1>5, <1>6, Zenon DEF Next, Refreshing, Following

LEMMA InitQuiet == ASSUME Init PROVE Quiet
  <1>1. /\ page = FirstShot /\ placed = FirstShot /\ reading = None /\ refresh = None /\ follow = 0
        /\ cells = [c \in Cells |-> Empty]
    BY Zenon DEF Init
  <1>2. \A t \in Tables : FirstShot[t].content = Content(t)
    <2>1. TAKE t \in Tables
    <2>2. Ranges[t] \in SUBSET Cells  BY RangeOfTable
    <2>3. FirstShot[t].content = [c \in Ranges[t] |-> Empty]  BY DEF FirstShot
    <2>4. \A c \in Ranges[t] : cells[c] = Empty  BY <1>1, <2>2
    <2>5. Content(t) = [c \in Ranges[t] |-> Empty]  BY <2>4, Zenon DEF Content
    <2> QED  BY <2>3, <2>5
  <1> QED  BY <1>1, <1>2, Zenon DEF Quiet, Undisturbed, PageCurrent

(***************************************************************************)
(* However many tables are placed and whatever their ranges: while the     *)
(* document was not undone and no call failed, every table shows the       *)
(* workbook whenever no refresh is due or under way, however edits, undos, *)
(* redos, rows moved, frames entered and refreshes were interleaved.       *)
(***************************************************************************)
THEOREM UndisturbedCorrect ==
    Spec => [](Settled /\ faults = 0 /\ docSteps = 0 => PageCurrent)
  <1>1. Init => IInv /\ Quiet  BY InitHolds, InitQuiet
  <1>2. IInv /\ Quiet /\ [Next]_vars => (IInv /\ Quiet)'
    <2>1. ASSUME IInv, Quiet, [Next]_vars PROVE IInv' /\ Quiet'
      <3>1. IInv'  BY <2>1, NextKept
      <3> QED  BY <2>1, <3>1, NextQuiet
    <2> QED  BY <2>1
  <1>3. IInv /\ Quiet => (Settled /\ faults = 0 /\ docSteps = 0 => PageCurrent)
    BY Zenon DEF Quiet, Undisturbed, Settled, Idle
  <1> QED  BY <1>1, <1>2, <1>3, PTL DEF Spec

-----------------------------------------------------------------------------
(* The page and the workbook                                               *)

(* One table, of those placed, shows anything.                             *)
OneTable == \E t \in Tables : \A u \in Tables \ {t} : Ranges[u] = {}
TheTable == CHOOSE t \in Tables : \A u \in Tables \ {t} : Ranges[u] = {}

(* What it shows of the workbook at place p.                               *)
ContentIn(p) == [c \in Ranges[TheTable] |-> TextAt(p)[c]]

(* The place of the journal a version stands for.                          *)
IsPlace(p, v) ==
    /\ p \in 0 .. Len(journal)
    /\ \A i \in 1 .. p : journal[i].rev <= v
    /\ \A i \in p + 1 .. Len(journal) : journal[i].rev > v

Shows(v, content) == \E p \in 0 .. Len(journal) : IsPlace(p, v) /\ content = ContentIn(p)

(* The page and all pages the document's undo and redo can bring back.     *)
Prints ==
    {page} \cup {past[i] : i \in 1 .. Len(past)} \cup {future[i] : i \in 1 .. Len(future)}

(* The other tables are never written.                                     *)
Beside ==
    /\ \A s \in Prints \cup {placed} : \A t \in Tables \ {TheTable} : s[t].version = 0
    /\ refresh # None => refresh.at = TheTable
    /\ reading # None => /\ reading.moved \subseteq {TheTable}
                         /\ reading.at # TheTable => reading.known = 0
    /\ deferred => inFrame

(* Every page shows the workbook at the place its version stands for.      *)
PrintsTrue == \A s \in Prints : Shows(s[TheTable].version, s[TheTable].content)

Newest == \A s \in Prints : s[TheTable].version <= placed[TheTable].version

(* The journal has only grown, and the page with it.                       *)
Linear ==
    /\ cursor = Len(journal)
    /\ Newest
    /\ refresh # None =>
         /\ placed[TheTable].version <= refresh.version
         /\ Shows(refresh.version, refresh.next)

(* The workbook is at the place the tables were last seen at, or, before   *)
(* the first move back, behind it by edits the table does not show.        *)
Behind ==
    \E q \in 0 .. cursor :
        /\ IsPlace(q, placed[TheTable].version)
        /\ ContentIn(q) = ContentIn(cursor)
        /\ q # cursor =>
             /\ Newest
             /\ reading # None /\ reading.target # None => reading.target <= placed[TheTable].version

(* What the follower knows so far.                                         *)
Listening ==
    reading # None =>
        /\ reading.known = placed[reading.at].version
        /\ reading.at <= TheTable => reading.target = None
        /\ reading.target = None => reading.moved = {}
        /\ reading.target # None =>
             /\ reading.from = placed[TheTable].version /\ reading.moved = {TheTable}
             /\ reading.target # reading.from
             /\ \E p \in 0 .. Len(journal) : IsPlace(p, reading.target)

(* The last event heard leaves nothing unheard.                            *)
Told ==
    follow = 0 =>
        /\ reading = None => page[TheTable].version = placed[TheTable].version
        /\ reading # None /\ reading.at > TheTable =>
             page[TheTable].version =
                IF reading.target = None THEN placed[TheTable].version ELSE reading.target

(* While the document is undone in peace.                                  *)
Followed == Idle /\ refresh = None /\ Behind /\ Listening /\ Told

Follows ==
    faults = 0 =>
        /\ Beside
        /\ calm => PrintsTrue
        /\ calm /\ docSteps = 0 => Linear
        /\ calm /\ docSteps # 0 => Followed

LEMMA TheTableIs ==
    ASSUME OneTable
    PROVE  TheTable \in Tables /\ \A u \in Tables \ {TheTable} : Ranges[u] = {}
  BY Zenon DEF OneTable, TheTable

(* The versions and contents recorded.                                     *)
LEMMA PrintsTyped ==
    ASSUME IInv
    PROVE  /\ Prints \subseteq Shots(revision) /\ placed \in Shots(revision) /\ page \in Prints
           /\ revision \in Nat
  <1> DEFINE S == Shots(revision)
  <1>1. page \in S /\ placed \in S /\ past \in Seq(S) /\ future \in Seq(S) /\ revision \in Nat
    BY Zenon DEF IInv, TypeOK, PagesOK, JournalOK
  <1> HIDE DEF S
  <1>2. (\A i \in 1 .. Len(past) : past[i] \in S) /\ \A i \in 1 .. Len(future) : future[i] \in S
    BY <1>1, ElementOfSeq, Zenon
  <1> QED  BY <1>1, <1>2, Zenon DEF Prints, S

LEMMA OthersShowNothing ==
    ASSUME OneTable, IInv, NEW n \in Nat, NEW s \in Shots(n), NEW t \in Tables \ {TheTable}
    PROVE  s[t].content = Content(t)
  <1>1. Ranges[t] = {}  BY TheTableIs
  <1>2. s[t].content \in [Ranges[t] -> Inputs]  BY ShotTyped, Zenon
  <1>3. Content(t) \in [Ranges[t] -> Inputs]  BY ContentType, Zenon DEF IInv, TypeOK
  <1> QED  BY <1>1, <1>2, <1>3

LEMMA ContentHere ==
    ASSUME JInv PROVE ContentIn(cursor) = Content(TheTable)
  <1>1. TextAt(cursor) = cells  BY TextAtCursor
  <1> QED  BY <1>1, Zenon DEF ContentIn, Content

(* A version stands for one place, a later one for a later or the same.    *)
LEMMA PlacesOrdered ==
    ASSUME JInv, NEW v \in Nat, NEW w \in Nat, v <= w, NEW p, NEW q, IsPlace(p, v), IsPlace(q, w)
    PROVE  p <= q
  <1>1. Len(journal) \in Nat /\ \A i \in 1 .. Len(journal) : journal[i].rev \in Nat
    BY JournalNumbers DEF JInv
  <1>2. p \in 0 .. Len(journal) /\ q \in 0 .. Len(journal)  BY DEF IsPlace
  <1>3. ASSUME q < p PROVE FALSE
    <2>1. p \in 1 .. p /\ p \in q + 1 .. Len(journal) /\ p \in 1 .. Len(journal)  BY <1>1, <1>2, <1>3
    <2>2. journal[p].rev <= v /\ journal[p].rev > w  BY <2>1 DEF IsPlace
    <2>3. journal[p].rev \in Nat  BY <1>1, <2>1
    <2> QED  BY <2>2, <2>3
  <1> QED  BY <1>1, <1>2, <1>3

LEMMA PlaceUnique ==
    ASSUME JInv, NEW v \in Nat, NEW p, NEW q, IsPlace(p, v), IsPlace(q, v)
    PROVE  p = q
  <1>1. p <= q /\ q <= p  BY PlacesOrdered
  <1>2. p \in Nat /\ q \in Nat  BY DEF IsPlace
  <1> QED  BY <1>1, <1>2

LEMMA UnwindIs ==
    ASSUME JInv, NEW v \in Nat, NEW p, IsPlace(p, v), p <= cursor
    PROVE  UnwindTo(v) = p
  <1>1. /\ cursor \in Nat /\ cursor <= Len(journal) /\ Len(journal) \in Nat
        /\ \A i \in 1 .. Len(journal) : journal[i].rev \in Nat
    BY JournalNumbers DEF JInv
  <1>2. p \in 0 .. cursor  BY <1>1 DEF IsPlace
  <1>3. /\ p = 0 \/ journal[p].rev <= v
        /\ \A q \in p + 1 .. cursor : journal[q].rev > v
    <2>1. p # 0 => p \in 1 .. p  BY <1>2
    <2>2. p + 1 .. cursor \subseteq p + 1 .. Len(journal)  BY <1>1, <1>2
    <2> QED  BY <2>1, <2>2 DEF IsPlace
  <1> DEFINE u == UnwindTo(v)
  <1>4. /\ u \in 0 .. cursor /\ (u = 0 \/ journal[u].rev <= v)
        /\ \A q \in u + 1 .. cursor : journal[q].rev > v
    BY <1>2, <1>3 DEF UnwindTo
  <1> HIDE DEF u
  <1>5. ASSUME u < p PROVE FALSE
    <2>1. p \in u + 1 .. cursor /\ p \in 1 .. Len(journal) /\ p # 0  BY <1>1, <1>2, <1>4, <1>5
    <2>2. journal[p].rev > v /\ journal[p].rev <= v  BY <1>3, <1>4, <2>1
    <2> QED  BY <1>1, <2>1, <2>2
  <1>6. ASSUME p < u PROVE FALSE
    <2>1. u \in p + 1 .. cursor /\ u \in 1 .. Len(journal) /\ u # 0  BY <1>1, <1>2, <1>4, <1>6
    <2>2. journal[u].rev > v /\ journal[u].rev <= v  BY <1>3, <1>4, <2>1
    <2> QED  BY <1>1, <2>1, <2>2
  <1>7. u = p  BY <1>1, <1>2, <1>4, <1>5, <1>6
  <1> QED  BY <1>7 DEF u

LEMMA ForwardIs ==
    ASSUME JInv, NEW v \in Nat, NEW p, IsPlace(p, v), cursor <= p
    PROVE  ForwardTo(v) = p
  <1>1. /\ cursor \in Nat /\ cursor <= Len(journal) /\ Len(journal) \in Nat
        /\ \A i \in 1 .. Len(journal) : journal[i].rev \in Nat
    BY JournalNumbers DEF JInv
  <1>2. p \in cursor .. Len(journal)  BY <1>1 DEF IsPlace
  <1>3. /\ p = Len(journal) \/ journal[p + 1].rev > v
        /\ \A q \in cursor + 1 .. p : journal[q].rev <= v
    <2>1. p # Len(journal) => p + 1 \in p + 1 .. Len(journal)  BY <1>1, <1>2
    <2>2. cursor + 1 .. p \subseteq 1 .. p  BY <1>1, <1>2
    <2> QED  BY <2>1, <2>2 DEF IsPlace
  <1> DEFINE u == ForwardTo(v)
  <1>4. /\ u \in cursor .. Len(journal) /\ (u = Len(journal) \/ journal[u + 1].rev > v)
        /\ \A q \in cursor + 1 .. u : journal[q].rev <= v
    BY <1>2, <1>3 DEF ForwardTo
  <1> HIDE DEF u
  <1>5. ASSUME u < p PROVE FALSE
    <2>1. u + 1 \in cursor + 1 .. p /\ u + 1 \in 1 .. Len(journal) /\ u # Len(journal)
      BY <1>1, <1>2, <1>4, <1>5
    <2>2. journal[u + 1].rev > v /\ journal[u + 1].rev <= v  BY <1>3, <1>4, <2>1
    <2> QED  BY <1>1, <2>1, <2>2
  <1>6. ASSUME p < u PROVE FALSE
    <2>1. p + 1 \in cursor + 1 .. u /\ p + 1 \in 1 .. Len(journal) /\ p # Len(journal)
      BY <1>1, <1>2, <1>4, <1>6
    <2>2. journal[p + 1].rev > v /\ journal[p + 1].rev <= v  BY <1>3, <1>4, <2>1
    <2> QED  BY <1>1, <2>1, <2>2
  <1>7. u = p  BY <1>1, <1>2, <1>4, <1>5, <1>6
  <1> QED  BY <1>7 DEF u

(* The journal stays and every place keeps its text.                       *)
Still == journal' = journal /\ \A p \in 0 .. Len(journal) : TextAt(p)' = TextAt(p)

LEMMA StillIfUnmoved ==
    ASSUME UNCHANGED <<cells, journal, cursor>> PROVE Still
  BY HistoryUnmoved, Zenon DEF Still

LEMMA StillShows ==
    ASSUME Still
    PROVE  /\ \A p, v : IsPlace(p, v)' <=> IsPlace(p, v)
           /\ \A p \in 0 .. Len(journal) : ContentIn(p)' = ContentIn(p)
           /\ \A v, c : Shows(v, c)' <=> Shows(v, c)
  <1>1. \A p, v : IsPlace(p, v)' <=> IsPlace(p, v)  BY Zenon DEF IsPlace, Still
  <1>2. \A p \in 0 .. Len(journal) : ContentIn(p)' = ContentIn(p)  BY Zenon DEF ContentIn, Still
  <1>3. ASSUME NEW v, NEW c PROVE Shows(v, c)' <=> Shows(v, c)
    BY <1>1, <1>2, Zenon DEF Shows, Still
  <1> QED  BY <1>1, <1>2, <1>3

(* A write at the end of the journal, too, leaves what a page shows.       *)
LEMMA RecordShows ==
    ASSUME JInv, cursor = Len(journal), NEW W \in SUBSET Cells, NEW new \in [W -> Inputs],
           NEW batch \in Nat, Record(new, batch),
           NEW v \in 0 .. revision, NEW c, Shows(v, c)
    PROVE  Shows(v, c)'
  <1>1. PICK p \in 0 .. Len(journal) : IsPlace(p, v) /\ c = ContentIn(p)  BY Zenon DEF Shows
  <1>2. cursor \in Nat /\ revision \in Nat /\ Len(journal) \in Nat  BY JournalNumbers DEF JInv
  <1>3. /\ Cardinality(W) \in Nat /\ Len(journal') = cursor + Cardinality(W)
        /\ \A i \in 1 .. cursor : journal'[i] = journal[i]
        /\ \A i \in cursor + 1 .. Len(journal') : journal'[i].rev = revision + 1
    BY RecordShape DEF JInv
  <1>4. Len(journal') \in Nat /\ Len(journal) <= Len(journal')  BY <1>2, <1>3
  <1>5. p \in 0 .. cursor /\ p \in 0 .. Len(journal')  BY <1>2, <1>4
  <1>6. ContentIn(p)' = ContentIn(p)
    <2>1. TextAt(p)' = TextAt(p)  BY <1>5, RecordKeepsPast
    <2> QED  BY <2>1, Zenon DEF ContentIn
  <1>7. ASSUME NEW i \in 1 .. p PROVE journal'[i].rev <= v
    <2>1. i \in 1 .. cursor  BY <1>2, <1>5
    <2> QED  BY <1>1, <1>3, <2>1 DEF IsPlace
  <1>8. ASSUME NEW i \in p + 1 .. Len(journal') PROVE journal'[i].rev > v
    <2>1. CASE i <= cursor
      <3>1. i \in p + 1 .. Len(journal) /\ i \in 1 .. cursor  BY <1>2, <1>5, <2>1
      <3> QED  BY <1>1, <1>3, <3>1 DEF IsPlace
    <2>2. CASE ~(i <= cursor)
      <3>1. i \in cursor + 1 .. Len(journal')  BY <1>2, <1>4, <1>5, <2>2
      <3>2. journal'[i].rev = revision + 1  BY <1>3, <3>1, Zenon
      <3>3. revision + 1 > v  BY <1>2
      <3> QED  BY <3>2, <3>3
    <2> QED  BY <2>1, <2>2
  <1>9. IsPlace(p, v)'  BY <1>5, <1>7, <1>8 DEF IsPlace
  <1> QED  BY <1>1, <1>5, <1>6, <1>9, Zenon DEF Shows

(* An edit, an undo, a redo in the sheet or rows moved: a refresh is due.   *)
LEMMA ChangeBeside ==
    ASSUME Beside, ScheduleRefresh, JournalFrame PROVE Beside'
  <1>1. UNCHANGED <<inFrame, refresh, placed, page, past, future, reading>>
    BY Zenon DEF JournalFrame, frame, shown, document, follower
  <1>2. Prints' = Prints  BY <1>1, Zenon DEF Prints
  <1>3. deferred' => inFrame'  BY <1>1, Zenon DEF ScheduleRefresh, Beside
  <1> QED  BY <1>1, <1>2, <1>3, Zenon DEF Beside

LEMMA EditFollows ==
    ASSUME OneTable, HInv, HInv', Follows, faults' = 0, EditCell \/ EditBatch
    PROVE  Follows'
  <1>1. /\ faults = 0 /\ MarkEdited /\ JournalFrame
        /\ calm' = (calm /\ docSteps = 0)
    BY Zenon DEF EditCell, EditBatch
  <1>2. IInv /\ JInv /\ revision \in Nat  BY DEF HInv, IInv, JInv, JournalOK
  <1>4. Beside'  BY <1>1, ChangeBeside, Zenon DEF MarkEdited, Follows
  <1>5. UNCHANGED <<refresh, placed, page, past, future, docSteps>>
    BY <1>1, Zenon DEF JournalFrame, shown, document
  <1>6. \E W \in SUBSET Cells : \E new \in [W -> Inputs] : \E batch \in Nat : Record(new, batch)
    <2>1. CASE EditCell
      <3>1. PICK c \in Cells, input \in Inputs : Record([x \in {c} |-> input], 0)
        BY <2>1, Zenon DEF EditCell
      <3>2. {c} \in SUBSET Cells /\ [x \in {c} |-> input] \in [{c} -> Inputs] /\ 0 \in Nat  OBVIOUS
      <3> QED  BY <3>1, <3>2, Zenon
    <2>2. CASE EditBatch
      <3>1. batches' \in Nat  BY Zenon DEF HInv, IInv, JInv, JournalOK
      <3> QED  BY <2>2, <3>1, Zenon DEF EditBatch
    <2> QED  BY <2>1, <2>2
  <1>7. PICK W \in SUBSET Cells : \E new \in [W -> Inputs] : \E batch \in Nat : Record(new, batch)
    BY <1>6, Zenon
  <1>8. PICK new \in [W -> Inputs] : \E batch \in Nat : Record(new, batch)  BY <1>7, Zenon
  <1>9. PICK batch \in Nat : Record(new, batch)  BY <1>8, Zenon
  <1>10. ASSUME calm' PROVE PrintsTrue' /\ Linear'
    <2>1. calm /\ docSteps = 0 /\ PrintsTrue /\ Linear  BY <1>1, <1>10, Zenon DEF Follows
    <2>2. cursor = Len(journal)  BY <2>1, Zenon DEF Linear
    <2>3. ASSUME NEW v \in 0 .. revision, NEW c, Shows(v, c) PROVE Shows(v, c)'
      BY <1>2, <1>9, <2>2, <2>3, RecordShows, Zenon
    <2>4. Prints' = Prints  BY <1>5, Zenon DEF Prints
    <2>5. \A s \in Prints : s[TheTable].version \in 0 .. revision
      BY <1>2, PrintsTyped, ShotTyped, TheTableIs, Zenon
    <2>6. PrintsTrue'  BY <2>1, <2>3, <2>4, <2>5, Zenon DEF PrintsTrue
    <2>7. refresh # None => refresh.version \in 0 .. revision
      BY <1>2, RefreshParts, Zenon DEF IInv, TypeOK, PagesOK
    <2>8. cursor' = Len(journal')  BY <1>9, Zenon DEF Record
    <2>9. Linear'  BY <1>5, <2>1, <2>3, <2>4, <2>7, <2>8, Zenon DEF Linear, Newest
    <2> QED  BY <2>6, <2>9
  <1>11. calm' => docSteps' = 0  BY <1>1, <1>5, Zenon
  <1> QED  BY <1>4, <1>10, <1>11, Zenon DEF Follows

LEMMA InsertRowFollows ==
    ASSUME Follows, faults' = 0, InsertRow PROVE Follows'
  <1>1. faults = 0 /\ ScheduleRefresh /\ JournalFrame /\ ~calm'  BY Zenon DEF InsertRow, MarkEdited
  <1>2. Beside'  BY <1>1, ChangeBeside, Zenon DEF Follows
  <1> QED  BY <1>1, <1>2, Zenon DEF Follows

LEMMA UserStepFollows ==
    ASSUME IInv, Follows, faults' = 0, UndoEdit \/ RedoEdit PROVE Follows'
  <1>1. JInv /\ faults \in Nat  BY DEF IInv, TypeOK, CountsOK
  <1>2. PICK goal \in 0 .. Len(journal) : Boundary(goal) /\ goal # cursor /\ UserStep(goal)
    BY <1>1, UserGoal, Zenon
  <1>3. StepTo(goal) /\ JournalFrame /\ ~calm'  BY <1>2, Zenon DEF UserStep
  <1>4. faults = 0 /\ cursor' = goal  BY <1>1, <1>2, <1>3, StepMoves
  <1>5. ScheduleRefresh  BY <1>2, <1>4, Zenon DEF UserStep
  <1>6. Beside'  BY <1>3, <1>4, <1>5, ChangeBeside, Zenon DEF Follows
  <1> QED  BY <1>3, <1>6, Zenon DEF Follows

(* Only the frame and what is due changes.                                 *)
LEMMA FrameFollows ==
    ASSUME Follows,
           UNCHANGED <<book, revision, shown, document, follower, docSteps, calm, faults>>,
           Idle' <=> Idle, (deferred => inFrame) => (deferred' => inFrame')
    PROVE  Follows'
  <1>1. UNCHANGED <<cells, journal, cursor, revision, refresh, placed, page, past, future, follow,
                    reading, docSteps, calm, faults>>
    BY Zenon DEF book, shown, document, follower
  <1>2. Prints' = Prints  BY <1>1, Zenon DEF Prints
  <1>4. Beside => Beside'  BY <1>1, <1>2, Zenon DEF Beside
  <1>6. Still  BY <1>1, StillIfUnmoved, Zenon
  <1>7. /\ \A p, v : IsPlace(p, v)' <=> IsPlace(p, v)
        /\ \A p \in 0 .. Len(journal) : ContentIn(p)' = ContentIn(p)
        /\ \A v, c : Shows(v, c)' <=> Shows(v, c)
    BY <1>6, StillShows
  <1>8. PrintsTrue => PrintsTrue'  BY <1>1, <1>2, <1>7, Zenon DEF PrintsTrue
  <1>9. Newest => Newest'  BY <1>1, <1>2, Zenon DEF Newest
  <1>10. Linear => Linear'  BY <1>1, <1>7, <1>9, Zenon DEF Linear
  <1>11. \A p : ContentIn(p)' = ContentIn(p)
    BY <1>1, HistoryUnmoved, Zenon DEF ContentIn
  <1>12. Behind => Behind'  BY <1>1, <1>7, <1>9, <1>11, Zenon DEF Behind
  <1>13. Listening => Listening'  BY <1>1, <1>7, Zenon DEF Listening
  <1>14. Told => Told'  BY <1>1, Zenon DEF Told
  <1>15. Followed => Followed'  BY <1>1, <1>12, <1>13, <1>14, Zenon DEF Followed
  <1>16. (faults' = 0 => faults = 0) /\ (docSteps' = 0 <=> docSteps = 0)  BY <1>1
  <1>17. calm' => calm  BY <1>1
  <1> HIDE DEF Still
  <1> QED  BY <1>4, <1>8, <1>10, <1>15, <1>16, <1>17, Zenon DEF Follows

(* A refresh writes the one table or nothing.                              *)
LEMMA GoOnOne ==
    ASSUME OneTable, IInv, NEW t \in Nat \ {0}, NEW n \in Nat, NEW infos \in Shots(n),
           NEW version \in Nat, GoOn(t, infos, version)
    PROVE  \/ /\ refresh' = None
              /\ t <= TheTable => infos[TheTable].version = version
                                  \/ infos[TheTable].content = Content(TheTable)
           \/ /\ t <= TheTable /\ infos[TheTable].version # version /\ refresh' # None
              /\ refresh' = [version |-> version, infos |-> infos,
                             at |-> TheTable, next |-> Content(TheTable)]
  <1>1. Len(Ranges) \in Nat /\ TheTable \in Tables /\ t .. Len(Ranges) \subseteq Tables
    BY FirstTable, TheTableIs DEF Tables
  <1>2. t <= TheTable => TheTable \in t .. Len(Ranges)  BY <1>1 DEF Tables
  <1>3. ASSUME NEW m \in t .. Len(Ranges), infos[m].content # Content(m)
        PROVE  m = TheTable /\ t <= TheTable
    <2>1. m = TheTable  BY <1>1, <1>3, OthersShowNothing, Zenon
    <2> QED  BY <1>1, <2>1
  <1> QED  BY <1>2, <1>3, GoOnIs

LEMMA RefreshBeginsFollows ==
    ASSUME OneTable, IInv, Follows, RefreshBegins PROVE Follows'
  <1>1. /\ UNCHANGED <<cells, journal, cursor, revision, inFrame, timer, deferred, placed, page, past,
                       future, follow, reading, docSteps, calm, faults>>
        /\ refresh = None /\ chain # 0 /\ GoOn(1, placed, revision)
    <2>1. chain > 0 => chain # 0  BY DEF IInv, TypeOK, CountsOK
    <2> QED  BY <2>1, Zenon DEF RefreshBegins, book, frame, document, follower
  <1>2. SUFFICES ASSUME faults = 0
                 PROVE  Beside' /\ (calm => PrintsTrue' /\ docSteps = 0 /\ Linear')
    <2>1. faults' = 0 => faults = 0  BY <1>1
    <2>2. docSteps' = docSteps  BY <1>1
    <2>3. calm' => calm  BY <1>1
    <2> QED  BY <1>2, <2>1, <2>2, <2>3, Zenon DEF Follows
  <1>3. /\ Beside
        /\ (calm => PrintsTrue) /\ (calm /\ docSteps = 0 => Linear) /\ (calm /\ docSteps # 0 => Followed)
    BY <1>2, Zenon DEF Follows
  <1>4. revision \in Nat /\ placed \in Shots(revision) /\ TheTable \in Tables
    BY PrintsTyped, TheTableIs
  <1>5. \/ /\ refresh' = None
           /\ placed[TheTable].version = revision \/ placed[TheTable].content = Content(TheTable)
        \/ /\ refresh' # None
           /\ refresh' = [version |-> revision, infos |-> placed,
                          at |-> TheTable, next |-> Content(TheTable)]
    <2>1. 1 \in Nat \ {0} /\ 1 <= TheTable  BY <1>4 DEF Tables
    <2> QED  BY <1>1, <1>4, <2>1, GoOnOne
  <1>6. refresh' # None => /\ refresh'.version = revision /\ refresh'.infos = placed
                           /\ refresh'.at = TheTable /\ refresh'.next = Content(TheTable)
    BY <1>5
  <1>7. Prints' = Prints  BY <1>1, Zenon DEF Prints
  <1>9. Beside'  BY <1>1, <1>3, <1>6, <1>7, Zenon DEF Beside
  <1>11. ASSUME calm PROVE PrintsTrue' /\ docSteps = 0 /\ Linear'
    <2>1. docSteps = 0  BY <1>1, <1>3, <1>11, Zenon DEF Followed, Idle
    <2>2. Still  BY <1>1, StillIfUnmoved, Zenon
    <2>3. \A v, c : Shows(v, c)' <=> Shows(v, c)  BY <2>2, StillShows
    <2>4. PrintsTrue'  BY <1>1, <1>3, <1>7, <1>11, <2>3, Zenon DEF PrintsTrue
    <2>5. Linear /\ JInv  BY <1>3, <1>11, <2>1 DEF IInv
    <2>6. Shows(revision, Content(TheTable))
      <3>1. cursor = Len(journal) /\ cursor \in Nat  BY <2>5, JournalNumbers DEF Linear, JInv
      <3>2. \A i \in 1 .. Len(journal) : journal[i].rev <= revision
        BY <1>4, <2>5 DEF JInv, Stamped
      <3>3. IsPlace(cursor, revision)  BY <3>1, <3>2 DEF IsPlace
      <3>4. cursor \in 0 .. Len(journal)  BY <3>1
      <3> QED  BY <2>5, <3>3, <3>4, ContentHere, Zenon DEF Shows
    <2>7. placed[TheTable].version <= revision  BY <1>4, ShotTyped
    <2>8. Linear'  BY <1>1, <1>6, <1>7, <2>3, <2>5, <2>6, <2>7, Zenon DEF Linear, Newest
    <2> QED  BY <2>1, <2>4, <2>8
  <1> QED  BY <1>9, <1>11

(* The pages a sequence holds, one more or one less.                       *)
LEMMA PushedPrints ==
    ASSUME NEW S, NEW q \in Seq(S), NEW x \in S, NEW i \in 1 .. Len(Append(q, x))
    PROVE  Append(q, x)[i] \in {q[j] : j \in 1 .. Len(q)} \cup {x}
  <1>1. Len(q) \in Nat /\ Len(Append(q, x)) = Len(q) + 1 /\ Append(q, x)[Len(q) + 1] = x
        /\ \A j \in 1 .. Len(q) : Append(q, x)[j] = q[j]
    OBVIOUS
  <1>2. i \in 1 .. Len(q) \/ i = Len(q) + 1  BY <1>1
  <1> QED  BY <1>1, <1>2, Zenon

LEMMA PoppedPrints ==
    ASSUME NEW S, NEW q \in Seq(S), q # <<>>
    PROVE  /\ Last(q) \in {q[j] : j \in 1 .. Len(q)}
           /\ \A i \in 1 .. Len(Front(q)) : Front(q)[i] \in {q[j] : j \in 1 .. Len(q)}
  <1>1. Len(q) \in Nat \ {0}  BY EmptySeq
  <1>2. Last(q) = q[Len(q)] /\ Len(q) \in 1 .. Len(q)  BY <1>1 DEF Last
  <1>3. Front(q) = [i \in 1 .. Len(q) - 1 |-> q[i]]  BY <1>1 DEF Front, SubSeq
  <1>4. Len(Front(q)) = Len(q) - 1
    <2>1. Len(q) - 1 \in Nat  BY <1>1
    <2> QED  BY <1>3, <2>1
  <1>5. 1 .. Len(q) - 1 \subseteq 1 .. Len(q)  BY <1>1
  <1> QED  BY <1>2, <1>3, <1>4, <1>5

LEMMA NewPrints ==
    ASSUME IInv, page' \in Shots(revision),
           \/ past' = Append(past, page) /\ future' = <<>>
           \/ past # <<>> /\ page' = Last(past) /\ past' = Front(past) /\ future' = Append(future, page)
           \/ future # <<>> /\ page' = Last(future) /\ future' = Front(future) /\ past' = Append(past, page)
    PROVE  /\ Prints' \subseteq Prints \cup {page'}
           /\ past # <<>> => Last(past) \in Prints
           /\ future # <<>> => Last(future) \in Prints
  <1> DEFINE S == Shots(revision)
             P == {past[j] : j \in 1 .. Len(past)}
             F == {future[j] : j \in 1 .. Len(future)}
  <1>1. page \in S /\ past \in Seq(S) /\ future \in Seq(S)
    BY Zenon DEF IInv, TypeOK, PagesOK
  <1>2. Prints = {page} \cup P \cup F
        /\ Prints' = {page'} \cup {past'[i] : i \in 1 .. Len(past')} \cup {future'[i] : i \in 1 .. Len(future')}
    BY Zenon DEF Prints
  <1> HIDE DEF S
  <1>3. ASSUME past' = Append(past, page) /\ future' = <<>>
        PROVE  Prints' \subseteq Prints \cup {page'}
    <2>1. \A i \in 1 .. Len(past') : past'[i] \in P \cup {page}  BY <1>1, <1>3, PushedPrints, Zenon
    <2>2. 1 .. Len(future') = {}  BY <1>3
    <2> QED  BY <1>2, <1>3, <2>1, <2>2, Zenon
  <1>4. ASSUME past # <<>> /\ page' = Last(past) /\ past' = Front(past) /\ future' = Append(future, page)
        PROVE  Prints' \subseteq Prints \cup {page'}
    <2>1. \A i \in 1 .. Len(future') : future'[i] \in F \cup {page}  BY <1>1, <1>4, PushedPrints, Zenon
    <2>2. page' \in P /\ \A i \in 1 .. Len(past') : past'[i] \in P  BY <1>1, <1>4, PoppedPrints, Zenon
    <2> QED  BY <1>2, <2>1, <2>2, Zenon
  <1>5. ASSUME future # <<>> /\ page' = Last(future) /\ future' = Front(future) /\ past' = Append(past, page)
        PROVE  Prints' \subseteq Prints \cup {page'}
    <2>1. \A i \in 1 .. Len(past') : past'[i] \in P \cup {page}  BY <1>1, <1>5, PushedPrints, Zenon
    <2>2. page' \in F /\ \A i \in 1 .. Len(future') : future'[i] \in F  BY <1>1, <1>5, PoppedPrints, Zenon
    <2> QED  BY <1>2, <2>1, <2>2, Zenon
  <1>6. (past # <<>> => Last(past) \in P) /\ (future # <<>> => Last(future) \in F)
    BY <1>1, PoppedPrints, Zenon
  <1>7. Prints' \subseteq Prints \cup {page'}  BY <1>3, <1>4, <1>5, Zenon
  <1> QED  BY <1>2, <1>6, <1>7, Zenon

LEMMA TableWrittenFollows ==
    ASSUME OneTable, HInv, HInv', Quiet', Follows, faults' = 0, TableWritten PROVE Follows'
  <1> DEFINE T == TheTable
             written == [version |-> refresh.version, content |-> refresh.next]
  <1>1. IInv /\ faults \in Nat /\ IInv'  BY DEF HInv, IInv, TypeOK, CountsOK
  <1>2. ~Fails  BY <1>1 DEF Fails
  <1>3. /\ refresh # None
        /\ Applied
        /\ placed' = [placed EXCEPT ![refresh.at] = written]
        /\ GoOn(refresh.at + 1, refresh.infos, refresh.version)
        /\ UNCHANGED <<cells, journal, cursor, revision, inFrame, timer, deferred, chain,
                       follow, reading, docSteps, calm>>
    BY <1>2, Zenon DEF TableWritten, Refused, book, frame, due, follower
  <1>4. faults = 0  BY <1>3, Zenon DEF Applied, Succeeds
  <1>5. /\ Beside
        /\ (calm => PrintsTrue) /\ (calm /\ docSteps = 0 => Linear) /\ (calm /\ docSteps # 0 => Followed)
    BY <1>4, Zenon DEF Follows
  <1>6. /\ refresh.at = T /\ T \in Tables /\ T \in Nat /\ revision \in Nat
        /\ refresh \in Refreshes(revision) /\ refresh.infos \in Shots(revision)
        /\ refresh.version \in 0 .. revision /\ refresh.next \in [Ranges[T] -> Inputs]
    <2>1. refresh.at = T  BY <1>3, <1>5, Zenon DEF Beside
    <2>2. refresh \in Refreshes(revision)  BY <1>1, <1>3, Zenon DEF IInv, TypeOK, PagesOK
    <2>3. T \in Tables /\ T \in Nat  BY TheTableIs DEF Tables
    <2>4. refresh.infos \in Shots(revision) /\ refresh.version \in 0 .. revision
          /\ refresh.next \in [Ranges[T] -> Inputs]
      BY <2>1, <2>2, RefreshParts, Zenon
    <2> QED  BY <1>1, <2>1, <2>2, <2>3, <2>4, PrintsTyped, Zenon
  <1>7. placed \in Shots(revision) /\ page \in Shots(revision)
        /\ page' \in Shots(revision)
    BY <1>1, <1>3, Zenon DEF IInv, TypeOK, PagesOK
  <1>8. refresh' = None
    <2>1. T + 1 \in Nat \ {0} /\ ~(T + 1 <= T)  BY <1>6
    <2>2. GoOn(T + 1, refresh.infos, refresh.version) /\ refresh.version \in Nat
      BY <1>3, <1>6
    <2> QED  BY <1>1, <1>6, <2>1, <2>2, GoOnOne, Zenon
  <1>9. /\ placed' = [placed EXCEPT ![T] = written]
        /\ page' = [page EXCEPT ![T] = [version |-> refresh.version, content |-> Repoured]]
        /\ past' = Append(past, page) /\ future' = <<>>
    BY <1>3, <1>6, Zenon DEF Applied
  <1>10. /\ placed'[T] = written /\ page'[T] = [version |-> refresh.version, content |-> Repoured]
         /\ \A t \in Tables \ {T} : placed'[t] = placed[t] /\ page'[t] = page[t]
    <2>1. DOMAIN placed = Tables /\ DOMAIN page = Tables  BY <1>7 DEF Shots
    <2> QED  BY <1>6, <1>9, <2>1, Zenon
  <1>11. Prints' \subseteq Prints \cup {page'} /\ page \in Prints
    BY <1>1, <1>7, <1>9, NewPrints, PrintsTyped, Zenon
  <1>12. Beside'
    <2>1. \A t \in Tables \ {T} : page[t].version = 0 /\ placed[t].version = 0
      BY <1>5, <1>11, Zenon DEF Beside
    <2>2. \A s \in Prints' \cup {placed'} : \A t \in Tables \ {T} : s[t].version = 0
      BY <1>5, <1>10, <1>11, <2>1, Zenon DEF Beside
    <2> QED  BY <1>3, <1>5, <1>8, <2>2, Zenon DEF Beside
  <1>13. written.version = refresh.version /\ written.content = refresh.next  OBVIOUS
  <1>14. docSteps = 0 => page' = placed'  BY <1>3, Zenon DEF Quiet, Undisturbed
  <1>15. ASSUME calm PROVE PrintsTrue' /\ docSteps = 0 /\ Linear'
    <2>1. docSteps = 0  BY <1>3, <1>5, <1>15, Zenon DEF Followed
    <2>2. Still  BY <1>3, StillIfUnmoved, Zenon
    <2>3. \A v, c : Shows(v, c)' <=> Shows(v, c)  BY <2>2, StillShows
    <2>4. Linear /\ PrintsTrue  BY <1>5, <1>15, <2>1
    <2>5. page'[T].version = refresh.version /\ page'[T].content = refresh.next
          /\ placed'[T].version = refresh.version
      BY <1>10, <1>13, <1>14, <2>1
    <2>6. Shows(refresh.version, refresh.next)  BY <1>3, <2>4, Zenon DEF Linear
    <2>7. PrintsTrue'  BY <1>11, <2>3, <2>4, <2>5, <2>6, Zenon DEF PrintsTrue
    <2>8. ASSUME NEW s \in Prints PROVE s[T].version <= refresh.version
      <3>1. s[T].version <= placed[T].version /\ placed[T].version <= refresh.version
        BY <1>3, <2>4, Zenon DEF Linear, Newest
      <3>2. s[T].version \in Nat /\ placed[T].version \in Nat /\ refresh.version \in Nat
        <4>1. s \in Shots(revision)  BY <1>1, PrintsTyped, Zenon
        <4>2. s[T].version \in Nat /\ placed[T].version \in Nat
          BY <1>6, <1>7, <4>1, ShotTyped, Zenon
        <4> QED  BY <1>6, <4>2
      <3> QED  BY <3>1, <3>2
    <2>9. refresh.version <= refresh.version  BY <1>6
    <2>10. Newest'  BY <1>11, <2>5, <2>8, <2>9, Zenon DEF Newest
    <2> QED  BY <1>3, <1>8, <2>1, <2>4, <2>7, <2>10, Zenon DEF Linear
  <1>16. docSteps' = docSteps /\ (calm' => calm)  BY <1>3
  <1> QED  BY <1>12, <1>15, <1>16, Zenon DEF Follows

(* The document's undo or redo shows a page recorded.                      *)
LEMMA DocStepFollows ==
    ASSUME OneTable, IInv, IInv', Quiet, Follows, faults' = 0, DocUndo \/ DocRedo PROVE Follows'
  <1> DEFINE T == TheTable
  <1>1. /\ UNCHANGED <<cells, journal, cursor, revision, inFrame, timer, deferred, chain, refresh, placed,
                       reading, faults>>
        /\ ~inFrame /\ docSteps' = docSteps + 1 /\ follow' = follow + 1
        /\ calm' => calm /\ ~timer /\ chain = 0 /\ refresh = None
    BY Zenon DEF DocUndo, DocRedo, DocStep, book, frame, due, shown
  <1>2. docSteps' # 0 /\ follow' # 0 /\ faults = 0
    BY <1>1 DEF IInv, TypeOK, CountsOK
  <1>3. /\ Beside
        /\ (calm => PrintsTrue) /\ (calm /\ docSteps = 0 => Linear) /\ (calm /\ docSteps # 0 => Followed)
    BY <1>2, Zenon DEF Follows
  <1>4. Prints' \subseteq Prints
    <2>1. page' \in Shots(revision)  BY <1>1, Zenon DEF IInv, TypeOK, PagesOK
    <2>2. \/ past # <<>> /\ page' = Last(past) /\ past' = Front(past) /\ future' = Append(future, page)
          \/ future # <<>> /\ page' = Last(future) /\ future' = Front(future) /\ past' = Append(past, page)
      BY Zenon DEF DocUndo, DocRedo
    <2>3. /\ Prints' \subseteq Prints \cup {page'}
          /\ past # <<>> => Last(past) \in Prints
          /\ future # <<>> => Last(future) \in Prints
      BY <2>1, <2>2, NewPrints, Zenon
    <2> QED  BY <2>2, <2>3, Zenon
  <1>5. Beside'  BY <1>1, <1>3, <1>4, Zenon DEF Beside
  <1>6. ASSUME calm' PROVE PrintsTrue' /\ Followed'
    <2>1. Still  BY <1>1, StillIfUnmoved, Zenon
    <2>2. /\ \A p, v : IsPlace(p, v)' <=> IsPlace(p, v)
          /\ \A v, c : Shows(v, c)' <=> Shows(v, c)
      BY <2>1, StillShows
    <2>3. PrintsTrue /\ calm /\ refresh = None /\ Idle
      BY <1>1, <1>3, <1>6, Zenon DEF Idle, Beside
    <2>4. PrintsTrue'  BY <1>4, <2>2, <2>3, Zenon DEF PrintsTrue
    <2>5. Idle' /\ refresh' = None  BY <1>1, <2>3, Zenon DEF Idle
    <2>6. Newest => Newest'  BY <1>1, <1>4, Zenon DEF Newest
    <2>7. \A p : ContentIn(p)' = ContentIn(p)  BY <1>1, HistoryUnmoved, Zenon DEF ContentIn
    <2>8. Behind /\ Listening
      <3>1. CASE docSteps # 0  BY <1>3, <2>3, <3>1, Zenon DEF Followed
      <3>2. CASE docSteps = 0
        <4>1. Undisturbed /\ Linear /\ JInv  BY <1>2, <1>3, <2>3, <3>2 DEF IInv, Quiet
        <4>2. reading = None  BY <4>1, Zenon DEF Undisturbed
        <4>3. page \in Prints  BY PrintsTyped
        <4>4. Shows(placed[T].version, placed[T].content)
          BY <2>3, <4>1, <4>3, Zenon DEF PrintsTrue, Undisturbed
        <4>5. PICK q \in 0 .. Len(journal) : IsPlace(q, placed[T].version) /\ placed[T].content = ContentIn(q)
          BY <4>4, Zenon DEF Shows
        <4>6. placed[T].content = ContentIn(cursor)
          BY <2>3, <4>1, ContentHere, TheTableIs, Zenon DEF Undisturbed, PageCurrent
        <4>7. q \in 0 .. cursor /\ Newest  BY <4>1, Zenon DEF Linear
        <4>8. Behind  BY <4>2, <4>5, <4>6, <4>7, Zenon DEF Behind
        <4> QED  BY <4>2, <4>8, Zenon DEF Listening
      <3> QED  BY <3>1, <3>2
    <2>9. Behind'  BY <1>1, <2>2, <2>6, <2>7, <2>8, Zenon DEF Behind
    <2>10. Listening'  BY <1>1, <2>2, <2>8, Zenon DEF Listening
    <2>11. Told'  BY <1>2, Zenon DEF Told
    <2> QED  BY <2>4, <2>5, <2>9, <2>10, <2>11, Zenon DEF Followed
  <1> QED  BY <1>2, <1>5, <1>6, Zenon DEF Follows

(* What the follower makes of a binding's version.                         *)
LEMMA MovedIs ==
    ASSUME NEW n \in Nat, reading \in Readings(n), NEW version \in 0 .. n
    PROVE  /\ version = reading.known => Moved(version) = reading
           /\ version # reading.known =>
                /\ Moved(version).moved = reading.moved \cup {reading.at}
                /\ Moved(version).target = IF reading.target = None THEN version ELSE reading.target
                /\ Moved(version).from = IF reading.target = None THEN reading.known ELSE reading.from
                /\ Moved(version).known = reading.known
  <1>1. reading.target = None <=> reading.from = None  BY DEF Readings
  <1>2. version = reading.known => Moved(version) = reading  BY Zenon DEF Moved
  <1>3. ASSUME version # reading.known
        PROVE  /\ Moved(version).moved = reading.moved \cup {reading.at}
               /\ Moved(version).target = IF reading.target = None THEN version ELSE reading.target
               /\ Moved(version).from = IF reading.target = None THEN reading.known ELSE reading.from
               /\ Moved(version).known = reading.known
    <2> DEFINE target == IF reading.target = None THEN version ELSE reading.target
               from == IF reading.from = None THEN reading.known ELSE reading.from
               moved == reading.moved \cup {reading.at}
    <2>1. Moved(version) = [reading EXCEPT !.target = target, !.from = from, !.moved = moved]
      BY <1>3 DEF Moved
    <2> HIDE DEF target, from, moved
    <2>2. Moved(version).target = target /\ Moved(version).from = from /\ Moved(version).moved = moved
          /\ Moved(version).known = reading.known
      BY <2>1 DEF Readings
    <2> QED  BY <1>1, <2>2, Zenon DEF target, from, moved
  <1> QED  BY <1>2, <1>3

(* What the follower knows once a binding has answered.                    *)
Heeds(known) ==
    /\ reading.at < TheTable => known.target = None
    /\ known.target = None => known.moved = {}
    /\ known.target # None =>
         /\ known.from = placed[TheTable].version /\ known.moved = {TheTable}
         /\ known.target # known.from
         /\ \E p \in 0 .. Len(journal) : IsPlace(p, known.target)
    /\ \E q \in 0 .. cursor :
         /\ IsPlace(q, placed[TheTable].version)
         /\ ContentIn(q) = ContentIn(cursor)
         /\ q # cursor => Newest /\ (known.target # None => known.target <= placed[TheTable].version)
    /\ follow = 0 /\ TheTable <= reading.at =>
         page[TheTable].version = IF known.target = None THEN placed[TheTable].version
                                                         ELSE known.target

LEMMA HeardFollows ==
    ASSUME OneTable, IInv, reading # None, Beside,
           NEW known, known = Moved(page[reading.at].version)
    PROVE  /\ known.moved \subseteq {TheTable}
           /\ PrintsTrue /\ Behind /\ Listening /\ Told => Heeds(known)
  <1> DEFINE T == TheTable
             version == page[reading.at].version
  <1>1. /\ revision \in Nat /\ reading \in Readings(revision) /\ page \in Shots(revision)
        /\ placed \in Shots(revision) /\ T \in Tables /\ page \in Prints
    BY PrintsTyped, TheTableIs, Zenon DEF IInv, TypeOK, PagesOK
  <1>2. reading.at \in Tables /\ reading.at \in Nat /\ T \in Nat  BY <1>1 DEF Readings, Tables
  <1>3. version \in 0 .. revision /\ version \in Nat /\ version # None
    <2>1. version \in 0 .. revision  BY <1>1, <1>2, ShotTyped, Zenon
    <2>2. version \in Nat  BY <1>1, <2>1
    <2>3. version # None  BY <2>2, LimitsAssumption
    <2> QED  BY <2>1, <2>2, <2>3
  <1>4. CASE version = reading.known
    <2>1. known = reading  BY <1>1, <1>3, <1>4, MovedIs, Zenon
    <2>2. known.moved \subseteq {T}  BY <2>1, Zenon DEF Beside
    <2>3. ASSUME PrintsTrue, Behind, Listening, Told PROVE Heeds(known)
      <3>1. /\ reading.at <= T => reading.target = None
            /\ reading.target = None => reading.moved = {}
            /\ reading.target # None =>
                 /\ reading.from = placed[T].version /\ reading.moved = {T}
                 /\ reading.target # reading.from
                 /\ \E p \in 0 .. Len(journal) : IsPlace(p, reading.target)
            /\ reading.known = placed[reading.at].version
        BY <2>3, Zenon DEF Listening
      <3>2. \E q \in 0 .. cursor :
              /\ IsPlace(q, placed[T].version)
              /\ ContentIn(q) = ContentIn(cursor)
              /\ q # cursor => Newest /\ (reading.target # None => reading.target <= placed[T].version)
        BY <2>3, Zenon DEF Behind
      <3>3. (reading.at < T => reading.at <= T) /\ (T <= reading.at => T = reading.at \/ reading.at > T)
            /\ (reading.at = T => reading.at <= T)
        BY <1>2
      <3>4. follow = 0 /\ T <= reading.at =>
              page[T].version = IF reading.target = None THEN placed[T].version ELSE reading.target
        BY <1>4, <2>3, <3>1, <3>3, Zenon DEF Told
      <3> QED  BY <2>1, <3>1, <3>2, <3>3, <3>4, Zenon DEF Heeds
    <2> QED  BY <2>2, <2>3
  <1>5. CASE version # reading.known
    <2>1. reading.at = T  BY <1>1, <1>2, <1>5, Zenon DEF Beside
    <2>2. /\ known.moved = reading.moved \cup {reading.at}
          /\ known.target = IF reading.target = None THEN version ELSE reading.target
          /\ known.from = IF reading.target = None THEN reading.known ELSE reading.from
      BY <1>1, <1>3, <1>5, MovedIs, Zenon
    <2>3. known.moved \subseteq {T}  BY <2>1, <2>2, Zenon DEF Beside
    <2>4. ASSUME PrintsTrue, Behind, Listening, Told PROVE Heeds(known)
      <3>1. reading.at <= T /\ ~(reading.at < T)  BY <1>2, <2>1
      <3>2. reading.target = None /\ reading.moved = {} /\ reading.known = placed[T].version
        BY <2>1, <2>4, <3>1, Zenon DEF Listening
      <3>3. known.target = page[T].version /\ known.from = placed[T].version /\ known.moved = {T}
        BY <2>1, <2>2, <3>2
      <3>4. known.target # None /\ known.target # known.from
        BY <1>3, <1>5, <2>1, <3>2, <3>3, Zenon
      <3>5. \E p \in 0 .. Len(journal) : IsPlace(p, known.target)
        BY <1>1, <2>4, <3>3, Zenon DEF PrintsTrue, Shows
      <3>6. \E q \in 0 .. cursor :
              /\ IsPlace(q, placed[T].version)
              /\ ContentIn(q) = ContentIn(cursor)
              /\ q # cursor => Newest /\ (known.target # None => known.target <= placed[T].version)
        BY <1>1, <2>4, <3>3, Zenon DEF Behind, Newest
      <3> QED  BY <3>1, <3>3, <3>4, <3>5, <3>6, Zenon DEF Heeds
    <2> QED  BY <2>3, <2>4
  <1> QED  BY <1>4, <1>5

LEMMA ReadingIsSome ==
    ASSUME NEW n \in Nat, NEW r \in Readings(n) PROVE r # None
  <1>1. Readings(n) \subseteq [at : Tables, known : Nat, target : Nat \cup {None},
                               from : Nat \cup {None}, moved : SUBSET Tables]
    BY DEF Readings
  <1> QED  BY <1>1, NoneAssumption, Zenon

LEMMA FollowBeginsFollows ==
    ASSUME OneTable, IInv, IInv', Quiet, Follows, faults' = 0, FollowBegins PROVE Follows'
  <1> DEFINE T == TheTable
  <1>1. /\ UNCHANGED <<cells, journal, cursor, revision, inFrame, timer, deferred, chain, refresh, placed,
                       page, past, future, docSteps, calm, faults>>
        /\ reading = None /\ follow > 0
        /\ reading' = [at |-> 1, known |-> placed[1].version,
                       target |-> None, from |-> None, moved |-> {}]
    BY Zenon DEF FollowBegins, book, frame, due, shown, document
  <1>2. faults = 0 /\ follow # 0  BY <1>1 DEF IInv, TypeOK, CountsOK
  <1>3. /\ Beside /\ docSteps # 0 /\ docSteps' # 0
        /\ (calm' => PrintsTrue /\ Followed)
    <2>1. docSteps # 0  BY <1>2, Zenon DEF Quiet, Undisturbed
    <2>2. docSteps' = docSteps /\ (calm' => calm)  BY <1>1
    <2> QED  BY <1>2, <2>1, <2>2, Zenon DEF Follows
  <1>4. /\ reading'.at = 1 /\ reading'.known = placed[1].version /\ reading'.target = None
        /\ reading'.moved = {}
    BY <1>1
  <1>5. reading' # None
    <2>1. 1 \in Tables /\ {} \in SUBSET Tables  BY FirstTable
    <2>2. placed[1].version \in Nat  BY <2>1, PrintsTyped, ShotTyped, Zenon
    <2>3. reading' \in [at : Tables, known : Nat, target : Nat \cup {None},
                        from : Nat \cup {None}, moved : SUBSET Tables]
      BY <1>1, <2>1, <2>2
    <2> QED  BY <2>3, NoneAssumption, Zenon
  <1>6. Prints' = Prints  BY <1>1, Zenon DEF Prints
  <1>7. Beside'
    <2>1. 1 # T => placed[1].version = 0  BY <1>3, FirstTable, Zenon DEF Beside
    <2>2. reading'.moved \subseteq {T}  BY <1>4
    <2> QED  BY <1>1, <1>3, <1>4, <1>6, <2>1, <2>2, Zenon DEF Beside
  <1>8. ASSUME calm' PROVE PrintsTrue' /\ Followed'
    <2>1. Still  BY <1>1, StillIfUnmoved, Zenon
    <2>2. /\ \A p, v : IsPlace(p, v)' <=> IsPlace(p, v)
          /\ \A v, c : Shows(v, c)' <=> Shows(v, c)
      BY <2>1, StillShows
    <2>3. \A p : ContentIn(p)' = ContentIn(p)  BY <1>1, HistoryUnmoved, Zenon DEF ContentIn
    <2>4. PrintsTrue /\ Followed  BY <1>3, <1>8
    <2>5. PrintsTrue'  BY <1>6, <2>2, <2>4, Zenon DEF PrintsTrue
    <2>6. Newest => Newest'  BY <1>1, <1>6, Zenon DEF Newest
    <2>7. Behind'  BY <1>1, <1>4, <2>2, <2>3, <2>4, <2>6, Zenon DEF Followed, Behind
    <2>8. Listening'  BY <1>1, <1>4, Zenon DEF Listening
    <2>9. ~(reading'.at > T)  BY <1>4, TheTableIs DEF Tables
    <2>10. Told'  BY <1>5, <2>9, Zenon DEF Told
    <2>11. Idle' /\ refresh' = None  BY <1>1, <2>4, Zenon DEF Followed, Idle
    <2> QED  BY <2>5, <2>7, <2>8, <2>10, <2>11, Zenon DEF Followed
  <1> QED  BY <1>3, <1>7, <1>8, Zenon DEF Follows

LEMMA FollowReadsFollows ==
    ASSUME OneTable, IInv, IInv', Quiet, Follows, faults' = 0, FollowReads PROVE Follows'
  <1> DEFINE T == TheTable
             known == Moved(page[reading.at].version)
  <1>1. /\ UNCHANGED <<cells, journal, cursor, revision, inFrame, timer, deferred, chain, refresh, placed,
                       page, past, future, follow, docSteps, calm>>
        /\ reading # None /\ reading.at < Len(Ranges)
    BY Zenon DEF FollowReads, book, frame, due, shown, document
  <1>2. ~Fails  BY DEF Fails, IInv, TypeOK, CountsOK
  <1>3. Succeeds /\ reading' = [known EXCEPT !.at = known.at + 1, !.known = placed[reading.at + 1].version]
    BY <1>2, Zenon DEF FollowReads, Heard
  <1>4. faults = 0  BY <1>3, Zenon DEF Succeeds
  <1>5. /\ Beside /\ docSteps # 0 /\ docSteps' # 0
        /\ (calm' => PrintsTrue /\ Followed)
    <2>1. docSteps # 0  BY <1>1, <1>4, Zenon DEF Quiet, Undisturbed
    <2>2. docSteps' = docSteps /\ (calm' => calm)  BY <1>1
    <2> QED  BY <1>4, <2>1, <2>2, Zenon DEF Follows
  <1>6. known.moved \subseteq {T} /\ (PrintsTrue /\ Behind /\ Listening /\ Told => Heeds(known))
    BY <1>1, <1>5, HeardFollows, Zenon
  <1>7. known \in Readings(revision) /\ known.at = reading.at /\ revision' \in Nat
        /\ T \in Nat /\ reading.at \in Nat
    <2>1. known \in Readings(revision) /\ known.at = reading.at  BY <1>1, HeardType, Zenon
    <2>2. revision' \in Nat  BY Zenon DEF IInv, TypeOK, JournalOK
    <2>3. T \in Nat  BY TheTableIs DEF Tables
    <2>4. known.at \in Nat  BY <2>1 DEF Readings, Tables
    <2> QED  BY <2>1, <2>2, <2>3, <2>4
  <1> HIDE DEF known
  <1>8. /\ reading'.at = reading.at + 1 /\ reading'.known = placed[reading'.at].version
        /\ reading'.target = known.target /\ reading'.from = known.from
        /\ reading'.moved = known.moved
    BY <1>3, <1>7 DEF Readings
  <1>9. reading' # None /\ reading'.at \in Tables
    <2>1. known.at + 1 \in Tables  BY <1>1, <1>7, FirstTable DEF Tables
    <2>2. placed[reading.at + 1].version \in 0 .. revision
      BY <1>7, <2>1, PrintsTyped, ShotTyped, Zenon
    <2>3. reading' \in Readings(revision)  BY <1>3, <1>7, <2>1, <2>2 DEF Readings
    <2>4. revision \in Nat  BY PrintsTyped
    <2> QED  BY <1>7, <1>8, <2>1, <2>3, <2>4, ReadingIsSome, Zenon
  <1>10. Prints' = Prints  BY <1>1, Zenon DEF Prints
  <1>11. Beside'
    <2>1. reading'.at # T => reading'.known = 0  BY <1>5, <1>8, <1>9, Zenon DEF Beside
    <2> QED  BY <1>1, <1>5, <1>6, <1>8, <1>10, <2>1, Zenon DEF Beside
  <1>12. ASSUME calm' PROVE PrintsTrue' /\ Followed'
    <2>1. Still  BY <1>1, StillIfUnmoved, Zenon
    <2>2. /\ \A p, v : IsPlace(p, v)' <=> IsPlace(p, v)
          /\ \A v, c : Shows(v, c)' <=> Shows(v, c)
      BY <2>1, StillShows
    <2>3. \A p : ContentIn(p)' = ContentIn(p)  BY <1>1, HistoryUnmoved, Zenon DEF ContentIn
    <2>4. PrintsTrue /\ Followed /\ Heeds(known)  BY <1>5, <1>6, <1>12, Zenon DEF Followed
    <2>5. PrintsTrue'  BY <1>10, <2>2, <2>4, Zenon DEF PrintsTrue
    <2>6. Newest => Newest'  BY <1>1, <1>10, Zenon DEF Newest
    <2>7. Behind'  BY <1>1, <1>8, <2>2, <2>3, <2>4, <2>6, Zenon DEF Heeds, Behind
    <2>8. (reading'.at <= T => reading.at < T) /\ (reading'.at > T => T <= reading.at)
      BY <1>7, <1>8
    <2>9. Listening'
      <3>1. reading'.known = placed'[reading'.at].version  BY <1>1, <1>8, Zenon
      <3>2. journal' = journal  BY <1>1
      <3> QED  BY <1>1, <1>8, <2>2, <2>4, <2>8, <3>1, <3>2, Zenon DEF Heeds, Listening
    <2>10. Told'  BY <1>1, <1>8, <1>9, <2>4, <2>8, Zenon DEF Heeds, Told
    <2>11. Idle' /\ refresh' = None  BY <1>1, <2>4, Zenon DEF Followed, Idle
    <2> QED  BY <2>5, <2>7, <2>9, <2>10, <2>11, Zenon DEF Followed
  <1> QED  BY <1>5, <1>11, <1>12, Zenon DEF Follows

(* Where the workbook goes when the tables have answered.                  *)
LEMMA GoalIs ==
    ASSUME IInv, TheTable \in Tables, NEW known \in Readings(revision), known.target # None, Heeds(known),
           NEW p, IsPlace(p, known.target)
    PROVE  (IF known.target < known.from THEN UnwindTo(known.target) ELSE ForwardTo(known.target)) = p
  <1> DEFINE v == placed[TheTable].version
             w == known.target
  <1>1. v \in Nat /\ w \in Nat /\ JInv
    <2>1. v \in Nat  BY PrintsTyped, ShotTyped, Zenon
    <2>2. w \in Nat  BY PrintsTyped DEF Readings
    <2> QED  BY <2>1, <2>2 DEF IInv
  <1>2. known.from = v /\ w # v
    BY Zenon DEF Heeds
  <1>3. PICK q \in 0 .. cursor : IsPlace(q, v) /\ (q # cursor => w <= v)
    BY Zenon DEF Heeds
  <1>4. q \in Nat /\ cursor \in Nat /\ q <= cursor /\ p \in Nat
    BY <1>1, JournalNumbers DEF JInv, IsPlace
  <1> HIDE DEF v, w
  <1>5. CASE w < v
    <2>1. p <= q  BY <1>1, <1>3, <1>5, PlacesOrdered DEF w
    <2>2. p <= cursor  BY <1>4, <2>1
    <2>3. UnwindTo(w) = p  BY <1>1, <2>2, UnwindIs, Zenon DEF w
    <2> QED  BY <1>2, <1>5, <2>3 DEF w
  <1>6. CASE ~(w < v)
    <2>1. v <= w /\ q = cursor  BY <1>1, <1>2, <1>3, <1>6
    <2>2. q <= p  BY <1>1, <1>3, <2>1, PlacesOrdered DEF w
    <2>3. ForwardTo(w) = p  BY <1>1, <2>1, <2>2, ForwardIs, Zenon DEF w
    <2> QED  BY <1>2, <1>6, <2>3 DEF w
  <1> QED  BY <1>5, <1>6

LEMMA FollowEndsFollows ==
    ASSUME OneTable, HInv, HInv', Quiet, Follows, faults' = 0, FollowEnds PROVE Follows'
  <1> DEFINE T == TheTable
             known == Moved(page[reading.at].version)
             goal == IF known.target < known.from THEN UnwindTo(known.target) ELSE ForwardTo(known.target)
  <1>1. /\ UNCHANGED <<journal, inFrame, timer, deferred, chain, refresh, page, past, future, follow,
                       docSteps, calm>>
        /\ reading # None /\ reading.at = Len(Ranges) /\ reading' = None
    BY Zenon DEF FollowEnds, frame, due, document
  <1>2. IInv /\ IInv' /\ JInv /\ ~Fails  BY DEF Fails, HInv, IInv, TypeOK, CountsOK
  <1>3. /\ known.target = None => Succeeds /\ UNCHANGED <<cells, cursor, revision, placed>>
        /\ known.target # None =>
             Succeeds /\ cells' = TextAt(goal) /\ cursor' = goal /\ placed' = Rebased(known)
    BY <1>2, Zenon DEF FollowEnds, Heard, StepTo
  <1>4. faults = 0  BY <1>3, Zenon DEF Succeeds
  <1>5. /\ Beside /\ docSteps # 0 /\ docSteps' # 0
        /\ (calm' => PrintsTrue /\ Followed)
    <2>1. docSteps # 0  BY <1>1, <1>4, Zenon DEF Quiet, Undisturbed
    <2>2. docSteps' = docSteps /\ (calm' => calm)  BY <1>1
    <2> QED  BY <1>4, <2>1, <2>2, Zenon DEF Follows
  <1>6. known.moved \subseteq {T} /\ (PrintsTrue /\ Behind /\ Listening /\ Told => Heeds(known))
    BY <1>1, <1>2, <1>5, HeardFollows, Zenon
  <1>7. known \in Readings(revision) /\ T \in Tables /\ T <= reading.at
    <2>1. known \in Readings(revision)  BY <1>1, <1>2, HeardType, Zenon
    <2>2. T \in Tables  BY TheTableIs
    <2> QED  BY <1>1, <2>1, <2>2, FirstTable DEF Tables
  <1>8. placed' = [t \in Tables |-> IF t \in known.moved THEN [placed[t] EXCEPT !.version = known.target]
                                                         ELSE placed[t]]
        \/ placed' = placed
    BY <1>3, Zenon DEF Rebased
  <1> HIDE DEF known, goal
  <1>9. Prints' = Prints  BY <1>1, Zenon DEF Prints
  <1>10. Beside'
    <2>1. \A t \in Tables \ {T} : placed'[t] = placed[t]  BY <1>6, <1>8, Zenon
    <2>2. \A t \in Tables \ {T} : placed'[t].version = 0
      <3>1. \A t \in Tables \ {T} : placed[t].version = 0  BY <1>5, Zenon DEF Beside
      <3> QED  BY <2>1, <3>1
    <2>3. \A s \in Prints' \cup {placed'} : \A t \in Tables \ {T} : s[t].version = 0
      BY <1>5, <1>9, <2>2, Zenon DEF Beside
    <2> QED  BY <1>1, <1>5, <2>3, Zenon DEF Beside
  <1>11. ASSUME calm' PROVE PrintsTrue' /\ Followed'
    <2>1. PrintsTrue /\ Followed /\ Heeds(known)  BY <1>5, <1>6, <1>11, Zenon DEF Followed
    <2>2. Idle' /\ refresh' = None /\ Listening'
      BY <1>1, <2>1, Zenon DEF Followed, Idle, Listening
    <2>3. CASE known.target = None
      <3>1. UNCHANGED <<cells, cursor, placed>>  BY <1>3, <2>3, Zenon
      <3>2. Still  BY <1>1, <3>1, StillIfUnmoved, Zenon
      <3>3. /\ \A p, v : IsPlace(p, v)' <=> IsPlace(p, v)
            /\ \A v, c : Shows(v, c)' <=> Shows(v, c)
        BY <3>2, StillShows
      <3>4. \A p : ContentIn(p)' = ContentIn(p)  BY <1>1, <3>1, HistoryUnmoved, Zenon DEF ContentIn
      <3>5. PrintsTrue'  BY <1>9, <2>1, <3>3, Zenon DEF PrintsTrue
      <3>6. Newest => Newest'  BY <1>9, <3>1, Zenon DEF Newest
      <3>7. Behind'  BY <1>1, <2>1, <3>1, <3>3, <3>4, <3>6, Zenon DEF Heeds, Behind
      <3>8. Told'  BY <1>1, <1>7, <2>1, <2>3, <3>1, Zenon DEF Heeds, Told
      <3> QED  BY <2>2, <3>5, <3>7, <3>8, Zenon DEF Followed
    <2>4. CASE known.target # None
      <3>1. PICK p \in 0 .. Len(journal) : IsPlace(p, known.target)
        BY <2>1, <2>4, Zenon DEF Heeds
      <3>2. goal = p  BY <1>2, <1>7, <2>1, <2>4, <3>1, GoalIs, Zenon DEF goal
      <3>3. cells' = TextAt(p) /\ cursor' = p /\ journal' = journal
        BY <1>1, <1>3, <2>4, <3>2, Zenon
      <3>4. \A q \in 0 .. Len(journal) : TextAt(q)' = TextAt(q)
        BY <1>2, <1>4, <3>3, CursorMoves, Zenon DEF HInv
      <3>5. Still  BY <3>3, <3>4, Zenon DEF Still
      <3>6. /\ \A r, v : IsPlace(r, v)' <=> IsPlace(r, v)
            /\ \A v, c : Shows(v, c)' <=> Shows(v, c)
        BY <3>5, StillShows
      <3>7. PrintsTrue'  BY <1>9, <2>1, <3>6, Zenon DEF PrintsTrue
      <3>8. placed'[T].version = known.target
        <4>1. T \in known.moved  BY <2>1, <2>4, Zenon DEF Heeds
        <4>2. placed' = Rebased(known)  BY <1>3, <2>4, Zenon
        <4>3. placed'[T] = [placed[T] EXCEPT !.version = known.target]
          BY <1>7, <4>1, <4>2, Zenon DEF Rebased
        <4>4. placed[T] = [version |-> placed[T].version, content |-> placed[T].content]
          <5>1. placed \in Shots(revision) /\ revision \in Nat  BY <1>2, PrintsTyped
          <5> QED  BY <1>7, <5>1, ShotTyped
        <4> QED  BY <4>3, <4>4
      <3>9. p \in 0 .. p  BY <3>1
      <3>10. Behind'  BY <3>1, <3>3, <3>6, <3>8, <3>9, Zenon DEF Behind
      <3>11. Told'  BY <1>1, <1>7, <2>1, <2>4, <3>8, Zenon DEF Heeds, Told
      <3> QED  BY <2>2, <3>7, <3>10, <3>11, Zenon DEF Followed
    <2> QED  BY <2>3, <2>4
  <1> QED  BY <1>5, <1>10, <1>11, Zenon DEF Follows

LEMMA InitFollows == ASSUME OneTable, IInv, Init PROVE Follows
  <1> DEFINE T == TheTable
  <1>1. /\ page = FirstShot /\ placed = FirstShot /\ past = <<>> /\ future = <<>> /\ reading = None
        /\ refresh = None /\ follow = 0 /\ ~deferred /\ docSteps = 0 /\ journal = <<>> /\ cursor = 0
        /\ cells = [c \in Cells |-> Empty] /\ JInv
    BY Zenon DEF Init, IInv
  <1>2. T \in Tables /\ Ranges[T] \in SUBSET Cells  BY TheTableIs, RangeOfTable
  <1>3. \A t \in Tables : FirstShot[t].version = 0 /\ FirstShot[t].content = [c \in Ranges[t] |-> Empty]
    BY DEF FirstShot
  <1>4. Prints = {FirstShot}
    <2>1. 1 .. Len(past) = {} /\ 1 .. Len(future) = {}  BY <1>1
    <2> QED  BY <1>1, <2>1, Zenon DEF Prints
  <1>5. Beside  BY <1>1, <1>3, <1>4, Zenon DEF Beside
  <1>6. Content(T) = FirstShot[T].content
    <2>1. \A c \in Ranges[T] : cells[c] = Empty  BY <1>1, <1>2
    <2>2. Content(T) = [c \in Ranges[T] |-> Empty]  BY <2>1, Zenon DEF Content
    <2> QED  BY <1>2, <1>3, <2>2, Zenon
  <1>8. Len(journal) = 0 /\ 0 \in 0 .. Len(journal)  BY <1>1
  <1>9. IsPlace(0, 0)  BY <1>8 DEF IsPlace
  <1>10. ContentIn(0) = FirstShot[T].content  BY <1>1, <1>6, ContentHere, Zenon
  <1>11. PrintsTrue  BY <1>2, <1>3, <1>4, <1>8, <1>9, <1>10, Zenon DEF PrintsTrue, Shows
  <1>12. FirstShot[T].version <= FirstShot[T].version
    <2>1. FirstShot[T].version = 0  BY <1>2, <1>3, Zenon
    <2> QED  BY <2>1
  <1>13. Linear  BY <1>1, <1>4, <1>8, <1>12, Zenon DEF Linear, Newest
  <1> QED  BY <1>1, <1>5, <1>11, <1>13, Zenon DEF Follows

FInv == HInv /\ Quiet /\ Follows

LEMMA NextFollows == ASSUME OneTable, FInv, HInv', Quiet', [Next]_vars PROVE Follows'
  <1>1. HInv /\ Quiet /\ Follows /\ IInv /\ IInv'  BY Zenon DEF FInv, HInv
  <1>2. SUFFICES ASSUME faults' = 0 PROVE Follows'  BY Zenon DEF Follows
  <1>3. CASE EditCell \/ EditBatch  BY <1>1, <1>2, <1>3, EditFollows
  <1>4. CASE InsertRow  BY <1>1, <1>2, <1>4, InsertRowFollows
  <1>5. CASE UndoEdit \/ RedoEdit  BY <1>1, <1>2, <1>5, UserStepFollows
  <1>6. CASE EnterFrame \/ LeaveFrame \/ TimerFires \/ UNCHANGED vars
    <2>1. /\ Idle' <=> Idle
          /\ UNCHANGED <<book, revision, shown, document, follower, docSteps, calm, faults>>
          /\ (deferred => inFrame) => (deferred' => inFrame')
      BY <1>1, <1>6, IdleKept, Zenon
    <2> QED  BY <1>1, <2>1, FrameFollows
  <1>7. CASE RefreshBegins  BY <1>1, <1>7, RefreshBeginsFollows
  <1>8. CASE TableWritten  BY <1>1, <1>2, <1>8, TableWrittenFollows
  <1>9. CASE DocUndo \/ DocRedo  BY <1>1, <1>2, <1>9, DocStepFollows
  <1>10. CASE FollowBegins  BY <1>1, <1>2, <1>10, FollowBeginsFollows
  <1>11. CASE FollowReads  BY <1>1, <1>2, <1>11, FollowReadsFollows
  <1>12. CASE FollowEnds  BY <1>1, <1>2, <1>12, FollowEndsFollows
  <1> QED
    BY <1>3, <1>4, <1>5, <1>6, <1>7, <1>8, <1>9, <1>10, <1>11, <1>12, Zenon
    DEF Next, Refreshing, Following

(* With nothing under way the table shows the workbook.                    *)
LEMMA FollowedShows == ASSUME OneTable, FInv PROVE TablesFollow
  <1> DEFINE T == TheTable
  <1>1. SUFFICES ASSUME Settled, faults = 0, docSteps = 0 \/ calm PROVE PageCurrent
    BY Zenon DEF TablesFollow
  <1>2. /\ IInv /\ JInv /\ T \in Tables /\ revision \in Nat /\ page \in Shots(revision)
        /\ placed \in Shots(revision) /\ page \in Prints
    BY PrintsTyped, TheTableIs DEF FInv, HInv, IInv
  <1>3. Idle /\ refresh = None /\ reading = None /\ follow = 0  BY <1>1, Zenon DEF Settled, Idle
  <1>4. /\ (docSteps = 0 => Undisturbed) /\ (calm /\ docSteps # 0 => PrintsTrue /\ Followed)
    BY <1>1, Zenon DEF FInv, Quiet, Follows
  <1>5. page[T].content = Content(T)
    <2>1. CASE docSteps = 0  BY <1>2, <1>3, <1>4, <2>1, Zenon DEF Undisturbed, PageCurrent
    <2>2. CASE docSteps # 0
      <3>1. PrintsTrue /\ Behind /\ Told  BY <1>1, <1>4, <2>2, Zenon DEF Followed
      <3>2. page[T].version = placed[T].version  BY <1>3, <3>1, Zenon DEF Told
      <3>3. PICK p \in 0 .. Len(journal) : IsPlace(p, page[T].version) /\ page[T].content = ContentIn(p)
        BY <1>2, <3>1, Zenon DEF PrintsTrue, Shows
      <3>4. PICK q \in 0 .. cursor : IsPlace(q, placed[T].version) /\ ContentIn(q) = ContentIn(cursor)
        BY <3>1, Zenon DEF Behind
      <3>5. page[T].version \in Nat  BY <1>2, ShotTyped, Zenon
      <3>6. p = q  BY <1>2, <3>2, <3>3, <3>4, <3>5, PlaceUnique, Zenon
      <3> QED  BY <1>2, <3>3, <3>4, <3>6, ContentHere, Zenon
    <2> QED  BY <2>1, <2>2
  <1>6. \A t \in Tables \ {T} : page[t].content = Content(t)  BY <1>2, OthersShowNothing, Zenon
  <1> QED  BY <1>5, <1>6, Zenon DEF PageCurrent

(***************************************************************************)
(* One of the placed tables shows what is edited: whenever no refresh and  *)
(* no follower is due or under way, no call failed and the document was    *)
(* not undone or only in peace, every table shows the workbook, however    *)
(* edits, refreshes, frames and the document's undo and redo were          *)
(* interleaved before.                                                     *)
(***************************************************************************)
THEOREM TablesFollowCorrect == OneTable => (Spec => []TablesFollow)
  <1> SUFFICES ASSUME OneTable PROVE Spec => []TablesFollow
    OBVIOUS
  <1>1. Init => FInv
    <2>1. ASSUME Init PROVE FInv
      <3>1. HInv /\ Quiet  BY <2>1, HistoryBegins, InitQuiet
      <3> QED  BY <2>1, <3>1, InitFollows, Zenon DEF FInv, HInv
    <2> QED  BY <2>1
  <1>2. FInv /\ [Next]_vars => FInv'
    <2>1. ASSUME FInv, [Next]_vars PROVE FInv'
      <3>1. HInv'  BY <2>1, NextRefines, Zenon DEF FInv
      <3>2. Quiet'  BY <2>1, <3>1, NextQuiet, Zenon DEF FInv, HInv
      <3> QED  BY <2>1, <3>1, <3>2, NextFollows, Zenon DEF FInv
    <2> QED  BY <2>1
  <1>3. FInv => TablesFollow  BY FollowedShows
  <1> QED  BY <1>1, <1>2, <1>3, PTL DEF Spec

=============================================================================
