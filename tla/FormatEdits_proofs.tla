------------------------- MODULE FormatEdits_proofs ------------------------
(***************************************************************************)
(* Two theorems, for any files, patches and length of the session.         *)
(*                                                                         *)
(* RecordsKept: what a style says, it says for good, however many styles   *)
(* are patched after it.  A patch only appends, so a reading can change in *)
(* two ways: an id that named no record would come to name a new one, and  *)
(* a number format could take an id that is in use.  The invariant IInv    *)
(* excludes both: every style names records that exist (InOrder), and      *)
(* there is a largest format id to count on from (FormatIdsBelow).         *)
(*                                                                         *)
(* OnTrail: undo and redo bring back the sheets that the steps made.  The  *)
(* invariant TrailInv says of every record what it has to do with the      *)
(* sheets before and after its step (Link), of the sheet in hand that it   *)
(* is the one at the cursor (Agrees), both but for what is lost by then,   *)
(* and of a style change under way that it has touched nothing but styles  *)
(* in its box (Doing).  A step taken back leads from one sheet to the      *)
(* other because the record is of both, whatever was done in between.      *)
(***************************************************************************)
EXTENDS FormatEdits, WellFoundedInduction, TLAPS

-----------------------------------------------------------------------------
(* Least and greatest numbers                                              *)

Less == {p \in Nat \X Nat : p[1] < p[2]}

LEMMA LessWellFounded == IsWellFoundedOn(Less, Nat)
  <1>1. Less = OpToRel(<, Nat)  BY Zenon DEF Less, OpToRel
  <1> QED  BY <1>1, NatLessThanWellFounded, Zenon

LEMMA LeastNatural ==
    ASSUME NEW S \in SUBSET Nat, S # {}
    PROVE  \E n \in S : \A m \in S : n <= m
  <1>1. PICK x \in S : \A y \in S : ~(<<y, x>> \in Less)
    BY LessWellFounded, WFMin, Zenon
  <1>2. \A y \in S : ~(y < x)  BY <1>1 DEF Less
  <1> QED  BY <1>2

LEMMA GreatestNatural ==
    ASSUME NEW S \in SUBSET Nat, S # {}, NEW bound \in Nat, \A i \in S : i <= bound
    PROVE  \E n \in S : \A i \in S : i <= n
  <1> DEFINE Above == {n \in Nat : \A i \in S : i <= n}
  <1>1. Above \in SUBSET Nat /\ Above # {}  OBVIOUS
  <1>2. PICK top \in Above : \A n \in Above : top <= n  BY <1>1, LeastNatural
  <1>3. ASSUME top \notin S PROVE FALSE
    <2>1. \A i \in S : i < top  BY <1>2, <1>3
    <2>2. top > 0
      <3>1. PICK i \in S : TRUE  OBVIOUS
      <3> QED  BY <3>1, <2>1, <1>2
    <2>3. top - 1 \in Above  BY <2>1, <2>2, <1>2
    <2> QED  BY <2>3, <1>2
  <1> QED  BY <1>2, <1>3

-----------------------------------------------------------------------------
(* Tables                                                                  *)

(* Appending a record keeps the ones before it.                            *)
LEMMA Appended ==
    ASSUME NEW s, IsTable(s), NEW rec
    PROVE  /\ IsTable(Append(s, rec))
           /\ Len(s) \in Nat /\ Len(Append(s, rec)) = Len(s) + 1
           /\ \A k \in 1..Len(s) : Append(s, rec)[k] = s[k]
           /\ Append(s, rec)[Len(s) + 1] = rec
  <1> DEFINE old == {s[k] : k \in 1..Len(s)}
             t == Append(s, rec)
  <1>1. s \in Seq(old \cup {rec})  BY DEF IsTable
  <1>2. /\ t \in Seq(old \cup {rec}) /\ Len(s) \in Nat /\ Len(t) = Len(s) + 1
        /\ \A k \in 1..Len(s) : t[k] = s[k]
        /\ t[Len(s) + 1] = rec
    BY <1>1
  <1>3. old \cup {rec} = {t[k] : k \in 1..Len(t)}  BY <1>2
  <1> QED  BY <1>2, <1>3 DEF IsTable

(* find_or_append: the table grows by one record at most, and the record   *)
(* is at the place it answers.                                             *)
LEMMA FoundOrAppended ==
    ASSUME NEW s, IsTable(s), NEW rec
    PROVE  LET res == FindOrAppend(s, rec)
           IN  /\ IsTable(res.table) /\ Grown(res.table, s)
               /\ Known(res.table, res.id) /\ res.table[res.id] = rec
  <1> DEFINE at == {k \in 1..Len(s) : s[k] = rec}
             res == FindOrAppend(s, rec)
  <1>1. Len(s) \in Nat  BY Appended
  <1>2. CASE at # {}
    <2>1. at \in SUBSET Nat  BY <1>1
    <2>2. \E k \in at : \A j \in at : k <= j  BY <1>2, <2>1, LeastNatural
    <2>3. res = [table |-> s, id |-> CHOOSE k \in at : \A j \in at : k <= j]
      BY <1>2 DEF FindOrAppend
    <2>4. res.id \in at  BY <2>2, <2>3
    <2> QED  BY <1>1, <2>3, <2>4 DEF Grown, Known
  <1>3. CASE at = {}
    <2>1. res = [table |-> Append(s, rec), id |-> Len(s) + 1]  BY <1>3 DEF FindOrAppend
    <2> QED  BY <1>1, <2>1, Appended DEF Grown, Known
  <1> QED  BY <1>2, <1>3

(* Every record of the grown table is the new one or an old one.           *)
OldOr(rec, t, s) == \A k \in 1..Len(t) : t[k] = rec \/ \E j \in 1..Len(s) : t[k] = s[j]

LEMMA OneAtMost ==
    ASSUME NEW s, IsTable(s), Len(s) > 0, NEW rec, NEW t, t = s \/ t = Append(s, rec)
    PROVE  IsTable(t) /\ Grown(t, s) /\ Len(t) > 0 /\ OldOr(rec, t, s)
  <1>1. Len(s) \in Nat  BY Appended
  <1>2. CASE t = s  BY <1>1, <1>2 DEF Grown, OldOr
  <1>3. CASE t = Append(s, rec)
    <2>1. /\ IsTable(t) /\ Len(t) = Len(s) + 1 /\ t[Len(s) + 1] = rec
          /\ \A k \in 1..Len(s) : t[k] = s[k]
      BY <1>3, Appended
    <2>2. \A k \in 1..Len(t) : k \in 1..Len(s) \/ k = Len(s) + 1  BY <1>1, <2>1
    <2>3. OldOr(rec, t, s)  BY <2>1, <2>2, Zenon DEF OldOr
    <2> QED  BY <1>1, <2>1, <2>3 DEF Grown
  <1> QED  BY <1>2, <1>3

LEMMA GrownTwice ==
    ASSUME NEW a, NEW b, NEW c, IsTable(a), IsTable(b), IsTable(c), Grown(b, a), Grown(c, b)
    PROVE  Grown(c, a)
  <1>1. Len(a) \in Nat /\ Len(b) \in Nat /\ Len(c) \in Nat  BY Appended
  <1> QED  BY <1>1 DEF Grown

-----------------------------------------------------------------------------
(* Number formats: those that were added have ids of their own.            *)
FmtsGrown(new, old) ==
  /\ Grown(new, old)
  /\ \A k \in Len(old) + 1..Len(new) :
       /\ new[k].id \in Nat /\ new[k].id > 163
       /\ \A j \in 1..Len(old) : new[k].id # old[j].id

IdsBelow(fmts, m) == \A k \in 1..Len(fmts) : fmts[k].id \in 0..m

(* One patch adds one format at most, with an id past all others.          *)
LEMMA FormatAdded ==
    ASSUME NEW fmts, IsTable(fmts), NEW m \in Nat, IdsBelow(fmts, m), NEW code
    PROVE  LET res == NumFmtId(fmts, code)
           IN  /\ IsTable(res.table) /\ FmtsGrown(res.table, fmts)
               /\ \E n \in Nat : IdsBelow(res.table, n)
               /\ res.id <= 163 \/ \E k \in 1..Len(res.table) : res.table[k].id = res.id
  <1> DEFINE builtin == {i \in DOMAIN Builtin : Builtin[i] = code}
             custom  == {k \in 1..Len(fmts) : fmts[k].code = code}
             ids     == {163} \cup {fmts[k].id : k \in 1..Len(fmts)}
             last    == LastCustom(fmts)
             rec     == [id |-> last + 1, code |-> code]
             res     == NumFmtId(fmts, code)
  <1>1. Len(fmts) \in Nat  BY Appended
  <1>2. FmtsGrown(fmts, fmts)  BY <1>1 DEF FmtsGrown, Grown
  <1>3. CASE builtin # {}
    <2>1. builtin \in SUBSET Nat  BY BuiltinAssumption
    <2>2. \E i \in builtin : \A j \in builtin : i <= j  BY <1>3, <2>1, LeastNatural
    <2>3. res = [table |-> fmts, id |-> CHOOSE i \in builtin : \A j \in builtin : i <= j]
      BY <1>3 DEF NumFmtId
    <2>4. res.id \in builtin  BY <2>2, <2>3
    <2>5. res.id <= 163  BY <2>4, BuiltinAssumption
    <2> QED  BY <1>2, <2>3, <2>5
  <1>4. CASE builtin = {} /\ custom # {}
    <2>1. custom \in SUBSET Nat  BY <1>1
    <2>2. \E k \in custom : \A j \in custom : k <= j  BY <1>4, <2>1, LeastNatural
    <2>3. res = [table |-> fmts, id |-> fmts[CHOOSE k \in custom : \A j \in custom : k <= j].id]
      BY <1>4 DEF NumFmtId
    <2>4. PICK k \in custom : res.id = fmts[k].id  BY <2>2, <2>3
    <2>5. res.table = fmts /\ k \in 1..Len(fmts)  BY <2>3
    <2>6. \E j \in 1..Len(res.table) : res.table[j].id = res.id  BY <2>4, <2>5
    <2>7. \E n \in Nat : IdsBelow(res.table, n)  BY <2>5
    <2> QED  BY <1>2, <2>5, <2>6, <2>7
  <1>5. CASE builtin = {} /\ custom = {}
    <2>1. ids \in SUBSET Nat /\ ids # {}  BY DEF IdsBelow
    <2>2. m + 163 \in Nat /\ \A i \in ids : i <= m + 163  BY DEF IdsBelow
    <2>3. \E n \in ids : \A i \in ids : i <= n  BY <2>1, <2>2, GreatestNatural
    <2>4. last \in ids /\ \A i \in ids : i <= last  BY <2>3 DEF LastCustom
    <2>5. last \in Nat /\ last >= 163  BY <2>4, <2>1
    <2>6. res = [table |-> FindOrAppend(fmts, rec).table, id |-> last + 1]
      BY <1>5 DEF NumFmtId
    <2>7. {k \in 1..Len(fmts) : fmts[k] = rec} = {}
      <3> SUFFICES ASSUME NEW k \in 1..Len(fmts), fmts[k] = rec PROVE FALSE  OBVIOUS
      <3>1. k \in custom  OBVIOUS
      <3> QED  BY <3>1, <1>5
    <2>8. res = [table |-> Append(fmts, rec), id |-> last + 1]  BY <2>6, <2>7 DEF FindOrAppend
    <2>9. IsTable(res.table) /\ Len(res.table) = Len(fmts) + 1
          /\ (\A k \in 1..Len(fmts) : res.table[k] = fmts[k]) /\ res.table[Len(fmts) + 1] = rec
      BY <2>8, Appended
    <2>10. FmtsGrown(res.table, fmts)
      <3>1. \A j \in 1..Len(fmts) : fmts[j].id <= last  BY <2>4
      <3>2. \A j \in 1..Len(fmts) : fmts[j].id \in Nat  BY DEF IdsBelow
      <3> QED  BY <1>1, <2>5, <2>9, <3>1, <3>2 DEF FmtsGrown, Grown
    <2>11. IdsBelow(res.table, last + 1)
      <3>1. \A j \in 1..Len(fmts) : fmts[j].id \in 0..last  BY <2>4, <2>5 DEF IdsBelow
      <3> QED  BY <1>1, <2>5, <2>9, <3>1 DEF IdsBelow
    <2>12. Len(fmts) + 1 \in 1..Len(res.table) /\ res.table[Len(fmts) + 1].id = res.id
      BY <1>1, <2>8, <2>9
    <2> QED  BY <2>5, <2>9, <2>10, <2>11, <2>12
  <1> QED  BY <1>3, <1>4, <1>5

-----------------------------------------------------------------------------
(* Parts                                                                   *)

(* The part after some patches: more records, the old ones as they were.   *)
PartGrown(new, old) ==
  /\ FmtsGrown(new.numFmts, old.numFmts) /\ Grown(new.fonts, old.fonts)
  /\ Grown(new.fills, old.fills) /\ Grown(new.borders, old.borders)
  /\ Grown(new.xfs, old.xfs) /\ new.palette = old.palette

Sound(p) == Tables(p) /\ InOrder(p) /\ \E m \in Nat : IdsBelow(p.numFmts, m)

LEMMA TableLength == ASSUME NEW s, IsTable(s) PROVE Len(s) \in Nat
  BY Appended

LEMMA PartGrownSelf == ASSUME NEW p, Sound(p) PROVE PartGrown(p, p)
  BY TableLength DEF Sound, Tables, PartGrown, FmtsGrown, Grown

LEMMA FmtsGrownTwice ==
    ASSUME NEW a, NEW b, NEW c, IsTable(a), IsTable(b), IsTable(c), FmtsGrown(b, a), FmtsGrown(c, b)
    PROVE  FmtsGrown(c, a)
  <1>1. Len(a) \in Nat /\ Len(b) \in Nat /\ Len(c) \in Nat  BY TableLength
  <1>2. Grown(c, a)  BY GrownTwice DEF FmtsGrown
  <1>3. Len(a) <= Len(b) /\ Len(b) <= Len(c)  BY DEF FmtsGrown, Grown
  <1>4. ASSUME NEW k \in Len(a) + 1..Len(c)
        PROVE  /\ c[k].id \in Nat /\ c[k].id > 163
               /\ \A j \in 1..Len(a) : c[k].id # a[j].id
    <2>1. CASE k <= Len(b)
      <3>1. k \in Len(a) + 1..Len(b) /\ k \in 1..Len(b)  BY <1>1, <2>1
      <3>2. c[k] = b[k]  BY <3>1 DEF FmtsGrown, Grown
      <3> QED  BY <3>1, <3>2 DEF FmtsGrown
    <2>2. CASE k > Len(b)
      <3>1. k \in Len(b) + 1..Len(c)  BY <1>1, <2>2
      <3>2. \A j \in 1..Len(a) : j \in 1..Len(b) /\ b[j] = a[j]  BY <1>1, <1>3 DEF FmtsGrown, Grown
      <3> QED  BY <3>1, <3>2 DEF FmtsGrown
    <2> QED  BY <1>1, <2>1, <2>2
  <1> QED  BY <1>2, <1>4 DEF FmtsGrown

LEMMA PartGrownTwice ==
    ASSUME NEW a, NEW b, NEW c, Sound(a), Sound(b), Sound(c), PartGrown(b, a), PartGrown(c, b)
    PROVE  PartGrown(c, a)
  <1>1. FmtsGrown(c.numFmts, a.numFmts)  BY FmtsGrownTwice DEF Sound, Tables, PartGrown
  <1>2. Grown(c.fonts, a.fonts)  BY GrownTwice DEF Sound, Tables, PartGrown
  <1>3. Grown(c.fills, a.fills)  BY GrownTwice DEF Sound, Tables, PartGrown
  <1>4. Grown(c.borders, a.borders)  BY GrownTwice DEF Sound, Tables, PartGrown
  <1>5. Grown(c.xfs, a.xfs)  BY GrownTwice DEF Sound, Tables, PartGrown
  <1> QED  BY <1>1, <1>2, <1>3, <1>4, <1>5 DEF PartGrown

(* A record of a table that has grown.                                     *)
LEMMA StillKnown ==
    ASSUME NEW old, NEW new, IsTable(old), IsTable(new), Grown(new, old), NEW k, Known(old, k)
    PROVE  Known(new, k) /\ new[k] = old[k]
  BY TableLength DEF Grown, Known

LEMMA FmtStillKnown ==
    ASSUME NEW old, NEW new, Tables(old), Tables(new), FmtsGrown(new.numFmts, old.numFmts),
           NEW id, FmtKnown(old, id)
    PROVE  FmtKnown(new, id)
  <1>1. \A k \in 1..Len(old.numFmts) :
          k \in 1..Len(new.numFmts) /\ new.numFmts[k] = old.numFmts[k]
    BY TableLength DEF Tables, FmtsGrown, Grown
  <1> QED  BY <1>1 DEF FmtKnown

-----------------------------------------------------------------------------
(* One patch (apply_to_xf).  Each of its four steps grows its table, and   *)
(* the id it answers names a record.                                       *)
XfSound(p, xf) ==
  /\ FmtKnown(p, xf.numFmt) /\ Known(p.fonts, xf.font)
  /\ Known(p.fills, xf.fill) /\ Known(p.borders, xf.border)

Rooted(s, id, old) == IsTable(s) /\ Grown(s, old) /\ Known(s, id)

LEMMA FontStepSound ==
    ASSUME NEW p, Sound(p), NEW xf, XfSound(p, xf), NEW patch
    PROVE  Rooted(FontStep(p, xf, patch).table, FontStep(p, xf, patch).id, p.fonts)
  <1>1. IsTable(p.fonts) /\ Grown(p.fonts, p.fonts) /\ Known(p.fonts, xf.font)
    BY PartGrownSelf DEF Sound, Tables, PartGrown, XfSound
  <1> DEFINE rec == PatchedFont(RecordOr(p.fonts, xf.font, EmptyFont), patch)
  <1>2. Rooted(FindOrAppend(p.fonts, rec).table, FindOrAppend(p.fonts, rec).id, p.fonts)
    <2> HIDE DEF rec
    <2> QED  BY <1>1, FoundOrAppended DEF Rooted
  <1>3. CASE Touches(patch, FontFields)  BY <1>2, <1>3, Zenon DEF FontStep
  <1>4. CASE ~Touches(patch, FontFields)
    <2>1. FontStep(p, xf, patch) = [table |-> p.fonts, id |-> xf.font]  BY <1>4, Zenon DEF FontStep
    <2> QED  BY <2>1, <1>1 DEF Rooted
  <1> QED  BY <1>3, <1>4

LEMMA BorderStepSound ==
    ASSUME NEW p, Sound(p), NEW xf, XfSound(p, xf), NEW patch
    PROVE  Rooted(BorderStep(p, xf, patch).table, BorderStep(p, xf, patch).id, p.borders)
  <1>1. IsTable(p.borders) /\ Grown(p.borders, p.borders) /\ Known(p.borders, xf.border)
    BY PartGrownSelf DEF Sound, Tables, PartGrown, XfSound
  <1> DEFINE rec == PatchedBorder(RecordOr(p.borders, xf.border, EmptyBorder), patch)
  <1>2. Rooted(FindOrAppend(p.borders, rec).table, FindOrAppend(p.borders, rec).id, p.borders)
    <2> HIDE DEF rec
    <2> QED  BY <1>1, FoundOrAppended DEF Rooted
  <1>3. CASE Touches(patch, BorderFields)  BY <1>2, <1>3, Zenon DEF BorderStep
  <1>4. CASE ~Touches(patch, BorderFields)
    <2>1. BorderStep(p, xf, patch) = [table |-> p.borders, id |-> xf.border]  BY <1>4, Zenon DEF BorderStep
    <2> QED  BY <2>1, <1>1 DEF Rooted
  <1> QED  BY <1>3, <1>4

LEMMA FillStepSound ==
    ASSUME NEW p, Sound(p), NEW xf, XfSound(p, xf), NEW patch
    PROVE  Rooted(FillStep(p, xf, patch).table, FillStep(p, xf, patch).id, p.fills)
  <1>1. IsTable(p.fills) /\ Grown(p.fills, p.fills) /\ Known(p.fills, xf.fill)
    BY PartGrownSelf DEF Sound, Tables, PartGrown, XfSound
  <1>2. Known(p.fills, 1)  BY <1>1, TableLength DEF Known
  <1> DEFINE rec == [pattern |-> "solid", fg |-> Rgb(patch["fill"])]
  <1>3. Rooted(FindOrAppend(p.fills, rec).table, FindOrAppend(p.fills, rec).id, p.fills)
    <2> HIDE DEF rec
    <2> QED  BY <1>1, FoundOrAppended DEF Rooted
  <1>4. CASE "fill" \notin DOMAIN patch
    <2>1. FillStep(p, xf, patch) = [table |-> p.fills, id |-> xf.fill]  BY <1>4, Zenon DEF FillStep
    <2> QED  BY <2>1, <1>1 DEF Rooted
  <1>5. CASE "fill" \in DOMAIN patch /\ patch["fill"] = ""
    <2>1. FillStep(p, xf, patch) = [table |-> p.fills, id |-> 1]  BY <1>5, Zenon DEF FillStep
    <2> QED  BY <2>1, <1>1, <1>2 DEF Rooted
  <1>6. CASE "fill" \in DOMAIN patch /\ patch["fill"] # ""
    BY <1>3, <1>6, Zenon DEF FillStep
  <1> QED  BY <1>4, <1>5, <1>6, Zenon

LEMMA NumFmtStepSound ==
    ASSUME NEW p, Sound(p), NEW xf, XfSound(p, xf), NEW patch
    PROVE  LET res == NumFmtStep(p, xf, patch)
           IN  /\ IsTable(res.table) /\ FmtsGrown(res.table, p.numFmts)
               /\ \E n \in Nat : IdsBelow(res.table, n)
               /\ res.id <= 163 \/ \E k \in 1..Len(res.table) : res.table[k].id = res.id
  <1>1. PICK m \in Nat : IdsBelow(p.numFmts, m)  BY DEF Sound
  <1>2. IsTable(p.numFmts) /\ FmtsGrown(p.numFmts, p.numFmts) /\ FmtKnown(p, xf.numFmt)
    BY PartGrownSelf DEF Sound, Tables, PartGrown, XfSound
  <1>3. CASE "numFmt" \in DOMAIN patch
    <2>1. NumFmtStep(p, xf, patch) = NumFmtId(p.numFmts, patch["numFmt"])  BY <1>3, Zenon DEF NumFmtStep
    <2> QED  BY <2>1, <1>1, <1>2, FormatAdded
  <1>4. CASE "numFmt" \notin DOMAIN patch
    <2>1. NumFmtStep(p, xf, patch) = [table |-> p.numFmts, id |-> xf.numFmt]  BY <1>4, Zenon DEF NumFmtStep
    <2> QED  BY <2>1, <1>1, <1>2 DEF FmtKnown
  <1> QED  BY <1>3, <1>4

LEMMA BaseSound ==
    ASSUME NEW p, Sound(p), NEW base
    PROVE  XfSound(p, BaseXf(p, base))
  <1>1. Len(p.xfs) \in Nat /\ Len(p.xfs) > 0  BY TableLength DEF Sound, Tables, InOrder
  <1>2. \E k \in 1..Len(p.xfs) : BaseXf(p, base) = p.xfs[k]
    BY <1>1 DEF BaseXf, RecordOr, Known
  <1> QED  BY <1>2 DEF Sound, InOrder, XfSound

(* A patched part is sound again, and has only grown.                      *)
LEMMA PatchSound ==
    ASSUME NEW p, Sound(p), NEW base, NEW patch
    PROVE  LET new == ApplyToXf(p, base, patch).part
           IN  Sound(new) /\ PartGrown(new, p)
  <1> DEFINE xf  == BaseXf(p, base)
             num == NumFmtStep(p, xf, patch)
             fnt == FontStep(p, xf, patch)
             fil == FillStep(p, xf, patch)
             bor == BorderStep(p, xf, patch)
             rec == PatchedXf(p, xf, patch)
             xfs == FindOrAppend(p.xfs, rec)
             new == ApplyToXf(p, base, patch).part
  <1>1. XfSound(p, xf)  BY BaseSound
  <1>2. new = [numFmts |-> num.table, fonts |-> fnt.table, fills |-> fil.table,
               borders |-> bor.table, xfs |-> xfs.table, palette |-> p.palette]
    BY Zenon DEF ApplyToXf
  <1>3. rec.numFmt = num.id /\ rec.font = fnt.id /\ rec.fill = fil.id /\ rec.border = bor.id
    BY DEF PatchedXf
  <1> HIDE DEF xf
  <1>4. /\ IsTable(num.table) /\ FmtsGrown(num.table, p.numFmts)
        /\ \E n \in Nat : IdsBelow(num.table, n)
        /\ num.id <= 163 \/ \E k \in 1..Len(num.table) : num.table[k].id = num.id
    BY <1>1, NumFmtStepSound
  <1>5. Rooted(fnt.table, fnt.id, p.fonts)  BY <1>1, FontStepSound, Zenon
  <1>6. Rooted(fil.table, fil.id, p.fills)  BY <1>1, FillStepSound, Zenon
  <1>7. Rooted(bor.table, bor.id, p.borders)  BY <1>1, BorderStepSound, Zenon
  <1> HIDE DEF num, fnt, fil, bor, rec
  <1>8. /\ IsTable(xfs.table) /\ Grown(xfs.table, p.xfs) /\ Len(xfs.table) > 0
        /\ OldOr(rec, xfs.table, p.xfs)
    <2>1. IsTable(p.xfs) /\ Len(p.xfs) > 0  BY DEF Sound, Tables, InOrder
    <2>2. xfs.table = p.xfs \/ xfs.table = Append(p.xfs, rec)  BY Zenon DEF FindOrAppend
    <2> QED  BY <2>1, <2>2, OneAtMost
  <1> HIDE DEF xfs, new
  <1>9. Tables(new)  BY <1>2, <1>4, <1>5, <1>6, <1>7, <1>8 DEF Tables, Rooted
  <1>10. PartGrown(new, p)  BY <1>2, <1>4, <1>5, <1>6, <1>7, <1>8 DEF PartGrown, Rooted
  <1>11. XfSound(new, rec)
    BY <1>2, <1>3, <1>4, <1>5, <1>6, <1>7 DEF XfSound, Rooted, FmtKnown
  <1>12. ASSUME NEW j \in 1..Len(p.xfs) PROVE XfSound(new, p.xfs[j])
    <2>1. XfSound(p, p.xfs[j])  BY DEF Sound, InOrder, XfSound
    <2>2. FmtKnown(new, p.xfs[j].numFmt)
      BY <2>1, <1>9, <1>10, FmtStillKnown DEF XfSound, PartGrown, Sound
    <2>3. Known(new.fonts, p.xfs[j].font)
      BY <2>1, <1>9, <1>10, StillKnown DEF XfSound, PartGrown, Sound, Tables
    <2>4. Known(new.fills, p.xfs[j].fill)
      BY <2>1, <1>9, <1>10, StillKnown DEF XfSound, PartGrown, Sound, Tables
    <2>5. Known(new.borders, p.xfs[j].border)
      BY <2>1, <1>9, <1>10, StillKnown DEF XfSound, PartGrown, Sound, Tables
    <2> QED  BY <2>2, <2>3, <2>4, <2>5 DEF XfSound
  <1>13. InOrder(new)
    <2>1. \A k \in 1..Len(new.xfs) : XfSound(new, new.xfs[k])
      BY <1>2, <1>8, <1>11, <1>12 DEF OldOr
    <2> QED  BY <1>2, <1>8, <2>1 DEF InOrder, XfSound
  <1> QED  BY <1>2, <1>4, <1>9, <1>10, <1>13 DEF Sound, new

-----------------------------------------------------------------------------
(* What a style says in a part, it says in the part grown from it.         *)
LEMMA CustomKept ==
    ASSUME NEW old, NEW new, Tables(old), Tables(new), FmtsGrown(new.numFmts, old.numFmts),
           NEW id, FmtKnown(old, id)
    PROVE  Custom(new.numFmts, id) = Custom(old.numFmts, id)
  <1> DEFINE o  == old.numFmts
             n  == new.numFmts
             os == {k \in 1..Len(o) : o[k].id = id}
             ns == {k \in 1..Len(n) : n[k].id = id}
  <1>1. Len(o) \in Nat /\ Len(n) \in Nat  BY TableLength DEF Tables
  <1>2. Len(o) <= Len(n) /\ \A k \in 1..Len(o) : n[k] = o[k]  BY DEF FmtsGrown, Grown
  <1>3. \A k \in Len(o) + 1..Len(n) :
          n[k].id \in Nat /\ n[k].id > 163 /\ \A j \in 1..Len(o) : n[k].id # o[j].id
    BY DEF FmtsGrown
  <1>4. \A k \in Len(o) + 1..Len(n) : n[k].id # id  BY <1>3 DEF FmtKnown
  <1>5. ns = os  BY <1>1, <1>2, <1>4
  <1>6. CASE os = {}  BY <1>5, <1>6, Zenon DEF Custom
  <1>7. CASE os # {}
    <2> DEFINE last == CHOOSE i \in os : \A j \in os : j <= i
    <2>1. \E i \in os : \A j \in os : j <= i
      <3>1. os \in SUBSET Nat /\ \A i \in os : i <= Len(o)  BY <1>1
      <3> QED  BY <3>1, <1>1, <1>7, GreatestNatural
    <2>2. last \in os  BY <2>1
    <2>3. n[last] = o[last]  BY <2>2, <1>2
    <2>4. Custom(old.numFmts, id) = o[last].code  BY <1>7, Zenon DEF Custom
    <2>5. Custom(new.numFmts, id) = n[last].code  BY <1>5, <1>7, Zenon DEF Custom
    <2> QED  BY <2>3, <2>4, <2>5, Zenon
  <1> QED  BY <1>6, <1>7

LEMMA ReadingKept ==
    ASSUME NEW old, NEW new, Sound(old), Sound(new), PartGrown(new, old),
           NEW id \in 1..Len(old.xfs)
    PROVE  Page(new, id) = Page(old, id) /\ Panel(new, id) = Panel(old, id)
  <1> DEFINE xf == old.xfs[id]
  <1>1. new.xfs[id] = xf  BY StillKnown DEF Sound, Tables, PartGrown, Known
  <1>2. XfSound(old, xf)  BY DEF Sound, InOrder, XfSound
  <1>3. Custom(new.numFmts, xf.numFmt) = Custom(old.numFmts, xf.numFmt)
    BY <1>2, CustomKept DEF XfSound, Sound, PartGrown
  <1>4. Known(old.fonts, xf.font) /\ Known(new.fonts, xf.font) /\ new.fonts[xf.font] = old.fonts[xf.font]
    BY <1>2, StillKnown DEF XfSound, Sound, Tables, PartGrown
  <1>5. Known(old.fonts, 1) /\ Known(new.fonts, 1) /\ new.fonts[1] = old.fonts[1]
    <2>1. Known(old.fonts, 1)  BY <1>4, TableLength DEF Known, Sound, Tables
    <2> QED  BY <2>1, StillKnown DEF Sound, Tables, PartGrown
  <1>6. Known(old.fills, xf.fill) /\ Known(new.fills, xf.fill) /\ new.fills[xf.fill] = old.fills[xf.fill]
    BY <1>2, StillKnown DEF XfSound, Sound, Tables, PartGrown
  <1>7. Known(old.borders, xf.border) /\ Known(new.borders, xf.border)
        /\ new.borders[xf.border] = old.borders[xf.border]
    BY <1>2, StillKnown DEF XfSound, Sound, Tables, PartGrown
  <1>8. \A c : Resolve(new, c) = Resolve(old, c)  BY Zenon DEF Resolve, PartGrown
  <1>9. FillOf(new, xf.fill) = FillOf(old, xf.fill)  BY <1>6, <1>8, Zenon DEF FillOf
  <1>10. FillFacet(new, xf) = FillFacet(old, xf)  BY <1>9, Zenon DEF FillFacet
  <1>11. \A e : Line(new, e) = Line(old, e)  BY <1>8, Zenon DEF Line
  <1>12. BorderFacet(new, xf) = BorderFacet(old, xf)  BY <1>7, <1>11 DEF BorderFacet
  <1>13. \A f, field : Override(new, f, field) = Override(old, f, field)  BY <1>5, Zenon DEF Override
  <1>14. FontFacet(new, xf) = FontFacet(old, xf)  BY <1>4, <1>8, <1>13, Zenon DEF FontFacet
  <1> HIDE DEF xf
  <1>15. PageOf(new, xf) = PageOf(old, xf)
    BY <1>3, <1>10, <1>12, <1>14, Zenon DEF PageOf
  <1>16. \A field : FontSaid(new, xf, field) = FontSaid(old, xf, field)
    BY <1>4, Zenon DEF FontSaid
  <1>17. ColorSaid(new, xf) = ColorSaid(old, xf)  BY <1>4, <1>8, Zenon DEF ColorSaid
  <1>18. \A e : EdgeSaid(new, xf, e) = EdgeSaid(old, xf, e)  BY <1>7, <1>8, Zenon DEF EdgeSaid
  <1>19. PanelOf(new, xf) = PanelOf(old, xf)
    BY <1>3, <1>9, <1>16, <1>17, <1>18, Zenon DEF PanelOf
  <1> QED  BY <1>1, <1>15, <1>19, Zenon DEF Page, Panel, xf

-----------------------------------------------------------------------------
(* The part and the draft built on it are sound, and the draft has grown   *)
(* from the part.                                                          *)
IInv == Sound(part) /\ Sound(draft) /\ PartGrown(draft, part)

LEMMA InitSound == Init => IInv
  <1> SUFFICES ASSUME Init PROVE IInv  OBVIOUS
  <1>1. PICK file \in Files : part = file[1]  BY DEF Init
  <1>2. Tables(part) /\ InOrder(part) /\ FormatIdsBelow(part, MaxFormatId)  BY <1>1, FormatAssumption
  <1>3. MaxFormatId \in Nat /\ IdsBelow(part.numFmts, MaxFormatId)
    BY <1>2, FormatAssumption DEF FormatIdsBelow, IdsBelow
  <1>4. Sound(part)  BY <1>2, <1>3 DEF Sound
  <1> QED  BY <1>4, PartGrownSelf DEF IInv, Init

(* The verbs that do not change styles.                                    *)
LEMMA OtherSteps ==
    ASSUME [Next]_vars
    PROVE  \/ UNCHANGED <<part, draft>>
           \/ UNCHANGED part /\ draft' = part
           \/ PatchNext
           \/ FinishCall
  <1>1. CASE Edit
    <2>1. ASSUME NEW c \in Cells, NEW text \in Texts, SetCell(c, text) PROVE UNCHANGED <<part, draft>>
      BY <2>1, Zenon DEF SetCell, Commit
    <2>2. ASSUME NEW box \in Selections, ClearSelection(box) PROVE UNCHANGED <<part, draft>>
      BY <2>2, Zenon DEF ClearSelection
    <2>3. ASSUME NEW box \in Selections, MergeTarget(box) PROVE UNCHANGED <<part, draft>>
      BY <2>3, Zenon DEF MergeTarget, Commit
    <2>4. ASSUME NEW box \in Selections, UnmergeTarget(box) PROVE UNCHANGED <<part, draft>>
      BY <2>4, Zenon DEF UnmergeTarget, Commit
    <2>5. ASSUME NEW box \in Selections, NEW w \in Widths, SetColumnWidth(box, w) PROVE UNCHANGED <<part, draft>>
      BY <2>5, Zenon DEF SetColumnWidth, Commit
    <2>6. ASSUME NEW box \in Selections, ToggleFreeze(box[1]) PROVE UNCHANGED <<part, draft>>
      BY <2>6, Zenon DEF ToggleFreeze, Commit
    <2>7. ASSUME NEW scope \in Scopes, NEW box \in Named, DefineName(scope, box) PROVE UNCHANGED <<part, draft>>
      BY <2>7, Zenon DEF DefineName, Commit
    <2>8. ASSUME NEW scope \in Scopes, DeleteName(scope) PROVE UNCHANGED <<part, draft>>
      BY <2>8, Zenon DEF DeleteName
    <2>9. ASSUME NEW src \in Selections, NEW dst \in Selections, Fill(src, dst) PROVE UNCHANGED <<part, draft>>
      BY <2>9, Zenon DEF Fill, Commit
    <2>10. ASSUME NEW box \in Selections, NEW p \in Patches, SetStyle(box, p) PROVE UNCHANGED part /\ draft' = part
      BY <2>10, Zenon DEF SetStyle, Begin
    <2>11. ASSUME NEW kind \in Kinds, NEW box \in Framed, NEW edge \in Borders, SetBorders(kind, box, edge)
           PROVE  UNCHANGED part /\ draft' = part
      BY <2>11, Zenon DEF SetBorders, Begin
    <2> QED
      BY <1>1, <2>1, <2>2, <2>3, <2>4, <2>5, <2>6, <2>7, <2>8, <2>9, <2>10, <2>11, Zenon DEF Edit
  <1>2. CASE Undo  BY <1>2, Zenon DEF Undo, Step
  <1>3. CASE Redo  BY <1>3, Zenon DEF Redo, Step
  <1>4. CASE UNCHANGED vars  BY <1>4 DEF vars
  <1> QED  BY <1>1, <1>2, <1>3, <1>4, Zenon DEF Next

LEMMA NextSound == IInv /\ [Next]_vars => IInv'
  <1> SUFFICES ASSUME IInv, [Next]_vars PROVE IInv'  OBVIOUS
  <1>1. CASE UNCHANGED <<part, draft>>  BY <1>1 DEF IInv
  <1>2. CASE UNCHANGED part /\ draft' = part  BY <1>2, PartGrownSelf DEF IInv
  <1>3. CASE PatchNext
    <2>1. part' = part /\ \E base, patch : draft' = ApplyToXf(draft, base, patch).part
      BY <1>3, Zenon DEF PatchNext
    <2>2. Sound(draft') /\ PartGrown(draft', draft)  BY <2>1, PatchSound DEF IInv
    <2> QED  BY <2>1, <2>2, PartGrownTwice DEF IInv
  <1>4. CASE FinishCall
    <2>1. part' = draft /\ draft' = draft  BY <1>4, Zenon DEF FinishCall
    <2> QED  BY <2>1, PartGrownSelf DEF IInv
  <1> QED  BY <1>1, <1>2, <1>3, <1>4, OtherSteps

LEMMA StylesSound == Spec => []IInv
  BY InitSound, NextSound, PTL DEF Spec

(* RecordsKept: what a style says, on the page and in the panel, it says   *)
(* for good (style_edit.rs: records are never rewritten).                  *)
THEOREM RecordsKeptCorrect == Spec => RecordsKept
  <1> DEFINE Kept == \A id \in 1..Len(part.xfs) :
                       Page(part', id) = Page(part, id) /\ Panel(part', id) = Panel(part, id)
  <1>1. IInv /\ [Next]_vars => [part' # part => Kept]_part
    <2> SUFFICES ASSUME IInv, [Next]_vars, part' # part PROVE Kept  OBVIOUS
    <2>1. PatchNext => part' = part  BY Zenon DEF PatchNext
    <2>2. FinishCall  BY <2>1, OtherSteps
    <2>3. part' = draft  BY <2>2, Zenon DEF FinishCall
    <2> QED  BY <2>3, ReadingKept DEF IInv
  <1> QED  BY <1>1, StylesSound, PTL DEF Spec, RecordsKept

-----------------------------------------------------------------------------
(* Undo and redo                                                           *)

IsBox(box) == box[1] \in 1..NumCells /\ box[2] \in box[1]..NumCells

IsCell(x) == x = [text |-> x.text, style |-> x.style]
IsCells(cells) == cells = [c \in Cells |-> cells[c]] /\ \A c \in Cells : IsCell(cells[c])

(* A spelling is defined once in a scope.                                  *)
IsNames(names) ==
  /\ IsTable(names)
  /\ \A k \in 1..Len(names) : names[k] = [scope |-> names[k].scope, target |-> names[k].target]
  /\ \A j, k \in 1..Len(names) : names[j].scope = names[k].scope => names[j].scope = "parked" \/ j = k

IsBook(b) ==
  /\ b = [cells |-> b.cells, merges |-> b.merges, names |-> b.names, widths |-> b.widths,
          freeze |-> b.freeze]
  /\ IsCells(b.cells) /\ b.widths = [c \in Cells |-> b.widths[c]] /\ IsNames(b.names)

(* The edits of a record are of different cells.                           *)
IsEdits(edits) ==
  /\ \A e \in edits : e.cell \in Cells
  /\ \A e, f \in edits : e.cell = f.cell => e = f

(* Names as undo finds them: what is live, and the slots in use.           *)
Used(live) == {p[1] : p \in live}
IsFree(live, k) == k \in Nat \ {0} /\ k \notin Used(live) /\ 1..(k - 1) \subseteq Used(live)
Free(live) == CHOOSE k \in Nat : IsFree(live, k)
Own(live, scope) == {p \in live : p[2].scope = scope}
SlotFor(live, scope) == IF Own(live, scope) = {} THEN Free(live) ELSE CHOOSE k \in Used(Own(live, scope)) : TRUE
LiveDefined(live, scope, target) ==
  (live \ Own(live, scope)) \cup {<<SlotFor(live, scope), [scope |-> scope, target |-> target]>>}
LiveDeleted(live, scope) == live \ Own(live, scope)

(* What the two sheets of a step have to do with what is recorded of it.   *)
LinkText(rec, t, u, under) ==
  \A c \in Cells \ under :
    /\ \A e \in Of(rec.edits, c) : e.prev = t.cells[c].text /\ e.next = u.cells[c].text
    /\ Of(rec.edits, c) = {} => t.cells[c].text = u.cells[c].text
    /\ rec.fmt.kind = "merge" /\ c \in Under({rec.fmt.box}) => u.cells[c].text = NoText

LinkStyle(rec, t, u, gone) ==
  \A c \in Cells \ (gone \cup Emptied(rec)) :
    IF rec.fmt.kind = "style" /\ c \in Span(rec.fmt.box)
    THEN rec.fmt.before[c] = t.cells[c].style /\ rec.fmt.after[c] = u.cells[c].style
    ELSE t.cells[c].style = u.cells[c].style

LinkMerges(fmt, t, u) ==
  CASE fmt.kind = "merge" -> /\ \A m \in t.merges : ~Meets(m, fmt.box)
                             /\ IsBox(fmt.box) /\ u.merges = t.merges \cup {fmt.box}
    [] fmt.kind = "unmerge" -> /\ fmt.gone = {m \in t.merges : Meets(m, fmt.box)}
                               /\ u.merges = t.merges \ fmt.gone
    [] OTHER -> u.merges = t.merges

LinkWidths(fmt, t, u) ==
  IF fmt.kind = "width"
  THEN \A c \in Cells : IF c \in Span(fmt.box) THEN fmt.had[c] = t.widths[c] /\ u.widths[c] = fmt.size
                        ELSE u.widths[c] = t.widths[c]
  ELSE u.widths = t.widths

LinkFreeze(fmt, t, u) ==
  IF fmt.kind = "freeze" THEN fmt.before = t.freeze /\ fmt.after = u.freeze ELSE u.freeze = t.freeze

LinkListed(fmt, t, u) ==
  IF fmt.kind = "name"
  THEN /\ fmt.scope # "parked" /\ (fmt.prior # <<>> \/ fmt.target # <<>>)
       /\ fmt.prior = Listed(t.names, fmt.scope) /\ fmt.target = Listed(u.names, fmt.scope)
       /\ \A s : s \notin {fmt.scope, "parked"} => Listed(u.names, s) = Listed(t.names, s)
  ELSE \A s : s # "parked" => Listed(u.names, s) = Listed(t.names, s)

LinkSlots(fmt, t, u) ==
  IF fmt.kind # "name" THEN Live(u.names) = Live(t.names)
  ELSE IF fmt.target # <<>>
  THEN Live(u.names) = LiveDefined(Live(t.names), fmt.scope, fmt.target[1])
  ELSE /\ Live(u.names) = LiveDeleted(Live(t.names), fmt.scope)
       /\ \A p \in Own(Live(t.names), fmt.scope) : 1..(p[1] - 1) \subseteq Used(Live(t.names))

Link(rec, t, u, gone, under, mixed) ==
  /\ IsEdits(rec.edits)
  /\ LinkText(rec, t, u, under) /\ LinkStyle(rec, t, u, gone)
  /\ LinkMerges(rec.fmt, t, u) /\ LinkWidths(rec.fmt, t, u) /\ LinkFreeze(rec.fmt, t, u)
  /\ LinkListed(rec.fmt, t, u) /\ (~mixed => LinkSlots(rec.fmt, t, u))

(* A sheet is another one but for what the journal does not keep.          *)
Agrees(b, t, gone, under, mixed) ==
  /\ b.merges = t.merges /\ b.widths = t.widths /\ b.freeze = t.freeze
  /\ \A s : s # "parked" => Listed(b.names, s) = Listed(t.names, s)
  /\ ~mixed => Live(b.names) = Live(t.names)
  /\ \A c \in Cells \ under : b.cells[c].text = t.cells[c].text
  /\ \A c \in Cells \ gone : b.cells[c].style = t.cells[c].style

(* A style change changes styles in its box and nothing else.              *)
Doing ==
  task # Idle =>
    /\ task = [box |-> task.box, calls |-> task.calls, before |-> task.before,
               started |-> task.started, todo |-> task.todo, map |-> task.map]
    /\ IsTable(task.calls) /\ task.calls # <<>>
    /\ \A k \in 1..Len(task.calls) : Span(task.calls[k].box) \subseteq Span(task.box)
    /\ IsBox(task.box) /\ task.before = StyleIds(task.started.cells, task.box)
    /\ IsBook(task.started) /\ book = [task.started EXCEPT !.cells = book.cells]
    /\ \A c \in Cells : /\ book.cells[c].text = task.started.cells[c].text
                        /\ c \notin Span(task.box) => book.cells[c] = task.started.cells[c]

Origin == IF task = Idle THEN book ELSE task.started

Trails ==
  /\ IsTable(trail) /\ IsTable(journal) /\ Len(trail) = Len(journal) + 1 /\ cursor \in 0..Len(journal)
  /\ \A i \in 1..Len(trail) : IsBook(trail[i])
  /\ \A i \in 1..Len(journal) : Link(journal[i], trail[i], trail[i + 1], lost, buried, crossed)

AtCursor == IsBook(book) /\ Agrees(Origin, trail[cursor + 1], lost, buried, crossed)

TrailInv == Trails /\ AtCursor /\ Doing /\ buried \subseteq lost /\ crossed \in BOOLEAN

-----------------------------------------------------------------------------
(* What the doors do to cells                                              *)

LEMMA WriteAllIs ==
    ASSUME NEW cells, NEW edits, IsEdits(edits), NEW field
    PROVE  LET w == WriteAll(cells, edits, field)
           IN  /\ w = [c \in Cells |-> w[c]]
               /\ \A c \in Cells : /\ Of(edits, c) = {} => w[c] = cells[c]
                                   /\ \A e \in Of(edits, c) : w[c] = Entered(cells[c], e[field])
  <1> DEFINE w == WriteAll(cells, edits, field)
             Value(c) == IF Of(edits, c) = {} THEN cells[c]
                         ELSE Entered(cells[c], (CHOOSE e \in Of(edits, c) : TRUE)[field])
  <1>1. w = [c \in Cells |-> Value(c)]  BY DEF WriteAll
  <1>2. ASSUME NEW c \in Cells, NEW e \in Of(edits, c) PROVE Value(c) = Entered(cells[c], e[field])
    <2> DEFINE d == CHOOSE f \in Of(edits, c) : TRUE
    <2>1. d \in Of(edits, c)  OBVIOUS
    <2>2. d = e  BY <2>1 DEF Of, IsEdits
    <2>3. Of(edits, c) # {}  OBVIOUS
    <2>4. Value(c) = Entered(cells[c], d[field])  BY <2>3, Zenon
    <2> QED  BY <2>2, <2>4, Zenon
  <1>3. \A c \in Cells : Of(edits, c) = {} => Value(c) = cells[c]  OBVIOUS
  <1> HIDE DEF Value
  <1>4. w = [c \in Cells |-> w[c]] /\ \A c \in Cells : w[c] = Value(c)  BY <1>1
  <1> QED  BY <1>2, <1>3, <1>4

LEMMA EnteredIs ==
    ASSUME NEW cell, IsCell(cell), NEW text
    PROVE  /\ IsCell(Entered(cell, text)) /\ Entered(cell, text).text = text
           /\ text # NoText => Entered(cell, text).style = cell.style
  <1>1. CASE text = NoText
    <2>1. Entered(cell, text) = Blank  BY <1>1 DEF Entered
    <2> QED  BY <1>1, <2>1 DEF Blank, IsCell
  <1>2. CASE text # NoText
    <2>1. Entered(cell, text) = [cell EXCEPT !.text = text]  BY <1>2 DEF Entered
    <2> QED  BY <1>2, <2>1 DEF IsCell
  <1> QED  BY <1>1, <1>2

(* The cells after some entries.                                           *)
LEMMA AfterEntries ==
    ASSUME NEW cells, IsCells(cells), NEW edits, IsEdits(edits), NEW field
    PROVE  LET w == WriteAll(cells, edits, field)
           IN  /\ IsCells(w)
               /\ \A c \in Cells :
                    /\ Of(edits, c) = {} => w[c] = cells[c]
                    /\ \A e \in Of(edits, c) : /\ w[c].text = e[field]
                                               /\ e[field] # NoText => w[c].style = cells[c].style
  <1> DEFINE w == WriteAll(cells, edits, field)
  <1>1. w = [c \in Cells |-> w[c]]  BY WriteAllIs
  <1>2. \A c \in Cells : /\ Of(edits, c) = {} => w[c] = cells[c]
                         /\ \A e \in Of(edits, c) : w[c] = Entered(cells[c], e[field])
    BY WriteAllIs
  <1>3. \A c \in Cells : IsCell(cells[c])  BY DEF IsCells
  <1> HIDE DEF w
  <1>4. ASSUME NEW c \in Cells
        PROVE  /\ IsCell(w[c]) /\ (Of(edits, c) = {} => w[c] = cells[c])
               /\ \A e \in Of(edits, c) : /\ w[c].text = e[field]
                                          /\ e[field] # NoText => w[c].style = cells[c].style
    <2>1. CASE Of(edits, c) = {}  BY <1>2, <1>3, <2>1
    <2>2. CASE Of(edits, c) # {}
      <3>1. ASSUME NEW e \in Of(edits, c)
            PROVE  /\ IsCell(w[c]) /\ w[c].text = e[field]
                   /\ e[field] # NoText => w[c].style = cells[c].style
        <4>1. w[c] = Entered(cells[c], e[field])  BY <1>2
        <4> QED  BY <4>1, <1>3, EnteredIs
      <3> QED  BY <2>2, <3>1
    <2> QED  BY <2>1, <2>2
  <1>5. IsCells(w)  BY <1>1, <1>4 DEF IsCells
  <1> QED  BY <1>4, <1>5 DEF w

LEMMA StyledIs ==
    ASSUME NEW cells, IsCells(cells), NEW ids, NEW box
    PROVE  LET w == Styled(cells, ids, box)
           IN  /\ IsCells(w)
               /\ \A c \in Cells : /\ w[c].text = cells[c].text
                                   /\ c \notin Span(box) => w[c] = cells[c]
                                   /\ c \in Span(box) => w[c].style = ids[c]
  <1> DEFINE w == Styled(cells, ids, box)
  <1>1. w = [c \in Cells |-> IF c \in Span(box) THEN [cells[c] EXCEPT !.style = ids[c]] ELSE cells[c]]
    BY DEF Styled
  <1>2. \A c \in Cells : IsCell(cells[c])  BY DEF IsCells
  <1>3. \A c \in Cells : w[c] = IF c \in Span(box) THEN [cells[c] EXCEPT !.style = ids[c]] ELSE cells[c]
    BY <1>1
  <1>4. w = [c \in Cells |-> w[c]]  BY <1>1
  <1> HIDE DEF w
  <1>5. ASSUME NEW c \in Cells
        PROVE  /\ IsCell(w[c]) /\ w[c].text = cells[c].text
               /\ c \notin Span(box) => w[c] = cells[c]
               /\ c \in Span(box) => w[c].style = ids[c]
    <2>1. CASE c \in Span(box)
      <3>1. w[c] = [cells[c] EXCEPT !.style = ids[c]] /\ IsCell(cells[c])  BY <1>2, <1>3, <2>1
      <3> QED  BY <2>1, <3>1 DEF IsCell
    <2>2. CASE c \notin Span(box)  BY <1>2, <1>3, <2>2
    <2> QED  BY <2>1, <2>2
  <1>6. IsCells(w)  BY <1>4, <1>5 DEF IsCells
  <1> QED  BY <1>5, <1>6 DEF w

LEMMA ClearedIs ==
    ASSUME NEW cells, IsCells(cells), NEW under
    PROVE  LET w == Cleared(cells, under)
           IN  /\ IsCells(w)
               /\ \A c \in Cells : /\ c \notin under \/ cells[c].text = NoText => w[c] = cells[c]
                                   /\ c \in under => w[c].text = NoText
  <1> DEFINE w == Cleared(cells, under)
             cut(c) == c \in under /\ cells[c].text # NoText
  <1>1. w = [c \in Cells |-> IF cut(c) THEN Blank ELSE cells[c]]  BY DEF Cleared
  <1>2. \A c \in Cells : w[c] = IF cut(c) THEN Blank ELSE cells[c]  BY <1>1
  <1>3. w = [c \in Cells |-> w[c]]  BY <1>1
  <1>4. IsCell(Blank) /\ Blank.text = NoText  BY DEF Blank, IsCell
  <1>5. \A c \in Cells : IsCell(w[c])  BY <1>2, <1>4 DEF IsCells
  <1>6. IsCells(w)  BY <1>3, <1>5 DEF IsCells
  <1> QED  BY <1>2, <1>4, <1>6

(* The entries that clear some cells.                                      *)
LEMMA ClearsIs ==
    ASSUME NEW cells, NEW at \in SUBSET Cells
    PROVE  LET edits == Clears(cells, at)
           IN  /\ IsEdits(edits)
               /\ \A c \in Cells :
                    /\ c \in at /\ cells[c].text # NoText <=> Of(edits, c) # {}
                    /\ \A e \in Of(edits, c) : e.prev = cells[c].text /\ e.next = NoText
  <1> DEFINE edits == Clears(cells, at)
             held == {d \in at : cells[d].text # NoText}
             clear(c) == [cell |-> c, prev |-> cells[c].text, next |-> NoText]
  <1>1. edits = {clear(c) : c \in held}  BY DEF Clears
  <1>2. \A c : clear(c).cell = c /\ clear(c).prev = cells[c].text /\ clear(c).next = NoText  OBVIOUS
  <1> HIDE DEF clear
  <1>3. \A e \in edits : e.cell \in held /\ e = clear(e.cell)  BY <1>1, <1>2
  <1>4. IsEdits(edits)  BY <1>3 DEF IsEdits
  <1>5. \A c \in held : clear(c) \in Of(edits, c)  BY <1>1, <1>2 DEF Of
  <1>6. \A c : \A e \in Of(edits, c) : c \in held /\ e = clear(c)  BY <1>3 DEF Of
  <1> QED  BY <1>2, <1>4, <1>5, <1>6

-----------------------------------------------------------------------------
(* Names                                                                   *)

LiveOK(live) ==
  /\ \A p \in live : /\ p = <<p[1], p[2]>> /\ p[1] \in Nat \ {0}
                     /\ p[2] = [scope |-> p[2].scope, target |-> p[2].target]
  /\ \A p, q \in live : p[1] = q[1] \/ p[2].scope = q[2].scope => p = q

LEMMA LiveIs ==
    ASSUME NEW names
    PROVE  /\ \A p \in Live(names) : /\ p[1] \in 1..Len(names) /\ p = <<p[1], names[p[1]]>>
                                     /\ p[2] = names[p[1]] /\ p[2].scope # "parked"
           /\ \A k \in 1..Len(names) : names[k].scope # "parked" => <<k, names[k]>> \in Live(names)
  BY DEF Live, Slots

LEMMA LiveShape ==
    ASSUME NEW names, IsNames(names)
    PROVE  LiveOK(Live(names))
  <1>1. Len(names) \in Nat  BY TableLength DEF IsNames
  <1> QED  BY <1>1, LiveIs DEF IsNames, LiveOK

LEMMA FirstSlotIs ==
    ASSUME NEW slots \in SUBSET Nat, slots # {}
    PROVE  FirstSlot(slots) \in slots /\ \A j \in slots : FirstSlot(slots) <= j
  <1>1. \E k \in slots : \A j \in slots : k <= j  BY LeastNatural
  <1> QED  BY <1>1 DEF FirstSlot

LEMMA FreeIs ==
    ASSUME NEW live, NEW k, IsFree(live, k)
    PROVE  Free(live) = k
  <1>1. ASSUME NEW j, IsFree(live, j), j < k PROVE FALSE
    <2>1. j \in 1..(k - 1)  BY <1>1 DEF IsFree
    <2> QED  BY <1>1, <2>1 DEF IsFree
  <1>2. ASSUME NEW j, IsFree(live, j), k < j PROVE FALSE
    <2>1. k \in 1..(j - 1)  BY <1>2 DEF IsFree
    <2> QED  BY <1>2, <2>1 DEF IsFree
  <1>3. \A j \in Nat : IsFree(live, j) => j = k  BY <1>1, <1>2 DEF IsFree
  <1>4. k \in Nat /\ IsFree(live, k)  BY DEF IsFree
  <1> QED  BY <1>3, <1>4 DEF Free

LEMMA OwnSlot ==
    ASSUME NEW live, LiveOK(live), NEW scope, NEW p \in Own(live, scope)
    PROVE  Own(live, scope) = {p} /\ SlotFor(live, scope) = p[1]
  <1>1. Own(live, scope) = {p}  BY DEF Own, LiveOK
  <1>2. Used(Own(live, scope)) = {p[1]}  BY <1>1 DEF Used
  <1> QED  BY <1>1, <1>2 DEF SlotFor

(* The name as listed, from the slots in use.                              *)
LEMMA ListedIs ==
    ASSUME NEW names, IsNames(names), NEW scope, scope # "parked"
    PROVE  /\ Slots(names, scope) = {} <=> Own(Live(names), scope) = {}
           /\ Own(Live(names), scope) = {} => Listed(names, scope) = <<>>
           /\ \A p \in Own(Live(names), scope) : /\ Slots(names, scope) = {p[1]}
                                                 /\ Listed(names, scope) = <<p[2].target>>
  <1> DEFINE own == Own(Live(names), scope)
             slots == Slots(names, scope)
  <1>1. Len(names) \in Nat  BY TableLength DEF IsNames
  <1>2. \A k \in slots : <<k, names[k]>> \in own  BY LiveIs DEF Slots, Own
  <1>3. \A p \in own : p[1] \in slots /\ p[2] = names[p[1]]  BY LiveIs DEF Slots, Own
  <1>4. ASSUME NEW p \in own PROVE slots = {p[1]} /\ Listed(names, scope) = <<p[2].target>>
    <2>1. \A j, k \in slots : j = k  BY DEF IsNames, Slots
    <2>2. slots = {p[1]}  BY <1>3, <2>1
    <2>3. slots \in SUBSET Nat /\ slots # {}  BY <1>1, <2>2 DEF Slots
    <2>4. FirstSlot(slots) = p[1]  BY <2>2, <2>3, FirstSlotIs
    <2> QED  BY <1>3, <2>2, <2>4 DEF Listed
  <1>5. own = {} => Listed(names, scope) = <<>>  BY <1>2 DEF Listed
  <1>6. slots = {} <=> own = {}  BY <1>2, <1>3
  <1> QED  BY <1>4, <1>5, <1>6

(* A name is put into a slot that is its own or nobody's.                  *)
LEMMA SlotTaken ==
    ASSUME NEW names, IsNames(names), NEW r, IsTable(r), NEW k, NEW def,
           k \in 1..Len(r), def = [scope |-> def.scope, target |-> def.target], def.scope # "parked",
           Len(r) = Len(names) \/ (Len(r) = Len(names) + 1 /\ k = Len(r)),
           r[k] = def, \A j \in 1..Len(names) : j # k => r[j] = names[j],
           \A j \in 1..Len(names) : names[j].scope = def.scope => j = k,
           k \in 1..Len(names) => names[k].scope \in {def.scope, "parked"}
    PROVE  /\ IsNames(r)
           /\ Live(r) = (Live(names) \ Own(Live(names), def.scope)) \cup {<<k, def>>}
  <1>1. Len(names) \in Nat /\ Len(r) \in Nat  BY TableLength DEF IsNames
  <1>2. \A j \in 1..Len(r) : j = k \/ (j \in 1..Len(names) /\ r[j] = names[j])  BY <1>1
  <1>3. IsNames(r)
    <2>1. \A j \in 1..Len(r) : r[j] = [scope |-> r[j].scope, target |-> r[j].target]
      BY <1>2 DEF IsNames
    <2>2. ASSUME NEW i \in 1..Len(r), NEW j \in 1..Len(r), r[i].scope = r[j].scope
          PROVE  r[i].scope = "parked" \/ i = j
      <3>1. CASE i = k \/ j = k  BY <1>2, <2>2, <3>1
      <3>2. CASE i # k /\ j # k  BY <1>2, <2>2, <3>2 DEF IsNames
      <3> QED  BY <3>1, <3>2
    <2> QED  BY <2>1, <2>2 DEF IsNames
  <1>4. ASSUME NEW p \in Live(r)
        PROVE  p \in (Live(names) \ Own(Live(names), def.scope)) \cup {<<k, def>>}
    <2>1. p[1] \in 1..Len(r) /\ p = <<p[1], r[p[1]]>> /\ p[2] = r[p[1]] /\ p[2].scope # "parked"  BY LiveIs
    <2>2. CASE p[1] = k  BY <2>1, <2>2
    <2>3. CASE p[1] # k
      <3>1. p[1] \in 1..Len(names) /\ r[p[1]] = names[p[1]]  BY <1>2, <2>1, <2>3
      <3>2. p \in Live(names)  BY <2>1, <3>1, LiveIs
      <3>3. p[2].scope # def.scope  BY <2>1, <2>3, <3>1
      <3> QED  BY <3>2, <3>3 DEF Own
    <2> QED  BY <2>2, <2>3
  <1>5. <<k, def>> \in Live(r)  BY LiveIs
  <1>6. ASSUME NEW p \in Live(names), p \notin Own(Live(names), def.scope) PROVE p \in Live(r)
    <2>1. p[1] \in 1..Len(names) /\ p = <<p[1], names[p[1]]>> /\ p[2] = names[p[1]] /\ p[2].scope # "parked"
      BY LiveIs
    <2>2. p[2].scope # def.scope  BY <1>6 DEF Own
    <2>3. p[1] # k  BY <2>1, <2>2
    <2>4. p[1] \in 1..Len(r) /\ r[p[1]] = names[p[1]]  BY <1>1, <2>1, <2>3
    <2> QED  BY <2>1, <2>4, LiveIs
  <1> QED  BY <1>3, <1>4, <1>5, <1>6

LEMMA Narrowed ==
    ASSUME NEW S, NEW T, NEW s \in Seq(S), \A j \in 1..Len(s) : s[j] \in T
    PROVE  s \in Seq(T)
  OBVIOUS

(* One entry of a table is replaced.                                       *)
Put(s, k, x) == [s EXCEPT ![k] = x]

LEMMA TablePut ==
    ASSUME NEW s, IsTable(s), NEW k, k \in 1..Len(s), NEW x
    PROVE  LET r == Put(s, k, x)
           IN  /\ IsTable(r) /\ Len(r) = Len(s) /\ r[k] = x
               /\ \A j \in 1..Len(s) : j # k => r[j] = s[j]
  <1> DEFINE old == {s[j] : j \in 1..Len(s)}
             r == Put(s, k, x)
             new == {r[i] : i \in 1..Len(r)}
  <1>1. s \in Seq(old \cup {x}) /\ Len(s) \in Nat  BY TableLength DEF IsTable
  <1>2. r \in Seq(old \cup {x}) /\ Len(r) = Len(s) /\ r[k] = x
        /\ \A j \in 1..Len(s) : j # k => r[j] = s[j]
    BY <1>1 DEF Put
  <1> HIDE DEF r, old
  <1>3. \A j \in 1..Len(r) : r[j] \in new  OBVIOUS
  <1> HIDE DEF new
  <1>4. r \in Seq(new)  BY <1>2, <1>3, Narrowed
  <1> QED  BY <1>2, <1>4 DEF r, new, IsTable

(* The name takes its own slot, else the first that is parked, else a new  *)
(* one; of the slots in use that is its own or the first that is free.     *)
LEMMA OwnOrFree ==
    ASSUME NEW names, IsNames(names), NEW scope, scope # "parked"
    PROVE  LET live == Slots(names, scope)
               free == Slots(names, "parked")
           IN  /\ live # {} => live = {SlotFor(Live(names), scope)}
               /\ live = {} /\ free # {} => FirstSlot(free) = SlotFor(Live(names), scope)
               /\ live = {} /\ free = {} => Len(names) + 1 = SlotFor(Live(names), scope)
  <1> DEFINE live == Slots(names, scope)
             free == Slots(names, "parked")
             own == Own(Live(names), scope)
  <1>1. Len(names) \in Nat  BY TableLength DEF IsNames
  <1>2. Used(Live(names)) = (1..Len(names)) \ free
    <2>1. \A p \in Live(names) : p[1] \in (1..Len(names)) \ free  BY LiveIs DEF Slots
    <2>2. ASSUME NEW k \in (1..Len(names)) \ free PROVE k \in Used(Live(names))
      <3>1. <<k, names[k]>> \in Live(names)  BY LiveIs DEF Slots
      <3>2. <<k, names[k]>>[1] = k  OBVIOUS
      <3> QED  BY <3>1, <3>2, Zenon DEF Used
    <2>3. \A k \in Used(Live(names)) : k \in (1..Len(names)) \ free
      <3> HIDE DEF free
      <3> QED  BY <2>1 DEF Used
    <2> QED  BY <2>2, <2>3
  <1>3. ASSUME live # {} PROVE live = {SlotFor(Live(names), scope)}
    <2>1. own # {}  BY <1>3, ListedIs
    <2>2. PICK p \in own : TRUE  BY <2>1
    <2>3. live = {p[1]}  BY <2>2, ListedIs
    <2> QED  BY <2>2, <2>3, OwnSlot, LiveShape
  <1>4. ASSUME live = {} PROVE \A k : IsFree(Live(names), k) => SlotFor(Live(names), scope) = k
    <2>1. own = {}  BY <1>4, ListedIs
    <2> QED  BY <2>1, FreeIs DEF SlotFor
  <1>5. ASSUME free # {} PROVE IsFree(Live(names), FirstSlot(free))
    <2> DEFINE k == FirstSlot(free)
    <2>1. free \in SUBSET Nat  BY <1>1 DEF Slots
    <2>2. k \in free /\ \A j \in free : k <= j  BY <1>5, <2>1, FirstSlotIs
    <2> HIDE DEF k
    <2>3. k \in 1..Len(names)  BY <2>2 DEF Slots
    <2>4. \A j \in 1..(k - 1) : j \in 1..Len(names) /\ j \notin free
      <3> TAKE j \in 1..(k - 1)
      <3>1. j \in 1..Len(names) /\ ~(k <= j)  BY <1>1, <2>3
      <3> QED  BY <2>2, <3>1
    <2> QED  BY <1>2, <2>2, <2>3, <2>4 DEF IsFree, k
  <1>6. ASSUME free = {} PROVE IsFree(Live(names), Len(names) + 1)
    <2>1. Used(Live(names)) = 1..Len(names)  BY <1>2, <1>6
    <2> QED  BY <1>1, <2>1 DEF IsFree
  <1> QED  BY <1>3, <1>4, <1>5, <1>6

LEMMA DefinedIs ==
    ASSUME NEW names, IsNames(names), NEW scope, scope # "parked", NEW target
    PROVE  LET r == Defined(names, scope, target)
           IN  IsNames(r) /\ Live(r) = LiveDefined(Live(names), scope, target)
  <1> DEFINE def == [scope |-> scope, target |-> target]
             live == Slots(names, scope)
             free == Slots(names, "parked")
             r == Defined(names, scope, target)
             k == SlotFor(Live(names), scope)
  <1>1. IsTable(names) /\ Len(names) \in Nat  BY TableLength DEF IsNames
  <1>2. live \in SUBSET Nat /\ free \in SUBSET Nat  BY <1>1 DEF Slots
  <1>3. def.scope = scope /\ def = [scope |-> def.scope, target |-> def.target]  OBVIOUS
  <1>4. \A j \in 1..Len(names) : names[j].scope = scope => j \in live  BY DEF Slots
  <1>5. r = CASE live # {} -> [names EXCEPT ![FirstSlot(live)] = def]
              [] live = {} /\ free # {} -> [names EXCEPT ![FirstSlot(free)] = def]
              [] OTHER -> Append(names, def)
    BY DEF Defined
  <1> HIDE DEF r, def, k
  <1>6. CASE live # {}
    <2>1. live = {k} /\ FirstSlot(live) = k
      <3>1. live = {k}  BY <1>6, OwnOrFree DEF k
      <3> QED  BY <1>2, <3>1, FirstSlotIs
    <2>2. k \in 1..Len(names) /\ names[k].scope = scope  BY <2>1 DEF Slots
    <2>3. r = Put(names, k, def)  BY <1>5, <1>6, <2>1 DEF Put
    <2>4. /\ IsTable(r) /\ Len(r) = Len(names) /\ r[k] = def
          /\ \A j \in 1..Len(names) : j # k => r[j] = names[j]
      BY <1>1, <2>2, <2>3, TablePut
    <2>5. /\ IsNames(r)
          /\ Live(r) = (Live(names) \ Own(Live(names), def.scope)) \cup {<<k, def>>}
      BY <1>3, <1>4, <2>1, <2>2, <2>4, SlotTaken
    <2> QED  BY <1>3, <2>5 DEF LiveDefined, r, def, k
  <1>7. CASE live = {} /\ free # {}
    <2>1. FirstSlot(free) = k /\ k \in free
      <3>1. FirstSlot(free) = k  BY <1>7, OwnOrFree DEF k
      <3> QED  BY <1>2, <1>7, <3>1, FirstSlotIs
    <2>2. k \in 1..Len(names) /\ names[k].scope = "parked"  BY <2>1 DEF Slots
    <2>3. r = Put(names, k, def)  BY <1>5, <1>7, <2>1 DEF Put
    <2>4. /\ IsTable(r) /\ Len(r) = Len(names) /\ r[k] = def
          /\ \A j \in 1..Len(names) : j # k => r[j] = names[j]
      BY <1>1, <2>2, <2>3, TablePut
    <2>5. /\ IsNames(r)
          /\ Live(r) = (Live(names) \ Own(Live(names), def.scope)) \cup {<<k, def>>}
      BY <1>3, <1>4, <1>7, <2>2, <2>4, SlotTaken
    <2> QED  BY <1>3, <2>5 DEF LiveDefined, r, def, k
  <1>8. CASE live = {} /\ free = {}
    <2>1. Len(names) + 1 = k  BY <1>8, OwnOrFree DEF k
    <2>3. r = Append(names, def)  BY <1>5, <1>8
    <2>4. /\ IsTable(r) /\ Len(r) = Len(names) + 1 /\ r[k] = def
          /\ \A j \in 1..Len(names) : r[j] = names[j]
      BY <1>1, <2>1, <2>3, Appended
    <2>6. k \in 1..Len(r) /\ k = Len(r) /\ k \notin 1..Len(names)  BY <1>1, <2>1, <2>4
    <2>5. /\ IsNames(r)
          /\ Live(r) = (Live(names) \ Own(Live(names), def.scope)) \cup {<<k, def>>}
      BY <1>3, <1>4, <1>8, <2>4, <2>6, SlotTaken
    <2> QED  BY <1>3, <2>5 DEF LiveDefined, r, def, k
  <1> QED  BY <1>6, <1>7, <1>8

LEMMA DeletedIs ==
    ASSUME NEW names, IsNames(names), NEW scope, scope # "parked", Slots(names, scope) # {}
    PROVE  LET r == Deleted(names, scope)
           IN  IsNames(r) /\ Live(r) = LiveDeleted(Live(names), scope)
  <1> DEFINE void == [scope |-> "parked", target |-> <<"#NAME?">>]
             r == Deleted(names, scope)
             k == FirstSlot(Slots(names, scope))
             own == Own(Live(names), scope)
  <1>1. IsTable(names) /\ Len(names) \in Nat  BY TableLength DEF IsNames
  <1>2. PICK p \in own : TRUE  BY ListedIs
  <1>3. Slots(names, scope) = {p[1]} /\ own = {p}  BY <1>2, ListedIs, LiveShape, OwnSlot
  <1>4. k = p[1]
    <2>1. Slots(names, scope) \in SUBSET Nat  BY <1>1 DEF Slots
    <2> QED  BY <1>3, <2>1, FirstSlotIs
  <1>5. k \in 1..Len(names) /\ names[k].scope = scope  BY <1>3, <1>4 DEF Slots
  <1>6. r = Put(names, k, void)  BY DEF Deleted, Put
  <1>7. void.scope = "parked" /\ void = [scope |-> void.scope, target |-> void.target]  OBVIOUS
  <1> HIDE DEF r, k, void
  <1>8. /\ IsTable(r) /\ Len(r) = Len(names) /\ r[k] = void
        /\ \A j \in 1..Len(names) : j # k => r[j] = names[j]
    BY <1>1, <1>5, <1>6, TablePut
  <1>9. IsNames(r)
    <2>1. \A j \in 1..Len(r) : r[j] = [scope |-> r[j].scope, target |-> r[j].target]
      BY <1>7, <1>8 DEF IsNames
    <2>2. \A i, j \in 1..Len(r) : r[i].scope = r[j].scope => r[i].scope = "parked" \/ i = j
      BY <1>7, <1>8 DEF IsNames
    <2> QED  BY <1>8, <2>1, <2>2 DEF IsNames
  <1>10. ASSUME NEW q \in Live(r) PROVE q \in Live(names) \ own
    <2>1. q[1] \in 1..Len(r) /\ q = <<q[1], r[q[1]]>> /\ q[2] = r[q[1]] /\ q[2].scope # "parked"  BY LiveIs
    <2>2. q[1] # k  BY <1>7, <1>8, <2>1
    <2>3. r[q[1]] = names[q[1]] /\ q[1] \in 1..Len(names)  BY <1>8, <2>1, <2>2
    <2>4. q \in Live(names)  BY <2>1, <2>3, LiveIs
    <2> QED  BY <1>3, <1>4, <2>2, <2>4
  <1>11. ASSUME NEW q \in Live(names), q \notin own PROVE q \in Live(r)
    <2>1. q[1] \in 1..Len(names) /\ q = <<q[1], names[q[1]]>> /\ q[2] = names[q[1]] /\ q[2].scope # "parked"
      BY LiveIs
    <2>2. q[1] # k
      <3>1. p \in Live(names)  BY <1>2 DEF Own
      <3> QED  BY <1>3, <1>4, <1>11, <3>1, LiveShape DEF LiveOK
    <2>3. q[1] \in 1..Len(r) /\ r[q[1]] = names[q[1]]  BY <1>8, <2>1, <2>2
    <2> QED  BY <2>1, <2>3, LiveIs
  <1>12. Live(r) = LiveDeleted(Live(names), scope)  BY <1>10, <1>11 DEF LiveDeleted
  <1> QED  BY <1>9, <1>12 DEF r

LEMMA OneOwn ==
    ASSUME NEW live, NEW scope, NEW p, Own(live, scope) = {p}
    PROVE  SlotFor(live, scope) = p[1]
  <1>1. Used(Own(live, scope)) = {p[1]}  BY DEF Used
  <1> QED  BY <1>1 DEF SlotFor

(* A new name is deleted again.                                            *)
LEMMA DeletedAgain ==
    ASSUME NEW live, NEW scope, NEW target, Own(live, scope) = {}
    PROVE  LiveDeleted(LiveDefined(live, scope, target), scope) = live
  <1> DEFINE q == <<SlotFor(live, scope), [scope |-> scope, target |-> target]>>
             d == live \cup {q}
  <1>1. LiveDefined(live, scope, target) = d  BY DEF LiveDefined
  <1>2. q[2].scope = scope  OBVIOUS
  <1>3. \A p \in live : p[2].scope # scope  BY DEF Own
  <1> HIDE DEF q
  <1>4. Own(d, scope) = {q}  BY <1>2, <1>3 DEF Own
  <1>5. q \notin live  BY <1>2, <1>3
  <1> QED  BY <1>1, <1>4, <1>5 DEF LiveDeleted

(* A name that stood for something else stands for it again.               *)
LEMMA DefinedAgain ==
    ASSUME NEW live, LiveOK(live), NEW scope, NEW target, NEW p \in Own(live, scope)
    PROVE  LiveDefined(LiveDefined(live, scope, target), scope, p[2].target) = live
  <1> DEFINE q == <<p[1], [scope |-> scope, target |-> target]>>
             d == (live \ {p}) \cup {q}
  <1>1. Own(live, scope) = {p} /\ SlotFor(live, scope) = p[1]  BY OwnSlot
  <1>2. LiveDefined(live, scope, target) = d  BY <1>1 DEF LiveDefined
  <1>3. q[1] = p[1] /\ q[2].scope = scope  OBVIOUS
  <1>4. \A o \in live : o[2].scope = scope => o = p  BY <1>1 DEF Own
  <1>5. p \in live /\ p = <<p[1], [scope |-> scope, target |-> p[2].target]>>  BY DEF Own, LiveOK
  <1> HIDE DEF q
  <1>6. Own(d, scope) = {q}  BY <1>3, <1>4 DEF Own
  <1>7. SlotFor(d, scope) = p[1]  BY <1>3, <1>6, OneOwn
  <1>8. q = p \/ q \notin live  BY <1>3, <1>4
  <1>9. LiveDefined(d, scope, p[2].target) = (d \ {q}) \cup {p}  BY <1>5, <1>6, <1>7 DEF LiveDefined
  <1> QED  BY <1>2, <1>5, <1>8, <1>9

(* A deleted name finds its slot again when no slot below it is free.      *)
LEMMA Revived ==
    ASSUME NEW live, LiveOK(live), NEW scope, NEW p \in Own(live, scope),
           1..(p[1] - 1) \subseteq Used(live)
    PROVE  LiveDefined(LiveDeleted(live, scope), scope, p[2].target) = live
  <1> DEFINE d == live \ {p}
  <1>1. Own(live, scope) = {p}  BY OwnSlot
  <1>2. LiveDeleted(live, scope) = d  BY <1>1 DEF LiveDeleted
  <1>3. p \in live /\ p[1] \in Nat \ {0} /\ p = <<p[1], [scope |-> scope, target |-> p[2].target]>>
    BY DEF Own, LiveOK
  <1>4. Own(d, scope) = {}  BY <1>1 DEF Own
  <1>5. IsFree(d, p[1])
    <2>1. p[1] \notin Used(d)  BY <1>3 DEF Used, LiveOK
    <2>2. ASSUME NEW j \in 1..(p[1] - 1) PROVE j \in Used(d)
      <3>1. PICK o \in live : o[1] = j  BY DEF Used
      <3>2. o # p  BY <1>3, <3>1
      <3> QED  BY <3>1, <3>2 DEF Used
    <2> QED  BY <1>3, <2>1, <2>2 DEF IsFree
  <1>6. SlotFor(d, scope) = p[1]  BY <1>4, <1>5, FreeIs DEF SlotFor
  <1>7. LiveDefined(d, scope, p[2].target) = d \cup {p}  BY <1>3, <1>4, <1>6 DEF LiveDefined
  <1> QED  BY <1>2, <1>3, <1>7

(* What is listed after a name is defined or deleted.                      *)
LEMMA ListedDefined ==
    ASSUME NEW names, IsNames(names), NEW scope, scope # "parked", NEW target, NEW s, s # "parked"
    PROVE  Listed(Defined(names, scope, target), s) = IF s = scope THEN <<target>> ELSE Listed(names, s)
  <1> DEFINE r == Defined(names, scope, target)
             q == <<SlotFor(Live(names), scope), [scope |-> scope, target |-> target]>>
  <1>1. IsNames(r) /\ Live(r) = LiveDefined(Live(names), scope, target)  BY DefinedIs
  <1>2. Live(r) = (Live(names) \ Own(Live(names), scope)) \cup {q}  BY <1>1 DEF LiveDefined
  <1>3. q[2].scope = scope /\ q[2].target = target  OBVIOUS
  <1> HIDE DEF q, r
  <1>4. CASE s = scope
    <2>1. q \in Own(Live(r), s)  BY <1>2, <1>3, <1>4 DEF Own
    <2> QED  BY <1>1, <1>3, <1>4, <2>1, ListedIs DEF r
  <1>5. CASE s # scope
    <2>1. Own(Live(r), s) = Own(Live(names), s)  BY <1>2, <1>3, <1>5 DEF Own
    <2> QED  BY <1>1, <1>5, <2>1, ListedIs DEF r
  <1> QED  BY <1>4, <1>5

LEMMA ListedDeleted ==
    ASSUME NEW names, IsNames(names), NEW scope, scope # "parked", Slots(names, scope) # {},
           NEW s, s # "parked"
    PROVE  Listed(Deleted(names, scope), s) = IF s = scope THEN <<>> ELSE Listed(names, s)
  <1> DEFINE r == Deleted(names, scope)
  <1>1. IsNames(r) /\ Live(r) = Live(names) \ Own(Live(names), scope)  BY DeletedIs DEF LiveDeleted
  <1> HIDE DEF r
  <1>2. CASE s = scope
    <2>1. Own(Live(r), s) = {}  BY <1>1, <1>2 DEF Own
    <2> QED  BY <1>1, <1>2, <2>1, ListedIs DEF r
  <1>3. CASE s # scope
    <2>1. Own(Live(r), s) = Own(Live(names), s)  BY <1>1, <1>3 DEF Own
    <2> QED  BY <1>1, <1>3, <2>1, ListedIs DEF r
  <1> QED  BY <1>2, <1>3

LEMMA ListedOne ==
    ASSUME NEW names, NEW scope
    PROVE  /\ Slots(names, scope) = {} <=> Listed(names, scope) = <<>>
           /\ Listed(names, scope) # <<>> => Listed(names, scope) = <<Listed(names, scope)[1]>>
  BY DEF Listed

-----------------------------------------------------------------------------
(* Whole sheets                                                            *)

(* One part of a sheet is another.                                         *)
Book(cells, merges, names, widths, freeze) ==
  [cells |-> cells, merges |-> merges, names |-> names, widths |-> widths, freeze |-> freeze]

LEMMA BookWith ==
    ASSUME NEW b, IsBook(b), NEW x
    PROVE  /\ [b EXCEPT !.cells = x] = Book(x, b.merges, b.names, b.widths, b.freeze)
           /\ [b EXCEPT !.merges = x] = Book(b.cells, x, b.names, b.widths, b.freeze)
           /\ [b EXCEPT !.names = x] = Book(b.cells, b.merges, x, b.widths, b.freeze)
           /\ [b EXCEPT !.widths = x] = Book(b.cells, b.merges, b.names, x, b.freeze)
           /\ [b EXCEPT !.freeze = x] = Book(b.cells, b.merges, b.names, b.widths, x)
           /\ b = Book(b.cells, b.merges, b.names, b.widths, b.freeze)
  BY DEF IsBook, Book

LEMMA BookParts ==
    ASSUME NEW c, NEW m, NEW n, NEW w, NEW f
    PROVE  LET b == Book(c, m, n, w, f)
           IN  /\ b.cells = c /\ b.merges = m /\ b.names = n /\ b.widths = w /\ b.freeze = f
               /\ IsBook(b) <=> IsCells(c) /\ w = [i \in Cells |-> w[i]] /\ IsNames(n)
  BY DEF Book, IsBook

(* The sheet with some of its cells written.                               *)
LEMMA WrittenIs ==
    ASSUME NEW b, IsBook(b), NEW edits, NEW field
    PROVE  Written(b, edits, field) = Book(WriteAll(b.cells, edits, field), b.merges, b.names, b.widths, b.freeze)
  BY BookWith DEF Written

(* The step back of each kind.                                             *)
LEMMA FmtUndoneIs ==
    ASSUME NEW b, IsBook(b), NEW fmt
    PROVE  LET f == FmtUndone(b, fmt)
               names == IF fmt.prior = <<>> THEN Deleted(b.names, fmt.scope)
                        ELSE Defined(b.names, fmt.scope, fmt.prior[1])
               widths == [c \in Cells |-> IF c \in Span(fmt.box) THEN fmt.had[c] ELSE b.widths[c]]
           IN  /\ fmt.kind = "style" =>
                    f = Book(Styled(b.cells, fmt.before, fmt.box), b.merges, b.names, b.widths, b.freeze)
               /\ fmt.kind = "merge" =>
                    f = Book(b.cells, {m \in b.merges : ~Meets(m, fmt.box)}, b.names, b.widths, b.freeze)
               /\ fmt.kind = "unmerge" =>
                    f = Book(Cleared(b.cells, Under(fmt.gone)), b.merges \cup fmt.gone, b.names, b.widths, b.freeze)
               /\ fmt.kind = "width" => f = Book(b.cells, b.merges, b.names, widths, b.freeze)
               /\ fmt.kind = "freeze" => f = Book(b.cells, b.merges, b.names, b.widths, fmt.before)
               /\ fmt.kind = "name" => f = Book(b.cells, b.merges, names, b.widths, b.freeze)
               /\ fmt.kind \notin {"style", "merge", "unmerge", "width", "freeze", "name"} => f = b
  <1> DEFINE names == IF fmt.prior = <<>> THEN Deleted(b.names, fmt.scope)
                      ELSE Defined(b.names, fmt.scope, fmt.prior[1])
             widths == [c \in Cells |-> IF c \in Span(fmt.box) THEN fmt.had[c] ELSE b.widths[c]]
  <1>1. CASE fmt.kind = "style"  BY <1>1, BookWith DEF FmtUndone
  <1>2. CASE fmt.kind = "merge"  BY <1>2, BookWith DEF FmtUndone, Unmerged
  <1>3. CASE fmt.kind = "unmerge"
    <2>1. FmtUndone(b, fmt) = [b EXCEPT !.cells = Cleared(@, Under(fmt.gone)), !.merges = @ \cup fmt.gone]
      BY <1>3 DEF FmtUndone, Merged
    <2> QED  BY <1>3, <2>1 DEF IsBook, Book
  <1>4. CASE fmt.kind = "width"
    <2>1. FmtUndone(b, fmt) = [b EXCEPT !.widths = widths]  BY <1>4 DEF FmtUndone
    <2> HIDE DEF widths
    <2>2. FmtUndone(b, fmt) = Book(b.cells, b.merges, b.names, widths, b.freeze)  BY <2>1, BookWith
    <2> QED  BY <1>4, <2>2 DEF widths
  <1>5. CASE fmt.kind = "freeze"  BY <1>5, BookWith DEF FmtUndone
  <1>6. CASE fmt.kind = "name"
    <2>1. FmtUndone(b, fmt) = [b EXCEPT !.names = names]  BY <1>6 DEF FmtUndone
    <2> HIDE DEF names
    <2>2. FmtUndone(b, fmt) = Book(b.cells, b.merges, names, b.widths, b.freeze)  BY <2>1, BookWith
    <2> QED  BY <1>6, <2>2 DEF names
  <1>7. CASE fmt.kind \notin {"style", "merge", "unmerge", "width", "freeze", "name"}
    BY <1>7 DEF FmtUndone
  <1> QED  BY <1>1, <1>2, <1>3, <1>4, <1>5, <1>6, <1>7

LEMMA FmtRedoneIs ==
    ASSUME NEW b, IsBook(b), NEW fmt
    PROVE  LET f == FmtRedone(b, fmt)
               names == IF fmt.target = <<>> THEN Deleted(b.names, fmt.scope)
                        ELSE Defined(b.names, fmt.scope, fmt.target[1])
               widths == [c \in Cells |-> IF c \in Span(fmt.box) THEN fmt.size ELSE b.widths[c]]
           IN  /\ fmt.kind = "style" =>
                    f = Book(Styled(b.cells, fmt.after, fmt.box), b.merges, b.names, b.widths, b.freeze)
               /\ fmt.kind = "merge" =>
                    f = Book(Cleared(b.cells, Under({fmt.box})), b.merges \cup {fmt.box}, b.names, b.widths, b.freeze)
               /\ fmt.kind = "unmerge" =>
                    f = Book(b.cells, {m \in b.merges : ~Meets(m, fmt.box)}, b.names, b.widths, b.freeze)
               /\ fmt.kind = "width" => f = Book(b.cells, b.merges, b.names, widths, b.freeze)
               /\ fmt.kind = "freeze" => f = Book(b.cells, b.merges, b.names, b.widths, fmt.after)
               /\ fmt.kind = "name" => f = Book(b.cells, b.merges, names, b.widths, b.freeze)
               /\ fmt.kind \notin {"style", "merge", "unmerge", "width", "freeze", "name"} => f = b
  <1> DEFINE names == IF fmt.target = <<>> THEN Deleted(b.names, fmt.scope)
                      ELSE Defined(b.names, fmt.scope, fmt.target[1])
             widths == [c \in Cells |-> IF c \in Span(fmt.box) THEN fmt.size ELSE b.widths[c]]
  <1>1. CASE fmt.kind = "style"  BY <1>1, BookWith DEF FmtRedone
  <1>2. CASE fmt.kind = "merge"
    <2>1. FmtRedone(b, fmt) = [b EXCEPT !.cells = Cleared(@, Under({fmt.box})), !.merges = @ \cup {fmt.box}]
      BY <1>2 DEF FmtRedone, Merged
    <2> QED  BY <1>2, <2>1 DEF IsBook, Book
  <1>3. CASE fmt.kind = "unmerge"  BY <1>3, BookWith DEF FmtRedone, Unmerged
  <1>4. CASE fmt.kind = "width"
    <2>1. FmtRedone(b, fmt) = [b EXCEPT !.widths = widths]  BY <1>4 DEF FmtRedone, Sized
    <2> HIDE DEF widths
    <2>2. FmtRedone(b, fmt) = Book(b.cells, b.merges, b.names, widths, b.freeze)  BY <2>1, BookWith
    <2> QED  BY <1>4, <2>2 DEF widths
  <1>5. CASE fmt.kind = "freeze"  BY <1>5, BookWith DEF FmtRedone
  <1>6. CASE fmt.kind = "name"
    <2>1. FmtRedone(b, fmt) = [b EXCEPT !.names = names]  BY <1>6 DEF FmtRedone
    <2> HIDE DEF names
    <2>2. FmtRedone(b, fmt) = Book(b.cells, b.merges, names, b.widths, b.freeze)  BY <2>1, BookWith
    <2> QED  BY <1>6, <2>2 DEF names
  <1>7. CASE fmt.kind \notin {"style", "merge", "unmerge", "width", "freeze", "name"}
    BY <1>7 DEF FmtRedone
  <1> QED  BY <1>1, <1>2, <1>3, <1>4, <1>5, <1>6, <1>7

(* A record is of the sheet in hand as of the one it was made of.          *)
LEMMA LinkAfter ==
    ASSUME NEW rec, NEW t, NEW u, NEW b, NEW gone, NEW under, NEW mixed,
           Link(rec, t, u, gone, under, mixed), Agrees(b, u, gone, under, mixed)
    PROVE  Link(rec, t, b, gone, under, mixed)
  <1>1. IsEdits(rec.edits)  BY DEF Link
  <1>2. LinkText(rec, t, b, under)  BY DEF Link, LinkText, Agrees
  <1>3. LinkStyle(rec, t, b, gone)  BY DEF Link, LinkStyle, Agrees
  <1>4. LinkMerges(rec.fmt, t, b)  BY DEF Link, LinkMerges, Agrees
  <1>5. LinkWidths(rec.fmt, t, b) /\ LinkFreeze(rec.fmt, t, b)
    BY DEF Link, LinkWidths, LinkFreeze, Agrees
  <1>6. LinkListed(rec.fmt, t, b)  BY DEF Link, LinkListed, Agrees
  <1>7. ~mixed => LinkSlots(rec.fmt, t, b)  BY DEF Link, LinkSlots, Agrees
  <1> QED  BY <1>1, <1>2, <1>3, <1>4, <1>5, <1>6, <1>7 DEF Link

LEMMA LinkBefore ==
    ASSUME NEW rec, NEW t, NEW u, NEW b, NEW gone, NEW under, NEW mixed,
           Link(rec, t, u, gone, under, mixed), Agrees(b, t, gone, under, mixed)
    PROVE  Link(rec, b, u, gone, under, mixed)
  <1>1. IsEdits(rec.edits)  BY DEF Link
  <1>2. LinkText(rec, b, u, under)  BY DEF Link, LinkText, Agrees
  <1>3. LinkStyle(rec, b, u, gone)  BY DEF Link, LinkStyle, Agrees
  <1>4. LinkMerges(rec.fmt, b, u)  BY DEF Link, LinkMerges, Agrees
  <1>5. LinkWidths(rec.fmt, b, u) /\ LinkFreeze(rec.fmt, b, u)
    BY DEF Link, LinkWidths, LinkFreeze, Agrees
  <1>6. LinkListed(rec.fmt, b, u)  BY DEF Link, LinkListed, Agrees
  <1>7. ~mixed => LinkSlots(rec.fmt, b, u)  BY DEF Link, LinkSlots, Agrees
  <1> QED  BY <1>1, <1>2, <1>3, <1>4, <1>5, <1>6, <1>7 DEF Link

(* Less is promised when more is lost.                                     *)
LEMMA LinkLess ==
    ASSUME NEW rec, NEW t, NEW u, NEW gone, NEW under, NEW mixed,
           Link(rec, t, u, gone, under, mixed),
           NEW more, NEW deep, NEW jumbled, gone \subseteq more, under \subseteq deep, mixed => jumbled
    PROVE  Link(rec, t, u, more, deep, jumbled)
  <1>1. LinkText(rec, t, u, deep)  BY DEF Link, LinkText
  <1>2. LinkStyle(rec, t, u, more)  BY DEF Link, LinkStyle
  <1>3. ~jumbled => LinkSlots(rec.fmt, t, u)  BY DEF Link
  <1> QED  BY <1>1, <1>2, <1>3 DEF Link

LEMMA AgreesLess ==
    ASSUME NEW b, NEW t, NEW gone, NEW under, NEW mixed, Agrees(b, t, gone, under, mixed),
           NEW more, NEW deep, NEW jumbled, gone \subseteq more, under \subseteq deep, mixed => jumbled
    PROVE  Agrees(b, t, more, deep, jumbled)
  BY DEF Agrees

-----------------------------------------------------------------------------
(* The names, one step back or forward                                     *)

(* Names that stand for what others stand for.                             *)
SameNames(n, names, mixed) ==
  /\ IsNames(n)
  /\ \A s : s # "parked" => Listed(n, s) = Listed(names, s)
  /\ ~mixed => Live(n) = Live(names)

LinkNames(fmt, t, u, mixed) == LinkListed(fmt, t, u) /\ (~mixed => LinkSlots(fmt, t, u))

UndoneNames(names, fmt) ==
  IF fmt.prior = <<>> THEN Deleted(names, fmt.scope) ELSE Defined(names, fmt.scope, fmt.prior[1])
RedoneNames(names, fmt) ==
  IF fmt.target = <<>> THEN Deleted(names, fmt.scope) ELSE Defined(names, fmt.scope, fmt.target[1])

LEMMA NamesUndone ==
    ASSUME NEW fmt, fmt.kind = "name", NEW t, NEW b, IsBook(t), IsBook(b), NEW mixed,
           LinkNames(fmt, t, b, mixed)
    PROVE  SameNames(UndoneNames(b.names, fmt), t.names, mixed)
  <1> DEFINE scope == fmt.scope
             r == UndoneNames(b.names, fmt)
             live == Live(t.names)
  <1>1. IsNames(t.names) /\ IsNames(b.names)  BY DEF IsBook
  <1>2. /\ scope # "parked" /\ (fmt.prior # <<>> \/ fmt.target # <<>>)
        /\ fmt.prior = Listed(t.names, scope) /\ fmt.target = Listed(b.names, scope)
        /\ \A s : s \notin {scope, "parked"} => Listed(b.names, s) = Listed(t.names, s)
    BY DEF LinkNames, LinkListed
  <1>3. ~mixed /\ fmt.target # <<>> => Live(b.names) = LiveDefined(live, scope, fmt.target[1])
    BY DEF LinkNames, LinkSlots
  <1>4. ~mixed /\ fmt.target = <<>> =>
          /\ Live(b.names) = LiveDeleted(live, scope)
          /\ \A p \in Own(live, scope) : 1..(p[1] - 1) \subseteq Used(live)
    BY DEF LinkNames, LinkSlots
  <1>5. LiveOK(live)  BY <1>1, LiveShape
  <1>6. CASE fmt.prior = <<>>
    <2>1. Slots(b.names, scope) # {}  BY <1>2, <1>6, ListedOne
    <2>2. r = Deleted(b.names, scope)  BY <1>6 DEF UndoneNames
    <2>3. IsNames(r) /\ Live(r) = LiveDeleted(Live(b.names), scope)  BY <1>1, <1>2, <2>1, <2>2, DeletedIs
    <2>4. \A s : s # "parked" => Listed(r, s) = IF s = scope THEN <<>> ELSE Listed(b.names, s)
      BY <1>1, <1>2, <2>1, <2>2, ListedDeleted
    <2>5. Own(live, scope) = {}  BY <1>1, <1>2, <1>6, ListedOne, ListedIs
    <2>6. ~mixed => Live(r) = live  BY <1>2, <1>3, <1>6, <2>3, <2>5, DeletedAgain
    <2> QED  BY <1>2, <1>6, <2>3, <2>4, <2>6 DEF SameNames
  <1>7. CASE fmt.prior # <<>>
    <2>2. r = Defined(b.names, scope, fmt.prior[1])  BY <1>7 DEF UndoneNames
    <2>3. IsNames(r) /\ Live(r) = LiveDefined(Live(b.names), scope, fmt.prior[1])
      BY <1>1, <1>2, <2>2, DefinedIs
    <2>4. \A s : s # "parked" => Listed(r, s) = IF s = scope THEN <<fmt.prior[1]>> ELSE Listed(b.names, s)
      BY <1>1, <1>2, <2>2, ListedDefined
    <2>5. fmt.prior = <<fmt.prior[1]>>  BY <1>2, <1>7, ListedOne
    <2>6. PICK p \in Own(live, scope) : TRUE  BY <1>1, <1>2, <1>7, ListedIs
    <2>7. fmt.prior[1] = p[2].target
      <3>1. fmt.prior = <<p[2].target>>  BY <1>1, <1>2, <2>6, ListedIs
      <3> QED  BY <3>1
    <2>8. ASSUME ~mixed PROVE Live(r) = live
      <3>1. CASE fmt.target # <<>>  BY <1>3, <1>5, <2>3, <2>6, <2>7, <2>8, <3>1, DefinedAgain
      <3>2. CASE fmt.target = <<>>  BY <1>4, <1>5, <2>3, <2>6, <2>7, <2>8, <3>2, Revived
      <3> QED  BY <3>1, <3>2
    <2> QED  BY <1>2, <2>3, <2>4, <2>5, <2>8 DEF SameNames
  <1> QED  BY <1>6, <1>7

LEMMA NamesRedone ==
    ASSUME NEW fmt, fmt.kind = "name", NEW b, NEW u, IsBook(b), IsBook(u), NEW mixed,
           LinkNames(fmt, b, u, mixed)
    PROVE  SameNames(RedoneNames(b.names, fmt), u.names, mixed)
  <1> DEFINE scope == fmt.scope
             r == RedoneNames(b.names, fmt)
  <1>1. IsNames(b.names) /\ IsNames(u.names)  BY DEF IsBook
  <1>2. /\ scope # "parked" /\ (fmt.prior # <<>> \/ fmt.target # <<>>)
        /\ fmt.prior = Listed(b.names, scope) /\ fmt.target = Listed(u.names, scope)
        /\ \A s : s \notin {scope, "parked"} => Listed(u.names, s) = Listed(b.names, s)
    BY DEF LinkNames, LinkListed
  <1>3. CASE fmt.target = <<>>
    <2>1. Slots(b.names, scope) # {}  BY <1>2, <1>3, ListedOne
    <2>2. r = Deleted(b.names, scope)  BY <1>3 DEF RedoneNames
    <2>3. IsNames(r) /\ Live(r) = LiveDeleted(Live(b.names), scope)  BY <1>1, <1>2, <2>1, <2>2, DeletedIs
    <2>4. \A s : s # "parked" => Listed(r, s) = IF s = scope THEN <<>> ELSE Listed(b.names, s)
      BY <1>1, <1>2, <2>1, <2>2, ListedDeleted
    <2>5. ~mixed => Live(r) = Live(u.names)  BY <1>3, <2>3 DEF LinkNames, LinkSlots
    <2> QED  BY <1>2, <1>3, <2>3, <2>4, <2>5 DEF SameNames
  <1>4. CASE fmt.target # <<>>
    <2>2. r = Defined(b.names, scope, fmt.target[1])  BY <1>4 DEF RedoneNames
    <2>3. IsNames(r) /\ Live(r) = LiveDefined(Live(b.names), scope, fmt.target[1])
      BY <1>1, <1>2, <2>2, DefinedIs
    <2>4. \A s : s # "parked" => Listed(r, s) = IF s = scope THEN <<fmt.target[1]>> ELSE Listed(b.names, s)
      BY <1>1, <1>2, <2>2, ListedDefined
    <2>5. fmt.target = <<fmt.target[1]>>  BY <1>2, <1>4, ListedOne
    <2>6. ~mixed => Live(r) = Live(u.names)  BY <1>4, <2>3 DEF LinkNames, LinkSlots
    <2> QED  BY <1>2, <2>3, <2>4, <2>5, <2>6 DEF SameNames
  <1> QED  BY <1>3, <1>4

LEMMA MeetsItself == ASSUME NEW box, IsBox(box) PROVE Meets(box, box)
  BY FormatAssumption DEF IsBox, Meets

KindsKnown == {"style", "merge", "unmerge", "width", "freeze", "name"}

-----------------------------------------------------------------------------
(* Steps back and forward                                                  *)

(* The format step back: all but the cells is as it was, and the cells are *)
(* what they are but for the styles it changed.                            *)
LEMMA FmtBack ==
    ASSUME NEW rec, NEW t, NEW b, IsBook(t), IsBook(b), NEW gone, NEW under, NEW mixed,
           Link(rec, t, b, gone, under, mixed)
    PROVE  LET f == FmtUndone(b, rec.fmt)
           IN  /\ IsBook(f)
               /\ f.merges = t.merges /\ f.widths = t.widths /\ f.freeze = t.freeze
               /\ \A s : s # "parked" => Listed(f.names, s) = Listed(t.names, s)
               /\ ~mixed => Live(f.names) = Live(t.names)
               /\ \A c \in Cells \ Swallowed(rec) :
                    /\ f.cells[c].text = b.cells[c].text
                    /\ IF rec.fmt.kind = "style" /\ c \in Span(rec.fmt.box)
                       THEN f.cells[c].style = rec.fmt.before[c]
                       ELSE f.cells[c].style = b.cells[c].style
  <1> DEFINE fmt == rec.fmt
             f == FmtUndone(b, fmt)
             Names(n) == SameNames(n, t.names, mixed)
             Is(x, m, n, w, z) == f.cells = x /\ f.merges = m /\ f.names = n /\ f.widths = w /\ f.freeze = z
  <1>1. IsCells(b.cells) /\ IsNames(b.names) /\ b.widths = [c \in Cells |-> b.widths[c]]
        /\ t.widths = [c \in Cells |-> t.widths[c]]
    BY DEF IsBook
  <1>2. fmt.kind # "name" => Names(b.names)
    BY <1>1 DEF Link, LinkListed, LinkSlots, SameNames
  <1>3. fmt.kind # "width" => b.widths = t.widths  BY DEF Link, LinkWidths
  <1>4. fmt.kind # "freeze" => b.freeze = t.freeze  BY DEF Link, LinkFreeze
  <1>5. fmt.kind \notin {"merge", "unmerge"} => b.merges = t.merges  BY DEF Link, LinkMerges
  <1> HIDE DEF Names
  <1>6. CASE fmt.kind = "style"
    <2> DEFINE x == Styled(b.cells, fmt.before, fmt.box)
    <2>1. f = Book(x, b.merges, b.names, b.widths, b.freeze)  BY <1>6, FmtUndoneIs
    <2>2. /\ IsCells(x)
          /\ \A c \in Cells : /\ x[c].text = b.cells[c].text
                              /\ c \notin Span(fmt.box) => x[c] = b.cells[c]
                              /\ c \in Span(fmt.box) => x[c].style = fmt.before[c]
      BY <1>1, StyledIs
    <2> HIDE DEF x, f
    <2>3. IsBook(f) /\ Is(x, b.merges, b.names, b.widths, b.freeze)  BY <1>1, <2>1, <2>2, BookParts
    <2> QED  BY <1>2, <1>3, <1>4, <1>5, <1>6, <2>2, <2>3 DEF f, Names, SameNames
  <1>7. CASE fmt.kind = "merge"
    <2> DEFINE left == {m \in b.merges : ~Meets(m, fmt.box)}
    <2>1. f = Book(b.cells, left, b.names, b.widths, b.freeze)  BY <1>7, FmtUndoneIs
    <2>2. /\ \A m \in t.merges : ~Meets(m, fmt.box)
          /\ IsBox(fmt.box) /\ b.merges = t.merges \cup {fmt.box}
      BY <1>7 DEF Link, LinkMerges
    <2>3. left = t.merges  BY <2>2, MeetsItself
    <2> HIDE DEF left, f
    <2>4. IsBook(f) /\ Is(b.cells, left, b.names, b.widths, b.freeze)  BY <1>1, <2>1, BookParts
    <2> QED  BY <1>2, <1>3, <1>4, <1>7, <2>3, <2>4 DEF f, Names, SameNames
  <1>8. CASE fmt.kind = "unmerge"
    <2> DEFINE x == Cleared(b.cells, Under(fmt.gone))
               all == b.merges \cup fmt.gone
    <2>1. f = Book(x, all, b.names, b.widths, b.freeze)  BY <1>8, FmtUndoneIs
    <2>2. IsCells(x) /\ \A c \in Cells : c \notin Under(fmt.gone) => x[c] = b.cells[c]  BY <1>1, ClearedIs
    <2>3. Swallowed(rec) = Under(fmt.gone)  BY <1>8 DEF Swallowed
    <2>4. all = t.merges  BY <1>8 DEF Link, LinkMerges
    <2> HIDE DEF x, all, f
    <2>5. IsBook(f) /\ Is(x, all, b.names, b.widths, b.freeze)  BY <1>1, <2>1, <2>2, BookParts
    <2> QED  BY <1>2, <1>3, <1>4, <1>8, <2>2, <2>3, <2>4, <2>5 DEF f, Names, SameNames
  <1>9. CASE fmt.kind = "width"
    <2> DEFINE w == [c \in Cells |-> IF c \in Span(fmt.box) THEN fmt.had[c] ELSE b.widths[c]]
    <2>1. f = Book(b.cells, b.merges, b.names, w, b.freeze)  BY <1>9, FmtUndoneIs
    <2>2. \A c \in Cells : w[c] = t.widths[c]  BY <1>9 DEF Link, LinkWidths
    <2>3. w = [c \in Cells |-> w[c]]  OBVIOUS
    <2> HIDE DEF w, f
    <2>4. w = t.widths  BY <1>1, <2>2, <2>3
    <2>5. IsBook(f) /\ Is(b.cells, b.merges, b.names, w, b.freeze)  BY <1>1, <2>1, <2>3, BookParts
    <2> QED  BY <1>2, <1>4, <1>5, <1>9, <2>4, <2>5 DEF f, Names, SameNames
  <1>10. CASE fmt.kind = "freeze"
    <2>1. f = Book(b.cells, b.merges, b.names, b.widths, fmt.before)  BY <1>10, FmtUndoneIs
    <2>2. fmt.before = t.freeze  BY <1>10 DEF Link, LinkFreeze
    <2> HIDE DEF f
    <2>3. IsBook(f) /\ Is(b.cells, b.merges, b.names, b.widths, fmt.before)  BY <1>1, <2>1, BookParts
    <2> QED  BY <1>2, <1>3, <1>5, <1>10, <2>2, <2>3 DEF f, Names, SameNames
  <1>11. CASE fmt.kind = "name"
    <2> DEFINE n == UndoneNames(b.names, fmt)
    <2>1. f = Book(b.cells, b.merges, n, b.widths, b.freeze)  BY <1>11, FmtUndoneIs DEF UndoneNames
    <2>2. Names(n)  BY <1>11, NamesUndone DEF Link, LinkNames, Names
    <2> HIDE DEF n, f
    <2>3. IsBook(f) /\ Is(b.cells, b.merges, n, b.widths, b.freeze)
      BY <1>1, <2>1, <2>2, BookParts DEF Names, SameNames
    <2> QED  BY <1>3, <1>4, <1>5, <1>11, <2>2, <2>3 DEF f, Names, SameNames
  <1>12. CASE fmt.kind \notin KindsKnown
    <2>1. f = b  BY <1>12, FmtUndoneIs DEF KindsKnown
    <2> HIDE DEF f
    <2> QED  BY <1>2, <1>3, <1>4, <1>5, <1>12, <2>1 DEF f, Names, SameNames, KindsKnown
  <1> QED  BY <1>6, <1>7, <1>8, <1>9, <1>10, <1>11, <1>12 DEF KindsKnown

(* Undone: the step back of a record leads to the sheet before it, but for *)
(* the formats of cells the record emptied and what it puts under merges.  *)
LEMMA UndoneIs ==
    ASSUME NEW rec, NEW t, NEW b, IsBook(t), IsBook(b), NEW gone, NEW under, NEW mixed,
           Link(rec, t, b, gone, under, mixed)
    PROVE  LET r == Undone(b, rec)
           IN  /\ IsBook(r)
               /\ Agrees(r, t, gone \cup Emptied(rec) \cup Swallowed(rec), under \cup Swallowed(rec), mixed)
  <1> DEFINE f == FmtUndone(b, rec.fmt)
             x == WriteAll(f.cells, rec.edits, "prev")
             r == Undone(b, rec)
  <1>1. /\ IsBook(f)
        /\ f.merges = t.merges /\ f.widths = t.widths /\ f.freeze = t.freeze
        /\ \A s : s # "parked" => Listed(f.names, s) = Listed(t.names, s)
        /\ ~mixed => Live(f.names) = Live(t.names)
        /\ \A c \in Cells \ Swallowed(rec) :
             /\ f.cells[c].text = b.cells[c].text
             /\ IF rec.fmt.kind = "style" /\ c \in Span(rec.fmt.box)
                THEN f.cells[c].style = rec.fmt.before[c]
                ELSE f.cells[c].style = b.cells[c].style
    BY FmtBack
  <1> HIDE DEF f
  <1>2. r = Book(x, f.merges, f.names, f.widths, f.freeze)  BY <1>1, WrittenIs DEF Undone, f
  <1>3. IsEdits(rec.edits) /\ LinkText(rec, t, b, under) /\ LinkStyle(rec, t, b, gone)  BY DEF Link
  <1>4. IsCells(f.cells) /\ IsNames(f.names) /\ f.widths = [c \in Cells |-> f.widths[c]]
    BY <1>1 DEF IsBook
  <1>5. /\ IsCells(x)
        /\ \A c \in Cells :
             /\ Of(rec.edits, c) = {} => x[c] = f.cells[c]
             /\ \A e \in Of(rec.edits, c) : /\ x[c].text = e["prev"]
                                            /\ e["prev"] # NoText => x[c].style = f.cells[c].style
    BY <1>3, <1>4, AfterEntries
  <1> HIDE DEF x, r
  <1>6. /\ IsBook(r) /\ r.cells = x /\ r.merges = f.merges /\ r.names = f.names
        /\ r.widths = f.widths /\ r.freeze = f.freeze
    BY <1>2, <1>4, <1>5, BookParts
  <1>7. ASSUME NEW c \in Cells \ (under \cup Swallowed(rec)) PROVE x[c].text = t.cells[c].text
    <2>1. CASE Of(rec.edits, c) = {}  BY <1>1, <1>3, <1>5, <2>1 DEF LinkText
    <2>2. CASE Of(rec.edits, c) # {}
      <3>1. PICK e \in Of(rec.edits, c) : TRUE  BY <2>2
      <3>2. x[c].text = e["prev"]  BY <1>5, <3>1
      <3>3. e.prev = t.cells[c].text  BY <1>3, <3>1 DEF LinkText
      <3> QED  BY <3>2, <3>3
    <2> QED  BY <2>1, <2>2
  <1>8. ASSUME NEW c \in Cells \ (gone \cup Emptied(rec) \cup Swallowed(rec))
        PROVE  x[c].style = t.cells[c].style
    <2>1. x[c].style = f.cells[c].style
      <3>1. CASE Of(rec.edits, c) = {}  BY <1>5, <3>1
      <3>2. CASE Of(rec.edits, c) # {}
        <4>1. PICK e \in Of(rec.edits, c) : TRUE  BY <3>2
        <4>2. e \in rec.edits /\ e.cell = c  BY <4>1 DEF Of
        <4>3. NoText \notin {e.prev, e.next}  BY <4>2 DEF Emptied
        <4> QED  BY <1>5, <4>1, <4>3
      <3> QED  BY <3>1, <3>2
    <2> QED  BY <1>1, <1>3, <2>1 DEF LinkStyle
  <1>9. Agrees(r, t, gone \cup Emptied(rec) \cup Swallowed(rec), under \cup Swallowed(rec), mixed)
    BY <1>1, <1>6, <1>7, <1>8 DEF Agrees
  <1> QED  BY <1>6, <1>9 DEF r

(* The format step forward.  What a merge clears is empty by then.         *)
Cut(rec, c) == rec.fmt.kind = "merge" /\ c \in Under({rec.fmt.box})

Forth(f, rec, w, u, mixed) ==
  /\ IsBook(f)
  /\ f.merges = u.merges /\ f.widths = u.widths /\ f.freeze = u.freeze
  /\ SameNames(f.names, u.names, mixed)
  /\ \A c \in Cells :
       /\ f.cells[c].text = IF Cut(rec, c) THEN NoText ELSE w.cells[c].text
       /\ ~Cut(rec, c) \/ w.cells[c].text = NoText =>
            IF rec.fmt.kind = "style" /\ c \in Span(rec.fmt.box)
            THEN f.cells[c].style = rec.fmt.after[c]
            ELSE f.cells[c].style = w.cells[c].style

LEMMA FmtForth ==
    ASSUME NEW rec, NEW b, NEW u, NEW w, IsBook(b), IsBook(u), NEW gone, NEW under, NEW mixed,
           Link(rec, b, u, gone, under, mixed),
           IsBook(w), w.merges = b.merges, w.names = b.names, w.widths = b.widths, w.freeze = b.freeze
    PROVE  Forth(FmtRedone(w, rec.fmt), rec, w, u, mixed)
  <1> DEFINE fmt == rec.fmt
             f == FmtRedone(w, fmt)
             Names(n) == SameNames(n, u.names, mixed)
             Is(x, m, n, y, z) == f.cells = x /\ f.merges = m /\ f.names = n /\ f.widths = y /\ f.freeze = z
  <1>1. IsCells(w.cells) /\ IsNames(w.names) /\ w.widths = [c \in Cells |-> w.widths[c]]
        /\ u.widths = [c \in Cells |-> u.widths[c]]
    BY DEF IsBook
  <1>2. fmt.kind # "name" => Names(w.names)
    BY <1>1 DEF Link, LinkListed, LinkSlots, SameNames
  <1>3. fmt.kind # "width" => w.widths = u.widths  BY DEF Link, LinkWidths
  <1>4. fmt.kind # "freeze" => w.freeze = u.freeze  BY DEF Link, LinkFreeze
  <1>5. fmt.kind \notin {"merge", "unmerge"} => w.merges = u.merges  BY DEF Link, LinkMerges
  <1> HIDE DEF Names
  <1>6. CASE fmt.kind = "style"
    <2> DEFINE x == Styled(w.cells, fmt.after, fmt.box)
    <2>1. f = Book(x, w.merges, w.names, w.widths, w.freeze)  BY <1>6, FmtRedoneIs
    <2>2. /\ IsCells(x)
          /\ \A c \in Cells : /\ x[c].text = w.cells[c].text
                              /\ c \notin Span(fmt.box) => x[c] = w.cells[c]
                              /\ c \in Span(fmt.box) => x[c].style = fmt.after[c]
      BY <1>1, StyledIs
    <2> HIDE DEF x, f
    <2>3. IsBook(f) /\ Is(x, w.merges, w.names, w.widths, w.freeze)  BY <1>1, <2>1, <2>2, BookParts
    <2> QED  BY <1>2, <1>3, <1>4, <1>5, <1>6, <2>2, <2>3 DEF f, Names, Cut, Forth
  <1>7. CASE fmt.kind = "merge"
    <2> DEFINE x == Cleared(w.cells, Under({fmt.box}))
               all == w.merges \cup {fmt.box}
    <2>1. f = Book(x, all, w.names, w.widths, w.freeze)  BY <1>7, FmtRedoneIs
    <2>2. /\ IsCells(x)
          /\ \A c \in Cells : /\ c \notin Under({fmt.box}) \/ w.cells[c].text = NoText => x[c] = w.cells[c]
                              /\ c \in Under({fmt.box}) => x[c].text = NoText
      BY <1>1, ClearedIs
    <2>3. all = u.merges  BY <1>7 DEF Link, LinkMerges
    <2> HIDE DEF x, all, f
    <2>4. IsBook(f) /\ Is(x, all, w.names, w.widths, w.freeze)  BY <1>1, <2>1, <2>2, BookParts
    <2> QED  BY <1>2, <1>3, <1>4, <1>7, <2>2, <2>3, <2>4 DEF f, Names, Cut, Forth
  <1>8. CASE fmt.kind = "unmerge"
    <2> DEFINE left == {m \in w.merges : ~Meets(m, fmt.box)}
    <2>1. f = Book(w.cells, left, w.names, w.widths, w.freeze)  BY <1>8, FmtRedoneIs
    <2>2. left = u.merges  BY <1>8 DEF Link, LinkMerges
    <2> HIDE DEF left, f
    <2>3. IsBook(f) /\ Is(w.cells, left, w.names, w.widths, w.freeze)  BY <1>1, <2>1, BookParts
    <2> QED  BY <1>2, <1>3, <1>4, <1>8, <2>2, <2>3 DEF f, Names, Cut, Forth
  <1>9. CASE fmt.kind = "width"
    <2> DEFINE y == [c \in Cells |-> IF c \in Span(fmt.box) THEN fmt.size ELSE w.widths[c]]
    <2>1. f = Book(w.cells, w.merges, w.names, y, w.freeze)  BY <1>9, FmtRedoneIs
    <2>2. \A c \in Cells : y[c] = u.widths[c]  BY <1>9 DEF Link, LinkWidths
    <2>3. y = [c \in Cells |-> y[c]]  OBVIOUS
    <2> HIDE DEF y, f
    <2>4. y = u.widths  BY <1>1, <2>2, <2>3
    <2>5. IsBook(f) /\ Is(w.cells, w.merges, w.names, y, w.freeze)  BY <1>1, <2>1, <2>3, BookParts
    <2> QED  BY <1>2, <1>4, <1>5, <1>9, <2>4, <2>5 DEF f, Names, Cut, Forth
  <1>10. CASE fmt.kind = "freeze"
    <2>1. f = Book(w.cells, w.merges, w.names, w.widths, fmt.after)  BY <1>10, FmtRedoneIs
    <2>2. fmt.after = u.freeze  BY <1>10 DEF Link, LinkFreeze
    <2> HIDE DEF f
    <2>3. IsBook(f) /\ Is(w.cells, w.merges, w.names, w.widths, fmt.after)  BY <1>1, <2>1, BookParts
    <2> QED  BY <1>2, <1>3, <1>5, <1>10, <2>2, <2>3 DEF f, Names, Cut, Forth
  <1>11. CASE fmt.kind = "name"
    <2> DEFINE n == RedoneNames(w.names, fmt)
    <2>1. f = Book(w.cells, w.merges, n, w.widths, w.freeze)  BY <1>11, FmtRedoneIs DEF RedoneNames
    <2>2. Names(n)
      <3>1. LinkNames(fmt, b, u, mixed)  BY DEF Link, LinkNames
      <3> QED  BY <1>11, <3>1, NamesRedone DEF Names
    <2> HIDE DEF n, f
    <2>3. IsBook(f) /\ Is(w.cells, w.merges, n, w.widths, w.freeze)
      BY <1>1, <2>1, <2>2, BookParts DEF Names, SameNames
    <2> QED  BY <1>3, <1>4, <1>5, <1>11, <2>2, <2>3 DEF f, Names, Cut, Forth
  <1>12. CASE fmt.kind \notin KindsKnown
    <2>1. f = w  BY <1>12, FmtRedoneIs DEF KindsKnown
    <2> HIDE DEF f
    <2> QED  BY <1>2, <1>3, <1>4, <1>5, <1>12, <2>1 DEF f, Names, Cut, Forth, KindsKnown
  <1> QED  BY <1>6, <1>7, <1>8, <1>9, <1>10, <1>11, <1>12 DEF KindsKnown

LEMMA RedoneIs ==
    ASSUME NEW rec, NEW b, NEW u, IsBook(b), IsBook(u), NEW gone, NEW under, under \subseteq gone,
           NEW mixed, Link(rec, b, u, gone, under, mixed)
    PROVE  LET r == Redone(b, rec)
           IN  /\ IsBook(r)
               /\ Agrees(r, u, gone \cup Emptied(rec) \cup Swallowed(rec), under \cup Swallowed(rec), mixed)
  <1> DEFINE x == WriteAll(b.cells, rec.edits, "next")
             w == Written(b, rec.edits, "next")
             r == Redone(b, rec)
  <1>1. IsEdits(rec.edits) /\ LinkText(rec, b, u, under) /\ LinkStyle(rec, b, u, gone)  BY DEF Link
  <1>2. IsCells(b.cells) /\ IsNames(b.names) /\ b.widths = [c \in Cells |-> b.widths[c]]
    BY DEF IsBook
  <1>3. /\ IsCells(x)
        /\ \A c \in Cells :
             /\ Of(rec.edits, c) = {} => x[c] = b.cells[c]
             /\ \A e \in Of(rec.edits, c) : /\ x[c].text = e["next"]
                                            /\ e["next"] # NoText => x[c].style = b.cells[c].style
    BY <1>1, <1>2, AfterEntries
  <1>4. w = Book(x, b.merges, b.names, b.widths, b.freeze)  BY WrittenIs
  <1> HIDE DEF x, w, r
  <1>5. /\ IsBook(w) /\ w.cells = x /\ w.merges = b.merges /\ w.names = b.names
        /\ w.widths = b.widths /\ w.freeze = b.freeze
    BY <1>2, <1>3, <1>4, BookParts
  <1>6. r = FmtRedone(w, rec.fmt)  BY DEF r, w, Redone
  <1>7. Forth(r, rec, w, u, mixed)  BY <1>5, <1>6, FmtForth
  <1>8. ASSUME NEW c \in Cells \ under PROVE x[c].text = u.cells[c].text /\ (Cut(rec, c) => u.cells[c].text = NoText)
    <2>1. Cut(rec, c) => u.cells[c].text = NoText  BY <1>1 DEF LinkText, Cut
    <2>2. CASE Of(rec.edits, c) = {}  BY <1>1, <1>3, <2>1, <2>2 DEF LinkText
    <2>3. CASE Of(rec.edits, c) # {}
      <3>1. PICK e \in Of(rec.edits, c) : TRUE  BY <2>3
      <3>2. x[c].text = e["next"]  BY <1>3, <3>1
      <3>3. e.next = u.cells[c].text  BY <1>1, <3>1 DEF LinkText
      <3> QED  BY <2>1, <3>2, <3>3
    <2> QED  BY <2>2, <2>3
  <1>9. \A c \in Cells \ under : r.cells[c].text = u.cells[c].text  BY <1>5, <1>7, <1>8 DEF Forth
  <1>10. ASSUME NEW c \in Cells \ (gone \cup Emptied(rec)) PROVE r.cells[c].style = u.cells[c].style
    <2>1. x[c].style = b.cells[c].style
      <3>1. CASE Of(rec.edits, c) = {}  BY <1>3, <3>1
      <3>2. CASE Of(rec.edits, c) # {}
        <4>1. PICK e \in Of(rec.edits, c) : TRUE  BY <3>2
        <4>2. e \in rec.edits /\ e.cell = c  BY <4>1 DEF Of
        <4>3. NoText \notin {e.prev, e.next}  BY <4>2 DEF Emptied
        <4> QED  BY <1>3, <4>1, <4>3
      <3> QED  BY <3>1, <3>2
    <2>2. ~Cut(rec, c) \/ x[c].text = NoText  BY <1>8
    <2>3. IF rec.fmt.kind = "style" /\ c \in Span(rec.fmt.box)
          THEN r.cells[c].style = rec.fmt.after[c]
          ELSE r.cells[c].style = x[c].style
      BY <1>5, <1>7, <2>2 DEF Forth
    <2> QED  BY <1>1, <2>1, <2>3 DEF LinkStyle
  <1>11. Agrees(r, u, gone \cup Emptied(rec) \cup Swallowed(rec), under \cup Swallowed(rec), mixed)
    BY <1>7, <1>9, <1>10 DEF Agrees, Forth, SameNames
  <1> QED  BY <1>7, <1>11 DEF r, Forth

LEMMA EmptyTable == IsTable(<<>>) /\ Len(<<>>) = 0
  BY DEF IsTable

LEMMA OneRow == ASSUME NEW x PROVE IsTable(<<x>>) /\ Len(<<x>>) = 1 /\ <<x>>[1] = x
  <1> DEFINE t == <<x>>
  <1>1. t = Append(<<>>, x)  OBVIOUS
  <1> HIDE DEF t
  <1>2. IsTable(t) /\ Len(t) = 1 /\ t[1] = x
    <2> DEFINE e == <<>>
    <2>1. IsTable(e) /\ Len(e) = 0  BY EmptyTable
    <2>2. t = Append(e, x)  BY <1>1
    <2> HIDE DEF e
    <2>3. IsTable(t) /\ Len(t) = Len(e) + 1 /\ t[Len(e) + 1] = x  BY <2>1, <2>2, Appended
    <2> QED  BY <2>1, <2>3
  <1> QED  BY <1>2 DEF t

LEMMA TableCut ==
    ASSUME NEW s, IsTable(s), NEW n \in 0..Len(s)
    PROVE  LET t == SubSeq(s, 1, n)
           IN  /\ IsTable(t) /\ Len(t) = n
               /\ \A i \in 1..n : t[i] = s[i]
  <1> DEFINE t == SubSeq(s, 1, n)
             old == {s[j] : j \in 1..Len(s)}
             new == {t[j] : j \in 1..Len(t)}
  <1>1. s \in Seq(old) /\ Len(s) \in Nat  BY TableLength DEF IsTable
  <1>2. t \in Seq(old) /\ Len(t) = n /\ \A i \in 1..n : t[i] = s[i]  BY <1>1
  <1> HIDE DEF t, old
  <1>3. \A i \in 1..Len(t) : t[i] \in new  OBVIOUS
  <1> HIDE DEF new
  <1>4. t \in Seq(new)  BY <1>2, <1>3, Narrowed
  <1> QED  BY <1>2, <1>4 DEF IsTable, t, new

LEMMA TableTail ==
    ASSUME NEW s, IsTable(s), s # <<>>
    PROVE  LET t == Tail(s)
           IN  /\ IsTable(t) /\ Len(s) \in Nat \ {0} /\ Len(t) = Len(s) - 1
               /\ \A i \in 1..Len(t) : t[i] = s[i + 1]
  <1> DEFINE t == Tail(s)
             old == {s[j] : j \in 1..Len(s)}
             new == {t[j] : j \in 1..Len(t)}
  <1>1. s \in Seq(old) /\ Len(s) \in Nat  BY TableLength DEF IsTable
  <1>2. Len(s) # 0  BY <1>1
  <1>3. t \in Seq(old) /\ Len(t) = Len(s) - 1 /\ \A i \in 1..Len(t) : t[i] = s[i + 1]  BY <1>1, <1>2
  <1> HIDE DEF t, old
  <1>4. \A i \in 1..Len(t) : t[i] \in new  OBVIOUS
  <1> HIDE DEF new
  <1>5. t \in Seq(new)  BY <1>3, <1>4, Narrowed
  <1> QED  BY <1>1, <1>2, <1>3, <1>5 DEF IsTable, t, new

WithTwo(s, a, b) == s \o <<a, b>>

LEMMA TwoMore ==
    ASSUME NEW s, IsTable(s), NEW a, NEW b
    PROVE  LET t == WithTwo(s, a, b)
           IN  /\ IsTable(t) /\ Len(t) = Len(s) + 2
               /\ \A i \in 1..Len(s) : t[i] = s[i]
               /\ t[Len(s) + 1] = a /\ t[Len(s) + 2] = b
  <1> DEFINE old == {s[j] : j \in 1..Len(s)}
             t == WithTwo(s, a, b)
             new == {t[j] : j \in 1..Len(t)}
  <1>1. s \in Seq(old \cup {a, b}) /\ Len(s) \in Nat  BY TableLength DEF IsTable
  <1>2. <<a, b>> \in Seq(old \cup {a, b}) /\ Len(<<a, b>>) = 2  OBVIOUS
  <1>3. /\ t \in Seq(old \cup {a, b}) /\ Len(t) = Len(s) + 2
        /\ \A i \in 1..Len(s) : t[i] = s[i]
        /\ t[Len(s) + 1] = a /\ t[Len(s) + 2] = b
    BY <1>1, <1>2 DEF WithTwo
  <1> HIDE DEF old, t
  <1>4. \A i \in 1..Len(t) : t[i] \in new  OBVIOUS
  <1> HIDE DEF new
  <1>5. t \in Seq(new)  BY <1>3, <1>4, Narrowed
  <1>6. IsTable(t)  BY <1>5, Zenon DEF IsTable, new
  <1> QED  BY <1>3, <1>6 DEF t

-----------------------------------------------------------------------------
LEMMA AgreesWithItself == ASSUME NEW b, NEW gone, NEW under, NEW mixed PROVE Agrees(b, b, gone, under, mixed)
  BY DEF Agrees

LEMMA Lessened ==
    ASSUME Trails, lost \subseteq lost', buried \subseteq buried', crossed => crossed',
           NEW o, Agrees(o, trail[cursor + 1], lost, buried, crossed)
    PROVE  /\ \A i \in 1..Len(journal) : Link(journal[i], trail[i], trail[i + 1], lost', buried', crossed')
           /\ Agrees(o, trail[cursor + 1], lost', buried', crossed')
  <1>1. \A i \in 1..Len(journal) : Link(journal[i], trail[i], trail[i + 1], lost', buried', crossed')
    BY LinkLess DEF Trails
  <1>2. Agrees(o, trail[cursor + 1], lost', buried', crossed')  BY AgreesLess
  <1> QED  BY <1>1, <1>2

(* A step is recorded, of the sheet o that the journal had come to.        *)
LEMMA Recorded ==
    ASSUME Trails, NEW o, IsBook(o), Agrees(o, trail[cursor + 1], lost, buried, crossed),
           NEW after, IsBook(after), NEW rec, Link(rec, o, after, lost', buried', crossed'),
           lost \subseteq lost', buried \subseteq buried', crossed => crossed',
           journal' = Append(SubSeq(journal, 1, cursor), rec),
           cursor' = cursor + 1,
           trail' = SubSeq(trail, 1, cursor) \o <<o, after>>
    PROVE  Trails' /\ Agrees(after, trail'[cursor' + 1], lost', buried', crossed')
  <1> DEFINE j == SubSeq(journal, 1, cursor)
             t == SubSeq(trail, 1, cursor)
  <1>1. /\ IsTable(trail) /\ IsTable(journal) /\ Len(trail) = Len(journal) + 1 /\ cursor \in 0..Len(journal)
        /\ \A i \in 1..Len(trail) : IsBook(trail[i])
    BY DEF Trails
  <1>0. /\ \A i \in 1..Len(journal) : Link(journal[i], trail[i], trail[i + 1], lost', buried', crossed')
        /\ Agrees(o, trail[cursor + 1], lost', buried', crossed')
    BY Lessened
  <1>2. Len(journal) \in Nat /\ cursor \in 0..Len(trail)  BY <1>1, TableLength
  <1>3. IsTable(j) /\ Len(j) = cursor /\ \A i \in 1..cursor : j[i] = journal[i]  BY <1>1, <1>2, TableCut
  <1>4. IsTable(t) /\ Len(t) = cursor /\ \A i \in 1..cursor : t[i] = trail[i]  BY <1>1, <1>2, TableCut
  <1> HIDE DEF j, t
  <1>5. journal' = Append(j, rec) /\ trail' = WithTwo(t, o, after)  BY DEF j, t, WithTwo
  <1>6. /\ IsTable(journal') /\ Len(journal') = cursor + 1
        /\ (\A i \in 1..cursor : journal'[i] = journal[i]) /\ journal'[cursor + 1] = rec
    <2>1. /\ IsTable(journal') /\ Len(journal') = Len(j) + 1
          /\ (\A i \in 1..Len(j) : journal'[i] = j[i]) /\ journal'[Len(j) + 1] = rec
      <3> DEFINE n == Append(j, rec)
      <3>1. /\ IsTable(n) /\ Len(n) = Len(j) + 1
            /\ (\A i \in 1..Len(j) : n[i] = j[i]) /\ n[Len(j) + 1] = rec
        BY <1>3, Appended
      <3>2. journal' = n  BY <1>5
      <3> HIDE DEF n
      <3> QED  BY <3>1, <3>2
    <2> QED  BY <1>3, <2>1
  <1>7. /\ IsTable(trail') /\ Len(trail') = cursor + 2
        /\ (\A i \in 1..cursor : trail'[i] = trail[i])
        /\ trail'[cursor + 1] = o /\ trail'[cursor + 2] = after
    <2>1. /\ IsTable(trail') /\ Len(trail') = Len(t) + 2
          /\ (\A i \in 1..Len(t) : trail'[i] = t[i])
          /\ trail'[Len(t) + 1] = o /\ trail'[Len(t) + 2] = after
      <3> DEFINE n == WithTwo(t, o, after)
      <3>1. /\ IsTable(n) /\ Len(n) = Len(t) + 2
            /\ (\A i \in 1..Len(t) : n[i] = t[i]) /\ n[Len(t) + 1] = o /\ n[Len(t) + 2] = after
        BY <1>4, TwoMore
      <3>2. trail' = n  BY <1>5
      <3> HIDE DEF n
      <3> QED  BY <3>1, <3>2
    <2> QED  BY <1>4, <2>1
  <1>8. ASSUME NEW i \in 1..Len(trail') PROVE IsBook(trail'[i])
    <2>1. i \in 1..cursor \/ i = cursor + 1 \/ i = cursor + 2  BY <1>2, <1>7
    <2>2. CASE i \in 1..cursor
      <3>1. trail'[i] = trail[i] /\ i \in 1..Len(trail)  BY <1>1, <1>2, <1>7, <2>2
      <3> QED  BY <1>1, <3>1
    <2> QED  BY <1>7, <2>1, <2>2
  <1>9. ASSUME NEW i \in 1..Len(journal')
        PROVE  Link(journal'[i], trail'[i], trail'[i + 1], lost', buried', crossed')
    <2>1. i \in 1..(cursor - 1) \/ (i = cursor /\ cursor > 0) \/ i = cursor + 1  BY <1>2, <1>6
    <2>2. CASE i \in 1..(cursor - 1)
      <3>1. i \in 1..cursor /\ i + 1 \in 1..cursor /\ i \in 1..Len(journal)  BY <1>1, <1>2, <2>2
      <3>2. journal'[i] = journal[i] /\ trail'[i] = trail[i] /\ trail'[i + 1] = trail[i + 1]
        BY <1>6, <1>7, <3>1
      <3>3. Link(journal[i], trail[i], trail[i + 1], lost', buried', crossed')  BY <1>0, <3>1
      <3> QED  BY <3>2, <3>3, Zenon
    <2>3. CASE i = cursor /\ cursor > 0
      <3>1. i \in 1..cursor /\ i \in 1..Len(journal)  BY <1>1, <1>2, <2>3
      <3>2. journal'[i] = journal[i] /\ trail'[i] = trail[i] /\ trail'[i + 1] = o
        BY <1>6, <1>7, <2>3, <3>1
      <3>3. Link(journal[i], trail[i], trail[cursor + 1], lost', buried', crossed')  BY <1>0, <2>3, <3>1
      <3>4. Link(journal[i], trail[i], o, lost', buried', crossed')  BY <1>0, <3>3, LinkAfter, Zenon
      <3> QED  BY <3>2, <3>4, Zenon
    <2>4. CASE i = cursor + 1
      <3>1. i + 1 = cursor + 2  BY <1>2, <2>4
      <3>2. journal'[i] = rec /\ trail'[i] = o /\ trail'[i + 1] = after  BY <1>6, <1>7, <2>4, <3>1
      <3> QED  BY <3>2
    <2> QED  BY <2>1, <2>2, <2>3, <2>4
  <1>10. Len(trail') = Len(journal') + 1 /\ cursor' \in 0..Len(journal')  BY <1>2, <1>6, <1>7
  <1>11. Trails'  BY <1>6, <1>7, <1>8, <1>9, <1>10 DEF Trails
  <1>12. trail'[cursor' + 1] = after
    <2>1. cursor' + 1 = cursor + 2  BY <1>2
    <2> QED  BY <1>7, <2>1
  <1> QED  BY <1>11, <1>12, AgreesWithItself

(* The journal stays, and less may be promised of it.                      *)
LEMMA TrailsKept ==
    ASSUME Trails, UNCHANGED <<trail, journal>>, cursor' \in 0..Len(journal),
           lost \subseteq lost', buried \subseteq buried', crossed => crossed'
    PROVE  Trails'
  <1>1. \A i \in 1..Len(journal) : Link(journal[i], trail[i], trail[i + 1], lost', buried', crossed')
    BY LinkLess DEF Trails
  <1> QED  BY <1>1 DEF Trails

LEMMA InitTrail == Init => TrailInv
  <1> SUFFICES ASSUME Init PROVE TrailInv  OBVIOUS
  <1>1. PICK file \in Files :
          book = [cells |-> file[2].cells, merges |-> file[2].merges, names |-> file[2].names,
                  widths |-> [c \in Cells |-> 0], freeze |-> 0]
    BY Zenon DEF Init
  <1>2. /\ task = Idle /\ journal = <<>> /\ cursor = 0 /\ trail = <<book>>
        /\ lost = {} /\ buried = {} /\ crossed = FALSE
    BY Zenon DEF Init
  <1>3. IsBook(book)
    <2> DEFINE cells == file[2].cells
               names == file[2].names
    <2>1. /\ cells = [c \in Cells |-> [text |-> cells[c].text, style |-> cells[c].style]]
          /\ IsTable(names)
          /\ \A k \in 1..Len(names) : names[k] = [scope |-> names[k].scope, target |-> names[k].target]
          /\ \A j, k \in 1..Len(names) : names[j].scope = names[k].scope => j = k
      BY SheetAssumption DEF Cells
    <2>2. IsNames(names)  BY <2>1 DEF IsNames
    <2>3. IsCells(cells)
      <3> HIDE DEF cells
      <3>1. \A c \in Cells : cells[c] = [text |-> cells[c].text, style |-> cells[c].style]  BY <2>1
      <3>2. cells = [c \in Cells |-> cells[c]]  BY <2>1
      <3> QED  BY <3>1, <3>2 DEF IsCells, IsCell
    <2> DEFINE w == [c \in Cells |-> 0]
    <2>4. w = [c \in Cells |-> w[c]]  OBVIOUS
    <2>5. book = Book(cells, file[2].merges, names, w, 0)  BY <1>1 DEF Book
    <2> HIDE DEF cells, names, w
    <2> QED  BY <2>2, <2>3, <2>4, <2>5, BookParts
  <1>4. Trails
    <2>1. IsTable(trail) /\ Len(trail) = 1 /\ trail[1] = book  BY <1>2, OneRow
    <2>2. IsTable(journal) /\ Len(journal) = 0  BY <1>2, EmptyTable
    <2>3. cursor \in 0..Len(journal)  BY <1>2, <2>2
    <2>4. \A i \in 1..Len(journal) : FALSE  BY <2>2
    <2>5. \A i \in 1..Len(trail) : IsBook(trail[i])  BY <1>3, <2>1
    <2> QED  BY <2>1, <2>2, <2>3, <2>4, <2>5 DEF Trails
  <1>5. AtCursor
    <2>1. trail[cursor + 1] = book /\ Origin = book
      <3>1. trail[1] = book  BY <1>2, OneRow
      <3>2. cursor + 1 = 1  BY <1>2
      <3> QED  BY <1>2, <3>1, <3>2 DEF Origin
    <2> QED  BY <1>3, <2>1, AgreesWithItself DEF AtCursor
  <1> QED  BY <1>2, <1>4, <1>5 DEF TrailInv, Doing

-----------------------------------------------------------------------------
(* The verbs                                                               *)

(* A step of the journal is taken with nothing else under way.             *)
LEMMA StepTaken ==
    ASSUME TrailInv, task = Idle, task' = task, NEW rec, NEW after, Record(rec, after), IsBook(after),
           Link(rec, book, after, lost', buried', crossed'),
           lost \subseteq lost', buried \subseteq buried', buried' \subseteq lost',
           crossed => crossed', crossed' \in BOOLEAN
    PROVE  TrailInv'
  <1>1. Trails /\ IsBook(book) /\ Agrees(book, trail[cursor + 1], lost, buried, crossed)
    BY DEF TrailInv, AtCursor, Origin
  <1>2. /\ journal' = Append(SubSeq(journal, 1, cursor), rec) /\ cursor' = cursor + 1
        /\ trail' = SubSeq(trail, 1, cursor) \o <<book, after>> /\ book' = after
    BY DEF Record
  <1>3. Trails' /\ Agrees(after, trail'[cursor' + 1], lost', buried', crossed')
    BY <1>1, <1>2, Recorded
  <1>4. AtCursor'  BY <1>2, <1>3 DEF AtCursor, Origin
  <1>5. Doing'  BY DEF Doing
  <1> QED  BY <1>3, <1>4, <1>5 DEF TrailInv

LEMMA Committed ==
    ASSUME TrailInv, task = Idle, NEW rec, NEW after, Commit(rec, after), IsBook(after),
           Link(rec, book, after, lost, buried, crossed)
    PROVE  TrailInv'
  <1>1. Record(rec, after) /\ task' = task /\ lost' = lost /\ buried' = buried /\ crossed' = crossed
    BY DEF Commit
  <1>2. buried \subseteq lost /\ crossed \in BOOLEAN  BY DEF TrailInv
  <1>3. Link(rec, book, after, lost', buried', crossed')  BY <1>1
  <1> QED  BY <1>1, <1>2, <1>3, StepTaken

-----------------------------------------------------------------------------
(* What a step leaves alone it need not record.                            *)
LEMMA LeftAlone ==
    ASSUME NEW fmt, NEW t, NEW u, NEW mixed
    PROVE  /\ fmt.kind \notin {"merge", "unmerge"} /\ u.merges = t.merges => LinkMerges(fmt, t, u)
           /\ fmt.kind # "width" /\ u.widths = t.widths => LinkWidths(fmt, t, u)
           /\ fmt.kind # "freeze" /\ u.freeze = t.freeze => LinkFreeze(fmt, t, u)
           /\ fmt.kind # "name" /\ u.names = t.names => LinkNames(fmt, t, u, mixed)
  BY DEF LinkMerges, LinkWidths, LinkFreeze, LinkNames, LinkListed, LinkSlots

LEMMA NoEntries ==
    ASSUME NEW rec, rec.edits = {}, rec.fmt.kind \notin {"style", "merge"}, NEW t, NEW u,
           u.cells = t.cells, NEW gone, NEW under
    PROVE  IsEdits(rec.edits) /\ LinkText(rec, t, u, under) /\ LinkStyle(rec, t, u, gone)
  BY DEF IsEdits, LinkText, LinkStyle, Of

LEMMA LinkIs ==
    ASSUME NEW rec, NEW t, NEW u, NEW gone, NEW under, NEW mixed,
           IsEdits(rec.edits), LinkText(rec, t, u, under), LinkStyle(rec, t, u, gone),
           LinkMerges(rec.fmt, t, u), LinkWidths(rec.fmt, t, u), LinkFreeze(rec.fmt, t, u),
           LinkNames(rec.fmt, t, u, mixed)
    PROVE  Link(rec, t, u, gone, under, mixed)
  BY DEF Link, LinkNames

LEMMA SetCellTrail == ASSUME TrailInv, NEW c \in Cells, NEW text, SetCell(c, text) PROVE TrailInv'
  <1> DEFINE edit == [cell |-> c, prev |-> book.cells[c].text, next |-> text]
             rec == [fmt |-> None, edits |-> {edit}]
             x == [book.cells EXCEPT ![c] = Entered(@, text)]
             after == [book EXCEPT !.cells[c] = Entered(@, text)]
  <1>1. task = Idle /\ Commit(rec, after)  BY DEF SetCell, Ready
  <1>2. IsBook(book) /\ IsCells(book.cells) /\ IsNames(book.names)
        /\ book.widths = [i \in Cells |-> book.widths[i]]
    BY DEF TrailInv, AtCursor, IsBook
  <1>3. after = Book(x, book.merges, book.names, book.widths, book.freeze)
    BY <1>2 DEF IsBook, Book
  <1>4. /\ IsCell(x[c]) /\ x[c].text = text /\ (text # NoText => x[c].style = book.cells[c].style)
        /\ \A d \in Cells : d # c => x[d] = book.cells[d]
    <2>1. x[c] = Entered(book.cells[c], text)  BY <1>2 DEF IsCells
    <2>2. IsCell(book.cells[c])  BY <1>2 DEF IsCells
    <2>3. /\ IsCell(x[c]) /\ x[c].text = text
          /\ text # NoText => x[c].style = book.cells[c].style
      BY <2>1, <2>2, EnteredIs
    <2>4. \A d \in Cells : d # c => x[d] = book.cells[d]  BY <1>2 DEF IsCells
    <2> QED  BY <2>3, <2>4
  <1>5. IsCells(x)
    <2>1. x = [d \in Cells |-> x[d]]  BY <1>2 DEF IsCells
    <2>2. \A d \in Cells : IsCell(x[d])  BY <1>2, <1>4 DEF IsCells
    <2> HIDE DEF x
    <2> QED  BY <2>1, <2>2 DEF IsCells
  <1> HIDE DEF x, after
  <1>6. /\ IsBook(after) /\ after.cells = x /\ after.merges = book.merges /\ after.names = book.names
        /\ after.widths = book.widths /\ after.freeze = book.freeze
    BY <1>2, <1>3, <1>5, BookParts
  <1>7. /\ rec.fmt.kind \notin KindsKnown /\ rec.edits = {edit}
        /\ edit.cell = c /\ edit.prev = book.cells[c].text /\ edit.next = text
    BY DEF None, KindsKnown
  <1> HIDE DEF rec, edit
  <1>8. IsEdits(rec.edits)  BY <1>7 DEF IsEdits
  <1>9. \A d \in Cells : Of(rec.edits, d) = IF d = c THEN {edit} ELSE {}  BY <1>7 DEF Of
  <1>10. LinkText(rec, book, after, buried)  BY <1>4, <1>6, <1>7, <1>9 DEF LinkText, KindsKnown
  <1>11. LinkStyle(rec, book, after, lost)
    <2>1. text = NoText => c \in Emptied(rec)  BY <1>7 DEF Emptied
    <2> QED  BY <1>4, <1>6, <1>7, <2>1 DEF LinkStyle, KindsKnown
  <1>12. Link(rec, book, after, lost, buried, crossed)
    BY <1>6, <1>7, <1>8, <1>10, <1>11, LeftAlone, LinkIs DEF KindsKnown
  <1>13. Commit(rec, after)  BY <1>1 DEF rec, edit, after
  <1> QED  BY <1>1, <1>6, <1>12, <1>13, Committed

LEMMA BookIs ==
    ASSUME TrailInv
    PROVE  /\ IsBook(book) /\ IsCells(book.cells) /\ IsNames(book.names)
           /\ book.widths = [i \in Cells |-> book.widths[i]]
  BY DEF TrailInv, AtCursor, IsBook

LEMMA InSheet ==
    ASSUME NEW box \in Selections \cup Framed \cup Named
    PROVE  IsBox(box) /\ Span(box) \in SUBSET Cells
  <1>1. box[1] \in 1..NumCells /\ box[2] \in box[1]..NumCells /\ NumCells \in Nat \ {0}
    BY FormatAssumption
  <1> QED  BY <1>1 DEF IsBox, Span, Cells

LEMMA UnmergeTrail == ASSUME TrailInv, NEW box \in Selections, UnmergeTarget(box) PROVE TrailInv'
  <1> DEFINE fmt == [kind |-> "unmerge", box |-> box, gone |-> {m \in book.merges : Meets(m, box)}]
             rec == [fmt |-> fmt, edits |-> {}]
             left == {m \in book.merges : ~Meets(m, box)}
             after == Unmerged(book, box)
  <1>1. task = Idle /\ Commit(rec, after)  BY DEF UnmergeTarget, Ready
  <1>2. after = Book(book.cells, left, book.names, book.widths, book.freeze)
    BY BookIs, BookWith DEF Unmerged
  <1> HIDE DEF after
  <1>3. /\ IsBook(after) /\ after.cells = book.cells /\ after.merges = left /\ after.names = book.names
        /\ after.widths = book.widths /\ after.freeze = book.freeze
    BY <1>2, BookIs, BookParts
  <1>4. LinkMerges(fmt, book, after)  BY <1>3 DEF LinkMerges
  <1>5. rec.fmt = fmt /\ fmt.kind = "unmerge" /\ rec.edits = {}  OBVIOUS
  <1> HIDE DEF fmt, rec
  <1>6. Link(rec, book, after, lost, buried, crossed)
    BY <1>3, <1>4, <1>5, NoEntries, LeftAlone, LinkIs
  <1>7. Commit(rec, after)  BY <1>1 DEF rec, fmt
  <1> QED  BY <1>1, <1>3, <1>6, <1>7, Committed

LEMMA WidthTrail ==
    ASSUME TrailInv, NEW box \in Selections, NEW width \in Widths, SetColumnWidth(box, width) PROVE TrailInv'
  <1> DEFINE fmt == [kind |-> "width", box |-> box, size |-> width,
                     had |-> [c \in Span(box) |-> book.widths[c]]]
             rec == [fmt |-> fmt, edits |-> {}]
             w == [c \in Cells |-> IF c \in Span(box) THEN width ELSE book.widths[c]]
             after == Sized(book, box, width)
  <1>1. task = Idle /\ Commit(rec, after)  BY DEF SetColumnWidth, Ready
  <1>2. after = Book(book.cells, book.merges, book.names, w, book.freeze)
    <2>1. after = [book EXCEPT !.widths = w]  BY DEF Sized
    <2> HIDE DEF w, after
    <2> QED  BY <2>1, BookIs, BookWith
  <1> HIDE DEF after
  <1>3. w = [c \in Cells |-> w[c]]
        /\ \A c \in Cells : w[c] = IF c \in Span(box) THEN width ELSE book.widths[c]
    OBVIOUS
  <1> HIDE DEF w
  <1>4. /\ IsBook(after) /\ after.cells = book.cells /\ after.merges = book.merges
        /\ after.names = book.names /\ after.widths = w /\ after.freeze = book.freeze
    BY <1>2, <1>3, BookIs, BookParts
  <1>5. LinkWidths(fmt, book, after)  BY <1>3, <1>4 DEF LinkWidths
  <1>6. rec.fmt = fmt /\ fmt.kind = "width" /\ rec.edits = {}  OBVIOUS
  <1> HIDE DEF fmt, rec
  <1>7. Link(rec, book, after, lost, buried, crossed)
    BY <1>4, <1>5, <1>6, NoEntries, LeftAlone, LinkIs
  <1>8. Commit(rec, after)  BY <1>1 DEF rec, fmt
  <1> QED  BY <1>1, <1>4, <1>7, <1>8, Committed

LEMMA FreezeTrail == ASSUME TrailInv, NEW c, ToggleFreeze(c) PROVE TrailInv'
  <1> DEFINE at == IF book.freeze > 0 THEN 0 ELSE c - 1
             fmt == [kind |-> "freeze", before |-> book.freeze, after |-> at]
             rec == [fmt |-> fmt, edits |-> {}]
             after == [book EXCEPT !.freeze = at]
  <1>1. task = Idle /\ Commit(rec, after)  BY DEF ToggleFreeze, Ready
  <1> HIDE DEF at
  <1>2. after = Book(book.cells, book.merges, book.names, book.widths, at)
    BY BookIs, BookWith
  <1> HIDE DEF after
  <1>3. /\ IsBook(after) /\ after.cells = book.cells /\ after.merges = book.merges
        /\ after.names = book.names /\ after.widths = book.widths /\ after.freeze = at
    BY <1>2, BookIs, BookParts
  <1>4. LinkFreeze(fmt, book, after)  BY <1>3 DEF LinkFreeze
  <1>5. rec.fmt = fmt /\ fmt.kind = "freeze" /\ rec.edits = {}  OBVIOUS
  <1> HIDE DEF fmt, rec
  <1>6. Link(rec, book, after, lost, buried, crossed)
    BY <1>3, <1>4, <1>5, NoEntries, LeftAlone, LinkIs
  <1>7. Commit(rec, after)  BY <1>1 DEF rec, fmt, after
  <1> QED  BY <1>1, <1>3, <1>6, <1>7, Committed

LEMMA MergeTrail == ASSUME TrailInv, NEW box \in Selections, MergeTarget(box) PROVE TrailInv'
  <1> DEFINE fmt == [kind |-> "merge", box |-> box]
             edits == MergeEdits(book, box)
             rec == [fmt |-> fmt, edits |-> edits]
             under == Under({box})
             x == Cleared(book.cells, under)
             all == book.merges \cup {box}
             after == Merged(book, {box})
  <1>1. task = Idle /\ CanMerge(book, box) /\ Commit(rec, after)  BY DEF MergeTarget, Ready
  <1>2. IsBox(box) /\ under \in SUBSET Cells /\ edits = Clears(book.cells, under)
    <2>1. IsBox(box) /\ NumCells \in Nat  BY InSheet, FormatAssumption
    <2>2. under = (box[1] + 1)..box[2]  BY DEF Under
    <2>3. edits = Clears(book.cells, under)  BY <2>2 DEF MergeEdits, Clearing, Span
    <2> QED  BY <2>1, <2>2, <2>3 DEF IsBox, Cells
  <1>3. after = Book(x, all, book.names, book.widths, book.freeze)
    <2>1. after = [book EXCEPT !.cells = x, !.merges = all]  BY DEF Merged
    <2> HIDE DEF after, x, all
    <2> QED  BY <2>1, BookIs DEF IsBook, Book
  <1>4. /\ IsCells(x)
        /\ \A c \in Cells : /\ c \notin under \/ book.cells[c].text = NoText => x[c] = book.cells[c]
                            /\ c \in under => x[c].text = NoText
    BY BookIs, ClearedIs
  <1>5. /\ IsEdits(edits)
        /\ \A c \in Cells :
             /\ c \in under /\ book.cells[c].text # NoText <=> Of(edits, c) # {}
             /\ \A e \in Of(edits, c) : e.prev = book.cells[c].text /\ e.next = NoText
    <2> HIDE DEF edits, under
    <2> DEFINE clears == Clears(book.cells, under)
    <2>1. /\ IsEdits(clears)
          /\ \A c \in Cells :
               /\ c \in under /\ book.cells[c].text # NoText <=> Of(clears, c) # {}
               /\ \A e \in Of(clears, c) : e.prev = book.cells[c].text /\ e.next = NoText
      BY <1>2, ClearsIs
    <2>2. edits = clears  BY <1>2
    <2> HIDE DEF clears
    <2> QED  BY <2>1, <2>2
  <1> HIDE DEF after, x, all, edits, under
  <1>6. /\ IsBook(after) /\ after.cells = x /\ after.merges = all
        /\ after.names = book.names /\ after.widths = book.widths /\ after.freeze = book.freeze
    BY <1>3, <1>4, BookIs, BookParts
  <1>7. LinkMerges(fmt, book, after)  BY <1>1, <1>2, <1>6 DEF LinkMerges, CanMerge, all
  <1>8. rec.fmt = fmt /\ fmt.kind = "merge" /\ fmt.box = box /\ rec.edits = edits  OBVIOUS
  <1> HIDE DEF fmt, rec
  <1>9. LinkText(rec, book, after, buried)  BY <1>4, <1>5, <1>6, <1>8 DEF LinkText, under
  <1>10. LinkStyle(rec, book, after, lost)
    <2>1. ASSUME NEW c \in Cells, c \notin Emptied(rec) PROVE x[c].style = book.cells[c].style
      <3>1. Of(edits, c) = {}
        <4> SUFFICES ASSUME NEW e \in Of(edits, c) PROVE FALSE  OBVIOUS
        <4>1. e \in edits /\ e.cell = c /\ e.next = NoText  BY <1>5 DEF Of
        <4> QED  BY <1>8, <2>1, <4>1 DEF Emptied
      <3> QED  BY <1>4, <1>5, <3>1
    <2> QED  BY <1>6, <1>8, <2>1 DEF LinkStyle
  <1>11. Link(rec, book, after, lost, buried, crossed)
    BY <1>5, <1>6, <1>7, <1>8, <1>9, <1>10, LeftAlone, LinkIs
  <1>12. Commit(rec, after)  BY <1>1 DEF rec, fmt, edits, after
  <1> QED  BY <1>1, <1>6, <1>11, <1>12, Committed

LEMMA ClearTrail == ASSUME TrailInv, NEW box \in Selections, ClearSelection(box) PROVE TrailInv'
  <1> DEFINE edits == Clearing(book.cells, box)
             x == [c \in Cells |-> IF c \in Span(box) THEN Blank ELSE book.cells[c]]
             after == [book EXCEPT !.cells = x]
             rec == [fmt |-> None, edits |-> edits]
             bare == {c \in Span(box) : book.cells[c].text = NoText}
  <1>1. /\ task = Idle
        /\ IF edits = {} THEN book' = after /\ UNCHANGED <<journal, cursor, trail>> ELSE Record(rec, after)
        /\ lost' = lost \cup bare
        /\ UNCHANGED <<task, buried, crossed>>
    BY DEF ClearSelection, Ready
  <1>2. Span(box) \in SUBSET Cells /\ edits = Clears(book.cells, Span(box))  BY InSheet DEF Clearing
  <1>3. /\ IsEdits(edits)
        /\ \A c \in Cells :
             /\ c \in Span(box) /\ book.cells[c].text # NoText <=> Of(edits, c) # {}
             /\ \A e \in Of(edits, c) : e.prev = book.cells[c].text /\ e.next = NoText
    BY <1>2, ClearsIs
  <1>4. /\ IsCells(x)
        /\ \A c \in Cells : /\ c \notin Span(box) => x[c] = book.cells[c]
                            /\ c \in Span(box) => x[c].text = NoText
    <2>1. IsCell(Blank) /\ Blank.text = NoText  BY DEF Blank, IsCell
    <2>2. x = [c \in Cells |-> x[c]] /\ \A c \in Cells : x[c] = IF c \in Span(box) THEN Blank ELSE book.cells[c]
      OBVIOUS
    <2> HIDE DEF x
    <2>3. \A c \in Cells : IsCell(x[c])  BY <2>1, <2>2, BookIs DEF IsCells
    <2>4. IsCells(x)  BY <2>2, <2>3 DEF IsCells
    <2> QED  BY <2>1, <2>2, <2>4
  <1> HIDE DEF x, edits
  <1>5. /\ IsBook(after) /\ after.cells = x /\ after.merges = book.merges
        /\ after.names = book.names /\ after.widths = book.widths /\ after.freeze = book.freeze
    <2>1. after = Book(x, book.merges, book.names, book.widths, book.freeze)  BY BookIs, BookWith
    <2> HIDE DEF after
    <2> QED  BY <1>4, <2>1, BookIs, BookParts
  <1> HIDE DEF after
  <1>6. buried \subseteq lost /\ crossed \in BOOLEAN  BY DEF TrailInv
  <1>7. CASE edits # {}
    <2>1. rec.fmt.kind \notin KindsKnown /\ rec.edits = edits  BY DEF None, KindsKnown
    <2>2. Record(rec, after)  BY <1>1, <1>7
    <2> HIDE DEF rec
    <2>3. LinkText(rec, book, after, buried')  BY <1>3, <1>4, <1>5, <2>1 DEF LinkText, KindsKnown
    <2>4. LinkStyle(rec, book, after, lost')
      <3>1. ASSUME NEW c \in Cells, c \notin Emptied(rec), c \notin lost' PROVE x[c].style = book.cells[c].style
        <4>1. c \notin Span(box)
          <5> SUFFICES ASSUME c \in Span(box) PROVE FALSE  OBVIOUS
          <5>1. Of(edits, c) # {}  BY <1>1, <1>3, <3>1
          <5>2. PICK e \in Of(edits, c) : TRUE  BY <5>1
          <5>3. e \in edits /\ e.cell = c /\ e.next = NoText  BY <1>3, <5>2 DEF Of
          <5> QED  BY <2>1, <3>1, <5>3 DEF Emptied
        <4> QED  BY <1>4, <4>1
      <3> QED  BY <1>5, <2>1, <3>1 DEF LinkStyle, KindsKnown
    <2>5. Link(rec, book, after, lost', buried', crossed')
      BY <1>3, <1>5, <2>1, <2>3, <2>4, LeftAlone, LinkIs DEF KindsKnown
    <2> QED  BY <1>1, <1>5, <1>6, <2>2, <2>5, StepTaken
  <1>8. CASE edits = {}
    <2>1. book' = after /\ UNCHANGED <<journal, cursor, trail>>  BY <1>1, <1>8
    <2>2. /\ Trails /\ cursor \in 0..Len(journal)
          /\ Agrees(book, trail[cursor + 1], lost, buried, crossed)
      BY <1>1 DEF TrailInv, AtCursor, Origin, Trails
    <2>3. Trails'  BY <1>1, <2>1, <2>2, TrailsKept
    <2>4. \A c \in Cells : c \in Span(box) => c \in lost' /\ book.cells[c].text = NoText
      BY <1>1, <1>3, <1>8 DEF Of
    <2>5. Agrees(after, trail[cursor + 1], lost', buried', crossed')
      BY <1>1, <1>4, <1>5, <2>2, <2>4 DEF Agrees
    <2>6. AtCursor'  BY <1>1, <1>5, <2>1, <2>5 DEF AtCursor, Origin
    <2> QED  BY <1>1, <1>6, <2>3, <2>6 DEF TrailInv, Doing
  <1> QED  BY <1>7, <1>8

LEMMA DefineTrail ==
    ASSUME TrailInv, NEW scope \in Scopes, NEW box \in Named, DefineName(scope, box) PROVE TrailInv'
  <1> DEFINE fmt == [kind |-> "name", scope |-> scope, prior |-> Listed(book.names, scope), target |-> <<box>>]
             rec == [fmt |-> fmt, edits |-> {}]
             n == Defined(book.names, scope, box)
             after == [book EXCEPT !.names = n]
  <1>1. task = Idle /\ Commit(rec, after)  BY DEF DefineName, Ready
  <1>2. scope # "parked"  BY SheetAssumption
  <1>3. IsNames(n) /\ Live(n) = LiveDefined(Live(book.names), scope, box)  BY <1>2, BookIs, DefinedIs
  <1>4. \A s : s # "parked" => Listed(n, s) = IF s = scope THEN <<box>> ELSE Listed(book.names, s)
    BY <1>2, BookIs, ListedDefined
  <1> HIDE DEF n
  <1>5. after = Book(book.cells, book.merges, n, book.widths, book.freeze)  BY BookIs, BookWith
  <1> HIDE DEF after
  <1>6. /\ IsBook(after) /\ after.cells = book.cells /\ after.merges = book.merges
        /\ after.names = n /\ after.widths = book.widths /\ after.freeze = book.freeze
    BY <1>3, <1>5, BookIs, BookParts
  <1>7. /\ rec.fmt = fmt /\ fmt.kind = "name" /\ rec.edits = {} /\ fmt.scope = scope
        /\ fmt.prior = Listed(book.names, scope) /\ fmt.target = <<box>>
        /\ fmt.target # <<>> /\ fmt.target[1] = box
    OBVIOUS
  <1> HIDE DEF fmt, rec
  <1>8. LinkNames(fmt, book, after, crossed)
    <2>1. LinkListed(fmt, book, after)  BY <1>2, <1>4, <1>6, <1>7 DEF LinkListed
    <2>2. LinkSlots(fmt, book, after)  BY <1>3, <1>6, <1>7 DEF LinkSlots
    <2> QED  BY <2>1, <2>2 DEF LinkNames
  <1>9. Link(rec, book, after, lost, buried, crossed)
    BY <1>6, <1>7, <1>8, NoEntries, LeftAlone, LinkIs
  <1>10. Commit(rec, after)  BY <1>1 DEF rec, fmt, after, n
  <1> QED  BY <1>1, <1>6, <1>9, <1>10, Committed

LEMMA DeleteTrail ==
    ASSUME TrailInv, NEW scope \in Scopes, DeleteName(scope) PROVE TrailInv'
  <1> DEFINE fmt == [kind |-> "name", scope |-> scope, prior |-> Listed(book.names, scope), target |-> <<>>]
             rec == [fmt |-> fmt, edits |-> {}]
             n == Deleted(book.names, scope)
             after == [book EXCEPT !.names = n]
             live == Live(book.names)
  <1>1. task = Idle /\ Slots(book.names, scope) # {} /\ Record(rec, after)  BY DEF DeleteName, Ready
  <1>2. /\ crossed' = (crossed \/ \E k \in Slots(book.names, "parked") : k < FirstSlot(Slots(book.names, scope)))
        /\ UNCHANGED <<task, lost, buried>>
    BY DEF DeleteName
  <1>3. scope # "parked"  BY SheetAssumption
  <1>4. IsNames(n) /\ Live(n) = LiveDeleted(live, scope)  BY <1>1, <1>3, BookIs, DeletedIs
  <1>5. \A s : s # "parked" => Listed(n, s) = IF s = scope THEN <<>> ELSE Listed(book.names, s)
    BY <1>1, <1>3, BookIs, ListedDeleted
  <1>6. ASSUME ~crossed', NEW p \in Own(live, scope) PROVE 1..(p[1] - 1) \subseteq Used(live)
    <2>1. Slots(book.names, scope) = {p[1]}  BY <1>3, BookIs, ListedIs
    <2>2. Len(book.names) \in Nat  BY BookIs, TableLength DEF IsNames
    <2>3. p[1] \in 1..Len(book.names)  BY <2>1 DEF Slots
    <2>4. FirstSlot(Slots(book.names, scope)) = p[1]
      <3>1. Slots(book.names, scope) \in SUBSET Nat  BY <2>2 DEF Slots
      <3> QED  BY <2>1, <3>1, FirstSlotIs
    <2>5. \A k \in Slots(book.names, "parked") : ~(k < p[1])  BY <1>2, <1>6, <2>4
    <2>6. ASSUME NEW j \in 1..(p[1] - 1) PROVE j \in Used(live)
      <3>1. j \in 1..Len(book.names) /\ j < p[1]  BY <2>2, <2>3
      <3>2. book.names[j].scope # "parked"  BY <2>5, <3>1 DEF Slots
      <3>3. <<j, book.names[j]>> \in live  BY <3>1, <3>2, LiveIs
      <3>4. <<j, book.names[j]>>[1] = j  OBVIOUS
      <3> QED  BY <3>3, <3>4, Zenon DEF Used
    <2> QED  BY <2>6
  <1> HIDE DEF n, live
  <1>7. after = Book(book.cells, book.merges, n, book.widths, book.freeze)  BY BookIs, BookWith
  <1> HIDE DEF after
  <1>8. /\ IsBook(after) /\ after.cells = book.cells /\ after.merges = book.merges
        /\ after.names = n /\ after.widths = book.widths /\ after.freeze = book.freeze
    BY <1>4, <1>7, BookIs, BookParts
  <1>9. /\ rec.fmt = fmt /\ fmt.kind = "name" /\ rec.edits = {} /\ fmt.scope = scope
        /\ fmt.prior = Listed(book.names, scope) /\ fmt.target = <<>>
    OBVIOUS
  <1> HIDE DEF fmt, rec
  <1>10. LinkNames(fmt, book, after, crossed')
    <2>1. Listed(book.names, scope) # <<>>  BY <1>1, ListedOne
    <2>2. LinkListed(fmt, book, after)  BY <1>3, <1>5, <1>8, <1>9, <2>1 DEF LinkListed
    <2>3. ~crossed' => LinkSlots(fmt, book, after)  BY <1>4, <1>6, <1>8, <1>9 DEF LinkSlots, live
    <2> QED  BY <2>2, <2>3 DEF LinkNames
  <1>11. Link(rec, book, after, lost', buried', crossed')
    BY <1>8, <1>9, <1>10, NoEntries, LeftAlone, LinkIs
  <1>12. Record(rec, after)  BY <1>1 DEF rec, fmt, after, n
  <1>13. buried \subseteq lost /\ crossed \in BOOLEAN  BY DEF TrailInv
  <1> QED  BY <1>1, <1>2, <1>8, <1>11, <1>12, <1>13, StepTaken

LEMMA FillTrail ==
    ASSUME TrailInv, NEW src \in Selections, NEW dst \in Selections, Fill(src, dst) PROVE TrailInv'
  <1> DEFINE plan   == FillPlan(book.cells, src, dst)
             styled == Restyled(book.cells, plan)
             swap   == IF styled = book.cells THEN None
                       ELSE [kind |-> "style", box |-> dst, before |-> StyleIds(book.cells, dst),
                             after |-> StyleIds(styled, dst)]
             differ == {d \in DOMAIN plan : styled[d].text # plan[d].text}
             edit(c) == [cell |-> c, prev |-> styled[c].text, next |-> plan[c].text]
             edits  == {edit(c) : c \in differ}
             rec    == [fmt |-> swap, edits |-> edits]
             x      == WriteAll(styled, edits, "next")
             after  == [book EXCEPT !.cells = x]
  <1>1. task = Idle /\ Commit(rec, after)  BY DEF Fill, Ready
  <1>2. DOMAIN plan \subseteq Span(dst) /\ Span(dst) \in SUBSET Cells  BY InSheet DEF FillPlan
  <1> HIDE DEF plan
  <1>3. /\ IsCells(styled)
        /\ \A c \in Cells : /\ styled[c].text = book.cells[c].text
                            /\ c \notin DOMAIN plan => styled[c] = book.cells[c]
    <2> DEFINE value(c) == IF c \in DOMAIN plan THEN [book.cells[c] EXCEPT !.style = plan[c].style] ELSE book.cells[c]
    <2>1. styled = [c \in Cells |-> value(c)]  BY DEF Restyled
    <2>2. ASSUME NEW c \in Cells
          PROVE  /\ IsCell(value(c)) /\ value(c).text = book.cells[c].text
                 /\ c \notin DOMAIN plan => value(c) = book.cells[c]
      <3>1. IsCell(book.cells[c])  BY BookIs DEF IsCells
      <3> QED  BY <3>1 DEF IsCell
    <2> HIDE DEF value, styled
    <2>3. styled = [c \in Cells |-> styled[c]] /\ \A c \in Cells : styled[c] = value(c)  BY <2>1
    <2> QED  BY <2>2, <2>3 DEF IsCells
  <1> HIDE DEF styled
  <1>4. \A c : edit(c).cell = c /\ edit(c).prev = styled[c].text /\ edit(c).next = plan[c].text  OBVIOUS
  <1> HIDE DEF edit
  <1>5. \A e \in edits : e.cell \in differ /\ e = edit(e.cell)  BY <1>4
  <1> HIDE DEF edits
  <1>6. IsEdits(edits)  BY <1>2, <1>5 DEF IsEdits
  <1>7. /\ IsCells(x)
        /\ \A c \in Cells :
             /\ Of(edits, c) = {} => x[c] = styled[c]
             /\ \A e \in Of(edits, c) : /\ x[c].text = e["next"]
                                        /\ e["next"] # NoText => x[c].style = styled[c].style
    BY <1>3, <1>6, AfterEntries
  <1> HIDE DEF x
  <1>8. after = Book(x, book.merges, book.names, book.widths, book.freeze)  BY BookIs, BookWith
  <1> HIDE DEF after
  <1>9. /\ IsBook(after) /\ after.cells = x /\ after.merges = book.merges
        /\ after.names = book.names /\ after.widths = book.widths /\ after.freeze = book.freeze
    BY <1>7, <1>8, BookIs, BookParts
  <1>10. rec.fmt = swap /\ rec.edits = edits  OBVIOUS
  <1>11. \/ styled = book.cells /\ swap.kind \notin KindsKnown
         \/ /\ swap.kind = "style" /\ swap.box = dst
            /\ swap.before = StyleIds(book.cells, dst) /\ swap.after = StyleIds(styled, dst)
    BY DEF None, KindsKnown
  <1> HIDE DEF swap, rec
  <1>12. LinkText(rec, book, after, buried)
    <2>1. ASSUME NEW c \in Cells, NEW e \in Of(edits, c)
          PROVE  e.prev = book.cells[c].text /\ e.next = x[c].text
      <3>1. e \in edits /\ e.cell = c  BY DEF Of
      <3>2. e.prev = styled[c].text /\ e.next = plan[c].text  BY <1>4, <1>5, <3>1
      <3>3. x[c].text = e["next"]  BY <1>7
      <3> QED  BY <1>3, <3>2, <3>3
    <2>2. \A c \in Cells : Of(edits, c) = {} => book.cells[c].text = x[c].text  BY <1>3, <1>7
    <2>3. rec.fmt.kind # "merge"  BY <1>10, <1>11 DEF KindsKnown
    <2> QED  BY <1>9, <1>10, <2>1, <2>2, <2>3 DEF LinkText
  <1>13. LinkStyle(rec, book, after, lost)
    <2>1. ASSUME NEW c \in Cells, c \notin Emptied(rec) PROVE x[c].style = styled[c].style
      <3>1. CASE Of(edits, c) = {}  BY <1>7, <3>1
      <3>2. CASE Of(edits, c) # {}
        <4>1. PICK e \in Of(edits, c) : TRUE  BY <3>2
        <4>2. e \in rec.edits /\ e.cell = c  BY <1>10, <4>1 DEF Of
        <4>3. NoText \notin {e.prev, e.next}  BY <2>1, <4>2 DEF Emptied
        <4> QED  BY <1>7, <4>1, <4>3
      <3> QED  BY <3>1, <3>2
    <2>2. CASE styled = book.cells /\ swap.kind \notin KindsKnown
      BY <1>9, <1>10, <2>1, <2>2 DEF LinkStyle, KindsKnown
    <2>3. CASE /\ swap.kind = "style" /\ swap.box = dst
               /\ swap.before = StyleIds(book.cells, dst) /\ swap.after = StyleIds(styled, dst)
      <3>1. \A c \in Span(dst) : swap.before[c] = book.cells[c].style /\ swap.after[c] = styled[c].style
        BY <2>3 DEF StyleIds
      <3>2. \A c \in Cells : c \notin Span(dst) => styled[c] = book.cells[c]  BY <1>2, <1>3
      <3> QED  BY <1>9, <1>10, <2>1, <2>3, <3>1, <3>2 DEF LinkStyle
    <2> QED  BY <1>11, <2>2, <2>3
  <1>14. Link(rec, book, after, lost, buried, crossed)
    <2>1. rec.fmt.kind \notin {"merge", "unmerge", "width", "freeze", "name"}
      BY <1>10, <1>11 DEF KindsKnown
    <2> QED  BY <1>6, <1>9, <1>10, <1>12, <1>13, <2>1, LeftAlone, LinkIs
  <1>15. Commit(rec, after)  BY <1>1 DEF rec, swap, after, x, edits, edit, styled, plan
  <1> QED  BY <1>1, <1>9, <1>14, <1>15, Committed

Task(box, calls, before, started, todo, map) ==
  [box |-> box, calls |-> calls, before |-> before, started |-> started, todo |-> todo, map |-> map]

LEMMA TaskParts ==
    ASSUME NEW box, NEW calls, NEW before, NEW started, NEW todo, NEW map
    PROVE  LET t == Task(box, calls, before, started, todo, map)
           IN  /\ t.box = box /\ t.calls = calls /\ t.before = before /\ t.started = started
               /\ t.todo = todo /\ t.map = map
               /\ t = Idle => calls = <<>>
  <1> DEFINE t == Task(box, calls, before, started, todo, map)
  <1>1. t.box = box /\ t.calls = calls /\ t.before = before /\ t.started = started
        /\ t.todo = todo /\ t.map = map
    BY DEF Task
  <1>2. Idle.calls = <<>>  BY DEF Idle
  <1> HIDE DEF t
  <1> QED  BY <1>1, <1>2 DEF t

(* The style change that is under way, part by part.                       *)
DoingIs(t, b) ==
  /\ t = Task(t.box, t.calls, t.before, t.started, t.todo, t.map)
  /\ IsTable(t.calls) /\ t.calls # <<>>
  /\ \A k \in 1..Len(t.calls) : Span(t.calls[k].box) \subseteq Span(t.box)
  /\ IsBox(t.box) /\ t.before = StyleIds(t.started.cells, t.box)
  /\ IsBook(t.started) /\ b = [t.started EXCEPT !.cells = b.cells]
  /\ \A c \in Cells : /\ b.cells[c].text = t.started.cells[c].text
                      /\ c \notin Span(t.box) => b.cells[c] = t.started.cells[c]

LEMMA DoingSays == Doing <=> (task # Idle => DoingIs(task, book))
  BY DEF Doing, DoingIs, Task

LEMMA BeginTrail ==
    ASSUME TrailInv, NEW box \in Selections \cup Framed, NEW calls, IsTable(calls), calls # <<>>,
           \A k \in 1..Len(calls) : Span(calls[k].box) \subseteq Span(box), Begin(box, calls)
    PROVE  TrailInv'
  <1>1. task = Idle /\ UNCHANGED <<book, journal, cursor, trail, lost, buried, crossed>>
        /\ task' = Task(box, calls, StyleIds(book.cells, box), book, StartCall(book.cells, calls), <<>>)
    BY DEF Begin, Ready, Task
  <1>2. /\ task'.box = box /\ task'.calls = calls /\ task'.before = StyleIds(book.cells, box)
        /\ task'.started = book /\ task'.todo = StartCall(book.cells, calls) /\ task'.map = <<>>
        /\ task' # Idle
    BY <1>1, TaskParts
  <1>3. IsBook(book) /\ book = [book EXCEPT !.cells = book.cells]
    <2>1. IsBook(book)  BY BookIs
    <2>2. book = Book(book.cells, book.merges, book.names, book.widths, book.freeze)  BY <2>1, BookWith
    <2>3. [book EXCEPT !.cells = book.cells] = Book(book.cells, book.merges, book.names, book.widths, book.freeze)
      BY <2>1, BookWith
    <2> QED  BY <2>1, <2>2, <2>3
  <1>4. IsBox(box)  BY InSheet
  <1>5. DoingIs(task', book)  BY <1>1, <1>2, <1>3, <1>4 DEF DoingIs
  <1>6. Doing'
    <2>1. DoingIs(task', book')  BY <1>1, <1>5
    <2> QED  BY <1>2, <2>1 DEF Doing, DoingIs, Task
  <1>7. Trails /\ Agrees(book, trail[cursor + 1], lost, buried, crossed)
    BY <1>1 DEF TrailInv, AtCursor, Origin
  <1>8. Trails'  BY <1>1, <1>7 DEF Trails
  <1>9. AtCursor'  BY <1>1, <1>2, <1>3, <1>7 DEF AtCursor, Origin
  <1>10. (buried \subseteq lost /\ crossed \in BOOLEAN)'  BY <1>1 DEF TrailInv
  <1> QED  BY <1>6, <1>8, <1>9, <1>10 DEF TrailInv

LEMMA SetStyleTrail ==
    ASSUME TrailInv, NEW box \in Selections, NEW patch, SetStyle(box, patch) PROVE TrailInv'
  <1> DEFINE call == [box |-> box, patch |-> patch]
             calls == <<call>>
  <1>1. Begin(box, calls) /\ call.box = box  BY DEF SetStyle
  <1> HIDE DEF call
  <1>2. IsTable(calls) /\ Len(calls) = 1 /\ calls[1] = call  BY OneRow
  <1> HIDE DEF calls
  <1>3. \A k \in 1..Len(calls) : Span(calls[k].box) \subseteq Span(box)  BY <1>1, <1>2
  <1>4. calls # <<>>  BY <1>2, EmptyTable
  <1> QED  BY <1>1, <1>2, <1>3, <1>4, BeginTrail

LEMMA FourRows ==
    ASSUME NEW a, NEW b, NEW c, NEW d
    PROVE  LET t == <<a, b, c, d>>
           IN  IsTable(t) /\ Len(t) = 4 /\ t[1] = a /\ t[2] = b /\ t[3] = c /\ t[4] = d
  <1> DEFINE t == <<a, b, c, d>>
             two == WithTwo(<<>>, a, b)
             four == WithTwo(two, c, d)
  <1>1. t = four  BY DEF WithTwo
  <1> HIDE DEF four
  <1>2. IsTable(two) /\ Len(two) = Len(<<>>) + 2  BY EmptyTable, TwoMore
  <1> HIDE DEF two
  <1>3. IsTable(four)  BY <1>2, TwoMore DEF four
  <1> QED  BY <1>1, <1>3

LEMMA SetBordersTrail ==
    ASSUME TrailInv, NEW kind \in Kinds, NEW box \in Framed, NEW edge, SetBorders(kind, box, edge)
    PROVE  TrailInv'
  <1> DEFINE calls == BorderCalls(kind, box, edge)
             Within(b) == Span(b) \subseteq Span(box)
             Fits(s) == IsTable(s) /\ s # <<>> /\ \A k \in 1..Len(s) : Within(s[k].box)
             Call(b, patch) == [box |-> b, patch |-> patch]
             first == <<box[1], box[1]>>
             last == <<box[2], box[2]>>
  <1>1. Begin(box, calls)  BY DEF SetBorders
  <1>2. Within(box) /\ Within(first) /\ Within(last)
    <2>1. IsBox(box) /\ NumCells \in Nat  BY InSheet, FormatAssumption
    <2> QED  BY <2>1 DEF IsBox, Span
  <1>3. ASSUME NEW b, Within(b), NEW patch PROVE Fits(<<Call(b, patch)>>)
    <2> DEFINE call == Call(b, patch)
               s == <<call>>
    <2>1. call.box = b  OBVIOUS
    <2> HIDE DEF call, Within
    <2>2. IsTable(s) /\ Len(s) = 1 /\ s[1] = call  BY OneRow
    <2>3. s # <<>>  BY <2>2, EmptyTable
    <2> HIDE DEF s
    <2>4. Fits(s)  BY <1>3, <2>1, <2>2, <2>3
    <2> QED  BY <2>4 DEF s, call
  <1>4. ASSUME NEW p, NEW q, NEW l, NEW r
        PROVE  Fits(<<Call(box, p), Call(box, q), Call(first, l), Call(last, r)>>)
    <2> DEFINE c1 == Call(box, p)
               c2 == Call(box, q)
               c3 == Call(first, l)
               c4 == Call(last, r)
               s == <<c1, c2, c3, c4>>
    <2>1. c1.box = box /\ c2.box = box /\ c3.box = first /\ c4.box = last  OBVIOUS
    <2> HIDE DEF c1, c2, c3, c4, Within
    <2>2. IsTable(s) /\ Len(s) = 4 /\ s[1] = c1 /\ s[2] = c2 /\ s[3] = c3 /\ s[4] = c4  BY FourRows
    <2>3. s # <<>>  BY <2>2, EmptyTable
    <2> HIDE DEF s
    <2>4. \A k \in 1..Len(s) : k = 1 \/ k = 2 \/ k = 3 \/ k = 4  BY <2>2
    <2>5. Fits(s)  BY <1>2, <2>1, <2>2, <2>3, <2>4
    <2> QED  BY <2>5 DEF s, c1, c2, c3, c4
  <1>5. Fits(calls)
    <2> HIDE DEF Fits, Within
    <2>1. CASE kind = "all"
      <3>1. calls = <<Call(box, Four(edge))>>  BY <2>1 DEF BorderCalls
      <3> QED  BY <1>2, <1>3, <3>1
    <2>2. CASE kind = "none"
      <3>1. \E p : calls = <<Call(box, p)>>  BY <2>2 DEF BorderCalls
      <3> QED  BY <1>2, <1>3, <3>1
    <2>3. CASE kind = "outline"
      <3>1. calls = <<Call(box, One("top", edge)), Call(box, One("bottom", edge)),
                      Call(first, One("left", edge)), Call(last, One("right", edge))>>
        BY <2>3 DEF BorderCalls
      <3> QED  BY <1>4, <3>1
    <2>4. CASE kind = "left"
      <3>1. calls = <<Call(first, One("left", edge))>>  BY <2>4 DEF BorderCalls
      <3> QED  BY <1>2, <1>3, <3>1
    <2>5. CASE kind = "right"
      <3>1. calls = <<Call(last, One("right", edge))>>  BY <2>5 DEF BorderCalls
      <3> QED  BY <1>2, <1>3, <3>1
    <2>6. CASE kind \notin {"all", "none", "outline", "left", "right"}
      <3>1. calls = <<Call(box, One(kind, edge))>>  BY <2>6 DEF BorderCalls
      <3> QED  BY <1>2, <1>3, <3>1
    <2> QED  BY <2>1, <2>2, <2>3, <2>4, <2>5, <2>6
  <1> HIDE DEF calls
  <1> QED  BY <1>1, <1>5, BeginTrail

LEMMA PatchTrail == ASSUME TrailInv, PatchNext PROVE TrailInv'
  <1>1. task # Idle /\ UNCHANGED <<book, journal, cursor, trail, lost, buried, crossed>>
    BY DEF PatchNext
  <1>2. DoingIs(task, book)  BY <1>1, DoingSays DEF TrailInv
  <1>3. \E todo, map : task' = [task EXCEPT !.todo = todo, !.map = map]  BY Zenon DEF PatchNext
  <1>4. PICK todo, map : task' = [task EXCEPT !.todo = todo, !.map = map]  BY <1>3
  <1>5. task' = Task(task.box, task.calls, task.before, task.started, todo, map)
    BY <1>2, <1>4 DEF DoingIs, Task
  <1>6. /\ task'.box = task.box /\ task'.calls = task.calls /\ task'.before = task.before
        /\ task'.started = task.started /\ task'.todo = todo /\ task'.map = map
        /\ task' = Idle => task.calls = <<>>
    BY <1>5, TaskParts
  <1>7. task' # Idle  BY <1>2, <1>6 DEF DoingIs
  <1>8. DoingIs(task', book)  BY <1>2, <1>5, <1>6 DEF DoingIs
  <1>9. Doing'
    <2>1. DoingIs(task', book')  BY <1>1, <1>8
    <2> QED  BY <1>7, <2>1 DEF Doing, DoingIs, Task
  <1>10. Trails'  BY <1>1 DEF TrailInv, Trails
  <1>11. AtCursor'  BY <1>1, <1>6, <1>7 DEF TrailInv, AtCursor, Origin
  <1> QED  BY <1>1, <1>9, <1>10, <1>11 DEF TrailInv

LEMMA FinishTrail == ASSUME TrailInv, FinishCall PROVE TrailInv'
  <1> DEFINE box == task.calls[1].box
             x == Styled(book.cells, [c \in Span(box) |-> task.map[book.cells[c].style]], box)
             after == Assigned(box)
             rest == Tail(task.calls)
             fmt == [kind |-> "style", box |-> task.box, before |-> task.before,
                     after |-> StyleIds(after.cells, task.box)]
             rec == [fmt |-> fmt, edits |-> {}]
             started == task.started
  <1>1. /\ task # Idle /\ UNCHANGED <<lost, buried, crossed>> /\ book' = after
        /\ IF rest = <<>>
           THEN /\ task' = Idle /\ cursor' = cursor + 1
                /\ trail' = SubSeq(trail, 1, cursor) \o <<task.started, after>>
                /\ journal' = Append(SubSeq(journal, 1, cursor), rec)
           ELSE /\ task' = [task EXCEPT !.calls = rest, !.map = <<>>, !.todo = StartCall(after.cells, rest)]
                /\ UNCHANGED <<journal, cursor, trail>>
    BY Zenon DEF FinishCall
  <1>2. DoingIs(task, book)  BY <1>1, DoingSays DEF TrailInv
  <1>3. after = Book(x, book.merges, book.names, book.widths, book.freeze)
    <2>1. after = [book EXCEPT !.cells = x]  BY DEF Assigned
    <2> HIDE DEF x, after
    <2> QED  BY <2>1, BookIs, BookWith
  <1>4. /\ IsCells(x)
        /\ \A c \in Cells : x[c].text = book.cells[c].text /\ (c \notin Span(box) => x[c] = book.cells[c])
    BY BookIs, StyledIs
  <1> HIDE DEF x, after
  <1>5. /\ IsBook(after) /\ after.cells = x /\ after.merges = book.merges /\ after.names = book.names
        /\ after.widths = book.widths /\ after.freeze = book.freeze
    BY <1>3, <1>4, BookIs, BookParts
  <1>6. /\ IsBook(started) /\ book = Book(book.cells, started.merges, started.names, started.widths, started.freeze)
        /\ IsTable(task.calls) /\ task.calls # <<>> /\ IsBox(task.box)
    BY <1>2, BookWith DEF DoingIs
  <1>7. /\ book.merges = started.merges /\ book.names = started.names
        /\ book.widths = started.widths /\ book.freeze = started.freeze
    BY <1>6, BookParts
  <1>8. /\ IsTable(rest) /\ Len(task.calls) \in Nat \ {0} /\ Len(rest) = Len(task.calls) - 1
        /\ \A k \in 1..Len(rest) : rest[k] = task.calls[k + 1]
    BY <1>6, TableTail
  <1>9. Span(box) \subseteq Span(task.box)  BY <1>2, <1>8 DEF DoingIs
  <1>10. \A c \in Cells : /\ x[c].text = started.cells[c].text
                          /\ c \notin Span(task.box) => x[c] = started.cells[c]
    BY <1>2, <1>4, <1>9 DEF DoingIs
  <1>11. Trails /\ Agrees(started, trail[cursor + 1], lost, buried, crossed) /\ buried \subseteq lost
         /\ crossed \in BOOLEAN
    BY <1>1 DEF TrailInv, AtCursor, Origin
  <1> HIDE DEF box, rest
  <1>12. CASE rest = <<>>
    <2>1. /\ task' = Idle /\ cursor' = cursor + 1
          /\ trail' = SubSeq(trail, 1, cursor) \o <<started, after>>
          /\ journal' = Append(SubSeq(journal, 1, cursor), rec)
      BY <1>1, <1>12
    <2>2. /\ rec.fmt = fmt /\ rec.edits = {} /\ fmt.kind = "style" /\ fmt.box = task.box
          /\ fmt.before = StyleIds(started.cells, task.box) /\ fmt.after = StyleIds(x, task.box)
      BY <1>2, <1>5 DEF DoingIs
    <2> HIDE DEF rec, fmt
    <2>3. IsEdits(rec.edits) /\ LinkText(rec, started, after, buried)
      BY <1>5, <1>10, <2>2 DEF IsEdits, LinkText, Of
    <2>4. LinkStyle(rec, started, after, lost)
      <3>1. \A c \in Span(task.box) : fmt.before[c] = started.cells[c].style /\ fmt.after[c] = x[c].style
        BY <2>2 DEF StyleIds
      <3> QED  BY <1>5, <1>10, <2>2, <3>1 DEF LinkStyle
    <2>5. Link(rec, started, after, lost, buried, crossed)
      BY <1>5, <1>7, <2>2, <2>3, <2>4, LeftAlone, LinkIs
    <2>6. Link(rec, started, after, lost', buried', crossed')  BY <1>1, <2>5
    <2>7. Trails' /\ Agrees(after, trail'[cursor' + 1], lost', buried', crossed')
      BY <1>1, <1>5, <1>6, <1>11, <2>1, <2>6, Recorded
    <2>8. AtCursor'  BY <1>1, <1>5, <2>1, <2>7 DEF AtCursor, Origin
    <2>9. Doing'  BY <2>1 DEF Doing
    <2> QED  BY <1>1, <1>11, <2>7, <2>8, <2>9 DEF TrailInv
  <1>13. CASE rest # <<>>
    <2> DEFINE todo == StartCall(after.cells, rest)
    <2>1. task' = [task EXCEPT !.calls = rest, !.map = <<>>, !.todo = todo] /\ UNCHANGED <<journal, cursor, trail>>
      BY <1>1, <1>13
    <2> HIDE DEF todo
    <2>2. task' = Task(task.box, rest, task.before, started, todo, <<>>)
      BY <1>2, <2>1 DEF DoingIs, Task
    <2>3. /\ task'.box = task.box /\ task'.calls = rest /\ task'.before = task.before
          /\ task'.started = started /\ task'.todo = todo /\ task'.map = <<>>
          /\ task' # Idle
      BY <1>13, <2>2, TaskParts
    <2>4. \A k \in 1..Len(rest) : Span(rest[k].box) \subseteq Span(task.box)
      <3> TAKE k \in 1..Len(rest)
      <3>1. k + 1 \in 1..Len(task.calls)  BY <1>8
      <3> QED  BY <1>2, <1>8, <3>1 DEF DoingIs
    <2>5. after = [started EXCEPT !.cells = after.cells]
      <3>1. [started EXCEPT !.cells = x] = Book(x, started.merges, started.names, started.widths, started.freeze)
        BY <1>6, BookWith
      <3> QED  BY <1>3, <1>5, <1>7, <3>1
    <2>6. DoingIs(task', after)
      BY <1>2, <1>5, <1>6, <1>8, <1>10, <1>13, <2>2, <2>3, <2>4, <2>5 DEF DoingIs
    <2>7. Doing'
      <3>1. DoingIs(task', book')  BY <1>1, <2>6
      <3> QED  BY <2>3, <3>1 DEF Doing, DoingIs, Task
    <2>8. Trails'  BY <1>1, <1>11, <2>1 DEF Trails
    <2>9. AtCursor'  BY <1>1, <1>5, <1>11, <2>1, <2>3 DEF AtCursor, Origin
    <2> QED  BY <1>1, <1>11, <2>7, <2>8, <2>9 DEF TrailInv
  <1> QED  BY <1>12, <1>13

LEMMA StepLost ==
    ASSUME NEW rec, NEW after, Step(rec, after)
    PROVE  /\ lost' = lost \cup Emptied(rec) \cup Swallowed(rec)
           /\ buried' = buried \cup Swallowed(rec)
           /\ book' = after /\ UNCHANGED <<task, journal, trail, crossed>>
           /\ lost \subseteq lost' /\ buried \subseteq buried'
  BY DEF Step

LEMMA UndoTrail == ASSUME TrailInv, Undo PROVE TrailInv'
  <1> DEFINE rec == journal[cursor]
             after == Undone(book, rec)
             t == trail[cursor]
  <1>1. task = Idle /\ cursor > 0 /\ cursor' = cursor - 1 /\ Step(rec, after)  BY DEF Undo
  <1>2. /\ lost' = lost \cup Emptied(rec) \cup Swallowed(rec)
        /\ buried' = buried \cup Swallowed(rec)
        /\ book' = after /\ UNCHANGED <<task, journal, trail, crossed>>
        /\ lost \subseteq lost' /\ buried \subseteq buried'
    BY <1>1, StepLost
  <1>3. /\ Trails /\ IsBook(book) /\ Agrees(book, trail[cursor + 1], lost, buried, crossed)
        /\ buried \subseteq lost /\ crossed \in BOOLEAN
    BY <1>1 DEF TrailInv, AtCursor, Origin
  <1>4. Len(journal) \in Nat /\ cursor \in 1..Len(journal) /\ cursor \in 1..Len(trail)
    BY <1>1, <1>3, TableLength DEF Trails
  <1>5. IsBook(t) /\ Link(rec, t, trail[cursor + 1], lost, buried, crossed)  BY <1>3, <1>4 DEF Trails
  <1> HIDE DEF rec, after, t
  <1>6. Link(rec, t, book, lost, buried, crossed)  BY <1>3, <1>5, LinkAfter
  <1>7. IsBook(after) /\ Agrees(after, t, lost \cup Emptied(rec) \cup Swallowed(rec),
                                buried \cup Swallowed(rec), crossed)
    BY <1>3, <1>5, <1>6, UndoneIs DEF after
  <1>8. Agrees(after, t, lost', buried', crossed')  BY <1>2, <1>7
  <1>9. trail'[cursor' + 1] = t
    <2>1. cursor' + 1 = cursor  BY <1>1, <1>4
    <2> QED  BY <1>2, <2>1 DEF t
  <1>10. AtCursor'  BY <1>1, <1>2, <1>7, <1>8, <1>9 DEF AtCursor, Origin
  <1>11. Trails'
    <2>1. cursor' \in 0..Len(journal)  BY <1>1, <1>4
    <2> QED  BY <1>2, <1>3, <2>1, TrailsKept
  <1>12. Doing'  BY <1>1, <1>2 DEF Doing
  <1> QED  BY <1>2, <1>3, <1>10, <1>11, <1>12 DEF TrailInv

LEMMA RedoTrail == ASSUME TrailInv, Redo PROVE TrailInv'
  <1> DEFINE rec == journal[cursor + 1]
             after == Redone(book, rec)
             u == trail[cursor + 2]
  <1>1. task = Idle /\ cursor < Len(journal) /\ cursor' = cursor + 1 /\ Step(rec, after)  BY DEF Redo
  <1>2. /\ lost' = lost \cup Emptied(rec) \cup Swallowed(rec)
        /\ buried' = buried \cup Swallowed(rec)
        /\ book' = after /\ UNCHANGED <<task, journal, trail, crossed>>
        /\ lost \subseteq lost' /\ buried \subseteq buried'
    BY <1>1, StepLost
  <1>3. /\ Trails /\ IsBook(book) /\ Agrees(book, trail[cursor + 1], lost, buried, crossed)
        /\ buried \subseteq lost /\ crossed \in BOOLEAN
    BY <1>1 DEF TrailInv, AtCursor, Origin
  <1>4. Len(journal) \in Nat /\ cursor \in Nat /\ cursor + 1 \in 1..Len(journal) /\ cursor + 2 \in 1..Len(trail)
    BY <1>1, <1>3, TableLength DEF Trails
  <1>5. IsBook(u) /\ Link(rec, trail[cursor + 1], u, lost, buried, crossed)
    <2>1. (cursor + 1) + 1 = cursor + 2  BY <1>4
    <2> QED  BY <1>3, <1>4, <2>1 DEF Trails
  <1> HIDE DEF rec, after, u
  <1>6. Link(rec, book, u, lost, buried, crossed)  BY <1>3, <1>5, LinkBefore
  <1>7. IsBook(after) /\ Agrees(after, u, lost \cup Emptied(rec) \cup Swallowed(rec),
                                buried \cup Swallowed(rec), crossed)
    BY <1>3, <1>5, <1>6, RedoneIs DEF after
  <1>8. Agrees(after, u, lost', buried', crossed')  BY <1>2, <1>7
  <1>9. trail'[cursor' + 1] = u
    <2>1. cursor' + 1 = cursor + 2  BY <1>1, <1>4
    <2> QED  BY <1>2, <2>1 DEF u
  <1>10. AtCursor'  BY <1>1, <1>2, <1>7, <1>8, <1>9 DEF AtCursor, Origin
  <1>11. Trails'
    <2>1. cursor' \in 0..Len(journal)  BY <1>1, <1>4
    <2> QED  BY <1>2, <1>3, <2>1, TrailsKept
  <1>12. Doing'  BY <1>1, <1>2 DEF Doing
  <1> QED  BY <1>2, <1>3, <1>10, <1>11, <1>12 DEF TrailInv

LEMMA NextTrail == TrailInv /\ [Next]_vars => TrailInv'
  <1> SUFFICES ASSUME TrailInv, [Next]_vars PROVE TrailInv'  OBVIOUS
  <1>1. CASE Edit
    <2>1. ASSUME NEW c \in Cells, NEW text \in Texts, SetCell(c, text) PROVE TrailInv'
      BY <2>1, SetCellTrail
    <2>2. ASSUME NEW box \in Selections, ClearSelection(box) PROVE TrailInv'  BY <2>2, ClearTrail
    <2>3. ASSUME NEW box \in Selections, MergeTarget(box) PROVE TrailInv'  BY <2>3, MergeTrail
    <2>4. ASSUME NEW box \in Selections, UnmergeTarget(box) PROVE TrailInv'  BY <2>4, UnmergeTrail
    <2>5. ASSUME NEW box \in Selections, NEW w \in Widths, SetColumnWidth(box, w) PROVE TrailInv'
      BY <2>5, WidthTrail
    <2>6. ASSUME NEW box \in Selections, ToggleFreeze(box[1]) PROVE TrailInv'  BY <2>6, FreezeTrail
    <2>7. ASSUME NEW scope \in Scopes, NEW box \in Named, DefineName(scope, box) PROVE TrailInv'
      BY <2>7, DefineTrail
    <2>8. ASSUME NEW scope \in Scopes, DeleteName(scope) PROVE TrailInv'  BY <2>8, DeleteTrail
    <2>9. ASSUME NEW src \in Selections, NEW dst \in Selections, Fill(src, dst) PROVE TrailInv'
      BY <2>9, FillTrail
    <2>10. ASSUME NEW box \in Selections, NEW p \in Patches, SetStyle(box, p) PROVE TrailInv'
      BY <2>10, SetStyleTrail
    <2>11. ASSUME NEW kind \in Kinds, NEW box \in Framed, NEW edge \in Borders, SetBorders(kind, box, edge)
           PROVE  TrailInv'
      BY <2>11, SetBordersTrail
    <2> QED
      BY <1>1, <2>1, <2>2, <2>3, <2>4, <2>5, <2>6, <2>7, <2>8, <2>9, <2>10, <2>11, Zenon DEF Edit
  <1>2. CASE PatchNext  BY <1>2, PatchTrail
  <1>3. CASE FinishCall  BY <1>3, FinishTrail
  <1>4. CASE Undo  BY <1>4, UndoTrail
  <1>5. CASE Redo  BY <1>5, RedoTrail
  <1>6. CASE UNCHANGED vars
    <2>1. UNCHANGED <<book, task, journal, cursor, trail, lost, buried, crossed>>  BY <1>6 DEF vars
    <2>2. Trails'  BY <2>1 DEF TrailInv, Trails
    <2>3. AtCursor'  BY <2>1 DEF TrailInv, AtCursor, Origin
    <2>4. Doing'
      <3>1. task' # Idle => DoingIs(task', book')  BY <2>1, DoingSays DEF TrailInv
      <3> QED  BY <3>1 DEF Doing, DoingIs, Task
    <2> QED  BY <2>1, <2>2, <2>3, <2>4 DEF TrailInv
  <1> QED  BY <1>1, <1>2, <1>3, <1>4, <1>5, <1>6, Zenon DEF Next

(* OnTrail: undo and redo bring the sheet back as the steps made it        *)
(* (session.ts stepJournal, sheet-js core/format.rs), with the exceptions  *)
(* OnTrail names.                                                          *)
THEOREM OnTrailCorrect == Spec => []OnTrail
  <1>1. TrailInv => OnTrail
    <2> SUFFICES ASSUME TrailInv, task = Idle PROVE OnTrail  BY DEF OnTrail
    <2>1. Agrees(book, trail[cursor + 1], lost, buried, crossed)  BY DEF TrailInv, AtCursor, Origin
    <2>2. \A scope \in Scopes : scope # "parked"  BY SheetAssumption
    <2> QED  BY <2>1, <2>2 DEF Agrees, OnTrail
  <1> QED  BY <1>1, InitTrail, NextTrail, PTL DEF Spec
=============================================================================
