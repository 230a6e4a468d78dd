-------------------------- MODULE ChainPlacement_proofs --------------------------
(***************************************************************************)
(* For any range, frames and options and any number of edits, resizes and  *)
(* faults: a chain that no request crossed and no call of which threw      *)
(* keeps exactly its own tables in the story; and one with no fault at     *)
(* all shows the range over the frames whenever it comes to rest.          *)
(***************************************************************************)
EXTENDS ChainPlacement, SequenceTheorems, FiniteSetTheorems, WellFoundedInduction, TLAPS

USE FramesAssumption, HeightAssumption

-----------------------------------------------------------------------------
(* The invariant *)

(* Contents are of any kind; what counts is that lists are lists and        *)
(* records have their fields.                                               *)
IsList(s) == \E S : s \in Seq(S)
IsTable(t) == t = [id |-> t.id, shows |-> t.shows]
IsHandle(x) ==
    x = [opts |-> x.opts, owned |-> x.owned, runs |-> x.runs, pass |-> x.pass, live |-> x.live,
         timer |-> x.timer, disposed |-> x.disposed, broken |-> x.broken]
IsWriting(p) ==
    /\ p = [step |-> p.step, pages |-> p.pages, at |-> p.at, tables |-> p.tables]
    /\ IsList(p.pages) /\ IsList(p.tables) /\ p.at \in Nat \ {0}
IsPass(p) ==
    \/ p = NoPass \/ p = [step |-> "frames"]
    \/ p.step = "paginate" /\ p = [step |-> "paginate", frames |-> p.frames] /\ p.frames \in Seq(Nat)
    \/ p.step \in {"write", "pour", "empty"} /\ IsWriting(p)

HandleOK(x) ==
    /\ IsHandle(x) /\ IsList(x.owned) /\ IsList(x.runs) /\ IsPass(x.pass)
    /\ x.pass # NoPass => x.runs # <<>>
HandlesOK == IsList(handles) /\ \A h \in 1 .. Len(handles) : HandleOK(handles[h])

(* No two tables of the story are one. *)
StoryOK ==
    /\ IsList(story) /\ minted \in Nat
    /\ \A t \in 1 .. Len(story) : IsTable(story[t]) /\ story[t].id \in 1 .. minted
    /\ \A t, u \in 1 .. Len(story) : story[t].id = story[u].id => t = u

PlacesOK == layout \in Seq(Nat) /\ active \in 0 .. Len(handles)

(* Two lists name the same tables, up to some place or altogether. *)
Begins(few, many, n) ==
    Len(few) = n /\ n <= Len(many) /\ \A t \in 1 .. n : few[t].id = many[t].id
Same(s, t) == Begins(s, t, Len(t))

(* What a pass has done to the story so far: up to the tables its handle    *)
(* owns, nothing; beyond, it has added its own.                             *)
Underway(tables, p, owned) ==
    CASE p.step = "write" ->
            /\ p.at <= Len(p.pages) + 1
            /\ IF p.at <= Len(owned) + 1 THEN Begins(p.tables, owned, p.at - 1) /\ Same(tables, owned)
               ELSE Same(tables, p.tables)
      [] p.step = "pour" -> p.at \in Len(owned) + 1 .. Len(p.pages) /\ Same(tables, p.tables)
      [] p.step = "empty" ->
            /\ p.at \in 1 .. Len(owned) - Len(p.pages)
            /\ Begins(p.tables, owned, Len(p.pages) + p.at - 1) /\ Same(tables, owned)
      [] OTHER -> Same(tables, owned)

Begun(x) == x.runs # <<>> /\ Head(x.runs) = "first"

(* The last handle is the only one that counts: any other is disposed and   *)
(* rests.  Without a chain there is nothing in the story but what a first   *)
(* pagination is putting there.                                             *)
OneHandle ==
    /\ active \in {0, Len(handles)}
    /\ \A h \in 1 .. Len(handles) - 1 : handles[h].disposed
    /\ \A h \in 1 .. Len(handles) : handles[h].disposed => handles[h].pass = NoPass
    /\ handles = <<>> => story = <<>>
    /\ handles # <<>> =>
        /\ Underway(story, handles[Len(handles)].pass, handles[Len(handles)].owned)
        /\ active = 0 => /\ handles[Len(handles)].owned = <<>>
                         /\ handles[Len(handles)].disposed \/ Begun(handles[Len(handles)])

Orderly == lapses \cap {"crossed", "threw"} = {} => OneHandle

IInv == HandlesOK /\ StoryOK /\ PlacesOK /\ Orderly

-----------------------------------------------------------------------------
(* Lists *)

LEMMA ListShape ==
    ASSUME NEW s, IsList(s)
    PROVE  Len(s) \in Nat /\ DOMAIN s = 1 .. Len(s) /\ (s = <<>> <=> Len(s) = 0)
  BY DEF IsList

LEMMA ListFrom ==
    ASSUME NEW n \in Nat, NEW f, f = [i \in 1 .. n |-> f[i]]
    PROVE  IsList(f) /\ Len(f) = n
  <1>1. f \in Seq({f[i] : i \in 1 .. n})  OBVIOUS
  <1>2. IsList(f)  BY <1>1 DEF IsList
  <1>3. Len(f) = n  BY <1>1
  <1> QED  BY <1>2, <1>3

LEMMA ListAppend ==
    ASSUME NEW s, IsList(s), NEW x
    PROVE  /\ IsList(Append(s, x)) /\ Len(Append(s, x)) = Len(s) + 1 /\ Append(s, x) # <<>>
           /\ Append(s, x)[Len(s) + 1] = x /\ \A i \in 1 .. Len(s) : Append(s, x)[i] = s[i]
           /\ Head(Append(s, x)) = IF s = <<>> THEN x ELSE Head(s)
  <1>1. PICK S : s \in Seq(S)  BY DEF IsList
  <1>2. s \in Seq(S \cup {x})  BY <1>1
  <1>3. Append(s, x) \in Seq(S \cup {x})  BY <1>2
  <1>4. IsList(Append(s, x))  BY <1>3 DEF IsList
  <1>5. /\ Len(Append(s, x)) = Len(s) + 1 /\ Append(s, x) # <<>>
        /\ Append(s, x)[Len(s) + 1] = x /\ \A i \in 1 .. Len(s) : Append(s, x)[i] = s[i]
    BY <1>2
  <1>6. Head(Append(s, x)) = IF s = <<>> THEN x ELSE Head(s)
    <2>1. Head(Append(s, x)) = Append(s, x)[1]  BY <1>3, <1>5
    <2>2. CASE s = <<>>  BY <2>1, <2>2, <1>5
    <2>3. CASE s # <<>>
      <3>1. Head(s) = s[1] /\ 1 \in 1 .. Len(s)  BY <1>1, <2>3
      <3> QED  BY <2>1, <2>3, <3>1, <1>5
    <2> QED  BY <2>2, <2>3
  <1> QED  BY <1>4, <1>5, <1>6

LEMMA ListTail ==
    ASSUME NEW s, IsList(s), s # <<>>
    PROVE  IsList(Tail(s))
  BY DEF IsList

LEMMA ListSub ==
    ASSUME NEW s, IsList(s), NEW m \in Nat \ {0}, NEW n \in Nat, n <= Len(s)
    PROVE  /\ IsList(SubSeq(s, m, n))
           /\ Len(SubSeq(s, m, n)) = IF m <= n THEN n - m + 1 ELSE 0
           /\ \A i \in 1 .. n - m + 1 : SubSeq(s, m, n)[i] = s[m + i - 1]
  <1>1. PICK S : s \in Seq(S)  BY DEF IsList
  <1>2. SubSeq(s, m, n) \in Seq(S)  BY <1>1
  <1>3. IsList(SubSeq(s, m, n))  BY <1>2 DEF IsList
  <1> QED  BY <1>1, <1>3

With(s, i, x) == [s EXCEPT ![i] = x]

LEMMA ListWith ==
    ASSUME NEW s, IsList(s), NEW i \in 1 .. Len(s), NEW x
    PROVE  /\ IsList(With(s, i, x)) /\ Len(With(s, i, x)) = Len(s) /\ With(s, i, x)[i] = x
           /\ \A j \in 1 .. Len(s) : j # i => With(s, i, x)[j] = s[j]
  <1> USE DEF With
  <1> DEFINE f == [s EXCEPT ![i] = x]
  <1>1. Len(s) \in Nat /\ DOMAIN s = 1 .. Len(s)  BY ListShape
  <1>2. f = [j \in 1 .. Len(s) |-> f[j]]  BY <1>1
  <1>3. IsList(f) /\ Len(f) = Len(s)  BY <1>1, <1>2, ListFrom
  <1> QED  BY <1>1, <1>3

LEMMA ListMap ==
    ASSUME NEW s, IsList(s), NEW f, f = [i \in 1 .. Len(s) |-> f[i]]
    PROVE  IsList(f) /\ Len(f) = Len(s)
  BY ListShape, ListFrom

-----------------------------------------------------------------------------
(* The least of some numbers, by which the recursions below are followed. *)
Less == {p \in Nat \X Nat : p[1] < p[2]}

LEMMA LessWellFounded == IsWellFoundedOn(Less, Nat)
  <1>1. Less = OpToRel(<, Nat)  BY Zenon DEF Less, OpToRel
  <1> QED  BY <1>1, NatLessThanWellFounded, Zenon

LEMMA LeastNatural ==
    ASSUME NEW S \in SUBSET Nat, S # {}
    PROVE  \E n \in S : \A m \in S : n <= m
  <1>1. PICK x \in S : \A y \in S : ~(<<y, x>> \in Less)
    BY LessWellFounded, WFMin, Zenon
  <1>2. \A y \in S : ~(y < x)  BY <1>1 DEF Less
  <1> QED  BY <1>2

(* The elements of a list at some places. *)
UpTo(kept, t) == {u \in kept : u <= t}

LEMMA UpToGrows ==
    ASSUME NEW kept \in SUBSET Nat, NEW k \in Nat
    PROVE  /\ UpTo(kept, 0) \subseteq {0} /\ k + 1 \notin UpTo(kept, k)
           /\ UpTo(kept, k + 1) = IF k + 1 \in kept THEN UpTo(kept, k) \cup {k + 1} ELSE UpTo(kept, k)
  <1>1. \A u \in kept : u \in Nat  OBVIOUS
  <1>2. \A u \in Nat : u <= k + 1 <=> u <= k \/ u = k + 1  OBVIOUS
  <1>3. \A u \in Nat : u <= 0 => u = 0  OBVIOUS
  <1>4. UpTo(kept, 0) \subseteq {0}  BY <1>1, <1>3 DEF UpTo
  <1>5. k + 1 \notin UpTo(kept, k)  BY DEF UpTo
  <1>6. CASE k + 1 \in kept
    <2>1. UpTo(kept, k + 1) = UpTo(kept, k) \cup {k + 1}  BY <1>1, <1>2, <1>6 DEF UpTo
    <2> QED  BY <1>4, <1>5, <1>6, <2>1
  <1>7. CASE k + 1 \notin kept
    <2>1. UpTo(kept, k + 1) = UpTo(kept, k)  BY <1>1, <1>2, <1>7 DEF UpTo
    <2> QED  BY <1>4, <1>5, <1>7, <2>1
  <1> QED  BY <1>6, <1>7

(* Every place up to the size of a set of numbers is the place of one. *)
LEMMA PlacesTaken ==
    ASSUME NEW m \in Nat, NEW kept \in SUBSET (1 .. m), NEW i \in 1 .. Cardinality(kept)
    PROVE  \E t \in kept : Cardinality(UpTo(kept, t)) = i
  <1>0. kept \in SUBSET Nat /\ 0 \notin kept  OBVIOUS
  <1>1. IsFiniteSet(kept)
    <2>1. IsFiniteSet(1 .. m)  BY FS_Interval
    <2> QED  BY <2>1, FS_Subset
  <1>2. ASSUME NEW t \in Nat
        PROVE  IsFiniteSet(UpTo(kept, t)) /\ Cardinality(UpTo(kept, t)) \in Nat
    <2>1. UpTo(kept, t) \subseteq kept  BY DEF UpTo
    <2>2. IsFiniteSet(UpTo(kept, t))  BY <1>1, <2>1, FS_Subset
    <2> QED  BY <2>2, FS_CardinalityType
  <1>c. Cardinality(kept) \in Nat  BY <1>1, FS_CardinalityType
  <1>i. i \in Nat /\ i >= 1 /\ i <= Cardinality(kept)  BY <1>c
  <1> DEFINE high == {t \in Nat : Cardinality(UpTo(kept, t)) >= i}
  <1>3. m \in high
    <2>1. \A u \in kept : u <= m  OBVIOUS
    <2>2. UpTo(kept, m) = kept  BY <2>1 DEF UpTo
    <2> QED  BY <1>i, <1>c, <2>2
  <1>4. PICK t \in high : \A k \in high : t <= k
    <2>1. high \in SUBSET Nat /\ high # {}  BY <1>3
    <2> HIDE DEF high
    <2> QED  BY <2>1, LeastNatural
  <1>5. t \in Nat /\ Cardinality(UpTo(kept, t)) >= i  OBVIOUS
  <1>6. t # 0
    <2>1. UpTo(kept, 0) = {}  BY <1>0, UpToGrows DEF UpTo
    <2>2. Cardinality(UpTo(kept, 0)) = 0  BY <2>1, FS_EmptySet
    <2> QED  BY <1>5, <1>i, <2>2
  <1>7. PICK k \in Nat : t = k + 1
    <2>1. t - 1 \in Nat /\ t = (t - 1) + 1  BY <1>5, <1>6
    <2> QED  BY <2>1
  <1>8. Cardinality(UpTo(kept, k)) < i
    <2>1. ~(t <= k)  BY <1>5, <1>7
    <2>2. k \notin high  BY <1>4, <2>1
    <2>3. ~(Cardinality(UpTo(kept, k)) >= i)  BY <2>2
    <2>4. Cardinality(UpTo(kept, k)) \in Nat  BY <1>2
    <2> QED  BY <2>3, <2>4, <1>i
  <1>h. Cardinality(UpTo(kept, k)) \in Nat  BY <1>2
  <1> HIDE DEF high
  <1>9. t \in kept
    <2> SUFFICES ASSUME t \notin kept PROVE FALSE  OBVIOUS
    <2>1. UpTo(kept, t) = UpTo(kept, k)  BY <1>0, <1>7, UpToGrows
    <2> QED  BY <1>5, <1>8, <1>h, <1>i, <2>1
  <1>10. Cardinality(UpTo(kept, t)) = Cardinality(UpTo(kept, k)) + 1
    <2>1. UpTo(kept, t) = UpTo(kept, k) \cup {t} /\ t \notin UpTo(kept, k)
      BY <1>0, <1>7, <1>9, UpToGrows
    <2>2. IsFiniteSet(UpTo(kept, k))  BY <1>2
    <2> QED  BY <2>1, <2>2, FS_AddElement
  <1>11. Cardinality(UpTo(kept, t)) = i  BY <1>5, <1>8, <1>10, <1>h, <1>i
  <1> QED  BY <1>9, <1>11

At(kept, i) == CHOOSE t \in kept : Cardinality(UpTo(kept, t)) = i

LEMMA AtPlace ==
    ASSUME NEW m \in Nat, NEW kept \in SUBSET (1 .. m), NEW i \in 1 .. Cardinality(kept)
    PROVE  At(kept, i) \in kept /\ Cardinality(UpTo(kept, At(kept, i))) = i
  <1>1. \E t \in kept : Cardinality(UpTo(kept, t)) = i  BY PlacesTaken
  <1> QED  BY <1>1 DEF At

LEMMA CardOfNats ==
    ASSUME NEW m \in Nat, NEW kept \in SUBSET (1 .. m)
    PROVE  /\ IsFiniteSet(kept) /\ Cardinality(kept) \in Nat
           /\ \A t : IsFiniteSet(UpTo(kept, t)) /\ Cardinality(UpTo(kept, t)) \in Nat
  <1>1. IsFiniteSet(kept)
    <2>1. IsFiniteSet(1 .. m)  BY FS_Interval
    <2> QED  BY <2>1, FS_Subset
  <1>2. ASSUME NEW t PROVE IsFiniteSet(UpTo(kept, t)) /\ Cardinality(UpTo(kept, t)) \in Nat
    <2>1. UpTo(kept, t) \subseteq kept  BY DEF UpTo
    <2>2. IsFiniteSet(UpTo(kept, t))  BY <1>1, <2>1, FS_Subset
    <2> QED  BY <2>2, FS_CardinalityType
  <1> QED  BY <1>1, <1>2, FS_CardinalityType

LEMMA PlacesDiffer ==
    ASSUME NEW m \in Nat, NEW kept \in SUBSET (1 .. m), NEW t \in kept, NEW u \in kept,
           Cardinality(UpTo(kept, t)) = Cardinality(UpTo(kept, u))
    PROVE  t = u
  <1>1. ASSUME NEW x \in kept, NEW y \in kept, x < y
        PROVE  Cardinality(UpTo(kept, x)) < Cardinality(UpTo(kept, y))
    <2>0. \A v \in kept : v \in Nat  OBVIOUS
    <2>a. \A v \in kept : v <= x => v <= y /\ v # y  BY <1>1, <2>0
    <2>1. UpTo(kept, x) \subseteq UpTo(kept, y) \ {y}  BY <2>a DEF UpTo
    <2>2. y \in UpTo(kept, y)  BY DEF UpTo
    <2>3. IsFiniteSet(UpTo(kept, y)) /\ Cardinality(UpTo(kept, y)) \in Nat  BY CardOfNats
    <2>4. IsFiniteSet(UpTo(kept, y) \ {y}) /\ Cardinality(UpTo(kept, y) \ {y}) = Cardinality(UpTo(kept, y)) - 1
      BY <2>2, <2>3, FS_RemoveElement
    <2>5. Cardinality(UpTo(kept, x)) <= Cardinality(UpTo(kept, y) \ {y})  BY <2>1, <2>4, FS_Subset
    <2>6. Cardinality(UpTo(kept, x)) \in Nat  BY CardOfNats
    <2> QED  BY <2>3, <2>4, <2>5, <2>6
  <1>2. Cardinality(UpTo(kept, t)) \in Nat  BY CardOfNats
  <1>3. ~(t < u) /\ ~(u < t)  BY <1>1, <1>2
  <1> QED  BY <1>3

LEMMA KeepingShape ==
    ASSUME NEW list, NEW m \in Nat, NEW kept \in SUBSET (1 .. m)
    PROVE  /\ IsList(Keeping(list, kept)) /\ Len(Keeping(list, kept)) = Cardinality(kept)
           /\ Cardinality(kept) \in Nat
           /\ \A i \in 1 .. Cardinality(kept) : Keeping(list, kept)[i] = list[At(kept, i)]
  <1> DEFINE r == Keeping(list, kept)
  <1>1. r = [i \in 1 .. Cardinality(kept) |-> list[At(kept, i)]]  BY DEF Keeping, At, UpTo
  <1>2. Cardinality(kept) \in Nat  BY CardOfNats
  <1> HIDE DEF r
  <1>3. r = [i \in 1 .. Cardinality(kept) |-> r[i]]  BY <1>1
  <1>4. IsList(r) /\ Len(r) = Cardinality(kept)  BY <1>2, <1>3, ListFrom
  <1>5. \A i \in 1 .. Cardinality(kept) : r[i] = list[At(kept, i)]  BY <1>1
  <1> QED  BY <1>2, <1>4, <1>5 DEF r

(* The first place comes first, the others as they stand without it. *)
Ahead(x, kept) == \A t \in kept : x < t
FirstOf(list, more, kept, x) ==
    /\ Cardinality(more) = Cardinality(kept) + 1 /\ Keeping(list, more)[1] = list[x]
    /\ \A i \in 1 .. Cardinality(kept) : Keeping(list, more)[i + 1] = Keeping(list, kept)[i]

LEMMA KeepingFirst ==
    ASSUME NEW list, NEW m \in Nat, NEW kept \in SUBSET (1 .. m), NEW x \in 1 .. m,
           Ahead(x, kept), NEW more, more = kept \cup {x}
    PROVE  FirstOf(list, more, kept, x)
  <1>0. more \in SUBSET (1 .. m) /\ x \notin kept /\ x \in more  BY DEF Ahead
  <1>1. IsFiniteSet(kept) /\ Cardinality(kept) \in Nat  BY CardOfNats
  <1>2. Cardinality(more) = Cardinality(kept) + 1  BY <1>0, <1>1, FS_AddElement
  <1>3. At(more, 1) = x
    <2>a. \A u \in more : u <= x <=> u = x  BY DEF Ahead
    <2>b. x \in more  OBVIOUS
    <2>1. UpTo(more, x) = {x}  BY <2>a, <2>b DEF UpTo
    <2>2. Cardinality(UpTo(more, x)) = 1  BY <2>1, FS_Singleton
    <2>3. 1 \in 1 .. Cardinality(more)  BY <1>1, <1>2
    <2>4. At(more, 1) \in more /\ Cardinality(UpTo(more, At(more, 1))) = 1  BY <1>0, <2>3, AtPlace
    <2> QED  BY <1>0, <2>2, <2>4, PlacesDiffer
  <1>4. ASSUME NEW i \in 1 .. Cardinality(kept) PROVE At(more, i + 1) = At(kept, i)
    <2> DEFINE t == At(kept, i)
    <2>1. t \in kept /\ Cardinality(UpTo(kept, t)) = i  BY AtPlace
    <2> HIDE DEF t
    <2>2. UpTo(more, t) = UpTo(kept, t) \cup {x} /\ x \notin UpTo(kept, t)
      BY <1>0, <2>1 DEF UpTo, Ahead
    <2>3. IsFiniteSet(UpTo(kept, t))  BY CardOfNats
    <2>4. Cardinality(UpTo(more, t)) = i + 1  BY <2>1, <2>2, <2>3, FS_AddElement
    <2>5. i + 1 \in 1 .. Cardinality(more) /\ t \in more  BY <1>1, <1>2, <2>1
    <2>6. At(more, i + 1) \in more /\ Cardinality(UpTo(more, At(more, i + 1))) = i + 1
      BY <1>0, <2>5, AtPlace
    <2>7. At(more, i + 1) = t  BY <1>0, <2>4, <2>5, <2>6, PlacesDiffer
    <2> QED  BY <2>7 DEF t
  <1>5. \A i \in 1 .. Cardinality(more) : Keeping(list, more)[i] = list[At(more, i)]
    BY <1>0, KeepingShape
  <1>6. \A i \in 1 .. Cardinality(kept) : Keeping(list, kept)[i] = list[At(kept, i)]
    BY KeepingShape
  <1>7. Keeping(list, more)[1] = list[x]
    <2>1. 1 \in 1 .. Cardinality(more)  BY <1>1, <1>2
    <2> QED  BY <1>3, <1>5, <2>1
  <1>8. ASSUME NEW i \in 1 .. Cardinality(kept) PROVE Keeping(list, more)[i + 1] = Keeping(list, kept)[i]
    <2>1. i + 1 \in 1 .. Cardinality(more)  BY <1>1, <1>2
    <2> QED  BY <1>4, <1>5, <1>6, <2>1
  <1> QED  BY <1>2, <1>7, <1>8 DEF FirstOf

LEMMA ListInsert ==
    ASSUME NEW s, IsList(s), NEW j \in 1 .. Len(s) + 1, NEW e
    PROVE  /\ IsList(InsertAt(s, j, e)) /\ Len(InsertAt(s, j, e)) = Len(s) + 1
           /\ InsertAt(s, j, e)[j] = e
           /\ \A k \in 1 .. j - 1 : InsertAt(s, j, e)[k] = s[k]
           /\ \A k \in j .. Len(s) : InsertAt(s, j, e)[k + 1] = s[k]
  <1>1. PICK S : s \in Seq(S)  BY DEF IsList
  <1>n. Len(s) \in Nat  BY ListShape
  <1> DEFINE T == S \cup {e}
             front == SubSeq(s, 1, j - 1)
             back == SubSeq(s, j, Len(s))
             r == front \o <<e>> \o back
  <1>2. front \in Seq(T) /\ back \in Seq(T) /\ <<e>> \in Seq(T)  BY <1>1, <1>n
  <1>3. Len(front) = j - 1 /\ \A k \in 1 .. j - 1 : front[k] = s[k]  BY <1>1, <1>n
  <1>4. Len(back) = Len(s) + 1 - j /\ \A k \in 1 .. Len(s) + 1 - j : back[k] = s[j + k - 1]
    BY <1>1, <1>n
  <1> HIDE DEF front, back, T
  <1> DEFINE start == front \o <<e>>
  <1>5. start \in Seq(T) /\ Len(start) = j /\ start[j] = e /\ \A k \in 1 .. j - 1 : start[k] = s[k]
    BY <1>2, <1>3, <1>n
  <1> HIDE DEF start
  <1>6. r = start \o back  BY DEF start
  <1>7. /\ r \in Seq(T) /\ Len(r) = j + Len(back) /\ \A k \in 1 .. j : r[k] = start[k]
        /\ \A k \in 1 .. Len(back) : r[j + k] = back[k]
    <2>1. r \in Seq(T)  BY <1>2, <1>5, <1>6
    <2>2. Len(r) = j + Len(back)  BY <1>2, <1>5, <1>6, ConcatProperties
    <2>3. \A k \in 1 .. j : r[k] = start[k]  BY <1>2, <1>5, <1>6
    <2>4. \A k \in 1 .. Len(back) : r[j + k] = back[k]
      <3> TAKE k \in 1 .. Len(back)
      <3>1. Len(back) \in Nat /\ Len(start) = j /\ j \in Nat  BY <1>2, <1>5, <1>n
      <3>2. j + k \in 1 .. Len(start) + Len(back) /\ j + k > Len(start) /\ (j + k) - Len(start) = k
        BY <3>1
      <3>3. start \in Seq(T) /\ back \in Seq(T)  BY <1>2, <1>5
      <3>4. \A i \in 1 .. Len(start) + Len(back) :
                (start \o back)[i] = IF i <= Len(start) THEN start[i] ELSE back[i - Len(start)]
        BY <3>3, ConcatProperties
      <3> HIDE DEF r
      <3>5. ~(j + k <= Len(start))  BY <3>1, <3>2
      <3>6. (start \o back)[j + k] = back[(j + k) - Len(start)]  BY <3>2, <3>4, <3>5
      <3> QED  BY <1>6, <3>2, <3>6
    <2> QED  BY <2>1, <2>2, <2>3, <2>4
  <1>8. InsertAt(s, j, e) = r  BY DEF InsertAt, front, back
  <1> HIDE DEF r
  <1>9. IsList(r) /\ Len(r) = Len(s) + 1  BY <1>4, <1>7, <1>n DEF IsList
  <1>10. r[j] = e /\ \A k \in 1 .. j - 1 : r[k] = s[k]  BY <1>5, <1>7, <1>n
  <1>11. ASSUME NEW k \in j .. Len(s) PROVE r[k + 1] = s[k]
    <2>1. k - j + 1 \in 1 .. Len(back) /\ k - j + 1 \in 1 .. Len(s) + 1 - j  BY <1>4, <1>n
    <2>2. r[j + (k - j + 1)] = s[j + (k - j + 1) - 1]  BY <1>4, <1>7, <2>1
    <2>3. j + (k - j + 1) = k + 1 /\ j + (k - j + 1) - 1 = k  BY <1>n
    <2> QED  BY <2>2, <2>3
  <1> QED  BY <1>8, <1>9, <1>10, <1>11

LEMMA MinOf ==
    ASSUME NEW S \in SUBSET Nat, S # {}
    PROVE  Min(S) \in S /\ \A x \in S : Min(S) <= x
  <1>1. \E n \in S : \A m \in S : n <= m  BY LeastNatural
  <1> QED  BY <1>1 DEF Min

LEMMA MaxOf ==
    ASSUME NEW n \in Nat, NEW S \in SUBSET (0 .. n), S # {}
    PROVE  Max(S) \in S /\ \A x \in S : x <= Max(S)
  <1> DEFINE Above == {k \in Nat : \A x \in S : x <= k}
  <1>0. n \in Above  OBVIOUS
  <1>1. Above \in SUBSET Nat /\ Above # {}  BY <1>0
  <1>2. PICK top \in Above : \A k \in Above : top <= k  BY <1>1, LeastNatural
  <1>3. ASSUME top \notin S PROVE FALSE
    <2>1. \A x \in S : x \in Nat /\ x < top  BY <1>2, <1>3
    <2>2. top > 0
      <3>1. PICK x \in S : TRUE  OBVIOUS
      <3> QED  BY <3>1, <2>1, <1>2
    <2>3. top - 1 \in Above  BY <2>1, <2>2, <1>2
    <2> QED  BY <2>3, <1>2
  <1>4. \E x \in S : \A y \in S : x >= y  BY <1>2, <1>3
  <1>5. Max(S) \in S /\ \A y \in S : Max(S) >= y  BY <1>4 DEF Max
  <1> QED  BY <1>5

-----------------------------------------------------------------------------
(* Refreshing a table: the rows that are kept *)

(* Pairs that go down both lists: no row is in two of them, none cross. *)
Descends(pairs) == \A p, q \in pairs : p[1] < q[1] <=> p[2] < q[2]
Between(lo, hi, from, to) == (lo .. hi) \X (from .. to)

(* What is left of the lists at a cut. *)
Left(a, b, p) == (Len(a) + 1 - p[1]) + (Len(b) + 1 - p[2])
CutsLeft(a, b, m) == {p \in Cuts(a, b) : Left(a, b, p) <= m}

(* One step of the recursion of Matched; which way it goes where the rows   *)
(* differ does not matter.                                                  *)
Inside(a, b, p) == ~(p[1] > Len(a) \/ p[2] > Len(b))
Down(p) == <<p[1] + 1, p[2]>>
Over(p) == <<p[1], p[2] + 1>>
Past(p) == <<p[1] + 1, p[2] + 1>>
MatchStep(a, b, f, p) ==
    IF p[1] > Len(a) \/ p[2] > Len(b) THEN {}
    ELSE IF a[p[1]] = b[p[2]] THEN {p} \cup f[Past(p)]
         ELSE IF Common(a, b)[Down(p)] >= Common(a, b)[Over(p)] THEN f[Down(p)] ELSE f[Over(p)]

LEMMA CutFacts ==
    ASSUME NEW a, IsList(a), NEW b, IsList(b), NEW p \in Cuts(a, b)
    PROVE  /\ p = <<p[1], p[2]>> /\ p[1] \in 1 .. Len(a) + 1 /\ p[2] \in 1 .. Len(b) + 1
           /\ Left(a, b, p) \in Nat
           /\ Inside(a, b, p) =>
                 \A q \in {Down(p), Over(p), Past(p)} :
                     q \in Cuts(a, b) /\ Left(a, b, q) <= Left(a, b, p) - 1
  <1>1. Len(a) \in Nat /\ Len(b) \in Nat  BY ListShape
  <1>2. p = <<p[1], p[2]>> /\ p[1] \in 1 .. Len(a) + 1 /\ p[2] \in 1 .. Len(b) + 1  BY DEF Cuts
  <1>3. Left(a, b, p) \in Nat  BY <1>1, <1>2 DEF Left
  <1>4. ASSUME Inside(a, b, p), NEW q \in {Down(p), Over(p), Past(p)}
        PROVE  q \in Cuts(a, b) /\ Left(a, b, q) <= Left(a, b, p) - 1
    <2>1. p[1] + 1 \in 1 .. Len(a) + 1 /\ p[2] + 1 \in 1 .. Len(b) + 1  BY <1>1, <1>2, <1>4 DEF Inside
    <2>2. q \in Cuts(a, b)  BY <1>2, <1>4, <2>1 DEF Cuts, Down, Over, Past
    <2>3. q[1] \in {p[1], p[1] + 1} /\ q[2] \in {p[2], p[2] + 1} /\ (q[1] # p[1] \/ q[2] # p[2])
      BY <1>2, <1>4 DEF Down, Over, Past
    <2>4. q[1] \in Nat /\ q[2] \in Nat /\ q[1] + q[2] >= p[1] + p[2] + 1  BY <1>1, <1>2, <2>3
    <2>5. Left(a, b, q) <= Left(a, b, p) - 1
      <3> DEFINE n == Len(a)
                 m == Len(b)
                 i == p[1]
                 j == p[2]
                 k == q[1]
                 l == q[2]
      <3>1. n \in Nat /\ m \in Nat /\ i \in Nat /\ j \in Nat /\ k \in Nat /\ l \in Nat /\ k + l >= i + j + 1
        BY <1>1, <1>2, <2>4
      <3>2. Left(a, b, q) = (n + 1 - k) + (m + 1 - l) /\ Left(a, b, p) = (n + 1 - i) + (m + 1 - j)
        BY DEF Left
      <3> HIDE DEF n, m, i, j, k, l
      <3> QED  BY <3>1, <3>2
    <2> QED  BY <2>2, <2>5
  <1> QED  BY <1>2, <1>3, <1>4

LEMMA MatchStepLocal ==
    ASSUME NEW a, NEW b, NEW p, NEW f, NEW g,
           Inside(a, b, p) => \A q \in {Down(p), Over(p), Past(p)} : f[q] = g[q]
    PROVE  MatchStep(a, b, f, p) = MatchStep(a, b, g, p)
  <1>1. CASE p[1] > Len(a) \/ p[2] > Len(b)  BY <1>1 DEF MatchStep
  <1>2. CASE ~(p[1] > Len(a) \/ p[2] > Len(b)) /\ Inside(a, b, p)
    <2>1. f[Past(p)] = g[Past(p)] /\ f[Down(p)] = g[Down(p)] /\ f[Over(p)] = g[Over(p)]
      BY <1>2
    <2> QED  BY <2>1 DEF MatchStep
  <1> QED  BY <1>1, <1>2 DEF Inside

(* The recursion has a solution, ... *)
Solves(a, b, f, m) == f = [p \in CutsLeft(a, b, m) |-> MatchStep(a, b, f, p)]
Solvable(a, b, m) == \E f : Solves(a, b, f, m)

LEMMA MatchSolved ==
    ASSUME NEW a, IsList(a), NEW b, IsList(b), NEW m \in Nat
    PROVE  Solvable(a, b, m)
  <1> DEFINE Unsolved == {n \in Nat : ~Solvable(a, b, n)}
  <1> SUFFICES ASSUME Unsolved # {} PROVE FALSE  OBVIOUS
  <1>1. PICK n \in Unsolved : \A i \in Unsolved : n <= i  BY LeastNatural
  <1>2. PICK f : \A p \in Cuts(a, b) : Left(a, b, p) <= n - 1 => f[p] = MatchStep(a, b, f, p)
    <2>1. CASE n = 0
      <3>1. \A p \in Cuts(a, b) : ~(Left(a, b, p) <= n - 1)  BY <2>1, CutFacts
      <3> QED  BY <3>1
    <2>2. CASE n # 0
      <3>1. n - 1 \in Nat /\ n - 1 \notin Unsolved  BY <1>1, <2>2
      <3>2. PICK f : Solves(a, b, f, n - 1)  BY <3>1 DEF Solvable
      <3>3. \A p \in CutsLeft(a, b, n - 1) : f[p] = MatchStep(a, b, f, p)  BY <3>2 DEF Solves
      <3> QED  BY <3>3 DEF CutsLeft
    <2> QED  BY <2>1, <2>2
  <1> DEFINE g == [p \in CutsLeft(a, b, n) |-> MatchStep(a, b, f, p)]
  <1>3. ASSUME NEW p \in CutsLeft(a, b, n) PROVE g[p] = MatchStep(a, b, g, p)
    <2>1. p \in Cuts(a, b) /\ Left(a, b, p) <= n /\ Left(a, b, p) \in Nat  BY CutFacts DEF CutsLeft
    <2>2. ASSUME Inside(a, b, p), NEW q \in {Down(p), Over(p), Past(p)} PROVE f[q] = g[q]
      <3>1. q \in Cuts(a, b) /\ Left(a, b, q) <= Left(a, b, p) - 1 /\ Left(a, b, q) \in Nat
        BY <2>1, <2>2, CutFacts
      <3>2. q \in CutsLeft(a, b, n) /\ Left(a, b, q) <= n - 1  BY <1>1, <2>1, <3>1 DEF CutsLeft
      <3>3. g[q] = MatchStep(a, b, f, q)  BY <3>2
      <3>4. f[q] = MatchStep(a, b, f, q)  BY <1>2, <3>1, <3>2
      <3> QED  BY <3>3, <3>4
    <2> HIDE DEF g
    <2>3. MatchStep(a, b, f, p) = MatchStep(a, b, g, p)  BY <2>2, MatchStepLocal
    <2>4. g[p] = MatchStep(a, b, f, p)  BY DEF g
    <2> QED  BY <2>3, <2>4
  <1>4. g = [p \in CutsLeft(a, b, n) |-> g[p]]  OBVIOUS
  <1> HIDE DEF g
  <1>5. Solves(a, b, g, n)  BY <1>3, <1>4 DEF Solves
  <1> QED  BY <1>1, <1>5 DEF Solvable

(* ... whose pairs descend, below and beyond the cut. *)
Sound(a, b, pairs, p) ==
    Descends(pairs) /\ pairs \subseteq Between(p[1], Len(a), p[2], Len(b))

LEMMA MatchStepSound ==
    ASSUME NEW a, IsList(a), NEW b, IsList(b), NEW p \in Cuts(a, b), NEW f,
           Inside(a, b, p) => \A q \in {Down(p), Over(p), Past(p)} : Sound(a, b, f[q], q)
    PROVE  Sound(a, b, MatchStep(a, b, f, p), p)
  <1>1. CASE ~Inside(a, b, p)  BY <1>1 DEF Inside, MatchStep, Sound, Descends
  <1>2. CASE Inside(a, b, p)
    <2>1. /\ Len(a) \in Nat /\ Len(b) \in Nat /\ p[1] \in 1 .. Len(a) /\ p[2] \in 1 .. Len(b)
          /\ p = <<p[1], p[2]>>
      <3>1. Len(a) \in Nat /\ Len(b) \in Nat  BY ListShape
      <3> QED  BY <1>2, <3>1, CutFacts DEF Inside
    <2> DEFINE i == p[1]
               j == p[2]
    <2>i. i \in 1 .. Len(a) /\ j \in 1 .. Len(b) /\ p = <<i, j>>  BY <2>1
    <2>2. /\ Sound(a, b, f[Down(p)], Down(p)) /\ Sound(a, b, f[Over(p)], Over(p))
          /\ Sound(a, b, f[Past(p)], Past(p))
      BY <1>2
    <2>3. /\ Down(p)[1] = i + 1 /\ Down(p)[2] = j /\ Over(p)[1] = i /\ Over(p)[2] = j + 1
          /\ Past(p)[1] = i + 1 /\ Past(p)[2] = j + 1
      BY DEF Down, Over, Past
    <2> HIDE DEF i, j
    <2>4. Sound(a, b, f[Down(p)], p) /\ Sound(a, b, f[Over(p)], p)
      <3>1. /\ Between(i + 1, Len(a), j, Len(b)) \subseteq Between(i, Len(a), j, Len(b))
            /\ Between(i, Len(a), j + 1, Len(b)) \subseteq Between(i, Len(a), j, Len(b))
        BY <2>1, <2>i DEF Between
      <3> QED  BY <2>2, <2>3, <3>1 DEF Sound, i, j
    <2>5. Sound(a, b, {p} \cup f[Past(p)], p)
      <3> DEFINE rest == f[Past(p)]
      <3>1. Descends(rest) /\ rest \subseteq Between(i + 1, Len(a), j + 1, Len(b))
        BY <2>2, <2>3 DEF Sound
      <3> HIDE DEF rest
      <3>2. ASSUME NEW r \in rest
            PROVE  r[1] \in i + 1 .. Len(a) /\ r[2] \in j + 1 .. Len(b) /\ r = <<r[1], r[2]>>
        BY <3>1 DEF Between
      <3>3. ASSUME NEW r \in {p} \cup rest
            PROVE  r \in Between(i, Len(a), j, Len(b))
        BY <2>1, <2>i, <3>2 DEF Between
      <3>4. ASSUME NEW r \in rest PROVE i < r[1] /\ j < r[2] /\ ~(r[1] < i) /\ ~(r[2] < j)
        BY <2>1, <2>i, <3>2
      <3>5. ~(i < i) /\ ~(j < j)  BY <2>i
      <3>6. \A r, q \in {p} \cup rest : r[1] < q[1] <=> r[2] < q[2]
        BY <3>1, <3>4, <3>5 DEF Descends, i, j
      <3> QED  BY <3>3, <3>6 DEF Sound, Descends, rest, i, j
    <2>6. MatchStep(a, b, f, p) \in {f[Down(p)], f[Over(p)], {p} \cup f[Past(p)]}
      BY <1>2 DEF Inside, MatchStep
    <2> QED  BY <2>4, <2>5, <2>6
  <1> QED  BY <1>1, <1>2

LEMMA MatchedSound ==
    ASSUME NEW a, IsList(a), NEW b, IsList(b)
    PROVE  Descends(Matched(a, b)) /\ Matched(a, b) \subseteq Between(1, Len(a), 1, Len(b))
  <1> DEFINE IsFrom(f) == f = [p \in Cuts(a, b) |-> MatchStep(a, b, f, p)]
             from == CHOOSE f : IsFrom(f)
  <1>1. Matched(a, b) = from[<<1, 1>>]  BY DEF Matched, MatchStep, Down, Over, Past
  <1>n. Len(a) \in Nat /\ Len(b) \in Nat  BY ListShape
  <1>2. IsFrom(from)
    <2>1. Solvable(a, b, Len(a) + Len(b))  BY <1>n, MatchSolved
    <2>2. CutsLeft(a, b, Len(a) + Len(b)) = Cuts(a, b)
      <3>1. ASSUME NEW p \in Cuts(a, b) PROVE Left(a, b, p) <= Len(a) + Len(b)
        BY <1>n, CutFacts DEF Left
      <3> QED  BY <3>1 DEF CutsLeft
    <2>3. \E f : IsFrom(f)  BY <2>1, <2>2 DEF Solvable, Solves
    <2> HIDE DEF IsFrom
    <2> QED  BY <2>3
  <1> HIDE DEF from
  <1>3. \A p \in Cuts(a, b) : from[p] = MatchStep(a, b, from, p)  BY <1>2
  <1> DEFINE Unsound == {m \in Nat : \E p \in Cuts(a, b) : Left(a, b, p) = m /\ ~Sound(a, b, from[p], p)}
  <1>4. Unsound = {}
    <2> SUFFICES ASSUME Unsound # {} PROVE FALSE  OBVIOUS
    <2>1. PICK m \in Unsound : \A i \in Unsound : m <= i  BY LeastNatural
    <2>2. PICK p \in Cuts(a, b) : Left(a, b, p) = m /\ ~Sound(a, b, from[p], p)  BY <2>1
    <2>3. ASSUME Inside(a, b, p), NEW q \in {Down(p), Over(p), Past(p)} PROVE Sound(a, b, from[q], q)
      <3>1. q \in Cuts(a, b) /\ Left(a, b, q) <= m - 1  BY <2>2, <2>3, CutFacts
      <3>2. Left(a, b, q) \in Nat  BY <3>1, CutFacts
      <3>3. Left(a, b, q) \notin Unsound  BY <2>1, <3>1, <3>2
      <3> QED  BY <3>1, <3>2, <3>3
    <2> QED  BY <1>3, <2>2, <2>3, MatchStepSound
  <1>5. <<1, 1>> \in Cuts(a, b) /\ Left(a, b, <<1, 1>>) \in Nat
    <2>1. <<1, 1>> \in Cuts(a, b)  BY <1>n DEF Cuts
    <2> QED  BY <2>1, CutFacts
  <1>6. Sound(a, b, from[<<1, 1>>], <<1, 1>>)  BY <1>4, <1>5
  <1> QED  BY <1>1, <1>6 DEF Sound

(* One step of AlignRows, for row j of b. *)
Free(a, b) == DOMAIN a \ {p[1] : p \in Matched(a, b)}
OwnOf(a, b, j) == {p \in Matched(a, b) : p[2] = j}
Above(pairs) == Max({p[1] : p \in pairs} \cup {0})
Here(a, b, pairs, j) == {i \in Free(a, b) : Above(pairs) < i /\ i < Before(Matched(a, b), j, b, a)}
AlignStep(a, b, pairs, j) ==
    IF OwnOf(a, b, j) # {} THEN pairs \cup OwnOf(a, b, j)
    ELSE IF Here(a, b, pairs, j) = {} THEN pairs ELSE pairs \cup {<<Min(Here(a, b, pairs, j)), j>>}

(* The rows of b up to row j are aligned, and none in the way of a match. *)
Aligned(a, b, pairs, j) ==
    /\ Descends(pairs) /\ pairs \subseteq Between(1, Len(a), 1, j)
    /\ \A p \in pairs, q \in Matched(a, b) : q[2] > j => p[1] < q[1]

LEMMA BetweenFacts ==
    ASSUME NEW lo, NEW hi, NEW from, NEW to, NEW p \in Between(lo, hi, from, to)
    PROVE  p[1] \in lo .. hi /\ p[2] \in from .. to /\ p = <<p[1], p[2]>>
  BY DEF Between

LEMMA MatchedFacts ==
    ASSUME NEW a, IsList(a), NEW b, IsList(b), NEW q \in Matched(a, b)
    PROVE  /\ q[1] \in 1 .. Len(a) /\ q[2] \in 1 .. Len(b) /\ q = <<q[1], q[2]>>
           /\ \A r \in Matched(a, b) : q[1] < r[1] <=> q[2] < r[2]
  <1>1. Descends(Matched(a, b)) /\ q \in Between(1, Len(a), 1, Len(b))  BY MatchedSound
  <1>2. q[1] \in 1 .. Len(a) /\ q[2] \in 1 .. Len(b) /\ q = <<q[1], q[2]>>  BY <1>1, BetweenFacts
  <1> QED  BY <1>1, <1>2 DEF Descends

(* A pair below all others. *)
LEMMA PairBelow ==
    ASSUME NEW n \in Nat, NEW j \in Nat \ {0}, NEW pairs, Descends(pairs),
           pairs \subseteq Between(1, n, 1, j - 1),
           NEW i \in 1 .. n, \A p \in pairs : p[1] < i
    PROVE  Descends(pairs \cup {<<i, j>>}) /\ pairs \cup {<<i, j>>} \subseteq Between(1, n, 1, j)
  <1> DEFINE x == <<i, j>>
  <1>0. x[1] = i /\ x[2] = j /\ x \in Between(1, n, 1, j)  BY DEF Between
  <1> HIDE DEF x
  <1>1. ASSUME NEW p \in pairs
        PROVE  /\ p[1] \in 1 .. n /\ p[2] \in 1 .. j - 1 /\ p \in Between(1, n, 1, j)
               /\ p[1] < i /\ p[2] < j /\ ~(i < p[1]) /\ ~(j < p[2])
    <2>1. p[1] \in 1 .. n /\ p[2] \in 1 .. j - 1 /\ p = <<p[1], p[2]>>  BY BetweenFacts
    <2>2. p[2] \in 1 .. j /\ p[2] < j /\ ~(j < p[2])  BY <2>1
    <2>3. p[1] < i /\ ~(i < p[1])  BY <2>1
    <2>4. p \in Between(1, n, 1, j)  BY <2>1, <2>2 DEF Between
    <2> QED  BY <2>1, <2>2, <2>3, <2>4
  <1>2. ~(i < i) /\ ~(j < j)  OBVIOUS
  <1>3. \A p, q \in pairs \cup {x} : p[1] < q[1] <=> p[2] < q[2]  BY <1>0, <1>1, <1>2 DEF Descends
  <1>4. \A p \in pairs \cup {x} : p \in Between(1, n, 1, j)  BY <1>0, <1>1
  <1> QED  BY <1>3, <1>4 DEF x, Descends

LEMMA AlignStepAligns ==
    ASSUME NEW a, IsList(a), NEW b, IsList(b), NEW j \in 1 .. Len(b), NEW pairs,
           Aligned(a, b, pairs, j - 1)
    PROVE  Aligned(a, b, AlignStep(a, b, pairs, j), j)
  <1> DEFINE n == Len(a)
             matched == Matched(a, b)
             here == Here(a, b, pairs, j)
  <1>n. n \in Nat /\ Len(b) \in Nat /\ j \in Nat \ {0} /\ j - 1 \in Nat /\ DOMAIN a = 1 .. n
    BY ListShape
  <1>1. Descends(pairs) /\ pairs \subseteq Between(1, n, 1, j - 1)  BY DEF Aligned
  <1>p. \A p \in pairs : p[1] \in 1 .. n /\ p[2] \in 1 .. j - 1 /\ p = <<p[1], p[2]>>
    BY <1>1, BetweenFacts
  <1>m. \A q \in matched : q[1] \in 1 .. n /\ q[2] \in 1 .. Len(b) /\ q = <<q[1], q[2]>>
    BY MatchedFacts
  <1>2. \A p \in pairs, q \in matched : q[2] >= j => p[1] < q[1]
    BY <1>n, <1>m DEF Aligned
  <1>3. CASE OwnOf(a, b, j) # {}
    <2>1. PICK own \in matched : own[2] = j  BY <1>3 DEF OwnOf
    <2>2. own = <<own[1], j>> /\ own[1] \in 1 .. n  BY <1>m, <2>1
    <2>3. OwnOf(a, b, j) = {<<own[1], j>>}
      <3>1. ASSUME NEW q \in matched, q[2] = j PROVE q = own
        <4>1. q[1] \in Nat /\ own[1] \in Nat  BY <1>m
        <4>2. ~(q[1] < own[1]) /\ ~(own[1] < q[1])
          <5>1. (q[1] < own[1] <=> q[2] < own[2]) /\ (own[1] < q[1] <=> own[2] < q[2])  BY MatchedFacts
          <5> QED  BY <1>n, <2>1, <3>1, <5>1
        <4>3. q[1] = own[1]  BY <4>1, <4>2
        <4> QED  BY <1>m, <2>2, <3>1, <4>3
      <3> QED  BY <2>1, <2>2, <3>1 DEF OwnOf
    <2>4. \A p \in pairs : p[1] < own[1]  BY <1>2, <1>n, <2>1
    <2>5. AlignStep(a, b, pairs, j) = pairs \cup {<<own[1], j>>}  BY <1>3, <2>3 DEF AlignStep
    <2>6. /\ Descends(pairs \cup {<<own[1], j>>})
          /\ pairs \cup {<<own[1], j>>} \subseteq Between(1, n, 1, j)
      BY <1>n, <1>1, <2>2, <2>4, PairBelow
    <2>7. ASSUME NEW q \in matched, q[2] > j PROVE own[1] < q[1]
      BY <2>1, <2>7, <1>m, <1>n, MatchedFacts
    <2>8. ASSUME NEW p \in pairs \cup {<<own[1], j>>}, NEW q \in matched, q[2] > j PROVE p[1] < q[1]
      <3>1. CASE p = <<own[1], j>>  BY <2>7, <2>8, <3>1
      <3>2. CASE p \in pairs
        <4>1. q[2] >= j  BY <1>m, <1>n, <2>8
        <4> QED  BY <1>2, <3>2, <4>1
      <3> QED  BY <3>1, <3>2
    <2> QED  BY <2>5, <2>6, <2>8 DEF Aligned
  <1>4. CASE OwnOf(a, b, j) = {} /\ here = {}
    <2>1. AlignStep(a, b, pairs, j) = pairs  BY <1>4 DEF AlignStep
    <2>2. \A p \in pairs : p \in Between(1, n, 1, j)
      <3>1. \A k \in 1 .. j - 1 : k \in 1 .. j  BY <1>n
      <3> QED  BY <1>p, <3>1 DEF Between
    <2>3. \A q \in matched : q[2] > j => q[2] >= j  BY <1>m, <1>n
    <2> QED  BY <1>1, <1>2, <2>1, <2>2, <2>3 DEF Aligned
  <1>5. CASE OwnOf(a, b, j) = {} /\ here # {}
    <2> DEFINE i == Min(here)
               firsts == {p[1] : p \in pairs} \cup {0}
               next == {p[1] : p \in {q \in matched : q[2] > j}} \cup {n + 1}
    <2>1. AlignStep(a, b, pairs, j) = pairs \cup {<<i, j>>}  BY <1>5 DEF AlignStep
    <2>2. here \in SUBSET Nat  BY <1>n DEF Here, Free
    <2>3. i \in here  BY <1>5, <2>2, MinOf
    <2>4. i \in 1 .. n /\ Above(pairs) < i /\ i < Before(matched, j, b, a)
      BY <1>n, <2>3 DEF Here, Free
    <2> HIDE DEF i
    <2>5. \A p \in pairs : p[1] < i
      <3>1. firsts \in SUBSET (0 .. n) /\ firsts # {}  BY <1>n, <1>p
      <3>2. Above(pairs) = Max(firsts)  BY DEF Above
      <3> HIDE DEF firsts
      <3>3. Max(firsts) \in firsts /\ \A x \in firsts : x <= Max(firsts)  BY <1>n, <3>1, MaxOf
      <3>n. \A x \in firsts : x \in 0 .. n  BY <3>1
      <3>4. Max(firsts) \in 0 .. n  BY <3>n, <3>3
      <3>5. \A x \in firsts : x < i  BY <1>n, <2>4, <3>n, <3>2, <3>3, <3>4
      <3> QED  BY <3>5 DEF firsts
    <2>6. \A q \in matched : q[2] > j => i < q[1]
      <3>1. next \in SUBSET Nat /\ next # {}  BY <1>n, <1>m
      <3>2. Before(matched, j, b, a) = Min(next)  BY DEF Before
      <3> HIDE DEF next
      <3>3. Min(next) \in next /\ \A x \in next : Min(next) <= x  BY <3>1, MinOf
      <3>n. \A x \in next : x \in Nat  BY <3>1
      <3>m. Min(next) \in Nat /\ i < Min(next)  BY <2>4, <3>n, <3>2, <3>3
      <3> HIDE DEF next
      <3>4. ASSUME NEW x \in next PROVE i < x
        <4>1. x \in Nat /\ Min(next) <= x /\ i \in Nat  BY <2>4, <3>n, <3>3
        <4> QED  BY <4>1, <3>m
      <3> QED  BY <3>4 DEF next
    <2>7. Descends(pairs \cup {<<i, j>>}) /\ pairs \cup {<<i, j>>} \subseteq Between(1, n, 1, j)
      BY <1>n, <1>1, <2>4, <2>5, PairBelow
    <2>8. ASSUME NEW p \in pairs \cup {<<i, j>>}, NEW q \in matched, q[2] > j PROVE p[1] < q[1]
      <3>1. CASE p = <<i, j>>  BY <2>6, <2>8, <3>1
      <3>2. CASE p \in pairs
        <4>1. q[2] >= j  BY <1>m, <1>n, <2>8
        <4> QED  BY <1>2, <3>2, <4>1
      <3> QED  BY <3>1, <3>2
    <2> QED  BY <2>1, <2>7, <2>8 DEF Aligned
  <1> QED  BY <1>3, <1>4, <1>5

LEMMA RowsAligned ==
    ASSUME NEW a, IsList(a), NEW b, IsList(b)
    PROVE  Descends(AlignRows(a, b)) /\ AlignRows(a, b) \subseteq Between(1, Len(a), 1, Len(b))
  <1> DEFINE n == Len(b)
             Step(f, j) == IF j = 0 THEN {} ELSE AlignStep(a, b, f[j - 1], j)
             SolvesTo(f, m) == f = [j \in 0 .. m |-> Step(f, j)]
             SolvableTo(m) == \E f : SolvesTo(f, m)
             upTo == CHOOSE f : SolvesTo(f, n)
  <1>1. n \in Nat  BY ListShape
  <1>2. AlignRows(a, b) = upTo[n]
    BY DEF AlignRows, AlignStep, OwnOf, Here, Free, Above
  <1> HIDE DEF n
  <1>3. SolvableTo(n)
    <2> HIDE DEF SolvableTo
    <2> DEFINE Unsolved == {m \in Nat : m <= n /\ ~SolvableTo(m)}
    <2> SUFFICES ASSUME Unsolved # {} PROVE FALSE  BY <1>1
    <2>1. PICK m \in Unsolved : \A i \in Unsolved : m <= i  BY LeastNatural
    <2>2. CASE m = 0
      <3>1. SolvesTo([k \in 0 .. 0 |-> {}], 0)  OBVIOUS
      <3> QED  BY <2>1, <2>2, <3>1 DEF SolvableTo
    <2>3. CASE m # 0
      <3>1. m - 1 \in Nat /\ m - 1 <= n /\ m - 1 \notin Unsolved  BY <1>1, <2>1, <2>3
      <3>2. PICK f : SolvesTo(f, m - 1)  BY <3>1 DEF SolvableTo
      <3> DEFINE g == [k \in 0 .. m |-> IF k < m THEN f[k] ELSE AlignStep(a, b, f[m - 1], m)]
      <3>3. ASSUME NEW k \in 0 .. m PROVE g[k] = Step(g, k)
        <4>1. CASE k = m
          <5>1. g[k - 1] = f[m - 1]  BY <2>3, <3>1, <4>1
          <5> QED  BY <2>3, <4>1, <5>1
        <4>2. CASE k < m
          <5>1. f[k] = Step(f, k)
            <6>1. k \in 0 .. m - 1  BY <3>1, <4>2
            <6> HIDE DEF Step
            <6> QED  BY <3>2, <6>1
          <5>2. g[k] = f[k] /\ (k # 0 => g[k - 1] = f[k - 1])  BY <4>2
          <5> HIDE DEF g
          <5> QED  BY <5>1, <5>2
        <4> QED  BY <4>1, <4>2
      <3>4. SolvesTo(g, m)  BY <3>3
      <3> QED  BY <2>1, <3>4 DEF SolvableTo
    <2> QED  BY <2>2, <2>3
  <1>4. upTo = [j \in 0 .. n |-> Step(upTo, j)]  BY <1>3
  <1> HIDE DEF upTo
  <1>5. \A j \in 0 .. n : Aligned(a, b, upTo[j], j)
    <2> DEFINE Bad == {j \in Nat : j <= n /\ ~Aligned(a, b, upTo[j], j)}
    <2> SUFFICES ASSUME Bad # {} PROVE FALSE  BY <1>1
    <2>1. PICK j \in Bad : \A i \in Bad : j <= i  BY LeastNatural
    <2>2. upTo[j] = Step(upTo, j)
      <3>1. j \in 0 .. n  BY <1>1, <2>1
      <3> HIDE DEF Step
      <3> QED  BY <1>4, <3>1
    <2>3. CASE j = 0  BY <2>1, <2>2, <2>3 DEF Aligned, Descends
    <2>4. CASE j # 0
      <3>1. Aligned(a, b, upTo[j - 1], j - 1) /\ j \in 1 .. Len(b)  BY <1>1, <2>1, <2>4 DEF n
      <3> QED  BY <2>1, <2>2, <2>4, <3>1, AlignStepAligns
    <2> QED  BY <2>3, <2>4
  <1>6. Aligned(a, b, upTo[n], n)  BY <1>1, <1>5
  <1> QED  BY <1>2, <1>6 DEF Aligned, n

(* One step of RowsAfter, for row j of b. *)
Has(a, b, j) == \E p \in AlignRows(a, b) : p[2] = j
Seen(a, b, j) == IF Has(a, b, j) THEN a[(CHOOSE p \in AlignRows(a, b) : p[2] = j)[1]] ELSE EmptyRow
StandStep(a, b, s, j) == IF Has(a, b, j) THEN s ELSE InsertAt(s, j, EmptyRow)

(* The rows of a that stand below row j of b. *)
Below(a, b, j) == {p[1] : p \in {q \in AlignRows(a, b) : q[2] > j}}

(* Down to row j the rows stand in their places, and below it the rows kept *)
(* that are still to come.                                                  *)
Standing(a, b, s, j) ==
    /\ IsList(s) /\ Len(s) = j + Cardinality(Below(a, b, j))
    /\ \A k \in 1 .. j : s[k] = Seen(a, b, k)
    /\ \A k \in 1 .. Cardinality(Below(a, b, j)) : s[j + k] = Keeping(a, Below(a, b, j))[k]

LEMMA AlignedFacts ==
    ASSUME NEW a, IsList(a), NEW b, IsList(b)
    PROVE  /\ \A p \in AlignRows(a, b) : p[1] \in 1 .. Len(a) /\ p[2] \in 1 .. Len(b)
           /\ \A p, q \in AlignRows(a, b) : p[1] < q[1] <=> p[2] < q[2]
           /\ \A p, q \in AlignRows(a, b) : p[2] = q[2] => p[1] = q[1]
           /\ \A j \in Nat : Below(a, b, j) \in SUBSET (1 .. Len(a))
  <1>1. Descends(AlignRows(a, b)) /\ AlignRows(a, b) \subseteq Between(1, Len(a), 1, Len(b))
    BY RowsAligned
  <1>2. \A p \in AlignRows(a, b) : p[1] \in 1 .. Len(a) /\ p[2] \in 1 .. Len(b)
    BY <1>1, BetweenFacts
  <1>3. \A p, q \in AlignRows(a, b) : p[1] < q[1] <=> p[2] < q[2]  BY <1>1 DEF Descends
  <1>4. ASSUME NEW p \in AlignRows(a, b), NEW q \in AlignRows(a, b), p[2] = q[2] PROVE p[1] = q[1]
    <2>1. p[1] \in Int /\ q[1] \in Int /\ p[2] \in Int /\ q[2] \in Int  BY <1>2
    <2>2. ~(p[1] < q[1]) /\ ~(q[1] < p[1])  BY <1>3, <1>4, <2>1
    <2> QED  BY <2>1, <2>2
  <1>5. \A j \in Nat : Below(a, b, j) \in SUBSET (1 .. Len(a))  BY <1>2 DEF Below
  <1> QED  BY <1>2, <1>3, <1>4, <1>5

LEMMA StandStepStands ==
    ASSUME NEW a, IsList(a), NEW b, IsList(b), NEW j \in 1 .. Len(b), NEW s,
           Standing(a, b, s, j - 1)
    PROVE  Standing(a, b, StandStep(a, b, s, j), j)
  <1> DEFINE below == Below(a, b, j)
             above == Below(a, b, j - 1)
             n == Cardinality(below)
             pairs == AlignRows(a, b)
  <1>n. Len(a) \in Nat /\ Len(b) \in Nat /\ j \in Nat /\ j - 1 \in Nat /\ j \in 1 .. j  BY ListShape
  <1>1. /\ \A p \in pairs : p[1] \in 1 .. Len(a) /\ p[2] \in 1 .. Len(b)
        /\ \A p, q \in pairs : p[1] < q[1] <=> p[2] < q[2]
        /\ \A p, q \in pairs : p[2] = q[2] => p[1] = q[1]
        /\ below \in SUBSET (1 .. Len(a)) /\ above \in SUBSET (1 .. Len(a))
    BY <1>n, AlignedFacts
  <1>2. n \in Nat  BY <1>n, <1>1, CardOfNats
  <1>3. /\ IsList(s) /\ Len(s) = j - 1 + Cardinality(above) /\ Len(s) \in Nat
        /\ \A k \in 1 .. j - 1 : s[k] = Seen(a, b, k)
        /\ \A k \in 1 .. Cardinality(above) : s[j - 1 + k] = Keeping(a, above)[k]
    BY ListShape DEF Standing
  <1>4. CASE Has(a, b, j)
    <2>1. PICK p \in pairs : p[2] = j  BY <1>4 DEF Has
    <2> DEFINE x == p[1]
    <2>2. StandStep(a, b, s, j) = s  BY <1>4 DEF StandStep
    <2>3. Seen(a, b, j) = a[x]
      <3> DEFINE c == CHOOSE q \in pairs : q[2] = j
      <3>1. c \in pairs /\ c[2] = j  BY <2>1
      <3>2. Seen(a, b, j) = a[c[1]]  BY <1>4 DEF Seen
      <3> HIDE DEF c
      <3> QED  BY <1>1, <2>1, <3>1, <3>2
    <2>4. above = below \cup {x} /\ x \in 1 .. Len(a) /\ \A t \in below : x < t
      <3>1. \A q \in pairs : q[2] > j - 1 <=> q[2] > j \/ q[2] = j  BY <1>n, <1>1
      <3>2. \A q \in pairs : q[2] = j => q[1] = x  BY <1>1, <2>1
      <3>3. ASSUME NEW t \in above PROVE t \in below \cup {x}
        <4>1. PICK q \in pairs : t = q[1] /\ q[2] > j - 1  BY DEF Below
        <4> QED  BY <3>1, <3>2, <4>1 DEF Below
      <3>4. ASSUME NEW t \in below \cup {x} PROVE t \in above
        <4>1. PICK q \in pairs : t = q[1] /\ (q[2] > j \/ q[2] = j)  BY <2>1 DEF Below
        <4> QED  BY <3>1, <4>1 DEF Below
      <3>5. ASSUME NEW t \in below PROVE x < t
        <4>1. PICK q \in pairs : t = q[1] /\ q[2] > j  BY DEF Below
        <4>2. p[2] < q[2]  BY <1>n, <1>1, <2>1, <4>1
        <4> QED  BY <1>1, <4>1, <4>2
      <3> QED  BY <1>1, <3>3, <3>4, <3>5
    <2> HIDE DEF x, above, below
    <2>5. /\ Cardinality(above) = n + 1 /\ Keeping(a, above)[1] = a[x]
          /\ \A i \in 1 .. n : Keeping(a, above)[i + 1] = Keeping(a, below)[i]
      <3>1. Ahead(x, below)  BY <2>4 DEF Ahead
      <3>2. above = below \cup {x}  BY <2>4
      <3>3. x \in 1 .. Len(a)  BY <2>4
      <3>4. below \in SUBSET (1 .. Len(a))  BY <1>1
      <3>5. Len(a) \in Nat  BY <1>n
      <3>6. FirstOf(a, above, below, x)  BY <3>1, <3>2, <3>3, <3>4, <3>5, KeepingFirst
      <3> QED  BY <3>6 DEF FirstOf
    <2>6. Len(s) = j + n  BY <1>n, <1>2, <1>3, <2>5
    <2>7. s[j] = a[x]
      <3>1. 1 \in 1 .. Cardinality(above) /\ j - 1 + 1 = j  BY <1>n, <1>2, <2>5
      <3>2. s[j - 1 + 1] = Keeping(a, above)[1]  BY <1>3, <3>1
      <3> QED  BY <2>5, <3>1, <3>2
    <2>8. ASSUME NEW k \in 1 .. j PROVE s[k] = Seen(a, b, k)
      <3>1. k = j \/ k \in 1 .. j - 1  BY <1>n
      <3> QED  BY <1>3, <2>3, <2>7, <3>1
    <2>9. ASSUME NEW k \in 1 .. n PROVE s[j + k] = Keeping(a, below)[k]
      <3> HIDE DEF n
      <3>0. k \in Nat /\ k >= 1 /\ k <= n  BY <1>2
      <3>c. Cardinality(above) = n + 1 /\ n \in Nat  BY <1>2, <2>5
      <3>d. k + 1 \in 1 .. n + 1 /\ j - 1 + (k + 1) = j + k  BY <1>n, <3>0, <3>c
      <3>1. k + 1 \in 1 .. Cardinality(above) /\ j - 1 + (k + 1) = j + k  BY <3>c, <3>d
      <3>2. s[j - 1 + (k + 1)] = Keeping(a, above)[k + 1]  BY <1>3, <3>1
      <3> QED  BY <2>5, <3>1, <3>2
    <2> QED  BY <1>3, <2>2, <2>6, <2>8, <2>9 DEF Standing, below
  <1>5. CASE ~Has(a, b, j)
    <2> DEFINE r == InsertAt(s, j, EmptyRow)
    <2>1. StandStep(a, b, s, j) = r  BY <1>5 DEF StandStep
    <2>2. Seen(a, b, j) = EmptyRow  BY <1>5 DEF Seen
    <2>3. above = below
      <3>1. \A q \in pairs : q[2] > j - 1 <=> q[2] > j  BY <1>n, <1>1, <1>5 DEF Has
      <3> QED  BY <3>1 DEF Below
    <2> HIDE DEF above, below
    <2>4. Len(s) = j - 1 + n /\ j \in 1 .. Len(s) + 1  BY <1>n, <1>2, <1>3, <2>3
    <2>5. /\ IsList(r) /\ Len(r) = Len(s) + 1 /\ r[j] = EmptyRow
          /\ \A k \in 1 .. j - 1 : r[k] = s[k]
          /\ \A k \in j .. Len(s) : r[k + 1] = s[k]
      BY <1>3, <2>4, ListInsert
    <2> HIDE DEF r
    <2>6. Len(r) = j + n  BY <1>n, <1>2, <2>4, <2>5
    <2>7. ASSUME NEW k \in 1 .. j PROVE r[k] = Seen(a, b, k)
      <3>1. k = j \/ k \in 1 .. j - 1  BY <1>n
      <3> QED  BY <1>3, <2>2, <2>5, <3>1
    <2>8. ASSUME NEW k \in 1 .. n PROVE r[j + k] = Keeping(a, below)[k]
      <3>1. j - 1 + k \in j .. Len(s) /\ (j - 1 + k) + 1 = j + k  BY <1>n, <1>2, <2>4
      <3>2. r[(j - 1 + k) + 1] = s[j - 1 + k]  BY <2>5, <3>1
      <3>3. s[j - 1 + k] = Keeping(a, below)[k]  BY <1>3, <2>3
      <3> QED  BY <3>1, <3>2, <3>3
    <2> QED  BY <2>1, <2>5, <2>6, <2>7, <2>8 DEF Standing, below
  <1> QED  BY <1>4, <1>5

(* A refresh brings any list of rows to any other, ... *)
LEMMA RowsAfterIs ==
    ASSUME NEW a, IsList(a), NEW b, IsList(b)
    PROVE  RowsAfter(a, b) = b
  <1> DEFINE n == Len(b)
             Stand(f, j) == IF j = 0 THEN Keeping(a, {p[1] : p \in AlignRows(a, b)})
                            ELSE StandStep(a, b, f[j - 1], j)
             SolvesTo(f, m) == f = [j \in 0 .. m |-> Stand(f, j)]
             SolvableTo(m) == \E f : SolvesTo(f, m)
             stands == CHOOSE f : SolvesTo(f, n)
  <1>1. n \in Nat /\ DOMAIN b = 1 .. n  BY ListShape
  <1>2. RowsAfter(a, b) =
            [j \in DOMAIN stands[n] |->
                IF j \in DOMAIN b THEN WrittenOver(stands[n][j], Seen(a, b, j), b[j], GarbledRow)
                                  ELSE stands[n][j]]
    BY DEF RowsAfter, StandStep, Has, Seen
  <1> HIDE DEF n
  <1>3. SolvableTo(n)
    <2> HIDE DEF SolvableTo
    <2> DEFINE Unsolved == {m \in Nat : m <= n /\ ~SolvableTo(m)}
    <2> SUFFICES ASSUME Unsolved # {} PROVE FALSE  BY <1>1
    <2>1. PICK m \in Unsolved : \A i \in Unsolved : m <= i  BY LeastNatural
    <2>2. CASE m = 0
      <3>1. SolvesTo([k \in 0 .. 0 |-> Keeping(a, {p[1] : p \in AlignRows(a, b)})], 0)  OBVIOUS
      <3> QED  BY <2>1, <2>2, <3>1 DEF SolvableTo
    <2>3. CASE m # 0
      <3>1. m - 1 \in Nat /\ m - 1 <= n /\ m - 1 \notin Unsolved  BY <1>1, <2>1, <2>3
      <3>2. PICK f : SolvesTo(f, m - 1)  BY <3>1 DEF SolvableTo
      <3> DEFINE g == [k \in 0 .. m |-> IF k < m THEN f[k] ELSE StandStep(a, b, f[m - 1], m)]
      <3>3. ASSUME NEW k \in 0 .. m PROVE g[k] = Stand(g, k)
        <4>1. CASE k = m
          <5>1. g[k - 1] = f[m - 1]  BY <2>3, <3>1, <4>1
          <5> QED  BY <2>3, <4>1, <5>1
        <4>2. CASE k < m
          <5>1. f[k] = Stand(f, k)
            <6>1. k \in 0 .. m - 1  BY <3>1, <4>2
            <6> HIDE DEF Stand
            <6> QED  BY <3>2, <6>1
          <5>2. g[k] = f[k] /\ (k # 0 => g[k - 1] = f[k - 1])  BY <4>2
          <5> HIDE DEF g
          <5> QED  BY <5>1, <5>2
        <4> QED  BY <4>1, <4>2
      <3>4. SolvesTo(g, m)  BY <3>3
      <3> QED  BY <2>1, <3>4 DEF SolvableTo
    <2> QED  BY <2>2, <2>3
  <1>4. stands = [j \in 0 .. n |-> Stand(stands, j)]  BY <1>3
  <1> HIDE DEF stands
  <1>5. \A j \in 0 .. n : Standing(a, b, stands[j], j)
    <2> DEFINE Bad == {j \in Nat : j <= n /\ ~Standing(a, b, stands[j], j)}
    <2> SUFFICES ASSUME Bad # {} PROVE FALSE  BY <1>1
    <2>1. PICK j \in Bad : \A i \in Bad : j <= i  BY LeastNatural
    <2>2. stands[j] = Stand(stands, j)
      <3>1. j \in 0 .. n  BY <1>1, <2>1
      <3> HIDE DEF Stand
      <3> QED  BY <1>4, <3>1
    <2>3. CASE j = 0
      <3>1. Below(a, b, 0) = {p[1] : p \in AlignRows(a, b)}
        <4>1. \A p \in AlignRows(a, b) : p[2] > 0  BY AlignedFacts
        <4> QED  BY <4>1 DEF Below
      <3>2. stands[0] = Keeping(a, Below(a, b, 0))  BY <2>2, <2>3, <3>1
      <3>3. Below(a, b, 0) \in SUBSET (1 .. Len(a)) /\ Len(a) \in Nat  BY AlignedFacts, ListShape
      <3>4. /\ IsList(stands[0]) /\ Len(stands[0]) = Cardinality(Below(a, b, 0))
            /\ Cardinality(Below(a, b, 0)) \in Nat
        BY <3>2, <3>3, KeepingShape
      <3> QED  BY <2>1, <2>3, <3>2, <3>4 DEF Standing
    <2>4. CASE j # 0
      <3>1. Standing(a, b, stands[j - 1], j - 1) /\ j \in 1 .. Len(b)  BY <1>1, <2>1, <2>4 DEF n
      <3> QED  BY <2>1, <2>2, <2>4, <3>1, StandStepStands
    <2> QED  BY <2>3, <2>4
  <1>6. Standing(a, b, stands[n], n)  BY <1>1, <1>5
  <1> DEFINE last == stands[n]
  <1>7. Below(a, b, n) = {}
    <2>1. \A p \in AlignRows(a, b) : ~(p[2] > n)  BY <1>1, AlignedFacts DEF n
    <2> QED  BY <2>1 DEF Below
  <1>8. IsList(last) /\ Len(last) = n /\ \A k \in 1 .. n : last[k] = Seen(a, b, k)
    BY <1>1, <1>6, <1>7, FS_EmptySet DEF Standing
  <1>9. DOMAIN last = 1 .. n  BY <1>8, ListShape
  <1> DEFINE r == [j \in 1 .. n |-> IF j \in DOMAIN b THEN WrittenOver(last[j], Seen(a, b, j), b[j], GarbledRow)
                                                     ELSE last[j]]
  <1>10. RowsAfter(a, b) = r  BY <1>2, <1>9
  <1>11. ASSUME NEW j \in 1 .. n PROVE r[j] = b[j]
    <2>1. r[j] = WrittenOver(last[j], Seen(a, b, j), b[j], GarbledRow)  BY <1>1
    <2>2. last[j] = Seen(a, b, j)  BY <1>8
    <2> HIDE DEF r, last
    <2> QED  BY <2>1, <2>2 DEF WrittenOver
  <1>12. r = [j \in 1 .. n |-> r[j]]  OBVIOUS
  <1> HIDE DEF r
  <1>13. b = [j \in 1 .. n |-> b[j]]  BY <1>1 DEF IsList
  <1> QED  BY <1>10, <1>11, <1>12, <1>13

(* ... and a table that shows what it is taken to show, to any content.     *)
IsContent(c) == c = [rows |-> c.rows, merges |-> c.merges] /\ IsList(c.rows)

LEMMA RefreshedIs ==
    ASSUME NEW shown, IsContent(shown), NEW next, IsContent(next)
    PROVE  Refreshed(shown, shown, next) = next
  <1>1. RowsAfter(shown.rows, next.rows) = next.rows  BY RowsAfterIs DEF IsContent
  <1>2. Refreshed(shown, shown, next) = WrittenOver(shown, shown, next, Garbled)
    BY <1>1 DEF Refreshed, IsContent
  <1> QED  BY <1>2 DEF WrittenOver

-----------------------------------------------------------------------------
(* Pages *)

(* One step of the recursion of Threaded, which has a solution. *)
NextRow(header, before) == IF before = <<>> THEN header + 1 ELSE Last(before).last + 1
OnePage(full, kept, header, frames, opts, before, k) ==
    IF NextRow(header, before) > Len(full.rows) THEN before
    ELSE Append(before, PageOf(full, kept, header, frames[k], k, NextRow(header, before), opts))

ThreadedBy(full, kept, header, frames, opts, f) ==
    /\ Threaded(full, kept, header, frames, opts) = f[Len(frames)] /\ f[0] = <<>>
    /\ \A k \in 1 .. Len(frames) : f[k] = OnePage(full, kept, header, frames, opts, f[k - 1], k)

LEMMA ThreadedSolved ==
    ASSUME NEW full, NEW kept, NEW header, NEW frames \in Seq(Nat), NEW opts
    PROVE  \E f : ThreadedBy(full, kept, header, frames, opts, f)
  <1> DEFINE n == Len(frames)
             More(before, k) == OnePage(full, kept, header, frames, opts, before, k)
             Step(f, k) == IF k = 0 THEN <<>> ELSE More(f[k - 1], k)
             SolvesTo(f, m) == f = [k \in 0 .. m |-> Step(f, k)]
             SolvableTo(m) == \E f : SolvesTo(f, m)
             upTo == CHOOSE f : SolvesTo(f, n)
  <1>1. n \in Nat  OBVIOUS
  <1>2. Threaded(full, kept, header, frames, opts) = upTo[n]
    BY DEF Threaded, OnePage, NextRow
  <1> HIDE DEF n, More
  <1>3. SolvableTo(n)
    <2> HIDE DEF SolvableTo
    <2> DEFINE Unsolved == {m \in Nat : m <= n /\ ~SolvableTo(m)}
    <2> SUFFICES ASSUME Unsolved # {} PROVE FALSE  BY <1>1
    <2>1. PICK m \in Unsolved : \A i \in Unsolved : m <= i  BY LeastNatural
    <2>2. CASE m = 0
      <3>1. SolvesTo([k \in 0 .. 0 |-> <<>>], 0)  OBVIOUS
      <3> QED  BY <2>1, <2>2, <3>1 DEF SolvableTo
    <2>3. CASE m # 0
      <3>1. m - 1 \in Nat /\ m - 1 <= n /\ m - 1 \notin Unsolved  BY <1>1, <2>1, <2>3
      <3>2. PICK f : SolvesTo(f, m - 1)  BY <3>1 DEF SolvableTo
      <3> DEFINE g == [k \in 0 .. m |-> IF k < m THEN f[k] ELSE More(f[m - 1], m)]
      <3>3. ASSUME NEW k \in 0 .. m PROVE g[k] = Step(g, k)
        <4>1. CASE k = m
          <5>1. g[k - 1] = f[m - 1]  BY <2>3, <3>1, <4>1
          <5> QED  BY <2>3, <4>1, <5>1
        <4>2. CASE k < m
          <5>1. g[k] = f[k] /\ f[k] = Step(f, k)  BY <3>1, <3>2, <4>2
          <5>2. k # 0 => g[k - 1] = f[k - 1]  BY <4>2
          <5> QED  BY <5>1, <5>2
        <4> QED  BY <4>1, <4>2
      <3>4. SolvesTo(g, m)  BY <3>3
      <3> QED  BY <2>1, <3>4 DEF SolvableTo
    <2> QED  BY <2>2, <2>3
  <1>4. upTo = [k \in 0 .. n |-> Step(upTo, k)]  BY <1>3
  <1> HIDE DEF upTo
  <1>5. upTo[0] = <<>>
    <2>1. 0 \in 0 .. n  BY <1>1
    <2>2. upTo[0] = Step(upTo, 0)  BY <1>4, <2>1
    <2> QED  BY <2>2
  <1>6. ASSUME NEW k \in 1 .. n PROVE upTo[k] = More(upTo[k - 1], k)
    <2>1. k \in 0 .. n /\ k # 0  BY <1>1
    <2>2. upTo[k] = Step(upTo, k)
      <3> HIDE DEF Step
      <3> QED  BY <1>4, <2>1
    <2> QED  BY <2>1, <2>2
  <1>7. ThreadedBy(full, kept, header, frames, opts, upTo)
    BY <1>2, <1>5, <1>6 DEF n, More, ThreadedBy
  <1> QED  BY <1>7

LEMMA ThreadedIsList ==
    ASSUME NEW full, NEW kept, NEW header, NEW frames \in Seq(Nat), NEW opts
    PROVE  IsList(Threaded(full, kept, header, frames, opts))
  <1> DEFINE n == Len(frames)
             More(before, k) == OnePage(full, kept, header, frames, opts, before, k)
  <1>s. PICK upTo : ThreadedBy(full, kept, header, frames, opts, upTo)  BY ThreadedSolved
  <1>1. /\ Threaded(full, kept, header, frames, opts) = upTo[n]
        /\ upTo[0] = <<>> /\ \A k \in 1 .. n : upTo[k] = More(upTo[k - 1], k)
    BY <1>s DEF ThreadedBy
  <1>2. n \in Nat  OBVIOUS
  <1>3. ASSUME NEW before, IsList(before), NEW k PROVE IsList(More(before, k))
    BY <1>3, ListAppend DEF OnePage
  <1> HIDE DEF n, More
  <1>4. ASSUME {k \in Nat : k <= n /\ ~IsList(upTo[k])} # {} PROVE FALSE
    <2> DEFINE Bad == {k \in Nat : k <= n /\ ~IsList(upTo[k])}
    <2>1. PICK k \in Bad : \A i \in Bad : k <= i  BY <1>4, LeastNatural
    <2>2. CASE k = 0
      <3>1. IsList(<<>>)  BY DEF IsList
      <3> QED  BY <1>1, <2>1, <2>2, <3>1
    <2>3. CASE k # 0
      <3>1. IsList(upTo[k - 1])  BY <1>2, <2>1, <2>3
      <3>2. k \in 1 .. n  BY <1>2, <2>1, <2>3
      <3> QED  BY <1>1, <1>3, <2>1, <3>1, <3>2
    <2> QED  BY <2>2, <2>3
  <1> QED  BY <1>1, <1>2, <1>4

LEMMA PagesIsList ==
    ASSUME NEW s, NEW frames \in Seq(Nat), NEW opts
    PROVE  IsList(Pages(s, frames, opts))
  <1>1. IsList(<<>>)  BY DEF IsList
  <1> QED  BY <1>1, ThreadedIsList DEF Pages

LEMMA ListConcat ==
    ASSUME NEW s, IsList(s), NEW t, IsList(t)
    PROVE  IsList(s \o t)
  <1>1. PICK S : s \in Seq(S)  BY DEF IsList
  <1>2. PICK T : t \in Seq(T)  BY DEF IsList
  <1>3. s \in Seq(S \cup T) /\ t \in Seq(S \cup T)  BY <1>1, <1>2
  <1>4. s \o t \in Seq(S \cup T)  BY <1>3
  <1> QED  BY <1>4 DEF IsList

(* The rows that are shown are a list. *)
LEMMA LoweredRows ==
    ASSUME NEW s, IsList(s.rows)
    PROVE  IsList(Lowered(s).rows)
  <1> DEFINE at == VisibleRows(s)
             n == Len(s.rows)
             shown == {i \in DOMAIN s.rows : ~s.rows[i].hidden}
             rows == [p \in DOMAIN at |-> [text |-> s.rows[at[p]].text, height |-> s.rows[at[p]].height]]
  <1>1. n \in Nat /\ DOMAIN s.rows = 1 .. n  BY ListShape
  <1>2. shown \in SUBSET (1 .. n)  BY <1>1
  <1>3. at = Keeping([i \in DOMAIN s.rows |-> i], shown)  BY DEF VisibleRows
  <1>4. Lowered(s).rows = rows  BY DEF Lowered
  <1> HIDE DEF at, shown, n
  <1>5. IsList(at)  BY <1>1, <1>2, <1>3, KeepingShape
  <1>6. DOMAIN at = 1 .. Len(at)  BY <1>5, ListShape
  <1>7. rows = [p \in 1 .. Len(at) |-> rows[p]]  BY <1>6
  <1> HIDE DEF rows
  <1> QED  BY <1>4, <1>5, <1>7, ListMap

LEMMA UnitEndIn ==
    ASSUME NEW n \in Nat, NEW kept \in SUBSET (1 .. n), NEW at \in 1 .. n
    PROVE  UnitEnd(at, kept) \in at .. n
  <1> DEFINE S == {last \in kept : at .. last \subseteq kept}
  <1>1. CASE at \notin kept  BY <1>1 DEF UnitEnd
  <1>2. CASE at \in kept
    <2>1. at \in S
      <3>1. at .. at = {at}  OBVIOUS
      <3> QED  BY <1>2, <3>1
    <2>2. S \in SUBSET (0 .. n) /\ S # {}
      <3>1. \A last \in kept : last \in 0 .. n  OBVIOUS
      <3> QED  BY <2>1, <3>1
    <2>3. UnitEnd(at, kept) = Max(S)  BY <1>2 DEF UnitEnd
    <2> HIDE DEF S
    <2>4. Max(S) \in S /\ at <= Max(S)  BY <2>1, <2>2, MaxOf
    <2>5. Max(S) \in 0 .. n  BY <2>2, <2>4
    <2> QED  BY <2>3, <2>4, <2>5
  <1> QED  BY <1>1, <1>2

(* The recursion over the units of a page has a solution, which ends at the *)
(* last row or before.                                                      *)
FitStep(rows, kept, first, room, f, last) ==
    IF last = Len(rows) THEN last
    ELSE IF Height(rows, first, UnitEnd(last + 1, kept)) > room THEN last ELSE f[UnitEnd(last + 1, kept)]

LEMMA LastFittingIn ==
    ASSUME NEW rows, IsList(rows), NEW kept \in SUBSET (1 .. Len(rows)),
           NEW first \in 1 .. Len(rows), NEW room
    PROVE  LastFitting(rows, kept, first, room) \in first - 1 .. Len(rows)
  <1> DEFINE n == Len(rows)
             Near(m) == {last \in first - 1 .. n : n - last <= m}
             Step(f, last) == FitStep(rows, kept, first, room, f, last)
             SolvesTo(f, m) == f = [last \in Near(m) |-> Step(f, last)]
             SolvableTo(m) == \E f : SolvesTo(f, m)
             IsUpTo(f) == f = [last \in first - 1 .. n |-> Step(f, last)]
             upTo == CHOOSE f : IsUpTo(f)
  <1>1. n \in Nat /\ first \in 1 .. n /\ kept \in SUBSET (1 .. n)  BY ListShape
  <1>2. LastFitting(rows, kept, first, room) = upTo[first - 1]  BY DEF LastFitting, FitStep
  <1>3. ASSUME NEW last \in first - 1 .. n, last # n
        PROVE  /\ UnitEnd(last + 1, kept) \in first - 1 .. n
               /\ n - UnitEnd(last + 1, kept) <= (n - last) - 1 /\ n - UnitEnd(last + 1, kept) \in Nat
    <2>1. last + 1 \in 1 .. n  BY <1>1, <1>3
    <2>2. UnitEnd(last + 1, kept) \in last + 1 .. n  BY <1>1, <2>1, UnitEndIn
    <2> QED  BY <1>1, <2>1, <2>2
  <1> HIDE DEF n
  <1>n. n = Len(rows)  BY DEF n
  <1>4. ASSUME NEW last \in first - 1 .. n, NEW f, NEW g,
               last # n => f[UnitEnd(last + 1, kept)] = g[UnitEnd(last + 1, kept)]
        PROVE  Step(f, last) = Step(g, last)
    BY <1>4, <1>n DEF FitStep
  <1> HIDE DEF Step
  <1>5. \A m \in Nat : SolvableTo(m)
    <2> HIDE DEF SolvableTo
    <2> DEFINE Unsolved == {m \in Nat : ~SolvableTo(m)}
    <2> SUFFICES ASSUME Unsolved # {} PROVE FALSE  OBVIOUS
    <2>1. PICK m \in Unsolved : \A i \in Unsolved : m <= i  BY LeastNatural
    <2>2. PICK f : \A last \in first - 1 .. n : n - last <= m - 1 => f[last] = Step(f, last)
      <3>1. CASE m = 0
        <4>1. \A last \in first - 1 .. n : ~(n - last <= m - 1)  BY <1>1, <3>1
        <4> QED  BY <4>1
      <3>2. CASE m # 0
        <4>1. m - 1 \in Nat /\ m - 1 \notin Unsolved  BY <2>1, <3>2
        <4>2. PICK f : SolvesTo(f, m - 1)  BY <4>1 DEF SolvableTo
        <4> QED  BY <4>2
      <3> QED  BY <3>1, <3>2
    <2> DEFINE g == [last \in Near(m) |-> Step(f, last)]
    <2>3. ASSUME NEW last \in Near(m) PROVE g[last] = Step(g, last)
      <3>1. last \in first - 1 .. n /\ n - last <= m  OBVIOUS
      <3>2. ASSUME last # n PROVE f[UnitEnd(last + 1, kept)] = g[UnitEnd(last + 1, kept)]
        <4> DEFINE unit == UnitEnd(last + 1, kept)
        <4>1. unit \in first - 1 .. n /\ n - unit <= (n - last) - 1 /\ n - unit \in Nat
          BY <1>3, <3>1, <3>2
        <4> HIDE DEF unit
        <4>2. n - unit <= m - 1 /\ n - unit <= m  BY <1>1, <2>1, <3>1, <4>1
        <4>3. f[unit] = Step(f, unit)  BY <2>2, <4>1, <4>2
        <4>4. g[unit] = Step(f, unit)  BY <4>1, <4>2
        <4> QED  BY <4>3, <4>4 DEF unit
      <3>3. g[last] = Step(f, last)  OBVIOUS
      <3> HIDE DEF g
      <3> QED  BY <1>4, <3>1, <3>2, <3>3
    <2>4. g = [last \in Near(m) |-> g[last]]  OBVIOUS
    <2> HIDE DEF g
    <2>5. SolvesTo(g, m)  BY <2>3, <2>4
    <2> QED  BY <2>1, <2>5 DEF SolvableTo
  <1>6. IsUpTo(upTo)
    <2>1. Near(n + 1) = first - 1 .. n  BY <1>1
    <2>2. SolvableTo(n + 1)
      <3>1. n + 1 \in Nat  BY <1>1
      <3> HIDE DEF SolvableTo
      <3> QED  BY <1>5, <3>1
    <2>3. \E f : IsUpTo(f)  BY <2>1, <2>2
    <2> HIDE DEF IsUpTo
    <2> QED  BY <2>3
  <1> HIDE DEF upTo
  <1>7. \A last \in first - 1 .. n : upTo[last] = Step(upTo, last)  BY <1>6
  <1>8. \A last \in first - 1 .. n : upTo[last] \in first - 1 .. n
    <2> DEFINE Bad == {m \in Nat : \E last \in first - 1 .. n : n - last = m /\ upTo[last] \notin first - 1 .. n}
    <2>1. ASSUME Bad # {} PROVE FALSE
      <3>1. PICK m \in Bad : \A i \in Bad : m <= i  BY <2>1, LeastNatural
      <3>2. PICK last \in first - 1 .. n : n - last = m /\ upTo[last] \notin first - 1 .. n  BY <3>1
      <3>3. upTo[last] \in {last, upTo[UnitEnd(last + 1, kept)]} /\ (last = n => upTo[last] = last)
        BY <1>7, <1>n DEF Step, FitStep
      <3>4. last # n /\ upTo[last] = upTo[UnitEnd(last + 1, kept)]  BY <3>2, <3>3
      <3> DEFINE unit == UnitEnd(last + 1, kept)
      <3>5. unit \in first - 1 .. n /\ n - unit <= (n - last) - 1 /\ n - unit \in Nat
        BY <1>3, <3>4
      <3> HIDE DEF unit
      <3>6. upTo[unit] \notin first - 1 .. n  BY <3>2, <3>4 DEF unit
      <3>7. n - unit \in Bad  BY <3>5, <3>6
      <3>8. m <= n - unit /\ m \in Nat  BY <3>1, <3>7
      <3> QED  BY <3>2, <3>5, <3>8
    <2> HIDE DEF Bad
    <2>2. Bad = {}  BY <2>1
    <2>3. ASSUME NEW last \in first - 1 .. n PROVE n - last \in Nat  BY <1>1
    <2> QED  BY <2>2, <2>3 DEF Bad
  <1>9. first - 1 \in first - 1 .. n  BY <1>1
  <1> QED  BY <1>2, <1>8, <1>9 DEF n

(* A page: it ends at a row, and its rows are a list. *)
IsPage(page, n) == page.last \in 1 .. n /\ IsContent(page.content)

LEMMA PageOfIsPage ==
    ASSUME NEW full, IsList(full.rows), NEW kept \in SUBSET (1 .. Len(full.rows)),
           NEW header \in 0 .. Len(full.rows), NEW frame, NEW k, NEW first \in 1 .. Len(full.rows), NEW opts
    PROVE  IsPage(PageOf(full, kept, header, frame, k, first, opts), Len(full.rows))
  <1> DEFINE rows == full.rows
             n == Len(rows)
             fitting == LastFitting(rows, kept, first, Room(frame, rows, header))
             last == IF fitting < first THEN UnitEnd(first, kept) ELSE fitting
             continued == opts.continued /\ last < Len(rows)
             content == PageContent(full, header, first, last, continued)
             page == PageOf(full, kept, header, frame, k, first, opts)
             marker == IF continued THEN <<[text |-> "continued", height |-> DefaultHeight]>> ELSE <<>>
             head == SubSeq(rows, 1, header)
             body == SubSeq(rows, first, last)
  <1>1. n \in Nat /\ first \in 1 .. n /\ header \in 0 .. n /\ kept \in SUBSET (1 .. n)  BY ListShape
  <1>2. fitting \in first - 1 .. n  BY LastFittingIn
  <1>3. UnitEnd(first, kept) \in first .. n  BY <1>1, UnitEndIn
  <1>r. IsList(rows)  OBVIOUS
  <1>4. page.last = last /\ page.content = content  BY DEF PageOf
  <1>5. content.rows = (head \o body) \o marker /\ content = [rows |-> content.rows, merges |-> content.merges]
    BY DEF PageContent
  <1> HIDE DEF fitting, content, page
  <1>6. last \in 1 .. n
    <2>1. CASE fitting < first  BY <1>1, <1>3, <2>1
    <2>2. CASE ~(fitting < first)  BY <1>1, <1>2, <2>2
    <2> QED  BY <2>1, <2>2
  <1>7. IsList(marker)
    <2>1. \A m : IsList(<<m>>)
      <3> TAKE m
      <3>1. <<m>> \in Seq({m})  OBVIOUS
      <3> QED  BY <3>1 DEF IsList
    <2>2. IsList(<<>>)  BY DEF IsList
    <2> QED  BY <2>1, <2>2
  <1> HIDE DEF marker, last, continued, rows, n
  <1>h. n = Len(rows)  BY DEF n
  <1>8. IsList(head)
    <2>1. header \in Nat /\ header <= Len(rows) /\ 1 \in Nat \ {0}  BY <1>1, <1>h
    <2> QED  BY <1>r, <2>1, ListSub
  <1>9. IsList(body)
    <2>1. last \in Nat /\ last <= Len(rows) /\ first \in Nat \ {0}  BY <1>1, <1>6, <1>h
    <2> QED  BY <1>r, <2>1, ListSub
  <1> HIDE DEF head, body
  <1>10. IsList((head \o body) \o marker)
    <2>1. IsList(head \o body)  BY <1>8, <1>9, ListConcat
    <2> QED  BY <1>7, <2>1, ListConcat
  <1> QED  BY <1>4, <1>5, <1>6, <1>10 DEF IsPage, IsContent, page, n, rows

(* What is paginated is a list of such pages. *)
ArePages(pages, n) == IsList(pages) /\ \A k \in 1 .. Len(pages) : IsPage(pages[k], n)

LEMMA ThreadedPages ==
    ASSUME NEW full, IsList(full.rows), NEW kept \in SUBSET (1 .. Len(full.rows)),
           NEW header \in 0 .. Len(full.rows), NEW frames \in Seq(Nat), NEW opts
    PROVE  ArePages(Threaded(full, kept, header, frames, opts), Len(full.rows))
  <1> DEFINE n == Len(frames)
             Row(before) == NextRow(header, before)
             More(before, k) == OnePage(full, kept, header, frames, opts, before, k)
  <1>1. n \in Nat  OBVIOUS
  <1>s. PICK upTo : ThreadedBy(full, kept, header, frames, opts, upTo)  BY ThreadedSolved
  <1>2. /\ Threaded(full, kept, header, frames, opts) = upTo[n]
        /\ upTo[0] = <<>> /\ \A k \in 1 .. n : upTo[k] = More(upTo[k - 1], k)
    BY <1>s DEF ThreadedBy
  <1> HIDE DEF n, More
  <1> DEFINE last == Len(full.rows)
  <1>0. last \in Nat /\ header \in 0 .. last  BY ListShape
  <1>5. ASSUME NEW before, ArePages(before, last), NEW k PROVE ArePages(More(before, k), last)
    <2>0. IsList(before) /\ Len(before) \in Nat /\ (before = <<>> <=> Len(before) = 0)
      BY <1>5, ListShape DEF ArePages
    <2>1. Row(before) \in Nat \ {0}
      <3>1. CASE before = <<>>  BY <1>0, <3>1 DEF NextRow
      <3>2. CASE before # <<>>
        <4>1. Last(before) = before[Len(before)] /\ Len(before) \in 1 .. Len(before)
          BY <2>0, <3>2 DEF Last
        <4>2. Last(before).last \in 1 .. last  BY <1>5, <4>1 DEF ArePages, IsPage
        <4> QED  BY <1>0, <3>2, <4>2 DEF NextRow
      <3> QED  BY <3>1, <3>2
    <2> DEFINE row == Row(before)
               page == PageOf(full, kept, header, frames[k], k, row, opts)
    <2>2. More(before, k) = IF row > last THEN before ELSE Append(before, page)  BY DEF More, OnePage
    <2>3. CASE row > last  BY <1>5, <2>2, <2>3
    <2>4. CASE ~(row > last)
      <3>r. row \in Nat \ {0}  BY <2>1
      <3> HIDE DEF row
      <3>1. row \in 1 .. Len(full.rows)  BY <1>0, <2>4, <3>r
      <3>2. IsPage(page, last)  BY <3>1, PageOfIsPage
      <3> HIDE DEF page
      <3> DEFINE s == Append(before, page)
      <3>3. /\ IsList(s) /\ Len(s) = Len(before) + 1 /\ s[Len(before) + 1] = page
            /\ \A i \in 1 .. Len(before) : s[i] = before[i]
        BY <2>0, ListAppend
      <3>s. More(before, k) = s  BY <2>2, <2>4
      <3> HIDE DEF s
      <3>4. ASSUME NEW i \in 1 .. Len(s) PROVE IsPage(s[i], last)
        <4>1. CASE i = Len(before) + 1  BY <3>2, <3>3, <4>1
        <4>2. CASE i # Len(before) + 1
          <5>1. i \in 1 .. Len(before)  BY <2>0, <3>3, <4>2
          <5> QED  BY <1>5, <3>3, <5>1 DEF ArePages
        <4> QED  BY <4>1, <4>2
      <3> QED  BY <3>3, <3>s, <3>4 DEF ArePages
    <2> QED  BY <2>3, <2>4
  <1> HIDE DEF last
  <1>6. ASSUME {k \in Nat : k <= n /\ ~ArePages(upTo[k], last)} # {} PROVE FALSE
    <2> DEFINE Bad == {k \in Nat : k <= n /\ ~ArePages(upTo[k], last)}
    <2>1. PICK k \in Bad : \A i \in Bad : k <= i  BY <1>6, LeastNatural
    <2>2. CASE k = 0
      <3>1. ArePages(<<>>, last)  BY DEF ArePages, IsList
      <3> QED  BY <1>2, <2>1, <2>2, <3>1
    <2>3. CASE k # 0
      <3>1. ArePages(upTo[k - 1], last)  BY <1>1, <2>1, <2>3
      <3>2. k \in 1 .. n  BY <1>1, <2>1, <2>3
      <3> QED  BY <1>2, <1>5, <2>1, <3>1, <3>2
    <2> QED  BY <2>2, <2>3
  <1> QED  BY <1>1, <1>2, <1>6 DEF last

(* The contents of the pages of a range. *)
ContentsOf(s, frames, opts) ==
    LET pages == Pages(s, frames, opts) IN [k \in DOMAIN pages |-> pages[k].content]
AreContents(pages) == IsList(pages) /\ \A k \in 1 .. Len(pages) : IsContent(pages[k])

LEMMA PagesAreContents ==
    ASSUME NEW s, IsList(s.rows), NEW frames \in Seq(Nat), NEW opts, opts.header \in Nat
    PROVE  /\ IsList(Pages(s, frames, opts)) /\ AreContents(ContentsOf(s, frames, opts))
           /\ Len(ContentsOf(s, frames, opts)) = Len(Pages(s, frames, opts))
           /\ \A k \in 1 .. Len(Pages(s, frames, opts)) :
                  ContentsOf(s, frames, opts)[k] = Pages(s, frames, opts)[k].content
  <1> DEFINE lowered == Lowered(s)
             full == [lowered EXCEPT !.merges = Positional(lowered, @)]
             total == Len(full.rows)
             header == Min({opts.header, total})
             kept == (header + 1 .. total)
                     \cap UNION {span.top .. span.bottom : span \in Positional(lowered, opts.keep)}
             pages == Pages(s, frames, opts)
             contents == ContentsOf(s, frames, opts)
  <1>1. full.rows = lowered.rows /\ IsList(lowered.rows)
    <2>1. "rows" \in DOMAIN lowered  BY DEF Lowered
    <2> HIDE DEF lowered
    <2>2. full.rows = lowered.rows  OBVIOUS
    <2> QED  BY <2>2, LoweredRows DEF lowered
  <1>2. pages = IF total = 0 THEN <<>> ELSE Threaded(full, kept, header, frames, opts)
    BY DEF Pages
  <1> HIDE DEF full, lowered
  <1>3. IsList(full.rows) /\ total \in Nat  BY <1>1, ListShape
  <1>4. header \in {opts.header, total} /\ header <= total
    <2>1. {opts.header, total} \in SUBSET Nat /\ {opts.header, total} # {}  BY <1>3
    <2> QED  BY <2>1, MinOf
  <1>5. header \in 0 .. Len(full.rows)  BY <1>3, <1>4
  <1>6. kept \in SUBSET (1 .. Len(full.rows))
    <2>1. \A i \in header + 1 .. total : i \in 1 .. total  BY <1>3, <1>5
    <2> QED  BY <2>1
  <1> HIDE DEF header, kept, total, pages
  <1>7. ArePages(pages, Len(full.rows))
    <2>1. ArePages(<<>>, Len(full.rows))  BY DEF ArePages, IsList
    <2>2. ArePages(Threaded(full, kept, header, frames, opts), Len(full.rows))
      BY <1>3, <1>5, <1>6, ThreadedPages
    <2> QED  BY <1>2, <2>1, <2>2
  <1>8. IsList(pages) /\ DOMAIN pages = 1 .. Len(pages)  BY <1>7, ListShape DEF ArePages
  <1>9. contents = [k \in 1 .. Len(pages) |-> pages[k].content]  BY <1>8 DEF ContentsOf, pages
  <1> HIDE DEF contents
  <1>10. contents = [k \in 1 .. Len(pages) |-> contents[k]]  BY <1>9
  <1>11. IsList(contents) /\ Len(contents) = Len(pages)  BY <1>8, <1>10, ListMap
  <1>12. \A k \in 1 .. Len(pages) : contents[k] = pages[k].content  BY <1>9
  <1>13. AreContents(contents)  BY <1>7, <1>11, <1>12 DEF AreContents, ArePages, IsPage
  <1> QED  BY <1>8, <1>11, <1>12, <1>13 DEF pages, contents

-----------------------------------------------------------------------------
(* Changing one handle *)

LEMMA HandlePut ==
    ASSUME HandlesOK, NEW h \in 1 .. Len(handles), NEW y, HandleOK(y),
           handles' = [handles EXCEPT ![h] = y]
    PROVE  /\ HandlesOK' /\ Len(handles') = Len(handles) /\ handles'[h] = y
           /\ \A g \in 1 .. Len(handles) : g # h => handles'[g] = handles[g]
  <1>0. IsList(handles)  BY DEF HandlesOK
  <1> DEFINE f == With(handles, h, y)
  <1>f. /\ IsList(f) /\ Len(f) = Len(handles) /\ f[h] = y
        /\ \A g \in 1 .. Len(handles) : g # h => f[g] = handles[g]
    BY <1>0, ListWith
  <1>e. handles' = f  BY DEF With
  <1> HIDE DEF f
  <1>1. /\ IsList(handles') /\ Len(handles') = Len(handles) /\ handles'[h] = y
        /\ \A g \in 1 .. Len(handles) : g # h => handles'[g] = handles[g]
    BY <1>f, <1>e
  <1>2. \A g \in 1 .. Len(handles') : HandleOK(handles'[g])  BY <1>1 DEF HandlesOK
  <1>3. HandlesOK'  BY <1>1, <1>2 DEF HandlesOK
  <1> QED  BY <1>1, <1>3

(* A handle that goes on with its pass. *)
LEMMA PassPut ==
    ASSUME HandlesOK, NEW h \in 1 .. Len(handles), NEW pass, IsPass(pass), handles[h].runs # <<>>,
           handles' = [handles EXCEPT ![h].pass = pass]
    PROVE  /\ HandlesOK' /\ Len(handles') = Len(handles)
           /\ \A g \in 1 .. Len(handles) : g # h => handles'[g] = handles[g]
           /\ handles'[h].pass = pass /\ handles'[h].owned = handles[h].owned
           /\ handles'[h].runs = handles[h].runs /\ handles'[h].disposed = handles[h].disposed
  <1> DEFINE y == [handles[h] EXCEPT !.pass = pass]
  <1>0. HandleOK(handles[h]) /\ DOMAIN handles = 1 .. Len(handles)
    BY ListShape DEF HandlesOK
  <1>1. handles' = [handles EXCEPT ![h] = y]  OBVIOUS
  <1>2. /\ y.pass = pass /\ y.owned = handles[h].owned /\ y.runs = handles[h].runs
        /\ y.disposed = handles[h].disposed /\ IsHandle(y)
    BY <1>0 DEF HandleOK, IsHandle
  <1> HIDE DEF y
  <1>3. HandleOK(y)  BY <1>0, <1>2 DEF HandleOK
  <1> QED  BY <1>1, <1>2, <1>3, HandlePut

(* Where the last handle takes a step, the others stay as they are. *)
LEMMA LastSteps ==
    ASSUME HandlesOK, HandlesOK', OneHandle, NEW h, h = Len(handles), handles # <<>>,
           Len(handles') = Len(handles),
           \A g \in 1 .. Len(handles) : g # h => handles'[g] = handles[g],
           Underway(story', handles'[h].pass, handles'[h].owned),
           handles'[h].disposed => handles'[h].pass = NoPass,
           active' \in {0, h},
           active' = 0 => /\ handles'[h].owned = <<>>
                          /\ handles'[h].disposed \/ Begun(handles'[h])
    PROVE  OneHandle'
  <1>1. Len(handles) \in Nat \ {0} /\ handles' # <<>>
    BY ListShape DEF HandlesOK
  <1>2. \A g \in 1 .. Len(handles') - 1 : handles'[g].disposed  BY <1>1 DEF OneHandle
  <1>3. \A g \in 1 .. Len(handles') : handles'[g].disposed => handles'[g].pass = NoPass
    BY <1>1 DEF OneHandle
  <1> QED  BY <1>1, <1>2, <1>3 DEF OneHandle

(* A handle in a pass is the last one, and not disposed. *)
LEMMA PassesLast ==
    ASSUME HandlesOK, OneHandle, NEW h \in 1 .. Len(handles), handles[h].pass # NoPass
    PROVE  /\ h = Len(handles) /\ handles # <<>> /\ ~handles[h].disposed /\ handles[h].runs # <<>>
           /\ Underway(story, handles[h].pass, handles[h].owned)
           /\ active \in {0, h}
           /\ active = 0 => handles[h].owned = <<>> /\ Begun(handles[h])
  <1>1. Len(handles) \in Nat /\ handles # <<>>  BY ListShape DEF HandlesOK
  <1>2. ~handles[h].disposed  BY DEF OneHandle
  <1>3. h = Len(handles)  BY <1>1, <1>2 DEF OneHandle
  <1> QED  BY <1>1, <1>2, <1>3 DEF OneHandle, HandlesOK, HandleOK

(* Requests and timers touch neither the tables of a handle nor its pass. *)
LEMMA HandlesAlike ==
    ASSUME HandlesOK, HandlesOK', Orderly, Len(handles') = Len(handles), UNCHANGED <<story, active>>,
           lapses \subseteq lapses',
           \A g \in 1 .. Len(handles) :
               /\ handles'[g].owned = handles[g].owned /\ handles'[g].pass = handles[g].pass
               /\ handles'[g].disposed = handles[g].disposed
               /\ Begun(handles[g]) => Begun(handles'[g]) \/ handles'[g].disposed
    PROVE  Orderly'
  <1> SUFFICES ASSUME lapses' \cap {"crossed", "threw"} = {} PROVE OneHandle'  BY DEF Orderly
  <1>1. OneHandle  BY DEF Orderly
  <1>2. Len(handles) \in Nat /\ (handles = <<>> <=> handles' = <<>>)
    BY ListShape DEF HandlesOK
  <1>3. handles # <<>> => Len(handles) \in 1 .. Len(handles)  BY <1>2, ListShape DEF HandlesOK
  <1> QED  BY <1>1, <1>2, <1>3 DEF OneHandle

(* The tables of the story keep their places. *)
StoryKept ==
    /\ IsList(story') /\ Len(story') = Len(story)
    /\ \A t \in 1 .. Len(story) : story'[t].id = story[t].id /\ IsTable(story'[t])

LEMMA KeptStory ==
    ASSUME StoryOK, StoryKept, minted' = minted
    PROVE  /\ StoryOK' /\ \A s : Same(story, s) => Same(story', s)
           /\ \A p, owned : Underway(story, p, owned) => Underway(story', p, owned)
  <1>1. StoryOK'  BY DEF StoryOK, StoryKept
  <1>2. ASSUME NEW s, Same(story, s) PROVE Same(story', s)
    BY <1>2, ListShape DEF Same, Begins, StoryKept, StoryOK
  <1>3. \A p, owned : Underway(story, p, owned) => Underway(story', p, owned)
    BY <1>2 DEF Underway
  <1> QED  BY <1>1, <1>2, <1>3

LEMMA StoryUnchanged ==
    ASSUME StoryOK, story' = story
    PROVE  StoryKept
  BY DEF StoryOK, StoryKept

LEMMA StoryWithKept ==
    ASSUME StoryOK, NEW id, NEW shows, story' = StoryWith(id, shows)
    PROVE  StoryKept
  <1>1. CASE InStory(id)
    <2> DEFINE t == TableAt(id)
               y == [story[t] EXCEPT !.shows = shows]
    <2>1. IsList(story) /\ DOMAIN story = 1 .. Len(story)  BY ListShape DEF StoryOK
    <2>2. t \in 1 .. Len(story)  BY <1>1, <2>1 DEF InStory, TableAt
    <2>3. story' = [story EXCEPT ![t] = y]  BY <1>1 DEF StoryWith
    <2>4. IsTable(story[t])  BY <2>2 DEF StoryOK
    <2>5. y.id = story[t].id /\ IsTable(y)  BY <2>4 DEF IsTable
    <2> HIDE DEF t, y
    <2> DEFINE f == With(story, t, y)
    <2>f. /\ IsList(f) /\ Len(f) = Len(story) /\ f[t] = y
          /\ \A i \in 1 .. Len(story) : i # t => f[i] = story[i]
      BY <2>1, <2>2, ListWith
    <2>e. story' = f  BY <2>3 DEF With
    <2> HIDE DEF f
    <2>6. /\ IsList(story') /\ Len(story') = Len(story) /\ story'[t] = y
          /\ \A i \in 1 .. Len(story) : i # t => story'[i] = story[i]
      BY <2>f, <2>e
    <2> QED  BY <2>5, <2>6 DEF StoryKept, StoryOK
  <1>2. CASE ~InStory(id)
    <2>1. story' = story  BY <1>2 DEF StoryWith
    <2> QED  BY <2>1, StoryUnchanged
  <1> QED  BY <1>1, <1>2

-----------------------------------------------------------------------------
(* The steps of a pass *)

(* A run that ends leaves its handle with some tables and no pass. *)
LEMMA EndedHandle ==
    ASSUME HandlesOK, NEW h \in 1 .. Len(handles), handles[h].pass # NoPass, NEW owned, IsList(owned),
           Ended(h, owned)
    PROVE  /\ HandlesOK' /\ Len(handles') = Len(handles) /\ UNCHANGED <<layout, lapses>>
           /\ \A g \in 1 .. Len(handles) : g # h => handles'[g] = handles[g]
           /\ handles'[h].owned = owned /\ handles'[h].pass = NoPass
           /\ active' \in {active, h}
           /\ active' = 0 /\ Begun(handles[h]) =>
                  handles'[h].disposed /\ handles[h].pass.step = "frames"
  <1> DEFINE x == handles[h]
             ends == Head(x.runs) = "first" /\ x.pass.step = "frames"
             live == (x.live \/ Head(x.runs) = "first") /\ ~x.disposed /\ ~ends
             disposed == x.disposed \/ ends
             y == [x EXCEPT !.owned = owned, !.pass = NoPass, !.runs = Tail(x.runs),
                            !.live = live, !.disposed = disposed]
  <1>0. handles' = [handles EXCEPT ![h] = y]  BY DEF Ended
  <1>1. UNCHANGED <<layout, lapses>> /\ active' = IF Head(x.runs) = "first" /\ ~ends THEN h ELSE active
    BY DEF Ended, user
  <1>2. HandleOK(x) /\ x.runs # <<>>  BY DEF HandlesOK, HandleOK
  <1>d. ends => disposed  OBVIOUS
  <1>y. y = [x EXCEPT !.owned = owned, !.pass = NoPass, !.runs = Tail(x.runs),
                      !.live = live, !.disposed = disposed]
    OBVIOUS
  <1>x. IsHandle(x)  BY <1>2 DEF HandleOK
  <1> HIDE DEF x, y, ends, live, disposed
  <1>3. IsHandle(y) /\ y.owned = owned /\ y.pass = NoPass /\ y.runs = Tail(x.runs) /\ y.disposed = disposed
    <2>1. DOMAIN x = {"opts", "owned", "runs", "pass", "live", "timer", "disposed", "broken"}
      BY <1>x DEF IsHandle
    <2>2. y.owned = owned /\ y.pass = NoPass /\ y.runs = Tail(x.runs) /\ y.disposed = disposed
      BY <2>1, <1>y
    <2>3. IsHandle(y)  BY <2>1, <1>y DEF IsHandle
    <2> QED  BY <2>2, <2>3
  <1>4. IsList(Tail(x.runs))  BY <1>2, ListTail DEF HandleOK
  <1>5. HandleOK(y)  BY <1>3, <1>4 DEF HandleOK, IsPass
  <1>6. /\ HandlesOK' /\ Len(handles') = Len(handles) /\ handles'[h] = y
        /\ \A g \in 1 .. Len(handles) : g # h => handles'[g] = handles[g]
    BY <1>0, <1>5, HandlePut DEF x
  <1>7. active' \in {active, h}  BY <1>1
  <1>8. ASSUME active' = 0, Begun(x) PROVE ends
    <2>1. h # 0 /\ Head(x.runs) = "first"  BY <1>8, ListShape DEF Begun, HandlesOK
    <2> QED  BY <1>1, <1>8, <2>1
  <1>9. ends => x.pass.step = "frames"  BY DEF ends
  <1> QED  BY <1>1, <1>3, <1>d, <1>6, <1>7, <1>8, <1>9 DEF x

(* A pass that goes on. *)
LEMMA PassGoes ==
    ASSUME HandlesOK, StoryOK, PlacesOK, Orderly, StoryOK',
           NEW h \in 1 .. Len(handles), handles[h].pass # NoPass,
           NEW pass, IsPass(pass), pass # NoPass, handles' = [handles EXCEPT ![h].pass = pass],
           UNCHANGED <<layout, active>>, lapses \subseteq lapses',
           OneHandle => Underway(story', pass, handles[h].owned)
    PROVE  IInv'
  <1>1. handles[h].runs # <<>>  BY DEF HandlesOK, HandleOK
  <1>2. /\ HandlesOK' /\ Len(handles') = Len(handles)
        /\ \A g \in 1 .. Len(handles) : g # h => handles'[g] = handles[g]
        /\ handles'[h].pass = pass /\ handles'[h].owned = handles[h].owned
        /\ handles'[h].runs = handles[h].runs /\ handles'[h].disposed = handles[h].disposed
    BY <1>1, PassPut
  <1>3. ASSUME lapses' \cap {"crossed", "threw"} = {} PROVE OneHandle'
    <2>1. OneHandle  BY <1>3 DEF Orderly
    <2>2. /\ h = Len(handles) /\ handles # <<>> /\ ~handles[h].disposed /\ active \in {0, h}
          /\ active = 0 => handles[h].owned = <<>> /\ Begun(handles[h])
      BY <2>1, PassesLast
    <2>3. Underway(story', handles'[h].pass, handles'[h].owned)  BY <1>2, <2>1
    <2>4. active' = 0 => handles'[h].owned = <<>> /\ Begun(handles'[h])  BY <1>2, <2>2 DEF Begun
    <2> QED  BY <1>2, <2>1, <2>2, <2>3, <2>4, LastSteps
  <1> QED  BY <1>2, <1>3 DEF IInv, PlacesOK, Orderly

(* A pass that ends, with the tables it leaves in the story. *)
LEMMA PassEnds ==
    ASSUME HandlesOK, StoryOK, PlacesOK, Orderly, StoryOK',
           NEW h \in 1 .. Len(handles), handles[h].pass # NoPass, NEW owned, IsList(owned), Ended(h, owned),
           handles[h].pass.step = "frames" => owned = handles[h].owned,
           OneHandle => Same(story', owned)
    PROVE  IInv'
  <1>1. /\ HandlesOK' /\ Len(handles') = Len(handles) /\ UNCHANGED <<layout, lapses>>
        /\ \A g \in 1 .. Len(handles) : g # h => handles'[g] = handles[g]
        /\ handles'[h].owned = owned /\ handles'[h].pass = NoPass
        /\ active' \in {active, h}
        /\ active' = 0 /\ Begun(handles[h]) => handles'[h].disposed /\ handles[h].pass.step = "frames"
    BY EndedHandle
  <1>2. ASSUME lapses' \cap {"crossed", "threw"} = {} PROVE OneHandle'
    <2>1. OneHandle  BY <1>1, <1>2 DEF Orderly
    <2>2. /\ h = Len(handles) /\ handles # <<>> /\ active \in {0, h}
          /\ active = 0 => handles[h].owned = <<>> /\ Begun(handles[h])
      BY <2>1, PassesLast
    <2>3. Underway(story', handles'[h].pass, handles'[h].owned)
      BY <1>1, <2>1 DEF Underway, NoPass
    <2>4. ASSUME active' = 0 PROVE handles'[h].owned = <<>> /\ handles'[h].disposed
      <3>1. active = 0  BY <1>1, <2>2, <2>4
      <3> QED  BY <1>1, <2>2, <2>4, <3>1
    <2>5. active' \in {0, h}  BY <1>1, <2>2
    <2> QED  BY <1>1, <2>1, <2>2, <2>3, <2>4, <2>5, LastSteps
  <1> QED  BY <1>1, <1>2 DEF IInv, PlacesOK, Orderly

(* What a handle in a pass knows of it. *)
LEMMA PassFacts ==
    ASSUME HandlesOK, NEW h \in 1 .. Len(handles)
    PROVE  /\ IsList(handles[h].owned) /\ IsPass(handles[h].pass)
           /\ OneHandle /\ handles[h].pass # NoPass => Underway(story, handles[h].pass, handles[h].owned)
  BY PassesLast DEF HandlesOK, HandleOK

LEMMA FramesStep ==
    ASSUME IInv, NEW h \in 1 .. Len(handles), ReadFrames(h) \/ Paginate(h)
    PROVE  IInv'
  <1> USE DEF IInv
  <1>1. StoryOK' /\ StoryKept /\ UNCHANGED story
    <2>1. UNCHANGED <<story, minted>>  BY DEF ReadFrames, Paginate, host
    <2> QED  BY <2>1, StoryUnchanged, KeptStory
  <1> DEFINE o == handles[h].owned
             p == handles[h].pass
  <1>2. IsList(o) /\ IsPass(p) /\ (OneHandle /\ p # NoPass => Underway(story, p, o))  BY PassFacts
  <1>3. p.step \in {"frames", "paginate"} /\ p # NoPass
    BY DEF ReadFrames, Paginate, NoPass
  <1>4. OneHandle => Same(story', o)  BY <1>1, <1>2, <1>3 DEF Underway
  <1>5. CASE ReadFrames(h)
    <2>1. CASE Ended(h, o)  BY <1>1, <1>2, <1>3, <1>4, <2>1, PassEnds
    <2>2. CASE Goes(h, [step |-> "paginate", frames |-> layout])
      <3> DEFINE q == [step |-> "paginate", frames |-> layout]
      <3>1. IsPass(q) /\ q # NoPass  BY DEF IsPass, NoPass, PlacesOK
      <3>2. Underway(story', q, o) <=> Same(story', o)  BY DEF Underway
      <3>3. handles' = [handles EXCEPT ![h].pass = q] /\ UNCHANGED <<layout, active, lapses>>
        BY <2>2 DEF Goes, user, session
      <3> HIDE DEF q
      <3> QED  BY <1>1, <1>3, <1>4, <3>1, <3>2, <3>3, PassGoes
    <2> QED  BY <1>5, <2>1, <2>2 DEF ReadFrames
  <1>6. CASE Paginate(h)
    <2> DEFINE pages == Pages(sheet, p.frames, handles[h].opts)
               contents == [k \in DOMAIN pages |-> pages[k].content]
               q == [step |-> "write", pages |-> contents, at |-> 1, tables |-> <<>>]
    <2>1. p.step = "paginate" /\ p.frames \in Seq(Nat)
      BY <1>2, <1>6 DEF Paginate, IsPass, NoPass
    <2>2. IsList(pages)  BY <2>1, PagesIsList
    <2>3. handles' = [handles EXCEPT ![h].pass = q] /\ UNCHANGED <<layout, active, lapses>>
      BY <1>6 DEF Paginate, Goes, user, session
    <2> HIDE DEF pages
    <2>4. IsList(contents) /\ Len(contents) \in Nat
      <3>1. DOMAIN pages = 1 .. Len(pages)  BY <2>2, ListShape
      <3>2. contents = [k \in 1 .. Len(pages) |-> contents[k]]  BY <3>1
      <3> HIDE DEF contents
      <3> QED  BY <2>2, <3>2, ListMap, ListShape
    <2> HIDE DEF contents
    <2>5. IsList(<<>>)  BY DEF IsList
    <2>6. IsPass(q) /\ q # NoPass  BY <2>4, <2>5 DEF IsPass, IsWriting, NoPass
    <2>7. Len(o) \in Nat  BY <1>2, ListShape
    <2>8. Underway(story', q, o) <=> Same(story', o)
      BY <2>4, <2>7 DEF Underway, Begins
    <2> HIDE DEF q
    <2> QED  BY <1>1, <1>3, <1>4, <2>3, <2>6, <2>8, PassGoes
  <1> QED  BY <1>5, <1>6

-----------------------------------------------------------------------------
(* The writing of the pages *)

(* The pass of a handle that writes. *)
LEMMA WritingFacts ==
    ASSUME HandlesOK, NEW h \in 1 .. Len(handles),
           handles[h].pass.step \in {"write", "pour", "empty"}
    PROVE  /\ IsWriting(handles[h].pass) /\ handles[h].pass # NoPass
           /\ IsList(handles[h].owned)
           /\ Len(handles[h].owned) \in Nat /\ Len(handles[h].pass.pages) \in Nat
           /\ DOMAIN handles[h].owned = 1 .. Len(handles[h].owned)
           /\ DOMAIN handles[h].pass.pages = 1 .. Len(handles[h].pass.pages)
           /\ DOMAIN handles[h].pass = {"step", "pages", "at", "tables"}
           /\ OneHandle => Underway(story, handles[h].pass, handles[h].owned)
  <1> DEFINE p == handles[h].pass
             o == handles[h].owned
  <1>1. IsPass(p) /\ IsList(o) /\ (OneHandle /\ p # NoPass => Underway(story, p, o))
    BY PassFacts
  <1>2. p.step \in {"write", "pour", "empty"}  OBVIOUS
  <1> HIDE DEF p, o
  <1>3. p # NoPass  BY <1>2 DEF NoPass
  <1>4. IsWriting(p)  BY <1>1, <1>2, <1>3 DEF IsPass
  <1>5. IsList(p.pages) /\ DOMAIN p = {"step", "pages", "at", "tables"}  BY <1>4 DEF IsWriting
  <1> QED  BY <1>1, <1>3, <1>4, <1>5, ListShape DEF p, o

(* Such a pass, made from its parts or from another one. *)
Writing(step, pages, at, tables) ==
    [step |-> step, pages |-> pages, at |-> at, tables |-> tables]

LEMMA WritingPass ==
    ASSUME NEW step \in {"write", "pour", "empty"}, NEW pages, IsList(pages),
           NEW at \in Nat \ {0}, NEW tables, IsList(tables)
    PROVE  IsPass(Writing(step, pages, at, tables)) /\ Writing(step, pages, at, tables) # NoPass
  <1> DEFINE q == Writing(step, pages, at, tables)
  <1>1. q.step = step /\ q.pages = pages /\ q.at = at /\ q.tables = tables  BY DEF Writing
  <1>2. q = [step |-> step, pages |-> pages, at |-> at, tables |-> tables]  BY DEF Writing
  <1> HIDE DEF q
  <1>3. IsWriting(q)  BY <1>1, <1>2 DEF IsWriting
  <1>4. q # NoPass  BY <1>1 DEF NoPass
  <1>5. IsPass(q)  BY <1>1, <1>3 DEF IsPass
  <1> QED  BY <1>4, <1>5 DEF q

LEMMA BeginsMore ==
    ASSUME NEW few, IsList(few), NEW many, IsList(many), NEW n \in Nat, NEW x,
           Begins(few, many, n), n + 1 <= Len(many), x.id = many[n + 1].id
    PROVE  Begins(Append(few, x), many, n + 1)
  <1> DEFINE s == Append(few, x)
  <1>1. Len(few) = n  BY DEF Begins
  <1>2. /\ Len(s) = n + 1 /\ s[n + 1] = x /\ \A i \in 1 .. n : s[i] = few[i]
    BY <1>1, ListAppend
  <1> HIDE DEF s
  <1>3. ASSUME NEW t \in 1 .. n + 1 PROVE s[t].id = many[t].id
    <2>1. CASE t = n + 1  BY <2>1, <1>2
    <2>2. CASE t # n + 1
      <3>1. t \in 1 .. n  BY <2>2
      <3> QED  BY <3>1, <1>2 DEF Begins
    <2> QED  BY <2>1, <2>2
  <1>4. Begins(s, many, n + 1)  BY <1>2, <1>3 DEF Begins
  <1> QED  BY <1>4 DEF s

(* What has begun as a list does is the list when it is as long. *)
LEMMA BegunIsSame ==
    ASSUME NEW s, NEW few, NEW many, IsList(many), Begins(few, many, Len(many)), Same(s, many)
    PROVE  Same(s, few)
  <1>1. Len(many) \in Nat  BY ListShape
  <1> QED  BY <1>1 DEF Same, Begins

LEMMA SameMore ==
    ASSUME NEW s, IsList(s), NEW t, IsList(t), Same(s, t), NEW x, NEW y, x.id = y.id
    PROVE  Same(Append(s, x), Append(t, y))
  <1> DEFINE a == Append(s, x)
             b == Append(t, y)
  <1>0. Len(s) = Len(t) /\ Len(t) \in Nat  BY ListShape DEF Same, Begins
  <1>1. Len(a) = Len(t) + 1 /\ a[Len(t) + 1] = x /\ \A i \in 1 .. Len(t) : a[i] = s[i]
    BY <1>0, ListAppend
  <1>2. Len(b) = Len(t) + 1 /\ b[Len(t) + 1] = y /\ \A i \in 1 .. Len(t) : b[i] = t[i]
    BY <1>0, ListAppend
  <1> HIDE DEF a, b
  <1>3. ASSUME NEW i \in 1 .. Len(t) + 1 PROVE a[i].id = b[i].id
    <2>1. CASE i = Len(t) + 1  BY <2>1, <1>1, <1>2
    <2>2. CASE i # Len(t) + 1
      <3>1. i \in 1 .. Len(t)  BY <2>2, <1>0
      <3> QED  BY <3>1, <1>1, <1>2 DEF Same, Begins
    <2> QED  BY <2>1, <2>2
  <1>4. Same(a, b)  BY <1>0, <1>1, <1>2, <1>3 DEF Same, Begins
  <1> QED  BY <1>4 DEF a, b

(* Where there is nothing left of the tables of the handle, those of the    *)
(* pass are the tables of the story.                                        *)
LEMMA BeyondOwned ==
    ASSUME NEW p, NEW o, IsList(o), IsWriting(p), p.step = "write", p.at > Len(o), Underway(story, p, o)
    PROVE  Same(story, p.tables) /\ p.at <= Len(p.pages) + 1
  <1>0. Len(o) \in Nat /\ p.at \in Nat  BY ListShape DEF IsWriting
  <1>1. CASE p.at <= Len(o) + 1
    <2>1. p.at - 1 = Len(o)  BY <1>0, <1>1
    <2>2. Begins(p.tables, o, Len(o)) /\ Same(story, o)  BY <1>1, <2>1 DEF Underway
    <2> QED  BY <2>2, BegunIsSame DEF Underway
  <1>2. CASE ~(p.at <= Len(o) + 1)  BY <1>2 DEF Underway
  <1> QED  BY <1>1, <1>2

(* A page that refreshes its table, however the refresh turns out. *)
LEMMA PageRefreshed ==
    ASSUME NEW p, NEW o, IsList(o), IsWriting(p), p.step = "write", p.at \in 1 .. Len(o),
           Underway(story, p, o), \A s : Same(story, s) => Same(story', s), p.at <= Len(p.pages),
           NEW x, x.id = o[p.at].id, NEW q,
           q.step = "write", q.pages = p.pages, q.at = p.at + 1, q.tables = Append(p.tables, x)
    PROVE  Underway(story', q, o)
  <1>0. Len(o) \in Nat /\ Len(p.pages) \in Nat /\ p.at \in Nat \ {0} /\ IsList(p.tables)
    BY ListShape DEF IsWriting
  <1>1. Begins(p.tables, o, p.at - 1) /\ Same(story, o)  BY <1>0 DEF Underway
  <1>2. Begins(Append(p.tables, x), o, p.at)
    <2> DEFINE n == p.at - 1
    <2>0. p.at \in Nat /\ p.at # 0 /\ p.at <= Len(o)  BY <1>0
    <2>1. n \in Nat /\ n + 1 = p.at /\ n + 1 <= Len(o)  BY <1>0, <2>0
    <2>2. x.id = o[n + 1].id /\ Begins(p.tables, o, n)  BY <1>1, <2>1
    <2> HIDE DEF n
    <2>3. Begins(Append(p.tables, x), o, n + 1)  BY <1>0, <2>1, <2>2, BeginsMore
    <2> QED  BY <2>1, <2>3
  <1>3. Same(story', o)  BY <1>1
  <1>4. q.at - 1 = p.at /\ q.at <= Len(o) + 1 /\ q.at <= Len(q.pages) + 1  BY <1>0
  <1> QED  BY <1>2, <1>3, <1>4 DEF Underway

LEMMA RefreshPageStep ==
    ASSUME IInv, NEW h \in 1 .. Len(handles), RefreshPage(h)
    PROVE  IInv'
  <1> USE DEF IInv
  <1> DEFINE p == handles[h].pass
             o == handles[h].owned
             x == Owned(o[p.at].id, p.pages[p.at], FALSE)
             ts == Append(p.tables, x)
             n == p.at + 1
             q == Writing("write", p.pages, n, ts)
  <1>1. p.step = "write"  BY DEF RefreshPage
  <1>2. /\ IsWriting(p) /\ p # NoPass /\ IsList(o)
        /\ Len(o) \in Nat /\ Len(p.pages) \in Nat
        /\ DOMAIN o = 1 .. Len(o) /\ DOMAIN p.pages = 1 .. Len(p.pages)
        /\ DOMAIN p = {"step", "pages", "at", "tables"}
        /\ OneHandle => Underway(story, p, o)
    BY <1>1, WritingFacts
  <1>g. p.at \in DOMAIN p.pages \cap DOMAIN o  BY DEF RefreshPage
  <1>3. p.at \in 1 .. Len(o) /\ p.at <= Len(p.pages) /\ p.at \in 1 .. Len(p.pages)
    BY <1>2, <1>g
  <1>4. handles' = [handles EXCEPT ![h].pass = q]
    <2>1. handles' = [handles EXCEPT ![h].pass = [p EXCEPT !.at = n, !.tables = ts]]
      BY DEF RefreshPage, Goes
    <2> HIDE DEF ts, n, p, o
    <2> DEFINE r == [p EXCEPT !.at = n, !.tables = ts]
    <2>d. r = [p EXCEPT !.at = n, !.tables = ts]  OBVIOUS
    <2>e. r.step = p.step /\ r.pages = p.pages /\ r.at = n /\ r.tables = ts  BY <1>2
    <2> HIDE DEF r
    <2>f. r = [step |-> r.step, pages |-> r.pages, at |-> r.at, tables |-> r.tables]
      <3>1. DOMAIN p = {"step", "pages", "at", "tables"}  BY <1>2
      <3> QED  BY <3>1, <2>d
    <2>2. r = q  BY <1>1, <2>e, <2>f DEF Writing
    <2>r. handles' = [handles EXCEPT ![h].pass = r]  BY <2>1 DEF r
    <2> QED  BY <2>r, <2>2
  <1>5. UNCHANGED <<layout, active, lapses, minted>>  BY DEF RefreshPage, Goes, user, session
  <1>6. StoryKept
    <2> DEFINE shows == Refreshed(story[TableAt(o[p.at].id)].shows, o[p.at].shows, p.pages[p.at])
    <2>1. story' = IF InStory(o[p.at].id) THEN StoryWith(o[p.at].id, shows) ELSE story
      BY DEF RefreshPage
    <2> HIDE DEF shows
    <2> QED  BY <2>1, StoryUnchanged, StoryWithKept
  <1>7. StoryOK' /\ \A s : Same(story, s) => Same(story', s)  BY <1>5, <1>6, KeptStory
  <1>8. x.id = o[p.at].id  BY DEF Owned
  <1>9. IsList(p.pages) /\ IsList(p.tables) /\ p.at \in Nat \ {0}  BY <1>2 DEF IsWriting
  <1> HIDE DEF x
  <1>10. IsList(Append(p.tables, x)) /\ p.at + 1 \in Nat \ {0}  BY <1>9, ListAppend
  <1>p. p = handles[h].pass /\ o = handles[h].owned  OBVIOUS
  <1> HIDE DEF q, p, o, n, ts
  <1>11. IsPass(q) /\ q # NoPass  BY <1>9, <1>10, WritingPass DEF q, n, ts
  <1>12. q.step = "write" /\ q.pages = p.pages /\ q.at = p.at + 1 /\ q.tables = Append(p.tables, x)
    <2>1. q.step = "write" /\ q.pages = p.pages /\ q.at = n /\ q.tables = ts  BY DEF q, Writing
    <2> QED  BY <2>1 DEF n, ts
  <1>13. OneHandle => Underway(story', q, o)
    BY <1>1, <1>2, <1>3, <1>7, <1>8, <1>12, PageRefreshed
  <1> QED  BY <1>p, <1>2, <1>4, <1>5, <1>7, <1>11, <1>13, PassGoes, Zenon

LEMMA InsertPageStep ==
    ASSUME IInv, NEW h \in 1 .. Len(handles), InsertPage(h)
    PROVE  IInv'
  <1> USE DEF IInv
  <1> DEFINE p == handles[h].pass
             o == handles[h].owned
             x == Owned(minted + 1, p.pages[p.at], FALSE)
             t == [id |-> minted + 1, shows |-> EmptyTable]
             ts == Append(p.tables, x)
             q == Writing("pour", p.pages, p.at, ts)
  <1>1. p.step = "write"  BY DEF InsertPage
  <1>2. /\ IsWriting(p) /\ p # NoPass /\ IsList(o)
        /\ Len(o) \in Nat /\ Len(p.pages) \in Nat
        /\ DOMAIN o = 1 .. Len(o) /\ DOMAIN p.pages = 1 .. Len(p.pages)
        /\ DOMAIN p = {"step", "pages", "at", "tables"}
        /\ OneHandle => Underway(story, p, o)
    BY <1>1, WritingFacts
  <1>3. p.at \in Len(o) + 1 .. Len(p.pages) /\ p.at > Len(o)
    BY <1>2 DEF InsertPage, IsWriting
  <1>4. handles' = [handles EXCEPT ![h].pass = q]
    <2>1. handles' = [handles EXCEPT ![h].pass = [p EXCEPT !.step = "pour", !.tables = ts]]
      BY DEF InsertPage, Goes
    <2> HIDE DEF ts, p, o
    <2> DEFINE r == [p EXCEPT !.step = "pour", !.tables = ts]
    <2>d. r = [p EXCEPT !.step = "pour", !.tables = ts]  OBVIOUS
    <2>e. r.step = "pour" /\ r.pages = p.pages /\ r.at = p.at /\ r.tables = ts  BY <1>2
    <2> HIDE DEF r
    <2>f. r = [step |-> r.step, pages |-> r.pages, at |-> r.at, tables |-> r.tables]
      <3>1. DOMAIN p = {"step", "pages", "at", "tables"}  BY <1>2
      <3> QED  BY <3>1, <2>d
    <2>2. r = q  BY <2>e, <2>f DEF Writing
    <2>r. handles' = [handles EXCEPT ![h].pass = r]  BY <2>1 DEF r
    <2> QED  BY <2>r, <2>2
  <1>5. UNCHANGED <<layout, active, lapses>> /\ minted' = minted + 1 /\ story' = Append(story, t)
    BY DEF InsertPage, Goes, user, session
  <1>6. t.id = minted + 1 /\ x.id = minted + 1 /\ IsTable(t)  BY DEF Owned, IsTable
  <1>7. IsList(p.pages) /\ IsList(p.tables) /\ p.at \in Nat \ {0}  BY <1>2 DEF IsWriting
  <1>p. p = handles[h].pass /\ o = handles[h].owned  OBVIOUS
  <1> HIDE DEF q, p, o, x, t, ts
  <1>9. StoryOK'
    <2>1. IsList(story) /\ Len(story) \in Nat /\ minted \in Nat  BY ListShape DEF StoryOK
    <2>2. /\ IsList(story') /\ Len(story') = Len(story) + 1 /\ story'[Len(story) + 1] = t
          /\ \A i \in 1 .. Len(story) : story'[i] = story[i]
      BY <1>5, <2>1, ListAppend
    <2>3. \A i \in 1 .. Len(story) :
              /\ IsTable(story[i]) /\ story[i].id \in 1 .. minted
              /\ \A k \in 1 .. Len(story) : story[i].id = story[k].id => i = k
      BY DEF StoryOK
    <2>4. ASSUME NEW i \in 1 .. Len(story') PROVE IsTable(story'[i]) /\ story'[i].id \in 1 .. minted'
      BY <1>5, <1>6, <2>1, <2>2, <2>3
    <2>5. ASSUME NEW i \in 1 .. Len(story'), NEW k \in 1 .. Len(story'), story'[i].id = story'[k].id
          PROVE  i = k
      <3>1. i = Len(story') \/ i \in 1 .. Len(story)  BY <2>1, <2>2
      <3>2. k = Len(story') \/ k \in 1 .. Len(story)  BY <2>1, <2>2
      <3> QED  BY <3>1, <3>2, <1>6, <2>1, <2>2, <2>3, <2>5
    <2> QED  BY <1>5, <2>1, <2>2, <2>4, <2>5 DEF StoryOK
  <1>10. IsList(Append(p.tables, x))  BY <1>7, ListAppend
  <1>8. IsPass(q) /\ q # NoPass  BY <1>7, <1>10, WritingPass DEF q, ts
  <1>11. q.step = "pour" /\ q.pages = p.pages /\ q.at = p.at /\ q.tables = Append(p.tables, x)
    <2>1. q.step = "pour" /\ q.pages = p.pages /\ q.at = p.at /\ q.tables = ts  BY DEF q, Writing
    <2> QED  BY <2>1 DEF ts
  <1>12. ASSUME OneHandle PROVE Underway(story', q, o)
    <2>1. Same(story, p.tables)  BY <1>1, <1>2, <1>3, <1>12, BeyondOwned
    <2>2. Same(story', q.tables)  BY <1>5, <1>6, <1>7, <1>11, <2>1, SameMore DEF StoryOK
    <2> QED  BY <1>3, <1>11, <2>2 DEF Underway
  <1> QED  BY <1>p, <1>2, <1>4, <1>5, <1>9, <1>8, <1>12, PassGoes

(* A page whose table is filled, or was to be. *)
LEMMA PageWritten ==
    ASSUME NEW p, NEW o, IsList(o), IsWriting(p), Same(story', p.tables),
           p.at > Len(o), p.at <= Len(p.pages), NEW q,
           q.step = "write", q.pages = p.pages, q.at = p.at + 1, q.tables = p.tables
    PROVE  Underway(story', q, o)
  <1>0. Len(o) \in Nat /\ Len(p.pages) \in Nat /\ p.at \in Nat \ {0}  BY ListShape DEF IsWriting
  <1>1. q.at <= Len(q.pages) + 1 /\ ~(q.at <= Len(o) + 1)  BY <1>0
  <1> QED  BY <1>1 DEF Underway

LEMMA PourPageStep ==
    ASSUME IInv, NEW h \in 1 .. Len(handles), PourPage(h)
    PROVE  IInv'
  <1> USE DEF IInv
  <1> DEFINE p == handles[h].pass
             o == handles[h].owned
             n == p.at + 1
             q == Writing("write", p.pages, n, p.tables)
  <1>1. p.step = "pour"  BY DEF PourPage
  <1>2. /\ IsWriting(p) /\ p # NoPass /\ IsList(o)
        /\ Len(o) \in Nat /\ Len(p.pages) \in Nat
        /\ DOMAIN p = {"step", "pages", "at", "tables"}
        /\ OneHandle => Underway(story, p, o)
    BY <1>1, WritingFacts
  <1>4. handles' = [handles EXCEPT ![h].pass = q]
    <2>1. handles' = [handles EXCEPT ![h].pass = [p EXCEPT !.step = "write", !.at = n]]
      BY DEF PourPage, Goes
    <2> HIDE DEF n, p, o
    <2> DEFINE r == [p EXCEPT !.step = "write", !.at = n]
    <2>d. r = [p EXCEPT !.step = "write", !.at = n]  OBVIOUS
    <2>e. r.step = "write" /\ r.pages = p.pages /\ r.at = n /\ r.tables = p.tables  BY <1>2
    <2> HIDE DEF r
    <2>f. r = [step |-> r.step, pages |-> r.pages, at |-> r.at, tables |-> r.tables]
      <3>1. DOMAIN p = {"step", "pages", "at", "tables"}  BY <1>2
      <3> QED  BY <3>1, <2>d
    <2>2. r = q  BY <2>e, <2>f DEF Writing
    <2>r. handles' = [handles EXCEPT ![h].pass = r]  BY <2>1 DEF r
    <2> QED  BY <2>r, <2>2
  <1>5. UNCHANGED <<layout, active, lapses, minted>>  BY DEF PourPage, Goes, user, session
  <1>6. StoryKept
    <2>1. \E id, shows : story' = StoryWith(id, shows)  BY DEF PourPage
    <2> QED  BY <2>1, StoryWithKept
  <1>7. StoryOK' /\ \A s : Same(story, s) => Same(story', s)  BY <1>5, <1>6, KeptStory
  <1>9. IsList(p.pages) /\ IsList(p.tables) /\ p.at \in Nat \ {0}  BY <1>2 DEF IsWriting
  <1>10. p.at + 1 \in Nat \ {0}  BY <1>9
  <1>p. p = handles[h].pass /\ o = handles[h].owned  OBVIOUS
  <1> HIDE DEF q, p, o, n
  <1>11. IsPass(q) /\ q # NoPass  BY <1>9, <1>10, WritingPass DEF q, n
  <1>12. q.step = "write" /\ q.pages = p.pages /\ q.at = p.at + 1 /\ q.tables = p.tables
    <2>1. q.step = "write" /\ q.pages = p.pages /\ q.at = n /\ q.tables = p.tables  BY DEF q, Writing
    <2> QED  BY <2>1 DEF n
  <1>13. ASSUME OneHandle PROVE Underway(story', q, o)
    <2>1. p.at \in Len(o) + 1 .. Len(p.pages) /\ Same(story, p.tables)
      BY <1>1, <1>2, <1>13 DEF Underway
    <2>2. p.at > Len(o) /\ p.at <= Len(p.pages)  BY <1>2, <2>1
    <2> QED  BY <1>2, <1>7, <1>12, <2>1, <2>2, PageWritten
  <1> QED  BY <1>p, <1>2, <1>4, <1>5, <1>7, <1>11, <1>13, PassGoes, Zenon

(* A page the host refuses to write. *)
LEMMA RefuseStep ==
    ASSUME IInv, NEW h \in 1 .. Len(handles), Refuse(h)
    PROVE  IInv'
  <1> USE DEF IInv
  <1> DEFINE p == handles[h].pass
             o == handles[h].owned
             refreshes == p.step = "write" /\ p.at \in DOMAIN o
             x == Owned(o[p.at].id, p.pages[p.at], FALSE)
             ts == IF refreshes THEN Append(p.tables, x) ELSE p.tables
             n == p.at + 1
             q == Writing("write", p.pages, n, ts)
  <1>1. p.step \in {"write", "pour"} /\ p.at \in DOMAIN p.pages  BY DEF Refuse
  <1>2. /\ IsWriting(p) /\ p # NoPass /\ IsList(o)
        /\ Len(o) \in Nat /\ Len(p.pages) \in Nat
        /\ DOMAIN o = 1 .. Len(o) /\ DOMAIN p.pages = 1 .. Len(p.pages)
        /\ DOMAIN p = {"step", "pages", "at", "tables"}
        /\ OneHandle => Underway(story, p, o)
    BY <1>1, WritingFacts
  <1>x. refreshes => x.id = o[p.at].id  BY DEF Owned
  <1>4. handles' = [handles EXCEPT ![h].pass = q]
    <2>1. handles' = [handles EXCEPT ![h].pass =
              [p EXCEPT !.step = "write", !.at = n,
                        !.tables = IF refreshes THEN Append(p.tables, x) ELSE p.tables]]
      BY <1>x DEF Refuse, Owned
    <2>t. handles' = [handles EXCEPT ![h].pass = [p EXCEPT !.step = "write", !.at = n, !.tables = ts]]
      BY <2>1
    <2> HIDE DEF ts, n, p, o
    <2> DEFINE r == [p EXCEPT !.step = "write", !.at = n, !.tables = ts]
    <2>d. r = [p EXCEPT !.step = "write", !.at = n, !.tables = ts]  OBVIOUS
    <2>e. r.step = "write" /\ r.pages = p.pages /\ r.at = n /\ r.tables = ts  BY <1>2
    <2> HIDE DEF r
    <2>f. r = [step |-> r.step, pages |-> r.pages, at |-> r.at, tables |-> r.tables]
      <3>1. DOMAIN p = {"step", "pages", "at", "tables"}  BY <1>2
      <3> QED  BY <3>1, <2>d
    <2>2. r = q  BY <2>e, <2>f DEF Writing
    <2>r. handles' = [handles EXCEPT ![h].pass = r]  BY <2>t DEF r
    <2> QED  BY <2>r, <2>2
  <1>5. UNCHANGED <<layout, active, minted>> /\ lapses \subseteq lapses'
    BY DEF Refuse, Fault, user, session
  <1>6. StoryKept /\ (p.step = "write" /\ ~refreshes => story' = story)
    <2>1. story' = story \/ \E id : story' = StoryWith(id, Garbled) /\ (p.step = "pour" \/ refreshes)
      BY DEF Refuse
    <2>2. p.step = "pour" => p.step # "write"  OBVIOUS
    <2> HIDE DEF p, refreshes
    <2> QED  BY <2>1, <2>2, StoryUnchanged, StoryWithKept
  <1>7. StoryOK' /\ \A s : Same(story, s) => Same(story', s)  BY <1>5, <1>6, KeptStory
  <1>9. IsList(p.pages) /\ IsList(p.tables) /\ p.at \in Nat \ {0}  BY <1>2 DEF IsWriting
  <1>r. refreshes <=> p.step = "write" /\ p.at \in 1 .. Len(o)  BY <1>2
  <1>p. p = handles[h].pass /\ o = handles[h].owned  OBVIOUS
  <1> HIDE DEF q, p, o, n, ts, x, refreshes
  <1>10. IsList(ts) /\ n \in Nat \ {0}
    <2>1. IsList(Append(p.tables, x))  BY <1>9, ListAppend
    <2>2. IsList(ts)  BY <1>9, <2>1 DEF ts
    <2> QED  BY <1>9, <2>2 DEF n
  <1>11. IsPass(q) /\ q # NoPass  BY <1>9, <1>10, WritingPass DEF q
  <1>12. q.step = "write" /\ q.pages = p.pages /\ q.at = p.at + 1 /\ q.tables = ts
    <2>1. q.step = "write" /\ q.pages = p.pages /\ q.at = n /\ q.tables = ts  BY DEF q, Writing
    <2> QED  BY <2>1 DEF n
  <1>3. p.at <= Len(p.pages) /\ p.at \in 1 .. Len(p.pages)  BY <1>1, <1>2
  <1>13. ASSUME OneHandle PROVE Underway(story', q, o)
    <2>1. CASE refreshes
      <3>1. ts = Append(p.tables, x)  BY <2>1 DEF ts
      <3> QED  BY <1>2, <1>3, <1>7, <1>12, <1>13, <1>r, <1>x, <2>1, <3>1, PageRefreshed
    <2>2. CASE ~refreshes /\ p.step = "write"
      <3>1. ts = p.tables /\ p.at > Len(o)  BY <1>2, <1>3, <1>r, <2>2 DEF ts
      <3>2. Same(story, p.tables)  BY <1>2, <1>13, <2>2, <3>1, BeyondOwned
      <3> QED  BY <1>2, <1>3, <1>7, <1>12, <3>1, <3>2, PageWritten
    <2>3. CASE p.step = "pour"
      <3>1. ts = p.tables  BY <2>3, <1>r DEF ts
      <3>2. p.at \in Len(o) + 1 .. Len(p.pages) /\ Same(story, p.tables)
        BY <1>2, <1>13, <2>3 DEF Underway
      <3>3. p.at > Len(o)  BY <1>2, <3>2
      <3> QED  BY <1>2, <1>3, <1>7, <1>12, <3>1, <3>2, <3>3, PageWritten
    <2> QED  BY <1>1, <2>1, <2>2, <2>3
  <1> QED  BY <1>p, <1>2, <1>4, <1>5, <1>7, <1>11, <1>13, PassGoes

-----------------------------------------------------------------------------
(* The end of the pages *)

Kept(tables, gone) == {t \in 1 .. Len(tables) : tables[t].id \notin gone}

(* What remains of a list of tables is a list of some of them, none twice, ... *)
LEMMA RemainingShape ==
    ASSUME NEW tables, IsList(tables), NEW gone
    PROVE  /\ Cardinality(Kept(tables, gone)) \in Nat
           /\ Remaining(tables, gone) =
                  [i \in 1 .. Cardinality(Kept(tables, gone)) |-> tables[At(Kept(tables, gone), i)]]
           /\ IsList(Remaining(tables, gone))
           /\ Len(Remaining(tables, gone)) = Cardinality(Kept(tables, gone))
  <1> DEFINE kept == Kept(tables, gone)
  <1>1. Len(tables) \in Nat /\ DOMAIN tables = 1 .. Len(tables)  BY ListShape
  <1>2. Remaining(tables, gone) = Keeping(tables, kept)  BY <1>1 DEF Remaining, Kept
  <1>3. kept \in SUBSET (1 .. Len(tables))  BY DEF Kept
  <1> HIDE DEF kept
  <1>4. Keeping(tables, kept) = [i \in 1 .. Cardinality(kept) |-> tables[At(kept, i)]]
    BY DEF Keeping, At, UpTo
  <1>5. /\ IsList(Keeping(tables, kept)) /\ Len(Keeping(tables, kept)) = Cardinality(kept)
        /\ Cardinality(kept) \in Nat
    BY <1>1, <1>3, KeepingShape
  <1> QED  BY <1>2, <1>4, <1>5 DEF kept

LEMMA RemainingStory ==
    ASSUME StoryOK, NEW gone, story' = Remaining(story, gone), minted' = minted
    PROVE  StoryOK'
  <1> DEFINE kept == Kept(story, gone)
  <1>0. IsList(story) /\ Len(story) \in Nat /\ minted \in Nat  BY ListShape DEF StoryOK
  <1>1. /\ Cardinality(kept) \in Nat
        /\ story' = [i \in 1 .. Cardinality(kept) |-> story[At(kept, i)]]
        /\ IsList(story') /\ Len(story') = Cardinality(kept)
    BY <1>0, RemainingShape
  <1>2. kept \in SUBSET (1 .. Len(story))  BY DEF Kept
  <1> HIDE DEF kept
  <1>3. ASSUME NEW i \in 1 .. Cardinality(kept)
        PROVE  /\ At(kept, i) \in 1 .. Len(story) /\ Cardinality(UpTo(kept, At(kept, i))) = i
               /\ story'[i] = story[At(kept, i)]
    <2>1. At(kept, i) \in kept /\ Cardinality(UpTo(kept, At(kept, i))) = i  BY <1>0, <1>2, AtPlace
    <2> QED  BY <1>1, <1>2, <2>1
  <1>4. ASSUME NEW i \in 1 .. Len(story') PROVE IsTable(story'[i]) /\ story'[i].id \in 1 .. minted
    BY <1>1, <1>3 DEF StoryOK
  <1>5. ASSUME NEW i \in 1 .. Len(story'), NEW k \in 1 .. Len(story'), story'[i].id = story'[k].id
        PROVE  i = k
    <2>1. At(kept, i) = At(kept, k)  BY <1>1, <1>3, <1>5 DEF StoryOK
    <2> QED  BY <1>1, <1>3, <2>1
  <1> QED  BY <1>0, <1>1, <1>4, <1>5 DEF StoryOK

(* ... and where the first n are kept and no other, it is those n. *)
LEMMA RemainingFirst ==
    ASSUME NEW tables, IsList(tables), NEW n \in 0 .. Len(tables), NEW gone,
           \A t \in 1 .. Len(tables) : tables[t].id \notin gone <=> t <= n
    PROVE  /\ Len(Remaining(tables, gone)) = n
           /\ \A i \in 1 .. n : Remaining(tables, gone)[i] = tables[i]
  <1> DEFINE kept == Kept(tables, gone)
             r == Remaining(tables, gone)
  <1>0. Len(tables) \in Nat /\ n \in Nat /\ n <= Len(tables)  BY ListShape
  <1>1. kept = 1 .. n  BY <1>0 DEF Kept
  <1>2. /\ r = [i \in 1 .. Cardinality(kept) |-> tables[At(kept, i)]]
        /\ Len(r) = Cardinality(kept)
    BY RemainingShape
  <1>3. \A m \in Nat : Cardinality(1 .. m) = m
    <2> TAKE m \in Nat
    <2>1. Cardinality(1 .. m) = IF 1 > m THEN 0 ELSE m - 1 + 1  BY FS_Interval
    <2> QED  BY <2>1
  <1> HIDE DEF r, kept
  <1>4. Cardinality(kept) = n  BY <1>0, <1>1, <1>3
  <1>5. ASSUME NEW i \in 1 .. n PROVE At(kept, i) = i
    <2> DEFINE t == At(kept, i)
    <2>1. t \in kept /\ Cardinality(UpTo(kept, t)) = i  BY <1>0, <1>1, <1>4, AtPlace
    <2>2. t \in 1 .. n  BY <1>1, <2>1
    <2> HIDE DEF t
    <2>3. UpTo(kept, t) = 1 .. t  BY <1>0, <1>1, <2>2 DEF UpTo
    <2>4. t = i  BY <1>0, <1>3, <2>1, <2>2, <2>3
    <2> QED  BY <2>4 DEF t
  <1>6. Len(r) = n /\ \A i \in 1 .. n : r[i] = tables[i]  BY <1>2, <1>4, <1>5
  <1> QED  BY <1>6 DEF r

Names(s) == {s[i].id : i \in DOMAIN s}

LEMMA SpareShape ==
    ASSUME HandlesOK, NEW h \in 1 .. Len(handles),
           handles[h].pass.step \in {"write", "pour", "empty"}
    PROVE  /\ IsList(Spare(h)) /\ DOMAIN Spare(h) = 1 .. Len(Spare(h))
           /\ Len(Spare(h)) = IF Len(handles[h].pass.pages) < Len(handles[h].owned)
                              THEN Len(handles[h].owned) - Len(handles[h].pass.pages) ELSE 0
           /\ \A i \in 1 .. Len(Spare(h)) :
                  Spare(h)[i] = handles[h].owned[Len(handles[h].pass.pages) + i]
  <1> DEFINE o == handles[h].owned
             n == Len(handles[h].pass.pages)
             s == Spare(h)
  <1>1. IsList(o) /\ Len(o) \in Nat /\ n \in Nat  BY WritingFacts
  <1>2. s = SubSeq(o, n + 1, Len(o))  BY DEF Spare
  <1> HIDE DEF o, n, s
  <1>m. n + 1 \in Nat \ {0} /\ Len(o) <= Len(o)  BY <1>1
  <1>3. /\ IsList(s) /\ Len(s) = (IF n + 1 <= Len(o) THEN Len(o) - (n + 1) + 1 ELSE 0)
        /\ \A i \in 1 .. Len(o) - (n + 1) + 1 : s[i] = o[n + 1 + i - 1]
    BY <1>1, <1>2, <1>m, ListSub
  <1>4. Len(s) = IF n < Len(o) THEN Len(o) - n ELSE 0  BY <1>1, <1>3
  <1>5. ASSUME NEW i \in 1 .. Len(s) PROVE s[i] = o[n + i]
    <2>1. i \in 1 .. Len(o) - (n + 1) + 1 /\ n + 1 + i - 1 = n + i  BY <1>1, <1>4
    <2> QED  BY <1>3, <2>1
  <1>6. DOMAIN s = 1 .. Len(s)  BY <1>3, ListShape
  <1> QED  BY <1>3, <1>4, <1>5, <1>6 DEF o, n, s

(* The tables a pass needs no longer are those after its pages. *)
LEMMA SpareGone ==
    ASSUME StoryOK, NEW o, IsList(o), NEW n \in 0 .. Len(o), Same(story, o), NEW spare, IsList(spare),
           DOMAIN spare = 1 .. Len(spare), Len(spare) = Len(o) - n,
           \A i \in 1 .. Len(spare) : spare[i] = o[n + i]
    PROVE  \A t \in 1 .. Len(story) : story[t].id \notin Names(spare) <=> t <= n
  <1>0. Len(o) \in Nat /\ n \in Nat /\ n <= Len(o)  BY ListShape
  <1>1. Len(story) = Len(o) /\ \A t \in 1 .. Len(o) : story[t].id = o[t].id
    BY DEF Same, Begins
  <1>2. ASSUME NEW t \in 1 .. Len(story), ~(t <= n) PROVE story[t].id \in Names(spare)
    <2>1. t - n \in 1 .. Len(spare) /\ n + (t - n) = t  BY <1>0, <1>1, <1>2
    <2>2. spare[t - n] = o[t]  BY <2>1
    <2> QED  BY <1>1, <2>1, <2>2 DEF Names
  <1>3. ASSUME NEW t \in 1 .. Len(story), t <= n, story[t].id \in Names(spare) PROVE FALSE
    <2>1. PICK i \in 1 .. Len(spare) : story[t].id = spare[i].id  BY <1>3 DEF Names
    <2>2. n + i \in 1 .. Len(o) /\ n + i > n  BY <1>0
    <2>3. story[n + i].id = story[t].id  BY <1>1, <2>1, <2>2
    <2>4. n + i = t  BY <1>1, <2>2, <2>3 DEF StoryOK
    <2> QED  BY <1>0, <1>3, <2>2, <2>4
  <1> QED  BY <1>2, <1>3

(* When every page is written, the tables the handle owned are used up, or  *)
(* some of them are left.                                                   *)
LEMMA PagesWritten ==
    ASSUME NEW p, NEW o, IsList(o), IsWriting(p), p.step = "write", p.at > Len(p.pages),
           Underway(story, p, o)
    PROVE  \/ Len(o) <= Len(p.pages) /\ Same(story, p.tables)
           \/ Len(p.pages) < Len(o) /\ Begins(p.tables, o, Len(p.pages)) /\ Same(story, o)
  <1>0. Len(o) \in Nat /\ Len(p.pages) \in Nat /\ p.at \in Nat \ {0}  BY ListShape DEF IsWriting
  <1>1. CASE p.at > Len(o)
    <2>1. Same(story, p.tables) /\ p.at <= Len(p.pages) + 1  BY <1>1, BeyondOwned
    <2>2. Len(o) <= Len(p.pages)  BY <1>0, <1>1, <2>1
    <2> QED  BY <2>1, <2>2
  <1>2. CASE ~(p.at > Len(o))
    <2>1. p.at <= Len(p.pages) + 1 /\ p.at <= Len(o) + 1  BY <1>0, <1>2 DEF Underway
    <2>2. p.at - 1 = Len(p.pages) /\ Len(p.pages) < Len(o)  BY <1>0, <1>2, <2>1
    <2>3. Begins(p.tables, o, p.at - 1) /\ Same(story, o)  BY <2>1 DEF Underway
    <2> QED  BY <2>2, <2>3
  <1> QED  BY <1>1, <1>2

(* The tables that are left over go, and no other. *)
LEMMA SpareDeleted ==
    ASSUME HandlesOK, StoryOK, NEW h \in 1 .. Len(handles), handles[h].pass.step = "write",
           handles[h].pass.at > Len(handles[h].pass.pages),
           Underway(story, handles[h].pass, handles[h].owned),
           story' = Remaining(story, Names(Spare(h)))
    PROVE  /\ Same(story', handles[h].pass.tables)
           /\ \A t \in 1 .. Len(story') : t \in 1 .. Len(story) /\ story'[t] = story[t]
  <1> DEFINE p == handles[h].pass
             o == handles[h].owned
             spare == Spare(h)
             gone == Names(spare)
  <1>1. p.step = "write" /\ p.at > Len(p.pages) /\ Underway(story, p, o)  OBVIOUS
  <1>2. /\ IsWriting(p) /\ IsList(o) /\ Len(o) \in Nat /\ Len(p.pages) \in Nat
    BY WritingFacts
  <1>3. /\ IsList(spare) /\ DOMAIN spare = 1 .. Len(spare)
        /\ Len(spare) = IF Len(p.pages) < Len(o) THEN Len(o) - Len(p.pages) ELSE 0
        /\ \A i \in 1 .. Len(spare) : spare[i] = o[Len(p.pages) + i]
    BY <1>1, SpareShape
  <1>g. gone = Names(spare) /\ story' = Remaining(story, gone)  OBVIOUS
  <1> HIDE DEF p, o, spare, gone
  <1>s. IsList(story) /\ Len(story) \in Nat  BY ListShape DEF StoryOK
  <1>4. ASSUME NEW n \in 0 .. Len(story), n = Len(p.tables), Begins(p.tables, story, n),
               \A t \in 1 .. Len(story) : story[t].id \notin gone <=> t <= n
        PROVE  /\ Same(story', p.tables)
               /\ \A t \in 1 .. Len(story') : t \in 1 .. Len(story) /\ story'[t] = story[t]
    <2> DEFINE left == Remaining(story, gone)
    <2>a. \A t \in 1 .. Len(story) : story[t].id \notin gone <=> t <= n  BY <1>4
    <2>b. Len(left) = n /\ \A i \in 1 .. n : left[i] = story[i]  BY <1>s, <2>a, RemainingFirst
    <2> HIDE DEF left
    <2>c. story' = left  BY <1>g DEF left
    <2>1. Len(story') = n /\ \A i \in 1 .. n : story'[i] = story[i]  BY <2>b, <2>c
    <2>2. \A i \in 1 .. n : i \in 1 .. Len(story)  BY <1>s
    <2>3. Same(story', p.tables)  BY <1>4, <2>1, <2>2 DEF Same, Begins
    <2> QED  BY <2>1, <2>2, <2>3
  <1>5. ASSUME Len(o) <= Len(p.pages), Same(story, p.tables)
        PROVE  /\ Same(story', p.tables)
               /\ \A t \in 1 .. Len(story') : t \in 1 .. Len(story) /\ story'[t] = story[t]
    <2>1. gone = {}
      <3>1. ~(Len(p.pages) < Len(o))  BY <1>2, <1>5
      <3>2. DOMAIN spare = {}  BY <1>3, <3>1
      <3> QED  BY <3>2, <1>g DEF Names
    <2>2. Len(story) \in 0 .. Len(story) /\ Len(story) = Len(p.tables) /\ Begins(p.tables, story, Len(story))
      BY <1>s, <1>5 DEF Same, Begins
    <2>3. \A t \in 1 .. Len(story) : story[t].id \notin gone <=> t <= Len(story)  BY <2>1
    <2> QED  BY <1>4, <2>2, <2>3
  <1>6. ASSUME Len(p.pages) < Len(o), Begins(p.tables, o, Len(p.pages)), Same(story, o)
        PROVE  /\ Same(story', p.tables)
               /\ \A t \in 1 .. Len(story') : t \in 1 .. Len(story) /\ story'[t] = story[t]
    <2> DEFINE n == Len(p.pages)
    <2>1. /\ n \in 0 .. Len(o) /\ Len(spare) = Len(o) - n
          /\ \A i \in 1 .. Len(spare) : spare[i] = o[n + i]
      BY <1>2, <1>3, <1>6
    <2>2. n \in Nat /\ Begins(p.tables, o, n) /\ Same(story, o)  BY <1>2, <1>6
    <2> HIDE DEF n
    <2>3. \A t \in 1 .. Len(story) : story[t].id \notin gone <=> t <= n
      BY <1>2, <1>3, <1>g, <2>1, <2>2, SpareGone
    <2>4. n \in 0 .. Len(story) /\ n = Len(p.tables) /\ Begins(p.tables, story, n)
      BY <1>2, <1>s, <2>1, <2>2 DEF Same, Begins
    <2> QED  BY <1>4, <2>3, <2>4
  <1>7. \/ Len(o) <= Len(p.pages) /\ Same(story, p.tables)
        \/ Len(p.pages) < Len(o) /\ Begins(p.tables, o, Len(p.pages)) /\ Same(story, o)
    BY <1>1, <1>2, PagesWritten
  <1>8. /\ Same(story', p.tables)
        /\ \A t \in 1 .. Len(story') : t \in 1 .. Len(story) /\ story'[t] = story[t]
    BY <1>5, <1>6, <1>7
  <1> QED  BY <1>8 DEF p

LEMMA EndPagesStep ==
    ASSUME IInv, NEW h \in 1 .. Len(handles), EndPages(h)
    PROVE  IInv'
  <1> USE DEF IInv
  <1> DEFINE p == handles[h].pass
             o == handles[h].owned
             spare == Spare(h)
             gone == Names(spare)
             q == Writing("empty", p.pages, 1, p.tables)
  <1>1. p.step = "write" /\ p.at > Len(p.pages)  BY DEF EndPages
  <1>2. /\ IsWriting(p) /\ p # NoPass /\ IsList(o)
        /\ Len(o) \in Nat /\ Len(p.pages) \in Nat
        /\ DOMAIN p = {"step", "pages", "at", "tables"}
        /\ OneHandle => Underway(story, p, o)
    BY <1>1, WritingFacts
  <1>3. /\ IsList(spare) /\ DOMAIN spare = 1 .. Len(spare)
        /\ Len(spare) = IF Len(p.pages) < Len(o) THEN Len(o) - Len(p.pages) ELSE 0
        /\ \A i \in 1 .. Len(spare) : spare[i] = o[Len(p.pages) + i]
    BY <1>1, SpareShape
  <1>4. minted' = minted  BY DEF EndPages
  <1>5. \/ story' = Remaining(story, gone) /\ Ended(h, p.tables)
        \/ /\ gone # {} /\ story' = story
           /\ Goes(h, [p EXCEPT !.step = "empty", !.at = 1])
    BY DEF EndPages, Names
  <1>9. IsList(p.pages) /\ IsList(p.tables) /\ p.at \in Nat \ {0}  BY <1>2 DEF IsWriting
  <1>p. p = handles[h].pass /\ o = handles[h].owned  OBVIOUS
  <1>g. gone = Names(spare)  OBVIOUS
  <1> HIDE DEF p, o, spare, gone
  <1>10. OneHandle => \/ Len(o) <= Len(p.pages) /\ Same(story, p.tables)
                      \/ Len(p.pages) < Len(o) /\ Begins(p.tables, o, Len(p.pages)) /\ Same(story, o)
    BY <1>1, <1>2, PagesWritten
  <1>12. CASE story' = Remaining(story, gone) /\ Ended(h, p.tables)
    <2>1. StoryOK'  BY <1>4, <1>12, RemainingStory
    <2>2. ASSUME OneHandle PROVE Same(story', p.tables)
      BY <1>p, <1>1, <1>2, <1>g, <1>12, <2>2, SpareDeleted DEF spare
    <2>3. p.step # "frames"  BY <1>1
    <2> QED  BY <1>p, <1>2, <1>9, <1>12, <2>1, <2>2, <2>3, PassEnds
  <1>13. CASE gone # {} /\ story' = story /\ Goes(h, [p EXCEPT !.step = "empty", !.at = 1])
    <2> DEFINE r == [p EXCEPT !.step = "empty", !.at = 1]
    <2>d. r = [p EXCEPT !.step = "empty", !.at = 1]  OBVIOUS
    <2>e. r.step = "empty" /\ r.pages = p.pages /\ r.at = 1 /\ r.tables = p.tables  BY <1>2
    <2>h. Goes(h, r)  BY <1>13
    <2> HIDE DEF r
    <2>f. r = [step |-> r.step, pages |-> r.pages, at |-> r.at, tables |-> r.tables]
      <3>1. DOMAIN p = {"step", "pages", "at", "tables"}  BY <1>2
      <3> QED  BY <3>1, <2>d
    <2>1. r = q  BY <2>e, <2>f DEF Writing
    <2>2. IsPass(r) /\ r # NoPass
      <3>1. IsPass(q) /\ q # NoPass  BY <1>9, WritingPass
      <3> HIDE DEF q
      <3> QED  BY <2>1, <3>1
    <2> HIDE DEF q
    <2>3. handles' = [handles EXCEPT ![h].pass = r] /\ UNCHANGED <<layout, active, lapses>>
      BY <2>h DEF Goes, user, session
    <2>4. StoryOK'  BY <1>4, <1>13 DEF StoryOK
    <2>5. ASSUME OneHandle PROVE Underway(story', r, o)
      <3>1. Len(spare) # 0
        <4> SUFFICES ASSUME Len(spare) = 0 PROVE FALSE  OBVIOUS
        <4>1. DOMAIN spare = {}  BY <1>3
        <4> QED  BY <4>1, <1>g, <1>13 DEF Names
      <3>3. Len(p.pages) < Len(o) /\ Begins(p.tables, o, Len(p.pages)) /\ Same(story, o)
        <4>1. ~(Len(o) <= Len(p.pages))  BY <1>2, <1>3, <3>1
        <4> QED  BY <1>10, <2>5, <4>1
      <3>4. 1 \in 1 .. Len(o) - Len(p.pages) /\ Len(p.pages) + 1 - 1 = Len(p.pages)  BY <1>2, <3>3
      <3> QED  BY <1>13, <2>e, <3>3, <3>4 DEF Underway
    <2>6. lapses \subseteq lapses'  BY <2>3
    <2> QED  BY <1>p, <1>2, <2>2, <2>3, <2>4, <2>5, <2>6, PassGoes
  <1> QED  BY <1>5, <1>12, <1>13

LEMMA EmptySpareStep ==
    ASSUME IInv, NEW h \in 1 .. Len(handles), EmptySpare(h)
    PROVE  IInv'
  <1> USE DEF IInv
  <1> DEFINE p == handles[h].pass
             o == handles[h].owned
             spare == Spare(h)
             x == Owned(spare[p.at].id, Blank, TRUE)
             ts == Append(p.tables, x)
             n == p.at + 1
             q == Writing("empty", p.pages, n, ts)
  <1>1. p.step = "empty"  BY DEF EmptySpare
  <1>2. /\ IsWriting(p) /\ p # NoPass /\ IsList(o)
        /\ Len(o) \in Nat /\ Len(p.pages) \in Nat
        /\ DOMAIN p = {"step", "pages", "at", "tables"}
        /\ OneHandle => Underway(story, p, o)
    BY <1>1, WritingFacts
  <1>3. /\ Len(spare) = IF Len(p.pages) < Len(o) THEN Len(o) - Len(p.pages) ELSE 0
        /\ \A i \in 1 .. Len(spare) : spare[i] = o[Len(p.pages) + i]
    BY <1>1, SpareShape
  <1>4. UNCHANGED minted  BY DEF EmptySpare
  <1>5. IF p.at = Len(spare) THEN Ended(h, ts) ELSE Goes(h, [p EXCEPT !.at = n, !.tables = ts])
    BY DEF EmptySpare
  <1>6. StoryKept
    <2> DEFINE id == spare[p.at].id
               shows == Refreshed(story[TableAt(id)].shows, spare[p.at].shows, Blank)
    <2>1. story' = IF spare[p.at].blank \/ ~InStory(id) THEN story ELSE StoryWith(id, shows)
      BY DEF EmptySpare
    <2> HIDE DEF id, shows
    <2> QED  BY <2>1, StoryUnchanged, StoryWithKept
  <1>7. StoryOK' /\ \A s : Same(story, s) => Same(story', s)  BY <1>4, <1>6, KeptStory
  <1>8. x.id = spare[p.at].id  BY DEF Owned
  <1>9. IsList(p.pages) /\ IsList(p.tables) /\ p.at \in Nat \ {0}  BY <1>2 DEF IsWriting
  <1>p. p = handles[h].pass /\ o = handles[h].owned  OBVIOUS
  <1> HIDE DEF q, p, o, n, ts, x, spare
  <1>10. IsList(ts) /\ n \in Nat \ {0}
    <2>1. IsList(ts)  BY <1>9, ListAppend DEF ts
    <2> QED  BY <1>9, <2>1 DEF n
  <1>11. ASSUME OneHandle
         PROVE  /\ p.at \in 1 .. Len(o) - Len(p.pages) /\ Len(spare) = Len(o) - Len(p.pages)
                /\ Begins(ts, o, Len(p.pages) + p.at) /\ Same(story', o)
    <2>1. /\ p.at \in 1 .. Len(o) - Len(p.pages)
          /\ Begins(p.tables, o, Len(p.pages) + p.at - 1) /\ Same(story, o)
      BY <1>1, <1>2, <1>11 DEF Underway
    <2>2. Len(spare) = Len(o) - Len(p.pages) /\ p.at \in 1 .. Len(spare)  BY <1>2, <1>3, <1>9, <2>1
    <2>3. x.id = o[Len(p.pages) + p.at].id  BY <1>3, <1>8, <2>2
    <2> DEFINE k == Len(p.pages) + p.at - 1
    <2>4. k \in Nat /\ k + 1 = Len(p.pages) + p.at /\ k + 1 <= Len(o)  BY <1>2, <1>9, <2>1
    <2>5. x.id = o[k + 1].id /\ Begins(p.tables, o, k)  BY <2>1, <2>3, <2>4
    <2> HIDE DEF k
    <2>6. Begins(ts, o, k + 1)  BY <1>2, <1>9, <2>4, <2>5, BeginsMore DEF ts
    <2> QED  BY <1>7, <2>1, <2>2, <2>4, <2>6
  <1>12. CASE p.at = Len(spare)
    <2>1. Ended(h, ts)  BY <1>5, <1>12
    <2>2. ASSUME OneHandle PROVE Same(story', ts)
      <3>1. Len(p.pages) + p.at = Len(o)  BY <1>2, <1>9, <1>11, <1>12, <2>2
      <3>2. Begins(ts, o, Len(o)) /\ Same(story', o)  BY <1>11, <2>2, <3>1
      <3> QED  BY <1>2, <3>2, BegunIsSame
    <2>3. p.step # "frames"  BY <1>1
    <2> QED  BY <1>p, <1>2, <1>7, <1>10, <2>1, <2>2, <2>3, PassEnds
  <1>13. CASE p.at # Len(spare)
    <2> DEFINE r == [p EXCEPT !.at = n, !.tables = ts]
    <2>d. r = [p EXCEPT !.at = n, !.tables = ts]  OBVIOUS
    <2>e. r.step = "empty" /\ r.pages = p.pages /\ r.at = n /\ r.tables = ts  BY <1>1, <1>2
    <2>h. Goes(h, r)  BY <1>5, <1>13
    <2> HIDE DEF r
    <2>f. r = [step |-> r.step, pages |-> r.pages, at |-> r.at, tables |-> r.tables]
      <3>1. DOMAIN p = {"step", "pages", "at", "tables"}  BY <1>2
      <3> QED  BY <3>1, <2>d
    <2>1. r = q  BY <2>e, <2>f DEF Writing, q
    <2>2. IsPass(r) /\ r # NoPass
      <3>1. IsPass(q) /\ q # NoPass  BY <1>9, <1>10, WritingPass DEF q
      <3> QED  BY <2>1, <3>1
    <2>3. handles' = [handles EXCEPT ![h].pass = r] /\ UNCHANGED <<layout, active, lapses>>
      BY <2>h DEF Goes, user, session
    <2>5. ASSUME OneHandle PROVE Underway(story', r, o)
      <3>1. n \in 1 .. Len(o) - Len(p.pages) /\ Len(p.pages) + n - 1 = Len(p.pages) + p.at
        BY <1>2, <1>9, <1>11, <1>13, <2>5 DEF n
      <3>2. Begins(ts, o, Len(p.pages) + n - 1) /\ Same(story', o)  BY <1>11, <2>5, <3>1
      <3> QED  BY <2>e, <3>1, <3>2 DEF Underway
    <2>6. lapses \subseteq lapses'  BY <2>3
    <2> QED  BY <1>p, <1>2, <1>7, <2>2, <2>3, <2>5, <2>6, PassGoes, Zenon
  <1> QED  BY <1>12, <1>13

-----------------------------------------------------------------------------
(* The user, the timers and the faults *)

LEMMA UserSteps ==
    ASSUME IInv, \/ \E new \in Sheets : Edit(new)
                 \/ \E opts \in Options : Ask(opts)
                 \/ RefreshTimer \/ Rest
    PROVE  IInv'
  <1>1. UNCHANGED <<layout, story, minted, handles, active>> /\ lapses \subseteq lapses'
    BY DEF Edit, Ask, RefreshTimer, Rest, host, user, session, vars
  <1> QED  BY <1>1 DEF IInv, HandlesOK, StoryOK, PlacesOK, Orderly, OneHandle

(* A handle of which only timer and runs change. *)
Alike(x, y) ==
    /\ IsHandle(y) /\ IsList(y.runs) /\ (y.pass # NoPass => y.runs # <<>>)
    /\ y.owned = x.owned /\ y.pass = x.pass /\ y.disposed = x.disposed
    /\ (Begun(x) => Begun(y) \/ y.disposed)

LEMMA AlikeOK ==
    ASSUME NEW x, HandleOK(x), NEW y, Alike(x, y)
    PROVE  HandleOK(y)
  BY DEF HandleOK, Alike

LEMMA ResizeStep ==
    ASSUME IInv, NEW new \in Layouts, Resize(new)
    PROVE  IInv'
  <1> USE DEF IInv
  <1>1. /\ UNCHANGED <<story, minted, active>> /\ lapses \subseteq lapses' /\ layout' = new
    BY DEF Resize, host, session
  <1> DEFINE y(h) == [handles[h] EXCEPT !.timer = handles[h].timer \/ handles[h].live]
  <1>3. IsList(handles) /\ DOMAIN handles = 1 .. Len(handles)  BY ListShape DEF HandlesOK
  <1>4. handles' = [h \in 1 .. Len(handles) |-> y(h)]  BY <1>3 DEF Resize, Handles
  <1>5. ASSUME NEW h \in 1 .. Len(handles) PROVE Alike(handles[h], y(h)) /\ HandleOK(y(h))
    <2> DEFINE x == handles[h]
    <2>1. HandleOK(x)  BY DEF HandlesOK
    <2> HIDE DEF x
    <2>2. DOMAIN x = {"opts", "owned", "runs", "pass", "live", "timer", "disposed", "broken"}
      BY <2>1 DEF HandleOK, IsHandle
    <2> DEFINE z == [x EXCEPT !.timer = x.timer \/ x.live]
    <2>3. z.owned = x.owned /\ z.pass = x.pass /\ z.disposed = x.disposed /\ z.runs = x.runs  BY <2>2
    <2>z. z = [x EXCEPT !.timer = x.timer \/ x.live]  OBVIOUS
    <2>e. z = y(h)  BY DEF x
    <2> HIDE DEF z
    <2>4. IsHandle(z)  BY <2>2, <2>z DEF IsHandle
    <2>5. Alike(x, z)  BY <2>1, <2>3, <2>4 DEF Alike, HandleOK, Begun
    <2>6. HandleOK(z)  BY <2>1, <2>5, AlikeOK
    <2> QED  BY <2>5, <2>6, <2>e DEF x
  <1> HIDE DEF y
  <1>6. IsList(handles') /\ Len(handles') = Len(handles)
    <2>1. handles' = [h \in 1 .. Len(handles) |-> handles'[h]]  BY <1>4
    <2> QED  BY <1>3, <2>1, ListMap
  <1>7. \A h \in 1 .. Len(handles) : handles'[h] = y(h)  BY <1>4
  <1>2. PlacesOK'  BY <1>1, <1>6, FramesAssumption DEF PlacesOK
  <1>8. HandlesOK'  BY <1>5, <1>6, <1>7 DEF HandlesOK
  <1>9. Orderly'  BY <1>1, <1>5, <1>6, <1>7, <1>8, HandlesAlike DEF Alike
  <1>10. StoryOK'  BY <1>1 DEF StoryOK
  <1> QED  BY <1>2, <1>8, <1>9, <1>10

(* One handle is asked for a run, or its timer expires. *)
LEMMA OneAlike ==
    ASSUME IInv, NEW h \in 1 .. Len(handles), NEW y, Alike(handles[h], y),
           handles' = [handles EXCEPT ![h] = y], UNCHANGED <<layout, story, minted, active>>,
           lapses \subseteq lapses'
    PROVE  IInv'
  <1> USE DEF IInv
  <1>1. HandleOK(y)  BY AlikeOK DEF HandlesOK
  <1>2. /\ HandlesOK' /\ Len(handles') = Len(handles) /\ handles'[h] = y
        /\ \A g \in 1 .. Len(handles) : g # h => handles'[g] = handles[g]
    BY <1>1, HandlePut
  <1>3. \A g \in 1 .. Len(handles) :
            /\ handles'[g].owned = handles[g].owned /\ handles'[g].pass = handles[g].pass
            /\ handles'[g].disposed = handles[g].disposed
            /\ Begun(handles[g]) => Begun(handles'[g]) \/ handles'[g].disposed
    BY <1>2 DEF Alike
  <1>4. Orderly'  BY <1>2, <1>3, HandlesAlike
  <1>5. StoryOK' /\ PlacesOK'  BY <1>2 DEF StoryOK, PlacesOK
  <1> QED  BY <1>2, <1>4, <1>5

LEMMA TimerSteps ==
    ASSUME IInv, StartRefresh \/ \E h \in 1 .. Len(handles) : ReflowTimer(h)
    PROVE  IInv'
  <1>b. ASSUME NEW x, HandleOK(x), NEW run
        PROVE  /\ IsList(Append(x.runs, run))
               /\ x.runs # <<>> => /\ Append(x.runs, run) # <<>>
                                   /\ Head(Append(x.runs, run)) = Head(x.runs)
    BY <1>b, ListAppend DEF HandleOK
  <1>1. ASSUME NEW h \in 1 .. Len(handles), ReflowTimer(h) PROVE IInv'
    <2> DEFINE x == handles[h]
               runs == IF x.broken THEN x.runs ELSE Append(x.runs, "reflow")
               y == [x EXCEPT !.runs = runs, !.timer = FALSE]
    <2>t. UNCHANGED <<user, host, session, events, lapses>>  BY <1>1, Zenon DEF ReflowTimer
    <2>u. UNCHANGED <<layout, story, minted, active, lapses>>  BY <2>t DEF user, host, session
    <2>1. handles' = [handles EXCEPT ![h] = y]  BY <1>1, Zenon DEF ReflowTimer
    <2>2. HandleOK(x)  BY DEF IInv, HandlesOK
    <2>y. y = [x EXCEPT !.runs = runs, !.timer = FALSE] /\ x = handles[h]  OBVIOUS
    <2>r. runs = IF x.broken THEN x.runs ELSE Append(x.runs, "reflow")  OBVIOUS
    <2> HIDE DEF x, runs, y
    <2>3. IsList(runs) /\ (x.runs # <<>> => runs # <<>> /\ Head(runs) = Head(x.runs))
      BY <1>b, <2>2, <2>r DEF HandleOK
    <2>4. DOMAIN x = {"opts", "owned", "runs", "pass", "live", "timer", "disposed", "broken"}
      BY <2>2 DEF HandleOK, IsHandle
    <2>5. y.owned = x.owned /\ y.pass = x.pass /\ y.disposed = x.disposed /\ y.runs = runs
      BY <2>y, <2>4
    <2>6. IsHandle(y)  BY <2>y, <2>4 DEF IsHandle
    <2>7. Alike(x, y)  BY <2>2, <2>3, <2>5, <2>6 DEF Alike, HandleOK, Begun
    <2> QED  BY <2>1, <2>u, <2>7, <2>y, OneAlike
  <1>2. CASE StartRefresh
    <2>1. CASE UNCHANGED handles
      <3>1. UNCHANGED <<layout, story, minted, handles, active, lapses>>
        BY <1>2, <2>1 DEF StartRefresh, user, host
      <3> QED  BY <3>1 DEF IInv, HandlesOK, StoryOK, PlacesOK, Orderly, OneHandle
    <2>2. CASE active # 0 /\ handles' = Requested(active, "refresh")
      <3> DEFINE x == handles[active]
                 runs == Append(x.runs, "refresh")
                 y == [x EXCEPT !.runs = runs]
      <3>0. active \in 1 .. Len(handles)
        <4>1. Len(handles) \in Nat  BY ListShape DEF IInv, HandlesOK
        <4> QED  BY <2>2, <4>1 DEF IInv, PlacesOK
      <3>1. handles' = [handles EXCEPT ![active] = y]  BY <2>2 DEF Requested
      <3>u. UNCHANGED <<layout, story, minted, active, lapses>>
        BY <1>2 DEF StartRefresh, user, host
      <3>2. HandleOK(x)  BY <3>0 DEF IInv, HandlesOK
      <3>y. y = [x EXCEPT !.runs = runs] /\ x = handles[active]  OBVIOUS
      <3>r. runs = Append(x.runs, "refresh")  OBVIOUS
      <3> HIDE DEF x, runs, y
      <3>3. IsList(runs) /\ (x.runs # <<>> => runs # <<>> /\ Head(runs) = Head(x.runs))
        BY <1>b, <3>2, <3>r
      <3>4. DOMAIN x = {"opts", "owned", "runs", "pass", "live", "timer", "disposed", "broken"}
        BY <3>2 DEF HandleOK, IsHandle
      <3>5. y.owned = x.owned /\ y.pass = x.pass /\ y.disposed = x.disposed /\ y.runs = runs
        BY <3>y, <3>4
      <3>6. IsHandle(y)  BY <3>y, <3>4 DEF IsHandle
      <3>7. Alike(x, y)  BY <3>2, <3>3, <3>5, <3>6 DEF Alike, HandleOK, Begun
      <3> QED  BY <3>0, <3>1, <3>u, <3>7, <3>y, OneAlike
    <2> QED  BY <1>2, <2>1, <2>2 DEF StartRefresh
  <1> QED  BY <1>1, <1>2

LEMMA StartRunStep ==
    ASSUME IInv, NEW h \in 1 .. Len(handles), StartRun(h)
    PROVE  IInv'
  <1> DEFINE x == handles[h]
  <1>1. /\ x.runs # <<>> /\ x.pass = NoPass
        /\ UNCHANGED <<layout, story, minted, active, lapses>>
    BY DEF StartRun, InPass, user, host
  <1>2. HandleOK(x)  BY DEF IInv, HandlesOK
  <1>3. CASE x.disposed
    <2> DEFINE y == [x EXCEPT !.runs = Tail(x.runs)]
    <2>1. handles' = [handles EXCEPT ![h] = y]  BY <1>3 DEF StartRun
    <2>y. y = [x EXCEPT !.runs = Tail(x.runs)] /\ x = handles[h]  OBVIOUS
    <2> HIDE DEF x, y
    <2>4. DOMAIN x = {"opts", "owned", "runs", "pass", "live", "timer", "disposed", "broken"}
      BY <1>2 DEF HandleOK, IsHandle
    <2>5. y.owned = x.owned /\ y.pass = x.pass /\ y.disposed = x.disposed /\ y.runs = Tail(x.runs)
      BY <2>y, <2>4
    <2>6. IsHandle(y)  BY <2>y, <2>4 DEF IsHandle
    <2>7. IsList(Tail(x.runs))  BY <1>1, <1>2, ListTail DEF HandleOK
    <2>8. Alike(x, y)  BY <1>1, <1>3, <2>5, <2>6, <2>7 DEF Alike
    <2> QED  BY <1>1, <2>1, <2>8, <2>y, OneAlike
  <1>4. CASE ~x.disposed
    <2> USE DEF IInv
    <2> DEFINE q == [step |-> "frames"]
    <2>1. handles' = [handles EXCEPT ![h].pass = q]  BY <1>4 DEF StartRun
    <2>2. IsPass(q) /\ q # NoPass  BY DEF IsPass, NoPass
    <2>3. \A o : Underway(story', q, o) <=> Underway(story, NoPass, o)  BY <1>1 DEF Underway, NoPass
    <2> HIDE DEF q
    <2>4. /\ HandlesOK' /\ Len(handles') = Len(handles)
          /\ \A g \in 1 .. Len(handles) : g # h => handles'[g] = handles[g]
          /\ handles'[h].pass = q /\ handles'[h].owned = x.owned
          /\ handles'[h].runs = x.runs /\ handles'[h].disposed = x.disposed
      BY <1>1, <2>1, <2>2, PassPut
    <2>5. ASSUME lapses' \cap {"crossed", "threw"} = {} PROVE OneHandle'
      <3>1. OneHandle  BY <1>1, <2>5 DEF Orderly
      <3>2. Len(handles) \in Nat /\ handles # <<>>  BY ListShape DEF HandlesOK
      <3>3. h = Len(handles)  BY <1>4, <3>1, <3>2 DEF OneHandle
      <3>4. /\ Underway(story, x.pass, x.owned) /\ active \in {0, h}
            /\ active = 0 => x.owned = <<>> /\ Begun(x)
        BY <1>4, <3>1, <3>2, <3>3 DEF OneHandle
      <3>5. Underway(story', handles'[h].pass, handles'[h].owned)  BY <1>1, <2>3, <2>4, <3>4
      <3>6. active' = 0 => handles'[h].owned = <<>> /\ Begun(handles'[h])
        BY <1>1, <2>4, <3>4 DEF Begun
      <3> QED  BY <1>1, <1>4, <2>4, <3>1, <3>2, <3>3, <3>4, <3>5, <3>6, LastSteps
    <2> QED  BY <1>1, <2>4, <2>5 DEF StoryOK, PlacesOK, Orderly
  <1> QED  BY <1>3, <1>4

LEMMA ThrowStep ==
    ASSUME IInv, NEW h \in 1 .. Len(handles), Throw(h)
    PROVE  IInv'
  <1> DEFINE x == handles[h]
             y == [x EXCEPT !.pass = NoPass, !.runs = <<>>, !.broken = TRUE]
  <1>1. /\ handles' = [handles EXCEPT ![h] = y] /\ "threw" \in lapses'
        /\ UNCHANGED <<layout, story, minted, active>>
    BY DEF Throw, Fault, user, host
  <1>2. HandleOK(x) /\ HandlesOK  BY DEF IInv, HandlesOK
  <1>y. y = [x EXCEPT !.pass = NoPass, !.runs = <<>>, !.broken = TRUE] /\ x = handles[h]  OBVIOUS
  <1> HIDE DEF x, y
  <1>4. DOMAIN x = {"opts", "owned", "runs", "pass", "live", "timer", "disposed", "broken"}
    BY <1>2 DEF HandleOK, IsHandle
  <1>5. y.owned = x.owned /\ y.pass = NoPass /\ y.runs = <<>>  BY <1>y, <1>4
  <1>6. IsHandle(y)  BY <1>y, <1>4 DEF IsHandle
  <1>7. HandleOK(y)  BY <1>2, <1>5, <1>6 DEF HandleOK, IsPass, IsList
  <1>8. HandlesOK' /\ Len(handles') = Len(handles)  BY <1>1, <1>2, <1>7, HandlePut
  <1>9. Orderly'  BY <1>1 DEF Orderly
  <1> QED  BY <1>1, <1>8, <1>9 DEF IInv, StoryOK, PlacesOK

-----------------------------------------------------------------------------
(* A pagination that is asked for *)

LEMMA NewHandleOK ==
    ASSUME NEW opts, NEW owned, IsList(owned), NEW run
    PROVE  /\ HandleOK(NewHandle(opts, owned, run))
           /\ NewHandle(opts, owned, run).pass = NoPass
           /\ NewHandle(opts, owned, run).owned = owned
           /\ ~NewHandle(opts, owned, run).disposed
           /\ Begun(NewHandle(opts, owned, run)) <=> run = "first"
  <1> DEFINE x == NewHandle(opts, owned, run)
  <1>1. /\ x.owned = owned /\ x.runs = <<run>> /\ x.pass = NoPass /\ x.disposed = FALSE
        /\ IsHandle(x)
    BY DEF NewHandle, IsHandle
  <1> HIDE DEF x
  <1>2. <<run>> \in Seq({run}) /\ <<run>> # <<>> /\ Head(<<run>>) = run  OBVIOUS
  <1>3. IsList(x.runs) /\ x.runs # <<>> /\ Head(x.runs) = run  BY <1>1, <1>2 DEF IsList
  <1>4. HandleOK(x)  BY <1>1, <1>3 DEF HandleOK, IsPass
  <1>5. Begun(x) <=> run = "first"  BY <1>3 DEF Begun
  <1> QED  BY <1>1, <1>4, <1>5 DEF x

(* Some handles, as many as before, and a new one behind them. *)
LEMMA OneMore ==
    ASSUME NEW s, IsList(s), \A h \in 1 .. Len(s) : HandleOK(s[h]), NEW x, HandleOK(x),
           handles' = Append(s, x)
    PROVE  /\ HandlesOK' /\ Len(handles') = Len(s) + 1 /\ Len(s) \in Nat /\ handles' # <<>>
           /\ handles'[Len(handles')] = x /\ \A h \in 1 .. Len(s) : handles'[h] = s[h]
  <1>1. /\ IsList(handles') /\ Len(handles') = Len(s) + 1 /\ handles' # <<>>
        /\ handles'[Len(s) + 1] = x /\ \A h \in 1 .. Len(s) : handles'[h] = s[h]
    BY ListAppend
  <1>2. Len(s) \in Nat  BY ListShape
  <1>3. \A h \in 1 .. Len(handles') : HandleOK(handles'[h])
    <2> TAKE h \in 1 .. Len(handles')
    <2>1. CASE h = Len(s) + 1  BY <1>1, <2>1
    <2>2. CASE h # Len(s) + 1
      <3>1. h \in 1 .. Len(s)  BY <1>1, <1>2, <2>2
      <3> QED  BY <1>1, <3>1
    <2> QED  BY <2>1, <2>2
  <1> QED  BY <1>1, <1>2, <1>3 DEF HandlesOK

LEMMA PlaceStep ==
    ASSUME IInv, NEW k \in DOMAIN asked, Place(k)
    PROVE  IInv'
  <1> USE DEF IInv
  <1>1. UNCHANGED <<layout, story, minted>> /\ lapses \subseteq lapses'  BY DEF Place, user, host
  <1>2. IsList(handles) /\ Len(handles) \in Nat /\ DOMAIN handles = 1 .. Len(handles)
    BY ListShape DEF HandlesOK
  <1>3. ASSUME lapses' \cap {"crossed", "threw"} = {}
        PROVE  /\ OneHandle
               /\ \A h \in 1 .. Len(handles) : handles[h].pass = NoPass /\ ~Begun(handles[h])
    <2>1. OneHandle  BY <1>1, <1>3 DEF Orderly
    <2>2. lapses' = lapses \cup {"crossed" : h \in {g \in Handles : InPass(g) \/ FirstRun(g)}}
      BY DEF Place
    <2>3. ASSUME NEW g \in Handles PROVE ~InPass(g) /\ ~FirstRun(g)
      BY <1>3, <2>2
    <2> QED  BY <1>2, <2>1, <2>3 DEF Handles, InPass, FirstRun, Begun
  <1>s. StoryOK'  BY <1>1 DEF StoryOK
  <1>4. CASE active = 0
    <2> DEFINE x == NewHandle(asked[k], <<>>, "first")
    <2>1. handles' = Append(handles, x) /\ active' = active  BY <1>4 DEF Place
    <2>2. HandleOK(x) /\ x.pass = NoPass /\ x.owned = <<>> /\ ~x.disposed /\ Begun(x)
      <3>1. IsList(<<>>)  BY DEF IsList
      <3> QED  BY <3>1, NewHandleOK
    <2> HIDE DEF x
    <2>3. /\ HandlesOK' /\ Len(handles') = Len(handles) + 1 /\ handles' # <<>>
          /\ handles'[Len(handles')] = x /\ \A h \in 1 .. Len(handles) : handles'[h] = handles[h]
      BY <1>2, <2>1, <2>2, OneMore DEF HandlesOK
    <2>4. ASSUME lapses' \cap {"crossed", "threw"} = {} PROVE OneHandle'
      <3>1. OneHandle /\ \A h \in 1 .. Len(handles) : handles[h].pass = NoPass /\ ~Begun(handles[h])
        BY <1>3, <2>4
      <3>2. \A h \in 1 .. Len(handles) : handles[h].disposed  BY <1>2, <1>4, <3>1 DEF OneHandle
      <3>3. Same(story, <<>>)
        <4>1. CASE handles = <<>>  BY <3>1, <4>1 DEF OneHandle, Same, Begins
        <4>2. CASE handles # <<>>
          <5>1. Len(handles) \in 1 .. Len(handles)  BY <1>2, <4>2, ListShape
          <5>2. Underway(story, NoPass, <<>>)  BY <1>4, <3>1, <4>2, <5>1 DEF OneHandle
          <5> QED  BY <5>2 DEF Underway, NoPass
        <4> QED  BY <4>1, <4>2
      <3>4. Underway(story', x.pass, x.owned)  BY <1>1, <2>2, <3>3 DEF Underway, NoPass
      <3>5. \A h \in 1 .. Len(handles') - 1 : handles'[h].disposed  BY <1>2, <2>3, <3>2
      <3>6. ASSUME NEW h \in 1 .. Len(handles'), handles'[h].disposed PROVE handles'[h].pass = NoPass
        <4>1. h = Len(handles') \/ h \in 1 .. Len(handles)  BY <1>2, <2>3
        <4> QED  BY <2>2, <2>3, <3>1, <4>1
      <3> QED  BY <1>4, <2>1, <2>2, <2>3, <3>4, <3>5, <3>6 DEF OneHandle
    <2>5. PlacesOK'  BY <1>1, <1>2, <1>4, <2>1, <2>3 DEF PlacesOK
    <2> QED  BY <1>s, <2>3, <2>4, <2>5 DEF Orderly
  <1>5. CASE active # 0
    <2> DEFINE old == handles[active]
               y == [old EXCEPT !.disposed = TRUE, !.live = FALSE, !.timer = FALSE]
               s == With(handles, active, y)
               x == NewHandle(asked[k], old.owned, "again")
    <2>1. active \in 1 .. Len(handles)  BY <1>2, <1>5 DEF PlacesOK
    <2>2. handles' = Append(s, x) /\ active' = Len(handles) + 1
      BY <1>5 DEF Place, With, Replace
    <2>3. HandleOK(old)  BY <2>1 DEF HandlesOK
    <2>4. HandleOK(x) /\ x.pass = NoPass /\ x.owned = old.owned /\ ~x.disposed
      BY <2>3, NewHandleOK DEF HandleOK
    <2>5. HandleOK(y) /\ y.disposed /\ y.pass = old.pass
      <3>y. y = [old EXCEPT !.disposed = TRUE, !.live = FALSE, !.timer = FALSE]  OBVIOUS
      <3> HIDE DEF y, old
      <3>1. DOMAIN old = {"opts", "owned", "runs", "pass", "live", "timer", "disposed", "broken"}
        BY <2>3 DEF HandleOK, IsHandle
      <3>2. y.owned = old.owned /\ y.pass = old.pass /\ y.runs = old.runs /\ y.disposed
        BY <3>y, <3>1
      <3>3. IsHandle(y)  BY <3>y, <3>1 DEF IsHandle
      <3> QED  BY <2>3, <3>2, <3>3 DEF HandleOK
    <2> HIDE DEF y, x, old
    <2>6. /\ IsList(s) /\ Len(s) = Len(handles) /\ s[active] = y
          /\ \A h \in 1 .. Len(handles) : h # active => s[h] = handles[h]
      BY <1>2, <2>1, ListWith
    <2> HIDE DEF s
    <2>7. \A h \in 1 .. Len(s) : HandleOK(s[h])  BY <2>5, <2>6 DEF HandlesOK
    <2>8. /\ HandlesOK' /\ Len(handles') = Len(handles) + 1 /\ handles' # <<>>
          /\ handles'[Len(handles')] = x /\ \A h \in 1 .. Len(handles) : handles'[h] = s[h]
      BY <2>2, <2>4, <2>6, <2>7, OneMore
    <2>9. ASSUME lapses' \cap {"crossed", "threw"} = {} PROVE OneHandle'
      <3>1. OneHandle /\ \A h \in 1 .. Len(handles) : handles[h].pass = NoPass /\ ~Begun(handles[h])
        BY <1>3, <2>9
      <3>2. active = Len(handles) /\ handles # <<>>  BY <1>2, <1>5, <2>1, <3>1, ListShape DEF OneHandle
      <3>3. old.pass = NoPass  BY <2>1, <3>1 DEF old
      <3>4. Underway(story, NoPass, old.owned)  BY <3>1, <3>2, <3>3 DEF OneHandle, old
      <3>5. Underway(story', x.pass, x.owned)  BY <1>1, <2>4, <3>4
      <3>6. \A h \in 1 .. Len(handles') - 1 : handles'[h].disposed
        <4>1. \A h \in 1 .. Len(handles) - 1 : handles[h].disposed  BY <3>1 DEF OneHandle
        <4> TAKE h \in 1 .. Len(handles') - 1
        <4>2. h \in 1 .. Len(handles) /\ (h = active \/ h \in 1 .. Len(handles) - 1)
          <5>1. Len(handles') - 1 = Len(handles)  BY <1>2, <2>8
          <5>2. h \in 1 .. Len(handles)  BY <5>1
          <5> DEFINE n == Len(handles)
          <5>3. n \in Nat /\ active = n /\ h \in 1 .. n  BY <1>2, <3>2, <5>2
          <5> HIDE DEF n
          <5>4. h = active \/ h \in 1 .. n - 1  BY <5>3
          <5> QED  BY <5>2, <5>4 DEF n
        <4>3. handles'[h] = s[h]  BY <2>8, <4>2
        <4>4. CASE h = active  BY <2>5, <2>6, <4>3, <4>4
        <4>5. CASE h # active  BY <2>6, <4>1, <4>2, <4>3, <4>5
        <4> QED  BY <4>4, <4>5
      <3>7. ASSUME NEW h \in 1 .. Len(handles'), handles'[h].disposed PROVE handles'[h].pass = NoPass
        <4>1. h = Len(handles') \/ h \in 1 .. Len(handles)  BY <1>2, <2>8
        <4> QED  BY <2>4, <2>5, <2>6, <2>8, <3>1, <3>3, <4>1
      <3>8. active' = Len(handles') /\ active' # 0  BY <1>2, <2>2, <2>8
      <3> QED  BY <2>8, <3>5, <3>6, <3>7, <3>8 DEF OneHandle
    <2>10. PlacesOK'  BY <1>1, <1>2, <2>2, <2>8 DEF PlacesOK
    <2> QED  BY <1>s, <2>8, <2>9, <2>10 DEF Orderly
  <1> QED  BY <1>4, <1>5

-----------------------------------------------------------------------------
(* The theorem *)

LEMMA InitIInv == Init => IInv
  <1> SUFFICES ASSUME Init PROVE IInv  OBVIOUS
  <1>1. layout \in Seq(Nat)
    <2>1. PICK start \in Starts : layout = start[2]  BY DEF Init
    <2> QED  BY <2>1, FramesAssumption
  <1>2. story = <<>> /\ handles = <<>> /\ minted = 0 /\ active = 0  BY DEF Init
  <1>3. IsList(<<>>) /\ Len(<<>>) = 0  BY DEF IsList
  <1> QED  BY <1>1, <1>2, <1>3 DEF IInv, HandlesOK, StoryOK, PlacesOK, Orderly, OneHandle

LEMMA NextIInv == IInv /\ [Next]_vars => IInv'
  <1> SUFFICES ASSUME IInv, [Next]_vars PROVE IInv'  OBVIOUS
  <1>0. Handles = 1 .. Len(handles)  BY ListShape DEF IInv, HandlesOK, Handles
  <1>1. CASE \/ \E new \in Sheets : Edit(new)
             \/ \E opts \in Options : Ask(opts)
             \/ RefreshTimer \/ Rest
    BY <1>1, UserSteps
  <1>2. CASE \E new \in Layouts : Resize(new)  BY <1>2, ResizeStep
  <1>3. CASE \E k \in DOMAIN asked : Place(k)  BY <1>3, PlaceStep
  <1>4. CASE StartRefresh  BY <1>4, TimerSteps
  <1>5. ASSUME NEW h \in 1 .. Len(handles), ReflowTimer(h) \/ RunStep(h) \/ Refuse(h) \/ Throw(h)
        PROVE  IInv'
    <2>1. CASE ReflowTimer(h)  BY <2>1, TimerSteps
    <2>2. CASE Refuse(h)  BY <2>2, RefuseStep
    <2>3. CASE Throw(h)  BY <2>3, ThrowStep
    <2>4. CASE StartRun(h)  BY <2>4, StartRunStep
    <2>5. CASE ReadFrames(h) \/ Paginate(h)  BY <2>5, FramesStep
    <2>6. CASE RefreshPage(h)  BY <2>6, RefreshPageStep
    <2>7. CASE InsertPage(h)  BY <2>7, InsertPageStep
    <2>8. CASE PourPage(h)  BY <2>8, PourPageStep
    <2>9. CASE EndPages(h)  BY <2>9, EndPagesStep
    <2>10. CASE EmptySpare(h)  BY <2>10, EmptySpareStep
    <2> QED  BY <1>5, <2>1, <2>2, <2>3, <2>4, <2>5, <2>6, <2>7, <2>8, <2>9, <2>10 DEF RunStep
  <1>6. CASE UNCHANGED vars
    <2>1. UNCHANGED <<layout, story, minted, handles, active, lapses>>
      BY <1>6 DEF vars, user, host, session
    <2> QED  BY <2>1 DEF IInv, HandlesOK, StoryOK, PlacesOK, Orderly, OneHandle
  <1> QED  BY <1>0, <1>1, <1>2, <1>3, <1>4, <1>5, <1>6 DEF Next

LEMMA IInvPlacedOnce == IInv => PlacedOnce
  <1> SUFFICES ASSUME IInv, active # 0, Quiet, lapses \cap {"crossed", "threw"} = {}
               PROVE  [t \in DOMAIN story |-> story[t].id] =
                          [t \in DOMAIN handles[active].owned |-> handles[active].owned[t].id]
    BY DEF PlacedOnce
  <1> DEFINE o == handles[active].owned
  <1>1. OneHandle  BY DEF IInv, Orderly
  <1>2. active = Len(handles) /\ active \in 1 .. Len(handles) /\ handles # <<>>
    <2>1. Len(handles) \in Nat /\ (handles = <<>> <=> Len(handles) = 0)
      BY ListShape DEF IInv, HandlesOK
    <2> QED  BY <1>1, <2>1 DEF OneHandle
  <1>3. active \in Handles  BY <1>2, ListShape DEF IInv, HandlesOK, Handles
  <1>4. handles[active].pass = NoPass /\ IsList(o)
    <2>1. HandleOK(handles[active])  BY <1>2 DEF IInv, HandlesOK
    <2>2. handles[active].runs = <<>>  BY <1>3 DEF Quiet
    <2> QED  BY <2>1, <2>2 DEF HandleOK
  <1>5. Same(story, o)
    <2>1. Underway(story, NoPass, o)  BY <1>1, <1>2, <1>4 DEF OneHandle
    <2> QED  BY <2>1 DEF Underway, NoPass
  <1>6. DOMAIN story = 1 .. Len(story) /\ DOMAIN o = 1 .. Len(o)
    BY <1>4, ListShape DEF IInv, StoryOK
  <1> HIDE DEF o
  <1>7. [t \in DOMAIN story |-> story[t].id] = [t \in DOMAIN o |-> o[t].id]
    BY <1>5, <1>6 DEF Same, Begins
  <1> QED  BY <1>7 DEF o

(***************************************************************************)
(* A chain that comes to rest has exactly its own tables in the story, in  *)
(* order, whatever is edited, resized, asked for or refused: unless a      *)
(* request crossed a pass, or a call of a pass threw.  (paginatePass,      *)
(* subscribeChainReflow, paginateSelection)                                *)
(***************************************************************************)
THEOREM PlacedOnceCorrect == Spec => []PlacedOnce
  <1>1. Spec => []IInv  BY InitIInv, NextIInv, PTL DEF Spec
  <1> QED  BY <1>1, IInvPlacedOnce, PTL

-----------------------------------------------------------------------------
(* What the tables show *)

Latest == handles[Len(handles)]
Writes == {"write", "pour", "empty"}

(* Without a chain the latest handle is a first pagination or was one; with *)
(* a chain it is the chain's, and can still be told of changes.             *)
Steady(x) ==
    /\ ~x.broken /\ x.opts.header \in Nat
    /\ IF active = 0 THEN ~x.timer /\ ~x.live /\ (~x.disposed => x.runs = <<"first">>)
       ELSE ~x.disposed /\ x.live /\ \A i \in 1 .. Len(x.runs) : x.runs[i] # "first"

(* What a table at place t shows that holds one of the pages or none. *)
PageAt(pages, t) == IF t <= Len(pages) THEN pages[t] ELSE Blank

TablesSound(tables) ==
    \A t \in 1 .. Len(tables) : IsContent(tables[t].shows) /\ (tables[t].blank => tables[t].shows = Blank)
InShape(p) ==
    p.step \in Writes =>
        /\ \A k \in 1 .. Len(p.pages) : IsContent(p.pages[k])
        /\ \A t \in 1 .. Len(p.tables) :
              p.tables[t].shows = PageAt(p.pages, t) /\ (p.tables[t].blank => p.tables[t].shows = Blank)
        /\ p.step = "write" => Len(p.tables) = p.at - 1
        /\ p.step = "pour" => Len(p.tables) = p.at

(* The tables show what the handle and its pass take them to show. *)
Expected(p, owned, t) ==
    IF p.step = "pour" /\ t = p.at THEN EmptyTable
    ELSE IF p.step \in Writes /\ t <= Len(p.tables) THEN PageAt(p.pages, t)
    ELSE owned[t].shows
ShowsAll(tables, p, owned) == \A t \in 1 .. Len(tables) : tables[t].shows = Expected(p, owned, t)
Told(tables, x) == TablesSound(x.owned) /\ InShape(x.pass) /\ ShowsAll(tables, x.pass, x.owned)

(* Either the handle is up to date with the range and the frames, or it     *)
(* will be told.                                                            *)
Fits(owned, pages) ==
    Len(pages) <= Len(owned) /\ \A t \in 1 .. Len(owned) : owned[t].shows = PageAt(pages, t)
Later(x) == Len(x.runs) > 1 \/ (Len(x.runs) = 1 /\ x.pass.step \in {"none", "frames"})
PassUpToDate(p, opts) ==
    IF p.step = "paginate" THEN p.frames = layout ELSE p.pages = ContentsOf(sheet, layout, opts)
UpToDate(x) ==
    IF x.pass.step \in {"paginate"} \cup Writes THEN PassUpToDate(x.pass, x.opts)
    ELSE x.runs = <<>> /\ (layout # <<>> => Fits(x.owned, ContentsOf(sheet, layout, x.opts)))
Timely(x) == x.disposed \/ due \/ waiting > 0 \/ x.timer \/ Later(x) \/ UpToDate(x)

Idle == active = 0 => ~due /\ waiting = 0
LatestFollows == handles # <<>> => Steady(Latest) /\ Told(story, Latest) /\ Timely(Latest)
Follows == lapses = {} => Idle /\ LatestFollows

(* A handle whose pass changes and nothing else. *)
Passing(x, y, q) ==
    /\ y.pass = q /\ y.opts = x.opts /\ y.owned = x.owned /\ y.runs = x.runs
    /\ y.live = x.live /\ y.timer = x.timer /\ y.disposed = x.disposed /\ y.broken = x.broken

LEMMA PassSet ==
    ASSUME HandlesOK, NEW h \in 1 .. Len(handles), NEW q, handles' = [handles EXCEPT ![h].pass = q]
    PROVE  Len(handles') = Len(handles) /\ Passing(handles[h], handles'[h], q)
  <1> DEFINE x == handles[h]
             y == [x EXCEPT !.pass = q]
             f == With(handles, h, y)
  <1>0. HandleOK(x) /\ IsList(handles)  BY DEF HandlesOK
  <1>1. handles' = f  BY DEF With
  <1>2. Len(f) = Len(handles) /\ f[h] = y  BY <1>0, ListWith
  <1>3. DOMAIN x = {"opts", "owned", "runs", "pass", "live", "timer", "disposed", "broken"}
    BY <1>0 DEF HandleOK, IsHandle
  <1> HIDE DEF x, f
  <1>4. Passing(x, y, q)  BY <1>3 DEF Passing
  <1> HIDE DEF y
  <1> QED  BY <1>1, <1>2, <1>4 DEF x

(* A handle whose run ends. *)
Ending(x, y, owned, ends) ==
    /\ y.pass = NoPass /\ y.opts = x.opts /\ y.owned = owned /\ y.runs = Tail(x.runs)
    /\ y.timer = x.timer /\ y.broken = x.broken /\ (y.disposed <=> x.disposed \/ ends)
    /\ y.live <=> (x.live \/ Head(x.runs) = "first") /\ ~x.disposed /\ ~ends

LEMMA EndSet ==
    ASSUME HandlesOK, NEW h \in 1 .. Len(handles), NEW owned, Ended(h, owned)
    PROVE  \E ends \in BOOLEAN :
               /\ ends <=> Head(handles[h].runs) = "first" /\ handles[h].pass.step = "frames"
               /\ Len(handles') = Len(handles) /\ Ending(handles[h], handles'[h], owned, ends)
               /\ active' = IF Head(handles[h].runs) = "first" /\ ~ends THEN h ELSE active
               /\ UNCHANGED <<sheet, layout, due, waiting, lapses>>
  <1> DEFINE x == handles[h]
             ends == Head(x.runs) = "first" /\ x.pass.step = "frames"
             live == (x.live \/ Head(x.runs) = "first") /\ ~x.disposed /\ ~ends
             disposed == x.disposed \/ ends
             y == [x EXCEPT !.owned = owned, !.pass = NoPass, !.runs = Tail(x.runs),
                            !.live = live, !.disposed = disposed]
             f == With(handles, h, y)
  <1>0. HandleOK(x) /\ IsList(handles)  BY DEF HandlesOK
  <1>1. /\ handles' = f /\ active' = IF Head(x.runs) = "first" /\ ~ends THEN h ELSE active
        /\ UNCHANGED <<sheet, layout, due, waiting, lapses>>
    BY DEF Ended, With, user
  <1>2. Len(f) = Len(handles) /\ f[h] = y  BY <1>0, ListWith
  <1>3. DOMAIN x = {"opts", "owned", "runs", "pass", "live", "timer", "disposed", "broken"}
    BY <1>0 DEF HandleOK, IsHandle
  <1>4. ends \in BOOLEAN /\ live \in BOOLEAN /\ (disposed <=> x.disposed \/ ends)
        /\ (live <=> (x.live \/ Head(x.runs) = "first") /\ ~x.disposed /\ ~ends)
    OBVIOUS
  <1>5. ends <=> Head(x.runs) = "first" /\ x.pass.step = "frames"  OBVIOUS
  <1>y. y = [x EXCEPT !.owned = owned, !.pass = NoPass, !.runs = Tail(x.runs),
                      !.live = live, !.disposed = disposed]
    OBVIOUS
  <1> HIDE DEF x, f, y, ends, live, disposed
  <1>6. /\ y.pass = NoPass /\ y.opts = x.opts /\ y.owned = owned /\ y.runs = Tail(x.runs)
        /\ y.timer = x.timer /\ y.broken = x.broken /\ y.disposed = disposed /\ y.live = live
    BY <1>y, <1>3
  <1>7. Ending(x, y, owned, ends)  BY <1>4, <1>6 DEF Ending
  <1> QED  BY <1>1, <1>2, <1>4, <1>5, <1>7 DEF x

(* A pass goes on. *)
LEMMA GoesFollows ==
    ASSUME HandlesOK, OneHandle, Idle, LatestFollows,
           NEW h \in 1 .. Len(handles), handles[h].pass # NoPass,
           NEW q, handles' = [handles EXCEPT ![h].pass = q],
           UNCHANGED <<sheet, layout, active, due, waiting>>,
           q.step \in {"paginate"} \cup Writes, InShape(q), ShowsAll(story', q, handles[h].owned),
           PassUpToDate(q, handles[h].opts)
           \/ /\ handles[h].pass.step \in {"paginate"} \cup Writes
              /\ ~PassUpToDate(handles[h].pass, handles[h].opts)
    PROVE  Idle' /\ LatestFollows'
  <1> DEFINE x == handles[h]
             y == handles'[h]
  <1>1. h = Len(handles) /\ handles # <<>>  BY PassesLast
  <1>2. Len(handles') = Len(handles) /\ Passing(x, y, q)  BY PassSet
  <1>3. Latest = x /\ Latest' = y  BY <1>1, <1>2 DEF Latest
  <1>4. Steady(x) /\ Told(story, x) /\ Timely(x)  BY <1>1, <1>3 DEF LatestFollows
  <1>i. Idle'  BY DEF Idle
  <1>s. \/ PassUpToDate(q, x.opts)
        \/ x.pass.step \in {"paginate"} \cup Writes /\ ~PassUpToDate(x.pass, x.opts)
    OBVIOUS
  <1>t. InShape(q) /\ ShowsAll(story', q, x.owned) /\ q.step \in {"paginate"} \cup Writes  OBVIOUS
  <1> HIDE DEF x, y
  <1>5. Steady(Latest)'  BY <1>2, <1>3, <1>4 DEF Steady, Passing
  <1>6. Told(story, Latest)'
    <2>1. Told(story', y)  BY <1>2, <1>4, <1>t DEF Told, Passing
    <2> QED  BY <1>3, <2>1
  <1>7. Timely(Latest)'
    <2>1. CASE PassUpToDate(q, x.opts)
      <3>1. PassUpToDate(Latest.pass, Latest.opts)'  BY <1>2, <1>3, <2>1 DEF PassUpToDate, Passing
      <3>2. UpToDate(Latest)'  BY <3>1, <1>2, <1>3, <1>t DEF UpToDate, Passing
      <3> QED  BY <3>2 DEF Timely
    <2>2. CASE x.pass.step \in {"paginate"} \cup Writes /\ ~PassUpToDate(x.pass, x.opts)
      <3>1. ~UpToDate(x) /\ (Later(x) => Len(x.runs) > 1)  BY <2>2 DEF UpToDate, Later, Writes
      <3>2. x.disposed \/ due \/ waiting > 0 \/ x.timer \/ Len(x.runs) > 1  BY <1>4, <3>1 DEF Timely
      <3>3. /\ Latest'.runs = x.runs /\ Latest'.timer = x.timer /\ Latest'.disposed = x.disposed
        BY <1>2, <1>3 DEF Passing
      <3> QED  BY <3>2, <3>3 DEF Timely, Later
    <2> QED  BY <1>s, <2>1, <2>2
  <1>8. LatestFollows'  BY <1>5, <1>6, <1>7 DEF LatestFollows
  <1> QED  BY <1>i, <1>8

(* A run ends: there were no frames, or every page is written. *)
LEMMA EndsFollows ==
    ASSUME HandlesOK, OneHandle, Idle, LatestFollows,
           NEW h \in 1 .. Len(handles), handles[h].pass # NoPass, NEW owned, Ended(h, owned),
           TablesSound(owned), ShowsAll(story', NoPass, owned),
           \/ handles[h].pass.step = "frames" /\ layout = <<>>
           \/ handles[h].pass.step \in Writes /\ Fits(owned, handles[h].pass.pages)
    PROVE  Idle' /\ LatestFollows'
  <1> DEFINE x == handles[h]
             y == handles'[h]
  <1>s. \/ x.pass.step = "frames" /\ layout = <<>>
        \/ x.pass.step \in Writes /\ Fits(owned, x.pass.pages)
    OBVIOUS
  <1>1. /\ h = Len(handles) /\ handles # <<>> /\ ~x.disposed /\ x.runs # <<>>
    BY PassesLast
  <1>h. h # 0 /\ IsList(x.runs)  BY ListShape DEF HandlesOK, HandleOK
  <1>2. PICK ends \in BOOLEAN :
            /\ ends <=> Head(x.runs) = "first" /\ x.pass.step = "frames"
            /\ Len(handles') = Len(handles) /\ Ending(x, y, owned, ends)
            /\ active' = IF Head(x.runs) = "first" /\ ~ends THEN h ELSE active
            /\ UNCHANGED <<sheet, layout, due, waiting, lapses>>
    BY EndSet
  <1>3. Latest = x /\ Latest' = y  BY <1>1, <1>2 DEF Latest
  <1>4. Steady(x) /\ Timely(x)  BY <1>1, <1>3 DEF LatestFollows
  <1>i. Idle'  BY <1>2, <1>h DEF Idle
  <1>t. TablesSound(owned) /\ ShowsAll(story', NoPass, owned)  OBVIOUS
  <1> HIDE DEF x, y
  <1>r. /\ Len(x.runs) \in Nat \ {0} /\ Head(x.runs) = x.runs[1] /\ IsList(Tail(x.runs))
        /\ Len(Tail(x.runs)) = Len(x.runs) - 1
        /\ \A i \in 1 .. Len(Tail(x.runs)) : Tail(x.runs)[i] = x.runs[i + 1]
        /\ (Tail(x.runs) = <<>> <=> Len(x.runs) = 1)
    <2>1. PICK S : x.runs \in Seq(S)  BY <1>h DEF IsList
    <2>2. Len(Tail(x.runs)) \in Nat /\ (Tail(x.runs) = <<>> <=> Len(Tail(x.runs)) = 0)
      BY <1>1, <1>h, ListTail, ListShape
    <2>3. /\ Len(x.runs) \in Nat \ {0} /\ Head(x.runs) = x.runs[1] /\ IsList(Tail(x.runs))
          /\ Len(Tail(x.runs)) = Len(x.runs) - 1
          /\ \A i \in 1 .. Len(Tail(x.runs)) : Tail(x.runs)[i] = x.runs[i + 1]
      BY <1>1, <1>h, <2>1, ListTail
    <2> QED  BY <2>2, <2>3
  <1>a. ASSUME active = 0 PROVE Steady(Latest)' /\ Timely(Latest)'
    <2>1. x.runs = <<"first">> /\ ~x.timer /\ ~x.live  BY <1>1, <1>4, <1>a DEF Steady
    <2>2. Head(x.runs) = "first" /\ Tail(x.runs) = <<>>  BY <2>1
    <2>3. Steady(Latest)'
      <3>1. CASE ends  BY <1>2, <1>3, <1>4, <1>a, <2>1, <2>2, <3>1 DEF Steady, Ending
      <3>2. CASE ~ends
        <4>1. \A i \in 1 .. Len(y.runs) : y.runs[i] # "first"
          <5>1. y.runs = <<>>  BY <1>2, <2>2 DEF Ending
          <5>2. Len(y.runs) = 0  BY <5>1
          <5> QED  BY <5>2
        <4> QED  BY <1>1, <1>2, <1>3, <1>4, <1>a, <1>h, <2>1, <2>2, <3>2, <4>1 DEF Steady, Ending
      <3> QED  BY <3>1, <3>2
    <2>4. Timely(Latest)'
      <3>1. CASE ends
        <4>1. Latest'.disposed  BY <1>2, <1>3, <3>1 DEF Ending
        <4> QED  BY <4>1 DEF Timely
      <3>2. CASE ~ends
        <4>1. x.pass.step \in Writes /\ Fits(owned, x.pass.pages)  BY <1>2, <1>s, <2>2, <3>2
        <4>2. ~Later(x)  BY <2>1, <4>1 DEF Later, Writes
        <4>3. x.pass.pages = ContentsOf(sheet, layout, x.opts)
          BY <1>1, <1>4, <1>a, <2>1, <4>1, <4>2 DEF Timely, UpToDate, PassUpToDate, Idle, Writes
        <4>4. UpToDate(Latest)'
          <5>1. y.pass = NoPass /\ y.runs = <<>> /\ y.owned = owned /\ y.opts = x.opts
            BY <1>2, <2>2 DEF Ending
          <5> QED  BY <1>2, <1>3, <4>1, <4>3, <5>1 DEF UpToDate, NoPass, Writes
        <4> QED  BY <4>4 DEF Timely
      <3> QED  BY <3>1, <3>2
    <2> QED  BY <2>3, <2>4
  <1>b. ASSUME active # 0 PROVE Steady(Latest)' /\ Timely(Latest)'
    <2>1. x.live /\ \A i \in 1 .. Len(x.runs) : x.runs[i] # "first"  BY <1>4, <1>b DEF Steady
    <2>2. Head(x.runs) # "first" /\ ~ends /\ active' = active
      <3>1. 1 \in 1 .. Len(x.runs)  BY <1>r
      <3> QED  BY <1>2, <1>r, <2>1, <3>1
    <2>3. Steady(Latest)'
      <3>1. \A i \in 1 .. Len(y.runs) : y.runs[i] # "first"
        <4> TAKE i \in 1 .. Len(y.runs)
        <4>1. y.runs = Tail(x.runs)  BY <1>2 DEF Ending
        <4>2. i + 1 \in 1 .. Len(x.runs)  BY <1>r, <4>1
        <4> QED  BY <1>r, <2>1, <4>1, <4>2
      <3> QED  BY <1>1, <1>2, <1>3, <1>4, <1>b, <2>1, <2>2, <3>1 DEF Steady, Ending
    <2>4. Timely(Latest)'
      <3>1. /\ y.pass = NoPass /\ y.runs = Tail(x.runs) /\ y.owned = owned /\ y.opts = x.opts
            /\ y.timer = x.timer
        BY <1>2 DEF Ending
      <3>2. CASE Len(x.runs) > 1
        <4>1. Len(y.runs) \in Nat /\ Len(y.runs) >= 1 /\ y.pass.step = "none"
          BY <1>r, <3>1, <3>2 DEF NoPass
        <4>l. Len(Latest'.runs) \in Nat /\ Len(Latest'.runs) >= 1 /\ Latest'.pass.step = "none"
          BY <1>3, <4>1
        <4>2. Len(Latest'.runs) > 1 \/ (Len(Latest'.runs) = 1 /\ Latest'.pass.step = "none")
          <5>1. \A n \in Nat : n >= 1 => n > 1 \/ n = 1  OBVIOUS
          <5> QED  BY <4>l, <5>1
        <4>3. Later(Latest)'  BY <4>2 DEF Later
        <4> QED  BY <4>3 DEF Timely
      <3>3. CASE Len(x.runs) = 1
        <4>0. y.runs = <<>>  BY <1>r, <3>1, <3>3
        <4>1. CASE x.pass.step = "frames" /\ layout = <<>>
          <5>a. y.pass.step = "none"  BY <3>1 DEF NoPass
          <5>0. layout' = <<>> /\ Latest'.runs = <<>> /\ Latest'.pass.step = "none"
            BY <1>2, <1>3, <4>0, <4>1, <5>a
          <5>1. UpToDate(Latest)'  BY <5>0 DEF UpToDate, Writes
          <5> QED  BY <5>1 DEF Timely
        <4>2. CASE x.pass.step \in Writes /\ Fits(owned, x.pass.pages)
          <5>1. ~Later(x)  BY <3>3, <4>2 DEF Later, Writes
          <5>2. CASE UpToDate(x)
            <6>1. x.pass.pages = ContentsOf(sheet, layout, x.opts)
              BY <4>2, <5>2 DEF UpToDate, PassUpToDate, Writes
            <6>2. UpToDate(Latest)'
              <7>1. /\ Latest'.runs = <<>> /\ Latest'.pass.step = "none"
                    /\ Latest'.owned = owned /\ Latest'.opts = x.opts
                <8>1. y.pass.step = "none"  BY <3>1 DEF NoPass
                <8> QED  BY <1>3, <3>1, <4>0, <8>1
              <7> QED  BY <1>2, <4>2, <6>1, <7>1 DEF UpToDate, Writes
            <6> QED  BY <6>2 DEF Timely
          <5>3. CASE due \/ waiting > 0 \/ x.timer  BY <1>2, <1>3, <3>1, <5>3 DEF Timely
          <5> QED  BY <1>1, <1>4, <5>1, <5>2, <5>3 DEF Timely
        <4> QED  BY <1>s, <4>1, <4>2
      <3> QED  BY <1>r, <3>2, <3>3
    <2> QED  BY <2>3, <2>4
  <1>5. Steady(Latest)' /\ Timely(Latest)'
    BY <1>a, <1>b
  <1>6. Told(story, Latest)'
    <2>1. y.owned = owned /\ y.pass = NoPass  BY <1>2 DEF Ending
    <2>2. InShape(NoPass)  BY DEF InShape, NoPass, Writes
    <2>3. Told(story', y)  BY <1>t, <2>1, <2>2 DEF Told
    <2> QED  BY <1>3, <2>3
  <1>8. LatestFollows'  BY <1>5, <1>6 DEF LatestFollows
  <1> QED  BY <1>i, <1>8

(* A table of the story that is written to. *)
LEMMA StoryWithAt ==
    ASSUME StoryOK, NEW t \in 1 .. Len(story), NEW id, id = story[t].id, NEW shows
    PROVE  /\ InStory(id) /\ TableAt(id) = t
           /\ story' = StoryWith(id, shows) =>
                 /\ Len(story') = Len(story) /\ story'[t].shows = shows
                 /\ \A u \in 1 .. Len(story) : u # t => story'[u] = story[u]
  <1>1. IsList(story) /\ DOMAIN story = 1 .. Len(story)  BY ListShape DEF StoryOK
  <1>2. InStory(id)  BY <1>1 DEF InStory
  <1>3. TableAt(id) = t  BY <1>1 DEF TableAt, StoryOK
  <1>4. ASSUME story' = StoryWith(id, shows)
        PROVE  /\ Len(story') = Len(story) /\ story'[t].shows = shows
               /\ \A u \in 1 .. Len(story) : u # t => story'[u] = story[u]
    <2> DEFINE y == [story[t] EXCEPT !.shows = shows]
               f == With(story, t, y)
    <2>1. IsTable(story[t])  BY DEF StoryOK
    <2>2. y.shows = shows  BY <2>1 DEF IsTable
    <2>3. story' = [story EXCEPT ![t].shows = shows]  BY <1>2, <1>3, <1>4 DEF StoryWith
    <2>4. story' = f  BY <2>3 DEF With
    <2> HIDE DEF y
    <2>5. /\ Len(f) = Len(story) /\ f[t] = y /\ \A u \in 1 .. Len(story) : u # t => f[u] = story[u]
      BY <1>1, ListWith
    <2> HIDE DEF f
    <2> QED  BY <2>2, <2>4, <2>5
  <1> QED  BY <1>2, <1>3, <1>4

(* A handle in a pass is the latest, whose tables show what it is told. *)
LEMMA PassTold ==
    ASSUME HandlesOK, OneHandle, LatestFollows, NEW h \in 1 .. Len(handles), handles[h].pass # NoPass
    PROVE  /\ TablesSound(handles[h].owned) /\ InShape(handles[h].pass)
           /\ ShowsAll(story, handles[h].pass, handles[h].owned)
           /\ handles[h].opts.header \in Nat
           /\ Underway(story, handles[h].pass, handles[h].owned)
  <1>1. /\ h = Len(handles) /\ handles # <<>> /\ Underway(story, handles[h].pass, handles[h].owned)
    BY PassesLast
  <1> QED  BY <1>1 DEF LatestFollows, Latest, Told, Steady

LEMMA BlankIsContent == IsContent(Blank)
  <1> DEFINE row == [text |-> "", height |-> 1]
  <1>1. Blank = [rows |-> <<row>>, merges |-> {}]  BY Zenon DEF Blank
  <1> HIDE DEF row
  <1>2. Blank.rows = <<row>> /\ Blank = [rows |-> Blank.rows, merges |-> Blank.merges]  BY <1>1
  <1>3. <<row>> \in Seq({row})  OBVIOUS
  <1> QED  BY <1>2, <1>3 DEF IsContent, IsList

LEMMA PageAtIsContent ==
    ASSUME NEW pages, \A k \in 1 .. Len(pages) : IsContent(pages[k]), NEW t \in Nat \ {0}
    PROVE  IsContent(PageAt(pages, t))
  BY BlankIsContent DEF PageAt

(* A pass that goes on with the same pages is as up to date as it was. *)
LEMMA SamePages ==
    ASSUME NEW p, NEW q, p.step \in Writes, q.step \in Writes, q.pages = p.pages, NEW opts
    PROVE  \/ PassUpToDate(q, opts)
           \/ p.step \in {"paginate"} \cup Writes /\ ~PassUpToDate(p, opts)
  BY DEF PassUpToDate, Writes

(* One table more, of the page that comes next. *)
Listed(pages, tables) ==
    \A t \in 1 .. Len(tables) :
        tables[t].shows = PageAt(pages, t) /\ (tables[t].blank => tables[t].shows = Blank)

LEMMA ListedMore ==
    ASSUME NEW pages, NEW tables, IsList(tables), Listed(pages, tables),
           NEW x, x.shows = PageAt(pages, Len(tables) + 1), x.blank => x.shows = Blank
    PROVE  Listed(pages, Append(tables, x))
  <1> DEFINE ts == Append(tables, x)
  <1>1. /\ Len(ts) = Len(tables) + 1 /\ ts[Len(tables) + 1] = x /\ Len(tables) \in Nat
        /\ \A i \in 1 .. Len(tables) : ts[i] = tables[i]
    BY ListAppend, ListShape
  <1> HIDE DEF ts
  <1>2. ASSUME NEW t \in 1 .. Len(ts)
        PROVE  ts[t].shows = PageAt(pages, t) /\ (ts[t].blank => ts[t].shows = Blank)
    <2>1. CASE t = Len(tables) + 1  BY <1>1, <2>1
    <2>2. CASE t # Len(tables) + 1
      <3>1. t \in 1 .. Len(tables)  BY <1>1, <2>2
      <3> QED  BY <1>1, <3>1 DEF Listed
    <2> QED  BY <2>1, <2>2
  <1> QED  BY <1>2 DEF Listed, ts

LEMMA ReadFramesFollows ==
    ASSUME IInv, OneHandle, Idle, LatestFollows, NEW h \in 1 .. Len(handles), ReadFrames(h)
    PROVE  Idle' /\ LatestFollows'
  <1> DEFINE p == handles[h].pass
             o == handles[h].owned
  <1>1. HandlesOK /\ p.step = "frames" /\ story' = story  BY DEF IInv, ReadFrames, host
  <1>2. p # NoPass  BY <1>1 DEF NoPass
  <1>3. TablesSound(o) /\ ShowsAll(story, p, o)  BY <1>1, <1>2, PassTold
  <1>4. CASE layout = <<>>
    <2>1. Ended(h, o)  BY <1>4 DEF ReadFrames
    <2>2. ShowsAll(story', NoPass, o)  BY <1>1, <1>3 DEF ShowsAll, Expected, NoPass, Writes
    <2> HIDE DEF o
    <2> QED  BY <1>1, <1>2, <1>3, <1>4, <2>1, <2>2, EndsFollows
  <1>5. CASE layout # <<>>
    <2> DEFINE q == [step |-> "paginate", frames |-> layout]
    <2>1. /\ handles' = [handles EXCEPT ![h].pass = q]
          /\ UNCHANGED <<sheet, layout, active, due, waiting>>
      BY <1>5 DEF ReadFrames, Goes, user, session
    <2>2. q.step = "paginate" /\ InShape(q) /\ q.frames = layout  BY DEF InShape, Writes
    <2> HIDE DEF q
    <2>3. ShowsAll(story', q, o)  BY <1>1, <1>3, <2>2 DEF ShowsAll, Expected, Writes
    <2>4. PassUpToDate(q, handles[h].opts) /\ q.step \in {"paginate"} \cup Writes
      BY <2>2 DEF PassUpToDate
    <2> QED  BY <1>1, <1>2, <2>1, <2>2, <2>3, <2>4, GoesFollows
  <1> QED  BY <1>4, <1>5

LEMMA PaginateFollows ==
    ASSUME IInv, OneHandle, Idle, LatestFollows, IsList(sheet.rows),
           NEW h \in 1 .. Len(handles), Paginate(h)
    PROVE  Idle' /\ LatestFollows'
  <1> DEFINE p == handles[h].pass
             o == handles[h].owned
             opts == handles[h].opts
             contents == ContentsOf(sheet, p.frames, opts)
             q == Writing("write", contents, 1, <<>>)
  <1>1. HandlesOK /\ p.step = "paginate" /\ story' = story  BY DEF IInv, Paginate, host
  <1>2. p # NoPass  BY <1>1 DEF NoPass
  <1>3. TablesSound(o) /\ ShowsAll(story, p, o) /\ opts.header \in Nat  BY <1>1, <1>2, PassTold
  <1>4. p.frames \in Seq(Nat)
    <2>1. IsPass(p)  BY <1>1, PassFacts
    <2> QED  BY <1>1, <1>2, <2>1 DEF IsPass, NoPass
  <1>5. /\ handles' = [handles EXCEPT ![h].pass = q]
        /\ UNCHANGED <<sheet, layout, active, due, waiting>>
    BY DEF Paginate, Goes, user, session, Writing, ContentsOf
  <1>6. AreContents(contents)  BY <1>3, <1>4, PagesAreContents
  <1>u. (p.frames = layout => contents = ContentsOf(sheet, layout, opts))
        /\ (PassUpToDate(p, opts) <=> p.frames = layout)
    BY <1>1 DEF PassUpToDate
  <1> HIDE DEF contents
  <1>7. q.step = "write" /\ q.pages = contents /\ q.at = 1 /\ q.tables = <<>>  BY DEF Writing
  <1> HIDE DEF q
  <1>8. Len(q.tables) = 0  BY <1>7
  <1>9. InShape(q)  BY <1>6, <1>7, <1>8 DEF InShape, AreContents
  <1>10. ShowsAll(story', q, o)  BY <1>1, <1>3, <1>7, <1>8, ListShape DEF ShowsAll, Expected, Writes
  <1>11. PassUpToDate(q, opts) \/ (p.step \in {"paginate"} \cup Writes /\ ~PassUpToDate(p, opts))
    BY <1>1, <1>7, <1>u DEF PassUpToDate
  <1>12. q.step \in {"paginate"} \cup Writes  BY <1>7 DEF Writes
  <1> QED  BY <1>1, <1>2, <1>5, <1>9, <1>10, <1>11, <1>12, GoesFollows

(* Before a page is written: so many tables are done, the next is as the    *)
(* handle takes it to be.                                                   *)
LEMMA BeforePage ==
    ASSUME NEW p, NEW o, IsList(o), IsWriting(p), p.step = "write", Underway(story, p, o),
           InShape(p), ShowsAll(story, p, o), StoryOK
    PROVE  /\ Len(p.tables) = p.at - 1 /\ Listed(p.pages, p.tables)
           /\ \A t \in 1 .. Len(story) : t < p.at => story[t].shows = PageAt(p.pages, t)
           /\ \A t \in 1 .. Len(story) : t >= p.at => story[t].shows = o[t].shows
           /\ p.at <= Len(o) => Same(story, o)
           /\ p.at > Len(o) => Len(story) = p.at - 1
  <1>0. Len(o) \in Nat /\ p.at \in Nat \ {0} /\ Len(story) \in Nat
    BY ListShape DEF IsWriting, StoryOK
  <1>1. Len(p.tables) = p.at - 1 /\ Listed(p.pages, p.tables)  BY DEF InShape, Writes, Listed
  <1>2. ASSUME NEW t \in 1 .. Len(story) PROVE t <= Len(p.tables) <=> t < p.at  BY <1>0, <1>1
  <1>3. ASSUME NEW t \in 1 .. Len(story)
        PROVE  story[t].shows = IF t < p.at THEN PageAt(p.pages, t) ELSE o[t].shows
    BY <1>2 DEF ShowsAll, Expected, Writes
  <1>4. ASSUME NEW t \in 1 .. Len(story) PROVE t >= p.at => ~(t < p.at)  BY <1>0
  <1>5. p.at <= Len(o) => Same(story, o)  BY <1>0 DEF Underway
  <1>6. p.at > Len(o) => Len(story) = p.at - 1
    <2>1. p.at > Len(o) => Same(story, p.tables)  BY BeyondOwned
    <2> QED  BY <1>1, <2>1 DEF Same, Begins
  <1> QED  BY <1>1, <1>3, <1>4, <1>5, <1>6

LEMMA RefreshPageFollows ==
    ASSUME IInv, OneHandle, Idle, LatestFollows, NEW h \in 1 .. Len(handles), RefreshPage(h)
    PROVE  Idle' /\ LatestFollows'
  <1> DEFINE p == handles[h].pass
             o == handles[h].owned
             n == p.at
             x == Owned(o[n].id, p.pages[n], FALSE)
             ts == Append(p.tables, x)
             q == [p EXCEPT !.at = n + 1, !.tables = ts]
  <1>0. HandlesOK /\ StoryOK  BY DEF IInv
  <1>1. p.step = "write"  BY DEF RefreshPage
  <1>2. /\ IsWriting(p) /\ p # NoPass /\ IsList(o)
        /\ Len(o) \in Nat /\ Len(p.pages) \in Nat
        /\ DOMAIN o = 1 .. Len(o) /\ DOMAIN p.pages = 1 .. Len(p.pages)
        /\ DOMAIN p = {"step", "pages", "at", "tables"}
    BY <1>0, <1>1, WritingFacts
  <1>3. TablesSound(o) /\ InShape(p) /\ ShowsAll(story, p, o) /\ Underway(story, p, o)
    BY <1>0, <1>2, PassTold
  <1>4. n \in 1 .. Len(o) /\ n \in 1 .. Len(p.pages)
    <2>1. n \in DOMAIN p.pages \cap DOMAIN o  BY DEF RefreshPage
    <2> QED  BY <1>2, <2>1
  <1>5. /\ handles' = [handles EXCEPT ![h].pass = q]
        /\ UNCHANGED <<sheet, layout, active, due, waiting>>
    BY DEF RefreshPage, Goes, user, session
  <1>6. story' = IF InStory(o[n].id)
                 THEN StoryWith(o[n].id, Refreshed(story[TableAt(o[n].id)].shows, o[n].shows, p.pages[n]))
                 ELSE story
    BY DEF RefreshPage
  <1>7. q.step = "write" /\ q.pages = p.pages /\ q.at = n + 1 /\ q.tables = ts
    <2> HIDE DEF ts, n, p
    <2> QED  BY <1>1, <1>2
  <1>8. x.shows = p.pages[n] /\ x.blank = FALSE  BY DEF Owned
  <1>9. IsList(p.tables) /\ p.at \in Nat \ {0}  BY <1>2 DEF IsWriting
  <1>p. p = handles[h].pass /\ o = handles[h].owned /\ n = p.at  OBVIOUS
  <1> HIDE DEF q, p, o, x
  <1>10. /\ Len(p.tables) = n - 1 /\ Listed(p.pages, p.tables)
         /\ \A t \in 1 .. Len(story) : t < n => story[t].shows = PageAt(p.pages, t)
         /\ \A t \in 1 .. Len(story) : t >= n => story[t].shows = o[t].shows
         /\ Same(story, o)
    BY <1>0, <1>1, <1>2, <1>3, <1>4, BeforePage
  <1>11. n \in 1 .. Len(story) /\ Len(story) = Len(o) /\ story[n].id = o[n].id /\ story[n].shows = o[n].shows
    BY <1>4, <1>9, <1>10 DEF Same, Begins
  <1>12. PageAt(p.pages, n) = p.pages[n]  BY <1>4 DEF PageAt
  <1>13. Refreshed(o[n].shows, o[n].shows, p.pages[n]) = p.pages[n]
    <2>1. IsContent(o[n].shows) /\ IsContent(p.pages[n])
      BY <1>1, <1>3, <1>4 DEF TablesSound, InShape, Writes
    <2> QED  BY <2>1, RefreshedIs
  <1>14. /\ Len(story') = Len(story) /\ story'[n].shows = p.pages[n]
         /\ \A u \in 1 .. Len(story) : u # n => story'[u] = story[u]
    <2>1. InStory(o[n].id) /\ TableAt(o[n].id) = n  BY <1>0, <1>11, StoryWithAt
    <2>2. story' = StoryWith(o[n].id, p.pages[n])  BY <1>6, <1>11, <1>13, <2>1
    <2> QED  BY <1>0, <1>11, <2>2, StoryWithAt
  <1>15. Len(ts) = n /\ Listed(p.pages, ts)
    <2>1. n \in Nat /\ Len(p.tables) + 1 = n  BY <1>9, <1>10, <1>p
    <2>2. x.shows = PageAt(p.pages, Len(p.tables) + 1) /\ ~x.blank  BY <1>8, <1>12, <2>1
    <2>3. Listed(p.pages, ts)  BY <1>9, <1>10, <2>2, ListedMore
    <2>4. Len(ts) = Len(p.tables) + 1  BY <1>9, ListAppend
    <2> QED  BY <2>1, <2>3, <2>4
  <1> HIDE DEF ts, n
  <1>n. n \in Nat  BY <1>4
  <1>16. InShape(q)
    <2>1. \A k \in 1 .. Len(p.pages) : IsContent(p.pages[k])  BY <1>1, <1>3 DEF InShape, Writes
    <2>2. Len(q.tables) = q.at - 1  BY <1>n, <1>7, <1>15
    <2> QED  BY <1>7, <1>15, <2>1, <2>2 DEF InShape, Listed
  <1>17. ShowsAll(story', q, o)
    <2> SUFFICES ASSUME NEW t \in 1 .. Len(story') PROVE story'[t].shows = Expected(q, o, t)
      BY DEF ShowsAll
    <2>1. Expected(q, o, t) = IF t <= n THEN PageAt(p.pages, t) ELSE o[t].shows
      BY <1>7, <1>15 DEF Expected, Writes
    <2>2. t \in 1 .. Len(story) /\ (t < n \/ t = n \/ (t >= n /\ t # n))  BY <1>n, <1>14
    <2>3. CASE t < n  BY <1>n, <1>10, <1>14, <2>1, <2>2, <2>3
    <2>4. CASE t = n  BY <1>n, <1>12, <1>14, <2>1, <2>4
    <2>5. CASE t >= n /\ t # n
      <3>1. ~(t <= n)  BY <1>n, <2>5
      <3> QED  BY <1>10, <1>14, <2>1, <2>2, <2>5, <3>1
    <2> QED  BY <2>2, <2>3, <2>4, <2>5
  <1>18. q.step \in {"paginate"} \cup Writes  BY <1>7 DEF Writes
  <1>19. \/ PassUpToDate(q, handles[h].opts)
         \/ p.step \in {"paginate"} \cup Writes /\ ~PassUpToDate(p, handles[h].opts)
    <2>1. p.step \in Writes /\ q.step \in Writes  BY <1>1, <1>7 DEF Writes
    <2> QED  BY <1>7, <2>1, SamePages
  <1> QED  BY <1>0, <1>2, <1>p, <1>5, <1>16, <1>17, <1>18, <1>19, GoesFollows

LEMMA InsertPageFollows ==
    ASSUME IInv, OneHandle, Idle, LatestFollows, NEW h \in 1 .. Len(handles), InsertPage(h)
    PROVE  Idle' /\ LatestFollows'
  <1> DEFINE p == handles[h].pass
             o == handles[h].owned
             n == p.at
             x == Owned(minted + 1, p.pages[n], FALSE)
             table == [id |-> minted + 1, shows |-> EmptyTable]
             ts == Append(p.tables, x)
             q == [p EXCEPT !.step = "pour", !.tables = ts]
  <1>0. HandlesOK /\ StoryOK  BY DEF IInv
  <1>1. p.step = "write"  BY DEF InsertPage
  <1>2. /\ IsWriting(p) /\ p # NoPass /\ IsList(o)
        /\ Len(o) \in Nat /\ Len(p.pages) \in Nat
        /\ DOMAIN o = 1 .. Len(o) /\ DOMAIN p.pages = 1 .. Len(p.pages)
        /\ DOMAIN p = {"step", "pages", "at", "tables"}
    BY <1>0, <1>1, WritingFacts
  <1>3. TablesSound(o) /\ InShape(p) /\ ShowsAll(story, p, o) /\ Underway(story, p, o)
    BY <1>0, <1>2, PassTold
  <1>9. IsList(p.tables) /\ p.at \in Nat \ {0}  BY <1>2 DEF IsWriting
  <1>4. n > Len(o) /\ n \in 1 .. Len(p.pages)
    <2>1. n \in DOMAIN p.pages /\ n \notin DOMAIN o  BY DEF InsertPage
    <2> QED  BY <1>2, <1>9, <2>1
  <1>5. /\ handles' = [handles EXCEPT ![h].pass = q] /\ story' = Append(story, table)
        /\ UNCHANGED <<sheet, layout, active, due, waiting>>
    BY DEF InsertPage, Goes, user, session
  <1>7. q.step = "pour" /\ q.pages = p.pages /\ q.at = n /\ q.tables = ts
    <2> HIDE DEF ts, p
    <2> QED  BY <1>1, <1>2
  <1>8. x.shows = p.pages[n] /\ x.blank = FALSE /\ table.shows = EmptyTable  BY DEF Owned
  <1>p. p = handles[h].pass /\ o = handles[h].owned /\ n = p.at  OBVIOUS
  <1> HIDE DEF q, p, o, x, table
  <1>10. /\ Len(p.tables) = n - 1 /\ Listed(p.pages, p.tables)
         /\ \A t \in 1 .. Len(story) : t < n => story[t].shows = PageAt(p.pages, t)
         /\ Len(story) = n - 1
    BY <1>0, <1>1, <1>2, <1>3, <1>4, BeforePage
  <1>12. PageAt(p.pages, n) = p.pages[n]  BY <1>4 DEF PageAt
  <1>14. /\ Len(story') = n /\ story'[n] = table
         /\ \A u \in 1 .. n - 1 : story'[u] = story[u]
    <2>1. IsList(story) /\ Len(story) + 1 = n  BY <1>0, <1>9, <1>10, <1>p DEF StoryOK
    <2> QED  BY <1>5, <1>10, <2>1, ListAppend
  <1>15. Len(ts) = n /\ Listed(p.pages, ts)
    <2>1. n \in Nat /\ Len(p.tables) + 1 = n  BY <1>9, <1>10, <1>p
    <2>2. x.shows = PageAt(p.pages, Len(p.tables) + 1) /\ ~x.blank  BY <1>8, <1>12, <2>1
    <2>3. Listed(p.pages, ts)  BY <1>9, <1>10, <2>2, ListedMore
    <2>4. Len(ts) = Len(p.tables) + 1  BY <1>9, ListAppend
    <2> QED  BY <2>1, <2>3, <2>4
  <1> HIDE DEF ts, n
  <1>n. n \in Nat  BY <1>4
  <1>16. InShape(q)
    <2>1. \A k \in 1 .. Len(p.pages) : IsContent(p.pages[k])  BY <1>1, <1>3 DEF InShape, Writes
    <2>2. Len(q.tables) = q.at  BY <1>7, <1>15
    <2> QED  BY <1>7, <1>15, <2>1, <2>2 DEF InShape, Listed
  <1>17. ShowsAll(story', q, o)
    <2> SUFFICES ASSUME NEW t \in 1 .. Len(story') PROVE story'[t].shows = Expected(q, o, t)
      BY DEF ShowsAll
    <2>1. CASE t = n  BY <1>7, <1>8, <1>14, <2>1 DEF Expected
    <2>2. CASE t # n
      <3>1. t \in 1 .. n - 1 /\ t \in 1 .. Len(story) /\ t < n /\ t <= Len(ts)
        BY <1>n, <1>10, <1>14, <1>15, <2>2
      <3>2. story'[t].shows = PageAt(p.pages, t)  BY <1>10, <1>14, <3>1
      <3> QED  BY <1>7, <2>2, <3>1, <3>2 DEF Expected, Writes
    <2> QED  BY <2>1, <2>2
  <1>18. q.step \in {"paginate"} \cup Writes  BY <1>7 DEF Writes
  <1>19. \/ PassUpToDate(q, handles[h].opts)
         \/ p.step \in {"paginate"} \cup Writes /\ ~PassUpToDate(p, handles[h].opts)
    <2>1. p.step \in Writes /\ q.step \in Writes  BY <1>1, <1>7 DEF Writes
    <2> QED  BY <1>7, <2>1, SamePages
  <1> QED  BY <1>0, <1>2, <1>p, <1>5, <1>16, <1>17, <1>18, <1>19, GoesFollows

LEMMA PourPageFollows ==
    ASSUME IInv, OneHandle, Idle, LatestFollows, NEW h \in 1 .. Len(handles), PourPage(h)
    PROVE  Idle' /\ LatestFollows'
  <1> DEFINE p == handles[h].pass
             o == handles[h].owned
             n == p.at
             q == [p EXCEPT !.step = "write", !.at = n + 1]
  <1>0. HandlesOK /\ StoryOK  BY DEF IInv
  <1>1. p.step = "pour"  BY DEF PourPage
  <1>2. /\ IsWriting(p) /\ p # NoPass /\ IsList(o)
        /\ Len(o) \in Nat /\ Len(p.pages) \in Nat
        /\ DOMAIN p = {"step", "pages", "at", "tables"}
    BY <1>0, <1>1, WritingFacts
  <1>3. TablesSound(o) /\ InShape(p) /\ ShowsAll(story, p, o) /\ Underway(story, p, o)
    BY <1>0, <1>2, PassTold
  <1>9. IsList(p.tables) /\ p.at \in Nat \ {0}  BY <1>2 DEF IsWriting
  <1>4. n \in 1 .. Len(p.pages) /\ Same(story, p.tables)
    <2>1. n \in Len(o) + 1 .. Len(p.pages) /\ Same(story, p.tables)  BY <1>1, <1>3 DEF Underway
    <2> QED  BY <1>2, <1>9, <2>1
  <1>5. /\ handles' = [handles EXCEPT ![h].pass = q]
        /\ UNCHANGED <<sheet, layout, active, due, waiting>>
    BY DEF PourPage, Goes, user, session
  <1>6. story' = StoryWith(Last(p.tables).id, Last(p.tables).shows)  BY DEF PourPage
  <1>7. q.step = "write" /\ q.pages = p.pages /\ q.at = n + 1 /\ q.tables = p.tables
    <2> HIDE DEF n, p
    <2> QED  BY <1>1, <1>2
  <1>p. p = handles[h].pass /\ o = handles[h].owned /\ n = p.at  OBVIOUS
  <1> HIDE DEF q, p, o
  <1>n. n \in Nat \ {0}  BY <1>9
  <1>10. /\ Len(p.tables) = n /\ Listed(p.pages, p.tables) /\ Len(story) = n
         /\ \A t \in 1 .. Len(story) : t # n => story[t].shows = PageAt(p.pages, t)
    <2>1. Len(p.tables) = n /\ Listed(p.pages, p.tables)  BY <1>1, <1>3, <1>p DEF InShape, Writes, Listed
    <2>2. Len(story) = n  BY <1>4, <2>1 DEF Same, Begins
    <2>3. ASSUME NEW t \in 1 .. Len(story), t # n PROVE story[t].shows = PageAt(p.pages, t)
      <3>1. t <= Len(p.tables)  BY <1>n, <2>1, <2>2
      <3>2. Expected(p, o, t) = PageAt(p.pages, t)  BY <1>1, <2>3, <3>1 DEF Expected, Writes
      <3> QED  BY <1>3, <3>2 DEF ShowsAll
    <2> QED  BY <2>1, <2>2, <2>3
  <1>11. /\ n \in 1 .. Len(story) /\ Last(p.tables) = p.tables[n] /\ p.tables[n].id = story[n].id
         /\ p.tables[n].shows = PageAt(p.pages, n)
    <2>1. n \in 1 .. n  BY <1>n
    <2>2. Last(p.tables) = p.tables[n]  BY <1>10 DEF Last
    <2> QED  BY <1>4, <1>10, <2>1, <2>2 DEF Same, Begins, Listed
  <1>14. /\ Len(story') = n /\ story'[n].shows = PageAt(p.pages, n)
         /\ \A u \in 1 .. Len(story) : u # n => story'[u] = story[u]
    <2>1. story' = StoryWith(p.tables[n].id, PageAt(p.pages, n))  BY <1>6, <1>11
    <2>2. n \in 1 .. Len(story) /\ p.tables[n].id = story[n].id  BY <1>11
    <2>3. /\ Len(story') = Len(story) /\ story'[n].shows = PageAt(p.pages, n)
          /\ \A u \in 1 .. Len(story) : u # n => story'[u] = story[u]
      <3> HIDE DEF n
      <3> QED  BY <1>0, <2>1, <2>2, StoryWithAt
    <2> QED  BY <1>10, <2>3
  <1> HIDE DEF n
  <1>16. InShape(q)
    <2>1. \A k \in 1 .. Len(p.pages) : IsContent(p.pages[k])  BY <1>1, <1>3 DEF InShape, Writes
    <2>2. Len(q.tables) = q.at - 1  BY <1>n, <1>7, <1>10
    <2> QED  BY <1>7, <1>10, <2>1, <2>2 DEF InShape, Listed
  <1>17. ShowsAll(story', q, o)
    <2> SUFFICES ASSUME NEW t \in 1 .. Len(story') PROVE story'[t].shows = Expected(q, o, t)
      BY DEF ShowsAll
    <2>1. t <= Len(q.tables) /\ t \in 1 .. Len(story)  BY <1>n, <1>7, <1>10, <1>14
    <2>2. Expected(q, o, t) = PageAt(p.pages, t)  BY <1>7, <2>1 DEF Expected, Writes
    <2>3. CASE t = n  BY <1>14, <2>2, <2>3
    <2>4. CASE t # n  BY <1>10, <1>14, <2>1, <2>2, <2>4
    <2> QED  BY <2>3, <2>4
  <1>18. q.step \in {"paginate"} \cup Writes  BY <1>7 DEF Writes
  <1>19. \/ PassUpToDate(q, handles[h].opts)
         \/ p.step \in {"paginate"} \cup Writes /\ ~PassUpToDate(p, handles[h].opts)
    <2>1. p.step \in Writes /\ q.step \in Writes  BY <1>1, <1>7 DEF Writes
    <2> QED  BY <1>7, <2>1, SamePages
  <1> QED  BY <1>0, <1>2, <1>p, <1>5, <1>16, <1>17, <1>18, <1>19, GoesFollows

(* What tables that show the pages and then nothing are. *)
LEMMA ListedSound ==
    ASSUME NEW pages, \A k \in 1 .. Len(pages) : IsContent(pages[k]), NEW tables, IsList(tables),
           Listed(pages, tables), Len(pages) <= Len(tables)
    PROVE  TablesSound(tables) /\ Fits(tables, pages)
  <1>1. Len(tables) \in Nat  BY ListShape
  <1>2. ASSUME NEW t \in 1 .. Len(tables) PROVE IsContent(tables[t].shows)
    BY <1>1, PageAtIsContent DEF Listed
  <1> QED  BY <1>2 DEF Listed, TablesSound, Fits

LEMMA EndPagesFollows ==
    ASSUME IInv, OneHandle, Idle, LatestFollows, NEW h \in 1 .. Len(handles), EndPages(h)
    PROVE  Idle' /\ LatestFollows'
  <1> DEFINE p == handles[h].pass
             o == handles[h].owned
             gone == Names(Spare(h))
  <1>0. HandlesOK /\ StoryOK  BY DEF IInv
  <1>1. p.step = "write" /\ p.at > Len(p.pages)  BY DEF EndPages
  <1>2. /\ IsWriting(p) /\ p # NoPass /\ IsList(o)
        /\ Len(o) \in Nat /\ Len(p.pages) \in Nat
        /\ DOMAIN p = {"step", "pages", "at", "tables"}
    BY <1>0, <1>1, WritingFacts
  <1>3. TablesSound(o) /\ InShape(p) /\ ShowsAll(story, p, o) /\ Underway(story, p, o)
    BY <1>0, <1>2, PassTold
  <1>9. IsList(p.tables) /\ p.at \in Nat \ {0}  BY <1>2 DEF IsWriting
  <1>5. \/ story' = Remaining(story, gone) /\ Ended(h, p.tables)
        \/ story' = story /\ Goes(h, [p EXCEPT !.step = "empty", !.at = 1])
    BY DEF EndPages, Names
  <1>10. /\ Len(p.tables) = p.at - 1 /\ Listed(p.pages, p.tables)
    BY <1>0, <1>1, <1>2, <1>3, BeforePage
  <1>6. ASSUME story' = Remaining(story, gone), Ended(h, p.tables) PROVE Idle' /\ LatestFollows'
    <2>1. /\ Same(story', p.tables)
          /\ \A t \in 1 .. Len(story') : t \in 1 .. Len(story) /\ story'[t] = story[t]
      BY <1>0, <1>1, <1>3, <1>6, SpareDeleted
    <2>2. TablesSound(p.tables) /\ Fits(p.tables, p.pages)
      <3>1. \A k \in 1 .. Len(p.pages) : IsContent(p.pages[k])  BY <1>1, <1>3 DEF InShape, Writes
      <3>2. Len(p.pages) <= Len(p.tables)  BY <1>1, <1>2, <1>9, <1>10
      <3> HIDE DEF p
      <3> QED  BY <1>9, <1>10, <3>1, <3>2, ListedSound
    <2>3. ShowsAll(story', NoPass, p.tables)
      <3>1. ASSUME NEW t \in 1 .. Len(story') PROVE story'[t].shows = p.tables[t].shows
        <4>1. t \in 1 .. Len(p.tables)  BY <2>1 DEF Same, Begins
        <4>2. Expected(p, o, t) = PageAt(p.pages, t)  BY <1>1, <4>1 DEF Expected, Writes
        <4>3. story[t].shows = PageAt(p.pages, t)  BY <1>3, <2>1, <4>2 DEF ShowsAll
        <4> QED  BY <1>10, <2>1, <4>1, <4>3 DEF Listed
      <3> QED  BY <3>1 DEF ShowsAll, Expected, NoPass, Writes
    <2>4. p.step \in Writes  BY <1>1 DEF Writes
    <2>p. p = handles[h].pass  OBVIOUS
    <2> HIDE DEF p
    <2> QED  BY <1>0, <1>2, <1>6, <2>2, <2>3, <2>4, <2>p, EndsFollows
  <1>7. ASSUME story' = story, Goes(h, [p EXCEPT !.step = "empty", !.at = 1]) PROVE Idle' /\ LatestFollows'
    <2> DEFINE q == [p EXCEPT !.step = "empty", !.at = 1]
    <2>1. /\ handles' = [handles EXCEPT ![h].pass = q]
          /\ UNCHANGED <<sheet, layout, active, due, waiting>>
      BY <1>7 DEF Goes, user, session
    <2>p. p = handles[h].pass /\ o = handles[h].owned  OBVIOUS
    <2> HIDE DEF p, o
    <2>2. q.step = "empty" /\ q.pages = p.pages /\ q.at = 1 /\ q.tables = p.tables  BY <1>2
    <2> HIDE DEF q
    <2>3. InShape(q)
      <3>1. \A k \in 1 .. Len(p.pages) : IsContent(p.pages[k])  BY <1>1, <1>3 DEF InShape, Writes
      <3> QED  BY <1>10, <2>2, <3>1 DEF InShape, Listed
    <2>4. ShowsAll(story', q, o)
      <3>1. \A t : Expected(q, o, t) = Expected(p, o, t)  BY <1>1, <2>2 DEF Expected, Writes
      <3> QED  BY <1>3, <1>7, <3>1 DEF ShowsAll
    <2>5. q.step \in {"paginate"} \cup Writes /\ p.step \in Writes /\ q.step \in Writes
      BY <1>1, <2>2 DEF Writes
    <2>6. \/ PassUpToDate(q, handles[h].opts)
          \/ p.step \in {"paginate"} \cup Writes /\ ~PassUpToDate(p, handles[h].opts)
      BY <2>2, <2>5, SamePages
    <2> QED  BY <1>0, <1>2, <2>p, <2>1, <2>3, <2>4, <2>5, <2>6, GoesFollows
  <1> QED  BY <1>5, <1>6, <1>7

LEMMA EmptySpareFollows ==
    ASSUME IInv, OneHandle, Idle, LatestFollows, NEW h \in 1 .. Len(handles), EmptySpare(h)
    PROVE  Idle' /\ LatestFollows'
  <1> DEFINE p == handles[h].pass
             o == handles[h].owned
             spare == Spare(h)
             own == spare[p.at]
             x == Owned(own.id, Blank, TRUE)
             ts == Append(p.tables, x)
             k == Len(p.pages) + p.at
  <1>0. HandlesOK /\ StoryOK  BY DEF IInv
  <1>1. p.step = "empty"  BY DEF EmptySpare
  <1>2. /\ IsWriting(p) /\ p # NoPass /\ IsList(o)
        /\ Len(o) \in Nat /\ Len(p.pages) \in Nat
        /\ DOMAIN p = {"step", "pages", "at", "tables"}
    BY <1>0, <1>1, WritingFacts
  <1>3. TablesSound(o) /\ InShape(p) /\ ShowsAll(story, p, o) /\ Underway(story, p, o)
    BY <1>0, <1>2, PassTold
  <1>4. /\ Len(spare) = IF Len(p.pages) < Len(o) THEN Len(o) - Len(p.pages) ELSE 0
        /\ \A i \in 1 .. Len(spare) : spare[i] = o[Len(p.pages) + i]
    BY <1>0, <1>1, SpareShape
  <1>5. IF p.at = Len(spare) THEN Ended(h, ts) ELSE Goes(h, [p EXCEPT !.at = p.at + 1, !.tables = ts])
    BY DEF EmptySpare
  <1>6. story' = IF own.blank \/ ~InStory(own.id) THEN story
                 ELSE StoryWith(own.id, Refreshed(story[TableAt(own.id)].shows, own.shows, Blank))
    BY DEF EmptySpare
  <1>8. x.shows = Blank  BY DEF Owned
  <1>9. IsList(p.tables) /\ p.at \in Nat \ {0}  BY <1>2 DEF IsWriting
  <1>p. p = handles[h].pass /\ o = handles[h].owned  OBVIOUS
  <1>w. own = spare[p.at]  OBVIOUS
  <1> HIDE DEF p, o, x, spare, own
  <1>10. /\ p.at \in 1 .. Len(o) - Len(p.pages) /\ Begins(p.tables, o, k - 1) /\ Same(story, o)
    BY <1>1, <1>3 DEF Underway
  <1>11. /\ k \in Nat /\ k \in 1 .. Len(o) /\ k > Len(p.pages) /\ Len(p.tables) = k - 1
         /\ Len(p.pages) <= Len(p.tables)
         /\ Len(spare) = Len(o) - Len(p.pages) /\ p.at \in 1 .. Len(spare)
    BY <1>2, <1>4, <1>9, <1>10 DEF Begins
  <1>k. k = Len(p.pages) + p.at  OBVIOUS
  <1> HIDE DEF k
  <1>12. own = o[k]  BY <1>4, <1>11, <1>w, <1>k
  <1>13. /\ k \in 1 .. Len(story) /\ Len(story) = Len(o) /\ story[k].id = own.id
    BY <1>10, <1>11, <1>12 DEF Same, Begins
  <1>14. ASSUME NEW t \in 1 .. Len(story)
         PROVE  story[t].shows = IF t < k THEN PageAt(p.pages, t) ELSE o[t].shows
    <2>1. t <= Len(p.tables) <=> t < k  BY <1>11
    <2> QED  BY <1>1, <1>3, <2>1 DEF ShowsAll, Expected, Writes
  <1>15. story[k].shows = own.shows
    <2>1. ~(k < k)  BY <1>11
    <2> QED  BY <1>12, <1>13, <1>14, <2>1
  <1>16. Len(story') = Len(story) /\ story'[k].shows = Blank
         /\ \A u \in 1 .. Len(story) : u # k => story'[u] = story[u]
    <2>1. InStory(own.id) /\ TableAt(own.id) = k  BY <1>0, <1>13, StoryWithAt
    <2>2. CASE own.blank
      <3>1. own.shows = Blank  BY <1>3, <1>11, <1>12, <2>2 DEF TablesSound
      <3> QED  BY <1>6, <1>15, <2>2, <3>1
    <2>3. CASE ~own.blank
      <3>1. IsContent(own.shows)  BY <1>3, <1>11, <1>12 DEF TablesSound
      <3>2. Refreshed(own.shows, own.shows, Blank) = Blank  BY <3>1, BlankIsContent, RefreshedIs
      <3>3. story' = StoryWith(own.id, Blank)  BY <1>6, <1>15, <2>1, <2>3, <3>2
      <3> QED  BY <1>0, <1>13, <3>3, StoryWithAt
    <2> QED  BY <2>2, <2>3
  <1>17. PageAt(p.pages, k) = Blank
    <2>1. ~(k <= Len(p.pages))  BY <1>2, <1>11
    <2> QED  BY <2>1 DEF PageAt
  <1>18. Listed(p.pages, p.tables) /\ \A i \in 1 .. Len(p.pages) : IsContent(p.pages[i])
    BY <1>1, <1>3 DEF InShape, Writes, Listed
  <1>19. IsList(ts) /\ Len(ts) = k /\ Listed(p.pages, ts)
    <2>1. Len(p.tables) + 1 = k  BY <1>11
    <2>2. x.shows = PageAt(p.pages, Len(p.tables) + 1) /\ (x.blank => x.shows = Blank)
      BY <1>8, <1>17, <2>1
    <2>3. Listed(p.pages, ts)  BY <1>9, <1>18, <2>2, ListedMore
    <2>4. IsList(ts) /\ Len(ts) = Len(p.tables) + 1  BY <1>9, ListAppend
    <2> QED  BY <2>1, <2>3, <2>4
  <1> HIDE DEF ts
  <1>20. ASSUME NEW t \in 1 .. Len(story')
         PROVE  story'[t].shows = IF t <= k THEN PageAt(p.pages, t) ELSE o[t].shows
    <2>1. t \in 1 .. Len(story) /\ (t < k \/ t = k \/ (t # k /\ ~(t <= k) /\ ~(t < k)))
      BY <1>11, <1>16
    <2>2. CASE t < k
      <3>1. t # k /\ t <= k  BY <1>11, <2>2
      <3> QED  BY <1>14, <1>16, <2>1, <2>2, <3>1
    <2>3. CASE t = k
      <3>1. k <= k  BY <1>11
      <3> QED  BY <1>16, <1>17, <2>3, <3>1
    <2>4. CASE t # k /\ ~(t <= k) /\ ~(t < k)  BY <1>14, <1>16, <2>1, <2>4
    <2> QED  BY <2>1, <2>2, <2>3, <2>4
  <1>21. p.step \in Writes  BY <1>1 DEF Writes
  <1>22. CASE p.at = Len(spare)
    <2>1. Ended(h, ts)  BY <1>5, <1>22
    <2>2. k = Len(o)  BY <1>2, <1>11, <1>22, <1>k
    <2>3. TablesSound(ts) /\ Fits(ts, p.pages)
      <3>1. Len(p.pages) <= Len(ts)  BY <1>2, <1>11, <1>19
      <3> QED  BY <1>18, <1>19, <3>1, ListedSound
    <2>4. ShowsAll(story', NoPass, ts)
      <3>1. ASSUME NEW t \in 1 .. Len(story') PROVE story'[t].shows = ts[t].shows
        <4>1. t \in 1 .. Len(ts) /\ t <= k  BY <1>11, <1>13, <1>16, <1>19, <2>2
        <4> QED  BY <1>19, <1>20, <4>1 DEF Listed
      <3> QED  BY <3>1 DEF ShowsAll, Expected, NoPass, Writes
    <2> QED  BY <1>0, <1>2, <1>p, <1>21, <2>1, <2>3, <2>4, EndsFollows
  <1>23. CASE p.at # Len(spare)
    <2> DEFINE n == p.at + 1
               q == [p EXCEPT !.at = n, !.tables = ts]
    <2>1. /\ handles' = [handles EXCEPT ![h].pass = q]
          /\ UNCHANGED <<sheet, layout, active, due, waiting>>
      BY <1>5, <1>23, <1>p DEF Goes, user, session
    <2> HIDE DEF n
    <2>2. q.step = "empty" /\ q.pages = p.pages /\ q.at = n /\ q.tables = ts  BY <1>1, <1>2
    <2> HIDE DEF q
    <2>3. InShape(q)  BY <1>18, <1>19, <2>2 DEF InShape, Listed
    <2>4. ShowsAll(story', q, o)
      <3>1. \A t : Expected(q, o, t) = IF t <= k THEN PageAt(p.pages, t) ELSE o[t].shows
        BY <1>19, <2>2 DEF Expected, Writes
      <3> QED  BY <1>20, <3>1 DEF ShowsAll
    <2>5. q.step \in {"paginate"} \cup Writes /\ q.step \in Writes  BY <2>2 DEF Writes
    <2>6. \/ PassUpToDate(q, handles[h].opts)
          \/ p.step \in {"paginate"} \cup Writes /\ ~PassUpToDate(p, handles[h].opts)
      BY <1>21, <2>2, <2>5, SamePages
    <2> QED  BY <1>0, <1>2, <1>p, <2>1, <2>3, <2>4, <2>5, <2>6, GoesFollows
  <1> QED  BY <1>22, <1>23

-----------------------------------------------------------------------------
(* The range is a list of rows, and what is asked for are options. *)
InputsOK == IsList(sheet.rows) /\ asked \in Seq(Options) /\ waiting \in Nat

LEMMA RangeRows ==
    ASSUME NEW range \in Sheets \cup {start[1] : start \in Starts}
    PROVE  IsList(range.rows)
  BY RangeAssumption DEF IsList

LEMMA InitInputs == Init => InputsOK
  <1> SUFFICES ASSUME Init PROVE InputsOK  OBVIOUS
  <1>1. PICK start \in Starts : sheet = start[1]  BY DEF Init
  <1>2. start[1] \in {s[1] : s \in Starts}  OBVIOUS
  <1>3. IsList(sheet.rows)
    <2>1. sheet \in Sheets \cup {s[1] : s \in Starts}  BY <1>1, <1>2
    <2> QED  BY <2>1, RangeRows
  <1>4. asked = <<>> /\ waiting = 0  BY DEF Init
  <1> QED  BY <1>3, <1>4 DEF InputsOK

LEMMA NextInputs == InputsOK /\ [Next]_vars => InputsOK'
  <1> SUFFICES ASSUME InputsOK, [Next]_vars PROVE InputsOK'  OBVIOUS
  <1> USE DEF InputsOK
  <1>1. ASSUME NEW new \in Sheets, Edit(new) PROVE InputsOK'
    <2>1. sheet' = new /\ UNCHANGED <<asked, waiting>>  BY <1>1 DEF Edit
    <2>2. new \in Sheets \cup {start[1] : start \in Starts}  OBVIOUS
    <2> QED  BY <2>1, <2>2, RangeRows
  <1>2. ASSUME NEW opts \in Options, Ask(opts) PROVE InputsOK'
    <2>1. asked' = Append(asked, opts) /\ UNCHANGED <<sheet, waiting>>  BY <1>2 DEF Ask, user
    <2> QED  BY <2>1
  <1>3. ASSUME NEW k \in DOMAIN asked, Place(k) PROVE InputsOK'
    <2>1. asked' = RemoveAt(asked, k) /\ UNCHANGED <<sheet, waiting>>  BY <1>3 DEF Place, user
    <2>2. k \in 1 .. Len(asked)  OBVIOUS
    <2>3. SubSeq(asked, 1, k - 1) \in Seq(Options) /\ SubSeq(asked, k + 1, Len(asked)) \in Seq(Options)
      BY <2>2
    <2>4. RemoveAt(asked, k) \in Seq(Options)  BY <2>3 DEF RemoveAt
    <2> QED  BY <2>1, <2>4
  <1>4. CASE RefreshTimer
    <2>1. UNCHANGED <<sheet, asked>> /\ waiting' = waiting + 1  BY <1>4 DEF RefreshTimer, user
    <2> QED  BY <2>1
  <1>5. CASE StartRefresh
    <2>1. UNCHANGED <<sheet, asked>> /\ waiting > 0 /\ waiting' = waiting - 1
      BY <1>5 DEF StartRefresh, user
    <2> QED  BY <2>1
  <1>6. ASSUME NEW h, ReflowTimer(h) \/ RunStep(h) \/ Refuse(h) \/ Throw(h) PROVE InputsOK'
    <2>0. (\E owned : Ended(h, owned)) \/ (\E pass : Goes(h, pass)) => UNCHANGED <<sheet, asked, waiting>>
      BY DEF Ended, Goes, user, session
    <2>1. CASE ReflowTimer(h) \/ StartRun(h) \/ Refuse(h) \/ Throw(h)
      <3>1. UNCHANGED <<sheet, asked, waiting>>
        BY <2>1 DEF ReflowTimer, StartRun, Refuse, Throw, user, session
      <3> QED  BY <3>1
    <2>2. CASE \/ ReadFrames(h) \/ Paginate(h) \/ RefreshPage(h) \/ InsertPage(h) \/ PourPage(h)
               \/ EndPages(h) \/ EmptySpare(h)
      <3>1. (\E owned : Ended(h, owned)) \/ (\E pass : Goes(h, pass))
        <4>1. CASE ReadFrames(h) \/ EndPages(h) \/ EmptySpare(h)  BY <4>1 DEF ReadFrames, EndPages, EmptySpare
        <4>2. CASE Paginate(h)  BY <4>2 DEF Paginate
        <4>3. CASE RefreshPage(h)  BY <4>3 DEF RefreshPage
        <4>4. CASE InsertPage(h)  BY <4>4 DEF InsertPage
        <4>5. CASE PourPage(h)  BY <4>5 DEF PourPage
        <4> QED  BY <2>2, <4>1, <4>2, <4>3, <4>4, <4>5
      <3> QED  BY <2>0, <3>1
    <2> QED  BY <1>6, <2>1, <2>2 DEF RunStep
  <1>7. CASE (\E new \in Layouts : Resize(new)) \/ Rest \/ UNCHANGED vars
    <2>1. UNCHANGED <<sheet, asked, waiting>>  BY <1>7 DEF Resize, Rest, vars, user, session
    <2> QED  BY <2>1
  <1> QED  BY <1>1, <1>2, <1>3, <1>4, <1>5, <1>6, <1>7 DEF Next

-----------------------------------------------------------------------------
(* Nothing that is told to the latest handle is lost. *)

(* One that is asked to run will run. *)
LEMMA AskedToRun ==
    ASSUME NEW x, HandleOK(x), NEW y, NEW run, y.runs = Append(x.runs, run), y.pass = x.pass
    PROVE  Later(y)
  <1>1. IsList(x.runs) /\ Len(x.runs) \in Nat /\ (x.runs = <<>> <=> Len(x.runs) = 0)
    BY ListShape DEF HandleOK
  <1>2. Len(y.runs) = Len(x.runs) + 1  BY <1>1, ListAppend
  <1>3. CASE x.runs = <<>>
    <2>1. y.pass = NoPass  BY <1>3 DEF HandleOK
    <2>2. Len(y.runs) = 1 /\ y.pass.step = "none"  BY <1>1, <1>2, <1>3, <2>1 DEF NoPass
    <2> QED  BY <2>2 DEF Later
  <1>4. CASE x.runs # <<>>
    <2>1. Len(y.runs) > 1  BY <1>1, <1>2, <1>4
    <2> QED  BY <2>1 DEF Later
  <1> QED  BY <1>3, <1>4

LEMMA StartRunFollows ==
    ASSUME IInv, OneHandle, Idle, LatestFollows, NEW h \in 1 .. Len(handles), StartRun(h)
    PROVE  Idle' /\ LatestFollows'
  <1> DEFINE x == handles[h]
             y == handles'[h]
  <1>0. HandlesOK /\ IsList(handles) /\ Len(handles) \in Nat /\ handles # <<>>
    BY ListShape DEF IInv, HandlesOK
  <1>1. /\ x.runs # <<>> /\ x.pass = NoPass
        /\ UNCHANGED <<sheet, layout, story, active, due, waiting>>
    BY DEF StartRun, InPass, user, host
  <1>2. Steady(Latest) /\ Told(story, Latest) /\ Timely(Latest)  BY <1>0 DEF LatestFollows
  <1>i. Idle'  BY <1>1 DEF Idle
  <1>3. CASE x.disposed
    <2> DEFINE z == [x EXCEPT !.runs = Tail(x.runs)]
               f == With(handles, h, z)
    <2>1. handles' = f  BY <1>3 DEF StartRun, With
    <2>2. Len(f) = Len(handles) /\ f[h] = z /\ \A g \in 1 .. Len(handles) : g # h => f[g] = handles[g]
      BY <1>0, ListWith
    <2>3. DOMAIN x = {"opts", "owned", "runs", "pass", "live", "timer", "disposed", "broken"}
      <3>1. HandleOK(x)  BY <1>0 DEF HandlesOK
      <3> QED  BY <3>1 DEF HandleOK, IsHandle
    <2> HIDE DEF f, x
    <2>4. /\ z.pass = x.pass /\ z.opts = x.opts /\ z.owned = x.owned /\ z.live = x.live
          /\ z.timer = x.timer /\ z.disposed = x.disposed /\ z.broken = x.broken
      BY <2>3
    <2> HIDE DEF z
    <2>5. CASE h = Len(handles)
      <3>1. Latest = x /\ Latest' = z  BY <2>1, <2>2, <2>5 DEF Latest, x
      <3>2. Steady(Latest)'  BY <1>1, <1>2, <1>3, <2>4, <3>1 DEF Steady
      <3>3. Told(story, Latest)'
        <4>1. Told(story', z)  BY <1>1, <1>2, <2>4, <3>1 DEF Told
        <4> QED  BY <3>1, <4>1
      <3>4. Timely(Latest)'  BY <1>3, <2>4, <3>1 DEF Timely
      <3> QED  BY <1>i, <3>2, <3>3, <3>4 DEF LatestFollows
    <2>6. CASE h # Len(handles)
      <3>1. Latest' = Latest
        <4>1. Len(handles) \in 1 .. Len(handles)  BY <1>0, ListShape
        <4> QED  BY <2>1, <2>2, <2>6, <4>1 DEF Latest
      <3>2. Steady(Latest)'  BY <1>1, <1>2, <3>1 DEF Steady
      <3>3. Told(story, Latest)'  BY <1>1, <1>2, <3>1
      <3>4. Timely(Latest)'  BY <1>1, <1>2, <3>1 DEF Timely, UpToDate, PassUpToDate
      <3> QED  BY <1>i, <3>2, <3>3, <3>4 DEF LatestFollows
    <2> QED  BY <2>5, <2>6
  <1>4. CASE ~x.disposed
    <2> DEFINE q == [step |-> "frames"]
    <2>1. handles' = [handles EXCEPT ![h].pass = q]  BY <1>4 DEF StartRun
    <2>2. h = Len(handles)  BY <1>0, <1>4 DEF OneHandle
    <2>3. q.step = "frames"  OBVIOUS
    <2> HIDE DEF q
    <2>4. Len(handles') = Len(handles) /\ Passing(x, y, q)  BY <1>0, <2>1, PassSet
    <2>5. Latest = x /\ Latest' = y  BY <2>2, <2>4 DEF Latest
    <2>r. IsList(x.runs)  BY <1>0 DEF HandlesOK, HandleOK
    <2> HIDE DEF x, y
    <2>6. Steady(Latest)'  BY <1>1, <1>2, <2>4, <2>5 DEF Steady, Passing
    <2>7. Told(story, Latest)'
      <3>1. InShape(q)  BY <2>3 DEF InShape, Writes
      <3>2. ShowsAll(story', q, x.owned)
        BY <1>1, <1>2, <2>3, <2>5 DEF Told, ShowsAll, Expected, NoPass, Writes
      <3>3. Told(story', y)  BY <1>2, <2>4, <2>5, <3>1, <3>2 DEF Told, Passing
      <3> QED  BY <2>5, <3>3
    <2>8. Timely(Latest)'
      <3>1. Len(x.runs) \in Nat /\ Len(x.runs) >= 1  BY <1>1, <2>r, ListShape
      <3>2. Len(x.runs) > 1 \/ Len(x.runs) = 1
        <4>1. \A n \in Nat : n >= 1 => n > 1 \/ n = 1  OBVIOUS
        <4> QED  BY <3>1, <4>1
      <3>3. Latest'.runs = x.runs /\ Latest'.pass.step = "frames"  BY <2>3, <2>4, <2>5 DEF Passing
      <3>4. Later(Latest)'  BY <3>2, <3>3 DEF Later
      <3> QED  BY <3>4 DEF Timely
    <2> QED  BY <1>i, <2>6, <2>7, <2>8 DEF LatestFollows
  <1> QED  BY <1>3, <1>4

(* A handle that is told of a change, and not otherwise changed. *)
ToldOf(x, y) ==
    /\ y.opts = x.opts /\ y.owned = x.owned /\ y.pass = x.pass /\ y.live = x.live
    /\ (y.disposed <=> x.disposed) /\ y.broken = x.broken

LEMMA LatestTold ==
    ASSUME handles # <<>>, LatestFollows, ToldOf(Latest, Latest'), UNCHANGED <<story, active>>,
           active = 0 => Latest'.runs = Latest.runs /\ (Latest'.timer => Latest.timer),
           active # 0 => \A i \in 1 .. Len(Latest'.runs) : Latest'.runs[i] # "first",
           Timely(Latest)'
    PROVE  LatestFollows'
  <1>1. Steady(Latest) /\ Told(story, Latest)  BY DEF LatestFollows
  <1> DEFINE x == Latest
             y == Latest'
  <1>2. ToldOf(x, y)  OBVIOUS
  <1>a. active = 0 => y.runs = x.runs /\ (y.timer => x.timer)  OBVIOUS
  <1>b. active # 0 => \A i \in 1 .. Len(y.runs) : y.runs[i] # "first"  OBVIOUS
  <1>3. Steady(Latest)'
    <2>1. Steady(x)  BY <1>1
    <2> QED  BY <1>a, <1>b, <1>2, <2>1 DEF Steady, ToldOf
  <1>4. Told(story, Latest)'
    <2>1. Told(story', y)  BY <1>1, <1>2 DEF Told, ToldOf
    <2> QED  BY <2>1
  <1> QED  BY <1>3, <1>4 DEF LatestFollows

(* What the latest handle is, and that the chain has it. *)
LEMMA TheLatest ==
    ASSUME IInv, OneHandle, handles # <<>>
    PROVE  /\ Len(handles) \in 1 .. Len(handles) /\ Latest = handles[Len(handles)] /\ HandleOK(Latest)
           /\ active \in {0, Len(handles)} /\ Len(handles) \in Nat
           /\ DOMAIN Latest = {"opts", "owned", "runs", "pass", "live", "timer", "disposed", "broken"}
  <1>1. IsList(handles)  BY DEF IInv, HandlesOK
  <1>2. Len(handles) \in Nat /\ Len(handles) # 0  BY <1>1, ListShape
  <1>3. Len(handles) \in 1 .. Len(handles)  BY <1>2
  <1>4. HandleOK(Latest)  BY <1>3 DEF IInv, HandlesOK, Latest
  <1>5. DOMAIN Latest = {"opts", "owned", "runs", "pass", "live", "timer", "disposed", "broken"}
    BY <1>4 DEF HandleOK, IsHandle
  <1> QED  BY <1>2, <1>3, <1>4, <1>5 DEF OneHandle, Latest

LEMMA EditFollows ==
    ASSUME IInv, OneHandle, Idle, LatestFollows, lapses' = {}, NEW new, Edit(new)
    PROVE  Idle' /\ LatestFollows'
  <1>1. /\ UNCHANGED <<layout, story, active, waiting, handles>> /\ due' = (due \/ active # 0)
        /\ lapses' = lapses \cup {"missed" : h \in {g \in Handles : InPass(g) /\ FirstRun(g)}}
    BY DEF Edit, host
  <1>i. Idle'  BY <1>1 DEF Idle
  <1>2. CASE handles = <<>>  BY <1>1, <1>i, <1>2 DEF LatestFollows
  <1>3. CASE handles # <<>>
    <2>1. Latest' = Latest  BY <1>1 DEF Latest
    <2>2. Steady(Latest) /\ Told(story, Latest) /\ HandleOK(Latest)
      BY <1>3, TheLatest DEF LatestFollows
    <2>3. Timely(Latest)'
      <3>1. CASE active # 0  BY <1>1, <3>1 DEF Timely
      <3>2. CASE active = 0 /\ Latest.disposed  BY <2>1, <3>2 DEF Timely
      <3>3. CASE active = 0 /\ ~Latest.disposed
        <4>1. Latest.runs = <<"first">>  BY <2>2, <3>3 DEF Steady
        <4>2. Latest.pass = NoPass
          <5>1. Len(handles) \in Handles
            BY <1>3, TheLatest, ListShape DEF Handles, IInv, HandlesOK
          <5>2. ~(InPass(Len(handles)) /\ FirstRun(Len(handles)))  BY <1>1, <5>1
          <5>3. FirstRun(Len(handles))  BY <4>1 DEF FirstRun, Latest
          <5> QED  BY <5>2, <5>3 DEF InPass, Latest
        <4>3. Len(Latest'.runs) = 1 /\ Latest'.pass.step = "none"  BY <2>1, <4>1, <4>2 DEF NoPass
        <4>4. Later(Latest)'  BY <4>3 DEF Later
        <4> QED  BY <4>4 DEF Timely
      <3> QED  BY <3>1, <3>2, <3>3
    <2>4. Steady(Latest)'  BY <1>1, <2>1, <2>2 DEF Steady
    <2>5. Told(story, Latest)'  BY <1>1, <2>1, <2>2
    <2> QED  BY <1>i, <2>3, <2>4, <2>5 DEF LatestFollows
  <1> QED  BY <1>2, <1>3

LEMMA ResizeFollows ==
    ASSUME IInv, OneHandle, Idle, LatestFollows, lapses' = {}, NEW new, Resize(new)
    PROVE  Idle' /\ LatestFollows'
  <1> DEFINE f == [h \in Handles |-> [handles[h] EXCEPT !.timer = handles[h].timer \/ handles[h].live]]
             n == Len(handles)
  <1>1. /\ UNCHANGED <<sheet, story, active, due, waiting>> /\ handles' = f
        /\ lapses' = lapses \cup {"missed" : h \in {g \in Handles : InPass(g) /\ FirstRun(g)}}
    BY DEF Resize, host, session
  <1>i. Idle'  BY <1>1 DEF Idle
  <1>h. IsList(handles) /\ Handles = 1 .. Len(handles)  BY ListShape DEF Handles, IInv, HandlesOK
  <1>l. IsList(f) /\ Len(f) = Len(handles)
    <2>1. f = [h \in 1 .. Len(handles) |-> f[h]]  BY <1>h
    <2> HIDE DEF f
    <2> QED  BY <1>h, <2>1, ListMap
  <1>2. CASE handles = <<>>
    <2>1. handles' = <<>>
      <3> HIDE DEF f
      <3>1. Len(handles) = 0  BY <1>2
      <3> QED  BY <1>1, <1>l, <3>1, ListShape
    <2> QED  BY <1>i, <2>1 DEF LatestFollows
  <1>3. CASE handles # <<>>
    <2>1. /\ n \in 1 .. n /\ HandleOK(Latest) /\ active \in {0, n} /\ Latest = handles[n]
          /\ DOMAIN Latest = {"opts", "owned", "runs", "pass", "live", "timer", "disposed", "broken"}
      BY <1>3, TheLatest
    <2> DEFINE y == [Latest EXCEPT !.timer = Latest.timer \/ Latest.live]
    <2>2. Latest' = y
      <3>1. Latest' = f[n]  BY <1>1, <1>l DEF Latest
      <3>2. f[n] = y  BY <1>h, <2>1
      <3> QED  BY <3>1, <3>2
    <2>3. ToldOf(Latest, y) /\ y.timer = (Latest.timer \/ Latest.live) /\ y.runs = Latest.runs
      BY <2>1 DEF ToldOf
    <2> HIDE DEF y, f, n
    <2>4. Steady(Latest)  BY <1>3 DEF LatestFollows
    <2>5. Timely(Latest)'
      <3>1. CASE active # 0
        <4>1. Latest'.timer  BY <2>2, <2>3, <2>4, <3>1 DEF Steady
        <4> QED  BY <4>1 DEF Timely
      <3>2. CASE Latest.disposed
        <4>1. Latest'.disposed  BY <2>2, <2>3, <3>2 DEF ToldOf
        <4> QED  BY <4>1 DEF Timely
      <3>3. CASE active = 0 /\ ~Latest.disposed
        <4>1. Latest.runs = <<"first">>  BY <2>4, <3>3 DEF Steady
        <4>2. Latest.pass = NoPass
          <5>1. ~(InPass(n) /\ FirstRun(n))  BY <1>1, <1>h, <2>1 DEF n
          <5>2. FirstRun(n)  BY <2>1, <4>1 DEF FirstRun
          <5> QED  BY <2>1, <5>1, <5>2 DEF InPass
        <4>3. y.runs = <<"first">> /\ y.pass = NoPass  BY <2>3, <4>1, <4>2 DEF ToldOf
        <4>4. Len(Latest'.runs) = 1 /\ Latest'.pass.step = "none"  BY <2>2, <4>3 DEF NoPass
        <4>5. Later(Latest)'  BY <4>4 DEF Later
        <4> QED  BY <4>5 DEF Timely
      <3> QED  BY <3>1, <3>2, <3>3
    <2>6. active = 0 => (y.timer => Latest.timer) /\ y.runs = Latest.runs
      BY <2>3, <2>4 DEF Steady
    <2>7. active # 0 => \A i \in 1 .. Len(y.runs) : y.runs[i] # "first"
      BY <2>3, <2>4 DEF Steady
    <2>8. LatestFollows'
      BY <1>1, <1>3, <2>2, <2>3, <2>5, <2>6, <2>7, LatestTold
    <2> QED  BY <1>i, <2>8
  <1> QED  BY <1>2, <1>3

(* Steps that leave the handles as they are, and lose nothing to tell. *)
LEMMA SameHandles ==
    ASSUME Idle, LatestFollows, UNCHANGED <<sheet, layout, story, active, handles>>,
           due \/ waiting > 0 => active = 0 \/ due' \/ waiting' > 0
    PROVE  LatestFollows'
  <1>1. CASE handles = <<>>  BY <1>1 DEF LatestFollows
  <1>2. CASE handles # <<>>
    <2>1. Latest' = Latest  BY DEF Latest
    <2>2. Steady(Latest) /\ Told(story, Latest) /\ Timely(Latest)  BY <1>2 DEF LatestFollows
    <2>3. due \/ waiting > 0 => due' \/ waiting' > 0
      <3>1. CASE active # 0  BY <3>1
      <3>2. CASE active = 0
        <4>1. ~due /\ waiting = 0  BY <3>2 DEF Idle
        <4> QED  BY <4>1
      <3> QED  BY <3>1, <3>2
    <2>4. Steady(Latest)'  BY <2>1, <2>2 DEF Steady
    <2>5. Told(story, Latest)'  BY <2>1, <2>2
    <2>6. Timely(Latest)'  BY <2>1, <2>2, <2>3 DEF Timely, UpToDate, PassUpToDate
    <2> QED  BY <2>4, <2>5, <2>6 DEF LatestFollows
  <1> QED  BY <1>1, <1>2

LEMMA WaitingFollows ==
    ASSUME InputsOK, Idle, LatestFollows, (\E opts \in Options : Ask(opts)) \/ RefreshTimer \/ UNCHANGED vars
    PROVE  Idle' /\ LatestFollows'
  <1>1. CASE (\E opts \in Options : Ask(opts)) \/ UNCHANGED vars
    <2>1. UNCHANGED <<sheet, layout, story, active, due, waiting, handles>>
      BY <1>1 DEF Ask, vars, user, host, session
    <2>2. Idle'  BY <2>1 DEF Idle
    <2> QED  BY <2>1, <2>2, SameHandles
  <1>2. CASE RefreshTimer
    <2>1. /\ UNCHANGED <<sheet, layout, story, active, handles>>
          /\ due /\ due' = FALSE /\ waiting' = waiting + 1
      BY <1>2 DEF RefreshTimer, user, host
    <2>2. active # 0  BY <2>1 DEF Idle
    <2>3. waiting' > 0  BY <2>1 DEF InputsOK
    <2>4. Idle'  BY <2>1, <2>2 DEF Idle
    <2> QED  BY <2>1, <2>3, <2>4, SameHandles
  <1> QED  BY <1>1, <1>2

LEMMA StartRefreshFollows ==
    ASSUME IInv, OneHandle, Idle, LatestFollows, StartRefresh
    PROVE  Idle' /\ LatestFollows'
  <1>1. UNCHANGED <<sheet, layout, story, active, due>> /\ waiting > 0  BY DEF StartRefresh, user, host
  <1>2. active # 0
    <2>1. waiting > 0 => waiting # 0  OBVIOUS
    <2> QED  BY <1>1, <2>1 DEF Idle
  <1>3. handles # <<>>
    <2>1. active \in 0 .. Len(handles) /\ (handles = <<>> => Len(handles) = 0)
      BY DEF IInv, PlacesOK
    <2> QED  BY <1>2, <2>1
  <1>4. /\ active = Len(handles) /\ active \in 1 .. Len(handles) /\ HandleOK(Latest)
        /\ Latest = handles[active]
        /\ DOMAIN Latest = {"opts", "owned", "runs", "pass", "live", "timer", "disposed", "broken"}
    BY <1>2, <1>3, TheLatest
  <1>5. Steady(Latest)  BY <1>3 DEF LatestFollows
  <1> DEFINE y == [Latest EXCEPT !.runs = Append(Latest.runs, "refresh")]
             f == With(handles, active, y)
  <1>6. handles' = f
    <2>1. ~handles[active].broken  BY <1>4, <1>5 DEF Steady
    <2>2. handles' = Requested(active, "refresh")  BY <1>2, <2>1 DEF StartRefresh
    <2>3. Requested(active, "refresh") = f  BY <1>4 DEF Requested, With
    <2> QED  BY <2>2, <2>3
  <1>7. ToldOf(Latest, y) /\ y.runs = Append(Latest.runs, "refresh")  BY <1>4 DEF ToldOf
  <1> HIDE DEF y
  <1>8. Len(f) = Len(handles) /\ f[active] = y
    <2>1. IsList(handles)  BY DEF IInv, HandlesOK
    <2> QED  BY <1>4, <2>1, ListWith
  <1> HIDE DEF f
  <1>9. Latest' = y  BY <1>4, <1>6, <1>8 DEF Latest
  <1>10. Later(y)
    <2>1. y.pass = Latest.pass  BY <1>7 DEF ToldOf
    <2> QED  BY <1>4, <1>7, <2>1, AskedToRun
  <1>11. Timely(Latest)'
    <2>1. Later(Latest)'  BY <1>9, <1>10
    <2> QED  BY <2>1 DEF Timely
  <1>12. \A i \in 1 .. Len(y.runs) : y.runs[i] # "first"
    <2>1. \A i \in 1 .. Len(Latest.runs) : Latest.runs[i] # "first"  BY <1>2, <1>5 DEF Steady
    <2>2. /\ Len(y.runs) = Len(Latest.runs) + 1 /\ y.runs[Len(Latest.runs) + 1] = "refresh"
          /\ Len(Latest.runs) \in Nat
          /\ \A i \in 1 .. Len(Latest.runs) : y.runs[i] = Latest.runs[i]
      BY <1>4, <1>7, ListAppend, ListShape DEF HandleOK
    <2>3. ASSUME NEW i \in 1 .. Len(y.runs) PROVE i \in 1 .. Len(Latest.runs) \/ i = Len(Latest.runs) + 1
      BY <2>2
    <2> QED  BY <2>1, <2>2, <2>3
  <1>13. Idle'  BY <1>1, <1>2 DEF Idle
  <1>14. LatestFollows'  BY <1>1, <1>2, <1>3, <1>7, <1>9, <1>11, <1>12, LatestTold
  <1> QED  BY <1>13, <1>14

LEMMA ReflowTimerFollows ==
    ASSUME IInv, OneHandle, Idle, LatestFollows, NEW h \in 1 .. Len(handles), ReflowTimer(h)
    PROVE  Idle' /\ LatestFollows'
  <1>1. UNCHANGED <<sheet, layout, story, active, due, waiting>> /\ handles[h].timer
    BY DEF ReflowTimer, user, host, session
  <1>2. handles # <<>> /\ IsList(handles)
    <2>1. IsList(handles)  BY DEF IInv, HandlesOK
    <2> QED  BY <2>1, ListShape
  <1>i. Idle'  BY <1>1 DEF Idle
  <1>3. /\ Len(handles) \in 1 .. Len(handles) /\ HandleOK(Latest) /\ Latest = handles[Len(handles)]
        /\ DOMAIN Latest = {"opts", "owned", "runs", "pass", "live", "timer", "disposed", "broken"}
    BY <1>2, TheLatest
  <1>4. Steady(Latest) /\ Timely(Latest)  BY <1>2 DEF LatestFollows
  <1> DEFINE runs == IF handles[h].broken THEN handles[h].runs ELSE Append(handles[h].runs, "reflow")
             y == [handles[h] EXCEPT !.runs = runs, !.timer = FALSE]
             f == With(handles, h, y)
  <1>5. handles' = f  BY DEF ReflowTimer, With
  <1>6. Len(f) = Len(handles) /\ f[h] = y /\ \A g \in 1 .. Len(handles) : g # h => f[g] = handles[g]
    BY <1>2, ListWith
  <1>7. CASE h # Len(handles)
    <2>1. Latest' = Latest
      <3> HIDE DEF f
      <3> QED  BY <1>3, <1>5, <1>6, <1>7 DEF Latest
    <2>2. Told(story, Latest)  BY <1>2 DEF LatestFollows
    <2>3. Steady(Latest)'  BY <1>1, <1>4, <2>1 DEF Steady
    <2>4. Told(story, Latest)'  BY <1>1, <2>1, <2>2
    <2>5. Timely(Latest)'  BY <1>1, <1>4, <2>1 DEF Timely, UpToDate, PassUpToDate
    <2> QED  BY <1>i, <2>3, <2>4, <2>5 DEF LatestFollows
  <1>8. CASE h = Len(handles)
    <2>1. Latest = handles[h]  BY <1>3, <1>8
    <2>2. runs = Append(Latest.runs, "reflow")  BY <1>4, <2>1 DEF Steady
    <2>3. y = [Latest EXCEPT !.runs = runs, !.timer = FALSE]  BY <2>1
    <2>4. Latest' = y
      <3> HIDE DEF f, y
      <3> QED  BY <1>5, <1>6, <1>8 DEF Latest
    <2> HIDE DEF y, f, runs
    <2>5. ToldOf(Latest, y) /\ y.runs = runs /\ y.timer = FALSE
      <3>1. DOMAIN Latest = {"opts", "owned", "runs", "pass", "live", "timer", "disposed", "broken"}
        BY <1>3
      <3>2. y.runs = runs /\ y.timer = FALSE  BY <2>3, <3>1
      <3>3. y.opts = Latest.opts /\ y.owned = Latest.owned /\ y.pass = Latest.pass  BY <2>3, <3>1
      <3>4. y.live = Latest.live /\ y.disposed = Latest.disposed /\ y.broken = Latest.broken
        BY <2>3, <3>1
      <3> QED  BY <3>2, <3>3, <3>4 DEF ToldOf
    <2>6. Later(y)
      <3>1. y.pass = Latest.pass  BY <2>5 DEF ToldOf
      <3> QED  BY <1>3, <2>2, <2>5, <3>1, AskedToRun
    <2>7. Timely(Latest)'
      <3>1. Later(Latest)'  BY <2>4, <2>6
      <3> QED  BY <3>1 DEF Timely
    <2>8. active # 0  BY <1>1, <1>4, <2>1 DEF Steady
    <2>9. \A i \in 1 .. Len(y.runs) : y.runs[i] # "first"
      <3>1. \A i \in 1 .. Len(Latest.runs) : Latest.runs[i] # "first"  BY <1>4, <2>8 DEF Steady
      <3>2. /\ Len(y.runs) = Len(Latest.runs) + 1 /\ y.runs[Len(Latest.runs) + 1] = "reflow"
            /\ Len(Latest.runs) \in Nat
            /\ \A i \in 1 .. Len(Latest.runs) : y.runs[i] = Latest.runs[i]
        BY <1>3, <2>2, <2>5, ListAppend, ListShape DEF HandleOK
      <3>3. ASSUME NEW i \in 1 .. Len(y.runs) PROVE i \in 1 .. Len(Latest.runs) \/ i = Len(Latest.runs) + 1
        BY <3>2
      <3> QED  BY <3>1, <3>2, <3>3
    <2>10. LatestFollows'  BY <1>1, <1>2, <2>4, <2>5, <2>7, <2>8, <2>9, LatestTold
    <2> QED  BY <1>i, <2>10
  <1> QED  BY <1>7, <1>8

LEMMA PlaceFollows ==
    ASSUME IInv, OneHandle, HandlesOK', OneHandle', InputsOK, Idle, LatestFollows, lapses' = {},
           NEW k \in DOMAIN asked, Place(k)
    PROVE  Idle' /\ LatestFollows'
  <1>1. /\ UNCHANGED <<sheet, layout, story, due, waiting>>
        /\ lapses' = lapses \cup {"crossed" : h \in {g \in Handles : InPass(g) \/ FirstRun(g)}}
    BY DEF Place, user, host
  <1>0. IsList(handles) /\ Len(handles) \in Nat /\ Handles = 1 .. Len(handles)
    BY ListShape DEF Handles, IInv, HandlesOK
  <1>p. \A g \in 1 .. Len(handles) : handles[g].pass = NoPass
    BY <1>0, <1>1 DEF InPass
  <1>o. asked[k].header \in Nat
    <2>1. asked[k] \in Options  BY DEF InputsOK
    <2> QED  BY <2>1, OptionsAssumption
  <1>2. CASE active = 0
    <2> DEFINE x == NewHandle(asked[k], <<>>, "first")
    <2>1. handles' = Append(handles, x) /\ active' = 0  BY <1>2 DEF Place
    <2>2. /\ x.opts = asked[k] /\ x.owned = <<>> /\ x.runs = <<"first">> /\ x.pass = NoPass
          /\ x.live = FALSE /\ x.timer = FALSE /\ x.disposed = FALSE /\ x.broken = FALSE
      BY DEF NewHandle
    <2> HIDE DEF x
    <2>3. Latest' = x /\ handles' # <<>>  BY <1>0, <2>1, ListAppend DEF Latest
    <2>4. Steady(Latest)'  BY <1>o, <2>1, <2>2, <2>3 DEF Steady
    <2>5. Told(story, Latest)'
      <3>1. Underway(story', x.pass, x.owned)  BY <2>3 DEF OneHandle, Latest
      <3>2. Len(story') = 0  BY <2>2, <3>1 DEF Underway, NoPass, Same, Begins
      <3>3. ShowsAll(story', x.pass, x.owned)  BY <3>2 DEF ShowsAll
      <3>4. TablesSound(x.owned) /\ InShape(x.pass)
        <4>1. Len(x.owned) = 0  BY <2>2
        <4> QED  BY <2>2, <4>1 DEF TablesSound, InShape, NoPass, Writes
      <3>5. Told(story', x)  BY <3>3, <3>4 DEF Told
      <3> QED  BY <2>3, <3>5
    <2>6. Timely(Latest)'
      <3>0. Len(<<"first">>) = 1 /\ NoPass.step = "none"  BY DEF NoPass
      <3>1. Len(Latest'.runs) = 1 /\ Latest'.pass.step = "none"  BY <2>2, <2>3, <3>0
      <3>2. Later(Latest)'  BY <3>1 DEF Later
      <3> QED  BY <3>2 DEF Timely
    <2>7. Idle'  BY <1>1, <1>2, <2>1 DEF Idle
    <2> QED  BY <2>4, <2>5, <2>6, <2>7 DEF LatestFollows
  <1>3. CASE active # 0
    <2> DEFINE old == handles[active]
               s == With(handles, active, Replace(active))
               x == NewHandle(asked[k], old.owned, "again")
    <2>1. active \in 1 .. Len(handles) /\ active = Len(handles) /\ handles # <<>>
      <3>1. active \in 0 .. Len(handles)  BY DEF IInv, PlacesOK
      <3>2. active \in 1 .. Len(handles)  BY <1>0, <1>3, <3>1
      <3> QED  BY <1>0, <1>3, <3>2, ListShape DEF OneHandle
    <2>2. handles' = Append(s, x) /\ active' = Len(handles) + 1  BY <1>3 DEF Place, With
    <2>3. /\ x.opts = asked[k] /\ x.owned = old.owned /\ x.runs = <<"again">> /\ x.pass = NoPass
          /\ x.live = TRUE /\ x.timer = FALSE /\ x.disposed = FALSE /\ x.broken = FALSE
      BY DEF NewHandle
    <2> HIDE DEF x
    <2>4. IsList(s)  BY <1>0, <2>1, ListWith
    <2> HIDE DEF s
    <2>5. Latest' = x /\ handles' # <<>>  BY <2>2, <2>4, ListAppend DEF Latest
    <2>6. Latest = old /\ Told(story, old) /\ old.pass = NoPass
      BY <1>p, <2>1 DEF Latest, LatestFollows
    <2> HIDE DEF old
    <2>7. active' # 0  BY <1>0, <2>2
    <2>8. Steady(Latest)'
      <3>1. \A i \in 1 .. Len(x.runs) : x.runs[i] # "first"
        <4>1. Len(<<"again">>) = 1 /\ <<"again">>[1] = "again"  OBVIOUS
        <4> QED  BY <2>3, <4>1
      <3> QED  BY <1>o, <2>3, <2>5, <2>7, <3>1 DEF Steady
    <2>9. Told(story, Latest)'
      <3>1. Told(story', x)  BY <1>1, <2>3, <2>6 DEF Told
      <3> QED  BY <2>5, <3>1
    <2>10. Timely(Latest)'
      <3>0. Len(<<"again">>) = 1 /\ NoPass.step = "none"  BY DEF NoPass
      <3>1. Len(Latest'.runs) = 1 /\ Latest'.pass.step = "none"  BY <2>3, <2>5, <3>0
      <3>2. Later(Latest)'  BY <3>1 DEF Later
      <3> QED  BY <3>2 DEF Timely
    <2>11. Idle'  BY <2>7 DEF Idle
    <2> QED  BY <2>8, <2>9, <2>10, <2>11 DEF LatestFollows
  <1> QED  BY <1>2, <1>3

-----------------------------------------------------------------------------
(* The tables show the range *)

LEMMA InitFollows == Init => Follows
  BY DEF Init, Follows, Idle, LatestFollows

LEMMA LapsesGrow == [Next]_vars => lapses \subseteq lapses'
  <1> SUFFICES ASSUME [Next]_vars PROVE lapses \subseteq lapses'  OBVIOUS
  <1>1. CASE \/ \E new \in Sheets : Edit(new)
             \/ \E new \in Layouts : Resize(new)
             \/ \E opts \in Options : Ask(opts)
             \/ \E k \in DOMAIN asked : Place(k)
             \/ RefreshTimer \/ StartRefresh \/ Rest \/ UNCHANGED vars
    BY <1>1 DEF Edit, Resize, Ask, Place, RefreshTimer, StartRefresh, Rest, vars
  <1>2. ASSUME NEW h, ReflowTimer(h) \/ StartRun(h) \/ Refuse(h) \/ Throw(h)
        PROVE  lapses \subseteq lapses'
    BY <1>2 DEF ReflowTimer, StartRun, Refuse, Throw, Fault
  <1>3. \A h, x : Goes(h, x) \/ Ended(h, x) => lapses \subseteq lapses'  BY DEF Goes, Ended
  <1>4. ASSUME NEW h, \/ ReadFrames(h) \/ Paginate(h) \/ RefreshPage(h) \/ InsertPage(h) \/ PourPage(h)
                      \/ EndPages(h) \/ EmptySpare(h)
        PROVE  lapses \subseteq lapses'
    <2>1. CASE ReadFrames(h) \/ EndPages(h) \/ EmptySpare(h)
      BY <1>3, <2>1 DEF ReadFrames, EndPages, EmptySpare
    <2>2. CASE Paginate(h)  BY <1>3, <2>2 DEF Paginate
    <2>3. CASE RefreshPage(h)  BY <1>3, <2>3 DEF RefreshPage
    <2>4. CASE InsertPage(h)  BY <1>3, <2>4 DEF InsertPage
    <2>5. CASE PourPage(h)  BY <1>3, <2>5 DEF PourPage
    <2> QED  BY <1>4, <2>1, <2>2, <2>3, <2>4, <2>5
  <1> QED  BY <1>1, <1>2, <1>4 DEF Next, RunStep

LEMMA NextFollows == IInv /\ IInv' /\ InputsOK /\ Follows /\ [Next]_vars => Follows'
  <1> SUFFICES ASSUME IInv, IInv', InputsOK, Follows, [Next]_vars, lapses' = {}
               PROVE  Idle' /\ LatestFollows'
    BY DEF Follows
  <1>1. lapses = {}
    <2>1. lapses \subseteq lapses'  BY LapsesGrow
    <2> QED  BY <2>1
  <1>2. OneHandle /\ OneHandle' /\ HandlesOK' /\ Idle /\ LatestFollows
    <2>1. {} \cap {"crossed", "threw"} = {}  OBVIOUS
    <2> QED  BY <1>1, <2>1 DEF IInv, Orderly, Follows
  <1>3. Handles = 1 .. Len(handles)  BY ListShape DEF Handles, IInv, HandlesOK
  <1>4. ASSUME NEW h \in 1 .. Len(handles), ReflowTimer(h) \/ RunStep(h) \/ Refuse(h) \/ Throw(h)
        PROVE  Idle' /\ LatestFollows'
    <2>1. CASE ReflowTimer(h)  BY <1>2, <2>1, ReflowTimerFollows
    <2>2. CASE Refuse(h) \/ Throw(h)
      <3>1. \E kind : lapses' = lapses \cup {kind}  BY <2>2 DEF Refuse, Throw, Fault
      <3> QED  BY <3>1
    <2>3. CASE StartRun(h)  BY <1>2, <2>3, StartRunFollows
    <2>4. CASE ReadFrames(h)  BY <1>2, <2>4, ReadFramesFollows
    <2>5. CASE Paginate(h)  BY <1>2, <2>5, PaginateFollows DEF InputsOK
    <2>6. CASE RefreshPage(h)  BY <1>2, <2>6, RefreshPageFollows
    <2>7. CASE InsertPage(h)  BY <1>2, <2>7, InsertPageFollows
    <2>8. CASE PourPage(h)  BY <1>2, <2>8, PourPageFollows
    <2>9. CASE EndPages(h)  BY <1>2, <2>9, EndPagesFollows
    <2>10. CASE EmptySpare(h)  BY <1>2, <2>10, EmptySpareFollows
    <2> QED  BY <1>4, <2>1, <2>2, <2>3, <2>4, <2>5, <2>6, <2>7, <2>8, <2>9, <2>10 DEF RunStep
  <1>5. CASE \E new \in Sheets : Edit(new)  BY <1>2, <1>5, EditFollows
  <1>6. CASE \E new \in Layouts : Resize(new)  BY <1>2, <1>6, ResizeFollows
  <1>7. CASE (\E opts \in Options : Ask(opts)) \/ RefreshTimer \/ Rest \/ UNCHANGED vars
    BY <1>2, <1>7, WaitingFollows DEF Rest
  <1>8. CASE \E k \in DOMAIN asked : Place(k)  BY <1>2, <1>8, PlaceFollows
  <1>9. CASE StartRefresh  BY <1>2, <1>9, StartRefreshFollows
  <1> QED  BY <1>3, <1>4, <1>5, <1>6, <1>7, <1>8, <1>9 DEF Next

LEMMA FollowsShows == IInv /\ InputsOK /\ Follows => ShowsRange
  <1> SUFFICES ASSUME IInv, InputsOK, Follows, Settled, active # 0, lapses = {}, layout # <<>>
               PROVE  Shown
    BY DEF ShowsRange, Shown
  <1> DEFINE x == handles[active]
             o == x.owned
             opts == x.opts
             pages == Pages(sheet, layout, opts)
             contents == ContentsOf(sheet, layout, opts)
  <1>1. OneHandle
    <2>1. {} \cap {"crossed", "threw"} = {}  OBVIOUS
    <2> QED  BY <2>1 DEF IInv, Orderly
  <1>2. handles # <<>>
    <2>1. active \in 0 .. Len(handles) /\ (handles = <<>> => Len(handles) = 0)
      BY DEF IInv, PlacesOK
    <2> QED  BY <2>1
  <1>3. /\ active = Len(handles) /\ active \in 1 .. Len(handles) /\ HandleOK(x) /\ Latest = x
        /\ active \in Handles
    BY <1>1, <1>2, TheLatest, ListShape DEF IInv, HandlesOK, Handles
  <1>4. Steady(x) /\ Told(story, x) /\ Timely(x)  BY <1>2, <1>3 DEF Follows, LatestFollows
  <1>5. x.runs = <<>> /\ ~x.timer /\ ~due /\ waiting = 0  BY <1>3 DEF Settled, Quiet
  <1>6. x.pass = NoPass  BY <1>3, <1>5 DEF HandleOK
  <1>u. Underway(story, x.pass, o)  BY <1>1, <1>2, <1>3 DEF OneHandle
  <1>c. /\ IsList(pages) /\ Len(contents) = Len(pages)
        /\ \A k \in 1 .. Len(pages) : contents[k] = pages[k].content
    <2>1. layout \in Seq(Nat) /\ IsList(sheet.rows)  BY DEF IInv, PlacesOK, InputsOK
    <2>2. opts.header \in Nat  BY <1>4 DEF Steady
    <2> HIDE DEF opts
    <2> QED  BY <2>1, <2>2, PagesAreContents
  <1> HIDE DEF x
  <1>7. Same(story, o)  BY <1>6, <1>u DEF Underway, NoPass
  <1>8. Fits(o, contents)
    <2>1. ~x.disposed  BY <1>4 DEF Steady
    <2>2. ~Later(x)
      <3>1. Len(x.runs) = 0  BY <1>5
      <3> QED  BY <3>1 DEF Later
    <2>3. ~(waiting > 0)  BY <1>5
    <2>4. UpToDate(x)  BY <1>4, <1>5, <2>1, <2>2, <2>3 DEF Timely
    <2> QED  BY <1>6, <2>4 DEF UpToDate, NoPass, Writes
  <1>9. ShowsAll(story, NoPass, o)  BY <1>4, <1>6 DEF Told
  <1>10. DOMAIN story = 1 .. Len(story) /\ DOMAIN pages = 1 .. Len(pages) /\ Len(story) = Len(o)
         /\ Len(pages) \in Nat
    BY <1>7, <1>c, ListShape DEF Same, Begins, IInv, StoryOK
  <1> HIDE DEF pages, contents, o
  <1>11. ASSUME NEW t \in DOMAIN story
         PROVE  story[t].shows = IF t \in DOMAIN pages THEN pages[t].content ELSE Blank
    <2>1. story[t].shows = o[t].shows  BY <1>9, <1>10 DEF ShowsAll, Expected, NoPass, Writes
    <2>2. o[t].shows = PageAt(contents, t)  BY <1>8, <1>10 DEF Fits
    <2>3. t \in DOMAIN pages <=> t <= Len(contents)  BY <1>10, <1>c
    <2> QED  BY <1>10, <1>c, <2>1, <2>2, <2>3 DEF PageAt
  <1>12. [t \in DOMAIN story |-> story[t].shows] =
             [t \in DOMAIN story |-> IF t \in DOMAIN pages THEN pages[t].content ELSE Blank]
    BY <1>11
  <1>13. Len(pages) <= Len(story)  BY <1>8, <1>10, <1>c DEF Fits
  <1> QED  BY <1>12, <1>13 DEF Shown, pages, opts, x

(***************************************************************************)
(* A chain that comes to rest shows the range as it is, over the frames as *)
(* they are, whatever is edited, resized or asked for again, and in        *)
(* whatever order the timers, the runs and the calls of a pass come:       *)
(* unless a write was refused or threw, the chain was asked for again      *)
(* during a pass, or an edit fell into the first pagination.               *)
(* (subscribeChainReflow, refreshPlacements, applyTableRefresh)            *)
(***************************************************************************)
THEOREM ShowsRangeCorrect == Spec => []ShowsRange
  <1>1. Spec => []IInv  BY InitIInv, NextIInv, PTL DEF Spec
  <1>2. Spec => []InputsOK  BY InitInputs, NextInputs, PTL DEF Spec
  <1>3. Spec => []Follows  BY <1>1, <1>2, InitFollows, NextFollows, PTL DEF Spec
  <1> QED  BY <1>1, <1>2, <1>3, FollowsShows, PTL
=============================================================================
