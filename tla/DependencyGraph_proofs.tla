----------------------- MODULE DependencyGraph_proofs -----------------------
(***************************************************************************)
(* For a tree of any depth, any boxes, formulas and names and any history  *)
(* of edits: the graph is what a rebuild would make, its edges are what    *)
(* the formulas read, and a stab meets each box that holds the cell once.  *)
(*                                                                         *)
(* Inv says that the graph is Canon of the workbook: each map is the index *)
(* of what the formulas read, each lane has the tree of its boxes (TreeOf, *)
(* with its counts).  To insert or to remove a box is to go from the tree  *)
(* of some boxes to that of one more or one fewer, whatever the order, so  *)
(* that the folds of register, unregister and rebuild lead to Canon too.   *)
(* That a tree answers a probe rests on the climb: over every row a box    *)
(* takes one node when it holds the row, and none otherwise (TakesOnce,    *)
(* TakesSome).                                                             *)
(***************************************************************************)
EXTENDS DependencyGraph, FiniteSetTheorems, WellFoundedInduction, TLAPS

-----------------------------------------------------------------------------
(* Numbers                                                                 *)

Less == {p \in Nat \X Nat : p[1] < p[2]}

LEMMA LessWellFounded == IsWellFoundedOn(Less, Nat)
  <1>1. Less = OpToRel(<, Nat)  BY Zenon DEF Less, OpToRel
  <1> QED  BY <1>1, NatLessThanWellFounded, Zenon

LEMMA LeastNatural ==
    ASSUME NEW S \in SUBSET Nat, S # {}
    PROVE  \E n \in S : \A m \in S : n <= m
  <1>1. PICK x \in S : \A y \in S : ~(<<y, x>> \in Less)
    BY LessWellFounded, WFMin, Zenon
  <1>2. \A y \in S : ~(y < x)  BY <1>1 DEF Less
  <1> QED  BY <1>2

(* A value and those made of it by n steps of G.                           *)
IsOrbit(f, G, v, n) == f = [k \in 0 .. n |-> IF k = 0 THEN v ELSE G[f[k - 1]]]
HasOrbit(G, v, n) == \E f : IsOrbit(f, G, v, n)

LEMMA OrbitStep ==
    ASSUME NEW f, NEW G, NEW v, NEW n \in Nat, IsOrbit(f, G, v, n)
    PROVE  HasOrbit(G, v, n + 1)
  <1> DEFINE g == [k \in 0 .. n + 1 |-> IF k = 0 THEN v ELSE G[f[k - 1]]]
  <1>1. \A k \in 0 .. n : f[k] = IF k = 0 THEN v ELSE G[f[k - 1]]  BY DEF IsOrbit
  <1>2. \A k \in 0 .. n : g[k] = f[k]  BY <1>1
  <1>3. ASSUME NEW k \in 0 .. n + 1 PROVE g[k] = IF k = 0 THEN v ELSE G[g[k - 1]]
    <2>1. CASE k = 0  BY <2>1
    <2>2. CASE k # 0
      <3>1. k - 1 \in 0 .. n  BY <2>2
      <3>2. g[k - 1] = f[k - 1]  BY <1>2, <3>1
      <3> QED  BY <2>2, <3>2
    <2> QED  BY <2>1, <2>2
  <1>4. g = [k \in 0 .. n + 1 |-> g[k]]  OBVIOUS
  <1> HIDE DEF g
  <1>5. IsOrbit(g, G, v, n + 1)  BY <1>3, <1>4 DEF IsOrbit
  <1> QED  BY <1>5 DEF HasOrbit

LEMMA Orbits ==
    ASSUME NEW G, NEW v, NEW n \in Nat
    PROVE  HasOrbit(G, v, n)
  <1> DEFINE Stuck == {m \in Nat : ~HasOrbit(G, v, m)}
  <1> SUFFICES ASSUME Stuck # {} PROVE FALSE  OBVIOUS
  <1>1. PICK m \in Stuck : \A i \in Stuck : m <= i  BY LeastNatural
  <1>2. m # 0
    <2> DEFINE f == [k \in 0 .. 0 |-> v]
    <2>1. f = [k \in 0 .. 0 |-> IF k = 0 THEN v ELSE G[f[k - 1]]]  OBVIOUS
    <2> HIDE DEF f
    <2>2. HasOrbit(G, v, 0)  BY <2>1 DEF HasOrbit, IsOrbit
    <2> QED  BY <1>1, <2>2
  <1>3. m - 1 \in Nat /\ m - 1 \notin Stuck /\ (m - 1) + 1 = m  BY <1>1, <1>2
  <1>4. PICK f : IsOrbit(f, G, v, m - 1)  BY <1>3 DEF HasOrbit
  <1>5. HasOrbit(G, v, (m - 1) + 1)  BY <1>3, <1>4, OrbitStep
  <1> QED  BY <1>1, <1>3, <1>5

-----------------------------------------------------------------------------
(* Powers of two                                                           *)

LEMMA PowerIs ==
    /\ Power[0] = 1
    /\ \A k \in 1 .. Depth + 1 : Power[k] = 2 * Power[k - 1]
  <1> DEFINE G == [x \in Int |-> 2 * x]
             Solves(f) == f = [k \in 0 .. Depth + 1 |-> IF k = 0 THEN 1 ELSE 2 * f[k - 1]]
             top == Depth + 1
  <1>0. Depth \in Nat  BY TreeAssumption
  <1>1. PICK f : IsOrbit(f, G, 1, top)  BY <1>0, Orbits DEF HasOrbit
  <1>2. \A k \in 0 .. top : f[k] = IF k = 0 THEN 1 ELSE G[f[k - 1]]  BY <1>1 DEF IsOrbit
  <1>3. \A k \in 0 .. top : f[k] \in Int
    <2> DEFINE Bad == {k \in 0 .. top : f[k] \notin Int}
    <2> SUFFICES ASSUME Bad # {} PROVE FALSE  OBVIOUS
    <2>1. Bad \in SUBSET Nat  BY <1>0
    <2>2. PICK k \in Bad : \A i \in Bad : k <= i  BY <2>1, LeastNatural
    <2>3. k # 0
      <3>0. 0 \in 0 .. top  BY <1>0
      <3>1. f[0] = 1  BY <1>2, <3>0
      <3> QED  BY <2>2, <3>1
    <2>4. k - 1 \in 0 .. top /\ k - 1 \notin Bad  BY <1>0, <2>2, <2>3
    <2>5. f[k] = 2 * f[k - 1]  BY <1>2, <2>2, <2>3, <2>4
    <2> QED  BY <2>2, <2>4, <2>5
  <1>4. \A k \in 0 .. top : f[k] = IF k = 0 THEN 1 ELSE 2 * f[k - 1]
    <2> SUFFICES ASSUME NEW k \in 0 .. top PROVE f[k] = IF k = 0 THEN 1 ELSE 2 * f[k - 1]  OBVIOUS
    <2>1. CASE k = 0  BY <1>2, <2>1
    <2>2. CASE k # 0
      <3>1. k - 1 \in 0 .. top  BY <1>0, <2>2
      <3> QED  BY <1>2, <1>3, <2>2, <3>1
    <2> QED  BY <2>1, <2>2
  <1>5. f = [k \in 0 .. top |-> f[k]]  BY <1>1 DEF IsOrbit
  <1>6. \E g : Solves(g)  BY <1>4, <1>5
  <1>7. Power = CHOOSE g : Solves(g)  BY DEF Power
  <1> HIDE DEF Solves
  <1>8. Solves(Power)  BY <1>6, <1>7
  <1> USE DEF Solves
  <1>9. \A k \in 0 .. Depth + 1 : Power[k] = IF k = 0 THEN 1 ELSE 2 * Power[k - 1]  BY <1>8, Zenon
  <1> QED  BY <1>0, <1>9

LEMMA PowerType == \A k \in 0 .. Depth + 1 : Power[k] \in Nat \ {0}
  <1> DEFINE Bad == {k \in 0 .. Depth + 1 : Power[k] \notin Nat \ {0}}
  <1> SUFFICES ASSUME Bad # {} PROVE FALSE  OBVIOUS
  <1>0. Depth \in Nat /\ Bad \in SUBSET Nat  BY TreeAssumption
  <1>1. PICK k \in Bad : \A i \in Bad : k <= i  BY <1>0, LeastNatural
  <1>2. k # 0  BY <1>1, PowerIs
  <1>3. k \in 1 .. Depth + 1 /\ k - 1 \in 0 .. Depth + 1 /\ k - 1 \notin Bad  BY <1>0, <1>1, <1>2
  <1>4. Power[k] = 2 * Power[k - 1]  BY <1>3, PowerIs
  <1> QED  BY <1>1, <1>3, <1>4

LEMMA PowerGrows ==
    ASSUME NEW j \in 0 .. Depth + 1, NEW k \in 0 .. Depth + 1, j <= k
    PROVE  Power[j] <= Power[k]
  <1> DEFINE Bad == {i \in 0 .. Depth + 1 : j <= i /\ ~(Power[j] <= Power[i])}
  <1> SUFFICES ASSUME Bad # {} PROVE FALSE  OBVIOUS
  <1>0. Depth \in Nat /\ Bad \in SUBSET Nat  BY TreeAssumption
  <1>1. PICK i \in Bad : \A m \in Bad : i <= m  BY <1>0, LeastNatural
  <1>2. i # j  BY <1>1, PowerType
  <1>3. i \in 1 .. Depth + 1 /\ i - 1 \in 0 .. Depth + 1 /\ j <= i - 1 /\ i - 1 \notin Bad  BY <1>0, <1>1, <1>2
  <1>4. Power[i] = 2 * Power[i - 1]  BY <1>3, PowerIs
  <1>5. Power[j] <= Power[i - 1]  BY <1>3
  <1>6. Power[j] \in Nat /\ Power[i - 1] \in Nat /\ Power[i] \in Nat  BY <1>3, PowerType
  <1> QED  BY <1>1, <1>4, <1>5, <1>6

(* A number lies between two powers at one level.                          *)
LEMMA LevelIs ==
    ASSUME NEW k \in Levels, NEW n \in Nat, Power[k] <= n, n < Power[k + 1]
    PROVE  LevelOf(n) = k
  <1>0. Depth \in Nat  BY TreeAssumption
  <1>1. \A j \in 0 .. Depth + 1 : Power[j] \in Nat  BY PowerType
  <1>2. ASSUME NEW j \in Levels, n \in Power[j] .. Power[j + 1] - 1 PROVE j = k
    <2>1. j + 1 \in 0 .. Depth + 1 /\ k + 1 \in 0 .. Depth + 1 /\ j \in 0 .. Depth + 1 /\ k \in 0 .. Depth + 1
      BY <1>0 DEF Levels
    <2>2. Power[j] <= n /\ n < Power[j + 1]  BY <1>1, <1>2, <2>1
    <2>3. CASE j < k
      <3>1. Power[j + 1] <= Power[k]  BY <2>1, <2>3, PowerGrows DEF Levels
      <3> QED  BY <1>1, <2>1, <2>2, <3>1
    <2>4. CASE k < j
      <3>1. Power[k + 1] <= Power[j]  BY <2>1, <2>4, PowerGrows DEF Levels
      <3> QED  BY <1>1, <2>1, <2>2, <3>1
    <2> QED  BY <1>0, <2>3, <2>4 DEF Levels
  <1>3. n \in Power[k] .. Power[k + 1] - 1
    <2>1. k \in 0 .. Depth + 1 /\ k + 1 \in 0 .. Depth + 1  BY <1>0 DEF Levels
    <2>2. Power[k] \in Nat /\ Power[k + 1] \in Nat  BY <1>1, <2>1
    <2> QED  BY <2>2
  <1> QED  BY <1>2, <1>3, Zenon DEF LevelOf

-----------------------------------------------------------------------------
(* The climb of a box                                                      *)

LEMMA LeavesAre == Leaves \in Nat \ {0} /\ Power[Depth + 1] = 2 * Leaves
  <1>0. Depth \in Nat  BY TreeAssumption
  <1>1. Depth + 1 \in 1 .. Depth + 1 /\ (Depth + 1) - 1 = Depth /\ Depth \in 0 .. Depth + 1  BY <1>0
  <1> QED  BY <1>1, PowerIs, PowerType DEF Leaves

LEMMA ClimbIs ==
    ASSUME NEW box, IsBox(box)
    PROVE  /\ Climb(box)[0] = <<Leaves + box.top, Leaves + box.bottom + 1>>
           /\ \A d \in 1 .. Depth :
                Climb(box)[d] = <<(Climb(box)[d - 1][1] + 1) \div 2, Climb(box)[d - 1][2] \div 2>>
  <1> DEFINE start == <<Leaves + box.top, Leaves + box.bottom + 1>>
             V == Int \X Int
             G == [e \in V |-> <<(e[1] + 1) \div 2, e[2] \div 2>>]
             Solves(f) == f = [d \in Levels |-> IF d = 0 THEN start
                                               ELSE <<(f[d - 1][1] + 1) \div 2, f[d - 1][2] \div 2>>]
  <1>0. Depth \in Nat /\ Levels = 0 .. Depth  BY TreeAssumption DEF Levels
  <1>s. start \in V
    <2>1. Leaves \in Nat  BY <1>0, PowerType DEF Leaves
    <2>2. box.top \in Int /\ box.bottom \in Int  BY <2>1 DEF IsBox
    <2> QED  BY <2>1, <2>2
  <1>g. \A e \in V : G[e] = <<(e[1] + 1) \div 2, e[2] \div 2>> /\ G[e] \in V  OBVIOUS
  <1> HIDE DEF start
  <1>1. PICK f : IsOrbit(f, G, start, Depth)  BY <1>0, Orbits DEF HasOrbit
  <1>2. \A k \in 0 .. Depth : f[k] = IF k = 0 THEN start ELSE G[f[k - 1]]  BY <1>1 DEF IsOrbit
  <1> HIDE DEF V, G
  <1>3. \A k \in 0 .. Depth : f[k] \in V
    <2> DEFINE Bad == {k \in 0 .. Depth : f[k] \notin V}
    <2> SUFFICES ASSUME Bad # {} PROVE FALSE  OBVIOUS
    <2>1. Bad \in SUBSET Nat  BY <1>0
    <2>2. PICK k \in Bad : \A i \in Bad : k <= i  BY <2>1, LeastNatural
    <2>3. k # 0
      <3>1. f[0] = start  BY <1>0, <1>2
      <3> QED  BY <1>s, <2>2, <3>1
    <2>4. k - 1 \in 0 .. Depth /\ k - 1 \notin Bad  BY <1>0, <2>2, <2>3
    <2>5. f[k] = G[f[k - 1]]  BY <1>2, <2>2, <2>3
    <2> QED  BY <1>g, <2>2, <2>4, <2>5
  <1>4. \A k \in Levels : f[k] = IF k = 0 THEN start ELSE <<(f[k - 1][1] + 1) \div 2, f[k - 1][2] \div 2>>
    <2> SUFFICES ASSUME NEW k \in 0 .. Depth
                 PROVE f[k] = IF k = 0 THEN start ELSE <<(f[k - 1][1] + 1) \div 2, f[k - 1][2] \div 2>>
      BY <1>0
    <2>1. CASE k = 0  BY <1>2, <2>1
    <2>2. CASE k # 0
      <3>1. k - 1 \in 0 .. Depth  BY <1>0, <2>2
      <3>2. f[k] = G[f[k - 1]] /\ f[k - 1] \in V  BY <1>2, <1>3, <2>2, <3>1
      <3> QED  BY <1>g, <2>2, <3>2
    <2> QED  BY <2>1, <2>2
  <1>5. f = [k \in Levels |-> f[k]]  BY <1>0, <1>1 DEF IsOrbit
  <1>6. \E g : Solves(g)  BY <1>4, <1>5
  <1>7. Climb(box) = CHOOSE g : Solves(g)  BY DEF Climb, start
  <1> HIDE DEF Solves
  <1>8. Solves(Climb(box))  BY <1>6, <1>7
  <1> USE DEF Solves
  <1>9. \A d \in Levels : Climb(box)[d] =
           IF d = 0 THEN start ELSE <<(Climb(box)[d - 1][1] + 1) \div 2, Climb(box)[d - 1][2] \div 2>>
    BY <1>8, Zenon
  <1> HIDE DEF Solves
  <1>10. Climb(box)[0] = start
    <2>1. 0 \in Levels  BY <1>0
    <2> QED  BY <1>9, <2>1
  <1>11. ASSUME NEW d \in 1 .. Depth
         PROVE  Climb(box)[d] = <<(Climb(box)[d - 1][1] + 1) \div 2, Climb(box)[d - 1][2] \div 2>>
    <2>1. d \in Levels /\ d # 0  BY <1>0
    <2> QED  BY <1>9, <2>1
  <1> QED  BY <1>10, <1>11 DEF start

(* The ends of the climb on its way to the root.                           *)
LEMMA EndsIn ==
    ASSUME NEW box, IsBox(box), NEW d \in Levels
    PROVE  LET ends == Climb(box)[d]
           IN  /\ ends[1] \in Nat /\ ends[2] \in Nat
               /\ Power[Depth - d] <= ends[1] /\ ends[2] <= Power[Depth - d + 1]
  <1> DEFINE Fits(e) == LET ends == Climb(box)[e]
                        IN  /\ ends[1] \in Nat /\ ends[2] \in Nat
                            /\ Power[Depth - e] <= ends[1] /\ ends[2] <= Power[Depth - e + 1]
             Bad == {e \in Levels : ~Fits(e)}
  <1> SUFFICES ASSUME Bad # {} PROVE FALSE  OBVIOUS
  <1>0. Depth \in Nat /\ Levels = 0 .. Depth  BY TreeAssumption DEF Levels
  <1>1. Bad \in SUBSET Nat  BY <1>0
  <1>2. PICK e \in Bad : \A i \in Bad : e <= i  BY <1>1, LeastNatural
  <1>3. e \in 0 .. Depth  BY <1>0, <1>2
  <1>4. CASE e = 0
    <2>1. Leaves \in Nat /\ Power[Depth + 1] = 2 * Leaves  BY LeavesAre
    <2>2. box.top \in 0 .. Leaves - 1 /\ box.bottom \in 0 .. Leaves - 1  BY DEF IsBox
    <2>3. Climb(box)[0] = <<Leaves + box.top, Leaves + box.bottom + 1>>  BY ClimbIs
    <2>4. Depth - e = Depth /\ Depth - e + 1 = Depth + 1  BY <1>0, <1>4
    <2> QED  BY <1>2, <1>4, <2>1, <2>2, <2>3, <2>4 DEF Leaves
  <1>5. CASE e # 0
    <2> DEFINE ends == Climb(box)[e - 1]
               p == Power[Depth - e]
               q == Power[Depth - e + 1]
               r == Power[Depth - (e - 1) + 1]
    <2>1. e \in 1 .. Depth /\ e - 1 \in Levels /\ e - 1 \notin Bad  BY <1>0, <1>2, <1>3, <1>5
    <2>2. /\ ends[1] \in Nat /\ ends[2] \in Nat
          /\ Power[Depth - (e - 1)] <= ends[1] /\ ends[2] <= r
      BY <2>1
    <2>3. Depth - (e - 1) = Depth - e + 1 /\ Depth - (e - 1) + 1 = Depth - e + 2  BY <1>0, <1>3
    <2>4. p \in Nat /\ q = 2 * p /\ r = 2 * q
      <3>1. /\ Depth - e \in 0 .. Depth + 1 /\ Depth - e + 1 \in 1 .. Depth + 1
            /\ Depth - (e - 1) + 1 \in 1 .. Depth + 1
            /\ (Depth - e + 1) - 1 = Depth - e /\ (Depth - (e - 1) + 1) - 1 = Depth - e + 1
        BY <1>0, <2>1
      <3> QED  BY <3>1, PowerIs, PowerType
    <2>5. Climb(box)[e] = <<(ends[1] + 1) \div 2, ends[2] \div 2>>  BY <2>1, ClimbIs
    <2>6. q <= ends[1]  BY <2>2, <2>3
    <2> HIDE DEF ends, p, q, r
    <2>7. /\ (ends[1] + 1) \div 2 \in Nat /\ ends[2] \div 2 \in Nat
          /\ p <= (ends[1] + 1) \div 2 /\ ends[2] \div 2 <= q
      BY <2>2, <2>4, <2>6
    <2>8. Fits(e)  BY <2>5, <2>7 DEF p, q
    <2> QED  BY <1>2, <2>8
  <1> QED  BY <1>4, <1>5

(* The nodes over a row, from its leaf to the root.                        *)
Above(row, d) == (Leaves + row) \div Power[d]

LEMMA AboveIs ==
    ASSUME NEW row \in 0 .. Leaves - 1
    PROVE  /\ Above(row, 0) = Leaves + row
           /\ \A d \in 1 .. Depth : Above(row, d) = Above(row, d - 1) \div 2
           /\ \A d \in Levels : Above(row, d) \in Nat
  <1>0. Depth \in Nat /\ Levels = 0 .. Depth  BY TreeAssumption DEF Levels
  <1>1. Leaves \in Nat  BY <1>0, PowerType DEF Leaves
  <1> DEFINE x == Leaves + row
  <1>2. x \in Nat  BY <1>1
  <1>3. x \div 1 = x  BY <1>2
  <1>4. ASSUME NEW d \in 1 .. Depth PROVE x \div Power[d] = (x \div Power[d - 1]) \div 2
    <2>1. d - 1 \in 0 .. Depth + 1 /\ d \in 1 .. Depth + 1  BY <1>0
    <2> DEFINE p == Power[d - 1]
    <2>2. p \in Nat \ {0} /\ Power[d] = 2 * p  BY <2>1, PowerIs, PowerType
    <2> HIDE DEF p, x
    <2>3. x \div (2 * p) = (x \div p) \div 2  BY <1>2, <2>2
    <2> QED  BY <2>2, <2>3 DEF p
  <1>5. ASSUME NEW d \in Levels PROVE x \div Power[d] \in Nat
    <2>1. Power[d] \in Nat \ {0}  BY <1>0, PowerType
    <2> HIDE DEF x
    <2> QED  BY <1>2, <2>1
  <1> QED  BY <1>3, <1>4, <1>5, PowerIs DEF Above

LEMMA AboveLevel ==
    ASSUME NEW row \in 0 .. Leaves - 1, NEW d \in Levels
    PROVE  Power[Depth - d] <= Above(row, d) /\ Above(row, d) < Power[Depth - d + 1]
  <1> DEFINE Fits(e) == Power[Depth - e] <= Above(row, e) /\ Above(row, e) < Power[Depth - e + 1]
             Bad == {e \in Levels : ~Fits(e)}
  <1> SUFFICES ASSUME Bad # {} PROVE FALSE  OBVIOUS
  <1>0. Depth \in Nat /\ Levels = 0 .. Depth  BY TreeAssumption DEF Levels
  <1>1. Bad \in SUBSET Nat  BY <1>0
  <1>2. PICK e \in Bad : \A i \in Bad : e <= i  BY <1>1, LeastNatural
  <1>3. e \in 0 .. Depth  BY <1>0, <1>2
  <1>4. CASE e = 0
    <2>1. Leaves \in Nat /\ Power[Depth + 1] = 2 * Leaves  BY LeavesAre
    <2>2. Above(row, 0) = Leaves + row  BY AboveIs
    <2>3. Depth - e = Depth /\ Depth - e + 1 = Depth + 1  BY <1>0, <1>4
    <2>4. Power[Depth] = Leaves  BY DEF Leaves
    <2>5. Fits(0)  BY <1>4, <2>1, <2>2, <2>3, <2>4
    <2> QED  BY <1>2, <1>4, <2>5
  <1>5. CASE e # 0
    <2> DEFINE a == Above(row, e - 1)
               p == Power[Depth - e]
               q == Power[Depth - e + 1]
               r == Power[Depth - (e - 1) + 1]
    <2>1. e \in 1 .. Depth /\ e - 1 \in Levels /\ e - 1 \notin Bad  BY <1>0, <1>2, <1>3, <1>5
    <2>2. Power[Depth - (e - 1)] <= a /\ a < r /\ a \in Nat  BY <2>1, AboveIs
    <2>3. Depth - (e - 1) = Depth - e + 1 /\ Depth - (e - 1) + 1 = Depth - e + 2  BY <1>0, <1>3
    <2>4. p \in Nat /\ q = 2 * p /\ r = 2 * q
      <3>1. /\ Depth - e \in 0 .. Depth + 1 /\ Depth - e + 1 \in 1 .. Depth + 1
            /\ Depth - (e - 1) + 1 \in 1 .. Depth + 1
            /\ (Depth - e + 1) - 1 = Depth - e /\ (Depth - (e - 1) + 1) - 1 = Depth - e + 1
        BY <1>0, <2>1
      <3> QED  BY <3>1, PowerIs, PowerType
    <2>5. Above(row, e) = a \div 2  BY <2>1, AboveIs
    <2>6. q <= a  BY <2>2, <2>3
    <2> HIDE DEF a, p, q, r
    <2>7. p <= a \div 2 /\ a \div 2 < q  BY <2>2, <2>4, <2>6
    <2>8. Fits(e)  BY <2>5, <2>7 DEF p, q
    <2> QED  BY <1>2, <2>8
  <1> QED  BY <1>4, <1>5

(* A node is between the ends when it is taken or its parent is between    *)
(* the next ends, and not both.                                            *)
Between(ends, n) == ends[1] <= n /\ n < ends[2]
Halved(ends) == <<(ends[1] + 1) \div 2, ends[2] \div 2>>
Taken(ends, n) == ends[1] < ends[2] /\ n \in OddEnds(ends)

LEMMA ClimbStep ==
    ASSUME NEW ends, ends[1] \in Nat, ends[2] \in Nat, NEW n \in Nat
    PROVE  /\ Between(ends, n) <=> Taken(ends, n) \/ Between(Halved(ends), n \div 2)
           /\ ~(Taken(ends, n) /\ Between(Halved(ends), n \div 2))
  <1> DEFINE l == ends[1]
             r == ends[2]
             h == n \div 2
             L == (l + 1) \div 2
             R == r \div 2
  <1>1. /\ l \in Nat /\ r \in Nat /\ h \in Nat /\ L \in Nat /\ R \in Nat
        /\ n = 2 * h \/ n = 2 * h + 1
        /\ l + 1 = 2 * L \/ l + 1 = 2 * L + 1
        /\ r = 2 * R \/ r = 2 * R + 1
    OBVIOUS
  <1>2. (l % 2 = 1 <=> l + 1 = 2 * L) /\ (r % 2 = 1 <=> r = 2 * R + 1)  OBVIOUS
  <1>3. /\ Between(ends, n) <=> l <= n /\ n < r
        /\ Between(Halved(ends), h) <=> L <= h /\ h < R
        /\ Taken(ends, n) <=> l < r /\ ((n = l /\ l % 2 = 1) \/ (n = r - 1 /\ r % 2 = 1))
    BY DEF Between, Halved, Taken, OddEnds
  <1> HIDE DEF l, r, h, L, R
  <1>4. /\ l <= n /\ n < r <=>
             (l < r /\ ((n = l /\ l + 1 = 2 * L) \/ (n = r - 1 /\ r = 2 * R + 1))) \/ (L <= h /\ h < R)
        /\ ~((l < r /\ ((n = l /\ l + 1 = 2 * L) \/ (n = r - 1 /\ r = 2 * R + 1))) /\ (L <= h /\ h < R))
    BY <1>1
  <1> QED  BY <1>2, <1>3, <1>4 DEF h

(* A box takes a node over a row after d steps of the climb.               *)
Takes(box, row, d) == Taken(Climb(box)[d], Above(row, d))
Spans(box, row, d) == Between(Climb(box)[d], Above(row, d))

LEMMA InsideStep ==
    ASSUME NEW box, IsBox(box), NEW row \in 0 .. Leaves - 1, NEW d \in 0 .. Depth - 1
    PROVE  /\ Spans(box, row, d) <=> Takes(box, row, d) \/ Spans(box, row, d + 1)
           /\ ~(Takes(box, row, d) /\ Spans(box, row, d + 1))
  <1>0. Depth \in Nat /\ Levels = 0 .. Depth  BY TreeAssumption DEF Levels
  <1>1. d \in Levels /\ d + 1 \in 1 .. Depth /\ (d + 1) - 1 = d  BY <1>0
  <1>2. Climb(box)[d + 1] = Halved(Climb(box)[d])  BY <1>1, ClimbIs DEF Halved
  <1>3. Above(row, d + 1) = Above(row, d) \div 2 /\ Above(row, d) \in Nat  BY <1>1, AboveIs
  <1>4. Climb(box)[d][1] \in Nat /\ Climb(box)[d][2] \in Nat  BY <1>1, EndsIn
  <1> QED  BY <1>2, <1>3, <1>4, ClimbStep DEF Spans, Takes

(* At the root the climb ends.                                             *)
LEMMA InsideRoot ==
    ASSUME NEW box, IsBox(box), NEW row \in 0 .. Leaves - 1
    PROVE  Spans(box, row, Depth) <=> Takes(box, row, Depth)
  <1>0. Depth \in Nat /\ Depth \in Levels /\ Depth - Depth = 0  BY TreeAssumption DEF Levels
  <1>p. Power[0] = 1 /\ Power[1] = 2
    <2>1. 1 \in 1 .. Depth + 1 /\ 1 - 1 = 0  BY <1>0
    <2> QED  BY <2>1, PowerIs
  <1> DEFINE ends == Climb(box)[Depth]
             n == Above(row, Depth)
  <1>1. ends[1] \in Nat /\ ends[2] \in Nat /\ 1 <= ends[1] /\ ends[2] <= 2  BY <1>0, <1>p, EndsIn
  <1>2. n \in Nat /\ 1 <= n /\ n < 2  BY <1>0, <1>p, AboveIs, AboveLevel
  <1> HIDE DEF ends, n
  <1>3. n = 1 /\ (n \div 2) = 0 /\ ends[2] \div 2 <= 1 /\ (ends[1] + 1) \div 2 >= 1  BY <1>1, <1>2
  <1>4. ~Between(Halved(ends), n \div 2)  BY <1>1, <1>3 DEF Between, Halved
  <1>5. Between(ends, n) <=> Taken(ends, n)  BY <1>1, <1>2, <1>4, ClimbStep
  <1> QED  BY <1>5 DEF Spans, Takes, ends, n

LEMMA InsideDown ==
    ASSUME NEW box, IsBox(box), NEW row \in 0 .. Leaves - 1, NEW d \in Levels, NEW e \in Levels,
           d <= e, Spans(box, row, e)
    PROVE  Spans(box, row, d)
  <1> DEFINE Bad == {k \in 0 .. e : ~Spans(box, row, e - k) /\ d <= e - k}
  <1>0. Depth \in Nat /\ Levels = 0 .. Depth /\ d \in Nat /\ e \in Nat /\ d <= Depth /\ e <= Depth
    BY TreeAssumption DEF Levels
  <1> SUFFICES ASSUME Bad # {} PROVE FALSE
    <2>1. e - d \in 0 .. e /\ e - (e - d) = d  BY <1>0
    <2>2. Bad = {}  OBVIOUS
    <2>3. e - d \notin Bad  BY <2>2
    <2> QED  BY <1>0, <2>1, <2>3
  <1>1. Bad \in SUBSET Nat  BY <1>0
  <1>2. PICK k \in Bad : \A i \in Bad : k <= i  BY <1>1, LeastNatural
  <1>3. k # 0  BY <1>0, <1>2
  <1>4. k - 1 \in 0 .. e /\ k - 1 \notin Bad /\ e - (k - 1) = (e - k) + 1 /\ d <= e - k  BY <1>0, <1>2, <1>3
  <1>5. d <= e - (k - 1)  BY <1>0, <1>4
  <1>6. Spans(box, row, (e - k) + 1)  BY <1>4, <1>5
  <1>7. e - k \in 0 .. Depth - 1  BY <1>0, <1>2, <1>3
  <1> QED  BY <1>2, <1>6, <1>7, InsideStep

(* A box takes at most one of the nodes over a row, and one when it holds  *)
(* the row.                                                                *)
LEMMA TakesOnce ==
    ASSUME NEW box, IsBox(box), NEW row \in 0 .. Leaves - 1, NEW d \in Levels, NEW e \in Levels,
           Takes(box, row, d), Takes(box, row, e)
    PROVE  d = e
  <1>0. Depth \in Nat /\ Levels = 0 .. Depth /\ d \in Nat /\ e \in Nat /\ d <= Depth /\ e <= Depth
    BY TreeAssumption DEF Levels
  <1>1. ASSUME NEW i \in Levels, NEW j \in Levels, Takes(box, row, i), Takes(box, row, j), i < j PROVE FALSE
    <2>1. i \in 0 .. Depth - 1 /\ i + 1 \in Levels /\ i + 1 <= j  BY <1>0, <1>1
    <2>2. Spans(box, row, j)
      <3>1. CASE j = Depth  BY <1>1, <3>1, InsideRoot
      <3>2. CASE j # Depth
        <4>1. j \in 0 .. Depth - 1  BY <1>0, <3>2
        <4> QED  BY <1>1, <4>1, InsideStep
      <3> QED  BY <3>1, <3>2
    <2>3. Spans(box, row, i + 1)  BY <2>1, <2>2, InsideDown
    <2> QED  BY <1>1, <2>1, <2>3, InsideStep
  <1>2. ~(d < e) /\ ~(e < d)  BY <1>1
  <1> QED  BY <1>0, <1>2

LEMMA TakesSome ==
    ASSUME NEW box, IsBox(box), NEW row \in 0 .. Leaves - 1
    PROVE  (\E d \in Levels : Takes(box, row, d)) <=> row \in box.top .. box.bottom
  <1>0. Depth \in Nat /\ Levels = 0 .. Depth  BY TreeAssumption DEF Levels
  <1>1. Spans(box, row, 0) <=> row \in box.top .. box.bottom
    <2>1. Leaves \in Nat  BY LeavesAre
    <2>2. box.top \in Nat /\ box.bottom \in Nat  BY <2>1 DEF IsBox
    <2>3. Climb(box)[0] = <<Leaves + box.top, Leaves + box.bottom + 1>> /\ Above(row, 0) = Leaves + row
      BY ClimbIs, AboveIs
    <2> QED  BY <2>1, <2>2, <2>3 DEF Spans, Between
  <1>2. ASSUME NEW d \in Levels, Takes(box, row, d) PROVE Spans(box, row, 0)
    <2>1. Spans(box, row, d)
      <3>1. CASE d = Depth  BY <1>2, <3>1, InsideRoot
      <3>2. CASE d # Depth
        <4>1. d \in 0 .. Depth - 1  BY <1>0, <3>2
        <4> QED  BY <1>2, <4>1, InsideStep
      <3> QED  BY <3>1, <3>2
    <2>2. 0 \in Levels /\ 0 <= d  BY <1>0
    <2> QED  BY <2>1, <2>2, InsideDown
  <1>3. ASSUME Spans(box, row, 0), \A d \in Levels : ~Takes(box, row, d) PROVE FALSE
    <2> DEFINE Bad == {d \in Levels : ~Spans(box, row, d)}
    <2>1. Bad = {}
      <3> SUFFICES ASSUME Bad # {} PROVE FALSE  OBVIOUS
      <3>1. Bad \in SUBSET Nat  BY <1>0
      <3>2. PICK d \in Bad : \A i \in Bad : d <= i  BY <3>1, LeastNatural
      <3>3. d # 0  BY <1>3, <3>2
      <3>4. d - 1 \in Levels /\ d - 1 \notin Bad /\ d - 1 \in 0 .. Depth - 1 /\ (d - 1) + 1 = d
        BY <1>0, <3>2, <3>3
      <3>5. Spans(box, row, d - 1)  BY <3>4
      <3>6. Spans(box, row, (d - 1) + 1)  BY <1>3, <3>4, <3>5, InsideStep
      <3> QED  BY <3>2, <3>4, <3>6
    <2>2. Depth \in Levels  BY <1>0
    <2>3. Spans(box, row, Depth)  BY <2>1, <2>2
    <2> QED  BY <1>3, <2>2, <2>3, InsideRoot
  <1> QED  BY <1>1, <1>2, <1>3

(* The nodes of a box.                                                     *)
LEMMA NodesAre ==
    ASSUME NEW box, IsBox(box)
    PROVE  /\ NodesOf(box) \subseteq 0 .. 2 * Leaves
           /\ \A row \in 0 .. Leaves - 1, d \in Levels : Above(row, d) \in NodesOf(box) <=> Takes(box, row, d)
  <1>0. Depth \in Nat /\ Levels = 0 .. Depth /\ Leaves \in Nat  BY TreeAssumption, LeavesAre DEF Levels
  <1>1. \A n : n \in NodesOf(box) <=> \E d \in Levels : Taken(Climb(box)[d], n)
    BY DEF NodesOf, Taken
  <1>2. ASSUME NEW d \in Levels, NEW n, Taken(Climb(box)[d], n)
        PROVE  n \in Nat /\ Power[Depth - d] <= n /\ n < Power[Depth - d + 1]
    <2> DEFINE ends == Climb(box)[d]
               p == Power[Depth - d]
               q == Power[Depth - d + 1]
    <2>1. ends[1] \in Nat /\ ends[2] \in Nat /\ p <= ends[1] /\ ends[2] <= q  BY EndsIn
    <2>2. Depth - d \in 0 .. Depth + 1 /\ Depth - d + 1 \in 0 .. Depth + 1  BY <1>0
    <2>3. p \in Nat /\ q \in Nat  BY <2>2, PowerType
    <2> HIDE DEF ends, p, q
    <2>4. ends[1] < ends[2] /\ n \in {ends[1], ends[2] - 1}  BY <1>2 DEF Taken, OddEnds, ends
    <2>5. n \in Nat /\ p <= n /\ n < q  BY <2>1, <2>3, <2>4
    <2> QED  BY <2>5 DEF p, q
  <1>3. ASSUME NEW n \in NodesOf(box) PROVE n \in 0 .. 2 * Leaves
    <2>1. PICK d \in Levels : Taken(Climb(box)[d], n)  BY <1>1
    <2>2. n \in Nat /\ n < Power[Depth - d + 1]  BY <1>2, <2>1
    <2>3. Depth - d + 1 \in 0 .. Depth + 1 /\ Depth + 1 \in 0 .. Depth + 1 /\ Depth - d + 1 <= Depth + 1  BY <1>0
    <2>4. Power[Depth - d + 1] <= Power[Depth + 1]  BY <2>3, PowerGrows
    <2>5. Power[Depth + 1] = 2 * Leaves  BY LeavesAre
    <2>6. Power[Depth - d + 1] \in Nat  BY <2>3, PowerType
    <2> QED  BY <1>0, <2>2, <2>4, <2>5, <2>6
  <1>4. ASSUME NEW row \in 0 .. Leaves - 1, NEW d \in Levels, Above(row, d) \in NodesOf(box)
        PROVE  Takes(box, row, d)
    <2> DEFINE n == Above(row, d)
    <2>1. PICK e \in Levels : Taken(Climb(box)[e], n)  BY <1>1, <1>4
    <2>2. n \in Nat /\ Power[Depth - e] <= n /\ n < Power[Depth - e + 1]  BY <1>2, <2>1
    <2>3. Power[Depth - d] <= n /\ n < Power[Depth - d + 1]  BY AboveLevel
    <2>4. Depth - d \in Levels /\ Depth - e \in Levels  BY <1>0
    <2> HIDE DEF n
    <2>5. LevelOf(n) = Depth - e /\ LevelOf(n) = Depth - d  BY <2>2, <2>3, <2>4, LevelIs
    <2>6. d = e  BY <1>0, <2>5
    <2> QED  BY <2>1, <2>6 DEF Takes, n
  <1> QED  BY <1>1, <1>3, <1>4 DEF Takes

-----------------------------------------------------------------------------
(* Maps from keys to what is filed under them                              *)

(* K says under which keys each thing is filed.                            *)
Keys(K) == UNION {K[x] : x \in DOMAIN K}
Index(K) == [k \in Keys(K) |-> {x \in DOMAIN K : k \in K[x]}]
But(K, x) == [y \in DOMAIN K \ {x} |-> K[y]]

LEMMA IndexAt == ASSUME NEW K, NEW k PROVE At(Index(K), k) = {x \in DOMAIN K : k \in K[x]}
  <1>1. CASE k \in Keys(K)  BY <1>1 DEF At, Index
  <1>2. CASE k \notin Keys(K)
    <2>1. {x \in DOMAIN K : k \in K[x]} = {}  BY <1>2 DEF Keys
    <2> QED  BY <1>2, <2>1 DEF At, Index
  <1> QED  BY <1>1, <1>2

LEMMA PutIs ==
    ASSUME NEW K, NEW x, x \notin DOMAIN K, NEW keys
    PROVE  Put(Index(K), keys, x) = Index(With(K, x, keys))
  <1> DEFINE new == With(K, x, keys)
             f == Put(Index(K), keys, x)
  <1>1. DOMAIN new = DOMAIN K \cup {x} /\ new[x] = keys /\ \A y \in DOMAIN K : new[y] = K[y]  BY DEF With
  <1>2. Keys(new) = Keys(K) \cup keys
    <2>1. \A k : k \in Keys(new) <=> \E y \in DOMAIN new : k \in new[y]  BY DEF Keys
    <2>2. \A k : k \in Keys(K) <=> \E y \in DOMAIN K : k \in K[y]  BY DEF Keys
    <2> HIDE DEF new
    <2> QED  BY <1>1, <2>1, <2>2
  <1> HIDE DEF new
  <1>3. DOMAIN f = Keys(new)  BY <1>2 DEF Put, Index
  <1>4. ASSUME NEW k \in Keys(new) PROVE f[k] = {y \in DOMAIN new : k \in new[y]}
    <2>1. f[k] = At(Index(K), k) \cup IF k \in keys THEN {x} ELSE {}  BY <1>2, <1>4 DEF Put, Index
    <2>2. {y \in DOMAIN new : k \in new[y]} = {y \in DOMAIN K : k \in K[y]} \cup IF k \in keys THEN {x} ELSE {}
      BY <1>1
    <2> QED  BY <2>1, <2>2, IndexAt
  <1>5. f = [k \in DOMAIN f |-> f[k]]  BY DEF Put
  <1> HIDE DEF f
  <1>6. f = [k \in Keys(new) |-> {y \in DOMAIN new : k \in new[y]}]  BY <1>3, <1>4, <1>5
  <1> QED  BY <1>6 DEF Index, f, new

LEMMA TakeIs ==
    ASSUME NEW K, NEW x \in DOMAIN K
    PROVE  Take(Index(K), K[x], x) = Index(But(K, x))
  <1> DEFINE new == But(K, x)
             f == Take(Index(K), K[x], x)
             left == [k \in Keys(K) |-> IF k \in K[x] THEN Index(K)[k] \ {x} ELSE Index(K)[k]]
             gone == {k \in K[x] \cap Keys(K) : left[k] = {}}
  <1>1. DOMAIN new = DOMAIN K \ {x} /\ \A y \in DOMAIN new : new[y] = K[y]  BY DEF But
  <1>2. \A k : k \in Keys(K) <=> \E y \in DOMAIN K : k \in K[y]  BY DEF Keys
  <1>3. \A k : k \in Keys(new) <=> \E y \in DOMAIN new : k \in new[y]  BY DEF Keys
  <1> HIDE DEF new
  <1>4. \A k \in Keys(K) : Index(K)[k] = {y \in DOMAIN K : k \in K[y]}  BY DEF Index
  <1>5. \A k \in Keys(K) : left[k] = {y \in DOMAIN new : k \in new[y]}
    <2> SUFFICES ASSUME NEW k \in Keys(K) PROVE left[k] = {y \in DOMAIN new : k \in new[y]}  OBVIOUS
    <2>1. {y \in DOMAIN new : k \in new[y]} = {y \in DOMAIN K : k \in K[y]} \ {x}  BY <1>1
    <2>2. k \notin K[x] => x \notin {y \in DOMAIN K : k \in K[y]}  OBVIOUS
    <2> QED  BY <1>4, <2>1, <2>2
  <1>6. f = [k \in Keys(K) \ gone |-> left[k]]  BY DEF Take, Without, Index
  <1> HIDE DEF left
  <1>7. Keys(K) \ gone = Keys(new)
    <2>1. ASSUME NEW k PROVE k \in Keys(K) \ gone <=> k \in Keys(new)
      <3>1. CASE k \notin Keys(K)  BY <1>1, <1>2, <1>3, <3>1
      <3>2. CASE k \in Keys(K) /\ k \notin K[x]
        <4>1. PICK y \in DOMAIN K : k \in K[y]  BY <1>2, <3>2
        <4>2. y \in DOMAIN new /\ k \in new[y]  BY <1>1, <3>2, <4>1
        <4> QED  BY <1>3, <3>2, <4>2
      <3>3. CASE k \in Keys(K) /\ k \in K[x]
        <4>1. k \in gone <=> {y \in DOMAIN new : k \in new[y]} = {}  BY <1>5, <3>3
        <4> QED  BY <1>3, <3>3, <4>1
      <3> QED  BY <3>1, <3>2, <3>3
    <2> QED  BY <2>1
  <1>8. Keys(new) \subseteq Keys(K)  BY <1>7
  <1>9. f = [k \in Keys(new) |-> {y \in DOMAIN new : k \in new[y]}]  BY <1>5, <1>6, <1>7, <1>8
  <1> QED  BY <1>9 DEF Index, f, new

(* Taking what is not filed, under no key, changes nothing.                *)
LEMMA TakeNone ==
    ASSUME NEW K, NEW x, x \notin DOMAIN K
    PROVE  Take(Index(K), {}, x) = Index(But(K, x))
  <1>1. DOMAIN K \ {x} = DOMAIN K  OBVIOUS
  <1>2. But(K, x) = [y \in DOMAIN K |-> K[y]]  BY <1>1 DEF But
  <1>3. Keys(But(K, x)) = Keys(K) /\ Index(But(K, x)) = Index(K)
    <2> DEFINE new == But(K, x)
    <2>1. DOMAIN new = DOMAIN K /\ \A y \in DOMAIN K : new[y] = K[y]  BY <1>2
    <2> HIDE DEF new
    <2>2. {new[y] : y \in DOMAIN new} = {K[y] : y \in DOMAIN K}  BY <2>1
    <2>3. Keys(new) = Keys(K)  BY <2>2, Zenon DEF Keys
    <2>4. \A k : {y \in DOMAIN new : k \in new[y]} = {y \in DOMAIN K : k \in K[y]}  BY <2>1
    <2> QED  BY <2>3, <2>4, Zenon DEF Index, new
  <1>4. DOMAIN Index(K) = Keys(K) /\ Index(K) = [k \in Keys(K) |-> Index(K)[k]]  BY DEF Index
  <1>5. Take(Index(K), {}, x) = [k \in Keys(K) |-> Index(K)[k]]
    <2> DEFINE f == Index(K)
    <2>1. DOMAIN f = Keys(K)  BY <1>4
    <2> HIDE DEF f
    <2>2. Take(f, {}, x) = [k \in Keys(K) |-> f[k]]  BY <2>1 DEF Take, Without
    <2> QED  BY <2>2 DEF f
  <1> QED  BY <1>3, <1>4, <1>5

(* The forward map: what has keys at all.                                  *)
Held(K) == [x \in {y \in DOMAIN K : K[y] # {}} |-> K[x]]

LEMMA HeldAt == ASSUME NEW K, NEW x PROVE At(Held(K), x) = IF x \in DOMAIN K THEN K[x] ELSE {}
  BY DEF At, Held

LEMMA HeldBut == ASSUME NEW K, NEW x PROVE Without(Held(K), {x}) = Held(But(K, x))
  <1> DEFINE new == But(K, x)
  <1>1. DOMAIN new = DOMAIN K \ {x} /\ \A y \in DOMAIN new : new[y] = K[y]  BY DEF But
  <1> HIDE DEF new
  <1>2. {y \in DOMAIN K : K[y] # {}} \ {x} = {y \in DOMAIN new : new[y] # {}}  BY <1>1
  <1>3. Without(Held(K), {x}) = [y \in {z \in DOMAIN K : K[z] # {}} \ {x} |-> K[y]]  BY DEF Without, Held
  <1>4. Without(Held(K), {x}) = [y \in {z \in DOMAIN new : new[z] # {}} |-> new[y]]  BY <1>1, <1>2, <1>3
  <1> QED  BY <1>4 DEF Held, new

LEMMA HeldWith ==
    ASSUME NEW K, NEW x, x \notin DOMAIN K, NEW keys
    PROVE  Entry(Held(K), x, keys) = Held(With(K, x, keys))
  <1> DEFINE new == With(K, x, keys)
  <1>1. DOMAIN new = DOMAIN K \cup {x} /\ new[x] = keys /\ \A y \in DOMAIN K : new[y] = K[y]  BY DEF With
  <1> HIDE DEF new
  <1> DEFINE has == {y \in DOMAIN K : K[y] # {}}
             now == {y \in DOMAIN new : new[y] # {}}
  <1>2. CASE keys = {}
    <2>1. now = has  BY <1>1, <1>2
    <2>2. Held(new) = [y \in has |-> K[y]]  BY <1>1, <2>1 DEF Held
    <2> QED  BY <1>2, <2>2 DEF Entry, Held, new
  <1>3. CASE keys # {}
    <2>1. now = has \cup {x}  BY <1>1, <1>3
    <2>2. Entry(Held(K), x, keys) = [y \in {x} \cup has |-> IF y \in {x} THEN keys ELSE K[y]]
      BY <1>3 DEF Entry, Held, With
    <2>3. Held(new) = [y \in now |-> new[y]]  BY DEF Held
    <2>4. \A y \in now : new[y] = IF y \in {x} THEN keys ELSE K[y]  BY <1>1, <2>1
    <2> QED  BY <2>1, <2>2, <2>3, <2>4 DEF new
  <1> QED  BY <1>2, <1>3

-----------------------------------------------------------------------------
(* The row tree of some boxes                                              *)

Filing(B) == [box \in B |-> NodesOf(box)]
OnLevel(nodes, l) == {n \in nodes : LevelOf(n) = l}
Counts(nodes) == [l \in Levels |-> Cardinality(OnLevel(nodes, l))]
TreeOf(B) == [nodes |-> Index(Filing(B)), perLevel |-> Counts(Keys(Filing(B))), boxes |-> B]

AreBoxes(B) == \A box \in B : IsBox(box)

LEMMA NodesFinite ==
    ASSUME NEW B, AreBoxes(B)
    PROVE  IsFiniteSet(Keys(Filing(B))) /\ \A box \in B : IsFiniteSet(NodesOf(box))
  <1>1. Leaves \in Nat  BY LeavesAre
  <1>2. IsFiniteSet(0 .. 2 * Leaves)  BY <1>1, FS_Interval
  <1>3. \A box \in B : NodesOf(box) \subseteq 0 .. 2 * Leaves  BY NodesAre DEF AreBoxes
  <1>4. Keys(Filing(B)) \subseteq 0 .. 2 * Leaves  BY <1>3 DEF Keys, Filing
  <1> QED  BY <1>2, <1>3, <1>4, FS_Subset

LEMMA CountsMore ==
    ASSUME NEW S, IsFiniteSet(S), NEW T, IsFiniteSet(T), S \cap T = {}, NEW l
    PROVE  /\ Cardinality(OnLevel(S \cup T, l)) = Cardinality(OnLevel(S, l)) + Cardinality(OnLevel(T, l))
           /\ Cardinality(OnLevel(S, l)) \in Nat /\ Cardinality(OnLevel(T, l)) \in Nat
  <1>1. OnLevel(S, l) \subseteq S /\ OnLevel(T, l) \subseteq T  BY DEF OnLevel
  <1>2. IsFiniteSet(OnLevel(S, l)) /\ IsFiniteSet(OnLevel(T, l))  BY <1>1, FS_Subset
  <1>3. OnLevel(S, l) \cap OnLevel(T, l) = {}  BY <1>1
  <1>4. OnLevel(S \cup T, l) = OnLevel(S, l) \cup OnLevel(T, l)  BY DEF OnLevel
  <1>5. Cardinality(OnLevel(S, l)) \in Nat /\ Cardinality(OnLevel(T, l)) \in Nat  BY <1>2, FS_CardinalityType
  <1>6. Cardinality(OnLevel(S, l) \cap OnLevel(T, l)) = 0  BY <1>3, FS_EmptySet
  <1>7. Cardinality(OnLevel(S, l) \cup OnLevel(T, l)) =
            Cardinality(OnLevel(S, l)) + Cardinality(OnLevel(T, l)) - Cardinality(OnLevel(S, l) \cap OnLevel(T, l))
    BY <1>2, FS_Union
  <1>8. Cardinality(OnLevel(S \cup T, l)) = Cardinality(OnLevel(S, l) \cup OnLevel(T, l))  BY <1>4, Zenon
  <1> DEFINE s == Cardinality(OnLevel(S, l))
             t == Cardinality(OnLevel(T, l))
             both == Cardinality(OnLevel(S, l) \cap OnLevel(T, l))
             all == Cardinality(OnLevel(S \cup T, l))
  <1>9. s \in Nat /\ t \in Nat /\ both = 0 /\ all = s + t - both  BY <1>5, <1>6, <1>7, <1>8, Zenon
  <1> HIDE DEF s, t, both, all
  <1>10. all = s + t  BY <1>9
  <1> QED  BY <1>9, <1>10 DEF s, t, all

LEMMA EmptyTree == TreeOf({}) = NoTree
  <1>1. Keys(Filing({})) = {}  BY DEF Keys, Filing
  <1>2. Index(Filing({})) = EmptyMap
    <2>1. Index(Filing({})) = [k \in {} |-> {x \in DOMAIN Filing({}) : k \in Filing({})[x]}]  BY <1>1 DEF Index
    <2>2. \A k \in {} : {x \in DOMAIN Filing({}) : k \in Filing({})[x]} = {}  OBVIOUS
    <2> QED  BY <2>1, <2>2 DEF EmptyMap
  <1>3. \A l \in Levels : Cardinality(OnLevel({}, l)) = 0
    <2>1. \A l \in Levels : OnLevel({}, l) = {}  BY DEF OnLevel
    <2>2. Cardinality({}) = 0  BY FS_EmptySet
    <2> QED  BY <2>1, <2>2
  <1>4. Counts(Keys(Filing({}))) = [l \in Levels |-> 0]  BY <1>1, <1>3 DEF Counts
  <1> QED  BY <1>2, <1>4 DEF TreeOf, NoTree

LEMMA FilingMore ==
    ASSUME NEW B, NEW box
    PROVE  /\ box \notin B => With(Filing(B), box, NodesOf(box)) = Filing(B \cup {box})
           /\ box \in B => But(Filing(B), box) = Filing(B \ {box})
  <1>1. DOMAIN Filing(B) = B  BY DEF Filing
  <1>2. ASSUME box \notin B PROVE With(Filing(B), box, NodesOf(box)) = Filing(B \cup {box})
    BY <1>1, <1>2 DEF With, Filing
  <1>3. But(Filing(B), box) = Filing(B \ {box})  BY <1>1 DEF But, Filing
  <1> QED  BY <1>2, <1>3

LEMMA InsertedIs ==
    ASSUME NEW B, NEW box, box \notin B, AreBoxes(B \cup {box})
    PROVE  Inserted(TreeOf(B), box) = TreeOf(B \cup {box})
  <1> DEFINE K == Filing(B)
             old == Keys(K)
             new == Keys(Filing(B \cup {box}))
             added == NodesOf(box) \ DOMAIN Index(K)
  <1>1. DOMAIN K = B  BY DEF Filing
  <1>2. Put(Index(K), NodesOf(box), box) = Index(Filing(B \cup {box}))
    <2>1. box \notin DOMAIN K  BY <1>1
    <2> HIDE DEF K
    <2>2. Put(Index(K), NodesOf(box), box) = Index(With(K, box, NodesOf(box)))  BY <2>1, PutIs
    <2> QED  BY <2>2, FilingMore DEF K
  <1>3. DOMAIN Index(K) = old  BY DEF Index
  <1>4. new = old \cup added /\ old \cap added = {}
    <2>1. \A n : n \in new <=> \E b \in B \cup {box} : n \in NodesOf(b)  BY DEF Keys, Filing
    <2>2. \A n : n \in old <=> \E b \in B : n \in NodesOf(b)  BY DEF Keys, Filing
    <2> HIDE DEF old, new
    <2> QED  BY <1>3, <2>1, <2>2
  <1>5. IsFiniteSet(old) /\ IsFiniteSet(added)
    <2>1. AreBoxes(B)  BY DEF AreBoxes
    <2>2. IsFiniteSet(old) /\ IsFiniteSet(NodesOf(box))
      BY <2>1, NodesFinite
    <2>3. added \subseteq NodesOf(box)  OBVIOUS
    <2> QED  BY <2>2, <2>3, FS_Subset
  <1>6. Recount(TreeOf(B), box, 1, added) = Counts(new)
    <2>1. TreeOf(B).perLevel = Counts(old)  BY DEF TreeOf
    <2> HIDE DEF old, new, added
    <2>2. ASSUME NEW l \in Levels
          PROVE  Counts(old)[l] + 1 * Cardinality({n \in added : LevelOf(n) = l}) = Counts(new)[l]
      <3>1. Counts(old)[l] = Cardinality(OnLevel(old, l)) /\ Counts(new)[l] = Cardinality(OnLevel(new, l))
        BY DEF Counts
      <3>2. {n \in added : LevelOf(n) = l} = OnLevel(added, l)  BY DEF OnLevel
      <3>3. /\ Cardinality(OnLevel(old \cup added, l)) = Cardinality(OnLevel(old, l)) + Cardinality(OnLevel(added, l))
            /\ Cardinality(OnLevel(old, l)) \in Nat /\ Cardinality(OnLevel(added, l)) \in Nat
        BY <1>4, <1>5, CountsMore
      <3> DEFINE x == Cardinality(OnLevel(old, l))
                 y == Cardinality(OnLevel(added, l))
                 z == Cardinality(OnLevel(new, l))
      <3>4. x \in Nat /\ y \in Nat /\ z = x + y  BY <1>4, <3>3, Zenon
      <3>5. Counts(old)[l] = x /\ Counts(new)[l] = z /\ Cardinality({n \in added : LevelOf(n) = l}) = y
        BY <3>1, <3>2, Zenon
      <3> HIDE DEF x, y, z
      <3> QED  BY <3>4, <3>5
    <2>3. Recount(TreeOf(B), box, 1, added) = [l \in Levels |-> Counts(new)[l]]  BY <2>1, <2>2 DEF Recount
    <2> QED  BY <2>3 DEF Counts
  <1>7. TreeOf(B).nodes = Index(K) /\ TreeOf(B).boxes = B  BY DEF TreeOf
  <1>8. Inserted(TreeOf(B), box) = [nodes |-> Put(Index(K), NodesOf(box), box),
                                    perLevel |-> Recount(TreeOf(B), box, 1, added),
                                    boxes |-> B \cup {box}]
    BY <1>7 DEF Inserted
  <1> QED  BY <1>2, <1>6, <1>8 DEF TreeOf

LEMMA RemovedIs ==
    ASSUME NEW B, NEW box \in B, AreBoxes(B)
    PROVE  Removed(TreeOf(B), box) = TreeOf(B \ {box})
  <1> DEFINE K == Filing(B)
             old == Keys(K)
             new == Keys(Filing(B \ {box}))
             gone == {n \in NodesOf(box) : At(Index(K), n) = {box}}
  <1>1. DOMAIN K = B /\ K[box] = NodesOf(box) /\ \A b \in B : K[b] = NodesOf(b)  BY DEF Filing
  <1>2. Take(Index(K), NodesOf(box), box) = Index(Filing(B \ {box}))
    <2> HIDE DEF K
    <2>1. Take(Index(K), K[box], box) = Index(But(K, box))  BY <1>1, TakeIs
    <2> QED  BY <1>1, <2>1, FilingMore DEF K
  <1>4. old = new \cup gone /\ new \cap gone = {}
    <2>1. \A n : n \in new <=> \E b \in B \ {box} : n \in NodesOf(b)  BY DEF Keys, Filing
    <2>2. \A n : n \in old <=> \E b \in B : n \in NodesOf(b)  BY DEF Keys, Filing
    <2>3. \A n : At(Index(K), n) = {b \in B : n \in NodesOf(b)}
      <3>1. \A n : At(Index(K), n) = {b \in DOMAIN K : n \in K[b]}  BY IndexAt
      <3> QED  BY <1>1, <3>1
    <2> HIDE DEF old, new, K
    <2>4. \A n : n \in gone <=> n \in NodesOf(box) /\ \A b \in B : n \in NodesOf(b) => b = box  BY <2>3
    <2> HIDE DEF gone
    <2> QED  BY <2>1, <2>2, <2>4
  <1>5. IsFiniteSet(new) /\ IsFiniteSet(gone)
    <2>1. AreBoxes(B \ {box})  BY DEF AreBoxes
    <2>2. IsFiniteSet(new)  BY <2>1, NodesFinite
    <2>3. IsFiniteSet(NodesOf(box))  BY NodesFinite
    <2>4. gone \subseteq NodesOf(box)  OBVIOUS
    <2> QED  BY <2>2, <2>3, <2>4, FS_Subset
  <1>6. Recount(TreeOf(B), box, -1, gone) = Counts(new)
    <2>1. TreeOf(B).perLevel = Counts(old)  BY DEF TreeOf
    <2> HIDE DEF old, new, gone
    <2>2. ASSUME NEW l \in Levels
          PROVE  Counts(old)[l] + (-1) * Cardinality({n \in gone : LevelOf(n) = l}) = Counts(new)[l]
      <3>1. Counts(old)[l] = Cardinality(OnLevel(old, l)) /\ Counts(new)[l] = Cardinality(OnLevel(new, l))
        BY DEF Counts
      <3>2. {n \in gone : LevelOf(n) = l} = OnLevel(gone, l)  BY DEF OnLevel
      <3>3. /\ Cardinality(OnLevel(new \cup gone, l)) = Cardinality(OnLevel(new, l)) + Cardinality(OnLevel(gone, l))
            /\ Cardinality(OnLevel(new, l)) \in Nat /\ Cardinality(OnLevel(gone, l)) \in Nat
        BY <1>4, <1>5, CountsMore
      <3> DEFINE x == Cardinality(OnLevel(new, l))
                 y == Cardinality(OnLevel(gone, l))
                 z == Cardinality(OnLevel(old, l))
      <3>4. x \in Nat /\ y \in Nat /\ z = x + y  BY <1>4, <3>3, Zenon
      <3>5. Counts(new)[l] = x /\ Counts(old)[l] = z /\ Cardinality({n \in gone : LevelOf(n) = l}) = y
        BY <3>1, <3>2, Zenon
      <3> HIDE DEF x, y, z
      <3> QED  BY <3>4, <3>5
    <2>3. Recount(TreeOf(B), box, -1, gone) = [l \in Levels |-> Counts(new)[l]]  BY <2>1, <2>2 DEF Recount
    <2> QED  BY <2>3 DEF Counts
  <1>7. TreeOf(B).nodes = Index(K) /\ TreeOf(B).boxes = B  BY DEF TreeOf
  <1>8. Removed(TreeOf(B), box) = [nodes |-> Take(Index(K), NodesOf(box), box),
                                   perLevel |-> Recount(TreeOf(B), box, -1, gone),
                                   boxes |-> B \ {box}]
    BY <1>7 DEF Removed
  <1> QED  BY <1>2, <1>6, <1>8 DEF TreeOf

-----------------------------------------------------------------------------
(* The lanes of some boxes                                                 *)

InLane(B, lane) == {b \in B : lane \in LanesOf(b)}
LanesIndex(B) == [lane \in UNION {LanesOf(b) : b \in B} |-> TreeOf(InLane(B, lane))]

LEMMA TreeBoxes == ASSUME NEW B PROVE TreeOf(B).boxes = B
  BY DEF TreeOf

LEMMA LaneAt == ASSUME NEW B, NEW lane PROVE TreeAt(LanesIndex(B), lane) = TreeOf(InLane(B, lane))
  <1> DEFINE all == UNION {LanesOf(b) : b \in B}
  <1>1. DOMAIN LanesIndex(B) = all /\ \A l \in all : LanesIndex(B)[l] = TreeOf(InLane(B, l))  BY DEF LanesIndex
  <1>2. lane \notin all => InLane(B, lane) = {}  BY DEF InLane
  <1> HIDE DEF all
  <1> QED  BY <1>1, <1>2, EmptyTree DEF TreeAt

LEMMA InsertIs ==
    ASSUME NEW B, NEW box, box \notin B, AreBoxes(B \cup {box})
    PROVE  InsertBox(LanesIndex(B), box) = LanesIndex(B \cup {box})
  <1> DEFINE f == InsertBox(LanesIndex(B), box)
             more == B \cup {box}
             all == UNION {LanesOf(b) : b \in more}
  <1>1. DOMAIN LanesIndex(B) \cup LanesOf(box) = all  BY DEF LanesIndex
  <1>2. ASSUME NEW lane \in all
        PROVE  (IF lane \in LanesOf(box) /\ box \notin TreeAt(LanesIndex(B), lane).boxes
                THEN Inserted(TreeAt(LanesIndex(B), lane), box) ELSE LanesIndex(B)[lane]) = TreeOf(InLane(more, lane))
    <2> DEFINE S == InLane(B, lane)
    <2>1. TreeAt(LanesIndex(B), lane) = TreeOf(S) /\ TreeOf(S).boxes = S  BY LaneAt, TreeBoxes
    <2>2. box \notin S  BY DEF InLane
    <2>3. CASE lane \in LanesOf(box)
      <3>1. InLane(more, lane) = S \cup {box}  BY <2>3 DEF InLane
      <3>2. AreBoxes(S \cup {box})  BY DEF AreBoxes, InLane
      <3> HIDE DEF S
      <3>3. Inserted(TreeOf(S), box) = TreeOf(S \cup {box})  BY <2>2, <3>2, InsertedIs
      <3> QED  BY <2>1, <2>2, <2>3, <3>1, <3>3
    <2>4. CASE lane \notin LanesOf(box)
      <3>1. InLane(more, lane) = S  BY <2>4 DEF InLane
      <3>2. lane \in DOMAIN LanesIndex(B)  BY <1>1, <2>4
      <3> HIDE DEF S
      <3>3. LanesIndex(B)[lane] = TreeOf(S)  BY <2>1, <3>2 DEF TreeAt
      <3> QED  BY <2>4, <3>1, <3>3
    <2> QED  BY <2>3, <2>4
  <1>3. f = [lane \in all |-> TreeOf(InLane(more, lane))]
    <2> HIDE DEF all, more
    <2> QED  BY <1>1, <1>2 DEF InsertBox
  <1> QED  BY <1>3 DEF LanesIndex

LEMMA RemoveIs ==
    ASSUME NEW B, NEW box \in B, AreBoxes(B)
    PROVE  RemoveBox(LanesIndex(B), box) = LanesIndex(B \ {box})
  <1> DEFINE less == B \ {box}
             all == UNION {LanesOf(b) : b \in B}
             few == UNION {LanesOf(b) : b \in less}
             rest == [lane \in all |-> IF lane \in LanesOf(box) /\ box \in LanesIndex(B)[lane].boxes
                                       THEN Removed(LanesIndex(B)[lane], box) ELSE LanesIndex(B)[lane]]
             gone == {lane \in LanesOf(box) \cap all : rest[lane].boxes = {}}
  <1>1. DOMAIN LanesIndex(B) = all  BY DEF LanesIndex
  <1>2. \A lane \in all : rest[lane] = TreeOf(InLane(less, lane))
    <2> SUFFICES ASSUME NEW lane \in all PROVE rest[lane] = TreeOf(InLane(less, lane))  OBVIOUS
    <2> DEFINE S == InLane(B, lane)
    <2>1. LanesIndex(B)[lane] = TreeOf(S) /\ TreeOf(S).boxes = S  BY TreeBoxes DEF LanesIndex
    <2>2. CASE lane \in LanesOf(box)
      <3>1. InLane(less, lane) = S \ {box} /\ box \in S  BY <2>2 DEF InLane
      <3>2. AreBoxes(S)  BY DEF AreBoxes, InLane
      <3> HIDE DEF S
      <3>3. Removed(TreeOf(S), box) = TreeOf(S \ {box})  BY <3>1, <3>2, RemovedIs
      <3> QED  BY <2>1, <2>2, <3>1, <3>3
    <2>3. CASE lane \notin LanesOf(box)
      <3>1. InLane(less, lane) = S  BY <2>3 DEF InLane
      <3> HIDE DEF S
      <3> QED  BY <2>1, <2>3, <3>1
    <2> QED  BY <2>2, <2>3
  <1>3. RemoveBox(LanesIndex(B), box) = [lane \in all \ gone |-> rest[lane]]
    BY <1>1 DEF RemoveBox, Without
  <1>4. \A lane \in all : rest[lane].boxes = InLane(less, lane)  BY <1>2, TreeBoxes
  <1> HIDE DEF rest
  <1>5. all \ gone = few
    <2>1. ASSUME NEW lane PROVE lane \in all \ gone <=> lane \in few
      <3>1. lane \in all <=> \E b \in B : lane \in LanesOf(b)  OBVIOUS
      <3>2. lane \in few <=> \E b \in B : b # box /\ lane \in LanesOf(b)  OBVIOUS
      <3>3. lane \in all => (lane \in gone <=> lane \in LanesOf(box) /\ InLane(less, lane) = {})  BY <1>4
      <3>4. InLane(less, lane) = {} <=> ~\E b \in B : b # box /\ lane \in LanesOf(b)  BY DEF InLane
      <3> HIDE DEF all, few, gone, less
      <3> QED  BY <3>1, <3>2, <3>3, <3>4
    <2> QED  BY <2>1
  <1>6. few \subseteq all  OBVIOUS
  <1>7. RemoveBox(LanesIndex(B), box) = [lane \in few |-> TreeOf(InLane(less, lane))]
    BY <1>2, <1>3, <1>5, <1>6
  <1> QED  BY <1>7 DEF LanesIndex

-----------------------------------------------------------------------------
(* What a fold over a finite set makes                                     *)

(* A function of the subsets of E; two that agree when they agree on less. *)
OfParts(f, E) == f = [t \in SUBSET E |-> f[t]]
Inductive(f, g, E) == \A t \in SUBSET E : (\A x \in t : f[t \ {x}] = g[t \ {x}]) => f[t] = g[t]

LEMMA SetInduction ==
    ASSUME NEW E, IsFiniteSet(E), NEW f, NEW g, OfParts(f, E), OfParts(g, E), Inductive(f, g, E)
    PROVE  f = g
  <1> DEFINE bad == {t \in SUBSET E : f[t] # g[t]}
             sizes == {Cardinality(t) : t \in bad}
  <1>1. \A t \in SUBSET E : IsFiniteSet(t) /\ Cardinality(t) \in Nat  BY FS_Subset, FS_CardinalityType
  <1>2. bad = {}
    <2> SUFFICES ASSUME bad # {} PROVE FALSE  OBVIOUS
    <2>1. sizes \in SUBSET Nat /\ sizes # {}  BY <1>1
    <2>2. PICK n \in sizes : \A m \in sizes : n <= m  BY <2>1, LeastNatural, Zenon
    <2>3. PICK t \in bad : Cardinality(t) = n  BY <2>2
    <2>4. PICK x \in t : f[t \ {x}] # g[t \ {x}]  BY <2>3 DEF Inductive
    <2>5. t \ {x} \in bad  BY <2>3, <2>4
    <2>6. n \in Nat  BY <2>1, <2>2
    <2>7. IsFiniteSet(t)  BY <1>1, <2>3
    <2>8. Cardinality(t \ {x}) = n - 1
      <3>1. Cardinality(t \ {x}) = IF x \in t THEN Cardinality(t) - 1 ELSE Cardinality(t)
        BY <2>7, FS_RemoveElement, Zenon
      <3>2. Cardinality(t \ {x}) = Cardinality(t) - 1  BY <2>4, <3>1, Zenon
      <3> QED  BY <2>3, <3>2, Zenon
    <2>9. n - 1 \in sizes  BY <2>5, <2>8, Zenon
    <2>10. n <= n - 1  BY <2>2, <2>9, Zenon
    <2> HIDE DEF sizes, bad
    <2> QED  BY <2>6, <2>10
  <1>3. \A t \in SUBSET E : f[t] = g[t]  BY <1>2
  <1> HIDE DEF bad, sizes
  <1> QED  BY <1>3 DEF OfParts

LEMMA FoldInsert ==
    ASSUME NEW B, NEW E, IsFiniteSet(E), B \cap E = {}, AreBoxes(B \cup E)
    PROVE  FoldSet(LAMBDA box, lanes : InsertBox(lanes, box), LanesIndex(B), E) = LanesIndex(B \cup E)
  <1> DEFINE pick(t) == CHOOSE x \in t : TRUE
             Solves(f) == f = [t \in SUBSET E |-> IF t = {} THEN LanesIndex(B)
                                                  ELSE InsertBox(f[t \ {pick(t)}], pick(t))]
             made == [t \in SUBSET E |-> LanesIndex(B \cup t)]
  <1>1. FoldSet(LAMBDA box, lanes : InsertBox(lanes, box), LanesIndex(B), E) = (CHOOSE f : Solves(f))[E]
    BY DEF FoldSet, MapThenFoldSet
  <1>2. \A t \in SUBSET E : t # {} => pick(t) \in t  OBVIOUS
  <1> HIDE DEF pick
  <1>3. \A t \in SUBSET E : \A x \in t : InsertBox(LanesIndex(B \cup (t \ {x})), x) = LanesIndex(B \cup t)
    <2> SUFFICES ASSUME NEW t \in SUBSET E, NEW x \in t
                 PROVE  InsertBox(LanesIndex(B \cup (t \ {x})), x) = LanesIndex(B \cup t)
      OBVIOUS
    <2> DEFINE less == B \cup (t \ {x})
    <2>1. x \notin less /\ less \cup {x} = B \cup t  OBVIOUS
    <2>2. AreBoxes(less \cup {x})  BY DEF AreBoxes
    <2> HIDE DEF less
    <2>3. InsertBox(LanesIndex(less), x) = LanesIndex(less \cup {x})  BY <2>1, <2>2, InsertIs
    <2> QED  BY <2>1, <2>3 DEF less
  <1>4. Solves(made)
    <2>1. \A t \in SUBSET E : made[t] = LanesIndex(B \cup t)  OBVIOUS
    <2>2. B \cup {} = B  OBVIOUS
    <2>3. \A t \in SUBSET E : t # {} => made[t] = InsertBox(made[t \ {pick(t)}], pick(t))
      <3> SUFFICES ASSUME NEW t \in SUBSET E, t # {} PROVE made[t] = InsertBox(made[t \ {pick(t)}], pick(t))
        OBVIOUS
      <3>1. pick(t) \in t /\ t \ {pick(t)} \in SUBSET E  BY <1>2
      <3> HIDE DEF made
      <3> QED  BY <1>3, <2>1, <3>1
    <2>4. made = [t \in SUBSET E |-> made[t]]  OBVIOUS
    <2>5. {} \in SUBSET E /\ made[{}] = LanesIndex(B)  BY <2>1, <2>2
    <2> HIDE DEF made
    <2>6. \A t \in SUBSET E : made[t] = IF t = {} THEN LanesIndex(B) ELSE InsertBox(made[t \ {pick(t)}], pick(t))
      BY <2>3, <2>5
    <2> QED  BY <2>4, <2>6
  <1>5. ASSUME NEW f, Solves(f) PROVE f = made
    <2>1. /\ \A t \in SUBSET E : f[t] = IF t = {} THEN LanesIndex(B) ELSE InsertBox(f[t \ {pick(t)}], pick(t))
          /\ f = [t \in SUBSET E |-> f[t]]
      BY <1>5
    <2>2. /\ \A t \in SUBSET E :
                 made[t] = IF t = {} THEN LanesIndex(B) ELSE InsertBox(made[t \ {pick(t)}], pick(t))
          /\ made = [t \in SUBSET E |-> made[t]]
      BY <1>4
    <2> HIDE DEF made
    <2>3. Inductive(f, made, E)  BY <1>2, <2>1, <2>2 DEF Inductive
    <2>4. OfParts(f, E) /\ OfParts(made, E)  BY <2>1, <2>2, Zenon DEF OfParts
    <2> QED  BY <2>3, <2>4, SetInduction, Zenon
  <1>6. (CHOOSE f : Solves(f)) = made
    <2> HIDE DEF Solves, made
    <2> QED  BY <1>4, <1>5, Zenon
  <1>7. made[E] = LanesIndex(B \cup E)  OBVIOUS
  <1> HIDE DEF Solves, made
  <1> QED  BY <1>1, <1>6, <1>7

LEMMA FoldRemove ==
    ASSUME NEW B, NEW E, IsFiniteSet(E), E \subseteq B, AreBoxes(B)
    PROVE  FoldSet(LAMBDA box, lanes : RemoveBox(lanes, box), LanesIndex(B), E) = LanesIndex(B \ E)
  <1> DEFINE pick(t) == CHOOSE x \in t : TRUE
             Solves(f) == f = [t \in SUBSET E |-> IF t = {} THEN LanesIndex(B)
                                                  ELSE RemoveBox(f[t \ {pick(t)}], pick(t))]
             made == [t \in SUBSET E |-> LanesIndex(B \ t)]
  <1>1. FoldSet(LAMBDA box, lanes : RemoveBox(lanes, box), LanesIndex(B), E) = (CHOOSE f : Solves(f))[E]
    BY DEF FoldSet, MapThenFoldSet
  <1>2. \A t \in SUBSET E : t # {} => pick(t) \in t  OBVIOUS
  <1> HIDE DEF pick
  <1>3. \A t \in SUBSET E : \A x \in t : RemoveBox(LanesIndex(B \ (t \ {x})), x) = LanesIndex(B \ t)
    <2> SUFFICES ASSUME NEW t \in SUBSET E, NEW x \in t
                 PROVE  RemoveBox(LanesIndex(B \ (t \ {x})), x) = LanesIndex(B \ t)
      OBVIOUS
    <2> DEFINE more == B \ (t \ {x})
    <2>1. x \in more /\ more \ {x} = B \ t  OBVIOUS
    <2>2. AreBoxes(more)  BY DEF AreBoxes
    <2> HIDE DEF more
    <2>3. RemoveBox(LanesIndex(more), x) = LanesIndex(more \ {x})  BY <2>1, <2>2, RemoveIs
    <2> QED  BY <2>1, <2>3 DEF more
  <1>4. Solves(made)
    <2>1. \A t \in SUBSET E : made[t] = LanesIndex(B \ t)  OBVIOUS
    <2>2. B \ {} = B  OBVIOUS
    <2>3. \A t \in SUBSET E : t # {} => made[t] = RemoveBox(made[t \ {pick(t)}], pick(t))
      <3> SUFFICES ASSUME NEW t \in SUBSET E, t # {} PROVE made[t] = RemoveBox(made[t \ {pick(t)}], pick(t))
        OBVIOUS
      <3>1. pick(t) \in t /\ t \ {pick(t)} \in SUBSET E  BY <1>2
      <3> HIDE DEF made
      <3> QED  BY <1>3, <2>1, <3>1
    <2>4. made = [t \in SUBSET E |-> made[t]]  OBVIOUS
    <2>5. {} \in SUBSET E /\ made[{}] = LanesIndex(B)  BY <2>1, <2>2
    <2> HIDE DEF made
    <2>6. \A t \in SUBSET E : made[t] = IF t = {} THEN LanesIndex(B) ELSE RemoveBox(made[t \ {pick(t)}], pick(t))
      BY <2>3, <2>5
    <2> QED  BY <2>4, <2>6
  <1>5. ASSUME NEW f, Solves(f) PROVE f = made
    <2>1. /\ \A t \in SUBSET E : f[t] = IF t = {} THEN LanesIndex(B) ELSE RemoveBox(f[t \ {pick(t)}], pick(t))
          /\ f = [t \in SUBSET E |-> f[t]]
      BY <1>5
    <2>2. /\ \A t \in SUBSET E :
                 made[t] = IF t = {} THEN LanesIndex(B) ELSE RemoveBox(made[t \ {pick(t)}], pick(t))
          /\ made = [t \in SUBSET E |-> made[t]]
      BY <1>4
    <2> HIDE DEF made
    <2>3. Inductive(f, made, E)  BY <1>2, <2>1, <2>2 DEF Inductive
    <2>4. OfParts(f, E) /\ OfParts(made, E)  BY <2>1, <2>2, Zenon DEF OfParts
    <2> QED  BY <2>3, <2>4, SetInduction, Zenon
  <1>6. (CHOOSE f : Solves(f)) = made
    <2> HIDE DEF Solves, made
    <2> QED  BY <1>4, <1>5, Zenon
  <1>7. made[E] = LanesIndex(B \ E)  OBVIOUS
  <1> HIDE DEF Solves, made
  <1> QED  BY <1>1, <1>6, <1>7

-----------------------------------------------------------------------------
(* The graph of some formulas                                              *)

CellsOf(fs) == [cell \in DOMAIN fs |-> fs[cell].cells]
BoxesIn(fs, table) == [cell \in DOMAIN fs |-> BoxesRead(fs[cell], table, cell)]

Canon(fs, table) ==
    [cellReaders |-> Index(CellsOf(fs)), boxReaders |-> Index(BoxesIn(fs, table)),
     cellsOf |-> Held(CellsOf(fs)), boxesOf |-> Held(BoxesIn(fs, table)),
     nodes |-> DOMAIN fs, lanes |-> LanesIndex(Keys(BoxesIn(fs, table)))]

AreFormulas(fs) == fs = [cell \in DOMAIN fs |-> fs[cell]] /\ \A cell \in DOMAIN fs : fs[cell] \in RefSets
IsTable(table) == table \in [Names -> Boxes \cup {NotRange}]

LEMMA ReadBoxes ==
    ASSUME NEW refs \in RefSets, NEW table, IsTable(table), NEW cell
    PROVE  AreBoxes(BoxesRead(refs, table, cell)) /\ IsFiniteSet(BoxesRead(refs, table, cell))
  <1> DEFINE ranged == {m \in refs.names : table[m] # NotRange}
             named == {table[n] : n \in ranged}
             placed == {Resolved(ref, cell) : ref \in refs.structured}
  <1>0. /\ IsFiniteSet(refs.boxes) /\ \A box \in refs.boxes : IsBox(box)
        /\ refs.names \subseteq Names /\ IsFiniteSet(refs.names)
        /\ refs.structured \subseteq {"column", "row"}
        /\ \A box \in Boxes \cup {Table, TableColumn} : IsBox(box)
    BY RefsAssumption
  <1>1. \A box \in named : IsBox(box)  BY <1>0 DEF IsTable
  <1>2. ASSUME NEW ref PROVE IsBox(Resolved(ref, cell))
    <2>1. CASE ref = "column"  BY <1>0, <2>1 DEF Resolved
    <2>2. CASE ref # "column" /\ ~(cell[1] = Table.sheet /\ cell[2] \in Table.top .. Table.bottom)
      BY <1>0, <2>2 DEF Resolved
    <2>3. CASE ref # "column" /\ cell[1] = Table.sheet /\ cell[2] \in Table.top .. Table.bottom
      <3> DEFINE box == [TableColumn EXCEPT !.top = cell[2], !.bottom = cell[2]]
      <3>1. IsBox(TableColumn) /\ IsBox(Table) /\ Leaves \in Nat  BY <1>0, LeavesAre
      <3>2. Table.top \in 0 .. Leaves - 1 /\ Table.bottom \in 0 .. Leaves - 1  BY <3>1 DEF IsBox
      <3>3. cell[2] \in 0 .. Leaves - 1  BY <2>3, <3>1, <3>2
      <3>4. TableColumn = [sheet |-> TableColumn.sheet, top |-> TableColumn.top, bottom |-> TableColumn.bottom,
                           left |-> TableColumn.left, right |-> TableColumn.right]
            /\ TableColumn.left \in Nat /\ TableColumn.right \in Nat
        BY <3>1, Zenon DEF IsBox
      <3>5. box = [sheet |-> TableColumn.sheet, top |-> cell[2], bottom |-> cell[2],
                   left |-> TableColumn.left, right |-> TableColumn.right]
        <4> DEFINE once == [TableColumn EXCEPT !.top = cell[2]]
        <4>1. once = [sheet |-> TableColumn.sheet, top |-> cell[2], bottom |-> TableColumn.bottom,
                      left |-> TableColumn.left, right |-> TableColumn.right]
          BY <3>4
        <4>2. box = [once EXCEPT !.bottom = cell[2]]  OBVIOUS
        <4> HIDE DEF once, box
        <4> QED  BY <4>1, <4>2
      <3>6. Resolved(ref, cell) = box  BY <2>3 DEF Resolved
      <3> QED  BY <3>3, <3>4, <3>5, <3>6 DEF IsBox
    <2> QED  BY <2>1, <2>2, <2>3
  <1>3. IsFiniteSet(named)
    <2> DEFINE f == [n \in ranged |-> table[n]]
    <2>1. f \in Surjection(ranged, named)  BY DEF Surjection
    <2>2. IsFiniteSet(ranged)
      <3>1. ranged \subseteq refs.names  OBVIOUS
      <3> QED  BY <1>0, <3>1, FS_Subset
    <2> HIDE DEF f, ranged, named
    <2> QED  BY <2>1, <2>2, FS_Surjection
  <1>4. IsFiniteSet(placed)
    <2> DEFINE pair == {Resolved("column", cell)} \cup {Resolved("row", cell)}
    <2>1. placed \subseteq pair  BY <1>0
    <2>2. IsFiniteSet({Resolved("column", cell)}) /\ IsFiniteSet({Resolved("row", cell)})  BY FS_Singleton
    <2>3. IsFiniteSet(pair)  BY <2>2, FS_Union, Zenon
    <2> QED  BY <2>1, <2>3, FS_Subset
  <1>5. BoxesRead(refs, table, cell) = (refs.boxes \cup named) \cup placed  BY DEF BoxesRead
  <1>6. IsFiniteSet((refs.boxes \cup named) \cup placed)
    <2> HIDE DEF named, placed
    <2>1. IsFiniteSet(refs.boxes \cup named)  BY <1>0, <1>3, FS_Union, Zenon
    <2> QED  BY <1>4, <2>1, FS_Union, Zenon
  <1> QED  BY <1>0, <1>1, <1>2, <1>5, <1>6 DEF AreBoxes

LEMMA KeysBoxes ==
    ASSUME NEW fs, AreFormulas(fs), NEW table, IsTable(table)
    PROVE  AreBoxes(Keys(BoxesIn(fs, table)))
  <1>1. ASSUME NEW box \in Keys(BoxesIn(fs, table)) PROVE IsBox(box)
    <2>1. PICK cell \in DOMAIN fs : box \in BoxesRead(fs[cell], table, cell)  BY DEF Keys, BoxesIn
    <2>2. fs[cell] \in RefSets  BY DEF AreFormulas
    <2> QED  BY <2>1, <2>2, ReadBoxes DEF AreBoxes
  <1> QED  BY <1>1 DEF AreBoxes

(* The keys of a map with one thing fewer, and with one more.              *)
LEMMA KeysBut ==
    ASSUME NEW K, NEW x
    PROVE  /\ Keys(But(K, x)) \subseteq Keys(K)
           /\ x \in DOMAIN K => Keys(K) \ Keys(But(K, x)) \subseteq K[x]
           /\ x \notin DOMAIN K => Keys(K) \ Keys(But(K, x)) = {}
  <1> DEFINE new == But(K, x)
  <1>1. DOMAIN new = DOMAIN K \ {x} /\ \A y \in DOMAIN new : new[y] = K[y]  BY DEF But
  <1>2. \A k : k \in Keys(K) <=> \E y \in DOMAIN K : k \in K[y]  BY DEF Keys
  <1>3. \A k : k \in Keys(new) <=> \E y \in DOMAIN new : k \in new[y]  BY DEF Keys
  <1> HIDE DEF new
  <1>4. \A k : k \in Keys(new) <=> \E y \in DOMAIN K : y # x /\ k \in K[y]  BY <1>1, <1>3
  <1>5. Keys(new) \subseteq Keys(K)  BY <1>2, <1>4
  <1>6. ASSUME x \in DOMAIN K, NEW k \in Keys(K) \ Keys(new) PROVE k \in K[x]  BY <1>2, <1>4
  <1>7. ASSUME x \notin DOMAIN K, NEW k \in Keys(K) PROVE k \in Keys(new)  BY <1>2, <1>4, <1>7
  <1> QED  BY <1>5, <1>6, <1>7 DEF new

LEMMA KeysWith ==
    ASSUME NEW K, NEW x, x \notin DOMAIN K, NEW keys
    PROVE  Keys(With(K, x, keys)) = Keys(K) \cup keys
  <1> DEFINE new == With(K, x, keys)
  <1>1. DOMAIN new = DOMAIN K \cup {x} /\ new[x] = keys /\ \A y \in DOMAIN K : new[y] = K[y]  BY DEF With
  <1>2. \A k : k \in Keys(new) <=> \E y \in DOMAIN new : k \in new[y]  BY DEF Keys
  <1>3. \A k : k \in Keys(K) <=> \E y \in DOMAIN K : k \in K[y]  BY DEF Keys
  <1> HIDE DEF new
  <1>4. Keys(new) = Keys(K) \cup keys  BY <1>1, <1>2, <1>3
  <1> QED  BY <1>4 DEF new

LEMMA TakeAny ==
    ASSUME NEW K, NEW x
    PROVE  Take(Index(K), At(Held(K), x), x) = Index(But(K, x))
  <1>1. CASE x \in DOMAIN K
    <2>1. At(Held(K), x) = K[x]  BY <1>1, HeldAt
    <2> QED  BY <1>1, <2>1, TakeIs
  <1>2. CASE x \notin DOMAIN K
    <2>1. At(Held(K), x) = {}  BY <1>2, HeldAt
    <2> QED  BY <1>2, <2>1, TakeNone
  <1> QED  BY <1>1, <1>2

LEMMA WithoutFormula ==
    ASSUME NEW fs, AreFormulas(fs), NEW table, NEW cell
    PROVE  LET less == Without(fs, {cell})
           IN  /\ AreFormulas(less) /\ DOMAIN less = DOMAIN fs \ {cell}
               /\ CellsOf(less) = But(CellsOf(fs), cell)
               /\ BoxesIn(less, table) = But(BoxesIn(fs, table), cell)
  <1> DEFINE less == Without(fs, {cell})
  <1>1. DOMAIN less = DOMAIN fs \ {cell} /\ \A c \in DOMAIN less : less[c] = fs[c]  BY DEF Without
  <1>2. AreFormulas(less)
    <2>1. less = [c \in DOMAIN less |-> less[c]]  BY DEF Without
    <2> QED  BY <1>1, <2>1 DEF AreFormulas
  <1>3. DOMAIN CellsOf(fs) = DOMAIN fs /\ DOMAIN BoxesIn(fs, table) = DOMAIN fs  BY DEF CellsOf, BoxesIn
  <1> HIDE DEF less
  <1>4. CellsOf(less) = But(CellsOf(fs), cell)  BY <1>1, <1>3 DEF CellsOf, But
  <1>5. BoxesIn(less, table) = But(BoxesIn(fs, table), cell)  BY <1>1, <1>3 DEF BoxesIn, But
  <1> QED  BY <1>1, <1>2, <1>4, <1>5 DEF less

LEMMA WithFormula ==
    ASSUME NEW fs, AreFormulas(fs), NEW table, NEW cell, NEW refs \in RefSets,
           NEW more, more = With(fs, cell, refs), NEW less, less = Without(fs, {cell})
    PROVE  /\ AreFormulas(more)
           /\ CellsOf(more) = With(CellsOf(less), cell, refs.cells)
           /\ BoxesIn(more, table) = With(BoxesIn(less, table), cell, BoxesRead(refs, table, cell))
  <1>1. DOMAIN less = DOMAIN fs \ {cell} /\ \A c \in DOMAIN less : less[c] = fs[c]  BY DEF Without
  <1>2. DOMAIN more = DOMAIN fs \cup {cell} /\ more[cell] = refs /\ \A c \in DOMAIN fs \ {cell} : more[c] = fs[c]
    BY DEF With
  <1>3. more = [c \in DOMAIN more |-> more[c]]  BY DEF With
  <1>4. DOMAIN CellsOf(less) = DOMAIN less /\ DOMAIN BoxesIn(less, table) = DOMAIN less  BY DEF CellsOf, BoxesIn
  <1>5. AreFormulas(more)
    <2>1. \A c \in DOMAIN more : more[c] \in RefSets  BY <1>2 DEF AreFormulas
    <2> QED  BY <1>3, <2>1 DEF AreFormulas
  <1>6. DOMAIN more = DOMAIN less \cup {cell}  BY <1>1, <1>2
  <1>7. CellsOf(more) = With(CellsOf(less), cell, refs.cells)  BY <1>1, <1>2, <1>4, <1>6 DEF CellsOf, With
  <1>8. BoxesIn(more, table) = With(BoxesIn(less, table), cell, BoxesRead(refs, table, cell))
    BY <1>1, <1>2, <1>4, <1>6 DEF BoxesIn, With
  <1> QED  BY <1>5, <1>6, <1>7, <1>8

LEMMA UnregisteredIs ==
    ASSUME NEW fs, AreFormulas(fs), NEW table, IsTable(table), NEW cell
    PROVE  Unregistered(Canon(fs, table), cell) = Canon(Without(fs, {cell}), table)
  <1> DEFINE g == Canon(fs, table)
             less == Without(fs, {cell})
             K == BoxesIn(fs, table)
             fewer == BoxesIn(less, table)
             gone == Keys(K) \ Keys(fewer)
  <1>1. /\ g.cellReaders = Index(CellsOf(fs)) /\ g.boxReaders = Index(K)
        /\ g.cellsOf = Held(CellsOf(fs)) /\ g.boxesOf = Held(K)
        /\ g.nodes = DOMAIN fs /\ g.lanes = LanesIndex(Keys(K))
    BY DEF Canon
  <1>2. /\ AreFormulas(less) /\ DOMAIN less = DOMAIN fs \ {cell}
        /\ CellsOf(less) = But(CellsOf(fs), cell) /\ fewer = But(K, cell)
    BY WithoutFormula
  <1>3. Take(g.boxReaders, At(g.boxesOf, cell), cell) = Index(fewer)  BY <1>1, <1>2, TakeAny
  <1>4. Take(g.cellReaders, At(g.cellsOf, cell), cell) = Index(CellsOf(less))  BY <1>1, <1>2, TakeAny
  <1>5. DOMAIN g.boxReaders \ DOMAIN Index(fewer) = gone  BY <1>1 DEF Index
  <1>6. IsFiniteSet(gone) /\ gone \subseteq Keys(K) /\ Keys(K) \ gone = Keys(fewer)
    <2>1. DOMAIN K = DOMAIN fs /\ \A c \in DOMAIN fs : K[c] = BoxesRead(fs[c], table, c)  BY DEF BoxesIn
    <2> HIDE DEF K, fewer
    <2>2. Keys(K) \ gone = Keys(fewer)  BY <1>2, KeysBut
    <2>3. CASE cell \in DOMAIN fs
      <3>1. fs[cell] \in RefSets  BY <2>3 DEF AreFormulas
      <3>2. IsFiniteSet(K[cell])  BY <2>1, <2>3, <3>1, ReadBoxes
      <3>3. gone \subseteq K[cell]  BY <1>2, <2>1, <2>3, KeysBut
      <3> QED  BY <2>2, <3>2, <3>3, FS_Subset
    <2>4. CASE cell \notin DOMAIN fs
      <3>1. gone = {}  BY <1>2, <2>1, <2>4, KeysBut
      <3> QED  BY <2>2, <3>1, FS_EmptySet
    <2> QED  BY <2>3, <2>4
  <1>7. FoldSet(LAMBDA box, lanes : RemoveBox(lanes, box), LanesIndex(Keys(K)), gone) = LanesIndex(Keys(fewer))
    <2>1. AreBoxes(Keys(K))  BY KeysBoxes
    <2> HIDE DEF K, fewer, gone
    <2>2. FoldSet(LAMBDA box, lanes : RemoveBox(lanes, box), LanesIndex(Keys(K)), gone) = LanesIndex(Keys(K) \ gone)
      BY <1>6, <2>1, FoldRemove
    <2> QED  BY <1>6, <2>2
  <1>8. Without(g.cellsOf, {cell}) = Held(CellsOf(less)) /\ Without(g.boxesOf, {cell}) = Held(fewer)
    BY <1>1, <1>2, HeldBut
  <1> HIDE DEF g, less, K, fewer, gone
  <1>9. Unregistered(g, cell) =
            [cellReaders |-> Index(CellsOf(less)), boxReaders |-> Index(fewer),
             cellsOf |-> Held(CellsOf(less)), boxesOf |-> Held(fewer),
             nodes |-> DOMAIN less, lanes |-> LanesIndex(Keys(fewer))]
    <2>1. Unregistered(g, cell) =
            [cellReaders |-> Index(CellsOf(less)), boxReaders |-> Index(fewer),
             cellsOf |-> Held(CellsOf(less)), boxesOf |-> Held(fewer),
             nodes |-> g.nodes \ {cell},
             lanes |-> FoldSet(LAMBDA box, lanes : RemoveBox(lanes, box), g.lanes,
                               DOMAIN g.boxReaders \ DOMAIN Index(fewer))]
      BY <1>3, <1>4, <1>8, Zenon DEF Unregistered
    <2> QED  BY <1>1, <1>2, <1>5, <1>7, <2>1, Zenon
  <1> QED  BY <1>9 DEF Canon, g, less, fewer

LEMMA RegisteredIs ==
    ASSUME NEW fs, AreFormulas(fs), NEW table, IsTable(table), NEW cell, NEW refs \in RefSets
    PROVE  Registered(Canon(fs, table), table, cell, refs) = Canon(With(fs, cell, refs), table)
  <1> DEFINE less == Without(fs, {cell})
             more == With(fs, cell, refs)
             clean == Canon(less, table)
             K == BoxesIn(less, table)
             boxes == BoxesRead(refs, table, cell)
             fuller == BoxesIn(more, table)
             fresh == boxes \ Keys(K)
  <1>1. Unregistered(Canon(fs, table), cell) = clean  BY UnregisteredIs
  <1>2. /\ clean.cellReaders = Index(CellsOf(less)) /\ clean.boxReaders = Index(K)
        /\ clean.cellsOf = Held(CellsOf(less)) /\ clean.boxesOf = Held(K)
        /\ clean.nodes = DOMAIN less /\ clean.lanes = LanesIndex(Keys(K))
    BY DEF Canon
  <1>3. AreFormulas(less) /\ DOMAIN less = DOMAIN fs \ {cell}  BY WithoutFormula
  <1>4. /\ AreFormulas(more) /\ DOMAIN more = DOMAIN less \cup {cell}
        /\ CellsOf(more) = With(CellsOf(less), cell, refs.cells) /\ fuller = With(K, cell, boxes)
    <2> HIDE DEF less, more
    <2>1. more = With(fs, cell, refs) /\ less = Without(fs, {cell})  BY DEF more, less
    <2>2. AreFormulas(more)  BY <2>1, WithFormula
    <2>3. CellsOf(more) = With(CellsOf(less), cell, refs.cells)  BY <2>1, WithFormula
    <2>4. BoxesIn(more, table) = With(BoxesIn(less, table), cell, BoxesRead(refs, table, cell))  BY <2>1, WithFormula
    <2>5. DOMAIN more = DOMAIN less \cup {cell}  BY <2>1 DEF With, Without
    <2> QED  BY <2>2, <2>3, <2>4, <2>5
  <1>5. cell \notin DOMAIN CellsOf(less) /\ cell \notin DOMAIN K  BY <1>3 DEF CellsOf, BoxesIn
  <1>6. Put(clean.cellReaders, refs.cells, cell) = Index(CellsOf(more))  BY <1>2, <1>4, <1>5, PutIs
  <1>7. Put(clean.boxReaders, boxes, cell) = Index(fuller)
    <2> HIDE DEF K, boxes, fuller, clean
    <2> QED  BY <1>2, <1>4, <1>5, PutIs
  <1>8. /\ Entry(clean.cellsOf, cell, refs.cells) = Held(CellsOf(more))
        /\ Entry(clean.boxesOf, cell, boxes) = Held(fuller)
    <2> HIDE DEF K, boxes, fuller, clean
    <2> QED  BY <1>2, <1>4, <1>5, HeldWith
  <1>9. boxes \ DOMAIN clean.boxReaders = fresh  BY <1>2 DEF Index
  <1>10. Keys(fuller) = Keys(K) \cup fresh /\ Keys(K) \cap fresh = {}
    <2> HIDE DEF K, boxes, fuller
    <2>1. Keys(fuller) = Keys(K) \cup boxes  BY <1>4, <1>5, KeysWith
    <2> QED  BY <2>1
  <1>11. FoldSet(LAMBDA box, lanes : InsertBox(lanes, box), LanesIndex(Keys(K)), fresh) = LanesIndex(Keys(fuller))
    <2>1. AreBoxes(Keys(fuller))  BY <1>4, KeysBoxes
    <2>2. IsFiniteSet(boxes)  BY ReadBoxes
    <2> HIDE DEF K, boxes, fuller
    <2>3. IsFiniteSet(fresh)
      <3>1. fresh \subseteq boxes  OBVIOUS
      <3> QED  BY <2>2, <3>1, FS_Subset
    <2> HIDE DEF fresh
    <2>4. AreBoxes(Keys(K) \cup fresh)  BY <1>10, <2>1
    <2>5. FoldSet(LAMBDA box, lanes : InsertBox(lanes, box), LanesIndex(Keys(K)), fresh) = LanesIndex(Keys(K) \cup fresh)
      BY <1>10, <2>3, <2>4, FoldInsert
    <2> QED  BY <1>10, <2>5
  <1> HIDE DEF clean, less, more, K, fuller, fresh
  <1>12. Registered(Canon(fs, table), table, cell, refs) =
            [cellReaders |-> Index(CellsOf(more)), boxReaders |-> Index(fuller),
             cellsOf |-> Held(CellsOf(more)), boxesOf |-> Held(fuller),
             nodes |-> DOMAIN more, lanes |-> LanesIndex(Keys(fuller))]
    <2>1. Registered(Canon(fs, table), table, cell, refs) =
            [cellReaders |-> Index(CellsOf(more)), boxReaders |-> Index(fuller),
             cellsOf |-> Held(CellsOf(more)), boxesOf |-> Held(fuller),
             nodes |-> clean.nodes \cup {cell},
             lanes |-> FoldSet(LAMBDA box, lanes : InsertBox(lanes, box), clean.lanes,
                               boxes \ DOMAIN clean.boxReaders)]
      BY <1>1, <1>6, <1>7, <1>8, Zenon DEF Registered
    <2> QED  BY <1>2, <1>4, <1>9, <1>11, <2>1, Zenon
  <1> QED  BY <1>12 DEF Canon, more, fuller

LEMMA NothingRead ==
    ASSUME NEW fs, DOMAIN fs = {}, NEW table
    PROVE  Canon(fs, table) = NoGraph
  <1>1. DOMAIN CellsOf(fs) = {} /\ DOMAIN BoxesIn(fs, table) = {}  BY DEF CellsOf, BoxesIn
  <1>2. ASSUME NEW K, DOMAIN K = {} PROVE Keys(K) = {} /\ Index(K) = EmptyMap /\ Held(K) = EmptyMap
    <2>1. Keys(K) = {}  BY <1>2 DEF Keys
    <2>2. DOMAIN Index(K) = {} /\ Index(K) = [k \in {} |-> Index(K)[k]]  BY <2>1 DEF Index
    <2>3. {y \in DOMAIN K : K[y] # {}} = {}  BY <1>2
    <2>4. Held(K) = [x \in {} |-> K[x]]  BY <2>3 DEF Held
    <2>5. \A h : [k \in {} |-> h[k]] = EmptyMap  BY DEF EmptyMap
    <2> QED  BY <2>1, <2>2, <2>4, <2>5
  <1>3. LanesIndex({}) = EmptyMap
    <2>1. UNION {LanesOf(b) : b \in {}} = {}  OBVIOUS
    <2>2. LanesIndex({}) = [lane \in {} |-> TreeOf(InLane({}, lane))]  BY <2>1 DEF LanesIndex
    <2>3. \A lane \in {} : TreeOf(InLane({}, lane)) = {}  OBVIOUS
    <2> QED  BY <2>2, <2>3 DEF EmptyMap
  <1> QED  BY <1>1, <1>2, <1>3 DEF Canon, NoGraph

LEMMA RebuiltIs ==
    ASSUME NEW fs, AreFormulas(fs), IsFiniteSet(DOMAIN fs), NEW table, IsTable(table)
    PROVE  Rebuilt(fs, table) = Canon(fs, table)
  <1> DEFINE E == DOMAIN fs
             part(t) == [cell \in t |-> fs[cell]]
             pick(t) == CHOOSE x \in t : TRUE
             Solves(f) == f = [t \in SUBSET E |-> IF t = {} THEN NoGraph
                                    ELSE Registered(f[t \ {pick(t)}], table, pick(t), fs[pick(t)])]
             made == [t \in SUBSET E |-> Canon(part(t), table)]
  <1>1. Rebuilt(fs, table) = (CHOOSE f : Solves(f))[E]  BY DEF Rebuilt, FoldSet, MapThenFoldSet
  <1>2. \A t \in SUBSET E : t # {} => pick(t) \in t  OBVIOUS
  <1> HIDE DEF pick
  <1>3. \A t \in SUBSET E : \A x \in t : Registered(Canon(part(t \ {x}), table), table, x, fs[x]) = Canon(part(t), table)
    <2> SUFFICES ASSUME NEW t \in SUBSET E, NEW x \in t
                 PROVE  Registered(Canon(part(t \ {x}), table), table, x, fs[x]) = Canon(part(t), table)
      OBVIOUS
    <2> DEFINE less == part(t \ {x})
    <2>1. AreFormulas(less) /\ fs[x] \in RefSets  BY DEF AreFormulas
    <2>2. With(less, x, fs[x]) = part(t)
      <3>1. (t \ {x}) \cup {x} = t  OBVIOUS
      <3>2. With(less, x, fs[x]) = [c \in (t \ {x}) \cup {x} |-> IF c = x THEN fs[x] ELSE less[c]]  BY DEF With
      <3>3. \A c \in t : (IF c = x THEN fs[x] ELSE less[c]) = fs[c]  OBVIOUS
      <3> HIDE DEF less
      <3> QED  BY <3>1, <3>2, <3>3
    <2> HIDE DEF less, part
    <2>3. Registered(Canon(less, table), table, x, fs[x]) = Canon(With(less, x, fs[x]), table)
      BY <2>1, RegisteredIs
    <2> QED  BY <2>2, <2>3 DEF less
  <1>4. Solves(made)
    <2>1. \A t \in SUBSET E : made[t] = Canon(part(t), table)  OBVIOUS
    <2>2. Canon(part({}), table) = NoGraph
      <3>1. DOMAIN part({}) = {}  OBVIOUS
      <3> HIDE DEF part
      <3> QED  BY <3>1, NothingRead
    <2>4. made = [t \in SUBSET E |-> made[t]]  OBVIOUS
    <2>5. {} \in SUBSET E /\ made[{}] = NoGraph  BY <2>1, <2>2
    <2> HIDE DEF made, E
    <2>3. \A t \in SUBSET E : t # {} => made[t] = Registered(made[t \ {pick(t)}], table, pick(t), fs[pick(t)])
      <3> SUFFICES ASSUME NEW t \in SUBSET E, t # {}
                   PROVE  made[t] = Registered(made[t \ {pick(t)}], table, pick(t), fs[pick(t)])
        OBVIOUS
      <3>1. pick(t) \in t /\ t \ {pick(t)} \in SUBSET E  BY <1>2
      <3> HIDE DEF part
      <3> QED  BY <1>3, <2>1, <3>1
    <2>6. \A t \in SUBSET E : made[t] = IF t = {} THEN NoGraph
                                  ELSE Registered(made[t \ {pick(t)}], table, pick(t), fs[pick(t)])
      BY <2>3, <2>5
    <2> QED  BY <2>4, <2>6
  <1>5. ASSUME NEW f, Solves(f) PROVE f = made
    <2> HIDE DEF E
    <2>1. /\ \A t \in SUBSET E : f[t] = IF t = {} THEN NoGraph
                                        ELSE Registered(f[t \ {pick(t)}], table, pick(t), fs[pick(t)])
          /\ f = [t \in SUBSET E |-> f[t]]
      BY <1>5
    <2>2. /\ \A t \in SUBSET E : made[t] = IF t = {} THEN NoGraph
                                        ELSE Registered(made[t \ {pick(t)}], table, pick(t), fs[pick(t)])
          /\ made = [t \in SUBSET E |-> made[t]]
      BY <1>4
    <2>0. IsFiniteSet(E)  BY DEF E
    <2> HIDE DEF made
    <2>3. Inductive(f, made, E)  BY <1>2, <2>1, <2>2 DEF Inductive
    <2>4. OfParts(f, E) /\ OfParts(made, E)  BY <2>1, <2>2, Zenon DEF OfParts
    <2> QED  BY <2>0, <2>3, <2>4, SetInduction, Zenon
  <1>6. (CHOOSE f : Solves(f)) = made
    <2> HIDE DEF Solves, made
    <2> QED  BY <1>4, <1>5, Zenon
  <1>7. made[E] = Canon(fs, table)
    <2>1. made[E] = Canon(part(E), table)  OBVIOUS
    <2>2. part(E) = fs  BY DEF AreFormulas
    <2> QED  BY <2>1, <2>2
  <1> HIDE DEF Solves, made
  <1> QED  BY <1>1, <1>6, <1>7

-----------------------------------------------------------------------------
(* The probe                                                               *)

IsCell(c) == c[2] \in 0 .. Leaves - 1 /\ c[3] \in Nat

(* Narrow boxes are in the lane of each column, wide ones in one of their own. *)
LEMMA LaneOf ==
    ASSUME NEW b, IsBox(b), NEW c, IsCell(c)
    PROVE  /\ <<c[1], c[3]>> \in LanesOf(b) <=>
                  c[1] = b.sheet /\ b.right - b.left < NarrowCols /\ c[3] \in b.left .. b.right
           /\ <<c[1], WideLane>> \in LanesOf(b) <=> c[1] = b.sheet /\ ~(b.right - b.left < NarrowCols)
           /\ c[3] # WideLane
  <1>0. c[3] \in Nat /\ b.left \in Nat /\ b.right \in Nat  BY DEF IsCell, IsBox
  <1> DEFINE sheet == b.sheet
             left == b.left
             right == b.right
             x == c[1]
             col == c[3]
  <1>1. LanesOf(b) = {sheet} \X (IF right - left < NarrowCols THEN left .. right ELSE {WideLane})  BY DEF LanesOf
  <1>2. col \in Nat /\ left \in Nat /\ right \in Nat  BY <1>0
  <1> HIDE DEF sheet, left, right, x, col
  <1>3. \A l : <<x, l>> \in LanesOf(b) <=>
              x = sheet /\ l \in (IF right - left < NarrowCols THEN left .. right ELSE {WideLane})
    BY <1>1
  <1>4. col # WideLane /\ WideLane \notin left .. right  BY <1>2 DEF WideLane
  <1> QED  BY <1>3, <1>4 DEF sheet, left, right, x, col

(* A level with a node in use is counted. *)
LEMMA LevelUsed ==
    ASSUME NEW S, AreBoxes(S), NEW box \in S, NEW row \in 0 .. Leaves - 1, NEW d \in Levels, Takes(box, row, d)
    PROVE  Depth - d \in UsedLevels(TreeOf(S)) /\ Depth - (Depth - d) = d
  <1> DEFINE nodes == Keys(Filing(S))
             n == Above(row, d)
             l == Depth - d
  <1>0. Depth \in Nat /\ Levels = 0 .. Depth  BY TreeAssumption DEF Levels
  <1>1. n \in nodes
    <2>1. n \in NodesOf(box)  BY NodesAre DEF AreBoxes
    <2> QED  BY <2>1 DEF Keys, Filing
  <1>2. LevelOf(n) = l /\ l \in Levels
    <2>1. Power[Depth - d] <= n /\ n < Power[Depth - d + 1]  BY AboveLevel
    <2>2. n \in Nat  BY AboveIs
    <2>3. l \in Levels  BY <1>0
    <2> HIDE DEF n
    <2> QED  BY <2>1, <2>2, <2>3, LevelIs
  <1>3. n \in OnLevel(nodes, l)  BY <1>1, <1>2 DEF OnLevel
  <1>4. IsFiniteSet(OnLevel(nodes, l))
    <2>1. OnLevel(nodes, l) \subseteq nodes  BY DEF OnLevel
    <2> QED  BY <2>1, NodesFinite, FS_Subset
  <1>5. Cardinality(OnLevel(nodes, l)) \in Nat /\ Cardinality(OnLevel(nodes, l)) # 0
    <2> DEFINE s == OnLevel(nodes, l)
    <2>1. s # {} /\ IsFiniteSet(s)  BY <1>3, <1>4
    <2> HIDE DEF s
    <2>2. Cardinality(s) \in Nat /\ Cardinality(s) # 0  BY <2>1, FS_EmptySet, FS_CardinalityType
    <2> QED  BY <2>2 DEF s
  <1>6. TreeOf(S).perLevel[l] = Cardinality(OnLevel(nodes, l))  BY <1>2 DEF TreeOf, Counts
  <1>7. TreeOf(S).perLevel[l] > 0
    <2> DEFINE k == Cardinality(OnLevel(nodes, l))
    <2>1. k \in Nat /\ k # 0 /\ TreeOf(S).perLevel[l] = k  BY <1>5, <1>6
    <2> HIDE DEF k, l
    <2> QED  BY <2>1
  <1>8. l \in UsedLevels(TreeOf(S))  BY <1>2, <1>7 DEF UsedLevels
  <1> QED  BY <1>0, <1>8

(* What is met in a lane: nodes and boxes. *)
LEMMA MetIs ==
    ASSUME NEW B, AreBoxes(B), NEW c, IsCell(c), NEW lane, lane \in {<<c[1], c[3]>>, <<c[1], WideLane>>}
    PROVE  /\ \A hit \in Met(LanesIndex(B), lane, c) :
                  hit = <<hit[1], hit[2]>> /\ hit[2] \in InLane(B, lane) /\ Holds(hit[2], c)
           /\ \A box \in InLane(B, lane) : Holds(box, c) => \E n : <<n, box>> \in Met(LanesIndex(B), lane, c)
           /\ \A h, k \in Met(LanesIndex(B), lane, c) : h[2] = k[2] => h = k
  <1> DEFINE S == InLane(B, lane)
             tree == TreeOf(S)
             row == c[2]
             col == c[3]
             used == UsedLevels(tree)
             path == {(Leaves + row) \div Power[Depth - l] : l \in used}
             met == Met(LanesIndex(B), lane, c)
             Fits(box) == lane[2] # WideLane \/ col \in box.left .. box.right
  <1>0. Depth \in Nat /\ Levels = 0 .. Depth  BY TreeAssumption DEF Levels
  <1>1. row \in 0 .. Leaves - 1 /\ TreeAt(LanesIndex(B), lane) = tree  BY LaneAt DEF IsCell
  <1>2. AreBoxes(S)  BY DEF AreBoxes, InLane
  <1>3. ASSUME NEW box \in S PROVE Holds(box, c) <=> row \in box.top .. box.bottom /\ Fits(box)
    <2>1. IsBox(box) /\ lane \in LanesOf(box)  BY <1>2 DEF AreBoxes, InLane
    <2>2. CASE lane = <<c[1], c[3]>>
      <3>1. c[1] = box.sheet /\ col \in box.left .. box.right /\ lane[2] # WideLane  BY <2>1, <2>2, LaneOf
      <3> QED  BY <3>1 DEF Holds
    <2>3. CASE lane = <<c[1], WideLane>>
      <3>1. c[1] = box.sheet /\ lane[2] = WideLane  BY <2>1, <2>3, LaneOf
      <3> QED  BY <3>1 DEF Holds
    <2> QED  BY <2>2, <2>3
  <1>4. \A n : At(tree.nodes, n) = {box \in S : n \in NodesOf(box)}
    <2>1. tree.nodes = Index(Filing(S))  BY DEF TreeOf
    <2>2. DOMAIN Filing(S) = S /\ \A box \in S : Filing(S)[box] = NodesOf(box)  BY DEF Filing
    <2>3. \A n : At(Index(Filing(S)), n) = {box \in DOMAIN Filing(S) : n \in Filing(S)[box]}  BY IndexAt
    <2> HIDE DEF tree, S
    <2> QED  BY <2>1, <2>2, <2>3
  <1>5. tree.boxes = S  BY TreeBoxes
  <1>6. used \subseteq Levels  BY DEF UsedLevels
  <1>7. \A l \in used : Depth - l \in Levels /\ (Leaves + row) \div Power[Depth - l] = Above(row, Depth - l)
    BY <1>0, <1>6 DEF Above
  <1>8. ASSUME NEW box \in S, NEW n \in path, n \in NodesOf(box)
        PROVE  \E d \in Levels : n = Above(row, d) /\ Takes(box, row, d)
    <2>1. PICK l \in used : n = (Leaves + row) \div Power[Depth - l]  BY <1>8
    <2>2. Depth - l \in Levels /\ n = Above(row, Depth - l)  BY <1>7, <2>1
    <2>3. IsBox(box)  BY <1>2 DEF AreBoxes
    <2>4. Takes(box, row, Depth - l)  BY <1>1, <1>8, <2>2, <2>3, NodesAre
    <2> QED  BY <2>2, <2>4
  <1>9. ASSUME NEW box \in S, row \in box.top .. box.bottom PROVE \E n \in path : n \in NodesOf(box)
    <2>1. IsBox(box)  BY <1>2 DEF AreBoxes
    <2>2. PICK d \in Levels : Takes(box, row, d)  BY <1>1, <1>9, <2>1, TakesSome
    <2>3. Depth - d \in used /\ Depth - (Depth - d) = d
      <3> HIDE DEF S, row
      <3> QED  BY <1>1, <1>2, <2>2, LevelUsed DEF used, tree
    <2>4. Above(row, d) \in path  BY <1>7, <2>3
    <2>5. Above(row, d) \in NodesOf(box)  BY <1>1, <2>1, <2>2, NodesAre
    <2> QED  BY <2>4, <2>5
  <1>10. CASE Cardinality(tree.boxes) <= Cardinality(used)
    <2>1. met = {0} \X {box \in S : Holds(box, c)}  BY <1>1, <1>5, <1>10 DEF Met
    <2> HIDE DEF met, S
    <2>2. \A h : h \in met <=> \E box \in S : Holds(box, c) /\ h = <<0, box>>  BY <2>1
    <2>3. ASSUME NEW h \in met
          PROVE  h = <<h[1], h[2]>> /\ h[2] \in S /\ Holds(h[2], c) /\ h[1] = 0
      <3>1. PICK box \in S : Holds(box, c) /\ h = <<0, box>>  BY <2>2
      <3> QED  BY <3>1
    <2>4. \A box \in S : Holds(box, c) => \E n : <<n, box>> \in met  BY <2>2
    <2>5. \A h, k \in met : h[2] = k[2] => h = k  BY <2>3
    <2> QED  BY <2>3, <2>4, <2>5 DEF met, S
  <1>11. CASE ~(Cardinality(tree.boxes) <= Cardinality(used))
    <2>1. met = UNION {{n} \X {box \in At(tree.nodes, n) : Fits(box)} : n \in path}  BY <1>1, <1>11 DEF Met
    <2> HIDE DEF met, Fits, tree, path
    <2>2. \A h : h \in met <=> \E n \in path : \E box \in S : n \in NodesOf(box) /\ Fits(box) /\ h = <<n, box>>
      BY <1>4, <2>1
    <2>3. ASSUME NEW h \in met
          PROVE  /\ h = <<h[1], h[2]>> /\ h[2] \in S /\ Holds(h[2], c)
                 /\ \E d \in Levels : h[1] = Above(row, d) /\ Takes(h[2], row, d)
      <3>1. PICK n \in path, box \in S : n \in NodesOf(box) /\ Fits(box) /\ h = <<n, box>>  BY <2>2
      <3>2. PICK d \in Levels : n = Above(row, d) /\ Takes(box, row, d)  BY <1>8, <3>1
      <3>3. IsBox(box)  BY <1>2 DEF AreBoxes
      <3>4. row \in box.top .. box.bottom  BY <1>1, <3>2, <3>3, TakesSome
      <3>5. Holds(box, c)  BY <1>3, <3>1, <3>4
      <3> QED  BY <3>1, <3>2, <3>5
    <2>4. ASSUME NEW box \in S, Holds(box, c) PROVE \E n : <<n, box>> \in met
      <3>1. row \in box.top .. box.bottom /\ Fits(box)  BY <1>3, <2>4
      <3>2. PICK n \in path : n \in NodesOf(box)  BY <1>9, <3>1
      <3> QED  BY <2>2, <3>1, <3>2
    <2>5. ASSUME NEW h \in met, NEW k \in met, h[2] = k[2] PROVE h = k
      <3>1. PICK d \in Levels : h[1] = Above(row, d) /\ Takes(h[2], row, d)  BY <2>3
      <3>2. PICK e \in Levels : k[1] = Above(row, e) /\ Takes(k[2], row, e)  BY <2>3
      <3>3. IsBox(h[2])  BY <1>2, <2>3 DEF AreBoxes
      <3>4. d = e  BY <1>1, <2>5, <3>1, <3>2, <3>3, TakesOnce
      <3>5. h = <<h[1], h[2]>> /\ k = <<k[1], k[2]>>  BY <2>3
      <3> QED  BY <2>5, <3>1, <3>2, <3>4, <3>5
    <2> QED  BY <2>3, <2>4, <2>5 DEF met
  <1> QED  BY <1>10, <1>11

(* The stab finds the boxes that hold the cell, each of them once.         *)
LEMMA StabIs ==
    ASSUME NEW B, AreBoxes(B), NEW c, IsCell(c)
    PROVE  /\ Stab(LanesIndex(B), c) = {box \in B : Holds(box, c)}
           /\ \A h, k \in Hits(LanesIndex(B), c) : h[2][2] = k[2][2] => h = k
  <1> DEFINE lanes == {<<c[1], c[3]>>, <<c[1], WideLane>>}
             met(lane) == Met(LanesIndex(B), lane, c)
             hits == Hits(LanesIndex(B), c)
  <1>1. \A h : h \in hits <=> \E lane \in lanes : \E m \in met(lane) : h = <<lane, m>>
    <2>1. hits = UNION {{lane} \X met(lane) : lane \in lanes}  BY DEF Hits
    <2> HIDE DEF hits, lanes, met
    <2> QED  BY <2>1
  <1>2. ASSUME NEW lane \in lanes
        PROVE  /\ \A m \in met(lane) : m[2] \in InLane(B, lane) /\ Holds(m[2], c)
               /\ \A box \in InLane(B, lane) : Holds(box, c) => \E m \in met(lane) : m[2] = box
               /\ \A m, k \in met(lane) : m[2] = k[2] => m = k
    <2>1. /\ \A m \in met(lane) : m = <<m[1], m[2]>> /\ m[2] \in InLane(B, lane) /\ Holds(m[2], c)
          /\ \A box \in InLane(B, lane) : Holds(box, c) => \E n : <<n, box>> \in met(lane)
          /\ \A m, k \in met(lane) : m[2] = k[2] => m = k
      BY MetIs
    <2> HIDE DEF met, lanes
    <2>2. \A n, box : <<n, box>>[2] = box  OBVIOUS
    <2> QED  BY <2>1, <2>2
  <1>3. ASSUME NEW box \in B, NEW lane \in lanes, NEW other \in lanes,
               box \in InLane(B, lane), box \in InLane(B, other)
        PROVE  lane = other
    <2>1. IsBox(box)  BY DEF AreBoxes
    <2>2. lane \in LanesOf(box) /\ other \in LanesOf(box)  BY <1>3 DEF InLane
    <2>3. ~(<<c[1], c[3]>> \in LanesOf(box) /\ <<c[1], WideLane>> \in LanesOf(box))  BY <2>1, LaneOf
    <2> QED  BY <1>3, <2>2, <2>3
  <1>4. ASSUME NEW box \in B, Holds(box, c) PROVE \E lane \in lanes : box \in InLane(B, lane)
    <2>1. IsBox(box)  BY DEF AreBoxes
    <2>2. c[1] = box.sheet /\ c[3] \in box.left .. box.right  BY <1>4 DEF Holds
    <2>3. <<c[1], c[3]>> \in LanesOf(box) \/ <<c[1], WideLane>> \in LanesOf(box)  BY <2>1, <2>2, LaneOf
    <2> QED  BY <2>3 DEF InLane
  <1>5. InLane(B, <<c[1], c[3]>>) \subseteq B /\ InLane(B, <<c[1], WideLane>>) \subseteq B  BY DEF InLane
  <1>6. Stab(LanesIndex(B), c) = {h[2][2] : h \in hits}  BY DEF Stab
  <1> HIDE DEF met, hits
  <1>7. ASSUME NEW box PROVE box \in Stab(LanesIndex(B), c) <=> box \in B /\ Holds(box, c)
    <2>1. ASSUME box \in Stab(LanesIndex(B), c) PROVE box \in B /\ Holds(box, c)
      <3>1. PICK h \in hits : box = h[2][2]  BY <1>6, <2>1
      <3>0. PICK lane \in lanes : \E m \in met(lane) : h = <<lane, m>>  BY <1>1
      <3>2. PICK m \in met(lane) : h = <<lane, m>>  BY <3>0
      <3>3. box = m[2]  BY <3>1, <3>2
      <3> QED  BY <1>2, <1>5, <3>2, <3>3
    <2>2. ASSUME box \in B, Holds(box, c) PROVE box \in Stab(LanesIndex(B), c)
      <3>1. PICK lane \in lanes : box \in InLane(B, lane)  BY <1>4, <2>2
      <3>2. PICK m \in met(lane) : m[2] = box  BY <1>2, <2>2, <3>1
      <3>3. <<lane, m>> \in hits  BY <1>1, <3>2
      <3>4. <<lane, m>>[2][2] = box  BY <3>2
      <3> QED  BY <1>6, <3>3, <3>4
    <2> QED  BY <2>1, <2>2
  <1>8. ASSUME NEW h \in hits, NEW k \in hits, h[2][2] = k[2][2] PROVE h = k
    <2>a. PICK lane \in lanes : \E m \in met(lane) : h = <<lane, m>>  BY <1>1
    <2>1. PICK m \in met(lane) : h = <<lane, m>>  BY <2>a
    <2>b. PICK other \in lanes : \E n \in met(other) : k = <<other, n>>  BY <1>1
    <2>2. PICK n \in met(other) : k = <<other, n>>  BY <2>b
    <2>3. m[2] = n[2]  BY <1>8, <2>1, <2>2
    <2>4. m[2] \in InLane(B, lane) /\ m[2] \in InLane(B, other) /\ m[2] \in B  BY <1>2, <1>5, <2>1, <2>2, <2>3
    <2>5. lane = other  BY <1>3, <2>4
    <2>6. m = n  BY <1>2, <2>1, <2>2, <2>3, <2>5
    <2> QED  BY <2>1, <2>2, <2>5, <2>6
  <1> QED  BY <1>7, <1>8 DEF hits

-----------------------------------------------------------------------------
(* The invariant: the graph is that of the formulas and the names.         *)

Inv == /\ graph = Canon(formulas, names)
       /\ AreFormulas(formulas) /\ IsFiniteSet(DOMAIN formulas)
       /\ IsTable(names)

LEMMA InitInv == Init => Inv
  <1> SUFFICES ASSUME Init PROVE Inv  OBVIOUS
  <1>1. DOMAIN formulas = {} /\ graph = NoGraph /\ formulas = EmptyMap  BY DEF Init, EmptyMap
  <1>2. graph = Canon(formulas, names)  BY <1>1, NothingRead
  <1>3. AreFormulas(formulas)  BY <1>1 DEF AreFormulas, EmptyMap
  <1>4. IsFiniteSet(DOMAIN formulas)  BY <1>1, FS_EmptySet
  <1>5. IsTable(names)  BY DEF Init, IsTable
  <1> QED  BY <1>2, <1>3, <1>4, <1>5 DEF Inv

LEMMA NextInv == Inv /\ [Next]_vars => Inv'
  <1> SUFFICES ASSUME Inv, [Next]_vars PROVE Inv'  OBVIOUS
  <1>0. /\ graph = Canon(formulas, names) /\ AreFormulas(formulas)
        /\ IsFiniteSet(DOMAIN formulas) /\ IsTable(names)
    BY DEF Inv
  <1>1. ASSUME NEW cell \in FormulaCells, NEW refs \in RefSets, Register(cell, refs) PROVE Inv'
    <2>1. formulas' = With(formulas, cell, refs) /\ names' = names
          /\ graph' = Registered(graph, names, cell, refs)
      BY <1>1 DEF Register
    <2>2. graph' = Canon(formulas', names')  BY <1>0, <2>1, RegisteredIs
    <2>3. AreFormulas(formulas')
      <3> DEFINE less == Without(formulas, {cell})
      <3>1. less = Without(formulas, {cell})  OBVIOUS
      <3> HIDE DEF less
      <3> QED  BY <1>0, <2>1, <3>1, WithFormula
    <2>4. IsFiniteSet(DOMAIN formulas')
      <3>1. DOMAIN formulas' = DOMAIN formulas \cup {cell}  BY <2>1 DEF With
      <3> QED  BY <1>0, <3>1, FS_AddElement
    <2> QED  BY <1>0, <2>1, <2>2, <2>3, <2>4 DEF Inv
  <1>2. ASSUME NEW cell \in FormulaCells, Unregister(cell) PROVE Inv'
    <2>1. formulas' = Without(formulas, {cell}) /\ names' = names /\ graph' = Unregistered(graph, cell)
      BY <1>2 DEF Unregister
    <2>2. graph' = Canon(formulas', names')  BY <1>0, <2>1, UnregisteredIs
    <2>3. AreFormulas(formulas') /\ DOMAIN formulas' = DOMAIN formulas \ {cell}
      BY <1>0, <2>1, WithoutFormula
    <2>4. IsFiniteSet(DOMAIN formulas')  BY <1>0, <2>3, FS_RemoveElement
    <2> QED  BY <1>0, <2>1, <2>2, <2>3, <2>4 DEF Inv
  <1>3. ASSUME NEW name \in Names, NEW target \in Boxes \cup {NotRange}, Retarget(name, target) PROVE Inv'
    <2>1. names' = [names EXCEPT ![name] = target] /\ formulas' = formulas /\ graph' = Rebuilt(formulas, names')
      BY <1>3 DEF Retarget
    <2>2. IsTable(names')  BY <1>0, <1>3, <2>1 DEF IsTable
    <2>3. graph' = Canon(formulas', names')  BY <1>0, <2>1, <2>2, RebuiltIs
    <2> QED  BY <1>0, <2>1, <2>2, <2>3 DEF Inv
  <1>4. ASSUME UNCHANGED vars PROVE Inv'
    <2>1. formulas' = formulas /\ names' = names /\ graph' = graph  BY <1>4 DEF vars
    <2> QED  BY <1>0, <2>1 DEF Inv
  <1> QED  BY <1>1, <1>2, <1>3, <1>4 DEF Next

LEMMA Invariant == Spec => []Inv
  <1> QED  BY InitInv, NextInv, PTL DEF Spec

(***************************************************************************)
(* The graph kept up to date formula by formula is at all times the one a  *)
(* rebuild from the workbook would make: no map keeps an entry of a        *)
(* formula that was replaced, and every count of a tree is that of its     *)
(* nodes.  (register, unregister, insert, remove against rebuild)          *)
(***************************************************************************)
THEOREM AsRebuiltCorrect == Spec => []AsRebuilt
  <1>1. Inv => AsRebuilt
    <2> SUFFICES ASSUME Inv PROVE AsRebuilt  OBVIOUS
    <2>1. Rebuilt(formulas, names) = Canon(formulas, names)  BY RebuiltIs DEF Inv
    <2> QED  BY <2>1 DEF Inv, AsRebuilt
  <1> QED  BY <1>1, Invariant, PTL

(***************************************************************************)
(* A probe of any cell meets every indexed box that holds the cell, meets  *)
(* no other, and meets each of them once: in one lane, at one node.        *)
(***************************************************************************)
EachBoxOnce ==
    \A c : IsCell(c) =>
        /\ Stab(graph.lanes, c) = {box \in DOMAIN graph.boxReaders : Holds(box, c)}
        /\ \A h, k \in Hits(graph.lanes, c) : h[2][2] = k[2][2] => h = k

LEMMA GraphBoxes ==
    Inv => /\ graph.lanes = LanesIndex(Keys(BoxesIn(formulas, names)))
           /\ DOMAIN graph.boxReaders = Keys(BoxesIn(formulas, names))
           /\ AreBoxes(Keys(BoxesIn(formulas, names)))
           /\ graph.cellReaders = Index(CellsOf(formulas)) /\ graph.boxReaders = Index(BoxesIn(formulas, names))
           /\ graph.cellsOf = Held(CellsOf(formulas)) /\ graph.boxesOf = Held(BoxesIn(formulas, names))
           /\ graph.nodes = DOMAIN formulas
  <1> SUFFICES ASSUME Inv PROVE /\ graph.lanes = LanesIndex(Keys(BoxesIn(formulas, names)))
           /\ DOMAIN graph.boxReaders = Keys(BoxesIn(formulas, names))
           /\ AreBoxes(Keys(BoxesIn(formulas, names)))
           /\ graph.cellReaders = Index(CellsOf(formulas)) /\ graph.boxReaders = Index(BoxesIn(formulas, names))
           /\ graph.cellsOf = Held(CellsOf(formulas)) /\ graph.boxesOf = Held(BoxesIn(formulas, names))
           /\ graph.nodes = DOMAIN formulas
    OBVIOUS
  <1>1. /\ graph.lanes = LanesIndex(Keys(BoxesIn(formulas, names)))
        /\ graph.cellReaders = Index(CellsOf(formulas)) /\ graph.boxReaders = Index(BoxesIn(formulas, names))
        /\ graph.cellsOf = Held(CellsOf(formulas)) /\ graph.boxesOf = Held(BoxesIn(formulas, names))
        /\ graph.nodes = DOMAIN formulas
    BY DEF Inv, Canon
  <1>2. AreBoxes(Keys(BoxesIn(formulas, names)))  BY KeysBoxes DEF Inv
  <1>3. DOMAIN graph.boxReaders = Keys(BoxesIn(formulas, names))  BY <1>1 DEF Index
  <1> QED  BY <1>1, <1>2, <1>3

(***************************************************************************)
(* RangeIndex::stab reports each containing box exactly once, as its       *)
(* comment says, after any number of inserts and removes; to skip a level  *)
(* without nodes, or to scan a lane with few boxes, changes nothing.       *)
(***************************************************************************)
THEOREM StabExact == Spec => []EachBoxOnce
  <1>1. Inv => EachBoxOnce
    <2> SUFFICES ASSUME Inv, NEW c, IsCell(c)
                 PROVE  /\ Stab(graph.lanes, c) = {box \in DOMAIN graph.boxReaders : Holds(box, c)}
                        /\ \A h, k \in Hits(graph.lanes, c) : h[2][2] = k[2][2] => h = k
      BY DEF EachBoxOnce
    <2> DEFINE B == Keys(BoxesIn(formulas, names))
    <2>1. graph.lanes = LanesIndex(B) /\ DOMAIN graph.boxReaders = B /\ AreBoxes(B)  BY GraphBoxes
    <2> HIDE DEF B
    <2> QED  BY <2>1, StabIs
  <1> QED  BY <1>1, Invariant, PTL

LEMMA DependentsAre ==
    ASSUME Inv, NEW c, IsCell(c)
    PROVE  DependentsOf(graph, c) = {cell \in DOMAIN formulas : ReadsCell(cell, c)}
  <1> DEFINE C == CellsOf(formulas)
             K == BoxesIn(formulas, names)
  <1>1. /\ graph.cellReaders = Index(C) /\ graph.boxReaders = Index(K) /\ DOMAIN graph.boxReaders = Keys(K)
    BY GraphBoxes
  <1>2. /\ DOMAIN C = DOMAIN formulas /\ DOMAIN K = DOMAIN formulas
        /\ \A cell \in DOMAIN formulas :
               C[cell] = formulas[cell].cells /\ K[cell] = BoxesRead(formulas[cell], names, cell)
    BY DEF CellsOf, BoxesIn
  <1>3. Stab(graph.lanes, c) = {box \in Keys(K) : Holds(box, c)}
    <2>1. graph.lanes = LanesIndex(Keys(K)) /\ AreBoxes(Keys(K))  BY GraphBoxes
    <2> HIDE DEF K
    <2> QED  BY <2>1, StabIs
  <1> HIDE DEF C, K
  <1>4. \A box : box \in Keys(K) <=> \E cell \in DOMAIN K : box \in K[cell]  BY DEF Keys
  <1>5. At(graph.cellReaders, c) = {cell \in DOMAIN formulas : c \in formulas[cell].cells}
    <2>1. At(Index(C), c) = {cell \in DOMAIN C : c \in C[cell]}  BY IndexAt
    <2> QED  BY <1>1, <1>2, <2>1
  <1>6. \A box : At(graph.boxReaders, box) = {cell \in DOMAIN K : box \in K[cell]}
    <2>1. \A box : At(Index(K), box) = {cell \in DOMAIN K : box \in K[cell]}  BY IndexAt
    <2> QED  BY <1>1, <2>1
  <1>7. ASSUME NEW cell
        PROVE  cell \in UNION {At(graph.boxReaders, box) : box \in Stab(graph.lanes, c)}
                 <=> cell \in DOMAIN K /\ \E box \in K[cell] : Holds(box, c)
    <2>1. cell \in UNION {At(graph.boxReaders, box) : box \in Stab(graph.lanes, c)}
            <=> \E box \in Stab(graph.lanes, c) : cell \in At(graph.boxReaders, box)
      OBVIOUS
    <2> QED  BY <1>3, <1>4, <1>6, <2>1
  <1>8. ASSUME NEW cell PROVE cell \in DependentsOf(graph, c) <=> cell \in DOMAIN formulas /\ ReadsCell(cell, c)
    <2>1. cell \in DependentsOf(graph, c) <=>
              \/ cell \in At(graph.cellReaders, c)
              \/ cell \in UNION {At(graph.boxReaders, box) : box \in Stab(graph.lanes, c)}
      BY DEF DependentsOf
    <2>2. cell \in DOMAIN formulas =>
             (ReadsCell(cell, c) <=> c \in formulas[cell].cells \/ \E box \in K[cell] : Holds(box, c))
      BY <1>2 DEF ReadsCell
    <2> QED  BY <1>2, <1>5, <1>7, <2>1, <2>2
  <1> QED  BY <1>8

(***************************************************************************)
(* DependentsExact of the run is about the cells of a small grid; this is  *)
(* it for every cell: dependents_of finds the readers of a cell wherever   *)
(* on whichever sheet it is, and finds no other formula.                   *)
(***************************************************************************)
THEOREM DependentsEverywhere ==
    Spec => [](\A c : IsCell(c) => DependentsOf(graph, c) = {cell \in DOMAIN formulas : ReadsCell(cell, c)})
  <1>1. Inv => \A c : IsCell(c) => DependentsOf(graph, c) = {cell \in DOMAIN formulas : ReadsCell(cell, c)}
    BY DependentsAre
  <1> QED  BY <1>1, Invariant, PTL

LEMMA InsideIs == ASSUME NEW cut, NEW box PROVE Inside(cut, box) = {c \in cut : Holds(box, c)}
  <1>1. CASE box.right - box.left + 1 > Cardinality(cut)  BY <1>1 DEF Inside
  <1>2. CASE ~(box.right - box.left + 1 > Cardinality(cut))
    <2> DEFINE seek == UNION {{c \in cut : c[1] = box.sheet /\ c[3] = col /\ c[2] \in box.top .. box.bottom}
                                : col \in box.left .. box.right}
    <2>1. Inside(cut, box) = seek  BY <1>2 DEF Inside
    <2>2. ASSUME NEW c PROVE c \in seek <=> c \in cut /\ Holds(box, c)  BY DEF Holds
    <2> HIDE DEF seek
    <2>3. seek = {c \in cut : Holds(box, c)}  BY <2>2
    <2> QED  BY <2>1, <2>3
  <1> QED  BY <1>1, <1>2

LEMMA PrecedentsAre ==
    ASSUME Inv, NEW cut \in SUBSET graph.nodes, NEW cell \in cut
    PROVE  PrecedentsIn(graph, cell, cut) = {c \in cut : ReadsCell(cell, c)}
  <1> DEFINE C == CellsOf(formulas)
             K == BoxesIn(formulas, names)
  <1>1. graph.cellsOf = Held(C) /\ graph.boxesOf = Held(K) /\ graph.nodes = DOMAIN formulas  BY GraphBoxes
  <1>2. /\ DOMAIN C = DOMAIN formulas /\ DOMAIN K = DOMAIN formulas
        /\ \A x \in DOMAIN formulas :
               C[x] = formulas[x].cells /\ K[x] = BoxesRead(formulas[x], names, x)
    BY DEF CellsOf, BoxesIn
  <1>3. cell \in DOMAIN formulas  BY <1>1
  <1> HIDE DEF C, K
  <1>4. At(graph.cellsOf, cell) = C[cell] /\ At(graph.boxesOf, cell) = K[cell]
    <2>1. At(Held(C), cell) = C[cell] /\ At(Held(K), cell) = K[cell]  BY <1>2, <1>3, HeldAt
    <2> QED  BY <1>1, <2>1
  <1>5. ASSUME NEW c
        PROVE  c \in UNION {Inside(cut, box) : box \in K[cell]} <=> c \in cut /\ \E box \in K[cell] : Holds(box, c)
    <2>1. \A box : c \in Inside(cut, box) <=> c \in cut /\ Holds(box, c)  BY InsideIs
    <2>2. c \in UNION {Inside(cut, box) : box \in K[cell]} <=> \E box \in K[cell] : c \in Inside(cut, box)  OBVIOUS
    <2> QED  BY <2>1, <2>2
  <1>6. ASSUME NEW c PROVE c \in PrecedentsIn(graph, cell, cut) <=> c \in cut /\ ReadsCell(cell, c)
    <2>1. c \in PrecedentsIn(graph, cell, cut) <=>
              (c \in C[cell] /\ c \in cut) \/ c \in UNION {Inside(cut, box) : box \in K[cell]}
      BY <1>4 DEF PrecedentsIn
    <2>2. ReadsCell(cell, c) <=> c \in C[cell] \/ \E box \in K[cell] : Holds(box, c)
      BY <1>2, <1>3 DEF ReadsCell
    <2> QED  BY <1>5, <2>1, <2>2
  <1> QED  BY <1>6

(***************************************************************************)
(* The edges of the graph, seen from the cell that is read and from the    *)
(* formula that reads, are those of the formulas, the names and the table: *)
(* a write dirties exactly its readers, and a recalculation is ordered by  *)
(* exactly the edges inside its cut.  (dependents_of, precedents_in)       *)
(***************************************************************************)
THEOREM EdgesExactCorrect == Spec => []EdgesExact
  <1>1. Inv => DependentsExact
    <2> SUFFICES ASSUME Inv, NEW c \in Grid
                 PROVE  DependentsOf(graph, c) = {cell \in DOMAIN formulas : ReadsCell(cell, c)}
      BY DEF DependentsExact
    <2>1. IsCell(c)
      <3>1. NarrowCols \in Nat  BY TreeAssumption
      <3>2. c[2] \in 0 .. Leaves - 1 /\ c[3] \in 0 .. NarrowCols + 1  BY DEF Grid
      <3> QED  BY <3>1, <3>2 DEF IsCell
    <2> QED  BY <2>1, DependentsAre
  <1>2. Inv => PrecedentsExact
    <2> SUFFICES ASSUME Inv, NEW cut \in SUBSET graph.nodes, NEW cell \in cut
                 PROVE  PrecedentsIn(graph, cell, cut) = {c \in cut : ReadsCell(cell, c)}
      BY DEF PrecedentsExact
    <2> QED  BY PrecedentsAre
  <1> QED  BY <1>1, <1>2, Invariant, PTL DEF EdgesExact
=============================================================================
