------------------------- MODULE MCDependencyGraph -------------------------
(***************************************************************************)
(* Two sheets of four rows and four columns; boxes of two columns are      *)
(* narrow.  The formulas read single cells, narrow boxes that share a lane *)
(* (so that a lane is scanned, or walked), wide boxes, a name and the      *)
(* table.                                                                  *)
(***************************************************************************)
EXTENDS DependencyGraph

Box(sheet, top, bottom, left, right) ==
    [sheet |-> sheet, top |-> top, bottom |-> bottom, left |-> left, right |-> right]
Refs(cells, boxes, ns, structured) ==
    [cells |-> cells, boxes |-> boxes, names |-> ns, structured |-> structured]

MCCells == {<<1, 0, 0>>, <<1, 1, 2>>, <<1, 3, 1>>, <<2, 0, 0>>}
Whole == Box(1, 0, 3, 0, 1)
Tall  == Box(1, 1, 3, 1, 1)
Short == Box(1, 3, 3, 1, 2)
Wide  == Box(1, 0, 2, 0, 2)
MCBoxes == {Wide, Short}
MCTable == Box(1, 1, 2, 2, 3)
MCTableColumn == Box(1, 1, 2, 2, 2)
MCRefSets ==
    { Refs({<<1, 0, 0>>}, {Short, Whole}, {}, {}),
      Refs({}, {Tall, Short}, {}, {}),
      Refs({<<1, 1, 2>>, <<2, 0, 0>>}, {Wide, Box(1, 1, 1, 0, 3), Box(1, 2, 2, 1, 3)}, {}, {}),
      Refs({}, {}, Names, {}),
      Refs({<<1, 3, 1>>}, {}, {}, {"row", "column"}),
      Refs({}, {Box(2, 0, 3, 0, 0), Box(1, 0, 1, 1, 1)}, Names, {}) }

=============================================================================
