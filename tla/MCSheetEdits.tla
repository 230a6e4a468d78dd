---------------------------- MODULE MCSheetEdits ----------------------------
(***************************************************************************)
(* Workbooks of two sheets of three rows and three columns.                *)
(***************************************************************************)
EXTENDS SheetEdits

Box(top, bottom, left, right) ==
    [top |-> top, bottom |-> bottom, left |-> left, right |-> right]
Area(top, bottom, left, right, anchored) ==
    [top |-> top, bottom |-> bottom, left |-> left, right |-> right, anchored |-> anchored]
Val(v) == [kind |-> "value", v |-> v]
RefTo(sheet, area) == [kind |-> "ref", sheet |-> sheet, area |-> area]
Unread(sheet, v) == [kind |-> "verbatim", sheet |-> sheet, v |-> v]
Text(sheet) == [kind |-> "text", sheet |-> sheet]

(* A column to sort with equal keys, a relative, an anchored and a band     *)
(* reference, one to the other sheet and one back, and two merges.          *)
First ==
    [name |-> "A",
     cells |-> [p \in {<<0, 0>>, <<1, 0>>, <<2, 0>>, <<1, 1>>, <<2, 1>>, <<0, 2>>} |->
                  CASE p = <<0, 0>> -> Val(2)
                    [] p = <<1, 0>> -> Val(1)
                    [] p = <<2, 0>> -> Val(2)
                    [] p = <<1, 1>> -> RefTo(1, Area(1, 1, 0, 0, {}))
                    [] p = <<2, 1>> -> RefTo(2, Area(0, 1, 0, 1, {"row"}))
                    [] p = <<0, 2>> -> RefTo(1, Area(0, 2, 0, 1, {"col"}))],
     merges |-> {}]
Back ==
    [name |-> "B",
     cells |-> [p \in {<<0, 0>>, <<2, 2>>} |->
                  IF p = <<0, 0>> THEN Val(1) ELSE RefTo(1, Area(1, 2, 0, 0, {}))],
     merges |-> {Box(0, 1, 1, 2), Box(1, 2, 0, 0)}]
(* The second sheet holds a formula Paged cannot read, which names the first. *)
BackUnread ==
    [name |-> "B", cells |-> [p \in {<<1, 1>>} |-> Unread(1, 1)], merges |-> {}]

MCBooks == {<<First, Back>>, <<First, BackUnread>>}
MCNameTables == {[n \in Names |-> Text(2)], [n \in Names |-> RefTo(1, Area(0, 1, 0, 0, {}))]}
MCEntries == {<<1, <<2, 0>>, [kind |-> "blank"]>>, <<1, <<0, 1>>, RefTo(2, Area(1, 1, 0, 1, {}))>>,
              <<2, <<1, 1>>, RefTo(2, Area(0, 0, 1, 2, {}))>>}
MCSortRanges == {Box(0, 2, 0, 1)}
MCFills == {<<Box(1, 2, 1, 1), Box(0, 2, 1, 1)>>, <<Box(2, 2, 0, 1), Box(2, 2, 0, 2)>>}

RangeNames == {[n \in Names |-> RefTo(1, Area(0, 1, 0, 0, {}))]}
PlainBooks == {<<First, Back>>}

=============================================================================
