-------------------------- MODULE MCChainPlacement --------------------------
(* Ranges of up to five rows over chains of up to three frames.            *)
EXTENDS ChainPlacement

Row(text, height) == [text |-> text, height |-> height, hidden |-> FALSE]
Hidden(text) == [text |-> text, height |-> 1, hidden |-> TRUE]
Span(top, bottom) == [top |-> top, bottom |-> bottom]

(* Rows of one height; a tall row, with a hidden one above; a short range.  *)
Even == [rows |-> <<Row("a", 1), Row("b", 1), Row("c", 1), Row("d", 1), Row("e", 1)>>,
         merges |-> {Span(1, 2), Span(3, 5)}]
Uneven == [rows |-> <<Row("a", 1), Hidden("x"), Row("c", 3), Row("b", 1), Row("d", 1)>>,
           merges |-> {Span(2, 3), Span(4, 5)}]
Short == [rows |-> <<Row("b", 1), Row("c", 1), Hidden("x")>>, merges |-> {Span(2, 3)}]

(* All in one block that fits no frame, with a hidden row inside a merge. *)
Block == [rows |-> <<Row("a", 2), Hidden("x"), Row("b", 2), Row("c", 2)>>,
          merges |-> {Span(1, 3)}]

MCSheets == {Even, Uneven, Short, Block}
MCLayouts == {<<3, 2>>, <<2, 2, 3>>, <<4>>, <<>>}

MCStarts == {<<Even, <<3, 2>>>>, <<Block, <<2, 2, 3>>>>}

MCOptions == {
    [header |-> 0, continued |-> FALSE, keep |-> {Span(2, 3)}],
    [header |-> 1, continued |-> TRUE, keep |-> {Span(1, 2), Span(4, 5)}]}

=============================================================================
