---------------------------- MODULE MCFormulaText ----------------------------
(***************************************************************************)
(* Every formula that can be typed in a few strokes. A stroke adds an      *)
(* operator and an operand on either side of the text, a sign, a postfix,  *)
(* a call or a binding around it, with or without parentheses around what  *)
(* was there; so every text that parses is met, and every tree the parser  *)
(* can make of it.                                                         *)
(***************************************************************************)
EXTENDS FormulaText

CONSTANT MaxStrokes

VARIABLES
    typed,      \* the text
    tree,       \* what the parser makes of it; Missing when it is no formula
    strokes     \* how many strokes it took

vars == <<typed, tree, strokes>>

Leaves == {<<"A1">>, <<"S2!", "A2">>, <<"x">>}
Compounds == {<<"$A$2">>, <<"A1", ":", "B1">>, <<"1", ":", "2">>, <<"T", "[", "a", "]">>,
              <<"{", "-", "1", ",", "1", "}">>}
Operators == {"^", ",", " ", ":"}
Ends == {<<"S2!", "B1">>, <<"nm">>}        \* more ends of a range

InParens(text) == <<"(">> \o text \o <<")">>
Around == {typed, InParens(typed)}

\* What may stand between the outer brackets of a structured reference.
Cols == {<<"a">>, <<"a", " ", "a">>, <<"'", "]", "a">>, <<"a", ":", "a">>, <<"a", "'">>, <<"#", "a">>, << >>}
InBrackets(text) == <<"[">> \o text \o <<"]">>
Bodies == {area \o comma \o col \o end :
              area \in {<< >>, <<"@">>, <<"#", "All">>} \cup {InBrackets(<<"#", a>>) : a \in Areas},
              comma \in {<< >>, <<",">>, <<" ">>},
              col \in Cols \cup {InBrackets(c) : c \in Cols},
              end \in {<< >>, <<":", "[", "a", "]">>, <<",", "[", "#", "Data", "]">>}}
Specs == {table \o InBrackets(body) : table \in {<< >>, <<"T">>}, body \in Bodies}

Init ==
    /\ \/ typed \in Leaves /\ strokes = 0
       \/ typed \in Compounds /\ strokes = 1
       \/ typed \in Specs /\ strokes = MaxStrokes - 1
    /\ tree = Parse(typed)

Sides(text, op, other) == {text \o <<op>> \o other, other \o <<op>> \o text}
Operated == UNION {Sides(text, op, other) : text \in Around, op \in Operators, other \in {<<"B1">>}}
            \cup UNION {Sides(text, ":", other) : text \in Around, other \in Ends}
Signed == {<<"-">> \o text : text \in Around}
Marked == {Append(text, op) : text \in Around, op \in {"%", "#"}}
Applied == {<<"F">> \o InParens(typed), <<"F", "(", ",">> \o typed \o <<",", ")">>}
Bound == {<<"LET", "(", "x", ",", "A1", ",">> \o typed \o <<")">>,
          <<"LET", "(", "x", ",", "LAMBDA", "(", "x", ",">> \o typed
             \o <<")", ",", "x", "(", "1", ")", ")">>,
          <<"LAMBDA", "(", "x", ",">> \o typed \o <<")", "(", "A1", ")", "(", "1", ")">>}

Stroke ==
    /\ strokes < MaxStrokes
    /\ strokes' = strokes + 1
    /\ typed' \in Operated \cup Signed \cup Marked \cup Applied \cup Bound
    /\ tree' = Parse(typed')

Next == Stroke
Spec == Init /\ [][Next]_vars

-----------------------------------------------------------------------------
Formula == tree # Missing
Untangled == ~\E e \in Nodes(tree) : Tangled(e)
SpillsAtoms == \A e \in Nodes(tree) : e.kind = "spill" => Level(e.arg) = AtomLevel

(***************************************************************************)
(* What the printer shows for a formula parses to that formula, whatever   *)
(* was typed: opening a cell for editing and committing it unchanged does  *)
(* not change it. Excepted are the tangled ranges. (print, parse)          *)
(***************************************************************************)
RoundTrip == Formula /\ Untangled => Parse(PrintText(tree)) = tree

(***************************************************************************)
(* A formula stored in a file and read back is the same formula, unless it *)
(* spills an operation, whose parentheses are lost on the way.             *)
(* (print_ooxml, strip_storage_prefixes, rewrite_anchorarray, parse)       *)
(***************************************************************************)
StoredRoundTrip == Formula /\ Untangled /\ SpillsAtoms => Parse(Stripped(PrintStored(tree))) = tree

Loses(e) == LostTree \in Nodes(e)
LosesAbroad(text) == \E p \in 2 .. Len(text) : text[p] = LostRef /\ text[p - 1] \in Sheets

(***************************************************************************)
(* The two ways of copying a formula agree: the text of a shared formula   *)
(* moved token by token means what a fill makes of its tree. Off the grid  *)
(* both are #REF!, except that `Sheet2!#REF!` is no formula at all.        *)
(* (shift_formula_text, rewrite_fill)                                      *)
(***************************************************************************)
Agree(text, copy, filled) ==
    IF ~Loses(filled) THEN copy = filled
    ELSE IF LosesAbroad(text) THEN copy = Missing
    ELSE Loses(copy)
CopiesAgree == Formula => Agree(ShiftedText(typed), Parse(ShiftedText(typed)), Filled(tree))
=============================================================================
