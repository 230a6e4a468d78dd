------------------------------ MODULE MCFormulas ------------------------------
(***************************************************************************)
(* What a formula is as text and what it evaluates to: a behaviour either  *)
(* types formulas (MCFormulaText) or edits the cells that formulas read    *)
(* (MCEvaluator). The half that is not chosen is idle, and none of its     *)
(* steps is enabled.                                                       *)
(***************************************************************************)
EXTENDS MCFunctions

CONSTANTS
    Cells, Numbers, Words, Functions, Future,
    MaxStrokes

VARIABLES typed, tree, strokes

textVars == <<typed, tree, strokes>>

\* Two rows; a copy of the second leaves the grid.
MovedDown == "A1" :> "A2" @@ "A2" :> "#REF!" @@ "$A$2" :> "$A$2" @@ "B1" :> "B2" @@ "B2" :> "#REF!"
             @@ "1" :> "2" @@ "2" :> "#REF!"

ASSUME FunctionsAssumption == {"LET", "LAMBDA"} \subseteq Functions /\ Future \subseteq Functions
ASSUME MovedAssumption ==
    /\ MovedDown \in [Cells \cup Numbers -> Cells \cup Numbers \cup {"#REF!"}]
    /\ \A c \in Cells : MovedDown[c] \notin Numbers
    /\ \A n \in Numbers : MovedDown[n] \notin Cells

T == INSTANCE MCFormulaText
        WITH Names <- {"nm"}, Tables <- {"T"}, Sheets <- {"S2!"}, Moved <- MovedDown

NoText == typed = <<>> /\ tree = T!Missing /\ strokes = MaxStrokes
NoSheet == sheet = "" /\ cells = <<>> /\ graph = <<>> /\ held = <<>>

FormulasInit == (T!Init /\ NoSheet) \/ (Init /\ NoText)
TypeFormula == T!Stroke /\ UNCHANGED vars
EditInput == sheet # "" /\ Next /\ UNCHANGED textVars
FormulasNext == TypeFormula \/ EditInput
FormulasSpec == FormulasInit /\ [][FormulasNext]_<<vars, textVars>>

-----------------------------------------------------------------------------
(***************************************************************************)
(* What the printer shows for a formula parses to that formula, whatever   *)
(* was typed: opening a cell for editing and committing it unchanged does  *)
(* not change it; and a formula stored in a file and read back is the same *)
(* formula. Excepted are the tangled ranges and, in a file, a spilled      *)
(* operation, whose parentheses are lost on the way.                       *)
(* (print, print_ooxml, strip_storage_prefixes, rewrite_anchorarray, parse)*)
(***************************************************************************)
RoundTrip == T!RoundTrip /\ T!StoredRoundTrip

(***************************************************************************)
(* The two ways of copying a formula agree: the text of a shared formula   *)
(* moved token by token means what a fill makes of its tree. Off the grid  *)
(* both are #REF!, except that `Sheet2!#REF!` is no formula at all.        *)
(* (shift_formula_text, rewrite_fill)                                      *)
(***************************************************************************)
CopiesAgree == T!CopiesAgree
=============================================================================
