----------------------------- MODULE FormulaText -----------------------------
(***************************************************************************)
(* Formulas as text and as trees (sheet-parser): the lexer, the Pratt      *)
(* parser, the canonical printer and the storage dialect of xlsx files.    *)
(*                                                                         *)
(* A text is a sequence of pieces: one piece for a whole cell address, a   *)
(* number, an identifier or a sheet qualifier, and one for each mark.      *)
(* What characters they are made of is left out, except where the lexer    *)
(* joins pieces: `1:3` and `nm:nm` are whole rows and columns.             *)
(* Operators that share a level (the comparisons, * and /) are             *)
(* represented by one of them.                                             *)
(***************************************************************************)
EXTENDS StructuredText, TLC

CONSTANTS
    Cells,      \* cell addresses on any sheet
    Numbers,    \* number literals
    Words,      \* LET and LAMBDA names
    Names,      \* defined names
    Tables,     \* table names
    Sheets,     \* the qualifiers of the sheets a formula may refer to
    Functions,  \* registered functions, LET and LAMBDA among them
    Future,     \* those stored in a file with the prefix _xlfn.
    Moved       \* the cell or row a copy further down refers to, or LostRef

LostRef == "#REF!"

Home == ""      \* the sheet of the formula, which is never spelled out

-----------------------------------------------------------------------------
(* Syntax trees (sheet-core, ast.rs). *)

Missing == [kind |-> "missing"]
Lit(value, negative) == [kind |-> "lit", value |-> value, negative |-> negative]
Ref(sheet, cell) == [kind |-> "ref", sheet |-> sheet, cell |-> cell]
Range2(sheet, start, end) == [kind |-> "range", sheet |-> sheet, start |-> start, end |-> end]
Band(sheet, start, end) == [kind |-> "band", sheet |-> sheet, start |-> start, end |-> end]
Name(name) == [kind |-> "name", name |-> name]
Local(name) == [kind |-> "local", name |-> name]
Unary(op, arg) == [kind |-> "unary", op |-> op, arg |-> arg]
Binary(op, left, right) == [kind |-> "binary", op |-> op, left |-> left, right |-> right]
Func(name, args) == [kind |-> "func", name |-> name, args |-> args]
Call(callee, args) == [kind |-> "call", callee |-> callee, args |-> args]
Spill(arg) == [kind |-> "spill", arg |-> arg]
Array(rows) == [kind |-> "array", rows |-> rows]

-----------------------------------------------------------------------------
(* The lexer. *)

Kind(piece) ==
    CASE piece \in Cells -> "cell"
      [] piece \in Numbers -> "number"
      [] piece \in Sheets -> "sheet"
      [] piece = LostRef -> "error"
      [] piece \in Words \cup Names \cup Functions -> "ident"
      [] OTHER -> piece

Token(kind, pieces, spaced) == [kind |-> kind, pieces |-> pieces, spaced |-> spaced]

\* Two numbers or two words around a colon, with nothing attached to them.
SpellsBand(s) ==
    /\ Len(s) >= 3 /\ s[2] = ":"
    /\ {s[1], s[3]} \subseteq Numbers \/ {s[1], s[3]} \subseteq Words \cup Names
    /\ Len(s) >= 4 => s[4] \notin {"(", "["}

\* The length of the token a text starts with: whole rows or columns, and a
\* structured reference up to its last bracket, are one token.
TokenLength(s) ==
    LET open == IF Head(s) = "[" THEN 1 ELSE 2
    IN  IF SpellsBand(s) THEN 3
        ELSE IF Head(s) = "[" \/ (Len(s) > 1 /\ s[2] = "[" /\ Head(s) \in Tables)
             THEN BracketEnd(s, open + 1, 1)
        ELSE 1

KindOf(pieces) ==
    IF Len(pieces) = 1 THEN Kind(pieces[1]) ELSE IF SpellsBand(pieces) THEN "band" ELSE "table"

RECURSIVE LexFrom(_, _)
LexFrom(s, spaced) ==
    IF s = << >> THEN << >>
    ELSE IF Head(s) = " " THEN LexFrom(Tail(s), TRUE)
    ELSE LET n == TokenLength(s)
             pieces == SubSeq(s, 1, n)
         IN  IF n = 0 THEN <<Token("unterminated", s, spaced)>>
             ELSE <<Token(KindOf(pieces), pieces, spaced)>> \o LexFrom(After(s, n), FALSE)

Lex(text) == LexFrom(text, FALSE)

-----------------------------------------------------------------------------
(* The parser. A parse at a position gives a tree and the position after    *)
(* it, 0 when it fails. The scope says whether a comma means union, and     *)
(* which LET and LAMBDA names are bound.                                    *)

LeftPower == "=" :> 2 @@ "&" :> 4 @@ "+" :> 6 @@ "-" :> 6 @@ "*" :> 8 @@ "^" :> 10
             @@ "," :> 17 @@ " " :> 19 @@ ":" :> 21
RightPower == "=" :> 3 @@ "&" :> 5 @@ "+" :> 7 @@ "-" :> 7 @@ "*" :> 9 @@ "^" :> 11
              @@ "," :> 18 @@ " " :> 20 @@ ":" :> 22
PercentPower == 13
UnaryPower == 15
SpillPower == 23

Infix == DOMAIN LeftPower \ {" "}
OperandStarts == {"number", "cell", "band", "sheet", "ident", "table", "error", "(", "{"}

Got(tree, next) == [tree |-> tree, next |-> next]
Failed == Got(Missing, 0)
Ok(r) == r.next # 0

At(s, p) == IF p <= Len(s) THEN s[p].kind ELSE "end"
Word(s, p) == s[p].pieces[1]
Opens(s, p) == At(s, p) = "(" /\ ~s[p].spaced
Expect(s, r, kind) == IF Ok(r) /\ At(s, r.next) = kind THEN Got(r.tree, r.next + 1) ELSE Failed

\* A colon between two plain cells is a range, on the sheet of the first.
Folded(op, left, right) ==
    IF op = ":" /\ left.kind = "ref" /\ right.kind = "ref"
    THEN Range2(left.sheet, left.cell, right.cell)
    ELSE Binary(op, left, right)

RECURSIVE ParsePower(_, _, _, _), Continue(_, _, _, _), ArgsFrom(_, _, _, _),
          LetArgs(_, _, _, _), LambdaArgs(_, _, _, _), PostfixCalls(_, _, _),
          ArrayFrom(_, _, _, _)

\* After `S2!`: a band, a cell, or two cells around a colon.
ParseQualified(s, p) ==
    LET sheet == Word(s, p)
    IN  CASE At(s, p + 1) = "band" -> Got(Band(sheet, Word(s, p + 1), s[p + 1].pieces[3]), p + 2)
          [] At(s, p + 1) = "cell" /\ At(s, p + 2) = ":" /\ At(s, p + 3) = "cell" ->
               Got(Range2(sheet, Word(s, p + 1), Word(s, p + 3)), p + 4)
          [] At(s, p + 1) = "cell" /\ ~(At(s, p + 2) = ":" /\ At(s, p + 3) = "cell") ->
               Got(Ref(sheet, Word(s, p + 1)), p + 2)
          [] OTHER -> Failed

\* The table and the text between the outer brackets.
TableRef(t) ==
    IF t.pieces[1] = "[" THEN ParseSpec(SubSeq(t.pieces, 2, Len(t.pieces) - 1), "")
                         ELSE ParseSpec(SubSeq(t.pieces, 3, Len(t.pieces) - 1), t.pieces[1])

ParseArgs(s, p, scope) ==
    IF At(s, p) = ")" THEN Got(<< >>, p)
    ELSE ArgsFrom(s, p, [scope EXCEPT !.union = FALSE], << >>)

\* An identifier: a call when a parenthesis is attached, else a name in scope.
ParseIdent(s, p, scope) ==
    LET name == Word(s, p)
        inner == [scope EXCEPT !.union = FALSE]
        args == Expect(s, CASE name \in scope.locals -> ParseArgs(s, p + 2, scope)
                            [] name \notin scope.locals /\ name = "LET" -> LetArgs(s, p + 2, inner, << >>)
                            [] name \notin scope.locals /\ name = "LAMBDA" -> LambdaArgs(s, p + 2, inner, << >>)
                            [] OTHER -> ParseArgs(s, p + 2, scope), ")")
        called == IF name \in scope.locals THEN Call(Local(name), args.tree) ELSE Func(name, args.tree)
    IN  IF Opens(s, p + 1)
        THEN IF name \notin scope.locals \cup Functions \/ ~Ok(args) THEN Failed
             ELSE IF name \in scope.locals \/ name = "LAMBDA"
                  THEN PostfixCalls(s, Got(called, args.next), scope)
                  ELSE Got(called, args.next)
        ELSE IF name \in scope.locals THEN Got(Local(name), p + 1)
        ELSE IF name \in Names THEN Got(Name(name), p + 1)
        ELSE Failed

ParsePrimary(s, p, scope) ==
    CASE At(s, p) \in {"number", "error"} -> Got(Lit(Word(s, p), FALSE), p + 1)
      [] At(s, p) = "cell" -> Got(Ref(Home, Word(s, p)), p + 1)
      [] At(s, p) = "band" -> Got(Band(Home, Word(s, p), s[p].pieces[3]), p + 1)
      [] At(s, p) = "table" -> IF TableRef(s[p]) = NoSpec THEN Failed ELSE Got(TableRef(s[p]), p + 1)
      [] At(s, p) = "sheet" -> ParseQualified(s, p)
      [] At(s, p) = "ident" -> ParseIdent(s, p, scope)
      [] At(s, p) = "(" -> Expect(s, ParsePower(s, p + 1, 0, [scope EXCEPT !.union = TRUE]), ")")
      [] At(s, p) = "{" -> ArrayFrom(s, p + 1, << >>, << >>)
      [] OTHER -> Failed

ParsePrefix(s, p, scope) ==
    IF At(s, p) \notin {"-", "+"} THEN ParsePrimary(s, p, scope)
    ELSE LET arg == ParsePower(s, p + 1, UnaryPower, scope)
         IN  IF Ok(arg) THEN Got(Unary(s[p].kind, arg.tree), arg.next) ELSE Failed

ParsePower(s, p, min, scope) == Continue(s, ParsePrefix(s, p, scope), min, scope)

\* Everything to the right of an operand that binds at least as tight as min.
Continue(s, left, min, scope) ==
    LET p == left.next
        sign == At(s, p)
        Joined(op, from) ==
            LET right == ParsePower(s, from, RightPower[op], scope)
            IN  IF ~Ok(right) THEN Failed
                ELSE Continue(s, Got(Folded(op, left.tree, right.tree), right.next), min, scope)
    IN  IF ~Ok(left) \/ sign = "end" THEN left
        ELSE IF sign = "#" /\ SpillPower >= min
             THEN Continue(s, Got(Spill(left.tree), p + 1), min, scope)
        ELSE IF sign = "%" /\ PercentPower >= min
             THEN Continue(s, Got(Unary("%", left.tree), p + 1), min, scope)
        ELSE IF s[p].spaced /\ sign \in OperandStarts
             THEN IF LeftPower[" "] >= min THEN Joined(" ", p) ELSE left
        ELSE IF sign \in Infix /\ (sign = "," => scope.union) /\ LeftPower[sign] >= min
             THEN Joined(sign, p + 1)
        ELSE left

\* Arguments: an empty slot is an omitted argument.
ArgsFrom(s, p, scope, done) ==
    LET arg == IF At(s, p) \in {",", ")"} THEN Got(Missing, p) ELSE ParsePower(s, p, 0, scope)
        args == Append(done, arg.tree)
    IN  IF ~Ok(arg) THEN Failed
        ELSE IF At(s, arg.next) = "," THEN ArgsFrom(s, arg.next + 1, scope, args)
        ELSE Got(args, arg.next)

Declares(s, p) == At(s, p) = "ident" /\ At(s, p + 1) = ","
Binding(scope, name) == [scope EXCEPT !.locals = @ \cup {name}]

\* LET(name, value, ..., calculation): a name is bound after its value.
LetArgs(s, p, scope, done) ==
    IF Declares(s, p)
    THEN LET value == Expect(s, ParsePower(s, p + 2, 0, scope), ",")
         IN  IF ~Ok(value) THEN Failed
             ELSE LetArgs(s, value.next, Binding(scope, Word(s, p)),
                          done \o <<Local(Word(s, p)), value.tree>>)
    ELSE LET body == ParsePower(s, p, 0, scope)
         IN  IF done = << >> \/ ~Ok(body) THEN Failed ELSE Got(Append(done, body.tree), body.next)

LambdaArgs(s, p, scope, done) ==
    IF Declares(s, p)
    THEN LambdaArgs(s, p + 2, Binding(scope, Word(s, p)), Append(done, Local(Word(s, p))))
    ELSE LET body == ParsePower(s, p, 0, scope)
         IN  IF Ok(body) THEN Got(Append(done, body.tree), body.next) ELSE Failed

PostfixCalls(s, callee, scope) ==
    IF ~Opens(s, callee.next) THEN callee
    ELSE LET args == Expect(s, ParseArgs(s, callee.next + 1, scope), ")")
         IN  IF Ok(args) THEN PostfixCalls(s, Got(Call(callee.tree, args.tree), args.next), scope)
             ELSE Failed

\* Rows of literals of one length; only a number takes a sign.
ArrayFrom(s, p, row, rows) ==
    LET q == IF At(s, p) \in {"-", "+"} THEN p + 1 ELSE p
        now == Append(row, Lit(Word(s, q), At(s, p) = "-"))
        full == Append(rows, now)
    IN  IF At(s, q) # "number" THEN Failed
        ELSE CASE At(s, q + 1) = "," -> ArrayFrom(s, q + 2, now, rows)
               [] At(s, q + 1) = ";" -> ArrayFrom(s, q + 2, << >>, full)
               [] At(s, q + 1) = "}" /\ (\A r \in DOMAIN full : Len(full[r]) = Len(full[1])) ->
                    Got(Array(full), q + 2)
               [] OTHER -> Failed

\* The tree of a text; Missing when the text is not a formula.
Whole(s, r) == IF Ok(r) /\ r.next = Len(s) + 1 THEN r.tree ELSE Missing
ParseTokens(s) == Whole(s, ParsePower(s, 1, 0, [union |-> FALSE, locals |-> {}]))
Parse(text) == ParseTokens(Lex(text))

-----------------------------------------------------------------------------
(* The printer. *)

OpLevel == "=" :> 1 @@ "&" :> 2 @@ "+" :> 3 @@ "-" :> 3 @@ "*" :> 4 @@ "^" :> 5
           @@ "," :> 8 @@ " " :> 9 @@ ":" :> 10
TopLevel == 0
PercentLevel == 6
UnaryLevel == 7
AtomLevel == 11

Level(e) ==
    CASE e.kind = "binary" -> OpLevel[e.op]
      [] e.kind = "unary" /\ e.op = "%" -> PercentLevel
      [] e.kind = "unary" /\ e.op # "%" -> UnaryLevel
      [] OTHER -> AtomLevel

IsBinary(e, op) == e.kind = "binary" /\ e.op = op
Tie(e, side) == e.kind = "binary" /\ side = "right"
Qualifier(sheet) == IF sheet = Home THEN << >> ELSE <<sheet>>
Prefix(stored, piece) == IF stored THEN <<piece>> ELSE << >>

\* A slip: the union needs no parentheses of its own.
WrappedByLevel(e, parent, side) ==
    \/ Level(e) < parent
    \/ Level(e) = parent /\ Tie(e, side)

\* A union stands in parentheses everywhere but under another union.
Wrapped(e, parent, side) ==
    \/ IsBinary(e, ",") /\ parent # OpLevel[","]
    \/ Level(e) < parent
    \/ Level(e) = parent /\ Tie(e, side)

RECURSIVE Shown(_, _, _, _), Body(_, _), Listed(_, _, _)

Shown(e, parent, side, stored) ==
    IF Wrapped(e, parent, side) THEN <<"(">> \o Body(e, stored) \o <<")">> ELSE Body(e, stored)

\* Trees one after another, with a mark between them.
Listed(es, mark, stored) ==
    IF es = << >> THEN << >>
    ELSE Shown(Head(es), TopLevel, "whole", stored)
           \o (IF Len(es) = 1 THEN << >> ELSE <<mark>>) \o Listed(Tail(es), mark, stored)

ArgList(args, stored) == <<"(">> \o Listed(args, ",", stored) \o <<")">>

Body(e, stored) ==
    CASE e.kind = "missing" -> << >>
      [] e.kind = "row" -> Listed(e.cells, ",", stored)
      [] e.kind = "lit" -> (IF e.negative THEN <<"-">> ELSE << >>) \o <<e.value>>
      [] e.kind = "ref" -> Qualifier(e.sheet) \o <<e.cell>>
      [] e.kind \in {"range", "band"} -> Qualifier(e.sheet) \o <<e.start, ":", e.end>>
      [] e.kind = "name" -> <<e.name>>
      [] e.kind = "table" -> SpecText(e)
      [] e.kind = "local" -> Prefix(stored, "_xlpm.") \o <<e.name>>
      [] e.kind = "unary" /\ e.op = "%" -> Shown(e.arg, PercentLevel, "left", stored) \o <<"%">>
      [] e.kind = "unary" /\ e.op # "%" -> <<e.op>> \o Shown(e.arg, UnaryLevel, "right", stored)
      [] e.kind = "binary" -> Shown(e.left, Level(e), "left", stored) \o <<e.op>>
                                \o Shown(e.right, Level(e), "right", stored)
      [] e.kind = "func" -> Prefix(stored /\ e.name \in Future, "_xlfn.") \o <<e.name>>
                              \o ArgList(e.args, stored)
      [] e.kind = "call" -> Body(e.callee, stored) \o ArgList(e.args, stored)
      [] e.kind = "array" ->
           <<"{">> \o Listed([r \in DOMAIN e.rows |-> [kind |-> "row", cells |-> e.rows[r]]], ";", stored)
             \o <<"}">>
      [] e.kind = "spill" ->
           IF stored THEN <<"_xlfn.", "ANCHORARRAY">> \o ArgList(<<e.arg>>, stored)
                     ELSE Shown(e.arg, AtomLevel, "whole", stored) \o <<"#">>

\* What the formula bar shows, and what a file stores.
PrintText(e) == Shown(e, TopLevel, "whole", FALSE)
PrintStored(e) == Shown(e, TopLevel, "whole", TRUE)

-----------------------------------------------------------------------------
(* From the storage dialect back to the one the parser reads (future.rs). *)

RECURSIVE ClosingAt(_, _, _), Anchors(_)

\* The position of the parenthesis that closes the depth open at p.
ClosingAt(s, p, depth) ==
    IF p > Len(s) THEN 0
    ELSE IF s[p] = ")" /\ depth = 1 THEN p
    ELSE ClosingAt(s, p + 1, CASE s[p] = "(" -> depth + 1 [] s[p] = ")" -> depth - 1 [] OTHER -> depth)

\* ANCHORARRAY(X) is written X#, and X is not put in parentheses again.
Anchors(s) ==
    IF s = << >> THEN << >>
    ELSE IF Head(s) = "ANCHORARRAY" /\ Len(s) > 1 /\ s[2] = "("
         THEN LET close == ClosingAt(s, 3, 1)
              IN  IF close = 0 THEN s
                  ELSE Anchors(SubSeq(s, 3, close - 1)) \o <<"#">> \o Anchors(SubSeq(s, close + 1, Len(s)))
         ELSE <<Head(s)>> \o Anchors(Tail(s))

Stripped(text) == Anchors(SelectSeq(text, LAMBDA piece : piece \notin {"_xlfn.", "_xlpm."}))
-----------------------------------------------------------------------------
(* A copy of a formula further down, on its text and on its tree.           *)

\* shift_formula_text moves the references of a text one token at a time.
ShiftedText(text) ==
    LET s == Lex(text)
        Ends(t) == {Moved[t.pieces[1]], Moved[t.pieces[3]]}
        Piece(t) == CASE t.kind = "cell" -> <<Moved[t.pieces[1]]>>
                      [] t.kind = "band" /\ t.pieces[1] \in Numbers ->
                           IF LostRef \in Ends(t) THEN <<LostRef>>
                           ELSE <<Moved[t.pieces[1]], ":", Moved[t.pieces[3]]>>
                      [] OTHER -> t.pieces
        Kept(t) == IF t.spaced THEN <<" ">> \o Piece(t) ELSE Piece(t)
    IN  FlattenSeq([p \in DOMAIN s |-> Kept(s[p])])

MovedEnd(p) == IF p \in DOMAIN Moved THEN Moved[p] ELSE p
LostTree == Lit(LostRef, FALSE)

\* A slip: the end of a range stays.
FilledFromStart(e) ==
    IF MovedEnd(e.start) = LostRef THEN LostTree ELSE [e EXCEPT !.start = MovedEnd(@)]

\* A range with a lost end is lost.
FilledRange(e) ==
    IF LostRef \in {MovedEnd(e.start), MovedEnd(e.end)} THEN LostTree
    ELSE [e EXCEPT !.start = MovedEnd(@), !.end = MovedEnd(@)]

\* rewrite_fill moves the references of a tree.
RECURSIVE Filled(_)
Filled(e) ==
    LET Each(es) == [i \in DOMAIN es |-> Filled(es[i])]
    IN  CASE e.kind = "ref" -> IF MovedEnd(e.cell) = LostRef THEN LostTree ELSE [e EXCEPT !.cell = MovedEnd(@)]
          [] e.kind \in {"range", "band"} -> FilledRange(e)
          [] e.kind \in {"unary", "spill"} -> [e EXCEPT !.arg = Filled(@)]
          [] e.kind = "binary" -> [e EXCEPT !.left = Filled(@), !.right = Filled(@)]
          [] e.kind = "func" -> [e EXCEPT !.args = Each(@)]
          [] e.kind = "call" -> [e EXCEPT !.callee = Filled(@), !.args = Each(@)]
          [] OTHER -> e

-----------------------------------------------------------------------------
(* What the properties speak of: the trees within a tree, and the trees    *)
(* whose text says something else.                                          *)

RECURSIVE Nodes(_)
Nodes(e) ==
    LET all(es) == UNION {Nodes(es[i]) : i \in DOMAIN es}
    IN  {e} \cup CASE e.kind \in {"unary", "spill"} -> Nodes(e.arg)
                   [] e.kind = "binary" -> Nodes(e.left) \cup Nodes(e.right)
                   [] e.kind = "func" -> all(e.args)
                   [] e.kind = "call" -> Nodes(e.callee) \cup all(e.args)
                   [] OTHER -> {}

\* The printer takes a range for an atom, though a # after it or a colon
\* before it belongs to one of its cells; and what meets around a colon may
\* be read as one reference. Two columns of this row have no text of their own.
Tangled(e) ==
    LET plain(x) == x.kind = "range" /\ x.sheet = Home
        l == Shown(e.left, Level(e), "left", FALSE)
        r == Shown(e.right, Level(e), "right", FALSE)
    IN  \/ e.kind = "table" /\ e.name = "" /\ e.area = "This Row" /\ Len(e.cols) = 2
        \/ e.kind = "spill" /\ plain(e.arg)
        \/ /\ IsBinary(e, ":")
           /\ \/ plain(e.right)
              \/ Len(l) > 1 /\ l[Len(l) - 1] \in Sheets /\ Head(r) \in Cells
              \/ SpellsBand(<<Last(l), ":", Head(r)>>)
=============================================================================
