---------------------------- MODULE MCSheetCalc ----------------------------
(***************************************************************************)
(* Small workbooks for SheetCalc.  Formulas are records [op, of]: the      *)
(* operation and the sequence of cells it reads.                           *)
(***************************************************************************)
EXTENDS SheetCalc, Sequences, FiniteSetsExt

CONSTANTS MaxNumber     \* the numbers are 0 .. MaxNumber

MCValues == (0 .. MaxNumber) \cup {RefErr, SpillErr}

F(op, of) == [op |-> op, of |-> of]
Fx(f) == [formula |-> f, value |-> Empty]
Lit(n) == [formula |-> NoFormula, value |-> n]

MCReads(f) == {f.of[i] : i \in DOMAIN f.of}
MCIsVolatile(f) == f.op = "rand"
MCSpillRoot(f) == f.op \in {"down", "right", "two"}
MCSettled(old, new) == old = new

Clamp(n) == IF n > MaxNumber THEN MaxNumber ELSE n
Scalar(x) == [array |-> FALSE, grid |-> [o \in {<<0, 0>>} |-> x]]
Array(offsets) == [array |-> TRUE, grid |-> [o \in offsets |-> o[1] + o[2] + 1]]

(***************************************************************************)
(* "sum": the first error among the operands, or their sum; "inc": the     *)
(* operand plus one, clamped; "down" / "right": SEQUENCE over as many rows *)
(* or columns as the operand says, an error for none; "two": a constant    *)
(* block of two rows; "rand": the volatile seed.                           *)
(***************************************************************************)
MCEval(f, v, s) ==
    LET errs == {v[c] : c \in MCReads(f)} \cap {RefErr, SpillErr}
        num(c) == IF v[c] = Empty THEN 0 ELSE v[c]
        n == Clamp(FoldSet(LAMBDA c, acc : num(c) + acc, 0, MCReads(f)))
    IN  IF errs # {} THEN Scalar(IF RefErr \in errs THEN RefErr ELSE SpillErr)
        ELSE CASE f.op = "copy" -> Scalar(v[f.of[1]])
               [] f.op = "sum" -> Scalar(n)
               [] f.op = "inc" -> Scalar(Clamp(n + 1))
               [] f.op = "rand" -> Scalar(s)
               [] f.op = "two" -> Array((0 .. 1) \X {0})
               [] f.op = "down" -> IF n = 0 THEN Scalar(RefErr) ELSE Array((0 .. n - 1) \X {0})
               [] f.op = "right" -> IF n = 0 THEN Scalar(RefErr) ELSE Array({0} \X (0 .. n - 1))

FormulasOf(inputs) == {in.formula : in \in inputs} \ {NoFormula}

-----------------------------------------------------------------------------
(* One row of four cells: chains, a loop of two, a self-loop, a volatile.  *)
RowCells == {1} \X (1 .. 4)
RowPalette(c) ==
    CASE c = <<1, 1>> -> {Lit(1), Fx(F("rand", <<>>)), Fx(F("copy", <<<<1, 2>>>>))}
      [] c = <<1, 2>> -> {Fx(F("copy", <<<<1, 1>>>>)), Fx(F("inc", <<<<1, 3>>>>))}
      [] c = <<1, 3>> -> {Fx(F("copy", <<<<1, 2>>>>)), Fx(F("sum", <<<<1, 1>>, <<1, 2>>>>))}
      [] c = <<1, 4>> -> {Fx(F("copy", <<<<1, 3>>>>)), Fx(F("inc", <<<<1, 4>>>>))}
RowFormulas == FormulasOf(UNION {RowPalette(c) : c \in RowCells})

-----------------------------------------------------------------------------
(* Two rows of three cells: two anchors whose arrays meet in <<2, 2>>, a   *)
(* literal that blocks both, a third anchor sized by a spilled cell, and a *)
(* reader of that third array.                                             *)
BlockCells == (1 .. 2) \X (1 .. 3)
BlockPalette(c) ==
    CASE c = <<1, 1>> -> {Lit(1), Lit(2)}
      [] c = <<1, 2>> -> {Blank, Fx(F("down", <<<<1, 1>>>>))}
      [] c = <<2, 1>> -> {Blank, Fx(F("right", <<<<1, 1>>>>))}
      [] c = <<2, 2>> -> {Blank, Lit(0)}
      [] c = <<1, 3>> -> {Fx(F("sum", <<<<1, 2>>, <<2, 2>>>>)), Fx(F("down", <<<<2, 2>>>>))}
      [] c = <<2, 3>> -> {Blank, Fx(F("copy", <<<<1, 3>>>>))}
BlockFormulas == FormulasOf(UNION {BlockPalette(c) : c \in BlockCells})

=============================================================================
