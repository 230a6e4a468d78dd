----------------------------- MODULE CellValues -----------------------------
(***************************************************************************)
(* The values of cells and what operators make of them: the implicit       *)
(* conversions and the cross-type order of sheet-fn/src/coerce.rs, and the *)
(* unary and binary operators of sheet-calc/src/eval.rs.                    *)
(*                                                                         *)
(* A number is an integer here and a quotient is cut to one; a text is     *)
(* atomic, so which texts read as a number, which differ in case only and  *)
(* how they sort are parameters of the instance.                           *)
(***************************************************************************)
EXTENDS Integers, SequencesExt

CONSTANTS
    NumberIn,   \* text -> the number it reads as; other texts read as none
    Lower,      \* text -> its lower case, for the texts with an upper case
    Collation   \* the texts in the order of their bytes

ASSUME CollationOrders ==
    /\ \A i, j \in DOMAIN Collation : i # j => Collation[i] # Collation[j]
    /\ "" \in ToSet(Collation)
    /\ \A t \in DOMAIN Lower : Lower[t] \in ToSet(Collation)

Number(n) == [type |-> "number", n |-> n]
Text(t)   == [type |-> "text", t |-> t]
Bool(b)   == [type |-> "bool", b |-> b]
Error(e)  == [type |-> "error", e |-> e]
Blank     == [type |-> "blank"]

IsError(v) == v.type = "error"

Errors == <<"#DIV/0!", "#VALUE!", "#REF!", "#NAME?", "#NUM!", "#N/A",
            "#NULL!", "#SPILL!">>

-----------------------------------------------------------------------------
(* Conversions.  Each yields the converted value, or the error that the    *)
(* value is or that the conversion raises.                                 *)

ToNumber(v) ==
    CASE v.type \in {"number", "error"} -> v
      [] v.type = "blank" -> Number(0)
      [] v.type = "bool"  -> Number(IF v.b THEN 1 ELSE 0)
      [] v.type = "text"  -> IF v.t \in DOMAIN NumberIn THEN Number(NumberIn[v.t])
                                                       ELSE Error("#VALUE!")

ToText(v) ==
    CASE v.type = "text"   -> v.t
      [] v.type = "blank"  -> ""
      [] v.type = "bool"   -> IF v.b THEN "TRUE" ELSE "FALSE"
      [] v.type = "number" -> ToString(v.n)
      [] v.type = "error"  -> v.e

Folded(t) == IF t \in DOMAIN Lower THEN Lower[t] ELSE t

ToBool(v) ==
    CASE v.type \in {"bool", "error"} -> v
      [] v.type = "number" -> Bool(v.n # 0)
      [] v.type = "blank"  -> Bool(FALSE)
      [] v.type = "text"   -> IF Folded(v.t) \in {"true", "false"}
                              THEN Bool(Folded(v.t) = "true") ELSE Error("#VALUE!")

-----------------------------------------------------------------------------
(* The order of values.  A blank takes the type of the value it meets.     *)

ZeroOf(type) ==
    CASE type = "number" -> Number(0)
      [] type = "text"   -> Text("")
      [] type = "bool"   -> Bool(FALSE)
      [] OTHER           -> Blank

Peer(a, b) == IF a = Blank THEN ZeroOf(b.type) ELSE a

Rank == [blank |-> 0, number |-> 1, text |-> 2, bool |-> 3, error |-> 4]

Sign(n) == IF n > 0 THEN 1 ELSE IF n < 0 THEN -1 ELSE 0

Place(t) == CHOOSE i \in DOMAIN Collation : Collation[i] = t

(* One number per value, ordered as the values of that type are; a text    *)
(* by its lower case first.                                                *)
Weight(v) ==
    CASE v.type = "number" -> v.n
      [] v.type = "text"   -> Place(Folded(v.t)) * Len(Collation) + Place(v.t)
      [] v.type = "bool"   -> IF v.b THEN 1 ELSE 0
      [] v.type = "error"  -> CHOOSE i \in DOMAIN Errors : Errors[i] = v.e
      [] v.type = "blank"  -> 0

(* -1, 0 or 1: coerce::compare, which sorting and exact search use.        *)
Compare(v1, v2) ==
    LET a == Peer(v1, v2)
        b == Peer(v2, v1)
    IN  IF a.type = b.type THEN Sign(Weight(a) - Weight(b))
                           ELSE Sign(Rank[a.type] - Rank[b.type])

(* The operators and UNIQUE take two texts that differ in case as equal.   *)
Ordering(a, b) ==
    IF a.type = "text" /\ b.type = "text" /\ Folded(a.t) = Folded(b.t)
    THEN 0 ELSE Compare(a, b)

-----------------------------------------------------------------------------
(* Operators on values.  An error operand is the result, the left first.   *)

Size(n) == IF n < 0 THEN -n ELSE n

Cut(n, d) == Sign(n) * Sign(d) * (Size(n) \div Size(d))

Power(x, y) ==
    CASE x = 0 /\ y <= 0 -> Error("#NUM!")
      [] y >= 0          -> Number(x ^ y)
      [] OTHER           -> Number(Cut(1, x ^ (-y)))

UnaryValue(op, v) ==
    LET n == ToNumber(v)
    IN  IF IsError(n) THEN n
        ELSE CASE op = "-" -> Number(-n.n)
               [] op = "+" -> n
               [] op = "%" -> Number(Cut(n.n, 100))

Arithmetic(op, x, y) ==
    CASE op = "+" -> Number(x + y)
      [] op = "-" -> Number(x - y)
      [] op = "*" -> Number(x * y)
      [] op = "/" -> IF y = 0 THEN Error("#DIV/0!") ELSE Number(Cut(x, y))
      [] op = "^" -> Power(x, y)

Holds(op, order) ==
    CASE op = "="  -> order = 0
      [] op = "<>" -> order # 0
      [] op = "<"  -> order < 0
      [] op = "<=" -> order <= 0
      [] op = ">"  -> order > 0
      [] op = ">=" -> order >= 0

FirstError(vs) ==
    LET bad == {i \in DOMAIN vs : IsError(vs[i])}
    IN  IF bad = {} THEN Blank ELSE vs[CHOOSE i \in bad : \A j \in bad : i <= j]

BinaryValue(op, l, r) ==
    LET bad == FirstError(<<l, r>>)
        numbers == <<ToNumber(l), ToNumber(r)>>
        unread == FirstError(numbers)
    IN  CASE IsError(bad) -> bad
          [] op = "&"     -> Text(ToText(l) \o ToText(r))
          [] op \in {"=", "<>", "<", "<=", ">", ">="} -> Bool(Holds(op, Ordering(l, r)))
          [] op \in {":", ",", " "} -> Error("#VALUE!")
          [] IsError(unread) -> unread
          [] OTHER -> Arithmetic(op, numbers[1].n, numbers[2].n)
=============================================================================
