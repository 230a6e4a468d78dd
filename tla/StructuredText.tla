--------------------------- MODULE StructuredText ---------------------------
(***************************************************************************)
(* Structured references as text (sheet-parser, structured.rs and the part *)
(* of print.rs that is its inverse): `Table[Col]`, `Table[[#All],[Col]]`,  *)
(* `Table[[A]:[B]]`, `[@Col]`. Here a piece of the text is a character, or *)
(* a run of letters. Letter case and repeated blanks are left out.         *)
(***************************************************************************)
EXTENDS Naturals, Sequences, SequencesExt

Areas == {"All", "Data", "Headers", "Totals", "This Row"}
Special == {"[", "]", "#", "'", "@"}

\* A reference: the rows of the table it takes, and no, one or two columns.
Structured(table, area, cols) == [kind |-> "table", name |-> table, area |-> area, cols |-> cols]
NoSpec == Structured("", "none", << >>)

Trimmed(s) ==
    LET solid == {i \in DOMAIN s : s[i] # " "}
    IN  IF solid = {} THEN << >> ELSE SubSeq(s, Min(solid), Max(solid))

\* The rest of a text after its first n pieces.
After(s, n) == SubSeq(s, n + 1, Len(s))

RECURSIVE Unescaped(_), BracketEnd(_, _, _), GroupEnd(_, _), SpanAt(_, _, _), Items(_)

Unescaped(s) ==
    IF s = << >> THEN << >>
    ELSE IF Head(s) # "'" THEN <<Head(s)>> \o Unescaped(Tail(s))
    ELSE IF Len(s) = 1 THEN << >> ELSE <<s[2]>> \o Unescaped(After(s, 2))

Column(s) == Trimmed(Unescaped(Trimmed(s)))

\* The bracket that closes the depth open at p (0 when none does).
BracketEnd(s, p, depth) ==
    IF p > Len(s) THEN 0
    ELSE CASE s[p] = "'" -> BracketEnd(s, p + 2, depth)
           [] s[p] = "[" -> BracketEnd(s, p + 1, depth + 1)
           [] s[p] = "]" -> IF depth = 1 THEN p ELSE BracketEnd(s, p + 1, depth - 1)
           [] OTHER -> BracketEnd(s, p + 1, depth)

\* The end of one bracketed item, whose text may hold no open bracket.
GroupEnd(s, p) ==
    IF p > Len(s) THEN 0
    ELSE IF s[p] = "]" THEN p
    ELSE GroupEnd(s, IF s[p] = "'" THEN p + 2 ELSE p + 1)

\* The colon between two bracketed columns (0 when there is none).
SpanAt(s, p, inGroup) ==
    IF p > Len(s) THEN 0
    ELSE CASE s[p] = "'" /\ inGroup -> SpanAt(s, p + 2, inGroup)
           [] s[p] = "[" -> SpanAt(s, p + 1, TRUE)
           [] s[p] = "]" -> SpanAt(s, p + 1, FALSE)
           [] s[p] = ":" /\ ~inGroup -> p
           [] OTHER -> SpanAt(s, p + 1, inGroup)

IsArea(s) == Len(s) = 2 /\ s[1] = "#" /\ s[2] \in Areas
AreaItem(area) == [is |-> "area", area |-> area, col |-> << >>]
ColumnItem(col) == [is |-> "column", area |-> "Data", col |-> col]
BadItem == [is |-> "bad", area |-> "Data", col |-> << >>]

Item(s) == IF IsArea(Trimmed(s)) THEN AreaItem(Trimmed(s)[2]) ELSE ColumnItem(Column(s))

\* The items of a list; what is no item makes the list bad.
Items(s) ==
    IF s = << >> THEN << >>
    ELSE CASE Head(s) \in {",", " "} -> Items(Tail(s))
           [] Head(s) = "@" -> <<AreaItem("This Row")>> \o Items(Tail(s))
           [] Head(s) = "[" ->
                LET end == GroupEnd(s, 2)
                IN  IF end = 0 THEN <<BadItem>> ELSE <<Item(SubSeq(s, 2, end - 1))>> \o Items(After(s, end))
           [] OTHER -> <<BadItem>>

\* The area two area items make, in either order.
Combined(a, b) ==
    CASE {a, b} = {"Headers", "Data"} -> "HeadersData"
      [] {a, b} = {"Data", "Totals"} -> "DataTotals"
      [] OTHER -> "none"

AreaOf(items) ==
    LET areas == SelectSeq(items, LAMBDA i : i.is = "area")
    IN  CASE Len(areas) = 0 -> "Data"
          [] Len(areas) = 1 -> areas[1].area
          [] Len(areas) = 2 -> Combined(areas[1].area, areas[2].area)
          [] OTHER -> "none"

ColumnsOf(items) ==
    LET cols == SelectSeq(items, LAMBDA i : i.is = "column")
    IN  [i \in DOMAIN cols |-> cols[i].col]

AllItems(items) == \A i \in DOMAIN items : items[i].is # "bad"

\* `[..],[..]`, with at most one span of columns.
ItemList(s, table) ==
    LET colon == SpanAt(s, 1, FALSE)
        left == Items(IF colon = 0 THEN s ELSE SubSeq(s, 1, colon - 1))
        right == IF colon = 0 THEN << >> ELSE Items(After(s, colon))
        area == AreaOf(left)
        sound == /\ AllItems(left \o right) /\ area # "none"
                 /\ IF colon = 0 THEN Len(ColumnsOf(left)) <= 1
                    ELSE Len(ColumnsOf(left)) = 1 /\ Len(right) = 1 /\ Len(ColumnsOf(right)) = 1
    IN  IF sound THEN Structured(table, area, ColumnsOf(left) \o ColumnsOf(right)) ELSE NoSpec

\* `@`, `@Col` and `@[Col]`.
ThisRow(s, table) ==
    LET items == Items(s)
    IN  CASE s = << >> -> Structured(table, "This Row", << >>)
          [] s # << >> /\ Head(s) # "[" -> Structured(table, "This Row", <<Column(s)>>)
          [] s # << >> /\ Head(s) = "[" ->
               IF Len(items) = 1 /\ items[1].is = "column"
               THEN Structured(table, "This Row", <<items[1].col>>) ELSE NoSpec

\* The reference between the outer brackets; NoSpec when there is none.
ParseSpec(body, table) ==
    LET s == Trimmed(body)
    IN  CASE s = << >> -> Structured(table, "Data", << >>)
          [] s # << >> /\ Head(s) = "@" -> ThisRow(Trimmed(Tail(s)), table)
          [] s # << >> /\ Head(s) = "[" -> ItemList(s, table)
          [] s # << >> /\ Head(s) \notin {"@", "["} ->
               IF IsArea(s) THEN Structured(table, s[2], << >>) ELSE Structured(table, "Data", <<Column(s)>>)

-----------------------------------------------------------------------------
(* The printer. *)

Escaped(col) == FlattenSeq([i \in DOMAIN col |-> IF col[i] \in Special THEN <<"'", col[i]>> ELSE <<col[i]>>])
Bracketed(col) == <<"[">> \o Escaped(col) \o <<"]">>

\* A column that reads as itself between the outer brackets needs none of its own.
NeedsBrackets(col) == col = << >> \/ \E i \in DOMAIN col : col[i] \in Special \cup {" ", ":", ","}
Plain(col) == IF NeedsBrackets(col) THEN Bracketed(col) ELSE col

AreaText(area) ==
    CASE area = "HeadersData" -> <<"#", "Headers", "]", ",", "[", "#", "Data">>
      [] area = "DataTotals" -> <<"#", "Data", "]", ",", "[", "#", "Totals">>
      [] OTHER -> <<"#", area>>

SpecBody(ref) ==
    LET first == ref.cols[1]
        span == Bracketed(first) \o (IF Len(ref.cols) = 2 THEN <<":">> \o Bracketed(ref.cols[2]) ELSE << >>)
        area == <<"[">> \o AreaText(ref.area) \o <<"]">>
    IN  CASE ref.area = "This Row" /\ ref.name = "" ->
               <<"@">> \o (IF ref.cols = << >> THEN << >> ELSE Plain(first))
                 \o (IF Len(ref.cols) = 2 THEN <<":">> \o Bracketed(ref.cols[2]) ELSE << >>)
          [] ref.area = "Data" ->
               IF ref.cols = << >> THEN << >> ELSE IF Len(ref.cols) = 1 THEN Plain(first) ELSE span
          [] OTHER -> IF ref.cols = << >> THEN area ELSE area \o <<",">> \o span

SpecText(ref) ==
    (IF ref.name = "" THEN << >> ELSE <<ref.name>>) \o <<"[">> \o SpecBody(ref) \o <<"]">>
=============================================================================
