---------------------------- MODULE MCFormatEdits ---------------------------
(***************************************************************************)
(* FormatEdits on a row of three cells, over the minimal style part the    *)
(* writer makes up and over the part of a file that uses themes, palettes, *)
(* number formats and styles which do not apply their font.                *)
(***************************************************************************)
EXTENDS FormatEdits

MCBuiltin == [i \in {0, 2, 14} |-> CASE i = 0 -> "General" [] i = 2 -> "0.00" [] OTHER -> "mm-dd-yy"]
MCLegacy  == [i \in {"2", "3"} |-> IF i = "2" THEN "red" ELSE "lime"]
MCOffice  == [i \in {"0", "4"} |-> IF i = "0" THEN "white" ELSE "blue"]
MCTheme   == [i \in {"4"} |-> "teal"]

MCSelections == {<<2, 2>>, <<1, 2>>, <<2, 3>>}
MCFramed == {<<1, 2>>}
MCNamed == {<<1, 2>>, <<2, 3>>}
MCKinds == {"outline", "none"}

Red == "red"

MCPatches ==
  {[bold |-> TRUE, color |-> Red, fill |-> "", numFmt |-> "kg", h |-> "center", wrap |-> TRUE],
   [bold |-> FALSE, color |-> "", fill |-> Red, numFmt |-> "0.00", name |-> "Arial", size |-> "9",
    v |-> "bottom"]}

MCBorders == {[style |-> "thin", color |-> Red]}

Default == [b |-> "", i |-> "", u |-> "", sz |-> "11", name |-> "Calibri", scheme |-> "minor",
            color |-> NoColor]
NoFill == [pattern |-> "none", fg |-> NoColor]
Gray   == [pattern |-> "gray125", fg |-> NoColor]
NoEdges == [e \in Edges |-> [style |-> "none", color |-> NoColor]]

Minimal == [numFmts |-> <<>>, fonts |-> <<[Default EXCEPT !.scheme = ""]>>, fills |-> <<NoFill, Gray>>,
            borders |-> <<NoEdges>>, xfs |-> <<EmptyXf>>, palette |-> <<>>]

Themed(i) == [kind |-> "theme", at |-> i, tint |-> ""]

Rich ==
  [numFmts |-> <<[id |-> 170, code |-> "kg"], [id |-> 164, code |-> "cm"]>>,
   fonts   |-> <<Default, [Default EXCEPT !.b = "1", !.color = Themed("4")]>>,
   fills   |-> <<NoFill, Gray,
                 [pattern |-> "solid", fg |-> [kind |-> "indexed", at |-> "1", tint |-> ""]],
                 [pattern |-> "solid", fg |-> Rgb(Red)]>>,
   borders |-> <<NoEdges, [EmptyBorder EXCEPT !["top"] = [style |-> "thin", color |-> Automatic]]>>,
   xfs     |-> <<EmptyXf,
                 [EmptyXf EXCEPT !.font = 2, !.fill = 3, !.applies.font = "0", !.h = "right"],
                 [EmptyXf EXCEPT !.numFmt = 164, !.border = 2, !.wrap = "1", !.v = "top"]>>,
   palette |-> [i \in {"1"} |-> "green"]]

Cell(t, s) == [text |-> t, style |-> s]

(* One sheet is entered by hand; the other is a file with styled cells, a  *)
(* merge over contents and a name that stands for text.                    *)
MCSheet(own) ==
  IF own THEN [cells |-> <<Cell("x", 1), Cell("", 1), Cell("y", 1)>>, merges |-> {}, names |-> <<>>]
  ELSE [cells |-> <<Cell("x", 2), Cell("y", 3), Cell("", 3)>>, merges |-> {<<1, 2>>},
        names |-> <<[scope |-> "workbook", target |-> <<"text">>], [scope |-> "sheet", target |-> <<1, 2>>]>>]

MCFiles == {<<Minimal, MCSheet(TRUE)>>, <<Rich, MCSheet(FALSE)>>}

-----------------------------------------------------------------------------
(* What the panel asks for, as both readers tell it.                       *)
Drawn(line) == IF line = <<>> THEN <<"none", <<>>>> ELSE line
AskedLine(edge) ==
  IF edge.style = "none" THEN <<"none", <<>>>>
  ELSE <<edge.style, IF edge.color = "" THEN <<>> ELSE <<edge.color, "">>>>
AskedColor(c) == IF c = "" THEN <<>> ELSE <<c, "">>

Says(panel, f, v) ==
  CASE f \in BorderFields -> Drawn(panel[f]) = AskedLine(v)
    [] f \in {"color", "fill"} -> panel[f] = AskedColor(v)
    [] OTHER -> panel[f] = v

Shows(page, default, f, v) ==
  CASE f \in BorderFields ->
         page.lines[f] = IF v.style = "none" THEN <<>> ELSE AskedLine(v)
    [] f = "color" -> page.font.text = AskedColor(v)
    [] f = "fill" -> page.fill = AskedColor(v)
    [] f = "name" -> FirstOf(page.font.name, default.name) = v
    [] f = "size" -> FirstOf(page.font.size, default.sz) = v
    [] f \in {"bold", "italic", "underline"} -> page.font[f] = v
    [] f = "h" -> page.h = ModelAlign(v)
    [] f = "v" -> page.v = IF v \in {"top", "center"} THEN v ELSE ""
    [] OTHER -> page[f] = v

Same(f, old, new) == IF f \in BorderFields THEN Drawn(old[f]) = Drawn(new[f]) ELSE old[f] = new[f]

(* All styles of a call are patched and its cells are about to take them.  *)
Patched == task # Idle /\ task.todo = {}

(* The patched styles give every cell of the range what was asked, on the  *)
(* page and in the panel, and leave everything else: the other fields, the *)
(* contents, and the cells outside.                                        *)
Given(call) ==
  LET old(c) == Panel(part, book.cells[c].style)
      new(c) == Panel(part', book'.cells[c].style)
  IN  /\ \A c \in Cells : book'.cells[c].text = book.cells[c].text
      /\ \A c \in Cells \ Span(call.box) : book'.cells[c] = book.cells[c]
      /\ \A c \in Span(call.box) :
           /\ \A f \in DOMAIN call.patch :
                /\ Says(new(c), f, call.patch[f])
                /\ Shows(Page(part', book'.cells[c].style), part'.fonts[1], f, call.patch[f])
           /\ \A f \in Fields \ DOMAIN call.patch : Same(f, old(c), new(c))

(* Asking again for what a style has adds no record and answers the same   *)
(* style: the part does not grow with every click.                         *)
Stays(call) == \A b \in DOMAIN task.map : Settled(draft, task.map[b], call.patch)

(* A style change does what was asked, nothing else, and once.             *)
StyleAsAsked == [][Patched => Given(task.calls[1]) /\ Stays(task.calls[1])]_task
=============================================================================
