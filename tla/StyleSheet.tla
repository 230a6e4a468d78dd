----------------------------- MODULE StyleSheet -----------------------------
(***************************************************************************)
(* The style part of a workbook (styles.xml) and the three readings of it: *)
(* what a cell looks like on the page and in the grid (sheet-xlsx          *)
(* parts/styles.rs), what the format panel says of it, and what a patch    *)
(* makes of it (sheet-xlsx style_edit.rs).                                 *)
(*                                                                         *)
(* A part is a record of tables.  A table is a sequence and its records    *)
(* are numbered from one (from zero in the file).  Text and numbers are    *)
(* opaque; "" is an attribute or an element that is not there.  A colour   *)
(* is what the file says ([kind, at, tint]); a resolved colour is a base   *)
(* and a tint, or <<>> for none.                                           *)
(***************************************************************************)
EXTENDS Integers, Sequences

CONSTANTS
  Builtin,     \* number formats with a fixed id: id -> code
  Legacy,      \* the palette of a file that has none of its own: index -> colour
  Office,      \* the theme slots of a package without a theme part
  Theme,       \* the slots of the theme part; the empty function without one
  Colours,     \* the texts that are #RRGGBB
  LineStyles, HAligns, VAligns,      \* the words a patch may use
  Sizes,       \* font sizes in (0, 409]
  Codes        \* number-format codes that compile

(* The fixed ids end below the first custom one.                           *)
ASSUME BuiltinAssumption == DOMAIN Builtin \subseteq 0..163

Edges == {"top", "right", "bottom", "left", "diagonal"}

NoColor   == [kind |-> "", at |-> "", tint |-> ""]
Automatic == [kind |-> "auto", at |-> "", tint |-> ""]
Rgb(c)    == [kind |-> "rgb", at |-> c, tint |-> ""]

-----------------------------------------------------------------------------
(* Reading                                                                 *)

(* The slot of a palette, or the one of the table behind it.               *)
Slot(own, default, i) ==
  IF i \in DOMAIN own THEN own[i] ELSE IF i \in DOMAIN default THEN default[i] ELSE ""

(* ColorContext::resolve.  A palette of the file hides the legacy one, an  *)
(* unreadable entry in it ("") is no colour; a theme slot that is missing  *)
(* falls back to the Office one.                                           *)
Resolve(part, color) ==
  LET base == CASE color.kind = "rgb" -> color.at
                [] color.kind = "indexed" -> Slot(part.palette, Legacy, color.at)
                [] color.kind = "theme" -> Slot(Theme, Office, color.at)
                [] OTHER -> ""
  IN  IF base = "" THEN <<>> ELSE <<base, color.tint>>

Known(s, k) == k \in 1..Len(s)

(* The custom code of a format id: the last record with it counts.         *)
Custom(fmts, id) ==
  LET of == {k \in 1..Len(fmts) : fmts[k].id = id}
  IN  IF of = {} THEN "" ELSE fmts[CHOOSE k \in of : \A j \in of : j <= k].code

BuiltinCode(id) == IF id \in DOMAIN Builtin THEN Builtin[id] ELSE ""

FirstOf(a, b) == IF a = "" THEN b ELSE a

On(flag) == flag = "1"

Faced(style) == style \notin {"", "none"}

(* A border edge as it is drawn: no line, or its style and colour.         *)
Line(part, edge) == IF Faced(edge.style) THEN <<edge.style, Resolve(part, edge.color)>> ELSE <<>>

NoLines == [e \in Edges \ {"diagonal"} |-> <<>>]

(* A font size or name is an override only where it differs from the       *)
(* default font's (the first record).                                      *)
Override(part, font, field) ==
  IF Known(part.fonts, 1) /\ part.fonts[1][field] = font[field] THEN "" ELSE font[field]

Plain == [bold |-> FALSE, italic |-> FALSE, underline |-> FALSE, size |-> "", name |-> "",
          text |-> <<>>]

FontFacet(part, xf) ==
  IF xf.applies.font # "0" /\ Known(part.fonts, xf.font)
  THEN LET f == part.fonts[xf.font]
       IN  [bold |-> On(f.b), italic |-> On(f.i), underline |-> On(f.u),
            size |-> Override(part, f, "sz"), name |-> Override(part, f, "name"),
            text |-> Resolve(part, f.color)]
  ELSE Plain

FillOf(part, id) ==
  IF Known(part.fills, id) /\ part.fills[id].pattern = "solid"
  THEN Resolve(part, part.fills[id].fg) ELSE <<>>

FillFacet(part, xf) == IF xf.applies.fill # "0" THEN FillOf(part, xf.fill) ELSE <<>>

BorderFacet(part, xf) ==
  IF xf.applies.border # "0" /\ Known(part.borders, xf.border)
  THEN [e \in Edges \ {"diagonal"} |-> Line(part, part.borders[xf.border][e])]
  ELSE NoLines

(* model_align: the alignments the model tells apart.                      *)
ModelAlign(h) ==
  CASE h \in {"left", "justify", "distributed"} -> "left"
    [] h \in {"center", "centerContinuous"} -> "center"
    [] h = "right" -> "right"
    [] OTHER -> "general"

(* What the page and the grid make of a style: the record of the style     *)
(* table (number format, horizontal alignment) and its visual side.  The   *)
(* custom code of a format id goes before the built-in one.                *)
PageOf(part, xf) ==
  [numFmt |-> FirstOf(FirstOf(Custom(part.numFmts, xf.numFmt), BuiltinCode(xf.numFmt)), "General"),
   font |-> FontFacet(part, xf),
   fill |-> FillFacet(part, xf),
   lines |-> BorderFacet(part, xf),
   h |-> ModelAlign(xf.h),
   v |-> IF xf.v \in {"top", "center"} THEN xf.v ELSE "",
   wrap |-> On(xf.wrap)]

Page(part, id) == PageOf(part, part.xfs[id])

(* describe_style: what the panel says.  It does not look at the applies   *)
(* flags, and the built-in code of an id goes before the custom one.       *)
FontSaid(part, xf, field) == IF Known(part.fonts, xf.font) THEN part.fonts[xf.font][field] ELSE ""

ColorSaid(part, xf) ==
  IF Known(part.fonts, xf.font) THEN Resolve(part, part.fonts[xf.font].color) ELSE <<>>

EdgeSaid(part, xf, e) ==
  IF Known(part.borders, xf.border) /\ part.borders[xf.border][e].style # ""
  THEN <<part.borders[xf.border][e].style, Resolve(part, part.borders[xf.border][e].color)>>
  ELSE <<>>

PanelOf(part, xf) ==
  [numFmt |-> FirstOf(FirstOf(BuiltinCode(xf.numFmt), Custom(part.numFmts, xf.numFmt)), "General"),
   name |-> FontSaid(part, xf, "name"), size |-> FontSaid(part, xf, "sz"),
   bold |-> On(FontSaid(part, xf, "b")), italic |-> On(FontSaid(part, xf, "i")),
   underline |-> On(FontSaid(part, xf, "u")),
   color |-> ColorSaid(part, xf), fill |-> FillOf(part, xf.fill),
   top |-> EdgeSaid(part, xf, "top"), right |-> EdgeSaid(part, xf, "right"),
   bottom |-> EdgeSaid(part, xf, "bottom"), left |-> EdgeSaid(part, xf, "left"),
   h |-> FirstOf(xf.h, "general"), v |-> FirstOf(xf.v, "bottom"), wrap |-> On(xf.wrap)]

Panel(part, id) == PanelOf(part, part.xfs[id])

-----------------------------------------------------------------------------
(* Patching.  A patch is a function from the fields it sets.               *)

FontFields   == {"name", "size", "bold", "italic", "underline", "color"}
BorderFields == {"top", "right", "bottom", "left"}
AlignFields  == {"h", "v", "wrap"}
Fields       == FontFields \cup BorderFields \cup AlignFields \cup {"numFmt", "fill"}

Touches(p, fields) == DOMAIN p \cap fields # {}

(* The values that are refused; the engine changes nothing then.           *)
GoodEdge(edge) ==
  \/ edge.style = "none"
  \/ edge.style \in LineStyles /\ edge.color \in Colours \cup {""}

Acceptable(p) ==
  /\ "numFmt" \in DOMAIN p => p["numFmt"] \in Codes
  /\ "size" \in DOMAIN p => p["size"] \in Sizes
  /\ "name" \in DOMAIN p => p["name"] # ""
  /\ \A f \in DOMAIN p \cap {"color", "fill"} : p[f] \in Colours \cup {""}
  /\ \A f \in DOMAIN p \cap BorderFields : GoodEdge(p[f])
  /\ "h" \in DOMAIN p => p["h"] \in HAligns
  /\ "v" \in DOMAIN p => p["v"] \in VAligns

(* A slip: a record that is not there overwrites the last one.             *)
FindOrRewrite(s, rec) ==
  LET at == {k \in 1..Len(s) : s[k] = rec}
  IN  IF at # {} THEN [table |-> s, id |-> CHOOSE k \in at : \A j \in at : k <= j]
      ELSE [table |-> [s EXCEPT ![Len(s)] = rec], id |-> Len(s)]

(* find_or_append: the table with the record in it, and its place.         *)
FindOrAppend(s, rec) ==
  LET at == {k \in 1..Len(s) : s[k] = rec}
  IN  IF at # {} THEN [table |-> s, id |-> CHOOSE k \in at : \A j \in at : k <= j]
      ELSE [table |-> Append(s, rec), id |-> Len(s) + 1]

LastCustom(fmts) ==
  LET ids == {163} \cup {fmts[k].id : k \in 1..Len(fmts)}
  IN  CHOOSE m \in ids : \A i \in ids : i <= m

(* num_fmt_id: a built-in id, the id of a record with the code, or a new   *)
(* record with an id past all others.                                      *)
NumFmtId(fmts, code) ==
  LET builtin == {i \in DOMAIN Builtin : Builtin[i] = code}
      custom  == {k \in 1..Len(fmts) : fmts[k].code = code}
      fresh   == LastCustom(fmts) + 1
  IN  IF builtin # {}
      THEN [table |-> fmts, id |-> CHOOSE i \in builtin : \A j \in builtin : i <= j]
      ELSE IF custom # {}
      THEN [table |-> fmts, id |-> fmts[CHOOSE k \in custom : \A j \in custom : k <= j].id]
      ELSE [table |-> FindOrAppend(fmts, [id |-> fresh, code |-> code]).table, id |-> fresh]

Asked(p, f, old) == IF f \in DOMAIN p THEN p[f] ELSE old

Flag(p, f, old) == IF f \notin DOMAIN p THEN old ELSE IF p[f] THEN "1" ELSE ""

ColorAsked(text) == IF text = "" THEN NoColor ELSE Rgb(text)

(* patched_font.  A name of its own takes the font out of the theme's      *)
(* scheme.                                                                 *)
PatchedFont(font, p) ==
  [b      |-> Flag(p, "bold", font.b),
   i      |-> Flag(p, "italic", font.i),
   u      |-> Flag(p, "underline", font.u),
   sz     |-> Asked(p, "size", font.sz),
   name   |-> Asked(p, "name", font.name),
   scheme |-> IF "name" \in DOMAIN p THEN "" ELSE font.scheme,
   color  |-> IF "color" \in DOMAIN p THEN ColorAsked(p["color"]) ELSE font.color]

EdgeAsked(edge) ==
  IF edge.style = "none" THEN [style |-> "none", color |-> NoColor]
  ELSE [style |-> edge.style, color |-> IF edge.color = "" THEN Automatic ELSE Rgb(edge.color)]

(* patched_border: an edge it names is replaced, an edge that was not      *)
(* there is written without a line.                                        *)
PatchedBorder(border, p) ==
  [e \in Edges |-> IF e \in DOMAIN p THEN EdgeAsked(p[e])
                   ELSE IF border[e].style = "" THEN [style |-> "none", color |-> NoColor]
                   ELSE border[e]]

EmptyFont   == [b |-> "", i |-> "", u |-> "", sz |-> "", name |-> "", scheme |-> "", color |-> NoColor]
EmptyBorder == [e \in Edges |-> [style |-> "", color |-> NoColor]]
EmptyXf     == [numFmt |-> 0, font |-> 1, fill |-> 1, border |-> 1,
                applies |-> [num |-> "", font |-> "", fill |-> "", border |-> "", align |-> ""],
                h |-> "", v |-> "", wrap |-> ""]

RecordOr(s, k, default) == IF Known(s, k) THEN s[k] ELSE default

(* The defaults clear their attribute.                                     *)
Aligned(p, f, default, old) ==
  IF f \notin DOMAIN p THEN old ELSE IF p[f] = default THEN "" ELSE p[f]

BaseXf(part, base) == RecordOr(part.xfs, base, RecordOr(part.xfs, 1, EmptyXf))

(* The four tables a patch may add to, each with the id the style is to    *)
(* use.  A cleared fill is the first fill, which every file reserves.      *)
NumFmtStep(part, xf, p) ==
  IF "numFmt" \in DOMAIN p THEN NumFmtId(part.numFmts, p["numFmt"])
  ELSE [table |-> part.numFmts, id |-> xf.numFmt]

FontStep(part, xf, p) ==
  IF Touches(p, FontFields)
  THEN FindOrAppend(part.fonts, PatchedFont(RecordOr(part.fonts, xf.font, EmptyFont), p))
  ELSE [table |-> part.fonts, id |-> xf.font]

FillStep(part, xf, p) ==
  IF "fill" \notin DOMAIN p THEN [table |-> part.fills, id |-> xf.fill]
  ELSE IF p["fill"] = "" THEN [table |-> part.fills, id |-> 1]
  ELSE FindOrAppend(part.fills, [pattern |-> "solid", fg |-> Rgb(p["fill"])])

BorderStep(part, xf, p) ==
  IF Touches(p, BorderFields)
  THEN FindOrAppend(part.borders, PatchedBorder(RecordOr(part.borders, xf.border, EmptyBorder), p))
  ELSE [table |-> part.borders, id |-> xf.border]

(* A slip: a flag that is set stays.                                       *)
AppliedIfUnset(p, fields, old) == IF Touches(p, fields) /\ old = "" THEN "1" ELSE old

Applied(p, fields, old) == IF Touches(p, fields) THEN "1" ELSE old

PatchedXf(part, xf, p) ==
  [numFmt  |-> NumFmtStep(part, xf, p).id,
   font    |-> FontStep(part, xf, p).id,
   fill    |-> FillStep(part, xf, p).id,
   border  |-> BorderStep(part, xf, p).id,
   applies |-> [num    |-> Applied(p, {"numFmt"}, xf.applies.num),
                font   |-> Applied(p, FontFields, xf.applies.font),
                fill   |-> Applied(p, {"fill"}, xf.applies.fill),
                border |-> Applied(p, BorderFields, xf.applies.border),
                align  |-> Applied(p, AlignFields, xf.applies.align)],
   h       |-> Aligned(p, "h", "general", xf.h),
   v       |-> Aligned(p, "v", "bottom", xf.v),
   wrap    |-> Flag(p, "wrap", xf.wrap)]

(* apply_to_xf: the part with the patched style in it, and its id.         *)
ApplyToXf(part, base, p) ==
  LET xf  == BaseXf(part, base)
      xfs == FindOrAppend(part.xfs, PatchedXf(part, xf, p))
  IN  [part |-> [numFmts |-> NumFmtStep(part, xf, p).table,
                 fonts   |-> FontStep(part, xf, p).table,
                 fills   |-> FillStep(part, xf, p).table,
                 borders |-> BorderStep(part, xf, p).table,
                 xfs     |-> xfs.table,
                 palette |-> part.palette],
       id |-> xfs.id]

-----------------------------------------------------------------------------
(* A table that has only grown.                                            *)
Grown(new, old) == Len(old) <= Len(new) /\ \A k \in 1..Len(old) : new[k] = old[k]

(* A file whose styles name records that exist, one of them at least.  An  *)
(* id past the tables is nobody's until a patch appends a record there.    *)
FmtKnown(part, id) == id <= 163 \/ \E k \in 1..Len(part.numFmts) : part.numFmts[k].id = id

InOrder(part) ==
  /\ Len(part.xfs) > 0
  /\ \A k \in 1..Len(part.xfs) :
       LET xf == part.xfs[k]
       IN  /\ FmtKnown(part, xf.numFmt)
           /\ Known(part.fonts, xf.font)
           /\ Known(part.fills, xf.fill)
           /\ Known(part.borders, xf.border)

(* The tables are sequences, and format ids are 32-bit numbers in a file.  *)
IsTable(s) == s \in Seq({s[k] : k \in 1..Len(s)})

Tables(part) ==
  /\ IsTable(part.numFmts) /\ IsTable(part.fonts) /\ IsTable(part.fills)
  /\ IsTable(part.borders) /\ IsTable(part.xfs)

FormatIdsBelow(part, m) == \A k \in 1..Len(part.numFmts) : part.numFmts[k].id \in 0..m

(* Patching the patched style once more changes nothing and answers it.    *)
Settled(part, id, p) == ApplyToXf(part, id, p) = [part |-> part, id |-> id]
=============================================================================
