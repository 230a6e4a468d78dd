----------------------------- MODULE SheetPages -----------------------------
(***************************************************************************)
(* Threading a range of rows through a chain of frames                     *)
(* (src/sheet-lower/src/paginate.rs over sheet-lower/src/lib.rs).          *)
(*                                                                         *)
(* A sheet is [rows, merges]: rows a sequence of [text, height, hidden],   *)
(* of which all is the range, and merges a set of row spans [top, bottom]  *)
(* (the columns of a merge never change).  Frames are their heights.       *)
(* Options are [header, continued, keep]: the rows repeated on each page,  *)
(* whether a page that goes on gets a marker row, and the spans of rows    *)
(* that may not be split.  Rows are counted from 1.                        *)
(***************************************************************************)
EXTENDS Lists, Sequences, SequencesExt, FiniteSetsExt

CONSTANTS DefaultHeight     \* DEFAULT_ROW_PT

ASSUME HeightAssumption == DefaultHeight \in Nat

-----------------------------------------------------------------------------
(* Lowering: the rows that are not hidden, with their place in the range.   *)
(* A merge begins at its first visible row.                                 *)
VisibleRows(sheet) ==
    Keeping([i \in DOMAIN sheet.rows |-> i], {i \in DOMAIN sheet.rows : ~sheet.rows[i].hidden})

Lowered(sheet) ==
    LET at == VisibleRows(sheet)
        shown(m) == {i \in m.top .. m.bottom : ~sheet.rows[i].hidden}
    IN  [rows |-> [p \in DOMAIN at |-> [text |-> sheet.rows[at[p]].text,
                                        height |-> sheet.rows[at[p]].height]],
         index |-> at,
         merges |-> {[top |-> Min(shown(m)), bottom |-> m.bottom] :
                        m \in {k \in sheet.merges : shown(k) # {}}}]

(* Merges and blocks count rows of the range; pages count rows that are     *)
(* shown.                                                                   *)
SpanShown(full, span) ==
    LET shown == {p \in DOMAIN full.index : full.index[p] \in span.top .. span.bottom}
    IN  IF shown = {} THEN {} ELSE {[top |-> Min(shown), bottom |-> Max(shown)]}

(* Slip, of Positional: rows hidden above are not taken off. *)
SpansOfRange(full, spans) == spans

Positional(full, spans) ==
    IF \A p \in DOMAIN full.index : full.index[p] = p THEN spans
    ELSE UNION {SpanShown(full, span) : span \in spans}

Height(rows, first, last) == MapThenSumSet(LAMBDA i : rows[i].height, first .. last)

-----------------------------------------------------------------------------
(* The rows from at on that go to one page.  Blocks that overlap or touch   *)
(* have become one.                                                         *)
UnitEnd(at, kept) ==
    IF at \in kept THEN Max({last \in kept : at .. last \subseteq kept}) ELSE at

(* The last row of a page that begins with row first. *)
LastFitting(rows, kept, first, room) ==
    LET upTo[last \in first - 1 .. Len(rows)] ==
            IF last = Len(rows) THEN last
            ELSE LET unit == UnitEnd(last + 1, kept)
                 IN  IF Height(rows, first, unit) > room THEN last ELSE upTo[unit]
    IN  upTo[first - 1]

Shifted(m, by) == [top |-> m.top + by, bottom |-> m.bottom + by]

(* The part of a merge on rows lo .. hi. *)
Clipped(m, lo, hi) ==
    LET cut == [top |-> Max({m.top, lo}), bottom |-> Min({m.bottom, hi})]
    IN  IF cut.top <= cut.bottom THEN {cut} ELSE {}

(* One page: the header rows, rows first .. last, and the marker. *)
PageContent(full, header, first, last, continued) ==
    [rows |-> SubSeq(full.rows, 1, header) \o SubSeq(full.rows, first, last)
              \o IF continued THEN <<[text |-> "continued", height |-> DefaultHeight]>> ELSE <<>>,
     merges |-> UNION {Clipped(m, 1, header)
                       \cup {Shifted(part, header + 1 - first) : part \in Clipped(m, first, last)} :
                          m \in full.merges}]

Room(frame, rows, header) == Max({0, frame - Height(rows, 1, header)})

(* The page of frame k that begins with row first: what fits, or else one   *)
(* unit that does not.                                                      *)
PageOf(full, kept, header, frame, k, first, opts) ==
    LET fitting == LastFitting(full.rows, kept, first, Room(frame, full.rows, header))
        last == IF fitting < first THEN UnitEnd(first, kept) ELSE fitting
        continued == opts.continued /\ last < Len(full.rows)
    IN  [frame |-> k, first |-> first, last |-> last, oversize |-> fitting < first,
         continued |-> continued, content |-> PageContent(full, header, first, last, continued)]

(* The pages, frame after frame, until the rows or the frames run out. *)
Threaded(full, kept, header, frames, opts) ==
    LET upTo[k \in 0 .. Len(frames)] ==
            IF k = 0 THEN <<>>
            ELSE LET before == upTo[k - 1]
                     first == IF before = <<>> THEN header + 1 ELSE Last(before).last + 1
                 IN  IF first > Len(full.rows) THEN before
                     ELSE Append(before, PageOf(full, kept, header, frames[k], k, first, opts))
    IN  upTo[Len(frames)]

(* paginate, paginate_lowered *)
Pages(sheet, frames, opts) ==
    LET lowered == Lowered(sheet)
        full == [lowered EXCEPT !.merges = Positional(lowered, @)]
        total == Len(full.rows)
        header == Min({opts.header, total})
        kept == (header + 1 .. total)
                \cap UNION {span.top .. span.bottom : span \in Positional(lowered, opts.keep)}
    IN  IF total = 0 THEN <<>> ELSE Threaded(full, kept, header, frames, opts)

-----------------------------------------------------------------------------
(* What pages promise *)

(* The visible rows after the header, with their place in the range. *)
BodyRows(sheet, opts) ==
    LET at == VisibleRows(sheet) IN SubSeq(at, Min({opts.header, Len(at)}) + 1, Len(at))

RowsOf(sheet, opts, page) ==
    LET at == VisibleRows(sheet) IN {at[p] : p \in page.first .. page.last}

TextOf(sheet, i) == [text |-> sheet.rows[i].text, height |-> sheet.rows[i].height]

(* The rows go through the frames in order, each row once, below the header *)
(* rows; some are left only when there is no frame left.                    *)
RowsThreaded(sheet, frames, opts, pages) ==
    LET at == VisibleRows(sheet)
        header == SubSeq(at, 1, Min({opts.header, Len(at)}))
        shown == FlattenSeq([k \in DOMAIN pages |->
                     [p \in 1 .. pages[k].last - pages[k].first + 1 |-> at[pages[k].first + p - 1]]])
        texts(k) == [p \in DOMAIN pages[k].content.rows |-> pages[k].content.rows[p]]
    IN  /\ \A k \in DOMAIN pages : pages[k].frame = k /\ pages[k].first <= pages[k].last
        /\ IsPrefix(shown, BodyRows(sheet, opts))
        /\ shown = BodyRows(sheet, opts) \/ Len(pages) = Len(frames)
        /\ \A k \in DOMAIN pages :
               IsPrefix([p \in 1 .. Len(header) |-> TextOf(sheet, header[p])]
                        \o [p \in 1 .. pages[k].last - pages[k].first + 1 |->
                               TextOf(sheet, at[pages[k].first + p - 1])],
                        texts(k))

(* The rows of a block that come after the header are never on two pages.   *)
BlocksWhole(sheet, opts, pages) ==
    \A span \in opts.keep, k \in DOMAIN pages :
        LET rows == (span.top .. span.bottom) \cap ToSet(BodyRows(sheet, opts))
        IN  rows \subseteq RowsOf(sheet, opts, pages[k]) \/ rows \cap RowsOf(sheet, opts, pages[k]) = {}

(* A page fits its frame, the marker aside, or is marked oversize: then its *)
(* first row and the rows blocks tie to it do not fit, and nothing follows  *)
(* them.                                                                    *)
Tied(opts, i, j) ==
    \A n \in i .. j - 1 : \E s, t \in opts.keep : n \in s.top .. s.bottom /\ n + 1 \in t.top .. t.bottom

PagesFit(sheet, frames, opts, pages) ==
    \A k \in DOMAIN pages :
        LET rows == pages[k].content.rows
            high == MapThenSumSet(LAMBDA p : rows[p].height,
                        1 .. Len(rows) - (IF pages[k].continued THEN 1 ELSE 0))
        IN  IF high <= frames[k] THEN ~pages[k].oversize
            ELSE /\ pages[k].oversize
                 /\ \A i, j \in RowsOf(sheet, opts, pages[k]) :
                        i < j /\ ToSet(VisibleRows(sheet)) = DOMAIN sheet.rows => Tied(opts, i, j)

(* Two rows of a page are merged exactly where they are in the sheet, the   *)
(* header and the rows below it apart.                                      *)
Joined(merges, p) == \E m \in merges : m.top <= p /\ p < m.bottom

MergesKept(sheet, opts, pages) ==
    LET at == VisibleRows(sheet)
        header == Min({opts.header, Len(at)})
        source(page, p) == IF p <= header THEN at[p] ELSE at[page.first + p - header - 1]
    IN  \A k \in DOMAIN pages :
            \A p \in 1 .. header + pages[k].last - pages[k].first :
                Joined(pages[k].content.merges, p) <=>
                    /\ p # header
                    /\ \E m \in sheet.merges :
                          {source(pages[k], p), source(pages[k], p + 1)} \subseteq m.top .. m.bottom

=============================================================================
