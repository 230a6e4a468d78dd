--------------------------- MODULE ChainPlacement ---------------------------
(***************************************************************************)
(* A range placed across a chain of frames, which follows the workbook and *)
(* the frames: paginatePass and subscribeChainReflow                       *)
(* (src/packages/sheet-bundle/src/lower.ts), paginateSelection and         *)
(* refreshPlacements (session.ts), over the engine's pagination            *)
(* (SheetPages) and the in-place refresh of a table (TableRefresh).        *)
(*                                                                         *)
(* An action is the code from one await to the next.  There is one chain,  *)
(* whose frames share one story; the tables of the story are the host's.   *)
(* A handle is a subscription of the session, or a first pagination that   *)
(* will become one: [opts, owned, runs, pass, live, timer, disposed,       *)
(* broken].  Its runs go one at a time and each makes one pass.            *)
(***************************************************************************)
EXTENDS SheetPages, TableRefresh, FiniteSets

CONSTANTS
    Sheets,         \* what the range may hold
    Layouts,        \* the frames the chain may have: sequences of heights
    Starts,         \* what the range and the chain begin with
    Options,        \* pagination options a user may ask for
    MaxEvents       \* bound on edits, resizes, paginations asked for and faults together

ASSUME FramesAssumption ==
    Layouts \subseteq Seq(Nat) /\ \A start \in Starts : start[2] \in Seq(Nat)

(* The rows of a range are a list; of repeated rows there is a number. *)
ASSUME RangeAssumption ==
    \A range \in Sheets \cup {start[1] : start \in Starts} : range.rows \in Seq(ToSet(range.rows))

ASSUME OptionsAssumption == \A opts \in Options : opts.header \in Nat

VARIABLES
    sheet,          \* the rows of the range
    layout,         \* the heights of the frames
    story,          \* the tables in the story: sequence of [id, shows]
    minted,         \* tables ever inserted
    deletes,        \* the host can delete tables (doors66.deleteTable)
    handles,        \* the handles, oldest first
    active,         \* chains.get(storyId), 0 for none
    asked,          \* paginateSelection calls that wait for the story: their options
    due,            \* refreshTimer is armed
    waiting,        \* refreshes waiting in refreshChain
    refreshing,     \* the refresh under way awaits the handle
    events,         \* edits, resizes, paginations asked for and faults so far
    lapses          \* history: what went wrong so far

user == <<sheet, layout>>
host == <<story, minted, deletes>>
session == <<active, asked, due, waiting, refreshing>>
vars == <<user, host, session, handles, events, lapses>>

NoPass == [step |-> "none"]
Handles == DOMAIN handles
InPass(h) == handles[h].pass # NoPass
FirstRun(h) == handles[h].runs # <<>> /\ Head(handles[h].runs) = "first"

NewHandle(opts, owned, run) ==
    [opts |-> opts, owned |-> owned, runs |-> <<run>>, pass |-> NoPass, live |-> run # "first",
     timer |-> FALSE, disposed |-> FALSE, broken |-> FALSE]

Init ==
    /\ \E start \in Starts : sheet = start[1] /\ layout = start[2]
    /\ story = <<>> /\ minted = 0 /\ deletes \in BOOLEAN
    /\ handles = <<>> /\ active = 0 /\ asked = <<>>
    /\ due = FALSE /\ waiting = 0 /\ refreshing = FALSE
    /\ events = 0 /\ lapses = {}

-----------------------------------------------------------------------------
(* The user *)

Event == events < MaxEvents /\ events' = events + 1

(* An edit; scheduleRefresh does nothing while nothing is placed. *)
Edit(new) ==
    /\ Event
    /\ new # sheet /\ sheet' = new
    /\ due' = (due \/ active # 0)
    /\ lapses' = lapses \cup {"missed" : h \in {g \in Handles : InPass(g) /\ FirstRun(g)}}
    /\ UNCHANGED <<layout, host, active, asked, waiting, refreshing, handles>>

(* A frame is resized: the reflow event reaches the subscriptions. *)
Resize(new) ==
    /\ Event
    /\ new # layout /\ layout' = new
    /\ handles' = [h \in Handles |-> [handles[h] EXCEPT !.timer = @ \/ handles[h].live]]
    /\ lapses' = lapses \cup {"missed" : h \in {g \in Handles : InPass(g) /\ FirstRun(g)}}
    /\ UNCHANGED <<sheet, host, session>>

(* paginateSelection, up to the read of the frame's story. *)
Ask(opts) ==
    /\ Event
    /\ asked' = Append(asked, opts)
    /\ UNCHANGED <<user, host, handles, active, due, waiting, refreshing, lapses>>

(* Slip, of Replace: the old handle is left as it is. *)
ReplaceUndisposed(old) == handles[old]

Replace(old) == [handles[old] EXCEPT !.disposed = TRUE, !.live = FALSE, !.timer = FALSE]

(* The rest of it, up to its first pass: the handle of the chain is         *)
(* replaced by one that takes over the tables the last pass left.           *)
Place(k) ==
    /\ asked' = RemoveAt(asked, k)
    /\ IF active = 0
       THEN /\ handles' = Append(handles, NewHandle(asked[k], <<>>, "first"))
            /\ UNCHANGED active
       ELSE /\ handles' = Append([handles EXCEPT ![active] = Replace(active)],
                                 NewHandle(asked[k], handles[active].owned, "again"))
            /\ active' = Len(handles) + 1
    /\ lapses' = lapses \cup {"crossed" : h \in {g \in Handles : InPass(g) \/ FirstRun(g)}}
    /\ UNCHANGED <<user, host, due, waiting, refreshing, events>>

-----------------------------------------------------------------------------
(* Runs *)

Requested(h, run) == [handles EXCEPT ![h].runs = Append(@, run)]

(* The debounce of the reflow events of a handle. *)
ReflowTimer(h) ==
    /\ handles[h].timer
    /\ handles' = [handles EXCEPT ![h] =
           [handles[h] EXCEPT !.runs = IF handles[h].broken THEN @ ELSE Append(@, "reflow"),
                              !.timer = FALSE]]
    /\ UNCHANGED <<user, host, session, events, lapses>>

(* refreshTimer, then refreshPlacements, which never overlaps itself. *)
RefreshTimer ==
    /\ due /\ due' = FALSE
    /\ waiting' = waiting + 1
    /\ UNCHANGED <<user, host, active, asked, refreshing, handles, events, lapses>>

StartRefresh ==
    /\ waiting > 0 /\ ~refreshing
    /\ waiting' = waiting - 1
    /\ IF active = 0 \/ handles[active].broken
       THEN UNCHANGED <<refreshing, handles>>
       ELSE refreshing' = TRUE /\ handles' = Requested(active, "refresh")
    /\ UNCHANGED <<user, host, active, asked, due, events, lapses>>

(* A run of a disposed handle does nothing. *)
StartRun(h) ==
    /\ handles[h].runs # <<>> /\ ~InPass(h)
    /\ IF handles[h].disposed
       THEN /\ handles' = [handles EXCEPT ![h].runs = Tail(@)]
            /\ refreshing' = (refreshing /\ Head(handles[h].runs) # "refresh")
       ELSE /\ handles' = [handles EXCEPT ![h].pass = [step |-> "frames"]]
            /\ UNCHANGED refreshing
    /\ UNCHANGED <<user, host, active, asked, due, waiting, events, lapses>>

(* The run of handle h ends, its handle owning the tables owned.  A first   *)
(* pagination is subscribed now and becomes the handle of the chain, unless *)
(* there was no chain.                                                      *)
Ended(h, owned) ==
    LET run == Head(handles[h].runs)
        ends == run = "first" /\ handles[h].pass.step = "frames"
    IN  /\ handles' = [handles EXCEPT ![h] =
               [handles[h] EXCEPT !.owned = owned, !.pass = NoPass, !.runs = Tail(handles[h].runs),
                   !.live = (handles[h].live \/ run = "first") /\ ~handles[h].disposed /\ ~ends,
                   !.disposed = handles[h].disposed \/ ends]]
        /\ active' = IF run = "first" /\ ~ends THEN h ELSE active
        /\ refreshing' = (refreshing /\ run # "refresh")
        /\ UNCHANGED <<user, asked, due, waiting, events, lapses>>

-----------------------------------------------------------------------------
(* Passes *)

Goes(h, pass) ==
    /\ handles' = [handles EXCEPT ![h].pass = pass]
    /\ UNCHANGED <<user, session, events, lapses>>

(* resolveChain: the frames as the host has them when it answers. *)
ReadFrames(h) ==
    /\ handles[h].pass.step = "frames"
    /\ IF layout = <<>> THEN Ended(h, handles[h].owned)
       ELSE Goes(h, [step |-> "paginate", frames |-> layout])
    /\ UNCHANGED host

(* The engine paginates the range as it is now. *)
Paginate(h) ==
    LET pass == handles[h].pass
        pages == Pages(sheet, pass.frames, handles[h].opts)
    IN  /\ pass.step = "paginate"
        /\ Goes(h, [step |-> "write", pages |-> [k \in DOMAIN pages |-> pages[k].content],
                    at |-> 1, tables |-> <<>>])
        /\ UNCHANGED host

TableAt(id) == CHOOSE t \in DOMAIN story : story[t].id = id
InStory(id) == \E t \in DOMAIN story : story[t].id = id
StoryWith(id, shows) ==
    IF InStory(id) THEN [story EXCEPT ![TableAt(id)].shows = shows] ELSE story

Owned(id, shows, blank) == [id |-> id, shows |-> shows, blank |-> blank]

(* A page that has a table already refreshes it; a refresh of a table that  *)
(* is gone is refused and goes unnoticed.                                   *)
RefreshPage(h) ==
    LET pass == handles[h].pass
        own == handles[h].owned[pass.at]
        page == pass.pages[pass.at]
    IN  /\ pass.step = "write"
        /\ pass.at \in DOMAIN pass.pages \cap DOMAIN handles[h].owned
        /\ story' = IF InStory(own.id)
                    THEN StoryWith(own.id, Refreshed(story[TableAt(own.id)].shows, own.shows, page))
                    ELSE story
        /\ Goes(h, [pass EXCEPT !.at = @ + 1, !.tables = Append(@, Owned(own.id, page, FALSE))])
        /\ UNCHANGED <<minted, deletes>>

EmptyTable == [rows |-> <<EmptyRow>>, merges |-> {}]

(* Any other page gets a new table, at the end of the story, ... *)
InsertPage(h) ==
    LET pass == handles[h].pass
    IN  /\ pass.step = "write"
        /\ pass.at \in DOMAIN pass.pages \ DOMAIN handles[h].owned
        /\ minted' = minted + 1
        /\ story' = Append(story, [id |-> minted + 1, shows |-> EmptyTable])
        /\ Goes(h, [pass EXCEPT !.step = "pour",
                                !.tables = Append(@, Owned(minted + 1, pass.pages[pass.at], FALSE))])
        /\ UNCHANGED deletes

(* ... which is filled in a second call. *)
PourPage(h) ==
    LET pass == handles[h].pass
    IN  /\ pass.step = "pour"
        /\ story' = StoryWith(Last(pass.tables).id, Last(pass.tables).shows)
        /\ Goes(h, [pass EXCEPT !.step = "write", !.at = @ + 1])
        /\ UNCHANGED <<minted, deletes>>

Spare(h) == SubSeq(handles[h].owned, Len(handles[h].pass.pages) + 1, Len(handles[h].owned))

(* The tables but those gone, in the order they stand. *)
Remaining(tables, gone) == Keeping(tables, {t \in DOMAIN tables : tables[t].id \notin gone})

(* Every page is written.  Tables that are left over are deleted, in one    *)
(* batch, or else emptied and kept for a later pass.                        *)
EndPages(h) ==
    LET pass == handles[h].pass
        gone == {Spare(h)[i].id : i \in DOMAIN Spare(h)}
    IN  /\ pass.step = "write" /\ pass.at > Len(pass.pages)
        /\ IF gone = {} \/ (deletes /\ \A id \in gone : InStory(id))
           THEN /\ story' = Remaining(story, gone)
                /\ Ended(h, pass.tables)
           ELSE /\ Goes(h, [pass EXCEPT !.step = "empty", !.at = 1])
                /\ UNCHANGED <<story>>
        /\ UNCHANGED <<minted, deletes>>

Blank == [rows |-> <<[text |-> "", height |-> 1]>>, merges |-> {}]

EmptySpare(h) ==
    LET pass == handles[h].pass
        own == Spare(h)[pass.at]
        tables == Append(pass.tables, Owned(own.id, Blank, TRUE))
    IN  /\ pass.step = "empty"
        /\ story' = IF own.blank \/ ~InStory(own.id) THEN story
                    ELSE StoryWith(own.id, Refreshed(story[TableAt(own.id)].shows, own.shows, Blank))
        /\ IF pass.at = Len(Spare(h)) THEN Ended(h, tables)
           ELSE Goes(h, [pass EXCEPT !.at = @ + 1, !.tables = tables])
        /\ UNCHANGED <<minted, deletes>>

-----------------------------------------------------------------------------
(* Faults *)

Fault(kind) == Event /\ lapses' = lapses \cup {kind}

(* The host refuses a write: the filling of a table, an insertion, or a     *)
(* refresh, of which the retry in lanes may write a part.  The pass goes on *)
(* as if it had been made.                                                  *)
Refuse(h) ==
    LET pass == handles[h].pass
        refreshes == pass.step = "write" /\ pass.at \in DOMAIN handles[h].owned
        id == IF refreshes THEN handles[h].owned[pass.at].id ELSE Last(pass.tables).id
        page == pass.pages[pass.at]
    IN  /\ pass.step \in {"write", "pour"} /\ pass.at \in DOMAIN pass.pages
        /\ Fault("refused")
        /\ \/ UNCHANGED story
           \/ /\ pass.step = "pour" \/ (refreshes /\ handles[h].owned[pass.at].shows # page)
              /\ story' = StoryWith(id, Garbled)
        /\ handles' = [handles EXCEPT ![h].pass =
               [pass EXCEPT !.step = "write", !.at = @ + 1,
                            !.tables = IF refreshes THEN Append(@, Owned(id, page, FALSE)) ELSE @]]
        /\ UNCHANGED <<user, session, minted, deletes>>

Released(h) == refreshing /\ "refresh" \notin ToSet(handles[h].runs)

(* A call of a pass throws: the run is rejected, and so is every run of the *)
(* handle that waits behind it or is asked for later.  A refresh reports it *)
(* and ends.                                                                *)
Throw(h) ==
    /\ InPass(h)
    /\ Fault("threw")
    /\ handles' = [handles EXCEPT ![h] =
           [handles[h] EXCEPT !.pass = NoPass, !.runs = <<>>, !.broken = TRUE]]
    /\ refreshing' = Released(h)
    /\ UNCHANGED <<user, host, active, asked, due, waiting>>

-----------------------------------------------------------------------------
RunStep(h) ==
    \/ StartRun(h) \/ ReadFrames(h) \/ Paginate(h)
    \/ RefreshPage(h) \/ InsertPage(h) \/ PourPage(h) \/ EndPages(h) \/ EmptySpare(h)

Quiet == \A h \in Handles : handles[h].runs = <<>> /\ ~handles[h].timer
Settled == Quiet /\ ~due /\ waiting = 0 /\ ~refreshing /\ asked = <<>>

(* The system may stop only here: anything else is a deadlock. *)
Rest == Settled /\ UNCHANGED vars

Next ==
    \/ \E new \in Sheets : Edit(new)
    \/ \E new \in Layouts : Resize(new)
    \/ \E opts \in Options : Ask(opts)
    \/ \E k \in DOMAIN asked : Place(k)
    \/ RefreshTimer \/ StartRefresh
    \/ \E h \in Handles : ReflowTimer(h) \/ RunStep(h) \/ Refuse(h) \/ Throw(h)
    \/ Rest

Spec == Init /\ [][Next]_vars

-----------------------------------------------------------------------------
(* Properties *)

(***************************************************************************)
(* Whatever the range holds when a pass paginates it, over the frames the  *)
(* pass has read: rows run through the frames once and in order, under the *)
(* repeated rows, no block is on two pages, every page fits unless nothing *)
(* could make it fit, and merges show as in the sheet.  (paginate_lowered) *)
(***************************************************************************)
PagesSound ==
    \A h \in {g \in Handles : handles[g].pass.step = "paginate"} :
        LET frames == handles[h].pass.frames
            opts == handles[h].opts
            pages == Pages(sheet, frames, opts)
        IN  /\ RowsThreaded(sheet, frames, opts, pages)
            /\ BlocksWhole(sheet, opts, pages)
            /\ PagesFit(sheet, frames, opts, pages)
            /\ MergesKept(sheet, opts, pages)

(***************************************************************************)
(* Between passes the tables of the story are those the handle of the      *)
(* chain owns, in order: a chain that is paginated again, edited or        *)
(* resized keeps its tables and never gets a page twice; unless it was     *)
(* asked for again during a pass, or a pass threw.  (paginatePass,         *)
(* subscribeChainReflow, paginateSelection)                                *)
(***************************************************************************)
PlacedOnce ==
    active # 0 /\ Quiet /\ lapses \cap {"crossed", "threw"} = {} =>
        [t \in DOMAIN story |-> story[t].id] =
            [t \in DOMAIN handles[active].owned |-> handles[active].owned[t].id]

Shown ==
    LET pages == Pages(sheet, layout, handles[active].opts)
    IN  layout # <<>> =>
        /\ [t \in DOMAIN story |-> story[t].shows] =
            [t \in DOMAIN story |-> IF t \in DOMAIN pages THEN pages[t].content ELSE Blank]
        /\ Len(pages) <= Len(story)

(***************************************************************************)
(* Whenever the chain is at rest (and it always comes to rest: nothing     *)
(* waits for ever), its tables show the range as it is, over the frames as *)
(* they are; unless a write was refused or threw, the chain was asked for  *)
(* again during a pass, or an edit fell into the first pagination.         *)
(* (subscribeChainReflow, refreshPlacements, applyTableRefresh)            *)
(***************************************************************************)
ShowsRange == Settled /\ active # 0 /\ lapses = {} => Shown

=============================================================================
