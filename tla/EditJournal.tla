---------------------------- MODULE EditJournal ----------------------------
(***************************************************************************)
(* The session's undo journal, the tables placed on the page that follow   *)
(* the workbook, and the follower that takes the workbook back when the    *)
(* document is undone (src/packages/sheet-bundle/src/session.ts).          *)
(*                                                                         *)
(* A column of cells stands for the workbook, and an input for what a cell *)
(* was given.  An action is the code from one await to the next.  The      *)
(* document's undo stack is the host's: one step per refresh of a table.   *)
(***************************************************************************)
EXTENDS Naturals, Sequences, FiniteSets, SequencesExt

CONSTANTS
    NumCells,     \* the cells
    Inputs,       \* what a cell can be given
    Empty,        \* the input of an empty cell
    Ranges,       \* the cells of the column each placed table shows, oldest table first
    None,         \* nothing under way
    MaxEdits,     \* bound on the edits
    MaxRev,       \* bound on the content versions the user's actions reach
    MaxUpsets     \* bound on the undos and redos of the document and the engine and host calls that fail, together

Cells == 1 .. NumCells
Tables == 1 .. Len(Ranges)

ASSUME InputsAssumption == NumCells \in Nat \ {0} /\ Empty \in Inputs
ASSUME RangesAssumption == Ranges \in Seq(SUBSET Cells) /\ Ranges # <<>>
ASSUME LimitsAssumption ==
    MaxEdits \in Nat /\ MaxRev \in Nat /\ MaxUpsets \in Nat /\ None \notin Nat

VARIABLES
    cells,      \* the workbook in the engine
    journal,    \* editJournal
    cursor,     \* journalCursor: the entries that can be undone
    batches,    \* nextJournalBatch - 1
    edits,      \* the edits so far
    revision,   \* the content version of the workbook
    inFrame,    \* inFrameActive: a sheet frame is entered
    floor,      \* sessionFloor, 0 outside a frame, where nothing reads it
    timer,      \* refreshTimer is armed
    deferred,   \* refreshDeferred
    chain,      \* the refreshes waiting in refreshChain
    refresh,    \* the refresh under way, or None
    placed,     \* loweredTables: the version and content last written
    page,       \* what the document shows
    past,       \* the pages the document's undo goes back to
    future,     \* the pages its redo goes forward to
    follow,     \* the document events waiting in historyChain
    reading,    \* the follower under way, or None
    docSteps,   \* the undos and redos of the document so far
    calm,       \* the document was only ever undone in peace (history)
    faults      \* the failures so far

book == <<cells, journal, cursor, batches, edits>>
frame == <<inFrame, floor>>
due == <<timer, deferred, chain>>
shown == <<refresh, placed>>
document == <<page, past, future>>
follower == <<follow, reading>>
vars == <<cells, journal, cursor, batches, edits, revision, inFrame, floor,
          timer, deferred, chain, refresh, placed, page, past, future, follow,
          reading, docSteps, calm, faults>>

Texts == [Cells -> Inputs]
Entries == [cell : Cells, prev : Inputs, next : Inputs, batch : Nat, rev : Nat]

Content(t) == [c \in Ranges[t] |-> cells[c]]

(* What is recorded of the tables, with versions up to the newest.          *)
Contents == UNION {[R -> Inputs] : R \in SUBSET Cells}
Shots(newest) ==
    {s \in [Tables -> [version : 0 .. newest, content : Contents]] :
        \A t \in Tables : s[t].content \in [Ranges[t] -> Inputs]}

Refreshes(newest) ==
    {r \in [version : 0 .. newest, infos : Shots(newest), at : Tables, next : Contents] :
        r.next \in [Ranges[r.at] -> Inputs]}
Readings(newest) ==
    {r \in [at : Tables, known : 0 .. newest, target : (0 .. newest) \cup {None},
            from : (0 .. newest) \cup {None}, moved : SUBSET Tables] :
        r.target = None <=> r.from = None}

(* Nothing under way is neither a refresh nor a follower.                  *)
ASSUME NoneAssumption ==
    /\ None \notin [version : Nat, infos : [Tables -> [version : Nat, content : Contents]],
                    at : Tables, next : Contents]
    /\ None \notin [at : Tables, known : Nat, target : Nat \cup {None},
                    from : Nat \cup {None}, moved : SUBSET Tables]

JournalOK ==
    /\ cells \in Texts
    /\ journal \in Seq(Entries) /\ cursor \in 0 .. Len(journal)
    /\ batches \in Nat /\ revision \in Nat
PagesOK ==
    /\ placed \in Shots(revision) /\ page \in Shots(revision)
    /\ past \in Seq(Shots(revision)) /\ future \in Seq(Shots(revision))
    /\ refresh # None => refresh \in Refreshes(revision)
    /\ reading # None => reading \in Readings(revision)
CountsOK ==
    /\ floor \in Nat /\ chain \in Nat /\ follow \in Nat
    /\ edits \in Nat /\ docSteps \in Nat /\ faults \in Nat
    /\ inFrame \in BOOLEAN /\ timer \in BOOLEAN /\ deferred \in BOOLEAN /\ calm \in BOOLEAN

(***************************************************************************)
(* TypeOK: the journal holds entries, the cursor stays inside it, what is  *)
(* recorded of a table has the shape of its range, and no version anyone   *)
(* holds, a page of the document's undo included, is ahead of the          *)
(* workbook.                                                               *)
(***************************************************************************)
TypeOK == JournalOK /\ PagesOK /\ CountsOK

-----------------------------------------------------------------------------
Fails == docSteps + faults < MaxUpsets /\ faults' = faults + 1
Succeeds == UNCHANGED faults

FirstShot == [t \in Tables |-> [version |-> 0, content |-> [c \in Ranges[t] |-> Empty]]]

Init ==
    /\ cells = [c \in Cells |-> Empty]
    /\ journal = <<>> /\ cursor = 0 /\ batches = 0 /\ edits = 0 /\ revision = 0
    /\ inFrame = FALSE /\ floor = 0
    /\ timer = FALSE /\ deferred = FALSE /\ chain = 0
    /\ refresh = None /\ placed = FirstShot
    /\ page = FirstShot /\ past = <<>> /\ future = <<>>
    /\ follow = 0 /\ reading = None
    /\ docSteps = 0 /\ calm = TRUE /\ faults = 0

-----------------------------------------------------------------------------
(* The journal.                                                            *)

(* scheduleRefresh, after a change the page must show. *)
ScheduleRefresh ==
    /\ UNCHANGED chain
    /\ IF inFrame
         THEN deferred' = TRUE /\ UNCHANGED timer
         ELSE timer' = TRUE /\ UNCHANGED deferred

Edit ==
    /\ edits < MaxEdits /\ revision < MaxRev
    /\ edits' = edits + 1

MarkEdited == revision' = revision + 1 /\ ScheduleRefresh

Entry(c, input, batch, rev) ==
    [cell |-> c, prev |-> cells[c], next |-> input, batch |-> batch, rev |-> rev]

(* The order in which a set of cells is written, from the top. *)
Orders(C) ==
    {at \in [1 .. Cardinality(C) -> C] :
        /\ \A i, j \in 1 .. Cardinality(C) : i < j => at[i] < at[j]
        /\ \A c \in C : \E i \in 1 .. Cardinality(C) : at[i] = c}

(* A slip: only the last entry of a batch is stamped. *)
WrittenLastStamped(at, new, batch) ==
    [i \in 1 .. Len(at) |->
        Entry(at[i], new[at[i]], batch, IF i = Len(at) THEN revision + 1 ELSE 0)]

(* The entries of one write, in cell order, stamped with the version that  *)
(* follows it.                                                             *)
Written(at, new, batch) ==
    [i \in 1 .. Len(at) |-> Entry(at[i], new[at[i]], batch, revision + 1)]

(* A slip: the redo tail stays. *)
RecordAfterTail(new, batch) ==
    /\ cells' = [c \in Cells |-> IF c \in DOMAIN new THEN new[c] ELSE cells[c]]
    /\ \E at \in Orders(DOMAIN new) : journal' = journal \o Written(at, new, batch)
    /\ cursor' = Len(journal')

(* The write, and its entries in place of the redo tail. *)
Record(new, batch) ==
    /\ cells' = [c \in Cells |-> IF c \in DOMAIN new THEN new[c] ELSE cells[c]]
    /\ \E at \in Orders(DOMAIN new) :
         journal' = SubSeq(journal, 1, cursor) \o Written(at, new, batch)
    /\ cursor' = Len(journal')

JournalFrame == UNCHANGED <<frame, shown, document, follower, docSteps>>

(* journaledSetCell: one cell, no batch. *)
EditCell ==
    /\ Edit
    /\ \E c \in Cells, input \in Inputs : Record([x \in {c} |-> input], 0)
    /\ MarkEdited
    /\ calm' = (calm /\ docSteps = 0)
    /\ UNCHANGED <<batches, faults>> /\ JournalFrame

(* journalBatch: a sort, paste, fill, clear or replace-all; of one cell it *)
(* is like EditCell.                                                       *)
EditBatch ==
    /\ Edit
    /\ batches' = batches + 1
    /\ \E W \in SUBSET Cells : Cardinality(W) > 1 /\ \E new \in [W -> Inputs] : Record(new, batches')
    /\ MarkEdited
    /\ calm' = (calm /\ docSteps = 0)
    /\ UNCHANGED faults /\ JournalFrame

(* A slip: the cursor is not put back. *)
InsertRowOnly ==
    /\ Edit
    /\ \E at \in Cells : cells' =
         [c \in Cells |-> IF c < at THEN cells[c] ELSE IF c = at THEN Empty ELSE cells[c - 1]]
    /\ journal' = <<>> /\ UNCHANGED cursor
    /\ MarkEdited
    /\ calm' = FALSE
    /\ UNCHANGED <<batches, faults>> /\ JournalFrame

(* structuralEdit: the cells move and the journal, which names cells by    *)
(* position, is dropped.                                                   *)
InsertRow ==
    /\ Edit
    /\ \E at \in Cells : cells' =
         [c \in Cells |-> IF c < at THEN cells[c] ELSE IF c = at THEN Empty ELSE cells[c - 1]]
    /\ journal' = <<>> /\ cursor' = 0
    /\ MarkEdited
    /\ calm' = FALSE
    /\ UNCHANGED <<batches, faults>> /\ JournalFrame

(* Neighbouring entries of one batch are one step. *)
Joined(i) == journal[i].batch # 0 /\ journal[i].batch = journal[i + 1].batch
Boundary(p) == p \in {0, Len(journal)} \/ ~Joined(p)

(* A slip: undo takes one entry, whatever its batch. *)
LastEntry == cursor - 1

UndoGoal == CHOOSE p \in 0 .. cursor - 1 :
    Boundary(p) /\ \A q \in p + 1 .. cursor - 1 : ~Boundary(q)

RedoGoal == CHOOSE p \in cursor + 1 .. Len(journal) :
    Boundary(p) /\ \A q \in cursor + 1 .. p - 1 : ~Boundary(q)

(* The workbook once every entry between the cursor and p is undone or     *)
(* redone, in the order stepJournal writes them.                           *)
TextAt(p) ==
    [c \in Cells |->
        LET undone == {i \in p + 1 .. cursor : journal[i].cell = c}
            redone == {i \in cursor + 1 .. p : journal[i].cell = c}
        IN  IF undone # {} THEN journal[Min(undone)].prev
            ELSE IF redone # {} THEN journal[Max(redone)].next
            ELSE cells[c]]

Between(p, q) == (p .. q) \cup (q .. p)
Stops(p) == {q \in Between(cursor, p) : Boundary(q)}

(* Step after step to the goal; each step is one more edit.  A write that  *)
(* fails stops the run at p: the step it belongs to is not taken, but the  *)
(* cells it had written up to q stay written.                              *)
StepTo(goal) ==
    \/ /\ Succeeds
       /\ cells' = TextAt(goal) /\ cursor' = goal
       /\ revision' = revision + Cardinality(Stops(goal)) - 1
    \/ /\ Fails
       /\ \E p \in Stops(goal) \ {goal} :
            /\ cursor' = p
            /\ revision' = revision + Cardinality(Stops(p)) - 1
            /\ \E q \in Between(p, goal) :
                 /\ Between(p, q) \cap Stops(goal) = {p}
                 /\ cells' = TextAt(q)

UserStep(goal) ==
    /\ revision < MaxRev
    /\ StepTo(goal)
    /\ IF cursor' = cursor THEN UNCHANGED due ELSE ScheduleRefresh
    /\ calm' = FALSE
    /\ UNCHANGED <<journal, batches, edits>> /\ JournalFrame

(* undoCellEdit: in an entered frame not below where its session began. *)
UndoEdit ==
    /\ cursor > 0
    /\ ~(inFrame /\ cursor <= floor)
    /\ UserStep(UndoGoal)

RedoEdit ==
    /\ cursor < Len(journal)
    /\ UserStep(RedoGoal)

-----------------------------------------------------------------------------
(* Entering and leaving the frame.                                         *)

EnterFrame ==
    /\ ~inFrame
    /\ inFrame' = TRUE /\ floor' = cursor
    /\ UNCHANGED <<book, revision, due, shown, document, follower, docSteps, calm, faults>>

(* A slip: the refreshes held while the frame was entered are forgotten. *)
LeaveUnrefreshed ==
    /\ inFrame
    /\ inFrame' = FALSE /\ floor' = 0 /\ deferred' = FALSE
    /\ UNCHANGED <<timer, chain>>
    /\ UNCHANGED <<book, revision, shown, document, follower, docSteps, calm, faults>>

LeaveFrame ==
    /\ inFrame
    /\ inFrame' = FALSE /\ floor' = 0 /\ deferred' = FALSE
    /\ chain' = IF deferred THEN chain + 1 ELSE chain
    /\ UNCHANGED timer
    /\ UNCHANGED <<book, revision, shown, document, follower, docSteps, calm, faults>>

-----------------------------------------------------------------------------
(* Refreshing the tables.                                                  *)

TimerFires ==
    /\ timer
    /\ timer' = FALSE /\ chain' = chain + 1
    /\ UNCHANGED <<book, revision, frame, deferred, shown, document, follower,
                   docSteps, calm, faults>>

(* The tables from t on, with what was recorded of them when the refresh   *)
(* began, up to the first that needs a write; none left, it is done.       *)
GoOn(t, infos, version) ==
    LET stale == {u \in t .. Len(Ranges) :
                    infos[u].version # version /\ infos[u].content # Content(u)}
    IN  refresh' = IF stale = {} THEN None
                   ELSE [version |-> version, infos |-> infos,
                         at |-> Min(stale), next |-> Content(Min(stale))]

RefreshBegins ==
    /\ refresh = None /\ chain > 0
    /\ chain' = chain - 1
    /\ GoOn(1, placed, revision)
    /\ UNCHANGED <<book, revision, frame, timer, deferred, placed, document,
                   follower, docSteps, calm, faults>>

(* Only the cells that differ from what was last written are written. *)
Repoured ==
    LET t == refresh.at
    IN  [c \in Ranges[t] |-> IF refresh.next[c] # refresh.infos[t].content[c]
                               THEN refresh.next[c] ELSE page[t].content[c]]

(* One batch, one step of the document's undo. *)
Applied ==
    /\ Succeeds
    /\ page' = [page EXCEPT
         ![refresh.at] = [version |-> refresh.version, content |-> Repoured]]
    /\ past' = Append(past, page) /\ future' = <<>>

(* A batch the host refuses is retried lane by lane, each a step of its    *)
(* own: the cells, then the binding with its version.                      *)
Refused ==
    /\ Fails
    /\ \E cellsTaken, bindingTaken \in BOOLEAN :
         LET poured == IF cellsTaken THEN [page EXCEPT ![refresh.at].content = Repoured]
                                     ELSE page
         IN  /\ page' = IF bindingTaken
                          THEN [poured EXCEPT ![refresh.at].version = refresh.version]
                          ELSE poured
             /\ past' = past \o (IF cellsTaken THEN <<page>> ELSE <<>>)
                             \o (IF bindingTaken THEN <<poured>> ELSE <<>>)
             /\ future' = IF cellsTaken \/ bindingTaken THEN <<>> ELSE future

(* What was asked is recorded as shown, refused or not; a call that throws *)
(* ends the refresh.                                                       *)
TableWritten ==
    /\ refresh # None
    /\ \/ /\ Applied \/ Refused
          /\ placed' = [placed EXCEPT
               ![refresh.at] = [version |-> refresh.version, content |-> refresh.next]]
          /\ GoOn(refresh.at + 1, refresh.infos, refresh.version)
       \/ /\ Fails
          /\ refresh' = None
          /\ UNCHANGED <<placed, document>>
    /\ UNCHANGED <<book, revision, frame, due, follower, docSteps, calm>>

-----------------------------------------------------------------------------
(* The document's undo and the follower.                                   *)

Settled ==
    /\ ~timer /\ ~deferred /\ chain = 0 /\ refresh = None
    /\ follow = 0 /\ reading = None

DocStep ==
    /\ ~inFrame /\ docSteps + faults < MaxUpsets
    /\ docSteps' = docSteps + 1
    /\ follow' = follow + 1
    /\ calm' = (calm /\ ~timer /\ chain = 0 /\ refresh = None)
    /\ UNCHANGED <<book, revision, frame, due, shown, reading, faults>>

DocUndo ==
    /\ past # <<>>
    /\ page' = Last(past) /\ past' = Front(past)
    /\ future' = Append(future, page)
    /\ DocStep

DocRedo ==
    /\ future # <<>>
    /\ page' = Last(future) /\ future' = Front(future)
    /\ past' = Append(past, page)
    /\ DocStep

(* followDocumentHistory asks for the binding of the first table. *)
FollowBegins ==
    /\ reading = None /\ follow > 0
    /\ follow' = follow - 1
    /\ reading' = [at |-> 1, known |-> placed[1].version,
                   target |-> None, from |-> None, moved |-> {}]
    /\ UNCHANGED <<book, revision, frame, due, shown, document, docSteps, calm, faults>>

(* What the follower knows once the binding has answered (or failed to). *)
Moved(version) ==
    IF version = reading.known THEN reading
    ELSE [reading EXCEPT
            !.target = IF @ = None THEN version ELSE @,
            !.from = IF @ = None THEN reading.known ELSE @,
            !.moved = @ \cup {reading.at}]

Heard(known) ==
    \/ Succeeds /\ known = Moved(page[reading.at].version)
    \/ Fails /\ known = reading

FollowReads ==
    /\ reading # None /\ reading.at < Len(Ranges)
    /\ \E known \in {reading, Moved(page[reading.at].version)} :
         /\ Heard(known)
         /\ reading' = [known EXCEPT !.at = @ + 1, !.known = placed[reading.at + 1].version]
    /\ UNCHANGED <<book, revision, frame, due, shown, document, follow, docSteps, calm>>

(* How far the journal unwinds, or goes forward, for a version. *)
UnwindTo(target) == CHOOSE p \in 0 .. cursor :
    /\ p = 0 \/ journal[p].rev <= target
    /\ \A q \in p + 1 .. cursor : journal[q].rev > target
ForwardTo(target) == CHOOSE p \in cursor .. Len(journal) :
    /\ p = Len(journal) \/ journal[p + 1].rev > target
    /\ \A q \in cursor + 1 .. p : journal[q].rev <= target

(* A slip: what the tables show is not recorded. *)
NotRebased(known) == placed

Rebased(known) ==
    [t \in Tables |-> IF t \in known.moved
                        THEN [placed[t] EXCEPT !.version = known.target]
                        ELSE placed[t]]

(* The last binding has answered: the journal moves without a refresh. *)
FollowEnds ==
    /\ reading # None /\ reading.at = Len(Ranges)
    /\ reading' = None
    /\ \E known \in {reading, Moved(page[reading.at].version)} :
         IF known.target = None
           THEN Heard(known) /\ UNCHANGED <<cells, cursor, revision, placed>>
           ELSE /\ known = Moved(page[reading.at].version)
                /\ StepTo(IF known.target < known.from THEN UnwindTo(known.target)
                                                       ELSE ForwardTo(known.target))
                /\ placed' = Rebased(known)
    /\ UNCHANGED <<journal, batches, edits, frame, due, refresh, document, follow, docSteps, calm>>

-----------------------------------------------------------------------------
Refreshing == RefreshBegins \/ TableWritten
Following == FollowBegins \/ FollowReads \/ FollowEnds

Next ==
    \/ EditCell
    \/ EditBatch
    \/ InsertRow
    \/ UndoEdit
    \/ RedoEdit
    \/ EnterFrame
    \/ LeaveFrame
    \/ TimerFires
    \/ Refreshing
    \/ DocUndo
    \/ DocRedo
    \/ Following

(* The debounce timer fires and the host answers. *)
Fairness == WF_vars(TimerFires) /\ WF_vars(Refreshing) /\ WF_vars(Following)

Spec == Init /\ [][Next]_vars /\ Fairness

-----------------------------------------------------------------------------
(***************************************************************************)
(* BatchesWhole: the cursor never rests inside a batch, so one Cmd-Z takes *)
(* a whole sort, paste or fill, also after steps that failed half-way and  *)
(* after the document's undo moved the journal.                            *)
(***************************************************************************)
BatchesWhole == Boundary(cursor)

(***************************************************************************)
(* Stamped: the stamps the follower compares grow along the journal, are   *)
(* the same exactly inside one operation, and never exceed the version.    *)
(***************************************************************************)
Stamped ==
    /\ \A i \in 1 .. Len(journal) : journal[i].rev \in 1 .. revision
    /\ \A i \in 1 .. Len(journal) - 1 :
         IF Joined(i) THEN journal[i].rev = journal[i + 1].rev
                      ELSE journal[i].rev < journal[i + 1].rev

(* The history the journal stands for: the places between operations, and  *)
(* the workbook that undoing or redoing to each would give.                *)
HistoryPlaces == {p \in 0 .. Len(journal) : Boundary(p)}
Saved == [p \in HistoryPlaces |-> TextAt(p)]
History == INSTANCE UndoHistory WITH text <- cells, at <- cursor, saved <- Saved, slips <- faults

(***************************************************************************)
(* HistoryKept: the journal, which keeps one input before and one after    *)
(* per cell, is an undo history of whole workbooks, also when the          *)
(* document's undo moves it and when steps fail half-way.                  *)
(***************************************************************************)
HistoryKept == History!Spec

PageCurrent == \A t \in Tables : page[t].content = Content(t)

(***************************************************************************)
(* TablesFollow: when nothing is due or under way the tables show the      *)
(* workbook, as long as no call failed and the document was not undone, or *)
(* was undone in peace: no refresh pending, no undo in the sheet, no rows  *)
(* moved, no edit since ("the workbook follows the version the table       *)
(* shows", for one table).                                                 *)
(***************************************************************************)
TablesFollow ==
    Settled /\ faults = 0 /\ (docSteps = 0 \/ calm) => PageCurrent

(***************************************************************************)
(* TablesCatchUp: an edit is shown on the page, or held while a frame is   *)
(* entered (scheduleRefresh, hideGridInFrame).                             *)
(***************************************************************************)
TablesCatchUp ==
    ~PageCurrent ~> PageCurrent \/ inFrame \/ docSteps > 0 \/ faults > 0

=============================================================================
