-------------------------- MODULE WorkbookPersist --------------------------
(***************************************************************************)
(* How the session keeps the workbook in memory, in the open document's    *)
(* container and in the per-browser blob in step                           *)
(* (src/packages/sheet-bundle/src/session.ts, workbook-part.ts).           *)
(*                                                                         *)
(* The session is one JavaScript thread: an action is the code from one    *)
(* await to the next, and every interleaving of the awaits is a behaviour. *)
(* The bytes of a workbook and its name are abstracted to a revision: each *)
(* committed edit, rename, version load or import issues the next one, so  *)
(* a larger revision is a later state of the workbook.                     *)
(***************************************************************************)
EXTENDS Naturals, Sequences, FiniteSets

CONSTANTS
    Slots,       \* the restores that may be in flight at once (a bound)
    BootSlot,    \* the restore of the activation
    None,        \* no workbook, no bytes, nothing under way
    BlobHosts,   \* whether the host has the blob store: a subset of BOOLEAN
    MaxRev,      \* bound on the revisions issued
    MaxOpens,    \* bound on the document opens
    MaxFaults    \* bound on the reads, writes, loads and saves that fail

ASSUME SlotsAssumption == BootSlot \in Slots /\ None \notin Slots
ASSUME HostsAssumption == BlobHosts \subseteq BOOLEAN /\ BlobHosts # {}
ASSUME BoundsAssumption == MaxRev \in Nat \ {0} /\ MaxOpens \in Nat /\ MaxFaults \in Nat

Blank == 0      \* an engine just booted, nothing loaded
Stored == 1     \* what the containers and the blob hold before the session

Revs == Blank .. MaxRev
Snapshots == [rev : Revs, epoch : 0 .. MaxOpens, lifted : BOOLEAN]

(* What stands for nothing is neither a revision nor bytes.                 *)
ASSUME NoneAssumption == None \notin Nat /\ None \notin Snapshots

VARIABLES
    engine,      \* state.engine: the revision in memory, or None
    edited,      \* the revision in memory did not come from storage
    sheetless,   \* state.activeSheet === null though an engine may be there
    last,        \* the last revision issued
    dirty,       \* persistDirty
    timer,       \* persistTimer is armed
    chain,       \* persistChain: the queued writes, oldest first
    writing,     \* the write under way: [item, at], or None
    lost,        \* the last write of the part's bytes failed
    part,        \* the open document's container: its bytes, and under which
                 \* open its name was taken
    blob,        \* the per-browser blob: a revision, or None
    blobHost,    \* host.supports("storage.blob@1")
    docEpoch,    \* the document opens so far
    loadEpoch,   \* the workbook replacements so far
    restore,     \* the restores in flight, by slot
    tracked,     \* `restoring`: the slot of the restore last tracked
    entering,    \* the slot an ensureRestored awaits, or None
    asked,       \* a blank, CSV, dataset or import verb awaiting its engine
    saving,      \* a will-save hook awaiting the chain, or None
    faults       \* the failures so far

doc == <<part, docEpoch>>
mem == <<engine, edited, sheetless, last>>
pend == <<dirty, timer>>
queue == <<chain, writing, lost>>
host == <<blob, blobHost>>
back == <<restore, tracked, entering>>
vars == <<engine, edited, sheetless, last, dirty, timer, chain, writing, lost,
          part, blob, blobHost, docEpoch, loadEpoch, restore, tracked,
          entering, asked, saving, faults>>

Idle == [at |-> "idle"]
Stages == {"part", "blob", "frames", "boot", "lift", "liftName"}
Restores == {Idle} \cup
    [at : Stages, epoch : Nat, under : 0 .. MaxOpens, always : BOOLEAN,
     fromBlob : BOOLEAN, rev : Revs \cup {None}]

(* The writes of persistChain, under way or queued, and the last of them.  *)
Queued == {chain[i].rev : i \in DOMAIN chain}
            \cup (IF writing = None THEN {} ELSE {writing.item.rev})
Tip(items) ==
    IF items # <<>> THEN items[Len(items)].rev
    ELSE IF writing # None THEN writing.item.rev ELSE None

(***************************************************************************)
(* TypeOK: every variable keeps its shape, and an armed debounce timer     *)
(* always stands for an edit that is still marked (schedulePersist,        *)
(* cancelPendingPersist and flushPersist move the two together).           *)
(***************************************************************************)
TypeOK ==
    /\ engine \in Revs \cup {None}
    /\ edited \in BOOLEAN /\ sheetless \in BOOLEAN
    /\ last \in Revs
    /\ dirty \in BOOLEAN /\ timer \in BOOLEAN /\ (timer => dirty)
    /\ chain \in Seq(Snapshots)
    /\ writing \in {None} \cup [item : Snapshots, at : {"name", "blob"}]
    /\ lost \in BOOLEAN
    /\ part \in [bytes : Snapshots \cup {None}, name : 0 .. MaxOpens \cup {None}]
    /\ blob \in Revs \cup {None}
    /\ blobHost \in BlobHosts
    /\ docEpoch \in 0 .. MaxOpens
    /\ loadEpoch \in Nat
    /\ restore \in [Slots -> Restores]
    /\ tracked \in Slots
    /\ entering \in Slots \cup {None}
    /\ asked \in {None, "adopt", "import"}
    /\ saving \in {None} \cup
         [rev : Revs, awaits : Revs \cup {None}, failed : BOOLEAN]
    /\ faults \in 0 .. MaxFaults

-----------------------------------------------------------------------------
(* A call of the host or of the engine that fails spends a fault.          *)
Fails == faults < MaxFaults /\ faults' = faults + 1
Succeeds == UNCHANGED faults

Snapshot(rev, epoch) == [rev |-> rev, epoch |-> epoch, lifted |-> FALSE]

(* The containers a document can come with: no part yet, or a stored one.  *)
Containers(epoch) ==
    {[bytes |-> None, name |-> None],
     [bytes |-> Snapshot(Stored, epoch), name |-> epoch]}

(* A restore that has asked for the part's bytes, which are [found].       *)
Begun(found, epoch, under, always) ==
    [at |-> "part", epoch |-> epoch, under |-> under, always |-> always,
     fromBlob |-> FALSE, rev |-> IF found = None THEN None ELSE found.rev]

Init ==
    /\ engine = None /\ edited = FALSE /\ sheetless = TRUE
    /\ last = Stored
    /\ dirty = FALSE /\ timer = FALSE
    /\ chain = <<>> /\ writing = None /\ lost = FALSE
    /\ part \in Containers(0)
    /\ blob \in {Stored, None} /\ blobHost \in BlobHosts
    /\ docEpoch = 0 /\ loadEpoch = 0
    /\ restore = [r \in Slots |-> IF r = BootSlot
                                    THEN Begun(part.bytes, 0, 0, TRUE)
                                    ELSE Idle]
    /\ tracked = BootSlot /\ entering = None
    /\ asked = None /\ saving = None /\ faults = 0

-----------------------------------------------------------------------------
(* Edits, the debounce and the chain.                                      *)

(* A slip: the mark is cleared and the timer left armed. *)
CancelFlagOnly == dirty' = FALSE /\ UNCHANGED timer

CancelPersist == dirty' = FALSE /\ timer' = FALSE

(* A slip: the edit is marked and no timer is armed. *)
MarkOnly == dirty' = TRUE /\ UNCHANGED timer

SchedulePersist == dirty' = TRUE /\ timer' = TRUE

NewRevision ==
    /\ last < MaxRev
    /\ last' = last + 1
    /\ engine' = last'
    /\ edited' = TRUE

(* markEdited after a committed write; the object model's loadVersion and  *)
(* setName also schedule the write of what they leave in memory.           *)
Edit ==
    /\ engine # None
    /\ NewRevision
    /\ SchedulePersist
    /\ UNCHANGED <<sheetless, queue, doc, host, loadEpoch, back, asked, saving, faults>>

(* A slip: the mark is cleared before the save that may throw. *)
FlushForgetsFailure ==
    \/ /\ ~(dirty /\ engine # None)
       /\ CancelPersist
       /\ UNCHANGED <<chain, faults>>
    \/ /\ dirty /\ engine # None
       /\ CancelPersist
       /\ \/ Succeeds /\ chain' = Append(chain, Snapshot(engine, docEpoch))
          \/ Fails /\ UNCHANGED chain

(* What flushPersist leaves: nothing to do, the write queued, or the save  *)
(* thrown and the edit still marked.                                       *)
FlushPersist ==
    \/ /\ ~(dirty /\ engine # None)
       /\ CancelPersist
       /\ UNCHANGED <<chain, faults>>
    \/ /\ dirty /\ engine # None
       /\ timer' = FALSE
       /\ \/ /\ Succeeds
             /\ dirty' = FALSE
             /\ chain' = Append(chain, Snapshot(engine, docEpoch))
          \/ /\ Fails
             /\ dirty' = TRUE
             /\ UNCHANGED chain

TimerFires ==
    /\ timer
    /\ FlushPersist
    /\ UNCHANGED <<mem, writing, lost, doc, host, loadEpoch, back, asked, saving>>

(* Leaving the in-frame grid flushes at once (so does dispose). *)
FrameExit ==
    /\ dirty
    /\ FlushPersist
    /\ UNCHANGED <<mem, writing, lost, doc, host, loadEpoch, back, asked, saving>>

(* A slip: the hook waits for the chain and does not flush. *)
WillSaveUnflushed ==
    /\ saving = None
    /\ saving' = [rev |-> IF edited /\ engine # None THEN engine ELSE Blank,
                  awaits |-> Tip(chain), failed |-> FALSE]
    /\ UNCHANGED <<dirty, timer, chain, faults>>
    /\ UNCHANGED <<mem, writing, lost, doc, host, loadEpoch, back, asked>>

(* The host is about to save: flush, then wait for the chain as it stands. *)
WillSave ==
    /\ saving = None
    /\ FlushPersist
    /\ saving' = [rev |-> IF edited /\ engine # None THEN engine ELSE Blank,
                  awaits |-> Tip(chain'), failed |-> dirty']
    /\ UNCHANGED <<mem, writing, lost, doc, host, loadEpoch, back, asked>>

SaveReady == saving # None /\ saving.awaits \notin Queued

(* The hook has answered: the host writes the container it holds. *)
SaveDocument ==
    /\ SaveReady
    /\ saving' = None
    /\ UNCHANGED <<mem, pend, queue, doc, host, loadEpoch, back, asked, faults>>

(* The container's bytes: the first half of writeWorkbookPart.  A failed   *)
(* call skips the name and goes on to the blob.                            *)
PutBytes(item) ==
    \/ /\ Succeeds
       /\ part' = [part EXCEPT !.bytes = item]
       /\ lost' = FALSE
       /\ writing' = [item |-> item, at |-> "name"]
    \/ /\ Fails
       /\ lost' = TRUE
       /\ writing' = IF blobHost THEN [item |-> item, at |-> "blob"] ELSE None
       /\ UNCHANGED part

(* A slip: the write does not ask which document is open. *)
WriteAnyway ==
    /\ writing = None /\ chain # <<>>
    /\ chain' = Tail(chain)
    /\ PutBytes(Head(chain))
    /\ UNCHANGED <<mem, pend, docEpoch, host, loadEpoch, back, asked, saving>>

(* A slip: an item that was written stays in the chain. *)
WriteKeepingItem ==
    /\ writing = None /\ chain # <<>>
    /\ IF Head(chain).epoch = docEpoch
         THEN chain' = chain /\ PutBytes(Head(chain))
         ELSE chain' = Tail(chain) /\ UNCHANGED <<part, lost, writing, faults>>
    /\ UNCHANGED <<mem, pend, docEpoch, host, loadEpoch, back, asked, saving>>

(* The chain starts its next write, unless its document is gone. *)
StartWrite ==
    /\ writing = None /\ chain # <<>>
    /\ chain' = Tail(chain)
    /\ IF Head(chain).epoch = docEpoch
         THEN PutBytes(Head(chain))
         ELSE UNCHANGED <<part, lost, writing, faults>>
    /\ UNCHANGED <<mem, pend, docEpoch, host, loadEpoch, back, asked, saving>>

WriteName ==
    /\ writing # None /\ writing.at = "name"
    /\ \/ Succeeds /\ part' = [part EXCEPT !.name = writing.item.epoch]
       \/ Fails /\ UNCHANGED part
    /\ writing' = IF blobHost THEN [writing EXCEPT !.at = "blob"] ELSE None
    /\ UNCHANGED <<mem, pend, chain, lost, docEpoch, host, loadEpoch, back, asked, saving>>

WriteBlob ==
    /\ writing # None /\ writing.at = "blob"
    /\ \/ Succeeds /\ blob' = writing.item.rev
       \/ Fails /\ UNCHANGED blob
    /\ writing' = None
    /\ UNCHANGED <<mem, pend, chain, lost, doc, blobHost, loadEpoch, back, asked, saving>>

-----------------------------------------------------------------------------
(* Workbooks that replace the one in memory.                               *)

(* newWorkbook, importCsv and sourceFromDataset boot an engine of their    *)
(* own; import boots one only when there is none.                          *)
AskAdopt ==
    /\ asked = None /\ last < MaxRev
    /\ asked' = "adopt"
    /\ UNCHANGED <<mem, pend, queue, doc, host, loadEpoch, back, saving, faults>>

AskImport ==
    /\ asked = None /\ last < MaxRev
    /\ asked' = "import"
    /\ UNCHANGED <<mem, pend, queue, doc, host, loadEpoch, back, saving, faults>>

(* A slip: adoptWorkbook does not count as a load. *)
AdoptUncounted ==
    /\ asked = "adopt" /\ asked' = None
    /\ NewRevision
    /\ sheetless' = FALSE
    /\ SchedulePersist
    /\ UNCHANGED <<queue, doc, host, loadEpoch, back, saving, faults>>

(* adoptWorkbook: the new engine counts as a load and as an edit. *)
Adopt ==
    /\ asked = "adopt" /\ asked' = None
    /\ NewRevision
    /\ sheetless' = FALSE
    /\ loadEpoch' = loadEpoch + 1
    /\ SchedulePersist
    /\ UNCHANGED <<queue, doc, host, back, saving, faults>>

(* loadWorkbook's catch: the engine stays (a booted one stays blank), the  *)
(* sheet is forgotten, and an edit still marked stays marked.              *)
LoadThrows ==
    /\ Fails
    /\ engine' = IF engine = None THEN Blank ELSE engine
    /\ edited' = (edited /\ engine # None)
    /\ sheetless' = TRUE
    /\ UNCHANGED <<last, loadEpoch, dirty, timer>>

(* loadWorkbook(bytes, name, true): no epoch is compared. *)
Import ==
    /\ asked = "import" /\ asked' = None
    /\ \/ /\ Succeeds
          /\ NewRevision
          /\ sheetless' = FALSE
          /\ loadEpoch' = loadEpoch + 1
          /\ CancelPersist
          /\ chain' = Append(chain, Snapshot(engine', docEpoch))
       \/ /\ LoadThrows
          /\ UNCHANGED chain
    /\ UNCHANGED <<writing, lost, doc, host, back, saving>>

-----------------------------------------------------------------------------
(* Restores.                                                               *)

(* Ask the container for its bytes; a read that fails reads as no part.    *)
Begin(r, always, container) ==
    /\ tracked' = r
    /\ \/ Succeeds /\ restore' = [restore EXCEPT
              ![r] = Begun(container.bytes, loadEpoch', docEpoch', always)]
       \/ Fails /\ restore' = [restore EXCEPT
              ![r] = Begun(None, loadEpoch', docEpoch', always)]

Overtaken(r) == restore[r].epoch # loadEpoch
Ends(r) == restore' = [restore EXCEPT ![r] = Idle]
MovesTo(r, at) == restore' = [restore EXCEPT ![r].at = at]

(* Neither the engine nor what stands behind it changes. *)
Keeps == UNCHANGED <<mem, pend, loadEpoch, faults>>

(* The bytes reach the engine.  Read from the blob, they are lifted into   *)
(* the container after the placements have been rediscovered.              *)
Load(r, rev, fromBlob) ==
    \/ /\ Succeeds
       /\ engine' = rev /\ edited' = FALSE /\ sheetless' = FALSE
       /\ loadEpoch' = loadEpoch + 1
       /\ CancelPersist
       /\ UNCHANGED last
       /\ restore' = IF fromBlob
                       THEN [restore EXCEPT ![r] = [@ EXCEPT !.at = "lift", !.rev = rev]]
                       ELSE [restore EXCEPT ![r] = Idle]
    \/ /\ LoadThrows
       /\ Ends(r)

(* loadWorkbook(bytes, name, false, epoch): boot an engine first if needed. *)
BootOrLoad(r, rev, fromBlob) ==
    \/ /\ Overtaken(r) /\ Ends(r) /\ Keeps
    \/ /\ ~Overtaken(r) /\ engine = None
       /\ restore' = [restore EXCEPT
            ![r] = [@ EXCEPT !.at = "boot", !.rev = rev, !.fromBlob = fromBlob]]
       /\ Keeps
    \/ /\ ~Overtaken(r) /\ engine # None
       /\ Load(r, rev, fromBlob)

RestoreFrame == UNCHANGED <<queue, doc, host, tracked, entering, asked, saving>>

(* readWorkbookPart has answered. *)
PartRead(r) ==
    /\ restore[r].at = "part"
    /\ \/ /\ restore[r].rev # None
          /\ BootOrLoad(r, restore[r].rev, FALSE)
       \/ /\ restore[r].rev = None
          /\ IF Overtaken(r) \/ ~blobHost
               THEN Ends(r)
               ELSE restore' = [restore EXCEPT
                      ![r] = [@ EXCEPT !.at = "blob", !.rev = blob]]
          /\ Keeps
    /\ RestoreFrame

(* The blob has answered, or its read has failed. *)
BlobRead(r) ==
    /\ restore[r].at = "blob"
    /\ \/ restore[r].rev = None /\ Ends(r) /\ Keeps
       \/ Fails /\ Ends(r) /\ UNCHANGED <<mem, pend, loadEpoch>>
       \/ /\ restore[r].rev # None
          /\ IF restore[r].always
               THEN BootOrLoad(r, restore[r].rev, TRUE)
               ELSE MovesTo(r, "frames") /\ Keeps
    /\ RestoreFrame

(* documentHasSheetFrame has answered: either answer is possible. *)
FrameTest(r) ==
    /\ restore[r].at = "frames"
    /\ \/ Ends(r) /\ Keeps
       \/ BootOrLoad(r, restore[r].rev, TRUE)
    /\ RestoreFrame

(* A slip: the epoch is not compared again after the boot. *)
BootedBlindly(r) ==
    /\ restore[r].at = "boot"
    /\ Load(r, restore[r].rev, restore[r].fromBlob)
    /\ RestoreFrame

Booted(r) ==
    /\ restore[r].at = "boot"
    /\ IF Overtaken(r)
         THEN Ends(r) /\ Keeps
         ELSE Load(r, restore[r].rev, restore[r].fromBlob)
    /\ RestoreFrame

(* The blob's bytes go into the container: not through the chain, and      *)
(* without another look at the epochs.                                     *)
Lifted(r) == [rev |-> restore[r].rev, epoch |-> restore[r].under, lifted |-> TRUE]

LiftBytes(r) ==
    /\ restore[r].at = "lift"
    /\ \/ Succeeds /\ part' = [part EXCEPT !.bytes = Lifted(r)] /\ MovesTo(r, "liftName")
       \/ Fails /\ Ends(r) /\ UNCHANGED part
    /\ UNCHANGED <<mem, pend, queue, docEpoch, host, loadEpoch,
                   tracked, entering, asked, saving>>

LiftName(r) ==
    /\ restore[r].at = "liftName"
    /\ \/ Succeeds /\ part' = [part EXCEPT !.name = restore[r].under]
       \/ Fails /\ UNCHANGED part
    /\ Ends(r)
    /\ UNCHANGED <<mem, pend, queue, docEpoch, host, loadEpoch,
                   tracked, entering, asked, saving>>

(* documentOpened: drop the workbook and the edits still marked, then      *)
(* restore the new document's own.  What is queued stays queued.           *)
OpenDocument(r) ==
    /\ restore[r] = Idle
    /\ docEpoch < MaxOpens
    /\ docEpoch' = docEpoch + 1
    /\ loadEpoch' = loadEpoch + 1
    /\ part' \in Containers(docEpoch')
    /\ engine' = None /\ edited' = FALSE /\ sheetless' = TRUE
    /\ CancelPersist
    /\ saving' = None
    /\ Begin(r, FALSE, part')
    /\ UNCHANGED <<last, queue, host, entering, asked>>

(* ensureRestored: nothing to do with a workbook and a sheet; otherwise    *)
(* await the restore in flight, look again, and only then start another.   *)
NeedsWorkbook == engine = None \/ sheetless

EnterFrame ==
    /\ NeedsWorkbook /\ entering = None
    /\ entering' = tracked
    /\ UNCHANGED <<mem, pend, queue, doc, host, loadEpoch, restore, tracked,
                   asked, saving, faults>>

EnsureRestored(r) ==
    /\ entering # None /\ restore[entering] = Idle
    /\ entering' = None
    /\ \/ /\ ~NeedsWorkbook
          /\ UNCHANGED <<loadEpoch, docEpoch, restore, tracked, faults>>
       \/ /\ NeedsWorkbook /\ restore[r] = Idle
          /\ UNCHANGED <<loadEpoch, docEpoch>>
          /\ Begin(r, FALSE, part)
    /\ UNCHANGED <<mem, pend, queue, part, host, asked, saving>>

-----------------------------------------------------------------------------
RestoreStep(r) ==
    \/ PartRead(r)
    \/ BlobRead(r)
    \/ FrameTest(r)
    \/ Booted(r)
    \/ LiftBytes(r)
    \/ LiftName(r)

WriteStep == StartWrite \/ WriteName \/ WriteBlob

Next ==
    \/ Edit
    \/ TimerFires
    \/ FrameExit
    \/ WillSave
    \/ SaveDocument
    \/ WriteStep
    \/ AskAdopt
    \/ AskImport
    \/ Adopt
    \/ Import
    \/ EnterFrame
    \/ \E r \in Slots :
          \/ RestoreStep(r)
          \/ EnsureRestored(r)
          \/ OpenDocument(r)

(* The debounce timer fires, and the host answers every call it is given.  *)
Fairness ==
    /\ WF_vars(TimerFires)
    /\ WF_vars(WriteStep)
    /\ \A r \in Slots : WF_vars(RestoreStep(r))

Spec == Init /\ [][Next]_vars /\ Fairness

-----------------------------------------------------------------------------
(***************************************************************************)
(* BytesStayHome: bytes a queued write put into the container were taken   *)
(* under the document that is open, however many writes were queued when   *)
(* another document opened (enqueueWrite's docEpoch).                      *)
(***************************************************************************)
BytesStayHome ==
    \/ part.bytes = None
    \/ part.bytes.lifted
    \/ part.bytes.epoch = docEpoch

(***************************************************************************)
(* ChainKeepsOrder: within one document the chain only ever replaces the   *)
(* container's bytes by those of a later state of the workbook.            *)
(***************************************************************************)
Lands == docEpoch' = docEpoch /\ part'.bytes # part.bytes

ChainKeepsOrder ==
    [][Lands /\ ~part'.bytes.lifted /\ part.bytes # None
         => part'.bytes.rev > part.bytes.rev]_vars

(* The workbook in memory was edited and the container does not hold it. *)
Ahead ==
    /\ engine # None /\ edited
    /\ \/ part.bytes = None
       \/ (part.bytes.rev < engine /\ ~part.bytes.lifted)

Quiet == ~dirty /\ chain = <<>> /\ writing = None

(***************************************************************************)
(* NothingLeftBehind: when no edit is marked and no write is queued or     *)
(* under way, the container holds the workbook in memory or a later state  *)
(* of it, unless the last write failed or a lift has overwritten it.       *)
(***************************************************************************)
NothingLeftBehind == (Quiet /\ ~lost) => ~Ahead

(***************************************************************************)
(* SaveHasPendingEdit: when the will-save hook answers, the container has  *)
(* every edit made before the save was asked for, the one still inside the *)
(* debounce window included, unless the engine or the container failed.    *)
(***************************************************************************)
SaveHasPendingEdit ==
    SaveReady /\ saving.rev # Blank /\ ~saving.failed /\ ~lost =>
        /\ part.bytes # None
        /\ part.bytes.lifted \/ part.bytes.rev >= saving.rev

(***************************************************************************)
(* MemoryNeverGoesBack: a restore that was overtaken while it awaited does *)
(* not put older bytes over the workbook that replaced it.  (A workbook    *)
(* without a sheet, after a load that failed, is restored again.)          *)
(***************************************************************************)
MemoryNeverGoesBack ==
    [][engine # None /\ engine' # None /\ engine' # engine /\ ~sheetless
         => engine' > engine]_vars

(***************************************************************************)
(* EditsReachContainer: the workbook an edit or an import left in memory   *)
(* does not stay ahead of the container: it is written or replaced, unless *)
(* the write fails, a lift overwrites it, or the engine could not save it  *)
(* and it is still marked.                                                 *)
(***************************************************************************)
EditsReachContainer == Ahead ~> ~Ahead \/ lost \/ (dirty /\ ~timer /\ faults > 0)

=============================================================================
