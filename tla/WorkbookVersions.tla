-------------------------- MODULE WorkbookVersions --------------------------
(***************************************************************************)
(* The versions an object-model write leaves in the document, the label    *)
(* that names the live one, and the follower that loads the version the    *)
(* label names after a document undo, redo or open                         *)
(* (src/packages/sheet-bundle/src/object-model.ts).                        *)
(*                                                                         *)
(* A workbook is the set of edits it holds.  A version is content-         *)
(* addressed, so the workbook it holds stands for its hash.  An action is  *)
(* the code from one await to the next.                                    *)
(***************************************************************************)
EXTENDS Naturals, Sequences, SequencesExt

CONSTANTS
    Writers,     \* the writes that can be under way at once
    None,        \* no version: a null hash, or no label
    MaxEdits,    \* bound on the edits, written through objects or typed
    MaxSteps,    \* bound on the undos and redos of the document
    MaxOpens,    \* bound on reopening the document or importing over the workbook
    MaxFaults    \* bound on the engine, part and label writes that fail

Edits == 1 .. MaxEdits
Books == SUBSET Edits
Hashes == Books \cup {None}

ASSUME NoneAssumption == None \notin Books
ASSUME BoundsAssumption ==
    MaxEdits \in Nat /\ MaxSteps \in Nat /\ MaxOpens \in Nat /\ MaxFaults \in Nat

VARIABLES
    book,        \* the workbook in the engine
    replaced,    \* another workbook since syncEpoch last looked: epoch # bridge.epoch()
    loaded,      \* loadedHash: the version the engine is thought to hold
    baseline,    \* baselineHash: the version "no label" stands for
    writer,      \* each write under way
    follow,      \* the events waiting in the reconcile chain
    reading,     \* the reconcile under way
    stored,      \* the versions in the container
    label,       \* data.wb of the document's label
    past,        \* the labels the document's undo goes back to
    future,      \* the labels its redo goes forward to
    edits,       \* the edits so far
    typed,       \* the edits made in the grid or by an import (history)
    lapses,      \* what the code does not guard against and has happened (history)
    steps, opens, faults

memory == <<book, replaced, loaded, baseline>>
chain == <<follow, reading>>
document == <<label, past, future>>
counts == <<edits, typed, steps, opens, faults>>
vars == <<book, replaced, loaded, baseline, writer, follow, reading,
          stored, label, past, future, edits, typed, lapses, steps, opens, faults>>

Keeping(at, from) == [at |-> at, from |-> from, next |-> None, parts |-> {}]
Idle == Keeping("idle", None)
NoRead == [at |-> "idle", hash |-> None]
Phases == {"idle", "base", "restore", "hash", "commit", "label"}
Resting == \A w \in Writers : writer[w] = Idle

TypeOK ==
    /\ book \in Books /\ stored \subseteq Books
    /\ loaded \in Hashes /\ baseline \in Hashes /\ label \in Hashes
    /\ writer \in [Writers -> [at : Phases, from : Hashes, next : Hashes, parts : SUBSET Books]]
    /\ \A w \in Writers : writer[w].at # "idle" => writer[w].from # None
    /\ follow \in Nat
    /\ reading \in [at : {"idle", "label", "told", "parts"}, hash : Hashes]
    /\ past \in Seq(Hashes) /\ future \in Seq(Hashes)
    /\ replaced \in BOOLEAN
    /\ edits \in 0 .. MaxEdits /\ typed \subseteq 1 .. edits
    /\ lapses \subseteq {"overlap", "unrestored", "uncommitted", "unstored", "imported"}
    /\ steps \in 0 .. MaxSteps /\ opens \in 0 .. MaxOpens /\ faults \in 0 .. MaxFaults

Init ==
    /\ book = {} /\ stored = {}
    /\ loaded = None /\ baseline = None /\ label = None
    /\ writer = [w \in Writers |-> Idle]
    /\ follow = 0 /\ reading = NoRead
    /\ past = <<>> /\ future = <<>>
    /\ replaced = FALSE
    /\ edits = 0 /\ typed = {} /\ lapses = {}
    /\ steps = 0 /\ opens = 0 /\ faults = 0

-----------------------------------------------------------------------------
Fails == faults < MaxFaults /\ faults' = faults + 1
Lapse(why) == lapses' = lapses \cup {why}

(* Slip, of Synced: the version of a replaced workbook is kept. *)
SyncedNever(version) == version

(* What syncEpoch leaves of a version once the workbook was replaced. *)
Synced(version) == IF replaced THEN None ELSE version

(***************************************************************************)
(* The part of write that runs without an await once the version to return *)
(* to is known: every step of the plan and flushCells, then either the     *)
(* bytes of the new version or the catch block up to its first await.      *)
(***************************************************************************)
Applied(w, from, parts) ==
    /\ book' = book \cup {edits + 1}
    /\ writer' = [writer EXCEPT ![w] =
                    [at |-> "hash", from |-> from, next |-> book', parts |-> parts \cup {book'}]]
    /\ UNCHANGED faults

(* Slip, of Refused: the version to return to is not kept. *)
RefusedForgetting(w, from) ==
    /\ Fails
    /\ book' \in {book, book \cup {edits + 1}}
    /\ writer' = [writer EXCEPT ![w] = Keeping("restore", None)]

(* A step throws; the ones before it have changed the workbook. *)
Refused(w, from) ==
    /\ Fails
    /\ book' \in {book, book \cup {edits + 1}}
    /\ writer' = [writer EXCEPT ![w] = Keeping("restore", from)]

Apply(w, from, parts) ==
    /\ edits < MaxEdits /\ edits' = edits + 1
    /\ loaded' = from
    /\ Applied(w, from, parts) \/ Refused(w, from)

Begin(w) ==
    /\ writer[w] = Idle
    /\ edits < MaxEdits
    /\ replaced' = FALSE
    /\ baseline' = Synced(baseline)
    /\ IF Resting /\ reading = NoRead THEN UNCHANGED lapses ELSE Lapse("overlap")
    /\ \/ /\ Synced(loaded) = None
          /\ loaded' = None
          /\ writer' = [writer EXCEPT ![w] = Keeping("base", book)]
          /\ UNCHANGED <<book, edits, faults>>
       \/ /\ Synced(loaded) # None
          /\ Apply(w, loaded, {})
    /\ UNCHANGED <<typed, steps, opens>>
    /\ UNCHANGED <<chain, stored, document>>

(* The digest of the workbook before the first write has arrived. *)
BaseHashed(w) ==
    /\ writer[w].at = "base"
    /\ baseline' = writer[w].from
    /\ Apply(w, writer[w].from, {writer[w].from})
    /\ UNCHANGED <<replaced, typed, lapses, steps, opens>>
    /\ UNCHANGED <<chain, stored, document>>

(* What loadVersion leaves in memory. *)
LoadVersion(hash) ==
    IF hash \in stored
    THEN book' = hash /\ loaded' = hash
    ELSE UNCHANGED <<book, loaded>>

(* The catch block of write: the version before, when it was ever stored. *)
Restore(w) ==
    /\ writer[w].at = "restore"
    /\ LoadVersion(writer[w].from)
    /\ IF writer[w].from \in stored THEN UNCHANGED lapses
       ELSE lapses' = lapses \cup {"unstored"}
                        \cup (IF book \subseteq writer[w].from \cup typed THEN {} ELSE {"unrestored"})
    /\ writer' = [writer EXCEPT ![w] = Idle]
    /\ UNCHANGED <<replaced, baseline, stored>>
    /\ UNCHANGED <<chain, document, counts>>

(* The digest of the new version has arrived: loadedHash, then afterWrite. *)
Hashed(w) ==
    /\ writer[w].at = "hash"
    /\ loaded' = writer[w].next
    /\ writer' = [writer EXCEPT ![w].at = "commit"]
    /\ UNCHANGED <<book, replaced, baseline, stored, lapses>>
    /\ UNCHANGED <<chain, document, counts>>

(* Slip, of StoreParts: a part that fails does not stop the commit. *)
StorePartsAnyway(w) ==
    /\ writer[w].at = "commit"
    /\ \/ stored' = stored \cup writer[w].parts /\ UNCHANGED faults
       \/ Fails /\ UNCHANGED stored
    /\ writer' = [writer EXCEPT ![w].at = "label"]
    /\ UNCHANGED <<memory, chain, document, edits, typed, lapses, steps, opens>>

(* The content-addressed parts, by the registry or by writeParts. *)
StoreParts(w) ==
    /\ writer[w].at = "commit"
    /\ \/ /\ stored' = stored \cup writer[w].parts
          /\ writer' = [writer EXCEPT ![w].at = "label"]
          /\ UNCHANGED <<lapses, faults>>
       \/ /\ Fails
          /\ writer' = [writer EXCEPT ![w] = Idle]
          /\ lapses' = lapses \cup {"uncommitted", "unstored"}
          /\ UNCHANGED stored
    /\ UNCHANGED <<memory, chain, document, edits, typed, steps, opens>>

(* The label, as one undo step of the document; a refused one is only logged. *)
CommitLabel(w) ==
    /\ writer[w].at = "label"
    /\ \/ /\ label' = writer[w].next
          /\ past' = Append(past, label)
          /\ future' = <<>>
          /\ UNCHANGED <<lapses, faults>>
       \/ /\ Fails
          /\ Lapse("uncommitted")
          /\ UNCHANGED document
    /\ writer' = [writer EXCEPT ![w] = Idle]
    /\ UNCHANGED <<memory, chain, stored, edits, typed, steps, opens>>

-----------------------------------------------------------------------------
(* The host: undo and redo move the label, and tell the follower. *)
DocumentUndo ==
    /\ past # <<>>
    /\ steps < MaxSteps /\ steps' = steps + 1
    /\ label' = Last(past)
    /\ past' = Front(past)
    /\ future' = <<label>> \o future
    /\ follow' = follow + 1
    /\ UNCHANGED <<memory, writer, reading, stored, edits, typed, lapses, opens, faults>>

(* Slip, of DocumentRedo: only an undo is told. *)
DocumentRedoUntold ==
    /\ future # <<>>
    /\ steps < MaxSteps /\ steps' = steps + 1
    /\ label' = Head(future)
    /\ future' = Tail(future)
    /\ past' = Append(past, label)
    /\ UNCHANGED <<memory, writer, chain, stored, edits, typed, lapses, opens, faults>>

DocumentRedo ==
    /\ future # <<>>
    /\ steps < MaxSteps /\ steps' = steps + 1
    /\ label' = Head(future)
    /\ future' = Tail(future)
    /\ past' = Append(past, label)
    /\ follow' = follow + 1
    /\ UNCHANGED <<memory, writer, reading, stored, edits, typed, lapses, opens, faults>>

(* reconcile: the chain starts one event, the host answers, the event goes on. *)
Reconcile ==
    /\ follow > 0 /\ reading = NoRead
    /\ follow' = follow - 1
    /\ reading' = [at |-> "label", hash |-> None]
    /\ replaced' = FALSE
    /\ loaded' = Synced(loaded)
    /\ baseline' = Synced(baseline)
    /\ IF Resting THEN UNCHANGED lapses ELSE Lapse("overlap")
    /\ UNCHANGED <<book, writer>>
    /\ UNCHANGED <<stored, document, counts>>

LabelHash ==
    /\ reading.at = "label"
    /\ reading' = [at |-> "told", hash |-> label]
    /\ UNCHANGED <<memory, writer, follow, stored, document, counts, lapses>>

(* Slip, of Target: no label, nothing to load. *)
TargetOfLabel(hash) == hash

Target(hash) == IF hash # None THEN hash ELSE baseline

ChooseTarget ==
    /\ reading.at = "told"
    /\ LET target == Target(reading.hash)
       IN  reading' = IF target \in {None, loaded} THEN NoRead
                      ELSE [at |-> "parts", hash |-> target]
    /\ UNCHANGED <<memory, writer, follow, stored, document, counts, lapses>>

FollowLabel ==
    /\ reading.at = "parts"
    /\ LoadVersion(reading.hash)
    /\ reading' = NoRead
    /\ UNCHANGED <<replaced, baseline, writer, follow, stored>>
    /\ UNCHANGED <<document, counts, lapses>>

-----------------------------------------------------------------------------
(* An edit of the session itself: the part follows, no version is saved. *)
Type ==
    /\ edits < MaxEdits /\ edits' = edits + 1
    /\ book' = book \cup {edits'}
    /\ typed' = typed \cup {edits'}
    /\ UNCHANGED <<replaced, loaded, baseline, writer, stored>>
    /\ UNCHANGED <<chain, document, lapses, steps, opens, faults>>

(* Another workbook over the open one, between the writes. *)
Import ==
    /\ Resting /\ reading = NoRead
    /\ opens < MaxOpens /\ opens' = opens + 1
    /\ edits < MaxEdits /\ edits' = edits + 1
    /\ book' = {edits'}
    /\ typed' = typed \cup {edits'}
    /\ replaced' = TRUE
    /\ IF label = None /\ past = <<>> /\ future = <<>> THEN UNCHANGED lapses ELSE Lapse("imported")
    /\ UNCHANGED <<loaded, baseline, writer, stored>>
    /\ UNCHANGED <<chain, document, steps, faults>>

(***************************************************************************)
(* The document is opened again.  Its workbook.xlsx part is what was in    *)
(* the engine (WorkbookPersist); restore loads it, then reconcile runs.    *)
(***************************************************************************)
Reopen ==
    /\ Resting /\ reading = NoRead 
    /\ opens < MaxOpens /\ opens' = opens + 1
    /\ loaded' = None /\ baseline' = None /\ replaced' = FALSE
    /\ past' = <<>> /\ future' = <<>>
    /\ follow' = 1
    /\ UNCHANGED <<book, writer, reading, stored, label, edits, typed, lapses, steps, faults>>

Next ==
    \/ \E w \in Writers :
         Begin(w) \/ BaseHashed(w) \/ Restore(w) \/ Hashed(w) \/ StoreParts(w) \/ CommitLabel(w)
    \/ DocumentUndo \/ DocumentRedo
    \/ Reconcile \/ LabelHash \/ ChooseTarget \/ FollowLabel
    \/ Type \/ Import \/ Reopen

(* Promises settle and timers fire; edits and undos need not come. *)
Fairness ==
    /\ \A w \in Writers : WF_vars(BaseHashed(w) \/ Restore(w) \/ Hashed(w)
                                  \/ StoreParts(w) \/ CommitLabel(w))
    /\ WF_vars(Reconcile \/ LabelHash \/ ChooseTarget \/ FollowLabel)

Spec == Init /\ [][Next]_vars
FairSpec == Spec /\ Fairness

-----------------------------------------------------------------------------
Quiet == Resting /\ follow = 0 /\ reading = NoRead
Tracked == loaded # None /\ ~replaced

(***************************************************************************)
(* LabelStored: whatever the document's history goes back or forward to,   *)
(* the versions it names are in the container (the parts are written       *)
(* first, and a write whose parts fail never reaches the label).           *)
(***************************************************************************)
LabelStored ==
    \A hash \in {label} \cup ToSet(past) \cup ToSet(future) : hash # None => hash \in stored

(***************************************************************************)
(* LoadedTrue: between writes the engine holds the version loadedHash      *)
(* names, and on top of it only edits of the grid: a refused write leaves  *)
(* nothing of itself, a version of another workbook is forgotten.  Two     *)
(* operations across each other, and a refusal of the first write, whose   *)
(* baseline is not stored yet, are the exceptions the code lets happen.    *)
(***************************************************************************)
LoadedTrue ==
    Resting /\ Tracked /\ lapses \cap {"overlap", "unrestored"} = {} =>
        loaded \subseteq book /\ book \ loaded \subseteq typed

(***************************************************************************)
(* FollowsLabel: when nothing is under way the engine holds the version    *)
(* the document's label names, or the baseline where there is no label.    *)
(***************************************************************************)
FollowsLabel == Quiet /\ Tracked /\ lapses = {} => loaded = Target(label)

(***************************************************************************)
(* Settles: once the user stops undoing, the follower catches up for good. *)
(***************************************************************************)
Settles == <>[](Tracked /\ lapses = {} => loaded = Target(label))

(***************************************************************************)
(* EditsSurviveReopen: with no undo since the document was opened, nothing *)
(* takes an edit of the grid out of the workbook (docs/status.md: every    *)
(* committed edit is re-saved, "so a reload restores the edited workbook"). *)
(* The follower does: on open it prefers the version the label names, and  *)
(* an edit of the grid saves no version.                                   *)
(***************************************************************************)
EditsSurviveReopen ==
    [][opens' = opens /\ past = <<>> /\ future = <<>> /\ lapses' = {} =>
         typed \cap book \subseteq book']_vars

=============================================================================
