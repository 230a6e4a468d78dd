----------------------- MODULE WorkbookVersions_proofs -----------------------
(***************************************************************************)
(* For any number of writers, edits, steps of the document, reopenings and *)
(* failures: the document's history names stored versions only, and the    *)
(* engine holds the version it is thought to hold.                         *)
(***************************************************************************)
EXTENDS WorkbookVersions, TLAPS, SequenceTheorems

Writer == [at : Phases, from : Hashes, next : Hashes, parts : SUBSET Books]
Read == [at : {"idle", "label", "told", "parts"}, hash : Hashes]

USE NoneAssumption, BoundsAssumption

-----------------------------------------------------------------------------
(* The types of the variables, in the groups the actions change together. *)
MemoryOK == book \in Books /\ loaded \in Hashes /\ baseline \in Hashes /\ replaced \in BOOLEAN
WriterOK ==
    /\ writer \in [Writers -> Writer]
    /\ \A w \in Writers : writer[w].at # "idle" => writer[w].from # None
ChainOK == follow \in Nat /\ reading \in Read
DocumentOK == stored \subseteq Books /\ label \in Hashes /\ past \in Seq(Hashes) /\ future \in Seq(Hashes)
CountsOK ==
    /\ edits \in 0 .. MaxEdits /\ typed \subseteq 1 .. edits
    /\ lapses \subseteq {"overlap", "unrestored", "uncommitted", "unstored", "imported"}
    /\ steps \in 0 .. MaxSteps /\ opens \in 0 .. MaxOpens /\ faults \in 0 .. MaxFaults

LEMMA Groups == TypeOK <=> MemoryOK /\ WriterOK /\ ChainOK /\ DocumentOK /\ CountsOK
  BY DEF TypeOK, MemoryOK, WriterOK, ChainOK, DocumentOK, CountsOK, Writer, Read

(* The history of the document stays a pair of sequences of versions. *)
LEMMA Sequences ==
    ASSUME NEW s \in Seq(Hashes), NEW h \in Hashes
    PROVE  /\ Append(s, h) \in Seq(Hashes) /\ <<h>> \o s \in Seq(Hashes)
           /\ s # <<>> => /\ Last(s) \in Hashes /\ Front(s) \in Seq(Hashes)
                          /\ Head(s) \in Hashes /\ Tail(s) \in Seq(Hashes)
  <1>1. Append(s, h) \in Seq(Hashes) /\ <<h>> \o s \in Seq(Hashes)  OBVIOUS
  <1>2. ASSUME s # <<>>
        PROVE  /\ Last(s) \in Hashes /\ Front(s) \in Seq(Hashes)
               /\ Head(s) \in Hashes /\ Tail(s) \in Seq(Hashes)
    BY <1>2 DEF Last, Front
  <1> QED  BY <1>1, <1>2

LEMMA SyncedOK == MemoryOK => Synced(loaded) \in Hashes /\ Synced(baseline) \in Hashes
  BY DEF MemoryOK, Synced, Hashes

(* What a write does to the workbook keeps the types. *)
LEMMA ApplyOK ==
    ASSUME NEW w \in Writers, NEW from \in Books, NEW parts \in SUBSET Books,
           TypeOK, Apply(w, from, parts), typed' = typed
    PROVE  /\ book' \in Books /\ loaded' = from
           /\ edits' \in 0 .. MaxEdits /\ typed' \subseteq 1 .. edits'
           /\ faults' \in 0 .. MaxFaults
           /\ WriterOK'
  <1> USE Groups DEF MemoryOK, WriterOK, CountsOK
  <1>1. edits' = edits + 1 /\ edits' \in 0 .. MaxEdits /\ edits + 1 \in Edits /\ loaded' = from
    BY DEF Apply, Edits
  <1>2. book \cup {edits + 1} \in Books  BY <1>1 DEF Books
  <1>3. from \in Hashes /\ from # None /\ None \in Hashes  BY DEF Hashes
  <1>4. CASE Applied(w, from, parts)
    <2>1. book' \in Books /\ faults' = faults  BY <1>2, <1>4 DEF Applied
    <2>2. writer' = [writer EXCEPT ![w] =
                [at |-> "hash", from |-> from, next |-> book', parts |-> parts \cup {book'}]]
      BY <1>4 DEF Applied
    <2>3. book' \in Hashes /\ parts \cup {book'} \in SUBSET Books  BY <2>1 DEF Hashes
    <2>4. WriterOK'
      BY <1>3, <2>2, <2>3 DEF Writer, Phases
    <2> QED  BY <1>1, <2>1, <2>4
  <1>5. CASE Refused(w, from)
    <2>1. book' \in Books  BY <1>2, <1>5 DEF Refused
    <2>4. faults' \in 0 .. MaxFaults  BY <1>5 DEF Refused, Fails
    <2>2. writer' = [writer EXCEPT ![w] = [at |-> "restore", from |-> from, next |-> None, parts |-> {}]]
      BY <1>5 DEF Refused, Keeping
    <2>3. WriterOK'  BY <1>3, <2>2 DEF Writer, Phases
    <2> QED  BY <1>1, <2>1, <2>3, <2>4
  <1> QED  BY <1>4, <1>5 DEF Apply

-----------------------------------------------------------------------------
LEMMA TypeInit == Init => TypeOK
  <1> SUFFICES ASSUME Init PROVE TypeOK  OBVIOUS
  <1>1. {} \in Books /\ None \in Hashes  BY DEF Books, Hashes
  <1>3. MemoryOK  BY <1>1 DEF Init, MemoryOK
  <1>4. ChainOK  BY <1>1 DEF Init, ChainOK, NoRead, Read
  <1>5. DocumentOK  BY <1>1 DEF Init, DocumentOK
  <1>6. CountsOK  BY DEF Init, CountsOK
  <1>2. WriterOK  BY DEF Init, WriterOK, Writer, Idle, Keeping, Phases, Hashes, Books
  <1> QED  BY <1>2, <1>3, <1>4, <1>5, <1>6, Groups

LEMMA TypeStep == TypeOK /\ [Next]_vars => TypeOK'
  <1>0. (MemoryOK' /\ WriterOK' /\ ChainOK' /\ DocumentOK' /\ CountsOK') => TypeOK'
    BY Groups, PTL
  <1> SUFFICES ASSUME TypeOK, [Next]_vars PROVE MemoryOK' /\ WriterOK' /\ ChainOK' /\ DocumentOK' /\ CountsOK'
    BY <1>0
  <1> USE Groups DEF memory, chain, document, counts
  <1>1. ASSUME NEW w \in Writers, Begin(w) PROVE MemoryOK' /\ WriterOK' /\ ChainOK' /\ DocumentOK' /\ CountsOK'
    <2>1. ChainOK' /\ DocumentOK'  BY <1>1 DEF Begin, ChainOK, DocumentOK
    <2>2. replaced' = FALSE /\ baseline' \in Hashes  BY <1>1, SyncedOK DEF Begin
    <2>3. lapses' \subseteq {"overlap", "unrestored", "uncommitted", "unstored", "imported"}
      BY <1>1 DEF Begin, Lapse, CountsOK
    <2>4. UNCHANGED <<typed, steps, opens>>  BY <1>1 DEF Begin
    <2>5. CASE Synced(loaded) = None /\ loaded' = None /\ UNCHANGED <<book, edits, faults>>
               /\ writer' = [writer EXCEPT ![w] = Keeping("base", book)]
      <3>1. book \in Hashes /\ book # None /\ None \in Hashes  BY DEF MemoryOK, Hashes
      <3>2. WriterOK'  BY <2>5, <3>1 DEF WriterOK, Writer, Keeping, Phases
      <3> QED  BY <2>1, <2>2, <2>3, <2>4, <2>5, <3>1, <3>2 DEF MemoryOK, CountsOK
    <2>6. CASE Synced(loaded) # None /\ Apply(w, loaded, {})
      <3>1. loaded \in Books  BY <2>6 DEF Synced, MemoryOK, Hashes
      <3>2. /\ book' \in Books /\ loaded' = loaded /\ WriterOK'
            /\ edits' \in 0 .. MaxEdits /\ typed' \subseteq 1 .. edits' /\ faults' \in 0 .. MaxFaults
        BY <2>4, <2>6, <3>1, ApplyOK
      <3> QED  BY <2>1, <2>2, <2>3, <2>4, <3>2 DEF MemoryOK, CountsOK
    <2> QED  BY <1>1, <2>5, <2>6 DEF Begin
  <1>2. ASSUME NEW w \in Writers, BaseHashed(w) PROVE MemoryOK' /\ WriterOK' /\ ChainOK' /\ DocumentOK' /\ CountsOK'
    <2>1. writer[w].from \in Books
      BY <1>2 DEF BaseHashed, WriterOK, Writer, Hashes
    <2>2. writer[w].from \in Hashes  BY <2>1 DEF Hashes
    <2>3. /\ book' \in Books /\ loaded' = writer[w].from /\ WriterOK'
          /\ edits' \in 0 .. MaxEdits /\ typed' \subseteq 1 .. edits' /\ faults' \in 0 .. MaxFaults
      BY <1>2, <2>1, ApplyOK DEF BaseHashed
    <2> QED  BY <1>2, <2>2, <2>3 DEF BaseHashed, MemoryOK, ChainOK, DocumentOK, CountsOK
  <1>3. ASSUME NEW w \in Writers, Restore(w) PROVE MemoryOK' /\ WriterOK' /\ ChainOK' /\ DocumentOK' /\ CountsOK'
    <2>1. WriterOK'  BY <1>3 DEF Restore, WriterOK, Writer, Idle, Keeping, Phases, Hashes
    <2>2. MemoryOK'  BY <1>3 DEF Restore, LoadVersion, MemoryOK, DocumentOK, Hashes
    <2> QED  BY <1>3, <2>1, <2>2 DEF Restore, ChainOK, DocumentOK, CountsOK
  <1>4. ASSUME NEW w \in Writers, Hashed(w) PROVE MemoryOK' /\ WriterOK' /\ ChainOK' /\ DocumentOK' /\ CountsOK'
    BY <1>4 DEF Hashed, MemoryOK, WriterOK, Writer, Phases, ChainOK, DocumentOK, CountsOK
  <1>5. ASSUME NEW w \in Writers, StoreParts(w) PROVE MemoryOK' /\ WriterOK' /\ ChainOK' /\ DocumentOK' /\ CountsOK'
    <2>1. WriterOK'  BY <1>5 DEF StoreParts, WriterOK, Writer, Idle, Keeping, Phases, Hashes
    <2>2. DocumentOK'  BY <1>5 DEF StoreParts, DocumentOK, WriterOK, Writer
    <2> QED  BY <1>5, <2>1, <2>2 DEF StoreParts, Fails, MemoryOK, ChainOK, CountsOK
  <1>6. ASSUME NEW w \in Writers, CommitLabel(w) PROVE MemoryOK' /\ WriterOK' /\ ChainOK' /\ DocumentOK' /\ CountsOK'
    <2>1. WriterOK'  BY <1>6 DEF CommitLabel, WriterOK, Writer, Idle, Keeping, Phases, Hashes
    <2>2. writer[w].next \in Hashes /\ Append(past, label) \in Seq(Hashes) /\ <<>> \in Seq(Hashes)
      BY Sequences DEF WriterOK, Writer, DocumentOK
    <2>3. DocumentOK'  BY <1>6, <2>2 DEF CommitLabel, DocumentOK
    <2> QED  BY <1>6, <2>1, <2>3 DEF CommitLabel, Lapse, Fails, MemoryOK, ChainOK, CountsOK
  <1>7. CASE DocumentUndo
    <2>1. DocumentOK'  BY <1>7, Sequences DEF DocumentUndo, DocumentOK
    <2> QED  BY <1>7, <2>1 DEF DocumentUndo, MemoryOK, WriterOK, ChainOK, CountsOK
  <1>8. CASE DocumentRedo
    <2>1. DocumentOK'  BY <1>8, Sequences DEF DocumentRedo, DocumentOK
    <2> QED  BY <1>8, <2>1 DEF DocumentRedo, MemoryOK, WriterOK, ChainOK, CountsOK
  <1>9. CASE Reconcile
    <2>1. MemoryOK'  BY <1>9, SyncedOK DEF Reconcile, MemoryOK
    <2> QED  BY <1>9, <2>1 DEF Reconcile, Lapse, WriterOK, ChainOK, Read, Hashes, DocumentOK, CountsOK
  <1>10. CASE LabelHash
    BY <1>10 DEF LabelHash, MemoryOK, WriterOK, ChainOK, Read, DocumentOK, CountsOK
  <1>11. CASE ChooseTarget
    <2>1. Target(reading.hash) \in Hashes  BY DEF Target, ChainOK, Read, MemoryOK
    <2>2. ChainOK'  BY <1>11, <2>1 DEF ChooseTarget, ChainOK, Read, NoRead, Hashes
    <2> QED  BY <1>11, <2>2 DEF ChooseTarget, MemoryOK, WriterOK, DocumentOK, CountsOK
  <1>12. CASE FollowLabel
    <2>1. MemoryOK'  BY <1>12 DEF FollowLabel, LoadVersion, MemoryOK, DocumentOK, Hashes
    <2>2. ChainOK'  BY <1>12 DEF FollowLabel, ChainOK, Read, NoRead, Hashes
    <2> QED  BY <1>12, <2>1, <2>2 DEF FollowLabel, WriterOK, DocumentOK, CountsOK
  <1>13. CASE Type
    <2>1. edits + 1 \in Edits /\ edits' \in 0 .. MaxEdits  BY <1>13 DEF Type, CountsOK, Edits
    <2>2. MemoryOK'  BY <1>13, <2>1 DEF Type, MemoryOK, Books
    <2>3. CountsOK'  BY <1>13, <2>1 DEF Type, CountsOK
    <2> QED  BY <1>13, <2>2, <2>3 DEF Type, WriterOK, ChainOK, DocumentOK
  <1>14. CASE Import
    <2>1. edits + 1 \in Edits /\ edits' \in 0 .. MaxEdits  BY <1>14 DEF Import, CountsOK, Edits
    <2>2. MemoryOK'  BY <1>14, <2>1 DEF Import, MemoryOK, Books
    <2>3. CountsOK'  BY <1>14, <2>1 DEF Import, Lapse, CountsOK
    <2> QED  BY <1>14, <2>2, <2>3 DEF Import, WriterOK, ChainOK, DocumentOK
  <1>15. CASE Reopen
    <2>1. DocumentOK'  BY <1>15 DEF Reopen, DocumentOK
    <2>2. MemoryOK'  BY <1>15 DEF Reopen, MemoryOK, Hashes
    <2>3. ChainOK' /\ WriterOK'  BY <1>15 DEF Reopen, WriterOK, ChainOK
    <2>4. CountsOK'  BY <1>15 DEF Reopen, CountsOK
    <2> QED  BY <2>1, <2>2, <2>3, <2>4
  <1>16. CASE UNCHANGED vars
    BY <1>16 DEF vars, MemoryOK, WriterOK, ChainOK, DocumentOK, CountsOK
  <1>17. CASE \E w \in Writers :
                Begin(w) \/ BaseHashed(w) \/ Restore(w) \/ Hashed(w) \/ StoreParts(w) \/ CommitLabel(w)
    BY <1>1, <1>2, <1>3, <1>4, <1>5, <1>6, <1>17
  <1> QED
    BY <1>7, <1>8, <1>9, <1>10, <1>11, <1>12, <1>13, <1>14, <1>15, <1>16, <1>17, Zenon DEF Next

(* The types, for every instance. *)
THEOREM TypeCorrect == FairSpec => []TypeOK
  BY TypeInit, TypeStep, PTL DEF FairSpec, Spec

-----------------------------------------------------------------------------
(* What a write is about to store holds the version it will label, and      *)
(* what it is about to label is stored.                                     *)
PartsFirst ==
    \A w \in Writers : /\ writer[w].at \in {"hash", "commit"} => writer[w].next \in writer[w].parts
                       /\ writer[w].at = "label" => writer[w].next \in stored

Known(s, versions) == \A i \in DOMAIN s : s[i] # None => s[i] \in versions
HistoryStored == /\ label # None => label \in stored
                 /\ Known(past, stored) /\ Known(future, stored)

LEMMA HistoryIsStored == LabelStored <=> HistoryStored
  BY DEF LabelStored, HistoryStored, Known, ToSet

(* What the document does to its history keeps to the versions it knows. *)
LEMMA KnownSequences ==
    ASSUME NEW s \in Seq(Hashes), NEW h \in Hashes, NEW versions, Known(s, versions),
           h # None => h \in versions
    PROVE  /\ Known(Append(s, h), versions) /\ Known(<<h>> \o s, versions)
           /\ s # <<>> => /\ Last(s) # None => Last(s) \in versions
                          /\ Head(s) # None => Head(s) \in versions
                          /\ Known(Front(s), versions) /\ Known(Tail(s), versions)
  <1>1. Known(Append(s, h), versions)  BY DEF Known
  <1>2. Known(<<h>> \o s, versions)
    <2> SUFFICES ASSUME NEW i \in DOMAIN (<<h>> \o s), (<<h>> \o s)[i] # None
                 PROVE  (<<h>> \o s)[i] \in versions
      BY DEF Known
    <2>1. CASE i = 1  BY <2>1
    <2>2. CASE i # 1
      <3>1. (<<h>> \o s)[i] = s[i - 1] /\ i - 1 \in DOMAIN s  BY <2>2
      <3> QED  BY <3>1 DEF Known
    <2> QED  BY <2>1, <2>2
  <1>3. ASSUME s # <<>>
        PROVE  /\ Last(s) # None => Last(s) \in versions
               /\ Head(s) # None => Head(s) \in versions
               /\ Known(Front(s), versions) /\ Known(Tail(s), versions)
    <2>1. Len(s) \in DOMAIN s /\ 1 \in DOMAIN s  BY <1>3
    <2>2. Known(Front(s), versions)  BY <1>3 DEF Known, Front
    <2>3. Known(Tail(s), versions)  BY <1>3 DEF Known
    <2> QED  BY <2>1, <2>2, <2>3 DEF Known, Last
  <1> QED  BY <1>1, <1>2, <1>3

LEMMA LabelStep == TypeOK /\ PartsFirst /\ HistoryStored /\ [Next]_vars => PartsFirst' /\ HistoryStored'
  <1> SUFFICES ASSUME TypeOK, PartsFirst, HistoryStored, [Next]_vars PROVE PartsFirst' /\ HistoryStored'
    OBVIOUS
  <1> USE Groups DEF memory, chain, document, counts
  <1>0. writer \in [Writers -> Writer] /\ label \in Hashes /\ past \in Seq(Hashes) /\ future \in Seq(Hashes)
    BY DEF WriterOK, DocumentOK
  <1>a. ASSUME NEW w \in Writers, NEW from, NEW parts, Apply(w, from, parts), UNCHANGED stored PROVE PartsFirst'
    <2>1. CASE Applied(w, from, parts)  BY <1>0, <1>a, <2>1 DEF Applied, PartsFirst, Writer
    <2>2. CASE Refused(w, from)  BY <1>0, <1>a, <2>2 DEF Refused, Keeping, PartsFirst, Writer
    <2> QED  BY <1>a, <2>1, <2>2 DEF Apply
  <1>1. ASSUME NEW w \in Writers, Begin(w) PROVE PartsFirst' /\ HistoryStored'
    <2>1. HistoryStored'  BY <1>1 DEF Begin, HistoryStored
    <2>2. CASE writer' = [writer EXCEPT ![w] = Keeping("base", book)] /\ UNCHANGED stored
      BY <1>0, <2>1, <2>2 DEF PartsFirst, Keeping, Writer
    <2>3. CASE Apply(w, loaded, {}) /\ UNCHANGED stored  BY <1>a, <2>1, <2>3
    <2> QED  BY <1>1, <2>2, <2>3 DEF Begin
  <1>2. ASSUME NEW w \in Writers, BaseHashed(w) PROVE PartsFirst' /\ HistoryStored'
    BY <1>2, <1>a DEF BaseHashed, HistoryStored
  <1>3. ASSUME NEW w \in Writers, Restore(w) PROVE PartsFirst' /\ HistoryStored'
    BY <1>0, <1>3 DEF Restore, Idle, Keeping, PartsFirst, HistoryStored, Writer
  <1>4. ASSUME NEW w \in Writers, Hashed(w) PROVE PartsFirst' /\ HistoryStored'
    BY <1>0, <1>4 DEF Hashed, PartsFirst, HistoryStored, Writer
  <1>5. ASSUME NEW w \in Writers, StoreParts(w) PROVE PartsFirst' /\ HistoryStored'
    <2>1. HistoryStored'  BY <1>5 DEF StoreParts, HistoryStored, Known
    <2>2. PartsFirst'  BY <1>0, <1>5 DEF StoreParts, Idle, Keeping, PartsFirst, Writer
    <2> QED  BY <2>1, <2>2
  <1>6. ASSUME NEW w \in Writers, CommitLabel(w) PROVE PartsFirst' /\ HistoryStored'
    <2>1. PartsFirst'  BY <1>0, <1>6 DEF CommitLabel, Idle, Keeping, PartsFirst, Writer
    <2>2. writer[w].next \in stored /\ Known(<<>>, stored)  BY <1>6 DEF CommitLabel, PartsFirst, Known
    <2>3. Known(Append(past, label), stored)  BY <1>0, KnownSequences DEF HistoryStored
    <2>4. HistoryStored'  BY <1>6, <2>2, <2>3 DEF CommitLabel, HistoryStored
    <2> QED  BY <2>1, <2>4
  <1>7. CASE DocumentUndo
    <2>1. past # <<>>  BY <1>7 DEF DocumentUndo
    <2>2. Known(Front(past), stored) /\ (Last(past) # None => Last(past) \in stored) /\ Known(<<label>> \o future, stored)
      BY <1>0, <2>1, KnownSequences DEF HistoryStored
    <2> QED  BY <1>7, <2>2 DEF DocumentUndo, HistoryStored, PartsFirst
  <1>8. CASE DocumentRedo
    <2>1. future # <<>>  BY <1>8 DEF DocumentRedo
    <2>2. Known(Tail(future), stored) /\ (Head(future) # None => Head(future) \in stored) /\ Known(Append(past, label), stored)
      BY <1>0, <2>1, KnownSequences DEF HistoryStored
    <2> QED  BY <1>8, <2>2 DEF DocumentRedo, HistoryStored, PartsFirst
  <1>9. CASE Reopen
    BY <1>9 DEF Reopen, HistoryStored, Known, PartsFirst
  <1>10. CASE UNCHANGED <<writer, stored, label, past, future>>
    BY <1>10 DEF HistoryStored, PartsFirst
  <1>11. Reconcile \/ LabelHash \/ ChooseTarget \/ FollowLabel \/ Type \/ Import \/ UNCHANGED vars
             => UNCHANGED <<writer, stored, label, past, future>>
    BY DEF Reconcile, LabelHash, ChooseTarget, FollowLabel, Type, Import, vars
  <1>12. CASE \E w \in Writers :
                Begin(w) \/ BaseHashed(w) \/ Restore(w) \/ Hashed(w) \/ StoreParts(w) \/ CommitLabel(w)
    BY <1>1, <1>2, <1>3, <1>4, <1>5, <1>6, <1>12
  <1> QED  BY <1>7, <1>8, <1>9, <1>10, <1>11, <1>12, Zenon DEF Next

(* Every version the document's history names, now or after any undo and    *)
(* redo, is in the container.                                               *)
THEOREM LabelStoredCorrect == FairSpec => []LabelStored
  <1>1. Init => PartsFirst /\ HistoryStored
    BY DEF Init, PartsFirst, HistoryStored, Known, Idle, Keeping
  <1>2. HistoryStored => LabelStored  BY HistoryIsStored
  <1> QED  BY <1>1, <1>2, LabelStep, TypeInit, TypeStep, PTL DEF FairSpec, Spec

-----------------------------------------------------------------------------
(* The workbook is a version with edits of the grid on top. *)
HoldsVersion(v) == v \subseteq book /\ book \ v \subseteq typed

(* Unless two operations have overlapped, one of them at most is under way. *)
OneAtATime ==
    "overlap" \notin lapses =>
        /\ \A w, v \in Writers : writer[w] # Idle /\ writer[v] # Idle => w = v
        /\ Resting \/ reading = NoRead

(* What a write knows of the workbook at each of its awaits. *)
WriterKnows ==
    lapses \cap {"overlap", "unrestored"} = {} =>
        \A w \in Writers :
            /\ writer[w].at = "base" => HoldsVersion(writer[w].from)
            /\ writer[w].at = "restore" => loaded = writer[w].from /\ loaded \subseteq book
            /\ writer[w].at = "hash" => HoldsVersion(writer[w].next)
            /\ writer[w].at \in {"commit", "label"} => HoldsVersion(loaded)

VersionsTrue == OneAtATime /\ WriterKnows /\ LoadedTrue

LEMMA IdleShape ==
    ASSUME TypeOK, NEW w \in Writers, writer[w].at # "idle"
    PROVE  writer[w] # Idle
  BY DEF Idle, Keeping

(* A writer that is not idle is alone, and nothing is read meanwhile. *)
LEMMA Alone ==
    ASSUME TypeOK, OneAtATime, "overlap" \notin lapses, NEW w \in Writers, writer[w] # Idle
    PROVE  (\A v \in Writers \ {w} : writer[v] = Idle) /\ ~Resting /\ reading = NoRead
  BY DEF OneAtATime, Resting

(* The run of a write without an await, begun on a version that holds. *)
LEMMA ApplyTrue ==
    ASSUME TypeOK, TypeOK', NEW w \in Writers, NEW from \in Books, NEW parts, Apply(w, from, parts),
           UNCHANGED typed,
           "overlap" \notin lapses =>
               (\A v \in Writers \ {w} : writer[v] = Idle) /\ reading = NoRead,
           lapses \cap {"overlap", "unrestored"} = {} => HoldsVersion(from),
           lapses' = lapses, reading' = reading
    PROVE  VersionsTrue'
  <1>0. writer \in [Writers -> Writer]  BY Groups DEF WriterOK
  <1>1. loaded' = from  BY DEF Apply
  <1>2. /\ \A v \in Writers \ {w} : writer'[v] = writer[v]
        /\ \/ writer'[w].at = "hash" /\ writer'[w].next = book' /\ book' = book \cup {edits + 1}
           \/ writer'[w].at = "restore" /\ writer'[w].from = from /\ book \subseteq book'
    <2>1. CASE Applied(w, from, parts)  BY <1>0, <2>1 DEF Applied, Writer
    <2>2. CASE Refused(w, from)  BY <1>0, <2>2 DEF Refused, Keeping, Writer
    <2> QED  BY <2>1, <2>2 DEF Apply
  <1>3. writer'[w] # Idle /\ ~Resting'
    BY <1>2 DEF Resting, Idle, Keeping
  <1>4. OneAtATime'  BY <1>2 DEF OneAtATime
  <1>5. WriterKnows'
    <2> SUFFICES ASSUME lapses \cap {"overlap", "unrestored"} = {}, NEW v \in Writers
                 PROVE  /\ writer'[v].at = "base" => HoldsVersion(writer[v].from)'
                        /\ writer'[v].at = "restore" => loaded' = writer'[v].from /\ loaded' \subseteq book'
                        /\ writer'[v].at = "hash" => HoldsVersion(writer[v].next)'
                        /\ writer'[v].at \in {"commit", "label"} => HoldsVersion(loaded)'
      BY DEF WriterKnows
    <2>1. CASE v # w
      <3>1. writer'[v].at = "idle"  BY <1>2, <2>1 DEF Idle, Keeping
      <3> QED  BY <3>1
    <2>2. CASE v = w  BY <1>1, <1>2, <2>2 DEF HoldsVersion
    <2> QED  BY <2>1, <2>2
  <1> QED  BY <1>3, <1>4, <1>5 DEF VersionsTrue, LoadedTrue

LEMMA VersionsStep == TypeOK /\ TypeOK' /\ VersionsTrue /\ [Next]_vars => VersionsTrue'
  <1> SUFFICES ASSUME TypeOK, TypeOK', VersionsTrue, [Next]_vars PROVE VersionsTrue'
    OBVIOUS
  <1> USE Groups DEF memory, chain, document, counts
  <1>0. writer \in [Writers -> Writer] /\ OneAtATime /\ WriterKnows /\ LoadedTrue
    BY DEF WriterOK, VersionsTrue
  <1>b. \A h \in Hashes : h # None => h \in Books  BY DEF Hashes
  <1>a. CASE "overlap" \in lapses'
    BY <1>a DEF VersionsTrue, OneAtATime, WriterKnows, LoadedTrue
  <1>c. ASSUME "overlap" \notin lapses', lapses \subseteq lapses', NEW w \in Writers, writer[w].at # "idle"
        PROVE  /\ \A v \in Writers \ {w} : writer[v] = Idle
               /\ ~Resting /\ reading = NoRead
    BY <1>0, <1>c, IdleShape, Alone
  <1>1. ASSUME NEW w \in Writers, Begin(w), "overlap" \notin lapses' PROVE VersionsTrue'
    <2>1. writer[w] = Idle /\ Resting /\ reading = NoRead /\ lapses' = lapses /\ UNCHANGED <<reading, typed>>
      BY <1>1 DEF Begin, Lapse
    <2>2. CASE Synced(loaded) = None /\ loaded' = None /\ UNCHANGED book
               /\ writer' = [writer EXCEPT ![w] = Keeping("base", book)]
      <3>1. writer'[w].at = "base" /\ writer'[w].from = book /\ writer'[w] # Idle
        BY <1>0, <2>2 DEF Keeping, Idle
      <3>2. \A v \in Writers \ {w} : writer'[v] = Idle /\ writer'[v].at = "idle"
        BY <1>0, <2>1, <2>2 DEF Resting, Keeping, Idle
      <3>3. OneAtATime' /\ LoadedTrue'  BY <2>1, <3>1, <3>2 DEF OneAtATime, LoadedTrue, Resting
      <3>4. WriterKnows'  BY <2>1, <2>2, <3>1, <3>2 DEF WriterKnows, HoldsVersion
      <3> QED  BY <3>3, <3>4 DEF VersionsTrue
    <2>3. CASE Synced(loaded) # None /\ Apply(w, loaded, {})
      <3>1. loaded \in Books /\ ~replaced  BY <1>b, <2>3 DEF Synced, MemoryOK
      <3>2. lapses \cap {"overlap", "unrestored"} = {} => HoldsVersion(loaded)
        BY <1>0, <2>1, <3>1 DEF LoadedTrue, Tracked, HoldsVersion
      <3>3. \A v \in Writers \ {w} : writer[v] = Idle  BY <2>1 DEF Resting
      <3> QED  BY <2>1, <2>3, <3>1, <3>2, <3>3, ApplyTrue
    <2> QED  BY <1>1, <2>2, <2>3 DEF Begin
  <1>2. ASSUME NEW w \in Writers, BaseHashed(w), "overlap" \notin lapses' PROVE VersionsTrue'
    <2>1. writer[w].at = "base" /\ lapses' = lapses /\ UNCHANGED <<reading, typed>>
          /\ Apply(w, writer[w].from, {writer[w].from})
      BY <1>2 DEF BaseHashed
    <2>2. (\A v \in Writers \ {w} : writer[v] = Idle) /\ reading = NoRead  BY <1>2, <1>c, <2>1
    <2>3. writer[w].from \in Books  BY <1>0, <1>b, <2>1 DEF WriterOK, Writer
    <2>4. lapses \cap {"overlap", "unrestored"} = {} => HoldsVersion(writer[w].from)
      BY <1>0, <2>1 DEF WriterKnows
    <2> QED  BY <2>1, <2>2, <2>3, <2>4, ApplyTrue
  <1>3. ASSUME NEW w \in Writers, Restore(w), "overlap" \notin lapses' PROVE VersionsTrue'
    <2>1. writer[w].at = "restore" /\ writer' = [writer EXCEPT ![w] = Idle] /\ UNCHANGED <<reading, typed, replaced>>
          /\ lapses \subseteq lapses'
      BY <1>3 DEF Restore
    <2>2. (\A v \in Writers \ {w} : writer[v] = Idle) /\ reading = NoRead  BY <1>3, <1>c, <2>1
    <2>3. \A v \in Writers : writer'[v] = Idle /\ writer'[v].at = "idle"
      BY <1>0, <2>1, <2>2 DEF Idle, Keeping
    <2>6. OneAtATime'  BY <2>3 DEF OneAtATime, Resting
    <2>4. WriterKnows'  BY <2>3 DEF WriterKnows
    <2>5. LoadedTrue'
      <3> SUFFICES ASSUME lapses' \cap {"overlap", "unrestored"} = {} PROVE HoldsVersion(loaded)'
        BY DEF LoadedTrue, HoldsVersion
      <3>1. lapses \cap {"overlap", "unrestored"} = {}  BY <2>1
      <3>2. loaded = writer[w].from /\ loaded \subseteq book  BY <1>0, <2>1, <3>1 DEF WriterKnows
      <3>3. CASE writer[w].from \in stored
        BY <1>3, <2>1, <3>3 DEF Restore, LoadVersion, HoldsVersion
      <3>4. CASE writer[w].from \notin stored
        <4>1. UNCHANGED <<book, loaded>>  BY <1>3, <3>4 DEF Restore, LoadVersion
        <4>2. lapses' = lapses \cup {"unstored"}
                         \cup (IF book \subseteq writer[w].from \cup typed THEN {} ELSE {"unrestored"})
          BY <1>3, <3>4 DEF Restore
        <4>3. book \subseteq writer[w].from \cup typed  BY <4>2
        <4> QED  BY <2>1, <3>2, <4>1, <4>3 DEF HoldsVersion
      <3> QED  BY <3>3, <3>4
    <2> QED  BY <2>4, <2>5, <2>6 DEF VersionsTrue
  <1>4. ASSUME NEW w \in Writers, Hashed(w), "overlap" \notin lapses' PROVE VersionsTrue'
    <2>1. /\ writer[w].at = "hash" /\ loaded' = writer[w].next /\ writer' = [writer EXCEPT ![w].at = "commit"]
          /\ UNCHANGED <<book, reading, typed, lapses>>
      BY <1>4 DEF Hashed
    <2>2. (\A v \in Writers \ {w} : writer[v] = Idle) /\ reading = NoRead  BY <1>4, <1>c, <2>1
    <2>3. writer'[w].at = "commit" /\ writer'[w] # Idle
      BY <1>0, <2>1 DEF Writer, Idle, Keeping
    <2>4. \A v \in Writers \ {w} : writer'[v] = Idle /\ writer'[v].at = "idle"
      BY <1>0, <2>1, <2>2 DEF Idle, Keeping
    <2>5. OneAtATime' /\ LoadedTrue'  BY <2>1, <2>2, <2>3, <2>4 DEF OneAtATime, LoadedTrue, Resting
    <2>6. lapses \cap {"overlap", "unrestored"} = {} => HoldsVersion(writer[w].next)
      BY <1>0, <2>1 DEF WriterKnows
    <2>7. WriterKnows'  BY <2>1, <2>3, <2>4, <2>6 DEF WriterKnows, HoldsVersion
    <2> QED  BY <2>5, <2>7 DEF VersionsTrue
  <1>5. ASSUME NEW w \in Writers, StoreParts(w) \/ CommitLabel(w), "overlap" \notin lapses' PROVE VersionsTrue'
    <2>1. /\ writer[w].at \in {"commit", "label"} /\ UNCHANGED <<book, loaded, replaced, reading, typed>>
          /\ lapses \subseteq lapses' /\ lapses' \subseteq lapses \cup {"uncommitted", "unstored"}
          /\ \/ writer' = [writer EXCEPT ![w].at = "label"]
             \/ writer' = [writer EXCEPT ![w] = Idle]
      BY <1>5 DEF StoreParts, CommitLabel, Lapse
    <2>2. (\A v \in Writers \ {w} : writer[v] = Idle) /\ reading = NoRead  BY <1>5, <1>c, <2>1
    <2>3. \A v \in Writers \ {w} : writer'[v] = Idle /\ writer'[v].at = "idle"
      BY <1>0, <2>1, <2>2 DEF Idle, Keeping
    <2>4. writer'[w].at \in {"label", "idle"}  BY <1>0, <2>1 DEF Writer, Idle, Keeping
    <2>5. lapses' \cap {"overlap", "unrestored"} = {} => HoldsVersion(loaded)'
      BY <1>0, <2>1 DEF WriterKnows, HoldsVersion
    <2>6. OneAtATime'  BY <2>1, <2>2, <2>3 DEF OneAtATime
    <2>7. LoadedTrue'  BY <2>5 DEF LoadedTrue, HoldsVersion
    <2>8. WriterKnows'
      <3> SUFFICES ASSUME lapses' \cap {"overlap", "unrestored"} = {}, NEW v \in Writers
                   PROVE  writer'[v].at \in {"label", "idle"} /\ HoldsVersion(loaded)'
        BY DEF WriterKnows
      <3> QED  BY <2>3, <2>4, <2>5
    <2> QED  BY <2>6, <2>7, <2>8 DEF VersionsTrue
  <1>6. CASE FollowLabel /\ "overlap" \notin lapses'
    <2>1. reading.at = "parts" /\ reading' = NoRead /\ UNCHANGED <<writer, typed, lapses, replaced>>
          /\ LoadVersion(reading.hash)
      BY <1>6 DEF FollowLabel
    <2>2. reading # NoRead  BY <2>1 DEF NoRead
    <2>3. Resting  BY <1>0, <1>6, <2>1, <2>2 DEF OneAtATime
    <2>4. OneAtATime'  BY <2>1, <2>3 DEF OneAtATime, Resting
    <2>5. WriterKnows'  BY <2>1, <2>3 DEF WriterKnows, Resting, Idle, Keeping
    <2>6. LoadedTrue'
      BY <1>0, <2>1, <2>3 DEF LoadVersion, LoadedTrue, Tracked
    <2> QED  BY <2>4, <2>5, <2>6 DEF VersionsTrue
  <1>7. CASE Type
    <2>1. book' = book \cup {edits + 1} /\ typed' = typed \cup {edits + 1} /\ UNCHANGED <<writer, loaded, replaced, lapses, reading>>
      BY <1>7 DEF Type
    <2>2. OneAtATime'  BY <1>0, <2>1 DEF OneAtATime, Resting
    <2>3. \A v : HoldsVersion(v) => HoldsVersion(v)'  BY <2>1 DEF HoldsVersion
    <2>4. WriterKnows'  BY <1>0, <2>1 DEF WriterKnows, HoldsVersion
    <2>5. LoadedTrue'  BY <1>0, <2>1 DEF LoadedTrue, Tracked, Resting
    <2> QED  BY <2>2, <2>4, <2>5 DEF VersionsTrue
  <1>8. CASE (Import \/ Reopen) /\ "overlap" \notin lapses'
    <2>1. Resting /\ reading = NoRead /\ UNCHANGED <<writer, reading>> /\ lapses \subseteq lapses'
      BY <1>8 DEF Import, Reopen, Lapse
    <2>2. replaced' \/ loaded' = None  BY <1>8 DEF Import, Reopen
    <2>3. OneAtATime'  BY <2>1 DEF OneAtATime, Resting
    <2>4. WriterKnows'  BY <2>1 DEF WriterKnows, Resting, Idle, Keeping
    <2>5. LoadedTrue'  BY <2>2 DEF LoadedTrue, Tracked
    <2> QED  BY <2>3, <2>4, <2>5 DEF VersionsTrue
  <1>9. CASE Reconcile /\ "overlap" \notin lapses'
    <2>1. Resting /\ lapses' = lapses /\ UNCHANGED <<book, writer, typed>> /\ loaded' = Synced(loaded) /\ replaced' = FALSE
      BY <1>9 DEF Reconcile, Lapse
    <2>2. OneAtATime'  BY <2>1 DEF OneAtATime, Resting
    <2>3. WriterKnows'  BY <2>1 DEF WriterKnows, Resting, Idle, Keeping
    <2>4. LoadedTrue'  BY <1>0, <2>1 DEF LoadedTrue, Tracked, Synced
    <2> QED  BY <2>2, <2>3, <2>4 DEF VersionsTrue
  <1>10. CASE LabelHash \/ ChooseTarget
    <2>1. /\ UNCHANGED <<book, loaded, replaced, writer, typed, lapses>>
          /\ reading.at \in {"label", "told"}
      BY <1>10 DEF LabelHash, ChooseTarget
    <2>2. reading # NoRead  BY <2>1 DEF NoRead
    <2>3. OneAtATime'  BY <1>0, <2>1, <2>2 DEF OneAtATime, Resting
    <2>4. WriterKnows' /\ LoadedTrue'  BY <1>0, <2>1 DEF WriterKnows, HoldsVersion, LoadedTrue, Tracked, Resting
    <2> QED  BY <2>3, <2>4 DEF VersionsTrue
  <1>11. CASE DocumentUndo \/ DocumentRedo \/ UNCHANGED vars
    <2>1. UNCHANGED <<book, loaded, replaced, writer, typed, lapses, reading>>
      BY <1>11 DEF DocumentUndo, DocumentRedo, vars
    <2> QED  BY <1>0, <2>1 DEF VersionsTrue, OneAtATime, WriterKnows, HoldsVersion, LoadedTrue, Tracked, Resting
  <1>12. CASE \E w \in Writers :
                Begin(w) \/ BaseHashed(w) \/ Restore(w) \/ Hashed(w) \/ StoreParts(w) \/ CommitLabel(w)
    BY <1>a, <1>1, <1>2, <1>3, <1>4, <1>5, <1>12
  <1> QED  BY <1>a, <1>6, <1>7, <1>8, <1>9, <1>10, <1>11, <1>12, Zenon DEF Next

(* Between writes the engine holds the version it is thought to hold, with  *)
(* only edits of the grid on top, unless operations overlapped or a first   *)
(* write was refused.                                                       *)
THEOREM LoadedTrueCorrect == FairSpec => []LoadedTrue
  <1>1. Init => VersionsTrue
    BY DEF Init, VersionsTrue, OneAtATime, WriterKnows, LoadedTrue, Tracked, Idle, Keeping
  <1>2. VersionsTrue => LoadedTrue  BY DEF VersionsTrue
  <1> QED  BY <1>1, <1>2, VersionsStep, TypeInit, TypeStep, PTL DEF FairSpec, Spec

-----------------------------------------------------------------------------
(***************************************************************************)
(* Why the engine is on the label whenever nothing is under way.  That     *)
(* alone is kept by no step: a write must begin on the label it will       *)
(* replace, a reading must hold the label of now unless another event is   *)
(* waiting, the version it goes to must be in the container, and "no       *)
(* label" must name a version as soon as the document can return to it.    *)
(***************************************************************************)
SameBook == reading # NoRead \/ ~Resting => ~replaced

WritesOnLabel ==
    \A w \in Writers :
        /\ writer[w].at = "base" /\ follow = 0 => label = None
        /\ writer[w].at \in {"restore", "hash", "commit", "label"} /\ follow = 0 =>
               writer[w].from = Target(label)
        /\ writer[w].at = "restore" => loaded = writer[w].from
        /\ writer[w].at \in {"hash", "commit", "label"} => writer[w].next # None
        /\ writer[w].at \in {"commit", "label"} => loaded = writer[w].next

OnLabel ==
    follow = 0 /\ reading = NoRead /\ Resting =>
        IF Synced(loaded) = None THEN label = None ELSE loaded = Target(label)

ReadsLabel ==
    /\ reading.at = "told" => /\ reading.hash # None => reading.hash \in stored
                              /\ follow = 0 => reading.hash = label
    /\ reading.at = "parts" => /\ reading.hash \in stored
                               /\ follow = 0 => reading.hash = Target(label)

(* No version was ever written, or no undo and no redo reaches "no label". *)
Unwritten ==
    /\ label = None /\ past = <<>> /\ future = <<>> /\ Synced(loaded) = None
    /\ \A w \in Writers : writer[w].at \in {"idle", "base"}
    /\ reading.hash = None /\ reading.at # "parts"
Named(s) == \A i \in 1 .. Len(s) : s[i] # None
Labelled == label # None /\ Named(past) /\ Named(future)
BaselineKnown == Synced(baseline) = None => Unwritten \/ Labelled

BaselineStored ==
    Synced(baseline) # None =>
        /\ Resting => baseline \in stored
        /\ \A w \in Writers :
            /\ writer[w].at = "restore" => baseline \in stored \cup {writer[w].from}
            /\ writer[w].at \in {"hash", "commit"} => baseline \in stored \cup writer[w].parts
            /\ writer[w].at = "label" => baseline \in stored

Course == SameBook /\ WritesOnLabel /\ OnLabel /\ ReadsLabel /\ BaselineKnown /\ BaselineStored
OnCourse == lapses = {} => Course

(* The course with one write under way, and with none. *)
BusyOn(w) ==
    /\ \A v \in Writers \ {w} : writer[v] = Idle
    /\ reading = NoRead /\ ~replaced
    /\ \/ writer[w].at = "base" /\ (follow = 0 => label = None)
       \/ /\ writer[w].at \in {"restore", "hash", "commit", "label"}
          /\ follow = 0 => writer[w].from = Target(label)
    /\ writer[w].at = "restore" =>
           loaded = writer[w].from /\ (baseline # None => baseline \in stored \cup {writer[w].from})
    /\ writer[w].at \in {"hash", "commit"} =>
           writer[w].next # None /\ (baseline # None => baseline \in stored \cup writer[w].parts)
    /\ writer[w].at \in {"commit", "label"} => loaded = writer[w].next
    /\ writer[w].at = "label" => writer[w].next # None /\ (baseline # None => baseline \in stored)
    /\ baseline = None => Labelled \/ (writer[w].at = "base" /\ Unwritten)
RestingOn ==
    /\ Resting /\ SameBook /\ OnLabel /\ ReadsLabel /\ BaselineKnown
    /\ Synced(baseline) # None => baseline \in stored

BusyMeansCourse == \A w \in Writers : BusyOn(w) => Course
LEMMA BusyCourse == BusyMeansCourse
  <1> SUFFICES ASSUME NEW w \in Writers, BusyOn(w) PROVE Course  BY DEF BusyMeansCourse
  <1>1. writer[w] # Idle /\ ~Resting /\ \A v \in Writers \ {w} : writer[v].at = "idle"
    BY DEF BusyOn, Resting, Idle, Keeping
  <1>2. reading.at = "idle" /\ Synced(baseline) = baseline  BY DEF BusyOn, NoRead, Synced
  <1>3. SameBook /\ OnLabel /\ ReadsLabel  BY <1>1, <1>2 DEF BusyOn, SameBook, OnLabel, ReadsLabel
  <1>4. WritesOnLabel  BY <1>1 DEF BusyOn, WritesOnLabel
  <1>5. BaselineKnown  BY <1>2 DEF BusyOn, BaselineKnown
  <1>6. BaselineStored  BY <1>1, <1>2 DEF BusyOn, BaselineStored
  <1> QED  BY <1>3, <1>4, <1>5, <1>6 DEF Course

LEMMA RestingCourse == RestingOn => Course
  BY DEF RestingOn, Course, WritesOnLabel, BaselineStored, Resting, Idle, Keeping

(* Under way, a write knows its course. *)
LEMMA CourseBusy ==
    ASSUME TypeOK, OneAtATime, lapses = {}, Course, NEW w \in Writers, writer[w].at # "idle"
    PROVE  BusyOn(w)
  <1>1. writer[w] # Idle /\ (\A v \in Writers \ {w} : writer[v] = Idle) /\ ~Resting /\ reading = NoRead
    BY IdleShape, Alone
  <1>2. ~replaced /\ Synced(baseline) = baseline  BY <1>1 DEF Course, SameBook, Synced
  <1>3. writer[w].at \in Phases  BY Groups DEF WriterOK, Writer
  <1>4. baseline = None => Labelled \/ (writer[w].at = "base" /\ Unwritten)
    BY <1>2 DEF Course, BaselineKnown, Unwritten
  <1> QED  BY <1>1, <1>2, <1>3, <1>4 DEF Course, WritesOnLabel, BaselineStored, BusyOn, Phases

(* What the run of a write without an await leaves of the write. *)
LEMMA Applies ==
    ASSUME TypeOK, NEW w \in Writers, NEW from, NEW parts, Apply(w, from, parts), book' \in Books
    PROVE  /\ loaded' = from
           /\ \A v \in Writers \ {w} : writer'[v] = writer[v]
           /\ writer'[w].at \in {"hash", "restore"} /\ writer'[w].from = from
           /\ writer'[w].at = "hash" => writer'[w].next # None /\ parts \subseteq writer'[w].parts
  <1>0. writer \in [Writers -> Writer]  BY Groups DEF WriterOK
  <1>1. loaded' = from  BY DEF Apply
  <1>2. CASE Applied(w, from, parts)  BY <1>0, <1>1, <1>2 DEF Applied
  <1>3. CASE Refused(w, from)  BY <1>0, <1>1, <1>3 DEF Refused, Keeping
  <1> QED  BY <1>2, <1>3 DEF Apply

(* One step keeps the course. *)
LEMMA CourseBegin ==
    ASSUME TypeOK, TypeOK', Course, Resting, reading = NoRead, UNCHANGED <<chain, stored, document>>,
           replaced' = FALSE, baseline' = Synced(baseline), NEW w \in Writers,
           \/ /\ Synced(loaded) = None
              /\ loaded' = None
              /\ writer' = [writer EXCEPT ![w] = Keeping("base", book)]
           \/ /\ Synced(loaded) # None
              /\ Apply(w, loaded, {})
    PROVE  BusyOn(w)'
  <1> USE Groups DEF chain, document
  <1>0. writer \in [Writers -> Writer] /\ \A v \in Writers : writer[v] = Idle  BY DEF WriterOK, Resting
  <1>1. OnLabel /\ BaselineKnown /\ BaselineStored  BY DEF Course
  <1>t. TypeOK' => MemoryOK'  BY Groups, PTL
  <1>2. CASE Synced(loaded) = None /\ loaded' = None /\ writer' = [writer EXCEPT ![w] = Keeping("base", book)]
    <2>1. writer'[w].at = "base" /\ \A v \in Writers \ {w} : writer'[v] = Idle
      BY <1>0, <1>2 DEF Keeping
    <2>2. follow' = 0 => label' = None  BY <1>1, <1>2 DEF OnLabel
    <2>3. ASSUME baseline' = None PROVE Labelled' \/ Unwritten'
      <3>1. Unwritten \/ Labelled  BY <1>1, <2>3 DEF BaselineKnown
      <3>2. CASE Unwritten
        BY <1>2, <2>1, <3>2 DEF Unwritten, Synced, Idle, Keeping, NoRead
      <3> QED  BY <3>1, <3>2 DEF Labelled, Named
    <2> QED  BY <2>1, <2>2, <2>3 DEF BusyOn
  <1>3. CASE Synced(loaded) # None /\ Apply(w, loaded, {})
    <2>1. ~replaced /\ Synced(loaded) = loaded /\ baseline' = baseline /\ book' \in Books
      BY <1>3, <1>t DEF Synced, MemoryOK
    <2>2. /\ loaded' = loaded /\ \A v \in Writers \ {w} : writer'[v] = Idle
          /\ writer'[w].at \in {"hash", "restore"} /\ writer'[w].from = loaded
          /\ writer'[w].at = "hash" => writer'[w].next # None
      BY <1>0, <1>3, <2>1, Applies
    <2>3. follow' = 0 => writer'[w].from = Target(label)'
      BY <1>1, <1>3, <2>1, <2>2 DEF OnLabel, Target
    <2>4. baseline' = None => Labelled'
      BY <1>1, <1>3, <2>1 DEF BaselineKnown, Unwritten, Labelled, Named, Synced
    <2>5. baseline' # None => baseline' \in stored'
      BY <1>1, <2>1 DEF BaselineStored, Synced
    <2> QED  BY <2>2, <2>3, <2>4, <2>5 DEF BusyOn
  <1> QED  BY <1>2, <1>3

LEMMA CourseWrite ==
    ASSUME TypeOK, TypeOK', OneAtATime, HistoryStored, Course, lapses = {}, lapses' = {}, NEW w \in Writers,
           BaseHashed(w) \/ Restore(w) \/ Hashed(w) \/ StoreParts(w) \/ CommitLabel(w)
    PROVE  Course'
  <1> USE Groups DEF memory, chain, document, counts
  <1>0. writer \in [Writers -> Writer]  BY DEF WriterOK
  <1>1. writer[w].at # "idle"
    BY DEF BaseHashed, Restore, Hashed, StoreParts, CommitLabel
  <1>2. BusyOn(w)  BY <1>1, CourseBusy
  <1>b. BusyOn(w)' => Course'
    <2>1. BusyMeansCourse'  BY BusyCourse, PTL
    <2> QED  BY <2>1 DEF BusyMeansCourse
  <1>t. TypeOK' => MemoryOK'  BY Groups, PTL
  <1>r. RestingOn' => Course'  BY RestingCourse, PTL
  <1>3. CASE BaseHashed(w)
    <2>1. /\ writer[w].at = "base" /\ baseline' = writer[w].from /\ Apply(w, writer[w].from, {writer[w].from})
          /\ UNCHANGED <<follow, reading, label, stored, replaced>>
      BY <1>3 DEF BaseHashed
    <2>2. writer[w].from # None /\ book' \in Books  BY <1>t, <2>1 DEF WriterOK, MemoryOK
    <2>3. /\ loaded' = writer[w].from /\ \A v \in Writers \ {w} : writer'[v] = Idle
          /\ writer'[w].at \in {"hash", "restore"} /\ writer'[w].from = writer[w].from
          /\ writer'[w].at = "hash" => writer'[w].next # None /\ writer[w].from \in writer'[w].parts
      BY <1>2, <2>1, <2>2, Applies DEF BusyOn
    <2>4. follow' = 0 => writer'[w].from = Target(label)'
      BY <1>2, <2>1, <2>3 DEF BusyOn, Target
    <2>5. BusyOn(w)'  BY <1>2, <2>1, <2>2, <2>3, <2>4 DEF BusyOn
    <2> QED  BY <1>b, <2>5
  <1>4. CASE Restore(w)
    <2>1. /\ writer[w].at = "restore" /\ writer' = [writer EXCEPT ![w] = Idle]
          /\ LoadVersion(writer[w].from)
          /\ UNCHANGED <<replaced, baseline, stored, follow, reading, label, past, future>>
      BY <1>4 DEF Restore
    <2>2. writer[w].from \in stored
      <3> SUFFICES ASSUME writer[w].from \notin stored PROVE FALSE  OBVIOUS
      <3>1. lapses' = lapses \cup {"unstored"}
                \cup (IF book \subseteq writer[w].from \cup typed THEN {} ELSE {"unrestored"})
        BY <1>4 DEF Restore
      <3> QED  BY <3>1
    <2>3. loaded' = writer[w].from /\ writer[w].from # None
      BY <2>1, <2>2 DEF LoadVersion, WriterOK
    <2>4. Resting'  BY <1>0, <1>2, <2>1 DEF BusyOn, Resting
    <2>5. reading' = NoRead /\ ~replaced' /\ Synced(loaded)' = loaded' /\ Synced(baseline)' = baseline
      BY <1>2, <2>1 DEF BusyOn, Synced
    <2>6. OnLabel'  BY <1>2, <2>1, <2>3, <2>5 DEF BusyOn, OnLabel, Target
    <2>7. SameBook' /\ ReadsLabel'  BY <2>5 DEF SameBook, ReadsLabel, NoRead
    <2>8. baseline = None => Labelled'  BY <1>2, <2>1 DEF BusyOn, Labelled, Named
    <2>9. baseline # None => baseline \in stored'  BY <1>2, <2>1, <2>2 DEF BusyOn
    <2>10. BaselineKnown'  BY <2>5, <2>8 DEF BaselineKnown
    <2>11. RestingOn'  BY <2>1, <2>4, <2>5, <2>6, <2>7, <2>9, <2>10 DEF RestingOn
    <2> QED  BY <1>r, <2>11
  <1>5. CASE Hashed(w)
    <2>1. /\ writer[w].at = "hash" /\ writer' = [writer EXCEPT ![w].at = "commit"] /\ loaded' = writer[w].next
          /\ UNCHANGED <<replaced, baseline, stored, follow, reading, label, past, future>>
      BY <1>5 DEF Hashed
    <2>2. /\ \A v \in Writers \ {w} : writer'[v] = writer[v]
          /\ writer'[w].at = "commit" /\ writer'[w].from = writer[w].from
          /\ writer'[w].next = writer[w].next /\ writer'[w].parts = writer[w].parts
      BY <1>0, <2>1 DEF Writer
    <2>3. Target(label)' = Target(label) /\ (Labelled => Labelled')
      BY <2>1 DEF Target, Labelled, Named
    <2>4. BusyOn(w)'  BY <1>2, <2>1, <2>2, <2>3 DEF BusyOn
    <2> QED  BY <1>b, <2>4
  <1>6. CASE StoreParts(w)
    <2>1. /\ writer[w].at = "commit" /\ writer' = [writer EXCEPT ![w].at = "label"]
          /\ stored' = stored \cup writer[w].parts
          /\ UNCHANGED <<loaded, replaced, baseline, follow, reading, label, past, future>>
      BY <1>6 DEF StoreParts
    <2>2. /\ \A v \in Writers \ {w} : writer'[v] = writer[v]
          /\ writer'[w].at = "label" /\ writer'[w].from = writer[w].from /\ writer'[w].next = writer[w].next
      BY <1>0, <2>1 DEF Writer
    <2>3. Target(label)' = Target(label) /\ (Labelled => Labelled')
      BY <2>1 DEF Target, Labelled, Named
    <2>4. BusyOn(w)'  BY <1>2, <2>1, <2>2, <2>3 DEF BusyOn
    <2> QED  BY <1>b, <2>4
  <1>7. CASE CommitLabel(w)
    <2>1. /\ writer[w].at = "label" /\ writer' = [writer EXCEPT ![w] = Idle]
          /\ label' = writer[w].next /\ past' = Append(past, label) /\ future' = <<>>
          /\ UNCHANGED <<loaded, replaced, baseline, follow, reading, stored>>
      BY <1>7 DEF CommitLabel, Lapse
    <2>2. label' # None /\ loaded' = label'  BY <1>2, <2>1 DEF BusyOn
    <2>3. Resting'  BY <1>0, <1>2, <2>1 DEF BusyOn, Resting
    <2>4. reading' = NoRead /\ ~replaced' /\ Synced(loaded)' = loaded' /\ Synced(baseline)' = baseline
      BY <1>2, <2>1 DEF BusyOn, Synced
    <2>5. OnLabel'  BY <2>2, <2>4 DEF OnLabel, Target
    <2>6. SameBook' /\ ReadsLabel'  BY <2>4 DEF SameBook, ReadsLabel, NoRead
    <2>7. ASSUME baseline = None PROVE Labelled'
      <3>1. Labelled  BY <1>2, <2>1, <2>7 DEF BusyOn
      <3>2. past \in Seq(Hashes) /\ label \in Hashes  BY DEF DocumentOK
      <3>3. Named(past')  BY <2>1, <3>1, <3>2 DEF Labelled, Named
      <3>4. Named(future')  BY <2>1 DEF Named
      <3> QED  BY <2>2, <3>3, <3>4 DEF Labelled
    <2>8. baseline # None => baseline \in stored'  BY <1>2, <2>1 DEF BusyOn
    <2>9. RestingOn'  BY <2>1, <2>3, <2>4, <2>5, <2>6, <2>7, <2>8 DEF RestingOn, BaselineKnown
    <2> QED  BY <1>r, <2>9
  <1> QED  BY <1>3, <1>4, <1>5, <1>6, <1>7

LEMMA CourseDocument ==
    ASSUME TypeOK, Course, DocumentUndo \/ DocumentRedo
    PROVE  Course'
  <1> USE Groups DEF memory, chain
  <1>1. /\ UNCHANGED <<book, replaced, loaded, baseline, writer, reading, stored>>
        /\ follow' = follow + 1 /\ follow \in Nat
    BY DEF DocumentUndo, DocumentRedo, ChainOK
  <1>2. follow' # 0  BY <1>1
  <1>3. SameBook' /\ OnLabel' /\ WritesOnLabel'
    BY <1>1, <1>2 DEF Course, SameBook, Resting, OnLabel, WritesOnLabel
  <1>4. ReadsLabel'  BY <1>1, <1>2 DEF Course, ReadsLabel
  <1>5. BaselineKnown'
    <2> SUFFICES ASSUME Synced(baseline)' = None PROVE Labelled'  BY DEF BaselineKnown
    <2>1. past \in Seq(Hashes) /\ future \in Seq(Hashes) /\ label \in Hashes  BY DEF DocumentOK
    <2>2. Synced(baseline) = None  BY <1>1 DEF Synced
    <2>3. Labelled  BY <2>2 DEF DocumentUndo, DocumentRedo, Course, BaselineKnown, Unwritten
    <2>4. CASE DocumentUndo
      <3>1. past # <<>> /\ label' = Last(past) /\ past' = Front(past) /\ future' = <<label>> \o future
        BY <2>4 DEF DocumentUndo
      <3>2. label' # None /\ Named(past')  BY <2>1, <2>3, <3>1 DEF Labelled, Named, Last, Front
      <3>3. Named(future')
        <4> SUFFICES ASSUME NEW i \in 1 .. Len(<<label>> \o future) PROVE (<<label>> \o future)[i] # None
          BY <3>1 DEF Named
        <4>1. CASE i = 1  BY <2>3, <4>1 DEF Labelled
        <4>2. CASE i # 1
          <5>1. (<<label>> \o future)[i] = future[i - 1] /\ i - 1 \in 1 .. Len(future)  BY <2>1, <4>2
          <5> QED  BY <2>3, <5>1 DEF Labelled, Named
        <4> QED  BY <4>1, <4>2
      <3> QED  BY <3>2, <3>3 DEF Labelled
    <2>5. CASE DocumentRedo
      <3>1. future # <<>> /\ label' = Head(future) /\ future' = Tail(future) /\ past' = Append(past, label)
        BY <2>5 DEF DocumentRedo
      <3>2. label' # None /\ Named(future')  BY <2>1, <2>3, <3>1 DEF Labelled, Named
      <3>3. Named(past')  BY <2>1, <2>3, <3>1 DEF Labelled, Named
      <3> QED  BY <3>2, <3>3 DEF Labelled
    <2> QED  BY <2>4, <2>5
  <1>6. BaselineStored'  BY <1>1 DEF Course, BaselineStored, Synced, Resting
  <1> QED  BY <1>3, <1>4, <1>5, <1>6 DEF Course

LEMMA CourseRead ==
    ASSUME TypeOK, OneAtATime, HistoryStored, Course, lapses = {}, lapses' = {},
           Reconcile \/ LabelHash \/ ChooseTarget \/ FollowLabel
    PROVE  Course'
  <1> USE Groups DEF memory, document
  <1>r. RestingOn' => Course'  BY RestingCourse, PTL
  <1>1. Resting /\ UNCHANGED <<writer, stored, label, past, future>>
    BY DEF Reconcile, Lapse, LabelHash, ChooseTarget, FollowLabel, OneAtATime, NoRead
  <1>2. Resting'  BY <1>1 DEF Resting
  <1>3. CASE Reconcile
    <2>1. /\ reading = NoRead /\ reading' = [at |-> "label", hash |-> None]
          /\ replaced' = FALSE /\ loaded' = Synced(loaded) /\ baseline' = Synced(baseline)
      BY <1>3 DEF Reconcile
    <2>2. reading' # NoRead /\ reading'.at = "label" /\ reading'.hash = None  BY <2>1 DEF NoRead
    <2>3. Synced(loaded)' = Synced(loaded) /\ Synced(baseline)' = Synced(baseline)
      BY <2>1 DEF Synced
    <2>4. SameBook' /\ OnLabel' /\ ReadsLabel'  BY <2>1, <2>2 DEF SameBook, OnLabel, ReadsLabel
    <2>5. BaselineKnown'
      BY <1>1, <2>2, <2>3 DEF Course, BaselineKnown, Unwritten, Labelled
    <2>6. Synced(baseline)' # None => baseline' \in stored'
      BY <1>1, <2>1, <2>3 DEF Course, BaselineStored, Synced
    <2> QED  BY <1>r, <1>2, <2>4, <2>5, <2>6 DEF RestingOn
  <1>4. CASE LabelHash
    <2>1. reading.at = "label" /\ reading' = [at |-> "told", hash |-> label]
          /\ UNCHANGED <<follow, replaced, loaded, baseline>>
      BY <1>4 DEF LabelHash
    <2>2. reading # NoRead /\ reading' # NoRead /\ reading'.at = "told" /\ reading'.hash = label
      BY <2>1 DEF NoRead
    <2>3. SameBook' /\ OnLabel'  BY <1>1, <2>1, <2>2 DEF Course, SameBook, OnLabel
    <2>4. ReadsLabel'  BY <1>1, <2>2 DEF ReadsLabel, HistoryStored
    <2>5. BaselineKnown'
      BY <1>1, <2>1, <2>2 DEF Course, BaselineKnown, Unwritten, Labelled, Synced
    <2>6. Synced(baseline)' # None => baseline' \in stored'
      BY <1>1, <2>1 DEF Course, BaselineStored, Synced
    <2> QED  BY <1>r, <1>2, <2>3, <2>4, <2>5, <2>6 DEF RestingOn
  <1>5. CASE ChooseTarget
    <2>1. /\ reading.at = "told" /\ UNCHANGED <<follow, replaced, loaded, baseline>>
          /\ reading' = IF Target(reading.hash) \in {None, loaded} THEN NoRead
                        ELSE [at |-> "parts", hash |-> Target(reading.hash)]
      BY <1>5 DEF ChooseTarget
    <2>2. reading # NoRead /\ ~replaced /\ Synced(loaded) = loaded /\ Synced(baseline) = baseline
      BY <2>1 DEF NoRead, Course, SameBook, Synced
    <2>3. baseline # None => baseline \in stored  BY <1>1, <2>2 DEF Course, BaselineStored
    <2>4. reading.hash # None => reading.hash \in stored
      BY <2>1 DEF Course, ReadsLabel
    <2>5. follow = 0 => reading.hash = label  BY <2>1 DEF Course, ReadsLabel
    <2>6. SameBook'  BY <2>1, <2>2 DEF SameBook
    <2>7. Synced(baseline)' # None => baseline' \in stored'
      BY <1>1, <2>1, <2>2, <2>3 DEF Synced
    <2>8. CASE Target(reading.hash) \in {None, loaded}
      <3>1. reading' = NoRead  BY <2>1, <2>8
      <3>2. ReadsLabel'  BY <3>1 DEF ReadsLabel, NoRead
      <3>3. BaselineKnown'
        BY <1>1, <2>1, <2>2, <3>1 DEF Course, BaselineKnown, Unwritten, Labelled, NoRead, Synced
      <3>4. ASSUME follow = 0 PROVE IF loaded = None THEN label = None ELSE loaded = Target(label)
        <4>1. reading.hash = label  BY <2>5, <3>4
        <4>2. CASE Target(label) = None
          <5>1. label = None /\ baseline = None  BY <4>2 DEF Target
          <5>2. loaded = None  BY <2>2, <5>1 DEF Course, BaselineKnown, Labelled, Unwritten
          <5> QED  BY <5>1, <5>2
        <4>3. CASE Target(label) = loaded  BY <4>3 DEF Target
        <4> QED  BY <2>8, <4>1, <4>2, <4>3
      <3>5. OnLabel'  BY <1>1, <2>1, <2>2, <3>4 DEF OnLabel, Synced, Target
      <3> QED  BY <1>r, <1>2, <2>6, <2>7, <3>2, <3>3, <3>5 DEF RestingOn
    <2>9. CASE Target(reading.hash) \notin {None, loaded}
      <3>1. reading'.at = "parts" /\ reading'.hash = Target(reading.hash) /\ reading' # NoRead
        BY <2>1, <2>9 DEF NoRead
      <3>2. OnLabel'  BY <3>1 DEF OnLabel
      <3>3. Target(reading.hash) \in stored  BY <2>3, <2>4, <2>9 DEF Target
      <3>4. ReadsLabel'  BY <1>1, <2>1, <2>5, <3>1, <3>3 DEF ReadsLabel, Target
      <3>5. baseline = None => Labelled'
        BY <1>1, <2>2, <2>9 DEF Course, BaselineKnown, Unwritten, Labelled, Target
      <3>6. BaselineKnown'  BY <2>1, <2>2, <3>5 DEF BaselineKnown, Synced
      <3> QED  BY <1>r, <1>2, <2>6, <2>7, <3>2, <3>4, <3>6 DEF RestingOn
    <2> QED  BY <2>8, <2>9
  <1>6. CASE FollowLabel
    <2>1. /\ reading.at = "parts" /\ reading' = NoRead /\ LoadVersion(reading.hash)
          /\ UNCHANGED <<follow, replaced, baseline>>
      BY <1>6, <1>1 DEF FollowLabel
    <2>2. reading # NoRead /\ ~replaced /\ reading.hash \in stored /\ (follow = 0 => reading.hash = Target(label))
      BY <2>1 DEF NoRead, Course, SameBook, ReadsLabel
    <2>3. loaded' = reading.hash /\ loaded' # None
      BY <2>1, <2>2 DEF LoadVersion, DocumentOK
    <2>4. SameBook' /\ ReadsLabel'  BY <2>1, <2>2 DEF SameBook, ReadsLabel, NoRead
    <2>5. OnLabel'  BY <1>1, <2>1, <2>2, <2>3 DEF OnLabel, Synced, Target
    <2>6. BaselineKnown'
      BY <1>1, <2>1 DEF Course, BaselineKnown, Unwritten, Labelled, Synced
    <2>7. Synced(baseline)' # None => baseline' \in stored'
      BY <1>1, <2>1 DEF Course, BaselineStored, Synced
    <2> QED  BY <1>r, <1>2, <2>4, <2>5, <2>6, <2>7 DEF RestingOn
  <1> QED  BY <1>3, <1>4, <1>5, <1>6

LEMMA CourseOpen ==
    ASSUME TypeOK, Course, lapses = {}, lapses' = {}, Import \/ Reopen
    PROVE  Course'
  <1> USE DEF chain, document
  <1>r. RestingOn' => Course'  BY RestingCourse, PTL
  <1>1. Resting /\ reading = NoRead /\ UNCHANGED <<writer, reading, stored, label>>
    BY DEF Import, Reopen
  <1>2. Resting' /\ ReadsLabel' /\ SameBook'
    BY <1>1 DEF Resting, ReadsLabel, NoRead, SameBook
  <1>3. \A w \in Writers : writer'[w].at = "idle"  BY <1>1 DEF Resting, Idle, Keeping
  <1>4. Synced(loaded)' = None /\ Synced(baseline)' = None  BY DEF Import, Reopen, Synced
  <1>5. CASE Import
    <2>1. label = None /\ past' = <<>> /\ future' = <<>>  BY <1>5 DEF Import, Lapse
    <2>2. OnLabel'  BY <1>1, <1>4, <2>1 DEF OnLabel
    <2>3. BaselineKnown'  BY <1>1, <1>3, <1>4, <2>1 DEF BaselineKnown, Unwritten, NoRead
    <2> QED  BY <1>r, <1>2, <1>4, <2>2, <2>3 DEF RestingOn
  <1>6. CASE Reopen
    <2>1. follow' = 1 /\ past' = <<>> /\ future' = <<>>  BY <1>6 DEF Reopen
    <2>2. OnLabel'  BY <2>1 DEF OnLabel
    <2>3. Named(past') /\ Named(future')  BY <2>1 DEF Named
    <2>4. BaselineKnown'
      BY <1>1, <1>3, <1>4, <2>1, <2>3 DEF BaselineKnown, Unwritten, Labelled, NoRead
    <2> QED  BY <1>r, <1>2, <1>4, <2>2, <2>4 DEF RestingOn
  <1> QED  BY <1>5, <1>6

LEMMA CourseStep ==
    TypeOK /\ TypeOK' /\ VersionsTrue /\ HistoryStored /\ OnCourse /\ [Next]_vars => OnCourse'
  <1> SUFFICES ASSUME TypeOK, TypeOK', VersionsTrue, HistoryStored, OnCourse, [Next]_vars, lapses' = {}
               PROVE  Course'
    BY DEF OnCourse
  <1> USE DEF memory, chain, document, counts
  <1>1. OneAtATime  BY DEF VersionsTrue
  <1>2. ASSUME NEW w \in Writers, Begin(w) PROVE Course'
    <2>1. Resting /\ reading = NoRead /\ lapses = {}  BY <1>2 DEF Begin, Lapse
    <2>2. Course  BY <2>1 DEF OnCourse
    <2>3. BusyOn(w)'  BY <1>2, <2>1, <2>2, CourseBegin DEF Begin
    <2>4. BusyMeansCourse'  BY BusyCourse, PTL
    <2> QED  BY <2>3, <2>4 DEF BusyMeansCourse
  <1>3. ASSUME NEW w \in Writers,
               BaseHashed(w) \/ Restore(w) \/ Hashed(w) \/ StoreParts(w) \/ CommitLabel(w)
        PROVE  Course'
    <2>1. lapses \subseteq lapses'
      BY <1>3 DEF BaseHashed, Restore, Hashed, StoreParts, CommitLabel, Lapse
    <2>2. lapses = {} /\ Course  BY <2>1 DEF OnCourse
    <2> QED  BY <1>1, <1>3, <2>2, CourseWrite
  <1>4. CASE DocumentUndo \/ DocumentRedo
    BY <1>4, CourseDocument DEF DocumentUndo, DocumentRedo, OnCourse
  <1>5. CASE Reconcile \/ LabelHash \/ ChooseTarget \/ FollowLabel
    <2>1. lapses = {} /\ Course
      BY <1>5 DEF Reconcile, LabelHash, ChooseTarget, FollowLabel, Lapse, OnCourse
    <2> QED  BY <1>1, <1>5, <2>1, CourseRead
  <1>6. CASE Import \/ Reopen
    <2>1. lapses = {} /\ Course  BY <1>6 DEF Import, Reopen, Lapse, OnCourse
    <2> QED  BY <1>6, <2>1, CourseOpen
  <1>7. CASE Type \/ UNCHANGED vars
    <2>1. UNCHANGED <<replaced, loaded, baseline, writer, follow, reading, stored, label, past, future, lapses>>
      BY <1>7 DEF Type, vars
    <2>2. Course  BY <2>1 DEF OnCourse
    <2> QED
      BY <2>1, <2>2 DEF Course, SameBook, Resting, WritesOnLabel, OnLabel, ReadsLabel, BaselineKnown,
         BaselineStored, Unwritten, Labelled, Synced, Target
  <1>8. CASE \E w \in Writers :
                Begin(w) \/ BaseHashed(w) \/ Restore(w) \/ Hashed(w) \/ StoreParts(w) \/ CommitLabel(w)
    BY <1>2, <1>3, <1>8
  <1> QED  BY <1>4, <1>5, <1>6, <1>7, <1>8, Zenon DEF Next

(* When nothing is under way the engine holds the version the document's   *)
(* label names, or the baseline where there is no label, unless something  *)
(* the code does not guard against has happened.                           *)
THEOREM FollowsLabelCorrect == FairSpec => []FollowsLabel
  <1>1. Init => OnCourse
    <2> SUFFICES ASSUME Init PROVE RestingOn  BY RestingCourse DEF OnCourse
    <2>1. Synced(loaded) = None /\ Synced(baseline) = None  BY DEF Init, Synced
    <2>2. Resting /\ SameBook /\ ReadsLabel /\ OnLabel
      BY <2>1 DEF Init, Resting, SameBook, ReadsLabel, OnLabel, NoRead
    <2>3. Unwritten  BY <2>1 DEF Init, Unwritten, Idle, Keeping, NoRead
    <2> QED  BY <2>1, <2>2, <2>3 DEF RestingOn, BaselineKnown
  <1>2. Init => VersionsTrue /\ PartsFirst /\ HistoryStored
    BY DEF Init, VersionsTrue, OneAtATime, WriterKnows, LoadedTrue, Tracked, PartsFirst, HistoryStored, Known,
       Idle, Keeping
  <1>3. OnCourse => FollowsLabel
    BY DEF OnCourse, Course, OnLabel, FollowsLabel, Quiet, Tracked, Synced
  <1> QED
    BY <1>1, <1>2, <1>3, CourseStep, VersionsStep, LabelStep, TypeInit, TypeStep, PTL DEF FairSpec, Spec
=============================================================================
