---------------------- MODULE WorkbookPersist_proofs ----------------------
(* Proofs about WorkbookPersist, for any number of revisions, opens,       *)
(* failures and restores in flight.                                        *)
EXTENDS WorkbookPersist, TLAPS

Parts == [bytes : Snapshots \cup {None}, name : 0 .. MaxOpens \cup {None}]

Busy == [at : Stages, epoch : Nat, under : 0 .. MaxOpens, always : BOOLEAN,
         fromBlob : BOOLEAN, rev : Revs \cup {None}]

(* A restore that is past its reads has found bytes. *)
BytesFound ==
    \A r \in Slots :
        restore[r].at \in {"frames", "boot", "lift", "liftName"}
            => restore[r].rev # None

IInv == TypeOK /\ BytesFound /\ BytesStayHome

-----------------------------------------------------------------------------
(* What the helpers build. *)

(* The two distinguished revisions are revisions. *)
LEMMA Distinguished == Stored \in Revs /\ Blank \in Revs
  BY BoundsAssumption DEF Stored, Blank, Revs

(* A snapshot of a revision, taken under an open, is one. *)
LEMMA SnapshotType ==
    ASSUME NEW rev \in Revs, NEW epoch \in 0 .. MaxOpens
    PROVE  Snapshot(rev, epoch) \in Snapshots
  BY DEF Snapshot, Snapshots

(* A document's container holds nothing or bytes of that document. *)
LEMMA ContainerType ==
    ASSUME NEW epoch \in 0 .. MaxOpens, NEW c \in Containers(epoch)
    PROVE  /\ c \in Parts
           /\ c.bytes = None \/ c.bytes.epoch = epoch
  <1>1. CASE c = [bytes |-> None, name |-> None]
    BY <1>1 DEF Parts
  <1>2. CASE c = [bytes |-> Snapshot(Stored, epoch), name |-> epoch]
    <2>1. Snapshot(Stored, epoch) \in Snapshots
      BY Distinguished, SnapshotType
    <2>2. c \in Parts
      BY <1>2, <2>1 DEF Parts
    <2>3. c.bytes.epoch = epoch
      BY <1>2 DEF Snapshot
    <2>4. QED
      BY <2>2, <2>3
  <1>3. QED
    BY <1>1, <1>2 DEF Containers

(* A restore that begins is busy reading. *)
LEMMA BegunType ==
    ASSUME NEW found \in Snapshots \cup {None}, NEW epoch \in Nat,
           NEW under \in 0 .. MaxOpens, NEW always \in BOOLEAN
    PROVE  /\ Begun(found, epoch, under, always) \in Busy
           /\ Begun(found, epoch, under, always).at = "part"
  BY DEF Begun, Busy, Stages, Snapshots

(* A restore that is at some stage is not idle, and can move to another. *)
LEMMA BusyType ==
    ASSUME TypeOK, NEW r \in Slots, restore[r].at \in Stages
    PROVE  restore[r] \in Busy
  <1>1. restore[r] \in Restores
    BY DEF TypeOK
  <1>2. Idle.at \notin Stages
    BY DEF Idle, Stages
  <1>3. QED
    BY <1>1, <1>2 DEF Restores, Busy

-----------------------------------------------------------------------------
(* The initial states satisfy the invariant. *)
LEMMA Starts == Init => IInv
  <1> SUFFICES ASSUME Init PROVE IInv
    OBVIOUS
  <1>0. 0 \in 0 .. MaxOpens /\ 0 \in Nat /\ TRUE \in BOOLEAN
    BY BoundsAssumption
  <1>1. Stored \in Revs /\ Blank \in Revs
    BY Distinguished
  <1>2. part \in Parts /\ (part.bytes = None \/ part.bytes.epoch = 0)
    BY <1>0, ContainerType DEF Init
  <1>3. /\ Begun(part.bytes, 0, 0, TRUE) \in Busy
        /\ Begun(part.bytes, 0, 0, TRUE).at = "part"
    <2>1. part.bytes \in Snapshots \cup {None}
      BY <1>2 DEF Parts
    <2>2. QED
      BY <1>0, <2>1, BegunType
  <1>4. restore \in [Slots -> Restores]
    BY <1>3 DEF Init, Restores, Busy
  <1>5. TypeOK
    <2>1. chain \in Seq(Snapshots)
      BY DEF Init
    <2>2. /\ engine \in Revs \cup {None}
          /\ last \in Revs
          /\ blob \in Revs \cup {None}
      BY <1>1 DEF Init
    <2>3. /\ dirty \in BOOLEAN /\ timer \in BOOLEAN /\ (timer => dirty)
          /\ edited \in BOOLEAN /\ sheetless \in BOOLEAN
          /\ lost \in BOOLEAN
      BY DEF Init
    <2>4. /\ tracked \in Slots
          /\ blobHost \in BlobHosts
          /\ docEpoch \in 0 .. MaxOpens
          /\ loadEpoch \in Nat
          /\ faults \in 0 .. MaxFaults
      BY <1>0, SlotsAssumption, BoundsAssumption DEF Init
    <2>5. /\ writing \in {None} \cup [item : Snapshots, at : {"name", "blob"}]
          /\ entering \in Slots \cup {None}
          /\ asked \in {None, "adopt", "import"}
          /\ saving \in {None} \cup
               [rev : Revs, awaits : Revs \cup {None}, failed : BOOLEAN]
      BY DEF Init
    <2>6. QED
      BY <1>2, <1>4, <2>1, <2>2, <2>3, <2>4, <2>5 DEF TypeOK, Parts
  <1>6. BytesFound
    BY <1>3 DEF Init, BytesFound, Idle
  <1>7. BytesStayHome
    BY <1>2 DEF Init, BytesStayHome
  <1>8. QED
    BY <1>5, <1>6, <1>7 DEF IInv

-----------------------------------------------------------------------------
(* The invariant by groups of variables that the actions move together. *)
MemOK ==
    /\ engine \in Revs \cup {None}
    /\ edited \in BOOLEAN /\ sheetless \in BOOLEAN
    /\ last \in Revs
PendOK == dirty \in BOOLEAN /\ timer \in BOOLEAN /\ (timer => dirty)
QueueOK ==
    /\ chain \in Seq(Snapshots)
    /\ writing \in {None} \cup [item : Snapshots, at : {"name", "blob"}]
    /\ lost \in BOOLEAN
DocOK == part \in Parts /\ docEpoch \in 0 .. MaxOpens /\ BytesStayHome
HostOK == blob \in Revs \cup {None} /\ blobHost \in BlobHosts
RestoreOK == restore \in [Slots -> Restores] /\ BytesFound
BackOK ==
    /\ RestoreOK
    /\ tracked \in Slots /\ entering \in Slots \cup {None}
EpochOK == loadEpoch \in Nat
AskedOK == asked \in {None, "adopt", "import"}
SavingOK ==
    saving \in {None} \cup [rev : Revs, awaits : Revs \cup {None}, failed : BOOLEAN]
FaultsOK == faults \in 0 .. MaxFaults

LEMMA Groups ==
    IInv <=> /\ MemOK /\ PendOK /\ QueueOK /\ DocOK /\ HostOK /\ BackOK
             /\ EpochOK /\ AskedOK /\ SavingOK /\ FaultsOK
  BY DEF IInv, TypeOK, MemOK, PendOK, QueueOK, DocOK, HostOK, BackOK,
         RestoreOK, EpochOK, AskedOK, SavingOK, FaultsOK, Parts

LEMMA Together ==
    /\ MemOK' /\ PendOK' /\ QueueOK' /\ DocOK' /\ HostOK' /\ BackOK'
    /\ EpochOK' /\ AskedOK' /\ SavingOK' /\ FaultsOK'
    => IInv'
  BY DEF IInv, TypeOK, MemOK, PendOK, QueueOK, DocOK, HostOK, BackOK,
         RestoreOK, EpochOK, AskedOK, SavingOK, FaultsOK, Parts

(* A group none of whose variables changes stays as it is. *)
LEMMA Unmoved ==
    /\ MemOK /\ UNCHANGED mem => MemOK'
    /\ PendOK /\ UNCHANGED pend => PendOK'
    /\ QueueOK /\ UNCHANGED queue => QueueOK'
    /\ DocOK /\ UNCHANGED doc => DocOK'
    /\ HostOK /\ UNCHANGED host => HostOK'
    /\ BackOK /\ UNCHANGED back => BackOK'
    /\ EpochOK /\ UNCHANGED loadEpoch => EpochOK'
    /\ AskedOK /\ UNCHANGED asked => AskedOK'
    /\ SavingOK /\ UNCHANGED saving => SavingOK'
    /\ FaultsOK /\ UNCHANGED faults => FaultsOK'
  BY DEF MemOK, PendOK, QueueOK, DocOK, HostOK, BackOK, RestoreOK, EpochOK, AskedOK,
         SavingOK, FaultsOK, mem, pend, queue, doc, host, back,
         BytesStayHome, BytesFound

(* A fault is spent only below the bound. *)
LEMMA FaultStep == FaultsOK /\ (Fails \/ Succeeds) => FaultsOK'
  BY BoundsAssumption DEF FaultsOK, Fails, Succeeds

(* The mark and the timer move together. *)
LEMMA PendStep == CancelPersist \/ SchedulePersist => PendOK'
  BY DEF CancelPersist, SchedulePersist, PendOK

(* A revision is issued only below the bound. *)
LEMMA RevisionStep ==
    MemOK /\ NewRevision /\ sheetless' \in BOOLEAN => MemOK' /\ engine' \in Revs
  BY BoundsAssumption DEF MemOK, NewRevision, Revs, Blank

(* A flush leaves a marked or an unmarked edit and a chain of snapshots. *)
LEMMA FlushStep ==
    ASSUME MemOK, PendOK, QueueOK, DocOK, FaultsOK, FlushPersist
    PROVE  PendOK' /\ chain' \in Seq(Snapshots) /\ FaultsOK'
  <1>1. CASE ~(dirty /\ engine # None)
    BY <1>1, PendStep, FaultStep DEF FlushPersist, QueueOK, Succeeds
  <1>2. CASE dirty /\ engine # None
    <2>1. engine \in Revs /\ docEpoch \in 0 .. MaxOpens
      BY <1>2 DEF MemOK, DocOK
    <2>2. Snapshot(engine, docEpoch) \in Snapshots
      BY <2>1, SnapshotType
    <2>3. Append(chain, Snapshot(engine, docEpoch)) \in Seq(Snapshots)
      BY <2>2 DEF QueueOK
    <2>4. chain' \in Seq(Snapshots)
      BY <1>2, <2>3 DEF FlushPersist, QueueOK
    <2>5. PendOK'
      BY <1>2 DEF FlushPersist, PendOK
    <2>6. FaultsOK'
      BY <1>2, FaultStep DEF FlushPersist
    <2>7. QED
      BY <2>4, <2>5, <2>6
  <1>3. QED
    BY <1>1, <1>2

(* The bytes of the document that is open go into its container. *)
LEMMA PutStep ==
    ASSUME DocOK, FaultsOK, UNCHANGED docEpoch,
           NEW item \in Snapshots, item.epoch = docEpoch, PutBytes(item)
    PROVE  /\ DocOK' /\ FaultsOK' /\ lost' \in BOOLEAN
           /\ writing' \in {None} \cup [item : Snapshots, at : {"name", "blob"}]
  <1>1. FaultsOK'
    BY FaultStep DEF PutBytes
  <1>2. lost' \in BOOLEAN
    BY DEF PutBytes
  <1>3. writing' \in {None} \cup [item : Snapshots, at : {"name", "blob"}]
    BY DEF PutBytes
  <1>4. DocOK'
    <2>1. CASE part' = [part EXCEPT !.bytes = item]
      BY <2>1 DEF DocOK, Parts, BytesStayHome
    <2>2. CASE UNCHANGED part
      BY <2>2 DEF DocOK, BytesStayHome
    <2>3. QED
      BY <2>1, <2>2 DEF PutBytes
  <1>5. QED
    BY <1>1, <1>2, <1>3, <1>4

(* A load that throws leaves an engine with a known revision. *)
LEMMA ThrowStep ==
    ASSUME MemOK, PendOK, EpochOK, FaultsOK, LoadThrows
    PROVE  MemOK' /\ PendOK' /\ EpochOK' /\ FaultsOK'
  <1>1. MemOK'
    BY Distinguished DEF LoadThrows, MemOK
  <1>2. QED
    BY <1>1, FaultStep, Unmoved DEF LoadThrows, pend

-----------------------------------------------------------------------------
(* The steps of a restore. *)
Past == {"frames", "boot", "lift", "liftName"}

(* A slot may be given anything busy that has found its bytes. *)
LEMMA SlotStep ==
    ASSUME RestoreOK, NEW r \in Slots, NEW b \in Busy,
           b.at \in Past => b.rev # None,
           restore' = [restore EXCEPT ![r] = b]
    PROVE  RestoreOK'
  BY DEF RestoreOK, BytesFound, Restores, Busy, Past

LEMMA EndsStep ==
    ASSUME RestoreOK, NEW r \in Slots, Ends(r)
    PROVE  RestoreOK'
  BY DEF RestoreOK, BytesFound, Restores, Ends, Idle

(* A restore that has found bytes may move to any stage. *)
LEMMA MovesStep ==
    ASSUME TypeOK, RestoreOK, NEW r \in Slots, restore[r].at \in Stages,
           restore[r].rev # None, NEW at \in Stages, MovesTo(r, at)
    PROVE  RestoreOK'
  <1> DEFINE b == [restore[r] EXCEPT !.at = at]
  <1>1. restore[r] \in Busy
    BY BusyType
  <1>2. b \in Busy /\ b.rev # None
    BY <1>1 DEF Busy
  <1>3. restore' = [restore EXCEPT ![r] = b]
    BY DEF MovesTo
  <1>4. QED
    BY <1>2, <1>3, SlotStep

(* The bytes are loaded, or the load throws. *)
LEMMA LoadStep ==
    ASSUME IInv, NEW r \in Slots, restore[r].at \in Stages,
           NEW rev \in Revs, rev # None, NEW fromBlob, Load(r, rev, fromBlob)
    PROVE  MemOK' /\ PendOK' /\ EpochOK' /\ FaultsOK' /\ RestoreOK'
  <1>1. /\ MemOK /\ PendOK /\ EpochOK /\ FaultsOK /\ RestoreOK
    BY Groups DEF BackOK
  <1>2. CASE LoadThrows /\ Ends(r)
    BY <1>1, <1>2, ThrowStep, EndsStep
  <1>3. CASE ~(LoadThrows /\ Ends(r))
    <2> DEFINE b == [restore[r] EXCEPT !.at = "lift", !.rev = rev]
    <2>1. MemOK'
      BY <1>1, <1>3 DEF Load, MemOK
    <2>2. PendOK' /\ FaultsOK'
      BY <1>1, <1>3, PendStep, FaultStep DEF Load
    <2>3. EpochOK'
      BY <1>1, <1>3 DEF Load, EpochOK
    <2>4. b \in Busy /\ b.rev # None
      <3>1. restore[r] \in Busy
        BY BusyType DEF IInv
      <3>2. QED
        BY <3>1 DEF Busy, Stages
    <2>5. RestoreOK'
      <3>1. CASE fromBlob
        <4>1. restore' = [restore EXCEPT ![r] = b]
          BY <1>3, <3>1 DEF Load
        <4>2. QED
          BY <1>1, <2>4, <4>1, SlotStep
      <3>2. CASE ~fromBlob
        <4>1. Ends(r)
          BY <1>3, <3>2 DEF Load, Ends
        <4>2. QED
          BY <1>1, <4>1, EndsStep
      <3>3. QED
        BY <3>1, <3>2
    <2>6. QED
      BY <2>1, <2>2, <2>3, <2>5
  <1>4. QED
    BY <1>2, <1>3

(* What a restore keeps when nothing is loaded. *)
LEMMA KeepsStep ==
    ASSUME IInv, Keeps
    PROVE  MemOK' /\ PendOK' /\ EpochOK' /\ FaultsOK'
  BY Groups, Unmoved DEF Keeps

(* An engine is booted or the bytes are loaded, unless it was overtaken. *)
LEMMA BootStep ==
    ASSUME IInv, NEW r \in Slots, restore[r].at \in Stages,
           NEW rev \in Revs, rev # None, NEW fromBlob \in BOOLEAN,
           BootOrLoad(r, rev, fromBlob)
    PROVE  MemOK' /\ PendOK' /\ EpochOK' /\ FaultsOK' /\ RestoreOK'
  <1>1. RestoreOK
    BY Groups DEF BackOK
  <1>2. CASE Ends(r) /\ Keeps
    BY <1>1, <1>2, EndsStep, KeepsStep
  <1>3. CASE /\ restore' = [restore EXCEPT
                  ![r] = [@ EXCEPT !.at = "boot", !.rev = rev, !.fromBlob = fromBlob]]
             /\ Keeps
    <2> DEFINE b == [restore[r] EXCEPT !.at = "boot", !.rev = rev, !.fromBlob = fromBlob]
    <2>1. restore[r] \in Busy
      BY BusyType DEF IInv
    <2>2. b \in Busy /\ b.rev # None
      BY <2>1 DEF Busy, Stages
    <2>3. restore' = [restore EXCEPT ![r] = b]
      BY <1>3
    <2>4. RestoreOK'
      BY <1>1, <2>2, <2>3, SlotStep
    <2>5. QED
      BY <1>3, <2>4, KeepsStep
  <1>4. CASE Load(r, rev, fromBlob)
    BY <1>4, LoadStep
  <1>5. QED
    BY <1>2, <1>3, <1>4 DEF BootOrLoad

(* The container's bytes are asked for. *)
LEMMA BeginStep ==
    ASSUME RestoreOK, NEW r \in Slots, NEW always \in BOOLEAN,
           NEW container \in Parts, EpochOK', docEpoch' \in 0 .. MaxOpens,
           FaultsOK, Begin(r, always, container)
    PROVE  RestoreOK' /\ FaultsOK' /\ tracked' \in Slots
  <1>1. container.bytes \in Snapshots \cup {None} /\ None \in Snapshots \cup {None}
    BY DEF Parts
  <1>2. PICK found \in Snapshots \cup {None} :
          restore' = [restore EXCEPT ![r] = Begun(found, loadEpoch', docEpoch', always)]
    BY <1>1 DEF Begin
  <1>3. /\ Begun(found, loadEpoch', docEpoch', always) \in Busy
        /\ Begun(found, loadEpoch', docEpoch', always).at \notin Past
    BY BegunType DEF EpochOK, Past
  <1>4. RestoreOK'
    BY <1>2, <1>3, SlotStep
  <1>5. QED
    BY <1>4, FaultStep DEF Begin

-----------------------------------------------------------------------------
(* Every step keeps the invariant. *)
LEMMA Preserves == IInv /\ [Next]_vars => IInv'
  <1> SUFFICES ASSUME IInv, [Next]_vars PROVE IInv'
    OBVIOUS
  <1> USE DEF mem, pend, queue, doc, host, back
  <1>0. /\ MemOK /\ PendOK /\ QueueOK /\ DocOK /\ HostOK /\ BackOK /\ RestoreOK
        /\ EpochOK /\ AskedOK /\ SavingOK /\ FaultsOK
    BY Groups DEF BackOK
  <1>1. ASSUME Edit PROVE IInv'
    <2>1. MemOK' /\ PendOK'
      BY <1>0, <1>1, RevisionStep, PendStep DEF Edit, MemOK
    <2>2. QED
      BY <1>0, <1>1, <2>1, Unmoved, Together DEF Edit
  <1>2. ASSUME TimerFires \/ FrameExit PROVE IInv'
    <2>1. PendOK' /\ chain' \in Seq(Snapshots) /\ FaultsOK'
      BY <1>0, <1>2, FlushStep DEF TimerFires, FrameExit
    <2>2. QueueOK'
      BY <1>0, <1>2, <2>1 DEF TimerFires, FrameExit, QueueOK
    <2>3. QED
      BY <1>0, <1>2, <2>1, <2>2, Unmoved, Together DEF TimerFires, FrameExit
  <1>3. ASSUME WillSave PROVE IInv'
    <2>1. PendOK' /\ chain' \in Seq(Snapshots) /\ FaultsOK'
      BY <1>0, <1>3, FlushStep DEF WillSave
    <2>2. QueueOK'
      BY <1>0, <1>3, <2>1 DEF WillSave, QueueOK
    <2>3. Tip(chain') \in Revs \cup {None}
      <3>1. CASE chain' # <<>>
        <4>1. Len(chain') \in DOMAIN chain' /\ chain'[Len(chain')] \in Snapshots
          BY <2>1, <3>1
        <4>2. QED
          BY <3>1, <4>1 DEF Tip, Snapshots
      <3>2. CASE chain' = <<>>
        BY <1>0, <1>3, <3>2 DEF Tip, QueueOK, Snapshots, WillSave
      <3>3. QED
        BY <3>1, <3>2
    <2>4. SavingOK'
      BY <1>0, <1>3, <2>1, <2>3, Distinguished DEF WillSave, SavingOK, PendOK, MemOK
    <2>5. QED
      BY <1>0, <1>3, <2>1, <2>2, <2>4, Unmoved, Together DEF WillSave
  <1>4. ASSUME SaveDocument PROVE IInv'
    BY <1>0, <1>4, Unmoved, Together DEF SaveDocument, SavingOK
  <1>5. ASSUME StartWrite PROVE IInv'
    <2>1. Head(chain) \in Snapshots /\ Tail(chain) \in Seq(Snapshots)
      BY <1>0, <1>5 DEF StartWrite, QueueOK
    <2>2. CASE Head(chain).epoch = docEpoch
      <3>1. /\ DocOK' /\ FaultsOK' /\ lost' \in BOOLEAN
            /\ writing' \in {None} \cup [item : Snapshots, at : {"name", "blob"}]
        BY <1>0, <1>5, <2>1, <2>2, PutStep DEF StartWrite
      <3>2. QueueOK'
        BY <1>5, <2>1, <3>1 DEF StartWrite, QueueOK
      <3>3. QED
        BY <1>0, <1>5, <3>1, <3>2, Unmoved, Together DEF StartWrite
    <2>3. CASE Head(chain).epoch # docEpoch
      <3>1. QueueOK'
        BY <1>0, <1>5, <2>1, <2>3 DEF StartWrite, QueueOK
      <3>2. QED
        BY <1>0, <1>5, <2>3, <3>1, Unmoved, Together DEF StartWrite
    <2>4. QED
      BY <2>2, <2>3
  <1>6. ASSUME WriteName PROVE IInv'
    <2>1. writing.item \in Snapshots /\ writing.item.epoch \in 0 .. MaxOpens
      BY <1>0, <1>6 DEF WriteName, QueueOK, Snapshots
    <2>2. DocOK'
      <3>1. CASE part' = [part EXCEPT !.name = writing.item.epoch]
        BY <1>0, <1>6, <2>1, <3>1 DEF WriteName, DocOK, Parts, BytesStayHome
      <3>2. CASE UNCHANGED part
        BY <1>0, <1>6, <3>2, Unmoved DEF WriteName
      <3>3. QED
        BY <1>6, <3>1, <3>2 DEF WriteName
    <2>3. QueueOK' /\ FaultsOK'
      BY <1>0, <1>6, FaultStep DEF WriteName, QueueOK
    <2>4. QED
      BY <1>0, <1>6, <2>2, <2>3, Unmoved, Together DEF WriteName
  <1>7. ASSUME WriteBlob PROVE IInv'
    <2>1. HostOK' /\ QueueOK' /\ FaultsOK'
      BY <1>0, <1>7, FaultStep DEF WriteBlob, HostOK, QueueOK, Snapshots
    <2>2. QED
      BY <1>0, <1>7, <2>1, Unmoved, Together DEF WriteBlob
  <1>8. ASSUME AskAdopt \/ AskImport PROVE IInv'
    BY <1>0, <1>8, Unmoved, Together DEF AskAdopt, AskImport, AskedOK
  <1>9. ASSUME Adopt PROVE IInv'
    <2>1. MemOK' /\ PendOK' /\ EpochOK' /\ AskedOK'
      <3>1. sheetless' \in BOOLEAN
        BY <1>9 DEF Adopt
      <3>2. QED
        BY <1>0, <1>9, <3>1, RevisionStep, PendStep DEF Adopt, EpochOK, AskedOK
    <2>2. QED
      BY <1>0, <1>9, <2>1, Unmoved, Together DEF Adopt
  <1>10. ASSUME Import PROVE IInv'
    <2>1. AskedOK'
      BY <1>10 DEF Import, AskedOK
    <2>2. CASE LoadThrows /\ UNCHANGED chain
      <3>1. MemOK' /\ PendOK' /\ EpochOK' /\ FaultsOK'
        BY <1>0, <2>2, ThrowStep
      <3>2. QED
        BY <1>0, <1>10, <2>1, <2>2, <3>1, Unmoved, Together DEF Import
    <2>3. CASE ~(LoadThrows /\ UNCHANGED chain)
      <3>1. MemOK' /\ engine' \in Revs
        BY <1>0, <1>10, <2>3, RevisionStep DEF Import
      <3>2. PendOK' /\ EpochOK' /\ FaultsOK'
        BY <1>0, <1>10, <2>3, PendStep, FaultStep DEF Import, EpochOK
      <3>3. Snapshot(engine', docEpoch) \in Snapshots
        BY <1>0, <3>1, SnapshotType DEF DocOK
      <3>4. QueueOK'
        BY <1>0, <1>10, <2>3, <3>3 DEF Import, QueueOK
      <3>5. QED
        BY <1>0, <1>10, <2>1, <3>1, <3>2, <3>4, Unmoved, Together DEF Import
    <2>4. QED
      BY <2>2, <2>3
  <1>11. ASSUME EnterFrame PROVE IInv'
    <2>1. RestoreOK'
      BY <1>0, <1>11 DEF EnterFrame, RestoreOK, BytesFound
    <2>2. BackOK'
      BY <1>0, <1>11, <2>1 DEF EnterFrame, BackOK
    <2>3. QED
      BY <1>0, <1>11, <2>2, Unmoved, Together DEF EnterFrame
  <1>12. ASSUME NEW r \in Slots, RestoreStep(r) PROVE IInv'
    <2>1. restore[r].rev \in Revs \cup {None} /\ restore[r].under \in 0 .. MaxOpens
      <3>1. restore[r].at \in Stages
        BY <1>12 DEF RestoreStep, PartRead, BlobRead, FrameTest, Booted,
                     LiftBytes, LiftName, Stages
      <3>2. QED
        BY <3>1, BusyType DEF IInv, Busy
    <2>2. restore[r].at \in Past => restore[r].rev # None
      BY <1>0 DEF RestoreOK, BytesFound, Past
    <2>3. ASSUME MemOK', PendOK', EpochOK', FaultsOK', RestoreOK', RestoreFrame
          PROVE  IInv'
      <3>1. BackOK'
        BY <1>0, <2>3 DEF RestoreFrame, BackOK
      <3>2. QED
        BY <1>0, <2>3, <3>1, Unmoved, Together DEF RestoreFrame
    <2>4. CASE PartRead(r)
      <3>1. CASE restore[r].rev # None
        BY <2>1, <2>3, <2>4, <3>1, BootStep DEF PartRead, Stages
      <3>2. CASE restore[r].rev = None
        <4>1. CASE Ends(r)
          BY <1>0, <2>3, <2>4, <3>2, <4>1, EndsStep, KeepsStep DEF PartRead
        <4>2. CASE restore' = [restore EXCEPT ![r] = [@ EXCEPT !.at = "blob", !.rev = blob]]
          <5> DEFINE b == [restore[r] EXCEPT !.at = "blob", !.rev = blob]
          <5>1. restore[r] \in Busy
            BY <2>4, BusyType DEF IInv, PartRead, Stages
          <5>2. b \in Busy /\ b.at \notin Past
            BY <1>0, <5>1 DEF Busy, Stages, HostOK, Past
          <5>3. RestoreOK'
            BY <1>0, <4>2, <5>2, SlotStep
          <5>4. QED
            BY <2>3, <2>4, <3>2, <5>3, KeepsStep DEF PartRead
        <4>3. QED
          BY <2>4, <3>2, <4>1, <4>2 DEF PartRead
      <3>3. QED
        BY <3>1, <3>2
    <2>5. CASE BlobRead(r)
      <3>1. CASE Ends(r) /\ Keeps
        BY <1>0, <2>3, <2>5, <3>1, EndsStep, KeepsStep DEF BlobRead
      <3>2. CASE Fails /\ Ends(r) /\ UNCHANGED <<mem, pend, loadEpoch>>
        BY <1>0, <2>3, <2>5, <3>2, EndsStep, FaultStep, Unmoved DEF BlobRead
      <3>3. CASE restore[r].rev # None /\ BootOrLoad(r, restore[r].rev, TRUE)
        BY <2>1, <2>3, <2>5, <3>3, BootStep DEF BlobRead, Stages
      <3>4. CASE restore[r].rev # None /\ MovesTo(r, "frames") /\ Keeps
        <4>1. restore[r].at \in Stages /\ "frames" \in Stages
          BY <2>5 DEF BlobRead, Stages
        <4>2. RestoreOK'
          BY <1>0, <3>4, <4>1, MovesStep DEF IInv
        <4>3. QED
          BY <2>3, <2>5, <3>4, <4>2, KeepsStep DEF BlobRead
      <3>5. QED
        BY <2>5, <3>1, <3>2, <3>3, <3>4 DEF BlobRead
    <2>6. CASE FrameTest(r)
      <3>1. CASE Ends(r) /\ Keeps
        BY <1>0, <2>3, <2>6, <3>1, EndsStep, KeepsStep DEF FrameTest
      <3>2. CASE BootOrLoad(r, restore[r].rev, TRUE)
        BY <2>1, <2>2, <2>3, <2>6, <3>2, BootStep DEF FrameTest, Stages, Past
      <3>3. QED
        BY <2>6, <3>1, <3>2 DEF FrameTest
    <2>7. CASE Booted(r)
      <3>1. CASE Overtaken(r)
        BY <1>0, <2>3, <2>7, <3>1, EndsStep, KeepsStep DEF Booted
      <3>2. CASE ~Overtaken(r)
        BY <2>1, <2>2, <2>3, <2>7, <3>2, LoadStep DEF Booted, Stages, Past
      <3>3. QED
        BY <3>1, <3>2
    <2>8. ASSUME DocOK', FaultsOK', RestoreOK',
                 UNCHANGED <<mem, pend, queue, host, loadEpoch,
                             tracked, entering, asked, saving>>
          PROVE  IInv'
      <3>1. BackOK'
        BY <1>0, <2>8 DEF BackOK
      <3>2. QED
        BY <1>0, <2>8, <3>1, Unmoved, Together
    <2>9. CASE LiftBytes(r)
      <3>1. CASE Succeeds /\ part' = [part EXCEPT !.bytes = Lifted(r)] /\ MovesTo(r, "liftName")
        <4>1. Lifted(r) \in Snapshots /\ Lifted(r).lifted
          BY <2>1, <2>2, <2>9 DEF LiftBytes, Lifted, Snapshots, Past
        <4>2. DocOK'
          BY <1>0, <2>9, <3>1, <4>1 DEF LiftBytes, DocOK, Parts, BytesStayHome
        <4>3. RestoreOK'
          BY <1>0, <2>2, <2>9, <3>1, MovesStep DEF IInv, LiftBytes, Stages, Past
        <4>4. QED
          BY <1>0, <2>8, <2>9, <3>1, <4>2, <4>3, FaultStep DEF LiftBytes
      <3>2. CASE Fails /\ Ends(r) /\ UNCHANGED part
        BY <1>0, <2>8, <2>9, <3>2, EndsStep, FaultStep, Unmoved DEF LiftBytes
      <3>3. QED
        BY <2>9, <3>1, <3>2 DEF LiftBytes
    <2>10. CASE LiftName(r)
      <3>1. DocOK'
        BY <1>0, <2>1, <2>10 DEF LiftName, DocOK, Parts, BytesStayHome
      <3>2. QED
        BY <1>0, <2>8, <2>10, <3>1, EndsStep, FaultStep DEF LiftName
    <2>11. QED
      BY <1>12, <2>4, <2>5, <2>6, <2>7, <2>9, <2>10 DEF RestoreStep
  <1>13. ASSUME NEW r \in Slots, EnsureRestored(r) PROVE IInv'
    <2>1. RestoreOK' /\ FaultsOK' /\ tracked' \in Slots
      <3>1. CASE UNCHANGED <<restore, tracked, faults>>
        BY <1>0, <3>1, Unmoved DEF RestoreOK, BytesFound, BackOK
      <3>2. CASE UNCHANGED <<loadEpoch, docEpoch>> /\ Begin(r, FALSE, part)
        BY <1>0, <3>2, BeginStep DEF EpochOK, DocOK
      <3>3. QED
        BY <1>13, <3>1, <3>2 DEF EnsureRestored
    <2>2. BackOK' /\ EpochOK' /\ DocOK'
      BY <1>0, <1>13, <2>1, Unmoved DEF EnsureRestored, BackOK
    <2>3. QED
      BY <1>0, <1>13, <2>1, <2>2, Unmoved, Together DEF EnsureRestored
  <1>14. ASSUME NEW r \in Slots, OpenDocument(r) PROVE IInv'
    <2>1. docEpoch' \in 0 .. MaxOpens /\ EpochOK'
      BY <1>0, <1>14, BoundsAssumption DEF OpenDocument, DocOK, EpochOK
    <2>2. part' \in Parts /\ (part'.bytes = None \/ part'.bytes.epoch = docEpoch')
      BY <1>14, <2>1, ContainerType DEF OpenDocument
    <2>3. DocOK'
      BY <2>1, <2>2 DEF DocOK, BytesStayHome
    <2>4. RestoreOK' /\ FaultsOK' /\ tracked' \in Slots
      BY <1>0, <1>14, <2>1, <2>2, BeginStep DEF OpenDocument
    <2>5. BackOK'
      BY <1>0, <1>14, <2>4 DEF OpenDocument, BackOK
    <2>6. MemOK' /\ PendOK' /\ SavingOK'
      BY <1>0, <1>14, PendStep DEF OpenDocument, MemOK, SavingOK
    <2>7. QED
      BY <1>0, <1>14, <2>1, <2>3, <2>4, <2>5, <2>6, Unmoved, Together DEF OpenDocument
  <1>15. ASSUME UNCHANGED vars PROVE IInv'
    BY <1>0, <1>15, Unmoved, Together DEF vars
  <1>16. QED
    BY <1>1, <1>2, <1>3, <1>4, <1>5, <1>6, <1>7, <1>8, <1>9, <1>10, <1>11,
       <1>12, <1>13, <1>14, <1>15 DEF Next, WriteStep

-----------------------------------------------------------------------------
(* TypeOK holds always: the shapes, and no armed timer without a mark      *)
(* (schedulePersist, cancelPendingPersist, flushPersist).                  *)
THEOREM TypeCorrect == Spec => []TypeOK
  <1>1. IInv => TypeOK
    BY DEF IInv
  <1>2. QED
    BY <1>1, Starts, Preserves, PTL DEF Spec

(* BytesStayHome holds always: no queued write puts another document's     *)
(* bytes into the container that is open (enqueueWrite's docEpoch).        *)
THEOREM BytesStayHomeCorrect == Spec => []BytesStayHome
  <1>1. IInv => BytesStayHome
    BY DEF IInv
  <1>2. QED
    BY <1>1, Starts, Preserves, PTL DEF Spec

-----------------------------------------------------------------------------
(* The order of revisions.  What is held is what storage, a restore or the *)
(* write under way may still bring back; what is queued is newer, in the   *)
(* order it was taken; an edit that is marked is newer than both.          *)
Held ==
    {Stored}
      \cup {part.bytes.rev : b \in {part.bytes} \ {None}}
      \cup ({blob} \ {None})
      \cup {writing.item.rev : w \in {writing} \ {None}}
      \cup ({restore[r].rev : r \in {s \in Slots : restore[s] # Idle}} \ {None})

Issued ==
    /\ \A h \in Held : h <= last
    /\ \A i \in 1 .. Len(chain) : chain[i].rev <= last
    /\ engine # None => engine <= last

Ascending ==
    /\ \A h \in Held, i \in 1 .. Len(chain) : h < chain[i].rev
    /\ \A i, j \in 1 .. Len(chain) : i < j => chain[i].rev < chain[j].rev

MarkedNewest ==
    dirty => /\ \A h \in Held : h < engine
             /\ \A i \in 1 .. Len(chain) : chain[i].rev < engine

(* A restore of the latest load can still answer only where no workbook is *)
(* shown; where there is none, nothing is marked.                          *)
RestoresBehind ==
    /\ engine = None => sheetless /\ ~dirty
    /\ \A r \in Slots : restore[r] # Idle =>
         /\ restore[r].epoch <= loadEpoch
         /\ restore[r].epoch = loadEpoch => sheetless

Holds(rev) ==
    part.bytes # None /\ (part.bytes.lifted \/ part.bytes.rev >= rev)

(* An edited workbook without a mark is the last one queued, or written.   *)
OnItsWay ==
    edited /\ engine # None /\ ~dirty =>
      IF chain = <<>> THEN lost \/ Holds(engine)
      ELSE chain[Len(chain)] = Snapshot(engine, docEpoch)

(* What a save waits for is queued, or everything queued is newer and the  *)
(* container has it.                                                       *)
Awaited ==
    \E i \in 1 .. Len(chain) :
        chain[i] = Snapshot(saving.rev, docEpoch) /\ saving.awaits = saving.rev
Arrived ==
    /\ \A i \in 1 .. Len(chain) : saving.rev < chain[i].rev
    /\ lost \/ Holds(saving.rev)

SaveCovered ==
    saving # None =>
      /\ saving.rev <= last
      /\ ~saving.failed => /\ dirty => saving.rev < engine
                           /\ saving.rev # Blank => Awaited \/ Arrived

Order ==
    /\ Issued /\ Ascending /\ MarkedNewest
    /\ RestoresBehind /\ OnItsWay /\ SaveCovered

-----------------------------------------------------------------------------
(* What is held. *)

LEMMA HeldTyped == IInv => Held \subseteq Revs
  <1> SUFFICES ASSUME IInv PROVE Held \subseteq Revs
    OBVIOUS
  <1>1. part.bytes # None => part.bytes.rev \in Revs
    BY DEF IInv, TypeOK, Snapshots
  <1>2. writing # None => writing.item.rev \in Revs
    BY DEF IInv, TypeOK, Snapshots
  <1>3. \A r \in Slots : restore[r] # Idle => restore[r].rev \in Revs \cup {None}
    BY DEF IInv, TypeOK, Restores
  <1>4. blob # None => blob \in Revs
    BY DEF IInv, TypeOK
  <1>5. QED
    BY <1>1, <1>2, <1>3, <1>4, Distinguished DEF Held

LEMMA HeldHas ==
    /\ Stored \in Held
    /\ part.bytes # None => part.bytes.rev \in Held
    /\ blob # None => blob \in Held
    /\ writing # None => writing.item.rev \in Held
    /\ \A r \in Slots : restore[r] # Idle => restore[r].rev \in Held \cup {None}
  BY DEF Held

LEMMA HeldWithin ==
    ASSUME NEW S, Stored \in S,
           part'.bytes # None => part'.bytes.rev \in S,
           blob' # None => blob' \in S,
           writing' # None => writing'.item.rev \in S,
           \A r \in Slots : restore'[r] # Idle => restore'[r].rev \in S \cup {None}
    PROVE  Held' \subseteq S
  BY DEF Held

(* A slot takes a restore of the same load whose bytes are held already.   *)
Slid(r, b) ==
    /\ restore' = [restore EXCEPT ![r] = b]
    /\ b # Idle => b.epoch = restore[r].epoch /\ b.rev \in Held \cup {None}

LEMMA SlidHeld ==
    ASSUME restore \in [Slots -> Restores], NEW r \in Slots, NEW b,
           restore' = [restore EXCEPT ![r] = b],
           b # Idle => b.rev \in Held \cup {None}
    PROVE  \A s \in Slots : restore'[s] # Idle => restore'[s].rev \in Held \cup {None}
  BY HeldHas

(* Idle is at no stage. *)
LEMMA NotIdle == ASSUME NEW r, restore[r].at \in Stages PROVE restore[r] # Idle
  BY DEF Stages, Idle

-----------------------------------------------------------------------------
(* Steps of a restore, as the order of revisions sees them. *)

(* The bytes of the restore are in memory now. *)
Loaded(r) ==
    /\ ~Overtaken(r) /\ last' = last
    /\ engine' \in Held /\ edited' = FALSE /\ sheetless' = FALSE
    /\ loadEpoch' = loadEpoch + 1 /\ dirty' = FALSE

Rests == UNCHANGED <<mem, dirty, loadEpoch>>

(* Nothing moves, the load throws, or the bytes are loaded. *)
Outcome(r) == Rests \/ (LoadThrows /\ last' = last) \/ Loaded(r)

LEMMA LoadShape ==
    ASSUME IInv, NEW r \in Slots, restore[r].at \in Stages, ~Overtaken(r),
           NEW rev \in Held, NEW fromBlob, Load(r, rev, fromBlob)
    PROVE  Outcome(r) /\ \E b : Slid(r, b)
  <1>1. Outcome(r)
    BY DEF Load, LoadThrows, Outcome, Loaded, CancelPersist
  <1>2. CASE Ends(r)
    <2>1. Slid(r, Idle)
      BY <1>2 DEF Ends, Slid
    <2>2. QED
      BY <1>1, <2>1
  <1>3. CASE restore' = [restore EXCEPT ![r] = [@ EXCEPT !.at = "lift", !.rev = rev]]
    <2> DEFINE b == [restore[r] EXCEPT !.at = "lift", !.rev = rev]
    <2>1. restore[r] \in Busy
      BY BusyType DEF IInv
    <2>2. b.epoch = restore[r].epoch /\ b.rev = rev
      BY <2>1 DEF Busy
    <2>3. Slid(r, b)
      BY <1>3, <2>2 DEF Slid
    <2>4. QED
      BY <1>1, <2>3
  <1>4. QED
    BY <1>2, <1>3 DEF Load, Ends

LEMMA BootShape ==
    ASSUME IInv, NEW r \in Slots, restore[r].at \in Stages,
           NEW rev \in Held, NEW fromBlob \in BOOLEAN, BootOrLoad(r, rev, fromBlob)
    PROVE  Outcome(r) /\ \E b : Slid(r, b)
  <1>1. CASE Ends(r) /\ Keeps
    <2>1. Slid(r, Idle)
      BY <1>1 DEF Ends, Slid
    <2>2. QED
      BY <1>1, <2>1 DEF Keeps, Outcome, Rests, pend
  <1>2. CASE /\ restore' = [restore EXCEPT
                  ![r] = [@ EXCEPT !.at = "boot", !.rev = rev, !.fromBlob = fromBlob]]
             /\ Keeps
    <2> DEFINE b == [restore[r] EXCEPT !.at = "boot", !.rev = rev, !.fromBlob = fromBlob]
    <2>1. restore[r] \in Busy
      BY BusyType DEF IInv
    <2>2. b.epoch = restore[r].epoch /\ b.rev = rev
      BY <2>1 DEF Busy
    <2>3. Slid(r, b)
      BY <1>2, <2>2 DEF Slid
    <2>4. QED
      BY <1>2, <2>3 DEF Keeps, Outcome, Rests, pend
  <1>3. CASE ~Overtaken(r) /\ Load(r, rev, fromBlob)
    BY <1>3, LoadShape
  <1>4. QED
    BY <1>1, <1>2, <1>3 DEF BootOrLoad

LEMMA MovesShape ==
    ASSUME IInv, NEW r \in Slots, restore[r].at \in Stages, NEW at, MovesTo(r, at)
    PROVE  \E b : Slid(r, b)
  <1> DEFINE b == [restore[r] EXCEPT !.at = at]
  <1>1. restore[r] \in Busy
    BY BusyType DEF IInv
  <1>2. b.epoch = restore[r].epoch /\ b.rev = restore[r].rev
    BY <1>1 DEF Busy
  <1>3. restore[r].rev \in Held \cup {None}
    BY HeldHas, NotIdle
  <1>4. Slid(r, b)
    BY <1>2, <1>3 DEF MovesTo, Slid
  <1>5. QED
    BY <1>4

LEMMA EndsShape == ASSUME NEW r, Ends(r) PROVE \E b : Slid(r, b)
  <1>1. Slid(r, Idle)
    BY DEF Ends, Slid
  <1>2. QED
    BY <1>1

(* A restore moves within its slot; the container takes nothing but a lift *)
(* of bytes that are held, while memory rests.                             *)
Lifts ==
    \/ part'.bytes = part.bytes
    \/ /\ Rests
       /\ part'.bytes # None /\ part'.bytes.lifted /\ part'.bytes.rev \in Held

LEMMA RestoreShape ==
    ASSUME IInv, NEW r \in Slots, RestoreStep(r)
    PROVE  /\ UNCHANGED <<queue, docEpoch, host, saving>>
           /\ Outcome(r) /\ Lifts
           /\ \E b : Slid(r, b)
  <1>0. /\ restore[r].at \in Stages
        /\ restore[r].rev \in Held \cup {None}
        /\ restore[r].at \in Past => restore[r].rev # None
    <2>1. restore[r].at \in Stages
      BY DEF RestoreStep, PartRead, BlobRead, FrameTest, Booted, LiftBytes, LiftName, Stages
    <2>2. QED
      BY <2>1, HeldHas, NotIdle DEF IInv, BytesFound, Past
  <1>1. CASE PartRead(r)
    <2>1. UNCHANGED <<queue, docEpoch, host, saving, part>>
      BY <1>1 DEF PartRead, RestoreFrame, doc
    <2>2. Outcome(r) /\ \E b : Slid(r, b)
      <3>1. CASE restore[r].rev # None
        BY <1>0, <1>1, <3>1, BootShape DEF PartRead
      <3>2. CASE restore[r].rev = None
        <4>1. Outcome(r)
          BY <1>1, <3>2 DEF PartRead, Keeps, Outcome, Rests, pend
        <4>2. CASE Ends(r)
          BY <4>1, <4>2, EndsShape
        <4>3. CASE restore' = [restore EXCEPT ![r] = [@ EXCEPT !.at = "blob", !.rev = blob]]
          <5> DEFINE b == [restore[r] EXCEPT !.at = "blob", !.rev = blob]
          <5>1. restore[r] \in Busy
            BY <1>0, BusyType DEF IInv
          <5>2. b.epoch = restore[r].epoch /\ b.rev = blob
            BY <5>1 DEF Busy
          <5>3. Slid(r, b)
            BY <4>3, <5>2, HeldHas DEF Slid
          <5>4. QED
            BY <4>1, <5>3
        <4>4. QED
          BY <1>1, <3>2, <4>2, <4>3 DEF PartRead
      <3>3. QED
        BY <3>1, <3>2
    <2>3. QED
      BY <2>1, <2>2 DEF Lifts
  <1>2. CASE BlobRead(r)
    <2>1. UNCHANGED <<queue, docEpoch, host, saving, part>>
      BY <1>2 DEF BlobRead, RestoreFrame, doc
    <2>2. Outcome(r) /\ \E b : Slid(r, b)
      <3>1. CASE Ends(r) /\ UNCHANGED <<mem, pend, loadEpoch>>
        BY <3>1, EndsShape DEF Outcome, Rests, pend
      <3>2. CASE restore[r].rev # None /\ BootOrLoad(r, restore[r].rev, TRUE)
        BY <1>0, <3>2, BootShape
      <3>3. CASE MovesTo(r, "frames") /\ Keeps
        BY <1>0, <3>3, MovesShape DEF Keeps, Outcome, Rests, pend
      <3>4. QED
        BY <1>2, <3>1, <3>2, <3>3 DEF BlobRead, Keeps
    <2>3. QED
      BY <2>1, <2>2 DEF Lifts
  <1>3. CASE FrameTest(r)
    <2>1. UNCHANGED <<queue, docEpoch, host, saving, part>>
      BY <1>3 DEF FrameTest, RestoreFrame, doc
    <2>2. Outcome(r) /\ \E b : Slid(r, b)
      <3>1. CASE Ends(r) /\ Keeps
        BY <3>1, EndsShape DEF Keeps, Outcome, Rests, pend
      <3>2. CASE BootOrLoad(r, restore[r].rev, TRUE)
        BY <1>0, <1>3, <3>2, BootShape DEF FrameTest, Past
      <3>3. QED
        BY <1>3, <3>1, <3>2 DEF FrameTest
    <2>3. QED
      BY <2>1, <2>2 DEF Lifts
  <1>4. CASE Booted(r)
    <2>1. UNCHANGED <<queue, docEpoch, host, saving, part>>
      BY <1>4 DEF Booted, RestoreFrame, doc
    <2>2. Outcome(r) /\ \E b : Slid(r, b)
      <3>1. CASE Overtaken(r)
        BY <1>4, <3>1, EndsShape DEF Booted, Keeps, Outcome, Rests, pend
      <3>2. CASE ~Overtaken(r)
        BY <1>0, <1>4, <3>2, LoadShape DEF Booted, Past
      <3>3. QED
        BY <3>1, <3>2
    <2>3. QED
      BY <2>1, <2>2 DEF Lifts
  <1>5. CASE LiftBytes(r)
    <2>1. UNCHANGED <<queue, docEpoch, host, saving>> /\ Rests
      BY <1>5 DEF LiftBytes, Rests, pend
    <2>2. \E b : Slid(r, b)
      BY <1>0, <1>5, MovesShape, EndsShape DEF LiftBytes
    <2>3. Lifts
      <3>1. CASE UNCHANGED part
        BY <3>1 DEF Lifts
      <3>2. CASE part' = [part EXCEPT !.bytes = Lifted(r)]
        <4>1. part'.bytes = Lifted(r) /\ Lifted(r) \in Snapshots
          <5>1. restore[r] \in Busy /\ restore[r].rev # None
            BY <1>0, <1>5, BusyType DEF IInv, LiftBytes, Past
          <5>2. Lifted(r) \in Snapshots
            BY <5>1 DEF Lifted, Snapshots, Busy
          <5>3. QED
            BY <3>2, <5>2 DEF IInv, TypeOK
        <4>2. Lifted(r).lifted /\ Lifted(r).rev \in Held
          BY <1>0, <1>5 DEF Lifted, LiftBytes, Past
        <4>3. QED
          BY <2>1, <4>1, <4>2, NoneAssumption DEF Lifts
      <3>3. QED
        BY <1>5, <3>1, <3>2 DEF LiftBytes
    <2>4. QED
      BY <2>1, <2>2, <2>3 DEF Outcome
  <1>6. CASE LiftName(r)
    <2>1. UNCHANGED <<queue, docEpoch, host, saving>> /\ Rests
      BY <1>6 DEF LiftName, Rests, pend
    <2>2. part'.bytes = part.bytes
      BY <1>6 DEF LiftName, IInv, TypeOK
    <2>3. QED
      BY <1>6, <2>1, <2>2, EndsShape DEF LiftName, Outcome, Lifts
  <1>7. QED
    BY <1>1, <1>2, <1>3, <1>4, <1>5, <1>6 DEF RestoreStep

(* A restore holds on to nothing that was not held. *)
LEMMA RestoreHeld ==
    ASSUME IInv, NEW r \in Slots, RestoreStep(r)
    PROVE  Held' \subseteq Held
  <1>1. PICK b : Slid(r, b)
    BY RestoreShape
  <1>2. \A s \in Slots : restore'[s] # Idle => restore'[s].rev \in Held \cup {None}
    BY <1>1, SlidHeld DEF Slid, IInv, TypeOK
  <1>3. part'.bytes # None => part'.bytes.rev \in Held
    BY RestoreShape, HeldHas DEF Lifts
  <1>4. blob' = blob /\ writing' = writing
    BY RestoreShape DEF queue, host
  <1>5. QED
    BY <1>2, <1>3, <1>4, HeldHas, HeldWithin

-----------------------------------------------------------------------------
(* How the queue moves. *)
Revisions == Issued /\ Ascending /\ MarkedNewest

LEMMA FirstOut ==
    ASSUME chain \in Seq(Snapshots), chain # <<>>
    PROVE  /\ Head(chain) = chain[1] /\ Head(chain) \in Snapshots
           /\ Len(chain) \in Nat /\ Len(chain) >= 1 /\ Len(Tail(chain)) = Len(chain) - 1
           /\ \A i \in 1 .. Len(Tail(chain)) :
                i + 1 \in 1 .. Len(chain) /\ Tail(chain)[i] = chain[i + 1]
  OBVIOUS

LEMMA LastIn ==
    ASSUME chain \in Seq(Snapshots), NEW item \in Snapshots
    PROVE  /\ Len(chain) \in Nat /\ Len(Append(chain, item)) = Len(chain) + 1
           /\ Append(chain, item) # <<>>
           /\ Append(chain, item)[Len(chain) + 1] = item
           /\ \A i \in 1 .. Len(chain) : Append(chain, item)[i] = chain[i]
  OBVIOUS

LEMMA ChainTyped ==
    IInv => /\ chain \in Seq(Snapshots) /\ Len(chain) \in Nat
            /\ \A i \in 1 .. Len(chain) : chain[i] \in Snapshots /\ chain[i].rev \in Nat
            /\ last \in Nat /\ Held \subseteq Nat
            /\ (engine # None => engine \in Nat)
            /\ (saving # None => saving.rev \in Nat)
  <1> SUFFICES ASSUME IInv
               PROVE  /\ chain \in Seq(Snapshots) /\ Len(chain) \in Nat
                      /\ \A i \in 1 .. Len(chain) : chain[i] \in Snapshots /\ chain[i].rev \in Nat
                      /\ last \in Nat /\ Held \subseteq Nat
                      /\ (engine # None => engine \in Nat)
                      /\ (saving # None => saving.rev \in Nat)
    OBVIOUS
  <1>1. Revs \subseteq Nat
    BY BoundsAssumption DEF Revs, Blank
  <1>2. chain \in Seq(Snapshots)
    BY DEF IInv, TypeOK
  <1>3. \A s \in Snapshots : s.rev \in Nat
    BY <1>1 DEF Snapshots
  <1>4. last \in Nat /\ (engine # None => engine \in Nat)
    BY <1>1 DEF IInv, TypeOK
  <1>5. saving # None => saving.rev \in Nat
    BY <1>1 DEF IInv, TypeOK
  <1>6. Len(chain) \in Nat /\ \A i \in 1 .. Len(chain) : chain[i] \in Snapshots
    BY <1>2
  <1>7. Held \subseteq Nat
    BY <1>1, HeldTyped
  <1>8. \A i \in 1 .. Len(chain) : chain[i].rev \in Nat
    BY <1>3, <1>6
  <1>9. QED
    BY <1>2, <1>4, <1>5, <1>6, <1>7, <1>8

(* Nothing is queued: what is held, the queue and memory only fall away or *)
(* go back.                                                                *)
LEMMA RevisionsKept ==
    ASSUME IInv, Revisions, Held' \subseteq Held,
           UNCHANGED chain, UNCHANGED last,
           engine' # None => engine' <= last,
           dirty' => dirty /\ engine' = engine
    PROVE  Revisions'
  BY ChainTyped DEF Revisions, Issued, Ascending, MarkedNewest

(* The first of the queue goes, and may be held from then on.              *)
LEMMA RevisionsTaken ==
    ASSUME IInv, Revisions, chain # <<>>, chain' = Tail(chain),
           Held' \subseteq Held \cup {Head(chain).rev},
           UNCHANGED mem, UNCHANGED dirty
    PROVE  Revisions'
  <1>0. /\ last' = last /\ engine' = engine /\ dirty' = dirty
    BY DEF mem
  <1>1. /\ Head(chain) = chain[1] /\ Len(chain) \in Nat /\ Len(chain) >= 1
        /\ Len(chain') = Len(chain) - 1 /\ 1 \in 1 .. Len(chain)
        /\ \A i \in 1 .. Len(chain') : i + 1 \in 1 .. Len(chain) /\ chain'[i] = chain[i + 1]
    BY ChainTyped, FirstOut
  <1>2. \A h \in Held' : h \in Held \/ h = chain[1].rev
    BY <1>1
  <1>3. Issued'
    BY <1>0, <1>1, <1>2, ChainTyped DEF Revisions, Issued
  <1>4. Ascending'
    <2>1. \A h \in Held', i \in 1 .. Len(chain') : h < chain'[i].rev
      <3> SUFFICES ASSUME NEW h \in Held', NEW i \in 1 .. Len(chain') PROVE h < chain'[i].rev
        OBVIOUS
      <3>1. i + 1 \in 1 .. Len(chain) /\ chain'[i] = chain[i + 1] /\ 1 < i + 1
        BY <1>1
      <3>2. CASE h \in Held
        BY <3>1, <3>2 DEF Revisions, Ascending
      <3>3. CASE h = chain[1].rev
        BY <1>1, <3>1, <3>3 DEF Revisions, Ascending
      <3>4. QED
        BY <1>2, <3>2, <3>3
    <2>2. \A i, j \in 1 .. Len(chain') : i < j => chain'[i].rev < chain'[j].rev
      <3> SUFFICES ASSUME NEW i \in 1 .. Len(chain'), NEW j \in 1 .. Len(chain'), i < j
                   PROVE  chain'[i].rev < chain'[j].rev
        OBVIOUS
      <3>1. /\ i + 1 \in 1 .. Len(chain) /\ j + 1 \in 1 .. Len(chain) /\ i + 1 < j + 1
            /\ chain'[i] = chain[i + 1] /\ chain'[j] = chain[j + 1]
        BY <1>1
      <3>2. QED
        BY <3>1 DEF Revisions, Ascending
    <2>3. QED
      BY <2>1, <2>2 DEF Ascending
  <1>5. MarkedNewest'
    BY <1>0, <1>1, <1>2 DEF Revisions, MarkedNewest
  <1>6. QED
    BY <1>3, <1>4, <1>5 DEF Revisions

(* A revision past all others is queued.                                   *)
LEMMA RevisionsQueued ==
    ASSUME IInv, Revisions, Held' \subseteq Held, NEW item \in Snapshots,
           chain' = Append(chain, item),
           \A h \in Held : h < item.rev,
           \A i \in 1 .. Len(chain) : chain[i].rev < item.rev,
           last' \in Nat, last <= last', engine' = item.rev, item.rev <= last', ~dirty'
    PROVE  Revisions'
  <1>1. /\ Len(chain) \in Nat /\ Len(chain') = Len(chain) + 1
        /\ chain'[Len(chain) + 1] = item
        /\ \A i \in 1 .. Len(chain) : chain'[i] = chain[i]
    BY ChainTyped, LastIn
  <1>2. \A i \in 1 .. Len(chain') :
           \/ i \in 1 .. Len(chain) /\ chain'[i] = chain[i]
           \/ i = Len(chain) + 1 /\ chain'[i] = item
    BY <1>1
  <1>3. Issued'
    <2>1. \A h \in Held' : h <= last'
      BY ChainTyped DEF Revisions, Issued
    <2>2. \A i \in 1 .. Len(chain') : chain'[i].rev <= last'
      BY <1>2, ChainTyped DEF Revisions, Issued
    <2>3. QED
      BY <2>1, <2>2 DEF Issued
  <1>4. Ascending'
    <2>1. \A h \in Held', i \in 1 .. Len(chain') : h < chain'[i].rev
      BY <1>2 DEF Revisions, Ascending
    <2>2. \A i, j \in 1 .. Len(chain') : i < j => chain'[i].rev < chain'[j].rev
      <3> SUFFICES ASSUME NEW i \in 1 .. Len(chain'), NEW j \in 1 .. Len(chain'), i < j
                   PROVE  chain'[i].rev < chain'[j].rev
        OBVIOUS
      <3>1. i \in 1 .. Len(chain) /\ chain'[i] = chain[i]
        BY <1>1
      <3>2. CASE j \in 1 .. Len(chain)
        BY <1>1, <3>1, <3>2 DEF Revisions, Ascending
      <3>3. CASE j = Len(chain) + 1
        BY <1>1, <3>1, <3>3
      <3>4. QED
        BY <1>1, <3>2, <3>3
    <2>3. QED
      BY <2>1, <2>2 DEF Ascending
  <1>5. QED
    BY <1>3, <1>4 DEF Revisions, MarkedNewest

(* A revision is issued and not queued.                                    *)
LEMMA RevisionsIssued ==
    ASSUME IInv, Revisions, Held' \subseteq Held, UNCHANGED chain, NewRevision
    PROVE  Revisions'
  <1>1. last' = last + 1 /\ engine' = last + 1 /\ last \in Nat
    BY ChainTyped DEF NewRevision
  <1>2. \A h \in Held' : h <= last /\ h \in Nat
    BY ChainTyped DEF Revisions, Issued
  <1>3. \A i \in 1 .. Len(chain) : chain[i].rev <= last /\ chain[i].rev \in Nat
    BY ChainTyped DEF Revisions, Issued
  <1>4. Issued'
    BY <1>1, <1>2, <1>3 DEF Issued
  <1>5. Ascending'
    BY DEF Revisions, Ascending
  <1>6. MarkedNewest'
    BY <1>1, <1>2, <1>3 DEF MarkedNewest
  <1>7. QED
    BY <1>4, <1>5, <1>6 DEF Revisions

(* The flush queues the marked workbook, or leaves everything as it was.   *)
FlushQueues ==
    /\ dirty /\ engine # None /\ ~dirty' /\ ~timer'
    /\ chain' = Append(chain, Snapshot(engine, docEpoch))
FlushRests == UNCHANGED chain /\ (dirty' <=> dirty /\ engine # None) /\ ~timer'

LEMMA FlushShape == IInv /\ FlushPersist => FlushQueues \/ FlushRests
  BY DEF FlushPersist, FlushQueues, FlushRests, CancelPersist, IInv, TypeOK

LEMMA RevisionsFlushed ==
    ASSUME IInv, Revisions, Held' \subseteq Held, UNCHANGED mem, FlushPersist
    PROVE  Revisions'
  <1>0. last' = last /\ engine' = engine
    BY DEF mem
  <1>1. CASE FlushRests
    BY <1>0, <1>1, RevisionsKept DEF FlushRests, Revisions, Issued
  <1>2. CASE FlushQueues
    <2> DEFINE item == Snapshot(engine, docEpoch)
    <2>1. item \in Snapshots /\ item.rev = engine
      <3>1. engine \in Revs /\ docEpoch \in 0 .. MaxOpens
        BY <1>2 DEF IInv, TypeOK, FlushQueues
      <3>2. QED
        BY <3>1, SnapshotType DEF Snapshot
    <2>2. /\ \A h \in Held : h < item.rev
          /\ \A i \in 1 .. Len(chain) : chain[i].rev < item.rev
      BY <1>2, <2>1 DEF FlushQueues, Revisions, MarkedNewest
    <2>3. last' \in Nat /\ last <= last' /\ item.rev <= last' /\ engine' = item.rev
      BY <1>0, <1>2, <2>1, ChainTyped DEF FlushQueues, Revisions, Issued
    <2> HIDE DEF item
    <2>4. chain' = Append(chain, item) /\ ~dirty'
      BY <1>2 DEF FlushQueues, item
    <2>5. QED
      BY <2>1, <2>2, <2>3, <2>4, RevisionsQueued
  <1>3. QED
    BY <1>1, <1>2, FlushShape

-----------------------------------------------------------------------------
(* The parts of the order that a save and a restore stand on. *)

(* The container keeps its bytes, or takes a lift. *)
Keeper ==
    \/ lost' = lost /\ part'.bytes = part.bytes
    \/ part'.bytes # None /\ part'.bytes.lifted

LEMMA WayKept ==
    ASSUME OnItsWay, Keeper, UNCHANGED <<chain, docEpoch>>,
           edited' /\ engine' # None /\ ~dirty'
             => edited /\ engine # None /\ ~dirty /\ engine' = engine
    PROVE  OnItsWay'
  <1> SUFFICES ASSUME edited' /\ engine' # None /\ ~dirty'
               PROVE  IF chain' = <<>> THEN lost' \/ Holds(engine)'
                      ELSE chain'[Len(chain')] = Snapshot(engine, docEpoch)'
    BY DEF OnItsWay
  <1>1. /\ edited /\ engine # None /\ ~dirty /\ engine' = engine
        /\ chain' = chain /\ docEpoch' = docEpoch
    OBVIOUS
  <1>2. CASE chain = <<>>
    BY <1>1, <1>2 DEF OnItsWay, Keeper, Holds
  <1>3. CASE chain # <<>>
    BY <1>1, <1>3 DEF OnItsWay, Snapshot
  <1>4. QED
    BY <1>2, <1>3

LEMMA SaveKept ==
    ASSUME IInv, SaveCovered, Keeper, UNCHANGED <<chain, docEpoch>>,
           saving' \in {saving, None}, last' \in Nat, last <= last',
           dirty' => (dirty /\ engine' = engine) \/ (engine' \in Nat /\ engine' > last)
    PROVE  SaveCovered'
  <1> SUFFICES ASSUME saving' # None, saving' = saving, saving # None
               PROVE  SaveCovered'
    BY DEF SaveCovered
  <1>1. saving.rev \in Nat /\ last \in Nat /\ saving.rev <= last
    BY ChainTyped DEF SaveCovered
  <1>2. Awaited => Awaited'
    BY DEF Awaited, Snapshot
  <1>3. Arrived => Arrived'
    BY DEF Arrived, Keeper, Holds
  <1>4. dirty' => (~saving.failed => saving.rev < engine')
    <2>1. SUFFICES ASSUME dirty', ~saving.failed PROVE saving.rev < engine'
      OBVIOUS
    <2>2. CASE dirty /\ engine' = engine
      BY <2>1, <2>2 DEF SaveCovered
    <2>3. CASE engine' \in Nat /\ engine' > last
      BY <1>1, <2>3
    <2>4. QED
      BY <2>1, <2>2, <2>3
  <1>5. QED
    BY <1>1, <1>2, <1>3, <1>4 DEF SaveCovered

LEMMA OrderRests ==
    ASSUME IInv, Order, Held' \subseteq Held, Keeper,
           UNCHANGED <<mem, dirty, chain, docEpoch, loadEpoch>>,
           saving' \in {saving, None},
           \A s \in Slots : restore'[s] # Idle =>
             /\ restore'[s].epoch <= loadEpoch
             /\ restore'[s].epoch = loadEpoch => sheetless
    PROVE  Order'
  <1>1. Revisions'
    <2>1. /\ engine' = engine /\ last' = last /\ chain' = chain /\ dirty' = dirty
          /\ (engine # None => engine <= last)
      BY DEF mem, Order, Issued
    <2>2. QED
      BY <2>1, RevisionsKept DEF Order, Revisions
  <1>2. RestoresBehind'
    BY DEF mem, Order, RestoresBehind
  <1>3. OnItsWay'
    BY WayKept DEF mem, Order
  <1>4. SaveCovered'
    BY SaveKept, ChainTyped DEF mem, Order
  <1>5. QED
    BY <1>1, <1>2, <1>3, <1>4 DEF Order, Revisions

(* Everything at a save that was queued later is newer.                    *)
LEMMA SaveQueued ==
    ASSUME IInv, SaveCovered, UNCHANGED <<saving, docEpoch, lost, part>>,
           NEW item \in Snapshots, chain' = Append(chain, item),
           saving # None /\ ~saving.failed => saving.rev < item.rev,
           last' \in Nat, last <= last', ~dirty'
    PROVE  SaveCovered'
  <1> SUFFICES ASSUME saving # None PROVE SaveCovered'
    BY DEF SaveCovered
  <1>1. /\ Len(chain) \in Nat /\ Len(chain') = Len(chain) + 1
        /\ chain'[Len(chain) + 1] = item
        /\ \A i \in 1 .. Len(chain) : chain'[i] = chain[i] /\ i \in 1 .. Len(chain')
        /\ \A i \in 1 .. Len(chain') : i \in 1 .. Len(chain) \/ i = Len(chain) + 1
    BY ChainTyped, LastIn
  <1>2. saving.rev <= last'
    BY ChainTyped DEF SaveCovered
  <1>3. Awaited => Awaited'
    BY <1>1 DEF Awaited, Snapshot
  <1>4. Arrived /\ ~saving.failed => Arrived'
    BY <1>1 DEF Arrived, Holds
  <1>5. QED
    BY <1>2, <1>3, <1>4 DEF SaveCovered

(* A flush in a memory that rests. *)
LEMMA OrderFlushed ==
    ASSUME IInv, Order, FlushPersist,
           UNCHANGED <<mem, writing, lost, doc, host, loadEpoch, back, saving>>
    PROVE  Order'
  <1>0. /\ engine' = engine /\ last' = last /\ edited' = edited /\ sheetless' = sheetless
        /\ docEpoch' = docEpoch /\ part' = part /\ lost' = lost /\ restore' = restore
        /\ writing' = writing /\ blob' = blob /\ saving' = saving /\ loadEpoch' = loadEpoch
    BY DEF mem, doc, host, back
  <1>1. Held' \subseteq Held
    BY <1>0 DEF Held
  <1>2. Revisions'
    BY <1>1, RevisionsFlushed DEF Order, Revisions
  <1>3. RestoresBehind'
    BY <1>0, FlushShape DEF Order, RestoresBehind, FlushQueues, FlushRests
  <1>4. CASE FlushRests
    <2>1. OnItsWay'
      BY <1>0, <1>4, WayKept DEF Order, FlushRests, Keeper
    <2>2. SaveCovered'
      BY <1>0, <1>4, SaveKept, ChainTyped DEF Order, FlushRests, Keeper
    <2>3. QED
      BY <1>2, <1>3, <2>1, <2>2 DEF Order, Revisions
  <1>5. CASE FlushQueues
    <2>1. Snapshot(engine, docEpoch) \in Snapshots
      BY <1>5, SnapshotType DEF FlushQueues, IInv, TypeOK
    <2>2. chain' # <<>> /\ chain'[Len(chain')] = Snapshot(engine, docEpoch)
      BY <1>5, <2>1, ChainTyped, LastIn DEF FlushQueues
    <2>3. OnItsWay'
      BY <1>0, <2>2 DEF OnItsWay, Snapshot
    <2>4. saving # None /\ ~saving.failed => saving.rev < Snapshot(engine, docEpoch).rev
      BY <1>5 DEF Order, SaveCovered, FlushQueues, Snapshot
    <2>5. SaveCovered'
      <3> DEFINE item == Snapshot(engine, docEpoch)
      <3>1. /\ item \in Snapshots /\ chain' = Append(chain, item) /\ ~dirty'
            /\ (saving # None /\ ~saving.failed => saving.rev < item.rev)
        BY <1>5, <2>1, <2>4 DEF FlushQueues
      <3> HIDE DEF item
      <3>2. last' \in Nat /\ last <= last'
        BY <1>0, ChainTyped
      <3>3. QED
        BY <1>0, <3>1, <3>2, SaveQueued DEF Order
    <2>6. QED
      BY <1>2, <1>3, <2>3, <2>5 DEF Order, Revisions
  <1>6. QED
    BY <1>4, <1>5, FlushShape

(* The hook takes what is in memory: it has just been queued, or it is the *)
(* last in the queue, or the container has it.                             *)
LEMMA OrderAsked ==
    ASSUME IInv, Order, WillSave
    PROVE  Order'
  <1>0. /\ engine' = engine /\ last' = last /\ edited' = edited /\ sheetless' = sheetless
        /\ docEpoch' = docEpoch /\ part' = part /\ lost' = lost /\ restore' = restore
        /\ writing' = writing /\ blob' = blob /\ loadEpoch' = loadEpoch /\ saving = None
    BY DEF WillSave, mem, doc, host, back
  <1>1. Held' \subseteq Held
    BY <1>0 DEF Held
  <1>2. Revisions'
    BY <1>1, RevisionsFlushed DEF Order, Revisions, WillSave
  <1>3. RestoresBehind'
    BY <1>0, FlushShape DEF Order, RestoresBehind, FlushQueues, FlushRests, WillSave
  <1>4. /\ saving'.rev = IF edited /\ engine # None THEN engine ELSE Blank
        /\ saving'.awaits = Tip(chain') /\ saving'.failed = dirty'
    BY DEF WillSave
  <1>5. saving'.rev <= last'
    BY <1>0, <1>4, ChainTyped DEF Order, Issued, Blank
  <1>6. OnItsWay'
    <2>1. CASE FlushRests
      BY <1>0, <2>1, WayKept DEF Order, FlushRests, Keeper
    <2>2. CASE FlushQueues
      <3>1. Snapshot(engine, docEpoch) \in Snapshots
        BY <2>2, SnapshotType DEF FlushQueues, IInv, TypeOK
      <3>2. chain' # <<>> /\ chain'[Len(chain')] = Snapshot(engine, docEpoch)
        BY <2>2, <3>1, ChainTyped, LastIn DEF FlushQueues
      <3>3. QED
        BY <1>0, <3>2 DEF OnItsWay, Snapshot
    <2>3. QED
      BY <2>1, <2>2, FlushShape DEF WillSave
  <1>7. ASSUME ~dirty', saving'.rev # Blank PROVE Awaited' \/ Arrived'
    <2>1. edited /\ engine # None /\ saving'.rev = engine
      BY <1>4, <1>7
    <2>2. CASE chain' = <<>>
      BY <1>0, <1>6, <1>7, <2>1, <2>2 DEF OnItsWay, Arrived, Holds
    <2>3. CASE chain' # <<>>
      <3>1. chain'[Len(chain')] = Snapshot(engine, docEpoch)
        BY <1>0, <1>6, <1>7, <2>1, <2>3 DEF OnItsWay, Snapshot
      <3>2. Len(chain') \in 1 .. Len(chain')
        <4>1. CASE FlushRests
          BY <2>3, <4>1, ChainTyped DEF FlushRests
        <4>2. CASE FlushQueues
          <5>1. Snapshot(engine, docEpoch) \in Snapshots
            BY <4>2, SnapshotType DEF FlushQueues, IInv, TypeOK
          <5>2. QED
            BY <4>2, <5>1, ChainTyped, LastIn DEF FlushQueues
        <4>3. QED
          BY <4>1, <4>2, FlushShape DEF WillSave
      <3>3. Tip(chain') = engine
        BY <2>3, <3>1 DEF Tip, Snapshot
      <3>4. QED
        BY <1>0, <1>4, <2>1, <3>1, <3>2, <3>3 DEF Awaited, Snapshot
    <2>4. QED
      BY <2>2, <2>3
  <1>8. SaveCovered'
    BY <1>4, <1>5, <1>7 DEF SaveCovered
  <1>9. QED
    BY <1>2, <1>3, <1>6, <1>8 DEF Order, Revisions

(* The first of the queue goes into the container of its document, or is   *)
(* dropped.                                                                *)
LEMMA OrderWritten ==
    ASSUME IInv, Order, StartWrite
    PROVE  Order'
  <1>0. /\ engine' = engine /\ last' = last /\ edited' = edited /\ sheetless' = sheetless
        /\ docEpoch' = docEpoch /\ restore' = restore /\ dirty' = dirty
        /\ blob' = blob /\ loadEpoch' = loadEpoch /\ saving' = saving
        /\ chain # <<>> /\ chain' = Tail(chain)
    BY DEF StartWrite, mem, pend, host, back
  <1>1. /\ Head(chain) = chain[1] /\ Head(chain) \in Snapshots
        /\ Len(chain) \in Nat /\ Len(chain) >= 1 /\ Len(chain') = Len(chain) - 1
        /\ 1 \in 1 .. Len(chain)
        /\ \A i \in 1 .. Len(chain') : i + 1 \in 1 .. Len(chain) /\ chain'[i] = chain[i + 1]
    BY <1>0, ChainTyped, FirstOut
  <1>2. \/ /\ Head(chain).epoch = docEpoch
           /\ \/ part'.bytes = Head(chain) /\ part'.bytes # None /\ ~lost'
              \/ part' = part /\ lost'
           /\ writing' = None \/ writing'.item = Head(chain)
        \/ /\ Head(chain).epoch # docEpoch
           /\ part' = part /\ lost' = lost /\ writing' = writing
    <2>1. CASE Head(chain).epoch = docEpoch
      <3>1. PutBytes(Head(chain))
        BY <2>1 DEF StartWrite
      <3>2. CASE part' = [part EXCEPT !.bytes = Head(chain)] /\ lost' = FALSE
                 /\ writing' = [item |-> Head(chain), at |-> "name"]
        BY <1>1, <2>1, <3>2, NoneAssumption DEF IInv, TypeOK
      <3>3. CASE lost' = TRUE /\ UNCHANGED part /\ writing' =
                   IF blobHost THEN [item |-> Head(chain), at |-> "blob"] ELSE None
        BY <2>1, <3>3
      <3>4. QED
        BY <3>1, <3>2, <3>3 DEF PutBytes
    <2>2. CASE Head(chain).epoch # docEpoch
      BY <2>2 DEF StartWrite
    <2>3. QED
      BY <2>1, <2>2
  <1>3. Held' \subseteq Held \cup {Head(chain).rev}
    <2>1. part'.bytes # None => part'.bytes.rev \in Held \cup {Head(chain).rev}
      BY <1>2, HeldHas
    <2>2. writing' # None => writing'.item.rev \in Held \cup {Head(chain).rev}
      BY <1>2, HeldHas
    <2>3. \A r \in Slots : restore'[r] # Idle =>
             restore'[r].rev \in (Held \cup {Head(chain).rev}) \cup {None}
      BY <1>0, HeldHas
    <2>4. QED
      BY <1>0, <2>1, <2>2, <2>3, HeldHas, HeldWithin
  <1>4. Revisions'
    BY <1>0, <1>3, RevisionsTaken DEF Order, Revisions, mem
  <1>5. RestoresBehind'
    BY <1>0 DEF Order, RestoresBehind
  <1>6. OnItsWay'
    <2> SUFFICES ASSUME edited, engine # None, ~dirty
                 PROVE  IF chain' = <<>> THEN lost' \/ Holds(engine)'
                        ELSE chain'[Len(chain')] = Snapshot(engine, docEpoch)'
      BY <1>0 DEF OnItsWay
    <2>1. chain[Len(chain)] = Snapshot(engine, docEpoch)
      BY <1>0 DEF Order, OnItsWay
    <2>2. CASE chain' = <<>>
      <3>1. Len(chain) = 1
        BY <1>1, <2>2
      <3>2. Head(chain) = Snapshot(engine, docEpoch)
        BY <1>1, <2>1, <3>1
      <3>3. Head(chain).epoch = docEpoch /\ Head(chain).rev = engine
        BY <3>2 DEF Snapshot
      <3>4. QED
        BY <1>0, <1>2, <2>2, <3>3, ChainTyped DEF Holds
    <2>3. CASE chain' # <<>>
      <3>1. chain' \in Seq(Snapshots)
        BY <1>0, ChainTyped
      <3>2. Len(chain') \in 1 .. Len(chain') /\ Len(chain') + 1 = Len(chain)
        BY <1>1, <2>3, <3>1
      <3>3. QED
        BY <1>0, <1>1, <2>1, <2>3, <3>2 DEF Snapshot
    <2>4. QED
      BY <2>2, <2>3
  <1>7. SaveCovered'
    <2> SUFFICES ASSUME saving # None, ~saving.failed, saving.rev # Blank
                 PROVE  Awaited' \/ Arrived'
      BY <1>0 DEF Order, SaveCovered
    <2>0. Awaited \/ Arrived
      BY DEF Order, SaveCovered
    <2>1. CASE Arrived
      <3>1. \A i \in 1 .. Len(chain') : saving'.rev < chain'[i].rev
        BY <1>0, <1>1, <2>1 DEF Arrived
      <3>2. saving.rev < Head(chain).rev /\ saving.rev \in Nat /\ Head(chain).rev \in Nat
        BY <1>1, <2>1, ChainTyped DEF Arrived
      <3>3. lost' \/ Holds(saving.rev)'
        BY <1>0, <1>2, <2>1, <3>2 DEF Arrived, Holds
      <3>4. QED
        BY <3>1, <3>3 DEF Arrived
    <2>2. CASE Awaited
      <3>1. PICK i \in 1 .. Len(chain) :
              chain[i] = Snapshot(saving.rev, docEpoch) /\ saving.awaits = saving.rev
        BY <2>2 DEF Awaited
      <3>2. chain[i].rev = saving.rev /\ chain[i].epoch = docEpoch
        BY <3>1 DEF Snapshot
      <3>3. CASE i = 1
        <4>1. Head(chain).rev = saving.rev /\ Head(chain).epoch = docEpoch
          BY <1>1, <3>2, <3>3
        <4>2. lost' \/ Holds(saving.rev)'
          BY <1>0, <1>2, <4>1, ChainTyped DEF Holds
        <4>3. \A j \in 1 .. Len(chain') : saving'.rev < chain'[j].rev
          <5> SUFFICES ASSUME NEW j \in 1 .. Len(chain') PROVE saving.rev < chain'[j].rev
            BY <1>0
          <5>1. j + 1 \in 1 .. Len(chain) /\ 1 < j + 1 /\ chain'[j] = chain[j + 1]
            BY <1>1
          <5>2. chain[1].rev < chain[j + 1].rev
            BY <1>1, <5>1 DEF Order, Ascending
          <5>3. QED
            BY <3>2, <3>3, <5>1, <5>2
        <4>4. QED
          BY <4>2, <4>3 DEF Arrived
      <3>4. CASE i # 1
        <4>1. i - 1 \in 1 .. Len(chain') /\ chain'[i - 1] = chain[i]
          BY <1>1, <3>4
        <4>2. chain'[i - 1] = Snapshot(saving'.rev, docEpoch') /\ saving'.awaits = saving'.rev
          BY <1>0, <3>1, <4>1
        <4>3. QED
          BY <4>1, <4>2 DEF Awaited, Snapshot
      <3>5. QED
        BY <3>3, <3>4
    <2>3. QED
      BY <2>0, <2>1, <2>2
  <1>8. QED
    BY <1>4, <1>5, <1>6, <1>7 DEF Order, Revisions

(* A new state of the workbook, marked. *)
LEMMA OrderIssued ==
    ASSUME IInv, Order, NewRevision, SchedulePersist,
           UNCHANGED <<queue, doc, host, restore, saving>>,
           \/ UNCHANGED <<loadEpoch, sheetless>>
           \/ loadEpoch' = loadEpoch + 1
    PROVE  Order'
  <1>0. /\ docEpoch' = docEpoch /\ restore' = restore /\ part' = part /\ lost' = lost
        /\ writing' = writing /\ chain' = chain /\ blob' = blob /\ saving' = saving /\ dirty'
        /\ last' = last + 1 /\ engine' = last + 1
    BY DEF queue, doc, host, NewRevision, SchedulePersist
  <1>1. last \in Nat /\ engine' # None
    BY <1>0, ChainTyped, NoneAssumption
  <1>2. Held' \subseteq Held
    BY <1>0 DEF Held
  <1>3. Revisions'
    BY <1>0, <1>2, RevisionsIssued DEF Order, Revisions
  <1>4. RestoresBehind'
    <2>1. \A r \in Slots : restore[r] # Idle => restore[r].epoch \in Nat
      BY DEF IInv, TypeOK, Restores
    <2>2. loadEpoch \in Nat
      BY DEF IInv, TypeOK
    <2>3. QED
      BY <1>0, <1>1, <2>1, <2>2 DEF Order, RestoresBehind
  <1>5. OnItsWay'
    BY <1>0 DEF OnItsWay
  <1>6. SaveCovered'
    BY <1>0, <1>1, SaveKept DEF Order, Keeper
  <1>7. QED
    BY <1>3, <1>4, <1>5, <1>6 DEF Order, Revisions

(* A load that throws. *)
LEMMA OrderThrown ==
    ASSUME IInv, Order, LoadThrows, Held' \subseteq Held,
           UNCHANGED <<queue, docEpoch, saving>>, part'.bytes = part.bytes,
           \A s \in Slots : restore'[s] # Idle => restore'[s].epoch <= loadEpoch
    PROVE  Order'
  <1>0. /\ docEpoch' = docEpoch /\ lost' = lost /\ chain' = chain /\ saving' = saving
        /\ dirty' = dirty /\ last' = last /\ loadEpoch' = loadEpoch /\ sheetless'
        /\ engine' = IF engine = None THEN Blank ELSE engine
        /\ edited' = (edited /\ engine # None)
    BY DEF queue, LoadThrows
  <1>1. engine' # None /\ (dirty' => dirty /\ engine' = engine)
    BY <1>0, NoneAssumption DEF Order, RestoresBehind, Blank
  <1>2. engine' <= last
    BY <1>0, ChainTyped DEF Order, Issued, Blank
  <1>3. Revisions'
    BY <1>0, <1>1, <1>2, RevisionsKept DEF Order, Revisions
  <1>4. RestoresBehind'
    BY <1>0, <1>1 DEF RestoresBehind
  <1>5. OnItsWay'
    BY <1>0, <1>1, WayKept DEF Order, Keeper
  <1>6. SaveCovered'
    BY <1>0, <1>1, SaveKept, ChainTyped DEF Order, Keeper
  <1>7. QED
    BY <1>3, <1>4, <1>5, <1>6 DEF Order, Revisions

LEMMA OrderImported ==
    ASSUME IInv, Order, Import
    PROVE  Order'
  <1>0. /\ docEpoch' = docEpoch /\ restore' = restore /\ part' = part /\ lost' = lost
        /\ writing' = writing /\ blob' = blob /\ saving' = saving
    BY DEF Import, doc, host, back
  <1>1. Held' \subseteq Held
    BY <1>0 DEF Held
  <1>2. CASE LoadThrows /\ UNCHANGED chain
    <2>1. UNCHANGED <<queue, docEpoch, saving>> /\ part'.bytes = part.bytes
      BY <1>0, <1>2 DEF queue
    <2>2. \A s \in Slots : restore'[s] # Idle => restore'[s].epoch <= loadEpoch
      BY <1>0 DEF Order, RestoresBehind
    <2>3. QED
      BY <1>1, <1>2, <2>1, <2>2, OrderThrown
  <1>3. CASE /\ NewRevision /\ sheetless' = FALSE /\ loadEpoch' = loadEpoch + 1
             /\ CancelPersist /\ chain' = Append(chain, Snapshot(engine', docEpoch))
    <2> DEFINE item == Snapshot(engine', docEpoch)
    <2>1. /\ last' = last + 1 /\ engine' = last + 1 /\ last < MaxRev /\ ~dirty'
          /\ last \in Nat /\ engine' # None
      BY <1>3, ChainTyped, NoneAssumption DEF NewRevision, CancelPersist
    <2>2. item \in Snapshots /\ item.rev = last + 1 /\ item.epoch = docEpoch
      <3>1. last + 1 \in Revs /\ docEpoch \in 0 .. MaxOpens
        BY <2>1, BoundsAssumption DEF IInv, TypeOK, Revs, Blank
      <3>2. QED
        BY <2>1, <3>1, SnapshotType DEF Snapshot
    <2>3. item = Snapshot(engine', docEpoch')
      BY <1>0
    <2>4. chain' = Append(chain, item)
      BY <1>3
    <2> HIDE DEF item
    <2>5. /\ \A h \in Held : h < item.rev
          /\ \A i \in 1 .. Len(chain) : chain[i].rev < item.rev
      BY <2>1, <2>2, ChainTyped DEF Order, Issued
    <2>6. Revisions'
      <3>1. last' \in Nat /\ last <= last' /\ engine' = item.rev /\ item.rev <= last'
        BY <2>1, <2>2
      <3>2. Revisions
        BY DEF Order, Revisions
      <3>3. QED
        BY <1>1, <2>1, <2>2, <2>4, <2>5, <3>1, <3>2, RevisionsQueued
    <2>7. RestoresBehind'
      <3>1. \A r \in Slots : restore[r] # Idle => restore[r].epoch \in Nat
        BY DEF IInv, TypeOK, Restores
      <3>2. loadEpoch \in Nat /\ loadEpoch' = loadEpoch + 1
        BY <1>3 DEF IInv, TypeOK
      <3>3. QED
        BY <1>0, <2>1, <3>1, <3>2 DEF Order, RestoresBehind
    <2>8. OnItsWay'
      <3>1. chain' # <<>> /\ chain'[Len(chain')] = item
        BY <2>2, <2>4, ChainTyped, LastIn
      <3>2. QED
        BY <2>3, <3>1 DEF OnItsWay, Snapshot
    <2>9. SaveCovered'
      <3>1. saving # None /\ ~saving.failed => saving.rev < item.rev
        BY <2>1, <2>2, ChainTyped DEF Order, SaveCovered
      <3>2. last' \in Nat /\ last <= last'
        BY <2>1
      <3>3. QED
        BY <1>0, <2>1, <2>2, <2>4, <3>1, <3>2, SaveQueued DEF Order
    <2>10. QED
      BY <2>6, <2>7, <2>8, <2>9 DEF Order, Revisions
  <1>4. QED
    BY <1>2, <1>3 DEF Import

LEMMA OrderRestored ==
    ASSUME IInv, Order, NEW r \in Slots, RestoreStep(r)
    PROVE  Order'
  <1>0. /\ UNCHANGED <<queue, docEpoch, host, saving>> /\ chain' = chain /\ lost' = lost
        /\ saving' = saving /\ docEpoch' = docEpoch
        /\ Outcome(r) /\ Lifts /\ Held' \subseteq Held
    BY RestoreShape, RestoreHeld DEF queue
  <1>1. PICK b : Slid(r, b)
    BY RestoreShape
  <1>2. restore[r] # Idle /\ restore[r].epoch \in Nat /\ loadEpoch \in Nat
    <2>1. restore[r].at \in Stages
      BY DEF RestoreStep, PartRead, BlobRead, FrameTest, Booted, LiftBytes, LiftName, Stages
    <2>2. restore[r] \in Busy
      BY <2>1, BusyType DEF IInv
    <2>3. QED
      BY <2>1, <2>2, NotIdle DEF Busy, IInv, TypeOK
  <1>3. \A s \in Slots : restore'[s] # Idle =>
           /\ restore[s] # Idle /\ restore'[s].epoch = restore[s].epoch
    BY <1>1, <1>2 DEF Slid, IInv, TypeOK
  <1>4. \A s \in Slots : restore'[s] # Idle =>
           /\ restore'[s].epoch <= loadEpoch
           /\ restore'[s].epoch = loadEpoch => sheetless
    BY <1>3 DEF Order, RestoresBehind
  <1>5. CASE Rests
    <2>1. Keeper
      BY <1>0 DEF Lifts, Keeper
    <2>2. QED
      BY <1>0, <1>4, <1>5, <2>1, OrderRests DEF Rests
  <1>6. CASE LoadThrows /\ ~Rests
    <2>1. part'.bytes = part.bytes
      BY <1>0, <1>6 DEF Lifts
    <2>2. QED
      BY <1>0, <1>4, <1>6, <2>1, OrderThrown
  <1>7. CASE Loaded(r) /\ ~Rests
    <2>0. /\ part'.bytes = part.bytes /\ last' = last /\ engine' \in Held /\ ~edited'
          /\ ~sheetless' /\ loadEpoch' = loadEpoch + 1 /\ ~dirty'
      BY <1>0, <1>7 DEF Lifts, Loaded
    <2>1. engine' \in Nat /\ engine' # None /\ engine' <= last
      BY <2>0, ChainTyped, NoneAssumption DEF Order, Issued
    <2>2. Revisions'
      BY <1>0, <2>0, <2>1, RevisionsKept DEF Order, Revisions
    <2>3. RestoresBehind'
      <3>1. \A s \in Slots : restore[s] # Idle => restore[s].epoch \in Nat
        BY DEF IInv, TypeOK, Restores
      <3>2. \A s \in Slots : restore'[s] # Idle => restore'[s].epoch < loadEpoch'
        BY <1>2, <1>3, <1>4, <2>0, <3>1
      <3>3. \A s \in Slots : restore'[s] # Idle => restore'[s].epoch \in Nat
        BY <1>3, <3>1
      <3>4. QED
        BY <1>2, <2>0, <2>1, <3>2, <3>3 DEF RestoresBehind
    <2>4. OnItsWay'
      BY <2>0 DEF OnItsWay
    <2>5. SaveCovered'
      BY <1>0, <2>0, SaveKept, ChainTyped DEF Order, Keeper
    <2>6. QED
      BY <2>2, <2>3, <2>4, <2>5 DEF Order, Revisions
  <1>8. QED
    BY <1>0, <1>5, <1>6, <1>7 DEF Outcome

LEMMA OrderEnsured ==
    ASSUME IInv, Order, NEW r \in Slots, EnsureRestored(r)
    PROVE  Order'
  <1>0. UNCHANGED <<mem, dirty, chain, docEpoch, loadEpoch, lost, part, writing, blob, saving>>
    BY DEF EnsureRestored, mem, pend, queue, host
  <1>1. CASE UNCHANGED restore
    <2>1. Held' \subseteq Held
      BY <1>0, <1>1 DEF Held
    <2>2. QED
      BY <1>0, <1>1, <2>1, OrderRests DEF Keeper, Order, RestoresBehind
  <1>2. CASE NeedsWorkbook /\ Begin(r, FALSE, part)
    <2>1. PICK found \in {part.bytes, None} :
            restore' = [restore EXCEPT ![r] = Begun(found, loadEpoch', docEpoch', FALSE)]
      BY <1>2 DEF Begin
    <2> DEFINE b == Begun(found, loadEpoch', docEpoch', FALSE)
    <2>2. b.epoch = loadEpoch /\ b.rev \in Held \cup {None}
      BY <1>0, <2>1, HeldHas DEF Begun
    <2>3. restore' = [restore EXCEPT ![r] = b]
      BY <2>1
    <2> HIDE DEF b
    <2>4. \A s \in Slots : restore'[s] # Idle => restore'[s].rev \in Held \cup {None}
      BY <2>2, <2>3, SlidHeld DEF IInv, TypeOK
    <2>5. Held' \subseteq Held
      BY <1>0, <2>4, HeldHas, HeldWithin
    <2>6. sheetless /\ loadEpoch \in Nat
      BY <1>2 DEF NeedsWorkbook, Order, RestoresBehind, IInv, TypeOK
    <2>7. \A s \in Slots : restore'[s] # Idle =>
             /\ restore'[s].epoch <= loadEpoch
             /\ restore'[s].epoch = loadEpoch => sheetless
      BY <2>2, <2>3, <2>6 DEF Order, RestoresBehind, IInv, TypeOK
    <2>8. QED
      BY <1>0, <2>5, <2>7, OrderRests DEF Keeper
  <1>3. QED
    BY <1>1, <1>2 DEF EnsureRestored

LEMMA OrderOpened ==
    ASSUME IInv, Order, NEW r \in Slots, OpenDocument(r)
    PROVE  Order'
  <1>0. /\ last' = last /\ chain' = chain /\ writing' = writing /\ blob' = blob
        /\ engine' = None /\ sheetless' /\ ~dirty' /\ saving' = None
        /\ loadEpoch' = loadEpoch + 1 /\ loadEpoch \in Nat
    BY DEF OpenDocument, queue, host, CancelPersist, IInv, TypeOK
  <1>1. part'.bytes # None => part'.bytes.rev = Stored
    BY DEF OpenDocument, Containers, Snapshot
  <1>2. PICK found \in {part'.bytes, None} :
          restore' = [restore EXCEPT ![r] = Begun(found, loadEpoch', docEpoch', FALSE)]
    BY DEF OpenDocument, Begin
  <1> DEFINE b == Begun(found, loadEpoch', docEpoch', FALSE)
  <1>3. b.epoch = loadEpoch' /\ b.rev \in Held \cup {None}
    BY <1>1, <1>2, HeldHas DEF Begun
  <1>4. restore' = [restore EXCEPT ![r] = b]
    BY <1>2
  <1> HIDE DEF b
  <1>5. \A s \in Slots : restore'[s] # Idle => restore'[s].rev \in Held \cup {None}
    BY <1>3, <1>4, SlidHeld DEF IInv, TypeOK
  <1>6. Held' \subseteq Held
    BY <1>0, <1>1, <1>5, HeldHas, HeldWithin
  <1>7. Revisions'
    BY <1>0, <1>6, RevisionsKept DEF Order, Revisions
  <1>8. \A s \in Slots : restore[s] # Idle => restore[s].epoch \in Nat /\ restore[s].epoch <= loadEpoch
    BY DEF IInv, TypeOK, Restores, Order, RestoresBehind
  <1>9. RestoresBehind'
    BY <1>0, <1>3, <1>4, <1>8 DEF RestoresBehind, IInv, TypeOK
  <1>10. OnItsWay' /\ SaveCovered'
    BY <1>0 DEF OnItsWay, SaveCovered
  <1>11. QED
    BY <1>7, <1>9, <1>10 DEF Order, Revisions

-----------------------------------------------------------------------------
LEMMA OrderStarts == Init => Order
  <1> SUFFICES ASSUME Init PROVE Order
    OBVIOUS
  <1>1. /\ engine = None /\ ~edited /\ sheetless /\ last = Stored /\ ~dirty /\ chain = <<>>
        /\ writing = None /\ blob \in {Stored, None} /\ loadEpoch = 0 /\ saving = None
        /\ part.bytes # None => part.bytes.rev = Stored
    BY DEF Init, Containers, Snapshot
  <1>2. \A r \in Slots : restore[r] # Idle =>
           restore[r].rev \in {Stored, None} /\ restore[r].epoch = 0
    BY <1>1 DEF Init, Begun
  <1>3. Held \subseteq {Stored}
    BY <1>1, <1>2 DEF Held
  <1>4. Issued /\ Ascending /\ MarkedNewest
    BY <1>1, <1>3 DEF Issued, Ascending, MarkedNewest, Stored
  <1>5. RestoresBehind /\ OnItsWay /\ SaveCovered
    BY <1>1, <1>2 DEF RestoresBehind, OnItsWay, SaveCovered
  <1>6. QED
    BY <1>4, <1>5 DEF Order

LEMMA OrderPreserved == IInv /\ Order /\ [Next]_vars => Order'
  <1> SUFFICES ASSUME IInv, Order, [Next]_vars PROVE Order'
    OBVIOUS
  <1>1. ASSUME UNCHANGED <<mem, dirty, chain, docEpoch, loadEpoch, restore, blob>>,
               part'.bytes = part.bytes, lost' = lost, saving' \in {saving, None},
               writing' # None => writing # None /\ writing'.item = writing.item
        PROVE  Order'
    <2>1. Held' \subseteq Held
      BY <1>1, HeldHas, HeldWithin
    <2>2. QED
      BY <1>1, <2>1, OrderRests DEF Keeper, Order, RestoresBehind
  <1>2. ASSUME Edit PROVE Order'
    BY <1>2, OrderIssued DEF Edit, back
  <1>3. ASSUME TimerFires \/ FrameExit PROVE Order'
    BY <1>3, OrderFlushed DEF TimerFires, FrameExit
  <1>4. ASSUME WillSave PROVE Order'
    BY <1>4, OrderAsked
  <1>5. ASSUME SaveDocument PROVE Order'
    BY <1>1, <1>5 DEF SaveDocument, pend, queue, doc, host, back
  <1>6. ASSUME StartWrite PROVE Order'
    BY <1>6, OrderWritten
  <1>7. ASSUME WriteName PROVE Order'
    <2>1. part'.bytes = part.bytes
      BY <1>7 DEF WriteName, IInv, TypeOK
    <2>2. writing' # None => writing # None /\ writing'.item = writing.item
      BY <1>7 DEF WriteName, IInv, TypeOK
    <2>3. QED
      BY <1>1, <1>7, <2>1, <2>2 DEF WriteName, pend, host, back
  <1>8. ASSUME WriteBlob PROVE Order'
    <2>1. /\ UNCHANGED <<mem, dirty, chain, docEpoch, loadEpoch, restore, saving, part, lost>>
          /\ writing' = None /\ (blob' = blob \/ (blob' = writing.item.rev /\ writing # None))
      BY <1>8 DEF WriteBlob, pend, doc, back
    <2>2. Held' \subseteq Held
      BY <2>1, HeldHas, HeldWithin
    <2>3. QED
      BY <2>1, <2>2, OrderRests DEF Keeper, Order, RestoresBehind
  <1>9. ASSUME AskAdopt \/ AskImport PROVE Order'
    BY <1>1, <1>9 DEF AskAdopt, AskImport, pend, queue, doc, host, back
  <1>10. ASSUME Adopt PROVE Order'
    BY <1>10, OrderIssued DEF Adopt, back
  <1>11. ASSUME Import PROVE Order'
    BY <1>11, OrderImported
  <1>12. ASSUME EnterFrame PROVE Order'
    BY <1>1, <1>12 DEF EnterFrame, pend, queue, doc, host
  <1>13. ASSUME NEW r \in Slots, RestoreStep(r) PROVE Order'
    BY <1>13, OrderRestored
  <1>14. ASSUME NEW r \in Slots, EnsureRestored(r) PROVE Order'
    BY <1>14, OrderEnsured
  <1>15. ASSUME NEW r \in Slots, OpenDocument(r) PROVE Order'
    BY <1>15, OrderOpened
  <1>16. ASSUME UNCHANGED vars PROVE Order'
    BY <1>1, <1>16 DEF vars, mem
  <1>17. QED
    BY <1>2, <1>3, <1>4, <1>5, <1>6, <1>7, <1>8, <1>9, <1>10, <1>11, <1>12,
       <1>13, <1>14, <1>15, <1>16 DEF Next, WriteStep

LEMMA InOrder == Spec => [](IInv /\ Order)
  BY Starts, Preserves, OrderStarts, OrderPreserved, PTL DEF Spec

-----------------------------------------------------------------------------
(* NothingLeftBehind holds always: with nothing marked, queued or being    *)
(* written, the container has the workbook in memory or a later state of   *)
(* it, unless the last write failed (schedulePersist, flushPersist,        *)
(* enqueueWrite).                                                          *)
THEOREM NothingLeftBehindCorrect == Spec => []NothingLeftBehind
  <1>1. IInv /\ Order => NothingLeftBehind
    <2> SUFFICES ASSUME IInv, Order, Quiet, ~lost, Ahead PROVE FALSE
      BY DEF NothingLeftBehind
    <2>1. edited /\ engine # None /\ ~dirty /\ chain = <<>> /\ ~lost
      BY DEF Quiet, Ahead
    <2>2. Holds(engine)
      BY <2>1 DEF Order, OnItsWay
    <2>3. part.bytes # None /\ ~part.bytes.lifted /\ part.bytes.rev < engine
      BY <2>2 DEF Ahead, Holds
    <2>4. part.bytes.rev \in Nat /\ engine \in Nat
      BY <2>1, <2>3, ChainTyped, HeldHas
    <2>5. QED
      BY <2>2, <2>3, <2>4 DEF Holds
  <1>2. QED
    BY <1>1, InOrder, PTL

(* SaveHasPendingEdit holds always: when the will-save hook answers, the   *)
(* container has every edit made before the save, unless the engine or the *)
(* container failed (the hook's flush and its wait for the chain).         *)
THEOREM SaveHasPendingEditCorrect == Spec => []SaveHasPendingEdit
  <1>1. IInv /\ Order => SaveHasPendingEdit
    <2> SUFFICES ASSUME IInv, Order, SaveReady, saving.rev # Blank, ~saving.failed, ~lost
                 PROVE  /\ part.bytes # None
                        /\ part.bytes.lifted \/ part.bytes.rev >= saving.rev
      BY DEF SaveHasPendingEdit
    <2>1. Awaited \/ Arrived
      BY DEF Order, SaveCovered, SaveReady
    <2>2. ~Awaited
      <3> SUFFICES ASSUME NEW i \in 1 .. Len(chain),
                          chain[i] = Snapshot(saving.rev, docEpoch), saving.awaits = saving.rev
                   PROVE  FALSE
        BY DEF Awaited
      <3>1. chain[i].rev = saving.awaits /\ i \in DOMAIN chain
        BY ChainTyped DEF Snapshot
      <3>2. saving.awaits \in Queued
        BY <3>1 DEF Queued
      <3>3. QED
        BY <3>2 DEF SaveReady
    <2>3. QED
      BY <2>1, <2>2 DEF Arrived, Holds
  <1>2. QED
    BY <1>1, InOrder, PTL

(* ChainKeepsOrder: within a document a queued write only ever replaces    *)
(* the container's bytes by those of a later state (persistChain).         *)
THEOREM ChainKeepsOrderCorrect == Spec => ChainKeepsOrder
  <1> DEFINE Climbs == Lands /\ ~part'.bytes.lifted /\ part.bytes # None
                         => part'.bytes.rev > part.bytes.rev
  <1>1. IInv /\ Order /\ [Next]_vars => [Climbs]_vars
    <2> SUFFICES ASSUME IInv, Order, Next, Lands, ~part'.bytes.lifted, part.bytes # None
                 PROVE  part'.bytes.rev > part.bytes.rev
      BY DEF vars
    <2>1. docEpoch' = docEpoch /\ part'.bytes # part.bytes
      BY DEF Lands
    <2>2. StartWrite
      <3>1. ASSUME NEW r \in Slots, RestoreStep(r) PROVE FALSE
        BY <2>1, <3>1, RestoreShape DEF Lifts
      <3>2. ASSUME NEW r \in Slots, OpenDocument(r) PROVE FALSE
        BY <2>1, <3>2 DEF OpenDocument, IInv, TypeOK
      <3>3. ASSUME NEW r \in Slots, EnsureRestored(r) PROVE FALSE
        BY <2>1, <3>3 DEF EnsureRestored
      <3>4. ASSUME WriteName PROVE FALSE
        BY <2>1, <3>4 DEF WriteName, IInv, TypeOK
      <3>5. ASSUME \/ Edit \/ TimerFires \/ FrameExit \/ WillSave \/ SaveDocument
                   \/ WriteBlob \/ AskAdopt \/ AskImport \/ Adopt \/ Import \/ EnterFrame
            PROVE  FALSE
        BY <2>1, <3>5 DEF Edit, TimerFires, FrameExit, WillSave, SaveDocument, WriteBlob,
                          AskAdopt, AskImport, Adopt, Import, EnterFrame, doc
      <3>6. QED
        BY <3>1, <3>2, <3>3, <3>4, <3>5 DEF Next, WriteStep
    <2>3. part' = [part EXCEPT !.bytes = Head(chain)] /\ chain # <<>>
      BY <2>1, <2>2 DEF StartWrite, PutBytes
    <2>4. part'.bytes = chain[1] /\ 1 \in 1 .. Len(chain)
      BY <2>3, ChainTyped, FirstOut DEF IInv, TypeOK
    <2>5. part.bytes.rev < chain[1].rev
      BY <2>4, HeldHas DEF Order, Ascending
    <2>6. QED
      BY <2>4, <2>5, ChainTyped, HeldHas
  <1>2. QED
    BY <1>1, InOrder, PTL DEF ChainKeepsOrder, Spec

(* MemoryNeverGoesBack: a restore that was overtaken while it awaited does *)
(* not put older bytes over the workbook that replaced it (loadEpoch).     *)
THEOREM MemoryNeverGoesBackCorrect == Spec => MemoryNeverGoesBack
  <1> DEFINE Forward == engine # None /\ engine' # None /\ engine' # engine /\ ~sheetless
                          => engine' > engine
  <1>1. IInv /\ Order /\ [Next]_vars => [Forward]_vars
    <2> SUFFICES ASSUME IInv, Order, Next, engine # None, engine' # None,
                        engine' # engine, ~sheetless
                 PROVE  engine' > engine
      BY DEF vars
    <2>1. NewRevision => engine' > engine
      BY ChainTyped DEF NewRevision, Order, Issued
    <2>2. ~LoadThrows
      BY DEF LoadThrows
    <2>3. ASSUME NEW r \in Slots, RestoreStep(r) PROVE FALSE
      <3>1. Loaded(r)
        BY <2>2, <2>3, RestoreShape DEF Outcome, Rests, mem
      <3>2. restore[r] # Idle
        <4>1. restore[r].at \in Stages
          BY <2>3 DEF RestoreStep, PartRead, BlobRead, FrameTest, Booted,
                      LiftBytes, LiftName, Stages
        <4>2. QED
          BY <4>1, NotIdle
      <3>3. QED
        BY <3>1, <3>2 DEF Loaded, Overtaken, Order, RestoresBehind
    <2>4. ASSUME NEW r \in Slots, EnsureRestored(r) \/ OpenDocument(r) PROVE FALSE
      BY <2>4 DEF EnsureRestored, OpenDocument, mem
    <2>5. ASSUME \/ TimerFires \/ FrameExit \/ WillSave \/ SaveDocument \/ WriteStep
                 \/ AskAdopt \/ AskImport \/ EnterFrame
          PROVE  FALSE
      BY <2>5 DEF TimerFires, FrameExit, WillSave, SaveDocument, WriteStep, StartWrite,
                  WriteName, WriteBlob, AskAdopt, AskImport, EnterFrame, mem
    <2>6. ASSUME Edit \/ Adopt \/ Import PROVE engine' > engine
      BY <2>1, <2>2, <2>6 DEF Edit, Adopt, Import
    <2>7. QED
      BY <2>3, <2>4, <2>5, <2>6 DEF Next
  <1>2. QED
    BY <1>1, InOrder, PTL DEF MemoryNeverGoesBack, Spec
=============================================================================
