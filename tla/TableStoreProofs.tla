-------------------------- MODULE TableStoreProofs --------------------------
(***************************************************************************)
(* The invariant is inductive, and with it the properties of TableStore    *)
(* hold for every source history, set of readers and bound.                *)
(***************************************************************************)
EXTENDS TableStoreFiles, TableStoreOwners, TableStoreMerges, TableStoreStream

USE SMTT(30), ZenonT(30)

\* A table that was never opened satisfies the invariant.
LEMMA InitHolds == Init => IInv
<1> SUFFICES ASSUME Init PROVE IInv
  OBVIOUS
<1>a. /\ disk = EmptyManifest /\ manifest = EmptyManifest
      /\ background = NoMerge /\ pc = "closed" /\ ret = "idle"
      /\ pos = 0 /\ cp = 0 /\ synced = 0
      /\ last_sequence = 0 /\ commit_version = 0
  BY DEF Init
<1>b. /\ wal = {} /\ files = {} /\ batch = {} /\ memtable = {}
      /\ staged = {} /\ staged_ids = {} /\ retired = {} /\ doomed = {}
      /\ pins = [r \in Readers |-> {}]
  BY DEF Init
<1>c. /\ EmptyManifest.segs = {} /\ EmptyManifest.flushed = 0
      /\ EmptyManifest.next = 1 /\ EmptyManifest.committed = 0
  BY DEF EmptyManifest
<1>d. /\ NoMerge.state = "none" /\ NoMerge.inputs = {}
      /\ NoMerge.outputs = {}
  BY DEF NoMerge
<1>1. TypeOK
  <2>1. EmptyManifest \in Manifest
    BY SourceAssumption DEF Manifest, EmptyManifest
  <2>2. NoMerge \in [state : {"none", "running", "failed"},
                     inputs : SUBSET Segment, outputs : SUBSET Segment]
    BY DEF NoMerge
  <2>3. 0 \in 0..MaxVersion /\ 0 \in Nat
    BY SourceAssumption
  <2>4. pins \in [Readers -> SUBSET Segment]
    BY <1>b
  <2> QED BY <1>a, <1>b, <2>1, <2>2, <2>3, <2>4 DEF TypeOK
<1>2. ManifestInv /\ ControlInv
  BY <1>a, <1>b, <1>d DEF ManifestInv, ControlInv, Flushing,
         Reclaiming
<1>3. FileInv
  BY <1>a, <1>b, <1>c, <1>d DEF FileInv, UniqueIds, FilesIntact,
         PinsIntact
<1>4. OwnerInv
  <2>1. Ids({}) = {} /\ UniqueIds({})
    BY DEF Ids, UniqueIds
  <2>2. Gone = {}
    BY <1>b DEF Gone
  <2>3. Owned = {}
    BY <1>a, <1>b, <1>d, <2>1 DEF Owned
  <2>4. \A r \in Readers : pins[r] = {}
    BY <1>b
  <2>5. UNION {pins[r] : r \in Readers} = {}
    BY <2>4
  <2> QED BY <1>a, <1>b, <1>c, <1>d, <2>1, <2>2, <2>3, <2>4,
         <2>5 DEF OwnerInv
<1>5. ResolveInv
  <2>1. Rows({}) = {}
    BY DEF Rows
  <2>2. 1..0 = {}
    OBVIOUS
  <2> QED BY <1>a, <1>c, <2>1, <2>2 DEF ResolveInv, Resolves
<1>6. WalInv /\ MemInv
  <2>1. LiveWal = {}
    BY <1>b DEF LiveWal
  <2>2. disk.flushed = 0
    BY <1>a, <1>c
  <2> QED BY <1>a, <1>b, <2>1, <2>2 DEF WalInv, MemInv
<1>7. CheckpointInv
  <2>1. Committed + 1 .. cp = {}
    BY <1>a, <1>c DEF Committed
  <2> QED BY <1>a, <2>1 DEF CheckpointInv, CheckpointSurvives, IsOpen
<1>8. StreamInv /\ MergeInv
  BY <1>a, <1>d DEF StreamInv, MergeInv
<1> QED BY <1>1, <1>2, <1>3, <1>4, <1>5, <1>6, <1>7, <1>8
       DEF IInv, IdInv, RowInv

\* No operation, crash, failure or reader step breaks it.
LEMMA Inductive == IInv /\ [Next]_vars => IInv'
BY TypeStep, ManifestStep, ControlStep, FileStep, OwnerStep,
       ResolveStep,
   WalStep, MemStep, CheckpointStep, StreamStep, MergeStep
   DEF IInv, IdInv, RowInv

\* The invariant gives the exactness of scans: segments at the committed
\* version, the memtable over them.
LEMMA ScansAreExact == IInv => AppliedIsExact
<1> SUFFICES ASSUME IInv, IsOpen
             PROVE  Scan(manifest.segs, memtable) = Visible(1..Applied)
  BY DEF AppliedIsExact
<1> USE DEF IInv, RowInv
<1> DEFINE a == manifest.committed
           n == Applied
<1>1. a \in 0..MaxVersion /\ n \in 0..MaxVersion
  BY AppliedType DEF TypeOK, Manifest
<1>2. a <= n
  <2>1. CASE pc # "clear"
    BY <2>1, AppliedType DEF ManifestInv, IsOpen
  <2>2. CASE pc = "clear"
    <3>1. memtable # {} /\ memtable = Latest(a + 1 .. n)
      BY <2>2 DEF ControlInv, Flushing, MemInv
    <3> QED BY <1>1, <3>1 DEF Latest
  <2> QED BY <2>1, <2>2
<1>3. memtable = Latest(a + 1 .. n)
  BY DEF MemInv, IsOpen
<1>4. Rows(manifest.segs) \subseteq 1..a
      /\ Visible(Rows(manifest.segs)) = Visible(1..a)
  BY DEF ResolveInv, Resolves
<1> HIDE DEF IInv, RowInv, a, n
<1>5. Scan(manifest.segs, memtable) = Visible(1..n)
  BY <1>1, <1>2, <1>3, <1>4, ScanExact
<1> QED BY <1>5 DEF n

\* No step of the open table but the second half of a reset moves the applied
\* version back.
LEMMA AppliedStep ==
    IInv /\ Next => (IsOpen /\ IsOpen' /\ pc # "reset" => Applied' >= Applied)
<1> SUFFICES ASSUME TypeOK, ManifestInv, ControlInv, MemInv, StreamInv, Next,
                    IsOpen, IsOpen', pc # "reset"
             PROVE  Applied' >= Applied
  BY DEF IInv, RowInv
<1> USE DEF memVars
<1>0. Applied \in Nat /\ commit_version \in Nat /\ commit_version <= Applied
  BY AppliedType DEF TypeOK
<1>1. CASE UNCHANGED <<memtable, commit_version>>
  BY <1>0, <1>1 DEF Applied
<1>2. CASE Append
  <2>1. Applied < pos /\ Applied' = pos /\ pos \in Nat
    BY <1>2, AppendApplies DEF TypeOK
  <2> QED BY <1>0, <2>1
<1>3. CASE FlushManifest
  <2>1. memtable' = memtable /\ commit_version' = Applied
    BY <1>3 DEF FlushManifest
  <2>2. Applied' = Applied
    BY <2>1, AppliedStays DEF Applied
  <2> QED BY <1>0, <2>2
<1>4. CASE FlushClear \/ WalResetFails
  <2>1. memtable' = {} /\ commit_version' = Applied
    BY <1>4 DEF FlushClear, WalResetFails, ManifestInv
  <2>2. Applied' = Applied
    BY <1>0, <2>1, MaxOfOne DEF Applied
  <2> QED BY <1>0, <2>2
<1>5. CASE PublishStaged
  <2>1. memtable = {} /\ memtable' = {}
    BY <1>5 DEF PublishStaged, ControlInv
  <2>2. commit_version' \in Nat /\ commit_version <= commit_version'
    BY <1>5, PublishStagedMakes
  <2>3. Applied = commit_version /\ Applied' = commit_version'
    BY <1>0, <2>1, <2>2, MaxOfOne DEF Applied
  <2> QED BY <2>2, <2>3
<1>6. CASE \/ Ingest \/ IngestPolls \/ AppendDirect \/ Flush \/ FlushSegment
           \/ Stage \/ ReserveStaged \/ StagePiece \/ Advance \/ Maintain
           \/ Compact \/ CompactFails
  BY ZenonT(30), <1>1, <1>6 DEF Ingest, IngestPolls, AppendDirect, Flush,
         FlushSegment,
                    Stage, ReserveStaged, StagePiece, Advance, Maintain,
                    Compact, CompactFails
<1>7. CASE \/ Reclaim \/ Remove \/ SpawnStep("spawn", "reclaim")
           \/ SpawnStep("spawn_ingest", "append")
           \/ SpawnStep("spawn_idle", "idle") \/ Checkpoint
           \/ CommitCheckpoint \/ Reconnect \/ IoError \/ PublishStagedFails
           \/ ResetWal \/ ResetWalFails \/ Close \/ MergeWrites \/ MergeFails
           \/ PublishMergeFails
  BY <1>1, <1>7 DEF Reclaim, Remove, SpawnStep, Checkpoint,
         CommitCheckpoint,
                    Reconnect, IoError, PublishStagedFails, ResetWal,
                    ResetWalFails, Close, MergeWrites, MergeFails,
                    PublishMergeFails
<1>8. CASE \E r \in Readers : Snapshot(r) \/ Release(r)
  BY <1>1, <1>8 DEF Snapshot, Release
<1>9. CASE Open \/ Crash \/ ResetManifest
  BY <1>9 DEF Open, Crash, ResetManifest, IsOpen
<1>10. CASE Settle
  BY <1>1, <1>10 DEF Settle, IsOpen
<1> QED BY <1>2, <1>3, <1>4, <1>5, <1>6, <1>7, <1>8, <1>9, <1>10
        DEF Next, StoreStep

\* The inductive invariant holds in every reachable state of the store.
THEOREM Invariance == Spec => []IInv
<1>1. Init => IInv
  BY InitHolds
<1>2. IInv /\ [Next]_vars => IInv'
  BY Inductive
<1> QED BY <1>1, <1>2, PTL DEF Spec

\* Every variable keeps a value of its kind.
THEOREM TypeCorrect == Spec => []TypeOK
<1>1. IInv => TypeOK
  BY DEF IInv
<1> QED BY <1>1, Invariance, PTL

\* A scan of the open table is always the source's state at the applied
\* version, through flushes, replays, merges that drop deletes, staged
\* publications, crashes and failed calls.
THEOREM ScanTheorem == Spec => []AppliedIsExact
<1>1. IInv => AppliedIsExact
  BY ScansAreExact
<1> QED BY <1>1, Invariance, PTL

\* The table never loses a change the stream's checkpoint has passed.
THEOREM CheckpointTheorem == Spec => []CheckpointSurvives
<1>1. IInv => CheckpointSurvives
  BY DEF IInv, RowInv, CheckpointInv
<1> QED BY <1>1, Invariance, PTL

\* The manifest on disk always names files that are there, so the table can
\* be opened again; so do pinned manifests and a running merge.
THEOREM FilesTheorem ==
    Spec => [](FilesIntact /\ PinsIntact /\ MergeInputsIntact)
<1>1. IInv => FilesIntact /\ PinsIntact /\ MergeInputsIntact
  BY DEF IInv, IdInv, FileInv, MergeInputsIntact
<1> QED BY <1>1, Invariance, PTL

\* While the table is open, and short of a rebuild, a scan never shows an older
\* state of the source than an earlier one did.
THEOREM AppliedTheorem == Spec => AppliedNeverRetreats
<1>1. IInv /\ [Next]_vars =>
        [IsOpen /\ IsOpen' /\ pc # "reset" => Applied' >= Applied]_vars
  BY AppliedStep
<1> QED BY <1>1, Invariance, PTL DEF Spec, AppliedNeverRetreats
=============================================================================
