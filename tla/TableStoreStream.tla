-------------------------- MODULE TableStoreStream --------------------------
(***************************************************************************)
(* Every step of TableStore keeps the checkpoint and the stream in step    *)
(* with the table.                                                         *)
(***************************************************************************)
EXTENDS TableStoreLog

USE SMTT(30), ZenonT(30)

\* A step that keeps the live records, what is synchronized and the applied
\* version keeps the checkpoint safe.
LEMMA CheckpointFrame ==
    ASSUME CheckpointInv, cp' = cp, pos' = pos, wal' = wal, synced' = synced,
           disk'.flushed = disk.flushed, disk'.committed = disk.committed,
           pc' # "closed" => pc # "closed" /\ Applied' = Applied,
           pc' = "checkpointed" => synced' = last_sequence',
           pc' = "reset" => pc = "reset"
    PROVE  CheckpointInv'
BY DEF CheckpointInv, CheckpointSurvives, IsOpen, LiveWal, Committed

\* When no record is live the checkpoint is within the committed version.
LEMMA CheckpointCommitted ==
    ASSUME TypeOK, CheckpointInv, LiveWal = {}
    PROVE  cp <= Committed
<1>1. cp \in Nat /\ Committed \in Nat
  BY DEF TypeOK, Manifest, Committed
<1>2. ~ (cp \in Committed + 1 .. cp)
  BY DEF CheckpointInv
<1> QED BY <1>1, <1>2

\* A reopened table holds every change up to the checkpoint.
LEMMA OpenCovers ==
    ASSUME TypeOK, Resolves(disk), WalInv, CheckpointInv, Open
    PROVE  cp <= Applied'
<1>1. cp \in Nat /\ disk.committed \in Nat /\ Applied' \in Nat
  BY OpenReplays DEF TypeOK, Manifest
<1>2. CASE cp <= disk.committed
  BY <1>1, <1>2, OpenReplays
<1>3. CASE cp > disk.committed
  <2>1. cp \in disk.committed + 1 .. cp
    BY <1>1, <1>3
  <2>2. cp \in Rows(LiveWal)
    BY <2>1 DEF CheckpointInv, Committed, Rows
  <2>3. cp \in disk.committed + 1 .. Applied'
    BY <2>2, OpenReplays
  <2> QED BY <1>1, <2>3
<1> QED BY <1>1, <1>2, <1>3

\* Every step keeps the changes up to the checkpoint safe.
LEMMA CheckpointStep == IInv /\ [Next]_vars => CheckpointInv'
<1> SUFFICES ASSUME TypeOK, ManifestInv, ControlInv, Resolves(disk),
                    WalInv, MemInv, CheckpointInv, StreamInv, [Next]_vars
             PROVE  CheckpointInv'
  BY DEF IInv, RowInv, ResolveInv
<1> USE DEF stream, logVars, control, memVars, stageVars
<1>1. CASE CommitCheckpoint
  <2>1. /\ pc = "checkpointed" /\ pc' = "idle" /\ cp' = pos /\ disk' = disk
        /\ wal' = wal /\ synced' = synced /\ Applied' = Applied
        /\ staged = {} /\ batch = {} /\ ret = "idle"
    BY <1>1 DEF CommitCheckpoint, ControlInv, Flushing, Reclaiming, Applied
  <2>2. Applied + 1 .. pos = {}
    BY <2>1, BatchIsNext DEF Closing
  <2>3. pos <= Applied /\ pos \in Nat /\ Applied \in Nat
    <3>1. pos \in Nat /\ Applied \in Nat
      BY AppliedType DEF TypeOK
    <3>2. ~ (pos \in Applied + 1 .. pos)
      BY <2>2
    <3> QED BY <3>1, <3>2
  <2>4. LiveWal' = LiveWal /\ Committed' = Committed
    BY <2>1 DEF LiveWal, Committed
  <2>5. Rows(LiveWal) = Committed + 1 .. Applied /\ Committed \in Nat
    BY <2>1 DEF MemInv, Closing, ManifestInv, Committed, TypeOK, Manifest
  <2>6. ASSUME NEW u \in Committed + 1 .. pos
        PROVE  \E b \in LiveWal : b.seq <= synced /\ u \in b.rows
    <3>1. u \in Rows(LiveWal)
      BY <2>3, <2>5, <2>6
    <3>2. PICK b \in LiveWal : u \in b.rows
      BY <3>1 DEF Rows
    <3>3. b.seq <= synced
      BY <2>1, <3>2 DEF LiveWal, WalInv, CheckpointInv
    <3> QED BY <3>2, <3>3
  <2> QED BY <2>1, <2>3, <2>4, <2>6
         DEF CheckpointInv, CheckpointSurvives, IsOpen
<1>2. CASE Checkpoint
  <2>1. /\ pc = "idle" /\ pc' = "checkpointed" /\ synced' = last_sequence
        /\ cp' = cp /\ pos' = pos /\ Applied' = Applied
        /\ last_sequence' = last_sequence
        /\ LiveWal' = LiveWal /\ Committed' = Committed
    BY <1>2 DEF Checkpoint, Applied, LiveWal, Committed
  <2>2. \A b \in LiveWal : b.seq <= last_sequence
    BY <2>1 DEF LiveWal, WalInv
  <2> QED BY <2>1, <2>2 DEF CheckpointInv, CheckpointSurvives, IsOpen
<1>3. CASE Append
  <2>1. /\ wal \subseteq wal' /\ disk' = disk /\ cp' = cp /\ synced' = synced
        /\ pc = "append" /\ pc' \in {"idle", "segment"}
    BY <1>3 DEF Append
  <2>2. LiveWal \subseteq LiveWal' /\ Committed' = Committed
    BY <2>1 DEF LiveWal, Committed
  <2>3. Applied' >= Applied /\ Applied \in Nat /\ Applied' \in Nat /\ cp \in Nat
    BY <1>3, AppendApplies, AppliedType DEF TypeOK
  <2>4. cp <= Applied
    BY <2>1 DEF CheckpointInv, CheckpointSurvives, IsOpen
  <2>5. cp' <= Applied'
    BY <2>1, <2>3, <2>4
  <2> QED BY <2>1, <2>2, <2>5 DEF CheckpointInv, CheckpointSurvives, IsOpen
<1>4. CASE FlushManifest
  <2>1. /\ Applied' = Applied /\ disk'.committed = Applied /\ cp' = cp
        /\ pc = "manifest" /\ pc' = "clear"
    BY <1>4, AppliedStays DEF FlushManifest, Applied
  <2>2. cp <= Applied /\ cp \in Nat /\ Applied \in Nat
    BY <2>1, AppliedType DEF TypeOK, CheckpointInv, CheckpointSurvives, IsOpen
  <2>3. Committed' + 1 .. cp = {}
    BY <2>1, <2>2 DEF Committed
  <2> QED BY <2>1, <2>2, <2>3 DEF CheckpointInv, CheckpointSurvives,
         IsOpen
<1>5. CASE FlushClear
  <2>1. /\ pc = "clear" /\ cp' = cp /\ disk' = disk
        /\ memtable' = {} /\ commit_version' = commit_version
        /\ disk.committed = commit_version /\ disk.flushed = last_sequence
        /\ pc' \notin {"reset", "checkpointed"}
    <3>1. /\ pc = "clear" /\ cp' = cp /\ disk' = disk /\ pc' = ret
          /\ memtable' = {} /\ commit_version' = commit_version
      BY <1>5 DEF FlushClear
    <3>2. disk.committed = commit_version /\ disk.flushed = last_sequence
      BY <3>1 DEF ManifestInv
    <3>3. ret \notin {"reset", "checkpointed"}
      BY <3>1 DEF ControlInv, Flushing
    <3> QED BY <3>1, <3>2, <3>3
  <2>2. LiveWal = {}
    <3>1. \A b \in wal : b.seq \in Nat /\ b.seq <= last_sequence
      BY <2>1 DEF WalInv, TypeOK, Record
    <3>2. last_sequence \in Nat
      BY DEF TypeOK
    <3> QED BY <2>1, <3>1, <3>2 DEF LiveWal
  <2>3. cp <= Committed /\ cp \in Nat /\ Committed \in Nat /\ Committed' = Committed
    BY <2>1, <2>2, CheckpointCommitted DEF TypeOK, Manifest, Committed
  <2>4. Committed + 1 .. cp = {}
    BY <2>3
  <2>5. Applied' = Committed
    BY <2>1, <2>3, MaxOfOne DEF Applied, Committed
  <2> QED BY <2>1, <2>3, <2>4, <2>5
         DEF CheckpointInv, CheckpointSurvives, IsOpen
<1>6. CASE WalResetFails
  <2>1. /\ pc = "clear" /\ cp' = cp /\ disk' = disk
        /\ memtable' = {} /\ commit_version' = commit_version
        /\ disk.committed = commit_version /\ disk.flushed = last_sequence
        /\ pc' \notin {"reset", "checkpointed"}
    BY <1>6 DEF WalResetFails, ManifestInv, ControlInv, Flushing
  <2>2. LiveWal = {}
    BY <2>1 DEF WalInv, LiveWal, TypeOK, Record
  <2>3. cp <= Committed /\ cp \in Nat /\ Committed \in Nat /\ Committed' = Committed
    BY <2>1, <2>2, CheckpointCommitted DEF TypeOK, Manifest, Committed
  <2>4. Committed + 1 .. cp = {}
    BY <2>3
  <2>5. Applied' = Committed
    BY <2>1, <2>3, MaxOfOne DEF Applied, Committed
  <2> QED BY <2>1, <2>3, <2>4, <2>5
         DEF CheckpointInv, CheckpointSurvives, IsOpen
<1>7. CASE PublishStaged
  <2>1. /\ wal' = wal /\ cp' = cp /\ synced' = synced
        /\ disk'.flushed = disk.flushed /\ disk'.committed = commit_version'
        /\ commit_version' = Max(Rows(staged) \cup {commit_version})
        /\ memtable' = memtable /\ pc' = "advance" /\ pc # "closed"
        /\ disk.committed = commit_version
    BY <1>7, PublishStagedMakes DEF PublishStaged, ManifestInv
  <2>2. /\ commit_version' \in Nat /\ commit_version <= commit_version'
        /\ commit_version \in Nat
    <3>1. commit_version \in Nat
      BY DEF TypeOK
    <3>2. commit_version' \in 0..MaxVersion /\ commit_version <= commit_version'
      BY <1>7, PublishStagedMakes
    <3> QED BY <3>1, <3>2
  <2>3. memtable = {}
    BY <1>7 DEF PublishStaged, ControlInv
  <2>4. Applied = commit_version /\ Applied' = commit_version'
    <3>1. memtable' = {}
      BY <2>1, <2>3
    <3> QED BY ONLY ZenonT(30), <2>2, <2>3, <3>1, MaxOfOne DEF Applied
  <2>5. cp' <= Applied' /\ cp \in Nat
    BY <2>1, <2>2, <2>4 DEF TypeOK, CheckpointInv, CheckpointSurvives, IsOpen
  <2>6. LiveWal' = LiveWal /\ Committed' \in Nat /\ Committed <= Committed'
        /\ Committed \in Nat
    BY <2>1, <2>2 DEF LiveWal, Committed
  <2>7. \A u \in Committed' + 1 .. cp : u \in Committed + 1 .. cp
    <3> DEFINE d == Committed'
    <3>1. d \in Nat /\ Committed <= d /\ Committed \in Nat /\ cp \in Nat
      BY <2>5, <2>6
    <3> HIDE DEF d
    <3>2. \A u \in d + 1 .. cp : u \in Committed + 1 .. cp
      BY <3>1
    <3> QED BY <3>2 DEF d
  <2> QED BY ZenonT(30), <2>1, <2>5, <2>6, <2>7
         DEF CheckpointInv, CheckpointSurvives, IsOpen
<1>8. CASE Open
  <2>1. /\ cp' = cp /\ synced' = synced /\ disk' = disk /\ pc' = "idle"
        /\ LiveWal' = LiveWal
    BY <1>8, OpenReplays DEF Open
  <2> QED BY <1>8, <2>1, OpenCovers
         DEF Committed, CheckpointInv, CheckpointSurvives, IsOpen
<1>9. CASE Crash
  <2>1. PICK cut : cut >= synced /\ wal' = {b \in wal : b.seq <= cut}
                   /\ cut \in {synced} \cup {b.seq : b \in wal}
    BY <1>9 DEF Crash
  <2>2. cut \in Nat /\ synced \in Nat /\ \A b \in wal : b.seq \in Nat
    BY <2>1 DEF TypeOK, Record
  <2>3. cp' = cp /\ synced' = synced /\ disk' = disk /\ pc' = "closed"
    BY <1>9 DEF Crash
  <2>4. \A b \in LiveWal : b.seq <= synced => b \in LiveWal'
    BY <2>1, <2>2, <2>3 DEF LiveWal
  <2> QED BY <2>3, <2>4 DEF Committed, CheckpointInv, CheckpointSurvives, IsOpen
<1>10. CASE ResetWal
  <2>1. cp' = 0 /\ pos' = 0 /\ disk' = disk /\ pc' = "reset" /\ Applied' = Applied
    BY <1>10 DEF ResetWal, Applied
  <2>2. Applied \in Nat /\ Committed \in Nat
    BY AppliedType DEF TypeOK, Manifest, Committed
  <2>3. Committed' + 1 .. cp' = {} /\ cp' <= Applied'
    BY <2>1, <2>2 DEF Committed
  <2> QED BY <2>1, <2>3 DEF CheckpointInv, CheckpointSurvives, IsOpen
<1>11. CASE ResetManifest
  <2>1. /\ cp' = 0 /\ disk'.committed = 0 /\ pc' = "reclaim"
        /\ memtable' = {} /\ commit_version' = 0
    BY <1>11 DEF ResetManifest, EmptyManifest, CheckpointInv
  <2>2. Applied' = 0 /\ Committed' + 1 .. cp' = {}
    BY <2>1, MaxOfOne DEF Applied, Committed
  <2> QED BY <2>1, <2>2 DEF CheckpointInv, CheckpointSurvives, IsOpen
<1>12. CASE Reconnect
  BY <1>12 DEF Reconnect, Applied, LiveWal, Committed, CheckpointInv,
         CheckpointSurvives, IsOpen
<1>13. CASE Ingest
  BY <1>13 DEF Ingest, Applied, LiveWal, Committed, CheckpointInv,
         CheckpointSurvives, IsOpen
<1>14. CASE Stage
  BY <1>14 DEF Stage, Applied, LiveWal, Committed, CheckpointInv,
         CheckpointSurvives, IsOpen
<1>15. CASE IngestPolls
  <2>1. disk'.flushed = disk.flushed /\ disk'.committed = disk.committed
    BY <1>15, PublishMergeMakes DEF IngestPolls, Poll, ManifestInv
  <2> QED BY <1>15, <2>1, CheckpointFrame DEF IngestPolls, Poll,
         Applied
<1>16. CASE Advance
  <2>1. disk'.flushed = disk.flushed /\ disk'.committed = disk.committed
    BY <1>16, PublishMergeMakes DEF Advance, Poll, ManifestInv
  <2> QED BY <1>16, <2>1, CheckpointFrame DEF Advance, Poll, Applied
<1>17. CASE Maintain
  <2>1. disk'.flushed = disk.flushed /\ disk'.committed = disk.committed
    BY <1>17, PublishMergeMakes DEF Maintain, Poll, ManifestInv
  <2> QED BY <1>17, <2>1, CheckpointFrame DEF Maintain, Poll, Applied
<1>18. CASE Settle
  <2>1. disk'.flushed = disk.flushed /\ disk'.committed = disk.committed
    BY <1>18, PublishMergeMakes DEF Settle, ManifestInv
  <2> QED BY ZenonT(30), <1>18, <2>1, CheckpointFrame DEF Settle, Applied
<1>19. CASE SpawnStep("spawn", "reclaim")
  <2>1. disk'.flushed = disk.flushed /\ disk'.committed = disk.committed
    BY <1>19, SpawnMakes DEF SpawnStep, ManifestInv
  <2> QED BY <1>19, <2>1, CheckpointFrame DEF SpawnStep, Applied
<1>20. CASE SpawnStep("spawn_ingest", "append")
  <2>1. disk'.flushed = disk.flushed /\ disk'.committed = disk.committed
    BY <1>20, SpawnMakes DEF SpawnStep, ManifestInv
  <2> QED BY <1>20, <2>1, CheckpointFrame DEF SpawnStep, Applied
<1>21. CASE SpawnStep("spawn_idle", "idle")
  <2>1. disk'.flushed = disk.flushed /\ disk'.committed = disk.committed
    BY <1>21, SpawnMakes DEF SpawnStep, ManifestInv
  <2> QED BY <1>21, <2>1, CheckpointFrame DEF SpawnStep, Applied
<1>22. CASE ReserveStaged
  <2>1. disk'.flushed = disk.flushed /\ disk'.committed = disk.committed
    BY <1>22, ReserveMakes DEF ReserveStaged, ManifestInv
  <2> QED BY <1>22, <2>1, CheckpointFrame DEF ReserveStaged, Applied
<1>23. CASE Compact
  <2>1. disk'.flushed = disk.flushed /\ disk'.committed = disk.committed
    BY ZenonT(30), <1>23, CompactMakes DEF Compact, ManifestInv
  <2> QED BY <1>23, <2>1, CheckpointFrame DEF Compact, Applied
<1>24. CASE \/ AppendDirect \/ Flush \/ FlushSegment \/ PublishStagedFails
           \/ IoError \/ Reclaim \/ Close \/ MergeWrites \/ MergeFails
           \/ StagePiece \/ CompactFails \/ PublishMergeFails
           \/ UNCHANGED vars
  BY ZenonT(30), <1>24, CheckpointFrame
     DEF Applied, CheckpointInv, AppendDirect, Flush,
         FlushSegment, PublishStagedFails, IoError, Reclaim, Close,
         MergeWrites, MergeFails, StagePiece, CompactFails,
         PublishMergeFails, vars
<1>25. CASE Remove
  BY <1>25, CheckpointFrame DEF Remove, Applied, TypeOK
<1>26. ASSUME NEW r \in Readers, Snapshot(r) PROVE CheckpointInv'
  BY <1>26, CheckpointFrame DEF Snapshot, Applied, CheckpointInv
<1>27. ASSUME NEW r \in Readers, Release(r) PROVE CheckpointInv'
  BY <1>27, CheckpointFrame DEF Release, Applied, CheckpointInv
<1>28. CASE ResetWalFails
  <2>1. /\ cp' = 0 /\ pos' = 0 /\ disk' = disk /\ pc' = "settle"
        /\ Applied' = Applied
    BY <1>28 DEF ResetWalFails, Applied
  <2>2. Applied \in Nat /\ Committed \in Nat
    BY AppliedType DEF TypeOK, Manifest, Committed
  <2>3. Committed' + 1 .. cp' = {} /\ cp' <= Applied'
    BY <2>1, <2>2 DEF Committed
  <2> QED BY <2>1, <2>3 DEF CheckpointInv, CheckpointSurvives, IsOpen
<1> QED BY <1>1, <1>2, <1>3, <1>4, <1>5, <1>6, <1>7, <1>8, <1>9,
       <1>10, <1>11,
       <1>12, <1>13, <1>14, <1>15, <1>16, <1>17, <1>18, <1>19, <1>20, <1>21,
       <1>22, <1>23, <1>24, <1>25, <1>26, <1>27, <1>28 DEF Next, StoreStep

\* A step that leaves the stream's rows and the applied version alone.
LEMMA StreamFrame ==
    ASSUME StreamInv, pos' = pos, batch' = batch, staged' = staged,
           pc' # "closed" /\ ~ Closing' =>
             pc # "closed" /\ ~ Closing /\ Applied' = Applied
    PROVE  StreamInv'
BY DEF StreamInv

\* Nothing handed over is waiting: the table is at or past the position.
LEMMA StreamDrained ==
    ASSUME batch' = {}, staged' = {}, Applied' \in Nat, pos' \in Nat,
           pos' <= Applied'
    PROVE  StreamInv'
<1>1. Rows(staged') = {}
  BY DEF Rows
<1>2. Applied' + 1 .. pos' = {}
  <2> DEFINE a == Applied'
             p == pos'
  <2>1. a \in Nat /\ p \in Nat /\ p <= a
    OBVIOUS
  <2> HIDE DEF a, p
  <2>2. a + 1 .. p = {}
    BY <2>1
  <2> QED BY ZenonT(30), <2>2 DEF a, p
<1> QED BY ZenonT(30), <1>1, <1>2 DEF StreamInv

\* Between calls with nothing staged the position is within the applied
\* version.
LEMMA PositionApplied ==
    ASSUME TypeOK, StreamInv, batch = {}, staged = {}, pc # "closed", ~ Closing
    PROVE  pos <= Applied
<1>1. pos \in Nat /\ Applied \in Nat
  BY AppliedType DEF TypeOK
<1>2. ~ (pos \in Applied + 1 .. pos)
  BY BatchIsNext
<1> QED BY <1>1, <1>2

\* Handing over the next changes.
LEMMA HandOver ==
    ASSUME TypeOK, StreamInv, batch = {}, pc # "closed", ~ Closing,
           Applied' = Applied, staged' = staged,
           NEW n \in pos + 1 .. MaxVersion, pos' = n, batch' = Unapplied(n)
    PROVE  StreamInv'
<1> USE SourceAssumption
<1>1. pos \in Nat /\ Applied \in Nat /\ n \in Nat /\ pos < n
  BY AppliedType DEF TypeOK
<1>2. \A v \in batch' : v \in Nat /\ v > pos /\ v <= n /\ v > Applied
  BY <1>1 DEF Unapplied
<1>3. \A w \in Rows(staged) : w \in Nat /\ w > Applied /\ w <= pos
  BY RowsType DEF StreamInv, TypeOK, Versions
<1>4. \A v \in batch' : \A w \in Rows(staged) : w < v
  BY <1>1, <1>2, <1>3
<1>5. ASSUME NEW v \in Applied + 1 .. n, v \notin batch'
      PROVE  \E w \in Rows(staged) : KeyOf[w] = KeyOf[v] /\ w >= v
  <2>1. v <= pos
    BY <1>1, <1>5 DEF Unapplied
  <2>2. v \in Applied + 1 .. pos
    BY <1>1, <2>1
  <2> QED BY <2>2 DEF StreamInv
<1>6. \A w \in Rows(staged) : w <= n
  BY <1>1, <1>3
<1> QED BY <1>2, <1>3, <1>4, <1>5, <1>6 DEF StreamInv

\* Staging a piece moves the call's rows, one per key, behind the pieces.
LEMMA StageMoves ==
    ASSUME TypeOK, StreamInv, pc # "closed", ~ Closing, StagePiece
    PROVE  StreamInv'
<1>1. PICK s \in Segment : s.rows = Latest(batch) /\ staged' = staged \cup {s}
  BY StagePieceMakes
<1>2. batch' = {} /\ pos' = pos /\ Applied' = Applied
  BY DEF StagePiece, stream, memVars, Applied
<1>3. Rows(staged') = Rows(staged) \cup Latest(batch)
  <2>1. Rows({s}) = Latest(batch)
    BY <1>1 DEF Rows
  <2> QED BY <1>1, <2>1, RowsUnion
<1>4. Latest(batch) \subseteq batch /\ batch \in SUBSET Versions
  BY DEF Latest, TypeOK
<1>5. \A v \in Rows(staged') : v > Applied /\ v <= pos
  BY <1>3, <1>4 DEF StreamInv
<1>6. ASSUME NEW v \in Applied + 1 .. pos
      PROVE  \E w \in Rows(staged') : KeyOf[w] = KeyOf[v] /\ w >= v
  <2>1. CASE v \in batch
    <3>1. PICK m \in Latest(batch) : KeyOf[m] = KeyOf[v] /\ v <= m
      BY <1>4, <2>1, LatestCovers
    <3>2. m \in Nat /\ v \in Nat
      <4>1. m \in Versions /\ v \in Versions
        BY ZenonT(30), <1>4, <2>1, <3>1
      <4> QED BY <4>1 DEF Versions
    <3> QED BY <1>3, <3>1, <3>2
  <2>2. CASE v \notin batch
    BY <1>3, <2>2 DEF StreamInv
  <2> QED BY <2>1, <2>2
<1> QED BY <1>2, <1>5, <1>6 DEF StreamInv

\* Publishing the pieces applies all of them.
LEMMA PublishDrains ==
    ASSUME TypeOK, ManifestInv, ControlInv, StreamInv, PublishStaged
    PROVE  StreamInv'
<1>1. /\ pos' = pos /\ batch' = batch /\ staged' = {} /\ memtable' = memtable
      /\ pc \in {"idle", "publish"} /\ ret = "idle" /\ batch = {} /\ memtable = {}
  BY DEF PublishStaged, ControlInv, Flushing, Reclaiming, stream
<1>3. commit_version \in 0..MaxVersion /\ Rows(staged) \in SUBSET Versions
  BY RowsType DEF TypeOK
<1>4. /\ commit_version' \in 0..MaxVersion /\ commit_version <= commit_version'
      /\ \A w \in Rows(staged) : w <= commit_version'
  BY PublishStagedMakes
<1>5. Applied = commit_version /\ Applied' = commit_version'
  <2>1. commit_version \in Nat /\ commit_version' \in Nat
    BY <1>3, <1>4
  <2> QED BY <1>1, <2>1, MaxOfOne DEF Applied
<1>6. pos <= Applied'
  <2> SUFFICES ASSUME pos > Applied' PROVE FALSE
    BY <1>4, <1>5 DEF TypeOK
  <2>1. pos \in Applied + 1 .. pos
    BY <1>3, <1>4, <1>5 DEF TypeOK
  <2>2. PICK w \in Rows(staged) : w >= pos
    BY <1>1, <2>1 DEF StreamInv, Closing
  <2> QED BY <1>3, <1>4, <1>5, <2>2 DEF TypeOK, Versions
<1>7. Applied' \in Nat /\ pos' \in Nat
  BY <1>1, <1>4, <1>5 DEF TypeOK
<1> QED BY <1>1, <1>6, <1>7, StreamDrained

\* Every step keeps track of what the stream handed over.
LEMMA StreamStep == IInv /\ [Next]_vars => StreamInv'
<1> SUFFICES ASSUME TypeOK, ManifestInv, ControlInv, Resolves(disk),
                    WalInv, MemInv, CheckpointInv, StreamInv, [Next]_vars
             PROVE  StreamInv'
  BY DEF IInv, RowInv, ResolveInv
<1> USE DEF stream, logVars, control, memVars, stageVars
<1>1. CASE Ingest
  <2>1. PICK n \in pos + 1 .. MaxVersion : pos' = n /\ batch' = Unapplied(n)
    BY <1>1 DEF Ingest
  <2>2. /\ batch = {} /\ pc # "closed" /\ ~ Closing
        /\ Applied' = Applied /\ staged' = staged
    BY <1>1 DEF Ingest, ControlInv, Flushing, Reclaiming, Closing, Applied
  <2> QED BY <2>1, <2>2, HandOver
<1>2. CASE Stage
  <2>1. PICK n \in pos + 1 .. MaxVersion : pos' = n /\ batch' = Unapplied(n)
    BY <1>2 DEF Stage
  <2>2. /\ batch = {} /\ pc # "closed" /\ ~ Closing
        /\ Applied' = Applied /\ staged' = staged
    BY <1>2 DEF Stage, ControlInv, Flushing, Reclaiming, Closing, Applied
  <2> QED BY <2>1, <2>2, HandOver
<1>3. CASE StagePiece
  <2>1. pc # "closed" /\ ~ Closing
    BY <1>3 DEF StagePiece, ControlInv, Flushing, Reclaiming, Closing
  <2> QED BY <1>3, <2>1, StageMoves
<1>4. CASE PublishStaged
  BY <1>4, PublishDrains
<1>5. CASE Append
  <2>1. batch' = {} /\ staged' = {} /\ pos' = pos
    BY <1>5 DEF Append, ControlInv
  <2>2. Applied' = pos /\ pos \in Nat
    BY <1>5, AppendApplies DEF TypeOK
  <2> QED BY <2>1, <2>2, StreamDrained
<1>6. CASE FlushManifest
  <2>1. Applied' = Applied
    BY ZenonT(30), <1>6, AppliedStays DEF FlushManifest, Applied
  <2>2. /\ pos' = pos /\ batch' = batch /\ staged' = staged
        /\ pc = "manifest" /\ pc' = "clear" /\ ret' = ret
    BY <1>6 DEF FlushManifest
  <2> QED BY <2>1, <2>2, StreamFrame DEF Closing
<1>7. CASE FlushClear
  <2>1. /\ memtable' = {} /\ commit_version' = commit_version
        /\ commit_version = Applied /\ commit_version \in Nat
    <3>1. pc = "clear" /\ memtable' = {} /\ commit_version' = commit_version
      BY <1>7 DEF FlushClear
    <3>2. commit_version = Applied
      BY <3>1 DEF ManifestInv
    <3>3. commit_version \in Nat
      BY DEF TypeOK
    <3> QED BY <3>1, <3>2, <3>3
  <2>2. Applied' = Applied
    BY <2>1, MaxOfOne DEF Applied
  <2> QED BY <1>7, <2>2, StreamFrame
         DEF FlushClear, ControlInv, Flushing, Closing
<1>8. CASE \/ WalResetFails \/ PublishStagedFails \/ IoError \/ Close
          \/ ResetWalFails
  BY <1>8 DEF WalResetFails, PublishStagedFails, IoError, Close,
         ResetWalFails, StreamInv, Closing
<1>9. CASE Reconnect
  <2>1. /\ pos' = cp /\ batch' = {} /\ staged' = {} /\ Applied' = Applied
        /\ pc # "closed"
    BY <1>9 DEF Reconnect, ControlInv, Flushing, Reclaiming, Applied
  <2>2. cp <= Applied /\ cp \in Nat /\ Applied \in Nat
    BY <2>1, AppliedType DEF CheckpointInv, CheckpointSurvives, IsOpen, TypeOK
  <2> QED BY <2>1, <2>2, StreamDrained
<1>10. CASE Open
  <2>1. pos' = cp /\ batch' = {} /\ staged' = {}
    BY <1>10 DEF Open, ControlInv, Flushing, Reclaiming
  <2>2. cp <= Applied' /\ cp \in Nat /\ Applied' \in Nat
    BY <1>10, OpenCovers, OpenReplays DEF TypeOK
  <2> QED BY <2>1, <2>2, StreamDrained
<1>11. CASE ResetWal
  <2>1. /\ pos' = 0 /\ batch' = {} /\ staged' = {} /\ Applied' = Applied
        /\ pc # "closed"
    BY <1>11 DEF ResetWal, ControlInv, Flushing, Reclaiming, Applied
  <2>2. Applied \in Nat
    BY AppliedType
  <2> QED BY <2>1, <2>2, StreamDrained
<1>12. CASE ResetManifest
  <2>1. /\ pos' = 0 /\ batch' = {} /\ staged' = {}
        /\ memtable' = {} /\ commit_version' = 0
    BY <1>12 DEF ResetManifest, CheckpointInv, ControlInv, Flushing, Reclaiming
  <2>2. Applied' = 0
    BY <2>1, MaxOfOne DEF Applied
  <2> QED BY <2>1, <2>2, StreamDrained
<1>13. CASE Crash
  BY <1>13 DEF Crash, StreamInv
<1>14. CASE IngestPolls
  BY <1>14, StreamFrame DEF IngestPolls, Poll, ControlInv, Flushing,
         Reclaiming,
         Closing, Applied
<1>15. CASE Advance
  BY <1>15, StreamFrame DEF Advance, Poll, ControlInv, Flushing,
         Reclaiming,
         Closing, Applied
<1>16. CASE Maintain
  BY <1>16, StreamFrame DEF Maintain, Poll, ControlInv, Flushing, Reclaiming,
         Closing, Applied
<1>17. CASE Settle
  BY <1>17 DEF Settle, StreamInv, Closing
<1>18. CASE \/ AppendDirect \/ Flush \/ FlushSegment
  BY <1>18, StreamFrame DEF ControlInv, Flushing, Reclaiming, Closing, Applied,
         AppendDirect, Flush, FlushSegment
<1>19. CASE SpawnStep("spawn", "reclaim")
  BY <1>19, StreamFrame DEF SpawnStep, Closing, Applied
<1>20. CASE SpawnStep("spawn_ingest", "append")
  BY <1>20, StreamFrame DEF SpawnStep, Closing, Applied
<1>21. CASE SpawnStep("spawn_idle", "idle")
  BY <1>21, StreamFrame DEF SpawnStep, Closing, Applied
<1>22. CASE \/ Compact \/ CompactFails \/ PublishMergeFails \/ Checkpoint
           \/ CommitCheckpoint
  BY ZenonT(30), <1>22, StreamFrame
     DEF Compact, CompactFails, PublishMergeFails, Checkpoint,
         CommitCheckpoint, Closing, Applied
<1>23. CASE Remove
  BY <1>23, StreamFrame DEF Remove, ControlInv, Flushing, Reclaiming, Closing,
         Applied
<1>24. CASE \/ Reclaim \/ MergeWrites \/ MergeFails \/ UNCHANGED vars
  BY ZenonT(30), <1>24, StreamFrame DEF Reclaim, MergeWrites, MergeFails, vars,
         Closing,
         Applied
<1>25. ASSUME NEW r \in Readers, Snapshot(r) PROVE StreamInv'
  BY <1>25, StreamFrame DEF Snapshot, Closing, Applied
<1>26. ASSUME NEW r \in Readers, Release(r) PROVE StreamInv'
  BY <1>26, StreamFrame DEF Release, Closing, Applied
<1>27. CASE ReserveStaged
  BY <1>27, StreamFrame DEF ReserveStaged, Closing, Applied
<1> QED BY <1>1, <1>2, <1>3, <1>4, <1>5, <1>6, <1>7, <1>8, <1>9,
       <1>10, <1>11,
       <1>12, <1>13, <1>14, <1>15, <1>16, <1>17, <1>18, <1>19, <1>20, <1>21,
       <1>22, <1>23, <1>24, <1>25, <1>26, <1>27 DEF Next, StoreStep
=============================================================================
