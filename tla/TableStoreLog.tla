--------------------------- MODULE TableStoreLog ----------------------------
(***************************************************************************)
(* Every step of TableStore keeps the log and the memtable in step with    *)
(* the segments.                                                           *)
(***************************************************************************)
EXTENDS TableStoreTypes

USE SMTT(30), ZenonT(30)

\* A step that leaves the log and the manifest's marks alone keeps the log's
\* order.
LEMMA WalFrame ==
    ASSUME WalInv, wal' = wal,
           disk'.flushed = disk.flushed, disk'.committed = disk.committed,
           pc' # "closed" => pc # "closed" /\ last_sequence' = last_sequence,
           pc' = "reset" => pc = "reset"
    PROVE  WalInv'
BY DEF WalInv, LiveWal, Committed

\* What is in the handle while a call runs: the rows it appends are the
\* changes after the applied one, up to the stream's position.
LEMMA BatchIsNext ==
    ASSUME TypeOK, StreamInv, staged = {}, pc # "closed", ~ Closing
    PROVE  batch = Applied + 1 .. pos
<1>1. Rows(staged) = {}
  BY DEF Rows
<1>2. \A v \in batch : v \in Nat /\ v > Applied /\ v <= pos
  BY DEF StreamInv, TypeOK, Versions
<1>3. \A v \in Applied + 1 .. pos : v \in batch
  BY <1>1 DEF StreamInv
<1>4. Applied \in Nat /\ pos \in Nat
  BY AppliedType DEF TypeOK
<1>5. \A v \in batch : v \in Applied + 1 .. pos
  BY <1>2, <1>4
<1> QED BY ZenonT(30), <1>3, <1>5

\* Appending takes the table to the stream's position.
LEMMA AppendApplies ==
    ASSUME TypeOK, ManifestInv, ControlInv, MemInv, StreamInv, Append
    PROVE  /\ batch = Applied + 1 .. pos /\ Applied < pos
           /\ memtable' = Latest(manifest.committed + 1 .. pos)
           /\ Applied' = pos
<1> USE SourceAssumption
<1>1. pc = "append" /\ ret = "idle" /\ staged = {} /\ batch # {}
  BY DEF Append, ControlInv, Flushing, Reclaiming
<1>2. batch = Applied + 1 .. pos
  BY <1>1, BatchIsNext DEF Closing
<1> DEFINE a == manifest.committed
           b == Applied
<1>3. /\ a \in 0..MaxVersion /\ b \in 0..MaxVersion /\ pos \in 0..MaxVersion
      /\ a <= b /\ commit_version = a
  BY <1>1, AppliedType DEF ManifestInv, TypeOK, Manifest
<1>4. b < pos
  BY <1>1, <1>2, <1>3
<1>5. memtable = Latest(a + 1 .. b)
  BY <1>1 DEF MemInv
<1>6. memtable' = Latest(memtable \cup batch) /\ commit_version' = commit_version
  BY DEF Append, memVars
<1> HIDE DEF a, b
<1>7. memtable' = Latest(Latest(a + 1 .. b) \cup (b + 1 .. pos))
  BY <1>2, <1>5, <1>6 DEF b
<1>8. memtable' = Latest(a + 1 .. pos)
  BY <1>3, <1>4, <1>7, LatestExtend
<1>9. a <= pos /\ a \in {a, pos}
  BY <1>3, <1>4
<1>10. Max(Latest(a + 1 .. pos) \cup {a}) = pos
  BY ZenonT(30), <1>3, <1>9, LatestMax
<1>11. Applied' = pos
  BY ZenonT(30), <1>3, <1>6, <1>8, <1>10 DEF Applied
<1> QED BY <1>2, <1>4, <1>8, <1>11 DEF a, b

\* With an empty memtable nothing in the log is waiting for a flush.
LEMMA NothingLive ==
    ASSUME TypeOK, ManifestInv, MemInv, pc \notin {"closed", "clear", "reset"},
           ~ Closing, memtable = {}
    PROVE  Rows(LiveWal) = {} /\ Applied = manifest.committed
<1>1. Applied = manifest.committed
  BY AppliedType DEF ManifestInv
<1>2. manifest.committed \in Nat
  BY DEF TypeOK, Manifest
<1> QED BY <1>1, <1>2 DEF MemInv

\* A record more at the end of the log.
LEMMA AppendWal ==
    ASSUME TypeOK, ManifestInv, ControlInv, WalInv, MemInv, StreamInv, Append
    PROVE  WalInv'
<1> DEFINE new == [seq |-> last_sequence + 1, rows |-> batch]
<1>1. pc = "append" /\ pc' # "closed" /\ pc' # "reset" /\ ret = "idle"
  BY DEF Append, ControlInv, Flushing, Reclaiming
<1>2. /\ wal' = wal \cup {new} /\ disk' = disk
      /\ last_sequence' = last_sequence + 1
      /\ new.seq = last_sequence + 1 /\ new.rows = batch
  BY DEF Append
<1>3. /\ \A b \in wal : b.seq \in Nat /\ b.seq <= last_sequence
      /\ disk.flushed <= last_sequence
      /\ disk.flushed \in Nat /\ last_sequence \in Nat
  BY <1>1 DEF WalInv, TypeOK, Record, Manifest
<1> HIDE DEF new
<1>4. LiveWal' = LiveWal \cup {new}
  BY <1>2, <1>3 DEF LiveWal
<1>5. Rows(LiveWal) = Committed + 1 .. Applied /\ Committed' = Committed
      /\ Committed \in Nat /\ Applied \in Nat /\ pos \in Nat
  BY <1>1, <1>2, AppliedType
     DEF MemInv, Closing, ManifestInv, Committed, TypeOK, Manifest
<1>6. batch = Applied + 1 .. pos
  BY AppendApplies
<1>7. \A b \in LiveWal' : \A v \in b.rows : v > Committed'
  <2> TAKE b \in LiveWal'
  <2>1. CASE b \in LiveWal
    BY <1>5, <2>1 DEF WalInv
  <2>2. CASE b = new
    <3>1. Committed <= Applied
      BY <1>1, AppliedType DEF ManifestInv, Committed
    <3> QED BY <1>2, <1>5, <1>6, <2>2, <3>1
  <2> QED BY <1>4, <2>1, <2>2
<1>8. \A b \in LiveWal' : \A v \in b.rows : \A u \in Committed' + 1 .. v :
        \E c \in LiveWal' : u \in c.rows /\ c.seq <= b.seq
  <2> TAKE b \in LiveWal'
  <2> TAKE v \in b.rows
  <2> TAKE u \in Committed' + 1 .. v
  <2>1. CASE b \in LiveWal
    BY <1>4, <1>5, <2>1 DEF WalInv
  <2>2. CASE b = new
    <3>1. v \in Nat /\ v <= pos
      BY <1>2, <1>5, <1>6, <2>2
    <3>2. CASE u <= Applied
      <4>1. u \in Rows(LiveWal)
        BY <1>5, <3>1, <3>2
      <4>2. PICK c \in LiveWal : u \in c.rows
        BY <4>1 DEF Rows
      <4>3. c.seq <= b.seq
        BY <1>2, <1>3, <2>2, <4>2 DEF LiveWal
      <4> QED BY <1>4, <4>2, <4>3
    <3>3. CASE u > Applied
      <4>1. u \in new.rows
        BY <1>2, <1>5, <1>6, <3>1, <3>3
      <4>2. new.seq <= b.seq
        BY <1>2, <1>3, <2>2
      <4> QED BY <1>4, <4>1, <4>2
    <3> QED BY <1>5, <3>1, <3>2, <3>3
  <2> QED BY <1>4, <2>1, <2>2
<1>9. /\ \A b \in wal' : b.seq <= last_sequence'
      /\ disk'.flushed <= last_sequence'
  BY <1>2, <1>3
<1>10. /\ last_sequence' \in {b.seq : b \in wal'} \cup {disk'.flushed}
       /\ last_sequence' >= disk'.flushed
  BY <1>2, <1>3
<1> QED BY <1>1, <1>7, <1>8, <1>9, <1>10 DEF WalInv

\* A power loss leaves a prefix of the log.
LEMMA CrashWal ==
    ASSUME TypeOK, WalInv, Crash
    PROVE  WalInv'
<1>1. PICK cut \in {synced} \cup {b.seq : b \in wal} :
        cut >= synced /\ wal' = {b \in wal : b.seq <= cut}
  BY DEF Crash
<1>2. disk' = disk /\ pc' = "closed"
  BY DEF Crash
<1>3. cut \in Nat /\ \A b \in wal : b.seq \in Nat
  BY <1>1 DEF TypeOK, Record
<1>4. LiveWal' = {b \in LiveWal : b.seq <= cut} /\ Committed' = Committed
  BY <1>1, <1>2 DEF LiveWal, Committed
<1>5. \A b \in LiveWal' : \A v \in b.rows : v > Committed'
  BY <1>4 DEF WalInv
<1>6. \A b \in LiveWal' : \A v \in b.rows : \A u \in Committed' + 1 .. v :
        \E c \in LiveWal' : u \in c.rows /\ c.seq <= b.seq
  <2> TAKE b \in LiveWal'
  <2> TAKE v \in b.rows
  <2> TAKE u \in Committed' + 1 .. v
  <2>1. PICK c \in LiveWal : u \in c.rows /\ c.seq <= b.seq
    BY <1>4 DEF WalInv
  <2>2. c.seq <= cut
    <3>1. c \in wal /\ b \in wal /\ b.seq <= cut
      BY <1>4, <2>1 DEF LiveWal
    <3> QED BY <1>3, <2>1, <3>1
  <2> QED BY <1>4, <2>1, <2>2
<1>7. \E n \in {b.seq : b \in wal'} \cup {disk'.flushed} :
        n >= disk'.flushed /\ \A b \in wal' : b.seq <= n
  <2> DEFINE S == {b.seq : b \in wal'} \cup {disk.flushed}
  <2>1. PICK m \in Nat : m >= disk.flushed /\ \A b \in wal : b.seq <= m
    BY <1>3 DEF WalInv, TypeOK, Manifest
  <2>2. S \in SUBSET Nat /\ S # {} /\ \A x \in S : x <= m
    BY <1>1, <1>3, <2>1 DEF TypeOK, Manifest
  <2>3. (\A b \in wal' : b.seq \in S) /\ disk.flushed \in S
    OBVIOUS
  <2>4. PICK n \in S : \A x \in S : x <= n
    <3> HIDE DEF S
    <3> QED BY ZenonT(30), <2>1, <2>2, BoundedMax
  <2>5. n >= disk.flushed /\ \A b \in wal' : b.seq <= n
    BY <2>2, <2>3, <2>4
  <2> QED BY <1>2, <2>4, <2>5
<1> QED BY <1>2, <1>5, <1>6, <1>7 DEF WalInv

\* Every step keeps the log's records in the source's order.
LEMMA WalStep == IInv /\ [Next]_vars => WalInv'
<1> SUFFICES ASSUME TypeOK, ManifestInv, ControlInv, WalInv, MemInv, StreamInv,
                    [Next]_vars
             PROVE  WalInv'
  BY DEF IInv, RowInv
<1> USE DEF stream, logVars, control, memVars, stageVars
<1>1. CASE Append
  BY <1>1, AppendWal
<1>2. CASE Crash
  BY <1>2, CrashWal
<1>3. CASE FlushManifest
  <2>1. /\ wal' = wal /\ disk'.flushed = last_sequence
        /\ last_sequence' = last_sequence /\ pc = "manifest" /\ pc' = "clear"
    BY <1>3 DEF FlushManifest
  <2>2. /\ \A b \in wal : b.seq \in Nat /\ b.seq <= last_sequence
        /\ last_sequence \in Nat
    BY <2>1 DEF WalInv, TypeOK, Record
  <2>3. LiveWal' = {}
    BY <2>1, <2>2 DEF LiveWal
  <2> QED BY <2>1, <2>2, <2>3 DEF WalInv
<1>4. CASE FlushClear
  <2>1. /\ wal' = {} /\ disk' = disk /\ last_sequence' = last_sequence
        /\ pc = "clear" /\ pc' = ret
    BY <1>4 DEF FlushClear
  <2>2. pc' # "reset" /\ disk.flushed \in Nat /\ disk.flushed <= last_sequence
    BY <2>1 DEF WalInv, TypeOK, Manifest
  <2> QED BY <2>1, <2>2 DEF WalInv, LiveWal
<1>5. CASE PublishStaged
  <2>1. /\ wal' = wal /\ disk'.flushed = disk.flushed
        /\ last_sequence' = last_sequence /\ pc' = "advance"
    BY <1>5, PublishStagedMakes DEF PublishStaged, ManifestInv
  <2>2. pc \in {"idle", "publish"} /\ ret = "idle" /\ memtable = {}
    BY <1>5 DEF PublishStaged, ControlInv, Flushing, Reclaiming
  <2>3. Rows(LiveWal) = {}
    BY <2>2, NothingLive DEF Closing
  <2>4. \A b \in LiveWal' : b.rows = {}
    BY <2>1, <2>3 DEF LiveWal, Rows
  <2> QED BY <2>1, <2>2, <2>4 DEF WalInv
<1>6. CASE Open
  <2>1. /\ wal' = wal \/ (wal' = {} /\ LiveWal = {})
        /\ disk' = disk
        /\ pc' = "idle"
        /\ last_sequence' = Max({b.seq : b \in wal} \cup {disk.flushed})
    BY <1>6 DEF Open, LiveWal
  <2>2. CASE wal' = wal
    BY <2>1, <2>2, LastSequence DEF WalInv, LiveWal, Committed
  <2>3. CASE wal' = {} /\ disk' = disk
    <3>1. disk.flushed \in Nat
      BY DEF TypeOK, Manifest
    <3> QED BY <2>1, <2>3, <3>1, LastSequence DEF WalInv, LiveWal
  <2> QED BY <2>1, <2>2, <2>3
<1>7. CASE ResetWal
  <2>1. disk.flushed \in Nat /\ disk.flushed <= last_sequence
    BY <1>7 DEF ResetWal, WalInv, TypeOK, Manifest
  <2> QED BY <1>7, <2>1 DEF ResetWal, WalInv, LiveWal
<1>8. CASE ResetManifest
  <2>1. wal' = {} /\ disk'.flushed = 0 /\ last_sequence' = 0 /\ pc' = "reclaim"
    BY <1>8 DEF ResetManifest, EmptyManifest, WalInv
  <2> QED BY <2>1 DEF WalInv, LiveWal
<1>9. CASE IngestPolls
  <2>1. disk'.flushed = disk.flushed /\ disk'.committed = disk.committed
    BY <1>9, PublishMergeMakes DEF IngestPolls, Poll, ManifestInv
  <2> QED BY <1>9, <2>1, WalFrame DEF IngestPolls, Poll
<1>10. CASE Advance
  <2>1. disk'.flushed = disk.flushed /\ disk'.committed = disk.committed
    BY <1>10, PublishMergeMakes DEF Advance, Poll, ManifestInv
  <2> QED BY <1>10, <2>1, WalFrame DEF Advance, Poll
<1>11. CASE Maintain
  <2>1. disk'.flushed = disk.flushed /\ disk'.committed = disk.committed
    BY <1>11, PublishMergeMakes DEF Maintain, Poll, ManifestInv
  <2> QED BY <1>11, <2>1, WalFrame DEF Maintain, Poll
<1>12. CASE Settle
  <2>1. disk'.flushed = disk.flushed /\ disk'.committed = disk.committed
    BY <1>12, PublishMergeMakes DEF Settle, ManifestInv
  <2> QED BY <1>12, <2>1, WalFrame DEF Settle, Forget
<1>13. CASE SpawnStep("spawn", "reclaim")
  <2>1. disk'.flushed = disk.flushed /\ disk'.committed = disk.committed
    BY <1>13, SpawnMakes DEF SpawnStep, ManifestInv
  <2> QED BY <1>13, <2>1, WalFrame DEF SpawnStep
<1>14. CASE SpawnStep("spawn_ingest", "append")
  <2>1. disk'.flushed = disk.flushed /\ disk'.committed = disk.committed
    BY <1>14, SpawnMakes DEF SpawnStep, ManifestInv
  <2> QED BY <1>14, <2>1, WalFrame DEF SpawnStep
<1>15. CASE SpawnStep("spawn_idle", "idle")
  <2>1. disk'.flushed = disk.flushed /\ disk'.committed = disk.committed
    BY ZenonT(30), <1>15, SpawnMakes DEF SpawnStep, ManifestInv
  <2> QED BY <1>15, <2>1, WalFrame DEF SpawnStep
<1>16. CASE ReserveStaged
  <2>1. disk'.flushed = disk.flushed /\ disk'.committed = disk.committed
    BY <1>16, ReserveMakes DEF ReserveStaged, ManifestInv
  <2> QED BY <1>16, <2>1, WalFrame DEF ReserveStaged
<1>17. CASE Compact
  <2>1. disk'.flushed = disk.flushed /\ disk'.committed = disk.committed
    BY ZenonT(30), <1>17, CompactMakes DEF Compact, ManifestInv
  <2> QED BY <1>17, <2>1, WalFrame DEF Compact
<1>18. CASE \/ Ingest \/ AppendDirect \/ Flush \/ FlushSegment \/ Stage
           \/ PublishStagedFails \/ WalResetFails \/ Reclaim \/ Checkpoint
           \/ CommitCheckpoint \/ Reconnect \/ IoError \/ Close \/ MergeWrites
           \/ MergeFails \/ StagePiece \/ CompactFails \/ PublishMergeFails
           \/ ResetWalFails \/ UNCHANGED vars
  BY ZenonT(30), <1>18, WalFrame
     DEF Ingest, AppendDirect, Flush, FlushSegment, Stage,
         PublishStagedFails, WalResetFails, Reclaim, Checkpoint,
         CommitCheckpoint, Reconnect, IoError, Close, MergeWrites,
         MergeFails, StagePiece, CompactFails, PublishMergeFails,
         ResetWalFails, vars
<1>19. CASE Remove
  BY <1>19, WalFrame DEF Remove, TypeOK
<1>20. ASSUME NEW r \in Readers, Snapshot(r) PROVE WalInv'
  BY <1>20, WalFrame DEF Snapshot
<1>21. ASSUME NEW r \in Readers, Release(r) PROVE WalInv'
  BY <1>21, WalFrame DEF Release
<1> QED BY <1>1, <1>2, <1>3, <1>4, <1>5, <1>6, <1>7, <1>8, <1>9, <1>10, <1>11,
       <1>12, <1>13, <1>14, <1>15, <1>16, <1>17, <1>18, <1>19, <1>20, <1>21
              DEF Next, StoreStep

\* open replays the log's live records into the memtable and finds the version
\* they reach.
LEMMA OpenReplays ==
    ASSUME TypeOK, Resolves(disk), WalInv, Open
    PROVE  /\ manifest'.committed = disk.committed
           /\ commit_version' = disk.committed
           /\ LiveWal' = LiveWal
           /\ disk.committed <= Applied' /\ Applied' \in 0..MaxVersion
           /\ Rows(LiveWal) = disk.committed + 1 .. Applied'
           /\ memtable' = Latest(disk.committed + 1 .. Applied')
<1> USE SourceAssumption
<1> DEFINE c == disk.committed
           R == Rows(LiveWal)
           n == Max(R \cup {c})
<1>1. c \in 0..MaxVersion
  BY DEF TypeOK, Manifest
<1>2. R \in SUBSET Versions
  BY DEF TypeOK, Record, Rows, LiveWal
<1>3. n \in 0..MaxVersion /\ n \in R \cup {c} /\ \A v \in R \cup {c} : v <= n
  <2> HIDE DEF c, R
  <2> QED BY ZenonT(30), <1>1, <1>2, MaxVersionOf
<1>4. \A v \in R : v > c
  BY DEF Rows, WalInv, Committed
<1>5. ASSUME NEW u \in c + 1 .. n PROVE u \in R
  <2>1. n \in R
    BY <1>1, <1>3, <1>5
  <2>2. PICK b \in LiveWal : n \in b.rows
    BY <2>1 DEF Rows
  <2>3. PICK d \in LiveWal : u \in d.rows
    BY <2>2, <1>5 DEF WalInv, Committed
  <2> QED BY <2>3 DEF Rows
<1>6. manifest' = disk /\ commit_version' = c /\ memtable' = Latest(R)
  BY CommittedMax DEF Open, LiveWal
<1>7. LiveWal' = LiveWal
  BY DEF Open, LiveWal
<1> HIDE DEF c, R, n
<1>8. R = c + 1 .. n /\ c <= n
  <2>1. c <= n
    BY ZenonT(30), <1>3
  <2>2. \A v \in R : v \in c + 1 .. n
    BY <1>1, <1>2, <1>3, <1>4 DEF Versions
  <2> QED BY ZenonT(30), <1>5, <2>1, <2>2
<1>9. Max(Latest(c + 1 .. n) \cup {c}) = n
  <2>1. c \in {c, n}
    OBVIOUS
  <2> QED BY ZenonT(30), <1>1, <1>3, <1>8, <2>1, LatestMax
<1>10. Applied' = n
  BY <1>6, <1>8, <1>9 DEF Applied
<1> QED BY <1>3, <1>6, <1>7, <1>8, <1>10 DEF c, R

\* A step that leaves rows and marks alone keeps the memtable's meaning.
LEMMA MemFrame ==
    ASSUME MemInv, UNCHANGED <<memtable, commit_version, wal>>,
           manifest'.committed = manifest.committed,
           disk'.flushed = disk.flushed,
           pc' # "closed" => pc # "closed",
           pc' \notin {"clear", "reset"} /\ ~ Closing' =>
             pc \notin {"clear", "reset"} /\ ~ Closing
    PROVE  MemInv'
<1>1. LiveWal' = LiveWal /\ Applied' = Applied
  BY DEF LiveWal, Applied
<1> QED BY <1>1 DEF MemInv

\* A cleared memtable over a manifest that committed all of it.
LEMMA MemCleared ==
    ASSUME memtable' = {}, commit_version' = manifest'.committed,
           manifest'.committed \in Nat,
           pc' \notin {"clear", "reset"} /\ ~ Closing' => Rows(LiveWal') = {}
    PROVE  MemInv'
<1>1. Applied' = commit_version'
  <2>1. {commit_version'} \in SUBSET Nat /\ commit_version' \in {commit_version'}
        /\ \A x \in {commit_version'} : x <= commit_version'
    OBVIOUS
  <2>2. Max({commit_version'}) = commit_version'
    BY <2>1, MaxIs
  <2>3. memtable' \cup {commit_version'} = {commit_version'}
    OBVIOUS
  <2> QED BY <2>2, <2>3 DEF Applied
<1>2. manifest'.committed + 1 .. Applied' = {}
  BY <1>1
<1>3. Latest({}) = {}
  BY DEF Latest
<1> QED BY ZenonT(30), <1>2, <1>3 DEF MemInv

\* Every step keeps the memtable the changes since the committed version.
LEMMA MemStep == IInv /\ [Next]_vars => MemInv'
<1> SUFFICES ASSUME TypeOK, ManifestInv, ControlInv, Resolves(disk),
                        WalInv, MemInv, StreamInv, [Next]_vars PROVE MemInv'
  BY DEF IInv, RowInv, ResolveInv
<1> USE DEF stream, logVars, control, memVars, stageVars
<1>1. CASE Open
  <2>1. disk' = disk
    BY <1>1 DEF Open
  <2> QED BY <1>1, <2>1, OpenReplays DEF MemInv
<1>2. CASE Append
  <2>1. /\ batch = Applied + 1 .. pos /\ Applied < pos /\ Applied' = pos
        /\ memtable' = Latest(manifest.committed + 1 .. pos)
    BY <1>2, AppendApplies
  <2> DEFINE new == [seq |-> last_sequence + 1, rows |-> batch]
  <2>2. /\ wal' = wal \cup {new} /\ disk' = disk /\ manifest' = manifest
        /\ new.seq = last_sequence + 1 /\ new.rows = batch
        /\ pc = "append" /\ ret = "idle"
    BY <1>2 DEF Append, ControlInv, Flushing, Reclaiming
  <2>3. disk.flushed <= last_sequence /\ disk.flushed \in Nat /\ last_sequence \in Nat
    BY <2>2 DEF WalInv, TypeOK, Manifest
  <2> HIDE DEF new
  <2>4. LiveWal' = LiveWal \cup {new}
    BY <2>2, <2>3 DEF LiveWal
  <2>5. Rows(LiveWal') = Rows(LiveWal) \cup batch
    <3>1. Rows({new}) = batch
      BY <2>2 DEF Rows
    <3> QED BY <2>4, <3>1, RowsUnion
  <2>6. Rows(LiveWal) = manifest.committed + 1 .. Applied
    BY <2>2 DEF MemInv, Closing
  <2>7. /\ manifest.committed \in Nat /\ Applied \in Nat /\ pos \in Nat
        /\ manifest.committed <= Applied
    BY <2>2, AppliedType DEF ManifestInv, TypeOK, Manifest
  <2>8. Rows(LiveWal') = manifest.committed + 1 .. pos
    BY <2>1, <2>5, <2>6, <2>7
  <2> QED BY <2>1, <2>2, <2>8 DEF MemInv
<1>3. CASE FlushManifest
  <2>1. Applied' = Applied
    BY <1>3, AppliedStays DEF FlushManifest, Applied
  <2> QED BY <1>3, <2>1 DEF FlushManifest, MemInv
<1>4. CASE FlushClear
  <2>1. /\ memtable' = {} /\ wal' = {} /\ commit_version' = commit_version
        /\ manifest' = disk /\ disk.committed = commit_version
    BY <1>4 DEF FlushClear, ManifestInv
  <2>2. LiveWal' = {} /\ Rows({}) = {}
    BY <2>1 DEF LiveWal, Rows
  <2>3. disk.committed \in Nat
    BY DEF TypeOK, Manifest
  <2> QED BY <2>1, <2>2, <2>3, MemCleared
<1>5. CASE WalResetFails
  <2>1. /\ memtable' = {} /\ commit_version' = commit_version
        /\ manifest' = disk /\ disk.committed = commit_version /\ Closing'
    BY <1>5 DEF WalResetFails, ManifestInv, Closing
  <2>2. disk.committed \in Nat
    BY DEF TypeOK, Manifest
  <2> QED BY <2>1, <2>2, MemCleared
<1>6. CASE PublishStaged
  <2>1. /\ wal' = wal /\ disk'.flushed = disk.flushed
        /\ memtable' = memtable /\ commit_version' = manifest'.committed
        /\ manifest' \in Manifest
    BY <1>6, PublishStagedMakes DEF PublishStaged, ManifestInv
  <2>2. pc \in {"idle", "publish"} /\ ret = "idle" /\ memtable = {}
    BY <1>6 DEF PublishStaged, ControlInv, Flushing, Reclaiming
  <2>3. Rows(LiveWal) = {}
    BY <2>2, NothingLive DEF Closing
  <2>4. LiveWal' = LiveWal /\ manifest'.committed \in Nat
    BY <2>1 DEF LiveWal, Manifest
  <2> QED BY <2>1, <2>2, <2>3, <2>4, MemCleared
<1>7. CASE ResetWal
  <2>1. Applied' = Applied
    BY <1>7 DEF ResetWal, Applied
  <2> QED BY <1>7, <2>1 DEF ResetWal, MemInv
<1>8. CASE ResetManifest
  <2>1. /\ memtable' = {} /\ commit_version' = 0 /\ manifest'.committed = 0
        /\ wal' = {}
    BY <1>8 DEF ResetManifest, EmptyManifest, WalInv
  <2>2. LiveWal' = {} /\ Rows({}) = {}
    BY <2>1 DEF LiveWal, Rows
  <2> QED BY <2>1, <2>2, MemCleared
<1>9. CASE Crash
  BY <1>9 DEF Crash, MemInv
<1>10. CASE IngestPolls
  <2>1. /\ disk'.flushed = disk.flushed
        /\ manifest'.committed = manifest.committed
    BY <1>10, PublishMergeMakes DEF IngestPolls, Poll, ManifestInv
  <2> QED BY <1>10, <2>1, MemFrame
         DEF IngestPolls, Poll, ControlInv, Flushing, Reclaiming, Closing
<1>11. CASE Advance
  <2>1. /\ disk'.flushed = disk.flushed
        /\ manifest'.committed = manifest.committed
    BY <1>11, PublishMergeMakes DEF Advance, Poll, ManifestInv
  <2> QED BY <1>11, <2>1, MemFrame
         DEF Advance, Poll, ControlInv, Flushing, Reclaiming, Closing
<1>12. CASE Maintain
  <2>1. /\ disk'.flushed = disk.flushed
        /\ manifest'.committed = manifest.committed
    BY <1>12, PublishMergeMakes DEF Maintain, Poll, ManifestInv
  <2> QED BY <1>12, <2>1, MemFrame
         DEF Maintain, Poll, ControlInv, Flushing, Reclaiming, Closing
<1>13. CASE Settle
  <2>1. CASE MergeDone /\ PublishMerge
    <3>1. disk'.flushed = disk.flushed /\ manifest'.committed = manifest.committed
      BY <1>13, <2>1, PublishMergeMakes DEF Settle, ManifestInv
    <3> QED BY <1>13, <2>1, <3>1, MemFrame DEF Settle, MergeDone,
           Closing
  <2>2. CASE pc' = "closed"
    BY <2>2 DEF MemInv
  <2> QED BY <1>13, <2>1, <2>2 DEF Settle
<1>14. CASE SpawnStep("spawn", "reclaim")
  <2>1. /\ disk'.flushed = disk.flushed
        /\ manifest'.committed = manifest.committed
    BY ZenonT(30), <1>14, SpawnMakes DEF SpawnStep, ManifestInv
  <2> QED BY <1>14, <2>1, MemFrame
         DEF SpawnStep, ControlInv, Flushing, Reclaiming, Closing
<1>15. CASE SpawnStep("spawn_ingest", "append")
  <2>1. /\ disk'.flushed = disk.flushed
        /\ manifest'.committed = manifest.committed
    BY ZenonT(30), <1>15, SpawnMakes DEF SpawnStep, ManifestInv
  <2> QED BY <1>15, <2>1, MemFrame
         DEF SpawnStep, ControlInv, Flushing, Reclaiming, Closing
<1>16. CASE SpawnStep("spawn_idle", "idle")
  <2>1. /\ disk'.flushed = disk.flushed
        /\ manifest'.committed = manifest.committed
    BY ZenonT(30), <1>16, SpawnMakes DEF SpawnStep, ManifestInv
  <2> QED BY <1>16, <2>1, MemFrame
         DEF SpawnStep, ControlInv, Flushing, Reclaiming, Closing
<1>17. CASE ReserveStaged
  <2>1. /\ disk'.flushed = disk.flushed
        /\ manifest'.committed = manifest.committed
    BY ZenonT(30), <1>17, ReserveMakes DEF ReserveStaged, ManifestInv
  <2> QED BY <1>17, <2>1, MemFrame
         DEF ReserveStaged, ControlInv, Flushing, Reclaiming, Closing
<1>18. CASE Compact
  <2>1. /\ disk'.flushed = disk.flushed
        /\ manifest'.committed = manifest.committed
    BY ZenonT(30), <1>18, CompactMakes DEF Compact, ManifestInv
  <2> QED BY <1>18, <2>1, MemFrame
         DEF Compact, ControlInv, Flushing, Reclaiming, Closing
<1>19. CASE \/ Ingest \/ AppendDirect \/ Flush \/ FlushSegment \/ Stage
  BY <1>19, MemFrame DEF ControlInv, Flushing, Reclaiming, Closing, Ingest,
         AppendDirect, Flush, FlushSegment, Stage
<1>20. CASE \/ PublishStagedFails \/ IoError \/ Reclaim \/ Close \/ MergeWrites
           \/ MergeFails \/ UNCHANGED vars
  BY <1>20, MemFrame DEF Closing, PublishStagedFails, IoError,
         Reclaim, Close,
         MergeWrites, MergeFails, vars
<1>21. CASE \/ Checkpoint \/ CommitCheckpoint \/ Reconnect
  BY <1>21, MemFrame DEF ControlInv, Flushing, Reclaiming, Closing, Checkpoint,
         CommitCheckpoint, Reconnect
<1>22. CASE Remove
  BY <1>22, MemFrame DEF Remove, ControlInv, Flushing, Reclaiming,
         Closing
<1>23. ASSUME NEW r \in Readers, Snapshot(r) PROVE MemInv'
  BY ZenonT(30), <1>23, MemFrame DEF Snapshot, Closing
<1>24. ASSUME NEW r \in Readers, Release(r) PROVE MemInv'
  BY <1>24, MemFrame DEF Release, Closing
<1>25. CASE StagePiece
  BY <1>25, MemFrame DEF StagePiece, ControlInv, Flushing, Reclaiming, Closing
<1>26. CASE \/ CompactFails \/ PublishMergeFails \/ ResetWalFails
  BY ZenonT(30), <1>26, MemFrame
     DEF CompactFails, PublishMergeFails, ResetWalFails, Closing
<1> QED BY <1>1, <1>2, <1>3, <1>4, <1>5, <1>6, <1>7, <1>8, <1>9, <1>10, <1>11,
       <1>12, <1>13, <1>14, <1>15, <1>16, <1>17, <1>18, <1>19, <1>20, <1>21,
       <1>22, <1>23, <1>24, <1>25, <1>26 DEF Next, StoreStep
=============================================================================
