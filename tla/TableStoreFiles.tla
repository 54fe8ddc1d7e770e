-------------------------- MODULE TableStoreFiles ---------------------------
(***************************************************************************)
(* Every step of TableStore keeps every file somebody counts on.           *)
(***************************************************************************)
EXTENDS TableStoreTypes

USE SMTT(30), ZenonT(30)

\* Writing a file keeps names unique and every file of another id.
LEMMA WriteKeeps ==
    ASSUME NEW F, UniqueIds(F), NEW s
    PROVE  /\ UniqueIds(Write(F, s)) /\ s \in Write(F, s)
           /\ \A f \in F : f.id # s.id => f \in Write(F, s)
BY DEF UniqueIds, Write

\* A file somebody counts on has an id below the next one that nobody owns.
LEMMA HeldIds ==
    ASSUME ManifestInv, FileInv, OwnerInv, pc # "clear"
    PROVE  /\ \A s \in disk.segs \cup manifest.segs :
                 s.id < manifest.next /\ s.id \notin Owned
           /\ \A r \in Readers : \A s \in pins[r] :
                 s.id < manifest.next /\ s.id \notin Owned
           /\ \A s \in staged : s.id < manifest.next /\ s.id \in Ids(staged)
           /\ background.inputs \subseteq manifest.segs
BY DEF ManifestInv, FileInv, OwnerInv, Owned, Ids

\* A step that leaves files and everything that counts on them alone.
LEMMA FileFrame ==
    ASSUME FileInv,
           UNCHANGED <<files, disk, manifest, staged, background, pins>>,
           pc' \in {"manifest", "clear"} =>
             pc \in {"manifest", "clear"} /\ memtable' = memtable
    PROVE  FileInv'
BY DEF FileInv, FilesIntact, PinsIntact, UniqueIds

\* Every step keeps the files somebody counts on.
LEMMA FileStep == IInv /\ [Next]_vars => FileInv'
<1> SUFFICES ASSUME TypeOK, ManifestInv, ControlInv, FileInv, OwnerInv,
                    [Next]_vars
             PROVE  FileInv'
  BY DEF IInv, IdInv, RowInv
<1> USE DEF stream, logVars, control, memVars, stageVars
<1>1. CASE IngestPolls
  <2>1. CASE MergeDone /\ PublishMerge
    BY <1>1, <2>1, PublishMergeMakes
           DEF IngestPolls, Poll, MergeDone, FileInv, FilesIntact, PinsIntact
  <2>2. CASE UNCHANGED <<disk, manifest, retired>>
            /\ background' \in {NoMerge, background}
    BY <1>1, <2>2
           DEF IngestPolls, Poll, NoMerge, FileInv, FilesIntact, PinsIntact
  <2> QED BY <1>1, <2>1, <2>2 DEF IngestPolls, Poll
<1>2. CASE Advance
  <2>1. CASE MergeDone /\ PublishMerge
    BY <1>2, <2>1, PublishMergeMakes
           DEF Advance, Poll, MergeDone, FileInv, FilesIntact, PinsIntact
  <2>2. CASE UNCHANGED <<disk, manifest, retired>>
            /\ background' \in {NoMerge, background}
    BY <1>2, <2>2 DEF Advance, Poll, NoMerge, FileInv, FilesIntact, PinsIntact
  <2> QED BY <1>2, <2>1, <2>2 DEF Advance, Poll
<1>3. CASE Maintain
  <2>1. CASE MergeDone /\ PublishMerge
    BY <1>3, <2>1, PublishMergeMakes
           DEF Maintain, Poll, MergeDone, FileInv, FilesIntact, PinsIntact
  <2>2. CASE UNCHANGED <<disk, manifest, retired>>
            /\ background' \in {NoMerge, background}
    BY <1>3, <2>2 DEF Maintain, Poll, NoMerge, FileInv, FilesIntact, PinsIntact
  <2> QED BY <1>3, <2>1, <2>2 DEF Maintain, Poll
<1>4. CASE Settle
  <2>1. CASE MergeDone /\ PublishMerge
    BY <1>4, <2>1, PublishMergeMakes
           DEF Settle, MergeDone, FileInv, FilesIntact, PinsIntact
  <2>2. CASE Forget
    BY <1>4, <2>2
           DEF Settle, Forget, NoMerge, ManifestInv, FileInv, FilesIntact,
               PinsIntact
  <2> QED BY <1>4, <2>1, <2>2 DEF Settle
<1>5. CASE SpawnStep("spawn", "reclaim")
  <2>1. CASE UNCHANGED <<disk, manifest, background>>
    BY <1>5, <2>1 DEF SpawnStep, FileInv, FilesIntact, PinsIntact
  <2>2. CASE Spawn
    BY <1>5, <2>2, SpawnMakes
           DEF SpawnStep, ManifestInv, FileInv, FilesIntact, PinsIntact
  <2> QED BY <1>5, <2>1, <2>2 DEF SpawnStep
<1>6. CASE SpawnStep("spawn_ingest", "append")
  <2>1. CASE UNCHANGED <<disk, manifest, background>>
    BY <1>6, <2>1 DEF SpawnStep, FileInv, FilesIntact, PinsIntact
  <2>2. CASE Spawn
    BY <1>6, <2>2, SpawnMakes
           DEF SpawnStep, ManifestInv, FileInv, FilesIntact, PinsIntact
  <2> QED BY <1>6, <2>1, <2>2 DEF SpawnStep
<1>7. CASE SpawnStep("spawn_idle", "idle")
  <2>1. CASE UNCHANGED <<disk, manifest, background>>
    BY <1>7, <2>1 DEF SpawnStep, FileInv, FilesIntact, PinsIntact
  <2>2. CASE Spawn
    BY <1>7, <2>2, SpawnMakes
           DEF SpawnStep, ManifestInv, FileInv, FilesIntact, PinsIntact
  <2> QED BY <1>7, <2>1, <2>2 DEF SpawnStep
<1>8. CASE FlushSegment
  <2> DEFINE s == [id |-> manifest.next, rows |-> memtable]
  <2>1. files' = Write(files, s) /\ s.id = manifest.next /\ pc # "clear"
    BY <1>8 DEF FlushSegment
  <2>2. /\ \A f \in files : f.id # s.id => f \in files'
        /\ UniqueIds(files') /\ s \in files'
    BY <2>1, WriteKeeps DEF FileInv
  <2>3. manifest.next \in Nat /\ \A f \in files : f.id \in Nat
    BY DEF TypeOK, Manifest, Segment
  <2>4. \A f \in files : f.id < manifest.next => f \in files'
    BY <2>1, <2>2, <2>3
  <2> QED BY <1>8, <2>1, <2>2, <2>4, HeldIds
         DEF FlushSegment, FileInv, FilesIntact, PinsIntact
<1>9. CASE StagePiece
  <2>1. PICK s \in Segment :
          /\ s.id \in staged_ids /\ files' = Write(files, s)
          /\ staged' = staged \cup {s}
    BY ZenonT(30), <1>9, StagePieceMakes
  <2>2. /\ \A f \in files : f.id # s.id => f \in files'
        /\ UniqueIds(files') /\ s \in files'
    BY <2>1, WriteKeeps DEF FileInv
  <2>3. pc # "clear" /\ s.id \in Owned
    BY <1>9, <2>1 DEF StagePiece, Owned
  <2>4. \A f \in staged : f.id # s.id
    BY ZenonT(30), <2>1 DEF OwnerInv, Ids
  <2>5. \A f \in disk.segs \cup manifest.segs : f.id # s.id
    BY ZenonT(30), <2>3, HeldIds
  <2>6. \A r \in Readers : \A f \in pins[r] : f.id # s.id
    BY ZenonT(30), <2>3, HeldIds
  <2>7. /\ disk.segs \subseteq files' /\ manifest.segs \subseteq files'
        /\ staged' \subseteq files' /\ \A r \in Readers : pins[r] \subseteq files'
    BY ZenonT(30), <2>1, <2>2, <2>4, <2>5, <2>6 DEF FileInv, FilesIntact, PinsIntact
  <2>8. /\ UNCHANGED <<disk, manifest, background, pins>>
        /\ pc' \notin {"manifest", "clear"}
    BY <1>9 DEF StagePiece
  <2> QED BY ZenonT(30), <2>2, <2>7, <2>8 DEF FileInv, FilesIntact, PinsIntact
<1>25. CASE ReserveStaged
  <2>1. disk' = manifest' /\ manifest'.segs = manifest.segs
    BY <1>25, ReserveMakes
  <2>2. /\ UNCHANGED <<files, staged, background, pins>>
        /\ pc' \notin {"manifest", "clear"}
    BY <1>25 DEF ReserveStaged
  <2> QED BY ZenonT(30), <2>1, <2>2 DEF FileInv, FilesIntact, PinsIntact
<1>26. CASE CompactFails
  <2>1. PICK out \in SUBSET Segment :
          /\ files' = {f \in files : \A s \in out : f.id # s.id} \cup out
          /\ UniqueIds(out)
          /\ \A s \in out : s.id \in {manifest.next, manifest.next + 1}
    BY ZenonT(30), <1>26, CompactFailsMakes
  <2>2. pc # "clear" /\ manifest.next \in Nat /\ \A f \in files : f.id \in Nat
    BY <1>26 DEF CompactFails, TypeOK, Manifest, Segment
  <2>3. \A f \in files : f.id < manifest.next => f \in files'
    BY <2>1, <2>2
  <2>4. UniqueIds(files')
    BY <2>1 DEF FileInv, UniqueIds
  <2>5. /\ disk.segs \subseteq files' /\ manifest.segs \subseteq files'
        /\ staged \subseteq files' /\ \A r \in Readers : pins[r] \subseteq files'
    BY ZenonT(30), <2>2, <2>3, HeldIds DEF FileInv, FilesIntact, PinsIntact
  <2>6. /\ UNCHANGED <<disk, manifest, staged, background, pins>>
        /\ pc' \notin {"manifest", "clear"}
    BY <1>26 DEF CompactFails
  <2> QED BY ZenonT(30), <2>4, <2>5, <2>6 DEF FileInv, FilesIntact, PinsIntact
<1>10. CASE MergeWrites
  <2>1. PICK s \in background.outputs : files' = Write(files, s)
    BY <1>10 DEF MergeWrites
  <2>2. /\ \A f \in files : f.id # s.id => f \in files'
        /\ UniqueIds(files') /\ s \in files'
    BY <2>1, WriteKeeps DEF FileInv
  <2>3. s.id \in Owned /\ s.id \in Ids(background.outputs)
    BY <2>1 DEF Owned, Ids
  <2>4. s.id < manifest.next
    BY <2>3 DEF OwnerInv
  <2>5. disk.segs \subseteq files'
    BY <2>2, <2>3, <2>4
           DEF OwnerInv, ManifestInv, TypeOK, Manifest, FileInv, FilesIntact,
               PinsIntact
  <2>6. \A r \in Readers : pins[r] \subseteq files'
    BY <2>2, <2>3 DEF OwnerInv, FileInv, FilesIntact, PinsIntact
  <2>7. manifest.segs \subseteq files'
    BY <2>2, <2>3 DEF OwnerInv, FileInv
  <2>8. staged \subseteq files'
    BY <2>2, <2>3 DEF OwnerInv, FileInv, Ids
  <2>9. pc \in {"manifest", "clear"} =>
          [id |-> manifest.next, rows |-> memtable] \in files'
    BY <2>2, <2>4 DEF FileInv, TypeOK, Manifest
  <2> QED BY <1>10, <2>2, <2>5, <2>6, <2>7, <2>8, <2>9
         DEF MergeWrites, FileInv, FilesIntact, PinsIntact
<1>11. CASE Compact
  <2>1. PICK S \in SUBSET manifest.segs, out \in SUBSET Segment :
          /\ files' = {f \in files : \A s \in out : f.id # s.id} \cup out
          /\ disk' = manifest'
          /\ manifest'.segs = (manifest.segs \ S) \cup out
          /\ UniqueIds(out)
          /\ \A s \in out : s.id \in {manifest.next, manifest.next + 1}
    BY <1>11, CompactMakes
  <2>2. pc # "clear" /\ manifest.next \in Nat /\ \A f \in files : f.id \in Nat
    BY <1>11 DEF Compact, TypeOK, Manifest, Segment
  <2>3. \A f \in files : f.id < manifest.next => f \in files'
    BY <2>1, <2>2
  <2>4. UniqueIds(files')
    BY <2>1 DEF FileInv, UniqueIds
  <2>5. disk'.segs \subseteq files' /\ staged \subseteq files'
    BY <2>1, <2>2, <2>3, HeldIds DEF FileInv
  <2>6. \A r \in Readers : pins[r] \subseteq files'
    BY <2>2, <2>3, HeldIds DEF FileInv, PinsIntact
  <2> QED BY <1>11, <2>1, <2>4, <2>5, <2>6
         DEF Compact, NoMerge, FileInv, FilesIntact, PinsIntact
<1>12. CASE ResetManifest
  <2>1. manifest'.segs = {} /\ disk' = manifest' /\ background' = NoMerge
    BY <1>12 DEF ResetManifest, EmptyManifest, ControlInv, TypeOK
  <2> QED BY <1>12, <2>1
         DEF ResetManifest, NoMerge, FileInv, FilesIntact, PinsIntact
<1>13. CASE PublishStaged
  BY ZenonT(30), <1>13, PublishStagedMakes DEF PublishStaged, FileInv, FilesIntact,
         PinsIntact
<1>14. CASE MergeFails
  <2>1. background'.inputs = background.inputs
    BY ZenonT(30), <1>14 DEF MergeFails, TypeOK
  <2>2. UNCHANGED <<files, disk, manifest, memtable, staged, pins, pc>>
    BY <1>14 DEF MergeFails
  <2> QED BY ZenonT(30), <2>1, <2>2 DEF FileInv, FilesIntact, PinsIntact
<1>15. CASE \/ Ingest \/ Append \/ AppendDirect \/ Flush \/ Checkpoint
           \/ CommitCheckpoint \/ Reconnect \/ Close \/ Reclaim \/ Stage
           \/ UNCHANGED vars
  BY <1>15, FileFrame DEF Ingest, Append, AppendDirect, Flush,
         Checkpoint,
         CommitCheckpoint, Reconnect, Close, Reclaim, Stage, vars
<1>16. CASE FlushManifest
  BY ZenonT(30), <1>16 DEF FlushManifest, FileInv, FilesIntact, PinsIntact
<1>17. CASE FlushClear \/ WalResetFails
  <2>1. pc' \notin {"manifest", "clear"}
    BY <1>17 DEF FlushClear, WalResetFails, ControlInv, Flushing
  <2>2. disk.segs = manifest.segs
               \cup {[id |-> manifest.next, rows |-> memtable]}
    BY <1>17 DEF FlushClear, WalResetFails, ManifestInv
  <2> QED BY <1>17, <2>1, <2>2 DEF FlushClear, WalResetFails, FileInv,
              FilesIntact, PinsIntact
<1>18. CASE PublishStagedFails
  <2>1. manifest = disk /\ pc \notin {"manifest", "clear"}
    BY <1>18 DEF PublishStagedFails, ManifestInv
  <2>2. \A s \in manifest.segs \cup UNION {pins[r] : r \in Readers} :
          s \notin staged
    BY DEF OwnerInv, Owned, Ids
  <2> QED BY <1>18, <2>1, <2>2 DEF PublishStagedFails, FileInv, FilesIntact,
              PinsIntact, UniqueIds
<1>19. CASE Remove
  <2>1. manifest = disk /\ pc' \notin {"manifest", "clear"}
    BY <1>19 DEF Remove, ManifestInv, ControlInv, Reclaiming
  <2>2. /\ \A s \in manifest.segs : s \notin doomed
        /\ \A s \in staged : s \notin doomed
        /\ \A r \in Readers : \A s \in pins[r] : s \notin doomed
    BY DEF OwnerInv, Owned, Gone, Ids
  <2> QED BY <1>19, <2>1, <2>2 DEF Remove, FileInv, FilesIntact, PinsIntact,
              UniqueIds
<1>20. CASE IoError \/ ResetWal \/ ResetWalFails \/ PublishMergeFails
  <2>1. background'.inputs = background.inputs \/ background'.inputs = {}
    BY <1>20 DEF IoError, ResetWal, ResetWalFails, PublishMergeFails, NoMerge
  <2>2. /\ pc' \notin {"manifest", "clear"}
        /\ UNCHANGED <<files, disk, manifest, staged, pins>>
    BY <1>20 DEF IoError, ResetWal, ResetWalFails, PublishMergeFails
  <2> QED BY <2>1, <2>2 DEF FileInv, FilesIntact, PinsIntact, UniqueIds
<1>21. CASE Open
  <2>1. manifest = disk /\ staged = {}
    BY <1>21 DEF Open, ManifestInv, ControlInv
  <2> QED BY <1>21, <2>1 DEF Open, FileInv, FilesIntact, PinsIntact, UniqueIds
<1>22. ASSUME NEW r \in Readers, Snapshot(r) PROVE FileInv'
  <2>1. \A q \in Readers : pins'[q] = pins[q] \/ pins'[q] = manifest.segs
    BY <1>22 DEF Snapshot, TypeOK
  <2> QED BY <1>22, <2>1 DEF Snapshot, FileInv, FilesIntact, PinsIntact
<1>23. ASSUME NEW r \in Readers, Release(r) PROVE FileInv'
  <2>1. \A q \in Readers : pins'[q] = pins[q] \/ pins'[q] = {}
    BY <1>23 DEF Release, TypeOK
  <2> QED BY <1>23, <2>1 DEF Release, FileInv, FilesIntact, PinsIntact
<1>24. CASE Crash
  <2>1. /\ manifest' = disk /\ pc' = "closed" /\ staged' = {}
        /\ background'.inputs = {} /\ UNCHANGED <<disk, files>>
        /\ pins' = [r \in Readers |-> {}]
    BY <1>24 DEF Crash, Forget, NoMerge
  <2> QED BY <2>1 DEF FileInv, FilesIntact, PinsIntact
<1> QED BY <1>1, <1>2, <1>3, <1>4, <1>5, <1>6, <1>7, <1>8, <1>9,
       <1>10, <1>11,
       <1>12, <1>13, <1>14, <1>15, <1>16, <1>17, <1>18, <1>19, <1>20, <1>21,
       <1>22, <1>23, <1>24, <1>25, <1>26 DEF Next, StoreStep
=============================================================================
