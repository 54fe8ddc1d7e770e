-------------------------- MODULE TableStoreTypes ---------------------------
(***************************************************************************)
(* Every step of TableStore keeps the part of the inductive invariant that *)
(* is about kinds of values, control and the two manifests.                *)
(***************************************************************************)
EXTENDS TableStoreRows

USE SMTT(30), ZenonT(30)

\* open finds the log's last sequence: the largest of its records' and of the
\* manifest's.
LEMMA LastSequence ==
    ASSUME TypeOK, WalInv
    PROVE  /\ Max({b.seq : b \in wal} \cup {disk.flushed}) \in Nat
           /\ \A b \in wal : b.seq <= Max({c.seq : c \in wal} \cup {disk.flushed})
           /\ disk.flushed <= Max({b.seq : b \in wal} \cup {disk.flushed})
<1> DEFINE S == {b.seq : b \in wal} \cup {disk.flushed}
<1>1. S \in SUBSET Nat
  BY DEF TypeOK, Record, Manifest
<1>2. PICK n \in S : n >= disk.flushed /\ \A b \in wal : b.seq <= n
  BY DEF WalInv
<1>3. \A x \in S : x <= n
  BY <1>1, <1>2
<1>4. (\A b \in wal : b.seq \in S) /\ disk.flushed \in S
  OBVIOUS
<1>5. Max(S) = n
  <2> HIDE DEF S
  <2> QED BY <1>1, <1>3, MaxIs
<1>6. n \in Nat
  BY <1>1, <1>2
<1> HIDE DEF S
<1>7. Max(S) \in Nat /\ disk.flushed <= Max(S) /\ \A b \in wal : b.seq <= Max(S)
  <2>1. \A x \in S : x <= Max(S)
    BY <1>3, <1>5
  <2> QED BY ZenonT(30), <1>4, <1>5, <1>6, <2>1
<1> QED BY ZenonT(30), <1>7 DEF S

\* What a merge keeps are winners of its inputs.
LEMMA MergedRows ==
    ASSUME NEW S \in SUBSET Segment, NEW drop
    PROVE  Merged(S, drop) \in SUBSET Versions
BY RowsType, LatestRows DEF Merged

-----------------------------------------------------------------------------
(* What publishing, starting and inlining a merge change.                  *)

\* publish_merge swaps the inputs for the outputs and changes nothing else of
\* the manifest.
LEMMA PublishMergeMakes ==
    ASSUME TypeOK, PublishMerge
    PROVE  /\ manifest'.segs = (manifest.segs \ background.inputs)
                                  \cup background.outputs
           /\ manifest'.next = manifest.next
           /\ manifest'.flushed = manifest.flushed
           /\ manifest'.committed = manifest.committed
           /\ disk' = manifest'
           /\ background'.inputs = {} /\ background'.outputs = {}
           /\ background'.state = "none"
           /\ UNION retired' = (UNION retired) \cup background.inputs
<1>1. UNION retired' = (UNION retired) \cup background.inputs
  <2>1. retired' = retired \cup {background.inputs}
    BY DEF PublishMerge
  <2> QED BY <2>1
<1> QED BY <1>1 DEF PublishMerge, NoMerge, TypeOK, Manifest

\* A merge in flight has inputs the manifest names, outputs under two fresh
\* ids, and rows that may stand for its inputs' rows.
LEMMA SpawnMakes ==
    ASSUME TypeOK, Spawn
    PROVE  /\ manifest' \in Manifest /\ disk' = manifest'
           /\ manifest'.segs = manifest.segs
           /\ manifest'.next = manifest.next + ReservedIds
           /\ manifest'.flushed = manifest.flushed
           /\ manifest'.committed = manifest.committed
           /\ background' \in [state : {"running"}, inputs : SUBSET manifest.segs,
                               outputs : SUBSET Segment]
           /\ UniqueIds(background'.outputs)
           /\ \A s \in background'.outputs :
                 s.id \in {manifest.next, manifest.next + 1}
           /\ \E drop \in SUBSET Keys :
                 /\ MayDrop(background'.inputs, drop)
                 /\ Rows(background'.outputs) = Merged(background'.inputs, drop)
<1>1. PICK S \in SUBSET manifest.segs, drop \in SUBSET Keys, cut \in Keys :
        /\ MayDrop(S, drop)
        /\ background' = [state |-> "running", inputs |-> S,
                          outputs |-> Chunks(Merged(S, drop), manifest.next, cut)]
  BY DEF Spawn
<1>2. S \in SUBSET Segment /\ manifest.next \in Nat
  BY <1>1 DEF TypeOK, Manifest
<1> DEFINE out == Chunks(Merged(S, drop), manifest.next, cut)
<1>3. /\ out \in SUBSET Segment /\ UniqueIds(out)
      /\ \A s \in out : s.id \in {manifest.next, manifest.next + 1}
      /\ Rows(out) = Merged(S, drop)
  BY ZenonT(30), <1>2, MergedRows, ChunksOf
<1>4. background' = [state |-> "running", inputs |-> S, outputs |-> out]
  BY <1>1
<1> HIDE DEF out
<1>5. background'.inputs = S /\ background'.outputs = out
  BY <1>4
<1>6. manifest' = [manifest EXCEPT !.next = @ + ReservedIds] /\ disk' = manifest'
  BY DEF Spawn
<1>7. /\ manifest' \in Manifest /\ manifest'.segs = manifest.segs
      /\ manifest'.next = manifest.next + ReservedIds
      /\ manifest'.flushed = manifest.flushed
      /\ manifest'.committed = manifest.committed
  BY <1>2, <1>6, IdAssumption DEF TypeOK, Manifest
<1>8. background' \in [state : {"running"}, inputs : SUBSET manifest.segs,
                       outputs : SUBSET Segment]
  BY <1>3, <1>4
<1> QED BY <1>1, <1>3, <1>5, <1>6, <1>7, <1>8

\* compact does the same in one call.
LEMMA CompactMakes ==
    ASSUME TypeOK, Compact
    PROVE  \E S \in SUBSET manifest.segs, out \in SUBSET Segment :
             /\ files' = {f \in files : \A s \in out : f.id # s.id} \cup out
             /\ manifest' \in Manifest /\ disk' = manifest'
             /\ manifest'.segs = (manifest.segs \ S) \cup out
             /\ manifest'.next = manifest.next + 2
             /\ manifest'.flushed = manifest.flushed
             /\ manifest'.committed = manifest.committed
             /\ retired' = retired \cup {S}
             /\ UniqueIds(out)
             /\ \A s \in out : s.id \in {manifest.next, manifest.next + 1}
             /\ \E drop \in SUBSET Keys :
                   MayDrop(S, drop) /\ Rows(out) = Merged(S, drop)
<1>1. PICK S \in SUBSET manifest.segs, drop \in SUBSET Keys, cut \in Keys :
        /\ MayDrop(S, drop)
        /\ files' = {f \in files :
                       \A s \in Chunks(Merged(S, drop), manifest.next, cut) :
                          f.id # s.id}
                    \cup Chunks(Merged(S, drop), manifest.next, cut)
        /\ manifest' = [manifest EXCEPT
             !.segs = (@ \ S) \cup Chunks(Merged(S, drop), manifest.next, cut),
             !.next = @ + 2]
        /\ retired' = retired \cup {S}
  BY ZenonT(30) DEF Compact
<1>2. S \in SUBSET Segment /\ manifest.next \in Nat
  BY <1>1 DEF TypeOK, Manifest
<1> DEFINE out == Chunks(Merged(S, drop), manifest.next, cut)
<1>3. /\ out \in SUBSET Segment /\ UniqueIds(out)
      /\ \A s \in out : s.id \in {manifest.next, manifest.next + 1}
      /\ Rows(out) = Merged(S, drop)
  BY ZenonT(30), <1>2, MergedRows, ChunksOf
<1>4. /\ files' = {f \in files : \A s \in out : f.id # s.id} \cup out
      /\ manifest' = [manifest EXCEPT !.segs = (@ \ S) \cup out, !.next = @ + 2]
  BY <1>1
<1> HIDE DEF out
<1>5. /\ manifest' \in Manifest
      /\ manifest'.segs = (manifest.segs \ S) \cup out
      /\ manifest'.next = manifest.next + 2
      /\ manifest'.flushed = manifest.flushed
      /\ manifest'.committed = manifest.committed
  <2>1. manifest \in Manifest
    BY DEF TypeOK
  <2>2. (manifest.segs \ S) \cup out \in SUBSET Segment
        /\ manifest.next + 2 \in Nat
    BY <1>2, <1>3, <2>1 DEF Manifest
  <2> QED BY ZenonT(30), <1>4, <2>1, <2>2 DEF Manifest
<1>6. disk' = manifest'
  BY DEF Compact
<1> QED BY <1>1, <1>3, <1>4, <1>5, <1>6

\* A compact that fails has written chunks under the ids it would have taken.
LEMMA CompactFailsMakes ==
    ASSUME TypeOK, CompactFails
    PROVE  \E out \in SUBSET Segment :
             /\ files' = {f \in files : \A s \in out : f.id # s.id} \cup out
             /\ UniqueIds(out)
             /\ \A s \in out : s.id \in {manifest.next, manifest.next + 1}
<1>1. PICK S \in SUBSET manifest.segs, drop \in SUBSET Keys, cut \in Keys,
           last \in {manifest.next, manifest.next + 1} :
        LET out == {s \in Chunks(Merged(S, drop), manifest.next, cut) :
                       s.id <= last}
        IN  files' = {f \in files : \A s \in out : f.id # s.id} \cup out
  BY DEF CompactFails
<1>2. S \in SUBSET Segment /\ manifest.next \in Nat
  BY <1>1 DEF TypeOK, Manifest
<1> DEFINE chunks == Chunks(Merged(S, drop), manifest.next, cut)
           out == {s \in chunks : s.id <= last}
<1>3. /\ chunks \in SUBSET Segment /\ UniqueIds(chunks)
      /\ \A s \in chunks : s.id \in {manifest.next, manifest.next + 1}
  BY ZenonT(30), <1>2, MergedRows, ChunksOf
<1>4. files' = {f \in files : \A s \in out : f.id # s.id} \cup out
  BY <1>1
<1> HIDE DEF chunks
<1>5. /\ out \in SUBSET Segment /\ UniqueIds(out)
      /\ \A s \in out : s.id \in {manifest.next, manifest.next + 1}
  BY <1>3 DEF UniqueIds
<1> HIDE DEF out
<1> QED BY <1>4, <1>5

\* stage_segment's reservation moves the next id and nothing else.
LEMMA ReserveMakes ==
    ASSUME TypeOK, ReserveStaged
    PROVE  /\ manifest' \in Manifest /\ disk' = manifest'
           /\ manifest'.segs = manifest.segs
           /\ manifest'.next = manifest.next + StagedIds
           /\ manifest'.flushed = manifest.flushed
           /\ manifest'.committed = manifest.committed
<1>1. manifest' = [manifest EXCEPT !.next = @ + StagedIds] /\ disk' = manifest'
  BY DEF ReserveStaged
<1>2. manifest.next + StagedIds \in Nat
  BY SMTT(30), IdAssumption DEF TypeOK, Manifest
<1> QED BY <1>1, <1>2 DEF TypeOK, Manifest

\* stage_segment takes the smallest id of its reservation.
LEMMA StagePieceMakes ==
    ASSUME TypeOK, StagePiece
    PROVE  \E piece \in Segment :
             /\ piece.id \in staged_ids /\ piece.rows = Latest(batch)
             /\ files' = Write(files, piece)
             /\ staged' = staged \cup {piece}
             /\ staged_ids' = staged_ids \ {piece.id}
<1> DEFINE piece == [id |-> Min(staged_ids), rows |-> Latest(batch)]
<1>1. staged_ids \in SUBSET Nat /\ staged_ids # {}
  BY DEF StagePiece, TypeOK
<1>2. Min(staged_ids) \in staged_ids /\ Min(staged_ids) \in Nat
  BY ZenonT(30), <1>1, MinIsLeast
<1>3. piece \in Segment /\ piece.id \in staged_ids /\ piece.rows = Latest(batch)
  BY <1>2, LatestRows DEF TypeOK, Segment
<1>4. /\ files' = Write(files, piece)
      /\ staged' = staged \cup {piece} /\ staged_ids' = staged_ids \ {piece.id}
  BY DEF StagePiece
<1> HIDE DEF piece
<1> QED BY <1>3, <1>4

\* publish_staged adds every piece and moves the committed version to theirs.
LEMMA PublishStagedMakes ==
    ASSUME TypeOK, PublishStaged
    PROVE  /\ manifest' \in Manifest /\ disk' = manifest'
           /\ manifest'.segs = manifest.segs \cup staged
           /\ manifest'.next = manifest.next
           /\ manifest'.flushed = manifest.flushed
           /\ manifest'.committed = commit_version'
           /\ commit_version' = Max(Rows(staged) \cup {commit_version})
           /\ commit_version' \in 0..MaxVersion
           /\ \A v \in Rows(staged) \cup {commit_version} : v <= commit_version'
<1> DEFINE applied == Max(Rows(staged) \cup {commit_version})
<1>1. /\ applied \in 0..MaxVersion
      /\ \A v \in Rows(staged) \cup {commit_version} : v <= applied
  <2>1. Rows(staged) \in SUBSET Versions /\ commit_version \in 0..MaxVersion
    BY RowsType DEF TypeOK
  <2> QED BY ZenonT(30), <2>1, MaxVersionOf
<1>2. /\ manifest' = [manifest EXCEPT !.segs = @ \cup staged,
                                      !.committed = applied]
      /\ disk' = manifest' /\ commit_version' = applied
  BY DEF PublishStaged
<1> HIDE DEF applied
<1>3. manifest \in Manifest /\ manifest.segs \cup staged \in SUBSET Segment
  BY DEF TypeOK, Manifest
<1>4. /\ manifest' \in Manifest /\ manifest'.segs = manifest.segs \cup staged
      /\ manifest'.next = manifest.next /\ manifest'.flushed = manifest.flushed
      /\ manifest'.committed = applied
  BY ZenonT(30), <1>1, <1>2, <1>3 DEF Manifest
<1> QED BY <1>1, <1>2, <1>4 DEF applied

-----------------------------------------------------------------------------
(* One lemma per conjunct, one case per action.                            *)

\* Every step keeps every variable of its kind.
LEMMA TypeStep == IInv /\ [Next]_vars => TypeOK'
<1> SUFFICES ASSUME TypeOK, ControlInv, WalInv, [Next]_vars PROVE TypeOK'
  BY DEF IInv, RowInv
<1> USE DEF stream, logVars, control, memVars, stageVars
<1>1. CASE Ingest
  <2>1. PICK n \in pos + 1 .. MaxVersion :
          pos' = n /\ batch' = Unapplied(n) /\ pc' \in {"idle", "poll"}
    BY <1>1 DEF Ingest
  <2>2. n \in 0..MaxVersion /\ Unapplied(n) \subseteq Versions
    BY SourceAssumption DEF TypeOK, Unapplied, Versions
  <2> QED BY <1>1, <2>1, <2>2 DEF Ingest, TypeOK
<1>2. CASE Append
  BY <1>2, LatestRows DEF Append, TypeOK, Segment, Record, Manifest
<1>3. CASE FlushSegment
  BY <1>3 DEF FlushSegment, Write, TypeOK, Segment, Record, Manifest
<1>4. CASE FlushManifest
  BY <1>4, AppliedType DEF FlushManifest, TypeOK, Segment, Record, Manifest
<1>5. CASE Stage
  <2>1. PICK n \in pos + 1 .. MaxVersion :
          /\ pos' = n /\ batch' = Unapplied(n)
          /\ pc' \in {"idle", "segment", "stage"} /\ ret' \in {"stage", ret}
    BY <1>5 DEF Stage
  <2>2. n \in 0..MaxVersion /\ Unapplied(n) \subseteq Versions
    BY SourceAssumption DEF TypeOK, Unapplied, Versions
  <2> QED BY <1>5, <2>1, <2>2 DEF Stage, TypeOK
<1>6. CASE PublishStaged
  BY ZenonT(30), <1>6, RowsType, MaxVersionOf
     DEF PublishStaged, TypeOK, Segment, Record,
         Manifest
<1>7. CASE ResetWal
  BY <1>7, SourceAssumption DEF ResetWal, NoMerge, TypeOK, Segment, Record,
         Manifest
<1>8. CASE ResetManifest
  BY <1>8, SourceAssumption DEF ResetManifest, EmptyManifest, TypeOK, Segment,
         Record, Manifest
<1>9. CASE Settle
  <2>1. CASE MergeDone /\ PublishMerge
    BY <1>9, <2>1 DEF Settle, PublishMerge, MergeDone, NoMerge,
                   TypeOK, Segment, Record, Manifest
  <2>2. CASE Forget
    BY <1>9, <2>2, SourceAssumption
           DEF Settle, Forget, NoMerge, TypeOK, Segment, Record, Manifest
  <2> QED BY <1>9, <2>1, <2>2 DEF Settle
<1>10. CASE MergeWrites
  BY <1>10 DEF MergeWrites, Write, TypeOK, Segment, Record, Manifest
<1>11. CASE Crash
  BY <1>11, SourceAssumption DEF Crash, Forget, NoMerge, TypeOK, Segment,
         Record, Manifest
<1>12. CASE StagePiece
  <2>1. PICK piece \in Segment :
          /\ piece.id \in staged_ids
          /\ files' = Write(files, piece)
          /\ staged' = staged \cup {piece}
          /\ staged_ids' = staged_ids \ {piece.id}
    BY ZenonT(30), <1>12, StagePieceMakes
  <2>2. /\ files' \in SUBSET Segment /\ staged' \in SUBSET Segment
        /\ staged_ids' \in SUBSET Nat
    BY ZenonT(30), <2>1 DEF Write, TypeOK
  <2> QED BY ZenonT(30), <1>12, <2>2 DEF StagePiece, TypeOK
<1>13. CASE Open
  <2>1. /\ manifest' \in Manifest /\ wal' \in SUBSET Record
        /\ files' \in SUBSET Segment
    BY <1>13 DEF Open, TypeOK
  <2>2. memtable' \in SUBSET Versions
    <3>1. Rows({b \in wal : b.seq > disk.flushed}) \in SUBSET Versions
      BY DEF TypeOK, Record, Rows
    <3> QED BY <1>13, <3>1, LatestRows DEF Open
  <2>3. last_sequence' \in Nat
    BY <1>13, LastSequence DEF Open
  <2>4. commit_version' \in 0..MaxVersion
    <3>1. disk.segs \in SUBSET Segment /\ disk.committed \in 0..MaxVersion
      BY DEF TypeOK, Manifest
    <3> QED BY ZenonT(30), <1>13, <3>1, RowsType, MaxVersionOf DEF Open
  <2> QED BY <1>13, <2>1, <2>2, <2>3, <2>4 DEF Open, TypeOK
<1>14. CASE SpawnStep("spawn", "reclaim")
  <2>1. CASE UNCHANGED <<disk, manifest, background>>
    BY <1>14, <2>1 DEF SpawnStep, TypeOK, Segment, Record, Manifest
  <2>2. CASE Spawn
    BY <1>14, <2>2, SpawnMakes DEF SpawnStep, TypeOK, Manifest
  <2> QED BY <1>14, <2>1, <2>2 DEF SpawnStep
<1>15. CASE SpawnStep("spawn_ingest", "append")
  <2>1. CASE UNCHANGED <<disk, manifest, background>>
    BY <1>15, <2>1 DEF SpawnStep, TypeOK, Segment, Record, Manifest
  <2>2. CASE Spawn
    BY <1>15, <2>2, SpawnMakes DEF SpawnStep, TypeOK, Manifest
  <2> QED BY <1>15, <2>1, <2>2 DEF SpawnStep
<1>16. CASE SpawnStep("spawn_idle", "idle")
  <2>1. CASE UNCHANGED <<disk, manifest, background>>
    BY <1>16, <2>1 DEF SpawnStep, TypeOK, Segment, Record, Manifest
  <2>2. CASE Spawn
    BY <1>16, <2>2, SpawnMakes DEF SpawnStep, TypeOK, Manifest
  <2> QED BY <1>16, <2>1, <2>2 DEF SpawnStep
<1>17. CASE Compact
  <2>1. PICK S \in SUBSET manifest.segs, out \in SUBSET Segment :
          /\ files' = {f \in files : \A s \in out : f.id # s.id} \cup out
          /\ manifest' \in Manifest /\ disk' = manifest'
          /\ retired' = retired \cup {S}
    BY <1>17, CompactMakes
  <2>2. S \in SUBSET Segment
    BY <2>1 DEF TypeOK, Manifest
  <2> QED BY <1>17, <2>1, <2>2 DEF Compact, TypeOK
<1>18. CASE \/ IngestPolls \/ Advance \/ Maintain
  BY <1>18 DEF IngestPolls, Poll, PublishMerge, MergeDone, TypeOK,
         Segment,
         Record, Manifest, NoMerge, Advance, Maintain
<1>19. CASE \/ AppendDirect \/ Flush \/ FlushClear \/ Close \/ Reclaim
           \/ Remove
  BY ZenonT(30), <1>19 DEF AppendDirect, TypeOK, Segment, Record, Manifest,
         NoMerge,
         Flush, FlushClear, Close, Reclaim, Remove
<1>20. CASE \/ Checkpoint \/ CommitCheckpoint \/ Reconnect \/ IoError
           \/ PublishStagedFails \/ WalResetFails \/ MergeFails
           \/ UNCHANGED vars
  BY <1>20 DEF Checkpoint, TypeOK, Segment, Record, Manifest, NoMerge,
         CommitCheckpoint, Reconnect, IoError, MergeDone, PublishStagedFails,
         WalResetFails, MergeFails, vars
<1>21. ASSUME NEW r \in Readers, Snapshot(r) PROVE TypeOK'
  BY <1>21 DEF Snapshot, TypeOK, Segment, Record, Manifest, NoMerge
<1>22. ASSUME NEW r \in Readers, Release(r) PROVE TypeOK'
  BY <1>22 DEF Release, TypeOK, Segment, Record, Manifest, NoMerge
<1>23. CASE ReserveStaged
  <2>1. manifest.next \in Nat
    BY DEF TypeOK, Manifest
  <2>2. staged_ids' = manifest.next .. (manifest.next + StagedIds - 1)
    BY ZenonT(30), <1>23 DEF ReserveStaged
  <2>3. staged_ids' \in SUBSET Nat
    BY ONLY <2>1, <2>2, IdAssumption
  <2> QED BY ZenonT(30), <1>23, <2>3, ReserveMakes DEF ReserveStaged, TypeOK
<1>24. CASE CompactFails
  <2>1. PICK out \in SUBSET Segment :
          files' = {f \in files : \A s \in out : f.id # s.id} \cup out
    BY ZenonT(30), <1>24, CompactFailsMakes
  <2>2. files' \in SUBSET Segment
    BY ZenonT(30), <2>1 DEF TypeOK
  <2> QED BY ZenonT(30), <1>24, <2>2 DEF CompactFails, TypeOK
<1>25. CASE PublishMergeFails \/ ResetWalFails
  <2>1. background' = NoMerge /\ pos' \in 0..MaxVersion /\ cp' \in 0..MaxVersion
        /\ pc' \in {pc, "settle"}
    BY <1>25, SourceAssumption DEF PublishMergeFails, ResetWalFails, TypeOK
  <2> QED BY ZenonT(30), <1>25, <2>1
         DEF PublishMergeFails, ResetWalFails, NoMerge, TypeOK
<1> QED BY <1>1, <1>2, <1>3, <1>4, <1>5, <1>6, <1>7, <1>8, <1>9, <1>10, <1>11,
       <1>12, <1>13, <1>14, <1>15, <1>16, <1>17, <1>18, <1>19, <1>20, <1>21,
       <1>22, <1>23, <1>24, <1>25 DEF Next, StoreStep

\* Every step keeps what the running call's place says about the rest.
LEMMA ControlStep == IInv /\ [Next]_vars => ControlInv'
<1> SUFFICES ASSUME TypeOK, ManifestInv, ControlInv, [Next]_vars
             PROVE  ControlInv'
  BY DEF IInv, RowInv
<1> USE DEF stream, logVars, control, memVars, stageVars
<1>1. CASE Append
  <2>1. memtable' # {}
    BY <1>1, LatestRows DEF Append, TypeOK, ControlInv
  <2> QED BY <1>1, <2>1
         DEF Append, NoMerge, ManifestInv, ControlInv, Flushing, Reclaiming
<1>2. CASE \/ IngestPolls \/ Advance \/ Maintain
  BY <1>2 DEF IngestPolls, Poll, PublishMerge, MergeDone, NoMerge,
         ManifestInv, ControlInv, Flushing, Reclaiming, Advance, Maintain
<1>3. CASE \/ Ingest \/ AppendDirect \/ Flush \/ FlushSegment \/ FlushManifest
           \/ FlushClear
  BY <1>3 DEF Ingest, NoMerge, ManifestInv, ControlInv, Flushing, Reclaiming,
         AppendDirect, Flush, FlushSegment, FlushManifest, FlushClear
<1>4. CASE \/ Stage \/ StagePiece \/ PublishStaged \/ PublishStagedFails
           \/ WalResetFails
  BY <1>4 DEF Stage, NoMerge, ManifestInv, ControlInv, Flushing, Reclaiming,
         StagePiece, PublishStaged, PublishStagedFails, WalResetFails
<1>5. CASE Compact
  BY <1>5 DEF Compact, NoMerge, ManifestInv, ControlInv, Flushing,
         Reclaiming
<1>6. CASE \/ Reclaim \/ Remove
  BY <1>6 DEF Reclaim, NoMerge, ManifestInv, ControlInv, Flushing, Reclaiming,
         Remove
<1>7. CASE SpawnStep("spawn", "reclaim")
  BY <1>7 DEF SpawnStep, Spawn, NoMerge, ManifestInv, ControlInv, Flushing,
         Reclaiming
<1>8. CASE SpawnStep("spawn_ingest", "append")
  BY <1>8 DEF SpawnStep, Spawn, NoMerge, ManifestInv, ControlInv, Flushing,
         Reclaiming
<1>9. CASE SpawnStep("spawn_idle", "idle")
  BY <1>9 DEF SpawnStep, Spawn, NoMerge, ManifestInv, ControlInv, Flushing,
         Reclaiming
<1>10. CASE \/ Checkpoint \/ CommitCheckpoint \/ Reconnect \/ IoError
           \/ ResetWal \/ ResetManifest
  BY <1>10 DEF Checkpoint, NoMerge, ManifestInv, ControlInv, Flushing,
         Reclaiming, CommitCheckpoint, Reconnect, IoError, MergeDone,
         ResetWal, ResetManifest, EmptyManifest
<1>11. CASE \/ Open \/ Close \/ Crash \/ Settle
  BY <1>11 DEF Open, NoMerge, ManifestInv, ControlInv, Flushing,
         Reclaiming,
         Close, Crash, Forget, Settle, PublishMerge, MergeDone
<1>12. CASE \/ MergeWrites \/ UNCHANGED vars
  BY <1>12 DEF MergeWrites, NoMerge, ManifestInv, ControlInv, Flushing,
         Reclaiming, vars
<1>13. CASE MergeFails
  BY <1>13 DEF MergeFails, MergeDone, NoMerge, ManifestInv,
         ControlInv,
         Flushing, Reclaiming
<1>14. ASSUME NEW r \in Readers, Snapshot(r) PROVE ControlInv'
  BY <1>14 DEF Snapshot, NoMerge, ManifestInv, ControlInv, Flushing,
         Reclaiming
<1>15. ASSUME NEW r \in Readers, Release(r) PROVE ControlInv'
  BY <1>15 DEF Release, NoMerge, ManifestInv, ControlInv, Flushing, Reclaiming
<1>16. CASE ReserveStaged
  BY <1>16 DEF ReserveStaged, ControlInv, Flushing, Reclaiming
<1>17. CASE CompactFails
  BY ZenonT(30), <1>17 DEF CompactFails, ControlInv, Flushing, Reclaiming
<1>18. CASE PublishMergeFails
  BY <1>18 DEF PublishMergeFails, MergeDone, NoMerge, ControlInv, Flushing,
         Reclaiming
<1>19. CASE ResetWalFails
  BY <1>19 DEF ResetWalFails, NoMerge, ControlInv, Flushing, Reclaiming
<1> QED BY <1>1, <1>2, <1>3, <1>4, <1>5, <1>6, <1>7, <1>8, <1>9, <1>10, <1>11,
       <1>12, <1>13, <1>14, <1>15, <1>16, <1>17, <1>18, <1>19
              DEF Next, StoreStep

\* Publishing the applied version does not change it.
LEMMA AppliedStays ==
    ASSUME TypeOK
    PROVE  Max(memtable \cup {Applied}) = Applied
<1> DEFINE S == memtable \cup {Applied}
<1>1. S \in SUBSET (0..MaxVersion) /\ Applied \in S /\ \A x \in S : x <= Applied
  <2>1. memtable \in SUBSET (0..MaxVersion)
    BY DEF TypeOK, Versions
  <2>2. Applied \in Nat
    BY AppliedType
  <2> QED BY <2>1, <2>2, AppliedType
<1> HIDE DEF S
<1>2. Max(S) = Applied
  <2>1. S \in SUBSET Nat
    BY <1>1
  <2> QED BY <1>1, <2>1, MaxIs
<1> QED BY <1>2 DEF S

\* open recovers the version the manifest recorded: no segment holds a later
\* row.
LEMMA CommittedMax ==
    ASSUME TypeOK, Resolves(disk)
    PROVE  Max(Rows(disk.segs) \cup {disk.committed}) = disk.committed
<1> DEFINE S == Rows(disk.segs) \cup {disk.committed}
<1>1. /\ S \in SUBSET Nat /\ disk.committed \in S
      /\ \A x \in S : x <= disk.committed
  BY DEF TypeOK, Manifest, Resolves
<1> HIDE DEF S
<1>2. Max(S) = disk.committed
  BY ZenonT(30), <1>1, MaxIs
<1> QED BY <1>2 DEF S

\* Outside the last part of a flush the two manifests agree.
LEMMA ManifestsAgree ==
    ASSUME ManifestInv, pc # "clear"
    PROVE  manifest = disk /\ (pc # "closed" => commit_version = manifest.committed)
BY DEF ManifestInv

\* A step that ends with the two manifests in agreement keeps the invariant.
LEMMA ManifestsSettle ==
    ASSUME pc' # "clear", manifest' = disk',
           pc' # "closed" => commit_version' = manifest'.committed
    PROVE  ManifestInv'
BY DEF ManifestInv

\* The manifest that a flush published records every applied version.
LEMMA FlushRecorded ==
    ASSUME ManifestInv, pc = "clear"
    PROVE  commit_version = disk.committed
<1>1. disk = [segs |-> manifest.segs
                        \cup {[id |-> manifest.next, rows |-> memtable]},
              flushed |-> last_sequence,
              next |-> manifest.next + 1,
              committed |-> Applied]
      /\ commit_version = Applied
  BY ZenonT(30) DEF ManifestInv
<1>2. disk.committed = Applied
  BY ZenonT(30), <1>1
<1> QED BY ZenonT(30), <1>1, <1>2

\* A step that touches neither manifest and is not part of a flush keeps them
\* in step.
LEMMA ManifestFrame ==
    ASSUME ManifestInv, pc # "clear", pc' # "clear",
           pc # "closed" \/ pc' = "closed",
           UNCHANGED <<manifest, disk, commit_version>>
    PROVE  ManifestInv'
BY ManifestsAgree, ManifestsSettle

\* A step that changes nothing the invariant names keeps it.
LEMMA ManifestStays ==
    ASSUME ManifestInv,
           UNCHANGED <<pc, manifest, disk, commit_version, memtable,
                       last_sequence>>
    PROVE  ManifestInv'
BY ZenonT(30) DEF ManifestInv, Applied

\* Every step keeps the manifest in memory and the one on disk in step.
LEMMA ManifestStep == IInv /\ [Next]_vars => ManifestInv'
<1> SUFFICES ASSUME TypeOK, ControlInv, ManifestInv, Resolves(disk),
                       [Next]_vars
                PROVE  ManifestInv'
  BY DEF IInv, RowInv, ResolveInv
<1> USE DEF stream, logVars, control, memVars, stageVars
<1>1. CASE IngestPolls
  <2>1. pc # "clear" /\ pc' # "clear" /\ pc # "closed"
    BY <1>1 DEF IngestPolls, Poll
  <2>2. manifest' = disk' /\ commit_version' = manifest'.committed
    BY <1>1, <2>1
           DEF IngestPolls, Poll, PublishMerge, ManifestInv, TypeOK, Manifest
  <2> QED BY ONLY ZenonT(30), <2>1, <2>2, ManifestsSettle
<1>2. CASE Advance
  <2>1. pc # "clear" /\ pc' # "clear" /\ pc # "closed"
    BY <1>2 DEF Advance, Poll
  <2>2. manifest' = disk' /\ commit_version' = manifest'.committed
    BY <1>2, <2>1 DEF Advance, Poll, PublishMerge, ManifestInv, TypeOK, Manifest
  <2> QED BY ONLY ZenonT(30), <2>1, <2>2, ManifestsSettle
<1>3. CASE Maintain
  <2>1. pc # "clear" /\ pc' # "clear" /\ pc # "closed"
    BY <1>3 DEF Maintain, Poll
  <2>2. manifest' = disk' /\ commit_version' = manifest'.committed
    BY <1>3, <2>1
           DEF Maintain, Poll, PublishMerge, ManifestInv, TypeOK, Manifest
  <2> QED BY ONLY ZenonT(30), <2>1, <2>2, ManifestsSettle
<1>4. CASE Settle
  <2>1. CASE MergeDone /\ PublishMerge
    BY <1>4, <2>1
           DEF Settle, MergeDone, PublishMerge, ManifestInv, TypeOK, Manifest
  <2>2. CASE Forget
    BY <1>4, <2>2 DEF Settle, Forget, ManifestInv
  <2> QED BY <1>4, <2>1, <2>2 DEF Settle
<1>5. CASE SpawnStep("spawn", "reclaim")
  <2>1. pc # "clear" /\ pc' # "clear" /\ pc # "closed"
    BY <1>5 DEF SpawnStep
  <2>2. manifest' = disk' /\ commit_version' = manifest'.committed
    BY <1>5, <2>1 DEF SpawnStep, Spawn, ManifestInv, TypeOK, Manifest
  <2> QED BY ONLY ZenonT(30), <2>1, <2>2, ManifestsSettle
<1>6. CASE SpawnStep("spawn_ingest", "append")
  <2>1. pc # "clear" /\ pc' # "clear" /\ pc # "closed"
    BY <1>6 DEF SpawnStep
  <2>2. manifest' = disk' /\ commit_version' = manifest'.committed
    BY <1>6, <2>1 DEF SpawnStep, Spawn, ManifestInv, TypeOK, Manifest
  <2> QED BY ONLY ZenonT(30), <2>1, <2>2, ManifestsSettle
<1>7. CASE SpawnStep("spawn_idle", "idle")
  <2>1. pc # "clear" /\ pc' # "clear" /\ pc # "closed"
    BY <1>7 DEF SpawnStep
  <2>2. manifest' = disk' /\ commit_version' = manifest'.committed
    BY <1>7, <2>1 DEF SpawnStep, Spawn, ManifestInv, TypeOK, Manifest
  <2> QED BY ONLY ZenonT(30), <2>1, <2>2, ManifestsSettle
<1>8. CASE FlushManifest
  <2>1. Applied' = Applied
    BY <1>8, AppliedStays DEF FlushManifest, Applied
  <2> QED BY <1>8, <2>1 DEF FlushManifest, ManifestInv
<1>9. CASE Open
  <2>1. commit_version' = disk.committed
    BY <1>9, CommittedMax DEF Open
  <2> QED BY ZenonT(30), <1>9, <2>1 DEF Open, ManifestInv
<1>10. CASE PublishStaged
  BY <1>10, PublishStagedMakes DEF PublishStaged, ManifestInv
<1>11. CASE \/ Ingest \/ Append \/ AppendDirect \/ Flush \/ FlushSegment
  <2>1. /\ pc # "clear" /\ pc' # "clear" /\ pc # "closed"
        /\ UNCHANGED <<manifest, disk, commit_version>>
    BY <1>11 DEF Ingest, Append, AppendDirect, Flush, FlushSegment
  <2> QED BY <2>1, ManifestFrame
<1>12. CASE FlushClear \/ WalResetFails
  <2>1. pc = "clear" /\ pc' # "clear"
    BY <1>12 DEF FlushClear, WalResetFails, ControlInv, Flushing
  <2>2. manifest' = disk' /\ commit_version' = commit_version /\ disk' = disk
    BY <1>12 DEF FlushClear, WalResetFails
  <2>3. commit_version = disk.committed
    BY <2>1, FlushRecorded
  <2> QED BY <2>1, <2>2, <2>3, ManifestsSettle
<1>13. CASE \/ Stage \/ PublishStagedFails \/ Reclaim \/ Remove \/ StagePiece
           \/ ReserveStaged \/ Compact
  <2>1. CASE Stage \/ PublishStagedFails \/ StagePiece
    <3>1. /\ pc # "clear" /\ pc' # "clear" /\ pc # "closed"
          /\ UNCHANGED <<manifest, disk, commit_version>>
      BY <2>1 DEF Stage, PublishStagedFails, StagePiece
    <3> QED BY <3>1, ManifestFrame
  <2>2. CASE Reclaim \/ Remove
    <3>1. pc \in {"reclaim", "remove"} /\ UNCHANGED <<manifest, disk, commit_version>>
      BY <2>2 DEF Reclaim, Remove
    <3>2. pc' \notin {"clear", "closed"}
      <4>1. CASE Reclaim
        BY <4>1 DEF Reclaim
      <4>2. CASE Remove
        BY <4>2 DEF Remove, ControlInv, Reclaiming
      <4> QED BY <2>2, <4>1, <4>2
    <3> QED BY ZenonT(30), <3>1, <3>2, ManifestFrame
  <2>3. CASE ReserveStaged \/ Compact
    <3>1. /\ pc # "clear" /\ pc' # "clear" /\ pc # "closed"
          /\ manifest' = disk' /\ commit_version' = commit_version
      BY ZenonT(30), <2>3 DEF ReserveStaged, Compact
    <3>2. manifest'.committed = manifest.committed
      <4>1. CASE ReserveStaged
        BY <4>1, ReserveMakes
      <4>2. CASE Compact
        <5>1. PICK S \in SUBSET manifest.segs, drop \in SUBSET Keys, cut \in Keys :
                manifest' = [manifest EXCEPT
                    !.segs = (@ \ S) \cup
                        Chunks(Merged(S, drop), manifest.next, cut),
                    !.next = @ + 2]
          BY ZenonT(30), <4>2 DEF Compact
        <5> QED BY <5>1 DEF TypeOK, Manifest
      <4> QED BY <2>3, <4>1, <4>2
    <3>3. commit_version = manifest.committed
      BY ONLY ZenonT(30), <3>1, ManifestInv, ManifestsAgree
    <3> QED BY ONLY ZenonT(30), <3>1, <3>2, <3>3, ManifestsSettle
  <2> QED BY <1>13, <2>1, <2>2, <2>3
<1>14. CASE \/ Checkpoint \/ CommitCheckpoint \/ Reconnect \/ IoError \/ ResetWal
           \/ Close \/ ResetWalFails \/ PublishMergeFails \/ CompactFails
  <2>1. /\ pc # "clear" /\ pc' # "clear" /\ pc # "closed"
        /\ UNCHANGED <<manifest, disk, commit_version>>
    BY <1>14 DEF Checkpoint, CommitCheckpoint, Reconnect, IoError, ResetWal,
           Close, ResetWalFails, PublishMergeFails, CompactFails
  <2> QED BY <2>1, ManifestFrame
<1>15. CASE ResetManifest
  BY <1>15, ManifestsSettle DEF ResetManifest, EmptyManifest
<1>16. CASE Crash
  BY <1>16, ManifestsSettle DEF Crash, Forget
<1>17. CASE \/ MergeWrites \/ MergeFails \/ UNCHANGED vars
  <2>1. UNCHANGED <<pc, manifest, disk, commit_version, memtable, last_sequence>>
    BY <1>17 DEF MergeWrites, MergeFails, vars
  <2> QED BY <2>1, ManifestStays
<1>18. ASSUME NEW r \in Readers, Snapshot(r) \/ Release(r) PROVE ManifestInv'
  <2>1. UNCHANGED <<pc, manifest, disk, commit_version, memtable, last_sequence>>
    BY <1>18 DEF Snapshot, Release
  <2> QED BY <2>1, ManifestStays
<1> QED BY <1>1, <1>2, <1>3, <1>4, <1>5, <1>6, <1>7, <1>8, <1>9, <1>10, <1>11,
       <1>12, <1>13, <1>14, <1>15, <1>16, <1>17, <1>18 DEF Next, StoreStep
=============================================================================
