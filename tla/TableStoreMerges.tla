-------------------------- MODULE TableStoreMerges --------------------------
(***************************************************************************)
(* Every step of TableStore keeps what a merge in flight promises about    *)
(* the rows it leaves out, and keeps the segments a manifest names         *)
(* resolving to the source's state at the version it has committed.        *)
(***************************************************************************)
EXTENDS TableStoreTypes

USE SMTT(30), ZenonT(30)

-----------------------------------------------------------------------------
(* What the segments resolve to.                                           *)

\* The deletes a merge drops hide nothing outside it: merge_drops_tombstones
\* and the closed window are enough.
LEMMA DropsAreHidden ==
    ASSUME TypeOK, NEW S \in SUBSET manifest.segs, NEW drop \in SUBSET Keys,
           MayDrop(S, drop)
    PROVE  MergeOf(S, Merged(S, drop), manifest.segs \ S)
<1> USE SourceAssumption
<1>1. Rows(S) \in SUBSET Versions
  BY RowsType DEF TypeOK, Manifest
<1>2. \A t \in manifest.segs : t.rows \in SUBSET Versions
  BY DEF TypeOK, Manifest, Segment
<1>3. ASSUME NEW v \in Latest(Rows(S)) \ Merged(S, drop),
             NEW w \in Rows(manifest.segs \ S), KeyOf[w] = KeyOf[v]
      PROVE  w > v
  <2>1. v \in Rows(S) /\ KeyOf[v] \in drop
    BY <1>3 DEF Merged, Latest
  <2>2. PICK t \in manifest.segs \ S : w \in t.rows
    BY DEF Rows
  <2>3. KeyOf[v] \in Int /\ KeyOf[w] \in Int
    BY <1>1, <1>2, <2>1, <2>2
  <2>4. CASE drop = IF DropsTombstones(S) THEN Keys ELSE {}
    <3>1. DropsTombstones(S)
      BY <2>1, <2>4
    <3>2. \/ KeyOf[w] < KeyOf[v] \/ KeyOf[w] > KeyOf[v] \/ w > v
      BY <2>1, <2>2, <3>1 DEF DropsTombstones
    <3> QED BY <1>3, <2>3, <3>2
  <2>5. ASSUME NEW low \in Keys, NEW high \in {k + 1 : k \in Keys},
               ClosedWindow(S, low, high),
               drop = {k \in Keys : low <= k /\ k < high}
        PROVE  FALSE
    <3>1. low \in Int /\ high \in Int
      BY DEF Keys
    <3>2. low <= KeyOf[v] /\ KeyOf[v] < high
      BY <2>1, <2>5
    <3>3. KeyOf[w] < low \/ KeyOf[w] >= high
      BY <2>2, <2>5 DEF ClosedWindow
    <3> QED BY <1>3, <2>3, <3>1, <3>2, <3>3
  <2> QED BY <2>4, <2>5 DEF MayDrop
<1>4. \A v \in Latest(Rows(S)) \ Merged(S, drop) : v \in Deleted
  BY DEF Merged
<1>5. Merged(S, drop) \subseteq Latest(Rows(S))
  BY DEF Merged
<1> QED BY <1>3, <1>4, <1>5 DEF MergeOf

\* Replacing segments by their merge leaves what a manifest resolves to.
LEMMA MergeResolves ==
    ASSUME TypeOK, Resolves(manifest), NEW S \in SUBSET manifest.segs, NEW out,
           MergeOf(S, Rows(out), manifest.segs \ S)
    PROVE  /\ Rows((manifest.segs \ S) \cup out) \subseteq 1..manifest.committed
           /\ Visible(Rows((manifest.segs \ S) \cup out))
                = Visible(1..manifest.committed)
<1> DEFINE In == Rows(S)
           R == Rows(out)
           O == Rows(manifest.segs \ S)
<1>1. In \in SUBSET Versions /\ O \in SUBSET Versions
  BY RowsType DEF TypeOK, Manifest
<1>2. Rows(manifest.segs) = In \cup O
  <2>1. manifest.segs = S \cup (manifest.segs \ S)
    OBVIOUS
  <2> QED BY <2>1, RowsUnion
<1>3. Rows((manifest.segs \ S) \cup out) = R \cup O
  BY RowsUnion
<1>4. /\ R \in SUBSET Latest(In)
      /\ \A v \in Latest(In) \ R :
            v \in Deleted /\ \A w \in O : KeyOf[w] = KeyOf[v] => w > v
  BY DEF MergeOf
<1> HIDE DEF In, R, O
<1>5. Visible(R \cup O) = Visible(In \cup O)
  BY ZenonT(30), <1>1, <1>4, MergeKeepsVisible
<1>6. R \cup O \subseteq In \cup O
  BY <1>4 DEF Latest
<1> QED BY ZenonT(30), <1>2, <1>3, <1>5, <1>6 DEF Resolves

\* A step that leaves the merge and the segments alone keeps the merge valid.
LEMMA MergeFrame ==
    ASSUME MergeInv, manifest'.segs = manifest.segs,
           background'.inputs = background.inputs,
           background'.outputs = background.outputs,
           background.state # "none"
    PROVE  MergeInv'
BY DEF MergeInv

\* Segments newer than everything the manifest named do not disturb the merge.
LEMMA NewerSegments ==
    ASSUME TypeOK, FileInv, Resolves(manifest), MergeInv, NEW new,
           background.state # "none" => background' = background,
           background.state = "none" => background'.state = "none",
           manifest'.segs = manifest.segs \cup new,
           \A w \in Rows(new) : w \in Nat /\ w > manifest.committed
    PROVE  MergeInv'
<1> SUFFICES ASSUME background'.state # "none" PROVE MergeInv'
  BY DEF MergeInv
<1> DEFINE S == background.inputs
           O == manifest.segs \ S
<1>1. background' = background /\ background.state # "none"
  OBVIOUS
<1>2. MergeOf(S, Rows(background.outputs), O)
  BY <1>1 DEF MergeInv
<1>3. \A v \in Latest(Rows(S)) : v \in Nat /\ v <= manifest.committed
  <2>1. Rows(S) \subseteq Rows(manifest.segs)
    BY DEF FileInv, Rows
  <2> QED BY <2>1 DEF Resolves, Latest, TypeOK, Manifest
<1>4. \A w \in Rows(manifest'.segs \ S) : w \in Rows(O) \/ w \in Rows(new)
  BY DEF Rows
<1>5. manifest.committed \in Nat
  BY DEF TypeOK, Manifest
<1>6. \A v \in Latest(Rows(S)), w \in Rows(new) : w > v
  BY <1>3, <1>5
<1>7. MergeOf(S, Rows(background.outputs), manifest'.segs \ S)
  <2>1. ASSUME NEW v \in Latest(Rows(S)) \ Rows(background.outputs),
               NEW w \in Rows(manifest'.segs \ S), KeyOf[w] = KeyOf[v]
        PROVE  w > v
    <3>1. CASE w \in Rows(O)
      BY ZenonT(30), <1>2, <2>1, <3>1 DEF MergeOf
    <3>2. CASE w \in Rows(new)
      BY ZenonT(30), <1>6, <3>2
    <3> QED BY ZenonT(30), <1>4, <3>1, <3>2
  <2> QED BY ONLY ZenonT(30), <1>2, <2>1 DEF MergeOf
<1> QED BY <1>1, <1>7 DEF MergeInv

\* The memtable and the staged pieces are newer than the committed version.
LEMMA MemtableIsNewer ==
    ASSUME TypeOK, MemInv, pc # "closed"
    PROVE  \A w \in memtable : w \in Nat /\ w > manifest.committed
BY DEF MemInv, Latest, TypeOK, Manifest

LEMMA StagedIsNewer ==
    ASSUME TypeOK, ManifestInv, StreamInv, pc \in {"idle", "publish"}, ret = "idle"
    PROVE  \A w \in Rows(staged) : w \in Nat /\ w > manifest.committed
<1>1. \A w \in Rows(staged) : w > Applied /\ w \in Nat
  BY RowsType DEF StreamInv, Closing, TypeOK, Versions
<1>2. Applied \in Nat /\ manifest.committed \in Nat /\ manifest.committed <= Applied
  BY AppliedType DEF ManifestInv, TypeOK, Manifest
<1> QED BY <1>1, <1>2

\* A merge starts valid.
LEMMA SpawnMerge ==
    ASSUME TypeOK, Spawn
    PROVE  MergeInv'
<1>1. PICK drop \in SUBSET Keys :
        /\ MayDrop(background'.inputs, drop)
        /\ Rows(background'.outputs) = Merged(background'.inputs, drop)
  BY SpawnMakes
<1>2. background'.inputs \in SUBSET manifest.segs /\ manifest'.segs = manifest.segs
  BY SpawnMakes
<1>3. MergeOf(background'.inputs, Rows(background'.outputs),
              manifest.segs \ background'.inputs)
  BY <1>1, <1>2, DropsAreHidden
<1> QED BY <1>2, <1>3 DEF MergeInv

\* Every step keeps the merge in flight valid for the segments there are.
LEMMA MergeStep == IInv /\ [Next]_vars => MergeInv'
<1> SUFFICES ASSUME TypeOK, ManifestInv, ControlInv, FileInv,
                    Resolves(manifest), MemInv, StreamInv, MergeInv,
                    [Next]_vars
             PROVE  MergeInv'
  BY DEF IInv, IdInv, RowInv, ResolveInv
<1> USE DEF stream, logVars, control, memVars, stageVars
<1>1. CASE FlushClear
  <2>1. manifest'.segs = manifest.segs
               \cup {[id |-> manifest.next, rows |-> memtable]}
    BY <1>1 DEF FlushClear, ManifestInv
  <2>2. Rows({[id |-> manifest.next, rows |-> memtable]}) = memtable
    BY DEF Rows
  <2>3. pc # "closed" /\ background' = background
    BY <1>1 DEF FlushClear
  <2> QED BY <2>1, <2>2, <2>3, MemtableIsNewer, NewerSegments
<1>2. CASE WalResetFails
  <2>1. manifest'.segs = manifest.segs
               \cup {[id |-> manifest.next, rows |-> memtable]}
    BY <1>2 DEF WalResetFails, ManifestInv
  <2>2. Rows({[id |-> manifest.next, rows |-> memtable]}) = memtable
    BY DEF Rows
  <2>3. pc # "closed" /\ background' = background
    BY <1>2 DEF WalResetFails
  <2> QED BY <2>1, <2>2, <2>3, MemtableIsNewer, NewerSegments
<1>3. CASE PublishStaged
  <2>1. manifest'.segs = manifest.segs \cup staged /\ background' = background
    BY <1>3, PublishStagedMakes DEF PublishStaged
  <2>2. ret = "idle" /\ pc \in {"idle", "publish"}
    BY <1>3 DEF PublishStaged, ControlInv, Flushing, Reclaiming
  <2> QED BY <2>1, <2>2, StagedIsNewer, NewerSegments
<1>4. CASE Compact
  BY <1>4 DEF Compact, NoMerge, MergeInv
<1>5. CASE ResetWal
  BY <1>5 DEF ResetWal, NoMerge, MergeInv
<1>6. CASE ResetManifest
  BY <1>6 DEF ResetManifest, NoMerge, ControlInv, MergeInv
<1>7. CASE Crash
  BY <1>7 DEF Crash, Forget, NoMerge, MergeInv
<1>8. CASE IngestPolls
  BY <1>8 DEF IngestPolls, Poll, PublishMerge, NoMerge, MergeInv
<1>9. CASE Advance
  BY <1>9 DEF Advance, Poll, PublishMerge, NoMerge, MergeInv
<1>10. CASE Maintain
  BY <1>10 DEF Maintain, Poll, PublishMerge, NoMerge, MergeInv
<1>11. CASE Settle
  BY <1>11 DEF Settle, PublishMerge, Forget, NoMerge, MergeInv
<1>12. CASE SpawnStep("spawn", "reclaim")
  <2>1. CASE UNCHANGED <<disk, manifest, background>>
    BY <1>12, <2>1 DEF SpawnStep, MergeInv
  <2>2. CASE Spawn
    BY <1>12, <2>2, SpawnMerge
  <2> QED BY <1>12, <2>1, <2>2 DEF SpawnStep
<1>13. CASE SpawnStep("spawn_ingest", "append")
  <2>1. CASE UNCHANGED <<disk, manifest, background>>
    BY <1>13, <2>1 DEF SpawnStep, MergeInv
  <2>2. CASE Spawn
    BY <1>13, <2>2, SpawnMerge
  <2> QED BY <1>13, <2>1, <2>2 DEF SpawnStep
<1>14. CASE SpawnStep("spawn_idle", "idle")
  <2>1. CASE UNCHANGED <<disk, manifest, background>>
    BY <1>14, <2>1 DEF SpawnStep, MergeInv
  <2>2. CASE Spawn
    BY <1>14, <2>2, SpawnMerge
  <2> QED BY <1>14, <2>1, <2>2 DEF SpawnStep
<1>15. CASE ReserveStaged
  <2>1. manifest'.segs = manifest.segs /\ background' = background
    BY <1>15, ReserveMakes DEF ReserveStaged
  <2> QED BY <2>1 DEF MergeInv
<1>16. CASE IoError \/ PublishMergeFails \/ ResetWalFails
  BY <1>16 DEF IoError, PublishMergeFails, ResetWalFails, NoMerge, MergeInv
<1>17. CASE MergeFails
  BY <1>17, MergeFrame DEF MergeFails, TypeOK
<1>18. CASE Open
  BY <1>18 DEF Open, ControlInv, NoMerge, MergeInv
<1>19. CASE \/ Ingest \/ Append \/ AppendDirect \/ Flush \/ FlushSegment
           \/ FlushManifest \/ Stage \/ PublishStagedFails \/ Reclaim
           \/ Remove \/ Checkpoint \/ CommitCheckpoint \/ Reconnect \/ Close
           \/ MergeWrites \/ StagePiece \/ CompactFails \/ UNCHANGED vars
  BY ZenonT(30), <1>19 DEF MergeInv, Ingest, Append, AppendDirect, Flush,
         FlushSegment,
         FlushManifest, Stage, PublishStagedFails, Reclaim, Remove,
         Checkpoint, CommitCheckpoint, Reconnect, Close, MergeWrites,
         StagePiece, CompactFails, vars
<1>20. ASSUME NEW r \in Readers, Snapshot(r) PROVE MergeInv'
  BY <1>20 DEF Snapshot, MergeInv
<1>21. ASSUME NEW r \in Readers, Release(r) PROVE MergeInv'
  BY <1>21 DEF Release, MergeInv
<1> QED BY <1>1, <1>2, <1>3, <1>4, <1>5, <1>6, <1>7, <1>8, <1>9,
       <1>10, <1>11,
       <1>12, <1>13, <1>14, <1>15, <1>16, <1>17, <1>18, <1>19, <1>20, <1>21
              DEF Next, StoreStep

\* A flushed memtable takes the manifest from the committed version to the
\* applied one.
LEMMA FlushResolves ==
    ASSUME TypeOK, ManifestInv, Resolves(manifest), MemInv, pc = "manifest"
    PROVE  LET S == manifest.segs
                      \cup {[id |-> manifest.next, rows |-> memtable]}
           IN  /\ Rows(S) \subseteq 1..Applied
               /\ Visible(Rows(S)) = Visible(1..Applied)
<1> USE SourceAssumption
<1> DEFINE a == manifest.committed
           n == Applied
           R == Rows(manifest.segs)
           M == memtable
           S == manifest.segs \cup {[id |-> manifest.next, rows |-> memtable]}
<1>1. a \in 0..MaxVersion /\ n \in 0..MaxVersion /\ a <= n
  BY AppliedType DEF ManifestInv, TypeOK, Manifest
<1>2. R \in SUBSET (1..a) /\ Visible(R) = Visible(1..a)
  BY DEF Resolves
<1>3. M = Latest(a + 1 .. n)
  BY DEF MemInv
<1>4. Rows(S) = R \cup M
  <2>1. Rows({[id |-> manifest.next, rows |-> memtable]}) = memtable
    BY DEF Rows
  <2> QED BY <2>1, RowsUnion
<1> HIDE DEF a, n, R, M, S
<1>5. a + 1 .. n \in SUBSET Versions
  BY <1>1 DEF Versions
<1>6. Covers(M, a, n)
  <2> SUFFICES ASSUME NEW v \in a + 1 .. n
               PROVE  \E w \in M : KeyOf[w] = KeyOf[v] /\ w >= v
    BY DEF Covers
  <2>1. PICK m \in Latest(a + 1 .. n) : KeyOf[m] = KeyOf[v] /\ v <= m
    BY ZenonT(30), <1>5, LatestCovers
  <2>2. m \in Int /\ v \in Int
    BY <2>1, <1>1 DEF Latest
  <2> QED BY <1>3, <2>1, <2>2
<1>7. M \in SUBSET (a + 1 .. n)
  BY <1>3 DEF Latest
<1>8. Visible(R \cup M) = Visible(1..n)
  BY <1>1, <1>2, <1>6, <1>7, ExtendVisible
<1>9. R \cup M \subseteq 1..n
  BY <1>1, <1>2, <1>7
<1>10. Rows(S) \subseteq 1..n /\ Visible(Rows(S)) = Visible(1..n)
  BY <1>4, <1>8, <1>9
<1> QED BY ZenonT(30), <1>10 DEF n, S

\* Published pieces take it from the committed version to the last staged row.
LEMMA StagedResolves ==
    ASSUME TypeOK, ManifestInv, ControlInv, Resolves(manifest), MemInv,
           StreamInv, PublishStaged
    PROVE  LET n == Max(Rows(staged) \cup {commit_version})
               S == manifest.segs \cup staged
           IN  Rows(S) \subseteq 1..n /\ Visible(Rows(S)) = Visible(1..n)
<1> USE SourceAssumption
<1> DEFINE a == manifest.committed
           n == Max(Rows(staged) \cup {commit_version})
           R == Rows(manifest.segs)
           T == Rows(staged)
           S == manifest.segs \cup staged
<1>1. T \in SUBSET Versions /\ commit_version = a /\ a \in 0..MaxVersion
  BY RowsType DEF ManifestInv, PublishStaged, TypeOK, Manifest
<1>2. n \in 0..MaxVersion /\ n \in T \cup {a} /\ \A v \in T \cup {a} : v <= n
  BY ZenonT(30), <1>1, MaxVersionOf
<1>3. R \in SUBSET (1..a) /\ Visible(R) = Visible(1..a)
  BY DEF Resolves
<1>4. batch = {} /\ memtable = {} /\ ret = "idle" /\ pc \in {"idle", "publish"}
  BY DEF PublishStaged, ControlInv, Flushing, Reclaiming
<1>5. Applied = a
  <2>1. Applied = commit_version
    BY <1>4, AppliedType
  <2> QED BY <1>1, <2>1
<1>6. /\ \A v \in T : v > a /\ v <= pos
      /\ \A v \in a + 1 .. pos : \E w \in T : KeyOf[w] = KeyOf[v] /\ w >= v
  BY <1>4, <1>5 DEF StreamInv, Closing
<1>7. Rows(S) = R \cup T
  BY RowsUnion
<1>8. pos \in 0..MaxVersion
  BY DEF TypeOK
<1> HIDE DEF a, n, R, T, S
<1>9. \A v \in T : v \in Nat /\ v > a /\ v <= n
  <2>1. \A v \in T : v \in Nat
    BY ONLY <1>1 DEF Versions
  <2> QED BY ONLY ZenonT(30), <1>2, <1>6, <2>1
<1>10. a <= n /\ T \in SUBSET (a + 1 .. n)
  <2>1. a <= n
    BY ZenonT(30), <1>2
  <2> QED BY ONLY <1>1, <1>2, <1>9, <2>1
<1>11. Covers(T, a, n)
  <2>1. CASE n = a
    BY <1>1, <2>1 DEF Covers
  <2>2. CASE n # a
    <3>1. n \in T
      BY <1>2, <2>2
    <3>2. n <= pos
      BY <1>6, <3>1
    <3> QED BY <1>1, <1>2, <1>6, <1>8, <3>2 DEF Covers
  <2> QED BY <2>1, <2>2
<1>12. Visible(R \cup T) = Visible(1..n)
  BY <1>1, <1>2, <1>3, <1>10, <1>11, ExtendVisible
<1>13. R \cup T \subseteq 1..n
  BY <1>1, <1>2, <1>3, <1>10
<1>14. Rows(S) \subseteq 1..n /\ Visible(Rows(S)) = Visible(1..n)
  BY <1>7, <1>12, <1>13
<1> QED BY ZenonT(30), <1>14 DEF n, S, T

\* So does a published merge, which leaves the committed version.
LEMMA PublishMergeResolves ==
    ASSUME TypeOK, FileInv, Resolves(manifest), MergeInv, MergeDone, PublishMerge
    PROVE  ResolveInv'
<1>1. /\ manifest'.segs = (manifest.segs \ background.inputs)
                            \cup background.outputs
      /\ manifest'.committed = manifest.committed /\ disk' = manifest'
  BY PublishMergeMakes
<1>2. background.inputs \in SUBSET manifest.segs
  BY DEF FileInv
<1>3. MergeOf(background.inputs, Rows(background.outputs),
              manifest.segs \ background.inputs)
  BY DEF MergeInv, MergeDone
<1> QED BY ZenonT(30), <1>1, <1>2, <1>3, MergeResolves DEF ResolveInv, Resolves

\* Every step keeps what the manifests resolve to.
LEMMA ResolveStep == IInv /\ [Next]_vars => ResolveInv'
<1> SUFFICES ASSUME TypeOK, ManifestInv, ControlInv, FileInv,
                    ResolveInv, MemInv, StreamInv, MergeInv, [Next]_vars
             PROVE  ResolveInv'
  BY DEF IInv, IdInv, RowInv
<1>0. Resolves(manifest) /\ Resolves(disk)
  BY DEF ResolveInv
<1> USE DEF stream, logVars, control, memVars, stageVars
<1>1. CASE FlushManifest
  <2>1. /\ disk'.segs = manifest.segs
              \cup {[id |-> manifest.next, rows |-> memtable]}
        /\ disk'.committed = Applied /\ manifest' = manifest /\ pc = "manifest"
    BY <1>1 DEF FlushManifest
  <2> QED BY ZenonT(30), <2>1, <1>0, FlushResolves DEF ResolveInv, Resolves
<1>2. CASE FlushClear
  BY <1>2 DEF FlushClear, ResolveInv
<1>3. CASE WalResetFails
  BY <1>3 DEF WalResetFails, ResolveInv
<1>4. CASE Open
  BY <1>4 DEF Open, ResolveInv
<1>5. CASE Crash
  BY <1>5 DEF Crash, Forget, ResolveInv
<1>6. CASE PublishStaged
  <2>1. /\ manifest'.segs = manifest.segs \cup staged /\ disk' = manifest'
        /\ manifest'.committed = Max(Rows(staged) \cup {commit_version})
    BY <1>6, PublishStagedMakes
  <2> QED BY ZenonT(30), <1>6, <2>1, <1>0, StagedResolves
             DEF ResolveInv, Resolves
<1>7. CASE IngestPolls
  <2>1. CASE MergeDone /\ PublishMerge
    BY <2>1, <1>0, PublishMergeResolves DEF ResolveInv
  <2>2. CASE UNCHANGED <<disk, manifest>>
    BY <2>2 DEF ResolveInv
  <2> QED BY <1>7, <2>1, <2>2 DEF IngestPolls, Poll
<1>8. CASE Advance
  <2>1. CASE MergeDone /\ PublishMerge
    BY <2>1, <1>0, PublishMergeResolves DEF ResolveInv
  <2>2. CASE UNCHANGED <<disk, manifest>>
    BY <2>2 DEF ResolveInv
  <2> QED BY <1>8, <2>1, <2>2 DEF Advance, Poll
<1>9. CASE Maintain
  <2>1. CASE MergeDone /\ PublishMerge
    BY <2>1, <1>0, PublishMergeResolves DEF ResolveInv
  <2>2. CASE UNCHANGED <<disk, manifest>>
    BY <2>2 DEF ResolveInv
  <2> QED BY <1>9, <2>1, <2>2 DEF Maintain, Poll
<1>10. CASE Settle
  <2>1. CASE MergeDone /\ PublishMerge
    BY <2>1, <1>0, PublishMergeResolves DEF ResolveInv
  <2>2. CASE Forget /\ UNCHANGED disk
    BY <2>2 DEF Forget, ResolveInv
  <2> QED BY <1>10, <2>1, <2>2 DEF Settle
<1>11. CASE SpawnStep("spawn", "reclaim")
  <2>1. CASE UNCHANGED <<disk, manifest, background>>
    BY <2>1 DEF ResolveInv
  <2>2. CASE Spawn
    BY <2>2, <1>0, SpawnMakes DEF ResolveInv, Resolves
  <2> QED BY <1>11, <2>1, <2>2 DEF SpawnStep
<1>12. CASE SpawnStep("spawn_ingest", "append")
  <2>1. CASE UNCHANGED <<disk, manifest, background>>
    BY <2>1 DEF ResolveInv
  <2>2. CASE Spawn
    BY <2>2, <1>0, SpawnMakes DEF ResolveInv, Resolves
  <2> QED BY <1>12, <2>1, <2>2 DEF SpawnStep
<1>13. CASE SpawnStep("spawn_idle", "idle")
  <2>1. CASE UNCHANGED <<disk, manifest, background>>
    BY <2>1 DEF ResolveInv
  <2>2. CASE Spawn
    BY <2>2, <1>0, SpawnMakes DEF ResolveInv, Resolves
  <2> QED BY <1>13, <2>1, <2>2 DEF SpawnStep
<1>14. CASE ReserveStaged
  BY ZenonT(30), <1>14, <1>0, ReserveMakes DEF ResolveInv, Resolves
<1>15. CASE Compact
  <2>1. PICK S \in SUBSET manifest.segs, out \in SUBSET Segment :
          /\ disk' = manifest'
          /\ manifest'.segs = (manifest.segs \ S) \cup out
          /\ manifest'.committed = manifest.committed
          /\ \E drop \in SUBSET Keys :
                MayDrop(S, drop) /\ Rows(out) = Merged(S, drop)
    BY <1>15, CompactMakes
  <2>2. MergeOf(S, Rows(out), manifest.segs \ S)
    BY <2>1, DropsAreHidden
  <2>3. /\ Rows((manifest.segs \ S) \cup out) \subseteq 1..manifest.committed
        /\ Visible(Rows((manifest.segs \ S) \cup out))
             = Visible(1..manifest.committed)
    BY ZenonT(30), <2>2, <1>0, MergeResolves
  <2>4. Resolves(manifest')
    BY ZenonT(30), <2>1, <2>3 DEF Resolves
  <2> QED BY ZenonT(30), <2>1, <2>4 DEF ResolveInv
<1>16. CASE ResetManifest
  <2>1. manifest'.segs = {} /\ manifest'.committed = 0 /\ disk' = manifest'
    BY <1>16 DEF ResetManifest, EmptyManifest
  <2>2. Rows({}) = {} /\ 1..0 = {}
    BY DEF Rows
  <2> QED BY ZenonT(30), <2>1, <2>2 DEF ResolveInv, Resolves
<1>17. CASE \/ Ingest \/ Append \/ AppendDirect \/ Flush \/ FlushSegment
           \/ Stage \/ PublishStagedFails \/ Reclaim \/ Remove \/ Checkpoint
           \/ CommitCheckpoint \/ Reconnect \/ IoError \/ ResetWal \/ Close
           \/ MergeWrites \/ MergeFails \/ StagePiece \/ CompactFails
           \/ PublishMergeFails \/ ResetWalFails \/ UNCHANGED vars
  BY ZenonT(30), <1>17
     DEF ResolveInv, Ingest, Append, AppendDirect, Flush, FlushSegment,
         Stage, PublishStagedFails, Reclaim, Remove, Checkpoint,
         CommitCheckpoint, Reconnect, IoError, ResetWal, Close, MergeWrites,
         MergeFails, StagePiece, CompactFails, PublishMergeFails,
         ResetWalFails, vars
<1>18. ASSUME NEW r \in Readers, Snapshot(r) PROVE ResolveInv'
  BY <1>18 DEF Snapshot, ResolveInv
<1>19. ASSUME NEW r \in Readers, Release(r) PROVE ResolveInv'
  BY <1>19 DEF Release, ResolveInv
<1> QED BY <1>1, <1>2, <1>3, <1>4, <1>5, <1>6, <1>7, <1>8, <1>9, <1>10, <1>11,
       <1>12, <1>13, <1>14, <1>15, <1>16, <1>17, <1>18, <1>19
              DEF Next, StoreStep
=============================================================================
