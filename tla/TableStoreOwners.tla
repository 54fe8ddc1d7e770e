-------------------------- MODULE TableStoreOwners --------------------------
(***************************************************************************)
(* Every step of TableStore keeps segment ids apart: nobody holds an id    *)
(* somebody else is still going to write.                                  *)
(***************************************************************************)
EXTENDS TableStoreTypes

USE SMTT(30), ZenonT(30)

\* Ids others own, and ids of files somebody counts on, are below the next.
LEMMA OwnedIds ==
    ASSUME TypeOK, OwnerInv
    PROVE  \A i \in Owned : i \in Nat /\ i < manifest.next
<1>1. \A i \in Owned : i \in Nat
  BY ZenonT(30) DEF Owned, Ids, TypeOK, Segment
<1> QED BY <1>1 DEF OwnerInv

\* A step that leaves the ids' owners alone keeps them apart.
LEMMA OwnerFrame ==
    ASSUME OwnerInv,
           UNCHANGED <<manifest, staged, staged_ids, background, retired,
                       doomed, pins>>
    PROVE  OwnerInv'
<1>1. Owned' = Owned /\ Gone' = Gone
  BY DEF Owned, Gone, Ids
<1> QED BY <1>1 DEF OwnerInv, Ids, UniqueIds

\* A step after which less is owned and less is waiting to be removed.
LEMMA OwnerShrinks ==
    ASSUME OwnerInv,
           manifest' = manifest,
           staged' \subseteq staged, staged_ids' \subseteq staged_ids,
           background'.outputs \subseteq background.outputs,
           Gone' \subseteq Gone,
           \A r \in Readers : pins'[r] \subseteq pins[r],
           \A r \in Readers : pins'[r] \cap doomed' = {}
    PROVE  OwnerInv'
<1>1. /\ Ids(staged') \subseteq Ids(staged)
      /\ Ids(background'.outputs) \subseteq Ids(background.outputs)
      /\ Ids(Gone') \subseteq Ids(Gone)
  BY DEF Ids
<1>2. Owned' \subseteq Owned
  BY <1>1 DEF Owned
<1>3. UniqueIds(background'.outputs)
  BY DEF OwnerInv, UniqueIds
<1>4. \A s \in manifest.segs \cup Gone' \cup UNION {pins'[r] : r \in Readers} :
        s.id < manifest.next /\ s.id \notin Owned'
  <2>1. UNION {pins'[r] : r \in Readers} \subseteq UNION {pins[r] : r \in Readers}
    OBVIOUS
  <2>2. \A s \in manifest.segs \cup Gone \cup UNION {pins[r] : r \in Readers} :
          s.id < manifest.next /\ s.id \notin Owned
    BY DEF OwnerInv
  <2> QED BY <1>2, <2>1, <2>2
<1>5. \A i \in Owned' : i < manifest.next
  BY <1>2 DEF OwnerInv
<1>6. /\ staged_ids' \cap (Ids(staged') \cup Ids(background'.outputs)) = {}
      /\ Ids(staged') \cap Ids(background'.outputs) = {}
      /\ Ids(manifest.segs) \cap Ids(Gone') = {}
  BY <1>1 DEF OwnerInv
<1> QED BY <1>3, <1>4, <1>5, <1>6 DEF OwnerInv

\* A poll that publishes nothing at most forgets a failed merge.
LEMMA OwnerPolls ==
    ASSUME OwnerInv,
           UNCHANGED <<manifest, staged, staged_ids, retired, doomed, pins>>,
           background' \in {NoMerge, background}
    PROVE  OwnerInv'
<1>1. background'.outputs \subseteq background.outputs
  BY DEF NoMerge
<1>2. Gone' = Gone
  BY DEF Gone
<1>3. \A r \in Readers : pins'[r] \cap doomed' = {}
  BY DEF OwnerInv
<1> QED BY <1>1, <1>2, <1>3, OwnerShrinks

\* Publishing a merge hands its outputs' ids to the manifest and its inputs'
\* to the retired files.
LEMMA PublishMergeOwner ==
    ASSUME TypeOK, FileInv, OwnerInv, PublishMerge,
           UNCHANGED <<staged, staged_ids, doomed, pins>>
    PROVE  OwnerInv'
<1>1. /\ Owned' = Ids(staged) \cup staged_ids
      /\ Gone' = Gone \cup background.inputs
      /\ manifest'.segs = (manifest.segs \ background.inputs)
                             \cup background.outputs
      /\ manifest'.next = manifest.next
      /\ background'.outputs = {}
  BY PublishMergeMakes DEF Owned, Gone, Ids
<1>2. \A s \in background.outputs :
        /\ s.id < manifest.next /\ s.id \in Owned /\ s.id \notin Owned'
  <2> SUFFICES ASSUME NEW s \in background.outputs
               PROVE  /\ s.id < manifest.next
                      /\ s.id \in Owned /\ s.id \notin Owned'
    OBVIOUS
  <2>1. s.id \in Ids(background.outputs)
    BY DEF Ids
  <2>2. s.id \in Owned
    BY <2>1 DEF Owned
  <2>3. s.id \notin Ids(staged) \cup staged_ids
    BY <2>1 DEF OwnerInv
  <2> QED BY <1>1, <2>2, <2>3 DEF OwnerInv
<1>3. \A s \in manifest.segs \cup Gone \cup UNION {pins[r] : r \in Readers} :
        s.id < manifest.next /\ s.id \notin Owned /\ s.id \notin Owned'
  BY <1>1 DEF OwnerInv, Owned
<1>4. background.inputs \subseteq manifest.segs
  BY DEF FileInv
<1>5. \A s \in manifest'.segs \cup Gone' \cup UNION {pins[r] : r \in Readers} :
        s.id < manifest.next /\ s.id \notin Owned'
  BY <1>1, <1>2, <1>3, <1>4
<1>6. Ids(manifest'.segs) \cap Ids(Gone') = {}
  <2> SUFFICES ASSUME NEW s \in manifest'.segs, NEW t \in Gone', s.id = t.id
               PROVE  FALSE
    BY DEF Ids
  <2>1. CASE s \in background.outputs
    BY <1>1, <1>2, <1>3, <1>4, <2>1
  <2>2. CASE s \notin background.outputs
    <3>1. s \in manifest.segs \ background.inputs
      BY <1>1, <2>2
    <3>2. CASE t \in Gone
      BY <3>1, <3>2 DEF OwnerInv, Ids
    <3>3. CASE t \in background.inputs
      <4>1. s \in files /\ t \in files
        BY <3>1, <3>3, <1>4 DEF FileInv
      <4> QED BY <4>1, <3>1, <3>3 DEF FileInv, UniqueIds
    <3> QED BY <1>1, <3>2, <3>3
  <2> QED BY <2>1, <2>2
<1>7. Owned' \subseteq Owned
  BY <1>1 DEF Owned
<1> QED BY <1>1, <1>5, <1>6, <1>7 DEF OwnerInv, Ids, UniqueIds

\* Starting a merge owns two ids of a fresh reservation.
LEMMA SpawnOwner ==
    ASSUME TypeOK, FileInv, OwnerInv, Spawn,
           UNCHANGED <<staged, staged_ids, doomed, retired, pins>>
    PROVE  OwnerInv'
<1>1. /\ manifest'.segs = manifest.segs
      /\ manifest'.next = manifest.next + ReservedIds
      /\ UniqueIds(background'.outputs)
      /\ \A s \in background'.outputs :
           s.id \in {manifest.next, manifest.next + 1}
  BY SpawnMakes
<1>2. manifest.next \in Nat /\ ReservedIds \in Nat /\ ReservedIds >= 2
  BY IdAssumption DEF TypeOK, Manifest
<1>3. Gone' = Gone
  BY DEF Gone
<1>4. background.outputs = {}
  BY DEF Spawn, NoMerge
<1>5. \A i \in Owned' : i \in Owned \/ i \in {manifest.next, manifest.next + 1}
  BY <1>1, <1>4 DEF Owned, Ids
<1>6. \A i \in Owned : i \in Nat /\ i < manifest.next
  BY OwnedIds
<1>7. \A i \in Owned' : i < manifest'.next
  BY <1>1, <1>2, <1>5, <1>6
<1>8. \A s \in manifest.segs \cup Gone \cup UNION {pins[r] : r \in Readers} :
        s.id \in Nat
  BY DEF Gone, TypeOK, Manifest, Segment
<1>9. \A s \in manifest.segs \cup Gone \cup UNION {pins[r] : r \in Readers} :
        s.id < manifest'.next /\ s.id \notin Owned'
  BY <1>1, <1>2, <1>5, <1>8 DEF OwnerInv
<1>10. Ids(staged) \cap Ids(background'.outputs) = {}
       /\ staged_ids \cap Ids(background'.outputs) = {}
  <2>1. \A i \in Ids(background'.outputs) : i >= manifest.next
    BY <1>1, <1>2 DEF Ids
  <2>2. \A i \in Ids(staged) \cup staged_ids : i \in Nat /\ i < manifest.next
    BY <1>6 DEF Owned
  <2>3. \A i \in Ids(background'.outputs) : i \in Nat
    BY <1>1, <1>2 DEF Ids
  <2> QED BY <1>2, <2>1, <2>2, <2>3
<1> QED BY <1>1, <1>3, <1>7, <1>9, <1>10 DEF OwnerInv

\* Every step keeps ids apart.
LEMMA OwnerStep == IInv /\ [Next]_vars => OwnerInv'
<1> SUFFICES ASSUME TypeOK, ManifestInv, ControlInv, FileInv, OwnerInv,
                    [Next]_vars
             PROVE  OwnerInv'
  BY DEF IInv, IdInv, RowInv
<1> USE DEF stream, logVars, control, memVars, stageVars
<1>1. CASE IngestPolls
  <2>1. CASE MergeDone /\ PublishMerge
    BY <1>1, <2>1, PublishMergeOwner DEF IngestPolls
  <2>2. CASE UNCHANGED <<disk, manifest, retired>>
            /\ background' \in {NoMerge, background}
    BY <1>1, <2>2, OwnerPolls DEF IngestPolls
  <2> QED BY <1>1, <2>1, <2>2 DEF IngestPolls, Poll
<1>2. CASE Advance
  <2>1. CASE MergeDone /\ PublishMerge
    BY <1>2, <2>1, PublishMergeOwner DEF Advance
  <2>2. CASE UNCHANGED <<disk, manifest, retired>>
            /\ background' \in {NoMerge, background}
    BY <1>2, <2>2, OwnerPolls DEF Advance
  <2> QED BY <1>2, <2>1, <2>2 DEF Advance, Poll
<1>3. CASE Maintain
  <2>1. CASE MergeDone /\ PublishMerge
    BY <1>3, <2>1, PublishMergeOwner DEF Maintain
  <2>2. CASE UNCHANGED <<disk, manifest, retired>>
            /\ background' \in {NoMerge, background}
    BY <1>3, <2>2, OwnerPolls DEF Maintain
  <2> QED BY <1>3, <2>1, <2>2 DEF Maintain, Poll
<1>4. CASE Settle
  <2>1. CASE MergeDone /\ PublishMerge
    BY <1>4, <2>1, PublishMergeOwner DEF Settle, MergeDone
  <2>2. CASE Forget
    <3>1. /\ manifest' = manifest /\ pins' = pins
          /\ staged' = {} /\ staged_ids' = {} /\ background' = NoMerge
          /\ retired' = {} /\ doomed' = {}
      BY <1>4, <2>2 DEF Settle, Forget, ManifestInv
    <3>2. Gone' = {} /\ background'.outputs = {}
      BY <3>1 DEF Gone, NoMerge
    <3> QED BY <3>1, <3>2, OwnerShrinks
  <2> QED BY <1>4, <2>1, <2>2 DEF Settle
<1>5. CASE SpawnStep("spawn", "reclaim")
  <2>1. CASE UNCHANGED <<disk, manifest, background>>
    BY <1>5, <2>1, OwnerFrame DEF SpawnStep
  <2>2. CASE Spawn
    BY <1>5, <2>2, SpawnOwner DEF SpawnStep
  <2> QED BY <1>5, <2>1, <2>2 DEF SpawnStep
<1>6. CASE SpawnStep("spawn_ingest", "append")
  <2>1. CASE UNCHANGED <<disk, manifest, background>>
    BY <1>6, <2>1, OwnerFrame DEF SpawnStep
  <2>2. CASE Spawn
    BY <1>6, <2>2, SpawnOwner DEF SpawnStep
  <2> QED BY <1>6, <2>1, <2>2 DEF SpawnStep
<1>7. CASE SpawnStep("spawn_idle", "idle")
  <2>1. CASE UNCHANGED <<disk, manifest, background>>
    BY <1>7, <2>1, OwnerFrame DEF SpawnStep
  <2>2. CASE Spawn
    BY <1>7, <2>2, SpawnOwner DEF SpawnStep
  <2> QED BY <1>7, <2>1, <2>2 DEF SpawnStep
<1>8. CASE FlushClear
  <2>1. /\ manifest'.segs = manifest.segs
                \cup {[id |-> manifest.next, rows |-> memtable]}
        /\ manifest'.next = manifest.next + 1 /\ manifest.next \in Nat
    BY <1>8 DEF FlushClear, ManifestInv, TypeOK, Manifest
  <2>2. \A s \in manifest.segs \cup Gone \cup UNION {pins[r] : r \in Readers} :
          s.id \in Nat
    BY DEF Gone, TypeOK, Manifest, Segment
  <2>3. \A i \in Owned : i \in Nat
    BY ZenonT(30) DEF Owned, Ids, TypeOK, Segment
  <2>4. Owned' = Owned /\ Gone' = Gone
    BY <1>8 DEF FlushClear, Owned, Gone, Ids
  <2>5. \A s \in manifest'.segs \cup Gone \cup UNION {pins[r] : r \in Readers} :
          s.id < manifest'.next /\ s.id \notin Owned
    BY <2>1, <2>2, <2>3 DEF OwnerInv
  <2>6. \A i \in Owned : i < manifest'.next
    BY <2>1, <2>3 DEF OwnerInv
  <2>7. Ids(manifest'.segs) \cap Ids(Gone) = {}
    <3> SUFFICES ASSUME NEW s \in manifest'.segs, NEW t \in Gone, s.id = t.id
                 PROVE  FALSE
      BY DEF Ids
    <3>1. t.id < manifest.next
      BY DEF OwnerInv
    <3>2. CASE s \in manifest.segs
      BY <3>2 DEF OwnerInv, Ids
    <3>3. CASE s.id = manifest.next
      BY <2>1, <3>1, <3>3
    <3> QED BY <2>1, <3>2, <3>3
  <2> QED BY <1>8, <2>4, <2>5, <2>6, <2>7 DEF FlushClear, OwnerInv
<1>9. CASE WalResetFails
  <2>1. /\ manifest'.segs = manifest.segs
                \cup {[id |-> manifest.next, rows |-> memtable]}
        /\ manifest'.next = manifest.next + 1 /\ manifest.next \in Nat
    BY <1>9 DEF WalResetFails, ManifestInv, TypeOK, Manifest
  <2>2. \A s \in manifest.segs \cup Gone \cup UNION {pins[r] : r \in Readers} :
          s.id \in Nat
    BY DEF Gone, TypeOK, Manifest, Segment
  <2>3. \A i \in Owned : i \in Nat
    BY ZenonT(30) DEF Owned, Ids, TypeOK, Segment
  <2>4. Owned' = Owned /\ Gone' = Gone
    BY <1>9 DEF WalResetFails, Owned, Gone, Ids
  <2>5. \A s \in manifest'.segs \cup Gone \cup UNION {pins[r] : r \in Readers} :
          s.id < manifest'.next /\ s.id \notin Owned
    BY <2>1, <2>2, <2>3 DEF OwnerInv
  <2>6. \A i \in Owned : i < manifest'.next
    BY <2>1, <2>3 DEF OwnerInv
  <2>7. Ids(manifest'.segs) \cap Ids(Gone) = {}
    <3> SUFFICES ASSUME NEW s \in manifest'.segs, NEW t \in Gone, s.id = t.id
                 PROVE  FALSE
      BY DEF Ids
    <3>1. t.id < manifest.next
      BY DEF OwnerInv
    <3>2. CASE s \in manifest.segs
      BY <3>2 DEF OwnerInv, Ids
    <3>3. CASE s.id = manifest.next
      BY <2>1, <3>1, <3>3
    <3> QED BY <2>1, <3>2, <3>3
  <2> QED BY <1>9, <2>4, <2>5, <2>6, <2>7 DEF WalResetFails, OwnerInv
<1>10. CASE PublishStaged
  <2>1. /\ manifest'.segs = manifest.segs \cup staged
        /\ manifest'.next = manifest.next
    BY <1>10, PublishStagedMakes
  <2>2. /\ UNCHANGED <<staged_ids, background, retired, doomed, pins>>
        /\ staged' = {}
    BY <1>10 DEF PublishStaged
  <2>3. Gone' = Gone /\ Owned' \subseteq Owned /\ Ids(staged') = {}
    BY <2>2 DEF Gone, Owned, Ids
  <2>4. \A s \in staged : s.id < manifest.next
    BY DEF OwnerInv, Owned, Ids
  <2>5. \A s \in staged : s.id \notin Owned'
    BY <2>2 DEF OwnerInv, Owned, Ids
  <2>6. Ids(staged) \cap Ids(Gone) = {}
    BY DEF OwnerInv, Owned, Ids
  <2>7. Ids(manifest'.segs) \cap Ids(Gone') = {}
    BY <2>1, <2>3, <2>6 DEF OwnerInv, Ids
  <2>8. \A s \in manifest'.segs \cup Gone' \cup UNION {pins'[r] : r \in Readers} :
           s.id < manifest'.next /\ s.id \notin Owned'
    BY <2>1, <2>2, <2>3, <2>4, <2>5 DEF OwnerInv
  <2>9. staged_ids' \cap (Ids(staged') \cup Ids(background'.outputs)) = {}
    BY <2>2, <2>3 DEF OwnerInv
  <2> QED BY ZenonT(30), <2>1, <2>2, <2>3, <2>7, <2>8, <2>9 DEF OwnerInv, UniqueIds
<1>11. CASE StagePiece
  <2>1. PICK s \in Segment :
          /\ s.id \in staged_ids
          /\ staged' = staged \cup {s} /\ staged_ids' = staged_ids \ {s.id}
    BY ZenonT(30), <1>11, StagePieceMakes
  <2>2. UNCHANGED <<manifest, background, retired, doomed, pins>>
    BY <1>11 DEF StagePiece
  <2>3. Gone' = Gone
    BY <2>2 DEF Gone
  <2>4. Ids(staged') = Ids(staged) \cup {s.id}
    BY <2>1 DEF Ids
  <2>5. Owned' = Owned
    BY ZenonT(30), <2>1, <2>2, <2>4 DEF Owned
  <2>6. /\ staged_ids' \cap (Ids(staged') \cup Ids(background.outputs)) = {}
        /\ Ids(staged') \cap Ids(background.outputs) = {}
    BY ZenonT(30), <2>1, <2>4 DEF OwnerInv
  <2> QED BY ZenonT(30), <2>2, <2>3, <2>5, <2>6 DEF OwnerInv
<1>23. CASE ReserveStaged
  <2> DEFINE ids == manifest.next .. manifest.next + StagedIds - 1
  <2>1. /\ manifest'.segs = manifest.segs
        /\ manifest'.next = manifest.next + StagedIds
    BY <1>23, ReserveMakes
  <2>2. manifest.next \in Nat /\ StagedIds \in Nat
    BY IdAssumption DEF TypeOK, Manifest
  <2>3. \A i \in ids : i >= manifest.next /\ i < manifest'.next
    BY <2>1, <2>2
  <2>4. \A i \in Owned : i \in Nat /\ i < manifest.next
    BY OwnedIds
  <2>5. /\ staged_ids' = ids /\ staged_ids = {}
        /\ UNCHANGED <<staged, background, retired, doomed, pins>>
    BY <1>23 DEF ReserveStaged
  <2> HIDE DEF ids
  <2>6. Gone' = Gone /\ Owned' = Owned \cup ids
    BY ZenonT(30), <2>5 DEF Gone, Owned
  <2>7. \A t \in manifest.segs \cup Gone \cup UNION {pins[r] : r \in Readers} :
          t.id \in Nat /\ t.id < manifest.next /\ t.id \notin Owned
    <3>1. \A t \in manifest.segs \cup Gone \cup UNION {pins[r] : r \in Readers} :
            t.id \in Nat
      BY DEF Gone, TypeOK, Manifest, Segment
    <3> QED BY ZenonT(30), <3>1 DEF OwnerInv
  <2>8. \A t \in manifest.segs \cup Gone \cup UNION {pins[r] : r \in Readers} :
          t.id < manifest'.next /\ t.id \notin Owned'
    <3> TAKE t \in manifest.segs \cup Gone \cup UNION {pins[r] : r \in Readers}
    <3>1. t.id \in Nat /\ t.id < manifest.next /\ t.id \notin Owned
      BY ZenonT(30), <2>7
    <3>2. t.id < manifest'.next
      BY <2>1, <2>2, <3>1
    <3>3. t.id \notin ids
      BY <2>2, <2>3, <3>1
    <3> QED BY ZenonT(30), <2>6, <3>1, <3>2, <3>3
  <2>9. \A i \in Owned' : i < manifest'.next
    <3> TAKE i \in Owned'
    <3>1. CASE i \in Owned
      BY <2>1, <2>2, <2>4, <3>1
    <3>2. CASE i \in ids
      BY ZenonT(30), <2>3, <3>2
    <3> QED BY ZenonT(30), <2>6, <3>1, <3>2
  <2>10. ids \cap Owned = {}
    BY <2>2, <2>3, <2>4
  <2>11. staged_ids' \cap (Ids(staged) \cup Ids(background.outputs)) = {}
    BY ZenonT(30), <2>5, <2>10 DEF Owned
  <2> QED BY ZenonT(30), <2>1, <2>5, <2>6, <2>8, <2>9, <2>11 DEF OwnerInv
<1>12. CASE Compact
  <2>1. PICK S \in SUBSET manifest.segs, out \in SUBSET Segment :
          /\ manifest'.segs = (manifest.segs \ S) \cup out
          /\ manifest'.next = manifest.next + 2
          /\ retired' = retired \cup {S}
          /\ \A s \in out : s.id \in {manifest.next, manifest.next + 1}
    BY <1>12, CompactMakes
  <2>2. manifest.next \in Nat
    BY DEF TypeOK, Manifest
  <2>3. Gone' = Gone \cup S /\ Owned' = Owned
    <3>1. UNION retired' = (UNION retired) \cup S
      BY <2>1
    <3> QED BY <1>12, <3>1 DEF Compact, Gone, Owned, Ids
  <2>4. \A i \in Owned : i \in Nat /\ i < manifest.next
    BY OwnedIds
  <2>5. \A s \in manifest.segs \cup Gone \cup UNION {pins[r] : r \in Readers} :
          s.id \in Nat /\ s.id < manifest.next /\ s.id \notin Owned
    <3>1. \A s \in manifest.segs \cup Gone \cup UNION {pins[r] : r \in Readers} :
            s.id \in Nat
      BY DEF Gone, TypeOK, Manifest, Segment
    <3> QED BY <3>1 DEF OwnerInv
  <2>6. \A s \in manifest'.segs \cup Gone' \cup UNION {pins[r] : r \in Readers} :
          s.id < manifest'.next /\ s.id \notin Owned
    BY <2>1, <2>2, <2>3, <2>4, <2>5
  <2>7. Ids(manifest'.segs) \cap Ids(Gone') = {}
    <3> SUFFICES ASSUME NEW s \in manifest'.segs, NEW t \in Gone', s.id = t.id
                 PROVE  FALSE
      BY DEF Ids
    <3>1. t.id < manifest.next /\ t.id \in Nat
      BY <2>1, <2>3, <2>5
    <3>2. CASE s \in out
      BY <2>1, <2>2, <3>1, <3>2
    <3>3. CASE s \notin out
      <4>1. s \in manifest.segs \ S
        BY <2>1, <3>3
      <4>2. CASE t \in Gone
        BY <4>1, <4>2 DEF OwnerInv, Ids
      <4>3. CASE t \in S
        <5>1. s \in files /\ t \in files
          BY <2>1, <4>1, <4>3 DEF FileInv
        <5> QED BY <5>1, <4>1, <4>3 DEF FileInv, UniqueIds
      <4> QED BY <2>3, <4>2, <4>3
    <3> QED BY <3>2, <3>3
  <2>8. \A i \in Owned : i < manifest'.next
    BY <2>1, <2>2, <2>4
  <2> QED BY ZenonT(30), <1>12, <2>3, <2>6, <2>7, <2>8 DEF Compact, OwnerInv
<1>13. CASE Crash
  <2>1. \A s \in disk.segs : s.id < disk.next
    <3>1. CASE pc # "clear"
      BY <3>1 DEF ManifestInv, OwnerInv
    <3>2. CASE pc = "clear"
      <4>1. /\ disk.next = manifest.next + 1 /\ manifest.next \in Nat
            /\ disk.segs = manifest.segs
                  \cup {[id |-> manifest.next, rows |-> memtable]}
        BY <3>2 DEF ManifestInv, TypeOK, Manifest
      <4>2. \A s \in manifest.segs : s.id \in Nat /\ s.id < manifest.next
        BY DEF OwnerInv, TypeOK, Manifest, Segment
      <4> QED BY <4>1, <4>2
    <3> QED BY <3>1, <3>2
  <2>2. /\ manifest' = disk /\ Gone' = {} /\ Owned' = {}
        /\ background'.outputs = {} /\ doomed' = {} /\ staged' = {}
        /\ staged_ids' = {} /\ pins' = [r \in Readers |-> {}]
    <3>1. /\ manifest' = disk /\ retired' = {} /\ doomed' = {}
          /\ staged' = {} /\ staged_ids' = {} /\ background' = NoMerge
          /\ pins' = [r \in Readers |-> {}]
      BY <1>13 DEF Crash, Forget
    <3>2. background'.outputs = {}
      BY <3>1 DEF NoMerge
    <3>3. Gone' = {}
      BY <3>1 DEF Gone
    <3>4. Owned' = {}
      BY <3>1, <3>2 DEF Owned, Ids
    <3> QED BY <3>1, <3>2, <3>3, <3>4
  <2> QED BY <2>1, <2>2 DEF OwnerInv, Ids, UniqueIds
<1>14. CASE \/ Ingest \/ Append \/ AppendDirect \/ Flush \/ FlushSegment
           \/ FlushManifest \/ Stage \/ Checkpoint \/ CommitCheckpoint
           \/ Reconnect \/ Close \/ MergeWrites \/ CompactFails
           \/ UNCHANGED vars
  BY ZenonT(30), <1>14, OwnerFrame DEF Ingest, Append, AppendDirect, Flush,
         FlushSegment,
         FlushManifest, Stage, Checkpoint, CommitCheckpoint, Reconnect,
         Close, MergeWrites, CompactFails, vars
<1>15. CASE Open
  BY <1>15, OwnerFrame DEF Open, ManifestInv
<1>16. CASE PublishStagedFails
  <2>1. Gone' = Gone
    BY <1>16 DEF PublishStagedFails, Gone
  <2>2. \A r \in Readers : pins'[r] \cap doomed' = {}
    BY <1>16 DEF PublishStagedFails, OwnerInv
  <2> QED BY <1>16, <2>1, <2>2, OwnerShrinks DEF PublishStagedFails
<1>17. CASE Reclaim
  <2> DEFINE free == {g \in retired : \A r \in Readers : g \cap pins[r] = {}}
  <2>1. doomed = {} /\ doomed' = UNION free /\ retired' = retired \ free
    BY <1>17 DEF Reclaim, ControlInv
  <2>2. Gone' \subseteq Gone
    BY <2>1 DEF Gone
  <2>3. \A r \in Readers : pins[r] \cap doomed' = {}
    BY <2>1
  <2> HIDE DEF free
  <2> QED BY <1>17, <2>2, <2>3, OwnerShrinks DEF Reclaim
<1>18. CASE Remove
  <2>1. doomed' = {} /\ Gone' \subseteq Gone
    BY <1>18 DEF Remove, Gone
  <2> QED BY <1>18, <2>1, OwnerShrinks DEF Remove
<1>19. CASE \/ ResetWal \/ ResetWalFails \/ IoError \/ MergeFails
           \/ PublishMergeFails
  <2>1. background'.outputs \in {{}, background.outputs}
    BY <1>19 DEF ResetWal, ResetWalFails, IoError, MergeFails,
           PublishMergeFails, NoMerge, TypeOK
  <2>2. UNCHANGED <<manifest, staged, staged_ids, retired, doomed, pins>>
    BY <1>19 DEF ResetWal, ResetWalFails, IoError, MergeFails, PublishMergeFails
  <2>3. Gone' = Gone
    BY <2>2 DEF Gone
  <2>4. \A r \in Readers : pins'[r] \cap doomed' = {}
    BY <2>2 DEF OwnerInv
  <2> QED BY <2>1, <2>2, <2>3, <2>4, OwnerShrinks
<1>20. CASE ResetManifest
  <2>1. /\ manifest'.next = manifest.next /\ manifest'.segs = {}
        /\ retired' = retired \cup {manifest.segs}
        /\ UNCHANGED <<staged, staged_ids, background, doomed, pins>>
    BY <1>20 DEF ResetManifest, EmptyManifest
  <2>2. Gone' = Gone \cup manifest.segs /\ Owned' = Owned
    BY <2>1 DEF Gone, Owned, Ids
  <2> QED BY <2>1, <2>2 DEF OwnerInv, Ids, UniqueIds
<1>21. ASSUME NEW r \in Readers, Snapshot(r) PROVE OwnerInv'
  <2>1. /\ \A q \in Readers : pins'[q] = pins[q] \/ pins'[q] = manifest.segs
        /\ UNCHANGED <<manifest, staged, staged_ids, background, retired,
                       doomed>>
    BY <1>21 DEF Snapshot, TypeOK
  <2>2. Gone' = Gone /\ Owned' = Owned /\ doomed = {}
    BY <1>21, <2>1 DEF Gone, Owned, Ids, Snapshot, ControlInv
  <2> QED BY <2>1, <2>2 DEF OwnerInv, Ids, UniqueIds
<1>22. ASSUME NEW r \in Readers, Release(r) PROVE OwnerInv'
  <2>1. /\ \A q \in Readers : pins'[q] \subseteq pins[q]
        /\ UNCHANGED <<manifest, staged, staged_ids, background, retired,
                       doomed>>
    BY <1>22 DEF Release, TypeOK
  <2>2. Gone' = Gone
    BY <2>1 DEF Gone
  <2>3. \A q \in Readers : pins'[q] \cap doomed' = {}
    BY ZenonT(30), <2>1 DEF OwnerInv
  <2> QED BY <2>1, <2>2, <2>3, OwnerShrinks
<1> QED BY <1>1, <1>2, <1>3, <1>4, <1>5, <1>6, <1>7, <1>8, <1>9,
       <1>10, <1>11,
       <1>12, <1>13, <1>14, <1>15, <1>16, <1>17, <1>18, <1>19, <1>20, <1>21,
       <1>22, <1>23 DEF Next, StoreStep
=============================================================================
