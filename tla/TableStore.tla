----------------------------- MODULE TableStore -----------------------------
(***************************************************************************)
(* One replicated table of pintail-store: write-ahead log, memtable,       *)
(* immutable segments and the manifest that names them, under the change   *)
(* stream that feeds it (crates/pintail-store/src/store/mod.rs).           *)
(*                                                                         *)
(* A row is its source version: the source's v-th change of this table     *)
(* writes key KeyOf[v], and deletes it when v \in Deleted.  A segment file *)
(* is [id, rows]; the WAL is the set of its records [seq, rows].  A store  *)
(* call that makes several durable steps is walked by pc, with ret the     *)
(* place a nested flush or reclaim returns to, so that a crash, the merge  *)
(* worker and readers can act between any two of them.                     *)
(***************************************************************************)
EXTENDS Integers, FiniteSets, FiniteSetsExt

CONSTANTS MaxVersion,     \* how many changes the source makes to this table
          KeyOf,          \* KeyOf[v]: the primary key change v writes
          Deleted,        \* the changes that are deletes (tombstones)
          Readers,        \* handles that can pin a manifest
          ReservedIds,    \* RESERVED_SEGMENT_IDS: ids set aside for a merge
          StagedIds,      \* STAGED_SEGMENT_IDS: ids set aside for staging
          MaxBatch,       \* bound: rows the stream hands over in one call
          MaxSegmentId    \* bound: segment ids handed out

Versions == 1..MaxVersion
Keys == {KeyOf[v] : v \in Versions}

ASSUME SourceAssumption ==
    /\ MaxVersion \in Nat
    /\ KeyOf \in [Versions -> Int]
    /\ Deleted \subseteq Versions

ASSUME IdAssumption ==
    /\ ReservedIds \in Nat \ {0, 1}
    /\ StagedIds \in Nat \ {0}
    /\ MaxSegmentId \in Nat
    /\ MaxBatch \in Nat

VARIABLES
    pos,              \* last change the stream handed to the store
    cp,               \* the stream's checkpoint in the metadata database
    wal,              \* records of wal.log
    synced,           \* records up to this sequence survive a power loss
    disk,             \* the manifest file
    files,            \* segment files in the table's directory
    pc, ret,          \* where the running store call is, where it returns
    batch,            \* the rows of the call in progress
    manifest,         \* TableStore::manifest
    memtable,         \* TableStore::memtable
    last_sequence,    \* TableStore::last_sequence
    commit_version,   \* TableStore::commit_version
    staged,           \* TableStore::staged: pieces written, not published
    staged_ids,       \* TableStore::staged_ids
    background,       \* TableStore::background, the merge in flight
    retired,          \* TableStore::retired: input sets awaiting removal
    doomed,           \* files the running reclaim pass decided to remove
    pins              \* segments each reader's registered manifest names

stream == <<pos, cp>>
logVars == <<wal, synced>>
control == <<pc, ret, batch>>
memVars == <<memtable, last_sequence, commit_version>>
stageVars == <<staged, staged_ids>>
vars == <<pos, cp, wal, synced, disk, files, pc, ret, batch, manifest,
          memtable, last_sequence, commit_version, staged, staged_ids,
          background, retired, doomed, pins>>

-----------------------------------------------------------------------------
(* Rows, segments, and what a scan returns.                                *)

\* The winning version of every key in R.
Latest(R) == {v \in R : \A w \in R : KeyOf[w] = KeyOf[v] => w <= v}

\* The rows a merge-on-read of R shows: winners that are not deletes.
Visible(R) == Latest(R) \ Deleted

Rows(S) == UNION {s.rows : s \in S}

\* A scan of the segments and the memtable: the newest row of a key wins.
Scan(S, mem) == Visible(Rows(S) \cup mem)

\* TableStore::applied_version; 0 stands for "nothing applied".
Applied == Max(memtable \cup {commit_version})

\* A segment file appears by renaming a temporary one onto its final name.
Write(F, s) == {f \in F : f.id # s.id} \cup {s}

NoMerge == [state |-> "none", inputs |-> {}, outputs |-> {}]
EmptyManifest == [segs |-> {}, flushed |-> 0, next |-> 1, committed |-> 0]

Init ==
    /\ pos = 0 /\ cp = 0
    /\ wal = {} /\ synced = 0
    /\ disk = EmptyManifest /\ files = {}
    /\ pc = "closed" /\ ret = "idle" /\ batch = {}
    /\ manifest = EmptyManifest
    /\ memtable = {} /\ last_sequence = 0 /\ commit_version = 0
    /\ staged = {} /\ staged_ids = {}
    /\ background = NoMerge /\ retired = {} /\ doomed = {}
    /\ pins = [r \in Readers |-> {}]

-----------------------------------------------------------------------------
(* Opening, closing, crashing.                                             *)

\* What the handle holds in memory is gone.
Forget ==
    /\ ret' = "idle" /\ batch' = {}
    /\ manifest' = disk
    /\ memtable' = {} /\ last_sequence' = 0 /\ commit_version' = 0
    /\ staged' = {} /\ staged_ids' = {}
    /\ background' = NoMerge /\ retired' = {} /\ doomed' = {}

\* TableStore::open_with_wal: every named segment is verified, files no
\* manifest names are swept, the log's unflushed records are replayed, and a
\* log that is wholly flushed is reset.  The stream resumes at its checkpoint.
Open ==
    LET live == {b \in wal : b.seq > disk.flushed}
    IN  /\ pc = "closed"
        /\ disk.segs \subseteq files
        /\ files' = {f \in files :
                        f \in disk.segs \/ \E r \in Readers : f \in pins[r]}
        /\ manifest' = disk
        /\ memtable' = Latest(Rows(live))
        /\ last_sequence' = Max({b.seq : b \in wal} \cup {disk.flushed})
        /\ commit_version' = Max(Rows(disk.segs) \cup {disk.committed})
        /\ wal' = IF live = {} THEN {} ELSE wal
        /\ pos' = cp
        /\ pc' = "idle"
        /\ UNCHANGED <<cp, synced, disk, ret, batch, staged, staged_ids,
                       background, retired, doomed, pins>>

\* The process dies or the machine loses power: log bytes past the last
\* synchronization may be lost, a torn record with them.
Crash ==
    \E cut \in {synced} \cup {b.seq : b \in wal} :
        /\ cut >= synced
        /\ wal' = {b \in wal : b.seq <= cut}
        /\ pos' = cp
        /\ pc' = "closed"
        /\ pins' = [r \in Readers |-> {}]
        /\ Forget
        /\ UNCHANGED <<cp, synced, disk, files>>

\* The handle is dropped between calls.
Close ==
    /\ pc = "idle"
    /\ pc' = "settle"
    /\ UNCHANGED <<stream, logVars, disk, files, ret, batch, manifest,
                   memVars, stageVars, background, retired, doomed, pins>>

-----------------------------------------------------------------------------
(* Background merges.                                                      *)

\* Mutant of DropsTombstones: a segment left out counts as newer as soon as it
\* is newer than some row of the merge.
DropsTombstonesTooEarly(S) ==
    \A t \in manifest.segs \ S :
        \/ \A v \in t.rows, w \in Rows(S) : KeyOf[v] < KeyOf[w]
        \/ \A v \in t.rows, w \in Rows(S) : KeyOf[v] > KeyOf[w]
        \/ \A v \in t.rows : \E w \in Rows(S) : v > w

\* merge_drops_tombstones: nothing outside the merge can hold an older row of
\* a key the merge deletes.  Key ranges stand for what a segment may hold.
DropsTombstones(S) ==
    \A t \in manifest.segs \ S :
        \/ \A v \in t.rows, w \in Rows(S) : KeyOf[v] < KeyOf[w]
        \/ \A v \in t.rows, w \in Rows(S) : KeyOf[v] > KeyOf[w]
        \/ \A v \in t.rows, w \in Rows(S) : v > w

\* windowed_plan admits a window no segment outside the merge reaches into.
ClosedWindow(S, low, high) ==
    \A t \in manifest.segs \ S :
        \/ \A v \in t.rows : KeyOf[v] < low
        \/ \A v \in t.rows : KeyOf[v] >= high

\* in_merge_window: the deletes of keys in drop are left out of the output,
\* all or none of them without a window, those inside it with one.
MayDrop(S, drop) ==
    \/ drop = IF DropsTombstones(S) THEN Keys ELSE {}
    \/ \E low \in Keys, high \in {k + 1 : k \in Keys} :
          /\ ClosedWindow(S, low, high)
          /\ drop = {k \in Keys : low <= k /\ k < high}

\* run_background_merge: the winner of every key, less the dropped deletes.
Merged(S, drop) ==
    {v \in Latest(Rows(S)) : ~ (v \in Deleted /\ KeyOf[v] \in drop)}

\* The chunks a merge writes its output in, cut at some key.
Chunks(R, base, cut) ==
    {s \in {[id |-> base, rows |-> {v \in R : KeyOf[v] < cut}],
            [id |-> base + 1, rows |-> {v \in R : KeyOf[v] >= cut}]} :
        s.rows # {}}

\* The merge's worker has sent its outputs.
MergeDone ==
    background.state = "running" /\ background.outputs \subseteq files

\* Mutant of Spawn: the worker's ids are taken without reserving them.
SpawnUnreserved ==
    /\ background = NoMerge
    /\ manifest.next + ReservedIds <= MaxSegmentId + 1
    /\ \E S \in SUBSET manifest.segs :
        /\ S # {}
        /\ \E drop \in SUBSET Keys, cut \in Keys :
            /\ MayDrop(S, drop)
            /\ background' = [state |-> "running", inputs |-> S,
                              outputs |-> Chunks(Merged(S, drop),
                                                 manifest.next, cut)]
    /\ UNCHANGED <<disk, manifest>>

\* compaction_plan and spawn_background_merge: ids are reserved by a manifest
\* publish, then a worker starts on the chosen inputs.
Spawn ==
    /\ background = NoMerge
    /\ manifest.next + ReservedIds <= MaxSegmentId + 1
    /\ \E S \in SUBSET manifest.segs :
        /\ S # {}
        /\ \E drop \in SUBSET Keys, cut \in Keys :
            /\ MayDrop(S, drop)
            /\ background' = [state |-> "running", inputs |-> S,
                              outputs |-> Chunks(Merged(S, drop),
                                                 manifest.next, cut)]
    /\ manifest' = [manifest EXCEPT !.next = @ + ReservedIds]
    /\ disk' = manifest'

\* publish_merge: the inputs leave the manifest by name, the outputs join it.
PublishMerge ==
    /\ manifest' = [manifest EXCEPT
                       !.segs = (@ \ background.inputs) \cup background.outputs]
    /\ disk' = manifest'
    /\ retired' = retired \cup {background.inputs}
    /\ background' = NoMerge

\* The worker writes one chunk file.
MergeWrites ==
    /\ background.state = "running"
    /\ \E s \in background.outputs \ files : files' = Write(files, s)
    /\ UNCHANGED <<stream, logVars, disk, control, manifest, memVars,
                   stageVars, background, retired, doomed, pins>>

\* The worker yields, fails or panics; chunks it wrote stay as orphans.
MergeFails ==
    /\ background.state = "running"
    /\ ~ MergeDone
    /\ background' = [background EXCEPT !.state = "failed"]
    /\ UNCHANGED <<stream, logVars, disk, files, control, manifest, memVars,
                   stageVars, retired, doomed, pins>>

\* poll_background_merge at place p: a finished merge is published and the
\* call goes on at published, a failed one is dropped, any other outcome goes
\* on at otherwise.
Poll(p, published, otherwise) ==
    /\ pc = p
    /\ \/ MergeDone /\ PublishMerge /\ pc' = published
       \/ /\ background.state = "failed"
          /\ background' = NoMerge
          /\ pc' = otherwise
          /\ UNCHANGED <<disk, manifest, retired>>
       \/ /\ background.state # "failed" /\ ~ MergeDone
          /\ pc' = otherwise
          /\ UNCHANGED <<disk, manifest, retired, background>>

\* Mutant of Reclaim: the registry of pinned manifests is not consulted.
ReclaimUnpinned ==
    /\ pc = "reclaim"
    /\ doomed' = UNION retired
    /\ retired' = {}
    /\ pc' = "remove"
    /\ UNCHANGED <<stream, logVars, disk, files, ret, batch, manifest,
                   memVars, stageVars, background, pins>>

\* reclaim_obsolete_segments, first half: a retired set no registered
\* manifest names is taken for removal, any other is kept whole.
Reclaim ==
    LET free == {g \in retired : \A r \in Readers : g \cap pins[r] = {}}
    IN  /\ pc = "reclaim"
        /\ doomed' = UNION free
        /\ retired' = retired \ free
        /\ pc' = "remove"
        /\ UNCHANGED <<stream, logVars, disk, files, ret, batch, manifest,
                       memVars, stageVars, background, pins>>

\* reclaim_obsolete_segments, second half: the files are removed.
Remove ==
    /\ pc = "remove"
    /\ files' = files \ doomed
    /\ doomed' = {}
    /\ pc' = ret /\ ret' = "idle"
    /\ UNCHANGED <<stream, logVars, disk, batch, manifest, memVars,
                   stageVars, background, retired, pins>>

\* A merge is planned and started, or nothing calls for one.
SpawnStep(p, after) ==
    /\ pc = p
    /\ pc' = after
    /\ \/ Spawn
       \/ UNCHANGED <<disk, manifest, background>>
    /\ UNCHANGED <<stream, logVars, files, ret, batch, memVars, stageVars,
                   retired, doomed, pins>>

-----------------------------------------------------------------------------
(* Writes: ingest, flush, staging.                                         *)

\* Mutant of Unapplied: redelivered changes are not filtered.
Redelivered(n) == pos + 1 .. n

\* The rows of changes pos+1..n the table has not applied yet
\* (ingest_cdc_in_order and stage_cdc both retain version > applied).
Unapplied(n) == {v \in pos + 1 .. n : v > Applied}

\* Mutant of Ingest: the call reads past the source's last change.
IngestPastEnd ==
    /\ pc = "idle" /\ staged = {}
    /\ \E n \in pos + 1 .. pos + MaxBatch :
        /\ pos' = n
        /\ batch' = Unapplied(n)
        /\ pc' = IF Unapplied(n) = {} THEN "idle" ELSE "poll"
    /\ UNCHANGED <<cp, logVars, disk, files, ret, manifest, memVars,
                   stageVars, background, retired, doomed, pins>>

\* flush_batch hands the table its next changes in binlog order.
Ingest ==
    /\ pc = "idle" /\ staged = {}
    /\ \E n \in pos + 1 .. MaxVersion :
        /\ n <= pos + MaxBatch
        /\ pos' = n
        /\ batch' = Unapplied(n)
        /\ pc' = IF Unapplied(n) = {} THEN "idle" ELSE "poll"
    /\ UNCHANGED <<cp, logVars, disk, files, ret, manifest, memVars,
                   stageVars, background, retired, doomed, pins>>

\* A merge that finished since the last write is published before it.
IngestPolls ==
    /\ Poll("poll", "reclaim", "append")
    /\ ret' = IF pc' = "reclaim" THEN "spawn_ingest" ELSE ret
    /\ UNCHANGED <<stream, logVars, files, batch, memVars, stageVars, doomed,
                   pins>>

\* ingest_at_sequence_with_append_policy: log, then memtable; a memtable at
\* its size limit is flushed before the call returns.
Append ==
    /\ pc = "append"
    /\ wal' = wal \cup {[seq |-> last_sequence + 1, rows |-> batch]}
    /\ memtable' = Latest(memtable \cup batch)
    /\ last_sequence' = last_sequence + 1
    /\ batch' = {}
    /\ \/ pc' = "idle" /\ ret' = ret
       \/ /\ manifest.next <= MaxSegmentId
          /\ pc' = "segment" /\ ret' = "advance"
    /\ UNCHANGED <<stream, synced, disk, files, manifest, commit_version,
                   stageVars, background, retired, doomed, pins>>

\* The log has room for this batch only as segments: stage_rows flushes the
\* memtable first, then the rows are staged and published in the same call.
AppendDirect ==
    /\ pc = "append"
    /\ manifest.next + StagedIds <= MaxSegmentId
    /\ IF memtable = {}
         THEN pc' = "stage_direct" /\ ret' = ret
         ELSE pc' = "segment" /\ ret' = "stage_direct"
    /\ UNCHANGED <<stream, logVars, disk, files, batch, manifest, memVars,
                   stageVars, background, retired, doomed, pins>>

\* flush, asked for on its own (settle_memtables).
Flush ==
    /\ pc = "idle"
    /\ memtable # {} /\ staged = {}
    /\ manifest.next <= MaxSegmentId
    /\ pc' = "segment"
    /\ UNCHANGED <<stream, logVars, disk, files, ret, batch, manifest,
                   memVars, stageVars, background, retired, doomed, pins>>

\* Mutant of FlushSegment: the log is reset before the manifest is published.
FlushResetsFirst ==
    /\ pc = "segment"
    /\ files' = Write(files, [id |-> manifest.next, rows |-> memtable])
    /\ wal' = {}
    /\ pc' = "manifest"
    /\ UNCHANGED <<stream, synced, disk, ret, batch, manifest, memVars,
                   stageVars, background, retired, doomed, pins>>

\* publish_flushed writes the memtable's rows as a segment file ...
FlushSegment ==
    /\ pc = "segment"
    /\ files' = Write(files, [id |-> manifest.next, rows |-> memtable])
    /\ pc' = "manifest"
    /\ UNCHANGED <<stream, logVars, disk, ret, batch, manifest, memVars,
                   stageVars, background, retired, doomed, pins>>

\* ... then swaps in the manifest that names it ...
FlushManifest ==
    /\ pc = "manifest"
    /\ disk' = [segs |-> manifest.segs
                           \cup {[id |-> manifest.next, rows |-> memtable]},
                flushed |-> last_sequence,
                next |-> manifest.next + 1,
                committed |-> Applied]
    /\ commit_version' = Applied
    /\ pc' = "clear"
    /\ UNCHANGED <<stream, logVars, files, ret, batch, manifest, memtable,
                   last_sequence, stageVars, background, retired, doomed,
                   pins>>

\* ... and flush clears the memtable and resets the log.
FlushClear ==
    /\ pc = "clear"
    /\ manifest' = disk
    /\ memtable' = {}
    /\ wal' = {}
    /\ pc' = ret /\ ret' = "idle"
    /\ UNCHANGED <<stream, synced, disk, files, batch, last_sequence,
                   commit_version, stageVars, background, retired, doomed,
                   pins>>

\* stage_cdc: a piece of a transaction too large to hold arrives.
Stage ==
    /\ pc = "idle"
    /\ manifest.next + StagedIds <= MaxSegmentId
    /\ \E n \in pos + 1 .. MaxVersion :
        /\ n <= pos + MaxBatch
        /\ pos' = n
        /\ batch' = Unapplied(n)
        /\ pc' = IF Unapplied(n) = {} THEN "idle"
                 ELSE IF staged = {} /\ memtable # {} THEN "segment"
                 ELSE "stage"
        /\ ret' = IF pc' = "segment" THEN "stage" ELSE ret
    /\ UNCHANGED <<cp, logVars, disk, files, manifest, memVars, stageVars,
                   background, retired, doomed, pins>>

\* stage_segment: when none of its ids are left, more are reserved by a
\* manifest publish ...
ReserveStaged ==
    /\ pc \in {"stage", "stage_direct"} /\ staged_ids = {}
    /\ manifest' = [manifest EXCEPT !.next = @ + StagedIds]
    /\ disk' = manifest'
    /\ staged_ids' = manifest.next .. manifest.next + StagedIds - 1
    /\ UNCHANGED <<stream, logVars, files, control, memVars, staged,
                   background, retired, doomed, pins>>

\* ... and the piece, one row per key, is written as a file nothing names.
StagePiece ==
    LET piece == [id |-> Min(staged_ids), rows |-> Latest(batch)]
    IN  /\ pc \in {"stage", "stage_direct"} /\ staged_ids # {}
        /\ files' = Write(files, piece)
        /\ staged' = staged \cup {piece}
        /\ staged_ids' = staged_ids \ {piece.id}
        /\ batch' = {}
        /\ pc' = IF pc = "stage" THEN "idle" ELSE "publish"
        /\ UNCHANGED <<stream, logVars, disk, ret, manifest, memVars,
                       background, retired, doomed, pins>>

\* publish_staged: every piece joins the table in one manifest swap, and the
\* applied version moves with them.
PublishStaged ==
    LET applied == Max(Rows(staged) \cup {commit_version})
    IN  /\ pc \in {"idle", "publish"}
        /\ staged # {}
        /\ manifest' = [manifest EXCEPT !.segs = @ \cup staged,
                                        !.committed = applied]
        /\ disk' = manifest'
        /\ commit_version' = applied
        /\ staged' = {}
        /\ pc' = "advance"
        /\ UNCHANGED <<stream, logVars, files, ret, batch, memtable,
                       last_sequence, staged_ids, background, retired,
                       doomed, pins>>

\* advance_compaction after a flush or a publication, then a reclaim pass.
Advance ==
    /\ Poll("advance", "spawn", IF background.state = "running"
                                  THEN "reclaim" ELSE "spawn")
    /\ UNCHANGED <<stream, logVars, files, ret, batch, memVars, stageVars,
                   doomed, pins>>

\* maintain: publishes a finished merge and starts the next one.
Maintain ==
    /\ background.state # "running" \/ MergeDone
    /\ Poll("idle", "reclaim", "spawn_idle")
    /\ ret' = IF pc' = "reclaim" THEN "spawn_idle" ELSE ret
    /\ UNCHANGED <<stream, logVars, files, batch, memVars, stageVars, doomed,
                   pins>>

\* compact: the same merge inline, ids taken from the manifest it publishes.
Compact ==
    /\ pc = "idle" /\ background = NoMerge
    /\ manifest.next + 1 <= MaxSegmentId
    /\ \E S \in SUBSET manifest.segs :
        /\ S # {}
        /\ \E drop \in SUBSET Keys, cut \in Keys :
            LET out == Chunks(Merged(S, drop), manifest.next, cut)
            IN  /\ MayDrop(S, drop)
                /\ files' = {f \in files : \A s \in out : f.id # s.id} \cup out
                /\ manifest' = [manifest EXCEPT !.segs = (@ \ S) \cup out,
                                                !.next = @ + 2]
        /\ retired' = retired \cup {S}
    /\ disk' = manifest'
    /\ pc' = "reclaim"
    /\ UNCHANGED <<stream, logVars, ret, batch, memVars, stageVars,
                   background, doomed, pins>>

\* compact fails, or the process dies in it, before its manifest is published:
\* the chunks written so far stay, under ids that are still to be handed out,
\* and the caller gives the handle up.
CompactFails ==
    /\ pc = "idle" /\ background = NoMerge
    /\ manifest.next + 1 <= MaxSegmentId
    /\ \E S \in SUBSET manifest.segs :
        /\ S # {}
        /\ \E drop \in SUBSET Keys, cut \in Keys :
            LET chunks == Chunks(Merged(S, drop), manifest.next, cut)
            IN  /\ MayDrop(S, drop)
                /\ \E last \in {manifest.next, manifest.next + 1} :
                     LET out == {s \in chunks : s.id <= last}
                     IN  files' = {f \in files : \A s \in out : f.id # s.id}
                                    \cup out
    /\ pc' = "settle"
    /\ UNCHANGED <<stream, logVars, disk, ret, batch, manifest, memVars,
                   stageVars, background, retired, doomed, pins>>

-----------------------------------------------------------------------------
(* The stream's checkpoint, errors, readers and the full rebuild.          *)

\* Mutant of Checkpoint: the log is not synchronized.
CheckpointUnsynced ==
    /\ pc = "idle" /\ staged = {}
    /\ pc' = "checkpointed"
    /\ UNCHANGED <<stream, logVars, disk, files, ret, batch, manifest,
                   memVars, stageVars, background, retired, doomed, pins>>

\* TableStore::checkpoint: the log is synchronized ...
Checkpoint ==
    /\ pc = "idle" /\ staged = {}
    /\ synced' = last_sequence
    /\ pc' = "checkpointed"
    /\ UNCHANGED <<stream, wal, disk, files, ret, batch, manifest, memVars,
                   stageVars, background, retired, doomed, pins>>

\* ... and only then does flush_batch commit the position in the metadata.
CommitCheckpoint ==
    /\ pc = "checkpointed"
    /\ cp' = pos
    /\ pc' = "idle"
    /\ UNCHANGED <<pos, logVars, disk, files, ret, batch, manifest, memVars,
                   stageVars, background, retired, doomed, pins>>

\* reconnect_from_checkpoint: the stream broke and starts again there.
Reconnect ==
    /\ pc = "idle" /\ staged = {}
    /\ pos' = cp
    /\ UNCHANGED <<cp, logVars, disk, files, control, manifest, memVars,
                   stageVars, background, retired, doomed, pins>>

\* Mutant of IoError: a failed flush does not restore the memtable.
IoErrorDropsMemtable ==
    /\ pc \in {"poll", "append", "segment", "manifest", "stage",
               "stage_direct", "advance", "spawn", "spawn_ingest",
               "checkpointed", "reset"}
    /\ background' = IF pc \in {"poll", "advance"} /\ MergeDone
                       THEN NoMerge ELSE background
    /\ memtable' = IF pc \in {"segment", "manifest"} THEN {} ELSE memtable
    /\ pc' = "settle" /\ ret' = "idle" /\ batch' = {}
    /\ UNCHANGED <<stream, logVars, disk, files, manifest, last_sequence,
                   commit_version, stageVars, retired, doomed, pins>>

\* A durable step fails before it takes effect.  The call returns the error,
\* run_cdc ends and drops its stores; a flush has restored the memtable.  (It
\* has also moved commit_version already, which nothing reads again.)
IoError ==
    /\ pc \in {"poll", "append", "segment", "manifest", "stage",
               "stage_direct", "advance", "spawn", "spawn_ingest",
               "checkpointed", "reset"}
    /\ background' = IF pc \in {"poll", "advance"} /\ MergeDone
                       THEN NoMerge ELSE background
    /\ pc' = "settle" /\ ret' = "idle" /\ batch' = {}
    /\ UNCHANGED <<stream, logVars, disk, files, manifest, memVars,
                   stageVars, retired, doomed, pins>>

\* publish_merge cannot publish, in a call that goes on without it: maintain
\* leaves the error to its caller's log, settle_background_merge only records
\* it.  The outputs stay as orphans.
PublishMergeFails ==
    /\ pc \in {"idle", "settle"}
    /\ MergeDone
    /\ background' = NoMerge
    /\ UNCHANGED <<stream, logVars, disk, files, control, manifest, memVars,
                   stageVars, retired, doomed, pins>>

\* publish_staged cannot publish its manifest and removes the pieces.
PublishStagedFails ==
    /\ pc \in {"idle", "publish"}
    /\ staged # {}
    /\ files' = files \ staged
    /\ staged' = {}
    /\ pc' = "settle"
    /\ UNCHANGED <<stream, logVars, disk, ret, batch, manifest, memVars,
                   staged_ids, background, retired, doomed, pins>>

\* flush published its segment, and resetting the log failed.
WalResetFails ==
    /\ pc = "clear"
    /\ manifest' = disk
    /\ memtable' = {}
    /\ pc' = "settle" /\ ret' = "idle" /\ batch' = {}
    /\ UNCHANGED <<stream, logVars, disk, files, last_sequence,
                   commit_version, stageVars, background, retired, doomed,
                   pins>>

\* Drop and settle_background_merge: wait for the worker, publish what it
\* finished, reclaim, and let the lock go.
Settle ==
    /\ pc = "settle"
    /\ background.state = "running" => MergeDone
    /\ \/ /\ MergeDone /\ PublishMerge
          /\ pc' = "reclaim" /\ ret' = "settle"
          /\ UNCHANGED <<stream, logVars, files, batch, memVars, stageVars,
                         doomed, pins>>
       \/ /\ background.state # "running"
          /\ pc' = "closed" /\ Forget
          /\ UNCHANGED <<stream, logVars, disk, files, pins>>

\* TableStore::snapshot pins the manifest of the moment.
Snapshot(r) ==
    /\ pc = "idle"
    /\ pins[r] = {}
    /\ pins' = [pins EXCEPT ![r] = manifest.segs]
    /\ UNCHANGED <<stream, logVars, disk, files, control, manifest, memVars,
                   stageVars, background, retired, doomed>>

Release(r) ==
    /\ pins[r] # {}
    /\ pins' = [pins EXCEPT ![r] = {}]
    /\ UNCHANGED <<stream, logVars, disk, files, control, manifest, memVars,
                   stageVars, background, retired, doomed>>

\* Mutant of ResetWal: the merge in flight is left running.
ResetKeepsMerge ==
    /\ pc = "idle" /\ staged = {}
    /\ pos' = 0 /\ cp' = 0
    /\ wal' = {} /\ synced' = 0
    /\ pc' = "reset"
    /\ UNCHANGED <<disk, files, ret, batch, manifest, memVars, stageVars,
                   background, retired, doomed, pins>>

\* reset_for_resnapshot, as restarting a database's copy calls it: the metadata
\* has recorded that the table must be copied again (its checkpoint is void),
\* the merge in flight is waited for and thrown away, the log is reset ...
ResetWal ==
    /\ pc = "idle" /\ staged = {}
    /\ background.state = "running" => MergeDone
    /\ pos' = 0 /\ cp' = 0
    /\ background' = NoMerge
    /\ wal' = {} /\ synced' = 0
    /\ pc' = "reset"
    /\ UNCHANGED <<disk, files, ret, batch, manifest, memVars, stageVars,
                   retired, doomed, pins>>

\* ... or cannot be, which leaves a void checkpoint and the table as it was ...
ResetWalFails ==
    /\ pc = "idle" /\ staged = {}
    /\ background.state = "running" => MergeDone
    /\ pos' = 0 /\ cp' = 0
    /\ background' = NoMerge
    /\ pc' = "settle"
    /\ UNCHANGED <<logVars, disk, files, ret, batch, manifest, memVars,
                   stageVars, retired, doomed, pins>>

\* ... before the empty manifest is published.
ResetManifest ==
    /\ pc = "reset"
    /\ manifest' = [EmptyManifest EXCEPT !.next = manifest.next]
    /\ disk' = manifest'
    /\ memtable' = {} /\ last_sequence' = 0 /\ commit_version' = 0
    /\ retired' = retired \cup {manifest.segs}
    /\ pc' = "reclaim"
    /\ UNCHANGED <<stream, logVars, files, ret, batch, stageVars, background,
                   doomed, pins>>

-----------------------------------------------------------------------------

StoreStep ==
    \/ Ingest \/ IngestPolls \/ Append \/ AppendDirect
    \/ Flush \/ FlushSegment \/ FlushManifest \/ FlushClear
    \/ Stage \/ ReserveStaged \/ StagePiece \/ PublishStaged
    \/ Advance \/ Maintain \/ Compact \/ CompactFails \/ Reclaim \/ Remove
    \/ SpawnStep("spawn", "reclaim")
    \/ SpawnStep("spawn_ingest", "append")
    \/ SpawnStep("spawn_idle", "idle")
    \/ Checkpoint \/ CommitCheckpoint \/ Reconnect
    \/ IoError \/ PublishStagedFails \/ PublishMergeFails \/ WalResetFails
    \/ ResetWal \/ ResetWalFails \/ ResetManifest
    \/ Open \/ Close \/ Settle

Next ==
    \/ StoreStep
    \/ MergeWrites \/ MergeFails
    \/ \E r \in Readers : Snapshot(r) \/ Release(r)
    \/ Crash

Spec == Init /\ [][Next]_vars

-----------------------------------------------------------------------------
(* Properties.                                                             *)

Segment == [id : Nat, rows : SUBSET Versions]
Record == [seq : Nat, rows : SUBSET Versions]
Manifest == [segs : SUBSET Segment, flushed : Nat, next : Nat,
             committed : 0..MaxVersion]

\* Every variable holds a value of its kind.
TypeOK ==
    /\ pos \in 0..MaxVersion /\ cp \in 0..MaxVersion
    /\ wal \subseteq Record /\ synced \in Nat
    /\ disk \in Manifest /\ manifest \in Manifest
    /\ files \subseteq Segment
    /\ pc \in {"closed", "idle", "poll", "append", "segment", "manifest",
               "clear", "stage", "stage_direct", "publish", "advance",
               "spawn", "spawn_ingest", "spawn_idle", "reclaim", "remove",
               "checkpointed", "settle", "reset"}
    /\ ret \in {"idle", "advance", "stage", "stage_direct", "spawn_ingest",
                "spawn_idle", "settle"}
    /\ batch \subseteq Versions
    /\ memtable \subseteq Versions
    /\ last_sequence \in Nat /\ commit_version \in 0..MaxVersion
    /\ staged \subseteq Segment /\ staged_ids \subseteq Nat
    /\ background \in [state : {"none", "running", "failed"},
                       inputs : SUBSET Segment, outputs : SUBSET Segment]
    /\ retired \subseteq SUBSET Segment
    /\ doomed \subseteq Segment
    /\ pins \in [Readers -> SUBSET Segment]

IsOpen == pc # "closed"

\* What a scan of the open table returns is exactly the source's state after
\* the changes the table says it has applied: no row is lost, resurrected or
\* shown early by a flush, a replay, a merge that drops deletes or a staged
\* publication.
AppliedIsExact ==
    IsOpen => Scan(manifest.segs, memtable) = Visible(1..Applied)

\* Once the stream's checkpoint has moved past a change, the table holds it,
\* whatever crashed, failed or was merged since.
CheckpointSurvives == IsOpen => cp <= Applied

\* Every segment the manifest file names is in the directory, with the
\* contents the manifest describes: the table can be opened again.
FilesIntact == disk.segs \subseteq files

\* A pinned reader's segments stay, unchanged, until it lets them go.
PinsIntact == \A r \in Readers : pins[r] \subseteq files

\* The merge worker's inputs stay readable for as long as it runs.
MergeInputsIntact == background.inputs \subseteq files

\* While the table is open, and short of a rebuild, it never goes back to an
\* older state of the source.
AppliedNeverRetreats ==
    [][IsOpen /\ IsOpen' /\ pc # "reset" => Applied' >= Applied]_vars

=============================================================================
