# A verification of Pintail's storage core

Pintail is a columnar replica of a MySQL database in one process. This
directory holds TLA+ models of the part on which every other part relies, the
table store, together with model-checking runs and machine-checked proofs.

## The system and its parts

| Part | Code | State | Operations | Modelled |
|---|---|---|---|---|
| Table store | `pintail-store/src/store/mod.rs`, `wal.rs`, `memtable.rs`, `manifest.rs` | log, memtable, manifest, segment files, merge in flight, retired files | open, ingest, flush, stage, publish, merge, reclaim, checkpoint, reset, close | `TableStore` |
| Readers from files | `store/snapshot.rs` | loaded manifest, registry of pinned manifests | load, register, replay, recheck, verify | `TableReader` |
| Local tables | `pintail-write/src/engine.rs`, `TableStore::commit` | log with commit records | INSERT, recovery; CREATE TABLE | `LocalTable` (INSERT) |
| Change stream | `pintail-cdc` | position, checkpoint, apply intent, batches | seal, flush batch, reconnect, resnapshot, DDL | position and checkpoint, in `TableStore` |
| Database store | `database.rs` | several tables over one log | ingest, flush, reset of the shared log | planned |
| Publication registry | `publication.rs` | generations, leases, writer claims | claim, publish, lease | planned |
| Merge scheduler | `maintenance.rs` | tickets, slots | queue, admit, pace | planned |
| Snapshot copy | `pintail-snapshot` | chunk journal | copy, resume, hand over | planned |
| Polling | `pintail-poll` | cursor | poll, reconcile | planned |
| Query service | `pintail-wire` | permits, shared flights, caches | admit, share, invalidate | planned |
| Supervisor, API | `pintail-api` | slots, jobs | cycle, operator actions | planned |
| Backup | `pintail-backup` | object keys | upload, restore | planned |
| Metadata | `pintail-meta` | SQLite | one transaction per method | as atomic steps of its callers |
| SQL, executor, segment format, protocol, SIMD | several | none that changes | pure functions | no |

The parts meet as follows. The change stream decodes source transactions and
hands each table its rows in binlog order (`flush_batch`). The table logs them,
applies them to its memtable and, at a size limit, flushes the memtable as an
immutable segment that a new manifest names. Transactions too large for memory
are written as segments nothing names and become visible by one manifest swap.
A worker thread merges segments while writes go on; the writer publishes its
result, retires the inputs and removes their files when no reader names them.
The stream's checkpoint moves in SQLite only after the touched logs are
synchronized; after a crash or a broken connection the source sends everything
past the checkpoint again. Readers take no lock.

## Modules

* `TableStore` is one replicated table under its stream. A row is its source
  version: change `v` writes key `KeyOf[v]` and deletes it when `v \in
  Deleted`. That keeps what the properties tell apart, which version of a key
  wins and whether it is a delete, and leaves out the values. The log is the
  set of its records, each with its sequence; a segment is an id with rows. A
  store call that makes several durable steps is walked by `pc`, and `ret` says
  where a nested flush or reclaim pass returns to, so a crash, an error, the
  merge worker and readers act between any two steps.
* `TableStoreInv` is the inductive invariant.
* `TableReader` adds readers that open the table from its files in five steps.
* `LatePublish` adds a manifest publication that fails after its rename.
* `LocalTable` is INSERT into a local table: the batch, the commit record, the
  fsync, the memtable, the flush, and a failing or crashing form of each.
* `TableStoreRows`, `TableStoreTypes`, `TableStoreFiles`, `TableStoreOwners`,
  `TableStoreMerges`, `TableStoreLog`, `TableStoreStream` and `TableStoreProofs`
  hold the lemmas and theorems.
* `MC...` modules give the source histories the runs use.

How `TableStore` corresponds to the code:

| Model | Code |
|---|---|
| `Open`, `Crash`, `Close`, `Settle` | `open_with_wal`, power loss and `recover`'s torn tail, `Drop`, `settle_background_merge` |
| `Ingest`, `IngestPolls`, `Append`, `AppendDirect` | `ingest_cdc_in_order` and `ingest_at_sequence_with_append_policy` |
| `Flush`, `FlushSegment`, `FlushManifest`, `FlushClear` | `flush`, `publish_flushed` |
| `Stage`, `ReserveStaged`, `StagePiece`, `PublishStaged`, `PublishStagedFails` | `stage_cdc`, `stage_segment`, `publish_staged` |
| `SpawnStep`, `MergeWrites`, `MergeFails`, `Poll`, `PublishMerge`, `PublishMergeFails`, `Compact`, `CompactFails` | planning and `spawn_background_merge`, the worker, `poll_background_merge`, `publish_merge`, `compact` |
| `Reclaim`, `Remove` | the two halves of `reclaim_obsolete_segments` |
| `Checkpoint`, `CommitCheckpoint`, `Reconnect` | `checkpoint`, the metadata commit of `flush_batch`, `reconnect_from_checkpoint` |
| `ResetWal`, `ResetWalFails`, `ResetManifest` | `reset_for_resnapshot` |
| `IoError`, `WalResetFails` | a durable step that returns an error; the stream drops its stores |

Abstractions. A merge may take any set of segments, one alone included (the
planner rewrites a lone segment to drop its deletes), and, as the planner's
rules allow, drop all deletes, none, or those inside a closed key window; the
size and layer heuristics only choose among these. A merge's output has at most
two files, cut at any key; a windowed merge of the code may write three or more.
`Compact` writes its chunks and publishes them in one step; `CompactFails` is
the same call failing, or dying, after any number of chunks. A failed call ends
the handle, because its callers return the error: `maintain` and
`advance_compaction` reach `compact` only with background merging turned off,
and `Database::compact` is a command of its own. `IoError` has the failures of
ingest, flush, staging, the id reservations, the publication of a merge on the
write path or of a rebuild's manifest, and of the metadata's checkpoint; each
ends the stream's run and drops its stores. `PublishMergeFails` has the two publications whose error is
only recorded. A failed log synchronization in `checkpoint` leaves what `Close`
leaves. `Open` does not collapse byte-identical segments
(`collapse_identical_segments`): only a resumed copy leaves them, and a change
stream never stores a version twice. A flush happens at any size. Key ranges
stand for the footers' bounds. `Open` is one step: it removes only files nothing names,
and a crash inside it leaves what a crash before it leaves. A file that cannot
be removed during a reclaim pass is left to the next orphan sweep; it is not
modelled. The pieces `publish_staged` recognises as already held cannot arise
from a change stream, because `stage_cdc` filters what the table has applied.
`ResetWal` voids the checkpoint in the same step, as restarting a database's
copy does before it resets; the automatic recopy in `pintail-cdc` resets first
and is left to the planned stream module.

## Runs

| Run | Question | Result |
|---|---|---|
| `store` | Is a table exact, durable and complete under every interleaving of stream, merges, errors and crashes? | holds |
| `store_merges` | May a merge drop a delete when it leaves out a segment written between its inputs? | only when the code's test allows it |
| `store_pins` | Are pinned segments ever removed? | never |
| `store_inductive` | Does the proofs' invariant hold? | holds |
| `reader` | Does a lock-free open end with one state of the source, in files that stay? | holds |
| `reader_reset` | Can it combine old segments with a truncated log? | yes, during a reset |
| `late_publish` | Is a failed staged publication invisible? | not when the directory's fsync fails |
| `local` | Are INSERTs durable, unique and recoverable? | holds |
| `local_dirty_read` | Are rows visible only once durable? | no |
| `local_failed_commit` | Does a failed commit leave nothing? | not when its fsync or the flush after it fails |

The four runs that end in a counterexample contradict a comment or a document;
`PROJECT.json` quotes each line under `findings`.

* `AppliedIsExact` is the main property: what a scan shows is the source's
  state after exactly the changes the table says it applied. It is what makes
  the stream's redelivery idempotent, and it fails when a merge drops a delete
  too early, when a replay brings a row back or when a staged piece shows early.
* `CheckpointSurvives`: nothing below the checkpoint is ever lost.
* `FilesIntact`, `PinsIntact`, `MergeInputsIntact`: the manifest, readers and
  the merge worker never miss a file.
* `AppliedNeverRetreats`: short of a rebuild the table never goes back.
* `ReaderFilesIntact`, `ReaderExact`: the same for a reader from files, which
  registers its manifest after loading it, so that a reclaim pass may already
  have decided.
* `DoneSurvives`, `AbortedLeavesNothing`, `KeysAreUnique`, `VersionsAreUnique`,
  `LogReplays`: local tables.

Bounds. `store` has four changes on two keys (a write of one key; a write, a
delete and a write of the other), batches of up to two and four segment ids: enough for two flushes and a merge
of them, for a flush during a merge, and for a delete that is merged away before
a redelivery. A third segment beside a merge of two needs a fifth id:
`store_merges` has it, with the first three changes. `store_pins` and `reader` have two changes and a reader;
the changes of `reader` are on two keys, so that a missing earlier one shows;
in `reader` a staging reserves two of the three ids, so that staged publications
and merges meet the reader in separate behaviours.
`local` has two keys and four statements: one to fail, one to commit after it,
one to flush and one to recover. The store and reader runs
check deadlock; the `local` runs do not, because `LocalTable` stops when its
statements are used up.

No fairness is assumed and no liveness is claimed yet: the properties are
invariants and one action property.

## Proofs

For every source history, number of readers and size of id reservation
(`SourceAssumption`, `IdAssumption`: at least two ids per merge, one per
staging), TLAPS proves

* `Invariance`: `Spec => []IInv`;
* `TypeCorrect`, `ScanTheorem` (`AppliedIsExact`), `CheckpointTheorem`
  (`CheckpointSurvives`), `FilesTheorem` (`FilesIntact`, `PinsIntact`,
  `MergeInputsIntact`) and `AppliedTheorem` (`AppliedNeverRetreats`).

`AppliedIsExact` alone is not inductive. The argument needs, of the files, that
the manifest in memory is the one on disk except between the two halves of a
flush, and that no id is held by one owner while another may still write it
(`OwnerInv`); of the rows, that each manifest's segments resolve to the source
at its committed version (`ResolveInv`), that the log's live records hold
consecutive later changes so that any prefix of them is a prefix of the
source's (`WalInv`), that the memtable holds their winners (`MemInv`), that
what the stream has handed over and the table has not applied is in the call or
in staged pieces (`StreamInv`), and that a merge in flight leaves out only
deletes that hide nothing outside its inputs, now or after later flushes
(`MergeInv`). Three lemmas of `TableStoreRows` carry the weight: replacing a
merge's inputs by its outputs changes no scan (`MergeKeepsVisible`), rows that
cover the next changes move the state to them (`ExtendVisible`), and a scan
reads the memtable over the segments (`ScanExact`). Each conjunct then has one
lemma that goes through the actions of `Next`: kinds, control and manifests in
`TableStoreTypes`, files in `TableStoreFiles`, ids in `TableStoreOwners`, merges
and what segments resolve to in `TableStoreMerges`, the log and the memtable in
`TableStoreLog`, the checkpoint and the stream in `TableStoreStream`.
`TableStoreProofs` combines them.

That a bounded set of numbers has a maximum is proved from the well-foundedness of
inclusion on finite sets, without the induction theorems. `TableReader`, `LatePublish` and
`LocalTable` are model-checked only. Liveness would be too: it is out of the
prover's reach.

## Plan

1. `CdcApply`: several tables under one checkpoint, the apply intent and version
   floor across repeated crashes, the recopy that resets before it records.
2. `DatabaseStore` (shared log), `Publication` (generations, leases).
3. `SnapshotCopy` (chunk journal and handover), `LocalCatalog` (CREATE TABLE and
   its recovery), schema evolution and segment upgrade in `TableStore`.
4. An abstract replica, the source's state at a version that only moves forward,
   with `TableStore` and `TableReader` shown to implement it.
5. Query admission and shared queries, with liveness under the fairness of their
   wake-ups; the merge scheduler.
6. Proofs: `TableReader`'s two invariants from `IInv`, `LocalTable`'s invariants,
   then the refinement of 4.

Not planned: the SQL layers, the executor, the segment encodings and the wire
encodings (pure functions over data too large to enumerate), telemetry, logging.
