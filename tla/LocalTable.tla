----------------------------- MODULE LocalTable -----------------------------
(***************************************************************************)
(* One table of a local (writable) database: INSERT statements of          *)
(* LocalDatabase (crates/pintail-write/src/engine.rs) on a transactional   *)
(* TableStore (crates/pintail-store/src/store/mod.rs).                     *)
(*                                                                         *)
(* Every statement opens the table, checks its keys, commits its rows and  *)
(* drops the handle; the writer lock admits one statement at a time.  The  *)
(* log is a sequence of row batches and commit records; a crash may lose   *)
(* any of its records past the last synchronization.  Each step a failing  *)
(* disk can stop is an action, and each has a failing form.                *)
(***************************************************************************)
EXTENDS Integers, Sequences, FiniteSets, FiniteSetsExt

CONSTANTS Keys,         \* primary keys statements insert
          MaxInserts    \* bound: INSERT statements executed

Txns == 1..MaxInserts

\* A row knows the statement that wrote it.
StoredRow == [key : Keys, txn : Txns, version : Nat]

VARIABLES
    log,              \* wal.log: batches and commit records
    synced,           \* how many of them survive a power loss
    disk,             \* the manifest: its segments' rows, flushed sequence,
                      \* committed version, and whether it was ever published
    pc,               \* where the running statement is
    call,             \* its number and the keys it inserts
    memtable, last_sequence, commit_version,   \* the open TableStore
    outcome           \* what each statement told its client

vars == <<log, synced, disk, pc, call, memtable, last_sequence,
          commit_version, outcome>>
handle == <<memtable, last_sequence, commit_version>>

Batch(s, rows) == [kind |-> "rows", seq |-> s, rows |-> rows, version |-> 0]
CommitRecord(s, v) ==
    [kind |-> "commit", seq |-> s, rows |-> {}, version |-> v]

NoManifest == [rows |-> {}, flushed |-> 0, committed |-> 0, published |-> FALSE]

Init ==
    /\ log = <<>> /\ synced = 0
    /\ disk = NoManifest
    /\ pc = "closed" /\ call = [txn |-> 0, keys |-> {}]
    /\ memtable = {} /\ last_sequence = 0 /\ commit_version = 0
    /\ outcome = [t \in Txns |-> "none"]

-----------------------------------------------------------------------------
(* What recovery makes of a log and a manifest.                            *)

\* The log up to its last commit record; what follows was never committed.
CommittedPrefix(l) ==
    SubSeq(l, 1, Max({0} \cup {i \in DOMAIN l : l[i].kind = "commit"}))

\* The rows of a log's batches the manifest has not flushed.
Replayed(l, m) ==
    UNION {l[i].rows : i \in {j \in DOMAIN l : l[j].seq > m.flushed}}

\* Every row an open of these files finds.
Recovered(l, m) == m.rows \cup Replayed(CommittedPrefix(l), m)

\* Mutant of LastSequence: sequences of dropped records are not free again.
HighestEver(l, m) ==
    Max({m.flushed} \cup {l[i].seq : i \in DOMAIN l})

\* recovery.last_sequence: that of the last commit record, 0 without one,
\* raised to the manifest's flushed sequence.
LastSequence(l, m) ==
    Max({m.flushed} \cup {l[i].seq : i \in {j \in DOMAIN l :
                                               l[j].kind = "commit"}})

\* refuse_a_lost_manifest: without a manifest, a log that starts after the
\* first write belongs to rows that were flushed and are lost.
AcceptsLog(l) == ~ disk.published /\ l # <<>> => l[1].seq = 1

\* Mutant of Open: records after the last commit are left in the log.
OpenKeepsTail ==
    LET kept == CommittedPrefix(log)
    IN  /\ pc = "closed" /\ AcceptsLog(log)
        /\ call.txn < MaxInserts
        /\ \E keys \in SUBSET Keys \ {{}} :
              call' = [txn |-> call.txn + 1, keys |-> keys]
        /\ memtable' = Replayed(kept, disk)
        /\ last_sequence' = HighestEver(log, disk)
        /\ commit_version' = Max({disk.committed} \cup
                                 {kept[i].version : i \in DOMAIN kept})
        /\ pc' = "open"
        /\ UNCHANGED <<log, synced, disk, outcome>>

\* TableStore::open_with_wal for a statement: uncommitted records are cut
\* off, the rest is replayed, and a log that is wholly flushed is reset.
Open ==
    LET kept == CommittedPrefix(log)
        flushed == kept # <<>> /\ LastSequence(log, NoManifest) <= disk.flushed
    IN  /\ pc = "closed" /\ AcceptsLog(log)
        /\ call.txn < MaxInserts
        /\ \E keys \in SUBSET Keys \ {{}} :
              call' = [txn |-> call.txn + 1, keys |-> keys]
        /\ log' = IF flushed THEN <<>> ELSE kept
        /\ synced' = IF log' = log THEN synced ELSE Len(log')
        /\ memtable' = Replayed(kept, disk)
        /\ last_sequence' = LastSequence(log, disk)
        /\ commit_version' = Max({disk.committed} \cup
                                 {kept[i].version : i \in DOMAIN kept})
        /\ pc' = "open"
        /\ UNCHANGED <<disk, outcome>>

Finish(result) ==
    /\ outcome' = [outcome EXCEPT ![call.txn] = result]
    /\ pc' = "closed"

-----------------------------------------------------------------------------
(* INSERT.                                                                 *)

Rows == {[key |-> k, txn |-> call.txn, version |-> commit_version + 1] :
            k \in call.keys}

\* Mutant of Admits: existing keys are looked for in the segments only.
AdmitsUnflushed == \A r \in disk.rows : r.key \notin call.keys

\* reject_existing_keys, on the snapshot of the table just opened.
Admits == \A r \in disk.rows \cup memtable : r.key \notin call.keys

Reject ==
    /\ pc = "open" /\ ~ Admits
    /\ Finish("refused")
    /\ UNCHANGED <<log, synced, disk, call, handle>>

\* TableStore::commit appends the batch, which WalSync::Checkpoint leaves
\* unsynchronized ...
AppendRows ==
    /\ pc = "open" /\ Admits
    /\ log' = Append(log, Batch(last_sequence + 1, Rows))
    /\ pc' = "rows"
    /\ UNCHANGED <<synced, disk, call, handle, outcome>>

\* ... and its commit record ...
AppendCommit ==
    /\ pc = "rows"
    /\ log' = Append(log, CommitRecord(last_sequence + 2, commit_version + 1))
    /\ pc' = "commit"
    /\ UNCHANGED <<synced, disk, call, handle, outcome>>

\* Mutant of SyncForce: the commit is acknowledged without it.
SyncNothing ==
    /\ pc = "commit"
    /\ pc' = "apply"
    /\ UNCHANGED <<log, synced, disk, call, handle, outcome>>

\* ... one fsync makes both durable ...
SyncForce ==
    /\ pc = "commit"
    /\ synced' = Len(log)
    /\ pc' = "apply"
    /\ UNCHANGED <<log, disk, call, handle, outcome>>

\* ... and the rows are applied.  A memtable at its limit is flushed before
\* the statement returns.
Apply ==
    /\ pc = "apply"
    /\ memtable' = memtable \cup Rows
    /\ last_sequence' = last_sequence + 2
    /\ commit_version' = commit_version + 1
    /\ \/ Finish("done")
       \/ pc' = "flush" /\ UNCHANGED outcome
    /\ UNCHANGED <<log, synced, disk, call>>

\* Mutant of FlushPublish: the manifest does not carry the commit version.
FlushForgetsVersion ==
    /\ pc = "flush"
    /\ disk' = [disk EXCEPT !.rows = @ \cup memtable,
                            !.flushed = last_sequence, !.published = TRUE]
    /\ pc' = "reset"
    /\ UNCHANGED <<log, synced, call, handle, outcome>>

\* flush: the memtable's rows become a segment and a manifest names it ...
FlushPublish ==
    /\ pc = "flush"
    /\ disk' = [rows |-> disk.rows \cup memtable, flushed |-> last_sequence,
                committed |-> commit_version, published |-> TRUE]
    /\ pc' = "reset"
    /\ UNCHANGED <<log, synced, call, handle, outcome>>

\* ... and the log is reset.
FlushReset ==
    /\ pc = "reset"
    /\ log' = <<>> /\ synced' = 0
    /\ memtable' = {}
    /\ Finish("done")
    /\ UNCHANGED <<disk, call, last_sequence, commit_version>>

\* A record cannot be written: what was written of it is rolled back, which
\* synchronizes the log unless that fails too (recovery then ignores the torn
\* record), the statement returns the error and its handle is dropped.
AppendFails ==
    /\ pc = "rows" \/ (pc = "open" /\ Admits)
    /\ synced' \in {synced, Len(log)}
    /\ Finish("aborted")
    /\ UNCHANGED <<log, disk, call, handle>>

\* The fsync, the flush's publication or the log's reset fails after the
\* commit record was written; the statement returns the error all the same.
CommitFails ==
    /\ pc \in {"commit", "flush", "reset"}
    /\ Finish("failed")
    /\ UNCHANGED <<log, synced, disk, call, handle>>

\* The process dies or the machine loses power.
Crash ==
    /\ \E n \in synced .. Len(log) : log' = SubSeq(log, 1, n)
    /\ pc # "closed"
    /\ Finish("unknown")
    /\ UNCHANGED <<synced, disk, call, handle>>

\* The machine loses power between statements.
CrashIdle ==
    /\ pc = "closed" /\ synced < Len(log)
    /\ \E n \in synced .. Len(log) - 1 : log' = SubSeq(log, 1, n)
    /\ UNCHANGED <<synced, disk, pc, call, handle, outcome>>

Next ==
    \/ Open \/ Reject \/ AppendRows \/ AppendCommit \/ SyncForce \/ Apply
    \/ FlushPublish \/ FlushReset \/ AppendFails \/ CommitFails
    \/ Crash \/ CrashIdle

Spec == Init /\ [][Next]_vars

-----------------------------------------------------------------------------
(* Properties.                                                             *)

\* The logs a power loss can leave behind.
Survivors == {SubSeq(log, 1, n) : n \in synced .. Len(log)}

RowsOf(t, R) == {r \in R : r.txn = t}

\* What a statement acknowledged is found by the next open, whichever
\* unsynchronized records a power loss takes.
DoneSurvives ==
    \A l \in Survivors : \A t \in Txns :
        outcome[t] = "done" => RowsOf(t, Recovered(l, disk)) # {}

\* A statement that failed before its commit record was written leaves no row,
\* although its batch may still be in the log when the next statement commits.
AbortedLeavesNothing ==
    \A l \in Survivors : \A t \in Txns :
        outcome[t] = "aborted" => RowsOf(t, Recovered(l, disk)) = {}

\* No key is stored twice, by one statement or by two.
KeysAreUnique ==
    \A l \in Survivors : \A r, q \in Recovered(l, disk) :
        r.key = q.key => r = q

\* Two statements never share a commit version; a keyless table takes its row
\* ids from it.
VersionsAreUnique ==
    \A l \in Survivors : \A r, q \in Recovered(l, disk) :
        r.version = q.version => r.txn = q.txn

\* Recovery never refuses what the table itself wrote: the log's sequences
\* rise, and refuse_a_lost_manifest accepts its first one, after any failed
\* statement, truncation or power loss.
LogReplays ==
    /\ \A i \in 1 .. Len(log) - 1 : log[i].seq < log[i + 1].seq
    /\ AcceptsLog(log)

\* Rows a reader opening the table from its files shows: TableSnapshot::open
\* replays every batch of the log.
ReaderRows == disk.rows \cup Replayed(log, disk)

\* TableStore::commit: "one fsync makes both durable, and only then do the
\* rows become visible".
VisibleOnlyOnceDurable ==
    \A r \in ReaderRows : r \in Recovered(SubSeq(log, 1, synced), disk)

\* TableStore::commit: "a failed commit leaves nothing visible".
FailedLeavesNothing ==
    pc = "closed" =>
        \A t \in Txns : outcome[t] = "failed" =>
            RowsOf(t, Recovered(log, disk)) = {}

=============================================================================
