--------------------------- MODULE TableStoreInv ---------------------------
(***************************************************************************)
(* The inductive invariant of TableStore: what must hold between any two   *)
(* steps for the properties of TableStore to survive the next one.         *)
(***************************************************************************)
EXTENDS TableStore

Ids(S) == {s.id : s \in S}

\* Files whose removal has been decided or is only waiting for readers.
Gone == doomed \cup UNION retired

\* Ids written by somebody else than the next flush: they are never handed
\* out again while their owner may still write or publish them.
Owned == Ids(staged) \cup staged_ids \cup Ids(background.outputs)

\* The handle is being dropped: no call will be made on it again.
Closing == pc = "settle" \/ ret = "settle"

-----------------------------------------------------------------------------
(* Control: what the place of the running call says about the rest.        *)

\* The manifest in memory is the one on disk, except between the two halves
\* of a flush, when the file is exactly one segment ahead.
ManifestInv ==
    IF pc = "clear"
      THEN /\ disk = [segs |-> manifest.segs
                        \cup {[id |-> manifest.next, rows |-> memtable]},
                      flushed |-> last_sequence,
                      next |-> manifest.next + 1,
                      committed |-> Applied]
           /\ commit_version = Applied
      ELSE /\ manifest = disk
           /\ pc # "closed" => commit_version = manifest.committed

Flushing == pc \in {"segment", "manifest", "clear"}
Reclaiming == pc \in {"reclaim", "remove"}

ControlInv ==
    /\ Flushing => ret \in {"idle", "advance", "stage", "stage_direct"}
    /\ Reclaiming => ret \in {"idle", "spawn_ingest", "spawn_idle", "settle"}
    /\ ~ Flushing /\ ~ Reclaiming => ret = "idle"
    /\ batch # {} <=> \/ pc \in {"poll", "append", "spawn_ingest", "stage",
                                 "stage_direct"}
                      \/ ret \in {"spawn_ingest", "stage", "stage_direct"}
    /\ Flushing => memtable # {}
    /\ pc \in {"stage", "stage_direct", "publish", "advance"} \/ staged # {} =>
         memtable = {}
    /\ pc = "publish" => staged # {}
    /\ pc \in {"poll", "append", "spawn_ingest", "stage_direct", "advance",
               "spawn", "checkpointed", "reset", "closed"}
         \/ ret = "spawn_ingest" => staged = {}
    /\ pc = "closed" => staged_ids = {} /\ retired = {}
    /\ pc \in {"closed", "reset"} => background = NoMerge
    /\ background.state = "none" => background = NoMerge
    /\ pc # "remove" => doomed = {}

-----------------------------------------------------------------------------
(* Files and ids.                                                          *)

UniqueIds(S) == \A s, t \in S : s.id = t.id => s = t

\* A file name has one content, and every file somebody counts on is there.
FileInv ==
    /\ UniqueIds(files)
    /\ FilesIntact /\ PinsIntact
    /\ manifest.segs \subseteq files
    /\ pc \in {"manifest", "clear"} =>
         [id |-> manifest.next, rows |-> memtable] \in files
    /\ staged \subseteq files
    /\ background.inputs \subseteq manifest.segs

\* Nobody holds an id somebody else is still going to write.
OwnerInv ==
    /\ UniqueIds(background.outputs)
    /\ \A s \in manifest.segs \cup Gone \cup UNION {pins[r] : r \in Readers} :
          s.id < manifest.next /\ s.id \notin Owned
    /\ \A i \in Owned : i < manifest.next
    /\ staged_ids \cap (Ids(staged) \cup Ids(background.outputs)) = {}
    /\ Ids(staged) \cap Ids(background.outputs) = {}
    /\ Ids(manifest.segs) \cap Ids(Gone) = {}
    /\ \A r \in Readers : pins[r] \cap doomed = {}

IdInv == FileInv /\ OwnerInv

-----------------------------------------------------------------------------
(* Rows.                                                                   *)

Committed == disk.committed

\* A manifest's segments resolve to the source's state at the version the
\* manifest says it has committed.
Resolves(m) ==
    /\ Rows(m.segs) \subseteq 1..m.committed
    /\ Visible(Rows(m.segs)) = Visible(1..m.committed)

ResolveInv == Resolves(disk) /\ Resolves(manifest)

LiveWal == {b \in wal : b.seq > disk.flushed}

\* The log's live records hold consecutive changes after the committed ones,
\* in order: any prefix of them is a prefix of the source's changes.
WalInv ==
    /\ \A b \in LiveWal : \A v \in b.rows : v > Committed
    /\ \A b \in LiveWal : \A v \in b.rows : \A u \in Committed + 1 .. v :
          \E c \in LiveWal : u \in c.rows /\ c.seq <= b.seq
    /\ \E n \in {b.seq : b \in wal} \cup {disk.flushed} :
          n >= disk.flushed /\ \A b \in wal : b.seq <= n
    /\ pc # "closed" => /\ \A b \in wal : b.seq <= last_sequence
                        /\ disk.flushed <= last_sequence
    /\ pc = "reset" => wal = {}

\* The memtable holds the newest row of every key changed since then, and the
\* log every one of those changes.
MemInv ==
    pc # "closed" =>
      /\ memtable = Latest(manifest.committed + 1 .. Applied)
      /\ pc \notin {"clear", "reset"} /\ ~ Closing =>
           Rows(LiveWal) = manifest.committed + 1 .. Applied

\* Changes up to the stream's checkpoint are in segments or synchronized.
CheckpointInv ==
    /\ CheckpointSurvives
    /\ \A u \in Committed + 1 .. cp :
         \E b \in LiveWal : b.seq <= synced /\ u \in b.rows
    /\ pc = "checkpointed" => synced = last_sequence
    /\ pc = "reset" => cp = 0 /\ pos = 0

\* The call in progress and the staged pieces hold the changes the stream has
\* handed over and the table has not applied.
StreamInv ==
    pc # "closed" /\ ~ Closing =>
      /\ \A v \in Rows(staged) : v > Applied /\ v <= pos
      /\ \A v \in batch : v > Applied /\ v <= pos
                          /\ \A w \in Rows(staged) : w < v
      /\ \A v \in Applied + 1 .. pos :
           \/ v \in batch
           \/ \E w \in Rows(staged) : KeyOf[w] = KeyOf[v] /\ w >= v

\* What a merge in flight leaves out of its outputs is hidden by nothing and
\* hides nothing but its own inputs.
MergeOf(S, R, others) ==
    /\ R \subseteq Latest(Rows(S))
    /\ \A v \in Latest(Rows(S)) \ R :
          /\ v \in Deleted
          /\ \A w \in Rows(others) : KeyOf[w] = KeyOf[v] => w > v

MergeInv ==
    background.state # "none" =>
        MergeOf(background.inputs, Rows(background.outputs),
                manifest.segs \ background.inputs)

RowInv ==
    /\ ResolveInv /\ WalInv /\ MemInv
    /\ CheckpointInv /\ StreamInv /\ MergeInv

\* The conjunction the proofs carry from step to step.
IInv == TypeOK /\ ManifestInv /\ ControlInv /\ IdInv /\ RowInv
=============================================================================
