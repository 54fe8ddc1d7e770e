---------------------------- MODULE TableReader ----------------------------
(***************************************************************************)
(* Readers that open a table from its files while its writer works         *)
(* (TableSnapshot::open, crates/pintail-store/src/store/snapshot.rs).      *)
(*                                                                         *)
(* A reader takes no lock.  It loads the manifest, registers it, reads the *)
(* log, loads the manifest again and starts over when that has changed.    *)
(* The writer's steps are TableStore's; its reclaim pass reads the registry*)
(* in one step and removes files in a later one.                           *)
(***************************************************************************)
EXTENDS TableStore

VARIABLE reader   \* reader[r]: what r's open has read so far

\* at: the last step done.  loaded: the manifest.  log: the rows replayed from
\* the log.  moved: the manifest file's generation is no longer the loaded one's.
\* Two history fields: floor, the changes the manifest or the stream's checkpoint
\* covered when the open began; reset, whether the log that held some of them was
\* reset for a rebuild before the open read it.
NoReader == [at |-> "none", loaded |-> EmptyManifest, log |-> {},
             moved |-> FALSE, floor |-> 0, reset |-> FALSE]

readerVars == <<vars, reader>>

ReaderInit == Init /\ reader = [r \in Readers |-> NoReader]

-----------------------------------------------------------------------------
(* TableSnapshot::open.  Every publication raises the manifest's generation,*)
(* so a manifest with the loaded one's generation is that manifest.        *)

Become(r, s) ==
    /\ reader' = [reader EXCEPT ![r] = s]
    /\ UNCHANGED <<stream, logVars, disk, files, control, manifest, memVars,
                   stageVars, background, retired, doomed>>

\* manifest::load.
Load(r) ==
    /\ reader[r].at = "none"
    /\ Become(r, [NoReader EXCEPT !.at = "loaded", !.loaded = disk,
                                  !.floor = Max({cp, disk.committed})])
    /\ UNCHANGED pins

\* register_pinned_manifest: from here on reclaim passes see the manifest.
Register(r) ==
    /\ reader[r].at = "loaded"
    /\ Become(r, [reader[r] EXCEPT !.at = "registered"])
    /\ pins' = [pins EXCEPT ![r] = reader[r].loaded.segs]

\* The rows of the log's records that manifest m has not flushed.
ReplayedOver(m) == Latest(Rows({b \in wal : b.seq > m.flushed}))

\* wal::recover_read_only: the log is read as it is now.
ReadLog(r) ==
    /\ reader[r].at = "registered"
    /\ Become(r, [reader[r] EXCEPT !.at = "replayed",
                                   !.log = ReplayedOver(reader[r].loaded)])
    /\ UNCHANGED pins

\* Mutant of Recheck: the second look at the manifest is left out.
RecheckNothing(r) ==
    /\ reader[r].at = "replayed"
    /\ Become(r, [reader[r] EXCEPT !.at = "checked"])
    /\ UNCHANGED pins

\* The manifest is loaded again; a later generation starts the open over, which
\* lets the registration go.
Recheck(r) ==
    /\ reader[r].at = "replayed"
    /\ IF ~ reader[r].moved
         THEN /\ Become(r, [reader[r] EXCEPT !.at = "checked"])
              /\ UNCHANGED pins
         ELSE /\ Become(r, NoReader)
              /\ pins' = [pins EXCEPT ![r] = {}]

\* segment::verify opens every named file and the snapshot is handed out; a
\* missing one starts over when the manifest has moved and fails otherwise.
Verify(r) ==
    /\ reader[r].at = "checked"
    /\ IF reader[r].loaded.segs \subseteq files
         THEN /\ Become(r, [reader[r] EXCEPT !.at = "open"])
              /\ UNCHANGED pins
         ELSE /\ Become(r, NoReader)
              /\ pins' = [pins EXCEPT ![r] = {}]

\* The snapshot is dropped.
CloseReader(r) ==
    /\ reader[r].at = "open"
    /\ Become(r, NoReader)
    /\ pins' = [pins EXCEPT ![r] = {}]

ReaderStep(r) ==
    \/ Load(r) \/ Register(r) \/ ReadLog(r) \/ Recheck(r) \/ Verify(r)
    \/ CloseReader(r)

\* A manifest is published; only a rebuild can publish the one it found.
Publishes == disk' # disk \/ ResetManifest

\* A reader across a step of the writer.
AfterStore(s) ==
    [s EXCEPT !.moved = /\ s.at \in {"loaded", "registered", "replayed"}
                        /\ @ \/ Publishes,
              !.reset = \/ @
                        \/ /\ ResetWal
                           /\ s.at \in {"loaded", "registered"}
                           /\ s.floor > s.loaded.committed]

\* Readers live in the writer's process and die with it.
ReaderNext ==
    \/ /\ StoreStep
       /\ reader' = [r \in Readers |-> AfterStore(reader[r])]
    \/ MergeWrites /\ UNCHANGED reader
    \/ MergeFails /\ UNCHANGED reader
    \/ \E r \in Readers : ReaderStep(r)
    \/ Crash /\ reader' = [r \in Readers |-> NoReader]

ReaderSpec == ReaderInit /\ [][ReaderNext]_readerVars

-----------------------------------------------------------------------------
(* Properties.                                                             *)

ReaderScan(r) == Scan(reader[r].loaded.segs, reader[r].log)

\* Once the second look has found the manifest it registered still in place, a
\* reader's segments are all there and stay until it is dropped, although a
\* reclaim pass may have read the registry before the registration.
ReaderFilesIntact ==
    \A r \in Readers :
        reader[r].at \in {"checked", "open"} =>
            reader[r].loaded.segs \subseteq files

\* A reader sees the source's state after some number of changes: at least those
\* of its manifest, and those the stream had checkpointed when the open began
\* unless the log was reset before the open read it.  It never sees a mixture of
\* one manifest's segments and a log that goes with another.
ReaderExact ==
    \A r \in Readers :
        reader[r].at = "open" =>
            \E n \in 0..MaxVersion :
                /\ ReaderScan(r) = Visible(1..n)
                /\ n >= reader[r].loaded.committed
                /\ reader[r].reset \/ n >= reader[r].floor

\* TableSnapshot::open: "a reader cannot combine an old segment set with a
\* newly truncated WAL": an open reader shows at least what the stream had
\* checkpointed when the open began.
NoTruncatedLog ==
    \A r \in Readers :
        reader[r].at = "open" =>
            \E n \in reader[r].floor .. MaxVersion :
                ReaderScan(r) = Visible(1..n)

=============================================================================
