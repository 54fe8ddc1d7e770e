---------------------------- MODULE LatePublish ----------------------------
(***************************************************************************)
(* TableStore with a manifest publication that fails late.                 *)
(*                                                                         *)
(* manifest::publish renames the new manifest into place and then          *)
(* synchronizes the directory.  When only the second step fails it returns *)
(* an error although the new manifest is the one every later open reads.   *)
(***************************************************************************)
EXTENDS TableStore

\* publish_staged after such an error: it removes the pieces it believes
\* unpublished and returns; the manifest in memory stays the old one.
PublishStagedFailsLate ==
    LET applied == Max(Rows(staged) \cup {commit_version})
    IN  /\ pc \in {"idle", "publish"}
        /\ staged # {}
        /\ disk' = [manifest EXCEPT !.segs = @ \cup staged,
                                    !.committed = applied]
        /\ files' = files \ staged
        /\ staged' = {}
        /\ pc' = "settle"
        /\ UNCHANGED <<stream, logVars, ret, batch, manifest, memVars,
                       staged_ids, background, retired, doomed, pins>>

LateNext == Next \/ PublishStagedFailsLate

LateSpec == Init /\ [][LateNext]_vars

\* publish_staged: "Returns an error when the manifest cannot be published;
\* the staged pieces are discarded and nothing of them is visible."  Every
\* segment the manifest file names is still there after the error.
FailedPublicationIsInvisible == pc = "settle" => disk.segs \subseteq files

=============================================================================
