--------------------------- MODULE MCLatePublish ---------------------------
(***************************************************************************)
(* LatePublish on a source that writes a key and deletes it again.         *)
(***************************************************************************)
EXTENDS LatePublish

MCKeyOf == [v \in Versions |-> <<1, 1>>[v]]
MCDeleted == {2} \cap Versions
=============================================================================
