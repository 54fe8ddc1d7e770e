---------------------------- MODULE MCTableStore ----------------------------
(***************************************************************************)
(* TableStore on a small source history: key 1 is written, deleted and     *)
(* written again after a write of key 2.                                   *)
(***************************************************************************)
EXTENDS TableStore

MCKeyOf == [v \in Versions |-> <<2, 1, 1, 1>>[v]]
MCDeleted == {3} \cap Versions
=============================================================================
