-------------------------- MODULE MCTableStoreInv --------------------------
(***************************************************************************)
(* The inductive invariant of TableStore on a source that writes a key,    *)
(* deletes it and writes another.                                          *)
(***************************************************************************)
EXTENDS TableStoreInv

MCKeyOf == [v \in Versions |-> <<1, 1, 2>>[v]]
MCDeleted == {2} \cap Versions
=============================================================================
