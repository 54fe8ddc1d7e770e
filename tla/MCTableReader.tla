--------------------------- MODULE MCTableReader ---------------------------
(***************************************************************************)
(* TableReader on a source that writes two keys: every set of changes is   *)
(* told apart from every other one, so that a hole shows.                  *)
(***************************************************************************)
EXTENDS TableReader

MCKeyOf == [v \in Versions |-> v]
MCDeleted == {}
=============================================================================
