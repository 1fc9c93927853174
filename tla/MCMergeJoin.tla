---------------------------- MODULE MCMergeJoin ----------------------------
(***************************************************************************)
(* The instance of MergeJoin for TLC.                                      *)
(***************************************************************************)
EXTENDS MergeJoin, TLC
=============================================================================
