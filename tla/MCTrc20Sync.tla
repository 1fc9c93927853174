---------------------------- MODULE MCTrc20Sync ----------------------------
(***************************************************************************)
(* The instance of Trc20Sync for TLC.                                      *)
(***************************************************************************)
EXTENDS Trc20Claims, TLC
=============================================================================
