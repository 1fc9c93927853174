---------------------------- MODULE MCErc20Sync ----------------------------
(***************************************************************************)
(* Instances of Erc20Sync for TLC.                                         *)
(***************************************************************************)
EXTENDS Erc20Sync, TLC

CONSTANTS a, b, c, out

\* Every transfer has a transaction of its own, or a and b share one.
OwnTxn    == [t \in Transfers |-> t]
SharedTxn == [t \in Transfers |-> IF t = b THEN a ELSE t]
=============================================================================
