----------------------------- MODULE MCCheckout -----------------------------
(***************************************************************************)
(* An instance of Checkout for TLC: one order, whose amount the one        *)
(* transfer has.                                                           *)
(***************************************************************************)
EXTENDS Checkout, TLC

CONSTANTS o1, t1, eth

OneAmount == [o \in Orders |-> 1]
OneTxPair == [t \in Txs |-> eth]
OneTxValue == [t \in Txs |-> 1]
OneEvent == [o \in Orders |-> 1]
=============================================================================
