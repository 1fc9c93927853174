---------------------------- MODULE MCOrderBook ----------------------------
(***************************************************************************)
(* Instances of OrderBook for TLC.  Every order asks for the same amount   *)
(* and every transfer is on one pair.  "Same": any transfer can pay any    *)
(* deposit of the pair.  "Stray": t2 is of an amount nobody asks for.      *)
(***************************************************************************)
EXTENDS OrderBook, TLC

CONSTANTS o1, o2, t1, t2, eth, tron

SameAmount  == [o \in Orders |-> 1]
SameTxPair  == [t \in Txs |-> eth]
SameTxValue == [t \in Txs |-> 1]

StrayTxValue == (t1 :> 1) @@ (t2 :> 2)

SameSymmetry == Permutations(Orders) \cup Permutations(Deposits)
                    \cup Permutations(Txs) \cup Permutations(Callers)
=============================================================================
