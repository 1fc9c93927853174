--------------------------- MODULE PaymentLedger ---------------------------
(***************************************************************************)
(* What the order book promises about money, with the database calls, the  *)
(* watcher and the handlers left out: an order is open until it is         *)
(* settled and never opens again; a deposit slot belongs to one order and  *)
(* one pair; transfers are credited to slots in batches, and no transfer,  *)
(* no slot and no order is credited by two of them.                        *)
(***************************************************************************)
EXTENDS FiniteSets

CONSTANTS Orders, Pairs, Deposits, Txs, Amount, TxPair, TxValue, None

VARIABLES
    standing,   \* absent, open or settled, for each order
    slot,       \* the order and pair of each deposit, or None
    credit      \* the deposit each transfer pays, or None

ledgerVars == <<standing, slot, credit>>

CreditedTo(o) == {t \in Txs : credit[t] # None /\ slot[credit[t]].order = o}

Init ==
    /\ standing = [o \in Orders |-> "absent"]
    /\ slot = [d \in Deposits |-> None]
    /\ credit = [t \in Txs |-> None]

Open(o) ==
    /\ standing[o] = "absent"
    /\ standing' = [standing EXCEPT ![o] = "open"]
    /\ UNCHANGED <<slot, credit>>

\* A slot may be added to an order that was settled meanwhile.
Offer(d, o, p) ==
    /\ standing[o] # "absent"
    /\ slot[d] = None
    /\ slot' = [slot EXCEPT ![d] = [order |-> o, pair |-> p]]
    /\ UNCHANGED <<standing, credit>>

Settle(o) ==
    /\ standing[o] = "open"
    /\ standing' = [standing EXCEPT ![o] = "settled"]
    /\ UNCHANGED <<slot, credit>>

\* The batch is a one-to-one relation of uncredited transfers and slots.
CreditBatch(batch) ==
    /\ batch # {}
    /\ \A m, n \in batch : (m[1] = n[1] \/ m[2] = n[2]) => m = n
    /\ \A m \in batch :
         /\ credit[m[1]] = None
         /\ slot[m[2]] # None
         /\ slot[m[2]].pair = TxPair[m[1]]
         /\ Amount[slot[m[2]].order] = TxValue[m[1]]
         /\ standing[slot[m[2]].order] # "absent"
         /\ CreditedTo(slot[m[2]].order) = {}
    /\ credit' = [t \in Txs |->
            IF \E m \in batch : m[1] = t
              THEN (CHOOSE m \in batch : m[1] = t)[2] ELSE credit[t]]
    /\ standing' = [o \in Orders |->
            IF \E m \in batch : slot[m[2]].order = o
              THEN "settled" ELSE standing[o]]
    /\ UNCHANGED slot

Next ==
    \/ \E o \in Orders : Open(o) \/ Settle(o)
    \/ \E d \in Deposits, o \in Orders, p \in Pairs : Offer(d, o, p)
    \/ \E batch \in SUBSET (Txs \X Deposits) : CreditBatch(batch)

Spec == Init /\ [][Next]_ledgerVars
=============================================================================
