----------------------------- MODULE MergeJoin -----------------------------
(***************************************************************************)
(* compute_matches: the transfers and deposits of a pair are sorted by key *)
(* (amount, then wallet) and merged in one pass.  A transfer or a deposit  *)
(* is its place in its sorted list.  The sort is stable, and transfers are *)
(* read oldest first, so of one key the oldest transfer comes first.       *)
(***************************************************************************)
EXTENDS Integers

CONSTANTS
    Keys,     \* keys, as integers that compare like them
    MaxItems  \* bound: length of a list

ASSUME ConstantsAssumption ==
    /\ Keys \subseteq Int
    /\ MaxItems \in Nat

VARIABLES
    m, n,        \* numbers of transfers and deposits
    tkey, dkey,  \* their keys, sorted
    i, j,        \* heads of what is left of the lists
    matched,     \* pairs of a transfer and a deposit
    leftOnly,    \* transfers without a deposit
    rightOnly    \* deposits without a transfer

vars == <<m, n, tkey, dkey, i, j, matched, leftOnly, rightOnly>>

Sorted(key, len) ==
    \A a, b \in 1 .. len : a <= b => key[a] <= key[b]

Init ==
    /\ m \in 0 .. MaxItems
    /\ n \in 0 .. MaxItems
    /\ tkey \in [1 .. m -> Keys]
    /\ dkey \in [1 .. n -> Keys]
    /\ Sorted(tkey, m)
    /\ Sorted(dkey, n)
    /\ i = 1
    /\ j = 1
    /\ matched = {}
    /\ leftOnly = {}
    /\ rightOnly = {}

\* Faulty variant: equal heads are taken as a transfer without a deposit.
NotAfter == i <= m /\ (j <= n => tkey[i] <= dkey[j])

TransferFirst == i <= m /\ (j <= n => tkey[i] < dkey[j])
DepositFirst  == j <= n /\ (i <= m => dkey[j] < tkey[i])
SameKey       == i <= m /\ j <= n /\ tkey[i] = dkey[j]

Left ==
    /\ TransferFirst
    /\ leftOnly' = leftOnly \cup {i}
    /\ i' = i + 1
    /\ UNCHANGED <<m, n, tkey, dkey, j, matched, rightOnly>>

Right ==
    /\ DepositFirst
    /\ rightOnly' = rightOnly \cup {j}
    /\ j' = j + 1
    /\ UNCHANGED <<m, n, tkey, dkey, i, matched, leftOnly>>

\* Faulty variant: the deposit stays for the next transfer.
BothKeepDeposit ==
    /\ SameKey
    /\ matched' = matched \cup {<<i, j>>}
    /\ i' = i + 1
    /\ UNCHANGED <<m, n, tkey, dkey, j, leftOnly, rightOnly>>

\* Faulty variant: the transfer matched is the one after.
BothOffByOne ==
    /\ SameKey
    /\ matched' = matched \cup {<<i + 1, j>>}
    /\ i' = i + 1
    /\ j' = j + 1
    /\ UNCHANGED <<m, n, tkey, dkey, leftOnly, rightOnly>>

Both ==
    /\ SameKey
    /\ matched' = matched \cup {<<i, j>>}
    /\ i' = i + 1
    /\ j' = j + 1
    /\ UNCHANGED <<m, n, tkey, dkey, leftOnly, rightOnly>>

Next == Left \/ Right \/ Both

Spec == Init /\ [][Next]_vars

----------------------------------------------------------------------------
TypeOK ==
    /\ m \in 0 .. MaxItems
    /\ n \in 0 .. MaxItems
    /\ tkey \in [1 .. m -> Keys]
    /\ dkey \in [1 .. n -> Keys]
    /\ i \in 1 .. m + 1
    /\ j \in 1 .. n + 1
    /\ matched \subseteq (1 .. m) \X (1 .. n)
    /\ leftOnly \subseteq 1 .. m
    /\ rightOnly \subseteq 1 .. n

Done == i > m /\ j > n

(***************************************************************************)
(* What the order book makes of the lists: an item is its place and key.   *)
(***************************************************************************)
Items == (1 .. MaxItems) \X Keys

TransferAt(t) == <<t, tkey[t]>>
DepositAt(d)  == <<d, dkey[d]>>

TransferItems == {TransferAt(t) : t \in 1 .. m}
DepositItems  == {DepositAt(d) : d \in 1 .. n}
MatchedItems  == {<<TransferAt(p[1]), DepositAt(p[2])>> : p \in matched}

RowOf  == [x \in Items |-> [order |-> x[2], pair |-> "pair"]]
NoItem == [x \in Items |-> "none"]

Book == INSTANCE OrderBook WITH
    Orders <- Keys, Pairs <- {"pair"}, TrcPairs <- {}, Deposits <- Items,
    Txs <- Items, Callers <- {}, Amount <- [k \in Keys |-> k],
    TxPair <- [x \in Items |-> "pair"], TxValue <- [x \in Items |-> x[2]],
    None <- "none",
    status <- [k \in Keys |-> "pending"], row <- RowOf, live <- DepositItems,
    tstatus <- NoItem, fulfil <- NoItem, old <- {}, handler <- <<>>,
    pc <- "transfers", tick <- "pair", found <- DepositItems,
    matches <- MatchedItems, oldIds <- {}, outbox <- {}, reported <- {}

\* The result is one the order book takes it for: pairs of equal keys, nothing
\* in two pairs, and no key left over on both sides.
IsPairing == Done => Book!IsPairing(MatchedItems, TransferItems, DepositItems)

\* Nothing gets lost: what is in no pair is left over.
NothingLost ==
    Done =>
        /\ \A t \in 1 .. m : t \in leftOnly \/ \E p \in matched : p[1] = t
        /\ \A d \in 1 .. n : d \in rightOnly \/ \E p \in matched : p[2] = d

\* Of the transfers of one amount the oldest is credited first: a transfer is
\* left over only if the later ones of its key are left over too.
OldestFirst ==
    \A p \in matched : \A t \in leftOnly : t < p[1] => tkey[t] < tkey[p[1]]

----------------------------------------------------------------------------
(***************************************************************************)
(* The inductive invariant.                                                *)
(***************************************************************************)
InputsSorted == Sorted(tkey, m) /\ Sorted(dkey, n)

\* What was taken is behind the heads, and somewhere in the result.
Taken ==
    /\ \A t \in 1 .. m : t < i <=> t \in leftOnly \/ \E p \in matched : p[1] = t
    /\ \A d \in 1 .. n : d < j <=> d \in rightOnly \/ \E p \in matched : p[2] = d

PairsSound ==
    /\ \A p \in matched : tkey[p[1]] = dkey[p[2]]
    /\ \A p, q \in matched : (p[1] = q[1] \/ p[2] = q[2]) => p = q

\* What was left over is below the other list's head, and was so then.
LeftOverSound ==
    /\ \A t \in leftOnly : \A d \in j .. n : tkey[t] < dkey[d]
    /\ \A d \in rightOnly : \A t \in i .. m : dkey[d] < tkey[t]
    /\ \A t \in leftOnly, d \in rightOnly : tkey[t] # dkey[d]

IInv ==
    /\ TypeOK
    /\ InputsSorted
    /\ Taken
    /\ PairsSound
    /\ LeftOverSound
    /\ OldestFirst
=============================================================================
