----------------------------- MODULE OrderBook -----------------------------
(***************************************************************************)
(* The order book of the checkout server: the database rows of orders,     *)
(* pending deposits and recorded transfers, and every program that writes  *)
(* them.  The HTTP handlers (create_order, create_payment, cancel_order,   *)
(* mark_paid) read a row, decide, and write in a later statement; the      *)
(* blockchain sync records transfers; the OrderBookWatcher matches         *)
(* transfers to deposits in five database calls that interleave with all   *)
(* the others.  One statement or one database transaction is one step.     *)
(*                                                                         *)
(* The ERC-20 and TRC-20 tables are one family each; a pair is a           *)
(* blockchain and a token and belongs to one family.  Identifiers of       *)
(* deposits and transfers (BIGSERIAL columns) are distinct model values.   *)
(* Each pair has one wallet, and only transfers to it are recorded, so two *)
(* rows of a pair have the same address and their sort key is the amount.  *)
(***************************************************************************)
EXTENDS FiniteSets

CONSTANTS
    Orders,     \* order ids the service may create
    Pairs,      \* blockchain-token pairs with a wallet
    TrcPairs,   \* the pairs kept in the TRC-20 tables
    Deposits,   \* ids of pending deposits
    Txs,        \* token transfers on the blockchains
    Callers,    \* HTTP requests served concurrently
    Amount,     \* Amount[o]: what order o asks for
    TxPair,     \* TxPair[t]: the pair transfer t was made on
    TxValue,    \* TxValue[t]: the amount transferred
    None        \* SQL NULL: a deposit row not inserted, no fulfillment id

ASSUME ConstantsAssumption ==
    /\ TrcPairs \subseteq Pairs
    /\ TxPair \in [Txs -> Pairs]
    /\ DOMAIN Amount = Orders
    /\ DOMAIN TxValue = Txs
    /\ None \notin Deposits
    /\ None \notin [order : Orders, pair : Pairs]

VARIABLES
    status,     \* order_records.status
    row,        \* the deposit inserted under an id; kept when it is deleted
    live,       \* ids in the two pending-deposit tables
    tstatus,    \* status of the transfer rows
    fulfil,     \* fulfillment_id of the transfer rows
    old,        \* transfers recorded more than an hour ago
    handler,    \* where each HTTP request stands
    pc,         \* the database call the watcher makes next
    tick,       \* the pair of the MatchTick in process
    found,      \* deposits read for this tick
    matches,    \* the matches computed for this tick
    oldIds,     \* the old unmatched transfers read for this tick
    outbox,     \* webhook events of this tick not yet sent
    reported    \* transfers whose UnknownTransferReceived event was sent

orderVars   == <<status, row, live>>
txVars      == <<tstatus, fulfil, old>>
watcherVars == <<pc, tick, found, matches, oldIds, outbox>>
vars == <<orderVars, txVars, handler, watcherVars, reported>>

OrderStatus    == {"pending", "paid", "expired", "cancelled"}
TransferStatus == {"waiting_for_confirmation", "failed_to_confirm",
                   "waiting_for_match", "no_matched_deposit", "matched"}

Row == [order : Orders, pair : Pairs]

StatusEvent(o, s) == [order |-> o, new_status |-> s]
UnknownEvent(t)   == [unknown |-> t]
StatusEvents  == [order : Orders, new_status : OrderStatus]
UnknownEvents == [unknown : Txs]

Idle == [at |-> "idle"]
Call == [at : {"pay"}, order : Orders, pair : Pairs]
            \cup [at : {"cancel", "mark_paid"}, order : Orders]
            \cup [at : {"announce"}, event : StatusEvents]

Inserted(d) == row[d] # None
Family(p)   == {q \in Pairs : q \in TrcPairs <=> p \in TrcPairs}

(***************************************************************************)
(* Initially the tables are empty.                                         *)
(***************************************************************************)
Init ==
    /\ status = [o \in Orders |-> "absent"]
    /\ row = [d \in Deposits |-> None]
    /\ live = {}
    /\ tstatus = [t \in Txs |-> "absent"]
    /\ fulfil = [t \in Txs |-> None]
    /\ old = {}
    /\ handler = [c \in Callers |-> Idle]
    /\ pc = "idle"
    /\ tick = None
    /\ found = {}
    /\ matches = {}
    /\ oldIds = {}
    /\ outbox = {}
    /\ reported = {}

----------------------------------------------------------------------------
(***************************************************************************)
(* HTTP handlers.                                                          *)
(***************************************************************************)

\* POST /orders: the row is inserted with the default status.
CreateOrder(o) ==
    /\ status[o] = "absent"
    /\ status' = [status EXCEPT ![o] = "pending"]
    /\ UNCHANGED <<row, live, txVars, handler, watcherVars, reported>>

Await(c, call) ==
    /\ handler' = [handler EXCEPT ![c] = call]
    /\ UNCHANGED <<orderVars, txVars, watcherVars, reported>>

\* create_payment reads the order and refuses one that is not pending.
CreatePaymentRead(c, o, p) ==
    /\ handler[c] = Idle
    /\ status[o] = "pending"
    /\ Await(c, [at |-> "pay", order |-> o, pair |-> p])

\* The insert does not look at the order's status again.
CreatePaymentInsert(c, d) ==
    /\ handler[c].at = "pay"
    /\ ~Inserted(d)
    /\ row' = [row EXCEPT ![d] = [order |-> handler[c].order,
                                  pair |-> handler[c].pair]]
    /\ live' = live \cup {d}
    /\ handler' = [handler EXCEPT ![c] = Idle]
    /\ UNCHANGED <<status, txVars, watcherVars, reported>>

\* Faulty variant: the event is announced before the transaction.
AnnounceFirst(c, o) ==
    /\ handler[c] = Idle
    /\ status[o] = "pending"
    /\ Await(c, [at |-> "announce", event |-> StatusEvent(o, "cancelled")])

CancelRead(c, o) ==
    /\ handler[c] = Idle
    /\ status[o] = "pending"
    /\ Await(c, [at |-> "cancel", order |-> o])

\* One transaction: the status, whatever it is by now, and all deposits.
CancelCommit(c) ==
    /\ handler[c].at = "cancel"
    /\ LET o == handler[c].order IN
         /\ status' = [status EXCEPT ![o] = "cancelled"]
         /\ live' = {d \in live : row[d].order # o}
         /\ handler' = [handler EXCEPT ![c] =
                [at |-> "announce", event |-> StatusEvent(o, "cancelled")]]
    /\ UNCHANGED <<row, txVars, watcherVars, reported>>

\* mark_paid returns early on a paid order and takes any other status.
MarkPaidRead(c, o) ==
    /\ handler[c] = Idle
    /\ status[o] \notin {"absent", "paid"}
    /\ Await(c, [at |-> "mark_paid", order |-> o])

\* The order's pending deposits stay.
MarkPaidUpdate(c) ==
    /\ handler[c].at = "mark_paid"
    /\ LET o == handler[c].order IN
         /\ status' = [status EXCEPT ![o] = "paid"]
         /\ handler' = [handler EXCEPT ![c] =
                [at |-> "announce", event |-> StatusEvent(o, "paid")]]
    /\ UNCHANGED <<row, live, txVars, watcherVars, reported>>

\* The handler hands its webhook event to the channel and answers.
Announce(c) ==
    /\ handler[c].at = "announce"
    /\ Await(c, Idle)

\* A failed database call, or a client that hangs up and has its request
\* dropped, ends a handler between two of its steps.
Abort(c) ==
    /\ handler[c] # Idle
    /\ Await(c, Idle)

----------------------------------------------------------------------------
(***************************************************************************)
(* Transfers.  Confirmation is done by a program outside this repository:  *)
(* the migrations define its columns, statuses and triggers, no code of    *)
(* the repository writes them.                                             *)
(***************************************************************************)

\* Faulty variant: ON CONFLICT DO UPDATE resets the rows already there.
Upsert(batch) ==
    /\ batch # {}
    /\ tstatus' = [t \in Txs |->
            IF t \in batch THEN "waiting_for_confirmation" ELSE tstatus[t]]
    /\ UNCHANGED <<orderVars, fulfil, old, handler, watcherVars, reported>>

\* A synced page: ON CONFLICT DO NOTHING leaves known transfers alone.
InsertTransfers(batch) ==
    /\ \E t \in batch : tstatus[t] = "absent"
    /\ tstatus' = [t \in Txs |->
            IF t \in batch /\ tstatus[t] = "absent"
              THEN "waiting_for_confirmation" ELSE tstatus[t]]
    /\ UNCHANGED <<orderVars, fulfil, old, handler, watcherVars, reported>>

SettleConfirmation(t, outcome) ==
    /\ tstatus[t] = "waiting_for_confirmation"
    /\ tstatus' = [tstatus EXCEPT ![t] = outcome]
    /\ UNCHANGED <<orderVars, fulfil, old, handler, watcherVars, reported>>

ConfirmTransfer(t)       == SettleConfirmation(t, "waiting_for_match")
FailToConfirmTransfer(t) == SettleConfirmation(t, "failed_to_confirm")

\* An hour passes since the transfer's row was created.
AgeTransfer(t) ==
    /\ tstatus[t] # "absent"
    /\ t \notin old
    /\ old' = old \cup {t}
    /\ UNCHANGED <<orderVars, tstatus, fulfil, handler, watcherVars, reported>>

----------------------------------------------------------------------------
(***************************************************************************)
(* The OrderBookWatcher: one task, one MatchTick at a time.                *)
(***************************************************************************)

\* Faulty variants: the query without one of its conditions.
DepositsOfAnyOrder(p) == {d \in live : row[d].pair = p}
DepositsNotCancelled(p) ==
    {d \in live : row[d].pair = p /\ status[row[d].order] # "cancelled"}
DepositsOfAnyPair(p) == {d \in live : status[row[d].order] = "pending"}

MatchableDeposits(p) ==
    {d \in live : row[d].pair = p /\ status[row[d].order] = "pending"}

\* Faulty variant: transfers are given up on once they are old.
RecentTransfers(p) ==
    {t \in Txs \ old : TxPair[t] = p /\ tstatus[t] = "waiting_for_match"}

UnmatchedTransfers(p) ==
    {t \in Txs : TxPair[t] = p /\ tstatus[t] = "waiting_for_match"}

SameKey(t, d) == TxValue[t] = Amount[row[d].order]

\* Faulty variant: every transfer is joined with every deposit of its key.
IsJoin(M, T, D) == M = {m \in T \X D : SameKey(m[1], m[2])}

\* compute_matches: both lists are sorted by key and merged, the i-th
\* transfer of a key with its i-th deposit.  The deposits come in no order,
\* so within a key any pairing may result, and it pairs as many as it can.
IsPairing(M, T, D) ==
    /\ \A m \in M : SameKey(m[1], m[2])
    /\ \A m, n \in M : (m[1] = n[1] \/ m[2] = n[2]) => m = n
    /\ \A t \in T, d \in D : SameKey(t, d) =>
            \E m \in M : m[1] = t \/ m[2] = d

Pairings(T, D) == {M \in SUBSET (T \X D) : IsPairing(M, T, D)}

WatcherIdle ==
    /\ pc' = "idle"
    /\ tick' = None
    /\ found' = {}
    /\ matches' = {}
    /\ oldIds' = {}
    /\ outbox' = {}

\* A MatchTick arrives and the deposits of its pair are read.
GetDepositsForMatching(p) ==
    /\ pc = "idle"
    /\ MatchableDeposits(p) # {}
    /\ pc' = "transfers"
    /\ tick' = p
    /\ found' = MatchableDeposits(p)
    /\ UNCHANGED <<orderVars, txVars, handler, matches, oldIds, outbox, reported>>

\* With no transfer to match the tick is over, old transfers or not.
NoUnmatchedTransfer ==
    /\ pc = "transfers"
    /\ UnmatchedTransfers(tick) = {}
    /\ WatcherIdle
    /\ UNCHANGED <<orderVars, txVars, handler, reported>>

GetTransfersUnmatched ==
    /\ pc = "transfers"
    /\ UnmatchedTransfers(tick) # {}
    /\ matches' \in Pairings(UnmatchedTransfers(tick), found)
    /\ found' = {}
    /\ pc' = "old"
    /\ UNCHANGED <<orderVars, txVars, handler, tick, oldIds, outbox, reported>>

GetOldUnmatchedTransferIds ==
    /\ pc = "old"
    /\ oldIds' = UnmatchedTransfers(tick) \cap old
    /\ oldIds' # {} \/ matches # {}
    /\ pc' = IF oldIds' # {} THEN "mark" ELSE "handle"
    /\ UNCHANGED <<orderVars, txVars, handler, tick, found, matches, outbox, reported>>

NothingToDo ==
    /\ pc = "old"
    /\ matches = {}
    /\ UnmatchedTransfers(tick) \cap old = {}
    /\ WatcherIdle
    /\ UNCHANGED <<orderVars, txVars, handler, reported>>

\* The update has no condition on the status.
MarkTransfersNoMatchedDeposit ==
    /\ pc = "mark"
    /\ tstatus' = [t \in Txs |->
            IF t \in oldIds THEN "no_matched_deposit" ELSE tstatus[t]]
    /\ outbox' = outbox \cup {UnknownEvent(t) : t \in oldIds}
    /\ oldIds' = {}
    /\ pc' = IF matches # {} THEN "handle" ELSE "emit"
    /\ UNCHANGED <<orderVars, fulfil, old, handler, tick, found, matches, reported>>

MatchedOrders == {row[m[2]].order : m \in matches}
IsMatched(t)  == \E m \in matches : m[1] = t

\* Faulty variant: the columns of the match are swapped.
OrderOf(t) == row[(CHOOSE m \in matches : m[1] = t)[2]].order

DepositOf(t)  == (CHOOSE m \in matches : m[1] = t)[2]

\* Faulty variant: the transfers are not linked to their deposits.
MarkUnlinked ==
    /\ tstatus' = [t \in Txs |-> IF IsMatched(t) THEN "matched" ELSE tstatus[t]]
    /\ UNCHANGED fulfil

MarkMatched ==
    /\ tstatus' = [t \in Txs |-> IF IsMatched(t) THEN "matched" ELSE tstatus[t]]
    /\ fulfil' = [t \in Txs |-> IF IsMatched(t) THEN DepositOf(t) ELSE fulfil[t]]

\* Faulty variant: the second statement is missing.
UnpaidOrders == status

PaidOrders ==
    [o \in Orders |-> IF o \in MatchedOrders THEN "paid" ELSE status[o]]

\* Faulty variant: the other family's tables are left alone.
SupersededInFamily(d) ==
    \E m \in matches :
        row[m[2]].order = row[d].order /\ row[d].pair \in Family(tick) /\ d # m[2]

\* Deposits of a matched order go: in the tables of the other family all of
\* them, in this family those that differ from the deposit of some match.
Superseded(d) ==
    \E m \in matches :
        /\ row[m[2]].order = row[d].order
        /\ row[d].pair \in Family(tick) => d # m[2]

\* One transaction of four statements, none conditional on a status.
HandleMatchedTrans ==
    /\ pc = "handle"
    /\ MarkMatched
    /\ status' = PaidOrders
    /\ live' = {d \in live : ~Superseded(d)}
    /\ outbox' = outbox \cup {StatusEvent(o, "paid") : o \in MatchedOrders}
    /\ matches' = {}
    /\ pc' = "emit"
    /\ UNCHANGED <<row, old, handler, tick, found, oldIds, reported>>

\* The events go out one at a time, the unknown transfers first.
SendEvent(e) ==
    /\ pc = "emit"
    /\ e \in outbox
    /\ e \in UnknownEvents \/ outbox \cap UnknownEvents = {}
    /\ reported' = reported \cup {t \in Txs : e = UnknownEvent(t)}
    /\ IF outbox = {e}
         THEN WatcherIdle
         ELSE /\ outbox' = outbox \ {e}
              /\ UNCHANGED <<pc, tick, found, matches, oldIds>>
    /\ UNCHANGED <<orderVars, txVars, handler>>

\* A failed database call ends the tick and drops the events built so far.
FailTick ==
    /\ pc \notin {"idle", "emit"}
    /\ WatcherIdle
    /\ UNCHANGED <<orderVars, txVars, handler, reported>>

----------------------------------------------------------------------------
\* The process stops and starts again: only the database survives.
Restart ==
    /\ handler' = [c \in Callers |-> Idle]
    /\ WatcherIdle
    /\ UNCHANGED <<orderVars, txVars, reported>>

HandlerCall(c) ==
    \/ \E o \in Orders, p \in Pairs : CreatePaymentRead(c, o, p)
    \/ \E d \in Deposits : CreatePaymentInsert(c, d)
    \/ \E o \in Orders : CancelRead(c, o)
    \/ CancelCommit(c)
    \/ \E o \in Orders : MarkPaidRead(c, o)
    \/ MarkPaidUpdate(c)

HandlerStep(c) == HandlerCall(c) \/ Announce(c)

TransferStep ==
    \/ \E p \in Pairs : \E batch \in SUBSET {t \in Txs : TxPair[t] = p} :
            InsertTransfers(batch)
    \/ \E t \in Txs : ConfirmTransfer(t) \/ FailToConfirmTransfer(t)
    \/ \E t \in Txs : AgeTransfer(t)

WatcherCall ==
    \/ NoUnmatchedTransfer
    \/ GetTransfersUnmatched
    \/ GetOldUnmatchedTransferIds
    \/ NothingToDo
    \/ MarkTransfersNoMatchedDeposit
    \/ HandleMatchedTrans

WatcherWork == WatcherCall \/ \E e \in outbox : SendEvent(e)

Fault ==
    \/ \E c \in Callers : Abort(c)
    \/ FailTick
    \/ Restart

Work ==
    \/ \E o \in Orders : CreateOrder(o)
    \/ \E c \in Callers : HandlerStep(c)
    \/ TransferStep
    \/ \E p \in Pairs : GetDepositsForMatching(p)
    \/ WatcherWork

Next == Work \/ Fault

Spec == Init /\ [][Next]_vars

(***************************************************************************)
(* Fairness.  The pooling manager ticks every pair again and again that    *)
(* was listed when the process started, unless a reload came before its    *)
(* loops or deposits never pause; a database call that is made again and   *)
(* again does not fail every time: strong fairness of each call of a tick, *)
(* pair by pair.  Nothing is assumed of the callers, of the chains, or of  *)
(* faults.                                                                 *)
(***************************************************************************)
TickFairness(p) ==
    /\ SF_vars(GetDepositsForMatching(p))
    /\ SF_vars(tick = p /\ GetTransfersUnmatched)
    /\ SF_vars(tick = p /\ GetOldUnmatchedTransferIds)
    /\ SF_vars(tick = p /\ MarkTransfersNoMatchedDeposit)
    /\ SF_vars(tick = p /\ HandleMatchedTrans)

FairSpec ==
    /\ Spec
    /\ \A p \in Pairs : TickFairness(p)
    /\ WF_vars(WatcherWork)

----------------------------------------------------------------------------
TypeOK ==
    /\ status \in [Orders -> {"absent"} \cup OrderStatus]
    /\ row \in [Deposits -> Row \cup {None}]
    /\ live \subseteq Deposits
    /\ tstatus \in [Txs -> {"absent"} \cup TransferStatus]
    /\ fulfil \in [Txs -> Deposits \cup {None}]
    /\ old \subseteq Txs
    /\ handler \in [Callers -> Call \cup {Idle}]
    /\ pc \in {"idle", "transfers", "old", "mark", "handle", "emit"}
    /\ tick \in Pairs \cup {None}
    /\ found \subseteq Deposits
    /\ matches \subseteq Txs \X Deposits
    /\ oldIds \subseteq Txs
    /\ outbox \subseteq StatusEvents \cup UnknownEvents
    /\ reported \subseteq Txs

Settled(o) == status[o] \notin {"absent", "pending"}

\* The transfers that pay order o.
CreditedTo(o) == {t \in Txs : fulfil[t] # None /\ row[fulfil[t]].order = o}

\* No deposit is fulfilled by two transfers, however reads, writes, faults
\* and repeated syncs interleave.
NoDoubleCredit ==
    \A t, u \in Txs : fulfil[t] # None /\ fulfil[t] = fulfil[u] => t = u

\* A transfer is linked to a deposit exactly when it is matched, and then
\* the deposit is of the transfer's pair and asks for its amount.
CreditMatchesDeposit ==
    \A t \in Txs :
        /\ tstatus[t] = "matched" <=> fulfil[t] # None
        /\ fulfil[t] # None =>
             /\ Inserted(fulfil[t])
             /\ row[fulfil[t]].pair = TxPair[t]
             /\ SameKey(t, fulfil[t])

\* The order of a fulfilled deposit is settled, and stays so whatever the
\* handlers that read it earlier do.
CreditedOrderSettled ==
    \A t \in Txs : fulfil[t] # None => Settled(row[fulfil[t]].order)

\* A webhook event about an order, in the watcher or in a handler, is never
\* ahead of the database: the order is settled before it is announced.
AnnouncedOrderSettled ==
    /\ \A e \in outbox \cap StatusEvents : Settled(e.order)
    /\ \A c \in Callers :
            handler[c].at = "announce" => Settled(handler[c].event.order)

\* A matched transfer is never synced, marked or matched again.
MatchedStable ==
    [][\A t \in Txs : tstatus[t] = "matched" =>
            tstatus'[t] = "matched" /\ fulfil'[t] = fulfil[t]]_vars

\* All transfers that pay an order are credited by one transaction: once one
\* is, no later tick credits another to the same order.
OrderCreditedOnce ==
    [][\A o \in Orders : CreditedTo(o) # {} => CreditedTo(o)' = CreditedTo(o)]_vars

\* When an order's first transfer is credited, every other deposit of it goes,
\* in the tables of both families.
CleanupKeepsOnlyFulfilled ==
    [][\A o \in Orders : CreditedTo(o) = {} /\ CreditedTo(o)' # {} =>
          \A d \in live' : row[d].order = o => \E t \in Txs : fulfil'[t] = d]_vars

\* The ledger does not tell paid from cancelled.
Standing == [o \in Orders |-> CASE status[o] = "absent"  -> "absent"
                               [] status[o] = "pending" -> "open"
                               [] OTHER                 -> "settled"]

Ledger == INSTANCE PaymentLedger WITH
    standing <- Standing, slot <- row, credit <- fulfil

\* The order book implements the payment ledger.
LedgerSpec == Ledger!Spec

----------------------------------------------------------------------------
(***************************************************************************)
(* The inductive invariant: besides the properties, what the steps between *)
(* a read and the write that relies on it may count on.                    *)
(***************************************************************************)
RowsSound == \A d \in Deposits : Inserted(d) => status[row[d].order] # "absent"

LiveInserted == \A d \in live : Inserted(d)

HandlersSound ==
    \A c \in Callers : handler[c].at \in {"pay", "cancel", "mark_paid"} =>
        status[handler[c].order] # "absent"

\* What the watcher has read stays creditable: nobody else credits, a
\* deposit of a settled order included.
Creditable(d) == Inserted(d) /\ CreditedTo(row[d].order) = {}

FoundSound ==
    /\ pc # "transfers" => found = {}
    /\ \A d \in found : Creditable(d) /\ row[d].pair = tick

MatchesSound ==
    /\ pc \notin {"old", "mark", "handle"} => matches = {}
    /\ \A m, n \in matches : (m[1] = n[1] \/ m[2] = n[2]) => m = n
    /\ \A m \in matches :
         /\ fulfil[m[1]] = None
         /\ Creditable(m[2])
         /\ row[m[2]].pair = TxPair[m[1]]
         /\ SameKey(m[1], m[2])

OldSound ==
    /\ pc # "mark" => oldIds = {}
    /\ \A t \in oldIds : fulfil[t] = None

\* What every step of every program preserves.
IInv ==
    /\ TypeOK
    /\ NoDoubleCredit
    /\ CreditMatchesDeposit
    /\ CreditedOrderSettled
    /\ AnnouncedOrderSettled
    /\ RowsSound
    /\ LiveInserted
    /\ HandlersSound
    /\ FoundSound
    /\ MatchesSound
    /\ OldSound

Awaited(t) == \E d \in MatchableDeposits(TxPair[t]) : SameKey(t, d)

\* Older than an hour, marked, and in no match that is still to be credited.
\* Ticks look for transfers that wait for a match, so no tick looks at it again.
Stranded(t) == t \in old /\ tstatus[t] = "no_matched_deposit" /\ ~IsMatched(t)

\* A confirmed transfer that a pending deposit waits for is credited in the
\* end, unless the deposit ceases to wait.  The one exception is a stranded
\* transfer: a tick marks the old transfers before it credits the matches, the
\* transfers of its own matches among them, so a payment older than an hour is
\* lost when the transaction after the mark fails, or when its deposit comes
\* after the tick's read of the deposits.
MatchingProgresses ==
    \A t \in Txs :
        tstatus[t] = "waiting_for_match" /\ Awaited(t)
            ~> tstatus[t] = "matched" \/ Stranded(t) \/ ~Awaited(t)
=============================================================================
