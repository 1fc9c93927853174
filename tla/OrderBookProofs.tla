-------------------------- MODULE OrderBookProofs --------------------------
(***************************************************************************)
(* Theorems about the order book, for any numbers of orders, pairs,        *)
(* deposits, transfers and concurrent requests, and any amounts.           *)
(***************************************************************************)
EXTENDS OrderBook, TLAPS

\* The order and the pair in a handler's locals have their types.
LEMMA CallFields ==
    ASSUME TypeOK, NEW c \in Callers
    PROVE  /\ handler[c].at \in {"pay", "cancel", "mark_paid"}
                => handler[c].order \in Orders
           /\ handler[c].at = "pay" => handler[c].pair \in Pairs
           /\ handler[c].at = "announce" => handler[c].event \in StatusEvents
BY DEF TypeOK, Call, Idle

\* A match has a transfer and a deposit.
LEMMA MatchIsPair ==
    ASSUME TypeOK, NEW m \in matches
    PROVE  m[1] \in Txs /\ m[2] \in Deposits /\ m = <<m[1], m[2]>>
BY DEF TypeOK

\* A matched transfer has its deposit from one of the matches.
LEMMA DepositOfMatch ==
    ASSUME TypeOK, NEW t \in Txs, IsMatched(t)
    PROVE  \E m \in matches : m[1] = t /\ m[2] = DepositOf(t) /\ m[2] \in Deposits
<1>1. PICK m \in matches : m[1] = t
    BY DEF IsMatched
<1>2. (CHOOSE n \in matches : n[1] = t) \in matches
    BY <1>1
<1>3. (CHOOSE n \in matches : n[1] = t)[1] = t
    BY <1>1
<1> QED
    BY <1>2, <1>3, MatchIsPair DEF DepositOf

\* The empty tables and the idle tasks are of their types.
LEMMA TypeInit == Init => TypeOK
BY DEF Init, TypeOK

\* The handlers keep the types.
LEMMA TypeHandlers ==
    ASSUME TypeOK, NEW c \in Callers, HandlerStep(c)
    PROVE  TypeOK'
<1>1. ASSUME NEW o \in Orders, NEW p \in Pairs, CreatePaymentRead(c, o, p)
      PROVE  TypeOK'
    BY <1>1 DEF CreatePaymentRead, Await, TypeOK, Call, orderVars, txVars, watcherVars
<1>2. ASSUME NEW d \in Deposits, CreatePaymentInsert(c, d)
      PROVE  TypeOK'
    BY <1>2, CallFields DEF CreatePaymentInsert, TypeOK, Row, txVars, watcherVars
<1>3. ASSUME NEW o \in Orders, CancelRead(c, o)
      PROVE  TypeOK'
    BY <1>3 DEF CancelRead, Await, TypeOK, Call, orderVars, txVars, watcherVars
<1>4. CASE CancelCommit(c)
    BY <1>4, CallFields
    DEF CancelCommit, TypeOK, Call, StatusEvent, StatusEvents, OrderStatus, txVars, watcherVars
<1>5. ASSUME NEW o \in Orders, MarkPaidRead(c, o)
      PROVE  TypeOK'
    BY <1>5 DEF MarkPaidRead, Await, TypeOK, Call, orderVars, txVars, watcherVars
<1>6. CASE MarkPaidUpdate(c)
    BY <1>6, CallFields
    DEF MarkPaidUpdate, TypeOK, Call, StatusEvent, StatusEvents, OrderStatus, txVars, watcherVars
<1>7. CASE Announce(c)
    BY <1>7 DEF Announce, Await, TypeOK, orderVars, txVars, watcherVars
<1> QED
    BY <1>1, <1>2, <1>3, <1>4, <1>5, <1>6, <1>7 DEF HandlerStep, HandlerCall

\* Syncing, confirming and ageing transfers keep the types.
LEMMA TypeTransfers ==
    ASSUME TypeOK, TransferStep
    PROVE  TypeOK'
<1>1. ASSUME NEW batch, InsertTransfers(batch)
      PROVE  TypeOK'
    BY <1>1 DEF InsertTransfers, TypeOK, TransferStatus, orderVars, watcherVars
<1>2. ASSUME NEW t \in Txs, ConfirmTransfer(t) \/ FailToConfirmTransfer(t)
      PROVE  TypeOK'
    BY <1>2 DEF ConfirmTransfer, FailToConfirmTransfer, SettleConfirmation,
                TypeOK, TransferStatus, orderVars, watcherVars
<1>3. ASSUME NEW t \in Txs, AgeTransfer(t)
      PROVE  TypeOK'
    BY <1>3 DEF AgeTransfer, TypeOK, orderVars, watcherVars
<1> QED
    BY <1>1, <1>2, <1>3 DEF TransferStep

\* The rows of matched deposits are there: types alone are not inductive.
LEMMA TypeWatcher ==
    ASSUME TypeOK, MatchesSound, WatcherWork \/ \E p \in Pairs : GetDepositsForMatching(p)
    PROVE  TypeOK'
<1>1. ASSUME NEW p \in Pairs, GetDepositsForMatching(p)
      PROVE  TypeOK'
    BY <1>1 DEF GetDepositsForMatching, MatchableDeposits, TypeOK, orderVars, txVars
<1>2. CASE NoUnmatchedTransfer \/ NothingToDo
    BY <1>2 DEF NoUnmatchedTransfer, NothingToDo, WatcherIdle, TypeOK, orderVars, txVars
<1>3. CASE GetTransfersUnmatched
  <2>1. matches' \subseteq Txs \X Deposits
      BY <1>3 DEF GetTransfersUnmatched, Pairings, UnmatchedTransfers, TypeOK
  <2> QED
      BY <1>3, <2>1 DEF GetTransfersUnmatched, TypeOK, orderVars, txVars
<1>4. CASE GetOldUnmatchedTransferIds
    BY <1>4 DEF GetOldUnmatchedTransferIds, UnmatchedTransfers, TypeOK, orderVars, txVars
<1>5. CASE MarkTransfersNoMatchedDeposit
    BY <1>5 DEF MarkTransfersNoMatchedDeposit, UnknownEvent, UnknownEvents,
                TypeOK, TransferStatus, orderVars
<1>6. CASE HandleMatchedTrans
  <2>1. fulfil' \in [Txs -> Deposits \cup {None}]
      BY <1>6, DepositOfMatch DEF HandleMatchedTrans, MarkMatched, TypeOK
  <2>4. \A m \in matches : row[m[2]].order \in Orders
      BY MatchIsPair DEF MatchesSound, Creditable, Inserted, Row, TypeOK
  <2>2. outbox' \subseteq StatusEvents \cup UnknownEvents
      BY <1>6, <2>4
      DEF HandleMatchedTrans, MatchedOrders, StatusEvent, StatusEvents, OrderStatus, TypeOK
  <2>3. tstatus' \in [Txs -> {"absent"} \cup TransferStatus]
      BY <1>6 DEF HandleMatchedTrans, MarkMatched, TransferStatus, TypeOK
  <2> QED
      BY <1>6, <2>1, <2>2, <2>3
      DEF HandleMatchedTrans, PaidOrders, OrderStatus, TypeOK
<1>7. ASSUME NEW e \in outbox, SendEvent(e)
      PROVE  TypeOK'
    BY <1>7 DEF SendEvent, WatcherIdle, TypeOK, orderVars, txVars
<1> QED
    BY <1>1, <1>2, <1>3, <1>4, <1>5, <1>6, <1>7 DEF WatcherWork, WatcherCall

\* Every step keeps the types, given what the watcher has read.
LEMMA TypeStep ==
    ASSUME TypeOK, MatchesSound, [Next]_vars
    PROVE  TypeOK'
<1>1. ASSUME NEW o \in Orders, CreateOrder(o)
      PROVE  TypeOK'
    BY <1>1 DEF CreateOrder, TypeOK, OrderStatus, txVars, watcherVars
<1>2. ASSUME NEW c \in Callers, Abort(c)
      PROVE  TypeOK'
    BY <1>2 DEF Abort, Await, TypeOK, orderVars, txVars, watcherVars
<1>3. CASE FailTick \/ Restart
    BY <1>3 DEF FailTick, Restart, WatcherIdle, TypeOK, orderVars, txVars
<1>4. CASE UNCHANGED vars
    BY <1>4 DEF TypeOK, vars, orderVars, txVars, watcherVars
<1> QED
    BY <1>1, <1>2, <1>3, <1>4, TypeHandlers, TypeTransfers, TypeWatcher
    DEF Next, Work, Fault

----------------------------------------------------------------------------
(***************************************************************************)
(* The inductive invariant.  Money is what it says of the database alone.  *)
(***************************************************************************)
Money == NoDoubleCredit /\ CreditMatchesDeposit /\ CreditedOrderSettled

Reads == FoundSound /\ MatchesSound /\ OldSound

\* The invariant holds of the empty tables.
LEMMA IInvInit == Init => IInv
BY TypeInit
DEF Init, IInv, NoDoubleCredit, CreditMatchesDeposit, CreditedOrderSettled,
    AnnouncedOrderSettled, RowsSound, HandlersSound, FoundSound, MatchesSound,
    OldSound, LiveInserted, Inserted, Idle

\* A step that credits nothing, deletes no row and reopens no order keeps the
\* facts about credits.
LEMMA MoneyKept ==
    ASSUME IInv,
           UNCHANGED fulfil,
           \A d \in Deposits : Inserted(d) => row'[d] = row[d],
           \A o \in Orders : Settled(o) => Settled(o)',
           \A t \in Txs : tstatus'[t] = "matched" <=> tstatus[t] = "matched"
    PROVE  Money'
<1>1. \A t \in Txs : fulfil[t] # None => row'[fulfil[t]] = row[fulfil[t]]
    BY DEF IInv, CreditMatchesDeposit, TypeOK
<1>2. \A t \in Txs : fulfil[t] # None => row[fulfil[t]].order \in Orders
    BY DEF IInv, CreditMatchesDeposit, TypeOK, Inserted, Row
<1>3. CreditedOrderSettled'
    BY <1>1, <1>2 DEF IInv, CreditedOrderSettled
<1>4. NoDoubleCredit'
    BY DEF IInv, NoDoubleCredit
<1>5. CreditMatchesDeposit'
    BY <1>1 DEF IInv, CreditMatchesDeposit, Inserted, SameKey
<1> QED
    BY <1>3, <1>4, <1>5 DEF Money

\* Such a step takes nothing from what the watcher has read.
LEMMA CreditableKept ==
    ASSUME IInv,
           UNCHANGED fulfil,
           \A d \in Deposits : Inserted(d) => row'[d] = row[d],
           NEW d \in Deposits, Creditable(d)
    PROVE  Creditable(d)' /\ row'[d] = row[d]
<1>1. \A t \in Txs : fulfil[t] # None => row'[fulfil[t]] = row[fulfil[t]]
    BY DEF IInv, CreditMatchesDeposit, TypeOK
<1> QED
    BY <1>1 DEF Creditable, Inserted, CreditedTo

\* Nor does it take anything from the rest of the reads.
LEMMA ReadsKept ==
    ASSUME IInv,
           UNCHANGED <<fulfil, watcherVars>>,
           \A d \in Deposits : Inserted(d) => row'[d] = row[d]
    PROVE  Reads'
<1>1. FoundSound'
    BY CreditableKept DEF IInv, FoundSound, TypeOK, watcherVars
<1>2. ASSUME NEW m \in matches
      PROVE  Creditable(m[2])' /\ row'[m[2]] = row[m[2]]
    BY <1>2, CreditableKept, MatchIsPair DEF IInv, MatchesSound
<1>3. MatchesSound'
    BY <1>2 DEF IInv, MatchesSound, watcherVars, SameKey
<1>4. OldSound'
    BY DEF IInv, OldSound, watcherVars
<1> QED
    BY <1>1, <1>3, <1>4 DEF Reads

\* An idle watcher holds no reads.
LEMMA IdleReads == ASSUME WatcherIdle PROVE Reads'
BY DEF WatcherIdle, Reads, FoundSound, MatchesSound, OldSound

\* Only rows of the tables are deleted, and none is ever un-inserted.
LEMMA LiveKept ==
    ASSUME IInv, live' \subseteq live,
           \A d \in Deposits : Inserted(d) => row'[d] = row[d]
    PROVE  LiveInserted'
BY DEF IInv, LiveInserted, Inserted, TypeOK

\* What one step of a handler changes for everybody else.
LEMMA HandlerFrame ==
    ASSUME IInv, NEW c \in Callers, HandlerStep(c)
    PROVE  /\ UNCHANGED fulfil
           /\ UNCHANGED tstatus
           /\ UNCHANGED watcherVars
           /\ \A d \in Deposits : Inserted(d) => row'[d] = row[d]
           /\ \A o \in Orders : Settled(o) => Settled(o)'
           /\ \A o \in Orders : status[o] # "absent" => status'[o] # "absent"
           /\ \A b \in Callers : b # c => handler'[b] = handler[b]
BY DEF HandlerStep, HandlerCall, CreatePaymentRead, CreatePaymentInsert, CancelRead,
       CancelCommit, MarkPaidRead, MarkPaidUpdate, Announce, Await,
       orderVars, txVars, Settled, Inserted, IInv, TypeOK

\* No step of a handler disturbs the invariant.
LEMMA IInvHandlers ==
    ASSUME IInv, NEW c \in Callers, HandlerStep(c), TypeOK'
    PROVE  IInv'
<1>1. UNCHANGED fulfil /\ UNCHANGED tstatus /\ UNCHANGED watcherVars
    BY HandlerFrame
<1>2. \A d \in Deposits : Inserted(d) => row'[d] = row[d]
    BY HandlerFrame
<1>3. \A o \in Orders : Settled(o) => Settled(o)'
    BY HandlerFrame
<1>4. \A o \in Orders : status[o] # "absent" => status'[o] # "absent"
    BY HandlerFrame
<1>5. \A b \in Callers : b # c => handler'[b] = handler[b]
    BY HandlerFrame
<1>6. Money'
    BY <1>1, <1>2, <1>3, MoneyKept
<1>7. Reads'
    BY <1>1, <1>2, ReadsKept
<1>8. RowsSound'
  <2>1. ASSUME NEW d \in Deposits, ~Inserted(d), row'[d] # None
        PROVE  status'[row'[d].order] # "absent"
    <3>1. PICK e \in Deposits : CreatePaymentInsert(c, e)
        BY <2>1 DEF HandlerStep, HandlerCall, CreatePaymentRead, CancelRead, CancelCommit,
            MarkPaidRead, MarkPaidUpdate, Announce, Await, orderVars, Inserted
    <3>2. row'[d].order = handler[c].order /\ handler[c].at = "pay"
        BY <2>1, <3>1 DEF CreatePaymentInsert, Inserted, IInv, TypeOK
    <3> QED
        BY <3>1, <3>2 DEF CreatePaymentInsert, IInv, HandlersSound
  <2>2. ASSUME NEW d \in Deposits, Inserted(d)
        PROVE  status'[row'[d].order] # "absent"
      BY <1>2, <1>4, <2>2 DEF IInv, RowsSound, TypeOK, Row, Inserted
  <2> QED
      BY <2>1, <2>2 DEF RowsSound, Inserted
<1>9. HandlersSound'
  <2>1. handler'[c].at \in {"pay", "cancel", "mark_paid"} =>
            status'[handler'[c].order] # "absent"
    BY DEF HandlerStep, HandlerCall, CreatePaymentRead, CreatePaymentInsert, CancelRead,
           CancelCommit, MarkPaidRead, MarkPaidUpdate, Announce, Await,
           orderVars, Idle, IInv, TypeOK
  <2>2. ASSUME NEW b \in Callers, handler[b].at \in {"pay", "cancel", "mark_paid"}
        PROVE  status'[handler[b].order] # "absent"
      BY <1>4, <2>2, CallFields DEF HandlersSound, IInv
  <2> QED
      BY <1>5, <2>1, <2>2 DEF HandlersSound
<1>10. AnnouncedOrderSettled'
  <2>1. handler'[c].at = "announce" => Settled(handler[c].event.order)'
    <3>1. CASE CancelCommit(c)
        BY <3>1, CallFields DEF CancelCommit, Settled, StatusEvent, IInv, TypeOK
    <3>2. CASE MarkPaidUpdate(c)
        BY <3>2, CallFields DEF MarkPaidUpdate, Settled, StatusEvent, IInv, TypeOK
    <3>3. CASE ~CancelCommit(c) /\ ~MarkPaidUpdate(c)
        BY <3>3 DEF HandlerStep, HandlerCall, CreatePaymentRead, CreatePaymentInsert, CancelRead,
            MarkPaidRead, Announce, Await, Idle, IInv, TypeOK
    <3> QED
        BY <3>1, <3>2, <3>3
  <2>2. ASSUME NEW b \in Callers, b # c, handler[b].at = "announce"
        PROVE  Settled(handler[b].event.order)'
    <3>1. handler[b].event.order \in Orders /\ Settled(handler[b].event.order)
        BY <2>2, CallFields DEF AnnouncedOrderSettled, IInv, StatusEvents
    <3> QED
        BY <1>3, <1>5, <2>2, <3>1 DEF Settled
  <2>3. \A e \in outbox \cap StatusEvents : status'[e.order] \notin {"absent", "pending"}
      BY <1>3 DEF IInv, AnnouncedOrderSettled, StatusEvents, Settled
  <2> QED
      BY <1>1, <1>5, <2>1, <2>2, <2>3 DEF AnnouncedOrderSettled, Settled, watcherVars
<1>11. LiveInserted'
  <2>1. ASSUME NEW d \in Deposits, CreatePaymentInsert(c, d)
        PROVE  LiveInserted'
      BY <1>2, <2>1, ConstantsAssumption, CallFields
      DEF CreatePaymentInsert, IInv, LiveInserted, Inserted, TypeOK, Row
  <2>2. CASE \A d \in Deposits : ~CreatePaymentInsert(c, d)
    <3>1. live' \subseteq live
        BY <2>2 DEF HandlerStep, HandlerCall, CreatePaymentRead, CancelRead, CancelCommit,
            MarkPaidRead, MarkPaidUpdate, Announce, Await, orderVars
    <3> QED
        BY <1>2, <3>1, LiveKept
  <2> QED
      BY <2>1, <2>2
<1> QED
    BY <1>6, <1>7, <1>8, <1>9, <1>10, <1>11 DEF IInv, Money, Reads

\* Steps that leave the handlers' locals, the rows and the statuses alone.
LEMMA OrdersKept ==
    ASSUME IInv, UNCHANGED status, UNCHANGED row, UNCHANGED live, UNCHANGED handler,
           outbox' \cap StatusEvents \subseteq outbox
    PROVE  RowsSound' /\ LiveInserted' /\ HandlersSound' /\ AnnouncedOrderSettled'
BY DEF IInv, RowsSound, LiveInserted, HandlersSound, AnnouncedOrderSettled, Inserted, Settled

\* Neither does a step of a transfer.
LEMMA IInvTransfers ==
    ASSUME IInv, TransferStep, TypeOK'
    PROVE  IInv'
<1>1. UNCHANGED orderVars /\ UNCHANGED handler /\ UNCHANGED watcherVars /\ UNCHANGED fulfil
    BY DEF TransferStep, InsertTransfers, ConfirmTransfer, FailToConfirmTransfer,
           SettleConfirmation, AgeTransfer
<1>2. \A t \in Txs : tstatus'[t] = "matched" <=> tstatus[t] = "matched"
    BY DEF TransferStep, InsertTransfers, ConfirmTransfer, FailToConfirmTransfer,
           SettleConfirmation, AgeTransfer, IInv, TypeOK
<1>3. Money'
    BY <1>1, <1>2, MoneyKept DEF orderVars, Settled
<1>4. Reads'
    BY <1>1, ReadsKept DEF orderVars
<1> QED
    BY <1>1, <1>3, <1>4, OrdersKept DEF IInv, Money, Reads, orderVars, watcherVars

\* A new order has no deposit yet.
LEMMA IInvCreateOrder ==
    ASSUME IInv, NEW o \in Orders, CreateOrder(o), TypeOK'
    PROVE  IInv'
<1>1. \A q \in Orders : Settled(q) => Settled(q)'
    BY DEF CreateOrder, Settled, IInv, TypeOK
<1>8. \A q \in Orders : status[q] # "absent" => status'[q] # "absent"
    BY DEF CreateOrder, IInv, TypeOK
<1>2. UNCHANGED row /\ UNCHANGED live /\ UNCHANGED handler /\ UNCHANGED watcherVars
        /\ UNCHANGED fulfil /\ UNCHANGED tstatus
    BY DEF CreateOrder, txVars
<1>9. LiveInserted'
    BY <1>2, LiveKept
<1>3. Money'
    BY <1>1, <1>2, MoneyKept
<1>4. Reads'
    BY <1>2, ReadsKept
<1>5. RowsSound'
    BY <1>8, <1>2 DEF IInv, RowsSound, Inserted, TypeOK, Row
<1>6. HandlersSound'
    BY <1>8, <1>2, CallFields DEF IInv, HandlersSound
<1>7. AnnouncedOrderSettled'
    BY <1>1, <1>2, CallFields
    DEF IInv, AnnouncedOrderSettled, StatusEvents, Settled, watcherVars
<1> QED
    BY <1>3, <1>4, <1>5, <1>6, <1>7, <1>9 DEF IInv, Money, Reads

\* A handler that ends early, a tick that ends, a restart.
LEMMA IInvFault ==
    ASSUME IInv, Fault \/ NoUnmatchedTransfer \/ NothingToDo, TypeOK'
    PROVE  IInv'
<1>1. /\ UNCHANGED orderVars
      /\ UNCHANGED txVars
      /\ UNCHANGED watcherVars \/ WatcherIdle
    BY DEF Fault, Abort, Await, FailTick, Restart, NoUnmatchedTransfer, NothingToDo
<1>2. UNCHANGED status /\ UNCHANGED row /\ UNCHANGED fulfil /\ UNCHANGED tstatus
    BY <1>1 DEF orderVars, txVars
<1>3. Money'
    BY <1>2, MoneyKept DEF Settled
<1>4. Reads'
    BY <1>1, <1>2, ReadsKept, IdleReads
<1>5. \A c \in Callers : handler'[c] = handler[c] \/ handler'[c] = Idle
  <2>1. ASSUME NEW c \in Callers, Abort(c)
        PROVE  \A b \in Callers : handler'[b] = handler[b] \/ handler'[b] = Idle
      BY <2>1 DEF Abort, Await, IInv, TypeOK
  <2>2. CASE Restart
      BY <2>2 DEF Restart
  <2>3. CASE FailTick \/ NoUnmatchedTransfer \/ NothingToDo
      BY <2>3 DEF FailTick, NoUnmatchedTransfer, NothingToDo
  <2> QED
      BY <2>1, <2>2, <2>3 DEF Fault
<1>6. RowsSound'
    BY <1>2 DEF IInv, RowsSound, Inserted
<1>7. HandlersSound'
    BY <1>2, <1>5 DEF IInv, HandlersSound, Idle
<1>8. AnnouncedOrderSettled'
  <2>1. outbox' = outbox \/ outbox' = {}
      BY <1>1 DEF watcherVars, WatcherIdle
  <2> QED
      BY <1>2, <1>5, <2>1 DEF IInv, AnnouncedOrderSettled, Idle, Settled
<1>9. LiveInserted'
    BY <1>1, <1>2, LiveKept DEF orderVars
<1> QED
    BY <1>3, <1>4, <1>6, <1>7, <1>8, <1>9 DEF IInv, Money, Reads

----------------------------------------------------------------------------
(***************************************************************************)
(* The steps of a tick.                                                    *)
(***************************************************************************)

\* A deposit of a pending order is creditable: credited orders are settled.
LEMMA PendingCreditable ==
    ASSUME IInv, NEW d \in Deposits, Inserted(d), status[row[d].order] = "pending"
    PROVE  Creditable(d)
BY DEF IInv, CreditedOrderSettled, Creditable, CreditedTo, Settled

\* The deposits a tick reads are creditable.
LEMMA IInvGetDeposits ==
    ASSUME IInv, NEW p \in Pairs, GetDepositsForMatching(p), TypeOK'
    PROVE  IInv'
<1>1. UNCHANGED orderVars /\ UNCHANGED txVars /\ UNCHANGED handler /\ UNCHANGED outbox
    BY DEF GetDepositsForMatching
<1>2. Money'
    BY <1>1, MoneyKept DEF orderVars, txVars, Settled
<1>3. \A d \in MatchableDeposits(p) : Creditable(d) /\ row[d].pair = p
  <2>1. \A d \in live : Inserted(d)
      BY DEF IInv, LiveInserted
  <2> QED
      BY <2>1, PendingCreditable DEF MatchableDeposits, IInv, TypeOK
<1>4. FoundSound'
    BY <1>1, <1>3 DEF GetDepositsForMatching, FoundSound, Creditable, CreditedTo,
       Inserted, orderVars, txVars
<1>5. MatchesSound' /\ OldSound'
    BY <1>1 DEF GetDepositsForMatching, IInv, MatchesSound, OldSound
<1> QED
    BY <1>1, <1>2, <1>4, <1>5, OrdersKept DEF IInv, Money, orderVars

\* The merge join pairs deposits and transfers of one pair and one amount.
LEMMA IInvGetTransfers ==
    ASSUME IInv, GetTransfersUnmatched, TypeOK'
    PROVE  IInv'
<1>1. UNCHANGED orderVars /\ UNCHANGED txVars /\ UNCHANGED handler /\ UNCHANGED outbox
    BY DEF GetTransfersUnmatched
<1>2. Money'
    BY <1>1, MoneyKept DEF orderVars, txVars, Settled
<1>3. \A t \in UnmatchedTransfers(tick) : fulfil[t] = None /\ TxPair[t] = tick
    BY DEF UnmatchedTransfers, IInv, CreditMatchesDeposit
<1>4. \A d \in found : Creditable(d) /\ row[d].pair = tick
    BY DEF IInv, FoundSound
<1>5. /\ matches' \subseteq UnmatchedTransfers(tick) \X found
      /\ IsPairing(matches', UnmatchedTransfers(tick), found)
    BY DEF GetTransfersUnmatched, Pairings
<1>6. \A m \in matches' : /\ fulfil[m[1]] = None
                          /\ Creditable(m[2])
                          /\ row[m[2]].pair = TxPair[m[1]]
                          /\ SameKey(m[1], m[2])
    BY <1>3, <1>4, <1>5 DEF IsPairing
<1>7. MatchesSound'
    BY <1>1, <1>5, <1>6
    DEF GetTransfersUnmatched, MatchesSound, IsPairing, Creditable, CreditedTo,
        Inserted, SameKey, orderVars, txVars
<1>8. FoundSound' /\ OldSound'
    BY <1>1 DEF GetTransfersUnmatched, IInv, FoundSound, OldSound
<1> QED
    BY <1>1, <1>2, <1>7, <1>8, OrdersKept DEF IInv, Money, orderVars

\* Old transfers are read while they are unmatched.
LEMMA IInvGetOld ==
    ASSUME IInv, GetOldUnmatchedTransferIds, TypeOK'
    PROVE  IInv'
<1>1. UNCHANGED orderVars /\ UNCHANGED txVars /\ UNCHANGED handler
        /\ UNCHANGED outbox /\ UNCHANGED matches /\ UNCHANGED found
    BY DEF GetOldUnmatchedTransferIds
<1>2. Money'
    BY <1>1, MoneyKept DEF orderVars, txVars, Settled
<1>3. found = {} /\ pc = "old" /\ pc' \in {"mark", "handle"}
    BY DEF GetOldUnmatchedTransferIds, IInv, FoundSound
<1>4. FoundSound'
    BY <1>1, <1>3 DEF FoundSound
<1>5. MatchesSound'
    BY <1>1, <1>3 DEF IInv, MatchesSound, Creditable, CreditedTo, Inserted, SameKey,
       orderVars, txVars
<1>6. OldSound'
    BY <1>1 DEF GetOldUnmatchedTransferIds, UnmatchedTransfers, OldSound, IInv,
       CreditMatchesDeposit, txVars
<1> QED
    BY <1>1, <1>2, <1>4, <1>5, <1>6, OrdersKept DEF IInv, Money, orderVars

\* The update has no condition, but no transfer it marks has been matched:
\* only this task matches, and it does so after marking.
LEMMA IInvMark ==
    ASSUME IInv, MarkTransfersNoMatchedDeposit, TypeOK'
    PROVE  IInv'
<1>1. UNCHANGED orderVars /\ UNCHANGED fulfil /\ UNCHANGED handler
        /\ UNCHANGED matches /\ UNCHANGED found
    BY DEF MarkTransfersNoMatchedDeposit
<1>2. \A t \in Txs : tstatus'[t] = "matched" <=> tstatus[t] = "matched"
    BY DEF MarkTransfersNoMatchedDeposit, IInv, OldSound, CreditMatchesDeposit, TypeOK
<1>3. Money'
    BY <1>1, <1>2, MoneyKept DEF orderVars, Settled
<1>4. found = {} /\ pc = "mark" /\ pc' \in {"handle", "emit"}
    BY DEF MarkTransfersNoMatchedDeposit, IInv, FoundSound
<1>5. FoundSound' /\ OldSound'
    BY <1>1, <1>4 DEF MarkTransfersNoMatchedDeposit, FoundSound, OldSound
<1>6. MatchesSound'
    BY <1>1, <1>4 DEF MarkTransfersNoMatchedDeposit, IInv, MatchesSound, Creditable,
       CreditedTo, Inserted, SameKey, orderVars
<1>7. outbox' \cap StatusEvents \subseteq outbox
    BY DEF MarkTransfersNoMatchedDeposit, UnknownEvent, StatusEvents
<1> QED
    BY <1>1, <1>3, <1>5, <1>6, <1>7, OrdersKept DEF IInv, Money, orderVars

\* Sending an event leaves the rows alone.
LEMMA IInvSend ==
    ASSUME IInv, NEW e \in outbox, SendEvent(e), TypeOK'
    PROVE  IInv'
<1>1. UNCHANGED orderVars /\ UNCHANGED txVars /\ UNCHANGED handler
    BY DEF SendEvent
<1>2. Money'
    BY <1>1, MoneyKept DEF orderVars, txVars, Settled
<1>3. WatcherIdle \/ (UNCHANGED <<pc, tick, found, matches, oldIds>>)
    BY DEF SendEvent
<1>4. found = {} /\ matches = {} /\ oldIds = {} /\ pc = "emit"
    BY DEF SendEvent, IInv, FoundSound, MatchesSound, OldSound
<1>5. FoundSound' /\ MatchesSound' /\ OldSound'
    BY <1>3, <1>4 DEF WatcherIdle, FoundSound, MatchesSound, OldSound
<1>6. outbox' \subseteq outbox
    BY DEF SendEvent, WatcherIdle
<1> QED
    BY <1>1, <1>2, <1>5, <1>6, OrdersKept DEF IInv, Money, orderVars

\* What the transaction does to one transfer.
LEMMA HandleOne ==
    ASSUME IInv, HandleMatchedTrans, NEW t \in Txs
    PROVE  /\ ~IsMatched(t) => fulfil'[t] = fulfil[t] /\ tstatus'[t] = tstatus[t]
           /\ IsMatched(t) => /\ tstatus'[t] = "matched"
                              /\ fulfil'[t] \in Deposits
                              /\ fulfil[t] = None
                              /\ \E m \in matches : m[1] = t /\ m[2] = fulfil'[t]
<1>1. fulfil'[t] = IF IsMatched(t) THEN DepositOf(t) ELSE fulfil[t]
    BY DEF HandleMatchedTrans, MarkMatched
<1>2. tstatus'[t] = IF IsMatched(t) THEN "matched" ELSE tstatus[t]
    BY DEF HandleMatchedTrans, MarkMatched
<1>3. TypeOK /\ MatchesSound
    BY DEF IInv
<1> QED
    BY <1>1, <1>2, <1>3, DepositOfMatch DEF MatchesSound

\* The transaction credits its matches and nothing else.
LEMMA IInvHandle ==
    ASSUME IInv, HandleMatchedTrans, TypeOK'
    PROVE  IInv'
<1>1. UNCHANGED row /\ UNCHANGED handler /\ UNCHANGED found /\ UNCHANGED oldIds
    BY DEF HandleMatchedTrans
<1>2. TypeOK /\ MatchesSound /\ CreditMatchesDeposit /\ NoDoubleCredit
    BY DEF IInv
<1>3. \A m \in matches : row[m[2]].order \in Orders
    BY <1>2, MatchIsPair DEF MatchesSound, Creditable, Inserted, TypeOK, Row
<1>4. \A o \in Orders : /\ Settled(o) \/ o \in MatchedOrders => Settled(o)'
                        /\ status[o] # "absent" => status'[o] # "absent"
    BY DEF HandleMatchedTrans, PaidOrders, Settled
<1>5. NoDoubleCredit'
  <2>1. SUFFICES ASSUME NEW t \in Txs, NEW u \in Txs,
                        fulfil'[t] # None, fulfil'[t] = fulfil'[u]
                 PROVE  t = u
      BY DEF NoDoubleCredit
  <2>2. CASE IsMatched(t) /\ IsMatched(u)
      BY <1>2, <2>1, <2>2, HandleOne DEF MatchesSound
  <2>3. ASSUME NEW x \in Txs, NEW y \in Txs, IsMatched(x), ~IsMatched(y),
               fulfil'[x] = fulfil'[y]
        PROVE  FALSE
    <3>1. PICK m \in matches : m[2] = fulfil[y] /\ m[2] \in Deposits
        BY <2>3, HandleOne
    <3>2. CreditedTo(row[m[2]].order) = {}
        BY <1>2 DEF MatchesSound, Creditable
    <3> QED
        BY <3>1, <3>2, ConstantsAssumption DEF CreditedTo
  <2>4. CASE ~IsMatched(t) /\ ~IsMatched(u)
      BY <1>2, <2>1, <2>4, HandleOne DEF NoDoubleCredit
  <2> QED
      BY <2>1, <2>2, <2>3, <2>4
<1>6. CreditMatchesDeposit'
  <2>1. ASSUME NEW t \in Txs, IsMatched(t)
        PROVE  /\ tstatus'[t] = "matched" /\ fulfil'[t] # None
               /\ Inserted(fulfil'[t]) /\ row[fulfil'[t]].pair = TxPair[t]
               /\ SameKey(t, fulfil'[t])
      BY <1>2, <2>1, HandleOne, ConstantsAssumption DEF MatchesSound, Creditable
  <2> QED
      BY <1>1, <1>2, <2>1, HandleOne DEF CreditMatchesDeposit, Inserted, SameKey
<1>7. CreditedOrderSettled'
  <2>1. ASSUME NEW t \in Txs, IsMatched(t)
        PROVE  row[fulfil'[t]].order \in MatchedOrders
      BY <2>1, HandleOne DEF MatchedOrders
  <2>2. ASSUME NEW t \in Txs, ~IsMatched(t), fulfil[t] # None
        PROVE  row[fulfil[t]].order \in Orders /\ Settled(row[fulfil[t]].order)
      BY <2>2, <1>2
      DEF IInv, CreditedOrderSettled, CreditMatchesDeposit, Inserted, TypeOK, Row
  <2>3. MatchedOrders \subseteq Orders
      BY <1>3 DEF MatchedOrders
  <2>4. ASSUME NEW t \in Txs, fulfil'[t] # None
        PROVE  status'[row[fulfil'[t]].order] \notin {"absent", "pending"}
      BY <1>4, <2>1, <2>2, <2>3, <2>4, HandleOne DEF Settled
  <2> QED
      BY <1>1, <2>4 DEF CreditedOrderSettled, Settled
<1>8. RowsSound' /\ HandlersSound' /\ LiveInserted'
  <2>1. LiveInserted'
      BY <1>1, LiveKept DEF HandleMatchedTrans
  <2>2. RowsSound'
      BY <1>1, <1>2, <1>4 DEF IInv, RowsSound, Inserted, TypeOK, Row
  <2>3. HandlersSound'
      BY <1>1, <1>2, <1>4, CallFields DEF IInv, HandlersSound
  <2> QED
      BY <2>1, <2>2, <2>3
<1>9. AnnouncedOrderSettled'
  <2>1. ASSUME NEW e \in outbox' \cap StatusEvents
        PROVE  status'[e.order] \notin {"absent", "pending"}
    <3>1. CASE e \in outbox
        BY <1>4, <2>1, <3>1 DEF IInv, AnnouncedOrderSettled, StatusEvents, Settled
    <3>2. CASE e \notin outbox
      <4>1. PICK o \in MatchedOrders : e = StatusEvent(o, "paid")
          BY <2>1, <3>2 DEF HandleMatchedTrans
      <4>2. o \in Orders
          BY <1>3 DEF MatchedOrders
      <4> QED
          BY <1>4, <4>1, <4>2 DEF StatusEvent, Settled
    <3> QED
        BY <3>1, <3>2
  <2>2. ASSUME NEW c \in Callers, handler[c].at = "announce"
        PROVE  status'[handler[c].event.order] \notin {"absent", "pending"}
    <3>1. handler[c].event.order \in Orders /\ Settled(handler[c].event.order)
        BY <1>2, <2>2, CallFields DEF IInv, AnnouncedOrderSettled, StatusEvents
    <3> QED
        BY <1>4, <3>1 DEF Settled
  <2> QED
      BY <1>1, <2>1, <2>2 DEF AnnouncedOrderSettled, Settled
<1>10. FoundSound' /\ MatchesSound' /\ OldSound'
  <2>1. found = {} /\ oldIds = {} /\ matches' = {} /\ pc' = "emit"
      BY DEF HandleMatchedTrans, IInv, FoundSound, OldSound
  <2> QED
      BY <1>1, <2>1 DEF FoundSound, MatchesSound, OldSound
<1> QED
    BY <1>5, <1>6, <1>7, <1>8, <1>9, <1>10 DEF IInv

\* Every step of the specification keeps the invariant.
LEMMA IInvStep == IInv /\ [Next]_vars => IInv'
<1> SUFFICES ASSUME IInv, [Next]_vars PROVE IInv'
    OBVIOUS
<1>1. TypeOK'
    BY TypeStep DEF IInv
<1>2. CASE UNCHANGED vars
    BY <1>1, <1>2, MoneyKept, ReadsKept, OrdersKept
    DEF IInv, Money, Reads, vars, orderVars, txVars, watcherVars, Settled
<1>3. CASE WatcherWork
    BY <1>1, <1>3, IInvFault, IInvGetTransfers, IInvGetOld, IInvMark, IInvHandle, IInvSend
    DEF WatcherWork, WatcherCall
<1> QED
    BY <1>1, <1>2, <1>3, IInvCreateOrder, IInvHandlers, IInvTransfers,
       IInvGetDeposits, IInvFault
    DEF Next, Work

\* The strengthened invariant holds in every reachable state: what a tick has
\* read stays creditable until its transaction, whatever the handlers do.
THEOREM Invariance == Spec => []IInv
BY IInvInit, IInvStep, PTL DEF Spec

\* Every variable keeps its type.
THEOREM TypeCorrect == Spec => []TypeOK
<1>1. IInv => TypeOK
    BY DEF IInv
<1> QED
    BY <1>1, Invariance, PTL

\* No deposit is ever fulfilled by two transfers.
THEOREM NoDoubleCreditHolds == Spec => []NoDoubleCredit
<1>1. IInv => NoDoubleCredit
    BY DEF IInv
<1> QED
    BY <1>1, Invariance, PTL

\* A transfer only ever fulfils a deposit of its own pair and amount.
THEOREM CreditMatchesDepositHolds == Spec => []CreditMatchesDeposit
<1>1. IInv => CreditMatchesDeposit
    BY DEF IInv
<1> QED
    BY <1>1, Invariance, PTL

\* The order of a fulfilled deposit is settled, and stays settled.
THEOREM CreditedOrderSettledHolds == Spec => []CreditedOrderSettled
<1>1. IInv => CreditedOrderSettled
    BY DEF IInv
<1> QED
    BY <1>1, Invariance, PTL

\* A webhook event is never ahead of the database.
THEOREM AnnouncedOrderSettledHolds == Spec => []AnnouncedOrderSettled
<1>1. IInv => AnnouncedOrderSettled
    BY DEF IInv
<1> QED
    BY <1>1, Invariance, PTL

----------------------------------------------------------------------------
(***************************************************************************)
(* Steps.                                                                  *)
(***************************************************************************)

\* Only the watcher's transaction writes a fulfillment id, and no step but
\* an insert under a fresh id writes a deposit row.
LEMMA OnlyHandleCredits ==
    ASSUME IInv, [Next]_vars, ~HandleMatchedTrans
    PROVE  /\ UNCHANGED fulfil
           /\ \A d \in Deposits : Inserted(d) => row'[d] = row[d]
           /\ \A t \in Txs : tstatus[t] = "matched" => tstatus'[t] = "matched"
<1>1. ASSUME NEW c \in Callers, HandlerStep(c)
      PROVE  /\ UNCHANGED fulfil
             /\ \A d \in Deposits : Inserted(d) => row'[d] = row[d]
             /\ \A t \in Txs : tstatus[t] = "matched" => tstatus'[t] = "matched"
    BY <1>1, HandlerFrame
<1>2. CASE MarkTransfersNoMatchedDeposit
    BY <1>2 DEF MarkTransfersNoMatchedDeposit, IInv, OldSound, CreditMatchesDeposit,
       TypeOK, orderVars
<1>3. CASE TransferStep
    BY <1>3 DEF TransferStep, InsertTransfers, ConfirmTransfer, FailToConfirmTransfer,
       SettleConfirmation, AgeTransfer, IInv, TypeOK, orderVars
<1>4. ASSUME NEW o \in Orders, CreateOrder(o)
      PROVE  UNCHANGED fulfil /\ UNCHANGED row /\ UNCHANGED tstatus
    BY <1>4 DEF CreateOrder, txVars
<1>5. CASE Fault
    BY <1>5 DEF Fault, Abort, Await, FailTick, Restart, orderVars, txVars
<1>6. ASSUME NEW p \in Pairs, GetDepositsForMatching(p)
      PROVE  UNCHANGED fulfil /\ UNCHANGED row /\ UNCHANGED tstatus
    BY <1>6 DEF GetDepositsForMatching, orderVars, txVars
<1>7. CASE WatcherWork /\ ~MarkTransfersNoMatchedDeposit
    BY <1>7 DEF WatcherWork, WatcherCall, NoUnmatchedTransfer, GetTransfersUnmatched,
       GetOldUnmatchedTransferIds, NothingToDo, SendEvent, orderVars, txVars
<1>8. CASE UNCHANGED vars
    BY <1>8 DEF vars, orderVars, txVars
<1> QED
    BY <1>1, <1>2, <1>3, <1>4, <1>5, <1>6, <1>7, <1>8 DEF Next, Work

\* What a matched transfer says stays true for ever.
THEOREM MatchedStableHolds == Spec => MatchedStable
<1>1. ASSUME IInv, [Next]_vars
      PROVE  [\A t \in Txs : tstatus[t] = "matched" =>
                tstatus'[t] = "matched" /\ fulfil'[t] = fulfil[t]]_vars
  <2>1. CASE HandleMatchedTrans
      BY <1>1, <2>1, HandleOne DEF IInv, CreditMatchesDeposit
  <2> QED
      BY <1>1, <2>1, OnlyHandleCredits
<1> QED
    BY <1>1, Invariance, PTL DEF Spec, MatchedStable

\* Once a transfer is credited to an order, no step credits another to it or
\* takes the credit away.
LEMMA CreditsStay ==
    ASSUME IInv, [Next]_vars, NEW o \in Orders, CreditedTo(o) # {}
    PROVE  CreditedTo(o)' = CreditedTo(o)
<1>1. CASE HandleMatchedTrans
  <2>1. UNCHANGED row
      BY <1>1 DEF HandleMatchedTrans
  <2>2. \A m \in matches : row[m[2]].order # o
      BY DEF IInv, MatchesSound, Creditable
  <2>3. ASSUME NEW t \in Txs
        PROVE  t \in CreditedTo(o)' <=> t \in CreditedTo(o)
    <3>1. CASE IsMatched(t)
        BY <1>1, <2>1, <2>2, <3>1, HandleOne DEF CreditedTo
    <3>2. CASE ~IsMatched(t)
        BY <1>1, <2>1, <3>2, HandleOne DEF CreditedTo
    <3> QED
        BY <3>1, <3>2
  <2> QED
      BY <2>3 DEF CreditedTo
<1>2. CASE ~HandleMatchedTrans
  <2>1. UNCHANGED fulfil /\ \A d \in Deposits : Inserted(d) => row'[d] = row[d]
      BY <1>2, OnlyHandleCredits
  <2>2. \A t \in Txs : fulfil[t] # None => row'[fulfil[t]] = row[fulfil[t]]
      BY <2>1 DEF IInv, CreditMatchesDeposit, TypeOK
  <2> QED
      BY <2>1, <2>2 DEF CreditedTo
<1> QED
    BY <1>1, <1>2

\* An order is credited by one transaction at most.
THEOREM OrderCreditedOnceHolds == Spec => OrderCreditedOnce
<1>1. ASSUME IInv, [Next]_vars
      PROVE  [\A o \in Orders : CreditedTo(o) # {} => CreditedTo(o)' = CreditedTo(o)]_vars
    BY <1>1, CreditsStay
<1> QED
    BY <1>1, Invariance, PTL DEF Spec, OrderCreditedOnce

\* Two matches of one transfer are the same match.
LEMMA DepositOfUnique ==
    ASSUME IInv, NEW m \in matches
    PROVE  IsMatched(m[1]) /\ DepositOf(m[1]) = m[2] /\ m[1] \in Txs
<1>1. TypeOK /\ MatchesSound
    BY DEF IInv
<1>2. IsMatched(m[1]) /\ m[1] \in Txs
    BY <1>1, MatchIsPair DEF IsMatched
<1>3. PICK n \in matches : n[1] = m[1] /\ n[2] = DepositOf(m[1])
    BY <1>1, <1>2, DepositOfMatch
<1> QED
    BY <1>1, <1>2, <1>3 DEF MatchesSound

\* A matched order has a transfer credited to it when the transaction is done.
LEMMA MatchedIsCredited ==
    ASSUME IInv, HandleMatchedTrans, NEW o \in MatchedOrders
    PROVE  o \in Orders /\ CreditedTo(o)' # {}
<1>1. PICK m \in matches : row[m[2]].order = o
    BY DEF MatchedOrders
<1>2. IsMatched(m[1]) /\ DepositOf(m[1]) = m[2] /\ m[1] \in Txs
    BY DepositOfUnique
<1>3. fulfil'[m[1]] = m[2] /\ row' = row
    BY <1>2 DEF HandleMatchedTrans, MarkMatched
<1>4. m[2] \in Deposits /\ row[m[2]] \in Row
    BY MatchIsPair DEF IInv, MatchesSound, Creditable, Inserted, TypeOK
<1> QED
    BY <1>1, <1>2, <1>3, <1>4, ConstantsAssumption DEF CreditedTo, Row

\* A settled order stays settled, and an order becomes paid by mark_paid or by
\* the watcher's transaction.
LEMMA StatusSteps ==
    ASSUME IInv, [Next]_vars, NEW o \in Orders
    PROVE  /\ Settled(o) => Settled(o)'
           /\ status'[o] = "paid" =>
                \/ status[o] = "paid"
                \/ \E c \in Callers : MarkPaidUpdate(c) /\ handler[c].order = o
                \/ HandleMatchedTrans /\ o \in MatchedOrders
<1>1. CASE HandleMatchedTrans
    BY <1>1 DEF HandleMatchedTrans, PaidOrders, Settled
<1>2. ASSUME NEW q \in Orders, CreateOrder(q)
      PROVE  (Settled(o) => Settled(o)') /\ status'[o] \in {status[o], "pending"}
    BY <1>2 DEF CreateOrder, Settled, IInv, TypeOK
<1>3. ASSUME NEW c \in Callers, HandlerStep(c)
      PROVE  /\ Settled(o) => Settled(o)'
             /\ \/ status'[o] \in {status[o], "cancelled"}
                \/ MarkPaidUpdate(c) /\ handler[c].order = o
  <2>1. CASE MarkPaidUpdate(c)
      BY <2>1 DEF MarkPaidUpdate, Settled, IInv, TypeOK
  <2>2. CASE CancelCommit(c)
      BY <2>2 DEF CancelCommit, Settled, IInv, TypeOK
  <2>3. CASE ~MarkPaidUpdate(c) /\ ~CancelCommit(c)
      BY <1>3, <2>3 DEF HandlerStep, HandlerCall, CreatePaymentRead, CreatePaymentInsert,
         CancelRead, MarkPaidRead, Announce, Await, orderVars, Settled
  <2> QED
      BY <2>1, <2>2, <2>3
<1>4. CASE TransferStep \/ (\E p \in Pairs : GetDepositsForMatching(p))
             \/ Fault \/ UNCHANGED vars \/ (WatcherWork /\ ~HandleMatchedTrans)
  <2>1. UNCHANGED status
      BY <1>4 DEF TransferStep, InsertTransfers, ConfirmTransfer, FailToConfirmTransfer,
         SettleConfirmation, AgeTransfer, GetDepositsForMatching, Fault, Abort, Await,
         FailTick, Restart, WatcherWork, WatcherCall, NoUnmatchedTransfer,
         GetTransfersUnmatched, GetOldUnmatchedTransferIds, NothingToDo,
         MarkTransfersNoMatchedDeposit, SendEvent, vars, orderVars, txVars
  <2> QED
      BY <2>1 DEF Settled
<1> QED
    BY <1>1, <1>2, <1>3, <1>4 DEF Next, Work

\* The transaction leaves a matched order no deposit but the fulfilled one.
THEOREM CleanupKeepsOnlyFulfilledHolds == Spec => CleanupKeepsOnlyFulfilled
<1>1. ASSUME IInv, [Next]_vars, NEW o \in Orders,
             CreditedTo(o) = {}, CreditedTo(o)' # {},
             NEW d \in live', row[d].order = o
      PROVE  \E t \in Txs : fulfil'[t] = d
  <2>1. HandleMatchedTrans
    <3>1. SUFFICES ASSUME ~HandleMatchedTrans PROVE FALSE
        OBVIOUS
    <3>2. UNCHANGED fulfil /\ \A e \in Deposits : Inserted(e) => row'[e] = row[e]
        BY <1>1, <3>1, OnlyHandleCredits
    <3>3. \A t \in Txs : fulfil[t] # None => row'[fulfil[t]] = row[fulfil[t]]
        BY <1>1, <3>2 DEF IInv, CreditMatchesDeposit, TypeOK
    <3> QED
        BY <1>1, <3>2, <3>3 DEF CreditedTo
  <2>2. PICK t \in Txs : fulfil'[t] # None /\ row'[fulfil'[t]].order = o
      BY <1>1 DEF CreditedTo
  <2>3. IsMatched(t)
      BY <1>1, <2>1, <2>2, HandleOne DEF HandleMatchedTrans, CreditedTo
  <2>4. PICK m \in matches : m[1] = t /\ row[m[2]].order = o
      BY <1>1, <2>1, <2>2, <2>3, HandleOne DEF HandleMatchedTrans
  <2>5. ~Superseded(d)
      BY <1>1, <2>1 DEF HandleMatchedTrans
  <2>6. d = m[2]
      BY <1>1, <2>4, <2>5 DEF Superseded
  <2>7. fulfil'[t] = m[2]
      BY <1>1, <2>1, <2>3, <2>4, DepositOfUnique DEF HandleMatchedTrans, MarkMatched
  <2> QED
      BY <2>6, <2>7
<1>2. ASSUME IInv, [Next]_vars
      PROVE  [\A o \in Orders : CreditedTo(o) = {} /\ CreditedTo(o)' # {} =>
                \A d \in live' : row[d].order = o => \E t \in Txs : fulfil'[t] = d]_vars
    BY <1>1, <1>2
<1> QED
    BY <1>2, Invariance, PTL DEF Spec, CleanupKeepsOnlyFulfilled

----------------------------------------------------------------------------
(***************************************************************************)
(* Refinement of the payment ledger.                                       *)
(***************************************************************************)

\* What the mapping makes of a status.
LEMMA StandingType ==
    ASSUME IInv, NEW o \in Orders
    PROVE  /\ Standing[o] = "absent" <=> status[o] = "absent"
           /\ Standing[o] = "open" <=> status[o] = "pending"
           /\ Standing[o] = "settled" <=> Settled(o)
           /\ Standing[o] \in {"absent", "open", "settled"}
BY DEF Standing, Settled

\* The empty tables are the empty ledger.
LEMMA LedgerInit == Init => Ledger!Init
BY DEF Init, Ledger!Init, Standing

\* A step that keeps all standings, rows and credits is a stutter.
LEMMA LedgerStutter ==
    ASSUME UNCHANGED status, UNCHANGED row, UNCHANGED fulfil
    PROVE  UNCHANGED Ledger!ledgerVars
BY DEF Ledger!ledgerVars, Standing

\* Cancelling or force-marking: settles an open order, or changes nothing.
LEMMA LedgerSettle ==
    ASSUME IInv, UNCHANGED row, UNCHANGED fulfil,
           NEW o \in Orders, status[o] # "absent",
           NEW s \in {"paid", "cancelled"}, status' = [status EXCEPT ![o] = s]
    PROVE  Ledger!Settle(o) \/ UNCHANGED Ledger!ledgerVars
<1>1. status \in [Orders -> {"absent"} \cup OrderStatus]
    BY DEF IInv, TypeOK
<1>2. Standing' = [Standing EXCEPT ![o] = "settled"]
    BY <1>1 DEF Standing
<1>3. CASE status[o] = "pending"
    BY <1>2, <1>3, StandingType DEF Ledger!Settle
<1>4. CASE status[o] # "pending"
  <2>1. Standing' = Standing
      BY <1>1, <1>2, <1>4 DEF Standing
  <2> QED
      BY <2>1 DEF Ledger!ledgerVars
<1> QED
    BY <1>3, <1>4

\* A deposit row is a slot offered on an order that exists.
LEMMA LedgerOffer ==
    ASSUME IInv, NEW c \in Callers, NEW d \in Deposits, CreatePaymentInsert(c, d)
    PROVE  \E o \in Orders, p \in Pairs : Ledger!Offer(d, o, p)
<1>1. handler[c].order \in Orders /\ handler[c].pair \in Pairs
    BY CallFields DEF CreatePaymentInsert, IInv
<1>2. status[handler[c].order] # "absent"
    BY DEF CreatePaymentInsert, IInv, HandlersSound
<1>3. Standing[handler[c].order] # "absent"
    BY <1>1, <1>2, StandingType
<1>4. Ledger!Offer(d, handler[c].order, handler[c].pair)
    BY <1>3 DEF CreatePaymentInsert, Ledger!Offer, Inserted, Standing, txVars
<1> QED
    BY <1>1, <1>4

\* The watcher's transaction credits its matches as one batch.
LEMMA LedgerCredit ==
    ASSUME IInv, HandleMatchedTrans
    PROVE  \/ \E batch \in SUBSET (Txs \X Deposits) : Ledger!CreditBatch(batch)
           \/ UNCHANGED Ledger!ledgerVars
<1>1. UNCHANGED row /\ status' = PaidOrders
        /\ fulfil' = [t \in Txs |-> IF IsMatched(t) THEN DepositOf(t) ELSE fulfil[t]]
    BY DEF HandleMatchedTrans, MarkMatched
<1>2. TypeOK /\ MatchesSound /\ matches \subseteq Txs \X Deposits
    BY DEF IInv, TypeOK
<1>3. CASE matches = {}
  <2>1. status' = status /\ fulfil' = fulfil
      BY <1>1, <1>2, <1>3 DEF PaidOrders, MatchedOrders, IsMatched, TypeOK
  <2> QED
      BY <1>1, <2>1, LedgerStutter
<1>4. CASE matches # {}
  <2>1. ASSUME NEW m \in matches
        PROVE  /\ fulfil[m[1]] = None
               /\ row[m[2]] # None
               /\ row[m[2]].pair = TxPair[m[1]]
               /\ Amount[row[m[2]].order] = TxValue[m[1]]
               /\ Standing[row[m[2]].order] # "absent"
               /\ Ledger!CreditedTo(row[m[2]].order) = {}
    <3>1. fulfil[m[1]] = None /\ Creditable(m[2])
            /\ row[m[2]].pair = TxPair[m[1]] /\ SameKey(m[1], m[2])
        BY <1>2 DEF MatchesSound
    <3>2. m[2] \in Deposits /\ row[m[2]].order \in Orders
        BY <1>2, <3>1, MatchIsPair DEF TypeOK, Creditable, Inserted, Row
    <3>3. status[row[m[2]].order] # "absent"
        BY <3>1, <3>2 DEF IInv, RowsSound, Creditable
    <3>4. Standing[row[m[2]].order] # "absent"
        BY <3>2, <3>3, StandingType
    <3> QED
        BY <3>1, <3>4 DEF Creditable, Inserted, SameKey, CreditedTo, Ledger!CreditedTo
  <2>2. \A m, n \in matches : (m[1] = n[1] \/ m[2] = n[2]) => m = n
      BY <1>2 DEF MatchesSound
  <2>3. fulfil' = [t \in Txs |-> IF \E m \in matches : m[1] = t
                      THEN (CHOOSE m \in matches : m[1] = t)[2] ELSE fulfil[t]]
      BY <1>1 DEF IsMatched, DepositOf
  <2>4. ASSUME NEW o \in Orders
        PROVE  Standing'[o] = IF \E m \in matches : row[m[2]].order = o
                                THEN "settled" ELSE Standing[o]
    <3>1. o \in MatchedOrders <=> \E m \in matches : row[m[2]].order = o
        BY DEF MatchedOrders
    <3> QED
        BY <1>1, <3>1 DEF Standing, PaidOrders
  <2>5. Standing' = [o \in Orders |-> IF \E m \in matches : row[m[2]].order = o
                        THEN "settled" ELSE Standing[o]]
      BY <2>4 DEF Standing
  <2>6. Ledger!CreditBatch(matches)
      BY <1>1, <1>4, <2>1, <2>2, <2>3, <2>5 DEF Ledger!CreditBatch
  <2> QED
      BY <1>2, <2>6
<1> QED
    BY <1>3, <1>4

\* Every step of the order book is a step of the ledger or a stutter.
LEMMA LedgerStep ==
    ASSUME IInv, [Next]_vars
    PROVE  [Ledger!Next]_(Ledger!ledgerVars)
<1>1. ASSUME NEW o \in Orders, CreateOrder(o)
      PROVE  Ledger!Open(o)
  <2>1. Standing' = [Standing EXCEPT ![o] = "open"]
      BY <1>1 DEF CreateOrder, Standing, IInv, TypeOK
  <2> QED
      BY <1>1, <2>1, StandingType DEF CreateOrder, Ledger!Open, txVars
<1>2. ASSUME NEW c \in Callers, HandlerStep(c)
      PROVE  [Ledger!Next]_(Ledger!ledgerVars)
  <2>1. ASSUME NEW d \in Deposits, CreatePaymentInsert(c, d)
        PROVE  Ledger!Next
      BY <2>1, LedgerOffer DEF Ledger!Next
  <2>2. CASE CancelCommit(c) \/ MarkPaidUpdate(c)
    <3>1. handler[c].order \in Orders /\ status[handler[c].order] # "absent"
        BY <2>2, CallFields DEF CancelCommit, MarkPaidUpdate, IInv, HandlersSound
    <3>2. PICK s \in {"paid", "cancelled"} : status' = [status EXCEPT ![handler[c].order] = s]
        BY <2>2 DEF CancelCommit, MarkPaidUpdate
    <3>3. UNCHANGED row /\ UNCHANGED fulfil
        BY <2>2 DEF CancelCommit, MarkPaidUpdate, txVars
    <3> QED
        BY <3>1, <3>2, <3>3, LedgerSettle DEF Ledger!Next
  <2>3. CASE \/ \E o \in Orders, p \in Pairs : CreatePaymentRead(c, o, p)
             \/ \E o \in Orders : CancelRead(c, o) \/ MarkPaidRead(c, o)
             \/ Announce(c)
      BY <2>3, LedgerStutter
      DEF CreatePaymentRead, CancelRead, MarkPaidRead, Announce, Await, orderVars, txVars
  <2> QED
      BY <1>2, <2>1, <2>2, <2>3 DEF HandlerStep, HandlerCall
<1>3. CASE TransferStep \/ (\E p \in Pairs : GetDepositsForMatching(p))
             \/ Fault \/ UNCHANGED vars
  <2>1. UNCHANGED status /\ UNCHANGED row /\ UNCHANGED fulfil
      BY <1>3 DEF TransferStep, InsertTransfers, ConfirmTransfer, FailToConfirmTransfer,
         SettleConfirmation, AgeTransfer, GetDepositsForMatching, Fault, Abort, Await,
         FailTick, Restart, vars, orderVars, txVars
  <2> QED
      BY <2>1, LedgerStutter
<1>4. CASE WatcherWork /\ ~HandleMatchedTrans
  <2>1. UNCHANGED status /\ UNCHANGED row /\ UNCHANGED fulfil
      BY <1>4 DEF WatcherWork, WatcherCall, NoUnmatchedTransfer, GetTransfersUnmatched,
         GetOldUnmatchedTransferIds, NothingToDo, MarkTransfersNoMatchedDeposit,
         SendEvent, orderVars, txVars
  <2> QED
      BY <2>1, LedgerStutter
<1>5. CASE HandleMatchedTrans
    BY <1>5, LedgerCredit DEF Ledger!Next
<1> QED
    BY <1>1, <1>2, <1>3, <1>4, <1>5 DEF Next, Work, Ledger!Next

\* Every behaviour of the order book is one of the payment ledger: each step
\* opens, offers, settles or credits one batch, or changes none of it.
THEOREM Refinement == Spec => LedgerSpec
BY LedgerInit, LedgerStep, Invariance, PTL DEF Spec, Ledger!Spec, LedgerSpec
=============================================================================
