--------------------------- MODULE CheckoutProofs ---------------------------
(***************************************************************************)
(* Theorems about the order book and the webhook sender in one process.    *)
(* The composition implements the order book on its own, whose invariants  *)
(* it inherits, and the webhook sender with its open environment, whose    *)
(* theorems it inherits through SenderProofs.  What the merchant hears     *)
(* follows from both.                                                      *)
(***************************************************************************)
EXTENDS Checkout, OrderBookProofs

SenderProofs == INSTANCE WebhookSenderProofs WITH
    status <- RowStatus, announced <- InFlight

----------------------------------------------------------------------------
(***************************************************************************)
(* The order book is one part of the system.                               *)
(***************************************************************************)
LEMMA BookInit == CheckoutInit => Init
  BY DEF CheckoutInit

LEMMA BookStep == [CheckoutNext]_systemVars => [Next]_vars
  <1> SUFFICES ASSUME [CheckoutNext]_systemVars PROVE [Next]_vars
    OBVIOUS
  <1>1. CASE DatabaseStep
    BY <1>1 DEF DatabaseStep, DatabaseCall, Next, Work, Fault, HandlerStep, WatcherWork
  <1>2. CASE \E e \in outbox : SendToFanOut(e)
    BY <1>2 DEF SendToFanOut, Next, Work, WatcherWork
  <1>3. CASE \E c \in Callers : AnnounceToSender(c)
    BY <1>3 DEF AnnounceToSender, Next, Work, HandlerStep
  <1>4. CASE CheckoutRestart
    BY <1>4 DEF CheckoutRestart, Next, Fault
  <1>5. CASE \/ Forward
             \/ \E o \in Orders : ResendOrderWebhook(o)
             \/ \E t \in Txs : ResendTransferWebhook(t)
             \/ \E e \in resent : SendResent(e) \/ DropResent(e)
             \/ SenderStep
    BY <1>5 DEF Forward, ResendOrderWebhook, ResendTransferWebhook, Resend,
                SendResent, DropResent, SenderStep
  <1>6. CASE UNCHANGED systemVars
    BY <1>6 DEF systemVars
  <1> QED  BY <1>1, <1>2, <1>3, <1>4, <1>5, <1>6 DEF CheckoutNext

\* The system behaves as the order book on its own: what is proved of that
\* holds here, whatever the sender does meanwhile.
THEOREM BookRefinement == CheckoutSpec => Spec
  BY BookInit, BookStep, PTL DEF CheckoutSpec, Spec

----------------------------------------------------------------------------
(***************************************************************************)
(* The events in flight.                                                   *)
(***************************************************************************)
LEMMA EventsSame ==
    /\ Sender!StatusEvents = StatusEvents
    /\ Sender!UnknownEvents = UnknownEvents
    /\ Sender!Events = StatusEvents \cup UnknownEvents
    /\ \A o, s : Sender!StatusEvent(o, s) = StatusEvent(o, s)
  BY DEF Sender!StatusEvents, StatusEvents, Sender!UnknownEvents, UnknownEvents,
         Sender!Events, Sender!StatusEvent, StatusEvent, Sender!OrderStatus, OrderStatus

LEMMA CardinalitySame == \A X : Sender!Cardinality(X) = Cardinality(X)
  BY DEF Sender!Cardinality, Cardinality

\* A handler that moves on without announcing takes its event, if it had one,
\* out of flight.
LEMMA HandlerEventsDrop ==
    ASSUME TypeOK, NEW c \in Callers, NEW v, v.at # "announce",
           handler' = [handler EXCEPT ![c] = v]
    PROVE  /\ HandlerEvents' \subseteq HandlerEvents
           /\ Announcing(c) => HandlerEvents \subseteq HandlerEvents' \cup {handler[c].event}
           /\ ~Announcing(c) => HandlerEvents' = HandlerEvents
  <1>1. \A b \in Callers : handler'[b] = IF b = c THEN v ELSE handler[b]
    BY DEF TypeOK
  <1> QED  BY <1>1 DEF HandlerEvents, Announcing

\* One that begins to announce puts one in.
LEMMA HandlerEventsAdd ==
    ASSUME TypeOK, NEW c \in Callers, ~Announcing(c), NEW e,
           handler' = [handler EXCEPT ![c] = [at |-> "announce", event |-> e]]
    PROVE  HandlerEvents' = HandlerEvents \cup {e}
  <1>1. \A b \in Callers :
            handler'[b] = IF b = c THEN [at |-> "announce", event |-> e] ELSE handler[b]
    BY DEF TypeOK
  <1>2. ASSUME NEW f \in HandlerEvents' PROVE f \in HandlerEvents \cup {e}
    BY <1>1, <1>2 DEF HandlerEvents, Announcing
  <1>3. e \in HandlerEvents'
    BY <1>1 DEF HandlerEvents, Announcing
  <1>4. ASSUME NEW f \in HandlerEvents PROVE f \in HandlerEvents'
    BY <1>1, <1>4 DEF HandlerEvents, Announcing
  <1> QED  BY <1>2, <1>3, <1>4

LEMMA RelayAppend ==
    ASSUME EventsTyped, NEW e \in StatusEvents \cup UnknownEvents, relay' = Append(relay, e)
    PROVE  RelayEvents' = RelayEvents \cup {e}
  <1>1. relay \in Seq(StatusEvents \cup UnknownEvents)
    BY DEF EventsTyped
  <1>2. /\ Len(relay') = Len(relay) + 1 /\ Len(relay) \in Nat
        /\ relay'[Len(relay) + 1] = e
        /\ \A i \in 1 .. Len(relay) : relay'[i] = relay[i]
    BY <1>1
  <1>3. \A i \in 1 .. Len(relay) + 1 : i \in 1 .. Len(relay) \/ i = Len(relay) + 1
    BY <1>2
  <1>4. ASSUME NEW f \in RelayEvents' PROVE f \in RelayEvents \cup {e}
    BY <1>2, <1>3, <1>4 DEF RelayEvents
  <1>5. Len(relay) + 1 \in 1 .. Len(relay') /\ \A i \in 1 .. Len(relay) : i \in 1 .. Len(relay')
    BY <1>2
  <1>6. ASSUME NEW f \in RelayEvents \cup {e} PROVE f \in RelayEvents'
    BY <1>2, <1>5, <1>6 DEF RelayEvents
  <1> QED  BY <1>4, <1>6

LEMMA RelayTake ==
    ASSUME EventsTyped, relay # << >>, relay' = Tail(relay)
    PROVE  /\ relay' \in Seq(StatusEvents \cup UnknownEvents)
           /\ Head(relay) \in RelayEvents
           /\ RelayEvents' \subseteq RelayEvents
           /\ RelayEvents \subseteq RelayEvents' \cup {Head(relay)}
  <1>1. relay \in Seq(StatusEvents \cup UnknownEvents)
    BY DEF EventsTyped
  <1>2. /\ relay' \in Seq(StatusEvents \cup UnknownEvents)
        /\ Len(relay) \in Nat \ {0} /\ Len(relay') = Len(relay) - 1
        /\ \A i \in 1 .. Len(relay) - 1 : relay'[i] = relay[i + 1]
        /\ Head(relay) = relay[1]
    BY <1>1
  <1>3. \A i \in 1 .. Len(relay) : i = 1 \/ (i - 1 \in 1 .. Len(relay') /\ relay'[i - 1] = relay[i])
    BY <1>2
  <1>4. \A i \in 1 .. Len(relay') : i + 1 \in 1 .. Len(relay) /\ relay'[i] = relay[i + 1]
    BY <1>2
  <1>5. 1 \in 1 .. Len(relay)
    BY <1>2
  <1> QED  BY <1>2, <1>3, <1>4, <1>5 DEF RelayEvents

----------------------------------------------------------------------------
(***************************************************************************)
(* A step as the sender sees it.  In each lemma the sender's own variables *)
(* but the channel stay as they are.                                       *)
(***************************************************************************)
\* Events leave without reaching the channel, or nothing happens.
LEMMA FewerEvents ==
    ASSUME UNCHANGED <<RowStatus, been, queue, taskVars>>, InFlight' \subseteq InFlight
    PROVE  Sender!Next
  <1> DEFINE E == InFlight \ InFlight'
  <1>1. E \in SUBSET InFlight /\ InFlight' = InFlight \ E
    OBVIOUS
  <1>2. Sender!LoseEvents(E)
    BY <1>1 DEF Sender!LoseEvents, Sender!orderVars, Sender!statusVars,
                Sender!merchantVars, taskVars
  <1> HIDE DEF E
  <1> QED  BY <1>1, <1>2 DEF Sender!Next, Sender!Produce

\* An event reaches the channel.
LEMMA PutIsSend ==
    ASSUME NEW e \in InFlight, Put(e), UNCHANGED <<RowStatus, been, taskVars>>,
           InFlight' \subseteq InFlight, InFlight \subseteq InFlight' \cup {e}
    PROVE  Sender!Next
  <1>1. InFlight' = InFlight \/ InFlight' = InFlight \ {e}
    BY Zenon
  <1>2. Sender!Send(e)
    BY <1>1 DEF Put, Sender!Send, Sender!orderVars, Sender!statusVars,
                Sender!merchantVars, taskVars
  <1> QED  BY <1>2 DEF Sender!Next, Sender!Produce

\* The rows of some orders change together with their events.
LEMMA NewStatus ==
    ASSUME EventsTyped, BeenSound,
           NEW S \in SUBSET Orders, NEW s \in {"paid", "cancelled"},
           s = "cancelled" => \E o \in Orders : S = {o},
           \A o \in Orders : RowStatus'[o] = IF o \in S THEN s ELSE RowStatus[o],
           been' = [o \in Orders |-> been[o] \cup {RowStatus'[o]}],
           InFlight' = InFlight \cup {StatusEvent(o, s) : o \in S},
           Cardinality(InFlight') <= MaxProducers,
           UNCHANGED <<queue, taskVars>>
    PROVE  Sender!Next
  <1>1. RowStatus' = [o \in Orders |-> IF o \in S THEN s ELSE RowStatus[o]]
    BY DEF RowStatus
  <1>2. been' = [o \in Orders |-> IF o \in S THEN been[o] \cup {s} ELSE been[o]]
    <2>1. \A o \in Orders : been'[o] = IF o \in S THEN been[o] \cup {s} ELSE been[o]
      BY DEF BeenSound
    <2> QED  BY <2>1
  <1>3. {StatusEvent(o, s) : o \in S} = {Sender!StatusEvent(o, s) : o \in S}
    BY EventsSame
  <1>4. Sender!SetStatus(S, s)
    BY <1>1, <1>2, <1>3, CardinalitySame DEF Sender!SetStatus, Sender!Announce, Sender!merchantVars, taskVars
  <1> QED  BY <1>4 DEF Sender!Next, Sender!Produce

\* Unknown transfers are announced.
LEMMA NewUnknown ==
    ASSUME NEW T \in SUBSET Txs,
           InFlight' = InFlight \cup {UnknownEvent(t) : t \in T},
           Cardinality(InFlight') <= MaxProducers,
           UNCHANGED <<RowStatus, been, queue, taskVars>>
    PROVE  Sender!Next
  <1>1. Sender!ReportUnknown(T)
    BY CardinalitySame DEF Sender!ReportUnknown, Sender!Announce, UnknownEvent, Sender!orderVars,
           Sender!statusVars, Sender!merchantVars, taskVars
  <1> QED  BY <1>1 DEF Sender!Next, Sender!Produce

----------------------------------------------------------------------------
(***************************************************************************)
(* Every step of the system is one of the sender's module.                 *)
(***************************************************************************)
LEMMA BeenSame ==
    ASSUME EventsTyped, BeenSound, UNCHANGED RowStatus,
           been' = [o \in Orders |-> been[o] \cup {RowStatus'[o]}]
    PROVE  been' = been
  BY DEF EventsTyped, BeenSound

LEMMA HandlerCallSender ==
    ASSUME CheckoutIInv, NEW c \in Callers, HandlerCall(c), DatabaseStep
    PROVE  Sender!Next
  <1> USE DEF CheckoutIInv
  <1>1. /\ been' = [o \in Orders |-> been[o] \cup {RowStatus'[o]}]
        /\ Cardinality(InFlight') <= MaxProducers
        /\ UNCHANGED <<relay, resent, queue, taskVars>>
    BY DEF DatabaseStep, eventVars
  <1>2. TypeOK /\ HandlersSound
    BY DEF IInv
  <1>3. CASE ~CancelCommit(c) /\ ~MarkPaidUpdate(c)
    <2>1. UNCHANGED <<status, outbox>>
      BY <1>3 DEF HandlerCall, CreatePaymentRead, CreatePaymentInsert, CancelRead,
         MarkPaidRead, Await, orderVars, watcherVars
    <2>2. \E v : v.at # "announce" /\ handler' = [handler EXCEPT ![c] = v]
      BY <1>3 DEF HandlerCall, CreatePaymentRead, CreatePaymentInsert, CancelRead,
         MarkPaidRead, Await, Idle
    <2>3. HandlerEvents' \subseteq HandlerEvents
      BY <1>2, <2>2, HandlerEventsDrop
    <2>4. UNCHANGED RowStatus
      BY <2>1 DEF RowStatus
    <2>5. InFlight' \subseteq InFlight
      BY <1>1, <2>1, <2>3 DEF InFlight, RelayEvents
    <2> QED  BY <1>1, <2>4, <2>5, BeenSame, FewerEvents
  <1>4. ASSUME NEW s \in {"paid", "cancelled"},
               status' = [status EXCEPT ![handler[c].order] = s],
               handler' = [handler EXCEPT ![c] =
                    [at |-> "announce", event |-> StatusEvent(handler[c].order, s)]],
               handler[c].at \in {"cancel", "mark_paid"},
               outbox' = outbox
        PROVE  Sender!Next
    <2> DEFINE o == handler[c].order
    <2>1. o \in Orders
      BY <1>2, <1>4, CallFields
    <2>2. \A q \in Orders : RowStatus'[q] = IF q \in {o} THEN s ELSE RowStatus[q]
      BY <1>2, <1>4, <2>1 DEF RowStatus, TypeOK
    <2>3. HandlerEvents' = HandlerEvents \cup {StatusEvent(o, s)}
      BY <1>2, <1>4, HandlerEventsAdd DEF Announcing
    <2>4. InFlight' = InFlight \cup {StatusEvent(q, s) : q \in {o}}
      BY <1>1, <1>4, <2>3 DEF InFlight, RelayEvents
    <2> HIDE DEF o
    <2> QED  BY <1>1, <2>1, <2>2, <2>4, NewStatus
  <1>5. CASE CancelCommit(c)
    BY <1>4, <1>5 DEF CancelCommit, watcherVars
  <1>6. CASE MarkPaidUpdate(c)
    BY <1>4, <1>6 DEF MarkPaidUpdate, watcherVars
  <1> QED  BY <1>3, <1>5, <1>6

LEMMA WatcherCallSender ==
    ASSUME CheckoutIInv, WatcherCall, DatabaseStep
    PROVE  Sender!Next
  <1> USE DEF CheckoutIInv
  <1>1. /\ been' = [o \in Orders |-> been[o] \cup {RowStatus'[o]}]
        /\ Cardinality(InFlight') <= MaxProducers
        /\ UNCHANGED <<relay, resent, queue, taskVars>>
    BY DEF DatabaseStep, eventVars
  <1>2. UNCHANGED handler
    BY DEF WatcherCall, NoUnmatchedTransfer, GetTransfersUnmatched,
       GetOldUnmatchedTransferIds, NothingToDo, MarkTransfersNoMatchedDeposit,
       HandleMatchedTrans
  <1>3. UNCHANGED <<HandlerEvents, RelayEvents, resent>>
    BY <1>1, <1>2 DEF HandlerEvents, Announcing, RelayEvents
  <1>4. CASE ~MarkTransfersNoMatchedDeposit /\ ~HandleMatchedTrans
    <2>1. UNCHANGED status /\ outbox' \subseteq outbox
      BY <1>4 DEF WatcherCall, NoUnmatchedTransfer, GetTransfersUnmatched,
         GetOldUnmatchedTransferIds, NothingToDo, WatcherIdle, orderVars
    <2>2. UNCHANGED RowStatus
      BY <2>1 DEF RowStatus
    <2>3. InFlight' \subseteq InFlight
      BY <1>3, <2>1 DEF InFlight
    <2> QED  BY <1>1, <2>2, <2>3, BeenSame, FewerEvents
  <1>5. CASE MarkTransfersNoMatchedDeposit
    <2>1. UNCHANGED status /\ outbox' = outbox \cup {UnknownEvent(t) : t \in oldIds}
      BY <1>5 DEF MarkTransfersNoMatchedDeposit, orderVars
    <2>2. UNCHANGED RowStatus
      BY <2>1 DEF RowStatus
    <2>3. InFlight' = InFlight \cup {UnknownEvent(t) : t \in oldIds}
      BY <1>3, <2>1 DEF InFlight
    <2>4. oldIds \in SUBSET Txs
      BY DEF IInv, TypeOK
    <2> QED  BY <1>1, <2>2, <2>3, <2>4, BeenSame, NewUnknown
  <1>6. CASE HandleMatchedTrans
    <2>1. /\ status' = PaidOrders
          /\ outbox' = outbox \cup {StatusEvent(o, "paid") : o \in MatchedOrders}
      BY <1>6 DEF HandleMatchedTrans
    <2>2. MatchedOrders \in SUBSET Orders
      BY <1>6, MatchedIsCredited
    <2>3. \A o \in Orders : RowStatus'[o] = IF o \in MatchedOrders THEN "paid" ELSE RowStatus[o]
      BY <2>1 DEF RowStatus, PaidOrders
    <2>4. InFlight' = InFlight \cup {StatusEvent(o, "paid") : o \in MatchedOrders}
      BY <1>3, <2>1 DEF InFlight
    <2> QED  BY <1>1, <2>2, <2>3, <2>4, NewStatus
  <1> QED  BY <1>4, <1>5, <1>6

LEMMA DatabaseSender ==
    ASSUME CheckoutIInv, DatabaseStep
    PROVE  Sender!Next
  <1> USE DEF CheckoutIInv
  <1>1. /\ been' = [o \in Orders |-> been[o] \cup {RowStatus'[o]}]
        /\ UNCHANGED <<relay, resent, queue, taskVars>>
    BY DEF DatabaseStep, eventVars
  <1>2. ASSUME NEW o \in Orders, CreateOrder(o)
        PROVE  UNCHANGED RowStatus /\ InFlight' \subseteq InFlight
    <2>1. UNCHANGED <<handler, outbox>>
      BY <1>2 DEF CreateOrder, watcherVars
    <2>2. UNCHANGED RowStatus
      BY <1>2 DEF CreateOrder, RowStatus, IInv, TypeOK
    <2> QED  BY <1>1, <2>1, <2>2 DEF InFlight, HandlerEvents, Announcing, RelayEvents
  <1>3. ASSUME NEW c \in Callers, Abort(c)
        PROVE  UNCHANGED RowStatus /\ InFlight' \subseteq InFlight
    <2>1. handler' = [handler EXCEPT ![c] = Idle] /\ UNCHANGED <<status, outbox>>
      BY <1>3 DEF Abort, Await, orderVars, watcherVars
    <2>2. HandlerEvents' \subseteq HandlerEvents
      BY <2>1, HandlerEventsDrop DEF Idle, IInv
    <2> QED  BY <1>1, <2>1, <2>2 DEF InFlight, RelayEvents, RowStatus
  <1>4. CASE TransferStep \/ (\E p \in Pairs : GetDepositsForMatching(p)) \/ FailTick
    <2>1. UNCHANGED <<status, handler>> /\ outbox' \subseteq outbox
      BY <1>4 DEF TransferStep, InsertTransfers, ConfirmTransfer, FailToConfirmTransfer,
         SettleConfirmation, AgeTransfer, GetDepositsForMatching, FailTick, WatcherIdle,
         orderVars, watcherVars
    <2>2. UNCHANGED RowStatus /\ InFlight' \subseteq InFlight
      BY <1>1, <2>1 DEF InFlight, HandlerEvents, Announcing, RelayEvents, RowStatus
    <2> QED  BY <1>1, <2>2, BeenSame, FewerEvents
  <1> QED  BY <1>1, <1>2, <1>3, <1>4, BeenSame, FewerEvents, HandlerCallSender,
              WatcherCallSender DEF DatabaseStep, DatabaseCall

LEMMA SendToFanOutSender ==
    ASSUME CheckoutIInv, NEW e \in outbox, SendToFanOut(e)
    PROVE  Sender!Next /\ relay' \in Seq(StatusEvents \cup UnknownEvents)
  <1> USE DEF CheckoutIInv
  <1>1. /\ UNCHANGED <<status, handler, been, resent, queue, taskVars>>
        /\ outbox' \subseteq outbox
        /\ relay' = Append(relay, e)
    BY DEF SendToFanOut, SendEvent, WatcherIdle, orderVars, history
  <1>2. e \in StatusEvents \cup UnknownEvents
    BY DEF IInv, TypeOK
  <1>3. RelayEvents' = RelayEvents \cup {e}
    BY <1>1, <1>2, RelayAppend
  <1>4. InFlight' \subseteq InFlight /\ UNCHANGED RowStatus
    BY <1>1, <1>3 DEF InFlight, HandlerEvents, Announcing, RowStatus
  <1>5. relay' \in Seq(StatusEvents \cup UnknownEvents)
    BY <1>1, <1>2 DEF EventsTyped
  <1> QED  BY <1>1, <1>4, <1>5, FewerEvents

LEMMA ForwardSender ==
    ASSUME CheckoutIInv, Forward
    PROVE  Sender!Next /\ relay' \in Seq(StatusEvents \cup UnknownEvents)
  <1> USE DEF CheckoutIInv
  <1>1. /\ UNCHANGED <<status, handler, outbox, been, resent, taskVars>>
        /\ relay # << >> /\ relay' = Tail(relay)
        /\ Put(Head(relay))
    BY DEF Forward, vars, orderVars, watcherVars, history
  <1>2. UNCHANGED <<RowStatus, HandlerEvents>>
    BY <1>1 DEF RowStatus, HandlerEvents, Announcing
  <1>3. /\ Head(relay) \in InFlight
        /\ InFlight' \subseteq InFlight
        /\ InFlight \subseteq InFlight' \cup {Head(relay)}
    BY <1>1, <1>2, RelayTake DEF InFlight
  <1> QED  BY <1>1, <1>2, <1>3, RelayTake, PutIsSend

LEMMA AnnounceSender ==
    ASSUME CheckoutIInv, NEW c \in Callers, AnnounceToSender(c)
    PROVE  Sender!Next
  <1> USE DEF CheckoutIInv
  <1>1. /\ UNCHANGED <<status, outbox, been, relay, resent, taskVars>>
        /\ Announcing(c) /\ handler' = [handler EXCEPT ![c] = Idle]
        /\ Put(handler[c].event)
    BY DEF AnnounceToSender, Announce, Await, Announcing, orderVars, watcherVars, history
  <1>2. /\ HandlerEvents' \subseteq HandlerEvents
        /\ HandlerEvents \subseteq HandlerEvents' \cup {handler[c].event}
    BY <1>1, HandlerEventsDrop DEF Idle, IInv
  <1>3. /\ handler[c].event \in InFlight
        /\ InFlight' \subseteq InFlight
        /\ InFlight \subseteq InFlight' \cup {handler[c].event}
    BY <1>1, <1>2 DEF InFlight, HandlerEvents, RelayEvents
  <1>4. UNCHANGED RowStatus
    BY <1>1 DEF RowStatus
  <1> QED  BY <1>1, <1>3, <1>4, PutIsSend

LEMMA ResendSender ==
    ASSUME CheckoutIInv,
           \/ \E o \in Orders : ResendOrderWebhook(o)
           \/ \E t \in Txs : ResendTransferWebhook(t)
    PROVE  Sender!Next /\ resent' \subseteq StatusEvents \cup UnknownEvents
  <1> USE DEF CheckoutIInv
  <1>1. ASSUME NEW e, Resend(e)
        PROVE  /\ UNCHANGED <<RowStatus, been, queue, taskVars>>
               /\ InFlight' = InFlight \cup {e}
               /\ Cardinality(InFlight') <= MaxProducers
               /\ resent' = resent \cup {e}
    <2>1. UNCHANGED <<status, handler, outbox, been, relay, queue, taskVars>>
      BY <1>1 DEF Resend, vars, orderVars, watcherVars, history
    <2>2. UNCHANGED <<RowStatus, HandlerEvents, RelayEvents>>
      BY <2>1 DEF RowStatus, HandlerEvents, Announcing, RelayEvents
    <2>3. InFlight' = InFlight \cup {e}
      BY <1>1, <2>1, <2>2 DEF Resend, InFlight
    <2> QED  BY <1>1, <2>1, <2>2, <2>3 DEF Resend
  <1>2. ASSUME NEW o \in Orders, ResendOrderWebhook(o)
        PROVE  Sender!Next /\ resent' \subseteq StatusEvents \cup UnknownEvents
    <2>1. RowStatus[o] = status[o] /\ status[o] \in OrderStatus
      BY <1>2 DEF ResendOrderWebhook, RowStatus, IInv, TypeOK
    <2>2. StatusEvent(o, status[o]) \in StatusEvents
      BY <2>1 DEF StatusEvent, StatusEvents
    <2>4. Sender!StatusEvent(o, RowStatus[o]) = StatusEvent(o, status[o])
      BY <2>1, EventsSame
    <2>5. Sender!Announce({Sender!StatusEvent(o, RowStatus[o])})
      BY <1>1, <1>2, <2>4, CardinalitySame DEF ResendOrderWebhook, Sender!Announce
    <2>3. Sender!ResendOrderWebhook(o)
      BY <1>1, <1>2, <2>5
      DEF ResendOrderWebhook, Sender!ResendOrderWebhook, Sender!orderVars,
          Sender!statusVars, Sender!merchantVars, taskVars
    <2> QED  BY <1>1, <1>2, <2>2, <2>3
             DEF ResendOrderWebhook, Sender!Next, Sender!Produce, EventsTyped
  <1>3. ASSUME NEW t \in Txs, ResendTransferWebhook(t)
        PROVE  Sender!Next /\ resent' \subseteq StatusEvents \cup UnknownEvents
    <2>1. {UnknownEvent(u) : u \in {t}} = {UnknownEvent(t)} /\ UnknownEvent(t) \in UnknownEvents
      BY DEF UnknownEvent, UnknownEvents
    <2>2. Sender!Next
      <3>1. {t} \in SUBSET Txs
        OBVIOUS
      <3>2. /\ InFlight' = InFlight \cup {UnknownEvent(u) : u \in {t}}
            /\ Cardinality(InFlight') <= MaxProducers
            /\ UNCHANGED <<RowStatus, been, queue, taskVars>>
        BY <1>1, <1>3, <2>1 DEF ResendTransferWebhook
      <3> QED  BY <3>1, <3>2, NewUnknown
    <2> QED  BY <1>1, <1>3, <2>1, <2>2 DEF ResendTransferWebhook, EventsTyped
  <1> QED  BY <1>2, <1>3

LEMMA ResentSender ==
    ASSUME CheckoutIInv, NEW e \in resent, SendResent(e) \/ DropResent(e)
    PROVE  Sender!Next /\ resent' \subseteq resent
  <1> USE DEF CheckoutIInv
  <1>1. /\ UNCHANGED <<status, handler, outbox, been, relay, taskVars>>
        /\ resent' \subseteq resent /\ resent \subseteq resent' \cup {e}
    BY DEF SendResent, DropResent, vars, orderVars, watcherVars, history
  <1>2. UNCHANGED <<RowStatus, HandlerEvents, RelayEvents>>
    BY <1>1 DEF RowStatus, HandlerEvents, Announcing, RelayEvents
  <1>3. /\ e \in InFlight
        /\ InFlight' \subseteq InFlight
        /\ InFlight \subseteq InFlight' \cup {e}
    BY <1>1, <1>2 DEF InFlight
  <1>4. CASE SendResent(e)
    BY <1>1, <1>2, <1>3, <1>4, PutIsSend DEF SendResent
  <1>5. CASE DropResent(e)
    BY <1>1, <1>2, <1>3, <1>5, FewerEvents DEF DropResent
  <1> QED  BY <1>1, <1>4, <1>5

LEMMA RestartSender ==
    ASSUME CheckoutRestart
    PROVE  Sender!Next
  <1>1. /\ UNCHANGED <<status, been, success, retries, resting, taken, heard, told>>
        /\ outbox' = {} /\ resent' = {} /\ relay' = << >>
        /\ handler' = [c \in Callers |-> Idle]
    BY DEF CheckoutRestart, Restart, WatcherIdle, orderVars, history
  <1>2. HandlerEvents' = {} /\ RelayEvents' = {}
    BY <1>1 DEF HandlerEvents, Announcing, Idle, RelayEvents
  <1>3. InFlight' = {} /\ UNCHANGED RowStatus
    BY <1>1, <1>2 DEF InFlight, RowStatus
  <1>4. Sender!Restart
    BY <1>1, <1>3 DEF CheckoutRestart, Sender!Restart, Sender!orderVars,
       Sender!statusVars, Sender!merchantVars
  <1> QED  BY <1>4 DEF Sender!Next

LEMMA SenderStutter ==
    ASSUME UNCHANGED systemVars
    PROVE  UNCHANGED Sender!vars
  <1>1. UNCHANGED <<status, handler, outbox, been, relay, resent, queue, taskVars>>
    BY DEF systemVars, vars, orderVars, watcherVars, history, eventVars
  <1>2. UNCHANGED <<RowStatus, InFlight>>
    BY <1>1 DEF RowStatus, InFlight, HandlerEvents, Announcing, RelayEvents
  <1> QED  BY <1>1, <1>2 DEF Sender!vars, Sender!orderVars, Sender!statusVars,
              Sender!channelVars, Sender!merchantVars, taskVars

LEMMA SenderNext ==
    ASSUME CheckoutIInv, [CheckoutNext]_systemVars
    PROVE  [Sender!Next]_(Sender!vars)
  <1>1. CASE SenderStep
    BY <1>1 DEF SenderStep, Sender!Next
  <1> QED  BY <1>1, DatabaseSender, SendToFanOutSender, ForwardSender, AnnounceSender,
              ResendSender, ResentSender, RestartSender, SenderStutter DEF CheckoutNext

LEMMA SenderInit == CheckoutInit => Sender!Init
  <1> SUFFICES ASSUME CheckoutInit PROVE Sender!Init
    OBVIOUS
  <1>1. InFlight = {}
    BY DEF CheckoutInit, Init, InFlight, HandlerEvents, Announcing, RelayEvents, Idle
  <1>2. RowStatus = [o \in Orders |-> "pending"]
    BY DEF CheckoutInit, Init, RowStatus
  <1> QED  BY <1>1, <1>2 DEF CheckoutInit, Sender!Init

----------------------------------------------------------------------------
(***************************************************************************)
(* The inductive invariant.                                                *)
(***************************************************************************)
LEMMA CheckoutIInvInit == CheckoutInit => CheckoutIInv
  <1> SUFFICES ASSUME CheckoutInit PROVE CheckoutIInv
    OBVIOUS
  <1>1. IInv
    BY BookInit, IInvInit
  <1>2. EventsTyped
    BY DEF CheckoutInit, EventsTyped, OrderStatus
  <1>3. BeenSound
    BY DEF CheckoutInit, Init, BeenSound, RowStatus
  <1>4. BeenSettled /\ BeenBacked
    BY DEF CheckoutInit, BeenSettled, BeenBacked
  <1> QED  BY <1>1, <1>2, <1>3, <1>4 DEF CheckoutIInv

\* The step keeps what the book's lemmas say of an order that was settled or
\* credited before.
LEMMA OrderKept ==
    ASSUME CheckoutIInv, [CheckoutNext]_systemVars, NEW o \in Orders
    PROVE  /\ IInv'
           /\ Settled(o) => Settled(o)'
           /\ CreditedTo(o) # {} => CreditedTo(o)' # {}
  <1>1. [Next]_vars
    BY BookStep
  <1> QED  BY <1>1, IInvStep, StatusSteps, CreditsStay DEF CheckoutIInv

LEMMA DatabaseIInv ==
    ASSUME CheckoutIInv, DatabaseStep, IInv'
    PROVE  CheckoutIInv'
  <1> USE DEF CheckoutIInv
  <1>1. [Next]_vars /\ [CheckoutNext]_systemVars
    BY BookStep DEF CheckoutNext
  <1>2. /\ UNCHANGED <<relay, resent>>
        /\ been' = [o \in Orders |-> been[o] \cup {RowStatus'[o]}]
        /\ marked' = marked \cup {o \in Orders : \E c \in Callers : MarksPaid(c, o)}
    BY DEF DatabaseStep, eventVars
  <1>3. \A o \in Orders : RowStatus'[o] \in OrderStatus
    BY DEF RowStatus, IInv, TypeOK, OrderStatus
  <1>4. EventsTyped'
    BY <1>2, <1>3 DEF EventsTyped
  <1>5. BeenSound'
    BY <1>2 DEF BeenSound
  <1>6. BeenSettled'
    <2> SUFFICES ASSUME NEW o \in Orders, NEW s \in {"paid", "expired", "cancelled"},
                        s \in been'[o]
                 PROVE  Settled(o)'
      BY DEF BeenSettled
    <2>1. CASE s \in been[o]
      BY <1>1, <2>1, OrderKept DEF BeenSettled
    <2>2. CASE s = RowStatus'[o]
      BY <2>2 DEF RowStatus, Settled
    <2> QED  BY <1>2, <2>1, <2>2
  <1>7. BeenBacked'
    <2> SUFFICES ASSUME NEW o \in Orders, "paid" \in been'[o]
                 PROVE  CreditedTo(o)' # {} \/ o \in marked'
      BY DEF BeenBacked
    <2>1. CASE "paid" \in been[o]
      BY <1>1, <1>2, <2>1, OrderKept DEF BeenBacked
    <2>2. CASE "paid" = RowStatus'[o] /\ "paid" \notin been[o]
      <3>1. status'[o] = "paid"
        BY <2>2 DEF RowStatus
      <3>2. status[o] # "paid"
        BY <2>2 DEF BeenSound, RowStatus
      <3>3. ASSUME NEW c \in Callers, MarkPaidUpdate(c), handler[c].order = o
            PROVE  MarksPaid(c, o)
        BY <3>3 DEF MarkPaidUpdate, MarksPaid, IInv, TypeOK
      <3> QED  BY <1>1, <1>2, <3>1, <3>2, <3>3, StatusSteps, MatchedIsCredited
    <2> QED  BY <1>2, <2>1, <2>2
  <1> QED  BY <1>4, <1>5, <1>6, <1>7

LEMMA CheckoutIInvStep == CheckoutIInv /\ [CheckoutNext]_systemVars => CheckoutIInv'
  <1> SUFFICES ASSUME CheckoutIInv, [CheckoutNext]_systemVars PROVE CheckoutIInv'
    OBVIOUS
  <1>1. IInv'
    BY BookStep, IInvStep DEF CheckoutIInv
  <1>2. CASE DatabaseStep
    BY <1>1, <1>2, DatabaseIInv
  <1>3. CASE ~DatabaseStep
    <2>1. UNCHANGED <<been, marked, status>>
      BY <1>3 DEF CheckoutNext, SendToFanOut, SendEvent, Forward, AnnounceToSender, Announce,
         Await, ResendOrderWebhook, ResendTransferWebhook, Resend, SendResent, DropResent,
         SenderStep, CheckoutRestart, Restart, systemVars, vars, orderVars, history
    <2>2. EventsTyped'
      <3>1. relay' \in Seq(StatusEvents \cup UnknownEvents)
        <4>1. CASE (\E e \in outbox : SendToFanOut(e)) \/ Forward
          BY <4>1, SendToFanOutSender, ForwardSender
        <4>2. CASE CheckoutRestart
          BY <4>2 DEF CheckoutRestart
        <4>3. CASE ~CheckoutRestart /\ ~Forward /\ \A e \in outbox : ~SendToFanOut(e)
          BY <1>3, <4>3
          DEF CheckoutNext, AnnounceToSender, ResendOrderWebhook, ResendTransferWebhook,
              Resend, SendResent, DropResent, SenderStep, systemVars, eventVars,
              CheckoutIInv, EventsTyped
        <4> QED  BY <4>1, <4>2, <4>3
      <3>2. resent' \subseteq StatusEvents \cup UnknownEvents
        BY <1>3, ResendSender, ResentSender
        DEF CheckoutNext, SendToFanOut, Forward, AnnounceToSender, SenderStep, CheckoutRestart,
            systemVars, eventVars, CheckoutIInv, EventsTyped
      <3> QED  BY <2>1, <3>1, <3>2 DEF EventsTyped, CheckoutIInv
    <2>3. BeenSound'
      BY <2>1 DEF CheckoutIInv, BeenSound, RowStatus
    <2>4. BeenSettled' /\ BeenBacked'
      BY <2>1, OrderKept DEF CheckoutIInv, BeenSettled, BeenBacked
    <2> QED  BY <1>1, <2>2, <2>3, <2>4 DEF CheckoutIInv
  <1> QED  BY <1>2, <1>3

----------------------------------------------------------------------------
\* In every reachable state the order book is as sound as it is alone, and
\* every settled status an order has had is backed.
THEOREM CheckoutInvariance == CheckoutSpec => []CheckoutIInv
  BY CheckoutIInvInit, CheckoutIInvStep, PTL DEF CheckoutSpec

\* The handlers, the watcher with its fan-out and the resend handlers keep to
\* what the sender's module takes its producers to do.
THEOREM SenderRefinement == CheckoutSpec => SenderSpec
  BY SenderInit, SenderNext, CheckoutInvariance, PTL
  DEF CheckoutSpec, SenderSpec, Sender!Spec

\* The instance of the proofs speaks of the same behaviours.
LEMMA SenderSame == Sender!Spec => SenderProofs!Spec
  <1> USE DEF Sender!StatusEvent, SenderProofs!StatusEvent, Sender!StatusEvents,
           SenderProofs!StatusEvents, Sender!OrderStatus, SenderProofs!OrderStatus,
           Sender!UnknownEvents, SenderProofs!UnknownEvents, Sender!IsAbout,
           SenderProofs!IsAbout, Sender!Idle, SenderProofs!Idle, Sender!orderVars,
           SenderProofs!orderVars, Sender!statusVars, SenderProofs!statusVars,
           Sender!channelVars, SenderProofs!channelVars, Sender!merchantVars,
           SenderProofs!merchantVars
  <1>1. Sender!Init => SenderProofs!Init
    BY DEF Sender!Init, SenderProofs!Init
  <1>2. Sender!vars = SenderProofs!vars /\ (UNCHANGED Sender!vars => UNCHANGED SenderProofs!vars)
    BY DEF Sender!vars, SenderProofs!vars
  <1>3. Sender!Produce => SenderProofs!Produce
    BY DEF Sender!Produce, SenderProofs!Produce, Sender!SetStatus,
           SenderProofs!SetStatus, Sender!ResendOrderWebhook,
           SenderProofs!ResendOrderWebhook, Sender!ReportUnknown,
           SenderProofs!ReportUnknown, Sender!Send, SenderProofs!Send,
           Sender!LoseEvents, SenderProofs!LoseEvents, Sender!Announce,
           SenderProofs!Announce, Sender!Cardinality, SenderProofs!Cardinality
  <1> USE DEF Sender!Outcomes, SenderProofs!Outcomes, Sender!Post, SenderProofs!Post,
              Sender!AfterPost, SenderProofs!AfterPost, Sender!RecordOutcome,
              SenderProofs!RecordOutcome, Sender!MarkOrderWebhookSuccess,
              SenderProofs!MarkOrderWebhookSuccess,
              Sender!IncrementOrderWebhookRetryCount,
              SenderProofs!IncrementOrderWebhookRetryCount
  <1>4. Sender!MainStep => SenderProofs!MainStep
    BY DEF Sender!MainStep, SenderProofs!MainStep, Sender!Receive,
           SenderProofs!Receive, Sender!SendOrderStatusWebhook,
           SenderProofs!SendOrderStatusWebhook, Sender!SendUnknownTransferWebhook,
           SenderProofs!SendUnknownTransferWebhook, Sender!RecordMain,
           SenderProofs!RecordMain, Sender!FailMain, SenderProofs!FailMain
  <1>5. Sender!RetryStep => SenderProofs!RetryStep
    BY DEF Sender!RetryStep, SenderProofs!RetryStep,
           Sender!GetOrdersForWebhookRetry, SenderProofs!GetOrdersForWebhookRetry,
           Sender!RetryPost, SenderProofs!RetryPost, Sender!RecordRetry,
           SenderProofs!RecordRetry, Sender!FailRetry, SenderProofs!FailRetry,
           Sender!Due, SenderProofs!Due, Sender!Exhausted, SenderProofs!Exhausted,
           Sender!Cardinality, SenderProofs!Cardinality
  <1>6. (\E o \in Orders : Sender!Elapse(o)) => (\E o \in Orders : SenderProofs!Elapse(o))
    BY DEF Sender!Elapse, SenderProofs!Elapse
  <1>7. Sender!Restart => SenderProofs!Restart
    BY DEF Sender!Restart, SenderProofs!Restart
  <1>8. [Sender!Next]_(Sender!vars) => [SenderProofs!Next]_(SenderProofs!vars)
    BY <1>2, <1>3, <1>4, <1>5, <1>6, <1>7 DEF Sender!Next, SenderProofs!Next
  <1> QED  BY <1>1, <1>8, PTL DEF Sender!Spec, SenderProofs!Spec

\* What the sender's proofs say of the events the merchant heard.
LEMMA HeardWasHere == CheckoutSpec => []Sender!HeardWas
  <1>1. SenderProofs!Spec => []SenderProofs!HeardWas
    BY SenderAssumption, SenderProofs!HeardWasHolds
  <1>2. SenderProofs!HeardWas => Sender!HeardWas
    BY DEF SenderProofs!HeardWas, Sender!HeardWas
  <1> QED  BY <1>1, <1>2, SenderSame, SenderRefinement, PTL DEF SenderSpec

\* The merchant hears that an order is settled only when it is.
THEOREM HeardSettledHolds == CheckoutSpec => []HeardSettled
  <1>1. ASSUME CheckoutIInv, Sender!HeardWas PROVE HeardSettled
    <2> SUFFICES ASSUME NEW o \in Orders, heard[o] \notin {"none", "pending"}
                 PROVE  Settled(o)
      BY DEF HeardSettled
    <2>1. heard[o] \in been[o]
      BY <1>1 DEF Sender!HeardWas
    <2>2. heard[o] \in {"paid", "expired", "cancelled"}
      BY <1>1, <2>1 DEF CheckoutIInv, EventsTyped, OrderStatus
    <2> QED  BY <1>1, <2>1, <2>2 DEF CheckoutIInv, BeenSettled
  <1> QED  BY <1>1, CheckoutInvariance, HeardWasHere, PTL

\* The merchant hears of no payment that is neither credited nor marked by an
\* administrator: through the merge join, the transaction, three channels, the
\* retry task's batches and restarts.
THEOREM PaidIsBackedHolds == CheckoutSpec => []PaidIsBacked
  <1>1. ASSUME CheckoutIInv, NEW o \in Orders, NEW t \in CreditedTo(o)
        PROVE  tstatus[t] = "matched" /\ TxValue[t] = Amount[o]
    BY <1>1 DEF CheckoutIInv, IInv, CreditMatchesDeposit, CreditedTo, SameKey
  <1>2. ASSUME CheckoutIInv, Sender!HeardWas, NEW o \in Orders, heard[o] = "paid"
        PROVE  CreditedTo(o) # {} \/ o \in marked
    BY <1>2 DEF CheckoutIInv, BeenBacked, Sender!HeardWas
  <1>3. ASSUME CheckoutIInv, Sender!HeardWas PROVE PaidIsBacked
    BY <1>1, <1>2, <1>3 DEF PaidIsBacked
  <1> QED  BY <1>3, CheckoutInvariance, HeardWasHere, PTL
=============================================================================
