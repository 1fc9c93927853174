------------------------------ MODULE Checkout ------------------------------
(***************************************************************************)
(* The order book and the webhook sender in one process.  Both write the   *)
(* orders' rows: the handlers and the watcher the status, the sender the   *)
(* webhook columns.  An event goes from a handler straight into the        *)
(* sender's channel, and from the watcher through a channel of its own and *)
(* the fan-out task; the two administrator's handlers that resend webhooks *)
(* read a row and announce what they have read.                            *)
(*                                                                         *)
(* The steps of the two parts are those of their modules.  WebhookSender   *)
(* leaves open who changes a status and when an event reaches its channel; *)
(* here that is done by the code that does it.                             *)
(***************************************************************************)
EXTENDS OrderBook, Naturals, Sequences

CONSTANTS
    MaxRetryCount,    \* MAX_RETRY_COUNT, 11 in the code
    Limit,            \* orders per query of the retry task, 10 in the code
    Buffer,           \* places of a WebhookEvent channel, 256 in the code
    MaxProducers,     \* bound: events between an update and the channel
    MaxEvents         \* bound: status events taken about an order

ASSUME SenderAssumption ==
    /\ MaxRetryCount \in Nat
    /\ Limit \in Nat \ {0}
    /\ Buffer \in Nat \ {0}
    /\ MaxProducers \in Nat
    /\ MaxEvents \in [Orders -> Nat]

VARIABLES
    been,       \* every status each order has had
    marked,     \* orders mark_paid has set to paid
    relay,      \* the channel to the fan-out task; its head is in the task's hand
    resent,     \* events of the administrator's resend handlers
    success,    \* orders with a webhook_success_at
    retries,    \* webhook_retry_count
    resting,    \* orders whose back-off lasts
    queue,      \* the sender's channel
    taken,      \* how many status events the main task took, for each order
    main,       \* what the sender's main task does next
    batch,      \* orders the retry task has read and not yet posted
    retry,      \* what the retry task does next
    heard,      \* the status in the last post the merchant accepted, or none
    told        \* unknown transfers the merchant was told of

history    == <<been, marked>>
eventVars  == <<relay, resent, queue>>
taskVars   == <<success, retries, resting, taken, main, batch, retry, heard, told>>
systemVars == <<vars, history, eventVars, taskVars>>

\* What the sender sees of an order: a row that is not there is like one that
\* has just been inserted, without an event or a webhook.
RowStatus == [o \in Orders |-> IF status[o] = "absent" THEN "pending" ELSE status[o]]

Announcing(c) == handler[c].at = "announce"

HandlerEvents == {handler[c].event : c \in {d \in Callers : Announcing(d)}}
RelayEvents   == {relay[i] : i \in 1 .. Len(relay)}

\* The events whose producers have yet to put them into the sender's channel.
InFlight == outbox \cup resent \cup HandlerEvents \cup RelayEvents

Sender == INSTANCE WebhookSender WITH status <- RowStatus, announced <- InFlight

CheckoutInit ==
    /\ Init
    /\ been = [o \in Orders |-> {"pending"}]
    /\ marked = {}
    /\ relay = << >>
    /\ resent = {}
    /\ success = {}
    /\ retries = [o \in Orders |-> 0]
    /\ resting = {}
    /\ queue = << >>
    /\ taken = [o \in Orders |-> 0]
    /\ main = Sender!Idle
    /\ batch = {}
    /\ retry = Sender!Idle
    /\ heard = [o \in Orders |-> "none"]
    /\ told = {}

----------------------------------------------------------------------------
(***************************************************************************)
(* The order book's side.                                                  *)
(***************************************************************************)

\* Every step of the order book but those that hand an event on.
DatabaseCall ==
    \/ \E o \in Orders : CreateOrder(o)
    \/ \E c \in Callers : HandlerCall(c) \/ Abort(c)
    \/ TransferStep
    \/ \E p \in Pairs : GetDepositsForMatching(p)
    \/ WatcherCall
    \/ FailTick

MarksPaid(c, o) ==
    /\ handler[c].at = "mark_paid"
    /\ handler[c].order = o
    /\ handler'[c].at = "announce"

DatabaseStep ==
    /\ DatabaseCall
    /\ UNCHANGED <<eventVars, taskVars>>
    /\ Cardinality(InFlight') <= MaxProducers
    /\ been' = [o \in Orders |-> been[o] \cup {RowStatus'[o]}]
    /\ marked' = marked \cup {o \in Orders : \E c \in Callers : MarksPaid(c, o)}

\* The watcher's channel is bounded like the sender's, and the fan-out task
\* holds one event more.
SendToFanOut(e) ==
    /\ SendEvent(e)
    /\ Len(relay) <= Buffer
    /\ relay' = Append(relay, e)
    /\ UNCHANGED <<history, resent, queue, taskVars>>

\* Faulty variant: the channel has no bound.
PutAtOnce(e) ==
    /\ \A o \in Orders : Sender!IsAbout(e, o) => taken[o] < MaxEvents[o]
    /\ queue' = Append(queue, e)

\* A full channel makes its producers wait.
Put(e) ==
    /\ Len(queue) < Buffer
    /\ \A o \in Orders : Sender!IsAbout(e, o) => taken[o] < MaxEvents[o]
    /\ queue' = Append(queue, e)

Forward ==
    /\ relay # << >>
    /\ Put(Head(relay))
    /\ relay' = Tail(relay)
    /\ UNCHANGED <<vars, history, resent, taskVars>>

AnnounceToSender(c) ==
    /\ Announce(c)
    /\ Put(handler[c].event)
    /\ UNCHANGED <<history, relay, resent, taskVars>>

----------------------------------------------------------------------------
(***************************************************************************)
(* The administrator's resend handlers.                                    *)
(***************************************************************************)
Resend(e) ==
    /\ resent' = resent \cup {e}
    /\ Cardinality(InFlight \cup {e}) <= MaxProducers
    /\ UNCHANGED <<vars, history, relay, queue, taskVars>>

\* The order's status of this moment, pending or not.
ResendOrderWebhook(o) ==
    /\ status[o] # "absent"
    /\ Resend(StatusEvent(o, status[o]))

\* Any recorded transfer, unknown or not.
ResendTransferWebhook(t) ==
    /\ tstatus[t] # "absent"
    /\ Resend(UnknownEvent(t))

\* Of two handlers that announce the same, one may still wait.
SendResent(e) ==
    /\ e \in resent
    /\ Put(e)
    /\ resent' \in {resent, resent \ {e}}
    /\ UNCHANGED <<vars, history, relay, taskVars>>

\* The administrator hangs up.
DropResent(e) ==
    /\ resent' = resent \ {e}
    /\ UNCHANGED <<vars, history, relay, queue, taskVars>>

----------------------------------------------------------------------------
\* The sender's two tasks and its clock.
SenderStep ==
    /\ UNCHANGED <<vars, history, relay, resent>>
    /\ \/ Sender!MainStep
       \/ Sender!RetryStep
       \/ \E o \in Orders : Sender!Elapse(o)

\* The process stops and starts again: rows survive, events do not.
CheckoutRestart ==
    /\ Restart
    /\ relay' = << >>
    /\ resent' = {}
    /\ queue' = << >>
    /\ main' = Sender!Idle
    /\ batch' = {}
    /\ retry' = Sender!Idle
    /\ UNCHANGED <<history, success, retries, resting, taken, heard, told>>

CheckoutNext ==
    \/ DatabaseStep
    \/ \E e \in outbox : SendToFanOut(e)
    \/ Forward
    \/ \E c \in Callers : AnnounceToSender(c)
    \/ \E o \in Orders : ResendOrderWebhook(o)
    \/ \E t \in Txs : ResendTransferWebhook(t)
    \/ \E e \in resent : SendResent(e) \/ DropResent(e)
    \/ SenderStep
    \/ CheckoutRestart

CheckoutSpec == CheckoutInit /\ [][CheckoutNext]_systemVars

----------------------------------------------------------------------------
\* The order book, the fan-out and the handlers are producers as the sender's
\* module takes them: none announces a status the row has not, forgets a bound
\* of the channel, or touches a webhook column.
SenderSpec == Sender!Spec

\* The merchant hears that an order is paid only if an administrator marked it or
\* a transfer of its amount is credited to it, and recorded as matched.
PaidIsBacked ==
    \A o \in Orders :
        heard[o] = "paid" =>
            \/ o \in marked
            \/ \E t \in CreditedTo(o) : tstatus[t] = "matched" /\ TxValue[t] = Amount[o]

\* No post the merchant accepts says that an order is settled when it is not,
\* through any delay between the row and the post.
HeardSettled ==
    \A o \in Orders : heard[o] \notin {"none", "pending"} => Settled(o)

----------------------------------------------------------------------------
(***************************************************************************)
(* The inductive invariant: the order book's, and why the statuses an      *)
(* order has had are as good as the one it has.                            *)
(***************************************************************************)
EventsTyped ==
    /\ relay \in Seq(StatusEvents \cup UnknownEvents)
    /\ resent \subseteq StatusEvents \cup UnknownEvents
    /\ been \in [Orders -> SUBSET OrderStatus]

BeenSound == \A o \in Orders : RowStatus[o] \in been[o]

BeenSettled == \A o \in Orders, s \in {"paid", "expired", "cancelled"} :
                    s \in been[o] => Settled(o)

BeenBacked == \A o \in Orders :
                    "paid" \in been[o] => CreditedTo(o) # {} \/ o \in marked

CheckoutIInv ==
    /\ IInv
    /\ EventsTyped
    /\ BeenSound
    /\ BeenSettled
    /\ BeenBacked
=============================================================================
