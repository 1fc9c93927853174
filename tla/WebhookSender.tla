--------------------------- MODULE WebhookSender ---------------------------
(***************************************************************************)
(* Delivery of webhooks.  The API handlers and the watcher change an       *)
(* order's status and put an event into a bounded channel.  The sender's   *)
(* main task takes one event at a time, posts it to the merchant and       *)
(* records the outcome in the order's row; every ten seconds a second task *)
(* reads a batch of undelivered orders that are due and does the same with *)
(* the status it read.  The two tasks share nothing but the rows.          *)
(*                                                                         *)
(* Time is abstract: an order rests after a failure until its back-off is  *)
(* over, which happens at some later moment.  Events about unknown         *)
(* transfers pass the same channel and are posted once.                    *)
(***************************************************************************)
EXTENDS Naturals, FiniteSets, Sequences

CONSTANTS
    Orders,
    Txs,              \* transfers reported as unknown
    MaxRetryCount,    \* MAX_RETRY_COUNT, 11 in the code
    Limit,            \* orders per query of the retry task, 10 in the code
    Buffer,           \* DEFAULT_CHANNEL_BUFFER, 256 in the code
    MaxProducers,     \* bound: producers between an update and its event
    MaxEvents         \* bound: status events taken about an order

ASSUME ConstantsAssumption ==
    /\ MaxRetryCount \in Nat
    /\ Limit \in Nat \ {0}
    /\ Buffer \in Nat \ {0}
    /\ MaxProducers \in Nat
    /\ MaxEvents \in [Orders -> Nat]

VARIABLES
    status,     \* order_records.status
    been,       \* every status each order has had
    success,    \* orders with a webhook_success_at
    retries,    \* webhook_retry_count
    resting,    \* orders whose back-off since webhook_last_tried_at lasts
    announced,  \* events their producers have yet to put into the channel
    queue,      \* the channel of webhook events
    taken,      \* how many status events the main task took, for each order
    main,       \* what the main task does next
    batch,      \* orders the retry task has read and not yet posted
    retry,      \* what the retry task does next
    heard,      \* the status in the last post the merchant accepted, or none
    told        \* unknown transfers the merchant was told of

statusVars   == <<status, been>>
orderVars    == <<statusVars, success, retries, resting>>
channelVars  == <<announced, queue, taken>>
merchantVars == <<heard, told>>
vars == <<orderVars, channelVars, main, batch, retry, merchantVars>>

OrderStatus == {"pending", "paid", "expired", "cancelled"}

\* Faulty variant: the arguments are swapped.
SwappedEvent(o, s) == [order |-> s, new_status |-> o]

StatusEvent(o, s) == [order |-> o, new_status |-> s]
StatusEvents  == [order : Orders, new_status : OrderStatus]
UnknownEvents == [unknown : Txs]
Events == StatusEvents \cup UnknownEvents

IsAbout(e, o) == e \in StatusEvents /\ e.order = o

Idle   == [at |-> "idle"]
Record == [at : {"mark", "count"}, order : Orders]

Init ==
    /\ status = [o \in Orders |-> "pending"]
    /\ been = [o \in Orders |-> {"pending"}]
    /\ success = {}
    /\ retries = [o \in Orders |-> 0]
    /\ resting = {}
    /\ announced = {}
    /\ queue = << >>
    /\ taken = [o \in Orders |-> 0]
    /\ main = Idle
    /\ batch = {}
    /\ retry = Idle
    /\ heard = [o \in Orders |-> "none"]
    /\ told = {}

----------------------------------------------------------------------------
(***************************************************************************)
(* The producers: the watcher, behind its fan-out, and the API handlers.   *)
(***************************************************************************)

Announce(E) ==
    /\ Cardinality(announced \cup E) <= MaxProducers
    /\ announced' = announced \cup E

\* Faulty variant: the event is announced and the update fails.
AnnounceFirst(S, s) ==
    /\ Announce({StatusEvent(o, s) : o \in S})
    /\ UNCHANGED <<orderVars, queue, taken, main, batch, retry, merchantVars>>

\* cancel_order and mark_paid settle one order, the watcher's transaction pays
\* the orders of all its matches; none of them looks at the status it overwrites.
SetStatus(S, s) ==
    /\ status' = [o \in Orders |-> IF o \in S THEN s ELSE status[o]]
    /\ been' = [o \in Orders |-> IF o \in S THEN been[o] \cup {s} ELSE been[o]]
    /\ Announce({StatusEvent(o, s) : o \in S})
    /\ UNCHANGED <<success, retries, resting, queue, taken, main, batch, retry, merchantVars>>

\* resend_order_webhook announces the status it read, pending or not.
ResendOrderWebhook(o) ==
    /\ Announce({StatusEvent(o, status[o])})
    /\ UNCHANGED <<orderVars, queue, taken, main, batch, retry, merchantVars>>

\* The old transfers a tick has found, or the one an administrator names.
ReportUnknown(T) ==
    /\ Announce({[unknown |-> t] : t \in T})
    /\ UNCHANGED <<orderVars, queue, taken, main, batch, retry, merchantVars>>

\* A full channel makes its producers wait.  Of two that announce the same,
\* one may still wait.
Send(e) ==
    /\ e \in announced
    /\ Len(queue) < Buffer
    /\ \A o \in Orders : IsAbout(e, o) => taken[o] < MaxEvents[o]
    /\ announced' \in {announced, announced \ {e}}
    /\ queue' = Append(queue, e)
    /\ UNCHANGED <<orderVars, taken, main, batch, retry, merchantVars>>

\* A request is dropped, or a tick fails, between its update and its events.
LoseEvents(E) ==
    /\ announced' = announced \ E
    /\ UNCHANGED <<orderVars, queue, taken, main, batch, retry, merchantVars>>

----------------------------------------------------------------------------
(***************************************************************************)
(* One post and the call that records it.  The merchant may accept a post  *)
(* whose answer never arrives: to the sender that is a failure.            *)
(***************************************************************************)
Outcomes == {"acknowledged", "unheard", "failed"}

Post(o, s, outcome) ==
    heard' = IF outcome = "failed" THEN heard ELSE [heard EXCEPT ![o] = s]

\* Faulty variant: an unheard answer is taken for an acknowledgement, and so
\* is a refusal.
MarkAnyway(o, outcome) == [at |-> "mark", order |-> o]

AfterPost(o, outcome) ==
    [at |-> IF outcome = "acknowledged" THEN "mark" ELSE "count", order |-> o]

MarkOrderWebhookSuccess(o) ==
    /\ success' = success \cup {o}
    /\ UNCHANGED <<statusVars, retries, resting>>

\* Faulty variant: the time of the last attempt alone is updated.
TouchLastTried(o) ==
    /\ resting' = resting \cup {o}
    /\ UNCHANGED <<statusVars, success, retries>>

IncrementOrderWebhookRetryCount(o) ==
    /\ retries' = [retries EXCEPT ![o] = @ + 1]
    /\ resting' = resting \cup {o}
    /\ UNCHANGED <<statusVars, success>>

\* The update a task has decided on, and the task's next state.
RecordOutcome(task) ==
    \/ task.at = "mark" /\ MarkOrderWebhookSuccess(task.order)
    \/ task.at = "count" /\ IncrementOrderWebhookRetryCount(task.order)

\* webhook_last_tried_at + 2^webhook_retry_count seconds passes.
Elapse(o) ==
    /\ o \in resting
    /\ resting' = resting \ {o}
    /\ UNCHANGED <<statusVars, success, retries, channelVars, main, batch, retry, merchantVars>>

----------------------------------------------------------------------------
(***************************************************************************)
(* The main task.                                                          *)
(***************************************************************************)

\* The event is taken and, for a status, the row with its URL is read.
Receive ==
    /\ main = Idle
    /\ queue # << >>
    /\ main' = [at |-> "post", event |-> Head(queue)]
    /\ queue' = Tail(queue)
    /\ taken' = [o \in Orders |->
            IF IsAbout(Head(queue), o) THEN taken[o] + 1 ELSE taken[o]]
    /\ UNCHANGED <<orderVars, announced, batch, retry, merchantVars>>

\* The payload has the event's status, whatever the row's status is by now.
SendOrderStatusWebhook(outcome) ==
    /\ main.at = "post"
    /\ main.event \in StatusEvents
    /\ Post(main.event.order, main.event.new_status, outcome)
    /\ main' = AfterPost(main.event.order, outcome)
    /\ UNCHANGED <<orderVars, channelVars, batch, retry, told>>

\* Posted once if a URL is configured; the outcome is only logged.
SendUnknownTransferWebhook(t, outcome) ==
    /\ main.at = "post"
    /\ main.event = [unknown |-> t]
    /\ told' = IF outcome = "failed" THEN told ELSE told \cup {t}
    /\ main' = Idle
    /\ UNCHANGED <<orderVars, channelVars, batch, retry, heard>>

RecordMain ==
    /\ main.at \in {"mark", "count"}
    /\ RecordOutcome(main)
    /\ main' = Idle
    /\ UNCHANGED <<channelVars, batch, retry, merchantVars>>

\* A failed query or update ends the processing of the event.
FailMain ==
    /\ main # Idle
    /\ main' = Idle
    /\ UNCHANGED <<orderVars, channelVars, batch, retry, merchantVars>>

----------------------------------------------------------------------------
(***************************************************************************)
(* The retry task.                                                         *)
(***************************************************************************)
Exhausted(o) == retries[o] >= MaxRetryCount

Due == {o \in Orders \ (success \cup resting) :
            status[o] # "pending" /\ ~Exhausted(o)}

\* Faulty variant: a batch is read while another is being posted.
ReadAgain ==
    /\ \E S \in SUBSET Due :
         /\ S # {}
         /\ Cardinality(S) <= Limit
         /\ batch' = batch \cup {StatusEvent(o, status[o]) : o \in S}
    /\ UNCHANGED <<orderVars, channelVars, main, retry, merchantVars>>

\* LIMIT without ORDER BY: any orders that are due, as many as allowed.
GetOrdersForWebhookRetry ==
    /\ retry = Idle
    /\ batch = {}
    /\ \E S \in SUBSET Due :
         /\ S # {}
         /\ Cardinality(S) <= Limit
         /\ Cardinality(S) < Limit => S = Due
         /\ batch' = {StatusEvent(o, status[o]) : o \in S}
    /\ UNCHANGED <<orderVars, channelVars, main, retry, merchantVars>>

RetryPost(e, outcome) ==
    /\ retry = Idle
    /\ e \in batch
    /\ Post(e.order, e.new_status, outcome)
    /\ batch' = batch \ {e}
    /\ retry' = AfterPost(e.order, outcome)
    /\ UNCHANGED <<orderVars, channelVars, main, told>>

RecordRetry ==
    /\ retry # Idle
    /\ RecordOutcome(retry)
    /\ retry' = Idle
    /\ UNCHANGED <<channelVars, main, batch, merchantVars>>

\* A failed update ends the batch.
FailRetry ==
    /\ retry # Idle
    /\ retry' = Idle
    /\ batch' = {}
    /\ UNCHANGED <<orderVars, channelVars, main, merchantVars>>

----------------------------------------------------------------------------
\* The process stops and starts again: rows survive, events do not.
Restart ==
    /\ announced' = {}
    /\ queue' = << >>
    /\ main' = Idle
    /\ batch' = {}
    /\ retry' = Idle
    /\ UNCHANGED <<orderVars, taken, merchantVars>>

Produce ==
    \/ \E o \in Orders : SetStatus({o}, "cancelled") \/ ResendOrderWebhook(o)
    \/ \E S \in SUBSET Orders : SetStatus(S, "paid")
    \/ \E T \in SUBSET Txs : ReportUnknown(T)
    \/ \E e \in announced : Send(e)
    \/ \E E \in SUBSET announced : LoseEvents(E)

MainStep ==
    \/ Receive
    \/ \E outcome \in Outcomes : SendOrderStatusWebhook(outcome)
    \/ \E t \in Txs, outcome \in Outcomes : SendUnknownTransferWebhook(t, outcome)
    \/ RecordMain
    \/ FailMain

RetryStep ==
    \/ GetOrdersForWebhookRetry
    \/ \E e \in batch, outcome \in Outcomes : RetryPost(e, outcome)
    \/ RecordRetry
    \/ FailRetry

Next ==
    \/ Produce
    \/ MainStep
    \/ RetryStep
    \/ \E o \in Orders : Elapse(o)
    \/ Restart

Spec == Init /\ [][Next]_vars

(***************************************************************************)
(* Fairness: time passes; the retry task wakes up every ten seconds; a     *)
(* post that is due again and again is made, and recording one does not    *)
(* fail for ever.  Nothing is assumed of the channel, the main task or the *)
(* merchant.                                                               *)
(***************************************************************************)
RetryFairness(o) ==
    /\ WF_vars(Elapse(o))
    /\ SF_vars(\E e \in batch, outcome \in Outcomes : e.order = o /\ RetryPost(e, outcome))
    /\ SF_vars(retry # Idle /\ retry.order = o /\ RecordRetry)

FairSpec ==
    /\ Spec
    /\ WF_vars(GetOrdersForWebhookRetry)
    /\ \A o \in Orders : RetryFairness(o)

----------------------------------------------------------------------------
TypeOK ==
    /\ status \in [Orders -> OrderStatus]
    /\ been \in [Orders -> SUBSET OrderStatus]
    /\ success \subseteq Orders
    /\ retries \in [Orders -> Nat]
    /\ resting \subseteq Orders
    /\ announced \subseteq Events
    /\ queue \in Seq(Events)
    /\ taken \in [Orders -> Nat]
    /\ main \in {Idle} \cup [at : {"post"}, event : Events] \cup Record
    /\ batch \subseteq StatusEvents
    /\ retry \in {Idle} \cup Record
    /\ heard \in [Orders -> {"none"} \cup OrderStatus]
    /\ told \subseteq Txs

\* A webhook is recorded as delivered only if the merchant accepted one about
\* the order, whichever task posted it and whatever stopped in between.
SuccessWasAccepted == \A o \in success : heard[o] # "none"

\* No post the merchant accepts reports a status the order never had, however
\* old it is: the events wait behind others, are resent, and are posted again
\* from a batch read before the last change.
HeardWas == \A o \in Orders : heard[o] # "none" => heard[o] \in been[o]

\* The retry limit holds against both tasks counting at once: beyond it go
\* only the failures of events, at most one for each event taken.
RetriesBounded == \A o \in Orders : retries[o] <= MaxRetryCount + taken[o]

\* A settled order is delivered or retried to the limit, though its event may
\* be lost before or after it reaches the channel, the process restarts, and
\* other orders compete for the places in a batch.
SettledOrderRetried ==
    \A o \in Orders : status[o] # "pending" ~> o \in success \/ Exhausted(o)

----------------------------------------------------------------------------
(***************************************************************************)
(* The inductive invariant: what each task holds between a post and the    *)
(* update that records it.                                                 *)
(***************************************************************************)
MarksAccepted ==
    \A task \in {main, retry} : task.at = "mark" => heard[task.order] # "none"

\* The retry task has at most one post of an order to make or to record.
BatchSound ==
    /\ \A e, f \in batch : e.order = f.order => e = f
    /\ retry # Idle => \A e \in batch : e.order # retry.order

\* The events that may still be posted.
InSystem ==
    announced \cup batch \cup {queue[i] : i \in 1 .. Len(queue)}
        \cup (IF main.at = "post" THEN {main.event} ELSE {})

\* An event is about a status its order has had, and the row's is the last.
EventsWere ==
    /\ \A o \in Orders : status[o] \in been[o]
    /\ \A e \in InSystem \cap StatusEvents : e.new_status \in been[e.order]

MainOwes(o) ==
    \/ main.at = "post" /\ IsAbout(main.event, o)
    \/ main.at = "count" /\ main.order = o

RetryOwes(o) ==
    \/ \E e \in batch : e.order = o
    \/ retry.at = "count" /\ retry.order = o

\* Every failure still to be counted has its place under the bound.
RetriesReserved ==
    \A o \in Orders :
        LET mainOwes  == IF MainOwes(o) THEN 1 ELSE 0
            retryOwes == IF RetryOwes(o) THEN 1 ELSE 0
        IN  /\ mainOwes <= taken[o]
            /\ retries[o] + mainOwes + retryOwes <= MaxRetryCount + taken[o]

IInv ==
    /\ TypeOK
    /\ SuccessWasAccepted
    /\ HeardWas
    /\ EventsWere
    /\ MarksAccepted
    /\ BatchSound
    /\ RetriesReserved
=============================================================================
