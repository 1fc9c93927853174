--------------------------- MODULE EventPipeline ---------------------------
(***************************************************************************)
(* From a change of an order's status to the customer's socket, and the    *)
(* graceful shutdown of the tasks on the way.  The watcher sends events to *)
(* a fan-out task, which tells the sockets by a broadcast channel and      *)
(* forwards the event to the webhook sender; cancel_order and mark_paid    *)
(* change a status too, and do both themselves.                            *)
(*                                                                         *)
(* A broadcast channel keeps the last UpdateBuffer updates.  A receiver    *)
(* that falls behind is told so once and goes on with the oldest kept.     *)
(***************************************************************************)
EXTENDS Integers, Sequences

CONSTANTS
    Orders,
    Requests,     \* bound: calls of cancel_order and mark_paid
    Sockets,      \* order status sockets
    About,        \* About[x]: the order of request or socket x
    Buffer,       \* places of a WebhookEvent channel, 256 in the code
    UpdateBuffer, \* places of the broadcast channel, 256 in the code
    Unknown       \* stands for an UnknownTransferReceived event

ASSUME ConstantsAssumption ==
    /\ About \in [Requests \cup Sockets -> Orders]
    /\ Buffer \in Nat \ {0}
    /\ UpdateBuffer \in Nat \ {0}
    /\ Unknown \notin Orders

VARIABLES
    status,     \* status of each order
    request,    \* where each request is
    dropped,    \* orders of requests dropped after they changed the status
    watcher,    \* what the OrderBookWatcher does next
    matched,    \* orders its tick will pay
    outbox,     \* events of its tick still to be sent
    obw,        \* the channel from the watcher to the fan-out task
    fanout,     \* what the fan-out task does next
    updates,    \* every OrderStatusUpdate broadcast, oldest first
    socket,     \* where each socket is
    cursor,     \* the update each socket's receiver reads next
    queued,     \* number of events in the webhook sender's channel
    sender,     \* what the webhook sender's main task does next
    retry,      \* what its retry task does next
    phase       \* of the process

handlerVars == <<request, dropped>>
watcherVars == <<watcher, matched, outbox>>
socketVars  == <<socket, cursor>>
senderVars  == <<sender, retry>>
vars == <<status, handlerVars, watcherVars, obw, fanout, updates, socketVars,
          queued, senderVars, phase>>

\* Channels and tasks as setup_event_pipeline makes them.
Init ==
    /\ status = [o \in Orders |-> "pending"]
    /\ request = [r \in Requests |-> "none"]
    /\ dropped = {}
    /\ watcher = "idle"
    /\ matched = {}
    /\ outbox = {}
    /\ obw = <<>>
    /\ fanout = "idle"
    /\ updates = <<>>
    /\ socket = [s \in Sockets |-> "off"]
    /\ cursor = [s \in Sockets |-> 1]
    /\ queued = 0
    /\ sender = "idle"
    /\ retry = "asleep"
    /\ phase = "serving"

Accepting == phase = "serving"
Signalled == phase \in {"stopping", "stopped"}

Broadcast(o) == updates' = Append(updates, o)

----------------------------------------------------------------------------
(***************************************************************************)
(* cancel_order and mark_paid: read, write without looking again, then an  *)
(* event to the webhook sender, then an update to the sockets.             *)
(***************************************************************************)
Move(r, stage) == request' = [request EXCEPT ![r] = stage]

ReadOrder(r) ==
    /\ Accepting
    /\ request[r] = "none"
    /\ \/ status[About[r]] = "pending" /\ Move(r, "cancel")
       \/ status[About[r]] # "paid" /\ Move(r, "pay")
    /\ UNCHANGED <<status, dropped, watcherVars, obw, fanout, updates, socketVars,
                   queued, senderVars, phase>>

ChangeStatus(r) ==
    /\ request[r] \in {"cancel", "pay"}
    /\ status' = [status EXCEPT ![About[r]] =
                     IF request[r] = "cancel" THEN "cancelled" ELSE "paid"]
    /\ Move(r, "announce")
    /\ UNCHANGED <<dropped, watcherVars, obw, fanout, updates, socketVars,
                   queued, senderVars, phase>>

Announce(r) ==
    /\ request[r] = "announce"
    /\ queued < Buffer
    /\ queued' = queued + 1
    /\ Move(r, "push")
    /\ UNCHANGED <<status, dropped, watcherVars, obw, fanout, updates, socketVars,
                   senderVars, phase>>

Push(r) ==
    /\ request[r] = "push"
    /\ Broadcast(About[r])
    /\ Move(r, "done")
    /\ UNCHANGED <<status, dropped, watcherVars, obw, fanout, socketVars, queued,
                   senderVars, phase>>

\* A client that hangs up takes its request with it, wherever it waits.
HangUp(r) ==
    /\ request[r] \in {"cancel", "pay", "announce"}
    /\ dropped' = IF request[r] = "announce" THEN dropped \cup {About[r]} ELSE dropped
    /\ Move(r, "done")
    /\ UNCHANGED <<status, watcherVars, obw, fanout, updates, socketVars, queued,
                   senderVars, phase>>

----------------------------------------------------------------------------
(***************************************************************************)
(* The OrderBookWatcher.  It looks for the shutdown signal between ticks,  *)
(* and a tick ends when its events are sent.                               *)
(***************************************************************************)
ReadDeposits ==
    /\ watcher = "idle" /\ outbox = {}
    /\ ~Signalled
    /\ \E S \in SUBSET {o \in Orders : status[o] = "pending"} : matched' = S
    /\ watcher' = "commit"
    /\ UNCHANGED <<status, handlerVars, outbox, obw, fanout, updates, socketVars,
                   queued, senderVars, phase>>

\* The crediting transaction pays the orders whatever their status is now.  Old
\* transfers may have been found.
CommitMatches ==
    /\ watcher = "commit"
    /\ status' = [o \in Orders |-> IF o \in matched THEN "paid" ELSE status[o]]
    /\ \E old \in SUBSET {Unknown} : outbox' = matched \cup old
    /\ matched' = {}
    /\ watcher' = "idle"
    /\ UNCHANGED <<handlerVars, obw, fanout, updates, socketVars, queued,
                   senderVars, phase>>

FailTick ==
    /\ watcher = "commit"
    /\ matched' = {}
    /\ watcher' = "idle"
    /\ UNCHANGED <<status, handlerVars, outbox, obw, fanout, updates, socketVars,
                   queued, senderVars, phase>>

SendEvent ==
    /\ Len(obw) < Buffer
    /\ \E e \in outbox :
         /\ outbox' = outbox \ {e}
         /\ obw' = Append(obw, e)
    /\ UNCHANGED <<status, handlerVars, watcher, matched, fanout, updates,
                   socketVars, queued, senderVars, phase>>

\* Faulty variant: the signal is looked for between two events.
StopBetweenEvents ==
    /\ watcher = "idle"
    /\ Signalled
    /\ watcher' = "done"
    /\ UNCHANGED <<status, handlerVars, matched, outbox, obw, fanout, updates,
                   socketVars, queued, senderVars, phase>>

StopWatcher ==
    /\ watcher = "idle" /\ outbox = {}
    /\ Signalled
    /\ watcher' = "done"
    /\ UNCHANGED <<status, handlerVars, matched, outbox, obw, fanout, updates,
                   socketVars, queued, senderVars, phase>>

----------------------------------------------------------------------------
(***************************************************************************)
(* The fan-out task.                                                       *)
(***************************************************************************)

\* An event is broadcast as soon as it is taken, and then forwarded.
TakeEvent ==
    /\ fanout = "idle"
    /\ obw # <<>>
    /\ obw' = Tail(obw)
    /\ IF Head(obw) = Unknown THEN UNCHANGED updates ELSE Broadcast(Head(obw))
    /\ fanout' = "forward"
    /\ UNCHANGED <<status, handlerVars, watcherVars, socketVars, queued,
                   senderVars, phase>>

\* Faulty variant: the channel has no bound.
ForwardAtOnce ==
    /\ fanout = "forward"
    /\ queued' = queued + 1
    /\ fanout' = "idle"
    /\ UNCHANGED <<status, handlerVars, watcherVars, obw, updates, socketVars,
                   senderVars, phase>>

\* Faulty variant: the channel of a sender that has ended stays open.
ForwardOrWait ==
    /\ fanout = "forward"
    /\ queued < Buffer
    /\ queued' = queued + 1
    /\ fanout' = "idle"
    /\ UNCHANGED <<status, handlerVars, watcherVars, obw, updates, socketVars,
                   senderVars, phase>>

\* It waits for a place, unless the sender has ended and with it its channel:
\* then the event is dropped.
Forward ==
    /\ fanout = "forward"
    /\ \/ sender # "done" /\ queued < Buffer /\ queued' = queued + 1
       \/ sender = "done" /\ UNCHANGED queued
    /\ fanout' = "idle"
    /\ UNCHANGED <<status, handlerVars, watcherVars, obw, updates, socketVars,
                   senderVars, phase>>

\* The channel is closed when the watcher has ended.
StopFanOut ==
    /\ fanout = "idle"
    /\ obw = <<>>
    /\ watcher = "done"
    /\ fanout' = "done"
    /\ UNCHANGED <<status, handlerVars, watcherVars, obw, updates, socketVars,
                   queued, senderVars, phase>>

----------------------------------------------------------------------------
(***************************************************************************)
(* An order status socket.                                                 *)
(***************************************************************************)
At(s, where) == socket' = [socket EXCEPT ![s] = where]

Subscribe(s) ==
    /\ Accepting
    /\ socket[s] = "off"
    /\ At(s, "read")
    /\ cursor' = [cursor EXCEPT ![s] = Len(updates) + 1]
    /\ UNCHANGED <<status, handlerVars, watcherVars, obw, fanout, updates, queued,
                   senderVars, phase>>

\* Faulty variant: the connection stays open whatever the status.
ReadOnce(s) ==
    /\ socket[s] = "read"
    /\ At(s, "relay")
    /\ UNCHANGED <<status, handlerVars, watcherVars, obw, fanout, updates, cursor,
                   queued, senderVars, phase>>

\* The status is read and sent; a final one closes the connection, and so does
\* a query on a closed pool.
ReadStatus(s) ==
    /\ socket[s] = "read"
    /\ At(s, CASE phase = "stopped"             -> "off"
               [] status[About[s]] = "pending" -> "relay"
               [] OTHER                        -> "closed")
    /\ UNCHANGED <<status, handlerVars, watcherVars, obw, fanout, updates, cursor,
                   queued, senderVars, phase>>

OldestKept ==
    IF Len(updates) > UpdateBuffer THEN Len(updates) - UpdateBuffer + 1 ELSE 1

\* Faulty variant: a receiver that lagged goes on without a look at the order.
SkipLagged(s) ==
    /\ socket[s] = "relay"
    /\ cursor[s] <= Len(updates)
    /\ IF cursor[s] < OldestKept
         THEN /\ cursor' = [cursor EXCEPT ![s] = OldestKept]
              /\ UNCHANGED socket
         ELSE /\ cursor' = [cursor EXCEPT ![s] = @ + 1]
              /\ IF updates[cursor[s]] = About[s] THEN At(s, "read") ELSE UNCHANGED socket
    /\ UNCHANGED <<status, handlerVars, watcherVars, obw, fanout, updates, queued,
                   senderVars, phase>>

\* An update of another order is skipped; after one of its own, or a lag, the
\* status is read again.
Receive(s) ==
    /\ socket[s] = "relay"
    /\ cursor[s] <= Len(updates)
    /\ IF cursor[s] < OldestKept
         THEN /\ cursor' = [cursor EXCEPT ![s] = OldestKept]
              /\ At(s, "read")
         ELSE /\ cursor' = [cursor EXCEPT ![s] = @ + 1]
              /\ IF updates[cursor[s]] = About[s] THEN At(s, "read") ELSE UNCHANGED socket
    /\ UNCHANGED <<status, handlerVars, watcherVars, obw, fanout, updates, queued,
                   senderVars, phase>>

\* A query fails, or the client disconnects.
Disconnect(s) ==
    /\ socket[s] \in {"read", "relay"}
    /\ At(s, "off")
    /\ UNCHANGED <<status, handlerVars, watcherVars, obw, fanout, updates, cursor,
                   queued, senderVars, phase>>

----------------------------------------------------------------------------
(***************************************************************************)
(* The webhook sender: main task and retry task, without what they send.   *)
(***************************************************************************)
SenderReceive ==
    /\ sender = "idle"
    /\ ~Signalled
    /\ queued > 0
    /\ queued' = queued - 1
    /\ sender' = "busy"
    /\ UNCHANGED <<status, handlerVars, watcherVars, obw, fanout, updates,
                   socketVars, retry, phase>>

SenderFinish ==
    /\ sender = "busy"
    /\ sender' = "idle"
    /\ UNCHANGED <<status, handlerVars, watcherVars, obw, fanout, updates,
                   socketVars, queued, retry, phase>>

\* Faulty variant: the main task leaves the retry task behind.
EndAlone ==
    /\ sender = "idle"
    /\ Signalled
    /\ sender' = "done"
    /\ UNCHANGED <<status, handlerVars, watcherVars, obw, fanout, updates,
                   socketVars, queued, retry, phase>>

\* The signal is looked for before the channel: what is queued stays there.  The
\* main task then waits for the retry task.
EndSender ==
    /\ sender = "idle"
    /\ Signalled
    /\ retry = "done"
    /\ sender' = "done"
    /\ UNCHANGED <<status, handlerVars, watcherVars, obw, fanout, updates,
                   socketVars, queued, retry, phase>>

\* The retry task wakes up, works, and stops between two batches.
MoveRetry(a, b) ==
    /\ retry = a
    /\ retry' = b
    /\ UNCHANGED <<status, handlerVars, watcherVars, obw, fanout, updates,
                   socketVars, queued, sender, phase>>

StartRetry  == ~Signalled /\ MoveRetry("asleep", "batch")
FinishRetry == MoveRetry("batch", "asleep")
StopRetry   == Signalled /\ MoveRetry("asleep", "done")

----------------------------------------------------------------------------
(***************************************************************************)
(* The process.                                                            *)
(***************************************************************************)
Enter(p) ==
    /\ phase' = p
    /\ UNCHANGED <<status, handlerVars, watcherVars, obw, fanout, updates,
                   socketVars, queued, senderVars>>

\* SIGTERM or SIGINT: no more connections.
StopServing == Accepting /\ Enter("closing")

\* Faulty variant: the requests are not waited for.
SignalAtOnce ==
    /\ phase = "closing"
    /\ Enter("stopping")

\* run_server returns when the requests are answered; sockets do not count.
SignalShutdown ==
    /\ phase = "closing"
    /\ \A r \in Requests : request[r] \in {"none", "done"}
    /\ Enter("stopping")

TasksEnded == watcher = "done" /\ fanout = "done" /\ sender = "done"

\* The tasks are joined, then the pool is closed.
ClosePool ==
    /\ phase = "stopping"
    /\ TasksEnded
    /\ Enter("stopped")

\* A crash, or a start after a stop: only the rows remain.
Restart ==
    /\ request' = [r \in Requests |-> "none"]
    /\ dropped' = {}
    /\ watcher' = "idle"
    /\ matched' = {}
    /\ outbox' = {}
    /\ obw' = <<>>
    /\ fanout' = "idle"
    /\ updates' = <<>>
    /\ socket' = [s \in Sockets |-> "off"]
    /\ cursor' = [s \in Sockets |-> 1]
    /\ queued' = 0
    /\ sender' = "idle"
    /\ retry' = "asleep"
    /\ phase' = "serving"
    /\ UNCHANGED status

HandlerStep(r) == ChangeStatus(r) \/ Announce(r) \/ Push(r)
WatcherStep    == ReadDeposits \/ CommitMatches \/ FailTick \/ SendEvent
                  \/ StopWatcher
FanOutStep     == TakeEvent \/ Forward \/ StopFanOut
SocketStep(s)  == ReadStatus(s) \/ Receive(s)
SenderStep     == SenderReceive \/ SenderFinish \/ EndSender
RetryStep      == StartRetry \/ FinishRetry \/ StopRetry

Next ==
    \/ \E r \in Requests : ReadOrder(r) \/ HandlerStep(r) \/ HangUp(r)
    \/ WatcherStep
    \/ FanOutStep
    \/ \E s \in Sockets : Subscribe(s) \/ SocketStep(s) \/ Disconnect(s)
    \/ SenderStep
    \/ RetryStep
    \/ StopServing
    \/ SignalShutdown
    \/ ClosePool
    \/ Restart

Spec == Init /\ [][Next]_vars

(***************************************************************************)
(* Fairness: a task that can go on does.  A full channel gives its places  *)
(* to those that wait in their order, so each gets one.  Nothing is        *)
(* assumed of clients, signals, or restarts.                               *)
(***************************************************************************)
FairSpec ==
    /\ Spec
    /\ \A r \in Requests : WF_vars(HandlerStep(r)) /\ SF_vars(Announce(r))
    /\ WF_vars(WatcherStep)
    /\ WF_vars(FanOutStep) /\ SF_vars(Forward)
    /\ \A s \in Sockets : WF_vars(SocketStep(s))
    /\ WF_vars(SenderStep)
    /\ WF_vars(RetryStep)
    /\ WF_vars(SignalShutdown)
    /\ WF_vars(ClosePool)

----------------------------------------------------------------------------
TypeOK ==
    /\ status \in [Orders -> {"pending", "paid", "cancelled"}]
    /\ request \in [Requests -> {"none", "cancel", "pay", "announce", "push", "done"}]
    /\ dropped \subseteq Orders
    /\ watcher \in {"idle", "commit", "done"}
    /\ matched \subseteq Orders
    /\ outbox \subseteq Orders \cup {Unknown}
    /\ obw \in Seq(Orders \cup {Unknown}) /\ Len(obw) <= Buffer
    /\ fanout \in {"idle", "forward", "done"}
    /\ updates \in Seq(Orders)
    /\ socket \in [Sockets -> {"off", "read", "relay", "closed"}]
    /\ cursor \in [Sockets -> Nat \ {0}]
    /\ queued \in 0 .. Buffer
    /\ sender \in {"idle", "busy", "done"}
    /\ retry \in {"asleep", "batch", "done"}
    /\ phase \in {"serving", "closing", "stopping", "stopped"}

\* An update of order o that socket s has not read, or that is on its way.
InChannel(s, o) == \E k \in cursor[s] .. Len(updates) : updates[k] = o
OnItsWay(o) ==
    \/ o \in outbox
    \/ \E i \in 1 .. Len(obw) : obw[i] = o
    \/ \E r \in Requests : About[r] = o /\ request[r] \in {"announce", "push"}

\* A socket that waits, having told its client "pending", has an update coming
\* once the order is anything else: the change may fall between subscription
\* and read, between two reads, or behind a lag.  Only a request dropped
\* between its change and its update leaves the socket without.
NoMissedUpdate ==
    \A s \in Sockets :
        LET o == About[s] IN
        socket[s] = "relay" /\ status[o] # "pending" =>
            InChannel(s, o) \/ OnItsWay(o) \/ o \in dropped

\* When the pool is closed no task is left that would query it, the retry task
\* included, whose handle nobody joins but the sender.
PoolOutlivesTasks == phase = "stopped" => TasksEnded /\ retry = "done"

\* A graceful stop leaves no event on its way to the sockets, in a handler, in
\* the watcher or in its channel: each is drained before the next one ends, full
\* channels or not.  Only what a sender that has ended does not take is lost.
ShutdownDrains == phase = "stopped" => \A e \in Orders \cup {Unknown} : ~OnItsWay(e)

\* A channel with something to be sent to it has its reader, the fan-out's events
\* to a sender that has ended excepted: no send of the watcher or of a handler
\* fails on a closed channel, whatever the moment of the signal.
ReceiversOutliveSenders ==
    /\ outbox # {} \/ obw # <<>> => fanout # "done"
    /\ \A r \in Requests : request[r] = "announce" => sender # "done"

\* A client that waits hears of the change and is closed, or is gone.
ClientHears ==
    \A s \in Sockets :
        socket[s] = "relay" /\ status[About[s]] # "pending" ~>
            socket[s] \in {"closed", "off"} \/ About[s] \in dropped

\* A shutdown is completed, full channels or not, unless the process crashes.
ShutdownCompletes == phase = "closing" ~> phase \in {"stopped", "serving"}

----------------------------------------------------------------------------
(***************************************************************************)
(* The inductive invariant.                                                *)
(***************************************************************************)
CursorSound == \A s \in Sockets : cursor[s] <= Len(updates) + 1

OutboxSound ==
    /\ watcher # "idle" => outbox = {}
    /\ watcher # "commit" => matched = {}

EndsInOrder ==
    /\ watcher = "done" \/ sender = "done" \/ retry = "done" => Signalled
    /\ fanout = "done" => watcher = "done" /\ obw = <<>>
    /\ sender = "done" => retry = "done"
    /\ Signalled => \A r \in Requests : request[r] \in {"none", "done"}

IInv ==
    /\ TypeOK
    /\ NoMissedUpdate
    /\ PoolOutlivesTasks
    /\ CursorSound
    /\ OutboxSound
    /\ EndsInOrder
=============================================================================
