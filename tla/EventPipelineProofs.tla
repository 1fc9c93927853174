------------------------ MODULE EventPipelineProofs ------------------------
(***************************************************************************)
(* EventPipeline for every set of orders, requests and sockets and for     *)
(* channels of every size: IInv is inductive, and NoMissedUpdate and       *)
(* PoolOutlivesTasks are parts of it.                                      *)
(*                                                                         *)
(* The argument: an update passes from the writer's hands to the channel,  *)
(* from there to the broadcast, and is read behind the receiver's cursor   *)
(* only by a look at the order; a lag is such a look as well.              *)
(***************************************************************************)
EXTENDS EventPipeline, TLAPS

USE ConstantsAssumption

\* The order of a socket, or of a request, is an order.
LEMMA AboutOrders ==
  /\ \A s \in Sockets : About[s] \in Orders
  /\ \A r \in Requests : About[r] \in Orders
  OBVIOUS

\* What NoMissedUpdate says of one socket.
Served(s) ==
    socket[s] = "relay" /\ status[About[s]] # "pending" =>
        InChannel(s, About[s]) \/ OnItsWay(About[s]) \/ About[s] \in dropped

LEMMA NoMissedUpdateParts == NoMissedUpdate <=> \A s \in Sockets : Served(s)
  BY DEF NoMissedUpdate, Served

\* Nothing has started.
LEMMA InitIInv == Init => IInv
<1> SUFFICES ASSUME Init PROVE IInv
  OBVIOUS
<1> USE DEF Init
<1>1. TypeOK
  BY DEF TypeOK
<1>2. NoMissedUpdate /\ PoolOutlivesTasks /\ CursorSound /\ OutboxSound
  BY DEF NoMissedUpdate, PoolOutlivesTasks, CursorSound, OutboxSound
<1>3. EndsInOrder
  BY DEF EndsInOrder, Signalled
<1> QED
  BY <1>1, <1>2, <1>3 DEF IInv

\* A crash leaves no socket and no update.
LEMMA RestartIInv ==
  ASSUME IInv, Restart
  PROVE  IInv'
<1> USE DEF Restart
<1>1. TypeOK'
  BY DEF IInv, TypeOK
<1>2. NoMissedUpdate' /\ PoolOutlivesTasks' /\ CursorSound' /\ OutboxSound'
  BY DEF NoMissedUpdate, PoolOutlivesTasks, CursorSound, OutboxSound
<1>3. EndsInOrder'
  BY DEF EndsInOrder, Signalled
<1> QED
  BY <1>1, <1>2, <1>3 DEF IInv

\* A step that keeps what is on its way, the sockets and the statuses.
LEMMA ServedKept ==
  ASSUME IInv, UNCHANGED <<status, dropped, socketVars, updates>>,
         \A o \in Orders : OnItsWay(o) => OnItsWay(o)'
  PROVE  NoMissedUpdate'
<1> SUFFICES ASSUME NEW s \in Sockets PROVE Served(s)'
  BY DEF NoMissedUpdate, Served
<1>1. Served(s)
  BY NoMissedUpdateParts DEF IInv
<1>2. InChannel(s, About[s]) => InChannel(s, About[s])'
  BY DEF InChannel, socketVars
<1> QED
  BY <1>1, <1>2, AboutOrders DEF Served, socketVars

\* A longer list of updates keeps what receivers have not read.
LEMMA Appended ==
  ASSUME TypeOK, CursorSound, NEW o \in Orders, Broadcast(o)
  PROVE  /\ updates' \in Seq(Orders)
         /\ Len(updates') = Len(updates) + 1
         /\ updates'[Len(updates) + 1] = o
         /\ \A k \in 1 .. Len(updates) : updates'[k] = updates[k]
  BY DEF TypeOK, Broadcast

LEMMA InChannelKept ==
  ASSUME TypeOK, CursorSound, NEW o \in Orders, Broadcast(o),
         UNCHANGED cursor, NEW s \in Sockets
  PROVE  /\ InChannel(s, o)'
         /\ \A p \in Orders : InChannel(s, p) => InChannel(s, p)'
<1>1. /\ cursor[s] \in Nat \ {0} /\ Len(updates) \in Nat
      /\ cursor[s] <= Len(updates) + 1
  BY DEF TypeOK, CursorSound
<1>2. /\ Len(updates') = Len(updates) + 1
      /\ updates'[Len(updates) + 1] = o
      /\ \A k \in 1 .. Len(updates) : updates'[k] = updates[k]
  BY Appended
<1>3. InChannel(s, o)'
  <2>1. Len(updates) + 1 \in cursor[s] .. Len(updates')
    BY <1>1, <1>2
  <2> QED
    BY <1>2, <2>1 DEF InChannel
<1>4. ASSUME NEW p \in Orders, InChannel(s, p)
      PROVE  InChannel(s, p)'
  <2>1. PICK k \in cursor[s] .. Len(updates) : updates[k] = p
    BY <1>4 DEF InChannel
  <2>2. k \in cursor[s] .. Len(updates') /\ updates'[k] = p
    BY <1>1, <1>2, <2>1
  <2> QED
    BY <2>2 DEF InChannel
<1> QED
  BY <1>3, <1>4

\* The read of a request moves nothing.
LEMMA ReadOrderIInv ==
  ASSUME IInv, NEW r \in Requests, ReadOrder(r)
  PROVE  IInv'
<1> USE DEF ReadOrder, Move, watcherVars, socketVars, senderVars
<1>1. TypeOK'
  BY DEF IInv, TypeOK
<1>2. NoMissedUpdate'
  <2>1. \A o \in Orders : OnItsWay(o) => OnItsWay(o)'
    BY DEF IInv, TypeOK, OnItsWay
  <2> QED
    BY <2>1, ServedKept
<1>3. PoolOutlivesTasks' /\ CursorSound' /\ OutboxSound'
  BY DEF IInv, PoolOutlivesTasks, TasksEnded, CursorSound, OutboxSound
<1>4. EndsInOrder'
  BY DEF IInv, TypeOK, EndsInOrder, Signalled, Accepting
<1> QED
  BY <1>1, <1>2, <1>3, <1>4 DEF IInv

\* The request that changes a status owes the update.
LEMMA ChangeStatusIInv ==
  ASSUME IInv, NEW r \in Requests, ChangeStatus(r)
  PROVE  IInv'
<1> USE DEF ChangeStatus, Move, watcherVars, socketVars, senderVars
<1>1. TypeOK'
  BY AboutOrders DEF IInv, TypeOK
<1>2. NoMissedUpdate'
  <2>1. OnItsWay(About[r])'
    BY DEF IInv, TypeOK, OnItsWay
  <2>2. \A o \in Orders : OnItsWay(o) => OnItsWay(o)'
    BY DEF IInv, TypeOK, OnItsWay
  <2> SUFFICES ASSUME NEW s \in Sockets PROVE Served(s)'
    BY DEF NoMissedUpdate, Served
  <2>3. Served(s)
    BY NoMissedUpdateParts DEF IInv
  <2>4. InChannel(s, About[s]) => InChannel(s, About[s])'
    BY DEF InChannel
  <2>5. CASE About[s] = About[r]
    BY <2>1, <2>5 DEF Served
  <2>6. CASE About[s] # About[r]
    <3>1. status'[About[s]] = status[About[s]]
      BY <2>6, AboutOrders DEF IInv, TypeOK
    <3> QED
      BY <2>2, <2>3, <2>4, <3>1, AboutOrders DEF Served
  <2> QED
    BY <2>5, <2>6
<1>3. PoolOutlivesTasks' /\ CursorSound' /\ OutboxSound'
  BY DEF IInv, PoolOutlivesTasks, TasksEnded, CursorSound, OutboxSound
<1>4. EndsInOrder'
  BY DEF IInv, TypeOK, EndsInOrder, Signalled
<1> QED
  BY <1>1, <1>2, <1>3, <1>4 DEF IInv

\* The event takes a place in the sender's channel.
LEMMA AnnounceIInv ==
  ASSUME IInv, NEW r \in Requests, Announce(r)
  PROVE  IInv'
<1> USE DEF Announce, Move, watcherVars, socketVars, senderVars
<1>1. TypeOK'
  BY DEF IInv, TypeOK
<1>2. NoMissedUpdate'
  <2>1. \A o \in Orders : OnItsWay(o) => OnItsWay(o)'
    BY DEF IInv, TypeOK, OnItsWay
  <2> QED
    BY <2>1, ServedKept
<1>3. PoolOutlivesTasks' /\ CursorSound' /\ OutboxSound'
  BY DEF IInv, PoolOutlivesTasks, TasksEnded, CursorSound, OutboxSound
<1>4. EndsInOrder'
  BY DEF IInv, TypeOK, EndsInOrder, Signalled
<1> QED
  BY <1>1, <1>2, <1>3, <1>4 DEF IInv

\* The update it owed is behind every receiver's cursor.
LEMMA PushIInv ==
  ASSUME IInv, NEW r \in Requests, Push(r)
  PROVE  IInv'
<1> USE DEF Push, Move, watcherVars, socketVars, senderVars
<1>0. About[r] \in Orders
  BY AboutOrders
<1>1. TypeOK'
  <2>1. updates' \in Seq(Orders)
    BY <1>0, Appended DEF IInv
  <2> QED
    BY <2>1 DEF IInv, TypeOK
<1>2. NoMissedUpdate'
  <2> SUFFICES ASSUME NEW s \in Sockets PROVE Served(s)'
    BY DEF NoMissedUpdate, Served
  <2>1. Served(s)
    BY NoMissedUpdateParts DEF IInv
  <2>2. /\ InChannel(s, About[r])'
        /\ \A p \in Orders : InChannel(s, p) => InChannel(s, p)'
    BY <1>0, InChannelKept DEF IInv
  <2>3. \A o \in Orders : o # About[r] /\ OnItsWay(o) => OnItsWay(o)'
    BY DEF IInv, TypeOK, OnItsWay
  <2> QED
    BY <2>1, <2>2, <2>3, AboutOrders DEF Served
<1>3. CursorSound'
  <2>1. Len(updates') = Len(updates) + 1 /\ Len(updates) \in Nat
    BY <1>0, Appended DEF IInv, TypeOK
  <2> QED
    BY <2>1 DEF IInv, TypeOK, CursorSound
<1>4. PoolOutlivesTasks' /\ OutboxSound'
  BY DEF IInv, PoolOutlivesTasks, TasksEnded, OutboxSound
<1>5. EndsInOrder'
  BY DEF IInv, TypeOK, EndsInOrder, Signalled
<1> QED
  BY <1>1, <1>2, <1>3, <1>4, <1>5 DEF IInv

\* Or its order is marked as dropped.
LEMMA HangUpIInv ==
  ASSUME IInv, NEW r \in Requests, HangUp(r)
  PROVE  IInv'
<1> USE DEF HangUp, Move, watcherVars, socketVars, senderVars
<1>1. TypeOK'
  BY AboutOrders DEF IInv, TypeOK
<1>2. NoMissedUpdate'
  <2> SUFFICES ASSUME NEW s \in Sockets PROVE Served(s)'
    BY DEF NoMissedUpdate, Served
  <2>1. Served(s)
    BY NoMissedUpdateParts DEF IInv
  <2>2. InChannel(s, About[s]) => InChannel(s, About[s])'
    BY DEF InChannel
  <2>3. dropped \subseteq dropped'
    OBVIOUS
  <2>4. \A o \in Orders : OnItsWay(o) => OnItsWay(o)' \/ o \in dropped'
    BY DEF IInv, TypeOK, OnItsWay
  <2> QED
    BY <2>1, <2>2, <2>3, <2>4, AboutOrders DEF Served
<1>3. PoolOutlivesTasks' /\ CursorSound' /\ OutboxSound'
  BY DEF IInv, PoolOutlivesTasks, TasksEnded, CursorSound, OutboxSound
<1>4. EndsInOrder'
  BY DEF IInv, TypeOK, EndsInOrder, Signalled
<1> QED
  BY <1>1, <1>2, <1>3, <1>4 DEF IInv

----------------------------------------------------------------------------
\* A step that touches no status, no update and no socket.
LEMMA Aside ==
  ASSUME IInv,
         UNCHANGED <<status, handlerVars, outbox, obw, updates, socketVars>>
  PROVE  NoMissedUpdate' /\ CursorSound'
<1> USE DEF handlerVars, socketVars
<1>1. \A o \in Orders : OnItsWay(o) => OnItsWay(o)'
  BY DEF OnItsWay
<1>2. NoMissedUpdate'
  BY <1>1, ServedKept
<1>3. CursorSound'
  BY DEF IInv, CursorSound
<1> QED
  BY <1>2, <1>3

\* A tick starts only while no signal was sent.
LEMMA ReadDepositsIInv ==
  ASSUME IInv, ReadDeposits
  PROVE  IInv'
<1> USE DEF ReadDeposits, handlerVars, socketVars, senderVars
<1>1. NoMissedUpdate' /\ CursorSound'
  BY Aside
<1>2. TypeOK'
  BY DEF IInv, TypeOK
<1>3. PoolOutlivesTasks' /\ OutboxSound' /\ EndsInOrder'
  BY DEF IInv, PoolOutlivesTasks, OutboxSound, EndsInOrder, Signalled
<1> QED
  BY <1>1, <1>2, <1>3 DEF IInv

\* The events of the orders paid are in the outbox with the commit.
LEMMA CommitMatchesIInv ==
  ASSUME IInv, CommitMatches
  PROVE  IInv'
<1> USE DEF CommitMatches, handlerVars, socketVars, senderVars
<1>1. outbox = {} /\ matched \subseteq Orders
  BY DEF IInv, TypeOK, OutboxSound
<1>2. PICK old \in SUBSET {Unknown} : outbox' = matched \cup old
  OBVIOUS
<1>3. TypeOK'
  BY <1>1, <1>2 DEF IInv, TypeOK
<1>4. NoMissedUpdate'
  <2> SUFFICES ASSUME NEW s \in Sockets PROVE Served(s)'
    BY DEF NoMissedUpdate, Served
  <2>1. Served(s)
    BY NoMissedUpdateParts DEF IInv
  <2>2. InChannel(s, About[s]) => InChannel(s, About[s])'
    BY DEF InChannel
  <2>3. OnItsWay(About[s]) => OnItsWay(About[s])'
    BY <1>1, AboutOrders DEF OnItsWay
  <2>4. CASE About[s] \in matched
    BY <1>2, <2>4 DEF Served, OnItsWay
  <2>5. CASE About[s] \notin matched
    <3>1. status'[About[s]] = status[About[s]]
      BY <2>5, AboutOrders DEF IInv, TypeOK
    <3> QED
      BY <2>1, <2>2, <2>3, <3>1 DEF Served
  <2> QED
    BY <2>4, <2>5
<1>5. CursorSound' /\ PoolOutlivesTasks' /\ OutboxSound'
  BY DEF IInv, CursorSound, PoolOutlivesTasks, TasksEnded, OutboxSound
<1>6. EndsInOrder'
  BY DEF IInv, EndsInOrder, Signalled
<1> QED
  BY <1>3, <1>4, <1>5, <1>6 DEF IInv

\* A failed tick has committed nothing.
LEMMA FailTickIInv ==
  ASSUME IInv, FailTick
  PROVE  IInv'
<1> USE DEF FailTick, handlerVars, socketVars, senderVars
<1>1. NoMissedUpdate' /\ CursorSound'
  BY Aside
<1>2. TypeOK'
  BY DEF IInv, TypeOK
<1>3. PoolOutlivesTasks' /\ OutboxSound' /\ EndsInOrder'
  BY DEF IInv, PoolOutlivesTasks, TasksEnded, OutboxSound, EndsInOrder, Signalled
<1> QED
  BY <1>1, <1>2, <1>3 DEF IInv

\* An event goes from the outbox to the channel.
LEMMA SendEventIInv ==
  ASSUME IInv, SendEvent
  PROVE  IInv'
<1> USE DEF SendEvent, handlerVars, socketVars, senderVars
<1>1. PICK e \in outbox : outbox' = outbox \ {e} /\ obw' = Append(obw, e)
  OBVIOUS
<1>2. /\ obw \in Seq(Orders \cup {Unknown}) /\ e \in Orders \cup {Unknown}
      /\ Len(obw) \in Nat
  BY DEF IInv, TypeOK
<1>3. /\ obw' \in Seq(Orders \cup {Unknown}) /\ Len(obw') = Len(obw) + 1
      /\ obw'[Len(obw) + 1] = e
      /\ \A i \in 1 .. Len(obw) : obw'[i] = obw[i]
  BY <1>1, <1>2
<1>4. TypeOK'
  BY <1>1, <1>2, <1>3 DEF IInv, TypeOK
<1>5. NoMissedUpdate'
  <2>1. ASSUME NEW o \in Orders, OnItsWay(o)
        PROVE  OnItsWay(o)'
    <3>1. CASE o = e
      BY <1>2, <1>3, <3>1 DEF OnItsWay
    <3>2. CASE o # e /\ o \in outbox
      BY <1>1, <3>2 DEF OnItsWay
    <3>3. CASE \E i \in 1 .. Len(obw) : obw[i] = o
      BY <1>2, <1>3, <3>3 DEF OnItsWay
    <3>4. CASE \E r \in Requests : About[r] = o /\ request[r] \in {"announce", "push"}
      BY <3>4 DEF OnItsWay
    <3> QED
      BY <2>1, <3>1, <3>2, <3>3, <3>4 DEF OnItsWay
  <2> QED
    BY <2>1, ServedKept
<1>6. watcher = "idle"
  BY DEF IInv, OutboxSound
<1>7. CursorSound' /\ PoolOutlivesTasks' /\ OutboxSound' /\ EndsInOrder'
  BY <1>6 DEF IInv, CursorSound, PoolOutlivesTasks, TasksEnded, OutboxSound,
              EndsInOrder, Signalled
<1> QED
  BY <1>4, <1>5, <1>7 DEF IInv

\* The watcher ends with nothing left to send.
LEMMA StopWatcherIInv ==
  ASSUME IInv, StopWatcher
  PROVE  IInv'
<1> USE DEF StopWatcher, handlerVars, socketVars, senderVars
<1>1. NoMissedUpdate' /\ CursorSound'
  BY Aside
<1>2. TypeOK'
  BY DEF IInv, TypeOK
<1>3. PoolOutlivesTasks' /\ OutboxSound' /\ EndsInOrder'
  BY DEF IInv, PoolOutlivesTasks, TasksEnded, OutboxSound, EndsInOrder, Signalled
<1> QED
  BY <1>1, <1>2, <1>3 DEF IInv

\* The event taken is behind every receiver's cursor, the others stay.
LEMMA TakeEventIInv ==
  ASSUME IInv, TakeEvent
  PROVE  IInv'
<1> USE DEF TakeEvent, handlerVars, watcherVars, socketVars, senderVars
<1>1. /\ obw \in Seq(Orders \cup {Unknown}) /\ obw # <<>>
      /\ Len(obw) \in Nat \ {0} /\ Len(obw) <= Buffer
  BY DEF IInv, TypeOK
<1>2. /\ Head(obw) = obw[1] /\ obw[1] \in Orders \cup {Unknown}
      /\ obw' \in Seq(Orders \cup {Unknown}) /\ Len(obw') = Len(obw) - 1
      /\ \A i \in 1 .. Len(obw') : obw'[i] = obw[i + 1]
  BY <1>1
<1>3. ASSUME NEW o \in Orders, OnItsWay(o), o # Head(obw)
      PROVE  OnItsWay(o)'
  <2>1. CASE \E i \in 1 .. Len(obw) : obw[i] = o
    <3>1. PICK i \in 1 .. Len(obw) : obw[i] = o
      BY <2>1
    <3>2. i # 1
      BY <1>2, <1>3, <3>1
    <3>3. i - 1 \in 1 .. Len(obw') /\ obw'[i - 1] = o
      BY <1>1, <1>2, <3>1, <3>2
    <3> QED
      BY <3>3 DEF OnItsWay
  <2>2. CASE ~(\E i \in 1 .. Len(obw) : obw[i] = o)
    BY <1>3, <2>2 DEF OnItsWay
  <2> QED
    BY <2>1, <2>2
<1>4. CASE Head(obw) = Unknown
  <2>1. updates' = updates
    BY <1>4
  <2>2. NoMissedUpdate'
    <3>1. \A o \in Orders : OnItsWay(o) => OnItsWay(o)'
      BY <1>3, <1>4
    <3> QED
      BY <2>1, <3>1, ServedKept
  <2>3. TypeOK'
    BY <1>1, <1>2, <2>1 DEF IInv, TypeOK
  <2>4. CursorSound' /\ PoolOutlivesTasks' /\ OutboxSound' /\ EndsInOrder'
    BY <2>1 DEF IInv, CursorSound, PoolOutlivesTasks, TasksEnded, OutboxSound,
                EndsInOrder, Signalled
  <2> QED
    BY <2>2, <2>3, <2>4 DEF IInv
<1>5. CASE Head(obw) # Unknown
  <2>1. Head(obw) \in Orders /\ Broadcast(Head(obw))
    BY <1>2, <1>5
  <2>2. updates' \in Seq(Orders) /\ Len(updates') = Len(updates) + 1
    BY <2>1, Appended DEF IInv
  <2>3. NoMissedUpdate'
    <3> SUFFICES ASSUME NEW s \in Sockets PROVE Served(s)'
      BY DEF NoMissedUpdate, Served
    <3>1. Served(s)
      BY NoMissedUpdateParts DEF IInv
    <3>2. UNCHANGED cursor
      OBVIOUS
    <3>3. PICK o \in Orders : o = Head(obw)
      BY <2>1
    <3>4. /\ InChannel(s, o)'
          /\ \A p \in Orders : InChannel(s, p) => InChannel(s, p)'
      BY <2>1, <3>2, <3>3, InChannelKept DEF IInv
    <3>5. CASE About[s] = o
      BY <3>4, <3>5 DEF Served
    <3>6. CASE About[s] # o
      BY <1>3, <3>1, <3>3, <3>4, <3>6, AboutOrders DEF Served
    <3> QED
      BY <3>5, <3>6
  <2>4. TypeOK'
    BY <1>1, <1>2, <2>2 DEF IInv, TypeOK
  <2>5. CursorSound'
    <3>1. Len(updates) \in Nat
      BY DEF IInv, TypeOK
    <3> QED
      BY <2>2, <3>1 DEF IInv, TypeOK, CursorSound
  <2>6. PoolOutlivesTasks' /\ OutboxSound' /\ EndsInOrder'
    BY DEF IInv, PoolOutlivesTasks, TasksEnded, OutboxSound, EndsInOrder, Signalled
  <2> QED
    BY <2>3, <2>4, <2>5, <2>6 DEF IInv
<1> QED
  BY <1>4, <1>5

\* An event that was broadcast is forwarded or dropped.
LEMMA ForwardIInv ==
  ASSUME IInv, Forward
  PROVE  IInv'
<1> USE DEF Forward, handlerVars, watcherVars, socketVars, senderVars
<1>1. NoMissedUpdate' /\ CursorSound'
  BY Aside
<1>2. TypeOK'
  BY DEF IInv, TypeOK
<1>3. PoolOutlivesTasks' /\ OutboxSound' /\ EndsInOrder'
  BY DEF IInv, PoolOutlivesTasks, TasksEnded, OutboxSound, EndsInOrder, Signalled
<1> QED
  BY <1>1, <1>2, <1>3 DEF IInv

\* The fan-out task ends with an empty channel, after the watcher.
LEMMA StopFanOutIInv ==
  ASSUME IInv, StopFanOut
  PROVE  IInv'
<1> USE DEF StopFanOut, handlerVars, watcherVars, socketVars, senderVars
<1>1. NoMissedUpdate' /\ CursorSound'
  BY Aside
<1>2. TypeOK'
  BY DEF IInv, TypeOK
<1>3. PoolOutlivesTasks' /\ OutboxSound' /\ EndsInOrder'
  BY DEF IInv, PoolOutlivesTasks, TasksEnded, OutboxSound, EndsInOrder, Signalled
<1> QED
  BY <1>1, <1>2, <1>3 DEF IInv

----------------------------------------------------------------------------
\* The receiver starts behind what was broadcast.
LEMMA SubscribeIInv ==
  ASSUME IInv, NEW s \in Sockets, Subscribe(s)
  PROVE  IInv'
<1> USE DEF Subscribe, At, handlerVars, watcherVars, senderVars
<1>1. Len(updates) \in Nat
  BY DEF IInv, TypeOK
<1>2. TypeOK'
  BY <1>1 DEF IInv, TypeOK
<1>3. CursorSound'
  BY <1>1 DEF IInv, TypeOK, CursorSound
<1>4. NoMissedUpdate'
  <2> SUFFICES ASSUME NEW u \in Sockets PROVE Served(u)'
    BY DEF NoMissedUpdate, Served
  <2>1. CASE u = s
    BY <2>1 DEF IInv, TypeOK, Served
  <2>2. CASE u # s
    <3>1. Served(u)
      BY NoMissedUpdateParts DEF IInv
    <3>2. socket'[u] = socket[u] /\ cursor'[u] = cursor[u]
      BY <2>2 DEF IInv, TypeOK
    <3> QED
      BY <3>1, <3>2 DEF Served, InChannel, OnItsWay
  <2> QED
    BY <2>1, <2>2
<1>5. PoolOutlivesTasks' /\ OutboxSound' /\ EndsInOrder'
  BY DEF IInv, PoolOutlivesTasks, TasksEnded, OutboxSound, EndsInOrder, Signalled
<1> QED
  BY <1>2, <1>3, <1>4, <1>5 DEF IInv

\* A socket that has just read "pending" misses nothing yet.
LEMMA ReadStatusIInv ==
  ASSUME IInv, NEW s \in Sockets, ReadStatus(s)
  PROVE  IInv'
<1> USE DEF ReadStatus, At, handlerVars, watcherVars, senderVars
<1>1. TypeOK'
  BY DEF IInv, TypeOK
<1>2. CursorSound'
  BY DEF IInv, CursorSound
<1>3. NoMissedUpdate'
  <2> SUFFICES ASSUME NEW u \in Sockets PROVE Served(u)'
    BY DEF NoMissedUpdate, Served
  <2>1. CASE u = s
    BY <2>1 DEF IInv, TypeOK, Served
  <2>2. CASE u # s
    <3>1. Served(u)
      BY NoMissedUpdateParts DEF IInv
    <3>2. socket'[u] = socket[u]
      BY <2>2 DEF IInv, TypeOK
    <3> QED
      BY <3>1, <3>2 DEF Served, InChannel, OnItsWay
  <2> QED
    BY <2>1, <2>2
<1>4. PoolOutlivesTasks' /\ OutboxSound' /\ EndsInOrder'
  BY DEF IInv, PoolOutlivesTasks, TasksEnded, OutboxSound, EndsInOrder, Signalled
<1> QED
  BY <1>1, <1>2, <1>3, <1>4 DEF IInv

\* What a receiver passes is another order's, or it looks at the order again.
LEMMA ReceiveIInv ==
  ASSUME IInv, NEW s \in Sockets, Receive(s)
  PROVE  IInv'
<1> USE DEF Receive, At, handlerVars, watcherVars, senderVars
<1>1. /\ cursor[s] \in Nat \ {0} /\ Len(updates) \in Nat
      /\ cursor[s] <= Len(updates)
  BY DEF IInv, TypeOK
<1>2. OldestKept \in Nat \ {0} /\ OldestKept <= Len(updates) + 1
  BY <1>1 DEF OldestKept
<1>3. PICK n \in Nat \ {0} : /\ cursor' = [cursor EXCEPT ![s] = n]
                            /\ n <= Len(updates) + 1
  <2>1. CASE cursor[s] < OldestKept
    BY <1>2, <2>1
  <2>2. CASE ~(cursor[s] < OldestKept)
    <3>1. cursor[s] + 1 \in Nat \ {0} /\ cursor[s] + 1 <= Len(updates) + 1
      BY <1>1
    <3> QED
      BY <2>2, <3>1
  <2> QED
    BY <2>1, <2>2
<1>4. TypeOK' /\ CursorSound'
  <2>1. socket' \in [Sockets -> {"off", "read", "relay", "closed"}]
    BY DEF IInv, TypeOK
  <2>2. cursor' \in [Sockets -> Nat \ {0}]
    BY <1>3 DEF IInv, TypeOK
  <2>3. TypeOK'
    BY <2>1, <2>2 DEF IInv, TypeOK
  <2>4. CursorSound'
    BY <1>3 DEF IInv, TypeOK, CursorSound
  <2> QED
    BY <2>3, <2>4
<1>5. NoMissedUpdate'
  <2> SUFFICES ASSUME NEW u \in Sockets PROVE Served(u)'
    BY DEF NoMissedUpdate, Served
  <2>1. Served(u)
    BY NoMissedUpdateParts DEF IInv
  <2>2. CASE u # s
    <3>1. socket'[u] = socket[u] /\ cursor'[u] = cursor[u]
      BY <2>2 DEF IInv, TypeOK
    <3> QED
      BY <2>1, <3>1 DEF Served, InChannel, OnItsWay
  <2>3. CASE u = s /\ socket'[s] = "read"
    BY <2>3 DEF Served
  <2>4. CASE u = s /\ socket'[s] # "read"
    <3>1. /\ cursor'[s] = cursor[s] + 1 /\ socket' = socket
          /\ updates[cursor[s]] # About[s]
      BY <2>4 DEF IInv, TypeOK
    <3>2. InChannel(s, About[s]) => InChannel(s, About[s])'
      <4>1. SUFFICES ASSUME InChannel(s, About[s]) PROVE InChannel(s, About[s])'
        OBVIOUS
      <4>2. PICK k \in cursor[s] .. Len(updates) : updates[k] = About[s]
        BY <4>1 DEF InChannel
      <4>3. k \in cursor[s] + 1 .. Len(updates)
        BY <1>1, <3>1, <4>2
      <4> QED
        BY <3>1, <4>2, <4>3 DEF InChannel
    <3> QED
      BY <2>1, <2>4, <3>1, <3>2 DEF Served, OnItsWay
  <2> QED
    BY <2>2, <2>3, <2>4
<1>6. PoolOutlivesTasks' /\ OutboxSound' /\ EndsInOrder'
  BY DEF IInv, PoolOutlivesTasks, TasksEnded, OutboxSound, EndsInOrder, Signalled
<1> QED
  BY <1>4, <1>5, <1>6 DEF IInv

\* A socket that is gone waits for nothing.
LEMMA DisconnectIInv ==
  ASSUME IInv, NEW s \in Sockets, Disconnect(s)
  PROVE  IInv'
<1> USE DEF Disconnect, At, handlerVars, watcherVars, senderVars
<1>1. TypeOK' /\ CursorSound'
  BY DEF IInv, TypeOK, CursorSound
<1>2. NoMissedUpdate'
  BY DEF IInv, TypeOK, NoMissedUpdate, InChannel, OnItsWay
<1>3. PoolOutlivesTasks' /\ OutboxSound' /\ EndsInOrder'
  BY DEF IInv, PoolOutlivesTasks, TasksEnded, OutboxSound, EndsInOrder, Signalled
<1> QED
  BY <1>1, <1>2, <1>3 DEF IInv

----------------------------------------------------------------------------

\* The sender takes events only while no signal was sent.
LEMMA SenderReceiveIInv ==
  ASSUME IInv, SenderReceive
  PROVE  IInv'
<1> USE DEF SenderReceive, handlerVars, watcherVars, socketVars, senderVars
<1>1. NoMissedUpdate' /\ CursorSound'
  BY Aside
<1>2. TypeOK'
  BY DEF IInv, TypeOK
<1>3. PoolOutlivesTasks' /\ OutboxSound' /\ EndsInOrder'
  BY DEF IInv, PoolOutlivesTasks, TasksEnded, OutboxSound, EndsInOrder, Signalled
<1> QED
  BY <1>1, <1>2, <1>3 DEF IInv

\* An event is done with.
LEMMA SenderFinishIInv ==
  ASSUME IInv, SenderFinish
  PROVE  IInv'
<1> USE DEF SenderFinish, handlerVars, watcherVars, socketVars, senderVars
<1>1. NoMissedUpdate' /\ CursorSound'
  BY Aside
<1>2. TypeOK'
  BY DEF IInv, TypeOK
<1>3. PoolOutlivesTasks' /\ OutboxSound' /\ EndsInOrder'
  BY DEF IInv, PoolOutlivesTasks, TasksEnded, OutboxSound, EndsInOrder, Signalled
<1> QED
  BY <1>1, <1>2, <1>3 DEF IInv

\* The sender ends after the retry task.
LEMMA EndSenderIInv ==
  ASSUME IInv, EndSender
  PROVE  IInv'
<1> USE DEF EndSender, handlerVars, watcherVars, socketVars, senderVars
<1>1. NoMissedUpdate' /\ CursorSound'
  BY Aside
<1>2. TypeOK'
  BY DEF IInv, TypeOK
<1>3. PoolOutlivesTasks' /\ OutboxSound' /\ EndsInOrder'
  BY DEF IInv, PoolOutlivesTasks, TasksEnded, OutboxSound, EndsInOrder, Signalled
<1> QED
  BY <1>1, <1>2, <1>3 DEF IInv

\* A batch starts only while no signal was sent.
LEMMA StartRetryIInv ==
  ASSUME IInv, StartRetry
  PROVE  IInv'
<1> USE DEF StartRetry, handlerVars, watcherVars, socketVars, senderVars, MoveRetry
<1>1. NoMissedUpdate' /\ CursorSound'
  BY Aside
<1>2. TypeOK'
  BY DEF IInv, TypeOK
<1>3. PoolOutlivesTasks' /\ OutboxSound' /\ EndsInOrder'
  BY DEF IInv, PoolOutlivesTasks, TasksEnded, OutboxSound, EndsInOrder, Signalled
<1> QED
  BY <1>1, <1>2, <1>3 DEF IInv

\* A batch ends.
LEMMA FinishRetryIInv ==
  ASSUME IInv, FinishRetry
  PROVE  IInv'
<1> USE DEF FinishRetry, handlerVars, watcherVars, socketVars, senderVars, MoveRetry
<1>1. NoMissedUpdate' /\ CursorSound'
  BY Aside
<1>2. TypeOK'
  BY DEF IInv, TypeOK
<1>3. PoolOutlivesTasks' /\ OutboxSound' /\ EndsInOrder'
  BY DEF IInv, PoolOutlivesTasks, TasksEnded, OutboxSound, EndsInOrder, Signalled
<1> QED
  BY <1>1, <1>2, <1>3 DEF IInv

\* The retry task ends after the signal.
LEMMA StopRetryIInv ==
  ASSUME IInv, StopRetry
  PROVE  IInv'
<1> USE DEF StopRetry, handlerVars, watcherVars, socketVars, senderVars, MoveRetry
<1>1. NoMissedUpdate' /\ CursorSound'
  BY Aside
<1>2. TypeOK'
  BY DEF IInv, TypeOK
<1>3. PoolOutlivesTasks' /\ OutboxSound' /\ EndsInOrder'
  BY DEF IInv, PoolOutlivesTasks, TasksEnded, OutboxSound, EndsInOrder, Signalled
<1> QED
  BY <1>1, <1>2, <1>3 DEF IInv

\* No more connections are taken.
LEMMA StopServingIInv ==
  ASSUME IInv, StopServing
  PROVE  IInv'
<1> USE DEF StopServing, handlerVars, watcherVars, socketVars, senderVars, Enter, Accepting
<1>1. NoMissedUpdate' /\ CursorSound'
  BY Aside
<1>2. TypeOK'
  BY DEF IInv, TypeOK
<1>3. PoolOutlivesTasks' /\ OutboxSound' /\ EndsInOrder'
  BY DEF IInv, PoolOutlivesTasks, TasksEnded, OutboxSound, EndsInOrder, Signalled
<1> QED
  BY <1>1, <1>2, <1>3 DEF IInv

\* The signal is sent when no request is left.
LEMMA SignalShutdownIInv ==
  ASSUME IInv, SignalShutdown
  PROVE  IInv'
<1> USE DEF SignalShutdown, handlerVars, watcherVars, socketVars, senderVars, Enter
<1>1. NoMissedUpdate' /\ CursorSound'
  BY Aside
<1>2. TypeOK'
  BY DEF IInv, TypeOK
<1>3. PoolOutlivesTasks' /\ OutboxSound' /\ EndsInOrder'
  BY DEF IInv, PoolOutlivesTasks, TasksEnded, OutboxSound, EndsInOrder, Signalled
<1> QED
  BY <1>1, <1>2, <1>3 DEF IInv

\* The pool is closed when the tasks have ended, and with the sender the retry
\* task.
LEMMA ClosePoolIInv ==
  ASSUME IInv, ClosePool
  PROVE  IInv'
<1> USE DEF ClosePool, handlerVars, watcherVars, socketVars, senderVars, Enter
<1>1. NoMissedUpdate' /\ CursorSound'
  BY Aside
<1>2. TypeOK'
  BY DEF IInv, TypeOK
<1>3. PoolOutlivesTasks' /\ OutboxSound' /\ EndsInOrder'
  BY DEF IInv, PoolOutlivesTasks, TasksEnded, OutboxSound, EndsInOrder, Signalled
<1> QED
  BY <1>1, <1>2, <1>3 DEF IInv

\* A step that changes no variable keeps the invariant.
LEMMA StutterIInv ==
  ASSUME IInv, UNCHANGED vars
  PROVE  IInv'
<1> USE DEF vars, handlerVars, watcherVars, socketVars, senderVars
<1>1. NoMissedUpdate' /\ CursorSound'
  BY Aside
<1>2. TypeOK'
  BY DEF IInv, TypeOK
<1>3. PoolOutlivesTasks' /\ OutboxSound' /\ EndsInOrder'
  BY DEF IInv, PoolOutlivesTasks, TasksEnded, OutboxSound, EndsInOrder, Signalled
<1> QED
  BY <1>1, <1>2, <1>3 DEF IInv

\* Updates reach the sockets that wait for them, and tasks end in an order that
\* leaves none behind (handle_order_ws, the fan-out of setup_event_pipeline,
\* main), for channels of any size.
THEOREM Invariance == Spec => []IInv
<1>1. Init => IInv
  BY InitIInv
<1>2. IInv /\ [Next]_vars => IInv'
  <2> SUFFICES ASSUME IInv, [Next]_vars PROVE IInv'
    OBVIOUS
  <2>1. CASE \E r \in Requests : ReadOrder(r) \/ HandlerStep(r) \/ HangUp(r)
    BY <2>1, ReadOrderIInv, ChangeStatusIInv, AnnounceIInv, PushIInv, HangUpIInv
       DEF HandlerStep
  <2>2. CASE WatcherStep
    BY <2>2, ReadDepositsIInv, CommitMatchesIInv, FailTickIInv, SendEventIInv,
       StopWatcherIInv DEF WatcherStep
  <2>3. CASE FanOutStep
    BY <2>3, TakeEventIInv, ForwardIInv, StopFanOutIInv DEF FanOutStep
  <2>4. CASE \E s \in Sockets : Subscribe(s) \/ SocketStep(s) \/ Disconnect(s)
    BY <2>4, SubscribeIInv, ReadStatusIInv, ReceiveIInv, DisconnectIInv DEF SocketStep
  <2>5. CASE SenderStep
    BY <2>5, SenderReceiveIInv, SenderFinishIInv, EndSenderIInv DEF SenderStep
  <2>6. CASE RetryStep
    BY <2>6, StartRetryIInv, FinishRetryIInv, StopRetryIInv DEF RetryStep
  <2>7. CASE StopServing \/ SignalShutdown \/ ClosePool \/ Restart
    BY <2>7, StopServingIInv, SignalShutdownIInv, ClosePoolIInv, RestartIInv
  <2>8. CASE UNCHANGED vars
    BY <2>8, StutterIInv
  <2> QED
    BY <2>1, <2>2, <2>3, <2>4, <2>5, <2>6, <2>7, <2>8 DEF Next
<1> QED
  BY <1>1, <1>2, PTL DEF Spec

\* Channels keep to their bounds, tasks and sockets to their states.
THEOREM TypeCorrect == Spec => []TypeOK
<1>1. IInv => TypeOK
  BY DEF IInv
<1> QED
  BY <1>1, Invariance, PTL

\* A socket that waits has the update coming once its order is settled, unless
\* the request that settled it was dropped (ws.rs).
THEOREM NoMissedUpdateHolds == Spec => []NoMissedUpdate
<1>1. IInv => NoMissedUpdate
  BY DEF IInv
<1> QED
  BY <1>1, Invariance, PTL

\* The pool is closed after the last task that queries it (main.rs).
THEOREM PoolOutlivesTasksHolds == Spec => []PoolOutlivesTasks
<1>1. IInv => PoolOutlivesTasks
  BY DEF IInv
<1> QED
  BY <1>1, Invariance, PTL

\* At a graceful stop every event has been broadcast: handlers are answered
\* before the signal, the watcher ends with an empty outbox and the fan-out task
\* with an empty channel (main.rs).
THEOREM ShutdownDrainsHolds == Spec => []ShutdownDrains
<1>1. IInv => ShutdownDrains
  <2> SUFFICES ASSUME IInv, phase = "stopped", NEW e \in Orders \cup {Unknown}
               PROVE  ~OnItsWay(e)
    BY DEF ShutdownDrains
  <2>1. Signalled /\ watcher = "done" /\ fanout = "done"
    BY DEF IInv, PoolOutlivesTasks, TasksEnded, Signalled
  <2>2. outbox = {} /\ obw = <<>>
    BY <2>1 DEF IInv, OutboxSound, EndsInOrder
  <2>3. \A r \in Requests : request[r] \in {"none", "done"}
    BY <2>1 DEF IInv, EndsInOrder
  <2> QED
    BY <2>2, <2>3 DEF OnItsWay
<1> QED
  BY <1>1, Invariance, PTL

\* The watcher and the handlers never find their channel closed: the fan-out task
\* ends after the watcher, and the sender after the last request (main.rs).
THEOREM ReceiversOutliveSendersHolds == Spec => []ReceiversOutliveSenders
<1>1. IInv => ReceiversOutliveSenders
  <2> SUFFICES ASSUME IInv PROVE ReceiversOutliveSenders
    OBVIOUS
  <2>1. ASSUME fanout = "done" PROVE outbox = {} /\ obw = <<>>
    BY <2>1 DEF IInv, OutboxSound, EndsInOrder
  <2>2. ASSUME sender = "done", NEW r \in Requests PROVE request[r] # "announce"
    BY <2>2 DEF IInv, EndsInOrder
  <2> QED
    BY <2>1, <2>2 DEF ReceiversOutliveSenders
<1> QED
  BY <1>1, Invariance, PTL
=============================================================================
