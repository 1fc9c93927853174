------------------------ MODULE WebhookSenderProofs ------------------------
(***************************************************************************)
(* Proofs about WebhookSender for every value of its constants.  IInv says *)
(* what each task holds between its post and the update that records it;   *)
(* it holds initially and is kept by every step of the producers, the two  *)
(* tasks, the clock and a restart, and each safety property follows.       *)
(***************************************************************************)
EXTENDS WebhookSender, TLAPS

USE ConstantsAssumption

\* A task that is idle neither marks nor counts.
LEMMA IdleFacts == Idle.at = "idle" /\ Idle \notin Record
  BY DEF Idle, Record

\* The next state of a task that has made its post is an update of the row.
LEMMA AfterPostFacts ==
    ASSUME NEW o \in Orders, NEW outcome
    PROVE  /\ AfterPost(o, outcome) \in Record
           /\ AfterPost(o, outcome).order = o
           /\ AfterPost(o, outcome).at = "mark" => outcome = "acknowledged"
           /\ AfterPost(o, outcome).at # "post"
           /\ AfterPost(o, outcome) # Idle
  BY DEF AfterPost, Record, Idle

\* A post leaves the merchant with a status of the order, or changes nothing.
LEMMA PostFacts ==
    ASSUME TypeOK, NEW o \in Orders, NEW s \in OrderStatus, NEW outcome, Post(o, s, outcome)
    PROVE  /\ heard' \in [Orders -> {"none"} \cup OrderStatus]
           /\ \A p \in Orders : heard[p] # "none" => heard'[p] # "none"
           /\ outcome = "acknowledged" => heard'[o] # "none"
  <1>1. heard \in [Orders -> {"none"} \cup OrderStatus]
    BY DEF TypeOK
  <1>2. s # "none"
    BY DEF OrderStatus
  <1>3. CASE outcome = "failed"
    BY <1>1, <1>3 DEF Post
  <1>4. CASE outcome # "failed"
    BY <1>1, <1>2, <1>4 DEF Post
  <1> QED  BY <1>3, <1>4

\* A step that neither counts nor takes an event keeps every place under the
\* bound when it makes no task owe more than before.
LEMMA ReservedKept ==
    ASSUME TypeOK, RetriesReserved,
           UNCHANGED <<retries, taken>>,
           \A o \in Orders : MainOwes(o)' => MainOwes(o),
           \A o \in Orders : RetryOwes(o)' => RetryOwes(o)
    PROVE  RetriesReserved'
  <1> SUFFICES ASSUME NEW o \in Orders
               PROVE  /\ (IF MainOwes(o)' THEN 1 ELSE 0) <= taken'[o]
                      /\ retries'[o] + (IF MainOwes(o)' THEN 1 ELSE 0)
                            + (IF RetryOwes(o)' THEN 1 ELSE 0) <= MaxRetryCount + taken'[o]
    BY DEF RetriesReserved
  <1>1. retries[o] \in Nat /\ taken[o] \in Nat /\ MaxRetryCount \in Nat
    BY DEF TypeOK
  <1>2. /\ (IF MainOwes(o) THEN 1 ELSE 0) <= taken[o]
        /\ retries[o] + (IF MainOwes(o) THEN 1 ELSE 0)
              + (IF RetryOwes(o) THEN 1 ELSE 0) <= MaxRetryCount + taken[o]
    BY DEF RetriesReserved
  <1>3. (MainOwes(o)' => MainOwes(o)) /\ (RetryOwes(o)' => RetryOwes(o))
    OBVIOUS
  <1> QED  BY <1>1, <1>2, <1>3

\* Without a step of either task the whole of the invariant but the types
\* of the channel is kept.
LEMMA TasksUnchanged ==
    ASSUME IInv, UNCHANGED <<success, retries, taken, main, batch, retry, heard>>
    PROVE  /\ SuccessWasAccepted'
           /\ MarksAccepted'
           /\ BatchSound'
           /\ RetriesReserved'
  <1>1. \A o \in Orders : MainOwes(o)' => MainOwes(o)
    BY DEF MainOwes
  <1>2. \A o \in Orders : RetryOwes(o)' => RetryOwes(o)
    BY DEF RetryOwes
  <1>3. RetriesReserved'
    BY <1>1, <1>2, ReservedKept DEF IInv
  <1> QED  BY <1>3 DEF IInv, SuccessWasAccepted, MarksAccepted, BatchSound

\* Every event that may still be posted is in one of four places.
LEMMA InSystemFacts ==
    ASSUME TypeOK
    PROVE  /\ announced \subseteq InSystem
           /\ batch \subseteq InSystem
           /\ \A i \in 1 .. Len(queue) : queue[i] \in InSystem
           /\ main.at = "post" => main.event \in InSystem
  BY DEF InSystem

\* A step that changes no status and makes up no event keeps the events true.
LEMMA EventsKept ==
    ASSUME EventsWere, UNCHANGED statusVars, InSystem' \cap StatusEvents \subseteq InSystem
    PROVE  EventsWere'
  BY DEF EventsWere, statusVars

\* So does what the merchant heard, as long as no post changes it.
LEMMA HeardKept ==
    ASSUME HeardWas, UNCHANGED heard, \A o \in Orders : been[o] \subseteq been'[o]
    PROVE  HeardWas'
  BY DEF HeardWas

\* A post of an event that was true when it was made is true for ever.
LEMMA PostHeard ==
    ASSUME TypeOK, EventsWere, HeardWas, UNCHANGED statusVars,
           NEW e \in InSystem \cap StatusEvents, NEW outcome,
           Post(e.order, e.new_status, outcome)
    PROVE  HeardWas'
  <1>1. e.order \in Orders /\ e.new_status \in been[e.order]
    BY DEF EventsWere, StatusEvents
  <1>2. \A p \in Orders : heard'[p] = heard[p] \/ (p = e.order /\ heard'[p] = e.new_status)
    BY <1>1 DEF Post, TypeOK
  <1> QED  BY <1>1, <1>2 DEF HeardWas, statusVars

----------------------------------------------------------------------------
LEMMA InitIInv == Init => IInv
  <1> SUFFICES ASSUME Init PROVE IInv
    OBVIOUS
  <1>1. TypeOK
    BY DEF Init, TypeOK, OrderStatus, Events
  <1>2. SuccessWasAccepted /\ MarksAccepted /\ BatchSound
    BY IdleFacts DEF Init, SuccessWasAccepted, MarksAccepted, BatchSound
  <1>3. \A o \in Orders : ~MainOwes(o) /\ ~RetryOwes(o)
    BY IdleFacts DEF Init, MainOwes, RetryOwes
  <1>4. RetriesReserved
    BY <1>3 DEF Init, RetriesReserved
  <1>5. EventsWere /\ HeardWas
    BY IdleFacts DEF Init, EventsWere, HeardWas, InSystem
  <1> QED  BY <1>1, <1>2, <1>4, <1>5 DEF IInv

\* The producers and the channel.
LEMMA SetStatusIInv ==
    ASSUME IInv, NEW S \in SUBSET Orders, NEW s \in OrderStatus, SetStatus(S, s)
    PROVE  TypeOK' /\ EventsWere' /\ HeardWas'
  <1> USE DEF IInv, channelVars, merchantVars
  <1> DEFINE E == {StatusEvent(o, s) : o \in S}
  <1>1. E \subseteq StatusEvents
    BY DEF StatusEvent, StatusEvents
  <1>2. /\ status' = [o \in Orders |-> IF o \in S THEN s ELSE status[o]]
        /\ been' = [o \in Orders |-> IF o \in S THEN been[o] \cup {s} ELSE been[o]]
        /\ announced' = announced \cup E
        /\ UNCHANGED <<success, retries, resting, queue, taken, main, batch, retry, merchantVars>>
    BY DEF SetStatus, Announce
  <1>3. TypeOK'
    <2>1. been' \in [Orders -> SUBSET OrderStatus]
      BY <1>2 DEF TypeOK
    <2>2. status' \in [Orders -> OrderStatus]
      BY <1>2 DEF TypeOK
    <2>3. announced' \subseteq Events
      BY <1>1, <1>2 DEF TypeOK, Events
    <2> HIDE DEF E
    <2> QED  BY <1>2, <2>1, <2>2, <2>3 DEF TypeOK
  <1>4. \A o \in Orders : been[o] \subseteq been'[o] /\ status'[o] \in been'[o]
    BY <1>2 DEF EventsWere
  <1>5. HeardWas'
    BY <1>2, <1>4, HeardKept
  <1>6. ASSUME NEW e \in InSystem' \cap StatusEvents
        PROVE  e.new_status \in been'[e.order]
    <2>1. e \in InSystem \/ e \in E
      BY <1>2 DEF InSystem
    <2>2. CASE e \in InSystem
      BY <1>4, <2>2 DEF EventsWere, StatusEvents
    <2>3. CASE e \in E
      BY <1>2, <2>3 DEF StatusEvent
    <2> QED  BY <2>1, <2>2, <2>3
  <1> QED  BY <1>3, <1>4, <1>5, <1>6 DEF EventsWere

LEMMA SendIInv ==
    ASSUME IInv, NEW e \in announced, Send(e)
    PROVE  TypeOK' /\ InSystem' \subseteq InSystem
  <1> USE DEF IInv, orderVars, statusVars, merchantVars
  <1>1. queue' = Append(queue, e) /\ queue \in Seq(Events) /\ e \in Events
    BY DEF Send, TypeOK
  <1>2. TypeOK'
    BY <1>1 DEF Send, TypeOK
  <1>3. \A i \in 1 .. Len(queue') : queue'[i] = e \/ \E j \in 1 .. Len(queue) : queue'[i] = queue[j]
    BY <1>1
  <1>4. \A i \in 1 .. Len(queue') : queue'[i] \in InSystem
    BY <1>3, InSystemFacts
  <1>5. announced' \subseteq announced /\ UNCHANGED <<batch, main>>
    BY DEF Send
  <1> QED  BY <1>2, <1>4, <1>5 DEF InSystem

LEMMA ProduceIInv == ASSUME IInv, Produce PROVE IInv'
  <1> USE DEF IInv, orderVars, statusVars, channelVars, merchantVars
  <1>0. UNCHANGED <<success, retries, taken, main, batch, retry, heard>>
    BY DEF Produce, SetStatus, ResendOrderWebhook, ReportUnknown, Send, LoseEvents
  <1>1. TypeOK' /\ EventsWere' /\ HeardWas'
    <2>1. ASSUME NEW S \in SUBSET Orders, NEW s \in {"paid", "cancelled"}, SetStatus(S, s)
          PROVE  TypeOK' /\ EventsWere' /\ HeardWas'
      BY <2>1, SetStatusIInv DEF OrderStatus
    <2>2. ASSUME NEW o \in Orders, ResendOrderWebhook(o)
          PROVE  TypeOK' /\ EventsWere' /\ HeardWas'
      <3>1. /\ announced' = announced \cup {StatusEvent(o, status[o])}
            /\ UNCHANGED <<orderVars, queue, taken, main, batch, retry, merchantVars>>
        BY <2>2 DEF ResendOrderWebhook, Announce
      <3>2. StatusEvent(o, status[o]) \in StatusEvents
        BY DEF StatusEvent, StatusEvents, TypeOK
      <3>3. TypeOK'
        BY <3>1, <3>2 DEF TypeOK, Events
      <3>4. \A e \in InSystem' : e \in InSystem \/ e = StatusEvent(o, status[o])
        BY <3>1 DEF InSystem
      <3>5. StatusEvent(o, status[o]).order = o /\ StatusEvent(o, status[o]).new_status \in been[o]
        BY DEF StatusEvent, EventsWere
      <3>6. EventsWere'
        BY <3>1, <3>4, <3>5 DEF EventsWere
      <3> QED  BY <3>1, <3>3, <3>6, HeardKept
    <2>3. ASSUME NEW T \in SUBSET Txs, ReportUnknown(T)
          PROVE  TypeOK' /\ EventsWere' /\ HeardWas'
      <3>1. {[unknown |-> t] : t \in T} \subseteq UnknownEvents
        BY DEF UnknownEvents
      <3>2. TypeOK'
        BY <2>3, <3>1 DEF ReportUnknown, Announce, TypeOK, Events
      <3>3. InSystem' \cap StatusEvents \subseteq InSystem
        BY <2>3 DEF ReportUnknown, Announce, InSystem, StatusEvents
      <3> QED  BY <1>0, <2>3, <3>2, <3>3, EventsKept, HeardKept DEF ReportUnknown
    <2>4. ASSUME NEW e \in announced, Send(e)
          PROVE  TypeOK' /\ EventsWere' /\ HeardWas'
      BY <1>0, <2>4, SendIInv, EventsKept, HeardKept DEF Send
    <2>5. ASSUME NEW E \in SUBSET announced, LoseEvents(E)
          PROVE  TypeOK' /\ EventsWere' /\ HeardWas'
      <3>1. TypeOK'
        BY <2>5 DEF LoseEvents, TypeOK
      <3>2. InSystem' \subseteq InSystem
        BY <2>5 DEF LoseEvents, InSystem
      <3> QED  BY <1>0, <2>5, <3>1, <3>2, EventsKept, HeardKept DEF LoseEvents
    <2> QED  BY <2>1, <2>2, <2>3, <2>4, <2>5 DEF Produce
  <1> QED  BY <1>0, <1>1, TasksUnchanged

----------------------------------------------------------------------------
(***************************************************************************)
(* The main task.                                                          *)
(***************************************************************************)
LEMMA ReceiveIInv == ASSUME IInv, Receive PROVE IInv'
  <1> USE DEF IInv, orderVars, statusVars, merchantVars
  <1>1. Head(queue) \in Events /\ Tail(queue) \in Seq(Events)
    BY DEF Receive, TypeOK
  <1>2. taken' \in [Orders -> Nat]
    BY DEF Receive, TypeOK
  <1>3. main' \in [at : {"post"}, event : Events] /\ main'.at = "post" /\ main'.event = Head(queue)
    BY <1>1 DEF Receive
  <1>4. TypeOK'
    BY <1>1, <1>2, <1>3 DEF Receive, TypeOK
  <1>5. SuccessWasAccepted' /\ MarksAccepted' /\ BatchSound'
    BY <1>3 DEF Receive, SuccessWasAccepted, MarksAccepted, BatchSound
  <1>6. RetriesReserved'
    <2> SUFFICES ASSUME NEW o \in Orders
                 PROVE  /\ (IF MainOwes(o)' THEN 1 ELSE 0) <= taken'[o]
                        /\ retries'[o] + (IF MainOwes(o)' THEN 1 ELSE 0)
                              + (IF RetryOwes(o)' THEN 1 ELSE 0) <= MaxRetryCount + taken'[o]
      BY DEF RetriesReserved
    <2>1. retries[o] \in Nat /\ taken[o] \in Nat
      BY DEF TypeOK
    <2>2. ~MainOwes(o)
      BY IdleFacts DEF Receive, MainOwes
    <2>3. retries[o] + (IF RetryOwes(o) THEN 1 ELSE 0) <= MaxRetryCount + taken[o]
      BY <2>1, <2>2 DEF RetriesReserved
    <2>4. (RetryOwes(o)' <=> RetryOwes(o)) /\ retries'[o] = retries[o]
      BY DEF Receive, RetryOwes
    <2>5. MainOwes(o)' <=> IsAbout(Head(queue), o)
      BY <1>3 DEF MainOwes, IsAbout
    <2>6. taken'[o] = IF IsAbout(Head(queue), o) THEN taken[o] + 1 ELSE taken[o]
      BY DEF Receive
    <2> QED  BY <2>1, <2>3, <2>4, <2>5, <2>6
  <1>7. EventsWere' /\ HeardWas'
    <2>1. \A i \in 1 .. Len(queue') : queue'[i] = queue[i + 1] /\ i + 1 \in 1 .. Len(queue)
      BY DEF Receive, TypeOK
    <2>2. Head(queue) = queue[1] /\ 1 \in 1 .. Len(queue)
      BY DEF Receive, TypeOK
    <2>3. InSystem' \subseteq InSystem
      BY <1>3, <2>1, <2>2, InSystemFacts DEF Receive, InSystem
    <2> QED  BY <2>3, EventsKept, HeardKept DEF Receive
  <1> QED  BY <1>4, <1>5, <1>6, <1>7

LEMMA SendOrderStatusWebhookIInv ==
    ASSUME IInv, NEW outcome \in Outcomes, SendOrderStatusWebhook(outcome)
    PROVE  IInv'
  <1> USE DEF IInv, orderVars, statusVars, channelVars
  <1> DEFINE o == main.event.order
  <1>1. /\ o \in Orders
        /\ main.event.new_status \in OrderStatus
    BY DEF SendOrderStatusWebhook, StatusEvents
  <1>2. /\ heard' \in [Orders -> {"none"} \cup OrderStatus]
        /\ \A p \in Orders : heard[p] # "none" => heard'[p] # "none"
        /\ outcome = "acknowledged" => heard'[o] # "none"
    BY <1>1, PostFacts DEF SendOrderStatusWebhook
  <1>3. /\ main' \in Record
        /\ main'.order = o
        /\ main'.at = "mark" => outcome = "acknowledged"
        /\ main'.at # "post"
    BY <1>1, AfterPostFacts DEF SendOrderStatusWebhook
  <1>4. TypeOK'
    BY <1>2, <1>3 DEF SendOrderStatusWebhook, TypeOK
  <1>5. SuccessWasAccepted'
    BY <1>2 DEF SendOrderStatusWebhook, SuccessWasAccepted, TypeOK
  <1>6. MarksAccepted'
    <2>1. main'.at = "mark" => heard'[main'.order] # "none"
      BY <1>2, <1>3
    <2>2. retry'.at = "mark" => heard'[retry'.order] # "none"
      <3>1. retry' = retry
        BY DEF SendOrderStatusWebhook
      <3>2. retry.at = "mark" => retry.order \in Orders
        BY IdleFacts DEF TypeOK, Record
      <3> QED  BY <1>2, <3>1, <3>2 DEF MarksAccepted
    <2> QED  BY <2>1, <2>2 DEF MarksAccepted
  <1>7. BatchSound'
    BY DEF SendOrderStatusWebhook, BatchSound
  <1>8. RetriesReserved'
    <2>1. \A p \in Orders : MainOwes(p)' => MainOwes(p)
      BY <1>3 DEF SendOrderStatusWebhook, MainOwes, IsAbout
    <2>2. \A p \in Orders : RetryOwes(p)' => RetryOwes(p)
      BY DEF SendOrderStatusWebhook, RetryOwes
    <2>3. UNCHANGED <<retries, taken>>
      BY DEF SendOrderStatusWebhook
    <2> QED  BY <2>1, <2>2, <2>3, ReservedKept
  <1>9. EventsWere' /\ HeardWas'
    <2>1. InSystem' \subseteq InSystem
      BY <1>3 DEF SendOrderStatusWebhook, InSystem
    <2>2. main.event \in InSystem \cap StatusEvents
      BY InSystemFacts DEF SendOrderStatusWebhook
    <2> QED  BY <2>1, <2>2, EventsKept, PostHeard DEF SendOrderStatusWebhook
  <1> QED  BY <1>4, <1>5, <1>6, <1>7, <1>8, <1>9

LEMMA RecordMainIInv == ASSUME IInv, RecordMain PROVE IInv'
  <1> USE DEF IInv, statusVars, channelVars, merchantVars
  <1> DEFINE o == main.order
  <1>1. o \in Orders /\ main \in Record
    BY IdleFacts DEF RecordMain, TypeOK, Record
  <1>2. main' = Idle
    BY DEF RecordMain
  <1>5. EventsWere' /\ HeardWas'
    <2>1. UNCHANGED <<status, been, announced, queue, batch, heard>>
      BY DEF RecordMain, RecordOutcome, MarkOrderWebhookSuccess, IncrementOrderWebhookRetryCount
    <2>2. InSystem' \subseteq InSystem
      BY <1>2, <2>1, IdleFacts DEF InSystem
    <2> QED  BY <2>1, <2>2, EventsKept, HeardKept
  <1>3. CASE main.at = "mark" /\ MarkOrderWebhookSuccess(o)
    <2>1. TypeOK'
      BY <1>1, <1>2, <1>3 DEF MarkOrderWebhookSuccess, RecordMain, TypeOK
    <2>2. SuccessWasAccepted'
      BY <1>3 DEF MarkOrderWebhookSuccess, RecordMain, SuccessWasAccepted, MarksAccepted
    <2>3. MarksAccepted' /\ BatchSound'
      BY <1>2, IdleFacts DEF RecordMain, MarksAccepted, BatchSound
    <2>4. \A p \in Orders : (MainOwes(p)' => MainOwes(p)) /\ (RetryOwes(p)' => RetryOwes(p))
      BY <1>2, IdleFacts DEF RecordMain, MainOwes, RetryOwes
    <2>5. UNCHANGED <<retries, taken>>
      BY <1>3 DEF MarkOrderWebhookSuccess, RecordMain
    <2>6. RetriesReserved'
      BY <2>4, <2>5, ReservedKept
    <2> QED  BY <1>5, <2>1, <2>2, <2>3, <2>6
  <1>4. CASE main.at = "count" /\ IncrementOrderWebhookRetryCount(o)
    <2>1. TypeOK'
      BY <1>1, <1>2, <1>4 DEF IncrementOrderWebhookRetryCount, RecordMain, TypeOK
    <2>2. SuccessWasAccepted' /\ MarksAccepted' /\ BatchSound'
      BY <1>2, <1>4, IdleFacts
      DEF IncrementOrderWebhookRetryCount, RecordMain, SuccessWasAccepted, MarksAccepted, BatchSound
    <2>3. RetriesReserved'
      <3> SUFFICES ASSUME NEW p \in Orders
                   PROVE  /\ (IF MainOwes(p)' THEN 1 ELSE 0) <= taken'[p]
                          /\ retries'[p] + (IF MainOwes(p)' THEN 1 ELSE 0)
                                + (IF RetryOwes(p)' THEN 1 ELSE 0) <= MaxRetryCount + taken'[p]
        BY DEF RetriesReserved
      <3>1. retries[p] \in Nat /\ taken[p] \in Nat
        BY DEF TypeOK
      <3>2. ~MainOwes(p)' /\ (RetryOwes(p)' <=> RetryOwes(p)) /\ taken' = taken
        BY <1>2, IdleFacts DEF RecordMain, MainOwes, RetryOwes
      <3>3. MainOwes(p) <=> p = o
        BY <1>4 DEF MainOwes
      <3>4. retries'[p] = IF p = o THEN retries[p] + 1 ELSE retries[p]
        BY <1>1, <1>4 DEF IncrementOrderWebhookRetryCount, TypeOK
      <3>5. /\ (IF MainOwes(p) THEN 1 ELSE 0) <= taken[p]
            /\ retries[p] + (IF MainOwes(p) THEN 1 ELSE 0)
                  + (IF RetryOwes(p) THEN 1 ELSE 0) <= MaxRetryCount + taken[p]
        BY DEF RetriesReserved
      <3> QED  BY <3>1, <3>2, <3>3, <3>4, <3>5
    <2> QED  BY <1>5, <2>1, <2>2, <2>3
  <1> QED  BY <1>3, <1>4 DEF RecordMain, RecordOutcome

\* An event about an unknown transfer, or a failure, leaves the main task idle
\* and the rows alone.
LEMMA MainDoneIInv ==
    ASSUME IInv,
           \/ FailMain
           \/ \E t \in Txs, outcome \in Outcomes : SendUnknownTransferWebhook(t, outcome)
    PROVE  IInv'
  <1> USE DEF IInv, orderVars, statusVars, channelVars, merchantVars
  <1>1. /\ main' = Idle
        /\ UNCHANGED <<orderVars, channelVars, batch, retry, heard>>
        /\ told' \subseteq Txs
    BY DEF FailMain, SendUnknownTransferWebhook, TypeOK
  <1>2. TypeOK'
    BY <1>1 DEF TypeOK
  <1>3. SuccessWasAccepted' /\ MarksAccepted' /\ BatchSound'
    BY <1>1, IdleFacts DEF SuccessWasAccepted, MarksAccepted, BatchSound
  <1>4. \A o \in Orders : (MainOwes(o)' => MainOwes(o)) /\ (RetryOwes(o)' => RetryOwes(o))
    BY <1>1, IdleFacts DEF MainOwes, RetryOwes
  <1>5. RetriesReserved'
    BY <1>1, <1>4, ReservedKept
  <1>6. EventsWere' /\ HeardWas'
    <2>1. InSystem' \subseteq InSystem
      BY <1>1, IdleFacts DEF InSystem
    <2> QED  BY <1>1, <2>1, EventsKept, HeardKept
  <1> QED  BY <1>2, <1>3, <1>5, <1>6

----------------------------------------------------------------------------
(***************************************************************************)
(* The retry task.                                                         *)
(***************************************************************************)
LEMMA GetOrdersForWebhookRetryIInv ==
    ASSUME IInv, GetOrdersForWebhookRetry PROVE IInv'
  <1> USE DEF IInv, orderVars, statusVars, channelVars, merchantVars
  <1>1. PICK S \in SUBSET Due : batch' = {StatusEvent(o, status[o]) : o \in S}
    BY DEF GetOrdersForWebhookRetry
  <1>2. /\ UNCHANGED <<orderVars, channelVars, main, retry, merchantVars>>
        /\ retry = Idle /\ batch = {}
    BY DEF GetOrdersForWebhookRetry
  <1>3. S \subseteq Orders /\ \A o \in S : retries[o] + 1 <= MaxRetryCount
    <2>1. \A o \in S : o \in Orders /\ ~(retries[o] >= MaxRetryCount)
      BY DEF Due, Exhausted
    <2>2. \A o \in Orders : retries[o] \in Nat
      BY DEF TypeOK
    <2> QED  BY <2>1, <2>2
  <1>4. TypeOK'
    <2>1. batch' \subseteq StatusEvents
      BY <1>1, <1>3 DEF StatusEvent, StatusEvents, TypeOK
    <2> QED  BY <1>2, <2>1 DEF TypeOK
  <1>5. SuccessWasAccepted' /\ MarksAccepted'
    BY <1>2 DEF SuccessWasAccepted, MarksAccepted
  <1>6. BatchSound'
    BY <1>1, <1>2 DEF BatchSound, StatusEvent
  <1>7. RetriesReserved'
    <2> SUFFICES ASSUME NEW o \in Orders
                 PROVE  /\ (IF MainOwes(o)' THEN 1 ELSE 0) <= taken'[o]
                        /\ retries'[o] + (IF MainOwes(o)' THEN 1 ELSE 0)
                              + (IF RetryOwes(o)' THEN 1 ELSE 0) <= MaxRetryCount + taken'[o]
      BY DEF RetriesReserved
    <2>1. retries[o] \in Nat /\ taken[o] \in Nat
      BY DEF TypeOK
    <2>2. (MainOwes(o)' <=> MainOwes(o)) /\ UNCHANGED <<retries, taken>>
      BY <1>2 DEF MainOwes
    <2>3. RetryOwes(o)' => o \in S
      BY <1>1, <1>2, IdleFacts DEF RetryOwes, StatusEvent
    <2>4. /\ (IF MainOwes(o) THEN 1 ELSE 0) <= taken[o]
          /\ retries[o] + (IF MainOwes(o) THEN 1 ELSE 0) <= MaxRetryCount + taken[o]
      BY <2>1 DEF RetriesReserved
    <2>5. o \in S => retries[o] + (IF MainOwes(o) THEN 1 ELSE 0) + 1 <= MaxRetryCount + taken[o]
      BY <1>3, <2>1, <2>4
    <2> QED  BY <2>1, <2>2, <2>3, <2>4, <2>5
  <1>8. EventsWere' /\ HeardWas'
    <2>1. ASSUME NEW e \in InSystem' \cap StatusEvents
          PROVE  e.new_status \in been[e.order]
      <3>1. e \in InSystem \/ \E o \in S : e = StatusEvent(o, status[o])
        BY <1>1, <1>2 DEF InSystem
      <3>2. CASE e \in InSystem
        BY <3>2 DEF EventsWere
      <3>3. CASE \E o \in S : e = StatusEvent(o, status[o])
        BY <1>3, <3>3 DEF EventsWere, StatusEvent
      <3> QED  BY <3>1, <3>2, <3>3
    <2>2. EventsWere'
      BY <1>2, <2>1 DEF EventsWere
    <2> QED  BY <1>2, <2>2, HeardKept
  <1> QED  BY <1>4, <1>5, <1>6, <1>7, <1>8

LEMMA RetryPostIInv ==
    ASSUME IInv, NEW e \in batch, NEW outcome \in Outcomes, RetryPost(e, outcome)
    PROVE  IInv'
  <1> USE DEF IInv, orderVars, statusVars, channelVars
  <1> DEFINE o == e.order
  <1>1. o \in Orders /\ e.new_status \in OrderStatus
    BY DEF TypeOK, StatusEvents
  <1>2. /\ heard' \in [Orders -> {"none"} \cup OrderStatus]
        /\ \A p \in Orders : heard[p] # "none" => heard'[p] # "none"
        /\ outcome = "acknowledged" => heard'[o] # "none"
    BY <1>1, PostFacts DEF RetryPost
  <1>3. /\ retry' \in Record
        /\ retry'.order = o
        /\ retry'.at = "mark" => outcome = "acknowledged"
    BY <1>1, AfterPostFacts DEF RetryPost
  <1>4. /\ UNCHANGED <<status, been, success, retries, resting, announced, queue, taken, main, told>>
        /\ batch' = batch \ {e}
        /\ retry = Idle
    BY DEF RetryPost
  <1>5. TypeOK'
    BY <1>2, <1>3, <1>4 DEF TypeOK
  <1>6. SuccessWasAccepted'
    BY <1>2, <1>4 DEF SuccessWasAccepted, TypeOK
  <1>7. MarksAccepted'
    <2>1. retry'.at = "mark" => heard'[retry'.order] # "none"
      BY <1>2, <1>3
    <2>2. main.at = "mark" => main.order \in Orders
      BY IdleFacts DEF TypeOK, Record
    <2>3. main'.at = "mark" => heard'[main'.order] # "none"
      BY <1>2, <1>4, <2>2 DEF MarksAccepted
    <2> QED  BY <2>1, <2>3 DEF MarksAccepted
  <1>8. BatchSound'
    BY <1>3, <1>4 DEF BatchSound
  <1>9. RetriesReserved'
    <2>1. \A p \in Orders : MainOwes(p)' => MainOwes(p)
      BY <1>4 DEF MainOwes
    <2>2. \A p \in Orders : RetryOwes(p)' => RetryOwes(p)
      BY <1>3, <1>4 DEF RetryOwes
    <2> QED  BY <1>4, <2>1, <2>2, ReservedKept
  <1>10. EventsWere' /\ HeardWas'
    <2>1. InSystem' \subseteq InSystem
      BY <1>4 DEF InSystem
    <2>2. e \in InSystem \cap StatusEvents
      BY InSystemFacts DEF TypeOK
    <2> QED  BY <1>4, <2>1, <2>2, EventsKept, PostHeard DEF RetryPost
  <1> QED  BY <1>5, <1>6, <1>7, <1>8, <1>9, <1>10

LEMMA RecordRetryIInv == ASSUME IInv, RecordRetry PROVE IInv'
  <1> USE DEF IInv, statusVars, channelVars, merchantVars
  <1> DEFINE o == retry.order
  <1>1. o \in Orders /\ retry # Idle
    BY DEF RecordRetry, TypeOK, Record
  <1>2. retry' = Idle /\ UNCHANGED <<channelVars, main, batch, merchantVars>>
    BY DEF RecordRetry
  <1>3. MarksAccepted' /\ BatchSound'
    BY <1>2, IdleFacts DEF MarksAccepted, BatchSound
  <1>6. EventsWere' /\ HeardWas'
    <2>1. UNCHANGED <<status, been>>
      BY DEF RecordRetry, RecordOutcome, MarkOrderWebhookSuccess, IncrementOrderWebhookRetryCount
    <2>2. InSystem' \subseteq InSystem
      BY <1>2 DEF InSystem
    <2> QED  BY <1>2, <2>1, <2>2, EventsKept, HeardKept
  <1>4. CASE retry.at = "mark" /\ MarkOrderWebhookSuccess(o)
    <2>1. TypeOK'
      BY <1>1, <1>2, <1>4 DEF MarkOrderWebhookSuccess, TypeOK
    <2>2. SuccessWasAccepted'
      BY <1>2, <1>4 DEF MarkOrderWebhookSuccess, SuccessWasAccepted, MarksAccepted
    <2>3. \A p \in Orders : (MainOwes(p)' => MainOwes(p)) /\ (RetryOwes(p)' => RetryOwes(p))
      BY <1>2, IdleFacts DEF MainOwes, RetryOwes
    <2>4. UNCHANGED <<retries, taken>>
      BY <1>2, <1>4 DEF MarkOrderWebhookSuccess
    <2>5. RetriesReserved'
      BY <2>3, <2>4, ReservedKept
    <2> QED  BY <1>3, <1>6, <2>1, <2>2, <2>5
  <1>5. CASE retry.at = "count" /\ IncrementOrderWebhookRetryCount(o)
    <2>1. TypeOK'
      BY <1>1, <1>2, <1>5 DEF IncrementOrderWebhookRetryCount, TypeOK
    <2>2. SuccessWasAccepted'
      BY <1>2, <1>5 DEF IncrementOrderWebhookRetryCount, SuccessWasAccepted
    <2>3. RetriesReserved'
      <3> SUFFICES ASSUME NEW p \in Orders
                   PROVE  /\ (IF MainOwes(p)' THEN 1 ELSE 0) <= taken'[p]
                          /\ retries'[p] + (IF MainOwes(p)' THEN 1 ELSE 0)
                                + (IF RetryOwes(p)' THEN 1 ELSE 0) <= MaxRetryCount + taken'[p]
        BY DEF RetriesReserved
      <3>1. retries[p] \in Nat /\ taken[p] \in Nat
        BY DEF TypeOK
      <3>2. (MainOwes(p)' <=> MainOwes(p)) /\ taken' = taken
        BY <1>2 DEF MainOwes
      <3>3. p = o => RetryOwes(p) /\ ~RetryOwes(p)'
        BY <1>1, <1>2, <1>5, IdleFacts DEF RetryOwes, BatchSound
      <3>4. RetryOwes(p)' => RetryOwes(p)
        BY <1>2, IdleFacts DEF RetryOwes
      <3>5. retries'[p] = IF p = o THEN retries[p] + 1 ELSE retries[p]
        BY <1>1, <1>5 DEF IncrementOrderWebhookRetryCount, TypeOK
      <3>6. /\ (IF MainOwes(p) THEN 1 ELSE 0) <= taken[p]
            /\ retries[p] + (IF MainOwes(p) THEN 1 ELSE 0)
                  + (IF RetryOwes(p) THEN 1 ELSE 0) <= MaxRetryCount + taken[p]
        BY DEF RetriesReserved
      <3> QED  BY <3>1, <3>2, <3>3, <3>4, <3>5, <3>6
    <2> QED  BY <1>3, <1>6, <2>1, <2>2, <2>3
  <1> QED  BY <1>4, <1>5 DEF RecordRetry, RecordOutcome

LEMMA FailRetryIInv == ASSUME IInv, FailRetry PROVE IInv'
  <1> USE DEF IInv, orderVars, statusVars, channelVars, merchantVars
  <1>1. /\ retry' = Idle
        /\ batch' = {}
        /\ UNCHANGED <<orderVars, channelVars, main, merchantVars>>
    BY DEF FailRetry
  <1>2. TypeOK'
    BY <1>1 DEF TypeOK
  <1>3. SuccessWasAccepted' /\ MarksAccepted' /\ BatchSound'
    BY <1>1, IdleFacts DEF SuccessWasAccepted, MarksAccepted, BatchSound
  <1>4. \A o \in Orders : (MainOwes(o)' => MainOwes(o)) /\ (RetryOwes(o)' => RetryOwes(o))
    BY <1>1, IdleFacts DEF MainOwes, RetryOwes
  <1>5. EventsWere' /\ HeardWas'
    <2>1. InSystem' \subseteq InSystem
      BY <1>1 DEF InSystem
    <2> QED  BY <1>1, <2>1, EventsKept, HeardKept
  <1> QED  BY <1>1, <1>2, <1>3, <1>4, <1>5, ReservedKept

LEMMA ElapseIInv == ASSUME IInv, NEW o \in Orders, Elapse(o) PROVE IInv'
  <1> USE DEF IInv, statusVars, channelVars, merchantVars
  <1>1. UNCHANGED <<success, retries, taken, main, batch, retry, heard>>
    BY DEF Elapse
  <1>2. TypeOK'
    BY DEF Elapse, TypeOK
  <1>3. UNCHANGED <<statusVars, announced, queue>>
    BY DEF Elapse
  <1>4. EventsWere' /\ HeardWas'
    <2>1. InSystem' \subseteq InSystem
      BY <1>1, <1>3 DEF InSystem
    <2> QED  BY <1>1, <1>3, <2>1, EventsKept, HeardKept
  <1> QED  BY <1>1, <1>2, <1>4, TasksUnchanged

LEMMA RestartIInv == ASSUME IInv, Restart PROVE IInv'
  <1> USE DEF IInv, orderVars, statusVars, merchantVars
  <1>1. /\ main' = Idle /\ retry' = Idle
        /\ batch' = {} /\ announced' = {} /\ queue' = << >>
        /\ UNCHANGED <<orderVars, taken, merchantVars>>
    BY DEF Restart
  <1>2. TypeOK'
    BY <1>1 DEF TypeOK
  <1>3. SuccessWasAccepted' /\ MarksAccepted' /\ BatchSound'
    BY <1>1, IdleFacts DEF SuccessWasAccepted, MarksAccepted, BatchSound
  <1>4. \A o \in Orders : (MainOwes(o)' => MainOwes(o)) /\ (RetryOwes(o)' => RetryOwes(o))
    BY <1>1, IdleFacts DEF MainOwes, RetryOwes
  <1>5. EventsWere' /\ HeardWas'
    <2>1. InSystem' = {}
      BY <1>1, IdleFacts DEF InSystem
    <2> QED  BY <1>1, <2>1, EventsKept, HeardKept
  <1> QED  BY <1>1, <1>2, <1>3, <1>4, <1>5, ReservedKept

LEMMA NextIInv == IInv /\ [Next]_vars => IInv'
  <1> SUFFICES ASSUME IInv, [Next]_vars PROVE IInv'
    OBVIOUS
  <1>1. CASE Produce
    BY <1>1, ProduceIInv
  <1>2. CASE MainStep
    BY <1>2, ReceiveIInv, SendOrderStatusWebhookIInv, RecordMainIInv, MainDoneIInv DEF MainStep
  <1>3. CASE RetryStep
    BY <1>3, GetOrdersForWebhookRetryIInv, RetryPostIInv, RecordRetryIInv, FailRetryIInv
    DEF RetryStep
  <1>4. CASE \E o \in Orders : Elapse(o)
    BY <1>4, ElapseIInv
  <1>5. CASE Restart
    BY <1>5, RestartIInv
  <1>6. CASE UNCHANGED vars
    <2>1. UNCHANGED <<success, retries, taken, main, batch, retry, heard>>
      BY <1>6 DEF vars, orderVars, channelVars, merchantVars
    <2>2. TypeOK'
      BY <1>6 DEF IInv, TypeOK, vars, orderVars, statusVars, channelVars, merchantVars
    <2>3. UNCHANGED statusVars /\ InSystem' \subseteq InSystem
      BY <1>6 DEF InSystem, vars, orderVars, channelVars
    <2>4. EventsWere' /\ HeardWas'
      BY <2>1, <2>3, EventsKept, HeardKept DEF IInv, statusVars
    <2> QED  BY <2>1, <2>2, <2>4, TasksUnchanged DEF IInv
  <1> QED  BY <1>1, <1>2, <1>3, <1>4, <1>5, <1>6 DEF Next

----------------------------------------------------------------------------
\* In every reachable state a mark rests on an accepted post, an order is in
\* the hands of the retry task at most once, and every failure yet to be
\* counted has its place under the bound.
THEOREM Invariance == Spec => []IInv
  <1>1. Init => IInv
    BY InitIInv
  <1>2. IInv /\ [Next]_vars => IInv'
    BY NextIInv
  <1> QED  BY <1>1, <1>2, PTL DEF Spec

\* Rows, channel, tasks and merchant keep their types.
THEOREM TypeCorrect == Spec => []TypeOK
  <1>1. IInv => TypeOK
    BY DEF IInv
  <1> QED  BY <1>1, Invariance, PTL

\* webhook_success_at is set only for an order the merchant was told of, with
\* two tasks marking and any number of restarts in between.
THEOREM SuccessWasAcceptedHolds == Spec => []SuccessWasAccepted
  <1>1. IInv => SuccessWasAccepted
    BY DEF IInv
  <1> QED  BY <1>1, Invariance, PTL

\* The merchant never accepts a post about a status the order did not have,
\* through resends, batches read before the last change, and restarts.
THEOREM HeardWasHolds == Spec => []HeardWas
  <1>1. IInv => HeardWas
    BY DEF IInv
  <1> QED  BY <1>1, Invariance, PTL

\* webhook_retry_count passes the limit by no more than the events the main
\* task took, though the retry task tests it before a post and counts after.
THEOREM RetriesBoundedHolds == Spec => []RetriesBounded
  <1>1. IInv => RetriesBounded
    <2> SUFFICES ASSUME IInv, NEW o \in Orders
                 PROVE  retries[o] <= MaxRetryCount + taken[o]
      BY DEF RetriesBounded
    <2>1. retries[o] \in Nat /\ taken[o] \in Nat
      BY DEF IInv, TypeOK
    <2>2. retries[o] + (IF MainOwes(o) THEN 1 ELSE 0)
              + (IF RetryOwes(o) THEN 1 ELSE 0) <= MaxRetryCount + taken[o]
      BY DEF IInv, RetriesReserved
    <2> QED  BY <2>1, <2>2
  <1> QED  BY <1>1, Invariance, PTL
=============================================================================
