------------------------ MODULE PoolingManagerProofs ------------------------
(***************************************************************************)
(* PoolingManager for every set of wallets and configurations, every       *)
(* interval and channel, and any number of reloads: IInv is inductive.     *)
(*                                                                         *)
(* A reload compares pairs, so an entry whose pair stays listed keeps the  *)
(* loop it has.  What a loop does by itself takes nobody out of            *)
(* active_tasks, and only a loop without a receiver ends.  Whether the     *)
(* first loops have receivers is decided when they are spawned: no store   *)
(* that a reload replaced has receivers again before a restart.            *)
(***************************************************************************)
EXTENDS PoolingManager, TLAPS

USE ConstantsAssumption

\* A loop at the top of its body is a loop, reaches what it reached before, and
\* runs.
LEMMA IterateType ==
  ASSUME NEW l \in Loop, NEW next \in Iterate(l)
  PROVE  next \in Loop /\ next.at = "waiting" /\ next.linked = l.linked
<1>1. PICK n \in Intervals : next = [l EXCEPT !.at = "waiting", !.wait = n]
  BY DEF Iterate
<1>2. n \in Nat
  OBVIOUS
<1>3. /\ l.linked \in BOOLEAN
      /\ l.inbox \in Seq(Keys \cup {NoKey})
      /\ l = [at |-> l.at, linked |-> l.linked, wait |-> l.wait, inbox |-> l.inbox]
  BY DEF Loop
<1>4. next = [at |-> "waiting", linked |-> l.linked, wait |-> n, inbox |-> l.inbox]
  BY <1>1, <1>3
<1> QED
  BY <1>2, <1>3, <1>4 DEF Loop

\* The broadcast leaves a receiver pairs and errors.
LEMMA DeliverType ==
  ASSUME NEW q \in Seq(Keys \cup {NoKey}), NEW k \in Keys
  PROVE  Deliver(q, k) \in Seq(Keys \cup {NoKey})
<1> DEFINE T == Keys \cup {NoKey}
           held == IF q # <<>> /\ Head(q) = NoKey THEN Tail(q) ELSE q
<1>1. held \in Seq(T)
  OBVIOUS
<1>2. CASE Len(held) < Capacity
  <2>1. Append(held, k) \in Seq(T) /\ Append(q, k) \in Seq(T)
    BY <1>1
  <2> QED
    BY <1>2, <2>1 DEF Deliver
<1>3. CASE ~(Len(held) < Capacity)
  <2>1. held # <<>>
    <3>1. Len(held) \in Nat /\ Len(held) >= Capacity /\ Capacity > 0
      <4>1. Len(held) \in Nat
        BY <1>1
      <4> HIDE DEF held
      <4> QED
        BY <1>3, <4>1
    <3> HIDE DEF held
    <3> QED
      BY <3>1
  <2>2. Tail(held) \in Seq(T)
    BY <1>1, <2>1
  <2>3. Append(Tail(held), k) \in Seq(T)
    BY <2>2
  <2>4. <<NoKey>> \o Append(Tail(held), k) \in Seq(T)
    BY <2>3
  <2> QED
    BY <1>3, <2>4 DEF Deliver
<1> QED
  BY <1>2, <1>3

\* No loop is a loop that does nothing.
LEMMA NoLoopType == NoLoop \in Loop /\ NoLoop.at = "none"
  BY DEF NoLoop, Loop

\* Nor does one that ended.
LEMMA EndedType ==
  ASSUME NEW l, l = [NoLoop EXCEPT !.at = "ended"]
  PROVE  l \in Loop /\ l.at = "ended" /\ l.linked = FALSE
<1>1. l = [at |-> "ended", linked |-> FALSE, wait |-> 0, inbox |-> <<>>]
  BY DEF NoLoop
<1> DEFINE ended == [at |-> "ended", linked |-> FALSE, wait |-> 0, inbox |-> <<>>]
<1>2. ended \in Loop /\ ended.at = "ended" /\ ended.linked = FALSE
  BY DEF Loop
<1>3. l = ended
  BY <1>1
<1> HIDE DEF ended
<1> QED
  BY <1>2, <1>3, Zenon

\* Spawned loops run and reach what the store reaches; the aborted are gone.
LEMMA SpawnAndAbortLoops ==
  ASSUME loop \in [Entries -> Loop], attached \in BOOLEAN,
         NEW S \in SUBSET Entries, NEW T \in SUBSET Entries,
         SpawnAndAbort(S, T)
  PROVE  /\ loop' \in [Entries -> Loop]
         /\ \A e \in S : loop'[e].at = "waiting" /\ loop'[e].linked = attached
         /\ \A e \in T \ S : loop'[e].at = "none"
         /\ \A e \in Entries \ (S \cup T) : loop'[e] = loop[e]
<1> DEFINE first == [NoLoop EXCEPT !.linked = attached]
<1>1. first \in Loop /\ first.linked = attached
  <2>1. first = [at |-> "none", linked |-> attached, wait |-> 0, inbox |-> <<>>]
    BY DEF NoLoop
  <2>2. attached \in BOOLEAN
    OBVIOUS
  <2> HIDE DEF first
  <2> QED
    BY <2>1, <2>2 DEF Loop
<1> HIDE DEF first
<1>2. PICK l \in [S -> Iterate(first)] :
        loop' = [e \in Entries |->
                   IF e \in S THEN l[e] ELSE IF e \in T THEN NoLoop ELSE loop[e]]
  BY DEF SpawnAndAbort, SpawnTickLoop, first
<1>3. \A next \in Iterate(first) :
        next \in Loop /\ next.at = "waiting" /\ next.linked = attached
  BY <1>1, IterateType
<1>4. \A e \in S : l[e] \in Loop /\ l[e].at = "waiting" /\ l[e].linked = attached
  BY <1>3
<1> QED
  BY <1>2, <1>4, NoLoopType

\* A step that takes no task away, ends none that has a receiver and gives none
\* a receiver leaves the tasks as they are.
LEMMA LoopsKept ==
  ASSUME IInv, UNCHANGED <<configVars, manager, historyVars>>, TypeOK',
         \A e \in Entries :
            /\ loop[e].at # "none" <=> loop'[e].at # "none"
            /\ loop'[e].linked = TRUE => loop[e].linked
            /\ e \in Running /\ loop[e].linked => (e \in Running)' /\ loop'[e].linked
  PROVE  IInv'
<1> USE DEF configVars, historyVars
<1>1. Active' = Active
  BY DEF Active
<1>2. KeysOf(Active)' = KeysOf(Active) /\ KeysOf(listed)' = KeysOf(listed)
  BY <1>1 DEF KeysOf
<1>3. LoopsFollowStore'
  BY <1>2 DEF IInv, LoopsFollowStore
<1>4. /\ kept \subseteq Entries
      /\ \A e \in Entries : loop'[e].linked \in BOOLEAN /\ loop[e].linked \in BOOLEAN
  BY DEF IInv, TypeOK, Loop
<1>5. KeptPairsServed'
  <2>1. manager # "boot" /\ ~late =>
          \A e \in kept : (e \in Running)' /\ loop'[e].linked
    BY <1>4 DEF IInv, KeptPairsServed
  <2>2. late => \A e \in Entries : ~loop'[e].linked
    BY <1>4 DEF IInv, KeptPairsServed
  <2> QED
    BY <2>1, <2>2 DEF KeptPairsServed
<1>6. KeptListed'
  BY <1>2 DEF IInv, KeptListed
<1>7. StartSound'
  BY <1>4 DEF IInv, StartSound
<1> QED
  BY <1>3, <1>5, <1>6, <1>7 DEF IInv

\* A process starts without loops, and every entry of its store counts as kept.
LEMMA BootSound ==
  ASSUME loop = AllIdle, manager = "boot", kept = listed, late = FALSE
  PROVE  LoopsFollowStore /\ KeptPairsServed /\ KeptListed /\ StartSound
<1>1. \A e \in Entries : loop[e].at = "none" /\ ~loop[e].linked
  BY DEF AllIdle, NoLoop
<1>2. LoopsFollowStore /\ KeptPairsServed
  BY DEF LoopsFollowStore, KeptPairsServed
<1>3. KeptListed
  BY DEF KeptListed, KeysOf
<1> QED
  BY <1>1, <1>2, <1>3 DEF StartSound

\* The first start.
LEMMA InitIInv == Init => IInv
<1> SUFFICES ASSUME Init
             PROVE  IInv
  OBVIOUS
<1>1. AllIdle \in [Entries -> Loop] /\ NoTicks \in [Entries -> 0 .. Buffer]
  BY NoLoopType DEF AllIdle, NoTicks
<1>2. TypeOK
  <2>1. wallets \subseteq Entries /\ listed \subseteq Entries /\ kept \subseteq Entries
    BY DEF Init
  <2>2. reloads \in 0 .. MaxReloads /\ events \in Seq(Keys)
    BY DEF Init
  <2> QED
    BY <1>1, <2>1, <2>2 DEF Init, TypeOK
<1>3. LoopsFollowStore /\ KeptPairsServed /\ KeptListed /\ StartSound
  BY BootSound DEF Init
<1> QED
  BY <1>2, <1>3 DEF IInv

\* A restart loses every loop, and the entries of the file it reads are kept.
LEMMA RestartIInv ==
  ASSUME IInv, NEW S \in Files, Restart(S)
  PROVE  IInv'
<1>1. AllIdle \in [Entries -> Loop] /\ NoTicks \in [Entries -> 0 .. Buffer]
  BY NoLoopType DEF AllIdle, NoTicks
<1>2. TypeOK'
  <2>1. wallets' \subseteq Entries /\ listed' \subseteq Entries /\ kept' \subseteq Entries
    BY DEF Restart
  <2>2. reloads' \in 0 .. MaxReloads /\ events' \in Seq(Keys) /\ due' \subseteq Entries
    BY DEF Restart, IInv, TypeOK
  <2> QED
    BY <1>1, <2>1, <2>2 DEF Restart, TypeOK
<1>3. /\ loop' = [e \in Entries |-> NoLoop] /\ manager' = "boot"
      /\ kept' = listed' /\ late' = FALSE
  BY DEF Restart, AllIdle
<1>4. \A e \in Entries : loop'[e].at = "none" /\ ~loop'[e].linked
  BY <1>3 DEF NoLoop
<1>5. LoopsFollowStore' /\ KeptPairsServed'
  BY <1>3 DEF LoopsFollowStore, KeptPairsServed
<1>6. KeptListed'
  BY <1>3 DEF KeptListed, KeysOf
<1>7. StartSound'
  BY <1>3, <1>4 DEF StartSound
<1> QED
  BY <1>2, <1>5, <1>6, <1>7 DEF IInv

\* Deposits and the runners touch no loop.
LEMMA OutsideIInv ==
  ASSUME IInv, NEW e \in Entries,
         CreatePayment(e) \/ CreatePaymentUnheard(e) \/ Sync(e)
  PROVE  IInv'
<1>1. KeyOf[e] \in Keys
  OBVIOUS
<1>2. TypeOK'
  <2>1. CASE CreatePayment(e)
    BY <1>1, <2>1 DEF CreatePayment, IInv, TypeOK, configVars, historyVars
  <2>2. CASE CreatePaymentUnheard(e)
    BY <1>1, <2>2 DEF CreatePaymentUnheard, IInv, TypeOK, configVars, historyVars
  <2>3. CASE Sync(e)
    BY <2>3 DEF Sync, IInv, TypeOK, configVars, historyVars
  <2> QED
    BY <2>1, <2>2, <2>3
<1>3. UNCHANGED <<configVars, manager, historyVars, loop>>
  BY DEF CreatePayment, CreatePaymentUnheard, Sync
<1> QED
  BY <1>2, <1>3, LoopsKept DEF Running

\* Time only shortens sleeps.
LEMMA ElapseIInv ==
  ASSUME IInv, Elapse
  PROVE  IInv'
<1>1. ASSUME NEW e \in Entries
      PROVE  /\ loop'[e] \in Loop
             /\ loop'[e].at = loop[e].at
             /\ loop'[e].linked = loop[e].linked
  <2>1. loop[e] \in Loop
    BY DEF IInv, TypeOK
  <2>2. loop'[e] = [loop[e] EXCEPT !.wait = IF @ > 0 THEN @ - 1 ELSE 0]
    BY DEF Elapse
  <2> QED
    BY <2>1, <2>2 DEF Loop
<1>2. loop' \in [Entries -> Loop]
  BY <1>1 DEF Elapse
<1>3. UNCHANGED <<configVars, manager, historyVars, events, ticks, due>>
  BY DEF Elapse
<1>4. TypeOK'
  BY <1>2, <1>3 DEF IInv, TypeOK, configVars, historyVars
<1> QED
  BY <1>1, <1>3, <1>4, LoopsKept DEF Running

\* The three steps of a reload: an entry is kept while the store lists its pair,
\* and the store's watcher learns of each change.
LEMMA ReloadIInv ==
  ASSUME IInv, UpdateStore \/ Notify \/ \E S \in Files : Reload(S)
  PROVE  IInv'
<1> USE DEF historyVars
<1>1. TypeOK'
  <2>1. CASE \E S \in Files : Reload(S)
    BY <2>1 DEF Reload, IInv, TypeOK
  <2>2. CASE UpdateStore
    <3>1. kept' \subseteq Entries
      BY <2>2 DEF UpdateStore, IInv, TypeOK
    <3> QED
      BY <2>2, <3>1 DEF UpdateStore, IInv, TypeOK
  <2>3. CASE Notify
    BY <2>3 DEF Notify, IInv, TypeOK
  <2> QED
    BY <2>1, <2>2, <2>3
<1>2. UNCHANGED <<loop, manager, late>> /\ kept' \subseteq kept
  BY DEF Reload, UpdateStore, Notify
<1>3. Active' = Active /\ Running' = Running
  BY <1>2 DEF Active, Running
<1>4. LoopsFollowStore'
  BY <1>2, <1>3 DEF IInv, LoopsFollowStore, KeysOf, Reload, UpdateStore, Notify
<1>5. KeptPairsServed'
  BY <1>2, <1>3 DEF IInv, KeptPairsServed
<1>6. KeptListed'
  BY <1>2, <1>3 DEF IInv, KeptListed, KeysOf, Reload, UpdateStore, Notify
<1>7. StartSound'
  BY <1>2 DEF IInv, StartSound, Reload, UpdateStore, Notify
<1> QED
  BY <1>1, <1>4, <1>5, <1>6, <1>7 DEF IInv

\* At the start the senders of the store have receivers and the store lists all
\* that is kept; if a reload came first, no loop has a receiver.
LEMMA BootstrapIInv ==
  ASSUME IInv, Bootstrap
  PROVE  IInv'
<1> USE DEF configVars
<1>1. listed \subseteq Entries /\ Active = {} /\ manager = "boot"
  BY DEF Bootstrap, IInv, TypeOK, StartSound, Active
<1>2. /\ loop' \in [Entries -> Loop]
      /\ \A e \in listed : loop'[e].at = "waiting" /\ loop'[e].linked = attached
      /\ \A e \in Entries \ listed : loop'[e] = loop[e]
  <2>1. SpawnAndAbort(listed, {})
    BY DEF Bootstrap
  <2>2. loop \in [Entries -> Loop] /\ attached \in BOOLEAN
    BY DEF IInv, TypeOK
  <2>3. \A S, T \in SUBSET Entries : SpawnAndAbort(S, T) =>
          /\ loop' \in [Entries -> Loop]
          /\ \A e \in S : loop'[e].at = "waiting" /\ loop'[e].linked = attached
          /\ \A e \in Entries \ (S \cup T) : loop'[e] = loop[e]
    BY <2>2, SpawnAndAbortLoops
  <2> QED
    BY <1>1, <2>1, <2>3
<1>3. Active' = listed
  BY <1>1, <1>2 DEF Active
<1>4. TypeOK'
  BY <1>2 DEF Bootstrap, IInv, TypeOK, KeysOf
<1>5. UNCHANGED <<configVars, kept>> /\ late' = ~attached /\ manager' = "select"
  BY DEF Bootstrap
<1>6. \A e \in Entries \ listed : ~loop'[e].linked
  BY <1>1, <1>2 DEF IInv, StartSound
<1>7. KeptPairsServed'
  <2>1. CASE attached
    <3>1. kept \subseteq listed
      BY <2>1 DEF IInv, KeptListed
    <3>2. \A e \in kept : (e \in Running)' /\ loop'[e].linked
      BY <1>1, <1>2, <2>1, <3>1 DEF Running
    <3> QED
      BY <1>5, <2>1, <3>2 DEF KeptPairsServed
  <2>2. CASE ~attached
    <3>1. \A e \in Entries : ~loop'[e].linked
      BY <1>2, <1>6, <2>2
    <3> QED
      BY <1>5, <2>2, <3>1 DEF KeptPairsServed
  <2> QED
    BY <2>1, <2>2
<1>8. LoopsFollowStore'
  BY <1>3, <1>5 DEF LoopsFollowStore, KeysOf
<1>9. KeptListed'
  BY <1>5 DEF IInv, KeptListed, KeysOf
<1>10. StartSound'
  BY <1>5 DEF StartSound
<1> QED
  BY <1>4, <1>7, <1>8, <1>9, <1>10 DEF IInv

\* The watcher's version is seen before the store is read.
LEMMA SeeChangeIInv ==
  ASSUME IInv, SeeChange
  PROVE  IInv'
<1>1. TypeOK'
  BY DEF SeeChange, IInv, TypeOK, historyVars
<1>2. Active' = Active /\ Running' = Running
  BY DEF SeeChange, Active, Running
<1>3. LoopsFollowStore' /\ KeptListed'
  BY <1>2 DEF SeeChange, IInv, LoopsFollowStore, KeptListed, KeysOf, historyVars
<1>4. KeptPairsServed' /\ StartSound'
  BY <1>2 DEF SeeChange, IInv, KeptPairsServed, StartSound, historyVars
<1> QED
  BY <1>1, <1>3, <1>4 DEF IInv

\* The diff leaves one task or more for each pair of the store, and the loop of
\* a kept entry is neither aborted nor replaced; after a late start what it
\* spawns has no receiver either.
LEMMA ApplyDiffIInv ==
  ASSUME IInv, ApplyDiff
  PROVE  IInv'
<1> USE DEF configVars
<1>1. loop \in [Entries -> Loop] /\ attached \in BOOLEAN /\ listed \subseteq Entries
  BY DEF IInv, TypeOK
<1>2. PICK S \in SUBSET listed : IsToSpawn(S) /\ SpawnAndAbort(S, Gone)
  BY DEF ApplyDiff
<1>3. S \in SUBSET Entries /\ Gone \in SUBSET Entries
  BY <1>1 DEF Gone, Active
<1>4. /\ loop' \in [Entries -> Loop]
      /\ \A e \in S : loop'[e].at = "waiting" /\ loop'[e].linked = attached
      /\ \A e \in Gone \ S : loop'[e].at = "none"
      /\ \A e \in Entries \ (S \cup Gone) : loop'[e] = loop[e]
  BY <1>1, <1>2, <1>3, SpawnAndAbortLoops
<1>5. KeysOf(S) = KeysOf(listed) \ KeysOf(Active)
  BY <1>2 DEF IsToSpawn
<1>6. \A e \in Active : e \notin S
  BY <1>5 DEF KeysOf
<1>7. Active' = (Active \ Gone) \cup S
  BY <1>3, <1>4 DEF Active
<1>8. UNCHANGED <<configVars, kept, late>> /\ manager' = "select" /\ manager = "read"
  BY DEF ApplyDiff, historyVars
<1>9. LoopsFollowStore'
  <2>1. KeysOf(Active)' = KeysOf((Active \ Gone) \cup S)
    BY <1>7 DEF KeysOf
  <2>2. KeysOf((Active \ Gone) \cup S) = KeysOf(listed)
    <3>1. ASSUME NEW k \in KeysOf(listed)
          PROVE  k \in KeysOf((Active \ Gone) \cup S)
      BY <1>5, <3>1 DEF KeysOf, Gone
    <3>2. ASSUME NEW k \in KeysOf((Active \ Gone) \cup S)
          PROVE  k \in KeysOf(listed)
      BY <1>2, <3>2 DEF KeysOf, Gone
    <3> QED
      BY <3>1, <3>2
  <2>3. KeysOf(listed)' = KeysOf(listed)
    BY DEF ApplyDiff, KeysOf
  <2> QED
    BY <2>1, <2>2, <2>3 DEF LoopsFollowStore
<1>10. KeptPairsServed'
  <2>1. ASSUME ~late, NEW e \in kept
        PROVE  (e \in Running)' /\ loop'[e].linked
    <3>1. e \in Running /\ loop[e].linked /\ KeyOf[e] \in KeysOf(listed)
      BY <1>8, <2>1 DEF IInv, KeptPairsServed, KeptListed
    <3>2. e \in Active /\ e \notin Gone
      BY <3>1 DEF Running, Active, Gone
    <3>3. e \in Entries /\ loop'[e] = loop[e]
      BY <1>4, <1>6, <3>2 DEF Active
    <3> QED
      BY <3>1, <3>3 DEF Running
  <2>2. ASSUME late, NEW e \in Entries
        PROVE  ~loop'[e].linked
    <3>1. ~attached /\ ~loop[e].linked
      BY <2>2 DEF IInv, KeptPairsServed, StartSound
    <3>2. CASE e \in S
      BY <1>4, <3>1, <3>2
    <3>3. CASE e \in Gone \ S
      BY <1>2, <3>3, NoLoopType DEF SpawnAndAbort, NoLoop
    <3>4. CASE e \notin S \cup Gone
      BY <1>4, <3>1, <3>4
    <3> QED
      BY <3>2, <3>3, <3>4
  <2> QED
    BY <1>8, <2>1, <2>2 DEF KeptPairsServed
<1>11. KeptListed' /\ StartSound'
  BY <1>8 DEF IInv, KeptListed, StartSound, KeysOf
<1>12. TypeOK'
  BY <1>4, <1>8 DEF ApplyDiff, IInv, TypeOK
<1> QED
  BY <1>9, <1>10, <1>11, <1>12 DEF IInv

\* A broadcast reaches the inboxes of the loops only.
LEMMA ProcessIInv ==
  ASSUME IInv, Process
  PROVE  IInv'
<1>1. Head(events) \in Keys /\ Tail(events) \in Seq(Keys)
  BY DEF Process, IInv, TypeOK
<1>2. ASSUME NEW e \in Entries
      PROVE  /\ loop'[e] \in Loop
             /\ loop'[e].at = loop[e].at
             /\ loop'[e].linked = loop[e].linked
  <2>1. loop[e] \in Loop
    BY DEF IInv, TypeOK
  <2>2. \/ loop'[e] = loop[e]
        \/ loop'[e] = [loop[e] EXCEPT !.inbox = Deliver(@, Head(events))]
    BY DEF Process
  <2>3. Deliver(loop[e].inbox, Head(events)) \in Seq(Keys \cup {NoKey})
    BY <1>1, <2>1, DeliverType DEF Loop
  <2> QED
    BY <2>1, <2>2, <2>3 DEF Loop
<1>3. loop' \in [Entries -> Loop]
  BY <1>2 DEF Process
<1>4. UNCHANGED <<configVars, manager, historyVars, ticks, due>>
  BY DEF Process
<1>5. TypeOK'
  BY <1>1, <1>3, <1>4 DEF Process, IInv, TypeOK, configVars, historyVars
<1> QED
  BY <1>2, <1>4, <1>5, LoopsKept DEF Running

\* A loop stays in active_tasks, and ends only without a receiver.
LEMMA LoopStepIInv ==
  ASSUME IInv, NEW e \in Entries, LoopStep(e)
  PROVE  IInv'
<1>1. loop \in [Entries -> Loop] /\ loop[e] \in Loop
  BY DEF IInv, TypeOK
<1>2. loop[e].inbox # <<>> =>
        [loop[e] EXCEPT !.inbox = Tail(@)] \in Loop
  <2>1. loop[e].inbox \in Seq(Keys \cup {NoKey})
    BY <1>1 DEF Loop
  <2>2. loop[e].inbox # <<>> => Tail(loop[e].inbox) \in Seq(Keys \cup {NoKey})
    BY <2>1
  <2> QED
    BY <1>1, <2>2 DEF Loop
<1>3. PICK l \in Loop :
        /\ Becomes(e, l)
        /\ loop[e].at # "none" /\ l.at # "none"
        /\ l.linked => loop[e].linked
        /\ loop[e].linked => l.linked /\ l.at \in {"waiting", "deaf", "sending"}
  <2>1. CASE ReceiveUpdate(e)
    <3> DEFINE q == [loop[e] EXCEPT !.inbox = Tail(@)]
    <3>1. q \in Loop /\ q.linked = loop[e].linked
      BY <1>1, <1>2, <2>1 DEF ReceiveUpdate, Loop
    <3>2. PICK l \in Iterate(q) : Becomes(e, l)
      BY <2>1 DEF ReceiveUpdate
    <3>3. l \in Loop /\ l.at = "waiting" /\ l.linked = loop[e].linked
      BY <3>1, <3>2, IterateType
    <3> QED
      BY <2>1, <3>2, <3>3 DEF ReceiveUpdate
  <2>2. CASE Lag(e)
    <3> DEFINE l == [loop[e] EXCEPT !.inbox = Tail(@), !.at = "deaf"]
    <3>1. l \in Loop /\ l.linked = loop[e].linked /\ l.at = "deaf"
      BY <1>1, <1>2, <2>2 DEF Lag, Loop
    <3> QED
      BY <2>2, <3>1 DEF Lag
  <2>3. CASE WakeUp(e)
    <3> DEFINE l == [loop[e] EXCEPT !.at = "sending"]
    <3>1. l \in Loop /\ l.linked = loop[e].linked /\ l.at = "sending"
      BY <1>1 DEF Loop
    <3> QED
      BY <2>3, <3>1 DEF WakeUp
  <2>4. CASE SendTick(e)
    BY <1>1, <2>4, IterateType DEF SendTick
  <2>5. CASE SendFails(e)
    <3>1. PICK l : l = [NoLoop EXCEPT !.at = "ended"]
      OBVIOUS
    <3> QED
      BY <2>5, <3>1, EndedType DEF SendFails
  <2> QED
    BY <2>1, <2>2, <2>3, <2>4, <2>5 DEF LoopStep
<1>4. ticks' \in [Entries -> 0 .. Buffer]
  <2>1. ticks \in [Entries -> 0 .. Buffer] /\ Buffer \in Nat
    BY DEF IInv, TypeOK
  <2>2. CASE UNCHANGED ticks
    BY <2>1, <2>2
  <2>3. CASE SendTick(e)
    BY <2>1, <2>3 DEF SendTick
  <2> QED
    BY <2>2, <2>3 DEF LoopStep, ReceiveUpdate, Lag, WakeUp, SendFails
<1>5. TypeOK'
  BY <1>1, <1>3, <1>4 DEF Becomes, IInv, TypeOK, configVars, historyVars
<1>6. \A f \in Entries : loop'[f] = IF f = e THEN l ELSE loop[f]
  BY <1>1, <1>3 DEF Becomes
<1>7. UNCHANGED <<configVars, manager, historyVars>>
  BY <1>3 DEF Becomes
<1> QED
  BY <1>3, <1>5, <1>6, <1>7, LoopsKept DEF Running

\* Every step keeps the invariant.
LEMMA NextIInv == IInv /\ [Next]_vars => IInv'
<1> SUFFICES ASSUME IInv, [Next]_vars
             PROVE  IInv'
  OBVIOUS
<1>1. CASE ManagerStep
  BY <1>1, BootstrapIInv, SeeChangeIInv, ApplyDiffIInv, ProcessIInv DEF ManagerStep
<1>2. CASE UNCHANGED vars
  <2>1. UNCHANGED <<configVars, manager, historyVars, loop>> /\ TypeOK'
    BY <1>2 DEF vars, configVars, historyVars, IInv, TypeOK
  <2> QED
    BY <2>1, LoopsKept DEF Running
<1>3. CASE \E S \in Files : Reload(S) \/ Restart(S)
  BY <1>3, ReloadIInv, RestartIInv
<1> QED
  BY <1>1, <1>2, <1>3, OutsideIInv, LoopStepIInv, ElapseIInv, ReloadIInv DEF Next

----------------------------------------------------------------------------
\* The invariant holds in every run, for all constants.
THEOREM Invariance == Spec => []IInv
<1>1. Init => IInv
  BY InitIInv
<1>2. IInv /\ [Next]_vars => IInv'
  BY NextIInv
<1> QED
  BY <1>1, <1>2, PTL DEF Spec

\* Stores, channels, tasks and runners keep their types and bounds.
THEOREM TypeCorrect == Spec => []TypeOK
<1>1. IInv => TypeOK
  BY DEF IInv
<1> QED
  BY <1>1, Invariance, PTL

\* No reload is missed: the tasks are those of the pairs in the store.
THEOREM LoopsFollowStoreHolds == Spec => []LoopsFollowStore
<1>1. IInv => LoopsFollowStore
  BY DEF IInv
<1> QED
  BY <1>1, Invariance, PTL

\* Unless a reload of the store came before the first loops were spawned, every
\* entry listed at the start whose pair stays listed has a running loop that
\* reaches its runner; if one did, no loop reaches a runner.
THEOREM KeptPairsServedHolds == Spec => []KeptPairsServed
<1>1. IInv => KeptPairsServed
  BY DEF IInv
<1> QED
  BY <1>1, Invariance, PTL
=============================================================================
