--------------------------- MODULE PoolingManager ---------------------------
(***************************************************************************)
(* The pooling manager, its tick loops, the runners they tick, and the     *)
(* SIGHUP handler that replaces the list of wallets while all of them run. *)
(*                                                                         *)
(* A loop sleeps for one of four intervals, and begins its sleep anew      *)
(* whenever the manager broadcasts a deposit of any pair.  Time is a clock *)
(* of equal steps; which interval it is, the age of the newest deposit     *)
(* decides, and is left open.                                              *)
(***************************************************************************)
EXTENDS Naturals, Sequences

CONSTANTS
    Entries,      \* the coins of wallets that a configuration may list
    Keys,         \* pairs of a blockchain and a token
    KeyOf,        \* the pair of an entry; two wallets may have one in common
    NoKey,        \* stands for no pair
    Files,        \* the configurations an administrator writes
    Intervals,    \* what pooling_freq returns: 2, 10, 30 or 60 s
    Capacity,     \* of the broadcast of deposits, 64
    Buffer,       \* of the other channels, 256
    MaxReloads    \* bound: how often the configuration is read again

ASSUME ConstantsAssumption ==
    /\ KeyOf \in [Entries -> Keys]
    /\ NoKey \notin Keys
    /\ Files \subseteq SUBSET Entries
    /\ Intervals \subseteq Nat
    /\ Capacity \in Nat \ {0}
    /\ Buffer \in Nat \ {0}
    /\ MaxReloads \in Nat

VARIABLES
    wallets,   \* the entries the handlers of the API offer
    stage,     \* of the reload: "idle", "store" or "notify"
    listed,    \* the entries in the manager's configuration store
    attached,  \* whether the senders in the store have receivers
    notified,  \* the manager's watcher has a version it has not seen
    reloads,   \* how often the configuration was read again
    events,    \* PendingDepositChanged: the pairs
    manager,   \* "boot", "select" or "read"
    loop,      \* the tick loop of each entry, or NoLoop
    ticks,     \* PoolingTicks in the channel of each entry's runner
    due,       \* entries with a deposit since their runner's last tick
    kept,      \* entries of the start whose pair every store since has listed
    late       \* the first loops were spawned after a reload of the store

configVars == <<wallets, stage, listed, attached, notified, reloads>>
historyVars == <<kept, late>>
vars == <<configVars, events, manager, loop, ticks, due, historyVars>>

KeysOf(S) == {KeyOf[e] : e \in S}

(***************************************************************************)
(* A loop: whether its sender has a receiver, what is left of its sleep,   *)
(* and what the broadcast holds for it.  "deaf" is a select whose update   *)
(* branch failed.                                                          *)
(***************************************************************************)
NoLoop == [at |-> "none", linked |-> FALSE, wait |-> 0, inbox |-> <<>>]

\* The top of the loop: the interval is computed, the sleep begins.
Iterate(l) == {[l EXCEPT !.at = "waiting", !.wait = n] : n \in Intervals}

SpawnTickLoop == Iterate([NoLoop EXCEPT !.linked = attached])

\* active_tasks: the handle of a loop that ended is still there.
Active == {e \in Entries : loop[e].at # "none"}
Running == {e \in Entries : loop[e].at \in {"waiting", "deaf", "sending"}}

\* The loops of S are spawned, those of T aborted, the others go on.
SpawnAndAbort(S, T) ==
    \E l \in [S -> SpawnTickLoop] :
        loop' = [e \in Entries |->
                    IF e \in S THEN l[e] ELSE IF e \in T THEN NoLoop ELSE loop[e]]

AllIdle == [e \in Entries |-> NoLoop]
NoTicks == [e \in Entries |-> 0]

\* The process starts, with a runner and a channel for every entry.
Init ==
    /\ wallets \in Files
    /\ stage = "idle"
    /\ listed = wallets
    /\ attached = TRUE
    /\ notified = FALSE
    /\ reloads = 0
    /\ events = <<>>
    /\ manager = "boot"
    /\ loop = AllIdle
    /\ ticks = NoTicks
    /\ due = {}
    /\ kept = listed
    /\ late = FALSE

----------------------------------------------------------------------------
(***************************************************************************)
(* Deposits and the clock.                                                 *)
(***************************************************************************)
CreatePayment(e) ==
    /\ e \in wallets
    /\ Len(events) < Buffer
    /\ events' = Append(events, KeyOf[e])
    /\ due' = due \cup {e}
    /\ UNCHANGED <<configVars, manager, loop, ticks, historyVars>>

\* The request is dropped between the insert of the deposit and the send.
CreatePaymentUnheard(e) ==
    /\ e \in wallets
    /\ due' = due \cup {e}
    /\ UNCHANGED <<configVars, events, manager, loop, ticks, historyVars>>

Elapse ==
    /\ loop' = [e \in Entries |-> [loop[e] EXCEPT !.wait = IF @ > 0 THEN @ - 1 ELSE 0]]
    /\ UNCHANGED <<configVars, events, manager, ticks, due, historyVars>>

----------------------------------------------------------------------------
(***************************************************************************)
(* The reload: the wallets first, the manager's store later, its watcher   *)
(* last.  The channels made for the new senders lose their receivers.      *)
(***************************************************************************)
Reload(S) ==
    /\ stage = "idle"
    /\ reloads < MaxReloads
    /\ reloads' = reloads + 1
    /\ wallets' = S
    /\ stage' = "store"
    /\ UNCHANGED <<listed, attached, notified, events, manager, loop, ticks, due, historyVars>>

UpdateStore ==
    /\ stage = "store"
    /\ listed' = wallets
    /\ attached' = FALSE
    /\ kept' = {e \in kept : KeyOf[e] \in KeysOf(wallets)}
    /\ stage' = "notify"
    /\ UNCHANGED <<wallets, notified, reloads, events, manager, loop, ticks, due, late>>

Notify ==
    /\ stage = "notify"
    /\ notified' = TRUE
    /\ stage' = "idle"
    /\ UNCHANGED <<wallets, listed, attached, reloads, events, manager, loop, ticks, due, historyVars>>

\* A restart reads the file and loses every channel.
Restart(S) ==
    /\ reloads < MaxReloads
    /\ reloads' = reloads + 1
    /\ wallets' = S
    /\ stage' = "idle"
    /\ listed' = S
    /\ attached' = TRUE
    /\ notified' = FALSE
    /\ events' = <<>>
    /\ manager' = "boot"
    /\ loop' = AllIdle
    /\ ticks' = NoTicks
    /\ kept' = S
    /\ late' = FALSE
    /\ UNCHANGED due

----------------------------------------------------------------------------
(***************************************************************************)
(* The manager.                                                            *)
(***************************************************************************)
\* The senders of the store are cloned; those of a reload that came before
\* have no receivers.
Bootstrap ==
    /\ manager = "boot"
    /\ SpawnAndAbort(listed, {})
    /\ late' = ~attached
    /\ manager' = "select"
    /\ UNCHANGED <<configVars, events, ticks, due, kept>>

\* config_watcher.changed(); the store is read when its lock is free.
SeeChange ==
    /\ manager = "select"
    /\ notified
    /\ notified' = FALSE
    /\ manager' = "read"
    /\ UNCHANGED <<wallets, stage, listed, attached, reloads, events, loop, ticks, due, historyVars>>

\* One entry of each pair of the store that has no task, the first of a pair.
IsToSpawn(S) ==
    /\ S \subseteq listed
    /\ KeysOf(S) = KeysOf(listed) \ KeysOf(Active)
    /\ \A e, f \in S : KeyOf[e] = KeyOf[f] => e = f

\* Faulty variant: a task is replaced when its wallet is.
DiffByEntry ==
    /\ manager = "read"
    /\ SpawnAndAbort(listed \ Active, Active \ listed)
    /\ manager' = "select"
    /\ UNCHANGED <<configVars, events, ticks, due, historyVars>>

\* Faulty variant: the task of a removed pair is kept.
DiffWithoutAbort ==
    /\ manager = "read"
    /\ \E S \in SUBSET listed : IsToSpawn(S) /\ SpawnAndAbort(S, {})
    /\ manager' = "select"
    /\ UNCHANGED <<configVars, events, ticks, due, historyVars>>

Gone == {e \in Active : KeyOf[e] \notin KeysOf(listed)}

ApplyDiff ==
    /\ manager = "read"
    /\ \E S \in SUBSET listed : IsToSpawn(S) /\ SpawnAndAbort(S, Gone)
    /\ manager' = "select"
    /\ UNCHANGED <<configVars, events, ticks, due, historyVars>>

\* The broadcast keeps the newest messages for a receiver that is behind;
\* NoKey is the error it finds before them.
Deliver(q, k) ==
    LET held == IF q # <<>> /\ Head(q) = NoKey THEN Tail(q) ELSE q
    IN IF Len(held) < Capacity THEN Append(q, k)
       ELSE <<NoKey>> \o Append(Tail(held), k)

Process ==
    /\ manager = "select"
    /\ ~notified
    /\ events # <<>>
    /\ events' = Tail(events)
    /\ loop' = [e \in Entries |->
         IF e \in Running THEN [loop[e] EXCEPT !.inbox = Deliver(@, Head(events))]
                          ELSE loop[e]]
    /\ UNCHANGED <<configVars, manager, ticks, due, historyVars>>

----------------------------------------------------------------------------
(***************************************************************************)
(* A tick loop and the runner at the end of its channel.                   *)
(***************************************************************************)
Becomes(e, l) ==
    /\ loop' = [loop EXCEPT ![e] = l]
    /\ UNCHANGED <<configVars, events, manager, due, historyVars>>

\* An update of any pair ends the select, and the next sleep begins.
ReceiveUpdate(e) ==
    LET l == loop[e]
    IN /\ l.at = "waiting"
       /\ l.inbox # <<>>
       /\ Head(l.inbox) # NoKey
       /\ \E next \in Iterate([l EXCEPT !.inbox = Tail(@)]) : Becomes(e, next)
       /\ UNCHANGED ticks

\* The pattern Ok(..) does not match: this select waits for the sleep alone.
Lag(e) ==
    LET l == loop[e]
    IN /\ l.at = "waiting"
       /\ l.inbox # <<>>
       /\ Head(l.inbox) = NoKey
       /\ Becomes(e, [l EXCEPT !.inbox = Tail(@), !.at = "deaf"])
       /\ UNCHANGED ticks

\* Faulty variant: a loop that is behind waits for updates only.
HeardWakeUp(e) ==
    LET l == loop[e]
    IN /\ l.at = "waiting"
       /\ l.inbox = <<>>
       /\ l.wait = 0
       /\ Becomes(e, [l EXCEPT !.at = "sending"])
       /\ UNCHANGED ticks

\* The select is biased: an update that is there goes before the tick.
WakeUp(e) ==
    LET l == loop[e]
    IN /\ l.at = "deaf" \/ (l.at = "waiting" /\ l.inbox = <<>>)
       /\ l.wait = 0
       /\ Becomes(e, [l EXCEPT !.at = "sending"])
       /\ UNCHANGED ticks

\* Faulty variant: the channel has no bound.
SendUnbounded(e) ==
    /\ loop[e].at = "sending"
    /\ loop[e].linked
    /\ ticks' = [ticks EXCEPT ![e] = @ + 1]
    /\ \E next \in Iterate(loop[e]) : Becomes(e, next)

SendTick(e) ==
    /\ loop[e].at = "sending"
    /\ loop[e].linked
    /\ ticks[e] < Buffer
    /\ ticks' = [ticks EXCEPT ![e] = @ + 1]
    /\ \E next \in Iterate(loop[e]) : Becomes(e, next)

\* Without a receiver the loop ends.
SendFails(e) ==
    /\ loop[e].at = "sending"
    /\ ~loop[e].linked
    /\ Becomes(e, [NoLoop EXCEPT !.at = "ended"])
    /\ UNCHANGED ticks

\* The runner takes a tick and looks for transfers to its entry's wallet.
Sync(e) ==
    /\ ticks[e] > 0
    /\ ticks' = [ticks EXCEPT ![e] = @ - 1]
    /\ due' = due \ {e}
    /\ UNCHANGED <<configVars, events, manager, loop, historyVars>>

LoopStep(e) ==
    ReceiveUpdate(e) \/ Lag(e) \/ WakeUp(e) \/ SendTick(e) \/ SendFails(e)

ManagerStep == Bootstrap \/ SeeChange \/ ApplyDiff \/ Process

Next ==
    \/ \E e \in Entries :
         CreatePayment(e) \/ CreatePaymentUnheard(e) \/ LoopStep(e) \/ Sync(e)
    \/ Elapse
    \/ \E S \in Files : Reload(S) \/ Restart(S)
    \/ UpdateStore
    \/ Notify
    \/ ManagerStep

Spec == Init /\ [][Next]_vars

(***************************************************************************)
(* Fairness: time passes and every task that can go on does.  Nothing is   *)
(* assumed of the customers and of the administrator.                      *)
(***************************************************************************)
FairSpec ==
    /\ Spec
    /\ WF_vars(Elapse)
    /\ WF_vars(UpdateStore \/ Notify)
    /\ WF_vars(ManagerStep)
    /\ \A e \in Entries : WF_vars(LoopStep(e)) /\ WF_vars(Sync(e))

----------------------------------------------------------------------------
Loop == [at : {"none", "waiting", "deaf", "sending", "ended"}, linked : BOOLEAN,
         wait : Nat, inbox : Seq(Keys \cup {NoKey})]

TypeOK ==
    /\ wallets \subseteq Entries
    /\ stage \in {"idle", "store", "notify"}
    /\ listed \subseteq Entries
    /\ attached \in BOOLEAN
    /\ notified \in BOOLEAN
    /\ reloads \in 0 .. MaxReloads
    /\ events \in Seq(Keys)
    /\ manager \in {"boot", "select", "read"}
    /\ loop \in [Entries -> Loop]
    /\ ticks \in [Entries -> 0 .. Buffer]
    /\ due \subseteq Entries
    /\ kept \subseteq Entries
    /\ late \in BOOLEAN

\* The tasks are those of the pairs in the store unless a change is announced:
\* no reload is missed, also when it comes while the manager starts or reads.
LoopsFollowStore ==
    manager = "select" /\ ~notified /\ stage # "notify"
        => KeysOf(Active) = KeysOf(listed)

\* An entry listed when the process started keeps a loop that reaches its
\* runner while every reload lists its pair, although each reload replaces all
\* senders by ones without receivers and the wallet of the pair may be another.
\* The exception is a reload of the store before the first loops are spawned:
\* then no loop ever reaches a runner, until the next restart.
KeptPairsServed ==
    /\ manager # "boot" /\ ~late =>
         \A e \in kept : e \in Running /\ loop[e].linked
    /\ late => \A e \in Entries : ~loop[e].linked

\* Once no more deposits are announced, the wallet of a kept entry is looked at
\* after each deposit that names it, announced or not.  Three exceptions: what
\* only a reload listed has no runner, a removed pair loses its loop, and after
\* a late start nothing is looked at.
Quiet == <>[][\A e \in Entries : ~CreatePayment(e)]_vars

KeptPairPolled ==
    Quiet => \A e \in Entries :
        e \in due /\ e \in kept ~> e \notin due \/ e \notin kept \/ late

----------------------------------------------------------------------------
(***************************************************************************)
(* The inductive invariant.                                                *)
(***************************************************************************)

\* The store lists the pair of every kept entry, and the entry itself until
\* it is reloaded.
KeptListed ==
    /\ \A e \in kept : KeyOf[e] \in KeysOf(listed)
    /\ attached => kept \subseteq listed

\* Before they are spawned there are no loops, and after a late start the store
\* never has receivers again.
StartSound ==
    /\ manager = "boot" => ~late /\ \A e \in Entries : loop[e].at = "none" /\ ~loop[e].linked
    /\ late => ~attached

IInv ==
    /\ TypeOK
    /\ LoopsFollowStore
    /\ KeptPairsServed
    /\ KeptListed
    /\ StartSound
=============================================================================
