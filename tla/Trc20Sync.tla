----------------------------- MODULE Trc20Sync -----------------------------
(***************************************************************************)
(* The sync of one TRC-20 pair: on every PoolingTick the runner reads the  *)
(* cursor of a materialized view, asks the explorer for page after page of *)
(* the transfers to the wallet from that timestamp on, records all pages   *)
(* in one statement, and emits a MatchTick, whether or not a call failed.  *)
(* Transfers arrive and are confirmed between any two of its calls, so the *)
(* pages of one sync are pages of different lists.                         *)
(*                                                                         *)
(* A transfer is its position in the chain: 1 is the first one that is not *)
(* older than starting_tx.  Its timestamp is that of its block, written as *)
(* the position of the block's first transfer.                             *)
(***************************************************************************)
EXTENDS Integers

CONSTANTS
    PageSize,     \* transfers per page, 200 in the code
    MaxRows,      \* rows a statement can hold: 7 parameters each, 65535 at most
    MaxTransfers  \* bound: transfers that are made

ASSUME ConstantsAssumption ==
    /\ PageSize \in Nat \ {0}
    /\ MaxRows \in Nat
    /\ MaxTransfers \in Nat

Transfers == 1 .. MaxTransfers

VARIABLES
    newest,     \* the transfer made last
    time,       \* timestamp of each transfer, 0 before it is made
    dayOld,     \* the last transfer made more than a day ago
    ascending,  \* the explorer's order, which the requests leave open
    recorded,   \* transfers with a row
    confirmed,  \* rows with blockchain_confirmed
    pc,         \* what the runner does next
    from,       \* start_timestamp of this sync
    fetched,    \* length of all_transfers, and while pages are full the offset
    got         \* the transfers in it

chainVars  == <<newest, time, dayOld, ascending>>
rowVars    == <<recorded, confirmed>>
runnerVars == <<pc, from, fetched, got>>
vars == <<chainVars, rowVars, runnerVars>>

Init ==
    /\ newest = 0
    /\ time = [t \in Transfers |-> 0]
    /\ dayOld = 0
    /\ ascending \in BOOLEAN
    /\ recorded = {}
    /\ confirmed = {}
    /\ pc = "idle"
    /\ from = 1
    /\ fetched = 0
    /\ got = {}

----------------------------------------------------------------------------
(***************************************************************************)
(* The chain, the clock and the confirmations.                             *)
(***************************************************************************)

\* The next transfer, in a block of its own or in that of the last one.
MakeTransfer ==
    /\ newest < MaxTransfers
    /\ newest' = newest + 1
    /\ \E ts \in {newest + 1} \cup {time[t] : t \in Transfers \cap {newest}} :
         time' = [time EXCEPT ![newest + 1] = ts]
    /\ UNCHANGED <<dayOld, ascending, rowVars, runnerVars>>

\* A day passes since the next transfer.
Age ==
    /\ dayOld < newest
    /\ dayOld' = dayOld + 1
    /\ UNCHANGED <<newest, time, ascending, rowVars, runnerVars>>

ConfirmTransfer(t) ==
    /\ t \in recorded \ confirmed
    /\ confirmed' = confirmed \cup {t}
    /\ UNCHANGED <<chainVars, recorded, runnerVars>>

----------------------------------------------------------------------------
(***************************************************************************)
(* The view trc20_sync_cursor.  Every statement that writes rows refreshes *)
(* it, and its one-day window never closes, so it is never stale.          *)
(***************************************************************************)
MillisPerSecond == 1000

\* block_timestamp, in milliseconds, is compared with a time in seconds.
InWindow(t) == time[t] * MillisPerSecond > dayOld

Pinned == {t \in recorded \ confirmed : InWindow(t)}

\* Faulty variant: the sync goes on before the newest row.
BeforeNewest ==
    {time[t] - 1 : t \in {t \in recorded : \A u \in recorded : time[u] <= time[t]}}

\* The earliest unconfirmed row of the window, or else the newest row.
Cursor ==
    {time[t] : t \in {t \in recorded :
        IF Pinned = {}
          THEN \A u \in recorded : time[u] <= time[t]
          ELSE t \in Pinned /\ \A u \in Pinned : time[t] <= time[u]}}

----------------------------------------------------------------------------
(***************************************************************************)
(* The runner: one task, one tick at a time.                               *)
(***************************************************************************)

\* Without a row the sync starts at starting_tx or at the beginning.
StartTimestamps == IF recorded = {} THEN {1} ELSE Cursor

GetStartTimestamp ==
    /\ pc = "idle"
    /\ from' \in StartTimestamps
    /\ pc' = "page"
    /\ UNCHANGED <<chainVars, rowVars, fetched, got>>

\* The list the explorer pages through now, and its length, range_total.
InRange    == from .. newest
RangeTotal == newest - from + 1
Rank(t)    == IF ascending THEN t - from + 1 ELSE newest - t + 1

Page == {t \in InRange : fetched < Rank(t) /\ Rank(t) <= fetched + PageSize}

PageEnd ==
    IF fetched + PageSize <= RangeTotal THEN fetched + PageSize ELSE RangeTotal

\* Faulty variant: a page replaces the pages before it.
FetchLastPage ==
    /\ pc = "page"
    /\ got' = Page
    /\ fetched' = PageEnd
    /\ pc' = IF PageEnd >= RangeTotal THEN "insert" ELSE "page"
    /\ UNCHANGED <<chainVars, rowVars, from>>

\* Faulty variant: the offset of a second page is not advanced.
FetchFirstPage ==
    /\ pc = "page"
    /\ got' = got \cup Page
    /\ fetched' = IF PageEnd >= RangeTotal THEN PageEnd ELSE fetched
    /\ pc' = IF PageEnd >= RangeTotal THEN "insert" ELSE "page"
    /\ UNCHANGED <<chainVars, rowVars, from>>

\* The loop ends with a page that is not full or that reaches range_total.
FetchTransfers ==
    /\ pc = "page"
    /\ got' = got \cup Page
    /\ fetched' = PageEnd
    /\ pc' = IF PageEnd < fetched + PageSize \/ PageEnd >= RangeTotal
               THEN "insert"
               ELSE "page"
    /\ UNCHANGED <<chainVars, rowVars, from>>

EndSync ==
    /\ pc' = "emit"
    /\ from' = 1
    /\ fetched' = 0
    /\ got' = {}

\* Faulty variant: ON CONFLICT DO UPDATE resets the rows already there.
UpsertTransfers ==
    /\ pc = "insert"
    /\ fetched <= MaxRows
    /\ recorded' = recorded \cup got
    /\ confirmed' = confirmed \ got
    /\ EndSync
    /\ UNCHANGED chainVars

\* One statement for all pages; rows that exist stay.
InsertTransfers ==
    /\ pc = "insert"
    /\ fetched <= MaxRows
    /\ recorded' = recorded \cup got
    /\ EndSync
    /\ UNCHANGED <<chainVars, confirmed>>

\* A failed call, a page that does not parse, or a statement with too many
\* parameters ends the sync: all pages are lost.
FailSync ==
    /\ pc \in {"page", "insert"}
    /\ EndSync
    /\ UNCHANGED <<chainVars, rowVars>>

\* The MatchTick goes out in any case.
EmitMatchTick ==
    /\ pc = "emit"
    /\ pc' = "idle"
    /\ UNCHANGED <<chainVars, rowVars, from, fetched, got>>

Restart ==
    /\ pc # "idle"
    /\ pc' = "idle"
    /\ from' = 1
    /\ fetched' = 0
    /\ got' = {}
    /\ UNCHANGED <<chainVars, rowVars>>

ChainStep ==
    \/ MakeTransfer
    \/ Age
    \/ \E t \in Transfers : ConfirmTransfer(t)

SyncStep ==
    \/ GetStartTimestamp
    \/ FetchTransfers
    \/ InsertTransfers
    \/ FailSync
    \/ EmitMatchTick
    \/ Restart

Next == ChainStep \/ SyncStep

Spec == Init /\ [][Next]_vars

(***************************************************************************)
(* Fairness: ticks come again and again, and a request for a page, or an   *)
(* insert, that is made again and again does not fail every time.  Nothing *)
(* is assumed of the chain, the confirmations or restarts.                 *)
(***************************************************************************)
Offsets    == {k \in 0 .. MaxTransfers : k % PageSize = 0}
FetchAt(k) == fetched = k /\ FetchTransfers

FairSpec ==
    /\ Spec
    /\ WF_vars(GetStartTimestamp)
    /\ \A k \in Offsets : SF_vars(FetchAt(k))
    /\ SF_vars(InsertTransfers)
    /\ WF_vars(EmitMatchTick)

----------------------------------------------------------------------------
TypeOK ==
    /\ newest \in 0 .. MaxTransfers
    /\ time \in [Transfers -> 0 .. MaxTransfers]
    /\ dayOld \in 0 .. newest
    /\ ascending \in BOOLEAN
    /\ recorded \subseteq 1 .. newest
    /\ confirmed \subseteq recorded
    /\ pc \in {"idle", "page", "insert", "emit"}
    /\ from \in Nat \ {0}
    /\ fetched \in Nat
    /\ got \subseteq 1 .. newest

\* No row without the rows of all earlier transfers, although the pages of a
\* sync belong to different lists, in either order, and any call may fail.
\* The cursor is a row's timestamp, so what it passes is recorded.
NoGaps == \A u \in recorded : \A t \in 1 .. u : t \in recorded

\* A sync that holds more rows than its insert can take.
TooManyRows == fetched > MaxRows

\* A transfer is recorded in the end unless a sync gathers too many rows.
SyncCatchesUp ==
    \A t \in Transfers : t <= newest ~> t \in recorded \/ TooManyRows

(***************************************************************************)
(* The order book's table of the wallet's transfers, without what others   *)
(* do to it.                                                               *)
(***************************************************************************)
TableStatus ==
    [t \in Transfers |-> CASE t \notin recorded -> "absent"
                           [] t \in confirmed   -> "waiting_for_match"
                           [] OTHER             -> "waiting_for_confirmation"]

Nothing == [x \in {} |-> "none"]

Book == INSTANCE OrderBook WITH
    Orders <- {}, Pairs <- {"pair"}, TrcPairs <- {"pair"}, Deposits <- {},
    Txs <- Transfers, Callers <- {}, Amount <- Nothing,
    TxPair <- [t \in Transfers |-> "pair"], TxValue <- [t \in Transfers |-> 1],
    None <- "none",
    status <- Nothing, row <- Nothing, live <- {},
    tstatus <- TableStatus, fulfil <- [t \in Transfers |-> "none"], old <- {},
    handler <- Nothing, pc <- "idle", tick <- "none", found <- {},
    matches <- {}, oldIds <- {}, outbox <- {}, reported <- {}

\* The sync is the one the order book counts on: all pages of a sync at once, it
\* adds rows that wait for confirmation, and leaves those alone that are there,
\* read again, overlapping, or confirmed in the meantime.
BookSpec == Book!Spec

----------------------------------------------------------------------------
(***************************************************************************)
(* The inductive invariant.                                                *)
(***************************************************************************)

\* A block's first transfer is not later than the others.
TimesSound == \A t \in 1 .. newest : 1 <= time[t] /\ time[t] <= t

\* A sync starts no later than behind the rows.
FromSound == from = 1 \/ \E u \in recorded : from <= u

\* The offset is inside the list, and what it has passed is gathered, up to
\* the newest transfer gathered.
PagesSound ==
    /\ fetched <= RangeTotal
    /\ \A t \in InRange :
         ascending /\ Rank(t) <= fetched => t \in got
    /\ \A u \in got : \A t \in from .. u : Rank(t) <= fetched => t \in got

\* The loop's result has no gap.
ResultSound == pc = "insert" => \A u \in got : \A t \in from .. u : t \in got

NothingHeld == pc \in {"idle", "emit"} => fetched = 0 /\ got = {}

IInv ==
    /\ TypeOK
    /\ NoGaps
    /\ TimesSound
    /\ FromSound
    /\ PagesSound
    /\ ResultSound
    /\ NothingHeld
=============================================================================
