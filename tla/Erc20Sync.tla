----------------------------- MODULE Erc20Sync -----------------------------
(***************************************************************************)
(* The sync of one ERC-20 pair: on every PoolingTick the runner reads the  *)
(* cursor of a materialized view, asks the explorer for one page of the    *)
(* wallet's transfers from that block on, records those to the wallet, and *)
(* emits a MatchTick, whether or not a call failed.  The explorer, the     *)
(* confirmations and the clock change between any two of its calls.        *)
(*                                                                         *)
(* The explorer shows a chain that grows and whose unconfirmed end may be  *)
(* replaced.  Inside a block its order is left open.                       *)
(***************************************************************************)
EXTENDS Naturals, FiniteSets

CONSTANTS
    Transfers,   \* token transfers from or to the wallet
    Incoming,    \* those to the wallet
    Txn,         \* Txn[t]: the transaction that makes transfer t
    PageSize,    \* transfers per page, 100 in the code
    StartBlock,  \* block of starting_tx, 0 without one
    MaxBlock,    \* bound: height of the chain
    MaxReorgs    \* bound: how often its end is replaced

ASSUME ConstantsAssumption ==
    /\ Incoming \subseteq Transfers
    /\ DOMAIN Txn = Transfers
    /\ PageSize \in Nat \ {0}
    /\ StartBlock \in Nat
    /\ MaxBlock \in Nat
    /\ MaxReorgs \in Nat

VARIABLES
    block,      \* the block each transfer is in, 0 if in none
    height,     \* the newest block
    fork,       \* the highest block replaced so far
    reorgs,     \* how often that happened
    rewritten,  \* transfers made in blocks that replaced others
    row,        \* block_number of each transfer's row, 0 without a row
    confirmed,  \* rows with blockchain_confirmed
    aged,       \* transfers made more than a day ago
    cursor,     \* cursor_block_number as of the view's last refresh
    pc,         \* what the runner does next
    from,       \* startblock of this sync
    page        \* block number of each transfer fetched, 0 if it was not

chainVars  == <<block, height, fork, reorgs, rewritten>>
rowVars    == <<row, confirmed, aged, cursor>>
runnerVars == <<pc, from, page>>
vars == <<chainVars, rowVars, runnerVars>>

NoPage == [t \in Transfers |-> 0]

Init ==
    /\ block = NoPage
    /\ height = 1
    /\ fork = 0
    /\ reorgs = 0
    /\ rewritten = {}
    /\ row = NoPage
    /\ confirmed = {}
    /\ aged = {}
    /\ cursor = 0
    /\ pc = "idle"
    /\ from = 0
    /\ page = NoPage

Made(t) == block[t] > 0

\* A transaction is recorded once, whatever transfers it makes.
Recorded(t) == \E u \in Transfers : row[u] > 0 /\ Txn[u] = Txn[t]

HasRows == \E t \in Transfers : row[t] > 0

----------------------------------------------------------------------------
(***************************************************************************)
(* The chain, as the explorer shows it, and the clock.                     *)
(***************************************************************************)
OfTransaction(t) == {u \in Transfers : Txn[u] = Txn[t]}

\* A transaction makes all its transfers in one block.
MakeTransfers(t) ==
    /\ ~Made(t)
    /\ block' = [u \in Transfers |-> IF u \in OfTransaction(t) THEN height ELSE block[u]]
    /\ rewritten' = IF height <= fork
                      THEN rewritten \cup OfTransaction(t)
                      ELSE rewritten \ OfTransaction(t)
    /\ UNCHANGED <<height, fork, reorgs, rowVars, runnerVars>>

NextBlock ==
    /\ height < MaxBlock
    /\ height' = height + 1
    /\ UNCHANGED <<block, fork, reorgs, rewritten, rowVars, runnerVars>>

\* The blocks from b on are replaced; a confirmed transfer stays where it is.
Reorg(b) ==
    /\ reorgs < MaxReorgs
    /\ \A t \in confirmed : row[t] < b
    /\ reorgs' = reorgs + 1
    /\ block' = [t \in Transfers |-> IF block[t] >= b THEN 0 ELSE block[t]]
    /\ fork' = IF height > fork THEN height ELSE fork
    /\ height' = b
    /\ UNCHANGED <<rewritten, rowVars, runnerVars>>

\* A day passes since the block_timestamp of a transfer that is or may become a
\* row.  The view, which compares with the time of its refresh, is not refreshed.
Age(t) ==
    /\ t \in Incoming
    /\ Made(t) \/ row[t] > 0
    /\ t \notin aged
    /\ aged' = aged \cup {t}
    /\ UNCHANGED <<chainVars, row, confirmed, cursor, runnerVars>>

----------------------------------------------------------------------------
(***************************************************************************)
(* The view erc20_sync_cursor.                                             *)
(***************************************************************************)
Rows(r) == {t \in Transfers : r[t] > 0}
Pinned(r, done) == Rows(r) \ (done \cup aged)

\* The earliest unconfirmed row of the last day, or else the newest row.
CursorOf(r, done) ==
    {r[t] : t \in {t \in Rows(r) :
        IF Pinned(r, done) = {}
          THEN \A u \in Rows(r) : r[u] <= r[t]
          ELSE t \in Pinned(r, done) /\ \A u \in Pinned(r, done) : r[t] <= r[u]}}

\* The trigger on an update of blockchain_confirmed.  Confirmation itself is
\* external; what it confirms is in the chain where it was recorded.
ConfirmTransfer(t) ==
    /\ row[t] > 0
    /\ block[t] = row[t]
    /\ t \notin confirmed
    /\ confirmed' = confirmed \cup {t}
    /\ cursor' \in CursorOf(row, confirmed')
    /\ UNCHANGED <<chainVars, row, aged, runnerVars>>

\* The view is one for all pairs: a statement about another refreshes it too.
RefreshView ==
    /\ HasRows
    /\ cursor' \in CursorOf(row, confirmed)
    /\ UNCHANGED <<chainVars, row, confirmed, aged, runnerVars>>

----------------------------------------------------------------------------
(***************************************************************************)
(* The runner: one task, one tick at a time.                               *)
(***************************************************************************)

\* Faulty variant: two blocks are read again.
EarlierBlocks ==
    IF HasRows THEN {cursor - 2} ELSE {0, StartBlock}

\* Without a row the block of starting_tx, or 0 if the explorer has no such
\* transaction.
StartBlocks ==
    IF HasRows THEN {cursor} ELSE {0, StartBlock}

GetStartBlock ==
    /\ pc = "idle"
    /\ from' \in StartBlocks
    /\ pc' = "fetch"
    /\ UNCHANGED <<chainVars, rowVars, page>>

Shown == {t \in Transfers : Made(t) /\ block[t] >= from}

\* Faulty variant: the page is sorted the other way.
LatestPage(S) ==
    /\ S \subseteq Shown
    /\ Cardinality(S) <= PageSize
    /\ S = Shown \/ Cardinality(S) = PageSize
    /\ \A t \in S, u \in Shown \ S : block[t] >= block[u]

\* The first page in ascending order, transfers from the wallet included.
IsPage(S) ==
    /\ S \subseteq Shown
    /\ Cardinality(S) <= PageSize
    /\ S = Shown \/ Cardinality(S) = PageSize
    /\ \A t \in S, u \in Shown \ S : block[t] <= block[u]

FetchTransfers ==
    /\ pc = "fetch"
    /\ \E S \in SUBSET Transfers :
         /\ IsPage(S)
         /\ page' = [t \in Transfers |-> IF t \in S THEN block[t] ELSE 0]
    /\ pc' = "insert"
    /\ UNCHANGED <<chainVars, rowVars, from>>

EndSync ==
    /\ pc' = "emit"
    /\ from' = 0
    /\ page' = NoPage

ToInsert == {t \in Incoming : page[t] > 0}

\* Faulty variant: without ON CONFLICT one known row makes the insert fail.
InsertOrFail ==
    /\ pc = "insert"
    /\ ToInsert # {}
    /\ \A t \in ToInsert : ~Recorded(t)
    /\ row' = [t \in Transfers |-> IF t \in ToInsert THEN page[t] ELSE row[t]]
    /\ cursor' \in CursorOf(row', confirmed)
    /\ EndSync
    /\ UNCHANGED <<chainVars, confirmed, aged>>

\* Faulty variant: ON CONFLICT DO UPDATE resets the rows already there.
UpsertTransfers ==
    /\ pc = "insert"
    /\ ToInsert # {}
    /\ row' = [t \in Transfers |-> IF t \in ToInsert THEN page[t] ELSE row[t]]
    /\ confirmed' = confirmed \ ToInsert
    /\ cursor' \in CursorOf(row', confirmed')
    /\ EndSync
    /\ UNCHANGED <<chainVars, aged>>

\* ON CONFLICT DO NOTHING: of the transfers of one transaction one is kept.
\* The statement's trigger refreshes the view even if no row is new.
InsertTransfers ==
    /\ pc = "insert"
    /\ ToInsert # {}
    /\ \E new \in SUBSET ToInsert :
         /\ \A t \in new : ~Recorded(t)
         /\ \A t, u \in new : Txn[t] = Txn[u] => t = u
         /\ \A t \in ToInsert : Recorded(t) \/ \E u \in new : Txn[u] = Txn[t]
         /\ row' = [t \in Transfers |-> IF t \in new THEN page[t] ELSE row[t]]
    /\ cursor' \in CursorOf(row', confirmed)
    /\ EndSync
    /\ UNCHANGED <<chainVars, confirmed, aged>>

\* Nothing on the page is for the wallet: no statement, no refresh.
NothingToInsert ==
    /\ pc = "insert"
    /\ ToInsert = {}
    /\ EndSync
    /\ UNCHANGED <<chainVars, rowVars>>

\* A failed call, or a page that does not parse, ends the sync.
FailSync ==
    /\ pc \in {"fetch", "insert"}
    /\ EndSync
    /\ UNCHANGED <<chainVars, rowVars>>

\* The MatchTick goes out in any case.
EmitMatchTick ==
    /\ pc = "emit"
    /\ pc' = "idle"
    /\ UNCHANGED <<chainVars, rowVars, from, page>>

Restart ==
    /\ pc' = "idle"
    /\ from' = 0
    /\ page' = NoPage
    /\ UNCHANGED <<chainVars, rowVars>>

ChainStep ==
    \/ \E t \in Transfers : MakeTransfers(t) \/ Age(t) \/ ConfirmTransfer(t)
    \/ NextBlock
    \/ RefreshView
    \/ \E b \in 1 .. height : Reorg(b)

SyncStep ==
    \/ GetStartBlock
    \/ FetchTransfers
    \/ InsertTransfers
    \/ NothingToInsert
    \/ FailSync
    \/ EmitMatchTick
    \/ Restart

Next == ChainStep \/ SyncStep

Spec == Init /\ [][Next]_vars

(***************************************************************************)
(* Fairness: ticks come again and again, a call that is made again and     *)
(* again does not fail every time, days pass.  Nothing is assumed of the   *)
(* chain, the confirmations or restarts.                                   *)
(***************************************************************************)
FairSpec ==
    /\ Spec
    /\ WF_vars(GetStartBlock)
    /\ SF_vars(FetchTransfers)
    /\ SF_vars(InsertTransfers)
    /\ WF_vars(NothingToInsert)
    /\ WF_vars(EmitMatchTick)
    /\ \A t \in Transfers : WF_vars(Age(t))

----------------------------------------------------------------------------
TypeOK ==
    /\ block \in [Transfers -> Nat]
    /\ height \in Nat \ {0}
    /\ fork \in Nat
    /\ reorgs \in 0 .. MaxReorgs
    /\ rewritten \subseteq Transfers
    /\ row \in [Transfers -> Nat]
    /\ confirmed \subseteq Transfers
    /\ aged \subseteq Transfers
    /\ cursor \in Nat
    /\ pc \in {"idle", "fetch", "insert", "emit"}
    /\ from \in Nat
    /\ page \in [Transfers -> Nat]

\* What a sync that starts now would no longer ask for.
Passed(t) == HasRows /\ block[t] < cursor

\* Incoming transfers the sync is to record, but for those in blocks that
\* replaced blocks it may have read before.
Expected(t) ==
    /\ t \in Incoming \ rewritten
    /\ Made(t)
    /\ block[t] >= StartBlock

\* The cursor never moves past an incoming transfer that is not recorded: a
\* page may end inside a block, the chain may grow or lose its end between
\* the fetch and the insert, and the cursor may be stale.
NothingSkipped ==
    \A t \in Transfers : Expected(t) /\ Passed(t) => Recorded(t)

\* PageSize transfers, known or outgoing ones, hide transfer t.
Crowded(t) ==
    Cardinality({u \in Transfers \ {t} :
        /\ Made(u)
        /\ block[u] <= block[t]
        /\ HasRows => block[u] >= cursor}) >= PageSize

\* An incoming transfer is recorded in the end unless the page stays full of
\* others, although calls fail, the process restarts and pages are read again.
SyncCatchesUp ==
    \A t \in Transfers :
        Expected(t) ~> Recorded(t) \/ Crowded(t) \/ ~Expected(t)

(***************************************************************************)
(* The order book's table of the wallet's transfers, without what others   *)
(* do to it.                                                               *)
(***************************************************************************)
TableStatus ==
    [t \in Incoming |-> CASE row[t] = 0      -> "absent"
                          [] t \in confirmed -> "waiting_for_match"
                          [] OTHER           -> "waiting_for_confirmation"]

Nothing == [x \in {} |-> "none"]

Book == INSTANCE OrderBook WITH
    Orders <- {}, Pairs <- {"pair"}, TrcPairs <- {}, Deposits <- {},
    Txs <- Incoming, Callers <- {}, Amount <- Nothing,
    TxPair <- [t \in Incoming |-> "pair"], TxValue <- [t \in Incoming |-> 1],
    None <- "none",
    status <- Nothing, row <- Nothing, live <- {},
    tstatus <- TableStatus, fulfil <- [t \in Incoming |-> "none"], old <- {},
    handler <- Nothing, pc <- "idle", tick <- "none", found <- {},
    matches <- {}, oldIds <- {}, outbox <- {}, reported <- {}

\* The sync is the one the order book counts on: page by page, it adds rows that
\* wait for confirmation, only of transfers to the wallet, and leaves those
\* alone that are there, read again or confirmed in the meantime.
BookSpec == Book!Spec

----------------------------------------------------------------------------
(***************************************************************************)
(* The inductive invariant.                                                *)
(***************************************************************************)
Heights ==
    \A t \in Transfers :
        /\ block[t] <= height
        /\ row[t] <= height \/ row[t] <= fork
        /\ page[t] <= height \/ page[t] <= fork

\* No row lies beyond a transfer that is missing.
RowsClosed ==
    \A t, u \in Transfers : Expected(t) /\ block[t] < row[u] => Recorded(t)

\* The view is not ahead of the rows, nor a sync ahead of where it started.
CursorSound ==
    HasRows => \E t \in Transfers : cursor <= row[t]

FromSound == from <= StartBlock \/ \E t \in Transfers : from <= row[t]

PageHeld == pc # "insert" => page = NoPage

\* What lies before the end of the page and is not on it is below its start.
PageSound ==
    \A t, u \in Transfers :
        Expected(t) /\ page[t] = 0 /\ block[t] < page[u] => block[t] < from

\* Only rows are confirmed; preserved by every step without the rest.
ConfirmedSound == \A t \in confirmed : row[t] > 0

IInv ==
    /\ TypeOK
    /\ Heights
    /\ RowsClosed
    /\ CursorSound
    /\ FromSound
    /\ PageHeld
    /\ PageSound
=============================================================================
