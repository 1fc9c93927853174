# A formal model of Open Crypto Checkout

TLA+ modules, TLC runs and TLAPS proofs for the checkout server of this
repository: orders are created by a service, the customer chooses a
blockchain-token pair and gets a pending deposit, a sync records the transfers
of the wallets from public explorers, a watcher matches transfers to deposits
and settles orders, and a sender tells the merchant by webhook.

Paths below are relative to the repository; `core/` stands for
`ocrch-core/src/`, `server/` for `ocrch-server/src/`, `docs/` for
`doc/src/content/docs/`.

1. [Inventory](#inventory)
2. [Modules and the code](#modules-and-the-code)
3. [Runs](#runs)
4. [Proofs](#proofs)
5. [Where the code disagrees with its documentation](#where-the-code-disagrees-with-its-documentation)
6. [What is not modelled, and why](#what-is-not-modelled-and-why)
7. [Plan](#plan)

## Inventory

The server is one Rust process around a PostgreSQL database. Four kinds of
tasks run in it concurrently and share only the database, a configuration
store behind read-write locks, and channels.

| component | state it keeps | operations |
|---|---|---|
| **Orders** `core/entities/order_records.rs` | status (pending, paid, expired, cancelled), `webhook_success_at`, `webhook_retry_count`, `webhook_last_tried_at` | create, read, update status (always unconditional), mark webhook success, count a failure, read what is due for a retry |
| **Pending deposits** `core/entities/{erc20,trc20}_pending_deposit.rs` | a row per order and pair the customer chose: wallet, value | insert, query of the deposits of pending orders, deletes by order |
| **Transfers** `core/entities/{erc20,trc20}_transfer.rs` | a row per token transfer: status, `fulfillment_id`, `created_at` | insert a page (existing rows stay), query unmatched, query older than an hour, mark as having no deposit, and the crediting transaction |
| **OrderBookWatcher** `core/processors/order_watcher.rs` | locals of one tick | for each `MatchTick`: read deposits, read transfers, merge-join, read old transfers, mark them, commit the matches, send events |
| **BlockchainSync** `core/processors/blockchain_sync.rs` | cursor kept in the transfer tables | for each `PoolingTick`: fetch pages, insert them, emit a `MatchTick` whether or not it failed |
| **PoolingManager** `core/processors/pooling_manager.rs` | a loop per pair, a broadcast channel of interval updates | start, stop and re-time loops; tick |
| **WebhookSender** `core/processors/webhook_sender.rs` | bounded channel of events | main task: post and record one event; retry task: every 10 s, a batch of undelivered orders that are due |
| **HTTP API** `server/api/` | locals of a request | create_order, create_payment, cancel_order, mark_paid, resend, listings |
| **Order status socket** `server/api/user/ws.rs` | a broadcast receiver per client | subscribe, send the status, send it again after each update of the order and each lag, close on a final status |
| **Configuration** `core/config/`, `server/config/`, `server/shutdown.rs` | merchant, wallets, API keys, admin | load, reload on SIGHUP |
| **Pipeline and shutdown** `server/main.rs` | channels, shutdown flag | wire everything; fan-out of the watcher's events to sockets and sender; signal and join the tasks at a stop, close the pool |
| **SDK** `ocrch-sdk/` | none | signatures, clients, wire types |

### Interactions

```
 service ── create_order ──▶ orders ◀── mark_paid ── administrator
 customer ─ create_payment ─▶ deposits      cancel_order ◀── customer
 PoolingManager ─ PoolingTick ─▶ BlockchainSync ─ inserts ─▶ transfers
                                      └─ MatchTick ─▶ OrderBookWatcher
 OrderBookWatcher ─ transaction ─▶ transfers, deposits, orders
        └─ events ─▶ fan-out ─▶ WebhookSender ─ posts ─▶ merchant
                        └─▶ order status sockets
 cancel_order, mark_paid ─ event ─▶ WebhookSender, then update ─▶ sockets
 resend handlers ─ events ─▶ WebhookSender;  retry task ◀─ rows of orders
 confirmation of transfers: a program outside the repository writes the rows
```

### What is hard

* **Read, decide, write.** Every handler reads a row in one statement and
  writes it, without a condition, in a later one. The watcher makes up to five
  separate database calls per tick, and its last transaction relies on the first
  reads.
* **Statements that commit on their own.** Old transfers are marked in a
  statement before the crediting transaction, and events exist only in memory
  between a commit and a send. A failed call or a stop falls in between.
* **Repetition.** Pages of transfers overlap, webhooks are posted again, the
  main task and the retry task work on the same row.
* **Families.** ERC-20 and TRC-20 rows live in twin tables, and an order may
  have deposits in both; the clean-up has to reach both.
* **Lists that move.** The pages of one TRC-20 sync are asked for one after the
  other while transfers arrive; the cursor of either sync is a view refreshed
  by other statements than those that read it.
* **Subscribe, read, wait.** A socket reads the status, then waits for an update
  that may have come before, be overwritten by others, or never be sent.
* **Stopping.** Tasks that wait for each other's bounded channels are signalled
  all at once, and the pool closes behind them.
* **Boundaries.** Retry count and back-off, limits of queries, bounded channels.

### What makes each component correct

* Order book: no transfer pays twice, no deposit and no order is paid twice,
  a credit is for the right pair and amount, a paid order stays settled, a
  confirmed matching transfer is credited in the end while its deposit waits, whatever the
  interleaving; the code has one exception, a transfer that is an hour old (see below).
* Webhooks: a delivery is recorded only if the merchant accepted a post; a
  settled order's webhook is delivered or retried to the limit; the limit holds.
* Sync: no transfer between two cursors is skipped; a page read twice is recorded once.
* Pooling: a pair listed since the start is ticked again and again while deposits pause; a removed
  one stops; no reload is missed. What a reload adds has no runner before a restart, and a reload
  before the loops are spawned leaves no pair with one (see below).
* Matching: the merge pairs equal keys one to one, leaves no key over on both
  sides, and credits the oldest transfers of a key.
* Socket: a client that was told "pending" hears of the change of status.
* Shutdown: it ends, and no task is left when the pool is closed.
* Configuration: readers see one complete version, and loops follow it.

`PROJECT.json` lists the hazards at their lines of code with the properties
that would catch them.

## Modules and the code

| module | models |
|---|---|
| `PaymentLedger` | the abstract promise about money: orders are opened and settled once, deposits are slots, transfers are credited to slots in one-to-one batches, never twice for a slot or an order |
| `OrderBook` | the tables and every program that writes them: handlers, sync inserts, watcher |
| `MCOrderBook`, `OrderBookClaims` | instances of `OrderBook` for TLC, a claim |
| `OrderBookProofs` | its theorems |
| `WebhookSender` | producers, channel, main task, retry task, merchant |
| `MCWebhookSender`, `WebhookSenderProofs` | the same for it |
| `Checkout` | order book and webhook sender in one process, with the channels, the fan-out and the resend handlers between them |
| `MCCheckout`, `CheckoutProofs` | its instance, and theorems about the composition |
| `Erc20Sync` | the sync of one ERC-20 pair: cursor view, explorer page, insert, and the chain beneath |
| `MCErc20Sync`, `Erc20SyncProofs` | its instances and theorems |
| `PoolingManager` | the manager, its tick loops, their runners' channels, the configuration store and the reload |
| `MCPoolingManager`, `PoolingClaims`, `PoolingManagerProofs` | instances, a claim, theorems |
| `Trc20Sync` | the sync of one TRC-20 pair: cursor view, page loop, the one insert, and transfers that arrive meanwhile |
| `MCTrc20Sync`, `Trc20Claims`, `Trc20SyncProofs` | its instance, a claim, theorems |
| `EventPipeline` | from a change of status to a customer's socket, and the graceful shutdown |
| `MCEventPipeline`, `EventPipelineProofs` | its instance and theorems |
| `MergeJoin` | the loop of `compute_matches` |
| `MCMergeJoin`, `MergeJoinProofs` | its instance and theorems |

### OrderBook

*Granularity.* One database statement, or one database transaction, is one
step; whatever happens between two of them in one program is part of the step
before or after. Any other program may step in between.

| variable | code |
|---|---|
| `status` | `order_records.status`, `"absent"` before the insert |
| `row`, `live` | rows of the two pending-deposit tables: `row` is what was inserted under an id and outlives the row, `live` the ids still in a table |
| `tstatus`, `fulfil`, `old` | `status`, `fulfillment_id` and age of the two transfer tables |
| `handler` | the locals of each request between two awaits |
| `pc`, `tick`, `found`, `matches`, `oldIds`, `outbox` | the locals of `Erc20Matching::process` and `Trc20Matching::process` |
| `reported` | transfers whose `UnknownTransferReceived` was sent |

| action | code |
|---|---|
| `CreateOrder` | `CreateOrderRecord` |
| `CreatePaymentRead`, `CreatePaymentInsert` | `create_payment`, which reads the order and later inserts a deposit without looking again |
| `CancelRead`, `CancelCommit`, `Announce` | `cancel_order`: read; transaction of status and deletions; event |
| `MarkPaidRead`, `MarkPaidUpdate`, `Announce` | `mark_paid` |
| `InsertTransfers` | a page with `ON CONFLICT DO NOTHING` |
| `ConfirmTransfer`, `FailToConfirmTransfer` | external |
| `AgeTransfer` | `created_at < NOW() - 1 hour` becomes true |
| `GetDepositsForMatching` … `HandleMatchedTrans`, `SendEvent` | the calls of one tick, in their order, with their early returns (`NoUnmatchedTransfer`, `NothingToDo`) |
| `FailTick`, `Abort`, `Restart` | a failed call ends the tick or the request; a client that hangs up drops its request; a stop loses everything in memory |

The result of the merge join is a maximal one-to-one pairing of equal keys:
the deposits come from the database in no order, so any pairing within a key may result.
`MergeJoin` shows that the loop's result is one, and `Erc20Sync` and `Trc20Sync` that
their transfer tables change by `InsertTransfers` and `ConfirmTransfer` only.

*Abstractions.* A pair has one wallet and only transfers to it are recorded, so
the sort key (wallet address, value) is the amount. Amounts are compared for
equality only. Ids of the two families are distinct. Events about one order in
one tick that say the same are one element of `outbox`. A tick may come at any
time for any pair: a superset of what the sync emits. A database call that
reports an error after it committed is not modelled.

### WebhookSender

| variable | code |
|---|---|
| `status`, `been` | `order_records.status`, and every status the order has had (history) |
| `success`, `retries`, `resting` | `webhook_success_at IS NOT NULL`, `webhook_retry_count`, and whether the back-off since `webhook_last_tried_at` lasts |
| `announced` | events whose producers wait for the channel |
| `queue` | the channel, of `DEFAULT_CHANNEL_BUFFER` places |
| `main`, `batch`, `retry` | the locals of the two tasks |
| `heard`, `told`, `taken` | history: what the merchant accepted last, what it was told, and how many events the main task took |

`SetStatus`, `ResendOrderWebhook` and `ReportUnknown` are the producers: a handler
settles one order, the watcher's transaction any set of them, each together with the
events it will announce. `Send` and `LoseEvents` are the channel and the loss before it.
`Receive`, `SendOrderStatusWebhook` or `SendUnknownTransferWebhook`, and `RecordMain` are
the main task, `GetOrdersForWebhookRetry`, `RetryPost` and `RecordRetry` the
retry task; `FailMain` and `FailRetry` their failed database calls; `Elapse`
the end of a back-off. A post has one of three outcomes: answered with a 2xx,
accepted with the answer lost (the client gives up after 30 seconds), or failed.
Which order is settled, by whom and when is left open: any order, at any moment,
whatever its status. `Checkout` has the code that does it.

*Abstractions.* Time is the set `resting`: a back-off ends at some moment,
whatever its length. Signing does not fail. The queue between the watcher and
the fan-out is part of `announced`; `Checkout` and `EventPipeline` have it apart.

### Checkout

The variables of `OrderBook`, those of `WebhookSender` but for the two it sees through
a mapping, and three of its own:

| variable | code |
|---|---|
| `relay` | the watcher's channel and, at its head, the event the fan-out task holds |
| `resent` | events that the two resend handlers have read and not yet sent |
| `been`, `marked` | history: the statuses each order has had, and the orders `mark_paid` has set to paid |

`DatabaseStep` is every step of the order book that hands no event on; `SendToFanOut`,
`Forward` and `AnnounceToSender` carry events towards the sender's channel, whose bound
is `Put`; `ResendOrderWebhook`, `ResendTransferWebhook`, `SendResent` and `DropResent` are
the resend handlers; `SenderStep` is any step of the sender's tasks or its clock;
`CheckoutRestart` stops and starts both.

The sender's `status` is `RowStatus` (a row that is not inserted yet is like a pending one
without an event), and its `announced` is `InFlight`: the watcher's outbox, the relay, the
handlers that announce and the resends. `SenderSpec` states that through this mapping
every step is a step of `WebhookSender` or a stutter, so its open producers are
what the code does.

*Abstractions.* Those of both parts. The watcher's channel gives its events to the
fan-out in order, and the sender's channel is a sequence; `resent` is a set, so of two
resends that say the same one may go on waiting after the other was sent.

### Erc20Sync

| variable | code |
|---|---|
| `block`, `height`, `fork`, `reorgs`, `rewritten` | the chain as the explorer shows it: the block of each transfer, the newest block, and which blocks replaced others |
| `row`, `confirmed`, `aged` | `erc20_token_transfers`: `block_number`, `blockchain_confirmed`, and whether `block_timestamp` is more than a day ago |
| `cursor` | `cursor_block_number` of the pair in the materialized view, as of its last refresh |
| `pc`, `from`, `page` | the runner between two awaits: `start_block` and what the explorer answered |

| action | code |
|---|---|
| `GetStartBlock` | the cursor, or the block of `starting_tx`, or 0 |
| `FetchTransfers` | page 1, `PageSize` transfers, ascending; outgoing ones take places too |
| `InsertTransfers`, `NothingToInsert` | the filter on the receiver, `ON CONFLICT (txn_hash, chain) DO NOTHING`, and the statement's trigger |
| `FailSync`, `EmitMatchTick` | an error ends the sync, and the `MatchTick` goes out all the same |
| `ConfirmTransfer`, `RefreshView` | the refreshes by a confirmation, and by a statement about any other pair |
| `Age`, `MakeTransfers`, `NextBlock`, `Reorg`, `Restart` | time, the chain, a stop of the process |

*Abstractions.* A pair has one wallet. Blocks are small numbers, and the
explorer's order inside a block is left open, so a page that ends in a block
may have any of its transfers. A fork replaces the end of the chain, but no
block with a confirmed transfer. Transfers in blocks that replace others are in
the model (`rewritten`), but `NothingSkipped` does not promise them: a row read from
a block that was replaced keeps the cursor above them, and the code has nothing against it.
A failed cursor query has the effect of a sync that fails at its page.
The statement of an insert, whose trigger refreshes the view, is one step.

`BookSpec` maps the rows to the order book's `tstatus`: absent without a row,
waiting for a match once confirmed, waiting for confirmation before. Orders, deposits and
the watcher are left out of the instance, whose other variables stay as they are.

### PoolingManager

| variable | code |
|---|---|
| `wallets` | the wallets the handlers read, from which they offer pairs and addresses |
| `listed`, `attached` | `PoolingManagerConfig.tick_senders`: one sender for each coin of each wallet, and whether these senders have receivers |
| `notified` | the store's watch channel has a version the manager has not seen |
| `stage`, `reloads` | where the SIGHUP handler is between its awaits, and how often it ran |
| `events` | the channel of `PendingDepositChanged` |
| `manager` | before its loops are spawned, in its `select!`, or about to read the store |
| `loop` | the task of each entry: waiting in its `select!`, in one whose update branch failed (`deaf`), sending a tick, or ended; the rest of its sleep and its receiver of the broadcast |
| `ticks` | the channel of each entry's runner |
| `due`, `kept`, `late` | history: entries that a deposit names since their runner last looked; entries of the start whose pair every store since has listed; whether the first loops were spawned from a store that a reload had replaced |

| action | code |
|---|---|
| `CreatePayment`, `CreatePaymentUnheard` | `create_payment` up to its event, and the request that is dropped before it |
| `Reload`, `UpdateStore`, `Notify` | the reload: the wallets, the store, the watcher |
| `Restart` | a stop, then `main` with whatever the file says |
| `Bootstrap`, `SeeChange`, `ApplyDiff`, `Process` | `PoolingManager::run`: its start, and the branches of its `select!` in their order |
| `ReceiveUpdate`, `Lag`, `WakeUp` | the branches of a loop's `select!` in their order; an error of the broadcast does not match `Ok(..)` |
| `SendTick`, `SendFails` | the send that waits for room, or fails without a receiver and ends the loop |
| `Sync` | the runner takes a tick |
| `Elapse` | the clock |

*Abstractions.* Which of the four intervals a loop gets is left open, so the time of
the newest deposit is not kept. An abort takes effect at once; the code aborts a loop
at its next await. A reload whose file does not parse changes nothing and is no step.
A runner's sync is one step here; `Erc20Sync` has its parts.

### Trc20Sync

A transfer is its position in the chain, counted from the first one that is not older
than `starting_tx`; its timestamp is that of its block, the position of the block's
first transfer.

| variable | code |
|---|---|
| `newest`, `time`, `dayOld` | what the explorer knows: the transfers to the wallet, their timestamps, and which are more than a day old |
| `ascending` | the order of the explorer's list; the request asks for none |
| `recorded`, `confirmed` | rows of `trc20_token_transfers`, and those with `blockchain_confirmed` |
| `pc`, `from`, `fetched`, `got` | the runner between two awaits: `start_timestamp`, the offset, and `all_transfers` |

| action | code |
|---|---|
| `GetStartTimestamp` | the cursor, or the start of the chain without a row |
| `FetchTransfers` | one round of the page loop: a page at the offset of the list *as it is now*, and the two conditions that end the loop |
| `InsertTransfers` | one statement for all pages, if its parameters are not too many; rows that exist stay |
| `FailSync`, `EmitMatchTick`, `Restart` | as in `Erc20Sync` |
| `MakeTransfer`, `Age`, `ConfirmTransfer` | the chain, the clock, the confirmations |

`InWindow` compares as the view does: a timestamp in milliseconds with a time in
seconds, so that `Pinned` is every unconfirmed row, whatever its age.

*Abstractions.* Incoming transfers only, as the request asks for them; one transfer
per transaction; no forks (`Erc20Sync` has them). The explorer keeps its order
during a sync. The view is taken as fresh: each statement that changes what it shows
refreshes it, and the passing of a day, which does not, changes nothing in it.

### EventPipeline

| variable | code |
|---|---|
| `status` | `order_records.status` |
| `request`, `dropped` | the locals of `cancel_order` and `mark_paid`; orders whose request was dropped after it changed the status (history) |
| `watcher`, `matched`, `outbox` | the watcher's tick: read, commit, events still to be sent |
| `obw`, `fanout` | the channel from the watcher to the fan-out task, and what that task does |
| `updates` | what was broadcast; receivers can read the last `UpdateBuffer` of it |
| `socket`, `cursor` | each socket's task and its receiver's position |
| `queued`, `sender`, `retry` | the sender's channel and its two tasks |
| `phase` | serving; no more connections; processors signalled; pool closed |

| action | code |
|---|---|
| `ReadOrder`, `ChangeStatus`, `Announce`, `Push`, `HangUp` | `cancel_order` and `mark_paid`: read, write, event to the sender, update to the sockets; a request dropped at any await |
| `ReadDeposits`, `CommitMatches`, `FailTick`, `SendEvent`, `StopWatcher` | `OrderBookWatcher::run`; a tick ends when its last event is in the channel |
| `TakeEvent`, `Forward`, `StopFanOut` | the fan-out task: update first, then forward; it ends when its channel is closed and empty |
| `Subscribe`, `ReadStatus`, `Receive`, `Disconnect` | `handle_order_ws` |
| `SenderReceive`, `SenderFinish`, `EndSender` | the sender's main task, which looks for the signal first and joins the retry task when it stops |
| `StartRetry`, `FinishRetry`, `StopRetry` | the retry task |
| `StopServing`, `SignalShutdown`, `ClosePool` | `main` after the signal: requests are answered, processors signalled and joined, the pool closed; sockets are upgraded connections and waited for by nobody |
| `Restart` | a crash, or a start after a stop |

*Abstractions.* The events of a tick are a set: two that say the same are one.
`outbox` is sent in any order. Orders exist. What the sender posts is not here (`WebhookSender` has
it), nor what the watcher matches (`OrderBook`). A send that finds its receiver gone
drops the event. Left out of the shutdown are the sync runners, which get the same signal and are
joined first, though nothing bounds an HTTP request they are in (the client has no timeout), so
the join may wait for one; the PoolingManager, signalled and joined after them; and the reload
handler, which is notified (`main.rs:153`) and not joined. `ShutdownCompletes` is about the rest.

### MergeJoin

`tkey` and `dkey` are the sorted lists of keys, `i` and `j` the heads of what is left of
them, `matched`, `leftOnly` and `rightOnly` the results. `Left`, `Right` and `Both` are
the three answers of `merge_join_by` with the arm of the `match` that takes them.

`IsPairing` is the definition of the same name of `OrderBook`, through an instance in
which a transfer or a deposit is its place in the list with its key.

*Abstractions.* Keys (amount, then lower-case address) are integers that compare like
them. The sort is stable and the query orders transfers by `block_timestamp`, so of
one key a smaller index is an older transfer; deposits of one key come in no order.

## Runs

Every run has `CHECK_DEADLOCK FALSE`: identifiers are finite, so a model stops
when every order, deposit and transfer is used and no request or tick is open.
(`pooling` never stops, as its clock goes on; `event_pipeline` can always restart; a merge ends.)

| run | question | bounds |
|---|---|---|
| `same_amounts` | Do races, re-synced pages and faults ever credit a deposit or an order twice, disturb a matched transfer, or leave a live deposit behind? Is a credit for its pair? Is it the payment ledger? | 2 orders of one amount, 2 pairs (one per family), 3 deposits, 2 transfers on one pair, 1 request at a time |
| `matching_progress` | Is an event ever ahead of the database, with two requests at once? Is a confirmed transfer that a deposit waits for credited in the end? | 1 order, 1 pair, 2 deposits, 1 transfer of its amount and 1 of another, 2 requests, fair |
| `webhooks` | Does the merchant hear only of statuses an order had? Is a delivery recorded only after an accepted post, does the limit hold with both tasks at one row and the channel full, and is a settled order delivered or retried to the limit? | 2 orders, limit 1, batch of 1, channel of 1, 1 waiting producer, 1 event about one of the orders, none about unknown transfers (they pass in `checkout`), fair |
| `checkout` | Does the merchant hear of a payment that is neither credited nor marked? Are handlers, watcher and fan-out the producers the sender's module takes them for? | 1 order, 1 deposit, 1 transfer, 1 request at a time, limit 1, channels of 1, 1 waiting producer, 1 event |
| `erc20_sync` | Does the cursor ever pass an incoming transfer that is not recorded? Is each recorded in the end? Do the rows change as in the order book? | 3 incoming transfers, 2 of them of one transaction, 1 outgoing, pages of 2, 2 blocks, 1 fork, fair |
| `trc20_sync` | Does a page loop over a list that moves leave a gap, in either order? Is each transfer recorded in the end? Do the rows change as in the order book? | 5 transfers, pages of 2, 4 rows in a statement, fair |
| `pooling` | Do the loops follow the store, does an entry whose pair stays listed keep a loop that reaches its runner, and is its wallet looked at? | 3 entries, 2 of one pair; files that swap a wallet and add or remove a pair; 1 reload or restart, sleeps of 1 step, broadcast and channels of 1, fair |
| `event_pipeline` | Has a waiting socket always an update coming, and is its client told in the end? Does a shutdown end, with no event and no task left behind? | 2 orders, 1 request and 1 socket about the first, channels and broadcast of 1, fair |
| `merge_join` | Is the result a pairing the order book's watcher may choose, complete, and oldest first? | all sorted lists of up to 5 items over 3 keys |

*Why the bounds are enough to be interesting.* Two orders of one amount and
two transfers are the least for a transfer to be matched with the wrong one's
deposit, for two matches in one tick and for two ticks that overlap with a
handler; three deposits on two pairs are the least for an order with a
deposit in each family beside another order's. Two requests race on one
order in `matching_progress`, where a transfer that nobody waits for keeps ticks busy, alone or
beside the payment. More keys than one are in `merge_join`, whose result is a pairing in the
order book's sense, and in the theorems. A batch of one with two orders due makes them compete; a channel of
one is full in most behaviours. In `checkout` one order, one deposit and one
transfer are enough to be paid, cancelled, marked and announced by every path, in
every order of the hand-overs; more of them add what `same_amounts` and `matching_progress`
look at, and the theorems have any number. Four transfers in two blocks and pages
of two make pages that are full, that end inside a block, and that hold nothing
new; one fork may replace blocks that were read. Five TRC-20 transfers in pages of two make syncs of
three pages with arrivals between any two, and a sync too long for its statement. With
one place in every channel all of them are full in most behaviours, and one
update of the other order makes a socket lag. Five items over three keys
make runs of equal keys of every length on both sides. One reload may fall before the loops
are spawned, which no loop survives, between the store and its watcher, or while a loop lags or waits for its runner;
what a second one adds, and a file with two wallets of one pair, is in the proofs, which bound
nothing. Symmetry is used in `same_amounts` only, over identifiers no constant distinguishes. `MaxProducers` caps the
events whose producers wait, and `MaxEvents` how many events about an
order enter the channel; the properties do not depend on either, and the theorems
hold for all values.

Each property of these runs is paired in `PROJECT.json` with a faulty variant
of one definition (a dropped condition, an upsert, a forgotten table, a missing
reset), defined beside the definition it replaces and used nowhere else.

### Properties

* `NoDoubleCredit`, `OrderCreditedOnce`: no deposit is fulfilled by two
  transfers; once an order is credited, no later transaction credits it.
  The second is what the query's condition on pending orders buys, although the
  status may be overwritten meanwhile.
* `CreditMatchesDeposit`: linked exactly when matched, to its own pair and amount.
* `CreditedOrderSettled`, `AnnouncedOrderSettled`: the order of a fulfilled
  deposit is settled and never pending again; no event is ahead of the database.
* `MatchedStable`: neither sync nor watcher changes a matched transfer.
* `CleanupKeepsOnlyFulfilled`: the transaction that credits an order leaves
  it no unfulfilled deposit in either family.
* `LedgerSpec`: refinement of `PaymentLedger`, with paid and cancelled both
  settled. The ledger cannot tell them apart because the code does not keep
  them apart (see below).
* `MatchingProgresses`: a confirmed transfer some deposit waits for is matched in the end or
  stops being waited for. The one exception is stated in it: a `Stranded` transfer, older than
  an hour, marked as unmatched and in no match to be credited, which no tick looks at again.
* `HeardWas`: what the merchant was told of an order was its status at some time,
  whatever was posted twice, waited behind a full channel or was read by the retry task.
* `PaidIsBacked`: "paid" at the merchant's end means a matched transfer of the order's amount or
  an administrator's mark, through the join, the transaction, two channels, two tasks and restarts.
* `SenderSpec`: no producer announces a status before the row has it, passes a bound of
  the channel or writes a webhook column.
* `SuccessWasAccepted`: no delivery is recorded that the merchant did not accept.
* `RetriesBounded`: `webhook_retry_count` passes the limit by no more than the
  events taken, although the retry task checks the limit long before it counts.
* `SettledOrderRetried`: the retry loop makes up for every lost event.
* `BookSpec`: either sync changes the transfer rows as the order book assumes; a row
  that is read again is not reset, confirmed or not.
* `NothingSkipped`: what lies below the cursor is recorded, although the view
  is stale, the cursor was read before the page, and chain and confirmations
  moved between the two and the insert.
* `SyncCatchesUp`: an incoming transfer is recorded unless the page stays full
  of others from the cursor on (`Crowded`), which happens (see below).
* `NoGaps`: no TRC-20 row without the rows of all earlier transfers, although the pages of a
  sync are of different lists. `SyncCatchesUp` of `Trc20Sync`: each is recorded unless a sync
  gathers more rows than its statement can bind, which is final.
* `IsPairing`, `NothingLost`, `OldestFirst`: what the loop of `compute_matches` returns.
* `NoMissedUpdate`: a socket that told its client "pending" has an update to read, or on
  its way, once the order is not pending, wherever the change fell and whatever was
  overwritten; only a request dropped between its change and its update leaves it without.
* `ClientHears`: such a client is told, and its connection closed.
* `PoolOutlivesTasks`: no task, the retry task included, is left when the pool closes.
* `ShutdownDrains`: nor is an event left in a handler, in the watcher or in its channel,
  although each of these may wait for a place in a channel when the signal comes.
* `ReceiversOutliveSenders`: the watcher and the handlers never meet a closed channel; only the
  fan-out does, whose event the sockets have had by then. The send of
  `cancel_order` and `mark_paid`, whose failure would lose the event for good, never fails.
* `ShutdownCompletes`: a shutdown ends, although the sender stops reading its channel
  while others wait for a place in it: its end closes the channel.
* `LoopsFollowStore`: no reload is missed, whatever the manager does when it comes.
* `KeptPairsServed`: a reload gives the store senders that nobody receives from; an entry of
  the start whose pair stays listed keeps its old loop, even when its wallet is another one.
  When a reload of the store came before the loops were spawned (`late`), the property says the
  opposite, which is what the code does: no loop reaches a runner.
* `KeptPairPolled`: once deposits pause (`Quiet`), the wallet of every such entry is looked at after
  the last deposit that names it, although updates were lost to lag, loops waited for runners, and
  an event was never sent. A runner looks at its own wallet only: what is due for a wallet that
  only a reload listed stays due until a restart, and after a late start everything does; these are
  exceptions (`kept`, `late`). Without the pause it fails, as the claim below shows.

### Fairness

* `OrderBook!FairSpec`: each call of a tick, pair by pair, is strongly fair:
  the pooling manager ticks a pair listed since the start for ever, as `KeptPairPolled` shows
  under its exceptions and as long as deposits pause now and then; of a pair that is not ticked
  the progress properties of the order book and the syncs say nothing (the sync emits its `MatchTick` even when it failed), and a database call that is tried again
  and again succeeds some time. The watcher's task goes on (`WF(WatcherWork)`).
  Nothing is assumed of customers, chains, confirmation, or of faults not happening.
* `WebhookSender!FairSpec`: time passes, the retry task wakes every ten
  seconds, a post that keeps being due is made (every post ends by its
  timeout), and recording does not fail for ever. Nothing is assumed of
  the channel, the main task or the merchant.
* `Erc20Sync!FairSpec`: a pair is ticked again and again, a call to the
  explorer or the database that is made again and again succeeds some time
  (strong fairness, as the runner comes back to it after each failure), and
  days pass. Nothing is assumed of the chain, of confirmations or of stops.
* `Trc20Sync!FairSpec`: the same; a request for a page is strongly fair for each offset, as
  a request that is made again and again gets an answer some time.
* `EventPipeline!FairSpec`: each task goes on when it can (weak fairness). A send to a
  full channel is strongly fair: places are handed out in the order of the waiting
  senders, so none is passed over for ever. Nothing is assumed of clients, of
  signals or of crashes.
* `PoolingManager!FairSpec`: the clock, the manager, the reload, each loop and each runner
  go on when they can (weak fairness; they are tasks that wait for nothing else). Nothing is
  assumed of customers and of the administrator.

## Proofs

The eight proof modules are checked by TLAPS for every value of the constants; the
only assumptions are the `ConstantsAssumption`s and `Checkout`'s `SenderAssumption` (the constants have their
types, `None` is not an id, `NoKey` is not a pair, `Unknown` is not an order, keys are integers,
pages and channels have a place).

**`OrderBookProofs`.** The safety properties are not inductive: the crediting
transaction has no condition of its own, so that it credits nobody twice
depends on what the tick read several steps before. `IInv` says what of it
still holds:

* `FoundSound`, `MatchesSound`: every deposit read, every match computed, is
  `Creditable`, that is, its row was inserted and *no transfer is
  credited to its order*. Handlers may settle the order and delete the row meanwhile;
  they never credit, and only the watcher, one task with one tick at a time, does.
* `OldSound`: transfers about to be marked are not credited.
* `RowsSound`, `LiveInserted`, `HandlersSound`: deposits and requests
  refer to orders that exist.

A pending order is not credited (`CreditedOrderSettled`), so what the query
returns is creditable; the merge join keeps it so; a stale cancel or mark-paid
changes a settled status only to another settled one. `Invariance` is proved
with one lemma per program, the type invariant first (it needs `MatchesSound`: the
rows of matched deposits must be there). Then follow `TypeCorrect`,
`NoDoubleCreditHolds`, `CreditMatchesDepositHolds`, `CreditedOrderSettledHolds`,
`AnnouncedOrderSettledHolds`; the action properties `MatchedStableHolds`,
`OrderCreditedOnceHolds` and `CleanupKeepsOnlyFulfilledHolds`, by showing that only
`HandleMatchedTrans` changes a credit; and `Refinement`, `Spec => LedgerSpec`:
create opens, insert offers, cancel and mark-paid settle or stutter, the
transaction is one `CreditBatch`, all other steps stutter.

**`WebhookSenderProofs`.** `MarksAccepted`: a task about to mark has had its
post accepted. `BatchSound`: the retry task has an order in hand at most
once. `RetriesReserved`: a failure that is still to be counted, by either
task, already has its place under the bound; the query that reads an order
below the limit reserves one, an event taken reserves one. `EventsWere`: every
event on its way, in a producer, the channel, the main task or a batch (`InSystem`),
tells a status its order has had; a status that is overwritten stays in `been`, so no delay makes
the event false. From `Invariance`: `TypeCorrect`, `SuccessWasAcceptedHolds`,
`HeardWasHolds`, `RetriesBoundedHolds`.

**`CheckoutProofs`.** The composition is proved from its parts, not anew. `BookRefinement`:
each of its steps is a step of `OrderBook` or leaves the book alone, so every theorem of
`OrderBookProofs` holds in it. `SenderRefinement`: through the mapping each is a step of
`WebhookSender` or a stutter: a commit of a handler or of the watcher, with the
events it builds, is one `SetStatus`; old transfers marked are a `ReportUnknown`; a failed
tick, a dropped request, or a report the outbox already had, loses events or stutters;
a hand-over between outbox, relay and handlers moves an event inside `InFlight`. What is
proved of the sender then holds too, above all `HeardWas`, cited through the instance.
`CheckoutIInv` closes the argument: an order that has had a settled status is settled
(`BeenSettled`), and one that has been paid is credited or marked (`BeenBacked`), which
needs the book's invariant, as the watcher's transaction pays exactly the orders of its
matches and credits each of them, and no credit is ever taken back (`CreditsStay`). Hence
`PaidIsBackedHolds` (`CreditMatchesDeposit` knows the amount), and `HeardSettledHolds`: no accepted post says that an
order is settled when it is not.

**`Erc20SyncProofs`.** `NothingSkipped` relates the cursor of the view to the chain,
and holds because of three facts about things read at different times:
`PageSound`, a page has every promised transfer between its start and its last
block; `FromSound`, a sync starts no further than the newest row, though the view
may have moved back and forth since; `RowsClosed`, no row lies beyond a promised
transfer that is missing. `Heights` says that whatever was read lies within the chain or
below its last fork, so a new block of a fork is not promised and any
other new block is beyond everything read. From `Invariance`: `TypeCorrect`,
`NothingSkippedHolds`. `BookRefinement`: an insert of new rows is the order book's
`InsertTransfers`, a confirmation its `ConfirmTransfer`, and everything else, forks and
pages of known rows included, a stutter; it needs that only rows are confirmed
(`ConfirmedSound`), lest an insert make a transfer confirmed at once.

**`PoolingManagerProofs`.** `LoopsFollowStore` and `KeptPairsServed` are inductive together with
`KeptListed` (the pair of a kept entry is listed, the entry itself until a reload) and `StartSound`
(before the loops are spawned there is none; after a late start the store has no receivers, so what is
spawned later has none either). A
step of a loop takes nobody out of the tasks, ends none that has a receiver
and gives none a receiver (`LoopsKept`); a reconciliation aborts the loops of pairs that are not
listed only, so those of kept entries stay. From `Invariance`: `TypeCorrect`, `LoopsFollowStoreHolds`,
`KeptPairsServedHolds`.

**`Trc20SyncProofs`.** `FromSound`: a sync starts no later than behind the rows.
`PagesSound`: up to the newest transfer gathered, what the offset has passed is gathered.
Newest first, arrivals push the list back, so the next page overlaps the last one; oldest
first, they join at its end. So the result of the loop has no gap above its start
(`ResultSound`), and neither have the rows. From `Invariance`: `TypeCorrect`, `NoGapsHolds`,
and, with the types alone, `BookRefinement` as for the other sync.

**`EventPipelineProofs`.** An update passes from the writer (`OnItsWay`) to the broadcast
(`InChannel`), and a receiver's cursor passes it only with a look at the order. For
the end of the process `EndsInOrder`: the fan-out ends after the watcher with its channel
empty, the sender after its retry task, all after the signal, and that after the last
request. One lemma per action. From `Invariance`: `TypeCorrect`, `NoMissedUpdateHolds`,
`PoolOutlivesTasksHolds`, `ShutdownDrainsHolds`, `ReceiversOutliveSendersHolds`.

**`MergeJoinProofs`.** `Taken`: what lies before the heads is in the result, and nothing else.
`LeftOverSound`: what was left over is below the rest of the other list and equal to nothing
left over there, because lists are sorted. From `Invariance`: `TypeCorrect`, `IsPairingHolds`
(of the order book's definition, as `BookKey` relates the two comparisons), `NothingLostHolds`, `OldestFirstHolds`.

**Only model-checked:** the liveness properties (`MatchingProgresses`,
`SettledOrderRetried`, both `SyncCatchesUp`, `KeptPairPolled`, `ClientHears`,
`ShutdownCompletes`), as fairness and ENABLED are out of
the prover's reach. **Only proved:** `BookRefinement` of `Checkout` and
`HeardSettled`, and the inductive invariants, each of which can be added to its run.

## Where the code disagrees with its documentation

Shown by runs that expect a violation:

* `claim_marked_has_no_match`: "transfers older than 1 hour with no matched deposit"
  (`order_watcher.rs:305`) are those of that age and status, the ones this tick has matched
  included, as the matches are written later. They are marked as having no deposit. If the
  crediting transaction fails, nobody looks at the payment again (`order_watcher.rs:315`): this is
  the exception of `MatchingProgresses`. If it succeeds, a credited transfer is reported as
  unknown (`events/types.rs:105`; `docs/guides/webhooks.mdoc:11`).
* `claim_pinned_for_one_day`: the TRC-20 cursor should stay at an unconfirmed transfer for
  a day (`trc20_transfer.rs:53`, `blockchain_sync.rs:406`), but the view compares milliseconds with seconds
  (`create_transfer_sync_cursor_view.up.sql:55` and `64`), so it stays for ever; each sync then reads
  all pages since that transfer, until they are too many for one insert.
* `claim_pending_pair_polled`: a deposit of any pair begins the sleep of every loop anew,
  so a pair with a pending deposit is not polled while deposits of other pairs come
  faster than its interval (`pooling_manager.rs:221`; `events/types.rs:34` and `71` speak of a
  schedule of its own).

Met while modelling, consequences of the same definitions, without a run:

* a cancel that read a pending order overwrites the paid status written meanwhile
  (`cancel_order.rs:43`; `docs/reference/user-api.mdoc:127`);
* a reload at the start, after the channels are made and before the manager reads its store, gives
  every loop a sender whose receiver is gone (`shutdown.rs:67`, `pooling_manager.rs:100-105`): each
  ends at its first tick (237), a later reload finds its handle still listed and starts nothing, and no
  pair is polled until a restart, though a reload should touch "only the tasks that actually
  changed" (`pooling_manager.rs:7-8`). The second half of `KeptPairsServed` states it;
* a delivery of any status counts for all later ones: a newer status is posted once
  at most (`order_records.rs:113`; `docs/guides/webhooks.mdoc:27`);
* of two token transfers of one transaction one is dropped (`erc20_transfer.rs:135`);
* a request dropped between its change and its update leaves the sockets of that order
  waiting (`cancel_order.rs:61`; `ws.rs:20`), until any later update of the order or a lag;
* the sender stops with events in its channel (`webhook_sender.rs:104`), though the join is
  there "to finish draining" (`main.rs:155`); the retry loop finds status events again after
  the next start, reports of unknown transfers are gone;
* sockets are in no list of tasks: a stop closes the pool and ends the process under them,
  and no close frame is waited for;
* outgoing transfers, or known ones of one block, that fill the first page at the cursor
  hide all later ones (`blockchain_sync.rs:142`; `docs/quick-start/introduction.md:108`);
* a reload gives the handlers the new wallets at once, though a restart is needed before any
  runner looks at them (`shutdown.rs:54`; `docs/guides/configuration.mdoc:177`);
* the watcher's transaction turns an order cancelled during its tick into a
  paid one, though `ws.rs:34` calls cancelled final;
* a `create_payment` that read the order before its payment leaves a live
  deposit on it (`create_payment.rs:59`; `docs/reference/user-api.mdoc:111`), which
  the query of pending orders then ignores;
* two deposits of one order matched in one tick delete each other
  (`erc20_transfer.rs:296`, comment at 254);
* two orders of one amount on one wallet have deposits of one amount, though
  `order_watcher.rs:184` supposes them unique;
* marked transfers are not reported when a fault follows the mark;
* a tick of a pair without pending deposits returns before it looks at old
  transfers (`order_watcher.rs:269`), so a stray transfer is not reported
  until somebody orders on that pair (`docs/guides/webhooks.mdoc:123`);
* an order leaves the retry loop at its eleventh counted failure
  (`order_records.rs:185`), not after twelve (`docs/guides/webhooks.mdoc:41`);
* nothing sets `expired` (`docs/quick-start/introduction.md:27`), and no
  query has the "time window" of `order_watcher.rs:6`;
* the lowercase renames make `arbitrumone` and `avalanchec` of chains the
  SQL type calls `arbitrum_one` and `avalanche_c`.

## What is not modelled, and why

* The end of the sync runners, of the PoolingManager with its tick loops and of the reload
  handler at a shutdown. Runners and manager get the signal the tasks of `EventPipeline` get and
  are joined before them, without a bound on a runner's HTTP request; loops are aborted; the
  reload handler is only notified.
* Sections of the configuration other than the wallets: values that a handler reads once.
* Signatures, extractors, listings, SDK, file formats: one request at a
  time, no shared state to interleave; unit tests reach them.
* Confirmation of transfers: no code of the repository does it; its
  outcomes are external actions.
* Lengths of time (back-off, poll intervals): only their order matters
  to the properties.

## Plan

In the order of importance; 1 to 9 are done.

1. `PaymentLedger`, `OrderBook`: the order book and its refinement, proved.
2. `WebhookSender`: delivery and retry, proved.
3. `Erc20Sync`: cursor and page, proved.
4. `PoolingManager`: loops, reconciliation and reload, proved.
5. `Trc20Sync`: the page loop over a list that moves, proved.
6. `EventPipeline`: fan-out, sockets and graceful shutdown, proved.
7. `MergeJoin`: the loop of `compute_matches`, proved.
8. `Checkout`: `OrderBook` and `WebhookSender` composed over one `status`; it implements
   both, and what the merchant hears is backed, proved.
9. The assumptions of one module about another, proved where the other is modelled: both syncs
   implement the book's transfer table, the merge join its pairing.

What is left: that `EventPipeline`'s handlers, watcher and fan-out are those of `Checkout`, by
a mapping that forgets the sockets; a promise about the wallets of deposits across a reload,
over `PoolingManager` and `OrderBook`.
