# A verification of the live auction backend

TLA+ models of the backend under `src/`, the TLC runs that check them, and
machine-checked proofs about them. Paths below are relative to `src/`.

The backend sells items in live-streaming rooms. Every pod runs the same Go
program. MySQL is the durable store, Redis holds the hot state of the auctions
on sale and executes bids in Lua scripts, and a second, local Redis stands in
when the cloud Redis is down. Clients bid over HTTP and follow over WebSocket.

## 1. Inventory

| Component | State | Operations | Interacts with |
|---|---|---|---|
| Hot auction (`internal/app/item/cache`) | Redis: `auction:item:{id}:state`, `:ranking`, `:idempotency:{key}`, `auction:ending` | init, bid script, settlement script, schedule, expire, delete | bid handler, settlement crons, start, cancel, bid log |
| Bid handler (`item/service/bid_service.go`) | none of its own | PlaceBid: guards, config, deposit check, script, cap path | Redis, deposit, order, broadcaster |
| Item lifecycle (`item/service/service.go`, `item/dao`) | MySQL `auction_items`, `auction_rules`, a room's `current_item_id` | create, update, publish, delete, start, cancel, settle, end expired | Redis, order, deposit, room |
| Bid log (`bid_log_stream.go`, `bid_log_worker.go`, `dao/bid_log.go`) | a Redis stream with its consumer group, dead letters, MySQL `bid_logs` | append, read, claim, insert, acknowledge, dead-letter, drain check | bid script, rebuild, failback |
| Deposit | MySQL `deposits`, Redis markers of paid deposits | pay, check, refund, forfeit | bid handler, settlement, order |
| Order, payment | MySQL `orders` | create, pay, cancel, expiry scan, compensation scan | settlement, deposit |
| Availability (`internal/core/availability`, `failback.go`, `availability_rebuild.go`) | per pod: active Redis, failback flag, time the cloud went down | probe and decide, rebuild from the log, fail back | everything on Redis |
| Ranking reads and rebuild | the ranking, a rebuild lock, a cooldown | read, rebuild | bid script |
| Bid broadcast (`bid_broadcast.go`) | per pod: the latest bid of each item, not yet published | enqueue, flush by timer, flush at the end | bid handler, bus |
| WebSocket hub and bus | per pod: connections, users, rooms, three lanes per connection; Redis pub/sub; tickets | register, remove, send, join, leave, publish, subscribe | every broadcaster |
| Room | MySQL `rooms`, Redis presence and queue | activate, start, end, current item, presence | item, hub |
| Crons and leases | Redis SETNX leases with a time to live | acquire, run | item (1 s and 1 min), order (5 and 10 min) |
| User, base, observability, configuration | rows and counters | single reads and writes | - |

What is hard about it:

- **No locks.** Handlers read a row, decide, and then perform a sequence of
  MySQL and Redis commands, any of which may fail or be the last before a
  crash. GORM's `Save` writes every column, so the status a handler decided on
  goes over whatever was stored since.
- **Two stores** hold one item: Redis is right about bids, MySQL about
  everything else, and the two agree only in the end.
- **Several pods** run every cron; leases make overlap rare, not impossible.
- **Time** is read by handlers before the atomic script runs, in two units.
- **At-least-once** delivery of the bid log, with claims of idle batches.
- **Failover** is decided per pod, and the rebuild of a lost state trusts the
  log in MySQL.
- **Events** are published after the fact, by whoever changed the auction, and
  coalesced; they reach a browser through a Redis channel, one goroutine of each
  pod and the queues of a connection, none of which waits for anybody.

What makes each component correct: a hot auction is an ascending auction that
closes once, with one winner, and its log tells all there is to know; an item
that was put on sale is settled, with one order for one winner; no accepted bid
is lost between Redis and MySQL; a deposit goes where the order says; pods return
to the cloud Redis with nothing forgotten; the room hears of every bid once and
of the end, however slow its viewers are. The hazards, each with its line and its properties, are in `PROJECT.json`.

## 2. Modules

| Module | Models | Composes / is used by |
|---|---|---|
| `EnglishAuction` | what the hot auction promises: opens once, ascending bids, one sale to the last bidder | abstract specification |
| `HotAuction` | one item's hot state and everything that writes it | implements `EnglishAuction` |
| `HotAuctionProofs` | theorems about `HotAuction` | |
| `ItemLifecycle` | one item across MySQL and Redis, handler by handler, command by command | bids and claims abstracted from `HotAuction` |
| `DurableLog` | what becomes of an accepted bid: queued until it is kept, kept for good | abstract specification |
| `BidLogPipeline` | the bid log of one Redis, its workers and the drain check | fed by `HotAuction`'s stream entries; implements `DurableLog` |
| `BidLogPipelineProofs` | theorems about `BidLogPipeline` | |
| `ItemLifecycleProofs` | theorems about `ItemLifecycle` | |
| `AfterSale` | deposits, the order, and what becomes of the deposits | takes the result that `ItemLifecycle` persists: the leader, or nobody |
| `AfterSaleProofs` | theorems about `AfterSale` | |
| `Authority` | which Redis each pod writes to | |
| `Failover` | one running auction on two Redises: rebuild, prewarm, workers, settlement | extends `Authority`; hash and stream reduced from `HotAuction` and `BidLogPipeline`; implements `DurableLog` |
| `FailoverProofs` | theorems about `Failover` | |
| `RoomFeed` | what a room is told: each bid at most once, no end before the end | abstract specification |
| `BidFeed` | what an auction publishes, by whom and in which order | takes accepted bids and ends from `HotAuction`; implements `RoomFeed` |
| `BidFeedProofs` | theorems about `BidFeed` | |
| `WsHub` | how one pod's connections get it | receives what `BidFeed` publishes |
| `WsHubProofs` | theorems about `WsHub`: connections and lanes | |
| `WsHubDeliveryProofs` | theorems about `WsHub`: what was accepted arrives | extends `WsHubProofs` |

Each `MC` module holds the instance's symmetry set and constants for TLC. An
operator named `Mut_...` stands before the definition it is a wrong variant of;
no specification uses it. Replacing the definition by it must break the
property `PROJECT.json` names, which shows that the property depends on it.

### HotAuction

A Lua script runs alone in Redis, so it is one action. What surrounds the
scripts is not atomic and is cut there: a bid handler reads its clock
(`BidReadsClock`), then its script runs (`PlaceBidAccepted`,
`PlaceBidAnswered`); a settlement pass lists due items with the time it captured
(`ListDueAuctionEnds`, or `ListOngoingPastEnd` for the fallback cron) and later
runs the script with that time (`SettleAuctionLua`); start, its rollback, cancel
and clean-up are sequences (`InitAuctionState`, `ScheduleAuctionEnd`,
`UnscheduleAuctionEnd`, `DeleteAuctionState`, `Cleanup...`). The script's floored
clock is `NowMS`. `claims` records the replies that told a caller "you ended this
auction": it is not state of the program but lets the properties speak of who
was told what. An item is started once here; `ItemLifecycle` has double starts.
`RuleAssumption` asks for a start price above 0, which the code does not
(`service.go:650`): with a price of 0 every read of a live auction without bids
takes its hash for unusable and writes it anew, and a lost hash is written anew
at any price. Both rebuilds are in `ItemLifecycle` and `Failover`, so what is said
of the hash here holds of an auction whose hash is not rebuilt.

The refinement maps the log to the accepted bids, the claims to the sale, and
the owner's progress and the status to the phase. Under the fairness given,
`English!Spec` includes that an open auction closes.

### ItemLifecycle

`row`, `order`, `refunded` are MySQL; `hash`, `expiring`, `scheduled` are Redis. A
handler at work is a job in a slot, and `job[s].at` names the next command: one
action per command, one more where its failure takes another path, and `Crash`
ends any job where it stands. Commands whose error the code discards may or may
not take effect (`MayBecome`). `StartDueAuctions` makes the same request as the
merchant's start. A bid is its place in the order of acceptance. The clock has
three readings: before the rule's end, after it, and after any extension too.

A read or a bid of an ongoing item whose hash is missing, protected, or without a
price (`FreeStart` is a start price of 0) rebuilds it: `ViewBegins` is
`auctionStateForRead`, `ReadLog` the read of row and bid log, which holds any part
of the accepted bids, `RewriteHash` the unconditional `InitAuctionState`,
`DeclareReady` the commands after it, and `Protect` what an error or a row that is
no longer ongoing leads to. Setting the authority of a hash that is gone makes one
with nothing else in it, which is "bare". `rebuilt`, not state of the program,
records that a rebuild has written the hash.

### BidLogPipeline

`drainOnce` is cut at its commands: claim what has been idle (`ReadPending`), else
read what is new (`Read`), dead-letter what cannot be parsed, message by message,
insert the batch (`Insert`, which skips rows that exist), acknowledge it (`Ack`).
`Fails` abandons a batch at any of them, as every error return, a crash, or a
restart does. `GrowsStale` makes a pending entry claimable, even while the worker
that took it is still busy with it. `Drained` is the check the failback makes.
The refinement into `DurableLog` takes an entry to be queued until it is both
delivered and acknowledged, and kept once it has a row or is a dead letter.
`Failover` implements the same specification with both streams as its queue.

### AfterSale

The item is reduced to its phase, the leader of its bids and the deposit its rule
asks for, which may be 0: then nobody is asked. Deposits and the order are rows that
change by compare-and-set, except in `SaveDeposit`. A handler that persists the end
carries the leader (`Settle`; `OneWinner` of `ItemLifecycle` is why there is one) or,
where the fallback finds no hash, nobody (`SettleBlind`): it saves no winner, makes
no order and refunds everybody. Both may happen to one item, in either order and
more than once, because handlers overlap and a start that saves its row last makes
an ended row ongoing again. `blind` records that the second has happened and is not
state of the program. Not here are two leaders, which only a second start or a
rebuild from a log that lags behind could give.

### Authority and Failover

`Refresh` is a pod's probe loop: `Decided` computes the new snapshot from the
probes and the private fields of the runtime, as `Refresh` does under its mutex.
The three seconds before a failover are its parameter `late`. Dependencies fail
and recover for all pods at once; the documents rule out partitions.

`Failover` sends every command to the Redis that is active when it is sent
(`Target`, `Arrives`), so a rebuild on demand that straddles a switch writes half
its commands elsewhere. Steps: `DemandStarts` or `PrewarmStarts` (the snapshot,
the first drain check, the list of items), `RebuildReads` (item and log, both from
MySQL), `RebuildWrites` (the hash), `RebuildFinishes` (schedule, room, authority),
`RebuildProtects` on an error, `PrewarmMarks` (the second drain check and the
flag). A hash is missing, bare (nothing but its authority), filled (with the
fields `FillHotFields` writes, among which is no status), ongoing or ended; the bid
script takes a missing status for an open one. `usable` excludes protected
hashes and those with the price 0. Commands that touch one store without a property that could tell are
together, as listed. The bid log has one entry per bid and the highest price of
the log leads, which is what `verifyBidLogContinuity` selects; its sequence
checks cannot fail here, where no row is lost or damaged.

### BidFeed

A request, a cron's run or a timer's callback is a task with a list of orders
still to carry out, so tasks overtake each other between any two of them. An
accepted bid or a settlement creates its orders in the order the handler has
them. `pending` is the map of coalesced bids, whose entry carries the set of bids
it stands for: the code only counts them. `forgotten` and `silenced` record what
died with a pod or was lost on its way to Redis, and are not state of the program.

### WsHub

One pod. `Dispatches` copies the recipients under the hub's lock, then
`Delivers` or `EnqueuesTimeSync` serves them one by one, while `Registers`
replaces connections. A connection that is given up is taken out of the room first
(`Leaves`) and closed in a second step (`Closes`); what it still has queued is not
followed. The snapshot is read from Redis or, if that fails or has no hash, from
the row in MySQL, which may still say ongoing (`ReadsSnapshot`); a capping bid
with MySQL down announces the end before the row has it, so `ended` asks for an
announcement made after `SavesEnd`. Connections are numbered in the order of
their registration, which only names them. The write loop is cut at its channel
operations: `WriterLooks` (urgent queue, time slot, deferred event),
`WriterSelects` (the select, which may take any ready channel) and `Writes`.
`behind`, `seen` and `shown` observe what was written. The end may be published more
than once, and `sub.wakes` holds the connection that was given a time_sync and is
still to be woken. The users index changes
with the rooms under one lock and is not separate.

## 3. Runs

| Run | Shows | Bounds |
|---|---|---|
| `hot_auction_safety` | consistency of log, hash, ranking, schedule and claim under interleavings | 2 users, 1 key, 2 prices (one at the cap), 2 bids and 2 passes in flight, clock 0..5 with 2 ms to the second |
| `hot_auction_refinement` | `HotAuction` implements `EnglishAuction`, liveness included; the ranking | 2 users, 3 prices, so up to 3 bids, 1 bid and 1 pass in flight |
| `lifecycle_merchant` | row and snapshot agree; one winner; the buyer keeps the deposit; only a rebuild undoes Redis's end | 2 handlers at a time, 2 bids, every kind of request and a rebuild once each, start price 0 |
| `lifecycle_settlement` | an ongoing item is settled, a winner gets an order | 2 handlers, 1 bid, one sale, one rebuild, all failures and crashes |
| `lifecycle_double_start` | finding: a second start wipes out bids | two starts |
| `lifecycle_rebuild` | finding: a rebuild overwrites a ready hash and its bids | one start, two rebuilds |
| `bid_log` | the stream implements `DurableLog`: nothing is acknowledged unwritten; every bid is kept; the drain check is right | 2 workers, 3 entries (the second malformed), batches of 2 |
| `after_sale` | deposits follow the order; decided orders stay; receipts are honest | 2 bidders, 2 handlers, amounts 0 to 2 |
| `failover` | bids are in the log or in their stream; the pod gets back to the cloud Redis | 1 pod, 1 bid, 1 rebuild or settlement in flight, one outage of the cloud Redis and of MySQL each, one restart |
| `failover_winner` | finding: a winner of the local Redis is overwritten | 1 pod, 1 bid, one outage |
| `bid_feed` | each bid is announced once; the end is announced | 2 pods, 2 tasks, 2 users, 2 bids, 1 fault |
| `ws_hub` | one connection per user and stream; urgent first; nothing accepted is left unwritten; viewers see the end | 2 connections, the second of which replaces the first, queues of 2 and 1, 2 events of any type, and the end |

Why these are enough. In `HotAuction` a race is between at most two bids, two
passes, or a bid and a pass, and the interesting instants are before the trigger
window, inside it, in the end's own second, and after it: two milliseconds to
the second and an end in mid-second give each its instant, and a policy whose
time budget runs out before its count tells the two limits apart. What three
bids add is the refinement run's question. The theorems then remove the bounds.
Two handlers at a time cover every race of the other two modules between two
actors; `ItemLifecycle` needs two bids to tell the winner from a loser and from an
earlier leader. Three entries are a full batch and a remainder, with the
malformed message in a batch with others, first or last. Two amounts let a
deposit be paid, become too small, and be paid again. A start price of 0 lets a
rebuild begin with the hash in use, beside all the ways it can be missing. One bid
is enough for `Failover`: what matters is on which side of each command it falls,
and a second outage would find the state that a first one and a restart can leave.
The start price is 1 in its runs; with a price of 0, where a live hash is rebuilt by
every read until the first bid, TLC finds the same properties to hold (one bid,
1.2 million states, four minutes). Two bids
share an entry of `BidFeed` or follow each other; one fault hits any single step.
In `WsHub` two ordinary events and an urgent one are what the lanes need to be
told apart; the snapshot, a notice and the end fill the urgent queue, two bids or
a bid and a pong the ordinary one.

Every bound is a constant with `\* bound` beside it. Deadlock is checked in
`bid_log` and `after_sale`; elsewhere a finished auction or item, or a room with
nothing left to say, is the end of the story.

### Assumptions of the models

- `ItemLifecycle`: the clock stands still while a start is at work (a start takes
  milliseconds, an auction minutes), and the final snapshot, kept 24 hours,
  expires only when no handler is at work.
- `RowAgreesWithSnapshot`, `OneWinner`, `BuyerKeepsDeposit` are about items
  started once, until a rebuild writes the hash (`~rebuilt`): a rebuild writes what
  it read earlier, so that from then on hash, row and order may contradict each
  other. `lifecycle_double_start` and `lifecycle_rebuild` show what happens
  otherwise; `OngoingIsSettled` and `WinnerGetsOrder` hold with the rebuild, and
  `EndedIsFinal` says that it alone is to blame.
- A bid on a bare hash is left out of `ItemLifecycle`: the script would take it, but
  such a hash is ready only when a rebuild has lost the one it had just written.
  `Failover` has such bids.
- `DepositFollowsOrder` and `LeaderHasPaid` except what a settlement without the hash
  does (`blind`) and items for which no deposit is asked; the first is in section 5.
- A soft-deleted row is revived by `Save`, as GORM does when its update finds no
  row.
- `Failover`: a Redis that is unreachable keeps its data, and all pods reach or
  miss a dependency together.
- `EndIsAnnounced` ends with the saved row: once MySQL has the end no cron lists
  the item, and a handler cut short then leaves the end unannounced (`silenced`).

### Fairness

- `HotAuction`: time passes; a start and a cancellation that have begun go on;
  some pod's one-second cron keeps settling. Bids, cancellations and clean-ups
  are never forced.
- `ItemLifecycle`: handlers go on (weak fairness) but may crash or fail at any
  command; the fallback and compensation crons fire for ever and each of their
  commands, tried again and again, succeeds some time (strong fairness of the
  command, over all slots). The code's tickers justify the first, errors that pass
  the second. Settlement is not paused for ever by the availability state.
- `BidLogPipeline`: the worker's ticker keeps it going, pending entries grow
  stale, and a command that is tried again and again succeeds some time. A row
  that MySQL refuses for good is outside this assumption.
- `Failover`: each pod's probe loop, prewarm loop and bid log worker run for ever,
  as their tickers and loops do; nothing forces a bid, a rebuild on demand or a
  settlement. `BackToCloud` asks that all dependencies answer for good from some
  moment on.
- `BidFeed`: goroutines that can run do, a timer that was set fires, and the
  fallback cron comes back. Faults are never forced.
- `WsHub`: the subscriber, registrations, write loops and closings go on. A write
  ends or fails by its deadline, and no enqueue blocks. Events and disconnections are
  never forced.

## 4. Proofs

Proved with TLAPS: type correctness of every module that is a system, every
safety invariant and action property the passing runs check, further ones that
are only proved, and that four modules implement the safety part of an abstract
specification, for all values of the constants that meet the assumptions
named in the modules. These are what the code validates (`RuleAssumption`,
`PolicyAssumption`), what a set of pods, requests, slots or connections is
(finite where the bag of handlers is modelled by slots, not empty where one must
be chosen, no member that is also a marker), and that bounds are numbers. The
theorems are about `SafeSpec`, the specification without its fairness, and so
hold of `Spec`.

`HotAuctionProofs`: type correctness, every invariant and action property the
two hot-auction runs check, and that `HotAuction` implements the safety part of
`EnglishAuction`. `IInv` is the conjunction of the invariants with two more facts:
`NothingBeforeStart` (before the start there is no log, claim or ranking) and
`CleanupFollowsClaim` (clean-up begins with a claim). Neither is dispensable:
without the first, a start could reset the hash under a non-empty log; without
the second, the snapshot of an open auction could expire. `StepKinds` reduces a
step to one of four kinds (start, accepted bid, claim, nothing that matters), so
each preservation proof has a case per kind. `AntiSnipe` and `LateByLessThanASecond`
rest on a lemma about `NowMS`: it is at most the time of the bid, and less than a
second behind it. Two more invariants follow or need one more step:
`WinnerTopsRanking` (the hash, the ranking and the reply that ended the auction
agree on the winner), from the lemma that the last bid of the log is the best
one, and `OnlyLastReachesCap`, whose step is that a bid needs an open hash and
`EndIsJustified` leaves none open after the cap.

`BidLogPipelineProofs`: type correctness, `AckedIsKept`, `DeadAreMalformed` and
`DrainedIsComplete`. The strengthening is `BatchesAreReady`: what a worker is about
to acknowledge is in `logs`, and what it is about to insert holds nothing
malformed. `ImplementsDurableLogHolds` gives each step of the workers its abstract
one: an insert keeps what it inserts, an acknowledgement takes from the queue what
is kept already, which is again `BatchesAreReady`. `NothingIsLost`, an invariant of
`DurableLog`, is carried over. The count of entries that `Read` hands out is the length of an
interval (`OldestOfInterval`), from the library's facts on cardinality.

`ItemLifecycleProofs`: type correctness without a condition, and
`RowAgreesWithSnapshot`, `OneWinner` and `BuyerKeepsDeposit` for an item started at
most once (`StartedOnce`, a hypothesis of each theorem; `lifecycle_double_start`
shows that it is needed) and, as the properties say themselves, until a rebuild
writes its hash. Rebuilds may begin, read and protect at any time before that. With
one start the hash is then made once and never reopens. `IInv` rests on that: until the start nothing has begun that finishes an item
(`NothingYet`); a handler that was told the outcome was told it after the end, and
told the leader of the final snapshot (`Knows`); and there is one `w` that the row,
the order, every handler at work and the ended hash agree on, nobody as long as the
auction runs (`Names`). `OneWinner` alone is not inductive: a handler that still
carries another winner would break it with its next command. `Moves` says what a
step of a handler may do, so that the invariant is preserved once and each
command only shown to be such a step. From the same invariant:
`OrderIsForTheLeader`. `EndedIsFinal` and `OnlyRebuildsForget` need no more than the
part of it that survives a rebuild (and, the second, that no hash or reader names a
bid before it is accepted), and hold before and after one: the first says
that Redis's end is undone by a rebuild's write only, the second that an accepted
bid is. With the two findings they delimit what is wrong: a second start, which
`StartedOnce` excludes, and `RewriteHash`, which they name.

`AfterSaleProofs`: type correctness, `DepositFollowsOrder`, `LeaderHasPaid`,
`ReceiptMeansPaid` and `DecidedOrderStays`. The strengthening is what each request
learned with earlier commands and still relies on (`Knows`): a payment, a
cancellation or an expiry that goes on to the deposit has decided the order its
own way, a settlement acts for the leader unless it missed the hash. `Forward` lists what no step takes back
and carries every request's knowledge over the steps of the others.
`DepositTakenForCause` is the converse of `DepositFollowsOrder`: what a settled
deposit says about the auction and the order. What a settlement without the hash
refunds is excepted in each of these (`blind`), and so is an item without a deposit;
that nothing is forfeited but by the buyer of a lapsed order holds with it as well.

`FailoverProofs`: type correctness and `KeptSomewhere`. The strengthening is
`WorkersKnow`: a worker that is about to acknowledge a batch has it in the log, so
that the acknowledgement may drop it from the stream. That the two streams
together implement `DurableLog` rests on it as well: a failback, a restart or a
rebuild changes neither what is queued nor what is kept.

`BidFeedProofs`: type correctness and `EachBidAnnouncedOnce`. Every accepted bid is
announced, forgotten with a pod that died, pending on one pod, or held by one task
(`Accounted`), and nowhere twice (`Apart`). That a task holds bids with its first
order only (`Plan`) is what makes this inductive: an order further down that held
some would announce them again when its turn came. `ImplementsRoomFeedHolds` maps
the bids that events stood for, those that died with a pod, and the announced end;
it uses `Apart` for "at most once" and `EndIsNotEarly` for the end. `EndIsOwed` is
the safety half of `EndIsAnnounced`: after the row is saved nobody will come back
to announce the end, so that somebody must still have it to do.

`WsHubProofs`: type correctness, `OneConnectionPerStream` and `UrgentFirst`. `Good`
says of one connection how full its lanes are and when it may be behind, `Seats`
that a replaced connection has left the hub before its successor closes it, and one
that is given up before it closes.
`UrgentFirst` needs more than its count: a connection that is already behind by
one is either writing an urgent frame or about to take one.

`WsHubDeliveryProofs`: the safety halves of the three liveness properties of
`ws_hub`. `NoLostWakeup` needs to know of the subscriber whom it still has to wake;
`HeldBidStays` follows a bid from lane to lane and needs the writer to come to its
select with empty hands; `EndIsOnItsWay` is the hard one. `Coming` says what it
rests on: only a snapshot speaks of an ongoing auction, it is read when the
connection is registered already and, since it may come from the row, before the
row is saved, and the end is published after that; so the dispatch of the end finds
that connection unless it has left or been replaced.

Only model-checked: liveness, out of the prover's reach (the closing of
`ImplementsEnglishAuction`, `OngoingIsSettled`, `WinnerGetsOrder`, `EveryBidIsKept`,
`BackToCloud`, `EveryBidIsAnnounced`, `EndIsAnnounced`, `EndReachesViewers`,
`QueuedBidIsWritten`, `TimeSyncIsWritten`), and in the refinements the fairness of
the abstract specifications. The other way about, these are proved and belong to
no run: `PricesAscend`, `ExtensionBudget`, `WinnerTopsRanking`, `OnlyLastReachesCap`,
`AckedIsKept` (`ImplementsDurableLog` of `bid_log` says more), `DeadAreMalformed`,
`OrderIsForTheLeader`, `OnlyRebuildsForget`, `DepositTakenForCause`, `EndIsOwed`,
`NoLostWakeup`, `HeldBidStays`, `EndIsOnItsWay`, and the refinements of `Failover` and
`BidFeed`. Each was true in TLC, with the bounds of its module's runs, before it
was proved.

## 5. Findings

Three statements of the documents the code does not keep have a run that shows it:
a second start that resets a running auction (`lifecycle_double_start`), a rebuild
that writes over a ready hash and the bids it has taken (`lifecycle_rebuild`), and an
auction won on the local Redis that is settled once more, from stale state, after
the failback (`failover_winner`). The quotes are in `PROJECT.json`.

One property that passes is wanted by some documents and forbidden by another.
`BackToCloud` says that a pod returns to the cloud Redis by itself when everything
answers again, an auction being on or not:
`docs/superpowers/specs/2026-06-09-in-process-availability-controller-design.md:80`
and `2026-06-09-local-authority-failover-design.md:418` (with conditions the code
keeps in part) describe such a way back, and it is what `failback.go` and
`authority.go` are written for. `2026-06-09-in-process-dependency-degradation-design.md:73`
says "do not automatically switch active auctions back to cloud Redis": the local
one was to stay in use until they end or an operator switches. The code does not
keep that sentence, and the pass of `BackToCloud` is evidence of it, not against it;
the loss it warns of is what `failover_winner` shows.

Four more were found the same way and are kept here as facts about the code:

- The bid script floors the bid's time to the second (`item/cache/bid.go:44`) and
  so accepts bids up to 999 ms after the end; the countdown design, line 102,
  wants them rejected from the end's own millisecond on. How late they can be is
  `LateByLessThanASecond`.
- `CancelItem` and `persistSettledAuction` save the row they read
  (`service.go:909`): overlapping, they leave a cancelled item with an order, where
  `docs/5-21.md:1657` wants none.
- When the last command of a start fails, the hash is deleted with the bids it
  took (`service.go:545`) while the row stays ongoing. Either a read or a bid
  rebuilds it, from a log that may lag behind, or the fallback finds none and ends
  the item without a winner (`service.go:704`), where `docs/5-21.md:1467` wants an
  order for the highest bidder. It then refunds everybody (`service.go:963`), also
  the buyer of an order that another handler made before, where the closure design,
  line 102, has the deposit stay paid until the order is decided; and if a rebuild
  comes between, the row is ended while the new hash takes bids.
- `PayDeposit` saves the row it read over a refund (`deposit/service.go:85`), where
  the closure design, line 140, has "`refunded` stays `refunded`".

And some that no document speaks about: a coalesced bid event carries the later
*arrival*, which need not be the later bid; a snapshot read before the end can be
written after `auction_ended` with the same version; a rebuilt hash has the rule's
end, not the extended one, and no extensions counted; the capping bid's handler
gives up when the room cannot be cleared, after the ended row is saved, so that the
end is not announced.

## 6. Plan

Done, in the order of importance: the hot auction and its refinement, the item's
lifecycle, the bid log, the after-sale, failover, the feed of events, the hub.

Done as well: every invariant and action property of the passing runs is proved,
and the safety halves of the liveness properties of the feed and the hub.

What could come next: for `Failover`, under which order of outage, settlement and
failback a winner of the local Redis is kept (`LocalWinnerStays` fails without
one); for the item, that the safety half of `WinnerGetsOrder` holds step by step; a
lifecycle of an item that is started twice, or rebuilt under way, once the code
refuses the second start and writes a rebuilt hash conditionally, which would lift
`StartedOnce` and `~rebuilt` from the theorems of `ItemLifecycleProofs`; and
the room and the ranking's rebuild, when the code promises something about them.

## 7. Not modelled

- User accounts and authentication (single-row operations), health checks and
  uploads (input and output), observability, configuration, middleware, utilities
  and generated API documentation: no state the auction depends on.
- `docs/agent-testing`, more than half of the repository's lines of Go: programs
  that put load on a server and measure it. They are not part of it.
- Room: `StartRoom` and `EndRoom` save a row read earlier and a start overwrites
  the room's current item; there is no promise about it that the code keeps.
- The ranking's rebuild: it deletes and refills from a log that lags behind. What
  it shows meanwhile is promised nowhere.
- Leases of crons: a SETNX that runs out. Every module lets the runs of a cron
  overlap, so nothing depends on them.
- Presence (documented as best effort), tickets (one SET, one GETDEL), and within
  the modelled components the detail cache, the room queue, the refusal of bids
  after ten seconds without MySQL, listings and formatting.
