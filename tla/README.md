# Usta.uz backend: a verification project

The backend under `src/` (TypeScript, Express, Socket.IO, MongoDB through Mongoose,
Redis, BullMQ) connects clients who post repair jobs with pros who take them for a
fee. This directory holds TLA+ models of its core, TLC configurations that check
them on small instances, and theorems about them checked by TLAPS. Paths such as
`modules/order/order.service.ts` are relative to the repository's `src/` directory.

## 1. The system

Several Node.js processes serve HTTP requests and sockets; the same or other processes
run BullMQ workers. They share one MongoDB (usually a replica set, so with
transactions) and one Redis. A process is single-threaded, but every `await` lets other
handlers run, and nothing but MongoDB and Redis orders the handlers of different
processes. So the unit of atomicity is **one MongoDB or Redis command**, or one
MongoDB transaction; Node's own event loop adds nothing the models rely on.

| Component | State | Operations | Talks to |
|---|---|---|---|
| orders (`modules/order`) | `Order`: status, pro, offers, rating flag | create, cancel, complete, list | starts and aborts matching; chat; profile counters |
| matching (`modules/matching`) | Redis: candidate queue, outstanding offer, pro's reservation, advance lock | start, offer next, pass, expire, accept, abort | orders, wallet, chat, job queue, sockets, notifications |
| job queue (`jobs`) | delayed offer timeouts, push jobs | schedule, cancel, work | matching, push |
| wallet (`modules/wallet`) | `User.balance`, ledger of `Transaction` | top-up, provider callbacks, refund | Payme, Click, notifications |
| admin (`modules/admin`) | audit log, broadcasts | adjust balance, cancel and refund, block, moderate, broadcast | wallet, orders, matching, auth |
| accounts (`modules/user`, `modules/auth`) | `User`, `MasterProfile`, refresh tokens, presence | register, log in, refresh, delete, go online/offline | wallet bonus, sockets |
| chat (`modules/chat`) | `Chat` (unread counts, preview, closed), `Message` | send, mark read | orders open, close and reopen it |
| reviews (`modules/review`) | `Review`, ratings on profiles and products | rate, recompute, hide | orders (`isRated`), admin |
| products and purchases (`modules/product`) | stock, sold count, `Purchase` status | buy, accept, complete, cancel | accounts |
| read-through cache (`common/utils/cache.ts`) | Redis values, in-flight loads per process | read, invalidate | dashboards, catalogues |
| maintenance (`common/utils/resetRedis.ts`) | a marker in Redis | reset once per token | server start |
| notifications, push, sockets, SMS | inbox, tokens | deliver, best effort | everyone; failures are swallowed |
| traffic, statistics, assistant, media | counters; none | count, aggregate, proxy, upload | - |

### What is hard in it

* **Interleaving.** Two pros accept one job; a pro accepts while the client cancels;
  a pass meets the timeout of the same offer; two searches reach for the same pro; two
  deliveries of a payment callback overlap.
* **Ordering.** `createOrder` does not await `startMatching`, so a cancellation can
  overtake the search it is meant to stop.
* **Partial failure and crashes.** The accept is one transaction on a replica set and a
  chain of commands on a standalone server; a top-up is always a chain; a worker may
  die after it recorded a timeout.
* **Time.** Offers last 45 seconds, their Redis keys 55, the advance lock 60 with
  renewal; a timeout job may be late.

`PROJECT.json` lists each hazard with its line and the properties that cover it.

### What makes each component correct

* orders and matching: a job goes to one pro, who is charged exactly its fee; nothing
  overwrites a later state with an earlier decision; one pro rings for one job at a
  time; an answer is final; a search ends; a reservation ends; when nothing is in
  flight, chat, counters and queue agree with the order.
* wallet: a balance equals its ledger and is never negative; a callback or a refund moves the
  money once, and a payment called cancelled is not credited, unless a call died half-way or
  overlapped another.
* purchases: stock is conserved; a repeated request is one purchase.
* accounts: a client has one job waiting at a time, posted from an account that is usable
  at that moment; no request keeps an account to itself.
* sessions: what was signed before a sign-out everywhere is refused after it; a reset code
  survives a fixed number of guesses.
* chat: every unread message is in the badge, or was lost to a save that overlapped another; a
  closed chat is not opened by a save.
* reviews: the rating shown is the rating of the visible reviews.
* broadcast: everyone in the audience is notified once.
* notifications: a push ends, and is called sent only when every device's service was asked.
* presence: a pro whose last device has gone is offline, but where a connection's write landed
  after it had gone, or a write failed.
* cache: a value older than an invalidation is not stored after it.
* starting and stopping: the maintenance deletes nothing that is being served.
* lists and figures: no row falls between two pages; a bar of the chart is a day.

## 2. Modules

| Module | Models | Kind |
|---|---|---|
| `JobLifecycle` | what a client and a pro are promised about a job | abstract specification |
| `Matching` | orders, matching, the offer-timeout job | detailed model, implements `JobLifecycle` |
| `MatchingProofs` | theorems about `Matching`: types, fees, lifecycle, offers, what a job leaves behind | proofs |
| `MCMatching` | instances of `Matching` | model checking |
| `Wallet` | top-ups, callbacks, fees, refunds, corrections | detailed model |
| `WalletProofs` | theorems about `Wallet` | proofs |
| `SumTheorems` | induction over finite sets, and sums over them | lemmas |
| `MCWallet` | instances of `Wallet` | model checking |
| `Inventory` | what buyers and sellers are promised about goods | abstract specification |
| `Shop` | purchases, edits, deletions and moderation of products | detailed model, implements `Inventory` |
| `ShopProofs` | theorems about `Shop` | proofs |
| `MCShop` | instances of `Shop` | model checking |
| `Broadcast` | announcements sent in batches by competing workers | detailed model |
| `BroadcastProofs` | theorems about `Broadcast` | proofs |
| `MCBroadcast` | an instance of `Broadcast` | model checking |
| `Accounts` | registration, sign-in, posting, deletion, blocking | detailed model |
| `AccountsProofs` | theorems about `Accounts` | proofs |
| `Push` | notifications, devices, the push worker | detailed model |
| `MCAccounts` | an instance of `Accounts` and one of `Push` | model checking |
| `Chat` | messages, the badge, closing and reopening | detailed model |
| `Reviews` | reviews, moderation, ratings | detailed model |
| `Presence` | a pro's devices and the marks that they are online | detailed model |
| `Traffic` | the read-through cache under the traffic report | detailed model |
| `Server` | start, maintenance, cluster, shutdown | detailed model |
| `Tokens` | token pairs, sign-out, reset codes | detailed model |
| `Candidates` | whom a search reaches, the feed, the best pros | queries over changing profiles |
| `Stats` | the dashboard's figures | queries over changing records |
| `Paging` | every list read page by page | queries over a changing list |
| `Phone` | numbers, and what the code makes of them | functions |
| `ServicesProofs` | theorems about `Server`, `Reviews`, `Tokens`, `Presence`, `Traffic`, `Chat`, `Push` | proofs |
| `MCServices` | an instance of each module from `Chat` to `Phone` | model checking |
| `MCServicesProofs` | theorems about `Candidates`, `Stats`, `Paging`, `Phone`, and about the components side by side | proofs |

### Matching

Each in-flight HTTP handler or worker slot is a process of `Procs`, with a `task`
record: `pc` is the await it stands at, the other fields are the local variables it
carries across awaits (the order as it was read, the offer's owner, the candidates
found). Every action is one command and names the function it is cut from:

* `CreateOrder` (the transaction; `InsertOrder` is its second half on a standalone
  server), `BuildCandidates`, `EnqueueCandidates` - `createOrder`, `startMatching`;
* `AcquireLock` ... `ReleaseLock` - `offerNext` and `offerNextUnlocked`, one action per
  command, with `ReadForUndo` and `UndoOffer` for the `catch` that clears the offer;
* `PassOffer`, `ExpireOffer`, `RecordAnswer`, `ReadForClear`, `ClearAnswered` - the two
  ways an offer is answered without taking the job, which then re-enter `offerNext`;
* `AcceptOffer`, then `ChargeAndAssign` (one transaction) or `Debit`, `Assign`,
  `Recredit`, `MarkOffer`, `RecordFee`, `OpenChat` (standalone), then `DropQueue` and the
  clearing of the offer;
* `CancelOrder`, `CancelWrite`, `AbortRead`, `AbortDrop`, `Penalise`, `CloseChat` -
  `cancelOrder` of a client, of the pro, and of an admin, with `abortMatching`;
* `CompleteOrder`, `CreditCompletion`, `ReopenChat` - `completeOrder`;
* `OfferWindowCloses`, `OfferKeyExpires`, `ReservationExpires`, `QueueKeyExpires`,
  `LockExpires` - time; `Crash` - a process dies and its tasks with it.

Time is abstracted to order: an offer is `fresh` until its 45 seconds pass, its key
disappears some time later. What is normally ruled out by the distances between
these periods is a named fault of `AllFaults` that a configuration switches on:
`lateWorker` (the timeout job runs after the Redis key is gone), `armFails` (scheduling
the timeout throws), `slowOffer` (45 seconds pass before the call that made the offer
returns), `quickPass` (the pro answers before that call returns), `queueExpires`.

Which pros the aggregation of `buildCandidates` returns depends on distance, rating and
presence, which nothing here tells apart: the model takes any order of any subset of
the pros who can serve the job and can pay.

### Wallet

A handler stands between the commands of `confirmTopUp` (`ConfirmTopUp` reads,
`CreditTopUp` increments, `SettleTopUp` saves), of Payme's `CancelTransaction` with
`failTopUp`, of `refundOrderFee` and of `adjustBalance`. `ChargeFee` is the accept's
transaction as the wallet sees it. Calls about one payment overlap freely, and `MaxCrashes`
handlers may die half-way. `answers` records what Payme was told. Three history
variables follow the money: `credits` and `returns` say of each top-up and each fee how often its
money moved, how often the call that moved it died before it wrote that down (`lost`) and how
many calls began while another was under way (`doubled`); `adrift` sums what moved on a
balance without an entry of its own.

### Shop

A purchase and a change of its status are MongoDB transactions with snapshot isolation:
`OpenPurchase` and `OpenChange` take the snapshot and decide, `PlacePurchase` and
`SaveChange` write and commit, and `Commit` marks as `stale` every other transaction that
has its snapshot and is going to write one of the same documents. A stale one cannot
commit and starts again (`RetryPurchase`, `RetryChange`). The unique index on a buyer's
`requestId` is a conflict on the purchase, which exists or not. `UpdateProduct`,
`DeleteProduct` and `SetProductActive` read a product; `SaveEdit`, `SaveDeletion` and
`SaveModeration` write the fields that differ from what was read, with no condition, as
Mongoose's `save` does. `supplied` is a history variable: the stock provided at the start
and by every edit. An edit saves a number that may be older than the purchases that took
place since; the model counts the difference as supplied, since only the seller can say
what is on the shelf. `Abandon` is every way a handler ends early.

### Broadcast

`Claim` is the `findOneAndUpdate` that takes the oldest broadcast whose lease is over;
`ReadBatch` opens the transaction and reads the next users; `CommitBatch` stores the
notifications and the progress, and may go on to the `catch` block, as when the answer to
the commit is lost; `RecordFailure` is the `catch` block. `Leaves` and `Returns` change the
audience between any two steps. `Die` covers a dead process and a failure that could not be
recorded. The owner of a lease is the worker: a worker has one claim at a time, so the
fresh id of each claim tells nothing more apart.

### Accounts and Push

Posting is a transaction whose first write, `TouchAccount`, takes the account's document
(`holder`) until `InsertJob`, `LookForWaiting` or `DrawTakenCode` ends the transaction; what
else writes the document waits. `task.live` is the snapshot. `ScrubAccount` and `SaveStatus`
are the writes of `deleteAccount` and `updateUserStatus`; a save writes only the fields its
handler changed. `Crash` ends a handler at any step and rolls its transaction back.

`Push` follows a notification from `notify` to its worker: the two halves of
`RoutingProvider.send` end on their own, BullMQ runs a failed push again up to three times
and one whose worker died once more. Whether there are queues (`queueCapable`) and whether there is
a provider for browsers (`browserPush`) is found out at the start. `HandOver` is the end of the calls
to the services of some devices: `handed` has the devices whose service took the push, `missed`
those whose service answered with an error, could not be reached (which a browser's half swallows
and a phone's half throws) or said that the device is gone.

### Chat, Reviews, Presence, Traffic, Server, Tokens

Each is cut from its service like `Matching`: one action per command, a record per handler
with what it carries across awaits. `overwritten`, `outdated`, `cutShort`, `leaked`,
`stranded`, `reordered` and `floor` are history variables: they count or locate the one thing
which the code does not guard against, so that a property can say exactly how much it costs and
that nothing else breaks it. `Chat!SaveChat` writes the fields the handler changed and no
others, as Mongoose does; a message counted between the load and the save of a handler is `missed` by
it, and `overwritten` once it has saved.

In `Presence` no handler awaits what it starts, so a device has the writes of its connection
(`coming`) and of its disconnect (`going`) still to be made, and they land in any order, those of a
connection after its own disconnect as well. The one order there is is that of a process's
commands to Redis: the INCR and the SADD of a connection come before the DECR of its disconnect.
Writes fail and instances are killed (`Kill`, with what they had sent still under way). `online` is a
subset of `OnlineIn`: the profile, the Redis set, the pro's own key, and a `lastSeenAt` older than the
latest departure. `stranded` has the places a connection wrote after it had gone, or its disconnect
failed to. `leaked` is the increments nobody takes back; the counter outlives every
session.

In `Tokens` the code's history is `looked` (comparisons with the code that is there), `resets` (of the
attempts counter meanwhile), `stragglers` and `clearers` (guesses and requests under way when it was drawn).
In `Traffic` a command whose deadline has passed may still be executed (`wire`). `Server`
has the processes of a deployment and those of the one before (`before`). `Tokens` counts
half seconds, since the cut-off is rounded to whole ones.

### Candidates, Stats, Paging, Phone

These are computations: an operator per query, over records that the actions of the
module change as the other services do. `BuildCandidates` is the set of lists the
aggregation may return, ties included. `Overview` and `Timeseries` are read for a clock
(`asked`) that may be behind. `Paging` describes each of the sixteen lists by
the fields its filter tests and the field it sorts by; from these follows whether rows may leave
it or move in it (`NatureOf`), and one reader goes through it while they do. `Phone` has the
numbers as sequences of digits, typed one after the other.

## 3. Runs

Each of the passing runs ends within a few minutes with two workers; deadlock is checked in
all of them: a run whose requests are bounded may stand still only where nothing is in flight.

| Run | Instance | Shows |
|---|---|---|
| `two_jobs` | two jobs, two pros with money for one job each, two requests | `FeeMatchesJob`, `TidyAtRest`, `TypeOK` and the refinement `ImplementsLifecycle` |
| `searches` | two jobs, two pros (one fits both jobs, one the first), one request, one worker slot, quick passes, late worker | `RingingIsReserved`: no phone rings for two jobs; `AnsweredOnce`: an answer is never rewritten |
| `standalone` | two jobs, two pros (one fits both jobs, one the first), two requests, no transactions | `BooksBalanceAtRest` |
| `live` | one job, two pros, two requests, one worker slot, no fault | `SearchEnds`, `AnswerMovesOn` |
| `reservations` | one job, two pros, one request, one worker slot, crashes and faults | `OneAdvances`: of the answers to one offer a single one advances the search; `ReservationEnds` |
| `wallet` | two top-ups of one user (Payme, Click), a fee, two corrections, three handlers that overlap freely, one crash | `BooksBalance`, `MovedOnce`, `CancelledIsUnpaid`, `TypeOK` |
| `shop` | two products with two pieces each, two requests for two pieces, two handlers | `StockAddsUp`, `TypeOK` and the refinement `ImplementsInventory` |
| `broadcast` | one broadcast to three users in batches of two, two workers, two attempts, two mishaps | `NotifiedOnce`, `NobodySkipped`, `BroadcastEnds`, `TypeOK` |
| `accounts` | a client and a pro, two jobs, two handlers, two draws of a code, four requests; one notification to a phone and a browser, three attempts | `OneWaitingJob`, `PostedWhileUsable`, `HeldAccountIsFreed`, `TypeOK`; `SentReachedAll`, `PushEnds` |
| `services` | the modules from `Chat` to `Phone`, one per behaviour | see below |

`services` checks eleven small instances in one state space. The variable `part` says which
component a behaviour is about; the others keep their initial states, so that the states add up
and do not multiply, and a property of one component is decided by the behaviours of its
part; the properties of what is only read, and the types, are asked of their part alone. The same
model values serve every part, and the permutations of `x`, `y`, of `h1`, `h2` and
of `p1`, `p2` are symmetries of each: none of them is told apart by a constant or an operator,
and where two of them stand for unlike things (a pro's review of a job, a product's) they
are not in the set permuted. It has no liveness property, for which symmetry would not be sound.

| Property | Part, and its bounds | Shows |
|---|---|---|
| `UnreadIsAccounted` | two members, two messages, two handlers | the badge never counts what was not sent, and misses no more than overlapping saves have overwritten since the last `markRead` |
| `ClosedSticks` | the same | no save of a chat loaded before opens it again |
| `RatingFollowsReviews`, `RatedWithReview` | a job and two authors of one product, two handlers, one death | ratings and `isRated` follow the reviews |
| `GoneIsOffline` | two devices, three of the four places, one instance killed or write failed | a pro whose devices are gone is offline and was seen last when they went, but in a place written late or left by a failure |
| `NoStaleStore` | two processes, two reports, two commands on the wire | nothing older than an invalidation is stored after it |
| `FreshSurvives` | two servers, two keys | the maintenance deletes nothing of this deployment |
| `CutOffHolds` | two calls, three half seconds, tokens and cut-offs that last two (one second) and so expire | a sign-out everywhere holds against refreshes on their way |
| `GuessesBounded` | two calls, two codes, two guesses allowed | a code is compared as often as allowed for each time its counter was reset, and the resets are few |
| `OffersKeepPromises` | two pros, one place on the list, two changes | pros offered a job may accept it, are not out of reach and are the best; the feed and the home screen likewise |
| `ReadsAreRight` | all numbers of two digits up to thirteen long; two jobs and a top-up over three moments and two midnights; lists of three rows, a page each | one number has one account; a bar is a day and the pages of the dashboard agree; no row falls between two pages |
| `ServicesTypeOK` | all | the types |

Two pros are the least with which a search has somebody to move on to, and with which two
accepts race; two jobs the least with which searches compete for a pro and a pro's
money runs out. The defects these properties guard against need two handlers between
two of their steps; a third request would only repeat them. The queues are bounded
by the number of pros and every counter by the number of jobs, so no run needs a
state constraint. In `shop` two purchases compete for a stock that covers one, and a
stock entered by the seller is smaller than both. In `broadcast` three users make a full
and a last batch, which is where an off-by-one or a missed user shows; `MaxAttempts` is
two where the code has five, `BatchSize` two where it has 250, and `MaxMishaps` bounds the
leases outlived and the workers that die, without which a broadcast need not end.
The hazards of the components around the jobs are between two handlers, devices, processes
or reports, hence two of each; a second message, code or change is what a stale copy loses.
Offsets, days and pages are as short as shows the difference (`DayLength` two, `Offset` one,
`PageLimit` one), `Presence` runs with three of the four places (the set is written like the
profile, and the theorem covers all four) and one fault (`MaxFaults`), and numbers long enough for a country code and one digit too many.

### Where the code does not do what it says

Each of these runs checks one property and TLC finds it violated.

| Run | What happens |
|---|---|
| `hurried_pass` | A pro passes before the call that rang the phone has returned. The pass is recorded and the timeout disarmed, then `offerNext` finds the advance lock taken and throws `MATCHING_BUSY`. Nobody is rung next; the job stays in `matching` and its queue is never looked at again. |
| `wallet_retry` | Two overlapping confirmations of one top-up both read `pending` and credit it. |

Others were met while modelling and have no run of their own. Where a definition is named,
adding it to the run given shows the behaviour.

* `refundOrderFee` says that a fee "can only ever be refunded once" (`wallet.service.ts:215`). Two
  overlapping calls both find no refund (`:225`) and give the fee back, and a call that dies between
  the `$inc` (`:233`) and the entry (`:236`) lets the next one give it back again. `MovedOnce` says that
  these are the only ways.
* Payme can be told `CANCELLED` of a top-up that was credited: by a confirmation that died after the
  credit, or by one that is under way. `CancelledIsUnpaid` says that nothing else does it.
* A product that its seller deletes can be on sale again: an admin hides it and restores it,
  reading it before the deletion is saved and saving after it (`admin.service.ts:662`;
  `DeletedStaysDown` with three handlers and no requests).
* A deleted account may have a job waiting, posted after `deleteAccount` looked
  (`user.service.ts:263`; `DeletedHasNoLiveJob` in `accounts`).
* Two senders, or a sender and a reader, lose an update of the badge (`chat.service.ts:124`); the
  messages it then misses are `overwritten`.
* A pro with a device connected may be marked offline: the device connected between the decrement
  and the deletion of the counter (`user.service.ts:134`). A pro who has gone may stay online: the
  `setOnline(true)` of a short connection is awaited by nobody (`sockets/index.ts:88`) and may
  land after the `setOnline(false)` of its disconnect (`stranded`).
* A notification is stored as sent though a browser's service failed or could not be reached
  (`push.ts:255`), or the server has no provider for browsers, which `env.ts:124` says are then
  skipped (`push.ts:294`): `sentAt` means that every service was asked, not that it took the push.
* "Survives a fixed number of guesses" (`auth.service.ts:238`) holds for each time the counter is
  reset. The code is stored before its counter is deleted, and another request's deletion may come
  later still, so a code may be compared about twice the limit; `GuessesBounded` has the exact number.
* `checkPhone` strips a leading 998 from a national number, sign-up does not
  (`auth.service.ts:219`, `phone.ts:30`; `CheckAgrees`).
* A rotation is a read and a deletion, and two refreshes of one token both get through; one that
  is in flight survives `logoutEverywhere`'s scan with its refresh token; two sign-outs may
  write their cut-offs in the wrong order. A late reset may delete a newer code.
* `topMasters` limits before it drops blocked pros, so the list may be too short.
* `revenue30d` begins thirty midnights ago and so covers thirty-one days where a chart of
  thirty days covers thirty. The queries of one overview are not one snapshot.
* A page is found and counted in two reads and in an order without a tie-break: a row that leaves
  the list, or comes between the reads, makes the reader miss another.
* A maintenance whose process dies leaves its marker running, and later starts wait thirty seconds
  and fail until somebody deletes it. In cluster mode the primary forks a new worker for one that
  stops because it was told to.

`BooksBalance` holds whatever dies and overlaps because `adrift` is in it: a top-up is a chain of
commands, and a process that dies between the credit and the save leaves a balance that
the provider's retry credits again. Without a crash or an overlap `adrift` stays zero and a balance is
its ledger.

### Fairness

`Matching!FairSpec` assumes weak fairness of each handler's next step (a Node process
keeps serving what it has begun), of the worker picking up a due timeout (BullMQ's
promise while a worker runs; in `reservations` the worker may die, and there nothing
depends on it), and of the expiry of Redis keys. It assumes nothing of clients and
pros: they may never answer, pass or cancel. `Broadcast!FairSpec` assumes that a worker goes on with
what it began and looks for work again and again (the timer of `broadcast.worker.ts`), and
that leases end. `MCAccounts!Runs` assumes weak fairness of each handler's next step and of
the push worker and BullMQ, which go on with what they began and may die each time. The other
runs have no fairness.

## 4. Proofs

Proved for every value of the constants that the modules' assumptions allow, with any number
of orders, pros, handlers, faults and crashes. Where a theorem has a further hypothesis it is
named below with the reason.

**The job** (`MatchingProofs`)

* `TypeCorrect`: `Spec => []TypeOK`. The invariant adds to the types that a handler at a
  given step carries the values that step needs (`TaskOK`): the order it works for,
  the pro it has reserved. It is needed because a step reads them without checking.
  That no balance goes below zero rests on the condition of the debit alone.
* `FeeIffAssigned`: with transactions, `Spec => []FeeMatchesJob`. `TransactionalInv`
  says that no handler is ever at a step of the standalone chain and that a job not yet
  taken has no pro and no fee; the sum over the ledger is carried through by the
  cardinality of a pro's jobs growing by one in the one step that also takes the fee.
* `MatchingImplementsLifecycle`: with transactions and a positive fee,
  `Spec => ImplementsLifecycle`. `Searching` maps to "open". Each step maps to one
  abstract step or to a stutter; the invariant supplies that a cancelled or completed
  job was the one the conditional write matched.
* `AnswersDoNotRace` (`OneAdvances`): the right to carry a search on is a token. The post has it
  until its first offer, a pro while asked, then the handler that recorded the answer
  (`TokenInv`): there is one holder or none. The conditional writes of the offer and of the answer
  hand it over, a crash loses it, nothing makes a second. `PlaceInv` says which operation stands
  at which step; without it a handler after `ClearOffer` cannot be told from a searching one.
* `AnswersAreFinal` (`AnsweredOnce`): nobody in the queue of a job, and nobody taken out of it and
  not asked yet, has been asked before (`QueueInv`), and the queue names nobody twice. A
  handler that has yet to fill the queue still finds it empty.
* `RingingProIsReserved` (`RingingIsReserved`): the reservation is the pro's from the moment it is
  made to the ringing (`RingInv`). It is released by those who clear an offer, so the invariant must
  say how far the job is when one of them writes (`StageInv`): it is over, or the pro they remember
  has answered. A failed offer is undone only if it is still the offer that failed.
* `NoJobForFree`: with or without transactions, whatever dies, the balance of a pro and the fees of
  the jobs held never exceed the funds (`PaidInv`, which counts the fees in flight too). A pro
  may lose a fee for a job not got, on a standalone server whose process dies between the debit and
  the assignment, but never gets a job for nothing.
* `BooksBalance` (`BooksBalanceAtRest`): with transactions, whatever dies; without, if nothing
  does. `KeptInv` has the fees that are taken and not yet assigned or given back, `BookingInv`
  and `LedgerInv` the ledger entries that the one handler of a job has still to write. The hypothesis
  is what the run has, and the loss above shows that it is needed.
* `NothingIsLeftOver` (`TidyAtRest`): with transactions, if nothing dies. A queue that outlives its
  search is emptied by a handler that is on its way (`DrainInv`); such a handler may be the post's
  first advance, which never finds the lock taken (`LockInv`). A chat that has to be closed has
  its closer (`EndInv`), and the counters of a pro are short by the handlers that have still to
  count (`TallyInv`). Without the hypotheses it fails: a handler that dies leaves its follow-up undone,
  and on a standalone server a cancellation can close the chat before the accept opens it.

**The wallet** (`WalletProofs`)

* `WalletTypeCorrect`: no balance goes below zero, overlaps and crashes included.
* `MoneyMovesOnce` (`MovedOnce`): the times a fee was given back are its refunds, the calls that are
  about to write one and the calls that died there (`ReturnInv`); a call that begins alone finds none
  of them, so each further one has its own place among the overlaps. `CreditInv` is the same of a top-up,
  whose entry is its status: several confirmations may settle it, and it is credited once for each.
* `CancelledStaysUnpaid` (`CancelledIsUnpaid`): from the moment a cancellation has read a top-up as
  unpaid (`Cancelled`), the credits and those about to be made are among the calls that died and those
  that overlapped; `ToldInv` ties what Payme was told to the status.
* `LedgerAddsUp` (`BooksBalance`): at every moment a balance is the sum of the entries of its user, what
  is adrift and what the handlers under way have moved and not yet written (`BookOf`, `Due`). `FeeInv`
  says that a job is charged to one user and that only a charged one is refunded.

No theorem about the wallet assumes that calls do not overlap or die.

**Goods** (`ShopProofs`)

* `StockNeverNegative`, `ShopImplementsInventory`: the invariant says of a transaction whose
  snapshot is current that what it read of the purchase still holds, and that a purchase,
  once placed, stays. So each commit is one event of `Inventory`, and every other step a
  stutter.
* `NothingIsLost` (`StockAddsUp`): each event of `Inventory` keeps the stock, and what the live
  purchases of a product hold, at what was supplied (`SumsInv`). The set of placed purchases is
  finite because it starts empty and grows by one: the requests need not be.

**Announcements and accounts** (`BroadcastProofs`, `AccountsProofs`)

* `BroadcastTypeCorrect`, `NobodyNotifiedTwice`, `CompletedReachesAll`, `FinalStaysFinal`: the ids
  up to `lastUser` are done with and those beyond have nothing (`Progress`); a worker
  whose snapshot is current owns the lease and holds the next ids, with nobody of the
  audience left out below them (`Planned`). Owning a lease means the broadcast is
  `processing`, so what is final cannot change.
* `ProgressIsTrue`: `delivered` counts those who got the announcement (`DeliveredIsStored`). The batch a
  current worker commits is disjoint from those who have it, so the cardinalities add. With
  `FinalStaysFinal` it is proved and not part of a run.
* `OneJobPerClient`, `UsablePosts`, with the types, in `AccountsProofs`: a handler between `TouchAccount` and
  the end of its transaction holds the account (`HoldsAccount`); while it does, the account is as
  usable as it was found and, if no waiting job was found, there is none. Without the
  first part the second is not inductive, since another handler could post.

**The components around the jobs** (`ServicesProofs`)

* `WrittenSurvives`, `ServesUndisturbed`, with the types: for any number of processes and keys,
  whoever is in the maintenance holds the marker, and nobody serves before it is over.
* `RatingsFollow`, `ReviewedIsRated`: an average that a handler carries is that of the
  visible reviews unless one of them changed since (`Averaged`), and a handler about to mark a job has
  stored its review (`Marking`).
* `SignedOutStaysOut` (`CutOffHolds`): the cut-off in Redis is that of the sign-out that read the
  clock last, unless two of them were written in the other order, and it outlives every token
  signed before it (`CutOffInv`). Half seconds are rounded in a lemma about `\div`.
* `CodeSurvivesFewGuesses` (`GuessesBounded`): the guesses a code has had, those that are counted and
  not yet compared and those the counter would still let through are together within the bound
  (`GuessInv`), since a guess takes a number of its own and a reset adds a limit's worth; the resets that
  have been and the requests still to make one are at most those found when the code was drawn
  and two more, its own request's and that of the expiry.
* `LastToGoTakesOffline` (`GoneIsOffline`): the counter never exceeds the devices it has counted and
  the increments nobody will take back (`CountWithin`), so the last to go finds it at zero; each place that calls
  the pro online and is not stranded has a device that is here, or is leaving and has yet to write
  it (`TakesBack`, `OnlineEnds`).
* `NoVisitIsUncounted` (`NoStaleStore`): commands of one connection arrive in the order they were sent,
  and what is on the wire, carried by a load or stored is no older than the process's
  last invalidation (`WireOK`, `LoadsOK`, `EntryOK`).
* `OnlyOpenedOnPurpose` (`ClosedSticks`), `BadgeAccounts` (`UnreadIsAccounted`): a save writes the fields it
  changed, so what a copy says of the others does not matter. The unread messages of a member are covered by
  the badge, what was overwritten and the senders about to save, and just so by every copy with what it has
  `missed` (`CopiesOK`, `BadgesOK`, `NothingHidden`). It needs that a chat has
  two participants (`ChatAssumption`), which is how `openChat` makes one: with a third, one sender's save
  would count for two badges.
* `SentReached`, with the types: a half that says it is done has put each of its devices in `handed` or
  `missed`, or there is no provider for browsers (`PhonesReached`, `BrowsersReached`); the devices of a push are set once, because it belongs to a notification that
  is stored (`Addressed`), and nothing happens to a push once its notification is marked as sent.

* `ReviewTypes`, `SessionTypes`, `PresenceTypes`, `TrafficTypes`, `ChatTypes`, `PushTypes`: the types. Each
  rests on the invariant above it and adds what that one had no use for: that a rating is an average (`Summaries`),
  that a counter of guesses has a time to live only while it counts (`Expiring`), that no
  more is killed or fails than the bound (`FaultsBounded`), that every count on the wire, carried or
  stored is one of sessions there are (`CountsOK`), that the preview shows a message of the chat.

**What is computed and read** (`MCServicesProofs`)

* `TheOffersKeepPromises` (`OffersKeepPromises`): a list keeps its promises in every state in which the
  profiles have their types, whatever led there, so the invariant is `CandidatesTypeOK`. `BuildCandidates`
  is any ordering of those in reach that respects the sort key; what is proved of it is that whoever
  is cut off by the limit comes after those who are not. The pros are finitely many, so that those in reach
  can be listed; that a job has a craft, as in `CATEGORY_CRAFTS`, gives the first profiles their type.
* `OneAccountANumber`: of every sequence of digits, by cases on its length and its first three
  digits. A number of nine digits is left alone even if it begins with 998, so what is left when
  the code is stripped from a valid number is not stripped again (`NationalNumber`).
* `NothingBetweenPages`: as long as no row has slipped past the reader, each row still to come is further down
  the list than the reader has got, and the count that was read beside a page promises the next
  (`PagesInv`). Rows that come in or move forward only push those still to come further down
  (`ListMoves`). What `InsertAt` and `RemoveAt` make of a list are lemmas. `PagingTypes` adds that
  answers count no more rows than there are (`PagesTyped`).
* `TheFiguresAddUp`: only an accepted job is refunded (`StatsInv`). A bar is the moments between two
  midnights (`DayStart`), whatever the offset, and each moment lies in one of them (`DayOf`, `OneDay`); the bars
  of a chart are disjoint sets of fees and refunds, so their sizes add up to the total (`BarsAddUp`).
* `TheyKeepTheirSpecs`: each component among the others takes only steps of its own specification, so what
  is proved of it holds of `MCServices!Spec`. From it come `WhatIsReadIsRight` (`ReadsAreRight`) and
  `ShapesAreKept` (`ServicesTypeOK`).

The assumptions say what the code gives: sets of documents are finite (`StatsAssumption`, `ReviewsAssumption`,
`TrafficAssumption`, `CandidatesAssumption`), limits of pages and days are positive.

**Sums** (`SumTheorems`)

The library's induction theorems take the induction hypothesis as an operator, which the installed
provers cannot instantiate. For finite sets a hypothesis can be a set instead: of a set of
subsets that is not empty one is smallest, since strict inclusion on the subsets of a finite set is
well founded (`SmallestSubset`), so a set of subsets that contains every subset whose proper subsets
it contains has them all (`SubsetInduction`). From it follows that `SumFunctionOnSet` is what it is
meant to be: it loses a term with an element removed (`SumRemove`), gains one with an element added
and changes by the change of one term; a sum of differences is the difference of the sums, and the sizes of
disjoint sets add up to that of their union (`SizesAddUp`). `Wallet`, `Shop`, `Stats` and `Reviews` use that
operator of the community modules, and so the provers see what TLC evaluates.

Only model-checked: liveness (`SearchEnds`, `AnswerMovesOn`, `ReservationEnds`, `BroadcastEnds`,
`HeldAccountIsFreed`, `PushEnds`). It rests on fairness and so on ENABLED, which the prover does not
handle. Every other property of a passing run has its theorem.

## 5. Abstractions to keep in mind

* The advance lock and the check for an outstanding offer protect each other: removing
  either alone violates nothing, so no property isolates it.
* The in-process timer used where Redis cannot run BullMQ is not modelled; it dies with
  its process, as a worker does.
* In production the service refuses to post jobs without transactions; the standalone
  chain is what development and the tests run on.
* Payme gives one top-up one transaction id and repeats its calls; a second id for the
  same top-up is not modelled.
* Users that register after a broadcast was queued are not in its audience (its cutoff) and
  not in the model; what is pushed after a batch's commit is best effort and left out.
* A product's price and texts, and the seller's and the buyer's accounts, decide only whether a
  purchase goes through: `Abandon` stands for every reason it does not.
* The providers that only log a push (development, without credentials) are left out: they reach
  no device and fail for none.
* Socket events are left out: every caller swallows their failures and no handler reads
  what they wrote. Notifications and pushes have a module of their own for the same reason.
* The modules around the jobs are composed with the jobs by what they see of them: `Accounts` has
  jobs that are taken and end, `Chat` one that completes or is cancelled, `Stats` ones that
  are charged and refunded. `Matching` has the details.
* `Phone` computes on digits of two kinds; `Stats` leaves out the figures about users, products, chats
  and reviews, which are counts of the same kind; `Paging` leaves out searches by text.

## 6. Not modelled

* Media: uploads handed to an external image service.
* The assistant: a proxy to an external language model.
* Configuration, logging, Sentry and the SMS gateway: settings and connections; what the
  protocols need of them (whether transactions are supported, the fee, the limits) are constants.
* Routing, validators, error envelopes and rate limits: they refuse a request before any of
  the modelled handlers begins, and keep no state of the domain.
* The fan-out of socket events, the audit log's rows, favourites, the rendering of
  profiles: written or sent once and read by no handler that decides anything.
* The in-process timers that replace BullMQ on an old Redis.
