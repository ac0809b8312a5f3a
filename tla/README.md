# A TLA+ model of the wallet core

The wallet keeps electronic coins for its user. It withdraws them from an
exchange, spends them at merchants, refreshes what is left of a spent coin into
new coins that nobody can link to it, takes back refunds and tips, and gets its
money back when the exchange revokes a denomination. All of this happens over
unreliable HTTP, in a program that may stop at any moment, so every operation is
a sequence of IndexedDB transactions and requests that can be repeated.

This directory models that: what the operations do to the database, in which
order, beside each other, and through failures and restarts.

## 1. How the program runs, and how the models say so

* There is one JavaScript thread. Between two `await`s a function runs alone; at
  an `await` anything else may run. Hence an action of the models is what happens
  between two awaits that matter, and in particular **a database transaction is
  one action** (`util/query.ts`: a transaction function that throws aborts the
  whole transaction, so it has no effect at all).
* What a function has read before an `await` is a *copy*. Where the code uses
  such a copy later, the models keep it as a local of the activity (`chosen`,
  `run`, `seen`, `copy`, `answer`), and where the code reads again, so do they.
* `runRetryLoopImpl` (wallet.ts) asks `getPendingOperations` for everything that is
  pending and due, and processes it. The user's calls run beside the loop, and so
  does `runPending`. Some operations are memoised (`util/asyncMemo.ts`:
  `processRefreshGroup`, `processReserve`, `processRecoupGroup`); a second call
  then joins the first. All others can run several times at once. The models have
  as many activities as the instance gives them, and a memo is part of the guard.
* A crash takes every activity with it and keeps the database. After it, the retry
  loop finds what is pending.
* A request may fail before it has had its effect, or after: then only its answer
  is lost. Exchange, merchant and bank are the environment. They do what the
  wallet's code relies on (an exchange never takes more from a coin than its value;
  a planchet that was signed once is signed again for free).
* Time is abstracted: retry timers may fire at any moment. Only the deadline
  of an automatic refund is a step of its own, and in `RetryLoop`, which is about
  sleeping and waking, time is counted in ticks.

## 2. Inventory

State is named by its store (`types/dbTypes.ts`, `Stores`).

| Component | Source | State | Operations | Hard about it |
|---|---|---|---|---|
| Payments | operations/pay.ts | `proposals`, `purchases`, `coins` | prepare, confirm, submit, replay, refuse | coins are chosen long before they are taken; `submitPay` writes back an old copy; several callers |
| Refresh | operations/refresh.ts | `refreshGroups`, `coins` | create group, create session, melt, reveal | one failure ends the group's promise and leaves the other runs going; crash between store and melt |
| Refunds | operations/refund.ts | `purchases`, `coins`, `refreshGroups` | apply, query, accept response | repeated and late answers; automatic query beside the user's |
| Reserves | operations/reserves.ts | `reserves`, `withdrawalGroups` | create, confirm, register with bank, query, deplete | background run beside the direct one; forced queries; late answers |
| Reserve history | util/reserveHistoryUtil.ts | `reserves.reserveTransactions` | reconcile, summarise | matching what the wallet expects with what the exchange reports |
| Withdrawal | operations/withdraw.ts | `withdrawalGroups`, `coins`, `denominations` | verify denominations, process planchets | no memo; denominations written back after an await |
| Proposals | operations/pay.ts | `proposals` | download, process | two downloads at once |
| Tips | operations/tip.ts | `tips`, `withdrawalGroups` | status, accept, process | whole-record writes, no memo |
| Recoup | operations/recoup.ts | `recoupGroups`, `coins`, `reserves` | create group, recoup a coin | coins set to zero first; interferes with the reserve's states |
| Exchange update | operations/exchanges.ts | `exchanges`, `denominations` | keys, wire, terms, finalise | concurrent updates; starts recoups |
| Pending operations, retry loop | operations/pending.ts, wallet.ts | none (reads all) | gather, run, sleep, stop | a memo that ignores its argument; waking up; stopping |
| Balance, history | operations/balance.ts, operations/history.ts | none | views of the database | sums over records in transition |
| Memoisation | util/asyncMemo.ts | promises in flight | memo | clean-up after a rejection |
| Crypto workers | crypto/workers/cryptoApi.ts | queues, busy workers | rpc, wake, time out, stop | messages after termination, lost work |
| Transactions | util/query.ts, db.ts | IndexedDB | get, put, mutate, run | abort paths |
| In-memory IndexedDB | packages/idb-bridge | object stores as B+ trees | transactions, cursors | the queue of transactions |
| Amounts, time | util/amounts.ts, util/time.ts | none | add, sub, compare | carries, saturation, "never" and "forever" |
| HTTP, throttling | util/http.ts, util/RequestThrottler.ts | token buckets | request | refilling |
| Codecs, URIs, versions | util/codec.ts, util/taleruri.ts, util/payto.ts, util/libtoolVersion.ts | none | decode, parse, compare | two functions that read one format disagree |
| Cryptography | crypto/ | none | sign, blind, derive, verify | what is signed here is verified elsewhere |
| Hosts | headless/, android/, webex/wxBackend.ts | the database file | run the wallet | only the file of a headless host is modelled |
| Web extension pages, translations | webex/pages, i18n/, packages/pogen | | user interface, build tool | not modelled |

What makes them correct:

* *Payments and refresh*: no value is taken from a coin twice and none gets lost
  but the fees; what is sent is recorded before, and is the same when it is sent
  again; a fresh coin was never shown to anybody; what was recorded is finished.
* *Refunds*: a refund is added to its coin once; the purchase says so; queries end;
  accepted refunds arrive.
* *Reserves and withdrawals*: the status never goes back; waiting for the user means
  the bank knows the reserve; what is claimed is covered; the money becomes coins.
* *Reserve history*: the computed balance agrees with the exchange's; the same
  answer brings no news twice.
* *Exchange update and recoup*: no verdict about a denomination is lost; what a revoked
  coin was worth is taken from it once, and paid back once; a recoup that was begun ends.
* *Proposals and tips*: what the user decided stands; a tip is picked up once, and what the
  merchant signed is stored.
* *Retry loop*: whatever is pending is worked at until it is done.
* *Crypto workers*: an answer goes to its call, and no call waits beside an idle worker.
* *Database*: transactions come one after the other, a promise tells what became of its
  transaction, an index agrees with its records, and nobody waits for somebody who is gone.
* *Functions*: amounts are exact or say that they are not; what is selected suffices; a
  history tells everything once; who writes a format and who reads it agree.

## 3. Modules

| Module | What it is |
|---|---|
| `Spending` | payments and refresh over coins, purchases and refresh groups |
| `Purse`, `SpendingPurse` | abstract: a balance from which payments and fees are taken; `Spending` implements it |
| `Balance` | the balance that is shown, computed from the records of `Spending` |
| `Reserve` | one reserve with bank, exchange and its withdrawal groups; uses `ReserveHistory` |
| `Purchase` | one purchase after it was recorded: submitting, replays, refunds |
| `CryptoApi`, `WorkerPool` | the workers for cryptography; abstract: a pool that works at so many calls at a time |
| `Recoup` | recoup groups, the coins in them and the reserve they are paid back to |
| `Exchange` | the record of an exchange and its denominations; extends `Recoup` |
| `Offers` | proposals and tips, as the user and the loop process them |
| `RetryLoop` | the loop, pending.ts, timer, latch and stop; extends `Offers` |
| `Records` | what requests do to the records and the index of an object store, as operators |
| `Database`, `SerialStore` | transactions over the in-memory IndexedDB; abstract: one after the other |
| `BTree`, `MCTrees` | the trees of the in-memory IndexedDB as operators; two trees that share nodes |
| `ReserveHistory`, `MCReserveHistory` | reconciling a history, as operators; two histories that grow |
| `Amounts`, `Selection`, `History`, `Inputs`, `Signatures` | functions: arithmetic, choosing coins, events, codecs and URIs, what is signed |
| `Sums` | the sum of a function over a set, which several modules use |
| `MCFunctions` | asks these functions questions, and says what the answers must be |
| `SumTheorems` | lemmas about these sums, about folds over lists and about lists in the order of a relation |
| `...Proofs` | the theorems about a module; `SpendingProofs` is about `SpendingPurse`, `Balance`, `Selection` and `Amounts` too |
| `MC...` | the small instances |

### Spending

`coin`, `purchase`, `olds`, `session` and `finished` are the database. `payer` and
`chosen` hold the locals of `confirmPay` and `submitPay`, `run` those of
`processRefreshSession`. `sent` is every request that has left the wallet, whose
`spend` field says what is taken from which coin; `accepted` is what the exchange
has taken.

`SelectCoins` is `confirmPay` up to `selectPayCoins`: it may pick any selection with
the shape of the code's result, and `ReadCoinToRefresh` any denominations with the shape of
getWithdrawDenomList's. `Selection` has both functions as they are; that they give one of these choices
is proved (section 5). `RecordConfirmPay` is the transaction of
`recordConfirmPay`, which checks only for underflow. `SubmitPay`, `PaySucceeds` and
`PayFails` are `submitPay`, for the call itself and for the retry loop. A refresh group is
processed by one `run` for each open coin (`ProcessRefreshGroup`); a run that throws
frees the group's memo and leaves the other runs alone (`Throw`), which is what
`Promise.all` and `AsyncOpMemoMap` do. Then `ReadCoinToRefresh`, `StoreSession`,
`Melt`, `MeltSucceeds`, `Reveal` and `RecordReveal` follow refreshCreateSession,
refreshMelt and refreshReveal, with their rechecks.

There are one exchange, one currency and amounts without fractions. The merchant pays
the deposit fees. The mutants in the module (`PayGivesUp`, ...) are
mistakes that the properties are shown to detect; the specification does not use them.

### ReserveHistory and Reserve

`ReserveHistory` has the functions of util/reserveHistoryUtil.ts as operators: the
greedy matching of expected items (`MatchItems`), what is added (`Added`),
and the sums. `MCReserveHistory` lets both histories grow and reconciles any
earlier answer of the exchange.

`Reserve` has the life of one reserve. `processReserve` is one memoised activity, `Loop`;
each call of `createTalerWithdrawReserve` is another activity that runs
`processReserveBankStatus` directly. As these functions call each other, an activity has
a program counter (`pc`, the function it is about to enter or the request it waits
for) and a `stack` of the calls to be made after the present one. `seen` is
what it has read or been answered. `planchet` holds the activities in
`processPlanchet`. `selected`, `transferred` and `ledger` belong to the bank
and the exchange.

### Purchase

`Purchase` has one record with the fields that decide anything: `lastSessionId`,
`paymentSubmitPending`, the first successful payment, `refundStatusRequested`, the
deadline, and the three maps of refunds as sets. `payer` and `copy` are the activities in
`submitPay` with the copy they will write back, `querier` and `answer` those in
the refund query. `credited` counts how often a refund was added to its coin.
`GetRefundKey` returns what the code's function returns.
The merchant's `status` of a refund is the exchange's HTTP status that it passes on.

Not in it: the refresh group that a refund opens for its coin (that part is
`createRefreshGroup`, as in `Spending`), and the event records
for the history.

### CryptoApi

Every handler of cryptoApi.ts runs to its end without awaiting anything, so each is one action:
`Enqueue` and `Dispatch` (doRpc), `HandleWorkerMessage`, `HandleWorkerError`, `Destroy` (the timer of an idle
worker) and `Stop`; `wake` and `findWork` are operators that they share. `worker` has for
each slot the item it is at, whether its thread has been started, whether its timer runs, and
the requests that the thread has been sent and has not answered (`asked`). The last is not state of
CryptoApi: it is there to say what may still come back. `synchronous` chooses between threads and the
synchronous worker, whose `terminate` does nothing, so that an answer can come after the stop.

A thread that was terminated is taken to deliver nothing any more, as both kinds of threads promise. The
operations themselves, rpc ids (a call is its own id) and tracing are left out.

`CryptoApi` implements `WorkerPool`, in which there are no workers but only calls that wait, run, are
settled or, after the pool was closed, forgotten.

### Recoup and Exchange

`Recoup` has what follows when denominations are revoked. `HandleRecoupList` is the part of
updateExchangeWithKeys that marks them and calls `createRecoupGroup`, in one transaction: the coins'
amounts go into the group's `old`, and a coin that is worth nothing is finished from the start. A
group is worked at by one `run` per coin and call (`StartGroup`); `Return` and `Reject` are what
Promise.all and the memo do when a run ends. `ExchangePaysBack` is the environment. `RecoupTipCoin`,
`RecoupWithdrawCoin` and `RecoupRefreshCoin` are the three transactions, each with
`putGroupAsFinished`, which makes the refresh group when the last coin is finished. `recoupRefreshCoin`
marks the refreshed coin dormant and adds what is paid back to the coin it was refreshed from
(`WasRefreshed`): that coin was spent, and has no value of its own but what comes back to it. The code does not
prevent that it is in a group at the same time, with its amount already taken to zero; `RecoupedGetNothing` (in
`ExchangeProofs`) says that this does not happen. It holds in `revocation`, and the row `WithDust` of the table
below shows what is lost where it does not. The reserve is
reduced to what `recoupWithdrawCoin` touches: its status, whether it is retried, and how much of
what was paid back it has seen. `ScopeChecked` says whether the host refuses to touch a store
outside a transaction's scope; the wallet's own backend does not.

`Exchange` adds the record with its `updateStatus`, updates that run beside each other with
their locals (`updater`), and withdrawals that verify denominations (`selector`, with its stale copies).
`world` is the exchange itself.

### Offers and RetryLoop

`Offers` has proposals from their creation to their acceptance, refusal or repurchase, and tips from
getTipStatus to the withdrawal group that picks them up. An activity's `pc` says at which await it
is; its other fields are the locals it will still use, whole records among them.
`RetryLoop` has the loop: it reads what is due (`Gather`, with the memo that forgets its argument), runs one
operation after the other, and sleeps until the next retry time, for `Cap` ticks at most, or until the latch
opens. The other modules' records are here `work`: they have a retry time, and processing them ends them,
fails, or is to be repeated. `Scenes` says which kinds of records a wallet of the instance has at all.

### Records, Database, SerialStore and the trees

`Records` has what MemoryBackend does to one object store with one index, for keys that are numbers,
with the ranges and the forward cursors that the wallet uses; every request the wallet makes asks for one record. `Database` has the connections, versions,
queues and levels of the backend, and transactions that run a function: its steps are the tasks of the event
loop, between which the microtasks of one function run to their end (`Quiet`). `TransactionAbort`, exceptions, awaiting
something else, closing, the dump of a headless host and a crash are all there. The refinement mapping to `SerialStore`
takes the dump as the point where a transaction is done.

`BTree` has the trees over a heap of nodes with their `shared` flags, so that a node that is changed while
another tree still has it shows up in that tree. `MCTrees` keeps functions beside the trees to compare them with.

### Functions

`Amounts` (amounts.ts, time.ts, RequestThrottler.ts, libtoolVersion.ts), `Selection` (which coins pay, which
denominations are withdrawn), `History` (history.ts over a record of stores), `Inputs` (codecs with the
wallet's messages, URIs, base 32) and `Signatures` (cryptoImplementation.ts over talerCrypto.ts and
kdf.ts) have no state. `MCFunctions` has a topic and a question as its state; the two
things with a history (reserve histories and trees) are topics too.

## 4. Runs

All bounds are in the configurations. "Restarts" is `MaxCrashes`.

| Run | Instance | Shows |
|---|---|---|
| `spending` | 2 coins, 2 proposals, 2 calls of confirmPay, 3 refresh runs, no restart | `EveryCoinAccounted`: what is left on a coin and what the database has given away of it make up its value, through two payments that compete for the coins; `FreshNeverShown` and `SentIsCommitted` while a group of two coins whose attempt fails half-way is tried again; the inductive invariant `Protected` |
| `user` | 1 coin, a payment, `Wallet.refresh`, the retry loop, 1 restart, fair | `PendingIsPaid`, `GroupsFinish`; `ImplementsPurse`: none of this creates money or loses more than fees; `ShownIsThere`: the balance shown is what is there, counted once |
| `bank` | createTalerWithdrawReserve beside the loop, 1 restart, a bank that refuses nothing, fair | `WaitMeansRegistered`, `DormantIsDepleted`, `CreditsBecomeCoins` |
| `claims` | by hand or at a bank that may refuse, 2 transfers, 2 forced queries, 2 runs of depleteReserve, 2 activities in processPlanchet | `OpenPlanchetsFunded` |
| `refunds` | 2 queriers, an automatic query, 2 refunds, refusals, 1 restart, fair | `CreditsRecorded`, `QueriesEnd` |
| `sessions` | 2 payers, 2 sessions, 1 restart | `SubmittedUntilPaid` |
| `crypto` | 2 threads of which 2 may die, or the synchronous worker; 4 calls of 2 priorities, 1 operation that throws, fair | `AnswersMatch`, `NothingWaitsIdly` through restarts of workers and late answers; `CallsAreAnswered`; `ImplementsPool` |
| `revocation` | 4 coins (withdrawn, spent, refreshed from it, from a tip that arrives late), 2 overlapping calls for a group, 1 restart, fair | `ValueIsTracked`: what the exchange holds is on record in one place; `FinishedIsPaidBack`; `RecoupsFinish` |
| `exchange` | 2 updates, a withdrawal, 2 denominations of which one is badly signed, 1 restart | `VerdictsAreStored`: a revocation or a verdict is not overwritten by a stale copy; `TakenOnce`: a coin's value goes into one group |
| `loop` | 2 users, 2 proposals for one order, or a tip, or 2 other records; stop, 1 event of each kind, fair | `TipOnce`, `SignedIsStored`, `ChoiceStands`, `AcceptedIsPickedUp`, `WorkIsDone` |
| `database` | 1 connection, 2 transactions of up to 2 requests, aborts, 1 crash | `PromiseTellsOutcome`, `IndexAgrees`, `SomebodyWorks` (no one waits unless somebody is at work), `OneAfterTheOther` (refines `SerialStore`) |
| `functions` | 25068 questions, reserve histories of 4 items and transactions, trees of up to 4 keys per node | `HistoriesAgree`, `TreesAreMaps`, `FiguresAreRight`, `SelectionsFit`, `HistoryTells`, `InputsAgree`, `SignaturesHold` |

The bounds are the smallest in which the interesting cases happen: two
activities for each race (a third adds only a repetition of one of them; `spending`
has a third run because a run left over from a failed attempt has to
meet two of the next); two coins, so that one can be spent in part and one entirely, and
change that can be spent again; one restart, after which every further one
starts from a database that the first can also leave; two refunds or transfers, so
that one can be taken for the other. `revocation` needs two coins whose recoups can fail independently, or a
group that is half done is never tried again; it has one denomination, as with two the groups multiply and liveness takes
too long. In `loop`, `MaxEvents`, `MaxBackoff`, `Cap`, `Accepts` and `MaxPlanchets` are
small: a second round of any of them repeats the first. In `functions` a node of a tree has at most 4
keys (`MaxNodeSize`, the least the code allows), 17 keys make three levels; fractions have two digits, the largest
amount is 3, so that carries and overflow happen; RSA has the moduli 15, 33 and 35 and kdfMod bytes of 3 bits, so
that every number can be tried; the throttler's buckets hold 5, 7 and 9 requests. What `bank` shows of the reserve's
status for one call of createTalerWithdrawReserve, the theorems of `ReserveProofs` show for any number.

Deadlock is checked in `loop` and `user`: there the wallet may stop only when all is done. In
`spending` there is no retry loop for purchases, so a payment that failed stays as it is, and the other
instances come to an end because their environment has a bound (no more transfers, refunds, requests,
transactions or calls), so `CHECK_DEADLOCK FALSE` is set.

**Fairness.** The activities of the retry loop are weakly fair: the loop asks again
at the latest after five seconds, and JavaScript runs every promise whose request has
ended. Requests that are repeated for ever are answered at last: strong
fairness of the answers (`SF` of `Accept`, `PaySucceeds`, `BankAnswers`,
`ExchangeSigns`, `ExchangePaysBack`, `LoopSucceeds`, ...) and of the transaction that records them. Nothing is assumed of the user's
own calls, of crashes (their number is bounded), or of the bank's refusals. `ExchangeSettles` (the exchange
decides on a refund one day), `DeadlinePasses` and `Tick` are weakly fair. In `CryptoApi` a worker that was asked ends with
an answer or an exception (weakly fair `Answer`): the operations are computations without loops that wait. The
finite set of calls hides that an endless stream of urgent calls would starve the others. `database` has no liveness:
`SomebodyWorks` says as an invariant what a deadlock would break. (With the event loop weakly fair promises settle and a close ends: `EveryPromiseSettles` and `CloseEnds`, in
`Database.cfg` with FairSpec, Conns {c1, c2}, Operations {"put"}, MaxRequests 1.)

**Mutants.** For every property of a passing run PROJECT.json names a change
of the code's model after which the run fails: a dropped recheck, an
amount taken from the wrong field, a payment that is not retried, and so on. Definitions after a comment "Mutant:" are
these changes; no specification uses them.

### Where the code disagrees with its comments, or with what one would expect

The runs show what holds. What does not hold is stated in the modules too, with "Does not hold" in its comment, and can be
seen by hand: the table says what to change in which configuration, with the property in place of those there.

| Configuration | Property that fails | What happens |
|---|---|---|
| `Spending.cfg`: Proposals {p1}, no SYMMETRY | `OnePaymentPerProposal` | confirmPay looks a purchase up by the contract's hash, though the key is the proposal id ("@keyPath", dbTypes.ts:1553): a second call pays again with other coins (pay.ts:961) |
| `SpendingUser.cfg`: Spec, Withdrawn TwoCoins, Coins TwoCoinsAndNew, Proposals {p2}, Refreshes {}, Runs {r1, r2, r3}, FeeRefresh 0 | `FinishedHasNoOpenSession` | a refresh slot is finished while a session of an older run is open in it (refresh.ts:146; dbTypes.ts:942) |
| the same | `ShownIsThere` | a session that an older run opened gave its coins; until its group is finished the balance counts it beside them (balance.ts:85) |
| `ReserveBank.cfg`: Spec, BankUrls {FALSE}, MaxForced 1, MaxCrashes 0 | `DormantIsDepleted` | a forced query before the credit was claimed puts the reserve to sleep with the money in it (reserves.ts:514; dbTypes.ts:76) |
| `PurchaseRefunds.cfg`: Spec, Payers {p1, p2}, Queriers OneQuerier, Refunds {1}, MayRefuse FALSE, MaxCrashes 0 | `CreditedOnce` | a second submitPay puts back a record without the refunds, which are credited again (pay.ts:816) |
| `ReserveBank.cfg`: BankMayRefuse TRUE, MaxCrashes 0 | `WaitMeansRegistered` | a registration that the bank refused counts as made (reserves.ts:282) |
| `ReserveBank.cfg`: MaxCrashes 0 | `SelectionErrorIsTrue` | "reserve info selection is not done" is thrown though the bank has it (reserves.ts:278) |
| `ReserveBank.cfg`: BankUrls {FALSE}, MaxForced 1, MaxCrashes 0 | `WithdrawingEnds` | a query forced after a withdrawal leaves the reserve WITHDRAWING for ever, always due (reserves.ts:671) |
| `Functions.cfg` | `AwaitedIsExpected` | withdrawals that are expected are subtracted from what is still to come in (reserveHistoryUtil.ts:221) |
| `PurchaseRefunds.cfg`: Refunds {1}, MayRefuse FALSE, MaxCrashes 0 | `RefundArrives` | the end of one refund query swallows the next (refund.ts:266) |
| `PurchaseRefunds.cfg`: Queriers OneQuerier, AutoRefund and MayRefuse FALSE, MaxCrashes 0 | `RefundArrives` | all refunds of a purchase have the same key (refund.ts:129), so the second never reaches its coin |
| `PurchaseRefunds.cfg`: Queriers OneQuerier, Refunds {1}, AutoRefund FALSE, MaxCrashes 0 | `RefusalIsRecorded` | the test for a refund that failed for good is never true (refund.ts:153) |
| `PurchaseSessions.cfg`: Payers {p1}, Sessions {s1}, Refunds {1}, AutoRefund and EarlyRefunds FALSE, MaxCrashes 0 | `PaidForTheSession` | a failed replay is reported as paid the next time (pay.ts:917) |
| `Recoup.cfg`: Coins, Initial {withdrawn, spent, change}, Denoms {d1, d2}, DenomOf MCDenomOf, Attempts {1}, ScopeChecked TRUE, MaxCrashes 0 | `RecoupsFinish` | where the host's IndexedDB checks the scope of a transaction, a group with a refreshed coin and others may never be finished (recoup.ts:82) |
| `Recoup.cfg`: Coins, Initial {withdrawn, second}, MaxCrashes 0 | `AsleepHasSeenAll` | the reserve falls asleep before it has seen all that was paid back (recoup.ts:193) |
| `Recoup.cfg`: Amount WithDust, Coins {withdrawn, spent, change}, DenomOf MCDenomOf, Denoms {d1, d2} | `ValueIsTracked` | what is paid back to a coin that is being recouped itself is added to a coin that nobody looks at again (recoup.ts:262) |
| `Exchange.cfg`: MaxCrashes 0, Updaters {u1} | `RevokedStays` | a withdrawal puts back a denomination it read before it was revoked (withdraw.ts:347) |
| `Exchange.cfg`: MaxCrashes 0, Updaters {u1} | `OnlyGoodSelected`, `RevokedIsRecouped` | after a bad signature the same denominations are selected again (withdraw.ts:326); a coin that arrives after the revocation is never recouped |
| `Exchange.cfg`: Selectors {}, MaxKeys 2, MaxCrashes 0 | `WireIsForKey` | the wire fees of an old master key are stored beside the new keys (exchanges.ts:205) |
| `RetryLoop.cfg`: Spec, Accepts 2, Works {reserve, group}, Scenes OnlyTips, Callers Everyone | `SignedIsStored`, `TipOnce` | a tip that is accepted twice makes two sets of planchets, one of which is signed and lost, or two withdrawal groups (tip.ts:323) |
| `RetryLoop.cfg`: Orders {o1, o2}, Scenes OnlyOrders, Callers Everyone | `BoughtOnce`, `RefusedIsNotPaid` | one resource is bought twice (pay.ts:627); a refusal overwrites a payment |
| `RetryLoop.cfg`: Users {u1}, Works {group}, Scenes OnlyWork | `BackoffIsKept`, `StoppedEnds` | a forced retry resets the backoff of what has just failed; stop() leaves the loop asleep for ever (wallet.ts:596) |
| `RetryLoop.cfg`: Scenes TipAndWork | `SleepsWhenIdle` | a tip that nobody accepted is always due: the loop sleeps no time at all (pending.ts:339) |
| `Database.cfg`: EarlyThrow TRUE, MaxRequests 1, MaxCrashes 0 | `SomebodyWorks` | a function that throws before its transaction began leaves the backend taken (BridgeIDBTransaction.ts:76) |
| `Database.cfg`: MaxRequests 1, MaxCrashes 0 | `TransactionAbortAborts` | a function that throws TransactionAbort commits what it did before (query.ts:324) |
| `Database.cfg`: Values Moves, MaxCrashes 0 | `IndexAgrees`, `OneAfterTheOther` | a put that changes the index key leaves the old index entry (MemoryBackend.ts:1430) |
| `Database.cfg`: TornWrites TRUE | `OneAfterTheOther` | a process that stops while it writes the file leaves half of it (helpers.ts:91) |
| `Database.cfg`: FairSpec, Conns {c1, c2}, Txs {t1}, Versions {1, 2}, MaxRequests 0 | `OpenIsAnswered` | an upgrade waits for a connection that is never told to close |
| `Functions.cfg` | `RefundsAreTold` (refund.ts:208), `MinIsLeast` (time.ts:66), `SecondsPass` (RequestThrottler.ts:57), `OneExchangeIsEnough` (pay.ts:386), `FeeIsOfTheTime` (pay.ts:371), `CostIsTold` (pay.ts:198), `NeverIsSigned` (cryptoImplementation.ts:97), `ParamsHaveNames` (payto.ts:44), `SamePath` (taleruri.ts:145), `TreesAreValid` (b+tree.ts:1298) | see the comments of these definitions |

## 5. Proofs

TLAPS proves the following for every value of the constants, from the named
assumptions of the modules: sets of coins, calls, refunds and records are finite, amounts and
bounds are natural numbers, and different kinds of things are different.

Some properties fail at one known step, as the table above shows. Their theorems assume nothing that would keep the code from
taking this step. They have the form `Spec => []P \/ <><<Step>>_vars`: P holds always, or `Step` has happened. As `Spec` alone
lets any behaviour stop where it is, this says that P holds as long as no such step is taken, so that this step and no other
breaks it. What holds whether or not it is taken is a theorem beside it.

**`SpendingProofs`.** `AlwaysProtected`: `Spec => []Protected`, from which `TypeCorrect`
and `Untouched` (`FreshNeverShown`) follow. That a fresh coin was never shown is not
inductive: it could be the coin of a payment that is still to be recorded, or appear
among the new coins of two sessions. `Protected` adds what prevents that, in
parts: `PayersOK` (an activity works with something that is there), `ReqsOK` (a
purchase's coins are dormant), `RunsOK` (planchets that are not yet stored
belong to one run), `SessionsOK` (a session's coin is dormant, its new coins are
absent until they are revealed, and no two sessions share them) and `CoinsOK` (fresh
coins are full and in no request). The proof has one lemma for each action, with
one step for each part it can disturb.

Its second part is about the money, on top of `Protected`. `AlwaysCommitted`:
`Committed` has three parts: what a call is about to send is what the database holds
(`CallsOK`), whatever was sent is in the database (`SentIsCommitted`), and what is on
a coin and what the database has given away of it are its value (`Balanced`). From
it follow `OnlyStoredIsSent`, `Accounted` (`EveryCoinAccounted`) and `NoOverspending`: all that was ever sent,
taken together, asks no coin for more than its value.

Two runs at one slot of a group break more than that, as the runs show: after a run that failed, the memo
lets a second one in. `SlotsInOrder` says what of a slot holds however many there are (`SlotsKept`), with what a run knows of its slot:
a slot is finished without a session only when its coin is too small, and one whose session gave its coins is finished.
The one harm is a slot that a run marks as finished when another has just emptied its coin into a session
(`SessionLost`, which TLC reaches). `SessionsAreKept`: until then no finished slot has an open session.
`MoneyStaysOnRecord` holds with these steps and after them: what the coins and the sessions come to that the database holds
(`OnRecord`) is a `Purse` (`KeepsOnRecord`), so that even a lost session is still there.
`IsAPurse`: what a restart recovers is that purse until a session is lost. With groups of one coin the memo alone
keeps the second run away (`MemosOK`), so no session is lost there, and `OneCoinPurse` and `ShownIsHad` (`ShownIsThere`) hold
without saying anything about runs. `OneCoinGroups` is what `Wallet.refresh` and a payment with one coin make. With two coins the
balance counts a session beside the coins that it gave, as a row of the table above shows.

Its third part is about what these steps only choose among, for lists of any length. The loops of
selectPayCoins, getCoinsForPayment, getWithdrawDenomList, add and sub are folds in `Selection` and `Amounts`; each theorem
has one invariant for its loop, of what it holds after some of the members:

- `SelectionsPay`: with `SoFar`, what was contributed and what remains are the amount and the fees so far that
  the merchant does not bear, and as long as something remains each usable coin gave all it has. Hence an amount is
  refused only if all coins together cannot pay it. `SelectionsAreChoices` compares this with `Spending`: its guard on the
  coins' worth is exact, and each selection is one of its choices.
- `ContractsArePaid`: with `TriedSoFar`, each exchange is tried with what is asked for so far. That an exchange which had
  not enough coins leaves its wire fee to the next one makes this an inequality.
- `WithdrawalsFit`: with `PickedSoFar`, nothing that was affordable is left once a turn picks nothing.
  `DenomListsAreChoices` compares it with `ReadCoinToRefresh`, for a list that did not reach the 1000 coins at which the
  code stops.
- `AmountsAddUp`, `AmountsSubtract`, `AmountsCompare`, `AmountsDivide`: exact in the units of the fraction, or said not
  to be. They assume `Currency`, that the base and the greatest value are natural numbers and the base is not 0. In the code it is 10^8; that
  powers of ten are natural numbers would need induction.

`Selection` is taken there with the empty list for `undefined`, and amounts of one currency without fractions, as in `Spending`.

**`SumTheorems`.** These theorems need sums over sets of coins. `Sums` takes the sum from the community
modules, where it is defined by the choice of a function on the subsets that adds one member at a time, and `SumTheorems` proves what is needed of it: that there is such
a function, that all agree, what a sum is with a member more or less, with another
value for one of them, of a part and of two functions. Induction over finite sets is done without the library's
theorem for it, which takes a predicate as a parameter: a set of subsets that contains the empty one and what it
takes to add a member contains them all (`SubsetInduction`, by a minimal subset that is not in it). The loops over lists are folds of
the community modules, which choose a function likewise. For one that takes the last of the numbers up to n
off first there is such a function (`FoldExists`), and its result is in every set that its steps do not leave
(`FoldStaysIn`, by the least number for which it is not). For one that takes the members of a list in their order,
what it holds after each of them is a walk with one step per member (`FoldWalks`). `Sorted` says of a finite
set and a strict order on it that its members stand in a list one after the other, each once: that is what the code's sorting gives.

**`ReserveProofs`.** `ConfirmedStays`: `confirmed` holds exactly in the states past the
bank (`BankSide`). `RegisteredBeforeWaiting`: WAIT_CONFIRM_BANK means that the bank has the reserve, unless the bank has answered the
registration of a reserve that it did not have with an error (`RegistrationRefused`, a row of the table above). The invariant
adds that an activity that is about to record a registration has made it. Whatever the bank refuses, `ConfirmedThroughBank`
(`ConfirmedAtBank`): a reserve of a bank is confirmed only if the bank has it and the user has confirmed the transfer. `BankHeard`
adds that what an activity has heard from the bank is still so.

`ClaimsAreCovered` (`OpenPlanchetsFunded`): the exchange can pay for all planchets that are stored, though any number of
runs of depleteReserve choose coins for the same money, from answers of any age. It is not inductive, as a
group is made from the wallet's history and not from what is in the reserve. `ClaimsOK` compares three
sums: what the exchange has paid for together with what the open planchets cost is at most what arrived there, and at
most what the history has matched or set aside as withdrawn (`Taken`). The first follows for a new group from the second and from
`UnclaimedIsThere`: what is unclaimed in the history and what is taken from it are together at most what arrived. That needs
`ReconcileKeeps`: reconcileReserveHistory matches every item with an entry that was reported, each entry with one item, and loses
nothing that was set aside. `DenomListFills` says that getWithdrawDenomList chooses no more than it is given, and
`NothingMore` that it leaves less than any denomination costs. These operators are folds; what they give
follows from `FoldStaysIn`, with the invariant of the loop as the set.

`OnceForEachCoin` (`CoinsAreWithdrawn`) rests on `CoinsOK`: the exchange books no planchet twice, and a run of processPlanchet that got a signature
has a planchet that was booked. With both, `TypeCorrect` (`TypeOK`) holds. `SleepsWhenDepleted` (`DormantIsDepleted`):
a reserve sleeps only if nothing can be claimed, unless a query was forced while it was being withdrawn from or a plan for a withdrawal waited (`InterruptsWithdrawal`, as another row shows); other forced queries do no harm. `DepletionOK`
adds that only a reserve that is being withdrawn from has something to claim, and that a plan which may still be carried out is
what the history gives now. After such an interruption too, `UnclaimedIsNotLost` (`UnclaimedIsCovered`, from `ClaimsOK`): what a sleeping reserve has
unclaimed is in it, beside what the open planchets cost.

**`PurchaseProofs`.** `TypeCorrect`, which contains that a map of refunds has one
refund for each key; it rests on lemmas about the loops of acceptRefundResponse
(`NewKeysAreNew`, `AddingKeepsKeys`, `RemovingKeepsKeys`). `AppliedIsCredited`: what the
purchase has as applied was refunded and added to its coin. As submitPay puts back copies, this has to hold of each copy
(`RefundsAreReal`). The converse is lost when submitPay puts back a copy that lacks an applied refund (`RefundsLost`,
the row of `CreditedOnce`). `RefundsAgree`: that is the only way; until then coins and purchase agree about refunds, with any
payers, sessions and replays, and with refunds before the payment is known.
`SubmitsUntilPaid`, for any payers, sessions and replays: a purchase that was not paid is marked for submission. Every
copy that submitPay may still put back has to say so too (`Submitting`), unless the merchant has been paid.

**`ExchangeProofs`.** About `Exchange` and `Recoup`, in three invariants. `VerdictsKept`, for
`VerdictsStay`: the copies that withdrawals hold carry verdicts that fit their denominations, and what a withdrawal has
verified is stored. `UpdatesOK`, for `StatusIsTrue`: what an update is about to store belongs to what it has
fetched. `RecoupsOK`, for `NothingTakenTwice`: a coin that is in a group and was not
paid back to is worth nothing, so the next list takes nothing from it.

`Tracked` says where the money of a revocation is. `PlacesOK` tells for each coin and run what the exchange still owes:
an answer on its way means that the exchange has paid, a finished coin was paid back, what is in a group is on no other coin.
`ValueIsTracked` says that the exchange holds for a coin what the wallet has on record for it; the sums of
what groups owe a coin and what was paid to it are taken apart with `SumTheorems`, one term at a time. This is
proved under `[]RecoupedGetNothing`: nothing is paid back to a coin that is being recouped itself. The code does not enforce that,
and the row `WithDust` shows the value that is lost otherwise. Both specifications, of `Recoup` alone and of `Exchange`,
take steps of one kind (`RecoupMove`), so the lemmas serve `RecoupTracksValue`, `RecoupPaysBack`
and `UpdatesTrackValue`, `UpdatesPayBack`.

**`RetryLoopProofs`.** `AlwaysTyped`: `Typed` says of each activity what it has in its locals where it is (`Calls`),
and that the loop's list of operations stays right while it is worked off: a tip on it that was accepted is still accepted when its
turn comes. `ChoicesStand` (`ChoiceStands`): no
proposal goes back, with any number of downloads beside each other; the step lemmas compare the ranks of its states.
`PickedUpOnce` (`TipOnce`) and `StoredIsSigned` (`SignedIsStored`) follow from `TipsOK`: whoever is past the
start of processTip has the planchets that are stored, and a group is there for a tip that says so. They are
proved for one call of acceptTip (`Accepts <= 1`), beside any runs of processTip by the loop and by the host: a second call writes back
a whole record that is older, as the row `Accepts 2` shows.

**`CryptoApiProofs`.** `CountIsRight`, `NoAnswerAstray`, `NoIdleWaiting` and `TypeCorrect`, for any number of
workers, calls and priorities. They need each other: the counter stays right only if an answer
finds its item, a worker that finds no work in the queues may only then be left idle, and
both need to know which threads can still answer at all. `Pooled` conjoins them with `BusyIsStarted` (only a
worker that was started is at an item) and `StoppedIsQuiet` (after the stop there is at most one
answer to come, from the synchronous worker, and it is still counted, so that the counter cannot fall below
zero). The two lemmas `WorkerInRunningApi` and `WorkerInStoppedApi` carry the invariant through the change
of one worker; `LooksForWork` says what findWork does to it.

`IsAPool`: `CryptoApi` implements `WorkerPool`, so that callers see calls wait, run and be answered, and no workers. For
this `Served` adds where a call is: its promise is open exactly as long as it is in one queue, once, or at one
worker, or an answer that nobody waits for is left (`CallsAreSomewhere`). Each action
is then a step of the pool or changes nothing in it: what findWork takes up was waiting (`WorkerEnds`, `CallLeaves`),
and as many calls run as workers are busy (`RunningAreCounted`).

**`DatabaseProofs`.** `OutcomeIsTold` (`PromiseTellsOutcome`): a transaction resolves after its dump and rejects before it,
with any number of connections and transactions, and whatever their functions do when. `OutcomeOK` says of each state of a transaction what
may have been stored and told by then (`ToldOK`); a transaction that commits is in the file, or the dump that is being written is its own,
so a crash can take it back only as long as its promise is pending.

`OneHasTheDatabase` (`ConnectionsExclude`): one connection has the database, and it keeps it while a transaction runs on it. This is inductive
only with `HoldersOK`: whoever waits in connectDatabase is there once, and is not yet anywhere else, so the wake-up after a close lets one in.

`NobodyWaitsForEver` (`SomebodyWorks`): as long as a promise of runWithTransaction is pending, a microtask or a task is left (`AtWork`).
With weak fairness this is what a deadlock would break. `WaitersOK` is the reason, with `OwnersOK`: who waits for the database is in the queue,
there is a queue only while a transaction has it, and it has it only while it goes on or an upgrade does. An abort or a commit
that frees the database therefore has to wake the first of the queue (`FreedIsAwaited`; `WakesNobody` is the mutant). It assumes that a function throws only
after its transaction has begun (`~EarlyThrow`); the row `EarlyThrow TRUE` of the table shows the transaction that keeps
everybody waiting otherwise. The theorem is about guards; that they are the ones of the actions (`AtWorkIsEnabled`:
`AtWork` exactly when `EventLoop` is ENABLED) TLC found on the run's instance.

`IndexFollows` (`IndexAgrees`) is proved for stores whose records never change what an index has of them (`OneIndexKey`), as
the run's do. Otherwise it is false: storeRecord adds the new entry and leaves the old, as the row
`Values Moves` of the table above shows. `IndexesOK` says it of all three copies of the store,
the two in memory and the one in the file, since a rollback and a restart bring back the others. The lemmas `StoreRecordKeeps`,
`MutateKeeps` and `DeleteRecordKeeps` compute what each request makes of records and entries. A range is deleted
one key at a time by a fold whose function `Emptied` chooses; for one key it takes one step.

`TransactionsAreSerial` (`OneAfterTheOther`): `Database` implements `SerialStore`. The transactions in the file
happened one after the other: each got the answers that the records before it give, and all its changes are there; a crash
loses and adds none. It assumes `OneIndexKey`, and that a dump is written whole or not at all
(`~TornWrites`); the rows `Values Moves` and `TornWrites TRUE` of the table show that both are needed. The argument has
four parts:

- A function's requests with their answers are a history, and a history explains how one state of the store becomes another
  (`Replayed`). `PerformedIsRight` has for each request that the answer and the store that MemoryBackend computes are the ones that
  `SerialStore` gives for the records alone; the entries of the index may be trusted because of `IndexesOK`.
- `OwnersOK` (`OwnersInductive`): at most one transaction has begun and is not over. The others have asked for nothing yet.
- `Replaying` (`ReplayingInductive`): the history of the transaction that has begun explains what is in memory, from what its rollback would
  restore, and during its dump from what is on disk. The part of it about values is
  `ReplaysOK` in `Database`, which TLC found to hold on the run's instance before it was proved.
- A step is then the commit of a transaction (the end of a dump, or of a transaction that only reads), or it changes nothing of what the mapping shows.

**Only model-checked.** All liveness, as TLAPS has no rules for fairness here (`PendingIsPaid`, `GroupsFinish`,
`CreditsBecomeCoins`, `QueriesEnd`, `CallsAreAnswered`, `RecoupsFinish`, `AcceptedIsPickedUp`, `WorkIsDone`). Of the properties
of `functions`, those about the choice of coins and about arithmetic are proved in parts, as said above; the rest would need induction
over data: what is written and read of amounts, times, versions, throttling, the cost of a payment, codecs and URIs, signatures, the events of the history,
the trees and the reconciliation but for `ReconcileKeeps`. That the guards in `AtWork` are those of
the event loop's actions (`AtWorkIsEnabled`), as ENABLED is out of these provers' reach.

## 6. Plan

What is modelled and proved so far began with what is worst to get wrong, money lost or given out twice, and went on to
where records of several activities meet, and last to the functions that these activities only choose from. What could be proved next:

1. `Selection`: that a refresh loses no more than the fees and what is left over (getTotalRefreshCost), from `WithdrawalsFit`.
2. `ReserveHistory`: how a reconciled history changes from one query to the next, beyond `ReconcileKeeps`.
3. `BTree`: that a tree keeps its order and its number of keys per node; its operators would have to be functions instead of
   RECURSIVE, and the induction over a tree's height be done as the one over sets in `SumTheorems`.

Further invariants are stated in the modules and hold, without a run of their own, as others depend on them or contain them: the
`TypeOK`s, `SlotsKept`, `KeepsOnRecord`, `ConfirmedAtBank`, `UnclaimedIsCovered`, `RefundsAreReal`,
`RemainderCovered`, `BusyIsCounted`, `OpenIsSomewhere`, `ConfirmedIsPastBank`, `CoinsAreWithdrawn`, `NoNewsTwice`,
`OneRefreshAfterRecoup`, `StatusHasItsData`, `OneProposalPerOrder`, `QuietIsNoticed`, `RecoupedGetNothing`, `ConnectionsExclude`, `OwnersOK`, `ReplaysOK`, `WaitersOK`, `AtWorkIsEnabled`.

**Not modelled.** The pages of the web extension, translations and the build tools (no state of the wallet); of the hosts all but
the database file; the arithmetic of nacl-fast.ts and the hash functions; the part of the balance about
withdrawals and pending payments; event records, headers and texts of errors. Of the in-memory IndexedDB what the wallet does not
use: getAll and count, cursors that go backward, multi-entry indexes,
`continue` with a key, and deleteDatabase.
