# Verification of the zkBob relayer

TLA+ models of the services in this repository, the TLC configurations that check
them on small instances, and proofs (TLAPS) of the facts that hold for every
instance. Paths are relative to the repository; `zp-relayer/` is left out where it
is obvious.

## The system

| part | state it keeps | operations | interacts with |
| --- | --- | --- | --- |
| relayer: pool worker (`workers/poolTxWorker.ts`, `pool/RelayPool.ts`) | pool queue and job data (Redis), optimistic nullifiers (Redis), local transaction cache (Redis) | validate, sign, send, record, enqueue | sent worker (shared mutex, sent queue), indexer (HTTP), node |
| relayer: sent worker (`workers/sentTxWorker.ts`) | sent queue with the attempts of each transaction (Redis), attempts of the current one (memory) | poll receipts, re-send, confirm, revert | pool worker, node |
| transaction manager (`lib/network/evm/EvmTxManager.ts`) | nonce (memory; written to Redis, never read back) | prepare, send, re-send, confirm, wait for funds | node |
| relayer API (`services/relayer/endpoints.ts`) | none | submit, job status, listing, info | queues, indexer, cache |
| indexer (`services/indexer`, `watcher/Watcher.ts`, `pool/IndexerPool.ts`, `pool/BasePool.ts`) | confirmed and optimistic tree (disk), last processed block (Redis) | synchronise, watch events, serve roots and transactions | node, relayer, finalizer |
| finalizer (`services/commitment-watcher`, `pool/FinalizerPool.ts`) | confirmed tree (disk), pool and sent queues (Redis) | poll the oldest commitment, prove the tree update, send | node, indexer, prover |
| direct-deposit watcher (`services/direct-deposit`) | cached deposits (Redis), timer (memory) | collect deposits, batch by size or age, enqueue for the prover | node, direct-deposit worker |
| RPC providers (`lib/providers`) | index of the active URL, time of the last switch | send with retries, switch, check for stale nodes | node |
| fees (`lib/fee`, `lib/gas-price`, `lib/price-feed`) | cached options, last gas price | refresh, estimate | node, price feed |
| guard (`services/guard`) | none | check a calldata and sign | node |

### Behaviours that are hard

* two workers, one mutex, and a process that may die between any two awaits;
* sends whose answer is lost, re-sends with a higher price, several hashes for one
  transaction of which at most one is mined;
* a nonce counter that lives in memory and is re-read from the chain at a restart;
* optimistic state that is rolled back as a whole while other transactions are in flight;
* BullMQ's at-least-once delivery after a crash;
* two services (relayer, indexer) that see the same transaction at different times;
* a watcher that persists its position after it has processed a batch, so that a
  restart repeats events;
* timers and queues whose handlers share the same Redis list.

### What makes each part correct

* **pipeline**: a status a client reads agrees with the chain; no accepted job is
  forgotten; every nonce has one owner that will send it; every attempt that can be
  mined stays known; no two transactions in flight spend one nullifier; jobs end.
* **indexer**: the confirmed tree is always one the contract had; nothing confirmed is
  unknown; no event is skipped for good; a start ends; the trees catch up.
* **direct deposits**: every deposit is on its way exactly once; batches fit the
  circuit; a deposit never waits without somebody who will take it.
* **finalizer**: proofs are made on the contract's tree only; one transaction per
  commitment at a time; no commitment is left without a way on.
* **local transaction cache**: a transaction that was sent is listed, whether the relayer
  or the indexer knows it, and with the same commitment and memo; what the indexer has
  leaves the cache.
* **RPC providers**: a request fails only when every URL failed it; the primary URL comes
  back as long as requests go on.
* **fees**: a node takes the last attempt in place of the others; a quote comes from one gas
  price.

## Modules

| module | models | status |
| --- | --- | --- |
| `TxPipeline` | pool worker, sent worker, transaction manager, node and chain | done |
| `JobLedger` | abstract: what a client may rely on when it polls `GET /job/:id` | done |
| `TxPipelineMC` | constants of the pipeline's TLC runs | done |
| `TxPipelineProofs` | proofs about `TxPipeline` that hold across crashes: types, statuses, accounting, hashes | done |
| `TxPipelineLedgerProofs` | proofs about `TxPipeline` between crashes: nonces, attempts, nullifiers, the refinement of `JobLedger` | done for safety |
| `Indexer` | start, synchronisation, watcher and wipes of the indexer | done |
| `IndexerProofs` | proofs about `Indexer` | done for safety |
| `DirectDeposits` | batch cache, direct-deposit watcher, proving worker | done |
| `DirectDepositsMC` | symmetry of the TLC run | done |
| `DirectDepositsProofs` | proofs about `DirectDeposits` | done for safety |
| `Finalizer` | watcher of commitments, synchronisation from the indexer, proofs, receipts | done |
| `FinalizerProofs` | proofs about `Finalizer` | done for safety |
| `TxCache` | the relayer's cache, its observer, the listing of transactions | done |
| `TxCacheProofs` | proofs about `TxCache` | done for safety |
| `Calldata` | layout of calldata and memos, the records made of them; used by `TxCache` | done |
| `Providers` | the list of RPC URLs under concurrent requests | done |
| `ProvidersProofs` | proofs about `Providers` | done for safety |
| `Quotes` | gas price, fee manager, prices of attempts and re-sends | done |
| `QuotesProofs` | proofs about `Quotes` | done |

The services share no memory, so each has a module of its own. What crosses the border is
kept on both sides: the relayer's modules treat the indexer's list as an external action,
`Finalizer` the indexer's pages, `DirectDeposits` the pool transaction of a batch.
`TxCache` composes with `Calldata`, the one place where two services have to agree on data.

### TxPipeline

One process, two workers of concurrency one, one mutex. Each `await` that another
worker, the node or a crash can get between is a step.

| state | code |
| --- | --- |
| `poolQ`, `poolStalled`, `sentQ`, `sentStalled`, `paused` | the BullMQ queues (waiting jobs; jobs that were active at a crash; the pause of `pauseQueue`/`resumeQueue`) |
| `jobState` | `job.data.transaction.state` |
| `optNullifiers`, `txStore` | `optimisticState.nullifiers`, `TxStore` |
| `nonce`, `waiter` | `EvmTxManager.nonce`, a `waitingForFunds` loop |
| `known` | `prevAttempts` of the sent job in progress, in memory |
| `mempool`, `mined`, `chainNonce`, `spent`, `funded` | external: the node and the contract |

The pool worker goes `idle -> validate -> prepare -> send -> nullifier -> cache ->
save -> enqueue -> ack -> idle`, with exits for a refused job and for a throw. The sent
worker goes `idle -> check`, from there to `resend -> save -> check` (no receipt), `confirmed` (receipt) or `rollback -> reverted`
(reverted), and `ack`. `PoolHolds` and `SentHolds` say in which of these steps a worker
holds the mutex. An attempt is the triple of job, nonce and price: it stands for the
transaction's hash. `validateTx` is the two nullifier checks plus one nondeterministic
refusal. `Crash` empties the memory and leaves active jobs to `PoolRedeliver` and
`SentRedeliver`. Writes that nobody awaits and one connection carries in order (the cache
and the job in `onFailed`) are one step.

`ThrowsAt` names the steps at which a call that no handler guards may throw. In the pool
worker (`PoolThrows`) these are the save of a FAILED state (`"validate"`), `prepareTx` once
it has taken a nonce (`"prepare"`: its save to Redis or the signature), the pause of the
queues (`"send"`), the parts of `onSend` (`"nullifier"`, `"cache"`), the save of SENT
(`"save"`) and `sentTxQueue.add` (`"enqueue"`): BullMQ fails such a job, its status stays,
and nobody has its nonce. `"sent"` is a throw in the sent worker, whose `withLoop` starts
over (`SentThrows`), `"funds"` an error of `getBalance`, which ends the watcher
(`FundsCheckFails`).

Six history variables hold what the code does not keep, and no guard reads them:
`forgotten`, the attempts that only a worker's memory knew at a crash or a throw;
`interrupted`, the jobs a crash cut short after their signature; `unacked`, the refused jobs
whose acknowledgment a crash lost, so that they are validated again; `dropped`, the jobs the
pool worker left at a throw, and `leaked`, their nonces; `unwatched`, whether a pause of the
queues has been left without a watcher.

### Indexer

The process goes `start -> index -> sync -> init -> idle -> batch`, a synchronisation
that ends with the wrong root goes `wipe -> wipeOptimistic -> reset -> down`. With a start
block of 0, the default, it goes from `start` to `init` (`StartUnsynced`). A block
holds at most one event (`MineEmpty`, `MineMessage`, `MineRoot`); indexes count
transactions. The trees (`optimistic`, `confirmed`) are sets of leaf indexes: the root
of a set is the contract's root at `n` exactly if the set is `0..n-1` (`RootIs`), since
the root is a hash of all leaves. `lastConfirmedBlock` and `savedBlock` are Redis keys.
The fault actions (`StartFails`, `HandleFails`) are a request to the node that fails,
with what the code's `try` around it does. `Crash` falls between steps, `KilledConfirming`
between the writes to the two trees and the save of the sync point, `KilledPropagating`
between the leaves of one root update. Elsewhere an event is one step: the save of the sync
point, which nobody awaits, is taken with it, and so are a leaf and its stored transaction
(`PoolState.updateState`). No guard reads the history variables: `skipped` holds the
transactions left out by a start that did not scan the chain, because its start block is 0
(`StartUnsynced`) or its confirmed tree has the contract's root, so that `syncState` returns
before it reads a block (`ReadIndex`); `torn` those that a kill left in the confirmed tree
only.

### DirectDeposits

Threads `Start` (the processing of the cache at a start), `Watcher`, `Reprocess` and
`TimerRuns` (executions begun by an expired timer) run `BatchCache`. `Store`, `Count`,
`Decide...`, `Take` and `Validate` are the code between two awaits of `add`,
`processCache` and `execute`; the validations of one round, which run in parallel and
only read, are one step. The queue request is not awaited (`posting`). The worker
(`Prove`, `ProveFails`, `WorkerCrash`) is another process. The contract, users, and the
producer of the reprocess list (none in the repository) are external; `refunded` are the
deposits that users took back. A deposit of `Invalid` is one that a check refuses (the key,
the user and the amount, or the screener's, whose answer is taken as fixed). A pool
transaction of a batch is one external step (`AppendDeposits`), since the pool worker's
own steps are in `TxPipeline`.

### Finalizer

Commitment `i` is the i-th one announced. The process goes `read -> page -> ... ->`
workers up at a start and, per job, `read -> page -> ... -> send -> record -> ack`
(`BasePool.syncState`, `syncStateFromIndexer`, `buildFinalizeTx`). The trees are functions
from leaves to commitments, since the pages are asked for at one tree's next index and put
at the other's: a commitment may land at a wrong leaf, which only the comparison of roots
(`tree = Exact(n)`) finds. Polling (`WatchFetch`, `WatchCheck`, `WatchAdd`) runs beside.
Other provers, grace periods, and stale answers of the node are external. The direct-deposit
jobs that `onConfirmed` knows (`FinalizerPool.ts:147`, `155`) and that write the same
optimistic tree are left out.

### TxCache and Calldata

`Send`, `SendInfo`, `SendStore`, `SendStart` are `onSend` between its awaits, the
`Observer...` actions `localCacheObserverWorker`, one per request; `Ask(offset)` and `Reply`
the two halves of `GET /transactions/v2` from that offset on. The indexer's list only grows:
its wipes are not followed here. `Calldata` writes calldata as a sequence of hex digits, each
of which names its field and its place there, so that a cut at a wrong offset shows; builders,
parsers and the records are operators on it. A record's hash is that of an attempt: the
first one in the relayer's cache, the mined one at the indexer.

### Providers

One `current` URL (`currentIndex`), and for each request the saved index, the count of URLs
tried and the round. Blocks are not numbered: whether a node has the block asked for is a
choice at the answer. `kind` is the provider in front: `check` (`checkLatestBlock`), `logs`
(`SafeEthLogsProvider`), `raw` (`RedundantHttpListProvider`). The checker runs only with an
interval above 0 (the default is 0): a check may begin, and no fairness says that one does.

### Quotes

A price is the record of its three fields, 0 for one that is absent (`'gasPrice' in tx`).
`price` is `cachedGasPrice`, `fees` the single value of `cachedFeeOptions`, `update` the runs
of the fee manager's timer that have a gas price and wait for the price feed. The six fees of
the code are one value, as each is computed from the same price and rate. `attempts` is
`prevAttempts` of the transaction in flight, of which the job in Redis has the first `saved`;
`sending` is a re-send that waits for an answer, and `held` the attempts that a node may
have. `Dies` loses the unsaved attempts (`sentTxWorker.ts:63` saves after a re-send that was
taken), and `held` drops those.

## Runs

| run | question | bounds |
| --- | --- | --- |
| `pipeline_core` | ownership of nonces, cache of a reverted job, refinement of `JobLedger`; jobs end, pauses end | 2 jobs with different nullifiers, 2 prices, 1 dry account, reverting calls, lost answers of the node, throws in `prepareTx`, the sent worker and the funds watcher; no crash, nothing the node forgets (104,000 states) |
| `pipeline_shared` | no double spend when two of three jobs share a nullifier | 3 jobs, 1 transaction the node forgets, throws everywhere but at `"nullifier"` (647,000 states) |
| `pipeline_restart` | *violation*: a job never ends after a restart | 2 jobs, 1 crash, no throw |
| `pipeline_revert_clears` | *violation*: a double spend in flight | 3 jobs, no crash, no throw |
| `pipeline_history` | across a crash and throws: truth of statuses, accounting of jobs, which hashes are lost, FAILED jobs that were sent, final statuses that change | 2 jobs with different nullifiers, 2 prices, 1 crash anywhere, foreign spends of nullifiers, throws in `prepareTx`, at the save of SENT and in the sent worker (6.5 million states) |
| `indexer` | the served tree, known transactions, nothing left out but by a start that did not scan; a synchronisation ends, the tree catches up | 6 blocks, both start blocks, batches of 1 + 1 block, 1 confirmation, 1 crash, kill between two writes or failed request (2.6 million states) |
| `deposits` | attendance of the cache, size of batches, no duplicates, no losses, reverts only for refunds | 4 deposits, 1 that a check refuses, batches of 2, 2 timers at once (symmetric), 1 mishap (1.4 million states) |
| `deposits_live` | deposits end | 3 deposits, 1 that a check refuses, 1 timer at once, 1 mishap |
| `finalizer` | proofs on the contract's tree, one at a time, none blocked; all finalised | 3 commitments, 2 with another prover, pages of 1, 1 mishap (387,000 states) |
| `txcache` | keeping, listing and cleaning of the cache, the same commitment and memo from both sides | 2 transactions and 1 of others, pages of 2 from any offset, 1 mishap (597,000 states) |
| `providers` | every URL tried; the primary comes back | 4 URLs, 1 check and 1 other request at once, 2 retries |
| `quotes` | replaceable attempts, quotes of one price | prices to 3, limit and fallback 2, 3 re-sends, 2 updates at once, any number of restarts (207,000 states) |

Why the bounds are enough. Two jobs are what one mutex, one nonce order and two workers need to
interfere (a third waits in a queue as the second does); three are needed when two of them are
rivals and one is reverted. Two prices distinguish a re-send from the first send; a bump saturates
at `MaxPrice`. `MaxCrashes` is at most one because BullMQ redelivers a stalled job once and fails
it the second time (`maxStalledCount`), which the model leaves out. `pipeline_shared` has throws
at every step but one. In the runs with liveness or a crash, which are far larger, the throw in
`prepareTx` stands for those before the send and, in `pipeline_history`, that at the save of SENT
for those after it; the theorems hold for every `ThrowsAt`, but for the two named below. Six
blocks are three transactions and their root updates, the least after which a restart finds a hole
in its tree and wipes the state, or two of them with blocks between them, so that a batch may
start before, at and after each. In `pipeline_history` both jobs may be signed and unsaved, or
re-sent and unsaved, at the crash. Three commitments give a tree with a commitment before and one
after a misplaced one, and pages of one a page boundary between any two. Two cached transactions
are what one observer's round may see in part. Four URLs distinguish the current, the saved, the
primary and the next one. Market prices from below the fallback to above the limit meet every
branch of `Choose` and `WithinLimit`. Batches of two with four deposits are the least with which a
second round of validation could overfill a batch. `CHECK_DEADLOCK FALSE` is in every
configuration because each system does stop: when all jobs have ended, when the chain has its full
length, when all deposits are in the pool.

### Fairness

* `FairSpec` of `TxPipeline`: strong fairness of each worker's steps, since the mutex
  (async-mutex) is first come first served and a worker that waits for it gets it; strong
  fairness of `SentResend`, that is, the node does not refuse every re-send, and of
  `SentConfirmed` and `SentReverted`: an outcome that is reported again after each throw is
  saved in the end; weak fairness of mining, topping up, the funds watcher and BullMQ's redelivery.
* `Indexer`: weak fairness of the start, of the watcher (a timer repeats it) and of the
  restart by the supervisor. `SyncEnds` is about starts whose blocks hold what the contract
  has confirmed: others need not end (below).
* `DirectDeposits`: weak fairness of each thread (a Redis request is answered), of the
  timer, the polls, the worker, the chain and the restart.
* `Finalizer`: weak fairness of the watcher, the worker, mining, the indexer and the grace
  periods; strong fairness of the sent worker, which takes turns at the mutex. None of
  other provers, announcements and mishaps.
* `TxCache`: weak fairness of `onSend` once begun and of the observer. None of the indexer
  or the chain.
* `Providers`: weak fairness of each request once begun (requests time out). None of the
  clock, and none of the start of requests, not even of the checker, which is off by default:
  that requests go on is the premise of `PrimaryRetried`.

### Findings

* `pipeline_restart`: the nonce is re-read with the chain's confirmed count while
  transactions are pending, so it is handed out twice; the second job is re-sent for ever.
* `pipeline_revert_clears`: a reverted job clears all optimistic nullifiers, those of jobs
  in flight too, and a second spend of one of these is accepted.

### What the code does not keep

Met while modelling. Most contradict no line of the repository; where one does it is named.
What would break a property is excepted by name in it; no run expects a violation.

* `prepareTx` increments the nonce before it saves it to Redis and signs
  (`EvmTxManager.ts:105`), and after a send that failed and was only logged ("it will be
  re-sent later") come `onSend`, which asks the indexer for `/info`, the save of SENT and
  `sentTxQueue.add` (`workers/poolTxWorker.ts:104`). All are outside the worker's `try`
  blocks: if one throws, the job leaves the pool queue with no entry in the sent queue, a
  client that polls it reads WAITING or SENT for ever, and its nonce, unless the node has its
  transaction, blocks the account. `dropped` and `leaked`, which `JobAccounted`, `NonceOwned`
  and `JobsResolve` except.
* An error of `getBalance` ends the watcher for funds (`EvmTxManager.ts:273` is not a call of
  `retry`), and the queues stay paused; so they do after a restart. `PauseEnds` and
  `JobsResolve` except it (`unwatched`).
* A crash between the refusal of a job and its acknowledgment gives it out again: a job told
  FAILED may then be sent (`unacked`).
* The sync point that a root update saves (`pool/BasePool.ts:371`) may lie behind
  transactions that are pending then; an indexer restarted there repeats its scan for ever.
  So does one whose last block is read before the contract's index
  (`services/indexer/init.ts:15`) until the pool is quiet. `SyncEnds` excepts both.
* On a first run both trees are empty while no root update has been mined, so the
  synchronisation returns before it reads a block (`pool/BasePool.ts:164`) and the watcher
  starts after the last one: a transaction pending then is never searched for, although
  `CONFIGURATION.md:10` names the block from which the search starts. With the default of that
  block, 0, the synchronisation is not even called (`pool/IndexerPool.ts:17`), on a first run
  or a later one: what was announced before the watcher's first block is left out, and a root
  update among it is not seen. `skipped` of `Indexer` records such transactions.
* A kill between the two writes of `pool/BasePool.ts:349` leaves a leaf in the confirmed tree
  that the optimistic one lacks, and the next start does not notice if the root fits (`torn`).
* A transaction that is sent again keeps the hash of its first attempt in the relayer's cache
  (`pool/RelayPool.ts:308`; "TODO: add pool onResend logic", `workers/sentTxWorker.ts:65`),
  while the indexer has the mined one's: `SameRecord` is about commitment and memo, and about
  the hash if the first attempt was mined.
* `GET /transactions/v2` leaves out cached entries that its own page lists; with an offset
  behind such an entry it is served again until the observer has removed it.
* A deposit that a check refuses, or that gets no answer, is dropped from the cache
  (`services/direct-deposit/BatchCache.ts:95`) while it is pending in the contract, and
  nothing adds it again.
* `onSend` starts no observer while `observePromise` is set, and it is set until the
  `finally` of an observer that has read an empty cache has run (`pool/RelayPool.ts:348`).
  An entry stored in between is observed by nobody until the next send, although the
  observer is to "return when local cache is empty" (line 346). In the process the window
  is a microtask wide: the replies to the observer's read and to the store must come in one
  chunk. `Drained` is about entries with an observer.
* `updateUrlIndex(0)` takes the next URL, not URL 0 (`lib/providers/HttpListProvider.ts:69`,
  called at line 89 to go back to the primary). The primary is reached by going round.
* A first attempt at the fallback, which is a legacy price, and a re-send at an EIP-1559
  price leave both kinds in the attempt (`EvmTxManager.ts:110`). The legacy one is read as
  the old price from then on, and re-sends are no longer bumped: `Sendable` excepts such
  attempts (`Mixed`). Whether web3 signs them at all is not in the repository, so that no
  run claims a violation.
* A re-send's bump has no limit (`EvmTxManager.ts:69`), so that
  the limit on `maxFeePerGas` "for each transaction" (`CONFIGURATION.md:41`) bounds first
  attempts only.
* `RELAYER_MIN_BASE_FEE` (`CONFIGURATION.md:62`) is not applied to the cached options, from
  which `GET /fee` answers (`lib/fee/FeeManager.ts:190`).
* A price feed that does not answer rejects in the timer's callback
  (`lib/fee/FeeManager.ts:160`), where nobody catches it (a `Dies` of `Quotes`).
* `OptimismFeeManager` reads `network.gasPrice`, which `EvmBackend` never sets.
* The pool worker calls `validateTx` with no optional checks (`workers/poolTxWorker.ts:46`):
  the fee and the screener are not checked.
* Deadlines are compared with `<=` on big numbers, that is, as decimal strings
  (`validation/tx/common.ts:141`).
* `checkLimits` refuses a deposit of exactly what the pool has left (`gte`,
  `validation/tx/common.ts:152`), and does not count deposits in flight.
* Attempts of failed re-sends are lost in a crash (`workers/sentTxWorker.ts:63`): their
  hashes are not looked for any more, and the next re-send is bumped over an older attempt,
  so that a node that has a later one may refuse it. A redelivered pool job is refused for
  its own nullifier and reported FAILED while its transaction is on its way
  (`workers/poolTxWorker.ts:43`), perhaps after it was reported COMPLETED. `forgotten` and
  `interrupted` of `TxPipeline` and `held` of `Quotes` name these, and the properties say
  that nothing else is lost or misreported.
* Recorded as hazards in `PROJECT.json`, with the property that excepts them: deposits in
  memory at a crash are gone; the deposits of a reverted batch are put back by nobody.

## Proofs

Every safety invariant that a passing run checks is also a theorem, and so is each module's
type invariant, for every value of the constants that the named assumptions allow (one crash
at most in `TxPipeline`): any number of jobs, prices, deposits, timers,
commitments, transactions or URLs. The assumptions on constants are those named in each module
(`...Assumption`). A theorem that needs more says so as its hypothesis:

| hypothesis | theorems | why |
| --- | --- | --- |
| `MaxCrashes = 0` | all of `TxPipelineLedgerProofs` | one crash is enough to violate each of these in the model, as in the code: the nonce is handed out twice (`pipeline_restart`), attempts kept in memory are lost, a redelivered job is refused for its own nullifier or, after a revert that left its nullifier unspent, sent and cached again. The runs of these properties have no crash either; what survives one is in `TxPipelineProofs`, where `HashesRemembered` and `FailedStaysUnsent` state what `HashesKept` and `FailedStaysHome` do with a crash anywhere, with what it undoes named |
| no throw from the signature to the sent queue (`ThrowsAt \cap Signing = {}`) | `HashesKept` | such a throw drops the job and its attempt ("What the code does not keep"); with it, `HashesRemembered` names what is lost |
| `~ForeignMaySpend`, `~CallMayRevert` | `NoneRevertsItself` | reverts that are not the relayer's own doing |
| `"nullifier" \notin ThrowsAt` | `NoneRevertsItself` | if Redis fails as the nullifier of a job that was sent is noted, a second spend of it passes validation |

`MaxCrashes` is at most one in all of them (`PipelineAssumption`): BullMQ fails a job at its
second stall, which the model leaves out.

Where a property itself excepts crashes (`~crashed` in `OnePlace`) or mishaps
(`mishaps = 0` in `OneInFlight`, `NeverBlocked`), the theorem is about all behaviours and the
exception is in the property.

* `TxPipelineProofs`: `TypeCorrect`; `StatusIsTruthful` (a job reported as completed or
  reverted was mined so) by `TruthInv`, which adds that the receipt the sent worker saw is
  still there when it reports; `NoJobForgotten` by `AccountedInv`, `JobAccounted` with each
  queue and worker named;
  `HashesRemembered` and `FailedStaysUnsent` by `HistoryInv`. A crash
  undoes much of `OrderInv` below (nonces are handed out twice, a job is in the pool's and the
  sent queue's stalled set), so that this one is built of what survives: the chain executes
  nonces in order and the sent worker leaves a job after a receipt of its nonce (`ChainOrder`,
  `Executed`), the pool queue and its worker hold a job once (`PoolOnce`), nothing is anywhere
  of a job that was not submitted (`Unknown`), and a job that was not interrupted is validated
  before it has a trace, once unless it is `unacked` (`Fresh`). For each kind of step a lemma
  says what it can move (`SentMoves`, `TraceMoves`, `PoolMoves`, `StatusMoves`, `EndMoves`,
  `ChainMoves`), and one that hashes the relayer knew before it are known or recorded as
  forgotten after it (`MemoryKept`). The action property `OutcomesStay` needs that a job that
  was not interrupted has one nonce in all its traces (`OneNonce`) and a nonce one receipt
  (`MinedOnce`), hence one receipt (`OneFate`), with the `TruthInv` above.
* `TxPipelineLedgerProofs`. The base is `OrderInv`: `StageInv` (which status a job has at each
  step of a worker and in each queue, so that no job is in two), `NonceInv` (no two holders of
  a transaction have one nonce) and `ChainInv` (the chain executes nonces once and in order,
  the node holds one attempt per nonce). On it rest
  - `NoncesOwned` by `OwnedInv`: each nonce between the chain's and the counter has a holder or
    has leaked; uniqueness is `NonceInv`;
  - `HashesKept`: `AttemptsTracked` is inductive with `OrderInv`; the mempool and the mined
    transactions are treated apart (`MempoolTracked`, `MinedTracked`);
  - `RevertedDropped`: with `OrderInv`, a job is only cached while it is being sent;
  - `FailedStaysHome` by `SendInv`: a job that any holder, attempt or receipt names was not
    refused, and all that name it agree on its one nonce;
  - `NoneRevertsItself` by `NullifierInv`: of the jobs past validation no two share a
    nullifier, and each has its own in the optimistic set or is the one about to put it there;
    a nullifier is spent only by such a job;
  - `LedgerImplemented`, `Spec => Ledger!Spec`: initial states map to initial states and each
    action to a move of one job or a stutter (`StatusSteps`); a mined transaction is an
    `Execute`, which needs `SendInv` (no second execution under another nonce) and the
    `TruthInv` above (a job settles in its own fate).
* `IndexerProofs`: `TypeCorrect` by `Shape` (positions are positions of the chain, events
  carry indexes the contract gave); `ServesContractTree` and `ConfirmedStaysKnown` by
  `ServedInv` (which adds that a wipe empties the confirmed tree first); `NothingSkipped`
  by `BatchInv` (every transaction of the blocks a batch has passed is in the optimistic
  tree); `NoOtherHole` by `HoleInv`: a scan starts where nothing before it is missing
  (`Whole`), or past the first transaction without having it, and then never finds the
  contract's root (`Headless`: the root of a tree without leaf 0 is the root of no index), so
  that it ends in a wipe. It needs that positions are blocks of the chain and that indexes are
  announced in order (`PlacesOK`, `FirstMessage`).
* `DirectDepositsProofs`
  - `TypeCorrect` (with: no execution asks for zero deposits);
  - `CacheAttended` by `WatchInv`: the start, the adders and the timers exclude each other as
    far as they do (`Exclusive`), therefore a thread that has counted the cache has an upper
    bound and a cache nobody is counting holds less than a batch (`CacheBounded`), therefore
    the first round of a timer's execution takes all of it;
  - `BatchesFit` by `HandInv`: an executing thread asks for what its batch lacks and holds no
    more than it asked for (`LowestSize`: what `zpopmin(n)` answers has at most `n` elements);
  - `NeverInTwoPlaces` and `NothingLost` by `PlacesInv`. It names the seven places a deposit can
    be in (threads, the three queues, the reprocess list, the cache, failed batches) and the
    deposits the watcher has `Seen` (its position and the batch of events it is at,
    `WatcherInv`). While nothing has crashed only what was seen is anywhere, each thread and
    queue entry holds its own and the places are disjoint (`OnceInv`): that is why the next
    events are new. With or without crashes, what was seen and is pending and not dropped is in
    a place (`LostInv`). Each action moves deposits from one place to another; there is a lemma
    per action, and `QuietKept` for those that move none;
  - `RevertsExplained` by `BackedInv` with `PlacesInv`: what was validated and is on its way is
    pending or refunded, because the contract takes one batch and, the places being disjoint,
    no deposit of another.
* `FinalizerProofs`: `TypeCorrect` by `Shape` (which adds that the trees' domains are bounded
  and that a job is held in the steps that use it); `ProofsFit` (the roots are compared before
  the proof); `PaidOnce` and `NothingBlocked` by `Calm`, which holds while there was no mishap:
  the queue holds waiting jobs once (`QueueInv`), only of commitments whose turn has come
  (`DueInv`), a job is proved on a tree at or past its commitment (`SyncInv`), and what was
  launched is in the mempool, once, or its commitment is final (`SendInv`).
* `TxCacheProofs`: `TypeCorrect` by `Shape` (which adds that `onSend`'s steps are of one
  transaction and that the observer is never ahead of the indexer); `SentIsKept` by `KeptInv`
  (what the observer takes for listed is listed); `NothingMissing` by `AskInv` (a page holds
  listed transactions, no more than the limit). Lemmas on `Without` and on the page's length
  stand for the joining loop. `OneRecord`
  is about the layout of `Calldata` alone: a field is a word of a known number of digits
  (`HexWord`, `Join`), a cut at the place of a field finds it (`Cuts`, `Field`, `Appended`), and
  so the front of the calldata, its memo and the records are taken apart (`FrontFacts`,
  `WithMemoFacts`, `FieldsFound`, `ListedFacts`), for each version and type.
* `ProvidersProofs`: `TypeCorrect`; `EveryUrlTried` by `TriedInv`: what has failed a request
  in its round is the URLs from the saved index on, as many as it has counted
  (`FailedAreTried`), and a round is over after as many as there are (`RoundLength`);
  `RoundIsComplete` shows that these are all.
* `QuotesProofs`: `TypeCorrect`; `OneQuote` by `FromOnePrice` (each cached price and fee is
  one at a single gas price, in particular the one a run holds while it waits for the rate);
  `AttemptsSendable` by `SendInv`: an attempt is of one kind of price or mixed, and one that
  is not mixed comes after such ones only and is above them by the bump (`Climbs`); the
  re-send on its way is above all of them (`Tops`, by `ResendTops`); what a node may hold and
  no restart lost is among them. `ExtraKind` says that rounding keeps the kind and the order
  of the parts.

Each inductive invariant was checked by TLC on the run of its module before it was proved.
Three properties are theorems (`HashesKept`, `FailedStaysHome`, `NothingSkipped`) and in no
configuration: `AttemptsTracked`, `FailedNeverSent` and `BatchComplete` are what
`NothingElseForgotten`, `FailedElseNeverSent` and `NothingElseSkipped` say where nothing is
excepted. Of the type invariants only that of `DirectDeposits`, which also says that no
execution asks for zero deposits, is in a configuration; the others are proved.

Only model-checked:

* liveness: `JobsResolve`, `PauseEnds`, `SyncEnds`, `WatcherCatchesUp`, `DepositsEnd`,
  `Finalised`, `Drained`, `PrimaryRetried`. Fairness and `ENABLED` are out of the prover's
  reach;
* the two violations.

Deletions from a list (`RemoveFirst` for a job's removal from the queue and for an entry's from
the cache, `Without` for the listing's loop) are not `SelectSeq`, which is defined by recursion
the prover does not see through: `RemoveFirst` is so by its index, and `Without` is a recursive
function that is proved about by its domain.

## Not modelled

* request schemas, permits and signatures, provers: functions of libraries without state;
* the guard: no state, and two of the modules it imports are not in the repository;
* `GET /limits` and the checks of limits, amounts and deadlines in `validateTx`: comparisons
  of one request's numbers; a transaction is refused or not, by choice;
* the Tron backend: not reachable from the services and incomplete. Of `DefaultPool`, which
  no service instantiates, only the calldata it once sent;
* configuration, logging: no behaviour of their own;
* BullMQ's second stall of a job, reorganisations of the chain (the code handles neither),
  overlapping runs of the reprocess interval (a run longer than a minute);
* the contents of proofs, memos and commitments: identities are enough for the properties.

## Plan

1. Safety is proved wherever a run checks it. Next are the facts one step behind: that the
   finalizer's tree is behind the contract's by what the indexer lacks and no more, and that
   what a redelivered deposit batch shares with another is all that a crash duplicates.
2. An action property the models suggest and no run has yet: that a saved position of either
   watcher only grows.
3. Split the largest proofs (`TxPipelineLedgerProofs`, `DirectDepositsProofs`) if they grow.
