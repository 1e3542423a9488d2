----------------------------- MODULE TxPipeline -----------------------------
(***************************************************************************)
(* The relayer's transaction pipeline.  A client submits a job; the pool   *)
(* worker (workers/poolTxWorker.ts) validates it, signs a transaction with *)
(* the next nonce, sends it and hands it to the sent worker                *)
(* (workers/sentTxWorker.ts), which polls for a receipt and re-sends the   *)
(* transaction with a higher gas price until one of its attempts is mined. *)
(* Both workers run one job at a time and share a mutex.  The queues, the  *)
(* job data, the optimistic nullifiers and the local transaction cache     *)
(* are in Redis and survive a crash; the nonce counter, the attempts of    *)
(* the sent job in progress and the funds watcher do not.  A call to Redis,*)
(* the indexer or the node may throw where no handler expects it.          *)
(*                                                                         *)
(* The node and the chain (mempool, mining, nullifiers of the contract)    *)
(* are external.  An attempt is identified by the job, the nonce and the   *)
(* gas price it was signed with: that triple stands for its hash.          *)
(***************************************************************************)
EXTENDS Naturals, SequencesExt

CONSTANTS
  Jobs,            \* pool jobs (a job's id, calldata and out commitment)
  Nullifiers,
  NullifierOf,     \* the nullifier each job spends
  MaxPrice,        \* bound on gas prices: a bump saturates here
  MaxCrashes,      \* bound on crashes of the process
  MaxDrops,        \* bound on transactions the node forgets
  MaxDry,          \* bound on the times the relayer's account runs dry
  LegacyPricing,   \* whether prices are `gasPrice` rather than EIP-1559 ones
  ThrowsAt,        \* where a call that no handler guards may throw
  ForeignMaySpend, \* whether others may spend a nullifier on chain
  CallMayRevert,   \* whether a call may revert though its nullifier is unspent
  NoJob, NoSent    \* no active job in the pool queue, in the sent queue

\* One crash at most: BullMQ redelivers a job that stalled once and fails one
\* that stalls again (maxStalledCount), a case this model leaves out.
ASSUME PipelineAssumption ==
  /\ NullifierOf \in [Jobs -> Nullifiers]
  /\ MaxPrice \in Nat \ {0}
  /\ MaxCrashes \in {0, 1}
  /\ MaxDrops \in Nat
  /\ MaxDry \in Nat
  /\ {LegacyPricing, ForeignMaySpend, CallMayRevert} \subseteq BOOLEAN
  /\ ThrowsAt \subseteq {"validate", "prepare", "send", "nullifier", "cache",
                         "save", "enqueue", "sent", "funds"}
  /\ NoJob \notin Jobs

Prices   == 1..MaxPrice
JobState == {"none", "waiting", "sent", "completed", "reverted", "failed"}
Attempt  == [job : Jobs, nonce : Nat, price : Prices]
Receipt  == [job : Jobs, nonce : Nat, price : Prices, ok : BOOLEAN]
SentJob  == [job : Jobs, nonce : Nat, prices : SUBSET Prices]

ASSUME NoSentAssumption == NoSent \notin SentJob

VARIABLES
  jobState,    \* job.data.transaction.state, as GET /job/:id returns it
  poolQ,       \* waiting jobs of the pool queue
  poolStalled, \* jobs of the pool queue that were active when it crashed
  sentQ,       \* waiting jobs of the sent queue, with their saved attempts
  sentStalled, \* jobs of the sent queue that were active when it crashed
  paused,      \* the pause flag of the two queues (set and cleared together)
  optNullifiers, \* optimisticState.nullifiers
  txStore,     \* jobs whose commitment is in the local transaction cache
  poolPc, poolJob, attempt,  \* the pool worker: its step, job, signed attempt
  sentPc, sentJob, known,    \* the sent worker: step, job, prevAttempts in memory
  nonce,       \* EvmTxManager.nonce
  waiter,      \* a waitingForFunds() loop is running
  mempool,     \* attempts the node holds, at most one per nonce
  chainNonce,  \* the account's next nonce on chain
  mined,       \* receipts
  spent,       \* nullifiers of the contract
  funded,      \* the account can pay for a transaction
  crashes, drops, dries,  \* how often each bounded event has happened
  forgotten,   \* history: attempts whose hash the relayer has lost
  interrupted, \* history: jobs a crash cut short after their signature
  unacked,     \* history: refused jobs whose acknowledgment a crash lost
  dropped,     \* history: jobs the pool worker left because a call threw
  leaked,      \* history: nonces of such jobs
  unwatched    \* history: a pause has lost its watcher, or never had one

queueVars == <<jobState, poolQ, poolStalled, sentQ, sentStalled, paused>>
cacheVars == <<optNullifiers, txStore>>
poolVars  == <<poolPc, poolJob, attempt>>
sentVars  == <<sentPc, sentJob, known>>
memVars   == <<nonce, waiter>>
chainVars == <<mempool, chainNonce, mined, spent, funded>>
historyVars == <<forgotten, interrupted, unacked, dropped, leaked, unwatched>>
auxVars   == <<crashes, drops, dries, historyVars>>
vars == <<queueVars, cacheVars, poolVars, sentVars, memVars, chainVars, auxVars>>

NoAttempt == <<>>

PoolSteps == {"idle", "validate", "prepare", "send", "nullifier", "cache",
              "save", "enqueue", "ack"}
SentSteps == {"idle", "check", "resend", "save", "confirmed", "rollback",
              "reverted", "ack"}

Init ==
  /\ jobState = [j \in Jobs |-> "none"]
  /\ poolQ = <<>> /\ poolStalled = {} /\ sentQ = <<>> /\ sentStalled = {}
  /\ paused = FALSE
  /\ optNullifiers = {} /\ txStore = {}
  /\ poolPc = "idle" /\ poolJob = NoJob /\ attempt = NoAttempt
  /\ sentPc = "idle" /\ sentJob = NoSent /\ known = {}
  /\ nonce = 0 /\ waiter = FALSE
  /\ mempool = {} /\ chainNonce = 0 /\ mined = {} /\ spent = {}
  /\ funded = TRUE
  /\ crashes = 0 /\ drops = 0 /\ dries = 0
  /\ forgotten = {} /\ interrupted = {} /\ unacked = {} /\ dropped = {}
  /\ leaked = {} /\ unwatched = FALSE

-----------------------------------------------------------------------------
(* The mutex both workers run under: who holds it, by the step it is in.    *)
PoolHolds == poolPc \in {"prepare", "send", "nullifier", "cache", "save", "enqueue"}
SentHolds == sentPc \in {"resend", "save", "confirmed", "rollback", "reverted"}

(* What the node answers to a raw transaction a.                            *)
Accepts(a) ==
  /\ funded
  /\ a.nonce >= chainNonce
  /\ \A b \in mempool : b.nonce = a.nonce => (b = a \/ a.price > b.price)

Held(a) == {b \in mempool : b.nonce # a.nonce} \cup {a}

(* Gas prices for the next attempt: above every earlier one, up to the bound. *)
Bumped(P) == {p \in Prices : \A q \in P : p > q} \cup {MaxPrice}

(* The attempt that the pool worker has signed and handed to no queue.       *)
Signing  == {"send", "nullifier", "cache", "save", "enqueue"}
Unqueued == IF poolPc \in Signing THEN {attempt} ELSE {}

(* The re-sent attempts that the job in the sent queue does not list.        *)
Unsaved == IF sentPc = "idle" THEN {}
           ELSE [job : {sentJob.job}, nonce : {sentJob.nonce},
                 price : known \ sentJob.prices]

-----------------------------------------------------------------------------
(* POST /sendTransactions: BasePool.transact adds a waiting job.            *)
Submit(j) ==
  /\ jobState[j] = "none"
  /\ jobState' = [jobState EXCEPT ![j] = "waiting"]
  /\ poolQ' = Append(poolQ, j)
  /\ UNCHANGED <<poolStalled, sentQ, sentStalled, paused, cacheVars, poolVars,
                 sentVars, memVars, chainVars, auxVars>>

(* The pool worker fetches the next job unless the queue is paused.         *)
PoolFetch ==
  /\ poolPc = "idle" /\ ~paused /\ poolQ # <<>>
  /\ poolJob' = Head(poolQ)
  /\ poolQ' = Tail(poolQ)
  /\ poolPc' = "validate"
  /\ UNCHANGED <<jobState, poolStalled, sentQ, sentStalled, paused, cacheVars,
                 attempt, sentVars, memVars, chainVars, auxVars>>

(* Variant: the check against the nullifiers in flight is left out.          *)
PoolValidateContractOnly ==
  /\ poolPc = "validate" /\ ~SentHolds
  /\ NullifierOf[poolJob] \notin spent
  /\ poolPc' = "prepare"
  /\ UNCHANGED <<queueVars, cacheVars, poolJob, attempt, sentVars, memVars,
                 chainVars, auxVars>>

(* validateTx and buildTx pass: the nullifier is neither in flight nor spent *)
(* on chain.  The mutex is held from here to the end of the processor.       *)
PoolValidate ==
  /\ poolPc = "validate" /\ ~SentHolds
  /\ NullifierOf[poolJob] \notin optNullifiers
  /\ NullifierOf[poolJob] \notin spent
  /\ poolPc' = "prepare"
  /\ UNCHANGED <<queueVars, cacheVars, poolJob, attempt, sentVars, memVars,
                 chainVars, auxVars>>

(* One of the checks fails, or a service they call does: the job fails.      *)
PoolReject ==
  /\ poolPc = "validate" /\ ~SentHolds
  /\ jobState' = [jobState EXCEPT ![poolJob] = "failed"]
  /\ poolPc' = "ack"
  /\ UNCHANGED <<poolQ, poolStalled, sentQ, sentStalled, paused, cacheVars,
                 poolJob, attempt, sentVars, memVars, chainVars, auxVars>>

(* prepareTx takes the next nonce and signs at the cached gas price.         *)
PoolPrepare ==
  /\ poolPc = "prepare"
  /\ \E p \in Prices :
       attempt' = [job |-> poolJob, nonce |-> nonce, price |-> p]
  /\ nonce' = nonce + 1
  /\ poolPc' = "send"
  /\ UNCHANGED <<queueVars, cacheVars, poolJob, sentVars, waiter, chainVars,
                 auxVars>>

(* The node takes the transaction (whether or not its answer gets back:      *)
(* an error is only logged).                                                 *)
PoolSendAccepted ==
  /\ poolPc = "send" /\ Accepts(attempt)
  /\ mempool' = Held(attempt)
  /\ poolPc' = "nullifier"
  /\ UNCHANGED <<queueVars, cacheVars, poolJob, attempt, sentVars, memVars,
                 chainNonce, mined, spent, funded, auxVars>>

(* Variant: an error of the send is thrown rather than logged.               *)
PoolSendErrorThrows ==
  /\ poolPc = "send"
  /\ poolPc' = "ack"
  /\ UNCHANGED <<queueVars, cacheVars, poolJob, attempt, sentVars, memVars,
                 chainVars, auxVars>>

(* Any other error of the send: logged, and the job goes on as if sent.      *)
PoolSendError ==
  /\ poolPc = "send"
  /\ poolPc' = "nullifier"
  /\ UNCHANGED <<queueVars, cacheVars, poolJob, attempt, sentVars, memVars,
                 chainVars, auxVars>>

(* Variant: the queues are paused and no watcher is started.                 *)
PoolSendNoFundsUnwatched ==
  /\ poolPc = "send" /\ ~funded
  /\ paused' = (paused \/ LegacyPricing)
  /\ poolPc' = "nullifier"
  /\ UNCHANGED <<jobState, poolQ, poolStalled, sentQ, sentStalled, cacheVars,
                 poolJob, attempt, sentVars, memVars, chainVars, auxVars>>

(* Insufficient funds: with a legacy price both queues are paused and a      *)
(* watcher waits for a top-up; then the job goes on as if sent.              *)
PoolSendNoFunds ==
  /\ poolPc = "send" /\ ~funded
  /\ paused' = (paused \/ LegacyPricing)
  /\ waiter' = (waiter \/ LegacyPricing)
  /\ poolPc' = "nullifier"
  /\ UNCHANGED <<jobState, poolQ, poolStalled, sentQ, sentStalled, cacheVars,
                 poolJob, attempt, sentVars, nonce, chainVars, auxVars>>

(* onSend, first part: the nullifier is marked as in flight.                 *)
PoolAddNullifier ==
  /\ poolPc = "nullifier"
  /\ optNullifiers' = optNullifiers \cup {NullifierOf[poolJob]}
  /\ poolPc' = "cache"
  /\ UNCHANGED <<queueVars, txStore, poolJob, attempt, sentVars, memVars,
                 chainVars, auxVars>>

(* onSend, second part: the indexer answers and the commitment is cached.    *)
PoolCacheTx ==
  /\ poolPc = "cache"
  /\ txStore' = txStore \cup {poolJob}
  /\ poolPc' = "save"
  /\ UNCHANGED <<queueVars, optNullifiers, poolJob, attempt, sentVars, memVars,
                 chainVars, auxVars>>

(* job.update: the job is SENT.                                              *)
PoolSaveSent ==
  /\ poolPc = "save"
  /\ jobState' = [jobState EXCEPT ![poolJob] = "sent"]
  /\ poolPc' = "enqueue"
  /\ UNCHANGED <<poolQ, poolStalled, sentQ, sentStalled, paused, cacheVars,
                 poolJob, attempt, sentVars, memVars, chainVars, auxVars>>

(* sentTxQueue.add with the first attempt; the mutex is released.            *)
PoolEnqueueSent ==
  /\ poolPc = "enqueue"
  /\ sentQ' = Append(sentQ, [job |-> poolJob, nonce |-> attempt.nonce,
                             prices |-> {attempt.price}])
  /\ poolPc' = "ack"
  /\ UNCHANGED <<jobState, poolQ, poolStalled, sentStalled, paused, cacheVars,
                 poolJob, attempt, sentVars, memVars, chainVars, auxVars>>

(* The nonce prepareTx handed out for the job, once it has.                  *)
NonceTaken == CASE poolPc = "validate" -> {}
                [] poolPc = "prepare"  -> {nonce}
                [] OTHER               -> {attempt.nonce}

(* What is lost when the pool worker leaves its job at a throw.              *)
Abandon ==
  /\ poolPc \in ThrowsAt
  /\ poolPc = "validate" => ~SentHolds
  /\ poolPc = "send" => ~funded /\ LegacyPricing
  /\ paused' \in (IF poolPc = "send" THEN {paused, TRUE} ELSE {paused})
  /\ unwatched' = (unwatched \/ paused' # paused)
  /\ nonce' = IF poolPc = "prepare" THEN nonce + 1 ELSE nonce
  /\ poolPc' = "ack"
  /\ dropped' = dropped \cup {poolJob}
  /\ leaked' = leaked \cup NonceTaken
  /\ forgotten' = forgotten \cup Unqueued
  /\ UNCHANGED <<poolQ, poolStalled, sentQ, sentStalled, cacheVars, poolJob, attempt,
                 sentVars, waiter, chainVars, crashes, drops, dries, interrupted,
                 unacked>>

(* Variant: the job is marked FAILED, as by an error of validateTx.          *)
PoolThrowsFails ==
  /\ Abandon
  /\ jobState' = [jobState EXCEPT ![poolJob] = "failed"]

(* A call outside the worker's try blocks throws: saving FAILED, prepareTx   *)
(* after it took a nonce (its save to Redis or the signature), pausing the   *)
(* queues (a pause may have taken effect), onSend, saving SENT, adding to    *)
(* the sent queue.  BullMQ fails the job without a retry; its status stays,  *)
(* and nobody has its nonce.                                                 *)
PoolThrows == Abandon /\ UNCHANGED jobState

(* BullMQ moves the active job to completed or failed.                       *)
PoolAck ==
  /\ poolPc = "ack"
  /\ poolPc' = "idle" /\ poolJob' = NoJob /\ attempt' = NoAttempt
  /\ UNCHANGED <<queueVars, cacheVars, sentVars, memVars, chainVars, auxVars>>

-----------------------------------------------------------------------------
(* The sent worker fetches the next job unless the queue is paused.          *)
SentFetch ==
  /\ sentPc = "idle" /\ ~paused /\ sentQ # <<>>
  /\ sentJob' = Head(sentQ)
  /\ known' = Head(sentQ).prices
  /\ sentQ' = Tail(sentQ)
  /\ sentPc' = "check"
  /\ UNCHANGED <<jobState, poolQ, poolStalled, sentStalled, paused, cacheVars,
                 poolVars, memVars, chainVars, auxVars>>

(* The receipts confirmTx can find for the attempts in memory.               *)
Receipts == {m \in mined : /\ m.job = sentJob.job
                           /\ m.nonce = sentJob.nonce
                           /\ m.price \in known}

(* Variant: confirmTx reports any receipt as a success.                      *)
SentCheckAnyReceipt ==
  /\ sentPc = "check" /\ ~PoolHolds
  /\ sentPc' = (IF Receipts = {} THEN "resend" ELSE "confirmed")
  /\ UNCHANGED <<queueVars, cacheVars, poolVars, sentJob, known, memVars,
                 chainVars, auxVars>>

(* Variant: an error of the RPC is taken for a receipt of failure.           *)
SentCheckErrorFails ==
  /\ sentPc = "check" /\ ~PoolHolds
  /\ sentPc' \in {"rollback"} \cup (IF Receipts = {} THEN {"resend"}
                  ELSE {IF m.ok THEN "confirmed" ELSE "rollback" : m \in Receipts})
  /\ UNCHANGED <<queueVars, cacheVars, poolVars, sentJob, known, memVars,
                 chainVars, auxVars>>

(* confirmTx, under the mutex: a receipt of success, of failure, or none.    *)
(* An error of the RPC leaves everything as it is and the loop tries again.  *)
SentCheck ==
  /\ sentPc = "check" /\ ~PoolHolds
  /\ sentPc' \in (IF Receipts = {} THEN {"resend"}
                  ELSE {IF m.ok THEN "confirmed" ELSE "rollback" : m \in Receipts})
  /\ UNCHANGED <<queueVars, cacheVars, poolVars, sentJob, known, memVars,
                 chainVars, auxVars>>

(* Variant: an attempt whose send was not answered is not kept.              *)
SentResendForgets ==
  /\ sentPc = "resend"
  /\ \E p \in Bumped(known) :
       LET a == [job |-> sentJob.job, nonce |-> sentJob.nonce, price |-> p]
       IN  /\ Accepts(a)
           /\ mempool' = Held(a)
           /\ \/ sentPc' = "save" /\ known' = known \cup {p}
              \/ sentPc' = "check" /\ known' = known
  /\ UNCHANGED <<queueVars, cacheVars, poolVars, sentJob, memVars, chainNonce,
                 mined, spent, funded, auxVars>>

(* resendTx signs with a bumped price and the node takes it.                 *)
SentResend ==
  /\ sentPc = "resend"
  /\ \E p \in Bumped(known) :
       LET a == [job |-> sentJob.job, nonce |-> sentJob.nonce, price |-> p]
       IN  /\ Accepts(a)
           /\ mempool' = Held(a)
           /\ known' = known \cup {p}
           /\ sentPc' \in {"save", "check"}   \* "check": the answer was lost
  /\ UNCHANGED <<queueVars, cacheVars, poolVars, sentJob, memVars, chainNonce,
                 mined, spent, funded, auxVars>>

(* Variant: the loop gives up at the first error of a re-send.               *)
SentResendErrorGivesUp ==
  /\ sentPc = "resend"
  /\ \E p \in Bumped(known) : known' = known \cup {p}
  /\ sentPc' = "ack"
  /\ UNCHANGED <<queueVars, cacheVars, poolVars, sentJob, memVars, chainVars,
                 auxVars>>

(* Underpriced, nonce too low or any other error: the attempt is kept in     *)
(* memory and the loop goes on, without saving it.                           *)
SentResendError ==
  /\ sentPc = "resend"
  /\ \E p \in Bumped(known) : known' = known \cup {p}
  /\ sentPc' = "check"
  /\ UNCHANGED <<queueVars, cacheVars, poolVars, sentJob, memVars, chainVars,
                 auxVars>>

(* Insufficient funds: the attempt is pushed and popped again.               *)
SentResendNoFunds ==
  /\ sentPc = "resend" /\ ~funded
  /\ sentPc' = "check"
  /\ UNCHANGED <<queueVars, cacheVars, poolVars, sentJob, known, memVars,
                 chainVars, auxVars>>

(* job.update saves the attempts; the mutex is released until the next loop. *)
SentSave ==
  /\ sentPc = "save"
  /\ sentJob' = [sentJob EXCEPT !.prices = known]
  /\ sentPc' = "check"
  /\ UNCHANGED <<queueVars, cacheVars, poolVars, known, memVars, chainVars,
                 auxVars>>

(* pool.onConfirmed: the pool job is COMPLETED.                              *)
SentConfirmed ==
  /\ sentPc = "confirmed"
  /\ jobState' = [jobState EXCEPT ![sentJob.job] = "completed"]
  /\ sentPc' = "ack"
  /\ UNCHANGED <<poolQ, poolStalled, sentQ, sentStalled, paused, cacheVars,
                 poolVars, sentJob, known, memVars, chainVars, auxVars>>

(* Variant: onFailed ends here, as BasePool's own does.                      *)
SentRollbackOnly ==
  /\ sentPc = "rollback"
  /\ optNullifiers' = {}
  /\ sentPc' = "ack"
  /\ UNCHANGED <<queueVars, txStore, poolVars, sentJob, known, memVars,
                 chainVars, auxVars>>

(* pool.onFailed, first part: clearOptimisticState drops ALL nullifiers.     *)
SentRollback ==
  /\ sentPc = "rollback"
  /\ optNullifiers' = {}
  /\ sentPc' = "reverted"
  /\ UNCHANGED <<queueVars, txStore, poolVars, sentJob, known, memVars,
                 chainVars, auxVars>>

(* Variant: the commitment stays in the cache.                               *)
SentRevertedCached ==
  /\ sentPc = "reverted"
  /\ jobState' = [jobState EXCEPT ![sentJob.job] = "reverted"]
  /\ sentPc' = "ack"
  /\ UNCHANGED <<poolQ, poolStalled, sentQ, sentStalled, paused, cacheVars,
                 poolVars, sentJob, known, memVars, chainVars, auxVars>>

(* pool.onFailed, second part: the cached commitment goes, the pool job is   *)
(* REVERTED.  One step: nobody awaits the two writes, but one connection     *)
(* carries them in order, and a redelivery repeats both.                     *)
SentReverted ==
  /\ sentPc = "reverted"
  /\ txStore' = txStore \ {sentJob.job}
  /\ jobState' = [jobState EXCEPT ![sentJob.job] = "reverted"]
  /\ sentPc' = "ack"
  /\ UNCHANGED <<poolQ, poolStalled, sentQ, sentStalled, paused, optNullifiers,
                 poolVars, sentJob, known, memVars, chainVars, auxVars>>

(* A call of the loop throws before its effect (the gas price of a re-send,  *)
(* saving the attempts, reporting an outcome): withLoop starts over.         *)
SentThrows ==
  /\ "sent" \in ThrowsAt
  /\ sentPc \in {"resend", "save", "confirmed", "reverted"}
  /\ sentPc' = "check"
  /\ UNCHANGED <<queueVars, cacheVars, poolVars, sentJob, known, memVars,
                 chainVars, auxVars>>

SentAck ==
  /\ sentPc = "ack"
  /\ sentPc' = "idle" /\ sentJob' = NoSent /\ known' = {}
  /\ UNCHANGED <<queueVars, cacheVars, poolVars, memVars, chainVars, auxVars>>

-----------------------------------------------------------------------------
(* waitingForFunds sees the top-up and resumes both queues.                  *)
Resume ==
  /\ waiter /\ funded
  /\ paused' = FALSE /\ waiter' = FALSE
  /\ UNCHANGED <<jobState, poolQ, poolStalled, sentQ, sentStalled, cacheVars,
                 poolVars, sentVars, nonce, chainVars, auxVars>>

(* getBalance fails: promiseRetry retries only when asked to, so the watcher *)
(* ends and the pause stays.  Its rejection is unhandled; if the process     *)
(* ends with it, that is a Crash.                                            *)
FundsCheckFails ==
  /\ "funds" \in ThrowsAt /\ waiter
  /\ waiter' = FALSE /\ unwatched' = TRUE
  /\ UNCHANGED <<queueVars, cacheVars, poolVars, sentVars, nonce, chainVars, crashes,
                 drops, dries, forgotten, interrupted, unacked, dropped, leaked>>

(* The local cache observer removes an entry: indexed, or a day old.         *)
Observe(j) ==
  /\ j \in txStore
  /\ txStore' = txStore \ {j}
  /\ UNCHANGED <<queueVars, optNullifiers, poolVars, sentVars, memVars,
                 chainVars, auxVars>>

(* The pool worker's job was refused, and BullMQ does not know it yet.       *)
Refused == poolPc = "ack" /\ attempt = NoAttempt /\ jobState[poolJob] = "failed"

(* The process dies and starts again: active jobs stall, memory is lost and  *)
(* EvmTxManager.init takes the nonce from the chain.                         *)
Crash ==
  /\ crashes < MaxCrashes
  /\ crashes' = crashes + 1
  /\ poolStalled' = poolStalled \cup ({poolJob} \ {NoJob})
  /\ sentStalled' = sentStalled \cup ({sentJob} \ {NoSent})
  /\ poolPc' = "idle" /\ poolJob' = NoJob /\ attempt' = NoAttempt
  /\ sentPc' = "idle" /\ sentJob' = NoSent /\ known' = {}
  /\ nonce' = chainNonce /\ waiter' = FALSE
  /\ forgotten' = forgotten \cup Unqueued \cup Unsaved
  /\ interrupted' = IF attempt # NoAttempt THEN interrupted \cup {poolJob}
                    ELSE interrupted
  /\ unacked' = IF Refused THEN unacked \cup {poolJob} ELSE unacked
  /\ unwatched' = (unwatched \/ waiter)
  /\ UNCHANGED <<jobState, poolQ, sentQ, paused, cacheVars, chainVars, drops, dries,
                 dropped, leaked>>

(* BullMQ's stalled checker puts a job whose lock expired back at the front. *)
PoolRedeliver ==
  \E j \in poolStalled :
    /\ poolStalled' = poolStalled \ {j}
    /\ poolQ' = <<j>> \o poolQ
    /\ UNCHANGED <<jobState, sentQ, sentStalled, paused, cacheVars, poolVars,
                   sentVars, memVars, chainVars, auxVars>>

SentRedeliver ==
  \E s \in sentStalled :
    /\ sentStalled' = sentStalled \ {s}
    /\ sentQ' = <<s>> \o sentQ
    /\ UNCHANGED <<jobState, poolQ, poolStalled, paused, cacheVars, poolVars,
                   sentVars, memVars, chainVars, auxVars>>

-----------------------------------------------------------------------------
(* The chain: the attempt with the account's next nonce is executed.  It     *)
(* succeeds unless its nullifier is spent or the call reverts otherwise.     *)
Mine ==
  \E a \in mempool, ok \in BOOLEAN :
    /\ a.nonce = chainNonce
    /\ ok => NullifierOf[a.job] \notin spent
    /\ ~ok => CallMayRevert \/ NullifierOf[a.job] \in spent
    /\ mined' = mined \cup {[job |-> a.job, nonce |-> a.nonce,
                             price |-> a.price, ok |-> ok]}
    /\ spent' = IF ok THEN spent \cup {NullifierOf[a.job]} ELSE spent
    /\ mempool' = mempool \ {a}
    /\ chainNonce' = chainNonce + 1
    /\ UNCHANGED <<queueVars, cacheVars, poolVars, sentVars, memVars, funded,
                   auxVars>>

(* The node forgets a transaction it had accepted.                           *)
Drop ==
  \E a \in mempool :
    /\ drops < MaxDrops
    /\ drops' = drops + 1
    /\ mempool' = mempool \ {a}
    /\ UNCHANGED <<queueVars, cacheVars, poolVars, sentVars, memVars, chainNonce,
                   mined, spent, funded, crashes, dries, historyVars>>

(* Another relayer's transaction spends a nullifier on chain.                *)
ForeignSpend(n) ==
  /\ ForeignMaySpend /\ n \notin spent
  /\ spent' = spent \cup {n}
  /\ UNCHANGED <<queueVars, cacheVars, poolVars, sentVars, memVars, mempool,
                 chainNonce, mined, funded, auxVars>>

RunDry ==
  /\ funded /\ dries < MaxDry
  /\ funded' = FALSE /\ dries' = dries + 1
  /\ UNCHANGED <<queueVars, cacheVars, poolVars, sentVars, memVars, mempool,
                 chainNonce, mined, spent, crashes, drops, historyVars>>

TopUp ==
  /\ ~funded
  /\ funded' = TRUE
  /\ UNCHANGED <<queueVars, cacheVars, poolVars, sentVars, memVars, mempool,
                 chainNonce, mined, spent, auxVars>>

-----------------------------------------------------------------------------
PoolStep ==
  \/ PoolFetch \/ PoolValidate \/ PoolReject \/ PoolPrepare
  \/ PoolSendAccepted \/ PoolSendError \/ PoolSendNoFunds
  \/ PoolAddNullifier \/ PoolCacheTx \/ PoolSaveSent \/ PoolEnqueueSent
  \/ PoolThrows \/ PoolAck

SentStep ==
  \/ SentFetch \/ SentCheck \/ SentResend \/ SentResendError
  \/ SentResendNoFunds \/ SentSave \/ SentConfirmed \/ SentRollback
  \/ SentReverted \/ SentThrows \/ SentAck

Relayer ==
  \/ PoolStep \/ SentStep \/ Resume \/ FundsCheckFails \/ PoolRedeliver \/ SentRedeliver

Environment ==
  \/ \E j \in Jobs : Submit(j) \/ Observe(j)
  \/ Mine \/ Drop \/ RunDry \/ TopUp \/ Crash
  \/ \E n \in Nullifiers : ForeignSpend(n)

Next == Relayer \/ Environment

Spec == Init /\ [][Next]_vars

(* Workers and BullMQ keep running and the mutex is granted in FIFO order    *)
(* (strong fairness of each worker); a node that can take a re-sent          *)
(* transaction does not refuse it forever, and mines what it holds; an       *)
(* outcome that is reported again and again is saved in the end.             *)
Fairness ==
  /\ SF_vars(PoolStep) /\ SF_vars(SentStep) /\ SF_vars(SentResend)
  /\ SF_vars(SentConfirmed) /\ SF_vars(SentReverted)
  /\ WF_vars(Resume) /\ WF_vars(PoolRedeliver) /\ WF_vars(SentRedeliver)
  /\ WF_vars(Mine) /\ WF_vars(TopUp)

FairSpec == Spec /\ Fairness

-----------------------------------------------------------------------------
(* Shapes of the state: what each variable ranges over.                      *)
TypeOK ==
  /\ jobState \in [Jobs -> JobState]
  /\ poolQ \in Seq(Jobs) /\ poolStalled \subseteq Jobs
  /\ sentQ \in Seq(SentJob) /\ sentStalled \subseteq SentJob
  /\ paused \in BOOLEAN
  /\ optNullifiers \subseteq Nullifiers /\ txStore \subseteq Jobs
  /\ poolPc \in PoolSteps
  /\ poolJob \in (IF poolPc = "idle" THEN {NoJob} ELSE Jobs)
  /\ attempt \in Attempt \cup {NoAttempt}
  /\ poolPc \in Signing => attempt \in Attempt
  /\ poolPc \in {"idle", "validate", "prepare"} => attempt = NoAttempt
  /\ sentPc \in SentSteps
  /\ sentPc # "idle" => sentJob \in SentJob
  /\ sentPc = "idle" => sentJob = NoSent
  /\ known \subseteq Prices
  /\ nonce \in Nat /\ waiter \in BOOLEAN
  /\ mempool \subseteq Attempt /\ chainNonce \in Nat
  /\ mined \subseteq Receipt /\ spent \subseteq Nullifiers /\ funded \in BOOLEAN
  /\ crashes \in Nat /\ drops \in Nat /\ dries \in Nat
  /\ forgotten \subseteq Attempt /\ leaked \subseteq Nat
  /\ interrupted \subseteq Jobs /\ unacked \subseteq Jobs /\ dropped \subseteq Jobs
  /\ unwatched \in BOOLEAN

(* A client is told COMPLETED only of a job whose own call succeeded on      *)
(* chain, and REVERTED only of a job whose own call reverted there, whatever *)
(* crashes, re-sends and redeliveries happened (sentTxWorker's receipts).    *)
TruthfulStatus ==
  \A j \in Jobs :
    /\ jobState[j] = "completed" => \E m \in mined : m.job = j /\ m.ok
    /\ jobState[j] = "reverted"  => \E m \in mined : m.job = j /\ ~m.ok

(* The pool worker's attempt while only its memory knows it.                 *)
PoolOwns(n) == poolPc \in Signing /\ attempt.nonce = n
SentJobs == ToSet(sentQ) \cup sentStalled \cup ({sentJob} \ {NoSent})

(* Every nonce handed out and not yet used on chain has exactly one owner    *)
(* that will send it (again): the pool worker's current job or one job of    *)
(* the sent queue.  A nonce without an owner would block all later ones:     *)
(* only a throw outside the pool worker's try blocks leaves one.             *)
NonceOwned ==
  \A n \in (chainNonce..(nonce - 1)) \ leaked :
    /\ PoolOwns(n) \/ \E s \in SentJobs : s.nonce = n
    /\ PoolOwns(n) => \A s \in SentJobs : s.nonce # n
    /\ \A s, t \in SentJobs : s.nonce = n /\ t.nonce = n => s = t

(* Some worker or queue knows the hash of attempt a of job j.                *)
Tracks(a) ==
  \/ PoolOwns(a.nonce) /\ attempt.job = a.job /\ attempt.price = a.price
  \/ sentPc # "idle" /\ sentJob.job = a.job /\ sentJob.nonce = a.nonce /\ a.price \in known
  \/ \E s \in ToSet(sentQ) :
       s.job = a.job /\ s.nonce = a.nonce /\ a.price \in s.prices

(* Whichever attempt the node holds or the chain executed, the relayer still *)
(* knows its hash until the job has its final status, also when the send     *)
(* had looked like a failure (resendTx keeps attempts of failed sends).      *)
AttemptsTracked ==
  /\ \A a \in mempool : Tracks(a)
  /\ \A m \in mined : Tracks(m) \/ jobState[m.job] \in {"completed", "reverted"}

(* A client told FAILED can safely make another transaction of the same      *)
(* notes: nothing of the failed job reaches the node.                        *)
FailedNeverSent ==
  \A j \in Jobs : jobState[j] = "failed" =>
    /\ \A a \in mempool : a.job # j
    /\ \A m \in mined : m.job # j

(* The relayer knows the hash, or will when a stalled job is redelivered.    *)
Remembers(a) ==
  \/ Tracks(a)
  \/ \E s \in sentStalled : s.job = a.job /\ s.nonce = a.nonce /\ a.price \in s.prices

Signed(m) == [job |-> m.job, nonce |-> m.nonce, price |-> m.price]

(* The relayer knows the hash of every attempt that the node holds or the    *)
(* chain executed until its job has its outcome, through crashes,            *)
(* redeliveries, lost answers and nonces handed out twice, but for attempts  *)
(* that were in a worker's memory only when the process died (job.update     *)
(* comes after resendTx, sentTxQueue.add after sendTx) or a call threw.  A   *)
(* receipt of a job that was interrupted after its signature may be unknown: *)
(* a second validation can have refused the job since.                       *)
NothingElseForgotten ==
  /\ \A a \in mempool : Remembers(a) \/ a \in forgotten
  /\ \A m \in mined : \/ Remembers(m) \/ Signed(m) \in forgotten
                      \/ jobState[m.job] \in {"completed", "reverted"}
                      \/ m.job \in interrupted

(* A client told FAILED can safely make another transaction of the same      *)
(* notes: nothing of the job reaches the node, unless a crash interrupted    *)
(* the job after its signature, or came before the refusal was acknowledged: *)
(* then the job is validated a second time.                                  *)
FailedElseNeverSent ==
  \A j \in Jobs \ (interrupted \cup unacked) : jobState[j] = "failed" =>
    /\ \A a \in mempool : a.job # j
    /\ \A m \in mined : m.job # j

(* No other accepted job is forgotten by a crash, a redelivery or an error   *)
(* path: until it has a final status a queue or a worker holds it, so that   *)
(* the client that polls it will hear of its end.  The jobs left at a throw  *)
(* outside the pool worker's try blocks are the only ones nobody holds.      *)
JobAccounted ==
  \A j \in Jobs \ dropped : jobState[j] \in {"waiting", "sent"} =>
    \/ j \in ToSet(poolQ) \cup poolStalled \cup {poolJob}
    \/ \E s \in SentJobs : s.job = j

(* A status at which clients stop to ask never changes again, through every  *)
(* redelivery of a job that was settled already and every second use of its  *)
(* nonce, unless a crash interrupted the job after its signature: then it is *)
(* validated again when its first transaction may have completed.  FAILED    *)
(* can also change for a job whose refusal a crash left unacknowledged.      *)
Final == {"completed", "reverted", "failed"}
Settled(j) == jobState[j] \in (IF j \in unacked THEN Final \ {"failed"} ELSE Final)
OutcomeFinal ==
  [][\A j \in Jobs \ interrupted : Settled(j) => jobState'[j] = jobState[j]]_vars

(* Two jobs that spend one nullifier never both reach the chain, so no       *)
(* transaction of the relayer is mined only to revert (checkNullifier and    *)
(* checkNullifierContract at every validation).                              *)
NoSelfRevert == \A m \in mined : m.ok

(* The commitment of a reverted job is not served to clients any more.       *)
RevertedNotCached == \A j \in Jobs : jobState[j] = "reverted" => j \notin txStore

(* No two transactions that the node holds or will execute spend the same    *)
(* nullifier ("Doublespend detected in ..." is what validation answers to    *)
(* the second one).                                                          *)
NoDoubleInFlight ==
  \A a, b \in mempool : NullifierOf[a.job] = NullifierOf[b.job] => a.job = b.job

(* Job j was sent, and an earlier nonce that nobody has keeps it waiting.    *)
HeldUp(j) ==
  \E s \in SentJobs, n \in leaked : s.job = j /\ chainNonce <= n /\ n < s.nonce

(* Every accepted job reaches a final status, unless the pool worker left it *)
(* at a throw, the nonce of a job it left holds this one up, or the queues   *)
(* are paused and nobody watches for a top-up.                               *)
JobsResolve ==
  \A j \in Jobs : jobState[j] = "waiting" ~>
    jobState[j] \in Final \/ j \in dropped \/ HeldUp(j) \/ (paused /\ unwatched)

(* Queues paused for want of funds are resumed after a top-up, unless the    *)
(* watcher ended or was never started (a check of the balance failed).       *)
PauseEnds == paused ~> ~paused \/ unwatched

-----------------------------------------------------------------------------
(* What a client may rely on (JobLedger), with a job's fate on chain read    *)
(* off its receipts.                                                         *)
Fate(j) ==
  IF \E m \in mined : m.job = j /\ m.ok THEN "ok"
  ELSE IF \E m \in mined : m.job = j THEN "reverted" ELSE "nothing"

Ledger == INSTANCE JobLedger WITH status <- jobState, fate <- [j \in Jobs |-> Fate(j)]

(* While it does not crash, the pipeline implements the job ledger.          *)
ImplementsLedger == Ledger!Spec
=============================================================================
