--------------------------- MODULE DirectDeposits ---------------------------
(***************************************************************************)
(* Direct deposits on their way into the pool.  The direct-deposit watcher *)
(* (services/direct-deposit) adds the deposits of each batch of events to  *)
(* a sorted set in Redis (BatchCache) and moves them on, BatchSize at a    *)
(* time or whatever there is when a timer expires, to a queue whose worker *)
(* proves each batch and makes it a job of the pool queue.                 *)
(*                                                                         *)
(* Four kinds of threads run BatchCache's code: the start, the event       *)
(* watcher, the reprocess interval and the expired timers.  The second and *)
(* third hold a mutex; the timers do not.  Every await is a step.          *)
(*                                                                         *)
(* The contract is external: it takes a batch whose deposits are all       *)
(* pending.  So is whoever puts deposits of failed batches on the          *)
(* reprocess list; nothing in the repository does.                         *)
(***************************************************************************)
EXTENDS Integers, SequencesExt

CONSTANTS
  MaxDeposits,   \* bound on deposits (a deposit is its nonce, from 1)
  Invalid,       \* deposits that a check refuses: of the key, of the user and
                 \* the amount, or the screener's
  BatchSize,     \* DIRECT_DEPOSIT_BATCH_SIZE
  TimerRuns,     \* expired timers that may run at once (a bound)
  MaxMishaps,    \* bound on crashes of the watcher and of the worker, on
                 \* validations that are not answered, on jobs that fail to
                 \* be proved and on refunds, together
  Start, Watcher, Reprocess \* the other threads

Adders  == {Watcher, Reprocess}
Mains   == {Start} \cup Adders    \* the threads that run processCache
Threads == Mains \cup TimerRuns

ASSUME DepositsAssumption ==
  /\ MaxDeposits \in Nat /\ BatchSize \in Nat \ {0} /\ MaxMishaps \in Nat
  /\ Start # Watcher /\ Start # Reprocess /\ Watcher # Reprocess
  /\ {Start, Watcher, Reprocess} \cap TimerRuns = {}

Deposits == 1..MaxDeposits

VARIABLES
  submitted,  \* deposits made so far are 1..submitted
  pending,    \* deposits the contract holds as pending
  refunded,   \* deposits taken back by their users
  position,   \* deposits up to the watcher's saved position (Redis)
  cache,      \* the sorted set (Redis)
  requeued,   \* the reprocess list (Redis)
  jobs,       \* the direct-deposit queue: batches to prove (Redis)
  txs,        \* batches proved and queued for the pool (Redis)
  failed,     \* deposits of failed jobs and reverted transactions
  up,         \* the start of the process is over
  timer,      \* a timer is set
  posting,    \* batches handed to the queue whose request is not done
  pc,         \* each thread's step
  values,     \* the deposits an adder adds
  counted,    \* what a thread's last zcard answered
  want,       \* how many deposits an executing thread asks for
  taken,      \* the deposits it took last
  batch,      \* the deposits it has validated
  dropped,    \* history: deposits that were in memory at a crash, or whose
              \* validation the node or the screener did not answer
  crashed,    \* history: a process has crashed
  mishaps     \* mishaps so far

chainVars  == <<submitted, pending, refunded>>
redisVars  == <<position, cache, requeued>>
queueVars  == <<jobs, txs, failed>>
boundVars  == <<crashed, mishaps>>
execVars   == <<want, taken, batch>>
outerVars  == <<chainVars, queueVars, dropped, boundVars>>
vars == <<outerVars, redisVars, up, timer, posting, pc, values, counted, execVars>>

Processing == {"count", "decide", "take", "validate"}
Steps == {"idle", "acquire", "save"} \cup Processing

Idle(v) == [t \in Threads |-> v]

(* The process is between a crash and its restart.                           *)
Down == ~up /\ pc[Start] = "idle"

(* The cache's mutex is held from the insertion to the end of processCache.  *)
Locked == \E a \in Adders : pc[a] \in Processing

(* What zpopmin(n) takes: the n deposits of the lowest nonces.               *)
Lowest(n) == {d \in cache : Cardinality({e \in cache : e < d}) < n}

Init ==
  /\ submitted = 0 /\ pending = {} /\ refunded = {}
  /\ position = 0 /\ cache = {} /\ requeued = <<>>
  /\ jobs = <<>> /\ txs = <<>> /\ failed = {}
  /\ up = FALSE /\ timer = FALSE /\ posting = <<>>
  /\ pc = [Idle("idle") EXCEPT ![Start] = "count"]
  /\ values = Idle({}) /\ counted = Idle(0) /\ want = Idle(0)
  /\ taken = Idle({}) /\ batch = Idle({})
  /\ dropped = {} /\ crashed = FALSE /\ mishaps = 0

-----------------------------------------------------------------------------
(* The watcher's next batch of events: deposits since its position.          *)
Watch ==
  /\ up /\ pc[Watcher] = "idle"
  /\ \E last \in (position + 1)..submitted :
       values' = [values EXCEPT ![Watcher] = (position + 1)..last]
  /\ pc' = [pc EXCEPT ![Watcher] = "acquire"]
  /\ UNCHANGED <<outerVars, redisVars, up, timer, posting, counted, execVars>>

(* watchReprocess pops up to BatchSize deposits off the reprocess list.      *)
Repop ==
  /\ up /\ pc[Reprocess] = "idle" /\ requeued # <<>>
  /\ LET n == Min({Len(requeued), BatchSize}) IN
       /\ values' = [values EXCEPT ![Reprocess] = ToSet(SubSeq(requeued, 1, n))]
       /\ requeued' = SubSeq(requeued, n + 1, Len(requeued))
  /\ pc' = [pc EXCEPT ![Reprocess] = "acquire"]
  /\ UNCHANGED <<outerVars, position, cache, up, timer, posting, counted, execVars>>

(* add: the mutex, then the insertion (zadd).                                *)
Store(a) ==
  /\ pc[a] = "acquire" /\ ~Locked
  /\ cache' = cache \cup values[a]
  /\ pc' = [pc EXCEPT ![a] = "count"]
  /\ UNCHANGED <<outerVars, position, requeued, up, timer, posting, values, counted,
                 execVars>>

(* processCache reads the size of the cache (zcard) ...                      *)
Count(t) ==
  /\ pc[t] = "count"
  /\ counted' = [counted EXCEPT ![t] = Cardinality(cache)]
  /\ pc' = [pc EXCEPT ![t] = "decide"]
  /\ UNCHANGED <<outerVars, redisVars, up, timer, posting, values, execVars>>

(* execute's start: the timer is cleared and a whole batch asked for.        *)
StartExecute(t) ==
  /\ timer' = FALSE
  /\ want' = [want EXCEPT ![t] = BatchSize]
  /\ pc' = [pc EXCEPT ![t] = "take"]
  /\ counted' = [counted EXCEPT ![t] = 0]
  /\ UNCHANGED <<outerVars, redisVars, up, posting, values, taken, batch>>

(* ... and, once it has the answer, executes a whole batch ...               *)
DecideExecute(t) ==
  /\ pc[t] = "decide" /\ counted[t] >= BatchSize
  /\ StartExecute(t)

(* Variant: execute clears the timer when it ends, and no timer is set while *)
(* one runs.                                                                 *)
NeedsTimerLate(t) ==
  counted[t] % BatchSize # 0 /\ \A r \in TimerRuns : pc[r] = "idle"
NeedsTimer(t) == counted[t] % BatchSize # 0

(* ... or leaves the rest to a timer and ends.                               *)
DecideDone(t) ==
  /\ pc[t] = "decide" /\ counted[t] < BatchSize
  /\ timer' = (timer \/ NeedsTimer(t))
  /\ up' = (up \/ t = Start)
  /\ pc' = [pc EXCEPT ![t] = IF t = Watcher THEN "save" ELSE "idle"]
  /\ values' = [values EXCEPT ![t] = IF t = Watcher THEN @ ELSE {}]
  /\ counted' = [counted EXCEPT ![t] = 0]
  /\ want' = [want EXCEPT ![t] = 0]
  /\ UNCHANGED <<outerVars, redisVars, posting, taken, batch>>

(* Variant: an expired timer executes only whole batches, as the processing. *)
TimerFiresWhole(r) ==
  /\ timer /\ pc[r] = "idle"
  /\ IF Cardinality(cache) >= BatchSize
       THEN StartExecute(r)
       ELSE /\ timer' = FALSE
            /\ UNCHANGED <<outerVars, redisVars, up, posting, pc, values, counted,
                           execVars>>

(* The timer expires and execute starts, whatever the other threads do.      *)
TimerFires(r) ==
  /\ timer /\ pc[r] = "idle"
  /\ StartExecute(r)

(* execute takes deposits (zpopmin).                                         *)
Take(t) ==
  /\ pc[t] = "take"
  /\ taken' = [taken EXCEPT ![t] = Lowest(want[t])]
  /\ cache' = cache \ Lowest(want[t])
  /\ pc' = [pc EXCEPT ![t] = "validate"]
  /\ UNCHANGED <<outerVars, position, requeued, up, timer, posting, values, counted,
                 want, batch>>

(* Variant: every round asks for a whole batch.                              *)
MissingWhole(good) == BatchSize
Missing(good) == BatchSize - Cardinality(good)

(* Variant: rounds go on until the cache is drained, even with a full batch. *)
RoundsGoOnFull(t, good) == Cardinality(taken[t]) = want[t]
RoundsGoOn(t, good) ==
  Cardinality(good) < BatchSize /\ Cardinality(taken[t]) = want[t]

AfterExecute(t) == IF t \in TimerRuns THEN "idle" ELSE "count"

(* What validation keeps: the deposits the contract holds as pending that no  *)
(* check refuses and for which the node and the screener answer.             *)
Passes(t, unanswered) == (taken[t] \cap pending) \ (Invalid \cup unanswered)

(* The taken deposits are validated, and those that do not pass are dropped. *)
(* While the batch is not full and the cache not drained, another round      *)
(* follows; then the batch, unless empty, is handed to the queue, and the    *)
(* answer is not awaited.                                                    *)
Validate(t) ==
  /\ pc[t] = "validate"
  /\ \E unanswered \in SUBSET taken[t] :
       LET good == batch[t] \cup Passes(t, unanswered) IN
       /\ mishaps' = mishaps + Cardinality(unanswered) /\ mishaps' <= MaxMishaps
       /\ dropped' = dropped \cup unanswered
       /\ \/ /\ RoundsGoOn(t, good)
             /\ batch' = [batch EXCEPT ![t] = good]
             /\ want' = [want EXCEPT ![t] = Missing(good)]
             /\ pc' = [pc EXCEPT ![t] = "take"]
             /\ UNCHANGED posting
          \/ /\ ~RoundsGoOn(t, good)
             /\ batch' = [batch EXCEPT ![t] = {}]
             /\ want' = [want EXCEPT ![t] = 0]
             /\ pc' = [pc EXCEPT ![t] = AfterExecute(t)]
             /\ posting' = IF good = {} THEN posting ELSE Append(posting, good)
  /\ taken' = [taken EXCEPT ![t] = {}]
  /\ UNCHANGED <<chainVars, queueVars, crashed, redisVars, up,
                 timer, values, counted>>

(* Variant: the position saved is the chain's, not the batch's.              *)
SavePositionLatest ==
  /\ pc[Watcher] = "save"
  /\ position' = submitted
  /\ values' = [values EXCEPT ![Watcher] = {}]
  /\ pc' = [pc EXCEPT ![Watcher] = "idle"]
  /\ UNCHANGED <<outerVars, cache, requeued, up, timer, posting, counted, execVars>>

(* The watcher's processor is done and the position is saved.                *)
SavePosition ==
  /\ pc[Watcher] = "save"
  /\ \E last \in values[Watcher] :
       (\A d \in values[Watcher] : d <= last) /\ position' = last
  /\ values' = [values EXCEPT ![Watcher] = {}]
  /\ pc' = [pc EXCEPT ![Watcher] = "idle"]
  /\ UNCHANGED <<outerVars, cache, requeued, up, timer, posting, counted, execVars>>

(* Variant: the request is sent again when its answer is lost.               *)
PostRetried ==
  /\ posting # <<>>
  /\ posting' \in {posting, Tail(posting)}
  /\ jobs' = Append(jobs, Head(posting))
  /\ UNCHANGED <<chainVars, txs, failed, dropped, boundVars, redisVars, up, timer, pc,
                 values, counted, execVars>>

(* A request to the direct-deposit queue arrives.                            *)
Post ==
  /\ posting # <<>>
  /\ posting' = Tail(posting)
  /\ jobs' = Append(jobs, Head(posting))
  /\ UNCHANGED <<chainVars, txs, failed, dropped, boundVars, redisVars, up, timer, pc,
                 values, counted, execVars>>

processVars == <<redisVars, up, timer, posting, pc, values, counted, execVars>>

(* directDepositWorker (two jobs at once) proves a batch and adds it to the  *)
(* pool queue ...                                                            *)
Prove(i) ==
  /\ txs' = Append(txs, jobs[i])
  /\ jobs' = RemoveAt(jobs, i)
  /\ UNCHANGED <<chainVars, failed, dropped, boundVars, processVars>>

(* ... or fails, and so does the job: it is not tried again ...              *)
ProveFails(i) ==
  /\ mishaps < MaxMishaps
  /\ failed' = failed \cup jobs[i]
  /\ jobs' = RemoveAt(jobs, i)
  /\ mishaps' = mishaps + 1
  /\ UNCHANGED <<chainVars, txs, dropped, crashed, processVars>>

(* ... or the worker dies before the job is completed, and gets it again.    *)
WorkerCrash(i) ==
  /\ mishaps < MaxMishaps
  /\ txs' = Append(txs, jobs[i])
  /\ crashed' = TRUE /\ mishaps' = mishaps + 1
  /\ UNCHANGED <<chainVars, jobs, failed, dropped, processVars>>

(* The watcher's process dies: what it holds in memory is gone ...           *)
Crash ==
  /\ ~Down /\ mishaps < MaxMishaps
  /\ dropped' = dropped \cup (UNION ToSet(posting))
                  \cup (UNION {taken[t] \cup batch[t] : t \in Threads})
                  \cup (IF pc[Reprocess] = "acquire" THEN values[Reprocess] ELSE {})
  /\ up' = FALSE /\ timer' = FALSE /\ posting' = <<>>
  /\ pc' = Idle("idle") /\ values' = Idle({}) /\ counted' = Idle(0)
  /\ want' = Idle(0) /\ taken' = Idle({}) /\ batch' = Idle({})
  /\ crashed' = TRUE /\ mishaps' = mishaps + 1
  /\ UNCHANGED <<chainVars, redisVars, queueVars>>

(* ... until it starts again, with a processing of the cache.                *)
Restart ==
  /\ Down
  /\ pc' = [pc EXCEPT ![Start] = "count"]
  /\ UNCHANGED <<outerVars, redisVars, up, timer, posting, values, counted, execVars>>

-----------------------------------------------------------------------------
(* External: a user makes a deposit ...                                      *)
Submit ==
  /\ submitted < MaxDeposits
  /\ submitted' = submitted + 1
  /\ pending' = pending \cup {submitted + 1}
  /\ UNCHANGED <<refunded, queueVars, dropped, boundVars, processVars>>

(* ... or takes it back ...                                                  *)
Refund(d) ==
  /\ mishaps < MaxMishaps
  /\ pending' = pending \ {d} /\ refunded' = refunded \cup {d}
  /\ mishaps' = mishaps + 1
  /\ UNCHANGED <<submitted, queueVars, dropped, crashed, processVars>>

(* ... the contract takes the next batch if all its deposits are pending ... *)
AppendDeposits ==
  /\ txs # <<>>
  /\ txs' = Tail(txs)
  /\ IF Head(txs) \subseteq pending
       THEN pending' = pending \ Head(txs) /\ UNCHANGED failed
       ELSE failed' = failed \cup Head(txs) /\ UNCHANGED pending
  /\ UNCHANGED <<submitted, refunded, jobs, dropped, boundVars, processVars>>

(* ... and an operator puts a deposit of a failed batch on the reprocess list.*)
Requeue(d) ==
  /\ failed' = failed \ {d}
  /\ requeued' = Append(requeued, d)
  /\ UNCHANGED <<chainVars, jobs, txs, dropped, boundVars, position, cache, up, timer,
                 posting, pc, values, counted, execVars>>

Executes(t) == Take(t) \/ Validate(t)
Processes(t) == Count(t) \/ DecideExecute(t) \/ DecideDone(t) \/ Executes(t)

Next ==
  \/ Watch \/ Repop \/ SavePosition \/ Post \/ Crash \/ Restart
  \/ \E a \in Adders : Store(a)
  \/ \E t \in Mains : Processes(t)
  \/ \E r \in TimerRuns : TimerFires(r) \/ Executes(r)
  \/ \E i \in DOMAIN jobs \cap 1..2 : Prove(i) \/ ProveFails(i) \/ WorkerCrash(i)
  \/ Submit \/ AppendDeposits
  \/ \E d \in pending : Refund(d)
  \/ \E d \in failed \cap pending : Requeue(d)

Spec == Init /\ [][Next]_vars

(* The watcher polls and the reprocess interval recurs, a thread whose       *)
(* request is answered goes on, an expired timer runs, the mutex is first    *)
(* come first served, the worker takes its jobs, the chain the batches, and  *)
(* the process is restarted.                                                 *)
FairSpec ==
  /\ Spec
  /\ WF_vars(Watch) /\ WF_vars(Repop) /\ WF_vars(SavePosition)
  /\ WF_vars(Post) /\ WF_vars(Restart) /\ WF_vars(AppendDeposits)
  /\ \A a \in Adders : WF_vars(Store(a))
  /\ \A t \in Mains : WF_vars(Processes(t))
  /\ \A r \in TimerRuns : WF_vars(TimerFires(r)) /\ WF_vars(Executes(r))
  /\ WF_vars(jobs # <<>> /\ Prove(1))

-----------------------------------------------------------------------------
(* Every variable has its type, and no deposit appears before it is made.    *)
TypeOK ==
  LET Made == 1..submitted IN
  /\ submitted \in 0..MaxDeposits /\ position \in 0..submitted
  /\ pending \subseteq Made /\ cache \subseteq Made
  /\ failed \subseteq Made /\ dropped \subseteq Made /\ refunded \subseteq Made
  /\ requeued \in Seq(Made)
  /\ jobs \in Seq(SUBSET Made) /\ txs \in Seq(SUBSET Made)
  /\ posting \in Seq(SUBSET Made)
  /\ up \in BOOLEAN /\ timer \in BOOLEAN /\ crashed \in BOOLEAN
  /\ mishaps \in 0..MaxMishaps
  /\ pc \in [Threads -> Steps]
  /\ counted \in [Threads -> Nat] /\ want \in [Threads -> 0..BatchSize]
  /\ \A t \in Threads : pc[t] = "take" => want[t] # 0
  /\ values \in [Threads -> SUBSET Made] /\ taken \in [Threads -> SUBSET Made]
  /\ batch \in [Threads -> SUBSET Made]

Executing(t) == pc[t] = "take" /\ want[t] = BatchSize

(* Deposits in the cache never lie there unattended: unless the process is   *)
(* down, a timer is set, or processCache is not yet done counting, or a      *)
(* timer's execution is about to take them.  BatchCache sets the timer       *)
(* before it knows what the timers' executions, which hold no mutex, take.   *)
CacheWatched ==
  cache # {} =>
    \/ Down \/ timer
    \/ \E t \in Mains : pc[t] \in Processing
    \/ \E r \in TimerRuns : Executing(r)

Handed == posting \o jobs \o txs

(* A batch is never empty nor larger than the circuit's BatchSize, however   *)
(* many rounds of validation it took to fill it.                             *)
BatchFits ==
  \A i \in DOMAIN Handed : Handed[i] # {} /\ Cardinality(Handed[i]) <= BatchSize

Carried(t) == taken[t] \cup batch[t] \cup IF pc[t] = "acquire" THEN values[t] ELSE {}

Holders(d) ==
     {<<"thread", t>> : t \in {u \in Threads : d \in Carried(u)}}
  \cup {<<"handed", i>> : i \in {j \in DOMAIN Handed : d \in Handed[j]}}
  \cup {<<"list", i>> : i \in {j \in DOMAIN requeued : d = requeued[j]}}
  \cup {<<"set", s>> : s \in {u \in {1} : d \in cache} \cup {u \in {2} : d \in failed}}

(* As long as nothing crashed, no deposit is in two places (two batches with *)
(* the same deposit: the second reverts, with all its other deposits), though *)
(* timers take from the cache while adders do.                               *)
OnePlace == ~crashed => \A d \in Deposits : Cardinality(Holders(d)) <= 1

(* A pending deposit behind the watcher's position is somewhere, unless a    *)
(* check refuses it, it was in the process's memory at a crash or its        *)
(* validation was not answered: nothing else loses a deposit, however        *)
(* threads interleave.                                                       *)
NothingElseLost ==
  \A d \in (1..position \cap pending) \ (dropped \cup Invalid) : Holders(d) # {}

(* As long as nothing crashed, a batch on its way to the contract reverts    *)
(* only for a deposit that was refunded since its validation: never for one  *)
(* of another batch, or one that was put back after a batch had failed.      *)
RevertsForRefunds ==
  ~crashed => \A i \in DOMAIN Handed : Handed[i] \subseteq pending \cup refunded

(* A pending deposit that no check refuses is taken by the contract or       *)
(* refunded, unless it was dropped, or its batch fails to be proved or       *)
(* reverts.                                                                  *)
DepositsEnd ==
  \A d \in Deposits :
    d \in pending \ Invalid ~> d \notin pending \/ d \in dropped \/ d \in failed
=============================================================================
