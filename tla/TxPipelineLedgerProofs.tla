----------------------- MODULE TxPipelineLedgerProofs -----------------------
(***************************************************************************)
(* What TxPipeline guarantees while the process does not crash, up to the  *)
(* refinement of JobLedger: for every set of jobs and nullifiers, every    *)
(* price and whatever the node, the chain and others do.  A crash resets   *)
(* the nonce counter and loses attempts; what survives it is proved in     *)
(* TxPipelineProofs.                                                       *)
(***************************************************************************)
EXTENDS TxPipelineProofs

(* The pool worker has a job it has not reported yet.                        *)
Unreported == {"validate", "prepare", "send", "nullifier", "cache", "save"}

(* Where a job is agrees with its status, and it is in one place.            *)
PoolStage ==
  /\ poolStalled = {} /\ sentStalled = {}
  /\ \A i \in DOMAIN poolQ : jobState[poolQ[i]] = "waiting"
  /\ \A i, k \in DOMAIN poolQ : poolQ[i] = poolQ[k] => i = k
  /\ poolPc \in Unreported =>
       /\ jobState[poolJob] = "waiting"
       /\ \A i \in DOMAIN poolQ : poolQ[i] # poolJob
  /\ poolPc \in Signing => attempt.job = poolJob

SentStage ==
  /\ \A i \in DOMAIN sentQ : jobState[sentQ[i].job] = "sent"
  /\ \A i, k \in DOMAIN sentQ : sentQ[i].job = sentQ[k].job => i = k
  /\ sentPc # "idle" =>
       /\ jobState[sentJob.job] \in
            (IF sentPc = "ack" THEN {"completed", "reverted"} ELSE {"sent"})
       /\ \A i \in DOMAIN sentQ : sentQ[i].job # sentJob.job
  /\ poolPc = "enqueue" =>
       /\ jobState[poolJob] = "sent"
       /\ \A i \in DOMAIN sentQ : sentQ[i].job # poolJob
       /\ sentPc # "idle" => sentJob.job # poolJob

StageInv == PoolStage /\ SentStage

(* Each nonce was handed out once: no two holders have the same.             *)
NonceInv ==
  /\ chainNonce <= nonce
  /\ poolPc \in Signing => attempt.nonce < nonce
  /\ \A i \in DOMAIN sentQ :
       /\ sentQ[i].nonce < nonce
       /\ poolPc \in Signing => sentQ[i].nonce # attempt.nonce
  /\ \A i, k \in DOMAIN sentQ : sentQ[i].nonce = sentQ[k].nonce => i = k
  /\ sentPc # "idle" =>
       /\ sentJob.nonce < nonce
       /\ poolPc \in Signing => sentJob.nonce # attempt.nonce
       /\ \A i \in DOMAIN sentQ : sentQ[i].nonce # sentJob.nonce

(* The chain executes each nonce once, in order, and the node holds one      *)
(* attempt per nonce that is still to come.                                  *)
ChainInv ==
  /\ \A a \in mempool : chainNonce <= a.nonce /\ a.nonce < nonce
  /\ \A a, b \in mempool : a.nonce = b.nonce => a = b
  /\ \A m \in mined : m.nonce < chainNonce
  /\ \A m, k \in mined : m.nonce = k.nonce => m = k
  /\ sentPc \in {"confirmed", "rollback", "reverted", "ack"} =>
       sentJob.nonce < chainNonce

-----------------------------------------------------------------------------
(* What is in a queue after an element was taken from its head, or added.    *)
LEMMA TailElements ==
  ASSUME NEW S, NEW q \in Seq(S), q # <<>>
  PROVE  /\ 1 \in DOMAIN q /\ Head(q) = q[1] /\ Head(q) \in S
         /\ Tail(q) \in Seq(S)
         /\ \A i \in DOMAIN Tail(q) :
              i + 1 \in DOMAIN q /\ i + 1 # 1 /\ Tail(q)[i] = q[i + 1]
         /\ \A i \in DOMAIN q : i = 1 \/ \E k \in DOMAIN Tail(q) : i = k + 1
<1>1. \A i \in DOMAIN q : i = 1 \/ i - 1 \in DOMAIN Tail(q)
  OBVIOUS
<1>2. \A i \in DOMAIN q : i = (i - 1) + 1
  OBVIOUS
<1>3. \A i \in DOMAIN q : i = 1 \/ \E k \in DOMAIN Tail(q) : i = k + 1
  BY <1>1, <1>2
<1>4. \A i \in DOMAIN Tail(q) :
        i + 1 \in DOMAIN q /\ i + 1 # 1 /\ Tail(q)[i] = q[i + 1]
  OBVIOUS
<1> QED
  BY <1>3, <1>4

LEMMA TailKeeps ==
  ASSUME NEW S, NEW q \in Seq(S), q # <<>>
  PROVE  \A i \in DOMAIN q : q[i] = Head(q) \/ \E k \in DOMAIN Tail(q) : Tail(q)[k] = q[i]
<1> SUFFICES ASSUME NEW i \in DOMAIN q, i # 1
             PROVE  \E k \in DOMAIN Tail(q) : Tail(q)[k] = q[i]
  BY TailElements
<1>1. PICK k \in DOMAIN Tail(q) : i = k + 1
  BY TailElements
<1>2. Tail(q)[k] = q[k + 1]
  BY TailElements
<1> QED
  BY <1>1, <1>2

LEMMA AppendElements ==
  ASSUME NEW S, NEW q \in Seq(S), NEW e \in S
  PROVE  /\ Append(q, e) \in Seq(S)
         /\ \A i \in DOMAIN Append(q, e) :
              \/ i \in DOMAIN q /\ Append(q, e)[i] = q[i]
              \/ i = Len(q) + 1 /\ Append(q, e)[i] = e
         /\ \A i \in DOMAIN q : i \in DOMAIN Append(q, e) /\ Append(q, e)[i] = q[i]
         /\ Len(q) + 1 \in DOMAIN Append(q, e) /\ Append(q, e)[Len(q) + 1] = e
         /\ Len(q) + 1 \notin DOMAIN q
OBVIOUS

(* The fields of the jobs of the sent queue.                                 *)
LEMMA SentJobFields ==
  ASSUME TypeOK
  PROVE  /\ \A i \in DOMAIN sentQ :
              /\ sentQ[i] \in SentJob /\ sentQ[i].job \in Jobs
              /\ sentQ[i].nonce \in Nat
         /\ sentPc # "idle" => sentJob.job \in Jobs /\ sentJob.nonce \in Nat
<1>1. \A i \in DOMAIN sentQ : sentQ[i] \in SentJob
  BY DEF TypeOK
<1>2. sentPc # "idle" => sentJob \in SentJob
  BY DEF TypeOK
<1>3. \A s \in SentJob : s.job \in Jobs /\ s.nonce \in Nat
  BY DEF SentJob
<1> QED
  BY <1>1, <1>2, <1>3

(* What a throw of the pool worker leaves alone: all but its own step, the   *)
(* pause and, in prepareTx, the nonce counter.                               *)
LEMMA ThrowMoves ==
  ASSUME TypeOK, PoolThrows
  PROVE  /\ poolPc \in ThrowsAt /\ poolPc' = "ack"
         /\ UNCHANGED <<jobState, poolQ, poolStalled, sentQ, sentStalled, poolJob,
                        attempt, sentPc, sentJob, known, mempool, chainNonce, mined>>
         /\ nonce' = nonce \/ (poolPc = "prepare" /\ nonce' = nonce + 1)
<1>1. poolPc \in ThrowsAt /\ poolPc' = "ack"
  BY DEF PoolThrows, Abandon
<1>2. UNCHANGED <<jobState, poolQ, poolStalled, sentQ, sentStalled, poolJob, attempt,
                  sentPc, sentJob, known, mempool, chainNonce, mined>>
  BY DEF PoolThrows, Abandon, sentVars, chainVars
<1>3. nonce' = nonce \/ (poolPc = "prepare" /\ nonce' = nonce + 1)
  BY DEF PoolThrows, Abandon
<1> QED
  BY <1>1, <1>2, <1>3

-----------------------------------------------------------------------------
LEMMA PoolStageKept ==
  ASSUME MaxCrashes = 0, TypeOK, StageInv, [Next]_vars
  PROVE  PoolStage'
<1> USE DEF StageInv, PoolStage, SentStage, TypeOK, Unreported, Signing, queueVars,
            cacheVars, poolVars, sentVars, memVars, chainVars, auxVars, historyVars
<1>1. CASE \E j \in Jobs : Submit(j)
  <2> PICK j \in Jobs : Submit(j)
    BY <1>1
  <2>1. \A i \in DOMAIN poolQ : poolQ[i] # j
    BY DEF Submit
  <2>2. jobState' = [jobState EXCEPT ![j] = "waiting"] /\ poolQ' = Append(poolQ, j)
    BY DEF Submit
  <2>3. \A i \in DOMAIN poolQ' : jobState'[poolQ'[i]] = "waiting"
    BY <2>2, AppendElements
  <2>4. \A i, k \in DOMAIN poolQ' : poolQ'[i] = poolQ'[k] => i = k
    BY <2>1, <2>2, AppendElements
  <2>5. poolPc \in Unreported => poolJob # j
    BY DEF Submit
  <2>6. poolPc \in Unreported => \A i \in DOMAIN poolQ' : poolQ'[i] # poolJob
    BY <2>2, <2>5, AppendElements
  <2> QED
    BY <2>2, <2>3, <2>4, <2>5, <2>6 DEF Submit
<1>2. CASE PoolFetch
  <2>1. /\ poolQ \in Seq(Jobs) /\ poolQ # <<>> /\ poolQ' = Tail(poolQ)
        /\ poolJob' = Head(poolQ)
    BY <1>2 DEF PoolFetch
  <2>2. \A i \in DOMAIN poolQ' : jobState[poolQ'[i]] = "waiting"
    BY <2>1, TailElements
  <2>3. \A i, k \in DOMAIN poolQ' : poolQ'[i] = poolQ'[k] => i = k
    BY <2>1, TailElements
  <2>4. jobState[poolJob'] = "waiting" /\ \A i \in DOMAIN poolQ' : poolQ'[i] # poolJob'
    BY <2>1, TailElements
  <2> QED
    BY <1>2, <2>2, <2>3, <2>4 DEF PoolFetch
<1>3. CASE PoolValidate \/ PoolPrepare \/ PoolSendAccepted \/ PoolSendError
             \/ PoolSendNoFunds \/ PoolAddNullifier \/ PoolCacheTx
             \/ PoolEnqueueSent \/ PoolAck
  BY <1>3 DEF PoolValidate, PoolPrepare, PoolSendAccepted, PoolSendError,
     PoolSendNoFunds, PoolAddNullifier, PoolCacheTx, PoolEnqueueSent, PoolAck
<1>11. CASE PoolThrows
  BY <1>11, ThrowMoves
<1>4. CASE PoolReject \/ PoolSaveSent
  BY <1>4 DEF PoolReject, PoolSaveSent
<1>5. CASE SentFetch \/ SentCheck \/ SentResend \/ SentResendError
             \/ SentResendNoFunds \/ SentSave \/ SentRollback \/ SentAck \/ SentThrows
  BY <1>5 DEF SentFetch, SentCheck, SentResend, SentResendError,
     SentResendNoFunds, SentSave, SentRollback, SentAck, SentThrows
<1>6. CASE SentConfirmed \/ SentReverted
  BY <1>6 DEF SentConfirmed, SentReverted
<1>7. CASE Resume \/ FundsCheckFails \/ Mine \/ Drop \/ RunDry \/ TopUp \/ UNCHANGED vars
  BY <1>7 DEF Resume, FundsCheckFails, Mine, Drop, RunDry, TopUp, vars
<1>8. CASE PoolRedeliver \/ SentRedeliver \/ Crash
  BY <1>8 DEF PoolRedeliver, SentRedeliver, Crash
<1>9. CASE \E j \in Jobs : Observe(j)
  BY <1>9 DEF Observe
<1>10. CASE \E k \in Nullifiers : ForeignSpend(k)
  BY <1>10 DEF ForeignSpend
<1> QED
  BY <1>1, <1>2, <1>3, <1>4, <1>5, <1>6, <1>7, <1>8, <1>9, <1>10, <1>11
  DEF Next, Relayer, PoolStep, SentStep, Environment

LEMMA SentStageKept ==
  ASSUME MaxCrashes = 0, TypeOK, StageInv, [Next]_vars
  PROVE  SentStage'
<1> USE DEF StageInv, PoolStage, SentStage, TypeOK, Unreported, Signing, queueVars,
            cacheVars, poolVars, sentVars, memVars, chainVars, auxVars, historyVars
<1>1. CASE \E j \in Jobs : Submit(j)
  <2>1. PICK j \in Jobs : Submit(j)
    BY <1>1
  <2>2. /\ sentQ' = sentQ /\ sentPc' = sentPc /\ sentJob' = sentJob
        /\ poolPc' = poolPc /\ poolJob' = poolJob
    BY <2>1 DEF Submit
  <2>3. \A k \in Jobs : jobState[k] # "none" => jobState'[k] = jobState[k]
    BY <2>1 DEF Submit
  <2>4. \A i \in DOMAIN sentQ : sentQ[i].job \in Jobs
    <3>1. \A i \in DOMAIN sentQ : sentQ[i] \in SentJob
      OBVIOUS
    <3> QED
      BY <3>1 DEF SentJob
  <2>5. sentPc # "idle" => sentJob.job \in Jobs
    BY DEF SentJob
  <2>6. poolPc = "enqueue" => poolJob \in Jobs
    OBVIOUS
  <2> QED
    BY <2>2, <2>3, <2>4, <2>5, <2>6
<1>2. CASE PoolFetch \/ PoolValidate \/ PoolPrepare \/ PoolSendAccepted
             \/ PoolSendError \/ PoolSendNoFunds \/ PoolAddNullifier \/ PoolCacheTx
             \/ PoolThrows \/ PoolAck
  BY <1>2 DEF PoolFetch, PoolValidate, PoolPrepare, PoolSendAccepted, PoolSendError,
     PoolSendNoFunds, PoolAddNullifier, PoolCacheTx, PoolThrows, Abandon, PoolAck
<1>3. CASE PoolReject \/ PoolSaveSent
  <2>1. poolJob \in Jobs /\ jobState[poolJob] = "waiting"
    BY <1>3 DEF PoolReject, PoolSaveSent
  <2>2. \A i \in DOMAIN sentQ : sentQ[i].job # poolJob
    BY <2>1
  <2>3. sentPc # "idle" => sentJob.job # poolJob
    BY <2>1
  <2> QED
    BY <1>3, <2>1, <2>2, <2>3, SentJobFields DEF PoolReject, PoolSaveSent
<1>4. CASE PoolEnqueueSent
  <2> DEFINE s == [job |-> poolJob, nonce |-> attempt.nonce, prices |-> {attempt.price}]
  <2>1. s \in SentJob /\ s.job = poolJob
    BY <1>4 DEF PoolEnqueueSent, SentJob, Attempt, Signing
  <2>2. sentQ' = Append(sentQ, s) /\ poolPc = "enqueue" /\ poolPc' = "ack"
    BY <1>4 DEF PoolEnqueueSent
  <2> HIDE DEF s
  <2>3. \A i \in DOMAIN sentQ' : jobState[sentQ'[i].job] = "sent"
    BY <2>1, <2>2, AppendElements
  <2>4. \A i, k \in DOMAIN sentQ' : sentQ'[i].job = sentQ'[k].job => i = k
    BY <2>1, <2>2, AppendElements
  <2>5. sentPc # "idle" => \A i \in DOMAIN sentQ' : sentQ'[i].job # sentJob.job
    BY <2>1, <2>2, AppendElements
  <2> QED
    BY <1>4, <2>2, <2>3, <2>4, <2>5 DEF PoolEnqueueSent
<1>5. CASE SentFetch
  <2>1. /\ sentQ \in Seq(SentJob) /\ sentQ # <<>> /\ sentQ' = Tail(sentQ)
        /\ sentJob' = Head(sentQ)
    BY <1>5 DEF SentFetch
  <2>2. \A i \in DOMAIN sentQ' : jobState[sentQ'[i].job] = "sent"
    BY <2>1, TailElements
  <2>3. \A i, k \in DOMAIN sentQ' : sentQ'[i].job = sentQ'[k].job => i = k
    BY <2>1, TailElements
  <2>4. /\ jobState[sentJob'.job] = "sent"
        /\ \A i \in DOMAIN sentQ' : sentQ'[i].job # sentJob'.job
    BY <2>1, TailElements
  <2>5. poolPc = "enqueue" => /\ \A i \in DOMAIN sentQ' : sentQ'[i].job # poolJob
                              /\ sentJob'.job # poolJob
    BY <2>1, TailElements
  <2> QED
    BY <1>5, <2>2, <2>3, <2>4, <2>5 DEF SentFetch
<1>6. CASE SentCheck \/ SentResend \/ SentResendError \/ SentResendNoFunds \/ SentRollback
             \/ SentAck \/ SentThrows
  BY <1>6 DEF SentCheck, SentResend, SentResendError, SentResendNoFunds, SentRollback,
     SentAck, SentThrows, SentSteps
<1>7. CASE SentSave
  BY <1>7 DEF SentSave, SentJob
<1>8. CASE SentConfirmed \/ SentReverted
  <2>1. /\ sentPc # "idle" /\ sentPc' = "ack"
        /\ UNCHANGED <<sentQ, sentJob, poolPc, poolJob>>
        /\ \E f \in {"completed", "reverted"} :
             jobState' = [jobState EXCEPT ![sentJob.job] = f]
    BY <1>8 DEF SentConfirmed, SentReverted
  <2> QED
    BY <2>1, SentJobFields
<1>9. CASE Resume \/ FundsCheckFails \/ Mine \/ Drop \/ RunDry \/ TopUp \/ UNCHANGED vars
  BY <1>9 DEF Resume, FundsCheckFails, Mine, Drop, RunDry, TopUp, vars
<1>10. CASE PoolRedeliver \/ SentRedeliver \/ Crash
  BY <1>10 DEF PoolRedeliver, SentRedeliver, Crash
<1>11. CASE \E j \in Jobs : Observe(j)
  BY <1>11 DEF Observe
<1>12. CASE \E k \in Nullifiers : ForeignSpend(k)
  BY <1>12 DEF ForeignSpend
<1> QED
  BY <1>1, <1>2, <1>3, <1>4, <1>5, <1>6, <1>7, <1>8, <1>9, <1>10, <1>11, <1>12
  DEF Next, Relayer, PoolStep, SentStep, Environment

-----------------------------------------------------------------------------
LEMMA NonceInvKept ==
  ASSUME MaxCrashes = 0, TypeOK, StageInv, NonceInv, ChainInv, [Next]_vars
  PROVE  NonceInv'
<1> USE DEF NonceInv, TypeOK, Signing, queueVars, cacheVars, poolVars, sentVars, memVars,
            chainVars, auxVars, historyVars
<1>1. CASE PoolPrepare
  <2>1. attempt'.nonce = nonce /\ nonce' = nonce + 1
    BY <1>1 DEF PoolPrepare
  <2> QED
    BY <1>1, <2>1, SentJobFields DEF PoolPrepare
<1>2. CASE PoolFetch \/ PoolValidate \/ PoolReject \/ PoolSendAccepted \/ PoolSendError
             \/ PoolSendNoFunds \/ PoolAddNullifier \/ PoolCacheTx
             \/ PoolSaveSent \/ PoolAck
  BY <1>2 DEF PoolFetch, PoolValidate, PoolReject, PoolSendAccepted, PoolSendError,
     PoolSendNoFunds, PoolAddNullifier, PoolCacheTx, PoolSaveSent, PoolAck
<1>12. CASE PoolThrows
  BY <1>12, ThrowMoves, SentJobFields
<1>3. CASE PoolEnqueueSent
  <2> DEFINE s == [job |-> poolJob, nonce |-> attempt.nonce, prices |-> {attempt.price}]
  <2>1. s \in SentJob /\ s.nonce = attempt.nonce
    BY <1>3 DEF PoolEnqueueSent, SentJob, Attempt, Signing
  <2>2. sentQ' = Append(sentQ, s) /\ poolPc = "enqueue" /\ poolPc' = "ack"
    BY <1>3 DEF PoolEnqueueSent
  <2> HIDE DEF s
  <2>3. \A i \in DOMAIN sentQ' : sentQ'[i].nonce < nonce
    BY <2>1, <2>2, AppendElements
  <2>4. \A i, k \in DOMAIN sentQ' : sentQ'[i].nonce = sentQ'[k].nonce => i = k
    BY <2>1, <2>2, AppendElements
  <2>5. sentPc # "idle" => \A i \in DOMAIN sentQ' : sentQ'[i].nonce # sentJob.nonce
    BY <2>1, <2>2, AppendElements
  <2> QED
    BY <1>3, <2>2, <2>3, <2>4, <2>5 DEF PoolEnqueueSent
<1>4. CASE SentFetch
  <2>1. /\ sentQ \in Seq(SentJob) /\ sentQ # <<>> /\ sentQ' = Tail(sentQ)
        /\ sentJob' = Head(sentQ)
    BY <1>4 DEF SentFetch
  <2>2. \A i \in DOMAIN sentQ' : /\ sentQ'[i].nonce < nonce
                                 /\ poolPc \in Signing => sentQ'[i].nonce # attempt.nonce
    BY <2>1, TailElements
  <2>3. \A i, k \in DOMAIN sentQ' : sentQ'[i].nonce = sentQ'[k].nonce => i = k
    BY <2>1, TailElements
  <2>4. /\ sentJob'.nonce < nonce
        /\ poolPc \in Signing => sentJob'.nonce # attempt.nonce
        /\ \A i \in DOMAIN sentQ' : sentQ'[i].nonce # sentJob'.nonce
    BY <2>1, TailElements
  <2> QED
    BY <1>4, <2>2, <2>3, <2>4 DEF SentFetch
<1>5. CASE SentCheck \/ SentResend \/ SentResendError \/ SentResendNoFunds
             \/ SentConfirmed \/ SentRollback \/ SentReverted \/ SentAck \/ SentThrows
  BY <1>5 DEF SentCheck, SentResend, SentResendError, SentResendNoFunds, SentConfirmed,
     SentRollback, SentReverted, SentAck, SentThrows
<1>6. CASE SentSave
  BY <1>6 DEF SentSave, SentJob
<1>7. CASE Mine
  BY <1>7 DEF Mine, ChainInv, Attempt
<1>8. CASE Resume \/ FundsCheckFails \/ Drop \/ RunDry \/ TopUp \/ UNCHANGED vars
  BY <1>8 DEF Resume, FundsCheckFails, Drop, RunDry, TopUp, vars
<1>9. CASE PoolRedeliver \/ SentRedeliver \/ Crash
  BY <1>9 DEF PoolRedeliver, SentRedeliver, Crash, StageInv, PoolStage
<1>10. CASE \E j \in Jobs : Submit(j) \/ Observe(j)
  BY <1>10 DEF Submit, Observe
<1>11. CASE \E k \in Nullifiers : ForeignSpend(k)
  BY <1>11 DEF ForeignSpend
<1> QED
  BY <1>1, <1>2, <1>3, <1>4, <1>5, <1>6, <1>7, <1>8, <1>9, <1>10, <1>11, <1>12
  DEF Next, Relayer, PoolStep, SentStep, Environment

LEMMA ChainInvKept ==
  ASSUME MaxCrashes = 0, TypeOK, StageInv, NonceInv, ChainInv, [Next]_vars
  PROVE  ChainInv'
<1> USE DEF ChainInv, TypeOK, queueVars, cacheVars, poolVars, sentVars, memVars,
            chainVars, auxVars, historyVars
<1>1. CASE PoolSendAccepted
  <2>1. attempt \in Attempt /\ chainNonce <= attempt.nonce /\ attempt.nonce < nonce
    BY <1>1 DEF PoolSendAccepted, Accepts, NonceInv, Signing, Attempt
  <2>2. mempool' = Held(attempt)
    BY <1>1 DEF PoolSendAccepted
  <2> QED
    BY <1>1, <2>1, <2>2 DEF PoolSendAccepted, Held
<1>2. CASE SentResend
  <2> PICK p \in Bumped(known) :
        /\ Accepts([job |-> sentJob.job, nonce |-> sentJob.nonce, price |-> p])
        /\ mempool' = Held([job |-> sentJob.job, nonce |-> sentJob.nonce, price |-> p])
        /\ sentPc' \in {"save", "check"}
    BY <1>2 DEF SentResend
  <2>1. chainNonce <= sentJob.nonce /\ sentJob.nonce < nonce
    BY <1>2 DEF SentResend, Accepts, NonceInv
  <2> QED
    BY <1>2, <2>1 DEF SentResend, Held
<1>3. CASE SentCheck
  <2>1. CASE Receipts = {}
    BY <1>3, <2>1 DEF SentCheck
  <2>2. CASE Receipts # {}
    <3>1. sentJob.nonce < chainNonce
      BY <2>2 DEF Receipts
    <3> QED
      BY <1>3, <3>1 DEF SentCheck
  <2> QED
    BY <2>1, <2>2
<1>4. CASE Mine
  <2> PICK a \in mempool, ok \in BOOLEAN :
        /\ a.nonce = chainNonce
        /\ mined' = mined \cup {[job |-> a.job, nonce |-> a.nonce,
                                 price |-> a.price, ok |-> ok]}
        /\ mempool' = mempool \ {a}
        /\ chainNonce' = chainNonce + 1
    BY <1>4 DEF Mine
  <2>1. \A b \in mempool' : b.nonce \in Nat /\ chainNonce' <= b.nonce /\ b.nonce < nonce
    BY DEF Attempt
  <2>2. \A m \in mined' : m.nonce < chainNonce'
    BY DEF Receipt
  <2>3. \A m, k \in mined' : m.nonce = k.nonce => m = k
    BY DEF Receipt
  <2> QED
    BY <1>4, <2>1, <2>2, <2>3, SentJobFields DEF Mine
<1>5. CASE Drop
  BY <1>5 DEF Drop
<1>6. CASE PoolPrepare
  BY <1>6 DEF PoolPrepare, Attempt
<1>7. CASE PoolFetch \/ PoolValidate \/ PoolReject \/ PoolSendError
             \/ PoolSendNoFunds \/ PoolAddNullifier \/ PoolCacheTx
             \/ PoolSaveSent \/ PoolEnqueueSent \/ PoolAck
  BY <1>7 DEF PoolFetch, PoolValidate, PoolReject, PoolSendError, PoolSendNoFunds,
     PoolAddNullifier, PoolCacheTx, PoolSaveSent, PoolEnqueueSent, PoolAck
<1>13. CASE PoolThrows
  <2>1. \A a \in mempool : a.nonce \in Nat
    BY DEF Attempt
  <2> QED
    BY <1>13, <2>1, ThrowMoves
<1>8. CASE SentFetch \/ SentResendError \/ SentResendNoFunds \/ SentSave
             \/ SentConfirmed \/ SentRollback \/ SentReverted \/ SentAck \/ SentThrows
  BY <1>8 DEF SentFetch, SentResendError, SentResendNoFunds, SentSave, SentConfirmed,
     SentRollback, SentReverted, SentAck, SentThrows
<1>9. CASE Resume \/ FundsCheckFails \/ RunDry \/ TopUp \/ UNCHANGED vars
  BY <1>9 DEF Resume, FundsCheckFails, RunDry, TopUp, vars
<1>10. CASE PoolRedeliver \/ SentRedeliver \/ Crash
  BY <1>10 DEF PoolRedeliver, SentRedeliver, Crash, StageInv, PoolStage
<1>11. CASE \E j \in Jobs : Submit(j) \/ Observe(j)
  BY <1>11 DEF Submit, Observe
<1>12. CASE \E k \in Nullifiers : ForeignSpend(k)
  BY <1>12 DEF ForeignSpend
<1> QED
  BY <1>1, <1>2, <1>3, <1>4, <1>5, <1>6, <1>7, <1>8, <1>9, <1>10, <1>11, <1>12, <1>13
  DEF Next, Relayer, PoolStep, SentStep, Environment

(* The places of jobs and the order of nonces, in every state.               *)
LEMMA OrderKept ==
  ASSUME MaxCrashes = 0
  PROVE  Spec => [](StageInv /\ NonceInv /\ ChainInv)
<1>1. Init => StageInv /\ NonceInv /\ ChainInv
  BY DEF Init, StageInv, PoolStage, SentStage, NonceInv, ChainInv, Unreported, Signing
<1>2. TypeOK /\ StageInv /\ NonceInv /\ ChainInv /\ [Next]_vars
        => StageInv' /\ NonceInv' /\ ChainInv'
  BY PoolStageKept, SentStageKept, NonceInvKept, ChainInvKept DEF StageInv
<1> QED
  BY <1>1, <1>2, TypeCorrect, PTL DEF Spec

OrderInv == StageInv /\ NonceInv /\ ChainInv

-----------------------------------------------------------------------------
(* Somebody has the transaction of each nonce that the chain waits for.      *)
HasOwner(n) ==
  \/ poolPc \in Signing /\ attempt.nonce = n
  \/ \E i \in DOMAIN sentQ : sentQ[i].nonce = n
  \/ sentPc # "idle" /\ sentJob.nonce = n

OwnedInv == \A n \in Nat \ leaked : chainNonce <= n /\ n < nonce => HasOwner(n)

LEMMA OwnedInvKept ==
  ASSUME MaxCrashes = 0, TypeOK, OrderInv, OwnedInv, [Next]_vars
  PROVE  OwnedInv'
<1> SUFFICES ASSUME NEW n \in Nat \ leaked', chainNonce' <= n, n < nonce' PROVE HasOwner(n)'
  BY DEF OwnedInv
<1> n \in Nat \ leaked
  BY Recorded
<1> USE DEF TypeOK, HasOwner, Signing, queueVars, cacheVars, poolVars, sentVars, memVars,
            chainVars, auxVars, historyVars
<1>0. chainNonce <= nonce
  BY DEF OrderInv, NonceInv
<1>1. CASE PoolPrepare
  <2>1. n = nonce \/ n < nonce
    BY <1>0, <1>1 DEF PoolPrepare
  <2> QED
    BY <1>1, <2>1 DEF PoolPrepare, OwnedInv
<1>2. CASE Mine
  <2>1. chainNonce <= n /\ n < nonce
    BY <1>2 DEF Mine
  <2> QED
    BY <1>2, <2>1 DEF Mine, OwnedInv
<1>3. CASE PoolFetch \/ PoolValidate \/ PoolReject \/ PoolSendAccepted
             \/ PoolSendError \/ PoolSendNoFunds \/ PoolAddNullifier \/ PoolCacheTx
             \/ PoolSaveSent \/ PoolAck
  BY <1>3 DEF PoolFetch, PoolValidate, PoolReject, PoolSendAccepted, PoolSendError,
     PoolSendNoFunds, PoolAddNullifier, PoolCacheTx, PoolSaveSent, PoolAck, OwnedInv
<1>13. CASE PoolThrows
  <2>1. /\ UNCHANGED <<sentQ, sentPc, sentJob, chainNonce>>
        /\ n < nonce \/ (poolPc = "prepare" /\ n = nonce)
    <3>1. nonce \in Nat /\ n \in Nat
      OBVIOUS
    <3>2. n < nonce + 1 => n < nonce \/ n = nonce
      BY <3>1
    <3> QED
      BY <1>13, <3>2, ThrowMoves
  <2>2. /\ poolPc = "prepare" => n # nonce
        /\ poolPc \in Signing => n # attempt.nonce
    BY <1>13 DEF PoolThrows, Abandon, NonceTaken
  <2>3. HasOwner(n)
    BY <2>1, <2>2 DEF OwnedInv
  <2> QED
    BY <2>1, <2>2, <2>3
<1>4. CASE PoolEnqueueSent
  <2> DEFINE s == [job |-> poolJob, nonce |-> attempt.nonce, prices |-> {attempt.price}]
  <2>1. s \in SentJob /\ s.nonce = attempt.nonce
    BY <1>4 DEF PoolEnqueueSent, SentJob, Attempt, Signing
  <2>2. sentQ' = Append(sentQ, s)
    BY <1>4 DEF PoolEnqueueSent
  <2> HIDE DEF s
  <2>3. \A i \in DOMAIN sentQ : i \in DOMAIN sentQ' /\ sentQ'[i] = sentQ[i]
    BY <2>1, <2>2, AppendElements
  <2>4. \E i \in DOMAIN sentQ' : sentQ'[i].nonce = attempt.nonce
    BY <2>1, <2>2, AppendElements
  <2> QED
    BY <1>4, <2>3, <2>4 DEF PoolEnqueueSent, OwnedInv
<1>5. CASE SentFetch
  <2>1. /\ sentQ \in Seq(SentJob) /\ sentQ # <<>> /\ sentQ' = Tail(sentQ)
        /\ sentJob' = Head(sentQ)
    BY <1>5 DEF SentFetch
  <2>2. \A i \in DOMAIN sentQ :
          \/ sentQ[i] = sentJob'
          \/ \E k \in DOMAIN sentQ' : sentQ'[k] = sentQ[i]
    BY <2>1, TailKeeps
  <2>3. HasOwner(n)
    BY <1>5 DEF SentFetch, OwnedInv
  <2>4. poolPc' = poolPc /\ attempt' = attempt /\ sentPc = "idle" /\ sentPc' # "idle"
    BY <1>5 DEF SentFetch
  <2> QED
    BY <2>2, <2>3, <2>4
<1>6. CASE SentCheck \/ SentResend \/ SentResendError \/ SentResendNoFunds
             \/ SentConfirmed \/ SentRollback \/ SentReverted \/ SentThrows
  BY <1>6 DEF SentCheck, SentResend, SentResendError, SentResendNoFunds, SentConfirmed,
     SentRollback, SentReverted, SentThrows, OwnedInv, SentSteps
<1>7. CASE SentSave
  BY <1>7 DEF SentSave, SentJob, OwnedInv
<1>8. CASE SentAck
  <2>1. sentJob.nonce < chainNonce /\ sentJob.nonce \in Nat
    BY <1>8, SentJobFields DEF SentAck, OrderInv, ChainInv
  <2>2. sentJob.nonce # n
    BY <1>8, <2>1 DEF SentAck
  <2> QED
    BY <1>8, <2>2 DEF SentAck, OwnedInv
<1>9. CASE Resume \/ FundsCheckFails \/ Drop \/ RunDry \/ TopUp \/ UNCHANGED vars
  BY <1>9 DEF Resume, FundsCheckFails, Drop, RunDry, TopUp, vars, OwnedInv
<1>10. CASE PoolRedeliver \/ SentRedeliver \/ Crash
  BY <1>10 DEF PoolRedeliver, SentRedeliver, Crash, OrderInv, StageInv, PoolStage
<1>11. CASE \E j \in Jobs : Submit(j) \/ Observe(j)
  BY <1>11 DEF Submit, Observe, OwnedInv
<1>12. CASE \E k \in Nullifiers : ForeignSpend(k)
  BY <1>12 DEF ForeignSpend, OwnedInv
<1> QED
  BY <1>1, <1>2, <1>3, <1>4, <1>5, <1>6, <1>7, <1>8, <1>9, <1>10, <1>11, <1>12,
     <1>13
  DEF Next, Relayer, PoolStep, SentStep, Environment

(* The jobs of the sent queue by their place.                                *)
LEMMA SentJobsByPlace ==
  ASSUME TypeOK, PoolStage
  PROVE  SentJobs = {sentQ[i] : i \in DOMAIN sentQ}
                    \cup (IF sentPc = "idle" THEN {} ELSE {sentJob})
<1>1. sentPc # "idle" => sentJob # NoSent
  BY NoSentAssumption DEF TypeOK
<1> QED
  BY <1>1 DEF TypeOK, PoolStage, SentJobs, ToSet

LEMMA NonceOwnedByInv == TypeOK /\ OrderInv /\ OwnedInv => NonceOwned
<1> SUFFICES ASSUME TypeOK, OrderInv, OwnedInv, NEW n \in (chainNonce..(nonce - 1)) \ leaked
             PROVE  /\ PoolOwns(n) \/ \E s \in SentJobs : s.nonce = n
                    /\ PoolOwns(n) => \A s \in SentJobs : s.nonce # n
                    /\ \A s, t \in SentJobs : s.nonce = n /\ t.nonce = n => s = t
  BY DEF NonceOwned
<1>0. n \in Nat \ leaked /\ chainNonce <= n /\ n < nonce
  BY DEF TypeOK
<1>1. PoolOwns(n) <=> poolPc \in Signing /\ attempt.nonce = n
  BY DEF PoolOwns, Signing
<1>2. \A s \in SentJobs : \/ \E i \in DOMAIN sentQ : s = sentQ[i]
                          \/ sentPc # "idle" /\ s = sentJob
  BY SentJobsByPlace DEF OrderInv, StageInv
<1>3. PoolOwns(n) \/ \E s \in SentJobs : s.nonce = n
  BY <1>0, <1>1, SentJobsByPlace DEF OwnedInv, HasOwner, OrderInv, StageInv
<1>4. PoolOwns(n) => \A s \in SentJobs : s.nonce # n
  BY <1>1, <1>2 DEF OrderInv, NonceInv
<1>5. ASSUME NEW s \in SentJobs, NEW t \in SentJobs, s.nonce = n, t.nonce = n
      PROVE  s = t
  <2>1. ASSUME NEW i \in DOMAIN sentQ, NEW k \in DOMAIN sentQ,
               s = sentQ[i], t = sentQ[k]
        PROVE  s = t
    <3>1. i = k
      BY <1>5, <2>1 DEF OrderInv, NonceInv
    <3> QED
      BY <2>1, <3>1
  <2>2. CASE sentPc # "idle" /\ (s = sentJob \/ t = sentJob)
    BY <1>2, <1>5, <2>2 DEF OrderInv, NonceInv
  <2> QED
    BY <1>2, <2>1, <2>2
<1> QED
  BY <1>3, <1>4, <1>5

(* Every nonce the chain waits for has exactly one owner that will send it   *)
(* (again), as long as the process runs, unless it was handed out for a job  *)
(* that the pool worker left at a throw.                                     *)
THEOREM NoncesOwned ==
  ASSUME MaxCrashes = 0
  PROVE  Spec => []NonceOwned
<1>1. Init => OwnedInv
  BY DEF Init, OwnedInv
<1>2. TypeOK /\ OrderInv /\ OwnedInv /\ [Next]_vars => OwnedInv'
  BY OwnedInvKept
<1>3. Spec => []OrderInv
  BY OrderKept DEF OrderInv
<1> QED
  BY <1>1, <1>2, <1>3, NonceOwnedByInv, TypeCorrect, PTL DEF Spec

-----------------------------------------------------------------------------
(* A tracked attempt stays tracked until the sent worker is done with it.    *)
LEMMA TracksKept ==
  ASSUME MaxCrashes = 0, ThrowsAt \cap Signing = {}, TypeOK, OrderInv, [Next]_vars,
         NEW a, Tracks(a)
  PROVE  \/ Tracks(a)'
         \/ SentAck /\ sentJob.job = a.job /\ sentJob.nonce = a.nonce
<1> DEFINE Asked == poolPc \in Signing /\ attempt.job = a.job
                    /\ attempt.nonce = a.nonce /\ attempt.price = a.price
           Holds(s) == s.job = a.job /\ s.nonce = a.nonce /\ a.price \in s.prices
           Queued == \E i \in DOMAIN sentQ : Holds(sentQ[i])
           Polled == sentPc # "idle" /\ sentJob.job = a.job
                     /\ sentJob.nonce = a.nonce /\ a.price \in known
<1>a. Tracks(a) <=> Asked \/ Polled \/ Queued
  BY DEF Tracks, PoolOwns, Signing, ToSet
<1>b. Tracks(a)' <=> Asked' \/ Polled' \/ Queued'
  BY DEF Tracks, PoolOwns, Signing, ToSet
<1> USE DEF TypeOK, Signing, queueVars, cacheVars, poolVars, sentVars, memVars,
            chainVars, auxVars, historyVars
<1>1. CASE PoolFetch \/ PoolValidate \/ PoolReject \/ PoolPrepare \/ PoolSendAccepted
             \/ PoolSendError \/ PoolSendNoFunds \/ PoolAddNullifier \/ PoolCacheTx
             \/ PoolSaveSent \/ PoolAck
  BY <1>a, <1>b, <1>1, SMTT(30) DEF PoolFetch, PoolValidate, PoolReject, PoolPrepare,
     PoolSendAccepted, PoolSendError, PoolSendNoFunds, PoolAddNullifier, PoolCacheTx,
     PoolSaveSent, PoolAck
<1>11. CASE PoolThrows
  <2>1. ~Asked /\ UNCHANGED <<sentQ, sentPc, sentJob, known>>
    BY <1>11, ThrowMoves
  <2> QED
    BY <1>a, <1>b, <2>1
<1>2. CASE PoolEnqueueSent
  <2> DEFINE s == [job |-> poolJob, nonce |-> attempt.nonce, prices |-> {attempt.price}]
  <2>1. s \in SentJob
    BY <1>2 DEF PoolEnqueueSent, SentJob, Attempt, Signing
  <2>2. Asked => Holds(s)
    BY <1>2 DEF PoolEnqueueSent, OrderInv, StageInv, PoolStage
  <2>3. sentQ' = Append(sentQ, s)
    BY <1>2 DEF PoolEnqueueSent
  <2> HIDE DEF s
  <2>4. \A i \in DOMAIN sentQ : i \in DOMAIN sentQ' /\ sentQ'[i] = sentQ[i]
    BY <2>1, <2>3, AppendElements
  <2>5. \E i \in DOMAIN sentQ' : sentQ'[i] = s
    BY <2>1, <2>3, AppendElements
  <2> QED
    BY <1>2, <1>a, <1>b, <2>2, <2>4, <2>5 DEF PoolEnqueueSent
<1>3. CASE SentFetch
  <2>1. /\ sentQ \in Seq(SentJob) /\ sentQ # <<>> /\ sentQ' = Tail(sentQ)
        /\ sentJob' = Head(sentQ) /\ known' = Head(sentQ).prices
    BY <1>3 DEF SentFetch
  <2>2. \A i \in DOMAIN sentQ :
          \/ sentQ[i] = sentJob'
          \/ \E k \in DOMAIN sentQ' : sentQ'[k] = sentQ[i]
    BY <2>1, TailKeeps
  <2> QED
    BY <1>3, <1>a, <1>b, <2>1, <2>2 DEF SentFetch
<1>4. CASE SentCheck \/ SentResend \/ SentResendError \/ SentResendNoFunds
             \/ SentConfirmed \/ SentRollback \/ SentReverted \/ SentThrows
  BY <1>4, <1>a, <1>b DEF SentCheck, SentResend, SentResendError, SentResendNoFunds,
     SentConfirmed, SentRollback, SentReverted, SentThrows, SentSteps
<1>5. CASE SentSave
  BY <1>5, <1>a, <1>b DEF SentSave, SentJob
<1>6. CASE SentAck
  BY <1>6, <1>a, <1>b DEF SentAck
<1>7. CASE Resume \/ FundsCheckFails \/ Mine \/ Drop \/ RunDry \/ TopUp \/ UNCHANGED vars
  BY <1>7, <1>a, <1>b DEF Resume, FundsCheckFails, Mine, Drop, RunDry, TopUp, vars
<1>8. CASE PoolRedeliver \/ SentRedeliver \/ Crash
  BY <1>8 DEF PoolRedeliver, SentRedeliver, Crash, OrderInv, StageInv, PoolStage
<1>9. CASE \E j \in Jobs : Submit(j) \/ Observe(j)
  BY <1>9, <1>a, <1>b DEF Submit, Observe
<1>10. CASE \E k \in Nullifiers : ForeignSpend(k)
  BY <1>10, <1>a, <1>b DEF ForeignSpend
<1> QED
  BY <1>1, <1>2, <1>3, <1>4, <1>5, <1>6, <1>7, <1>8, <1>9, <1>10, <1>11
  DEF Next, Relayer, PoolStep, SentStep, Environment

(* How a status changes, and by which step.                                  *)
LEMMA StatusSteps ==
  ASSUME MaxCrashes = 0, TypeOK, StageInv, [Next]_vars
  PROVE  \/ jobState' = jobState
         \/ \E j \in Jobs : /\ Submit(j) /\ jobState[j] = "none"
                            /\ jobState' = [jobState EXCEPT ![j] = "waiting"]
         \/ /\ PoolReject /\ poolJob \in Jobs /\ jobState[poolJob] = "waiting"
            /\ jobState' = [jobState EXCEPT ![poolJob] = "failed"]
         \/ /\ PoolSaveSent /\ poolJob \in Jobs /\ jobState[poolJob] = "waiting"
            /\ jobState' = [jobState EXCEPT ![poolJob] = "sent"]
         \/ /\ SentConfirmed /\ sentJob.job \in Jobs /\ jobState[sentJob.job] = "sent"
            /\ jobState' = [jobState EXCEPT ![sentJob.job] = "completed"]
         \/ /\ SentReverted /\ sentJob.job \in Jobs /\ jobState[sentJob.job] = "sent"
            /\ jobState' = [jobState EXCEPT ![sentJob.job] = "reverted"]
<1> USE DEF TypeOK, StageInv, queueVars, vars
<1>1. CASE \E j \in Jobs : Submit(j)
  BY <1>1 DEF Submit
<1>2. CASE PoolReject \/ PoolSaveSent
  BY <1>2 DEF PoolReject, PoolSaveSent, PoolStage, Unreported
<1>3. CASE SentConfirmed \/ SentReverted
  BY <1>3, SentJobFields DEF SentConfirmed, SentReverted, SentStage, SentThrows
<1>4. CASE PoolFetch \/ PoolValidate \/ PoolPrepare \/ PoolSendAccepted
             \/ PoolSendError \/ PoolSendNoFunds \/ PoolAddNullifier \/ PoolCacheTx
             \/ PoolThrows \/ PoolEnqueueSent \/ PoolAck
  BY <1>4 DEF PoolFetch, PoolValidate, PoolPrepare, PoolSendAccepted, PoolSendError,
     PoolSendNoFunds, PoolAddNullifier, PoolCacheTx, PoolThrows, Abandon, PoolEnqueueSent,
     PoolAck
<1>5. CASE SentFetch \/ SentCheck \/ SentResend \/ SentResendError
             \/ SentResendNoFunds \/ SentSave \/ SentRollback \/ SentAck \/ SentThrows
  BY <1>5 DEF SentFetch, SentCheck, SentResend, SentResendError, SentResendNoFunds,
     SentSave, SentRollback, SentAck, SentThrows
<1>6. CASE Resume \/ FundsCheckFails \/ PoolRedeliver \/ SentRedeliver \/ Mine \/ Drop \/ RunDry \/ TopUp
             \/ Crash \/ UNCHANGED vars
  BY <1>6 DEF Resume, FundsCheckFails, PoolRedeliver, SentRedeliver, Mine, Drop, RunDry,
     TopUp, Crash
<1>7. CASE \E j \in Jobs : Observe(j)
  BY <1>7 DEF Observe
<1>8. CASE \E k \in Nullifiers : ForeignSpend(k)
  BY <1>8 DEF ForeignSpend
<1> QED
  BY <1>1, <1>2, <1>3, <1>4, <1>5, <1>6, <1>7, <1>8
  DEF Next, Relayer, PoolStep, SentStep, Environment

(* How the node's attempts and the receipts change, and by which step.       *)
LEMMA ChainSteps ==
  ASSUME [Next]_vars
  PROVE  \/ UNCHANGED <<mempool, mined>>
         \/ PoolSendAccepted /\ mempool' = Held(attempt) /\ mined' = mined
         \/ /\ SentResend /\ mined' = mined
            /\ \E p \in Bumped(known) :
                 LET a == [job |-> sentJob.job, nonce |-> sentJob.nonce, price |-> p]
                 IN  mempool' = Held(a) /\ Accepts(a) /\ known' = known \cup {p}
         \/ /\ Mine
            /\ \E a \in mempool, ok \in BOOLEAN :
                 /\ a.nonce = chainNonce
                 /\ mined' = mined \cup {[job |-> a.job, nonce |-> a.nonce,
                                          price |-> a.price, ok |-> ok]}
                 /\ mempool' = mempool \ {a}
         \/ mempool' \subseteq mempool /\ mined' = mined
<1> USE DEF chainVars, vars
<1>1. CASE PoolSendAccepted \/ SentResend
  BY <1>1 DEF PoolSendAccepted, SentResend
<1>2. CASE Mine
  BY <1>2 DEF Mine
<1>3. CASE Drop
  BY <1>3 DEF Drop
<1>4. CASE PoolFetch \/ PoolValidate \/ PoolReject \/ PoolPrepare \/ PoolSendError
             \/ PoolSendNoFunds \/ PoolAddNullifier \/ PoolCacheTx \/ PoolThrows
             \/ PoolSaveSent \/ PoolEnqueueSent \/ PoolAck
  BY <1>4 DEF PoolFetch, PoolValidate, PoolReject, PoolPrepare, PoolSendError,
     PoolSendNoFunds, PoolAddNullifier, PoolCacheTx, PoolThrows, Abandon, PoolSaveSent,
     PoolEnqueueSent, PoolAck
<1>5. CASE SentFetch \/ SentCheck \/ SentResendError \/ SentResendNoFunds \/ SentSave
             \/ SentConfirmed \/ SentRollback \/ SentReverted \/ SentAck \/ SentThrows
  BY <1>5 DEF SentFetch, SentCheck, SentResendError, SentResendNoFunds, SentSave,
     SentConfirmed, SentRollback, SentReverted, SentAck, SentThrows
<1>6. CASE Resume \/ FundsCheckFails \/ PoolRedeliver \/ SentRedeliver \/ RunDry \/ TopUp \/ Crash
             \/ UNCHANGED vars
  BY <1>6 DEF Resume, FundsCheckFails, PoolRedeliver, SentRedeliver, RunDry, TopUp, Crash
<1>7. CASE \E j \in Jobs : Submit(j) \/ Observe(j)
  BY <1>7 DEF Submit, Observe
<1>8. CASE \E k \in Nullifiers : ForeignSpend(k)
  BY <1>8 DEF ForeignSpend
<1> QED
  BY <1>1, <1>2, <1>3, <1>4, <1>5, <1>6, <1>7, <1>8
  DEF Next, Relayer, PoolStep, SentStep, Environment

LEMMA MempoolTracked ==
  ASSUME MaxCrashes = 0, ThrowsAt \cap Signing = {}, TypeOK, OrderInv, AttemptsTracked,
         [Next]_vars, NEW a \in mempool'
  PROVE  Tracks(a)'
<1>1. CASE a \in mempool
  <2>1. Tracks(a) /\ a.nonce \in Nat /\ chainNonce <= a.nonce
    BY <1>1 DEF AttemptsTracked, OrderInv, ChainInv, TypeOK, Attempt
  <2>2. SentAck => sentJob.nonce < chainNonce /\ sentJob.nonce \in Nat
    BY SentJobFields DEF SentAck, OrderInv, ChainInv
  <2>3. ~(SentAck /\ sentJob.nonce = a.nonce)
    BY <2>1, <2>2 DEF TypeOK
  <2> QED
    BY <2>1, <2>3, TracksKept
<1>2. CASE a \notin mempool
  <2>1. CASE PoolSendAccepted /\ mempool' = Held(attempt)
    <3>1. a = attempt
      BY <1>2, <2>1 DEF Held
    <3> QED
      BY <2>1, <3>1 DEF PoolSendAccepted, poolVars, Tracks, PoolOwns, Signing
  <2>2. CASE SentResend
    <3> PICK p \in Bumped(known) :
          LET b == [job |-> sentJob.job, nonce |-> sentJob.nonce, price |-> p]
          IN  mempool' = Held(b) /\ known' = known \cup {p}
      BY <2>2 DEF SentResend
    <3>1. a = [job |-> sentJob.job, nonce |-> sentJob.nonce, price |-> p]
      BY <1>2 DEF Held
    <3>2. /\ sentPc' # "idle" /\ sentJob' = sentJob /\ a.price \in known'
          /\ a.job = sentJob.job /\ a.nonce = sentJob.nonce
      BY <2>2, <3>1 DEF SentResend
    <3> QED
      BY <3>2 DEF Tracks
  <2> QED
    BY <1>2, <2>1, <2>2, ChainSteps
<1> QED
  BY <1>1, <1>2

LEMMA MinedTracked ==
  ASSUME MaxCrashes = 0, ThrowsAt \cap Signing = {}, TypeOK, OrderInv, AttemptsTracked,
         [Next]_vars, NEW m \in mined'
  PROVE  (Tracks(m) \/ jobState[m.job] \in {"completed", "reverted"})'
<1>1. CASE m \in mined
  <2>1. m.job \in Jobs
    BY <1>1 DEF TypeOK, Receipt
  <2>2. CASE jobState[m.job] \in {"completed", "reverted"}
    <3>1. jobState'[m.job] = jobState[m.job]
      BY <2>1, <2>2, StatusSteps DEF OrderInv, TypeOK
    <3> QED
      BY <2>2, <3>1
  <2>3. CASE Tracks(m) /\ SentAck /\ sentJob.job = m.job
    <3>1. jobState[sentJob.job] \in {"completed", "reverted"} /\ jobState' = jobState
      BY <2>3 DEF SentAck, queueVars, OrderInv, StageInv, SentStage
    <3> QED
      BY <2>3, <3>1
  <2>4. CASE Tracks(m) /\ ~(SentAck /\ sentJob.job = m.job)
    BY <2>4, TracksKept
  <2> QED
    BY <1>1, <2>2, <2>3, <2>4 DEF AttemptsTracked
<1>2. CASE m \notin mined
  <2> PICK a \in mempool, ok \in BOOLEAN :
        /\ Mine
        /\ mined' = mined \cup {[job |-> a.job, nonce |-> a.nonce,
                                 price |-> a.price, ok |-> ok]}
    BY <1>2, ChainSteps
  <2>1. m.job = a.job /\ m.nonce = a.nonce /\ m.price = a.price
    BY <1>2
  <2>2. Tracks(a)
    BY DEF AttemptsTracked
  <2>3. UNCHANGED <<poolVars, sentVars, queueVars>>
    BY DEF Mine
  <2> QED
    BY <2>1, <2>2, <2>3 DEF Tracks, PoolOwns, poolVars, sentVars, queueVars
<1> QED
  BY <1>1, <1>2

(* Whatever attempt the node holds or the chain executed, a worker or the    *)
(* sent queue knows its hash until the job has its final status: an error of *)
(* a re-send never loses one, while no call throws after a signature.        *)
THEOREM HashesKept ==
  ASSUME MaxCrashes = 0, ThrowsAt \cap Signing = {}
  PROVE  Spec => []AttemptsTracked
<1>1. Init => AttemptsTracked
  BY DEF Init, AttemptsTracked
<1>2. TypeOK /\ OrderInv /\ AttemptsTracked /\ [Next]_vars => AttemptsTracked'
  BY MempoolTracked, MinedTracked DEF AttemptsTracked
<1>3. Spec => []OrderInv
  BY OrderKept DEF OrderInv
<1> QED
  BY <1>1, <1>2, <1>3, TypeCorrect, PTL DEF Spec

-----------------------------------------------------------------------------
(* The commitment of a job that was told REVERTED is not served any more: a  *)
(* job is cached only while it is being sent, once.                          *)
THEOREM RevertedDropped ==
  ASSUME MaxCrashes = 0
  PROVE  Spec => []RevertedNotCached
<1>1. Init => RevertedNotCached
  BY DEF Init, RevertedNotCached
<1>2. TypeOK /\ OrderInv /\ RevertedNotCached /\ [Next]_vars => RevertedNotCached'
  <2> SUFFICES ASSUME TypeOK, OrderInv, RevertedNotCached, [Next]_vars,
                      NEW j \in Jobs, jobState'[j] = "reverted"
               PROVE  j \notin txStore'
    BY DEF RevertedNotCached
  <2>0. StageInv /\ jobState \in [Jobs -> JobState]
    BY DEF OrderInv, TypeOK
  <2>1. jobState[j] = "reverted" \/ (SentReverted /\ j = sentJob.job)
    BY <2>0, StatusSteps
  <2>2. CASE PoolCacheTx
    <3>1. jobState[poolJob] = "waiting" /\ jobState' = jobState
      BY <2>2 DEF PoolCacheTx, queueVars, OrderInv, StageInv, PoolStage, Unreported
    <3> QED
      BY <2>1, <2>2, <3>1 DEF PoolCacheTx, RevertedNotCached
  <2>3. CASE ~PoolCacheTx
    <3>1. txStore' \subseteq txStore
      BY <2>3 DEF Next, Relayer, PoolStep, SentStep, Environment, PoolFetch,
         PoolValidate, PoolReject, PoolPrepare, PoolSendAccepted, PoolSendError,
         PoolSendNoFunds, PoolAddNullifier, PoolThrows, Abandon, PoolSaveSent,
         PoolEnqueueSent, PoolAck, SentFetch, SentCheck, SentResend, SentResendError,
         SentResendNoFunds, SentSave, SentConfirmed, SentRollback, SentReverted,
         SentAck, Resume, FundsCheckFails, PoolRedeliver, SentRedeliver, SentThrows,
         Submit, Observe, Mine, Drop,
         RunDry, TopUp, Crash, ForeignSpend, vars, cacheVars
    <3>2. CASE SentReverted /\ j = sentJob.job
      BY <3>2 DEF SentReverted
    <3> QED
      BY <2>1, <3>1, <3>2 DEF RevertedNotCached
  <2> QED
    BY <2>2, <2>3
<1>3. Spec => []OrderInv
  BY OrderKept DEF OrderInv
<1> QED
  BY <1>1, <1>2, <1>3, TypeCorrect, PTL DEF Spec

-----------------------------------------------------------------------------
(* A job no call of which can be at the node or on chain yet, a call that    *)
(* is, and the agreement of those who hold a job on the nonce of its call.   *)
Untouched(j) ==
  \/ jobState[j] \in {"none", "failed"}
  \/ \E i \in DOMAIN poolQ : poolQ[i] = j
  \/ poolPc \in {"validate", "prepare", "send"} /\ poolJob = j

Called(j, n) == \E a \in mempool \cup mined : a.job = j /\ a.nonce = n

HoldersAgree(j, n) ==
  /\ poolPc \in Signing /\ poolJob = j => attempt.nonce = n
  /\ \A i \in DOMAIN sentQ : sentQ[i].job = j => sentQ[i].nonce = n
  /\ sentPc # "idle" /\ sentJob.job = j => sentJob.nonce = n

(* A job is called only once it was signed for, and always at one nonce.     *)
SendInv ==
  \A j \in Jobs, n \in Nat : Called(j, n) =>
    /\ ~Untouched(j)
    /\ HoldersAgree(j, n)
    /\ \A k \in Nat : Called(j, k) => k = n

LEMMA UntouchedOnlyLost ==
  ASSUME MaxCrashes = 0, TypeOK, StageInv, [Next]_vars, NEW j \in Jobs, Untouched(j)'
  PROVE  Untouched(j)
<1> USE DEF Untouched, TypeOK, queueVars, cacheVars, poolVars, sentVars, memVars,
            chainVars, auxVars, historyVars
<1>1. CASE \E k \in Jobs : Submit(k)
  <2> PICK k \in Jobs : Submit(k)
    BY <1>1
  <2>1. \A i \in DOMAIN poolQ' : poolQ'[i] = k \/ \E l \in DOMAIN poolQ : poolQ[l] = poolQ'[i]
    BY AppendElements DEF Submit
  <2> QED
    BY <2>1 DEF Submit
<1>2. CASE PoolFetch
  <2>1. /\ poolQ \in Seq(Jobs) /\ poolQ # <<>> /\ poolQ' = Tail(poolQ)
        /\ poolJob' = Head(poolQ)
    BY <1>2 DEF PoolFetch
  <2>2. \E l \in DOMAIN poolQ : poolQ[l] = poolJob'
    BY <2>1, TailElements
  <2>3. \A i \in DOMAIN poolQ' : \E l \in DOMAIN poolQ : poolQ[l] = poolQ'[i]
    BY <2>1, TailElements
  <2> QED
    BY <1>2, <2>2, <2>3 DEF PoolFetch
<1>3. CASE PoolValidate \/ PoolReject \/ PoolPrepare \/ PoolSendAccepted
             \/ PoolSendError \/ PoolSendNoFunds \/ PoolAddNullifier \/ PoolCacheTx
             \/ PoolThrows \/ PoolSaveSent \/ PoolEnqueueSent \/ PoolAck
  BY <1>3 DEF PoolValidate, PoolReject, PoolPrepare, PoolSendAccepted, PoolSendError,
     PoolSendNoFunds, PoolAddNullifier, PoolCacheTx, PoolThrows, Abandon, PoolSaveSent,
     PoolEnqueueSent, PoolAck
<1>4. CASE SentFetch \/ SentCheck \/ SentResend \/ SentResendError \/ SentResendNoFunds
             \/ SentSave \/ SentConfirmed \/ SentRollback \/ SentReverted \/ SentAck
             \/ SentThrows
  BY <1>4, SentJobFields DEF SentFetch, SentCheck, SentResend, SentResendError,
     SentResendNoFunds, SentSave, SentConfirmed, SentRollback, SentReverted, SentAck,
     SentThrows
<1>5. CASE Resume \/ FundsCheckFails \/ Mine \/ Drop \/ RunDry \/ TopUp \/ UNCHANGED vars
  BY <1>5 DEF Resume, FundsCheckFails, Mine, Drop, RunDry, TopUp, vars
<1>6. CASE PoolRedeliver \/ SentRedeliver \/ Crash
  BY <1>6 DEF PoolRedeliver, SentRedeliver, Crash, StageInv, PoolStage
<1>7. CASE \E k \in Jobs : Observe(k)
  BY <1>7 DEF Observe
<1>8. CASE \E k \in Nullifiers : ForeignSpend(k)
  BY <1>8 DEF ForeignSpend
<1> QED
  BY <1>1, <1>2, <1>3, <1>4, <1>5, <1>6, <1>7, <1>8
  DEF Next, Relayer, PoolStep, SentStep, Environment

LEMMA HoldersStillAgree ==
  ASSUME MaxCrashes = 0, TypeOK, StageInv, [Next]_vars,
         NEW j \in Jobs, NEW n \in Nat, ~Untouched(j), HoldersAgree(j, n)
  PROVE  HoldersAgree(j, n)'
<1> USE DEF HoldersAgree, Signing, TypeOK, queueVars, cacheVars, poolVars, sentVars,
            memVars, chainVars, auxVars, historyVars
<1>1. CASE PoolPrepare
  BY <1>1 DEF PoolPrepare, Untouched
<1>2. CASE PoolFetch \/ PoolValidate \/ PoolReject \/ PoolSendAccepted
             \/ PoolSendError \/ PoolSendNoFunds \/ PoolAddNullifier \/ PoolCacheTx
             \/ PoolThrows \/ PoolSaveSent \/ PoolAck
  BY <1>2 DEF PoolFetch, PoolValidate, PoolReject, PoolSendAccepted, PoolSendError,
     PoolSendNoFunds, PoolAddNullifier, PoolCacheTx, PoolThrows, Abandon, PoolSaveSent,
     PoolAck
<1>3. CASE PoolEnqueueSent
  <2> DEFINE s == [job |-> poolJob, nonce |-> attempt.nonce, prices |-> {attempt.price}]
  <2>1. s \in SentJob /\ s.nonce = attempt.nonce /\ s.job = poolJob
    BY <1>3 DEF PoolEnqueueSent, SentJob, Attempt, Signing
  <2>2. sentQ' = Append(sentQ, s)
    BY <1>3 DEF PoolEnqueueSent
  <2> HIDE DEF s
  <2>3. \A i \in DOMAIN sentQ' : sentQ'[i].job = j => sentQ'[i].nonce = n
    BY <1>3, <2>1, <2>2, AppendElements DEF PoolEnqueueSent
  <2> QED
    BY <1>3, <2>3 DEF PoolEnqueueSent
<1>4. CASE SentFetch
  <2>1. /\ sentQ \in Seq(SentJob) /\ sentQ # <<>> /\ sentQ' = Tail(sentQ)
        /\ sentJob' = Head(sentQ)
    BY <1>4 DEF SentFetch
  <2>2. \A i \in DOMAIN sentQ' : sentQ'[i].job = j => sentQ'[i].nonce = n
    BY <2>1, TailElements
  <2>3. sentJob'.job = j => sentJob'.nonce = n
    BY <2>1, TailElements
  <2> QED
    BY <1>4, <2>2, <2>3 DEF SentFetch
<1>5. CASE SentCheck \/ SentResend \/ SentResendError \/ SentResendNoFunds
             \/ SentConfirmed \/ SentRollback \/ SentReverted \/ SentAck \/ SentThrows
  BY <1>5 DEF SentCheck, SentResend, SentResendError, SentResendNoFunds, SentConfirmed,
     SentRollback, SentReverted, SentAck, SentThrows
<1>6. CASE SentSave
  BY <1>6 DEF SentSave, SentJob
<1>7. CASE Resume \/ FundsCheckFails \/ Mine \/ Drop \/ RunDry \/ TopUp \/ UNCHANGED vars
  BY <1>7 DEF Resume, FundsCheckFails, Mine, Drop, RunDry, TopUp, vars
<1>8. CASE PoolRedeliver \/ SentRedeliver \/ Crash
  BY <1>8 DEF PoolRedeliver, SentRedeliver, Crash, StageInv, PoolStage
<1>9. CASE \E k \in Jobs : Submit(k) \/ Observe(k)
  BY <1>9 DEF Submit, Observe
<1>10. CASE \E k \in Nullifiers : ForeignSpend(k)
  BY <1>10 DEF ForeignSpend
<1> QED
  BY <1>1, <1>2, <1>3, <1>4, <1>5, <1>6, <1>7, <1>8, <1>9, <1>10
  DEF Next, Relayer, PoolStep, SentStep, Environment

(* A call is new only when the pool worker sends, or the sent worker re-sends.*)
LEMMA NewCalls ==
  ASSUME TypeOK, [Next]_vars, NEW j \in Jobs, NEW n \in Nat, Called(j, n)'
  PROVE  \/ Called(j, n)
         \/ PoolSendAccepted /\ attempt.job = j /\ attempt.nonce = n
         \/ SentResend /\ sentJob.job = j /\ sentJob.nonce = n
<1> PICK a \in mempool' \cup mined' : a.job = j /\ a.nonce = n
  BY DEF Called
<1>1. CASE PoolSendAccepted /\ mempool' = Held(attempt) /\ mined' = mined
  BY <1>1 DEF Held, Called
<1>2. CASE SentResend /\ mined' = mined
  <2> PICK p \in Bumped(known) :
        mempool' = Held([job |-> sentJob.job, nonce |-> sentJob.nonce, price |-> p])
    BY <1>2 DEF SentResend
  <2> QED
    BY <1>2 DEF Held, Called
<1>3. CASE \E b \in mempool, ok \in BOOLEAN :
             /\ mined' = mined \cup {[job |-> b.job, nonce |-> b.nonce,
                                      price |-> b.price, ok |-> ok]}
             /\ mempool' = mempool \ {b}
  BY <1>3 DEF Called
<1>4. CASE mempool' \subseteq mempool /\ mined' = mined
  BY <1>4 DEF Called
<1> QED
  BY <1>1, <1>2, <1>3, <1>4, ChainSteps

LEMMA SendInvKept ==
  ASSUME MaxCrashes = 0, TypeOK, StageInv, SendInv, [Next]_vars
  PROVE  SendInv'
<1> SUFFICES ASSUME NEW j \in Jobs, NEW n \in Nat, Called(j, n)'
             PROVE  /\ ~Untouched(j)' /\ HoldersAgree(j, n)'
                    /\ \A k \in Nat : Called(j, k)' => k = n
  BY DEF SendInv
<1>1. CASE Called(j, n)
  <2>1. ~Untouched(j) /\ HoldersAgree(j, n)
    BY <1>1 DEF SendInv
  <2>2. ~Untouched(j)' /\ HoldersAgree(j, n)'
    BY <2>1, UntouchedOnlyLost, HoldersStillAgree
  <2>3. ASSUME NEW k \in Nat, Called(j, k)' PROVE k = n
    <3>1. CASE Called(j, k)
      BY <1>1, <3>1 DEF SendInv
    <3>2. CASE PoolSendAccepted /\ attempt.job = j
      BY <2>1, <3>2 DEF PoolSendAccepted, StageInv, PoolStage, Signing, Untouched
    <3>3. CASE SentResend /\ sentJob.job = j /\ sentJob.nonce = k
      BY <2>1, <3>3 DEF SentResend, HoldersAgree
    <3> QED
      BY <2>3, <3>1, <3>2, <3>3, NewCalls
  <2> QED
    BY <2>2, <2>3
<1>2. CASE ~Called(j, n) /\ PoolSendAccepted /\ attempt.job = j /\ attempt.nonce = n
  <2>1. /\ poolPc = "send" /\ poolPc' = "nullifier" /\ poolJob = j
        /\ UNCHANGED <<jobState, poolQ, sentQ, poolJob, attempt, sentPc, sentJob>>
    BY <1>2 DEF PoolSendAccepted, queueVars, sentVars, StageInv, PoolStage, Signing
  <2>2. /\ jobState[j] = "waiting" /\ \A i \in DOMAIN poolQ : poolQ[i] # j
        /\ \A i \in DOMAIN sentQ : sentQ[i].job # j
        /\ sentPc # "idle" => sentJob.job # j
    BY <2>1 DEF StageInv, PoolStage, SentStage, Unreported
  <2>3. \A k \in Nat : ~Called(j, k)
    BY <2>1 DEF SendInv, Untouched
  <2>4. \A k \in Nat : Called(j, k)' => k = n
    BY <1>2, <2>1, <2>3, NewCalls DEF SentResend
  <2> QED
    BY <1>2, <2>1, <2>2, <2>4 DEF Untouched, HoldersAgree
<1>3. CASE ~Called(j, n) /\ SentResend /\ sentJob.job = j /\ sentJob.nonce = n
  <2>1. /\ sentPc = "resend"
        /\ UNCHANGED <<jobState, poolQ, sentQ, poolPc, poolJob, attempt, sentJob>>
    BY <1>3 DEF SentResend, queueVars, poolVars
  <2>2. /\ jobState[j] = "sent" /\ \A i \in DOMAIN poolQ : poolQ[i] # j
        /\ \A i \in DOMAIN sentQ : sentQ[i].job # j
        /\ poolPc \in Signing \cup {"validate", "prepare"} => poolJob # j
    BY <1>3, <2>1 DEF StageInv, PoolStage, SentStage, Unreported, Signing
  <2>3. \A k \in Nat : Called(j, k) => k = n
    BY <1>3, <2>1 DEF SendInv, HoldersAgree
  <2>4. \A k \in Nat : Called(j, k)' => k = n
    <3>1. ASSUME NEW k \in Nat, Called(j, k)', PoolSendAccepted, attempt.job = j
          PROVE  k = n
      BY <2>1, <2>2, <3>1 DEF PoolSendAccepted, StageInv, PoolStage, Signing
    <3> QED
      BY <1>3, <2>3, <3>1, NewCalls
  <2> QED
    BY <1>3, <2>1, <2>2, <2>4 DEF Untouched, HoldersAgree, Signing
<1> QED
  BY <1>1, <1>2, <1>3, NewCalls

(* A client told FAILED can safely make another transaction of the same      *)
(* notes: nothing of the failed job reaches the node, now or later.          *)
THEOREM FailedStaysHome ==
  ASSUME MaxCrashes = 0
  PROVE  Spec => []FailedNeverSent
<1>1. Init => SendInv
  BY DEF Init, SendInv, Called
<1>2. TypeOK /\ StageInv /\ SendInv /\ [Next]_vars => SendInv'
  BY SendInvKept
<1>3. TypeOK /\ SendInv => FailedNeverSent
  BY DEF TypeOK, SendInv, FailedNeverSent, Untouched, Called, Attempt, Receipt
<1> QED
  BY <1>1, <1>2, <1>3, OrderKept, TypeCorrect, PTL DEF Spec

-----------------------------------------------------------------------------
(* A job that passed validation and is not forgotten, the pool worker's own  *)
(* job before its nullifier is noted, and why no two jobs that spend one     *)
(* nullifier pass: the nullifier of each that passed is in flight or spent.  *)
Passed(j) ==
  \/ \E n \in Nat : Called(j, n)
  \/ \E i \in DOMAIN sentQ : sentQ[i].job = j
  \/ sentPc # "idle" /\ sentJob.job = j
  \/ poolPc \in Signing \cup {"prepare"} /\ poolJob = j

NotNoted(j) == poolPc \in {"prepare", "send", "nullifier"} /\ poolJob = j

NullifierInv ==
  /\ \A j \in Jobs : Passed(j) => NullifierOf[j] \in optNullifiers \/ NotNoted(j)
  /\ \A j, k \in Jobs :
       Passed(j) /\ Passed(k) /\ NullifierOf[j] = NullifierOf[k] => j = k
  /\ \A s \in spent : \E m \in mined : NullifierOf[m.job] = s
  /\ NoSelfRevert
  /\ sentPc \notin {"rollback", "reverted"}

LEMMA NewlyPassed ==
  ASSUME MaxCrashes = 0, TypeOK, StageInv, [Next]_vars, NEW j \in Jobs, Passed(j)'
  PROVE  Passed(j) \/ (PoolValidate /\ poolJob = j)
<1>1. CASE \E n \in Nat : Called(j, n)'
  <2> PICK n \in Nat : Called(j, n)'
    BY <1>1
  <2>1. CASE PoolSendAccepted /\ attempt.job = j
    BY <2>1 DEF PoolSendAccepted, StageInv, PoolStage, Signing, Passed
  <2>2. CASE SentResend /\ sentJob.job = j
    BY <2>2 DEF SentResend, Passed
  <2> QED
    BY <2>1, <2>2, NewCalls DEF Passed
<1>2. CASE \/ \E i \in DOMAIN sentQ' : sentQ'[i].job = j
           \/ sentPc' # "idle" /\ sentJob'.job = j
           \/ poolPc' \in Signing \cup {"prepare"} /\ poolJob' = j
  <2> USE DEF Passed, Signing, TypeOK, queueVars, cacheVars, poolVars, sentVars, memVars
  <2>1. CASE PoolEnqueueSent
    <3> DEFINE s == [job |-> poolJob, nonce |-> attempt.nonce, prices |-> {attempt.price}]
    <3>1. s \in SentJob /\ s.job = poolJob
      BY <2>1 DEF PoolEnqueueSent, SentJob, Attempt, Signing
    <3>2. sentQ' = Append(sentQ, s)
      BY <2>1 DEF PoolEnqueueSent
    <3> HIDE DEF s
    <3>3. \A i \in DOMAIN sentQ' :
            sentQ'[i].job = poolJob \/ \E k \in DOMAIN sentQ : sentQ[k].job = sentQ'[i].job
      BY <3>1, <3>2, AppendElements
    <3> QED
      BY <1>2, <2>1, <3>3 DEF PoolEnqueueSent
  <2>2. CASE SentFetch
    <3>1. /\ sentQ \in Seq(SentJob) /\ sentQ # <<>> /\ sentQ' = Tail(sentQ)
          /\ sentJob' = Head(sentQ)
      BY <2>2 DEF SentFetch
    <3>2. /\ \A i \in DOMAIN sentQ' : \E k \in DOMAIN sentQ : sentQ[k] = sentQ'[i]
          /\ \E k \in DOMAIN sentQ : sentQ[k] = sentJob'
      BY <3>1, TailElements
    <3> QED
      BY <1>2, <2>2, <3>2 DEF SentFetch
  <2>3. CASE PoolFetch \/ PoolValidate \/ PoolReject \/ PoolPrepare \/ PoolSendAccepted
               \/ PoolSendError \/ PoolSendNoFunds \/ PoolAddNullifier \/ PoolCacheTx
               \/ PoolThrows \/ PoolSaveSent \/ PoolAck
    BY <1>2, <2>3 DEF PoolFetch, PoolValidate, PoolReject, PoolPrepare,
       PoolSendAccepted, PoolSendError, PoolSendNoFunds, PoolAddNullifier, PoolCacheTx,
       PoolThrows, Abandon, PoolSaveSent, PoolAck
  <2>4. CASE SentCheck \/ SentResend \/ SentResendError \/ SentResendNoFunds
               \/ SentConfirmed \/ SentRollback \/ SentReverted \/ SentAck \/ SentThrows
    BY <1>2, <2>4 DEF SentCheck, SentResend, SentResendError, SentResendNoFunds,
       SentConfirmed, SentRollback, SentReverted, SentAck, SentThrows
  <2>5. CASE SentSave
    BY <1>2, <2>5 DEF SentSave, SentJob
  <2>6. CASE Resume \/ FundsCheckFails \/ Mine \/ Drop \/ RunDry \/ TopUp \/ UNCHANGED vars
    BY <1>2, <2>6 DEF Resume, FundsCheckFails, Mine, Drop, RunDry, TopUp, vars
  <2>7. CASE PoolRedeliver \/ SentRedeliver \/ Crash
    BY <2>7 DEF PoolRedeliver, SentRedeliver, Crash, StageInv, PoolStage, auxVars,
       historyVars
  <2>8. CASE \E k \in Jobs : Submit(k) \/ Observe(k)
    BY <1>2, <2>8 DEF Submit, Observe
  <2>9. CASE \E k \in Nullifiers : ForeignSpend(k)
    BY <1>2, <2>9 DEF ForeignSpend
  <2> QED
    BY <2>1, <2>2, <2>3, <2>4, <2>5, <2>6, <2>7, <2>8, <2>9
    DEF Next, Relayer, PoolStep, SentStep, Environment
<1> QED
  BY <1>1, <1>2 DEF Passed

(* The nullifiers in flight are only added to while nothing reverts.         *)
LEMMA NullifiersStayNoted ==
  ASSUME TypeOK, [Next]_vars, sentPc # "rollback", MaxCrashes = 0
  PROVE  /\ optNullifiers \subseteq optNullifiers'
         /\ \A j \in Jobs : NotNoted(j) =>
              NotNoted(j)' \/ NullifierOf[j] \in optNullifiers' \/ PoolThrows
         /\ PoolValidate => NotNoted(poolJob)'
<1> USE DEF NotNoted, TypeOK, cacheVars, poolVars
<1>1. CASE PoolFetch \/ PoolValidate \/ PoolReject \/ PoolPrepare \/ PoolSendAccepted
             \/ PoolSendError \/ PoolSendNoFunds \/ PoolAddNullifier \/ PoolCacheTx
             \/ PoolThrows \/ PoolSaveSent \/ PoolEnqueueSent \/ PoolAck
  BY <1>1 DEF PoolFetch, PoolValidate, PoolReject, PoolPrepare, PoolSendAccepted,
     PoolSendError, PoolSendNoFunds, PoolAddNullifier, PoolCacheTx, PoolThrows, Abandon,
     PoolSaveSent, PoolEnqueueSent, PoolAck
<1>2. CASE SentFetch \/ SentCheck \/ SentResend \/ SentResendError
             \/ SentResendNoFunds \/ SentSave \/ SentConfirmed \/ SentRollback
             \/ SentReverted \/ SentAck \/ SentThrows
  BY <1>2 DEF SentFetch, SentCheck, SentResend, SentResendError, SentResendNoFunds,
     SentSave, SentConfirmed, SentRollback, SentReverted, SentAck, SentThrows, PoolValidate
<1>3. CASE Resume \/ FundsCheckFails \/ PoolRedeliver \/ SentRedeliver \/ Mine \/ Drop \/ RunDry \/ TopUp
             \/ UNCHANGED vars
  <2>1. UNCHANGED <<optNullifiers, poolPc, poolJob>>
    BY <1>3 DEF Resume, FundsCheckFails, PoolRedeliver, SentRedeliver, Mine, Drop,
       RunDry, TopUp, vars
  <2>2. ~PoolValidate
    BY <2>1 DEF PoolValidate
  <2> QED
    BY <2>1, <2>2
<1>4. CASE \E k \in Jobs : Submit(k) \/ Observe(k)
  BY <1>4 DEF Submit, Observe, PoolValidate
<1>5. CASE \E k \in Nullifiers : ForeignSpend(k)
  BY <1>5 DEF ForeignSpend, PoolValidate
<1>6. CASE Crash
  BY <1>6 DEF Crash
<1> QED
  BY <1>1, <1>2, <1>3, <1>4, <1>5, <1>6
  DEF Next, Relayer, PoolStep, SentStep, Environment

(* A job left at a throw before its nullifier was to be noted was not called.*)
LEMMA ThrownUncalled ==
  ASSUME "nullifier" \notin ThrowsAt, TypeOK, StageInv, SendInv, PoolThrows,
         NEW j \in Jobs, NotNoted(j)
  PROVE  ~Passed(j)'
<1>1. poolPc \in {"prepare", "send"} /\ poolJob = j /\ poolPc' = "ack"
  BY DEF PoolThrows, Abandon, NotNoted
<1>2. UNCHANGED <<mempool, mined, sentQ, sentPc, sentJob>>
  BY DEF PoolThrows, Abandon, chainVars, sentVars
<1>3. \A n \in Nat : ~Called(j, n)
  BY <1>1 DEF SendInv, Untouched
<1>4. /\ \A i \in DOMAIN sentQ : sentQ[i].job # j
      /\ sentPc # "idle" => sentJob.job # j
  BY <1>1 DEF StageInv, PoolStage, SentStage, Unreported
<1> QED
  BY <1>1, <1>2, <1>3, <1>4 DEF Passed, Called, Signing

LEMMA NothingReverts ==
  ASSUME MaxCrashes = 0, ~ForeignMaySpend, ~CallMayRevert,
         TypeOK, OrderInv, SendInv, NullifierInv, [Next]_vars
  PROVE  /\ \A s \in spent' : \E m \in mined' : NullifierOf[m.job] = s
         /\ NoSelfRevert'
<1>1. CASE Mine
  <2> PICK a \in mempool, ok \in BOOLEAN :
        /\ ~ok => NullifierOf[a.job] \in spent
        /\ mined' = mined \cup {[job |-> a.job, nonce |-> a.nonce,
                                 price |-> a.price, ok |-> ok]}
        /\ spent' = IF ok THEN spent \cup {NullifierOf[a.job]} ELSE spent
    BY <1>1 DEF Mine
  <2>1. a.job \in Jobs /\ a.nonce \in Nat /\ Called(a.job, a.nonce)
    BY DEF TypeOK, Attempt, Called
  <2>2. ASSUME NEW m \in mined, NullifierOf[m.job] = NullifierOf[a.job] PROVE FALSE
    <3>1. m.job \in Jobs /\ m.nonce \in Nat /\ Called(m.job, m.nonce)
      BY DEF TypeOK, Receipt, Called
    <3>2. m.job = a.job
      BY <2>1, <2>2, <3>1 DEF NullifierInv, Passed
    <3>3. m.nonce = a.nonce
      BY <2>1, <3>1, <3>2 DEF SendInv
    <3>4. m.nonce < chainNonce /\ chainNonce <= a.nonce /\ chainNonce \in Nat
      BY DEF OrderInv, ChainInv, TypeOK
    <3> QED
      BY <2>1, <3>3, <3>4
  <2>3. ok = TRUE
    BY <2>2 DEF NullifierInv
  <2>4. /\ mined' = mined \cup {[job |-> a.job, nonce |-> a.nonce,
                                 price |-> a.price, ok |-> TRUE]}
        /\ spent' = spent \cup {NullifierOf[a.job]}
    BY <2>3
  <2> DEFINE r == [job |-> a.job, nonce |-> a.nonce, price |-> a.price, ok |-> TRUE]
  <2>5. r.job = a.job /\ r.ok = TRUE /\ r \in mined' /\ mined' = mined \cup {r}
    BY <2>4
  <2> HIDE DEF r
  <2>6. \A s \in spent' : \E m \in mined' : NullifierOf[m.job] = s
    BY <2>4, <2>5 DEF NullifierInv
  <2>7. NoSelfRevert'
    BY <2>5 DEF NullifierInv, NoSelfRevert
  <2> QED
    BY <2>6, <2>7
<1>2. CASE ~Mine
  <2>1. mined' = mined
    BY <1>2, ChainSteps
  <2>2. spent' = spent
    BY <1>2 DEF Next, Relayer, PoolStep, SentStep, Environment, PoolFetch,
       PoolValidate, PoolReject, PoolPrepare, PoolSendAccepted, PoolSendError,
       PoolSendNoFunds, PoolAddNullifier, PoolCacheTx, PoolThrows, Abandon, PoolSaveSent,
       PoolEnqueueSent, PoolAck, SentFetch, SentCheck, SentResend, SentResendError,
       SentResendNoFunds, SentSave, SentConfirmed, SentRollback, SentReverted,
       SentAck, Resume, FundsCheckFails, PoolRedeliver, SentRedeliver, SentThrows,
       Submit, Observe, Drop,
       RunDry, TopUp, Crash, ForeignSpend, vars, chainVars
  <2> QED
    BY <2>1, <2>2 DEF NullifierInv, NoSelfRevert
<1> QED
  BY <1>1, <1>2

LEMMA NoRollback ==
  ASSUME TypeOK, NoSelfRevert, sentPc \notin {"rollback", "reverted"}, [Next]_vars
  PROVE  sentPc' \notin {"rollback", "reverted"}
<1>1. CASE SentCheck
  <2>1. CASE Receipts = {}
    BY <1>1, <2>1 DEF SentCheck
  <2>2. CASE Receipts # {}
    <3> PICK m \in Receipts : sentPc' = IF m.ok THEN "confirmed" ELSE "rollback"
      BY <1>1, <2>2 DEF SentCheck
    <3>1. m \in mined
      BY DEF Receipts
    <3> QED
      BY <3>1 DEF NoSelfRevert
  <2> QED
    BY <2>1, <2>2
<1>2. CASE ~SentCheck
  BY <1>2 DEF Next, Relayer, PoolStep, SentStep, Environment, PoolFetch,
     PoolValidate, PoolReject, PoolPrepare, PoolSendAccepted, PoolSendError,
     PoolSendNoFunds, PoolAddNullifier, PoolCacheTx, PoolThrows, Abandon, PoolSaveSent,
     PoolEnqueueSent, PoolAck, SentFetch, SentResend, SentResendError,
     SentResendNoFunds, SentSave, SentConfirmed, SentRollback, SentReverted,
     SentAck, Resume, FundsCheckFails, PoolRedeliver, SentRedeliver, SentThrows, Submit,
     Observe, Mine, Drop,
     RunDry, TopUp, Crash, ForeignSpend, vars, sentVars
<1> QED
  BY <1>1, <1>2

(* While nobody else spends, no call reverts for another reason and noting a *)
(* nullifier does not fail, no transaction of the relayer is mined only to   *)
(* revert: two jobs that spend one nullifier never both reach the node.      *)
THEOREM NoneRevertsItself ==
  ASSUME MaxCrashes = 0, ~ForeignMaySpend, ~CallMayRevert, "nullifier" \notin ThrowsAt
  PROVE  Spec => []NoSelfRevert
<1>1. Init => SendInv /\ NullifierInv
  BY DEF Init, SendInv, Called, NullifierInv, Passed, Signing, NoSelfRevert
<1>2. TypeOK /\ OrderInv /\ SendInv /\ NullifierInv /\ [Next]_vars => NullifierInv'
  <2> SUFFICES ASSUME TypeOK, OrderInv, SendInv, NullifierInv, [Next]_vars
               PROVE  NullifierInv'
    OBVIOUS
  <2>0. StageInv
    BY DEF OrderInv
  <2>1. ASSUME NEW j \in Jobs, Passed(j)'
        PROVE  NullifierOf[j] \in optNullifiers' \/ NotNoted(j)'
    <3>1. /\ optNullifiers \subseteq optNullifiers'
          /\ NotNoted(j) =>
               NotNoted(j)' \/ NullifierOf[j] \in optNullifiers' \/ PoolThrows
          /\ PoolValidate => NotNoted(poolJob)'
      BY NullifiersStayNoted DEF NullifierInv
    <3>2. Passed(j) \/ (PoolValidate /\ poolJob = j)
      BY <2>0, <2>1, NewlyPassed
    <3>3. CASE Passed(j)
      <4>1. ~(NotNoted(j) /\ PoolThrows)
        BY <2>0, <2>1, ThrownUncalled
      <4> QED
        BY <3>1, <3>3, <4>1 DEF NullifierInv
    <3>4. CASE PoolValidate /\ poolJob = j
      <4>1. poolJob' = poolJob
        BY <3>4 DEF PoolValidate
      <4> QED
        BY <3>1, <3>4, <4>1
    <3> QED
      BY <3>2, <3>3, <3>4
  <2>2. ASSUME NEW j \in Jobs, NEW k \in Jobs, Passed(j)', Passed(k)',
               NullifierOf[j] = NullifierOf[k]
        PROVE  j = k
    <3>1. /\ Passed(j) \/ (PoolValidate /\ poolJob = j)
          /\ Passed(k) \/ (PoolValidate /\ poolJob = k)
      BY <2>0, <2>2, NewlyPassed
    <3>2. PoolValidate => /\ NullifierOf[poolJob] \notin optNullifiers
                          /\ ~NotNoted(j) /\ ~NotNoted(k)
      BY DEF PoolValidate, NotNoted
    <3> QED
      BY <2>2, <3>1, <3>2 DEF NullifierInv
  <2>3. /\ \A s \in spent' : \E m \in mined' : NullifierOf[m.job] = s
        /\ NoSelfRevert'
    BY NothingReverts
  <2>4. sentPc' \notin {"rollback", "reverted"}
    BY NoRollback DEF NullifierInv
  <2> QED
    BY <2>1, <2>2, <2>3, <2>4 DEF NullifierInv
<1>3. TypeOK /\ StageInv /\ SendInv /\ [Next]_vars => SendInv'
  BY SendInvKept
<1>4. NullifierInv => NoSelfRevert
  BY DEF NullifierInv
<1>5. OrderInv <=> StageInv /\ NonceInv /\ ChainInv
  BY DEF OrderInv
<1> QED
  BY <1>1, <1>2, <1>3, <1>4, <1>5, OrderKept, TypeCorrect, PTL DEF Spec

-----------------------------------------------------------------------------
(* A job is executed at most once, and not any more once a receipt exists.   *)
LEMMA ExecutedOnce ==
  ASSUME TypeOK, OrderInv, SendInv
  PROVE  /\ \A m, k \in mined : m.job = k.job => m = k
         /\ \A a \in mempool, m \in mined : a.job # m.job
<1>1. \A m \in mempool \cup mined : /\ m.job \in Jobs /\ m.nonce \in Nat
                                    /\ Called(m.job, m.nonce)
  BY DEF TypeOK, Attempt, Receipt, Called
<1>2. \A m, k \in mempool \cup mined : m.job = k.job => m.nonce = k.nonce
  BY <1>1 DEF SendInv
<1>3. \A a \in mempool, m \in mined : a.nonce # m.nonce
  BY <1>1 DEF TypeOK, OrderInv, ChainInv
<1> QED
  BY <1>2, <1>3 DEF OrderInv, ChainInv

LEMMA LedgerExecutes ==
  ASSUME TypeOK, OrderInv, SendInv, TruthfulStatus, Mine
  PROVE  \E j \in Jobs : Ledger!Execute(j)
<1> PICK a \in mempool, ok \in BOOLEAN :
      mined' = mined \cup {[job |-> a.job, nonce |-> a.nonce,
                            price |-> a.price, ok |-> ok]}
  BY DEF Mine
<1> DEFINE r == [job |-> a.job, nonce |-> a.nonce, price |-> a.price, ok |-> ok]
           f == IF ok THEN "ok" ELSE "reverted"
           fate == [j \in Jobs |-> Fate(j)]
<1>1. mined' = mined \cup {r} /\ r.job = a.job /\ r.ok = ok
  OBVIOUS
<1>2. a.job \in Jobs /\ a.nonce \in Nat /\ Called(a.job, a.nonce)
  BY DEF TypeOK, Attempt, Called
<1>3. \A m \in mined : m.job # a.job
  BY ExecutedOnce
<1> HIDE DEF r
<1>4. jobState[a.job] \in {"waiting", "sent"}
  <2>1. jobState[a.job] \notin {"none", "failed"}
    BY <1>2 DEF SendInv, Untouched
  <2>2. jobState[a.job] \notin {"completed", "reverted"}
    BY <1>2, <1>3 DEF TruthfulStatus
  <2> QED
    BY <1>2, <2>1, <2>2 DEF TypeOK, JobState
<1>5. Fate(a.job) = "nothing" /\ Fate(a.job)' = f
  BY <1>1, <1>3 DEF Fate
<1>6. \A j \in Jobs : j # a.job => Fate(j)' = Fate(j)
  BY <1>1 DEF Fate
<1>7. fate' = [fate EXCEPT ![a.job] = f]
  BY <1>2, <1>5, <1>6
<1>8. jobState' = jobState
  BY DEF Mine, queueVars
<1>9. Ledger!Execute(a.job)
  <2>1. fate[a.job] = "nothing" /\ f \in {"ok", "reverted"}
    BY <1>2, <1>5
  <2> HIDE DEF f
  <2> QED
    BY <1>4, <1>7, <1>8, <2>1 DEF Ledger!Execute
<1> QED
  BY <1>2, <1>9

LEMMA LedgerMoves ==
  ASSUME MaxCrashes = 0, TypeOK, OrderInv, SendInv, TruthInv, [Next]_vars,
         mined' = mined
  PROVE  \/ \E j \in Jobs : \/ Ledger!Accept(j) \/ Ledger!Refuse(j)
                            \/ Ledger!Launch(j) \/ Ledger!Settle(j)
         \/ UNCHANGED <<jobState, [j \in Jobs |-> Fate(j)]>>
<1> DEFINE fate == [j \in Jobs |-> Fate(j)]
<1>0. StageInv
  BY DEF OrderInv
<1>1. fate' = fate
  BY DEF Fate
<1>2. ASSUME NEW j \in Jobs, jobState[j] = "none",
             jobState' = [jobState EXCEPT ![j] = "waiting"]
      PROVE  Ledger!Accept(j)
  BY <1>1, <1>2 DEF Ledger!Accept, Ledger!Move
<1>3. CASE PoolReject /\ poolJob \in Jobs /\ jobState[poolJob] = "waiting"
           /\ jobState' = [jobState EXCEPT ![poolJob] = "failed"]
  <2>1. Untouched(poolJob)
    BY <1>3 DEF PoolReject, Untouched
  <2>2. \A m \in mined : m.job # poolJob
    BY <1>3, <2>1 DEF SendInv, Called, TypeOK, Receipt
  <2>3. fate[poolJob] = "nothing"
    BY <1>3, <2>2 DEF Fate
  <2>4. Ledger!Refuse(poolJob)
    BY <1>1, <1>3, <2>3 DEF Ledger!Refuse, Ledger!Move
  <2> QED
    BY <1>3, <2>4
<1>4. ASSUME poolJob \in Jobs, jobState[poolJob] = "waiting",
             jobState' = [jobState EXCEPT ![poolJob] = "sent"]
      PROVE  Ledger!Launch(poolJob)
  BY <1>1, <1>4 DEF Ledger!Launch, Ledger!Move
<1>5. CASE SentConfirmed /\ sentJob.job \in Jobs /\ jobState[sentJob.job] = "sent"
           /\ jobState' = [jobState EXCEPT ![sentJob.job] = "completed"]
  <2>1. fate[sentJob.job] = "ok"
    BY <1>5 DEF SentConfirmed, TruthInv, Fate
  <2>2. Ledger!Settle(sentJob.job)
    BY <1>1, <1>5, <2>1 DEF Ledger!Settle, Ledger!Move
  <2> QED
    BY <1>5, <2>2
<1>6. CASE SentReverted /\ sentJob.job \in Jobs /\ jobState[sentJob.job] = "sent"
           /\ jobState' = [jobState EXCEPT ![sentJob.job] = "reverted"]
  <2>1. \E m \in mined : m.job = sentJob.job /\ ~m.ok
    BY <1>6 DEF SentReverted, TruthInv
  <2>2. fate[sentJob.job] = "reverted"
    BY <1>6, <2>1, ExecutedOnce DEF Fate
  <2>3. Ledger!Settle(sentJob.job)
    BY <1>1, <1>6, <2>2 DEF Ledger!Settle, Ledger!Move
  <2> QED
    BY <1>6, <2>3
<1>7. CASE jobState' = jobState
  BY <1>1, <1>7
<1> HIDE DEF fate
<1> QED
  BY <1>0, <1>2, <1>3, <1>4, <1>5, <1>6, <1>7, StatusSteps

(* While it does not crash, the pipeline implements the job ledger: whatever *)
(* the queues, nonces, prices, re-sends and errors, a client sees each job   *)
(* accepted, refused or sent, executed at most once, and settled by its fate.*)
THEOREM LedgerImplemented ==
  ASSUME MaxCrashes = 0
  PROVE  Spec => ImplementsLedger
<1>1. Init => Ledger!Init
  BY DEF Init, Ledger!Init, Fate
<1>2. TypeOK /\ OrderInv /\ SendInv /\ TruthInv /\ [Next]_vars
        => [Ledger!Next]_(Ledger!ledgerVars)
  <2> SUFFICES ASSUME TypeOK, OrderInv, SendInv, TruthInv, [Next]_vars
               PROVE  Ledger!Next \/ UNCHANGED Ledger!ledgerVars
    OBVIOUS
  <2>1. CASE Mine
    BY <2>1, LedgerExecutes DEF Ledger!Next, TruthInv
  <2>2. CASE mined' = mined
    BY <2>2, LedgerMoves DEF Ledger!Next, Ledger!ledgerVars
  <2> QED
    BY <2>1, <2>2, ChainSteps
<1>3. Init => SendInv
  BY DEF Init, SendInv, Called
<1>4. TypeOK /\ StageInv /\ SendInv /\ [Next]_vars => SendInv'
  BY SendInvKept
<1>5. OrderInv <=> StageInv /\ NonceInv /\ ChainInv
  BY DEF OrderInv
<1> QED
  BY <1>1, <1>2, <1>3, <1>4, <1>5, OrderKept, TruthAlways, TypeCorrect, PTL
  DEF Spec, ImplementsLedger, Ledger!Spec
=============================================================================
