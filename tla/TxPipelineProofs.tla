-------------------------- MODULE TxPipelineProofs --------------------------
(***************************************************************************)
(* What TxPipeline guarantees for every set of jobs, every bound and every  *)
(* setting of the environment's flags.                                      *)
(***************************************************************************)
EXTENDS TxPipeline, TLAPS

LEMMA Unsigned == NoAttempt \notin Attempt
<1>1. \A a \in Attempt : DOMAIN a = {"job", "nonce", "price"}
  BY DEF Attempt
<1>2. DOMAIN NoAttempt = {}
  BY DEF NoAttempt
<1> QED
  BY <1>1, <1>2

LEMMA PipelineTyped == (Init => TypeOK) /\ (TypeOK /\ [Next]_vars => TypeOK')
<1> USE PipelineAssumption DEF Prices
<1>1. Init => TypeOK
  <2> SUFFICES ASSUME Init PROVE TypeOK
    OBVIOUS
  <2>1. paused \in BOOLEAN /\ waiter \in BOOLEAN /\ funded \in BOOLEAN
    BY DEF Init
  <2>2. /\ jobState \in [Jobs -> JobState]
        /\ poolQ \in Seq(Jobs) /\ sentQ \in Seq(SentJob)
    BY DEF Init, JobState
  <2> QED
    BY <2>1, <2>2 DEF Init, TypeOK, Signing, PoolSteps, SentSteps
<1>2. TypeOK /\ [Next]_vars => TypeOK'
  <2> SUFFICES ASSUME TypeOK, [Next]_vars PROVE TypeOK'
    OBVIOUS
  <2> USE DEF TypeOK, Signing
  <2>1. CASE PoolFetch
    BY <2>1 DEF PoolFetch, queueVars, cacheVars, poolVars, sentVars, memVars,
       chainVars, auxVars, historyVars, PoolSteps
  <2>2. CASE PoolValidate
    BY <2>2 DEF PoolValidate, queueVars, cacheVars, poolVars, sentVars,
       memVars, chainVars, auxVars, historyVars, PoolSteps
  <2>3. CASE PoolReject
    BY <2>3 DEF PoolReject, queueVars, cacheVars, poolVars, sentVars, memVars,
       chainVars, auxVars, historyVars, PoolSteps, JobState
  <2>4. CASE PoolPrepare
    BY <2>4 DEF PoolPrepare, queueVars, cacheVars, poolVars, sentVars,
       memVars, chainVars, auxVars, historyVars, PoolSteps, Attempt
  <2>5. CASE PoolSendAccepted
    BY <2>5 DEF PoolSendAccepted, queueVars, cacheVars, poolVars, sentVars,
       memVars, chainVars, auxVars, historyVars, PoolSteps, Held
  <2>6. CASE PoolSendError
    BY <2>6 DEF PoolSendError, queueVars, cacheVars, poolVars, sentVars,
       memVars, chainVars, auxVars, historyVars, PoolSteps
  <2>7. CASE PoolSendNoFunds
    BY <2>7 DEF PoolSendNoFunds, queueVars, cacheVars, poolVars, sentVars,
       memVars, chainVars, auxVars, historyVars, PoolSteps
  <2>8. CASE PoolAddNullifier
    BY <2>8 DEF PoolAddNullifier, queueVars, cacheVars, poolVars, sentVars,
       memVars, chainVars, auxVars, historyVars, PoolSteps
  <2>9. CASE PoolCacheTx
    BY <2>9 DEF PoolCacheTx, queueVars, cacheVars, poolVars, sentVars,
       memVars, chainVars, auxVars, historyVars, PoolSteps
  <2>10. CASE PoolThrows
    <3>1. poolPc \in {"validate", "prepare"} \cup Signing
      BY <2>10, PipelineAssumption DEF PoolThrows, Abandon, Signing, PoolSteps
    <3>2. Unqueued \subseteq Attempt /\ poolJob \in Jobs
      BY <3>1 DEF Unqueued, Signing
    <3>3. NonceTaken \subseteq Nat /\ nonce' \in Nat
      BY <2>10, <3>1 DEF PoolThrows, Abandon, NonceTaken, Signing, Attempt
    <3>4. paused' \in BOOLEAN /\ unwatched' \in BOOLEAN
      BY <2>10, Zenon DEF PoolThrows, Abandon
    <3>5. /\ dropped' \subseteq Jobs /\ leaked' \subseteq Nat /\ forgotten' \subseteq Attempt
          /\ poolPc' = "ack"
      BY <2>10, <3>2, <3>3 DEF PoolThrows, Abandon
    <3> QED
      BY <2>10, <3>2, <3>3, <3>4, <3>5 DEF PoolThrows, Abandon, cacheVars, sentVars,
         chainVars, PoolSteps
  <2>11. CASE PoolSaveSent
    BY <2>11 DEF PoolSaveSent, queueVars, cacheVars, poolVars, sentVars,
       memVars, chainVars, auxVars, historyVars, PoolSteps, JobState
  <2>12. CASE PoolEnqueueSent
    BY <2>12 DEF PoolEnqueueSent, queueVars, cacheVars, poolVars, sentVars,
       memVars, chainVars, auxVars, historyVars, PoolSteps, Attempt, SentJob
  <2>13. CASE PoolAck
    BY <2>13 DEF PoolAck, queueVars, cacheVars, poolVars, sentVars, memVars,
       chainVars, auxVars, historyVars, PoolSteps
  <2>14. CASE SentFetch
    <3>1. Head(sentQ) \in SentJob /\ Tail(sentQ) \in Seq(SentJob)
      BY <2>14 DEF SentFetch
    <3>2. Head(sentQ).prices \subseteq Prices
      BY <3>1 DEF SentJob
    <3> QED
      BY <2>14, <3>1, <3>2 DEF SentFetch, queueVars, cacheVars, poolVars,
         memVars, chainVars, auxVars, historyVars, SentSteps
  <2>15. CASE SentCheck
    BY <2>15 DEF SentCheck, queueVars, cacheVars, poolVars, sentVars, memVars,
       chainVars, auxVars, historyVars, SentSteps
  <2>16. CASE SentResend
    <3> PICK p \in Bumped(known) :
          /\ mempool' = Held([job |-> sentJob.job, nonce |-> sentJob.nonce, price |-> p])
          /\ known' = known \cup {p}
      BY <2>16 DEF SentResend
    <3>1. p \in Prices
      BY DEF Bumped, PipelineAssumption
    <3>2. sentJob.job \in Jobs /\ sentJob.nonce \in Nat
      BY <2>16 DEF SentResend, SentJob
    <3>3. mempool' \subseteq Attempt
      BY <3>1, <3>2 DEF Held, Attempt
    <3> QED
      BY <2>16, <3>1, <3>3 DEF SentResend, queueVars, cacheVars, poolVars,
         memVars, auxVars, historyVars, SentSteps
  <2>17. CASE SentResendError
    BY <2>17 DEF SentResendError, queueVars, cacheVars, poolVars, sentVars,
       memVars, chainVars, auxVars, historyVars, SentSteps, Bumped
  <2>18. CASE SentResendNoFunds
    BY <2>18 DEF SentResendNoFunds, queueVars, cacheVars, poolVars, sentVars,
       memVars, chainVars, auxVars, historyVars, SentSteps
  <2>19. CASE SentSave
    BY <2>19 DEF SentSave, queueVars, cacheVars, poolVars, sentVars, memVars,
       chainVars, auxVars, historyVars, SentSteps, SentJob
  <2>20. CASE SentConfirmed
    BY <2>20 DEF SentConfirmed, queueVars, cacheVars, poolVars, sentVars,
       memVars, chainVars, auxVars, historyVars, SentSteps, SentJob, JobState
  <2>21. CASE SentRollback
    BY <2>21 DEF SentRollback, queueVars, cacheVars, poolVars, sentVars,
       memVars, chainVars, auxVars, historyVars, SentSteps
  <2>22. CASE SentReverted
    BY <2>22 DEF SentReverted, queueVars, cacheVars, poolVars, sentVars,
       memVars, chainVars, auxVars, historyVars, SentSteps, SentJob, JobState
  <2>23. CASE SentAck
    BY <2>23 DEF SentAck, queueVars, cacheVars, poolVars, sentVars, memVars,
       chainVars, auxVars, historyVars, SentSteps
  <2>24. CASE Resume
    BY <2>24 DEF Resume, queueVars, cacheVars, poolVars, sentVars, memVars,
       chainVars, auxVars, historyVars
  <2>25. CASE PoolRedeliver
    BY <2>25 DEF PoolRedeliver, queueVars, cacheVars, poolVars, sentVars,
       memVars, chainVars, auxVars, historyVars
  <2>26. CASE SentRedeliver
    BY <2>26 DEF SentRedeliver, queueVars, cacheVars, poolVars, sentVars,
       memVars, chainVars, auxVars, historyVars
  <2>27. CASE Mine
    BY <2>27 DEF Mine, queueVars, cacheVars, poolVars, sentVars, memVars,
       chainVars, auxVars, historyVars, Attempt, Receipt
  <2>28. CASE Drop
    BY <2>28 DEF Drop, queueVars, cacheVars, poolVars, sentVars, memVars,
       chainVars, auxVars, historyVars
  <2>29. CASE RunDry
    <3>1. funded' \in BOOLEAN
      BY <2>29, Zenon DEF RunDry
    <3>2. dries' \in Nat
      BY <2>29 DEF RunDry
    <3> QED
      BY <2>29, <3>1, <3>2 DEF RunDry, queueVars, cacheVars, poolVars, sentVars,
         memVars, historyVars
  <2>30. CASE TopUp
    BY <2>30 DEF TopUp, queueVars, cacheVars, poolVars, sentVars, memVars,
       chainVars, auxVars, historyVars
  <2>31. CASE Crash
    <3>1. waiter' \in BOOLEAN
      BY <2>31, Zenon DEF Crash
    <3>2. crashes' \in Nat
      BY <2>31 DEF Crash
    <3>3. poolStalled' \subseteq Jobs /\ sentStalled' \subseteq SentJob
      BY <2>31 DEF Crash
    <3>4. Unqueued \cup Unsaved \subseteq Attempt
      BY DEF Unqueued, Unsaved, Signing, SentJob, Attempt
    <3>5. forgotten' \subseteq Attempt /\ interrupted' \subseteq Jobs /\ unacked' \subseteq Jobs
      BY <2>31, <3>4 DEF Crash, Refused
    <3>6. unwatched' \in BOOLEAN
      BY <2>31, Zenon DEF Crash
    <3> QED
      BY <2>31, <3>1, <3>2, <3>3, <3>5, <3>6 DEF Crash, queueVars, cacheVars, chainVars,
         PoolSteps, SentSteps
  <2>32. CASE \E j \in Jobs : Submit(j)
    BY <2>32 DEF Submit, queueVars, cacheVars, poolVars, sentVars, memVars,
       chainVars, auxVars, historyVars, JobState
  <2>33. CASE \E j \in Jobs : Observe(j)
    BY <2>33 DEF Observe, queueVars, cacheVars, poolVars, sentVars, memVars,
       chainVars, auxVars, historyVars
  <2>34. CASE \E k \in Nullifiers : ForeignSpend(k)
    BY <2>34 DEF ForeignSpend, queueVars, cacheVars, poolVars, sentVars,
       memVars, chainVars, auxVars, historyVars
  <2>35. CASE UNCHANGED vars
    BY <2>35 DEF vars, queueVars, cacheVars, poolVars, sentVars, memVars,
       chainVars, auxVars, historyVars
  <2>36. CASE SentThrows
    BY <2>36 DEF SentThrows, queueVars, cacheVars, poolVars, sentVars, memVars,
       chainVars, auxVars, historyVars, SentSteps
  <2>37. CASE FundsCheckFails
    BY <2>37 DEF FundsCheckFails, queueVars, cacheVars, poolVars, sentVars, chainVars
  <2> QED
    BY <2>1, <2>2, <2>3, <2>4, <2>5, <2>6, <2>7, <2>8, <2>9, <2>10, <2>11,
       <2>12, <2>13, <2>14, <2>15, <2>16, <2>17, <2>18, <2>19, <2>20, <2>21,
       <2>22, <2>23, <2>24, <2>25, <2>26, <2>27, <2>28, <2>29, <2>30, <2>31,
       <2>32, <2>33, <2>34, <2>35, <2>36, <2>37
    DEF Next, Relayer, PoolStep, SentStep, Environment
<1> QED
  BY <1>1, <1>2

(* Every variable keeps its range, through crashes and redeliveries.        *)
THEOREM TypeCorrect == Spec => []TypeOK
<1>1. Init => TypeOK
  BY PipelineTyped
<1>2. TypeOK /\ [Next]_vars => TypeOK'
  BY PipelineTyped
<1> QED
  BY <1>1, <1>2, PTL DEF Spec

-----------------------------------------------------------------------------
(* TruthfulStatus needs the sent worker's position: once it is about to      *)
(* report a status, the receipt it saw is still there.                       *)
TruthInv ==
  /\ TruthfulStatus
  /\ sentPc = "confirmed" => \E m \in mined : m.job = sentJob.job /\ m.ok
  /\ sentPc \in {"rollback", "reverted"} =>
       \E m \in mined : m.job = sentJob.job /\ ~m.ok

(* Steps that settle no job and leave the sent worker where it is, or move   *)
(* it to a step that reports nothing, keep TruthInv: receipts only grow.     *)
LEMMA TruthKept ==
  ASSUME TruthInv,
         mined \subseteq mined',
         \A j \in Jobs : jobState'[j] \in {"completed", "reverted"} =>
                           jobState'[j] = jobState[j],
         \/ UNCHANGED <<sentPc, sentJob>>
         \/ sentPc' \notin {"confirmed", "rollback", "reverted"}
  PROVE  TruthInv'
BY DEF TruthInv, TruthfulStatus

(* What is told of a job and what the sent worker is about to tell of it is   *)
(* in a receipt.                                                             *)
LEMMA TruthAlways == Spec => []TruthInv
<1>1. Init => TruthInv
  BY DEF Init, TruthInv, TruthfulStatus
<1>2. TypeOK /\ TruthInv /\ [Next]_vars => TruthInv'
  <2> SUFFICES ASSUME TypeOK, TruthInv, [Next]_vars PROVE TruthInv'
    OBVIOUS
  <2> USE DEF queueVars, cacheVars, poolVars, sentVars, memVars, chainVars,
              auxVars, historyVars
  <2>1. CASE PoolFetch
    BY <2>1, TruthKept DEF PoolFetch
  <2>2. CASE PoolValidate
    BY <2>2, TruthKept DEF PoolValidate
  <2>3. CASE PoolPrepare
    BY <2>3, TruthKept DEF PoolPrepare
  <2>4. CASE PoolSendAccepted
    BY <2>4, TruthKept DEF PoolSendAccepted
  <2>5. CASE PoolSendError
    BY <2>5, TruthKept DEF PoolSendError
  <2>6. CASE PoolSendNoFunds
    BY <2>6, TruthKept DEF PoolSendNoFunds
  <2>7. CASE PoolAddNullifier
    BY <2>7, TruthKept DEF PoolAddNullifier
  <2>8. CASE PoolCacheTx
    BY <2>8, TruthKept DEF PoolCacheTx
  <2>9. CASE PoolThrows
    BY <2>9, TruthKept DEF PoolThrows, Abandon
  <2>10. CASE PoolEnqueueSent
    BY <2>10, TruthKept DEF PoolEnqueueSent
  <2>11. CASE PoolAck
    BY <2>11, TruthKept DEF PoolAck
  <2>12. CASE SentFetch
    BY <2>12, TruthKept DEF SentFetch
  <2>13. CASE SentResend
    BY <2>13, TruthKept DEF SentResend
  <2>14. CASE SentResendError
    BY <2>14, TruthKept DEF SentResendError
  <2>15. CASE SentResendNoFunds
    BY <2>15, TruthKept DEF SentResendNoFunds
  <2>16. CASE SentSave
    BY <2>16, TruthKept DEF SentSave
  <2>17. CASE SentAck
    BY <2>17, TruthKept DEF SentAck
  <2>18. CASE Resume
    BY <2>18, TruthKept DEF Resume
  <2>19. CASE PoolRedeliver
    BY <2>19, TruthKept DEF PoolRedeliver
  <2>20. CASE SentRedeliver
    BY <2>20, TruthKept DEF SentRedeliver
  <2>21. CASE Mine
    BY <2>21, TruthKept DEF Mine
  <2>22. CASE Drop
    BY <2>22, TruthKept DEF Drop
  <2>23. CASE RunDry
    BY <2>23, TruthKept DEF RunDry
  <2>24. CASE TopUp
    BY <2>24, TruthKept DEF TopUp
  <2>25. CASE Crash
    BY <2>25, TruthKept DEF Crash
  <2>26. CASE PoolReject
    BY <2>26, TruthKept DEF PoolReject, TypeOK
  <2>27. CASE PoolSaveSent
    BY <2>27, TruthKept DEF PoolSaveSent, TypeOK
  <2>28. CASE SentCheck
    <3>1. CASE Receipts = {}
      BY <2>28, <3>1, TruthKept DEF SentCheck
    <3>2. CASE Receipts # {}
      <4> PICK m \in Receipts : sentPc' = IF m.ok THEN "confirmed" ELSE "rollback"
        BY <2>28, <3>2 DEF SentCheck
      <4>1. m \in mined /\ m.job = sentJob.job
        BY DEF Receipts
      <4> QED
        BY <2>28, <4>1 DEF SentCheck, TruthInv, TruthfulStatus
    <3> QED
      BY <3>1, <3>2
  <2>29. CASE SentConfirmed
    BY <2>29 DEF SentConfirmed, TruthInv, TruthfulStatus, TypeOK
  <2>30. CASE SentRollback
    BY <2>30 DEF SentRollback, TruthInv, TruthfulStatus
  <2>31. CASE SentReverted
    BY <2>31 DEF SentReverted, TruthInv, TruthfulStatus, TypeOK
  <2>32. CASE \E j \in Jobs : Submit(j)
    BY <2>32, TruthKept DEF Submit, TypeOK
  <2>33. CASE \E j \in Jobs : Observe(j)
    BY <2>33, TruthKept DEF Observe
  <2>34. CASE \E k \in Nullifiers : ForeignSpend(k)
    BY <2>34, TruthKept DEF ForeignSpend
  <2>35. CASE UNCHANGED vars
    BY <2>35, TruthKept DEF vars
  <2>36. CASE SentThrows
    BY <2>36, TruthKept DEF SentThrows
  <2>37. CASE FundsCheckFails
    BY <2>37, TruthKept DEF FundsCheckFails
  <2> QED
    BY <2>1, <2>2, <2>3, <2>4, <2>5, <2>6, <2>7, <2>8, <2>9, <2>10, <2>11,
       <2>12, <2>13, <2>14, <2>15, <2>16, <2>17, <2>18, <2>19, <2>20, <2>21,
       <2>22, <2>23, <2>24, <2>25, <2>26, <2>27, <2>28, <2>29, <2>30, <2>31,
       <2>32, <2>33, <2>34, <2>35, <2>36, <2>37
    DEF Next, Relayer, PoolStep, SentStep, Environment
<1> QED
  BY <1>1, <1>2, TypeCorrect, PTL DEF Spec

(* A client is told COMPLETED only of a job whose own call succeeded on      *)
(* chain, and REVERTED only of a job whose own call reverted there: for any  *)
(* number of jobs, crashes, redeliveries and errors of the node (sentTxWorker*)
(* reports what confirmTx's receipt says).                                   *)
THEOREM StatusIsTruthful == Spec => []TruthfulStatus
<1>1. TruthInv => TruthfulStatus
  BY DEF TruthInv
<1> QED
  BY <1>1, TruthAlways, PTL

-----------------------------------------------------------------------------
(* Queues as sets: what fetching, adding and redelivering do to the jobs in  *)
(* a queue.                                                                  *)
LEMMA FetchKeepsOthers ==
  ASSUME NEW S, NEW q \in Seq(S), q # <<>>
  PROVE  ToSet(q) \subseteq ToSet(Tail(q)) \cup {Head(q)}
<1> SUFFICES ASSUME NEW i \in DOMAIN q
             PROVE  q[i] = Head(q) \/ \E k \in DOMAIN Tail(q) : Tail(q)[k] = q[i]
  BY DEF ToSet
<1>1. CASE i = 1
  BY <1>1
<1>2. CASE i # 1
  <2>1. i - 1 \in DOMAIN Tail(q) /\ Tail(q)[i - 1] = q[i]
    BY <1>2
  <2> QED
    BY <2>1
<1> QED
  BY <1>1, <1>2

LEMMA AddKeepsAll ==
  ASSUME NEW S, NEW q \in Seq(S), NEW e \in S
  PROVE  /\ ToSet(q) \cup {e} \subseteq ToSet(Append(q, e))
         /\ ToSet(q) \cup {e} \subseteq ToSet(<<e>> \o q)
<1>1. ASSUME NEW i \in DOMAIN q
      PROVE  /\ \E k \in DOMAIN Append(q, e) : Append(q, e)[k] = q[i]
             /\ \E k \in DOMAIN (<<e>> \o q) : (<<e>> \o q)[k] = q[i]
  <2>1. i \in DOMAIN Append(q, e) /\ Append(q, e)[i] = q[i]
    OBVIOUS
  <2>2. i + 1 \in DOMAIN (<<e>> \o q) /\ (<<e>> \o q)[i + 1] = q[i]
    OBVIOUS
  <2> QED
    BY <2>1, <2>2
<1>2. Len(q) + 1 \in DOMAIN Append(q, e) /\ Append(q, e)[Len(q) + 1] = e
  OBVIOUS
<1>3. 1 \in DOMAIN (<<e>> \o q) /\ (<<e>> \o q)[1] = e
  OBVIOUS
<1>4. ASSUME NEW x \in ToSet(q) \cup {e}
      PROVE  x \in ToSet(Append(q, e)) /\ x \in ToSet(<<e>> \o q)
  <2>1. CASE x = e
    BY <2>1, <1>2, <1>3 DEF ToSet
  <2>2. CASE x \in ToSet(q)
    BY <2>2, <1>1 DEF ToSet
  <2> QED
    BY <2>1, <2>2
<1> QED
  BY <1>4

(* What the history records: only a crash, a throw and a watcher that ends  *)
(* write to it, and nothing is ever taken back.                              *)
LEMMA Recorded ==
  ASSUME [Next]_vars
  PROVE  /\ forgotten \subseteq forgotten' /\ interrupted \subseteq interrupted'
         /\ unacked \subseteq unacked' /\ dropped \subseteq dropped'
         /\ leaked \subseteq leaked'
         /\ Crash => /\ Unqueued \cup Unsaved \subseteq forgotten'
                     /\ attempt # NoAttempt => poolJob \in interrupted'
                     /\ Refused => poolJob \in unacked'
         /\ PoolThrows => Unqueued \subseteq forgotten' /\ poolJob \in dropped'
<1> USE DEF auxVars, historyVars
<1>1. CASE PoolStep
  BY <1>1 DEF PoolStep, PoolFetch, PoolValidate, PoolReject, PoolPrepare,
     PoolSendAccepted, PoolSendError, PoolSendNoFunds, PoolAddNullifier,
     PoolCacheTx, PoolThrows, Abandon, PoolSaveSent, PoolEnqueueSent, PoolAck, Crash
<1>2. CASE SentStep
  BY <1>2 DEF SentStep, SentFetch, SentCheck, SentResend, SentResendError,
     SentResendNoFunds, SentSave, SentConfirmed, SentRollback, SentReverted,
     SentAck, SentThrows, Crash, PoolThrows, Abandon
<1>3. CASE Crash
  BY <1>3 DEF Crash, PoolThrows, Abandon
<1>4. CASE Next /\ ~PoolStep /\ ~SentStep /\ ~Crash
  BY <1>4 DEF Next, Relayer, Environment, Submit, Resume, FundsCheckFails, Observe,
     PoolRedeliver,
     SentRedeliver, Mine, Drop, ForeignSpend, RunDry, TopUp, PoolThrows, Abandon
<1>5. CASE UNCHANGED vars
  BY <1>5 DEF vars, Crash, PoolThrows, Abandon
<1> QED
  BY <1>1, <1>2, <1>3, <1>4, <1>5

(* Where an unfinished job can be: a worker that has only its acknowledgment *)
(* left no longer counts.                                                    *)
InPoolQueue(j) == j \in ToSet(poolQ) \cup poolStalled
WithPoolWorker(j) == poolPc \notin {"idle", "ack"} /\ poolJob = j
InSentQueue(j) == \E s \in ToSet(sentQ) \cup sentStalled : s.job = j
WithSentWorker(j) == sentPc \notin {"idle", "ack"} /\ sentJob.job = j

AccountedInv ==
  \A j \in Jobs \ dropped : jobState[j] \in {"waiting", "sent"} =>
    InPoolQueue(j) \/ WithPoolWorker(j) \/ InSentQueue(j) \/ WithSentWorker(j)

(* No accepted job is forgotten by a crash, a redelivery or an error path,   *)
(* but those the pool worker left because a call outside its try blocks      *)
(* threw: until it has a final status a queue or a worker holds it.          *)
THEOREM NoJobForgotten == Spec => []JobAccounted
<1>1. Init => TypeOK /\ AccountedInv
  BY PipelineTyped DEF Init, AccountedInv
<1>2. TypeOK /\ AccountedInv /\ [Next]_vars => (TypeOK /\ AccountedInv)'
  <2> SUFFICES ASSUME TypeOK, AccountedInv, [Next]_vars
               PROVE  (TypeOK /\ AccountedInv)'
    OBVIOUS
  <2>0. dropped \subseteq dropped'
    BY Recorded
  <2>36. TypeOK'
    BY <2>0, PipelineTyped
  <2> SUFFICES ASSUME NEW j \in Jobs \ dropped', jobState'[j] \in {"waiting", "sent"}
               PROVE  (InPoolQueue(j) \/ WithPoolWorker(j) \/ InSentQueue(j)
                       \/ WithSentWorker(j))'
    BY <2>36 DEF AccountedInv
  <2> j \in Jobs \ dropped
    BY <2>0
  <2> DEFINE Located == InPoolQueue(j) \/ WithPoolWorker(j)
                        \/ InSentQueue(j) \/ WithSentWorker(j)
  <2> USE DEF queueVars, cacheVars, poolVars, sentVars, memVars, chainVars,
              auxVars, historyVars
  <2>1. CASE PoolValidate
    BY <2>1 DEF PoolValidate, AccountedInv,
       InPoolQueue, WithPoolWorker, InSentQueue, WithSentWorker
  <2>2. CASE PoolPrepare
    BY <2>2 DEF PoolPrepare, AccountedInv,
       InPoolQueue, WithPoolWorker, InSentQueue, WithSentWorker
  <2>3. CASE PoolSendAccepted
    BY <2>3 DEF PoolSendAccepted, AccountedInv,
       InPoolQueue, WithPoolWorker, InSentQueue, WithSentWorker
  <2>4. CASE PoolSendError
    BY <2>4 DEF PoolSendError, AccountedInv,
       InPoolQueue, WithPoolWorker, InSentQueue, WithSentWorker
  <2>5. CASE PoolSendNoFunds
    BY <2>5 DEF PoolSendNoFunds, AccountedInv,
       InPoolQueue, WithPoolWorker, InSentQueue, WithSentWorker
  <2>6. CASE PoolAddNullifier
    BY <2>6 DEF PoolAddNullifier, AccountedInv,
       InPoolQueue, WithPoolWorker, InSentQueue, WithSentWorker
  <2>7. CASE PoolCacheTx
    BY <2>7 DEF PoolCacheTx, AccountedInv,
       InPoolQueue, WithPoolWorker, InSentQueue, WithSentWorker
  <2>8. CASE PoolAck
    BY <2>8 DEF PoolAck, AccountedInv,
       InPoolQueue, WithPoolWorker, InSentQueue, WithSentWorker
  <2>9. CASE SentCheck
    BY <2>9 DEF SentCheck, AccountedInv,
       InPoolQueue, WithPoolWorker, InSentQueue, WithSentWorker
  <2>10. CASE SentResend
    BY <2>10 DEF SentResend, AccountedInv,
       InPoolQueue, WithPoolWorker, InSentQueue, WithSentWorker
  <2>11. CASE SentResendError
    BY <2>11 DEF SentResendError, AccountedInv,
       InPoolQueue, WithPoolWorker, InSentQueue, WithSentWorker
  <2>12. CASE SentResendNoFunds
    BY <2>12 DEF SentResendNoFunds, AccountedInv,
       InPoolQueue, WithPoolWorker, InSentQueue, WithSentWorker
  <2>13. CASE SentSave
    BY <2>13 DEF SentSave, AccountedInv,
       InPoolQueue, WithPoolWorker, InSentQueue, WithSentWorker
  <2>14. CASE SentRollback
    BY <2>14 DEF SentRollback, AccountedInv,
       InPoolQueue, WithPoolWorker, InSentQueue, WithSentWorker
  <2>15. CASE SentAck
    BY <2>15 DEF SentAck, AccountedInv,
       InPoolQueue, WithPoolWorker, InSentQueue, WithSentWorker
  <2>16. CASE Resume
    BY <2>16 DEF Resume, AccountedInv,
       InPoolQueue, WithPoolWorker, InSentQueue, WithSentWorker
  <2>17. CASE Mine
    BY <2>17 DEF Mine, AccountedInv,
       InPoolQueue, WithPoolWorker, InSentQueue, WithSentWorker
  <2>18. CASE Drop
    BY <2>18 DEF Drop, AccountedInv,
       InPoolQueue, WithPoolWorker, InSentQueue, WithSentWorker
  <2>19. CASE RunDry
    BY <2>19 DEF RunDry, AccountedInv,
       InPoolQueue, WithPoolWorker, InSentQueue, WithSentWorker
  <2>20. CASE TopUp
    BY <2>20 DEF TopUp, AccountedInv,
       InPoolQueue, WithPoolWorker, InSentQueue, WithSentWorker
  <2>21. CASE PoolThrows
    <3>1. j # poolJob
      BY <2>21, Recorded
    <3> QED
      BY <2>21, <3>1 DEF PoolThrows, Abandon, AccountedInv, InPoolQueue, WithPoolWorker,
         InSentQueue, WithSentWorker
  <2>22. CASE PoolReject
    BY <2>22 DEF PoolReject, TypeOK, AccountedInv,
       InPoolQueue, WithPoolWorker, InSentQueue, WithSentWorker
  <2>23. CASE PoolSaveSent
    BY <2>23 DEF PoolSaveSent, TypeOK, AccountedInv,
       InPoolQueue, WithPoolWorker, InSentQueue, WithSentWorker
  <2>24. CASE SentConfirmed
    BY <2>24 DEF SentConfirmed, TypeOK, AccountedInv,
       InPoolQueue, WithPoolWorker, InSentQueue, WithSentWorker
  <2>25. CASE SentReverted
    BY <2>25 DEF SentReverted, TypeOK, AccountedInv,
       InPoolQueue, WithPoolWorker, InSentQueue, WithSentWorker
  <2>26. CASE PoolFetch
    <3>1. ToSet(poolQ) \subseteq ToSet(poolQ') \cup {poolJob'}
      BY <2>26, FetchKeepsOthers DEF PoolFetch, TypeOK
    <3> QED
      BY <2>26, <3>1 DEF PoolFetch, AccountedInv, InPoolQueue, WithPoolWorker,
         InSentQueue, WithSentWorker
  <2>27. CASE SentFetch
    <3>1. ToSet(sentQ) \subseteq ToSet(sentQ') \cup {sentJob'}
      BY <2>27, FetchKeepsOthers DEF SentFetch, TypeOK
    <3> QED
      BY <2>27, <3>1 DEF SentFetch, AccountedInv, InPoolQueue, WithPoolWorker,
         InSentQueue, WithSentWorker
  <2>28. CASE PoolEnqueueSent
    <3> DEFINE s == [job |-> poolJob, nonce |-> attempt.nonce,
                     prices |-> {attempt.price}]
    <3>1. s \in SentJob
      BY <2>28 DEF PoolEnqueueSent, TypeOK, Signing, SentJob, Attempt
    <3>2. sentQ' = Append(sentQ, s) /\ s.job = poolJob
      BY <2>28 DEF PoolEnqueueSent
    <3> HIDE DEF s
    <3>3. ToSet(sentQ) \cup {s} \subseteq ToSet(sentQ')
      BY <3>1, <3>2, AddKeepsAll DEF TypeOK
    <3> QED
      BY <2>28, <3>2, <3>3 DEF PoolEnqueueSent, AccountedInv, InPoolQueue,
         WithPoolWorker, InSentQueue, WithSentWorker
  <2>29. CASE PoolRedeliver
    <3> PICK k \in poolStalled : /\ poolStalled' = poolStalled \ {k}
                                 /\ poolQ' = <<k>> \o poolQ
      BY <2>29 DEF PoolRedeliver
    <3>1. ToSet(poolQ) \cup {k} \subseteq ToSet(poolQ')
      BY AddKeepsAll DEF TypeOK
    <3> QED
      BY <2>29, <3>1 DEF PoolRedeliver, AccountedInv, InPoolQueue,
         WithPoolWorker, InSentQueue, WithSentWorker
  <2>30. CASE SentRedeliver
    <3> PICK s \in sentStalled : /\ sentStalled' = sentStalled \ {s}
                                 /\ sentQ' = <<s>> \o sentQ
      BY <2>30 DEF SentRedeliver
    <3>1. ToSet(sentQ) \cup {s} \subseteq ToSet(sentQ')
      BY AddKeepsAll DEF TypeOK
    <3> QED
      BY <2>30, <3>1 DEF SentRedeliver, AccountedInv, InPoolQueue,
         WithPoolWorker, InSentQueue, WithSentWorker
  <2>31. CASE Crash
    <3>1. /\ WithPoolWorker(j) => InPoolQueue(j)'
          /\ WithSentWorker(j) => InSentQueue(j)'
      BY <2>31, PipelineAssumption, NoSentAssumption
      DEF Crash, TypeOK, PipelineAssumption, InPoolQueue, WithPoolWorker,
         InSentQueue, WithSentWorker
    <3> QED
      BY <2>31, <3>1 DEF Crash, AccountedInv, InPoolQueue, WithPoolWorker,
         InSentQueue, WithSentWorker
  <2>32. CASE \E k \in Jobs : Submit(k)
    <3> PICK k \in Jobs : Submit(k)
      BY <2>32
    <3>1. ToSet(poolQ) \cup {k} \subseteq ToSet(poolQ')
      BY AddKeepsAll DEF Submit, TypeOK
    <3> QED
      BY <3>1 DEF Submit, TypeOK, AccountedInv, InPoolQueue, WithPoolWorker,
         InSentQueue, WithSentWorker
  <2>33. CASE \E k \in Jobs : Observe(k)
    BY <2>33 DEF Observe, AccountedInv,
       InPoolQueue, WithPoolWorker, InSentQueue, WithSentWorker
  <2>34. CASE \E k \in Nullifiers : ForeignSpend(k)
    BY <2>34 DEF ForeignSpend, AccountedInv,
       InPoolQueue, WithPoolWorker, InSentQueue, WithSentWorker
  <2>37. CASE SentThrows
    BY <2>37 DEF SentThrows, AccountedInv,
       InPoolQueue, WithPoolWorker, InSentQueue, WithSentWorker
  <2>38. CASE FundsCheckFails
    BY <2>38 DEF FundsCheckFails, AccountedInv,
       InPoolQueue, WithPoolWorker, InSentQueue, WithSentWorker
  <2>35. CASE UNCHANGED vars
    BY <2>35 DEF vars, AccountedInv,
       InPoolQueue, WithPoolWorker, InSentQueue, WithSentWorker
  <2> QED
    BY <2>0, <2>1, <2>2, <2>3, <2>4, <2>5, <2>6, <2>7, <2>8, <2>9, <2>10, <2>11,
       <2>12, <2>13, <2>14, <2>15, <2>16, <2>17, <2>18, <2>19, <2>20, <2>21,
       <2>22, <2>23, <2>24, <2>25, <2>26, <2>27, <2>28, <2>29, <2>30, <2>31,
       <2>32, <2>33, <2>34, <2>35, <2>37, <2>38
    DEF Next, Relayer, PoolStep, SentStep, Environment
<1>3. TypeOK /\ AccountedInv => JobAccounted
  BY NoSentAssumption DEF AccountedInv, JobAccounted, TypeOK, SentJobs,
     InPoolQueue, WithPoolWorker, InSentQueue, WithSentWorker
<1> QED
  BY <1>1, <1>2, <1>3, PTL DEF Spec

-----------------------------------------------------------------------------
(* What survives crashes, with what they took (forgotten, interrupted,       *)
(* dropped), in the parts of one inductive invariant.  The chain executes    *)
(* nonces in order and the node holds one attempt for each.                  *)
ChainOrder ==
  /\ \A a, b \in mempool : a.nonce = b.nonce => a = b
  /\ \A a \in mempool : a.nonce >= chainNonce
  /\ \A m \in mined : m.nonce < chainNonce

(* The sent worker leaves a job only after a receipt with its nonce.         *)
Executed ==
  sentPc \in {"confirmed", "rollback", "reverted", "ack"} =>
    \E m \in mined : m.job = sentJob.job /\ m.nonce = sentJob.nonce

(* A job is in one place on its way to the pool worker.                      *)
PoolOnce ==
  /\ IsInjective(poolQ) /\ ToSet(poolQ) \cap poolStalled = {}
  /\ poolJob \notin ToSet(poolQ) \cup poolStalled
  /\ poolPc \in Signing => attempt.job = poolJob

InPool(j) == \/ j \in ToSet(poolQ) \cup poolStalled
             \/ poolJob = j /\ poolPc \notin {"idle", "ack"}
Signs(j)  == poolJob = j /\ poolPc \in Signing
InSent(j) == \E s \in SentJobs : s.job = j
Traced(j) == (\E a \in mempool \cup mined : a.job = j) \/ InSent(j)

(* Nothing is anywhere of a job that was not submitted.                      *)
Unknown == \A j \in Jobs :
  jobState[j] = "none" => ~InPool(j) /\ poolJob # j /\ ~Traced(j)

(* The pool worker may yet sign for j, at once or after a crash.             *)
AtWork(j) == \/ InPool(j)
             \/ poolJob = j /\ poolPc = "ack" /\ attempt = NoAttempt

(* A job that no crash interrupted after its signature has no trace before   *)
(* the signature, and none at all once it is refused for good.               *)
Fresh == \A j \in Jobs \ interrupted :
  /\ AtWork(j) => jobState[j] \in {"waiting", "sent", "failed"} /\ ~InSent(j)
  /\ AtWork(j) /\ Traced(j) => Signs(j)
  /\ jobState[j] = "failed" /\ InPool(j) => j \in unacked
  /\ jobState[j] = "failed" /\ j \notin unacked => ~Traced(j)
  /\ sentPc = "ack" /\ sentJob.job = j => jobState[j] \in {"completed", "reverted"}

LEMMA AppendAsSet ==
  ASSUME NEW S, NEW q \in Seq(S), NEW e \in S
  PROVE  /\ ToSet(Append(q, e)) = ToSet(q) \cup {e}
         /\ IsInjective(q) /\ e \notin ToSet(q) => IsInjective(Append(q, e))
<1> DEFINE r == Append(q, e)
<1>1. /\ DOMAIN q = 1..Len(q) /\ Len(q) \in Nat /\ DOMAIN r = 1..(Len(q) + 1)
      /\ \A i \in 1..Len(q) : r[i] = q[i]
      /\ r[Len(q) + 1] = e
  OBVIOUS
<1> HIDE DEF r
<1>2. /\ \A i \in DOMAIN r : (i \in DOMAIN q /\ r[i] = q[i]) \/ (i = Len(q) + 1 /\ r[i] = e)
      /\ \A i \in DOMAIN q : i \in DOMAIN r /\ r[i] = q[i]
      /\ \E i \in DOMAIN r : r[i] = e
  BY <1>1
<1>3. ToSet(r) = ToSet(q) \cup {e}
  BY <1>2 DEF ToSet
<1>4. ASSUME IsInjective(q), e \notin ToSet(q) PROVE IsInjective(r)
  <2>1. \A i \in DOMAIN q : q[i] # e
    BY <1>4 DEF ToSet
  <2> QED
    BY <1>2, <1>4, <2>1 DEF IsInjective
<1> QED
  BY <1>3, <1>4 DEF r

LEMMA PrependAsSet ==
  ASSUME NEW S, NEW q \in Seq(S), NEW e \in S
  PROVE  /\ ToSet(<<e>> \o q) = ToSet(q) \cup {e}
         /\ IsInjective(q) /\ e \notin ToSet(q) => IsInjective(<<e>> \o q)
<1> DEFINE r == <<e>> \o q
<1>1. /\ DOMAIN q = 1..Len(q) /\ Len(q) \in Nat /\ DOMAIN r = 1..(Len(q) + 1)
      /\ \A i \in 1..Len(q) : r[i + 1] = q[i]
      /\ r[1] = e
  OBVIOUS
<1> HIDE DEF r
<1>2. /\ \A i \in DOMAIN r : i - 1 \in DOMAIN q \/ i = 1
      /\ \A i \in DOMAIN r : i - 1 \in DOMAIN q => r[i] = q[i - 1]
      /\ \A i \in DOMAIN q : i + 1 \in DOMAIN r
      /\ 1 \in DOMAIN r
  BY <1>1
<1>3. ToSet(r) = ToSet(q) \cup {e}
  <2>1. \A i \in DOMAIN r : r[i] = e \/ (\E k \in DOMAIN q : r[i] = q[k])
    BY <1>1, <1>2
  <2>2. \A i \in DOMAIN q : \E k \in DOMAIN r : r[k] = q[i]
    BY <1>1, <1>2
  <2>3. \E k \in DOMAIN r : r[k] = e
    BY <1>1, <1>2
  <2> QED
    BY <2>1, <2>2, <2>3 DEF ToSet
<1>4. ASSUME IsInjective(q), e \notin ToSet(q) PROVE IsInjective(r)
  <2>1. /\ \A i \in DOMAIN q : q[i] # e
        /\ \A i, k \in DOMAIN q : q[i] = q[k] => i = k
    BY <1>4 DEF ToSet, IsInjective
  <2>2. ASSUME NEW i \in DOMAIN r, NEW k \in DOMAIN r, r[i] = r[k] PROVE i = k
    <3>1. CASE i - 1 \in DOMAIN q /\ k - 1 \in DOMAIN q
      <4>1. i - 1 = k - 1
        BY <1>2, <2>1, <2>2, <3>1
      <4> QED
        BY <1>1, <4>1
    <3> QED
      BY <1>1, <1>2, <2>1, <2>2, <3>1
  <2> QED
    BY <2>2 DEF IsInjective
<1> QED
  BY <1>3, <1>4 DEF r

LEMMA FetchAsSet ==
  ASSUME NEW S, NEW q \in Seq(S), q # <<>>
  PROVE  /\ ToSet(q) = ToSet(Tail(q)) \cup {Head(q)} /\ Head(q) \in S
         /\ IsInjective(q) => IsInjective(Tail(q)) /\ Head(q) \notin ToSet(Tail(q))
<1> DEFINE r == Tail(q)
<1>1. /\ DOMAIN q = 1..Len(q) /\ Len(q) \in Nat \ {0} /\ Head(q) = q[1] /\ Head(q) \in S
      /\ DOMAIN r = 1..(Len(q) - 1)
      /\ \A i \in 1..(Len(q) - 1) : r[i] = q[i + 1]
  OBVIOUS
<1> HIDE DEF r
<1>2. \A i \in DOMAIN r : i + 1 \in DOMAIN q /\ r[i] = q[i + 1]
  BY <1>1
<1>3. ToSet(q) \subseteq ToSet(r) \cup {Head(q)}
  BY FetchKeepsOthers DEF r
<1>4. ToSet(r) \cup {Head(q)} \subseteq ToSet(q)
  BY <1>1, <1>2 DEF ToSet
<1>5. ASSUME IsInjective(q) PROVE IsInjective(r) /\ q[1] \notin ToSet(r)
  <2>1. \A i, k \in DOMAIN q : q[i] = q[k] => i = k
    BY <1>5 DEF IsInjective
  <2>2. \A i \in DOMAIN r : r[i] # q[1]
    BY <1>1, <1>2, <2>1
  <2>3. \A i, k \in DOMAIN r : r[i] = r[k] => i = k
    <3> SUFFICES ASSUME NEW i \in DOMAIN r, NEW k \in DOMAIN r, r[i] = r[k] PROVE i = k
      OBVIOUS
    <3>1. i + 1 = k + 1
      BY <1>2, <2>1
    <3> QED
      BY <1>1, <3>1
  <2> QED
    BY <2>2, <2>3 DEF IsInjective, ToSet
<1> QED
  BY <1>1, <1>3, <1>4, <1>5 DEF r

LEMMA ChainOrderKept ==
  ASSUME TypeOK, ChainOrder, [Next]_vars PROVE ChainOrder'
<1> USE DEF queueVars, cacheVars, poolVars, sentVars, memVars, chainVars, auxVars,
        historyVars
<1>1. ASSUME NEW a \in Attempt, Accepts(a), mempool' = Held(a), UNCHANGED <<mined,
chainNonce>>
      PROVE  ChainOrder'
  BY <1>1 DEF ChainOrder, Accepts, Held
<1>2. CASE PoolSendAccepted
  BY <1>1, <1>2 DEF PoolSendAccepted, TypeOK, Signing
<1>3. CASE SentResend
  <2>1. PICK p \in Bumped(known) :
          LET a == [job |-> sentJob.job, nonce |-> sentJob.nonce, price |-> p]
          IN  Accepts(a) /\ mempool' = Held(a)
    BY <1>3 DEF SentResend
  <2>2. p \in Prices
    BY PipelineAssumption DEF Bumped, Prices
  <2>3. [job |-> sentJob.job, nonce |-> sentJob.nonce, price |-> p] \in Attempt
    BY <1>3, <2>2 DEF SentResend, TypeOK, SentJob, Attempt
  <2> QED
    BY <1>1, <1>3, <2>1, <2>3 DEF SentResend
<1>4. CASE Mine
  <2>1. PICK a \in mempool, ok \in BOOLEAN :
          /\ a.nonce = chainNonce /\ mempool' = mempool \ {a} /\ chainNonce' = chainNonce + 1
          /\ mined' = mined \cup {[job |-> a.job, nonce |-> a.nonce, price |-> a.price,
                                   ok |-> ok]}
    BY <1>4 DEF Mine
  <2>2. /\ chainNonce \in Nat /\ \A b \in mempool : b.nonce \in Nat
        /\ \A m \in mined : m.nonce \in Nat
    BY DEF TypeOK, Attempt, Receipt
  <2>3. \A b \in mempool' : b.nonce >= chainNonce'
    BY <2>1, <2>2 DEF ChainOrder
  <2>4. \A m \in mined' : m.nonce < chainNonce'
    BY <2>1, <2>2 DEF ChainOrder
  <2> QED
    BY <2>1, <2>3, <2>4 DEF ChainOrder
<1>5. ASSUME mempool' \subseteq mempool, UNCHANGED <<mined, chainNonce>> PROVE ChainOrder'
  BY <1>5 DEF ChainOrder
<1>6. CASE \/ \E j \in Jobs : Submit(j) \/ Observe(j)
           \/ \E k \in Nullifiers : ForeignSpend(k)
           \/ Drop \/ RunDry \/ TopUp \/ Crash \/ UNCHANGED vars
           \/ Resume \/ FundsCheckFails \/ PoolRedeliver \/ SentRedeliver
  BY <1>5, <1>6 DEF Submit, Observe, ForeignSpend, Drop, RunDry, TopUp, Crash, vars,
     Resume, FundsCheckFails,
     PoolRedeliver, SentRedeliver
<1>7. CASE \/ PoolFetch \/ PoolValidate \/ PoolReject \/ PoolPrepare \/ PoolSendError
           \/ PoolSendNoFunds \/ PoolAddNullifier \/ PoolCacheTx \/ PoolThrows
           \/ PoolSaveSent \/ PoolEnqueueSent \/ PoolAck
  BY <1>5, <1>7 DEF PoolFetch, PoolValidate, PoolReject, PoolPrepare, PoolSendError,
     PoolSendNoFunds, PoolAddNullifier, PoolCacheTx, PoolThrows, Abandon, PoolSaveSent,
     PoolEnqueueSent, PoolAck
<1>8. CASE \/ SentFetch \/ SentCheck \/ SentResendError \/ SentResendNoFunds \/ SentSave
           \/ SentConfirmed \/ SentRollback \/ SentReverted \/ SentAck \/ SentThrows
  BY <1>5, <1>8 DEF SentFetch, SentCheck, SentResendError, SentResendNoFunds, SentSave,
     SentConfirmed, SentRollback, SentReverted, SentAck, SentThrows
<1> QED
  BY <1>2, <1>3, <1>4, <1>6, <1>7, <1>8 DEF Next, Relayer, PoolStep, SentStep, Environment

LEMMA ExecutedKept ==
  ASSUME TypeOK, Executed, [Next]_vars PROVE Executed'
<1> USE DEF queueVars, cacheVars, poolVars, sentVars, memVars, chainVars, auxVars,
        historyVars
<1>1. mined \subseteq mined'
  BY DEF Next, Relayer, PoolStep, SentStep, Environment, vars, Submit, Observe,
     ForeignSpend,
     Drop, RunDry, TopUp, Crash, Resume, FundsCheckFails, PoolRedeliver, SentRedeliver,
     Mine,
     PoolFetch, PoolValidate, PoolReject, PoolPrepare, PoolSendAccepted, PoolSendError,
     PoolSendNoFunds, PoolAddNullifier, PoolCacheTx, PoolThrows, Abandon, PoolSaveSent,
     PoolEnqueueSent, PoolAck, SentFetch, SentCheck, SentResend, SentResendError,
     SentResendNoFunds, SentSave, SentConfirmed, SentRollback, SentReverted, SentAck,
     SentThrows
<1>2. CASE SentCheck
  <2>1. sentPc' \in {"confirmed", "rollback"} => Receipts # {}
    BY <1>2 DEF SentCheck
  <2>2. \A m \in Receipts : m \in mined /\ m.job = sentJob.job /\ m.nonce = sentJob.nonce
    BY DEF Receipts
  <2>3. sentPc' \in {"resend", "confirmed", "rollback"} /\ sentJob' = sentJob
    BY <1>2 DEF SentCheck
  <2> QED
    BY <1>1, <2>1, <2>2, <2>3 DEF Executed
<1>3. CASE \/ SentFetch \/ SentResend \/ SentResendError \/ SentResendNoFunds \/ SentSave
           \/ SentAck \/ Crash \/ SentThrows
  BY <1>3 DEF SentFetch, SentResend, SentResendError, SentResendNoFunds, SentSave,
     SentAck, SentThrows,
     Crash, Executed
<1>4. CASE SentConfirmed \/ SentRollback \/ SentReverted \/ SentThrows
  BY <1>4 DEF SentConfirmed, SentRollback, SentReverted, SentThrows, Executed
<1>5. ASSUME UNCHANGED <<sentPc, sentJob>> PROVE Executed'
  BY <1>1, <1>5 DEF Executed
<1>6. CASE \/ \E j \in Jobs : Submit(j) \/ Observe(j)
           \/ \E k \in Nullifiers : ForeignSpend(k)
           \/ Mine \/ Drop \/ RunDry \/ TopUp \/ UNCHANGED vars
           \/ Resume \/ FundsCheckFails \/ PoolRedeliver \/ SentRedeliver \/ PoolStep
  BY <1>5, <1>6 DEF Submit, Observe, ForeignSpend, Mine, Drop, RunDry, TopUp, vars,
     Resume, FundsCheckFails,
     PoolRedeliver, SentRedeliver, PoolStep,
     PoolFetch, PoolValidate, PoolReject, PoolPrepare, PoolSendAccepted, PoolSendError,
     PoolSendNoFunds, PoolAddNullifier, PoolCacheTx, PoolThrows, Abandon, PoolSaveSent,
     PoolEnqueueSent, PoolAck
<1> QED
  BY <1>2, <1>3, <1>4, <1>6 DEF Next, Relayer, SentStep, Environment

LEMMA PoolOnceKept ==
  ASSUME TypeOK, PoolOnce, Unknown, [Next]_vars PROVE PoolOnce'
<1> USE DEF queueVars, cacheVars, poolVars, sentVars, memVars, chainVars, auxVars,
        historyVars
<1>0. NoJob \notin Jobs /\ poolQ \in Seq(Jobs) /\ poolStalled \subseteq Jobs
      /\ ToSet(poolQ) \subseteq Jobs /\ (poolPc = "idle" <=> poolJob = NoJob)
  BY PipelineAssumption DEF TypeOK, ToSet
<1>1. CASE \E j \in Jobs : Submit(j)
  <2>1. PICK j \in Jobs : Submit(j)
    BY <1>1
  <2>2. j \notin ToSet(poolQ) \cup poolStalled /\ poolJob # j
    BY <2>1 DEF Submit, Unknown, InPool
  <2>3. IsInjective(poolQ') /\ ToSet(poolQ') = ToSet(poolQ) \cup {j}
    <3>1. /\ ToSet(Append(poolQ, j)) = ToSet(poolQ) \cup {j}
          /\ IsInjective(poolQ) /\ j \notin ToSet(poolQ) => IsInjective(Append(poolQ, j))
      BY <1>0, AppendAsSet
    <3> QED
      BY <2>1, <2>2, <3>1 DEF Submit, PoolOnce
  <2> QED
    BY <2>1, <2>2, <2>3 DEF Submit, PoolOnce
<1>2. CASE PoolFetch
  <2>1. /\ ToSet(poolQ) = ToSet(poolQ') \cup {poolJob'}
        /\ IsInjective(poolQ') /\ poolJob' \notin ToSet(poolQ')
    BY <1>0, <1>2, FetchAsSet DEF PoolFetch, PoolOnce
  <2> QED
    BY <1>2, <2>1 DEF PoolFetch, PoolOnce, Signing
<1>3. CASE PoolRedeliver
  <2>1. PICK j \in poolStalled : poolStalled' = poolStalled \ {j} /\ poolQ' = <<j>> \o poolQ
    BY <1>3 DEF PoolRedeliver
  <2>2. IsInjective(poolQ') /\ ToSet(poolQ') = ToSet(poolQ) \cup {j}
    <3>1. j \in Jobs /\ j \notin ToSet(poolQ) /\ IsInjective(poolQ)
      BY <1>0 DEF PoolOnce
    <3>2. /\ ToSet(<<j>> \o poolQ) = ToSet(poolQ) \cup {j}
          /\ IsInjective(poolQ) /\ j \notin ToSet(poolQ) => IsInjective(<<j>> \o poolQ)
      BY <1>0, <3>1, PrependAsSet
    <3> QED
      BY <2>1, <3>1, <3>2
  <2> QED
    BY <1>3, <2>1, <2>2 DEF PoolRedeliver, PoolOnce
<1>4. CASE Crash \/ PoolAck
  BY <1>0, <1>4 DEF Crash, PoolAck, PoolOnce, Signing
<1>5. CASE PoolPrepare
  BY <1>5 DEF PoolPrepare, PoolOnce, Signing
<1>6. ASSUME UNCHANGED <<poolQ, poolStalled, poolJob, attempt>>,
             poolPc' \in Signing => poolPc \in Signing
      PROVE  PoolOnce'
  BY <1>6 DEF PoolOnce
<1>7. CASE \/ PoolValidate \/ PoolReject \/ PoolSendAccepted \/ PoolSendError
           \/ PoolSendNoFunds \/ PoolAddNullifier \/ PoolCacheTx \/ PoolThrows
           \/ PoolSaveSent \/ PoolEnqueueSent
  BY <1>6, <1>7 DEF PoolValidate, PoolReject, PoolSendAccepted, PoolSendError,
     PoolSendNoFunds, PoolAddNullifier, PoolCacheTx, PoolThrows, Abandon, PoolSaveSent,
     PoolEnqueueSent, Signing
<1>8. CASE \/ \E j \in Jobs : Observe(j)
           \/ \E k \in Nullifiers : ForeignSpend(k)
           \/ Mine \/ Drop \/ RunDry \/ TopUp \/ UNCHANGED vars \/ Resume
           \/ FundsCheckFails \/ SentRedeliver
  BY <1>6, <1>8 DEF Observe, ForeignSpend, Mine, Drop, RunDry, TopUp, vars, Resume,
     FundsCheckFails,
     SentRedeliver
<1>9. CASE SentStep
  BY <1>6, <1>9 DEF SentStep, SentFetch, SentCheck, SentResend, SentResendError,
     SentResendNoFunds, SentSave, SentConfirmed, SentRollback, SentReverted, SentAck,
     SentThrows
<1> QED
  BY <1>1, <1>2, <1>3, <1>4, <1>5, <1>7, <1>8, <1>9
  DEF Next, Relayer, PoolStep, Environment

(* What a step may add to where a job is.  The sent worker's jobs come from  *)
(* the pool worker, and traces from attempts the pool worker has signed.     *)
LEMMA SentMoves ==
  ASSUME TypeOK, PoolOnce, [Next]_vars, NEW j \in Jobs
  PROVE  InSent(j)' => InSent(j) \/ (PoolEnqueueSent /\ poolJob = j)
<1> USE DEF queueVars, cacheVars, poolVars, sentVars, memVars, chainVars, auxVars,
        historyVars
<1>0. sentQ \in Seq(SentJob)
  BY DEF TypeOK
<1>1. ASSUME UNCHANGED <<sentQ, sentStalled, sentJob>> PROVE InSent(j)' => InSent(j)
  BY <1>1 DEF InSent, SentJobs
<1>2. CASE \/ \E k \in Jobs : Submit(k) \/ Observe(k)
           \/ \E k \in Nullifiers : ForeignSpend(k)
           \/ Mine \/ Drop \/ RunDry \/ TopUp \/ UNCHANGED vars \/ Resume
           \/ FundsCheckFails \/ PoolRedeliver
  BY <1>1, <1>2 DEF Submit, Observe, ForeignSpend, Mine, Drop, RunDry, TopUp, vars,
     Resume, FundsCheckFails,
     PoolRedeliver
<1>3. CASE \/ PoolFetch \/ PoolValidate \/ PoolReject \/ PoolPrepare \/ PoolSendAccepted
           \/ PoolSendError \/ PoolSendNoFunds \/ PoolAddNullifier \/ PoolCacheTx
           \/ PoolThrows \/ PoolSaveSent \/ PoolAck
  BY <1>1, <1>3 DEF PoolFetch, PoolValidate, PoolReject, PoolPrepare, PoolSendAccepted,
     PoolSendError, PoolSendNoFunds, PoolAddNullifier, PoolCacheTx, PoolThrows, Abandon,
     PoolSaveSent, PoolAck
<1>4. CASE PoolEnqueueSent
  <2>1. PICK e \in SentJob : sentQ' = Append(sentQ, e) /\ e.job = poolJob
    <3>1. [job |-> poolJob, nonce |-> attempt.nonce,
    prices |-> {attempt.price}] \in SentJob
      BY <1>4 DEF PoolEnqueueSent, TypeOK, Signing, SentJob, Attempt
    <3> QED
      BY <1>4, <3>1 DEF PoolEnqueueSent
  <2>2. ToSet(sentQ') = ToSet(sentQ) \cup {e}
    <3>1. ToSet(Append(sentQ, e)) = ToSet(sentQ) \cup {e}
      BY <1>0, AppendAsSet
    <3> QED
      BY <2>1, <3>1
  <2> QED
    BY <1>4, <2>1, <2>2 DEF PoolEnqueueSent, InSent, SentJobs
<1>5. CASE SentFetch
  <2>1. ToSet(sentQ) = ToSet(sentQ') \cup {sentJob'}
    BY <1>0, <1>5, FetchAsSet DEF SentFetch
  <2> QED
    BY <1>5, <2>1 DEF SentFetch, InSent, SentJobs
<1>6. CASE SentRedeliver
  <2>1. PICK s \in sentStalled : sentStalled' = sentStalled \ {s} /\ sentQ' = <<s>> \o sentQ
    BY <1>6 DEF SentRedeliver
  <2>2. ToSet(sentQ') = ToSet(sentQ) \cup {s}
    <3>1. s \in SentJob
      BY DEF TypeOK
    <3>2. ToSet(<<s>> \o sentQ) = ToSet(sentQ) \cup {s}
      BY <1>0, <3>1, PrependAsSet
    <3> QED
      BY <2>1, <3>2
  <2> QED
    BY <1>6, <2>1, <2>2 DEF SentRedeliver, InSent, SentJobs
<1>7. CASE Crash \/ SentAck
  BY <1>7 DEF Crash, SentAck, InSent, SentJobs
<1>8. CASE SentSave
  <2>1. sentJob \in SentJob /\ sentJob' = [sentJob EXCEPT !.prices = known]
        /\ UNCHANGED <<sentQ, sentStalled>>
    BY <1>8 DEF SentSave, TypeOK
  <2>2. sentJob'.job = sentJob.job
    BY <2>1 DEF SentJob
  <2> QED
    BY <2>1, <2>2, NoSentAssumption DEF InSent, SentJobs
<1>9. CASE \/ SentCheck \/ SentResend \/ SentResendError \/ SentResendNoFunds
           \/ SentConfirmed \/ SentRollback \/ SentReverted \/ SentThrows
  BY <1>1, <1>9 DEF SentCheck, SentResend, SentResendError, SentResendNoFunds,
     SentConfirmed, SentRollback, SentReverted, SentThrows
<1> QED
  BY <1>2, <1>3, <1>4, <1>5, <1>6, <1>7, <1>8, <1>9
  DEF Next, Relayer, PoolStep, SentStep, Environment

LEMMA TraceMoves ==
  ASSUME TypeOK, PoolOnce, [Next]_vars, NEW j \in Jobs
  PROVE  Traced(j)' => Traced(j) \/ (Signs(j) /\ (PoolSendAccepted \/ PoolEnqueueSent))
<1> USE DEF queueVars, cacheVars, poolVars, sentVars, memVars, chainVars, auxVars,
        historyVars
<1> DEFINE Called == \E a \in mempool \cup mined : a.job = j
<1>1. ASSUME Called' => Called \/ InSent(j) \/ (Signs(j) /\ PoolSendAccepted)
      PROVE  Traced(j)' => Traced(j) \/ (Signs(j) /\ (PoolSendAccepted \/ PoolEnqueueSent))
  <2>1. PoolEnqueueSent => poolPc \in Signing
    BY DEF PoolEnqueueSent, Signing
  <2> QED
    BY <1>1, <2>1, SentMoves DEF Traced, Signs
<1>2. CASE PoolSendAccepted
  <2>1. mempool' \subseteq mempool \cup {attempt} /\ mined' = mined /\ poolPc \in Signing
    BY <1>2 DEF PoolSendAccepted, Held, Signing
  <2>2. attempt.job = poolJob
    BY <2>1 DEF PoolOnce
  <2> QED
    BY <1>1, <1>2, <2>1, <2>2 DEF Signs
<1>3. CASE SentResend
  <2>1. PICK p : mempool' = Held([job |-> sentJob.job, nonce |-> sentJob.nonce,
  price |-> p])
    BY <1>3 DEF SentResend
  <2>2. \A a \in mempool' : a \in mempool \/ a.job = sentJob.job
    BY <2>1 DEF Held
  <2>3. sentJob \in SentJobs /\ mined' = mined
    BY <1>3, NoSentAssumption DEF SentResend, SentJobs, TypeOK
  <2> QED
    BY <1>1, <2>2, <2>3 DEF InSent
<1>4. CASE Mine
  <2>1. PICK a \in mempool, ok \in BOOLEAN :
          /\ mempool' = mempool \ {a}
          /\ mined' = mined \cup {[job |-> a.job, nonce |-> a.nonce, price |-> a.price,
                                   ok |-> ok]}
    BY <1>4 DEF Mine
  <2> QED
    BY <1>1, <2>1
<1>5. ASSUME mempool' \subseteq mempool, mined' = mined PROVE Called' => Called
  BY <1>5
<1>6. CASE \/ \E k \in Jobs : Submit(k) \/ Observe(k)
           \/ \E k \in Nullifiers : ForeignSpend(k)
           \/ Drop \/ RunDry \/ TopUp \/ Crash \/ UNCHANGED vars
           \/ Resume \/ FundsCheckFails \/ PoolRedeliver \/ SentRedeliver
  BY <1>1, <1>5, <1>6 DEF Submit, Observe, ForeignSpend, Drop, RunDry, TopUp, Crash, vars,
     Resume, FundsCheckFails, PoolRedeliver, SentRedeliver
<1>7. CASE \/ PoolFetch \/ PoolValidate \/ PoolReject \/ PoolPrepare \/ PoolSendError
           \/ PoolSendNoFunds \/ PoolAddNullifier \/ PoolCacheTx \/ PoolThrows
           \/ PoolSaveSent \/ PoolEnqueueSent \/ PoolAck
  BY <1>1, <1>5, <1>7 DEF PoolFetch, PoolValidate, PoolReject, PoolPrepare, PoolSendError,
     PoolSendNoFunds, PoolAddNullifier, PoolCacheTx, PoolThrows, Abandon, PoolSaveSent,
     PoolEnqueueSent, PoolAck
<1>8. CASE \/ SentFetch \/ SentCheck \/ SentResendError \/ SentResendNoFunds \/ SentSave
           \/ SentConfirmed \/ SentRollback \/ SentReverted \/ SentAck \/ SentThrows
  BY <1>1, <1>5, <1>8 DEF SentFetch, SentCheck, SentResendError, SentResendNoFunds,
     SentSave,
     SentConfirmed, SentRollback, SentReverted, SentAck, SentThrows
<1> QED
  BY <1>2, <1>3, <1>4, <1>6, <1>7, <1>8 DEF Next, Relayer, PoolStep, SentStep, Environment
LEMMA PoolMoves ==
  ASSUME TypeOK, PoolOnce, PoolOnce', [Next]_vars, NEW j \in Jobs
  PROVE  /\ InPool(j)' => InPool(j) \/ Submit(j) \/ (Crash /\ poolJob = j)
         /\ (poolJob = j)' => poolJob = j \/ InPool(j)
         /\ Signs(j) => Signs(j)' \/ ~InPool(j)' \/ Crash
<1> USE DEF queueVars, cacheVars, poolVars, sentVars, memVars, chainVars, auxVars,
        historyVars
<1>0. NoJob \notin Jobs /\ poolQ \in Seq(Jobs) /\ poolStalled \subseteq Jobs
  BY PipelineAssumption DEF TypeOK
<1>1. CASE \E k \in Jobs : Submit(k)
  <2>1. PICK k \in Jobs : Submit(k)
    BY <1>1
  <2>2. ToSet(Append(poolQ, k)) = ToSet(poolQ) \cup {k}
    BY <1>0, AppendAsSet
  <2> QED
    BY <2>1, <2>2 DEF Submit, InPool, Signs
<1>2. CASE PoolFetch
  <2>1. ToSet(poolQ) = ToSet(poolQ') \cup {poolJob'}
    BY <1>0, <1>2, FetchAsSet DEF PoolFetch
  <2> QED
    BY <1>2, <2>1 DEF PoolFetch, InPool, Signs, Signing
<1>3. CASE PoolRedeliver
  <2>1. PICK k \in poolStalled : poolStalled' = poolStalled \ {k} /\ poolQ' = <<k>> \o poolQ
    BY <1>3 DEF PoolRedeliver
  <2>2. ToSet(<<k>> \o poolQ) = ToSet(poolQ) \cup {k}
    BY <1>0, PrependAsSet
  <2> QED
    BY <1>3, <2>1, <2>2 DEF PoolRedeliver, InPool, Signs
<1>4. CASE PoolAck \/ Crash
  BY <1>0, <1>4 DEF PoolAck, Crash, InPool, Signs, Signing
<1>5. CASE \/ PoolValidate \/ PoolReject \/ PoolPrepare \/ PoolSendAccepted
           \/ PoolSendError
           \/ PoolSendNoFunds \/ PoolAddNullifier \/ PoolCacheTx \/ PoolSaveSent
           \/ PoolThrows \/ PoolEnqueueSent
  BY <1>5 DEF PoolValidate, PoolReject, PoolPrepare, PoolSendAccepted, PoolSendError,
     PoolSendNoFunds, PoolAddNullifier, PoolCacheTx, PoolThrows, Abandon, PoolSaveSent,
     PoolEnqueueSent, InPool, Signs, Signing, PoolOnce
<1>6. ASSUME UNCHANGED <<poolQ, poolStalled, poolPc, poolJob>>
      PROVE  /\ InPool(j)' => InPool(j)
             /\ (poolJob = j)' => poolJob = j
             /\ Signs(j) => Signs(j)'
  BY <1>6 DEF InPool, Signs
<1>7. CASE \/ \E k \in Jobs : Observe(k)
           \/ \E k \in Nullifiers : ForeignSpend(k)
           \/ Mine \/ Drop \/ RunDry \/ TopUp \/ UNCHANGED vars \/ Resume
           \/ FundsCheckFails \/ SentRedeliver
  BY <1>6, <1>7 DEF Observe, ForeignSpend, Mine, Drop, RunDry, TopUp, vars, Resume,
     FundsCheckFails,
     SentRedeliver
<1>8. CASE SentStep
  BY <1>6, <1>8 DEF SentStep, SentFetch, SentCheck, SentResend, SentResendError,
     SentResendNoFunds, SentSave, SentConfirmed, SentRollback, SentReverted, SentAck,
     SentThrows
<1> QED
  BY <1>1, <1>2, <1>3, <1>4, <1>5, <1>7, <1>8 DEF Next, Relayer, PoolStep, Environment

(* Who tells a client what.                                                  *)
LEMMA StatusMoves ==
  ASSUME TypeOK, [Next]_vars, NEW j \in Jobs
  PROVE  \/ jobState'[j] = jobState[j]
         \/ Submit(j) /\ jobState'[j] = "waiting"
         \/ PoolReject /\ poolJob = j /\ jobState'[j] = "failed"
         \/ PoolSaveSent /\ poolJob = j /\ jobState'[j] = "sent"
         \/ /\ SentConfirmed \/ SentReverted
            /\ sentJob.job = j /\ jobState'[j] \in {"completed", "reverted"}
<1> USE DEF queueVars, cacheVars, poolVars, sentVars, memVars, chainVars, auxVars,
        historyVars
<1>0. jobState \in [Jobs -> JobState]
  BY DEF TypeOK
<1>1. CASE \/ \E k \in Jobs : Submit(k)
           \/ PoolReject \/ PoolSaveSent \/ SentConfirmed \/ SentReverted
  BY <1>0, <1>1 DEF Submit, PoolReject, PoolSaveSent, SentConfirmed, SentReverted
<1>2. CASE \/ \E k \in Jobs : Observe(k)
           \/ \E k \in Nullifiers : ForeignSpend(k)
           \/ Mine \/ Drop \/ RunDry \/ TopUp \/ Crash \/ UNCHANGED vars \/ Resume
           \/ FundsCheckFails
           \/ PoolRedeliver \/ SentRedeliver
  BY <1>2 DEF Observe, ForeignSpend, Mine, Drop, RunDry, TopUp, Crash, vars, Resume,
     FundsCheckFails,
     PoolRedeliver, SentRedeliver
<1>3. CASE \/ PoolFetch \/ PoolValidate \/ PoolPrepare \/ PoolSendAccepted \/ PoolSendError
           \/ PoolSendNoFunds \/ PoolAddNullifier \/ PoolCacheTx \/ PoolThrows
           \/ PoolEnqueueSent \/ PoolAck
  BY <1>3 DEF PoolFetch, PoolValidate, PoolPrepare, PoolSendAccepted, PoolSendError,
     PoolSendNoFunds, PoolAddNullifier, PoolCacheTx, PoolThrows, Abandon,
     PoolEnqueueSent, PoolAck
<1>4. CASE \/ SentFetch \/ SentCheck \/ SentResend \/ SentResendError \/ SentResendNoFunds
           \/ SentSave \/ SentRollback \/ SentAck \/ SentThrows
  BY <1>4 DEF SentFetch, SentCheck, SentResend, SentResendError, SentResendNoFunds,
     SentSave,
     SentRollback, SentAck, SentThrows
<1> QED
  BY <1>1, <1>2, <1>3, <1>4 DEF Next, Relayer, PoolStep, SentStep, Environment

(* The sent worker comes to an end of a job only by telling its outcome.     *)
LEMMA EndMoves ==
  ASSUME TypeOK, [Next]_vars, sentPc' = "ack"
  PROVE  /\ sentJob' = sentJob
         /\ sentPc = "ack" \/ SentConfirmed \/ SentReverted
<1> USE DEF queueVars, cacheVars, poolVars, sentVars, memVars, chainVars, auxVars,
        historyVars
<1>1. CASE SentStep
  BY <1>1 DEF SentStep, SentFetch, SentCheck, SentResend, SentResendError,
     SentResendNoFunds, SentSave, SentConfirmed, SentRollback, SentReverted, SentAck,
     SentThrows
<1>2. CASE PoolStep
  BY <1>2 DEF PoolStep, PoolFetch, PoolValidate, PoolReject, PoolPrepare, PoolSendAccepted,
     PoolSendError, PoolSendNoFunds, PoolAddNullifier, PoolCacheTx, PoolThrows, Abandon,
     PoolSaveSent, PoolEnqueueSent, PoolAck
<1>3. CASE \/ \E k \in Jobs : Submit(k) \/ Observe(k)
           \/ \E k \in Nullifiers : ForeignSpend(k)
           \/ Mine \/ Drop \/ RunDry \/ TopUp \/ Crash \/ UNCHANGED vars \/ Resume
           \/ FundsCheckFails
           \/ PoolRedeliver \/ SentRedeliver
  BY <1>3 DEF Submit, Observe, ForeignSpend, Mine, Drop, RunDry, TopUp, Crash, vars,
     Resume, FundsCheckFails,
     PoolRedeliver, SentRedeliver
<1> QED
  BY <1>1, <1>2, <1>3 DEF Next, Relayer, Environment

LEMMA UnknownKept ==
  ASSUME TypeOK, PoolOnce, PoolOnce', Unknown, [Next]_vars PROVE Unknown'
<1> SUFFICES ASSUME NEW j \in Jobs, jobState'[j] = "none"
             PROVE  ~InPool(j)' /\ poolJob' # j /\ ~Traced(j)'
  BY DEF Unknown
<1>1. jobState[j] = "none"
  BY StatusMoves
<1>2. ~InPool(j) /\ poolJob # j /\ ~Traced(j)
  BY <1>1 DEF Unknown
<1>3. ~Submit(j)
  BY StatusMoves DEF Submit, TypeOK
<1> QED
  BY <1>2, <1>3, PoolMoves, TraceMoves DEF Signs

(* What the worker has signed is its own, and it keeps it to the end.        *)
LEMMA AckMoves ==
  ASSUME TypeOK, [Next]_vars, poolPc' = "ack"
  PROVE  poolPc # "idle" /\ poolJob' = poolJob /\ attempt' = attempt
<1> USE DEF queueVars, cacheVars, poolVars, sentVars, memVars, chainVars, auxVars,
        historyVars
<1>1. CASE SentStep
  BY <1>1 DEF SentStep, SentFetch, SentCheck, SentResend, SentResendError,
     SentResendNoFunds, SentSave, SentConfirmed, SentRollback, SentReverted, SentAck,
     SentThrows
<1>2. CASE PoolThrows
  BY <1>2, PipelineAssumption DEF PoolThrows, Abandon
<1>3. CASE PoolStep /\ ~PoolThrows
  BY <1>3 DEF PoolStep, PoolFetch, PoolValidate, PoolReject, PoolPrepare, PoolSendAccepted,
     PoolSendError, PoolSendNoFunds, PoolAddNullifier, PoolCacheTx, PoolSaveSent,
     PoolEnqueueSent, PoolAck
<1>4. CASE \/ \E j \in Jobs : Submit(j) \/ Observe(j)
           \/ \E k \in Nullifiers : ForeignSpend(k)
           \/ Mine \/ Drop \/ RunDry \/ TopUp \/ Crash \/ UNCHANGED vars
           \/ Resume \/ FundsCheckFails \/ PoolRedeliver \/ SentRedeliver
  BY <1>4 DEF Submit, Observe, ForeignSpend, Mine, Drop, RunDry, TopUp, Crash, vars,
     Resume, FundsCheckFails, PoolRedeliver, SentRedeliver
<1> QED
  BY <1>1, <1>2, <1>3, <1>4 DEF Next, Relayer, Environment

(* The pool worker comes to a job by the queue only, and a signed job it     *)
(* keeps until it hands it on, or a crash interrupts it.                     *)
LEMMA WorkMoves ==
  ASSUME TypeOK, PoolOnce, PoolOnce', [Next]_vars, NEW j \in Jobs, j \notin interrupted'
  PROVE  /\ AtWork(j)' => AtWork(j) \/ Submit(j)
         /\ Signs(j) => AtWork(j) /\ (AtWork(j)' => Signs(j)')
         /\ InPool(j)' => InPool(j) \/ Submit(j) \/ (Crash /\ poolJob = j /\ poolPc = "ack")
<1>1. poolJob = j => poolPc # "idle"
  BY PipelineAssumption DEF TypeOK
<1>2. Crash /\ poolJob = j => attempt = NoAttempt
  BY Recorded
<1>3. Signs(j) => attempt # NoAttempt /\ InPool(j)
  BY Unsigned DEF Signs, InPool, Signing, TypeOK
<1>4. InPool(j)' => InPool(j) \/ Submit(j) \/ (Crash /\ poolJob = j /\ poolPc = "ack")
  BY <1>1, PoolMoves DEF InPool
<1>5. ASSUME (poolJob = j /\ poolPc = "ack" /\ attempt = NoAttempt)'
      PROVE  AtWork(j) /\ ~Signs(j)
  <2>1. poolPc # "idle" /\ poolJob = j /\ attempt = NoAttempt
    BY <1>5, AckMoves
  <2> QED
    BY <1>3, <2>1 DEF AtWork, InPool
<1>6. AtWork(j)' => AtWork(j) \/ Submit(j)
  BY <1>2, <1>4, <1>5 DEF AtWork
<1>7. Signs(j) => AtWork(j) /\ (AtWork(j)' => Signs(j)')
  <2>1. Signs(j) => ~Crash
    BY <1>2, <1>3 DEF Signs
  <2>2. Signs(j) /\ InPool(j)' => Signs(j)'
    BY <2>1, PoolMoves
  <2> QED
    BY <1>3, <1>5, <2>2 DEF AtWork
<1> QED
  BY <1>4, <1>6, <1>7

LEMMA FreshKept ==
  ASSUME TypeOK, PoolOnce, PoolOnce', Unknown, Fresh, [Next]_vars
  PROVE  Fresh'
<1>0. [Next]_vars
  BY Recorded
<1> SUFFICES ASSUME NEW j \in Jobs, j \notin interrupted'
    PROVE  /\ AtWork(j)' => jobState'[j] \in {"waiting", "sent", "failed"} /\ ~InSent(j)'
           /\ AtWork(j)' /\ Traced(j)' => Signs(j)'
           /\ jobState'[j] = "failed" /\ InPool(j)' => j \in unacked'
           /\ jobState'[j] = "failed" /\ j \notin unacked' => ~Traced(j)'
           /\ sentPc' = "ack" /\ sentJob'.job = j =>
                jobState'[j] \in {"completed", "reverted"}
  BY DEF Fresh
<1>1. /\ AtWork(j) => jobState[j] \in {"waiting", "sent", "failed"} /\ ~InSent(j)
      /\ AtWork(j) /\ Traced(j) => Signs(j)
      /\ jobState[j] = "failed" /\ InPool(j) => j \in unacked
      /\ jobState[j] = "failed" /\ j \notin unacked => ~Traced(j)
      /\ sentPc = "ack" /\ sentJob.job = j => jobState[j] \in {"completed", "reverted"}
  BY Recorded DEF Fresh
<1>2. sentPc # "idle" /\ sentJob.job = j => InSent(j)
  BY NoSentAssumption DEF InSent, SentJobs, TypeOK
<1>3. /\ j \in unacked => j \in unacked'
      /\ AtWork(j)' => AtWork(j) \/ Submit(j)
      /\ Signs(j) => InPool(j) /\ AtWork(j) /\ (AtWork(j)' => Signs(j)')
      /\ InPool(j)' => InPool(j) \/ Submit(j) \/ (Crash /\ poolJob = j /\ poolPc = "ack")
      /\ InPool(j) => AtWork(j)
  BY <1>0, WorkMoves, Recorded DEF Signs, InPool, Signing, AtWork
<1>4. PoolReject \/ PoolSaveSent \/ PoolEnqueueSent =>
        /\ poolJob = j => InPool(j) /\ ~InSent(j)
        /\ PoolReject \/ PoolEnqueueSent => (poolJob = j => ~InPool(j)')
        /\ PoolReject => ~Signs(j)
        /\ PoolEnqueueSent /\ poolJob = j => Signs(j) /\ ~Signs(j)'
  <2>1. PoolReject \/ PoolEnqueueSent => poolPc' = "ack" /\ poolJob' = poolJob
    BY DEF PoolReject, PoolEnqueueSent
  <2> QED
    BY <1>1, <1>3, <2>1 DEF PoolReject, PoolSaveSent, PoolEnqueueSent, InPool, Signs, Signing,
       PoolOnce
<1>5. CASE Submit(j)
  <2>1. ~InPool(j) /\ poolJob # j /\ ~Traced(j)
    BY <1>5 DEF Submit, Unknown
  <2>2. ~Traced(j)'
    BY <1>0, <2>1, TraceMoves DEF Signs
  <2>3. ~InSent(j)' /\ ~InSent(j)
    BY <2>1, <2>2 DEF Traced
  <2>4. jobState'[j] = "waiting" /\ UNCHANGED <<sentPc, sentJob>>
    BY <1>5 DEF Submit, TypeOK, sentVars
  <2> QED
    BY <1>2, <2>2, <2>3, <2>4
<1>6. CASE ~Submit(j)
  <2>1. AtWork(j)' => jobState'[j] \in {"waiting", "sent", "failed"} /\ ~InSent(j)'
    <3>1. SentConfirmed \/ SentReverted => sentPc # "idle"
      BY DEF SentConfirmed, SentReverted
    <3> QED
      BY <1>0, <1>1, <1>2, <1>3, <1>4, <1>6, <3>1, StatusMoves, SentMoves
  <2>2. AtWork(j)' /\ Traced(j)' => Signs(j)'
    BY <1>0, <1>1, <1>3, <1>6, TraceMoves
  <2>3. ASSUME jobState'[j] = "failed", InPool(j)' PROVE j \in unacked'
    <3>1. jobState[j] = "failed"
      BY <1>0, <1>4, <1>6, <2>3, StatusMoves
    <3>2. CASE InPool(j)
      BY <1>1, <1>3, <3>1, <3>2
    <3>3. CASE Crash /\ poolJob = j /\ poolPc = "ack"
      <4>1. Refused
        BY <3>1, <3>3, Recorded DEF Refused
      <4> QED
        BY <3>3, <4>1, Recorded
    <3> QED
      BY <1>3, <1>6, <2>3, <3>2, <3>3
  <2>4. jobState'[j] = "failed" /\ j \notin unacked' => ~Traced(j)'
    BY <1>0, <1>1, <1>3, <1>4, <1>6, StatusMoves, TraceMoves
  <2>5. ASSUME sentPc' = "ack", sentJob'.job = j
        PROVE  jobState'[j] \in {"completed", "reverted"}
    <3>1. sentJob' = sentJob /\ (sentPc = "ack" \/ SentConfirmed \/ SentReverted)
      BY <1>0, <2>5, EndMoves
    <3>2. CASE SentConfirmed \/ SentReverted
      BY <2>5, <3>1, <3>2 DEF SentConfirmed, SentReverted, TypeOK
    <3>3. CASE sentPc = "ack"
      <4>1. InSent(j) /\ jobState[j] \in {"completed", "reverted"}
        BY <1>1, <1>2, <2>5, <3>1, <3>3
      <4> QED
        BY <1>0, <1>4, <1>6, <4>1, StatusMoves
    <3> QED
      BY <3>1, <3>2, <3>3
  <2> QED
    BY <2>1, <2>2, <2>3, <2>4, <2>5
<1> QED
  BY <1>5, <1>6
-----------------------------------------------------------------------------
(* Once the relayer knows an attempt's hash, it goes on knowing it, or the   *)
(* history records its loss, or the sent worker is done with its job.        *)
LEMMA RemembersKept ==
  ASSUME TypeOK, PoolOnce, [Next]_vars,
         NEW a \in Attempt \cup Receipt, Remembers(a)
  PROVE  \/ Remembers(a)' \/ Signed(a) \in forgotten'
         \/ SentAck /\ sentJob.job = a.job /\ sentJob.nonce = a.nonce
<1> USE DEF queueVars, cacheVars, poolVars, sentVars, memVars, chainVars, auxVars,
        historyVars
<1>0. /\ [Next]_vars
      /\ sentQ \in Seq(SentJob) /\ sentStalled \subseteq SentJob
      /\ a.job \in Jobs /\ a.nonce \in Nat /\ a.price \in Prices
  BY Recorded DEF TypeOK, Attempt, Receipt
<1> DEFINE InHand  == PoolOwns(a.nonce) /\ attempt.job = a.job /\ attempt.price = a.price
           Polled  == sentPc # "idle" /\ sentJob.job = a.job /\ sentJob.nonce = a.nonce
                        /\ a.price \in known
           Lists(s) == s.job = a.job /\ s.nonce = a.nonce /\ a.price \in s.prices
           Queued  == \E s \in ToSet(sentQ) : Lists(s)
           Stalled == \E s \in sentStalled : Lists(s)
<1>1. /\ Remembers(a) <=> InHand \/ Polled \/ Queued \/ Stalled
      /\ Remembers(a)' <=> (InHand \/ Polled \/ Queued \/ Stalled)'
  BY DEF Remembers, Tracks
<1>2. CASE InHand
  <2>1. poolPc \in Signing /\ attempt = Signed(a)
    BY <1>2 DEF PoolOwns, Signing, Signed, TypeOK, Attempt
  <2>2. CASE PoolEnqueueSent
    <3> DEFINE s == [job |-> poolJob, nonce |-> attempt.nonce, prices |-> {attempt.price}]
    <3>1. s \in SentJob
      BY <2>1, <2>2 DEF PoolEnqueueSent, TypeOK, SentJob, Attempt
    <3>2. Lists(s) /\ sentQ' = Append(sentQ, s)
      BY <1>2, <2>1, <2>2 DEF PoolOnce, PoolOwns, PoolEnqueueSent
    <3> HIDE DEF s
    <3>3. s \in ToSet(sentQ')
      <4>1. ToSet(Append(sentQ, s)) = ToSet(sentQ) \cup {s}
        BY <1>0, <3>1, AppendAsSet
      <4> QED
        BY <3>2, <4>1
    <3> QED
      BY <1>1, <3>2, <3>3
  <2>3. CASE PoolThrows \/ Crash
    BY <2>1, <2>3, Recorded DEF Unqueued
  <2>4. ASSUME UNCHANGED attempt, poolPc' \in Signing PROVE Remembers(a)'
    BY <1>1, <1>2, <2>4 DEF PoolOwns, Signing
  <2>5. CASE \/ PoolFetch \/ PoolValidate \/ PoolReject \/ PoolPrepare \/ PoolSendAccepted
             \/ PoolSendError \/ PoolSendNoFunds \/ PoolAddNullifier \/ PoolCacheTx
             \/ PoolSaveSent \/ PoolAck
    BY <2>1, <2>4, <2>5 DEF PoolFetch, PoolValidate, PoolReject, PoolPrepare,
       PoolSendAccepted, PoolSendError, PoolSendNoFunds, PoolAddNullifier, PoolCacheTx,
       PoolSaveSent, PoolAck, Signing
  <2>6. CASE SentStep
    BY <2>1, <2>4, <2>6 DEF SentStep, SentFetch, SentCheck, SentResend, SentResendError,
       SentResendNoFunds, SentSave, SentConfirmed, SentRollback, SentReverted, SentAck,
       SentThrows
  <2>7. CASE \/ \E j \in Jobs : Submit(j) \/ Observe(j)
             \/ \E k \in Nullifiers : ForeignSpend(k)
             \/ Mine \/ Drop \/ RunDry \/ TopUp \/ UNCHANGED vars
             \/ Resume \/ FundsCheckFails \/ PoolRedeliver \/ SentRedeliver
    BY <2>1, <2>4, <2>7 DEF Submit, Observe, ForeignSpend, Mine, Drop, RunDry, TopUp, vars,
       Resume, FundsCheckFails, PoolRedeliver, SentRedeliver
  <2> QED
    BY <1>0, <2>2, <2>3, <2>5, <2>6, <2>7 DEF Next, Relayer, PoolStep, Environment
<1>3. CASE Polled
  <2>1. sentJob \in SentJob /\ sentJob # NoSent
    BY <1>3, NoSentAssumption DEF TypeOK
  <2>2. CASE SentAck
    BY <1>3, <2>2
  <2>3. CASE Crash
    <3>1. CASE a.price \in sentJob.prices
      <4>1. Lists(sentJob) /\ sentJob \in sentStalled'
        BY <1>3, <2>1, <2>3, <3>1 DEF Crash
      <4> QED
        BY <1>1, <4>1
    <3>2. CASE a.price \notin sentJob.prices
      <4>1. Signed(a) \in Unsaved
        BY <1>3, <3>2 DEF Unsaved, Signed
      <4> QED
        BY <2>3, <4>1, Recorded
    <3> QED
      BY <3>1, <3>2
  <2>4. CASE SentSave
    <3>1. sentJob'.job = sentJob.job /\ sentJob'.nonce = sentJob.nonce
      BY <2>1, <2>4 DEF SentSave, SentJob
    <3> QED
      BY <1>1, <1>3, <2>4, <3>1 DEF SentSave
  <2>5. ASSUME UNCHANGED sentJob, known \subseteq known', sentPc' # "idle"
        PROVE  Remembers(a)'
    BY <1>1, <1>3, <2>5
  <2>6. CASE \/ SentFetch \/ SentCheck \/ SentResend \/ SentResendError
             \/ SentResendNoFunds
             \/ SentConfirmed \/ SentRollback \/ SentReverted \/ SentThrows
    BY <1>3, <2>5, <2>6 DEF SentFetch, SentCheck, SentResend, SentResendError,
       SentResendNoFunds, SentConfirmed, SentRollback, SentReverted, SentThrows
  <2>7. CASE PoolStep
    BY <1>3, <2>5, <2>7 DEF PoolStep, PoolFetch, PoolValidate, PoolReject, PoolPrepare,
       PoolSendAccepted, PoolSendError, PoolSendNoFunds, PoolAddNullifier, PoolCacheTx,
       PoolThrows, Abandon, PoolSaveSent, PoolEnqueueSent, PoolAck
  <2>8. CASE \/ \E j \in Jobs : Submit(j) \/ Observe(j)
             \/ \E k \in Nullifiers : ForeignSpend(k)
             \/ Mine \/ Drop \/ RunDry \/ TopUp \/ UNCHANGED vars
             \/ Resume \/ FundsCheckFails \/ PoolRedeliver \/ SentRedeliver
    BY <1>3, <2>5, <2>8 DEF Submit, Observe, ForeignSpend, Mine, Drop, RunDry, TopUp, vars,
       Resume, FundsCheckFails, PoolRedeliver, SentRedeliver
  <2> QED
    BY <1>0, <2>2, <2>3, <2>4, <2>6, <2>7, <2>8 DEF Next, Relayer, SentStep, Environment
<1>4. CASE Queued \/ Stalled
  <2>1. ASSUME ToSet(sentQ) \cup sentStalled \subseteq ToSet(sentQ') \cup sentStalled'
        PROVE  Remembers(a)'
    BY <1>1, <1>4, <2>1
  <2>2. CASE SentFetch
    <3>1. ToSet(sentQ) = ToSet(sentQ') \cup {sentJob'} /\ known' = sentJob'.prices
      BY <1>0, <2>2, FetchAsSet DEF SentFetch
    <3> QED
      BY <1>1, <1>4, <2>2, <3>1 DEF SentFetch
  <2>3. CASE SentRedeliver
    <3>1. PICK s \in sentStalled :
            sentStalled' = sentStalled \ {s} /\ sentQ' = <<s>> \o sentQ
      BY <2>3 DEF SentRedeliver
    <3>2. ToSet(<<s>> \o sentQ) = ToSet(sentQ) \cup {s}
      BY <1>0, PrependAsSet
    <3> QED
      BY <2>1, <3>1, <3>2
  <2>4. CASE PoolEnqueueSent
    <3> DEFINE s == [job |-> poolJob, nonce |-> attempt.nonce, prices |-> {attempt.price}]
    <3>1. s \in SentJob
      BY <2>4 DEF PoolEnqueueSent, TypeOK, Signing, SentJob, Attempt
    <3>2. sentQ' = Append(sentQ, s)
      BY <2>4 DEF PoolEnqueueSent
    <3> HIDE DEF s
    <3>3. ToSet(Append(sentQ, s)) = ToSet(sentQ) \cup {s}
      BY <1>0, <3>1, AppendAsSet
    <3> QED
      BY <2>1, <2>4, <3>2, <3>3 DEF PoolEnqueueSent
  <2>5. CASE \/ SentCheck \/ SentResend \/ SentResendError \/ SentResendNoFunds \/ SentSave
             \/ SentConfirmed \/ SentRollback \/ SentReverted \/ SentAck \/ SentThrows
    BY <2>1, <2>5 DEF SentCheck, SentResend, SentResendError, SentResendNoFunds, SentSave,
       SentConfirmed, SentRollback, SentReverted, SentAck, SentThrows
  <2>6. CASE \/ PoolFetch \/ PoolValidate \/ PoolReject \/ PoolPrepare \/ PoolSendAccepted
             \/ PoolSendError \/ PoolSendNoFunds \/ PoolAddNullifier \/ PoolCacheTx
             \/ PoolThrows \/ PoolSaveSent \/ PoolAck
    BY <2>1, <2>6 DEF PoolFetch, PoolValidate, PoolReject, PoolPrepare, PoolSendAccepted,
       PoolSendError, PoolSendNoFunds, PoolAddNullifier, PoolCacheTx, PoolThrows, Abandon,
       PoolSaveSent, PoolAck
  <2>7. CASE \/ \E j \in Jobs : Submit(j) \/ Observe(j)
             \/ \E k \in Nullifiers : ForeignSpend(k)
             \/ Mine \/ Drop \/ RunDry \/ TopUp \/ Crash \/ UNCHANGED vars
             \/ Resume \/ FundsCheckFails \/ PoolRedeliver
    BY <2>1, <2>7 DEF Submit, Observe, ForeignSpend, Mine, Drop, RunDry, TopUp, Crash,
       vars, Resume, FundsCheckFails, PoolRedeliver
  <2> QED
    BY <1>0, <2>2, <2>3, <2>4, <2>5, <2>6, <2>7
    DEF Next, Relayer, PoolStep, SentStep, Environment
<1> QED
  BY <1>1, <1>2, <1>3, <1>4

(* What the node and the chain may hold after a step: what they held, and    *)
(* attempts a worker knows.                                                  *)
LEMMA ChainMoves ==
  ASSUME TypeOK, PoolOnce, [Next]_vars
  PROVE  /\ \A a \in mempool' : a \in mempool \/ Remembers(a)'
         /\ \A m \in mined' : m \in mined \/ (Mine /\ Signed(m) \in mempool)
<1> USE DEF queueVars, cacheVars, poolVars, sentVars, memVars, chainVars, auxVars,
        historyVars
<1>1. CASE PoolSendAccepted
  <2>1. mempool' \subseteq mempool \cup {attempt} /\ mined' = mined
    BY <1>1 DEF PoolSendAccepted, Held
  <2>2. Tracks(attempt)'
    BY <1>1 DEF PoolSendAccepted, Tracks, PoolOwns, Signing
  <2> QED
    BY <1>1, <2>1, <2>2 DEF Remembers, PoolSendAccepted
<1>2. CASE SentResend
  <2>1. PICK p \in Bumped(known) :
          /\ mempool' = Held([job |-> sentJob.job, nonce |-> sentJob.nonce, price |-> p])
          /\ known' = known \cup {p}
    BY <1>2 DEF SentResend
  <2> PICK a : a = [job |-> sentJob.job, nonce |-> sentJob.nonce, price |-> p]
    OBVIOUS
  <2>2. mempool' \subseteq mempool \cup {a} /\ mined' = mined
    BY <1>2, <2>1 DEF SentResend, Held
  <2>3. Remembers(a)'
    BY <1>2, <2>1 DEF SentResend, Remembers, Tracks
  <2> QED
    BY <2>2, <2>3
<1>3. CASE Mine
  <2>1. PICK a \in mempool, ok \in BOOLEAN :
          /\ mempool' = mempool \ {a}
          /\ mined' = mined \cup {[job |-> a.job, nonce |-> a.nonce, price |-> a.price,
                                   ok |-> ok]}
    BY <1>3 DEF Mine
  <2>2. Signed([job |-> a.job, nonce |-> a.nonce, price |-> a.price, ok |-> ok]) = a
    BY DEF Signed, TypeOK, Attempt
  <2> QED
    BY <1>3, <2>1, <2>2
<1>4. ASSUME mempool' \subseteq mempool, mined' = mined
      PROVE  /\ \A a \in mempool' : a \in mempool
             /\ \A m \in mined' : m \in mined
  BY <1>4
<1>5. CASE \/ \E k \in Jobs : Submit(k) \/ Observe(k)
           \/ \E k \in Nullifiers : ForeignSpend(k)
           \/ Drop \/ RunDry \/ TopUp \/ Crash \/ UNCHANGED vars
           \/ Resume \/ FundsCheckFails \/ PoolRedeliver \/ SentRedeliver
  BY <1>4, <1>5 DEF Submit, Observe, ForeignSpend, Drop, RunDry, TopUp, Crash, vars,
     Resume, FundsCheckFails, PoolRedeliver, SentRedeliver
<1>6. CASE \/ PoolFetch \/ PoolValidate \/ PoolReject \/ PoolPrepare \/ PoolSendError
           \/ PoolSendNoFunds \/ PoolAddNullifier \/ PoolCacheTx \/ PoolThrows
           \/ PoolSaveSent \/ PoolEnqueueSent \/ PoolAck
  BY <1>4, <1>6 DEF PoolFetch, PoolValidate, PoolReject, PoolPrepare, PoolSendError,
     PoolSendNoFunds, PoolAddNullifier, PoolCacheTx, PoolThrows, Abandon, PoolSaveSent,
     PoolEnqueueSent, PoolAck
<1>7. CASE \/ SentFetch \/ SentCheck \/ SentResendError \/ SentResendNoFunds \/ SentSave
           \/ SentConfirmed \/ SentRollback \/ SentReverted \/ SentAck \/ SentThrows
  BY <1>4, <1>7 DEF SentFetch, SentCheck, SentResendError, SentResendNoFunds, SentSave,
     SentConfirmed, SentRollback, SentReverted, SentAck, SentThrows
<1> QED
  BY <1>1, <1>2, <1>3, <1>5, <1>6, <1>7 DEF Next, Relayer, PoolStep, SentStep, Environment

LEMMA MemoryKept ==
  ASSUME TypeOK, PoolOnce, ChainOrder, Executed, Fresh, NothingElseForgotten,
         [Next]_vars
  PROVE  NothingElseForgotten'
<1>0. [Next]_vars
  BY Recorded
<1>1. ASSUME NEW a \in mempool' PROVE Remembers(a)' \/ a \in forgotten'
  <2>1. CASE a \notin mempool
    BY <1>0, <2>1, ChainMoves
  <2>2. CASE a \in mempool
    <3>1. a \in Attempt /\ Signed(a) = a
      BY <2>2 DEF TypeOK, Attempt, Signed
    <3>2. CASE a \in forgotten
      BY <3>2, Recorded
    <3>3. CASE Remembers(a)
      <4>1. ~(SentAck /\ sentJob.nonce = a.nonce)
        <5> SUFFICES ASSUME SentAck, sentJob.nonce = a.nonce PROVE FALSE
          OBVIOUS
        <5>1. PICK m \in mined : m.nonce = a.nonce
          BY DEF SentAck, Executed
        <5>2. m.nonce \in Nat /\ chainNonce \in Nat
          BY DEF TypeOK, Receipt
        <5> QED
          BY <2>2, <5>1, <5>2 DEF ChainOrder
      <4> QED
        BY <3>1, <3>3, <4>1, RemembersKept
    <3> QED
      BY <2>2, <3>2, <3>3 DEF NothingElseForgotten
  <2> QED
    BY <2>1, <2>2
<1>2. ASSUME NEW m \in mined'
      PROVE  \/ Remembers(m)' \/ Signed(m) \in forgotten'
             \/ jobState'[m.job] \in {"completed", "reverted"}
             \/ m.job \in interrupted'
  <2>1. CASE m \notin mined
    <3>1. Mine /\ Signed(m) \in mempool
      BY <1>0, <2>1, ChainMoves
    <3>2. CASE Signed(m) \in forgotten
      BY <3>2, Recorded
    <3>3. CASE Remembers(Signed(m))
      <4>1. Remembers(m)
        BY <3>3 DEF Remembers, Tracks, Signed
      <4>2. Remembers(m)'
        BY <3>1, <4>1 DEF Mine, Remembers, Tracks, PoolOwns, queueVars, poolVars, sentVars
      <4> QED
        BY <4>2
    <3> QED
      BY <3>1, <3>2, <3>3 DEF NothingElseForgotten
  <2>2. CASE m \in mined
    <3>1. m \in Receipt /\ m.job \in Jobs
      BY <2>2 DEF TypeOK, Receipt
    <3>2. CASE Signed(m) \in forgotten \/ m.job \in interrupted
      BY <3>2, Recorded
    <3>3. CASE m.job \notin interrupted' /\ jobState[m.job] \in {"completed", "reverted"}
      <4>1. m.job \notin interrupted
        BY <3>3, Recorded
      <4>2. ~(PoolReject \/ PoolSaveSent) \/ poolJob # m.job
        <5>1. (PoolReject \/ PoolSaveSent) /\ poolJob = m.job => InPool(m.job)
          BY DEF PoolReject, PoolSaveSent, InPool
        <5> QED
          BY <3>1, <3>3, <4>1, <5>1 DEF Fresh, AtWork
      <4>3. ~Submit(m.job)
        BY <3>3 DEF Submit
      <4> QED
        BY <1>0, <3>1, <3>3, <4>2, <4>3, StatusMoves
    <3>4. CASE Remembers(m)
      <4>1. CASE SentAck /\ sentJob.job = m.job /\ m.job \notin interrupted'
        <5>1. jobState[m.job] \in {"completed", "reverted"}
          BY <3>1, <4>1, Recorded DEF Fresh, SentAck
        <5> QED
          BY <4>1, <5>1 DEF SentAck, queueVars
      <4> QED
        BY <3>1, <3>4, <4>1, RemembersKept
    <3> QED
      BY <2>2, <3>2, <3>3, <3>4 DEF NothingElseForgotten
  <2> QED
    BY <2>1, <2>2
<1> QED
  BY <1>1, <1>2 DEF NothingElseForgotten

-----------------------------------------------------------------------------
(* A job that no crash interrupted has one nonce for all its traces, and the *)
(* chain executes a nonce once: so it has one receipt.                       *)
Bears(j, n) ==
  \/ \E a \in mempool \cup mined : a.job = j /\ a.nonce = n
  \/ \E s \in SentJobs : s.job = j /\ s.nonce = n
  \/ Signs(j) /\ attempt.nonce = n
OneNonce ==
  \A j \in Jobs \ interrupted : \A n, k \in Nat : Bears(j, n) /\ Bears(j, k) => n = k
MinedOnce == \A m, n \in mined : m.nonce = n.nonce => m = n

LEMMA MinedOnceKept ==
  ASSUME TypeOK, ChainOrder, MinedOnce, [Next]_vars PROVE MinedOnce'
<1>1. CASE Mine
  <2>1. PICK a \in mempool, ok \in BOOLEAN :
          /\ a.nonce = chainNonce
          /\ mined' = mined \cup {[job |-> a.job, nonce |-> a.nonce, price |-> a.price,
                                   ok |-> ok]}
    BY <1>1 DEF Mine
  <2>2. \A m \in mined : m.nonce # chainNonce
    BY DEF ChainOrder, TypeOK, Receipt
  <2> QED
    BY <2>1, <2>2 DEF MinedOnce
<1>2. CASE ~Mine
  <2>1. mined' = mined
    BY <1>2 DEF Next, Relayer, PoolStep, SentStep, Environment, vars, Submit, Observe,
       ForeignSpend, Drop, RunDry, TopUp, Crash, Resume, FundsCheckFails, PoolRedeliver,
       SentRedeliver,
       PoolFetch, PoolValidate, PoolReject, PoolPrepare, PoolSendAccepted, PoolSendError,
       PoolSendNoFunds, PoolAddNullifier, PoolCacheTx, PoolThrows, Abandon, PoolSaveSent,
       PoolEnqueueSent, PoolAck, SentFetch, SentCheck, SentResend, SentResendError,
       SentResendNoFunds, SentSave, SentConfirmed, SentRollback, SentReverted, SentAck,
       SentThrows,
       chainVars
  <2> QED
    BY <2>1 DEF MinedOnce
<1> QED
  BY <1>1, <1>2

(* A job gets a nonce from the pool worker's preparation and nowhere else.   *)
LEMMA SentBears ==
  ASSUME TypeOK, [Next]_vars, NEW s \in SentJobs'
  PROVE  \/ \E t \in SentJobs : t.job = s.job /\ t.nonce = s.nonce
         \/ /\ PoolEnqueueSent /\ poolPc \in Signing
            /\ s.job = poolJob /\ s.nonce = attempt.nonce
<1> USE DEF queueVars, cacheVars, poolVars, sentVars, memVars, chainVars, auxVars,
        historyVars
<1>0. sentQ \in Seq(SentJob)
  BY DEF TypeOK
<1>1. ASSUME UNCHANGED <<sentQ, sentStalled, sentJob>> PROVE s \in SentJobs
  BY <1>1 DEF SentJobs
<1>2. CASE \/ \E k \in Jobs : Submit(k) \/ Observe(k)
           \/ \E k \in Nullifiers : ForeignSpend(k)
           \/ Mine \/ Drop \/ RunDry \/ TopUp \/ UNCHANGED vars \/ Resume
           \/ FundsCheckFails \/ PoolRedeliver
  BY <1>1, <1>2 DEF Submit, Observe, ForeignSpend, Mine, Drop, RunDry, TopUp, vars,
     Resume, FundsCheckFails,
     PoolRedeliver
<1>3. CASE \/ PoolFetch \/ PoolValidate \/ PoolReject \/ PoolPrepare \/ PoolSendAccepted
           \/ PoolSendError \/ PoolSendNoFunds \/ PoolAddNullifier \/ PoolCacheTx
           \/ PoolThrows \/ PoolSaveSent \/ PoolAck
  BY <1>1, <1>3 DEF PoolFetch, PoolValidate, PoolReject, PoolPrepare, PoolSendAccepted,
     PoolSendError, PoolSendNoFunds, PoolAddNullifier, PoolCacheTx, PoolThrows, Abandon,
     PoolSaveSent, PoolAck
<1>4. CASE PoolEnqueueSent
  <2>1. PICK e \in SentJob :
          sentQ' = Append(sentQ, e) /\ e.job = poolJob /\ e.nonce = attempt.nonce
    <3>1. [job |-> poolJob, nonce |-> attempt.nonce,
    prices |-> {attempt.price}] \in SentJob
      BY <1>4 DEF PoolEnqueueSent, TypeOK, Signing, SentJob, Attempt
    <3> QED
      BY <1>4, <3>1 DEF PoolEnqueueSent
  <2>2. ToSet(sentQ') = ToSet(sentQ) \cup {e}
    <3>1. ToSet(Append(sentQ, e)) = ToSet(sentQ) \cup {e}
      BY <1>0, AppendAsSet
    <3> QED
      BY <2>1, <3>1
  <2>3. SentJobs' = SentJobs \cup {e}
    BY <1>4, <2>2 DEF PoolEnqueueSent, SentJobs
  <2> QED
    BY <1>4, <2>1, <2>3 DEF PoolEnqueueSent, Signing
<1>5. CASE SentFetch
  <2>1. ToSet(sentQ) = ToSet(sentQ') \cup {sentJob'}
    BY <1>0, <1>5, FetchAsSet DEF SentFetch
  <2> QED
    BY <1>5, <2>1 DEF SentFetch, SentJobs
<1>6. CASE SentRedeliver
  <2>1. PICK r \in sentStalled : sentStalled' = sentStalled \ {r} /\ sentQ' = <<r>> \o sentQ
    BY <1>6 DEF SentRedeliver
  <2>2. ToSet(sentQ') = ToSet(sentQ) \cup {r}
    <3>1. r \in SentJob
      BY DEF TypeOK
    <3>2. ToSet(<<r>> \o sentQ) = ToSet(sentQ) \cup {r}
      BY <1>0, <3>1, PrependAsSet
    <3> QED
      BY <2>1, <3>2
  <2> QED
    BY <1>6, <2>1, <2>2 DEF SentRedeliver, SentJobs
<1>7. CASE Crash \/ SentAck
  BY <1>7 DEF Crash, SentAck, SentJobs
<1>8. CASE SentSave
  <2>1. sentJob \in SentJob /\ sentJob' = [sentJob EXCEPT !.prices = known]
        /\ UNCHANGED <<sentQ, sentStalled>>
    BY <1>8 DEF SentSave, TypeOK
  <2>2. sentJob'.job = sentJob.job /\ sentJob'.nonce = sentJob.nonce
    BY <2>1 DEF SentJob
  <2>3. sentJob \in SentJobs
    BY <2>1, NoSentAssumption DEF SentJobs
  <2> QED
    BY <2>1, <2>2, <2>3 DEF SentJobs
<1>9. CASE \/ SentCheck \/ SentResend \/ SentResendError \/ SentResendNoFunds
           \/ SentConfirmed \/ SentRollback \/ SentReverted \/ SentThrows
  BY <1>1, <1>9 DEF SentCheck, SentResend, SentResendError, SentResendNoFunds,
     SentConfirmed, SentRollback, SentReverted, SentThrows
<1> QED
  BY <1>2, <1>3, <1>4, <1>5, <1>6, <1>7, <1>8, <1>9
  DEF Next, Relayer, PoolStep, SentStep, Environment

LEMMA CallBears ==
  ASSUME TypeOK, PoolOnce, [Next]_vars, NEW a \in (mempool \cup mined)'
  PROVE  \/ \E b \in mempool \cup mined : b.job = a.job /\ b.nonce = a.nonce
         \/ \E s \in SentJobs : s.job = a.job /\ s.nonce = a.nonce
         \/ Signs(a.job) /\ attempt.nonce = a.nonce
<1> USE DEF queueVars, cacheVars, poolVars, sentVars, memVars, chainVars, auxVars,
        historyVars
<1>1. CASE PoolSendAccepted
  <2>1. mempool' \subseteq mempool \cup {attempt} /\ mined' = mined /\ poolPc \in Signing
    BY <1>1 DEF PoolSendAccepted, Held, Signing
  <2> QED
    BY <2>1 DEF PoolOnce, Signs
<1>2. CASE SentResend
  <2>1. PICK p : mempool' = Held([job |-> sentJob.job, nonce |-> sentJob.nonce,
  price |-> p])
    BY <1>2 DEF SentResend
  <2>2. \A b \in mempool' :
          b \in mempool \/ (b.job = sentJob.job /\ b.nonce = sentJob.nonce)
    BY <2>1 DEF Held
  <2>3. sentJob \in SentJobs /\ mined' = mined
    BY <1>2, NoSentAssumption DEF SentResend, SentJobs, TypeOK
  <2> QED
    BY <2>2, <2>3
<1>3. CASE Mine
  <2>1. PICK b \in mempool, ok \in BOOLEAN :
          /\ mempool' = mempool \ {b}
          /\ mined' = mined \cup {[job |-> b.job, nonce |-> b.nonce, price |-> b.price,
                                   ok |-> ok]}
    BY <1>3 DEF Mine
  <2> QED
    BY <2>1
<1>4. ASSUME mempool' \subseteq mempool, mined' = mined
      PROVE  \E b \in mempool \cup mined : b.job = a.job /\ b.nonce = a.nonce
  BY <1>4
<1>5. CASE \/ \E k \in Jobs : Submit(k) \/ Observe(k)
           \/ \E k \in Nullifiers : ForeignSpend(k)
           \/ Drop \/ RunDry \/ TopUp \/ Crash \/ UNCHANGED vars
           \/ Resume \/ FundsCheckFails \/ PoolRedeliver \/ SentRedeliver
  BY <1>4, <1>5 DEF Submit, Observe, ForeignSpend, Drop, RunDry, TopUp, Crash, vars,
     Resume, FundsCheckFails, PoolRedeliver, SentRedeliver
<1>6. CASE \/ PoolFetch \/ PoolValidate \/ PoolReject \/ PoolPrepare \/ PoolSendError
           \/ PoolSendNoFunds \/ PoolAddNullifier \/ PoolCacheTx \/ PoolThrows
           \/ PoolSaveSent \/ PoolEnqueueSent \/ PoolAck
  BY <1>4, <1>6 DEF PoolFetch, PoolValidate, PoolReject, PoolPrepare, PoolSendError,
     PoolSendNoFunds, PoolAddNullifier, PoolCacheTx, PoolThrows, Abandon, PoolSaveSent,
     PoolEnqueueSent, PoolAck
<1>7. CASE \/ SentFetch \/ SentCheck \/ SentResendError \/ SentResendNoFunds \/ SentSave
           \/ SentConfirmed \/ SentRollback \/ SentReverted \/ SentAck \/ SentThrows
  BY <1>4, <1>7 DEF SentFetch, SentCheck, SentResendError, SentResendNoFunds, SentSave,
     SentConfirmed, SentRollback, SentReverted, SentAck, SentThrows
<1> QED
  BY <1>1, <1>2, <1>3, <1>5, <1>6, <1>7 DEF Next, Relayer, PoolStep, SentStep, Environment

(* The signature changes only when the worker prepares the next.             *)
LEMMA SignsBears ==
  ASSUME TypeOK, [Next]_vars, NEW j \in Jobs, Signs(j)'
  PROVE  \/ Signs(j) /\ attempt' = attempt
         \/ PoolPrepare /\ poolJob = j
<1> USE DEF queueVars, cacheVars, poolVars, sentVars, memVars, chainVars, auxVars,
        historyVars
<1>0. NoJob \notin Jobs
  BY PipelineAssumption
<1>1. CASE \/ \E k \in Jobs : Submit(k) \/ Observe(k)
           \/ \E k \in Nullifiers : ForeignSpend(k)
           \/ Mine \/ Drop \/ RunDry \/ TopUp \/ UNCHANGED vars
           \/ Resume \/ FundsCheckFails \/ PoolRedeliver \/ SentRedeliver
  BY <1>1 DEF Submit, Observe, ForeignSpend, Mine, Drop, RunDry, TopUp, vars, Resume,
     FundsCheckFails,
     PoolRedeliver, SentRedeliver, Signs
<1>2. CASE Crash
  BY <1>0, <1>2 DEF Crash, Signs
<1>3. CASE SentStep
  BY <1>3 DEF SentStep, SentFetch, SentCheck, SentResend, SentResendError,
     SentResendNoFunds, SentSave, SentConfirmed, SentRollback, SentReverted, SentAck,
     SentThrows, Signs
<1>4. CASE PoolPrepare
  BY <1>4 DEF PoolPrepare, Signs
<1>5. CASE \/ PoolFetch \/ PoolValidate \/ PoolReject \/ PoolSendAccepted \/ PoolSendError
           \/ PoolSendNoFunds \/ PoolAddNullifier \/ PoolCacheTx \/ PoolThrows
           \/ PoolSaveSent \/ PoolEnqueueSent \/ PoolAck
  BY <1>5 DEF PoolFetch, PoolValidate, PoolReject, PoolSendAccepted, PoolSendError,
     PoolSendNoFunds, PoolAddNullifier, PoolCacheTx, PoolThrows, Abandon, PoolSaveSent,
     PoolEnqueueSent, PoolAck, Signs, Signing
<1> QED
  BY <1>1, <1>2, <1>3, <1>4, <1>5 DEF Next, Relayer, PoolStep, Environment

LEMMA OneNonceKept ==
  ASSUME TypeOK, PoolOnce, Fresh, OneNonce, [Next]_vars
  PROVE  OneNonce'
<1>0. [Next]_vars
  BY Recorded
<1> SUFFICES ASSUME NEW j \in Jobs, j \notin interrupted', NEW n \in Nat, NEW k \in Nat,
                    Bears(j, n)', Bears(j, k)'
             PROVE  n = k
  BY DEF OneNonce
<1>1. j \notin interrupted
  BY Recorded
<1>2. ASSUME NEW i \in Nat, Bears(j, i)'
      PROVE  Bears(j, i) \/ (PoolPrepare /\ poolJob = j /\ attempt'.nonce = i)
  <2>1. CASE (\E a \in mempool \cup mined : a.job = j /\ a.nonce = i)'
    BY <1>0, <2>1, CallBears DEF Bears
  <2>2. CASE (\E s \in SentJobs : s.job = j /\ s.nonce = i)'
    BY <1>0, <2>2, SentBears DEF Bears, Signs
  <2>3. CASE (Signs(j) /\ attempt.nonce = i)'
    BY <1>0, <2>3, SignsBears DEF Bears
  <2> QED
    BY <1>2, <2>1, <2>2, <2>3 DEF Bears
<1>3. CASE PoolPrepare /\ poolJob = j
  <2>1. InPool(j) /\ ~Signs(j)
    BY <1>3 DEF PoolPrepare, InPool, Signs, Signing
  <2>2. ~Traced(j)
    BY <1>1, <2>1 DEF Fresh, AtWork
  <2>3. \A i \in Nat : ~Bears(j, i)
    BY <2>1, <2>2 DEF Bears, Traced, InSent
  <2> QED
    BY <1>2, <2>3
<1>4. CASE ~(PoolPrepare /\ poolJob = j)
  BY <1>1, <1>2, <1>4 DEF OneNonce
<1> QED
  BY <1>3, <1>4

HistoryInv ==
  /\ TypeOK /\ ChainOrder /\ Executed /\ PoolOnce /\ Unknown /\ Fresh
  /\ NothingElseForgotten /\ MinedOnce /\ OneNonce

LEMMA HistoryAlways == Spec => []HistoryInv
<1>1. Init => HistoryInv
  <2> SUFFICES ASSUME Init PROVE HistoryInv
    OBVIOUS
  <2>1. TypeOK
    BY PipelineTyped DEF Init
  <2>2. /\ ToSet(poolQ) = {} /\ IsInjective(poolQ) /\ ToSet(sentQ) = {}
        /\ poolStalled = {} /\ sentStalled = {} /\ mempool = {} /\ mined = {}
        /\ poolPc = "idle" /\ poolJob = NoJob /\ sentPc = "idle" /\ sentJob = NoSent
        /\ \A j \in Jobs : jobState[j] = "none"
    BY DEF Init, ToSet, IsInjective
  <2>3. SentJobs = {} /\ \A j \in Jobs : ~InPool(j) /\ poolJob # j /\ ~Traced(j)
    BY <2>2, PipelineAssumption DEF SentJobs, InPool, Traced, InSent
  <2>4. ChainOrder /\ Executed /\ PoolOnce /\ Unknown
    BY <2>2, <2>3, PipelineAssumption
    DEF ChainOrder, Executed, PoolOnce, Unknown, Signing, Init
  <2>5. Fresh
    BY <2>2, <2>3 DEF Fresh, AtWork
  <2>6. NothingElseForgotten
    BY <2>2 DEF NothingElseForgotten
  <2>7. MinedOnce /\ OneNonce
    BY <2>2, <2>3, PipelineAssumption DEF MinedOnce, OneNonce, Bears, Signs
  <2> QED
    BY <2>1, <2>4, <2>5, <2>6, <2>7 DEF HistoryInv
<1>2. HistoryInv /\ [Next]_vars => HistoryInv'
  <2> SUFFICES ASSUME HistoryInv, [Next]_vars PROVE HistoryInv'
    OBVIOUS
  <2>1. [Next]_vars
    BY Recorded DEF HistoryInv
  <2>2. TypeOK' /\ ChainOrder' /\ Executed' /\ PoolOnce'
    BY <2>1, PipelineTyped, ChainOrderKept, ExecutedKept, PoolOnceKept DEF HistoryInv
  <2>3. Unknown' /\ Fresh' /\ NothingElseForgotten'
    BY <2>1, <2>2, UnknownKept, FreshKept, MemoryKept DEF HistoryInv
  <2>4. MinedOnce' /\ OneNonce'
    BY <2>1, MinedOnceKept, OneNonceKept DEF HistoryInv
  <2> QED
    BY <2>2, <2>3, <2>4 DEF HistoryInv
<1> QED
  BY <1>1, <1>2, PTL DEF Spec

(* The relayer knows the hash of every attempt that the node holds or the    *)
(* chain executed until its job has its outcome, for any number of jobs,     *)
(* lost answers, redeliveries and nonces handed out twice; it can lose only  *)
(* those that a crash or a throw took from a worker's memory.                *)
THEOREM HashesRemembered == Spec => []NothingElseForgotten
<1>1. HistoryInv => NothingElseForgotten
  BY DEF HistoryInv
<1> QED
  BY <1>1, HistoryAlways, PTL

(* Nothing of a job told FAILED is with the node or on chain, unless a crash *)
(* interrupted it after its signature, or came between its refusal and the   *)
(* acknowledgment, and it was validated a second time.                       *)
THEOREM FailedStaysUnsent == Spec => []FailedElseNeverSent
<1>1. HistoryInv => FailedElseNeverSent
  BY DEF HistoryInv, Fresh, Traced, FailedElseNeverSent
<1> QED
  BY <1>1, HistoryAlways, PTL

(* What a receipt says of such a job no other receipt denies.                *)
LEMMA OneFate ==
  ASSUME TypeOK, MinedOnce, OneNonce, NEW j \in Jobs, j \notin interrupted,
         NEW m \in mined, NEW n \in mined, m.job = j, n.job = j
  PROVE  m = n
<1>1. m.nonce \in Nat /\ n.nonce \in Nat
  BY DEF TypeOK, Receipt
<1>2. Bears(j, m.nonce) /\ Bears(j, n.nonce)
  BY DEF Bears
<1> QED
  BY <1>1, <1>2 DEF OneNonce, MinedOnce

(* COMPLETED, REVERTED and FAILED are final across a crash and redeliveries  *)
(* of every job that the crash did not interrupt after its signature (FAILED *)
(* also not if it kept the refusal from being acknowledged): whatever the    *)
(* pool worker does with such a job again ends in the same refusal, and what *)
(* the sent worker does again in the only receipt there is.                  *)
THEOREM OutcomesStay == Spec => OutcomeFinal
<1>1. ASSUME HistoryInv, TruthInv, [Next]_vars,
             NEW j \in Jobs \ interrupted, Settled(j)
      PROVE  jobState'[j] = jobState[j]
  <2>1. [Next]_vars /\ TypeOK /\ jobState[j] \in Final
    BY <1>1, Recorded DEF HistoryInv, Settled
  <2>2. /\ InPool(j) => jobState[j] = "failed" /\ j \in unacked
        /\ jobState[j] = "failed" => j \notin unacked /\ ~InSent(j)
    BY <1>1 DEF HistoryInv, Fresh, AtWork, Traced, Final, Settled
  <2>3. ~Submit(j)
    BY <2>1 DEF Submit, Final
  <2>4. ~(PoolReject /\ poolJob = j) /\ ~(PoolSaveSent /\ poolJob = j)
    BY <2>2 DEF PoolReject, PoolSaveSent, InPool
  <2>5. ASSUME SentConfirmed \/ SentReverted, sentJob.job = j
        PROVE  jobState'[j] = jobState[j]
    <3>1. InSent(j)
      BY <2>1, <2>5, NoSentAssumption
      DEF SentConfirmed, SentReverted, InSent, SentJobs, TypeOK
    <3>2. jobState[j] \in {"completed", "reverted"}
      BY <2>1, <2>2, <3>1 DEF Final
    <3>3. PICK m \in mined : m.job = j /\ (m.ok <=> jobState[j] = "completed")
      BY <1>1, <3>2 DEF TruthInv, TruthfulStatus
    <3>4. PICK n \in mined : n.job = j /\ (n.ok <=> SentConfirmed)
      BY <1>1, <2>5 DEF TruthInv, SentConfirmed, SentReverted
    <3>5. m = n
      BY <1>1, <3>3, <3>4, OneFate DEF HistoryInv
    <3>6. /\ SentConfirmed => jobState'[j] = "completed"
          /\ SentReverted => jobState'[j] = "reverted"
      BY <2>1, <2>5 DEF SentConfirmed, SentReverted, TypeOK
    <3> QED
      BY <2>5, <3>2, <3>3, <3>4, <3>5, <3>6
  <2> QED
    BY <2>1, <2>3, <2>4, <2>5, StatusMoves
<1>2. HistoryInv /\ TruthInv /\ [Next]_vars =>
        [\A j \in Jobs \ interrupted :
           Settled(j) => jobState'[j] = jobState[j]]_vars
  BY <1>1
<1> QED
  BY <1>2, HistoryAlways, TruthAlways, PTL DEF Spec, OutcomeFinal
=============================================================================
