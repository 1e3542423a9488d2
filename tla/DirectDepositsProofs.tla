------------------------ MODULE DirectDepositsProofs ------------------------
(***************************************************************************)
(* What DirectDeposits guarantees for any number of deposits, any size of  *)
(* a batch, any number of timers that run at once and any number of        *)
(* mishaps.                                                                *)
(***************************************************************************)
EXTENDS DirectDeposits, FiniteSetTheorems, SequenceTheorems, WellFoundedInduction, TLAPS

(* Sets of deposits are finite, and smaller sets have fewer deposits.       *)
LEMMA Counting ==
  ASSUME NEW n \in Nat, NEW S \in SUBSET (1..n), NEW T \in SUBSET S
  PROVE  /\ Cardinality(S) \in Nat /\ Cardinality(T) \in Nat
         /\ Cardinality(T) <= Cardinality(S)
         /\ Cardinality(S) = 0 => S = {}
<1>1. IsFiniteSet(1..n)
  BY FS_Interval
<1>2. IsFiniteSet(S)
  BY <1>1, FS_Subset
<1>3. IsFiniteSet(T) /\ Cardinality(T) <= Cardinality(S)
  BY <1>2, FS_Subset
<1> QED
  BY <1>2, <1>3, FS_CardinalityType, FS_EmptySet

(* A part of a sequence is a sequence over the same set.                    *)
LEMMA SubSeqType ==
  ASSUME NEW S, NEW s \in Seq(S), NEW m \in Nat \ {0}, NEW n \in Nat, n <= Len(s)
  PROVE  SubSeq(s, m, n) \in Seq(S)
  OBVIOUS

(* Removing one element of a sequence leaves a sequence of the same set.    *)
LEMMA RemoveAtType ==
  ASSUME NEW S, NEW s \in Seq(S), NEW i \in DOMAIN s
  PROVE  RemoveAt(s, i) \in Seq(S)
<1>1. SubSeq(s, 1, i - 1) \in Seq(S) /\ SubSeq(s, i + 1, Len(s)) \in Seq(S)
  OBVIOUS
<1> QED
  BY <1>1 DEF RemoveAt

(* A sequence over a set is a sequence over every larger one.               *)
LEMMA SeqGrows ==
  ASSUME NEW S, NEW T, S \subseteq T, NEW s \in Seq(S)
  PROVE  s \in Seq(T)
  OBVIOUS

(* Type correctness: every variable of DirectDeposits keeps its type, and no *)
(* deposit is held anywhere before it is made.                              *)
THEOREM TypeCorrect == Spec => []TypeOK
<1> USE DepositsAssumption DEF Idle
<1>1. Init => TypeOK
  <2> SUFFICES ASSUME Init PROVE TypeOK
    OBVIOUS
  <2>1. pc = [t \in Threads |-> IF t = Start THEN "count" ELSE "idle"]
    BY DEF Init
  <2>2. /\ pc \in [Threads -> Steps] /\ \A t \in Threads : pc[t] # "take"
    BY <2>1 DEF Steps, Processing
  <2>3. /\ values = [t \in Threads |-> {}] /\ taken = [t \in Threads |-> {}]
        /\ batch = [t \in Threads |-> {}] /\ counted = [t \in Threads |-> 0]
        /\ want = [t \in Threads |-> 0]
    BY DEF Init
  <2>4. /\ submitted = 0 /\ position = 0 /\ pending = {} /\ cache = {} /\ failed = {}
        /\ dropped = {} /\ refunded = {} /\ up = FALSE /\ timer = FALSE /\ crashed = FALSE
        /\ mishaps = 0 /\ requeued = <<>> /\ jobs = <<>> /\ txs = <<>>
        /\ posting = <<>>
    BY DEF Init
  <2>5. /\ submitted \in 0..MaxDeposits /\ position \in 0..submitted
        /\ mishaps \in 0..MaxMishaps
    BY <2>4
  <2>6. \A S : <<>> \in Seq(S)
    OBVIOUS
  <2>7. up \in BOOLEAN /\ timer \in BOOLEAN /\ crashed \in BOOLEAN
    BY <2>4
  <2>8. /\ values \in [Threads -> SUBSET (1..submitted)]
        /\ taken \in [Threads -> SUBSET (1..submitted)]
        /\ batch \in [Threads -> SUBSET (1..submitted)]
        /\ counted \in [Threads -> Nat] /\ want \in [Threads -> 0..BatchSize]
    BY <2>3
  <2>9. /\ pending \subseteq 1..submitted /\ cache \subseteq 1..submitted
        /\ failed \subseteq 1..submitted /\ dropped \subseteq 1..submitted
        /\ refunded \subseteq 1..submitted
        /\ requeued \in Seq(1..submitted) /\ jobs \in Seq(SUBSET (1..submitted))
        /\ txs \in Seq(SUBSET (1..submitted)) /\ posting \in Seq(SUBSET (1..submitted))
    BY <2>4, <2>6
  <2> QED
    BY <2>2, <2>5, <2>7, <2>8, <2>9, Zenon DEF TypeOK
<1>2. TypeOK /\ [Next]_vars => TypeOK'
  <2> SUFFICES ASSUME TypeOK, [Next]_vars PROVE TypeOK'
    OBVIOUS
  <2> DEFINE Made == 1..submitted
  <2>1. CASE Watch
    BY <2>1 DEF Watch, outerVars, redisVars, chainVars, queueVars, boundVars,
       execVars, processVars, TypeOK, Threads, Mains, Adders, Steps, Processing
  <2>2. CASE Repop
    <3>1. PICK n \in Nat : /\ values' = [values EXCEPT ![Reprocess] = ToSet(SubSeq(requeued, 1, n))]
                           /\ requeued' = SubSeq(requeued, n + 1, Len(requeued))
                           /\ n <= Len(requeued)
      <4>1. Len(requeued) \in Nat
        BY DEF TypeOK
      <4>2. Min({Len(requeued), BatchSize}) \in Nat /\ Min({Len(requeued), BatchSize}) <= Len(requeued)
        <5>1. \E x \in {Len(requeued), BatchSize} : \A y \in {Len(requeued), BatchSize} : x <= y
          BY <4>1
        <5> QED
          BY <4>1, <5>1 DEF Min
      <4> QED
        BY <2>2, <4>2 DEF Repop
    <3>0. requeued \in Seq(Made)
      BY DEF TypeOK
    <3>2. SubSeq(requeued, 1, n) \in Seq(Made) /\ SubSeq(requeued, n + 1, Len(requeued)) \in Seq(Made)
      <4>1. Len(requeued) \in Nat /\ n + 1 \in Nat \ {0} /\ 1 \in Nat \ {0}
        BY <3>0, <3>1
      <4>2. SubSeq(requeued, 1, n) \in Seq(Made)
        BY <3>0, <3>1, <4>1, SubSeqType
      <4>3. SubSeq(requeued, n + 1, Len(requeued)) \in Seq(Made)
        <5>1. Len(requeued) <= Len(requeued)
          BY <4>1
        <5> HIDE DEF Made
        <5> QED
          BY <3>0, <4>1, <5>1, SubSeqType
      <4> QED
        BY <4>2, <4>3
    <3>3. ToSet(SubSeq(requeued, 1, n)) \subseteq Made
      BY <3>2 DEF ToSet
    <3>4. values' \in [Threads -> SUBSET Made] /\ requeued' \in Seq(Made)
      BY <3>1, <3>2, <3>3 DEF TypeOK
    <3>5. pc' = [pc EXCEPT ![Reprocess] = "acquire"]
      BY <2>2 DEF Repop
    <3>6. pc' \in [Threads -> Steps] /\ \A t \in Threads : pc'[t] = "take" => want[t] # 0
      BY <3>5 DEF TypeOK, Steps, Processing
    <3> QED
      BY <2>2, <3>4, <3>6 DEF Repop, outerVars, redisVars, chainVars,
         queueVars, boundVars, execVars, processVars, TypeOK, Threads, Mains,
         Adders, Steps, Processing
  <2>3. CASE SavePosition
    BY <2>3 DEF SavePosition, outerVars, redisVars, chainVars, queueVars,
       boundVars, execVars, processVars, TypeOK, Threads, Mains, Adders, Steps,
       Processing
  <2>4. CASE Post
    BY <2>4 DEF Post, outerVars, redisVars, chainVars, queueVars, boundVars,
       execVars, processVars, TypeOK, Threads, Mains, Adders, Steps, Processing
  <2>5. CASE Crash
    <3>1. posting \in Seq(SUBSET Made) /\ UNION ToSet(posting) \subseteq Made
      BY DEF TypeOK, ToSet
    <3>2. values[Reprocess] \subseteq Made /\ \A t \in Threads : taken[t] \cup batch[t] \subseteq Made
      BY DEF TypeOK, Threads, Mains, Adders
    <3>3. dropped' \subseteq dropped \cup values[Reprocess] \cup (UNION ToSet(posting))
                     \cup (UNION {taken[t] \cup batch[t] : t \in Threads})
      BY <2>5 DEF Crash
    <3>4. UNION {taken[t] \cup batch[t] : t \in Threads} \subseteq Made
      BY <3>2
    <3>5. dropped' \subseteq Made
      <4>1. dropped \subseteq Made
        BY DEF TypeOK
      <4>2. ASSUME NEW d \in dropped' PROVE d \in Made
        <5>1. \/ d \in dropped \/ d \in values[Reprocess] \/ d \in UNION ToSet(posting)
              \/ d \in UNION {taken[t] \cup batch[t] : t \in Threads}
          BY <3>3, <4>2
        <5> HIDE DEF Made
        <5> QED
          BY <4>1, <3>1, <3>2, <3>4, <5>1
      <4> QED
        BY <4>2
    <3>6. /\ pc' = [t \in Threads |-> "idle"] /\ values' = [t \in Threads |-> {}]
          /\ counted' = [t \in Threads |-> 0] /\ want' = [t \in Threads |-> 0]
          /\ taken' = [t \in Threads |-> {}] /\ batch' = [t \in Threads |-> {}]
          /\ up' = FALSE /\ timer' = FALSE /\ crashed' = TRUE
      BY <2>5 DEF Crash
    <3>7. posting' = <<>> /\ mishaps' \in 0..MaxMishaps
      BY <2>5 DEF Crash, TypeOK
    <3>8. UNCHANGED <<chainVars, redisVars, queueVars>>
      BY <2>5 DEF Crash
    <3>9. /\ pc' \in [Threads -> Steps] /\ \A t \in Threads : pc'[t] # "take"
          /\ values' \in [Threads -> SUBSET Made] /\ taken' \in [Threads -> SUBSET Made]
          /\ batch' \in [Threads -> SUBSET Made] /\ counted' \in [Threads -> Nat]
          /\ want' \in [Threads -> 0..BatchSize]
      BY <3>6 DEF Steps, Processing
    <3>10. up' \in BOOLEAN /\ timer' \in BOOLEAN /\ crashed' \in BOOLEAN
      BY <3>6
    <3> QED
      BY <3>5, <3>7, <3>8, <3>9, <3>10 DEF chainVars, redisVars, queueVars,
         TypeOK, Steps, Processing
  <2>6. CASE Restart
    BY <2>6 DEF Restart, outerVars, redisVars, chainVars, queueVars, boundVars,
       execVars, processVars, TypeOK, Threads, Mains, Adders, Steps, Processing
  <2>7. ASSUME NEW a \in Adders, Store(a) PROVE TypeOK'
    BY <2>7 DEF Store, outerVars, redisVars, chainVars, queueVars, boundVars,
       execVars, processVars, TypeOK, Threads, Mains, Adders, Steps, Processing
  <2>8. ASSUME NEW t \in Mains, Count(t) PROVE TypeOK'
    <3>0. submitted \in Nat /\ cache \in SUBSET (1..submitted)
      BY DEF TypeOK
    <3>1. Cardinality(cache) \in Nat
      BY <3>0, Counting
    <3> QED
      BY <2>8, <3>1 DEF Count, outerVars, redisVars, chainVars, queueVars,
         boundVars, execVars, processVars, TypeOK, Threads, Mains, Adders,
         Steps, Processing
  <2>9. ASSUME NEW t \in Mains, DecideExecute(t) PROVE TypeOK'
    <3>0. StartExecute(t) /\ t \in Threads
      BY <2>9 DEF DecideExecute, Threads
    <3>1. want' \in [Threads -> 0..BatchSize] /\ want' = [want EXCEPT ![t] = BatchSize]
      BY <3>0 DEF StartExecute, TypeOK
    <3>2. pc' \in [Threads -> Steps] /\ pc' = [pc EXCEPT ![t] = "take"]
      BY <3>0 DEF StartExecute, TypeOK, Steps, Processing
    <3>3. \A u \in Threads : pc'[u] = "take" => want'[u] # 0
      BY <3>1, <3>2 DEF TypeOK
    <3> QED
      BY <3>0, <3>1, <3>2, <3>3 DEF StartExecute, outerVars, redisVars,
         chainVars, queueVars, boundVars, execVars, processVars, TypeOK
  <2>10. ASSUME NEW t \in Mains, DecideDone(t) PROVE TypeOK'
    BY <2>10 DEF DecideDone, NeedsTimer, outerVars, redisVars, chainVars,
       queueVars, boundVars, execVars, processVars, TypeOK, Threads, Mains,
       Adders, Steps, Processing
  <2>11. ASSUME NEW t \in Threads, Take(t) PROVE TypeOK'
    BY <2>11 DEF Take, Lowest, outerVars, redisVars, chainVars, queueVars,
       boundVars, execVars, processVars, TypeOK, Threads, Mains, Adders, Steps,
       Processing
  <2>12. ASSUME NEW t \in Threads, Validate(t) PROVE TypeOK'
    <3>1. PICK unanswered \in SUBSET taken[t] :
            LET good == batch[t] \cup Passes(t, unanswered) IN
            /\ mishaps' = mishaps + Cardinality(unanswered) /\ mishaps' <= MaxMishaps
            /\ dropped' = dropped \cup unanswered
            /\ \/ /\ RoundsGoOn(t, good)
                  /\ batch' = [batch EXCEPT ![t] = good]
                  /\ want' = [want EXCEPT ![t] = Missing(good)]
                  /\ pc' = [pc EXCEPT ![t] = "take"]
                  /\ UNCHANGED posting
               \/ /\ ~RoundsGoOn(t, good)
                  /\ batch' = [batch EXCEPT ![t] = {}]
                  /\ want' = [want EXCEPT ![t] = 0]
                  /\ pc' = [pc EXCEPT ![t] = AfterExecute(t)]
                  /\ posting' = IF good = {} THEN posting ELSE Append(posting, good)
      BY <2>12 DEF Validate
    <3> DEFINE good == batch[t] \cup Passes(t, unanswered)
    <3>2. taken[t] \subseteq Made /\ good \subseteq Made /\ submitted \in Nat
      BY DEF TypeOK, Passes
    <3>3. Cardinality(unanswered) \in Nat /\ Cardinality(good) \in Nat
      BY <3>2, Counting
    <3> HIDE DEF good
    <3>4. mishaps' \in 0..MaxMishaps /\ dropped' \subseteq Made
      BY <3>1, <3>2, <3>3 DEF TypeOK
    <3>10. Append(posting, good) \in Seq(SUBSET Made)
      BY <3>2 DEF TypeOK
    <3>5. /\ batch' \in [Threads -> SUBSET Made] /\ taken' \in [Threads -> SUBSET Made]
          /\ posting' \in Seq(SUBSET Made)
      <4>1. taken' = [taken EXCEPT ![t] = {}]
        BY <2>12 DEF Validate
      <4>2. taken' \in [Threads -> SUBSET Made]
        BY <4>1 DEF TypeOK
      <4>3. batch' = [batch EXCEPT ![t] = good] \/ batch' = [batch EXCEPT ![t] = {}]
        BY <3>1 DEF good
      <4>4. batch' \in [Threads -> SUBSET Made]
        BY <3>2, <4>3 DEF TypeOK
      <4>5. posting' = posting \/ posting' = Append(posting, good)
        BY <3>1 DEF good
      <4>6. posting' \in Seq(SUBSET Made)
        BY <3>10, <4>5 DEF TypeOK
      <4> QED
        BY <4>2, <4>4, <4>6
    <3>6. /\ pc' \in [Threads -> Steps] /\ want' \in [Threads -> 0..BatchSize]
          /\ \A u \in Threads : pc'[u] = "take" => want'[u] # 0
      <4>1. CASE RoundsGoOn(t, good)
        <5>1. Missing(good) \in 1..BatchSize
          BY <3>3, <4>1 DEF RoundsGoOn, Missing
        <5>2. /\ want' = [want EXCEPT ![t] = Missing(good)]
              /\ pc' = [pc EXCEPT ![t] = "take"]
          BY <3>1, <4>1 DEF good
        <5> QED
          BY <5>1, <5>2 DEF TypeOK, Steps, Processing
      <4>2. CASE ~RoundsGoOn(t, good)
        <5>1. AfterExecute(t) \in Steps /\ AfterExecute(t) # "take"
          BY DEF AfterExecute, Steps, Processing
        <5>2. /\ want' = [want EXCEPT ![t] = 0]
              /\ pc' = [pc EXCEPT ![t] = AfterExecute(t)]
          BY <3>1, <4>2 DEF good
        <5> QED
          BY <5>1, <5>2 DEF TypeOK
      <4> QED
        BY <4>1, <4>2
    <3> QED
      BY <2>12, <3>4, <3>5, <3>6 DEF Validate, outerVars, redisVars, chainVars,
         queueVars, boundVars, execVars, processVars, TypeOK
  <2>13. ASSUME NEW t \in TimerRuns, TimerFires(t) PROVE TypeOK'
    <3>0. StartExecute(t) /\ t \in Threads
      BY <2>13 DEF TimerFires, Threads
    <3>1. want' \in [Threads -> 0..BatchSize] /\ want' = [want EXCEPT ![t] = BatchSize]
      BY <3>0 DEF StartExecute, TypeOK
    <3>2. pc' \in [Threads -> Steps] /\ pc' = [pc EXCEPT ![t] = "take"]
      BY <3>0 DEF StartExecute, TypeOK, Steps, Processing
    <3>3. \A u \in Threads : pc'[u] = "take" => want'[u] # 0
      BY <3>1, <3>2 DEF TypeOK
    <3> QED
      BY <3>0, <3>1, <3>2, <3>3 DEF StartExecute, outerVars, redisVars,
         chainVars, queueVars, boundVars, execVars, processVars, TypeOK
  <2>14. ASSUME NEW i \in DOMAIN jobs, Prove(i) \/ ProveFails(i) \/ WorkerCrash(i)
         PROVE  TypeOK'
    <3>1. jobs \in Seq(SUBSET Made) /\ jobs[i] \in SUBSET Made
      BY DEF TypeOK
    <3>2. RemoveAt(jobs, i) \in Seq(SUBSET Made)
      BY <3>1, RemoveAtType
    <3>3. CASE Prove(i)
      <4>1. Append(txs, jobs[i]) \in Seq(SUBSET Made)
        BY <3>1 DEF TypeOK
      <4> QED
        BY <3>2, <3>3, <4>1 DEF Prove, outerVars, redisVars, chainVars,
           queueVars, boundVars, execVars, processVars, TypeOK
    <3>4. CASE ProveFails(i)
      <4>1. failed' \subseteq Made /\ mishaps' \in 0..MaxMishaps /\ jobs' = RemoveAt(jobs, i)
        <5>1. /\ failed' = failed \cup jobs[i] /\ mishaps' = mishaps + 1
              /\ mishaps < MaxMishaps /\ jobs' = RemoveAt(jobs, i)
          BY <3>4 DEF ProveFails
        <5>2. failed \subseteq Made /\ mishaps \in 0..MaxMishaps
          BY DEF TypeOK
        <5>3. mishaps' \in 0..MaxMishaps
          BY <5>1, <5>2
        <5> QED
          BY <3>1, <5>1, <5>2, <5>3
      <4> QED
        BY <3>2, <3>4, <4>1 DEF ProveFails, outerVars, redisVars, chainVars,
           queueVars, boundVars, execVars, processVars, TypeOK
    <3>5. CASE WorkerCrash(i)
      <4>1. Append(txs, jobs[i]) \in Seq(SUBSET Made)
        BY <3>1 DEF TypeOK
      <4> QED
        BY <3>5, <4>1 DEF WorkerCrash, outerVars, redisVars, chainVars,
           queueVars, boundVars, execVars, processVars, TypeOK
    <3> QED
      BY <2>14, <3>3, <3>4, <3>5
  <2>15. CASE Submit
    <3>1. submitted' = submitted + 1 /\ Made \subseteq 1..submitted'
      BY <2>15 DEF Submit, TypeOK
    <3>2. /\ requeued \in Seq(1..submitted') /\ jobs \in Seq(SUBSET (1..submitted'))
          /\ txs \in Seq(SUBSET (1..submitted')) /\ posting \in Seq(SUBSET (1..submitted'))
      BY <3>1, SeqGrows DEF TypeOK
    <3> HIDE DEF Made
    <3> QED
      BY <2>15, <3>1, <3>2, SMTT(30) DEF Submit, outerVars, redisVars, chainVars,
         queueVars, boundVars, execVars, processVars, TypeOK, Made
  <2>16. CASE AppendDeposits
    <3>1. Head(txs) \in SUBSET Made /\ Tail(txs) \in Seq(SUBSET Made)
      BY <2>16 DEF AppendDeposits, TypeOK
    <3> QED
      BY <2>16, <3>1 DEF AppendDeposits, outerVars, redisVars, chainVars,
         queueVars, boundVars, execVars, processVars, TypeOK
  <2>17. ASSUME NEW d \in pending, Refund(d) PROVE TypeOK'
    BY <2>17 DEF Refund, outerVars, redisVars, chainVars, queueVars, boundVars,
       execVars, processVars, TypeOK, Threads, Mains, Adders, Steps, Processing
  <2>18. ASSUME NEW d \in failed, Requeue(d) PROVE TypeOK'
    BY <2>18 DEF Requeue, outerVars, redisVars, chainVars, queueVars,
       boundVars, execVars, processVars, TypeOK, Threads, Mains, Adders, Steps,
       Processing
  <2>19. CASE UNCHANGED vars
    BY <2>19 DEF vars, outerVars, redisVars, chainVars, queueVars, boundVars,
       execVars, processVars, TypeOK, Threads, Mains, Adders, Steps, Processing
  <2> QED
    BY <2>1, <2>2, <2>3, <2>4, <2>5, <2>6, <2>7, <2>8, <2>9, <2>10, <2>11,
       <2>12, <2>13,
       <2>14, <2>15, <2>16, <2>17, <2>18, <2>19
       DEF Next, Processes, Executes, Threads
<1> QED
  BY <1>1, <1>2, PTL DEF Spec

(* The start excludes the other threads and the mutex one adder the other;   *)
(* no timer is set before the start is over.                                 *)
Exclusive ==
  /\ up => pc[Start] = "idle"
  /\ ~up => ~timer /\ \A t \in Threads \ {Start} : pc[t] = "idle"
  /\ \A a, b \in Adders : pc[a] \in Processing /\ pc[b] \in Processing => a = b
  /\ pc[Start] \in {"idle"} \cup Processing
  /\ \A r \in TimerRuns : pc[r] \in {"idle", "take", "validate"}

(* A thread that has counted the cache knows a bound on it, since others can *)
(* but take from it; and while no thread is processing the cache, it holds   *)
(* less than a batch.                                                        *)
NoneProcessing == \A t \in Mains : pc[t] \notin Processing
CacheBounded ==
  /\ \A t \in Mains : pc[t] = "decide" => Cardinality(cache) <= counted[t]
  /\ ~Down /\ NoneProcessing => Cardinality(cache) < BatchSize

watchVars == <<cache, pc, counted, up, timer, want>>

(* The steps that are of no interest to the cache: those of the queue's      *)
(* worker, of the chain and of the users.                                    *)
LEMMA Cases ==
  ASSUME TypeOK, [Next]_vars
  PROVE  \/ Watch \/ Repop \/ SavePosition \/ Crash \/ Restart
         \/ \E a \in Adders : Store(a)
         \/ \E t \in Mains : Count(t) \/ DecideExecute(t) \/ DecideDone(t)
         \/ \E t \in Threads : Take(t) \/ Validate(t)
         \/ \E r \in TimerRuns : TimerFires(r)
         \/ UNCHANGED watchVars
<1>1. Post \/ Submit \/ AppendDeposits => UNCHANGED watchVars
  BY DEF Post, Submit, AppendDeposits, outerVars, redisVars, chainVars,
     queueVars, boundVars, execVars, processVars, watchVars
<1>2. ASSUME NEW i, Prove(i) \/ ProveFails(i) \/ WorkerCrash(i) PROVE UNCHANGED watchVars
  BY <1>2 DEF Prove, ProveFails, WorkerCrash, outerVars, redisVars, chainVars,
     queueVars, boundVars, execVars, processVars, watchVars
<1>3. ASSUME NEW d, Refund(d) \/ Requeue(d) PROVE UNCHANGED watchVars
  BY <1>3 DEF Refund, Requeue, outerVars, redisVars, chainVars, queueVars,
     boundVars, execVars, processVars, watchVars
<1>4. UNCHANGED vars => UNCHANGED watchVars
  BY DEF vars, outerVars, redisVars, chainVars, queueVars, boundVars, execVars,
     processVars, watchVars
<1> QED
  BY <1>1, <1>2, <1>3, <1>4 DEF Next, Processes, Executes, Threads

(* Every step keeps the threads apart.                                       *)
LEMMA ExclusiveKept ==
  ASSUME TypeOK, Exclusive, [Next]_vars
  PROVE  Exclusive'
<1> USE DepositsAssumption
<1>1. Exclusive'
  <2>0. pc \in [Threads -> Steps]
    BY DEF TypeOK
  <2>1. CASE Watch
    BY <2>1, <2>0 DEF Watch, outerVars, redisVars, chainVars, queueVars,
       boundVars, execVars, processVars, Exclusive, Threads, Mains, Adders,
       Processing
  <2>2. CASE Repop
    BY <2>2, <2>0 DEF Repop, outerVars, redisVars, chainVars, queueVars,
       boundVars, execVars, processVars, Exclusive, Threads, Mains, Adders,
       Processing
  <2>3. CASE SavePosition
    BY <2>3, <2>0 DEF SavePosition, outerVars, redisVars, chainVars, queueVars,
       boundVars, execVars, processVars, Exclusive, Threads, Mains, Adders,
       Processing
  <2>4. CASE Crash
    BY <2>4, <2>0 DEF Crash, Idle, outerVars, redisVars, chainVars, queueVars,
       boundVars, execVars, processVars, Exclusive, Threads, Mains, Adders,
       Processing
  <2>5. CASE Restart
    BY <2>5, <2>0 DEF Restart, Down, outerVars, redisVars, chainVars,
       queueVars, boundVars, execVars, processVars, Exclusive, Threads, Mains,
       Adders, Processing
  <2>6. ASSUME NEW a \in Adders, Store(a) PROVE Exclusive'
    BY <2>6, <2>0 DEF Store, Locked, outerVars, redisVars, chainVars,
       queueVars, boundVars, execVars, processVars, Exclusive, Threads, Mains,
       Adders, Processing
  <2>7. ASSUME NEW t \in Mains, Count(t) PROVE Exclusive'
    BY <2>7, <2>0 DEF Count, outerVars, redisVars, chainVars, queueVars,
       boundVars, execVars, processVars, Exclusive, Threads, Mains, Adders,
       Processing
  <2>8. ASSUME NEW t \in Mains, DecideExecute(t) PROVE Exclusive'
    BY <2>8, <2>0 DEF DecideExecute, StartExecute, outerVars, redisVars,
       chainVars, queueVars, boundVars, execVars, processVars, Exclusive,
       Threads, Mains, Adders, Processing
  <2>9. ASSUME NEW t \in Mains, DecideDone(t) PROVE Exclusive'
    BY <2>9, <2>0 DEF DecideDone, outerVars, redisVars, chainVars, queueVars,
       boundVars, execVars, processVars, Exclusive, Threads, Mains, Adders,
       Processing
  <2>10. ASSUME NEW t \in Threads, Take(t) PROVE Exclusive'
    BY <2>10, <2>0 DEF Take, outerVars, redisVars, chainVars, queueVars,
       boundVars, execVars, processVars, Exclusive, Threads, Mains, Adders,
       Processing
  <2>11. ASSUME NEW t \in Threads, Validate(t) PROVE Exclusive'
    BY <2>11, <2>0 DEF Validate, AfterExecute, outerVars, redisVars, chainVars,
       queueVars, boundVars, execVars, processVars, Exclusive, Threads, Mains,
       Adders, Processing
  <2>12. ASSUME NEW r \in TimerRuns, TimerFires(r) PROVE Exclusive'
    BY <2>12, <2>0 DEF TimerFires, StartExecute, outerVars, redisVars,
       chainVars, queueVars, boundVars, execVars, processVars, Exclusive,
       Threads, Mains, Adders, Processing
  <2>13. CASE UNCHANGED watchVars
    BY <2>13 DEF watchVars, Exclusive, Threads, Mains, Adders, Processing
  <2> QED
    BY Cases, <2>1, <2>2, <2>3, <2>4, <2>5, <2>6, <2>7, <2>8, <2>9, <2>10,
       <2>11, <2>12, <2>13
<1> QED
  BY <1>1

(* The cache is a finite set of deposits.                                    *)
LEMMA CacheFinite ==
  ASSUME TypeOK
  PROVE  Cardinality(cache) \in Nat /\ (Cardinality(cache) = 0 => cache = {})
<1>1. submitted \in Nat /\ cache \in SUBSET (1..submitted)
  BY DepositsAssumption DEF TypeOK
<1> QED
  BY <1>1, Counting

(* What a take leaves is no larger, and nothing if there was less than asked. *)
LEMMA CacheLeft ==
  ASSUME TypeOK, NEW n \in Nat
  PROVE  /\ Cardinality(cache \ Lowest(n)) \in Nat
         /\ Cardinality(cache \ Lowest(n)) <= Cardinality(cache)
         /\ Cardinality(cache) < n => cache \ Lowest(n) = {}
<1>1. submitted \in Nat /\ cache \in SUBSET (1..submitted)
  BY DepositsAssumption DEF TypeOK
<1>2. Cardinality(cache) \in Nat /\ (Cardinality(cache) = 0 => cache = {})
  BY <1>1, Counting
<1>3. QED
  <2>1. cache \ Lowest(n) \in SUBSET cache
    OBVIOUS
  <2>2. ASSUME Cardinality(cache) < n, NEW d \in cache PROVE d \in Lowest(n)
    <3> DEFINE Below == {e \in cache : e < d}
    <3>1. Below \in SUBSET cache
      OBVIOUS
    <3>2. Cardinality(Below) \in Nat /\ Cardinality(Below) <= Cardinality(cache)
      BY <1>1, <3>1, Counting
    <3>3. Cardinality(Below) < n
      <4> HIDE DEF Below
      <4> QED
        BY <1>2, <2>2, <3>2
    <3> QED
      BY <3>3 DEF Lowest
  <2> QED
    BY <1>1, <2>1, <2>2, Counting

(* Every step keeps the bounds on the cache.                                 *)
LEMMA CacheBoundedKept ==
  ASSUME TypeOK, TypeOK', Exclusive, CacheBounded, [Next]_vars
  PROVE  CacheBounded'
<1> USE DepositsAssumption
<1>1. CacheBounded'
  <2>0. /\ pc \in [Threads -> Steps] /\ counted \in [Threads -> Nat]
        /\ Cardinality(cache) \in Nat /\ want \in [Threads -> 0..BatchSize]
    BY CacheFinite DEF TypeOK
  <2>1. CASE Watch
    BY <2>1, <2>0 DEF Watch, outerVars, redisVars, chainVars, queueVars,
       boundVars, execVars, processVars, CacheBounded, NoneProcessing,
       Exclusive, Down, Threads, Mains, Adders, Processing
  <2>2. CASE Repop
    BY <2>2, <2>0 DEF Repop, outerVars, redisVars, chainVars, queueVars,
       boundVars, execVars, processVars, CacheBounded, NoneProcessing,
       Exclusive, Down, Threads, Mains, Adders, Processing
  <2>3. CASE SavePosition
    BY <2>3, <2>0 DEF SavePosition, outerVars, redisVars, chainVars, queueVars,
       boundVars, execVars, processVars, CacheBounded, NoneProcessing,
       Exclusive, Down, Threads, Mains, Adders, Processing
  <2>4. CASE Crash
    BY <2>4, <2>0 DEF Crash, Idle, outerVars, redisVars, chainVars, queueVars,
       boundVars, execVars, processVars, CacheBounded, NoneProcessing,
       Exclusive, Down, Threads, Mains, Adders, Processing
  <2>5. CASE Restart
    BY <2>5, <2>0 DEF Restart, Down, outerVars, redisVars, chainVars,
       queueVars, boundVars, execVars, processVars, CacheBounded,
       NoneProcessing, Exclusive, Down, Threads, Mains, Adders, Processing
  <2>6. ASSUME NEW a \in Adders, Store(a) PROVE CacheBounded'
    <3>1. \A u \in Mains : pc'[u] # "decide"
      BY <2>6, <2>0 DEF Store, Locked, Exclusive, Threads, Mains, Adders,
         Processing
    <3>2. ~NoneProcessing'
      BY <2>6, <2>0 DEF Store, NoneProcessing, Threads, Mains, Adders,
         Processing
    <3> QED
      BY <3>1, <3>2 DEF CacheBounded
  <2>7. ASSUME NEW t \in Mains, Count(t) PROVE CacheBounded'
    BY <2>7, <2>0 DEF Count, outerVars, redisVars, chainVars, queueVars,
       boundVars, execVars, processVars, CacheBounded, NoneProcessing,
       Exclusive, Down, Threads, Mains, Adders, Processing
  <2>8. ASSUME NEW t \in Mains, DecideExecute(t) PROVE CacheBounded'
    BY <2>8, <2>0 DEF DecideExecute, StartExecute, outerVars, redisVars,
       chainVars, queueVars, boundVars, execVars, processVars, CacheBounded,
       NoneProcessing, Exclusive, Down, Threads, Mains, Adders, Processing
  <2>9. ASSUME NEW t \in Mains, DecideDone(t) PROVE CacheBounded'
    <3>1. Cardinality(cache) < BatchSize /\ cache' = cache
      BY <2>9, <2>0 DEF DecideDone, outerVars, redisVars, CacheBounded,
         Threads, Mains, Adders
    <3>2. /\ \A u \in Mains : pc'[u] = "decide" => u # t /\ pc[u] = "decide"
          /\ \A u \in Mains \ {t} : counted'[u] = counted[u]
      BY <2>9, <2>0 DEF DecideDone, Threads, Mains, Adders
    <3> QED
      BY <3>1, <3>2 DEF CacheBounded
  <2>10. ASSUME NEW t \in Threads, Take(t) PROVE CacheBounded'
    <3>1. cache' = cache \ Lowest(want[t]) /\ want[t] \in Nat
      BY <2>10, <2>0 DEF Take
    <3>2. Cardinality(cache') \in Nat /\ Cardinality(cache') <= Cardinality(cache)
      <4> DEFINE left == cache \ Lowest(want[t])
      <4>1. Cardinality(left) \in Nat /\ Cardinality(left) <= Cardinality(cache)
        BY <3>1, CacheLeft
      <4>2. cache' = left
        BY <3>1
      <4> HIDE DEF left
      <4> QED
        BY <4>1, <4>2
    <3>3. /\ \A u \in Mains : pc'[u] = "decide" => pc[u] = "decide"
          /\ ~Down' /\ NoneProcessing' => ~Down /\ NoneProcessing
          /\ counted' = counted
      BY <2>10, <2>0 DEF Take, Down, NoneProcessing, Threads, Mains, Adders,
         Processing
    <3> QED
      BY <2>0, <3>2, <3>3 DEF CacheBounded, Threads, Mains
  <2>11. ASSUME NEW t \in Threads, Validate(t) PROVE CacheBounded'
    BY <2>11, <2>0 DEF Validate, AfterExecute, outerVars, redisVars, chainVars,
       queueVars, boundVars, execVars, processVars, CacheBounded,
       NoneProcessing, Exclusive, Down, Threads, Mains, Adders, Processing
  <2>12. ASSUME NEW r \in TimerRuns, TimerFires(r) PROVE CacheBounded'
    BY <2>12, <2>0 DEF TimerFires, StartExecute, outerVars, redisVars,
       chainVars, queueVars, boundVars, execVars, processVars, CacheBounded,
       NoneProcessing, Exclusive, Down, Threads, Mains, Adders, Processing
  <2>13. CASE UNCHANGED watchVars
    BY <2>13 DEF watchVars, CacheBounded, NoneProcessing, Exclusive, Down,
       Threads, Mains, Adders, Processing
  <2> QED
    BY Cases, <2>1, <2>2, <2>3, <2>4, <2>5, <2>6, <2>7, <2>8, <2>9, <2>10,
       <2>11, <2>12, <2>13
<1> QED
  BY <1>1

(* The inductive invariant: a take empties a cache that nobody is counting,  *)
(* because of CacheBounded, which needs Exclusive.                           *)
WatchInv == TypeOK /\ Exclusive /\ CacheBounded /\ CacheWatched

(* Every step leaves the cache attended to.                                  *)
LEMMA CacheWatchedKept ==
  ASSUME TypeOK, TypeOK', Exclusive, CacheBounded, CacheWatched, [Next]_vars
  PROVE  CacheWatched'
<1> USE DepositsAssumption
<1>1. CacheWatched'
  <2>0. /\ pc \in [Threads -> Steps] /\ counted \in [Threads -> Nat]
        /\ Cardinality(cache) \in Nat /\ want \in [Threads -> 0..BatchSize]
    BY CacheFinite DEF TypeOK
  <2>1. CASE Watch
    BY <2>1, <2>0 DEF Watch, outerVars, redisVars, chainVars, queueVars,
       boundVars, execVars, processVars, CacheWatched, NoneProcessing,
       Exclusive, Down, Executing, Threads, Mains, Adders, Processing
  <2>2. CASE Repop
    BY <2>2, <2>0 DEF Repop, outerVars, redisVars, chainVars, queueVars,
       boundVars, execVars, processVars, CacheWatched, NoneProcessing,
       Exclusive, Down, Executing, Threads, Mains, Adders, Processing
  <2>3. CASE SavePosition
    BY <2>3, <2>0 DEF SavePosition, outerVars, redisVars, chainVars, queueVars,
       boundVars, execVars, processVars, CacheWatched, NoneProcessing,
       Exclusive, Down, Executing, Threads, Mains, Adders, Processing
  <2>4. CASE Crash
    BY <2>4, <2>0 DEF Crash, Idle, outerVars, redisVars, chainVars, queueVars,
       boundVars, execVars, processVars, CacheWatched, NoneProcessing,
       Exclusive, Down, Executing, Threads, Mains, Adders, Processing
  <2>5. CASE Restart
    BY <2>5, <2>0 DEF Restart, Down, outerVars, redisVars, chainVars,
       queueVars, boundVars, execVars, processVars, CacheWatched,
       NoneProcessing, Exclusive, Down, Executing, Threads, Mains, Adders,
       Processing
  <2>6. ASSUME NEW a \in Adders, Store(a) PROVE CacheWatched'
    BY <2>6, <2>0 DEF Store, Locked, outerVars, redisVars, chainVars,
       queueVars, boundVars, execVars, processVars, CacheWatched,
       NoneProcessing, Exclusive, Down, Executing, Threads, Mains, Adders,
       Processing
  <2>7. ASSUME NEW t \in Mains, Count(t) PROVE CacheWatched'
    BY <2>7, <2>0 DEF Count, outerVars, redisVars, chainVars, queueVars,
       boundVars, execVars, processVars, CacheWatched, NoneProcessing,
       Exclusive, Down, Executing, Threads, Mains, Adders, Processing
  <2>8. ASSUME NEW t \in Mains, DecideExecute(t) PROVE CacheWatched'
    BY <2>8, <2>0 DEF DecideExecute, StartExecute, outerVars, redisVars,
       chainVars, queueVars, boundVars, execVars, processVars, CacheWatched,
       NoneProcessing, Exclusive, Down, Executing, Threads, Mains, Adders,
       Processing
  <2>9. ASSUME NEW t \in Mains, DecideDone(t) PROVE CacheWatched'
    <3>1. CASE counted[t] = 0
      <4>1. Cardinality(cache) <= 0
        BY <2>9, <3>1 DEF DecideDone, CacheBounded
      <4>2. cache = {}
        BY <2>0, <4>1, CacheFinite
      <4> QED
        BY <2>9, <4>2 DEF DecideDone, outerVars, redisVars, CacheWatched
    <3>2. CASE counted[t] # 0
      <4>1. counted[t] \in Nat /\ counted[t] < BatchSize
        BY <2>9, <2>0 DEF DecideDone, Threads
      <4>2. counted[t] % BatchSize = counted[t]
        BY <4>1
      <4>3. NeedsTimer(t)
        BY <3>2, <4>2 DEF NeedsTimer
      <4> QED
        BY <2>9, <4>3 DEF DecideDone, CacheWatched
    <3> QED
      BY <3>1, <3>2
  <2>10. ASSUME NEW t \in Threads, Take(t) PROVE CacheWatched'
    <3>1. cache' = cache \ Lowest(want[t]) /\ pc' = [pc EXCEPT ![t] = "validate"]
          /\ UNCHANGED <<up, timer, want>>
      BY <2>10 DEF Take
    <3> SUFFICES ASSUME cache' # {} PROVE CacheWatched'
      BY DEF CacheWatched
    <3>2. cache # {}
      BY <3>1
    <3>3. CASE Down \/ timer
      BY <2>10, <2>0, <3>1, <3>3 DEF CacheWatched, Take, Down, Threads, Mains
    <3>4. CASE ~NoneProcessing
      BY <2>0, <3>1, <3>4 DEF CacheWatched, NoneProcessing, Threads, Mains,
         Processing
    <3>5. CASE NoneProcessing /\ ~Down /\ ~timer
      <4>1. PICK r \in TimerRuns : Executing(r)
        BY <3>2, <3>5 DEF CacheWatched, NoneProcessing
      <4>2. CASE t = r
        <5>1. want[t] = BatchSize
          BY <4>1, <4>2 DEF Executing
        <5>2. Cardinality(cache) < BatchSize
          BY <3>5 DEF CacheBounded
        <5>3. cache \ Lowest(BatchSize) = {}
          BY <5>2, CacheLeft
        <5> QED
          BY <3>1, <5>1, <5>3
      <4>3. CASE t # r
        BY <2>0, <3>1, <4>1, <4>3 DEF CacheWatched, Executing, Threads
      <4> QED
        BY <4>2, <4>3
    <3> QED
      BY <3>3, <3>4, <3>5
  <2>11. ASSUME NEW t \in Threads, Validate(t) PROVE CacheWatched'
    BY <2>11, <2>0 DEF Validate, AfterExecute, outerVars, redisVars, chainVars,
       queueVars, boundVars, execVars, processVars, CacheWatched,
       NoneProcessing, Exclusive, Down, Executing, Threads, Mains, Adders,
       Processing
  <2>12. ASSUME NEW r \in TimerRuns, TimerFires(r) PROVE CacheWatched'
    BY <2>12, <2>0 DEF TimerFires, StartExecute, outerVars, redisVars,
       chainVars, queueVars, boundVars, execVars, processVars, CacheWatched,
       NoneProcessing, Exclusive, Down, Executing, Threads, Mains, Adders,
       Processing
  <2>13. CASE UNCHANGED watchVars
    BY <2>13 DEF watchVars, CacheWatched, NoneProcessing, Exclusive, Down,
       Executing, Threads, Mains, Adders, Processing
  <2> QED
    BY Cases, <2>1, <2>2, <2>3, <2>4, <2>5, <2>6, <2>7, <2>8, <2>9, <2>10,
       <2>11, <2>12, <2>13
<1> QED
  BY <1>1

(* The three parts together are inductive.                                   *)
LEMMA WatchInvKept == Spec => []WatchInv
<1>1. Init => Exclusive /\ CacheBounded /\ CacheWatched
  <2> SUFFICES ASSUME Init PROVE Exclusive /\ CacheBounded /\ CacheWatched
    OBVIOUS
  <2>1. pc = [t \in Threads |-> IF t = Start THEN "count" ELSE "idle"]
    BY DEF Init, Idle
  <2>2. up = FALSE /\ timer = FALSE /\ cache = {}
    BY DEF Init
  <2>3. ~NoneProcessing
    BY <2>1 DEF NoneProcessing, Threads, Mains, Processing
  <2>4. Exclusive
    BY <2>1, <2>2, DepositsAssumption DEF Exclusive, Threads, Mains, Adders,
       Processing
  <2>5. \A t \in Mains : pc[t] # "decide"
    BY <2>1 DEF Threads, Mains
  <2> QED
    BY <2>2, <2>3, <2>4, <2>5 DEF CacheBounded, CacheWatched
<1>2. TypeOK /\ TypeOK' /\ Exclusive /\ CacheBounded /\ CacheWatched /\ [Next]_vars
      => Exclusive' /\ CacheBounded' /\ CacheWatched'
  BY ExclusiveKept, CacheBoundedKept, CacheWatchedKept
<1> QED
  BY <1>1, <1>2, TypeCorrect, PTL DEF Spec, WatchInv

(* Deposits in the cache are always attended to: unless the process is down, *)
(* a timer is set, a thread is still counting, or a timer's execution is     *)
(* about to take them all.                                                   *)
THEOREM CacheAttended == Spec => []CacheWatched
<1>1. WatchInv => CacheWatched
  BY DEF WatchInv
<1> QED
  BY <1>1, WatchInvKept, PTL


-----------------------------------------------------------------------------
(* A set of naturals that is not empty has a least element, and one with a   *)
(* bound a greatest.                                                         *)
LEMMA LeastElement ==
  ASSUME NEW T, T \subseteq Nat, T # {}
  PROVE  \E m \in T : \A k \in T : m <= k
<1>1. PICK m \in T : \A k \in T : <<k, m>> \notin OpToRel(<, Nat)
  BY NatLessThanWellFounded, WFMin
<1>2. ASSUME NEW k \in T PROVE m <= k
  <2>1. <<k, m>> \notin {ss \in Nat \X Nat : ss[1] < ss[2]}
    BY <1>1 DEF OpToRel
  <2>2. k \in Nat /\ m \in Nat
    OBVIOUS
  <2> QED
    BY <2>1, <2>2
<1> QED
  BY <1>2

LEMMA GreatestElement ==
  ASSUME NEW n \in Nat, NEW T \in SUBSET (1..n), T # {}
  PROVE  \E m \in T : \A k \in T : k <= m
<1> DEFINE U == {n - k : k \in T}
<1>1. U \subseteq Nat /\ U # {}
  <2>1. \A k \in T : n - k \in Nat
    OBVIOUS
  <2> QED
    BY <2>1
<1>2. PICK u \in U : \A w \in U : u <= w
  BY <1>1, LeastElement
<1>3. PICK m \in T : u = n - m
  OBVIOUS
<1>4. ASSUME NEW k \in T PROVE k <= m
  <2>1. n - m <= n - k
    BY <1>2, <1>3
  <2> QED
    BY <2>1
<1> QED
  BY <1>4

(* zpopmin(n) answers with no more than n deposits.                          *)
LEMMA LowestSize ==
  ASSUME TypeOK, NEW n \in Nat
  PROVE  Cardinality(Lowest(n)) <= n
<1>1. submitted \in Nat /\ Lowest(n) \in SUBSET (1..submitted) /\ cache \in SUBSET (1..submitted)
  <2>1. submitted \in Nat /\ cache \in SUBSET (1..submitted)
    BY DepositsAssumption DEF TypeOK
  <2>2. Lowest(n) \subseteq cache
    BY DEF Lowest
  <2> QED
    BY <2>1, <2>2
<1>2. CASE Lowest(n) = {}
  BY <1>2, FS_EmptySet
<1>3. CASE Lowest(n) # {}
  <2>1. PICK d \in Lowest(n) : \A e \in Lowest(n) : e <= d
    BY <1>1, <1>3, GreatestElement
  <2> DEFINE Below == {e \in cache : e < d}
             Others == Lowest(n) \ {d}
  <2>2. Cardinality(Below) < n
    BY <2>1 DEF Lowest
  <2>3. Others \subseteq Below
    BY <1>1, <2>1 DEF Lowest
  <2>4. Below \in SUBSET (1..submitted)
    BY <1>1
  <2> HIDE DEF Below
  <2>5. /\ Cardinality(Others) <= Cardinality(Below)
        /\ Cardinality(Others) \in Nat /\ Cardinality(Below) \in Nat
    BY <1>1, <2>3, <2>4, Counting
  <2>6. Cardinality(Others) = Cardinality(Lowest(n)) - 1
    <3>1. IsFiniteSet(Lowest(n))
      BY <1>1, FS_Interval, FS_Subset
    <3> QED
      BY <2>1, <3>1, FS_RemoveElement
  <2>7. Cardinality(Lowest(n)) \in Nat
    BY <1>1, Counting
  <2> HIDE DEF Others
  <2> QED
    BY <2>2, <2>5, <2>6, <2>7
<1> QED
  BY <1>2, <1>3

LEMMA UnionSize ==
  ASSUME NEW n \in Nat, NEW S \in SUBSET (1..n), NEW T \in SUBSET (1..n)
  PROVE  Cardinality(S \cup T) <= Cardinality(S) + Cardinality(T)
<1>1. IsFiniteSet(S) /\ IsFiniteSet(T)
  <2>1. IsFiniteSet(1..n)
    BY FS_Interval
  <2> QED
    BY <2>1, FS_Subset
<1>2. /\ Cardinality(S \cup T) = Cardinality(S) + Cardinality(T) - Cardinality(S \cap T)
      /\ Cardinality(S) \in Nat /\ Cardinality(T) \in Nat
  BY <1>1, FS_Union, FS_CardinalityType
<1>3. Cardinality(S \cap T) \in Nat
  <2>1. S \cap T \in SUBSET (1..n)
    OBVIOUS
  <2> QED
    BY <2>1, Counting
<1> QED
  BY <1>2, <1>3

-----------------------------------------------------------------------------
(* What a thread holds at each of its steps: what it took until it is        *)
(* validated, the batch until it is handed over, and together no more than a *)
(* batch.                                                                    *)
Hand(t) ==
  /\ pc[t] # "validate" => taken[t] = {}
  /\ pc[t] \notin {"take", "validate"} => batch[t] = {}
  /\ pc[t] \in {"take", "validate"} => want[t] = BatchSize - Cardinality(batch[t])
  /\ Cardinality(taken[t]) <= want[t]

HandInv == \A t \in Threads : Hand(t)

Fits(q) == \A i \in DOMAIN q : q[i] # {} /\ Cardinality(q[i]) <= BatchSize

HandedFits == Fits(posting) /\ Fits(jobs) /\ Fits(txs)

(* What a thread has validated fits the batch it was filling.                *)
LEMMA GoodFits ==
  ASSUME TypeOK, HandInv, NEW t \in Threads, pc[t] = "validate", NEW S \in SUBSET taken[t]
  PROVE  Cardinality(batch[t] \cup S) \in 0..BatchSize
<1>1. /\ submitted \in Nat /\ batch[t] \in SUBSET (1..submitted)
      /\ taken[t] \in SUBSET (1..submitted) /\ S \in SUBSET (1..submitted)
      /\ BatchSize \in Nat
  BY DepositsAssumption DEF TypeOK
<1>2. /\ want[t] = BatchSize - Cardinality(batch[t]) /\ Cardinality(taken[t]) <= want[t]
  BY DEF HandInv, Hand
<1>3. /\ Cardinality(S) <= Cardinality(taken[t]) /\ Cardinality(S) \in Nat
      /\ Cardinality(taken[t]) \in Nat /\ Cardinality(batch[t]) \in Nat
      /\ Cardinality(batch[t] \cup S) \in Nat
  BY <1>1, Counting
<1>4. Cardinality(batch[t] \cup S) <= Cardinality(batch[t]) + Cardinality(S)
  BY <1>1, UnionSize
<1> QED
  BY <1>1, <1>2, <1>3, <1>4

LEMMA HandInvKept ==
  ASSUME TypeOK, HandInv, [Next]_vars PROVE HandInv'
<1> USE DEF HandInv, Hand, outerVars, redisVars, execVars, processVars
<1>0. /\ pc \in [Threads -> Steps] /\ want \in [Threads -> 0..BatchSize] /\ BatchSize \in Nat
      /\ taken \in [Threads -> SUBSET (1..submitted)]
      /\ batch \in [Threads -> SUBSET (1..submitted)]
      /\ Mains \subseteq Threads /\ Adders \subseteq Mains /\ TimerRuns \subseteq Threads
      /\ Watcher \in Adders /\ Reprocess \in Adders /\ Start \in Mains
  BY DepositsAssumption DEF TypeOK, Threads, Mains, Adders
<1>e. Cardinality({}) = 0
  BY FS_EmptySet
<1>1. CASE Watch \/ Repop \/ SavePosition \/ Restart
  BY <1>0, <1>1 DEF Watch, Repop, SavePosition, Restart, Down
<1>2. CASE \E t \in Threads : (t \in Adders /\ Store(t)) \/ (t \in Mains /\ Count(t))
  BY <1>0, <1>2 DEF Store, Count
<1>3. CASE \E t \in Mains : DecideDone(t)
  <2>1. PICK t \in Threads : DecideDone(t)
    BY <1>0, <1>3
  <2>2. /\ pc[t] = "decide" /\ pc' = [pc EXCEPT ![t] = IF t = Watcher THEN "save" ELSE "idle"]
        /\ want' = [want EXCEPT ![t] = 0] /\ UNCHANGED <<taken, batch>>
    BY <2>1 DEF DecideDone
  <2>3. taken[t] = {} /\ batch[t] = {}
    BY <2>2
  <2>4. pc'[t] \in {"save", "idle"} /\ want'[t] = 0
    BY <1>0, <2>2
  <2>5. \A u \in Threads : u # t => pc'[u] = pc[u] /\ want'[u] = want[u]
    BY <1>0, <2>2
  <2>7. taken'[t] = {} /\ batch'[t] = {}
    BY <2>2, <2>3
  <2> HIDE DEF HandInv
  <2>8. Hand(t)'
    BY <1>0, <1>e, <2>4, <2>7
  <2>9. ASSUME NEW u \in Threads, u # t PROVE Hand(u)'
    <3>1. Hand(u)
      BY DEF HandInv
    <3> QED
      BY <2>2, <2>5, <2>9, <3>1
  <2> QED
    BY <2>8, <2>9 DEF HandInv
<1>4. CASE \E t \in Threads : pc[t] \in {"decide", "idle"} /\ StartExecute(t)
  <2>1. PICK t \in Threads : pc[t] \in {"decide", "idle"} /\ StartExecute(t)
    BY <1>4
  <2>2. /\ pc' = [pc EXCEPT ![t] = "take"] /\ want' = [want EXCEPT ![t] = BatchSize]
        /\ UNCHANGED <<taken, batch>>
    BY <2>1 DEF StartExecute
  <2>3. taken[t] = {} /\ batch[t] = {}
    BY <2>1
  <2>4. pc'[t] = "take" /\ want'[t] = BatchSize
    BY <1>0, <2>2
  <2>5. \A u \in Threads : u # t => pc'[u] = pc[u] /\ want'[u] = want[u]
    BY <1>0, <2>2
  <2>7. taken'[t] = {} /\ batch'[t] = {}
    BY <2>2, <2>3
  <2> HIDE DEF HandInv
  <2>8. Hand(t)'
    BY <1>0, <1>e, <2>4, <2>7
  <2>9. ASSUME NEW u \in Threads, u # t PROVE Hand(u)'
    <3>1. Hand(u)
      BY DEF HandInv
    <3> QED
      BY <2>2, <2>5, <2>9, <3>1
  <2> QED
    BY <2>8, <2>9 DEF HandInv
<1>5. CASE \E t \in Threads : Take(t)
  <2>1. PICK t \in Threads : Take(t)
    BY <1>5
  <2>2. Cardinality(Lowest(want[t])) <= want[t]
    BY <1>0, LowestSize
  <2> QED
    BY <1>0, <2>1, <2>2 DEF Take
<1>6. CASE \E t \in Threads : Validate(t)
  <2>1. PICK t \in Threads : Validate(t)
    BY <1>6
  <2>2. PICK un \in SUBSET taken[t] :
          LET good == batch[t] \cup Passes(t, un) IN
            \/ /\ batch' = [batch EXCEPT ![t] = good]
               /\ want' = [want EXCEPT ![t] = Missing(good)]
               /\ pc' = [pc EXCEPT ![t] = "take"]
            \/ /\ batch' = [batch EXCEPT ![t] = {}]
               /\ want' = [want EXCEPT ![t] = 0]
               /\ pc' = [pc EXCEPT ![t] = AfterExecute(t)]
    BY <2>1 DEF Validate
  <2>3. taken' = [taken EXCEPT ![t] = {}] /\ pc[t] = "validate"
    BY <2>1 DEF Validate
  <2>4. AfterExecute(t) \in {"idle", "count"}
    BY DEF AfterExecute
  <2> DEFINE good == batch[t] \cup Passes(t, un)
  <2>5. Cardinality(good) \in 0..BatchSize
    BY <2>3, GoodFits DEF Passes
  <2>6. CASE /\ batch' = [batch EXCEPT ![t] = good]
             /\ want' = [want EXCEPT ![t] = Missing(good)]
             /\ pc' = [pc EXCEPT ![t] = "take"]
    <3> HIDE DEF good
    <3> QED
      BY <1>0, <1>e, <2>3, <2>5, <2>6 DEF Missing
  <2>7. CASE /\ batch' = [batch EXCEPT ![t] = {}]
             /\ want' = [want EXCEPT ![t] = 0]
             /\ pc' = [pc EXCEPT ![t] = AfterExecute(t)]
    BY <1>0, <1>e, <2>3, <2>4, <2>7
  <2> QED
    BY <2>2, <2>6, <2>7
<1>7. CASE Crash
  BY <1>0, <1>e, <1>7 DEF Crash, Idle
<1>8. CASE UNCHANGED <<pc, want, taken, batch>>
  BY <1>8
<1>9. /\ Post \/ Submit \/ AppendDeposits => UNCHANGED <<pc, want, taken, batch>>
      /\ \A i : Prove(i) \/ ProveFails(i) \/ WorkerCrash(i) => UNCHANGED <<pc, want, taken, batch>>
      /\ \A d : Refund(d) \/ Requeue(d) => UNCHANGED <<pc, want, taken, batch>>
      /\ UNCHANGED vars => UNCHANGED <<pc, want, taken, batch>>
  BY DEF Post, Submit, AppendDeposits, Prove, ProveFails, WorkerCrash, Refund, Requeue, vars
<1>10. /\ \A t \in Mains : DecideExecute(t) => pc[t] \in {"decide", "idle"} /\ StartExecute(t)
       /\ \A t \in TimerRuns : TimerFires(t) => pc[t] \in {"decide", "idle"} /\ StartExecute(t)
  BY DEF DecideExecute, TimerFires
<1> HIDE DEF HandInv
<1> QED
  BY <1>0, <1>1, <1>2, <1>3, <1>4, <1>5, <1>6, <1>7, <1>8, <1>9, <1>10
  DEF Next, Processes, Executes

(* Removing one element of a sequence leaves the others, in their order.     *)
LEMMA RemoveAtFacts ==
  ASSUME NEW S, NEW q \in Seq(S), NEW i \in DOMAIN q
  PROVE  LET r == RemoveAt(q, i) IN
         /\ r \in Seq(S) /\ Len(r) = Len(q) - 1
         /\ \A j \in DOMAIN r : r[j] = q[IF j < i THEN j ELSE j + 1]
         /\ \A j \in DOMAIN r : j \in Nat /\ j \in DOMAIN q /\ j + 1 \in DOMAIN q
<1> PICK r : r = RemoveAt(q, i)
  OBVIOUS
<1> DEFINE x == SubSeq(q, 1, i - 1)
           y == SubSeq(q, i + 1, Len(q))
<1>1. /\ x \in Seq(S) /\ Len(x) = i - 1 /\ \A j \in 1..(i - 1) : x[j] = q[j]
  OBVIOUS
<1>2. /\ y \in Seq(S) /\ Len(y) = Len(q) - i /\ \A j \in 1..(Len(q) - i) : y[j] = q[j + i]
  OBVIOUS
<1>3. r = x \o y
  BY DEF RemoveAt
<1> HIDE DEF x, y
<1>4. /\ x \o y \in Seq(S) /\ Len(x \o y) = Len(x) + Len(y)
      /\ \A j \in 1..(Len(x) + Len(y)) :
           (x \o y)[j] = IF j <= Len(x) THEN x[j] ELSE y[j - Len(x)]
  BY <1>1, <1>2, ConcatProperties
<1>5. /\ r \in Seq(S) /\ Len(r) = Len(q) - 1 /\ i \in 1..Len(q) /\ Len(q) \in Nat
      /\ \A j \in DOMAIN r : r[j] = IF j <= Len(x) THEN x[j] ELSE y[j - Len(x)]
  <2>1. r \in Seq(S) /\ Len(r) = Len(x) + Len(y) /\ Len(x) \in Nat /\ Len(y) \in Nat
    BY <1>1, <1>2, <1>3, <1>4
  <2>2. Len(r) = Len(q) - 1 /\ DOMAIN r = 1..(Len(x) + Len(y))
    BY <1>1, <1>2, <2>1
  <2> QED
    BY <1>3, <1>4, <2>1, <2>2
<1>6. ASSUME NEW j \in DOMAIN r
      PROVE  /\ r[j] = q[IF j < i THEN j ELSE j + 1]
             /\ j \in Nat /\ j \in DOMAIN q /\ j + 1 \in DOMAIN q
  <2>1. j \in 1..(Len(q) - 1)
    BY <1>5
  <2>2. CASE j < i
    BY <1>1, <1>5, <2>1, <2>2
  <2>3. CASE j >= i
    <3>1. j - (i - 1) \in 1..(Len(q) - i) /\ r[j] = y[j - (i - 1)]
      BY <1>1, <1>5, <2>1, <2>3
    <3>2. PICK k \in 1..(Len(q) - i) : k = j - (i - 1)
      BY <3>1
    <3>3. r[j] = y[k] /\ y[k] = q[k + i]
      BY <1>2, <3>1, <3>2
    <3>5. k + i = j + 1
      BY <1>5, <2>1, <3>2
    <3>4. j \in Nat /\ j \in DOMAIN q /\ j + 1 \in DOMAIN q /\ ~(j < i)
      BY <1>5, <2>1, <2>3
    <3> QED
      BY <3>3, <3>4, <3>5
  <2> QED
    BY <1>5, <2>1, <2>2, <2>3
<1> QED
  BY <1>5, <1>6

(* Moving a batch from one queue to another.                                 *)
LEMMA FitsFacts ==
  ASSUME NEW S, NEW q \in Seq(S), Fits(q)
  PROVE  /\ \A e \in S : e # {} /\ Cardinality(e) <= BatchSize => Fits(Append(q, e))
         /\ \A i \in DOMAIN q : Fits(RemoveAt(q, i))
         /\ q # <<>> => Fits(Tail(q)) /\ Head(q) # {} /\ Cardinality(Head(q)) <= BatchSize
<1>1. ASSUME NEW e \in S, e # {}, Cardinality(e) <= BatchSize PROVE Fits(Append(q, e))
  <2>1. \A i \in DOMAIN Append(q, e) : Append(q, e)[i] = e \/ \E k \in DOMAIN q : Append(q, e)[i] = q[k]
    OBVIOUS
  <2> QED
    BY <1>1, <2>1 DEF Fits
<1>2. ASSUME NEW i \in DOMAIN q PROVE Fits(RemoveAt(q, i))
  <2> DEFINE r == RemoveAt(q, i)
  <2>1. \A j \in DOMAIN r : r[j] = q[IF j < i THEN j ELSE j + 1] /\ j \in DOMAIN q
                            /\ j + 1 \in DOMAIN q
    BY RemoveAtFacts
  <2> HIDE DEF r
  <2>2. Fits(r)
    BY <2>1 DEF Fits
  <2> QED
    BY <2>2 DEF r
<1>3. ASSUME q # <<>> PROVE Fits(Tail(q)) /\ Head(q) # {} /\ Cardinality(Head(q)) <= BatchSize
  <2>1. 1 \in DOMAIN q /\ Head(q) = q[1]
        /\ \A j \in DOMAIN Tail(q) : j + 1 \in DOMAIN q /\ Tail(q)[j] = q[j + 1]
    BY <1>3
  <2> QED
    BY <2>1 DEF Fits
<1> QED
  BY <1>1, <1>2, <1>3

LEMMA HandedFitsKept ==
  ASSUME TypeOK, HandInv, HandedFits, [Next]_vars PROVE HandedFits'
<1> USE DEF HandedFits, outerVars, chainVars, queueVars, processVars
<1>0. /\ posting \in Seq(SUBSET (1..submitted)) /\ jobs \in Seq(SUBSET (1..submitted))
      /\ txs \in Seq(SUBSET (1..submitted)) /\ Threads = Mains \cup TimerRuns
  BY DEF TypeOK, Threads
<1>1. CASE Post
  <2>1. Head(posting) \in SUBSET (1..submitted)
    BY <1>0, <1>1 DEF Post
  <2> QED
    BY <1>0, <1>1, <2>1, FitsFacts DEF Post
<1>2. CASE \E i \in DOMAIN jobs : Prove(i) \/ ProveFails(i) \/ WorkerCrash(i)
  <2>1. PICK i \in DOMAIN jobs : Prove(i) \/ ProveFails(i) \/ WorkerCrash(i)
    BY <1>2
  <2>2. jobs[i] \in SUBSET (1..submitted) /\ jobs[i] # {} /\ Cardinality(jobs[i]) <= BatchSize
    BY <1>0 DEF Fits
  <2>3. Fits(Append(txs, jobs[i])) /\ Fits(RemoveAt(jobs, i))
    BY <1>0, <2>2, FitsFacts
  <2> QED
    BY <2>1, <2>3 DEF Prove, ProveFails, WorkerCrash
<1>3. CASE AppendDeposits
  BY <1>0, <1>3, FitsFacts DEF AppendDeposits
<1>4. CASE \E t \in Threads : Validate(t)
  <2>1. PICK t \in Threads : Validate(t)
    BY <1>4
  <2>2. PICK un \in SUBSET taken[t] :
          posting' \in {posting, IF batch[t] \cup Passes(t, un) = {} THEN posting
                                 ELSE Append(posting, batch[t] \cup Passes(t, un))}
    BY <2>1 DEF Validate
  <2> DEFINE good == batch[t] \cup Passes(t, un)
  <2>3. Cardinality(good) \in 0..BatchSize
    BY <2>1, GoodFits DEF Passes, Validate
  <2>4. good \in SUBSET (1..submitted) /\ BatchSize \in Nat
    BY DepositsAssumption DEF TypeOK, Passes
  <2>5. posting' \in {posting, IF good = {} THEN posting ELSE Append(posting, good)}
    BY <2>2
  <2> HIDE DEF good
  <2>6. good # {} => Fits(Append(posting, good))
    <3>1. Cardinality(good) <= BatchSize
      BY <2>3, <2>4
    <3> QED
      BY <1>0, <2>4, <3>1, FitsFacts
  <2> QED
    BY <2>1, <2>5, <2>6 DEF Validate
<1>5. CASE Crash
  BY <1>5 DEF Crash, Fits
<1>6. CASE UNCHANGED <<posting, jobs, txs>>
  BY <1>6
<1>7. /\ Watch \/ Repop \/ SavePosition \/ Restart \/ Submit => UNCHANGED <<posting, jobs, txs>>
      /\ \A t : Store(t) \/ Count(t) \/ DecideDone(t) \/ DecideExecute(t) \/ TimerFires(t)
                \/ Take(t) => UNCHANGED <<posting, jobs, txs>>
      /\ \A d : Refund(d) \/ Requeue(d) => UNCHANGED <<posting, jobs, txs>>
      /\ UNCHANGED vars => UNCHANGED <<posting, jobs, txs>>
  BY DEF Watch, Repop, SavePosition, Restart, Submit, Store, Count, DecideDone, DecideExecute,
     TimerFires, StartExecute, Take, Refund, Requeue, vars
<1> HIDE DEF HandedFits
<1> QED
  BY <1>0, <1>1, <1>2, <1>3, <1>4, <1>5, <1>6, <1>7 DEF Next, Processes, Executes

(* The three queues in a row: where a batch of Handed is, and back.          *)
LEMMA HandedFacts ==
  ASSUME TypeOK
  PROVE  /\ \A i \in DOMAIN Handed :
              \/ i \in DOMAIN posting /\ Handed[i] = posting[i]
              \/ i - Len(posting) \in DOMAIN jobs /\ Handed[i] = jobs[i - Len(posting)]
              \/ /\ i - Len(posting) - Len(jobs) \in DOMAIN txs
                 /\ Handed[i] = txs[i - Len(posting) - Len(jobs)]
         /\ \A k \in DOMAIN posting : \E i \in DOMAIN Handed : Handed[i] = posting[k]
         /\ \A k \in DOMAIN jobs : \E i \in DOMAIN Handed : Handed[i] = jobs[k]
         /\ \A k \in DOMAIN txs : \E i \in DOMAIN Handed : Handed[i] = txs[k]
<1> DEFINE S == SUBSET (1..submitted)
           front == posting \o jobs
<1>1. posting \in Seq(S) /\ jobs \in Seq(S) /\ txs \in Seq(S)
  BY DEF TypeOK
<1> HIDE DEF S
<1>2. /\ front \in Seq(S) /\ Len(front) = Len(posting) + Len(jobs)
      /\ \A i \in 1..(Len(posting) + Len(jobs)) :
           front[i] = IF i <= Len(posting) THEN posting[i] ELSE jobs[i - Len(posting)]
  BY <1>1, ConcatProperties
<1>2a. front \in Seq(S)
  BY <1>2
<1> HIDE DEF front
<1>3. /\ front \o txs \in Seq(S) /\ Len(front \o txs) = Len(front) + Len(txs)
      /\ \A i \in 1..(Len(front) + Len(txs)) :
           (front \o txs)[i] = IF i <= Len(front) THEN front[i] ELSE txs[i - Len(front)]
  BY <1>1, <1>2a, ConcatProperties
<1>4. Handed = front \o txs
  BY DEF Handed, front
<1>5. /\ Len(posting) \in Nat /\ Len(jobs) \in Nat /\ Len(txs) \in Nat
      /\ DOMAIN posting = 1..Len(posting) /\ DOMAIN jobs = 1..Len(jobs)
      /\ DOMAIN txs = 1..Len(txs)
  BY <1>1
<1>6. DOMAIN Handed = 1..(Len(posting) + Len(jobs) + Len(txs))
  BY <1>2, <1>3, <1>4, <1>5
<1>7. ASSUME NEW i \in DOMAIN Handed
      PROVE  \/ i \in DOMAIN posting /\ Handed[i] = posting[i]
             \/ i - Len(posting) \in DOMAIN jobs /\ Handed[i] = jobs[i - Len(posting)]
             \/ /\ i - Len(posting) - Len(jobs) \in DOMAIN txs
                /\ Handed[i] = txs[i - Len(posting) - Len(jobs)]
  <2>1. CASE i <= Len(posting)
    BY <1>2, <1>3, <1>4, <1>5, <1>6, <2>1
  <2>2. CASE i > Len(posting) /\ i <= Len(posting) + Len(jobs)
    <3>1. i \in 1..(Len(posting) + Len(jobs)) /\ i - Len(posting) \in 1..Len(jobs)
      BY <1>5, <1>6, <2>2
    <3>2. Handed[i] = front[i]
      BY <1>2, <1>3, <1>4, <1>5, <1>6, <2>2
    <3> QED
      BY <1>2, <1>5, <2>2, <3>1, <3>2
  <2>3. CASE i > Len(posting) + Len(jobs)
    <3>1. i - Len(posting) - Len(jobs) \in 1..Len(txs)
          /\ i - Len(front) = i - Len(posting) - Len(jobs)
      BY <1>2, <1>5, <1>6, <2>3
    <3>2. Handed[i] = txs[i - Len(front)]
      <4>1. i \in 1..(Len(front) + Len(txs)) /\ ~(i <= Len(front))
        BY <1>2, <1>5, <1>6, <2>3
      <4> QED
        BY <1>3, <1>4, <4>1
    <3> QED
      BY <1>5, <3>1, <3>2
  <2> QED
    BY <1>5, <1>6, <2>1, <2>2, <2>3
<1>8. ASSUME NEW k \in 1..Len(front) PROVE k \in DOMAIN Handed /\ Handed[k] = front[k]
  <2>1. k \in 1..(Len(front) + Len(txs)) /\ k <= Len(front)
    BY <1>2, <1>5
  <2> QED
    BY <1>2, <1>3, <1>4, <1>6, <2>1
<1>9. ASSUME NEW k \in DOMAIN posting PROVE \E i \in DOMAIN Handed : Handed[i] = posting[k]
  <2>1. k \in 1..Len(front) /\ k \in 1..(Len(posting) + Len(jobs)) /\ k <= Len(posting)
    BY <1>2, <1>5
  <2> QED
    BY <1>2, <1>8, <2>1
<1>10. ASSUME NEW k \in DOMAIN jobs PROVE \E i \in DOMAIN Handed : Handed[i] = jobs[k]
  <2>1. PICK j : j = Len(posting) + k
    OBVIOUS
  <2>2. /\ j \in 1..Len(front) /\ j \in 1..(Len(posting) + Len(jobs))
        /\ ~(j <= Len(posting)) /\ j - Len(posting) = k
    BY <1>2, <1>5, <2>1
  <2> QED
    BY <1>2, <1>8, <2>2
<1>11. ASSUME NEW k \in DOMAIN txs PROVE \E i \in DOMAIN Handed : Handed[i] = txs[k]
  <2>1. PICK j : j = Len(front) + k
    OBVIOUS
  <2>2. /\ j \in 1..(Len(front) + Len(txs)) /\ ~(j <= Len(front)) /\ j - Len(front) = k
    BY <1>2, <1>5, <2>1
  <2>3. j \in DOMAIN Handed
    BY <1>2, <1>5, <1>6, <2>2
  <2> QED
    BY <1>3, <1>4, <2>2, <2>3
<1> QED
  BY <1>7, <1>9, <1>10, <1>11

LEMMA HandedAlways == Spec => [](TypeOK /\ HandInv /\ HandedFits)
<1>1. Init => HandInv /\ HandedFits
  <2> SUFFICES ASSUME Init PROVE HandInv /\ HandedFits
    OBVIOUS
  <2>1. \A t \in Threads : taken[t] = {} /\ batch[t] = {} /\ want[t] = 0
                           /\ pc[t] \in {"idle", "count"}
    BY DEF Init, Idle
  <2>2. HandInv
    BY <2>1, FS_EmptySet DEF HandInv, Hand
  <2> QED
    BY <2>2 DEF Init, HandedFits, Fits
<1> QED
  BY <1>1, HandInvKept, HandedFitsKept, TypeCorrect, PTL DEF Spec

(* A batch is never empty nor larger than the circuit's BatchSize, however   *)
(* many rounds of validation fill it and whatever else takes from the cache. *)
THEOREM BatchesFit == Spec => []BatchFits
<1>1. TypeOK /\ HandedFits => BatchFits
  <2> SUFFICES ASSUME TypeOK, HandedFits, NEW i \in DOMAIN Handed
               PROVE  Handed[i] # {} /\ Cardinality(Handed[i]) <= BatchSize
    BY DEF BatchFits
  <2>1. \/ \E k \in DOMAIN posting : Handed[i] = posting[k]
        \/ \E k \in DOMAIN jobs : Handed[i] = jobs[k]
        \/ \E k \in DOMAIN txs : Handed[i] = txs[k]
    BY HandedFacts
  <2> QED
    BY <2>1 DEF HandedFits, Fits
<1> QED
  BY <1>1, HandedAlways, PTL

-----------------------------------------------------------------------------
(* What the watcher is at: the deposits that follow its position.            *)
WatcherInv ==
  /\ \A t \in Threads : pc[t] = "acquire" => t \in Adders
  /\ \A t \in Threads : pc[t] = "save" => t = Watcher
  /\ IF pc[Watcher] = "idle" THEN values[Watcher] = {}
     ELSE \E last \in (position + 1)..submitted : values[Watcher] = (position + 1)..last

(* The places of deposits.                                                   *)
All(q)  == UNION {q[i] : i \in DOMAIN q}
Carry   == UNION {Carried(t) : t \in Threads}
Posted  == All(posting)
Proving == All(jobs)
Queued  == All(txs)
Waiting == ToSet(requeued)
Held    == Carry \cup Posted \cup Proving \cup Queued \cup Waiting \cup cache \cup failed

(* As long as nothing crashed: what is held has been seen by the watcher,    *)
(* and it is held once, ...                                                  *)
Seen == 1..position \cup values[Watcher]

Apart(q) == \A i, k \in DOMAIN q : q[i] \cap q[k] # {} => i = k
Alone    == \A t, u \in Threads : Carried(t) \cap Carried(u) # {} => t = u
Single   == Apart(posting) /\ Apart(jobs) /\ Apart(txs) /\ IsInjective(requeued)
Disjoint ==
  /\ Proving \cap Posted = {}
  /\ Queued \cap (Posted \cup Proving) = {}
  /\ Waiting \cap (Posted \cup Proving \cup Queued) = {}
  /\ cache \cap (Posted \cup Proving \cup Queued \cup Waiting) = {}
  /\ failed \cap (Posted \cup Proving \cup Queued \cup Waiting \cup cache) = {}
  /\ Carry \cap (Posted \cup Proving \cup Queued \cup Waiting \cup cache \cup failed) = {}

OnceInv == ~crashed => Held \subseteq Seen /\ Alone /\ Single /\ Disjoint

(* ... and whatever happens, what it has seen is held.                       *)
LostInv == (Seen \cap pending) \ (dropped \cup Invalid) \subseteq Held

LEMMA AppendPlaces ==
  ASSUME NEW S, NEW q \in Seq(S), NEW e \in S
  PROVE  LET r == Append(q, e) IN
         /\ All(r) = All(q) \cup e
         /\ Apart(q) /\ e \cap All(q) = {} => Apart(r)
<1> PICK r : r = Append(q, e)
  OBVIOUS
<1>1. /\ r \in Seq(S) /\ Len(r) = Len(q) + 1 /\ r[Len(q) + 1] = e
      /\ \A i \in 1..Len(q) : r[i] = q[i]
  BY AppendProperties
<1>2. DOMAIN q = 1..Len(q) /\ DOMAIN r = 1..(Len(q) + 1) /\ Len(q) \in Nat
  BY <1>1
<1>3. /\ \A i \in DOMAIN q : i \in DOMAIN r /\ r[i] = q[i]
      /\ Len(q) + 1 \in DOMAIN r
      /\ \A i \in DOMAIN r : i \in DOMAIN q \/ i = Len(q) + 1
  BY <1>1, <1>2
<1>4. All(r) = All(q) \cup e
  BY <1>1, <1>3 DEF All
<1>5. ASSUME Apart(q), e \cap All(q) = {} PROVE Apart(r)
  <2>1. \A i \in DOMAIN q : q[i] \cap e = {}
    BY <1>5 DEF All
  <2> QED
    BY <1>1, <1>3, <1>5, <2>1 DEF Apart
<1> QED
  BY <1>4, <1>5

LEMMA RemoveAtPlaces ==
  ASSUME NEW S, NEW q \in Seq(S), NEW i \in DOMAIN q
  PROVE  LET r == RemoveAt(q, i) IN
         /\ All(q) = All(r) \cup q[i]
         /\ Apart(q) => Apart(r) /\ All(r) \cap q[i] = {}
<1> PICK r : r = RemoveAt(q, i)
  OBVIOUS
<1> DEFINE at(j) == IF j < i THEN j ELSE j + 1
<1>1. /\ Len(r) = Len(q) - 1 /\ r \in Seq(S)
      /\ \A j \in DOMAIN r : r[j] = q[at(j)] /\ j \in Nat /\ j \in DOMAIN q /\ j + 1 \in DOMAIN q
  <2>1. LET rest == RemoveAt(q, i) IN
        /\ rest \in Seq(S) /\ Len(rest) = Len(q) - 1
        /\ \A j \in DOMAIN rest : rest[j] = q[IF j < i THEN j ELSE j + 1]
        /\ \A j \in DOMAIN rest : j \in Nat /\ j \in DOMAIN q /\ j + 1 \in DOMAIN q
    BY RemoveAtFacts
  <2>2. \A j \in DOMAIN r : r[j] = q[at(j)]
    BY <2>1
  <2> HIDE DEF at
  <2> QED
    BY <2>1, <2>2
<1>2. /\ DOMAIN q = 1..Len(q) /\ DOMAIN r = 1..(Len(q) - 1) /\ Len(q) \in Nat /\ i \in Nat
  BY <1>1
<1>3. \A j \in DOMAIN r : at(j) \in DOMAIN q /\ at(j) # i
  BY <1>1, <1>2
<1>4. \A j, k \in DOMAIN r : at(j) = at(k) => j = k
  BY <1>1, <1>2
<1>5. \A k \in DOMAIN q : k = i \/ \E j \in DOMAIN r : at(j) = k
  <2> SUFFICES ASSUME NEW k \in DOMAIN q, k # i PROVE \E j \in DOMAIN r : at(j) = k
    OBVIOUS
  <2>1. CASE k < i
    BY <1>2, <2>1
  <2>2. CASE k > i
    <3>1. k - 1 \in DOMAIN r /\ at(k - 1) = k
      BY <1>2, <2>2
    <3> QED
      BY <3>1
  <2> QED
    BY <1>2, <2>1, <2>2
<1> HIDE DEF at
<1>6. All(q) = All(r) \cup q[i]
  BY <1>1, <1>3, <1>5 DEF All
<1>7. ASSUME Apart(q) PROVE Apart(r) /\ All(r) \cap q[i] = {}
  <2>1. Apart(r)
    <3> SUFFICES ASSUME NEW j \in DOMAIN r, NEW k \in DOMAIN r, r[j] \cap r[k] # {} PROVE j = k
      BY DEF Apart
    <3>1. /\ at(j) \in DOMAIN q /\ at(k) \in DOMAIN q
          /\ q[at(j)] \cap q[at(k)] # {}
      BY <1>1, <1>3
    <3>2. at(j) = at(k)
      BY <1>7, <3>1 DEF Apart
    <3> QED
      BY <1>4, <3>2
  <2>2. All(r) \cap q[i] = {}
    BY <1>1, <1>3, <1>7 DEF Apart, All
  <2> QED
    BY <2>1, <2>2
<1> QED
  BY <1>6, <1>7

LEMMA TailPlaces ==
  ASSUME NEW S, NEW q \in Seq(S), q # <<>>
  PROVE  LET r == Tail(q)
             e == Head(q) IN
         /\ e \in S /\ All(q) = All(r) \cup e
         /\ Apart(q) => Apart(r) /\ All(r) \cap e = {}
<1> PICK r : r = Tail(q)
  OBVIOUS
<1> PICK e : e = Head(q)
  OBVIOUS
<1>1. /\ r \in Seq(S) /\ Len(r) = Len(q) - 1 /\ e \in S /\ e = q[1]
      /\ \A j \in 1..Len(r) : r[j] = q[j + 1]
  BY HeadTailProperties
<1>2. /\ DOMAIN q = 1..Len(q) /\ DOMAIN r = 1..(Len(q) - 1) /\ Len(q) \in Nat
      /\ 1 \in DOMAIN q
  BY <1>1
<1>3. \A j \in DOMAIN r : j \in Nat /\ j + 1 \in DOMAIN q /\ j + 1 # 1 /\ r[j] = q[j + 1]
  BY <1>1, <1>2
<1>4. \A k \in DOMAIN q : k = 1 \/ (k - 1 \in DOMAIN r /\ r[k - 1] = q[k])
  BY <1>1, <1>2
<1>5. All(q) = All(r) \cup e
  <2>1. ASSUME NEW d \in All(q) PROVE d \in All(r) \cup e
    <3>1. PICK k \in DOMAIN q : d \in q[k]
      BY <2>1 DEF All
    <3>2. CASE k = 1
      BY <1>1, <3>1, <3>2
    <3>3. CASE k - 1 \in DOMAIN r /\ r[k - 1] = q[k]
      BY <3>1, <3>3 DEF All
    <3> QED
      BY <1>4, <3>2, <3>3
  <2>2. ASSUME NEW d \in All(r) PROVE d \in All(q)
    <3>1. PICK j \in DOMAIN r : d \in r[j]
      BY <2>2 DEF All
    <3> QED
      BY <1>3, <3>1 DEF All
  <2>3. e \subseteq All(q)
    BY <1>1, <1>2 DEF All
  <2> QED
    BY <2>1, <2>2, <2>3
<1>6. ASSUME Apart(q) PROVE Apart(r) /\ All(r) \cap e = {}
  <2>1. ASSUME NEW j \in DOMAIN r, NEW k \in DOMAIN r, r[j] \cap r[k] # {} PROVE j = k
    <3>1. j + 1 = k + 1
      BY <1>3, <1>6, <2>1 DEF Apart
    <3> QED
      BY <1>3, <3>1
  <2>2. All(r) \cap e = {}
    BY <1>1, <1>2, <1>3, <1>6 DEF Apart, All
  <2> QED
    BY <2>1, <2>2 DEF Apart
<1> QED
  BY <1>1, <1>5, <1>6

(* Splitting and extending the reprocess list.                               *)
LEMMA SplitPlaces ==
  ASSUME NEW S, NEW q \in Seq(S), NEW n \in 0..Len(q)
  PROVE  LET a == SubSeq(q, 1, n)
             b == SubSeq(q, n + 1, Len(q)) IN
         /\ ToSet(q) = ToSet(a) \cup ToSet(b)
         /\ IsInjective(q) => IsInjective(b) /\ ToSet(a) \cap ToSet(b) = {}
<1> PICK a : a = SubSeq(q, 1, n)
  OBVIOUS
<1> PICK b : b = SubSeq(q, n + 1, Len(q))
  OBVIOUS
<1>1. Len(q) \in Nat /\ n \in Nat /\ n <= Len(q) /\ DOMAIN q = 1..Len(q)
  OBVIOUS
<1>2. DOMAIN a = 1..n /\ \A j \in 1..n : a[j] = q[j]
  BY <1>1
<1>3. DOMAIN b = 1..(Len(q) - n) /\ \A j \in 1..(Len(q) - n) : b[j] = q[j + n]
  <2>1. CASE n = 0
    <3>1. b = q
      BY <2>1, SubSeqFull
    <3> QED
      BY <1>1, <2>1, <3>1
  <2>2. CASE n # 0
    <3>1. n \in DOMAIN q
      BY <1>1, <2>2
    <3>2. /\ b \in Seq(S) /\ Len(b) = Len(q) - n
          /\ \A j \in 1..(Len(q) - n) : b[j] = q[j + n]
      BY <3>1
    <3> QED
      BY <3>2
  <2> QED
    BY <2>1, <2>2
<1>4. \A j \in DOMAIN a : j \in Nat /\ j <= n /\ j \in DOMAIN q /\ a[j] = q[j]
  BY <1>1, <1>2
<1>5. \A j \in DOMAIN b : j \in Nat /\ j >= 1 /\ j + n \in DOMAIN q /\ b[j] = q[j + n]
  <2> SUFFICES ASSUME NEW j \in 1..(Len(q) - n)
               PROVE  j \in Nat /\ j >= 1 /\ j + n \in DOMAIN q /\ b[j] = q[j + n]
    BY <1>3
  <2>1. j + n \in 1..Len(q)
    BY <1>1
  <2> QED
    BY <1>1, <1>3, <2>1
<1>6. ASSUME NEW k \in DOMAIN q
      PROVE  \/ k \in DOMAIN a /\ a[k] = q[k]
             \/ k - n \in DOMAIN b /\ b[k - n] = q[k]
  <2>1. CASE k <= n
    <3>1. k \in 1..n
      BY <1>1, <2>1
    <3> QED
      BY <1>2, <3>1
  <2>2. CASE ~(k <= n)
    <3>1. k - n \in 1..(Len(q) - n) /\ (k - n) + n = k
      BY <1>1, <2>2
    <3>2. b[k - n] = q[(k - n) + n]
      BY <1>3, <3>1
    <3> QED
      BY <1>3, <3>1, <3>2
  <2> QED
    BY <2>1, <2>2
<1>7. ToSet(q) = ToSet(a) \cup ToSet(b)
  <2>1. ASSUME NEW e \in ToSet(q) PROVE e \in ToSet(a) \cup ToSet(b)
    <3>1. PICK k \in DOMAIN q : e = q[k]
      BY <2>1 DEF ToSet
    <3> QED
      BY <1>6, <3>1 DEF ToSet
  <2>2. ToSet(a) \subseteq ToSet(q)
    BY <1>4 DEF ToSet
  <2>3. ToSet(b) \subseteq ToSet(q)
    BY <1>5 DEF ToSet
  <2> QED
    BY <2>1, <2>2, <2>3
<1>8. ASSUME IsInjective(q) PROVE IsInjective(b) /\ ToSet(a) \cap ToSet(b) = {}
  <2>1. ASSUME NEW j \in DOMAIN b, NEW k \in DOMAIN b, b[j] = b[k] PROVE j = k
    <3>1. j + n \in DOMAIN q /\ k + n \in DOMAIN q /\ q[j + n] = q[k + n]
      BY <1>5, <2>1
    <3>2. j + n = k + n
      BY <1>8, <3>1 DEF IsInjective
    <3>3. j \in Nat /\ k \in Nat
      BY <1>5
    <3> QED
      BY <1>1, <3>2, <3>3
  <2>2. ASSUME NEW j \in DOMAIN a, NEW k \in DOMAIN b, a[j] = b[k] PROVE FALSE
    <3>1. j \in DOMAIN q /\ k + n \in DOMAIN q /\ q[j] = q[k + n]
      BY <1>4, <1>5, <2>2
    <3>2. j = k + n
      BY <1>8, <3>1 DEF IsInjective
    <3>3. j \in Nat /\ k \in Nat /\ k >= 1 /\ j <= n
      BY <1>4, <1>5
    <3> QED
      BY <1>1, <3>2, <3>3
  <2>3. ToSet(a) \cap ToSet(b) = {}
    BY <2>2 DEF ToSet
  <2> QED
    BY <2>1, <2>3 DEF IsInjective
<1> QED
  BY <1>7, <1>8

LEMMA AppendedSet ==
  ASSUME NEW S, NEW q \in Seq(S), NEW e \in S
  PROVE  LET r == Append(q, e) IN
         /\ ToSet(r) = ToSet(q) \cup {e}
         /\ IsInjective(q) /\ e \notin ToSet(q) => IsInjective(r)
<1> PICK r : r = Append(q, e)
  OBVIOUS
<1>1. /\ r \in Seq(S) /\ Len(r) = Len(q) + 1 /\ r[Len(q) + 1] = e
      /\ \A i \in 1..Len(q) : r[i] = q[i]
  BY AppendProperties
<1>2. DOMAIN q = 1..Len(q) /\ DOMAIN r = 1..(Len(q) + 1) /\ Len(q) \in Nat
  BY <1>1
<1>3. /\ \A i \in DOMAIN q : i \in DOMAIN r /\ r[i] = q[i]
      /\ Len(q) + 1 \in DOMAIN r
      /\ \A i \in DOMAIN r : i \in DOMAIN q \/ i = Len(q) + 1
  BY <1>1, <1>2
<1>4. ToSet(r) = ToSet(q) \cup {e}
  BY <1>1, <1>3 DEF ToSet
<1>5. ASSUME IsInjective(q), e \notin ToSet(q) PROVE IsInjective(r)
  <2>1. \A i \in DOMAIN q : q[i] # e
    BY <1>5 DEF ToSet
  <2> QED
    BY <1>1, <1>3, <1>5, <2>1 DEF IsInjective
<1> QED
  BY <1>4, <1>5

(* A step of one thread.                                                     *)
LEMMA CarryMoves ==
  ASSUME NEW t \in Threads, \A u \in Threads : u # t => Carried(u)' = Carried(u)
  PROVE  /\ Carry' \subseteq Carry \cup Carried(t)' /\ Carried(t)' \subseteq Carry'
         /\ Carry \subseteq Carry' \cup Carried(t) /\ Carried(t) \subseteq Carry
         /\ Alone => Carry' \cap (Carried(t) \ Carried(t)') = {}
         /\ Alone /\ Carried(t)' \cap (Carry \ Carried(t)) = {} => Alone'
<1>1. Threads' = Threads
  BY DEF Threads, Mains, Adders
<1> QED
  BY <1>1 DEF Carry, Alone

LEMMA SamePlaces ==
  /\ posting' = posting => Posted' = Posted /\ (Apart(posting) => Apart(posting'))
  /\ jobs' = jobs => Proving' = Proving /\ (Apart(jobs) => Apart(jobs'))
  /\ txs' = txs => Queued' = Queued /\ (Apart(txs) => Apart(txs'))
  /\ requeued' = requeued => Waiting' = Waiting /\ (IsInjective(requeued) => IsInjective(requeued'))
  /\ UNCHANGED <<pc, values, taken, batch>> => Carry' = Carry /\ (Alone => Alone')
<1>1. /\ posting' = posting => Posted' = Posted /\ (Apart(posting) => Apart(posting'))
      /\ jobs' = jobs => Proving' = Proving /\ (Apart(jobs) => Apart(jobs'))
      /\ txs' = txs => Queued' = Queued /\ (Apart(txs) => Apart(txs'))
      /\ requeued' = requeued => Waiting' = Waiting
                                 /\ (IsInjective(requeued) => IsInjective(requeued'))
  BY DEF Posted, Proving, Queued, Waiting
<1>2. ASSUME UNCHANGED <<pc, values, taken, batch>> PROVE Carry' = Carry /\ (Alone => Alone')
  <2>1. \A t : Carried(t)' = Carried(t)
    BY <1>2 DEF Carried
  <2> QED
    BY <2>1 DEF Carry, Alone
<1> QED
  BY <1>1, <1>2

(* What a thread carries, by its step.                                       *)
LEMMA CarriedAt ==
  ASSUME HandInv, NEW t \in Threads
  PROVE  /\ pc[t] = "acquire" => Carried(t) = values[t]
         /\ pc[t] = "take" => Carried(t) = batch[t]
         /\ pc[t] = "validate" => Carried(t) = taken[t] \cup batch[t]
         /\ pc[t] \notin {"acquire", "take", "validate"} => Carried(t) = {}
BY DEF HandInv, Hand, Carried

LEMMA WatcherInvKept ==
  ASSUME TypeOK, WatcherInv, [Next]_vars PROVE WatcherInv'
<1> USE DEF WatcherInv, outerVars, chainVars, redisVars, execVars, processVars
<1>0. /\ pc \in [Threads -> Steps] /\ values \in [Threads -> SUBSET (1..submitted)]
      /\ submitted \in Nat /\ position \in Nat
      /\ Mains \subseteq Threads /\ Adders \subseteq Mains /\ TimerRuns \subseteq Threads
      /\ Watcher \in Adders /\ Reprocess \in Adders /\ Start \in Mains
      /\ Watcher # Reprocess /\ Watcher # Start /\ Watcher \notin TimerRuns
  BY DepositsAssumption DEF TypeOK, Threads, Mains, Adders
<1>1. CASE Watch \/ Repop
  BY <1>0, <1>1 DEF Watch, Repop
<1>2. CASE SavePosition \/ Restart
  BY <1>0, <1>2 DEF SavePosition, Restart
<1>3. CASE \E t \in Threads : (t \in Adders /\ Store(t)) \/ (t \in Mains /\ Count(t))
  BY <1>0, <1>3 DEF Store, Count
<1>4. CASE \E t \in Mains : DecideDone(t)
  BY <1>0, <1>4 DEF DecideDone
<1>5. CASE \E t \in Threads : StartExecute(t) /\ (t \in TimerRuns \/ pc[t] = "decide")
  BY <1>0, <1>5 DEF StartExecute
<1>6. CASE \E t \in Threads : Take(t)
  BY <1>0, <1>6 DEF Take
<1>7. CASE \E t \in Threads : Validate(t)
  <2>1. PICK t \in Threads : Validate(t)
    BY <1>7
  <2>2. /\ pc[t] = "validate" /\ UNCHANGED <<values, position, submitted>>
        /\ pc' = [pc EXCEPT ![t] = "take"] \/ pc' = [pc EXCEPT ![t] = AfterExecute(t)]
    BY <2>1 DEF Validate
  <2>3. AfterExecute(t) \in {"count", "idle"} /\ (t = Watcher => AfterExecute(t) = "count")
    BY <1>0 DEF AfterExecute
  <2> QED
    BY <1>0, <2>2, <2>3
<1>8. CASE Crash
  BY <1>0, <1>8 DEF Crash, Idle
<1>9. CASE UNCHANGED <<pc, values, position>> /\ submitted' \in {submitted, submitted + 1}
  <2>1. \A last \in (position + 1)..submitted : last \in (position + 1)..submitted'
    BY <1>0, <1>9
  <2> QED
    BY <1>9, <2>1
<1>10. LET Quiet == UNCHANGED <<pc, values, position>> /\ submitted' \in {submitted, submitted + 1} IN
       /\ Post \/ Submit \/ AppendDeposits \/ UNCHANGED vars => Quiet
       /\ \A i : Prove(i) \/ ProveFails(i) \/ WorkerCrash(i) => Quiet
       /\ \A d : Refund(d) \/ Requeue(d) => Quiet
  BY DEF Post, Submit, AppendDeposits, Prove, ProveFails, WorkerCrash, Refund, Requeue, vars
<1>11. /\ \A t : DecideExecute(t) => StartExecute(t) /\ pc[t] = "decide"
       /\ \A t : TimerFires(t) => StartExecute(t)
  BY DEF DecideExecute, TimerFires
<1> HIDE DEF WatcherInv
<1> QED
  BY <1>0, <1>1, <1>2, <1>3, <1>4, <1>5, <1>6, <1>7, <1>8, <1>9, <1>10, <1>11
  DEF Next, Processes, Executes

(* A step that moves no deposit.                                             *)
LEMMA QuietKept ==
  ASSUME OnceInv, LostInv, \A t \in Threads : Carried(t)' = Carried(t),
         UNCHANGED <<posting, jobs, txs, requeued, cache, failed, dropped, crashed>>,
         Seen' = Seen, Seen \cap pending' \subseteq pending
  PROVE  OnceInv' /\ LostInv'
<1>1. Carry' = Carry /\ (Alone => Alone')
  BY DEF Carry, Alone
<1>2. /\ Posted' = Posted /\ Proving' = Proving /\ Queued' = Queued /\ Waiting' = Waiting
      /\ Single => Single'
  BY SamePlaces DEF Single
<1>3. Held' = Held /\ (Disjoint => Disjoint')
  BY <1>1, <1>2 DEF Held, Disjoint
<1>4. OnceInv'
  BY <1>1, <1>2, <1>3 DEF OnceInv
<1>5. LostInv'
  BY <1>3 DEF LostInv
<1> QED
  BY <1>4, <1>5

(* What each step of the processes moves.                                    *)
LEMMA ThreadsAre ==
  /\ Mains \subseteq Threads /\ Adders \subseteq Mains /\ TimerRuns \subseteq Threads
  /\ Watcher \in Adders /\ Reprocess \in Adders /\ Start \in Mains
  /\ Watcher # Reprocess /\ Watcher # Start /\ Watcher \notin TimerRuns
  /\ Threads = Mains \cup TimerRuns
BY DepositsAssumption DEF Threads, Mains, Adders

LEMMA WatchKept ==
  ASSUME TypeOK, HandInv, WatcherInv, OnceInv, LostInv, Watch PROVE OnceInv' /\ LostInv'
<1> DEFINE New == values'[Watcher]
<1>1. /\ pc \in [Threads -> Steps] /\ values \in [Threads -> SUBSET (1..submitted)]
      /\ position \in Nat /\ submitted \in Nat /\ Watcher \in Threads /\ values[Watcher] = {}
      /\ taken[Watcher] = {} /\ batch[Watcher] = {}
  <2>1. Watcher \in Threads /\ pc[Watcher] = "idle"
    BY ThreadsAre DEF Watch
  <2>2. Hand(Watcher)
    BY <2>1 DEF HandInv
  <2>3. /\ pc \in [Threads -> Steps] /\ values \in [Threads -> SUBSET (1..submitted)]
        /\ position \in Nat /\ submitted \in Nat
    BY DepositsAssumption DEF TypeOK
  <2> QED
    BY <2>1, <2>2, <2>3 DEF Hand, WatcherInv
<1>2. PICK last \in (position + 1)..submitted :
        values' = [values EXCEPT ![Watcher] = (position + 1)..last]
  BY DEF Watch
<1>3. /\ pc[Watcher] = "idle" /\ pc' = [pc EXCEPT ![Watcher] = "acquire"]
      /\ UNCHANGED <<submitted, pending, jobs, txs, failed, dropped, crashed, position, cache,
                     requeued, posting, taken, batch>>
  BY DEF Watch, outerVars, chainVars, queueVars, boundVars, redisVars, execVars
<1>4. Carried(Watcher) = {} /\ Carried(Watcher)' = New
  BY <1>1, <1>3 DEF Carried
<1>5. \A u \in Threads : u # Watcher => Carried(u)' = Carried(u)
  BY <1>1, <1>2, <1>3 DEF Carried
<1>6. New = (position + 1)..last
  BY <1>1, <1>2
<1>7. Seen = 1..position /\ Seen' = Seen \cup New /\ New \cap Seen = {}
  BY <1>1, <1>3, <1>6 DEF Seen
<1> HIDE DEF New
<1>8. /\ Posted' = Posted /\ Proving' = Proving /\ Queued' = Queued /\ Waiting' = Waiting
      /\ Single => Single'
  BY <1>3, SamePlaces DEF Single
<1>9. /\ Carry' = Carry \cup New
      /\ Alone /\ New \cap Carry = {} => Alone'
  BY <1>1, <1>4, <1>5, CarryMoves
<1>10. Held' = Held \cup New
  BY <1>3, <1>8, <1>9 DEF Held
<1>11. ASSUME ~crashed PROVE Held' \subseteq Seen' /\ Alone' /\ Single' /\ Disjoint'
  <2>1. Held \subseteq Seen /\ Alone /\ Single /\ Disjoint
    BY <1>11 DEF OnceInv
  <2>2. New \cap Held = {}
    BY <1>7, <2>1
  <2>3. New \cap Carry = {}
    BY <2>2 DEF Held
  <2>4. Disjoint'
    BY <1>3, <1>8, <1>9, <2>1, <2>2 DEF Disjoint, Held
  <2> QED
    BY <1>7, <1>8, <1>9, <1>10, <2>1, <2>3, <2>4
<1>12. LostInv'
  BY <1>3, <1>7, <1>10 DEF LostInv
<1> QED
  BY <1>3, <1>11, <1>12 DEF OnceInv

LEMMA RepopKept ==
  ASSUME TypeOK, HandInv, OnceInv, LostInv, Repop PROVE OnceInv' /\ LostInv'
<1>1. /\ pc \in [Threads -> Steps] /\ values \in [Threads -> SUBSET (1..submitted)]
      /\ Reprocess \in Threads /\ Watcher # Reprocess /\ requeued \in Seq(1..submitted)
      /\ taken[Reprocess] = {} /\ batch[Reprocess] = {} /\ BatchSize \in Nat
  BY ThreadsAre, DepositsAssumption DEF TypeOK, Repop, HandInv, Hand
<1> DEFINE n == Min({Len(requeued), BatchSize})
           New == ToSet(SubSeq(requeued, 1, n))
<1>2. /\ values' = [values EXCEPT ![Reprocess] = New]
      /\ requeued' = SubSeq(requeued, n + 1, Len(requeued))
      /\ pc[Reprocess] = "idle" /\ pc' = [pc EXCEPT ![Reprocess] = "acquire"]
      /\ UNCHANGED <<submitted, pending, jobs, txs, failed, dropped, crashed, position, cache,
                     posting, taken, batch>>
  BY DEF Repop, outerVars, chainVars, queueVars, boundVars, execVars
<1>3. n \in 0..Len(requeued)
  <2>1. \A x, y \in Nat : Min({x, y}) \in 0..x
    BY DEF Min
  <2> QED
    BY <1>1, <2>1
<1> HIDE DEF n
<1>4. /\ Waiting = New \cup Waiting'
      /\ IsInjective(requeued) => IsInjective(requeued') /\ New \cap Waiting' = {}
  <2>1. LET a == SubSeq(requeued, 1, n)
            b == SubSeq(requeued, n + 1, Len(requeued)) IN
        /\ ToSet(requeued) = ToSet(a) \cup ToSet(b)
        /\ IsInjective(requeued) => IsInjective(b) /\ ToSet(a) \cap ToSet(b) = {}
    BY <1>1, <1>3, SplitPlaces
  <2>2. Waiting = ToSet(requeued) /\ Waiting' = ToSet(requeued')
    BY DEF Waiting
  <2> QED
    BY <1>2, <2>1, <2>2
<1> HIDE DEF New
<1>5. Carried(Reprocess) = {} /\ Carried(Reprocess)' = New
  BY <1>1, <1>2 DEF Carried
<1>6. \A u \in Threads : u # Reprocess => Carried(u)' = Carried(u)
  BY <1>1, <1>2 DEF Carried
<1>7. Seen' = Seen
  BY <1>1, <1>2, ThreadsAre DEF Seen
<1>8. Posted' = Posted /\ Proving' = Proving /\ Queued' = Queued /\ (Single => Single')
  BY <1>2, <1>4, SamePlaces DEF Single
<1>9. /\ Carry' = Carry \cup New
      /\ Alone /\ New \cap Carry = {} => Alone'
  BY <1>1, <1>5, <1>6, CarryMoves
<1>10. Held' = Held
  BY <1>2, <1>4, <1>8, <1>9 DEF Held
<1>11. ASSUME ~crashed PROVE Held' \subseteq Seen' /\ Alone' /\ Single' /\ Disjoint'
  <2>1. Held \subseteq Seen /\ Alone /\ Single /\ Disjoint
    BY <1>11 DEF OnceInv
  <2>2. New \cap Carry = {} /\ New \cap Waiting' = {}
    BY <1>4, <2>1 DEF Disjoint, Single
  <2>3. Disjoint'
    BY <1>2, <1>4, <1>8, <1>9, <2>1, <2>2 DEF Disjoint
  <2> QED
    BY <1>7, <1>8, <1>9, <1>10, <2>1, <2>2, <2>3
<1>12. LostInv'
  BY <1>2, <1>7, <1>10 DEF LostInv
<1> QED
  BY <1>2, <1>11, <1>12 DEF OnceInv

LEMMA StoreKept ==
  ASSUME TypeOK, HandInv, OnceInv, LostInv, NEW a \in Adders, Store(a)
  PROVE  OnceInv' /\ LostInv'
<1> DEFINE New == values[a]
<1>1. /\ pc \in [Threads -> Steps] /\ a \in Threads
      /\ pc[a] = "acquire" /\ pc' = [pc EXCEPT ![a] = "count"] /\ cache' = cache \cup New
      /\ UNCHANGED <<submitted, pending, jobs, txs, failed, dropped, crashed, position,
                     requeued, posting, values, taken, batch>>
  BY ThreadsAre DEF TypeOK, Store, outerVars, chainVars, queueVars, boundVars, execVars
<1>2. taken[a] = {} /\ batch[a] = {}
  BY <1>1 DEF HandInv, Hand
<1>3. Carried(a) = New /\ Carried(a)' = {}
  BY <1>1, <1>2 DEF Carried
<1>4. \A u \in Threads : u # a => Carried(u)' = Carried(u)
  BY <1>1 DEF Carried
<1>5. Seen' = Seen
  BY <1>1 DEF Seen
<1> HIDE DEF New
<1>6. /\ Posted' = Posted /\ Proving' = Proving /\ Queued' = Queued /\ Waiting' = Waiting
      /\ Single => Single'
  BY <1>1, SamePlaces DEF Single
<1>7. /\ Carry' \subseteq Carry /\ Carry \subseteq Carry' \cup New /\ New \subseteq Carry
      /\ Alone => Alone' /\ Carry' \cap New = {}
  BY <1>1, <1>3, <1>4, CarryMoves
<1>8. Held' = Held
  BY <1>1, <1>6, <1>7 DEF Held
<1>9. ASSUME ~crashed PROVE Held' \subseteq Seen' /\ Alone' /\ Single' /\ Disjoint'
  <2>1. Held \subseteq Seen /\ Alone /\ Single /\ Disjoint
    BY <1>9 DEF OnceInv
  <2>2. Disjoint'
    BY <1>1, <1>6, <1>7, <2>1 DEF Disjoint
  <2> QED
    BY <1>5, <1>6, <1>7, <1>8, <2>1, <2>2
<1>10. LostInv'
  BY <1>1, <1>5, <1>8 DEF LostInv
<1> QED
  BY <1>1, <1>9, <1>10 DEF OnceInv

LEMMA TakeKept ==
  ASSUME TypeOK, HandInv, OnceInv, LostInv, NEW t \in Threads, Take(t)
  PROVE  OnceInv' /\ LostInv'
<1> DEFINE New == Lowest(want[t])
<1>1. /\ pc \in [Threads -> Steps] /\ taken \in [Threads -> SUBSET (1..submitted)]
      /\ pc[t] = "take" /\ pc' = [pc EXCEPT ![t] = "validate"] /\ cache' = cache \ New
      /\ taken' = [taken EXCEPT ![t] = New] /\ New \subseteq cache
      /\ UNCHANGED <<submitted, pending, jobs, txs, failed, dropped, crashed, position,
                     requeued, posting, values, batch>>
  BY DEF TypeOK, Take, outerVars, chainVars, queueVars, boundVars, Lowest
<1> HIDE DEF New
<1>2. taken[t] = {}
  BY <1>1 DEF HandInv, Hand
<1>3. Carried(t)' = Carried(t) \cup New
  BY <1>1, <1>2 DEF Carried
<1>4. \A u \in Threads : u # t => Carried(u)' = Carried(u)
  BY <1>1 DEF Carried
<1>5. Seen' = Seen
  BY <1>1 DEF Seen
<1>6. /\ Posted' = Posted /\ Proving' = Proving /\ Queued' = Queued /\ Waiting' = Waiting
      /\ Single => Single'
  BY <1>1, SamePlaces DEF Single
<1>7. Carry' = Carry \cup New
  BY <1>3, <1>4, CarryMoves
<1>8. ASSUME Alone, New \cap Carry = {} PROVE Alone'
  <2>1. \A u \in Threads : u # t => Carried(u) \cap Carried(t) = {} /\ Carried(u) \cap New = {}
    BY <1>8 DEF Alone, Carry
  <2>2. \A u \in Threads : u # t => Carried(u)' \cap Carried(t)' = {}
    BY <1>3, <1>4, <2>1
  <2> QED
    BY <1>4, <1>8, <2>2 DEF Alone
<1>9. Held' = Held
  BY <1>1, <1>6, <1>7 DEF Held
<1>10. ASSUME ~crashed PROVE Held' \subseteq Seen' /\ Alone' /\ Single' /\ Disjoint'
  <2>1. Held \subseteq Seen /\ Alone /\ Single /\ Disjoint
    BY <1>10 DEF OnceInv
  <2>2. New \cap Carry = {}
    BY <1>1, <2>1 DEF Disjoint
  <2>3. Disjoint'
    BY <1>1, <1>6, <1>7, <2>1 DEF Disjoint
  <2> QED
    BY <1>5, <1>6, <1>8, <1>9, <2>1, <2>2, <2>3
<1>11. LostInv'
  BY <1>1, <1>5, <1>9 DEF LostInv
<1> QED
  BY <1>1, <1>10, <1>11 DEF OnceInv

LEMMA ValidateKept ==
  ASSUME TypeOK, HandInv, OnceInv, LostInv, NEW t \in Threads, Validate(t)
  PROVE  OnceInv' /\ LostInv'
<1>1. /\ pc \in [Threads -> Steps] /\ taken \in [Threads -> SUBSET (1..submitted)]
      /\ batch \in [Threads -> SUBSET (1..submitted)] /\ posting \in Seq(SUBSET (1..submitted))
      /\ pc[t] = "validate" /\ taken' = [taken EXCEPT ![t] = {}]
      /\ UNCHANGED <<submitted, pending, jobs, txs, failed, crashed, position, cache,
                     requeued, values>>
  BY DEF TypeOK, Validate, outerVars, chainVars, queueVars, redisVars
<1>2. PICK un \in SUBSET taken[t] :
        LET good == batch[t] \cup Passes(t, un) IN
          /\ dropped' = dropped \cup un
          /\ \/ /\ batch' = [batch EXCEPT ![t] = good]
                /\ pc' = [pc EXCEPT ![t] = "take"] /\ posting' = posting
             \/ /\ batch' = [batch EXCEPT ![t] = {}]
                /\ pc' = [pc EXCEPT ![t] = AfterExecute(t)]
                /\ posting' = IF good = {} THEN posting ELSE Append(posting, good)
  BY DEF Validate
<1> DEFINE good == batch[t] \cup Passes(t, un)
<1>3. /\ Carried(t) = taken[t] \cup batch[t]
      /\ good \subseteq Carried(t) /\ good \in SUBSET (1..submitted)
      /\ (Carried(t) \cap pending) \ (Invalid \cup un) \subseteq good
  BY <1>1 DEF Carried, Passes
<1>4. \/ /\ batch' = [batch EXCEPT ![t] = good]
         /\ pc' = [pc EXCEPT ![t] = "take"] /\ posting' = posting
      \/ /\ batch' = [batch EXCEPT ![t] = {}]
         /\ pc' = [pc EXCEPT ![t] = AfterExecute(t)]
         /\ posting' = IF good = {} THEN posting ELSE Append(posting, good)
  BY <1>2
<1>5. dropped' = dropped \cup un
  BY <1>2
<1> HIDE DEF good
<1>6. AfterExecute(t) \in {"idle", "count"}
  BY DEF AfterExecute
<1>7. \A u \in Threads : u # t => Carried(u)' = Carried(u)
  BY <1>1, <1>4 DEF Carried
<1>8. \/ Carried(t)' = good /\ posting' = posting
      \/ Carried(t)' = {} /\ good = {} /\ posting' = posting
      \/ Carried(t)' = {} /\ posting' = Append(posting, good)
  BY <1>1, <1>4, <1>6 DEF Carried
<1>9. Seen' = Seen
  BY <1>1 DEF Seen
<1>10. /\ Proving' = Proving /\ Queued' = Queued /\ Waiting' = Waiting
       /\ Apart(jobs) => Apart(jobs')
       /\ Apart(txs) => Apart(txs')
       /\ IsInjective(requeued) => IsInjective(requeued')
  BY <1>1, SamePlaces
<1>11. /\ Carry' \subseteq Carry \cup Carried(t)' /\ Carried(t)' \subseteq Carry'
       /\ Carry \subseteq Carry' \cup Carried(t) /\ Carried(t) \subseteq Carry
       /\ Alone => Carry' \cap (Carried(t) \ Carried(t)') = {}
       /\ Alone /\ Carried(t)' \cap (Carry \ Carried(t)) = {} => Alone'
  BY <1>7, CarryMoves
<1>12. Alone => Alone'
  <2>1. Carried(t)' \subseteq Carried(t)
    BY <1>3, <1>8
  <2> QED
    BY <1>11, <2>1
<1>13. \/ Posted' = Posted /\ good \subseteq Carried(t)'
       \/ Posted' = Posted \cup good /\ Carried(t)' = {}
  <2>1. CASE posting' = posting
    BY <1>8, <2>1, SamePlaces, <1>3
  <2>2. CASE Carried(t)' = {} /\ posting' = Append(posting, good)
    <3>1. All(Append(posting, good)) = All(posting) \cup good
      <4>1. PICK S : posting \in Seq(S) /\ good \in S
        BY <1>1, <1>3
      <4> QED
        BY <4>1, AppendPlaces
    <3> QED
      BY <2>2, <3>1 DEF Posted
  <2> QED
    BY <1>8, <2>1, <2>2
<1>14. ASSUME Single, good \cap Posted = {} PROVE Single'
  <2>1. CASE posting' = posting
    BY <1>10, <1>14, <2>1 DEF Single
  <2>2. CASE posting' = Append(posting, good)
    <3>1. Apart(Append(posting, good))
      BY <1>1, <1>3, <1>14, AppendPlaces DEF Single, Posted
    <3> QED
      BY <1>10, <1>14, <2>2, <3>1 DEF Single
  <2> QED
    BY <1>8, <2>1, <2>2
<1>15. Carry' \subseteq Carry /\ Posted \subseteq Posted' /\ Posted' \subseteq Posted \cup Carry
  BY <1>3, <1>8, <1>11, <1>13
<1>16. ASSUME ~crashed PROVE Held' \subseteq Seen' /\ Alone' /\ Single' /\ Disjoint'
  <2>1. Held \subseteq Seen /\ Alone /\ Single /\ Disjoint
    BY <1>16 DEF OnceInv
  <2>2. Single'
    BY <1>3, <1>11, <1>14, <2>1 DEF Disjoint
  <2>3. Carry' \cap Posted' = {}
    <3>1. Carry \cap Posted = {}
      BY <2>1 DEF Disjoint
    <3> QED
      BY <1>3, <1>11, <1>13, <1>15, <2>1, <3>1
  <2>4. Disjoint'
    BY <1>1, <1>10, <1>15, <2>1, <2>3 DEF Disjoint
  <2>5. Held' \subseteq Held
    BY <1>1, <1>10, <1>15 DEF Held
  <2> QED
    BY <1>9, <1>12, <2>1, <2>2, <2>4, <2>5
<1>17. LostInv'
  <2>1. Held \subseteq Held' \cup (Carried(t) \ good)
    BY <1>1, <1>10, <1>11, <1>13, <1>15 DEF Held
  <2>2. (Carried(t) \ good) \cap pending \subseteq Invalid \cup un
    BY <1>3
  <2> QED
    BY <1>1, <1>5, <1>9, <2>1, <2>2 DEF LostInv
<1> QED
  BY <1>1, <1>16, <1>17 DEF OnceInv

(* What each step of the queues and of the chain moves.                      *)
LEMMA PostKept ==
  ASSUME TypeOK, OnceInv, LostInv, Post PROVE OnceInv' /\ LostInv'
<1> DEFINE e == Head(posting)
<1>1. /\ posting # <<>> /\ posting' = Tail(posting) /\ jobs' = Append(jobs, e)
      /\ UNCHANGED <<pending, txs, failed, dropped, crashed, position, cache, requeued,
                     pc, values, taken, batch>>
  BY DEF Post, chainVars, boundVars, redisVars, execVars
<1>2. PICK S : posting \in Seq(S) /\ jobs \in Seq(S)
  BY DEF TypeOK
<1>3. /\ e \in S /\ Posted = Posted' \cup e
      /\ Apart(posting) => Apart(posting') /\ Posted' \cap e = {}
  BY <1>1, <1>2, TailPlaces DEF Posted
<1>4. Proving' = Proving \cup e /\ (Apart(jobs) /\ e \cap Proving = {} => Apart(jobs'))
  BY <1>1, <1>2, <1>3, AppendPlaces DEF Proving
<1> HIDE DEF e
<1>5. /\ Queued' = Queued /\ Waiting' = Waiting /\ Carry' = Carry /\ (Alone => Alone')
      /\ Apart(txs) => Apart(txs')
      /\ IsInjective(requeued) => IsInjective(requeued')
  BY <1>1, SamePlaces
<1>6. Seen' = Seen /\ Held' = Held
  BY <1>1, <1>3, <1>4, <1>5 DEF Seen, Held
<1>7. ASSUME ~crashed PROVE Held' \subseteq Seen' /\ Alone' /\ Single' /\ Disjoint'
  <2>1. Held \subseteq Seen /\ Alone /\ Single /\ Disjoint
    BY <1>7 DEF OnceInv
  <2>2. Single'
    BY <1>3, <1>4, <1>5, <2>1 DEF Single, Disjoint
  <2>3. Posted' \cap e = {}
    BY <1>3, <2>1 DEF Single
  <2>4. Disjoint'
    BY <1>1, <1>3, <1>4, <1>5, <2>1, <2>3 DEF Disjoint
  <2> QED
    BY <1>5, <1>6, <2>1, <2>2, <2>4
<1>8. LostInv'
  BY <1>1, <1>6 DEF LostInv
<1> QED
  BY <1>1, <1>7, <1>8 DEF OnceInv

LEMMA ProveKept ==
  ASSUME TypeOK, OnceInv, LostInv, NEW i \in DOMAIN jobs, Prove(i) PROVE OnceInv' /\ LostInv'
<1> DEFINE e == jobs[i]
<1>1. /\ jobs' = RemoveAt(jobs, i) /\ txs' = Append(txs, e)
      /\ UNCHANGED <<pending, posting, failed, dropped, crashed, position, cache, requeued,
                     pc, values, taken, batch>>
  BY DEF Prove, chainVars, boundVars, redisVars, execVars, processVars
<1>2. PICK S : jobs \in Seq(S) /\ txs \in Seq(S)
  BY DEF TypeOK
<1>3. /\ Proving = Proving' \cup e
      /\ Apart(jobs) => Apart(jobs') /\ Proving' \cap e = {}
  BY <1>1, <1>2, RemoveAtPlaces DEF Proving
<1>4. Queued' = Queued \cup e /\ (Apart(txs) /\ e \cap Queued = {} => Apart(txs'))
  <2>1. e \in S
    BY <1>2
  <2> HIDE DEF e
  <2> QED
    BY <1>1, <1>2, <2>1, AppendPlaces DEF Queued
<1> HIDE DEF e
<1>5. /\ Posted' = Posted /\ Waiting' = Waiting /\ Carry' = Carry /\ (Alone => Alone')
      /\ Apart(posting) => Apart(posting')
      /\ IsInjective(requeued) => IsInjective(requeued')
  BY <1>1, SamePlaces
<1>6. Seen' = Seen /\ Held' = Held
  BY <1>1, <1>3, <1>4, <1>5 DEF Seen, Held
<1>7. ASSUME ~crashed PROVE Held' \subseteq Seen' /\ Alone' /\ Single' /\ Disjoint'
  <2>1. Held \subseteq Seen /\ Alone /\ Single /\ Disjoint
    BY <1>7 DEF OnceInv
  <2>2. Single'
    BY <1>3, <1>4, <1>5, <2>1 DEF Single, Disjoint
  <2>3. Proving' \cap e = {}
    BY <1>3, <2>1 DEF Single
  <2>4. Disjoint'
    BY <1>1, <1>3, <1>4, <1>5, <2>1, <2>3 DEF Disjoint
  <2> QED
    BY <1>5, <1>6, <2>1, <2>2, <2>4
<1>8. LostInv'
  BY <1>1, <1>6 DEF LostInv
<1> QED
  BY <1>1, <1>7, <1>8 DEF OnceInv

LEMMA ProveFailsKept ==
  ASSUME TypeOK, OnceInv, LostInv, NEW i \in DOMAIN jobs, ProveFails(i)
  PROVE  OnceInv' /\ LostInv'
<1> DEFINE e == jobs[i]
<1>1. /\ jobs' = RemoveAt(jobs, i) /\ failed' = failed \cup e
      /\ UNCHANGED <<pending, posting, txs, dropped, crashed, position, cache, requeued,
                     pc, values, taken, batch>>
  BY DEF ProveFails, chainVars, redisVars, execVars, processVars
<1>2. PICK S : jobs \in Seq(S)
  BY DEF TypeOK
<1>3. /\ Proving = Proving' \cup e
      /\ Apart(jobs) => Apart(jobs') /\ Proving' \cap e = {}
  BY <1>1, <1>2, RemoveAtPlaces DEF Proving
<1> HIDE DEF e
<1>4. /\ Posted' = Posted /\ Queued' = Queued /\ Waiting' = Waiting
      /\ Carry' = Carry /\ (Alone => Alone')
      /\ Apart(posting) => Apart(posting')
      /\ Apart(txs) => Apart(txs')
      /\ IsInjective(requeued) => IsInjective(requeued')
  BY <1>1, SamePlaces
<1>5. Seen' = Seen /\ Held' = Held
  BY <1>1, <1>3, <1>4 DEF Seen, Held
<1>6. ASSUME ~crashed PROVE Held' \subseteq Seen' /\ Alone' /\ Single' /\ Disjoint'
  <2>1. Held \subseteq Seen /\ Alone /\ Single /\ Disjoint
    BY <1>6 DEF OnceInv
  <2>2. Single' /\ Proving' \cap e = {}
    BY <1>3, <1>4, <2>1 DEF Single
  <2>3. Disjoint'
    BY <1>1, <1>3, <1>4, <2>1, <2>2 DEF Disjoint
  <2> QED
    BY <1>4, <1>5, <2>1, <2>2, <2>3
<1>7. LostInv'
  BY <1>1, <1>5 DEF LostInv
<1> QED
  BY <1>1, <1>6, <1>7 DEF OnceInv

LEMMA AppendDepositsKept ==
  ASSUME TypeOK, OnceInv, LostInv, AppendDeposits PROVE OnceInv' /\ LostInv'
<1> DEFINE e == Head(txs)
<1>1. /\ txs # <<>> /\ txs' = Tail(txs)
      /\ \/ pending' = pending \ e /\ failed' = failed
         \/ pending' = pending /\ failed' = failed \cup e
      /\ UNCHANGED <<posting, jobs, dropped, crashed, position, cache, requeued,
                     pc, values, taken, batch>>
  BY DEF AppendDeposits, boundVars, redisVars, execVars, processVars
<1>2. PICK S : txs \in Seq(S)
  BY DEF TypeOK
<1>3. /\ Queued = Queued' \cup e
      /\ Apart(txs) => Apart(txs') /\ Queued' \cap e = {}
  BY <1>1, <1>2, TailPlaces DEF Queued
<1> HIDE DEF e
<1>4. /\ Posted' = Posted /\ Proving' = Proving /\ Waiting' = Waiting
      /\ Carry' = Carry /\ (Alone => Alone')
      /\ Apart(posting) => Apart(posting')
      /\ Apart(jobs) => Apart(jobs')
      /\ IsInjective(requeued) => IsInjective(requeued')
  BY <1>1, SamePlaces
<1>5. Seen' = Seen /\ Held' \subseteq Held
  BY <1>1, <1>3, <1>4 DEF Seen, Held
<1>6. ASSUME ~crashed PROVE Held' \subseteq Seen' /\ Alone' /\ Single' /\ Disjoint'
  <2>1. Held \subseteq Seen /\ Alone /\ Single /\ Disjoint
    BY <1>6 DEF OnceInv
  <2>2. Single' /\ Queued' \cap e = {}
    BY <1>3, <1>4, <2>1 DEF Single
  <2>3. Disjoint'
    BY <1>1, <1>3, <1>4, <2>1, <2>2 DEF Disjoint
  <2> QED
    BY <1>4, <1>5, <2>1, <2>2, <2>3
<1>7. LostInv'
  <2>1. Held \subseteq Held' \cup e /\ (e \cap pending' \subseteq Held')
    BY <1>1, <1>3, <1>4 DEF Held
  <2> QED
    BY <1>1, <1>5, <2>1 DEF LostInv
<1> QED
  BY <1>1, <1>6, <1>7 DEF OnceInv

LEMMA RequeueKept ==
  ASSUME TypeOK, OnceInv, LostInv, NEW d \in failed, Requeue(d) PROVE OnceInv' /\ LostInv'
<1>1. /\ failed' = failed \ {d} /\ requeued' = Append(requeued, d)
      /\ UNCHANGED <<pending, posting, jobs, txs, dropped, crashed, position, cache,
                     pc, values, taken, batch>>
  BY DEF Requeue, chainVars, boundVars, execVars
<1>2. PICK S : requeued \in Seq(S) /\ d \in S
  BY DEF TypeOK
<1>3. /\ Waiting' = Waiting \cup {d}
      /\ IsInjective(requeued) /\ d \notin Waiting => IsInjective(requeued')
  BY <1>1, <1>2, AppendedSet DEF Waiting
<1>4. /\ Posted' = Posted /\ Proving' = Proving /\ Queued' = Queued
      /\ Carry' = Carry /\ (Alone => Alone')
      /\ Apart(posting) => Apart(posting')
      /\ Apart(jobs) => Apart(jobs')
      /\ Apart(txs) => Apart(txs')
  BY <1>1, SamePlaces
<1>5. Seen' = Seen /\ Held' = Held
  BY <1>1, <1>3, <1>4 DEF Seen, Held
<1>6. ASSUME ~crashed PROVE Held' \subseteq Seen' /\ Alone' /\ Single' /\ Disjoint'
  <2>1. Held \subseteq Seen /\ Alone /\ Single /\ Disjoint
    BY <1>6 DEF OnceInv
  <2>2. Single'
    BY <1>3, <1>4, <2>1 DEF Single, Disjoint
  <2>3. Disjoint'
    BY <1>1, <1>3, <1>4, <2>1 DEF Disjoint
  <2> QED
    BY <1>4, <1>5, <2>1, <2>2, <2>3
<1>7. LostInv'
  BY <1>1, <1>5 DEF LostInv
<1> QED
  BY <1>1, <1>6, <1>7 DEF OnceInv

(* A death of the worker queues a batch twice; one of the watcher forgets    *)
(* what the process held, and what it had not recorded as seen.              *)
LEMMA WorkerCrashKept ==
  ASSUME TypeOK, LostInv, NEW i \in DOMAIN jobs, WorkerCrash(i) PROVE OnceInv' /\ LostInv'
<1>1. /\ txs' = Append(txs, jobs[i]) /\ crashed' = TRUE
      /\ UNCHANGED <<pending, posting, jobs, failed, dropped, position, cache, requeued,
                     pc, values, taken, batch>>
  BY DEF WorkerCrash, chainVars, redisVars, execVars, processVars
<1>2. PICK S : jobs \in Seq(S) /\ txs \in Seq(S)
  BY DEF TypeOK
<1>3. Queued' = Queued \cup jobs[i]
  <2>1. jobs[i] \in S
    BY <1>2
  <2> QED
    BY <1>1, <1>2, <2>1, AppendPlaces DEF Queued
<1>4. Posted' = Posted /\ Proving' = Proving /\ Waiting' = Waiting /\ Carry' = Carry
  BY <1>1, SamePlaces
<1>5. Seen' = Seen /\ Held \subseteq Held'
  BY <1>1, <1>3, <1>4 DEF Seen, Held
<1> QED
  BY <1>1, <1>5 DEF LostInv, OnceInv

LEMMA CrashKept ==
  ASSUME TypeOK, WatcherInv, LostInv, Crash PROVE OnceInv' /\ LostInv'
<1>1. /\ posting' = <<>> /\ crashed' = TRUE
      /\ pc' = [t \in Threads |-> "idle"] /\ values' = [t \in Threads |-> {}]
      /\ taken' = [t \in Threads |-> {}] /\ batch' = [t \in Threads |-> {}]
      /\ dropped' = dropped \cup (UNION ToSet(posting))
                      \cup (UNION {taken[t] \cup batch[t] : t \in Threads})
                      \cup (IF pc[Reprocess] = "acquire" THEN values[Reprocess] ELSE {})
      /\ UNCHANGED <<pending, jobs, txs, failed, position, cache, requeued>>
  BY DEF Crash, Idle, chainVars, queueVars, redisVars
<1>2. Proving' = Proving /\ Queued' = Queued /\ Waiting' = Waiting
  BY <1>1, SamePlaces
<1>3. Seen' = 1..position
  BY <1>1, ThreadsAre DEF Seen
<1>4. Posted \subseteq dropped'
  BY <1>1 DEF Posted, All, ToSet
<1>5. ASSUME NEW d \in Carry, d \in 1..position PROVE d \in dropped'
  <2>1. PICK t \in Threads : d \in Carried(t)
    BY DEF Carry
  <2>2. CASE d \in taken[t] \cup batch[t]
    BY <1>1, <2>2
  <2>3. CASE pc[t] = "acquire" /\ d \in values[t]
    <3>1. t \in {Watcher, Reprocess}
      BY <2>3 DEF WatcherInv, Adders
    <3>2. CASE t = Reprocess
      BY <1>1, <2>3, <3>2
    <3>3. CASE t = Watcher
      <4>1. PICK last \in (position + 1)..submitted : values[Watcher] = (position + 1)..last
        BY <2>3, <3>3 DEF WatcherInv
      <4>2. position \in Nat /\ submitted \in Nat
        BY DepositsAssumption DEF TypeOK
      <4>3. d \in (position + 1)..last
        BY <2>3, <3>3, <4>1
      <4> QED
        BY <1>5, <4>2, <4>3
    <3> QED
      BY <3>1, <3>2, <3>3
  <2> QED
    BY <2>1, <2>2, <2>3 DEF Carried
<1>6. Held \subseteq Held' \cup Carry \cup Posted
  BY <1>1, <1>2 DEF Held
<1>7. 1..position \subseteq Seen /\ dropped \subseteq dropped'
  BY <1>1 DEF Seen
<1>8. LostInv'
  BY <1>1, <1>3, <1>4, <1>5, <1>6, <1>7 DEF LostInv
<1> QED
  BY <1>1, <1>8 DEF OnceInv

(* The steps that move no deposit.                                           *)
LEMMA ThreadQuiet ==
  ASSUME TypeOK, HandInv, WatcherInv, OnceInv, LostInv,
         \/ SavePosition \/ Restart
         \/ \E t \in Mains : Count(t) \/ DecideExecute(t) \/ DecideDone(t)
         \/ \E r \in TimerRuns : TimerFires(r)
  PROVE  OnceInv' /\ LostInv'
<1> USE DEF outerVars, chainVars, queueVars, redisVars, execVars, boundVars
<1>0. /\ pc \in [Threads -> Steps] /\ values \in [Threads -> SUBSET (1..submitted)]
      /\ submitted \in Nat /\ position \in Nat
  BY DepositsAssumption DEF TypeOK
<1>1. UNCHANGED <<posting, jobs, txs, requeued, cache, failed, dropped, crashed, pending>>
  BY DEF SavePosition, Restart, Count, DecideExecute, DecideDone, TimerFires, StartExecute
<1>2. CASE SavePosition
  <2>1. PICK last \in (position + 1)..submitted : values[Watcher] = (position + 1)..last
    BY <1>2 DEF SavePosition, WatcherInv
  <2>2. position' = last
    <3>1. PICK top \in values[Watcher] : (\A d \in values[Watcher] : d <= top) /\ position' = top
      BY <1>2 DEF SavePosition
    <3>2. top \in (position + 1)..last /\ last \in (position + 1)..last
      BY <1>0, <2>1, <3>1
    <3>3. last <= top
      BY <2>1, <3>1, <3>2
    <3> QED
      BY <1>0, <2>1, <3>1, <3>2, <3>3
  <2>3. values'[Watcher] = {}
    BY <1>0, <1>2, ThreadsAre DEF SavePosition
  <2>4. Seen' = Seen
    BY <1>0, <2>1, <2>2, <2>3 DEF Seen
  <2>5. \A t \in Threads : Carried(t)' = Carried(t)
    BY <1>0, <1>2 DEF SavePosition, Carried
  <2> QED
    BY <1>1, <2>4, <2>5, QuietKept
<1>3. CASE Restart
  <2>1. \A t \in Threads : Carried(t)' = Carried(t)
    BY <1>0, <1>3 DEF Restart, Carried, Down
  <2>2. Seen' = Seen
    BY <1>3 DEF Restart, Seen
  <2> QED
    BY <1>1, <2>1, <2>2, QuietKept
<1>4. CASE \E t \in Mains : DecideDone(t)
  <2>1. PICK t \in Mains : DecideDone(t)
    BY <1>4
  <2>2. \A u \in Threads : Carried(u)' = Carried(u)
    BY <1>0, <2>1 DEF DecideDone, Carried
  <2>3. Seen' = Seen
    BY <1>0, <2>1, ThreadsAre DEF DecideDone, Seen
  <2> QED
    BY <1>1, <2>2, <2>3, QuietKept
<1>5. CASE \/ \E t \in Mains : Count(t) \/ DecideExecute(t)
           \/ \E r \in TimerRuns : TimerFires(r)
  <2>1. \A u \in Threads : Carried(u)' = Carried(u)
    BY <1>0, <1>5, ThreadsAre DEF Count, DecideExecute, TimerFires, StartExecute, Carried
  <2>2. Seen' = Seen
    BY <1>5 DEF Count, DecideExecute, TimerFires, StartExecute, Seen
  <2> QED
    BY <1>1, <2>1, <2>2, QuietKept
<1> QED
  BY <1>2, <1>3, <1>4, <1>5

LEMMA ChainQuiet ==
  ASSUME TypeOK, WatcherInv, OnceInv, LostInv,
         Submit \/ (\E d \in pending : Refund(d)) \/ UNCHANGED vars
  PROVE  OnceInv' /\ LostInv'
<1> USE DEF outerVars, chainVars, queueVars, redisVars, execVars, boundVars, processVars
<1>1. /\ UNCHANGED <<posting, jobs, txs, requeued, cache, failed, dropped, crashed>>
      /\ UNCHANGED <<pc, values, taken, batch, position>>
      /\ pending' \subseteq pending \cup {submitted + 1}
  BY DEF Submit, Refund, vars
<1>2. Seen' = Seen /\ \A t \in Threads : Carried(t)' = Carried(t)
  BY <1>1 DEF Seen, Carried
<1>3. submitted + 1 \notin Seen
  <2>1. submitted \in Nat /\ position \in 0..submitted /\ Watcher \in Threads
        /\ values \in [Threads -> SUBSET (1..submitted)]
    BY ThreadsAre, DepositsAssumption DEF TypeOK
  <2>2. Seen \subseteq 1..submitted
    BY <2>1 DEF Seen
  <2> QED
    BY <2>1, <2>2
<1> QED
  BY <1>1, <1>2, <1>3, QuietKept

PlacesInv == HandInv /\ WatcherInv /\ OnceInv /\ LostInv

LEMMA PlacesKept ==
  ASSUME TypeOK, PlacesInv, [Next]_vars PROVE PlacesInv'
<1>1. HandInv /\ WatcherInv /\ OnceInv /\ LostInv
  BY DEF PlacesInv
<1>2. HandInv' /\ WatcherInv'
  BY <1>1, HandInvKept, WatcherInvKept
<1>3. OnceInv' /\ LostInv'
  BY <1>1, ThreadsAre, WatchKept, RepopKept, StoreKept, TakeKept, ValidateKept, PostKept,
     ProveKept, ProveFailsKept, AppendDepositsKept, RequeueKept, WorkerCrashKept, CrashKept,
     ThreadQuiet, ChainQuiet
  DEF Next, Processes, Executes
<1> QED
  BY <1>2, <1>3 DEF PlacesInv

LEMMA PlacesAlways == Spec => [](TypeOK /\ PlacesInv)
<1>1. Init => PlacesInv
  <2> SUFFICES ASSUME Init PROVE PlacesInv
    OBVIOUS
  <2>1. /\ \A t \in Threads : /\ taken[t] = {} /\ batch[t] = {} /\ want[t] = 0
                              /\ pc[t] \in {"idle", "count"} /\ values[t] = {}
        /\ pc[Watcher] = "idle" /\ values[Watcher] = {}
    BY ThreadsAre DEF Init, Idle
  <2>2. HandInv
    BY <2>1, FS_EmptySet DEF HandInv, Hand
  <2>3. WatcherInv
    BY <2>1 DEF WatcherInv
  <2>4. Carry = {} /\ \A t \in Threads : Carried(t) = {}
    BY <2>1 DEF Carry, Carried
  <2>5. /\ posting = <<>> /\ jobs = <<>> /\ txs = <<>> /\ requeued = <<>>
        /\ cache = {} /\ failed = {} /\ pending = {}
    BY DEF Init
  <2>6. /\ Posted = {} /\ Proving = {} /\ Queued = {} /\ Waiting = {} /\ Single
    BY <2>5 DEF Posted, Proving, Queued, All, Waiting, ToSet, Single, Apart, IsInjective
  <2>7. OnceInv
    BY <2>4, <2>5, <2>6 DEF OnceInv, Held, Disjoint, Alone
  <2>8. LostInv
    BY <2>5 DEF LostInv
  <2> QED
    BY <2>2, <2>3, <2>7, <2>8 DEF PlacesInv
<1> QED
  BY <1>1, PlacesKept, TypeCorrect, PTL DEF Spec

LEMMA HandedOnce ==
  ASSUME TypeOK, Single, Disjoint, NEW i \in DOMAIN Handed, NEW k \in DOMAIN Handed,
         NEW d \in Handed[i] \cap Handed[k]
  PROVE  i = k
<1> DEFINE p == Len(posting)
           j == Len(jobs)
           At(m) == \/ m \in DOMAIN posting /\ d \in posting[m] /\ d \in Posted
                    \/ m - p \in DOMAIN jobs /\ d \in jobs[m - p] /\ d \in Proving
                    \/ m - p - j \in DOMAIN txs /\ d \in txs[m - p - j] /\ d \in Queued
<1>1. i \in Int /\ k \in Int /\ p \in Int /\ j \in Int
  BY DEF TypeOK, Handed
<1>2. At(i) /\ At(k)
  BY HandedFacts DEF Posted, Proving, Queued, All
<1>3. \A m, n \in DOMAIN posting : d \in posting[m] /\ d \in posting[n] => m = n
  BY DEF Single, Apart
<1>4. \A m, n \in DOMAIN jobs : d \in jobs[m] /\ d \in jobs[n] => m = n
  BY DEF Single, Apart
<1>5. \A m, n \in DOMAIN txs : d \in txs[m] /\ d \in txs[n] => m = n
  BY DEF Single, Apart
<1>6. ~(d \in Posted /\ d \in Proving) /\ ~(d \in Posted /\ d \in Queued)
      /\ ~(d \in Proving /\ d \in Queued)
  BY DEF Disjoint
<1>7. CASE d \in Posted
  BY <1>2, <1>3, <1>6, <1>7
<1>8. CASE d \in Proving
  <2>1. i - p = k - p
    BY <1>2, <1>4, <1>6, <1>8
  <2> HIDE DEF p, j
  <2> QED
    BY <1>1, <2>1
<1>9. CASE d \in Queued
  <2>1. i - p - j = k - p - j
    BY <1>2, <1>5, <1>6, <1>9
  <2> HIDE DEF p, j
  <2> QED
    BY <1>1, <2>1
<1> QED
  BY <1>2, <1>7, <1>8, <1>9

(* As long as nothing crashed, no deposit is in two places, though the       *)
(* timers take from the cache without the mutex while the adders count it.   *)
THEOREM NeverInTwoPlaces == Spec => []OnePlace
<1>1. ASSUME TypeOK, PlacesInv, ~crashed, NEW d PROVE Cardinality(Holders(d)) <= 1
  <2>1. Alone /\ Single /\ Disjoint
    BY <1>1 DEF PlacesInv, OnceInv
  <2>2. \A i \in DOMAIN Handed : d \in Handed[i] => d \in Posted \cup Proving \cup Queued
    BY <1>1, HandedFacts DEF Posted, Proving, Queued, All
  <2>3. \A i \in DOMAIN requeued : d = requeued[i] => d \in Waiting
    BY DEF Waiting, ToSet
  <2>4. \A t \in Threads : d \in Carried(t) => d \in Carry
    BY DEF Carry
  <2>5. ASSUME NEW h \in Holders(d), NEW k \in Holders(d) PROVE h = k
    <3> DEFINE Is(x) ==
          \/ \E t \in Threads : d \in Carried(t) /\ x = <<"thread", t>>
          \/ \E i \in DOMAIN Handed : d \in Handed[i] /\ x = <<"handed", i>>
          \/ \E i \in DOMAIN requeued : d = requeued[i] /\ x = <<"list", i>>
          \/ d \in cache /\ x = <<"set", 1>>
          \/ d \in failed /\ x = <<"set", 2>>
    <3>1. Is(h) /\ Is(k)
      BY DEF Holders
    <3>2. CASE d \in Carry
      <4>1. \A t, u \in Threads : d \in Carried(t) /\ d \in Carried(u) => t = u
        BY <2>1 DEF Alone
      <4>2. d \notin Posted \cup Proving \cup Queued \cup Waiting \cup cache \cup failed
        BY <2>1, <3>2 DEF Disjoint
      <4> QED
        BY <2>2, <2>3, <3>1, <4>1, <4>2
    <3>3. CASE d \in Posted \cup Proving \cup Queued
      <4>1. \A i, m \in DOMAIN Handed : d \in Handed[i] /\ d \in Handed[m] => i = m
        BY <1>1, <2>1, HandedOnce
      <4>2. d \notin Carry \cup Waiting \cup cache \cup failed
        BY <2>1, <3>3 DEF Disjoint
      <4> QED
        BY <2>3, <2>4, <3>1, <4>1, <4>2
    <3>4. CASE d \in Waiting
      <4>1. \A i, m \in DOMAIN requeued : d = requeued[i] /\ d = requeued[m] => i = m
        BY <2>1 DEF Single, IsInjective
      <4>2. d \notin Carry \cup Posted \cup Proving \cup Queued \cup cache \cup failed
        BY <2>1, <3>4 DEF Disjoint
      <4> QED
        BY <2>2, <2>4, <3>1, <4>1, <4>2
    <3>5. CASE d \notin Carry \cup Posted \cup Proving \cup Queued \cup Waiting
      <4>1. ~(d \in cache /\ d \in failed)
        BY <2>1 DEF Disjoint
      <4> QED
        BY <2>2, <2>3, <2>4, <3>1, <3>5, <4>1
    <3> QED
      BY <3>2, <3>3, <3>4, <3>5
  <2>6. CASE Holders(d) = {}
    BY <2>6, FS_EmptySet
  <2>7. CASE Holders(d) # {}
    <3>1. PICK h : h \in Holders(d)
      BY <2>7
    <3>2. Holders(d) = {h}
      BY <2>5, <3>1
    <3>3. Cardinality({h}) = 1
      BY FS_Singleton
    <3> QED
      BY <3>2, <3>3
  <2> QED
    BY <2>6, <2>7
<1>2. TypeOK /\ PlacesInv => OnePlace
  BY <1>1 DEF OnePlace
<1> QED
  BY <1>2, PlacesAlways, PTL

(* A pending deposit that the watcher has passed is somewhere, unless a      *)
(* check refuses it, it was in memory at a crash or its validation was not   *)
(* answered, however the threads interleave and whichever process dies.      *)
THEOREM NothingLost == Spec => []NothingElseLost
<1>1. ASSUME TypeOK, PlacesInv, NEW d \in (1..position \cap pending) \ (dropped \cup Invalid)
      PROVE  Holders(d) # {}
  <2>1. d \in Held
    BY <1>1 DEF PlacesInv, LostInv, Seen
  <2>2. CASE d \in Carry
    <3>1. PICK t \in Threads : d \in Carried(t)
      BY <2>2 DEF Carry
    <3>2. <<"thread", t>> \in Holders(d)
      BY <3>1 DEF Holders
    <3> QED
      BY <3>2
  <2>3. CASE d \in Posted \cup Proving \cup Queued
    <3>1. PICK i \in DOMAIN Handed : d \in Handed[i]
      BY <1>1, <2>3, HandedFacts DEF Posted, Proving, Queued, All
    <3>2. <<"handed", i>> \in Holders(d)
      BY <3>1 DEF Holders
    <3> QED
      BY <3>2
  <2>4. CASE d \in Waiting
    <3>1. PICK i \in DOMAIN requeued : d = requeued[i]
      BY <2>4 DEF Waiting, ToSet
    <3>2. <<"list", i>> \in Holders(d)
      BY <3>1 DEF Holders
    <3> QED
      BY <3>2
  <2>5. CASE d \in cache \cup failed
    <3>1. <<"set", 1>> \in Holders(d) \/ <<"set", 2>> \in Holders(d)
      BY <2>5 DEF Holders
    <3> QED
      BY <3>1
  <2> QED
    BY <2>1, <2>2, <2>3, <2>4, <2>5 DEF Held
<1>2. TypeOK /\ PlacesInv => NothingElseLost
  BY <1>1 DEF NothingElseLost
<1> QED
  BY <1>2, PlacesAlways, PTL

-----------------------------------------------------------------------------
(* What was validated is pending until the contract takes it or its user     *)
(* takes it back.                                                            *)
Validated == (UNION {batch[t] : t \in Threads}) \cup Posted \cup Proving \cup Queued
Owed      == pending \cup refunded
BackedInv == ~crashed => Validated \subseteq Owed

(* A step that validates nothing and takes nothing from the contract.        *)
LEMMA StillBacked ==
  ASSUME BackedInv, \A t \in Threads : batch[t]' \subseteq batch[t],
         Posted' \cup Proving' \cup Queued' \subseteq Validated,
         Owed \subseteq Owed', crashed' = crashed
  PROVE  BackedInv'
BY DEF BackedInv, Validated

LEMMA ValidateBacked ==
  ASSUME TypeOK, BackedInv, NEW t \in Threads, Validate(t) PROVE BackedInv'
<1>1. /\ batch \in [Threads -> SUBSET (1..submitted)] /\ taken \in [Threads -> SUBSET (1..submitted)]
      /\ posting \in Seq(SUBSET (1..submitted))
      /\ UNCHANGED <<pending, refunded, jobs, txs, crashed>>
  BY DEF TypeOK, Validate, chainVars, queueVars
<1>2. PICK un \in SUBSET taken[t] :
        LET good == batch[t] \cup Passes(t, un) IN
          \/ batch' = [batch EXCEPT ![t] = good] /\ posting' = posting
          \/ /\ batch' = [batch EXCEPT ![t] = {}]
             /\ posting' = IF good = {} THEN posting ELSE Append(posting, good)
  BY DEF Validate
<1> DEFINE good == batch[t] \cup Passes(t, un)
<1>3. \/ batch' = [batch EXCEPT ![t] = good] /\ posting' = posting
      \/ batch' = [batch EXCEPT ![t] = {}] /\ posting' \in {posting, Append(posting, good)}
  BY <1>2
<1>4. good \subseteq batch[t] \cup pending /\ good \in SUBSET (1..submitted)
  BY <1>1 DEF Passes
<1> HIDE DEF good
<1>5. Proving' = Proving /\ Queued' = Queued
  BY <1>1, SamePlaces
<1>6. Posted' \subseteq Posted \cup good
  <2>1. posting' = posting => Posted' = Posted
    BY SamePlaces
  <2>2. All(Append(posting, good)) = All(posting) \cup good
    <3>1. PICK S : posting \in Seq(S) /\ good \in S
      BY <1>1, <1>4
    <3> QED
      BY <3>1, AppendPlaces
  <2> QED
    BY <1>3, <2>1, <2>2 DEF Posted
<1>7. \A u \in Threads : batch[u]' \subseteq batch[u] \cup good
  BY <1>1, <1>3
<1>8. Validated' \subseteq Validated \cup pending
  <2>1. good \subseteq Validated \cup pending
    BY <1>4 DEF Validated
  <2>2. \A u \in Threads : batch[u]' \subseteq Validated \cup good
    BY <1>7 DEF Validated
  <2>3. Posted' \cup Proving' \cup Queued' \subseteq Validated \cup good
    BY <1>5, <1>6 DEF Validated
  <2>4. Validated' = (UNION {batch[u]' : u \in Threads}) \cup Posted' \cup Proving' \cup Queued'
    BY DEF Validated
  <2> QED
    BY <2>1, <2>2, <2>3, <2>4
<1> QED
  BY <1>1, <1>8 DEF BackedInv, Owed

(* The contract takes one batch, and no other shares a deposit with it.      *)
LEMMA AppendBacked ==
  ASSUME TypeOK, OnceInv, BackedInv, AppendDeposits PROVE BackedInv'
<1> DEFINE e == Head(txs)
<1>1. /\ txs # <<>> /\ txs' = Tail(txs) /\ pending \ e \subseteq pending'
      /\ UNCHANGED <<posting, jobs, crashed, batch, refunded>>
  BY DEF AppendDeposits, boundVars, execVars, processVars
<1>2. PICK S : txs \in Seq(S)
  BY DEF TypeOK
<1>3. /\ Queued = Queued' \cup e
      /\ Apart(txs) => Queued' \cap e = {}
  BY <1>1, <1>2, TailPlaces DEF Queued
<1> HIDE DEF e
<1>4. Posted' = Posted /\ Proving' = Proving
  BY <1>1, SamePlaces
<1>5. ASSUME ~crashed PROVE Validated' \subseteq Owed'
  <2>1. Single /\ Disjoint /\ Validated \subseteq Owed
    BY <1>5 DEF OnceInv, BackedInv
  <2>2. Queued' \cap e = {}
    BY <1>3, <2>1 DEF Single
  <2>3. (Posted \cup Proving) \cap e = {}
    BY <1>3, <2>1 DEF Disjoint
  <2>4. \A t \in Threads : batch[t] \cap e = {}
    <3>1. \A t \in Threads : batch[t] \subseteq Carry
      BY DEF Carry, Carried
    <3> QED
      BY <1>3, <2>1, <3>1 DEF Disjoint
  <2>5. Validated' \cap e = {} /\ Validated' \subseteq Validated
    BY <1>1, <1>3, <1>4, <2>2, <2>3, <2>4 DEF Validated
  <2> QED
    BY <1>1, <2>1, <2>5 DEF Owed
<1> QED
  BY <1>1, <1>5 DEF BackedInv

LEMMA QueuesBacked ==
  ASSUME TypeOK, BackedInv,
         Post \/ \E i \in DOMAIN jobs : Prove(i) \/ ProveFails(i)
  PROVE  BackedInv'
<1>1. /\ posting \in Seq(SUBSET (1..submitted)) /\ jobs \in Seq(SUBSET (1..submitted))
      /\ txs \in Seq(SUBSET (1..submitted))
  BY DEF TypeOK
<1>2. UNCHANGED <<pending, refunded, crashed, batch>>
  BY DEF Post, Prove, ProveFails, chainVars, boundVars, execVars, processVars
<1>3. Posted' \cup Proving' \cup Queued' \subseteq Posted \cup Proving \cup Queued
  <2>1. CASE Post
    <3> DEFINE e == Head(posting)
    <3>1. posting # <<>> /\ posting' = Tail(posting) /\ jobs' = Append(jobs, e) /\ txs' = txs
      BY <2>1 DEF Post
    <3>2. e \in SUBSET (1..submitted) /\ Posted = Posted' \cup e
      BY <1>1, <3>1, TailPlaces DEF Posted
    <3>3. Proving' = Proving \cup e
      BY <1>1, <3>1, <3>2, AppendPlaces DEF Proving
    <3>4. Queued' = Queued
      BY <3>1, SamePlaces
    <3> QED
      BY <3>2, <3>3, <3>4
  <2>2. ASSUME NEW i \in DOMAIN jobs, Prove(i) \/ ProveFails(i)
        PROVE  Posted' \cup Proving' \cup Queued' \subseteq Posted \cup Proving \cup Queued
    <3> DEFINE e == jobs[i]
    <3>1. /\ jobs' = RemoveAt(jobs, i) /\ posting' = posting
          /\ txs' = Append(txs, e) \/ txs' = txs
      BY <2>2 DEF Prove, ProveFails, processVars
    <3>2. Proving = Proving' \cup e /\ e \in SUBSET (1..submitted)
      BY <1>1, <2>2, <3>1, RemoveAtPlaces DEF Proving
    <3> HIDE DEF e
    <3>3. Queued' \subseteq Queued \cup e
      <4>1. txs' = txs => Queued' = Queued
        BY SamePlaces
      <4>2. All(Append(txs, e)) = All(txs) \cup e
        <5>1. PICK S : txs \in Seq(S) /\ e \in S
          BY <1>1, <3>2
        <5> QED
          BY <5>1, AppendPlaces
      <4> QED
        BY <3>1, <4>1, <4>2 DEF Queued
    <3>4. Posted' = Posted
      BY <3>1, SamePlaces
    <3> QED
      BY <3>2, <3>3, <3>4
  <2> QED
    BY <2>1, <2>2
<1>4. Posted' \cup Proving' \cup Queued' \subseteq Validated
  BY <1>3 DEF Validated
<1> QED
  BY <1>2, <1>4, StillBacked DEF Owed

LEMMA BackedKept ==
  ASSUME TypeOK, OnceInv, BackedInv, [Next]_vars PROVE BackedInv'
<1> DEFINE Still == /\ Owed \subseteq Owed'
                    /\ UNCHANGED <<posting, jobs, txs, batch, crashed>>
<1> USE DEF outerVars, chainVars, queueVars, redisVars, execVars, boundVars, processVars
<1>1. ASSUME Still PROVE BackedInv'
  <2>1. Posted' = Posted /\ Proving' = Proving /\ Queued' = Queued
    BY <1>1, SamePlaces
  <2>2. Posted' \cup Proving' \cup Queued' \subseteq Validated
    BY <2>1 DEF Validated
  <2> QED
    BY <1>1, <2>2, StillBacked
<1>2. /\ Watch \/ Repop \/ SavePosition \/ Restart \/ Submit \/ UNCHANGED vars => Still
      /\ \A d : Refund(d) \/ Requeue(d) => Still
  <2>1. Watch \/ Repop \/ SavePosition \/ Restart \/ UNCHANGED vars => Still
    BY DEF Watch, Repop, SavePosition, Restart, vars, Owed
  <2>2. Submit => Still
    BY DEF Submit, Owed
  <2>3. \A d : Refund(d) => Still
    BY DEF Refund, Owed
  <2>4. \A d : Requeue(d) => Still
    BY DEF Requeue, Owed
  <2> QED
    BY <2>1, <2>2, <2>3, <2>4
<1>3. \A t : Store(t) \/ Count(t) \/ DecideExecute(t) \/ DecideDone(t) \/ Take(t)
               \/ TimerFires(t) => Still
  BY DEF Store, Count, DecideExecute, StartExecute, DecideDone, Take, TimerFires, Owed
<1>4. Crash \/ (\E i : WorkerCrash(i)) => BackedInv'
  BY DEF Crash, WorkerCrash, BackedInv
<1> HIDE DEF Still
<1> QED
  BY <1>1, <1>2, <1>3, <1>4, ThreadsAre, ValidateBacked, AppendBacked, QueuesBacked
  DEF Next, Processes, Executes

(* As long as nothing crashed, a batch reverts only for a deposit that was   *)
(* refunded since its validation, however many timers execute beside the     *)
(* adders, validations go unanswered, proofs fail and deposits are put back. *)
THEOREM RevertsExplained == Spec => []RevertsForRefunds
<1>1. Init => BackedInv
  <2> SUFFICES ASSUME Init PROVE BackedInv
    OBVIOUS
  <2>1. /\ posting = <<>> /\ jobs = <<>> /\ txs = <<>> /\ \A t \in Threads : batch[t] = {}
    BY DEF Init, Idle
  <2>2. Posted = {} /\ Proving = {} /\ Queued = {}
    BY <2>1 DEF Posted, Proving, Queued, All
  <2> QED
    BY <2>1, <2>2 DEF BackedInv, Validated
<1>2. TypeOK /\ PlacesInv /\ BackedInv /\ [Next]_vars => BackedInv'
  BY BackedKept DEF PlacesInv
<1>3. TypeOK /\ BackedInv => RevertsForRefunds
  <2> SUFFICES ASSUME TypeOK, BackedInv, ~crashed, NEW i \in DOMAIN Handed
               PROVE  Handed[i] \subseteq pending \cup refunded
    BY DEF RevertsForRefunds
  <2>1. Handed[i] \subseteq Posted \cup Proving \cup Queued
    BY HandedFacts DEF Posted, Proving, Queued, All
  <2> QED
    BY <2>1 DEF BackedInv, Validated, Owed
<1> QED
  BY <1>1, <1>2, <1>3, PlacesAlways, PTL DEF Spec
=============================================================================
