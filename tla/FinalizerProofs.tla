--------------------------- MODULE FinalizerProofs --------------------------
(***************************************************************************)
(* What Finalizer guarantees for every number of commitments, every page   *)
(* size, every set of commitments that are another prover's and every      *)
(* number of mishaps.                                                      *)
(***************************************************************************)
EXTENDS Finalizer, FiniteSetTheorems, WellFoundedInduction, TLAPS

(* A set of naturals that is not empty has a least element.                  *)
LEMMA LeastElement ==
  ASSUME NEW T, T \subseteq Nat, T # {}
  PROVE  \E m \in T : \A k \in T : m <= k
<1>1. PICK m \in T : \A k \in T : <<k, m>> \notin OpToRel(<, Nat)
  BY NatLessThanWellFounded, WFMin
<1>2. ASSUME NEW k \in T PROVE m <= k
  <2>1. <<k, m>> \notin {ss \in Nat \X Nat : ss[1] < ss[2]}
    BY <1>1 DEF OpToRel
  <2>2. k \in Nat /\ m \in Nat
    OBVIOUS
  <2> QED
    BY <2>1, <2>2
<1> QED
  BY <1>2

(* The next index of a tree whose leaves have a bound: the leaf after the    *)
(* last one.                                                                 *)
Bounded(f) == \E n \in Nat : DOMAIN f \subseteq 0..n

LEMMA NextIndexType ==
  ASSUME NEW f, DOMAIN f \subseteq Nat, Bounded(f)
  PROVE  NextIndex(f) \in Nat
<1>1. CASE DOMAIN f = {}
  BY <1>1 DEF NextIndex
<1>2. CASE DOMAIN f # {}
  <2> DEFINE U == {u \in Nat : \A i \in DOMAIN f : i <= u}
  <2>1. PICK n \in Nat : DOMAIN f \subseteq 0..n
    BY DEF Bounded
  <2>2. n \in U
    BY <2>1
  <2>3. PICK m \in U : \A u \in U : m <= u
    BY <2>2, LeastElement
  <2>4. m \in DOMAIN f
    <3> SUFFICES ASSUME m \notin DOMAIN f PROVE FALSE
      OBVIOUS
    <3>1. m \in Nat /\ \A i \in DOMAIN f : i \in Nat /\ i < m
      OBVIOUS
    <3>2. m - 1 \in U
      BY <1>2, <3>1
    <3> QED
      BY <2>3, <3>1, <3>2
  <2>5. \A i \in DOMAIN f : m >= i
    OBVIOUS
  <2>6. Max(DOMAIN f) \in DOMAIN f
    BY <2>4, <2>5 DEF Max
  <2> QED
    BY <1>2, <2>6 DEF NextIndex
<1> QED
  BY <1>1, <1>2

LEMMA NextOfExact == \A n \in Nat : NextIndex(Exact(n)) = n
<1> SUFFICES ASSUME NEW n \in Nat PROVE NextIndex(Exact(n)) = n
  OBVIOUS
<1>0. DOMAIN Exact(n) = 0..(n - 1)
  BY DEF Exact
<1>1. CASE n = 0
  BY <1>0, <1>1 DEF NextIndex
<1>2. CASE n # 0
  <2> DEFINE D == 0..(n - 1)
  <2>1. n - 1 \in D /\ \A y \in D : n - 1 >= y
    BY <1>2
  <2>2. Max(D) \in D /\ \A y \in D : Max(D) >= y
    BY <2>1 DEF Max
  <2>3. Max(D) = n - 1
    BY <2>1, <2>2
  <2> QED
    BY <1>0, <1>2, <2>1, <2>3 DEF NextIndex
<1> QED
  BY <1>1, <1>2

(* Only trees of the same length are the same contract's tree.               *)
LEMMA ExactFits ==
  ASSUME NEW n \in Nat, NEW f, f = Exact(n)
  PROVE  NextIndex(f) = n /\ f = Exact(NextIndex(f))
BY NextOfExact

(* Removing the first of some element leaves a sequence of the same set.     *)
LEMMA RemoveFirstType ==
  ASSUME NEW S, NEW s \in Seq(S), NEW e
  PROVE  RemoveFirst(s, e) \in Seq(S)
<1>1. CASE \E i \in 1..Len(s) : s[i] = e
  <2> DEFINE I == {i \in 1..Len(s) : s[i] = e}
             k == Min(I)
  <2>1. I \subseteq Nat /\ I # {}
    BY <1>1
  <2>2. \E m \in I : \A l \in I : m <= l
    BY <2>1, LeastElement
  <2>3. k \in I
    BY <2>2 DEF Min
  <2>4. RemoveFirst(s, e) = RemoveAt(s, k)
    BY <1>1, <2>1 DEF RemoveFirst, SelectInSeq
  <2>5. k \in DOMAIN s
    BY <2>3
  <2> HIDE DEF k
  <2>6. SubSeq(s, 1, k - 1) \in Seq(S) /\ SubSeq(s, k + 1, Len(s)) \in Seq(S)
    BY <2>5
  <2> QED
    BY <2>4, <2>6 DEF RemoveAt
<1>2. CASE ~\E i \in 1..Len(s) : s[i] = e
  BY <1>2 DEF RemoveFirst
<1> QED
  BY <1>1, <1>2

-----------------------------------------------------------------------------
(* Every commitment the process knows of was announced, and its trees have a *)
(* last leaf.                                                                *)
Holdings ==
  /\ watchPc # "idle" => watched < total
  /\ \A i \in DOMAIN queue : queue[i] < total
  /\ \A i \in DOMAIN sentQ : sentQ[i].job < total
  /\ job # NoJob => job < total
  /\ pc = "record" => sends >= 1

TreeOK(f) ==
  /\ DOMAIN f \subseteq Nat
  /\ \A i \in DOMAIN f : f[i] \in 0..(total - 1)
  /\ Bounded(f)

Shape == TypeOK /\ Holdings /\ Bounded(tree) /\ Bounded(opt)

(* TypeOK by what its parts are about.                                       *)
Numbers ==
  /\ total \in 0..MaxTotal /\ poolIndex \in 0..total
  /\ known \in 0..total /\ indexed \in 0..known
  /\ contractIndex \in 0..poolIndex /\ offset \in Nat /\ commitIndex \in Nat
  /\ sends \in Nat /\ mishaps \in 0..MaxMishaps

Flags == graceOver \in BOOLEAN /\ up \in BOOLEAN

Steps ==
  /\ watchPc \in {"idle", "check", "add"}
  /\ watched \in (IF watchPc = "idle" THEN {NoJob} ELSE Commitments)
  /\ pc \in {"idle", "read", "page", "wipe", "send", "record", "ack"}
  /\ job \in Commitments \cup {NoJob}
  /\ pc \in {"send", "record", "ack"} => job # NoJob

Lists ==
  /\ jobs \in [Commitments -> JobState]
  /\ queue \in Seq(Commitments) /\ sentQ \in Seq(SentTx)
  /\ mempool \in Seq(Tx) /\ receipts \subseteq Receipt

LEMMA ShapeParts ==
  Shape <=> Numbers /\ Flags /\ Steps /\ Lists /\ Holdings /\ TreeOK(tree) /\ TreeOK(opt)
BY DEF Shape, TypeOK, Numbers, Flags, Steps, Lists, TreeOK

LEMMA EmptyTreeOK == ASSUME total \in Nat PROVE TreeOK(Exact(0))
BY DEF TreeOK, Exact, Bounded

LEMMA PutOK ==
  ASSUME NEW f, total \in Nat, TreeOK(f), NEW i \in Nat, NEW c \in 0..(total - 1)
  PROVE  TreeOK(Put(f, i, c))
<1>1. PICK n \in Nat : DOMAIN f \subseteq 0..n
  BY DEF TreeOK, Bounded
<1>2. DOMAIN Put(f, i, c) = DOMAIN f \cup {i}
  BY DEF Put
<1>3. n + i \in Nat /\ DOMAIN Put(f, i, c) \subseteq 0..(n + i)
  BY <1>1, <1>2
<1>4. \A k \in DOMAIN Put(f, i, c) : Put(f, i, c)[k] \in 0..(total - 1)
  BY DEF Put, TreeOK
<1> QED
  BY <1>2, <1>3, <1>4 DEF TreeOK, Bounded

(* A page puts announced commitments at leaves from commitIndex on.          *)
Paged(f, P) ==
  [k \in DOMAIN f \cup {LeafOf(i) : i \in P} |->
     IF k - commitIndex + offset \in P /\ k >= commitIndex
     THEN k - commitIndex + offset ELSE f[k]]

LEMMA PagedOK ==
  ASSUME NEW f, TypeOK, TreeOK(f), NEW P \in SUBSET Page
  PROVE  TreeOK(Paged(f, P))
<1>0. /\ total \in Nat /\ known \in 0..total /\ offset \in Nat /\ commitIndex \in Nat
      /\ PageLimit \in Nat
  BY FinalizerAssumption DEF TypeOK
<1>1. \A i \in P : i \in Nat /\ offset <= i /\ i < total
  BY <1>0 DEF Page
<1>2. \A i \in P : LeafOf(i) \in commitIndex..(commitIndex + total)
  BY <1>0, <1>1 DEF LeafOf
<1>3. PICK n \in Nat : DOMAIN f \subseteq 0..n
  BY DEF TreeOK, Bounded
<1>4. DOMAIN Paged(f, P) = DOMAIN f \cup {LeafOf(i) : i \in P}
  BY DEF Paged
<1>5. DOMAIN Paged(f, P) \subseteq Nat
  BY <1>0, <1>2, <1>4 DEF TreeOK
<1>6. n + commitIndex + total \in Nat
      /\ DOMAIN Paged(f, P) \subseteq 0..(n + commitIndex + total)
  BY <1>0, <1>2, <1>3, <1>4
<1>7. ASSUME NEW k \in DOMAIN Paged(f, P) PROVE Paged(f, P)[k] \in 0..(total - 1)
  <2>1. CASE k - commitIndex + offset \in P /\ k >= commitIndex
    BY <1>0, <1>1, <1>7, <2>1 DEF Paged
  <2>2. CASE ~(k - commitIndex + offset \in P /\ k >= commitIndex)
    <3>1. k \in DOMAIN f
      <4> SUFFICES ASSUME NEW i \in P, k = LeafOf(i) PROVE FALSE
        BY <1>4, <1>7
      <4>1. k - commitIndex + offset = i /\ k >= commitIndex
        BY <1>0, <1>1 DEF LeafOf
      <4> QED
        BY <2>2, <4>1
    <3> QED
      BY <2>2, <3>1, <1>4 DEF Paged, TreeOK
  <2> QED
    BY <2>1, <2>2
<1> QED
  BY <1>5, <1>6, <1>7 DEF TreeOK, Bounded

LEMMA PageCounts == ASSUME TypeOK PROVE Cardinality(Page) \in Nat
<1>1. /\ IsFiniteSet(offset..(known - 1)) /\ Page \subseteq offset..(known - 1)
  BY FS_Interval DEF TypeOK, Page
<1>2. IsFiniteSet(Page)
  BY <1>1, FS_Subset
<1> QED
  BY <1>2, FS_CardinalityType

(* A rolled back tree is a part of a tree.                                   *)
LEMMA CutOK ==
  ASSUME NEW f, TreeOK(f), NEW D \in SUBSET (DOMAIN f)
  PROVE  TreeOK([i \in D |-> f[i]])
BY DEF TreeOK, Bounded

LEMMA NumbersKept == ASSUME Shape, [Next]_vars PROVE Numbers'
<1> USE DEF Numbers, Mishap, EndSync, chainVars, indexerVars, syncVars, txVars
<1>0. /\ Numbers /\ MaxTotal \in Nat /\ MaxMishaps \in Nat
      /\ NextIndex(tree) \in Nat /\ Cardinality(Page) \in Nat
  BY FinalizerAssumption, ShapeParts, NextIndexType, PageCounts DEF Shape, TypeOK
<1>1. CASE Announce \/ GraceEnds \/ OtherProves \/ IndexerFollows
  BY <1>0, <1>1 DEF Announce, GraceEnds, OtherProves, IndexerFollows
<1>2. CASE Mine
  BY <1>0, <1>2 DEF Mine, Provable
<1>3. CASE WatchFetch \/ WatchCheck \/ WatchAdd \/ WorkerFetch \/ Ack \/ Wipe \/ Record
             \/ SentSettles \/ Send \/ UNCHANGED vars
  <2>1. CASE WatchFetch \/ WatchCheck \/ WatchAdd \/ WorkerFetch \/ UNCHANGED vars
    BY <1>0, <2>1, SMTT(30) DEF WatchFetch, WatchCheck, WatchAdd, WorkerFetch, vars
  <2>2. CASE Ack \/ Record
    BY <1>0, <2>2 DEF Ack, Record
  <2>3. CASE Wipe
    BY <1>0, <2>3 DEF Wipe
  <2>4. CASE SentSettles
    BY <1>0, <2>4 DEF SentSettles
  <2>5. CASE Send
    BY <1>0, <2>5 DEF Send
  <2> QED
    BY <1>3, <2>1, <2>2, <2>3, <2>4, <2>5
<1>4. CASE SyncFails \/ RecordFails \/ Crash
  <2>1. CASE SyncFails
    BY <1>0, <2>1 DEF SyncFails
  <2>2. CASE RecordFails
    BY <1>0, <2>2 DEF RecordFails
  <2>3. CASE Crash
    BY <1>0, <2>3 DEF Crash
  <2> QED
    BY <1>4, <2>1, <2>2, <2>3
<1>5. CASE SyncRead
  BY <1>0, <1>5 DEF SyncRead
<1>6. CASE SyncPage
  <2>1. opt' = Paged(opt, Page)
    BY <1>6 DEF SyncPage, AddPage, Paged
  <2>2. TreeOK(opt')
    BY <2>1, PagedOK, ShapeParts DEF Shape
  <2>3. NextIndex(opt') \in Nat
    BY <2>2, NextIndexType DEF TreeOK
  <2> QED
    BY <1>0, <1>6, <2>3 DEF SyncPage
<1>7. CASE SyncLast
  BY <1>0, <1>7 DEF SyncLast
<1> QED
  BY <1>1, <1>2, <1>3, <1>4, <1>5, <1>6, <1>7 DEF Next, Watcher, Worker, Failure, Chain

LEMMA FlagsKept == ASSUME Shape, [Next]_vars PROVE Flags'
<1>0. graceOver \in BOOLEAN /\ up \in BOOLEAN
  BY DEF Shape, TypeOK
<1>1. graceOver' \in {TRUE, FALSE, graceOver}
  BY DEF Next, Watcher, Worker, Failure, Chain, WatchFetch, WatchCheck, WatchAdd,
     WorkerFetch, SyncRead, SyncPage, SyncLast, Wipe, Send, Record, Ack, SyncFails,
     RecordFails, Crash, SentSettles, Mine, IndexerFollows, Announce, OtherProves,
     GraceEnds, vars, chainVars
<1>2. up' \in {TRUE, FALSE, up}
  BY DEF Next, Watcher, Worker, Failure, Chain, WatchFetch, WatchCheck, WatchAdd,
     WorkerFetch, SyncRead, SyncPage, SyncLast, Wipe, Send, Record, Ack, SyncFails,
     RecordFails, Crash, SentSettles, Mine, IndexerFollows, Announce, OtherProves,
     GraceEnds, vars, Synced
<1> QED
  BY <1>0, <1>1, <1>2, Zenon DEF Flags

LEMMA StepsKept == ASSUME Shape, [Next]_vars PROVE Steps'
<1> USE DEF Steps, watchVars
<1>0. Steps /\ queue \in Seq(Commitments)
  BY ShapeParts DEF Lists
<1>1. CASE WatchFetch
  <2>1. poolIndex \in Commitments
    BY <1>1, FinalizerAssumption DEF WatchFetch, Shape, TypeOK, Commitments
  <2> QED
    BY <1>0, <1>1, <2>1 DEF WatchFetch
<1>2. CASE WatchCheck \/ WatchAdd
  BY <1>0, <1>2 DEF WatchCheck, WatchAdd
<1>3. CASE WorkerFetch
  BY <1>0, <1>3 DEF WorkerFetch
<1>4. CASE SyncRead \/ SyncPage \/ SyncLast \/ Wipe \/ Send \/ Record \/ Ack
  BY <1>0, <1>4 DEF SyncRead, SyncPage, SyncLast, Wipe, Send, Record, Ack, Synced,
     SyncThrows
<1>5. CASE SyncFails \/ RecordFails \/ Crash \/ SentSettles
  BY <1>0, <1>5 DEF SyncFails, RecordFails, Crash, SentSettles, SyncThrows
<1>6. CASE Announce \/ GraceEnds \/ OtherProves \/ IndexerFollows \/ Mine
             \/ UNCHANGED vars
  BY <1>0, <1>6 DEF Announce, GraceEnds, OtherProves, IndexerFollows, Mine, vars
<1> QED
  BY <1>1, <1>2, <1>3, <1>4, <1>5, <1>6 DEF Next, Watcher, Worker, Failure, Chain

LEMMA ListsKept == ASSUME Shape, [Next]_vars PROVE Lists'
<1> USE DEF Lists, JobState, jobVars, txVars
<1>0. /\ Lists /\ Steps /\ NextIndex(tree) \in Nat /\ sends \in Nat
      /\ Commitments \subseteq Nat
  BY ShapeParts, NextIndexType DEF Shape, TypeOK, Numbers, Commitments
<1>1. CASE WatchFetch \/ SyncRead \/ SyncPage \/ SyncLast \/ Ack \/ RecordFails
             \/ Announce \/ GraceEnds \/ OtherProves \/ IndexerFollows \/ UNCHANGED vars
  BY <1>0, <1>1 DEF WatchFetch, SyncRead, SyncPage, SyncLast, Ack, RecordFails,
     Announce, GraceEnds, OtherProves, IndexerFollows, vars
<1>2. CASE WatchCheck
  <2>1. RemoveFirst(queue, watched) \in Seq(Commitments)
    BY <1>0, RemoveFirstType
  <2> QED
    BY <1>0, <1>2, <2>1 DEF WatchCheck
<1>3. CASE WatchAdd
  <2>1. watched \in Commitments
    BY <1>0, <1>3 DEF WatchAdd, Steps
  <2>2. Append(queue, watched) \in Seq(Commitments)
    BY <1>0, <2>1
  <2>3. [jobs EXCEPT ![watched] = "waiting"] \in [Commitments -> JobState]
    BY <1>0
  <2> QED
    BY <1>0, <1>3, <2>2, <2>3 DEF WatchAdd
<1>4. CASE WorkerFetch
  BY <1>0, <1>4 DEF WorkerFetch
<1>10. CASE Wipe \/ SyncFails
  <2>1. jobs' = jobs \/ jobs' = [jobs EXCEPT ![job] = "failed"]
    BY <1>10 DEF Wipe, SyncFails, SyncThrows
  <2>2. jobs' \in [Commitments -> JobState]
    BY <1>0, <2>1
  <2>3. UNCHANGED <<queue, sentQ, mempool, receipts>>
    BY <1>10 DEF Wipe, SyncFails
  <2> QED
    BY <1>0, <2>2, <2>3
<1>5. CASE Send
  <2>1. (tree = Exact(NextIndex(tree))) \in BOOLEAN
    OBVIOUS
  <2>2. job \in Nat
    BY <1>0, <1>5 DEF Send, Steps
  <2> DEFINE tx == [id |-> sends, job |-> job, index |-> NextIndex(tree),
                    fits |-> tree = Exact(NextIndex(tree))]
  <2>3. tx \in Tx
    BY <1>0, <2>1, <2>2 DEF Tx
  <2>4. mempool' = Append(mempool, tx)
    BY <1>5 DEF Send
  <2> HIDE DEF tx
  <2> QED
    BY <1>0, <1>5, <2>3, <2>4 DEF Send
<1>6. CASE Record
  <2> DEFINE s == [id |-> sends - 1, job |-> job, index |-> NextIndex(tree)]
  <2>1. s \in SentTx
    BY <1>0, <1>6 DEF Record, Steps, SentTx, Shape, Holdings
  <2>2. sentQ' = Append(sentQ, s)
    BY <1>6 DEF Record
  <2> HIDE DEF s
  <2> QED
    <3>1. jobs' = [jobs EXCEPT ![job] = "sent"] /\ UNCHANGED <<queue, mempool, receipts>>
      BY <1>6 DEF Record
    <3>2. sentQ' \in Seq(SentTx)
      BY <1>0, <2>1, <2>2
    <3>3. jobs' \in [Commitments -> JobState]
      BY <1>0, <3>1
    <3> QED
      BY <1>0, <3>1, <3>2, <3>3
<1>7. CASE Crash
  BY <1>0, <1>7 DEF Crash, Steps
<1>8. CASE Mine
  <2>1. Head(mempool) \in Tx /\ Tail(mempool) \in Seq(Tx)
    BY <1>0, <1>8 DEF Mine
  <2>2. Provable(Head(mempool)) \in BOOLEAN
    BY DEF Provable
  <2>3. receipts' \subseteq Receipt
    <3>1. PICK tx \in Tx : tx = Head(mempool)
      BY <2>1
    <3>2. PICK ok \in BOOLEAN : ok = Provable(tx)
      BY <2>2, <3>1
    <3>3. receipts' = receipts \cup {[id |-> tx.id, job |-> tx.job, ok |-> ok]}
      BY <1>8, <3>1, <3>2 DEF Mine
    <3>4. [id |-> tx.id, job |-> tx.job, ok |-> ok] \in Receipt
      BY DEF Tx, Receipt
    <3> QED
      BY <1>0, <3>3, <3>4
  <2> QED
    BY <1>0, <1>8, <2>1, <2>3 DEF Mine
<1>9. CASE SentSettles
  <2>1. sentQ' \in Seq(SentTx)
    BY <1>0, <1>9 DEF SentSettles
  <2>2. jobs' \in [Commitments -> JobState]
    BY <1>0, <1>9 DEF SentSettles, Confirmed, Reverted
  <2> QED
    BY <1>0, <1>9, <2>1, <2>2 DEF SentSettles
<1> QED
  BY <1>1, <1>2, <1>3, <1>4, <1>5, <1>6, <1>7, <1>8, <1>9, <1>10
  DEF Next, Watcher, Worker, Failure, Chain

LEMMA HoldingsKept == ASSUME Shape, [Next]_vars PROVE Holdings'
<1> USE DEF Holdings, jobVars, watchVars, txVars, chainVars
<1>0. /\ Holdings /\ total \in Nat /\ poolIndex \in Nat /\ queue \in Seq(Commitments)
      /\ sentQ \in Seq(SentTx) /\ Steps /\ Commitments \subseteq Nat /\ sends \in Nat
  BY ShapeParts, FinalizerAssumption DEF Numbers, Lists, Commitments
<1>1. CASE WatchFetch
  BY <1>0, <1>1 DEF WatchFetch
<1>2. CASE WatchCheck
  <2> DEFINE S == {c \in Commitments : c < total}
  <2>1. queue \in Seq(S)
    BY <1>0
  <2>2. RemoveFirst(queue, watched) \in Seq(S)
    BY <2>1, RemoveFirstType
  <2>3. queue' = queue \/ queue' = RemoveFirst(queue, watched)
    BY <1>2 DEF WatchCheck
  <2>4. \A i \in DOMAIN queue' : queue'[i] < total
    BY <2>1, <2>2, <2>3
  <2> QED
    BY <1>0, <1>2, <2>4 DEF WatchCheck
<1>3. CASE WatchAdd
  <2>1. watched \in Commitments /\ watched < total
    BY <1>0, <1>3 DEF WatchAdd, Steps
  <2>2. \A i \in DOMAIN Append(queue, watched) : Append(queue, watched)[i] < total
    BY <1>0, <2>1
  <2>3. queue' = queue \/ queue' = Append(queue, watched)
    BY <1>3 DEF WatchAdd
  <2>4. \A i \in DOMAIN queue' : queue'[i] < total
    BY <1>0, <2>2, <2>3
  <2> QED
    BY <1>0, <1>3, <2>4 DEF WatchAdd
<1>4. CASE WorkerFetch
  BY <1>0, <1>4 DEF WorkerFetch
<1>5. CASE SyncRead \/ SyncPage \/ SyncLast
  BY <1>0, <1>5 DEF SyncRead, SyncPage, SyncLast, Synced
<1>6. CASE Wipe \/ SyncFails \/ RecordFails \/ Ack
  BY <1>0, <1>6 DEF Wipe, SyncFails, RecordFails, Ack, SyncThrows
<1>7. CASE Send
  BY <1>0, <1>7 DEF Send
<1>8. CASE Record
  <2> DEFINE s == [id |-> sends - 1, job |-> job, index |-> NextIndex(tree)]
  <2>1. sentQ' = Append(sentQ, s) /\ s.job < total
    BY <1>0, <1>8 DEF Record, Steps
  <2> HIDE DEF s
  <2>2. \A i \in DOMAIN sentQ' : sentQ'[i].job < total
    BY <1>0, <2>1
  <2> QED
    BY <1>0, <1>8, <2>2 DEF Record
<1>9. CASE SentSettles
  <2>1. sentQ' = Tail(sentQ)
    BY <1>9 DEF SentSettles
  <2>2. \A i \in DOMAIN sentQ' : sentQ'[i].job < total
    BY <1>0, <1>9, <2>1 DEF SentSettles
  <2> QED
    BY <1>0, <1>9, <2>2 DEF SentSettles
<1>10. CASE Crash
  <2>1. \A i \in DOMAIN queue' : queue'[i] < total
    BY <1>0, <1>10 DEF Crash, Steps
  <2> QED
    BY <1>0, <1>10, <2>1 DEF Crash
<1>11. CASE Announce
  <2>0. /\ \A i \in DOMAIN queue : queue[i] \in Commitments
        /\ \A i \in DOMAIN sentQ : sentQ[i] \in SentTx
    BY <1>0
  <2>1. \A i \in DOMAIN queue : queue[i] < total + 1
    <3>1. \A i \in DOMAIN queue : queue[i] \in Nat /\ queue[i] < total
      BY <1>0, <2>0
    <3> QED
      BY <1>0, <3>1
  <2>2. \A i \in DOMAIN sentQ : sentQ[i].job < total + 1
    <3>1. \A i \in DOMAIN sentQ : sentQ[i].job \in Nat /\ sentQ[i].job < total
      BY <1>0, <2>0 DEF SentTx
    <3> QED
      BY <1>0, <3>1
  <2>3. (watchPc # "idle" => watched \in Nat) /\ (job # NoJob => job \in Nat)
    BY <1>0 DEF Steps
  <2> QED
    BY <1>0, <1>11, <2>1, <2>2, <2>3 DEF Announce
<1>12. CASE GraceEnds \/ OtherProves \/ IndexerFollows \/ Mine \/ UNCHANGED vars
  BY <1>0, <1>12 DEF GraceEnds, OtherProves, IndexerFollows, Mine, vars
<1> QED
  BY <1>1, <1>2, <1>3, <1>4, <1>5, <1>6, <1>7, <1>8, <1>9, <1>10, <1>11, <1>12
  DEF Next, Watcher, Worker, Failure, Chain

LEMMA TreesKept == ASSUME Shape, [Next]_vars PROVE TreeOK(tree)' /\ TreeOK(opt)'
<1>0. TreeOK(tree) /\ TreeOK(opt) /\ total \in Nat
  BY ShapeParts, FinalizerAssumption DEF Numbers
<1>1. ASSUME NEW f, NEW g, TreeOK(f), TreeOK(g), tree' = f, opt' = g, total' = total
      PROVE  TreeOK(tree)' /\ TreeOK(opt)'
  BY <1>1 DEF TreeOK, Bounded
<1>2. CASE Announce
  BY <1>0, <1>2 DEF Announce, treeVars, TreeOK, Bounded
<1>3. CASE SyncPage
  <2>1. opt' = Paged(opt, Page) /\ tree' = Paged(tree, {i \in Page : i < indexed})
    BY <1>3 DEF SyncPage, AddPage, Paged
  <2>2. TreeOK(Paged(opt, Page)) /\ TreeOK(Paged(tree, {i \in Page : i < indexed}))
    BY <1>0, PagedOK DEF Shape
  <2>3. total' = total
    BY <1>3 DEF SyncPage, chainVars
  <2> QED
    BY <1>1, <2>1, <2>2, <2>3
<1>4. CASE Wipe
  BY <1>0, <1>1, <1>4, EmptyTreeOK DEF Wipe, chainVars
<1>5. CASE SentSettles
  <2>1. sentQ \in Seq(SentTx) /\ sentQ # <<>> /\ Head(sentQ).job < total
    BY <1>5, ShapeParts DEF SentSettles, Lists, Holdings
  <2>2. Head(sentQ).index \in Nat /\ Head(sentQ).job \in 0..(total - 1)
    <3>1. Head(sentQ) \in SentTx
      BY <2>1
    <3>2. Head(sentQ).index \in Nat /\ Head(sentQ).job \in Nat
      BY <3>1 DEF SentTx
    <3> QED
      BY <1>0, <2>1, <3>2
  <2>3. TreeOK(Put(opt, Head(sentQ).index, Head(sentQ).job))
        /\ TreeOK(Put(tree, Head(sentQ).index, Head(sentQ).job))
    BY <1>0, <2>2, PutOK
  <2>4. TreeOK([i \in {k \in DOMAIN opt : k < NextIndex(tree)} |-> opt[i]])
    BY <1>0, CutOK
  <2>5. total' = total
    BY <1>5 DEF SentSettles, chainVars
  <2>6. CASE \E r \in receipts : Confirmed(r)
    <3>1. opt' = Put(opt, Head(sentQ).index, Head(sentQ).job)
          /\ tree' \in {tree, Put(tree, Head(sentQ).index, Head(sentQ).job)}
      BY <2>6 DEF Confirmed
    <3> QED
      BY <1>0, <1>1, <2>3, <2>5, <3>1
  <2>7. CASE \E r \in receipts : Reverted(r)
    BY <1>0, <1>1, <2>4, <2>5, <2>7 DEF Reverted
  <2> QED
    BY <1>5, <2>6, <2>7 DEF SentSettles
<1>6. CASE UNCHANGED <<treeVars, total>>
  BY <1>0, <1>1, <1>6 DEF treeVars
<1> QED
  BY <1>2, <1>3, <1>4, <1>5, <1>6
  DEF Next, Watcher, Worker, Failure, Chain, WatchFetch, WatchCheck, WatchAdd,
      WorkerFetch, SyncRead, SyncLast, Send, Record, Ack, SyncFails, RecordFails, Crash,
      Mine, IndexerFollows, OtherProves, GraceEnds, vars, chainVars

(* Every variable keeps its range, whatever pages, wipes, crashes and other  *)
(* provers' proofs do.                                                       *)
LEMMA ShapeAlways == Spec => []Shape
<1>1. Init => Shape
  <2> SUFFICES ASSUME Init PROVE Shape
    OBVIOUS
  <2>1. Numbers /\ Steps /\ Holdings
    BY FinalizerAssumption DEF Init, Numbers, Steps, Holdings
  <2>2. graceOver = FALSE /\ up = FALSE
    BY DEF Init
  <2>3. Flags
    BY <2>2, Zenon DEF Flags
  <2>4. Lists
    BY DEF Init, Lists, JobState
  <2>5. TreeOK(tree) /\ TreeOK(opt)
    BY <2>1, EmptyTreeOK, FinalizerAssumption DEF Init, Numbers
  <2> QED
    BY <2>1, <2>3, <2>4, <2>5, ShapeParts
<1>2. Shape /\ [Next]_vars => Shape'
  <2> SUFFICES ASSUME Shape, [Next]_vars PROVE Shape'
    OBVIOUS
  <2>1. Numbers' /\ Flags' /\ Steps' /\ Lists' /\ Holdings' /\ TreeOK(tree)' /\ TreeOK(opt)'
    BY NumbersKept, FlagsKept, StepsKept, ListsKept, HoldingsKept, TreesKept
  <2> QED
    BY <2>1 DEF Shape, TypeOK, Numbers, Flags, Steps, Lists, TreeOK
<1> QED
  BY <1>1, <1>2, PTL DEF Spec

THEOREM TypeCorrect == Spec => []TypeOK
<1>1. Shape => TypeOK
  BY DEF Shape
<1> QED
  BY <1>1, ShapeAlways, PTL

-----------------------------------------------------------------------------
(* The contract's index only grows.                                          *)
LEMMA IndexGrows ==
  ASSUME Shape, [Next]_vars PROVE poolIndex <= poolIndex' /\ poolIndex' \in Nat
<1>1. poolIndex \in Nat
  BY FinalizerAssumption, ShapeParts DEF Numbers
<1> QED
  BY <1>1 DEF Next, Watcher, Worker, Failure, Chain, WatchFetch, WatchCheck, WatchAdd,
     WorkerFetch, SyncRead, SyncPage, SyncLast, Wipe, Send, Record, Ack, SyncFails,
     RecordFails, Crash, SentSettles, Mine, IndexerFollows, Announce, OtherProves,
     GraceEnds, vars, chainVars

(* What the worker's tree is when it starts to prove, in which step, and why *)
(* nothing changes it until the proof is recorded.                           *)
LEMMA ProvedTree ==
  ASSUME Shape, [Next]_vars, pc' \in {"send", "record"}
  PROVE  /\ tree' = tree /\ job' = job
         /\ \/ pc \in {"send", "record"}
            \/ /\ SyncRead
               /\ \E n \in 0..poolIndex : tree = Exact(n) /\ (n < poolIndex => Mishap)
            \/ SyncLast /\ pc = "page" /\ tree = Exact(contractIndex)
<1> USE DEF treeVars, vars
<1>0. MutexFree => pc \notin {"send", "record"}
  BY DEF MutexFree
<1>1. CASE SyncRead
  BY <1>1 DEF SyncRead, Synced
<1>2. CASE SyncLast
  BY <1>2 DEF SyncLast, Synced
<1>3. CASE Send \/ Record \/ RecordFails \/ SyncFails \/ Wipe \/ SyncPage \/ Ack
             \/ WorkerFetch \/ Crash \/ SentSettles
  BY <1>0, <1>3 DEF Send, Record, RecordFails, SyncFails, Wipe, SyncPage, Ack,
     WorkerFetch, Crash, SentSettles, SyncThrows
<1>4. CASE WatchFetch \/ WatchCheck \/ WatchAdd \/ Announce \/ GraceEnds \/ OtherProves
             \/ IndexerFollows \/ Mine \/ UNCHANGED vars
  BY <1>4 DEF WatchFetch, WatchCheck, WatchAdd, Announce, GraceEnds, OtherProves,
     IndexerFollows, Mine
<1> QED
  BY <1>1, <1>2, <1>3, <1>4 DEF Next, Watcher, Worker, Failure, Chain

(* A proof is only ever made on a tree the contract has had, however pages,  *)
(* wipes, receipts, crashes and other provers' proofs interleave before it.  *)
THEOREM ProofsFit == Spec => []ProofOnContractTree
<1>1. Init => ProofOnContractTree
  BY DEF Init, ProofOnContractTree
<1>2. Shape /\ ProofOnContractTree /\ [Next]_vars => ProofOnContractTree'
  <2> SUFFICES ASSUME Shape, ProofOnContractTree, [Next]_vars,
                      pc' \in {"send", "record"}
               PROVE  \E n \in 0..poolIndex' : tree' = Exact(n)
    BY DEF ProofOnContractTree
  <2>1. \E n \in 0..poolIndex : tree = Exact(n)
    BY ProvedTree, ShapeParts DEF ProofOnContractTree, Numbers
  <2>2. poolIndex <= poolIndex' /\ poolIndex' \in Nat /\ poolIndex \in Nat
    BY IndexGrows, ShapeParts, FinalizerAssumption DEF Numbers
  <2> QED
    BY <2>1, <2>2, ProvedTree
<1> QED
  BY <1>1, <1>2, ShapeAlways, PTL DEF Spec

-----------------------------------------------------------------------------
(* As long as there was no mishap: where a job is agrees with its state, ... *)
QueueInv ==
  /\ \A i \in DOMAIN queue : jobs[queue[i]] = "waiting" /\ queue[i] # job
  /\ \A i, k \in DOMAIN queue : queue[i] = queue[k] => i = k
  /\ job # NoJob => jobs[job] \in (IF pc = "ack" THEN {"sent", "completed", "failed"}
                                   ELSE {"waiting"})
  /\ pc = "idle" => job = NoJob
  /\ \A c \in Commitments :
       jobs[c] = "waiting" => job = c \/ \E i \in DOMAIN queue : queue[i] = c
  /\ \A i \in DOMAIN sentQ : jobs[sentQ[i].job] \in {"sent", "completed"}

(* ... only commitments whose turn has come, or is over, have jobs, ...      *)
Due(c) == c < total /\ c <= poolIndex /\ (c = poolIndex => Allowed)

DueInv ==
  /\ watchPc # "idle" => Due(watched)
  /\ \A c \in Commitments : jobs[c] # "none" => Due(c)

(* ... a job is proved on a tree the contract has had since the job began,   *)
(* ...                                                                       *)
SyncInv ==
  /\ pc = "page" /\ job # NoJob => job <= contractIndex
  /\ pc \in {"send", "record"} => \E n \in job..poolIndex : tree = Exact(n)

(* ... and what was sent succeeds or finds its commitment proved already.    *)
Launched(c) == jobs[c] \in {"sent", "completed"} \/ (pc = "record" /\ job = c)

SendInv ==
  /\ \A i \in DOMAIN mempool :
       /\ mempool[i].fits = TRUE /\ mempool[i].job \in Commitments
       /\ mempool[i].job <= mempool[i].index /\ mempool[i].index <= poolIndex
       /\ Launched(mempool[i].job)
  /\ \A i, k \in DOMAIN mempool : mempool[i].job = mempool[k].job => i = k
  /\ \A c \in Commitments :
       Launched(c) => c < poolIndex \/ \E i \in DOMAIN mempool : mempool[i].job = c

Calm == QueueInv /\ DueInv /\ SyncInv /\ SendInv

LEMMA StaysCalm ==
  ASSUME Shape, [Next]_vars, mishaps' = 0 PROVE mishaps = 0 /\ ~Mishap
<1>1. mishaps \in Nat
  BY FinalizerAssumption, ShapeParts DEF Numbers
<1>2. mishaps' = mishaps \/ Mishap
  BY DEF Next, Watcher, Worker, Failure, Chain, WatchFetch, WatchCheck, WatchAdd,
     WorkerFetch, SyncRead, SyncPage, SyncLast, Wipe, Send, Record, Ack, SyncFails,
     RecordFails, Crash, SentSettles, Mine, IndexerFollows, Announce, OtherProves,
     GraceEnds, vars
<1> QED
  BY <1>1, <1>2 DEF Mishap

(* The jobs of the sent queue and the worker's are of announced commitments. *)
LEMMA SentJobs == ASSUME Shape PROVE \A i \in DOMAIN sentQ : sentQ[i].job \in Commitments
<1> SUFFICES ASSUME NEW i \in DOMAIN sentQ PROVE sentQ[i].job \in Commitments
  OBVIOUS
<1>1. sentQ[i] \in SentTx
  BY ShapeParts DEF Lists
<1>2. sentQ[i].job \in Nat /\ sentQ[i].job < total
  BY <1>1, ShapeParts DEF SentTx, Holdings
<1>3. total \in 0..MaxTotal
  BY ShapeParts DEF Numbers
<1> QED
  BY <1>2, <1>3, FinalizerAssumption DEF Commitments

LEMMA QueueInvKept ==
  ASSUME Shape, QueueInv, ~Mishap, [Next]_vars PROVE QueueInv'
<1> USE DEF QueueInv, jobVars
<1>0. Steps /\ Lists /\ NoJob \notin Commitments
  BY ShapeParts, FinalizerAssumption DEF Commitments
<1>1. CASE WatchCheck
  <2>1. watched \in Commitments
    BY <1>0, <1>1 DEF WatchCheck, Steps
  <2>2. CASE jobs' = [jobs EXCEPT ![watched] = "none"] /\ jobs[watched] = "failed"
             /\ job # watched
    <3>1. \A i \in 1..Len(queue) : queue[i] # watched
      BY <1>0, <2>2 DEF Lists
    <3>2. queue' = queue
      BY <1>1, <2>2, <3>1 DEF WatchCheck, RemoveFirst
    <3>3. \A i \in DOMAIN queue : queue[i] \in Commitments /\ queue[i] # watched
      BY <1>0, <3>1 DEF Lists
    <3>4. \A i \in DOMAIN sentQ : sentQ[i].job # watched
      BY <2>2
    <3>5. UNCHANGED <<sentQ, pc, job>>
      BY <1>1 DEF WatchCheck
    <3>6. \A c : c # watched => jobs'[c] = jobs[c]
      BY <1>0, <2>2 DEF Lists
    <3>7. jobs'[watched] # "waiting"
      BY <1>0, <2>1, <2>2 DEF Lists
    <3> QED
      BY <2>2, <3>2, <3>3, <3>4, <3>5, <3>6, <3>7
  <2>3. CASE UNCHANGED jobVars
    BY <1>1, <2>3 DEF WatchCheck
  <2> QED
    BY <1>1, <2>2, <2>3 DEF WatchCheck
<1>2. CASE WatchAdd
  <2>1. watched \in Commitments /\ UNCHANGED <<sentQ, pc, job>>
    BY <1>0, <1>2 DEF WatchAdd, Steps
  <2>2. CASE jobs[watched] = "none"
    <3>1. jobs' = [jobs EXCEPT ![watched] = "waiting"] /\ queue' = Append(queue, watched)
      BY <1>2, <2>2 DEF WatchAdd
    <3>2. /\ \A c : c # watched => jobs'[c] = jobs[c]
          /\ jobs'[watched] = "waiting"
      BY <1>0, <2>1, <3>1 DEF Lists
    <3>3. /\ job # watched /\ \A i \in DOMAIN queue : queue[i] # watched
          /\ \A i \in DOMAIN sentQ : sentQ[i].job # watched
      BY <2>1, <2>2, <1>0
    <3>4. /\ \A i \in DOMAIN queue' :
               \/ i \in DOMAIN queue /\ queue'[i] = queue[i]
               \/ i = Len(queue) + 1 /\ queue'[i] = watched
          /\ \A i \in DOMAIN queue : i \in DOMAIN queue' /\ queue'[i] = queue[i]
          /\ Len(queue) + 1 \in DOMAIN queue' /\ queue'[Len(queue) + 1] = watched
      BY <1>0, <2>1, <3>1 DEF Lists
    <3> QED
      BY <2>1, <3>2, <3>3, <3>4
  <2>3. CASE jobs[watched] # "none"
    BY <1>2, <2>1, <2>3 DEF WatchAdd
  <2> QED
    BY <2>2, <2>3
<1>3. CASE WorkerFetch
  <2>1. /\ queue \in Seq(Commitments) /\ queue # <<>> /\ queue' = Tail(queue)
        /\ job' = Head(queue) /\ pc' = "read" /\ job = NoJob
        /\ UNCHANGED <<jobs, sentQ>>
    BY <1>0, <1>3 DEF WorkerFetch, Lists
  <2>2. /\ job' = queue[1] /\ 1 \in DOMAIN queue
        /\ \A i \in DOMAIN queue' : i + 1 \in DOMAIN queue /\ i + 1 # 1 /\ queue'[i] = queue[i + 1]
    BY <2>1
  <2>3. \A i \in DOMAIN queue : i = 1 \/ (i - 1 \in DOMAIN queue' /\ queue'[i - 1] = queue[i])
    BY <2>1
  <2>4. ASSUME NEW i \in DOMAIN queue', NEW k \in DOMAIN queue', queue'[i] = queue'[k]
        PROVE  i = k
    <3>1. i \in Nat /\ k \in Nat
      BY <2>1
    <3>2. /\ i + 1 \in DOMAIN queue /\ k + 1 \in DOMAIN queue
          /\ queue[i + 1] = queue[k + 1]
      BY <2>2, <2>4
    <3>3. i + 1 = k + 1
      BY <3>2
    <3> QED
      BY <3>1, <3>3
  <2>5. \A i \in DOMAIN queue' : jobs'[queue'[i]] = "waiting" /\ queue'[i] # job'
    BY <2>1, <2>2
  <2>6. ASSUME NEW c \in Commitments, jobs'[c] = "waiting"
        PROVE  job' = c \/ \E i \in DOMAIN queue' : queue'[i] = c
    <3>1. PICK i \in DOMAIN queue : queue[i] = c
      BY <1>0, <2>1, <2>6
    <3>2. i = 1 \/ (i - 1 \in DOMAIN queue' /\ queue'[i - 1] = c)
      BY <2>3, <3>1
    <3> QED
      BY <2>2, <3>1, <3>2
  <2> QED
    BY <2>1, <2>2, <2>4, <2>5, <2>6
<1>4. CASE SyncRead \/ SyncPage \/ SyncLast \/ Send
  BY <1>0, <1>4 DEF SyncRead, SyncPage, SyncLast, Send, Synced, Steps
<1>5. CASE Wipe
  <2>1. CASE job = NoJob
    BY <1>5, <2>1 DEF Wipe, SyncThrows
  <2>2. CASE job # NoJob
    <3>1. /\ jobs' = [jobs EXCEPT ![job] = "failed"] /\ pc' = "ack" /\ job \in Commitments
          /\ jobs[job] = "waiting" /\ UNCHANGED <<queue, sentQ, job>>
      BY <1>0, <1>5, <2>2 DEF Wipe, SyncThrows, Steps
    <3>2. (\A c : c # job => jobs'[c] = jobs[c]) /\ jobs'[job] = "failed"
      BY <1>0, <3>1 DEF Lists
    <3>3. \A i \in DOMAIN sentQ : sentQ[i].job # job
      BY <3>1
    <3> QED
      BY <3>1, <3>2, <3>3
  <2> QED
    BY <2>1, <2>2
<1>6. CASE Record
  <2> DEFINE s == [id |-> sends - 1, job |-> job, index |-> NextIndex(tree)]
  <2>1. /\ jobs' = [jobs EXCEPT ![job] = "sent"] /\ pc' = "ack" /\ job \in Commitments
        /\ jobs[job] = "waiting" /\ UNCHANGED <<queue, job>>
        /\ sentQ' = Append(sentQ, s) /\ s.job = job
    BY <1>0, <1>6 DEF Record, Steps
  <2> HIDE DEF s
  <2>2. (\A c : c # job => jobs'[c] = jobs[c]) /\ jobs'[job] = "sent"
    BY <1>0, <2>1 DEF Lists
  <2>3. \A i \in DOMAIN sentQ' : (i \in DOMAIN sentQ /\ sentQ'[i] = sentQ[i]) \/ sentQ'[i] = s
    BY <1>0, <2>1 DEF Lists
  <2>4. \A i \in DOMAIN sentQ' : jobs'[sentQ'[i].job] \in {"sent", "completed"}
    BY <2>1, <2>2, <2>3
  <2> QED
    BY <2>1, <2>2, <2>4
<1>7. CASE Ack
  BY <1>0, <1>7 DEF Ack, Steps, Lists
<1>8. CASE SentSettles
  <2>1. /\ sentQ \in Seq(SentTx) /\ sentQ # <<>> /\ sentQ' = Tail(sentQ)
        /\ UNCHANGED <<queue, pc, job>> /\ pc \in {"idle", "ack"}
        /\ jobs' = jobs \/ jobs' = [jobs EXCEPT ![Head(sentQ).job] = "completed"]
    BY <1>0, <1>8 DEF SentSettles, Lists, MutexFree, Confirmed, Reverted
  <2>2. 1 \in DOMAIN sentQ /\ Head(sentQ) = sentQ[1]
        /\ \A i \in DOMAIN sentQ' : i + 1 \in DOMAIN sentQ /\ sentQ'[i] = sentQ[i + 1]
    BY <2>1
  <2>3. jobs[Head(sentQ).job] \in {"sent", "completed"}
    BY <2>2
  <2>4. ASSUME NEW c \in Commitments
        PROVE  \/ jobs'[c] = jobs[c]
               \/ /\ c = Head(sentQ).job
                  /\ jobs[c] \in {"sent", "completed"} /\ jobs'[c] = "completed"
    <3> DEFINE h == Head(sentQ).job
    <3>1. jobs' = jobs \/ jobs' = [jobs EXCEPT ![h] = "completed"]
      BY <2>1
    <3>2. jobs[h] \in {"sent", "completed"}
      BY <2>3
    <3> HIDE DEF h
    <3>3. \/ jobs'[c] = jobs[c]
          \/ c = h /\ jobs[c] \in {"sent", "completed"} /\ jobs'[c] = "completed"
      BY <1>0, <3>1, <3>2 DEF Lists
    <3> QED
      BY <3>3 DEF h
  <2>5. ASSUME NEW i \in DOMAIN sentQ' PROVE jobs'[sentQ'[i].job] \in {"sent", "completed"}
    <3> DEFINE h == sentQ'[i].job
    <3>1. h \in Commitments /\ jobs[h] \in {"sent", "completed"}
      BY <2>1, <2>2, SentJobs
    <3> HIDE DEF h
    <3>2. jobs'[h] \in {"sent", "completed"}
      BY <2>4, <3>1
    <3> QED
      BY <3>2 DEF h
  <2>6. \A i \in DOMAIN queue' : jobs'[queue'[i]] = "waiting" /\ queue'[i] # job'
    <3>1. \A i \in DOMAIN queue : queue[i] \in Commitments
      BY <1>0 DEF Lists
    <3> QED
      BY <2>1, <2>4, <3>1
  <2>7. job' # NoJob => jobs'[job'] \in {"sent", "completed", "failed"} /\ pc' = "ack"
    <3>1. job # NoJob => job \in Commitments
      BY <1>0 DEF Steps
    <3> QED
      BY <2>1, <2>4, <3>1
  <2> QED
    BY <2>1, <2>4, <2>5, <2>6, <2>7
<1>9. CASE WatchFetch \/ Announce \/ GraceEnds \/ OtherProves \/ IndexerFollows \/ Mine
             \/ UNCHANGED vars
  BY <1>9 DEF WatchFetch, Announce, GraceEnds, OtherProves, IndexerFollows, Mine, vars
<1>10. CASE Failure
  BY <1>10 DEF Failure, SyncFails, RecordFails, Crash
<1> QED
  BY <1>1, <1>2, <1>3, <1>4, <1>5, <1>6, <1>7, <1>8, <1>9, <1>10
  DEF Next, Watcher, Worker, Chain

-----------------------------------------------------------------------------
(* A turn that has come is not taken back.                                   *)
LEMMA DueKept ==
  ASSUME Shape, [Next]_vars, NEW c \in Nat, Due(c) PROVE Due(c)'
<1>1. poolIndex \in Nat /\ total \in Nat /\ poolIndex <= total
  BY FinalizerAssumption, ShapeParts DEF Numbers
<1>2. /\ total' = total \/ total' = total + 1
      /\ \/ poolIndex' = poolIndex /\ (graceOver' = graceOver \/ graceOver' = TRUE)
         \/ poolIndex' = poolIndex + 1
  BY DEF Next, Watcher, Worker, Failure, Chain, WatchFetch, WatchCheck, WatchAdd,
     WorkerFetch, SyncRead, SyncPage, SyncLast, Wipe, Send, Record, Ack, SyncFails,
     RecordFails, Crash, SentSettles, Mine, IndexerFollows, Announce, OtherProves,
     GraceEnds, vars, chainVars
<1> QED
  BY <1>1, <1>2 DEF Due, Allowed

(* What becomes of a job's state in a step.                                  *)
JobStep(c) ==
  \/ jobs'[c] = jobs[c]
  \/ WatchCheck /\ jobs[c] = "failed" /\ jobs'[c] = "none"
  \/ WatchAdd /\ watchPc = "add" /\ c = watched /\ jobs[c] = "none" /\ jobs'[c] = "waiting"
  \/ c = job /\ pc \in {"page", "wipe"} /\ jobs[c] = "waiting" /\ jobs'[c] = "failed"
  \/ Record /\ c = job /\ pc = "record" /\ jobs[c] = "waiting" /\ jobs'[c] = "sent"
  \/ SentSettles /\ jobs[c] \in {"sent", "completed"} /\ jobs'[c] = "completed"

LEMMA JobSteps ==
  ASSUME Shape, QueueInv, ~Mishap, [Next]_vars, NEW c \in Commitments PROVE JobStep(c)
<1> USE DEF JobStep, jobVars
<1>0. Steps /\ Lists
  BY ShapeParts
<1>1. CASE WatchCheck
  BY <1>0, <1>1 DEF WatchCheck, Lists
<1>2. CASE WatchAdd
  BY <1>0, <1>2 DEF WatchAdd, Lists
<1>3. CASE Wipe \/ SyncLast
  <2>1. \/ UNCHANGED jobs
        \/ pc \in {"page", "wipe"} /\ job # NoJob /\ jobs' = [jobs EXCEPT ![job] = "failed"]
    BY <1>3 DEF Wipe, SyncLast, SyncThrows
  <2> QED
    BY <1>0, <2>1 DEF Lists, QueueInv
<1>4. CASE Record
  BY <1>0, <1>4 DEF Record, Lists, Steps, QueueInv
<1>5. CASE SentSettles
  <2> DEFINE h == Head(sentQ).job
  <2>1. sentQ # <<>> /\ (jobs' = jobs \/ jobs' = [jobs EXCEPT ![h] = "completed"])
    BY <1>5 DEF SentSettles, Confirmed, Reverted
  <2>2. 1 \in DOMAIN sentQ /\ Head(sentQ) = sentQ[1]
    BY <1>0, <2>1 DEF Lists
  <2>3. jobs[h] \in {"sent", "completed"}
    BY <2>2 DEF QueueInv
  <2> HIDE DEF h
  <2> QED
    BY <1>0, <1>5, <2>1, <2>3 DEF Lists
<1>6. CASE WatchFetch \/ WorkerFetch \/ SyncRead \/ SyncPage \/ Send \/ Ack \/ Announce
             \/ GraceEnds \/ OtherProves \/ IndexerFollows \/ Mine \/ UNCHANGED vars
  BY <1>6 DEF WatchFetch, WorkerFetch, SyncRead, SyncPage, Send, Ack, Announce, GraceEnds,
     OtherProves, IndexerFollows, Mine, vars
<1>7. CASE Failure
  BY <1>7 DEF Failure, SyncFails, RecordFails, Crash
<1> QED
  BY <1>1, <1>2, <1>3, <1>4, <1>5, <1>6, <1>7 DEF Next, Watcher, Worker, Chain

LEMMA DueInvKept ==
  ASSUME Shape, QueueInv, DueInv, ~Mishap, [Next]_vars PROVE DueInv'
<1>0. Steps /\ Lists /\ Commitments \subseteq Nat
  BY ShapeParts, FinalizerAssumption DEF Commitments
<1>1. ASSUME watchPc' # "idle" PROVE Due(watched)'
  <2>1. \/ watchPc # "idle" /\ watched' = watched
        \/ watched' = poolIndex /\ poolIndex < total /\ Allowed
           /\ UNCHANGED chainVars
    BY <1>1 DEF Next, Watcher, Worker, Failure, Chain, WatchFetch, WatchCheck, WatchAdd,
       WorkerFetch, SyncRead, SyncPage, SyncLast, Wipe, Send, Record, Ack, SyncFails,
       RecordFails, Crash, SentSettles, Mine, IndexerFollows, Announce, OtherProves,
       GraceEnds, vars, watchVars
  <2>2. CASE watchPc # "idle" /\ watched' = watched
    <3>1. watched \in Nat /\ Due(watched)
      BY <1>0, <2>2 DEF Steps, DueInv
    <3>2. Due(watched)'
      BY <3>1, <2>2, DueKept DEF Due, Allowed
    <3> QED
      BY <3>2
  <2>3. CASE watched' = poolIndex /\ poolIndex < total /\ Allowed /\ UNCHANGED chainVars
    <3>1. poolIndex \in Nat /\ total \in Nat
      BY FinalizerAssumption, ShapeParts DEF Numbers
    <3> QED
      BY <2>3, <3>1 DEF Due, Allowed, chainVars
  <2> QED
    BY <2>1, <2>2, <2>3
<1>2. ASSUME NEW c \in Commitments, jobs'[c] # "none" PROVE Due(c)'
  <2>1. JobStep(c)
    BY JobSteps
  <2>2. c \in Nat
    BY <1>0
  <2>3. CASE jobs[c] # "none"
    BY <2>2, <2>3, DueKept DEF DueInv
  <2>4. CASE jobs[c] = "none"
    <3>1. c = watched /\ watchPc = "add"
      BY <1>2, <2>1, <2>4 DEF JobStep
    <3>2. Due(c)
      BY <3>1 DEF DueInv
    <3> QED
      BY <2>2, <3>2, DueKept
  <2> QED
    BY <2>3, <2>4
<1> QED
  BY <1>1, <1>2 DEF DueInv

(* Without a mishap a job's tree is one the contract had since the job began. *)
LEMMA SyncInvKept ==
  ASSUME Shape, QueueInv, DueInv, SyncInv, ~Mishap, [Next]_vars PROVE SyncInv'
<1>0. /\ Steps /\ Lists /\ Commitments \subseteq Nat /\ NoJob \notin Nat
      /\ poolIndex \in Nat /\ contractIndex \in 0..poolIndex
  BY ShapeParts, FinalizerAssumption DEF Commitments, Numbers
<1>1. poolIndex <= poolIndex' /\ poolIndex' \in Nat
  BY IndexGrows
<1>2. pc \notin {"idle", "ack"} /\ job # NoJob => job \in Nat /\ job <= poolIndex
  BY <1>0 DEF QueueInv, DueInv, Due, Steps
<1>3. ASSUME pc' = "page", job' # NoJob PROVE job' <= contractIndex'
  <2>1. \/ pc = "page" /\ job' = job /\ contractIndex' = contractIndex
        \/ pc = "read" /\ job' = job /\ contractIndex' = poolIndex
    BY <1>3, <1>0 DEF Next, Watcher, Worker, Failure, Chain, WatchFetch, WatchCheck, WatchAdd,
       WorkerFetch, SyncRead, SyncPage, SyncLast, Wipe, Send, Record, Ack, SyncFails,
       RecordFails, Crash, SentSettles, Mine, IndexerFollows, Announce, OtherProves,
       GraceEnds, vars, syncVars, Synced, SyncThrows
  <2> QED
    BY <1>2, <1>3, <2>1 DEF SyncInv
<1>4. ASSUME pc' \in {"send", "record"} PROVE \E n \in job'..poolIndex' : tree' = Exact(n)
  <2>1. tree' = tree /\ job' = job
    BY <1>4, ProvedTree
  <2>2. job \in Nat
    <3>1. job' \in Commitments
      BY <1>4, StepsKept, ShapeParts, FinalizerAssumption DEF Steps
    <3> QED
      BY <1>0, <2>1, <3>1
  <2>3. CASE pc \in {"send", "record"}
    <3>1. PICK n \in job..poolIndex : tree = Exact(n)
      BY <2>3 DEF SyncInv
    <3>2. n \in job..poolIndex'
      BY <1>0, <1>1, <2>2
    <3> QED
      BY <2>1, <3>1, <3>2
  <2>4. CASE SyncRead /\ \E n \in 0..poolIndex : tree = Exact(n) /\ (n < poolIndex => Mishap)
    <3>1. pc = "read" /\ tree = Exact(poolIndex)
      BY <1>0, <2>4 DEF SyncRead
    <3>2. poolIndex \in job..poolIndex'
      BY <1>0, <1>1, <1>2, <2>2, <3>1
    <3> QED
      BY <2>1, <3>1, <3>2
  <2>5. CASE pc = "page" /\ tree = Exact(contractIndex)
    <3>1. job <= contractIndex
      BY <1>0, <2>2, <2>5 DEF SyncInv
    <3>2. contractIndex \in job..poolIndex'
      BY <1>0, <1>1, <2>2, <3>1
    <3> QED
      BY <2>1, <2>5, <3>2
  <2> QED
    BY <1>4, <2>3, <2>4, <2>5, ProvedTree
<1> QED
  BY <1>3, <1>4 DEF SyncInv

(* What was launched stays launched, and only Send launches.                 *)
LEMMA LaunchedKept ==
  ASSUME Shape, QueueInv, ~Mishap, [Next]_vars, NEW c \in Commitments
  PROVE  Launched(c)' <=> Launched(c) \/ (Send /\ c = job)
<1>0. JobStep(c) /\ Steps
  BY JobSteps, ShapeParts
<1>1. CASE Send
  BY <1>1 DEF Send, Launched, jobVars
<1>2. CASE Record
  BY <1>2, ShapeParts DEF Record, Launched, Lists, Steps, Send
<1>3. CASE pc # "record" /\ pc' # "record"
  BY <1>0, <1>3 DEF Launched, JobStep, Send
<1>4. CASE UNCHANGED <<pc, job>>
  BY <1>0, <1>4 DEF Launched, JobStep, Send, Record
<1> QED
  <2>1. \/ Send \/ Record \/ UNCHANGED <<pc, job>>
        \/ pc # "record" /\ pc' # "record"
    BY DEF Next, Watcher, Worker, Failure, Chain, WatchFetch, WatchCheck, WatchAdd,
       WorkerFetch, SyncRead, SyncPage, SyncLast, Wipe, Ack, SyncFails,
       RecordFails, Crash, SentSettles, Mine, IndexerFollows, Announce, OtherProves,
       GraceEnds, vars, Synced, SyncThrows
  <2> QED
    BY <1>1, <1>2, <1>3, <1>4, <2>1

(* What a launched job is of has had its turn.                               *)
LEMMA LaunchedDue ==
  ASSUME Shape, QueueInv, DueInv, NEW c \in Commitments, Launched(c) PROVE Due(c)
<1>1. job # NoJob /\ pc = "record" => jobs[job] = "waiting"
  BY DEF QueueInv
<1>2. jobs[c] # "none"
  BY <1>1, ShapeParts, FinalizerAssumption DEF Launched, Steps
<1> QED
  BY <1>2 DEF DueInv

Entry(i) ==
  /\ mempool[i].fits = TRUE /\ mempool[i].job \in Commitments
  /\ mempool[i].job <= mempool[i].index /\ mempool[i].index <= poolIndex
  /\ Launched(mempool[i].job)

LEMMA SendInvKept ==
  ASSUME Shape, QueueInv, DueInv, SyncInv, SendInv, ~Mishap, [Next]_vars PROVE SendInv'
<1>0. /\ Steps /\ Lists /\ Commitments \subseteq Nat /\ NoJob \notin Nat
      /\ poolIndex \in Nat /\ total \in Nat /\ poolIndex <= total
      /\ poolIndex <= poolIndex' /\ poolIndex' \in Nat
  BY ShapeParts, FinalizerAssumption, IndexGrows DEF Commitments, Numbers
<1>1. \A i \in DOMAIN mempool : /\ mempool[i] \in Tx /\ mempool[i].index \in Nat
                                /\ Entry(i)
  <2> SUFFICES ASSUME NEW i \in DOMAIN mempool PROVE mempool[i] \in Tx
    BY DEF SendInv, Entry, Tx
  <2> QED
    BY <1>0 DEF Lists
<1>2. CASE Send
  <2> DEFINE t == [id |-> sends, job |-> job, index |-> NextIndex(tree),
                   fits |-> tree = Exact(NextIndex(tree))]
  <2>1. /\ mempool' = Append(mempool, t) /\ pc = "send" /\ job \in Commitments
        /\ UNCHANGED <<poolIndex, job, jobs>> /\ pc' = "record"
    BY <1>0, <1>2 DEF Send, Steps, chainVars, jobVars
  <2>2. PICK n \in job..poolIndex : tree = Exact(n)
    BY <2>1 DEF SyncInv
  <2>3. n \in Nat
    BY <1>0, <2>1, <2>2
  <2>4. NextIndex(tree) = n /\ tree = Exact(NextIndex(tree))
    BY <2>2, <2>3, ExactFits
  <2>5. t.job = job /\ t.index = n /\ t.fits = TRUE
    BY <2>4
  <2> HIDE DEF t
  <2>6. /\ \A i \in DOMAIN mempool' :
             \/ i \in DOMAIN mempool /\ mempool'[i] = mempool[i]
             \/ i = Len(mempool) + 1 /\ mempool'[i] = t
        /\ \A i \in DOMAIN mempool : i \in DOMAIN mempool' /\ mempool'[i] = mempool[i]
        /\ Len(mempool) + 1 \in DOMAIN mempool' /\ mempool'[Len(mempool) + 1] = t
    BY <1>0, <2>1 DEF Lists
  <2>7. Launched(job)' /\ ~Launched(job)
    BY <1>0, <2>1 DEF Launched, QueueInv
  <2>8. \A c \in Commitments : Launched(c)' <=> Launched(c) \/ c = job
    BY <1>2, LaunchedKept
  <2>9. ASSUME NEW i \in DOMAIN mempool' PROVE Entry(i)'
    <3>1. CASE i \in DOMAIN mempool /\ mempool'[i] = mempool[i]
      <4> DEFINE x == mempool[i]
      <4>1. /\ x.fits = TRUE /\ x.job \in Commitments /\ x.job <= x.index
            /\ x.index <= poolIndex /\ Launched(x.job)
        BY <1>1, <3>1 DEF Entry
      <4>2. Launched(x.job)'
        BY <2>8, <3>1, <4>1 DEF Launched
      <4> QED
        BY <2>1, <3>1, <4>1, <4>2 DEF Entry, Launched
    <3>2. CASE mempool'[i] = t
      BY <1>0, <2>1, <2>2, <2>5, <2>7, <3>2 DEF Entry, Launched
    <3> QED
      BY <2>6, <3>1, <3>2
  <2>10. \A i \in DOMAIN mempool : mempool[i].job # job
    BY <1>1, <2>7 DEF Entry
  <2>11. \A i, k \in DOMAIN mempool' : mempool'[i].job = mempool'[k].job => i = k
    BY <2>5, <2>6, <2>10 DEF SendInv
  <2>12. ASSUME NEW c \in Commitments, Launched(c)'
         PROVE  c < poolIndex' \/ \E i \in DOMAIN mempool' : mempool'[i].job = c
    <3>1. CASE Launched(c)
      BY <2>1, <2>6, <3>1 DEF SendInv
    <3>2. CASE c = job
      BY <2>5, <2>6, <3>2
    <3> QED
      BY <2>8, <2>12, <3>1, <3>2
  <2> QED
    BY <2>9, <2>11, <2>12 DEF SendInv, Entry
<1>3. CASE Mine
  <2> DEFINE t == Head(mempool)
  <2>1. /\ mempool # <<>> /\ mempool' = Tail(mempool) /\ UNCHANGED <<jobs, pc, job, total>>
        /\ Provable(t) => poolIndex' = poolIndex + 1
    BY <1>3 DEF Mine, jobVars
  <2>2. 1 \in DOMAIN mempool /\ t = mempool[1]
    BY <1>0, <2>1 DEF Lists
  <2>3. \A i \in DOMAIN mempool' :
           i \in Nat /\ i + 1 \in DOMAIN mempool /\ mempool'[i] = mempool[i + 1]
    BY <1>0, <2>1 DEF Lists
  <2>4. \A i \in DOMAIN mempool :
           i = 1 \/ (i - 1 \in DOMAIN mempool' /\ mempool'[i - 1] = mempool[i])
    BY <1>0, <2>1 DEF Lists
  <2>5. \A c : Launched(c)' <=> Launched(c)
    BY <2>1 DEF Launched
  <2>6. ASSUME NEW i \in DOMAIN mempool' PROVE Entry(i)'
    <3>1. i + 1 \in DOMAIN mempool /\ mempool'[i] = mempool[i + 1]
      BY <2>3
    <3>2. PICK x : x = mempool[i + 1]
      OBVIOUS
    <3>3. /\ x.fits = TRUE /\ x.job \in Commitments /\ x.job <= x.index
          /\ x.index <= poolIndex /\ Launched(x.job) /\ x.index \in Nat
      BY <1>1, <3>1, <3>2 DEF Entry
    <3>4. x.index <= poolIndex'
      BY <1>0, <3>3
    <3> QED
      BY <2>1, <3>1, <3>2, <3>3, <3>4 DEF Entry, Launched
  <2>7. ASSUME NEW i \in DOMAIN mempool', NEW k \in DOMAIN mempool',
               mempool'[i].job = mempool'[k].job
        PROVE  i = k
    <3>1. i + 1 = k + 1
      BY <2>3, <2>7 DEF SendInv
    <3> QED
      BY <2>3, <3>1
  <2>8. ASSUME NEW c \in Commitments, Launched(c)'
        PROVE  c < poolIndex' \/ \E i \in DOMAIN mempool' : mempool'[i].job = c
    <3>0. Launched(c) /\ Due(c)
      BY <2>5, <2>8, LaunchedDue
    <3>1. CASE c < poolIndex
      BY <1>0, <3>1
    <3>2. CASE c >= poolIndex
      <4>1. PICK i \in DOMAIN mempool : mempool[i].job = c
        BY <1>0, <3>0, <3>2 DEF SendInv
      <4>2. CASE i = 1
        <5>1. t.fits = TRUE /\ t.job = c /\ c <= t.index /\ t.index <= poolIndex /\ t.index \in Nat
          BY <1>1, <2>2, <4>1, <4>2 DEF Entry
        <5> HIDE DEF t
        <5>2. t.job = poolIndex /\ t.index = poolIndex
          BY <1>0, <3>2, <5>1
        <5>3. Provable(t)
          BY <3>0, <5>1, <5>2 DEF Provable, Due
        <5> QED
          BY <1>0, <2>1, <5>1, <5>2, <5>3
      <4>3. CASE i # 1
        BY <2>4, <4>1, <4>3
      <4> QED
        BY <4>2, <4>3
    <3> QED
      BY <1>0, <3>1, <3>2
  <2> QED
    BY <2>6, <2>7, <2>8 DEF SendInv, Entry
<1>4. CASE UNCHANGED mempool /\ ~Send
  <2>1. \A c \in Commitments : Launched(c)' <=> Launched(c)
    BY <1>4, LaunchedKept
  <2>2. ASSUME NEW i \in DOMAIN mempool' PROVE Entry(i)'
    <3>1. PICK x : x = mempool[i] /\ x = mempool'[i]
      BY <1>4
    <3>2. /\ x.fits = TRUE /\ x.job \in Commitments /\ x.job <= x.index
          /\ x.index <= poolIndex /\ Launched(x.job) /\ x.index \in Nat
      BY <1>1, <1>4, <3>1 DEF Entry
    <3>3. x.index <= poolIndex'
      BY <1>0, <3>2
    <3>4. Launched(x.job)'
      BY <2>1, <3>2 DEF Launched
    <3> QED
      BY <3>1, <3>2, <3>3, <3>4 DEF Entry, Launched
  <2>3. \A c \in Commitments :
          Launched(c)' => c < poolIndex' \/ \E i \in DOMAIN mempool' : mempool'[i].job = c
    BY <1>0, <1>4, <2>1 DEF SendInv
  <2> QED
    BY <1>4, <2>2, <2>3 DEF SendInv, Entry
<1>5. Send \/ Mine \/ (UNCHANGED mempool /\ ~Send)
  BY DEF Next, Watcher, Worker, Failure, Chain, WatchFetch, WatchCheck, WatchAdd,
     WorkerFetch, SyncRead, SyncPage, SyncLast, Wipe, Record, Ack, SyncFails,
     RecordFails, Crash, SentSettles, IndexerFollows, Announce, OtherProves,
     GraceEnds, vars, txVars
<1> QED
  BY <1>2, <1>3, <1>4, <1>5

-----------------------------------------------------------------------------
(* As long as there was no mishap the process is calm, in every behaviour.   *)
LEMMA CalmAlways == Spec => [](Shape /\ (mishaps = 0 => Calm))
<1>1. Init => Calm
  BY FinalizerAssumption DEF Init, Calm, QueueInv, DueInv, SyncInv, SendInv, Launched, Exact
<1>2. Shape /\ (mishaps = 0 => Calm) /\ [Next]_vars => (mishaps = 0 => Calm)'
  <2> SUFFICES ASSUME Shape, mishaps = 0 => Calm, [Next]_vars, mishaps' = 0 PROVE Calm'
    OBVIOUS
  <2>1. Calm /\ ~Mishap
    BY StaysCalm
  <2> QED
    BY <2>1, QueueInvKept, DueInvKept, SyncInvKept, SendInvKept DEF Calm
<1> QED
  BY <1>1, <1>2, ShapeAlways, PTL DEF Spec

(* One commitment's proof is paid for once: however the watcher, the worker, *)
(* the sent worker and the chain interleave, no second transaction is sent   *)
(* for a commitment while one is on its way, unless there was a mishap.      *)
THEOREM PaidOnce == Spec => []OneInFlight
<1>1. Shape /\ (mishaps = 0 => Calm) => OneInFlight
  <2> SUFFICES ASSUME Calm, NEW c \in Commitments PROVE Cardinality(InFlight(c)) <= 1
    BY DEF OneInFlight
  <2>1. \A i, k \in InFlight(c) : i = k
    BY DEF InFlight, Calm, SendInv
  <2>2. CASE InFlight(c) = {}
    BY <2>2, FS_EmptySet
  <2>3. CASE InFlight(c) # {}
    <3>1. PICK i \in InFlight(c) : InFlight(c) = {i}
      BY <2>1, <2>3
    <3> QED
      BY <3>1, FS_Singleton
  <2> QED
    BY <2>2, <2>3
<1> QED
  BY <1>1, CalmAlways, PTL

(* Without a mishap no pending commitment is left with a job that nobody     *)
(* works at and the watcher does not repeat.                                 *)
THEOREM NothingBlocked == Spec => []NeverBlocked
<1>1. Shape /\ (mishaps = 0 => Calm) => NeverBlocked
  <2> SUFFICES ASSUME Shape, Calm, NEW c \in Commitments, Blocked(c) PROVE FALSE
    BY DEF NeverBlocked
  <2>0. c \in Nat /\ poolIndex \in Nat /\ c >= poolIndex
    BY ShapeParts, FinalizerAssumption DEF Blocked, Commitments, Numbers
  <2>1. c # job /\ \A i \in DOMAIN queue : queue[i] # c
    BY DEF Blocked, ToSet
  <2>2. jobs[c] # "waiting"
    BY <2>1 DEF Calm, QueueInv
  <2>3. Launched(c)
    BY <2>2 DEF Blocked, Launched
  <2>4. \E i \in DOMAIN mempool : mempool[i].job = c
    BY <2>0, <2>3 DEF Calm, SendInv
  <2> QED
    BY <2>4 DEF Blocked, InFlight
<1> QED
  BY <1>1, CalmAlways, PTL
=============================================================================
