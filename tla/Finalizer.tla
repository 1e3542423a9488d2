----------------------------- MODULE Finalizer ------------------------------
(***************************************************************************)
(* The finalizer (services/commitment-watcher): a process that proves the  *)
(* oldest pending commitment of the pool contract into the contract's      *)
(* Merkle tree.  A watcher polls the contract and adds a job per           *)
(* commitment; the pool worker synchronises the local trees with the       *)
(* contract through the indexer's pages, proves and sends; the sent worker *)
(* waits for the receipt.  Both workers share a mutex (TxPipeline has the  *)
(* details of nonces, re-sends and prices, which are left out here).       *)
(*                                                                         *)
(* Commitment i is the i-th one announced, and belongs at leaf i, from 0.  *)
(* A tree is the function from its leaves to commitments; the contract's   *)
(* tree of n leaves is Exact(n), and only equal trees have equal roots.    *)
(***************************************************************************)
EXTENDS Naturals, SequencesExt, FiniteSetsExt

CONSTANTS
  MaxTotal,   \* bound on commitments
  PageLimit,  \* transactions per page asked of the indexer (200 in the code)
  Foreign,    \* commitments whose privileged prover is somebody else
  MaxMishaps, \* bound on mishaps: crashes, failed or stale answers, fast clocks
  NoJob

ASSUME FinalizerAssumption ==
  /\ MaxTotal \in Nat /\ PageLimit \in Nat \ {0} /\ MaxMishaps \in Nat
  /\ Foreign \subseteq Nat
  /\ NoJob \notin Nat

VARIABLES
  total,       \* commitments announced on chain
  poolIndex,   \* the contract's pool_index: commitments in its tree
  graceOver,   \* the oldest pending commitment's grace period is over, on chain
  known, indexed, \* the indexer's optimistic and confirmed next index
  tree, opt,   \* the process's confirmed and optimistic tree (disk)
  jobs,        \* state of the pool job of each commitment
  queue,       \* waiting jobs of the pool queue
  sentQ,       \* jobs of the sent queue, the first one with the worker
  up,          \* the workers and the watcher are started
  watched,     \* the commitment the watcher has fetched, if it is in the middle
  watchPc,     \* the watcher's step
  pc, job,     \* the pool worker's step and job (NoJob while the process starts)
  contractIndex, \* pool_index as syncState read it
  offset, commitIndex, \* syncStateFromIndexer: next page, next leaf
  mempool,     \* proofs sent and not yet executed, in the order of their nonces
  receipts,    \* executed proofs
  sends,       \* proofs sent so far
  mishaps

chainVars == <<total, poolIndex, graceOver>>
indexerVars == <<known, indexed>>
treeVars  == <<tree, opt>>
jobVars   == <<jobs, queue>>
watchVars == <<watched, watchPc>>
syncVars  == <<contractIndex, offset, commitIndex>>
txVars    == <<mempool, receipts, sends>>
vars == <<chainVars, indexerVars, treeVars, jobVars, sentQ, up, watchVars, pc, job,
          syncVars, txVars, mishaps>>

Commitments == 0..(MaxTotal - 1)
JobState == {"none", "waiting", "sent", "completed", "failed"}
Tx       == [id : Nat, job : Nat, index : Nat, fits : BOOLEAN]
Receipt  == [id : Nat, job : Nat, ok : BOOLEAN]

Exact(n) == [i \in 0..(n - 1) |-> i]
NextIndex(f) == IF DOMAIN f = {} THEN 0 ELSE Max(DOMAIN f) + 1
Put(f, i, c) == [k \in DOMAIN f \cup {i} |-> IF k = i THEN c ELSE f[k]]

Init ==
  /\ total = 0 /\ poolIndex = 0 /\ graceOver = FALSE
  /\ known = 0 /\ indexed = 0
  /\ tree = Exact(0) /\ opt = Exact(0)
  /\ jobs = [c \in Commitments |-> "none"]
  /\ queue = <<>> /\ sentQ = <<>>
  /\ up = FALSE
  /\ watched = NoJob /\ watchPc = "idle"
  /\ pc = "read" /\ job = NoJob
  /\ contractIndex = 0 /\ offset = 0 /\ commitIndex = 0
  /\ mempool = <<>> /\ receipts = {} /\ sends = 0
  /\ mishaps = 0

Mishap == mishaps < MaxMishaps /\ mishaps' = mishaps + 1

-----------------------------------------------------------------------------
(* External: the relayer's transaction announces a commitment ...            *)
Announce ==
  /\ total < MaxTotal /\ total' = total + 1
  /\ UNCHANGED <<poolIndex, graceOver, indexerVars, treeVars, jobVars, sentQ, up,
                 watchVars, pc, job, syncVars, txVars, mishaps>>

(* ... its grace period ends, and anybody may prove it (periods end in the    *)
(* order of the commitments, so only the oldest one's is looked at) ...      *)
GraceEnds ==
  /\ poolIndex < total /\ poolIndex \in Foreign
  /\ ~graceOver /\ graceOver' = TRUE
  /\ UNCHANGED <<total, poolIndex, indexerVars, treeVars, jobVars, sentQ, up,
                 watchVars, pc, job, syncVars, txVars, mishaps>>

(* ... another prover is first ...                                           *)
OtherProves ==
  /\ poolIndex < total /\ poolIndex \in Foreign
  /\ poolIndex' = poolIndex + 1 /\ graceOver' = FALSE
  /\ UNCHANGED <<total, indexerVars, treeVars, jobVars, sentQ, up,
                 watchVars, pc, job, syncVars, txVars, mishaps>>

(* ... and the indexer follows the chain.                                    *)
IndexerFollows ==
  /\ \/ known < total /\ known' = known + 1 /\ UNCHANGED indexed
     \/ indexed < poolIndex /\ indexed < known /\ indexed' = indexed + 1 /\ UNCHANGED known
  /\ UNCHANGED <<chainVars, treeVars, jobVars, sentQ, up, watchVars, pc, job,
                 syncVars, txVars, mishaps>>

(* proveTreeUpdate succeeds for the oldest pending commitment, with a proof  *)
(* on the contract's tree, by its privileged prover or after the grace period.*)
Allowed == poolIndex \in Foreign => graceOver

Provable(tx) ==
  /\ tx.job = poolIndex /\ tx.index = poolIndex /\ tx.fits
  /\ poolIndex < total /\ Allowed

Mine ==
  /\ mempool # <<>>
  /\ LET tx == Head(mempool) IN
       /\ receipts' = receipts \cup {[id |-> tx.id, job |-> tx.job, ok |-> Provable(tx)]}
       /\ IF Provable(tx) THEN poolIndex' = poolIndex + 1 /\ graceOver' = FALSE
          ELSE UNCHANGED <<poolIndex, graceOver>>
  /\ mempool' = Tail(mempool)
  /\ UNCHANGED <<total, indexerVars, treeVars, jobVars, sentQ, up,
                 watchVars, pc, job, syncVars, sends, mishaps>>

-----------------------------------------------------------------------------
(* runWatcher: the oldest pending commitment, if there is one and this       *)
(* prover is allowed to prove it by now (an error counts as an empty queue). *)
WatchFetch ==
  /\ up /\ watchPc = "idle" /\ poolIndex < total
  /\ \/ Allowed /\ UNCHANGED mishaps
     \/ ~Allowed /\ Mishap   \* the local clock is ahead of the chain's
  /\ watched' = poolIndex /\ watchPc' = "check"
  /\ UNCHANGED <<chainVars, indexerVars, treeVars, jobVars, sentQ, up, pc, job,
                 syncVars, txVars>>

(* Variant: a job that was sent is repeated like one that failed.            *)
WatchCheckRepeatsSent ==
  /\ watchPc = "check"
  /\ IF jobs[watched] \in {"failed", "sent"} /\ job # watched
       THEN /\ jobs' = [jobs EXCEPT ![watched] = "none"]
            /\ queue' = RemoveFirst(queue, watched)
            /\ watchPc' = "add" /\ UNCHANGED watched
       ELSE /\ UNCHANGED jobVars
            /\ IF jobs[watched] = "none" THEN watchPc' = "add" /\ UNCHANGED watched
               ELSE watchPc' = "idle" /\ watched' = NoJob
  /\ UNCHANGED <<chainVars, indexerVars, treeVars, sentQ, up, pc, job, syncVars,
                 txVars, mishaps>>

(* Variant: a job that FAILED is left alone like the others.                 *)
WatchCheckLeaves ==
  /\ watchPc = "check" /\ UNCHANGED jobVars
  /\ IF jobs[watched] = "none" THEN watchPc' = "add" /\ UNCHANGED watched
     ELSE watchPc' = "idle" /\ watched' = NoJob
  /\ UNCHANGED <<chainVars, indexerVars, treeVars, sentQ, up, pc, job, syncVars,
                 txVars, mishaps>>

(* processCommitment: a job that exists is left alone, except one that       *)
(* FAILED, which is removed (unless the worker still holds its lock).        *)
WatchCheck ==
  /\ watchPc = "check"
  /\ CASE jobs[watched] = "none" -> watchPc' = "add" /\ UNCHANGED <<watched, jobVars>>
       [] jobs[watched] = "failed" ->
            /\ watchPc' = "add" /\ UNCHANGED watched
            /\ IF job = watched THEN UNCHANGED jobVars
               ELSE /\ jobs' = [jobs EXCEPT ![watched] = "none"]
                    /\ queue' = RemoveFirst(queue, watched)
       [] OTHER -> watchPc' = "idle" /\ watched' = NoJob /\ UNCHANGED jobVars
  /\ UNCHANGED <<chainVars, indexerVars, treeVars, sentQ, up, pc, job, syncVars,
                 txVars, mishaps>>

(* poolTxQueue.add does nothing when a job with the commitment's id exists.   *)
WatchAdd ==
  /\ watchPc = "add"
  /\ watchPc' = "idle" /\ watched' = NoJob
  /\ IF jobs[watched] = "none"
       THEN /\ jobs' = [jobs EXCEPT ![watched] = "waiting"]
            /\ queue' = Append(queue, watched)
       ELSE UNCHANGED jobVars
  /\ UNCHANGED <<chainVars, indexerVars, treeVars, sentQ, up, pc, job, syncVars,
                 txVars, mishaps>>

-----------------------------------------------------------------------------
(* The pool worker takes a job and the mutex.                                *)
WorkerFetch ==
  /\ up /\ pc = "idle" /\ queue # <<>>
  /\ job' = Head(queue) /\ queue' = Tail(queue)
  /\ pc' = "read"
  /\ UNCHANGED <<chainVars, indexerVars, treeVars, jobs, sentQ, up, watchVars,
                 syncVars, txVars, mishaps>>

EndSync == contractIndex' = 0 /\ offset' = 0 /\ commitIndex' = 0

(* What follows a synchronisation: the proof, or (at the start) the workers. *)
Synced == IF job = NoJob THEN pc' = "idle" /\ up' = TRUE
          ELSE pc' = "send" /\ UNCHANGED up

(* Variant: the job keeps its state.                                         *)
SyncThrowsKeeps ==
  IF job = NoJob THEN pc' = "read" /\ UNCHANGED jobs
  ELSE pc' = "ack" /\ UNCHANGED jobs

(* An error in a synchronisation: the job is marked FAILED, or (at the start)*)
(* the process exits and is started again.                                   *)
SyncThrows ==
  IF job = NoJob THEN pc' = "read" /\ UNCHANGED jobs
  ELSE pc' = "ack" /\ jobs' = [jobs EXCEPT ![job] = "failed"]

(* syncState reads the local index and root, then the contract's; a node     *)
(* may answer with an earlier state than it did before.                      *)
SyncRead ==
  /\ pc = "read"
  /\ \E n \in 0..poolIndex :
       /\ \/ n = poolIndex /\ UNCHANGED mishaps
          \/ n < poolIndex /\ Mishap
       /\ \/ tree = Exact(n) /\ Synced /\ EndSync
          \/ /\ tree # Exact(n) /\ NextIndex(tree) < n /\ pc' = "page"
             /\ contractIndex' = n
             /\ offset' = NextIndex(tree) /\ commitIndex' = NextIndex(tree)
             /\ UNCHANGED up
          \/ /\ tree # Exact(n) /\ NextIndex(tree) >= n /\ pc' = "wipe"
             /\ EndSync /\ UNCHANGED up
  /\ UNCHANGED <<chainVars, indexerVars, treeVars, jobVars, sentQ, watchVars, job,
                 txVars>>

(* One page: transactions from `offset` on, put at the leaves from           *)
(* `commitIndex` on; the next offset is that of the optimistic tree.         *)
Page == {i \in offset..(known - 1) : i < offset + PageLimit}
LeafOf(i) == commitIndex + (i - offset)

AddPage ==
  /\ opt' = [k \in DOMAIN opt \cup {LeafOf(i) : i \in Page} |->
               IF k - commitIndex + offset \in Page /\ k >= commitIndex
               THEN k - commitIndex + offset ELSE opt[k]]
  /\ LET Mined == {i \in Page : i < indexed} IN
       tree' = [k \in DOMAIN tree \cup {LeafOf(i) : i \in Mined} |->
                  IF k - commitIndex + offset \in Mined /\ k >= commitIndex
                  THEN k - commitIndex + offset ELSE tree[k]]

SyncPage ==
  /\ pc = "page" /\ Page # {}
  /\ AddPage
  /\ commitIndex' = commitIndex + Cardinality(Page)
  /\ offset' = NextIndex(opt')
  /\ UNCHANGED <<chainVars, indexerVars, jobVars, sentQ, up, watchVars, pc, job,
                 contractIndex, txVars, mishaps>>

(* Variant: a tree of the contract's length is taken for the contract's tree. *)
SyncLastLength ==
  /\ pc = "page" /\ Page = {}
  /\ IF NextIndex(tree) < contractIndex
       THEN /\ offset' = NextIndex(tree) /\ commitIndex' = NextIndex(tree)
            /\ UNCHANGED <<pc, up, contractIndex>>
       ELSE Synced /\ EndSync
  /\ UNCHANGED <<chainVars, indexerVars, treeVars, jobVars, sentQ, watchVars, job,
                 txVars, mishaps>>

(* An empty page ends the round; another one follows while the confirmed     *)
(* tree is short (the indexer is behind), then the roots are compared.       *)
SyncLast ==
  /\ pc = "page" /\ Page = {}
  /\ IF NextIndex(tree) < contractIndex
       THEN /\ offset' = NextIndex(tree) /\ commitIndex' = NextIndex(tree)
            /\ UNCHANGED <<pc, up, contractIndex>>
       ELSE /\ IF tree = Exact(contractIndex) THEN Synced ELSE pc' = "wipe" /\ UNCHANGED up
            /\ EndSync
  /\ UNCHANGED <<chainVars, indexerVars, treeVars, jobVars, sentQ, watchVars, job,
                 txVars, mishaps>>

(* The roots differ: both trees are wiped and the synchronisation fails.     *)
Wipe ==
  /\ pc = "wipe" /\ tree' = Exact(0) /\ opt' = Exact(0)
  /\ SyncThrows
  /\ UNCHANGED <<chainVars, indexerVars, queue, sentQ, up, watchVars, job, syncVars,
                 txVars, mishaps>>

(* A request to the node, the indexer or the prover fails.                   *)
SyncFails ==
  /\ pc \in {"read", "page", "send"} /\ Mishap
  /\ SyncThrows /\ EndSync
  /\ UNCHANGED <<chainVars, indexerVars, treeVars, queue, sentQ, up, watchVars, job,
                 txVars>>

(* buildFinalizeTx proves the job's commitment at the tree's next leaf, and  *)
(* the transaction is sent.                                                  *)
Send ==
  /\ pc = "send"
  /\ mempool' = Append(mempool, [id |-> sends, job |-> job, index |-> NextIndex(tree),
                                 fits |-> tree = Exact(NextIndex(tree))])
  /\ sends' = sends + 1
  /\ pc' = "record"
  /\ UNCHANGED <<chainVars, indexerVars, treeVars, jobVars, sentQ, up, watchVars, job,
                 syncVars, receipts, mishaps>>

(* The job becomes SENT and the sent queue gets its proof.                   *)
Record ==
  /\ pc = "record"
  /\ jobs' = [jobs EXCEPT ![job] = "sent"]
  /\ sentQ' = Append(sentQ, [id |-> sends - 1, job |-> job, index |-> NextIndex(tree)])
  /\ pc' = "ack"
  /\ UNCHANGED <<chainVars, indexerVars, treeVars, queue, up, watchVars, job, syncVars,
                 txVars, mishaps>>

(* prepareTx or the sent queue fails after the proof: the job keeps its state *)
(* and is not tried again.                                                   *)
RecordFails ==
  /\ pc \in {"send", "record"} /\ Mishap
  /\ pc' = "ack"
  /\ UNCHANGED <<chainVars, indexerVars, treeVars, jobVars, sentQ, up, watchVars, job,
                 syncVars, txVars>>

(* BullMQ takes the job from the worker.                                     *)
Ack ==
  /\ pc = "ack" /\ pc' = "idle" /\ job' = NoJob
  /\ UNCHANGED <<chainVars, indexerVars, treeVars, jobVars, sentQ, up, watchVars,
                 syncVars, txVars, mishaps>>

-----------------------------------------------------------------------------
(* The sent worker, when the mutex is free: a proof that succeeded enters    *)
(* both trees at the leaf it was made for, and its job is COMPLETED (only the  *)
(* optimistic tree has it when there is no such job any more).               *)
MutexFree == pc \in {"idle", "ack"}

Confirmed(r) ==
  /\ r.ok
  /\ opt'  = Put(opt, Head(sentQ).index, Head(sentQ).job)
  /\ IF jobs[Head(sentQ).job] = "none" THEN UNCHANGED <<tree, jobs>>
     ELSE /\ tree' = Put(tree, Head(sentQ).index, Head(sentQ).job)
          /\ jobs' = [jobs EXCEPT ![Head(sentQ).job] = "completed"]

(* One that reverted rolls the optimistic tree back to the confirmed one;    *)
(* the job stays SENT.                                                       *)
Reverted(r) ==
  /\ ~r.ok
  /\ opt' = [i \in {k \in DOMAIN opt : k < NextIndex(tree)} |-> opt[i]]
  /\ UNCHANGED <<tree, jobs>>

SentSettles ==
  /\ up /\ sentQ # <<>> /\ MutexFree
  /\ \E r \in receipts :
       /\ r.id = Head(sentQ).id /\ (Confirmed(r) \/ Reverted(r))
       /\ receipts' = receipts \ {r}   \* nobody asks for it again
  /\ sentQ' = Tail(sentQ)
  /\ UNCHANGED <<chainVars, indexerVars, queue, up, watchVars, pc, job, syncVars,
                 mempool, sends, mishaps>>

(* The process dies and starts again with a synchronisation; BullMQ delivers *)
(* the pool job it held once more.                                           *)
Crash ==
  /\ Mishap /\ (up \/ pc # "read")
  /\ queue' = IF job = NoJob THEN queue ELSE <<job>> \o queue
  /\ up' = FALSE /\ watched' = NoJob /\ watchPc' = "idle"
  /\ pc' = "read" /\ job' = NoJob /\ EndSync
  /\ UNCHANGED <<chainVars, indexerVars, treeVars, jobs, sentQ, txVars>>

-----------------------------------------------------------------------------
Watcher == WatchFetch \/ WatchCheck \/ WatchAdd
Worker  == WorkerFetch \/ SyncRead \/ SyncPage \/ SyncLast \/ Wipe \/ Send \/ Record
             \/ Ack
Failure == SyncFails \/ RecordFails \/ Crash
Chain   == Announce \/ OtherProves \/ GraceEnds

Next == Watcher \/ Worker \/ SentSettles \/ Failure \/ Chain \/ Mine \/ IndexerFollows

Spec == Init /\ [][Next]_vars

(* The watcher's timer and the workers run, and the mutex, which is first    *)
(* come first served, lets the sent worker in between two jobs; the chain    *)
(* mines, the indexer follows it, and grace periods end.  Nothing is assumed *)
(* of other provers.                                                         *)
FairSpec ==
  /\ Spec
  /\ WF_vars(Watcher) /\ WF_vars(Worker) /\ SF_vars(SentSettles)
  /\ WF_vars(Mine) /\ WF_vars(IndexerFollows) /\ WF_vars(GraceEnds)

-----------------------------------------------------------------------------
SentTx == [id : Nat, job : Nat, index : Nat]

(* Shapes of the state: what each variable ranges over.                      *)
TypeOK ==
  /\ total \in 0..MaxTotal /\ poolIndex \in 0..total
  /\ graceOver \in BOOLEAN
  /\ known \in 0..total /\ indexed \in 0..known
  /\ DOMAIN tree \subseteq Nat /\ DOMAIN opt \subseteq Nat
  /\ \A i \in DOMAIN tree : tree[i] \in 0..(total - 1)
  /\ \A i \in DOMAIN opt : opt[i] \in 0..(total - 1)
  /\ jobs \in [Commitments -> JobState]
  /\ queue \in Seq(Commitments) /\ sentQ \in Seq(SentTx)
  /\ up \in BOOLEAN
  /\ watchPc \in {"idle", "check", "add"}
  /\ watched \in (IF watchPc = "idle" THEN {NoJob} ELSE Commitments)
  /\ pc \in {"idle", "read", "page", "wipe", "send", "record", "ack"}
  /\ job \in Commitments \cup {NoJob}
  /\ pc \in {"send", "record", "ack"} => job # NoJob
  /\ contractIndex \in 0..poolIndex /\ offset \in Nat /\ commitIndex \in Nat
  /\ mempool \in Seq(Tx) /\ receipts \subseteq Receipt /\ sends \in Nat
  /\ mishaps \in 0..MaxMishaps

(* A proof is only ever made on a tree the contract has had, however pages,  *)
(* wipes, receipts and other provers' proofs interleaved before it.          *)
ProofOnContractTree ==
  pc \in {"send", "record"} => \E n \in 0..poolIndex : tree = Exact(n)

InFlight(c) == {i \in DOMAIN mempool : mempool[i].job = c}

(* One commitment's proof is paid for once: no second transaction is sent    *)
(* for it while one is on its way, unless a job failed after its send or the *)
(* process crashed.                                                          *)
OneInFlight == mishaps = 0 => \A c \in Commitments : Cardinality(InFlight(c)) <= 1

(* The commitment is pending and nobody here will prove it: its job is       *)
(* neither FAILED, which the watcher repeats, nor with a worker or a queue,  *)
(* nor is a transaction of it on its way.                                    *)
Blocked(c) ==
  /\ c \in poolIndex..(total - 1)
  /\ jobs[c] \in {"waiting", "sent", "completed"}
  /\ c \notin ToSet(queue) \cup {job}
  /\ InFlight(c) = {}

(* Only a mishap (a stale answer of the node, a clock that is ahead, an      *)
(* error after the proof was made) can leave a pending commitment like this. *)
NeverBlocked == mishaps = 0 => \A c \in Commitments : ~Blocked(c)

(* Every commitment is proved into the contract's tree, whatever is wiped    *)
(* and repeated on the way, unless one before it is blocked.                 *)
Finalised ==
  \A c \in Commitments :
    c < total ~> c < poolIndex \/ \E d \in 0..c : Blocked(d)
=============================================================================
