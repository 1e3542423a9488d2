------------------------------ MODULE Indexer ------------------------------
(***************************************************************************)
(* The indexer (services/indexer): a process that mirrors the pool's two   *)
(* Merkle trees from the events of the pool contract.  A Message event     *)
(* announces a transaction, which enters the optimistic tree; a            *)
(* RootUpdated event announces how many transactions the contract's tree   *)
(* has taken in, and moves them to the confirmed tree.                     *)
(*                                                                         *)
(* At a start the process first synchronises (BasePool.syncState) up to    *)
(* the block that was the last one when it started, then watches the       *)
(* blocks after it (watcher/Watcher.ts).  The trees are on disk, the last  *)
(* block watched and the block of the last confirmed transaction in Redis; *)
(* the rest is memory, and is lost when the process stops.                 *)
(*                                                                         *)
(* Indexes count transactions (the code's indexes are multiples of         *)
(* OUTPLUSONE); transaction i is the i-th leaf, from 0.  A block holds at  *)
(* most one event of the pool.  Blocks are final: the code does not handle *)
(* reorganisations.                                                        *)
(***************************************************************************)
EXTENDS Integers, Sequences, FiniteSetsExt

CONSTANTS
  MaxBlocks,     \* bound on the length of the chain
  BatchSize,     \* COMMON_EVENTS_PROCESSING_BATCH_SIZE
  Confirmations, \* INDEXER_BLOCK_CONFIRMATIONS
  MaxMishaps     \* bound on crashes and failed requests to the node

ASSUME IndexerAssumption ==
  /\ MaxBlocks \in Nat /\ BatchSize \in Nat /\ Confirmations \in Nat
  /\ MaxMishaps \in Nat

VARIABLES
  startBlock,    \* COMMON_START_BLOCK, the same at every start: 0 (the default)
                 \* or 1, the first block of the model's chain
  blocks,        \* the chain: the pool's event in each block
  messages,      \* transactions sent to the contract so far
  poolIndex,     \* the contract's pool_index: transactions in its tree
  optimistic,    \* leaves of the optimistic tree (disk)
  confirmed,     \* leaves of the confirmed tree (disk)
  lastConfirmedBlock, \* Redis; 0 when it is not set
  savedBlock,    \* the watcher's lastProcessedBlock in Redis; 0 when not set
  pc,            \* the step the process is in
  initBlock,     \* lastInitialSyncBlock
  contractIndex, \* pool_index as syncState read it
  processed,     \* the watcher's lastProcessedBlock
  pos, batchEnd, \* the block of the next event, the last block of the batch
  mishaps,
  skipped,       \* history: leaves that starts have left out since the last wipe
  torn           \* history: leaves a kill left in one tree only

chainVars == <<startBlock, blocks, messages, poolIndex>>
diskVars  == <<optimistic, confirmed, lastConfirmedBlock, savedBlock>>
memVars   == <<initBlock, contractIndex, processed, pos, batchEnd>>
auxVars   == <<mishaps, skipped, torn>>
vars == <<chainVars, diskVars, pc, memVars, auxVars>>

Messages == {"transfer", "deposit"}
Event    == [kind : Messages \cup {"root", "empty"}, index : Nat]
Starting == {"start", "index"}
Wiping   == {"wipe", "wipeOptimistic", "reset"}
Watching == {"init", "idle", "batch"}
Steps    == {"down", "sync"} \cup Starting \cup Wiping \cup Watching

Lesser(a, b)  == IF a < b THEN a ELSE b
Greater(a, b) == IF a < b THEN b ELSE a

(* The first n leaves, and the tree's next index: one past its last leaf.    *)
Prefix(n)    == 0..(n - 1)
NextIndex(S) == IF S = {} THEN 0 ELSE Max(S) + 1

(* Whether a tree has the contract's root at index n: roots are hashes of    *)
(* all leaves, so only the n leaves of the contract's tree have it.          *)
RootIs(S, n) == S = Prefix(n)

Init ==
  /\ startBlock \in {0, 1} /\ blocks = <<>>
  /\ messages = 0 /\ poolIndex = 0
  /\ optimistic = {} /\ confirmed = {}
  /\ lastConfirmedBlock = 0 /\ savedBlock = 0
  /\ pc = "start"
  /\ initBlock = 0 /\ contractIndex = 0
  /\ processed = 0 /\ pos = 0 /\ batchEnd = 0
  /\ mishaps = 0 /\ skipped = {} /\ torn = {}

Mishap == /\ mishaps < MaxMishaps /\ mishaps' = mishaps + 1
          /\ UNCHANGED skipped

-----------------------------------------------------------------------------
(* The chain.  A block without an event of the pool.                        *)
MineEmpty ==
  /\ Len(blocks) < MaxBlocks
  /\ blocks' = Append(blocks, [kind |-> "empty", index |-> 0])
  /\ UNCHANGED <<startBlock, messages, poolIndex, diskVars, pc, memVars, auxVars>>

(* A transaction is accepted by the contract and waits for its tree update.  *)
MineMessage(kind) ==
  /\ Len(blocks) < MaxBlocks
  /\ messages' = messages + 1
  /\ blocks' = Append(blocks, [kind |-> kind, index |-> messages'])
  /\ UNCHANGED <<startBlock, poolIndex, diskVars, pc, memVars, auxVars>>

(* proveTreeUpdate takes the oldest pending transaction into the tree.       *)
MineRoot ==
  /\ Len(blocks) < MaxBlocks
  /\ poolIndex < messages
  /\ poolIndex' = poolIndex + 1
  /\ blocks' = Append(blocks, [kind |-> "root", index |-> poolIndex'])
  /\ UNCHANGED <<startBlock, messages, diskVars, pc, memVars, auxVars>>

-----------------------------------------------------------------------------
(* The leaves of the Message events in the blocks from a to b.               *)
Announced(a, b) ==
  {blocks[n].index - 1 : n \in {k \in a..b : k \in DOMAIN blocks /\ blocks[k].kind \in Messages}}

(* The last block that the watcher will take for processed (Watcher.init),   *)
(* when the process has started at block head; and the leaves that neither   *)
(* the tree has nor the watcher will visit.                                  *)
WatchedUpTo(head) == IF savedBlock # 0 THEN savedBlock ELSE head
Missed(head) == Announced(1, WatchedUpTo(head)) \ optimistic

(* A start: getLastBlockToProcess (a chain has blocks).  With a start block  *)
(* of 0, its default, `startBlock && lastBlock` is false: syncState is not   *)
(* called, whatever the trees hold.                                          *)
StartUnsynced ==
  /\ pc = "start" /\ blocks # <<>> /\ startBlock = 0
  /\ initBlock' = Len(blocks)
  /\ skipped' = skipped \cup Missed(Len(blocks))
  /\ pc' = "init"
  /\ UNCHANGED <<chainVars, diskVars, contractIndex, processed, pos, batchEnd,
                 mishaps, torn>>

(* Otherwise syncState reads the contract's state in later requests.         *)
ReadHead ==
  /\ pc = "start" /\ blocks # <<>> /\ startBlock # 0
  /\ initBlock' = Len(blocks)
  /\ pc' = "index"
  /\ UNCHANGED <<chainVars, diskVars, contractIndex, processed, pos, batchEnd,
                 auxVars>>

SyncFrom == Greater(startBlock, lastConfirmedBlock)

(* An early return scans nothing: what is pending then, in blocks the        *)
(* watcher does not visit either, gets into neither tree.                    *)
ReadIndex ==
  /\ pc = "index"
  /\ contractIndex' = poolIndex
  /\ IF RootIs(confirmed, poolIndex) THEN pc' = "init" /\ pos' = 0
     ELSE IF NextIndex(confirmed) < poolIndex THEN pc' = "sync" /\ pos' = SyncFrom
     ELSE pc' = "wipe" /\ pos' = 0
  /\ skipped' = IF RootIs(confirmed, poolIndex)
                THEN skipped \cup Missed(initBlock) ELSE skipped
  /\ UNCHANGED <<chainVars, diskVars, initBlock, processed, batchEnd, mishaps, torn>>

(* Variant: only the confirmed tree is updated.                              *)
ConfirmTxOnly(e, b) ==
  /\ confirmed' = confirmed \cup {e.index - 1}
  /\ lastConfirmedBlock' = Greater(lastConfirmedBlock, b)
  /\ UNCHANGED optimistic

(* addTxToState with states 'all': the leaf enters both trees, and a         *)
(* transfer's block (a deposit's is not noted) becomes the new sync point.   *)
ConfirmTx(e, b) ==
  /\ optimistic' = optimistic \cup {e.index - 1}
  /\ confirmed' = confirmed \cup {e.index - 1}
  /\ lastConfirmedBlock' = IF e.kind = "transfer"
                           THEN Greater(lastConfirmedBlock, b) ELSE lastConfirmedBlock

(* addTxToState with states 'optimistic'.                                    *)
AnnounceTx(e) ==
  /\ optimistic' = optimistic \cup {e.index - 1}
  /\ UNCHANGED <<confirmed, lastConfirmedBlock>>

(* Variant: the last of them is taken for a pending one.                         *)
InContractStrict(e) == e.index < contractIndex

(* Which transactions of the scan the contract's tree holds.                 *)
InContract(e) == e.index <= contractIndex

(* Variant: the scan leaves out what is not in the contract's tree yet.      *)
SyncBlockContractOnly ==
  /\ pc = "sync" /\ pos <= initBlock
  /\ LET e == blocks[pos] IN
       \/ e.kind \in Messages /\ InContract(e) /\ ConfirmTx(e, pos)
       \/ /\ e.kind \notin Messages \/ ~InContract(e)
          /\ UNCHANGED <<optimistic, confirmed, lastConfirmedBlock>>
  /\ pos' = pos + 1
  /\ UNCHANGED <<chainVars, savedBlock, pc, initBlock, contractIndex, processed,
                 batchEnd, auxVars>>

(* syncStateFromContract: the scan of the Message events up to initBlock.    *)
SyncBlock ==
  /\ pc = "sync" /\ pos <= initBlock
  /\ LET e == blocks[pos] IN
       \/ e.kind \in Messages /\ InContract(e) /\ ConfirmTx(e, pos)
       \/ e.kind \in Messages /\ ~InContract(e) /\ AnnounceTx(e)
       \/ /\ e.kind \notin Messages
          /\ UNCHANGED <<optimistic, confirmed, lastConfirmedBlock>>
  /\ pos' = pos + 1
  /\ UNCHANGED <<chainVars, savedBlock, pc, initBlock, contractIndex, processed,
                 batchEnd, auxVars>>

(* After a scan: again while the tree is short, else compare the roots.      *)
SyncCheck ==
  /\ pc = "sync" /\ pos > initBlock
  /\ IF NextIndex(confirmed) < contractIndex THEN pos' = SyncFrom /\ UNCHANGED pc
     ELSE /\ pos' = 0
          /\ pc' = IF RootIs(confirmed, contractIndex) THEN "init" ELSE "wipe"
  /\ UNCHANGED <<chainVars, diskVars, initBlock, contractIndex, processed,
                 batchEnd, auxVars>>

(* The roots differ: both trees are wiped, then the sync point, then the     *)
(* start fails with 'State is corrupted' and the process exits.              *)
WipeState ==
  /\ pc = "wipe" /\ pc' = "wipeOptimistic" /\ confirmed' = {}
  /\ UNCHANGED <<chainVars, optimistic, lastConfirmedBlock, savedBlock, memVars,
                 auxVars>>

WipeOptimistic ==
  /\ pc = "wipeOptimistic" /\ pc' = "reset" /\ optimistic' = {}
  /\ skipped' = {}  \* only a wipe is followed by a whole scan
  /\ UNCHANGED <<chainVars, confirmed, lastConfirmedBlock, savedBlock, memVars,
                 mishaps, torn>>

Exit == /\ pc' = "down" /\ initBlock' = 0 /\ contractIndex' = 0
        /\ processed' = 0 /\ pos' = 0 /\ batchEnd' = 0

ResetSyncPoint ==
  /\ pc = "reset" /\ Exit
  /\ lastConfirmedBlock' = 0
  /\ UNCHANGED <<chainVars, optimistic, confirmed, savedBlock, auxVars>>

(* A request of the start fails: nobody catches it and the process exits.    *)
StartFails ==
  /\ pc \in {"start", "index", "sync"} /\ Exit
  /\ Mishap
  /\ UNCHANGED <<chainVars, diskVars, torn>>

(* The process is killed in addTxToState, before or after its second write   *)
(* (the sync point is saved in the background, hence not yet).               *)
KilledConfirming ==
  /\ pc = "sync" /\ pos <= initBlock
  /\ blocks[pos].kind \in Messages /\ InContract(blocks[pos])
  /\ LET leaf == blocks[pos].index - 1 IN
       /\ confirmed' = confirmed \cup {leaf}
       /\ optimistic' \in {optimistic, optimistic \cup {leaf}}
       /\ torn' = torn \cup ({leaf} \ optimistic')
  /\ Exit /\ Mishap
  /\ UNCHANGED <<chainVars, lastConfirmedBlock, savedBlock>>

-----------------------------------------------------------------------------
(* Watcher.init: the position saved in Redis, else the one after the sync.   *)
WatcherInit ==
  /\ pc = "init" /\ pc' = "idle"
  /\ processed' = WatchedUpTo(initBlock)
  /\ UNCHANGED <<chainVars, diskVars, initBlock, contractIndex, pos, batchEnd,
                 auxVars>>

(* Variant: one block is left out between two batches.                       *)
PollSkips ==
  /\ pc = "idle"
  /\ LET from == processed + 2
         to == Lesser(Len(blocks) - Confirmations, from + BatchSize)
     IN from <= to /\ pos' = from /\ batchEnd' = to
  /\ pc' = "batch"
  /\ UNCHANGED <<chainVars, diskVars, initBlock, contractIndex, processed, auxVars>>

(* Watcher.watch: the events of the next blocks that are old enough.  (The   *)
(* range holds one batch of getEvents, which retries forever.)  The poll     *)
(* does nothing when there is no such block.                                 *)
Poll ==
  /\ pc = "idle"
  /\ LET from == processed + 1
         to == Lesser(Len(blocks) - Confirmations, from + BatchSize)
     IN from <= to /\ pos' = from /\ batchEnd' = to
  /\ pc' = "batch"
  /\ UNCHANGED <<chainVars, diskVars, initBlock, contractIndex, processed, auxVars>>

(* The processor's handling of one event.  The next batch starts from the    *)
(* same position after an exception ("Error processing events").             *)
Continue == pos' = pos + 1 /\ UNCHANGED <<pc, batchEnd>>
Throw    == pc' = "idle" /\ pos' = 0 /\ batchEnd' = 0

HandleMessage ==
  /\ pc = "batch" /\ pos <= batchEnd /\ blocks[pos].kind \in Messages
  /\ AnnounceTx(blocks[pos])
  /\ Continue
  /\ UNCHANGED <<chainVars, savedBlock, initBlock, contractIndex, processed, auxVars>>

HandleOther ==
  /\ pc = "batch" /\ pos <= batchEnd /\ blocks[pos].kind = "empty"
  /\ Continue
  /\ UNCHANGED <<chainVars, diskVars, initBlock, contractIndex, processed, auxVars>>

(* Variant: one leaf more than the contract's tree has.                      *)
ToPropagateOver(n) == Prefix(n + 1) \ Prefix(NextIndex(confirmed))

(* propagateOptimisticState: the leaves the update must move, of which it    *)
(* moves those before the first one that the optimistic tree does not have.  *)
ToPropagate(n) == Prefix(n) \ Prefix(NextIndex(confirmed))
Movable(n) == {i \in ToPropagate(n) : \A k \in ToPropagate(n) : k <= i => k \in optimistic}

PropagateRefused ==
  /\ pc = "batch" /\ pos <= batchEnd /\ blocks[pos].kind = "root"
  /\ blocks[pos].index > NextIndex(optimistic)
  /\ Throw
  /\ UNCHANGED <<chainVars, diskVars, initBlock, contractIndex, processed, auxVars>>

Propagate ==
  /\ pc = "batch" /\ pos <= batchEnd /\ blocks[pos].kind = "root"
  /\ LET n == blocks[pos].index IN
       /\ n <= NextIndex(optimistic)
       /\ confirmed' = confirmed \cup Movable(n)
       /\ IF ToPropagate(n) \subseteq optimistic
          THEN Continue /\ lastConfirmedBlock' = Greater(lastConfirmedBlock, pos)
          ELSE Throw /\ UNCHANGED lastConfirmedBlock
  /\ UNCHANGED <<chainVars, optimistic, savedBlock, initBlock, contractIndex,
                 processed, auxVars>>

(* The request for a transaction's calldata fails.                           *)
HandleFails ==
  /\ pc = "batch" /\ pos <= batchEnd /\ blocks[pos].kind \in Messages
  /\ Mishap
  /\ Throw
  /\ UNCHANGED <<chainVars, diskVars, initBlock, contractIndex, processed, torn>>

(* The process is killed in the loop of propagateOptimisticState, after leaf *)
(* m was moved.                                                              *)
KilledPropagating ==
  /\ pc = "batch" /\ pos <= batchEnd /\ blocks[pos].kind = "root"
  /\ LET n == blocks[pos].index IN
       /\ n <= NextIndex(optimistic)
       /\ \E m \in Movable(n) : confirmed' = confirmed \cup {i \in Movable(n) : i <= m}
  /\ Exit /\ Mishap
  /\ UNCHANGED <<chainVars, optimistic, lastConfirmedBlock, savedBlock, torn>>

BatchDone ==
  /\ pc = "batch" /\ pos > batchEnd
  /\ pc' = "idle" /\ pos' = 0 /\ batchEnd' = 0
  /\ processed' = batchEnd /\ savedBlock' = batchEnd
  /\ UNCHANGED <<chainVars, optimistic, confirmed, lastConfirmedBlock, initBlock,
                 contractIndex, auxVars>>

-----------------------------------------------------------------------------
Crash ==
  /\ pc # "down" /\ Exit
  /\ Mishap
  /\ UNCHANGED <<chainVars, diskVars, torn>>

Restart ==
  /\ pc = "down" /\ pc' = "start"
  /\ UNCHANGED <<chainVars, diskVars, memVars, auxVars>>

Sync == StartUnsynced \/ ReadHead \/ ReadIndex \/ SyncBlock \/ SyncCheck
          \/ WipeState \/ WipeOptimistic \/ ResetSyncPoint
Watch == WatcherInit \/ Poll \/ HandleMessage \/ HandleOther
           \/ PropagateRefused \/ Propagate \/ BatchDone
Chain == MineEmpty \/ MineRoot \/ \E k \in Messages : MineMessage(k)
Failure == StartFails \/ HandleFails \/ KilledConfirming \/ KilledPropagating \/ Crash

Next == Sync \/ Watch \/ Restart \/ Chain \/ Failure

Spec == Init /\ [][Next]_vars

(* The process runs, its supervisor starts it again, and the node fails only *)
(* so often (MaxMishaps).  Nothing is assumed of the chain.                   *)
FairSpec == Spec /\ WF_vars(Sync) /\ WF_vars(Watch) /\ WF_vars(Restart)

-----------------------------------------------------------------------------
(* Shapes of the state: what each variable ranges over.                      *)
TypeOK ==
  /\ startBlock \in {0, 1} /\ blocks \in Seq(Event) /\ messages \in Nat /\ poolIndex \in Nat
  /\ optimistic \subseteq Nat /\ confirmed \subseteq Nat
  /\ lastConfirmedBlock \in Nat /\ savedBlock \in Nat
  /\ pc \in Steps
  /\ initBlock \in Nat /\ contractIndex \in Nat /\ processed \in Nat
  /\ pos \in Nat /\ batchEnd \in Nat
  /\ pc # "batch" => batchEnd = 0
  /\ mishaps \in Nat /\ skipped \subseteq Nat /\ torn \subseteq Nat

(* The confirmed tree that clients and the relayer are served is one the     *)
(* contract has had: its first leaves, none missing and none too many,       *)
(* whatever crashes, failed batches and wiped states came before.            *)
ServedTreeIsContractTree ==
  pc \in Watching => \E n \in 0..poolIndex : confirmed = Prefix(n)

(* What is confirmed is also in the optimistic tree (GET /info reports an    *)
(* optimistic index that is not behind the confirmed one), but for a leaf at *)
(* which a kill separated the two writes of addTxToState.                    *)
ConfirmedIsKnown == confirmed \subseteq optimistic \cup torn

(* The watcher never moves past a transaction it has not taken in: when it   *)
(* saves a position, every transaction since the last one is in the tree.    *)
BatchComplete ==
  [][pc = "batch" /\ processed' # 0 /\ processed' # processed =>
       Announced(processed + 1, processed') \subseteq optimistic']_vars

(* Transactions the indexer has, or has left out.                            *)
Known == optimistic \cup skipped

(* A transaction that was announced in a block the watcher has behind it is  *)
(* in the optimistic tree, whatever scans were cut short, trees wiped and    *)
(* batches repeated, unless a start has left it out: one that did not        *)
(* synchronise, as its start block is 0 or the confirmed tree had the        *)
(* contract's root.                                                          *)
NothingElseSkipped ==
  pc \in {"idle", "batch"} => Announced(1, processed) \subseteq Known

(* What the contract's tree has and the confirmed one lacks is in the blocks  *)
(* that the scan reads.                                                      *)
ScanSuffices ==
  Prefix(contractIndex) \ confirmed \subseteq Announced(SyncFrom, initBlock)

(* A synchronisation whose range holds what it looks for ends, in watching   *)
(* or in a wiped state, through crashes and restarts of the scan ("The       *)
(* following key in Redis DB will use to restore sync from the last          *)
(* confirmed tx").  A range that does not is scanned again and again.        *)
SyncEnds == pc = "sync" /\ ScanSuffices ~> pc # "sync"

(* Once the watcher has every transaction up to its position, the confirmed  *)
(* tree catches up with the contract's, as far as blocks are old enough,     *)
(* unless a restart finds that its scan does not suffice.  (With a start     *)
(* block of 0 nothing is scanned after a restart: root updates of the blocks *)
(* before it may never be seen.)                                             *)
UpToDate == /\ pc \in {"idle", "batch"}
            /\ Announced(1, processed) \subseteq optimistic
CaughtUp ==
  \A b \in DOMAIN blocks :
    b + Confirmations <= Len(blocks) /\ blocks[b].kind = "root" =>
      blocks[b].index <= NextIndex(confirmed)
WatcherCatchesUp ==
  startBlock # 0 /\ UpToDate ~> CaughtUp \/ (pc = "sync" /\ ~ScanSuffices)
=============================================================================
