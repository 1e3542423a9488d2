--------------------------- MODULE IndexerProofs ---------------------------
(***************************************************************************)
(* What Indexer guarantees for either start block, every length of the     *)
(* chain, every batch size and every number of crashes, kills and failed   *)
(* requests; at the end, what a start may leave out and nothing else does. *)
(***************************************************************************)
EXTENDS Indexer, WellFoundedInduction, TLAPS

(* The next index of the tree with the first n leaves is n.                 *)
LEMMA NextOfPrefix == \A n \in Nat : NextIndex(Prefix(n)) = n
<1> SUFFICES ASSUME NEW n \in Nat PROVE NextIndex(Prefix(n)) = n
  OBVIOUS
<1>1. CASE n = 0
  BY <1>1 DEF NextIndex, Prefix
<1>2. CASE n # 0
  <2>1. n - 1 \in Prefix(n) /\ \A y \in Prefix(n) : n - 1 >= y
    BY <1>2 DEF Prefix
  <2>2. Max(Prefix(n)) \in Prefix(n) /\ \A y \in Prefix(n) : Max(Prefix(n)) >= y
    BY <2>1 DEF Max
  <2>3. Max(Prefix(n)) = n - 1
    BY <2>1, <2>2 DEF Prefix
  <2> QED
    BY <1>2, <2>1, <2>3 DEF NextIndex
<1> QED
  BY <1>1, <1>2

(* A set of naturals that is not empty has a least element.                 *)
LEMMA LeastNatural ==
  ASSUME NEW T, T \subseteq Nat, T # {}
  PROVE  \E m \in T : \A k \in T : m <= k
<1>1. PICK m \in T : \A k \in T : <<k, m>> \notin OpToRel(<, Nat)
  BY NatLessThanWellFounded, WFMin
<1>2. ASSUME NEW k \in T PROVE m <= k
  <2>1. <<k, m>> \notin {ss \in Nat \X Nat : ss[1] < ss[2]}
    BY <1>1 DEF OpToRel
  <2>2. k \in Nat /\ m \in Nat
    OBVIOUS
  <2> QED
    BY <2>1, <2>2
<1> QED
  BY <1>2

(* The positions the process holds are positions of the chain, and the       *)
(* events of the chain carry the indexes the contract gave them.             *)
EventsOK ==
  \A b \in DOMAIN blocks :
    /\ blocks[b].kind \in Messages => blocks[b].index >= 1
    /\ blocks[b].kind = "root" => blocks[b].index <= poolIndex
PositionsOK ==
  /\ pc \in {"index", "sync"} => initBlock <= Len(blocks)
  /\ pc = "sync" => pos >= 1
  /\ pc = "batch" => pos >= 1 /\ batchEnd <= Len(blocks)
  /\ contractIndex <= poolIndex
  /\ startBlock = 0 => pc \in {"start", "down"} \cup Watching
Shape == TypeOK /\ EventsOK /\ PositionsOK

(* Leaves are counted from 0.                                                *)
LEMMA AnnouncedNat ==
  ASSUME TypeOK, EventsOK, NEW a, NEW b
  PROVE  Announced(a, b) \subseteq Nat
<1>1. ASSUME NEW k \in DOMAIN blocks, blocks[k].kind \in Messages
      PROVE  blocks[k].index - 1 \in Nat
  <2>1. blocks[k] \in Event
    BY DEF TypeOK
  <2>2. blocks[k].index \in Nat /\ blocks[k].index >= 1
    BY <1>1, <2>1 DEF Event, EventsOK
  <2> QED
    BY <2>2
<1> QED
  BY <1>1 DEF Announced

(* Every variable keeps its range, and every position its meaning.          *)
LEMMA ShapeKept == Spec => []Shape
<1> USE IndexerAssumption
<1>1. Init => Shape
  BY DEF Init, Shape, TypeOK, EventsOK, PositionsOK, Event, Steps, Starting,
     Wiping, Watching
<1>2. Shape /\ [Next]_vars => Shape'
  <2> SUFFICES ASSUME Shape, [Next]_vars PROVE Shape'
    OBVIOUS
  <2> USE DEF Shape, auxVars
  <2>1. CASE ReadHead
    BY <2>1 DEF ReadHead, chainVars, diskVars, memVars, TypeOK,
       EventsOK, PositionsOK, Event, Steps, Starting, Wiping, Watching
  <2>2. CASE ReadIndex
    <3>2. skipped' \subseteq Nat
      BY <2>2, AnnouncedNat DEF ReadIndex, Missed, TypeOK
    <3>3. /\ UNCHANGED <<blocks, messages, poolIndex, optimistic, confirmed, mishaps,
                       lastConfirmedBlock, savedBlock, initBlock, processed, batchEnd>>
          /\ contractIndex' = poolIndex /\ pc = "index"
          /\ pc' \in {"init", "sync", "wipe"}
          /\ pos' = IF pc' = "sync" THEN SyncFrom ELSE 0
      BY <2>2 DEF ReadIndex, chainVars, diskVars
    <3>4. startBlock' = startBlock /\ startBlock = 1 /\ torn' = torn
      BY <2>2 DEF ReadIndex, chainVars, TypeOK, PositionsOK, Watching
    <3> QED
      BY <3>2, <3>3, <3>4 DEF SyncFrom, Greater, TypeOK, EventsOK, PositionsOK,
         Event, Steps, Starting, Wiping, Watching
  <2>3. CASE SyncBlock
    <3>0. blocks \in Seq(Event) /\ pos \in DOMAIN blocks
      BY <2>3 DEF SyncBlock, TypeOK, PositionsOK
    <3>1. pos \in DOMAIN blocks /\ blocks[pos] \in Event
      BY <3>0
    <3>2. blocks[pos].kind \in Messages => blocks[pos].index - 1 \in Nat
      BY <3>0, <3>1 DEF EventsOK, Event
    <3>3. optimistic' \subseteq Nat /\ confirmed' \subseteq Nat
      BY <2>3, <3>2 DEF SyncBlock, ConfirmTx, AnnounceTx, TypeOK
    <3>4. lastConfirmedBlock' \in Nat
      BY <2>3 DEF SyncBlock, ConfirmTx, AnnounceTx, Greater, TypeOK
    <3>5. /\ UNCHANGED <<startBlock, blocks, messages, poolIndex, savedBlock, pc, initBlock,
                       contractIndex, processed, batchEnd, mishaps, skipped, torn>>
          /\ pc = "sync" /\ pos' = pos + 1
      BY <2>3 DEF SyncBlock, chainVars, auxVars
    <3>6. TypeOK'
      BY <3>3, <3>4, <3>5 DEF TypeOK
    <3>7. EventsOK'
      BY <3>5 DEF EventsOK
    <3>8. pos \in Nat /\ pos >= 1 /\ PositionsOK
      BY <3>5 DEF TypeOK, PositionsOK
    <3>9. PositionsOK'
      BY <3>5, <3>8 DEF PositionsOK, Watching
    <3> QED
      BY <3>6, <3>7, <3>9
  <2>4. CASE SyncCheck
    BY <2>4 DEF SyncCheck, SyncFrom, Greater, chainVars, diskVars,
       memVars, TypeOK, EventsOK, PositionsOK, Event, Steps,
       Starting, Wiping, Watching
  <2>5. CASE WipeState
    BY <2>5 DEF WipeState, chainVars, diskVars, memVars, TypeOK,
       EventsOK, PositionsOK, Event, Steps, Starting, Wiping, Watching
  <2>6. CASE WipeOptimistic
    BY <2>6 DEF WipeOptimistic, chainVars, diskVars, memVars,
       TypeOK, EventsOK, PositionsOK, Event, Steps, Starting, Wiping, Watching
  <2>7. CASE ResetSyncPoint
    BY <2>7 DEF ResetSyncPoint, Exit, chainVars, diskVars, memVars,
       TypeOK, EventsOK, PositionsOK, Event, Steps, Starting, Wiping, Watching
  <2>8. CASE WatcherInit
    BY <2>8 DEF WatcherInit, WatchedUpTo, chainVars, diskVars, memVars, TypeOK,
       EventsOK, PositionsOK, Event, Steps, Starting, Wiping, Watching
  <2>9. CASE Poll
    BY <2>9 DEF Poll, Lesser, chainVars, diskVars, memVars, TypeOK,
       EventsOK, PositionsOK, Event, Steps, Starting, Wiping, Watching
  <2>10. CASE HandleMessage
    <3>0. blocks \in Seq(Event) /\ pos \in DOMAIN blocks
      BY <2>10 DEF HandleMessage, TypeOK, PositionsOK
    <3>1. pos \in DOMAIN blocks /\ blocks[pos] \in Event
      BY <3>0
    <3>2. blocks[pos].kind \in Messages => blocks[pos].index - 1 \in Nat
      BY <3>0, <3>1 DEF EventsOK, Event
    <3>3. optimistic' \subseteq Nat /\ confirmed' \subseteq Nat
      BY <2>10, <3>2 DEF HandleMessage, ConfirmTx, AnnounceTx, TypeOK
    <3>4. lastConfirmedBlock' \in Nat
      BY <2>10 DEF HandleMessage, ConfirmTx, AnnounceTx, Greater, TypeOK
    <3>5. EventsOK' /\ PositionsOK'
      BY <2>10, <3>0 DEF HandleMessage, Continue, AnnounceTx, chainVars,
         diskVars, memVars, EventsOK, PositionsOK, TypeOK
    <3>6. TypeOK'
      BY <2>10, <3>3, <3>4 DEF HandleMessage, Continue, chainVars, diskVars,
         memVars, TypeOK
    <3> QED
      BY <3>5, <3>6
  <2>11. CASE HandleOther
    BY <2>11 DEF HandleOther, Continue, chainVars, diskVars, memVars, TypeOK, EventsOK, PositionsOK, Event, Steps, Starting,
       Wiping, Watching
  <2>12. CASE PropagateRefused
    BY <2>12 DEF PropagateRefused, Throw, chainVars, diskVars, memVars, TypeOK, EventsOK, PositionsOK, Event, Steps, Starting,
       Wiping, Watching
  <2>13. CASE Propagate
    <3>0. blocks \in Seq(Event) /\ pos \in DOMAIN blocks
      BY <2>13 DEF Propagate, TypeOK, PositionsOK
    <3>1. pos \in DOMAIN blocks /\ blocks[pos] \in Event
      BY <3>0
    <3>2. confirmed' \subseteq Nat
      <4>1. blocks[pos].index \in Nat /\ confirmed \subseteq Nat
        BY <3>1 DEF Event, TypeOK
      <4>2. Movable(blocks[pos].index) \subseteq Nat
        BY <4>1 DEF Movable, ToPropagate, Prefix
      <4> QED
        BY <2>13, <4>1, <4>2 DEF Propagate
    <3> QED
      BY <2>13, <3>1, <3>2 DEF Propagate, Continue, Throw, Greater, chainVars,
         diskVars, memVars, TypeOK, EventsOK, PositionsOK, Event,
         Steps, Starting, Wiping, Watching
  <2>14. CASE BatchDone
    BY <2>14 DEF BatchDone, chainVars, diskVars, memVars, TypeOK,
       EventsOK, PositionsOK, Event, Steps, Starting, Wiping, Watching
  <2>15. CASE Restart
    BY <2>15 DEF Restart, chainVars, diskVars, memVars, TypeOK,
       EventsOK, PositionsOK, Event, Steps, Starting, Wiping, Watching
  <2>16. CASE MineEmpty
    <3>1. blocks' = Append(blocks, [kind |-> "empty", index |-> 0]) /\ [kind |-> "empty", index |-> 0] \in Event
      BY <2>16 DEF MineEmpty, TypeOK, Event, Messages
    <3>2. TypeOK' /\ PositionsOK'
      BY <3>1, <2>16 DEF MineEmpty, chainVars, diskVars, memVars,
         TypeOK, EventsOK, PositionsOK, Event, Steps, Starting, Wiping,
         Watching
    <3>3. EventsOK'
      <4> SUFFICES ASSUME NEW b \in DOMAIN blocks' PROVE
              /\ blocks'[b].kind \in Messages => blocks'[b].index >= 1
              /\ blocks'[b].kind = "root" => blocks'[b].index <= poolIndex'
        BY DEF EventsOK
      <4>1. CASE b \in DOMAIN blocks
        <5>1. blocks'[b] = blocks[b] /\ blocks[b] \in Event
          BY <3>1, <4>1 DEF TypeOK
        <5>2. poolIndex <= poolIndex' /\ poolIndex' \in Nat
          BY <2>16 DEF MineEmpty, chainVars, diskVars, memVars,
             TypeOK
        <5> QED
          BY <4>1, <5>1, <5>2, SMTT(30) DEF EventsOK, Event, TypeOK
      <4>2. CASE b \notin DOMAIN blocks
        <5>1. blocks'[b] = [kind |-> "empty", index |-> 0]
          BY <3>1, <4>2 DEF TypeOK
        <5> QED
          BY <5>1, <2>16 DEF MineEmpty, chainVars, diskVars, memVars, Messages, TypeOK
      <4> QED
        BY <4>1, <4>2
    <3> QED
      BY <3>2, <3>3
  <2>17. CASE MineRoot
    <3>1. blocks' = Append(blocks, [kind |-> "root", index |-> poolIndex + 1]) /\ [kind |-> "root", index |-> poolIndex + 1] \in Event
      BY <2>17 DEF MineRoot, TypeOK, Event, Messages
    <3>2. TypeOK' /\ PositionsOK'
      BY <3>1, <2>17 DEF MineRoot, chainVars, diskVars, memVars,
         TypeOK, EventsOK, PositionsOK, Event, Steps, Starting, Wiping,
         Watching
    <3>3. EventsOK'
      <4> SUFFICES ASSUME NEW b \in DOMAIN blocks' PROVE
              /\ blocks'[b].kind \in Messages => blocks'[b].index >= 1
              /\ blocks'[b].kind = "root" => blocks'[b].index <= poolIndex'
        BY DEF EventsOK
      <4>1. CASE b \in DOMAIN blocks
        <5>1. blocks'[b] = blocks[b] /\ blocks[b] \in Event
          BY <3>1, <4>1 DEF TypeOK
        <5>2. poolIndex <= poolIndex' /\ poolIndex' \in Nat
          BY <2>17 DEF MineRoot, chainVars, diskVars, memVars, TypeOK
        <5> QED
          BY <4>1, <5>1, <5>2, SMTT(30) DEF EventsOK, Event, TypeOK
      <4>2. CASE b \notin DOMAIN blocks
        <5>1. blocks'[b] = [kind |-> "root", index |-> poolIndex + 1]
          BY <3>1, <4>2 DEF TypeOK
        <5> QED
          BY <5>1, <2>17 DEF MineRoot, chainVars, diskVars, memVars,
             Messages, TypeOK
      <4> QED
        BY <4>1, <4>2
    <3> QED
      BY <3>2, <3>3
  <2>18. CASE StartFails
    BY <2>18 DEF StartFails, Mishap, Exit, chainVars, diskVars, memVars,
       TypeOK, EventsOK, PositionsOK, Event, Steps, Starting, Wiping, Watching
  <2>19. CASE HandleFails
    BY <2>19 DEF HandleFails, Mishap, Throw, chainVars, diskVars, memVars,
       TypeOK, EventsOK, PositionsOK, Event, Steps, Starting, Wiping, Watching
  <2>20. CASE Crash
    BY <2>20 DEF Crash, Mishap, Exit, chainVars, diskVars, memVars, TypeOK,
       EventsOK, PositionsOK, Event, Steps, Starting, Wiping, Watching
  <2>21. CASE \E k \in Messages : MineMessage(k)
    <3> PICK k \in Messages : MineMessage(k)
      BY <2>21
    <3>1. blocks' = Append(blocks, [kind |-> k, index |-> messages + 1]) /\ [kind |-> k, index |-> messages + 1] \in Event
      BY DEF MineMessage, TypeOK, Event, Messages
    <3>2. TypeOK' /\ PositionsOK'
      BY <3>1 DEF MineMessage, chainVars, diskVars, memVars, TypeOK,
         EventsOK, PositionsOK, Event, Steps, Starting, Wiping, Watching
    <3>3. EventsOK'
      <4> SUFFICES ASSUME NEW b \in DOMAIN blocks' PROVE
              /\ blocks'[b].kind \in Messages => blocks'[b].index >= 1
              /\ blocks'[b].kind = "root" => blocks'[b].index <= poolIndex'
        BY DEF EventsOK
      <4>1. CASE b \in DOMAIN blocks
        <5>1. blocks'[b] = blocks[b] /\ blocks[b] \in Event
          BY <3>1, <4>1 DEF TypeOK
        <5>2. poolIndex <= poolIndex' /\ poolIndex' \in Nat
          BY DEF MineMessage, chainVars, diskVars, memVars, TypeOK
        <5> QED
          BY <4>1, <5>1, <5>2, SMTT(30) DEF EventsOK, Event, TypeOK
      <4>2. CASE b \notin DOMAIN blocks
        <5>1. blocks'[b] = [kind |-> k, index |-> messages + 1]
          BY <3>1, <4>2 DEF TypeOK
        <5> QED
          BY <5>1 DEF MineMessage, chainVars, diskVars, memVars,
             Messages, TypeOK
      <4> QED
        BY <4>1, <4>2
    <3> QED
      BY <3>2, <3>3
  <2>22. CASE UNCHANGED vars
    BY <2>22 DEF vars, chainVars, diskVars, memVars, TypeOK,
       EventsOK, PositionsOK, Event, Steps, Starting, Wiping, Watching
  <2>23. CASE StartUnsynced
    <3>1. skipped' \subseteq Nat
      BY <2>23, AnnouncedNat DEF StartUnsynced, Missed, TypeOK
    <3> QED
      BY <2>23, <3>1 DEF StartUnsynced, chainVars, diskVars, memVars, TypeOK,
         EventsOK, PositionsOK, Event, Steps, Starting, Wiping, Watching
  <2>24. CASE KilledConfirming
    <3>0. blocks \in Seq(Event) /\ pos \in DOMAIN blocks
      BY <2>24 DEF KilledConfirming, TypeOK, PositionsOK
    <3>1. blocks[pos] \in Event
      BY <3>0
    <3>2. blocks[pos].index - 1 \in Nat
      BY <2>24, <3>0, <3>1 DEF KilledConfirming, EventsOK, Event
    <3>3. optimistic' \subseteq Nat /\ confirmed' \subseteq Nat /\ torn' \subseteq Nat
      BY <2>24, <3>2 DEF KilledConfirming, TypeOK
    <3> QED
      BY <2>24, <3>3 DEF KilledConfirming, Mishap, Exit, chainVars, TypeOK,
         EventsOK, PositionsOK, Event, Steps, Starting, Wiping, Watching
  <2>25. CASE KilledPropagating
    <3>0. blocks \in Seq(Event) /\ pos \in DOMAIN blocks
      BY <2>25 DEF KilledPropagating, TypeOK, PositionsOK
    <3>1. blocks[pos].index \in Nat
      <4>1. blocks[pos] \in Event
        BY <3>0
      <4> QED
        BY <4>1 DEF Event
    <3>2. Movable(blocks[pos].index) \subseteq Nat
      BY <3>1 DEF Movable, ToPropagate, Prefix
    <3>3. confirmed' \subseteq Nat
      BY <2>25, <3>2 DEF KilledPropagating, TypeOK
    <3> QED
      BY <2>25, <3>3 DEF KilledPropagating, Mishap, Exit, chainVars, TypeOK,
         EventsOK, PositionsOK, Event, Steps, Starting, Wiping, Watching
  <2> QED
    BY <2>1, <2>2, <2>3, <2>4, <2>5, <2>6, <2>7, <2>8, <2>9, <2>10, <2>11,
       <2>12, <2>13, <2>14, <2>15, <2>16, <2>17, <2>18, <2>19, <2>20, <2>21,
       <2>22, <2>23, <2>24, <2>25 DEF Next, Sync, Watch, Chain, Failure
<1> QED
  BY <1>1, <1>2, PTL DEF Spec

(* Every variable keeps its range, through crashes, wipes and failed batches. *)
THEOREM TypeCorrect == Spec => []TypeOK
BY ShapeKept, PTL DEF Shape

(* Moving leaves from the optimistic tree leaves the confirmed tree a        *)
(* prefix: it takes leaves up to the first one that is missing.              *)
LEMMA MovedIsPrefix ==
  ASSUME TypeOK, NEW m \in Nat, confirmed = Prefix(m), NEW n \in Nat
  PROVE  \E p \in Nat : /\ confirmed \cup Movable(n) = Prefix(p)
                        /\ p <= m \/ p <= n
<1> DEFINE Gap == ToPropagate(n) \ optimistic
<1>1. ToPropagate(n) = m..(n - 1)
  BY NextOfPrefix DEF ToPropagate, Prefix
<1>2. CASE Gap = {}
  <2>1. Movable(n) = m..(n - 1)
    BY <1>1, <1>2 DEF Movable
  <2>2. CASE n <= m
    BY <2>1, <2>2 DEF Prefix
  <2>3. CASE n > m
    <3>1. confirmed \cup Movable(n) = Prefix(n)
      BY <2>1, <2>3 DEF Prefix
    <3> QED
      BY <3>1
  <2> QED
    BY <2>2, <2>3
<1>3. CASE Gap # {}
  <2>1. PICK g \in Gap : \A k \in Gap : g <= k
    <3>1. Gap \subseteq Nat
      BY <1>1
    <3> QED
      BY <3>1, <1>3, LeastNatural
  <2>2. g \in m..(n - 1) /\ g \notin optimistic
    BY <1>1, <2>1
  <2>3. Movable(n) = m..(g - 1)
    <3>1. ASSUME NEW i \in Movable(n) PROVE i \in m..(g - 1)
      BY <3>1, <1>1, <2>2 DEF Movable
    <3>2. ASSUME NEW i \in m..(g - 1) PROVE i \in Movable(n)
      <4>1. i \in ToPropagate(n)
        BY <1>1, <2>2, <3>2
      <4>2. ASSUME NEW k \in ToPropagate(n), k <= i PROVE k \in optimistic
        BY <1>1, <2>1, <2>2, <3>2, <4>2
      <4> QED
        BY <4>1, <4>2 DEF Movable
    <3> QED
      BY <3>1, <3>2
  <2>4. confirmed \cup Movable(n) = Prefix(g) /\ g <= n /\ g \in Nat
    BY <2>2, <2>3 DEF Prefix
  <2> QED
    BY <2>4
<1> QED
  BY <1>2, <1>3

(* Leaves that can be moved are in the optimistic tree.                      *)
LEMMA MovableKnown ==
  ASSUME TypeOK, NEW n \in Nat
  PROVE  Movable(n) \subseteq optimistic /\ Movable(n) \subseteq Int
<1>1. \A i \in Movable(n) : i \in ToPropagate(n) /\ i \in Int /\ i <= i
  BY DEF Movable, ToPropagate, Prefix
<1> QED
  BY <1>1 DEF Movable

(* So it is when only the leaves up to some m of them are moved.             *)
LEMMA MovedPartIsPrefix ==
  ASSUME TypeOK, NEW k \in Nat, confirmed = Prefix(k), NEW n \in Nat,
         NEW m \in Movable(n)
  PROVE  \E p \in Nat : /\ confirmed \cup {i \in Movable(n) : i <= m} = Prefix(p)
                        /\ p <= k \/ p <= n
<1>1. ToPropagate(n) = k..(n - 1)
  BY NextOfPrefix DEF ToPropagate, Prefix
<1>2. m \in k..(n - 1)
  BY <1>1 DEF Movable
<1>3. {i \in Movable(n) : i <= m} = k..m
  <2>1. ASSUME NEW i \in k..m PROVE i \in Movable(n) /\ i <= m
    <3>1. i \in ToPropagate(n) /\ i <= m
      BY <1>1, <1>2
    <3>2. ASSUME NEW l \in ToPropagate(n), l <= i PROVE l \in optimistic
      <4>1. l <= m
        BY <1>1, <1>2, <3>2
      <4> QED
        BY <4>1 DEF Movable
    <3> QED
      BY <3>1, <3>2 DEF Movable
  <2>2. \A i \in Movable(n) : i <= m => i \in k..m
    BY <1>1, <1>2 DEF Movable
  <2> QED
    BY <2>1, <2>2
<1>4. Prefix(k) \cup k..m = Prefix(m + 1) /\ m + 1 \in Nat /\ m + 1 <= n
  BY <1>2 DEF Prefix
<1> QED
  BY <1>3, <1>4

(* What a served tree rests on.                                              *)
ServedInv ==
  /\ ServedTreeIsContractTree
  /\ startBlock = 0 => \E n \in 0..poolIndex : confirmed = Prefix(n)
  /\ pc \in {"wipeOptimistic", "reset"} => confirmed = {}
  /\ ConfirmedIsKnown

(* The tree that is served is one the contract has had, and everything       *)
(* confirmed is in the optimistic tree too.                                  *)
LEMMA ServedKept == Spec => []ServedInv
<1> USE IndexerAssumption
<1>1. Init => ServedInv
  BY DEF Init, ServedInv, ServedTreeIsContractTree, ConfirmedIsKnown, Watching, Prefix
<1>2. Shape /\ ServedInv /\ [Next]_vars => ServedInv'
  <2> SUFFICES ASSUME Shape, ServedInv, [Next]_vars PROVE ServedInv'
    OBVIOUS
  <2> USE DEF Shape, auxVars
  <2>1. CASE ReadHead
    BY <2>1 DEF ReadHead, chainVars, diskVars, memVars, ServedInv,
       ServedTreeIsContractTree, ConfirmedIsKnown, Watching
  <2>2. CASE ReadIndex
    <3>1. pc' = "init" => confirmed = Prefix(poolIndex)
      BY <2>2 DEF ReadIndex, RootIs
    <3> QED
      BY <2>2, <3>1 DEF ReadIndex, chainVars, diskVars, memVars,
         ServedInv, ServedTreeIsContractTree, ConfirmedIsKnown, Watching,
         TypeOK
  <2>3. CASE SyncBlock
    <3>1. startBlock # 0 /\ startBlock' = startBlock /\ pc = "sync" /\ pc' = "sync"
      BY <2>3 DEF SyncBlock, chainVars, PositionsOK, Watching
    <3>2. ConfirmedIsKnown'
      BY <2>3 DEF SyncBlock, ConfirmTx, AnnounceTx, ServedInv, ConfirmedIsKnown
    <3> QED
      BY <3>1, <3>2 DEF ServedInv, ServedTreeIsContractTree, Watching
  <2>4. CASE SyncCheck
    <3>1. pc' = "init" => confirmed = Prefix(contractIndex)
      BY <2>4 DEF SyncCheck, RootIs
    <3> QED
      BY <2>4, <3>1 DEF SyncCheck, chainVars, diskVars, memVars,
         ServedInv, ServedTreeIsContractTree, ConfirmedIsKnown, Watching,
         TypeOK, PositionsOK
  <2>5. CASE WipeState
    BY <2>5 DEF WipeState, chainVars, diskVars, memVars, ServedInv, PositionsOK,
       ServedTreeIsContractTree, ConfirmedIsKnown, Watching
  <2>6. CASE WipeOptimistic
    BY <2>6 DEF WipeOptimistic, chainVars, diskVars, memVars,
       ServedInv, ServedTreeIsContractTree, ConfirmedIsKnown, Watching
  <2>7. CASE ResetSyncPoint
    BY <2>7 DEF ResetSyncPoint, Exit, chainVars, diskVars, memVars,
       ServedInv, ServedTreeIsContractTree, ConfirmedIsKnown, Watching
  <2>8. CASE WatcherInit
    BY <2>8 DEF WatcherInit, chainVars, diskVars, memVars,
       ServedInv, ServedTreeIsContractTree, ConfirmedIsKnown, Watching
  <2>9. CASE Poll
    BY <2>9 DEF Poll, Lesser, chainVars, diskVars, memVars,
       ServedInv, ServedTreeIsContractTree, ConfirmedIsKnown, Watching
  <2>10. CASE HandleMessage
    BY <2>10 DEF HandleMessage, AnnounceTx, Continue, chainVars, diskVars,
       memVars, ServedInv, ServedTreeIsContractTree,
       ConfirmedIsKnown, Watching
  <2>11. CASE HandleOther
    BY <2>11 DEF HandleOther, Continue, chainVars, diskVars, memVars, ServedInv, ServedTreeIsContractTree, ConfirmedIsKnown,
       Watching
  <2>12. CASE PropagateRefused
    BY <2>12 DEF PropagateRefused, Throw, chainVars, diskVars, memVars, ServedInv, ServedTreeIsContractTree, ConfirmedIsKnown,
       Watching
  <2>13. CASE Propagate
    <3>0. blocks \in Seq(Event) /\ pos \in DOMAIN blocks
      BY <2>13 DEF Propagate, TypeOK, PositionsOK
    <3>1. pos \in DOMAIN blocks /\ blocks[pos] \in Event
      BY <3>0
    <3> DEFINE n == blocks[pos].index
    <3>2. n \in Nat /\ n <= poolIndex
      BY <2>13, <3>1 DEF Propagate, Event, EventsOK
    <3>3. confirmed' = confirmed \cup Movable(n)
      BY <2>13 DEF Propagate
    <3>4. PICK m \in 0..poolIndex : confirmed = Prefix(m)
      BY <2>13 DEF Propagate, ServedInv, ServedTreeIsContractTree,
         ConfirmedIsKnown, Watching
    <3>5. PICK p \in Nat : confirmed' = Prefix(p) /\ (p <= m \/ p <= n)
      BY <3>2, <3>3, <3>4, MovedIsPrefix
    <3>6. p \in 0..poolIndex
      BY <3>2, <3>4, <3>5 DEF TypeOK
    <3>7. ServedTreeIsContractTree'
      BY <2>13, <3>5, <3>6 DEF Propagate, chainVars, diskVars, memVars, ServedTreeIsContractTree
    <3>8. Movable(n) \subseteq optimistic
      <4> SUFFICES ASSUME NEW i \in Movable(n) PROVE i \in optimistic
        OBVIOUS
      <4>1. i \in ToPropagate(n) /\ i <= i
        BY <3>2 DEF Movable, ToPropagate, Prefix
      <4> QED
        BY <4>1 DEF Movable
    <3>9. \E k \in 0..poolIndex' : confirmed' = Prefix(k)
      BY <2>13, <3>5, <3>6 DEF Propagate, chainVars
    <3> QED
      BY <2>13, <3>3, <3>7, <3>8, <3>9 DEF Propagate, Continue, Throw, chainVars,
         diskVars, memVars, ServedInv, ConfirmedIsKnown
  <2>14. CASE BatchDone
    BY <2>14 DEF BatchDone, chainVars, diskVars, memVars, ServedInv,
       ServedTreeIsContractTree, ConfirmedIsKnown, Watching
  <2>15. CASE Restart
    BY <2>15 DEF Restart, chainVars, diskVars, memVars, ServedInv,
       ServedTreeIsContractTree, ConfirmedIsKnown, Watching
  <2>16. CASE MineEmpty
    BY <2>16 DEF MineEmpty, chainVars, diskVars, memVars, ServedInv,
       ServedTreeIsContractTree, ConfirmedIsKnown, Watching
  <2>17. CASE MineRoot
    <3>1. poolIndex \in Nat /\ poolIndex' = poolIndex + 1
      BY <2>17 DEF MineRoot, TypeOK
    <3>2. 0..poolIndex \subseteq 0..poolIndex'
      BY <3>1
    <3> QED
      BY <2>17, <3>2 DEF MineRoot, chainVars, diskVars, memVars,
         ServedInv, ServedTreeIsContractTree, ConfirmedIsKnown, Watching
  <2>18. CASE StartFails
    BY <2>18 DEF StartFails, Mishap, Exit, chainVars, diskVars, memVars,
       ServedInv, ServedTreeIsContractTree, ConfirmedIsKnown, Watching
  <2>19. CASE HandleFails
    BY <2>19 DEF HandleFails, Mishap, Throw, chainVars, diskVars, memVars,
       ServedInv, ServedTreeIsContractTree, ConfirmedIsKnown, Watching
  <2>20. CASE Crash
    BY <2>20 DEF Crash, Mishap, Exit, chainVars, diskVars, memVars,
       ServedInv, ServedTreeIsContractTree, ConfirmedIsKnown, Watching
  <2>21. CASE \E k \in Messages : MineMessage(k)
    BY <2>21 DEF MineMessage, chainVars, diskVars, memVars,
       ServedInv, ServedTreeIsContractTree, ConfirmedIsKnown, Watching
  <2>22. CASE UNCHANGED vars
    BY <2>22 DEF vars, chainVars, diskVars, memVars, ServedInv,
       ServedTreeIsContractTree, ConfirmedIsKnown, Watching
  <2>23. CASE StartUnsynced
    BY <2>23 DEF StartUnsynced, chainVars, diskVars, memVars, ServedInv,
       ServedTreeIsContractTree, ConfirmedIsKnown, Watching, TypeOK
  <2>24. CASE KilledConfirming
    BY <2>24 DEF KilledConfirming, Mishap, Exit, chainVars, ServedInv, PositionsOK,
       ServedTreeIsContractTree, ConfirmedIsKnown, Watching
  <2>25. CASE KilledPropagating
    <3>0. blocks \in Seq(Event) /\ pos \in DOMAIN blocks /\ pc = "batch" /\ pc' = "down"
      BY <2>25 DEF KilledPropagating, Exit, TypeOK, PositionsOK
    <3> DEFINE n == blocks[pos].index
    <3>1. n \in Nat /\ n <= poolIndex
      <4>1. blocks[pos] \in Event
        BY <3>0
      <4> QED
        BY <2>25, <3>0, <4>1 DEF KilledPropagating, Event, EventsOK
    <3>2. PICK m \in Movable(n) : confirmed' = confirmed \cup {i \in Movable(n) : i <= m}
      BY <2>25 DEF KilledPropagating
    <3>3. confirmed' \subseteq optimistic' \cup torn'
      <4>1. Movable(n) \subseteq optimistic
        BY <3>1, MovableKnown
      <4> QED
        BY <2>25, <3>2, <4>1 DEF KilledPropagating, ServedInv, ConfirmedIsKnown
    <3>4. \E p \in 0..poolIndex' : confirmed' = Prefix(p)
      <4>1. PICK k \in 0..poolIndex : confirmed = Prefix(k)
        BY <3>0 DEF ServedInv, ServedTreeIsContractTree, Watching
      <4>2. \E p \in Nat : confirmed' = Prefix(p) /\ (p <= k \/ p <= n)
        BY <3>1, <3>2, <4>1, MovedPartIsPrefix
      <4>3. poolIndex' = poolIndex /\ poolIndex \in Nat
        BY <2>25 DEF KilledPropagating, chainVars, TypeOK
      <4> QED
        BY <3>1, <4>1, <4>2, <4>3
    <3> QED
      BY <3>0, <3>3, <3>4 DEF ServedInv, ServedTreeIsContractTree, ConfirmedIsKnown, Watching
  <2> QED
    BY <2>1, <2>2, <2>3, <2>4, <2>5, <2>6, <2>7, <2>8, <2>9, <2>10, <2>11,
       <2>12, <2>13, <2>14, <2>15, <2>16, <2>17, <2>18, <2>19, <2>20, <2>21,
       <2>22, <2>23, <2>24, <2>25 DEF Next, Sync, Watch, Chain, Failure
<1> QED
  BY <1>1, <1>2, ShapeKept, PTL DEF Spec

(* However often the process crashes, fails and wipes its state: while it    *)
(* serves, its confirmed tree is a tree of the contract.                     *)
THEOREM ServesContractTree == Spec => []ServedTreeIsContractTree
BY ServedKept, PTL DEF ServedInv

(* The confirmed tree never holds what the optimistic one does not, but for  *)
(* the leaves at which a kill separated the writes to the two trees.         *)
THEOREM ConfirmedStaysKnown == Spec => []ConfirmedIsKnown
BY ServedKept, PTL DEF ServedInv

(* What a batch has taken in so far.                                         *)
BatchInv ==
  pc = "batch" => /\ processed < pos /\ pos <= batchEnd + 1
                  /\ Announced(processed + 1, pos - 1) \subseteq optimistic

(* New blocks change nothing about the blocks of a batch.                    *)
LEMMA AnnouncedOfOld ==
  ASSUME TypeOK, NEW e, blocks' = Append(blocks, e), NEW a \in Nat, NEW b \in Int,
         b <= Len(blocks)
  PROVE  Announced(a, b)' = Announced(a, b)
<1>1. \A k \in a..b : (k \in DOMAIN blocks' <=> k \in DOMAIN blocks)
  BY DEF TypeOK
<1>2. \A k \in a..b : k \in DOMAIN blocks => blocks'[k] = blocks[k]
  BY DEF TypeOK
<1> QED
  BY <1>1, <1>2 DEF Announced

(* A batch has taken in every transaction of the blocks it has passed.       *)
LEMMA BatchKept == Spec => []BatchInv
<1> USE IndexerAssumption
<1>1. Init => BatchInv
  BY DEF Init, BatchInv
<1>2. Shape /\ BatchInv /\ [Next]_vars => BatchInv'
  <2> SUFFICES ASSUME Shape, BatchInv, [Next]_vars PROVE BatchInv'
    OBVIOUS
  <2> USE DEF Shape, auxVars
  <2>1. CASE ReadHead
    BY <2>1 DEF ReadHead, chainVars, diskVars, memVars, BatchInv
  <2>2. CASE ReadIndex
    BY <2>2 DEF ReadIndex, SyncFrom, Greater, chainVars, diskVars,
       memVars, BatchInv
  <2>3. CASE SyncBlock
    BY <2>3 DEF SyncBlock, ConfirmTx, AnnounceTx, Greater, InContract,
       Messages, chainVars, diskVars, memVars, BatchInv
  <2>4. CASE SyncCheck
    BY <2>4 DEF SyncCheck, SyncFrom, Greater, chainVars, diskVars,
       memVars, BatchInv
  <2>5. CASE WipeState
    BY <2>5 DEF WipeState, chainVars, diskVars, memVars, BatchInv
  <2>6. CASE WipeOptimistic
    BY <2>6 DEF WipeOptimistic, chainVars, diskVars, memVars,
       BatchInv
  <2>7. CASE ResetSyncPoint
    BY <2>7 DEF ResetSyncPoint, Exit, chainVars, diskVars, memVars,
       BatchInv
  <2>8. CASE WatcherInit
    BY <2>8 DEF WatcherInit, chainVars, diskVars, memVars, BatchInv
  <2>9. CASE Poll
    <3>1. /\ pos' = processed + 1 /\ pos' <= batchEnd' /\ processed' = processed
          /\ optimistic' = optimistic
      BY <2>9 DEF Poll, chainVars, diskVars, memVars
    <3>2. Announced(processed + 1, pos - 1)' = {}
      BY <3>1 DEF Announced, TypeOK
    <3>3. batchEnd' \in Int
      BY <2>9 DEF Poll, Lesser, TypeOK
    <3>4. processed' < pos' /\ pos' <= batchEnd' + 1
      <4>1. processed \in Nat
        BY DEF TypeOK
      <4>2. processed < processed + 1
        BY <4>1
      <4>3. pos' \in Int
        BY <3>1, <4>1
      <4> QED
        <5>1. processed' < pos'
          BY <3>1, <4>2
        <5>2. pos' <= batchEnd' /\ batchEnd' \in Int
          BY <3>1, <3>3
        <5>3. \A a, b \in Int : a <= b => a <= b + 1
          OBVIOUS
        <5>4. pos' <= batchEnd' + 1
          BY <4>3, <5>2, <5>3
        <5> QED
          BY <5>1, <5>4
    <3> QED
      BY <3>1, <3>2, <3>4 DEF BatchInv
  <2>10. CASE HandleMessage
    <3>1. processed \in Nat /\ pos \in Nat /\ pos <= batchEnd /\ processed < pos
      BY <2>10 DEF HandleMessage, BatchInv, TypeOK
    <3>2. /\ pos' = pos + 1 /\ processed' = processed /\ batchEnd' = batchEnd
          /\ blocks' = blocks
      BY <2>10 DEF HandleMessage, Continue, chainVars, diskVars, memVars
    <3>3. Announced(processed + 1, pos - 1) \subseteq optimistic
      BY <2>10 DEF HandleMessage, BatchInv
    <3>4. Announced(processed + 1, pos)
            \subseteq Announced(processed + 1, pos - 1) \cup
              (IF blocks[pos].kind \in Messages THEN {blocks[pos].index - 1} ELSE {})
      BY <3>1 DEF Announced
    <3>5. Announced(processed + 1, pos - 1)' = Announced(processed + 1, pos)
      BY <3>1, <3>2 DEF Announced
    <3>6. Announced(processed + 1, pos) \subseteq optimistic'
      BY <2>10, <3>3, <3>4 DEF HandleMessage, AnnounceTx, chainVars, diskVars,
         memVars, Messages
    <3> QED
      BY <2>10, <3>1, <3>2, <3>5, <3>6 DEF HandleMessage, BatchInv, TypeOK
  <2>11. CASE HandleOther
    <3>1. processed \in Nat /\ pos \in Nat /\ pos <= batchEnd /\ processed < pos
      BY <2>11 DEF HandleOther, BatchInv, TypeOK
    <3>2. /\ pos' = pos + 1 /\ processed' = processed /\ batchEnd' = batchEnd
          /\ blocks' = blocks
      BY <2>11 DEF HandleOther, Continue, chainVars, diskVars, memVars
    <3>3. Announced(processed + 1, pos - 1) \subseteq optimistic
      BY <2>11 DEF HandleOther, BatchInv
    <3>4. Announced(processed + 1, pos)
            \subseteq Announced(processed + 1, pos - 1) \cup
              (IF blocks[pos].kind \in Messages THEN {blocks[pos].index - 1} ELSE {})
      BY <3>1 DEF Announced
    <3>5. Announced(processed + 1, pos - 1)' = Announced(processed + 1, pos)
      BY <3>1, <3>2 DEF Announced
    <3>6. Announced(processed + 1, pos) \subseteq optimistic'
      BY <2>11, <3>3, <3>4 DEF HandleOther, chainVars, diskVars, memVars, Messages
    <3> QED
      BY <2>11, <3>1, <3>2, <3>5, <3>6 DEF HandleOther, BatchInv, TypeOK
  <2>12. CASE PropagateRefused
    BY <2>12 DEF PropagateRefused, Throw, chainVars, diskVars, memVars, BatchInv
  <2>13. CASE Propagate
    <3>1. processed \in Nat /\ pos \in Nat /\ pos <= batchEnd /\ processed < pos
      BY <2>13 DEF Propagate, BatchInv, TypeOK
    <3>2. blocks[pos].kind \notin Messages
      BY <2>13 DEF Propagate, Messages
    <3>3. Announced(processed + 1, pos) \subseteq Announced(processed + 1, pos - 1)
      BY <3>1, <3>2 DEF Announced
    <3>4. Announced(processed + 1, pos) \subseteq optimistic
      BY <2>13, <3>3 DEF Propagate, BatchInv
    <3>5. CASE Throw
      BY <3>5 DEF Throw, BatchInv
    <3>6. CASE Continue
      <4>1. /\ pos' = pos + 1 /\ processed' = processed /\ batchEnd' = batchEnd
            /\ blocks' = blocks /\ optimistic' = optimistic
        BY <2>13, <3>6 DEF Propagate, Continue, chainVars, diskVars, memVars
      <4>2. Announced(processed + 1, pos - 1)' = Announced(processed + 1, pos)
        BY <3>1, <4>1 DEF Announced
      <4> QED
        BY <3>1, <3>4, <4>1, <4>2 DEF BatchInv, TypeOK
    <3> QED
      BY <2>13, <3>5, <3>6 DEF Propagate
  <2>14. CASE BatchDone
    BY <2>14 DEF BatchDone, chainVars, diskVars, memVars, BatchInv
  <2>15. CASE Restart
    BY <2>15 DEF Restart, chainVars, diskVars, memVars, BatchInv
  <2>16. CASE MineEmpty
    <3>1. CASE pc = "batch"
      <4>1. processed + 1 \in Nat /\ pos - 1 \in Int /\ pos - 1 <= Len(blocks)
        BY <3>1 DEF BatchInv, PositionsOK, TypeOK
      <4>2. PICK e : blocks' = Append(blocks, e)
        BY <2>16 DEF MineEmpty
      <4>3. Announced(processed + 1, pos - 1)' = Announced(processed + 1, pos - 1)
        <5>1. Announced(processed + 1, pos - 1)'
                = {blocks'[n].index - 1 : n \in {i \in (processed + 1)..(pos - 1) :
                     i \in DOMAIN blocks' /\ blocks'[i].kind \in Messages}}
          BY <2>16 DEF MineEmpty, chainVars, diskVars, memVars,
             Announced
        <5> QED
          BY <4>1, <4>2, <5>1, AnnouncedOfOld DEF Announced
      <4> QED
        BY <2>16, <3>1, <4>3 DEF MineEmpty, chainVars, diskVars, memVars, BatchInv
    <3>2. CASE pc # "batch"
      BY <2>16, <3>2 DEF MineEmpty, chainVars, diskVars, memVars,
         BatchInv
    <3> QED
      BY <3>1, <3>2
  <2>17. CASE MineRoot
    <3>1. CASE pc = "batch"
      <4>1. processed + 1 \in Nat /\ pos - 1 \in Int /\ pos - 1 <= Len(blocks)
        BY <3>1 DEF BatchInv, PositionsOK, TypeOK
      <4>2. PICK e : blocks' = Append(blocks, e)
        BY <2>17 DEF MineRoot
      <4>3. Announced(processed + 1, pos - 1)' = Announced(processed + 1, pos - 1)
        <5>1. Announced(processed + 1, pos - 1)'
                = {blocks'[n].index - 1 : n \in {i \in (processed + 1)..(pos - 1) :
                     i \in DOMAIN blocks' /\ blocks'[i].kind \in Messages}}
          BY <2>17 DEF MineRoot, chainVars, diskVars, memVars,
             Announced
        <5> QED
          BY <4>1, <4>2, <5>1, AnnouncedOfOld DEF Announced
      <4> QED
        BY <2>17, <3>1, <4>3 DEF MineRoot, chainVars, diskVars, memVars, BatchInv
    <3>2. CASE pc # "batch"
      BY <2>17, <3>2 DEF MineRoot, chainVars, diskVars, memVars,
         BatchInv
    <3> QED
      BY <3>1, <3>2
  <2>18. CASE StartFails
    BY <2>18 DEF StartFails, Mishap, Exit, chainVars, diskVars, memVars,
       BatchInv
  <2>19. CASE HandleFails
    BY <2>19 DEF HandleFails, Mishap, Throw, chainVars, diskVars, memVars,
       BatchInv
  <2>20. CASE Crash
    BY <2>20 DEF Crash, Mishap, Exit, chainVars, diskVars, memVars, BatchInv
  <2>21. CASE \E k \in Messages : MineMessage(k)
    <3> PICK k \in Messages : MineMessage(k)
      BY <2>21
    <3>1. CASE pc = "batch"
      <4>1. processed + 1 \in Nat /\ pos - 1 \in Int /\ pos - 1 <= Len(blocks)
        BY <3>1 DEF BatchInv, PositionsOK, TypeOK
      <4>2. PICK e : blocks' = Append(blocks, e)
        BY DEF MineMessage
      <4>3. Announced(processed + 1, pos - 1)' = Announced(processed + 1, pos - 1)
        <5>1. Announced(processed + 1, pos - 1)'
                = {blocks'[n].index - 1 : n \in {i \in (processed + 1)..(pos - 1) :
                     i \in DOMAIN blocks' /\ blocks'[i].kind \in Messages}}
          BY DEF MineMessage, chainVars, diskVars, memVars, Announced
        <5> QED
          BY <4>1, <4>2, <5>1, AnnouncedOfOld DEF Announced
      <4> QED
        BY <3>1, <4>3 DEF MineMessage, chainVars, diskVars, memVars,
           BatchInv
    <3>2. CASE pc # "batch"
      BY <3>2 DEF MineMessage, chainVars, diskVars, memVars, BatchInv
    <3> QED
      BY <3>1, <3>2
  <2>22. CASE UNCHANGED vars
    BY <2>22 DEF vars, chainVars, diskVars, memVars, BatchInv,
       Announced
  <2>23. CASE StartUnsynced
    BY <2>23 DEF StartUnsynced, BatchInv
  <2>24. CASE KilledConfirming \/ KilledPropagating
    BY <2>24 DEF KilledConfirming, KilledPropagating, Exit, BatchInv
  <2> QED
    BY <2>1, <2>2, <2>3, <2>4, <2>5, <2>6, <2>7, <2>8, <2>9, <2>10, <2>11,
       <2>12, <2>13, <2>14, <2>15, <2>16, <2>17, <2>18, <2>19, <2>20, <2>21,
       <2>22, <2>23, <2>24 DEF Next, Sync, Watch, Chain, Failure
<1> QED
  BY <1>1, <1>2, ShapeKept, PTL DEF Spec

(* The watcher saves a position only when every transaction up to it is in   *)
(* the tree, whatever failed before.                                         *)
THEOREM NothingSkipped == Spec => BatchComplete
<1> DEFINE A == pc = "batch" /\ processed' # 0 /\ processed' # processed =>
                  Announced(processed + 1, processed') \subseteq optimistic'
<1>1. Shape /\ BatchInv /\ [Next]_vars => [A]_vars
  <2> SUFFICES ASSUME Shape, BatchInv, Next, pc = "batch", processed' # 0,
                      processed' # processed
               PROVE  Announced(processed + 1, processed') \subseteq optimistic'
    OBVIOUS
  <2>1. BatchDone
    BY DEF Next, Sync, Watch, Chain, Failure, ReadHead, ReadIndex, SyncBlock,
       SyncCheck, WipeState, WipeOptimistic, ResetSyncPoint, WatcherInit, Poll,
       HandleMessage, HandleOther, PropagateRefused, Propagate, Restart,
       MineEmpty, MineRoot, StartFails, HandleFails, KilledConfirming, KilledPropagating, StartUnsynced, Crash,
       Mishap, MineMessage, Exit,
       Continue, Throw, chainVars, diskVars, memVars
  <2>2. processed' = pos - 1 /\ optimistic' = optimistic
    BY <2>1 DEF BatchDone, BatchInv, Shape, TypeOK
  <2> QED
    BY <2>2 DEF BatchInv
<1>2. [][Shape /\ BatchInv /\ [Next]_vars]_vars => [][A]_vars
  BY <1>1, PTL
<1> QED
  BY <1>1, ShapeKept, BatchKept, PTL DEF Spec, BatchComplete
-----------------------------------------------------------------------------
(* What the blocks up to b have announced.                                   *)
Upto(bs, b) ==
  {bs[n].index - 1 : n \in {k \in 1..b : k \in DOMAIN bs /\ bs[k].kind \in Messages}}

LEMMA UptoLess ==
  ASSUME NEW bs, NEW a \in Int, NEW b \in Int, a <= b
  PROVE  Upto(bs, a) \subseteq Upto(bs, b)
BY DEF Upto

LEMMA UptoNone ==
  ASSUME NEW bs, NEW b \in Int, b < 1
  PROVE  Upto(bs, b) = {}
BY DEF Upto

LEMMA UptoNext ==
  ASSUME NEW bs, NEW p \in Nat
  PROVE  Upto(bs, p) \subseteq Upto(bs, p - 1) \cup
           (IF bs[p].kind \in Messages THEN {bs[p].index - 1} ELSE {})
BY DEF Upto

LEMMA UptoOld ==
  ASSUME NEW bs \in Seq(Event), NEW e, NEW b \in Int, b <= Len(bs)
  PROVE  Upto(Append(bs, e), b) = Upto(bs, b)
<1>1. \A k \in 1..b : k \in DOMAIN Append(bs, e) <=> k \in DOMAIN bs
  OBVIOUS
<1>2. \A k \in 1..b : k \in DOMAIN bs => Append(bs, e)[k] = bs[k]
  OBVIOUS
<1> QED
  BY <1>1, <1>2 DEF Upto

LEMMA Appended ==
  ASSUME NEW bs \in Seq(Event), NEW e
  PROVE  /\ DOMAIN bs \subseteq DOMAIN Append(bs, e)
         /\ \A b \in DOMAIN bs : Append(bs, e)[b] = bs[b]
         /\ Append(bs, e)[Len(bs) + 1] = e
         /\ \A b \in DOMAIN Append(bs, e) : b \in DOMAIN bs \/ b = Len(bs) + 1
  OBVIOUS

(* Announcements are numbered from 1, the first one in the first block of    *)
(* any, and none shares its number with it.                                  *)
FirstMessage ==
  /\ messages = 0 => \A b \in DOMAIN blocks : blocks[b].kind \notin Messages
  /\ messages > 0 =>
       \E f \in DOMAIN blocks :
         /\ blocks[f].kind \in Messages /\ blocks[f].index = 1
         /\ \A b \in DOMAIN blocks \ {f} :
              blocks[b].kind \in Messages => f < b /\ blocks[b].index > 1

(* The blocks the process remembers are blocks of the chain, and what it has *)
(* confirmed the contract has.                                               *)
PlacesOK ==
  /\ lastConfirmedBlock <= Len(blocks) /\ savedBlock <= Len(blocks)
  /\ processed <= Len(blocks)
  /\ pc \in {"index", "sync", "init"} =>
       /\ savedBlock <= initBlock /\ initBlock <= Len(blocks)
       /\ lastConfirmedBlock <= initBlock /\ 1 <= initBlock
  /\ pc = "sync" =>
       lastConfirmedBlock <= pos /\ pos <= initBlock + 1 /\ contractIndex > 0
  /\ pc = "batch" => pos <= batchEnd + 1
  /\ lastConfirmedBlock > 0 => poolIndex > 0
  /\ \A i \in confirmed : i < poolIndex
  /\ \A b \in DOMAIN blocks : blocks[b].kind = "root" => poolIndex > 0
  /\ pc \in {"wipe", "wipeOptimistic"} => poolIndex > 0

(* A scan starts where nothing before it is missing, or it starts past the   *)
(* first transaction, lacks that one and never finds the contract's root.    *)
Behind(b) == Upto(blocks, b) \subseteq Known
Whole     == Behind(lastConfirmedBlock - 1)
Headless  == 0 \notin confirmed /\ 0 \in Upto(blocks, lastConfirmedBlock - 1)

HoleInv ==
  /\ Whole \/ Headless
  /\ pc \in Watching => Whole
  /\ pc = "sync" => Headless \/ Behind(pos - 1)
  /\ pc = "init" => Behind(WatchedUpTo(initBlock))
  /\ startBlock = 0 => Whole
  /\ pc \in {"idle", "batch"} => Behind(processed)
  /\ pc = "batch" => Behind(pos - 1)

(* The announcements of the chain are in order.                              *)
LEMMA FirstKept ==
  ASSUME Shape, Next, FirstMessage
  PROVE  FirstMessage'
<1> USE DEF Shape
<1>1. CASE ReadHead
  BY <1>1 DEF ReadHead, chainVars, FirstMessage
<1>2. CASE ReadIndex
  BY <1>2 DEF ReadIndex, chainVars, FirstMessage
<1>3. CASE SyncBlock
  BY <1>3 DEF SyncBlock, chainVars, FirstMessage
<1>4. CASE SyncCheck
  BY <1>4 DEF SyncCheck, chainVars, FirstMessage
<1>5. CASE WipeState
  BY <1>5 DEF WipeState, chainVars, FirstMessage
<1>6. CASE WipeOptimistic
  BY <1>6 DEF WipeOptimistic, chainVars, FirstMessage
<1>7. CASE ResetSyncPoint
  BY <1>7 DEF ResetSyncPoint, Exit, chainVars, FirstMessage
<1>8. CASE WatcherInit
  BY <1>8 DEF WatcherInit, chainVars, FirstMessage
<1>9. CASE Poll
  BY <1>9 DEF Poll, chainVars, FirstMessage
<1>10. CASE HandleMessage
  BY <1>10 DEF HandleMessage, chainVars, FirstMessage
<1>11. CASE HandleOther
  BY <1>11 DEF HandleOther, chainVars, FirstMessage
<1>12. CASE PropagateRefused
  BY <1>12 DEF PropagateRefused, chainVars, FirstMessage
<1>13. CASE Propagate
  BY <1>13 DEF Propagate, chainVars, FirstMessage
<1>14. CASE BatchDone
  BY <1>14 DEF BatchDone, chainVars, FirstMessage
<1>15. CASE Restart
  BY <1>15 DEF Restart, chainVars, FirstMessage
<1>16. CASE MineEmpty
  <2>1. blocks' = Append(blocks, [kind |-> "empty", index |-> 0]) /\ messages' = messages
    BY <1>16 DEF MineEmpty
  <2> QED
    BY <2>1 DEF FirstMessage, TypeOK, Messages
<1>17. CASE MineRoot
  <2>1. /\ blocks' = Append(blocks, [kind |-> "root", index |-> poolIndex + 1])
        /\ messages' = messages
    BY <1>17 DEF MineRoot
  <2> QED
    BY <2>1 DEF FirstMessage, TypeOK, Messages
<1>18. CASE StartFails
  BY <1>18 DEF StartFails, Exit, chainVars, FirstMessage
<1>19. CASE HandleFails
  BY <1>19 DEF HandleFails, chainVars, FirstMessage
<1>20. CASE Crash
  BY <1>20 DEF Crash, Exit, chainVars, FirstMessage
<1>21. CASE \E k \in Messages : MineMessage(k)
  <2>1. PICK k \in Messages : MineMessage(k)
    BY <1>21
  <2>2. blocks' = Append(blocks, [kind |-> k, index |-> messages + 1]) /\ messages' = messages + 1
    BY <2>1 DEF MineMessage
  <2>3. blocks \in Seq(Event) /\ messages \in Nat
    BY DEF TypeOK
  <2>4. /\ DOMAIN blocks' = 1..(Len(blocks) + 1) /\ DOMAIN blocks = 1..Len(blocks)
        /\ \A b \in DOMAIN blocks : blocks'[b] = blocks[b]
        /\ blocks'[Len(blocks) + 1] = [kind |-> k, index |-> messages + 1]
    BY <2>2, <2>3
  <2>5. CASE messages = 0
    <3>1. /\ blocks'[Len(blocks) + 1].kind \in Messages
          /\ blocks'[Len(blocks) + 1].index = 1
      BY <2>4, <2>5
    <3>2. \A b \in DOMAIN blocks' \ {Len(blocks) + 1} : blocks'[b].kind \notin Messages
      BY <2>3, <2>4, <2>5 DEF FirstMessage
    <3>3. Len(blocks) + 1 \in DOMAIN blocks'
      BY <2>3, <2>4
    <3> QED
      BY <2>2, <2>5, <3>1, <3>2, <3>3 DEF FirstMessage
  <2>6. CASE messages > 0
    <3>1. PICK f \in DOMAIN blocks :
            /\ blocks[f].kind \in Messages /\ blocks[f].index = 1
            /\ \A b \in DOMAIN blocks \ {f} :
                 blocks[b].kind \in Messages => f < b /\ blocks[b].index > 1
      BY <2>6 DEF FirstMessage
    <3>2. /\ f \in DOMAIN blocks'
          /\ blocks'[f].kind \in Messages /\ blocks'[f].index = 1
      BY <2>3, <2>4, <3>1
    <3>3. ASSUME NEW b \in DOMAIN blocks' \ {f}, blocks'[b].kind \in Messages
          PROVE  f < b /\ blocks'[b].index > 1
      <4>1. CASE b = Len(blocks) + 1
        <5>1. blocks'[b].index = messages + 1
          BY <2>4, <4>1
        <5> QED
          BY <2>3, <2>4, <2>6, <3>1, <4>1, <5>1
      <4>2. CASE b # Len(blocks) + 1
        <5>1. b \in DOMAIN blocks \ {f} /\ blocks'[b] = blocks[b]
          BY <2>3, <2>4, <3>3, <4>2
        <5> QED
          BY <3>1, <3>3, <5>1
      <4> QED
        BY <4>1, <4>2
    <3> QED
      BY <2>2, <2>3, <2>6, <3>2, <3>3 DEF FirstMessage
  <2> QED
    BY <2>3, <2>5, <2>6
<1>23. CASE StartUnsynced
  BY <1>23 DEF StartUnsynced, chainVars, FirstMessage
<1>24. CASE KilledConfirming \/ KilledPropagating
  BY <1>24 DEF KilledConfirming, KilledPropagating, chainVars, FirstMessage
<1> QED
  BY <1>1, <1>2, <1>3, <1>4, <1>5, <1>6, <1>7, <1>8, <1>9, <1>10, <1>11,
     <1>12, <1>13, <1>14, <1>15, <1>16, <1>17, <1>18, <1>19, <1>20, <1>21, <1>23, <1>24 DEF
     Next, Sync, Watch, Chain, Failure

(* The positions stay where they belong.                                     *)
LEMMA PlacesKept ==
  ASSUME Shape, Shape', Next, PlacesOK
  PROVE  PlacesOK'
<1> USE DEF Shape, PlacesOK
<1>1. CASE ReadHead
  BY <1>1 DEF ReadHead, chainVars, diskVars, memVars, TypeOK, PositionsOK
<1>2. CASE ReadIndex
  <2>1. poolIndex > 0 \/ confirmed = Prefix(poolIndex)
    <3>1. poolIndex = 0 => confirmed = {}
      BY DEF TypeOK
    <3>2. Prefix(0) = {}
      BY DEF Prefix
    <3>3. poolIndex \in Nat
      BY DEF TypeOK
    <3>4. CASE poolIndex = 0
      BY <3>1, <3>2, <3>4
    <3> QED
      BY <3>3, <3>4
  <2>2. pc = "index" /\ contractIndex' = poolIndex
    BY <1>2 DEF ReadIndex
  <2>3. pc' = "sync" => pos' = SyncFrom /\ poolIndex > 0
    BY <1>2, <2>1 DEF ReadIndex, RootIs
  <2>4. pc' = "wipe" => poolIndex > 0
    BY <1>2, <2>1 DEF ReadIndex, RootIs
  <2>5. pc' \in {"init", "sync", "wipe"}
    BY <1>2 DEF ReadIndex
  <2> QED
    BY <1>2, <2>2, <2>3, <2>4, <2>5 DEF ReadIndex, SyncFrom, Greater, TypeOK,
       PositionsOK, chainVars, diskVars, memVars
<1>3. CASE SyncBlock
  <2>1. pos \in DOMAIN blocks /\ blocks[pos] \in Event
    <3>1. pc = "sync" /\ pos <= initBlock
      BY <1>3 DEF SyncBlock
    <3>2. blocks \in Seq(Event) /\ pos \in Nat /\ initBlock \in Nat
      BY DEF TypeOK
    <3>3. pos >= 1 /\ initBlock <= Len(blocks)
      BY <3>1 DEF PositionsOK
    <3>4. pos \in 1..Len(blocks)
      BY <3>1, <3>2, <3>3
    <3> QED
      BY <3>2, <3>4
  <2> DEFINE e == blocks[pos]
  <2>2. e.index \in Nat /\ (e.kind \in Messages => e.index >= 1)
    BY <2>1 DEF Event, EventsOK
  <2>3. lastConfirmedBlock' \in {lastConfirmedBlock, Greater(lastConfirmedBlock, pos)}
    BY <1>3 DEF SyncBlock, ConfirmTx, AnnounceTx
  <2>4. confirmed' = confirmed \/ (e.index <= contractIndex /\ e.kind \in Messages
                                     /\ confirmed' = confirmed \cup {e.index - 1})
    BY <1>3 DEF SyncBlock, ConfirmTx, AnnounceTx, InContract
  <2>5. contractIndex \in Nat /\ poolIndex \in Nat /\ contractIndex <= poolIndex
        /\ contractIndex > 0
    BY <1>3 DEF SyncBlock, TypeOK, PositionsOK
  <2>6. (\A i \in confirmed : i < poolIndex)'
    BY <1>3, <2>2, <2>4, <2>5 DEF SyncBlock, chainVars
  <2>7. lastConfirmedBlock' <= pos /\ lastConfirmedBlock' <= Len(blocks)
    <3>1. pos \in Nat /\ lastConfirmedBlock \in Nat /\ Len(blocks) \in Nat
      BY DEF TypeOK
    <3>2. pos <= Len(blocks) /\ lastConfirmedBlock <= pos
      BY <1>3, <2>1 DEF SyncBlock, TypeOK
    <3>3. Greater(lastConfirmedBlock, pos) = pos
      BY <3>1, <3>2 DEF Greater
    <3>4. Len(blocks') = Len(blocks) /\ lastConfirmedBlock' \in {lastConfirmedBlock, pos}
      BY <1>3, <2>3, <3>3 DEF SyncBlock, chainVars
    <3> QED
      BY <3>1, <3>2, <3>4
  <2> QED
    BY <1>3, <2>1, <2>3, <2>5, <2>6, <2>7 DEF SyncBlock, Greater, TypeOK, chainVars
<1>4. CASE SyncCheck
  BY <1>4 DEF SyncCheck, SyncFrom, Greater, chainVars, diskVars,
     memVars, TypeOK, PositionsOK
<1>5. CASE WipeState
  BY <1>5 DEF WipeState, chainVars, diskVars, memVars, TypeOK, PositionsOK
<1>6. CASE WipeOptimistic
  BY <1>6 DEF WipeOptimistic, chainVars, diskVars, memVars, TypeOK,
     PositionsOK
<1>7. CASE ResetSyncPoint
  BY <1>7 DEF ResetSyncPoint, Exit, chainVars, diskVars, memVars, TypeOK,
     PositionsOK
<1>8. CASE WatcherInit
  BY <1>8 DEF WatcherInit, WatchedUpTo, chainVars, diskVars, memVars, TypeOK,
     PositionsOK
<1>9. CASE Poll
  BY <1>9 DEF Poll, Lesser, chainVars, diskVars, memVars, TypeOK, PositionsOK
<1>10. CASE HandleMessage
  BY <1>10 DEF HandleMessage, AnnounceTx, Continue, chainVars, diskVars,
     memVars, TypeOK, PositionsOK
<1>11. CASE HandleOther
  BY <1>11 DEF HandleOther, Continue, chainVars, diskVars, memVars, TypeOK,
     PositionsOK
<1>12. CASE PropagateRefused
  BY <1>12 DEF PropagateRefused, Throw, chainVars, diskVars, memVars, TypeOK,
     PositionsOK
<1>13. CASE Propagate
  <2>0. blocks \in Seq(Event) /\ pos \in 1..Len(blocks)
    <3>1. pc = "batch" /\ pos <= batchEnd
      BY <1>13 DEF Propagate
    <3> QED
      BY <3>1 DEF TypeOK, PositionsOK
  <2>1. pos \in DOMAIN blocks /\ blocks[pos] \in Event
    BY <2>0
  <2> DEFINE n == blocks[pos].index
  <2>2. n \in Nat /\ n <= poolIndex
    BY <1>13, <2>1 DEF Propagate, Event, EventsOK
  <2>3. confirmed' = confirmed \cup Movable(n) /\ Movable(n) \subseteq 0..(n - 1)
    BY <1>13 DEF Propagate, Movable, ToPropagate, Prefix
  <2>4. (\A i \in confirmed : i < poolIndex)'
    <3>1. poolIndex' = poolIndex /\ poolIndex \in Nat
      BY <1>13 DEF Propagate, chainVars, TypeOK
    <3>2. \A i \in Movable(n) : i < poolIndex
      BY <2>2, <2>3, <3>1
    <3> QED
      BY <2>3, <3>1, <3>2
  <2>5. lastConfirmedBlock' \in {lastConfirmedBlock, Greater(lastConfirmedBlock, pos)}
    BY <1>13 DEF Propagate
  <2>6. lastConfirmedBlock' <= Len(blocks)
    <3>1. pos \in Nat /\ lastConfirmedBlock \in Nat /\ Len(blocks) \in Nat
      BY <2>0 DEF TypeOK
    <3>2. pos <= Len(blocks) /\ lastConfirmedBlock <= Len(blocks)
      BY <2>0, <3>1
    <3>3. Greater(lastConfirmedBlock, pos) <= Len(blocks)
      BY <3>1, <3>2 DEF Greater
    <3> QED
      BY <2>5, <3>2, <3>3
  <2>7. n = 0 => Movable(n) = {}
    BY <2>3
  <2>8. lastConfirmedBlock' > 0 => poolIndex > 0
    BY <2>1, <1>13 DEF Propagate, chainVars, TypeOK
  <2> QED
    <3>1. pc = "batch" /\ pc' \in {"batch", "idle"} /\ pos <= batchEnd
      BY <1>13 DEF Propagate, Continue, Throw
    <3>2. pc' = "batch" => pos' = pos + 1 /\ batchEnd' = batchEnd
      BY <1>13 DEF Propagate, Continue, Throw
    <3>3. (pc = "batch" => pos <= batchEnd + 1)'
      <4>1. pos \in Nat /\ batchEnd \in Nat
        BY DEF TypeOK
      <4> QED
        BY <3>1, <3>2, <4>1
    <3>4. blocks' = blocks /\ poolIndex' = poolIndex /\ savedBlock' = savedBlock /\ processed' = processed
      BY <1>13 DEF Propagate, chainVars
    <3> QED
      BY <2>4, <2>6, <2>8, <3>1, <3>3, <3>4
<1>14. CASE BatchDone
  BY <1>14 DEF BatchDone, chainVars, diskVars, memVars, TypeOK, PositionsOK
<1>15. CASE Restart
  BY <1>15 DEF Restart, chainVars, diskVars, memVars, TypeOK, PositionsOK
<1>16. CASE MineEmpty
  <2>1. Len(blocks') = Len(blocks) + 1 /\ poolIndex' >= poolIndex
    BY <1>16 DEF MineEmpty, TypeOK, chainVars
  <2>2. (\A b \in DOMAIN blocks : blocks[b].kind = "root" => poolIndex > 0)'
    <3>1. blocks' = Append(blocks, [kind |-> "empty", index |-> 0])
      BY <1>16 DEF MineEmpty
    <3>2. \A b \in DOMAIN blocks' : blocks'[b].kind = "root" => b \in DOMAIN blocks /\ blocks'[b] = blocks[b]
      <4>1. blocks \in Seq(Event)
        BY DEF TypeOK
      <4> QED
        BY <3>1, <4>1, Appended
    <3> QED
      BY <1>16, <3>2 DEF MineEmpty, TypeOK
  <2> QED
    BY <1>16, <2>1, <2>2 DEF MineEmpty, diskVars, memVars, TypeOK
<1>17. CASE MineRoot
  <2>1. Len(blocks') = Len(blocks) + 1 /\ poolIndex' >= poolIndex
    BY <1>17 DEF MineRoot, TypeOK, chainVars
  <2>2. (\A b \in DOMAIN blocks : blocks[b].kind = "root" => poolIndex > 0)'
    BY <1>17 DEF MineRoot, TypeOK
  <2> QED
    BY <1>17, <2>1, <2>2 DEF MineRoot, diskVars, memVars, TypeOK
<1>18. CASE StartFails
  BY <1>18 DEF StartFails, Mishap, Exit, chainVars, diskVars, memVars, TypeOK,
     PositionsOK
<1>19. CASE HandleFails
  BY <1>19 DEF HandleFails, Mishap, Throw, chainVars, diskVars, memVars,
     TypeOK, PositionsOK
<1>20. CASE Crash
  BY <1>20 DEF Crash, Mishap, Exit, chainVars, diskVars, memVars, TypeOK,
     PositionsOK
<1>21. CASE \E k \in Messages : MineMessage(k)
  <2>1. Len(blocks') = Len(blocks) + 1 /\ poolIndex' >= poolIndex
    BY <1>21 DEF MineMessage, TypeOK, chainVars
  <2>2. (\A b \in DOMAIN blocks : blocks[b].kind = "root" => poolIndex > 0)'
    <3>1. PICK k \in Messages : MineMessage(k)
      BY <1>21
    <3>2. blocks' = Append(blocks, [kind |-> k, index |-> messages + 1])
      BY <3>1 DEF MineMessage
    <3>3. \A b \in DOMAIN blocks' : blocks'[b].kind = "root" => b \in DOMAIN blocks /\ blocks'[b] = blocks[b]
      <4>1. blocks \in Seq(Event) /\ k # "root"
        BY DEF TypeOK, Messages
      <4> QED
        BY <3>2, <4>1, Appended
    <3> QED
      BY <3>1, <3>3 DEF MineMessage, TypeOK
  <2> QED
    BY <1>21, <2>1, <2>2 DEF MineMessage, diskVars, memVars, TypeOK
<1>23. CASE StartUnsynced
  <2>1. Len(blocks) >= 1 /\ Len(blocks) \in Nat
    BY <1>23 DEF StartUnsynced, TypeOK
  <2> QED
    BY <1>23, <2>1 DEF StartUnsynced, chainVars, diskVars, TypeOK, PositionsOK
<1>24. CASE KilledConfirming
  <2>1. pos \in DOMAIN blocks /\ blocks[pos] \in Event
    <3>1. pc = "sync" /\ pos <= initBlock
      BY <1>24 DEF KilledConfirming
    <3>2. blocks \in Seq(Event) /\ pos \in Nat /\ initBlock \in Nat /\ batchEnd \in Nat
      BY DEF TypeOK
    <3>3. pos \in DOMAIN blocks
      BY <3>1, <3>2 DEF PositionsOK
    <3> QED
      BY <3>2, <3>3
  <2>2. blocks[pos].index \in Nat /\ blocks[pos].index <= contractIndex
    BY <1>24, <2>1 DEF KilledConfirming, InContract, Event
  <2>3. contractIndex <= poolIndex /\ contractIndex \in Nat /\ poolIndex \in Nat
    BY DEF PositionsOK, TypeOK
  <2>4. blocks[pos].index - 1 < poolIndex
    BY <2>2, <2>3
  <2>5. (\A i \in confirmed : i < poolIndex)'
    BY <1>24, <2>4 DEF KilledConfirming, chainVars
  <2> QED
    BY <1>24, <2>5 DEF KilledConfirming, Exit, chainVars, TypeOK
<1>25. CASE KilledPropagating
  <2>1. pos \in DOMAIN blocks /\ blocks[pos] \in Event
    <3>1. pc = "batch" /\ pos <= batchEnd
      BY <1>25 DEF KilledPropagating
    <3>2. blocks \in Seq(Event) /\ pos \in Nat /\ initBlock \in Nat /\ batchEnd \in Nat
      BY DEF TypeOK
    <3>3. pos \in DOMAIN blocks
      BY <3>1, <3>2 DEF PositionsOK
    <3> QED
      BY <3>2, <3>3
  <2> DEFINE n == blocks[pos].index
  <2>2. n \in Nat /\ n <= poolIndex
    BY <1>25, <2>1 DEF KilledPropagating, Event, EventsOK
  <2>3. confirmed' \subseteq confirmed \cup 0..(n - 1)
    BY <1>25 DEF KilledPropagating, Movable, ToPropagate, Prefix
  <2>4. (\A i \in confirmed : i < poolIndex)'
    <3>1. poolIndex' = poolIndex /\ poolIndex \in Nat
      BY <1>25 DEF KilledPropagating, chainVars, TypeOK
    <3>2. \A i \in 0..(n - 1) : i < poolIndex
      BY <2>2, <3>1
    <3> QED
      BY <2>3, <3>1, <3>2
  <2> QED
    BY <1>25, <2>4 DEF KilledPropagating, Exit, chainVars, TypeOK
<1> QED
  BY <1>1, <1>2, <1>3, <1>4, <1>5, <1>6, <1>7, <1>8, <1>9, <1>10, <1>11,
     <1>12, <1>13, <1>14, <1>15, <1>16, <1>17, <1>18, <1>19, <1>20, <1>21, <1>23, <1>24, <1>25 DEF
     Next, Sync, Watch, Chain, Failure

(* The start block is the same for ever.                                     *)
LEMMA StartBlockSame == Next => startBlock' = startBlock
<1>1. Sync => startBlock' = startBlock
  BY DEF Sync, StartUnsynced, ReadHead, ReadIndex, SyncBlock, SyncCheck, WipeState,
     WipeOptimistic, ResetSyncPoint, chainVars
<1>2. Watch => startBlock' = startBlock
  BY DEF Watch, WatcherInit, Poll, HandleMessage, HandleOther, PropagateRefused,
     Propagate, BatchDone, chainVars
<1>3. Chain \/ Failure \/ Restart => startBlock' = startBlock
  BY DEF Chain, MineEmpty, MineRoot, MineMessage, Failure, StartFails, HandleFails,
     KilledConfirming, KilledPropagating, Crash, Restart, chainVars
<1> QED
  BY <1>1, <1>2, <1>3 DEF Next

(* A new block takes nothing from what is behind.                            *)
LEMMA ChainHole ==
  ASSUME Shape, PlacesOK, HoleInv, NEW e, blocks' = Append(blocks, e),
         UNCHANGED <<startBlock, diskVars, pc, memVars>>, skipped' = skipped
  PROVE  HoleInv'
<1>1. /\ blocks \in Seq(Event) /\ Len(blocks) \in Nat /\ lastConfirmedBlock \in Nat
      /\ pos \in Nat /\ processed \in Nat /\ batchEnd \in Nat /\ savedBlock \in Nat
      /\ initBlock \in Nat
  BY DEF Shape, TypeOK
<1>2. Upto(blocks', lastConfirmedBlock - 1) = Upto(blocks, lastConfirmedBlock - 1)
  BY <1>1, UptoOld DEF PlacesOK
<1>4. pc \in {"idle", "batch"} => Upto(blocks', processed) = Upto(blocks, processed)
  BY <1>1, UptoOld DEF PlacesOK
<1>5. pc = "batch" => Upto(blocks', pos - 1) = Upto(blocks, pos - 1)
  <2>1. pc = "batch" => pos - 1 <= Len(blocks)
    BY <1>1 DEF PlacesOK, Shape, PositionsOK
  <2> QED
    BY <1>1, <2>1, UptoOld
<1>6. pc = "sync" => Upto(blocks', pos - 1) = Upto(blocks, pos - 1)
  <2>1. pc = "sync" => pos - 1 <= Len(blocks)
    BY <1>1 DEF PlacesOK
  <2> QED
    BY <1>1, <2>1, UptoOld
<1>7. pc = "init" => Upto(blocks', WatchedUpTo(initBlock)) = Upto(blocks, WatchedUpTo(initBlock))
  <2>1. pc = "init" => WatchedUpTo(initBlock) <= Len(blocks) /\ WatchedUpTo(initBlock) \in Int
    BY <1>1 DEF PlacesOK, WatchedUpTo
  <2> QED
    BY <1>1, <2>1, UptoOld
<1> QED
  BY <1>2, <1>4, <1>5, <1>6, <1>7 DEF HoleInv, Whole, Headless, Behind, Known,
     WatchedUpTo, diskVars, memVars

(* A scan that starts past the first transaction does not meet it.           *)
LEMMA ScanIsPastFirst ==
  ASSUME Shape, FirstMessage, Headless, pos \in DOMAIN blocks, lastConfirmedBlock <= pos,
         blocks[pos].kind \in Messages
  PROVE  blocks[pos].index # 1
<1>0. /\ blocks \in Seq(Event) /\ lastConfirmedBlock \in Nat /\ pos \in Nat
      /\ messages \in Nat
  BY DEF Shape, TypeOK
<1>1. PICK k \in 1..(lastConfirmedBlock - 1) :
        k \in DOMAIN blocks /\ blocks[k].kind \in Messages /\ blocks[k].index - 1 = 0
  BY DEF Headless, Upto
<1>2. blocks[k] \in Event /\ k < pos
  BY <1>0, <1>1
<1>3. blocks[k].index = 1
  BY <1>1, <1>2 DEF Event
<1>4. messages > 0
  BY <1>0, <1>1 DEF FirstMessage
<1> QED
  BY <1>0, <1>1, <1>2, <1>3, <1>4 DEF FirstMessage

(* Each step leaves nothing more behind.                                     *)
LEMMA HoleKept ==
  ASSUME Shape, Shape', ServedInv, FirstMessage, PlacesOK, HoleInv, Next
  PROVE  HoleInv'
<1> DEFINE Same == blocks' = blocks /\ Known \subseteq Known'
<1>0. ASSUME Same, NEW b \in Int, Behind(b) PROVE Upto(blocks', b) \subseteq Known'
  BY <1>0 DEF Behind
<1>p. /\ pos \in Nat /\ batchEnd \in Nat /\ processed \in Nat /\ initBlock \in Nat
      /\ savedBlock \in Nat /\ lastConfirmedBlock \in Nat /\ contractIndex \in Nat
      /\ poolIndex \in Nat /\ blocks \in Seq(Event) /\ Len(blocks) \in Nat
  BY DEF Shape, TypeOK
<1>s. startBlock' = startBlock /\ (startBlock = 0 => pc \in {"start", "down"} \cup Watching)
  BY StartBlockSame DEF Shape, PositionsOK
<1>1. CASE ReadHead
  BY <1>1, <1>p DEF ReadHead, chainVars, diskVars, memVars, HoleInv, Whole,
     Headless, Behind, Known, auxVars, WatchedUpTo, Watching
<1>2. CASE ReadIndex
  <2>1. /\ blocks' = blocks /\ optimistic' = optimistic /\ confirmed' = confirmed
        /\ lastConfirmedBlock' = lastConfirmedBlock /\ savedBlock' = savedBlock
        /\ initBlock' = initBlock /\ pc = "index"
    BY <1>2 DEF ReadIndex, chainVars, diskVars
  <2>2. skipped \subseteq skipped'
    BY <1>2 DEF ReadIndex
  <2>3. (Whole => Whole') /\ (Headless => Headless')
    BY <2>1, <2>2 DEF Whole, Headless, Behind, Known
  <2>4. CASE pc' = "init"
    <3>1. confirmed = Prefix(poolIndex)
      BY <1>2, <2>4 DEF ReadIndex, RootIs
    <3>2. poolIndex > 0 => 0 \in confirmed
      BY <1>p, <3>1 DEF Prefix
    <3>3. poolIndex = 0 => Whole
      <4>1. poolIndex = 0 => lastConfirmedBlock - 1 < 1
        BY <1>p DEF PlacesOK
      <4> QED
        BY <1>p, <4>1, UptoNone DEF Whole, Behind
    <3>4. Whole
      BY <1>p, <3>2, <3>3 DEF HoleInv, Headless
    <3>5. Behind(WatchedUpTo(initBlock))'
      <4>1. skipped' = skipped \cup (Announced(1, WatchedUpTo(initBlock)) \ optimistic)
        BY <1>2, <2>4 DEF ReadIndex, Missed
      <4>2. Announced(1, WatchedUpTo(initBlock)) = Upto(blocks, WatchedUpTo(initBlock))
        BY DEF Announced, Upto
      <4>3. WatchedUpTo(initBlock)' = WatchedUpTo(initBlock)
        BY <2>1 DEF WatchedUpTo
      <4> QED
        BY <2>1, <4>1, <4>2, <4>3 DEF Behind, Known
    <3> QED
      BY <2>3, <2>4, <3>4, <3>5 DEF HoleInv
  <2>5. CASE pc' = "sync"
    <3>1. pos' = SyncFrom
      BY <1>2, <2>5 DEF ReadIndex
    <3>2. Whole => Behind(pos' - 1)
      <4>1. CASE SyncFrom = lastConfirmedBlock
        BY <3>1, <4>1 DEF Whole
      <4>2. CASE SyncFrom = 1
        BY <3>1, <4>2, UptoNone DEF Behind
      <4>3. startBlock = 1
        BY <2>1 DEF Shape, PositionsOK, TypeOK, Watching
      <4> QED
        BY <4>1, <4>2, <4>3 DEF SyncFrom, Greater
    <3>3. Headless' \/ Behind(pos - 1)'
      BY <2>1, <2>2, <2>3, <3>2 DEF HoleInv, Behind, Known
    <3> QED
      BY <1>s, <2>1, <2>3, <2>5, <3>3 DEF HoleInv, Watching
  <2>6. CASE pc' = "wipe"
    BY <1>s, <2>1, <2>3, <2>6 DEF HoleInv, Watching
  <2> QED
    BY <1>2, <2>4, <2>5, <2>6 DEF ReadIndex
<1>3. CASE SyncBlock
  <2>0. blocks \in Seq(Event) /\ pos \in DOMAIN blocks /\ pc = "sync" /\ pc' = "sync"
    BY <1>3 DEF SyncBlock, Shape, TypeOK, PositionsOK
  <2> DEFINE e == blocks[pos]
  <2>1. e \in Event
    BY <2>0
  <2>2. /\ blocks' = blocks /\ skipped' = skipped /\ pos' = pos + 1
        /\ lastConfirmedBlock' \in {lastConfirmedBlock, Greater(lastConfirmedBlock, pos)}
        /\ optimistic \subseteq optimistic'
        /\ e.kind \in Messages => e.index - 1 \in optimistic'
        /\ confirmed' \subseteq confirmed \cup
             (IF e.kind \in Messages THEN {e.index - 1} ELSE {})
    BY <1>3, <2>0 DEF SyncBlock, ConfirmTx, AnnounceTx, auxVars, chainVars
  <2>3. lastConfirmedBlock' \in {lastConfirmedBlock, pos} /\ lastConfirmedBlock <= pos
        /\ lastConfirmedBlock <= lastConfirmedBlock' /\ lastConfirmedBlock' <= pos
    BY <1>p, <2>0, <2>2 DEF Greater, PlacesOK
  <2>4. CASE Headless
    <3>1. 0 \in Upto(blocks, lastConfirmedBlock' - 1)
      <4>1. Upto(blocks, lastConfirmedBlock - 1) \subseteq Upto(blocks, lastConfirmedBlock' - 1)
        BY <1>p, <2>3, UptoLess
      <4> QED
        BY <2>4, <4>1 DEF Headless
    <3>2. e.kind \in Messages => e.index # 1
      BY <2>0, <2>3, <2>4, ScanIsPastFirst
    <3>3. 0 \notin confirmed'
      BY <2>1, <2>2, <2>4, <3>2 DEF Headless, Event
    <3> QED
      BY <1>s, <2>0, <2>2, <3>1, <3>3 DEF HoleInv, Headless, Watching
  <2>5. CASE ~Headless
    <3>1. Behind(pos - 1) /\ Whole
      BY <2>0, <2>5 DEF HoleInv
    <3>2. Upto(blocks, pos) \subseteq Known'
      <4>1. Upto(blocks, pos) \subseteq Upto(blocks, pos - 1) \cup
              (IF e.kind \in Messages THEN {e.index - 1} ELSE {})
        BY <1>p, UptoNext
      <4> QED
        BY <2>2, <3>1, <4>1 DEF Behind, Known
    <3>3. Upto(blocks, lastConfirmedBlock' - 1) \subseteq Known'
      <4>1. Upto(blocks, lastConfirmedBlock' - 1) \subseteq Upto(blocks, pos - 1)
        BY <1>p, <2>3, UptoLess
      <4> QED
        BY <2>2, <3>1, <4>1 DEF Behind, Known
    <3>4. Upto(blocks, pos' - 1) = Upto(blocks, pos)
      <4>1. pos' - 1 = pos
        BY <1>p, <2>2
      <4> QED
        BY <4>1
    <3> QED
      BY <2>0, <2>2, <3>2, <3>3, <3>4 DEF HoleInv, Whole, Behind, Watching
  <2> QED
    BY <2>4, <2>5
<1>4. CASE SyncCheck
  <2>1. /\ blocks' = blocks /\ optimistic' = optimistic /\ confirmed' = confirmed
        /\ lastConfirmedBlock' = lastConfirmedBlock /\ savedBlock' = savedBlock
        /\ initBlock' = initBlock /\ skipped' = skipped /\ pc = "sync" /\ pos > initBlock
    BY <1>4 DEF SyncCheck, chainVars, diskVars, auxVars
  <2>2. (Whole => Whole') /\ (Headless => Headless')
    BY <2>1 DEF Whole, Headless, Behind, Known
  <2>4. CASE pc' = "init"
    <3>1. confirmed = Prefix(contractIndex)
      BY <1>4, <2>4 DEF SyncCheck, RootIs
    <3>2. 0 \in confirmed
      BY <1>p, <2>1, <3>1 DEF Prefix, PlacesOK
    <3>3. Whole /\ Behind(pos - 1)
      BY <2>1, <3>2 DEF HoleInv, Headless
    <3>4. WatchedUpTo(initBlock) <= pos - 1 /\ WatchedUpTo(initBlock) \in Int
      BY <1>p, <2>1 DEF WatchedUpTo, PlacesOK
    <3>5. Upto(blocks, WatchedUpTo(initBlock)) \subseteq Upto(blocks, pos - 1)
      BY <1>p, <3>4, UptoLess
    <3>6. WatchedUpTo(initBlock)' = WatchedUpTo(initBlock)
      BY <2>1 DEF WatchedUpTo
    <3> QED
      BY <2>1, <2>2, <2>4, <3>3, <3>5, <3>6 DEF HoleInv, Behind, Known
  <2>5. CASE pc' = "sync"
    <3>1. pos' = SyncFrom
      BY <1>4, <2>1, <2>5 DEF SyncCheck
    <3>2. Whole => Behind(pos' - 1)
      <4>1. CASE SyncFrom = lastConfirmedBlock
        BY <3>1, <4>1 DEF Whole
      <4>2. CASE SyncFrom = 1
        BY <3>1, <4>2, UptoNone DEF Behind
      <4>3. startBlock = 1
        BY <2>1 DEF Shape, PositionsOK, TypeOK, Watching
      <4> QED
        BY <4>1, <4>2, <4>3 DEF SyncFrom, Greater
    <3>3. Headless' \/ Behind(pos - 1)'
      BY <2>1, <2>2, <3>2 DEF HoleInv, Behind, Known
    <3> QED
      BY <1>s, <2>1, <2>2, <2>5, <3>3 DEF HoleInv, Watching
  <2>6. CASE pc' = "wipe"
    BY <1>s, <2>1, <2>2, <2>6 DEF HoleInv, Watching
  <2> QED
    BY <1>4, <2>1, <2>4, <2>5, <2>6 DEF SyncCheck
<1>5. CASE WipeState
  <2>1. /\ blocks' = blocks /\ optimistic' = optimistic /\ skipped' = skipped
        /\ lastConfirmedBlock' = lastConfirmedBlock /\ confirmed' = {}
        /\ pc = "wipe" /\ pc' = "wipeOptimistic"
    BY <1>5 DEF WipeState, chainVars, auxVars
  <2> QED
    BY <1>s, <2>1 DEF HoleInv, Whole, Headless, Behind, Known, Watching
<1>6. CASE WipeOptimistic
  <2>1. /\ blocks' = blocks /\ optimistic' = {} /\ skipped' = {} /\ pc' = "reset"
        /\ lastConfirmedBlock' = lastConfirmedBlock /\ confirmed' = confirmed
        /\ confirmed = {} /\ pc = "wipeOptimistic"
    BY <1>6 DEF WipeOptimistic, chainVars, auxVars, ServedInv
  <2>2. CASE Upto(blocks, lastConfirmedBlock - 1) = {}
    BY <2>1, <2>2 DEF HoleInv, Whole, Behind, Known, Watching
  <2>3. CASE Upto(blocks, lastConfirmedBlock - 1) # {}
    <3>1. PICK n \in 1..(lastConfirmedBlock - 1) :
            n \in DOMAIN blocks /\ blocks[n].kind \in Messages
      BY <2>3 DEF Upto
    <3>2. messages > 0
      <4>1. messages \in Nat
        BY DEF Shape, TypeOK
      <4> QED
        BY <3>1, <4>1 DEF FirstMessage
    <3>3. PICK f \in DOMAIN blocks :
            /\ blocks[f].kind \in Messages /\ blocks[f].index = 1
            /\ \A b \in DOMAIN blocks \ {f} :
                 blocks[b].kind \in Messages => f < b /\ blocks[b].index > 1
      BY <3>2 DEF FirstMessage
    <3>4. f \in 1..(lastConfirmedBlock - 1)
      BY <1>p, <3>1, <3>3
    <3>5. blocks[f].index - 1 \in Upto(blocks, lastConfirmedBlock - 1)
      BY <3>3, <3>4 DEF Upto
    <3>6. 0 \in Upto(blocks, lastConfirmedBlock - 1)
      BY <3>3, <3>5
    <3> QED
      BY <1>s, <2>1, <3>6 DEF HoleInv, Headless, Watching
  <2> QED
    BY <2>2, <2>3
<1>7. CASE ResetSyncPoint
  <2>1. lastConfirmedBlock' = 0 /\ pc' = "down"
    BY <1>7 DEF ResetSyncPoint, Exit
  <2>2. Whole'
    BY <2>1, UptoNone DEF Whole, Behind
  <2> QED
    BY <2>1, <2>2 DEF HoleInv, Watching
<1>8. CASE WatcherInit
  BY <1>8, <1>p DEF WatcherInit, chainVars, diskVars, memVars, HoleInv, Whole,
     Headless, Behind, Known, auxVars, WatchedUpTo, Watching
<1>9. CASE Poll
  <2>1. /\ blocks' = blocks /\ optimistic' = optimistic /\ skipped' = skipped
        /\ lastConfirmedBlock' = lastConfirmedBlock /\ processed' = processed
        /\ pc = "idle" /\ pc' = "batch" /\ pos' = processed + 1
    BY <1>9 DEF Poll, chainVars, diskVars, auxVars
  <2>2. pos' - 1 = processed
    BY <1>p, <2>1
  <2> QED
    BY <2>1, <2>2 DEF HoleInv, Whole, Behind, Known, Watching
<1>10. CASE HandleMessage
  <2>1. /\ blocks' = blocks /\ skipped' = skipped /\ optimistic \subseteq optimistic'
        /\ lastConfirmedBlock' = lastConfirmedBlock /\ processed' = processed
        /\ pc = "batch" /\ pc' = "batch" /\ pos' = pos + 1
        /\ blocks[pos].kind \in Messages => blocks[pos].index - 1 \in optimistic'
    BY <1>10 DEF HandleMessage, AnnounceTx, Continue, chainVars, diskVars, auxVars, Messages
  <2>2. Upto(blocks, pos) \subseteq Upto(blocks, pos - 1) \cup
          (IF blocks[pos].kind \in Messages THEN {blocks[pos].index - 1} ELSE {})
    BY <1>p, UptoNext
  <2>3. pos' - 1 = pos
    BY <1>p, <2>1
  <2>4. Known \subseteq Known'
    BY <2>1 DEF Known
  <2>5. Upto(blocks, pos' - 1) \subseteq Known'
    BY <2>1, <2>2, <2>3, <2>4 DEF HoleInv, Behind, Known
  <2> QED
    BY <2>1, <2>4, <2>5 DEF HoleInv, Whole, Behind, Watching
<1>11. CASE HandleOther
  <2>1. /\ blocks' = blocks /\ skipped' = skipped /\ optimistic \subseteq optimistic'
        /\ lastConfirmedBlock' = lastConfirmedBlock /\ processed' = processed
        /\ pc = "batch" /\ pc' = "batch" /\ pos' = pos + 1
        /\ blocks[pos].kind \in Messages => blocks[pos].index - 1 \in optimistic'
    BY <1>11 DEF HandleOther, Continue, chainVars, diskVars, auxVars, Messages
  <2>2. Upto(blocks, pos) \subseteq Upto(blocks, pos - 1) \cup
          (IF blocks[pos].kind \in Messages THEN {blocks[pos].index - 1} ELSE {})
    BY <1>p, UptoNext
  <2>3. pos' - 1 = pos
    BY <1>p, <2>1
  <2>4. Known \subseteq Known'
    BY <2>1 DEF Known
  <2>5. Upto(blocks, pos' - 1) \subseteq Known'
    BY <2>1, <2>2, <2>3, <2>4 DEF HoleInv, Behind, Known
  <2> QED
    BY <2>1, <2>4, <2>5 DEF HoleInv, Whole, Behind, Watching
<1>12. CASE PropagateRefused
  BY <1>12, <1>p DEF PropagateRefused, Throw, chainVars, diskVars, memVars,
     HoleInv, Whole, Headless, Behind, Known, auxVars,
     WatchedUpTo, Watching
<1>13. CASE Propagate
  <2>1. /\ blocks' = blocks /\ skipped' = skipped /\ optimistic' = optimistic
        /\ processed' = processed /\ pc = "batch" /\ blocks[pos].kind \notin Messages
    BY <1>13 DEF Propagate, chainVars, auxVars, Messages
  <2>2. Upto(blocks, pos) \subseteq Upto(blocks, pos - 1)
    BY <1>p, <2>1, UptoNext
  <2>3. Upto(blocks, pos) \subseteq Known /\ Upto(blocks, pos - 1) \subseteq Known /\ Known' = Known
    BY <2>1, <2>2 DEF HoleInv, Behind, Known
  <2>4. Whole'
    <3>1. lastConfirmedBlock' \in {lastConfirmedBlock, pos}
      BY <1>13 DEF Propagate, Greater
    <3> QED
      BY <2>1, <2>3, <3>1 DEF HoleInv, Whole, Behind, Watching
  <2>5. (pc = "batch" => Behind(pos - 1))'
    <3>1. pc' = "batch" => pos' - 1 = pos
      BY <1>p, <1>13 DEF Propagate, Continue, Throw
    <3> QED
      BY <2>1, <2>3, <3>1 DEF Behind
  <2>6. pc' \in {"batch", "idle"}
    BY <1>13, <2>1 DEF Propagate, Continue, Throw
  <2>7. Behind(processed)'
    BY <2>1, <2>3 DEF HoleInv, Behind
  <2> QED
    BY <2>4, <2>5, <2>6, <2>7 DEF HoleInv
<1>14. CASE BatchDone
  <2>1. /\ blocks' = blocks /\ skipped' = skipped /\ optimistic' = optimistic
        /\ lastConfirmedBlock' = lastConfirmedBlock /\ processed' = batchEnd
        /\ pc = "batch" /\ pc' = "idle" /\ pos > batchEnd
    BY <1>14 DEF BatchDone, chainVars, auxVars
  <2>2. batchEnd <= pos - 1
    BY <1>p, <2>1
  <2>3. Upto(blocks, batchEnd) \subseteq Upto(blocks, pos - 1)
    BY <1>p, <2>2, UptoLess
  <2> QED
    BY <2>1, <2>3 DEF HoleInv, Whole, Behind, Known, Watching
<1>15. CASE Restart
  BY <1>15, <1>p DEF Restart, chainVars, diskVars, memVars, HoleInv, Whole,
     Headless, Behind, Known, auxVars, WatchedUpTo, Watching
<1>16. CASE MineEmpty
  <2>1. PICK e : blocks' = Append(blocks, e)
    BY <1>16 DEF MineEmpty
  <2>2. UNCHANGED <<startBlock, diskVars, pc, memVars>> /\ skipped' = skipped
    BY <1>16 DEF MineEmpty, memVars, diskVars, auxVars
  <2> QED
    BY <2>1, <2>2, ChainHole
<1>17. CASE MineRoot
  <2>1. PICK e : blocks' = Append(blocks, e)
    BY <1>17 DEF MineRoot
  <2>2. UNCHANGED <<startBlock, diskVars, pc, memVars>> /\ skipped' = skipped
    BY <1>17 DEF MineRoot, memVars, diskVars, auxVars
  <2> QED
    BY <2>1, <2>2, ChainHole
<1>18. CASE StartFails
  BY <1>18, <1>p DEF StartFails, Mishap, Exit, chainVars, diskVars, memVars,
     HoleInv, Whole, Headless, Behind, Known, auxVars,
     WatchedUpTo, Watching
<1>19. CASE HandleFails
  BY <1>19, <1>p DEF HandleFails, Mishap, Throw, chainVars, diskVars, memVars,
     HoleInv, Whole, Headless, Behind, Known, auxVars,
     WatchedUpTo, Watching
<1>20. CASE Crash
  BY <1>20, <1>p DEF Crash, Mishap, Exit, chainVars, diskVars, memVars,
     HoleInv, Whole, Headless, Behind, Known, auxVars,
     WatchedUpTo, Watching
<1>21. CASE \E k \in Messages : MineMessage(k)
  <2>1. PICK e : blocks' = Append(blocks, e)
    BY <1>21 DEF MineMessage
  <2>2. UNCHANGED <<startBlock, diskVars, pc, memVars>> /\ skipped' = skipped
    BY <1>21 DEF MineMessage, memVars, diskVars, auxVars
  <2> QED
    BY <2>1, <2>2, ChainHole
<1>23. CASE StartUnsynced
  <2>1. /\ blocks' = blocks /\ optimistic' = optimistic /\ pc' = "init"
        /\ lastConfirmedBlock' = lastConfirmedBlock /\ savedBlock' = savedBlock
        /\ initBlock' = Len(blocks) /\ startBlock = 0
        /\ skipped' = skipped \cup (Announced(1, WatchedUpTo(Len(blocks))) \ optimistic)
    BY <1>23 DEF StartUnsynced, Missed, chainVars, diskVars
  <2>2. Whole'
    BY <2>1 DEF HoleInv, Whole, Behind, Known
  <2>3. WatchedUpTo(initBlock)' = WatchedUpTo(Len(blocks))
    BY <2>1 DEF WatchedUpTo
  <2>4. Announced(1, WatchedUpTo(Len(blocks))) = Upto(blocks, WatchedUpTo(Len(blocks)))
    BY DEF Announced, Upto
  <2>5. Behind(WatchedUpTo(initBlock))'
    BY <2>1, <2>3, <2>4 DEF Behind, Known
  <2> QED
    BY <2>1, <2>2, <2>5 DEF HoleInv
<1>24. CASE KilledConfirming
  <2>0. /\ blocks \in Seq(Event) /\ pos \in DOMAIN blocks /\ pc = "sync" /\ pc' = "down"
        /\ blocks' = blocks /\ skipped' = skipped /\ optimistic \subseteq optimistic'
        /\ lastConfirmedBlock' = lastConfirmedBlock /\ startBlock' = startBlock
        /\ confirmed' = confirmed \cup {blocks[pos].index - 1}
        /\ blocks[pos].kind \in Messages
    BY <1>24 DEF KilledConfirming, Mishap, Exit, chainVars, Shape, TypeOK, PositionsOK
  <2>1. blocks[pos] \in Event
    BY <2>0
  <2>2. Whole => Whole'
    BY <2>0 DEF Whole, Behind, Known
  <2>3. Headless => Headless'
    <3>1. SUFFICES ASSUME Headless PROVE Headless'
      OBVIOUS
    <3>2. blocks[pos].index # 1
      BY <1>p, <2>0, <3>1, ScanIsPastFirst DEF PlacesOK
    <3>3. 0 \notin confirmed'
      BY <2>0, <2>1, <3>1, <3>2 DEF Headless, Event
    <3> QED
      BY <2>0, <3>1, <3>3 DEF Headless
  <2> QED
    BY <2>0, <2>2, <2>3 DEF HoleInv, Watching
<1>25. CASE KilledPropagating
  BY <1>25, <1>p DEF KilledPropagating, Mishap, Exit, chainVars, diskVars, memVars,
     HoleInv, Whole, Headless, Behind, Known, auxVars, Watching
<1> QED
  BY <1>1, <1>2, <1>3, <1>4, <1>5, <1>6, <1>7, <1>8, <1>9, <1>10, <1>11,
     <1>12, <1>13, <1>14, <1>15, <1>16, <1>17, <1>18, <1>19, <1>20, <1>21, <1>23, <1>24, <1>25 DEF
     Next, Sync, Watch, Chain, Failure

(* What was announced in a block the watcher has behind it is in the         *)
(* optimistic tree, unless a start has left it out that did not synchronise  *)
(* (start block 0, or the confirmed tree had the contract's root), through   *)
(* any crashes, kills, failed requests and wipes.                            *)
THEOREM NoOtherHole == Spec => []NothingElseSkipped
<1> DEFINE I == FirstMessage /\ PlacesOK /\ HoleInv
<1>1. Init => I
  <2> SUFFICES ASSUME Init PROVE I
    OBVIOUS
  <2>1. FirstMessage
    BY DEF Init, FirstMessage
  <2>2. PlacesOK
    BY DEF Init, PlacesOK
  <2>3. HoleInv
    BY UptoNone DEF Init, HoleInv, Whole, Behind, Watching
  <2> QED
    BY <2>1, <2>2, <2>3
<1>2. Shape /\ Shape' /\ ServedInv /\ I /\ [Next]_vars => I'
  <2> SUFFICES ASSUME Shape, Shape', ServedInv, I, [Next]_vars PROVE I'
    OBVIOUS
  <2>1. CASE Next
    BY <2>1, FirstKept, PlacesKept, HoleKept
  <2>2. CASE UNCHANGED vars
    BY <2>2 DEF vars, chainVars, diskVars, memVars, auxVars, FirstMessage, PlacesOK,
       HoleInv, Whole, Headless, Behind, Known, WatchedUpTo
  <2> QED
    BY <2>1, <2>2
<1>3. I => NothingElseSkipped
  BY DEF HoleInv, NothingElseSkipped, Behind, Known, Announced, Upto
<1> QED
  BY <1>1, <1>2, <1>3, ShapeKept, ServedKept, PTL DEF Spec
=============================================================================
