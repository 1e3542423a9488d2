------------------------------ MODULE TxCache -------------------------------
(***************************************************************************)
(* The relayer's local cache of the transactions it has sent and the       *)
(* indexer does not list yet (RelayPool.onSend, TxStore).  An observer,    *)
(* started by the first send and ended by an empty cache, compares the     *)
(* cache with the indexer's list once a second and removes what the        *)
(* indexer has.  Clients ask the relayer for the list, from an offset on   *)
(* (GET /transactions/v2): the answer joins what the indexer said a moment *)
(* ago with what the cache holds now.                                      *)
(*                                                                         *)
(* The cache is in Redis; the observer is a promise in memory.  Indexes    *)
(* count transactions (the code's are multiples of OUTPLUSONE).            *)
(***************************************************************************)
EXTENDS Integers, SequencesExt, FiniteSetsExt, Calldata

CONSTANTS
  Txs,        \* the relayer's transactions (out commitments)
  Others,     \* transactions that reach the pool without this relayer
  Margin,     \* OFFSET_MARGIN, in transactions
  Extend,     \* EXTEND_LIMIT_TO_FETCH
  PageLimit,  \* the limit of a client's request
  MaxMishaps, \* bound on crashes, failed requests and days of waiting
  None

ASSUME TxCacheAssumption ==
  /\ Txs \cap Others = {} /\ None \notin Txs
  /\ Margin \in Nat /\ Extend \in Nat /\ MaxMishaps \in Nat /\ PageLimit \in Nat

VARIABLES
  phase,     \* how far each transaction of the relayer is
  sending,   \* the transaction the pool worker is sending (it holds the mutex)
  store,     \* the cache: commitments, by the time they were added
  old,       \* those added longer than EXPIRATION_MS ago
  list,      \* the indexer's optimistic transactions, in their order
  confirmed, \* the indexer's deltaIndex
  start,     \* the index onSend read for the observer
  observer,  \* step of the observer; "none" when observePromise is undefined
  from,      \* fromIndex of the running observer
  entries,   \* its localEntries
  limit,     \* how many transactions it asks for
  seen,      \* those of them that the indexer listed
  query,     \* a client's request is being answered
  due,       \* the transactions the client knows to be on their way as it asks
  page,      \* the indexer's answer
  mishaps

sendVars  == <<phase, sending, start>>
cacheVars == <<store, old>>
indexVars == <<list, confirmed>>
obsVars   == <<observer, from, entries, limit, seen>>
askVars   == <<query, due, page>>
vars == <<sendVars, cacheVars, indexVars, obsVars, askVars, mishaps>>

Phases == {"new", "onchain", "info", "stored", "sent", "reverted", "lost"}
Steps  == {"none", "read", "info", "txs", "remove", "end"}

Listed == ToSet(list)
Cached == ToSet(store)
Larger(a, b) == IF a < b THEN b ELSE a

(* count elements of s after the first from, or as many as there are.        *)
PageOf(s, first, count) ==
  SubSeq(s, first + 1, IF first + count < Len(s) THEN first + count ELSE Len(s))

Init ==
  /\ phase = [t \in Txs |-> "new"] /\ sending = None /\ start = 0
  /\ store = <<>> /\ old = {}
  /\ list = <<>> /\ confirmed = 0
  /\ observer = "none" /\ from = 0 /\ entries = {} /\ limit = 0 /\ seen = {}
  /\ query = FALSE /\ due = {} /\ page = <<>>
  /\ mishaps = 0

Mishap == mishaps < MaxMishaps /\ mishaps' = mishaps + 1

-----------------------------------------------------------------------------
(* External: the indexer lists a transaction that the contract accepted ...  *)
IndexerLists(t) ==
  /\ t \notin Listed
  /\ t \in Txs => phase[t] \notin {"new", "reverted"}
  /\ list' = Append(list, t)
  /\ UNCHANGED <<sendVars, cacheVars, confirmed, obsVars, askVars, mishaps>>

(* ... and confirms the next one.                                            *)
IndexerConfirms ==
  /\ confirmed < Len(list) /\ confirmed' = confirmed + 1
  /\ UNCHANGED <<sendVars, cacheVars, list, obsVars, askVars, mishaps>>

-----------------------------------------------------------------------------
(* The pool worker's transaction is with the node ...                        *)
Send(t) ==
  /\ sending = None /\ phase[t] = "new"
  /\ sending' = t /\ phase' = [phase EXCEPT ![t] = "onchain"]
  /\ UNCHANGED <<start, cacheVars, indexVars, obsVars, askVars, mishaps>>

(* ... onSend asks the indexer for its deltaIndex ...                        *)
SendInfo ==
  /\ sending # None /\ phase[sending] = "onchain"
  /\ start' = confirmed
  /\ phase' = [phase EXCEPT ![sending] = "info"]
  /\ UNCHANGED <<sending, cacheVars, indexVars, obsVars, askVars, mishaps>>

(* ... or fails to: the job fails, although its transaction is out ...        *)
SendInfoFails ==
  /\ sending # None /\ phase[sending] = "onchain" /\ Mishap
  /\ phase' = [phase EXCEPT ![sending] = "lost"] /\ sending' = None
  /\ UNCHANGED <<start, cacheVars, indexVars, obsVars, askVars>>

(* ... cacheTxLocally stores the commitment ...                              *)
SendStore ==
  /\ sending # None /\ phase[sending] = "info"
  /\ store' = Append(store, sending)
  /\ phase' = [phase EXCEPT ![sending] = "stored"]
  /\ UNCHANGED <<sending, start, old, indexVars, obsVars, askVars, mishaps>>

(* ... startLocalCacheObserver starts the observer if none is running, and   *)
(* the job becomes SENT.                                                     *)
StartIndex == Larger(start - Margin, 0)

SendStart ==
  /\ sending # None /\ phase[sending] = "stored"
  /\ phase' = [phase EXCEPT ![sending] = "sent"] /\ sending' = None /\ start' = 0
  /\ IF observer = "none" THEN observer' = "read" /\ from' = StartIndex
     ELSE UNCHANGED <<observer, from>>
  /\ UNCHANGED <<cacheVars, indexVars, entries, limit, seen, askVars, mishaps>>

(* onFailed of a transaction that reverted removes its commitment.           *)
SentFails(t) ==
  /\ sending = None /\ phase[t] = "sent" /\ t \notin Listed
  /\ phase' = [phase EXCEPT ![t] = "reverted"]
  /\ store' = RemoveFirst(store, t)
  /\ UNCHANGED <<sending, start, old, indexVars, obsVars, askVars, mishaps>>

-----------------------------------------------------------------------------
(* localCacheObserverWorker.  The cache is read ...                          *)
ObserverReads ==
  /\ observer = "read"
  /\ entries' = Cached
  /\ observer' = IF store = <<>> THEN "end" ELSE "info"
  /\ UNCHANGED <<sendVars, cacheVars, indexVars, from, limit, seen, askVars, mishaps>>

(* ... then the indexer's optimisticDeltaIndex ...                           *)
ObserverInfo ==
  /\ observer = "info" /\ observer' = "txs"
  /\ limit' = Len(list) - from + Cardinality(entries) + Extend
  /\ UNCHANGED <<sendVars, cacheVars, indexVars, from, entries, seen, askVars, mishaps>>

(* Variant: the next index at which the indexer is asked moves on.           *)
ObserverFetchesFromEnd ==
  /\ observer = "txs" /\ observer' = "remove"
  /\ seen' = entries \cap ToSet(PageOf(list, from, limit))
  /\ from' = Len(list) /\ limit' = 0
  /\ UNCHANGED <<sendVars, cacheVars, indexVars, entries, askVars, mishaps>>

(* ... then its transactions from fromIndex on ...                           *)
ObserverFetches ==
  /\ observer = "txs" /\ observer' = "remove"
  /\ seen' = entries \cap ToSet(PageOf(list, from, limit))
  /\ limit' = 0
  /\ UNCHANGED <<sendVars, cacheVars, indexVars, from, entries, askVars, mishaps>>

(* Variant: counts are compared, not commitments.                            *)
RemovableCounted ==
  IF Cardinality(seen) >= Cardinality(entries) THEN entries ELSE entries \cap old

(* ... and the entries it lists, or that are too old, are removed one by one.*)
Removable == entries \cap (seen \cup old)

ObserverRemoves(t) ==
  /\ observer = "remove" /\ t \in Removable
  /\ store' = RemoveFirst(store, t)
  /\ entries' = entries \ {t}
  /\ UNCHANGED <<sendVars, old, indexVars, observer, from, limit, seen, askVars, mishaps>>

(* The next round follows, after a pause if entries are left.                *)
ObserverLoops ==
  /\ observer = "remove" /\ Removable = {}
  /\ observer' = "read" /\ entries' = {} /\ seen' = {}
  /\ UNCHANGED <<sendVars, cacheVars, indexVars, from, limit, askVars, mishaps>>

(* An error of the indexer is logged; the next round follows.                *)
ObserverFails ==
  /\ observer \in {"info", "txs"} /\ Mishap
  /\ observer' = "read" /\ entries' = {} /\ limit' = 0
  /\ UNCHANGED <<sendVars, cacheVars, indexVars, from, seen, askVars>>

(* The cache was empty: the promise ends, and observePromise is cleared.     *)
ObserverEnds ==
  /\ observer = "end" /\ observer' = "none" /\ from' = 0 /\ entries' = {}
  /\ UNCHANGED <<sendVars, cacheVars, indexVars, limit, seen, askVars, mishaps>>

(* A day passes and an entry is still in the cache.                          *)
Expire(t) ==
  /\ t \in Cached \ old /\ Mishap
  /\ old' = old \cup {t}
  /\ UNCHANGED <<sendVars, store, indexVars, obsVars, askVars>>

ClearQuery == query' = FALSE /\ due' = {} /\ page' = <<>>

(* The relayer dies: the observer is gone, and the job in progress, when it  *)
(* is given out again, either is refused for its own nullifier or sends      *)
(* another transaction with it, which is not followed here.                  *)
Crash ==
  /\ Mishap
  /\ phase' = IF sending = None THEN phase ELSE [phase EXCEPT ![sending] = "lost"]
  /\ sending' = None /\ start' = 0
  /\ observer' = "none" /\ from' = 0 /\ entries' = {} /\ limit' = 0 /\ seen' = {}
  /\ ClearQuery
  /\ UNCHANGED <<cacheVars, indexVars>>

-----------------------------------------------------------------------------
(* What a client has been told is on its way: jobs that are SENT and whose   *)
(* entry is not too old.                                                     *)
OnTheirWay == {t \in Txs \ old : phase[t] = "sent" /\ t \in Listed \cup Cached}

(* GET /transactions/v2: the indexer is asked for what it lists from the     *)
(* client's offset on; the client has what is listed before it ...           *)
Ask(offset) ==
  /\ ~query /\ query' = TRUE
  /\ due' = OnTheirWay \ ToSet(PageOf(list, 0, offset))
  /\ page' = PageOf(list, offset, PageLimit)
  /\ UNCHANGED <<sendVars, cacheVars, indexVars, obsVars, mishaps>>

(* The cached entries that the page does not hold ...                        *)
Without(s, S) ==
  LET kept[i \in 0..Len(s)] ==
        IF i = 0 THEN <<>>
        ELSE IF s[i] \in S THEN kept[i - 1] ELSE Append(kept[i - 1], s[i])
  IN  kept[Len(s)]

NotInPage == Without(store, ToSet(page))

(* Variant: the limit is compared with the next length.                      *)
RoomLess == Larger(PageLimit - Len(page) - 1, 0)

(* ... as long as the answer has room for them.                              *)
Room == PageLimit - Len(page)

(* The cache's entries join the answer.                                      *)
Answer == page \o PageOf(NotInPage, 0, Room)

Reply ==
  /\ query /\ ClearQuery
  /\ UNCHANGED <<sendVars, cacheVars, indexVars, obsVars, mishaps>>

-----------------------------------------------------------------------------
Sender   == SendInfo \/ SendStore \/ SendStart
Observer == \/ ObserverReads \/ ObserverInfo \/ ObserverFetches \/ ObserverLoops
            \/ ObserverEnds \/ \E t \in Txs : ObserverRemoves(t)
Indexer  == IndexerConfirms \/ \E t \in Txs \cup Others : IndexerLists(t)
Client   == Reply \/ \E offset \in 0..Len(list) : Ask(offset)

Next ==
  \/ Sender \/ Observer \/ Indexer \/ Client
  \/ \E t \in Txs : Send(t) \/ SentFails(t) \/ Expire(t)
  \/ SendInfoFails \/ ObserverFails \/ Crash

Spec == Init /\ [][Next]_vars

(* onSend goes on once started, and so does the observer.  Nothing is        *)
(* assumed of the indexer, nor of the chain.                                 *)
FairSpec == Spec /\ WF_vars(Sender) /\ WF_vars(Observer)

-----------------------------------------------------------------------------
(* Shapes of the state: what each variable ranges over.                      *)
TypeOK ==
  /\ phase \in [Txs -> Phases] /\ sending \in Txs \cup {None} /\ start \in Nat
  /\ store \in Seq(Txs) /\ IsInjective(store) /\ old \subseteq Txs
  /\ list \in Seq(Txs \cup Others) /\ confirmed \in 0..Len(list)
  /\ observer \in Steps /\ from \in Nat /\ entries \subseteq Txs
  /\ observer = "none" => from = 0 /\ entries = {}
  /\ limit \in Nat /\ seen \subseteq Txs
  /\ query \in BOOLEAN /\ due \subseteq Txs
  /\ page \in Seq(Txs \cup Others)
  /\ mishaps \in 0..MaxMishaps

(* A transaction whose job is SENT is found in the cache until the indexer   *)
(* lists it or it has aged out, whatever the observer, its stale reads and   *)
(* crashes do ("we should keep sent transaction until the indexer grab       *)
(* them").                                                                   *)
KeptUntilIndexed ==
  \A t \in Txs \ old : phase[t] = "sent" => t \in Cached \cup Listed

(* An answer shorter than the limit holds all that a client had sent before  *)
(* it asked, unless it reverted, aged out or reached the indexer while the   *)
(* answer was made (then both the page and the cache may lack it).           *)
AnswerComplete ==
  query /\ Len(Answer) < PageLimit =>
    \A t \in due \ old : t \in ToSet(Answer) \cup Listed \/ phase[t] = "reverted"

(* A client gets the same commitment and memo of a transaction from the      *)
(* relayer's cache and, later, from the indexer, which found them in the     *)
(* calldata by itself, and the same hash if the first attempt was mined; and *)
(* the commitment by which the relayer recognises it there is the key of the *)
(* cache.  This is so for each type of transaction, for those that earlier   *)
(* versions sent, and for direct deposits.                                   *)
Agreed ==
  \A version \in Versions :
    /\ \A type \in TxTypes : RecordsAgree(version, type)
    /\ DirectCommit(version) = "outCommit"
SameRecord == Cached \cap Listed # {} => Agreed

(* The cache does not keep what the indexer has had in the observer's range: *)
(* while an observer runs, an entry that is listed gets removed.             *)
InRange(t) == \E i \in (from + 1)..Len(list) : list[i] = t
Drained ==
  \A t \in Txs :
    t \in Cached /\ observer # "none" /\ InRange(t)
      ~> t \notin Cached \/ observer = "none"
=============================================================================
