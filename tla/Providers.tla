----------------------------- MODULE Providers ------------------------------
(***************************************************************************)
(* The relayer's access to the RPC nodes.  HttpListProvider sends each     *)
(* request to the current URL and goes through the others when it fails;   *)
(* concurrent requests, a periodic check of the latest block if one is     *)
(* configured, and the return to the primary URL (index 0) after an hour   *)
(* without it all move the current URL.                                    *)
(* SafeEthLogsProvider wraps it for requests of events;                    *)
(* RedundantHttpListProvider, used for transactions, asks all at once.     *)
(*                                                                         *)
(* The nodes are external: any request may fail, and the node that answers *)
(* may or may not have the blocks it is asked about.                       *)
(***************************************************************************)
EXTENDS Naturals, FiniteSets

CONSTANTS
  N,          \* number of URLs
  Checks,     \* checks of the latest block that may run at the same time
              \* (a checker with the interval 0, the default, makes none)
  Calls,      \* other requests that may
  Retries     \* RETRY_CONFIG.retries: further rounds through the URLs

ASSUME ProvidersAssumption ==
  /\ N \in Nat /\ N > 1 /\ Checks \cap Calls = {}
  /\ Retries \in Nat

VARIABLES
  current,   \* currentIndex
  overdue,   \* lastTimeUsedPrimary is FALLBACK_RPC_URL_SWITCH_TIMEOUT ago
  pc, kind,  \* a request's step and kind
  first,     \* the index that send() saved
  count,     \* URLs tried in this round
  round,     \* rounds before this one
  failed     \* nodes that failed in this round

listVars == <<current, overdue>>
reqVars  == <<pc, kind, first, count, round, failed>>
vars     == <<listVars, reqVars>>

Nodes    == 0..(N - 1)
Requests == Checks \cup Calls
Kinds    == {"check", "logs", "raw"}

Init ==
  /\ current = 0 /\ overdue = TRUE
  /\ pc = [r \in Requests |-> "idle"] /\ kind = [r \in Requests |-> "check"]
  /\ first = [r \in Requests |-> 0] /\ count = [r \in Requests |-> 0]
  /\ round = [r \in Requests |-> 0] /\ failed = [r \in Requests |-> {}]

(* An hour passes without a request to the primary URL.                      *)
HourPasses ==
  /\ ~overdue /\ overdue' = TRUE
  /\ UNCHANGED <<current, reqVars>>

-----------------------------------------------------------------------------
(* updateUrlIndex.  Index 0 is taken for no index, and means the next one.   *)
NextUrl(i) == (i + 1) % N
UpdateUrl(i, j) == IF j = 0 THEN NextUrl(i) ELSE j

(* Variant: the current URL is kept until it fails.                          *)
SwitchBackNever(k) == current

(* send(): away from a fallback URL after an hour ...                        *)
SwitchBack(k) ==
  IF k # "raw" /\ current > 0 /\ overdue THEN UpdateUrl(current, 0) ELSE current

(* ... then the current index is saved.                                      *)
Send(r, k) ==
  /\ pc' = [pc EXCEPT ![r] = "try"] /\ kind' = [kind EXCEPT ![r] = k]
  /\ current' = SwitchBack(k)
  /\ first' = [first EXCEPT ![r] = IF k = "raw" THEN 0 ELSE current']
  /\ count' = [count EXCEPT ![r] = 0] /\ round' = [round EXCEPT ![r] = 0]
  /\ failed' = [failed EXCEPT ![r] = {}]

(* Calls read (events, or what any node knows) or send a raw transaction.    *)
MayBe(r, k) == k = "check" <=> r \in Checks

Begin(r, k) == pc[r] = "idle" /\ MayBe(r, k) /\ Send(r, k) /\ UNCHANGED overdue

(* Variant: the URLs are counted from the current one.                       *)
UrlLive(r) == (current + count[r]) % N

(* trySend goes through the URLs from the saved one on.                      *)
Url(r) == (first[r] + count[r]) % N

(* A request leaves for its URL (a raw transaction for all of them).         *)
Ask(r) ==
  /\ pc[r] = "try" /\ pc' = [pc EXCEPT ![r] = "wait"]
  /\ overdue' = (overdue /\ ~(kind[r] # "raw" /\ Url(r) = 0))
  /\ UNCHANGED <<current, kind, first, count, round, failed>>

(* An answer moves the list to the URL it came from ...                      *)
Moved(r) == IF Url(r) # first[r] THEN UpdateUrl(current, Url(r)) ELSE current

(* ... and the request is over: its caller has the answer, or the error.      *)
Finish(r) ==
  /\ pc' = [pc EXCEPT ![r] = "idle"] /\ kind' = [kind EXCEPT ![r] = "check"]
  /\ first' = [first EXCEPT ![r] = 0] /\ count' = [count EXCEPT ![r] = 0]
  /\ round' = [round EXCEPT ![r] = 0] /\ failed' = [failed EXCEPT ![r] = {}]

(* checkLatestBlock moves the list on, from wherever it is by then, when the *)
(* node has no new block or answers with an error.                           *)
CheckAnswered(r) ==
  /\ pc[r] = "wait" /\ kind[r] = "check"
  /\ current' \in {Moved(r), NextUrl(Moved(r))}
  /\ Finish(r)
  /\ UNCHANGED overdue

(* getEvents asks for its events again until it has them.                    *)
AskLater(r) ==
  /\ pc' = [pc EXCEPT ![r] = "later"]
  /\ UNCHANGED <<kind, first, count, round, failed>>

(* Events of a node that is behind the last block asked for are refused      *)
(* ("block number too low"), and asked of the URL that is current by then.   *)
LogsAnswered(r) ==
  /\ pc[r] = "wait" /\ kind[r] = "logs"
  /\ current' = Moved(r)
  /\ Finish(r) \/ AskLater(r)
  /\ UNCHANGED overdue

LogsAgain(r) == pc[r] = "later" /\ Send(r, "logs") /\ UNCHANGED overdue

(* Redundant: the first node that answers ends the request.                  *)
RawAnswered(r) ==
  /\ pc[r] = "wait" /\ kind[r] = "raw"
  /\ Finish(r)
  /\ UNCHANGED listVars

(* The node that is asked is down or too slow.                               *)
Asked(r) == IF kind[r] = "raw" THEN Nodes \ failed[r] ELSE {Url(r)}

(* Once every URL has failed, another round follows, or the error is         *)
(* reported.                                                                 *)
Fails(r, n) ==
  /\ pc[r] = "wait" /\ n \in Asked(r)
  /\ failed' = [failed EXCEPT ![r] = @ \cup {n}]
  /\ count' = [count EXCEPT ![r] = @ + 1]
  /\ pc' = [pc EXCEPT ![r] = IF count[r] + 1 = N THEN "over"
                              ELSE IF kind[r] = "raw" THEN "wait" ELSE "try"]
  /\ UNCHANGED <<listVars, kind, first, round>>

(* promiseRetry: all of it again, from the same saved index.                 *)
Again(r) ==
  /\ pc[r] = "over" /\ round[r] < Retries
  /\ round' = [round EXCEPT ![r] = @ + 1]
  /\ count' = [count EXCEPT ![r] = 0] /\ failed' = [failed EXCEPT ![r] = {}]
  /\ pc' = [pc EXCEPT ![r] = "try"]
  /\ UNCHANGED <<listVars, kind, first>>

GiveUp(r) ==
  /\ pc[r] = "over" /\ round[r] = Retries
  /\ IF kind[r] = "logs" THEN AskLater(r) ELSE Finish(r)
  /\ UNCHANGED listVars

-----------------------------------------------------------------------------
Progress(r) ==
  \/ Ask(r) \/ CheckAnswered(r)
  \/ LogsAnswered(r) \/ LogsAgain(r) \/ RawAnswered(r)
  \/ \E n \in Nodes : Fails(r, n)
  \/ Again(r) \/ GiveUp(r)

Next ==
  \/ HourPasses
  \/ \E r \in Requests : Progress(r) \/ \E k \in Kinds : Begin(r, k)

Spec == Init /\ [][Next]_vars

(* Requests end (they time out).  That another one begins is not assumed:    *)
(* the checker of the latest block is off by default.                        *)
FairSpec == Spec /\ \A r \in Requests : WF_vars(Progress(r))

-----------------------------------------------------------------------------
(* Shapes of the state: what each variable ranges over.                      *)
TypeOK ==
  /\ current \in Nodes /\ overdue \in BOOLEAN
  /\ pc \in [Requests -> {"idle", "try", "wait", "over", "later"}]
  /\ kind \in [Requests -> Kinds]
  /\ first \in [Requests -> Nodes] /\ count \in [Requests -> 0..N]
  /\ round \in [Requests -> 0..Retries] /\ failed \in [Requests -> SUBSET Nodes]

(* A round of a request is over, or its error reported, only after each URL  *)
(* failed in it, although other requests move the current URL meanwhile      *)
(* ("save the currentIndex to avoid race condition").                        *)
AllTried == \A r \in Requests : pc[r] = "over" => failed[r] = Nodes

(* As long as requests other than raw transactions go on, whoever makes      *)
(* them, a fallback URL is not used for longer than the timeout: the primary *)
(* is asked again, although updateUrlIndex(0) takes the next URL instead of  *)
(* it, and answers to other requests move the index as well.                 *)
ReadBegins == \E r \in Requests : \E k \in Kinds \ {"raw"} : Begin(r, k)

PrimaryRetried == []<><<ReadBegins>>_vars => (overdue ~> ~overdue)
=============================================================================
