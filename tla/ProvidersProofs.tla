--------------------------- MODULE ProvidersProofs ---------------------------
(***************************************************************************)
(* Proofs about Providers, for any number of URLs, requests and retries.   *)
(***************************************************************************)
EXTENDS Providers, FiniteSetTheorems, TLAPS

(* What a request has tried in this round: the URLs from the saved index on, *)
(* and of the redundant ones as many as it has counted.                      *)
Tried(r) == {(first[r] + i) % N : i \in 0..(count[r] - 1)}

FailedAreTried ==
  \A r \in Requests :
    IF kind[r] = "raw" THEN Cardinality(failed[r]) = count[r]
    ELSE failed[r] = Tried(r)

(* A round goes on as long as there are URLs to try, and is over after N.    *)
RoundLength ==
  \A r \in Requests :
    /\ pc[r] \in {"try", "wait"} => count[r] < N
    /\ pc[r] = "over" => count[r] = N

TriedInv == FailedAreTried /\ RoundLength

-----------------------------------------------------------------------------
(* The remainder is an index of a URL.                                       *)
LEMMA ModInNodes ==
  ASSUME NEW a \in Nat
  PROVE  a % N \in Nodes
BY ProvidersAssumption, SMT DEF Nodes

(* No index is moved by whole rounds.                                        *)
LEMMA ModOfNode ==
  ASSUME NEW n \in Nodes
  PROVE  n % N = n /\ (n + N) % N = n
BY ProvidersAssumption, SMT DEF Nodes

LEMMA UpdateUrlInNodes ==
  ASSUME NEW i \in Nodes, NEW j \in Nodes
  PROVE  NextUrl(i) \in Nodes /\ UpdateUrl(i, j) \in Nodes
<1>1. i + 1 \in Nat
  BY ProvidersAssumption DEF Nodes
<1>2. (i + 1) % N \in Nodes
  BY <1>1, ModInNodes
<1> QED
  BY <1>2 DEF NextUrl, UpdateUrl

LEMMA UrlInNodes ==
  ASSUME TypeOK, NEW r \in Requests
  PROVE  Url(r) \in Nodes /\ Moved(r) \in Nodes
<1>1. first[r] + count[r] \in Nat
  BY ProvidersAssumption DEF TypeOK, Nodes
<1>2. Url(r) \in Nodes
  BY <1>1, ModInNodes DEF Url
<1>3. Moved(r) \in Nodes
  BY <1>2, UpdateUrlInNodes DEF Moved, TypeOK
<1> QED
  BY <1>2, <1>3

(* N URLs from any index on are all of them.                                 *)
LEMMA RoundIsComplete ==
  ASSUME NEW f \in Nodes
  PROVE  {(f + i) % N : i \in 0..(N - 1)} = Nodes
<1>1. ASSUME NEW n \in Nodes
      PROVE  \E i \in 0..(N - 1) : (f + i) % N = n
  <2>1. CASE n >= f
    <3>1. n - f \in 0..(N - 1) /\ f + (n - f) = n
      BY <2>1, ProvidersAssumption DEF Nodes
    <3> QED
      BY <3>1, ModOfNode
  <2>2. CASE n < f
    <3>1. n - f + N \in 0..(N - 1) /\ f + (n - f + N) = n + N
      BY <2>2, ProvidersAssumption DEF Nodes
    <3> QED
      BY <3>1, ModOfNode
  <2> QED
    BY <2>1, <2>2, ProvidersAssumption DEF Nodes
<1>2. ASSUME NEW i \in 0..(N - 1)
      PROVE  (f + i) % N \in Nodes
  <2>1. f + i \in Nat
    BY ProvidersAssumption DEF Nodes
  <2> QED
    BY <2>1, ModInNodes
<1> QED
  BY <1>1, <1>2

-----------------------------------------------------------------------------
LEMMA InitInv == Init => TypeOK /\ TriedInv
<1> SUFFICES ASSUME Init PROVE TypeOK /\ TriedInv
  OBVIOUS
<1>1. TypeOK
  BY ProvidersAssumption DEF Init, TypeOK, Nodes, Kinds
<1>2. FailedAreTried
  BY DEF Init, FailedAreTried, Tried
<1>3. RoundLength
  BY DEF Init, RoundLength
<1> QED
  BY <1>1, <1>2, <1>3 DEF TriedInv

(* Type correctness is inductive with the length of rounds.                  *)
LEMMA TypeStep ==
  ASSUME TypeOK, RoundLength, [Next]_vars
  PROVE  TypeOK'
<1> USE ProvidersAssumption
<1>1. CASE HourPasses
  BY <1>1 DEF TypeOK, HourPasses, reqVars
<1>2. ASSUME NEW r \in Requests, NEW k \in Kinds, Send(r, k), UNCHANGED overdue
      PROVE  TypeOK'
  <2>1. current' \in Nodes
    BY <1>2, UpdateUrlInNodes DEF Send, SwitchBack, TypeOK, Nodes
  <2>2. first' \in [Requests -> Nodes]
    BY <1>2, <2>1 DEF Send, TypeOK, Nodes
  <2> QED
    BY <1>2, <2>1, <2>2 DEF Send, TypeOK
<1>3. ASSUME NEW r \in Requests, NEW k \in Kinds, Begin(r, k)
      PROVE  TypeOK'
  BY <1>2, <1>3 DEF Begin
<1>4. ASSUME NEW r \in Requests, Ask(r)
      PROVE  TypeOK'
  BY <1>4 DEF Ask, TypeOK
<1>5. ASSUME NEW r \in Requests, Finish(r), current' \in Nodes, overdue' \in BOOLEAN
      PROVE  TypeOK'
  BY <1>5 DEF Finish, TypeOK, Kinds, Nodes
<1>6. ASSUME NEW r \in Requests, AskLater(r), current' \in Nodes, overdue' \in BOOLEAN
      PROVE  TypeOK'
  BY <1>6 DEF AskLater, TypeOK
<1>7. ASSUME NEW r \in Requests, CheckAnswered(r)
      PROVE  TypeOK'
  <2>1. current' \in Nodes
    BY <1>7, UrlInNodes, UpdateUrlInNodes DEF CheckAnswered
  <2> QED
    BY <1>5, <1>7, <2>1 DEF CheckAnswered, TypeOK
<1>8. ASSUME NEW r \in Requests, LogsAnswered(r)
      PROVE  TypeOK'
  <2>1. current' \in Nodes
    BY <1>8, UrlInNodes DEF LogsAnswered
  <2> QED
    BY <1>5, <1>6, <1>8, <2>1 DEF LogsAnswered, TypeOK
<1>9. ASSUME NEW r \in Requests, LogsAgain(r)
      PROVE  TypeOK'
  BY <1>2, <1>9 DEF LogsAgain, Kinds
<1>10. ASSUME NEW r \in Requests, RawAnswered(r)
       PROVE  TypeOK'
  BY <1>5, <1>10 DEF RawAnswered, listVars, TypeOK
<1>11. ASSUME NEW r \in Requests, NEW n \in Nodes, Fails(r, n)
       PROVE  TypeOK'
  <2>1. count[r] \in 0..N /\ count[r] < N
    BY <1>11 DEF Fails, RoundLength, TypeOK
  <2>2. count' \in [Requests -> 0..N]
    BY <1>11, <2>1 DEF Fails, TypeOK
  <2>3. pc' \in [Requests -> {"idle", "try", "wait", "over", "later"}]
    BY <1>11 DEF Fails, TypeOK
  <2> QED
    BY <1>11, <2>2, <2>3 DEF Fails, TypeOK, listVars
<1>12. ASSUME NEW r \in Requests, Again(r)
       PROVE  TypeOK'
  <2>1. round' \in [Requests -> 0..Retries]
    BY <1>12 DEF Again, TypeOK
  <2> QED
    BY <1>12, <2>1 DEF Again, TypeOK, listVars
<1>13. ASSUME NEW r \in Requests, GiveUp(r)
       PROVE  TypeOK'
  BY <1>5, <1>6, <1>13 DEF GiveUp, listVars, TypeOK
<1>14. CASE UNCHANGED vars
  BY <1>14 DEF vars, listVars, reqVars, TypeOK
<1> QED
  BY <1>1, <1>3, <1>4, <1>7, <1>8, <1>9, <1>10, <1>11, <1>12, <1>13, <1>14
     DEF Next, Progress

-----------------------------------------------------------------------------
(* A step touches one request: the others keep what they have tried.         *)
Same(r) ==
  /\ pc'[r] = pc[r] /\ kind'[r] = kind[r] /\ first'[r] = first[r]
  /\ count'[r] = count[r] /\ failed'[r] = failed[r]

(* The two parts of TriedInv for one request.                                *)
TriedOf(r) ==
  /\ IF kind[r] = "raw" THEN Cardinality(failed[r]) = count[r]
     ELSE failed[r] = Tried(r)
  /\ pc[r] \in {"try", "wait"} => count[r] < N
  /\ pc[r] = "over" => count[r] = N

LEMMA SameTried ==
  ASSUME NEW r, TriedOf(r), Same(r)
  PROVE  TriedOf(r)'
BY DEF TriedOf, Same, Tried

(* A request that starts a round, or has none, has tried nothing.            *)
LEMMA NothingTried ==
  ASSUME NEW r, count'[r] = 0, failed'[r] = {}, pc'[r] # "over"
  PROVE  TriedOf(r)'
<1>1. Tried(r)' = {}
  BY DEF Tried
<1>2. Cardinality({}) = 0
  BY FS_EmptySet
<1> QED
  BY <1>1, <1>2, ProvidersAssumption DEF TriedOf

(* A failure adds the URL that was asked, which is the next to be tried.     *)
LEMMA FailureTried ==
  ASSUME TypeOK, NEW r \in Requests, NEW n \in Nodes, TriedOf(r), Fails(r, n)
  PROVE  TriedOf(r)'
<1> USE ProvidersAssumption
<1>1. /\ count[r] \in 0..N /\ count[r] < N
      /\ count'[r] = count[r] + 1 /\ failed'[r] = failed[r] \cup {n}
      /\ kind'[r] = kind[r] /\ first'[r] = first[r]
      /\ pc'[r] = IF count[r] + 1 = N THEN "over"
                  ELSE IF kind[r] = "raw" THEN "wait" ELSE "try"
  BY DEF TypeOK, TriedOf, Fails
<1>2. /\ pc'[r] \in {"try", "wait"} => count'[r] < N
      /\ pc'[r] = "over" => count'[r] = N
  BY <1>1
<1>3. CASE kind[r] = "raw"
  <2>1. n \notin failed[r] /\ Cardinality(failed[r]) = count[r]
    BY <1>3 DEF Fails, Asked, TriedOf
  <2>2. IsFiniteSet(Nodes)
    BY FS_Interval DEF Nodes
  <2>3. failed[r] \subseteq Nodes
    BY DEF TypeOK
  <2>4. IsFiniteSet(failed[r])
    BY <2>2, <2>3, FS_Subset
  <2>5. Cardinality(failed[r] \cup {n}) = count[r] + 1
    BY <2>1, <2>4, FS_AddElement
  <2> QED
    BY <1>1, <1>2, <1>3, <2>5 DEF TriedOf
<1>4. CASE kind[r] # "raw"
  <2>1. n = (first[r] + count[r]) % N /\ failed[r] = Tried(r)
    BY <1>4 DEF Fails, Asked, Url, TriedOf
  <2>2. 0..(count'[r] - 1) = 0..(count[r] - 1) \cup {count[r]}
    BY <1>1
  <2>3. Tried(r)' = Tried(r) \cup {n}
    BY <1>1, <2>1, <2>2 DEF Tried
  <2> QED
    BY <1>1, <1>2, <1>4, <2>1, <2>3 DEF TriedOf
<1> QED
  BY <1>3, <1>4

LEMMA TriedStep ==
  ASSUME TypeOK, TriedInv, [Next]_vars
  PROVE  TriedInv'
<1> USE ProvidersAssumption
<1>1. SUFFICES ASSUME NEW q \in Requests
               PROVE  TriedOf(q)'
  BY <1>1 DEF TriedInv, FailedAreTried, RoundLength, TriedOf
<1>2. TriedOf(q)
  BY DEF TriedInv, FailedAreTried, RoundLength, TriedOf
<1>3. CASE HourPasses \/ UNCHANGED vars
  <2>1. Same(q)
    BY <1>3 DEF HourPasses, vars, listVars, reqVars, Same
  <2> QED
    BY <1>2, <2>1, SameTried
<1>4. ASSUME NEW r \in Requests, NEW k \in Kinds, Send(r, k)
      PROVE  TriedOf(q)'
  <2>1. CASE q = r
    BY <1>4, <2>1, NothingTried DEF Send, TypeOK
  <2>2. CASE q # r
    <3>1. Same(q)
      BY <1>4, <2>2 DEF Send, TypeOK, Same
    <3> QED
      BY <1>2, <3>1, SameTried
  <2> QED
    BY <2>1, <2>2
<1>5. ASSUME NEW r \in Requests, Finish(r)
      PROVE  TriedOf(q)'
  <2>1. CASE q = r
    BY <1>5, <2>1, NothingTried DEF Finish, TypeOK
  <2>2. CASE q # r
    <3>1. Same(q)
      BY <1>5, <2>2 DEF Finish, TypeOK, Same
    <3> QED
      BY <1>2, <3>1, SameTried
  <2> QED
    BY <2>1, <2>2
<1>6. ASSUME NEW r \in Requests, AskLater(r)
      PROVE  TriedOf(q)'
  <2>1. /\ kind' = kind /\ first' = first /\ count' = count /\ failed' = failed
        /\ pc'[q] = pc[q] \/ pc'[q] = "later"
    BY <1>6 DEF AskLater, TypeOK
  <2> QED
    BY <1>2, <2>1 DEF TriedOf, Tried
<1>7. ASSUME NEW r \in Requests, Ask(r)
      PROVE  TriedOf(q)'
  <2>1. /\ kind' = kind /\ first' = first /\ count' = count /\ failed' = failed
        /\ pc'[q] = pc[q] \/ (pc[q] = "try" /\ pc'[q] = "wait")
    BY <1>7 DEF Ask, TypeOK
  <2> QED
    BY <1>2, <2>1 DEF TriedOf, Tried
<1>8. ASSUME NEW r \in Requests, NEW n \in Nodes, Fails(r, n)
      PROVE  TriedOf(q)'
  <2>1. CASE q = r
    BY <1>2, <1>8, <2>1, FailureTried
  <2>2. CASE q # r
    <3>1. Same(q)
      BY <1>8, <2>2 DEF Fails, TypeOK, Same
    <3> QED
      BY <1>2, <3>1, SameTried
  <2> QED
    BY <2>1, <2>2
<1>9. ASSUME NEW r \in Requests, Again(r)
      PROVE  TriedOf(q)'
  <2>1. CASE q = r
    BY <1>9, <2>1, NothingTried DEF Again, TypeOK
  <2>2. CASE q # r
    <3>1. Same(q)
      BY <1>9, <2>2 DEF Again, TypeOK, Same
    <3> QED
      BY <1>2, <3>1, SameTried
  <2> QED
    BY <2>1, <2>2
<1>10. ASSUME NEW r \in Requests, Progress(r)
       PROVE  TriedOf(q)'
  <2>1. CASE CheckAnswered(r) \/ RawAnswered(r)
    BY <1>5, <2>1 DEF CheckAnswered, RawAnswered
  <2>2. CASE LogsAnswered(r) \/ GiveUp(r)
    BY <1>5, <1>6, <2>2 DEF LogsAnswered, GiveUp
  <2>3. CASE LogsAgain(r)
    BY <1>4, <2>3 DEF LogsAgain, Kinds
  <2> QED
    BY <1>7, <1>8, <1>9, <1>10, <2>1, <2>2, <2>3 DEF Progress
<1>11. ASSUME NEW r \in Requests, NEW k \in Kinds, Begin(r, k)
       PROVE  TriedOf(q)'
  BY <1>4, <1>11 DEF Begin
<1> QED
  BY <1>3, <1>10, <1>11 DEF Next

-----------------------------------------------------------------------------
(* A round that is over has asked every URL.                                 *)
LEMMA TriedImpliesAll ==
  ASSUME TypeOK, TriedInv
  PROVE  AllTried
<1> USE ProvidersAssumption
<1> SUFFICES ASSUME NEW r \in Requests, pc[r] = "over"
             PROVE  failed[r] = Nodes
  BY DEF AllTried
<1>1. count[r] = N /\ failed[r] \subseteq Nodes /\ first[r] \in Nodes
  BY DEF TriedInv, RoundLength, TypeOK
<1>2. CASE kind[r] = "raw"
  <2>1. IsFiniteSet(Nodes) /\ Cardinality(Nodes) = N
    BY FS_Interval DEF Nodes
  <2>2. Cardinality(failed[r]) = N
    BY <1>1, <1>2 DEF TriedInv, FailedAreTried
  <2> QED
    BY <1>1, <2>1, <2>2, FS_Subset
<1>3. CASE kind[r] # "raw"
  <2>1. failed[r] = {(first[r] + i) % N : i \in 0..(N - 1)}
    BY <1>1, <1>3 DEF TriedInv, FailedAreTried, Tried
  <2> QED
    BY <1>1, <2>1, RoundIsComplete
<1> QED
  BY <1>2, <1>3

(* The shapes of the state, for every number of URLs and requests.           *)
THEOREM TypeCorrect == Spec => []TypeOK
<1>1. TypeOK /\ TriedInv /\ [Next]_vars => (TypeOK /\ TriedInv)'
  BY TypeStep, TriedStep DEF TriedInv
<1> QED
  BY InitInv, <1>1, PTL DEF Spec

(* A request fails only when each URL has failed it in the round: no other   *)
(* request that moves the current URL makes it skip one ("save the           *)
(* currentIndex to avoid race condition").                                   *)
THEOREM EveryUrlTried == Spec => []AllTried
<1>1. TypeOK /\ TriedInv /\ [Next]_vars => (TypeOK /\ TriedInv)'
  BY TypeStep, TriedStep DEF TriedInv
<1>2. TypeOK /\ TriedInv => AllTried
  BY TriedImpliesAll
<1> QED
  BY InitInv, <1>1, <1>2, PTL DEF Spec
=============================================================================
