---------------------------- MODULE TxCacheProofs ---------------------------
(***************************************************************************)
(* What TxCache guarantees for every set of transactions, every margin,    *)
(* limit and number of mishaps.                                            *)
(***************************************************************************)
EXTENDS TxCache, FiniteSetTheorems, SequenceTheorems, WellFoundedInduction, TLAPS

(* A set of naturals that is not empty has a least element.                  *)
LEMMA LeastElement ==
  ASSUME NEW T, T \subseteq Nat, T # {}
  PROVE  \E m \in T : \A k \in T : m <= k
<1>1. PICK m \in T : \A k \in T : <<k, m>> \notin OpToRel(<, Nat)
  BY NatLessThanWellFounded, WFMin
<1>2. ASSUME NEW k \in T PROVE m <= k
  <2>1. <<k, m>> \notin {ss \in Nat \X Nat : ss[1] < ss[2]}
    BY <1>1 DEF OpToRel
  <2>2. k \in Nat /\ m \in Nat
    OBVIOUS
  <2> QED
    BY <2>1, <2>2
<1> QED
  BY <1>2

-----------------------------------------------------------------------------
(* The parts of a sequence that the relayer and the indexer serve.           *)
LEMMA SubSeqFacts ==
  ASSUME NEW S, NEW s \in Seq(S), NEW i \in Nat \ {0}, NEW j \in Nat, j <= Len(s)
  PROVE  /\ SubSeq(s, i, j) \in Seq(S)
         /\ Len(SubSeq(s, i, j)) = IF i <= j THEN j - i + 1 ELSE 0
         /\ \A k \in DOMAIN SubSeq(s, i, j) :
              k + i - 1 \in DOMAIN s /\ SubSeq(s, i, j)[k] = s[k + i - 1]
OBVIOUS

LEMMA PageFacts ==
  ASSUME NEW S, NEW s \in Seq(S), NEW first \in Nat, NEW count \in Nat
  PROVE  /\ PageOf(s, first, count) \in Seq(S)
         /\ Len(PageOf(s, first, count)) <= count
         /\ Len(PageOf(s, first, count)) <= Len(s)
         /\ ToSet(PageOf(s, first, count)) \subseteq ToSet(s)
         /\ IsInjective(s) => IsInjective(PageOf(s, first, count))
         /\ first = 0 /\ Len(PageOf(s, first, count)) < count => PageOf(s, first, count) = s
<1> DEFINE last == IF first + count < Len(s) THEN first + count ELSE Len(s)
           p == PageOf(s, first, count)
<1>1. last \in Nat /\ last <= Len(s) /\ last <= first + count
  OBVIOUS
<1>2. p = SubSeq(s, first + 1, last)
  BY DEF PageOf
<1> HIDE DEF last, p
<1>3. /\ p \in Seq(S)
      /\ Len(p) = IF first + 1 <= last THEN last - first ELSE 0
      /\ \A k \in DOMAIN p : k \in Nat /\ k + first \in DOMAIN s /\ p[k] = s[k + first]
  BY <1>1, <1>2, SubSeqFacts
<1>4. Len(p) <= count /\ Len(p) <= Len(s)
  BY <1>1, <1>3
<1>5. ToSet(p) \subseteq ToSet(s)
  BY <1>3 DEF ToSet
<1>6. ASSUME IsInjective(s) PROVE IsInjective(p)
  <2> SUFFICES ASSUME NEW a \in DOMAIN p, NEW b \in DOMAIN p, p[a] = p[b] PROVE a = b
    BY DEF IsInjective
  <2>1. a + first = b + first
    BY <1>3, <1>6 DEF IsInjective
  <2> QED
    BY <1>3, <2>1
<1>7. ASSUME first = 0, Len(p) < count PROVE p = s
  <2>1. last = Len(s)
    BY <1>1, <1>3, <1>7 DEF last
  <2> QED
    BY <1>2, <1>7, <2>1, SubSeqFull
<1> QED
  BY <1>3, <1>4, <1>5, <1>6, <1>7 DEF p

(* Removing an entry from a cache that has each entry once.                  *)
LEMMA RemoveFacts ==
  ASSUME NEW S, NEW s \in Seq(S), IsInjective(s), NEW e
  PROVE  /\ RemoveFirst(s, e) \in Seq(S) /\ IsInjective(RemoveFirst(s, e))
         /\ ToSet(RemoveFirst(s, e)) = ToSet(s) \ {e}
<1> DEFINE r == RemoveFirst(s, e)
<1>1. CASE \E i \in 1..Len(s) : s[i] = e
  <2>1. PICK k \in 1..Len(s) : s[k] = e
    BY <1>1
  <2>2. {i \in 1..Len(s) : s[i] = e} = {k}
    BY <2>1 DEF IsInjective
  <2>3. Min({k}) = k
    BY DEF Min
  <2>4. r = SubSeq(s, 1, k - 1) \o SubSeq(s, k + 1, Len(s))
    BY <1>1, <2>2, <2>3 DEF RemoveFirst, SelectInSeq, RemoveAt
  <2> HIDE DEF r
  <2> DEFINE x == SubSeq(s, 1, k - 1)
             y == SubSeq(s, k + 1, Len(s))
  <2>a. /\ x \in Seq(S) /\ Len(x) = k - 1
        /\ \A i \in 1..(k - 1) : x[i] = s[i]
    OBVIOUS
  <2>b. /\ y \in Seq(S) /\ Len(y) = Len(s) - k
        /\ \A i \in 1..(Len(s) - k) : y[i] = s[i + k]
    OBVIOUS
  <2>c. r = x \o y
    BY <2>4
  <2> HIDE DEF x, y
  <2>d. /\ r \in Seq(S) /\ Len(r) = Len(s) - 1
        /\ \A i \in DOMAIN r : r[i] = IF i <= Len(x) THEN x[i] ELSE y[i - Len(x)]
    <3>1. /\ x \o y \in Seq(S) /\ Len(x \o y) = Len(x) + Len(y)
          /\ \A i \in 1..(Len(x) + Len(y)) :
               (x \o y)[i] = IF i <= Len(x) THEN x[i] ELSE y[i - Len(x)]
      BY <2>a, <2>b, ConcatProperties
    <3>2. r \in Seq(S) /\ Len(r) = Len(x) + Len(y) /\ Len(x) \in Nat /\ Len(y) \in Nat
      BY <2>a, <2>b, <2>c, <3>1
    <3>3. Len(r) = Len(s) - 1 /\ DOMAIN r = 1..(Len(x) + Len(y))
      BY <2>a, <2>b, <3>2
    <3> QED
      BY <2>c, <3>1, <3>2, <3>3
  <2>5. /\ r \in Seq(S) /\ Len(r) = Len(s) - 1
        /\ \A i \in DOMAIN r : i \in Nat /\ r[i] = IF i < k THEN s[i] ELSE s[i + 1]
    <3> SUFFICES ASSUME NEW i \in DOMAIN r
                 PROVE  i \in Nat /\ r[i] = IF i < k THEN s[i] ELSE s[i + 1]
      BY <2>d
    <3>1. i \in 1..(Len(s) - 1) /\ k \in Nat /\ Len(s) \in Nat
      BY <2>d
    <3>2. CASE i < k
      BY <2>a, <2>d, <3>1, <3>2
    <3>3. CASE i >= k
      <4>1. i - (k - 1) \in 1..(Len(s) - k) /\ r[i] = y[i - (k - 1)]
        BY <2>a, <2>d, <3>1, <3>3
      <4>2. PICK j \in 1..(Len(s) - k) : j = i - (k - 1)
        BY <4>1
      <4>3. y[j] = s[j + k]
        BY <2>b
      <4>4. j + k = i + 1
        BY <3>1, <4>2
      <4> QED
        BY <3>1, <3>3, <4>1, <4>2, <4>3, <4>4
    <3> QED
      BY <3>1, <3>2, <3>3
  <2>6. IsInjective(r)
    <3> SUFFICES ASSUME NEW a \in DOMAIN r, NEW b \in DOMAIN r, r[a] = r[b] PROVE a = b
      BY DEF IsInjective
    <3> DEFINE at(i) == IF i < k THEN i ELSE i + 1
    <3>1. k \in Nat /\ Len(s) \in Nat /\ DOMAIN r = 1..(Len(s) - 1)
      BY <2>5
    <3>2. at(a) \in DOMAIN s /\ at(b) \in DOMAIN s
      BY <3>1
    <3>3. r[a] = s[at(a)] /\ r[b] = s[at(b)]
      BY <2>5
    <3>4. at(a) = at(b)
      <4> HIDE DEF at
      <4> QED
        BY <3>2, <3>3 DEF IsInjective
    <3> QED
      BY <3>1, <3>4
  <2>7. ToSet(r) \subseteq ToSet(s) \ {e}
    <3> SUFFICES ASSUME NEW i \in DOMAIN r PROVE r[i] \in ToSet(s) /\ r[i] # e
      BY DEF ToSet
    <3> QED
      BY <2>1, <2>5 DEF ToSet, IsInjective
  <2>8. ToSet(s) \ {e} \subseteq ToSet(r)
    <3> SUFFICES ASSUME NEW i \in DOMAIN s, s[i] # e PROVE s[i] \in ToSet(r)
      BY DEF ToSet
    <3>1. CASE i < k
      BY <2>1, <2>5, <3>1 DEF ToSet
    <3>2. CASE i > k
      <4>0. i \in Nat /\ i <= Len(s) /\ k \in Nat /\ k >= 1 /\ Len(s) \in Nat
            /\ DOMAIN r = 1..(Len(s) - 1)
        BY <2>5
      <4>1. PICK j \in DOMAIN r : j + 1 = i /\ ~(j < k)
        <5>1. i - 1 \in 1..(Len(s) - 1) /\ (i - 1) + 1 = i /\ ~(i - 1 < k)
          BY <3>2, <4>0
        <5> QED
          BY <4>0, <5>1
      <4>2. r[j] = s[i]
        BY <2>5, <4>1
      <4> QED
        BY <4>2 DEF ToSet
    <3> QED
      BY <2>1, <3>1, <3>2
  <2> QED
    BY <2>5, <2>6, <2>7, <2>8 DEF r
<1>2. CASE ~\E i \in 1..Len(s) : s[i] = e
  BY <1>2 DEF RemoveFirst, ToSet
<1> QED
  BY <1>1, <1>2

(* Adding one.                                                               *)
LEMMA AppendFacts ==
  ASSUME NEW A, NEW g \in Seq(A), NEW e \in A, NEW h, h = Append(g, e)
  PROVE  /\ h \in Seq(A) /\ Len(h) = Len(g) + 1
         /\ \A i \in DOMAIN h : \/ i \in DOMAIN g /\ h[i] = g[i]
                                \/ i = Len(g) + 1 /\ h[i] = e
         /\ \A i \in DOMAIN g : i \in DOMAIN h /\ h[i] = g[i]
         /\ Len(g) + 1 \in DOMAIN h /\ h[Len(g) + 1] = e
<1>1. /\ h \in Seq(A) /\ Len(h) = Len(g) + 1 /\ h[Len(g) + 1] = e
      /\ \A i \in 1..Len(g) : h[i] = g[i]
  BY AppendProperties
<1>2. DOMAIN g = 1..Len(g) /\ DOMAIN h = 1..(Len(g) + 1) /\ Len(g) \in Nat
  BY <1>1
<1>3. ASSUME NEW i \in DOMAIN h
      PROVE  (i \in DOMAIN g /\ h[i] = g[i]) \/ (i = Len(g) + 1 /\ h[i] = e)
  <2>1. i \in 1..Len(g) \/ i = Len(g) + 1
    BY <1>2
  <2> QED
    BY <1>1, <1>2, <2>1
<1>4. \A i \in DOMAIN g : i \in DOMAIN h /\ h[i] = g[i]
  BY <1>1, <1>2
<1>5. Len(g) + 1 \in DOMAIN h
  BY <1>2
<1> QED
  BY <1>1, <1>3, <1>4, <1>5

-----------------------------------------------------------------------------
(* The loop over the cache that leaves out what a page holds: the function   *)
(* of its steps exists, ...                                                  *)
Loop(f, n, s, S) ==
  f = [i \in 0..n |->
         IF i = 0 THEN <<>>
         ELSE IF s[i] \in S THEN f[i - 1] ELSE Append(f[i - 1], s[i])]

LEMMA LoopExists ==
  ASSUME NEW s, NEW S, NEW n \in Nat PROVE \E f : Loop(f, n, s, S)
<1> DEFINE T == {m \in Nat : ~\E f : Loop(f, m, s, S)}
<1> SUFFICES T = {}
  OBVIOUS
<1> SUFFICES ASSUME T # {} PROVE FALSE
  OBVIOUS
<1>1. PICK m \in T : \A k \in T : m <= k
  BY LeastElement
<1>2. m # 0
  <2> DEFINE f == [i \in 0..0 |-> <<>>]
  <2>1. Loop(f, 0, s, S)
    BY DEF Loop
  <2> QED
    BY <1>1, <2>1
<1>3. m - 1 \in Nat /\ m - 1 \notin T
  BY <1>1, <1>2
<1>4. PICK g : Loop(g, m - 1, s, S)
  BY <1>3
<1> DEFINE f == [i \in 0..m |-> IF i < m THEN g[i]
                               ELSE IF s[m] \in S THEN g[m - 1] ELSE Append(g[m - 1], s[m])]
<1>5. ASSUME NEW i \in 0..m
      PROVE  f[i] = IF i = 0 THEN <<>>
                    ELSE IF s[i] \in S THEN f[i - 1] ELSE Append(f[i - 1], s[i])
  <2>1. CASE i < m
    <3>1. i \in 0..(m - 1) /\ (i # 0 => i - 1 \in 0..m /\ i - 1 < m)
      BY <1>1, <2>1
    <3>2. g[i] = IF i = 0 THEN <<>>
                 ELSE IF s[i] \in S THEN g[i - 1] ELSE Append(g[i - 1], s[i])
      BY <1>4, <3>1 DEF Loop
    <3> QED
      BY <2>1, <3>1, <3>2
  <2>2. CASE i = m
    BY <1>1, <1>2, <2>2
  <2> QED
    BY <1>1, <2>1, <2>2
<1>6. Loop(f, m, s, S)
  BY <1>5 DEF Loop
<1> QED
  BY <1>1, <1>6

(* ... after n steps it has the first n entries that are not in the page, ... *)
LEMMA LoopFacts ==
  ASSUME NEW A, NEW s \in Seq(A), NEW S, NEW f, Loop(f, Len(s), s, S), IsInjective(s)
  PROVE  \A n \in 0..Len(s) :
           /\ f[n] \in Seq(A) /\ Len(f[n]) <= n
           /\ ToSet(f[n]) = {s[i] : i \in 1..n} \ S
           /\ IsInjective(f[n])
<1> DEFINE P(n) == /\ f[n] \in Seq(A) /\ Len(f[n]) <= n
                   /\ ToSet(f[n]) = {s[i] : i \in 1..n} \ S
                   /\ IsInjective(f[n])
           T == {m \in 0..Len(s) : ~P(m)}
<1> SUFFICES T = {}
  OBVIOUS
<1> SUFFICES ASSUME T # {} PROVE FALSE
  OBVIOUS
<1> HIDE DEF P
<1>0. T \subseteq Nat
  OBVIOUS
<1>1. PICK m \in T : \A k \in T : m <= k
  BY <1>0, LeastElement
<1>2. m \in 0..Len(s) /\ ~P(m)
  BY <1>1
<1>3. \A n \in 0..Len(s) :
        f[n] = IF n = 0 THEN <<>>
               ELSE IF s[n] \in S THEN f[n - 1] ELSE Append(f[n - 1], s[n])
  BY DEF Loop
<1>4. CASE m = 0
  <2>1. f[0] = <<>>
    BY <1>3
  <2>2. ToSet(f[0]) = {} /\ {s[i] : i \in 1..0} = {}
    BY <2>1 DEF ToSet
  <2>3. f[0] \in Seq(A) /\ Len(f[0]) <= 0 /\ IsInjective(f[0])
    BY <2>1 DEF IsInjective
  <2>4. P(0)
    BY <2>2, <2>3 DEF P
  <2> QED
    BY <1>2, <1>4, <2>4
<1>5. CASE m # 0
  <2>1. m - 1 \in 0..Len(s) /\ P(m - 1)
    BY <1>1, <1>2, <1>5
  <2> DEFINE g == f[m - 1]
  <2>2. /\ g \in Seq(A) /\ Len(g) <= m - 1 /\ IsInjective(g)
        /\ ToSet(g) = {s[i] : i \in 1..(m - 1)} \ S
    BY <2>1 DEF P
  <2>3. f[m] = IF s[m] \in S THEN g ELSE Append(g, s[m])
    BY <1>2, <1>3, <1>5
  <2> HIDE DEF g
  <2>4. {s[i] : i \in 1..m} = {s[i] : i \in 1..(m - 1)} \cup {s[m]}
    BY <1>2, <1>5
  <2>5. CASE s[m] \in S
    BY <1>2, <2>2, <2>3, <2>4, <2>5 DEF P
  <2>6. CASE s[m] \notin S
    <3>1. s[m] \in A /\ s[m] \notin ToSet(g)
      BY <1>2, <1>5, <2>2 DEF IsInjective
    <3> DEFINE h == Append(g, s[m])
    <3>2. /\ h \in Seq(A) /\ Len(h) = Len(g) + 1
          /\ \A i \in DOMAIN h : \/ i \in DOMAIN g /\ h[i] = g[i]
                                 \/ i = Len(g) + 1 /\ h[i] = s[m]
          /\ \A i \in DOMAIN g : i \in DOMAIN h /\ h[i] = g[i]
          /\ Len(g) + 1 \in DOMAIN h /\ h[Len(g) + 1] = s[m]
      BY <2>2, <3>1, AppendFacts
    <3> HIDE DEF h
    <3>3. ToSet(h) = ToSet(g) \cup {s[m]}
      BY <3>2 DEF ToSet
    <3>4. IsInjective(h)
      BY <2>2, <3>1, <3>2 DEF IsInjective, ToSet
    <3>5. f[m] = h
      BY <2>3, <2>6 DEF h
    <3>6. Len(h) <= m
      BY <1>2, <2>2, <3>2
    <3> QED
      BY <1>2, <2>2, <2>4, <2>6, <3>2, <3>3, <3>4, <3>5, <3>6 DEF P
  <2> QED
    BY <2>5, <2>6
<1> QED
  BY <1>4, <1>5

(* ... and so has the answer.                                                *)
LEMMA WithoutFacts ==
  ASSUME NEW A, NEW s \in Seq(A), NEW S, IsInjective(s)
  PROVE  /\ Without(s, S) \in Seq(A) /\ Len(Without(s, S)) <= Len(s)
         /\ ToSet(Without(s, S)) = ToSet(s) \ S
         /\ IsInjective(Without(s, S))
<1> DEFINE f == CHOOSE f : Loop(f, Len(s), s, S)
<1>1. Loop(f, Len(s), s, S)
  BY LoopExists
<1>2. Without(s, S) = f[Len(s)]
  BY DEF Without, Loop
<1> HIDE DEF f
<1>3. ToSet(s) = {s[i] : i \in 1..Len(s)}
  BY DEF ToSet
<1> QED
  BY <1>1, <1>2, <1>3, LoopFacts

-----------------------------------------------------------------------------
(* The worker sends one transaction at a time, and the cache has only what   *)
(* was sent; indexes read from the indexer are behind its own.               *)
Sending ==
  /\ \A t \in Txs : phase[t] \in {"onchain", "info", "stored"} => t = sending
  /\ sending # None => phase[sending] \in {"onchain", "info", "stored"}
  /\ \A i \in DOMAIN store : phase[store[i]] \in {"stored", "sent", "lost"}

Behind == start <= confirmed /\ from <= confirmed

Shape == TypeOK /\ Sending /\ Behind /\ IsFiniteSet(entries)

(* What the observer takes for listed is listed, and what was stored stays   *)
(* until then.                                                               *)
KeptInv ==
  /\ seen \subseteq Listed
  /\ \A t \in Txs \ old : phase[t] \in {"stored", "sent"} => t \in Cached \cup Listed

(* A request in progress has a page no longer than the limit, and what it is *)
(* about was sent.                                                           *)
AskInv ==
  query =>
    /\ Len(page) <= PageLimit
    /\ \A t \in due \ old : phase[t] \in {"sent", "reverted"}

LEMMA SeqSetFinite == ASSUME NEW S, NEW s \in Seq(S) PROVE IsFiniteSet(ToSet(s))
<1>1. s \in Surjection(1..Len(s), ToSet(s))
  <2>1. s \in [1..Len(s) -> ToSet(s)]
    BY DEF ToSet
  <2> QED
    BY <2>1 DEF Surjection, ToSet
<1> QED
  BY <1>1, FS_Surjection, FS_Interval

LEMMA ShapeKept ==
  ASSUME Shape, [Next]_vars PROVE Shape'
<1> USE TxCacheAssumption DEF Shape
<1>0. /\ store \in Seq(Txs) /\ IsInjective(store) /\ list \in Seq(Txs \cup Others)
      /\ Len(list) \in Nat /\ confirmed \in 0..Len(list) /\ start \in Nat /\ from \in Nat
      /\ phase \in [Txs -> Phases] /\ limit \in Nat /\ mishaps \in 0..MaxMishaps
      /\ entries \subseteq Txs /\ None \notin Txs /\ IsFiniteSet(entries)
  BY DEF TypeOK
<1>1. CASE \E t \in Txs \cup Others : IndexerLists(t)
  <2>1. PICK t \in Txs \cup Others : IndexerLists(t)
    BY <1>1
  <2>2. list' \in Seq(Txs \cup Others) /\ Len(list') = Len(list) + 1
    BY <1>0, <2>1, AppendFacts DEF IndexerLists
  <2> QED
    BY <1>0, <2>1, <2>2 DEF IndexerLists, TypeOK, Sending, Behind, sendVars, cacheVars, obsVars,
       askVars
<1>2. CASE IndexerConfirms
  BY <1>0, <1>2 DEF IndexerConfirms, TypeOK, Sending, Behind, sendVars, cacheVars, obsVars,
     askVars
<1>3. CASE \E t \in Txs : Send(t)
  <2>1. PICK t \in Txs : Send(t)
    BY <1>3
  <2>2. TypeOK'
    BY <1>0, <2>1 DEF Send, TypeOK, Phases, cacheVars, indexVars, obsVars, askVars
  <2>3. Sending'
    BY <1>0, <2>1 DEF Send, Sending, cacheVars
  <2> QED
    BY <2>1, <2>2, <2>3 DEF Send, Behind, indexVars, obsVars
<1>4. CASE SendInfo
  <2>1. TypeOK'
    BY <1>0, <1>4 DEF SendInfo, TypeOK, Phases, cacheVars, indexVars, obsVars, askVars
  <2>2. Sending'
    BY <1>0, <1>4 DEF SendInfo, Sending, cacheVars, TypeOK
  <2> QED
    BY <1>0, <1>4, <2>1, <2>2 DEF SendInfo, Behind, indexVars, obsVars
<1>5. CASE SendInfoFails
  <2>1. TypeOK'
    BY <1>0, <1>5 DEF SendInfoFails, TypeOK, Phases, cacheVars, indexVars, obsVars, askVars,
       Mishap
  <2>2. Sending'
    BY <1>0, <1>5 DEF SendInfoFails, Sending, cacheVars, TypeOK
  <2> QED
    BY <1>0, <1>5, <2>1, <2>2 DEF SendInfoFails, Behind, indexVars, obsVars
<1>6. CASE SendStore
  <2>1. /\ sending \in Txs /\ phase[sending] = "info" /\ store' = Append(store, sending)
        /\ \A i \in DOMAIN store : store[i] # sending
    BY <1>0, <1>6 DEF SendStore, Sending, TypeOK
  <2>2. /\ store' \in Seq(Txs)
        /\ \A i \in DOMAIN store' : \/ i \in DOMAIN store /\ store'[i] = store[i]
                                    \/ i = Len(store) + 1 /\ store'[i] = sending
    BY <1>0, <2>1, AppendFacts
  <2>3. IsInjective(store')
    BY <1>0, <2>1, <2>2 DEF IsInjective
  <2>4. TypeOK'
    BY <1>0, <1>6, <2>1, <2>2, <2>3 DEF SendStore, TypeOK, Phases, indexVars, obsVars, askVars
  <2>5. Sending'
    BY <1>0, <1>6, <2>1, <2>2 DEF SendStore, Sending
  <2> QED
    BY <1>6, <2>4, <2>5 DEF SendStore, Behind, indexVars, obsVars
<1>7. CASE SendStart
  <2>1. /\ sending \in Txs /\ phase' = [phase EXCEPT ![sending] = "sent"] /\ sending' = None
        /\ UNCHANGED <<store, old, list, confirmed, entries>> /\ start' = 0
    BY <1>0, <1>7 DEF SendStart, TypeOK, cacheVars, indexVars
  <2>2. StartIndex \in Nat /\ StartIndex <= start
    BY <1>0 DEF StartIndex, Larger
  <2>3. from' \in Nat /\ from' <= confirmed'
    BY <1>0, <1>7, <2>1, <2>2 DEF SendStart, Behind
  <2>4. TypeOK'
    BY <1>0, <1>7, <2>1, <2>3 DEF SendStart, TypeOK, Phases, Steps, askVars
  <2>5. Sending'
    BY <1>0, <2>1 DEF Sending
  <2> QED
    BY <1>0, <2>1, <2>3, <2>4, <2>5 DEF Behind
<1>8. CASE \E t \in Txs : SentFails(t)
  <2>1. PICK t \in Txs : SentFails(t)
    BY <1>8
  <2>2. /\ store' \in Seq(Txs) /\ IsInjective(store') /\ ToSet(store') = ToSet(store) \ {t}
    BY <1>0, <2>1, RemoveFacts DEF SentFails
  <2>3. TypeOK'
    BY <1>0, <2>1, <2>2 DEF SentFails, TypeOK, Phases, indexVars, obsVars, askVars
  <2>4. Sending'
    <3>1. \A i \in DOMAIN store' : store'[i] # t /\ \E k \in DOMAIN store : store[k] = store'[i]
      BY <2>2 DEF ToSet
    <3>2. \A u \in Txs : u # t => phase'[u] = phase[u]
      BY <1>0, <2>1 DEF SentFails
    <3>3. \A i \in DOMAIN store' : store'[i] \in Txs
      BY <2>2
    <3> QED
      BY <1>0, <2>1, <3>1, <3>2, <3>3 DEF SentFails, Sending
  <2> QED
    BY <2>1, <2>3, <2>4 DEF SentFails, Behind, indexVars, obsVars
<1>9. CASE ObserverReads
  <2>1. Cached \subseteq Txs /\ IsFiniteSet(Cached)
    BY <1>0, SeqSetFinite DEF Cached, ToSet
  <2> QED
    BY <1>0, <1>9, <2>1 DEF ObserverReads, TypeOK, Sending, Behind, Steps, sendVars, cacheVars,
       indexVars, askVars
<1>10. CASE ObserverInfo
  <2>1. Cardinality(entries) \in Nat
    BY <1>0, FS_CardinalityType
  <2>2. limit' \in Nat
    BY <1>0, <1>10, <2>1 DEF ObserverInfo, Behind
  <2> QED
    BY <1>0, <1>10, <2>2 DEF ObserverInfo, TypeOK, Sending, Behind, Steps, sendVars, cacheVars,
       indexVars, askVars
<1>11. CASE ObserverFetches
  BY <1>0, <1>11 DEF ObserverFetches, TypeOK, Sending, Behind, Steps, sendVars, cacheVars,
     indexVars, askVars
<1>12. CASE \E t \in Txs : ObserverRemoves(t)
  <2>1. PICK t \in Txs : ObserverRemoves(t)
    BY <1>12
  <2>2. /\ store' \in Seq(Txs) /\ IsInjective(store') /\ ToSet(store') = ToSet(store) \ {t}
    BY <1>0, <2>1, RemoveFacts DEF ObserverRemoves
  <2>3. IsFiniteSet(entries')
    BY <1>0, <2>1, FS_RemoveElement DEF ObserverRemoves
  <2>4. TypeOK'
    BY <1>0, <2>1, <2>2 DEF ObserverRemoves, TypeOK, sendVars, indexVars, askVars
  <2>5. Sending'
    <3>1. \A i \in DOMAIN store' : \E k \in DOMAIN store : store[k] = store'[i]
      BY <2>2 DEF ToSet
    <3> QED
      BY <2>1, <3>1 DEF ObserverRemoves, Sending, sendVars
  <2> QED
    BY <2>1, <2>3, <2>4, <2>5 DEF ObserverRemoves, Behind, sendVars, indexVars
<1>13. CASE ObserverLoops \/ ObserverFails \/ ObserverEnds
  <2>1. IsFiniteSet(entries')
    BY <1>13, FS_EmptySet DEF ObserverLoops, ObserverFails, ObserverEnds
  <2>2. CASE ObserverLoops
    BY <1>0, <2>1, <2>2 DEF ObserverLoops, TypeOK, Sending, Behind, Steps, sendVars, cacheVars,
       indexVars, askVars
  <2>3. CASE ObserverFails
    BY <1>0, <2>1, <2>3 DEF ObserverFails, TypeOK, Sending, Behind, Steps, sendVars, cacheVars,
       indexVars, askVars, Mishap
  <2>4. CASE ObserverEnds
    BY <1>0, <2>1, <2>4 DEF ObserverEnds, TypeOK, Sending, Behind, Steps, sendVars, cacheVars,
       indexVars, askVars
  <2> QED
    BY <1>13, <2>2, <2>3, <2>4
<1>14. CASE \E t \in Txs : Expire(t)
  BY <1>0, <1>14 DEF Expire, TypeOK, Sending, Behind, sendVars, indexVars, obsVars, askVars,
     Mishap
<1>15. CASE Crash
  <2>1. IsFiniteSet(entries')
    BY <1>15, FS_EmptySet DEF Crash
  <2>2. TypeOK'
    <3>1. page' = <<>> /\ page' \in Seq(Txs \cup Others)
      BY <1>15 DEF Crash, ClearQuery
    <3>2. phase' \in [Txs -> Phases] /\ sending' = None /\ start' = 0
      BY <1>0, <1>15 DEF Crash, Phases
    <3>3. /\ observer' \in Steps /\ from' = 0 /\ entries' = {} /\ limit' = 0 /\ seen' = {}
          /\ query' = FALSE /\ due' = {}
      BY <1>15 DEF Crash, ClearQuery, Steps
    <3>5. mishaps' \in 0..MaxMishaps
      BY <1>0, <1>15 DEF Crash, Mishap
    <3>4. UNCHANGED <<store, old, list, confirmed>>
      BY <1>15 DEF Crash, cacheVars, indexVars
    <3> QED
      BY <1>0, <3>1, <3>2, <3>3, <3>4, <3>5 DEF TypeOK
  <2>3. Sending'
    BY <1>0, <1>15 DEF Crash, Sending, TypeOK, cacheVars
  <2> QED
    BY <1>0, <1>15, <2>1, <2>2, <2>3 DEF Crash, Behind, indexVars
<1>16. CASE \E offset \in 0..Len(list) : Ask(offset)
  <2>1. PICK offset \in 0..Len(list) : Ask(offset)
    BY <1>16
  <2>2. page' \in Seq(Txs \cup Others)
    BY <1>0, <2>1, PageFacts DEF Ask
  <2>3. due' \subseteq Txs
    BY <2>1 DEF Ask, OnTheirWay
  <2> QED
    BY <1>0, <2>1, <2>2, <2>3 DEF Ask, TypeOK, Sending, Behind, sendVars, cacheVars, indexVars,
       obsVars
<1>17. CASE Reply
  <2>1. page' = <<>> /\ page' \in Seq(Txs \cup Others)
    BY <1>17 DEF Reply, ClearQuery
  <2> QED
    BY <1>0, <1>17, <2>1 DEF Reply, ClearQuery, TypeOK, Sending, Behind, sendVars, cacheVars,
       indexVars, obsVars
<1>18. CASE UNCHANGED vars
  BY <1>18 DEF TypeOK, Sending, Behind, vars, sendVars, cacheVars, indexVars, obsVars, askVars
<1> QED
  BY <1>1, <1>2, <1>3, <1>4, <1>5, <1>6, <1>7, <1>8, <1>9, <1>10, <1>11, <1>12, <1>13,
     <1>14, <1>15, <1>16, <1>17, <1>18 DEF Next, Sender, Observer, Indexer, Client

LEMMA ShapeAlways == Spec => []Shape
<1>1. Init => Shape
  <2> SUFFICES ASSUME Init PROVE Shape
    OBVIOUS
  <2>1. /\ store = <<>> /\ store \in Seq(Txs) /\ IsInjective(store)
        /\ list = <<>> /\ list \in Seq(Txs \cup Others) /\ Len(list) = 0
        /\ page = <<>> /\ page \in Seq(Txs \cup Others)
    BY DEF Init, IsInjective
  <2>2. TypeOK
    <3>1. phase \in [Txs -> Phases] /\ observer \in Steps /\ query \in BOOLEAN
      BY DEF Init, Phases, Steps
    <3>2. /\ sending = None /\ start = 0 /\ old = {} /\ confirmed = 0 /\ from = 0
          /\ entries = {} /\ limit = 0 /\ seen = {} /\ due = {} /\ mishaps = 0
      BY DEF Init
    <3>3. mishaps \in 0..MaxMishaps /\ confirmed \in 0..Len(list)
      BY TxCacheAssumption, <2>1, <3>2
    <3> QED
      BY <2>1, <3>1, <3>2, <3>3 DEF TypeOK
  <2>3. Sending /\ Behind /\ IsFiniteSet(entries)
    BY TxCacheAssumption, <2>1, FS_EmptySet DEF Init, Sending, Behind
  <2> QED
    BY <2>2, <2>3 DEF Shape
<1> QED
  BY <1>1, ShapeKept, PTL DEF Spec

(* Type correctness: no entry is stored twice, and the observer that is not  *)
(* running has forgotten where it began.                                     *)
THEOREM TypeCorrect == Spec => []TypeOK
<1>1. Shape => TypeOK
  BY DEF Shape
<1> QED
  BY <1>1, ShapeAlways, PTL

-----------------------------------------------------------------------------
(* What the parts of a step do to the cache and to the indexer's list: the   *)
(* list only grows, and an entry only leaves the cache once it reverted, was *)
(* listed or is too old.                                                     *)
LEMMA ListGrows ==
  ASSUME Shape, [Next]_vars PROVE Listed \subseteq Listed'
<1>0. list \in Seq(Txs \cup Others)
  BY DEF Shape, TypeOK
<1>1. CASE UNCHANGED list
  BY <1>1 DEF Listed
<1>2. CASE \E t \in Txs \cup Others : IndexerLists(t)
  <2>1. PICK t \in Txs \cup Others : IndexerLists(t)
    BY <1>2
  <2>2. list' = Append(list, t)
    BY <2>1 DEF IndexerLists
  <2>3. \A i \in DOMAIN list : i \in DOMAIN list' /\ list'[i] = list[i]
    BY <1>0, <2>2, AppendFacts
  <2> QED
    BY <2>3 DEF Listed, ToSet
<1>3. UNCHANGED list \/ \E t \in Txs \cup Others : IndexerLists(t)
  BY DEF Next, Sender, Observer, Indexer, Client, IndexerConfirms, Send, SendInfo, SendInfoFails,
     SendStore, SendStart, SentFails, ObserverReads, ObserverInfo, ObserverFetches,
     ObserverRemoves, ObserverLoops, ObserverFails, ObserverEnds, Expire, Crash, Ask, Reply,
     vars, indexVars
<1> QED
  BY <1>1, <1>2, <1>3

LEMMA CacheStep ==
  ASSUME Shape, [Next]_vars
  PROVE  \/ ~SendStore /\ UNCHANGED <<store, old>> /\ Cached' = Cached
         \/ SendStore /\ Cached' = Cached \cup {sending} /\ UNCHANGED old
         \/ \E t \in Txs : SentFails(t) /\ Cached' = Cached \ {t} /\ UNCHANGED old
         \/ \E t \in Txs : ObserverRemoves(t) /\ Cached' = Cached \ {t} /\ UNCHANGED old
         \/ \E t \in Txs : Expire(t) /\ Cached' = Cached /\ old' = old \cup {t}
<1>0. store \in Seq(Txs) /\ IsInjective(store) /\ sending \in Txs \cup {None}
  BY DEF Shape, TypeOK
<1>1. CASE SendStore
  <2>1. sending \in Txs /\ store' = Append(store, sending) /\ UNCHANGED old
    BY <1>0, <1>1 DEF SendStore
  <2>2. /\ \A i \in DOMAIN store' : \/ i \in DOMAIN store /\ store'[i] = store[i]
                                    \/ i = Len(store) + 1 /\ store'[i] = sending
        /\ \A i \in DOMAIN store : i \in DOMAIN store' /\ store'[i] = store[i]
        /\ Len(store) + 1 \in DOMAIN store' /\ store'[Len(store) + 1] = sending
    BY <1>0, <2>1, AppendFacts
  <2>3. Cached' = Cached \cup {sending}
    BY <2>2 DEF Cached, ToSet
  <2> QED
    BY <1>1, <2>1, <2>3
<1>2. CASE \E t \in Txs : SentFails(t)
  <2>1. PICK t \in Txs : SentFails(t)
    BY <1>2
  <2>2. Cached' = Cached \ {t} /\ UNCHANGED old
    BY <1>0, <2>1, RemoveFacts DEF SentFails, Cached
  <2> QED
    BY <2>1, <2>2
<1>3. CASE \E t \in Txs : ObserverRemoves(t)
  <2>1. PICK t \in Txs : ObserverRemoves(t)
    BY <1>3
  <2>2. Cached' = Cached \ {t} /\ UNCHANGED old
    BY <1>0, <2>1, RemoveFacts DEF ObserverRemoves, Cached
  <2> QED
    BY <2>1, <2>2
<1>4. CASE \E t \in Txs : Expire(t)
  BY <1>4 DEF Expire, Cached
<1>5. CASE ~SendStore /\ UNCHANGED <<store, old>>
  BY <1>5 DEF Cached
<1>6. \/ SendStore \/ UNCHANGED <<store, old>>
      \/ \E t \in Txs : SentFails(t) \/ ObserverRemoves(t) \/ Expire(t)
  BY DEF Next, Sender, Observer, Indexer, Client, IndexerConfirms, IndexerLists, Send, SendInfo,
     SendInfoFails, SendStart, ObserverReads, ObserverInfo, ObserverFetches,
     ObserverLoops, ObserverFails, ObserverEnds, Crash, Ask, Reply, vars, cacheVars
<1> QED
  BY <1>1, <1>2, <1>3, <1>4, <1>5, <1>6

LEMMA PhaseStep ==
  ASSUME Shape, [Next]_vars, NEW t \in Txs
  PROVE  \/ phase'[t] = phase[t]
         \/ phase[t] = "new" /\ phase'[t] = "onchain"
         \/ phase[t] = "onchain" /\ phase'[t] \in {"info", "lost"}
         \/ SendStore /\ t = sending /\ phase[t] = "info" /\ phase'[t] = "stored"
         \/ phase[t] = "stored" /\ phase'[t] = "sent"
         \/ SentFails(t) /\ phase[t] = "sent" /\ phase'[t] = "reverted"
         \/ phase[t] \in {"info", "stored"} /\ phase'[t] = "lost"
<1>0. phase \in [Txs -> Phases] /\ Sending
  BY DEF Shape, TypeOK
<1>1. CASE \E u \in Txs : Send(u) \/ SentFails(u)
  BY <1>0, <1>1 DEF Send, SentFails
<1>2. CASE Sender \/ SendInfoFails
  BY <1>0, <1>2 DEF Sender, SendInfo, SendStore, SendStart, SendInfoFails
<1>3. CASE Crash
  BY <1>0, <1>3 DEF Crash, Sending
<1>4. CASE UNCHANGED phase
  BY <1>4
<1>5. \/ Sender \/ SendInfoFails \/ Crash \/ UNCHANGED phase
      \/ \E u \in Txs : Send(u) \/ SentFails(u)
  BY DEF Next, Observer, Indexer, Client, IndexerConfirms, IndexerLists, ObserverReads,
     ObserverInfo, ObserverFetches, ObserverRemoves, ObserverLoops, ObserverFails, ObserverEnds,
     Expire, Ask, Reply, vars, sendVars
<1> QED
  BY <1>1, <1>2, <1>3, <1>4, <1>5

LEMMA KeptInvKept ==
  ASSUME Shape, KeptInv, [Next]_vars PROVE KeptInv'
<1>1. Listed \subseteq Listed'
  BY ListGrows
<1>2. seen' \subseteq Listed'
  <2>1. \/ seen' = seen \/ seen' = {} \/ ObserverFetches
    BY DEF Next, Sender, Observer, Indexer, Client, IndexerConfirms, IndexerLists, Send, SendInfo,
       SendInfoFails, SendStore, SendStart, SentFails, ObserverReads, ObserverInfo,
       ObserverRemoves, ObserverLoops, ObserverFails, ObserverEnds, Expire, Crash, Ask, Reply,
       vars, obsVars
  <2>2. CASE ObserverFetches
    <3>1. list \in Seq(Txs \cup Others) /\ from \in Nat /\ limit \in Nat
      BY DEF Shape, TypeOK
    <3>2. ToSet(PageOf(list, from, limit)) \subseteq Listed
      BY <3>1, PageFacts DEF Listed
    <3> QED
      BY <1>1, <2>2, <3>2 DEF ObserverFetches
  <2> QED
    BY <1>1, <2>1, <2>2 DEF KeptInv
<1>3. ASSUME NEW t \in Txs \ old', phase'[t] \in {"stored", "sent"}
      PROVE  t \in Cached' \cup Listed'
  <2>1. old \subseteq old'
    BY CacheStep
  <2>2. CASE SendStore /\ t = sending
    <3>1. phase'[t] # phase[t] /\ sending # None
      BY <2>2, TxCacheAssumption DEF SendStore, Shape, TypeOK
    <3>2. \A u \in Txs : ~SentFails(u) /\ ~ObserverRemoves(u) /\ ~Expire(u)
      BY <3>1 DEF SentFails, ObserverRemoves, Expire, sendVars
    <3> QED
      BY <2>2, <3>2, CacheStep
  <2>3. CASE ~(SendStore /\ t = sending)
    <3>1. phase[t] \in {"stored", "sent"} /\ ~SentFails(t)
      BY <1>3, <2>3, PhaseStep DEF Shape, TypeOK, SentFails
    <3>2. t \in Cached \cup Listed
      BY <1>3, <2>1, <3>1 DEF KeptInv
    <3>3. CASE ObserverRemoves(t)
      BY <1>1, <1>3, <2>1, <3>3 DEF ObserverRemoves, Removable, KeptInv
    <3>4. CASE ~ObserverRemoves(t)
      BY <1>1, <3>1, <3>2, <3>4, CacheStep
    <3> QED
      BY <3>3, <3>4
  <2> QED
    BY <2>2, <2>3
<1> QED
  BY <1>1, <1>2, <1>3 DEF KeptInv

LEMMA AskInvKept ==
  ASSUME Shape, KeptInv, AskInv, [Next]_vars PROVE AskInv'
<1> SUFFICES ASSUME query' PROVE AskInv'
  BY DEF AskInv
<1>1. \/ \E offset \in 0..Len(list) : Ask(offset)
      \/ query /\ UNCHANGED <<page, due>>
  BY DEF Next, Sender, Observer, Indexer, IndexerConfirms, IndexerLists, Send, SendInfo,
     SendInfoFails, SendStore, SendStart, SentFails, ObserverReads, ObserverInfo,
     ObserverRemoves, ObserverFetches, ObserverLoops, ObserverFails, ObserverEnds, Expire, Crash,
     Reply, ClearQuery, Client, vars, askVars
<1>2. old \subseteq old'
  BY CacheStep
<1>3. CASE \E offset \in 0..Len(list) : Ask(offset)
  <2>1. PICK offset \in 0..Len(list) : Ask(offset)
    BY <1>3
  <2>2. list \in Seq(Txs \cup Others) /\ PageLimit \in Nat /\ offset \in Nat
    BY TxCacheAssumption DEF Shape, TypeOK
  <2>3. /\ page' = PageOf(list, offset, PageLimit) /\ due' \subseteq OnTheirWay
        /\ UNCHANGED <<phase, old>>
    BY <2>1 DEF Ask, sendVars, cacheVars
  <2>4. Len(page') <= PageLimit
    BY <2>2, <2>3, PageFacts
  <2> QED
    BY <2>3, <2>4 DEF AskInv, OnTheirWay
<1>4. CASE query /\ UNCHANGED <<page, due>>
  <2>1. ASSUME NEW t \in due' \ old' PROVE phase'[t] \in {"sent", "reverted"}
    <3>1. t \in Txs /\ phase[t] \in {"sent", "reverted"}
      BY <1>2, <1>4, <2>1 DEF AskInv, Shape, TypeOK
    <3> QED
      BY <3>1, PhaseStep
  <2> QED
    BY <1>4, <2>1 DEF AskInv
<1> QED
  BY <1>1, <1>3, <1>4

LEMMA KeptAlways == Spec => [](Shape /\ KeptInv /\ AskInv)
<1>1. Init => KeptInv /\ AskInv
  BY DEF Init, KeptInv, AskInv
<1>2. Shape /\ KeptInv /\ AskInv /\ [Next]_vars => (KeptInv /\ AskInv)'
  BY KeptInvKept, AskInvKept
<1> QED
  BY <1>1, <1>2, ShapeAlways, PTL DEF Spec

(* A transaction whose job is SENT is in the cache until the indexer lists   *)
(* it or it is too old, whatever moment the observer's reads are from.       *)
THEOREM SentIsKept == Spec => []KeptUntilIndexed
<1>1. KeptInv => KeptUntilIndexed
  BY DEF KeptInv, KeptUntilIndexed
<1> QED
  BY <1>1, KeptAlways, PTL

-----------------------------------------------------------------------------
(* The answer: the page, and after it what is left of the cache, as far as   *)
(* there is room.                                                            *)
LEMMA AnswerFacts ==
  ASSUME Shape, AskInv, query, Len(Answer) < PageLimit
  PROVE  ToSet(Answer) = ToSet(page) \cup Cached
<1> DEFINE A == Txs \cup Others
           rest == PageOf(NotInPage, 0, Room)
<1>1. /\ page \in Seq(A) /\ Len(page) \in Nat /\ PageLimit \in Nat
      /\ store \in Seq(Txs) /\ IsInjective(store)
  BY TxCacheAssumption DEF Shape, TypeOK
<1>2. Len(page) <= PageLimit
  BY DEF AskInv
<1>3. Room \in Nat /\ Room = PageLimit - Len(page)
  BY <1>1, <1>2 DEF Room
<1>4. NotInPage \in Seq(Txs) /\ ToSet(NotInPage) = Cached \ ToSet(page)
  BY <1>1, WithoutFacts DEF NotInPage, Cached
<1>5. rest \in Seq(Txs) /\ (Len(rest) < Room => rest = NotInPage)
  BY <1>3, <1>4, PageFacts
<1>6. Answer = page \o rest
  BY DEF Answer
<1> HIDE DEF rest
<1>7. rest \in Seq(A) /\ Len(rest) \in Nat
  BY <1>5
<1>8. /\ Len(Answer) = Len(page) + Len(rest) /\ DOMAIN Answer = 1..(Len(page) + Len(rest))
      /\ \A i \in DOMAIN Answer :
           Answer[i] = IF i <= Len(page) THEN page[i] ELSE rest[i - Len(page)]
  <2>1. /\ page \o rest \in Seq(A) /\ Len(page \o rest) = Len(page) + Len(rest)
        /\ \A i \in 1..(Len(page) + Len(rest)) :
             (page \o rest)[i] = IF i <= Len(page) THEN page[i] ELSE rest[i - Len(page)]
    BY <1>1, <1>7, ConcatProperties
  <2> QED
    BY <1>6, <2>1
<1>9. DOMAIN page = 1..Len(page) /\ DOMAIN rest = 1..Len(rest)
  BY <1>1, <1>7
<1>10. rest = NotInPage
  BY <1>1, <1>3, <1>5, <1>7, <1>8
<1>11. ToSet(Answer) = ToSet(page) \cup ToSet(rest)
  <2>1. \A i \in DOMAIN Answer :
          \/ i \in DOMAIN page /\ Answer[i] = page[i]
          \/ i - Len(page) \in DOMAIN rest /\ Answer[i] = rest[i - Len(page)]
    BY <1>1, <1>7, <1>8, <1>9
  <2>2. ToSet(Answer) \subseteq ToSet(page) \cup ToSet(rest)
    BY <2>1 DEF ToSet
  <2>3. \A i \in DOMAIN page : i \in DOMAIN Answer /\ Answer[i] = page[i]
    BY <1>1, <1>7, <1>8, <1>9
  <2>4. ASSUME NEW i \in DOMAIN rest
        PROVE  i + Len(page) \in DOMAIN Answer /\ Answer[i + Len(page)] = rest[i]
    BY <1>1, <1>7, <1>8, <1>9
  <2> QED
    BY <2>2, <2>3, <2>4 DEF ToSet
<1> QED
  BY <1>4, <1>10, <1>11

(* An answer shorter than the limit has all that a client was told of before *)
(* it asked, unless it reverted, aged out or was listed in the meantime.     *)
THEOREM NothingMissing == Spec => []AnswerComplete
<1>1. Shape /\ KeptInv /\ AskInv => AnswerComplete
  <2> SUFFICES ASSUME Shape, KeptInv, AskInv, query, Len(Answer) < PageLimit,
                      NEW t \in due \ old, phase[t] # "reverted"
               PROVE  t \in ToSet(Answer) \cup Listed
    BY DEF AnswerComplete
  <2>1. t \in Txs /\ phase[t] = "sent"
    BY DEF AskInv, Shape, TypeOK
  <2>2. t \in Cached \cup Listed
    BY <2>1 DEF KeptInv
  <2> QED
    BY <2>2, AnswerFacts
<1> QED
  BY <1>1, KeptAlways, PTL

-----------------------------------------------------------------------------
(* The layout of calldata: sequences of digits of a known length, joined and *)
(* cut.                                                                      *)
Names == {"selector", "version", "nullifier", "outCommit", "transferIndex", "energyAmount",
          "tokenAmount", "tx", "rootAfter", "tree", "txType", "memoSize", "signature",
          "amountOrDeadline", "address", "transactFee", "proxy", "prover",
          "treeUpdateFee", "length", "items", "commonPrefix", "notes"} \cup Attempts
Digits == (Names \X Nat) \cup {"1"}
Word(q, n) == q \in Seq(Digits) /\ Len(q) = n

LEMMA HexWord ==
  ASSUME NEW name \in Names, NEW bytes \in Nat, NEW n \in Nat, n = 2 * bytes
  PROVE  Word(Hex(name, bytes), n)
<1>1. \A i \in 1..n : <<name, i>> \in Digits
  BY DEF Digits
<1>2. Hex(name, bytes) = [i \in 1..n |-> <<name, i>>]
  BY DEF Hex
<1> QED
  BY <1>1, <1>2 DEF Word

LEMMA Join ==
  ASSUME NEW m \in Nat, NEW n \in Nat, NEW k, k = m + n,
         NEW a, Word(a, m), NEW b, Word(b, n)
  PROVE  Word(a \o b, k)
BY DEF Word

(* A cut that does not reach the second part, one that starts in it, and one *)
(* that takes all.                                                           *)
LEMMA Cuts ==
  ASSUME NEW m \in Nat, NEW n \in Nat, NEW i \in Nat, NEW e \in Nat,
         NEW a, Word(a, m), NEW b, Word(b, n)
  PROVE  /\ e <= m => Slice(a \o b, i, e) = Slice(a, i, e)
         /\ m <= i /\ i <= e /\ e <= m + n => Slice(a \o b, i, e) = Slice(b, i - m, e - m)
         /\ m <= e => Slice(a, 0, e) = a
<1> DEFINE c == a \o b
<1>1. /\ c \in Seq(Digits) /\ Len(c) = m + n /\ Len(a) = m /\ Len(b) = n
      /\ a \in Seq(Digits) /\ b \in Seq(Digits)
      /\ \A k \in 1..m : c[k] = a[k]
      /\ \A k \in 1..n : c[k + m] = b[k]
  BY DEF Word
<1> HIDE DEF c
<1>2. ASSUME e <= m PROVE Slice(c, i, e) = Slice(a, i, e)
  <2>1. Slice(c, i, e) = SubSeq(c, i + 1, e) /\ Slice(a, i, e) = SubSeq(a, i + 1, e)
    BY <1>1, <1>2 DEF Slice
  <2>2. SubSeq(c, i + 1, e) = SubSeq(a, i + 1, e)
    BY <1>1, <1>2
  <2> QED
    BY <2>1, <2>2
<1>3. ASSUME m <= i, i <= e, e <= m + n PROVE Slice(c, i, e) = Slice(b, i - m, e - m)
  <2>1. PICK d \in Nat, l \in Nat : d = i - m /\ l = e - m
    BY <1>3
  <2>2. Slice(c, i, e) = SubSeq(c, i + 1, e) /\ Slice(b, d, l) = SubSeq(b, d + 1, l)
    <3>1. /\ e = IF e < Len(c) THEN e ELSE Len(c)
          /\ l = IF l < Len(b) THEN l ELSE Len(b)
      BY <1>1, <1>3, <2>1
    <3> QED
      BY <3>1 DEF Slice
  <2>3. SubSeq(c, i + 1, e) = SubSeq(b, d + 1, l)
    BY <1>1, <1>3, <2>1
  <2> QED
    BY <2>1, <2>2, <2>3
<1>4. ASSUME m <= e PROVE Slice(a, 0, e) = a
  <2>1. Slice(a, 0, e) = SubSeq(a, 1, Len(a))
    BY <1>1, <1>4 DEF Slice
  <2> QED
    BY <1>1, <2>1
<1> QED
  BY <1>2, <1>3, <1>4 DEF c

(* A field between others is what a cut at its place finds.                  *)
LEMMA Field ==
  ASSUME NEW m \in Nat, NEW n \in Nat, NEW k \in Nat, NEW e \in Nat, e = m + n,
         NEW a, Word(a, m), NEW f, Word(f, n), NEW b, Word(b, k)
  PROVE  /\ Slice(a \o f, m, e) = f
         /\ Slice((a \o f) \o b, m, e) = f
<1>1. Word(a \o f, e)
  BY Join
<1>2. Slice(a \o f, m, e) = Slice(f, m - m, e - m)
  BY Cuts
<1>3. m - m = 0 /\ e - m = n
  OBVIOUS
<1>4. Slice(f, 0, n) = f
  BY Cuts
<1>5. Slice((a \o f) \o b, m, e) = Slice(a \o f, m, e)
  BY <1>1, Cuts
<1> QED
  BY <1>2, <1>3, <1>4, <1>5

LEMMA Appended ==
  ASSUME NEW m \in Nat, NEW n \in Nat, NEW k \in Nat, k = m + n,
         NEW a, Word(a, m), NEW b, Word(b, n)
  PROVE  /\ Word(a \o b, k)
         /\ \A i \in Nat : \A e \in Nat : e <= m => Slice(a \o b, i, e) = Slice(a, i, e)
BY Join, Cuts

(* The message is what is left of a memo without the prefix of its type.     *)
LEMMA MessageFacts ==
  /\ Word(Message, 14)
  /\ Slice(Message, 4, 8) = Hex("commonPrefix", 2)
<1> DEFINE a == Hex("items", 2) b == Hex("commonPrefix", 2) c == Hex("notes", 3)
<1>1. Word(a, 4)
  BY HexWord DEF Names
<1>2. Word(b, 4)
  BY HexWord DEF Names
<1>3. Word(c, 6)
  BY HexWord DEF Names
<1>4. Message = (a \o b) \o c
  BY DEF Message
<1> HIDE DEF a, b, c
<1>5. Word(a \o b, 8)
  BY <1>1, <1>2, Join
<1>6. Word(Message, 14)
  BY <1>3, <1>4, <1>5, Join
<1>7. Slice(Message, 4, 8) = b
  BY <1>1, <1>2, <1>3, <1>4, Field
<1> QED
  BY <1>6, <1>7 DEF b

LEMMA SpecificFacts ==
  ASSUME NEW type \in TxTypes
  PROVE  Word(Specific(type), IF type \in {"DEPOSIT", "TRANSFER"} THEN 0 ELSE 56)
<1> DEFINE a == Hex("amountOrDeadline", 8) b == Hex("address", 20)
<1>1. Word(a, 16)
  BY HexWord DEF Names
<1>2. Word(b, 40)
  BY HexWord DEF Names
<1> HIDE DEF a, b
<1>3. Word(a \o b, 56)
  BY <1>1, <1>2, Join
<1>4. Word(<<>>, 0)
  BY DEF Word
<1> QED
  BY <1>3, <1>4 DEF Specific, TxTypes, a, b

(* What the type puts in front of the message is as long as the prefix that  *)
(* both processes cut off.                                                   *)
LEMMA HeadFacts ==
  ASSUME NEW version \in Versions, NEW type \in TxTypes
  PROVE  \E head : /\ Memo(version, type) = head \o Message
                   /\ Word(head, PrefixLen(version, type))
<1> DEFINE h == IF type \in {"DEPOSIT", "TRANSFER"} THEN 0 ELSE 56
           p == Specific(type) x == Hex("proxy", 20) y == Hex("prover", 20)
           f == Hex("transactFee", 8) u == Hex("treeUpdateFee", 8) l == Hex("length", 2)
<1>1. /\ h \in {0, 56} /\ h \in Nat /\ Word(p, h)
  BY SpecificFacts
<1>2. Word(x, 40) /\ Word(y, 40)
  BY HexWord DEF Names
<1>3. Word(f, 16) /\ Word(u, 16)
  BY HexWord DEF Names
<1>4. Word(l, 4)
  BY HexWord DEF Names
<1>5. Head1(type) = f \o p /\ Head2(type) = ((((x \o y) \o f) \o u) \o p) \o l
  BY DEF Head1, Head2
<1>6. /\ version = 1 => PrefixLen(version, type) = 16 + h
      /\ version # 1 => PrefixLen(version, type) = 116 + h
  BY DEF PrefixLen, TxTypes
<1> HIDE DEF h, p, x, y, f, u, l
<1>7. Word(f \o p, 16 + h)
  BY <1>1, <1>3, Join
<1>8. Word(x \o y, 80)
  BY <1>2, Join
<1>9. Word((x \o y) \o f, 96)
  BY <1>3, <1>8, Join
<1>10. Word(((x \o y) \o f) \o u, 112)
  BY <1>3, <1>9, Join
<1>11. Word((((x \o y) \o f) \o u) \o p, 112 + h)
  BY <1>1, <1>10, Join
<1>12. Word(((((x \o y) \o f) \o u) \o p) \o l, 116 + h)
  <2>1. 116 + h = (112 + h) + 4 /\ 112 + h \in Nat
    BY <1>1
  <2> QED
    BY <1>4, <1>11, <2>1, Join
<1>13. CASE version = 1
  BY <1>5, <1>6, <1>7, <1>13 DEF Memo
<1>14. CASE version # 1
  BY <1>5, <1>6, <1>12, <1>14 DEF Memo
<1> QED
  BY <1>13, <1>14

LEMMA MemoFacts ==
  ASSUME NEW version \in Versions, NEW type \in TxTypes
  PROVE  /\ \E n \in Nat : Word(Memo(version, type), 2 * n)
         /\ Truncate(version, Memo(version, type), type) = Message
         /\ PrefixChecked(version, Memo(version, type), type)
<1> DEFINE m == PrefixLen(version, type)
<1>1. m \in {16, 72, 116, 172}
  BY DEF PrefixLen
<1>2. PICK head : Memo(version, type) = head \o Message /\ Word(head, m)
  BY HeadFacts
<1> HIDE DEF m
<1>3. m \in Nat /\ m + 14 \in Nat
  BY <1>1
<1>4. Word(head \o Message, m + 14)
  BY <1>2, <1>3, MessageFacts, Join
<1>5. Slice(head \o Message, m, m + 14) = Message
  BY <1>2, <1>3, MessageFacts, Field
<1>6. Len(head \o Message) = m + 14
  BY <1>4 DEF Word
<1>7. Truncate(version, Memo(version, type), type) = Message
  BY <1>2, <1>5, <1>6 DEF Truncate, m
<1>8. \E n \in Nat : m + 14 = 2 * n
  BY <1>1, 16 + 14 = 2 * 15, 72 + 14 = 2 * 43, 116 + 14 = 2 * 65, 172 + 14 = 2 * 93
<1>9. \E n \in Nat : Word(Memo(version, type), 2 * n)
  BY <1>2, <1>4, <1>8
<1> QED
  BY <1>7, <1>9, MessageFacts DEF PrefixChecked

(* The last part of the calldata: type, size, memo and, for some, a          *)
(* signature.                                                                *)
LEMMA WithMemoFacts ==
  ASSUME NEW version \in Versions, NEW type \in TxTypes,
         NEW n \in Nat, Word(Memo(version, type), 2 * n)
  PROVE  \E w \in Nat :
           /\ 8 + 2 * n <= w /\ Word(WithMemo(version, type), w)
           /\ Slice(WithMemo(version, type), 0, 4) = Hex("txType", 2)
           /\ Slice(WithMemo(version, type), 4, 8) = Hex("memoSize", 2)
           /\ Slice(WithMemo(version, type), 8, 8 + 2 * n) = Memo(version, type)
<1> DEFINE t == Hex("txType", 2) z == Hex("memoSize", 2) memo == Memo(version, type)
           g == IF type \in {"DEPOSIT", "PERMITTABLE_DEPOSIT"} THEN Hex("signature", 64) ELSE <<>>
<1>1. Word(t, 4) /\ Word(z, 4)
  BY HexWord DEF Names
<1>2. \E k \in Nat : Word(g, k)
  <2>1. Word(Hex("signature", 64), 128)
    BY HexWord DEF Names
  <2>2. Word(<<>>, 0)
    BY DEF Word
  <2> QED
    BY <2>1, <2>2
<1>3. PICK k \in Nat : Word(g, k)
  BY <1>2
<1>4. PICK m \in Nat, l \in Nat, w \in Nat : m = 2 * n /\ l = 8 + m /\ w = l + k
  OBVIOUS
<1>5. WithMemo(version, type) = ((t \o z) \o memo) \o g
  BY DEF WithMemo
<1>6. Word(memo, m)
  BY <1>4
<1> HIDE DEF t, z, memo, g
<1>7. Word(t \o z, 8) /\ Slice(t \o z, 4, 8) = z /\ Slice(t \o z, 0, 4) = t
  <2>1. Word(t \o z, 8) /\ Slice(t \o z, 4, 8) = z
    BY <1>1, Join, Field
  <2>2. Slice(t \o z, 0, 4) = Slice(t, 0, 4)
    BY <1>1, Appended
  <2>3. Slice(t, 0, 4) = t
    BY <1>1, Cuts
  <2> QED
    BY <2>1, <2>2, <2>3
<1>8. /\ Word((t \o z) \o memo, l)
      /\ Slice((t \o z) \o memo, 0, 4) = t /\ Slice((t \o z) \o memo, 4, 8) = z
      /\ Slice((t \o z) \o memo, 8, l) = memo
  <2>1. /\ Word((t \o z) \o memo, l)
        /\ \A i \in Nat : \A e \in Nat : e <= 8 =>
             Slice((t \o z) \o memo, i, e) = Slice(t \o z, i, e)
    BY <1>4, <1>6, <1>7, Appended
  <2>2. Slice((t \o z) \o memo, 8, l) = memo
    BY <1>4, <1>6, <1>7, Field
  <2> QED
    BY <1>7, <2>1, <2>2
<1> DEFINE c == (t \o z) \o memo
<1> HIDE DEF c
<1>9. /\ Word(c \o g, w)
      /\ \A i \in Nat : \A e \in Nat : e <= l => Slice(c \o g, i, e) = Slice(c, i, e)
  BY <1>3, <1>4, <1>8, Appended DEF c
<1>10. 8 <= l /\ l <= w
  BY <1>4
<1>11. /\ Slice(c \o g, 0, 4) = t /\ Slice(c \o g, 4, 8) = z /\ Slice(c \o g, 8, l) = memo
  BY <1>8, <1>9, <1>10 DEF c
<1> QED
  BY <1>4, <1>5, <1>9, <1>10, <1>11 DEF c, t, z, memo

(* What comes before it: the fields of both versions at their offsets.       *)
LEMMA FrontFacts ==
  ASSUME NEW version \in Versions, NEW type \in TxTypes
  PROVE  \E front :
           /\ Calldata(version, type) = front \o WithMemo(version, type)
           /\ Word(front, IF version = 1 THEN 1280 ELSE 706)
           /\ version = 1 => /\ Slice(front, 8, 72) = Hex("nullifier", 32)
                             /\ Slice(front, 72, 136) = Hex("outCommit", 32)
           /\ version = 2 => /\ Slice(front, 10, 74) = Hex("nullifier", 32)
                             /\ Slice(front, 74, 138) = Hex("outCommit", 32)
<1> DEFINE s == Hex("selector", 4) v == Hex("version", 1)
           nf == Hex("nullifier", 32) oc == Hex("outCommit", 32)
           d == Delta p == Proof("tx") r == Hex("rootAfter", 32) q == Proof("tree")
<1>1. Word(s, 8) /\ Word(v, 2)
  BY HexWord DEF Names
<1>2. Word(nf, 64) /\ Word(oc, 64)
  BY HexWord DEF Names
<1>3. Word(r, 64)
  BY HexWord DEF Names
<1>4. Word(p, 512)
  BY HexWord, 2 * (8 * 32) = 512 DEF Names, Proof
<1>5. Word(q, 512)
  BY HexWord, 2 * (8 * 32) = 512 DEF Names, Proof
<1>6. Word(d, 56)
  <2> DEFINE a == Hex("transferIndex", 6) b == Hex("energyAmount", 14)
             c == Hex("tokenAmount", 8)
  <2>1. Word(a, 12) /\ Word(b, 28)
    BY HexWord DEF Names
  <2>2. Word(c, 16)
    BY HexWord DEF Names
  <2>3. Delta = (a \o b) \o c
    BY DEF Delta
  <2> HIDE DEF a, b, c
  <2>4. Word(a \o b, 40)
    BY <2>1, Join
  <2> QED
    BY <2>2, <2>3, <2>4, Join
<1>7. Calldata(1, type) =
        ((((((s \o nf) \o oc) \o d) \o p) \o r) \o q) \o WithMemo(1, type)
  BY DEF Calldata, Calldata1
<1>8. Calldata(2, type) =
        (((((s \o v) \o nf) \o oc) \o d) \o p) \o WithMemo(2, type)
  BY DEF Calldata, Calldata2
<1> HIDE DEF s, v, nf, oc, d, p, r, q
<1>9. CASE version = 1
  <2>1. Word(s \o nf, 72) /\ Slice(s \o nf, 8, 72) = nf
    BY <1>1, <1>2, Join, Field
  <2> DEFINE a == s \o nf b == a \o oc c == b \o d e == c \o p f == e \o r h == f \o q
  <2> HIDE DEF a
  <2>2. Word(b, 136) /\ Slice(b, 8, 72) = nf /\ Slice(b, 72, 136) = oc
    <3>1. Word(b, 136) /\ Slice(b, 8, 72) = Slice(a, 8, 72)
      BY <1>2, <2>1, Appended DEF a
    <3>2. Slice(b, 72, 136) = oc
      BY <1>2, <2>1, Field DEF a
    <3> QED
      BY <2>1, <3>1, <3>2 DEF a
  <2> HIDE DEF b
  <2>3. Word(c, 192) /\ Slice(c, 8, 72) = Slice(b, 8, 72) /\ Slice(c, 72, 136) = Slice(b, 72, 136)
    BY <1>6, <2>2, Appended
  <2> HIDE DEF c
  <2>4. Word(e, 704) /\ Slice(e, 8, 72) = Slice(c, 8, 72) /\ Slice(e, 72, 136) = Slice(c, 72, 136)
    BY <1>4, <2>3, Appended
  <2> HIDE DEF e
  <2>5. Word(f, 768) /\ Slice(f, 8, 72) = Slice(e, 8, 72) /\ Slice(f, 72, 136) = Slice(e, 72, 136)
    BY <1>3, <2>4, Appended
  <2> HIDE DEF f
  <2>6. Word(h, 1280) /\ Slice(h, 8, 72) = Slice(f, 8, 72) /\ Slice(h, 72, 136) = Slice(f, 72, 136)
    BY <1>5, <2>5, Appended
  <2>7. Calldata(version, type) = h \o WithMemo(version, type)
    BY <1>7, <1>9 DEF a, b, c, e, f
  <2> HIDE DEF h
  <2> QED
    BY <1>9, <2>2, <2>3, <2>4, <2>5, <2>6, <2>7 DEF nf, oc
<1>10. CASE version = 2
  <2> DEFINE k == s \o v a == k \o nf b == a \o oc c == b \o d e == c \o p
  <2>1. Word(k, 10)
    BY <1>1, Join
  <2> HIDE DEF k
  <2>2. Word(a, 74) /\ Slice(a, 10, 74) = nf
    BY <1>2, <2>1, Join, Field
  <2> HIDE DEF a
  <2>3. Word(b, 138) /\ Slice(b, 10, 74) = Slice(a, 10, 74)
    BY <1>2, <2>2, Appended
  <2>4. Slice(b, 74, 138) = oc
    BY <1>2, <2>2, Field
  <2> HIDE DEF b
  <2>5. Word(c, 194) /\ Slice(c, 10, 74) = Slice(b, 10, 74) /\ Slice(c, 74, 138) = Slice(b, 74, 138)
    BY <1>6, <2>3, Appended
  <2> HIDE DEF c
  <2>6. Word(e, 706) /\ Slice(e, 10, 74) = Slice(c, 10, 74) /\ Slice(e, 74, 138) = Slice(c, 74, 138)
    BY <1>4, <2>5, Appended
  <2>7. Calldata(version, type) = e \o WithMemo(version, type)
    BY <1>8, <1>10 DEF k, a, b, c
  <2> HIDE DEF e
  <2> QED
    BY <1>10, <2>2, <2>3, <2>4, <2>5, <2>6, <2>7 DEF nf, oc
<1> QED
  BY <1>9, <1>10 DEF Versions

(* What getField finds in the calldata.                                      *)
LEMMA FieldsFound ==
  ASSUME NEW version \in Versions, NEW type \in TxTypes,
         NEW n \in Nat, Word(Memo(version, type), 2 * n)
  PROVE  LET data == Calldata(version, type)
         IN  /\ GetField(data, version, "nullifier", 32) = Hex("nullifier", 32)
             /\ GetField(data, version, "outCommit", 32) = Hex("outCommit", 32)
             /\ GetField(data, version, "txType", 2) = Hex("txType", 2)
             /\ GetField(data, version, "memoSize", 2) = Hex("memoSize", 2)
             /\ GetField(data, version, "memo", n) = Memo(version, type)
<1> DEFINE data == Calldata(version, type) rest == WithMemo(version, type)
           m == IF version = 1 THEN 1280 ELSE 706
<1>1. PICK front :
        /\ data = front \o rest
        /\ Word(front, m)
        /\ version = 1 => /\ Slice(front, 8, 72) = Hex("nullifier", 32)
                          /\ Slice(front, 72, 136) = Hex("outCommit", 32)
        /\ version = 2 => /\ Slice(front, 10, 74) = Hex("nullifier", 32)
                          /\ Slice(front, 74, 138) = Hex("outCommit", 32)
  BY FrontFacts
<1>2. PICK w \in Nat :
        /\ 8 + 2 * n <= w /\ Word(rest, w)
        /\ Slice(rest, 0, 4) = Hex("txType", 2)
        /\ Slice(rest, 4, 8) = Hex("memoSize", 2)
        /\ Slice(rest, 8, 8 + 2 * n) = Memo(version, type)
  BY WithMemoFacts
<1> HIDE DEF data, rest
<1>3. m \in Nat /\ m \in {1280, 706}
  OBVIOUS
<1> HIDE DEF m
<1>4. \A i \in Nat : \A e \in Nat : e <= m => Slice(data, i, e) = Slice(front, i, e)
  <2>1. Word(front, m) /\ Word(rest, w)
    BY <1>1, <1>2
  <2>2. \A i \in Nat : \A e \in Nat : e <= m =>
          Slice(front \o rest, i, e) = Slice(front, i, e)
    BY <1>3, <2>1, Cuts
  <2> QED
    BY <1>1, <2>2
<1>5. ASSUME NEW i \in Nat, NEW e \in Nat, i <= e, e <= w
      PROVE  Slice(data, m + i, m + e) = Slice(rest, i, e)
  <2>1. PICK x \in Nat, y \in Nat : x = m + i /\ y = m + e
    BY <1>3
  <2>2. m <= x /\ x <= y /\ y <= m + w /\ x - m = i /\ y - m = e
    BY <1>3, <1>5, <2>1
  <2>3. Word(front, m) /\ Word(rest, w) /\ m \in Nat
    BY <1>1, <1>2, <1>3
  <2>4. Slice(front \o rest, x, y) = Slice(rest, x - m, y - m)
    BY <2>1, <2>2, <2>3, Cuts
  <2> QED
    BY <1>1, <2>1, <2>2, <2>4
<1> DEFINE l == 2 * n
<1>6. l \in Nat /\ 8 + l \in Nat /\ 8 + l <= w /\ 4 <= w /\ 8 <= w /\ 8 <= 8 + l
  BY <1>2
<1> HIDE DEF l
<1>7. /\ Slice(data, m + 0, m + 4) = Hex("txType", 2)
      /\ Slice(data, m + 4, m + 8) = Hex("memoSize", 2)
      /\ Slice(data, m + 8, m + (8 + l)) = Memo(version, type)
  <2>1. Slice(data, m + 0, m + 4) = Hex("txType", 2)
    BY <1>2, <1>5, <1>6
  <2>2. Slice(data, m + 4, m + 8) = Hex("memoSize", 2)
    BY <1>2, <1>5, <1>6
  <2>3. Slice(data, m + 8, m + (8 + l)) = Memo(version, type)
    BY <1>2, <1>5, <1>6 DEF l
  <2> QED
    BY <2>1, <2>2, <2>3
<1>8. /\ m + 0 = 2 * FieldStart(version)["txType"]
      /\ m + 4 = 2 * FieldStart(version)["memoSize"]
      /\ m + 8 = 2 * FieldStart(version)["memo"]
  BY DEF FieldStart, m
<1>9. /\ GetField(data, version, "txType", 2) = Hex("txType", 2)
      /\ GetField(data, version, "memoSize", 2) = Hex("memoSize", 2)
  <2>1. m + 0 + 2 * 2 = m + 4 /\ m + 4 + 2 * 2 = m + 8
    BY <1>3
  <2> QED
    BY <1>7, <1>8, <2>1 DEF GetField
<1>10. GetField(data, version, "memo", n) = Memo(version, type)
  <2>1. m + 8 + 2 * n = m + (8 + l)
    BY <1>3 DEF l
  <2> QED
    BY <1>7, <1>8, <2>1 DEF GetField
<1>11. /\ GetField(data, version, "nullifier", 32) = Hex("nullifier", 32)
       /\ GetField(data, version, "outCommit", 32) = Hex("outCommit", 32)
  <2>1. CASE version = 1
    <3>1. /\ 8 = 2 * FieldStart(version)["nullifier"] /\ 72 = 8 + 2 * 32
          /\ 72 = 2 * FieldStart(version)["outCommit"] /\ 136 = 72 + 2 * 32
          /\ 72 <= m /\ 136 <= m
      BY <1>3, <2>1 DEF FieldStart
    <3>2. /\ Slice(data, 8, 72) = Hex("nullifier", 32)
          /\ Slice(data, 72, 136) = Hex("outCommit", 32)
      BY <1>1, <1>4, <2>1, <3>1
    <3> QED
      BY <3>1, <3>2 DEF GetField
  <2>2. CASE version = 2
    <3>1. /\ 10 = 2 * FieldStart(version)["nullifier"] /\ 74 = 10 + 2 * 32
          /\ 74 = 2 * FieldStart(version)["outCommit"] /\ 138 = 74 + 2 * 32
          /\ 74 <= m /\ 138 <= m
      BY <1>3, <2>2 DEF FieldStart
    <3>2. /\ Slice(data, 10, 74) = Hex("nullifier", 32)
          /\ Slice(data, 74, 138) = Hex("outCommit", 32)
      BY <1>1, <1>4, <2>2, <3>1
    <3> QED
      BY <3>1, <3>2 DEF GetField
  <2> QED
    BY <2>1, <2>2 DEF Versions
<1> QED
  BY <1>9, <1>10, <1>11 DEF data

(* A listed record has the commitment where the observer looks for it, and   *)
(* but for the hash it is commitment and message.                            *)
LEMMA ListedFacts ==
  ASSUME NEW mined \in Attempts
  PROVE  LET record == Record(Hex("outCommit", 32), TxHash(mined), Message)
         IN  /\ ListedCommit(V2Format("1", record)) = Hex("outCommit", 32)
             /\ WithoutHash(record) = Hex("outCommit", 32) \o Message
<1> DEFINE oc == Hex("outCommit", 32) h == TxHash(mined) r == (oc \o h) \o Message
<1>1. Word(oc, 64) /\ Word(h, 64)
  <2>1. mined \in Names /\ "outCommit" \in Names
    BY DEF Names
  <2> QED
    BY <2>1, HexWord DEF TxHash
<1> HIDE DEF oc, h
<1>2. Word(oc \o h, 128) /\ Slice(oc \o h, 0, 64) = oc /\ Slice(oc \o h, 64, 128) = h
  <2>1. Word(oc \o h, 128) /\ Slice(oc \o h, 0, 64) = Slice(oc, 0, 64)
    BY <1>1, Appended
  <2>2. Slice(oc, 0, 64) = oc
    BY <1>1, Cuts
  <2>3. Slice(oc \o h, 64, 128) = h
    BY <1>1, Field
  <2> QED
    BY <2>1, <2>2, <2>3
<1>3. /\ Word(r, 142) /\ Slice(r, 0, 64) = oc /\ Slice(r, 64, 128) = h
      /\ Slice(r, 128, 142) = Message
  <2>1. /\ Word(r, 142) /\ Slice(r, 0, 64) = Slice(oc \o h, 0, 64)
        /\ Slice(r, 64, 128) = Slice(oc \o h, 64, 128)
    BY <1>2, MessageFacts, Appended
  <2>2. Slice(r, 128, 142) = Message
    BY <1>2, MessageFacts, Field
  <2> QED
    BY <1>2, <2>1, <2>2
<1>4. Record(Hex("outCommit", 32), TxHash(mined), Message) = r
  BY DEF Record, oc, h
<1> HIDE DEF r
<1>5. Len(r) = 142
  BY <1>3 DEF Word
<1>6. V2Format("1", r) = ((<<"1">> \o h) \o oc) \o Message
  BY <1>3, <1>5 DEF V2Format
<1>7. Word(<<"1">>, 1)
  BY DEF Word, Digits
<1> DEFINE one == <<"1">>
<1> HIDE DEF one
<1>8. Word(one \o h, 65)
  BY <1>1, <1>7, Join DEF one
<1>9. Slice(((one \o h) \o oc) \o Message, 65, 129) = oc
  BY <1>1, <1>8, MessageFacts, Field
<1>10. WithoutHash(r) = oc \o Message
  BY <1>3, <1>5 DEF WithoutHash
<1> QED
  BY <1>4, <1>6, <1>9, <1>10 DEF ListedCommit, one, oc

LEMMA AgreedAlways == Agreed
<1>1. ASSUME NEW version \in Versions, NEW type \in TxTypes
      PROVE  RecordsAgree(version, type)
  <2>1. PICK n \in Nat : Word(Memo(version, type), 2 * n)
    BY MemoFacts
  <2>2. Len(Memo(version, type)) \div 2 = n
    <3>1. Len(Memo(version, type)) = 2 * n
      BY <2>1 DEF Word
    <3>2. (2 * n) \div 2 = n
      OBVIOUS
    <3> QED
      BY <3>1, <3>2
  <2> DEFINE data == Calldata(version, type)
  <2>3. /\ GetField(data, version, "nullifier", 32) = Hex("nullifier", 32)
        /\ GetField(data, version, "outCommit", 32) = Hex("outCommit", 32)
        /\ GetField(data, version, "txType", 2) = Hex("txType", 2)
        /\ GetField(data, version, "memoSize", 2) = Hex("memoSize", 2)
        /\ GetField(data, version, "memo", n) = Memo(version, type)
    BY <2>1, FieldsFound
  <2>4. Truncate(version, Memo(version, type), type) = Message
    BY MemoFacts
  <2> HIDE DEF data
  <2>5. ParsedMemo(data, version, type) = Message
    BY <2>2, <2>3, <2>4 DEF ParsedMemo
  <2>6. \A mined \in Attempts :
          IndexerRecord(version, type, mined) = Record(Hex("outCommit", 32), TxHash(mined), Message)
    BY <2>3, <2>5 DEF IndexerRecord, data
  <2>7. SenderRecord(version, type) = Record(Hex("outCommit", 32), TxHash("first"), Message)
    BY <2>4 DEF SenderRecord
  <2>8. "first" \in Attempts
    BY DEF Attempts
  <2> QED
    BY <2>3, <2>6, <2>7, <2>8, MemoFacts, ListedFacts DEF RecordsAgree, data
<1>2. ASSUME NEW version \in Versions PROVE DirectCommit(version) = "outCommit"
  BY DEF DirectCommit, DirectParameters, Versions
<1> QED
  BY <1>1, <1>2 DEF Agreed

(* What the relayer keeps of a transaction and what the indexer cuts out of  *)
(* its calldata have one commitment and one memo, for each version and type: *)
(* the offsets, the prefix lengths and the order of the fields that the two  *)
(* processes have written down separately fit each other.  The hash is the   *)
(* same if the first attempt was mined.                                      *)
THEOREM OneRecord == Spec => []SameRecord
<1>1. SameRecord
  BY AgreedAlways DEF SameRecord
<1> QED
  BY <1>1, PTL
=============================================================================
