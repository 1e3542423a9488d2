---------------------------- MODULE QuotesProofs ----------------------------
(***************************************************************************)
(* Proofs about Quotes, for every configuration, any market and any number *)
(* of overlapping updates, re-sends and restarts.                          *)
(***************************************************************************)
EXTENDS Quotes, SequenceTheorems, TLAPS

(* A price has one kind, and its priority fee is not above its maximum.      *)
OneKind(a) ==
  /\ IsLegacy(a) <=> a.maxFee = 0
  /\ a.maxPriority <= a.maxFee

(* An attempt is of one kind or mixed, and one that is not mixed comes after *)
(* such ones only and is above them by the bump.                             *)
Above(a, b) ==
  ~Mixed(a) => ~Mixed(b) /\ \A f \in Fields : a[f] >= Extra(b, Bump, 0)[f]

Climbs(s) ==
  /\ \A i \in DOMAIN s : OneKind(s[i]) \/ Mixed(s[i])
  /\ \A i, k \in DOMAIN s : i < k => Above(s[k], s[i])

Tops(a, s) ==
  /\ OneKind(a) \/ Mixed(a)
  /\ \A i \in DOMAIN s : Above(a, s[i])

(* The attempts climb, the re-send on its way tops them, and what a node may *)
(* hold is among them.                                                       *)
SendInv ==
  /\ OneKind(price)
  /\ Climbs(attempts)
  /\ sending # None => attempts # <<>> /\ Tops(sending, attempts)
  /\ held \subseteq ToSet(attempts)

(* The fee at one gas price and one rate that the relayer may be given.      *)
Prices  == Answers \cup {Legacy(Fallback)}
Highest == {MaxRequired(a) : a \in Prices}
FeeOf(n, rate) == (n * BaseGas * rate * Scale) \div 100

(* Every cached price and fee is one of these.                               *)
FromOnePrice ==
  /\ MaxRequired(price) \in Highest
  /\ \A u \in Updates : update[u] # None => MaxRequired(update[u]) \in Highest
  /\ fees # None =>
       \E n \in Highest, rate \in Rates : fees = FeeOf(n, rate)
  /\ quote # None =>
       \E n \in Highest, rate \in Rates : quote = Denominated(FeeOf(n, rate))

-----------------------------------------------------------------------------
(* Arithmetic of a percentage more.                                          *)
More(x, percent) == (x * (100 + percent) + 50) \div 100

LEMMA MoreIsNat ==
  ASSUME NEW x \in Nat, NEW percent \in Nat
  PROVE  /\ More(x, percent) \in Nat
         /\ More(x, percent) = 0 <=> x = 0
BY SMT DEF More

LEMMA MoreIsMonotone ==
  ASSUME NEW x \in Nat, NEW y \in Nat, NEW percent \in Nat, x <= y
  PROVE  More(x, percent) <= More(y, percent)
BY SMT DEF More

LEMMA MoreIsAbove ==
  ASSUME NEW x \in Nat, NEW percent \in Nat
  PROVE  More(x, percent) >= x
<1>1. PICK p \in Nat : p = x * percent
  BY SMT
<1>2. x * (100 + percent) = 100 * x + p
  BY <1>1, SMT
<1>3. (100 * x + p + 50) \div 100 >= x
  BY <1>1, SMT
<1> QED
  BY <1>2, <1>3 DEF More

LEMMA ProductIsNat ==
  ASSUME NEW a \in Nat, NEW b \in Nat
  PROVE  a * b \in Nat
BY SMT

LEMMA LegacyKind ==
  ASSUME NEW g \in Nat \ {0}
  PROVE  Legacy(g) \in Price /\ OneKind(Legacy(g)) /\ MaxRequired(Legacy(g)) = g
BY SMT DEF Legacy, Price, Fields, OneKind, IsLegacy, MaxRequired

LEMMA FeeKind ==
  ASSUME NEW m \in Nat \ {0}, NEW p \in Nat, p <= m
  PROVE  Fee(m, p) \in Price /\ OneKind(Fee(m, p))
BY SMT DEF Fee, Price, Fields, OneKind, IsLegacy

(* The higher of two prices is a price, of one kind if they are.             *)
LEMMA ChooseKind ==
  ASSUME NEW a \in Price, NEW b \in Price
  PROVE  /\ Choose(a, b) \in Price
         /\ OneKind(a) /\ OneKind(b) => OneKind(Choose(a, b))
BY SMT DEF Choose, Price, Fields, IsLegacy, OneKind, Higher

(* More of a price is a price of its kind.                                   *)
LEMMA ExtraKind ==
  ASSUME NEW a \in Price, NEW percent \in Nat, NEW limit \in Nat
  PROVE  /\ Extra(a, percent, limit) \in Price
         /\ \A f \in Fields : Extra(a, percent, limit)[f] = 0 <=> a[f] = 0
         /\ OneKind(a) => OneKind(Extra(a, percent, limit))
         /\ limit = 0 => \A f \in Fields : Extra(a, percent, limit)[f] >= a[f]
<1>1. Extra(a, percent, limit) =
        IF percent = 0 THEN a
        ELSE [f \in Fields |-> IF limit = 0 THEN More(a[f], percent)
                                ELSE Lower(More(a[f], percent), limit)]
  BY DEF Extra, More
<1>2. \A f \in Fields : a[f] \in Nat
  BY DEF Price
<1>3. \A f \in Fields : More(a[f], percent) \in Nat
                         /\ (More(a[f], percent) = 0 <=> a[f] = 0)
  BY <1>2, MoreIsNat
<1>4. OneKind(a) => More(a.maxPriority, percent) <= More(a.maxFee, percent)
  <2>1. a.maxPriority \in Nat /\ a.maxFee \in Nat
    BY <1>2 DEF Fields
  <2> QED
    BY <2>1, MoreIsMonotone DEF OneKind
<1>5. Extra(a, percent, limit) \in Price
  BY <1>1, <1>2, <1>3, SMT DEF Price, Lower
<1>6. \A f \in Fields : Extra(a, percent, limit)[f] = 0 <=> a[f] = 0
  BY <1>1, <1>2, <1>3, SMT DEF Lower
<1>7. ASSUME OneKind(a) PROVE OneKind(Extra(a, percent, limit))
  <2>1. Extra(a, percent, limit).maxPriority <= Extra(a, percent, limit).maxFee
    BY <1>1, <1>2, <1>3, <1>4, <1>7, SMT DEF Lower, OneKind, Fields
  <2> QED
    BY <1>6, <1>7, <2>1 DEF OneKind, IsLegacy, Fields
<1>8. ASSUME limit = 0, NEW f \in Fields PROVE Extra(a, percent, limit)[f] >= a[f]
  <2>1. More(a[f], percent) >= a[f]
    BY <1>2, MoreIsAbove
  <2> QED
    BY <1>1, <1>2, <1>8, <2>1, SMT
<1> QED
  BY <1>5, <1>6, <1>7, <1>8

(* An answer is a price of one kind.                                         *)
LEMMA AnswerKind ==
  ASSUME NEW a \in Answers
  PROVE  a \in Price /\ OneKind(a)
<1>1. CASE estimation = "web3"
  <2>1. PICK g \in 1..MaxPrice : a = Legacy(g)
    BY <1>1 DEF Answers
  <2>2. g \in Nat \ {0}
    BY SMT
  <2> QED
    BY <2>1, <2>2, LegacyKind
<1>2. CASE estimation # "web3"
  <2>1. PICK m \in 1..MaxPrice, p \in 1..MaxPrice :
          a = WithinLimit(Fee(m, Lower(m, p)))
    BY <1>2 DEF Answers
  <2>2. /\ m \in Nat \ {0} /\ Lower(m, p) \in Nat /\ Lower(m, p) <= m
    BY SMT DEF Lower
  <2>3. Fee(m, Lower(m, p)) \in Price /\ OneKind(Fee(m, Lower(m, p)))
    BY <2>2, FeeKind
  <2>4. /\ Lower(Lower(m, p), MaxFeeLimit) \in Nat
        /\ Lower(Lower(m, p), MaxFeeLimit) <= MaxFeeLimit
        /\ MaxFeeLimit \in Nat \ {0}
    BY <2>2, QuotesAssumption, SMT DEF Lower
  <2>5. Fee(m, Lower(m, p)).maxPriority = Lower(m, p)
    BY DEF Fee
  <2>6. /\ Fee(MaxFeeLimit, Lower(Lower(m, p), MaxFeeLimit)) \in Price
        /\ OneKind(Fee(MaxFeeLimit, Lower(Lower(m, p), MaxFeeLimit)))
    BY <2>4, FeeKind
  <2> QED
    BY <2>1, <2>3, <2>5, <2>6 DEF WithinLimit
<1> QED
  BY <1>1, <1>2

LEMMA FallbackKind == Legacy(Fallback) \in Price /\ OneKind(Legacy(Fallback))
BY QuotesAssumption, LegacyKind

LEMMA FetchedKind ==
  ASSUME price \in Price, NEW a \in Fetched
  PROVE  a \in Price /\ (OneKind(price) => OneKind(a))
<1>1. CASE a \in Answers
  BY <1>1, AnswerKind
<1>2. CASE a = Choose(Legacy(Fallback), price)
  BY <1>2, FallbackKind, ChooseKind
<1> QED
  BY <1>1, <1>2 DEF Fetched

-----------------------------------------------------------------------------
LEMMA ScaledIsNat ==
  ASSUME NEW a \in Price, NEW rate \in Rates
  PROVE  /\ Scaled(a, rate) \in Nat
         /\ Scaled(a, rate) = FeeOf(MaxRequired(a), rate)
         /\ Denominated(Scaled(a, rate)) \in Nat
<1>1. MaxRequired(a) \in Nat
  BY SMT DEF MaxRequired, Price, Fields
<1>2. BaseGas \in Nat /\ rate \in Nat /\ Scale \in Nat
  BY QuotesAssumption
<1>3. MaxRequired(a) * BaseGas \in Nat
  BY <1>1, <1>2, ProductIsNat
<1>4. MaxRequired(a) * BaseGas * rate \in Nat
  BY <1>2, <1>3, ProductIsNat
<1>5. MaxRequired(a) * BaseGas * rate * Scale \in Nat
  BY <1>2, <1>4, ProductIsNat
<1>6. Scaled(a, rate) \in Nat
  BY <1>5, SMT DEF Scaled
<1>7. Denominator \in Nat \ {0}
  BY QuotesAssumption
<1>8. Denominated(Scaled(a, rate)) \in Nat
  BY <1>6, <1>7, SMT DEF Denominated
<1> QED
  BY <1>6, <1>8 DEF Scaled, FeeOf

LEMMA MergedKind ==
  ASSUME NEW a \in Price, NEW b \in Price
  PROVE  /\ PriceOf(a) \in Price
         /\ Bumped(a, b) \in Price
         /\ Merged(a, Bumped(a, b)) \in Price
<1>1. PriceOf(a) \in Price
  BY SMT DEF PriceOf, Legacy, Price, Fields
<1>2. Bump \in Nat /\ 0 \in Nat
  BY QuotesAssumption
<1>3. Bumped(a, b) \in Price
  BY <1>1, <1>2, ExtraKind, ChooseKind DEF Bumped
<1> QED
  BY <1>1, <1>3 DEF Merged, Price

(* The shapes of the state hold in every state.                              *)
THEOREM TypeCorrect == Spec => []TypeOK
<1> USE DEF TypeOK
<1>1. Init => TypeOK
  BY FallbackKind, QuotesAssumption, SMT DEF Init
<1>2. TypeOK /\ [Next]_vars => TypeOK'
  <2> SUFFICES ASSUME TypeOK, [Next]_vars PROVE TypeOK'
    OBVIOUS
  <2>1. ASSUME NEW u \in Updates, FetchGasPrice(u) PROVE TypeOK'
    BY <2>1, FetchedKind DEF FetchGasPrice, txVars
  <2>2. ASSUME NEW u \in Updates, CacheFees(u) PROVE TypeOK'
    <3>1. update[u] \in Price
      BY <2>2 DEF CacheFees
    <3>2. fees' \in Nat
      BY <2>2, <3>1, ScaledIsNat DEF CacheFees
    <3> QED
      BY <2>2, <3>2 DEF CacheFees, txVars
  <2>3. CASE Dies
    <3>1. /\ SubSeq(attempts, 1, saved) \in Seq(Price)
          /\ Len(SubSeq(attempts, 1, saved)) = saved
      BY SMT
    <3>2. attempts' \in Seq(Price) /\ saved' \in 0..Len(attempts')
      BY <2>3, <3>1, SMT DEF Dies
    <3> QED
      BY <2>3, <3>2, FallbackKind DEF Dies
  <2>4. CASE GetFee
    <3>1. fees \in Nat /\ Denominator \in Nat \ {0}
      BY <2>4, QuotesAssumption DEF GetFee, Started
    <3>2. Denominated(fees) \in Nat
      BY <3>1, SMT DEF Denominated
    <3> QED
      BY <2>4, <3>2 DEF GetFee, txVars
  <2>5. CASE FirstSend
    <3>1. attempts' = <<Extra(price, Surplus, MaxFeeLimit)>> /\ attempts' \in Seq(Price)
      BY <2>5, QuotesAssumption, ExtraKind DEF FirstSend
    <3>2. saved' \in 0..Len(attempts')
      BY <2>5, <3>1, SMT DEF FirstSend
    <3>3. held' \subseteq Price
      BY <2>5, <3>1 DEF FirstSend, ToSet
    <3> QED
      BY <2>5, <3>1, <3>2, <3>3 DEF FirstSend, feeVars
  <2>6. CASE Resend
    <3>1. PICK a \in Fetched :
            /\ price' = a
            /\ sending' = Merged(Last(attempts),
                                 Bumped(Last(attempts), Extra(a, Surplus, MaxFeeLimit)))
      BY <2>6 DEF Resend
    <3>2. a \in Price
      BY FetchedKind
    <3>3. Extra(a, Surplus, MaxFeeLimit) \in Price
      BY <3>2, QuotesAssumption, ExtraKind
    <3>5. Last(attempts) \in Price
      <4>1. attempts \in Seq(Price) /\ attempts # <<>>
        BY <2>6 DEF Resend
      <4> QED
        BY <4>1 DEF Last
    <3>4. sending' \in Price
      BY <3>1, <3>3, <3>5, MergedKind
    <3> QED
      BY <2>6, <3>1, <3>2, <3>4 DEF Resend, feeVars
  <2>7. CASE ResendTaken \/ ResendRefused \/ ResendBroke
    <3>1. CASE Pushed
      <4>1. sending \in Price
        BY <3>1 DEF Pushed
      <4>2. attempts' \in Seq(Price) /\ Len(attempts') = Len(attempts) + 1
        BY <3>1, <4>1, AppendProperties DEF Pushed
      <4>3. saved' \in 0..Len(attempts')
        <5>1. saved' = Len(attempts') \/ saved' = saved
          BY <2>7, <3>1 DEF ResendTaken, ResendRefused, ResendBroke
        <5> QED
          BY <4>2, <5>1, SMT
      <4> QED
        BY <3>1, <4>1, <4>2, <4>3 DEF Pushed, feeVars
    <3>2. CASE ResendBroke
      BY <3>2 DEF ResendBroke, feeVars
    <3> QED
      BY <2>7, <3>1, <3>2 DEF ResendTaken, ResendRefused
  <2>9. CASE Mined
    <3>1. attempts' = <<>> /\ attempts' \in Seq(Price) /\ saved' \in 0..Len(attempts')
      BY <2>9 DEF Mined
    <3> QED
      BY <2>9, <3>1 DEF Mined, feeVars
  <2>8. CASE UNCHANGED vars
    BY <2>8 DEF vars, feeVars, txVars
  <2> QED
    BY <2>1, <2>2, <2>3, <2>4, <2>5, <2>6, <2>7, <2>8, <2>9 DEF Next
<1> QED
  BY <1>1, <1>2, PTL DEF Spec

-----------------------------------------------------------------------------
(* The highest price of a fetched one is that of a given one.                *)
LEMMA FetchedHighest ==
  ASSUME price \in Price, MaxRequired(price) \in Highest, NEW a \in Fetched
  PROVE  MaxRequired(a) \in Highest
<1>1. CASE a \in Answers
  BY <1>1 DEF Highest, Prices
<1>2. CASE a = Choose(Legacy(Fallback), price)
  <2>1. MaxRequired(Legacy(Fallback)) \in Highest
    BY DEF Highest, Prices
  <2>2. \/ MaxRequired(a) = MaxRequired(Legacy(Fallback))
        \/ MaxRequired(a) = MaxRequired(price)
    BY <1>2, QuotesAssumption, SMT
    DEF Choose, MaxRequired, Legacy, IsLegacy, Price, Fields, Higher
  <2> QED
    BY <2>1, <2>2
<1> QED
  BY <1>1, <1>2 DEF Fetched

LEMMA FromOnePriceStep == TypeOK /\ FromOnePrice /\ [Next]_vars => FromOnePrice'
<1> SUFFICES ASSUME TypeOK, FromOnePrice, [Next]_vars PROVE FromOnePrice'
  OBVIOUS
<1> USE DEF FromOnePrice
<1>0. price \in Price
  BY DEF TypeOK
<1>a. Highest' = Highest
  BY DEF Next, vars, FetchGasPrice, CacheFees, Dies, GetFee, FirstSend, Resend, Pushed,
         ResendTaken, ResendRefused, ResendBroke, Mined, Highest, Prices, Answers
<1>b. MaxRequired(Legacy(Fallback)) \in Highest
  BY DEF Highest, Prices
<1>1. ASSUME NEW u \in Updates, FetchGasPrice(u) PROVE FromOnePrice'
  <2>1. PICK a \in Fetched : price' = a /\ update' = [update EXCEPT ![u] = a]
    BY <1>1 DEF FetchGasPrice
  <2>2. MaxRequired(a) \in Highest
    BY <1>0, FetchedHighest
  <2>3. \A v \in Updates :
          update'[v] # None => MaxRequired(update'[v]) \in Highest
    BY <2>1, <2>2 DEF TypeOK
  <2> QED
    BY <1>1, <1>a, <2>1, <2>2, <2>3 DEF FetchGasPrice
<1>2. ASSUME NEW u \in Updates, CacheFees(u) PROVE FromOnePrice'
  <2>1. PICK rate \in Rates : fees' = Scaled(update[u], rate)
    BY <1>2 DEF CacheFees
  <2>2. update[u] \in Price /\ MaxRequired(update[u]) \in Highest
    BY <1>2 DEF CacheFees, TypeOK
  <2>3. fees' = FeeOf(MaxRequired(update[u]), rate)
    BY <2>1, <2>2, ScaledIsNat
  <2>4. \A v \in Updates :
          update'[v] # None => MaxRequired(update'[v]) \in Highest
    BY <1>2 DEF CacheFees, TypeOK
  <2> QED
    BY <1>2, <1>a, <2>2, <2>3, <2>4 DEF CacheFees
<1>3. CASE Dies
  BY <1>3, <1>a, <1>b DEF Dies
<1>4. CASE GetFee
  BY <1>4, <1>a DEF GetFee, Started
<1>5. CASE FirstSend
  BY <1>5, <1>a DEF FirstSend, feeVars
<1>6. CASE Resend
  <2>1. MaxRequired(price') \in Highest
    BY <1>0, <1>6, FetchedHighest DEF Resend
  <2> QED
    BY <1>6, <1>a, <2>1 DEF Resend, feeVars
<1>7. CASE ResendTaken \/ ResendRefused \/ ResendBroke \/ Mined
  BY <1>7, <1>a DEF ResendTaken, ResendRefused, Pushed, ResendBroke, Mined, feeVars
<1>8. CASE UNCHANGED vars
  BY <1>8, <1>a DEF vars, feeVars
<1> QED
  BY <1>1, <1>2, <1>3, <1>4, <1>5, <1>6, <1>7, <1>8 DEF Next

LEMMA OnePriceOfQuote == TypeOK /\ FromOnePrice => QuoteOfOnePrice
<1> SUFFICES ASSUME TypeOK, FromOnePrice, quote # None PROVE QuoteOfOnePrice
  BY DEF QuoteOfOnePrice
<1>1. PICK n \in Highest, rate \in Rates : quote = Denominated(FeeOf(n, rate))
  BY DEF FromOnePrice
<1>2. PICK a \in Prices : n = MaxRequired(a)
  BY DEF Highest
<1>3. quote = Denominated(Scaled(a, rate))
  BY <1>1, <1>2 DEF Scaled, FeeOf
<1> QED
  BY <1>3 DEF QuoteOfOnePrice, Prices

(* A quote comes from one gas price and one rate, however updates overlap.   *)
THEOREM OneQuote == Spec => []QuoteOfOnePrice
<1>1. Init => FromOnePrice
  BY DEF Init, FromOnePrice, Highest, Prices
<1> QED
  BY <1>1, FromOnePriceStep, OnePriceOfQuote, TypeCorrect, PTL DEF Spec

-----------------------------------------------------------------------------
(* A re-send of an attempt of one kind is mixed, or of one kind and not      *)
(* below the attempt before and the bump.                                    *)
LEMMA ResendOfOneKind ==
  ASSUME NEW old \in Price, NEW a \in Price, OneKind(old), OneKind(a),
         NEW new, new = Merged(old, Bumped(old, a))
  PROVE  /\ OneKind(new) \/ Mixed(new)
         /\ ~Mixed(new) =>
              \A f \in Fields : new[f] >= Extra(old, Bump, 0)[f]
<1> DEFINE more == Extra(old, Bump, 0)
<1>1. PriceOf(old) = old
  BY SMT DEF PriceOf, OneKind, IsLegacy, Legacy, Price, Fields
<1>2. /\ more \in Price /\ OneKind(more)
      /\ \A f \in Fields : more[f] = 0 <=> old[f] = 0
  <2>1. Bump \in Nat /\ 0 \in Nat
    BY QuotesAssumption
  <2> QED
    BY <2>1, ExtraKind
<1>3. Bumped(old, a) = Choose(more, a)
  BY <1>1 DEF Bumped
<1> HIDE DEF more
<1>4. CASE IsLegacy(more) = IsLegacy(a)
  <2>1. \A f \in Fields :
          new[f] = IF Higher(more[f], a[f]) = 0 THEN old[f]
                   ELSE Higher(more[f], a[f])
    BY <1>3, <1>4 DEF Choose, Merged
  <2>2. \A f \in Fields :
          /\ old[f] \in Nat /\ more[f] \in Nat /\ a[f] \in Nat
          /\ more[f] = 0 <=> old[f] = 0
    BY <1>2 DEF Price
  <2>3. \A f \in Fields : new[f] = Higher(more[f], a[f]) /\ new[f] \in Nat
    BY <2>1, <2>2, SMT DEF Higher
  <2>4. \A f \in Fields : new[f] >= more[f]
    BY <2>2, <2>3, SMT DEF Higher
  <2>5. OneKind(new)
    BY <1>2, <1>4, <2>2, <2>3, SMT DEF OneKind, IsLegacy, Higher, Fields
  <2> QED
    BY <2>4, <2>5 DEF more
<1>5. CASE IsLegacy(more) # IsLegacy(a)
  <2>1. \A f \in Fields : new[f] = IF a[f] = 0 THEN old[f] ELSE a[f]
    BY <1>3, <1>5 DEF Choose, Merged
  <2>2. IsLegacy(more) <=> IsLegacy(old)
    BY <1>2 DEF IsLegacy, Fields
  <2>3. Mixed(new)
    BY <1>5, <2>1, <2>2, SMT DEF Mixed, OneKind, IsLegacy, Fields, Price
  <2> QED
    BY <2>3
<1> QED
  BY <1>4, <1>5

(* A re-send of a mixed attempt is mixed.                                    *)
LEMMA ResendOfMixed ==
  ASSUME NEW old, Mixed(old), NEW b
  PROVE  Mixed(Merged(old, b))
BY SMT DEF Mixed, Merged, IsLegacy, Fields

(* A re-send tops the last attempt, and so all of them.                      *)
LEMMA ResendTops ==
  ASSUME NEW s \in Seq(Price), s # <<>>, Climbs(s),
         NEW a \in Price, OneKind(a), NEW new, new = Merged(Last(s), Bumped(Last(s), a))
  PROVE  Tops(new, s)
<1> DEFINE old == s[Len(s)]
<1>1. Len(s) \in DOMAIN s /\ old \in Price /\ Last(s) = old
  BY DEF Last
<1>2. OneKind(old) \/ Mixed(old)
  BY <1>1 DEF Climbs
<1>3. new \in Price
  BY <1>1, MergedKind
<1>4. CASE Mixed(old)
  <2>1. Mixed(new)
    BY <1>1, <1>4, ResendOfMixed
  <2> QED
    BY <2>1 DEF Tops, Above
<1>5. CASE OneKind(old) /\ ~Mixed(old)
  <2>1. /\ OneKind(new) \/ Mixed(new)
        /\ ~Mixed(new) => \A f \in Fields : new[f] >= Extra(old, Bump, 0)[f]
    BY <1>1, <1>5, ResendOfOneKind
  <2>2. ASSUME NEW i \in DOMAIN s, ~Mixed(new) PROVE Above(new, s[i])
    <3>1. CASE i = Len(s)
      BY <1>5, <2>1, <3>1 DEF Above
    <3>2. CASE i # Len(s)
      <4>1. i < Len(s) /\ s[i] \in Price
        BY <3>2
      <4>2. ~Mixed(s[i]) /\ \A f \in Fields : old[f] >= Extra(s[i], Bump, 0)[f]
        BY <1>1, <1>5, <4>1 DEF Climbs, Above
      <4>3. Bump \in Nat
        BY QuotesAssumption
      <4>4. /\ \A f \in Fields : Extra(old, Bump, 0)[f] >= old[f]
            /\ Extra(old, Bump, 0) \in Price /\ Extra(s[i], Bump, 0) \in Price
        BY <1>1, <4>1, <4>3, ExtraKind
      <4>5. \A f \in Fields : /\ new[f] \in Nat /\ old[f] \in Nat
                              /\ Extra(old, Bump, 0)[f] \in Nat
                              /\ Extra(s[i], Bump, 0)[f] \in Nat
        BY <1>1, <1>3, <4>4 DEF Price
      <4>6. \A f \in Fields : new[f] >= Extra(s[i], Bump, 0)[f]
        <5> SUFFICES ASSUME NEW f \in Fields PROVE new[f] >= Extra(s[i], Bump, 0)[f]
          OBVIOUS
        <5>1. /\ new[f] >= Extra(old, Bump, 0)[f] /\ Extra(old, Bump, 0)[f] >= old[f]
              /\ old[f] >= Extra(s[i], Bump, 0)[f]
          BY <2>1, <2>2, <4>2, <4>4
        <5> QED
          BY <4>5, <5>1, SMT
      <4> QED
        BY <4>2, <4>6 DEF Above
    <3> QED
      BY <3>1, <3>2
  <2>3. ASSUME NEW i \in DOMAIN s, Mixed(new) PROVE Above(new, s[i])
    BY <2>3 DEF Above
  <2> QED
    BY <2>1, <2>2, <2>3 DEF Tops
<1> QED
  BY <1>2, <1>4, <1>5

(* Attempts that climb, with one more that tops them, or cut short.          *)
LEMMA ClimbsOn ==
  ASSUME NEW s \in Seq(Price), Climbs(s), NEW a \in Price, Tops(a, s)
  PROVE  Climbs(Append(s, a)) /\ ToSet(Append(s, a)) = ToSet(s) \cup {a}
<1> DEFINE t == Append(s, a)
<1>1. /\ t \in Seq(Price) /\ Len(t) = Len(s) + 1 /\ t[Len(s) + 1] = a
      /\ \A i \in 1..Len(s) : t[i] = s[i]
  BY AppendProperties
<1> HIDE DEF t
<1>2. /\ DOMAIN t = 1..(Len(s) + 1) /\ DOMAIN s = 1..Len(s) /\ Len(s) \in Nat
      /\ \A i \in DOMAIN t : i \in DOMAIN s \/ i = Len(s) + 1
  BY <1>1
<1>3. \A i \in DOMAIN t : OneKind(t[i]) \/ Mixed(t[i])
  BY <1>1, <1>2 DEF Climbs, Tops
<1>4. ASSUME NEW i \in DOMAIN t, NEW k \in DOMAIN t, i < k PROVE Above(t[k], t[i])
  <2>1. i \in DOMAIN s /\ t[i] = s[i]
    BY <1>1, <1>2, <1>4
  <2>2. CASE k \in DOMAIN s
    BY <1>1, <1>2, <1>4, <2>1, <2>2 DEF Climbs
  <2>3. CASE k = Len(s) + 1
    BY <1>1, <2>1, <2>3 DEF Tops
  <2> QED
    BY <1>2, <2>2, <2>3
<1>5. ToSet(t) = ToSet(s) \cup {a}
  BY <1>1, <1>2 DEF ToSet
<1> QED
  BY <1>3, <1>4, <1>5 DEF Climbs, t

LEMMA ClimbsCut ==
  ASSUME NEW s \in Seq(Price), Climbs(s), NEW n \in 0..Len(s)
  PROVE  Climbs(SubSeq(s, 1, n))
<1> DEFINE t == SubSeq(s, 1, n)
<1>1. t \in Seq(Price) /\ Len(t) = n /\ \A i \in 1..n : t[i] = s[i] /\ i \in DOMAIN s
  OBVIOUS
<1> HIDE DEF t
<1>2. DOMAIN t = 1..n
  BY <1>1
<1>3. Climbs(t)
  BY <1>1, <1>2 DEF Climbs
<1> QED
  BY <1>3 DEF t

LEMMA SendInvStep == TypeOK /\ SendInv /\ [Next]_vars => SendInv'
<1> SUFFICES ASSUME TypeOK, SendInv, [Next]_vars PROVE SendInv'
  OBVIOUS
<1> USE DEF SendInv
<1>0. /\ price \in Price /\ OneKind(price) /\ attempts \in Seq(Price) /\ Climbs(attempts)
      /\ saved \in 0..Len(attempts) /\ sending \in Price \cup {None}
  BY DEF TypeOK
<1>1. ASSUME UNCHANGED <<attempts, saved, sending, held>>, OneKind(price') PROVE SendInv'
  BY <1>1 DEF Climbs, Tops, Above
<1>2. ASSUME NEW u \in Updates, FetchGasPrice(u) PROVE SendInv'
  <2>1. OneKind(price')
    BY <1>0, <1>2, FetchedKind DEF FetchGasPrice
  <2> QED
    BY <1>1, <1>2, <2>1 DEF FetchGasPrice, txVars
<1>3. ASSUME NEW u \in Updates, CacheFees(u) PROVE SendInv'
  BY <1>0, <1>1, <1>3 DEF CacheFees, txVars
<1>4. CASE Dies
  <2>1. Climbs(attempts')
    BY <1>0, <1>4, ClimbsCut DEF Dies
  <2> QED
    BY <1>4, <2>1, FallbackKind DEF Dies
<1>5. CASE GetFee
  BY <1>0, <1>1, <1>5 DEF GetFee, txVars
<1>6. CASE FirstSend
  <2> DEFINE a == Extra(price, Surplus, MaxFeeLimit)
  <2>1. OneKind(a) /\ attempts' = <<a>> /\ held' = ToSet(attempts')
        /\ UNCHANGED <<price, sending>> /\ sending = None
    <3>1. sending = None
      BY <1>6 DEF FirstSend
    <3> QED
      BY <1>0, <1>6, <3>1, QuotesAssumption, ExtraKind DEF FirstSend
  <2>2. Climbs(<<a>>)
    BY <2>1 DEF Climbs
  <2> QED
    BY <1>0, <2>1, <2>2
<1>7. CASE Resend
  <2>1. PICK a \in Fetched :
          /\ price' = a
          /\ sending' = Merged(Last(attempts),
                               Bumped(Last(attempts), Extra(a, Surplus, MaxFeeLimit)))
    BY <1>7 DEF Resend
  <2>2. a \in Price /\ OneKind(a)
    BY <1>0, FetchedKind
  <2> DEFINE b == Extra(a, Surplus, MaxFeeLimit)
  <2>3. b \in Price /\ OneKind(b) /\ attempts # <<>>
    BY <1>7, <2>2, QuotesAssumption, ExtraKind DEF Resend
  <2>4. Tops(sending', attempts)
    BY <1>0, <2>1, <2>3, ResendTops
  <2> QED
    BY <1>7, <2>1, <2>2, <2>3, <2>4 DEF Resend
<1>8. CASE Pushed
  <2>1. sending \in Price /\ Tops(sending, attempts) /\ sending' = None
        /\ attempts' = Append(attempts, sending) /\ held' = held \cup {sending}
        /\ UNCHANGED price
    BY <1>0, <1>8 DEF Pushed
  <2>2. Climbs(attempts') /\ ToSet(attempts') = ToSet(attempts) \cup {sending}
    BY <1>0, <2>1, ClimbsOn
  <2> QED
    BY <1>0, <2>1, <2>2
<1>9. CASE ResendBroke
  BY <1>0, <1>9 DEF ResendBroke
<1>10. CASE Mined
  BY <1>0, <1>10 DEF Mined, Climbs
<1>11. CASE UNCHANGED vars
  BY <1>0, <1>1, <1>11 DEF vars, txVars
<1> QED
  BY <1>2, <1>3, <1>4, <1>5, <1>6, <1>7, <1>8, <1>9, <1>10, <1>11
     DEF Next, ResendTaken, ResendRefused

LEMMA InvImpliesSendable == TypeOK /\ SendInv => Sendable
<1> SUFFICES ASSUME TypeOK, SendInv, attempts # <<>>, ~Mixed(Last(attempts))
             PROVE  /\ Last(attempts).maxPriority <= Last(attempts).maxFee
                    /\ \A a \in held \ {Last(attempts)}, f \in Fields :
                         Last(attempts)[f] >= Extra(a, Bump, 0)[f]
  BY DEF Sendable
<1>1. /\ attempts \in Seq(Price) /\ Len(attempts) \in DOMAIN attempts
      /\ Last(attempts) = attempts[Len(attempts)]
  BY DEF TypeOK, Last
<1>2. OneKind(Last(attempts))
  BY <1>1 DEF SendInv, Climbs
<1>3. ASSUME NEW a \in held \ {Last(attempts)}, NEW f \in Fields
      PROVE  Last(attempts)[f] >= Extra(a, Bump, 0)[f]
  <2>1. PICK i \in DOMAIN attempts : attempts[i] = a
    BY DEF SendInv, ToSet
  <2>2. i < Len(attempts)
    BY <1>1, <2>1
  <2> QED
    BY <1>1, <2>1, <2>2 DEF SendInv, Climbs, Above
<1> QED
  BY <1>2, <1>3 DEF OneKind

(* Each attempt of one kind is one that a node takes in place of all that it *)
(* may hold, but for those a restart lost: for any surplus, bump, limit and  *)
(* fallback.                                                                 *)
THEOREM AttemptsSendable == Spec => []Sendable
<1>1. Init => SendInv
  BY FallbackKind DEF Init, SendInv, Climbs
<1> QED
  BY <1>1, SendInvStep, InvImpliesSendable, TypeCorrect, PTL DEF Spec
=============================================================================
