------------------------------- MODULE Quotes -------------------------------
(***************************************************************************)
(* What the relayer quotes to its clients and what it pays itself.         *)
(*                                                                         *)
(* GasPrice holds the last gas price; the fee manager refreshes it on a    *)
(* timer and derives from it the fees that GET /fee quotes, and the        *)
(* transaction manager reads it for a first attempt and refreshes it for   *)
(* a re-send.  All of them wait for other services in between, and the     *)
(* process may die meanwhile.  The attempts of a transaction are in its    *)
(* job of the sent queue: in memory, and some of them in Redis.            *)
(* Amounts are small integers, percentages as configured.                  *)
(***************************************************************************)
EXTENDS Integers, SequencesExt

CONSTANTS
  Estimations,  \* GAS_PRICE_ESTIMATION_TYPE: "web3" or "polygon"
  Fallback,     \* GAS_PRICE_FALLBACK
  MaxFeeLimit,  \* TX_MAX_FEE_PER_GAS_LIMIT and the limit of the gas station
  Surplus,      \* TX_GAS_PRICE_SURPLUS, in percent
  Bump,         \* TX_MIN_GAS_PRICE_BUMP_FACTOR, in percent
  Scale,        \* RELAYER_FEE_SCALING_FACTOR, in percent
  BaseGas,      \* gas of a transaction
  Denominator,  \* of the pool: token units in a unit of the pool
  Rates,        \* what the price feed may answer
  Updates,      \* runs of the fee manager's timer that may overlap
  MaxPrice,     \* bound on the market's prices
  MaxResends,   \* bound on the re-sends of one transaction
  None          \* nothing yet

ASSUME QuotesAssumption ==
  /\ {Fallback, MaxFeeLimit, Denominator, MaxPrice} \subseteq Nat \ {0}
  /\ {Surplus, Bump, Scale, BaseGas, MaxResends} \subseteq Nat
  /\ Rates \subseteq Nat

VARIABLES
  estimation,  \* the configured estimation
  price,       \* cachedGasPrice
  fees,        \* cachedFeeOptions
  update,      \* the gas price of each run that waits for the price feed
  attempts,    \* prevAttempts of the transaction in flight: their prices
  saved,       \* how many of them the job in Redis has
  sending,     \* a re-send that waits for the node's answer
  held,        \* the attempts that a node may hold, but those that were lost
  quote        \* the latest answer of GET /fee

feeVars == <<fees, update, quote>>
txVars  == <<attempts, saved, sending, held>>
vars    == <<estimation, price, feeVars, txVars>>

-----------------------------------------------------------------------------
(* Gas prices are legacy or EIP-1559 ones; 0 stands for an absent field.     *)
Legacy(g)   == [gasPrice |-> g, maxFee |-> 0, maxPriority |-> 0]
Fee(m, p)   == [gasPrice |-> 0, maxFee |-> m, maxPriority |-> p]
IsLegacy(a) == a.gasPrice # 0
Fields      == {"gasPrice", "maxFee", "maxPriority"}
Price       == [Fields -> Nat]

ASSUME NoneAssumption == None \notin Price

Lower(a, b)  == IF a < b THEN a ELSE b
Higher(a, b) == IF a < b THEN b ELSE a

(* chooseGasPriceOptions: the higher of two prices of a kind, else the last. *)
Choose(a, b) ==
  IF IsLegacy(a) = IsLegacy(b) THEN [f \in Fields |-> Higher(a[f], b[f])] ELSE b

(* EIP1559GasPriceWithinLimit cuts both parts.                               *)
WithinLimit(a) ==
  IF a.maxFee < MaxFeeLimit THEN a
  ELSE Fee(MaxFeeLimit, Lower(a.maxPriority, MaxFeeLimit))

(* addExtraGasPrice: a percentage more, rounded, up to a limit if there is   *)
(* one (0: none); no percentage, no limit.                                   *)
Extra(a, percent, limit) ==
  LET more(x) == (x * (100 + percent) + 50) \div 100
  IN  IF percent = 0 THEN a
      ELSE [f \in Fields |-> IF limit = 0 THEN more(a[f])
                              ELSE Lower(more(a[f]), limit)]

(* What the estimation may answer: a node's gas price, or the gas station's  *)
(* pair with its priority not above its maximum, within the limit.           *)
Answers ==
  IF estimation = "web3" THEN {Legacy(g) : g \in 1..MaxPrice}
  ELSE {WithinLimit(Fee(m, Lower(m, p))) : m, p \in 1..MaxPrice}

(* fetchOnce: an answer, or without one the higher of the fallback and what  *)
(* is cached.                                                                *)
Fetched == Answers \cup {Choose(Legacy(Fallback), price)}

(* getMaxRequiredGasPrice.                                                   *)
MaxRequired(a) == IF IsLegacy(a) THEN a.gasPrice ELSE a.maxFee

(* fetchFeeOptions: the fee of a transaction at a gas price, converted and   *)
(* scaled ...                                                                *)
Scaled(a, rate) == (MaxRequired(a) * BaseGas * rate * Scale) \div 100

(* ... and in units of the pool.                                             *)
Denominated(fee) == fee \div Denominator

-----------------------------------------------------------------------------
Init ==
  /\ estimation \in Estimations
  /\ price = Legacy(Fallback) /\ fees = None
  /\ update = [u \in Updates |-> None] /\ quote = None
  /\ attempts = <<>> /\ saved = 0 /\ sending = None /\ held = {}

(* The fee manager's timer: the gas price is fetched and cached ...          *)
FetchGasPrice(u) ==
  /\ update[u] = None
  /\ \E a \in Fetched : price' = a /\ update' = [update EXCEPT ![u] = a]
  /\ UNCHANGED <<estimation, fees, quote, txVars>>

(* ... and with the rate of the price feed the fees are cached.              *)
CacheFees(u) ==
  /\ update[u] # None
  /\ \E rate \in Rates : fees' = Scaled(update[u], rate)
  /\ update' = [update EXCEPT ![u] = None]
  /\ UNCHANGED <<estimation, price, quote, txVars>>

(* The process ends and is started again: because it is killed, or because   *)
(* the price feed does not answer and the rejection is nobody's.  Of the     *)
(* attempts the saved ones are left, and a re-send in progress is lost.      *)
Dies ==
  /\ price' = Legacy(Fallback) /\ fees' = None
  /\ update' = [u \in Updates |-> None]
  /\ attempts' = SubSeq(attempts, 1, saved) /\ sending' = None
  /\ held' = held \cap ToSet(attempts')
  /\ UNCHANGED <<estimation, quote, saved>>

(* The API and the workers start after the first update.                     *)
Started == fees # None

(* Variant: the cached options are denominated in place.                     *)
GetFeeInPlace ==
  /\ Started /\ fees' = Denominated(fees) /\ quote' = Denominated(fees)
  /\ UNCHANGED <<estimation, price, update, txVars>>

(* GET /fee: a copy of the cached options, denominated.                      *)
GetFee ==
  /\ Started /\ quote' = Denominated(fees)
  /\ UNCHANGED <<estimation, price, fees, update, txVars>>

(* A first attempt, at the cached price and the surplus, and its job in the  *)
(* sent queue (TxPipeline has what happens in between).                      *)
FirstSend ==
  /\ Started /\ attempts = <<>>
  /\ attempts' = <<Extra(price, Surplus, MaxFeeLimit)>> /\ saved' = 1
  /\ held' = ToSet(attempts')
  /\ UNCHANGED <<estimation, price, feeVars, sending>>

(* getGasPriceValue reads a legacy price first, where an attempt has both.   *)
PriceOf(attempt) ==
  IF IsLegacy(attempt) THEN Legacy(attempt.gasPrice) ELSE attempt

(* updateAndBumpGasPrice.                                                    *)
Bumped(attempt, a) == Choose(Extra(PriceOf(attempt), Bump, 0), a)

(* The fields of the attempt before stay where the new price has none.       *)
Merged(attempt, a) == [f \in Fields |-> IF a[f] = 0 THEN attempt[f] ELSE a[f]]

(* prepareTx for a re-send: the gas price is fetched, and bumped over the    *)
(* last attempt.  The transaction goes to the node ...                       *)
Resend ==
  /\ Started /\ attempts # <<>> /\ sending = None /\ Len(attempts) <= MaxResends
  /\ \E a \in Fetched :
       /\ price' = a
       /\ sending' = Merged(Last(attempts), Bumped(Last(attempts), Extra(a, Surplus, MaxFeeLimit)))
  /\ UNCHANGED <<estimation, feeVars, attempts, saved, held>>

Pushed ==
  /\ sending # None /\ sending' = None
  /\ attempts' = Append(attempts, sending) /\ held' = held \cup {sending}
  /\ UNCHANGED <<estimation, price, feeVars>>

(* ... which takes it: the job is saved ...                                  *)
ResendTaken == Pushed /\ saved' = Len(attempts')

(* Variant: the attempt is taken back after any error.                       *)
ResendRefusedPops ==
  /\ sending # None /\ sending' = None
  /\ held' = held \cup {sending}
  /\ UNCHANGED <<estimation, price, feeVars, attempts, saved>>

(* ... or there is an error, of the node or of the connection, after which   *)
(* the node may have it: the attempt is kept in memory ...                   *)
ResendRefused == Pushed /\ UNCHANGED saved

(* ... or the balance is too low: the attempt is taken back.                 *)
ResendBroke ==
  /\ sending # None /\ sending' = None
  /\ UNCHANGED <<estimation, price, feeVars, attempts, saved, held>>

(* One of the attempts is mined; another transaction may follow.             *)
Mined ==
  /\ attempts # <<>> /\ sending = None
  /\ attempts' = <<>> /\ saved' = 0 /\ held' = {}
  /\ UNCHANGED <<estimation, price, feeVars, sending>>

Next ==
  \/ \E u \in Updates : FetchGasPrice(u) \/ CacheFees(u)
  \/ Dies \/ GetFee
  \/ FirstSend \/ Resend \/ ResendTaken \/ ResendRefused \/ ResendBroke \/ Mined

Spec == Init /\ [][Next]_vars

-----------------------------------------------------------------------------
(* Shapes of the state.                                                      *)
TypeOK ==
  /\ estimation \in Estimations /\ price \in Price
  /\ fees \in Nat \cup {None} /\ quote \in Nat \cup {None}
  /\ update \in [Updates -> Price \cup {None}]
  /\ attempts \in Seq(Price) /\ saved \in 0..Len(attempts)
  /\ sending \in Price \cup {None} /\ held \subseteq Price

(* A node takes the last attempt: its priority fee is not above its maximal  *)
(* fee, and it is by the bump above every other attempt that a node may      *)
(* hold, whatever the market, failed re-sends and restarts did to the cached *)
(* price and the list of attempts in between.  The exceptions are attempts   *)
(* that the list lost in a restart, because a re-send is saved only after    *)
(* the node took it, and one that has both kinds of price (README).          *)
Mixed(attempt) == IsLegacy(attempt) /\ attempt.maxFee # 0
Sendable ==
  attempts # <<>> /\ ~Mixed(Last(attempts)) =>
    /\ Last(attempts).maxPriority <= Last(attempts).maxFee
    /\ \A a \in held \ {Last(attempts)}, f \in Fields :
         Last(attempts)[f] >= Extra(a, Bump, 0)[f]

(* A quote is the fee at one gas price and one rate that the relayer may     *)
(* have been given: overlapping updates and the quotes of others leave no    *)
(* trace in it.                                                              *)
QuoteOfOnePrice ==
  quote # None =>
    \E a \in Answers \cup {Legacy(Fallback)}, rate \in Rates :
      quote = Denominated(Scaled(a, rate))
=============================================================================
