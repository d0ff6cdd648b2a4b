------------------------ MODULE SqrtPriceLimitProofs ------------------------
(***************************************************************************)
(* The price limit keeps a drip within the vault's slippage, and withholds *)
(* nothing of it, for every precision, every price and every slippage.     *)
(***************************************************************************)
EXTENDS SqrtPriceLimit, TLAPS

-----------------------------------------------------------------------------
(* Arithmetic *)

\* Products of natural numbers grow with their factors.
LEMMA ProductGrows ==
    ASSUME NEW a \in Nat, NEW b \in Nat, NEW c \in Nat, NEW d \in Nat, a <= b, c <= d
    PROVE  a * c <= b * d
<1>1. a * c <= b * c
  BY Z3
<1>2. b * c <= b * d
  BY Z3
<1> QED
  BY <1>1, <1>2, Z3

LEMMA SquareGrows ==
    ASSUME NEW a \in Nat, NEW b \in Nat
    PROVE  (a <= b) <=> (a * a <= b * b)
<1>1. ASSUME a <= b PROVE a * a <= b * b
  BY <1>1, ProductGrows
<1>2. ASSUME b < a PROVE b * b < a * a
  <2>1. b * b <= b * a
    BY <1>2, ProductGrows
  <2>2. b * a < a * a
    BY <1>2, Z3
  <2> QED
    BY <2>1, <2>2, Z3
<1> QED
  BY <1>1, <1>2, Z3

\* What a division rounded down leaves.
LEMMA Quotient ==
    ASSUME NEW a \in Nat, NEW b \in Nat \ {0}
    PROVE  /\ a \div b \in Nat
           /\ (a \div b) * b <= a
           /\ a < ((a \div b) + 1) * b
  BY Z3

-----------------------------------------------------------------------------
(* The factor and the limit *)

\* The factor is at most the root, and one more is at least the root, however the f64
\* has rounded it.
LEMMA FactorBounds ==
    ASSUME NEW share \in Nat, NEW f \in SqrtFactors(share)
    PROVE  /\ f \in Nat
           /\ f * f <= Bps * share
           /\ Bps * share <= (f + 1) * (f + 1)
<1>1. f \in Nat /\ Bps * share \in Nat
  BY PriceLimitAssumption DEF SqrtFactors
<1>2. CASE f * f <= Bps * share /\ Bps * share < (f + 1) * (f + 1)
  BY <1>1, <1>2, Z3
<1>3. CASE Bps * share = (f + 1) * (f + 1)
  BY <1>1, <1>3, SquareGrows, Z3
<1> QED
  BY <1>1, <1>2, <1>3 DEF SqrtFactors

\* The slippage leaves a share of the price, and the price is a natural number.
LEMMA AllowedShareType ==
    ASSUME TypeOK
    PROVE  /\ AllowedShare(max_slippage_bps, a_to_b) \in Nat
           /\ sqrt_price \in Nat
  BY PriceLimitAssumption DEF TypeOK, AllowedShare, SqrtPrices

\* What a limit is, without division: the multiple of the price by the factor that it
\* rounds down.
LEMMA LimitBounds ==
    ASSUME NEW price \in Nat, NEW f \in Nat
    PROVE  /\ Scaled(price, f) \in Nat
           /\ Scaled(price, f) * Bps <= price * f
           /\ price * f < (Scaled(price, f) + 1) * Bps
<1>1. price * f \in Nat
  BY Z3
<1> QED
  BY <1>1, Quotient, PriceLimitAssumption DEF Scaled

-----------------------------------------------------------------------------
(* How far a price within the limit may go *)

\* (x * y)^2 = x^2 * y^2.
LEMMA SquareOfProduct ==
    ASSUME NEW x \in Nat, NEW y \in Nat
    PROVE  /\ x * y \in Nat
           /\ (x * y) * (x * y) = (x * x) * (y * y)
  BY Z3

\* A price at or below a limit has risen within the share the limit stands for.
LEMMA RiseWithinLimit ==
    ASSUME NEW price \in Nat, NEW to \in Nat, NEW share \in Nat,
           NEW f \in SqrtFactors(share), to <= Scaled(price, f)
    PROVE  RoseAtMostTo(share, price, to)
<1>1. f \in Nat /\ f * f <= Bps * share
  BY FactorBounds
<1>2. to * Bps <= price * f
  <2>1. PICK limit \in Nat : limit = Scaled(price, f) /\ limit * Bps <= price * f
    BY <1>1, LimitBounds
  <2>2. to * Bps <= limit * Bps
    BY <2>1, ProductGrows, PriceLimitAssumption
  <2>3. to * Bps \in Nat /\ limit * Bps \in Nat /\ price * f \in Nat
    BY <1>1, SquareOfProduct, PriceLimitAssumption
  <2> QED
    BY <2>1, <2>2, <2>3
<1>3. (to * Bps) * (to * Bps) <= (price * f) * (price * f)
  BY <1>1, <1>2, SquareOfProduct, SquareGrows, PriceLimitAssumption
<1>4. (to * to) * (Bps * Bps) <= (price * price) * (f * f)
  BY <1>1, <1>3, SquareOfProduct, PriceLimitAssumption
<1>5. (price * price) * (f * f) <= (price * price) * (Bps * share)
  <2>1. price * price \in Nat /\ f * f \in Nat /\ Bps * share \in Nat
    BY <1>1, PriceLimitAssumption, Z3
  <2> QED
    BY <1>1, <2>1, ProductGrows
<1>6. ((to * to) * Bps) * Bps <= ((price * price) * share) * Bps
  BY <1>1, <1>4, <1>5, PriceLimitAssumption, Z3
<1>7. (to * to) * Bps <= (price * price) * share
  <2>1. (to * to) * Bps \in Nat /\ (price * price) * share \in Nat
    BY PriceLimitAssumption, Z3
  <2> QED
    BY <1>6, <2>1, PriceLimitAssumption, Z3
<1> QED
  BY <1>7 DEF RoseAtMostTo

\* A price at or above a limit has fallen within the share the limit stands for, but
\* for the two roundings.
LEMMA FallWithinLimit ==
    ASSUME NEW price \in Nat, NEW to \in Nat, NEW share \in Nat,
           NEW f \in SqrtFactors(share), to >= Scaled(price, f)
    PROVE  FellAtMostTo(share, price, to)
<1>1. f \in Nat /\ Bps * share <= (f + 1) * (f + 1)
  BY FactorBounds
<1>2. price * (f + 1) <= (to + 1) * Bps + price
  <2>1. PICK limit \in Nat :
           limit = Scaled(price, f) /\ price * f < (limit + 1) * Bps
    BY <1>1, LimitBounds
  <2>2. (limit + 1) * Bps <= (to + 1) * Bps
    <3>1. limit + 1 \in Nat /\ to + 1 \in Nat /\ limit + 1 <= to + 1
      BY <2>1
    <3> QED
      BY <3>1, ProductGrows, PriceLimitAssumption
  <2>3. /\ (to + 1) * Bps \in Nat /\ (limit + 1) * Bps \in Nat /\ price * f \in Nat
        /\ price * (f + 1) = price * f + price
    BY <1>1, PriceLimitAssumption, Z3
  <2> QED
    BY <2>1, <2>2, <2>3
<1>3. (price * (f + 1)) * (price * (f + 1))
        <= ((to + 1) * Bps + price) * ((to + 1) * Bps + price)
  <2>1. (to + 1) * Bps + price \in Nat
    BY PriceLimitAssumption, Z3
  <2> QED
    BY <1>1, <1>2, <2>1, SquareOfProduct, SquareGrows
<1>4. (price * price) * (Bps * share) <= (price * price) * ((f + 1) * (f + 1))
  <2>1. price * price \in Nat /\ (f + 1) * (f + 1) \in Nat /\ Bps * share \in Nat
    BY <1>1, PriceLimitAssumption, Z3
  <2> QED
    BY <1>1, <2>1, ProductGrows
<1>5. (price * (f + 1)) * (price * (f + 1)) = (price * price) * ((f + 1) * (f + 1))
  BY <1>1, SquareOfProduct
<1>6. price * price * Bps * share = (price * price) * (Bps * share)
  BY PriceLimitAssumption, Z3
<1> QED
  BY <1>1, <1>3, <1>4, <1>5, <1>6, PriceLimitAssumption, Z3 DEF FellAtMostTo

-----------------------------------------------------------------------------
(* What the limit lets through *)

\* A price that has fallen within the share is not below the limit.
LEMMA LimitLetsFall ==
    ASSUME NEW price \in Nat, NEW to \in Nat, NEW share \in Nat,
           NEW f \in SqrtFactors(share),
           to * to * Bps >= price * price * share
    PROVE  to >= Scaled(price, f)
<1>1. f \in Nat /\ f * f <= Bps * share
  BY FactorBounds
<1>2. PICK limit \in Nat : limit = Scaled(price, f) /\ limit * Bps <= price * f
  BY <1>1, LimitBounds
<1>3. /\ price * price \in Nat /\ to * to * Bps \in Nat /\ price * price * share \in Nat
      /\ f * f \in Nat /\ Bps * share \in Nat /\ to * Bps \in Nat /\ limit * Bps \in Nat
      /\ price * f \in Nat
  BY <1>1, PriceLimitAssumption, Z3
<1>4. (price * price) * (f * f) <= (price * price) * (Bps * share)
  BY <1>1, <1>3, ProductGrows
<1>5. (price * price * share) * Bps <= (to * to * Bps) * Bps
  BY <1>3, ProductGrows, PriceLimitAssumption
<1>6. (price * f) * (price * f) <= (to * Bps) * (to * Bps)
  BY <1>1, <1>3, <1>4, <1>5, PriceLimitAssumption, Z3
<1>7. limit * Bps <= to * Bps
  BY <1>2, <1>3, <1>6, SquareGrows
<1>8. ~ to < limit
  <2>1. SUFFICES ASSUME to < limit PROVE FALSE
    OBVIOUS
  <2>2. (to + 1) * Bps <= limit * Bps
    <3>1. to + 1 \in Nat /\ to + 1 <= limit
      BY <2>1
    <3> QED
      BY <3>1, ProductGrows, PriceLimitAssumption
  <2> QED
    BY <1>7, <2>2, PriceLimitAssumption, Z3
<1> QED
  BY <1>2, <1>8

\* A price that has risen within the share, with the two roundings to spare, is not
\* above the limit.
LEMMA LimitLetsRise ==
    ASSUME NEW price \in Nat, NEW to \in Nat, NEW share \in Nat,
           NEW f \in SqrtFactors(share),
           ((to + 1) * Bps + price) * ((to + 1) * Bps + price)
              <= price * price * Bps * share
    PROVE  to <= Scaled(price, f)
<1>1. f \in Nat /\ Bps * share <= (f + 1) * (f + 1)
  BY FactorBounds
<1>2. PICK limit \in Nat :
         limit = Scaled(price, f) /\ price * f < (limit + 1) * Bps
  BY <1>1, LimitBounds
<1>3. /\ price * price \in Nat /\ (f + 1) * (f + 1) \in Nat /\ Bps * share \in Nat
      /\ (to + 1) * Bps + price \in Nat /\ price * (f + 1) \in Nat
      /\ price * price * Bps * share = (price * price) * (Bps * share)
  BY <1>1, PriceLimitAssumption, Z3
<1>4. (price * price) * (Bps * share) <= (price * price) * ((f + 1) * (f + 1))
  BY <1>1, <1>3, ProductGrows
<1>5. (price * (f + 1)) * (price * (f + 1)) = (price * price) * ((f + 1) * (f + 1))
  BY <1>1, SquareOfProduct
<1>6. (to + 1) * Bps + price <= price * (f + 1)
  BY <1>3, <1>4, <1>5, SquareGrows, Z3
<1>7. (to + 1) * Bps <= price * f
  BY <1>1, <1>6, PriceLimitAssumption, Z3
<1>8. ~ limit < to
  <2>1. SUFFICES ASSUME limit < to PROVE FALSE
    OBVIOUS
  <2>2. (limit + 1) * Bps <= (to + 1) * Bps
    <3>1. limit + 1 \in Nat /\ to + 1 \in Nat /\ limit + 1 <= to + 1
      BY <2>1
    <3> QED
      BY <3>1, ProductGrows, PriceLimitAssumption
  <2> QED
    BY <1>1, <1>2, <1>7, <2>2, PriceLimitAssumption, Z3
<1> QED
  BY <1>2, <1>8

-----------------------------------------------------------------------------
(* The specification *)

LEMMA InitType == Init => TypeOK
  BY PriceLimitAssumption DEF Init, TypeOK

LEMMA StepType == TypeOK /\ [Next]_vars => TypeOK'
<1> SUFFICES ASSUME TypeOK, [Next]_vars PROVE TypeOK'
  OBVIOUS
<1> USE PriceLimitAssumption
<1>1. CASE InitVaultStep
  BY <1>1 DEF TypeOK, InitVaultStep, InitVault, SlippageAccepted
<1>2. CASE DripStep
  BY <1>2 DEF TypeOK, DripStep, DripOrcaWhirlpool
<1>3. CASE TradeStep
  BY <1>3 DEF TypeOK, TradeStep, TradeByOthers
<1>4. CASE UNCHANGED vars
  BY <1>4 DEF TypeOK, vars
<1> QED
  BY <1>1, <1>2, <1>3, <1>4 DEF Next

\* Slippages and prices stay in their ranges: init_vault accepts no slippage that would
\* leave nothing of the price, and no drip takes the pool out of its bounds.
THEOREM TypeCorrect == Spec => []TypeOK
<1>1. TypeOK /\ [Next]_vars => TypeOK'
  BY StepType
<1> QED
  BY InitType, <1>1, PTL DEF Spec

\* One step of the specification is within the slippage.
LEMMA StepWithinSlippage ==
    ASSUME TypeOK, [Next]_vars, last_drip_period' # last_drip_period
    PROVE  IF a_to_b
           THEN /\ sqrt_price' <= sqrt_price
                /\ FellAtMostTo(Bps - max_slippage_bps, sqrt_price, sqrt_price')
           ELSE /\ sqrt_price' >= sqrt_price
                /\ RoseAtMostTo(Bps + max_slippage_bps, sqrt_price, sqrt_price')
<1>1. DripStep
  BY DEF Next, InitVaultStep, InitVault, TradeStep, TradeByOthers, vars
<1>2. PICK limit \in SqrtPriceLimits(sqrt_price, max_slippage_bps, a_to_b),
           to \in SqrtPrices : DripOrcaWhirlpool(limit, to)
  BY <1>1 DEF DripStep
<1>3. to \in Fillable(sqrt_price, limit, a_to_b) /\ sqrt_price' = to
  BY <1>2 DEF DripOrcaWhirlpool
<1> DEFINE share == AllowedShare(max_slippage_bps, a_to_b)
<1>4. PICK f \in SqrtFactors(share) : limit = Scaled(sqrt_price, f)
  BY <1>2 DEF SqrtPriceLimits
<1>5. share \in Nat /\ sqrt_price \in Nat /\ to \in Nat
  BY AllowedShareType, PriceLimitAssumption DEF SqrtPrices
<1>6. CASE a_to_b
  <2>1. to >= limit /\ to <= sqrt_price
    BY <1>3, <1>6 DEF Fillable, SqrtPrices
  <2>2. FellAtMostTo(share, sqrt_price, to)
    BY <1>4, <1>5, <2>1, FallWithinLimit
  <2>3. share = Bps - max_slippage_bps
    BY <1>6 DEF AllowedShare
  <2> QED
    BY <1>3, <1>6, <2>1, <2>2, <2>3
<1>7. CASE ~ a_to_b
  <2>1. to <= limit /\ to >= sqrt_price
    BY <1>3, <1>7 DEF Fillable, SqrtPrices
  <2>2. RoseAtMostTo(share, sqrt_price, to)
    BY <1>4, <1>5, <2>1, RiseWithinLimit
  <2>3. share = Bps + max_slippage_bps
    BY <1>7 DEF AllowedShare
  <2> QED
    BY <1>3, <1>7, <2>1, <2>2, <2>3
<1> QED
  BY <1>6, <1>7

\* A drip through a whirlpool moves the price no further than the vault's slippage
\* allows, up to the roundings of the factor and of the limit when it sells.
THEOREM SlippageRespected == Spec => DripsWithinSlippage
<1>1. TypeOK /\ [Next]_vars =>
        [last_drip_period' # last_drip_period =>
           IF a_to_b
           THEN /\ sqrt_price' <= sqrt_price
                /\ FellAtMostTo(Bps - max_slippage_bps, sqrt_price, sqrt_price')
           ELSE /\ sqrt_price' >= sqrt_price
                /\ RoseAtMostTo(Bps + max_slippage_bps, sqrt_price, sqrt_price')]_vars
  BY StepWithinSlippage
<1> QED
  BY TypeCorrect, <1>1, PTL DEF Spec, DripsWithinSlippage

\* The price limit withholds nothing of the slippage from a drip that sells, and no more
\* than its two roundings from one that buys.
THEOREM SlippageNotWithheld == Spec => []SlippageUsable
<1>1. TypeOK => SlippageUsable
  <2> SUFFICES ASSUME TypeOK,
                      NEW limit \in SqrtPriceLimits(sqrt_price, max_slippage_bps, a_to_b),
                      NEW to \in SqrtPrices
               PROVE  IF a_to_b
                      THEN to * to * Bps >= sqrt_price * sqrt_price * (Bps - max_slippage_bps)
                             => to >= limit
                      ELSE ((to + 1) * Bps + sqrt_price) * ((to + 1) * Bps + sqrt_price)
                               <= sqrt_price * sqrt_price * Bps * (Bps + max_slippage_bps)
                             => to <= limit
    BY DEF SlippageUsable
  <2> DEFINE share == AllowedShare(max_slippage_bps, a_to_b)
  <2>1. PICK f \in SqrtFactors(share) : limit = Scaled(sqrt_price, f)
    BY DEF SqrtPriceLimits
  <2>2. share \in Nat /\ sqrt_price \in Nat /\ to \in Nat
    BY AllowedShareType, PriceLimitAssumption DEF SqrtPrices
  <2>3. CASE a_to_b
    <3>1. share = Bps - max_slippage_bps
      BY <2>3 DEF AllowedShare
    <3> HIDE DEF share
    <3> QED
      BY <2>1, <2>2, <2>3, <3>1, LimitLetsFall
  <2>4. CASE ~ a_to_b
    <3>1. share = Bps + max_slippage_bps
      BY <2>4 DEF AllowedShare
    <3> HIDE DEF share
    <3> QED
      BY <2>1, <2>2, <2>4, <3>1, LimitLetsRise
  <2> QED
    BY <2>3, <2>4
<1> QED
  BY TypeCorrect, <1>1, PTL
=============================================================================
