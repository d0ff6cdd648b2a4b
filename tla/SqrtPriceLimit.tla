--------------------------- MODULE SqrtPriceLimit ---------------------------
(***************************************************************************)
(* The price limit of a drip through a whirlpool.                          *)
(*                                                                         *)
(* A whirlpool holds the square root of its price, of its token A in its   *)
(* token B.  Selling its A lowers the price and buying it raises it.  A    *)
(* drip reads the price and lets the pool move it as far as the vault's    *)
(* max_slippage_bps says: the limit is the square root times a factor that *)
(* an f64 square root and two roundings down compute.  Others trade with   *)
(* the pool between the drips.                                             *)
(*                                                                         *)
(* One vault and one pool: how far one drip moves the price depends on no  *)
(* other vault and no other pool.                                          *)
(***************************************************************************)
EXTENDS Integers

CONSTANTS
    Bps,            \* basis points in one, which is the factor's precision too: 10_000
    MinSqrtPrice,   \* the whirlpool program's bounds of a square root of a price
    MaxSqrtPrice,
    SlippageParams, \* the values init_vault is called with
    MaxPeriod       \* bound: drips the model looks at

ASSUME PriceLimitAssumption ==
    /\ Bps \in Nat \ {0}
    /\ MinSqrtPrice \in Nat \ {0}
    /\ MaxSqrtPrice \in Nat
    /\ MinSqrtPrice <= MaxSqrtPrice
    /\ SlippageParams \subseteq Nat
    /\ MaxPeriod \in Nat

VARIABLES
    max_slippage_bps,  \* Vault.max_slippage_bps, 0 until the vault is created
    a_to_b,            \* is the vault's token A the pool's token A
    sqrt_price,        \* Whirlpool.sqrt_price
    last_drip_period   \* Vault.last_drip_period

vars == <<max_slippage_bps, a_to_b, sqrt_price, last_drip_period>>

SqrtPrices == MinSqrtPrice .. MaxSqrtPrice

-----------------------------------------------------------------------------
(* calculate_sqrt_price_limit *)

\* The price that the slippage allows, as a share of the current one, in bps.
AllowedShare(slippage, selling) ==
    IF selling THEN Bps - slippage ELSE Bps + slippage

\* Mutant: the factor of the price is applied to its square root.
SqrtFactorsLinear(share) == {share}

\* floor(sqrt(share / Bps) * Bps).  The f64 rounds 1.0 -+ 0.0001 * slippage, so where
\* the root is a whole number the result may be that number or one less.
SqrtFactors(share) ==
    {f \in 0 .. 2 * Bps :
        \/ f * f <= Bps * share /\ Bps * share < (f + 1) * (f + 1)
        \/ Bps * share = (f + 1) * (f + 1)}

\* Mutant: the division comes first.
ScaledDividedFirst(price, factor) == (price \div Bps) * factor

Scaled(price, factor) == (price * factor) \div Bps

\* The limits a drip may come to at this price.
SqrtPriceLimits(price, slippage, selling) ==
    {Scaled(price, f) : f \in SqrtFactors(AllowedShare(slippage, selling))}

-----------------------------------------------------------------------------
(* The whirlpool program *)

\* The prices at which a swap with this limit can be filled completely: between the
\* limit and the price.  A limit on the wrong side, out of bounds, or at the price
\* itself fills nothing.
Fillable(price, limit, selling) ==
    IF limit \notin SqrtPrices THEN {}
    ELSE IF selling THEN {to \in limit .. price : limit < price}
                    ELSE {to \in price .. limit : limit > price}

-----------------------------------------------------------------------------
Init ==
    /\ max_slippage_bps = 0
    /\ a_to_b \in BOOLEAN
    /\ sqrt_price \in SqrtPrices
    /\ last_drip_period = 0

\* Mutant: the upper limit is inclusive.
SlippageAcceptedInclusive(slippage) == slippage > 0 /\ slippage <= Bps

SlippageAccepted(slippage) == slippage > 0 /\ slippage < Bps

InitVault(slippage) ==
    /\ max_slippage_bps = 0
    /\ SlippageAccepted(slippage)
    /\ max_slippage_bps' = slippage
    /\ UNCHANGED <<a_to_b, sqrt_price, last_drip_period>>

\* The drip goes through when the pool fills it completely; a part of it is an error,
\* as nothing is.  How far the price has gone then depends on the pool's liquidity.
DripOrcaWhirlpool(limit, to) ==
    /\ max_slippage_bps > 0
    /\ last_drip_period < MaxPeriod
    /\ to \in Fillable(sqrt_price, limit, a_to_b)
    /\ sqrt_price' = to
    /\ last_drip_period' = last_drip_period + 1
    /\ UNCHANGED <<max_slippage_bps, a_to_b>>

\* Others trade with the pool, or move its liquidity.
TradeByOthers(to) ==
    /\ sqrt_price' = to
    /\ UNCHANGED <<max_slippage_bps, a_to_b, last_drip_period>>

InitVaultStep == \E slippage \in SlippageParams : InitVault(slippage)

DripStep ==
    \E limit \in SqrtPriceLimits(sqrt_price, max_slippage_bps, a_to_b) :
       \E to \in SqrtPrices : DripOrcaWhirlpool(limit, to)

TradeStep == \E to \in SqrtPrices : TradeByOthers(to)

Next == InitVaultStep \/ DripStep \/ TradeStep

Spec == Init /\ [][Next]_vars

-----------------------------------------------------------------------------
(* Properties *)

\* The vault's slippage is one that leaves something of the price, and the pool's
\* price stays within the pool's bounds.
TypeOK ==
    /\ max_slippage_bps \in 0 .. Bps - 1
    /\ a_to_b \in BOOLEAN
    /\ sqrt_price \in SqrtPrices
    /\ last_drip_period \in 0 .. MaxPeriod

\* The price, the square of its root, has become no more than this share of what it
\* was; and no less than it, but for one basis point and one unit of the root.
RoseAtMostTo(share, from, to) == to * to * Bps <= from * from * share
FellAtMostTo(share, from, to) ==
    ((to + 1) * Bps + from) * ((to + 1) * Bps + from) >= from * from * Bps * share

\* A drip moves the pool's price no further than the vault's slippage allows, in
\* whichever direction the pool's order of the pair makes it trade: never beyond it
\* when it buys the pool's token A, and when it sells it, beyond it by the rounding of
\* the factor and of the limit at most.
DripsWithinSlippage ==
    [][last_drip_period' # last_drip_period =>
         IF a_to_b
         THEN /\ sqrt_price' <= sqrt_price
              /\ FellAtMostTo(Bps - max_slippage_bps, sqrt_price, sqrt_price')
         ELSE /\ sqrt_price' >= sqrt_price
              /\ RoseAtMostTo(Bps + max_slippage_bps, sqrt_price, sqrt_price')]_vars

\* The limit withholds nothing of what the slippage allows: a price that a drip may
\* reach by selling is within its limit, and so is one that it may reach by buying,
\* but for one basis point and one unit of the root.
SlippageUsable ==
    max_slippage_bps > 0 =>
      \A limit \in SqrtPriceLimits(sqrt_price, max_slippage_bps, a_to_b), to \in SqrtPrices :
        IF a_to_b
        THEN to * to * Bps >= sqrt_price * sqrt_price * (Bps - max_slippage_bps)
               => to >= limit
        ELSE ((to + 1) * Bps + sqrt_price) * ((to + 1) * Bps + sqrt_price)
                 <= sqrt_price * sqrt_price * Bps * (Bps + max_slippage_bps)
               => to <= limit

\* "Price increases.  We want +10% of the current price" (math/mod.rs:14-15): whatever
\* slippage init_vault has accepted, a drip that raises the price is given a limit
\* above it, at a price large enough for a basis point of it to be something.
BuyingHasRoom ==
    max_slippage_bps > 0 /\ ~ a_to_b /\ sqrt_price >= Bps =>
      \A limit \in SqrtPriceLimits(sqrt_price, max_slippage_bps, FALSE) :
         limit > sqrt_price
=============================================================================
