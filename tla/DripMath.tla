------------------------------ MODULE DripMath ------------------------------
(***************************************************************************)
(* The integer arithmetic of the drip program, math/mod.rs.                *)
(*                                                                         *)
(* Every function of that file either returns a value or panics (a checked *)
(* operation that fails and is unwrapped), and a panic rolls the whole     *)
(* instruction back.  A function that can panic is modelled by two         *)
(* operators: its value, and a predicate ...Defined that holds exactly     *)
(* when none of its checked operations fails.                              *)
(*                                                                         *)
(* Prices are fixed-point numbers with 64 fractional bits, held in a u128. *)
(* The model keeps the widths tied together the way the code does: one     *)
(* constant Two64 is both the number of values of a u64 and the scale of a *)
(* price, and a u128 has Two64 * Two64 values.                             *)
(***************************************************************************)
EXTENDS Integers

CONSTANTS Two64,   \* 2^64 in the code; a smaller power of two in TLC's runs
          Bps      \* 10000: what a spread of one hundred per cent is

ASSUME WidthAssumption == Two64 \in Nat \ {0, 1}
ASSUME BpsAssumption   == Bps \in Nat \ {0}

Amount == 0 .. (Two64 - 1)               \* u64
Price  == 0 .. (Two64 * Two64 - 1)       \* u128, 64 fractional bits

-----------------------------------------------------------------------------
\* The amount of A one drip of a position spends; the division rounds down and
\* what is left over stays in the vault.
PeriodicDripAmount(total, n) == total \div n

\* A fee of `spread` basis points, rounded down.
SpreadAmount(amount, spread) == (amount * spread) \div Bps

\* The B received for one unit of A in one swap.
ComputePrice(b, a) == (b * Two64) \div a

\* Mutants: the average is rounded up; the average so far counts as one price.
NewTwapRoundedUp(twap_before, i, price) ==
    (twap_before * (i - 1) + price + i - 1) \div i
NewTwapUnweighted(twap_before, i, price) == (twap_before + price) \div i

\* The running average of the prices of periods 1 .. i, from the average up to
\* i - 1 and the price of period i.
NewTwap(twap_before, i, price) == (twap_before * (i - 1) + price) \div i
NewTwapDefined(twap_before, i, price) ==
    /\ i > 0
    /\ twap_before * (i - 1) + price < Two64 * Two64

\* The A of a position that drips i+1 .. j have not spent.
WithdrawTokenA(i, j, n, periodic) ==
    IF n <= j - i THEN 0 ELSE (n - (j - i)) * periodic
WithdrawTokenADefined(i, j, n, periodic) ==
    i <= j /\ WithdrawTokenA(i, j, n, periodic) < Two64

-----------------------------------------------------------------------------
\* The average of the prices of drips i+1 .. j.
AveragePrice(i, j, twap_i, twap_j) == (twap_j * j - twap_i * i) \div (j - i)

\* The A a position contributed to drips i+1 .. j, net of the drip trigger spread
\* computed on that contribution.
DrippedNetOfSpread(i, j, periodic, spread) ==
    periodic * (j - i) - SpreadAmount(periodic * (j - i), spread)

\* The B those drips bought for the position.
WithdrawTokenB(i, j, twap_i, twap_j, periodic, spread) ==
    IF i = j THEN 0
    ELSE (AveragePrice(i, j, twap_i, twap_j)
            * DrippedNetOfSpread(i, j, periodic, spread)) \div Two64

WithdrawTokenBDefined(i, j, twap_i, twap_j, periodic, spread) ==
    \/ i = j
    \/ /\ i < j
       /\ twap_i * i <= twap_j * j
       /\ twap_j * j < Two64 * Two64
       /\ periodic * (j - i) < Two64
       /\ AveragePrice(i, j, twap_i, twap_j)
            * DrippedNetOfSpread(i, j, periodic, spread) < Two64 * Two64

-----------------------------------------------------------------------------
\* A u64 cast to i64 keeps its bits: the upper half of the u64s become negative.
AsI64(n) == IF n < Two64 \div 2 THEN n ELSE n - Two64

\* Mutant: the next window is never reached for.
ActivationTimestampHere(now, granularity, snap_forward) == now - (now % AsI64(granularity))

\* The start of the window of length `granularity` that holds `now`, or the
\* start of the next one.  The remainder has the sign of `now`, which is never
\* negative.  No sum of a timestamp and a granularity overflows an i64 in this
\* program's lifetime: it is below 2 * now, or a granularity.
ActivationTimestamp(now, granularity, snap_forward) ==
    LET step   == AsI64(granularity)
        window == IF step > 0 THEN step ELSE - step
    IN  now - (now % window) + (IF snap_forward THEN step ELSE 0)
=============================================================================
