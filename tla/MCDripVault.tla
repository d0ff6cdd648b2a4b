---------------------------- MODULE MCDripVault -----------------------------
(***************************************************************************)
(* Constants for model-checking DripVault.  Amounts, prices and periods    *)
(* are small; a price has 10 fractional bits, or 5 where its rounding is   *)
(* the question.                                                           *)
(***************************************************************************)
EXTENDS DripVault, TLC

CONSTANTS v1, v2, c1, c2, u1, u2, adm, s1, s2, elsewhere

MCTwo64 == 1024
\* Prices with 5 fractional bits: an error in the last place is worth something, and
\* prices of 4 B for 23 A or more are still kept up (see the README).
CoarseTwo64 == 32

OneConfig  == [v \in Vaults |-> c1]
TwoConfigs == v1 :> c1 @@ v2 :> c2

Params(g, drip, withdrawal, referral) ==
    [granularity |-> g, token_a_drip_trigger_spread |-> drip,
     token_b_withdrawal_spread |-> withdrawal, token_b_referral_spread |-> referral,
     admin |-> adm]

\* No drip trigger spread, and fees large enough to round to something.
NoDripSpread   == {Params(1, 0, 2500, 2500)}
\* A drip trigger spread that takes one unit of A from three, and none from two.
WithDripSpread == {Params(1, 4000, 0, 0)}
\* Windows long enough to hold two drips, were they allowed.
TwoSeconds     == {Params(2, 0, 0, 0)}
\* The largest granularity there is: -1 once cast to an i64.
LargestGranularity == {Params(MCTwo64 - 1, 0, 0, 0)}
\* Parameters init_vault_proto_config accepts, and rejects.
GoodAndBadParams == {Params(1, 4000, 0, 0), Params(0, 0, 0, 0), Params(1, 5000, 0, 0)}

\* Payments that leave the vaults for good, and those that stay in a vault or reach
\* another one.
Outside       == {elsewhere}
OrAnyVaultsA  == {elsewhere} \cup (Vaults \X {"A"})
OrSecondVault == {elsewhere} \cup ({v2} \X Tokens)

NoWhitelist    == {<<>>}
SomeWhitelists == {<<>>, <<s1>>, <<s2, s1>>}
\* One swap more than fits.
TooLongWhitelist == {<<>>, <<s1, s1>>}
=============================================================================
