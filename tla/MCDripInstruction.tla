------------------------- MODULE MCDripInstruction --------------------------
(* Constants for model-checking DripInstruction. *)
EXTENDS MCDripVault, DripInstruction

CONSTANTS u1_a, u1_b, u2_b, adm_a, adm_b, s1_a, s1_b, s2_a, s2_b

\* Two holders, the admin, who is the keeper too, and one pool or two.
Owner ==
    u1_a :> u1 @@ u1_b :> u1 @@ u2_b :> u2 @@ adm_a :> adm @@ adm_b :> adm
    @@ s1_a :> s1 @@ s1_b :> s1 @@ s2_a :> s2 @@ s2_b :> s2

\* What the holders can deposit, and what the pools can sell.
Amounts == u1_a :> 12 @@ s1_b :> 12 @@ s2_b :> 12

MCWalletToken ==
    [w \in Wallets |-> IF w \in {u1_a, adm_a, s1_a, s2_a} THEN "A" ELSE "B"]
MCWalletOwner   == [w \in Wallets |-> Owner[w]]
MCInitialWallet == [w \in Wallets |-> IF w \in DOMAIN Amounts THEN Amounts[w] ELSE 0]
MCTreasuryOf    == [v \in Vaults |-> adm_b]

\* Anyone but a pool may be paid, a vault included.
AnyButPool == {x \in TokenAccounts : OwnerOf(x) \notin Swaps}

\* A whirlpool whose token A is the vault's token B.
ReversedWhirlpool == [s \in Whirlpools |-> "B"]

\* Fees that differ, and round to something.
TwoFees == {Params(1, 0, 2500, 1250)}
=============================================================================
