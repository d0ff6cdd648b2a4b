----------------------------- MODULE DripVault ------------------------------
(***************************************************************************)
(* The drip program: vaults that dollar-cost-average token A into token B  *)
(* on behalf of positions.                                                 *)
(*                                                                         *)
(* A variable holds one kind of account of the program (or, for token      *)
(* accounts and the position NFT, the part of the SPL token program's      *)
(* state that the drip program reads and moves).  An action is one         *)
(* instruction that succeeds: validation, state updates, token transfers   *)
(* and the checks after them happen in one transaction, and an instruction *)
(* whose validation, arithmetic, transfer or final check fails is rolled   *)
(* back and leaves every account alone, so it is no step at all.           *)
(*                                                                         *)
(* The program has no scheduler.  Whoever sends instructions interleaves   *)
(* them in any order: depositors, holders of position NFTs, the admin and  *)
(* the keeper that triggers drips.                                         *)
(***************************************************************************)
EXTENDS DripMath, DripSums, Sequences

CONSTANTS
    Vaults,          \* addresses of vault accounts
    Configs,         \* addresses of vault proto config accounts
    ConfigOf,        \* the proto config in a vault address's seeds
    NumPositions,    \* position NFT mints are numbered 1 .. NumPositions
    LegacyPositions, \* positions an earlier version of the program marked closed
    UpgradedVaults,  \* vaults that exist when the model starts
    Users,           \* wallets that hold position NFTs
    Signers,         \* every wallet, Users and the admins included
    NoHolder,        \* no token account holds the NFT
    Swaps,           \* addresses of swap pools
    DefaultKey,      \* Pubkey::default(), what fills an unused whitelist slot
    WhitelistSize,   \* VAULT_SWAP_WHITELIST_SIZE
    MaxSpread        \* MAX_TOKEN_SPREAD_EXCLUSIVE

\* What an instance bounds: the inputs tried, and how far time runs.
CONSTANTS
    MaxPeriod,       \* the largest period id
    ConfigParams,    \* contents tried for a proto config
    WhitelistParams, \* whitelists tried, sequences of swaps
    DepositAmounts,  \* deposits tried
    SwapCounts,      \* numbers of swaps tried
    ReceivedAmounts, \* outcomes of a swap tried, in B
    AdminTakes,      \* which of the vault's token accounts the admin empties
    Destinations,    \* token accounts tried as the destination of a payment: a vault's
                     \* is <<v, token>>, any other is outside of this module
    StartTimes,      \* unix_timestamp when the model starts
    MaxIdle          \* how long after every activation time the clock still runs

Positions == 1 .. NumPositions
PeriodIds == 0 .. MaxPeriod
Tokens    == {"A", "B"}

ProtoConfigType ==
    [granularity : Amount, token_a_drip_trigger_spread : Nat,
     token_b_withdrawal_spread : Nat, token_b_referral_spread : Nat,
     admin : Signers]

ASSUME AddressAssumption ==
    /\ ConfigOf \in [Vaults -> Configs]
    /\ UpgradedVaults \subseteq Vaults
    /\ NumPositions \in Nat
    /\ LegacyPositions \subseteq Positions
    /\ (LegacyPositions # {} => UpgradedVaults # {})
    /\ Users \subseteq Signers
    /\ NoHolder \notin Signers
    /\ DefaultKey \notin Swaps \cup Signers \cup Vaults
    /\ Vaults \cap Signers = {}
    /\ WhitelistSize \in Nat

ASSUME BoundAssumption ==
    /\ MaxPeriod \in Nat
    /\ ConfigParams \subseteq ProtoConfigType
    /\ ConfigParams # {}
    /\ WhitelistParams \subseteq Seq(Swaps)
    /\ DepositAmounts \subseteq Amount
    /\ SwapCounts \subseteq Nat
    /\ ReceivedAmounts \subseteq Amount
    /\ AdminTakes \subseteq Tokens
    /\ StartTimes \subseteq Nat
    /\ MaxIdle \in Nat

ASSUME SpreadAssumption == MaxSpread \in Nat /\ 2 * MaxSpread <= Bps

VARIABLES
    now,             \* Clock::get().unix_timestamp
    proto_config,    \* VaultProtoConfig accounts
    vault,           \* Vault accounts
    vault_period,    \* VaultPeriod accounts of each vault, by period id
    position,        \* Position accounts, by position NFT mint
    nft_holder,      \* who holds the one token of a position NFT mint
    balance          \* the amounts of each vault's two token accounts

vars == <<now, proto_config, vault, vault_period, position, nft_holder, balance>>

-----------------------------------------------------------------------------
(* Accounts *)

\* An account that has not been created: every field zero, as a new account's
\* data is.
NoConfig ==
    [exists |-> FALSE, granularity |-> 0, token_a_drip_trigger_spread |-> 0,
     token_b_withdrawal_spread |-> 0, token_b_referral_spread |-> 0,
     admin |-> DefaultKey]

NoVault ==
    [exists |-> FALSE, last_drip_period |-> 0, drip_amount |-> 0,
     drip_activation_timestamp |-> 0, limit_swaps |-> FALSE,
     whitelisted_swaps |-> [slot \in 1 .. WhitelistSize |-> DefaultKey]]

NoPeriod == [exists |-> FALSE, dar |-> 0, twap |-> 0, drip_timestamp |-> 0]

\* status: "none" no account yet; "open" the account exists; "legacy" it exists
\* with the deprecated is_closed set; "closed" the account has been closed and
\* its lamports refunded.  The fields of a closed position are history: no
\* instruction can read them.
NoPosition ==
    [status |-> "none", vault |-> DefaultKey, deposited_token_a_amount |-> 0,
     withdrawn_token_b_amount |-> 0, drip_period_id_before_deposit |-> 0,
     number_of_swaps |-> 0, periodic_drip_amount |-> 0]

\* Vault::set_whitelisted_swaps: the array is reset, then filled from the left.
WhitelistSlots(list) ==
    [slot \in 1 .. WhitelistSize |->
        IF slot <= Len(list) THEN list[slot] ELSE DefaultKey]

\* Mutant: an empty list limits the vault to no swap at all.
SetWhitelistedSwapsAlways(record, list) ==
    [record EXCEPT !.limit_swaps = TRUE, !.whitelisted_swaps = WhitelistSlots(list)]

SetWhitelistedSwaps(record, list) ==
    [record EXCEPT !.limit_swaps = (list # <<>>),
                   !.whitelisted_swaps = WhitelistSlots(list)]

\* Vault::init
InitialVault(granularity, list) ==
    SetWhitelistedSwaps(
        [NoVault EXCEPT !.exists = TRUE,
            !.drip_activation_timestamp = ActivationTimestamp(now, granularity, FALSE)],
        list)

\* The proto config a vault's instructions must be given: the one it was created with.
Config(v) == proto_config[ConfigOf[v]]

\* The vault period accounts an instruction can be given, of whichever vault.
PeriodAccounts ==
    {a \in [vault : Vaults, period_id : PeriodIds] :
        vault_period[a.vault][a.period_id].exists}

Data(a) == vault_period[a.vault][a.period_id]

\* Mutants: the account's period id, or its vault, is not checked.
IsPeriodOfVault(a, v, id) == a.vault = v
IsPeriodWithId(a, v, id)  == a.period_id = id

\* The checks on a vault period account an instruction is given.
IsPeriod(a, v, id) == a.vault = v /\ a.period_id = id

\* The period in which a position's last drip happens.
Expiry(p) == position[p].drip_period_id_before_deposit + position[p].number_of_swaps

\* Seen from a vault: position p still takes part in its drips.
Active(p, v) ==
    /\ position[p].status = "open"
    /\ position[p].vault = v
    /\ vault[v].last_drip_period < Expiry(p)

-----------------------------------------------------------------------------
(* Payments out of a vault.  Nothing keeps a payment from going to a token   *)
(* account of a vault, of the same one or another: most destinations are     *)
(* whatever token account the sender of an instruction names.                *)

VaultAccounts == Vaults \X Tokens

\* The token accounts there are: a vault's have been created with it.
PayoutAccounts ==
    {to \in Destinations : to \in VaultAccounts => vault[to[1]].exists}

\* The balances b after vault v has sent n of token t to `to`.
Paid(b, v, t, to, n) ==
    LET taken == [b EXCEPT ![v][t] = @ - n]
    IN  IF to \in VaultAccounts THEN [taken EXCEPT ![to[1]][to[2]] = @ + n] ELSE taken

\* The transfer succeeds: the vault holds as much, and a vault that receives it
\* receives its own kind of token and can hold it.
CanPay(b, v, t, to, n) ==
    /\ n <= b[v][t]
    /\ to \in VaultAccounts =>
         /\ to[2] = t
         /\ to[1] # v => b[to[1]][t] + n < Two64

-----------------------------------------------------------------------------
(* Proto configs: granularity and spreads are checked once, and no           *)
(* instruction changes them afterwards.                                      *)

ValidConfigParams(q) ==
    /\ q.granularity > 0
    /\ q.token_a_drip_trigger_spread < MaxSpread
    /\ q.token_b_withdrawal_spread < MaxSpread
    /\ q.token_b_referral_spread < MaxSpread

ConfigRecord(q) ==
    [exists |-> TRUE, granularity |-> q.granularity,
     token_a_drip_trigger_spread |-> q.token_a_drip_trigger_spread,
     token_b_withdrawal_spread |-> q.token_b_withdrawal_spread,
     token_b_referral_spread |-> q.token_b_referral_spread,
     admin |-> q.admin]

\* An upgraded program may find vaults, and positions an earlier version marked
\* closed, in place.  Nothing has dripped yet.
Init ==
    /\ now \in StartTimes
    /\ \E params \in [Configs -> {q \in ConfigParams : ValidConfigParams(q)}] :
         proto_config = [c \in Configs |->
             IF \E v \in UpgradedVaults : ConfigOf[v] = c
             THEN ConfigRecord(params[c]) ELSE NoConfig]
    /\ vault = [v \in Vaults |->
         IF v \in UpgradedVaults THEN InitialVault(Config(v).granularity, <<>>)
                                 ELSE NoVault]
    /\ vault_period = [v \in Vaults |-> [k \in PeriodIds |-> NoPeriod]]
    /\ \E owner \in [LegacyPositions -> UpgradedVaults] :
         position = [p \in Positions |->
             IF p \in LegacyPositions
             THEN [NoPosition EXCEPT !.status = "legacy", !.vault = owner[p]]
             ELSE NoPosition]
    /\ nft_holder = [p \in Positions |-> NoHolder]
    /\ balance = [v \in Vaults |-> [t \in Tokens |-> 0]]

-----------------------------------------------------------------------------
(* Set-up instructions *)

InitVaultProtoConfig(c, params) ==
    /\ ~ proto_config[c].exists
    /\ ValidConfigParams(params)
    /\ proto_config' = [proto_config EXCEPT ![c] = ConfigRecord(params)]
    /\ UNCHANGED <<now, vault, vault_period, position, nft_holder, balance>>

InitVault(v, creator, list) ==
    /\ Config(v).exists
    /\ ~ vault[v].exists
    /\ creator = Config(v).admin
    /\ Len(list) <= WhitelistSize
    /\ vault' = [vault EXCEPT ![v] = InitialVault(Config(v).granularity, list)]
    /\ UNCHANGED <<now, proto_config, vault_period, position, nft_holder, balance>>

\* Anyone may create a period account, of any id, once: the address is derived
\* from the vault and the id.
InitVaultPeriod(v, k) ==
    /\ vault[v].exists
    /\ ~ vault_period[v][k].exists
    /\ vault_period' = [vault_period EXCEPT ![v][k] = [NoPeriod EXCEPT !.exists = TRUE]]
    /\ UNCHANGED <<now, proto_config, vault, position, nft_holder, balance>>

SetVaultSwapWhitelist(v, admin, list) ==
    /\ vault[v].exists
    /\ admin = Config(v).admin
    /\ Len(list) <= WhitelistSize
    /\ vault' = [vault EXCEPT ![v] = SetWhitelistedSwaps(@, list)]
    /\ UNCHANGED <<now, proto_config, vault_period, position, nft_holder, balance>>

-----------------------------------------------------------------------------
(* Deposit *)

\* The position NFT's mint is created by the deposit, so its key is a fresh one.
\* Mints are interchangeable: the model takes them in order.
FreshMint(p) ==
    /\ position[p].status = "none"
    /\ \A q \in Positions : position[q].status = "none" => p <= q

Deposit(p, v, depositor, end, amount, n) ==
    LET periodic == PeriodicDripAmount(amount, n) IN
    /\ FreshMint(p)
    /\ vault[v].exists
    /\ IsPeriod(end, v, vault[v].last_drip_period + n)
    /\ n > 0
    /\ amount > 0
    /\ periodic > 0
    /\ vault[v].drip_amount + periodic < Two64
    /\ Data(end).dar + periodic < Two64
    /\ balance[v]["A"] + amount < Two64
    /\ vault' = [vault EXCEPT ![v].drip_amount = @ + periodic]
    /\ vault_period' = [vault_period EXCEPT ![end.vault][end.period_id].dar = @ + periodic]
    /\ position' = [position EXCEPT ![p] =
         [status |-> "open", vault |-> v,
          deposited_token_a_amount |-> amount,
          withdrawn_token_b_amount |-> 0,
          drip_period_id_before_deposit |-> vault[v].last_drip_period,
          number_of_swaps |-> n,
          periodic_drip_amount |-> periodic]]
    /\ nft_holder' = [nft_holder EXCEPT ![p] = depositor]
    /\ balance' = [balance EXCEPT ![v]["A"] = @ + amount]
    /\ UNCHANGED <<now, proto_config>>

-----------------------------------------------------------------------------
(* Drip *)

SpreadOnDrip(v) ==
    SpreadAmount(vault[v].drip_amount, Config(v).token_a_drip_trigger_spread)
SwapAmount(v) == vault[v].drip_amount - SpreadOnDrip(v)

\* Vault::process_drip
ProcessDrip(v, current) ==
    /\ Data(current).dar <= vault[v].drip_amount
    /\ vault' = [vault EXCEPT
         ![v].drip_amount = @ - Data(current).dar,
         ![v].last_drip_period = current.period_id,
         ![v].drip_activation_timestamp =
            ActivationTimestamp(now, Config(v).granularity, TRUE)]

\* VaultPeriod::update_twap and update_drip_timestamp
UpdatePeriod(last, current, sent_a, received_b) ==
    LET price == ComputePrice(received_b, sent_a) IN
    /\ NewTwapDefined(Data(last).twap, current.period_id, price)
    /\ vault_period' = [vault_period EXCEPT
         ![current.vault][current.period_id].twap =
            NewTwap(Data(last).twap, current.period_id, price),
         ![current.vault][current.period_id].drip_timestamp = now]

\* Mutant: any swap that returned something passes.
SwapReturnedSome(v, used_a, received_b) == received_b > 0

\* The post-CPI verification.
SwapCompleted(v, used_a, received_b) ==
    /\ received_b > 0
    /\ used_a = SwapAmount(v) + SpreadOnDrip(v)
    /\ used_a = vault[v].drip_amount

\* The trigger's fee is paid first, to any token account.  Then the swap program takes
\* some part of what it is offered and returns some B; the checks after it reject every
\* outcome but an exact one, a fee the vault has paid to itself included.
Drip(v, last, current, swap, fee_account, swapped_a, received_b) ==
    LET paid   == Paid(balance, v, "A", fee_account, SpreadOnDrip(v))
        used_a == balance[v]["A"] - paid[v]["A"] + swapped_a
    IN
    /\ vault[v].exists
    /\ IsPeriod(last, v, vault[v].last_drip_period)
    /\ IsPeriod(current, v, vault[v].last_drip_period + 1)
    /\ vault[v].drip_amount > 0
    /\ now >= vault[v].drip_activation_timestamp
    /\ \/ ~ vault[v].limit_swaps
       \/ \E slot \in 1 .. WhitelistSize : vault[v].whitelisted_swaps[slot] = swap
    /\ ProcessDrip(v, current)
    /\ CanPay(balance, v, "A", fee_account, SpreadOnDrip(v))
    /\ swapped_a <= paid[v]["A"]
    /\ paid[v]["B"] + received_b < Two64
    /\ balance' = [paid EXCEPT ![v]["A"] = @ - swapped_a, ![v]["B"] = @ + received_b]
    /\ SwapCompleted(v, used_a, received_b)
    /\ UpdatePeriod(last, current, SwapAmount(v), received_b)
    /\ UNCHANGED <<now, proto_config, position, nft_holder>>

-----------------------------------------------------------------------------
(* Withdraw B and close position *)

\* The period up to which a position has dripped.
LastDripOf(p, v) ==
    IF vault[v].last_drip_period < Expiry(p) THEN vault[v].last_drip_period ELSE Expiry(p)

\* The two fees on a withdrawal, and what is left of it for the NFT's holder.
TreasuryShare(v, before_fees) ==
    SpreadAmount(before_fees, Config(v).token_b_withdrawal_spread)
ReferrerShare(v, before_fees) ==
    SpreadAmount(before_fees, Config(v).token_b_referral_spread)
NetOfFees(v, before_fees) ==
    before_fees - TreasuryShare(v, before_fees) - ReferrerShare(v, before_fees)

MaxWithdrawableB(p, v, twap_i, twap_j) ==
    WithdrawTokenB(position[p].drip_period_id_before_deposit, LastDripOf(p, v),
                   twap_i, twap_j, position[p].periodic_drip_amount,
                   Config(v).token_a_drip_trigger_spread)

\* No checked operation of get_withdrawal_amount_b fails.
WithdrawalBDefined(p, v, twap_i, twap_j) ==
    LET max == MaxWithdrawableB(p, v, twap_i, twap_j)
        before_fees == max - position[p].withdrawn_token_b_amount
    IN  /\ WithdrawTokenBDefined(position[p].drip_period_id_before_deposit,
               LastDripOf(p, v), twap_i, twap_j, position[p].periodic_drip_amount,
               Config(v).token_a_drip_trigger_spread)
        /\ position[p].withdrawn_token_b_amount <= max
        /\ NetOfFees(v, before_fees) >= 0

\* The validation both instructions share.
ValidWithdrawal(p, v, i, j) ==
    /\ vault[v].exists
    /\ position[p].status = "open"
    /\ position[p].vault = v
    /\ IsPeriod(i, v, position[p].drip_period_id_before_deposit)
    /\ IsPeriod(j, v, LastDripOf(p, v))
    /\ nft_holder[p] # NoHolder
    /\ WithdrawalBDefined(p, v, Data(i).twap, Data(j).twap)

\* get_withdrawal_amount_b: what a position takes out of the vault, before fees.
BeforeFees(p, v, i, j) ==
    MaxWithdrawableB(p, v, Data(i).twap, Data(j).twap)
        - position[p].withdrawn_token_b_amount

\* Where a withdrawal of B is paid to.  The treasury's account is fixed at init_vault
\* and the referrer's at the deposit, which is left to DripInstruction.
PayeesB == [treasury : PayoutAccounts, user_b : PayoutAccounts, referrer : PayoutAccounts]

\* The balances after the first transfer of a withdrawal, the second and the third.
AfterTreasury(v, before_fees, to) ==
    Paid(balance, v, "B", to.treasury, TreasuryShare(v, before_fees))
AfterHolder(v, before_fees, to) ==
    Paid(AfterTreasury(v, before_fees, to), v, "B", to.user_b, NetOfFees(v, before_fees))
AfterReferrer(v, before_fees, to) ==
    Paid(AfterHolder(v, before_fees, to), v, "B", to.referrer, ReferrerShare(v, before_fees))

\* execute_withdraw_b's transfers, those of fees that are zero left out.
CanPayB(v, before_fees, to) ==
    /\ TreasuryShare(v, before_fees) > 0 =>
         CanPay(balance, v, "B", to.treasury, TreasuryShare(v, before_fees))
    /\ CanPay(AfterTreasury(v, before_fees, to), v, "B", to.user_b,
              NetOfFees(v, before_fees))
    /\ ReferrerShare(v, before_fees) > 0 =>
         CanPay(AfterHolder(v, before_fees, to), v, "B", to.referrer,
                ReferrerShare(v, before_fees))

\* The sender names the holder's account, and its owner is not looked at.
WithdrawB(p, v, withdrawer, i, j) ==
    LET before_fees == BeforeFees(p, v, i, j) IN
    /\ ValidWithdrawal(p, v, i, j)
    /\ NetOfFees(v, before_fees) > 0
    /\ nft_holder[p] = withdrawer
    /\ position' = [position EXCEPT ![p].withdrawn_token_b_amount = @ + before_fees]
    /\ UNCHANGED <<now, proto_config, vault, vault_period, nft_holder>>
    /\ \E to \in PayeesB :
         /\ CanPayB(v, before_fees, to)
         /\ balance' = AfterReferrer(v, before_fees, to)

\* Mutants of ReduceDrip: a position is subtracted whether it still drips or not,
\* and unchecked; it is subtracted once more when its last drip has happened; it is
\* not taken out of its expiry period.
ReduceDripUnchecked(p, v, j, expiry) ==
    /\ vault' = [vault EXCEPT ![v].drip_amount = @ - position[p].periodic_drip_amount]
    /\ vault_period' = [vault_period EXCEPT
         ![expiry.vault][expiry.period_id].dar = @ - position[p].periodic_drip_amount]

ReduceDripAtExpiry(p, v, j, expiry) ==
    IF j.period_id <= expiry.period_id
    THEN /\ position[p].periodic_drip_amount <= vault[v].drip_amount
         /\ ReduceDripUnchecked(p, v, j, expiry)
    ELSE UNCHANGED <<vault, vault_period>>

ReduceDripOfVault(p, v, j, expiry) ==
    IF j.period_id < expiry.period_id
    THEN /\ position[p].periodic_drip_amount <= vault[v].drip_amount
         /\ vault' = [vault EXCEPT ![v].drip_amount = @ - position[p].periodic_drip_amount]
         /\ UNCHANGED vault_period
    ELSE UNCHANGED <<vault, vault_period>>

\* The vault and the expiry period stop counting a position that still drips.
ReduceDrip(p, v, j, expiry) ==
    IF j.period_id < expiry.period_id
    THEN /\ position[p].periodic_drip_amount <= vault[v].drip_amount
         /\ position[p].periodic_drip_amount <= Data(expiry).dar
         /\ vault' = [vault EXCEPT
              ![v].drip_amount = @ - position[p].periodic_drip_amount]
         /\ vault_period' = [vault_period EXCEPT
              ![expiry.vault][expiry.period_id].dar = @ - position[p].periodic_drip_amount]
    ELSE UNCHANGED <<vault, vault_period>>

\* What a close pays: the B, and the A that is left, if any, to user_a.
PaysOut(v, before_fees, withdrawable_a, to, user_a) ==
    LET paid == AfterReferrer(v, before_fees, to) IN
    /\ CanPayB(v, before_fees, to)
    /\ IF withdrawable_a > 0
       THEN /\ CanPay(paid, v, "A", user_a, withdrawable_a)
            /\ balance' = Paid(paid, v, "A", user_a, withdrawable_a)
       ELSE balance' = paid

\* By the holder, who burns the NFT and names any accounts, or by the admin, who cannot
\* burn it and must pay out to the holder's accounts, which no vault's are.
ClosePosition(p, v, withdrawer, i, j, expiry) ==
    LET before_fees == BeforeFees(p, v, i, j)
        withdrawable_a == WithdrawTokenA(i.period_id, j.period_id,
            position[p].number_of_swaps, position[p].periodic_drip_amount)
    IN
    /\ ValidWithdrawal(p, v, i, j)
    /\ withdrawer \in {nft_holder[p], Config(v).admin}
    /\ IsPeriod(expiry, v, Expiry(p))
    /\ WithdrawTokenADefined(i.period_id, j.period_id,
            position[p].number_of_swaps, position[p].periodic_drip_amount)
    /\ ReduceDrip(p, v, j, expiry)
    /\ position' = [position EXCEPT
         ![p].withdrawn_token_b_amount = @ + before_fees,
         ![p].status = "closed"]
    /\ nft_holder' = [nft_holder EXCEPT ![p] =
         IF withdrawer = @ THEN NoHolder ELSE @]
    /\ UNCHANGED <<now, proto_config>>
    /\ \E to \in PayeesB, user_a \in PayoutAccounts :
         /\ withdrawer # nft_holder[p] => {to.user_b, user_a} \cap VaultAccounts = {}
         /\ PaysOut(v, before_fees, withdrawable_a, to, user_a)

-----------------------------------------------------------------------------
(* The admin's other instructions *)

\* Mutant: the admin may empty a vault that is still dripping.
EmptyAnyTokenAccount(v, admin, token, to) ==
    /\ vault[v].exists
    /\ admin = Config(v).admin
    /\ token \in AdminTakes
    /\ balance[v][token] > 0
    /\ CanPay(balance, v, token, to, balance[v][token])
    /\ balance' = Paid(balance, v, token, to, balance[v][token])
    /\ UNCHANGED <<now, proto_config, vault, vault_period, position, nft_holder>>

\* withdraw_a (deprecated) and admin_withdraw empty a token account of a vault
\* nobody is dripping through; admin_withdraw takes either of the two, to any account.
EmptyTokenAccount(v, admin, token, to) ==
    /\ vault[v].exists
    /\ admin = Config(v).admin
    /\ token \in AdminTakes
    /\ vault[v].drip_amount = 0
    /\ balance[v][token] > 0
    /\ CanPay(balance, v, token, to, balance[v][token])
    /\ balance' = Paid(balance, v, token, to, balance[v][token])
    /\ UNCHANGED <<now, proto_config, vault, vault_period, position, nft_holder>>

\* To an account of the admin's own, which no vault's is.
WithdrawA(v, admin, to) ==
    to \notin VaultAccounts /\ EmptyTokenAccount(v, admin, "A", to)
AdminWithdraw(v, admin, token, to) == EmptyTokenAccount(v, admin, token, to)

\* Only for the accounts an earlier version of the program left marked closed.
ClosePositionAccount(p, v, admin) ==
    /\ vault[v].exists
    /\ admin = Config(v).admin
    /\ position[p].vault = v
    /\ position[p].status = "legacy"
    /\ position' = [position EXCEPT ![p].status = "closed"]
    /\ UNCHANGED <<now, proto_config, vault, vault_period, nft_holder, balance>>

-----------------------------------------------------------------------------
(* The environment *)

\* A holder sends the NFT to another wallet with the token program.
TransferNft(p, to) ==
    /\ nft_holder[p] \in Users
    /\ nft_holder' = [nft_holder EXCEPT ![p] = to]
    /\ UNCHANGED <<now, proto_config, vault, vault_period, position, balance>>

\* Time passes.  It runs at most MaxIdle past the latest activation time: a drip
\* later than that finds the vault in the same position as one at the bound.
Tick ==
    /\ \E t \in {0} \cup {vault[v].drip_activation_timestamp : v \in Vaults} :
          now < t + MaxIdle
    /\ now' = now + 1
    /\ UNCHANGED <<proto_config, vault, vault_period, position, nft_holder, balance>>

-----------------------------------------------------------------------------
DepositStep(p, v) ==
    \E depositor \in Users, n \in SwapCounts, amount \in DepositAmounts :
        \E end \in PeriodAccounts : Deposit(p, v, depositor, end, amount, n)

DripStep(v) ==
    \E last, current \in PeriodAccounts :
        \E swap \in Swaps, fee_account \in PayoutAccounts,
           swapped_a \in 0 .. SwapAmount(v), received_b \in ReceivedAmounts :
            Drip(v, last, current, swap, fee_account, swapped_a, received_b)

WithdrawBStep(p, v) ==
    \E withdrawer \in Signers, i, j \in PeriodAccounts :
        WithdrawB(p, v, withdrawer, i, j)

ClosePositionStep(p, v) ==
    \E withdrawer \in Signers, i, j, expiry \in PeriodAccounts :
        ClosePosition(p, v, withdrawer, i, j, expiry)

AdminStep(v) ==
    \E admin \in Signers :
        \/ \E list \in WhitelistParams : InitVault(v, admin, list)
        \/ \E list \in WhitelistParams : SetVaultSwapWhitelist(v, admin, list)
        \/ \E to \in PayoutAccounts : WithdrawA(v, admin, to)
        \/ \E token \in Tokens, to \in PayoutAccounts : AdminWithdraw(v, admin, token, to)
        \/ \E p \in Positions : ClosePositionAccount(p, v, admin)

Next ==
    \/ \E c \in Configs, params \in ConfigParams : InitVaultProtoConfig(c, params)
    \/ \E v \in Vaults, k \in PeriodIds : InitVaultPeriod(v, k)
    \/ \E v \in Vaults : DripStep(v)
    \/ \E p \in Positions, v \in Vaults : DepositStep(p, v)
    \/ \E p \in Positions, v \in Vaults : WithdrawBStep(p, v)
    \/ \E p \in Positions, v \in Vaults : ClosePositionStep(p, v)
    \/ \E v \in Vaults : AdminStep(v)
    \/ \E p \in Positions, to \in Users : TransferNft(p, to)
    \/ Tick

Spec == Init /\ [][Next]_vars

\* The program promises no progress; keepers do.  A keeper creates the periods
\* its vault is going to need and keeps triggering drips, and some swap it
\* triggers eventually fills; time passes.
Fairness ==
    /\ WF_vars(Tick)
    /\ \A v \in Vaults, k \in PeriodIds : WF_vars(InitVaultPeriod(v, k))
    /\ \A v \in Vaults : WF_vars(DripStep(v))

FairSpec == Spec /\ Fairness

-----------------------------------------------------------------------------
(* Types *)

ConfigType ==
    [exists : BOOLEAN, granularity : Amount, token_a_drip_trigger_spread : Nat,
     token_b_withdrawal_spread : Nat, token_b_referral_spread : Nat,
     admin : Signers \cup {DefaultKey}]

VaultType ==
    [exists : BOOLEAN, last_drip_period : PeriodIds, drip_amount : Amount,
     drip_activation_timestamp : Int, limit_swaps : BOOLEAN,
     whitelisted_swaps : [1 .. WhitelistSize -> Swaps \cup {DefaultKey}]]

PeriodType ==
    [exists : BOOLEAN, dar : Amount, twap : Price, drip_timestamp : Nat]

PositionType ==
    [status : {"none", "open", "legacy", "closed"}, vault : Vaults \cup {DefaultKey},
     deposited_token_a_amount : Amount, withdrawn_token_b_amount : Amount,
     drip_period_id_before_deposit : PeriodIds, number_of_swaps : Nat,
     periodic_drip_amount : Amount]

\* Every account holds what its Rust type can hold: in particular no amount of
\* tokens, price or period id leaves its range.
TypeOK ==
    /\ now \in Nat
    /\ proto_config \in [Configs -> ConfigType]
    /\ vault \in [Vaults -> VaultType]
    /\ vault_period \in [Vaults -> [PeriodIds -> PeriodType]]
    /\ position \in [Positions -> PositionType]
    /\ nft_holder \in [Positions -> Signers \cup {NoHolder}]
    /\ balance \in [Vaults -> [Tokens -> Amount]]

-----------------------------------------------------------------------------
(* Safety *)

\* What position p adds to vault v's next drip.
DripShare(p, v) == IF Active(p, v) THEN position[p].periodic_drip_amount ELSE 0

\* What position p takes out of vault v's drip_amount when period k has dripped.
ExpiryShare(p, v, k) ==
    IF Active(p, v) /\ Expiry(p) = k THEN position[p].periodic_drip_amount ELSE 0

\* The A that position p has not spent yet and vault v still owes it.
UnspentA(p, v) ==
    IF Active(p, v)
    THEN (Expiry(p) - vault[v].last_drip_period) * position[p].periodic_drip_amount
    ELSE 0

\* The B that vault v owes position p, before fees.
UnclaimedB(p, v) ==
    IF position[p].status = "open" /\ position[p].vault = v
    THEN MaxWithdrawableB(p, v,
             vault_period[v][position[p].drip_period_id_before_deposit].twap,
             vault_period[v][LastDripOf(p, v)].twap)
         - position[p].withdrawn_token_b_amount
    ELSE 0

\* What that can cost the vault: where rounding has left less than nothing, the
\* withdrawal fails and costs no other position anything.
OwedB(p, v) == IF UnclaimedB(p, v) > 0 THEN UnclaimedB(p, v) ELSE 0

DripShares(v)         == [p \in Positions |-> DripShare(p, v)]
ExpiringShares(v, k)  == [p \in Positions |-> ExpiryShare(p, v, k)]
UnspentAmounts(v)     == [p \in Positions |-> UnspentA(p, v)]

\* An account nobody created holds nothing: a vault starts without drips, a period
\* without dar, whoever creates it and when.
AccountsFresh ==
    /\ \A v \in Vaults : ~ vault[v].exists =>
         vault[v].last_drip_period = 0 /\ vault[v].drip_amount = 0
    /\ \A v \in Vaults : \A k \in PeriodIds :
         ~ vault_period[v][k].exists => vault_period[v][k].dar = 0

\* An open position belongs to a vault that exists, did not start after the
\* vault's last drip, spends something at every drip and no more than it paid for in
\* all, and the period it expires in, which its close must be given, exists.
PositionTerms ==
    \A p \in Positions : position[p].status = "open" =>
        /\ position[p].vault \in Vaults
        /\ vault[position[p].vault].exists
        /\ position[p].drip_period_id_before_deposit
              <= vault[position[p].vault].last_drip_period
        /\ position[p].periodic_drip_amount > 0
        /\ position[p].number_of_swaps * position[p].periodic_drip_amount
              <= position[p].deposited_token_a_amount
        /\ Expiry(p) \in PeriodIds
        /\ vault_period[position[p].vault][Expiry(p)].exists

\* A vault sells, with every drip, exactly the periodic amounts of the positions
\* that still drip: the drip_amount it keeps by adding at a deposit, subtracting
\* dar at a drip and subtracting at an early close is their sum.
DripAmountIsSumOfShares ==
    \A v \in Vaults :
        vault[v].drip_amount = SumTo(DripShares(v), NumPositions)

\* The dar of every period still to drip is the sum of the periodic amounts of
\* the positions that expire with it, so process_drip never underflows and no
\* position is dripped once too often or once too few.
DarIsSumOfExpiringShares ==
    \A v \in Vaults : \A k \in PeriodIds :
        k > vault[v].last_drip_period =>
            vault_period[v][k].dar = SumTo(ExpiringShares(v, k), NumPositions)

\* The vault's token A account covers the unspent A of every open position, so
\* drips and refunds at close never fail for lack of A, whatever the admin withdrew.
TokenASolvent ==
    \A v \in Vaults :
        SumTo(UnspentAmounts(v), NumPositions) <= balance[v]["A"]

\* As long as the admin takes no A and nobody has token A paid into a vault's account, the
\* token A account holds the unspent A and the remainders deposits leave when they are
\* divided, and nothing else: no drip spends less or more than it accounts for.
DustA(p, v) ==
    IF position[p].status \in {"open", "closed"} /\ position[p].vault = v
    THEN position[p].deposited_token_a_amount
           - position[p].number_of_swaps * position[p].periodic_drip_amount
    ELSE 0

TokenAExact ==
    \A v \in Vaults :
        balance[v]["A"] = SumTo([p \in Positions |-> UnspentA(p, v) + DustA(p, v)],
                                NumPositions)

\* With no drip trigger spread, and as long as the admin takes no B, the vault's
\* token B account covers everything the open positions can withdraw, in any order and
\* whichever of them do: rounding of prices and averages never promises more B than the
\* swaps returned.
TokenBSolvent ==
    \A v \in Vaults :
        SumTo([p \in Positions |-> OwedB(p, v)], NumPositions) <= balance[v]["B"]

\* The drip trigger spreads that withdrawals subtract from the positions'
\* contributions are the ones the drips have taken: while every position is
\* open, they add up to at least as much.
SpreadOf(v, amount) == SpreadAmount(amount, Config(v).token_a_drip_trigger_spread)

Contribution(p, v, k) ==
    IF /\ position[p].status = "open" /\ position[p].vault = v
       /\ position[p].drip_period_id_before_deposit < k /\ k <= Expiry(p)
    THEN position[p].periodic_drip_amount ELSE 0

SpreadsAlreadyTaken ==
    (\A p \in Positions : position[p].status \in {"none", "open"}) =>
        \A v \in Vaults :
            LET drips == vault[v].last_drip_period
                subtracted == [p \in Positions |->
                    SpreadOf(v, SumTo([k \in 1 .. drips |-> Contribution(p, v, k)], drips))]
                taken == [k \in 1 .. drips |->
                    SpreadOf(v, SumTo([p \in Positions |-> Contribution(p, v, k)], NumPositions))]
            IN  SumTo(subtracted, NumPositions) >= SumTo(taken, drips)

\* What an open position can withdraw never falls below what it has withdrawn,
\* however the averages round, so no withdrawal and no close panics.
WithdrawalsNeverPanic ==
    \A p \in Positions, v \in Vaults :
        position[p].status = "open" /\ position[p].vault = v =>
            WithdrawalBDefined(p, v,
                vault_period[v][position[p].drip_period_id_before_deposit].twap,
                vault_period[v][LastDripOf(p, v)].twap)

\* Once a vault has dripped, all its periods up to the last drip exist: nobody can
\* create a period behind the vault's current one, although init_vault_period
\* checks nothing, and every withdrawal finds the period accounts it needs.
DrippedPeriodsExist ==
    \A v \in Vaults :
        vault[v].last_drip_period > 0 =>
            \A k \in 0 .. vault[v].last_drip_period : vault_period[v][k].exists

\* Two drips of a vault never happen in the same window of its granularity.
OneDripPerWindow ==
    \A v \in Vaults : \A k \in 2 .. vault[v].last_drip_period :
        vault_period[v][k - 1].drip_timestamp \div Config(v).granularity
            < vault_period[v][k].drip_timestamp \div Config(v).granularity

-----------------------------------------------------------------------------
(* Action properties *)

\* A price once recorded is final: the twap of a period the vault has dripped
\* never changes, and only the next period to drip can get one.  What a position
\* is owed is computed from two of these, long after they were written.
RecordedPricesFinal ==
    [][\A v \in Vaults : \A k \in PeriodIds :
         vault_period'[v][k].twap # vault_period[v][k].twap =>
            /\ k = vault[v].last_drip_period + 1
            /\ vault'[v].last_drip_period = k]_vars

\* An instruction touches the vault, the periods and the positions of one vault at most,
\* and takes tokens out of no other, whatever accounts it is given.  All it can do to a
\* second vault is pay into it, where its sender names an account of that vault.
LeavesAlone(v) ==
    /\ UNCHANGED <<vault[v], vault_period[v]>>
    /\ \A t \in Tokens : balance'[v][t] >= balance[v][t]
    /\ \A p \in Positions :
         v \in {position[p].vault, position'[p].vault} => UNCHANGED position[p]

VaultsIsolated ==
    [][\A v, w \in Vaults : v # w => LeavesAlone(v) \/ LeavesAlone(w)]_vars

\* A drip sets the next activation time to now or later, so the next drip waits.
NextActivationNotPast ==
    [][\A v \in Vaults :
         vault'[v].last_drip_period # vault[v].last_drip_period =>
            vault'[v].drip_activation_timestamp >= now]_vars

-----------------------------------------------------------------------------
(* Liveness *)

\* Every position eventually drips to its end, unless it is closed before.
PositionsComplete ==
    \A p \in Positions, v \in Vaults : Active(p, v) ~> ~ Active(p, v)
=============================================================================
