-------------------------- MODULE DripHistoryProofs ---------------------------
(***************************************************************************)
(* What happened stays as it was recorded: prices of dripped periods are   *)
(* final, an instruction touches the records of one vault and spends the   *)
(* tokens of no other, and no window of a vault's granularity ever holds   *)
(* two drips, for any number of vaults, positions and periods.             *)
(***************************************************************************)
EXTENDS DripAccountingProofs

\* A step that changes neither vault w nor its periods, and spends none of its tokens.
Untouched(w) ==
    /\ vault'[w] = vault[w] /\ vault_period'[w] = vault_period[w]
    /\ \A t \in Tokens : balance'[w][t] >= balance[w][t]

\* A step that changes positions of vault v only, or makes new ones of it.
ChangesPositionsOf(v) ==
    \A p \in Positions : position'[p] # position[p] =>
        /\ position[p].vault \in {v, DefaultKey}
        /\ position'[p].vault = v
        /\ position'[p].status # "none"

\* A position not made yet belongs to no vault.
Unplaced ==
    \A p \in Positions : position[p].status = "none" => position[p].vault = DefaultKey

\* A step that drips no period of vault w and leaves the records of its periods.
KeepsRecords(w) ==
    /\ vault'[w].last_drip_period = vault[w].last_drip_period
    /\ vault[w].exists =>
         vault'[w].drip_activation_timestamp = vault[w].drip_activation_timestamp
    /\ \A k \in PeriodIds :
         /\ vault_period'[w][k].twap = vault_period[w][k].twap
         /\ vault_period'[w][k].drip_timestamp = vault_period[w][k].drip_timestamp
         /\ vault_period[w][k].exists => vault_period'[w][k].exists

\* A step that drips vault w's period k: what Drip leaves behind.
Drips(w, k) ==
    /\ vault[w].exists
    /\ k = vault[w].last_drip_period + 1
    /\ vault'[w].last_drip_period = k
    /\ now >= vault[w].drip_activation_timestamp
    /\ vault'[w].drip_activation_timestamp
          = ActivationTimestamp(now, Config(w).granularity, TRUE)
    /\ vault_period'[w][k].drip_timestamp = now
    /\ vault_period'[w][k].exists
    /\ \A m \in PeriodIds : m # k => vault_period'[w][m] = vault_period[w][m]

\* A period account nobody created has no price and no time of a drip.
PeriodsFresh ==
    \A v \in Vaults : \A k \in PeriodIds :
        ~ vault_period[v][k].exists =>
            vault_period[v][k].twap = 0 /\ vault_period[v][k].drip_timestamp = 0

-----------------------------------------------------------------------------
(* What the steps do to the records *)

\* A balance that stays is not spent.
LEMMA NothingSpent ==
    ASSUME TypeOK, NEW w \in Vaults, balance'[w] = balance[w]
    PROVE  \A t \in Tokens : balance'[w][t] >= balance[w][t]
<1>1. \A t \in Tokens : balance[w][t] \in Nat
    BY BalanceNat DEF TypeOK, Balances
<1> QED BY <1>1

\* What leaves one vault's account is not spent by another's.
LEMMA OthersSpendNothing ==
    ASSUME TypeOK, NEW v \in Vaults, NEW w \in Vaults, w # v, NEW t \in Tokens, NEW n,
           SpentAtMost(balance, balance', v, t, n)
    PROVE  \A u \in Tokens : balance'[w][u] >= balance[w][u]
<1>1. \A u \in Tokens : balance[w][u] \in Nat
    BY BalanceNat DEF TypeOK, Balances
<1> QED BY <1>1 DEF SpentAtMost

\* Changing one dar changes no record.
LEMMA DarOnly ==
    ASSUME TypeOK, NEW v \in Vaults, NEW k \in PeriodIds, NEW x,
           vault_period' = [vault_period EXCEPT ![v][k].dar = x]
    PROVE  /\ \A w \in Vaults : \A m \in PeriodIds :
                /\ vault_period'[w][m].twap = vault_period[w][m].twap
                /\ vault_period'[w][m].drip_timestamp = vault_period[w][m].drip_timestamp
                /\ vault_period'[w][m].exists = vault_period[w][m].exists
           /\ \A w \in Vaults : w # v => vault_period'[w] = vault_period[w]
<1>1. \A w \in Vaults : vault_period[w] \in [PeriodIds -> PeriodType]
    BY VaultParts
<1>2. \A w \in Vaults : \A m \in PeriodIds :
         vault_period'[w][m] = IF w = v /\ m = k
                               THEN [vault_period[v][k] EXCEPT !.dar = x]
                               ELSE vault_period[w][m]
    BY <1>1 DEF TypeOK
<1>3. ASSUME NEW r \in PeriodType
      PROVE  /\ [r EXCEPT !.dar = x].twap = r.twap
             /\ [r EXCEPT !.dar = x].drip_timestamp = r.drip_timestamp
             /\ [r EXCEPT !.dar = x].exists = r.exists
    BY DEF PeriodType
<1>4. vault_period[v][k] \in PeriodType
    BY <1>1
<1>5. \A w \in Vaults : w # v => vault_period'[w] = vault_period[w]
    BY DEF TypeOK
<1>6. ASSUME NEW w \in Vaults, NEW m \in PeriodIds
      PROVE  /\ vault_period'[w][m].twap = vault_period[w][m].twap
             /\ vault_period'[w][m].drip_timestamp = vault_period[w][m].drip_timestamp
             /\ vault_period'[w][m].exists = vault_period[w][m].exists
    <2>1. CASE w = v /\ m = k
        BY <1>2, <1>3, <1>4, <2>1
    <2>2. CASE ~ (w = v /\ m = k)
        BY <1>2, <2>2
    <2> QED BY <2>1, <2>2
<1> QED BY <1>5, <1>6

\* Changing one drip_amount changes no vault's drips or activation time.
LEMMA DripAmountOnly ==
    ASSUME TypeOK, NEW v \in Vaults, NEW x,
           vault' = [vault EXCEPT ![v].drip_amount = x]
    PROVE  /\ \A w \in Vaults :
                /\ vault'[w].last_drip_period = vault[w].last_drip_period
                /\ vault'[w].drip_activation_timestamp = vault[w].drip_activation_timestamp
           /\ \A w \in Vaults : w # v => vault'[w] = vault[w]
<1>1. \A w \in Vaults : vault[w] \in VaultType
    BY VaultParts
<1>2. ASSUME NEW w \in Vaults
      PROVE  /\ vault'[w].last_drip_period = vault[w].last_drip_period
             /\ vault'[w].drip_activation_timestamp = vault[w].drip_activation_timestamp
    <2>1. CASE w = v
        <3>1. vault'[w] = [vault[w] EXCEPT !.drip_amount = x]
            BY <2>1 DEF TypeOK
        <3> QED BY <1>1, <3>1 DEF VaultType
    <2>2. CASE w # v
        BY <2>2 DEF TypeOK
    <2> QED BY <2>1, <2>2
<1> QED BY <1>2 DEF TypeOK

\* Setting up configs, vaults and periods records nothing.
LEMMA SetUpRecords ==
    ASSUME AccountingInv, PeriodsFresh
    PROVE  /\ \A c \in Configs, params \in ConfigParams :
                InitVaultProtoConfig(c, params)
                    => \A w \in Vaults : Untouched(w) /\ KeepsRecords(w)
           /\ \A v \in Vaults, admin \in Signers, list \in WhitelistParams :
                InitVault(v, admin, list) \/ SetVaultSwapWhitelist(v, admin, list)
                    => \A w \in Vaults : (w # v => Untouched(w)) /\ KeepsRecords(w)
           /\ \A v \in Vaults, k \in PeriodIds :
                InitVaultPeriod(v, k)
                    => \A w \in Vaults : (w # v => Untouched(w)) /\ KeepsRecords(w)
<1> USE DEF AccountingInv, TypeInv, KeepsRecords, Untouched
<1>1. ASSUME NEW c \in Configs, NEW params \in ConfigParams, InitVaultProtoConfig(c, params)
      PROVE  \A w \in Vaults : Untouched(w) /\ KeepsRecords(w)
    BY <1>1, NothingSpent DEF InitVaultProtoConfig
<1>2. ASSUME NEW v \in Vaults, NEW admin \in Signers, NEW list \in WhitelistParams,
             InitVault(v, admin, list)
      PROVE  \A w \in Vaults : (w # v => Untouched(w)) /\ KeepsRecords(w)
    BY <1>2, NothingSpent
       DEF InitVault, InitialVault, SetWhitelistedSwaps, NoVault, AccountsFresh, TypeOK
<1>3. ASSUME NEW v \in Vaults, NEW admin \in Signers, NEW list \in WhitelistParams,
             SetVaultSwapWhitelist(v, admin, list)
      PROVE  \A w \in Vaults : (w # v => Untouched(w)) /\ KeepsRecords(w)
    <2>1. vault[v] \in VaultType
        BY VaultParts
    <2> QED BY <1>3, <2>1, NothingSpent
            DEF SetVaultSwapWhitelist, SetWhitelistedSwaps, VaultType, TypeOK
<1>4. ASSUME NEW v \in Vaults, NEW k \in PeriodIds, InitVaultPeriod(v, k)
      PROVE  \A w \in Vaults : (w # v => Untouched(w)) /\ KeepsRecords(w)
    <2>1. \A w \in Vaults : vault_period[w] \in [PeriodIds -> PeriodType]
        BY VaultParts
    <2>2. \A w \in Vaults : \A m \in PeriodIds :
             vault_period'[w][m] = IF w = v /\ m = k
                                   THEN [NoPeriod EXCEPT !.exists = TRUE]
                                   ELSE vault_period[w][m]
        BY <1>4, <2>1 DEF InitVaultPeriod, TypeOK
    <2>3. vault_period[v][k].twap = 0 /\ vault_period[v][k].drip_timestamp = 0
        BY <1>4 DEF InitVaultPeriod, PeriodsFresh
    <2>4. \A w \in Vaults : w # v => vault_period'[w] = vault_period[w]
        BY <1>4 DEF InitVaultPeriod, TypeOK
    <2> QED BY <1>4, <2>2, <2>3, <2>4, NothingSpent DEF InitVaultPeriod, NoPeriod
<1> QED BY <1>1, <1>2, <1>3, <1>4

\* Nor do deposits and withdrawals, or what the admin and the environment do.
LEMMA QuietRecords ==
    ASSUME AccountingInv
    PROVE  /\ \A p \in Positions, v \in Vaults : DepositStep(p, v)
                    => \A w \in Vaults : (w # v => Untouched(w)) /\ KeepsRecords(w)
           /\ \A p \in Positions, v \in Vaults : WithdrawBStep(p, v)
                    => \A w \in Vaults : (w # v => Untouched(w)) /\ KeepsRecords(w)
           /\ \A p \in Positions, v \in Vaults : ClosePositionStep(p, v)
                    => \A w \in Vaults : (w # v => Untouched(w)) /\ KeepsRecords(w)
           /\ \A v \in Vaults, admin \in Signers, token \in Tokens, to \in PayoutAccounts :
                EmptyTokenAccount(v, admin, token, to)
                    => \A w \in Vaults : (w # v => Untouched(w)) /\ KeepsRecords(w)
           /\ \A v \in Vaults, admin \in Signers, p \in Positions :
                ClosePositionAccount(p, v, admin)
                    => \A w \in Vaults : Untouched(w) /\ KeepsRecords(w)
           /\ \A p \in Positions, to \in Users : TransferNft(p, to)
                    => \A w \in Vaults : Untouched(w) /\ KeepsRecords(w)
           /\ Tick \/ UNCHANGED vars => \A w \in Vaults : Untouched(w) /\ KeepsRecords(w)
<1> USE DEF AccountingInv, TypeInv, KeepsRecords, Untouched
<1>1. ASSUME NEW p \in Positions, NEW v \in Vaults, DepositStep(p, v)
      PROVE  \A w \in Vaults : (w # v => Untouched(w)) /\ KeepsRecords(w)
    <2>1. PICK depositor \in Users, n \in SwapCounts, amount \in DepositAmounts,
               end \in PeriodAccounts : Deposit(p, v, depositor, end, amount, n)
        BY <1>1 DEF DepositStep
    <2> DEFINE per == PeriodicDripAmount(amount, n)
               k0 == end.period_id
    <2>2. end.vault = v /\ k0 \in PeriodIds
        BY <2>1, PeriodAccountType DEF Deposit, IsPeriod
    <2>3. /\ vault' = [vault EXCEPT ![v].drip_amount = vault[v].drip_amount + per]
          /\ vault_period' = [vault_period EXCEPT ![v][k0].dar = vault_period[v][k0].dar + per]
          /\ balance' = [balance EXCEPT ![v]["A"] = @ + amount]
        BY <2>1, <2>2 DEF Deposit
    <2> HIDE DEF per, k0
    <2>4. \A w \in Vaults : w # v => balance'[w] = balance[w]
        BY <2>3 DEF TypeOK
    <2> QED BY <2>2, <2>3, <2>4, NothingSpent, DarOnly, DripAmountOnly
<1>2. ASSUME NEW p \in Positions, NEW v \in Vaults, WithdrawBStep(p, v)
      PROVE  \A w \in Vaults : (w # v => Untouched(w)) /\ KeepsRecords(w)
    <2>1. PICK withdrawer \in Signers, i \in PeriodAccounts, j \in PeriodAccounts :
               WithdrawB(p, v, withdrawer, i, j)
        BY <1>2 DEF WithdrawBStep
    <2>2. SpentAtMost(balance, balance', v, "B", BeforeFees(p, v, i, j)) /\ "B" \in Tokens
        BY <2>1, WithdrawBType DEF Tokens
    <2>3. vault' = vault /\ vault_period' = vault_period
        BY <2>1 DEF WithdrawB
    <2> QED BY <2>2, <2>3, OthersSpendNothing
<1>3. ASSUME NEW p \in Positions, NEW v \in Vaults, ClosePositionStep(p, v)
      PROVE  \A w \in Vaults : (w # v => Untouched(w)) /\ KeepsRecords(w)
    <2>1. PICK withdrawer \in Signers, i \in PeriodAccounts, j \in PeriodAccounts,
               expiry \in PeriodAccounts : ClosePosition(p, v, withdrawer, i, j, expiry)
        BY <1>3 DEF ClosePositionStep
    <2> DEFINE per == position[p].periodic_drip_amount
               k0 == expiry.period_id
    <2>2. expiry.vault = v /\ k0 \in PeriodIds
        BY <2>1, PeriodAccountType DEF ClosePosition, IsPeriod
    <2>4. ASSUME NEW w \in Vaults, w # v
          PROVE  \A t \in Tokens : balance'[w][t] >= balance[w][t]
        <3>1. balance'[w]["A"] >= balance[w]["A"] - 0 /\ balance'[w]["B"] >= balance[w]["B"] - 0
            BY <2>1, <2>4, CloseSpends
        <3>2. balance[w]["A"] \in Nat /\ balance[w]["B"] \in Nat
            BY BalanceNat DEF TypeOK, Balances, Tokens
        <3> QED BY <3>1, <3>2 DEF Tokens
    <2>5. CASE vault' = vault /\ vault_period' = vault_period
        BY <2>4, <2>5
    <2>6. CASE /\ vault' = [vault EXCEPT ![v].drip_amount = vault[v].drip_amount - per]
               /\ vault_period' = [vault_period EXCEPT
                      ![v][k0].dar = vault_period[v][k0].dar - per]
        <3> HIDE DEF per, k0
        <3> QED BY <2>2, <2>4, <2>6, DarOnly, DripAmountOnly
    <2> QED BY <2>1, <2>2, <2>5, <2>6 DEF ClosePosition, ReduceDrip
<1>4. ASSUME NEW v \in Vaults, NEW admin \in Signers, NEW token \in Tokens,
             NEW to \in PayoutAccounts, EmptyTokenAccount(v, admin, token, to)
      PROVE  \A w \in Vaults : (w # v => Untouched(w)) /\ KeepsRecords(w)
    <2>1. SpentAtMost(balance, balance', v, token, balance[v][token])
        BY <1>4, EmptiedFacts
    <2>2. vault' = vault /\ vault_period' = vault_period
        BY <1>4 DEF EmptyTokenAccount
    <2> QED BY <2>1, <2>2, OthersSpendNothing
<1>5. ASSUME NEW v \in Vaults, NEW admin \in Signers, NEW p \in Positions,
             ClosePositionAccount(p, v, admin)
      PROVE  \A w \in Vaults : Untouched(w) /\ KeepsRecords(w)
    BY <1>5, NothingSpent DEF ClosePositionAccount
<1>6. ASSUME NEW p \in Positions, NEW to \in Users, TransferNft(p, to)
      PROVE  \A w \in Vaults : Untouched(w) /\ KeepsRecords(w)
    BY <1>6, NothingSpent DEF TransferNft
<1>7. ASSUME Tick \/ UNCHANGED vars
      PROVE  \A w \in Vaults : Untouched(w) /\ KeepsRecords(w)
    BY <1>7, NothingSpent DEF Tick, vars
<1> QED BY <1>1, <1>2, <1>3, <1>4, <1>5, <1>6, <1>7

\* A drip records the period it drips and no other, and moves no other vault.
LEMMA DripRecords ==
    ASSUME AccountingInv, NEW v \in Vaults, DripStep(v)
    PROVE  /\ \A w \in Vaults : w # v => Untouched(w) /\ KeepsRecords(w)
           /\ Drips(v, vault[v].last_drip_period + 1)
           /\ vault[v].last_drip_period + 1 \in PeriodIds
<1> DEFINE k0 == vault[v].last_drip_period + 1
           g == Config(v).granularity
           t == ActivationTimestamp(now, g, TRUE)
<1> USE DEF AccountingInv, TypeInv
<1>1. PICK last \in PeriodAccounts, current \in PeriodAccounts, swap \in Swaps,
           fee_account \in PayoutAccounts,
           swapped_a \in 0 .. SwapAmount(v), received_b \in ReceivedAmounts :
           Drip(v, last, current, swap, fee_account, swapped_a, received_b)
    BY DEF DripStep
<1>2. current.vault = v /\ current.period_id = k0 /\ k0 \in PeriodIds
    BY <1>1, PeriodAccountType DEF Drip, IsPeriod
<1>3. PICK d : vault' = [vault EXCEPT ![v].drip_amount = d, ![v].last_drip_period = k0,
                                      ![v].drip_activation_timestamp = t]
    BY <1>1, <1>2 DEF Drip, ProcessDrip
<1>4. PICK x : vault_period' = [vault_period EXCEPT ![v][k0].twap = x,
                                                    ![v][k0].drip_timestamp = now]
    BY <1>1, <1>2 DEF Drip, UpdatePeriod
<1>5. \A w \in Vaults : w # v => \A u \in Tokens : balance'[w][u] >= balance[w][u]
    <2>1. ASSUME NEW w \in Vaults, w # v
          PROVE  balance'[w]["A"] >= balance[w]["A"] /\ balance'[w]["B"] = balance[w]["B"]
        BY <1>1, <2>1, DripSpends
    <2>2. \A w \in Vaults : balance[w]["B"] \in Nat
        BY BalanceNat DEF TypeOK, Balances, Tokens
    <2> QED BY <2>1, <2>2 DEF Tokens
<1>6. vault[v].exists /\ now >= vault[v].drip_activation_timestamp
    BY <1>1 DEF Drip
<1> HIDE DEF k0, t
<1>7. \A w \in Vaults : vault_period[w] \in [PeriodIds -> PeriodType]
    BY VaultParts
<1>8. \A w \in Vaults : w # v => Untouched(w) /\ KeepsRecords(w)
    BY <1>3, <1>4, <1>5 DEF Untouched, KeepsRecords, TypeOK
<1>9. vault'[v].last_drip_period = k0 /\ vault'[v].drip_activation_timestamp = t
    <2>1. vault[v] \in VaultType
        BY VaultParts
    <2>2. vault'[v] = [vault[v] EXCEPT !.drip_amount = d, !.last_drip_period = k0,
                                       !.drip_activation_timestamp = t]
        BY <1>3 DEF TypeOK
    <2> QED BY <2>1, <2>2 DEF VaultType
<1>10. /\ vault_period'[v][k0].drip_timestamp = now
       /\ vault_period'[v][k0].exists
       /\ \A m \in PeriodIds : m # k0 => vault_period'[v][m] = vault_period[v][m]
    <2>1. vault_period'[v][k0] = [vault_period[v][k0] EXCEPT !.twap = x, !.drip_timestamp = now]
        BY <1>2, <1>4, <1>7 DEF TypeOK
    <2>2. vault_period[v][k0] \in PeriodType
        BY <1>2, <1>7
    <2>3. \A m \in PeriodIds : m # k0 => vault_period'[v][m] = vault_period[v][m]
        BY <1>4, <1>7 DEF TypeOK
    <2>4. vault_period[v][k0].exists
        BY <1>1, PeriodAccountType DEF Drip, IsPeriod, Data, k0
    <2> QED BY <2>1, <2>2, <2>3, <2>4 DEF PeriodType
<1>11. Drips(v, k0)
    BY <1>6, <1>9, <1>10 DEF Drips, k0, t
<1> QED BY <1>2, <1>8, <1>11 DEF k0

\* An instruction given a vault changes that vault's positions only.
LEMMA OwnPositions ==
    ASSUME TypeOK, Unplaced
    PROVE  /\ \A p \in Positions, v \in Vaults :
                DepositStep(p, v) \/ WithdrawBStep(p, v) \/ ClosePositionStep(p, v)
                    => ChangesPositionsOf(v)
           /\ \A v \in Vaults : AdminStep(v) \/ DripStep(v) => ChangesPositionsOf(v)
           /\ (\/ \E c \in Configs, params \in ConfigParams : InitVaultProtoConfig(c, params)
               \/ \E v \in Vaults, k \in PeriodIds : InitVaultPeriod(v, k)
               \/ \E p \in Positions, to \in Users : TransferNft(p, to)
               \/ Tick
               \/ UNCHANGED vars) => position' = position
<1>1. ASSUME NEW p \in Positions, NEW v \in Vaults, DepositStep(p, v)
      PROVE  ChangesPositionsOf(v)
    <2>1. PICK depositor \in Users, n \in SwapCounts, amount \in DepositAmounts,
               end \in PeriodAccounts : Deposit(p, v, depositor, end, amount, n)
        BY <1>1 DEF DepositStep
    <2> DEFINE r == [status |-> "open", vault |-> v,
                     deposited_token_a_amount |-> amount,
                     withdrawn_token_b_amount |-> 0,
                     drip_period_id_before_deposit |-> vault[v].last_drip_period,
                     number_of_swaps |-> n,
                     periodic_drip_amount |-> PeriodicDripAmount(amount, n)]
    <2>2. /\ position' = [position EXCEPT ![p] = r]
          /\ r.vault = v /\ r.status = "open"
        BY <2>1 DEF Deposit
    <2> HIDE DEF r
    <2>3. position[p].vault = DefaultKey
        BY <2>1 DEF Deposit, FreshMint, Unplaced
    <2> QED BY <2>2, <2>3 DEF ChangesPositionsOf, TypeOK
<1>2. ASSUME NEW p \in Positions, NEW v \in Vaults, WithdrawBStep(p, v)
      PROVE  ChangesPositionsOf(v)
    <2>1. PICK withdrawer \in Signers, i \in PeriodAccounts, j \in PeriodAccounts :
               WithdrawB(p, v, withdrawer, i, j)
        BY <1>2 DEF WithdrawBStep
    <2>2. PICK x : position' = [position EXCEPT ![p].withdrawn_token_b_amount = x]
        BY <2>1 DEF WithdrawB
    <2>3. position[p].status = "open" /\ position[p].vault = v
        BY <2>1 DEF WithdrawB, ValidWithdrawal
    <2>4. position'[p].status = position[p].status /\ position'[p].vault = position[p].vault
        BY <2>2, PositionParts DEF TypeOK, PositionType
    <2> QED BY <2>2, <2>3, <2>4 DEF ChangesPositionsOf, TypeOK
<1>3. ASSUME NEW p \in Positions, NEW v \in Vaults, ClosePositionStep(p, v)
      PROVE  ChangesPositionsOf(v)
    <2>1. PICK withdrawer \in Signers, i \in PeriodAccounts, j \in PeriodAccounts,
               expiry \in PeriodAccounts : ClosePosition(p, v, withdrawer, i, j, expiry)
        BY <1>3 DEF ClosePositionStep
    <2>2. PICK x : position' = [position EXCEPT ![p].withdrawn_token_b_amount = x,
                                                ![p].status = "closed"]
        BY <2>1 DEF ClosePosition
    <2>3. position[p].vault = v
        BY <2>1 DEF ClosePosition, ValidWithdrawal
    <2>4. position'[p].status = "closed" /\ position'[p].vault = position[p].vault
        BY <2>2, PositionParts DEF TypeOK, PositionType
    <2> QED BY <2>2, <2>3, <2>4 DEF ChangesPositionsOf, TypeOK
<1>4. ASSUME NEW v \in Vaults, AdminStep(v)
      PROVE  ChangesPositionsOf(v)
    <2>1. CASE position' = position
        BY <2>1 DEF ChangesPositionsOf
    <2>2. ASSUME NEW admin \in Signers, NEW p \in Positions, ClosePositionAccount(p, v, admin)
          PROVE  ChangesPositionsOf(v)
        <3>1. position'[p].status = "closed" /\ position'[p].vault = position[p].vault
            BY <2>2, PositionParts DEF ClosePositionAccount, TypeOK, PositionType
        <3> QED BY <2>2, <3>1 DEF ClosePositionAccount, ChangesPositionsOf, TypeOK
    <2> QED BY <1>4, <2>1, <2>2 DEF AdminStep, InitVault, SetVaultSwapWhitelist, WithdrawA,
                                    AdminWithdraw, EmptyTokenAccount
<1>5. ASSUME NEW v \in Vaults, DripStep(v)
      PROVE  ChangesPositionsOf(v)
    BY <1>5 DEF DripStep, Drip, ChangesPositionsOf
<1> QED BY <1>1, <1>2, <1>3, <1>4, <1>5
        DEF InitVaultProtoConfig, InitVaultPeriod, TransferNft, Tick, vars

\* Every step drips a vault or leaves its records, no step touches two vaults, and no
\* step gives a position to a vault without making it.
LEMMA StepRecords ==
    ASSUME AccountingInv, PeriodsFresh, Unplaced, [Next]_vars
    PROVE  /\ \A w \in Vaults :
                \/ KeepsRecords(w)
                \/ /\ Drips(w, vault[w].last_drip_period + 1)
                   /\ vault[w].last_drip_period + 1 \in PeriodIds
           /\ \A v, w \in Vaults : v # w => LeavesAlone(v) \/ LeavesAlone(w)
           /\ \A p \in Positions :
                position'[p] # position[p] => position'[p].status # "none"
<1> DEFINE Quiet == \A w \in Vaults : Untouched(w) /\ KeepsRecords(w)
           QuietBut(v) == \A w \in Vaults : (w # v => Untouched(w)) /\ KeepsRecords(w)
           Kept(v) == position' = position \/ ChangesPositionsOf(v)
<1> USE DEF AccountingInv, TypeInv
<1>1. ASSUME NEW c \in Configs, NEW params \in ConfigParams, InitVaultProtoConfig(c, params)
      PROVE  Quiet /\ position' = position
    BY <1>1, SetUpRecords, OwnPositions
<1>2. ASSUME NEW v \in Vaults, NEW k \in PeriodIds, InitVaultPeriod(v, k)
      PROVE  QuietBut(v) /\ Kept(v)
    BY <1>2, SetUpRecords, OwnPositions
<1>3. ASSUME NEW p \in Positions, NEW v \in Vaults,
             DepositStep(p, v) \/ WithdrawBStep(p, v) \/ ClosePositionStep(p, v)
      PROVE  QuietBut(v) /\ Kept(v)
    BY <1>3, QuietRecords, OwnPositions
<1>4. ASSUME NEW v \in Vaults, AdminStep(v)
      PROVE  QuietBut(v) /\ Kept(v)
    <2>1. QuietBut(v)
        BY <1>4, SetUpRecords, QuietRecords DEF AdminStep, WithdrawA, AdminWithdraw, Tokens
    <2> QED BY <1>4, <2>1, OwnPositions
<1>5. ASSUME NEW p \in Positions, NEW to \in Users, TransferNft(p, to)
      PROVE  Quiet /\ position' = position
    BY <1>5, QuietRecords, OwnPositions
<1>6. ASSUME Tick \/ UNCHANGED vars
      PROVE  Quiet /\ position' = position
    BY <1>6, QuietRecords, OwnPositions
<1>7. ASSUME NEW v \in Vaults, DripStep(v)
      PROVE  /\ \A w \in Vaults : w # v => Untouched(w) /\ KeepsRecords(w)
             /\ Drips(v, vault[v].last_drip_period + 1)
             /\ vault[v].last_drip_period + 1 \in PeriodIds
             /\ Kept(v)
    BY <1>7, DripRecords, OwnPositions
<1>8. ASSUME NEW v \in Vaults, \A w \in Vaults : w # v => Untouched(w), Kept(v)
      PROVE  /\ \A w \in Vaults : w # v => LeavesAlone(w)
             /\ \A p \in Positions :
                    position'[p] # position[p] => position'[p].status # "none"
    <2>1. ASSUME NEW w \in Vaults, w # v, NEW p \in Positions,
                 w \in {position[p].vault, position'[p].vault}
          PROVE  position'[p] = position[p]
        <3>1. w # DefaultKey
            BY AddressAssumption
        <3> QED BY <1>8, <2>1, <3>1 DEF ChangesPositionsOf
    <2> QED BY <1>8, <2>1 DEF LeavesAlone, Untouched, ChangesPositionsOf
<1>9. ASSUME Quiet, position' = position
      PROVE  /\ \A w \in Vaults : LeavesAlone(w) /\ KeepsRecords(w)
             /\ \A p \in Positions :
                    position'[p] # position[p] => position'[p].status # "none"
    BY <1>9 DEF LeavesAlone, Untouched
<1> HIDE DEF Quiet, Kept
<1>10. CASE \E v \in Vaults : DripStep(v)
    BY <1>7, <1>8, <1>10
<1>11. CASE \E v \in Vaults : QuietBut(v) /\ Kept(v)
    BY <1>8, <1>11
<1>12. CASE Quiet /\ position' = position
    BY <1>9, <1>12
<1> HIDE DEF QuietBut
<1> QED BY <1>1, <1>2, <1>3, <1>4, <1>5, <1>6, <1>10, <1>11, <1>12 DEF Next

-----------------------------------------------------------------------------
(* Prices are final, vaults are apart *)

\* The bookkeeping's invariant, and no price or vault where no account was created.
HistoryInv == AccountingInv /\ PeriodsFresh /\ Unplaced

LEMMA InitHistory == Init => HistoryInv
<1>1. Init => PeriodsFresh
    <2>1. Init => vault_period = [v \in Vaults |-> [k \in PeriodIds |-> NoPeriod]]
        BY DEF Init
    <2> QED BY <2>1 DEF PeriodsFresh, NoPeriod
<1>2. Init => Unplaced
    <2> SUFFICES ASSUME Init
                 PROVE  Unplaced
        OBVIOUS
    <2>1. PICK owner \in [LegacyPositions -> UpgradedVaults] :
             position = [p \in Positions |->
                 IF p \in LegacyPositions
                 THEN [NoPosition EXCEPT !.status = "legacy", !.vault = owner[p]]
                 ELSE NoPosition]
        BY DEF Init
    <2> QED BY <2>1 DEF Unplaced, NoPosition
<1> QED BY <1>1, <1>2, InitAccounting DEF HistoryInv

LEMMA StepHistory == HistoryInv /\ [Next]_vars => HistoryInv'
<1> SUFFICES ASSUME HistoryInv, [Next]_vars
             PROVE  HistoryInv'
    OBVIOUS
<1>1. AccountingInv'
    BY StepAccounting DEF HistoryInv
<1>2. PeriodsFresh'
    <2> SUFFICES ASSUME NEW w \in Vaults, NEW k \in PeriodIds, ~ vault_period'[w][k].exists
                 PROVE  vault_period'[w][k].twap = 0 /\ vault_period'[w][k].drip_timestamp = 0
        BY DEF PeriodsFresh
    <2>1. CASE KeepsRecords(w)
        BY <2>1 DEF KeepsRecords, HistoryInv, PeriodsFresh
    <2>2. CASE Drips(w, vault[w].last_drip_period + 1)
        BY <2>2 DEF Drips, HistoryInv, PeriodsFresh
    <2> QED BY <2>1, <2>2, StepRecords DEF HistoryInv
<1>3. Unplaced'
    <2> SUFFICES ASSUME NEW p \in Positions, position'[p].status = "none"
                 PROVE  position'[p].vault = DefaultKey
        BY DEF Unplaced
    <2>1. position'[p] = position[p]
        BY StepRecords DEF HistoryInv
    <2> QED BY <2>1 DEF HistoryInv, Unplaced
<1> QED BY <1>1, <1>2, <1>3 DEF HistoryInv

\* A recorded price never changes: only a drip writes one, and only into the period
\* after the vault's last, so what a position is owed cannot be rewritten later.
THEOREM PricesFinal == Spec => RecordedPricesFinal
<1>1. HistoryInv /\ [Next]_vars =>
        \A v \in Vaults : \A k \in PeriodIds :
            vault_period'[v][k].twap # vault_period[v][k].twap =>
                /\ k = vault[v].last_drip_period + 1
                /\ vault'[v].last_drip_period = k
    <2> SUFFICES ASSUME HistoryInv, [Next]_vars, NEW v \in Vaults, NEW k \in PeriodIds,
                        vault_period'[v][k].twap # vault_period[v][k].twap
                 PROVE  k = vault[v].last_drip_period + 1 /\ vault'[v].last_drip_period = k
        OBVIOUS
    <2>1. ~ KeepsRecords(v)
        BY DEF KeepsRecords
    <2>2. Drips(v, vault[v].last_drip_period + 1)
        BY <2>1, StepRecords DEF HistoryInv
    <2> QED BY <2>2 DEF Drips
<1> QED BY <1>1, InitHistory, StepHistory, PTL DEF Spec, RecordedPricesFinal

\* No instruction, whatever accounts it is given and wherever it pays to, changes the
\* vault, periods or positions of two vaults or takes tokens out of two.
THEOREM VaultsApart == Spec => VaultsIsolated
<1>1. HistoryInv /\ [Next]_vars =>
        \A v, w \in Vaults : v # w => LeavesAlone(v) \/ LeavesAlone(w)
    BY StepRecords DEF HistoryInv
<1> QED BY <1>1, InitHistory, StepHistory, PTL DEF Spec, VaultsIsolated

-----------------------------------------------------------------------------
(* Windows *)

\* Every proto config there is was created from parameters, and nothing changes it.
ConfigsGiven ==
    \A c \in Configs : proto_config[c].exists =>
        \E q \in ConfigParams : proto_config[c] = ConfigRecord(q)

\* A vault that has dripped waits for the end of the window it dripped in last.
WaitsForNextWindow ==
    \A v \in Vaults : vault[v].last_drip_period > 0 =>
        /\ vault[v].exists
        /\ vault[v].drip_activation_timestamp =
              ActivationTimestamp(vault_period[v][vault[v].last_drip_period].drip_timestamp,
                                  Config(v).granularity, TRUE)

WindowInv ==
    /\ HistoryInv
    /\ ConfigsGiven
    /\ WaitsForNextWindow
    /\ OneDripPerWindow

\* The proto configs at the start are made from parameters.
LEMMA InitConfigs == Init => ConfigsGiven
<1> SUFFICES ASSUME Init
             PROVE  ConfigsGiven
    OBVIOUS
<1>1. PICK params \in [Configs -> {q \in ConfigParams : ValidConfigParams(q)}] :
         proto_config = [c \in Configs |->
             IF \E v \in UpgradedVaults : ConfigOf[v] = c
             THEN ConfigRecord(params[c]) ELSE NoConfig]
    BY DEF Init
<1> QED BY <1>1 DEF ConfigsGiven, NoConfig

\* A step keeps the config of every vault that exists; one created is from parameters.
LEMMA StepConfigs ==
    ASSUME TypeInv, ConfigsGiven, [Next]_vars
    PROVE  /\ ConfigsGiven'
           /\ \A w \in Vaults : vault[w].exists => Config(w)' = Config(w)
<1>1. CASE proto_config' = proto_config
    BY <1>1 DEF ConfigsGiven, Config
<1>2. CASE \E c \in Configs, params \in ConfigParams : InitVaultProtoConfig(c, params)
    <2>1. PICK c \in Configs, params \in ConfigParams : InitVaultProtoConfig(c, params)
        BY <1>2
    <2>2. \A d \in Configs : d # c => proto_config'[d] = proto_config[d]
        BY <2>1 DEF InitVaultProtoConfig, TypeInv, TypeOK
    <2>3. proto_config'[c] = ConfigRecord(params) /\ ~ proto_config[c].exists
        BY <2>1 DEF InitVaultProtoConfig, TypeInv, TypeOK
    <2>4. \A w \in Vaults : ConfigOf[w] \in Configs
        BY AddressAssumption
    <2> QED BY <2>2, <2>3, <2>4 DEF ConfigsGiven, Config, TypeInv, ConfigsValid
<1>3. ASSUME NEW v \in Vaults, AdminStep(v)
      PROVE  proto_config' = proto_config
    BY <1>3 DEF AdminStep, InitVault, SetVaultSwapWhitelist, WithdrawA, AdminWithdraw,
                EmptyTokenAccount, ClosePositionAccount
<1>4. ASSUME NEW p \in Positions, NEW v \in Vaults,
             DepositStep(p, v) \/ WithdrawBStep(p, v) \/ ClosePositionStep(p, v)
      PROVE  proto_config' = proto_config
    <2>1. CASE DepositStep(p, v)
        <3>1. PICK depositor \in Users, n \in SwapCounts, amount \in DepositAmounts,
                   end \in PeriodAccounts : Deposit(p, v, depositor, end, amount, n)
            BY <2>1 DEF DepositStep
        <3> QED BY <3>1 DEF Deposit
    <2>2. CASE WithdrawBStep(p, v)
        <3>1. PICK withdrawer \in Signers, i \in PeriodAccounts, j \in PeriodAccounts :
                   WithdrawB(p, v, withdrawer, i, j)
            BY <2>2 DEF WithdrawBStep
        <3> QED BY <3>1 DEF WithdrawB
    <2>3. CASE ClosePositionStep(p, v)
        <3>1. PICK withdrawer \in Signers, i \in PeriodAccounts, j \in PeriodAccounts,
                   expiry \in PeriodAccounts : ClosePosition(p, v, withdrawer, i, j, expiry)
            BY <2>3 DEF ClosePositionStep
        <3> QED BY <3>1 DEF ClosePosition
    <2> QED BY <1>4, <2>1, <2>2, <2>3
<1>5. ASSUME NEW v \in Vaults, DripStep(v)
      PROVE  proto_config' = proto_config
    BY <1>5 DEF DripStep, Drip
<1>6. ASSUME \/ \E v \in Vaults, k \in PeriodIds : InitVaultPeriod(v, k)
             \/ \E p \in Positions, to \in Users : TransferNft(p, to)
             \/ Tick
             \/ UNCHANGED vars
      PROVE  proto_config' = proto_config
    BY <1>6 DEF InitVaultPeriod, TransferNft, Tick, vars
<1> QED BY <1>1, <1>2, <1>3, <1>4, <1>5, <1>6 DEF Next

\* The next window of a granularity that is positive as an i64 begins after this one.
LEMMA NextWindow ==
    ASSUME NEW t \in Nat, NEW n \in Nat, NEW g \in Amount, g > 0, g < Two64 \div 2,
           n >= ActivationTimestamp(t, g, TRUE)
    PROVE  t \div g < n \div g
<1>1. g \in Nat \ {0} /\ AsI64(g) = g
    BY CheckedAmounts DEF AsI64
<1>2. n >= t - (t % g) + g
    BY <1>1 DEF ActivationTimestamp
<1> DEFINE q == t \div g
           r == n \div g
<1>3. q \in Nat /\ t - (t % g) = g * q
    BY <1>1
<1>4. r \in Nat /\ n < g * r + g
    BY <1>1
<1> HIDE DEF q, r
<1>5. g * q < g * r
    <2>1. g * q \in Nat /\ g * r \in Nat
        BY <1>1, <1>3, <1>4
    <2> QED BY <1>1, <1>2, <1>3, <1>4, <2>1
<1>6. q < r
    <2>1. q >= r => g * q >= g * r
        BY <1>1, <1>3, <1>4, Z3
    <2> QED BY <1>1, <1>3, <1>4, <1>5, <2>1
<1> QED BY <1>6 DEF q, r
\* A drip waits for the window after the last one's, and sets the next wait.
LEMMA StepWindows ==
    ASSUME WindowInv, [Next]_vars,
           \A q \in ConfigParams : q.granularity < Two64 \div 2
    PROVE  WindowInv'
<1> USE DEF WindowInv
<1>1. HistoryInv' /\ TypeInv /\ AccountingInv /\ PeriodsFresh /\ Unplaced
    BY StepHistory DEF HistoryInv, AccountingInv
<1>2. ConfigsGiven' /\ \A w \in Vaults : vault[w].exists => Config(w)' = Config(w)
    BY <1>1, StepConfigs
<1>3. ASSUME NEW w \in Vaults
      PROVE  /\ vault'[w].last_drip_period > 0 =>
                /\ vault'[w].exists
                /\ vault'[w].drip_activation_timestamp =
                     ActivationTimestamp(
                        vault_period'[w][vault'[w].last_drip_period].drip_timestamp,
                        Config(w).granularity', TRUE)
             /\ \A k \in 2 .. vault'[w].last_drip_period :
                   vault_period'[w][k - 1].drip_timestamp \div Config(w).granularity'
                       < vault_period'[w][k].drip_timestamp \div Config(w).granularity'
    <2> DEFINE last == vault[w].last_drip_period
    <2>1. last \in PeriodIds /\ last \in Nat
        BY <1>1, VaultParts, BoundAssumption DEF TypeInv, PeriodIds
    <2>2. \A k \in 1 .. last : k \in PeriodIds /\ k - 1 \in PeriodIds
        BY <2>1, BoundAssumption DEF PeriodIds
    <2>3. CASE KeepsRecords(w)
        <3>1. vault'[w].last_drip_period = last
            BY <2>3 DEF KeepsRecords
        <3>2. last > 0 => /\ vault[w].exists /\ Config(w)' = Config(w)
                          /\ vault'[w].drip_activation_timestamp
                                 = vault[w].drip_activation_timestamp
            BY <1>2, <2>3 DEF KeepsRecords, WaitsForNextWindow
        <3>3. last > 0 => vault'[w].exists
            BY <1>1, <3>1 DEF HistoryInv, AccountingInv, AccountsFresh
        <3>4. \A k \in PeriodIds :
                 vault_period'[w][k].drip_timestamp = vault_period[w][k].drip_timestamp
            BY <2>3 DEF KeepsRecords
        <3>5. \A k \in 2 .. last : k \in 1 .. last /\ last > 0
            BY <2>1
        <3> QED BY <2>1, <2>2, <3>1, <3>2, <3>3, <3>4, <3>5
                DEF WaitsForNextWindow, OneDripPerWindow
    <2>4. CASE Drips(w, last + 1) /\ last + 1 \in PeriodIds
        <3> DEFINE g == Config(w).granularity
                   k0 == last + 1
        <3>1. /\ vault[w].exists /\ vault'[w].last_drip_period = k0
              /\ vault'[w].drip_activation_timestamp = ActivationTimestamp(now, g, TRUE)
              /\ vault_period'[w][k0].drip_timestamp = now
              /\ now >= vault[w].drip_activation_timestamp
              /\ \A m \in PeriodIds : m # k0 => vault_period'[w][m] = vault_period[w][m]
            BY <2>4 DEF Drips
        <3>2. Config(w)' = Config(w)
            BY <1>2, <3>1
        <3>3. vault'[w].exists
            BY <1>1, <2>1, <3>1 DEF HistoryInv, AccountingInv, AccountsFresh
        <3>4. \A k \in 2 .. k0 : k - 1 \in PeriodIds /\ k - 1 # k0
            BY <2>1, <2>4, BoundAssumption DEF PeriodIds
        <3>5. \A k \in 2 .. last : k \in PeriodIds /\ k # k0
            BY <2>1, <2>2
        <3>6. ASSUME NEW k \in 2 .. last
              PROVE  vault_period'[w][k - 1].drip_timestamp \div g
                        < vault_period'[w][k].drip_timestamp \div g
            <4>1. k \in 2 .. k0
                BY <2>1
            <4> QED BY <3>1, <3>4, <3>5, <3>6, <4>1 DEF OneDripPerWindow
        <3>7. CASE last > 0
            <4> DEFINE t == vault_period[w][last].drip_timestamp
            <4>1. t \in Nat /\ now \in Nat
                BY <1>1, <2>1, VaultParts DEF TypeInv, TypeOK, PeriodType
            <4>2. g \in Amount /\ g > 0 /\ g < Two64 \div 2
                <5>1. g \in Amount /\ g > 0 /\ Config(w).exists /\ ConfigOf[w] \in Configs
                    BY <1>1, <3>1, VaultConfigType, AddressAssumption DEF TypeInv, ConfigsValid
                <5>2. PICK q \in ConfigParams : Config(w) = ConfigRecord(q)
                    BY <5>1 DEF ConfigsGiven, Config
                <5> QED BY <5>1, <5>2 DEF ConfigRecord
            <4>3. now >= ActivationTimestamp(t, g, TRUE)
                BY <3>1, <3>7 DEF WaitsForNextWindow
            <4> HIDE DEF t, g
            <4>4. t \div g < now \div g
                BY <4>1, <4>2, <4>3, NextWindow
            <4>5. vault_period'[w][last].drip_timestamp = t
                BY <2>1, <3>1 DEF t
            <4>6. vault_period'[w][k0 - 1].drip_timestamp \div g
                     < vault_period'[w][k0].drip_timestamp \div g
                BY <2>1, <3>1, <4>4, <4>5
            <4>7. \A k \in 2 .. k0 : k = k0 \/ k \in 2 .. last
                BY <2>1
            <4>8. \A k \in 2 .. k0 :
                     vault_period'[w][k - 1].drip_timestamp \div g
                        < vault_period'[w][k].drip_timestamp \div g
                BY <3>6, <4>6, <4>7 DEF g
            <4> HIDE DEF k0
            <4> QED BY <3>1, <3>2, <3>3, <4>8 DEF g
        <3>8. CASE last = 0
            BY <3>1, <3>2, <3>3, <3>8
        <3>9. last > 0 \/ last = 0
            BY <2>1
        <3> QED BY ONLY <3>7, <3>8, <3>9, Zenon
    <2> QED BY <1>1, <2>3, <2>4, StepRecords
<1>4. WaitsForNextWindow'
    BY <1>3 DEF WaitsForNextWindow
<1>5. OneDripPerWindow'
    BY <1>3 DEF OneDripPerWindow
<1> QED BY <1>1, <1>2, <1>4, <1>5

\* No two drips of a vault fall into one window, whoever triggers them and however
\* late, if no granularity is so large that its cast to an i64 is negative.
THEOREM WindowsKept ==
    ASSUME \A q \in ConfigParams : q.granularity < Two64 \div 2
    PROVE  Spec => []OneDripPerWindow
<1>1. Init => WindowInv
    <2> SUFFICES ASSUME Init
                 PROVE  WindowInv
        OBVIOUS
    <2>1. \A v \in Vaults : vault[v].last_drip_period = 0
        BY DEF Init, InitialVault, SetWhitelistedSwaps, NoVault
    <2>2. WaitsForNextWindow /\ OneDripPerWindow
        <3>1. 2 .. 0 = {} /\ ~ (0 > 0)
            OBVIOUS
        <3> QED BY <2>1, <3>1 DEF WaitsForNextWindow, OneDripPerWindow
    <2> QED BY <2>2, InitHistory, InitConfigs DEF WindowInv
<1>2. WindowInv /\ [Next]_vars => WindowInv'
    BY StepWindows
<1>3. WindowInv => OneDripPerWindow
    BY DEF WindowInv
<1> QED BY <1>1, <1>2, <1>3, PTL DEF Spec
=============================================================================
