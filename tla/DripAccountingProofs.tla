------------------------ MODULE DripAccountingProofs ------------------------
(***************************************************************************)
(* The vault's incremental bookkeeping adds up, for any number of vaults,  *)
(* positions and periods: drip_amount and dar are the sums the swaps and   *)
(* the expiries need, the vault's token A covers what positions are owed.  *)
(***************************************************************************)
EXTENDS DripVaultProofs

\* The inductive invariant.  The two sums need each other (a drip subtracts dar
\* from drip_amount), both need the terms of the positions they range over, and
\* solvency needs them at a drip, which spends drip_amount, and when the admin
\* empties the account because drip_amount is zero.
AccountingInv ==
    /\ TypeInv
    /\ AccountsFresh
    /\ PositionTerms
    /\ DripAmountIsSumOfShares
    /\ DarIsSumOfExpiringShares
    /\ TokenASolvent
    /\ DrippedPeriodsExist

-----------------------------------------------------------------------------
(* Shares *)

\* The shares and debts of positions are natural numbers.
LEMMA ShareTypes ==
    ASSUME TypeOK, NEW v \in Vaults
    PROVE  /\ DripShares(v) \in [1 .. NumPositions -> Nat]
           /\ \A k : ExpiringShares(v, k) \in [1 .. NumPositions -> Nat]
           /\ UnspentAmounts(v) \in [1 .. NumPositions -> Nat]
<1>1. ASSUME NEW p \in Positions
      PROVE  /\ DripShare(p, v) \in Nat
             /\ \A k : ExpiryShare(p, v, k) \in Nat
             /\ UnspentA(p, v) \in Nat
    <2>1. position[p].periodic_drip_amount \in Nat /\ Expiry(p) \in Nat
        BY PositionParts
    <2>2. vault[v].last_drip_period \in Nat
        BY VaultParts, BoundAssumption DEF PeriodIds
    <2>3. DripShare(p, v) \in Nat /\ \A k : ExpiryShare(p, v, k) \in Nat
        BY <2>1 DEF DripShare, ExpiryShare
    <2>4. UnspentA(p, v) \in Nat
        <3>1. CASE Active(p, v)
            <4>1. Expiry(p) - vault[v].last_drip_period \in Nat
                BY <2>1, <2>2, <3>1 DEF Active
            <4>2. \A x, y \in Nat : x * y \in Nat
                OBVIOUS
            <4> QED BY <2>1, <3>1, <4>1, <4>2 DEF UnspentA
        <3>2. CASE ~ Active(p, v)
            BY <3>2 DEF UnspentA
        <3> QED BY <3>1, <3>2
    <2> QED BY <2>3, <2>4
<1> QED BY <1>1 DEF DripShares, ExpiringShares, UnspentAmounts, Positions

\* A step that leaves a position's terms and a vault's last drip alone leaves the
\* position's shares alone.
LEMMA SameShares ==
    ASSUME NEW p, NEW v,
           position'[p].status = "open" <=> position[p].status = "open",
           position'[p].vault = position[p].vault,
           position'[p].drip_period_id_before_deposit = position[p].drip_period_id_before_deposit,
           position'[p].number_of_swaps = position[p].number_of_swaps,
           position'[p].periodic_drip_amount = position[p].periodic_drip_amount,
           vault'[v].last_drip_period = vault[v].last_drip_period
    PROVE  /\ DripShare(p, v)' = DripShare(p, v)
           /\ \A k : ExpiryShare(p, v, k)' = ExpiryShare(p, v, k)
           /\ UnspentA(p, v)' = UnspentA(p, v)
<1>1. Active(p, v)' <=> Active(p, v)
    BY DEF Active, Expiry
<1>2. Expiry(p)' = Expiry(p)
    BY DEF Expiry
<1> QED BY <1>1, <1>2 DEF DripShare, ExpiryShare, UnspentA

\* A position that does not drip in a vault has no share in it.
LEMMA NoShares ==
    ASSUME NEW p, NEW v, ~ Active(p, v)
    PROVE  DripShare(p, v) = 0 /\ (\A k : ExpiryShare(p, v, k) = 0) /\ UnspentA(p, v) = 0
BY DEF DripShare, ExpiryShare, UnspentA

\* The same after a step.
LEMMA NoSharesNext ==
    ASSUME NEW p, NEW v, ~ Active(p, v)'
    PROVE  DripShare(p, v)' = 0 /\ (\A k : ExpiryShare(p, v, k)' = 0) /\ UnspentA(p, v)' = 0
BY DEF DripShare, ExpiryShare, UnspentA

\* A step of every instruction that touches no position's terms, no drip_amount
\* and no dar keeps the books, if it leaves enough A.
LEMMA QuietStep ==
    ASSUME AccountingInv, TypeInv', AccountsFresh',
           \A v \in Vaults :
              /\ vault'[v].last_drip_period = vault[v].last_drip_period
              /\ vault'[v].drip_amount = vault[v].drip_amount
              /\ vault[v].exists => vault'[v].exists
              /\ SumTo(UnspentAmounts(v), NumPositions) <= balance'[v]["A"],
           \A v \in Vaults : \A k \in PeriodIds :
              /\ vault_period'[v][k].dar = vault_period[v][k].dar
              /\ vault_period[v][k].exists => vault_period'[v][k].exists,
           \A p \in Positions :
              /\ position'[p].status = "open" <=> position[p].status = "open"
              /\ position'[p].vault = position[p].vault
              /\ position'[p].deposited_token_a_amount = position[p].deposited_token_a_amount
              /\ position'[p].drip_period_id_before_deposit
                    = position[p].drip_period_id_before_deposit
              /\ position'[p].number_of_swaps = position[p].number_of_swaps
              /\ position'[p].periodic_drip_amount = position[p].periodic_drip_amount
    PROVE  AccountingInv'
<1>1. ASSUME NEW v \in Vaults
      PROVE  /\ DripShares(v)' = DripShares(v)
             /\ \A k : ExpiringShares(v, k)' = ExpiringShares(v, k)
             /\ UnspentAmounts(v)' = UnspentAmounts(v)
    <2>1. \A p \in Positions :
             /\ DripShare(p, v)' = DripShare(p, v)
             /\ \A k : ExpiryShare(p, v, k)' = ExpiryShare(p, v, k)
             /\ UnspentA(p, v)' = UnspentA(p, v)
        BY SameShares
    <2> QED BY <2>1 DEF DripShares, ExpiringShares, UnspentAmounts
<1>2. PositionTerms'
    <2> SUFFICES ASSUME NEW p \in Positions, position'[p].status = "open"
                 PROVE  /\ position'[p].vault \in Vaults
                        /\ vault'[position'[p].vault].exists
                        /\ position'[p].drip_period_id_before_deposit
                              <= vault'[position'[p].vault].last_drip_period
                        /\ position'[p].periodic_drip_amount > 0
                        /\ position'[p].number_of_swaps * position'[p].periodic_drip_amount
                              <= position'[p].deposited_token_a_amount
                        /\ Expiry(p)' \in PeriodIds
                        /\ vault_period'[position'[p].vault][Expiry(p)'].exists
        BY DEF PositionTerms
    <2>1. Expiry(p)' = Expiry(p)
        BY DEF Expiry
    <2> QED BY <2>1 DEF AccountingInv, PositionTerms
<1>3. DripAmountIsSumOfShares'
    BY <1>1 DEF AccountingInv, DripAmountIsSumOfShares
<1>4. DarIsSumOfExpiringShares'
    BY <1>1 DEF AccountingInv, DarIsSumOfExpiringShares
<1>5. TokenASolvent'
    BY <1>1 DEF TokenASolvent
<1>6. DrippedPeriodsExist'
    <2>1. \A v \in Vaults : 0 .. vault[v].last_drip_period \subseteq PeriodIds
        BY VaultParts, BoundAssumption DEF PeriodIds, AccountingInv, TypeInv
    <2> QED BY <2>1 DEF AccountingInv, DrippedPeriodsExist
<1> QED BY <1>2, <1>3, <1>4, <1>5, <1>6 DEF AccountingInv

\* A vault whose drip_amount is zero owes no position any A: what lets the admin
\* empty its token account.
LEMMA NothingUnspent ==
    ASSUME AccountingInv, NEW v \in Vaults, vault[v].drip_amount = 0
    PROVE  SumTo(UnspentAmounts(v), NumPositions) = 0
<1>1. /\ DripShares(v) \in [1 .. NumPositions -> Nat]
      /\ UnspentAmounts(v) \in [1 .. NumPositions -> Nat]
    BY ShareTypes DEF AccountingInv, TypeInv
<1>2. SumTo(DripShares(v), NumPositions) = 0
    BY DEF AccountingInv, DripAmountIsSumOfShares
<1>3. ASSUME NEW p \in 1 .. NumPositions
      PROVE  UnspentAmounts(v)[p] = 0
    <2>1. DripShares(v)[p] = 0
        <3>1. DripShares(v)[p] <= 0 /\ DripShares(v)[p] \in Nat
            BY <1>1, <1>2, AddressAssumption, SumBounds
        <3> QED BY <3>1
    <2>2. DripShare(p, v) = 0
        BY <2>1 DEF DripShares, Positions
    <2>3. UnspentA(p, v) = 0
        <3>1. CASE Active(p, v)
            <4>1. position[p].periodic_drip_amount = 0
                BY <2>2, <3>1 DEF DripShare
            <4>2. Expiry(p) \in Nat /\ vault[v].last_drip_period \in Nat
                BY PositionParts, VaultParts, BoundAssumption
                   DEF AccountingInv, TypeInv, Positions, PeriodIds
            <4> QED BY <3>1, <4>1, <4>2 DEF UnspentA
        <3>2. CASE ~ Active(p, v)
            BY <3>2, NoShares
        <3> QED BY <3>1, <3>2
    <2> QED BY <2>3 DEF UnspentAmounts, Positions
<1>4. UnspentAmounts(v) \in [1 .. NumPositions -> Int]
    BY <1>1
<1> QED BY <1>3, <1>4, AddressAssumption, SumZero

\* Creating accounts, setting a whitelist, passing on an NFT and the clock touch no
\* position's terms, no drip_amount and no dar (a new period's dar is zero already).
LEMMA QuietSteps ==
    ASSUME AccountingInv
    PROVE  /\ \A c \in Configs, params \in ConfigParams :
                InitVaultProtoConfig(c, params) => AccountingInv'
           /\ \A v \in Vaults, admin \in Signers, list \in WhitelistParams :
                InitVault(v, admin, list) \/ SetVaultSwapWhitelist(v, admin, list)
                    => AccountingInv'
           /\ \A v \in Vaults, k \in PeriodIds : InitVaultPeriod(v, k) => AccountingInv'
           /\ \A p \in Positions, to \in Users : TransferNft(p, to) => AccountingInv'
           /\ Tick \/ UNCHANGED vars => AccountingInv'
<1> USE DEF AccountingInv
<1>0. \A v \in Vaults : SumTo(UnspentAmounts(v), NumPositions) <= balance[v]["A"]
    BY DEF TokenASolvent
<1>1. ASSUME NEW c \in Configs, NEW params \in ConfigParams, InitVaultProtoConfig(c, params)
      PROVE  AccountingInv'
    <2>1. TypeInv'
        BY <1>1, SetUpTypes
    <2> QED BY <1>0, <1>1, <2>1, QuietStep DEF InitVaultProtoConfig, AccountsFresh
<1>2. ASSUME NEW v \in Vaults, NEW admin \in Signers, NEW list \in WhitelistParams,
             InitVault(v, admin, list)
      PROVE  AccountingInv'
    <2>1. TypeInv'
        BY <1>2, SetUpTypes
    <2>2. \A w \in Vaults :
             /\ vault'[w].last_drip_period = vault[w].last_drip_period
             /\ vault'[w].drip_amount = vault[w].drip_amount
             /\ vault[w].exists => vault'[w].exists
        BY <1>2 DEF InitVault, InitialVault, SetWhitelistedSwaps, NoVault, AccountsFresh,
                    TypeInv, TypeOK
    <2>3. AccountsFresh'
        BY <1>2, <2>2 DEF InitVault, AccountsFresh
    <2> QED BY <1>0, <1>2, <2>1, <2>2, <2>3, QuietStep DEF InitVault
<1>3. ASSUME NEW v \in Vaults, NEW admin \in Signers, NEW list \in WhitelistParams,
             SetVaultSwapWhitelist(v, admin, list)
      PROVE  AccountingInv'
    <2>1. TypeInv'
        BY <1>3, SetUpTypes
    <2>2. \A w \in Vaults :
             /\ vault'[w].last_drip_period = vault[w].last_drip_period
             /\ vault'[w].drip_amount = vault[w].drip_amount
             /\ vault'[w].exists = vault[w].exists
        <3>1. vault[v] \in VaultType
            BY VaultParts DEF TypeInv
        <3> QED BY <1>3, <3>1 DEF SetVaultSwapWhitelist, SetWhitelistedSwaps, VaultType,
                           TypeInv, TypeOK
    <2>3. AccountsFresh'
        BY <1>3, <2>2 DEF SetVaultSwapWhitelist, AccountsFresh
    <2> QED BY <1>0, <1>3, <2>1, <2>2, <2>3, QuietStep DEF SetVaultSwapWhitelist
<1>4. ASSUME NEW v \in Vaults, NEW k \in PeriodIds, InitVaultPeriod(v, k)
      PROVE  AccountingInv'
    <2>1. TypeInv'
        BY <1>4, SetUpTypes
    <2>2. \A w \in Vaults : \A m \in PeriodIds :
             vault_period'[w][m] = IF w = v /\ m = k
                                   THEN [NoPeriod EXCEPT !.exists = TRUE]
                                   ELSE vault_period[w][m]
        <3>1. \A w \in Vaults : vault_period[w] \in [PeriodIds -> PeriodType]
            BY VaultParts DEF TypeInv
        <3> QED BY <1>4, <3>1 DEF InitVaultPeriod, TypeInv, TypeOK
    <2>3. vault_period[v][k].dar = 0 /\ ~ vault_period[v][k].exists
        BY <1>4 DEF InitVaultPeriod, AccountsFresh
    <2>4. \A w \in Vaults : \A m \in PeriodIds :
             /\ vault_period'[w][m].dar = vault_period[w][m].dar
             /\ vault_period[w][m].exists => vault_period'[w][m].exists
        BY <2>2, <2>3 DEF NoPeriod
    <2>5. AccountsFresh'
        BY <1>4, <2>2, <2>4 DEF InitVaultPeriod, AccountsFresh
    <2> QED BY <1>0, <1>4, <2>1, <2>4, <2>5, QuietStep DEF InitVaultPeriod
<1>5. ASSUME NEW p \in Positions, NEW to \in Users, TransferNft(p, to)
      PROVE  AccountingInv'
    <2>1. TypeInv'
        BY <1>5, OtherTypes
    <2> QED BY <1>0, <1>5, <2>1, QuietStep DEF TransferNft, AccountsFresh
<1>6. ASSUME Tick \/ UNCHANGED vars
      PROVE  AccountingInv'
    <2>1. TypeInv'
        BY <1>6, OtherTypes
    <2> QED BY <1>0, <1>6, <2>1, QuietStep DEF Tick, vars, AccountsFresh
<1> QED BY <1>1, <1>2, <1>3, <1>4, <1>5, <1>6

\* Neither does a withdrawal: B is not in the books, and the admin takes A only
\* when drip_amount is zero, when nobody has unspent A (NothingUnspent).
LEMMA QuietWithdrawals ==
    ASSUME AccountingInv
    PROVE  /\ \A v \in Vaults, p \in Positions, withdrawer \in Signers :
                \A i, j \in PeriodAccounts : WithdrawB(p, v, withdrawer, i, j) => AccountingInv'
           /\ \A v \in Vaults, admin \in Signers, token \in Tokens, to \in PayoutAccounts :
                EmptyTokenAccount(v, admin, token, to) => AccountingInv'
           /\ \A v \in Vaults, admin \in Signers, p \in Positions :
                ClosePositionAccount(p, v, admin) => AccountingInv'
<1> USE DEF AccountingInv
<1>0. \A v \in Vaults : SumTo(UnspentAmounts(v), NumPositions) <= balance[v]["A"]
    BY DEF TokenASolvent
<1>1. ASSUME NEW v \in Vaults, NEW p \in Positions, NEW withdrawer \in Signers,
             NEW i \in PeriodAccounts, NEW j \in PeriodAccounts,
             WithdrawB(p, v, withdrawer, i, j)
      PROVE  AccountingInv'
    <2>1. TypeInv'
        BY <1>1, WithdrawBType
    <2>2. \A w \in Vaults : balance'[w]["A"] = balance[w]["A"]
        BY <1>1, WithdrawBType DEF SpentAtMost, Tokens
    <2>3. \A q \in Positions :
             /\ position'[q].status = position[q].status
             /\ position'[q].vault = position[q].vault
             /\ position'[q].deposited_token_a_amount = position[q].deposited_token_a_amount
             /\ position'[q].drip_period_id_before_deposit
                   = position[q].drip_period_id_before_deposit
             /\ position'[q].number_of_swaps = position[q].number_of_swaps
             /\ position'[q].periodic_drip_amount = position[q].periodic_drip_amount
        <3>1. \A q \in Positions : position[q] \in PositionType
            BY PositionParts DEF TypeInv
        <3> QED BY <1>1, <3>1 DEF WithdrawB, TypeInv, TypeOK, PositionType
    <2> QED BY <1>0, <1>1, <2>1, <2>2, <2>3, QuietStep DEF WithdrawB, AccountsFresh
<1>2. ASSUME NEW v \in Vaults, NEW admin \in Signers, NEW token \in Tokens,
             NEW to \in PayoutAccounts, EmptyTokenAccount(v, admin, token, to)
      PROVE  AccountingInv'
    <2>1. TypeInv'
        BY <1>2, OtherTypes
    <2>2. /\ \A w \in Vaults : w # v => balance'[w]["A"] >= balance[w]["A"]
          /\ \A w \in Vaults : balance[w]["A"] \in Nat /\ balance'[w]["A"] \in Nat
        <3>1. /\ balance \in Balances /\ balance' \in Balances
              /\ SpentAtMost(balance, balance', v, token, balance[v][token])
            BY <1>2, EmptiedFacts DEF TypeInv, TypeOK, Balances
        <3>2. \A w \in Vaults : balance[w]["A"] \in Nat /\ balance'[w]["A"] \in Nat
            BY <3>1, BalanceNat DEF Tokens
        <3> QED BY <3>1, <3>2 DEF SpentAtMost, Tokens
    <2>3. SumTo(UnspentAmounts(v), NumPositions) = 0
        BY <1>2, NothingUnspent DEF EmptyTokenAccount
    <2>4. \A w \in Vaults : SumTo(UnspentAmounts(w), NumPositions) <= balance'[w]["A"]
        <3>1. \A w \in Vaults : SumTo(UnspentAmounts(w), NumPositions) \in Nat
            BY ShareTypes, SumType, AddressAssumption DEF TypeInv
        <3> QED BY <1>0, <2>2, <2>3, <3>1
    <2> QED BY <1>2, <2>1, <2>4, QuietStep DEF EmptyTokenAccount, AccountsFresh
<1>3. ASSUME NEW v \in Vaults, NEW admin \in Signers, NEW p \in Positions,
             ClosePositionAccount(p, v, admin)
      PROVE  AccountingInv'
    <2>1. TypeInv'
        BY <1>3, OtherTypes
    <2>2. \A q \in Positions :
             /\ position'[q].status = "open" <=> position[q].status = "open"
             /\ position'[q].vault = position[q].vault
             /\ position'[q].deposited_token_a_amount = position[q].deposited_token_a_amount
             /\ position'[q].drip_period_id_before_deposit
                   = position[q].drip_period_id_before_deposit
             /\ position'[q].number_of_swaps = position[q].number_of_swaps
             /\ position'[q].periodic_drip_amount = position[q].periodic_drip_amount
        <3>1. \A q \in Positions : position[q] \in PositionType
            BY PositionParts DEF TypeInv
        <3> QED BY <1>3, <3>1 DEF ClosePositionAccount, TypeInv, TypeOK, PositionType
    <2> QED BY <1>0, <1>3, <2>1, <2>2, QuietStep DEF ClosePositionAccount, AccountsFresh
<1> QED BY <1>1, <1>2, <1>3

-----------------------------------------------------------------------------
(* Deposit and close: one position's shares change *)

\* A step that changes the shares of one position changes the sums by as much.
LEMMA OneShareChanges ==
    ASSUME TypeOK, NEW p \in Positions, NEW w \in Vaults,
           \A q \in Positions : q # p => DripShare(q, w)' = DripShare(q, w),
           \A q \in Positions : q # p => \A k : ExpiryShare(q, w, k)' = ExpiryShare(q, w, k),
           \A q \in Positions : q # p => UnspentA(q, w)' = UnspentA(q, w),
           DripShare(p, w)' \in Nat, \A k : ExpiryShare(p, w, k)' \in Nat,
           UnspentA(p, w)' \in Nat
    PROVE  /\ SumTo(DripShares(w)', NumPositions)
                = SumTo(DripShares(w), NumPositions) + (DripShare(p, w)' - DripShare(p, w))
           /\ \A k : SumTo(ExpiringShares(w, k)', NumPositions)
                = SumTo(ExpiringShares(w, k), NumPositions)
                    + (ExpiryShare(p, w, k)' - ExpiryShare(p, w, k))
           /\ SumTo(UnspentAmounts(w)', NumPositions)
                = SumTo(UnspentAmounts(w), NumPositions) + (UnspentA(p, w)' - UnspentA(p, w))
<1> USE AddressAssumption
<1>1. /\ DripShares(w) \in [1 .. NumPositions -> Nat]
      /\ \A k : ExpiringShares(w, k) \in [1 .. NumPositions -> Nat]
      /\ UnspentAmounts(w) \in [1 .. NumPositions -> Nat]
    BY ShareTypes
<1>2. ASSUME NEW f \in [1 .. NumPositions -> Nat], NEW x \in Nat, NEW g,
             g = [q \in Positions |-> IF q = p THEN x ELSE f[q]]
      PROVE  SumTo(g, NumPositions) = SumTo(f, NumPositions) + (x - f[p])
    <2>1. g \in [1 .. NumPositions -> Int] /\ g[p] = x
        BY <1>2 DEF Positions
    <2>2. f \in [1 .. NumPositions -> Int]
        OBVIOUS
    <2>3. p \in 1 .. NumPositions
        BY DEF Positions
    <2>4. \A k \in 1 .. NumPositions : k # p => g[k] = f[k]
        BY <1>2 DEF Positions
    <2>5. SumTo(g, NumPositions) = SumTo(f, NumPositions) + (g[p] - f[p])
        <3>1. NumPositions \in Nat
            OBVIOUS
        <3> QED BY ONLY <2>1, <2>2, <2>3, <2>4, <3>1, SumUpdate, Zenon
    <2> QED BY <2>1, <2>5
<1>3. DripShares(w)[p] = DripShare(p, w) /\ UnspentAmounts(w)[p] = UnspentA(p, w)
    BY DEF DripShares, UnspentAmounts
<1>4. DripShares(w)' = [q \in Positions |-> IF q = p THEN DripShare(p, w)' ELSE DripShares(w)[q]]
    BY DEF DripShares
<1>5. UnspentAmounts(w)'
        = [q \in Positions |-> IF q = p THEN UnspentA(p, w)' ELSE UnspentAmounts(w)[q]]
    BY DEF UnspentAmounts
<1>6. ASSUME NEW k
      PROVE  SumTo(ExpiringShares(w, k)', NumPositions)
                = SumTo(ExpiringShares(w, k), NumPositions)
                    + (ExpiryShare(p, w, k)' - ExpiryShare(p, w, k))
    <2>1. ExpiringShares(w, k)[p] = ExpiryShare(p, w, k)
        BY DEF ExpiringShares
    <2>2. ExpiringShares(w, k)' =
             [q \in Positions |->
                 IF q = p THEN ExpiryShare(p, w, k)' ELSE ExpiringShares(w, k)[q]]
        BY DEF ExpiringShares
    <2> QED BY <1>1, <1>2, <2>1, <2>2
<1> QED BY <1>1, <1>2, <1>3, <1>4, <1>5, <1>6

\* A deposit adds the new position's periodic amount to drip_amount and to the dar
\* of the period it expires in, and at least its unspent A to the token account.
LEMMA DepositAccounting ==
    ASSUME AccountingInv, NEW p \in Positions, NEW v \in Vaults, NEW depositor \in Users,
           NEW end \in PeriodAccounts, NEW amount \in DepositAmounts, NEW n \in SwapCounts,
           Deposit(p, v, depositor, end, amount, n)
    PROVE  AccountingInv'
<1> DEFINE per == PeriodicDripAmount(amount, n)
           last == vault[v].last_drip_period
<1> USE DEF AccountingInv
<1>1. TypeInv'
    BY DepositType
<1>2. /\ n \in Nat \ {0} /\ amount \in Nat /\ per \in Nat /\ per > 0 /\ n * per <= amount
      /\ n * per \in Nat
    <2>1. n \in Nat \ {0} /\ amount \in Nat
        BY BoundAssumption, CheckedAmounts DEF Deposit
    <2>2. per \in Nat /\ n * per <= amount
        BY <2>1, PeriodicDripAmountBounds
    <2>3. per > 0
        BY DEF Deposit
    <2> QED BY <2>1, <2>2, <2>3
<1>3. /\ last \in Nat /\ end.vault = v /\ end.period_id = last + n
      /\ last + n \in PeriodIds /\ vault_period[v][last + n].exists
    <2>1. last \in Nat
        BY VaultParts, BoundAssumption DEF TypeInv, PeriodIds
    <2> QED BY <2>1, PeriodAccountType DEF Deposit, IsPeriod, TypeInv, Data
<1>4. /\ position[p].status = "none"
      /\ position' = [position EXCEPT ![p] =
           [status |-> "open", vault |-> v, deposited_token_a_amount |-> amount,
            withdrawn_token_b_amount |-> 0, drip_period_id_before_deposit |-> last,
            number_of_swaps |-> n, periodic_drip_amount |-> per]]
    BY DEF Deposit, FreshMint
<1> HIDE DEF per
<1>5. /\ position'[p].status = "open" /\ position'[p].vault = v
      /\ position'[p].deposited_token_a_amount = amount
      /\ position'[p].drip_period_id_before_deposit = last
      /\ position'[p].number_of_swaps = n /\ position'[p].periodic_drip_amount = per
      /\ Expiry(p)' = last + n
      /\ \A q \in Positions : q # p => position'[q] = position[q]
    BY <1>4 DEF TypeInv, TypeOK, Expiry
<1>6. \A w \in Vaults :
         /\ vault'[w].last_drip_period = vault[w].last_drip_period
         /\ vault'[w].exists = vault[w].exists
         /\ vault'[w].drip_amount = IF w = v THEN vault[v].drip_amount + per
                                             ELSE vault[w].drip_amount
    <2>1. \A w \in Vaults : vault[w] \in VaultType
        BY VaultParts DEF TypeInv
    <2> QED BY <2>1 DEF Deposit, per, TypeInv, TypeOK, VaultType
<1>7. \A w \in Vaults : \A k \in PeriodIds :
         vault_period'[w][k] = IF w = v /\ k = last + n
                               THEN [vault_period[v][k] EXCEPT !.dar = @ + per]
                               ELSE vault_period[w][k]
    <2>1. vault_period' = [vault_period EXCEPT ![v][last + n].dar = @ + per]
        BY <1>3 DEF Deposit, per
    <2>2. \A w \in Vaults : vault_period[w] \in [PeriodIds -> PeriodType]
        BY VaultParts DEF TypeInv
    <2> HIDE DEF last
    <2> QED BY <1>3, <2>1, <2>2 DEF TypeInv, TypeOK
<1>8. \A w \in Vaults : \A k \in PeriodIds :
         /\ vault_period'[w][k].exists = vault_period[w][k].exists
         /\ vault_period'[w][k].dar = IF w = v /\ k = last + n THEN vault_period[v][k].dar + per
                                                               ELSE vault_period[w][k].dar
    <2>1. \A w \in Vaults : \A k \in PeriodIds : vault_period[w][k] \in PeriodType
        BY VaultParts DEF TypeInv
    <2>2. ASSUME NEW r \in PeriodType
          PROVE  /\ [r EXCEPT !.dar = @ + per].exists = r.exists
                 /\ [r EXCEPT !.dar = @ + per].dar = r.dar + per
        BY DEF PeriodType
    <2> HIDE DEF last
    <2>3. vault_period[v][last + n] \in PeriodType
        BY <1>3, <2>1
    <2> SUFFICES ASSUME NEW w \in Vaults, NEW k \in PeriodIds
                 PROVE  /\ vault_period'[w][k].exists = vault_period[w][k].exists
                        /\ vault_period'[w][k].dar =
                              IF w = v /\ k = last + n THEN vault_period[v][k].dar + per
                                                       ELSE vault_period[w][k].dar
        OBVIOUS
    <2>4. CASE w = v /\ k = last + n
        <3>1. vault_period'[w][k] = [vault_period[v][last + n] EXCEPT !.dar = @ + per]
            BY <1>7, <2>4
        <3> QED BY <2>2, <2>3, <2>4, <3>1
    <2>5. CASE ~ (w = v /\ k = last + n)
        BY <1>7, <2>5
    <2> QED BY <2>4, <2>5
<1>9. ASSUME NEW w \in Vaults
      PROVE  /\ DripShare(p, w) = 0 /\ UnspentA(p, w) = 0 /\ \A k : ExpiryShare(p, w, k) = 0
             /\ DripShare(p, w)' = IF w = v THEN per ELSE 0
             /\ \A k : ExpiryShare(p, w, k)' = IF w = v /\ k = last + n THEN per ELSE 0
             /\ UnspentA(p, w)' = IF w = v THEN n * per ELSE 0
    <2>1. ~ Active(p, w)
        BY <1>4 DEF Active
    <2>2. CASE w = v
        <3>1. Active(p, w)' /\ vault'[w].last_drip_period = last
            BY <1>2, <1>3, <1>5, <1>6, <2>2 DEF Active
        <3>2. (last + n) - last = n
            BY <1>2, <1>3
        <3> HIDE DEF last
        <3> QED BY <1>5, <2>1, <2>2, <3>1, <3>2, NoShares DEF DripShare, ExpiryShare, UnspentA
    <2>3. CASE w # v
        <3>1. ~ Active(p, w)'
            BY <1>5, <2>3 DEF Active
        <3> QED BY <2>1, <2>3, <3>1, NoShares, NoSharesNext
    <2> QED BY <2>2, <2>3
<1>10. ASSUME NEW w \in Vaults
       PROVE  \A q \in Positions : q # p =>
                 /\ DripShare(q, w)' = DripShare(q, w)
                 /\ \A k : ExpiryShare(q, w, k)' = ExpiryShare(q, w, k)
                 /\ UnspentA(q, w)' = UnspentA(q, w)
    <2>1. \A q \in Positions : q # p => position'[q] = position[q]
        BY <1>5
    <2>2. vault'[w].last_drip_period = vault[w].last_drip_period
        BY <1>6
    <2>3. ASSUME NEW q \in Positions, q # p
          PROVE  /\ DripShare(q, w)' = DripShare(q, w)
                 /\ \A k : ExpiryShare(q, w, k)' = ExpiryShare(q, w, k)
                 /\ UnspentA(q, w)' = UnspentA(q, w)
        <3>1. position'[q] = position[q]
            BY <2>1, <2>3
        <3> QED BY <2>2, <3>1, SameShares
    <2> QED BY <2>3
<1> HIDE DEF last
<1>11. ASSUME NEW w \in Vaults
       PROVE  /\ SumTo(DripShares(w)', NumPositions)
                   = SumTo(DripShares(w), NumPositions) + (IF w = v THEN per ELSE 0)
              /\ \A k : SumTo(ExpiringShares(w, k)', NumPositions)
                   = SumTo(ExpiringShares(w, k), NumPositions)
                       + (IF w = v /\ k = last + n THEN per ELSE 0)
              /\ SumTo(UnspentAmounts(w)', NumPositions)
                   = SumTo(UnspentAmounts(w), NumPositions) + (IF w = v THEN n * per ELSE 0)
    <2>1. /\ DripShare(p, w)' \in Nat /\ UnspentA(p, w)' \in Nat
          /\ \A k : ExpiryShare(p, w, k)' \in Nat
        BY <1>2, <1>9
    <2> DEFINE np == n * per
    <2>2. np \in Nat
        BY <1>2
    <2>3. \A x \in Nat : x - 0 = x
        OBVIOUS
    <2>4. \A k : ExpiryShare(p, w, k)' - ExpiryShare(p, w, k)
                    = IF w = v /\ k = last + n THEN per ELSE 0
        BY <1>2, <1>9, <2>3
    <2>5. DripShare(p, w)' - DripShare(p, w) = IF w = v THEN per ELSE 0
        BY <1>2, <1>9, <2>3
    <2>6. UnspentA(p, w)' - UnspentA(p, w) = IF w = v THEN np ELSE 0
        BY <1>9, <2>2, <2>3
    <2> QED BY <1>10, <2>1, <2>4, <2>5, <2>6, OneShareChanges DEF TypeInv
<1>12. AccountsFresh'
    BY <1>3, <1>6, <1>8 DEF AccountsFresh, Deposit
<1>13. PositionTerms'
    <2> SUFFICES ASSUME NEW q \in Positions, position'[q].status = "open"
                 PROVE  /\ position'[q].vault \in Vaults
                        /\ vault'[position'[q].vault].exists
                        /\ position'[q].drip_period_id_before_deposit
                              <= vault'[position'[q].vault].last_drip_period
                        /\ position'[q].periodic_drip_amount > 0
                        /\ position'[q].number_of_swaps * position'[q].periodic_drip_amount
                              <= position'[q].deposited_token_a_amount
                        /\ Expiry(q)' \in PeriodIds
                        /\ vault_period'[position'[q].vault][Expiry(q)'].exists
        BY DEF PositionTerms
    <2>1. CASE q = p
        <3>1. vault[v].exists
            BY DEF Deposit
        <3>2. last <= vault'[v].last_drip_period
            BY <1>3, <1>6 DEF last
        <3> QED BY <1>2, <1>3, <1>5, <1>6, <1>8, <2>1, <3>1, <3>2
    <2>2. CASE q # p
        <3>1. Expiry(q)' = Expiry(q)
            BY <1>5, <2>2 DEF Expiry
        <3> QED BY <1>5, <1>6, <1>8, <2>2, <3>1 DEF PositionTerms
    <2> QED BY <2>1, <2>2
<1>14. DripAmountIsSumOfShares'
    <2> SUFFICES ASSUME NEW w \in Vaults
                 PROVE  vault'[w].drip_amount = SumTo(DripShares(w)', NumPositions)
        BY DEF DripAmountIsSumOfShares
    <2>1. vault[w].drip_amount = SumTo(DripShares(w), NumPositions)
        BY DEF DripAmountIsSumOfShares
    <2>2. vault[w].drip_amount \in Nat
        BY VaultParts, CheckedAmounts DEF TypeInv
    <2> QED BY <1>2, <1>6, <1>11, <2>1, <2>2
<1>15. DarIsSumOfExpiringShares'
    <2> SUFFICES ASSUME NEW w \in Vaults, NEW k \in PeriodIds, k > vault'[w].last_drip_period
                 PROVE  vault_period'[w][k].dar = SumTo(ExpiringShares(w, k)', NumPositions)
        BY DEF DarIsSumOfExpiringShares
    <2>1. vault_period[w][k].dar = SumTo(ExpiringShares(w, k), NumPositions)
        BY <1>6 DEF DarIsSumOfExpiringShares
    <2>2. vault_period[w][k].dar \in Nat
        BY VaultParts, CheckedAmounts DEF TypeInv, PeriodType
    <2>3. vault_period[w][k].dar + 0 = vault_period[w][k].dar
        BY <2>2
    <2> QED BY <1>8, <1>11, <2>1, <2>3
<1>16. TokenASolvent'
    <2> SUFFICES ASSUME NEW w \in Vaults
                 PROVE  SumTo(UnspentAmounts(w)', NumPositions) <= balance'[w]["A"]
        BY DEF TokenASolvent
    <2> DEFINE np == n * per
    <2>1. np \in Nat /\ np <= amount
        BY <1>2
    <2>2. balance'[w]["A"] = IF w = v THEN balance[w]["A"] + amount ELSE balance[w]["A"]
        <3>1. balance[w] \in [Tokens -> Amount]
            BY VaultParts DEF TypeInv
        <3> QED BY <3>1 DEF Deposit, TypeInv, TypeOK, Tokens
    <2>3. SumTo(UnspentAmounts(w), NumPositions) <= balance[w]["A"]
        BY DEF TokenASolvent
    <2>4. SumTo(UnspentAmounts(w), NumPositions) \in Nat /\ balance[w]["A"] \in Nat
        BY AddressAssumption, ShareTypes, SumType, VaultParts, CheckedAmounts DEF TypeInv
    <2>5. SumTo(UnspentAmounts(w)', NumPositions)
             = SumTo(UnspentAmounts(w), NumPositions) + (IF w = v THEN np ELSE 0)
        BY <1>11
    <2> HIDE DEF np
    <2> QED BY <1>2, <2>1, <2>2, <2>3, <2>4, <2>5
<1>17. DrippedPeriodsExist'
    <2>1. \A w \in Vaults : 0 .. vault[w].last_drip_period \subseteq PeriodIds
        BY VaultParts, BoundAssumption DEF PeriodIds, TypeInv
    <2> QED BY <1>6, <1>8, <2>1 DEF DrippedPeriodsExist
<1> QED BY <1>1, <1>12, <1>13, <1>14, <1>15, <1>16, <1>17

\* What a close refunds is what the position has not spent.
LEMMA RefundIsUnspent ==
    ASSUME TypeInv, PositionTerms, NEW p \in Positions, NEW v \in Vaults,
           NEW i \in PeriodAccounts, NEW j \in PeriodAccounts, ValidWithdrawal(p, v, i, j)
    PROVE  WithdrawTokenA(i.period_id, j.period_id, position[p].number_of_swaps,
                          position[p].periodic_drip_amount) = UnspentA(p, v)
<1> DEFINE per  == position[p].periodic_drip_amount
           last == vault[v].last_drip_period
           n    == position[p].number_of_swaps
           i0   == position[p].drip_period_id_before_deposit
           a    == WithdrawTokenA(i.period_id, j.period_id, n, per)
<1>1. per \in Nat /\ last \in Nat /\ n \in Nat /\ i0 \in Nat /\ Expiry(p) = i0 + n
    BY PositionParts, VaultParts, BoundAssumption DEF TypeInv, PeriodIds, Expiry
<1>2. /\ position[p].status = "open" /\ position[p].vault = v
      /\ i.period_id = i0 /\ j.period_id = LastDripOf(p, v)
    BY DEF ValidWithdrawal, IsPeriod
<1>3. i0 <= last
    BY <1>2 DEF PositionTerms
<1>4. Active(p, v) <=> last < Expiry(p)
    BY <1>2 DEF Active
<1>5. CASE last < Expiry(p)
    <2>1. j.period_id = last
        BY <1>2, <1>5 DEF LastDripOf
    <2>2. ~ (n <= last - i0) /\ n - (last - i0) = Expiry(p) - last
        BY <1>1, <1>3, <1>5
    <2>3. a = (n - (last - i0)) * per
        BY <1>2, <2>1, <2>2 DEF WithdrawTokenA
    <2> HIDE DEF a, per, n, i0, last
    <2>4. UnspentA(p, v) = (Expiry(p) - last) * per
        BY <1>4, <1>5 DEF UnspentA, per, last
    <2>5. a = UnspentA(p, v)
        BY <2>2, <2>3, <2>4
    <2> QED BY <2>5 DEF a, n, per
<1>6. CASE ~ (last < Expiry(p))
    <2>1. j.period_id = Expiry(p)
        BY <1>2, <1>6 DEF LastDripOf
    <2>2. n <= Expiry(p) - i0
        BY <1>1
    <2>3. a = 0
        BY <1>2, <2>1, <2>2 DEF WithdrawTokenA
    <2> QED BY <1>4, <1>6, <2>3, NoShares
<1> QED BY <1>5, <1>6

\* What the close of a position changes: the vault's books lose exactly the
\* position's shares, and its token A account at most what the position had not spent,
\* exactly that where nobody has A paid to a vault.
LEMMA CloseEffects ==
    ASSUME AccountingInv, NEW p \in Positions, NEW v \in Vaults, NEW withdrawer \in Signers,
           NEW i \in PeriodAccounts, NEW j \in PeriodAccounts, NEW expiry \in PeriodAccounts,
           ClosePosition(p, v, withdrawer, i, j, expiry)
    PROVE  /\ \A w \in Vaults :
                /\ vault'[w].last_drip_period = vault[w].last_drip_period
                /\ vault'[w].exists = vault[w].exists
                /\ vault'[w].drip_amount = vault[w].drip_amount - DripShare(p, w)
                /\ balance'[w]["A"] >= balance[w]["A"] - UnspentA(p, w)
                /\ (\A x \in Vaults : <<x, "A">> \notin Destinations) =>
                      balance'[w]["A"] = balance[w]["A"] - UnspentA(p, w)
           /\ \A w \in Vaults : \A k \in PeriodIds :
                /\ vault_period'[w][k].exists = vault_period[w][k].exists
                /\ vault_period'[w][k].dar = vault_period[w][k].dar - ExpiryShare(p, w, k)
<1> DEFINE per  == position[p].periodic_drip_amount
           last == vault[v].last_drip_period
           n    == position[p].number_of_swaps
           i0   == position[p].drip_period_id_before_deposit
           a    == WithdrawTokenA(i.period_id, j.period_id, n, per)
<1> USE DEF AccountingInv
<1>1. per \in Nat /\ last \in Nat /\ n \in Nat /\ i0 \in Nat /\ Expiry(p) = i0 + n
    BY PositionParts, VaultParts, BoundAssumption DEF TypeInv, PeriodIds, Expiry
<1>2. /\ position[p].status = "open" /\ position[p].vault = v
      /\ i.period_id = i0 /\ j.period_id = LastDripOf(p, v)
      /\ expiry.vault = v /\ expiry.period_id = Expiry(p)
    BY DEF ClosePosition, ValidWithdrawal, IsPeriod
<1>3. i0 <= last /\ Expiry(p) \in PeriodIds
    BY <1>2 DEF PositionTerms
<1>4. /\ \A w \in Vaults : balance'[w]["A"] >= balance[w]["A"] - (IF w = v THEN a ELSE 0)
      /\ (\A x \in Vaults : <<x, "A">> \notin Destinations) =>
            \A w \in Vaults : balance'[w]["A"] = balance[w]["A"] - (IF w = v THEN a ELSE 0)
    BY CloseSpends
<1>5. Active(p, v) <=> last < Expiry(p)
    BY <1>2 DEF Active
<1>6. \A w \in Vaults : w # v => ~ Active(p, w)
    BY <1>2 DEF Active
<1>7. /\ \A w \in Vaults : vault[w] \in VaultType
      /\ \A w \in Vaults : vault_period[w] \in [PeriodIds -> PeriodType]
      /\ \A w \in Vaults : \A k \in PeriodIds : vault_period[w][k] \in PeriodType
      /\ \A w \in Vaults : balance[w] \in [Tokens -> Amount]
    BY VaultParts DEF TypeInv
<1>8. /\ \A w \in Vaults : \A k \in PeriodIds :
            vault_period[w][k].dar \in Nat
      /\ \A w \in Vaults : vault[w].drip_amount \in Nat /\ balance[w]["A"] \in Nat
    BY <1>7, VaultParts, CheckedAmounts DEF PeriodType, TypeInv
<1>9. a = UnspentA(p, v)
    BY RefundIsUnspent DEF ClosePosition
<1> HIDE DEF a
<1>10. \A w \in Vaults :
          /\ balance'[w]["A"] >= balance[w]["A"] - UnspentA(p, w)
          /\ (\A x \in Vaults : <<x, "A">> \notin Destinations) =>
                balance'[w]["A"] = balance[w]["A"] - UnspentA(p, w)
    <2>1. \A w \in Vaults : w # v => UnspentA(p, w) = 0
        BY <1>6, NoShares
    <2>2. \A w \in Vaults : (IF w = v THEN a ELSE 0) = UnspentA(p, w)
        BY <1>9, <2>1
    <2> QED BY <1>4, <2>2
<1>11. CASE last < Expiry(p)
    <2>1. j.period_id < expiry.period_id
        BY <1>2, <1>11 DEF LastDripOf
    <2>2. vault' = [vault EXCEPT ![v].drip_amount = @ - per]
        BY <2>1 DEF ClosePosition, ReduceDrip
    <2>3. vault_period' = [vault_period EXCEPT ![v][Expiry(p)].dar = @ - per]
        BY <1>2, <2>1 DEF ClosePosition, ReduceDrip
    <2>4. DripShare(p, v) = per /\ \A k : ExpiryShare(p, v, k) = IF Expiry(p) = k THEN per ELSE 0
        BY <1>5, <1>11 DEF DripShare, ExpiryShare
    <2>5. \A w \in Vaults : w # v => DripShare(p, w) = 0 /\ \A k : ExpiryShare(p, w, k) = 0
        BY <1>6, NoShares
    <2> HIDE DEF per, last
    <2>6. ASSUME NEW w \in Vaults
          PROVE  /\ vault'[w].last_drip_period = vault[w].last_drip_period
                 /\ vault'[w].exists = vault[w].exists
                 /\ vault'[w].drip_amount = vault[w].drip_amount - DripShare(p, w)
        <3>1. CASE w = v
            <4>1. vault'[w] = [vault[w] EXCEPT !.drip_amount = @ - per]
                BY <2>2, <3>1 DEF TypeInv, TypeOK
            <4> QED BY <1>7, <2>4, <3>1, <4>1 DEF VaultType
        <3>2. CASE w # v
            <4>1. vault'[w] = vault[w]
                BY <2>2, <3>2 DEF TypeInv, TypeOK
            <4> QED BY <1>8, <2>5, <3>2, <4>1
        <3> QED BY <3>1, <3>2
    <2>7. ASSUME NEW w \in Vaults, NEW k \in PeriodIds
          PROVE  /\ vault_period'[w][k].exists = vault_period[w][k].exists
                 /\ vault_period'[w][k].dar = vault_period[w][k].dar - ExpiryShare(p, w, k)
        <3>1. CASE w = v /\ k = Expiry(p)
            <4>1. vault_period'[w][k] = [vault_period[w][k] EXCEPT !.dar = @ - per]
                BY <1>3, <1>7, <2>3, <3>1 DEF TypeInv, TypeOK
            <4> QED BY <1>7, <2>4, <3>1, <4>1 DEF PeriodType
        <3>2. CASE ~ (w = v /\ k = Expiry(p))
            <4>1. vault_period'[w][k] = vault_period[w][k]
                BY <1>3, <1>7, <2>3, <3>2 DEF TypeInv, TypeOK
            <4>2. ExpiryShare(p, w, k) = 0
                BY <2>4, <2>5, <3>2
            <4> QED BY <1>8, <4>1, <4>2
        <3> QED BY <3>1, <3>2
    <2> QED BY <1>10, <2>6, <2>7
<1>12. CASE ~ (last < Expiry(p))
    <2>1. UNCHANGED <<vault, vault_period>>
        <3>1. ~ (j.period_id < expiry.period_id)
            BY <1>1, <1>2, <1>12 DEF LastDripOf
        <3> QED BY <3>1 DEF ClosePosition, ReduceDrip
    <2>2. \A w \in Vaults : DripShare(p, w) = 0 /\ \A k : ExpiryShare(p, w, k) = 0
        BY <1>5, <1>6, <1>12, NoShares
    <2> QED BY <1>8, <1>10, <2>1, <2>2
<1> QED BY <1>11, <1>12

\* A close takes the position's periodic amount out of both exactly when it still
\* drips, and refunds exactly its unspent A.
LEMMA CloseAccounting ==
    ASSUME AccountingInv, NEW p \in Positions, NEW v \in Vaults, NEW withdrawer \in Signers,
           NEW i \in PeriodAccounts, NEW j \in PeriodAccounts, NEW expiry \in PeriodAccounts,
           ClosePosition(p, v, withdrawer, i, j, expiry)
    PROVE  AccountingInv'
<1> USE DEF AccountingInv
<1>1. TypeInv'
    BY ClosePositionType
<1>2. /\ position'[p].status = "closed"
      /\ \A q \in Positions : q # p => position'[q] = position[q]
    BY PositionParts DEF ClosePosition, TypeInv, TypeOK, PositionType
<1>3. /\ \A w \in Vaults :
            /\ vault'[w].last_drip_period = vault[w].last_drip_period
            /\ vault'[w].exists = vault[w].exists
            /\ vault'[w].drip_amount = vault[w].drip_amount - DripShare(p, w)
            /\ balance'[w]["A"] >= balance[w]["A"] - UnspentA(p, w)
      /\ \A w \in Vaults : \A k \in PeriodIds :
            /\ vault_period'[w][k].exists = vault_period[w][k].exists
            /\ vault_period'[w][k].dar = vault_period[w][k].dar - ExpiryShare(p, w, k)
    BY CloseEffects
<1>4. ASSUME NEW w \in Vaults
      PROVE  /\ DripShare(p, w)' = 0 /\ UnspentA(p, w)' = 0 /\ \A k : ExpiryShare(p, w, k)' = 0
    <2>1. ~ Active(p, w)'
        BY <1>2 DEF Active
    <2> QED BY <2>1, NoSharesNext
<1>5. ASSUME NEW w \in Vaults
      PROVE  \A q \in Positions : q # p =>
                /\ DripShare(q, w)' = DripShare(q, w)
                /\ \A k : ExpiryShare(q, w, k)' = ExpiryShare(q, w, k)
                /\ UnspentA(q, w)' = UnspentA(q, w)
    <2>1. ASSUME NEW q \in Positions, q # p
          PROVE  /\ DripShare(q, w)' = DripShare(q, w)
                 /\ \A k : ExpiryShare(q, w, k)' = ExpiryShare(q, w, k)
                 /\ UnspentA(q, w)' = UnspentA(q, w)
        <3>1. position'[q] = position[q]
            BY <1>2, <2>1
        <3> QED BY <1>3, <3>1, SameShares
    <2> QED BY <2>1
<1>6. ASSUME NEW w \in Vaults
      PROVE  /\ DripShare(p, w) \in Nat /\ UnspentA(p, w) \in Nat
             /\ \A k : ExpiryShare(p, w, k) \in Nat
             /\ SumTo(DripShares(w), NumPositions) \in Nat
             /\ SumTo(UnspentAmounts(w), NumPositions) \in Nat
             /\ \A k : SumTo(ExpiringShares(w, k), NumPositions) \in Nat
    <2>1. /\ DripShares(w) \in [1 .. NumPositions -> Nat]
          /\ \A k : ExpiringShares(w, k) \in [1 .. NumPositions -> Nat]
          /\ UnspentAmounts(w) \in [1 .. NumPositions -> Nat]
        BY ShareTypes DEF TypeInv
    <2>2. /\ DripShares(w)[p] \in Nat /\ UnspentAmounts(w)[p] \in Nat
          /\ \A k : ExpiringShares(w, k)[p] \in Nat
        BY <2>1 DEF Positions
    <2>3. /\ DripShares(w)[p] = DripShare(p, w) /\ UnspentAmounts(w)[p] = UnspentA(p, w)
          /\ \A k : ExpiringShares(w, k)[p] = ExpiryShare(p, w, k)
        BY DEF DripShares, UnspentAmounts, ExpiringShares
    <2>4. /\ SumTo(DripShares(w), NumPositions) \in Nat
          /\ SumTo(UnspentAmounts(w), NumPositions) \in Nat
          /\ \A k : SumTo(ExpiringShares(w, k), NumPositions) \in Nat
        BY <2>1, AddressAssumption, SumType
    <2> QED BY <2>2, <2>3, <2>4
<1>7. ASSUME NEW w \in Vaults
      PROVE  /\ SumTo(DripShares(w)', NumPositions)
                   = SumTo(DripShares(w), NumPositions) - DripShare(p, w)
             /\ \A k : SumTo(ExpiringShares(w, k)', NumPositions)
                   = SumTo(ExpiringShares(w, k), NumPositions) - ExpiryShare(p, w, k)
             /\ SumTo(UnspentAmounts(w)', NumPositions)
                   = SumTo(UnspentAmounts(w), NumPositions) - UnspentA(p, w)
    <2>1. \A x, y \in Nat : x + (0 - y) = x - y
        OBVIOUS
    <2>2. /\ SumTo(DripShares(w)', NumPositions)
                = SumTo(DripShares(w), NumPositions) + (0 - DripShare(p, w))
          /\ \A k : SumTo(ExpiringShares(w, k)', NumPositions)
                = SumTo(ExpiringShares(w, k), NumPositions) + (0 - ExpiryShare(p, w, k))
          /\ SumTo(UnspentAmounts(w)', NumPositions)
                = SumTo(UnspentAmounts(w), NumPositions) + (0 - UnspentA(p, w))
        BY <1>4, <1>5, OneShareChanges DEF TypeInv
    <2> QED BY <1>6, <2>1, <2>2
<1>8. AccountsFresh'
    <2>1. ASSUME NEW w \in Vaults, ~ vault[w].exists
          PROVE  DripShare(p, w) = 0
        <3>1. ~ Active(p, w)
            BY <2>1 DEF Active, PositionTerms
        <3> QED BY <3>1, NoShares
    <2>2. ASSUME NEW w \in Vaults, NEW k \in PeriodIds, ~ vault_period[w][k].exists
          PROVE  ExpiryShare(p, w, k) = 0
        BY <2>2 DEF ExpiryShare, Active, PositionTerms
    <2> QED BY <1>3, <2>1, <2>2 DEF AccountsFresh
<1>9. PositionTerms'
    <2> SUFFICES ASSUME NEW q \in Positions, position'[q].status = "open"
                 PROVE  /\ position'[q].vault \in Vaults
                        /\ vault'[position'[q].vault].exists
                        /\ position'[q].drip_period_id_before_deposit
                              <= vault'[position'[q].vault].last_drip_period
                        /\ position'[q].periodic_drip_amount > 0
                        /\ position'[q].number_of_swaps * position'[q].periodic_drip_amount
                              <= position'[q].deposited_token_a_amount
                        /\ Expiry(q)' \in PeriodIds
                        /\ vault_period'[position'[q].vault][Expiry(q)'].exists
        BY DEF PositionTerms
    <2>1. position'[q] = position[q]
        BY <1>2
    <2>2. Expiry(q)' = Expiry(q)
        BY <2>1 DEF Expiry
    <2> QED BY <1>3, <2>1, <2>2 DEF PositionTerms
<1>10. DripAmountIsSumOfShares'
    BY <1>3, <1>7 DEF DripAmountIsSumOfShares
<1>11. DarIsSumOfExpiringShares'
    BY <1>3, <1>7 DEF DarIsSumOfExpiringShares
<1>12. TokenASolvent'
    <2> SUFFICES ASSUME NEW w \in Vaults
                 PROVE  SumTo(UnspentAmounts(w)', NumPositions) <= balance'[w]["A"]
        BY DEF TokenASolvent
    <2>1. /\ SumTo(UnspentAmounts(w), NumPositions) <= balance[w]["A"]
          /\ balance[w]["A"] \in Nat /\ balance'[w]["A"] \in Nat
        BY <1>1, VaultParts, BalanceNat, CheckedAmounts
           DEF TokenASolvent, TypeInv, TypeOK, Balances, Tokens
    <2> QED BY <1>3, <1>6, <1>7, <2>1
<1>13. DrippedPeriodsExist'
    <2>1. \A w \in Vaults : 0 .. vault[w].last_drip_period \subseteq PeriodIds
        BY VaultParts, BoundAssumption DEF PeriodIds, TypeInv
    <2> QED BY <1>3, <2>1 DEF DrippedPeriodsExist
<1> QED BY <1>1, <1>8, <1>9, <1>10, <1>11, <1>12, <1>13

-----------------------------------------------------------------------------
(* Drip: every active position's shares change *)

\* A drip takes one periodic amount off what a position has not spent, and takes
\* out of the vault's next drip the positions that expire with this one.
LEMMA DripShareChanges ==
    ASSUME AccountingInv, TypeInv', NEW v \in Vaults, NEW p \in Positions,
           position' = position,
           vault'[v].last_drip_period = vault[v].last_drip_period + 1
    PROVE  /\ DripShare(p, v)
                = DripShare(p, v)' + ExpiryShare(p, v, vault[v].last_drip_period + 1)
           /\ \A k \in PeriodIds : k > vault[v].last_drip_period + 1 =>
                ExpiryShare(p, v, k)' = ExpiryShare(p, v, k)
           /\ UnspentA(p, v) = UnspentA(p, v)' + DripShare(p, v)
           /\ DripShare(p, v)' \in Nat /\ UnspentA(p, v)' \in Nat
<1> DEFINE per  == position[p].periodic_drip_amount
           last == vault[v].last_drip_period
           E    == Expiry(p)
<1>1. per \in Nat /\ E \in Nat /\ last \in Nat
    BY PositionParts, VaultParts, BoundAssumption DEF AccountingInv, TypeInv, PeriodIds
<1>2. Expiry(p)' = E
    BY DEF Expiry
<1>3. Active(p, v)' <=> Active(p, v) /\ last + 1 < E
    <2>1. Active(p, v) <=> position[p].status = "open" /\ position[p].vault = v /\ last < E
        BY DEF Active
    <2>2. Active(p, v)' <=> position[p].status = "open" /\ position[p].vault = v /\ last + 1 < E
        BY <1>2 DEF Active
    <2> HIDE DEF last, E
    <2> QED BY <1>1, <2>1, <2>2
<1>4. \A k \in PeriodIds : k > last + 1 => ExpiryShare(p, v, k)' = ExpiryShare(p, v, k)
    <2>1. \A k : ExpiryShare(p, v, k) = IF Active(p, v) /\ E = k THEN per ELSE 0
        BY DEF ExpiryShare
    <2>2. \A k : ExpiryShare(p, v, k)' = IF Active(p, v)' /\ E = k THEN per ELSE 0
        BY <1>2 DEF ExpiryShare
    <2> HIDE DEF last, E, per
    <2> QED BY <1>1, <1>3, <2>1, <2>2
<1>5. CASE ~ Active(p, v)
    <2>1. ~ Active(p, v)'
        BY <1>3, <1>5
    <2> QED BY <1>4, <1>5, <2>1, NoShares, NoSharesNext
<1>6. CASE Active(p, v) /\ E = last + 1
    <2>1. ~ Active(p, v)'
        BY <1>1, <1>3, <1>6
    <2>2. DripShare(p, v) = per /\ ExpiryShare(p, v, last + 1) = per
        BY <1>6 DEF DripShare, ExpiryShare
    <2>3. UnspentA(p, v) = per
        <3>1. UnspentA(p, v) = (E - last) * per
            BY <1>6 DEF UnspentA
        <3> HIDE DEF E, last, per
        <3>2. E - last = 1
            BY <1>1, <1>6
        <3> QED BY <1>1, <3>1, <3>2
    <2> HIDE DEF per
    <2> QED BY <1>1, <1>4, <2>1, <2>2, <2>3, NoSharesNext
<1>7. CASE Active(p, v) /\ E # last + 1
    <2>1. Active(p, v)' /\ last + 1 < E
        <3>1. last < E
            BY <1>7 DEF Active
        <3> QED BY <1>1, <1>3, <1>7, <3>1
    <2>2. DripShare(p, v) = per /\ DripShare(p, v)' = per /\ ExpiryShare(p, v, last + 1) = 0
        BY <1>7, <2>1 DEF DripShare, ExpiryShare
    <2>3. UnspentA(p, v) = (E - last) * per /\ UnspentA(p, v)' = (E - (last + 1)) * per
        BY <1>2, <1>7, <2>1 DEF UnspentA
    <2> HIDE DEF E, last, per
    <2> DEFINE x == E - (last + 1)
    <2>4. x \in Nat /\ E - last = x + 1
        BY <1>1, <2>1
    <2>5. \A y, z \in Nat : (y + 1) * z = y * z + z /\ y * z \in Nat
        OBVIOUS
    <2>6. UnspentA(p, v) = x * per + per /\ UnspentA(p, v)' = x * per /\ x * per \in Nat
        <3> HIDE DEF x
        <3>1. UnspentA(p, v) = (x + 1) * per
            BY <2>3, <2>4
        <3>2. UnspentA(p, v)' = x * per
            BY <2>3 DEF x
        <3> QED BY <1>1, <2>4, <2>5, <3>1, <3>2
    <2>7. per + 0 = per
        BY <1>1
    <2> QED BY <1>1, <1>4, <2>2, <2>6, <2>7 DEF last
<1> QED BY <1>5, <1>6, <1>7

\* A drip spends one periodic amount of every active position; those that expire
\* with it leave drip_amount through the period's dar.
LEMMA DripAccounting ==
    ASSUME AccountingInv, NEW v \in Vaults, NEW last \in PeriodAccounts,
           NEW current \in PeriodAccounts, NEW swap \in Swaps, NEW fee_account,
           NEW swapped_a \in 0 .. SwapAmount(v), NEW received_b \in ReceivedAmounts,
           Drip(v, last, current, swap, fee_account, swapped_a, received_b)
    PROVE  AccountingInv'
<1> DEFINE k0 == vault[v].last_drip_period + 1
<1> USE DEF AccountingInv
<1>1. TypeInv'
    BY DripType
<1>2. /\ \A w \in Vaults : vault[w] \in VaultType
      /\ \A w \in Vaults : vault_period[w] \in [PeriodIds -> PeriodType]
      /\ \A w \in Vaults : \A k \in PeriodIds : vault_period[w][k] \in PeriodType
      /\ \A w \in Vaults : balance[w] \in [Tokens -> Amount]
      /\ \A w \in Vaults : vault[w].last_drip_period \in Nat
      /\ \A w \in Vaults : vault[w].drip_amount \in Nat /\ balance[w]["A"] \in Nat
      /\ \A w \in Vaults : \A k \in PeriodIds : vault_period[w][k].dar \in Nat
    <2>1. /\ \A w \in Vaults : vault[w] \in VaultType
          /\ \A w \in Vaults : vault_period[w] \in [PeriodIds -> PeriodType]
          /\ \A w \in Vaults : balance[w] \in [Tokens -> Amount]
          /\ \A w \in Vaults : vault[w].drip_amount \in Amount /\ balance[w]["A"] \in Amount
        BY VaultParts DEF TypeInv
    <2>2. \A w \in Vaults : \A k \in PeriodIds : vault_period[w][k] \in PeriodType
        BY <2>1
    <2>3. \A w \in Vaults : \A k \in PeriodIds : vault_period[w][k].dar \in Nat
        BY <2>2, CheckedAmounts DEF PeriodType
    <2>4. \A w \in Vaults : vault[w].last_drip_period \in Nat
        BY VaultParts, BoundAssumption DEF TypeInv, PeriodIds
    <2> QED BY <2>1, <2>2, <2>3, <2>4, CheckedAmounts
<1>3. /\ current.vault = v /\ current.period_id = k0 /\ k0 \in PeriodIds
      /\ vault_period[v][k0].exists
      /\ Data(current) = vault_period[v][k0]
    BY PeriodAccountType DEF Drip, IsPeriod, TypeInv, Data
<1>4. vault[v].exists /\ vault_period[v][vault[v].last_drip_period].exists
    BY PeriodAccountType DEF Drip, IsPeriod, TypeInv, Data
<1>5. /\ vault'[v].last_drip_period = k0
      /\ vault'[v].exists = vault[v].exists
      /\ vault'[v].drip_amount = vault[v].drip_amount - vault_period[v][k0].dar
      /\ \A w \in Vaults : w # v => vault'[w] = vault[w]
    <2>1. vault' = [vault EXCEPT ![v] =
               [vault[v] EXCEPT !.drip_amount = @ - vault_period[v][k0].dar,
                                !.last_drip_period = k0,
                                !.drip_activation_timestamp =
                                    ActivationTimestamp(now, Config(v).granularity, TRUE)]]
        BY <1>3 DEF Drip, ProcessDrip
    <2> HIDE DEF k0
    <2> QED BY <1>2, <2>1 DEF VaultType, TypeInv, TypeOK
<1>6. \A w \in Vaults : \A k \in PeriodIds :
         /\ vault_period'[w][k].exists = vault_period[w][k].exists
         /\ vault_period'[w][k].dar = vault_period[w][k].dar
    <2>1. PICK x, t : vault_period' = [vault_period EXCEPT ![v][k0] =
                          [vault_period[v][k0] EXCEPT !.twap = x, !.drip_timestamp = t]]
        <3> DEFINE x == NewTwap(Data(last).twap, current.period_id,
                               ComputePrice(received_b, SwapAmount(v)))
        <3>1. vault_period' = [vault_period EXCEPT
                 ![current.vault][current.period_id].twap = x,
                 ![current.vault][current.period_id].drip_timestamp = now]
            BY DEF Drip, UpdatePeriod
        <3> HIDE DEF x, k0
        <3>2. vault_period' = [vault_period EXCEPT ![v][k0] =
                 [vault_period[v][k0] EXCEPT !.twap = x, !.drip_timestamp = now]]
            BY <1>3, <3>1
        <3> QED BY <3>2
    <2> HIDE DEF k0
    <2>2. \A w \in Vaults : \A k \in PeriodIds :
             vault_period'[w][k] = IF w = v /\ k = k0
                 THEN [vault_period[v][k0] EXCEPT !.twap = x, !.drip_timestamp = t]
                 ELSE vault_period[w][k]
        BY <1>2, <1>3, <2>1 DEF TypeInv, TypeOK
    <2>3. ASSUME NEW r \in PeriodType
          PROVE  /\ [r EXCEPT !.twap = x, !.drip_timestamp = t].exists = r.exists
                 /\ [r EXCEPT !.twap = x, !.drip_timestamp = t].dar = r.dar
        BY DEF PeriodType
    <2>4. vault_period[v][k0] \in PeriodType
        BY <1>2, <1>3
    <2>5. ASSUME NEW w \in Vaults, NEW k \in PeriodIds
          PROVE  /\ vault_period'[w][k].exists = vault_period[w][k].exists
                 /\ vault_period'[w][k].dar = vault_period[w][k].dar
        <3>1. CASE w = v /\ k = k0
            BY <2>2, <2>3, <2>4, <3>1
        <3>2. CASE ~ (w = v /\ k = k0)
            BY <2>2, <3>2
        <3> QED BY <3>1, <3>2
    <2> QED BY <2>5
<1>7. /\ balance'[v]["A"] = balance[v]["A"] - vault[v].drip_amount
      /\ \A w \in Vaults : w # v => balance'[w]["A"] >= balance[w]["A"]
      /\ \A w \in Vaults : balance'[w]["A"] \in Nat
    <2>1. \A w \in Vaults : balance'[w]["A"] \in Nat
        BY DripSpends, BalanceNat DEF Tokens
    <2> QED BY <2>1, DripSpends
<1>8. position' = position
    BY DEF Drip
<1>9. ASSUME NEW w \in Vaults, w # v
      PROVE  /\ DripShares(w)' = DripShares(w)
             /\ \A k : ExpiringShares(w, k)' = ExpiringShares(w, k)
             /\ UnspentAmounts(w)' = UnspentAmounts(w)
    <2>1. \A q \in Positions :
             /\ DripShare(q, w)' = DripShare(q, w)
             /\ \A k : ExpiryShare(q, w, k)' = ExpiryShare(q, w, k)
             /\ UnspentA(q, w)' = UnspentA(q, w)
        BY <1>5, <1>8, <1>9, SameShares
    <2> QED BY <2>1 DEF DripShares, ExpiringShares, UnspentAmounts
<1>10. \A p \in Positions :
          /\ DripShare(p, v) = DripShare(p, v)' + ExpiryShare(p, v, k0)
          /\ \A k \in PeriodIds : k > k0 => ExpiryShare(p, v, k)' = ExpiryShare(p, v, k)
          /\ UnspentA(p, v) = UnspentA(p, v)' + DripShare(p, v)
          /\ DripShare(p, v)' \in Nat /\ UnspentA(p, v)' \in Nat
    BY <1>1, <1>5, <1>8, DripShareChanges
<1> HIDE DEF k0
<1>11. /\ SumTo(DripShares(v), NumPositions)
             = SumTo(DripShares(v)', NumPositions) + SumTo(ExpiringShares(v, k0), NumPositions)
       /\ SumTo(UnspentAmounts(v), NumPositions)
             = SumTo(UnspentAmounts(v)', NumPositions) + SumTo(DripShares(v), NumPositions)
       /\ SumTo(DripShares(v)', NumPositions) \in Nat
       /\ SumTo(UnspentAmounts(v)', NumPositions) \in Nat
    <2>1. Positions = 1 .. NumPositions /\ NumPositions \in Nat
        BY AddressAssumption DEF Positions
    <2>2. /\ DripShares(v) \in [1 .. NumPositions -> Nat]
          /\ ExpiringShares(v, k0) \in [1 .. NumPositions -> Nat]
          /\ UnspentAmounts(v) \in [1 .. NumPositions -> Nat]
        BY ShareTypes DEF TypeInv
    <2>3. /\ DripShares(v)' \in [1 .. NumPositions -> Nat]
          /\ UnspentAmounts(v)' \in [1 .. NumPositions -> Nat]
        BY <1>10, <2>1 DEF DripShares, UnspentAmounts
    <2>4. \A p \in 1 .. NumPositions :
             DripShares(v)[p] = DripShares(v)'[p] + ExpiringShares(v, k0)[p]
        BY <1>10, <2>1 DEF DripShares, ExpiringShares
    <2>5. \A p \in 1 .. NumPositions :
             UnspentAmounts(v)[p] = UnspentAmounts(v)'[p] + DripShares(v)[p]
        BY <1>10, <2>1 DEF DripShares, UnspentAmounts
    <2>6. /\ SumTo(DripShares(v)', NumPositions) \in Nat
          /\ SumTo(UnspentAmounts(v)', NumPositions) \in Nat
        BY <2>1, <2>3, SumType
    <2>7. \A f, g, h \in [1 .. NumPositions -> Nat] :
             (\A p \in 1 .. NumPositions : h[p] = f[p] + g[p])
                 => SumTo(h, NumPositions) = SumTo(f, NumPositions) + SumTo(g, NumPositions)
        BY SumAddNat, AddressAssumption
    <2>8. SumTo(DripShares(v), NumPositions)
             = SumTo(DripShares(v)', NumPositions) + SumTo(ExpiringShares(v, k0), NumPositions)
        BY ONLY <2>2, <2>3, <2>4, <2>7, Zenon
    <2>9. SumTo(UnspentAmounts(v), NumPositions)
             = SumTo(UnspentAmounts(v)', NumPositions) + SumTo(DripShares(v), NumPositions)
        BY ONLY <2>2, <2>3, <2>5, <2>7, Zenon
    <2> QED BY <2>6, <2>8, <2>9
<1>12. AccountsFresh'
    <2>1. \A w \in Vaults : ~ vault'[w].exists => w # v /\ vault'[w] = vault[w]
        BY <1>4, <1>5
    <2> QED BY <1>6, <2>1 DEF AccountsFresh
<1>13. PositionTerms'
    <2> SUFFICES ASSUME NEW q \in Positions, position'[q].status = "open"
                 PROVE  /\ position'[q].vault \in Vaults
                        /\ vault'[position'[q].vault].exists
                        /\ position'[q].drip_period_id_before_deposit
                              <= vault'[position'[q].vault].last_drip_period
                        /\ position'[q].periodic_drip_amount > 0
                        /\ position'[q].number_of_swaps * position'[q].periodic_drip_amount
                              <= position'[q].deposited_token_a_amount
                        /\ Expiry(q)' \in PeriodIds
                        /\ vault_period'[position'[q].vault][Expiry(q)'].exists
        BY DEF PositionTerms
    <2>1. position'[q] = position[q] /\ Expiry(q)' = Expiry(q)
        BY <1>8 DEF Expiry
    <2>2. position[q].drip_period_id_before_deposit \in Nat
        BY PositionParts DEF TypeInv
    <2>3. \A w \in Vaults : \A i \in Nat :
             i <= vault[w].last_drip_period => i <= vault'[w].last_drip_period
        BY <1>2, <1>5 DEF k0
    <2>4. \A w \in Vaults : vault[w].exists => vault'[w].exists
        BY <1>5
    <2> QED BY <1>6, <2>1, <2>2, <2>3, <2>4 DEF PositionTerms
<1>14. DripAmountIsSumOfShares'
    <2> SUFFICES ASSUME NEW w \in Vaults
                 PROVE  vault'[w].drip_amount = SumTo(DripShares(w)', NumPositions)
        BY DEF DripAmountIsSumOfShares
    <2>1. vault[w].drip_amount = SumTo(DripShares(w), NumPositions)
        BY DEF DripAmountIsSumOfShares
    <2>2. CASE w = v
        <3>1. vault_period[v][k0].dar = SumTo(ExpiringShares(v, k0), NumPositions)
            BY <1>2, <1>3 DEF DarIsSumOfExpiringShares, k0
        <3>2. vault_period[v][k0].dar \in Nat
            BY <1>2, <1>3
        <3> QED BY <1>5, <1>11, <2>1, <2>2, <3>1, <3>2
    <2>3. CASE w # v
        BY <1>5, <1>9, <2>1, <2>3
    <2> QED BY <2>2, <2>3
<1>15. DarIsSumOfExpiringShares'
    <2> SUFFICES ASSUME NEW w \in Vaults, NEW k \in PeriodIds, k > vault'[w].last_drip_period
                 PROVE  vault_period'[w][k].dar = SumTo(ExpiringShares(w, k)', NumPositions)
        BY DEF DarIsSumOfExpiringShares
    <2>1. k \in Nat
        BY BoundAssumption DEF PeriodIds
    <2>2. CASE w = v
        <3>1. k > k0 /\ k > vault[v].last_drip_period
            BY <1>2, <1>5, <2>1, <2>2 DEF k0
        <3>2. ExpiringShares(v, k)' = ExpiringShares(v, k)
            BY <1>10, <3>1 DEF ExpiringShares
        <3> QED BY <1>6, <2>2, <3>1, <3>2 DEF DarIsSumOfExpiringShares
    <2>3. CASE w # v
        BY <1>5, <1>6, <1>9, <2>3 DEF DarIsSumOfExpiringShares
    <2> QED BY <2>2, <2>3
<1>16. TokenASolvent'
    <2> SUFFICES ASSUME NEW w \in Vaults
                 PROVE  SumTo(UnspentAmounts(w)', NumPositions) <= balance'[w]["A"]
        BY DEF TokenASolvent
    <2>1. SumTo(UnspentAmounts(w), NumPositions) <= balance[w]["A"]
        BY DEF TokenASolvent
    <2>2. CASE w = v
        <3>1. vault[v].drip_amount = SumTo(DripShares(v), NumPositions)
            BY DEF DripAmountIsSumOfShares
        <3> QED BY <1>2, <1>7, <1>11, <2>1, <2>2, <3>1
    <2>3. CASE w # v
        <3>1. SumTo(UnspentAmounts(w), NumPositions) \in Nat
            BY ShareTypes, SumType, AddressAssumption DEF TypeInv
        <3> QED BY <1>2, <1>7, <1>9, <2>1, <2>3, <3>1
    <2> QED BY <2>2, <2>3
<1>17. DrippedPeriodsExist'
    <2> SUFFICES ASSUME NEW w \in Vaults, vault'[w].last_drip_period > 0,
                        NEW k \in 0 .. vault'[w].last_drip_period
                 PROVE  vault_period'[w][k].exists
        BY DEF DrippedPeriodsExist
    <2>1. k \in PeriodIds
        BY <1>1, VaultParts, BoundAssumption DEF PeriodIds, TypeInv, TypeOK, VaultType
    <2>2. CASE w = v
        <3>1. CASE k = k0
            BY <1>3, <1>6, <2>2, <3>1
        <3>2. CASE k # k0 /\ vault[v].last_drip_period = 0
            <4>1. k = vault[v].last_drip_period
                BY <1>2, <1>5, <2>2, <3>2 DEF k0
            <4> QED BY <1>4, <1>6, <2>1, <2>2, <4>1
        <3>3. CASE k # k0 /\ vault[v].last_drip_period # 0
            <4>1. vault[v].last_drip_period > 0 /\ k \in 0 .. vault[v].last_drip_period
                BY <1>2, <1>5, <2>2, <3>3 DEF k0
            <4> QED BY <1>6, <2>1, <2>2, <4>1 DEF DrippedPeriodsExist
        <3> QED BY <3>1, <3>2, <3>3
    <2>3. CASE w # v
        BY <1>5, <1>6, <2>1, <2>3 DEF DrippedPeriodsExist
    <2> QED BY <2>2, <2>3
<1> QED BY <1>1, <1>12, <1>13, <1>14, <1>15, <1>16, <1>17

-----------------------------------------------------------------------------
(* The theorems *)

\* No account holds anything at the start, and no position is open.
LEMMA InitAccounting == Init => AccountingInv
<1> SUFFICES ASSUME Init
             PROVE  AccountingInv
    OBVIOUS
<1>1. TypeInv
    BY InitType
<1>2. \A p \in Positions : position[p].status # "open"
    <2>1. PICK owner \in [LegacyPositions -> UpgradedVaults] :
             position = [p \in Positions |->
                 IF p \in LegacyPositions
                 THEN [NoPosition EXCEPT !.status = "legacy", !.vault = owner[p]]
                 ELSE NoPosition]
        BY DEF Init
    <2>2. ASSUME NEW x
          PROVE  [NoPosition EXCEPT !.status = "legacy", !.vault = x].status = "legacy"
        BY DEF NoPosition
    <2>3. NoPosition.status = "none"
        BY DEF NoPosition
    <2> QED BY <2>1, <2>2, <2>3
<1>3. \A v \in Vaults : vault[v].last_drip_period = 0 /\ vault[v].drip_amount = 0
    BY DEF Init, InitialVault, SetWhitelistedSwaps, NoVault
<1>4. \A v \in Vaults : \A k \in PeriodIds : vault_period[v][k].dar = 0
    BY DEF Init, NoPeriod
<1>5. ASSUME NEW v \in Vaults
      PROVE  /\ SumTo(DripShares(v), NumPositions) = 0
             /\ \A k : SumTo(ExpiringShares(v, k), NumPositions) = 0
             /\ SumTo(UnspentAmounts(v), NumPositions) = 0
    <2>1. Positions = 1 .. NumPositions /\ NumPositions \in Nat
        BY AddressAssumption DEF Positions
    <2>2. \A p \in Positions : /\ DripShare(p, v) = 0 /\ UnspentA(p, v) = 0
                               /\ \A k : ExpiryShare(p, v, k) = 0
        BY <1>2, NoShares DEF Active
    <2>3. ASSUME NEW f, f = [p \in Positions |-> 0]
          PROVE  SumTo(f, NumPositions) = 0
        <3>1. f \in [1 .. NumPositions -> Int] /\ \A k \in 1 .. NumPositions : f[k] = 0
            BY <2>1, <2>3
        <3> QED BY <2>1, <3>1, SumZero
    <2>4. /\ DripShares(v) = [p \in Positions |-> 0]
          /\ UnspentAmounts(v) = [p \in Positions |-> 0]
          /\ \A k : ExpiringShares(v, k) = [p \in Positions |-> 0]
        BY <2>2 DEF DripShares, UnspentAmounts, ExpiringShares
    <2> QED BY <2>3, <2>4
<1>6. AccountsFresh /\ PositionTerms /\ DrippedPeriodsExist
    BY <1>2, <1>3, <1>4 DEF AccountsFresh, PositionTerms, DrippedPeriodsExist
<1>7. DripAmountIsSumOfShares /\ DarIsSumOfExpiringShares
    BY <1>3, <1>4, <1>5 DEF DripAmountIsSumOfShares, DarIsSumOfExpiringShares
<1>8. TokenASolvent
    <2>1. \A v \in Vaults : balance[v]["A"] = 0
        BY DEF Init, Tokens
    <2> QED BY <1>5, <2>1 DEF TokenASolvent
<1> QED BY <1>1, <1>6, <1>7, <1>8 DEF AccountingInv

\* Every instruction keeps the books: one case per action of Next.
LEMMA StepAccounting == AccountingInv /\ [Next]_vars => AccountingInv'
<1> SUFFICES ASSUME AccountingInv, [Next]_vars
             PROVE  AccountingInv'
    OBVIOUS
<1>1. ASSUME NEW c \in Configs, NEW params \in ConfigParams, InitVaultProtoConfig(c, params)
      PROVE  AccountingInv'
    BY <1>1, QuietSteps
<1>2. ASSUME NEW v \in Vaults, NEW k \in PeriodIds, InitVaultPeriod(v, k)
      PROVE  AccountingInv'
    BY <1>2, QuietSteps
<1>3. ASSUME NEW v \in Vaults, DripStep(v)
      PROVE  AccountingInv'
    BY <1>3, DripAccounting DEF DripStep
<1>4. ASSUME NEW p \in Positions, NEW v \in Vaults, DepositStep(p, v)
      PROVE  AccountingInv'
    BY <1>4, DepositAccounting DEF DepositStep
<1>5. ASSUME NEW p \in Positions, NEW v \in Vaults, WithdrawBStep(p, v)
      PROVE  AccountingInv'
    BY <1>5, QuietWithdrawals DEF WithdrawBStep
<1>6. ASSUME NEW p \in Positions, NEW v \in Vaults, ClosePositionStep(p, v)
      PROVE  AccountingInv'
    BY <1>6, CloseAccounting DEF ClosePositionStep
<1>7. ASSUME NEW v \in Vaults, AdminStep(v)
      PROVE  AccountingInv'
    BY <1>7, QuietSteps, QuietWithdrawals DEF AdminStep, WithdrawA, AdminWithdraw, Tokens
<1>8. ASSUME NEW p \in Positions, NEW to \in Users, TransferNft(p, to)
      PROVE  AccountingInv'
    BY <1>8, QuietSteps
<1>9. ASSUME Tick \/ UNCHANGED vars
      PROVE  AccountingInv'
    BY <1>9, QuietSteps
<1> QED BY <1>1, <1>2, <1>3, <1>4, <1>5, <1>6, <1>7, <1>8, <1>9 DEF Next

\* The inductive invariant of the vault's bookkeeping holds in every behaviour; the
\* theorems below are its parts.
THEOREM Accounting == Spec => []AccountingInv
BY InitAccounting, StepAccounting, PTL DEF Spec

\* Every drip sells exactly the periodic amounts of the positions still dripping:
\* adding at deposit, subtracting dar at a drip and subtracting at an early close
\* keep drip_amount equal to that sum, for any number of positions.
THEOREM DripAmountCorrect == Spec => []DripAmountIsSumOfShares
<1>1. AccountingInv => DripAmountIsSumOfShares
    BY DEF AccountingInv
<1> QED BY <1>1, Accounting, PTL

\* The dar of every period to come is the sum of the periodic amounts of the
\* positions that expire with it, so process_drip takes out neither more nor less.
THEOREM DarCorrect == Spec => []DarIsSumOfExpiringShares
<1>1. AccountingInv => DarIsSumOfExpiringShares
    BY DEF AccountingInv
<1> QED BY <1>1, Accounting, PTL

\* The vault's token A account always covers the unspent A of its open positions,
\* whatever the admin withdrew from it.
THEOREM VaultSolventInA == Spec => []TokenASolvent
<1>1. AccountingInv => TokenASolvent
    BY DEF AccountingInv
<1> QED BY <1>1, Accounting, PTL

\* An open position's terms stay those it paid for, and the period it expires in exists.
THEOREM OpenPositionsSound == Spec => []PositionTerms
<1>1. AccountingInv => PositionTerms
    BY DEF AccountingInv
<1> QED BY <1>1, Accounting, PTL

\* Every period a vault has dripped exists, although init_vault_period creates
\* periods of any id and checks nothing about the vault's position.
THEOREM PeriodsComplete == Spec => []DrippedPeriodsExist
<1>1. AccountingInv => DrippedPeriodsExist
    BY DEF AccountingInv
<1> QED BY <1>1, Accounting, PTL
=============================================================================
