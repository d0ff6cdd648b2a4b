------------------------ MODULE DripRefinementProofs ------------------------
(***************************************************************************)
(* DripVault implements EagerDca, for every value of its constants: each   *)
(* instruction is a step of the eager vault or none at all.                *)
(***************************************************************************)
EXTENDS DripRefinement, DripAccountingProofs

-----------------------------------------------------------------------------
(* The eager vault, seen through the mapping *)

\* Both modules mean the same sum.
LEMMA EagerSum ==
    ASSUME NEW f, NEW n
    PROVE  Eager!SumTo(f, n) = SumTo(f, n)
BY DEF SumTo, PartialSums, Eager!SumTo, Eager!PartialSums

\* What the mapping says of one position.
LEMMA HoldingOf ==
    ASSUME NEW p \in Positions
    PROVE  /\ Holding[p].phase = Phase(p)
           /\ Holding[p].vault = position[p].vault
           /\ Holding[p].share = position[p].periodic_drip_amount
           /\ Holding[p].left = DripsLeft(p)
           /\ Holding[p] = [phase |-> Phase(p), vault |-> position[p].vault,
                            share |-> position[p].periodic_drip_amount, left |-> DripsLeft(p)]
BY DEF Holding

\* The same after a step.
LEMMA HoldingOfNext ==
    ASSUME NEW p \in Positions
    PROVE  /\ Holding'[p].phase = Phase(p)'
           /\ Holding'[p].vault = position'[p].vault
           /\ Holding'[p].share = position'[p].periodic_drip_amount
           /\ Holding'[p].left = DripsLeft(p)'
           /\ Holding'[p] = [phase |-> Phase(p)', vault |-> position'[p].vault,
                             share |-> position'[p].periodic_drip_amount, left |-> DripsLeft(p)']
BY DEF Holding

\* A position has drips left exactly while it takes part in its vault's drips.
LEMMA DrippingActive ==
    ASSUME AccountingInv, NEW p \in Positions, NEW v \in Vaults
    PROVE  /\ DripsLeft(p) \in Nat
           /\ p \in Eager!Dripping(v) <=> Active(p, v)
<1>1. Expiry(p) \in Nat /\ \A w \in Vaults : vault[w].last_drip_period \in Nat
    BY PositionParts, VaultParts, BoundAssumption DEF AccountingInv, TypeInv, PeriodIds
<1>2. position[p].status = "open" => position[p].vault \in Vaults
    BY DEF AccountingInv, PositionTerms
<1>3. DripsLeft(p) \in Nat /\ (DripsLeft(p) > 0 <=> Active(p, position[p].vault))
    BY <1>1, <1>2 DEF DripsLeft, Active
<1>4. p \in Eager!Dripping(v) <=>
         Phase(p) = "open" /\ position[p].vault = v /\ DripsLeft(p) > 0
    BY HoldingOf DEF Eager!Dripping, Positions
<1>5. Phase(p) = "open" <=> position[p].status = "open"
    BY DEF Phase
<1> QED BY <1>3, <1>4, <1>5 DEF Active

\* What the eager vault spends at a drip is the lazy one's drip_amount.
LEMMA EagerShares ==
    ASSUME AccountingInv, NEW v \in Vaults
    PROVE  /\ Eager!SumTo(Eager!Shares(v), NumPositions) = vault[v].drip_amount
           /\ Eager!Dripping(v) = {} <=> vault[v].drip_amount = 0
<1>1. Eager!Shares(v) = DripShares(v)
    <2>1. \A p \in Positions : Holding[p].share = position[p].periodic_drip_amount
        BY HoldingOf
    <2> QED BY <2>1, DrippingActive DEF Eager!Shares, DripShares, DripShare, Positions
<1>2. vault[v].drip_amount = SumTo(DripShares(v), NumPositions)
    BY DEF AccountingInv, DripAmountIsSumOfShares
<1>3. DripShares(v) \in [1 .. NumPositions -> Nat] /\ NumPositions \in Nat
    BY ShareTypes, AddressAssumption DEF AccountingInv, TypeInv
<1>4. ASSUME Eager!Dripping(v) = {}
      PROVE  vault[v].drip_amount = 0
    <2>1. \A p \in 1 .. NumPositions : DripShares(v)[p] = 0
        BY <1>4, DrippingActive DEF DripShares, DripShare, Positions
    <2>2. DripShares(v) \in [1 .. NumPositions -> Int]
        BY <1>3
    <2> QED BY <1>2, <1>3, <2>1, <2>2, SumZero
<1>5. ASSUME vault[v].drip_amount = 0
      PROVE  Eager!Dripping(v) = {}
    <2> SUFFICES ASSUME NEW p \in Eager!Dripping(v)
                 PROVE  FALSE
        OBVIOUS
    <2>1. p \in Positions
        BY DEF Eager!Dripping, Positions
    <2>2. Active(p, v)
        BY <2>1, DrippingActive
    <2>3. DripShares(v)[p] = position[p].periodic_drip_amount
        BY <2>1, <2>2 DEF DripShares, DripShare
    <2>4. position[p].periodic_drip_amount > 0 /\ position[p].periodic_drip_amount \in Nat
        BY <2>1, <2>2, PositionParts DEF Active, AccountingInv, PositionTerms, TypeInv
    <2>5. DripShares(v)[p] <= SumTo(DripShares(v), NumPositions)
        BY <1>3, <2>1, SumBounds DEF Positions
    <2> QED BY <1>2, <1>5, <2>3, <2>4, <2>5
<1> QED BY <1>1, <1>2, <1>4, <1>5, EagerSum

\* A step that changes no position's terms, no vault's last drip and no A is none
\* of the eager vault's.
LEMMA NoEagerStep ==
    ASSUME AccountingInv,
           \A p \in Positions :
              /\ Phase(p)' = Phase(p)
              /\ position'[p].status = "open" <=> position[p].status = "open"
              /\ position'[p].vault = position[p].vault
              /\ position'[p].drip_period_id_before_deposit
                    = position[p].drip_period_id_before_deposit
              /\ position'[p].number_of_swaps = position[p].number_of_swaps
              /\ position'[p].periodic_drip_amount = position[p].periodic_drip_amount,
           \A v \in Vaults : /\ vault'[v].last_drip_period = vault[v].last_drip_period
                             /\ balance'[v]["A"] = balance[v]["A"]
    PROVE  Holding' = Holding /\ Fund' = Fund
<1>1. \A p \in Positions : position[p].status = "open" => position[p].vault \in Vaults
    BY DEF AccountingInv, PositionTerms
<1>2. \A p \in Positions : DripsLeft(p)' = DripsLeft(p)
    BY <1>1 DEF DripsLeft, Active, Expiry
<1> QED BY <1>2 DEF Holding, Fund

\* A payment takes its amount out of one account and puts it, or nothing, into another.
LEMMA PaidInFull ==
    ASSUME NEW b \in Balances, NEW v \in Vaults, NEW t \in Tokens, NEW to, NEW n \in Nat,
           CanPay(b, v, t, to, n)
    PROVE  \E w \in Vaults, m \in {0, n} :
             \A u \in Vaults : Paid(b, v, t, to, n)[u][t]
                 = b[u][t] - (IF u = v THEN n ELSE 0) + (IF u = w THEN m ELSE 0)
<1> DEFINE taken == [b EXCEPT ![v][t] = @ - n]
           gone  == Paid(b, v, t, to, n)
<1>1. \A u \in Vaults : b[u][t] \in Nat
    BY BalanceNat
<1>2. \A u \in Vaults : taken[u][t] = b[u][t] - (IF u = v THEN n ELSE 0)
    BY <1>1 DEF Balances
<1>3. CASE to \notin VaultAccounts
    <2>1. gone = taken
        BY <1>3 DEF Paid
    <2> HIDE DEF taken, gone
    <2>2. \A u \in Vaults :
             gone[u][t] = b[u][t] - (IF u = v THEN n ELSE 0) + (IF u = v THEN 0 ELSE 0)
        BY <1>1, <1>2, <2>1
    <2> QED BY <2>2 DEF gone
<1>4. CASE to \in VaultAccounts
    <2>1. PICK x \in Vaults : to[1] = x /\ to[2] = t
        BY <1>4 DEF VaultAccounts, CanPay
    <2>2. gone = [taken EXCEPT ![x][t] = @ + n]
        BY <1>4, <2>1 DEF Paid
    <2>3. \A u \in Vaults : gone[u][t] = IF u = x THEN taken[u][t] + n ELSE taken[u][t]
        <3>1. DOMAIN taken = Vaults /\ \A u \in Vaults : DOMAIN taken[u] = Tokens
            BY DEF Balances
        <3> HIDE DEF taken, gone
        <3> QED BY <2>2, <3>1
    <2> HIDE DEF taken, gone
    <2>4. \A u \in Vaults :
             gone[u][t] = b[u][t] - (IF u = v THEN n ELSE 0) + (IF u = x THEN n ELSE 0)
        BY <1>1, <1>2, <2>3
    <2> QED BY <2>4 DEF gone
<1> QED BY <1>3, <1>4

\* What vaults hold of A after a payment is what the eager vault's funds are.
LEMMA SpendsWhen ==
    ASSUME NEW v \in Vaults, NEW w \in Vaults, NEW n \in Nat, NEW m \in Nat,
           \A u \in Vaults : balance[u]["A"] \in Nat,
           \A u \in Vaults : balance'[u]["A"]
               = balance[u]["A"] - (IF u = v THEN n ELSE 0) + (IF u = w THEN m ELSE 0)
    PROVE  Eager!Spends(v, n, m, w)
<1> DEFINE spent == [Fund EXCEPT ![v] = @ - n]
<1>1. \A u \in Vaults : spent[u] = balance[u]["A"] - (IF u = v THEN n ELSE 0)
    BY DEF Fund
<1>2. spent = [u \in Vaults |-> spent[u]]
    BY DEF Fund
<1>3. Fund' = [u \in Vaults |-> balance'[u]["A"]]
    BY DEF Fund
<1>4. Fund' = [spent EXCEPT ![w] = @ + m]
    <2> HIDE DEF spent
    <2>1. \A u \in Vaults : balance'[u]["A"] = IF u = w THEN spent[u] + m ELSE spent[u]
        BY <1>1
    <2> QED BY <1>2, <1>3, <2>1
<1> QED BY <1>4 DEF Eager!Spends

-----------------------------------------------------------------------------
(* Initial states *)

\* A vault in its initial state is an eager vault in one: nobody holds anything.
LEMMA InitRefines == Init => Eager!EagerInit
<1> SUFFICES ASSUME Init
             PROVE  Eager!EagerInit
    OBVIOUS
<1>1. \A p \in Positions : position[p].status \in {"none", "legacy"}
    <2>1. PICK owner :
             position = [p \in Positions |->
                 IF p \in LegacyPositions
                 THEN [NoPosition EXCEPT !.status = "legacy", !.vault = owner[p]]
                 ELSE NoPosition]
        BY DEF Init
    <2> QED BY <2>1 DEF NoPosition
<1>2. \A p \in Positions : Holding[p].phase \in {"none", "gone"}
    BY <1>1, HoldingOf DEF Phase
<1>3. Fund = [v \in Vaults |-> 0]
    BY DEF Fund, Init, Tokens
<1> QED BY <1>2, <1>3 DEF Eager!EagerInit, Positions

-----------------------------------------------------------------------------
(* Instructions the eager vault does not see *)

\* Set-up, time, and what happens to the NFTs.
LEMMA UnseenSteps ==
    ASSUME AccountingInv
    PROVE  /\ \A c \in Configs, params \in ConfigParams :
                InitVaultProtoConfig(c, params) => Holding' = Holding /\ Fund' = Fund
           /\ \A v \in Vaults, admin \in Signers, list \in WhitelistParams :
                InitVault(v, admin, list) \/ SetVaultSwapWhitelist(v, admin, list)
                    => Holding' = Holding /\ Fund' = Fund
           /\ \A v \in Vaults, k \in PeriodIds :
                InitVaultPeriod(v, k) => Holding' = Holding /\ Fund' = Fund
           /\ \A p \in Positions, to \in Users :
                TransferNft(p, to) => Holding' = Holding /\ Fund' = Fund
           /\ Tick \/ UNCHANGED vars => Holding' = Holding /\ Fund' = Fund
<1>1. ASSUME position' = position, balance' = balance,
             \A v \in Vaults : vault'[v].last_drip_period = vault[v].last_drip_period
      PROVE  Holding' = Holding /\ Fund' = Fund
    BY <1>1, NoEagerStep DEF Phase
<1>2. ASSUME NEW v \in Vaults, NEW admin \in Signers, NEW list \in WhitelistParams,
             InitVault(v, admin, list)
      PROVE  Holding' = Holding /\ Fund' = Fund
    <2>1. vault[v].last_drip_period = 0
        BY <1>2 DEF InitVault, AccountingInv, AccountsFresh
    <2>2. InitialVault(Config(v).granularity, list).last_drip_period = 0
        BY DEF InitialVault, SetWhitelistedSwaps, NoVault
    <2>3. \A w \in Vaults : vault'[w].last_drip_period = vault[w].last_drip_period
        BY <1>2, <2>1, <2>2 DEF InitVault, AccountingInv, TypeInv, TypeOK
    <2> QED BY <1>1, <1>2, <2>3 DEF InitVault
<1>3. ASSUME NEW v \in Vaults, NEW admin \in Signers, NEW list \in WhitelistParams,
             SetVaultSwapWhitelist(v, admin, list)
      PROVE  Holding' = Holding /\ Fund' = Fund
    <2>1. \A w \in Vaults : vault[w] \in VaultType
        BY VaultParts DEF AccountingInv, TypeInv
    <2>2. \A r \in VaultType : SetWhitelistedSwaps(r, list).last_drip_period = r.last_drip_period
        BY DEF SetWhitelistedSwaps, VaultType
    <2>3. \A w \in Vaults : vault'[w].last_drip_period = vault[w].last_drip_period
        BY <1>3, <2>1, <2>2 DEF SetVaultSwapWhitelist, AccountingInv, TypeInv, TypeOK
    <2> QED BY <1>1, <1>3, <2>3 DEF SetVaultSwapWhitelist
<1>4. \A c \in Configs, params \in ConfigParams :
         InitVaultProtoConfig(c, params) => Holding' = Holding /\ Fund' = Fund
    BY <1>1 DEF InitVaultProtoConfig
<1>5. \A v \in Vaults, k \in PeriodIds :
         InitVaultPeriod(v, k) => Holding' = Holding /\ Fund' = Fund
    BY <1>1 DEF InitVaultPeriod
<1>6. \A p \in Positions, to \in Users :
         TransferNft(p, to) => Holding' = Holding /\ Fund' = Fund
    BY <1>1 DEF TransferNft
<1>7. Tick \/ UNCHANGED vars => Holding' = Holding /\ Fund' = Fund
    BY <1>1 DEF Tick, vars
<1> QED BY <1>2, <1>3, <1>4, <1>5, <1>6, <1>7

\* B leaves the vault, or the account of a position closed long ago does.
LEMMA UnseenWithdrawals ==
    ASSUME AccountingInv, NEW v \in Vaults
    PROVE  /\ \A p \in Positions, withdrawer \in Signers, i, j \in PeriodAccounts :
                WithdrawB(p, v, withdrawer, i, j) => Holding' = Holding /\ Fund' = Fund
           /\ \A p \in Positions, admin \in Signers :
                ClosePositionAccount(p, v, admin) => Holding' = Holding /\ Fund' = Fund
           /\ \A admin \in Signers, to \in PayoutAccounts :
                EmptyTokenAccount(v, admin, "B", to) => Holding' = Holding /\ Fund' = Fund
<1>1. \A q \in Positions : position[q] \in PositionType
    BY PositionParts DEF AccountingInv, TypeInv
<1>2. "A" \in Tokens /\ "B" \in Tokens /\ "A" # "B"
    BY DEF Tokens
<1>3. TypeInv /\ position \in [Positions -> PositionType]
    BY DEF AccountingInv, TypeInv, TypeOK
<1>4. ASSUME NEW p \in Positions, NEW withdrawer \in Signers, NEW i \in PeriodAccounts, NEW j \in PeriodAccounts,
             WithdrawB(p, v, withdrawer, i, j)
      PROVE  Holding' = Holding /\ Fund' = Fund
    <2>1. \E b : position' = [position EXCEPT ![p].withdrawn_token_b_amount = b]
        BY <1>4 DEF WithdrawB
    <2>2. SpentAtMost(balance, balance', v, "B", BeforeFees(p, v, i, j))
        BY <1>3, <1>4, WithdrawBType
    <2>3. \A w \in Vaults : balance'[w]["A"] = balance[w]["A"]
        BY <1>2, <2>2 DEF SpentAtMost
    <2>4. \A q \in Positions :
             /\ position'[q].status = position[q].status
             /\ position'[q].vault = position[q].vault
             /\ position'[q].drip_period_id_before_deposit
                   = position[q].drip_period_id_before_deposit
             /\ position'[q].number_of_swaps = position[q].number_of_swaps
             /\ position'[q].periodic_drip_amount = position[q].periodic_drip_amount
        BY <1>1, <1>3, <2>1 DEF PositionType
    <2>5. vault' = vault
        BY <1>4 DEF WithdrawB
    <2> QED BY <2>3, <2>4, <2>5, NoEagerStep DEF Phase
<1>5. ASSUME NEW p \in Positions, NEW admin \in Signers, ClosePositionAccount(p, v, admin)
      PROVE  Holding' = Holding /\ Fund' = Fund
    <2>1. \A q \in Positions :
             /\ position'[q].status = IF q = p THEN "closed" ELSE position[q].status
             /\ position'[q].vault = position[q].vault
             /\ position'[q].drip_period_id_before_deposit
                   = position[q].drip_period_id_before_deposit
             /\ position'[q].number_of_swaps = position[q].number_of_swaps
             /\ position'[q].periodic_drip_amount = position[q].periodic_drip_amount
        BY <1>1, <1>3, <1>5 DEF ClosePositionAccount, PositionType
    <2>2. vault' = vault /\ balance' = balance /\ position[p].status = "legacy"
        BY <1>5 DEF ClosePositionAccount
    <2> QED BY <2>1, <2>2, NoEagerStep DEF Phase
<1>6. ASSUME NEW admin \in Signers, NEW to \in PayoutAccounts,
             EmptyTokenAccount(v, admin, "B", to)
      PROVE  Holding' = Holding /\ Fund' = Fund
    <2>1. \A w \in Vaults : balance'[w]["A"] = balance[w]["A"]
        BY <1>2, <1>3, <1>6, EmptiedFacts DEF SpentAtMost
    <2> QED BY <1>6, <2>1, NoEagerStep DEF EmptyTokenAccount, Phase
<1> QED BY <1>4, <1>5, <1>6
-----------------------------------------------------------------------------
(* Instructions the eager vault takes too *)

\* The admin takes A only from a vault whose drip_amount is zero, and that is one
\* where nobody has drips left.
LEMMA TakeDustRefines ==
    ASSUME AccountingInv, NEW v \in Vaults, NEW admin \in Signers,
           NEW to \in PayoutAccounts, EmptyTokenAccount(v, admin, "A", to)
    PROVE  Eager!TakeDust(v)
<1>1. vault[v].drip_amount = 0
    BY DEF EmptyTokenAccount
<1>2. Eager!Dripping(v) = {}
    BY <1>1, EagerShares
<1>3. Holding' = Holding
    BY DEF Holding, Phase, DripsLeft, Active, Expiry, EmptyTokenAccount
<1>4. \E w \in Vaults, kept \in {0, Fund[v]} : Eager!Spends(v, Fund[v], kept, w)
    <2> DEFINE n == balance[v]["A"]
    <2>1. balance \in Balances /\ "A" \in Tokens /\ Fund[v] = n
        BY DEF AccountingInv, TypeInv, TypeOK, Balances, Tokens, Fund
    <2>2. \A u \in Vaults : balance[u]["A"] \in Nat
        BY <2>1, BalanceNat
    <2>3. n \in Nat /\ CanPay(balance, v, "A", to, n) /\ balance' = Paid(balance, v, "A", to, n)
        BY <2>2 DEF EmptyTokenAccount
    <2> HIDE DEF n
    <2>4. PICK w \in Vaults, m \in {0, n} :
             \A u \in Vaults : balance'[u]["A"]
                 = balance[u]["A"] - (IF u = v THEN n ELSE 0) + (IF u = w THEN m ELSE 0)
        BY <2>1, <2>3, PaidInFull
    <2>5. Eager!Spends(v, n, m, w)
        BY <2>2, <2>3, <2>4, SpendsWhen
    <2> QED BY <2>1, <2>5
<1> QED BY <1>2, <1>3, <1>4 DEF Eager!TakeDust

\* A deposit opens a position that has paid for all its drips.
LEMMA OpenRefines ==
    ASSUME AccountingInv, NEW p \in Positions, NEW v \in Vaults, NEW depositor \in Users,
           NEW end \in PeriodAccounts, NEW amount \in DepositAmounts, NEW n \in SwapCounts,
           Deposit(p, v, depositor, end, amount, n)
    PROVE  Eager!Open(p, v)
<1> DEFINE per  == PeriodicDripAmount(amount, n)
           last == vault[v].last_drip_period
<1>1. n \in Nat \ {0} /\ per \in Nat /\ per > 0 /\ n * per <= amount /\ amount \in Nat
    <2>1. n \in Nat \ {0} /\ amount \in Nat
        BY BoundAssumption, CheckedAmounts DEF Deposit
    <2>2. per > 0
        BY DEF Deposit
    <2> QED BY <2>1, <2>2, PeriodicDripAmountBounds
<1>2. last \in Nat
    BY VaultParts, BoundAssumption DEF AccountingInv, TypeInv, PeriodIds
<1>3. /\ position[p].status = "none"
      /\ position' = [position EXCEPT ![p] =
           [status |-> "open", vault |-> v, deposited_token_a_amount |-> amount,
            withdrawn_token_b_amount |-> 0, drip_period_id_before_deposit |-> last,
            number_of_swaps |-> n, periodic_drip_amount |-> per]]
    BY DEF Deposit, FreshMint
<1>4. \A w \in Vaults : vault'[w].last_drip_period = vault[w].last_drip_period
    <2>1. \A w \in Vaults : vault[w] \in VaultType
        BY VaultParts DEF AccountingInv, TypeInv
    <2>2. vault' = [vault EXCEPT ![v].drip_amount = @ + per]
        BY DEF Deposit
    <2> HIDE DEF per
    <2> QED BY <2>1, <2>2 DEF AccountingInv, TypeInv, TypeOK, VaultType
<1>5. \A w \in Vaults : balance'[w]["A"] = IF w = v THEN balance[v]["A"] + amount
                                                   ELSE balance[w]["A"]
    <2>1. \A w \in Vaults : balance[w] \in [Tokens -> Amount] /\ "A" \in Tokens
        BY VaultParts DEF AccountingInv, TypeInv, Tokens
    <2> QED BY <2>1 DEF Deposit, AccountingInv, TypeInv, TypeOK
<1> HIDE DEF per, last
<1>6. /\ position'[p].status = "open" /\ position'[p].vault = v
      /\ position'[p].drip_period_id_before_deposit = last
      /\ position'[p].number_of_swaps = n /\ position'[p].periodic_drip_amount = per
      /\ \A q \in Positions : q # p => position'[q] = position[q]
    BY <1>3 DEF AccountingInv, TypeInv, TypeOK
<1>7. Holding'[p].phase = "open" /\ Holding'[p].vault = v /\ Holding'[p].share = per
      /\ Holding'[p].left = n
    <2>1. Expiry(p)' = last + n /\ vault'[v].last_drip_period = last
        BY <1>4, <1>6 DEF Expiry, last
    <2>2. DripsLeft(p)' = n
        BY <1>1, <1>2, <1>6, <2>1 DEF DripsLeft, Active
    <2> QED BY <1>6, <2>2, HoldingOfNext DEF Phase
<1>8. ASSUME NEW q \in Positions, q # p
      PROVE  Holding'[q] = Holding[q]
    <2>1. position'[q] = position[q]
        BY <1>6, <1>8
    <2>2. position[q].status = "open" => position[q].vault \in Vaults
        BY DEF AccountingInv, PositionTerms
    <2>3. Phase(q)' = Phase(q) /\ DripsLeft(q)' = DripsLeft(q)
        BY <1>4, <2>1, <2>2 DEF Phase, DripsLeft, Active, Expiry
    <2> QED BY <2>1, <2>3 DEF Holding
<1>9. Holding' = [Holding EXCEPT ![p] = Holding'[p]]
    <2>1. Holding' = [q \in Positions |-> Holding'[q]] /\ Holding = [q \in Positions |-> Holding[q]]
        BY DEF Holding
    <2> QED BY <1>8, <2>1
<1>10. Fund' = [Fund EXCEPT ![v] = Fund'[v]]
    BY <1>5 DEF Fund
<1>11. Fund'[v] >= Fund[v] + n * per
    <2>1. Fund'[v] = balance[v]["A"] + amount /\ Fund[v] = balance[v]["A"]
        BY <1>5 DEF Fund
    <2>2. balance[v]["A"] \in Nat
        BY VaultParts, CheckedAmounts DEF AccountingInv, TypeInv
    <2>3. n * per \in Nat
        BY <1>1
    <2> QED BY <1>1, <2>1, <2>2, <2>3
<1>12. Holding[p].phase = "none"
    BY <1>3, HoldingOf DEF Phase
<1> QED BY <1>1, <1>7, <1>9, <1>10, <1>11, <1>12 DEF Eager!Open

\* A drip spends one share of everyone with drips left: what leaves the vault is
\* its drip_amount, whoever gets the fee, and every such position is one period nearer
\* its expiry.
LEMMA DripAllRefines ==
    ASSUME AccountingInv, NEW v \in Vaults, NEW last \in PeriodAccounts,
           NEW current \in PeriodAccounts, NEW swap \in Swaps, NEW fee_account,
           NEW swapped_a \in 0 .. SwapAmount(v), NEW received_b \in ReceivedAmounts,
           Drip(v, last, current, swap, fee_account, swapped_a, received_b)
    PROVE  Eager!DripAll(v)
<1> DEFINE k0 == vault[v].last_drip_period + 1
<1>1. position' = position /\ vault[v].drip_amount > 0
    BY DEF Drip
<1>2. /\ vault'[v].last_drip_period = k0
      /\ \A w \in Vaults : w # v => vault'[w] = vault[w]
    <2>1. current.period_id = k0
        BY DEF Drip, IsPeriod
    <2>2. \E x, t : vault' = [vault EXCEPT ![v] =
               [vault[v] EXCEPT !.drip_amount = x, !.last_drip_period = k0,
                                !.drip_activation_timestamp = t]]
        <3>1. vault' = [vault EXCEPT ![v] =
               [vault[v] EXCEPT !.drip_amount = @ - Data(current).dar,
                                !.last_drip_period = k0,
                                !.drip_activation_timestamp =
                                    ActivationTimestamp(now, Config(v).granularity, TRUE)]]
            BY <2>1 DEF Drip, ProcessDrip
        <3> HIDE DEF k0
        <3> QED BY <3>1
    <2>3. vault[v] \in VaultType
        BY VaultParts DEF AccountingInv, TypeInv
    <2> HIDE DEF k0
    <2> QED BY <2>2, <2>3 DEF VaultType, AccountingInv, TypeInv, TypeOK
<1>3. \E w \in Vaults, fee \in 0 .. vault[v].drip_amount :
         /\ w = v => fee = 0
         /\ Eager!Spends(v, vault[v].drip_amount, fee, w)
    <2> DEFINE spread == SpreadOnDrip(v)
               n      == vault[v].drip_amount
               paid   == Paid(balance, v, "A", fee_account, spread)
    <2>1. TypeInv /\ balance \in Balances /\ "A" \in Tokens /\ "B" \in Tokens /\ "A" # "B"
        BY DEF AccountingInv, TypeInv, TypeOK, Balances, Tokens
    <2>2. spread \in Nat /\ n \in Nat /\ spread <= n
        <3>1. spread \in Nat /\ SwapAmount(v) \in Nat
            BY <2>1, SwapAmountType DEF Drip
        <3>2. n \in Nat /\ SwapAmount(v) = n - spread
            BY <2>1, VaultParts, CheckedAmounts DEF TypeInv, SwapAmount
        <3> HIDE DEF spread, n
        <3> QED BY <3>1, <3>2
    <2>3. \A u \in Vaults : balance[u]["A"] \in Nat
        BY <2>1, BalanceNat
    <2>4. CanPay(balance, v, "A", fee_account, spread)
        BY DEF Drip
    <2>5. balance'[v]["A"] = balance[v]["A"] - n
        BY <2>1, DripSpends
    <2>6. \A u \in Vaults \ {v} : balance'[u]["A"] = paid[u]["A"]
        <3>1. paid \in Balances
            BY <2>1, <2>2, <2>4, PaidFacts
        <3>2. balance' = [paid EXCEPT ![v]["A"] = @ - swapped_a, ![v]["B"] = @ + received_b]
            BY DEF Drip
        <3> HIDE DEF paid
        <3> QED BY <3>1, <3>2 DEF Balances
    <2> HIDE DEF spread, n
    <2>7. PICK w \in Vaults, m \in {0, spread} :
             \A u \in Vaults : paid[u]["A"]
                 = balance[u]["A"] - (IF u = v THEN spread ELSE 0) + (IF u = w THEN m ELSE 0)
        BY <2>1, <2>2, <2>4, PaidInFull
    <2> HIDE DEF paid
    <2>8. m \in 0 .. n /\ m \in Nat
        BY <2>2
    <2>9. CASE w = v
        <3>1. \A u \in Vaults : balance'[u]["A"]
                 = balance[u]["A"] - (IF u = v THEN n ELSE 0) + (IF u = v THEN 0 ELSE 0)
            BY <2>2, <2>3, <2>5, <2>6, <2>7, <2>9
        <3>2. Eager!Spends(v, n, 0, v)
            BY <2>2, <2>3, <3>1, SpendsWhen
        <3> QED BY <2>2, <3>2 DEF n
    <2>10. CASE w # v
        <3>1. \A u \in Vaults : balance'[u]["A"]
                 = balance[u]["A"] - (IF u = v THEN n ELSE 0) + (IF u = w THEN m ELSE 0)
            BY <2>2, <2>3, <2>5, <2>6, <2>7, <2>8, <2>10
        <3>2. Eager!Spends(v, n, m, w)
            BY <2>2, <2>3, <2>8, <3>1, SpendsWhen
        <3> QED BY <2>8, <2>10, <3>2 DEF n
    <2> QED BY <2>9, <2>10
<1>4. vault[v].last_drip_period \in Nat
    BY VaultParts, BoundAssumption DEF AccountingInv, TypeInv, PeriodIds
<1> HIDE DEF k0
<1>5. ASSUME NEW p \in Positions, Active(p, v)
      PROVE  DripsLeft(p)' = DripsLeft(p) - 1
    <2>1. position[p].vault = v /\ position[p].status = "open" /\ Expiry(p)' = Expiry(p)
        BY <1>1, <1>5 DEF Active, Expiry
    <2>2. Expiry(p) \in Nat /\ vault[v].last_drip_period < Expiry(p)
        BY <1>5, PositionParts DEF Active, AccountingInv, TypeInv
    <2>3. DripsLeft(p) = Expiry(p) - vault[v].last_drip_period
        BY <1>5, <2>1 DEF DripsLeft
    <2>4. DripsLeft(p)' = IF vault'[v].last_drip_period < Expiry(p)
                          THEN Expiry(p) - vault'[v].last_drip_period ELSE 0
        BY <1>1, <2>1 DEF DripsLeft, Active
    <2> QED BY <1>2, <1>4, <2>2, <2>3, <2>4 DEF k0
<1>6. ASSUME NEW p \in Positions, ~ Active(p, v)
      PROVE  DripsLeft(p)' = DripsLeft(p)
    <2>1. Expiry(p)' = Expiry(p) /\ position'[p] = position[p]
        BY <1>1 DEF Expiry
    <2>2. CASE position[p].status = "open" /\ position[p].vault = v
        <3>1. ~ (vault[v].last_drip_period < Expiry(p))
            BY <1>6, <2>2 DEF Active
        <3>2. ~ (vault'[v].last_drip_period < Expiry(p))
            BY <1>2, <1>4, <3>1, PositionParts DEF k0, AccountingInv, TypeInv
        <3> QED BY <2>1, <2>2, <3>1, <3>2 DEF DripsLeft, Active
    <2>3. CASE position[p].status = "open" /\ position[p].vault # v
        <3>1. position[p].vault \in Vaults
            BY <2>3 DEF AccountingInv, PositionTerms
        <3> QED BY <1>2, <2>1, <2>3, <3>1 DEF DripsLeft, Active
    <2>4. CASE position[p].status # "open"
        BY <2>1, <2>4 DEF DripsLeft, Active
    <2> QED BY <2>2, <2>3, <2>4
<1>7. Holding' = [p \in 1 .. NumPositions |->
         IF p \in Eager!Dripping(v) THEN [Holding[p] EXCEPT !.left = @ - 1] ELSE Holding[p]]
    <2>1. ASSUME NEW p \in Positions
          PROVE  Holding'[p] = IF p \in Eager!Dripping(v)
                               THEN [Holding[p] EXCEPT !.left = @ - 1] ELSE Holding[p]
        <3>1. /\ Holding'[p] = [phase |-> Phase(p), vault |-> position[p].vault,
                    share |-> position[p].periodic_drip_amount, left |-> DripsLeft(p)']
              /\ Holding[p] = [phase |-> Phase(p), vault |-> position[p].vault,
                    share |-> position[p].periodic_drip_amount, left |-> DripsLeft(p)]
            BY <1>1, HoldingOf, HoldingOfNext DEF Phase
        <3>2. p \in Eager!Dripping(v) <=> Active(p, v)
            BY DrippingActive
        <3> QED BY <1>5, <1>6, <3>1, <3>2
    <2>2. Holding' = [p \in Positions |-> Holding'[p]]
        BY DEF Holding
    <2> QED BY <2>1, <2>2 DEF Positions
<1>8. \E w \in Vaults, fee \in 0 .. Eager!SumTo(Eager!Shares(v), NumPositions) :
         /\ w = v => fee = 0
         /\ Eager!Spends(v, Eager!SumTo(Eager!Shares(v), NumPositions), fee, w)
    BY <1>3, EagerShares
<1>9. Eager!Dripping(v) # {}
    BY <1>1, EagerShares
<1> QED BY <1>7, <1>8, <1>9 DEF Eager!DripAll

\* A close pays out the shares the position has not spent.
LEMMA CloseRefines ==
    ASSUME AccountingInv, NEW p \in Positions, NEW v \in Vaults, NEW withdrawer \in Signers,
           NEW i \in PeriodAccounts, NEW j \in PeriodAccounts, NEW expiry \in PeriodAccounts,
           ClosePosition(p, v, withdrawer, i, j, expiry)
    PROVE  Eager!Close(p)
<1>1. position[p].status = "open" /\ position[p].vault = v
    BY DEF ClosePosition, ValidWithdrawal
<1>2. \A q \in Positions :
         /\ position'[q].status = IF q = p THEN "closed" ELSE position[q].status
         /\ position'[q].vault = position[q].vault
         /\ position'[q].drip_period_id_before_deposit
               = position[q].drip_period_id_before_deposit
         /\ position'[q].number_of_swaps = position[q].number_of_swaps
         /\ position'[q].periodic_drip_amount = position[q].periodic_drip_amount
    <2>1. PICK b : position' = [position EXCEPT ![p].withdrawn_token_b_amount = b,
                                                ![p].status = "closed"]
        BY DEF ClosePosition
    <2>2. \A q \in Positions : position[q] \in PositionType
        BY PositionParts DEF AccountingInv, TypeInv
    <2> QED BY <2>1, <2>2 DEF PositionType, AccountingInv, TypeInv, TypeOK
<1>3. \A w \in Vaults : vault'[w].last_drip_period = vault[w].last_drip_period
    BY CloseEffects
<1>4. \A q \in Positions : q # p => Phase(q)' = Phase(q) /\ DripsLeft(q)' = DripsLeft(q)
    <2>1. \A q \in Positions : position[q].status = "open" => position[q].vault \in Vaults
        BY DEF AccountingInv, PositionTerms
    <2> QED BY <1>2, <1>3, <2>1 DEF Phase, DripsLeft, Active, Expiry
<1>5. Phase(p) = "open" /\ Phase(p)' = "gone" /\ DripsLeft(p)' = 0
    BY <1>1, <1>2 DEF Phase, DripsLeft, Active
<1>6. Holding' = [Holding EXCEPT ![p] = Eager!Gone(@)]
    <2>1. ASSUME NEW q \in Positions
          PROVE  Holding'[q] = IF q = p THEN Eager!Gone(Holding[p]) ELSE Holding[q]
        <3>1. /\ Holding[q] = [phase |-> Phase(q), vault |-> position[q].vault,
                    share |-> position[q].periodic_drip_amount, left |-> DripsLeft(q)]
              /\ Holding'[q] = [phase |-> Phase(q)', vault |-> position[q].vault,
                    share |-> position[q].periodic_drip_amount, left |-> DripsLeft(q)']
            BY <1>2, HoldingOf, HoldingOfNext
        <3>2. CASE q = p
            <4>1. /\ Holding[p] = [phase |-> Phase(p), vault |-> position[p].vault,
                        share |-> position[p].periodic_drip_amount, left |-> DripsLeft(p)]
                  /\ Holding'[p] = [phase |-> "gone", vault |-> position[p].vault,
                        share |-> position[p].periodic_drip_amount, left |-> 0]
                BY <1>2, <1>5, HoldingOf, HoldingOfNext
            <4> QED BY <3>2, <4>1 DEF Eager!Gone
        <3>3. CASE q # p
            BY <1>4, <3>1, <3>3
        <3> QED BY <3>2, <3>3
    <2>2. /\ Holding' = [q \in Positions |-> Holding'[q]]
          /\ Holding = [q \in Positions |-> Holding[q]]
        BY DEF Holding
    <2> QED BY <2>1, <2>2
<1>7. UnspentA(p, v) = Holding[p].left * Holding[p].share
    <2>1. position[p].periodic_drip_amount \in Nat
        BY PositionParts DEF AccountingInv, TypeInv
    <2>2. Holding[p].left = DripsLeft(p) /\ Holding[p].share = position[p].periodic_drip_amount
        BY HoldingOf
    <2>3. CASE Active(p, v)
        BY <1>1, <2>2, <2>3 DEF UnspentA, DripsLeft
    <2>4. CASE ~ Active(p, v)
        <3>1. DripsLeft(p) = 0 /\ UnspentA(p, v) = 0
            BY <1>1, <2>4 DEF UnspentA, DripsLeft
        <3> QED BY <2>1, <2>2, <3>1
    <2> QED BY <2>3, <2>4
<1>8. \E w \in Vaults, kept \in {0, UnspentA(p, v)} : Eager!Spends(v, UnspentA(p, v), kept, w)
    <2> DEFINE a == WithdrawTokenA(i.period_id, j.period_id,
                        position[p].number_of_swaps, position[p].periodic_drip_amount)
               n == UnspentA(p, v)
    <2>1. TypeInv /\ balance \in Balances /\ "A" \in Tokens /\ "A" # "B"
        BY DEF AccountingInv, TypeInv, TypeOK, Balances, Tokens
    <2>2. a = n /\ a \in Nat
        <3>1. ValidWithdrawal(p, v, i, j) /\ PositionTerms
            BY DEF ClosePosition, AccountingInv
        <3>2. WithdrawTokenADefined(i.period_id, j.period_id,
                  position[p].number_of_swaps, position[p].periodic_drip_amount)
            BY DEF ClosePosition
        <3>3. a = n
            BY <2>1, <3>1, RefundIsUnspent
        <3>4. a \in Nat
            BY <2>1, <3>1, <3>2, RefundType, CheckedAmounts DEF TypeInv
        <3> QED BY <3>3, <3>4
    <2>3. PICK paid \in Balances, user_a \in PayoutAccounts :
             /\ SpentAtMost(balance, paid, v, "B", BeforeFees(p, v, i, j))
             /\ IF a > 0 THEN /\ CanPay(paid, v, "A", user_a, a)
                              /\ balance' = Paid(paid, v, "A", user_a, a)
                         ELSE balance' = paid
        BY <2>1, CloseSpends
    <2> HIDE DEF a, n
    <2>4. \A u \in Vaults : paid[u]["A"] = balance[u]["A"] /\ balance[u]["A"] \in Nat
        BY <2>1, <2>3, BalanceNat DEF SpentAtMost
    <2>5. CASE n > 0
        <3>1. PICK w \in Vaults, m \in {0, n} :
                 \A u \in Vaults : balance'[u]["A"]
                     = paid[u]["A"] - (IF u = v THEN n ELSE 0) + (IF u = w THEN m ELSE 0)
            BY <2>1, <2>2, <2>3, <2>5, PaidInFull
        <3>2. Eager!Spends(v, n, m, w)
            BY <2>2, <2>4, <3>1, SpendsWhen
        <3> QED BY <3>2 DEF n
    <2>6. CASE n = 0
        <3>1. \A u \in Vaults : balance'[u]["A"]
                 = balance[u]["A"] - (IF u = v THEN n ELSE 0) + (IF u = v THEN 0 ELSE 0)
            BY <2>2, <2>3, <2>4, <2>6
        <3>2. Eager!Spends(v, n, 0, v)
            BY <2>2, <2>4, <3>1, SpendsWhen
        <3> QED BY <3>2 DEF n
    <2> QED BY <2>2, <2>5, <2>6
<1>9. Holding[p].phase = "open" /\ p \in 1 .. NumPositions
    BY <1>5, HoldingOf DEF Positions
<1>10. Holding[p].vault = v
    BY <1>1, HoldingOf
<1> QED BY <1>6, <1>7, <1>8, <1>9, <1>10 DEF Eager!Close

-----------------------------------------------------------------------------
(* Every step *)

\* One instruction of the program is one step of the eager vault, or none.
LEMMA StepRefines == AccountingInv /\ [Next]_vars => [Eager!EagerNext]_(Eager!eager)
<1> SUFFICES ASSUME AccountingInv, [Next]_vars
             PROVE  Eager!EagerNext \/ (Holding' = Holding /\ Fund' = Fund)
    BY DEF Eager!eager
<1>1. ASSUME NEW c \in Configs, NEW params \in ConfigParams, InitVaultProtoConfig(c, params)
      PROVE  Holding' = Holding /\ Fund' = Fund
    BY <1>1, UnseenSteps
<1>2. ASSUME NEW v \in Vaults, NEW k \in PeriodIds, InitVaultPeriod(v, k)
      PROVE  Holding' = Holding /\ Fund' = Fund
    BY <1>2, UnseenSteps
<1>3. ASSUME NEW v \in Vaults, DripStep(v)
      PROVE  Eager!EagerNext
    BY <1>3, DripAllRefines DEF DripStep, Eager!EagerNext
<1>4. ASSUME NEW p \in Positions, NEW v \in Vaults, DepositStep(p, v)
      PROVE  Eager!EagerNext
    BY <1>4, OpenRefines DEF DepositStep, Eager!EagerNext, Positions
<1>5. ASSUME NEW p \in Positions, NEW v \in Vaults, WithdrawBStep(p, v)
      PROVE  Holding' = Holding /\ Fund' = Fund
    BY <1>5, UnseenWithdrawals DEF WithdrawBStep
<1>6. ASSUME NEW p \in Positions, NEW v \in Vaults, ClosePositionStep(p, v)
      PROVE  Eager!EagerNext
    BY <1>6, CloseRefines DEF ClosePositionStep, Eager!EagerNext, Positions
<1>7. ASSUME NEW v \in Vaults, AdminStep(v)
      PROVE  Eager!EagerNext \/ (Holding' = Holding /\ Fund' = Fund)
    <2>1. PICK admin \in Signers :
             \/ \E list \in WhitelistParams : InitVault(v, admin, list)
             \/ \E list \in WhitelistParams : SetVaultSwapWhitelist(v, admin, list)
             \/ \E token \in Tokens, to \in PayoutAccounts :
                    EmptyTokenAccount(v, admin, token, to)
             \/ \E p \in Positions : ClosePositionAccount(p, v, admin)
        BY <1>7 DEF AdminStep, WithdrawA, AdminWithdraw, Tokens
    <2>2. CASE \E list \in WhitelistParams :
                  InitVault(v, admin, list) \/ SetVaultSwapWhitelist(v, admin, list)
        BY <2>2, UnseenSteps
    <2>3. CASE \E to \in PayoutAccounts : EmptyTokenAccount(v, admin, "A", to)
        BY <2>3, TakeDustRefines DEF Eager!EagerNext
    <2>4. CASE \E to \in PayoutAccounts : EmptyTokenAccount(v, admin, "B", to)
        BY <2>4, UnseenWithdrawals
    <2>5. CASE \E p \in Positions : ClosePositionAccount(p, v, admin)
        BY <2>5, UnseenWithdrawals
    <2> QED BY <2>1, <2>2, <2>3, <2>4, <2>5 DEF Tokens
<1>8. ASSUME NEW p \in Positions, NEW to \in Users, TransferNft(p, to)
      PROVE  Holding' = Holding /\ Fund' = Fund
    BY <1>8, UnseenSteps
<1>9. ASSUME Tick \/ UNCHANGED vars
      PROVE  Holding' = Holding /\ Fund' = Fund
    BY <1>9, UnseenSteps
<1> QED BY <1>1, <1>2, <1>3, <1>4, <1>5, <1>6, <1>7, <1>8, <1>9 DEF Next

\* The program's drip, which touches one vault and two periods, its withdrawals and
\* its closes move A exactly as a vault that spends one share of every position at
\* every drip would, for any number of vaults, positions and periods.
THEOREM Refinement == Spec => EagerSpec
<1>1. Init => Eager!EagerInit
    BY InitRefines
<1>2. AccountingInv /\ [Next]_vars => [Eager!EagerNext]_(Eager!eager)
    BY StepRefines
<1> QED BY <1>1, <1>2, Accounting, PTL DEF Spec, EagerSpec, Eager!EagerSpec
=============================================================================
