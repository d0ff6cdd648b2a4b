-------------------------- MODULE DripBalanceProofs ---------------------------
(***************************************************************************)
(* What the token accounts of a vault hold, for any number of vaults,      *)
(* positions and periods: exactly the unspent A and the dust of divided    *)
(* deposits, and enough B for everything the positions can withdraw.  And  *)
(* that they can: no withdrawal panics.                                    *)
(***************************************************************************)
EXTENDS DripHistoryProofs

-----------------------------------------------------------------------------
(* Token A, to the unit *)

\* What vault v holds of position p's deposit.
HeldA(p, v) == UnspentA(p, v) + DustA(p, v)

HeldAmounts(v) == [p \in Positions |-> HeldA(p, v)]

\* An account an earlier version of the program marked closed deposited nothing
\* that is still in a vault.
LegacyEmpty ==
    \A p \in Positions : position[p].status = "legacy" =>
        position[p].deposited_token_a_amount = 0 /\ position[p].number_of_swaps = 0

ExactInv ==
    /\ AccountingInv
    /\ LegacyEmpty
    /\ TokenAExact

\* What is held for a position is an integer.
LEMMA HeldType ==
    ASSUME TypeOK, NEW v \in Vaults
    PROVE  /\ \A p \in Positions : UnspentA(p, v) \in Int /\ DustA(p, v) \in Int
           /\ HeldAmounts(v) \in [1 .. NumPositions -> Int]
<1>1. ASSUME NEW p \in Positions
      PROVE  UnspentA(p, v) \in Int
    <2>1. UnspentAmounts(v)[p] \in Nat
        BY ShareTypes DEF Positions
    <2> QED BY <2>1 DEF UnspentAmounts
<1>2. ASSUME NEW p \in Positions
      PROVE  DustA(p, v) \in Int
    <2> DEFINE n == position[p].number_of_swaps
               per == position[p].periodic_drip_amount
    <2>1. n \in Nat /\ per \in Nat /\ position[p].deposited_token_a_amount \in Nat
        BY PositionParts
    <2>2. n * per \in Nat
        BY <2>1
    <2>3. DustA(p, v) = IF position[p].status \in {"open", "closed"} /\ position[p].vault = v
                        THEN position[p].deposited_token_a_amount - n * per ELSE 0
        BY DEF DustA
    <2> HIDE DEF n, per
    <2> QED BY <2>1, <2>2, <2>3
<1> QED BY <1>1, <1>2 DEF HeldAmounts, HeldA, Positions

\* A position's dust depends on its terms alone.
LEMMA SameDust ==
    ASSUME NEW p, NEW v,
           position'[p].status \in {"open", "closed"} <=> position[p].status \in {"open", "closed"},
           position'[p].vault = position[p].vault,
           position'[p].deposited_token_a_amount = position[p].deposited_token_a_amount,
           position'[p].number_of_swaps = position[p].number_of_swaps,
           position'[p].periodic_drip_amount = position[p].periodic_drip_amount
    PROVE  DustA(p, v)' = DustA(p, v)
BY DEF DustA

\* When what is held for one position changes, the sum changes by as much.
LEMMA OneHeldChanges ==
    ASSUME TypeOK, NEW v \in Vaults, NEW p \in Positions, HeldA(p, v)' \in Int,
           \A q \in Positions : q # p => HeldA(q, v)' = HeldA(q, v)
    PROVE  SumTo(HeldAmounts(v)', NumPositions)
              = SumTo(HeldAmounts(v), NumPositions) + (HeldA(p, v)' - HeldA(p, v))
<1>1. HeldAmounts(v) \in [1 .. NumPositions -> Int]
    BY HeldType
<1>2. HeldAmounts(v)' \in [1 .. NumPositions -> Int]
    <2>1. \A q \in Positions : HeldA(q, v)' \in Int
        BY HeldType DEF HeldA
    <2> QED BY <2>1 DEF HeldAmounts, Positions
<1>3. \A q \in 1 .. NumPositions : q # p => HeldAmounts(v)'[q] = HeldAmounts(v)[q]
    BY DEF HeldAmounts, Positions
<1>4. HeldAmounts(v)'[p] = HeldA(p, v)' /\ HeldAmounts(v)[p] = HeldA(p, v)
    BY DEF HeldAmounts
<1>5. p \in 1 .. NumPositions /\ NumPositions \in Nat
    BY AddressAssumption DEF Positions
<1> DEFINE f == HeldAmounts(v)
           g == HeldAmounts(v)'
<1> HIDE DEF f, g
<1>6. SumTo(g, NumPositions) = SumTo(f, NumPositions) + (g[p] - f[p])
    BY <1>1, <1>2, <1>3, <1>5, SumUpdate DEF f, g
<1> QED BY <1>4, <1>6 DEF f, g

\* A step that drips nothing, moves no A and leaves the terms of every position.
LEMMA ExactQuiet ==
    ASSUME ExactInv,
           \A v \in Vaults : /\ vault'[v].last_drip_period = vault[v].last_drip_period
                             /\ balance'[v]["A"] = balance[v]["A"],
           \A p \in Positions :
              /\ position'[p].status = "open" <=> position[p].status = "open"
              /\ position'[p].status \in {"open", "closed"}
                    <=> position[p].status \in {"open", "closed"}
              /\ position'[p].vault = position[p].vault
              /\ position'[p].deposited_token_a_amount = position[p].deposited_token_a_amount
              /\ position'[p].drip_period_id_before_deposit
                    = position[p].drip_period_id_before_deposit
              /\ position'[p].number_of_swaps = position[p].number_of_swaps
              /\ position'[p].periodic_drip_amount = position[p].periodic_drip_amount
    PROVE  TokenAExact'
<1>1. ASSUME NEW v \in Vaults, NEW p \in Positions
      PROVE  UnspentA(p, v)' = UnspentA(p, v) /\ DustA(p, v)' = DustA(p, v)
    BY SameShares, SameDust
<1> QED BY <1>1 DEF ExactInv, TokenAExact

\* The initial state holds nothing for nobody.
LEMMA InitExact == Init => ExactInv
<1> SUFFICES ASSUME Init
             PROVE  ExactInv
    OBVIOUS
<1>1. AccountingInv
    BY InitAccounting
<1>2. \A p \in Positions : /\ position[p].status \notin {"open", "closed"}
                           /\ position[p].deposited_token_a_amount = 0
                           /\ position[p].number_of_swaps = 0
    <2>1. PICK owner \in [LegacyPositions -> UpgradedVaults] :
             position = [p \in Positions |->
                 IF p \in LegacyPositions
                 THEN [NoPosition EXCEPT !.status = "legacy", !.vault = owner[p]]
                 ELSE NoPosition]
        BY DEF Init
    <2>2. ASSUME NEW x
          PROVE  /\ [NoPosition EXCEPT !.status = "legacy", !.vault = x].status = "legacy"
                 /\ [NoPosition EXCEPT !.status = "legacy", !.vault = x].number_of_swaps = 0
                 /\ [NoPosition EXCEPT !.status = "legacy",
                                       !.vault = x].deposited_token_a_amount = 0
        BY DEF NoPosition
    <2>3. /\ NoPosition.status = "none" /\ NoPosition.number_of_swaps = 0
          /\ NoPosition.deposited_token_a_amount = 0
        BY DEF NoPosition
    <2> QED BY <2>1, <2>2, <2>3
<1>3. LegacyEmpty
    BY <1>2 DEF LegacyEmpty
<1>4. TokenAExact
    <2> SUFFICES ASSUME NEW v \in Vaults
                 PROVE  balance[v]["A"] = SumTo(HeldAmounts(v), NumPositions)
        BY DEF TokenAExact, HeldAmounts, HeldA
    <2>1. HeldAmounts(v) \in [1 .. NumPositions -> Int]
        BY <1>1, HeldType DEF AccountingInv, TypeInv
    <2>2. \A p \in Positions : HeldA(p, v) = 0
        <3>1. \A p \in Positions : UnspentA(p, v) = 0 /\ DustA(p, v) = 0
            BY <1>2, NoShares DEF DustA, Active
        <3> QED BY <3>1 DEF HeldA
    <2>3. \A p \in 1 .. NumPositions : HeldAmounts(v)[p] = 0
        BY <2>2 DEF HeldAmounts, Positions
    <2>4. SumTo(HeldAmounts(v), NumPositions) = 0
        BY <2>1, <2>3, SumZero, AddressAssumption
    <2> QED BY <2>4 DEF Init, Tokens
<1> QED BY <1>1, <1>3, <1>4 DEF ExactInv

\* A deposit brings in its unspent A and its dust.
LEMMA ExactDeposit ==
    ASSUME ExactInv, NEW p \in Positions, NEW v \in Vaults, DepositStep(p, v)
    PROVE  TokenAExact' /\ LegacyEmpty'
<1>1. TypeOK /\ AccountingInv
    BY DEF ExactInv, AccountingInv, TypeInv
<1>2. PICK depositor \in Users, n \in SwapCounts, amount \in DepositAmounts,
           end \in PeriodAccounts : Deposit(p, v, depositor, end, amount, n)
    BY DEF DepositStep
<1> DEFINE per == PeriodicDripAmount(amount, n)
           last == vault[v].last_drip_period
<1>3. /\ n \in Nat \ {0} /\ amount \in Nat /\ per \in Nat /\ n * per \in Nat /\ last \in Nat
    <2>1. n \in Nat \ {0} /\ amount \in Nat /\ last \in Nat
        BY <1>1, <1>2, BoundAssumption, CheckedAmounts, VaultParts DEF Deposit, PeriodIds
    <2>2. per \in Nat
        BY <2>1, PeriodicDripAmountBounds
    <2> QED BY <2>1, <2>2
<1>4. /\ position[p].status = "none"
      /\ position' = [position EXCEPT ![p] =
           [status |-> "open", vault |-> v, deposited_token_a_amount |-> amount,
            withdrawn_token_b_amount |-> 0, drip_period_id_before_deposit |-> last,
            number_of_swaps |-> n, periodic_drip_amount |-> per]]
      /\ vault' = [vault EXCEPT ![v].drip_amount = vault[v].drip_amount + per]
      /\ balance' = [balance EXCEPT ![v]["A"] = balance[v]["A"] + amount]
    BY <1>2 DEF Deposit, FreshMint
<1> HIDE DEF per
<1>5. /\ position'[p].status = "open" /\ position'[p].vault = v
      /\ position'[p].deposited_token_a_amount = amount
      /\ position'[p].drip_period_id_before_deposit = last
      /\ position'[p].number_of_swaps = n /\ position'[p].periodic_drip_amount = per
      /\ Expiry(p)' = last + n
      /\ \A q \in Positions : q # p => position'[q] = position[q]
    BY <1>1, <1>4 DEF TypeOK, Expiry
<1>6. \A w \in Vaults : vault'[w].last_drip_period = vault[w].last_drip_period
    BY <1>1, <1>4, DripAmountOnly
<1>7. \A w \in Vaults : balance'[w]["A"] = IF w = v THEN balance[v]["A"] + amount
                                                    ELSE balance[w]["A"]
    <2>1. \A w \in Vaults : balance[w] \in [Tokens -> Amount]
        BY <1>1, VaultParts
    <2> QED BY <1>1, <1>4, <2>1 DEF TypeOK, Tokens
<1>8. ASSUME NEW w \in Vaults
      PROVE  /\ HeldA(p, w) = 0
             /\ HeldA(p, w)' = IF w = v THEN amount ELSE 0
             /\ \A q \in Positions : q # p => HeldA(q, w)' = HeldA(q, w)
    <2>1. UnspentA(p, w) = 0 /\ DustA(p, w) = 0
        BY <1>4, NoShares DEF Active, DustA
    <2>2. ASSUME w = v
          PROVE  HeldA(p, w)' = amount
        <3>1. DustA(p, w)' = amount - n * per
            BY <1>5, <2>2 DEF DustA
        <3>2. Active(p, w)'
            BY <1>3, <1>5, <1>6, <2>2 DEF Active
        <3>3. UnspentA(p, w)' = ((last + n) - last) * per
            BY <1>5, <1>6, <2>2, <3>2 DEF UnspentA
        <3>4. (last + n) - last = n
            BY <1>3
        <3> DEFINE np == n * per
        <3>5. UnspentA(p, w)' = np /\ DustA(p, w)' = amount - np /\ np \in Nat
            BY <1>3, <3>1, <3>3, <3>4
        <3> HIDE DEF np
        <3> QED BY <1>3, <3>5 DEF HeldA
    <2>3. ASSUME w # v
          PROVE  HeldA(p, w)' = 0
        <3>1. ~ Active(p, w)' /\ DustA(p, w)' = 0
            BY <1>5, <2>3 DEF Active, DustA
        <3>2. UnspentA(p, w)' = 0
            BY <3>1, NoSharesNext
        <3> QED BY <3>1, <3>2 DEF HeldA
    <2>4. ASSUME NEW q \in Positions, q # p
          PROVE  HeldA(q, w)' = HeldA(q, w)
        <3>1. position'[q] = position[q] /\ vault'[w].last_drip_period = vault[w].last_drip_period
            BY <1>5, <1>6, <2>4
        <3>2. UnspentA(q, w)' = UnspentA(q, w) /\ DustA(q, w)' = DustA(q, w)
            BY <3>1, SameShares, SameDust
        <3> QED BY <3>2 DEF HeldA
    <2>5. HeldA(p, w) = 0
        BY <2>1 DEF HeldA
    <2> QED BY <2>2, <2>3, <2>4, <2>5
<1>9. TokenAExact'
    <2> SUFFICES ASSUME NEW w \in Vaults
                 PROVE  balance'[w]["A"] = SumTo(HeldAmounts(w)', NumPositions)
        BY DEF TokenAExact, HeldAmounts, HeldA
    <2>1. balance[w]["A"] = SumTo(HeldAmounts(w), NumPositions)
        BY DEF ExactInv, TokenAExact, HeldAmounts, HeldA
    <2>2. HeldA(p, w)' \in Int
        BY <1>3, <1>8
    <2>3. SumTo(HeldAmounts(w)', NumPositions)
             = SumTo(HeldAmounts(w), NumPositions) + (HeldA(p, w)' - HeldA(p, w))
        BY <1>1, <1>8, <2>2, OneHeldChanges
    <2>4. balance[w]["A"] \in Nat
        BY <1>1, VaultParts, CheckedAmounts
    <2> QED BY <1>3, <1>7, <1>8, <2>1, <2>3, <2>4
<1>10. LegacyEmpty'
    BY <1>5 DEF LegacyEmpty, ExactInv
<1> QED BY <1>9, <1>10

\* A close gives back the unspent A and keeps the dust, if no A is paid to a vault.
LEMMA ExactClose ==
    ASSUME ExactInv, NEW p \in Positions, NEW v \in Vaults, ClosePositionStep(p, v),
           \A w \in Vaults : <<w, "A">> \notin Destinations
    PROVE  TokenAExact' /\ LegacyEmpty'
<1>1. TypeOK /\ AccountingInv
    BY DEF ExactInv, AccountingInv, TypeInv
<1>2. PICK withdrawer \in Signers, i \in PeriodAccounts, j \in PeriodAccounts,
           expiry \in PeriodAccounts : ClosePosition(p, v, withdrawer, i, j, expiry)
    BY DEF ClosePositionStep
<1>3. \A w \in Vaults : /\ vault'[w].last_drip_period = vault[w].last_drip_period
                        /\ balance'[w]["A"] = balance[w]["A"] - UnspentA(p, w)
    BY <1>1, <1>2, CloseEffects
<1>4. /\ position[p].status = "open" /\ position'[p].status = "closed"
      /\ position'[p].vault = position[p].vault
      /\ position'[p].deposited_token_a_amount = position[p].deposited_token_a_amount
      /\ position'[p].number_of_swaps = position[p].number_of_swaps
      /\ position'[p].periodic_drip_amount = position[p].periodic_drip_amount
      /\ \A q \in Positions : q # p => position'[q] = position[q]
    <2>1. PICK b : position' = [position EXCEPT ![p].withdrawn_token_b_amount = b,
                                                ![p].status = "closed"]
        BY <1>2 DEF ClosePosition
    <2>2. position[p] \in PositionType
        BY <1>1, PositionParts
    <2>3. position[p].status = "open"
        BY <1>2 DEF ClosePosition, ValidWithdrawal
    <2> QED BY <1>1, <2>1, <2>2, <2>3 DEF TypeOK, PositionType
<1>5. ASSUME NEW w \in Vaults
      PROVE  /\ HeldA(p, w) = UnspentA(p, w) + DustA(p, w)
             /\ HeldA(p, w)' = DustA(p, w)
             /\ \A q \in Positions : q # p => HeldA(q, w)' = HeldA(q, w)
    <2>1. DustA(p, w)' = DustA(p, w)
        BY <1>4 DEF DustA
    <2>2. UnspentA(p, w)' = 0
        <3>1. ~ Active(p, w)'
            BY <1>4 DEF Active
        <3> QED BY <3>1, NoSharesNext
    <2>3. DustA(p, w) \in Int
        BY <1>1, HeldType
    <2>4. ASSUME NEW q \in Positions, q # p
          PROVE  HeldA(q, w)' = HeldA(q, w)
        <3>1. position'[q] = position[q] /\ vault'[w].last_drip_period = vault[w].last_drip_period
            BY <1>3, <1>4, <2>4
        <3>2. UnspentA(q, w)' = UnspentA(q, w) /\ DustA(q, w)' = DustA(q, w)
            BY <3>1, SameShares, SameDust
        <3> QED BY <3>2 DEF HeldA
    <2> QED BY <2>1, <2>2, <2>3, <2>4 DEF HeldA
<1>6. TokenAExact'
    <2> SUFFICES ASSUME NEW w \in Vaults
                 PROVE  balance'[w]["A"] = SumTo(HeldAmounts(w)', NumPositions)
        BY DEF TokenAExact, HeldAmounts, HeldA
    <2>1. balance[w]["A"] = SumTo(HeldAmounts(w), NumPositions)
        BY DEF ExactInv, TokenAExact, HeldAmounts, HeldA
    <2>2. UnspentA(p, w) \in Int /\ DustA(p, w) \in Int
        BY <1>1, HeldType
    <2>3. SumTo(HeldAmounts(w)', NumPositions)
             = SumTo(HeldAmounts(w), NumPositions) + (HeldA(p, w)' - HeldA(p, w))
        BY <1>1, <1>5, <2>2, OneHeldChanges
    <2>4. balance[w]["A"] \in Nat
        BY <1>1, VaultParts, CheckedAmounts
    <2> QED BY <1>3, <1>5, <2>1, <2>2, <2>3, <2>4
<1>7. LegacyEmpty'
    BY <1>4 DEF LegacyEmpty, ExactInv
<1> QED BY <1>6, <1>7

\* A drip spends exactly the shares.
LEMMA ExactDrip ==
    ASSUME ExactInv, NEW v \in Vaults, DripStep(v),
           \A w \in Vaults : <<w, "A">> \notin Destinations
    PROVE  TokenAExact' /\ LegacyEmpty'
<1>1. TypeOK /\ TypeInv /\ AccountingInv
    BY DEF ExactInv, AccountingInv, TypeInv
<1>2. PICK last \in PeriodAccounts, current \in PeriodAccounts, swap \in Swaps,
           fee_account \in PayoutAccounts,
           swapped_a \in 0 .. SwapAmount(v), received_b \in ReceivedAmounts :
           Drip(v, last, current, swap, fee_account, swapped_a, received_b)
    BY DEF DripStep
<1>3. position' = position
    BY <1>2 DEF Drip
<1>4. TypeInv'
    BY <1>1, <1>2, DripType
<1>5. /\ vault'[v].last_drip_period = vault[v].last_drip_period + 1
      /\ \A w \in Vaults : w # v => Untouched(w)
    BY <1>1, DripRecords DEF Drips
<1>6. /\ balance'[v]["A"] = balance[v]["A"] - vault[v].drip_amount
      /\ \A w \in Vaults : w # v => balance'[w]["A"] = balance[w]["A"]
    <2>1. fee_account \in VaultAccounts =>
             fee_account = <<fee_account[1], "A">> /\ fee_account[1] \in Vaults
        BY <1>2 DEF Drip, CanPay, VaultAccounts
    <2>2. fee_account \notin VaultAccounts
        BY <2>1 DEF PayoutAccounts
    <2> QED BY <1>1, <1>2, <2>2, DripSpends
<1>7. \A p \in Positions : \A w \in Vaults : DustA(p, w)' = DustA(p, w)
    BY <1>3, SameDust
<1>8. \A p \in Positions :
         UnspentA(p, v) = UnspentA(p, v)' + DripShare(p, v) /\ UnspentA(p, v)' \in Nat
    BY <1>1, <1>3, <1>4, <1>5, DripShareChanges
<1>9. \A p \in Positions : UnspentA(p, v) \in Int /\ DustA(p, v) \in Int
    BY <1>1, HeldType
<1>10. balance'[v]["A"] = SumTo(HeldAmounts(v)', NumPositions)
    <2> DEFINE old == HeldAmounts(v)
               new == HeldAmounts(v)'
               spent == DripShares(v)
    <2>1. NumPositions \in Nat /\ Positions = 1 .. NumPositions
        BY AddressAssumption DEF Positions
    <2>2. spent \in [1 .. NumPositions -> Nat] /\ old \in [1 .. NumPositions -> Int]
        BY <1>1, ShareTypes, HeldType
    <2>3. \A p \in Positions : HeldA(p, v)' \in Int
        BY <1>7, <1>8, <1>9 DEF HeldA
    <2>4. new \in [1 .. NumPositions -> Int]
        BY <2>1, <2>3 DEF HeldAmounts
    <2>5. \A p \in Positions : DripShare(p, v) \in Nat
        BY <2>1, <2>2 DEF DripShares
    <2>6. \A p \in Positions : HeldA(p, v) = HeldA(p, v)' + DripShare(p, v)
        <3> SUFFICES ASSUME NEW p \in Positions
                     PROVE  HeldA(p, v) = HeldA(p, v)' + DripShare(p, v)
            OBVIOUS
        <3>1. UnspentA(p, v) = UnspentA(p, v)' + DripShare(p, v) /\ UnspentA(p, v)' \in Nat
            BY <1>8
        <3>2. DustA(p, v)' = DustA(p, v) /\ DustA(p, v) \in Int /\ DripShare(p, v) \in Nat
            BY <1>7, <1>9, <2>5
        <3> QED BY <3>1, <3>2 DEF HeldA
    <2>7. \A p \in 1 .. NumPositions : old[p] = new[p] + spent[p]
        BY <2>1, <2>6 DEF HeldAmounts, DripShares
    <2>8. spent \in [1 .. NumPositions -> Int]
        BY <2>2
    <2> HIDE DEF old, new, spent
    <2>9. SumTo(old, NumPositions) = SumTo(new, NumPositions) + SumTo(spent, NumPositions)
        BY <2>1, <2>2, <2>4, <2>7, <2>8, SumAdd
    <2>10. vault[v].drip_amount = SumTo(spent, NumPositions)
        BY <1>1 DEF AccountingInv, DripAmountIsSumOfShares, spent
    <2>11. balance[v]["A"] = SumTo(old, NumPositions)
        BY DEF ExactInv, TokenAExact, old, HeldAmounts, HeldA
    <2>12. SumTo(spent, NumPositions) \in Int /\ SumTo(new, NumPositions) \in Int
        BY <2>1, <2>4, <2>8, SumInt
    <2>13. balance'[v]["A"] = SumTo(new, NumPositions)
        BY <1>6, <2>9, <2>10, <2>11, <2>12
    <2> QED BY <2>13 DEF new
<1>11. ASSUME NEW w \in Vaults, w # v
       PROVE  balance'[w]["A"] = SumTo(HeldAmounts(w)', NumPositions)
    <2>1. vault'[w] = vault[w] /\ balance'[w]["A"] = balance[w]["A"]
        BY <1>5, <1>6, <1>11 DEF Untouched
    <2>2. \A p \in Positions : UnspentA(p, w)' = UnspentA(p, w)
        BY <1>3, <2>1, SameShares
    <2>3. HeldAmounts(w)' = HeldAmounts(w)
        BY <1>7, <2>2 DEF HeldAmounts, HeldA
    <2>4. balance[w]["A"] = SumTo(HeldAmounts(w), NumPositions)
        BY DEF ExactInv, TokenAExact, HeldAmounts, HeldA
    <2> QED BY <2>1, <2>3, <2>4
<1>12. TokenAExact'
    BY <1>10, <1>11 DEF TokenAExact, HeldAmounts, HeldA
<1>13. LegacyEmpty'
    BY <1>3 DEF LegacyEmpty, ExactInv
<1> QED BY <1>12, <1>13

\* Every other instruction moves no A, if the admin takes none.
LEMMA ExactOther ==
    ASSUME ExactInv, "A" \notin AdminTakes
    PROVE  /\ \A c \in Configs, params \in ConfigParams :
                InitVaultProtoConfig(c, params) => TokenAExact' /\ LegacyEmpty'
           /\ \A v \in Vaults, k \in PeriodIds :
                InitVaultPeriod(v, k) => TokenAExact' /\ LegacyEmpty'
           /\ \A p \in Positions, v \in Vaults :
                WithdrawBStep(p, v) => TokenAExact' /\ LegacyEmpty'
           /\ \A v \in Vaults : AdminStep(v) => TokenAExact' /\ LegacyEmpty'
           /\ \A p \in Positions, to \in Users :
                TransferNft(p, to) => TokenAExact' /\ LegacyEmpty'
           /\ Tick \/ UNCHANGED vars => TokenAExact' /\ LegacyEmpty'
<1>1. TypeOK /\ AccountingInv
    BY DEF ExactInv, AccountingInv, TypeInv
<1> USE DEF LegacyEmpty, ExactInv
<1>2. ASSUME NEW c \in Configs, NEW params \in ConfigParams, InitVaultProtoConfig(c, params)
      PROVE  TokenAExact' /\ LegacyEmpty'
    BY <1>2, ExactQuiet DEF InitVaultProtoConfig
<1>3. ASSUME NEW v \in Vaults, NEW k \in PeriodIds, InitVaultPeriod(v, k)
      PROVE  TokenAExact' /\ LegacyEmpty'
    BY <1>3, ExactQuiet DEF InitVaultPeriod
<1>4. ASSUME NEW p \in Positions, NEW v \in Vaults, WithdrawBStep(p, v)
      PROVE  TokenAExact' /\ LegacyEmpty'
    <2> PICK withdrawer \in Signers, i \in PeriodAccounts, j \in PeriodAccounts :
             WithdrawB(p, v, withdrawer, i, j)
        BY <1>4 DEF WithdrawBStep
    <2>1. vault' = vault /\ \E b : position' = [position EXCEPT ![p].withdrawn_token_b_amount = b]
        BY DEF WithdrawB
    <2>2. \A q \in Positions : position[q] \in PositionType
        BY <1>1, PositionParts
    <2>3. \A q \in Positions :
             /\ position'[q].status = position[q].status
             /\ position'[q].vault = position[q].vault
             /\ position'[q].deposited_token_a_amount = position[q].deposited_token_a_amount
             /\ position'[q].drip_period_id_before_deposit
                   = position[q].drip_period_id_before_deposit
             /\ position'[q].number_of_swaps = position[q].number_of_swaps
             /\ position'[q].periodic_drip_amount = position[q].periodic_drip_amount
        BY <1>1, <2>1, <2>2 DEF TypeOK, PositionType
    <2>4. \A w \in Vaults : balance'[w]["A"] = balance[w]["A"]
        <3>1. TypeInv
            BY <1>1 DEF AccountingInv
        <3>2. SpentAtMost(balance, balance', v, "B", BeforeFees(p, v, i, j))
            BY <3>1, WithdrawBType
        <3> QED BY <3>2 DEF SpentAtMost, Tokens
    <2>5. TokenAExact'
        BY <2>1, <2>3, <2>4, ExactQuiet
    <2> QED BY <2>3, <2>5
<1>5. ASSUME NEW v \in Vaults, NEW admin \in Signers, NEW list \in WhitelistParams,
             InitVault(v, admin, list) \/ SetVaultSwapWhitelist(v, admin, list)
      PROVE  TokenAExact' /\ LegacyEmpty'
    <2>1. \A w \in Vaults : vault'[w].last_drip_period = vault[w].last_drip_period
        <3>1. vault[v] \in VaultType
            BY <1>1, VaultParts
        <3>2. CASE InitVault(v, admin, list)
            BY <1>1, <3>2 DEF InitVault, InitialVault, SetWhitelistedSwaps, NoVault,
                              AccountingInv, AccountsFresh, TypeOK
        <3>3. CASE SetVaultSwapWhitelist(v, admin, list)
            BY <1>1, <3>1, <3>3 DEF SetVaultSwapWhitelist, SetWhitelistedSwaps, VaultType, TypeOK
        <3> QED BY <1>5, <3>2, <3>3
    <2>2. balance' = balance /\ position' = position
        BY <1>5 DEF InitVault, SetVaultSwapWhitelist
    <2> QED BY <2>1, <2>2, ExactQuiet
<1>6. ASSUME NEW v \in Vaults, NEW admin \in Signers, NEW token \in Tokens,
             NEW to \in PayoutAccounts, EmptyTokenAccount(v, admin, token, to)
      PROVE  TokenAExact' /\ LegacyEmpty'
    <2>1. token # "A" /\ vault' = vault /\ position' = position
        BY <1>6 DEF EmptyTokenAccount
    <2>2. \A w \in Vaults : balance'[w]["A"] = balance[w]["A"]
        <3>1. TypeInv
            BY <1>1 DEF AccountingInv
        <3>2. SpentAtMost(balance, balance', v, token, balance[v][token])
            BY <1>6, <3>1, EmptiedFacts
        <3> QED BY <2>1, <3>2 DEF SpentAtMost, Tokens
    <2> QED BY <2>1, <2>2, ExactQuiet
<1>7. ASSUME NEW v \in Vaults, NEW admin \in Signers, NEW p \in Positions,
             ClosePositionAccount(p, v, admin)
      PROVE  TokenAExact' /\ LegacyEmpty'
    <2>1. /\ position' = [position EXCEPT ![p].status = "closed"]
          /\ position[p].status = "legacy" /\ vault' = vault /\ balance' = balance
        BY <1>7 DEF ClosePositionAccount
    <2>2. /\ position'[p].status = "closed"
          /\ position'[p].vault = position[p].vault
          /\ position'[p].deposited_token_a_amount = 0 /\ position'[p].number_of_swaps = 0
          /\ position'[p].periodic_drip_amount = position[p].periodic_drip_amount
          /\ position[p].periodic_drip_amount \in Nat
          /\ \A q \in Positions : q # p => position'[q] = position[q]
        <3>1. position[p] \in PositionType /\ position[p].periodic_drip_amount \in Nat
            BY <1>1, PositionParts
        <3> QED BY <1>1, <2>1, <3>1 DEF TypeOK, PositionType
    <2>3. ASSUME NEW q \in Positions, NEW w \in Vaults
          PROVE  UnspentA(q, w)' = UnspentA(q, w) /\ DustA(q, w)' = DustA(q, w)
        <3>1. CASE q = p
            <4>1. ~ Active(p, w) /\ ~ Active(p, w)'
                BY <2>1, <2>2 DEF Active
            <4>2. UnspentA(p, w) = 0 /\ UnspentA(p, w)' = 0
                BY <4>1, NoShares, NoSharesNext
            <4>3. DustA(p, w) = 0
                BY <2>1 DEF DustA
            <4>4. DustA(p, w)' = 0
                BY <2>2 DEF DustA
            <4> QED BY <3>1, <4>2, <4>3, <4>4
        <3>2. CASE q # p
            <4>1. position'[q] = position[q]
                BY <2>2, <3>2
            <4> QED BY <2>1, <4>1, SameShares, SameDust
        <3> QED BY <3>1, <3>2
    <2>4. TokenAExact'
        BY <2>1, <2>3 DEF TokenAExact
    <2> QED BY <2>2, <2>4
<1>8. ASSUME NEW v \in Vaults, AdminStep(v)
      PROVE  TokenAExact' /\ LegacyEmpty'
    <2> HIDE DEF LegacyEmpty, ExactInv
    <2> QED BY <1>5, <1>6, <1>7, <1>8 DEF AdminStep, WithdrawA, AdminWithdraw, Tokens
<1>9. ASSUME NEW p \in Positions, NEW to \in Users, TransferNft(p, to)
      PROVE  TokenAExact' /\ LegacyEmpty'
    BY <1>9, ExactQuiet DEF TransferNft
<1>10. ASSUME Tick \/ UNCHANGED vars
       PROVE  TokenAExact' /\ LegacyEmpty'
    BY <1>10, ExactQuiet DEF Tick, vars
<1> HIDE DEF LegacyEmpty, ExactInv
<1> QED BY <1>2, <1>3, <1>4, <1>8, <1>9, <1>10

\* A vault's token A account holds the unspent A of its positions and the dust of
\* divided deposits and nothing else, if the admin takes none and no fee or refund of A is
\* paid into a vault's account: no drip spends less or more than it accounts for, and no
\* close pays out less or more.
THEOREM SpendingExact ==
    ASSUME "A" \notin AdminTakes, \A v \in Vaults : <<v, "A">> \notin Destinations
    PROVE  Spec => []TokenAExact
<1>1. Init => ExactInv
    BY InitExact
<1>2. ExactInv /\ [Next]_vars => ExactInv'
    <2> SUFFICES ASSUME ExactInv, [Next]_vars
                 PROVE  ExactInv'
        OBVIOUS
    <2>1. AccountingInv'
        BY StepAccounting DEF ExactInv
    <2>2. TokenAExact' /\ LegacyEmpty'
        BY ExactDeposit, ExactClose, ExactDrip, ExactOther DEF Next
    <2> QED BY <2>1, <2>2 DEF ExactInv
<1>3. ExactInv => TokenAExact
    BY DEF ExactInv
<1> QED BY <1>1, <1>2, <1>3, PTL DEF Spec

-----------------------------------------------------------------------------
(* Token B, covered: rounding never promises more B than the swaps returned, *)
(* for any prices and any width.                                             *)

\* The average recorded for a period times the number of drips it averages: at
\* most the sum of the prices so far, and growing by at most one price per drip.
Weighted(v, k) == vault_period[v][k].twap * k

\* What position p can claim of vault v's B, in units of 1 / Two64, when the averages
\* it was promised them with are not rounded once more: less than nothing, if prices are
\* so small that their averages fall.
NetClaim(p, v) ==
    IF position[p].status = "open" /\ position[p].vault = v
    THEN (Weighted(v, LastDripOf(p, v)) - Weighted(v, position[p].drip_period_id_before_deposit))
             * position[p].periodic_drip_amount
         - Two64 * position[p].withdrawn_token_b_amount
    ELSE 0

Claim(p, v) == IF NetClaim(p, v) > 0 THEN NetClaim(p, v) ELSE 0

Claims(v) == [p \in Positions |-> Claim(p, v)]

\* The inductive form of TokenBSolvent.
ClaimsCovered ==
    \A v \in Vaults : SumTo(Claims(v), NumPositions) <= Two64 * balance[v]["B"]

ClaimInv ==
    /\ HistoryInv
    /\ ConfigsGiven
    /\ ClaimsCovered

-----------------------------------------------------------------------------
(* Arithmetic *)

\* A recorded average, times its number of drips, never exceeds what it averages.
LEMMA NewTwapWeight ==
    ASSUME NEW twap \in Nat, NEW i \in Nat \ {0}, NEW price \in Nat
    PROVE  /\ NewTwap(twap, i, price) \in Nat
           /\ NewTwap(twap, i, price) * i <= twap * (i - 1) + price
<1> DEFINE x == twap * (i - 1) + price
<1>1. x \in Nat
    <2>1. i - 1 \in Nat
        OBVIOUS
    <2>2. twap * (i - 1) \in Nat
        BY <2>1
    <2> QED BY <2>2
<1>2. NewTwap(twap, i, price) = x \div i
    BY DEF NewTwap
<1> HIDE DEF x
<1>3. x \div i \in Nat /\ i * (x \div i) <= x
    BY <1>1, Quotient
<1> DEFINE y == x \div i
<1> HIDE DEF y
<1>4. y * i = i * y
    BY <1>3 DEF y
<1>5. y * i <= x
    BY <1>3, <1>4 DEF y
<1> QED BY <1>2, <1>3, <1>5 DEF x, y

\* A price, times the A it was paid for, is no more than the B received.
LEMMA PriceTimesAmount ==
    ASSUME NEW b \in Nat, NEW a \in Nat \ {0}
    PROVE  ComputePrice(b, a) \in Nat /\ a * ComputePrice(b, a) <= Two64 * b
<1> DEFINE x == b * Two64
<1>1. x \in Nat /\ x = Two64 * b
    BY WidthAssumption
<1> HIDE DEF x
<1>2. x \div a \in Nat /\ a * (x \div a) <= x
    BY <1>1, Quotient
<1> QED BY <1>1, <1>2 DEF ComputePrice, x

\* A quotient of an integer, times the divisor, is no more than the integer.
LEMMA FloorBelow ==
    ASSUME NEW x \in Int, NEW d \in Nat \ {0}
    PROVE  x \div d \in Int /\ d * (x \div d) <= x
OBVIOUS

\* What get_max_withdrawable_token_b_amount promises for drips i+1 .. j, without a
\* drip trigger spread, is covered by the difference of the weighted averages.
LEMMA WithdrawTokenBCovered ==
    ASSUME NEW i \in Nat, NEW j \in Nat, i <= j, NEW twap_i \in Nat, NEW twap_j \in Nat,
           i = j => twap_i = twap_j, NEW periodic \in Nat
    PROVE  /\ WithdrawTokenB(i, j, twap_i, twap_j, periodic, 0) \in Int
           /\ Two64 * WithdrawTokenB(i, j, twap_i, twap_j, periodic, 0)
                <= (twap_j * j - twap_i * i) * periodic
<1> DEFINE x == twap_j * j - twap_i * i
           b == WithdrawTokenB(i, j, twap_i, twap_j, periodic, 0)
<1>1. x \in Int
    <2>1. twap_j * j \in Nat /\ twap_i * i \in Nat
        OBVIOUS
    <2> QED BY <2>1
<1>2. CASE i = j
    <2>1. b = 0
        BY <1>2 DEF WithdrawTokenB
    <2>2. x = 0
        <3>1. twap_j * j \in Nat
            OBVIOUS
        <3> QED BY <1>2, <3>1
    <2> HIDE DEF x, b
    <2>3. Two64 * b <= x * periodic
        BY <2>1, <2>2, WidthAssumption
    <2> QED BY <2>1, <2>3 DEF x, b
<1>3. CASE i # j
    <2> DEFINE d == j - i
               avg == x \div d
               net == periodic * d
               y == avg * net
    <2>1. d \in Nat \ {0}
        BY <1>3
    <2>2. avg \in Int /\ d * avg <= x
        <3> HIDE DEF x, d
        <3> QED BY <1>1, <2>1, FloorBelow
    <2>3. net \in Nat
        BY <2>1
    <2>4. SpreadAmount(net, 0) = 0
        <3>1. net * 0 = 0
            BY <2>3
        <3> HIDE DEF net
        <3>2. 0 \div Bps = 0
            BY BpsAssumption
        <3> QED BY <3>1, <3>2 DEF SpreadAmount
    <2>5. b = y \div Two64
        <3>1. DrippedNetOfSpread(i, j, periodic, 0) = net - SpreadAmount(net, 0)
            BY DEF DrippedNetOfSpread
        <3>2. AveragePrice(i, j, twap_i, twap_j) = avg
            BY DEF AveragePrice
        <3>3. b = (AveragePrice(i, j, twap_i, twap_j)
                     * DrippedNetOfSpread(i, j, periodic, 0)) \div Two64
            BY <1>3 DEF WithdrawTokenB
        <3> HIDE DEF avg, net, b
        <3>4. net - 0 = net
            BY <2>3
        <3> QED BY <2>4, <3>1, <3>2, <3>3, <3>4
    <2>6. y <= x * periodic /\ y \in Int
        <3> HIDE DEF x, d, avg
        <3>1. avg * (periodic * d) = (d * avg) * periodic
            BY <2>1, <2>2, Z3
        <3> DEFINE z == d * avg
        <3>2. z \in Int /\ z <= x
            BY <2>1, <2>2
        <3> HIDE DEF z
        <3>3. z * periodic <= x * periodic
            BY <1>1, <3>2, Z3
        <3> QED BY <2>1, <2>2, <3>1, <3>3 DEF z
    <2> HIDE DEF y, x, b
    <2>7. b \in Int /\ Two64 * b <= y
        BY <2>5, <2>6, FloorBelow, WidthAssumption
    <2>8. x * periodic \in Int
        BY <1>1
    <2>9. Two64 * b \in Int
        BY <2>7, WidthAssumption
    <2>10. Two64 * b <= x * periodic
        BY <2>6, <2>7, <2>8, <2>9
    <2> QED BY <2>7, <2>10 DEF x, b
<1> QED BY <1>2, <1>3

-----------------------------------------------------------------------------
(* Claims *)

\* Claims are naturals, and so are the recorded averages.
LEMMA ClaimType ==
    ASSUME TypeOK, PositionTerms, NEW v \in Vaults
    PROVE  /\ \A k \in PeriodIds : vault_period[v][k].twap \in Nat /\ Weighted(v, k) \in Nat
           /\ \A p \in Positions : NetClaim(p, v) \in Int /\ Claim(p, v) \in Nat
           /\ Claims(v) \in [1 .. NumPositions -> Int]
<1>1. ASSUME NEW k \in PeriodIds
      PROVE  vault_period[v][k].twap \in Nat /\ Weighted(v, k) \in Nat
    <2>1. k \in Nat /\ vault_period[v][k].twap \in Nat
        BY VaultParts, BoundAssumption DEF PeriodType, Price, PeriodIds
    <2> DEFINE t == vault_period[v][k].twap
    <2>2. Weighted(v, k) = t * k
        BY DEF Weighted
    <2> HIDE DEF t
    <2>3. \A a, b \in Nat : a * b \in Nat
        OBVIOUS
    <2> QED BY <2>1, <2>2, <2>3 DEF t
<1>2. ASSUME NEW p \in Positions
      PROVE  NetClaim(p, v) \in Int
    <2>1. CASE position[p].status = "open" /\ position[p].vault = v
        <3> DEFINE a == Weighted(v, LastDripOf(p, v))
                   b == Weighted(v, position[p].drip_period_id_before_deposit)
                   per == position[p].periodic_drip_amount
                   wd == position[p].withdrawn_token_b_amount
        <3>1. LastDripOf(p, v) \in PeriodIds
            BY <2>1, VaultParts DEF LastDripOf, PositionTerms
        <3>2. a \in Nat /\ b \in Nat /\ per \in Nat /\ wd \in Nat
            BY <1>1, <3>1, PositionParts
        <3>3. NetClaim(p, v) = (a - b) * per - Two64 * wd
            BY <2>1 DEF NetClaim
        <3> HIDE DEF a, b, per, wd
        <3>4. (a - b) * per \in Int /\ Two64 * wd \in Int
            BY <3>2, WidthAssumption
        <3> QED BY <3>3, <3>4
    <2>2. CASE ~ (position[p].status = "open" /\ position[p].vault = v)
        BY <2>2 DEF NetClaim
    <2> QED BY <2>1, <2>2
<1>3. \A p \in Positions : Claim(p, v) \in Nat
    BY <1>2 DEF Claim
<1> QED BY <1>1, <1>2, <1>3 DEF Claims, Positions

\* What an open position can withdraw is covered by its claim.
LEMMA ClaimCovers ==
    ASSUME TypeOK, PositionTerms, NEW v \in Vaults, NEW p \in Positions,
           position[p].status = "open", position[p].vault = v,
           Config(v).token_a_drip_trigger_spread = 0
    PROVE  UnclaimedB(p, v) \in Int /\ Two64 * UnclaimedB(p, v) <= NetClaim(p, v)
<1> DEFINE i == position[p].drip_period_id_before_deposit
           j == LastDripOf(p, v)
           twap_i == vault_period[v][i].twap
           twap_j == vault_period[v][j].twap
           per == position[p].periodic_drip_amount
           wd == position[p].withdrawn_token_b_amount
           b == WithdrawTokenB(i, j, twap_i, twap_j, per, 0)
           c == (twap_j * j - twap_i * i) * per
<1>1. i \in Nat /\ i \in PeriodIds /\ per \in Nat /\ wd \in Nat /\ Expiry(p) \in Nat
    BY PositionParts
<1>2. vault[v].last_drip_period \in Nat
    BY VaultParts, BoundAssumption DEF PeriodIds
<1>3. j \in PeriodIds /\ j \in Nat /\ i <= j
    <2>1. i <= vault[v].last_drip_period /\ Expiry(p) \in PeriodIds
        BY DEF PositionTerms
    <2>2. i <= Expiry(p)
        BY <1>1, PositionParts DEF Expiry
    <2> QED BY <1>1, <1>2, <2>1, <2>2, VaultParts DEF LastDripOf
<1>4. twap_i \in Nat /\ twap_j \in Nat
    BY <1>1, <1>3, ClaimType
<1>5. NetClaim(p, v) = c - Two64 * wd
    BY DEF NetClaim, Weighted
<1>6. UnclaimedB(p, v) = b - wd
    BY DEF UnclaimedB, MaxWithdrawableB
<1>7. b \in Int /\ Two64 * b <= c
    <2>1. i = j => twap_i = twap_j
        OBVIOUS
    <2> HIDE DEF i, j, twap_i, twap_j, per
    <2> QED BY <1>1, <1>3, <1>4, <2>1, WithdrawTokenBCovered
<1>8. c \in Int
    <2> HIDE DEF i, j, twap_i, twap_j, per
    <2>1. twap_j * j \in Nat /\ twap_i * i \in Nat
        BY <1>1, <1>3, <1>4
    <2>2. twap_j * j - twap_i * i \in Int
        BY <2>1
    <2> QED BY <1>1, <2>2
<1> HIDE DEF b, c, wd
<1>9. Two64 * (b - wd) = Two64 * b - Two64 * wd
    BY <1>1, <1>7, WidthAssumption
<1>10. Two64 * b \in Int /\ Two64 * wd \in Int
    BY <1>1, <1>7, WidthAssumption
<1>11. Two64 * (b - wd) <= c - Two64 * wd
    BY <1>7, <1>8, <1>9, <1>10
<1> QED BY <1>1, <1>5, <1>6, <1>7, <1>11

\* The drip trigger spread of a vault that exists is one the parameters give.
LEMMA SpreadIsZero ==
    ASSUME TypeInv, ConfigsGiven, NEW v \in Vaults, vault[v].exists,
           \A q \in ConfigParams : q.token_a_drip_trigger_spread = 0
    PROVE  Config(v).token_a_drip_trigger_spread = 0
<1>1. Config(v).exists /\ ConfigOf[v] \in Configs
    BY AddressAssumption DEF TypeInv, ConfigsValid
<1>2. PICK q \in ConfigParams : Config(v) = ConfigRecord(q)
    BY <1>1 DEF ConfigsGiven, Config
<1> QED BY <1>2 DEF ConfigRecord

\* What a position is owed is a natural, and covered by its claim.
LEMMA OwedCovered ==
    ASSUME ClaimInv, NEW v \in Vaults, NEW p \in Positions,
           \A q \in ConfigParams : q.token_a_drip_trigger_spread = 0
    PROVE  OwedB(p, v) \in Nat /\ Two64 * OwedB(p, v) <= Claim(p, v)
<1>1. TypeOK /\ TypeInv /\ PositionTerms /\ ConfigsGiven
    BY DEF ClaimInv, HistoryInv, AccountingInv, TypeInv
<1>2. CASE position[p].status = "open" /\ position[p].vault = v
    <2>1. vault[v].exists
        BY <1>1, <1>2 DEF PositionTerms
    <2>2. Config(v).token_a_drip_trigger_spread = 0
        BY <1>1, <2>1, SpreadIsZero
    <2> DEFINE x == UnclaimedB(p, v)
               y == NetClaim(p, v)
    <2>3. x \in Int /\ Two64 * x <= y /\ y \in Int
        BY <1>1, <1>2, <2>2, ClaimCovers, ClaimType
    <2>4. /\ OwedB(p, v) = IF x > 0 THEN x ELSE 0
          /\ Claim(p, v) = IF y > 0 THEN y ELSE 0
        BY DEF OwedB, Claim
    <2> HIDE DEF x, y
    <2> QED BY <2>3, <2>4, WidthAssumption
<1>3. CASE ~ (position[p].status = "open" /\ position[p].vault = v)
    <2>1. OwedB(p, v) = 0 /\ Claim(p, v) = 0
        BY <1>3 DEF OwedB, UnclaimedB, Claim, NetClaim
    <2> QED BY <2>1, WidthAssumption
<1> QED BY <1>2, <1>3

\* The invariant is what solvency needs: the sum of what can be withdrawn is no
\* more than the sum of the claims, and that no more than the balance.
LEMMA ClaimsSuffice ==
    ASSUME ClaimInv, \A q \in ConfigParams : q.token_a_drip_trigger_spread = 0
    PROVE  TokenBSolvent
<1> SUFFICES ASSUME NEW v \in Vaults
             PROVE  SumTo([p \in Positions |-> OwedB(p, v)], NumPositions)
                        <= balance[v]["B"]
    BY DEF TokenBSolvent
<1>1. TypeOK /\ TypeInv /\ PositionTerms /\ ConfigsGiven
    BY DEF ClaimInv, HistoryInv, AccountingInv, TypeInv
<1> DEFINE u == [p \in Positions |-> OwedB(p, v)]
           s == [p \in Positions |-> Two64 * OwedB(p, v)]
           c == Claims(v)
<1>2. NumPositions \in Nat /\ Positions = 1 .. NumPositions
    BY AddressAssumption DEF Positions
<1>3. ASSUME NEW p \in Positions
      PROVE  OwedB(p, v) \in Int /\ Two64 * OwedB(p, v) <= Claim(p, v)
    BY OwedCovered
<1>4. u \in [1 .. NumPositions -> Int]
    BY <1>2, <1>3
<1>5. s \in [1 .. NumPositions -> Int]
    <2>1. \A x \in Int : Two64 * x \in Int
        BY WidthAssumption
    <2> QED BY <1>2, <1>3, <2>1
<1>6. c \in [1 .. NumPositions -> Int]
    BY <1>1, ClaimType
<1>7. \A p \in 1 .. NumPositions : s[p] = Two64 * u[p]
    BY <1>2
<1>8. \A p \in 1 .. NumPositions : s[p] <= c[p]
    BY <1>2, <1>3 DEF Claims
<1> HIDE DEF u, s, c
<1>9. SumTo(s, NumPositions) = Two64 * SumTo(u, NumPositions)
    <2>1. Two64 \in Int
        BY WidthAssumption
    <2> QED BY <1>2, <1>4, <1>5, <1>7, <2>1, SumScale
<1>10. SumTo(s, NumPositions) <= SumTo(c, NumPositions)
    BY <1>2, <1>5, <1>6, <1>8, SumMonotone
<1>11. SumTo(c, NumPositions) <= Two64 * balance[v]["B"]
    BY DEF ClaimInv, ClaimsCovered, c
<1>12. /\ SumTo(u, NumPositions) \in Int /\ SumTo(c, NumPositions) \in Int
       /\ balance[v]["B"] \in Nat
    BY <1>1, <1>2, <1>4, <1>6, SumInt, VaultParts, CheckedAmounts
<1>13. \A x \in Int, y \in Int, z \in Nat : Two64 * x <= y /\ y <= Two64 * z => x <= z
    BY WidthAssumption
<1>14. SumTo(u, NumPositions) <= balance[v]["B"]
    BY <1>9, <1>10, <1>11, <1>12, <1>13
<1> QED BY <1>14 DEF u

-----------------------------------------------------------------------------
(* Steps *)

\* A step that drips nothing and leaves a position's terms and withdrawals alone
\* leaves its claim alone.
LEMMA SameClaim ==
    ASSUME TypeOK, PositionTerms, NEW p \in Positions, NEW v \in Vaults, KeepsRecords(v),
           position'[p].status = "open" <=> position[p].status = "open",
           position'[p].vault = position[p].vault,
           position'[p].withdrawn_token_b_amount = position[p].withdrawn_token_b_amount,
           position'[p].drip_period_id_before_deposit = position[p].drip_period_id_before_deposit,
           position'[p].number_of_swaps = position[p].number_of_swaps,
           position'[p].periodic_drip_amount = position[p].periodic_drip_amount
    PROVE  NetClaim(p, v)' = NetClaim(p, v) /\ Claim(p, v)' = Claim(p, v)
<1>1. CASE position[p].status = "open" /\ position[p].vault = v
    <2>1. LastDripOf(p, v) \in PeriodIds
        BY <1>1, VaultParts DEF LastDripOf, PositionTerms
    <2>2. position[p].drip_period_id_before_deposit \in PeriodIds
        BY PositionParts
    <2>3. LastDripOf(p, v)' = LastDripOf(p, v)
        BY DEF LastDripOf, Expiry, KeepsRecords
    <2>4. \A k \in PeriodIds : Weighted(v, k)' = Weighted(v, k)
        BY DEF Weighted, KeepsRecords
    <2>5. Weighted(v, LastDripOf(p, v))' = Weighted(v, LastDripOf(p, v))
        BY <2>1, <2>3 DEF Weighted, KeepsRecords
    <2>6. Weighted(v, position[p].drip_period_id_before_deposit)'
             = Weighted(v, position[p].drip_period_id_before_deposit)
        BY <2>2 DEF Weighted, KeepsRecords
    <2> QED BY <1>1, <2>5, <2>6 DEF Claim, NetClaim
<1>2. CASE ~ (position[p].status = "open" /\ position[p].vault = v)
    BY <1>2 DEF Claim, NetClaim
<1> QED BY <1>1, <1>2

\* When one position's claim changes, the sum changes by as much.
LEMMA OneClaimChanges ==
    ASSUME TypeOK, PositionTerms, NEW v \in Vaults, NEW p \in Positions, Claim(p, v)' \in Int,
           \A q \in Positions : q # p => Claim(q, v)' = Claim(q, v)
    PROVE  SumTo(Claims(v)', NumPositions)
              = SumTo(Claims(v), NumPositions) + (Claim(p, v)' - Claim(p, v))
<1>1. Claims(v) \in [1 .. NumPositions -> Int]
    BY ClaimType
<1>2. Claims(v)' \in [1 .. NumPositions -> Int]
    <2>1. \A q \in Positions : Claim(q, v)' \in Int
        BY ClaimType
    <2> QED BY <2>1 DEF Claims, Positions
<1>3. \A q \in 1 .. NumPositions : q # p => Claims(v)'[q] = Claims(v)[q]
    BY DEF Claims, Positions
<1>4. Claims(v)'[p] = Claim(p, v)' /\ Claims(v)[p] = Claim(p, v)
    BY DEF Claims
<1>5. p \in 1 .. NumPositions /\ NumPositions \in Nat
    BY AddressAssumption DEF Positions
<1> DEFINE f == Claims(v)
           g == Claims(v)'
<1> HIDE DEF f, g
<1>6. SumTo(g, NumPositions) = SumTo(f, NumPositions) + (g[p] - f[p])
    BY <1>1, <1>2, <1>3, <1>5, SumUpdate DEF f, g
<1> QED BY <1>4, <1>6 DEF f, g

\* A step that takes at most `b` out of a vault for one position, and at least as much off
\* its claim, keeps the claims covered.
LEMMA PayoutCovered ==
    ASSUME ClaimInv, NEW p \in Positions, NEW v \in Vaults, NEW b \in Int,
           \A w \in Vaults : KeepsRecords(w),
           \A w \in Vaults :
               /\ balance'[w]["B"] \in Nat
               /\ balance'[w]["B"] >= balance[w]["B"] - (IF w = v THEN b ELSE 0),
           \A q \in Positions : q # p => position'[q] = position[q],
           Claim(p, v)' \in Int, Claim(p, v)' <= Claim(p, v) - Two64 * b,
           \A w \in Vaults : w # v => Claim(p, w)' = Claim(p, w)
    PROVE  ClaimsCovered'
<1>1. TypeOK /\ PositionTerms
    BY DEF ClaimInv, HistoryInv, AccountingInv, TypeInv
<1> SUFFICES ASSUME NEW w \in Vaults
             PROVE  SumTo(Claims(w)', NumPositions) <= Two64 * balance'[w]["B"]
    BY DEF ClaimsCovered
<1>2. SumTo(Claims(w), NumPositions) <= Two64 * balance[w]["B"]
    BY DEF ClaimInv, ClaimsCovered
<1>3. \A q \in Positions : q # p => Claim(q, w)' = Claim(q, w)
    BY <1>1, SameClaim
<1>4. Claim(p, w) \in Int /\ Claim(p, w)' \in Int
    BY <1>1, ClaimType
<1>5. SumTo(Claims(w)', NumPositions)
         = SumTo(Claims(w), NumPositions) + (Claim(p, w)' - Claim(p, w))
    BY <1>1, <1>3, <1>4, OneClaimChanges
<1>6. SumTo(Claims(w), NumPositions) \in Int /\ balance[w]["B"] \in Nat
    <2>1. Claims(w) \in [1 .. NumPositions -> Int]
        BY <1>1, ClaimType
    <2> QED BY <1>1, <2>1, SumInt, AddressAssumption, VaultParts, CheckedAmounts
<1>7. CASE w = v
    <2> DEFINE bal == balance[v]["B"]
               x == Two64 * bal
               y == Two64 * b
    <2>1. Two64 * (bal - b) = x - y /\ x \in Int /\ y \in Int
        BY <1>6, <1>7, WidthAssumption
    <2>2. balance'[w]["B"] >= bal - b /\ balance'[w]["B"] \in Nat /\ bal - b \in Int
        BY <1>6, <1>7
    <2>3. SumTo(Claims(w), NumPositions) <= x /\ Claim(p, w)' <= Claim(p, w) - y
        BY <1>2, <1>7
    <2>4. Two64 * (bal - b) <= Two64 * balance'[w]["B"]
        BY <2>2, WidthAssumption
    <2>5. Two64 * balance'[w]["B"] \in Int
        BY <2>2, WidthAssumption
    <2> HIDE DEF x, y, bal
    <2>6. SumTo(Claims(w)', NumPositions) <= x - y
        BY <1>4, <1>5, <1>6, <2>1, <2>3
    <2> QED BY <1>4, <1>5, <1>6, <2>1, <2>4, <2>5, <2>6
<1>8. CASE w # v
    <2>1. SumTo(Claims(w)', NumPositions) = SumTo(Claims(w), NumPositions)
        BY <1>4, <1>5, <1>6, <1>8
    <2> DEFINE old == balance[w]["B"]
               new == balance'[w]["B"]
    <2>2. old \in Nat /\ new \in Nat /\ old <= new
        BY <1>6, <1>8
    <2> HIDE DEF old, new
    <2>3. Two64 * old <= Two64 * new /\ Two64 * old \in Int /\ Two64 * new \in Int
        BY <2>2, WidthAssumption
    <2>4. SumTo(Claims(w), NumPositions) <= Two64 * old
        BY <1>2 DEF old
    <2>5. SumTo(Claims(w), NumPositions) <= Two64 * new
        BY <1>6, <2>3, <2>4
    <2> QED BY <2>1, <2>5 DEF new
<1> QED BY <1>7, <1>8

\* A step that drips nothing, moves no B and leaves every position's claim.
LEMMA ClaimsQuiet ==
    ASSUME ClaimInv,
           \A w \in Vaults : KeepsRecords(w) /\ balance'[w]["B"] = balance[w]["B"],
           \A p \in Positions :
              /\ position'[p].status = "open" <=> position[p].status = "open"
              /\ position'[p].vault = position[p].vault
              /\ position'[p].withdrawn_token_b_amount = position[p].withdrawn_token_b_amount
              /\ position'[p].drip_period_id_before_deposit
                    = position[p].drip_period_id_before_deposit
              /\ position'[p].number_of_swaps = position[p].number_of_swaps
              /\ position'[p].periodic_drip_amount = position[p].periodic_drip_amount
    PROVE  ClaimsCovered'
<1>1. TypeOK /\ PositionTerms
    BY DEF ClaimInv, HistoryInv, AccountingInv, TypeInv
<1>2. \A p \in Positions, v \in Vaults : Claim(p, v)' = Claim(p, v)
    BY <1>1, SameClaim
<1>3. \A v \in Vaults : Claims(v)' = Claims(v)
    BY <1>2 DEF Claims
<1> QED BY <1>3 DEF ClaimsCovered, ClaimInv

\* A new position has no claim yet.
LEMMA ClaimsDeposit ==
    ASSUME ClaimInv, NEW p \in Positions, NEW v \in Vaults, DepositStep(p, v)
    PROVE  ClaimsCovered'
<1>1. AccountingInv /\ TypeOK /\ PositionTerms
    BY DEF ClaimInv, HistoryInv, AccountingInv, TypeInv
<1>2. \A w \in Vaults : KeepsRecords(w)
    BY <1>1, QuietRecords
<1>3. PICK depositor \in Users, n \in SwapCounts, amount \in DepositAmounts,
           end \in PeriodAccounts : Deposit(p, v, depositor, end, amount, n)
    BY DEF DepositStep
<1> DEFINE last == vault[v].last_drip_period
           per == PeriodicDripAmount(amount, n)
<1>4. /\ position[p].status = "none"
      /\ position' = [position EXCEPT ![p] =
           [status |-> "open", vault |-> v, deposited_token_a_amount |-> amount,
            withdrawn_token_b_amount |-> 0, drip_period_id_before_deposit |-> last,
            number_of_swaps |-> n, periodic_drip_amount |-> per]]
      /\ balance' = [balance EXCEPT ![v]["A"] = balance[v]["A"] + amount]
    BY <1>3 DEF Deposit, FreshMint
<1>5. n \in Nat \ {0} /\ amount \in Nat /\ per \in Nat /\ last \in Nat /\ last \in PeriodIds
    <2>1. n \in Nat \ {0} /\ amount \in Nat /\ last \in Nat /\ last \in PeriodIds
        BY <1>1, <1>3, BoundAssumption, CheckedAmounts, VaultParts DEF Deposit, PeriodIds
    <2> QED BY <2>1, PeriodicDripAmountBounds
<1> HIDE DEF per
<1>6. /\ position'[p].status = "open" /\ position'[p].vault = v
      /\ position'[p].withdrawn_token_b_amount = 0
      /\ position'[p].drip_period_id_before_deposit = last
      /\ position'[p].periodic_drip_amount = per
      /\ Expiry(p)' = last + n
      /\ \A q \in Positions : q # p => position'[q] = position[q]
    BY <1>1, <1>4 DEF TypeOK, Expiry
<1>7. \A w \in Vaults : balance'[w]["B"] = balance[w]["B"]
    <2>1. \A w \in Vaults : balance[w] \in [Tokens -> Amount]
        BY <1>1, VaultParts
    <2> QED BY <1>1, <1>4, <2>1 DEF TypeOK, Tokens
<1>8. \A w \in Vaults : Claim(p, w) = 0
    BY <1>4 DEF Claim, NetClaim
<1>9. Claim(p, v)' = 0
    <2>1. vault'[v].last_drip_period = last
        BY <1>2 DEF KeepsRecords
    <2>2. LastDripOf(p, v)' = last
        BY <1>5, <1>6, <2>1 DEF LastDripOf
    <2> DEFINE x == Weighted(v, last)'
    <2>3. x \in Nat
        <3>1. vault_period'[v][last].twap = vault_period[v][last].twap
            BY <1>2, <1>5 DEF KeepsRecords
        <3>2. x = Weighted(v, last)
            BY <2>1, <3>1 DEF Weighted
        <3> QED BY <1>1, <1>5, <3>2, ClaimType
    <2>4. NetClaim(p, v)' = (x - x) * per - Two64 * 0
        BY <1>6, <2>1, <2>2 DEF NetClaim, Weighted
    <2> HIDE DEF x
    <2>5. (x - x) * per = 0 /\ Two64 * 0 = 0
        BY <1>5, <2>3, WidthAssumption
    <2>6. NetClaim(p, v)' = 0
        BY <2>4, <2>5
    <2> QED BY <2>6 DEF Claim
<1>10. \A w \in Vaults : w # v => Claim(p, w)' = 0
    BY <1>6 DEF Claim, NetClaim
<1>11. \A w \in Vaults : balance[w]["B"] \in Nat
    BY <1>1, VaultParts, CheckedAmounts
<1>13. 0 - Two64 * 0 = 0
    BY WidthAssumption
<1>14. \A w \in Vaults :
          /\ balance'[w]["B"] \in Nat
          /\ balance'[w]["B"] >= balance[w]["B"] - (IF w = v THEN 0 ELSE 0)
    BY <1>7, <1>11
<1>15. Claim(p, v)' \in Int /\ Claim(p, v)' <= Claim(p, v) - Two64 * 0
    BY <1>8, <1>9, <1>13
<1>16. \A w \in Vaults : w # v => Claim(p, w)' = Claim(p, w)
    BY <1>8, <1>10
<1>17. 0 \in Int
    OBVIOUS
<1>18. \A q \in Positions : q # p => position'[q] = position[q]
    BY <1>6
<1> QED BY <1>2, <1>14, <1>15, <1>16, <1>17, <1>18, PayoutCovered

\* The B a withdrawal pays out is what the position's two averages promise it.
LEMMA PayoutIsUnclaimed ==
    ASSUME TypeOK, NEW p \in Positions, NEW v \in Vaults,
           NEW i \in PeriodAccounts, NEW j \in PeriodAccounts, ValidWithdrawal(p, v, i, j)
    PROVE  BeforeFees(p, v, i, j) = UnclaimedB(p, v)
<1>1. /\ position[p].status = "open" /\ position[p].vault = v
      /\ Data(i) = vault_period[v][position[p].drip_period_id_before_deposit]
      /\ Data(j) = vault_period[v][LastDripOf(p, v)]
    BY DEF ValidWithdrawal, IsPeriod, Data
<1> QED BY <1>1 DEF BeforeFees, UnclaimedB

\* A withdrawal takes what it pays out off the position's claim.
LEMMA ClaimsWithdraw ==
    ASSUME ClaimInv, NEW p \in Positions, NEW v \in Vaults, WithdrawBStep(p, v),
           \A q \in ConfigParams : q.token_a_drip_trigger_spread = 0
    PROVE  ClaimsCovered'
<1>1. AccountingInv /\ TypeInv /\ TypeOK /\ PositionTerms /\ ConfigsGiven
    BY DEF ClaimInv, HistoryInv, AccountingInv, TypeInv
<1>2. \A w \in Vaults : KeepsRecords(w)
    BY <1>1, QuietRecords
<1>3. PICK withdrawer \in Signers, i \in PeriodAccounts, j \in PeriodAccounts :
         WithdrawB(p, v, withdrawer, i, j)
    BY DEF WithdrawBStep
<1> DEFINE b == BeforeFees(p, v, i, j)
           wd == position[p].withdrawn_token_b_amount
<1>4. /\ position' = [position EXCEPT ![p].withdrawn_token_b_amount = wd + b]
      /\ position[p].status = "open" /\ position[p].vault = v /\ vault[v].exists
      /\ b \in Nat /\ b = UnclaimedB(p, v)
    BY <1>1, <1>3, BeforeFeesType, PayoutIsUnclaimed DEF WithdrawB, ValidWithdrawal
<1>5. wd \in Nat
    BY <1>1, PositionParts
<1> HIDE DEF b
<1>6. /\ position'[p].status = "open" /\ position'[p].vault = v
      /\ position'[p].withdrawn_token_b_amount = wd + b
      /\ position'[p].drip_period_id_before_deposit = position[p].drip_period_id_before_deposit
      /\ position'[p].number_of_swaps = position[p].number_of_swaps
      /\ position'[p].periodic_drip_amount = position[p].periodic_drip_amount
      /\ \A q \in Positions : q # p => position'[q] = position[q]
    <2>1. position[p] \in PositionType
        BY <1>1, PositionParts
    <2> QED BY <1>1, <1>4, <2>1 DEF TypeOK, PositionType
<1>7. \A w \in Vaults :
         /\ balance'[w]["B"] \in Nat
         /\ balance'[w]["B"] >= balance[w]["B"] - (IF w = v THEN b ELSE 0)
    <2>1. TypeInv' /\ SpentAtMost(balance, balance', v, "B", b)
        BY <1>1, <1>3, WithdrawBType DEF b
    <2>2. balance' \in Balances /\ "B" \in Tokens
        BY <2>1 DEF TypeInv, TypeOK, Balances, Tokens
    <2>3. \A w \in Vaults : balance'[w]["B"] \in Nat
        BY <2>2, BalanceNat
    <2> QED BY <2>1, <2>2, <2>3 DEF SpentAtMost
<1>8. NetClaim(p, v)' = NetClaim(p, v) - Two64 * b
    <2> DEFINE x == (Weighted(v, LastDripOf(p, v))
                        - Weighted(v, position[p].drip_period_id_before_deposit))
                      * position[p].periodic_drip_amount
    <2>1. LastDripOf(p, v) \in PeriodIds
        BY <1>1, <1>4, VaultParts DEF LastDripOf, PositionTerms
    <2>2. position[p].drip_period_id_before_deposit \in PeriodIds
        BY <1>1, PositionParts
    <2>3. LastDripOf(p, v)' = LastDripOf(p, v)
        BY <1>2, <1>6 DEF LastDripOf, Expiry, KeepsRecords
    <2>4. Weighted(v, LastDripOf(p, v))' = Weighted(v, LastDripOf(p, v))
        BY <1>2, <2>1, <2>3 DEF Weighted, KeepsRecords
    <2>5. Weighted(v, position[p].drip_period_id_before_deposit)'
             = Weighted(v, position[p].drip_period_id_before_deposit)
        BY <1>2, <1>6, <2>2 DEF Weighted, KeepsRecords
    <2>6. x' = x
        BY <1>6, <2>4, <2>5
    <2>7. NetClaim(p, v) = x - Two64 * wd
        BY <1>4 DEF NetClaim
    <2>8. NetClaim(p, v)' = x' - Two64 * (wd + b)
        BY <1>6 DEF NetClaim
    <2>9. x \in Int
        <3>1. /\ Weighted(v, LastDripOf(p, v)) \in Nat
              /\ Weighted(v, position[p].drip_period_id_before_deposit) \in Nat
              /\ position[p].periodic_drip_amount \in Nat
            BY <1>1, <2>1, <2>2, ClaimType, PositionParts
        <3>2. \A a, c, d \in Nat : (a - c) * d \in Int
            OBVIOUS
        <3> QED BY <3>1, <3>2
    <2> HIDE DEF x, wd
    <2>10. Two64 * (wd + b) = Two64 * wd + Two64 * b
        BY <1>4, <1>5, WidthAssumption
    <2>11. Two64 * wd \in Int /\ Two64 * b \in Int
        BY <1>4, <1>5, WidthAssumption
    <2> QED BY <2>6, <2>7, <2>8, <2>9, <2>10, <2>11
<1>9. Claim(p, v)' \in Int /\ Claim(p, v)' <= Claim(p, v) - Two64 * b
    <2>1. NetClaim(p, v) \in Int
        BY <1>1, ClaimType
    <2>2. Two64 * b \in Nat
        BY <1>4, WidthAssumption
    <2>3. Two64 * b <= NetClaim(p, v)
        <3>1. Config(v).token_a_drip_trigger_spread = 0
            BY <1>1, <1>4, SpreadIsZero
        <3> QED BY <1>1, <1>4, <3>1, ClaimCovers
    <2>4. /\ Claim(p, v) = IF NetClaim(p, v) > 0 THEN NetClaim(p, v) ELSE 0
          /\ Claim(p, v)' = IF NetClaim(p, v)' > 0 THEN NetClaim(p, v)' ELSE 0
        BY DEF Claim
    <2> QED BY <1>8, <2>1, <2>2, <2>3, <2>4
<1>10. \A w \in Vaults : w # v => Claim(p, w)' = Claim(p, w)
    BY <1>4, <1>6 DEF Claim, NetClaim
<1> QED BY <1>2, <1>4, <1>6, <1>7, <1>9, <1>10, PayoutCovered

\* A close pays out no more than the claim it ends.
LEMMA ClaimsClose ==
    ASSUME ClaimInv, NEW p \in Positions, NEW v \in Vaults, ClosePositionStep(p, v),
           \A q \in ConfigParams : q.token_a_drip_trigger_spread = 0
    PROVE  ClaimsCovered'
<1>1. AccountingInv /\ TypeInv /\ TypeOK /\ PositionTerms /\ ConfigsGiven
    BY DEF ClaimInv, HistoryInv, AccountingInv, TypeInv
<1>2. \A w \in Vaults : KeepsRecords(w)
    BY <1>1, QuietRecords
<1>3. PICK withdrawer \in Signers, i \in PeriodAccounts, j \in PeriodAccounts,
           expiry \in PeriodAccounts : ClosePosition(p, v, withdrawer, i, j, expiry)
    BY DEF ClosePositionStep
<1> DEFINE b == BeforeFees(p, v, i, j)
<1>4. /\ ValidWithdrawal(p, v, i, j) /\ vault[v].exists
      /\ position[p].status = "open" /\ position[p].vault = v
      /\ b \in Nat /\ b = UnclaimedB(p, v)
    BY <1>1, <1>3, BeforeFeesType, PayoutIsUnclaimed DEF ClosePosition, ValidWithdrawal
<1>5. PICK x : position' = [position EXCEPT ![p].withdrawn_token_b_amount = x,
                                              ![p].status = "closed"]
    BY <1>3 DEF ClosePosition
<1> HIDE DEF b
<1>6. position'[p].status = "closed" /\ \A q \in Positions : q # p => position'[q] = position[q]
    <2>1. position[p] \in PositionType
        BY <1>1, PositionParts
    <2> QED BY <1>1, <1>5, <2>1 DEF TypeOK, PositionType
<1>7. \A w \in Vaults :
         /\ balance'[w]["B"] \in Nat
         /\ balance'[w]["B"] >= balance[w]["B"] - (IF w = v THEN b ELSE 0)
    <2>1. /\ balance' \in Balances
          /\ \A w \in Vaults :
                balance'[w]["B"] >= balance[w]["B"] - (IF w = v THEN b ELSE 0)
        BY <1>1, <1>3, CloseSpends DEF b
    <2> QED BY <2>1, BalanceNat DEF Tokens
<1>8. \A w \in Vaults : Claim(p, w)' = 0
    BY <1>6 DEF Claim, NetClaim
<1>9. Two64 * b <= Claim(p, v)
    <2>1. Config(v).token_a_drip_trigger_spread = 0
        BY <1>1, <1>4, SpreadIsZero
    <2>2. Two64 * b <= NetClaim(p, v) /\ Two64 * b \in Int /\ NetClaim(p, v) \in Int
        BY <1>1, <1>4, <2>1, ClaimCovers, ClaimType, WidthAssumption
    <2> QED BY <2>2 DEF Claim
<1>10. Claim(p, v)' \in Int /\ Claim(p, v)' <= Claim(p, v) - Two64 * b
    <2>1. Claim(p, v) \in Int
        BY <1>1, ClaimType
    <2>2. Two64 * b \in Int
        BY <1>4, WidthAssumption
    <2> QED BY <1>8, <1>9, <2>1, <2>2
<1>11. \A w \in Vaults : w # v => Claim(p, w)' = Claim(p, w)
    BY <1>4, <1>8 DEF Claim, NetClaim
<1> QED BY <1>2, <1>4, <1>6, <1>7, <1>10, <1>11, PayoutCovered

\* What a drip records for its period, and what it brings in.
LEMMA DripBought ==
    ASSUME AccountingInv, ConfigsGiven, NEW v \in Vaults, DripStep(v),
           \A q \in ConfigParams : q.token_a_drip_trigger_spread = 0
    PROVE  \E received_b \in ReceivedAmounts :
              /\ received_b \in Nat
              /\ vault[v].drip_amount \in Nat \ {0} /\ SwapAmount(v) = vault[v].drip_amount
              /\ NewTwapDefined(vault_period[v][vault[v].last_drip_period].twap,
                                vault[v].last_drip_period + 1,
                                ComputePrice(received_b, vault[v].drip_amount))
              /\ vault_period'[v][vault[v].last_drip_period + 1].twap
                   = NewTwap(vault_period[v][vault[v].last_drip_period].twap,
                             vault[v].last_drip_period + 1,
                             ComputePrice(received_b, vault[v].drip_amount))
              /\ balance'[v]["B"] = balance[v]["B"] + received_b
              /\ position' = position
<1> DEFINE l0 == vault[v].last_drip_period
           k0 == l0 + 1
           d == vault[v].drip_amount
<1>1. TypeInv /\ TypeOK
    BY DEF AccountingInv, TypeInv
<1>2. PICK last \in PeriodAccounts, current \in PeriodAccounts, swap \in Swaps,
           fee_account \in PayoutAccounts,
           swapped_a \in 0 .. SwapAmount(v), received_b \in ReceivedAmounts :
           Drip(v, last, current, swap, fee_account, swapped_a, received_b)
    BY DEF DripStep
<1>3. received_b \in Nat /\ d \in Nat \ {0} /\ vault[v].exists
    BY <1>1, <1>2, BoundAssumption, CheckedAmounts, VaultParts DEF Drip
<1>4. SwapAmount(v) = d
    <2>1. Config(v).token_a_drip_trigger_spread = 0
        BY <1>1, <1>3, SpreadIsZero
    <2>2. SpreadOnDrip(v) = SpreadAmount(d, 0)
        BY <2>1 DEF SpreadOnDrip
    <2>3. SpreadAmount(d, 0) = 0
        <3> HIDE DEF d
        <3>1. d * 0 = 0
            BY <1>3
        <3>2. 0 \div Bps = 0
            BY BpsAssumption
        <3> QED BY <3>1, <3>2 DEF SpreadAmount
    <2>4. SwapAmount(v) = d - 0
        BY <2>2, <2>3 DEF SwapAmount
    <2> HIDE DEF d
    <2> QED BY <1>3, <2>4
<1>5. /\ last.vault = v /\ last.period_id = l0
      /\ current.vault = v /\ current.period_id = k0 /\ k0 \in PeriodIds
    BY <1>1, <1>2, PeriodAccountType DEF Drip, IsPeriod
<1> DEFINE t == NewTwap(vault_period[v][l0].twap, k0, ComputePrice(received_b, d))
<1>6. vault_period' = [vault_period EXCEPT ![v][k0].twap = t, ![v][k0].drip_timestamp = now]
    BY <1>2, <1>4, <1>5 DEF Drip, UpdatePeriod, Data
<1> HIDE DEF t, k0
<1>8. vault_period'[v][k0].twap = t
    <2>1. vault_period[v] \in [PeriodIds -> PeriodType]
        BY <1>1, VaultParts
    <2>2. vault_period[v][k0] \in PeriodType
        BY <1>5, <2>1
    <2>3. vault_period'[v][k0] = [vault_period[v][k0] EXCEPT !.twap = t, !.drip_timestamp = now]
        BY <1>1, <1>5, <1>6, <2>1 DEF TypeOK
    <2> QED BY <2>2, <2>3 DEF PeriodType
<1>9. balance'[v]["B"] = balance[v]["B"] + received_b
    BY <1>1, <1>2, DripSpends
<1>10. position' = position
    BY <1>2 DEF Drip
<1>11. NewTwapDefined(vault_period[v][l0].twap, k0, ComputePrice(received_b, d))
    BY <1>2, <1>4, <1>5 DEF Drip, UpdatePeriod, Data
<1> QED BY <1>3, <1>4, <1>8, <1>9, <1>10, <1>11 DEF t, k0

\* A drip adds at most a position's share of it, at its price, to the position's claim.
LEMMA NetClaimGrows ==
    ASSUME AccountingInv, NEW v \in Vaults, NEW p \in Positions, NEW price \in Nat,
           Drips(v, vault[v].last_drip_period + 1),
           vault[v].last_drip_period + 1 \in PeriodIds,
           vault_period'[v][vault[v].last_drip_period + 1].twap
              = NewTwap(vault_period[v][vault[v].last_drip_period].twap,
                        vault[v].last_drip_period + 1, price),
           position' = position
    PROVE  /\ NetClaim(p, v)' \in Int
           /\ NetClaim(p, v)' <= NetClaim(p, v) + price * DripShare(p, v)
<1> DEFINE l0 == vault[v].last_drip_period
           k0 == l0 + 1
           from == position[p].drip_period_id_before_deposit
           per == position[p].periodic_drip_amount
           wd == position[p].withdrawn_token_b_amount
           share == DripShare(p, v)
<1>1. TypeInv /\ TypeOK /\ PositionTerms
    BY DEF AccountingInv, TypeInv
<1>2. /\ l0 \in Nat /\ l0 \in PeriodIds /\ k0 \in Nat \ {0} /\ k0 \in PeriodIds
      /\ from \in Nat /\ from \in PeriodIds /\ per \in Nat /\ wd \in Nat /\ Expiry(p) \in Nat
    BY <1>1, PositionParts, VaultParts, BoundAssumption DEF PeriodIds
<1>3. /\ vault'[v].last_drip_period = k0
      /\ \A m \in PeriodIds : m # k0 => vault_period'[v][m] = vault_period[v][m]
    BY DEF Drips
<1>4. NetClaim(p, v) \in Int
    BY <1>1, ClaimType
<1>5. share \in Nat
    BY <1>2 DEF DripShare
<1>6. price * share \in Nat
    <2> HIDE DEF share
    <2> QED BY <1>5
<1>7. Expiry(p)' = Expiry(p)
    BY DEF Expiry
<1>8. \A m \in PeriodIds : m # k0 => Weighted(v, m)' = Weighted(v, m)
    BY <1>3 DEF Weighted
<1>9. CASE ~ (position[p].status = "open" /\ position[p].vault = v)
    <2>1. NetClaim(p, v) = 0 /\ NetClaim(p, v)' = 0
        BY <1>9 DEF NetClaim
    <2> HIDE DEF share
    <2> QED BY <1>6, <2>1 DEF share
<1>10. CASE position[p].status = "open" /\ position[p].vault = v
    <2>1. from <= l0
        BY <1>1, <1>10 DEF PositionTerms
    <2>2. Weighted(v, from)' = Weighted(v, from)
        <3>1. from # k0
            BY <1>2, <2>1
        <3> QED BY <1>2, <1>8, <3>1 DEF Weighted
    <2>3. /\ NetClaim(p, v) = (Weighted(v, LastDripOf(p, v)) - Weighted(v, from)) * per - Two64 * wd
          /\ NetClaim(p, v)' = (Weighted(v, LastDripOf(p, v))' - Weighted(v, from)') * per
                               - Two64 * wd
        BY <1>10 DEF NetClaim
    <2>4. CASE Expiry(p) <= l0
        <3>1. LastDripOf(p, v) = Expiry(p)
            BY <1>2, <2>4 DEF LastDripOf
        <3>2. LastDripOf(p, v)' = Expiry(p)
            BY <1>2, <1>3, <1>7, <2>4 DEF LastDripOf
        <3>3. Expiry(p) \in PeriodIds /\ Expiry(p) # k0
            BY <1>1, <1>2, <1>10, <2>4 DEF PositionTerms
        <3>4. Weighted(v, LastDripOf(p, v))' = Weighted(v, LastDripOf(p, v))
            <4>1. Weighted(v, Expiry(p))' = Weighted(v, Expiry(p))
                BY <1>7, <1>8, <3>3 DEF Weighted
            <4> QED BY <1>7, <3>1, <3>2, <4>1 DEF Weighted
        <3>5. NetClaim(p, v)' = NetClaim(p, v)
            BY <2>2, <2>3, <3>4
        <3> HIDE DEF share
        <3> QED BY <1>4, <1>6, <3>5 DEF share
    <2>5. CASE l0 < Expiry(p)
        <3>1. LastDripOf(p, v) = l0
            BY <2>5 DEF LastDripOf
        <3>2. LastDripOf(p, v)' = k0
            BY <1>2, <1>3, <1>7, <2>5 DEF LastDripOf
        <3>3. share = per
            BY <1>10, <2>5 DEF DripShare, Active
        <3> DEFINE before == Weighted(v, l0)
                   after == Weighted(v, LastDripOf(p, v))'
                   start == Weighted(v, from)
                   twap == vault_period[v][l0].twap
        <3>4. twap \in Nat /\ before \in Nat /\ start \in Nat
            BY <1>1, <1>2, ClaimType
        <3>5. after \in Nat /\ after <= before + price
            <4>1. NewTwap(twap, k0, price) \in Nat
                  /\ NewTwap(twap, k0, price) * k0 <= twap * (k0 - 1) + price
                <5> HIDE DEF twap, k0
                <5> QED BY <1>2, <3>4, NewTwapWeight
            <4>2. after = NewTwap(twap, k0, price) * k0
                BY <3>2 DEF Weighted
            <4>3. k0 - 1 = l0
                BY <1>2
            <4>4. before = twap * (k0 - 1)
                BY <4>3 DEF Weighted
            <4> DEFINE nt == NewTwap(twap, k0, price)
            <4> HIDE DEF after, before, twap, k0, nt
            <4>5. nt * k0 \in Nat
                BY <1>2, <4>1 DEF nt
            <4> QED BY <4>1, <4>2, <4>4, <4>5 DEF nt
        <3>6. /\ NetClaim(p, v) = (before - start) * per - Two64 * wd
              /\ NetClaim(p, v)' = (after - start) * per - Two64 * wd
            <4>1. Weighted(v, LastDripOf(p, v)) = before
                BY <3>1
            <4> QED BY <2>2, <2>3, <4>1
        <3> HIDE DEF before, after, start, per, wd, share
        <3>7. (after - start) * per <= (before - start) * per + price * per
            <4>1. (after - start) <= (before - start) + price
                BY <3>4, <3>5
            <4> DEFINE x == after - start
                       y == (before - start) + price
            <4>2. x \in Int /\ y \in Int /\ x <= y
                BY <3>4, <3>5, <4>1
            <4> HIDE DEF x, y
            <4>3. x * per <= y * per
                BY <1>2, <4>2, Z3
            <4>4. ((before - start) + price) * per = (before - start) * per + price * per
                BY <1>2, <3>4, Z3
            <4> QED BY <4>3, <4>4 DEF x, y
        <3>8. /\ (after - start) * per \in Int /\ (before - start) * per \in Int
              /\ price * per \in Int /\ Two64 * wd \in Int
            BY <1>2, <3>4, <3>5, WidthAssumption
        <3> QED BY <3>3, <3>6, <3>7, <3>8 DEF share
    <2> QED BY <1>2, <2>4, <2>5
<1> QED BY <1>9, <1>10

\* Nor does the claim, where the averages leave it less than nothing.
LEMMA ClaimGrows ==
    ASSUME AccountingInv, NEW v \in Vaults, NEW p \in Positions, NEW price \in Nat,
           Drips(v, vault[v].last_drip_period + 1),
           vault[v].last_drip_period + 1 \in PeriodIds,
           vault_period'[v][vault[v].last_drip_period + 1].twap
              = NewTwap(vault_period[v][vault[v].last_drip_period].twap,
                        vault[v].last_drip_period + 1, price),
           position' = position
    PROVE  /\ Claim(p, v)' \in Int
           /\ Claim(p, v)' <= Claim(p, v) + price * DripShare(p, v)
<1>1. NetClaim(p, v)' \in Int /\ NetClaim(p, v)' <= NetClaim(p, v) + price * DripShare(p, v)
    BY NetClaimGrows
<1>2. NetClaim(p, v) \in Int /\ DripShare(p, v) \in Nat
    <2>1. TypeOK /\ PositionTerms
        BY DEF AccountingInv, TypeInv
    <2> QED BY <2>1, ClaimType, PositionParts DEF DripShare
<1> DEFINE bought == price * DripShare(p, v)
           x == NetClaim(p, v)
           y == NetClaim(p, v)'
<1>3. bought \in Nat
    BY <1>2
<1>4. /\ Claim(p, v) = IF x > 0 THEN x ELSE 0
      /\ Claim(p, v)' = IF y > 0 THEN y ELSE 0
    BY DEF Claim
<1>5. y \in Int /\ x \in Int /\ y <= x + bought
    BY <1>1, <1>2
<1> HIDE DEF bought, x, y
<1>6. Claim(p, v)' \in Int /\ Claim(p, v)' <= Claim(p, v) + bought
    BY <1>3, <1>4, <1>5
<1> QED BY <1>6 DEF bought

\* A drip brings in at least what it adds to the claims.
LEMMA ClaimsDrip ==
    ASSUME ClaimInv, NEW v \in Vaults, DripStep(v),
           \A q \in ConfigParams : q.token_a_drip_trigger_spread = 0
    PROVE  ClaimsCovered'
<1>1. AccountingInv /\ ConfigsGiven /\ TypeOK /\ PositionTerms
    BY DEF ClaimInv, HistoryInv, AccountingInv, TypeInv
<1> DEFINE d == vault[v].drip_amount
<1>2. PICK received_b \in Nat :
         /\ d \in Nat \ {0}
         /\ vault_period'[v][vault[v].last_drip_period + 1].twap
              = NewTwap(vault_period[v][vault[v].last_drip_period].twap,
                        vault[v].last_drip_period + 1, ComputePrice(received_b, d))
         /\ balance'[v]["B"] = balance[v]["B"] + received_b
         /\ position' = position
    BY <1>1, DripBought
<1> DEFINE price == ComputePrice(received_b, d)
<1>3. price \in Nat /\ d * price <= Two64 * received_b
    <2> HIDE DEF d
    <2> QED BY <1>2, PriceTimesAmount
<1>4. /\ \A w \in Vaults : w # v => Untouched(w) /\ KeepsRecords(w)
      /\ Drips(v, vault[v].last_drip_period + 1)
      /\ vault[v].last_drip_period + 1 \in PeriodIds
    BY <1>1, DripRecords
<1>5. \A p \in Positions : /\ Claim(p, v)' \in Int
                           /\ Claim(p, v)' <= Claim(p, v) + price * DripShare(p, v)
    <2> HIDE DEF price
    <2>1. vault_period'[v][vault[v].last_drip_period + 1].twap
              = NewTwap(vault_period[v][vault[v].last_drip_period].twap,
                        vault[v].last_drip_period + 1, price)
        BY <1>2 DEF price
    <2> QED BY <1>1, <1>2, <1>3, <1>4, <2>1, ClaimGrows
<1>6. SumTo(Claims(v)', NumPositions) <= Two64 * balance'[v]["B"]
    <2> DEFINE old == Claims(v)
               new == Claims(v)'
               shares == DripShares(v)
               bought == [p \in Positions |-> price * DripShare(p, v)]
               bound == [p \in Positions |-> Claim(p, v) + price * DripShare(p, v)]
    <2>1. NumPositions \in Nat /\ Positions = 1 .. NumPositions
        BY AddressAssumption DEF Positions
    <2>2. shares \in [1 .. NumPositions -> Int] /\ \A p \in Positions : DripShare(p, v) \in Nat
        <3>1. shares \in [1 .. NumPositions -> Nat]
            BY <1>1, ShareTypes
        <3> QED BY <2>1, <3>1 DEF DripShares
    <2>3. old \in [1 .. NumPositions -> Int] /\ \A p \in Positions : Claim(p, v) \in Int
        BY <1>1, ClaimType
    <2>4. new \in [1 .. NumPositions -> Int]
        BY <1>5, <2>1 DEF Claims
    <2> HIDE DEF price
    <2>5. \A p \in Positions : price * DripShare(p, v) \in Int
        BY <1>3, <2>2
    <2>6. bought \in [1 .. NumPositions -> Int] /\ bound \in [1 .. NumPositions -> Int]
        BY <2>1, <2>3, <2>5
    <2>7. \A p \in 1 .. NumPositions : bought[p] = price * shares[p]
        BY <2>1 DEF DripShares
    <2>8. \A p \in 1 .. NumPositions : bound[p] = old[p] + bought[p]
        BY <2>1 DEF Claims
    <2>9. \A p \in 1 .. NumPositions : new[p] <= bound[p]
        BY <1>5, <2>1 DEF Claims
    <2> HIDE DEF old, new, shares, bought, bound
    <2>10. SumTo(new, NumPositions) <= SumTo(bound, NumPositions)
        BY <2>1, <2>4, <2>6, <2>9, SumMonotone
    <2>11. SumTo(bound, NumPositions) = SumTo(old, NumPositions) + SumTo(bought, NumPositions)
        BY <2>1, <2>3, <2>6, <2>8, SumAdd
    <2>12. SumTo(bought, NumPositions) = price * SumTo(shares, NumPositions)
        <3>1. price \in Int
            BY <1>3
        <3> QED BY <2>1, <2>2, <2>6, <2>7, <3>1, SumScale
    <2>13. SumTo(shares, NumPositions) = d
        BY <1>1 DEF AccountingInv, DripAmountIsSumOfShares, shares
    <2>14. SumTo(old, NumPositions) <= Two64 * balance[v]["B"]
        BY DEF ClaimInv, ClaimsCovered, old
    <2>15. /\ SumTo(new, NumPositions) \in Int /\ SumTo(bound, NumPositions) \in Int
           /\ SumTo(old, NumPositions) \in Int /\ SumTo(bought, NumPositions) \in Int
        BY <2>1, <2>3, <2>4, <2>6, SumInt
    <2> DEFINE bal == balance[v]["B"]
    <2>16. bal \in Nat
        BY <1>1, VaultParts, CheckedAmounts
    <2>17. balance'[v]["B"] = bal + received_b
        BY <1>2
    <2> HIDE DEF bal, d
    <2>18. Two64 * (bal + received_b) = Two64 * bal + Two64 * received_b
        BY <2>16, WidthAssumption
    <2>19. Two64 * bal \in Int /\ Two64 * received_b \in Int
        BY <2>16, WidthAssumption
    <2>20. SumTo(bought, NumPositions) <= Two64 * received_b
        <3>1. price * d = d * price
            BY <1>2, <1>3
        <3> QED BY <1>3, <2>12, <2>13, <3>1
    <2>21. SumTo(old, NumPositions) <= Two64 * bal
        BY <2>14 DEF bal
    <2>22. SumTo(new, NumPositions) <= Two64 * bal + Two64 * received_b
        BY <2>10, <2>11, <2>15, <2>19, <2>20, <2>21
    <2> QED BY <2>17, <2>18, <2>22 DEF new
<1>7. ASSUME NEW w \in Vaults, w # v
      PROVE  SumTo(Claims(w)', NumPositions) <= Two64 * balance'[w]["B"]
    <2>1. \A p \in Positions : Claim(p, w)' = Claim(p, w)
        BY <1>1, <1>2, <1>4, <1>7, SameClaim
    <2>2. Claims(w)' = Claims(w)
        BY <2>1 DEF Claims
    <2> DEFINE old == balance[w]["B"]
               new == balance'[w]["B"]
               due == SumTo(Claims(w), NumPositions)
    <2>3. old \in Nat
        BY <1>1, VaultParts, CheckedAmounts
    <2>4. new \in Nat
        <3>1. TypeInv'
            BY StepType DEF ClaimInv, HistoryInv, AccountingInv, Next
        <3> QED BY <3>1, BalanceNat DEF TypeInv, TypeOK, Balances, Tokens
    <2>5. old <= new
        BY <1>4, <1>7 DEF Untouched, Tokens
    <2>6. due <= Two64 * old /\ due \in Int
        <3>1. Claims(w) \in [1 .. NumPositions -> Int] /\ NumPositions \in Nat
            BY <1>1, ClaimType, AddressAssumption
        <3> QED BY <3>1, SumInt DEF ClaimInv, ClaimsCovered
    <2> HIDE DEF old, new, due
    <2>7. Two64 * old <= Two64 * new /\ Two64 * old \in Int /\ Two64 * new \in Int
        BY <2>3, <2>4, <2>5, WidthAssumption
    <2>8. due <= Two64 * new
        BY <2>6, <2>7
    <2> QED BY <2>2, <2>8 DEF due, new
<1>8. ASSUME NEW w \in Vaults
      PROVE  SumTo(Claims(w)', NumPositions) <= Two64 * balance'[w]["B"]
    <2>1. CASE w = v
        BY <1>6, <2>1
    <2>2. CASE w # v
        BY <1>7, <2>2
    <2> QED BY <2>1, <2>2
<1> QED BY <1>8 DEF ClaimsCovered

\* Every other instruction pays out no B, if the admin takes none.
LEMMA ClaimsOther ==
    ASSUME ClaimInv, "B" \notin AdminTakes
    PROVE  /\ \A c \in Configs, params \in ConfigParams :
                InitVaultProtoConfig(c, params) => ClaimsCovered'
           /\ \A v \in Vaults, k \in PeriodIds : InitVaultPeriod(v, k) => ClaimsCovered'
           /\ \A v \in Vaults : AdminStep(v) => ClaimsCovered'
           /\ \A p \in Positions, to \in Users : TransferNft(p, to) => ClaimsCovered'
           /\ Tick \/ UNCHANGED vars => ClaimsCovered'
<1>1. TypeOK /\ AccountingInv /\ PeriodsFresh
    BY DEF ClaimInv, HistoryInv, AccountingInv, TypeInv
<1>2. ASSUME NEW c \in Configs, NEW params \in ConfigParams, InitVaultProtoConfig(c, params)
      PROVE  ClaimsCovered'
    <2>1. \A w \in Vaults : KeepsRecords(w)
        BY <1>1, <1>2, SetUpRecords
    <2> QED BY <1>2, <2>1, ClaimsQuiet DEF InitVaultProtoConfig
<1>3. ASSUME NEW v \in Vaults, NEW k \in PeriodIds, InitVaultPeriod(v, k)
      PROVE  ClaimsCovered'
    <2>1. \A w \in Vaults : KeepsRecords(w)
        BY <1>1, <1>3, SetUpRecords
    <2> QED BY <1>3, <2>1, ClaimsQuiet DEF InitVaultPeriod
<1>4. ASSUME NEW v \in Vaults, NEW admin \in Signers, NEW list \in WhitelistParams,
             InitVault(v, admin, list) \/ SetVaultSwapWhitelist(v, admin, list)
      PROVE  ClaimsCovered'
    <2>1. \A w \in Vaults : KeepsRecords(w)
        BY <1>1, <1>4, SetUpRecords
    <2> QED BY <1>4, <2>1, ClaimsQuiet DEF InitVault, SetVaultSwapWhitelist
<1>5. ASSUME NEW v \in Vaults, NEW admin \in Signers, NEW token \in Tokens,
             NEW to \in PayoutAccounts, EmptyTokenAccount(v, admin, token, to)
      PROVE  ClaimsCovered'
    <2>1. \A w \in Vaults : KeepsRecords(w)
        BY <1>1, <1>5, QuietRecords
    <2>2. token # "B" /\ position' = position
        BY <1>5 DEF EmptyTokenAccount
    <2>3. \A w \in Vaults : balance'[w]["B"] = balance[w]["B"]
        <3>1. TypeInv
            BY <1>1 DEF AccountingInv
        <3>2. SpentAtMost(balance, balance', v, token, balance[v][token])
            BY <1>5, <3>1, EmptiedFacts
        <3> QED BY <2>2, <3>2 DEF SpentAtMost, Tokens
    <2> QED BY <2>1, <2>2, <2>3, ClaimsQuiet
<1>6. ASSUME NEW v \in Vaults, NEW admin \in Signers, NEW p \in Positions,
             ClosePositionAccount(p, v, admin)
      PROVE  ClaimsCovered'
    <2>1. \A w \in Vaults : KeepsRecords(w)
        BY <1>1, <1>6, QuietRecords
    <2>2. /\ position' = [position EXCEPT ![p].status = "closed"]
          /\ position[p].status = "legacy" /\ balance' = balance
        BY <1>6 DEF ClosePositionAccount
    <2>3. position[p] \in PositionType
        BY <1>1, PositionParts
    <2>4. \A q \in Positions :
              /\ position'[q].status = "open" <=> position[q].status = "open"
              /\ position'[q].vault = position[q].vault
              /\ position'[q].withdrawn_token_b_amount = position[q].withdrawn_token_b_amount
              /\ position'[q].drip_period_id_before_deposit
                    = position[q].drip_period_id_before_deposit
              /\ position'[q].number_of_swaps = position[q].number_of_swaps
              /\ position'[q].periodic_drip_amount = position[q].periodic_drip_amount
        BY <1>1, <2>2, <2>3 DEF TypeOK, PositionType
    <2> QED BY <2>1, <2>2, <2>4, ClaimsQuiet
<1>7. ASSUME NEW v \in Vaults, AdminStep(v)
      PROVE  ClaimsCovered'
    BY <1>4, <1>5, <1>6, <1>7 DEF AdminStep, WithdrawA, AdminWithdraw, Tokens
<1>8. ASSUME NEW p \in Positions, NEW to \in Users, TransferNft(p, to)
      PROVE  ClaimsCovered'
    <2>1. \A w \in Vaults : KeepsRecords(w)
        BY <1>1, <1>8, QuietRecords
    <2> QED BY <1>8, <2>1, ClaimsQuiet DEF TransferNft
<1>9. ASSUME Tick \/ UNCHANGED vars
      PROVE  ClaimsCovered'
    <2>1. \A w \in Vaults : KeepsRecords(w)
        BY <1>1, <1>9, QuietRecords
    <2> QED BY <1>9, <2>1, ClaimsQuiet DEF Tick, vars
<1> QED BY <1>2, <1>3, <1>7, <1>8, <1>9

-----------------------------------------------------------------------------
\* Nothing is claimed at the start.
LEMMA InitClaims == Init => ClaimInv
<1> SUFFICES ASSUME Init
             PROVE  ClaimInv
    OBVIOUS
<1>1. HistoryInv /\ ConfigsGiven
    BY InitHistory, InitConfigs
<1>2. TypeOK /\ PositionTerms
    BY <1>1 DEF HistoryInv, AccountingInv, TypeInv
<1>3. \A p \in Positions : position[p].status # "open"
    <2>1. PICK owner \in [LegacyPositions -> UpgradedVaults] :
             position = [p \in Positions |->
                 IF p \in LegacyPositions
                 THEN [NoPosition EXCEPT !.status = "legacy", !.vault = owner[p]]
                 ELSE NoPosition]
        BY DEF Init
    <2>2. ASSUME NEW x
          PROVE  [NoPosition EXCEPT !.status = "legacy", !.vault = x].status = "legacy"
        BY DEF NoPosition
    <2>3. NoPosition.status = "none"
        BY DEF NoPosition
    <2> QED BY <2>1, <2>2, <2>3
<1>4. ClaimsCovered
    <2> SUFFICES ASSUME NEW v \in Vaults
                 PROVE  SumTo(Claims(v), NumPositions) <= Two64 * balance[v]["B"]
        BY DEF ClaimsCovered
    <2>1. \A p \in Positions : Claim(p, v) = 0
        BY <1>3 DEF Claim, NetClaim
    <2>2. Claims(v) \in [1 .. NumPositions -> Int]
        BY <1>2, ClaimType
    <2>3. NumPositions \in Nat /\ Positions = 1 .. NumPositions
        BY AddressAssumption DEF Positions
    <2>4. \A p \in 1 .. NumPositions : Claims(v)[p] = 0
        BY <2>1, <2>3 DEF Claims
    <2> DEFINE c == Claims(v)
    <2> HIDE DEF c
    <2>5. SumTo(c, NumPositions) = 0
        BY <2>2, <2>3, <2>4, SumZero DEF c
    <2>6. balance[v]["B"] \in Nat
        BY <1>2, VaultParts, CheckedAmounts
    <2>7. 0 <= Two64 * balance[v]["B"]
        BY <2>6, WidthAssumption
    <2> QED BY <2>5, <2>7 DEF c
<1> QED BY <1>1, <1>4 DEF ClaimInv

\* The invariant holds whenever the program has run for a while.
LEMMA ClaimsInvariant ==
    ASSUME "B" \notin AdminTakes,
           \A q \in ConfigParams : q.token_a_drip_trigger_spread = 0
    PROVE  Spec => []ClaimInv
<1>1. Init => ClaimInv
    BY InitClaims
<1>2. ClaimInv /\ [Next]_vars => ClaimInv'
    <2> SUFFICES ASSUME ClaimInv, [Next]_vars
                 PROVE  ClaimInv'
        OBVIOUS
    <2>1. HistoryInv'
        BY StepHistory DEF ClaimInv
    <2>2. ConfigsGiven'
        BY StepConfigs DEF ClaimInv, HistoryInv, AccountingInv
    <2>3. ClaimsCovered'
        BY ClaimsDeposit, ClaimsWithdraw, ClaimsClose, ClaimsDrip, ClaimsOther DEF Next
    <2> QED BY <2>1, <2>2, <2>3 DEF ClaimInv
<1> QED BY <1>1, <1>2, PTL DEF Spec

\* Without a drip trigger spread, and as long as the admin takes no B, a vault's
\* token B account covers everything its open positions can withdraw: no rounding
\* of a price, an average or a withdrawal promises more B than the swaps returned,
\* in whatever order positions are opened, drip, withdraw and are closed.
THEOREM VaultSolventInB ==
    ASSUME "B" \notin AdminTakes,
           \A q \in ConfigParams : q.token_a_drip_trigger_spread = 0
    PROVE  Spec => []TokenBSolvent
<1>1. ClaimInv => TokenBSolvent
    BY ClaimsSuffice
<1>2. Spec => []ClaimInv
    BY ClaimsInvariant
<1> QED BY <1>1, <1>2, PTL

-----------------------------------------------------------------------------
(* What a vault can pay *)

\* A vault holds the A it is about to drip.
LEMMA DripBacked ==
    ASSUME AccountingInv, NEW v \in Vaults
    PROVE  vault[v].drip_amount <= balance[v]["A"]
<1>1. TypeOK /\ TypeInv
    BY DEF AccountingInv, TypeInv
<1> DEFINE shares == DripShares(v)
           unspent == UnspentAmounts(v)
<1>2. /\ shares \in [1 .. NumPositions -> Nat]
      /\ unspent \in [1 .. NumPositions -> Nat]
      /\ NumPositions \in Nat /\ Positions = 1 .. NumPositions
    BY <1>1, ShareTypes, AddressAssumption DEF Positions
<1>3. ASSUME NEW p \in Positions
      PROVE  shares[p] <= unspent[p]
    <2>1. shares[p] = DripShare(p, v) /\ unspent[p] = UnspentA(p, v)
        BY DEF DripShares, UnspentAmounts, Positions
    <2> DEFINE per == position[p].periodic_drip_amount
               left == Expiry(p) - vault[v].last_drip_period
    <2>2. per \in Nat /\ Expiry(p) \in Nat /\ vault[v].last_drip_period \in Nat
        BY <1>1, PositionParts, VaultParts, BoundAssumption DEF PeriodIds
    <2>3. CASE Active(p, v)
        <3>1. left \in Nat \ {0}
            BY <2>2, <2>3 DEF Active
        <3>2. DripShare(p, v) = per /\ UnspentA(p, v) = left * per
            BY <2>3 DEF DripShare, UnspentA
        <3> HIDE DEF per, left
        <3>3. per <= left * per
            <4>1. PICK k \in Nat : left = k + 1
                BY <3>1
            <4>2. k * per \in Nat /\ left * per = k * per + per
                BY <2>2, <4>1
            <4> QED BY <2>2, <4>2
        <3> HIDE DEF shares, unspent
        <3> QED BY <2>1, <3>2, <3>3
    <2>4. CASE ~ Active(p, v)
        BY <2>1, <2>4 DEF DripShare, UnspentA
    <2> QED BY <2>3, <2>4
<1> HIDE DEF shares, unspent
<1>4. shares \in [1 .. NumPositions -> Int] /\ unspent \in [1 .. NumPositions -> Int]
    BY <1>2
<1>5. SumTo(shares, NumPositions) <= SumTo(unspent, NumPositions)
    BY <1>2, <1>3, <1>4, SumMonotone
<1>6. /\ vault[v].drip_amount = SumTo(shares, NumPositions)
      /\ SumTo(unspent, NumPositions) <= balance[v]["A"]
    BY DEF AccountingInv, DripAmountIsSumOfShares, TokenASolvent, shares, unspent
<1>7. /\ SumTo(shares, NumPositions) \in Int /\ SumTo(unspent, NumPositions) \in Int
      /\ balance[v]["A"] \in Nat
    BY <1>1, <1>2, <1>4, SumInt, VaultParts, CheckedAmounts
<1> QED BY <1>5, <1>6, <1>7

\* It holds the A a close would refund.
LEMMA RefundBacked ==
    ASSUME AccountingInv, NEW p \in Positions, NEW v \in Vaults,
           NEW i \in PeriodAccounts, NEW j \in PeriodAccounts, ValidWithdrawal(p, v, i, j)
    PROVE  WithdrawTokenA(i.period_id, j.period_id, position[p].number_of_swaps,
                          position[p].periodic_drip_amount) <= balance[v]["A"]
<1>1. TypeOK /\ TypeInv /\ PositionTerms
    BY DEF AccountingInv, TypeInv
<1> DEFINE unspent == UnspentAmounts(v)
<1>2. /\ unspent \in [1 .. NumPositions -> Nat] /\ unspent[p] = UnspentA(p, v)
      /\ NumPositions \in Nat /\ p \in 1 .. NumPositions
    BY <1>1, ShareTypes, AddressAssumption DEF Positions, UnspentAmounts
<1>3. SumTo(unspent, NumPositions) <= balance[v]["A"]
    BY DEF AccountingInv, TokenASolvent
<1>4. balance[v]["A"] \in Nat
    BY <1>1, VaultParts, CheckedAmounts
<1> HIDE DEF unspent
<1>5. unspent[p] <= SumTo(unspent, NumPositions) /\ SumTo(unspent, NumPositions) \in Nat
      /\ unspent[p] \in Nat
    BY <1>2, SumBounds, SumType
<1>6. UnspentA(p, v) <= balance[v]["A"]
    BY <1>2, <1>3, <1>4, <1>5
<1> QED BY <1>1, <1>6, RefundIsUnspent

\* And it holds the B a withdrawal would pay out.
LEMMA PayoutBacked ==
    ASSUME ClaimInv, \A q \in ConfigParams : q.token_a_drip_trigger_spread = 0,
           NEW p \in Positions, NEW v \in Vaults,
           NEW i \in PeriodAccounts, NEW j \in PeriodAccounts, ValidWithdrawal(p, v, i, j)
    PROVE  BeforeFees(p, v, i, j) <= balance[v]["B"]
<1>1. TypeOK /\ TypeInv
    BY DEF ClaimInv, HistoryInv, AccountingInv, TypeInv
<1> DEFINE owed == [q \in Positions |-> OwedB(q, v)]
           x == BeforeFees(p, v, i, j)
<1>2. NumPositions \in Nat /\ Positions = 1 .. NumPositions
    BY AddressAssumption DEF Positions
<1>3. owed \in [1 .. NumPositions -> Nat]
    BY <1>2, OwedCovered
<1>4. SumTo(owed, NumPositions) <= balance[v]["B"]
    BY ClaimsSuffice DEF TokenBSolvent
<1>5. x \in Nat /\ x = UnclaimedB(p, v)
    BY <1>1, BeforeFeesType, PayoutIsUnclaimed
<1> HIDE DEF x
<1>6. owed[p] = x
    BY <1>5 DEF OwedB
<1> HIDE DEF owed
<1>7. owed[p] <= SumTo(owed, NumPositions) /\ SumTo(owed, NumPositions) \in Nat
    BY <1>2, <1>3, SumBounds, SumType
<1>8. balance[v]["B"] \in Nat
    BY <1>1, VaultParts, CheckedAmounts
<1> QED BY <1>4, <1>5, <1>6, <1>7, <1>8 DEF x

-----------------------------------------------------------------------------
(* No withdrawal panics, where prices are large enough in units of their last *)
(* place for averages not to fall and small enough to add up to 64 bits.      *)

\* What a drip records is at least twice the number of drips before it, in units of
\* the last place: more than what the averages of a position can lose by rounding.
PricesKeptUp ==
    [][\A v \in Vaults : vault'[v].last_drip_period # vault[v].last_drip_period =>
         ComputePrice(balance'[v]["B"] - balance[v]["B"], SwapAmount(v))
             >= 2 * vault[v].last_drip_period]_vars

\* The drips of a position so far, and the prices of them, added up from the averages.
DripsOf(p, v)  == LastDripOf(p, v) - position[p].drip_period_id_before_deposit
PricesOf(p, v) == Weighted(v, LastDripOf(p, v))
                      - Weighted(v, position[p].drip_period_id_before_deposit)

\* What a position of `periodic` can withdraw of the prices of `drips` drips.
Promise(prices, drips, periodic) ==
    IF drips = 0 THEN 0 ELSE ((prices \div drips) * (periodic * drips)) \div Two64

\* A position has been promised what it has withdrawn, and its prices are no more than
\* so many drips can have brought, each at most `received`.
Withdrawable(p, v, received) ==
    /\ DripsOf(p, v) \in Nat
    /\ PricesOf(p, v) \in Nat
    /\ PricesOf(p, v) * position[p].periodic_drip_amount <= (Two64 * received) * DripsOf(p, v)
    /\ position[p].withdrawn_token_b_amount
          <= Promise(PricesOf(p, v), DripsOf(p, v), position[p].periodic_drip_amount)

AllWithdrawable(received) ==
    \A p \in Positions, v \in Vaults :
        position[p].status = "open" /\ position[p].vault = v => Withdrawable(p, v, received)

\* No weighted average leaves a u128, and the invariant.
WeightsFit == \A v \in Vaults : \A k \in PeriodIds : Weighted(v, k) < Two64 * Two64

WithdrawalInv(received) ==
    /\ HistoryInv
    /\ ConfigsGiven
    /\ WeightsFit
    /\ AllWithdrawable(received)

-----------------------------------------------------------------------------
(* Arithmetic *)

\* An average times its number of drips loses less than one unit per drip.
LEMMA WeightGrows ==
    ASSUME NEW twap \in Nat, NEW i \in Nat \ {0}, NEW price \in Nat
    PROVE  twap * (i - 1) + price <= NewTwap(twap, i, price) * i + (i - 1)
<1> DEFINE x == twap * (i - 1) + price
<1>1. x \in Nat
    <2>1. i - 1 \in Nat
        OBVIOUS
    <2>2. twap * (i - 1) \in Nat
        BY <2>1
    <2> QED BY <2>2
<1>2. NewTwap(twap, i, price) = x \div i
    BY DEF NewTwap
<1> HIDE DEF x
<1> DEFINE y == x \div i
<1>3. y \in Nat /\ x <= i * y + (i - 1)
    BY <1>1
<1> HIDE DEF y
<1>4. y * i = i * y
    BY <1>3
<1> QED BY <1>2, <1>3, <1>4 DEF x, y

\* A quotient grows with its dividend.
LEMMA QuotientMonotone ==
    ASSUME NEW a \in Nat, NEW b \in Nat, a <= b, NEW d \in Nat \ {0}
    PROVE  a \div d <= b \div d
OBVIOUS

\* When the prices have grown by as many units as there were drips, one more drip
\* promises no less.
LEMMA PromiseGrows ==
    ASSUME NEW x \in Nat, NEW y \in Nat, NEW m \in Nat, x + m <= y, NEW periodic \in Nat
    PROVE  Promise(x, m, periodic) <= Promise(y, m + 1, periodic)
<1> DEFINE a == x \div m
           b == y \div (m + 1)
           left == a * (periodic * m)
           right == b * (periodic * (m + 1))
<1>1. b \in Nat /\ (m + 1) * b <= y /\ y <= (m + 1) * b + m
    OBVIOUS
<1>2. right \in Nat
    <2> HIDE DEF b
    <2>1. periodic * (m + 1) \in Nat
        OBVIOUS
    <2> QED BY <1>1, <2>1
<1>3. right \div Two64 \in Nat
    <2> HIDE DEF right
    <2> QED BY <1>2, Quotient, WidthAssumption
<1>4. Promise(y, m + 1, periodic) = right \div Two64
    BY DEF Promise
<1>5. CASE m = 0
    <2> HIDE DEF right
    <2> QED BY <1>3, <1>4, <1>5 DEF Promise
<1>6. CASE m # 0
    <2>1. a \in Nat /\ m * a <= x
        BY <1>6
    <2>2. Promise(x, m, periodic) = left \div Two64
        BY <1>6 DEF Promise
    <2> HIDE DEF a, b
    <2>3. m * a <= (m + 1) * b
        <3> DEFINE c == m * a
                   d == (m + 1) * b
        <3>1. c \in Nat /\ d \in Nat
            BY <1>1, <2>1
        <3> HIDE DEF c, d
        <3>2. c <= d
            BY <1>1, <2>1, <3>1 DEF c, d
        <3> QED BY <3>2 DEF c, d
    <2>4. left <= right /\ left \in Nat
        <3> DEFINE c == m * a
                   d == (m + 1) * b
        <3>1. c \in Nat /\ d \in Nat /\ c <= d
            BY <1>1, <2>1, <2>3
        <3>2. left = c * periodic
            BY <2>1, Z3
        <3>3. right = d * periodic
            BY <1>1, Z3
        <3> HIDE DEF c, d, left, right
        <3>4. c * periodic <= d * periodic /\ c * periodic \in Nat
            BY <3>1, Z3
        <3> QED BY <3>2, <3>3, <3>4
    <2> HIDE DEF left, right
    <2>5. left \div Two64 <= right \div Two64
        BY <1>2, <2>4, WidthAssumption, QuotientMonotone
    <2> QED BY <1>4, <2>2, <2>5
<1> QED BY <1>5, <1>6

\* A promise is an amount.
LEMMA PromiseType ==
    ASSUME NEW x \in Nat, NEW m \in Nat, NEW periodic \in Nat
    PROVE  Promise(x, m, periodic) \in Nat
<1>1. CASE m = 0
    BY <1>1 DEF Promise
<1>2. CASE m # 0
    <2> DEFINE a == x \div m
               n == periodic * m
               c == a * n
    <2>1. a \in Nat
        BY <1>2, Quotient
    <2>2. n \in Nat
        OBVIOUS
    <2> HIDE DEF a, n
    <2>3. c \in Nat
        BY <2>1, <2>2
    <2> HIDE DEF c
    <2>4. c \div Two64 \in Nat
        BY <2>3, Quotient, WidthAssumption
    <2> QED BY <1>2, <2>4 DEF Promise, a, n, c
<1> QED BY <1>1, <1>2

\* What is promised is no more than the prices, and its computation fits 128 bits.
LEMMA PromiseFits ==
    ASSUME NEW x \in Nat, NEW m \in Nat \ {0}, NEW periodic \in Nat, NEW received \in Nat,
           x * periodic <= (Two64 * received) * m, received * m < Two64
    PROVE  (x \div m) * (periodic * m) < Two64 * Two64
<1> DEFINE a == x \div m
           c == m * a
<1>1. a \in Nat /\ c <= x
    BY Quotient
<1> HIDE DEF a
<1>2. a * (periodic * m) = c * periodic
    BY <1>1, Z3
<1>3. c \in Nat
    BY <1>1
<1> HIDE DEF c
<1>4. c * periodic <= x * periodic
    BY <1>1, <1>3, Z3
<1> DEFINE rm == received * m
<1>5. rm \in Nat /\ (Two64 * received) * m = Two64 * rm
    BY WidthAssumption, Z3
<1>6. rm < Two64
    OBVIOUS
<1> HIDE DEF rm
<1>7. Two64 * rm < Two64 * Two64
    BY <1>5, <1>6, WidthAssumption
<1>8. c * periodic \in Nat /\ x * periodic \in Nat /\ Two64 * rm \in Nat /\ Two64 * Two64 \in Nat
    BY <1>3, <1>5, WidthAssumption
<1> DEFINE y == c * periodic
           z == x * periodic
<1>9. y <= z /\ z <= Two64 * rm
    BY <1>4, <1>5
<1> HIDE DEF y, z
<1>10. y < Two64 * Two64
    BY <1>7, <1>8, <1>9 DEF y, z
<1> QED BY <1>2, <1>10 DEF a, y

\* The two fees of a withdrawal are no more than what it withdraws.
LEMMA FeesWithin ==
    ASSUME NEW amount \in Nat, NEW s \in Nat, NEW t \in Nat, s + t <= Bps
    PROVE  amount - SpreadAmount(amount, s) - SpreadAmount(amount, t) >= 0
<1> DEFINE x == amount * s
           y == amount * t
           a == x \div Bps
           b == y \div Bps
<1>1. x \in Nat /\ y \in Nat
    OBVIOUS
<1>2. x + y <= amount * Bps
    <2>1. amount * (Bps - (s + t)) \in Nat
        BY BpsAssumption
    <2>2. amount * (Bps - (s + t)) = amount * Bps - (x + y)
        BY BpsAssumption, Z3
    <2>3. amount * Bps \in Nat
        BY BpsAssumption
    <2> HIDE DEF x, y
    <2> QED BY <1>1, <2>1, <2>2, <2>3
<1> HIDE DEF x, y
<1>3. a \in Nat /\ Bps * a <= x /\ b \in Nat /\ Bps * b <= y
    BY <1>1, Quotient, BpsAssumption
<1> HIDE DEF a, b
<1>4. Bps * (a + b) <= Bps * amount
    <2>1. Bps * (a + b) = Bps * a + Bps * b
        BY <1>3, BpsAssumption, Z3
    <2>2. Bps * a \in Nat /\ Bps * b \in Nat /\ amount * Bps = Bps * amount /\ Bps * amount \in Nat
        BY <1>3, BpsAssumption
    <2> QED BY <1>1, <1>2, <1>3, <2>1, <2>2
<1>5. a + b <= amount
    BY <1>3, <1>4, BpsAssumption
<1>6. SpreadAmount(amount, s) = a /\ SpreadAmount(amount, t) = b
    BY DEF SpreadAmount, a, b, x, y
<1> QED BY <1>3, <1>5, <1>6

-----------------------------------------------------------------------------
(* Steps *)

\* A step that opens position p at vault v, or withdraws what p can withdraw.
Opens(p, v) ==
    /\ position'[p].vault = v
    /\ position'[p].withdrawn_token_b_amount = 0
    /\ position'[p].drip_period_id_before_deposit = vault[v].last_drip_period
    /\ position'[p].number_of_swaps \in Nat
    /\ position'[p].periodic_drip_amount \in Nat

Withdraws(p) ==
    /\ position[p].status = "open"
    /\ position[p].vault \in Vaults
    /\ position'[p] = [position[p] EXCEPT !.withdrawn_token_b_amount =
                          @ + UnclaimedB(p, position[p].vault)]

\* A step that drips no vault leaves an open position alone, or opens it, or
\* withdraws all it can.
LEMMA StepKinds ==
    ASSUME AccountingInv, PeriodsFresh, [Next]_vars
    PROVE  \/ \E v \in Vaults : DripStep(v)
           \/ /\ \A w \in Vaults : KeepsRecords(w)
              /\ \A p \in Positions : position'[p].status = "open" =>
                    \/ position'[p] = position[p]
                    \/ \E v \in Vaults : Opens(p, v)
                    \/ Withdraws(p)
<1> DEFINE Kept == \A w \in Vaults : KeepsRecords(w)
           Kinds == \A p \in Positions : position'[p].status = "open" =>
                        \/ position'[p] = position[p]
                        \/ \E v \in Vaults : Opens(p, v)
                        \/ Withdraws(p)
<1>1. TypeOK /\ TypeInv
    BY DEF AccountingInv, TypeInv
<1>2. ASSUME NEW c \in Configs, NEW params \in ConfigParams, InitVaultProtoConfig(c, params)
      PROVE  Kept /\ Kinds
    <2>1. Kept
        BY <1>2, SetUpRecords
    <2> QED BY <1>2, <2>1 DEF InitVaultProtoConfig
<1>3. ASSUME NEW v \in Vaults, NEW k \in PeriodIds, InitVaultPeriod(v, k)
      PROVE  Kept /\ Kinds
    <2>1. Kept
        BY <1>3, SetUpRecords
    <2> QED BY <1>3, <2>1 DEF InitVaultPeriod
<1>4. ASSUME NEW p \in Positions, NEW v \in Vaults, DepositStep(p, v)
      PROVE  Kept /\ Kinds
    <2>1. Kept
        BY <1>4, QuietRecords
    <2>2. PICK depositor \in Users, n \in SwapCounts, amount \in DepositAmounts,
               end \in PeriodAccounts : Deposit(p, v, depositor, end, amount, n)
        BY <1>4 DEF DepositStep
    <2> DEFINE per == PeriodicDripAmount(amount, n)
    <2>3. n \in Nat \ {0} /\ per \in Nat
        <3>1. n \in Nat \ {0} /\ amount \in Nat
            BY <2>2, BoundAssumption, CheckedAmounts DEF Deposit
        <3> QED BY <3>1, PeriodicDripAmountBounds
    <2>4. position' = [position EXCEPT ![p] =
             [status |-> "open", vault |-> v, deposited_token_a_amount |-> amount,
              withdrawn_token_b_amount |-> 0,
              drip_period_id_before_deposit |-> vault[v].last_drip_period,
              number_of_swaps |-> n, periodic_drip_amount |-> per]]
        BY <2>2 DEF Deposit
    <2> HIDE DEF per
    <2>5. Opens(p, v) /\ \A q \in Positions : q # p => position'[q] = position[q]
        BY <1>1, <2>3, <2>4 DEF TypeOK, Opens
    <2> QED BY <2>1, <2>5
<1>5. ASSUME NEW p \in Positions, NEW v \in Vaults, WithdrawBStep(p, v)
      PROVE  Kept /\ Kinds
    <2>1. Kept
        BY <1>5, QuietRecords
    <2>2. PICK withdrawer \in Signers, i \in PeriodAccounts, j \in PeriodAccounts :
             WithdrawB(p, v, withdrawer, i, j)
        BY <1>5 DEF WithdrawBStep
    <2>3. /\ position[p].status = "open" /\ position[p].vault = v
          /\ BeforeFees(p, v, i, j) = UnclaimedB(p, v)
        BY <1>1, <2>2, PayoutIsUnclaimed DEF WithdrawB, ValidWithdrawal
    <2> DEFINE b == UnclaimedB(p, v)
    <2>4. position' = [position EXCEPT ![p].withdrawn_token_b_amount = @ + b]
        BY <2>2, <2>3 DEF WithdrawB
    <2> HIDE DEF b
    <2>5. /\ position'[p] = [position[p] EXCEPT !.withdrawn_token_b_amount = @ + b]
          /\ \A q \in Positions : q # p => position'[q] = position[q]
        BY <1>1, <2>4 DEF TypeOK
    <2>6. Withdraws(p)
        BY <2>3, <2>5 DEF Withdraws, b
    <2> QED BY <2>1, <2>5, <2>6
<1>6. ASSUME NEW p \in Positions, NEW v \in Vaults, ClosePositionStep(p, v)
      PROVE  Kept /\ Kinds
    <2>1. Kept
        BY <1>6, QuietRecords
    <2>2. PICK x : position' = [position EXCEPT ![p].withdrawn_token_b_amount = x,
                                                ![p].status = "closed"]
        <3>1. PICK withdrawer \in Signers, i \in PeriodAccounts, j \in PeriodAccounts,
                   expiry \in PeriodAccounts : ClosePosition(p, v, withdrawer, i, j, expiry)
            BY <1>6 DEF ClosePositionStep
        <3> QED BY <3>1 DEF ClosePosition
    <2>3. position'[p].status = "closed" /\ \A q \in Positions : q # p => position'[q] = position[q]
        <3>1. position[p] \in PositionType
            BY <1>1, PositionParts
        <3> QED BY <1>1, <2>2, <3>1 DEF TypeOK, PositionType
    <2> QED BY <2>1, <2>3
<1>7. ASSUME NEW v \in Vaults, AdminStep(v)
      PROVE  Kept /\ Kinds
    <2>1. Kept
        BY <1>1, <1>7, SetUpRecords, QuietRecords DEF AdminStep, WithdrawA, AdminWithdraw, Tokens
    <2>2. CASE \E admin \in Signers, p \in Positions : ClosePositionAccount(p, v, admin)
        <3>1. PICK admin \in Signers, p \in Positions : ClosePositionAccount(p, v, admin)
            BY <2>2
        <3>2. position[p] \in PositionType
            BY <1>1, PositionParts
        <3>3. position'[p].status = "closed" /\ \A q \in Positions : q # p => position'[q] = position[q]
            BY <1>1, <3>1, <3>2 DEF ClosePositionAccount, TypeOK, PositionType
        <3> QED BY <2>1, <3>3
    <2>3. CASE ~ \E admin \in Signers, p \in Positions : ClosePositionAccount(p, v, admin)
        <3>1. position' = position
            BY <1>7, <2>3 DEF AdminStep, InitVault, SetVaultSwapWhitelist, WithdrawA,
                              AdminWithdraw, EmptyTokenAccount
        <3> QED BY <2>1, <3>1
    <2> QED BY <2>2, <2>3
<1>8. ASSUME NEW p \in Positions, NEW to \in Users, TransferNft(p, to)
      PROVE  Kept /\ Kinds
    <2>1. Kept
        BY <1>8, QuietRecords
    <2> QED BY <1>8, <2>1 DEF TransferNft
<1>9. ASSUME Tick \/ UNCHANGED vars
      PROVE  Kept /\ Kinds
    <2>1. Kept
        BY <1>9, QuietRecords
    <2> QED BY <1>9, <2>1 DEF Tick, vars
<1> HIDE DEF Kept, Kinds
<1>10. (\E v \in Vaults : DripStep(v)) \/ (Kept /\ Kinds)
    BY <1>2, <1>3, <1>4, <1>5, <1>6, <1>7, <1>8, <1>9 DEF Next
<1> QED BY <1>10 DEF Kept, Kinds

\* The types of what the invariant is about.
LEMMA WithdrawableTypes ==
    ASSUME TypeOK, PositionTerms, NEW v \in Vaults, NEW p \in Positions,
           position[p].status = "open", position[p].vault = v
    PROVE  /\ position[p].drip_period_id_before_deposit \in PeriodIds
           /\ position[p].drip_period_id_before_deposit \in Nat
           /\ position[p].periodic_drip_amount \in Nat
           /\ position[p].withdrawn_token_b_amount \in Nat
           /\ LastDripOf(p, v) \in PeriodIds
           /\ LastDripOf(p, v) \in Nat
           /\ position[p].drip_period_id_before_deposit <= LastDripOf(p, v)
           /\ LastDripOf(p, v) <= Expiry(p)
           /\ Weighted(v, position[p].drip_period_id_before_deposit) \in Nat
           /\ Weighted(v, LastDripOf(p, v)) \in Nat
<1> DEFINE from == position[p].drip_period_id_before_deposit
           l == vault[v].last_drip_period
<1>1. /\ from \in PeriodIds /\ from \in Nat /\ position[p].periodic_drip_amount \in Nat
      /\ position[p].withdrawn_token_b_amount \in Nat /\ Expiry(p) \in Nat
      /\ position[p].number_of_swaps \in Nat
    BY PositionParts
<1>2. l \in PeriodIds /\ l \in Nat
    BY VaultParts, BoundAssumption DEF PeriodIds
<1>3. from <= l /\ Expiry(p) \in PeriodIds /\ from <= Expiry(p)
    BY <1>1 DEF PositionTerms, Expiry
<1>4. LastDripOf(p, v) = IF l < Expiry(p) THEN l ELSE Expiry(p)
    BY DEF LastDripOf
<1> HIDE DEF from, l
<1>5. /\ LastDripOf(p, v) \in PeriodIds /\ LastDripOf(p, v) \in Nat
      /\ from <= LastDripOf(p, v) /\ LastDripOf(p, v) <= Expiry(p)
    BY <1>1, <1>2, <1>3, <1>4
<1>6. Weighted(v, from) \in Nat /\ Weighted(v, LastDripOf(p, v)) \in Nat
    BY <1>1, <1>5, ClaimType
<1> QED BY <1>1, <1>5, <1>6 DEF from

\* Without a drip trigger spread, what a position can withdraw is its promise.
LEMMA MaxIsPromise ==
    ASSUME TypeOK, PositionTerms, NEW v \in Vaults, NEW p \in Positions,
           position[p].status = "open", position[p].vault = v,
           Config(v).token_a_drip_trigger_spread = 0
    PROVE  /\ MaxWithdrawableB(p, v,
                 vault_period[v][position[p].drip_period_id_before_deposit].twap,
                 vault_period[v][LastDripOf(p, v)].twap)
              = Promise(PricesOf(p, v), DripsOf(p, v), position[p].periodic_drip_amount)
           /\ DrippedNetOfSpread(position[p].drip_period_id_before_deposit, LastDripOf(p, v),
                 position[p].periodic_drip_amount, Config(v).token_a_drip_trigger_spread)
              = position[p].periodic_drip_amount * DripsOf(p, v)
<1> DEFINE i == position[p].drip_period_id_before_deposit
           j == LastDripOf(p, v)
           twap_i == vault_period[v][i].twap
           twap_j == vault_period[v][j].twap
           per == position[p].periodic_drip_amount
           net == per * (j - i)
<1>1. i \in Nat /\ j \in Nat /\ i <= j /\ per \in Nat
    BY WithdrawableTypes
<1>2. PricesOf(p, v) = twap_j * j - twap_i * i /\ DripsOf(p, v) = j - i
    BY DEF PricesOf, DripsOf, Weighted
<1>3. net \in Nat
    <2> HIDE DEF i, j, per
    <2>1. j - i \in Nat
        BY <1>1
    <2> QED BY <1>1, <2>1
<1>4. DrippedNetOfSpread(i, j, per, 0) = net
    <2>1. SpreadAmount(net, 0) = 0
        <3>1. net * 0 = 0
            BY <1>3
        <3> HIDE DEF net
        <3>2. 0 \div Bps = 0
            BY BpsAssumption
        <3> QED BY <3>1, <3>2 DEF SpreadAmount
    <2>2. DrippedNetOfSpread(i, j, per, 0) = net - SpreadAmount(net, 0)
        BY DEF DrippedNetOfSpread
    <2> HIDE DEF net
    <2> QED BY <1>3, <2>1, <2>2
<1>5. WithdrawTokenB(i, j, twap_i, twap_j, per, 0)
         = Promise(PricesOf(p, v), DripsOf(p, v), per)
    <2>1. AveragePrice(i, j, twap_i, twap_j) = PricesOf(p, v) \div DripsOf(p, v)
        BY <1>2 DEF AveragePrice
    <2>2. net = per * DripsOf(p, v)
        BY <1>2
    <2>3. i = j <=> DripsOf(p, v) = 0
        <3> HIDE DEF i, j
        <3> QED BY <1>1, <1>2
    <2> HIDE DEF i, j, twap_i, twap_j, per, net
    <2> QED BY <1>4, <2>1, <2>2, <2>3 DEF WithdrawTokenB, Promise
<1>6. MaxWithdrawableB(p, v, twap_i, twap_j) = WithdrawTokenB(i, j, twap_i, twap_j, per, 0)
    BY DEF MaxWithdrawableB
<1>7. net = per * DripsOf(p, v)
    BY <1>2
<1> QED BY <1>4, <1>5, <1>6, <1>7

\* What the invariant says of a position outlives a step that drips nothing and leaves
\* its terms.
LEMMA SameDrips ==
    ASSUME TypeOK, PositionTerms, NEW v \in Vaults, NEW p \in Positions, KeepsRecords(v),
           position[p].status = "open", position[p].vault = v,
           position'[p].drip_period_id_before_deposit = position[p].drip_period_id_before_deposit,
           position'[p].number_of_swaps = position[p].number_of_swaps
    PROVE  DripsOf(p, v)' = DripsOf(p, v) /\ PricesOf(p, v)' = PricesOf(p, v)
<1>1. LastDripOf(p, v) \in PeriodIds /\ position[p].drip_period_id_before_deposit \in PeriodIds
    BY WithdrawableTypes
<1>2. LastDripOf(p, v)' = LastDripOf(p, v)
    BY DEF LastDripOf, Expiry, KeepsRecords
<1>3. Weighted(v, LastDripOf(p, v))' = Weighted(v, LastDripOf(p, v))
    BY <1>1, <1>2 DEF Weighted, KeepsRecords
<1>4. Weighted(v, position[p].drip_period_id_before_deposit)'
         = Weighted(v, position[p].drip_period_id_before_deposit)
    BY <1>1 DEF Weighted, KeepsRecords
<1> QED BY <1>2, <1>3, <1>4 DEF DripsOf, PricesOf

\* A step that drips no vault keeps the invariant: whoever withdraws has then
\* withdrawn what was promised, and whoever deposits is promised nothing yet.
LEMMA QuietWithdrawable ==
    ASSUME NEW received \in Nat, WithdrawalInv(received), \A w \in Vaults : KeepsRecords(w),
           \A p \in Positions : position'[p].status = "open" =>
               \/ position'[p] = position[p]
               \/ \E v \in Vaults : Opens(p, v)
               \/ Withdraws(p),
           \A q \in ConfigParams : q.token_a_drip_trigger_spread = 0
    PROVE  WeightsFit' /\ AllWithdrawable(received)'
<1>1. TypeOK /\ TypeInv /\ PositionTerms /\ ConfigsGiven
    BY DEF WithdrawalInv, HistoryInv, AccountingInv, TypeInv
<1>2. WeightsFit'
    <2>1. \A w \in Vaults, k \in PeriodIds : Weighted(w, k)' = Weighted(w, k)
        BY DEF Weighted, KeepsRecords
    <2> QED BY <2>1 DEF WithdrawalInv, WeightsFit
<1>3. AllWithdrawable(received)'
    <2> SUFFICES ASSUME NEW p \in Positions, NEW v \in Vaults,
                        position'[p].status = "open", position'[p].vault = v
                 PROVE  Withdrawable(p, v, received)'
        BY DEF AllWithdrawable
    <2>1. CASE position'[p] = position[p]
        <3>1. position[p].status = "open" /\ position[p].vault = v
            BY <2>1
        <3>2. Withdrawable(p, v, received)
            BY <3>1 DEF WithdrawalInv, AllWithdrawable
        <3>3. DripsOf(p, v)' = DripsOf(p, v) /\ PricesOf(p, v)' = PricesOf(p, v)
            BY <1>1, <2>1, <3>1, SameDrips
        <3> QED BY <2>1, <3>2, <3>3 DEF Withdrawable
    <2>2. CASE \E w \in Vaults : Opens(p, w)
        <3>1. Opens(p, v)
            BY <2>2 DEF Opens
        <3> DEFINE last == vault[v].last_drip_period
                   per == position'[p].periodic_drip_amount
                   x == Weighted(v, last)'
        <3>2. last \in Nat /\ last \in PeriodIds
            BY <1>1, VaultParts, BoundAssumption DEF PeriodIds
        <3>3. vault'[v].last_drip_period = last
            BY DEF KeepsRecords
        <3>4. Expiry(p)' = last + position'[p].number_of_swaps
            BY <3>1 DEF Opens, Expiry
        <3>5. LastDripOf(p, v)' = last
            BY <3>1, <3>2, <3>3, <3>4 DEF LastDripOf, Opens
        <3>6. x \in Nat
            <4>1. x = Weighted(v, last)
                BY <3>2, <3>3 DEF Weighted, KeepsRecords
            <4> QED BY <1>1, <3>2, <4>1, ClaimType
        <3>7. PricesOf(p, v)' = x - x /\ DripsOf(p, v)' = last - last
            BY <3>1, <3>3, <3>5 DEF PricesOf, DripsOf, Weighted, Opens
        <3>8. per \in Nat /\ position'[p].withdrawn_token_b_amount = 0
            BY <3>1 DEF Opens
        <3> HIDE DEF x, last, per
        <3>9. PricesOf(p, v)' = 0 /\ DripsOf(p, v)' = 0
            BY <3>2, <3>6, <3>7
        <3>10. Promise(0, 0, per) = 0
            BY DEF Promise
        <3>11. 0 * per <= (Two64 * received) * 0
            <4>1. Two64 * received \in Nat
                BY WidthAssumption
            <4> QED BY <3>8, <4>1
        <3>12. 0 \in Nat /\ 0 <= 0
            OBVIOUS
        <3> QED BY <3>8, <3>9, <3>10, <3>11, <3>12 DEF Withdrawable, per
    <2>3. CASE Withdraws(p)
        <3>1. position[p] \in PositionType
            BY <1>1, PositionParts
        <3> DEFINE b == UnclaimedB(p, position[p].vault)
                   per == position[p].periodic_drip_amount
                   wd == position[p].withdrawn_token_b_amount
                   promise == Promise(PricesOf(p, v), DripsOf(p, v), per)
        <3>2. /\ position'[p].vault = position[p].vault
              /\ position'[p].withdrawn_token_b_amount = wd + b
              /\ position'[p].drip_period_id_before_deposit
                    = position[p].drip_period_id_before_deposit
              /\ position'[p].number_of_swaps = position[p].number_of_swaps
              /\ position'[p].periodic_drip_amount = per
            <4> HIDE DEF b
            <4> QED BY <2>3, <3>1 DEF Withdraws, PositionType, b
        <3>3. position[p].status = "open" /\ position[p].vault = v
            BY <2>3, <3>2 DEF Withdraws
        <3>4. Withdrawable(p, v, received)
            BY <3>3 DEF WithdrawalInv, AllWithdrawable
        <3>5. DripsOf(p, v)' = DripsOf(p, v) /\ PricesOf(p, v)' = PricesOf(p, v)
            BY <1>1, <3>2, <3>3, SameDrips
        <3>6. b = promise - wd
            <4>1. vault[v].exists
                BY <1>1, <3>3 DEF PositionTerms
            <4>2. Config(v).token_a_drip_trigger_spread = 0
                BY <1>1, <4>1, SpreadIsZero
            <4>3. MaxWithdrawableB(p, v,
                     vault_period[v][position[p].drip_period_id_before_deposit].twap,
                     vault_period[v][LastDripOf(p, v)].twap) = promise
                BY <1>1, <3>3, <4>2, MaxIsPromise
            <4> QED BY <3>3, <4>3 DEF UnclaimedB
        <3>7. wd \in Nat /\ promise \in Nat
            <4>1. wd \in Nat /\ per \in Nat
                BY <1>1, PositionParts
            <4>2. PricesOf(p, v) \in Nat /\ DripsOf(p, v) \in Nat
                BY <3>4 DEF Withdrawable
            <4> QED BY <4>1, <4>2, PromiseType
        <3>8. wd + (promise - wd) = promise
            <4> HIDE DEF wd, promise
            <4> QED BY <3>7
        <3>9. position'[p].withdrawn_token_b_amount = promise
            BY <3>2, <3>6, <3>8
        <3>10. promise <= promise
            <4> HIDE DEF promise
            <4> QED BY <3>7
        <3> QED BY <3>2, <3>4, <3>5, <3>9, <3>10 DEF Withdrawable
    <2> QED BY <2>1, <2>2, <2>3
<1> QED BY <1>2, <1>3

\* A drip that spends at least a position's share keeps its promise from falling, and
\* adds no more to its prices than it received for the share.
LEMMA DripWithdrawable ==
    ASSUME NEW r \in Nat, WithdrawalInv(r), NEW v \in Vaults, NEW p \in Positions,
           position[p].status = "open", position[p].vault = v,
           NEW price \in Nat, NEW d \in Nat,
           Drips(v, vault[v].last_drip_period + 1),
           vault[v].last_drip_period + 1 \in PeriodIds,
           vault_period'[v][vault[v].last_drip_period + 1].twap
              = NewTwap(vault_period[v][vault[v].last_drip_period].twap,
                        vault[v].last_drip_period + 1, price),
           2 * vault[v].last_drip_period <= price,
           DripShare(p, v) <= d, d * price <= Two64 * r,
           position' = position
    PROVE  Withdrawable(p, v, r)'
<1> DEFINE l == vault[v].last_drip_period
           k == l + 1
           from == position[p].drip_period_id_before_deposit
           per == position[p].periodic_drip_amount
           x == PricesOf(p, v)
           m == DripsOf(p, v)
<1>1. TypeOK /\ PositionTerms
    BY DEF WithdrawalInv, HistoryInv, AccountingInv, TypeInv
<1>2. /\ l \in Nat /\ l \in PeriodIds /\ k \in PeriodIds
      /\ from \in Nat /\ from \in PeriodIds /\ from <= l /\ per \in Nat /\ Expiry(p) \in Nat
    BY <1>1, VaultParts, PositionParts, BoundAssumption DEF PeriodIds, PositionTerms
<1>3. Withdrawable(p, v, r)
    BY DEF WithdrawalInv, AllWithdrawable
<1>4. /\ vault'[v].last_drip_period = k
      /\ \A q \in PeriodIds : q # k => vault_period'[v][q] = vault_period[v][q]
    BY DEF Drips
<1>5. Expiry(p)' = Expiry(p)
    BY DEF Expiry
<1>6. \A q \in PeriodIds : q # k => Weighted(v, q)' = Weighted(v, q)
    BY <1>4 DEF Weighted
<1>7. Weighted(v, from)' = Weighted(v, from)
    <2>1. from # k
        BY <1>2
    <2> QED BY <1>2, <1>6, <2>1 DEF Weighted
<1>8. CASE Expiry(p) <= l
    <2>1. LastDripOf(p, v) = Expiry(p)
        BY <1>2, <1>8 DEF LastDripOf
    <2>2. LastDripOf(p, v)' = Expiry(p)
        BY <1>2, <1>4, <1>5, <1>8 DEF LastDripOf
    <2>3. Expiry(p) \in PeriodIds /\ Expiry(p) # k
        BY <1>1, <1>2, <1>8 DEF PositionTerms
    <2>4. Weighted(v, LastDripOf(p, v))' = Weighted(v, LastDripOf(p, v))
        <3>1. Weighted(v, Expiry(p))' = Weighted(v, Expiry(p))
            BY <1>5, <1>6, <2>3 DEF Weighted
        <3> QED BY <1>5, <2>1, <2>2, <3>1 DEF Weighted
    <2>5. PricesOf(p, v)' = x /\ DripsOf(p, v)' = m
        BY <1>7, <2>1, <2>2, <2>4 DEF PricesOf, DripsOf
    <2> QED BY <1>3, <2>5 DEF Withdrawable
<1>9. CASE l < Expiry(p)
    <2> DEFINE before == Weighted(v, l)
               after == Weighted(v, LastDripOf(p, v))'
               start == Weighted(v, from)
               twap == vault_period[v][l].twap
               y == PricesOf(p, v)'
    <2>1. LastDripOf(p, v) = l
        BY <1>9 DEF LastDripOf
    <2>2. LastDripOf(p, v)' = k
        BY <1>2, <1>4, <1>5, <1>9 DEF LastDripOf
    <2>3. twap \in Nat /\ before \in Nat /\ start \in Nat
        BY <1>1, <1>2, ClaimType
    <2>4. /\ after \in Nat
          /\ after <= before + price
          /\ before + price <= after + l
        <3> DEFINE nt == NewTwap(twap, k, price)
        <3>1. nt \in Nat /\ nt * k <= twap * (k - 1) + price
              /\ twap * (k - 1) + price <= nt * k + (k - 1)
            <4>1. k \in Nat \ {0}
                BY <1>2
            <4> HIDE DEF twap, k
            <4> QED BY <2>3, <4>1, NewTwapWeight, WeightGrows
        <3>2. after = nt * k
            BY <2>2 DEF Weighted
        <3>3. k - 1 = l
            BY <1>2
        <3>4. before = twap * l
            BY DEF Weighted
        <3>5. nt * k \in Nat
            BY <1>2, <3>1
        <3> HIDE DEF after, before, twap, nt, k
        <3> QED BY <3>1, <3>2, <3>3, <3>4, <3>5
    <2>5. x = before - start /\ m = l - from
        BY <2>1 DEF PricesOf, DripsOf
    <2>6. y = after - start /\ DripsOf(p, v)' = k - from
        BY <1>7, <2>2 DEF PricesOf, DripsOf
    <2>7. /\ x \in Nat /\ m \in Nat /\ x * per <= (Two64 * r) * m
          /\ position[p].withdrawn_token_b_amount <= Promise(x, m, per)
        BY <1>3 DEF Withdrawable
    <2>8. per <= d
        BY <1>9 DEF DripShare, Active
    <2>9. /\ y \in Nat /\ x + m <= y /\ y <= x + price
          /\ DripsOf(p, v)' = m + 1
        <3>1. 2 * l <= price /\ k = l + 1
            OBVIOUS
        <3> HIDE DEF x, y, m, before, after, start, l, k, from
        <3> QED BY <1>2, <2>3, <2>4, <2>5, <2>6, <2>7, <3>1
    <2>10. Promise(x, m, per) <= Promise(y, m + 1, per)
        <3> HIDE DEF x, y, m, per
        <3> QED BY <1>2, <2>7, <2>9, PromiseGrows
    <2>11. y * per <= (Two64 * r) * (m + 1)
        <3> DEFINE u == Two64 * r
        <3>1. u \in Nat /\ d * price <= u
            BY WidthAssumption
        <3> HIDE DEF x, y, m, per, u
        <3>2. price * per <= d * price
            BY <1>2, <2>8, Z3
        <3>3. y * per <= x * per + price * per
            <4>1. y * per <= (x + price) * per
                BY <1>2, <2>7, <2>9, Z3
            <4>2. (x + price) * per = x * per + price * per
                BY <1>2, <2>7, Z3
            <4> QED BY <4>1, <4>2
        <3>4. u * (m + 1) = u * m + u
            BY <2>7, <3>1, Z3
        <3>5. /\ y * per \in Nat /\ x * per \in Nat /\ price * per \in Nat
              /\ u * m \in Nat /\ d * price \in Nat
            BY <1>2, <2>7, <2>9, <3>1
        <3>6. x * per <= u * m
            BY <2>7 DEF u
        <3> DEFINE a1 == y * per
                   a2 == x * per
                   a3 == price * per
                   a4 == u * m
                   a5 == d * price
        <3> HIDE DEF a1, a2, a3, a4, a5
        <3>7. a1 <= a4 + u
            BY <3>1, <3>2, <3>3, <3>5, <3>6 DEF a1, a2, a3, a4, a5
        <3> QED BY <3>4, <3>7 DEF a1, a4, u
    <2>12. position'[p].withdrawn_token_b_amount <= Promise(y, m + 1, per)
        <3>1. position[p].withdrawn_token_b_amount \in Nat
            BY <1>1, PositionParts
        <3>2. Promise(x, m, per) \in Nat /\ Promise(y, m + 1, per) \in Nat
            <4> HIDE DEF x, y, m, per
            <4> QED BY <1>2, <2>7, <2>9, PromiseType
        <3> HIDE DEF x, y, m, per
        <3> QED BY <2>7, <2>10, <3>1, <3>2
    <2>13. m + 1 \in Nat
        BY <2>7
    <2>14. position'[p].periodic_drip_amount = per
        OBVIOUS
    <2> HIDE DEF m, per
    <2> QED BY <2>9, <2>11, <2>12, <2>13, <2>14 DEF Withdrawable
<1> QED BY <1>2, <1>8, <1>9

\* A drip whose price is kept up keeps the invariant.
LEMMA DripsWithdrawable ==
    ASSUME NEW r \in Nat, WithdrawalInv(r), NEW v \in Vaults, DripStep(v),
           \A q \in ConfigParams : q.token_a_drip_trigger_spread = 0,
           \A b \in ReceivedAmounts : b <= r,
           \A w \in Vaults : vault'[w].last_drip_period # vault[w].last_drip_period =>
               ComputePrice(balance'[w]["B"] - balance[w]["B"], SwapAmount(w))
                   >= 2 * vault[w].last_drip_period
    PROVE  WeightsFit' /\ AllWithdrawable(r)'
<1> DEFINE l == vault[v].last_drip_period
           d == vault[v].drip_amount
<1>1. AccountingInv /\ PeriodsFresh /\ ConfigsGiven /\ TypeOK /\ TypeInv /\ PositionTerms
    BY DEF WithdrawalInv, HistoryInv, AccountingInv, TypeInv
<1>2. PICK b \in ReceivedAmounts :
         /\ d \in Nat \ {0} /\ SwapAmount(v) = d
         /\ NewTwapDefined(vault_period[v][l].twap, l + 1, ComputePrice(b, d))
         /\ vault_period'[v][l + 1].twap
              = NewTwap(vault_period[v][l].twap, l + 1, ComputePrice(b, d))
         /\ balance'[v]["B"] = balance[v]["B"] + b
         /\ position' = position
    BY <1>1, DripBought
<1> DEFINE price == ComputePrice(b, d)
<1>3. b \in Nat /\ b <= r
    BY BoundAssumption, CheckedAmounts
<1>4. price \in Nat /\ d * price <= Two64 * b
    BY <1>2, <1>3, PriceTimesAmount
<1>5. /\ \A w \in Vaults : w # v => KeepsRecords(w)
      /\ Drips(v, l + 1) /\ l + 1 \in PeriodIds
    BY <1>1, DripRecords
<1>6. l \in Nat /\ l \in PeriodIds
    BY <1>1, VaultParts, BoundAssumption DEF PeriodIds
<1>7. 2 * l <= price
    <2>1. vault'[v].last_drip_period # l
        BY <1>5, <1>6 DEF Drips
    <2>2. balance[v]["B"] \in Nat
        BY <1>1, VaultParts, CheckedAmounts
    <2>3. balance'[v]["B"] - balance[v]["B"] = b
        BY <1>2, <1>3, <2>2
    <2>4. ComputePrice(balance'[v]["B"] - balance[v]["B"], SwapAmount(v)) = price
        BY <1>2, <2>3
    <2> HIDE DEF price
    <2>5. price >= 2 * l
        BY <2>1, <2>4
    <2> QED BY <1>4, <1>6, <2>5
<1>8. d * price <= Two64 * r
    <2> HIDE DEF price
    <2>1. Two64 * b <= Two64 * r /\ Two64 * b \in Nat /\ Two64 * r \in Nat
        BY <1>3, WidthAssumption
    <2>2. d * price \in Nat
        BY <1>2, <1>4
    <2> QED BY <1>4, <2>1, <2>2
<1>9. WeightsFit'
    <2> SUFFICES ASSUME NEW w \in Vaults, NEW q \in PeriodIds
                 PROVE  Weighted(w, q)' < Two64 * Two64
        BY DEF WeightsFit
    <2>1. CASE Weighted(w, q)' = Weighted(w, q)
        BY <2>1 DEF WithdrawalInv, WeightsFit
    <2>2. CASE w = v /\ q = l + 1
        <3> DEFINE twap == vault_period[v][l].twap
                   sum == twap * l + price
                   nt == NewTwap(twap, l + 1, price)
        <3>1. twap \in Nat
            BY <1>1, <1>6, ClaimType
        <3>2. (l + 1) - 1 = l /\ l + 1 \in Nat \ {0}
            BY <1>6
        <3>3. sum < Two64 * Two64
            BY <1>2, <3>2 DEF NewTwapDefined
        <3>4. nt \in Nat /\ nt * (l + 1) <= sum
            <4> HIDE DEF twap, price, l
            <4> QED BY <1>4, <3>1, <3>2, NewTwapWeight
        <3>5. sum \in Nat /\ nt * (l + 1) \in Nat /\ Two64 * Two64 \in Nat
            <4> HIDE DEF twap, price, l, nt
            <4> QED BY <1>4, <1>6, <3>1, <3>4, WidthAssumption
        <3>6. Weighted(w, q)' = nt * (l + 1)
            BY <1>2, <2>2 DEF Weighted
        <3> HIDE DEF sum, nt, l
        <3> QED BY <3>3, <3>4, <3>5, <3>6
    <2>3. w # v => Weighted(w, q)' = Weighted(w, q)
        BY <1>5 DEF KeepsRecords, Weighted
    <2>4. w = v /\ q # l + 1 => Weighted(w, q)' = Weighted(w, q)
        BY <1>5 DEF Drips, Weighted
    <2> QED BY <2>1, <2>2, <2>3, <2>4
<1>10. AllWithdrawable(r)'
    <2> SUFFICES ASSUME NEW p \in Positions, NEW w \in Vaults,
                        position'[p].status = "open", position'[p].vault = w
                 PROVE  Withdrawable(p, w, r)'
        BY DEF AllWithdrawable
    <2>1. position[p].status = "open" /\ position[p].vault = w /\ position'[p] = position[p]
        BY <1>2
    <2>2. CASE w = v
        <3>1. DripShare(p, v) <= d
            <4>1. DripShares(v) \in [1 .. NumPositions -> Nat]
                BY <1>1, ShareTypes
            <4>2. p \in 1 .. NumPositions /\ NumPositions \in Nat
                BY AddressAssumption DEF Positions
            <4>3. DripShares(v)[p] = DripShare(p, v)
                BY DEF DripShares
            <4>4. d = SumTo(DripShares(v), NumPositions)
                BY <1>1 DEF AccountingInv, DripAmountIsSumOfShares
            <4> QED BY <4>1, <4>2, <4>3, <4>4, SumBounds
        <3>2. d \in Nat
            BY <1>2
        <3> HIDE DEF price, d
        <3> QED BY <1>2, <1>4, <1>5, <1>7, <1>8, <2>1, <2>2, <3>1, <3>2, DripWithdrawable DEF price
    <2>3. CASE w # v
        <3>1. DripsOf(p, w)' = DripsOf(p, w) /\ PricesOf(p, w)' = PricesOf(p, w)
            BY <1>1, <1>5, <2>1, <2>3, SameDrips
        <3>2. Withdrawable(p, w, r)
            BY <2>1 DEF WithdrawalInv, AllWithdrawable
        <3> QED BY <2>1, <3>1, <3>2 DEF Withdrawable
    <2> QED BY <2>2, <2>3
<1> QED BY <1>9, <1>10

\* Nothing is promised at the start.
LEMMA InitWithdrawals == ASSUME NEW r \in Nat PROVE Init => WithdrawalInv(r)
<1> SUFFICES ASSUME Init
             PROVE  WithdrawalInv(r)
    OBVIOUS
<1>1. HistoryInv /\ ConfigsGiven
    BY InitHistory, InitConfigs
<1>2. \A p \in Positions : position[p].status # "open"
    <2>1. PICK owner \in [LegacyPositions -> UpgradedVaults] :
             position = [p \in Positions |->
                 IF p \in LegacyPositions
                 THEN [NoPosition EXCEPT !.status = "legacy", !.vault = owner[p]]
                 ELSE NoPosition]
        BY DEF Init
    <2>2. ASSUME NEW x
          PROVE  [NoPosition EXCEPT !.status = "legacy", !.vault = x].status = "legacy"
        BY DEF NoPosition
    <2>3. NoPosition.status = "none"
        BY DEF NoPosition
    <2> QED BY <2>1, <2>2, <2>3
<1>3. WeightsFit
    <2>1. vault_period = [v \in Vaults |-> [k \in PeriodIds |-> NoPeriod]]
        BY DEF Init
    <2>2. \A k \in PeriodIds : k \in Int
        BY DEF PeriodIds
    <2>3. \A v \in Vaults, k \in PeriodIds : Weighted(v, k) = 0
        BY <2>1, <2>2 DEF Weighted, NoPeriod
    <2>4. 0 < Two64 * Two64
        BY WidthAssumption
    <2> QED BY <2>3, <2>4 DEF WeightsFit
<1> QED BY <1>1, <1>2, <1>3 DEF WithdrawalInv, AllWithdrawable

\* What the invariant promises is what the checked operations of a withdrawal need.
LEMMA WithdrawableSuffices ==
    ASSUME NEW r \in Nat, r * MaxPeriod < Two64, WithdrawalInv(r),
           \A q \in ConfigParams : q.token_a_drip_trigger_spread = 0
    PROVE  WithdrawalsNeverPanic
<1> SUFFICES ASSUME NEW p \in Positions, NEW v \in Vaults,
                    position[p].status = "open", position[p].vault = v
             PROVE  WithdrawalBDefined(p, v,
                        vault_period[v][position[p].drip_period_id_before_deposit].twap,
                        vault_period[v][LastDripOf(p, v)].twap)
    BY DEF WithdrawalsNeverPanic
<1> DEFINE i == position[p].drip_period_id_before_deposit
           j == LastDripOf(p, v)
           twap_i == vault_period[v][i].twap
           twap_j == vault_period[v][j].twap
           per == position[p].periodic_drip_amount
           spread == Config(v).token_a_drip_trigger_spread
           wd == position[p].withdrawn_token_b_amount
           x == PricesOf(p, v)
           m == DripsOf(p, v)
           max == MaxWithdrawableB(p, v, twap_i, twap_j)
<1>1. TypeOK /\ TypeInv /\ PositionTerms /\ ConfigsGiven
    BY DEF WithdrawalInv, HistoryInv, AccountingInv, TypeInv
<1>2. vault[v].exists
    BY <1>1 DEF PositionTerms
<1>3. spread = 0
    BY <1>1, <1>2, SpreadIsZero
<1>4. /\ i \in Nat /\ j \in Nat /\ i <= j /\ j <= Expiry(p) /\ j \in PeriodIds
      /\ per \in Nat /\ wd \in Nat /\ Weighted(v, i) \in Nat /\ Weighted(v, j) \in Nat
    BY <1>1, WithdrawableTypes
<1>5. /\ m \in Nat /\ x \in Nat /\ x * per <= (Two64 * r) * m
      /\ wd <= Promise(x, m, per)
    BY DEF WithdrawalInv, AllWithdrawable, Withdrawable
<1>6. /\ max = Promise(x, m, per)
      /\ DrippedNetOfSpread(i, j, per, spread) = per * m
    BY <1>1, <1>3, MaxIsPromise
<1>7. x = Weighted(v, j) - Weighted(v, i) /\ m = j - i
    BY DEF PricesOf, DripsOf
<1>8. WithdrawTokenBDefined(i, j, twap_i, twap_j, per, spread)
    <2>1. CASE i = j
        BY <2>1 DEF WithdrawTokenBDefined
    <2>2. CASE i < j
        <3>1. twap_i * i <= twap_j * j
            <4>1. Weighted(v, i) <= Weighted(v, j)
                <5> HIDE DEF x, i, j
                <5> QED BY <1>4, <1>5, <1>7
            <4> QED BY <4>1 DEF Weighted
        <3>2. twap_j * j < Two64 * Two64
            BY <1>4 DEF WithdrawalInv, WeightsFit, Weighted
        <3>3. per * (j - i) < Two64
            <4> DEFINE n == position[p].number_of_swaps
            <4>1. n * per <= position[p].deposited_token_a_amount
                BY <1>1 DEF PositionTerms
            <4>2. position[p].deposited_token_a_amount \in Amount /\ n \in Nat
                BY <1>1, PositionParts DEF PositionType
            <4>3. j - i <= n /\ j - i \in Nat
                <5>1. Expiry(p) = i + n
                    BY DEF Expiry
                <5> HIDE DEF i, j, n
                <5> QED BY <1>4, <4>2, <5>1
            <4> DEFINE k == j - i
            <4> HIDE DEF n, k, per, i, j
            <4>4. per * k <= n * per /\ per * k \in Nat /\ n * per \in Nat
                <5>1. k \in Nat /\ k <= n
                    BY <4>3 DEF k
                <5>2. per * k <= per * n
                    BY <1>4, <4>2, <5>1, Z3
                <5> QED BY <1>4, <4>2, <5>1, <5>2
            <4>5. n * per < Two64
                BY <4>1, <4>2, <4>4, WidthAssumption DEF Amount
            <4> QED BY <4>4, <4>5, WidthAssumption DEF k
        <3>4. AveragePrice(i, j, twap_i, twap_j) * DrippedNetOfSpread(i, j, per, spread)
                 < Two64 * Two64
            <4>1. AveragePrice(i, j, twap_i, twap_j) = x \div m
                BY <1>7 DEF AveragePrice, Weighted
            <4>2. m \in Nat \ {0}
                <5> HIDE DEF m, i, j
                <5> QED BY <1>4, <1>5, <1>7, <2>2
            <4>3. r * m < Two64
                <5>1. m <= MaxPeriod
                    <6>1. j <= MaxPeriod
                        BY <1>4 DEF PeriodIds
                    <6> HIDE DEF m, i, j
                    <6> QED BY <1>4, <1>7, <6>1, BoundAssumption
                <5> HIDE DEF m
                <5>2. r * m <= r * MaxPeriod
                    BY <4>2, <5>1, BoundAssumption, Z3
                <5>3. r * m \in Nat /\ r * MaxPeriod \in Nat
                    BY <4>2, BoundAssumption
                <5> QED BY <5>2, <5>3, WidthAssumption
            <4>4. (x \div m) * (per * m) < Two64 * Two64
                <5> HIDE DEF x, m, per
                <5> QED BY <1>4, <1>5, <4>2, <4>3, PromiseFits
            <4> QED BY <1>6, <4>1, <4>4
        <3> QED BY <2>2, <3>1, <3>2, <3>3, <3>4 DEF WithdrawTokenBDefined
    <2> QED BY <1>4, <2>1, <2>2
<1>9. wd <= max
    BY <1>5, <1>6
<1>10. NetOfFees(v, max - wd) >= 0
    <2>1. max \in Nat
        <3> HIDE DEF x, m, per
        <3> QED BY <1>4, <1>5, <1>6, PromiseType
    <2>2. max - wd \in Nat
        <3> HIDE DEF max, wd
        <3> QED BY <1>4, <1>9, <2>1
    <2> DEFINE s == Config(v).token_b_withdrawal_spread
               t == Config(v).token_b_referral_spread
    <2>3. s \in Nat /\ t \in Nat /\ s + t <= Bps
        <3>1. ConfigOf[v] \in Configs
            BY AddressAssumption
        <3>2. Config(v) \in ConfigType
            BY <1>1, <3>1 DEF TypeOK, Config
        <3>3. ValidConfigParams(Config(v))
            BY <1>1, <1>2, <3>1 DEF TypeInv, ConfigsValid, Config
        <3> QED BY <3>2, <3>3, SpreadAssumption, BpsAssumption DEF ConfigType, ValidConfigParams
    <2> HIDE DEF max, wd
    <2> QED BY <2>2, <2>3, FeesWithin DEF NetOfFees, TreasuryShare, ReferrerShare
<1> QED BY <1>8, <1>9, <1>10 DEF WithdrawalBDefined

\* No withdrawal and no close ever panics, so no position's B is locked: what it can
\* withdraw never falls below what it has withdrawn, however the averages round, as long
\* as prices are kept up, the drip trigger spread is zero, and what the swaps return
\* adds up to no more than a u64 can hold.
THEOREM NoWithdrawalPanics ==
    ASSUME NEW r \in Nat, \A b \in ReceivedAmounts : b <= r, r * MaxPeriod < Two64,
           \A q \in ConfigParams : q.token_a_drip_trigger_spread = 0
    PROVE  Spec /\ PricesKeptUp => []WithdrawalsNeverPanic
<1> DEFINE KeptUp ==
        \A v \in Vaults : vault'[v].last_drip_period # vault[v].last_drip_period =>
            ComputePrice(balance'[v]["B"] - balance[v]["B"], SwapAmount(v))
                >= 2 * vault[v].last_drip_period
<1>1. Init => WithdrawalInv(r)
    BY InitWithdrawals
<1>2. WithdrawalInv(r) /\ [Next]_vars /\ [KeptUp]_vars => WithdrawalInv(r)'
    <2> SUFFICES ASSUME WithdrawalInv(r), [Next]_vars, [KeptUp]_vars
                 PROVE  WithdrawalInv(r)'
        OBVIOUS
    <2>1. HistoryInv'
        BY StepHistory DEF WithdrawalInv
    <2>2. ConfigsGiven'
        BY StepConfigs DEF WithdrawalInv, HistoryInv, AccountingInv
    <2>3. KeptUp
        BY DEF vars
    <2>4. WeightsFit' /\ AllWithdrawable(r)'
        <3>1. AccountingInv /\ PeriodsFresh
            BY DEF WithdrawalInv, HistoryInv
        <3>2. CASE \E v \in Vaults : DripStep(v)
            BY <2>3, <3>2, DripsWithdrawable
        <3>3. CASE ~ \E v \in Vaults : DripStep(v)
            <4>1. /\ \A w \in Vaults : KeepsRecords(w)
                  /\ \A p \in Positions : position'[p].status = "open" =>
                        \/ position'[p] = position[p]
                        \/ \E v \in Vaults : Opens(p, v)
                        \/ Withdraws(p)
                BY <3>1, <3>3, StepKinds
            <4> QED BY <4>1, QuietWithdrawable
        <3> QED BY <3>2, <3>3
    <2> QED BY <2>1, <2>2, <2>4 DEF WithdrawalInv
<1>3. WithdrawalInv(r) => WithdrawalsNeverPanic
    BY WithdrawableSuffices
<1> QED BY <1>1, <1>2, <1>3, PTL DEF Spec, PricesKeptUp

\* Prices are kept up when every swap that fills returns at least two units of B for
\* each period there is: a price is at least the B received, in units of the last place.
THEOREM PricesKeptUpByReceipts ==
    ASSUME \A q \in ConfigParams : q.token_a_drip_trigger_spread = 0,
           \A b \in ReceivedAmounts : 2 * MaxPeriod <= b
    PROVE  Spec => PricesKeptUp
<1> DEFINE GivenInv == HistoryInv /\ ConfigsGiven
           KeptUp ==
        \A v \in Vaults : vault'[v].last_drip_period # vault[v].last_drip_period =>
            ComputePrice(balance'[v]["B"] - balance[v]["B"], SwapAmount(v))
                >= 2 * vault[v].last_drip_period
<1>1. Init => GivenInv
    BY InitHistory, InitConfigs
<1>2. GivenInv /\ [Next]_vars => GivenInv'
    BY StepHistory, StepConfigs DEF HistoryInv, AccountingInv
<1>3. GivenInv /\ [Next]_vars => KeptUp
    <2> SUFFICES ASSUME HistoryInv, ConfigsGiven, [Next]_vars, NEW v \in Vaults,
                        vault'[v].last_drip_period # vault[v].last_drip_period
                 PROVE  ComputePrice(balance'[v]["B"] - balance[v]["B"], SwapAmount(v))
                            >= 2 * vault[v].last_drip_period
        OBVIOUS
    <2> DEFINE l == vault[v].last_drip_period
               d == vault[v].drip_amount
    <2>1. AccountingInv /\ PeriodsFresh /\ TypeOK
        BY DEF HistoryInv, AccountingInv, TypeInv
    <2>2. DripStep(v)
        <3>1. ~ KeepsRecords(v)
            BY DEF KeepsRecords
        <3>2. PICK w \in Vaults : DripStep(w)
            BY <2>1, <3>1, StepKinds
        <3>3. w = v
            BY <2>1, <3>1, <3>2, DripRecords
        <3> QED BY <3>2, <3>3
    <2>3. PICK b \in ReceivedAmounts :
             /\ d \in Nat \ {0} /\ SwapAmount(v) = d
             /\ balance'[v]["B"] = balance[v]["B"] + b
        BY <2>1, <2>2, DripBought
    <2>4. b \in Nat /\ 2 * MaxPeriod <= b
        BY BoundAssumption, CheckedAmounts
    <2>5. l \in Nat /\ l <= MaxPeriod /\ d < Two64
        <3>1. l \in PeriodIds /\ d \in Amount
            BY <2>1, VaultParts
        <3> HIDE DEF l, d
        <3> QED BY <3>1, BoundAssumption, WidthAssumption DEF PeriodIds, Amount
    <2>6. b <= ComputePrice(b, d)
        <3> DEFINE x == b * Two64
        <3>1. d * b <= x /\ x \in Nat
            <4>1. d * b <= Two64 * b
                BY <2>3, <2>4, <2>5, WidthAssumption, Z3
            <4> QED BY <2>4, <4>1, WidthAssumption
        <3> HIDE DEF x, d
        <3>2. (d * b) \div d = b
            BY <2>3, <2>4, Z3
        <3>3. (d * b) \div d <= x \div d
            <4>1. d * b \in Nat
                BY <2>3, <2>4
            <4> QED BY <2>3, <3>1, <4>1, QuotientMonotone
        <3> QED BY <3>2, <3>3 DEF ComputePrice, x
    <2>7. ComputePrice(b, d) \in Nat
        BY <2>3, <2>4, PriceTimesAmount
    <2>8. balance'[v]["B"] - balance[v]["B"] = b
        <3>1. balance[v]["B"] \in Nat
            BY <2>1, VaultParts, CheckedAmounts
        <3> QED BY <2>3, <2>4, <3>1
    <2> DEFINE price == ComputePrice(b, d)
    <2>9. ComputePrice(balance'[v]["B"] - balance[v]["B"], SwapAmount(v)) = price
        BY <2>3, <2>8
    <2> HIDE DEF price, l
    <2>10. price >= 2 * l
        BY <2>4, <2>5, <2>6, <2>7, BoundAssumption DEF price
    <2> QED BY <2>9, <2>10 DEF l
<1> HIDE DEF GivenInv, KeptUp
<1>4. Spec => [][KeptUp]_vars
    BY <1>1, <1>2, <1>3, PTL DEF Spec
<1> QED BY <1>4 DEF PricesKeptUp, KeptUp
=============================================================================
