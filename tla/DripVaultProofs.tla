-------------------------- MODULE DripVaultProofs ---------------------------
(***************************************************************************)
(* What holds of DripVault for every value of its constants.               *)
(***************************************************************************)
EXTENDS DripVault, DripSumsProofs

USE AddressAssumption, BoundAssumption

-----------------------------------------------------------------------------
(* Arithmetic *)

\* A division of naturals rounds down: the quotient's multiple is within the dividend.
LEMMA Quotient ==
    ASSUME NEW a \in Nat, NEW b \in Nat \ {0}
    PROVE  a \div b \in Nat /\ b * (a \div b) <= a /\ a \div b <= a
OBVIOUS

\* A position's drips together spend at most its deposit.
LEMMA PeriodicDripAmountBounds ==
    ASSUME NEW total \in Nat, NEW n \in Nat \ {0}
    PROVE  /\ PeriodicDripAmount(total, n) \in Nat
           /\ n * PeriodicDripAmount(total, n) <= total
           /\ PeriodicDripAmount(total, n) <= total
BY Quotient DEF PeriodicDripAmount

\* A spread takes a natural number of units.
LEMMA SpreadAmountType ==
    ASSUME NEW amount \in Nat, NEW spread \in Nat
    PROVE  SpreadAmount(amount, spread) \in Nat
<1>1. amount * spread \in Nat
    OBVIOUS
<1> QED BY <1>1, Quotient, BpsAssumption DEF SpreadAmount

\* A window's start, and the next one's, is an integer (before zero where the cast
\* of the granularity wraps).
LEMMA ActivationTimestampType ==
    ASSUME NEW t \in Nat, NEW g \in Amount, g > 0, NEW forward \in BOOLEAN
    PROVE  ActivationTimestamp(t, g, forward) \in Int
<1> DEFINE window == IF AsI64(g) > 0 THEN AsI64(g) ELSE - AsI64(g)
<1>1. AsI64(g) \in Int /\ AsI64(g) # 0
    BY WidthAssumption DEF AsI64, Amount
<1>2. window \in Nat \ {0}
    BY <1>1
<1> HIDE DEF window
<1>3. t % window \in Int
    BY <1>2
<1>4. ActivationTimestamp(t, g, forward)
         = t - (t % window) + (IF forward THEN AsI64(g) ELSE 0)
    BY DEF ActivationTimestamp, window
<1> QED BY <1>1, <1>3, <1>4

\* No spread takes more than the whole.
LEMMA SpreadAmountBound ==
    ASSUME NEW amount \in Nat, NEW spread \in Nat, spread <= Bps
    PROVE  SpreadAmount(amount, spread) \in 0 .. amount
<1>1. amount * spread \in Nat /\ amount * spread <= Bps * amount
    BY BpsAssumption
<1>2. ASSUME NEW x \in Nat, x <= Bps * amount
      PROVE  x \div Bps <= amount
    BY <1>2, BpsAssumption
<1> QED BY <1>1, <1>2, SpreadAmountType DEF SpreadAmount

\* A spread below one hundred per cent leaves something of a positive amount.
LEMMA SpreadAmountStrict ==
    ASSUME NEW amount \in Nat \ {0}, NEW spread \in Nat, spread < Bps
    PROVE  SpreadAmount(amount, spread) < amount
<1>1. amount * spread \in Nat /\ amount * spread < Bps * amount
    <2>1. amount * (Bps - spread) > 0
        BY BpsAssumption
    <2> QED BY <2>1, BpsAssumption
<1>2. ASSUME NEW x \in Nat, x < Bps * amount
      PROVE  x \div Bps < amount
    BY <1>2, BpsAssumption
<1> QED BY <1>1, <1>2 DEF SpreadAmount

\* A recorded price that passes the code's overflow checks fits a u128.
LEMMA NewTwapType ==
    ASSUME NEW twap \in Nat, NEW i \in Nat, NEW price \in Nat,
           NewTwapDefined(twap, i, price)
    PROVE  NewTwap(twap, i, price) \in Price
<1>1. i \in Nat \ {0} /\ i - 1 \in Nat
    BY DEF NewTwapDefined
<1>2. twap * (i - 1) \in Nat
    BY <1>1
<1>3. twap * (i - 1) + price \in Nat /\ twap * (i - 1) + price < Two64 * Two64
    BY <1>2 DEF NewTwapDefined
<1>4. Two64 * Two64 \in Nat
    BY WidthAssumption
<1> DEFINE x == twap * (i - 1) + price
<1> HIDE DEF x
<1>5. x \div i \in Nat /\ x \div i <= x
    BY <1>1, <1>3, Quotient DEF x
<1>6. x \div i \in Price
    BY <1>3, <1>4, <1>5 DEF Price, x
<1> QED BY <1>6 DEF NewTwap, x

\* What a position can withdraw fits a u64 when the code's checks pass.
LEMMA WithdrawTokenBType ==
    ASSUME NEW i \in Nat, NEW j \in Nat, NEW twap_i \in Nat, NEW twap_j \in Nat,
           NEW periodic \in Nat, NEW spread \in Nat, spread <= Bps,
           WithdrawTokenBDefined(i, j, twap_i, twap_j, periodic, spread)
    PROVE  WithdrawTokenB(i, j, twap_i, twap_j, periodic, spread) \in Amount
<1>1. CASE i = j
    BY <1>1, WidthAssumption DEF WithdrawTokenB, Amount
<1>2. CASE i # j
    <2> DEFINE avg == AveragePrice(i, j, twap_i, twap_j)
               net == DrippedNetOfSpread(i, j, periodic, spread)
    <2>1. j - i \in Nat \ {0} /\ avg * net < Two64 * Two64
        BY <1>2 DEF WithdrawTokenBDefined
    <2>2. avg \in Nat
        <3>1. twap_j * j - twap_i * i \in Nat
            BY <1>2 DEF WithdrawTokenBDefined
        <3> QED BY <2>1, <3>1, Quotient DEF AveragePrice
    <2>3. net \in Nat
        <3> DEFINE x == periodic * (j - i)
        <3>1. x \in Nat
            BY <2>1
        <3>2. net = x - SpreadAmount(x, spread)
            BY DEF DrippedNetOfSpread
        <3> HIDE DEF x, net
        <3>3. SpreadAmount(x, spread) \in 0 .. x
            BY <3>1, SpreadAmountBound
        <3> QED BY <3>1, <3>2, <3>3
    <2>4. WithdrawTokenB(i, j, twap_i, twap_j, periodic, spread) = (avg * net) \div Two64
        BY <1>2 DEF WithdrawTokenB
    <2> HIDE DEF avg, net
    <2>5. avg * net \in Nat
        BY <2>2, <2>3
    <2>6. ASSUME NEW x \in Nat, x < Two64 * Two64
          PROVE  x \div Two64 \in Amount
        BY <2>6, WidthAssumption DEF Amount
    <2> QED BY <2>1, <2>4, <2>5, <2>6
<1> QED BY <1>1, <1>2

-----------------------------------------------------------------------------
(* Type correctness *)

\* Every proto config in use passed init_vault_proto_config's checks, and every
\* vault was created with one: what the typing of a drip or withdrawal rests on.
ConfigsValid ==
    /\ \A c \in Configs : proto_config[c].exists => ValidConfigParams(proto_config[c])
    /\ \A v \in Vaults : vault[v].exists => Config(v).exists

TypeInv == TypeOK /\ ConfigsValid

\* A zeroed account has its type.
LEMMA NewAccountTypes ==
    /\ NoConfig \in ConfigType
    /\ NoVault \in VaultType
    /\ NoPeriod \in PeriodType
    /\ NoPosition \in PositionType
BY WidthAssumption, AddressAssumption, BoundAssumption
   DEF NoConfig, NoVault, NoPeriod, NoPosition, ConfigType, VaultType, PeriodType,
       PositionType, Amount, Price, PeriodIds

\* A proto config keeps the parameters it was created with, valid ones included.
LEMMA ConfigRecordType ==
    ASSUME NEW q \in ConfigParams
    PROVE  /\ ConfigRecord(q) \in ConfigType
           /\ ConfigRecord(q).exists
           /\ ValidConfigParams(q) => ValidConfigParams(ConfigRecord(q))
BY BoundAssumption DEF ConfigRecord, ConfigType, ProtoConfigType, ValidConfigParams

\* A whitelist fills the slots of a vault's array.
LEMMA WhitelistType ==
    ASSUME NEW list \in WhitelistParams
    PROVE  WhitelistSlots(list) \in [1 .. WhitelistSize -> Swaps \cup {DefaultKey}]
<1>1. list \in Seq(Swaps)
    BY BoundAssumption
<1>2. \A slot \in 1 .. WhitelistSize : slot <= Len(list) => list[slot] \in Swaps
    BY <1>1, AddressAssumption
<1> QED BY <1>2 DEF WhitelistSlots

\* Vault::init leaves every field in its type.
LEMMA InitialVaultType ==
    ASSUME NEW list \in WhitelistParams, NEW g \in Amount, g > 0, now \in Nat
    PROVE  InitialVault(g, list) \in VaultType
<1>1. ActivationTimestamp(now, g, FALSE) \in Int
    BY ActivationTimestampType
<1> QED BY <1>1, NewAccountTypes, WhitelistType
        DEF InitialVault, SetWhitelistedSwaps, NoVault, VaultType

\* The config of a vault that exists.
LEMMA VaultConfigType ==
    ASSUME TypeInv, NEW v \in Vaults, vault[v].exists
    PROVE  /\ Config(v).granularity \in Amount /\ Config(v).granularity > 0
           /\ Config(v).token_a_drip_trigger_spread \in Nat
           /\ Config(v).token_a_drip_trigger_spread < Bps
<1>1. ConfigOf[v] \in Configs
    BY AddressAssumption
<1>2. Config(v) \in ConfigType
    BY <1>1 DEF TypeInv, TypeOK, Config
<1>3. ValidConfigParams(Config(v))
    BY <1>1 DEF TypeInv, ConfigsValid, Config
<1> QED BY <1>2, <1>3, SpreadAssumption, BpsAssumption
        DEF ConfigType, ValidConfigParams

\* A period account an instruction is given.
LEMMA PeriodAccountType ==
    ASSUME TypeOK, NEW a \in PeriodAccounts
    PROVE  /\ a.vault \in Vaults /\ a.period_id \in PeriodIds /\ a.period_id \in Nat
           /\ Data(a) \in PeriodType /\ Data(a).exists
BY BoundAssumption DEF TypeOK, PeriodAccounts, Data, PeriodIds

\* The types hold at the start.
LEMMA InitType == Init => TypeInv
<1> SUFFICES ASSUME Init
             PROVE  TypeInv
    OBVIOUS
<1>1. now \in Nat
    BY BoundAssumption DEF Init
<1>2. PICK params \in [Configs -> {q \in ConfigParams : ValidConfigParams(q)}] :
         proto_config = [c \in Configs |->
             IF \E v \in UpgradedVaults : ConfigOf[v] = c
             THEN ConfigRecord(params[c]) ELSE NoConfig]
    BY DEF Init
<1>3. \A c \in Configs : params[c] \in ConfigParams /\ ValidConfigParams(params[c])
    BY <1>2
<1>4. proto_config \in [Configs -> ConfigType]
    BY <1>2, <1>3, ConfigRecordType, NewAccountTypes
<1>5. ASSUME NEW c \in Configs
      PROVE  proto_config[c].exists => ValidConfigParams(proto_config[c])
    BY <1>2, <1>3, ConfigRecordType DEF NoConfig
<1>6. ASSUME NEW v \in UpgradedVaults
      PROVE  Config(v).exists /\ Config(v).granularity \in Amount /\ Config(v).granularity > 0
    <2>1. ConfigOf[v] \in Configs
        BY AddressAssumption
    <2>2. Config(v).exists
        BY <1>2, <1>3, <2>1, ConfigRecordType DEF Config
    <2> QED BY <1>4, <1>5, <2>1, <2>2 DEF Config, ConfigType, ValidConfigParams
<1>7. \A v \in Vaults : vault[v] =
         IF v \in UpgradedVaults THEN InitialVault(Config(v).granularity, <<>>) ELSE NoVault
    BY DEF Init
<1>8. ASSUME NEW v \in UpgradedVaults
      PROVE  InitialVault(Config(v).granularity, <<>>) \in VaultType
    <2>1. ActivationTimestamp(now, Config(v).granularity, FALSE) \in Int
        BY <1>1, <1>6, ActivationTimestampType
    <2>2. WhitelistSlots(<<>>) \in [1 .. WhitelistSize -> Swaps \cup {DefaultKey}]
        BY AddressAssumption DEF WhitelistSlots
    <2> QED BY <2>1, <2>2, NewAccountTypes
            DEF InitialVault, SetWhitelistedSwaps, NoVault, VaultType
<1>9. vault \in [Vaults -> VaultType]
    BY <1>8, NewAccountTypes DEF Init
<1>10. \A v \in Vaults : vault[v].exists => Config(v).exists
    BY <1>6, <1>7 DEF NoVault
<1>11. vault_period \in [Vaults -> [PeriodIds -> PeriodType]]
    BY NewAccountTypes DEF Init
<1>12. position \in [Positions -> PositionType]
    <2>1. PICK owner \in [LegacyPositions -> UpgradedVaults] :
             position = [p \in Positions |->
                 IF p \in LegacyPositions
                 THEN [NoPosition EXCEPT !.status = "legacy", !.vault = owner[p]]
                 ELSE NoPosition]
        BY DEF Init
    <2>2. \A p \in LegacyPositions :
             [NoPosition EXCEPT !.status = "legacy", !.vault = owner[p]] \in PositionType
        BY <2>1, AddressAssumption, NewAccountTypes DEF PositionType
    <2> QED BY <2>1, <2>2, NewAccountTypes
<1>13. nft_holder \in [Positions -> Signers \cup {NoHolder}]
    BY DEF Init
<1>14. balance \in [Vaults -> [Tokens -> Amount]]
    <2>1. 0 \in Amount
        BY WidthAssumption DEF Amount
    <2> QED BY <2>1 DEF Init
<1> QED BY <1>1, <1>4, <1>5, <1>9, <1>10, <1>11, <1>12, <1>13, <1>14
        DEF TypeInv, TypeOK, ConfigsValid

\* A checked sum, and a checked difference, of amounts is an amount.
LEMMA CheckedAmounts ==
    /\ Amount \subseteq Nat
    /\ 0 \in Amount
    /\ \A x, y \in Nat : x + y < Two64 => x + y \in Amount
    /\ \A x \in Amount, y \in Nat : y <= x => x - y \in Amount
BY WidthAssumption DEF Amount

\* The fields of a vault, and its token accounts.
LEMMA VaultParts ==
    ASSUME TypeOK, NEW v \in Vaults
    PROVE  /\ vault[v] \in VaultType
           /\ vault[v].last_drip_period \in PeriodIds
           /\ vault[v].drip_amount \in Amount
           /\ vault_period[v] \in [PeriodIds -> PeriodType]
           /\ balance[v] \in [Tokens -> Amount]
           /\ balance[v]["A"] \in Amount
           /\ balance[v]["B"] \in Amount
<1>1. vault[v] \in VaultType /\ vault_period[v] \in [PeriodIds -> PeriodType]
      /\ balance[v] \in [Tokens -> Amount]
    BY DEF TypeOK
<1>2. "A" \in Tokens /\ "B" \in Tokens
    BY DEF Tokens
<1> QED BY <1>1, <1>2 DEF VaultType

\* The fields of a position.
LEMMA PositionParts ==
    ASSUME TypeOK, NEW p \in Positions
    PROVE  /\ position[p] \in PositionType
           /\ position[p].deposited_token_a_amount \in Nat
           /\ position[p].withdrawn_token_b_amount \in Nat
           /\ position[p].drip_period_id_before_deposit \in PeriodIds
           /\ position[p].drip_period_id_before_deposit \in Nat
           /\ position[p].number_of_swaps \in Nat
           /\ position[p].periodic_drip_amount \in Nat
           /\ position[p].periodic_drip_amount \in Amount
           /\ Expiry(p) \in Nat
<1>1. position[p] \in PositionType
    BY DEF TypeOK
<1>2. /\ position[p].deposited_token_a_amount \in Amount
      /\ position[p].withdrawn_token_b_amount \in Amount
      /\ position[p].periodic_drip_amount \in Amount
      /\ position[p].drip_period_id_before_deposit \in PeriodIds
      /\ position[p].number_of_swaps \in Nat
    BY <1>1 DEF PositionType
<1>3. position[p].drip_period_id_before_deposit \in Nat
    BY <1>2, BoundAssumption DEF PeriodIds
<1>4. Expiry(p) \in Nat
    BY <1>2, <1>3 DEF Expiry
<1> QED BY <1>1, <1>2, <1>3, <1>4, CheckedAmounts

\* A vault whose period's and whose own records are replaced stays well typed.
LEMMA ReplacedRecords ==
    ASSUME TypeOK, NEW v \in Vaults
    PROVE  /\ \A r \in VaultType : [vault EXCEPT ![v] = r] \in [Vaults -> VaultType]
           /\ \A k \in PeriodIds, r \in PeriodType :
                [vault_period EXCEPT ![v][k] = r] \in [Vaults -> [PeriodIds -> PeriodType]]
           /\ \A x, y \in Amount :
                [balance EXCEPT ![v]["A"] = x, ![v]["B"] = y] \in [Vaults -> [Tokens -> Amount]]
<1>1. ASSUME NEW k \in PeriodIds, NEW r \in PeriodType
      PROVE  [vault_period EXCEPT ![v][k] = r] \in [Vaults -> [PeriodIds -> PeriodType]]
    <2>1. [vault_period[v] EXCEPT ![k] = r] \in [PeriodIds -> PeriodType]
        BY VaultParts
    <2> QED BY <2>1 DEF TypeOK
<1>2. ASSUME NEW x \in Amount, NEW y \in Amount
      PROVE  [balance EXCEPT ![v]["A"] = x, ![v]["B"] = y] \in [Vaults -> [Tokens -> Amount]]
    <2>1. [[balance[v] EXCEPT !["A"] = x] EXCEPT !["B"] = y] \in [Tokens -> Amount]
        BY VaultParts
    <2> QED BY <2>1 DEF TypeOK
<1>3. ASSUME NEW r \in VaultType
      PROVE  [vault EXCEPT ![v] = r] \in [Vaults -> VaultType]
    BY DEF TypeOK
<1> QED BY <1>1, <1>2, <1>3

-----------------------------------------------------------------------------
(* Payments *)

Balances == [Vaults -> [Tokens -> Amount]]

\* From b to c, vault v loses at most n of its token t, every other account of a vault
\* loses nothing, and no account of the other token changes.
SpentAtMost(b, c, v, t, n) ==
    \A w \in Vaults, u \in Tokens :
        /\ c[w][u] >= b[w][u] - (IF w = v /\ u = t THEN n ELSE 0)
        /\ u # t => c[w][u] = b[w][u]

\* A vault's account holds a natural number of tokens.
LEMMA BalanceNat ==
    ASSUME NEW b \in Balances, NEW w \in Vaults, NEW u \in Tokens
    PROVE  b[w][u] \in Amount /\ b[w][u] \in Nat
<1>1. b[w] \in [Tokens -> Amount]
    BY DEF Balances
<1>2. b[w][u] \in Amount
    BY <1>1
<1> QED BY <1>2, CheckedAmounts

\* A transfer that succeeds keeps every balance in range, and takes from no other account
\* than the one it names, wherever it goes.
LEMMA PaidFacts ==
    ASSUME NEW b \in Balances, NEW v \in Vaults, NEW t \in Tokens, NEW to, NEW n \in Nat,
           CanPay(b, v, t, to, n)
    PROVE  /\ Paid(b, v, t, to, n) \in Balances
           /\ SpentAtMost(b, Paid(b, v, t, to, n), v, t, n)
           /\ to \notin VaultAccounts => Paid(b, v, t, to, n) = [b EXCEPT ![v][t] = @ - n]
           /\ Paid(b, v, t, to, n)[v][t] <= b[v][t]
<1> DEFINE taken == [b EXCEPT ![v][t] = @ - n]
           gone  == Paid(b, v, t, to, n)
<1>1. n <= b[v][t] /\ b[v][t] \in Amount /\ b[v][t] - n \in Amount
    BY CheckedAmounts DEF CanPay, Balances
<1>2. taken \in Balances
    BY <1>1 DEF Balances
<1>3. \A w \in Vaults, u \in Tokens :
         /\ taken[w][u] = IF w = v /\ u = t THEN b[v][t] - n ELSE b[w][u]
         /\ taken[w][u] \in Nat /\ b[w][u] \in Nat
    <2>1. \A w \in Vaults, u \in Tokens : taken[w][u] \in Nat /\ b[w][u] \in Nat
        BY <1>2, BalanceNat
    <2> QED BY <2>1 DEF Balances
<1>4. CASE to \notin VaultAccounts
    <2>1. gone = taken
        BY <1>4 DEF Paid
    <2>2. SpentAtMost(b, taken, v, t, n) /\ taken[v][t] <= b[v][t]
        <3> HIDE DEF taken
        <3> QED BY <1>1, <1>3 DEF SpentAtMost
    <2> QED BY <1>2, <1>4, <2>1, <2>2
<1>5. CASE to \in VaultAccounts
    <2>1. PICK x \in Vaults, s \in Tokens : to = <<x, s>>
        BY <1>5 DEF VaultAccounts
    <2>2. s = t /\ to[1] = x /\ to[2] = t
        BY <1>5, <2>1 DEF CanPay
    <2>3. gone = [taken EXCEPT ![x][t] = @ + n]
        BY <1>5, <2>2 DEF Paid
    <2>4. taken[x][t] + n \in Amount
        <3> HIDE DEF taken
        <3>1. CASE x = v
            BY <1>1, <1>3, <3>1, CheckedAmounts
        <3>2. CASE x # v
            <4>1. b[x][t] + n < Two64
                BY <1>5, <2>2, <3>2 DEF CanPay
            <4> QED BY <1>3, <3>2, <4>1, CheckedAmounts
        <3> QED BY <3>1, <3>2
    <2>5. gone \in Balances
        <3> HIDE DEF taken, gone
        <3> QED BY <1>2, <2>1, <2>3, <2>4 DEF Balances
    <2>6. \A w \in Vaults, u \in Tokens :
             gone[w][u] = taken[w][u] + (IF w = x /\ u = t THEN n ELSE 0)
        <3> HIDE DEF taken, gone
        <3>1. \A w \in Vaults, u \in Tokens :
                 gone[w][u] = IF w = x /\ u = t THEN taken[x][t] + n ELSE taken[w][u]
            BY <1>2, <2>1, <2>3 DEF Balances
        <3> QED BY <1>3, <3>1
    <2>7. SpentAtMost(b, gone, v, t, n) /\ gone[v][t] <= b[v][t]
        <3> HIDE DEF taken, gone
        <3> QED BY <1>1, <1>3, <2>6 DEF SpentAtMost
    <2> QED BY <1>5, <2>5, <2>7
<1> QED BY <1>4, <1>5

\* A payment of nothing changes nothing.
LEMMA NothingPaid ==
    ASSUME NEW b \in Balances, NEW v \in Vaults, NEW t \in Tokens, NEW to
    PROVE  Paid(b, v, t, to, 0) = b
<1>1. \A w \in Vaults, u \in Tokens : b[w][u] + 0 = b[w][u] /\ b[w][u] - 0 = b[w][u]
    BY BalanceNat
<1>2. [b EXCEPT ![v][t] = @ - 0] = b
    BY <1>1 DEF Balances
<1>3. ASSUME NEW x \in Vaults, NEW s \in Tokens
      PROVE  [b EXCEPT ![x][s] = @ + 0] = b
    BY <1>1 DEF Balances
<1>4. to \in VaultAccounts => to[1] \in Vaults /\ to[2] \in Tokens
    BY DEF VaultAccounts
<1> QED BY <1>2, <1>3, <1>4 DEF Paid

\* Nor does it cost anything.
LEMMA UnspentAtMost ==
    ASSUME NEW b \in Balances, NEW v \in Vaults, NEW t \in Tokens
    PROVE  SpentAtMost(b, b, v, t, 0)
<1>1. \A w \in Vaults, u \in Tokens : b[w][u] \in Nat
    BY BalanceNat
<1> QED BY <1>1 DEF SpentAtMost

\* Payments of one token out of one vault, one after the other, add up.
LEMMA SpentInTurn ==
    ASSUME NEW b \in Balances, NEW c \in Balances, NEW d \in Balances,
           NEW v \in Vaults, NEW t \in Tokens, NEW m \in Nat, NEW n \in Nat,
           SpentAtMost(b, c, v, t, m), SpentAtMost(c, d, v, t, n)
    PROVE  SpentAtMost(b, d, v, t, m + n)
<1>1. \A w \in Vaults, u \in Tokens : b[w][u] \in Nat /\ c[w][u] \in Nat /\ d[w][u] \in Nat
    BY BalanceNat
<1> QED BY <1>1 DEF SpentAtMost

-----------------------------------------------------------------------------
(* Set-up and the admin *)

\* Set-up instructions.
LEMMA SetUpTypes ==
    ASSUME TypeInv
    PROVE  /\ \A c \in Configs, params \in ConfigParams :
                InitVaultProtoConfig(c, params) => TypeInv'
           /\ \A v \in Vaults, admin \in Signers, list \in WhitelistParams :
                InitVault(v, admin, list) \/ SetVaultSwapWhitelist(v, admin, list) => TypeInv'
           /\ \A v \in Vaults, k \in PeriodIds : InitVaultPeriod(v, k) => TypeInv'
<1>1. ASSUME NEW c \in Configs, NEW params \in ConfigParams, InitVaultProtoConfig(c, params)
      PROVE  TypeInv'
    <2>1. proto_config' \in [Configs -> ConfigType]
        BY <1>1, ConfigRecordType DEF InitVaultProtoConfig, TypeInv, TypeOK
    <2>2. \A d \in Configs : proto_config'[d].exists => ValidConfigParams(proto_config'[d])
        BY <1>1, ConfigRecordType DEF InitVaultProtoConfig, TypeInv, TypeOK, ConfigsValid
    <2>3. \A w \in Vaults : vault'[w].exists => proto_config'[ConfigOf[w]].exists
        BY <1>1, ConfigRecordType, AddressAssumption
           DEF InitVaultProtoConfig, TypeInv, TypeOK, ConfigsValid, Config
    <2> QED BY <1>1, <2>1, <2>2, <2>3
            DEF InitVaultProtoConfig, TypeInv, TypeOK, ConfigsValid, Config
<1>2. ASSUME NEW v \in Vaults, NEW admin \in Signers, NEW list \in WhitelistParams,
             InitVault(v, admin, list)
      PROVE  TypeInv'
    <2>1. Config(v).exists /\ Config(v).granularity \in Amount /\ Config(v).granularity > 0
        BY <1>2, AddressAssumption
           DEF InitVault, TypeInv, TypeOK, ConfigsValid, Config, ConfigType, ValidConfigParams
    <2>2. InitialVault(Config(v).granularity, list) \in VaultType
        BY <2>1, InitialVaultType DEF TypeInv, TypeOK
    <2>3. vault' \in [Vaults -> VaultType]
        BY <1>2, <2>2 DEF InitVault, TypeInv, TypeOK
    <2>4. \A w \in Vaults : vault'[w].exists => Config(w).exists
        BY <1>2, <2>1 DEF InitVault, TypeInv, TypeOK, ConfigsValid
    <2> QED BY <1>2, <2>3, <2>4 DEF InitVault, TypeInv, TypeOK, ConfigsValid, Config
<1>3. ASSUME NEW v \in Vaults, NEW k \in PeriodIds, InitVaultPeriod(v, k)
      PROVE  TypeInv'
    <2>1. [NoPeriod EXCEPT !.exists = TRUE] \in PeriodType
        BY NewAccountTypes DEF NoPeriod, PeriodType
    <2>2. vault_period' \in [Vaults -> [PeriodIds -> PeriodType]]
        BY <1>3, <2>1 DEF InitVaultPeriod, TypeInv, TypeOK
    <2> QED BY <1>3, <2>2 DEF InitVaultPeriod, TypeInv, TypeOK, ConfigsValid, Config
<1>4. ASSUME NEW v \in Vaults, NEW admin \in Signers, NEW list \in WhitelistParams,
             SetVaultSwapWhitelist(v, admin, list)
      PROVE  TypeInv'
    <2>1. SetWhitelistedSwaps(vault[v], list) \in VaultType
        <3>1. vault[v] \in VaultType
            BY VaultParts DEF TypeInv
        <3>2. (list # <<>>) \in BOOLEAN
            OBVIOUS
        <3> QED BY <3>1, <3>2, WhitelistType DEF SetWhitelistedSwaps, VaultType
    <2>2. vault' \in [Vaults -> VaultType]
        BY <1>4, <2>1 DEF SetVaultSwapWhitelist, TypeInv, TypeOK
    <2>3. \A w \in Vaults : vault'[w].exists => vault[w].exists
        BY <1>4 DEF SetVaultSwapWhitelist, TypeInv, TypeOK
    <2> QED BY <1>4, <2>2, <2>3 DEF SetVaultSwapWhitelist, TypeInv, TypeOK, ConfigsValid, Config
<1> QED BY <1>1, <1>2, <1>3, <1>4

\* What the admin takes out of a vault nobody drips through comes out of that vault.
LEMMA EmptiedFacts ==
    ASSUME TypeInv, NEW v \in Vaults, NEW admin \in Signers, NEW token \in Tokens,
           NEW to \in PayoutAccounts, EmptyTokenAccount(v, admin, token, to)
    PROVE  /\ balance' \in Balances
           /\ SpentAtMost(balance, balance', v, token, balance[v][token])
<1>1. balance \in Balances /\ balance[v][token] \in Nat
    BY BalanceNat DEF TypeInv, TypeOK, Balances
<1> QED BY <1>1, PaidFacts DEF EmptyTokenAccount

\* The admin's and the holders' instructions that move no price or period, and time.
LEMMA OtherTypes ==
    ASSUME TypeInv
    PROVE  /\ \A v \in Vaults, admin \in Signers, token \in Tokens, to \in PayoutAccounts :
                EmptyTokenAccount(v, admin, token, to) => TypeInv'
           /\ \A v \in Vaults, admin \in Signers, p \in Positions :
                ClosePositionAccount(p, v, admin) => TypeInv'
           /\ \A p \in Positions, to \in Users : TransferNft(p, to) => TypeInv'
           /\ Tick \/ UNCHANGED vars => TypeInv'
<1>1. ASSUME NEW v \in Vaults, NEW admin \in Signers, NEW token \in Tokens,
             NEW to \in PayoutAccounts, EmptyTokenAccount(v, admin, token, to)
      PROVE  TypeInv'
    <2>1. balance' \in [Vaults -> [Tokens -> Amount]]
        BY <1>1, EmptiedFacts DEF Balances
    <2> QED BY <1>1, <2>1 DEF EmptyTokenAccount, TypeInv, TypeOK, ConfigsValid, Config
<1>2. ASSUME NEW v \in Vaults, NEW admin \in Signers, NEW p \in Positions,
             ClosePositionAccount(p, v, admin)
      PROVE  TypeInv'
    <2>1. position[p] \in PositionType
        BY DEF TypeInv, TypeOK
    <2>2. [position[p] EXCEPT !.status = "closed"] \in PositionType
        BY <2>1 DEF PositionType
    <2>3. position' = [position EXCEPT ![p] = [position[p] EXCEPT !.status = "closed"]]
        BY <1>2 DEF ClosePositionAccount
    <2>4. position' \in [Positions -> PositionType]
        BY <2>2, <2>3 DEF TypeInv, TypeOK
    <2> QED BY <1>2, <2>4 DEF ClosePositionAccount, TypeInv, TypeOK, ConfigsValid, Config
<1>3. ASSUME NEW p \in Positions, NEW to \in Users, TransferNft(p, to)
      PROVE  TypeInv'
    <2>1. nft_holder' \in [Positions -> Signers \cup {NoHolder}]
        BY <1>3, AddressAssumption DEF TransferNft, TypeInv, TypeOK
    <2> QED BY <1>3, <2>1 DEF TransferNft, TypeInv, TypeOK, ConfigsValid, Config
<1>4. CASE Tick
    <2>1. now' \in Nat
        BY <1>4 DEF Tick, TypeInv, TypeOK
    <2> QED BY <1>4, <2>1 DEF Tick, TypeInv, TypeOK, ConfigsValid, Config
<1>5. CASE UNCHANGED vars
    BY <1>5 DEF vars, TypeInv, TypeOK, ConfigsValid, Config
<1> QED BY <1>1, <1>2, <1>3, <1>4, <1>5

\* What a deposit's checked additions write has its type.
LEMMA DepositRecords ==
    ASSUME TypeOK, NEW p \in Positions, NEW v \in Vaults, NEW end \in PeriodAccounts,
           NEW amount \in DepositAmounts, NEW n \in SwapCounts, n > 0,
           vault[v].drip_amount + PeriodicDripAmount(amount, n) < Two64,
           Data(end).dar + PeriodicDripAmount(amount, n) < Two64
    PROVE  /\ [vault EXCEPT ![v].drip_amount = @ + PeriodicDripAmount(amount, n)]
                 \in [Vaults -> VaultType]
           /\ [vault_period EXCEPT ![end.vault][end.period_id].dar =
                  @ + PeriodicDripAmount(amount, n)] \in [Vaults -> [PeriodIds -> PeriodType]]
           /\ [position EXCEPT ![p] =
                 [status |-> "open", vault |-> v, deposited_token_a_amount |-> amount,
                  withdrawn_token_b_amount |-> 0,
                  drip_period_id_before_deposit |-> vault[v].last_drip_period,
                  number_of_swaps |-> n,
                  periodic_drip_amount |-> PeriodicDripAmount(amount, n)]]
                 \in [Positions -> PositionType]
<1> DEFINE periodic == PeriodicDripAmount(amount, n)
<1>1. n \in Nat \ {0} /\ amount \in Amount /\ amount \in Nat
    <2>1. n \in Nat /\ amount \in Amount
        BY BoundAssumption
    <2> QED BY <2>1, CheckedAmounts
<1>2. periodic \in Nat /\ periodic <= amount
    BY <1>1, PeriodicDripAmountBounds
<1>3. periodic \in Amount
    BY <1>1, <1>2, WidthAssumption DEF Amount
<1>4. vault[v].drip_amount + periodic < Two64 /\ Data(end).dar + periodic < Two64
    OBVIOUS
<1> HIDE DEF periodic
<1>5. /\ vault[v] \in VaultType
      /\ vault[v].drip_amount \in Nat
      /\ vault[v].last_drip_period \in PeriodIds
    BY VaultParts, CheckedAmounts
<1>6. end.vault \in Vaults /\ end.period_id \in PeriodIds /\ Data(end).dar \in Nat
    BY PeriodAccountType, CheckedAmounts DEF PeriodType
<1>7. vault[v].drip_amount + periodic \in Amount /\ Data(end).dar + periodic \in Amount
    BY <1>2, <1>4, <1>5, <1>6, CheckedAmounts
<1>8. [vault EXCEPT ![v].drip_amount = @ + periodic] \in [Vaults -> VaultType]
    <2>1. [vault[v] EXCEPT !.drip_amount = @ + periodic] \in VaultType
        BY <1>5, <1>7 DEF VaultType
    <2> QED BY <2>1, ReplacedRecords
<1>9. [vault_period EXCEPT ![end.vault][end.period_id].dar = @ + periodic]
         \in [Vaults -> [PeriodIds -> PeriodType]]
    <2>1. [Data(end) EXCEPT !.dar = @ + periodic] \in PeriodType
        BY <1>7, PeriodAccountType DEF PeriodType
    <2> QED BY <1>6, <2>1, ReplacedRecords DEF Data
<1>10. [position EXCEPT ![p] =
         [status |-> "open", vault |-> v, deposited_token_a_amount |-> amount,
          withdrawn_token_b_amount |-> 0,
          drip_period_id_before_deposit |-> vault[v].last_drip_period,
          number_of_swaps |-> n, periodic_drip_amount |-> periodic]]
         \in [Positions -> PositionType]
    <2>1. 0 \in Amount
        BY WidthAssumption DEF Amount
    <2> QED BY <1>1, <1>3, <1>5, <2>1 DEF TypeOK, PositionType
<1> QED BY <1>8, <1>9, <1>10 DEF periodic

\* A deposit's checked additions keep drip_amount, dar and the balance in range.
LEMMA DepositType ==
    ASSUME TypeInv, NEW p \in Positions, NEW v \in Vaults, NEW depositor \in Users,
           NEW end \in PeriodAccounts, NEW amount \in DepositAmounts, NEW n \in SwapCounts,
           Deposit(p, v, depositor, end, amount, n)
    PROVE  TypeInv'
<1>1. n \in Nat \ {0} /\ amount \in Nat
    BY BoundAssumption, CheckedAmounts DEF Deposit
<1>2. /\ vault' \in [Vaults -> VaultType]
      /\ vault_period' \in [Vaults -> [PeriodIds -> PeriodType]]
      /\ position' \in [Positions -> PositionType]
    BY <1>1, DepositRecords DEF Deposit, TypeInv
<1>3. nft_holder' \in [Positions -> Signers \cup {NoHolder}]
    BY AddressAssumption DEF Deposit, TypeInv, TypeOK
<1>4. balance' \in [Vaults -> [Tokens -> Amount]]
    <2>1. balance[v]["A"] + amount \in Amount
        BY <1>1, VaultParts, CheckedAmounts DEF TypeInv, Deposit
    <2>2. [balance[v] EXCEPT !["A"] = @ + amount] \in [Tokens -> Amount]
        BY <2>1, VaultParts DEF TypeInv
    <2> QED BY <2>2 DEF Deposit, TypeInv, TypeOK
<1>5. \A w \in Vaults : vault'[w].exists => vault[w].exists
    BY DEF Deposit, TypeInv, TypeOK
<1>6. UNCHANGED <<now, proto_config>>
    BY DEF Deposit
<1> QED BY <1>2, <1>3, <1>4, <1>5, <1>6 DEF TypeInv, TypeOK, ConfigsValid, Config

\* What a drip sends to the swap is a positive part of what the vault drips.
LEMMA SwapAmountType ==
    ASSUME TypeInv, NEW v \in Vaults, vault[v].exists, vault[v].drip_amount > 0
    PROVE  SwapAmount(v) \in Nat \ {0} /\ SpreadOnDrip(v) \in Nat
<1> DEFINE d == vault[v].drip_amount
           s == Config(v).token_a_drip_trigger_spread
<1>1. d \in Nat \ {0}
    BY VaultParts, CheckedAmounts DEF TypeInv
<1>2. s \in Nat /\ s < Bps /\ s <= Bps
    BY VaultConfigType, BpsAssumption
<1>3. SpreadAmount(d, s) \in Nat /\ SpreadAmount(d, s) < d
    BY <1>1, <1>2, SpreadAmountStrict, SpreadAmountType
<1> QED BY <1>1, <1>3 DEF SwapAmount, SpreadOnDrip

\* What process_drip writes has its type, and so has the record with the price.
LEMMA DripRecord ==
    ASSUME TypeInv, NEW v \in Vaults, vault[v].exists, NEW current \in PeriodAccounts,
           Data(current).dar <= vault[v].drip_amount
    PROVE  [vault EXCEPT
              ![v].drip_amount = @ - Data(current).dar,
              ![v].last_drip_period = current.period_id,
              ![v].drip_activation_timestamp =
                  ActivationTimestamp(now, Config(v).granularity, TRUE)]
                 \in [Vaults -> VaultType]
<1> DEFINE t == ActivationTimestamp(now, Config(v).granularity, TRUE)
           r == [vault[v] EXCEPT !.drip_amount = @ - Data(current).dar,
                                 !.last_drip_period = current.period_id,
                                 !.drip_activation_timestamp = t]
<1>1. t \in Int
    BY VaultConfigType, ActivationTimestampType DEF TypeInv, TypeOK
<1>2. current.period_id \in PeriodIds /\ Data(current).dar \in Nat
    BY PeriodAccountType, CheckedAmounts DEF TypeInv, PeriodType
<1>3. vault[v].drip_amount - Data(current).dar \in Amount
    BY <1>2, VaultParts, CheckedAmounts DEF TypeInv
<1> HIDE DEF t
<1>4. r \in VaultType
    BY <1>1, <1>2, <1>3, VaultParts DEF VaultType, TypeInv
<1>5. [vault EXCEPT ![v] = r] \in [Vaults -> VaultType]
    BY <1>4, ReplacedRecords DEF TypeInv
<1>6. [vault EXCEPT ![v] = r] =
         [vault EXCEPT ![v].drip_amount = @ - Data(current).dar,
                       ![v].last_drip_period = current.period_id,
                       ![v].drip_activation_timestamp = t]
    BY DEF TypeInv, TypeOK
<1> QED BY <1>5, <1>6 DEF t

\* And the period with the new price has its type.
LEMMA PriceRecord ==
    ASSUME TypeInv, NEW v \in Vaults, vault[v].exists, vault[v].drip_amount > 0,
           NEW last \in PeriodAccounts, NEW current \in PeriodAccounts,
           NEW received_b \in ReceivedAmounts,
           NewTwapDefined(Data(last).twap, current.period_id,
                          ComputePrice(received_b, SwapAmount(v)))
    PROVE  [vault_period EXCEPT
              ![current.vault][current.period_id].twap =
                  NewTwap(Data(last).twap, current.period_id,
                          ComputePrice(received_b, SwapAmount(v))),
              ![current.vault][current.period_id].drip_timestamp = now]
                 \in [Vaults -> [PeriodIds -> PeriodType]]
<1> DEFINE price == ComputePrice(received_b, SwapAmount(v))
           w == NewTwap(Data(last).twap, current.period_id, price)
           r == [Data(current) EXCEPT !.twap = w, !.drip_timestamp = now]
<1>1. price \in Nat
    <2>1. received_b * Two64 \in Nat
        BY BoundAssumption, CheckedAmounts, WidthAssumption
    <2> QED BY <2>1, SwapAmountType, Quotient DEF ComputePrice
<1>2. /\ current.vault \in Vaults /\ current.period_id \in PeriodIds
      /\ current.period_id \in Nat
      /\ Data(current) \in PeriodType /\ Data(last) \in PeriodType
    BY PeriodAccountType DEF TypeInv
<1>3. Data(last).twap \in Nat
    BY <1>2 DEF PeriodType, Price
<1>4. w \in Price
    BY <1>1, <1>2, <1>3, NewTwapType
<1> HIDE DEF w
<1>5. r \in PeriodType
    BY <1>2, <1>4 DEF PeriodType, TypeInv, TypeOK
<1>6. [vault_period EXCEPT ![current.vault][current.period_id] = r]
         \in [Vaults -> [PeriodIds -> PeriodType]]
    BY <1>2, <1>5, ReplacedRecords DEF TypeInv
<1>7. [vault_period EXCEPT ![current.vault][current.period_id] = r] =
         [vault_period EXCEPT ![current.vault][current.period_id].twap = w,
                              ![current.vault][current.period_id].drip_timestamp = now]
    BY <1>2 DEF Data, TypeInv, TypeOK
<1> QED BY <1>6, <1>7 DEF w

\* A drip spends exactly what it accounts for, whoever gets its fee: that is the fee and
\* what it offers the pool.
LEMMA DripSpends ==
    ASSUME TypeInv, NEW v \in Vaults, NEW last \in PeriodAccounts,
           NEW current \in PeriodAccounts, NEW swap \in Swaps, NEW fee_account,
           NEW swapped_a \in 0 .. SwapAmount(v), NEW received_b \in ReceivedAmounts,
           Drip(v, last, current, swap, fee_account, swapped_a, received_b)
    PROVE  /\ balance' \in Balances
           /\ balance'[v]["A"] = balance[v]["A"] - vault[v].drip_amount
           /\ balance'[v]["B"] = balance[v]["B"] + received_b
           /\ \A w \in Vaults \ {v} :
                balance'[w]["A"] >= balance[w]["A"] /\ balance'[w]["B"] = balance[w]["B"]
           /\ fee_account \notin VaultAccounts =>
                \A w \in Vaults \ {v} : balance'[w]["A"] = balance[w]["A"]
<1> DEFINE fee  == SpreadOnDrip(v)
           paid == Paid(balance, v, "A", fee_account, fee)
<1>1. SwapAmount(v) \in Nat \ {0} /\ fee \in Nat
    BY SwapAmountType DEF Drip
<1>2. received_b \in Nat /\ swapped_a \in Nat
    BY <1>1, BoundAssumption, CheckedAmounts
<1>3. balance \in Balances /\ "A" \in Tokens /\ "B" \in Tokens /\ "A" # "B"
    BY DEF TypeInv, TypeOK, Balances, Tokens
<1>4. /\ paid \in Balances
      /\ SpentAtMost(balance, paid, v, "A", fee)
      /\ fee_account \notin VaultAccounts => paid = [balance EXCEPT ![v]["A"] = @ - fee]
    BY <1>1, <1>3, PaidFacts DEF Drip
<1>5. /\ swapped_a <= paid[v]["A"]
      /\ paid[v]["B"] + received_b < Two64
      /\ balance' = [paid EXCEPT ![v]["A"] = @ - swapped_a, ![v]["B"] = @ + received_b]
      /\ balance[v]["A"] - paid[v]["A"] + swapped_a = vault[v].drip_amount
    BY DEF Drip, SwapCompleted
<1> HIDE DEF paid
<1>6. \A w \in Vaults :
         /\ balance[w]["A"] \in Nat /\ paid[w]["A"] \in Nat
         /\ balance[w]["B"] \in Nat /\ paid[w]["B"] = balance[w]["B"]
         /\ w # v => paid[w]["A"] >= balance[w]["A"]
    BY <1>3, <1>4, BalanceNat DEF SpentAtMost
<1>7. paid[v]["A"] - swapped_a \in Amount /\ paid[v]["B"] + received_b \in Amount
    <2>1. paid[v]["A"] \in Amount /\ paid[v]["B"] \in Amount
        BY <1>3, <1>4 DEF Balances
    <2> QED BY <1>2, <1>5, <2>1, CheckedAmounts
<1>8. balance' \in Balances
    BY <1>3, <1>4, <1>5, <1>7 DEF Balances
<1>9. /\ balance'[v]["A"] = paid[v]["A"] - swapped_a
      /\ balance'[v]["B"] = paid[v]["B"] + received_b
      /\ \A w \in Vaults \ {v} : balance'[w] = paid[w]
    BY <1>3, <1>4, <1>5 DEF Balances
<1>10. balance'[v]["A"] = balance[v]["A"] - vault[v].drip_amount
    BY <1>2, <1>5, <1>6, <1>9
<1>11. fee_account \notin VaultAccounts => \A w \in Vaults \ {v} : paid[w] = balance[w]
    BY <1>3, <1>4 DEF Balances
<1> QED BY <1>6, <1>8, <1>9, <1>10, <1>11

\* A drip's checked operations keep the vault, the period and the balances in range.
LEMMA DripType ==
    ASSUME TypeInv, NEW v \in Vaults, NEW last \in PeriodAccounts,
           NEW current \in PeriodAccounts, NEW swap \in Swaps, NEW fee_account,
           NEW swapped_a \in 0 .. SwapAmount(v), NEW received_b \in ReceivedAmounts,
           Drip(v, last, current, swap, fee_account, swapped_a, received_b)
    PROVE  TypeInv'
<1>1. vault' \in [Vaults -> VaultType]
    BY DripRecord DEF Drip, ProcessDrip
<1>2. vault_period' \in [Vaults -> [PeriodIds -> PeriodType]]
    BY PriceRecord DEF Drip, UpdatePeriod
<1>3. balance' \in [Vaults -> [Tokens -> Amount]]
    BY DripSpends DEF Balances
<1>4. \A w \in Vaults : vault'[w].exists => vault[w].exists
    BY DEF Drip, ProcessDrip, TypeInv, TypeOK
<1>5. UNCHANGED <<now, proto_config, position, nft_holder>>
    BY DEF Drip
<1> QED BY <1>1, <1>2, <1>3, <1>4, <1>5 DEF TypeInv, TypeOK, ConfigsValid, Config

-----------------------------------------------------------------------------
(* Withdrawals *)

\* What a valid withdrawal takes out, and what the position has withdrawn then.
LEMMA BeforeFeesType ==
    ASSUME TypeInv, NEW v \in Vaults, NEW p \in Positions,
           NEW i \in PeriodAccounts, NEW j \in PeriodAccounts, ValidWithdrawal(p, v, i, j)
    PROVE  /\ BeforeFees(p, v, i, j) \in Nat
           /\ position[p].withdrawn_token_b_amount + BeforeFees(p, v, i, j) \in Amount
<1> DEFINE max == MaxWithdrawableB(p, v, Data(i).twap, Data(j).twap)
           withdrawn == position[p].withdrawn_token_b_amount
<1>1. /\ position[p] \in PositionType /\ withdrawn \in Nat
      /\ position[p].drip_period_id_before_deposit \in Nat
      /\ position[p].number_of_swaps \in Nat
      /\ position[p].periodic_drip_amount \in Nat
    BY PositionParts DEF TypeInv
<1>2. LastDripOf(p, v) \in Nat
    BY <1>1, VaultParts, BoundAssumption DEF LastDripOf, Expiry, TypeInv, PeriodIds
<1>3. Data(i).twap \in Nat /\ Data(j).twap \in Nat
    BY PeriodAccountType DEF TypeInv, PeriodType, Price
<1>4. /\ Config(v).token_a_drip_trigger_spread \in Nat
      /\ Config(v).token_a_drip_trigger_spread <= Bps
    BY VaultConfigType, BpsAssumption DEF ValidWithdrawal
<1>5. max \in Amount
    BY <1>1, <1>2, <1>3, <1>4, WithdrawTokenBType
       DEF MaxWithdrawableB, ValidWithdrawal, WithdrawalBDefined
<1>6. withdrawn <= max
    BY DEF ValidWithdrawal, WithdrawalBDefined
<1>7. BeforeFees(p, v, i, j) = max - withdrawn
    BY DEF BeforeFees
<1> HIDE DEF max, withdrawn
<1>8. max - withdrawn \in Nat /\ withdrawn + (max - withdrawn) = max
    BY <1>1, <1>5, <1>6, CheckedAmounts
<1> QED BY <1>5, <1>7, <1>8 DEF withdrawn

\* The position a valid withdrawal leaves, closed or not, has its type.
LEMMA WithdrawnRecord ==
    ASSUME TypeInv, NEW v \in Vaults, NEW p \in Positions,
           NEW i \in PeriodAccounts, NEW j \in PeriodAccounts, ValidWithdrawal(p, v, i, j)
    PROVE  /\ [position EXCEPT ![p].withdrawn_token_b_amount = @ + BeforeFees(p, v, i, j)]
                 \in [Positions -> PositionType]
           /\ [position EXCEPT
                 ![p].withdrawn_token_b_amount = @ + BeforeFees(p, v, i, j),
                 ![p].status = "closed"] \in [Positions -> PositionType]
<1> DEFINE b == BeforeFees(p, v, i, j)
           r == [position[p] EXCEPT !.withdrawn_token_b_amount = @ + b]
           c == [position[p] EXCEPT !.withdrawn_token_b_amount = @ + b, !.status = "closed"]
<1>1. position[p].withdrawn_token_b_amount + b \in Amount
    BY BeforeFeesType
<1>2. position[p] \in PositionType
    BY DEF TypeInv, TypeOK
<1> HIDE DEF b
<1>3. r \in PositionType /\ c \in PositionType
    BY <1>1, <1>2 DEF PositionType
<1>4. [position EXCEPT ![p] = r] \in [Positions -> PositionType]
      /\ [position EXCEPT ![p] = c] \in [Positions -> PositionType]
    BY <1>3 DEF TypeInv, TypeOK
<1>5. [position EXCEPT ![p] = c]
         = [position EXCEPT ![p].withdrawn_token_b_amount = @ + b, ![p].status = "closed"]
    BY DEF TypeInv, TypeOK
<1> QED BY <1>4, <1>5 DEF b

\* What a close refunds fits a u64.
LEMMA RefundType ==
    ASSUME TypeOK, NEW p \in Positions, NEW i \in PeriodAccounts, NEW j \in PeriodAccounts,
           WithdrawTokenADefined(i.period_id, j.period_id,
               position[p].number_of_swaps, position[p].periodic_drip_amount)
    PROVE  WithdrawTokenA(i.period_id, j.period_id,
               position[p].number_of_swaps, position[p].periodic_drip_amount) \in Amount
<1> DEFINE a == WithdrawTokenA(i.period_id, j.period_id,
                    position[p].number_of_swaps, position[p].periodic_drip_amount)
           n == position[p].number_of_swaps
           per == position[p].periodic_drip_amount
<1>1. i.period_id \in Nat /\ j.period_id \in Nat /\ i.period_id <= j.period_id /\ a < Two64
    BY PeriodAccountType DEF WithdrawTokenADefined
<1>2. a = IF n <= j.period_id - i.period_id THEN 0
          ELSE (n - (j.period_id - i.period_id)) * per
    BY DEF WithdrawTokenA
<1>3. n \in Nat /\ per \in Nat
    BY PositionParts
<1> HIDE DEF a, n, per
<1>4. a \in Nat
    BY <1>1, <1>2, <1>3
<1>5. a \in Amount
    BY <1>1, <1>4, WidthAssumption DEF Amount
<1> QED BY <1>5 DEF a, n, per

\* What a close's checked subtractions write has its type.
LEMMA ReducedRecords ==
    ASSUME TypeOK, NEW v \in Vaults, NEW p \in Positions, NEW expiry \in PeriodAccounts,
           position[p].periodic_drip_amount <= vault[v].drip_amount,
           position[p].periodic_drip_amount <= Data(expiry).dar
    PROVE  /\ [vault EXCEPT ![v].drip_amount = @ - position[p].periodic_drip_amount]
                 \in [Vaults -> VaultType]
           /\ [vault_period EXCEPT ![expiry.vault][expiry.period_id].dar =
                  @ - position[p].periodic_drip_amount] \in [Vaults -> [PeriodIds -> PeriodType]]
<1> DEFINE per == position[p].periodic_drip_amount
<1>1. per \in Nat
    BY PositionParts
<1>2. vault[v].drip_amount - per \in Amount
    BY <1>1, VaultParts, CheckedAmounts
<1>3. [vault[v] EXCEPT !.drip_amount = @ - per] \in VaultType
    BY <1>2, VaultParts DEF VaultType
<1>4. Data(expiry) \in PeriodType /\ Data(expiry).dar \in Amount
      /\ expiry.vault \in Vaults /\ expiry.period_id \in PeriodIds
    BY PeriodAccountType DEF PeriodType
<1>5. Data(expiry).dar - per \in Amount
    BY <1>1, <1>4, CheckedAmounts
<1>6. [Data(expiry) EXCEPT !.dar = @ - per] \in PeriodType
    BY <1>4, <1>5 DEF PeriodType
<1> QED BY <1>3, <1>4, <1>6, ReplacedRecords DEF Data

\* The three parts of a withdrawal.
LEMMA PayoutParts ==
    ASSUME TypeInv, NEW v \in Vaults, NEW p \in Positions,
           NEW i \in PeriodAccounts, NEW j \in PeriodAccounts, ValidWithdrawal(p, v, i, j)
    PROVE  LET x == BeforeFees(p, v, i, j)
           IN  /\ TreasuryShare(v, x) \in Nat /\ ReferrerShare(v, x) \in Nat
               /\ NetOfFees(v, x) \in Nat
               /\ TreasuryShare(v, x) + NetOfFees(v, x) + ReferrerShare(v, x) = x
<1> DEFINE x == BeforeFees(p, v, i, j)
<1>1. x \in Nat /\ NetOfFees(v, x) >= 0
    BY BeforeFeesType DEF ValidWithdrawal, WithdrawalBDefined, BeforeFees
<1>2. Config(v).token_b_withdrawal_spread \in Nat /\ Config(v).token_b_referral_spread \in Nat
    BY AddressAssumption DEF TypeInv, TypeOK, Config, ConfigType
<1> HIDE DEF x
<1>3. TreasuryShare(v, x) \in Nat /\ ReferrerShare(v, x) \in Nat
    BY <1>1, <1>2, SpreadAmountType DEF TreasuryShare, ReferrerShare
<1>4. NetOfFees(v, x) = x - TreasuryShare(v, x) - ReferrerShare(v, x)
    BY DEF NetOfFees
<1> QED BY <1>1, <1>3, <1>4 DEF x

\* The three transfers of a withdrawal take at most its amount of B from its vault, and
\* nothing from any other, whoever is paid.
LEMMA PaidBFacts ==
    ASSUME TypeInv, NEW v \in Vaults, NEW p \in Positions,
           NEW i \in PeriodAccounts, NEW j \in PeriodAccounts, ValidWithdrawal(p, v, i, j),
           NEW to, CanPayB(v, BeforeFees(p, v, i, j), to)
    PROVE  /\ AfterReferrer(v, BeforeFees(p, v, i, j), to) \in Balances
           /\ SpentAtMost(balance, AfterReferrer(v, BeforeFees(p, v, i, j), to), v, "B",
                          BeforeFees(p, v, i, j))
<1> DEFINE x  == BeforeFees(p, v, i, j)
           b1 == AfterTreasury(v, x, to)
           b2 == AfterHolder(v, x, to)
           b3 == AfterReferrer(v, x, to)
<1>1. /\ TreasuryShare(v, x) \in Nat /\ ReferrerShare(v, x) \in Nat
      /\ NetOfFees(v, x) \in Nat
      /\ TreasuryShare(v, x) + NetOfFees(v, x) + ReferrerShare(v, x) = x
    BY PayoutParts
<1>2. CanPayB(v, x, to)
    OBVIOUS
<1>3. balance \in Balances /\ "B" \in Tokens
    BY DEF TypeInv, TypeOK, Balances, Tokens
<1> HIDE DEF x
<1>4. b1 \in Balances /\ SpentAtMost(balance, b1, v, "B", TreasuryShare(v, x))
    <2>1. CASE TreasuryShare(v, x) > 0
        BY <1>1, <1>2, <1>3, <2>1, PaidFacts DEF CanPayB, AfterTreasury
    <2>2. CASE TreasuryShare(v, x) = 0
        <3>1. b1 = balance
            BY <1>3, <2>2, NothingPaid DEF AfterTreasury
        <3> QED BY <1>3, <2>2, <3>1, UnspentAtMost
    <2> QED BY <1>1, <2>1, <2>2
<1> HIDE DEF b1
<1>5. b2 \in Balances /\ SpentAtMost(b1, b2, v, "B", NetOfFees(v, x))
    BY <1>1, <1>2, <1>3, <1>4, PaidFacts DEF CanPayB, AfterHolder, b1
<1> HIDE DEF b2
<1>6. b3 \in Balances /\ SpentAtMost(b2, b3, v, "B", ReferrerShare(v, x))
    <2>1. CASE ReferrerShare(v, x) > 0
        BY <1>1, <1>2, <1>3, <1>5, <2>1, PaidFacts DEF CanPayB, AfterReferrer, b2
    <2>2. CASE ReferrerShare(v, x) = 0
        <3>1. b3 = b2
            BY <1>3, <1>5, <2>2, NothingPaid DEF AfterReferrer, b2
        <3> QED BY <1>3, <1>5, <2>2, <3>1, UnspentAtMost
    <2> QED BY <1>1, <2>1, <2>2
<1> HIDE DEF b3
<1>7. SpentAtMost(balance, b2, v, "B", TreasuryShare(v, x) + NetOfFees(v, x))
    BY <1>1, <1>3, <1>4, <1>5, SpentInTurn
<1>8. SpentAtMost(balance, b3, v, "B",
                  TreasuryShare(v, x) + NetOfFees(v, x) + ReferrerShare(v, x))
    BY <1>1, <1>3, <1>5, <1>6, <1>7, SpentInTurn
<1> QED BY <1>1, <1>6, <1>8 DEF b3, x

\* A withdrawal keeps every account in range, and so does what it leaves the vault.
LEMMA WithdrawBType ==
    ASSUME TypeInv, NEW v \in Vaults, NEW p \in Positions, NEW withdrawer \in Signers,
           NEW i \in PeriodAccounts, NEW j \in PeriodAccounts,
           WithdrawB(p, v, withdrawer, i, j)
    PROVE  /\ TypeInv'
           /\ SpentAtMost(balance, balance', v, "B", BeforeFees(p, v, i, j))
<1>1. position' \in [Positions -> PositionType]
    BY WithdrawnRecord DEF WithdrawB
<1>2. /\ balance' \in [Vaults -> [Tokens -> Amount]]
      /\ SpentAtMost(balance, balance', v, "B", BeforeFees(p, v, i, j))
    BY PaidBFacts DEF WithdrawB, Balances
<1>3. UNCHANGED <<now, proto_config, vault, vault_period, nft_holder>>
    BY DEF WithdrawB
<1> QED BY <1>1, <1>2, <1>3 DEF TypeInv, TypeOK, ConfigsValid, Config

\* What a close leaves the vaults: its own has lost at most the B withdrawn and the A
\* refunded, and that much A exactly when it is paid to no vault.
LEMMA CloseSpends ==
    ASSUME TypeInv, NEW v \in Vaults, NEW p \in Positions, NEW withdrawer \in Signers,
           NEW i \in PeriodAccounts, NEW j \in PeriodAccounts, NEW expiry \in PeriodAccounts,
           ClosePosition(p, v, withdrawer, i, j, expiry)
    PROVE  LET a == WithdrawTokenA(i.period_id, j.period_id,
                        position[p].number_of_swaps, position[p].periodic_drip_amount)
           IN  /\ balance' \in Balances
               /\ \E paid \in Balances, user_a \in PayoutAccounts :
                    /\ SpentAtMost(balance, paid, v, "B", BeforeFees(p, v, i, j))
                    /\ IF a > 0 THEN /\ CanPay(paid, v, "A", user_a, a)
                                     /\ balance' = Paid(paid, v, "A", user_a, a)
                                ELSE balance' = paid
               /\ \A w \in Vaults :
                    /\ balance'[w]["A"] >= balance[w]["A"] - (IF w = v THEN a ELSE 0)
                    /\ balance'[w]["B"]
                         >= balance[w]["B"] - (IF w = v THEN BeforeFees(p, v, i, j) ELSE 0)
               /\ (\A w \in Vaults : <<w, "A">> \notin Destinations) =>
                    \A w \in Vaults :
                        balance'[w]["A"] = balance[w]["A"] - (IF w = v THEN a ELSE 0)
<1> DEFINE a == WithdrawTokenA(i.period_id, j.period_id,
                    position[p].number_of_swaps, position[p].periodic_drip_amount)
           x == BeforeFees(p, v, i, j)
<1>1. a \in Nat /\ x \in Nat
    BY RefundType, BeforeFeesType, CheckedAmounts DEF ClosePosition, TypeInv
<1>2. PICK to \in PayeesB, user_a \in PayoutAccounts : PaysOut(v, x, a, to, user_a)
    BY DEF ClosePosition
<1> DEFINE paid == AfterReferrer(v, x, to)
<1>3. paid \in Balances /\ SpentAtMost(balance, paid, v, "B", x)
    BY <1>2, PaidBFacts DEF ClosePosition, PaysOut
<1>4. IF a > 0 THEN CanPay(paid, v, "A", user_a, a) /\ balance' = Paid(paid, v, "A", user_a, a)
               ELSE balance' = paid
    BY <1>2 DEF PaysOut
<1>5. "A" \in Tokens /\ "B" \in Tokens /\ "A" # "B" /\ balance \in Balances
    BY DEF Tokens, TypeInv, TypeOK, Balances
<1> HIDE DEF a, x, paid
<1>6. /\ balance' \in Balances /\ SpentAtMost(paid, balance', v, "A", a)
      /\ user_a \notin VaultAccounts =>
            \A w \in Vaults : balance'[w]["A"] = paid[w]["A"] - (IF w = v THEN a ELSE 0)
    <2>1. CASE a > 0
        <3>1. /\ balance' \in Balances /\ SpentAtMost(paid, balance', v, "A", a)
              /\ user_a \notin VaultAccounts => balance' = [paid EXCEPT ![v]["A"] = @ - a]
            BY <1>1, <1>3, <1>4, <1>5, <2>1, PaidFacts
        <3>2. \A w \in Vaults : paid[w]["A"] \in Nat
            BY <1>3, <1>5, BalanceNat
        <3>3. balance' = [paid EXCEPT ![v]["A"] = @ - a] =>
                 \A w \in Vaults : balance'[w]["A"] = IF w = v THEN paid[w]["A"] - a
                                                                ELSE paid[w]["A"]
            BY <1>3, <1>5 DEF Balances
        <3> QED BY <3>1, <3>2, <3>3
    <2>2. CASE a = 0
        <3>1. balance' = paid
            BY <1>4, <2>2
        <3>2. \A w \in Vaults : paid[w]["A"] \in Nat
            BY <1>3, <1>5, BalanceNat
        <3> QED BY <1>3, <1>5, <2>2, <3>1, <3>2, UnspentAtMost
    <2> QED BY <1>1, <2>1, <2>2
<1>7. \A w \in Vaults :
         /\ paid[w]["A"] = balance[w]["A"] /\ balance[w]["A"] \in Nat
         /\ balance'[w]["B"] = paid[w]["B"] /\ balance[w]["B"] \in Nat
         /\ paid[w]["B"] >= balance[w]["B"] - (IF w = v THEN x ELSE 0)
         /\ balance'[w]["A"] >= paid[w]["A"] - (IF w = v THEN a ELSE 0)
    BY <1>3, <1>5, <1>6, BalanceNat DEF SpentAtMost
<1>8. ASSUME \A w \in Vaults : <<w, "A">> \notin Destinations
      PROVE  \A w \in Vaults : balance'[w]["A"] = balance[w]["A"] - (IF w = v THEN a ELSE 0)
    <2>1. CASE a > 0
        <3>1. user_a \in VaultAccounts => user_a[2] = "A"
            BY <1>4, <2>1 DEF CanPay
        <3>2. user_a \in VaultAccounts => user_a = <<user_a[1], user_a[2]>> /\ user_a[1] \in Vaults
            BY DEF VaultAccounts
        <3>3. user_a \notin VaultAccounts
            BY <1>8, <3>1, <3>2 DEF PayoutAccounts
        <3> QED BY <1>6, <1>7, <3>3
    <2>2. CASE a = 0
        BY <1>4, <1>7, <2>2
    <2> QED BY <1>1, <2>1, <2>2
<1> QED BY <1>3, <1>4, <1>6, <1>7, <1>8 DEF a, x

\* A close's checked subtractions keep drip_amount, dar and the balances in range.
LEMMA ClosePositionType ==
    ASSUME TypeInv, NEW v \in Vaults, NEW p \in Positions, NEW withdrawer \in Signers,
           NEW i \in PeriodAccounts, NEW j \in PeriodAccounts, NEW expiry \in PeriodAccounts,
           ClosePosition(p, v, withdrawer, i, j, expiry)
    PROVE  TypeInv'
<1>3. position' \in [Positions -> PositionType]
    BY WithdrawnRecord DEF ClosePosition
<1>5. balance' \in [Vaults -> [Tokens -> Amount]]
    BY CloseSpends DEF Balances
<1>6. /\ vault' \in [Vaults -> VaultType]
      /\ vault_period' \in [Vaults -> [PeriodIds -> PeriodType]]
      /\ \A w \in Vaults : vault'[w].exists => vault[w].exists
    <2>1. CASE j.period_id < expiry.period_id
        <3> DEFINE per == position[p].periodic_drip_amount
        <3>1. /\ per <= vault[v].drip_amount
              /\ per <= Data(expiry).dar
              /\ vault' = [vault EXCEPT ![v].drip_amount = @ - per]
              /\ vault_period' =
                    [vault_period EXCEPT ![expiry.vault][expiry.period_id].dar = @ - per]
            BY <2>1 DEF ClosePosition, ReduceDrip
        <3>2. /\ vault' \in [Vaults -> VaultType]
              /\ vault_period' \in [Vaults -> [PeriodIds -> PeriodType]]
            BY <3>1, ReducedRecords DEF TypeInv
        <3> HIDE DEF per
        <3>3. \A w \in Vaults : vault'[w].exists => vault[w].exists
            BY <3>1 DEF TypeInv, TypeOK
        <3> QED BY <3>2, <3>3
    <2>2. CASE ~ (j.period_id < expiry.period_id)
        BY <2>2 DEF ClosePosition, ReduceDrip, TypeInv, TypeOK
    <2> QED BY <2>1, <2>2
<1>7. nft_holder' \in [Positions -> Signers \cup {NoHolder}]
    BY DEF ClosePosition, TypeInv, TypeOK
<1>8. UNCHANGED <<now, proto_config>>
    BY DEF ClosePosition
<1> QED BY <1>3, <1>5, <1>6, <1>7, <1>8 DEF TypeInv, TypeOK, ConfigsValid, Config

-----------------------------------------------------------------------------
(* The type invariant *)

\* Every instruction keeps the types: one case per action of Next.
LEMMA StepType == TypeInv /\ [Next]_vars => TypeInv'
<1> SUFFICES ASSUME TypeInv, [Next]_vars
             PROVE  TypeInv'
    OBVIOUS
<1>1. ASSUME NEW c \in Configs, NEW params \in ConfigParams, InitVaultProtoConfig(c, params)
      PROVE  TypeInv'
    BY <1>1, SetUpTypes
<1>2. ASSUME NEW v \in Vaults, NEW k \in PeriodIds, InitVaultPeriod(v, k)
      PROVE  TypeInv'
    BY <1>2, SetUpTypes
<1>3. ASSUME NEW v \in Vaults, DripStep(v)
      PROVE  TypeInv'
    BY <1>3, DripType DEF DripStep
<1>4. ASSUME NEW p \in Positions, NEW v \in Vaults, DepositStep(p, v)
      PROVE  TypeInv'
    BY <1>4, DepositType DEF DepositStep
<1>5. ASSUME NEW p \in Positions, NEW v \in Vaults, WithdrawBStep(p, v)
      PROVE  TypeInv'
    BY <1>5, WithdrawBType DEF WithdrawBStep
<1>6. ASSUME NEW p \in Positions, NEW v \in Vaults, ClosePositionStep(p, v)
      PROVE  TypeInv'
    BY <1>6, ClosePositionType DEF ClosePositionStep
<1>7. ASSUME NEW v \in Vaults, AdminStep(v)
      PROVE  TypeInv'
    BY <1>7, SetUpTypes, OtherTypes DEF AdminStep, WithdrawA, AdminWithdraw, Tokens
<1>8. ASSUME NEW p \in Positions, NEW to \in Users, TransferNft(p, to)
      PROVE  TypeInv'
    BY <1>8, OtherTypes
<1>9. ASSUME Tick \/ UNCHANGED vars
      PROVE  TypeInv'
    BY <1>9, OtherTypes
<1> QED BY <1>1, <1>2, <1>3, <1>4, <1>5, <1>6, <1>7, <1>8, <1>9 DEF Next

\* The accounts always hold what their Rust types can hold: no drip, deposit or
\* withdrawal that passes the program's checks drives an amount, a price or a
\* period id out of range, for any number of vaults, positions and periods.
THEOREM TypeCorrect == Spec => []TypeOK
<1>1. Init => TypeInv
    BY InitType
<1>2. TypeInv /\ [Next]_vars => TypeInv'
    BY StepType
<1>3. TypeInv => TypeOK
    BY DEF TypeInv
<1> QED BY <1>1, <1>2, <1>3, PTL DEF Spec
=============================================================================
