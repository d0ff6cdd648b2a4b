CONSTANTS
    v1 = v1  v2 = v2  c1 = c1  c2 = c2  u1 = u1  u2 = u2  adm = adm  s1 = s1  s2 = s2  elsewhere = elsewhere
    Two64 <- MCTwo64
    Bps = 10000
    MaxSpread = 5000
    Vaults = {v1, v2}
    Configs = {c1, c2}
    ConfigOf <- TwoConfigs
    NumPositions = 3
    LegacyPositions = {1}
    UpgradedVaults = {v1}
    Users = {u1}
    Signers = {u1, adm}
    NoHolder = NoHolder
    Swaps = {s1}
    DefaultKey = DefaultKey
    WhitelistSize = 1
    MaxPeriod = 2
    ConfigParams <- GoodAndBadParams
    WhitelistParams <- TooLongWhitelist
    DepositAmounts = {2}
    SwapCounts = {1}
    ReceivedAmounts = {1}
    AdminTakes = {"B"}
    Destinations <- OrSecondVault
    StartTimes = {0}
    MaxIdle = 0
SPECIFICATION Spec
INVARIANTS
    DrippedPeriodsExist
PROPERTIES
    VaultsIsolated
    RecordedPricesFinal
