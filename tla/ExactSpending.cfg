CONSTANTS
    v1 = v1  v2 = v2  c1 = c1  c2 = c2  u1 = u1  u2 = u2  adm = adm  s1 = s1  s2 = s2  elsewhere = elsewhere
    Two64 <- MCTwo64
    Bps = 10000
    MaxSpread = 5000
    Vaults = {v1}
    Configs = {c1}
    ConfigOf <- OneConfig
    NumPositions = 2
    LegacyPositions = {}
    UpgradedVaults = {v1}
    Users = {u1, u2}
    Signers = {u1, u2, adm}
    NoHolder = NoHolder
    Swaps = {s1}
    DefaultKey = DefaultKey
    WhitelistSize = 1
    MaxPeriod = 3
    ConfigParams <- WithDripSpread
    WhitelistParams <- NoWhitelist
    DepositAmounts = {4, 7}
    SwapCounts = {1, 2, 3}
    ReceivedAmounts = {0, 2}
    AdminTakes = {}
    Destinations <- Outside
    StartTimes = {0}
    MaxIdle = 0
SPECIFICATION Spec
INVARIANTS
    TokenAExact
