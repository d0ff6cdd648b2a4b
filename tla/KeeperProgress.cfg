CONSTANTS
    v1 = v1  v2 = v2  c1 = c1  c2 = c2  u1 = u1  u2 = u2  adm = adm  s1 = s1  s2 = s2  elsewhere = elsewhere
    Two64 <- MCTwo64
    Bps = 10000
    MaxSpread = 5000
    Vaults = {v1}
    Configs = {c1}
    ConfigOf <- OneConfig
    NumPositions = 2
    LegacyPositions = {}
    UpgradedVaults = {v1}
    Users = {u1}
    Signers = {u1, adm}
    NoHolder = NoHolder
    Swaps = {s1, s2}
    DefaultKey = DefaultKey
    WhitelistSize = 2
    MaxPeriod = 3
    ConfigParams <- TwoSeconds
    WhitelistParams <- SomeWhitelists
    DepositAmounts = {2}
    SwapCounts = {1, 2}
    ReceivedAmounts = {1}
    AdminTakes = {"A"}
    Destinations <- Outside
    StartTimes = {1}
    MaxIdle = 3
SPECIFICATION FairSpec
INVARIANTS
    OneDripPerWindow
PROPERTIES
    PositionsComplete
