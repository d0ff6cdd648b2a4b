CONSTANTS
    v1 = v1  v2 = v2  c1 = c1  c2 = c2  u1 = u1  u2 = u2  adm = adm  s1 = s1  s2 = s2  elsewhere = elsewhere
    u1_a = u1_a  u1_b = u1_b  u2_b = u2_b  adm_a = adm_a  adm_b = adm_b
    s1_a = s1_a  s1_b = s1_b  s2_a = s2_a  s2_b = s2_b
    Two64 <- MCTwo64
    Bps = 10000
    MaxSpread = 5000
    Vaults = {v1}
    Configs = {c1}
    ConfigOf <- OneConfig
    NumPositions = 2
    LegacyPositions = {}
    UpgradedVaults = {v1}
    Users = {u1}
    Signers = {u1, adm}
    NoHolder = NoHolder
    Swaps = {s1, s2}
    DefaultKey = DefaultKey
    WhitelistSize = 2
    MaxPeriod = 1
    ConfigParams <- WithDripSpread
    WhitelistParams <- SomeWhitelists
    DepositAmounts = {4}
    SwapCounts = {1}
    ReceivedAmounts = {2}
    AdminTakes = {"A"}
    Destinations <- AnyButPool
    StartTimes = {0}
    MaxIdle = 0
    Wallets = {u1_a, u1_b, adm_b, s2_a, s2_b}
    WalletToken <- MCWalletToken
    WalletOwner <- MCWalletOwner
    TreasuryOf <- MCTreasuryOf
    Whirlpools = {s2}
    FirstTokenOf <- ReversedWhirlpool
    InitialWallet <- MCInitialWallet
    NoAuthority = NoAuthority
SPECIFICATION InstructionSpec
INVARIANTS
    CallsSucceed
    NftsMintedOnce
PROPERTIES
    InstructionsAtomic
    OnlyListedPoolsTrade
