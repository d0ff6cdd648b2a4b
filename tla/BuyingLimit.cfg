CONSTANTS
    Bps = 10000
    MinSqrtPrice = 20000
    MaxSqrtPrice = 20020
    SlippageParams = {2, 3}
    MaxPeriod = 1
SPECIFICATION Spec
INVARIANTS
    BuyingHasRoom
