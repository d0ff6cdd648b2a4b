CONSTANTS
    Bps = 100
    MinSqrtPrice = 3
    MaxSqrtPrice = 120
    SlippageParams <- AllSlippages
    MaxPeriod = 1
SPECIFICATION Spec
INVARIANTS
    TypeOK
    SlippageUsable
PROPERTIES
    DripsWithinSlippage
