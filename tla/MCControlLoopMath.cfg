SPECIFICATION Spec
CONSTANTS
    CONSTS_FRAC = 1
    CONSTS_SIZ = 3
    ADC_WID = 2
    CYCLE_COUNT_WID = 2
    DAC_WID = 3
    SEC_PER_CYCLE = 1
    ADC_TO_DAC = 3
    Gains <- MCGains
    Setpoint = 0
    Samples <- MCSamples
    Periods = {3}
    Settings = {0}
INVARIANTS
    FactorsCurrent
    ProductExact
    ResultIsRight
    BenchAgrees
PROPERTIES
    MathContract
