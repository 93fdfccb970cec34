SPECIFICATION Spec
CONSTANTS
    DAC_WAIT_BETWEEN_CMD = 3
    DAC_SS_WAIT = 1
    PosMod = 16
    SampleMod = 4
    ADCNUM = 3
    FIFO_DEPTH = 1
    ParamSets <- MCParamSets
    Origins <- MCOrigins
    SCANS = 2
INVARIANTS
    RasterTypeOK
    SingleStep
    EveryPoint
    ParamsKept
    AbortIsClean
PROPERTIES
    ScanEnds
