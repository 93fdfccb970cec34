SPECIFICATION Spec
CONSTANTS
    READ_DAC_DELAY = 5
    DAC_SS_WAIT = 5
    ADC_CONV_WAIT = 1
    CountMod = 2
    DacVals = {0, 1}
    ParamSets <- MCParamSets
    Rules = {"rewrite", "request"}
INVARIANTS
    TracksDac
