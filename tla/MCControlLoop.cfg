SPECIFICATION Spec
CONSTANTS
    READ_DAC_DELAY = 3
    DAC_SS_WAIT = 1
    ADC_CONV_WAIT = 1
    CountMod = 2
    DacVals = {0, 1}
    ParamSets <- MCParamSets
    Rules = {"rewrite", "request", "start"}
INVARIANTS
    LoopTypeOK
    TracksDac
    HistoryMatchesParams
    AckMeansAppliedInSession
    CyclesArePeriod
PROPERTIES
    ReleaseAtTheEnd
    OperandsStable
    AppliedOnce
    LoopNeverStalls
    ChangeIsMade
