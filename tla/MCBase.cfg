SPECIFICATION Spec
CONSTANTS
    DAC_SS_WAIT = 2
    ADC_CONV_WAIT = 3
    MaxShift = 2
    Pace = 4
    DacVals = {0, 1}
INVARIANT
    AnswersAreOwn
PROPERTIES
    OwnFramesWhole
    CommandsInOrder
