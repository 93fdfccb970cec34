SPECIFICATION LinkSpec
CONSTANTS
    WID = 3
    SS_WAIT = 1
    Modes <- MCModes
    Words <- MCWords
INVARIANTS
    LinkTypeOK
    MasterReceives
    SlaveReceives
    ClockQuiet
    FinishedIsFresh
PROPERTIES
    FramesAreWhole
    Contract
