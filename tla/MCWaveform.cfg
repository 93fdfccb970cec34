SPECIFICATION Spec
CONSTANTS
    WORD_AMNT = 2
    CounterMod = 4
    start_addr = 4
    RAM_WORD_INCR = 2
    AddrMod = 32
    DELAY_TOTAL = 1
    Generations <- MCGenerations
    Times <- MCTimes
    DAC_SS_WAIT = 1
INVARIANTS PlayedInOrder StopsBetweenWords
PROPERTIES Responds
