\* Two events, before and after u2_egz_init, and an append that fails.
SPECIFICATION FairSpec
CONSTANTS
    MaxEnt = 2
    BootOva = 2
    MaxFail = 1
    HeadWords = 6
    EntryWords = 9
INVARIANTS NoFatal NothingLost DurableAtRest LogInv
PROPERTIES LogRefined Consolidated
