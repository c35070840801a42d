\* An event pushed before u2_egz_init.
SPECIFICATION Spec
CONSTANTS
    MaxEnt = 2
    BootOva = 1
    MaxFail = 0
    HeadWords = 6
    EntryWords = 9
INVARIANT Tracked
