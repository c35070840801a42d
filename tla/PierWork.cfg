\* Two events, planned at boot or later, with the log threads.
SPECIFICATION PierSpec
CONSTANTS
    MaxEnt = 2
    BootOva = 2
    MaxFail = 0
    HeadWords = 6
    EntryWords = 9
CHECK_DEADLOCK FALSE
INVARIANTS
    ReplayGivesWorld
    AppliedInOrder
    CheckpointIsReplay
