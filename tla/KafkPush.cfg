SPECIFICATION LiveSpec
CONSTANTS
    MaxEnt = 3
    MaxWrites = 7
    Partition = {p0}
    Zero = p0
INVARIANTS PostHasPre PreInOrder EmittedUnlessRefused RestartOffset PullsNewest
PROPERTIES Finished
CHECK_DEADLOCK FALSE
