\* Two nodes, two terms, two connections each way, two faults: conversations that span
\* elections, and peers that connect to each other at once.
CONSTANTS
    Node = {a, b}
    None = None
    MaxTerm = 2
    MaxConn = 2
    MaxOut = 3
    MaxFault = 2
SPECIFICATION Spec
SYMMETRY Symmetry
CHECK_DEADLOCK FALSE
INVARIANTS RivalsByDiscard TwiceByDiscard TallySound FollowerHasNoVotes RaspHasRequest ToldIsDurable CurrentConn
PROPERTIES ElectionRefined TermNeverGoesBack
