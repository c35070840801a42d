\* Three nodes, one term, a crash and a restart: the vote a node cast before it.
CONSTANTS
    Node = {a, b, c}
    None = None
    MaxTerm = 1
    MaxConn = 1
    MaxOut = 2
    MaxFault = 1
SPECIFICATION Spec
SYMMETRY Symmetry
CHECK_DEADLOCK FALSE
INVARIANT VotePersists
