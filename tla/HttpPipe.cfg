\* Two requests on one connection.
SPECIFICATION Spec
CONSTANTS
    Conn = {c1}
    MaxReq = 2
INVARIANTS QueueAssert
CHECK_DEADLOCK FALSE
