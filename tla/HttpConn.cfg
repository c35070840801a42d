\* Three requests on each of two connections, pipelined or not.
SPECIFICATION Spec
CONSTANTS
    Conn = {c1, c2}
    MaxReq = 3
INVARIANTS NothingReadyWaits ResponsesInOrder ClosedOnce FlushedOrThud
CHECK_DEADLOCK FALSE
