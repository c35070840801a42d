\* A message librdkafka refuses.
SPECIFICATION Spec
CONSTANTS
    MaxEnt = 1
    MaxWrites = 2
    Partition = {p0}
    Zero = p0
INVARIANT EmittedAfterLog
CHECK_DEADLOCK FALSE
