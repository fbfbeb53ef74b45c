\* One connector that cannot be connected is enough.
CONSTANTS
    Connectors = {k1}
    Threads = {t1}
    Nobody = nobody
SPECIFICATION Spec
INVARIANT FailureIsReported
CHECK_DEADLOCK FALSE
