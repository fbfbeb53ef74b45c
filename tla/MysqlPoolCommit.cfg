\* One transaction and a server that goes down before the commit.
CONSTANTS
    Connectors = {k1}
    Threads = {t1}
    Nobody = nobody
SPECIFICATION Spec
INVARIANT TrueMeansCommitted
CHECK_DEADLOCK FALSE
