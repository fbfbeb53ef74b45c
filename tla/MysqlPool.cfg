\* Two threads that compete for three connectors.
CONSTANTS
    Connectors = {k1, k2, k3}
    Threads = {t1, t2}
    Nobody = nobody
SPECIFICATION Spec
INVARIANTS TypeOK OneBorrower NullIsMarked
PROPERTIES HeartbeatAlone Reconnected
\* The process stops when it crashes.
CHECK_DEADLOCK FALSE
