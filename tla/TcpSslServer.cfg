\* One address: handlers share nothing but the manager and the timers.
CONSTANTS
    Handlers = {h1}
    MaxPosted = 6
    MaxWriting = 2
SPECIFICATION Spec
INVARIANTS TypeOK ClosedOnce DanglingOnlyIfRisky
PROPERTY StalledHandshakeEnds
\* The process may crash, and a handler that is never deleted uses up its address.
CHECK_DEADLOCK FALSE
