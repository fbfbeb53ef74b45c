\* Two service threads; callers may retire one or both of them before the
\* destructor does. The destructor can wait for ever, so the system can stop.
CONSTANTS
    Threads = {t1, t2}
    Callers = {c1, c2}
    Data = {d1, d2}
    ClientExits = {x1, x2}
    DtorExit = dx
    NoMessage = none
SPECIFICATION Spec
INVARIANTS TypeOK ExitBranchDead RetiredOneByOne NoSleeperBesideWork HandledByOneThread
PROPERTIES ImplementsTaskQueue JoinReturnsWithEnoughExits
CHECK_DEADLOCK FALSE
