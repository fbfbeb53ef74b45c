\* Two service threads, nobody but the destructor sends exit messages.
CONSTANTS
    Threads = {t1, t2}
    Callers = {c1}
    Data = {d1}
    ClientExits = {}
    DtorExit = dx
    NoMessage = none
SPECIFICATION Spec
PROPERTY DtorReturns
CHECK_DEADLOCK FALSE
