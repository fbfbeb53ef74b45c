\* Two callers, three data messages and two exit messages of theirs.
CONSTANTS
    Callers = {c1, c2}
    Data = {d1, d2, d3}
    ClientExits = {x1, x2}
    DtorExit = dx
    NoMessage = none
SPECIFICATION Spec
INVARIANTS TypeOK FifoDelivery NoLostWakeup FreedOnce JoinedMeansDrained
PROPERTIES ImplementsTaskQueue AcceptedIsHandled DtorReturns
