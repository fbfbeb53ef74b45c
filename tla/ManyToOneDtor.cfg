\* One caller that puts an exit message before the owner destroys the task.
CONSTANTS
    Callers = {c1}
    Data = {d1, d2}
    ClientExits = {x1}
    DtorExit = dx
    NoMessage = none
SPECIFICATION Spec
INVARIANT DtorBlocksUntilExit
