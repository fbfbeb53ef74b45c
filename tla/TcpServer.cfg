\* Two handlers, so that one connection can outlive another, one send buffer.
CONSTANTS
    Handlers = {h1, h2}
    Packages = {p1}
    MaxClients = 2
    MaxPosted = 2
SPECIFICATION Spec
INVARIANTS TypeOK NoDanglingHandler ClosedOnce ClosedSocket BufferOwnedOnce
PROPERTIES SilentIsClosed ClosedIsDrained
