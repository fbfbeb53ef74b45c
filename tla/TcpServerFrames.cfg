\* One connection and two messages.
CONSTANTS
    Handlers = {h1}
    Packages = {p1, p2}
    MaxClients = 1
    MaxPosted = 3
SPECIFICATION Spec
INVARIANT FramesIntact
