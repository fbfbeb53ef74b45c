\* Two handlers: the connection and, while the last one dies, its successor.
CONSTANTS
    Handlers = {h1, h2}
    Packages = {p1}
    RetryDelays = {0, 1}
    MaxRetryDelay = 3
    NoHandler = nohandler
    MaxPosted = 3
SPECIFICATION Spec
INVARIANTS TypeOK OneConnection HeartjumpOnLiveHandler
PROPERTY ConnectsAgain
\* The client may give up or crash.
CHECK_DEADLOCK FALSE
