\* Three messages for one entry; a small name stands for each string.
CONSTANTS
    Documents <- MCDocuments
    Messages <- MCMessages
    Receivers <- MCReceivers
    TopicMatches <- MCTopicMatches
    LongKeys = {}
    Setup = setup
    Idle = idle
SPECIFICATION Spec
INVARIANTS TypeOK FaithfulDelivery StuckOnlyIfRaced WorkNeverLost
PROPERTIES WorkIsHandled
\* The program has no next step once its behaviour is undefined.
CHECK_DEADLOCK FALSE
