SPECIFICATION Spec
CONSTANTS
    Bridges <- MCBridges
    Nobody = Nobody
    Messages <- MCMessages
    Capacity = 1
CHECK_DEADLOCK FALSE
INVARIANTS NoOrphans HearsItsServer
PROPERTIES DeafOnceStopped CallsAreAnswered
