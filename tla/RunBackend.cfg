SPECIFICATION LaunchSpec
CONSTANTS
    Helpers <- MCNoHelpers
    MaxUnits <- MCTwoLines
    FaultLines <- MCFaultLines
    MaxFaultEvents = 1
INVARIANTS DiskBeforeEvent ReasonIsEarned
PROPERTIES StreamIsWellFormed EveryRunIsAnnounced
