SPECIFICATION BuildSpec
CONSTANTS
    Helpers <- MCHelpers
    MaxUnits <- MCOneUnit
    Products <- MCProducts
    DefaultGoal <- MCDefaultGoal
INVARIANTS KillReachesTree StatusIsEarned TreeIsReported
 
