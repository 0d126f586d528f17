SPECIFICATION Spec
CONSTANTS
    Helpers <- MCHelpers
    MaxUnits <- MCBothPipes
INVARIANTS NothingLost NoSurvivors
PROPERTIES UnexplainedKillIsHarmless PipesAreLossless
