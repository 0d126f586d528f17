SPECIFICATION ShellSpec
CONSTANTS
    Commands <- MCCommands
    Kind <- MCKind
    MaxCancels = 2
INVARIANTS CancelIsTruthful
PROPERTIES LateCancelIsRefused DetectStops
