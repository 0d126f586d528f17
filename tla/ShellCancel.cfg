SPECIFICATION ShellSpec
CONSTANTS
    Commands <- MCCommands
    Kind <- MCKind
    MaxCancels = 2
PROPERTIES CancelStops
