SPECIFICATION Spec
CONSTANTS
    MaxAttach = 2
    MaxCalls = 3
CHECK_DEADLOCK FALSE
INVARIANTS ReportsMatch NothingLeftBehind 
 
