SPECIFICATION Spec
CONSTANTS
    Ops <- MCOps
    Domain <- MCDomain
    MaxLogs = 1
    RingCapacity = 3
    MaxReloads = 1
INVARIANTS LossIsCounted ReplayIsComplete
 
