CONSTANTS
    r1 = r1
    r2 = r2
    x = x
    y = y
    Requests = {r1, r2}
    Ids = {x, y}
    Choices <- MCChoices
    MaxReads = 2
SPECIFICATION Spec
INVARIANTS   LiveIsExact
PROPERTIES RequestsReturn
