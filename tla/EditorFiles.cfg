SPECIFICATION Spec
CONSTANTS
    a = a
    b = b
    c1 = c1
    c2 = c2
    c3 = c3
    NoPath = NoPath
    NoInode = NoInode
    Paths <- MCPaths
    Calls <- MCCalls
    MaxEdits = 1
SYMMETRY Alike
INVARIANTS NoCrossWrite SaveIsWhole
