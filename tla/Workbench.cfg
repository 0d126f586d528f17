SPECIFICATION AllSpec
CONSTANTS
    VirtualAddresses = {6, 13, 119, 127}
    Entries <- MCEntries
    RamFrames = 7
    Slots <- MCSlots
    Gates <- MCGates
    MaxSlots = 4
    MaxGates = 3
    MaxVector = 1
    MaxReportLines = 3
    MaxPages = 4
    MaxPairs = 2
    MaxCount = 11
    Top = 4
    SourceLines = {l1, l2}
    MaxFrames = 3
    Capacity = 2
    MaxChanges = 2
    StreamBlocks <- MCBlocks
    Bodies <- MCBodies
    MaxUnits = 4
    MaxFaults = 1
    Tokens <- MCTokens
    MaxTokens = 4
    Dirs = {"a", "b", "c"}
    MaxItems = 4
    MaxLines = 4
    MaxParts = 5
    Names = {"a", "b", "c"}
    MaxDepth = 4
    MaxFiles = 3
    MaxWrites = 4
    MaxRows = 4
    MaxEvents = 2
    MaxAsks = 2
    Sections = {"attach", "breakpoints", "registers"}
    Projects = {p, q}
    Hosts <- MCHosts
    Pins <- MCPins
    Slashed = {"./cc"}
    Calls <- MCCalls
    MaxCalls = 2
    BuildFiles = {"main.c", "util.c", "util.h", "boot.S", "kernel.o", "link.ld"}
    ConfigLines <- MCConfigLines
    MaxConfigLines = 4
INVARIANTS
    MachineIsRead
    ArtifactIsShown
    
    OutputIsUnderstood
    
    WindowIsConsistent
    
\* A job is done when it is done.
CHECK_DEADLOCK FALSE
