-------------------------------- MODULE Jobs --------------------------------
(* The parameters of the parts that take one job and finish it, and the job they are at: *)
(* what the modules of Inspection and of Workbench share.                                *)
EXTENDS Naturals

CONSTANTS
    VirtualAddresses, Entries, RamFrames,           \* of PageWalk
    Slots, Gates, MaxSlots, MaxGates, MaxVector,    \* of Descriptors
    MaxReportLines, MaxPages, MaxPairs, MaxCount,   \* of MonitorText
    Top, SourceLines, MaxFrames, Capacity, MaxChanges,  \* of Symbols
    StreamBlocks, Bodies,                           \* of Framing
    MaxUnits, MaxFaults,                            \* of CliPump
    Tokens, MaxTokens, Dirs, MaxItems,              \* of CommandLine
    MaxLines, MaxParts,                             \* of OutputText
    Names, MaxDepth, MaxFiles,                      \* of ProjectFiles
    MaxWrites, MaxRows,                             \* of EventContract
    MaxEvents, MaxAsks, Sections, Projects,         \* of FrontEnd
    Hosts, Pins, Slashed,                           \* of Toolchain
    Calls, MaxCalls, BuildFiles, ConfigLines, MaxConfigLines    \* of CompileDatabase

\* There is a last vector.
ASSUME VectorsAreNumbers == MaxVector \in Nat

\* Addresses and frames are counted, and HexReader::new keeps a window at least.
ASSUME AddressesAreBounded == Top \in Nat
ASSUME FramesAreBounded == MaxFrames \in Nat
ASSUME WindowsAreKept == Capacity \in Nat \ {0}

\* A file of a host is a pair of its place and its name: <<>>, for no file, is none of them.
ASSUME HostsHaveFiles == \A host \in Hosts : <<>> \notin DOMAIN host

VARIABLE job
=============================================================================
