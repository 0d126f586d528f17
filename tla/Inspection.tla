----------------------------- MODULE Inspection -----------------------------
(***************************************************************************)
(* What is shown of the debugged machine and of an artifact: a walk of the *)
(* page tables, the descriptor tables, the reports of the monitor, and the *)
(* lines, symbols, frames and bytes of an ELF file.  Each module beside    *)
(* this one models one of them and holds its job in `job'; here they share *)
(* it, so that one run checks them all.  A step of one module is never     *)
(* enabled by the job of another: the kinds of jobs are disjoint.          *)
(***************************************************************************)
EXTENDS Jobs, Sequences

Pages    == INSTANCE PageWalk WITH Addresses <- VirtualAddresses
Tables   == INSTANCE Descriptors
Monitor  == INSTANCE MonitorText WITH MaxLines <- MaxReportLines
Artifact == INSTANCE Symbols WITH Lines <- SourceLines

\* An entry and an address are words of the machine.
ASSUME EntriesAreWords == \A entry \in Entries : entry.to \in Pages!Words
ASSUME AddressesAreWords == VirtualAddresses \subseteq Pages!Words

\* A slot that holds zero holds no segment, and its type is the reserved type 0.
ASSUME SlotsAreWords ==
    /\ Slots \subseteq [s : BOOLEAN, type : Tables!Types, zero : BOOLEAN]
    /\ \A slot \in Slots : slot.zero => ~slot.s /\ slot.type = 0

InspectionInit == Pages!Init \/ Tables!Init \/ Monitor!Init \/ Artifact!Init
InspectionNext == Pages!Next \/ Tables!Next \/ Monitor!Next \/ Artifact!Next
InspectionSpec == InspectionInit /\ [][InspectionNext]_job

-----------------------------------------------------------------------------
\* What the debugged machine holds is read as the processor reads it: a walk gives the
\* processor's translation over present tables in memory, and a hole that is shown is where
\* the path shown leads (pagetable.rs); a descriptor is read at the slot it begins in
\* (descriptor.rs); a line of the monitor is understood or refused (monitor.rs).
MachineIsRead ==
    /\ Pages!WalkIsTranslation /\ Pages!HoleIsExplained
    /\ Tables!TablesAreRead
    /\ Monitor!MonitorIsUnderstood

\* The views of an artifact agree with it and with each other (source.rs, symbol.rs, hex.rs).
ArtifactIsShown == Artifact!ArtifactIsShown
=============================================================================
