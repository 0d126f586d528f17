--------------------------- MODULE MCBuildBackend ---------------------------
(* BuildBackend for TLC: make may fork one child.                            *)
EXTENDS BuildBackend

MCHelpers == {"helper"}

\* One unit of output; what chunking does to more is checked in MCRunProcess.
MCOneUnit == [serial |-> 1, emulator |-> 0]

\* The default goal builds the kernel; the image takes a target of its own.
MCProducts == {"elf", "iso"}
MCDefaultGoal == {"elf"}

=============================================================================
