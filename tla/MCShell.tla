------------------------------ MODULE MCShell ------------------------------
(* Shell for TLC: a build, a run and a detection, side by side. *)
EXTENDS Shell

MCCommands == {"b", "r", "d"}
MCKind == [b |-> "build", r |-> "run", d |-> "detect"]

=============================================================================
