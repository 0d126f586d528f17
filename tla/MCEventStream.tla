--------------------------- MODULE MCEventStream ---------------------------
(* EventStream for TLC: a build and a run, side by side. *)
EXTENDS EventStream

MCOps == {"op1", "op2"}
MCDomain == [op1 |-> "build", op2 |-> "run"]

=============================================================================
