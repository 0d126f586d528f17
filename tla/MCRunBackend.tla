---------------------------- MODULE MCRunBackend ----------------------------
(* RunBackend for TLC.  The machine is the leader alone: what descendants do *)
(* to the runner is checked in MCRunProcess, the backend never sees them.    *)
EXTENDS RunBackend

MCNoHelpers == {}

\* Two serial lines that report a fault, the first of which may come in two
\* halves.  The emulator's own output stays empty; its pipe is open.
MCTwoLines == [serial |-> 3, emulator |-> 0]

MCFaultLines == {<<1, 2>>, <<3, 3>>}

=============================================================================
