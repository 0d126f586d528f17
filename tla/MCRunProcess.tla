---------------------------- MODULE MCRunProcess ----------------------------
(* RunProcess for TLC: one descendant beside the leader. *)
EXTENDS RunProcess

MCHelpers == {"helper"}

\* Two units of serial output, so that it can be split over chunks; for
\* liveness and for the claims that fail, one.
MCBothPipes == [serial |-> 2, emulator |-> 1]
MCOneSerial == [serial |-> 1, emulator |-> 0]

=============================================================================
