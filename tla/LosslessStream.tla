--------------------------- MODULE LosslessStream ---------------------------
(***************************************************************************)
(* What a process runner promises of one pipe of its child, without the    *)
(* threads, queues and chunks in between: what is written is delivered in  *)
(* order and at most once, and the stream is declared complete only when   *)
(* everything has been delivered and nothing more can be written.          *)
(***************************************************************************)
EXTENDS Naturals

VARIABLES written,    \* units written by the child
          delivered,  \* units delivered to the caller
          complete    \* the call has returned an outcome

streamVars == <<written, delivered, complete>>

Init == written = 0 /\ delivered = 0 /\ complete = FALSE

Write ==
    /\ ~complete
    /\ written' = written + 1
    /\ UNCHANGED <<delivered, complete>>

Deliver ==
    /\ ~complete
    /\ delivered' \in delivered + 1 .. written
    /\ UNCHANGED <<written, complete>>

Complete ==
    /\ ~complete /\ delivered = written
    /\ complete' = TRUE
    /\ UNCHANGED <<written, delivered>>

Next == Write \/ Deliver \/ Complete

Spec == Init /\ [][Next]_streamVars

=============================================================================
