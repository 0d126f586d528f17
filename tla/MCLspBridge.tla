---------------------------- MODULE MCLspBridge ----------------------------
(* LspBridge for TLC: two bridges, one with two messages to send. *)
EXTENDS LspBridge

MCBridges == {"m", "n"}
MCMessages == [m |-> 2, n |-> 0]

=============================================================================
