---------------------------- MODULE MCAiExchange ----------------------------
(* Two requests, under ids of their own or under the same one. *)
EXTENDS AiExchange

CONSTANTS r1, r2, x, y

MCChoices == {[c \in {r1, r2} |-> IF c = r1 THEN x ELSE i] : i \in {x, y}}

=============================================================================
