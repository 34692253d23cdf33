---------------------------- MODULE MCGameWorld ----------------------------
(* Two clients; the animations shortened in proportion. *)
EXTENDS GameWorld

MCLength  == [a \in Attacks |-> 2]
MCHitTick == [a \in Attacks |-> 2]
MCStart   == [c \in Clients |-> <<2 * c, 5 - 2 * c>>]
MCPresses == [c \in Clients |-> IF c = 1 THEN 3 ELSE 0]
MCBothPress == [c \in Clients |-> 1]
=============================================================================
