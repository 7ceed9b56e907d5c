------------------------- MODULE MCOutboundDelivery -------------------------
(* Small instances of OutboundDelivery: one with a key and one without, or  *)
(* a key for each; a message without user and platform id has no key.       *)
EXTENDS OutboundDelivery

CONSTANTS w1, w2, claimer, m1, m2, k1, k2, nokey, none

OneKeyEach == [m \in Messages |-> IF m = m1 THEN k1 ELSE k2]
OneKeyless == [m \in Messages |-> IF m = m1 THEN k1 ELSE nokey]
=============================================================================
