--------------------------- MODULE MCInboundRouter ---------------------------
(* Small instances of InboundRouter: one customer whose keyed message is    *)
(* delivered twice next to an anonymous or textless one.                    *)
EXTENDS InboundRouter, TLC

CONSTANTS w1, w2, alice, bob, m1, m2, free, orphan, none

OneSender == [m \in Messages |-> alice]

\* Sound where nothing crashes: only a drain, which then finds nothing to do,
\* tells one worker from another.
WorkersAlike == Permutations(Workers)

FirstTwice == [m \in Messages |-> IF m = m1 THEN 2 ELSE 1]

==============================================================================
