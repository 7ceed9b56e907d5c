--------------------------- MODULE BreakerWindow ---------------------------
(***************************************************************************)
(* What a caller may rely on of the breaker of each product line, without  *)
(* the ring: the outcomes of the most recent answers, oldest first, since  *)
(* the window was last emptied, and the time until which enforcement is    *)
(* off.  A window is emptied by a trip, which needs enough samples at a    *)
(* high enough rate and an expired cooldown, or by a policy of another     *)
(* window size.                                                            *)
(***************************************************************************)
EXTENDS Integers, Sequences, FiniteSets

CONSTANTS Lines,
          Policies  \* [rate, min, window, cooldown] settings in use, rate in percent

VARIABLES recent,    \* [Lines -> sequence of outcomes]
          size,      \* [Lines -> size of the window they are in]
          openUntil, \* [Lines -> time]
          now

vars == <<recent, size, openUntil, now>>

Bad(outcomes) == Cardinality({i \in DOMAIN outcomes : outcomes[i]})
Latest(outcomes, n) ==
  IF Len(outcomes) <= n THEN outcomes
  ELSE SubSeq(outcomes, Len(outcomes) - n + 1, Len(outcomes))

\* What a policy sees of a line's outcomes.
Seen(p, c) == IF size[p] = c.window THEN recent[p] ELSE <<>>

Becomes(p, c, outcomes) ==
  /\ recent' = [recent EXCEPT ![p] = outcomes]
  /\ size' = [size EXCEPT ![p] = c.window]

Init == /\ recent = [p \in Lines |-> <<>>] /\ size \in [Lines -> Nat]
        /\ openUntil = [p \in Lines |-> 0] /\ now = 0

Observe(p, c, suppressed) ==
  Becomes(p, c, Latest(Append(Seen(p, c), suppressed), c.window)) /\ UNCHANGED <<openUntil, now>>

Trip(p, c) ==
  /\ now >= openUntil[p]
  /\ Len(Seen(p, c)) >= c.min /\ 100 * Bad(Seen(p, c)) >= c.rate * Len(Seen(p, c))
  /\ Becomes(p, c, <<>>)
  /\ openUntil' = [openUntil EXCEPT ![p] = now + c.cooldown]
  /\ UNCHANGED now

Resize(p, c) == Becomes(p, c, Seen(p, c)) /\ UNCHANGED <<openUntil, now>>

Tick == now' = now + 1 /\ UNCHANGED <<recent, size, openUntil>>

Next == \/ Tick
        \/ \E p \in Lines, c \in Policies :
             Trip(p, c) \/ Resize(p, c) \/ \E b \in BOOLEAN : Observe(p, c, b)

Spec == Init /\ [][Next]_vars
=============================================================================
