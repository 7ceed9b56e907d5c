------------------------------ MODULE Breaker ------------------------------
(***************************************************************************)
(* pkg/domain/breaker.go: per product line a ring of the most recent       *)
(* outcomes (TRUE: enforcement would have withheld the answer), and the    *)
(* time until which enforcement is switched off.  Every exported method    *)
(* holds the mutex from its first to its last access, so one call is one   *)
(* action; what lies between the calls of a caller is in AnswerJudge.      *)
(*                                                                         *)
(* Rates are percentages and the comparison of floats is done on integers: *)
(* suppressed / filled >= rate  iff  100 * suppressed >= rate * filled.    *)
(* Positions in the ring count from 0, as in the code.                     *)
(***************************************************************************)
EXTENDS Integers, FiniteSets, Sequences

CONSTANTS Lines,     \* product lines
          Configs,   \* breaker settings as configured, zero meaning unset
          Default,   \* DefaultBreakerConfig
          MaxNow     \* bound: the clock

IsConfig(c) == /\ c.disabled \in BOOLEAN
               /\ c.rate \in Int /\ c.min \in Int /\ c.window \in Int /\ c.cooldown \in Int

ASSUME DefaultAssumption ==
  /\ IsConfig(Default)
  /\ Default.rate \in 1..100 /\ Default.cooldown > 0
  /\ 0 < Default.min /\ Default.min <= Default.window
ASSUME ConfigsAssumption == \A c \in Configs : IsConfig(c)
ASSUME ClockAssumption == MaxNow \in Nat

VARIABLES line,  \* [Lines -> state of the line]
          now    \* the clock

breakerVars == <<line, now>>

-----------------------------------------------------------------------------
(* normalise.                                                              *)
OrDefault(value, default) == IF value <= 0 THEN default ELSE value
Larger(a, b) == IF a < b THEN b ELSE a

Normalise(c) ==
  LET min == OrDefault(c.min, Default.min) IN
    [disabled |-> c.disabled,
     rate     |-> IF c.rate <= 0 \/ c.rate > 100 THEN Default.rate ELSE c.rate,
     min      |-> min,
     window   |-> Larger(OrDefault(c.window, Default.window), min),
     cooldown |-> OrDefault(c.cooldown, Default.cooldown)]

(* A line's ring.                                                          *)
Ring(size) == [i \in 0..(size - 1) |-> FALSE]

\* A line whose counters were reset; its outcomes stay where they are.
Emptied(size, outcomes, openUntil, trips) ==
  [size |-> size, outcomes |-> outcomes, next |-> 0, filled |-> 0, suppressed |-> 0,
   openUntil |-> openUntil, trips |-> trips]

NewLine(size) == Emptied(size, Ring(size), 0, 0)

\* line(): a window of another size starts empty, the cooldown goes on.
Sized(l, size) ==
  IF l.size = size THEN l
  ELSE Emptied(size, Ring(size), l.openUntil, l.trips)

MustTrip(l, c) == l.filled >= c.min /\ 100 * l.suppressed >= c.rate * l.filled
IsOpen(l) == now < l.openUntil

\* Mutant: a trip keeps the window that caused it.
TrippedWithoutReset(l, c) ==
  [l EXCEPT !.openUntil = now + c.cooldown, !.trips = @ + 1]

Tripped(l, c) == Emptied(l.size, l.outcomes, now + c.cooldown, l.trips + 1)

AsCount(suppressed) == IF suppressed THEN 1 ELSE 0

\* Mutant: what a slot held before the last reset is subtracted as well.
PushedForgetful(l, suppressed) ==
  [l EXCEPT !.outcomes[l.next] = suppressed,
            !.suppressed = @ - AsCount(l.outcomes[l.next]) + AsCount(suppressed),
            !.next = (@ + 1) % l.size,
            !.filled = IF @ < l.size THEN @ + 1 ELSE @]

\* Record: the slot overwritten counted only if it was written since the reset.
Pushed(l, suppressed) ==
  LET evicted == l.filled = l.size /\ l.outcomes[l.next] IN
    [size |-> l.size,
     outcomes |-> [l.outcomes EXCEPT ![l.next] = suppressed],
     next |-> (l.next + 1) % l.size,
     filled |-> IF l.filled < l.size THEN l.filled + 1 ELSE l.filled,
     suppressed |-> l.suppressed - AsCount(evicted) + AsCount(suppressed),
     openUntil |-> l.openUntil,
     trips |-> l.trips]

-----------------------------------------------------------------------------
\* A line the map does not hold yet is an empty one: its first use sizes it.
BreakerInit == line = [p \in Lines |-> NewLine(Default.window)] /\ now = 0

\* Allow, and what it answers: open, tripping just now, or neither.
Allow(p, config) ==
  LET c == Normalise(config) l == Sized(line[p], c.window) IN
    line' = [line EXCEPT ![p] =
               IF c.disabled THEN @
               ELSE IF ~IsOpen(l) /\ MustTrip(l, c) THEN Tripped(l, c)
               ELSE l]

Refuses(p, config) ==
  LET c == Normalise(config) l == Sized(line[p], c.window) IN
    ~c.disabled /\ (IsOpen(l) \/ MustTrip(l, c))

Record(p, config, suppressed) ==
  LET c == Normalise(config) l == Sized(line[p], c.window) IN
    line' = [line EXCEPT ![p] = IF c.disabled THEN @ ELSE Pushed(l, suppressed)]

Tick == now < MaxNow /\ now' = now + 1 /\ UNCHANGED line

BreakerNext ==
  \/ Tick
  \/ \E p \in Lines, c \in Configs :
       /\ UNCHANGED now
       /\ Allow(p, c) \/ \E b \in BOOLEAN : Record(p, c, b)

BreakerSpec == BreakerInit /\ [][BreakerNext]_breakerVars

-----------------------------------------------------------------------------
(* Every ring has a size, and its counters stay inside it.                 *)
LinesOfSize(n) == [size : {n}, outcomes : [0..(n - 1) -> BOOLEAN], next : 0..(n - 1),
                   filled : 0..n, suppressed : Int, openUntil : Nat, trips : Nat]
LineOK(l) == l.size \in Nat \ {0} /\ l \in LinesOfSize(l.size)
BreakerTypeOK ==
  DOMAIN line = Lines /\ (\A p \in Lines : LineOK(line[p])) /\ now \in 0..MaxNow

(* The running count that decides a trip is the number of suppressed       *)
(* outcomes among the slots written since the window was last emptied,     *)
(* whatever earlier windows left behind in the array (reset clears the     *)
(* counters only) and however often the ring has wrapped.                  *)
Counted(l) == {i \in 0..(l.filled - 1) : l.outcomes[i]}
SuppressedCounts == \A p \in Lines : line[p].suppressed = Cardinality(Counted(line[p]))

(* The outcomes in the ring, the oldest first.                             *)
RingOf(l) == [i \in 1..l.filled |-> l.outcomes[(l.next - l.filled + i - 1 + l.size) % l.size]]

Window == INSTANCE BreakerWindow WITH
            Policies  <- {Normalise(c) : c \in Configs},
            recent    <- [p \in Lines |-> RingOf(line[p])],
            size      <- [p \in Lines |-> line[p].size],
            openUntil <- [p \in Lines |-> line[p].openUntil]

(* The rings, their counters and their resizing amount to plain sliding    *)
(* windows of BreakerWindow: what Record and Allow do to the ring of a line *)
(* is what the abstract window would do, also across wraps and resizes, and *)
(* it opens only when that window is bad enough.                           *)
SlidingWindow == Window!Spec
=============================================================================
