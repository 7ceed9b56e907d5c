----------------------------- MODULE RateLimit -----------------------------
(***************************************************************************)
(* The gateway's limiter for one channel: a sliding window of request      *)
(* times in a Redis sorted set, and the burst detector's cooldown.  Each   *)
(* request runs the window's three commands in a pipeline, which is not a  *)
(* transaction: the commands of two requests may interleave.  Time is in   *)
(* ticks; a request counts Lag ticks at most after it read the clock.      *)
(***************************************************************************)
EXTENDS Naturals, FiniteSets

CONSTANTS
  Requests, MaxRequests, RateWindow,        \* ChannelLimit
  BurstWindow, BurstThreshold, CooldownTicks,
  Lag, MaxTicks, MaxLimitFaults

ASSUME LimitAssumption ==
  /\ MaxRequests \in Nat /\ RateWindow \in Nat \ {0} /\ BurstThreshold \in Nat \ {0}
  /\ Lag \in Nat /\ Lag < RateWindow /\ MaxTicks \in Nat

VARIABLES
  clock,
  hits,        \* ratelimit:{channel}, the requests with their score
  bursts,      \* burst:{channel}
  coolUntil,   \* expiry of burst:cooldown:{channel}, 0 when there is none
  req,         \* [Requests -> [pc, at, count]]
  limitFaults

limitVars == <<clock, hits, bursts, coolUntil, req, limitFaults>>

LimitInit ==
  /\ clock = 1 /\ hits = {} /\ bursts = {} /\ coolUntil = 0 /\ limitFaults = 0
  /\ req = [r \in Requests |-> [pc |-> "new", at |-> 0, count |-> 0]]

Step(r, pc) == req' = [req EXCEPT ![r].pc = pc]
LimitFault == limitFaults < MaxLimitFaults /\ limitFaults' = limitFaults + 1

\* Mutant: the window in the wrong unit.
WithinHalf(set, now, window) == {h \in set : h.at + window \div 2 > now}

\* Strictly newer than a window ago: ZREMRANGEBYSCORE takes the bound too.
Within(set, now, window) == {h \in set : h.at + window > now}

(* The cooldown is looked up, then the clock is read.  A failing look-up    *)
(* lets the request go on.                                                  *)
Admit(r) ==
  /\ req[r].pc = "new"
  /\ \/ coolUntil > clock /\ Step(r, "refused") /\ UNCHANGED limitFaults
     \/ /\ coolUntil <= clock /\ UNCHANGED limitFaults
        /\ req' = [req EXCEPT ![r] = [@ EXCEPT !.pc = "prune", !.at = clock]]
     \/ /\ coolUntil > clock /\ LimitFault
        /\ req' = [req EXCEPT ![r] = [@ EXCEPT !.pc = "prune", !.at = clock]]
  /\ UNCHANGED <<clock, hits, bursts, coolUntil>>

Prune(r) ==
  /\ req[r].pc = "prune" /\ Step(r, "add")
  /\ hits' = Within(hits, req[r].at, RateWindow)
  /\ UNCHANGED <<clock, bursts, coolUntil, limitFaults>>

Record(r) ==
  /\ req[r].pc = "add" /\ Step(r, "count")
  /\ hits' = hits \cup {[of |-> r, at |-> req[r].at]}
  /\ UNCHANGED <<clock, bursts, coolUntil, limitFaults>>

Count(r) ==
  /\ req[r].pc = "count"
  /\ req' = [req EXCEPT ![r] = [@ EXCEPT !.pc = "burst", !.count = Cardinality(hits)]]
  /\ UNCHANGED <<clock, hits, bursts, coolUntil, limitFaults>>

\* The pipeline fails part of the way: the caller lets the request through.
PipelineFails(r) ==
  /\ req[r].pc \in {"prune", "add", "count"} /\ LimitFault /\ Step(r, "uncounted")
  /\ UNCHANGED <<clock, hits, bursts, coolUntil>>

Verdict(count) == IF count > MaxRequests THEN "refused" ELSE "allowed"

(* RecordAndCheck: its own window, on the clock of now; a failing pipeline  *)
(* ends it.  A refused request counts in both windows like any other.       *)
Burst(r) ==
  /\ req[r].pc = "burst"
  /\ \/ LET kept == Within(bursts, clock, BurstWindow) \cup {[of |-> r, at |-> clock]} IN
        /\ bursts' = kept /\ UNCHANGED limitFaults
        /\ Step(r, IF Cardinality(kept) > BurstThreshold THEN "cool" ELSE Verdict(req[r].count))
     \/ LimitFault /\ UNCHANGED bursts /\ Step(r, Verdict(req[r].count))
  /\ UNCHANGED <<clock, hits, coolUntil>>

\* activateCooldown: a failing SET is logged.
Cool(r) ==
  /\ req[r].pc = "cool" /\ Step(r, Verdict(req[r].count))
  /\ \/ coolUntil' = clock + CooldownTicks /\ UNCHANGED limitFaults
     \/ LimitFault /\ UNCHANGED coolUntil
  /\ UNCHANGED <<clock, hits, bursts>>

Counting == {r \in Requests : req[r].pc \in {"prune", "add", "count"}}
Tick ==
  /\ clock < MaxTicks /\ \A r \in Counting : clock < req[r].at + Lag
  /\ clock' = clock + 1
  /\ UNCHANGED <<hits, bursts, coolUntil, req, limitFaults>>

LimitNext ==
  \/ Tick
  \/ \E r \in Requests :
       \/ Admit(r) \/ Prune(r) \/ Record(r) \/ Count(r)
       \/ PipelineFails(r) \/ Burst(r) \/ Cool(r)

LimitSpec == LimitInit /\ [][LimitNext]_limitVars

(* However the commands of the requests interleave, no window - shorter by  *)
(* the lag with which a request may count - has more allowed requests than  *)
(* the limit.                                                               *)
AllowedWithinLimit ==
  \A t \in 1..MaxTicks :
    Cardinality({r \in Requests : /\ req[r].pc = "allowed"
                                  /\ t <= req[r].at /\ req[r].at < t + RateWindow - Lag}) <= MaxRequests
=============================================================================
