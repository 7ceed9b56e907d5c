-------------------------- MODULE OutboundDelivery --------------------------
(***************************************************************************)
(* The gateway's consumption of unica:outbound: the consumer's workers and *)
(* its claim loop, the dispatcher made of the deduplicator, the retryer    *)
(* and the dead-letter queue, and the graceful shutdown with its drain.    *)
(*                                                                         *)
(* An entry of the stream is the message it carries.  Two messages share a *)
(* dedup key when neither has a platform_msg_id and both go to one user in *)
(* one second; the router's messages carry no platform_msg_id.  The keys'  *)
(* 24 hours are taken to outlast every entry's time in the PEL.  A send is *)
(* two steps, the platform taking the message and the adapter learning of  *)
(* it: a call may fail before, or after.                                   *)
(***************************************************************************)
EXTENDS Naturals, FiniteSets

CONSTANTS
  Workers,       \* reading goroutines
  Claimer,       \* the goroutine of the claim loop, and of the shutdown's drain
  Messages,
  KeyOf,         \* [Messages -> dedup key, or NoKey]
  NoKey, NoMessage,
  MaxRetries,    \* attempts of the retryer
  MaxDispatches, \* attempts of the consumer, 3 in the code
  MaxFaults,     \* bound: failed sends and failed Redis operations
  MaxShutdowns,  \* bound: graceful shutdowns
  MaxCrashes     \* bound: crashes

Threads == Workers \cup {Claimer}
Keys == {KeyOf[m] : m \in Messages} \ {NoKey}

ASSUME ThreadsAssumption == Claimer \notin Workers /\ IsFiniteSet(Workers)
ASSUME AttemptsAssumption == /\ MaxRetries \in Nat \ {0}
                             /\ MaxDispatches \in Nat \ {0}
ASSUME LimitsAssumption == MaxFaults \in Nat /\ MaxShutdowns \in Nat /\ MaxCrashes \in Nat
ASSUME MessagesAssumption == /\ IsFiniteSet(Messages) /\ NoMessage \notin Messages
                             /\ DOMAIN KeyOf = Messages

VARIABLES
  stream,     \* entries not delivered to the group yet
  pel,        \* entries delivered and not acknowledged
  acked,      \* entries acknowledged
  keys,       \* dedup keys present in Redis
  phase,      \* "running", "stopping" (context cancelled), "draining"
  batch,      \* entries the claimer got from XAUTOCLAIM or XCLAIM, still to do
  pc, cur,    \* where each thread is in processMessage, and its entry
  dispatches, \* failed calls of the dispatcher for the entry in hand
  retries,    \* failed attempts of the retryer within this call
  sent,       \* [Messages -> Nat]: times the platform took the message
  lost,       \* [Messages -> Nat]: those of them after which the call failed
  dead,       \* [Messages -> Nat]: dead-letter entries
  failOpen,   \* dedup checks that Redis failed and that let the message through
  faults, shutdowns, crashes

redisVars  == <<stream, pel, acked, keys>>
threadVars == <<pc, cur, dispatches, retries>>
outcomeVars == <<sent, lost, dead, failOpen>>
stopVars == <<shutdowns, crashes>>
vars == <<redisVars, threadVars, outcomeVars, phase, batch, faults, stopVars>>

Steps == {"idle", "check", "send", "taken", "bury", "failed", "ack"}

-----------------------------------------------------------------------------
Init ==
  /\ stream = Messages /\ pel = {} /\ acked = {} /\ keys = {}
  /\ phase = "running" /\ batch = {}
  /\ pc = [t \in Threads |-> "idle"]
  /\ cur = [t \in Threads |-> NoMessage]
  /\ dispatches = [t \in Threads |-> 0]
  /\ retries = [t \in Threads |-> 0]
  /\ sent = [m \in Messages |-> 0] /\ lost = [m \in Messages |-> 0] /\ dead = [m \in Messages |-> 0]
  /\ failOpen = 0 /\ faults = 0 /\ shutdowns = 0 /\ crashes = 0

Goto(t, step) == pc' = [pc EXCEPT ![t] = step]
Fault == faults < MaxFaults /\ faults' = faults + 1
NoFault == UNCHANGED faults
Count(bag, m) == [bag EXCEPT ![m] = @ + 1]

\* The context of the workers is cancelled before they are stopped.
Cancelled(t) == phase = "stopping"

Take(t, m) == /\ cur' = [cur EXCEPT ![t] = m]
              /\ dispatches' = [dispatches EXCEPT ![t] = 0]
              /\ retries' = [retries EXCEPT ![t] = 0]
              /\ Goto(t, "check")

Leave(t) == /\ cur' = [cur EXCEPT ![t] = NoMessage]
            /\ dispatches' = [dispatches EXCEPT ![t] = 0]
            /\ retries' = [retries EXCEPT ![t] = 0]
            /\ Goto(t, "idle")

-----------------------------------------------------------------------------
(* readLoop, claimPending and DrainPending.                                *)
Read(t, m) ==
  /\ phase = "running" /\ t \in Workers /\ pc[t] = "idle"
  /\ m \in stream
  /\ stream' = stream \ {m} /\ pel' = pel \cup {m}
  /\ Take(t, m)
  /\ UNCHANGED <<acked, keys, outcomeVars, phase, batch, faults, stopVars>>

\* XREADGROUP delivered the entry, its answer never arrived.
ReadLost(m) ==
  /\ phase # "draining"
  /\ m \in stream
  /\ Fault
  /\ stream' = stream \ {m} /\ pel' = pel \cup {m}
  /\ UNCHANGED <<acked, keys, threadVars, outcomeVars, phase, batch, stopVars>>

\* Mutant: no claim loop, only the drain of a shutdown recovers.
NoClaim == FALSE /\ UNCHANGED vars

\* Entries idle for the claim interval: also those a worker is busy with.
Claim ==
  /\ phase = "running" /\ pc[Claimer] = "idle" /\ batch = {}
  /\ batch' \in (SUBSET pel) \ {{}}
  /\ UNCHANGED <<redisVars, threadVars, outcomeVars, phase, faults, stopVars>>

NextOfBatch(m) ==
  /\ pc[Claimer] = "idle" /\ m \in batch
  /\ phase \in {"running", "draining"}
  /\ batch' = batch \ {m}
  /\ Take(Claimer, m)
  /\ UNCHANGED <<redisVars, outcomeVars, phase, faults, stopVars>>

-----------------------------------------------------------------------------
(* The dispatcher.                                                         *)

\* Mutant: the key is looked up, and set by nobody.
CheckWithoutClaim(t) ==
  /\ pc[t] = "check"
  /\ Goto(t, IF KeyOf[cur[t]] \in keys THEN "ack" ELSE "send")
  /\ UNCHANGED <<redisVars, cur, dispatches, retries, outcomeVars, phase, batch, faults, stopVars>>

CheckDuplicate(t) ==
  LET key == KeyOf[cur[t]] IN
  /\ pc[t] = "check" /\ ~(Cancelled(t) /\ key # NoKey)
  /\ IF key \in keys THEN Goto(t, "ack") /\ UNCHANGED keys
     ELSE Goto(t, "send") /\ keys' = keys \cup ({key} \ {NoKey})
  /\ UNCHANGED <<stream, pel, acked, cur, dispatches, retries, outcomeVars,
                 phase, batch, faults, stopVars>>

\* SETNX failed, and may still have been applied; the message passes.
CheckFails(t) ==
  LET key == KeyOf[cur[t]] IN
  /\ pc[t] = "check" /\ key # NoKey
  /\ \/ Cancelled(t) /\ NoFault /\ UNCHANGED <<keys, failOpen>>
     \/ /\ ~Cancelled(t) /\ Fault
        /\ failOpen' = failOpen + 1
        /\ keys' \in {keys, keys \cup {key}}
  /\ Goto(t, "send")
  /\ UNCHANGED <<stream, pel, acked, cur, dispatches, retries, sent, lost, dead,
                 phase, batch, stopVars>>

\* The platform takes the message; the adapter waits for its answer.
Deliver(t) ==
  /\ pc[t] = "send" /\ ~Cancelled(t)
  /\ sent' = Count(sent, cur[t])
  /\ Goto(t, "taken")
  /\ UNCHANGED <<redisVars, cur, dispatches, retries, lost, dead, failOpen, phase,
                 batch, faults, stopVars>>

SendOk(t) ==
  /\ pc[t] = "taken"
  /\ Goto(t, "ack")
  /\ UNCHANGED <<redisVars, cur, dispatches, retries, outcomeVars, phase, batch, faults,
                 stopVars>>

\* A call that ends in an error after the platform took the message.
AnswerLost(t) == lost' = IF pc[t] = "taken" THEN Count(lost, cur[t]) ELSE lost

\* One attempt of the retryer, which timed out, was refused, or whose answer was
\* lost or unreadable; the last one leads to the dead-letter queue.
SendFails(t) ==
  /\ pc[t] \in {"send", "taken"} /\ ~Cancelled(t)
  /\ Fault
  /\ AnswerLost(t)
  /\ retries' = [retries EXCEPT ![t] = @ + 1]
  /\ Goto(t, IF retries[t] + 1 < MaxRetries THEN "send" ELSE "bury")
  /\ UNCHANGED <<redisVars, cur, dispatches, sent, dead, failOpen, phase, batch, stopVars>>

\* A send under a cancelled context, or past the drain's deadline, fails, and
\* the retryer gives up without a dead letter.
SendCancelled(t) ==
  /\ pc[t] \in {"send", "taken"}
  /\ \/ Cancelled(t) /\ NoFault
     \/ phase = "draining" /\ Fault
  /\ AnswerLost(t)
  /\ Goto(t, "failed")
  /\ UNCHANGED <<redisVars, cur, dispatches, retries, sent, dead, failOpen, phase, batch,
                 stopVars>>

\* Mutant: the dead-lettered message gives its dedup key back.
BuryAndRelease(t) ==
  /\ pc[t] = "bury"
  /\ ~Cancelled(t) /\ NoFault /\ dead' = Count(dead, cur[t])
  /\ keys' = keys \ {KeyOf[cur[t]]}
  /\ Goto(t, "failed")
  /\ UNCHANGED <<stream, pel, acked, cur, dispatches, retries, sent, lost, failOpen,
                 phase, batch, stopVars>>

\* The dead letter is written or not; either way the dispatcher fails.
Bury(t) ==
  /\ pc[t] = "bury"
  /\ \/ ~Cancelled(t) /\ NoFault /\ dead' = Count(dead, cur[t])
     \/ ~Cancelled(t) /\ Fault /\ UNCHANGED dead
     \/ Cancelled(t) /\ NoFault /\ UNCHANGED dead
  /\ Goto(t, "failed")
  /\ UNCHANGED <<redisVars, cur, dispatches, retries, sent, lost, failOpen, phase, batch,
                 stopVars>>

-----------------------------------------------------------------------------
(* processMessage after a call of the dispatcher.                          *)

\* Backoff and the next call, until the last one or the stop; then the entry
\* is left pending.
Again(t) ==
  /\ pc[t] = "failed" /\ phase = "running"
  /\ dispatches[t] + 1 < MaxDispatches
  /\ dispatches' = [dispatches EXCEPT ![t] = @ + 1]
  /\ retries' = [retries EXCEPT ![t] = 0]
  /\ Goto(t, "check")
  /\ UNCHANGED <<redisVars, cur, outcomeVars, phase, batch, faults, stopVars>>

\* Mutant: acknowledged although the last dispatch failed.
GiveUpAndAck(t) ==
  /\ pc[t] = "failed"
  /\ phase # "running" \/ dispatches[t] + 1 = MaxDispatches
  /\ pel' = pel \ {cur[t]} /\ acked' = acked \cup {cur[t]}
  /\ Leave(t)
  /\ UNCHANGED <<stream, keys, outcomeVars, phase, batch, faults, stopVars>>

GiveUp(t) ==
  /\ pc[t] = "failed"
  /\ phase # "running" \/ dispatches[t] + 1 = MaxDispatches
  /\ Leave(t)
  /\ UNCHANGED <<redisVars, outcomeVars, phase, batch, faults, stopVars>>

Ack(t) ==
  /\ pc[t] = "ack"
  /\ \/ ~Cancelled(t) /\ NoFault /\ pel' = pel \ {cur[t]} /\ acked' = acked \cup {cur[t]}
     \/ ~Cancelled(t) /\ Fault /\ UNCHANGED <<pel, acked>>
     \/ Cancelled(t) /\ NoFault /\ UNCHANGED <<pel, acked>>
  /\ Leave(t)
  /\ UNCHANGED <<stream, keys, outcomeVars, phase, batch, stopVars>>

-----------------------------------------------------------------------------
(* main's shutdown: cancel, wait for every goroutine, drain, exit; and a   *)
(* crash.  Either is followed by a restart with the same consumer group.   *)
Shutdown ==
  /\ phase = "running" /\ shutdowns < MaxShutdowns
  /\ shutdowns' = shutdowns + 1
  /\ phase' = "stopping"
  /\ UNCHANGED <<redisVars, threadVars, outcomeVars, batch, faults, crashes>>

\* XAUTOCLAIM's remaining entries meet the cancelled context one by one and
\* stay pending.
StartDrain ==
  /\ phase = "stopping" /\ \A t \in Threads : pc[t] = "idle"
  /\ phase' = "draining"
  /\ batch' = pel
  /\ UNCHANGED <<redisVars, threadVars, outcomeVars, faults, stopVars>>

\* The drain is done, or its ten seconds are over.
Exit ==
  /\ phase = "draining"
  /\ batch = {} \/ faults < MaxFaults
  /\ faults' = IF batch = {} THEN faults ELSE faults + 1
  /\ pc[Claimer] = "idle"
  /\ phase' = "running" /\ batch' = {}
  /\ UNCHANGED <<redisVars, threadVars, outcomeVars, stopVars>>

Crash ==
  /\ crashes < MaxCrashes
  /\ crashes' = crashes + 1
  /\ phase' = "running" /\ batch' = {}
  /\ pc' = [t \in Threads |-> "idle"]
  /\ cur' = [t \in Threads |-> NoMessage]
  /\ dispatches' = [t \in Threads |-> 0]
  /\ retries' = [t \in Threads |-> 0]
  /\ UNCHANGED <<redisVars, outcomeVars, faults, shutdowns>>

-----------------------------------------------------------------------------
Process(t) ==
  \/ CheckDuplicate(t) \/ CheckFails(t)
  \/ Deliver(t) \/ SendOk(t) \/ SendFails(t) \/ SendCancelled(t) \/ Bury(t)
  \/ Again(t) \/ GiveUp(t) \/ Ack(t)

Fetch(t) == \E m \in Messages : Read(t, m)
Work == \E m \in Messages : NextOfBatch(m)
Stopping == StartDrain \/ Exit

Next == \/ Claim \/ Work \/ Stopping \/ Shutdown \/ Crash
        \/ \E t \in Threads : Process(t) \/ Fetch(t)
        \/ \E m \in Messages : ReadLost(m)

Spec == Init /\ [][Next]_vars

\* The goroutines run, the ticker of the claim loop ticks, and every entry
\* that stays pending is idle long enough to be claimed again and again.
ClaimOf(m) == Claim /\ m \in batch'
Fairness ==
  /\ \A t \in Threads : WF_vars(Process(t)) /\ WF_vars(Fetch(t))
  /\ WF_vars(Work) /\ WF_vars(Stopping)
  /\ \A m \in Messages : SF_vars(ClaimOf(m))

FairSpec == Spec /\ Fairness

-----------------------------------------------------------------------------
(* Types, and where an entry can be: a busy thread holds an entry that was *)
(* delivered to the group, the claimer's batch holds only such entries.    *)
TypeOK ==
  /\ stream \subseteq Messages /\ pel \subseteq Messages /\ acked \subseteq Messages
  /\ keys \subseteq Keys
  /\ phase \in {"running", "stopping", "draining"}
  /\ batch \subseteq Messages \ stream
  /\ pc \in [Threads -> Steps]
  /\ cur \in [Threads -> (Messages \ stream) \cup {NoMessage}]
  /\ \A t \in Threads : pc[t] = "idle" <=> cur[t] = NoMessage
  /\ dispatches \in [Threads -> 0..(MaxDispatches - 1)]
  /\ retries \in [Threads -> 0..MaxRetries]
  /\ sent \in [Messages -> Nat] /\ lost \in [Messages -> Nat] /\ dead \in [Messages -> Nat]
  /\ failOpen \in 0..MaxFaults /\ faults \in 0..MaxFaults
  /\ shutdowns \in 0..MaxShutdowns /\ crashes \in 0..MaxCrashes

(* An entry is in exactly one place, whatever the claim loop does to the   *)
(* entry a worker is busy with: not yet delivered, pending or done.        *)
EveryEntryInOnePlace ==
  /\ stream \cup pel \cup acked = Messages
  /\ stream \cap pel = {} /\ stream \cap acked = {} /\ pel \cap acked = {}

(* The deduplicator claims a key before the first send and nothing gives   *)
(* it back: of all messages with one key the platform takes at most one,   *)
(* by however many workers, claims, drains and restarts they are           *)
(* processed, one more for every check that failed open, and one for every *)
(* attempt that was taken and reported as failed, which is repeated.       *)
Sends(k) == UNION {{m} \X ((lost[m] + 1)..sent[m]) : m \in {n \in Messages : KeyOf[n] = k}}
SentOncePerKey == \A k \in Keys : Cardinality(Sends(k)) <= 1 + failOpen

(* A keyed message that is dead-lettered has not been delivered, but by an *)
(* attempt that was reported as failed: an operator who replays the        *)
(* dead-letter queue repeats only what the gateway could not know the      *)
(* customer has.  (A check that failed open may let a second dispatch      *)
(* through.)                                                               *)
DeadOrSent ==
  failOpen = 0 =>
    \A m \in Messages : KeyOf[m] # NoKey => dead[m] = 0 \/ sent[m] <= lost[m]

(* consumer.go:195, "ACK only on success": an acknowledged entry that      *)
(* nobody works on any more has been delivered, or at least dead-lettered. *)
AckedMeansSettled ==
  \A m \in acked : sent[m] > 0 \/ dead[m] > 0 \/ \E t \in Threads : cur[t] = m

(* Without a key nothing short-circuits the dispatcher, and the promise of *)
(* consumer.go:195 holds: acknowledged means delivered.                    *)
AckedWithoutKeyMeansSent == \A m \in acked : KeyOf[m] = NoKey => sent[m] > 0

(* Every entry is acknowledged in the end: no failure, claim, crash or     *)
(* shutdown leaves one pending for ever.                                   *)
EveryEntryAcked == <>(acked = Messages)
=============================================================================
