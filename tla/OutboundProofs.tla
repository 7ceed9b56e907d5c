------------------------ MODULE OutboundProofs ------------------------
(***************************************************************************)
(* The outbound consumer for any number of workers, messages and keys: the *)
(* type invariant and the place of every entry, what an acknowledgement of *)
(* an unkeyed message means, and how often one dedup key lets a send or a  *)
(* dead letter through.                                                    *)
(***************************************************************************)
EXTENDS OutboundDelivery, FiniteSetTheorems, TLAPS

\* A thread on its way to a send has an attempt left.
AttemptsLeft == \A t \in Threads : pc[t] \in {"check", "send", "taken"} => retries[t] < MaxRetries

PlacesInv == TypeOK /\ EveryEntryInOnePlace /\ AttemptsLeft /\ failOpen <= faults

-----------------------------------------------------------------------------
(* Initially nothing is delivered and every thread idles.                  *)
LEMMA PlacesInit == Init => PlacesInv
  BY LimitsAssumption, AttemptsAssumption, MessagesAssumption
  DEF Init, PlacesInv, TypeOK, EveryEntryInOnePlace, AttemptsLeft, Steps, Keys

(* Every step keeps types, places and attempts.                            *)
LEMMA PlacesNext == PlacesInv /\ [Next]_vars => PlacesInv'
<1> SUFFICES ASSUME PlacesInv, [Next]_vars PROVE PlacesInv'
  OBVIOUS
<1> USE LimitsAssumption, AttemptsAssumption, MessagesAssumption, ThreadsAssumption
    DEF PlacesInv, TypeOK, EveryEntryInOnePlace, AttemptsLeft, Steps, Keys, Threads,
        Goto, Fault, NoFault, Count, Cancelled, Take, Leave, AnswerLost,
        redisVars, threadVars, outcomeVars, stopVars
<1>1. ASSUME Claim PROVE PlacesInv'
  BY <1>1 DEF Claim
<1>2. ASSUME NEW m \in Messages, NextOfBatch(m) PROVE PlacesInv'
  BY <1>2 DEF NextOfBatch
<1>3. ASSUME StartDrain PROVE PlacesInv'
  BY <1>3 DEF StartDrain
<1>4. ASSUME Exit PROVE PlacesInv'
  BY <1>4 DEF Exit
<1>5. ASSUME Shutdown PROVE PlacesInv'
  BY <1>5 DEF Shutdown
<1>6. ASSUME Crash PROVE PlacesInv'
  BY <1>6 DEF Crash
<1>7. ASSUME NEW m \in Messages, ReadLost(m) PROVE PlacesInv'
  BY <1>7 DEF ReadLost
<1>8. ASSUME NEW t \in Threads, NEW m \in Messages, Read(t, m) PROVE PlacesInv'
  BY <1>8 DEF Read
<1>9. ASSUME NEW t \in Threads, CheckDuplicate(t) PROVE PlacesInv'
  BY <1>9 DEF CheckDuplicate
<1>10. ASSUME NEW t \in Threads, CheckFails(t) PROVE PlacesInv'
  BY <1>10 DEF CheckFails
<1>11. ASSUME NEW t \in Threads, SendOk(t) PROVE PlacesInv'
  BY <1>11 DEF SendOk
<1>12. ASSUME NEW t \in Threads, SendFails(t) PROVE PlacesInv'
  BY <1>12 DEF SendFails
<1>13. ASSUME NEW t \in Threads, SendCancelled(t) PROVE PlacesInv'
  BY <1>13 DEF SendCancelled
<1>14. ASSUME NEW t \in Threads, Bury(t) PROVE PlacesInv'
  BY <1>14 DEF Bury
<1>15. ASSUME NEW t \in Threads, Again(t) PROVE PlacesInv'
  BY <1>15 DEF Again
<1>16. ASSUME NEW t \in Threads, GiveUp(t) PROVE PlacesInv'
  BY <1>16 DEF GiveUp
<1>17. ASSUME NEW t \in Threads, Ack(t) PROVE PlacesInv'
  BY <1>17 DEF Ack
<1>18. CASE UNCHANGED vars
  BY <1>18 DEF vars, stopVars
<1>19. ASSUME NEW t \in Threads, Deliver(t) PROVE PlacesInv'
  BY <1>19 DEF Deliver
<1> QED
  BY <1>1, <1>2, <1>3, <1>4, <1>5, <1>6, <1>7, <1>8, <1>9, <1>10,
     <1>11, <1>12, <1>13, <1>14, <1>15, <1>16, <1>17, <1>18, <1>19
     DEF Next, Work, Stopping, Process, Fetch

(* The type invariant of the consumer, the claim loop and the shutdown.    *)
THEOREM OutboundTypes == Spec => []TypeOK
<1>1. PlacesInv => TypeOK
  BY DEF PlacesInv
<1> QED
  BY PlacesInit, PlacesNext, <1>1, PTL DEF Spec

(* An entry is in exactly one place.                                       *)
THEOREM EntriesInOnePlace == Spec => []EveryEntryInOnePlace
<1>1. PlacesInv => EveryEntryInOnePlace
  BY DEF PlacesInv
<1> QED
  BY PlacesInit, PlacesNext, <1>1, PTL DEF Spec

-----------------------------------------------------------------------------
(* Without a key only a send leads to the acknowledgement.                 *)
SentBeforeAck ==
  \A t \in Threads : pc[t] \in {"taken", "ack"} /\ KeyOf[cur[t]] = NoKey => sent[cur[t]] > 0

UnkeyedInv == SentBeforeAck /\ AckedWithoutKeyMeansSent

LEMMA UnkeyedNext == PlacesInv /\ UnkeyedInv /\ [Next]_vars => UnkeyedInv'
<1> SUFFICES ASSUME PlacesInv, UnkeyedInv, [Next]_vars PROVE UnkeyedInv'
  OBVIOUS
<1> USE LimitsAssumption, AttemptsAssumption, MessagesAssumption, ThreadsAssumption
    DEF PlacesInv, TypeOK, Keys, Threads,
        UnkeyedInv, SentBeforeAck, AckedWithoutKeyMeansSent, Steps,
        Goto, Fault, NoFault, Count, Cancelled, Take, Leave, AnswerLost,
        redisVars, threadVars, outcomeVars, stopVars
<1>1. ASSUME Claim PROVE UnkeyedInv'
  BY <1>1 DEF Claim
<1>2. ASSUME NEW m \in Messages, NextOfBatch(m) PROVE UnkeyedInv'
  BY <1>2 DEF NextOfBatch
<1>3. ASSUME StartDrain PROVE UnkeyedInv'
  BY <1>3 DEF StartDrain
<1>4. ASSUME Exit PROVE UnkeyedInv'
  BY <1>4 DEF Exit
<1>5. ASSUME Shutdown PROVE UnkeyedInv'
  BY <1>5 DEF Shutdown
<1>6. ASSUME Crash PROVE UnkeyedInv'
  BY <1>6 DEF Crash
<1>7. ASSUME NEW m \in Messages, ReadLost(m) PROVE UnkeyedInv'
  BY <1>7 DEF ReadLost
<1>8. ASSUME NEW t \in Threads, NEW m \in Messages, Read(t, m) PROVE UnkeyedInv'
  BY <1>8 DEF Read
<1>9. ASSUME NEW t \in Threads, CheckDuplicate(t) PROVE UnkeyedInv'
  BY <1>9 DEF CheckDuplicate
<1>10. ASSUME NEW t \in Threads, CheckFails(t) PROVE UnkeyedInv'
  BY <1>10 DEF CheckFails
<1>11. ASSUME NEW t \in Threads, SendOk(t) PROVE UnkeyedInv'
  BY <1>11 DEF SendOk
<1>12. ASSUME NEW t \in Threads, SendFails(t) PROVE UnkeyedInv'
  BY <1>12 DEF SendFails
<1>13. ASSUME NEW t \in Threads, SendCancelled(t) PROVE UnkeyedInv'
  BY <1>13 DEF SendCancelled
<1>14. ASSUME NEW t \in Threads, Bury(t) PROVE UnkeyedInv'
  BY <1>14 DEF Bury
<1>15. ASSUME NEW t \in Threads, Again(t) PROVE UnkeyedInv'
  BY <1>15 DEF Again
<1>16. ASSUME NEW t \in Threads, GiveUp(t) PROVE UnkeyedInv'
  BY <1>16 DEF GiveUp
<1>17. ASSUME NEW t \in Threads, Ack(t) PROVE UnkeyedInv'
  BY <1>17 DEF Ack
<1>18. CASE UNCHANGED vars
  BY <1>18 DEF vars, stopVars
<1>19. ASSUME NEW t \in Threads, Deliver(t) PROVE UnkeyedInv'
  BY <1>19 DEF Deliver
<1> QED
  BY <1>1, <1>2, <1>3, <1>4, <1>5, <1>6, <1>7, <1>8, <1>9, <1>10,
     <1>11, <1>12, <1>13, <1>14, <1>15, <1>16, <1>17, <1>18, <1>19
     DEF Next, Work, Stopping, Process, Fetch

(* An acknowledged unkeyed message was delivered, whatever failed before.  *)
THEOREM UnkeyedAckedMeansSent == Spec => []AckedWithoutKeyMeansSent
<1>1. Init => UnkeyedInv
  BY DEF Init, UnkeyedInv, SentBeforeAck, AckedWithoutKeyMeansSent
<1>2. UnkeyedInv => AckedWithoutKeyMeansSent
  BY DEF UnkeyedInv
<1> QED
  BY PlacesInit, PlacesNext, <1>1, <1>2, UnkeyedNext, PTL DEF Spec

-----------------------------------------------------------------------------
(* Until its key is claimed every send of a message was reported as failed *)
(* and it is not dead-lettered; while no check failed open, the one thread *)
(* that claimed a key is the only one that may send or bury, and it has    *)
(* done neither, but for the send whose answer it awaits.  While the       *)
(* shutdown cancels, nobody can.                                           *)
Active(t) == pc[t] \in {"send", "taken", "bury"} /\ KeyOf[cur[t]] # NoKey
SameKey(t, u) == KeyOf[cur[t]] = KeyOf[cur[u]]
Untouched(k) == \A m \in Messages : KeyOf[m] = k => sent[m] <= lost[m] /\ dead[m] = 0
UntouchedBut(t) ==
  \A m \in Messages : KeyOf[m] = KeyOf[cur[t]] =>
    /\ dead[m] = 0 /\ sent[m] <= lost[m] + 1
    /\ sent[m] > lost[m] => pc[t] = "taken" /\ m = cur[t]

UnclaimedUntouched == \A k \in Keys \ keys : Untouched(k)
OneClaimant ==
  phase # "stopping" =>
    \A t \in Threads : Active(t) =>
      /\ KeyOf[cur[t]] \in keys /\ UntouchedBut(t)
      /\ \A u \in Threads : Active(u) /\ SameKey(t, u) => u = t
ClaimsOK == UnclaimedUntouched /\ OneClaimant /\ DeadOrSent
ClaimInv == failOpen = 0 => ClaimsOK

LEMMA ClaimNext == PlacesInv /\ ClaimInv /\ [Next]_vars => ClaimInv'
<1> SUFFICES ASSUME PlacesInv, ClaimInv, [Next]_vars, failOpen' = 0
             PROVE ClaimsOK'
  BY DEF ClaimInv
<1> USE LimitsAssumption, AttemptsAssumption, MessagesAssumption, ThreadsAssumption
    DEF PlacesInv, TypeOK, Keys, Threads,
        ClaimInv, ClaimsOK, UnclaimedUntouched, OneClaimant, DeadOrSent,
        Active, SameKey, Untouched, UntouchedBut,
        Goto, Fault, NoFault, Count, Cancelled, Take, Leave, AnswerLost,
        redisVars, threadVars, outcomeVars, stopVars
<1>1. ASSUME Claim PROVE ClaimsOK'
  BY <1>1 DEF Claim
<1>2. ASSUME NEW m \in Messages, NextOfBatch(m) PROVE ClaimsOK'
  BY <1>2 DEF NextOfBatch
<1>3. ASSUME StartDrain PROVE ClaimsOK'
  BY <1>3 DEF StartDrain
<1>4. ASSUME Exit PROVE ClaimsOK'
  BY <1>4 DEF Exit
<1>5. ASSUME Shutdown PROVE ClaimsOK'
  BY <1>5 DEF Shutdown
<1>6. ASSUME Crash PROVE ClaimsOK'
  BY <1>6 DEF Crash
<1>7. ASSUME NEW m \in Messages, ReadLost(m) PROVE ClaimsOK'
  BY <1>7 DEF ReadLost
<1>8. ASSUME NEW t \in Threads, NEW m \in Messages, Read(t, m) PROVE ClaimsOK'
  BY <1>8 DEF Read
<1>9. ASSUME NEW t \in Threads, CheckDuplicate(t) PROVE ClaimsOK'
  BY <1>9 DEF CheckDuplicate
<1>10. ASSUME NEW t \in Threads, CheckFails(t) PROVE ClaimsOK'
  BY <1>10 DEF CheckFails
<1>11. ASSUME NEW t \in Threads, SendOk(t) PROVE ClaimsOK'
  BY <1>11 DEF SendOk
<1>12. ASSUME NEW t \in Threads, SendFails(t) PROVE ClaimsOK'
  BY <1>12 DEF SendFails
<1>13. ASSUME NEW t \in Threads, SendCancelled(t) PROVE ClaimsOK'
  BY <1>13 DEF SendCancelled
<1>14. ASSUME NEW t \in Threads, Bury(t) PROVE ClaimsOK'
  BY <1>14 DEF Bury
<1>15. ASSUME NEW t \in Threads, Again(t) PROVE ClaimsOK'
  BY <1>15 DEF Again
<1>16. ASSUME NEW t \in Threads, GiveUp(t) PROVE ClaimsOK'
  BY <1>16 DEF GiveUp
<1>17. ASSUME NEW t \in Threads, Ack(t) PROVE ClaimsOK'
  BY <1>17 DEF Ack
<1>18. CASE UNCHANGED vars
  BY <1>18 DEF vars, stopVars
<1>19. ASSUME NEW t \in Threads, Deliver(t) PROVE ClaimsOK'
  BY <1>19 DEF Deliver
<1> QED
  BY <1>1, <1>2, <1>3, <1>4, <1>5, <1>6, <1>7, <1>8, <1>9, <1>10,
     <1>11, <1>12, <1>13, <1>14, <1>15, <1>16, <1>17, <1>18, <1>19
     DEF Next, Work, Stopping, Process, Fetch

(* A keyed message is dead-lettered only if every send the platform took   *)
(* was reported to the gateway as failed.                                  *)
THEOREM NotBothDeadAndSent == Spec => []DeadOrSent
<1>1. Init => ClaimInv
  BY DEF Init, ClaimInv, ClaimsOK, UnclaimedUntouched, OneClaimant, DeadOrSent,
     Active, Untouched, UntouchedBut
<1>2. ClaimInv => DeadOrSent
  BY DEF ClaimInv, ClaimsOK, DeadOrSent
<1> QED
  BY PlacesInit, PlacesNext, <1>1, <1>2, ClaimNext, PTL DEF Spec

-----------------------------------------------------------------------------
(* A claimed key allows one send, and so does every check that failed      *)
(* open: the sends that were not reported as failed and the threads about  *)
(* to send stay within that budget.  A thread that awaits an answer holds  *)
(* a send of its own, which a lost answer takes out of the count.          *)
Sending(k) == {t \in Threads : pc[t] = "send" /\ KeyOf[cur[t]] = k}
Awaiting(m) == {t \in Threads : pc[t] = "taken" /\ cur[t] = m}
Budget(k) == (IF k \in keys THEN 1 ELSE 0) + failOpen
WithinBudget(k) ==
  /\ IsFiniteSet(Sends(k))
  /\ Cardinality(Sends(k)) <= Budget(k)
  /\ phase # "stopping" => Cardinality(Sends(k)) + Cardinality(Sending(k)) <= Budget(k)
BudgetInv == \A k \in Keys : WithinBudget(k)
AnswersInv == \A m \in Messages : lost[m] + Cardinality(Awaiting(m)) <= sent[m]

\* One more element is at most one more.
LEMMA AddOne ==
  ASSUME NEW S, IsFiniteSet(S), NEW x
  PROVE  /\ IsFiniteSet(S \cup {x}) /\ Cardinality(S \cup {x}) \in Nat
         /\ Cardinality(S \cup {x}) <= Cardinality(S) + 1
<1>1. Cardinality(S) \in Nat
  BY FS_CardinalityType
<1>2. IsFiniteSet(S \cup {x})
  BY FS_AddElement
<1>3. Cardinality(S \cup {x}) = IF x \in S THEN Cardinality(S) ELSE Cardinality(S) + 1
  BY FS_AddElement, Zenon
<1> QED
  BY <1>1, <1>2, <1>3

LEMMA ThreadSetsFinite ==
  ASSUME NEW k
  PROVE  /\ IsFiniteSet(Sending(k)) /\ Cardinality(Sending(k)) \in Nat
         /\ IsFiniteSet(Awaiting(k)) /\ Cardinality(Awaiting(k)) \in Nat
<1>1. IsFiniteSet(Threads)
  BY ThreadsAssumption, FS_AddElement DEF Threads
<1>2. IsFiniteSet(Sending(k)) /\ IsFiniteSet(Awaiting(k))
  BY <1>1, FS_Subset DEF Sending, Awaiting
<1> QED
  BY <1>2, FS_CardinalityType

\* One more send of a message is at most one more send of its key.
LEMMA OneMoreSend ==
  ASSUME NEW k, NEW m \in Messages, sent \in [Messages -> Nat], lost \in [Messages -> Nat],
         sent' = Count(sent, m), lost' = lost, IsFiniteSet(Sends(k))
  PROVE  /\ KeyOf[m] # k => Sends(k)' = Sends(k)
         /\ IsFiniteSet(Sends(k)') /\ Cardinality(Sends(k)') \in Nat
         /\ Cardinality(Sends(k)') <= Cardinality(Sends(k)) + 1
<1> DEFINE s == <<m, sent[m] + 1>>
<1>1. Sends(k)' \subseteq Sends(k) \cup {s}
  BY DEF Sends, Count
<1>2. KeyOf[m] # k => Sends(k)' = Sends(k)
  BY DEF Sends, Count
<1> HIDE DEF s
<1>3. /\ IsFiniteSet(Sends(k) \cup {s})
      /\ Cardinality(Sends(k) \cup {s}) <= Cardinality(Sends(k)) + 1
      /\ Cardinality(Sends(k) \cup {s}) \in Nat
  BY AddOne, Zenon
<1>4. /\ IsFiniteSet(Sends(k)')
      /\ Cardinality(Sends(k)') <= Cardinality(Sends(k) \cup {s})
  BY <1>1, <1>3, FS_Subset
<1>5. Cardinality(Sends(k)) \in Nat /\ Cardinality(Sends(k)') \in Nat
  BY <1>4, FS_CardinalityType
<1> QED
  BY <1>2, <1>3, <1>4, <1>5

\* A send reported as failed no longer counts.
LEMMA OneSendLess ==
  ASSUME NEW k, NEW m \in Messages, sent \in [Messages -> Nat], lost \in [Messages -> Nat],
         sent' = sent, lost' = Count(lost, m), IsFiniteSet(Sends(k))
  PROVE  /\ IsFiniteSet(Sends(k)') /\ Cardinality(Sends(k)') \in Nat
         /\ Cardinality(Sends(k)') <= Cardinality(Sends(k))
         /\ KeyOf[m] = k /\ lost[m] < sent[m] => Cardinality(Sends(k)') <= Cardinality(Sends(k)) - 1
<1> DEFINE s == <<m, lost[m] + 1>>
<1>1. Sends(k)' \subseteq Sends(k)
  BY DEF Sends, Count
<1>2. /\ KeyOf[m] = k /\ lost[m] < sent[m] => s \in Sends(k)
      /\ s \notin Sends(k)'
  BY DEF Sends, Count
<1> HIDE DEF s
<1>3. /\ IsFiniteSet(Sends(k)') /\ Cardinality(Sends(k)') <= Cardinality(Sends(k))
      /\ Cardinality(Sends(k)) \in Nat /\ Cardinality(Sends(k)') \in Nat
  BY <1>1, FS_Subset, FS_CardinalityType
<1>4. ASSUME KeyOf[m] = k, lost[m] < sent[m]
      PROVE  Cardinality(Sends(k)') <= Cardinality(Sends(k)) - 1
  <2>1. /\ IsFiniteSet(Sends(k) \ {s}) /\ Cardinality(Sends(k) \ {s}) = Cardinality(Sends(k)) - 1
    BY <1>2, <1>4, FS_RemoveElement
  <2>2. Sends(k)' \subseteq Sends(k) \ {s}
    BY <1>1, <1>2
  <2> QED
    BY <2>1, <2>2, FS_Subset
<1> QED
  BY <1>3, <1>4

\* What a step may do to the sends and to the answers awaited.
QuietStep ==
  /\ UNCHANGED <<sent, lost>> /\ keys \subseteq keys' /\ failOpen' = failOpen
  /\ phase' # "stopping" =>
       \A k \in Keys : Sending(k)' = {} \/ (phase # "stopping" /\ Sending(k)' \subseteq Sending(k))
  /\ \A m \in Messages : Awaiting(m)' \subseteq Awaiting(m)
PassStep(t) ==
  /\ UNCHANGED <<sent, lost, phase>> /\ phase # "stopping" /\ keys \subseteq keys'
  /\ \A k \in Keys : Sending(k)' \subseteq Sending(k) \cup {t}
  /\ \A k \in Keys : k # KeyOf[cur[t]] => Sending(k)' \subseteq Sending(k)
  /\ \/ failOpen' = failOpen + 1
     \/ failOpen' = failOpen /\ KeyOf[cur[t]] \in keys' \ keys
  /\ \A m \in Messages : Awaiting(m)' \subseteq Awaiting(m)
SentStep(t) ==
  /\ UNCHANGED <<phase, keys, failOpen, lost>> /\ phase # "stopping"
  /\ cur[t] \in Messages /\ sent' = Count(sent, cur[t])
  /\ t \in Sending(KeyOf[cur[t]])
  /\ \A k \in Keys : Sending(k)' \subseteq Sending(k) \ {t}
  /\ \A m \in Messages : Awaiting(m)' \subseteq Awaiting(m) \cup {t}
  /\ \A m \in Messages : m # cur[t] => Awaiting(m)' \subseteq Awaiting(m)
LostStep(t) ==
  /\ UNCHANGED <<phase, keys, failOpen, sent>>
  /\ cur[t] \in Messages /\ lost' = Count(lost, cur[t])
  /\ \A k \in Keys : Sending(k)' \subseteq Sending(k) \cup {t}
  /\ \A k \in Keys : k # KeyOf[cur[t]] => Sending(k)' \subseteq Sending(k)
  /\ t \in Awaiting(cur[t])
  /\ \A m \in Messages : Awaiting(m)' \subseteq Awaiting(m) \ {t}
BudgetStep == QuietStep \/ \E t \in Threads : PassStep(t) \/ SentStep(t) \/ LostStep(t)

LEMMA EveryBudgetStep == PlacesInv /\ [Next]_vars => BudgetStep
<1> SUFFICES ASSUME PlacesInv, [Next]_vars PROVE BudgetStep
  OBVIOUS
<1> USE LimitsAssumption, AttemptsAssumption, MessagesAssumption, ThreadsAssumption
    DEF PlacesInv, TypeOK, Keys, Threads,
        Sending, Awaiting, Steps, Goto, Fault, NoFault, Count, Cancelled, Take, Leave, AnswerLost,
        redisVars, threadVars, outcomeVars, stopVars
<1>1. ASSUME Claim PROVE BudgetStep
  BY <1>1 DEF Claim, BudgetStep, QuietStep
<1>2. ASSUME NEW m \in Messages, NextOfBatch(m) PROVE BudgetStep
  BY <1>2 DEF NextOfBatch, BudgetStep, QuietStep
<1>3. ASSUME StartDrain PROVE BudgetStep
  BY <1>3 DEF StartDrain, BudgetStep, QuietStep
<1>4. ASSUME Exit PROVE BudgetStep
  BY <1>4 DEF Exit, BudgetStep, QuietStep
<1>5. ASSUME Shutdown PROVE BudgetStep
  BY <1>5 DEF Shutdown, BudgetStep, QuietStep
<1>6. ASSUME Crash PROVE BudgetStep
  BY <1>6 DEF Crash, BudgetStep, QuietStep
<1>7. ASSUME NEW m \in Messages, ReadLost(m) PROVE BudgetStep
  BY <1>7 DEF ReadLost, BudgetStep, QuietStep
<1>8. ASSUME NEW t \in Threads, NEW m \in Messages, Read(t, m) PROVE BudgetStep
  BY <1>8 DEF Read, BudgetStep, QuietStep
<1>9. ASSUME NEW t \in Threads, CheckDuplicate(t) PROVE BudgetStep
  <2>1. CASE KeyOf[cur[t]] \notin Keys \ keys
    BY <1>9, <2>1 DEF CheckDuplicate, BudgetStep, QuietStep
  <2>2. CASE KeyOf[cur[t]] \in Keys \ keys
    <3>1. PassStep(t)
      BY <1>9, <2>2 DEF CheckDuplicate, PassStep
    <3> QED
      BY <3>1 DEF BudgetStep
  <2> QED
    BY <2>1, <2>2
<1>10. ASSUME NEW t \in Threads, CheckFails(t) PROVE BudgetStep
  <2>1. CASE Cancelled(t)
    BY <1>10, <2>1 DEF CheckFails, BudgetStep, QuietStep
  <2>2. CASE ~Cancelled(t)
    <3>1. PassStep(t)
      BY <1>10, <2>2 DEF CheckFails, PassStep
    <3> QED
      BY <3>1 DEF BudgetStep
  <2> QED
    BY <2>1, <2>2
<1>11. ASSUME NEW t \in Threads, SendOk(t) PROVE BudgetStep
  BY <1>11 DEF SendOk, BudgetStep, QuietStep
<1>12. ASSUME NEW t \in Threads, SendFails(t) PROVE BudgetStep
  <2>1. CASE pc[t] = "taken"
    <3>1. LostStep(t)
      BY <1>12, <2>1 DEF SendFails, LostStep
    <3> QED
      BY <3>1 DEF BudgetStep
  <2>2. CASE pc[t] = "send"
    BY <1>12, <2>2 DEF SendFails, BudgetStep, QuietStep
  <2> QED
    BY <1>12, <2>1, <2>2 DEF SendFails
<1>13. ASSUME NEW t \in Threads, SendCancelled(t) PROVE BudgetStep
  <2>1. CASE pc[t] = "taken"
    <3>1. LostStep(t)
      BY <1>13, <2>1 DEF SendCancelled, LostStep
    <3> QED
      BY <3>1 DEF BudgetStep
  <2>2. CASE pc[t] = "send"
    BY <1>13, <2>2 DEF SendCancelled, BudgetStep, QuietStep
  <2> QED
    BY <1>13, <2>1, <2>2 DEF SendCancelled
<1>14. ASSUME NEW t \in Threads, Bury(t) PROVE BudgetStep
  BY <1>14 DEF Bury, BudgetStep, QuietStep
<1>15. ASSUME NEW t \in Threads, Again(t) PROVE BudgetStep
  BY <1>15 DEF Again, BudgetStep, QuietStep
<1>16. ASSUME NEW t \in Threads, GiveUp(t) PROVE BudgetStep
  BY <1>16 DEF GiveUp, BudgetStep, QuietStep
<1>17. ASSUME NEW t \in Threads, Ack(t) PROVE BudgetStep
  BY <1>17 DEF Ack, BudgetStep, QuietStep
<1>18. CASE UNCHANGED vars
  BY <1>18 DEF vars, stopVars, BudgetStep, QuietStep
<1>19. ASSUME NEW t \in Threads, Deliver(t) PROVE BudgetStep
  <2>1. SentStep(t)
    BY <1>19 DEF Deliver, SentStep
  <2> QED
    BY <2>1 DEF BudgetStep
<1> QED
  BY <1>1, <1>2, <1>3, <1>4, <1>5, <1>6, <1>7, <1>8, <1>9, <1>10,
     <1>11, <1>12, <1>13, <1>14, <1>15, <1>16, <1>17, <1>18, <1>19
     DEF Next, Work, Stopping, Process, Fetch

\* As many sends as answers awaited are not reported as failed yet.
LEMMA AnswersNext == PlacesInv /\ AnswersInv /\ BudgetStep => AnswersInv'
<1> SUFFICES ASSUME PlacesInv, AnswersInv, BudgetStep, NEW m \in Messages
             PROVE (lost[m] + Cardinality(Awaiting(m)) <= sent[m])'
  BY DEF AnswersInv
<1>1. sent \in [Messages -> Nat] /\ lost \in [Messages -> Nat]
  BY DEF PlacesInv, TypeOK
<1>2. lost[m] + Cardinality(Awaiting(m)) <= sent[m]
  BY DEF AnswersInv
<1>3. IsFiniteSet(Awaiting(m)) /\ Cardinality(Awaiting(m)) \in Nat
  BY ThreadSetsFinite
<1>4. ASSUME UNCHANGED <<sent, lost>>, Awaiting(m)' \subseteq Awaiting(m)
      PROVE  (lost[m] + Cardinality(Awaiting(m)) <= sent[m])'
  <2>1. Cardinality(Awaiting(m)') <= Cardinality(Awaiting(m)) /\ Cardinality(Awaiting(m)') \in Nat
    BY <1>3, <1>4, FS_Subset, FS_CardinalityType
  <2> QED
    BY <1>1, <1>2, <1>3, <1>4, <2>1
<1>5. CASE QuietStep
  BY <1>4, <1>5 DEF QuietStep
<1>6. ASSUME NEW t \in Threads, PassStep(t) PROVE (lost[m] + Cardinality(Awaiting(m)) <= sent[m])'
  BY <1>4, <1>6 DEF PassStep
<1>7. ASSUME NEW t \in Threads, SentStep(t) PROVE (lost[m] + Cardinality(Awaiting(m)) <= sent[m])'
  <2>1. CASE m = cur[t]
    <3>1. /\ IsFiniteSet(Awaiting(m) \cup {t})
          /\ Cardinality(Awaiting(m) \cup {t}) \in Nat
          /\ Cardinality(Awaiting(m) \cup {t}) <= Cardinality(Awaiting(m)) + 1
      BY <1>3, AddOne, Zenon
    <3>2. /\ Cardinality(Awaiting(m)') <= Cardinality(Awaiting(m) \cup {t})
          /\ Cardinality(Awaiting(m)') \in Nat
      BY <1>7, <3>1, FS_Subset, FS_CardinalityType DEF SentStep
    <3>3. sent'[m] = sent[m] + 1 /\ lost'[m] = lost[m]
      BY <1>1, <1>7, <2>1 DEF SentStep, Count
    <3> QED
      BY <1>1, <1>2, <1>3, <3>1, <3>2, <3>3
  <2>2. CASE m # cur[t]
    <3>1. sent'[m] = sent[m] /\ lost'[m] = lost[m]
      BY <1>1, <1>7, <2>2 DEF SentStep, Count
    <3>2. Awaiting(m)' \subseteq Awaiting(m)
      BY <1>7, <2>2 DEF SentStep
    <3>3. Cardinality(Awaiting(m)') <= Cardinality(Awaiting(m)) /\ Cardinality(Awaiting(m)') \in Nat
      BY <1>3, <3>2, FS_Subset, FS_CardinalityType
    <3> QED
      BY <1>1, <1>2, <1>3, <3>1, <3>3
  <2> QED
    BY <2>1, <2>2
<1>8. ASSUME NEW t \in Threads, LostStep(t) PROVE (lost[m] + Cardinality(Awaiting(m)) <= sent[m])'
  <2>1. /\ IsFiniteSet(Awaiting(m) \ {t}) /\ Cardinality(Awaiting(m) \ {t}) \in Nat
        /\ Cardinality(Awaiting(m) \ {t}) =
             IF t \in Awaiting(m) THEN Cardinality(Awaiting(m)) - 1 ELSE Cardinality(Awaiting(m))
    BY <1>3, FS_RemoveElement, FS_CardinalityType
  <2>2. Cardinality(Awaiting(m)') <= Cardinality(Awaiting(m) \ {t}) /\ Cardinality(Awaiting(m)') \in Nat
    BY <1>8, <2>1, FS_Subset, FS_CardinalityType DEF LostStep
  <2>3. CASE m = cur[t]
    <3>1. sent'[m] = sent[m] /\ lost'[m] = lost[m] + 1 /\ t \in Awaiting(m)
      BY <1>1, <1>8, <2>3 DEF LostStep, Count
    <3> QED
      BY <1>1, <1>2, <1>3, <2>1, <2>2, <3>1
  <2>4. CASE m # cur[t]
    <3>1. sent'[m] = sent[m] /\ lost'[m] = lost[m]
      BY <1>1, <1>8, <2>4 DEF LostStep, Count
    <3> QED
      BY <1>1, <1>2, <1>3, <2>1, <2>2, <3>1
  <2> QED
    BY <2>3, <2>4
<1> QED
  BY <1>5, <1>6, <1>7, <1>8 DEF BudgetStep

\* Who awaits an answer holds a send that is not reported as failed.
LEMMA AwaitedSend ==
  ASSUME PlacesInv, AnswersInv, NEW m \in Messages, NEW t \in Awaiting(m)
  PROVE  lost[m] < sent[m]
<1>1. Cardinality(Awaiting(m)) # 0 /\ Cardinality(Awaiting(m)) \in Nat
  BY ThreadSetsFinite, FS_EmptySet
<1>2. lost[m] + Cardinality(Awaiting(m)) <= sent[m] /\ lost[m] \in Nat /\ sent[m] \in Nat
  BY DEF AnswersInv, PlacesInv, TypeOK
<1> QED
  BY <1>1, <1>2

LEMMA BudgetNext == PlacesInv /\ AnswersInv /\ BudgetInv /\ BudgetStep => BudgetInv'
<1> SUFFICES ASSUME PlacesInv, AnswersInv, BudgetInv, BudgetStep, NEW k \in Keys
             PROVE WithinBudget(k)'
  BY DEF BudgetInv, Keys
<1>1. failOpen \in Nat /\ sent \in [Messages -> Nat] /\ lost \in [Messages -> Nat]
  BY LimitsAssumption DEF PlacesInv, TypeOK
<1>2. WithinBudget(k)
  BY DEF BudgetInv
<1>3. /\ IsFiniteSet(Sending(k)) /\ Cardinality(Sending(k)) \in Nat
      /\ IsFiniteSet(Sends(k)) /\ Cardinality(Sends(k)) \in Nat
  BY <1>2, ThreadSetsFinite, FS_CardinalityType DEF WithinBudget
<1>4. CASE QuietStep
  <2>1. Sends(k)' = Sends(k)
    BY <1>4 DEF QuietStep, Sends
  <2>2. Sending(k)' \subseteq Sending(k) => Cardinality(Sending(k)') <= Cardinality(Sending(k))
    BY <1>3, FS_Subset
  <2>3. Sending(k)' = {} => Cardinality(Sending(k)') = 0
    BY FS_EmptySet
  <2>4. Budget(k) <= Budget(k)'
    BY <1>1, <1>4 DEF QuietStep, Budget
  <2>5. Cardinality(Sending(k)') <= 0 \/ Cardinality(Sending(k)') <= Cardinality(Sending(k))
        \/ phase' = "stopping"
    BY <1>4, <2>2, <2>3 DEF QuietStep
  <2>6. Budget(k) \in Nat /\ Budget(k)' \in Nat
    BY <1>1, <1>4 DEF QuietStep, Budget
  <2>7. CASE phase' = "stopping"
    BY <1>2, <1>3, <2>1, <2>4, <2>6, <2>7 DEF WithinBudget
  <2>8. CASE phase' # "stopping" /\ Sending(k)' = {}
    BY <1>2, <1>3, <2>1, <2>3, <2>4, <2>6, <2>8 DEF WithinBudget
  <2>9. CASE phase' # "stopping" /\ phase # "stopping" /\ Sending(k)' \subseteq Sending(k)
    <3>1. Cardinality(Sending(k)') \in Nat
      BY <1>3, <2>9, FS_Subset, FS_CardinalityType
    <3> QED
      BY <1>2, <1>3, <2>1, <2>2, <2>4, <2>6, <2>9, <3>1 DEF WithinBudget
  <2> QED
    BY <1>4, <2>7, <2>8, <2>9 DEF QuietStep
<1>5. ASSUME NEW t \in Threads, PassStep(t) PROVE WithinBudget(k)'
  <2>1. Sends(k)' = Sends(k)
    BY <1>5 DEF PassStep, Sends
  <2>2. Budget(k) \in Nat /\ Budget(k)' \in Nat /\ Budget(k) <= Budget(k)'
    BY <1>1, <1>5 DEF PassStep, Budget
  <2>3. CASE k = KeyOf[cur[t]]
    <3>1. Budget(k)' >= Budget(k) + 1
      BY <1>1, <1>5, <2>3 DEF PassStep, Budget
    <3>2. /\ IsFiniteSet(Sending(k) \cup {t})
          /\ Cardinality(Sending(k) \cup {t}) \in Nat
          /\ Cardinality(Sending(k) \cup {t}) <= Cardinality(Sending(k)) + 1
      BY <1>3, AddOne, Zenon
    <3>3. /\ Cardinality(Sending(k)') <= Cardinality(Sending(k) \cup {t})
          /\ Cardinality(Sending(k)') \in Nat
      BY <1>5, <3>2, FS_Subset, FS_CardinalityType DEF PassStep
    <3> QED
      BY <1>2, <1>3, <1>5, <2>1, <2>2, <3>1, <3>2, <3>3 DEF WithinBudget, PassStep
  <2>4. CASE k # KeyOf[cur[t]]
    <3>1. /\ Cardinality(Sending(k)') <= Cardinality(Sending(k))
          /\ Cardinality(Sending(k)') \in Nat
      BY <1>3, <1>5, <2>4, FS_Subset, FS_CardinalityType DEF PassStep
    <3> QED
      BY <1>2, <1>3, <1>5, <2>1, <2>2, <3>1 DEF WithinBudget, PassStep
  <2> QED
    BY <2>3, <2>4
<1>6. ASSUME NEW t \in Threads, SentStep(t) PROVE WithinBudget(k)'
  <2>1. Budget(k) \in Nat /\ Budget(k)' = Budget(k)
    BY <1>1, <1>6 DEF SentStep, Budget
  <2>2. /\ IsFiniteSet(Sending(k) \ {t}) /\ Cardinality(Sending(k) \ {t}) \in Nat
        /\ Cardinality(Sending(k) \ {t}) =
             IF t \in Sending(k) THEN Cardinality(Sending(k)) - 1 ELSE Cardinality(Sending(k))
    BY <1>3, FS_RemoveElement, FS_CardinalityType
  <2>3. /\ Cardinality(Sending(k)') <= Cardinality(Sending(k) \ {t})
        /\ Cardinality(Sending(k)') \in Nat
    BY <1>6, <2>2, FS_Subset, FS_CardinalityType DEF SentStep
  <2>4. /\ KeyOf[cur[t]] # k => Sends(k)' = Sends(k)
        /\ IsFiniteSet(Sends(k)') /\ Cardinality(Sends(k)') \in Nat
        /\ Cardinality(Sends(k)') <= Cardinality(Sends(k)) + 1
    BY <1>1, <1>3, <1>6, OneMoreSend DEF SentStep
  <2>5. CASE k = KeyOf[cur[t]]
    BY <1>2, <1>3, <1>6, <2>1, <2>2, <2>3, <2>4, <2>5 DEF WithinBudget, SentStep
  <2>6. CASE k # KeyOf[cur[t]]
    BY <1>2, <1>3, <1>6, <2>1, <2>2, <2>3, <2>4, <2>6 DEF WithinBudget, SentStep
  <2> QED
    BY <2>5, <2>6
<1>7. ASSUME NEW t \in Threads, LostStep(t) PROVE WithinBudget(k)'
  <2>1. Budget(k) \in Nat /\ Budget(k)' = Budget(k)
    BY <1>1, <1>7 DEF LostStep, Budget
  <2>2. lost[cur[t]] < sent[cur[t]]
    BY <1>7, AwaitedSend DEF LostStep
  <2>3. /\ IsFiniteSet(Sends(k)') /\ Cardinality(Sends(k)') \in Nat
        /\ Cardinality(Sends(k)') <= Cardinality(Sends(k))
        /\ KeyOf[cur[t]] = k => Cardinality(Sends(k)') <= Cardinality(Sends(k)) - 1
    BY <1>1, <1>3, <1>7, <2>2, OneSendLess DEF LostStep
  <2>4. CASE k = KeyOf[cur[t]]
    <3>1. /\ IsFiniteSet(Sending(k) \cup {t})
          /\ Cardinality(Sending(k) \cup {t}) \in Nat
          /\ Cardinality(Sending(k) \cup {t}) <= Cardinality(Sending(k)) + 1
      BY <1>3, AddOne, Zenon
    <3>2. /\ Cardinality(Sending(k)') <= Cardinality(Sending(k) \cup {t})
          /\ Cardinality(Sending(k)') \in Nat
      BY <1>7, <3>1, FS_Subset, FS_CardinalityType DEF LostStep
    <3> QED
      BY <1>2, <1>3, <1>7, <2>1, <2>3, <2>4, <3>1, <3>2 DEF WithinBudget, LostStep
  <2>5. CASE k # KeyOf[cur[t]]
    <3>1. /\ Cardinality(Sending(k)') <= Cardinality(Sending(k))
          /\ Cardinality(Sending(k)') \in Nat
      BY <1>3, <1>7, <2>5, FS_Subset, FS_CardinalityType DEF LostStep
    <3> QED
      BY <1>2, <1>3, <1>7, <2>1, <2>3, <3>1 DEF WithinBudget, LostStep
  <2> QED
    BY <2>4, <2>5
<1> QED
  BY <1>4, <1>5, <1>6, <1>7 DEF BudgetStep

LEMMA BudgetInit == Init => BudgetInv /\ AnswersInv
<1> SUFFICES ASSUME Init PROVE BudgetInv /\ AnswersInv
  OBVIOUS
<1>1. ASSUME NEW k \in Keys PROVE WithinBudget(k)
  <2>1. Sends(k) = {} /\ Sending(k) = {}
    BY DEF Init, Sends, Sending
  <2>2. Budget(k) = 0
    BY DEF Init, Budget
  <2> QED
    BY <2>1, <2>2, FS_EmptySet DEF WithinBudget
<1>2. ASSUME NEW m \in Messages PROVE lost[m] + Cardinality(Awaiting(m)) <= sent[m]
  <2>1. Awaiting(m) = {} /\ lost[m] = 0 /\ sent[m] = 0
    BY DEF Init, Awaiting
  <2> QED
    BY <2>1, FS_EmptySet
<1> QED
  BY <1>1, <1>2 DEF BudgetInv, AnswersInv

(* Of all messages with one dedup key the platform takes at most one, one  *)
(* more for every check that failed open, and one for every send that was  *)
(* reported to the gateway as failed.                                      *)
THEOREM SendsBounded == Spec => []SentOncePerKey
<1>1. PlacesInv /\ BudgetInv => SentOncePerKey
  <2> SUFFICES ASSUME PlacesInv, NEW k \in Keys, WithinBudget(k)
               PROVE Cardinality(Sends(k)) <= 1 + failOpen
    BY DEF BudgetInv, SentOncePerKey
  <2>1. failOpen \in Nat
    BY LimitsAssumption DEF PlacesInv, TypeOK
  <2> QED
    BY <2>1, FS_CardinalityType DEF WithinBudget, Budget
<1> QED
  BY PlacesInit, PlacesNext, BudgetInit, BudgetNext, AnswersNext, EveryBudgetStep, <1>1, PTL DEF Spec
=============================================================================
