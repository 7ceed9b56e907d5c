------------------------ MODULE InboundQueueProofs ------------------------
(***************************************************************************)
(* The stream and its pending entries: every pending entry has exactly one *)
(* owner, no published entry disappears, and with the other parts the type *)
(* invariant.  The bags are natural numbers only because of the ownership: *)
(* an acknowledgement takes an entry that is pending for its holder.  Last, *)
(* what an acknowledgement means for the customer while nothing fails.     *)
(***************************************************************************)
EXTENDS InboundRouterProofs

\* Workers between the copy of their entry and its acknowledgement.
Copied(m) == {w \in Workers : cur[w] = m /\ pc[w] = "requeued"}
NothingLost ==
  \A m \in Messages :
    Arrivals[m] - toPublish[m] + Cardinality(Copied(m)) <= stream[m] + pel[m] + settled[m]

QueueInv == QueuesOK /\ PendingIsOwned /\ NothingLost

-----------------------------------------------------------------------------
(* What a step may do to the entries.                                      *)
SameHeld == \A n \in Messages : Held(n)' = Held(n)
SameCopied == \A n \in Messages : Copied(n)' = Copied(n)
FewerCopied == \A n \in Messages : Copied(n)' \subseteq Copied(n)

KeepStep == /\ SameHeld /\ SameCopied
            /\ UNCHANGED <<toPublish, stream, pel, toDrain, settled, stranded>>
            /\ phase' \in {phase, "running"}
PublishStep(m) ==
  /\ SameHeld /\ SameCopied /\ UNCHANGED <<pel, toDrain, settled, stranded, phase>>
  /\ toPublish[m] > 0 /\ toPublish' = Dec(toPublish, m) /\ stream' = Inc(stream, m)
TakeStep(m, w) ==
  /\ w \notin Held(m) /\ SameCopied /\ UNCHANGED <<toPublish, settled, stranded, phase>>
  /\ \A n \in Messages : Held(n)' = IF n = m THEN Held(n) \cup {w} ELSE Held(n)
  /\ \/ /\ stream[m] > 0 /\ stream' = Dec(stream, m) /\ pel' = Inc(pel, m)
        /\ UNCHANGED toDrain
     \/ toDrain[m] > 0 /\ toDrain' = Dec(toDrain, m) /\ UNCHANGED <<stream, pel>>
CopyStep(m, w) ==
  /\ SameHeld /\ UNCHANGED <<toPublish, pel, toDrain, settled, stranded, phase>>
  /\ \A n \in Messages : Copied(n)' \subseteq IF n = m THEN Copied(n) \cup {w} ELSE Copied(n)
  /\ stream' = Inc(stream, m)
LeaveStep(m, w) ==
  /\ w \in Held(m) /\ FewerCopied /\ UNCHANGED <<toPublish, toDrain, phase>>
  /\ \A n \in Messages : Held(n)' = IF n = m THEN Held(n) \ {w} ELSE Held(n)
  /\ \/ /\ pel' = Dec(pel, m) /\ UNCHANGED <<stream, stranded>>
        /\ \/ settled' = Inc(settled, m)
           \/ w \in Copied(m) /\ w \notin Copied(m)' /\ UNCHANGED settled
     \/ /\ stranded' = Inc(stranded, m) /\ UNCHANGED <<pel, settled>>
        /\ stream' \in {stream, Inc(stream, m)}
LostStep(m) ==
  /\ SameHeld /\ SameCopied /\ UNCHANGED <<toPublish, toDrain, settled, phase>>
  /\ stream[m] > 0 /\ stream' = Dec(stream, m) /\ pel' = Inc(pel, m) /\ stranded' = Inc(stranded, m)
StrandStep ==
  /\ SameHeld /\ SameCopied /\ UNCHANGED <<toPublish, stream, pel, settled>>
  /\ stranded' = [m \in Messages |-> stranded[m] + toDrain[m]] /\ toDrain' = Empty
  /\ phase' = "running"
RestartStep ==
  /\ \A n \in Messages : Held(n)' = {} /\ Copied(n)' = {}
  /\ UNCHANGED <<toPublish, stream, pel, settled>>
  /\ toDrain' = pel /\ stranded' = Empty /\ phase' = "draining"

QueueStep ==
  \/ KeepStep \/ StrandStep \/ RestartStep
  \/ \E m \in Messages : PublishStep(m) \/ LostStep(m)
  \/ \E m \in Messages, w \in Workers : TakeStep(m, w) \/ CopyStep(m, w) \/ LeaveStep(m, w)

LEMMA EveryQueueStep == ThreadsOK /\ [Next]_vars => QueueStep
<1> SUFFICES ASSUME ThreadsOK, [Next]_vars PROVE QueueStep
  OBVIOUS
<1> USE MessagesAssumption
    DEF ThreadsOK, Steps, LockedSteps, LateSteps, ToAI, ToHuman, Decisions, Held, Copied, SameHeld, SameCopied,
        FewerCopied, Goto, PutDown, queueVars, tableVars, convRows, convVars, lockVars, outVars
<1>1. ASSUME NEW w \in Workers, Routed(w) PROVE QueueStep
  BY <1>1 DEF Routed, QueueStep, KeepStep
<1>2. ASSUME NEW w \in Workers, Unroutable(w) PROVE QueueStep
  BY <1>2 DEF Unroutable, QueueStep, KeepStep
<1>3. ASSUME NEW w \in Workers, Acquire(w) PROVE QueueStep
  BY <1>3 DEF Acquire, QueueStep, KeepStep
<1>4. ASSUME NEW w \in Workers, LockWaitExceeded(w) PROVE QueueStep
  BY <1>4 DEF LockWaitExceeded, QueueStep, KeepStep
<1>5. ASSUME NEW w \in Workers, LockError(w) PROVE QueueStep
  BY <1>5 DEF LockError, QueueStep, KeepStep
<1>6. ASSUME NEW w \in Workers, Requeue(w) PROVE QueueStep
  <2>1. PICK m \in Messages : m = cur[w]
    BY <1>6 DEF Requeue
  <2>2. CopyStep(m, w)
    BY <1>6, <2>1 DEF Requeue, CopyStep
  <2> QED
    BY <2>2 DEF QueueStep
<1>7. ASSUME NEW w \in Workers, RequeueFails(w) PROVE QueueStep
  <2>1. PICK m \in Messages : m = cur[w]
    BY <1>7 DEF RequeueFails
  <2>2. LeaveStep(m, w)
    BY <1>7, <2>1 DEF RequeueFails, LeaveStep
  <2> QED
    BY <2>2 DEF QueueStep
<1>8. ASSUME NEW w \in Workers, AckRequeued(w) PROVE QueueStep
  <2>1. PICK m \in Messages : m = cur[w]
    BY <1>8 DEF AckRequeued
  <2>2. LeaveStep(m, w)
    BY <1>8, <2>1 DEF AckRequeued, LeaveStep
  <2> QED
    BY <2>2 DEF QueueStep
<1>9. ASSUME NEW w \in Workers, AckDropped(w) PROVE QueueStep
  <2>1. PICK m \in Messages : m = cur[w]
    BY <1>9 DEF AckDropped
  <2>2. LeaveStep(m, w)
    BY <1>9, <2>1 DEF AckDropped, LeaveStep
  <2> QED
    BY <2>2 DEF QueueStep
<1>10. ASSUME NEW w \in Workers, FindConversation(w) PROVE QueueStep
  BY <1>10 DEF FindConversation, QueueStep, KeepStep
<1>11. ASSUME NEW w \in Workers, CreateConversation(w) PROVE QueueStep
  BY <1>11 DEF CreateConversation, QueueStep, KeepStep
<1>12. ASSUME NEW w \in Workers, StoreMessage(w) PROVE QueueStep
  BY <1>12 DEF StoreMessage, QueueStep, KeepStep
<1>13. ASSUME NEW w \in Workers, DatabaseError(w) PROVE QueueStep
  BY <1>13 DEF DatabaseError, QueueStep, KeepStep
<1>14. ASSUME NEW w \in Workers, SwitchOnState(w) PROVE QueueStep
  BY <1>14 DEF SwitchOnState, QueueStep, KeepStep
<1>15. ASSUME NEW w \in Workers, SurveyReply(w) PROVE QueueStep
  BY <1>15 DEF SurveyReply, QueueStep, KeepStep
<1>16. ASSUME NEW w \in Workers, TransitionState(w) PROVE QueueStep
  BY <1>16 DEF TransitionState, QueueStep, KeepStep
<1>17. ASSUME NEW w \in Workers, WriteRow(w) PROVE QueueStep
  BY <1>17 DEF WriteRow, QueueStep, KeepStep
<1>18. ASSUME NEW w \in Workers, WriteSession(w) PROVE QueueStep
  BY <1>18 DEF WriteSession, QueueStep, KeepStep
<1>19. ASSUME NEW w \in Workers, Ask(w) PROVE QueueStep
  BY <1>19 DEF Ask, QueueStep, KeepStep
<1>20. ASSUME NEW w \in Workers, DifyReturns(w) PROVE QueueStep
  BY <1>20 DEF DifyReturns, QueueStep, KeepStep
<1>21. ASSUME NEW w \in Workers, PublishReply(w) PROVE QueueStep
  BY <1>21 DEF PublishReply, QueueStep, KeepStep
<1>22. ASSUME NEW w \in Workers, PublishHandoffEvent(w) PROVE QueueStep
  BY <1>22 DEF PublishHandoffEvent, QueueStep, KeepStep
<1>23. ASSUME NEW w \in Workers, Forward(w) PROVE QueueStep
  BY <1>23 DEF Forward, QueueStep, KeepStep
<1>24. ASSUME NEW w \in Workers, Ack(w) PROVE QueueStep
  <2>1. PICK m \in Messages : m = cur[w]
    BY <1>24 DEF Ack
  <2>2. LeaveStep(m, w)
    BY <1>24, <2>1 DEF Ack, LeaveStep
  <2> QED
    BY <2>2 DEF QueueStep
<1>25. ASSUME NEW w \in Workers, Release(w) PROVE QueueStep
  BY <1>25 DEF Release, QueueStep, KeepStep
<1>26. ASSUME NEW w \in Workers, NEW m \in Messages, Read(w, m) PROVE QueueStep
  BY <1>26 DEF Read, QueueStep, TakeStep
<1>27. ASSUME NEW m \in Messages, Publish(m) PROVE QueueStep
  BY <1>27 DEF Publish, QueueStep, PublishStep
<1>28. ASSUME NEW m \in Messages, ReadLost(m) PROVE QueueStep
  BY <1>28 DEF ReadLost, QueueStep, LostStep
<1>29. ASSUME NEW m \in Messages, DrainNext(m) PROVE QueueStep
  BY <1>29, WorkersAssumption DEF DrainNext, QueueStep, TakeStep
<1>30. CASE DrainDone
  BY <1>30 DEF DrainDone, QueueStep, KeepStep
<1>31. CASE DrainFails
  BY <1>31 DEF DrainFails, QueueStep, StrandStep
<1>32. ASSUME NEW c \in Customers, LockExpires(c) PROVE QueueStep
  BY <1>32 DEF LockExpires, QueueStep, KeepStep
<1>33. ASSUME NEW p \in Pairs, IdleClose(p) PROVE QueueStep
  BY <1>33 DEF IdleClose, QueueStep, KeepStep
<1>34. ASSUME NEW p \in Pairs, InvalidateSession(p) PROVE QueueStep
  BY <1>34 DEF InvalidateSession, QueueStep, KeepStep
<1>35. ASSUME NEW p \in Pairs, CloseCallback(p) PROVE QueueStep
  BY <1>35 DEF CloseCallback, QueueStep, KeepStep
<1>36. ASSUME NEW p \in Pairs, SurveyLapses(p) PROVE QueueStep
  BY <1>36 DEF SurveyLapses, QueueStep, KeepStep
<1>37. ASSUME NEW p \in Pairs, SessionExpires(p) PROVE QueueStep
  BY <1>37 DEF SessionExpires, QueueStep, KeepStep
<1>38. ASSUME NEW p \in Pairs, HandlerTransition(p) PROVE QueueStep
  BY <1>38 DEF HandlerTransition, QueueStep, KeepStep
<1>39. ASSUME NEW p \in Pairs, HandlerRow(p) PROVE QueueStep
  BY <1>39 DEF HandlerRow, QueueStep, KeepStep
<1>40. ASSUME NEW p \in Pairs, HandlerSession(p) PROVE QueueStep
  BY <1>40 DEF HandlerSession, QueueStep, KeepStep
<1>41. CASE NextMonth
  BY <1>41 DEF NextMonth, QueueStep, KeepStep
<1>42. CASE Crash
  BY <1>42 DEF Crash, QueueStep, RestartStep
<1>43. CASE UNCHANGED vars
  BY <1>43 DEF vars, QueueStep, KeepStep
<1> QED
  BY <1>1, <1>2, <1>3, <1>4, <1>5, <1>6, <1>7, <1>8, <1>9, <1>10, <1>11, <1>12, <1>13, <1>14,
     <1>15, <1>16, <1>17, <1>18, <1>19, <1>20, <1>21, <1>22, <1>23, <1>24, <1>25, <1>26, <1>27,
     <1>28, <1>29, <1>30, <1>31, <1>32, <1>33, <1>34, <1>35, <1>36, <1>37, <1>38, <1>39, <1>40,
     <1>41, <1>42, <1>43
  DEF Next, Consume, Environment, Beside, Process, Receive

-----------------------------------------------------------------------------
(* The invariant.                                                          *)
LEMMA QueueInit == Init => QueueInv
<1> SUFFICES ASSUME Init PROVE QueueInv
  OBVIOUS
<1>1. \A m \in Messages : Held(m) = {} /\ Copied(m) = {}
  BY MessagesAssumption DEF Init, Held, Copied
<1>2. \A m \in Messages : Cardinality(Held(m)) = 0 /\ Cardinality(Copied(m)) = 0
  BY <1>1, FS_EmptySet, Zenon
<1>3. QueuesOK
  BY MessagesAssumption DEF Init, QueuesOK, BagsOfMessages, Empty
<1>4. PendingIsOwned
  BY <1>2 DEF Init, PendingIsOwned, Empty
<1>5. NothingLost
  BY <1>2, MessagesAssumption DEF Init, NothingLost, Empty
<1> QED
  BY <1>3, <1>4, <1>5 DEF QueueInv

LEMMA QueueNext == QueueInv /\ QueueStep => QueueInv'
<1> SUFFICES ASSUME QueueInv, QueueStep PROVE QueueInv'
  OBVIOUS
<1> DEFINE H(m) == Cardinality(Held(m))
           C(m) == Cardinality(Copied(m))
<1>sets. \A m : /\ Held(m) \in SUBSET Workers /\ Copied(m) \in SUBSET Workers
                /\ Held(m)' \in SUBSET Workers /\ Copied(m)' \in SUBSET Workers
  BY DEF Held, Copied
<1>nat. \A m : H(m) \in Nat /\ C(m) \in Nat /\ H(m)' \in Nat /\ C(m)' \in Nat
  BY <1>sets, WorkersCount
<1>held. ASSUME SameHeld PROVE \A m \in Messages : H(m)' = H(m)
  BY <1>held, Zenon DEF SameHeld
<1>copied. ASSUME SameCopied PROVE \A m \in Messages : C(m)' = C(m)
  BY <1>copied, Zenon DEF SameCopied
<1>arr. Arrivals \in [Messages -> Nat]
  BY MessagesAssumption
<1> USE DEF QueueInv, QueuesOK, BagsOfMessages, PendingIsOwned, NothingLost, Inc, Dec, Empty
<1>1. CASE KeepStep
  BY <1>1, <1>held, <1>copied DEF KeepStep
<1>2. CASE StrandStep
  BY <1>2, <1>held, <1>copied, <1>nat DEF StrandStep
<1>3. CASE RestartStep
  <2>1. \A m \in Messages : H(m)' = 0 /\ C(m)' = 0
    BY <1>3, FS_EmptySet, Zenon DEF RestartStep
  <2> QED
    BY <1>3, <2>1, <1>nat, <1>arr DEF RestartStep
<1>4. ASSUME NEW m \in Messages, PublishStep(m) PROVE QueueInv'
  <2>1. \A n \in Messages : H(n)' = H(n) /\ C(n)' = C(n)
    BY <1>4, <1>held, <1>copied DEF PublishStep
  <2>5. QueuesOK'
    BY <1>4 DEF PublishStep
  <2>6. PendingIsOwned'
    BY <1>4, <2>1, <1>nat DEF PublishStep
  <2>7. NothingLost'
    <3> SUFFICES ASSUME NEW n \in Messages
                 PROVE  (Arrivals[n] - toPublish[n] + C(n) <= stream[n] + pel[n] + settled[n])'
      OBVIOUS
    <3>1. CASE n = m
      <4>1. toPublish[n]' = toPublish[n] - 1 /\ stream[n]' = stream[n] + 1
        BY <1>4, <3>1 DEF PublishStep
      <4>2. UNCHANGED <<pel[n], settled[n]>>
        BY <1>4 DEF PublishStep
      <4> QED
        BY <4>1, <4>2, <2>1, <1>nat, <1>arr
    <3>2. CASE n # m
      BY <1>4, <3>2, <2>1, <1>nat, <1>arr DEF PublishStep
    <3> QED
      BY <3>1, <3>2
  <2> QED
    BY <2>5, <2>6, <2>7
<1>5. ASSUME NEW m \in Messages, LostStep(m) PROVE QueueInv'
  BY <1>5, <1>held, <1>copied, <1>nat, <1>arr DEF LostStep
<1>6. ASSUME NEW m \in Messages, NEW w \in Workers, TakeStep(m, w) PROVE QueueInv'
  <2>1. H(m)' = H(m) + 1
    <3>1. Held(m)' = Held(m) \cup {w} /\ w \notin Held(m)
      BY <1>6 DEF TakeStep
    <3>2. IsFiniteSet(Held(m))
      BY <1>sets, WorkersCount
    <3>3. Cardinality(Held(m) \cup {w}) =
            IF w \in Held(m) THEN Cardinality(Held(m)) ELSE Cardinality(Held(m)) + 1
      BY <3>2, FS_AddElement, Zenon
    <3> QED
      BY <3>1, <3>3
  <2>2. \A n \in Messages \ {m} : H(n)' = H(n)
    <3>1. \A n \in Messages \ {m} : Held(n)' = Held(n)
      BY <1>6 DEF TakeStep
    <3> QED
      BY <3>1, Zenon
  <2>3. \A n \in Messages : C(n)' = C(n)
    BY <1>6, <1>copied DEF TakeStep
  <2>5. QueuesOK'
    BY <1>6 DEF TakeStep
  <2>6. PendingIsOwned'
    BY <1>6, <2>1, <2>2, <2>3, <1>nat DEF TakeStep
  <2>7. NothingLost'
    <3> SUFFICES ASSUME NEW n \in Messages
                 PROVE  (Arrivals[n] - toPublish[n] + C(n) <= stream[n] + pel[n] + settled[n])'
      OBVIOUS
    <3>1. CASE n = m
      BY <1>6, <3>1, <2>1, <2>2, <2>3, <1>nat, <1>arr DEF TakeStep
    <3>2. CASE n # m
      BY <1>6, <3>2, <2>1, <2>2, <2>3, <1>nat, <1>arr DEF TakeStep
    <3> QED
      BY <3>1, <3>2
  <2> QED
    BY <2>5, <2>6, <2>7
<1>7. ASSUME NEW m \in Messages, NEW w \in Workers, CopyStep(m, w) PROVE QueueInv'
  <2>1. C(m)' <= C(m) + 1
    BY <1>7, <1>sets, OneWorkerMore DEF CopyStep
  <2>2. \A n \in Messages \ {m} : C(n)' <= C(n)
    BY <1>7, <1>sets, FewerWorkers DEF CopyStep
  <2>3. \A n \in Messages : H(n)' = H(n)
    BY <1>7, <1>held DEF CopyStep
  <2>5. QueuesOK'
    BY <1>7 DEF CopyStep
  <2>6. PendingIsOwned'
    BY <1>7, <2>1, <2>2, <2>3, <1>nat DEF CopyStep
  <2>7. NothingLost'
    <3> SUFFICES ASSUME NEW n \in Messages
                 PROVE  (Arrivals[n] - toPublish[n] + C(n) <= stream[n] + pel[n] + settled[n])'
      OBVIOUS
    <3>1. stream[n]' = (IF n = m THEN stream[n] + 1 ELSE stream[n])
      BY <1>7 DEF CopyStep
    <3>2. UNCHANGED <<toPublish[n], pel[n], settled[n]>>
      BY <1>7 DEF CopyStep
    <3>3. C(n)' <= (IF n = m THEN C(n) + 1 ELSE C(n)) /\ C(n) \in Nat /\ C(n)' \in Nat
      BY <2>1, <2>2, <1>nat
    <3>4. /\ Arrivals[n] \in Nat /\ toPublish[n] \in Nat /\ stream[n] \in Nat
          /\ pel[n] \in Nat /\ settled[n] \in Nat
      BY <1>arr
    <3>5. Arrivals[n] - toPublish[n] + C(n) <= stream[n] + pel[n] + settled[n]
      OBVIOUS
    <3> HIDE DEF C, QueueInv
    <3> QED
      BY <3>1, <3>2, <3>3, <3>4, <3>5
  <2> QED
    BY <2>5, <2>6, <2>7
<1>8. ASSUME NEW m \in Messages, NEW w \in Workers, LeaveStep(m, w) PROVE QueueInv'
  <2>1. H(m)' = H(m) - 1
    <3>1. Held(m)' = Held(m) \ {w} /\ w \in Held(m)
      BY <1>8 DEF LeaveStep
    <3>2. IsFiniteSet(Held(m))
      BY <1>sets, WorkersCount
    <3> QED
      BY <3>1, <3>2, FS_RemoveElement
  <2>2. \A n \in Messages \ {m} : H(n)' = H(n)
    <3>1. \A n \in Messages \ {m} : Held(n)' = Held(n)
      BY <1>8 DEF LeaveStep
    <3> QED
      BY <3>1, Zenon
  <2>3. \A n \in Messages : C(n)' <= C(n)
    BY <1>8, <1>sets, FewerWorkers DEF LeaveStep, FewerCopied
  <2>4. ASSUME w \in Copied(m), w \notin Copied(m)' PROVE C(m)' + 1 <= C(m)
    <3>1. Copied(m)' \in SUBSET (Copied(m) \ {w})
      BY <1>8, <2>4 DEF LeaveStep, FewerCopied
    <3> QED
      BY <2>4, <3>1, <1>sets, OneWorkerLess
  <2>5. QueuesOK'
    BY <1>8, <2>1, <1>nat DEF LeaveStep
  <2>6. PendingIsOwned'
    <3> SUFFICES ASSUME NEW n \in Messages PROVE (pel[n] = H(n) + stranded[n] + toDrain[n])'
      OBVIOUS
    <3>1. CASE n = m
      BY <1>8, <3>1, <2>1, <1>nat DEF LeaveStep
    <3>2. CASE n # m
      BY <1>8, <3>2, <2>2, <1>nat DEF LeaveStep
    <3> QED
      BY <3>1, <3>2
  <2>7. NothingLost'
    BY <1>8, <2>3, <2>4, <1>nat, <1>arr DEF LeaveStep
  <2> QED
    BY <2>5, <2>6, <2>7
<1> QED
  BY <1>1, <1>2, <1>3, <1>4, <1>5, <1>6, <1>7, <1>8 DEF QueueStep

LEMMA QueueInvariant == Spec => []QueueInv
  BY ThreadsType, EveryQueueStep, QueueInit, QueueNext, PTL DEF Spec

(* Every pending entry is held by one worker, waits for the drain or is    *)
(* stranded until a restart, and never two of these.                       *)
THEOREM EntriesOwned == Spec => []PendingIsOwned
<1>1. QueueInv => PendingIsOwned
  BY DEF QueueInv
<1> QED
  BY <1>1, QueueInvariant, PTL

(* Whatever fails, a published entry is in the stream, pending or settled. *)
THEOREM EntriesNeverLost == Spec => []NoDeliveryLost
<1>1. QueueInv => NoDeliveryLost
  <2> SUFFICES ASSUME QueueInv, NEW m \in Messages
               PROVE  Arrivals[m] - toPublish[m] <= stream[m] + pel[m] + settled[m]
    BY DEF NoDeliveryLost
  <2>1. Cardinality(Copied(m)) \in Nat
    BY WorkersCount DEF Copied
  <2> QED
    BY <2>1, MessagesAssumption DEF QueueInv, QueuesOK, BagsOfMessages, NothingLost
<1> QED
  BY <1>1, QueueInvariant, PTL

(* The type invariant.                                                     *)
THEOREM TypeCorrect == Spec => []TypeOK
<1>1. QueueInv /\ AnswerInv => QueuesOK /\ TablesOK
  BY DEF QueueInv, AnswerInv
<1> QED
  BY <1>1, ConvInvOK, QueueInvariant, AnswerInvariant, ThreadsType, LocksType, ConvInvariant,
     BoundsType, PTL DEF TypeOK

-----------------------------------------------------------------------------
(* An acknowledgement means an answer, as long as nothing fails.  The lock *)
(* is then held by one worker at a time, and a message stays in the hands  *)
(* of the worker that stored it until it is answered.  That worker is not  *)
(* refused the transition to the AI: the row and the session agree well    *)
(* enough wherever the sweep did not close across a transition.            *)
\* Nothing has failed, nothing has crashed, and no lock expires on its holder.
Calm == faults = 0 /\ crashes = 0 /\ ~slow

Alone == \A v, w \in Workers :
           v # w /\ pc[v] \in LockedSteps /\ pc[w] \in LockedSteps => Sender(v) # Sender(w)

\* Steps of a conversation that has left "pending"; the ones among them that
\* go on to write the session; and all that are watched here.
PastAI == Decisions \cup ToHuman \cup {"sessionAI", "ask", "dify", "event"}
Writing == {"sessionAI", "rowHuman", "sessionHuman"}
Watched == PastAI \cup {"survey", "toAI"}

At(S, p) == \E w \in Workers : pc[w] \in S /\ Pair(w) = p
Exists(p) == p[2] \in DOMAIN convs[p[1]]

\* A closed row has no session, or the sweep is about to remove it; the session
\* of a pending row says so; nobody is about to write another; and who answers
\* a survey or asks for the AI does so in a state that allows it.
Fresh(p) ==
  /\ Row(p) = "closed" => /\ session[p] = "none" \/ p \in beside["invalidate"]
                          /\ p \notin beside["row"] \cup beside["session"]
                          /\ ~At(Writing, p)
  /\ Row(p) = "pending" => /\ session[p] \in {"none", "pending"}
                           /\ p \notin handed \cup beside["row"] \cup beside["session"]
                           /\ ~At(PastAI, p)
  /\ At({"survey"}, p) => Row(p) = "closed"
  /\ At({"toAI"}, p) => Row(p) \in {"pending", "closed"}

FreshInv == /\ \A p \in Pairs : Exists(p) /\ p \notin crossed => Fresh(p)
            /\ \A p \in handed \cup beside["row"] \cup beside["session"] : Exists(p)

\* Reacted to, or of a customer in whose conversations the sweep crossed a transition.
Reacted(m) == replies[m] > 0 \/ SenderOf[m] \in Crossed

\* After the reaction; a message without text may get there without one.
ReactedTo ==
  \A w \in Workers : pc[w] \in ToHuman \cup {"event", "ack"} => cur[w] \in Textless \/ Reacted(cur[w])

\* A message in the index was answered or is in the hands of the one worker
\* that stored it, so that a redelivery finds it answered: it waits for the lock.
StoredIsAnswered ==
  \A m \in inMonth \ Anonymous : m \in Textless \/ Reacted(m) \/ Reacting(m) # {}
SettledIsAnswered == \A m \in Messages : settled[m] > 0 => m \in Textless \/ Reacted(m)

Answered == /\ overrun = {} /\ \A w \in Workers : pc[w] # "drop"
            /\ ReactedTo /\ StoredIsAnswered /\ SettledIsAnswered
CalmInv == Calm => FreshInv /\ Answered

-----------------------------------------------------------------------------
(* The row and the session.                                                *)
LEMMA SetRowElsewhere ==
  ASSUME RowsOK, NEW p \in Pairs, NEW q \in Pairs, NEW s \in States, SetRow(q, s)
  PROVE  /\ Exists(p)' => Exists(p)
         /\ p # q /\ Exists(p) => Row(p)' = Row(p)
         /\ p = q /\ Exists(p) => Row(p)' = s
<1>1. /\ p[1] \in Customers /\ q[1] \in Customers /\ p[2] \in Nat /\ q[2] \in Nat
      /\ p = <<p[1], p[2]>> /\ q = <<q[1], q[2]>>
  BY DEF Pairs
<1>2. /\ convs[p[1]] \in Seq(States) /\ convs[q[1]] \in Seq(States)
      /\ convs'[q[1]] = [convs[q[1]] EXCEPT ![q[2]] = s]
      /\ p[1] # q[1] => convs'[p[1]] = convs[p[1]]
  BY <1>1 DEF RowsOK, SetRow
<1>3. DOMAIN convs'[p[1]] = DOMAIN convs[p[1]]
  BY <1>2
<1>4. p # q /\ p[2] \in DOMAIN convs[p[1]] => convs'[p[1]][p[2]] = convs[p[1]][p[2]]
  <2>1. CASE p[1] # q[1]
    BY <1>2, <2>1
  <2>2. CASE p[1] = q[1] /\ p[2] # q[2]
    BY <1>2, <2>2
  <2> QED
    BY <1>1, <2>1, <2>2
<1>5. p = q /\ p[2] \in DOMAIN convs[p[1]] => convs'[p[1]][p[2]] = s
  BY <1>2
<1> QED
  BY <1>3, <1>4, <1>5 DEF Exists, Row

\* A worker that steps keeps its message and its conversation in hand.
StepOf(w) == UNCHANGED <<cur, conv>> /\ pc' = [pc EXCEPT ![w] = pc'[w]]

LEMMA AtOthers ==
  ASSUME ThreadsOK, NEW w \in Workers, StepOf(w), NEW p, NEW S, At(S, p)'
  PROVE  At(S, p) \/ (pc'[w] \in S /\ Pair(w) = p)
<1>1. PICK v \in Workers : pc'[v] \in S /\ Pair(v)' = p
  BY DEF At
<1>2. Pair(v)' = Pair(v)
  BY DEF StepOf, Pair, Sender
<1>3. v # w => pc'[v] = pc[v]
  BY DEF StepOf, ThreadsOK
<1> QED
  BY <1>1, <1>2, <1>3 DEF At

LEMMA AtSame ==
  ASSUME UNCHANGED <<pc, cur, conv>>, NEW p, NEW S PROVE At(S, p)' = At(S, p)
  BY DEF At, Pair, Sender

\* What leaves a pair as it was.
NoWorse(p) ==
  /\ Row(p)' = Row(p) /\ session'[p] = session[p]
  /\ p \in beside["invalidate"] => p \in beside'["invalidate"]
  /\ p \in handed' \cup beside'["row"] \cup beside'["session"]
       => p \in handed \cup beside["row"] \cup beside["session"]
  /\ p \in beside'["row"] \cup beside'["session"] => p \in beside["row"] \cup beside["session"]
  /\ At(Writing, p)' => At(Writing, p)
  /\ At(PastAI, p)' => At(PastAI, p)
  /\ At({"survey"}, p)' => At({"survey"}, p)
  /\ At({"toAI"}, p)' => At({"toAI"}, p)

LEMMA FreshKept == ASSUME NEW p, Fresh(p), NoWorse(p) PROVE Fresh(p)'
  BY DEF Fresh, NoWorse

\* Steps that have nothing to do with the row and the session.
Elsewhere ==
  /\ UNCHANGED <<convs, session, handed, beside, crossed>>
  /\ \A v \in Workers : pc'[v] \in Watched =>
       /\ cur'[v] = cur[v] /\ conv'[v] = conv[v]
       /\ pc'[v] = pc[v] \/ (pc'[v] \in PastAI \ Writing /\ pc[v] \in PastAI)

LEMMA ElsewhereKeeps ==
  ASSUME Elsewhere, FreshInv PROVE FreshInv'
<1>1. ASSUME NEW p, NEW S, S \subseteq Watched,
             \A v \in Workers : pc'[v] \in S => pc[v] \in S, At(S, p)'
      PROVE  At(S, p)
  <2>1. PICK v \in Workers : pc'[v] \in S /\ Pair(v)' = p
    BY <1>1 DEF At
  <2>2. Pair(v)' = Pair(v) /\ pc[v] \in S
    BY <1>1, <2>1 DEF Elsewhere, Pair, Sender
  <2> QED
    BY <2>1, <2>2 DEF At
<1>2. \A p : At(Writing, p)' => At(Writing, p)
  <2>1. Writing \subseteq Watched /\ \A v \in Workers : pc'[v] \in Writing => pc[v] \in Writing
    BY DEF Elsewhere, Watched, Writing, PastAI, ToHuman
  <2> QED
    BY <1>1, <2>1
<1>3. \A p : At(PastAI, p)' => At(PastAI, p)
  <2>1. PastAI \subseteq Watched /\ \A v \in Workers : pc'[v] \in PastAI => pc[v] \in PastAI
    BY DEF Elsewhere, Watched
  <2> QED
    BY <1>1, <2>1
<1>4. \A p : At({"survey"}, p)' => At({"survey"}, p)
  <2>1. {"survey"} \subseteq Watched /\ \A v \in Workers : pc'[v] \in {"survey"} => pc[v] \in {"survey"}
    BY DEF Elsewhere, Watched, PastAI, Decisions, ToHuman
  <2> QED
    BY <1>1, <2>1
<1>5. \A p : At({"toAI"}, p)' => At({"toAI"}, p)
  <2>1. {"toAI"} \subseteq Watched /\ \A v \in Workers : pc'[v] \in {"toAI"} => pc[v] \in {"toAI"}
    BY DEF Elsewhere, Watched, PastAI, Decisions, ToHuman
  <2> QED
    BY <1>1, <2>1
<1>6. \A p : NoWorse(p) /\ Exists(p)' = Exists(p)
  BY <1>2, <1>3, <1>4, <1>5 DEF Elsewhere, NoWorse, Exists, Row
<1>7. crossed' = crossed /\ handed' = handed /\ beside' = beside
  BY DEF Elsewhere
<1> QED
  BY <1>6, <1>7, FreshKept DEF FreshInv

LEMMA FreshNext ==
  ASSUME TypeOK, ConvInv, Alone, Calm, Calm', FreshInv, [Next]_vars PROVE FreshInv'
<1> USE DEF TypeOK, Steps, LockedSteps, LateSteps, ToAI, ToHuman, Decisions, PastAI, Writing,
        Inc, Goto, PutDown, queueVars, tableVars, convRows, convVars, lockVars, outVars
<1>nofault. ~Fault
  BY DEF Fault, Calm
<1>nocrash. crashes' # crashes + 1
  BY DEF Calm
<1>w. ThreadsOK /\ pc \in [Workers -> Steps] /\ cur \in [Workers -> Messages \cup {NoMessage}]
  BY DEF ThreadsOK
<1>elsewhere. Elsewhere => FreshInv'
  BY ElsewhereKeeps
<1>beside. /\ beside \in [SweepSteps \cup HandlerSteps -> SUBSET Pairs]
           /\ {"invalidate", "survey", "row", "session"} \subseteq DOMAIN beside
  BY DEF ConvInv, PairsOK, SweepSteps, HandlerSteps
<1>rows. \A p : p \in handed \cup beside["row"] \cup beside["session"] => Exists(p) /\ Exists(p)'
  <2>1. RowsGrow /\ RowsOK /\ RowsOK'
    BY EveryRowStep, ConvInvOK, RowsKept DEF ConvInv
  <2>2. handed \cup beside["row"] \cup beside["session"] \subseteq Pairs
    BY <1>beside DEF ConvInv, PairsOK
  <2> QED
    BY <2>1, <2>2 DEF RowsGrow, RowsOK, Pairs, FreshInv, Exists
<1>1. ASSUME NEW w \in Workers, Routed(w) PROVE FreshInv'
  <2>1. Elsewhere
    BY <1>1, <1>nofault, <1>w DEF Routed, Elsewhere, Watched
  <2> QED
    BY <1>elsewhere, <2>1
<1>2. ASSUME NEW w \in Workers, Unroutable(w) PROVE FreshInv'
  BY <1>2, <1>nofault DEF Unroutable
<1>3. ASSUME NEW w \in Workers, Acquire(w) PROVE FreshInv'
  <2>1. Elsewhere
    BY <1>3, <1>nofault, <1>w DEF Acquire, Elsewhere, Watched
  <2> QED
    BY <1>elsewhere, <2>1
<1>4. ASSUME NEW w \in Workers, LockWaitExceeded(w) PROVE FreshInv'
  <2>1. Elsewhere
    BY <1>4, <1>nofault, <1>w DEF LockWaitExceeded, Elsewhere, Watched
  <2> QED
    BY <1>elsewhere, <2>1
<1>5. ASSUME NEW w \in Workers, LockError(w) PROVE FreshInv'
  BY <1>5, <1>nofault DEF LockError
<1>6. ASSUME NEW w \in Workers, Requeue(w) PROVE FreshInv'
  <2>1. Elsewhere
    BY <1>6, <1>nofault, <1>w DEF Requeue, Elsewhere, Watched
  <2> QED
    BY <1>elsewhere, <2>1
<1>7. ASSUME NEW w \in Workers, RequeueFails(w) PROVE FreshInv'
  BY <1>7, <1>nofault DEF RequeueFails
<1>8. ASSUME NEW w \in Workers, AckRequeued(w) PROVE FreshInv'
  <2>1. Elsewhere
    BY <1>8, <1>nofault, <1>w DEF AckRequeued, Elsewhere, Watched
  <2> QED
    BY <1>elsewhere, <2>1
<1>9. ASSUME NEW w \in Workers, AckDropped(w) PROVE FreshInv'
  <2>1. Elsewhere
    BY <1>9, <1>nofault, <1>w DEF AckDropped, Elsewhere, Watched
  <2> QED
    BY <1>elsewhere, <2>1
<1>10. ASSUME NEW w \in Workers, FindConversation(w) PROVE FreshInv'
  <2>1. /\ UNCHANGED <<convs, session, handed, beside, crossed, cur>> /\ pc'[w] \notin Watched
        /\ \A v \in Workers \ {w} : pc'[v] = pc[v]
    BY <1>10, <1>w DEF FindConversation, Watched
  <2>2. \A v \in Workers \ {w} : conv'[v] = conv[v]
    <3>1. conv \in [Workers -> Nat]
      BY DEF ConvInv, PairsOK
    <3>2. conv' = conv \/ \E i \in Current(Sender(w)) : conv' = [conv EXCEPT ![w] = i]
      BY <1>10 DEF FindConversation
    <3> QED
      BY <3>1, <3>2
  <2> QED
    BY <1>elsewhere, <2>1, <2>2 DEF Elsewhere
<1>11. ASSUME NEW w \in Workers, CreateConversation(w) PROVE FreshInv'
  <2>1. /\ pc[w] = "create" /\ pc' = [pc EXCEPT ![w] = "store"] /\ cur' = cur
        /\ convs' = [convs EXCEPT ![Sender(w)] = Append(@, "pending")]
        /\ conv' = [conv EXCEPT ![w] = Len(convs[Sender(w)]) + 1]
        /\ UNCHANGED <<handed, beside, crossed>> /\ Len(convs[Sender(w)]) < MaxConvs
    BY <1>11 DEF CreateConversation
  <2>2. Sender(w) \in Customers /\ convs[Sender(w)] \in Seq(States)
    BY <1>w, <2>1, MessagesAssumption DEF ThreadsOK, Sender, ConvInv, RowsOK
  <2> DEFINE q == <<Sender(w), Len(convs[Sender(w)]) + 1>>
  <2>3. q \in Pairs /\ ~Exists(q) /\ conv'[w] = q[2] /\ q[1] = Sender(w)
    BY <2>1, <2>2, BoundsAssumption DEF Pairs, Exists, ConvInv, PairsOK
  <2>4. session' = [session EXCEPT ![q] = "pending"]
    BY <1>11, <1>nofault, <2>3 DEF CreateConversation
  <2>5. \A v \in Workers \ {w} : pc'[v] = pc[v] /\ Pair(v)' = Pair(v)
    BY <1>w, <2>1 DEF Pair, Sender, ConvInv, PairsOK
  <2>6. ASSUME NEW p, NEW S, "store" \notin S, At(S, p)' PROVE \E v \in Workers : pc[v] \in S /\ Pair(v) = p
    <3>1. PICK v \in Workers : pc'[v] \in S /\ Pair(v)' = p
      BY <2>6 DEF At
    <3>2. v # w
      BY <1>w, <2>1, <2>6, <3>1
    <3> QED
      BY <2>5, <3>1, <3>2
  <2>7. "store" \notin Writing /\ "store" \notin PastAI /\ "store" \notin {"survey"} /\ "store" \notin {"toAI"}
    OBVIOUS
  <2>8. \A v \in Workers : pc[v] \in PastAI \cup {"survey", "toAI"} => Exists(Pair(v))
    BY <1>w, PairInHand DEF Carrying, Exists
  <2>w. Writing \subseteq PastAI
    OBVIOUS
  <2> HIDE DEF PastAI, Writing, q
  <2>9. ASSUME NEW p \in Pairs, p # q
        PROVE  (Exists(p) => Row(p)' = Row(p)) /\ Exists(p)' = Exists(p) /\ session'[p] = session[p]
    <3>1. p[1] \in Customers /\ p[2] \in Nat /\ p = <<p[1], p[2]>>
      BY DEF Pairs
    <3>2. convs[p[1]] \in Seq(States)
      BY <3>1 DEF ConvInv, RowsOK
    <3>3. session'[p] = session[p]
      BY <2>4, <2>9 DEF ConvInv, PairsOK
    <3>4. CASE p[1] # Sender(w)
      <4>1. convs'[p[1]] = convs[p[1]]
        BY <2>1, <2>2, <3>1, <3>4 DEF ConvInv, RowsOK
      <4> QED
        BY <3>3, <4>1 DEF Row, Exists
    <3>5. CASE p[1] = Sender(w)
      <4>1. convs'[p[1]] = Append(convs[p[1]], "pending") /\ p[2] # Len(convs[p[1]]) + 1
        BY <2>1, <2>2, <2>9, <3>1, <3>5 DEF q, ConvInv, RowsOK
      <4>2. "pending" \in States
        BY DEF States
      <4>3. /\ DOMAIN convs'[p[1]] = 1 .. (Len(convs[p[1]]) + 1) /\ DOMAIN convs[p[1]] = 1 .. Len(convs[p[1]])
            /\ p[2] \in 1 .. Len(convs[p[1]]) => convs'[p[1]][p[2]] = convs[p[1]][p[2]]
        BY <3>2, <4>1, <4>2
      <4>4. Exists(p)' = Exists(p)
        BY <3>1, <3>2, <4>1, <4>3 DEF Exists
      <4> QED
        BY <3>1, <3>3, <4>3, <4>4 DEF Row, Exists
    <3> QED
      BY <3>4, <3>5
  <2>10. ASSUME NEW p \in Pairs, Exists(p)', p \notin crossed' PROVE Fresh(p)'
    <3>1. CASE p = q
      <4>1. ~At(Writing, p)' /\ ~At(PastAI, p)' /\ ~At({"survey"}, p)' /\ ~At({"toAI"}, p)'
        BY <2>3, <2>6, <2>7, <2>8, <2>w, <3>1
      <4>2. Row(p)' = "pending" /\ session'[p] = "pending"
        <5>1. convs'[Sender(w)] = Append(convs[Sender(w)], "pending")
          BY <2>1, <2>2 DEF ConvInv, RowsOK
        <5>2. convs'[Sender(w)][Len(convs[Sender(w)]) + 1] = "pending"
          BY <2>2, <5>1
        <5>3. q[1] = Sender(w) /\ q[2] = Len(convs[Sender(w)]) + 1
          BY DEF q
        <5> QED
          BY <2>3, <2>4, <3>1, <5>2, <5>3 DEF Row, ConvInv, PairsOK
      <4>3. p \notin handed' \cup beside'["row"] \cup beside'["session"]
        BY <2>1, <2>3, <3>1 DEF FreshInv
      <4> QED
        BY <4>1, <4>2, <4>3 DEF Fresh
    <3>2. CASE p # q
      <4>1. Fresh(p) /\ Row(p)' = Row(p) /\ session'[p] = session[p]
        BY <2>1, <2>9, <2>10, <3>2 DEF FreshInv
      <4>2. /\ At(Writing, p)' => At(Writing, p)
            /\ At(PastAI, p)' => At(PastAI, p)
            /\ At({"survey"}, p)' => At({"survey"}, p)
            /\ At({"toAI"}, p)' => At({"toAI"}, p)
        BY <2>6, <2>7 DEF At
      <4> QED
        BY <2>1, <4>1, <4>2 DEF Fresh
    <3> QED
      BY <3>1, <3>2
  <2>11. \A p \in handed' \cup beside'["row"] \cup beside'["session"] : Exists(p)'
    BY <2>1, <1>rows DEF FreshInv
  <2> QED
    BY <2>10, <2>11 DEF FreshInv
<1>12. ASSUME NEW w \in Workers, StoreMessage(w) PROVE FreshInv'
  <2>1. Elsewhere
    BY <1>12, <1>nofault, <1>w DEF StoreMessage, Elsewhere, Watched
  <2> QED
    BY <1>elsewhere, <2>1
<1>13. ASSUME NEW w \in Workers, DatabaseError(w) PROVE FreshInv'
  BY <1>13, <1>nofault DEF DatabaseError
<1>14. ASSUME NEW w \in Workers, SwitchOnState(w) PROVE FreshInv'
  <2>1. /\ Pair(w) \in Pairs /\ Exists(Pair(w)) /\ Pair(w)[1] = Sender(w) /\ Sender(w) \in Customers
    <3>1. pc[w] \in Carrying
      BY <1>14 DEF SwitchOnState, Carrying
    <3> QED
      BY <1>w, <3>1, PairInHand DEF Exists
  <2>step. StepOf(w)
    BY <1>14, <1>w DEF SwitchOnState, StepOf
  <2>at. \A p \in Pairs : /\ At(Writing, p)' => At(Writing, p) \/ (pc'[w] \in Writing /\ p = Pair(w))
                          /\ At(PastAI, p)' => At(PastAI, p) \/ (pc'[w] \in PastAI /\ p = Pair(w))
                          /\ At({"survey"}, p)' => At({"survey"}, p) \/ (pc'[w] = "survey" /\ p = Pair(w))
                          /\ At({"toAI"}, p)' => At({"toAI"}, p) \/ (pc'[w] = "toAI" /\ p = Pair(w))
    BY <1>w, <2>step, AtOthers
  <2>2. UNCHANGED <<convs, session, handed, beside, crossed>>
    BY <1>14 DEF SwitchOnState
  <2>3. \/ pc'[w] = "toAI" /\ Row(Pair(w)) = "pending" /\ pc'[w] \notin PastAI \cup Writing
        \/ pc'[w] = "ask" /\ Row(Pair(w)) = "ai_processing" /\ pc'[w] \notin Writing
        \/ pc'[w] = "forward" /\ pc'[w] \notin PastAI \cup Writing
        \/ pc'[w] = "survey" /\ Row(Pair(w)) = "closed" /\ pc'[w] \notin PastAI \cup Writing
    BY <1>14, <1>w DEF SwitchOnState, State
  <2> HIDE DEF PastAI, Writing
  <2>9. ASSUME NEW p \in Pairs, Exists(p)', p \notin crossed' PROVE Fresh(p)'
    <3>1. Row(p)' = Row(p) /\ Exists(p) /\ p \notin crossed
      BY <2>2, <2>9 DEF Row, Exists
    <3>2. Fresh(p)
      BY <3>1 DEF FreshInv
    <3>3. CASE p # Pair(w)
      BY <2>2, <2>at, <3>1, <3>2, <3>3 DEF Fresh
    <3>4. CASE p = Pair(w)
      BY <2>2, <2>3, <2>at, <2>9, <3>1, <3>2, <3>4 DEF Fresh
    <3> QED
      BY <3>3, <3>4
  <2> QED
    BY <2>1, <2>2, <2>9 DEF FreshInv, Exists
<1>15. ASSUME NEW w \in Workers, SurveyReply(w) PROVE FreshInv'
  <2>1. /\ Pair(w) \in Pairs /\ Exists(Pair(w)) /\ Pair(w)[1] = Sender(w) /\ Sender(w) \in Customers
    <3>1. pc[w] \in Carrying
      BY <1>15 DEF SurveyReply, Carrying
    <3> QED
      BY <1>w, <3>1, PairInHand DEF Exists
  <2>step. StepOf(w)
    BY <1>15, <1>w DEF SurveyReply, StepOf
  <2>at. \A p \in Pairs : /\ At(Writing, p)' => At(Writing, p) \/ (pc'[w] \in Writing /\ p = Pair(w))
                          /\ At(PastAI, p)' => At(PastAI, p) \/ (pc'[w] \in PastAI /\ p = Pair(w))
                          /\ At({"survey"}, p)' => At({"survey"}, p) \/ (pc'[w] = "survey" /\ p = Pair(w))
                          /\ At({"toAI"}, p)' => At({"toAI"}, p) \/ (pc'[w] = "toAI" /\ p = Pair(w))
    BY <1>w, <2>step, AtOthers
  <2>2. UNCHANGED <<convs, session, handed, beside, crossed>>
    BY <1>15 DEF SurveyReply
  <2>3. /\ pc'[w] \in {"toAI", "ack"} /\ pc'[w] \notin PastAI \cup Writing
        /\ At({"survey"}, Pair(w))
    BY <1>15, <1>w DEF SurveyReply, At
  <2> HIDE DEF PastAI, Writing
  <2>9. ASSUME NEW p \in Pairs, Exists(p)', p \notin crossed' PROVE Fresh(p)'
    <3>1. Row(p)' = Row(p) /\ Exists(p) /\ p \notin crossed
      BY <2>2, <2>9 DEF Row, Exists
    <3>2. Fresh(p)
      BY <3>1 DEF FreshInv
    <3>3. CASE p # Pair(w)
      BY <2>2, <2>at, <3>1, <3>2, <3>3 DEF Fresh
    <3>4. CASE p = Pair(w)
      BY <2>2, <2>3, <2>at, <2>9, <3>1, <3>2, <3>4 DEF Fresh
    <3> QED
      BY <3>3, <3>4
  <2> QED
    BY <2>1, <2>2, <2>9 DEF FreshInv, Exists
<1>16. ASSUME NEW w \in Workers, TransitionState(w) PROVE FreshInv'
  <2>1. /\ Pair(w) \in Pairs /\ Exists(Pair(w)) /\ Pair(w)[1] = Sender(w) /\ Sender(w) \in Customers
    <3>1. pc[w] \in Carrying
      BY <1>16 DEF TransitionState, Carrying
    <3> QED
      BY <1>w, <3>1, PairInHand DEF Exists
  <2>step. StepOf(w)
    BY <1>16, <1>w DEF TransitionState, StepOf
  <2>at. \A p \in Pairs : /\ At(Writing, p)' => At(Writing, p) \/ (pc'[w] \in Writing /\ p = Pair(w))
                          /\ At(PastAI, p)' => At(PastAI, p) \/ (pc'[w] \in PastAI /\ p = Pair(w))
                          /\ At({"survey"}, p)' => At({"survey"}, p) \/ (pc'[w] = "survey" /\ p = Pair(w))
                          /\ At({"toAI"}, p)' => At({"toAI"}, p) \/ (pc'[w] = "toAI" /\ p = Pair(w))
    BY <1>w, <2>step, AtOthers
  <2>2. /\ UNCHANGED <<convs, session, handed, beside>> /\ crossed \subseteq crossed'
        /\ Pair(w) \in beside["invalidate"] => Pair(w) \in crossed'
    BY <1>16 DEF TransitionState, ReadsBehindSweep
  <2>3. \/ pc'[w] \in {"rowAI", "ack"} /\ pc'[w] \notin PastAI \cup Writing
        \/ pc'[w] = "rowHuman" /\ At(PastAI, Pair(w)) /\ CanTransitionTo(View(Pair(w)), "human_processing")
    <3>1. CASE pc[w] = "toAI"
      BY <1>16, <1>w, <3>1 DEF TransitionState
    <3>2. CASE pc[w] = "toHuman"
      <4>1. Goal(pc[w]) = "human_processing" /\ At(PastAI, Pair(w))
        BY <3>2 DEF Goal, At
      <4>2. \/ MayMove(Pair(w), "human_processing") /\ pc'[w] = "rowHuman"
            \/ pc'[w] = "ack"
        BY <1>16, <1>w, <3>2, <4>1 DEF TransitionState
      <4> QED
        BY <1>nofault, <4>1, <4>2 DEF MayMove
    <3> QED
      BY <1>16, <3>1, <3>2 DEF TransitionState
  <2>4. CanTransitionTo(View(Pair(w)), "human_processing") /\ Pair(w) \notin crossed' /\ Fresh(Pair(w))
          => Row(Pair(w)) # "closed"
    BY <2>2 DEF Fresh, View, CanTransitionTo
  <2> HIDE DEF PastAI, Writing
  <2>9. ASSUME NEW p \in Pairs, Exists(p)', p \notin crossed' PROVE Fresh(p)'
    <3>1. Row(p)' = Row(p) /\ Exists(p) /\ p \notin crossed
      BY <2>2, <2>9 DEF Row, Exists
    <3>2. Fresh(p)
      BY <3>1 DEF FreshInv
    <3>3. CASE p # Pair(w)
      BY <2>2, <2>at, <3>1, <3>2, <3>3 DEF Fresh
    <3>4. CASE p = Pair(w)
      BY <2>2, <2>3, <2>4, <2>at, <2>9, <3>1, <3>2, <3>4 DEF Fresh
    <3> QED
      BY <3>3, <3>4
  <2> QED
    BY <2>1, <2>2, <2>9 DEF FreshInv, Exists
<1>17. ASSUME NEW w \in Workers, WriteRow(w) PROVE FreshInv'
  <2>1. /\ Pair(w) \in Pairs /\ Exists(Pair(w)) /\ Pair(w)[1] = Sender(w) /\ Sender(w) \in Customers
    <3>1. pc[w] \in Carrying
      BY <1>17 DEF WriteRow, Carrying
    <3> QED
      BY <1>w, <3>1, PairInHand DEF Exists
  <2>step. StepOf(w)
    BY <1>17, <1>w DEF WriteRow, StepOf
  <2>at. \A p \in Pairs : /\ At(Writing, p)' => At(Writing, p) \/ (pc'[w] \in Writing /\ p = Pair(w))
                          /\ At(PastAI, p)' => At(PastAI, p) \/ (pc'[w] \in PastAI /\ p = Pair(w))
                          /\ At({"survey"}, p)' => At({"survey"}, p) \/ (pc'[w] = "survey" /\ p = Pair(w))
                          /\ At({"toAI"}, p)' => At({"toAI"}, p) \/ (pc'[w] = "toAI" /\ p = Pair(w))
    BY <1>w, <2>step, AtOthers
  <2>alone. \A v \in Workers \ {w} : pc[v] \in {"survey", "toAI"} => Pair(v) # Pair(w)
    BY <1>17 DEF WriteRow, Alone, Pair
  <2>toAI. ~At({"survey"}, Pair(w)) /\ ~At({"toAI"}, Pair(w))
    BY <1>17, <2>alone DEF WriteRow, At
  <2>2. /\ UNCHANGED <<session, handed, beside, crossed>>
        /\ Goal(pc[w]) \in {"ai_processing", "human_processing"}
        /\ SetRow(Pair(w), Goal(pc[w])) /\ pc'[w] \in {"sessionAI", "sessionHuman"}
    BY <1>17, <1>w, <1>nofault DEF WriteRow, Goal
  <2>3. Goal(pc[w]) \in States
    BY <2>2 DEF States
  <2> HIDE DEF PastAI, Writing
  <2>8. ASSUME NEW p \in Pairs
        PROVE  /\ Exists(p)' => Exists(p)
               /\ p # Pair(w) /\ Exists(p) => Row(p)' = Row(p)
               /\ p = Pair(w) /\ Exists(p) => Row(p)' \in {"ai_processing", "human_processing"}
    BY <2>1, <2>2, <2>3, SetRowElsewhere DEF ConvInv
  <2>9. ASSUME NEW p \in Pairs, Exists(p)', p \notin crossed' PROVE Fresh(p)'
    <3>1. CASE p # Pair(w)
      <4>1. Fresh(p) /\ Row(p)' = Row(p)
        BY <2>2, <2>8, <2>9, <3>1 DEF FreshInv
      <4> QED
        BY <2>2, <2>at, <3>1, <4>1 DEF Fresh
    <3>2. CASE p = Pair(w)
      <4>1. Row(p)' \in {"ai_processing", "human_processing"}
        BY <2>8, <2>9, <3>2
      <4>2. ~At({"survey"}, p)' /\ ~At({"toAI"}, p)'
        BY <2>2, <2>at, <2>toAI, <3>2
      <4> QED
        BY <4>1, <4>2 DEF Fresh
    <3> QED
      BY <3>1, <3>2
  <2> QED
    BY <1>rows, <2>2, <2>9 DEF FreshInv
<1>18. ASSUME NEW w \in Workers, WriteSession(w) PROVE FreshInv'
  <2>1. /\ Pair(w) \in Pairs /\ Exists(Pair(w)) /\ Pair(w)[1] = Sender(w) /\ Sender(w) \in Customers
    <3>1. pc[w] \in Carrying
      BY <1>18 DEF WriteSession, Carrying
    <3> QED
      BY <1>w, <3>1, PairInHand DEF Exists
  <2>step. StepOf(w)
    BY <1>18, <1>w DEF WriteSession, StepOf
  <2>at. \A p \in Pairs : /\ At(Writing, p)' => At(Writing, p) \/ (pc'[w] \in Writing /\ p = Pair(w))
                          /\ At(PastAI, p)' => At(PastAI, p) \/ (pc'[w] \in PastAI /\ p = Pair(w))
                          /\ At({"survey"}, p)' => At({"survey"}, p) \/ (pc'[w] = "survey" /\ p = Pair(w))
                          /\ At({"toAI"}, p)' => At({"toAI"}, p) \/ (pc'[w] = "toAI" /\ p = Pair(w))
    BY <1>w, <2>step, AtOthers
  <2>2. /\ UNCHANGED <<convs, handed, beside, crossed>> /\ pc'[w] \in {"ask", "ack"}
        /\ session' = [session EXCEPT ![Pair(w)] = Goal(pc[w])] /\ pc'[w] \notin Writing
    BY <1>18, <1>w, <1>nofault DEF WriteSession
  <2>3. At(Writing, Pair(w)) /\ At(PastAI, Pair(w))
    BY <1>18 DEF WriteSession, At
  <2>4. \A p \in Pairs : p # Pair(w) => session'[p] = session[p]
    BY <2>2 DEF ConvInv, PairsOK
  <2> HIDE DEF PastAI, Writing
  <2>9. ASSUME NEW p \in Pairs, Exists(p)', p \notin crossed' PROVE Fresh(p)'
    <3>1. Row(p)' = Row(p) /\ Fresh(p)
      BY <2>2, <2>9 DEF Row, Exists, FreshInv
    <3>2. CASE p # Pair(w)
      BY <2>2, <2>4, <2>at, <3>1, <3>2 DEF Fresh
    <3>3. CASE p = Pair(w)
      BY <2>2, <2>3, <2>at, <3>1, <3>3 DEF Fresh
    <3> QED
      BY <3>2, <3>3
  <2> QED
    BY <2>2, <2>9 DEF FreshInv, Exists
<1>19. ASSUME NEW w \in Workers, Ask(w) PROVE FreshInv'
  <2>1. Elsewhere
    BY <1>19, <1>nofault, <1>w DEF Ask, Elsewhere, Watched
  <2> QED
    BY <1>elsewhere, <2>1
<1>20. ASSUME NEW w \in Workers, DifyReturns(w) PROVE FreshInv'
  <2>1. Elsewhere
    BY <1>20, <1>nofault, <1>w DEF DifyReturns, Elsewhere, Watched
  <2> QED
    BY <1>elsewhere, <2>1
<1>21. ASSUME NEW w \in Workers, PublishReply(w) PROVE FreshInv'
  <2>1. Elsewhere
    BY <1>21, <1>nofault, <1>w DEF PublishReply, Elsewhere, Watched
  <2> QED
    BY <1>elsewhere, <2>1
<1>22. ASSUME NEW w \in Workers, PublishHandoffEvent(w) PROVE FreshInv'
  <2>1. /\ Pair(w) \in Pairs /\ Exists(Pair(w)) /\ Pair(w)[1] = Sender(w) /\ Sender(w) \in Customers
    <3>1. pc[w] \in Carrying
      BY <1>22 DEF PublishHandoffEvent, Carrying
    <3> QED
      BY <1>w, <3>1, PairInHand DEF Exists
  <2>step. StepOf(w)
    BY <1>22, <1>w DEF PublishHandoffEvent, StepOf
  <2>at. \A p \in Pairs : /\ At(Writing, p)' => At(Writing, p) \/ (pc'[w] \in Writing /\ p = Pair(w))
                          /\ At(PastAI, p)' => At(PastAI, p) \/ (pc'[w] \in PastAI /\ p = Pair(w))
                          /\ At({"survey"}, p)' => At({"survey"}, p) \/ (pc'[w] = "survey" /\ p = Pair(w))
                          /\ At({"toAI"}, p)' => At({"toAI"}, p) \/ (pc'[w] = "toAI" /\ p = Pair(w))
    BY <1>w, <2>step, AtOthers
  <2>2. /\ UNCHANGED <<convs, session, beside, crossed>>
        /\ handed' \subseteq handed \cup {Pair(w)}
    BY <1>22 DEF PublishHandoffEvent
  <2>3. pc'[w] = "toHuman" /\ pc'[w] \notin Writing /\ At(PastAI, Pair(w))
    BY <1>22, <1>w DEF PublishHandoffEvent, At
  <2> HIDE DEF PastAI, Writing
  <2>9. ASSUME NEW p \in Pairs, Exists(p)', p \notin crossed' PROVE Fresh(p)'
    <3>1. Row(p)' = Row(p) /\ Exists(p) /\ p \notin crossed
      BY <2>2, <2>9 DEF Row, Exists
    <3>2. Fresh(p)
      BY <3>1 DEF FreshInv
    <3>3. CASE p # Pair(w)
      BY <2>2, <2>at, <3>1, <3>2, <3>3 DEF Fresh
    <3>4. CASE p = Pair(w)
      BY <2>2, <2>3, <2>at, <2>9, <3>1, <3>2, <3>4 DEF Fresh
    <3> QED
      BY <3>3, <3>4
  <2> QED
    BY <2>1, <2>2, <2>9 DEF FreshInv, Exists
<1>23. ASSUME NEW w \in Workers, Forward(w) PROVE FreshInv'
  <2>1. Elsewhere
    BY <1>23, <1>nofault, <1>w DEF Forward, Elsewhere, Watched
  <2> QED
    BY <1>elsewhere, <2>1
<1>24. ASSUME NEW w \in Workers, Ack(w) PROVE FreshInv'
  <2>1. Elsewhere
    BY <1>24, <1>nofault, <1>w DEF Ack, Elsewhere, Watched
  <2> QED
    BY <1>elsewhere, <2>1
<1>25. ASSUME NEW w \in Workers, Release(w) PROVE FreshInv'
  <2>1. Elsewhere
    BY <1>25, <1>nofault, <1>w DEF Release, Elsewhere, Watched
  <2> QED
    BY <1>elsewhere, <2>1
<1>26. ASSUME NEW w \in Workers, NEW m \in Messages, Read(w, m) PROVE FreshInv'
  <2>1. Elsewhere
    BY <1>26, <1>nofault, <1>w DEF Read, Elsewhere, Watched
  <2> QED
    BY <1>elsewhere, <2>1
<1>27. ASSUME NEW m \in Messages, Publish(m) PROVE FreshInv'
  <2>1. Elsewhere
    BY <1>27, <1>nofault, <1>w DEF Publish, Elsewhere, Watched
  <2> QED
    BY <1>elsewhere, <2>1
<1>28. ASSUME NEW m \in Messages, ReadLost(m) PROVE FreshInv'
  BY <1>28, <1>nofault DEF ReadLost
<1>29. ASSUME NEW m \in Messages, DrainNext(m) PROVE FreshInv'
  <2>1. Elsewhere
    BY <1>29, <1>nofault, <1>w DEF DrainNext, Elsewhere, Watched
  <2> QED
    BY <1>elsewhere, <2>1
<1>30. ASSUME DrainDone PROVE FreshInv'
  <2>1. Elsewhere
    BY <1>30, <1>nofault, <1>w DEF DrainDone, Elsewhere, Watched
  <2> QED
    BY <1>elsewhere, <2>1
<1>31. ASSUME DrainFails PROVE FreshInv'
  BY <1>31, <1>nofault DEF DrainFails
<1>32. ASSUME NEW c \in Customers, LockExpires(c) PROVE FreshInv'
  <2>1. Elsewhere
    BY <1>32, <1>nofault, <1>w DEF LockExpires, Elsewhere, Watched
  <2> QED
    BY <1>elsewhere, <2>1
<1>33. ASSUME NEW p \in Pairs, p[2] \in DOMAIN convs[p[1]], IdleClose(p) PROVE FreshInv'
  <2>1. UNCHANGED <<pc, cur, conv>>
    BY <1>33 DEF IdleClose
  <2>at. \A r : /\ At(Writing, r)' = At(Writing, r) /\ At(PastAI, r)' = At(PastAI, r)
                /\ At({"survey"}, r)' = At({"survey"}, r) /\ At({"toAI"}, r)' = At({"toAI"}, r)
    BY <2>1, AtSame
  <2>b. /\ beside["invalidate"] = {} /\ beside' = [beside EXCEPT !["invalidate"] = @ \cup {p}]
        /\ UNCHANGED <<session, handed>> /\ SetRow(p, "closed")
        /\ crossed' = IF InTransition(p) THEN crossed \cup {p} ELSE crossed
    BY <1>33, <1>nofault DEF IdleClose
  <2>2. /\ UNCHANGED <<session, handed>> /\ crossed \subseteq crossed'
        /\ beside'["row"] = beside["row"] /\ beside'["session"] = beside["session"]
        /\ beside'["invalidate"] = {p} /\ beside["invalidate"] = {}
    BY <2>b, <1>beside
  <2>3. "closed" \in States /\ SetRow(p, "closed")
    BY <2>b DEF States
  <2>4. p \notin crossed' => ~At(Writing, p) /\ p \notin beside["row"] \cup beside["session"]
    BY <2>b DEF InTransition, Transitioning, At
  <2> HIDE DEF PastAI, Writing
  <2>8. ASSUME NEW r \in Pairs
        PROVE  /\ Exists(r)' => Exists(r)
               /\ r # p /\ Exists(r) => Row(r)' = Row(r)
               /\ r = p /\ Exists(r) => Row(r)' = "closed"
    BY <2>3, SetRowElsewhere DEF ConvInv, Exists
  <2>9. ASSUME NEW r \in Pairs, Exists(r)', r \notin crossed' PROVE Fresh(r)'
    <3>1. Exists(r) /\ r \notin crossed /\ Fresh(r)
      BY <2>2, <2>8, <2>9 DEF FreshInv
    <3>2. CASE r # p
      BY <2>2, <2>8, <2>at, <3>1, <3>2 DEF Fresh
    <3>3. CASE r = p
      BY <2>2, <2>4, <2>8, <2>at, <2>9, <3>1, <3>3 DEF Fresh
    <3> QED
      BY <3>2, <3>3
  <2> QED
    BY <1>rows, <2>2, <2>9 DEF FreshInv
<1>34. ASSUME NEW p \in Pairs, p[2] \in DOMAIN convs[p[1]], InvalidateSession(p) PROVE FreshInv'
  <2>1. UNCHANGED <<pc, cur, conv>>
    BY <1>34 DEF InvalidateSession
  <2>at. \A r : /\ At(Writing, r)' = At(Writing, r) /\ At(PastAI, r)' = At(PastAI, r)
                /\ At({"survey"}, r)' = At({"survey"}, r) /\ At({"toAI"}, r)' = At({"toAI"}, r)
    BY <2>1, AtSame
  <2>2. UNCHANGED <<convs, handed, crossed>> /\ beside'["row"] = beside["row"] /\ beside'["session"] = beside["session"]
    BY <1>34, <1>beside DEF InvalidateSession
  <2>3. /\ \A r \in Pairs : r # p => session'[r] = session[r]
        /\ session'[p] = "none" /\ beside'["invalidate"] = beside["invalidate"] \ {p}
    BY <1>34, <1>nofault, <1>beside DEF InvalidateSession, ConvInv, PairsOK
  <2> HIDE DEF PastAI, Writing
  <2>9. ASSUME NEW r \in Pairs, Exists(r)', r \notin crossed' PROVE Fresh(r)'
    <3>1. Row(r)' = Row(r) /\ Fresh(r)
      BY <2>2, <2>9 DEF Row, Exists, FreshInv
    <3>2. CASE r # p
      BY <2>2, <2>3, <2>at, <3>1, <3>2 DEF Fresh
    <3>3. CASE r = p
      BY <2>2, <2>3, <2>at, <2>9, <3>1, <3>3 DEF Fresh
    <3> QED
      BY <3>2, <3>3
  <2> QED
    BY <2>2, <2>9 DEF FreshInv, Exists
<1>35. ASSUME NEW p \in Pairs, p[2] \in DOMAIN convs[p[1]], CloseCallback(p) PROVE FreshInv'
  <2>1. UNCHANGED <<pc, cur, conv>>
    BY <1>35 DEF CloseCallback
  <2>at. \A r : /\ At(Writing, r)' = At(Writing, r) /\ At(PastAI, r)' = At(PastAI, r)
                /\ At({"survey"}, r)' = At({"survey"}, r) /\ At({"toAI"}, r)' = At({"toAI"}, r)
    BY <2>1, AtSame
  <2>2. /\ UNCHANGED <<convs, session, handed, crossed>>
        /\ beside'["row"] = beside["row"] /\ beside'["session"] = beside["session"]
        /\ beside'["invalidate"] = beside["invalidate"]
    BY <1>35, <1>beside DEF CloseCallback
  <2> HIDE DEF PastAI, Writing
  <2>9. ASSUME NEW r \in Pairs, Exists(r)', r \notin crossed' PROVE Fresh(r)'
    <3>1. Row(r)' = Row(r) /\ Fresh(r)
      BY <2>2, <2>9 DEF Row, Exists, FreshInv
    <3>2. CASE r # p
      BY <2>2, <2>at, <3>1, <3>2 DEF Fresh
    <3>3. CASE r = p
      BY <2>2, <2>at, <2>9, <3>1, <3>3 DEF Fresh
    <3> QED
      BY <3>2, <3>3
  <2> QED
    BY <2>2, <2>9 DEF FreshInv, Exists
<1>36. ASSUME NEW p \in Pairs, p[2] \in DOMAIN convs[p[1]], SurveyLapses(p) PROVE FreshInv'
  <2>1. UNCHANGED <<pc, cur, conv>>
    BY <1>36 DEF SurveyLapses
  <2>at. \A r : /\ At(Writing, r)' = At(Writing, r) /\ At(PastAI, r)' = At(PastAI, r)
                /\ At({"survey"}, r)' = At({"survey"}, r) /\ At({"toAI"}, r)' = At({"toAI"}, r)
    BY <2>1, AtSame
  <2>2. UNCHANGED <<convs, session, handed, crossed, beside>>
    BY <1>36 DEF SurveyLapses
  <2> HIDE DEF PastAI, Writing
  <2>9. ASSUME NEW r \in Pairs, Exists(r)', r \notin crossed' PROVE Fresh(r)'
    <3>1. Row(r)' = Row(r) /\ Fresh(r)
      BY <2>2, <2>9 DEF Row, Exists, FreshInv
    <3>2. CASE r # p
      BY <2>2, <2>at, <3>1, <3>2 DEF Fresh
    <3>3. CASE r = p
      BY <2>2, <2>at, <2>9, <3>1, <3>3 DEF Fresh
    <3> QED
      BY <3>2, <3>3
  <2> QED
    BY <2>2, <2>9 DEF FreshInv, Exists
<1>37. ASSUME NEW p \in Pairs, p[2] \in DOMAIN convs[p[1]], SessionExpires(p) PROVE FreshInv'
  <2>1. UNCHANGED <<pc, cur, conv>>
    BY <1>37 DEF SessionExpires
  <2>at. \A r : /\ At(Writing, r)' = At(Writing, r) /\ At(PastAI, r)' = At(PastAI, r)
                /\ At({"survey"}, r)' = At({"survey"}, r) /\ At({"toAI"}, r)' = At({"toAI"}, r)
    BY <2>1, AtSame
  <2>2. UNCHANGED <<convs, handed, crossed, beside>>
    BY <1>37 DEF SessionExpires
  <2>3. (\A r \in Pairs : r # p => session'[r] = session[r]) /\ session'[p] = "none"
    BY <1>37 DEF SessionExpires, ConvInv, PairsOK
  <2> HIDE DEF PastAI, Writing
  <2>9. ASSUME NEW r \in Pairs, Exists(r)', r \notin crossed' PROVE Fresh(r)'
    <3>1. Row(r)' = Row(r) /\ Fresh(r)
      BY <2>2, <2>9 DEF Row, Exists, FreshInv
    <3>2. CASE r # p
      BY <2>2, <2>3, <2>at, <3>1, <3>2 DEF Fresh
    <3>3. CASE r = p
      BY <2>2, <2>3, <2>at, <2>9, <3>1, <3>3 DEF Fresh
    <3> QED
      BY <3>2, <3>3
  <2> QED
    BY <2>2, <2>9 DEF FreshInv, Exists
<1>38. ASSUME NEW p \in Pairs, p[2] \in DOMAIN convs[p[1]], HandlerTransition(p) PROVE FreshInv'
  <2>1. UNCHANGED <<pc, cur, conv>>
    BY <1>38 DEF HandlerTransition
  <2>at. \A r : /\ At(Writing, r)' = At(Writing, r) /\ At(PastAI, r)' = At(PastAI, r)
                /\ At({"survey"}, r)' = At({"survey"}, r) /\ At({"toAI"}, r)' = At({"toAI"}, r)
    BY <2>1, AtSame
  <2>2. /\ UNCHANGED <<convs, session>> /\ crossed \subseteq crossed' /\ handed' \subseteq handed /\ p \in handed
        /\ p \in beside["invalidate"] => p \in crossed'
        /\ beside'["invalidate"] = beside["invalidate"] /\ beside'["session"] = beside["session"]
    BY <1>38, <1>beside DEF HandlerTransition, ReadsBehindSweep, HandlerFinishes
  <2>3. \/ beside'["row"] = beside["row"]
        \/ beside'["row"] = beside["row"] \cup {p} /\ CanTransitionTo(View(p), "human_processing")
    BY <1>38, <1>nofault, <1>beside DEF HandlerTransition, MayMove
  <2>4. CanTransitionTo(View(p), "human_processing") /\ p \notin crossed' /\ Fresh(p) => Row(p) # "closed"
    BY <2>2 DEF Fresh, View, CanTransitionTo
  <2> HIDE DEF PastAI, Writing
  <2>9. ASSUME NEW r \in Pairs, Exists(r)', r \notin crossed' PROVE Fresh(r)'
    <3>1. Row(r)' = Row(r) /\ Fresh(r)
      BY <2>2, <2>9 DEF Row, Exists, FreshInv
    <3>2. CASE r # p
      BY <2>2, <2>3, <2>at, <3>1, <3>2 DEF Fresh
    <3>3. CASE r = p
      BY <2>2, <2>3, <2>4, <2>at, <2>9, <3>1, <3>3 DEF Fresh
    <3> QED
      BY <3>2, <3>3
  <2> QED
    BY <2>2, <2>3, <2>9 DEF FreshInv, Exists
<1>39. ASSUME NEW p \in Pairs, p[2] \in DOMAIN convs[p[1]], HandlerRow(p) PROVE FreshInv'
  <2>1. UNCHANGED <<pc, cur, conv>>
    BY <1>39 DEF HandlerRow
  <2>at. \A r : /\ At(Writing, r)' = At(Writing, r) /\ At(PastAI, r)' = At(PastAI, r)
                /\ At({"survey"}, r)' = At({"survey"}, r) /\ At({"toAI"}, r)' = At({"toAI"}, r)
    BY <2>1, AtSame
  <2>b. /\ p \in beside["row"] /\ UNCHANGED <<session, handed, crossed>> /\ SetRow(p, "human_processing")
        /\ beside' = [beside EXCEPT !["row"] = @ \ {p}, !["session"] = @ \cup {p}]
    BY <1>39, <1>nofault DEF HandlerRow
  <2>2. /\ UNCHANGED <<session, handed, crossed>> /\ p \in beside["row"]
        /\ beside'["row"] = beside["row"] \ {p} /\ beside'["session"] = beside["session"] \cup {p}
        /\ beside'["invalidate"] = beside["invalidate"]
    BY <2>b, <1>beside
  <2>3. "human_processing" \in States /\ SetRow(p, "human_processing")
    BY <2>b DEF States
  <2> HIDE DEF PastAI, Writing
  <2>8. ASSUME NEW r \in Pairs
        PROVE  /\ Exists(r)' => Exists(r)
               /\ r # p /\ Exists(r) => Row(r)' = Row(r)
               /\ r = p /\ Exists(r) => Row(r)' = "human_processing"
    BY <2>3, SetRowElsewhere DEF ConvInv, Exists
  <2>9. ASSUME NEW r \in Pairs, Exists(r)', r \notin crossed' PROVE Fresh(r)'
    <3>1. Exists(r) /\ r \notin crossed /\ Fresh(r)
      BY <2>2, <2>8, <2>9 DEF FreshInv
    <3>2. CASE r # p
      BY <2>2, <2>8, <2>at, <3>1, <3>2 DEF Fresh
    <3>3. CASE r = p
      BY <2>2, <2>8, <2>at, <2>9, <3>1, <3>3 DEF Fresh
    <3> QED
      BY <3>2, <3>3
  <2> QED
    BY <1>rows, <2>2, <2>9 DEF FreshInv
<1>40. ASSUME NEW p \in Pairs, p[2] \in DOMAIN convs[p[1]], HandlerSession(p) PROVE FreshInv'
  <2>1. UNCHANGED <<pc, cur, conv>>
    BY <1>40 DEF HandlerSession
  <2>at. \A r : /\ At(Writing, r)' = At(Writing, r) /\ At(PastAI, r)' = At(PastAI, r)
                /\ At({"survey"}, r)' = At({"survey"}, r) /\ At({"toAI"}, r)' = At({"toAI"}, r)
    BY <2>1, AtSame
  <2>2. /\ UNCHANGED <<convs, crossed>> /\ handed' \subseteq handed /\ p \in beside["session"]
        /\ beside'["invalidate"] = beside["invalidate"] /\ beside'["row"] = beside["row"]
        /\ beside'["session"] = beside["session"] \ {p}
    BY <1>40, <1>beside DEF HandlerSession, HandlerFinishes
  <2>3. \A r \in Pairs : r # p => session'[r] = session[r]
    BY <1>40 DEF HandlerSession, ConvInv, PairsOK
  <2> HIDE DEF PastAI, Writing
  <2>9. ASSUME NEW r \in Pairs, Exists(r)', r \notin crossed' PROVE Fresh(r)'
    <3>1. Row(r)' = Row(r) /\ Fresh(r)
      BY <2>2, <2>9 DEF Row, Exists, FreshInv
    <3>2. CASE r # p
      BY <2>2, <2>3, <2>at, <3>1, <3>2 DEF Fresh
    <3>3. CASE r = p
      BY <2>2, <2>3, <2>at, <2>9, <3>1, <3>3 DEF Fresh
    <3> QED
      BY <3>2, <3>3
  <2> QED
    BY <2>2, <2>9 DEF FreshInv, Exists
<1>41. ASSUME NextMonth PROVE FreshInv'
  <2>1. Elsewhere
    BY <1>41, <1>nofault, <1>w DEF NextMonth, Elsewhere, Watched
  <2> QED
    BY <1>elsewhere, <2>1
<1>42. ASSUME Crash PROVE FreshInv'
  BY <1>42, <1>nocrash DEF Crash
<1>43. ASSUME UNCHANGED vars PROVE FreshInv'
  <2>1. Elsewhere
    BY <1>43, <1>nofault, <1>w DEF vars, Elsewhere, Watched
  <2> QED
    BY <1>elsewhere, <2>1
<1> QED
  BY <1>1, <1>2, <1>3, <1>4, <1>5, <1>6, <1>7, <1>8, <1>9, <1>10, <1>11, <1>12, <1>13, <1>14,
     <1>15, <1>16, <1>17, <1>18, <1>19, <1>20, <1>21, <1>22, <1>23, <1>24, <1>25, <1>26, <1>27,
     <1>28, <1>29, <1>30, <1>31, <1>32, <1>33, <1>34, <1>35, <1>36, <1>37, <1>38, <1>39, <1>40,
     <1>41, <1>42, <1>43
  DEF Next, Consume, Environment, Beside, Process, Receive

\* An uncrossed conversation is not refused the transition to the AI.
LEMMA ToAIGranted ==
  ASSUME TypeOK, ConvInv, FreshInv, ~Fault, NEW w \in Workers, TransitionState(w), pc[w] = "toAI"
  PROVE  pc'[w] = "rowAI" \/ SenderOf[cur[w]] \in Crossed'
<1>1. Pair(w) \in Pairs /\ Exists(Pair(w)) /\ Pair(w)[1] = SenderOf[cur[w]]
  <2>1. pc[w] \in Carrying
    BY DEF Carrying, ToAI
  <2> QED
    BY <2>1, PairInHand DEF TypeOK, Exists, Sender
<1>2. crossed \subseteq crossed' /\ (Pair(w) \in beside["invalidate"] => Pair(w) \in crossed')
  BY DEF TransitionState, ReadsBehindSweep
<1>3. CASE Pair(w) \in crossed'
  BY <1>1, <1>3 DEF Crossed
<1>4. CASE Pair(w) \notin crossed'
  <2>1. Fresh(Pair(w)) /\ At({"toAI"}, Pair(w)) /\ Pair(w) \notin beside["invalidate"]
    BY <1>1, <1>2, <1>4 DEF FreshInv, At
  <2>2. CanTransitionTo(View(Pair(w)), "ai_processing")
    BY <2>1 DEF Fresh, View, CanTransitionTo
  <2>3. ~Refused(Pair(w), "ai_processing") /\ Goal(pc[w]) = "ai_processing"
    BY <2>2 DEF Refused, Goal, ToAI
  <2> QED
    BY <2>3 DEF TransitionState, Goto, TypeOK, ThreadsOK
<1> QED
  BY <1>3, <1>4

-----------------------------------------------------------------------------
(* The reactions.                                                          *)
\* What keeps StoredIsAnswered: whoever has a message stays with it until it is answered.
StaysWithIt ==
  /\ inMonth' \subseteq inMonth
  /\ \A m \in Messages : Reacted(m) => Reacted(m)'
  /\ \A v \in Workers : pc[v] \in Unanswered /\ cur[v] \notin Textless =>
       \/ pc'[v] \in Unanswered /\ cur'[v] = cur[v]
       \/ replies'[cur[v]] > 0 \/ SenderOf[cur[v]] \in Crossed'

LEMMA StoredKept ==
  ASSUME TypeOK, StoredIsAnswered, StaysWithIt PROVE StoredIsAnswered'
<1> SUFFICES ASSUME NEW m \in inMonth' \ Anonymous, m \notin Textless
             PROVE  replies'[m] > 0 \/ SenderOf[m] \in Crossed' \/ Reacting(m)' # {}
  BY DEF StoredIsAnswered, Reacted
<1>1. m \in inMonth /\ m \in Messages
  BY DEF StaysWithIt, TypeOK, TablesOK
<1>2. CASE Reacted(m)
  BY <1>1, <1>2 DEF StaysWithIt, Reacted
<1>3. CASE Reacting(m) # {}
  <2>1. PICK v \in Workers : cur[v] = m /\ pc[v] \in Unanswered
    BY <1>3 DEF Reacting
  <2> QED
    BY <2>1, <1>1 DEF StaysWithIt, Reacting
<1> QED
  BY <1>1, <1>2, <1>3 DEF StoredIsAnswered

LEMMA AnsweredNext ==
  ASSUME TypeOK, ConvInv, Alone, Calm, Calm', FreshInv, Answered, [Next]_vars PROVE Answered'
<1>granted. \A w \in Workers : TransitionState(w) /\ pc[w] = "toAI" =>
              pc'[w] = "rowAI" \/ SenderOf[cur[w]] \in Crossed'
  <2>1. ~Fault
    BY DEF Fault, Calm
  <2> QED
    BY <2>1, ToAIGranted
<1> USE MessagesAssumption, WorkersAssumption
    DEF TypeOK, QueuesOK, ThreadsOK, LocksOK, TablesOK, BagsOfMessages, Reacted,
        Steps, LockedSteps, LateSteps, ToAI, ToHuman, Decisions, Unanswered, Sender, Inc,
        Goto, PutDown, queueVars, tableVars, convRows, convVars, lockVars, outVars
<1>calm. ~slow
  BY DEF Calm
<1>body. Answered
  OBVIOUS
<1>nofault. ~Fault
  BY DEF Fault, Calm
<1>nocrash. crashes' # crashes + 1
  BY DEF Calm
<1>alone. \A v, w \in Workers :
            v # w /\ pc[v] \in LockedSteps /\ pc[w] \in LockedSteps => Sender(v) # Sender(w)
  BY DEF Alone
<1>grow. Crossed \subseteq Crossed'
  BY EveryRowStep DEF RowStep, Crossed
<1>quiet. UNCHANGED <<pc, cur, replies, settled, inMonth, overrun>> => Answered'
  BY <1>body, <1>grow DEF Answered, ReactedTo, StoredIsAnswered, SettledIsAnswered, Reacting
<1>1. ASSUME NEW w \in Workers, Routed(w) PROVE Answered'
  <2>1. overrun' = {} /\ \A v \in Workers : pc'[v] # "drop"
    BY <1>1, <1>body, <1>nofault DEF Routed, Answered
  <2>2. ReactedTo'
    BY <1>1, <1>body, <1>grow, <1>nofault DEF Routed, Answered, ReactedTo
  <2>3. StaysWithIt
    BY <1>1, <1>body, <1>grow, <1>nofault DEF Routed, StaysWithIt
  <2>4. SettledIsAnswered'
    BY <1>1, <1>body, <1>grow, <1>nofault DEF Routed, Answered, ReactedTo, SettledIsAnswered
  <2> QED
    BY <1>body, <2>1, <2>2, <2>3, <2>4, StoredKept DEF Answered
<1>2. ASSUME NEW w \in Workers, Unroutable(w) PROVE Answered'
  BY <1>2, <1>nofault DEF Unroutable
<1>3. ASSUME NEW w \in Workers, Acquire(w) PROVE Answered'
  <2>1. overrun' = {} /\ \A v \in Workers : pc'[v] # "drop"
    BY <1>3, <1>body, <1>nofault DEF Acquire, Answered
  <2>2. ReactedTo'
    BY <1>3, <1>body, <1>grow, <1>nofault DEF Acquire, Answered, ReactedTo
  <2>3. StaysWithIt
    BY <1>3, <1>body, <1>grow, <1>nofault DEF Acquire, StaysWithIt
  <2>4. SettledIsAnswered'
    BY <1>3, <1>body, <1>grow, <1>nofault DEF Acquire, Answered, ReactedTo, SettledIsAnswered
  <2> QED
    BY <1>body, <2>1, <2>2, <2>3, <2>4, StoredKept DEF Answered
<1>4. ASSUME NEW w \in Workers, LockWaitExceeded(w) PROVE Answered'
  <2>1. overrun' = {} /\ \A v \in Workers : pc'[v] # "drop"
    BY <1>4, <1>body, <1>nofault DEF LockWaitExceeded, Answered
  <2>2. ReactedTo'
    BY <1>4, <1>body, <1>grow, <1>nofault DEF LockWaitExceeded, Answered, ReactedTo
  <2>3. StaysWithIt
    BY <1>4, <1>body, <1>grow, <1>nofault DEF LockWaitExceeded, StaysWithIt
  <2>4. SettledIsAnswered'
    BY <1>4, <1>body, <1>grow, <1>nofault DEF LockWaitExceeded, Answered, ReactedTo, SettledIsAnswered
  <2> QED
    BY <1>body, <2>1, <2>2, <2>3, <2>4, StoredKept DEF Answered
<1>5. ASSUME NEW w \in Workers, LockError(w) PROVE Answered'
  BY <1>5, <1>nofault DEF LockError
<1>6. ASSUME NEW w \in Workers, Requeue(w) PROVE Answered'
  <2>1. overrun' = {} /\ \A v \in Workers : pc'[v] # "drop"
    BY <1>6, <1>body, <1>nofault DEF Requeue, Answered
  <2>2. ReactedTo'
    BY <1>6, <1>body, <1>grow, <1>nofault DEF Requeue, Answered, ReactedTo
  <2>3. StaysWithIt
    BY <1>6, <1>body, <1>grow, <1>nofault DEF Requeue, StaysWithIt
  <2>4. SettledIsAnswered'
    BY <1>6, <1>body, <1>grow, <1>nofault DEF Requeue, Answered, ReactedTo, SettledIsAnswered
  <2> QED
    BY <1>body, <2>1, <2>2, <2>3, <2>4, StoredKept DEF Answered
<1>7. ASSUME NEW w \in Workers, RequeueFails(w) PROVE Answered'
  BY <1>7, <1>nofault DEF RequeueFails
<1>8. ASSUME NEW w \in Workers, AckRequeued(w) PROVE Answered'
  <2>1. overrun' = {} /\ \A v \in Workers : pc'[v] # "drop"
    BY <1>8, <1>body, <1>nofault DEF AckRequeued, Answered
  <2>2. ReactedTo'
    BY <1>8, <1>body, <1>grow, <1>nofault DEF AckRequeued, Answered, ReactedTo
  <2>3. StaysWithIt
    BY <1>8, <1>body, <1>grow, <1>nofault DEF AckRequeued, StaysWithIt
  <2>4. SettledIsAnswered'
    BY <1>8, <1>body, <1>grow, <1>nofault DEF AckRequeued, Answered, ReactedTo, SettledIsAnswered
  <2> QED
    BY <1>body, <2>1, <2>2, <2>3, <2>4, StoredKept DEF Answered
<1>9. ASSUME NEW w \in Workers, AckDropped(w) PROVE Answered'
  BY <1>9, <1>body DEF AckDropped, Answered
<1>10. ASSUME NEW w \in Workers, FindConversation(w) PROVE Answered'
  <2>1. overrun' = {} /\ \A v \in Workers : pc'[v] # "drop"
    BY <1>10, <1>body, <1>nofault DEF FindConversation, Current, Answered
  <2>2. ReactedTo'
    BY <1>10, <1>body, <1>grow, <1>nofault DEF FindConversation, Current, Answered, ReactedTo
  <2>3. StaysWithIt
    BY <1>10, <1>body, <1>grow, <1>nofault DEF FindConversation, Current, StaysWithIt
  <2>4. SettledIsAnswered'
    BY <1>10, <1>body, <1>grow, <1>nofault DEF FindConversation, Current, Answered, ReactedTo, SettledIsAnswered
  <2> QED
    BY <1>body, <2>1, <2>2, <2>3, <2>4, StoredKept DEF Answered
<1>11. ASSUME NEW w \in Workers, CreateConversation(w) PROVE Answered'
  <2>1. overrun' = {} /\ \A v \in Workers : pc'[v] # "drop"
    BY <1>11, <1>body, <1>nofault DEF CreateConversation, Answered
  <2>2. ReactedTo'
    BY <1>11, <1>body, <1>grow, <1>nofault DEF CreateConversation, Answered, ReactedTo
  <2>3. StaysWithIt
    BY <1>11, <1>body, <1>grow, <1>nofault DEF CreateConversation, StaysWithIt
  <2>4. SettledIsAnswered'
    BY <1>11, <1>body, <1>grow, <1>nofault DEF CreateConversation, Answered, ReactedTo, SettledIsAnswered
  <2> QED
    BY <1>body, <2>1, <2>2, <2>3, <2>4, StoredKept DEF Answered
<1>12. ASSUME NEW w \in Workers, StoreMessage(w) PROVE Answered'
  <2>a. ASSUME IsRedelivery(cur[w]) PROVE cur[w] \in Textless \/ Reacted(cur[w])
    <3>1. Reacting(cur[w]) = {}
      BY <1>12, <1>alone DEF StoreMessage, Reacting
    <3> QED
      BY <2>a, <3>1, <1>body DEF IsRedelivery, Answered, StoredIsAnswered
  <2>1. overrun' = {} /\ \A v \in Workers : pc'[v] # "drop"
    BY <1>12, <1>body DEF StoreMessage, IsRedelivery, Stored, Answered
  <2>2. ReactedTo'
    BY <1>12, <1>body, <1>grow, <2>a DEF StoreMessage, Answered, ReactedTo
  <2>3. StoredIsAnswered'
    <3>1. CASE IsRedelivery(cur[w])
      <4>1. StaysWithIt
        BY <1>12, <1>grow, <3>1 DEF StoreMessage, StaysWithIt
      <4> QED
        BY <4>1, <1>body, StoredKept DEF Answered
    <3>2. CASE ~IsRedelivery(cur[w])
      <4>1. w \in Reacting(cur[w])'
        BY <1>12, <3>2 DEF StoreMessage, Reacting
      <4>2. \A m \in Messages : Reacting(m) \subseteq Reacting(m)'
        BY <1>12, <3>2 DEF StoreMessage, Reacting
      <4>3. inMonth' = inMonth \cup {cur[w]} /\ replies' = replies
        BY <1>12, <3>2 DEF StoreMessage, Stored
      <4>4. \A m \in inMonth' \ Anonymous : m = cur[w] \/ m \in inMonth \ Anonymous
        BY <4>3
      <4>5. cur'[w] = cur[w] /\ cur[w] \in Messages
        BY <1>12 DEF StoreMessage
      <4> QED
        BY <1>grow, <4>1, <4>2, <4>3, <4>4, <4>5, <1>body DEF Answered, StoredIsAnswered
    <3> QED
      BY <3>1, <3>2
  <2>4. SettledIsAnswered'
    BY <1>12, <1>body, <1>grow DEF StoreMessage, IsRedelivery, Stored, Answered, SettledIsAnswered
  <2> QED
    BY <1>body, <2>1, <2>2, <2>3, <2>4 DEF Answered
<1>13. ASSUME NEW w \in Workers, DatabaseError(w) PROVE Answered'
  BY <1>13, <1>nofault DEF DatabaseError
<1>14. ASSUME NEW w \in Workers, SwitchOnState(w) PROVE Answered'
  <2>1. overrun' = {} /\ \A v \in Workers : pc'[v] # "drop"
    BY <1>14, <1>body, <1>nofault DEF SwitchOnState, Answered
  <2>2. ReactedTo'
    BY <1>14, <1>body, <1>grow, <1>nofault DEF SwitchOnState, Answered, ReactedTo
  <2>3. StaysWithIt
    BY <1>14, <1>body, <1>grow, <1>nofault DEF SwitchOnState, StaysWithIt
  <2>4. SettledIsAnswered'
    BY <1>14, <1>body, <1>grow, <1>nofault DEF SwitchOnState, Answered, ReactedTo, SettledIsAnswered
  <2> QED
    BY <1>body, <2>1, <2>2, <2>3, <2>4, StoredKept DEF Answered
<1>15. ASSUME NEW w \in Workers, SurveyReply(w) PROVE Answered'
  <2>a. \/ replies' = Inc(replies, cur[w]) /\ pc' = [pc EXCEPT ![w] = "ack"]
        \/ replies' = replies /\ pc' = [pc EXCEPT ![w] = "toAI"]
    BY <1>15, <1>nofault DEF SurveyReply, SendOrLog
  <2>b. /\ pc'[w] = "ack" => replies'[cur[w]] > 0
        /\ \A m \in Messages : replies[m] > 0 => replies'[m] > 0
    <3>1. cur[w] \in Messages /\ w \in Workers
      BY <1>15 DEF SurveyReply
    <3>2. CASE replies' = Inc(replies, cur[w])
      BY <3>1, <3>2
    <3>3. CASE replies' = replies /\ pc' = [pc EXCEPT ![w] = "toAI"]
      BY <3>1, <3>3
    <3> QED
      BY <2>a, <3>2, <3>3
  <2>c. /\ cur' = cur /\ settled' = settled /\ inMonth' = inMonth
        /\ pc'[w] \in {"ack", "toAI"} /\ \A v \in Workers \ {w} : pc'[v] = pc[v]
    BY <1>15, <2>a DEF SurveyReply
  <2>1. overrun' = {} /\ \A v \in Workers : pc'[v] # "drop"
    BY <1>15, <1>body, <2>c DEF SurveyReply, Answered
  <2>2. ReactedTo'
    BY <1>15, <1>body, <1>grow, <2>b, <2>c DEF Answered, ReactedTo
  <2>3. StaysWithIt
    BY <1>15, <1>grow, <2>b, <2>c DEF SurveyReply, StaysWithIt
  <2>4. SettledIsAnswered'
    BY <1>body, <1>grow, <2>b, <2>c DEF Answered, SettledIsAnswered
  <2> QED
    BY <1>body, <2>1, <2>2, <2>3, <2>4, StoredKept DEF Answered
<1>16. ASSUME NEW w \in Workers, TransitionState(w) PROVE Answered'
  <2>a. /\ UNCHANGED <<cur, replies, settled, inMonth, overrun>> /\ pc' = [pc EXCEPT ![w] = pc'[w]]
        /\ \/ pc[w] = "toAI" /\ pc'[w] \in {"rowAI", "ack"}
           \/ pc[w] = "toHuman" /\ pc'[w] \in {"rowHuman", "ack"}
    BY <1>16 DEF TransitionState
  <2>b. pc[w] = "toAI" => pc'[w] = "rowAI" \/ SenderOf[cur[w]] \in Crossed'
    BY <1>16, <1>granted
  <2>1. overrun' = {} /\ \A v \in Workers : pc'[v] # "drop"
    BY <1>body, <2>a DEF Answered
  <2>2. ReactedTo'
    BY <1>body, <1>grow, <2>a, <2>b DEF Answered, ReactedTo
  <2>3. StaysWithIt
    BY <1>grow, <2>a, <2>b DEF StaysWithIt
  <2>4. SettledIsAnswered'
    BY <1>body, <1>grow, <2>a DEF Answered, SettledIsAnswered
  <2> QED
    BY <1>body, <2>1, <2>2, <2>3, <2>4, StoredKept DEF Answered
<1>17. ASSUME NEW w \in Workers, WriteRow(w) PROVE Answered'
  <2>1. overrun' = {} /\ \A v \in Workers : pc'[v] # "drop"
    BY <1>17, <1>body, <1>nofault DEF WriteRow, Answered
  <2>2. ReactedTo'
    BY <1>17, <1>body, <1>grow, <1>nofault DEF WriteRow, Answered, ReactedTo
  <2>3. StaysWithIt
    BY <1>17, <1>body, <1>grow, <1>nofault DEF WriteRow, StaysWithIt
  <2>4. SettledIsAnswered'
    BY <1>17, <1>body, <1>grow, <1>nofault DEF WriteRow, Answered, ReactedTo, SettledIsAnswered
  <2> QED
    BY <1>body, <2>1, <2>2, <2>3, <2>4, StoredKept DEF Answered
<1>18. ASSUME NEW w \in Workers, WriteSession(w) PROVE Answered'
  <2>1. overrun' = {} /\ \A v \in Workers : pc'[v] # "drop"
    BY <1>18, <1>body, <1>nofault DEF WriteSession, Answered
  <2>2. ReactedTo'
    BY <1>18, <1>body, <1>grow, <1>nofault DEF WriteSession, Answered, ReactedTo
  <2>3. StaysWithIt
    BY <1>18, <1>body, <1>grow, <1>nofault DEF WriteSession, StaysWithIt
  <2>4. SettledIsAnswered'
    BY <1>18, <1>body, <1>grow, <1>nofault DEF WriteSession, Answered, ReactedTo, SettledIsAnswered
  <2> QED
    BY <1>body, <2>1, <2>2, <2>3, <2>4, StoredKept DEF Answered
<1>19. ASSUME NEW w \in Workers, Ask(w) PROVE Answered'
  <2>1. overrun' = {} /\ \A v \in Workers : pc'[v] # "drop"
    BY <1>19, <1>body, <1>nofault DEF Ask, Answered
  <2>2. ReactedTo'
    BY <1>19, <1>body, <1>grow, <1>nofault DEF Ask, Answered, ReactedTo
  <2>3. StaysWithIt
    BY <1>19, <1>body, <1>grow, <1>nofault DEF Ask, StaysWithIt
  <2>4. SettledIsAnswered'
    BY <1>19, <1>body, <1>grow, <1>nofault DEF Ask, Answered, ReactedTo, SettledIsAnswered
  <2> QED
    BY <1>body, <2>1, <2>2, <2>3, <2>4, StoredKept DEF Answered
<1>20. ASSUME NEW w \in Workers, DifyReturns(w) PROVE Answered'
  <2>1. overrun' = {} /\ \A v \in Workers : pc'[v] # "drop"
    BY <1>20, <1>body, <1>nofault DEF DifyReturns, Answered
  <2>2. ReactedTo'
    BY <1>20, <1>body, <1>grow, <1>nofault DEF DifyReturns, Answered, ReactedTo
  <2>3. StaysWithIt
    BY <1>20, <1>body, <1>grow, <1>nofault DEF DifyReturns, StaysWithIt
  <2>4. SettledIsAnswered'
    BY <1>20, <1>body, <1>grow, <1>nofault DEF DifyReturns, Answered, ReactedTo, SettledIsAnswered
  <2> QED
    BY <1>body, <2>1, <2>2, <2>3, <2>4, StoredKept DEF Answered
<1>21. ASSUME NEW w \in Workers, PublishReply(w) PROVE Answered'
  <2>a. replies' = Inc(replies, cur[w])
    BY <1>21, <1>nofault DEF PublishReply, SendOrLog
  <2>b. replies'[cur[w]] > 0 /\ \A m \in Messages : replies[m] > 0 => replies'[m] > 0
    BY <1>21, <2>a DEF PublishReply
  <2>c. cur' = cur /\ settled' = settled /\ inMonth' = inMonth /\ pc' = [pc EXCEPT ![w] = pc'[w]]
    BY <1>21 DEF PublishReply
  <2>1. overrun' = {} /\ \A v \in Workers : pc'[v] # "drop"
    BY <1>21, <1>body, <1>nofault DEF PublishReply, SendOrLog, Answered
  <2>2. ReactedTo'
    <3>1. \A v \in Workers \ {w} : pc'[v] = pc[v]
      BY <2>c
    <3>2. \A v \in Workers : pc[v] # "idle" => cur[v] \in Messages
      OBVIOUS
    <3>3. ReactedTo
      BY <1>body DEF Answered
    <3> QED
      BY <1>grow, <2>b, <2>c, <3>1, <3>2, <3>3 DEF ReactedTo
  <2>3. StaysWithIt
    BY <1>21, <1>grow, <2>b, <2>c DEF PublishReply, StaysWithIt
  <2>4. SettledIsAnswered'
    BY <1>body, <1>grow, <2>b, <2>c DEF Answered, SettledIsAnswered
  <2> QED
    BY <1>body, <2>1, <2>2, <2>3, <2>4, StoredKept DEF Answered
<1>22. ASSUME NEW w \in Workers, PublishHandoffEvent(w) PROVE Answered'
  <2>1. overrun' = {} /\ \A v \in Workers : pc'[v] # "drop"
    BY <1>22, <1>body, <1>nofault DEF PublishHandoffEvent, Answered
  <2>2. ReactedTo'
    BY <1>22, <1>body, <1>grow, <1>nofault DEF PublishHandoffEvent, Answered, ReactedTo
  <2>3. StaysWithIt
    BY <1>22, <1>body, <1>grow, <1>nofault DEF PublishHandoffEvent, StaysWithIt
  <2>4. SettledIsAnswered'
    BY <1>22, <1>body, <1>grow, <1>nofault DEF PublishHandoffEvent, Answered, ReactedTo, SettledIsAnswered
  <2> QED
    BY <1>body, <2>1, <2>2, <2>3, <2>4, StoredKept DEF Answered
<1>23. ASSUME NEW w \in Workers, Forward(w) PROVE Answered'
  <2>a. replies' = Inc(replies, cur[w])
    BY <1>23, <1>nofault DEF Forward, SendOrLog
  <2>b. replies'[cur[w]] > 0 /\ \A m \in Messages : replies[m] > 0 => replies'[m] > 0
    BY <1>23, <2>a DEF Forward
  <2>c. cur' = cur /\ settled' = settled /\ inMonth' = inMonth /\ pc' = [pc EXCEPT ![w] = pc'[w]]
    BY <1>23 DEF Forward
  <2>1. overrun' = {} /\ \A v \in Workers : pc'[v] # "drop"
    BY <1>23, <1>body, <1>nofault DEF Forward, SendOrLog, Answered
  <2>2. ReactedTo'
    <3>1. \A v \in Workers \ {w} : pc'[v] = pc[v]
      BY <2>c
    <3>2. \A v \in Workers : pc[v] # "idle" => cur[v] \in Messages
      OBVIOUS
    <3>3. ReactedTo
      BY <1>body DEF Answered
    <3> QED
      BY <1>grow, <2>b, <2>c, <3>1, <3>2, <3>3 DEF ReactedTo
  <2>3. StaysWithIt
    BY <1>23, <1>grow, <2>b, <2>c DEF Forward, StaysWithIt
  <2>4. SettledIsAnswered'
    BY <1>body, <1>grow, <2>b, <2>c DEF Answered, SettledIsAnswered
  <2> QED
    BY <1>body, <2>1, <2>2, <2>3, <2>4, StoredKept DEF Answered
<1>24. ASSUME NEW w \in Workers, Ack(w) PROVE Answered'
  <2>a. settled' = Inc(settled, cur[w])
    BY <1>24, <1>nofault DEF Ack
  <2>b. cur[w] \in Textless \/ Reacted(cur[w])
    BY <1>24, <1>body DEF Ack, Answered, ReactedTo
  <2>1. overrun' = {} /\ \A v \in Workers : pc'[v] # "drop"
    BY <1>24, <1>body, <1>nofault DEF Ack, Answered
  <2>2. ReactedTo'
    BY <1>24, <1>body, <1>grow, <1>nofault DEF Ack, Answered, ReactedTo
  <2>3. StaysWithIt
    BY <1>24, <1>body, <1>grow, <1>nofault DEF Ack, StaysWithIt
  <2>4. SettledIsAnswered'
    BY <1>24, <1>body, <1>grow, <2>a, <2>b DEF Ack, Answered, SettledIsAnswered
  <2> QED
    BY <1>body, <2>1, <2>2, <2>3, <2>4, StoredKept DEF Answered
<1>25. ASSUME NEW w \in Workers, Release(w) PROVE Answered'
  <2>1. overrun' = {} /\ \A v \in Workers : pc'[v] # "drop"
    BY <1>25, <1>body, <1>nofault DEF Release, Answered
  <2>2. ReactedTo'
    BY <1>25, <1>body, <1>grow, <1>nofault DEF Release, Answered, ReactedTo
  <2>3. StaysWithIt
    BY <1>25, <1>body, <1>grow, <1>nofault DEF Release, StaysWithIt
  <2>4. SettledIsAnswered'
    BY <1>25, <1>body, <1>grow, <1>nofault DEF Release, Answered, ReactedTo, SettledIsAnswered
  <2> QED
    BY <1>body, <2>1, <2>2, <2>3, <2>4, StoredKept DEF Answered
<1>26. ASSUME NEW w \in Workers, NEW m \in Messages, Read(w, m) PROVE Answered'
  <2>1. overrun' = {} /\ \A v \in Workers : pc'[v] # "drop"
    BY <1>26, <1>body, <1>nofault DEF Read, Answered
  <2>2. ReactedTo'
    BY <1>26, <1>body, <1>grow, <1>nofault DEF Read, Answered, ReactedTo
  <2>3. StaysWithIt
    BY <1>26, <1>body, <1>grow, <1>nofault DEF Read, StaysWithIt
  <2>4. SettledIsAnswered'
    BY <1>26, <1>body, <1>grow, <1>nofault DEF Read, Answered, ReactedTo, SettledIsAnswered
  <2> QED
    BY <1>body, <2>1, <2>2, <2>3, <2>4, StoredKept DEF Answered
<1>27. ASSUME NEW m \in Messages, Publish(m) PROVE Answered'
  <2>1. UNCHANGED <<pc, cur, replies, settled, inMonth, overrun>>
    BY <1>27 DEF Publish
  <2> QED
    BY <1>quiet, <2>1
<1>28. ASSUME NEW m \in Messages, ReadLost(m) PROVE Answered'
  BY <1>28, <1>nofault DEF ReadLost
<1>29. ASSUME NEW m \in Messages, DrainNext(m) PROVE Answered'
  <2>1. overrun' = {} /\ \A v \in Workers : pc'[v] # "drop"
    BY <1>29, <1>body, <1>nofault DEF DrainNext, Answered
  <2>2. ReactedTo'
    BY <1>29, <1>body, <1>grow, <1>nofault DEF DrainNext, Answered, ReactedTo
  <2>3. StaysWithIt
    BY <1>29, <1>body, <1>grow, <1>nofault DEF DrainNext, StaysWithIt
  <2>4. SettledIsAnswered'
    BY <1>29, <1>body, <1>grow, <1>nofault DEF DrainNext, Answered, ReactedTo, SettledIsAnswered
  <2> QED
    BY <1>body, <2>1, <2>2, <2>3, <2>4, StoredKept DEF Answered
<1>30. ASSUME DrainDone PROVE Answered'
  <2>1. UNCHANGED <<pc, cur, replies, settled, inMonth, overrun>>
    BY <1>30 DEF DrainDone
  <2> QED
    BY <1>quiet, <2>1
<1>31. ASSUME DrainFails PROVE Answered'
  BY <1>31, <1>nofault DEF DrainFails
<1>32. ASSUME NEW c \in Customers, LockExpires(c) PROVE Answered'
  <2>1. UNCHANGED <<pc, cur, replies, settled, inMonth, overrun>>
    BY <1>32, <1>calm DEF LockExpires
  <2> QED
    BY <1>quiet, <2>1
<1>33. ASSUME NEW p \in Pairs, p[2] \in DOMAIN convs[p[1]], IdleClose(p) PROVE Answered'
  <2>1. UNCHANGED <<pc, cur, replies, settled, inMonth, overrun>>
    BY <1>33 DEF IdleClose
  <2> QED
    BY <1>quiet, <2>1
<1>34. ASSUME NEW p \in Pairs, p[2] \in DOMAIN convs[p[1]], InvalidateSession(p) PROVE Answered'
  <2>1. UNCHANGED <<pc, cur, replies, settled, inMonth, overrun>>
    BY <1>34 DEF InvalidateSession
  <2> QED
    BY <1>quiet, <2>1
<1>35. ASSUME NEW p \in Pairs, p[2] \in DOMAIN convs[p[1]], CloseCallback(p) PROVE Answered'
  <2>1. UNCHANGED <<pc, cur, replies, settled, inMonth, overrun>>
    BY <1>35 DEF CloseCallback
  <2> QED
    BY <1>quiet, <2>1
<1>36. ASSUME NEW p \in Pairs, p[2] \in DOMAIN convs[p[1]], SurveyLapses(p) PROVE Answered'
  <2>1. UNCHANGED <<pc, cur, replies, settled, inMonth, overrun>>
    BY <1>36 DEF SurveyLapses
  <2> QED
    BY <1>quiet, <2>1
<1>37. ASSUME NEW p \in Pairs, p[2] \in DOMAIN convs[p[1]], SessionExpires(p) PROVE Answered'
  <2>1. UNCHANGED <<pc, cur, replies, settled, inMonth, overrun>>
    BY <1>37 DEF SessionExpires
  <2> QED
    BY <1>quiet, <2>1
<1>38. ASSUME NEW p \in Pairs, p[2] \in DOMAIN convs[p[1]], HandlerTransition(p) PROVE Answered'
  <2>1. UNCHANGED <<pc, cur, replies, settled, inMonth, overrun>>
    BY <1>38 DEF HandlerTransition
  <2> QED
    BY <1>quiet, <2>1
<1>39. ASSUME NEW p \in Pairs, p[2] \in DOMAIN convs[p[1]], HandlerRow(p) PROVE Answered'
  <2>1. UNCHANGED <<pc, cur, replies, settled, inMonth, overrun>>
    BY <1>39 DEF HandlerRow
  <2> QED
    BY <1>quiet, <2>1
<1>40. ASSUME NEW p \in Pairs, p[2] \in DOMAIN convs[p[1]], HandlerSession(p) PROVE Answered'
  <2>1. UNCHANGED <<pc, cur, replies, settled, inMonth, overrun>>
    BY <1>40 DEF HandlerSession
  <2> QED
    BY <1>quiet, <2>1
<1>41. ASSUME NextMonth PROVE Answered'
  BY <1>41, <1>body, <1>grow
  DEF NextMonth, Answered, ReactedTo, StoredIsAnswered, SettledIsAnswered
<1>42. ASSUME Crash PROVE Answered'
  BY <1>42, <1>nocrash DEF Crash
<1>43. ASSUME UNCHANGED vars PROVE Answered'
  <2>1. UNCHANGED <<pc, cur, replies, settled, inMonth, overrun>>
    BY <1>43 DEF vars
  <2> QED
    BY <1>quiet, <2>1
<1> QED
  BY <1>1, <1>2, <1>3, <1>4, <1>5, <1>6, <1>7, <1>8, <1>9, <1>10, <1>11, <1>12, <1>13, <1>14,
     <1>15, <1>16, <1>17, <1>18, <1>19, <1>20, <1>21, <1>22, <1>23, <1>24, <1>25, <1>26, <1>27,
     <1>28, <1>29, <1>30, <1>31, <1>32, <1>33, <1>34, <1>35, <1>36, <1>37, <1>38, <1>39, <1>40,
     <1>41, <1>42, <1>43
  DEF Next, Consume, Environment, Beside, Process, Receive

LEMMA CalmInit == Init => CalmInv
<1> SUFFICES ASSUME Init PROVE FreshInv /\ Answered
  BY DEF CalmInv
<1>1. FreshInv
  BY DEF Init, FreshInv, Exists, Pairs, SweepSteps, HandlerSteps
<1>2. Answered
  BY DEF Init, Answered, ReactedTo, StoredIsAnswered, SettledIsAnswered, Empty, ToHuman
<1> QED
  BY <1>1, <1>2

LEMMA CalmNext == TypeOK /\ ConvInv /\ HoldsLock /\ CalmInv /\ [Next]_vars => CalmInv'
<1> SUFFICES ASSUME TypeOK, ConvInv, HoldsLock, CalmInv, [Next]_vars, Calm'
             PROVE  FreshInv' /\ Answered'
  BY DEF CalmInv
<1>1. Calm
  <2>1. faults = 0 /\ crashes = 0
    BY FailuresCounted, BoundsAssumption DEF FailuresOK, Fault, BoundsOK, Calm, TypeOK
  <2>2. slow' = slow
    BY FailuresCounted DEF FailuresOK
  <2> QED
    BY <2>1, <2>2 DEF Calm
<1>2. FreshInv /\ Answered
  BY <1>1 DEF CalmInv
<1>3. Alone
  BY <1>2 DEF HoldsLock, Answered, Alone
<1> QED
  BY <1>1, <1>2, <1>3, FreshNext, AnsweredNext

(* Without failures, crashes and expired locks an acknowledged message with *)
(* text was reacted to: a redelivery waits for the lock, and finds the row  *)
(* only when the worker that stored it is through.                          *)
THEOREM SettledAnswered == Spec => []AcknowledgedMeansAnswered
<1>1. CalmInv => AcknowledgedMeansAnswered
  BY DEF CalmInv, Calm, Answered, SettledIsAnswered, Reacted, AcknowledgedMeansAnswered
<1>2. LockInv => HoldsLock
  BY DEF LockInv
<1> QED
  BY <1>1, <1>2, LockInvInit, LockInvNext, ConvInvariant, TypeCorrect, CalmInit, CalmNext, PTL DEF Spec
=============================================================================
