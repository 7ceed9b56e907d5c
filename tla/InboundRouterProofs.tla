------------------------ MODULE InboundRouterProofs ------------------------
(***************************************************************************)
(* Theorems of InboundRouter for any number of workers, customers and      *)
(* messages: the conversation lock, and the ledger of reactions.           *)
(***************************************************************************)
EXTENDS InboundRouter, FiniteSetTheorems, TLAPS

USE DEF BagsOfMessages

-----------------------------------------------------------------------------
(* The lock.  A worker inside it whose TTL did not run out is the one the  *)
(* key names: the invariant behind ExclusiveUnlessOverrun.                 *)
HoldsLock ==
  \A w \in Workers : pc[w] \in LockedSteps /\ w \notin overrun => lock[Sender(w)] = w

LockInv == ThreadsOK /\ LocksOK /\ HoldsLock

LEMMA LockInvInit == Init => LockInv
<1> SUFFICES ASSUME Init PROVE LockInv
  OBVIOUS
<1>1. slow \in BOOLEAN
  BY BoundsAssumption, Zenon DEF Init
<1>2. LocksOK
  BY <1>1 DEF Init, LocksOK
<1>3. ThreadsOK /\ HoldsLock
  BY DEF Init, ThreadsOK, HoldsLock, Steps, LockedSteps, LateSteps, ToAI, ToHuman, Decisions
<1> QED
  BY <1>2, <1>3 DEF LockInv

LEMMA LockInvNext == LockInv /\ [Next]_vars => LockInv'
<1> SUFFICES ASSUME LockInv, [Next]_vars PROVE LockInv'
  OBVIOUS
<1> USE WorkersAssumption, MessagesAssumption
    DEF LockInv, ThreadsOK, LocksOK, HoldsLock, Sender, Steps, LockedSteps, LateSteps, ToAI, ToHuman, Decisions,
        Goto, PutDown, queueVars, tableVars, convRows, convVars, lockVars, outVars
<1>1. ASSUME NEW w \in Workers, Routed(w) PROVE LockInv'
  BY <1>1 DEF Routed
<1>2. ASSUME NEW w \in Workers, Unroutable(w) PROVE LockInv'
  BY <1>2 DEF Unroutable
<1>3. ASSUME NEW w \in Workers, Acquire(w) PROVE LockInv'
  BY <1>3 DEF Acquire
<1>4. ASSUME NEW w \in Workers, LockWaitExceeded(w) PROVE LockInv'
  BY <1>4 DEF LockWaitExceeded
<1>5. ASSUME NEW w \in Workers, LockError(w) PROVE LockInv'
  BY <1>5 DEF LockError
<1>6. ASSUME NEW w \in Workers, Requeue(w) PROVE LockInv'
  BY <1>6 DEF Requeue
<1>7. ASSUME NEW w \in Workers, RequeueFails(w) PROVE LockInv'
  BY <1>7 DEF RequeueFails
<1>8. ASSUME NEW w \in Workers, AckRequeued(w) PROVE LockInv'
  BY <1>8 DEF AckRequeued
<1>9. ASSUME NEW w \in Workers, AckDropped(w) PROVE LockInv'
  BY <1>9 DEF AckDropped
<1>10. ASSUME NEW w \in Workers, FindConversation(w) PROVE LockInv'
  BY <1>10 DEF FindConversation
<1>11. ASSUME NEW w \in Workers, CreateConversation(w) PROVE LockInv'
  BY <1>11 DEF CreateConversation
<1>12. ASSUME NEW w \in Workers, StoreMessage(w) PROVE LockInv'
  BY <1>12 DEF StoreMessage
<1>13. ASSUME NEW w \in Workers, DatabaseError(w) PROVE LockInv'
  BY <1>13 DEF DatabaseError
<1>14. ASSUME NEW w \in Workers, SwitchOnState(w) PROVE LockInv'
  BY <1>14 DEF SwitchOnState
<1>15. ASSUME NEW w \in Workers, SurveyReply(w) PROVE LockInv'
  BY <1>15 DEF SurveyReply
<1>16. ASSUME NEW w \in Workers, TransitionState(w) PROVE LockInv'
  BY <1>16 DEF TransitionState
<1>17. ASSUME NEW w \in Workers, WriteRow(w) PROVE LockInv'
  BY <1>17 DEF WriteRow
<1>18. ASSUME NEW w \in Workers, WriteSession(w) PROVE LockInv'
  BY <1>18 DEF WriteSession
<1>19. ASSUME NEW w \in Workers, Ask(w) PROVE LockInv'
  BY <1>19 DEF Ask
<1>20. ASSUME NEW w \in Workers, DifyReturns(w) PROVE LockInv'
  BY <1>20 DEF DifyReturns
<1>21. ASSUME NEW w \in Workers, PublishReply(w) PROVE LockInv'
  BY <1>21 DEF PublishReply
<1>22. ASSUME NEW w \in Workers, PublishHandoffEvent(w) PROVE LockInv'
  BY <1>22 DEF PublishHandoffEvent
<1>23. ASSUME NEW w \in Workers, Forward(w) PROVE LockInv'
  BY <1>23 DEF Forward
<1>24. ASSUME NEW w \in Workers, Ack(w) PROVE LockInv'
  BY <1>24 DEF Ack
<1>25. ASSUME NEW w \in Workers, Release(w) PROVE LockInv'
  BY <1>25 DEF Release
<1>26. ASSUME NEW w \in Workers, NEW m \in Messages, Read(w, m) PROVE LockInv'
  BY <1>26 DEF Read
<1>27. ASSUME NEW m \in Messages, Publish(m) PROVE LockInv'
  BY <1>27 DEF Publish
<1>28. ASSUME NEW m \in Messages, ReadLost(m) PROVE LockInv'
  BY <1>28 DEF ReadLost
<1>29. ASSUME NEW m \in Messages, DrainNext(m) PROVE LockInv'
  BY <1>29 DEF DrainNext
<1>30. CASE DrainDone
  BY <1>30 DEF DrainDone
<1>31. CASE DrainFails
  BY <1>31 DEF DrainFails
<1>32. ASSUME NEW c \in Customers, LockExpires(c) PROVE LockInv'
  BY <1>32 DEF LockExpires
<1>33. ASSUME NEW p \in Pairs, IdleClose(p) PROVE LockInv'
  BY <1>33 DEF IdleClose
<1>34. ASSUME NEW p \in Pairs, InvalidateSession(p) PROVE LockInv'
  BY <1>34 DEF InvalidateSession
<1>35. ASSUME NEW p \in Pairs, CloseCallback(p) PROVE LockInv'
  BY <1>35 DEF CloseCallback
<1>36. ASSUME NEW p \in Pairs, SurveyLapses(p) PROVE LockInv'
  BY <1>36 DEF SurveyLapses
<1>37. ASSUME NEW p \in Pairs, SessionExpires(p) PROVE LockInv'
  BY <1>37 DEF SessionExpires
<1>38. ASSUME NEW p \in Pairs, HandlerTransition(p) PROVE LockInv'
  BY <1>38 DEF HandlerTransition
<1>39. ASSUME NEW p \in Pairs, HandlerRow(p) PROVE LockInv'
  BY <1>39 DEF HandlerRow
<1>40. ASSUME NEW p \in Pairs, HandlerSession(p) PROVE LockInv'
  BY <1>40 DEF HandlerSession
<1>41. CASE NextMonth
  BY <1>41 DEF NextMonth
<1>42. CASE Crash
  BY <1>42 DEF Crash
<1>43. CASE UNCHANGED vars
  BY <1>43 DEF vars
<1> QED
  BY <1>1, <1>2, <1>3, <1>4, <1>5, <1>6, <1>7, <1>8, <1>9, <1>10, <1>11, <1>12, <1>13, <1>14,
     <1>15, <1>16, <1>17, <1>18, <1>19, <1>20, <1>21, <1>22, <1>23, <1>24, <1>25, <1>26, <1>27,
     <1>28, <1>29, <1>30, <1>31, <1>32, <1>33, <1>34, <1>35, <1>36, <1>37, <1>38, <1>39, <1>40,
     <1>41, <1>42, <1>43
  DEF Next, Consume, Environment, Beside, Process, Receive

(* Two workers inside the lock of one customer: one of them overran.       *)
THEOREM LockExclusive == Spec => []ExclusiveUnlessOverrun
<1>1. LockInv => ExclusiveUnlessOverrun
  BY DEF LockInv, HoldsLock, ExclusiveUnlessOverrun, InsideLock
<1> QED
  BY <1>1, LockInvInit, LockInvNext, PTL DEF Spec

LEMMA ThreadsType == Spec => []ThreadsOK
<1>1. LockInv => ThreadsOK
  BY DEF LockInv
<1> QED
  BY <1>1, LockInvInit, LockInvNext, PTL DEF Spec

LEMMA LocksType == Spec => []LocksOK
<1>1. LockInv => LocksOK
  BY DEF LockInv
<1> QED
  BY <1>1, LockInvInit, LockInvNext, PTL DEF Spec

-----------------------------------------------------------------------------
(* The conversations and the counters of injected failures.                *)
LEMMA SetState ==
  ASSUME NEW S, NEW D, NEW f \in [D -> Seq(S)], NEW d, NEW i, NEW e \in S
  PROVE  [f EXCEPT ![d][i] = e] \in [D -> Seq(S)]
<1>1. \A s \in Seq(S) : [s EXCEPT ![i] = e] \in Seq(S)
  <2> SUFFICES ASSUME NEW s \in Seq(S) PROVE [s EXCEPT ![i] = e] \in Seq(S)
    OBVIOUS
  <2>1. s \in [1..Len(s) -> S]
    OBVIOUS
  <2>2. [s EXCEPT ![i] = e] \in [1..Len(s) -> S]
    BY <2>1
  <2> QED
    BY <2>2
<1> QED
  BY <1>1

\* What a step may do to the rows: nothing, a state for one of them, a new one.
RowStep ==
  /\ \/ UNCHANGED convs
     \/ \E c \in Customers, i \in Nat, s \in States : convs' = [convs EXCEPT ![c][i] = s]
     \/ \E c \in Customers : /\ Len(convs[c]) < MaxConvs
                             /\ convs' = [convs EXCEPT ![c] = Append(@, "pending")]
  /\ crossed \subseteq crossed'

LEMMA EveryRowStep == ThreadsOK /\ ConvsOK /\ [Next]_vars => RowStep
<1> SUFFICES ASSUME ThreadsOK, ConvsOK, [Next]_vars PROVE RowStep
  OBVIOUS
<1> USE MessagesAssumption DEF RowStep, convRows, convVars
<1>sender. \A w \in Workers : pc[w] # "idle" => Sender(w) \in Customers /\ conv[w] \in Nat
  BY DEF ThreadsOK, ConvsOK, Sender
<1>1. ASSUME NEW w \in Workers, Routed(w) PROVE RowStep
  BY <1>1 DEF Routed
<1>2. ASSUME NEW w \in Workers, Unroutable(w) PROVE RowStep
  BY <1>2 DEF Unroutable
<1>3. ASSUME NEW w \in Workers, Acquire(w) PROVE RowStep
  BY <1>3 DEF Acquire
<1>4. ASSUME NEW w \in Workers, LockWaitExceeded(w) PROVE RowStep
  BY <1>4 DEF LockWaitExceeded
<1>5. ASSUME NEW w \in Workers, LockError(w) PROVE RowStep
  BY <1>5 DEF LockError
<1>6. ASSUME NEW w \in Workers, Requeue(w) PROVE RowStep
  BY <1>6 DEF Requeue
<1>7. ASSUME NEW w \in Workers, RequeueFails(w) PROVE RowStep
  BY <1>7 DEF RequeueFails
<1>8. ASSUME NEW w \in Workers, AckRequeued(w) PROVE RowStep
  BY <1>8 DEF AckRequeued
<1>9. ASSUME NEW w \in Workers, AckDropped(w) PROVE RowStep
  BY <1>9 DEF AckDropped
<1>10. ASSUME NEW w \in Workers, FindConversation(w) PROVE RowStep
  BY <1>10 DEF FindConversation
<1>11. ASSUME NEW w \in Workers, CreateConversation(w) PROVE RowStep
  BY <1>11, <1>sender DEF CreateConversation
<1>12. ASSUME NEW w \in Workers, StoreMessage(w) PROVE RowStep
  BY <1>12 DEF StoreMessage
<1>13. ASSUME NEW w \in Workers, DatabaseError(w) PROVE RowStep
  BY <1>13, <1>sender DEF DatabaseError
<1>14. ASSUME NEW w \in Workers, SwitchOnState(w) PROVE RowStep
  BY <1>14 DEF SwitchOnState
<1>15. ASSUME NEW w \in Workers, SurveyReply(w) PROVE RowStep
  BY <1>15 DEF SurveyReply
<1>16. ASSUME NEW w \in Workers, TransitionState(w) PROVE RowStep
  BY <1>16 DEF TransitionState, ReadsBehindSweep
<1>17. ASSUME NEW w \in Workers, WriteRow(w) PROVE RowStep
  BY <1>17, <1>sender DEF WriteRow, SetRow, Goal, Pair, States
<1>18. ASSUME NEW w \in Workers, WriteSession(w) PROVE RowStep
  BY <1>18 DEF WriteSession
<1>19. ASSUME NEW w \in Workers, Ask(w) PROVE RowStep
  BY <1>19 DEF Ask
<1>20. ASSUME NEW w \in Workers, DifyReturns(w) PROVE RowStep
  BY <1>20 DEF DifyReturns
<1>21. ASSUME NEW w \in Workers, PublishReply(w) PROVE RowStep
  BY <1>21 DEF PublishReply
<1>22. ASSUME NEW w \in Workers, PublishHandoffEvent(w) PROVE RowStep
  BY <1>22 DEF PublishHandoffEvent
<1>23. ASSUME NEW w \in Workers, Forward(w) PROVE RowStep
  BY <1>23 DEF Forward
<1>24. ASSUME NEW w \in Workers, Ack(w) PROVE RowStep
  BY <1>24 DEF Ack
<1>25. ASSUME NEW w \in Workers, Release(w) PROVE RowStep
  BY <1>25 DEF Release
<1>26. ASSUME NEW w \in Workers, NEW m \in Messages, Read(w, m) PROVE RowStep
  BY <1>26 DEF Read
<1>27. ASSUME NEW m \in Messages, Publish(m) PROVE RowStep
  BY <1>27 DEF Publish
<1>28. ASSUME NEW m \in Messages, ReadLost(m) PROVE RowStep
  BY <1>28 DEF ReadLost
<1>29. ASSUME NEW m \in Messages, DrainNext(m) PROVE RowStep
  BY <1>29 DEF DrainNext
<1>30. ASSUME DrainDone PROVE RowStep
  BY <1>30 DEF DrainDone
<1>31. ASSUME DrainFails PROVE RowStep
  BY <1>31 DEF DrainFails
<1>32. ASSUME NEW c \in Customers, LockExpires(c) PROVE RowStep
  BY <1>32 DEF LockExpires
<1>33. ASSUME NEW p \in Pairs, p[2] \in DOMAIN convs[p[1]], IdleClose(p) PROVE RowStep
  <2>1. p[1] \in Customers /\ p[2] \in Nat
    BY DEF Pairs
  <2> QED
    BY <1>33, <2>1 DEF IdleClose, SetRow, States
<1>34. ASSUME NEW p \in Pairs, p[2] \in DOMAIN convs[p[1]], InvalidateSession(p) PROVE RowStep
  BY <1>34 DEF InvalidateSession
<1>35. ASSUME NEW p \in Pairs, p[2] \in DOMAIN convs[p[1]], CloseCallback(p) PROVE RowStep
  BY <1>35 DEF CloseCallback
<1>36. ASSUME NEW p \in Pairs, p[2] \in DOMAIN convs[p[1]], SurveyLapses(p) PROVE RowStep
  BY <1>36 DEF SurveyLapses
<1>37. ASSUME NEW p \in Pairs, p[2] \in DOMAIN convs[p[1]], SessionExpires(p) PROVE RowStep
  BY <1>37 DEF SessionExpires
<1>38. ASSUME NEW p \in Pairs, p[2] \in DOMAIN convs[p[1]], HandlerTransition(p) PROVE RowStep
  BY <1>38 DEF HandlerTransition, ReadsBehindSweep
<1>39. ASSUME NEW p \in Pairs, p[2] \in DOMAIN convs[p[1]], HandlerRow(p) PROVE RowStep
  <2>1. p[1] \in Customers /\ p[2] \in Nat
    BY DEF Pairs
  <2> QED
    BY <1>39, <2>1 DEF HandlerRow, SetRow, States
<1>40. ASSUME NEW p \in Pairs, p[2] \in DOMAIN convs[p[1]], HandlerSession(p) PROVE RowStep
  BY <1>40 DEF HandlerSession
<1>41. ASSUME NextMonth PROVE RowStep
  BY <1>41 DEF NextMonth
<1>42. ASSUME Crash PROVE RowStep
  BY <1>42 DEF Crash
<1>43. ASSUME UNCHANGED vars PROVE RowStep
  BY <1>43 DEF vars
<1> QED
  BY <1>1, <1>2, <1>3, <1>4, <1>5, <1>6, <1>7, <1>8, <1>9, <1>10, <1>11, <1>12, <1>13, <1>14,
     <1>15, <1>16, <1>17, <1>18, <1>19, <1>20, <1>21, <1>22, <1>23, <1>24, <1>25, <1>26, <1>27,
     <1>28, <1>29, <1>30, <1>31, <1>32, <1>33, <1>34, <1>35, <1>36, <1>37, <1>38, <1>39, <1>40,
     <1>41, <1>42, <1>43
  DEF Next, Consume, Environment, Beside, Process, Receive

RowsOK == /\ convs \in [Customers -> Seq(States)]
          /\ \A c \in Customers : Len(convs[c]) <= MaxConvs

\* Rows are never deleted.
RowsGrow == \A c \in Customers : Len(convs[c]) <= Len(convs'[c])

LEMMA RowsKept == RowsOK /\ RowStep => RowsOK' /\ RowsGrow
<1> SUFFICES ASSUME RowsOK, RowStep PROVE RowsOK' /\ RowsGrow
  OBVIOUS
<1> USE DEF RowsOK, RowsGrow
<1>1. CASE UNCHANGED convs
  BY <1>1
<1>2. ASSUME NEW c \in Customers, NEW i \in Nat, NEW s \in States, convs' = [convs EXCEPT ![c][i] = s]
      PROVE  RowsOK' /\ RowsGrow
  <2>1. convs' \in [Customers -> Seq(States)]
    BY <1>2, SetState
  <2>2. \A t \in Seq(States) : Len([t EXCEPT ![i] = s]) = Len(t)
    OBVIOUS
  <2>3. \A d \in Customers : Len(convs'[d]) = Len(convs[d])
    BY <1>2, <2>2
  <2> QED
    BY <2>1, <2>3
<1>3. ASSUME NEW c \in Customers, Len(convs[c]) < MaxConvs,
             convs' = [convs EXCEPT ![c] = Append(@, "pending")]
      PROVE  RowsOK' /\ RowsGrow
  <2>1. "pending" \in States
    BY DEF States
  <2> QED
    BY <1>3, <2>1, BoundsAssumption
<1> QED
  BY <1>1, <1>2, <1>3 DEF RowStep

\* Steps at which a worker has its customer's conversation in hand.
Carrying == Decisions \cup ToAI \cup ToHuman
              \cup {"store", "state", "survey", "ask", "dify", "forward", "event"}
InHand == \A w \in Workers : pc[w] \in Carrying => conv[w] \in DOMAIN convs[Sender(w)]

PairsOK == /\ conv \in [Workers -> Nat]
           /\ session \in [Pairs -> States \cup {"none"}]
           /\ sent \subseteq Pairs /\ handed \subseteq Pairs /\ crossed \subseteq Pairs
           /\ beside \in [SweepSteps \cup HandlerSteps -> SUBSET Pairs]
           /\ InHand

ConvInv == RowsOK /\ PairsOK

LEMMA ConvInvOK == ConvInv => ConvsOK
  BY DEF ConvInv, RowsOK, PairsOK, ConvsOK

LEMMA PairInHand ==
  ASSUME ThreadsOK, ConvInv, NEW w \in Workers, pc[w] \in Carrying
  PROVE  /\ Pair(w) \in Pairs /\ Pair(w)[1] = Sender(w) /\ Pair(w)[2] = conv[w]
         /\ Sender(w) \in Customers /\ conv[w] \in DOMAIN convs[Sender(w)]
<1>1. Sender(w) \in Customers
  BY MessagesAssumption DEF ThreadsOK, Sender, Carrying, Decisions, ToAI, ToHuman
<1>2. conv[w] \in DOMAIN convs[Sender(w)]
  BY DEF ConvInv, PairsOK, InHand
<1>3. conv[w] \in 1 .. MaxConvs
  BY <1>1, <1>2, BoundsAssumption DEF ConvInv, RowsOK
<1> QED
  BY <1>1, <1>2, <1>3 DEF Pair, Pairs

LEMMA ConvsInit == Init => ConvInv
  BY BoundsAssumption DEF Init, ConvInv, RowsOK, PairsOK, InHand, Carrying, Decisions, ToAI, ToHuman

\* A worker keeps its conversation, or has stopped working on one.
KeepsHand == \A w \in Workers : pc'[w] \in Carrying =>
                 pc[w] \in Carrying /\ cur'[w] = cur[w] /\ conv'[w] = conv[w]

LEMMA HandKept ==
  ASSUME ThreadsOK, ConvInv, RowsOK', RowsGrow, KeepsHand PROVE InHand'
<1> SUFFICES ASSUME NEW w \in Workers, pc'[w] \in Carrying PROVE conv'[w] \in DOMAIN convs'[Sender(w)']
  BY DEF InHand, Sender
<1>1. pc[w] \in Carrying /\ Sender(w)' = Sender(w) /\ conv'[w] = conv[w]
  BY DEF KeepsHand, Sender
<1>2. Sender(w) \in Customers /\ conv[w] \in DOMAIN convs[Sender(w)]
  BY <1>1, PairInHand
<1> QED
  BY <1>1, <1>2 DEF ConvInv, RowsOK, RowsGrow

LEMMA ConvsNext == ThreadsOK /\ ConvInv /\ [Next]_vars => ConvInv'
<1> SUFFICES ASSUME ThreadsOK, ConvInv, [Next]_vars PROVE PairsOK'
  BY EveryRowStep, ConvInvOK, RowsKept DEF ConvInv
<1>rows. RowsOK' /\ RowsGrow
  BY EveryRowStep, ConvInvOK, RowsKept DEF ConvInv
<1>types. PairsOK
  BY DEF ConvInv
<1>steps. KeepsHand => InHand'
  BY <1>rows, HandKept
<1>w. \A w \in Workers : pc \in [Workers -> Steps] /\ (pc[w] # "idle" => Sender(w) \in Customers)
  BY MessagesAssumption DEF ThreadsOK, Sender
<1> USE DEF PairsOK, KeepsHand, Carrying, Decisions, ToAI, ToHuman, Goto, PutDown, convRows, convVars, vars
<1>1. ASSUME NEW w \in Workers, Routed(w) PROVE PairsOK'
  BY <1>1, <1>types, <1>steps, <1>w DEF Routed
<1>2. ASSUME NEW w \in Workers, Unroutable(w) PROVE PairsOK'
  BY <1>2, <1>types, <1>steps, <1>w DEF Unroutable
<1>3. ASSUME NEW w \in Workers, Acquire(w) PROVE PairsOK'
  BY <1>3, <1>types, <1>steps, <1>w DEF Acquire
<1>4. ASSUME NEW w \in Workers, LockWaitExceeded(w) PROVE PairsOK'
  BY <1>4, <1>types, <1>steps, <1>w DEF LockWaitExceeded
<1>5. ASSUME NEW w \in Workers, LockError(w) PROVE PairsOK'
  BY <1>5, <1>types, <1>steps, <1>w DEF LockError
<1>6. ASSUME NEW w \in Workers, Requeue(w) PROVE PairsOK'
  BY <1>6, <1>types, <1>steps, <1>w DEF Requeue
<1>7. ASSUME NEW w \in Workers, RequeueFails(w) PROVE PairsOK'
  BY <1>7, <1>types, <1>steps, <1>w DEF RequeueFails
<1>8. ASSUME NEW w \in Workers, AckRequeued(w) PROVE PairsOK'
  BY <1>8, <1>types, <1>steps, <1>w DEF AckRequeued
<1>9. ASSUME NEW w \in Workers, AckDropped(w) PROVE PairsOK'
  BY <1>9, <1>types, <1>steps, <1>w DEF AckDropped
<1>10. ASSUME NEW w \in Workers, FindConversation(w) PROVE PairsOK'
  <2>1. Sender(w) \in Customers /\ convs' = convs /\ cur' = cur
    BY <1>10, <1>w DEF FindConversation
  <2>2. Current(Sender(w)) \subseteq DOMAIN convs[Sender(w)] /\ DOMAIN convs[Sender(w)] \subseteq Nat
    BY <2>1 DEF Current, ConvInv, RowsOK
  <2>3. /\ conv' = [conv EXCEPT ![w] = conv'[w]] /\ pc' = [pc EXCEPT ![w] = pc'[w]]
        /\ conv'[w] \in Nat /\ pc'[w] \in {"create", "store"}
        /\ pc'[w] = "store" => conv'[w] \in DOMAIN convs[Sender(w)]
    BY <1>10, <1>types, <1>w, <2>2 DEF FindConversation
  <2>4. InHand'
    <3> SUFFICES ASSUME NEW v \in Workers, pc'[v] \in Carrying PROVE conv'[v] \in DOMAIN convs'[Sender(v)']
      BY DEF InHand, Sender
    <3>1. Sender(v)' = Sender(v) /\ convs' = convs
      BY <2>1 DEF Sender
    <3>2. CASE v = w
      BY <2>3, <3>1, <3>2
    <3>3. CASE v # w
      <4>1. pc'[v] = pc[v] /\ conv'[v] = conv[v]
        BY <2>3, <3>3, <1>w, <1>types
      <4>2. InHand
        BY <1>types
      <4> HIDE DEF Carrying
      <4> QED
        BY <3>1, <4>1, <4>2 DEF InHand
    <3> QED
      BY <3>2, <3>3
  <2> QED
    BY <1>10, <1>types, <2>3, <2>4 DEF FindConversation
<1>11. ASSUME NEW w \in Workers, CreateConversation(w) PROVE PairsOK'
  <2>1. /\ Sender(w) \in Customers /\ convs[Sender(w)] \in Seq(States) /\ cur' = cur
        /\ Len(convs[Sender(w)]) < MaxConvs /\ pc' = [pc EXCEPT ![w] = "store"]
        /\ convs' = [convs EXCEPT ![Sender(w)] = Append(@, "pending")]
        /\ conv' = [conv EXCEPT ![w] = Len(convs[Sender(w)]) + 1]
    BY <1>11, <1>w DEF CreateConversation, ConvInv, RowsOK
  <2>2. "pending" \in States
    BY DEF States
  <2>3. /\ conv' \in [Workers -> Nat] /\ session' \in [Pairs -> States \cup {"none"}]
        /\ UNCHANGED <<sent, handed, crossed, beside>>
    <3>1. UNCHANGED <<sent, handed, crossed, beside>>
      BY <1>11 DEF CreateConversation
    <3>2. PICK q : session' = [session EXCEPT ![q] = "pending"] \/ session' = session
      BY <1>11, Zenon DEF CreateConversation
    <3>3. conv' \in [Workers -> Nat]
      BY <1>types, <2>1
    <3> QED
      BY <1>types, <2>2, <3>1, <3>2, <3>3
  <2>4. conv'[w] \in DOMAIN convs'[Sender(w)]
    BY <1>types, <2>1, <2>2 DEF ConvInv, RowsOK
  <2>5. InHand'
    <3> SUFFICES ASSUME NEW v \in Workers, pc'[v] \in Carrying PROVE conv'[v] \in DOMAIN convs'[Sender(v)']
      BY DEF InHand, Sender
    <3>1. Sender(v)' = Sender(v)
      BY <2>1 DEF Sender
    <3>2. CASE v = w
      BY <2>4, <3>1, <3>2
    <3>3. CASE v # w
      <4>1. pc[v] \in Carrying /\ conv'[v] = conv[v]
        BY <2>1, <3>3, <1>w, <1>types
      <4>2. Sender(v) \in Customers /\ conv[v] \in DOMAIN convs[Sender(v)]
        BY <4>1, PairInHand
      <4> QED
        BY <1>rows, <3>1, <4>1, <4>2 DEF ConvInv, RowsOK, RowsGrow
    <3> QED
      BY <3>2, <3>3
  <2> QED
    BY <1>types, <2>3, <2>5
<1>12. ASSUME NEW w \in Workers, StoreMessage(w) PROVE PairsOK'
  BY <1>12, <1>types, <1>steps, <1>w DEF StoreMessage
<1>13. ASSUME NEW w \in Workers, DatabaseError(w) PROVE PairsOK'
  BY <1>13, <1>types, <1>steps, <1>w DEF DatabaseError
<1>14. ASSUME NEW w \in Workers, SwitchOnState(w) PROVE PairsOK'
  BY <1>14, <1>types, <1>steps, <1>w DEF SwitchOnState
<1>15. ASSUME NEW w \in Workers, SurveyReply(w) PROVE PairsOK'
  BY <1>15, <1>types, <1>steps, <1>w DEF SurveyReply
<1>16. ASSUME NEW w \in Workers, TransitionState(w) PROVE PairsOK'
  <2>1. /\ pc' = [pc EXCEPT ![w] = pc'[w]] /\ pc[w] \in {"toAI", "toHuman"}
        /\ UNCHANGED <<cur, conv, session, sent, handed, beside>>
        /\ crossed' = crossed \cup ({Pair(w)} \cap beside["invalidate"])
    BY <1>16, <1>w DEF TransitionState, ReadsBehindSweep
  <2>2. crossed' \subseteq Pairs
    BY <1>types, <2>1 DEF SweepSteps
  <2>3. KeepsHand
    BY <1>w, <2>1
  <2> QED
    BY <1>types, <1>steps, <2>1, <2>2, <2>3
<1>17. ASSUME NEW w \in Workers, WriteRow(w) PROVE PairsOK'
  BY <1>17, <1>types, <1>steps, <1>w DEF WriteRow
<1>18. ASSUME NEW w \in Workers, WriteSession(w) PROVE PairsOK'
  BY <1>18, <1>types, <1>steps, <1>w DEF WriteSession, Goal, States
<1>19. ASSUME NEW w \in Workers, Ask(w) PROVE PairsOK'
  BY <1>19, <1>types, <1>steps, <1>w DEF Ask
<1>20. ASSUME NEW w \in Workers, DifyReturns(w) PROVE PairsOK'
  BY <1>20, <1>types, <1>steps, <1>w DEF DifyReturns
<1>21. ASSUME NEW w \in Workers, PublishReply(w) PROVE PairsOK'
  BY <1>21, <1>types, <1>steps, <1>w DEF PublishReply, SendOrLog
<1>22. ASSUME NEW w \in Workers, PublishHandoffEvent(w) PROVE PairsOK'
  <2>1. Pair(w) \in Pairs
    BY <1>22, PairInHand DEF PublishHandoffEvent
  <2> QED
    BY <1>22, <1>types, <1>steps, <1>w, <2>1 DEF PublishHandoffEvent
<1>23. ASSUME NEW w \in Workers, Forward(w) PROVE PairsOK'
  BY <1>23, <1>types, <1>steps, <1>w DEF Forward
<1>24. ASSUME NEW w \in Workers, Ack(w) PROVE PairsOK'
  BY <1>24, <1>types, <1>steps, <1>w DEF Ack
<1>25. ASSUME NEW w \in Workers, Release(w) PROVE PairsOK'
  BY <1>25, <1>types, <1>steps, <1>w DEF Release
<1>26. ASSUME NEW w \in Workers, NEW m \in Messages, Read(w, m) PROVE PairsOK'
  BY <1>26, <1>types, <1>steps, <1>w DEF Read
<1>27. ASSUME NEW m \in Messages, Publish(m) PROVE PairsOK'
  BY <1>27, <1>types, <1>steps, <1>w DEF Publish
<1>28. ASSUME NEW m \in Messages, ReadLost(m) PROVE PairsOK'
  BY <1>28, <1>types, <1>steps, <1>w DEF ReadLost
<1>29. ASSUME NEW m \in Messages, DrainNext(m) PROVE PairsOK'
  BY <1>29, <1>types, <1>steps, <1>w DEF DrainNext
<1>30. ASSUME DrainDone PROVE PairsOK'
  BY <1>30, <1>types, <1>steps, <1>w DEF DrainDone
<1>31. ASSUME DrainFails PROVE PairsOK'
  BY <1>31, <1>types, <1>steps, <1>w DEF DrainFails
<1>32. ASSUME NEW c \in Customers, LockExpires(c) PROVE PairsOK'
  BY <1>32, <1>types, <1>steps, <1>w DEF LockExpires
<1>33. ASSUME NEW p \in Pairs, p[2] \in DOMAIN convs[p[1]], IdleClose(p) PROVE PairsOK'
  BY <1>33, <1>types, <1>steps, <1>w DEF IdleClose, SweepSteps, HandlerSteps
<1>34. ASSUME NEW p \in Pairs, p[2] \in DOMAIN convs[p[1]], InvalidateSession(p) PROVE PairsOK'
  BY <1>34, <1>types, <1>steps, <1>w DEF InvalidateSession, SweepSteps, HandlerSteps
<1>35. ASSUME NEW p \in Pairs, p[2] \in DOMAIN convs[p[1]], CloseCallback(p) PROVE PairsOK'
  BY <1>35, <1>types, <1>steps, <1>w DEF CloseCallback, SweepSteps, HandlerSteps
<1>36. ASSUME NEW p \in Pairs, p[2] \in DOMAIN convs[p[1]], SurveyLapses(p) PROVE PairsOK'
  BY <1>36, <1>types, <1>steps, <1>w DEF SurveyLapses
<1>37. ASSUME NEW p \in Pairs, p[2] \in DOMAIN convs[p[1]], SessionExpires(p) PROVE PairsOK'
  BY <1>37, <1>types, <1>steps, <1>w DEF SessionExpires
<1>38. ASSUME NEW p \in Pairs, p[2] \in DOMAIN convs[p[1]], HandlerTransition(p) PROVE PairsOK'
  BY <1>38, <1>types, <1>steps, <1>w DEF HandlerTransition, HandlerFinishes, ReadsBehindSweep, SweepSteps, HandlerSteps
<1>39. ASSUME NEW p \in Pairs, p[2] \in DOMAIN convs[p[1]], HandlerRow(p) PROVE PairsOK'
  BY <1>39, <1>types, <1>steps, <1>w DEF HandlerRow, HandlerFinishes, SweepSteps, HandlerSteps
<1>40. ASSUME NEW p \in Pairs, p[2] \in DOMAIN convs[p[1]], HandlerSession(p) PROVE PairsOK'
  BY <1>40, <1>types, <1>steps, <1>w DEF HandlerSession, HandlerFinishes, SweepSteps, HandlerSteps, States
<1>41. ASSUME NextMonth PROVE PairsOK'
  BY <1>41, <1>types, <1>steps, <1>w DEF NextMonth
<1>42. ASSUME Crash PROVE PairsOK'
  BY <1>42, <1>types, <1>steps, <1>w DEF Crash
<1>43. ASSUME UNCHANGED vars PROVE PairsOK'
  BY <1>43, <1>types, <1>steps, <1>w DEF vars
<1> QED
  BY <1>1, <1>2, <1>3, <1>4, <1>5, <1>6, <1>7, <1>8, <1>9, <1>10, <1>11, <1>12, <1>13, <1>14,
     <1>15, <1>16, <1>17, <1>18, <1>19, <1>20, <1>21, <1>22, <1>23, <1>24, <1>25, <1>26, <1>27,
     <1>28, <1>29, <1>30, <1>31, <1>32, <1>33, <1>34, <1>35, <1>36, <1>37, <1>38, <1>39, <1>40,
     <1>41, <1>42, <1>43
  DEF Next, Consume, Environment, Beside, Process, Receive

LEMMA BoundsInit == Init => BoundsOK
  BY BoundsAssumption DEF Init, BoundsOK

\* Whatever fails is counted, within the bound.
FailuresOK == /\ UNCHANGED faults \/ Fault
              /\ UNCHANGED crashes \/ (crashes < MaxCrashes /\ crashes' = crashes + 1)
              /\ slow' = slow

LEMMA FailuresCounted == [Next]_vars => FailuresOK
<1> SUFFICES ASSUME [Next]_vars PROVE FailuresOK
  OBVIOUS
<1> USE DEF FailuresOK, Fault, NoFault, SendOrLog, lockVars
<1>1. ASSUME NEW w \in Workers, Routed(w) PROVE FailuresOK
  BY <1>1 DEF Routed
<1>2. ASSUME NEW w \in Workers, Unroutable(w) PROVE FailuresOK
  BY <1>2 DEF Unroutable
<1>3. ASSUME NEW w \in Workers, Acquire(w) PROVE FailuresOK
  BY <1>3 DEF Acquire
<1>4. ASSUME NEW w \in Workers, LockWaitExceeded(w) PROVE FailuresOK
  BY <1>4 DEF LockWaitExceeded
<1>5. ASSUME NEW w \in Workers, LockError(w) PROVE FailuresOK
  BY <1>5 DEF LockError
<1>6. ASSUME NEW w \in Workers, Requeue(w) PROVE FailuresOK
  BY <1>6 DEF Requeue
<1>7. ASSUME NEW w \in Workers, RequeueFails(w) PROVE FailuresOK
  BY <1>7 DEF RequeueFails
<1>8. ASSUME NEW w \in Workers, AckRequeued(w) PROVE FailuresOK
  BY <1>8 DEF AckRequeued
<1>9. ASSUME NEW w \in Workers, AckDropped(w) PROVE FailuresOK
  BY <1>9 DEF AckDropped
<1>10. ASSUME NEW w \in Workers, FindConversation(w) PROVE FailuresOK
  BY <1>10 DEF FindConversation
<1>11. ASSUME NEW w \in Workers, CreateConversation(w) PROVE FailuresOK
  BY <1>11 DEF CreateConversation
<1>12. ASSUME NEW w \in Workers, StoreMessage(w) PROVE FailuresOK
  BY <1>12 DEF StoreMessage
<1>13. ASSUME NEW w \in Workers, DatabaseError(w) PROVE FailuresOK
  BY <1>13 DEF DatabaseError
<1>14. ASSUME NEW w \in Workers, SwitchOnState(w) PROVE FailuresOK
  BY <1>14 DEF SwitchOnState
<1>15. ASSUME NEW w \in Workers, SurveyReply(w) PROVE FailuresOK
  BY <1>15 DEF SurveyReply
<1>16. ASSUME NEW w \in Workers, TransitionState(w) PROVE FailuresOK
  BY <1>16 DEF TransitionState, MayMove, Refused
<1>17. ASSUME NEW w \in Workers, WriteRow(w) PROVE FailuresOK
  BY <1>17 DEF WriteRow
<1>18. ASSUME NEW w \in Workers, WriteSession(w) PROVE FailuresOK
  BY <1>18 DEF WriteSession
<1>19. ASSUME NEW w \in Workers, Ask(w) PROVE FailuresOK
  BY <1>19 DEF Ask
<1>20. ASSUME NEW w \in Workers, DifyReturns(w) PROVE FailuresOK
  BY <1>20 DEF DifyReturns
<1>21. ASSUME NEW w \in Workers, PublishReply(w) PROVE FailuresOK
  BY <1>21 DEF PublishReply
<1>22. ASSUME NEW w \in Workers, PublishHandoffEvent(w) PROVE FailuresOK
  BY <1>22 DEF PublishHandoffEvent
<1>23. ASSUME NEW w \in Workers, Forward(w) PROVE FailuresOK
  BY <1>23 DEF Forward
<1>24. ASSUME NEW w \in Workers, Ack(w) PROVE FailuresOK
  BY <1>24 DEF Ack
<1>25. ASSUME NEW w \in Workers, Release(w) PROVE FailuresOK
  BY <1>25 DEF Release
<1>26. ASSUME NEW w \in Workers, NEW m \in Messages, Read(w, m) PROVE FailuresOK
  BY <1>26 DEF Read
<1>27. ASSUME NEW m \in Messages, Publish(m) PROVE FailuresOK
  BY <1>27 DEF Publish
<1>28. ASSUME NEW m \in Messages, ReadLost(m) PROVE FailuresOK
  BY <1>28 DEF ReadLost
<1>29. ASSUME NEW m \in Messages, DrainNext(m) PROVE FailuresOK
  BY <1>29 DEF DrainNext
<1>30. CASE DrainDone
  BY <1>30 DEF DrainDone
<1>31. CASE DrainFails
  BY <1>31 DEF DrainFails
<1>32. ASSUME NEW c \in Customers, LockExpires(c) PROVE FailuresOK
  BY <1>32 DEF LockExpires
<1>33. ASSUME NEW p \in Pairs, IdleClose(p) PROVE FailuresOK
  BY <1>33 DEF IdleClose
<1>34. ASSUME NEW p \in Pairs, InvalidateSession(p) PROVE FailuresOK
  BY <1>34 DEF InvalidateSession
<1>35. ASSUME NEW p \in Pairs, CloseCallback(p) PROVE FailuresOK
  BY <1>35 DEF CloseCallback
<1>36. ASSUME NEW p \in Pairs, SurveyLapses(p) PROVE FailuresOK
  BY <1>36 DEF SurveyLapses
<1>37. ASSUME NEW p \in Pairs, SessionExpires(p) PROVE FailuresOK
  BY <1>37 DEF SessionExpires
<1>38. ASSUME NEW p \in Pairs, HandlerTransition(p) PROVE FailuresOK
  BY <1>38 DEF HandlerTransition, MayMove, Refused
<1>39. ASSUME NEW p \in Pairs, HandlerRow(p) PROVE FailuresOK
  BY <1>39 DEF HandlerRow
<1>40. ASSUME NEW p \in Pairs, HandlerSession(p) PROVE FailuresOK
  BY <1>40 DEF HandlerSession
<1>41. CASE NextMonth
  BY <1>41 DEF NextMonth
<1>42. CASE Crash
  BY <1>42 DEF Crash
<1>43. CASE UNCHANGED vars
  BY <1>43 DEF vars
<1> QED
  BY <1>1, <1>2, <1>3, <1>4, <1>5, <1>6, <1>7, <1>8, <1>9, <1>10, <1>11, <1>12, <1>13, <1>14,
     <1>15, <1>16, <1>17, <1>18, <1>19, <1>20, <1>21, <1>22, <1>23, <1>24, <1>25, <1>26, <1>27,
     <1>28, <1>29, <1>30, <1>31, <1>32, <1>33, <1>34, <1>35, <1>36, <1>37, <1>38, <1>39, <1>40,
     <1>41, <1>42, <1>43
  DEF Next, Consume, Environment, Beside, Process, Receive

LEMMA BoundsNext == BoundsOK /\ [Next]_vars => BoundsOK'
  BY FailuresCounted, BoundsAssumption DEF FailuresOK, Fault, BoundsOK

LEMMA BoundsType == Spec => []BoundsOK
  BY BoundsInit, BoundsNext, PTL DEF Spec

LEMMA ConvInvariant == Spec => []ConvInv
  BY ThreadsType, ConvsInit, ConvsNext, PTL DEF Spec

-----------------------------------------------------------------------------
(* Counting workers.                                                       *)
LEMMA WorkersCount ==
  ASSUME NEW S \in SUBSET Workers
  PROVE  IsFiniteSet(S) /\ Cardinality(S) \in Nat
  BY WorkersAssumption, FS_Subset, FS_CardinalityType

LEMMA FewerWorkers ==
  ASSUME NEW S \in SUBSET Workers, NEW T \in SUBSET S
  PROVE  Cardinality(T) <= Cardinality(S)
  BY WorkersCount, FS_Subset

LEMMA OneWorkerLess ==
  ASSUME NEW S \in SUBSET Workers, NEW w \in S, NEW T \in SUBSET (S \ {w})
  PROVE  Cardinality(T) + 1 <= Cardinality(S)
<1>1. Cardinality(S \ {w}) = Cardinality(S) - 1
  BY WorkersCount, FS_RemoveElement
<1>2. Cardinality(T) <= Cardinality(S \ {w})
  BY FewerWorkers
<1>3. Cardinality(T) \in Nat /\ Cardinality(S) \in Nat
  BY WorkersCount
<1> QED
  BY <1>1, <1>2, <1>3

LEMMA OneWorkerMore ==
  ASSUME NEW S \in SUBSET Workers, NEW w \in Workers, NEW T \in SUBSET (S \cup {w})
  PROVE  Cardinality(T) <= Cardinality(S) + 1
<1>1. Cardinality(S \cup {w}) <= Cardinality(S) + 1
  BY WorkersCount, FS_AddElement
<1>2. Cardinality(T) <= Cardinality(S \cup {w})
  BY FewerWorkers
<1>3. Cardinality(T) \in Nat /\ Cardinality(S) \in Nat /\ Cardinality(S \cup {w}) \in Nat
  BY WorkersCount
<1> QED
  BY <1>1, <1>2, <1>3

-----------------------------------------------------------------------------
(* At most one reaction per stored row, at most one row per monthly        *)
(* partition: AnsweredOncePerMonth and the refinement of ReplyLedger.      *)
(* Each worker that stored a message and has not reacted to it yet holds   *)
(* one of the rows.  What has been published and what may still be         *)
(* published together never exceed the rows.                               *)
\* Steps after the message was stored and before its one possible reaction.
Unanswered == Decisions \cup ToAI \cup {"state", "survey", "ask", "dify", "forward"}

Reacting(m) == {w \in Workers : cur[w] = m /\ pc[w] \in Unanswered}
Notifying(m) == {w \in Workers : cur[w] = m /\ pc[w] \in Unanswered \cup {"event"}}

RowsCover == \A m \in Messages : /\ replies[m] + Cardinality(Reacting(m)) <= rows[m]
                                 /\ events[m] + Cardinality(Notifying(m)) <= rows[m]
OneRowPerMonth ==
  \A m \in Messages \ Anonymous : rows[m] <= month /\ (m \notin inMonth => rows[m] < month)

AnswerInv == TablesOK /\ RowsCover /\ OneRowPerMonth

-----------------------------------------------------------------------------
(* What a step may do to the ledger.                                       *)
NoNewHolder == \A m \in Messages : /\ Reacting(m)' \subseteq Reacting(m)
                                   /\ Notifying(m)' \subseteq Notifying(m)
NewHolder(m, w) ==
  \A n \in Messages :
    /\ Reacting(n)' \subseteq Reacting(n) \cup (IF n = m THEN {w} ELSE {})
    /\ Notifying(n)' \subseteq Notifying(n) \cup (IF n = m THEN {w} ELSE {})

QuietStep == NoNewHolder /\ UNCHANGED <<rows, inMonth, month, replies, events>>
StoreStep(m, w) ==
  /\ NewHolder(m, w) /\ UNCHANGED <<month, replies, events>>
  /\ m \in Anonymous \/ m \notin inMonth
  /\ rows' = Inc(rows, m) /\ inMonth' = inMonth \cup {m}
ReplyStep(m, w) ==
  /\ NoNewHolder /\ UNCHANGED <<rows, inMonth, month, events>>
  /\ w \in Reacting(m) /\ w \notin Reacting(m)'
  /\ replies' = Inc(replies, m)
EventStep(m, w) ==
  /\ NoNewHolder /\ UNCHANGED <<rows, inMonth, month, replies>>
  /\ w \in Notifying(m) /\ w \notin Notifying(m)'
  /\ events' = Inc(events, m)
MonthStep ==
  /\ NoNewHolder /\ UNCHANGED <<rows, replies, events>>
  /\ month' = month + 1 /\ inMonth' = {}

LedgerStep == \/ QuietStep \/ MonthStep
              \/ \E m \in Messages, w \in Workers :
                   StoreStep(m, w) \/ ReplyStep(m, w) \/ EventStep(m, w)

LEMMA EveryStep == ThreadsOK /\ [Next]_vars => LedgerStep
<1> SUFFICES ASSUME ThreadsOK, [Next]_vars PROVE LedgerStep
  OBVIOUS
<1> USE DEF ThreadsOK, Steps, LockedSteps, LateSteps, ToAI, ToHuman, Decisions, Unanswered, Reacting, Notifying,
        NoNewHolder, Goto, PutDown, queueVars, tableVars, convRows, convVars, lockVars, outVars
<1>1. ASSUME NEW w \in Workers, Routed(w) PROVE LedgerStep
  BY <1>1 DEF Routed, LedgerStep, QuietStep
<1>2. ASSUME NEW w \in Workers, Unroutable(w) PROVE LedgerStep
  BY <1>2 DEF Unroutable, LedgerStep, QuietStep
<1>3. ASSUME NEW w \in Workers, Acquire(w) PROVE LedgerStep
  BY <1>3 DEF Acquire, LedgerStep, QuietStep
<1>4. ASSUME NEW w \in Workers, LockWaitExceeded(w) PROVE LedgerStep
  BY <1>4 DEF LockWaitExceeded, LedgerStep, QuietStep
<1>5. ASSUME NEW w \in Workers, LockError(w) PROVE LedgerStep
  BY <1>5 DEF LockError, LedgerStep, QuietStep
<1>6. ASSUME NEW w \in Workers, Requeue(w) PROVE LedgerStep
  BY <1>6 DEF Requeue, LedgerStep, QuietStep
<1>7. ASSUME NEW w \in Workers, RequeueFails(w) PROVE LedgerStep
  BY <1>7 DEF RequeueFails, LedgerStep, QuietStep
<1>8. ASSUME NEW w \in Workers, AckRequeued(w) PROVE LedgerStep
  BY <1>8 DEF AckRequeued, LedgerStep, QuietStep
<1>9. ASSUME NEW w \in Workers, AckDropped(w) PROVE LedgerStep
  BY <1>9 DEF AckDropped, LedgerStep, QuietStep
<1>10. ASSUME NEW w \in Workers, FindConversation(w) PROVE LedgerStep
  BY <1>10 DEF FindConversation, LedgerStep, QuietStep
<1>11. ASSUME NEW w \in Workers, CreateConversation(w) PROVE LedgerStep
  BY <1>11 DEF CreateConversation, LedgerStep, QuietStep
<1>12. ASSUME NEW w \in Workers, StoreMessage(w) PROVE LedgerStep
  <2>1. PICK m \in Messages : m = cur[w]
    BY <1>12 DEF StoreMessage
  <2>2. CASE IsRedelivery(cur[w])
    BY <1>12, <2>2 DEF StoreMessage, LedgerStep, QuietStep
  <2>3. CASE ~IsRedelivery(cur[w]) /\ Stored(cur[w])
    <3>1. StoreStep(m, w)
      BY <1>12, <2>1, <2>3 DEF StoreMessage, StoreStep, NewHolder, Stored, IsRedelivery
    <3> QED
      BY <3>1 DEF LedgerStep
  <2> QED
    BY <1>12, <2>2, <2>3 DEF StoreMessage
<1>13. ASSUME NEW w \in Workers, DatabaseError(w) PROVE LedgerStep
  <2>1. PICK m \in Messages : m = cur[w]
    BY <1>13 DEF DatabaseError
  <2>2. CASE UNCHANGED tableVars
    BY <1>13, <2>2 DEF DatabaseError, LedgerStep, QuietStep
  <2>3. CASE ~IsRedelivery(cur[w]) /\ Stored(cur[w])
    <3>1. StoreStep(m, w)
      BY <1>13, <2>1, <2>3 DEF DatabaseError, StoreStep, NewHolder, Stored, IsRedelivery
    <3> QED
      BY <3>1 DEF LedgerStep
  <2> QED
    BY <1>13, <2>2, <2>3 DEF DatabaseError
<1>14. ASSUME NEW w \in Workers, SwitchOnState(w) PROVE LedgerStep
  BY <1>14 DEF SwitchOnState, LedgerStep, QuietStep
<1>15. ASSUME NEW w \in Workers, SurveyReply(w) PROVE LedgerStep
  <2>1. PICK m \in Messages : m = cur[w]
    BY <1>15 DEF SurveyReply
  <2>2. CASE UNCHANGED replies
    BY <1>15, <2>2 DEF SurveyReply, LedgerStep, QuietStep
  <2>3. CASE replies' = Inc(replies, cur[w]) /\ Goto(w, "ack")
    <3>1. ReplyStep(m, w)
      BY <1>15, <2>1, <2>3 DEF SurveyReply, ReplyStep
    <3> QED
      BY <3>1 DEF LedgerStep
  <2> QED
    BY <1>15, <2>2, <2>3 DEF SurveyReply, SendOrLog
<1>16. ASSUME NEW w \in Workers, TransitionState(w) PROVE LedgerStep
  BY <1>16 DEF TransitionState, LedgerStep, QuietStep
<1>17. ASSUME NEW w \in Workers, WriteRow(w) PROVE LedgerStep
  BY <1>17 DEF WriteRow, LedgerStep, QuietStep
<1>18. ASSUME NEW w \in Workers, WriteSession(w) PROVE LedgerStep
  BY <1>18 DEF WriteSession, LedgerStep, QuietStep
<1>19. ASSUME NEW w \in Workers, Ask(w) PROVE LedgerStep
  BY <1>19 DEF Ask, LedgerStep, QuietStep
<1>20. ASSUME NEW w \in Workers, DifyReturns(w) PROVE LedgerStep
  BY <1>20 DEF DifyReturns, LedgerStep, QuietStep
<1>21. ASSUME NEW w \in Workers, PublishReply(w) PROVE LedgerStep
  <2>1. PICK m \in Messages : m = cur[w]
    BY <1>21 DEF PublishReply
  <2>2. CASE UNCHANGED replies
    BY <1>21, <2>2 DEF PublishReply, LedgerStep, QuietStep
  <2>3. CASE replies' = Inc(replies, cur[w])
    <3>1. ReplyStep(m, w)
      BY <1>21, <2>1, <2>3 DEF PublishReply, ReplyStep
    <3> QED
      BY <3>1 DEF LedgerStep
  <2> QED
    BY <1>21, <2>2, <2>3 DEF PublishReply, SendOrLog
<1>22. ASSUME NEW w \in Workers, PublishHandoffEvent(w) PROVE LedgerStep
  <2>1. PICK m \in Messages : m = cur[w]
    BY <1>22 DEF PublishHandoffEvent
  <2>2. CASE UNCHANGED events
    BY <1>22, <2>2 DEF PublishHandoffEvent, LedgerStep, QuietStep
  <2>3. CASE events' = Inc(events, cur[w])
    <3>1. EventStep(m, w)
      BY <1>22, <2>1, <2>3 DEF PublishHandoffEvent, EventStep
    <3> QED
      BY <3>1 DEF LedgerStep
  <2> QED
    BY <1>22, <2>2, <2>3 DEF PublishHandoffEvent
<1>23. ASSUME NEW w \in Workers, Forward(w) PROVE LedgerStep
  <2>1. PICK m \in Messages : m = cur[w]
    BY <1>23 DEF Forward
  <2>2. CASE UNCHANGED replies
    BY <1>23, <2>2 DEF Forward, LedgerStep, QuietStep
  <2>3. CASE replies' = Inc(replies, cur[w])
    <3>1. ReplyStep(m, w)
      BY <1>23, <2>1, <2>3 DEF Forward, ReplyStep
    <3> QED
      BY <3>1 DEF LedgerStep
  <2> QED
    BY <1>23, <2>2, <2>3 DEF Forward, SendOrLog
<1>24. ASSUME NEW w \in Workers, Ack(w) PROVE LedgerStep
  BY <1>24 DEF Ack, LedgerStep, QuietStep
<1>25. ASSUME NEW w \in Workers, Release(w) PROVE LedgerStep
  BY <1>25 DEF Release, LedgerStep, QuietStep
<1>26. ASSUME NEW w \in Workers, NEW m \in Messages, Read(w, m) PROVE LedgerStep
  BY <1>26 DEF Read, LedgerStep, QuietStep
<1>27. ASSUME NEW m \in Messages, Publish(m) PROVE LedgerStep
  BY <1>27 DEF Publish, LedgerStep, QuietStep
<1>28. ASSUME NEW m \in Messages, ReadLost(m) PROVE LedgerStep
  BY <1>28 DEF ReadLost, LedgerStep, QuietStep
<1>29. ASSUME NEW m \in Messages, DrainNext(m) PROVE LedgerStep
  BY <1>29 DEF DrainNext, LedgerStep, QuietStep
<1>30. CASE DrainDone
  BY <1>30 DEF DrainDone, LedgerStep, QuietStep
<1>31. CASE DrainFails
  BY <1>31 DEF DrainFails, LedgerStep, QuietStep
<1>32. ASSUME NEW c \in Customers, LockExpires(c) PROVE LedgerStep
  BY <1>32 DEF LockExpires, LedgerStep, QuietStep
<1>33. ASSUME NEW p \in Pairs, IdleClose(p) PROVE LedgerStep
  BY <1>33 DEF IdleClose, LedgerStep, QuietStep
<1>34. ASSUME NEW p \in Pairs, InvalidateSession(p) PROVE LedgerStep
  BY <1>34 DEF InvalidateSession, LedgerStep, QuietStep
<1>35. ASSUME NEW p \in Pairs, CloseCallback(p) PROVE LedgerStep
  BY <1>35 DEF CloseCallback, LedgerStep, QuietStep
<1>36. ASSUME NEW p \in Pairs, SurveyLapses(p) PROVE LedgerStep
  BY <1>36 DEF SurveyLapses, LedgerStep, QuietStep
<1>37. ASSUME NEW p \in Pairs, SessionExpires(p) PROVE LedgerStep
  BY <1>37 DEF SessionExpires, LedgerStep, QuietStep
<1>38. ASSUME NEW p \in Pairs, HandlerTransition(p) PROVE LedgerStep
  BY <1>38 DEF HandlerTransition, LedgerStep, QuietStep
<1>39. ASSUME NEW p \in Pairs, HandlerRow(p) PROVE LedgerStep
  BY <1>39 DEF HandlerRow, LedgerStep, QuietStep
<1>40. ASSUME NEW p \in Pairs, HandlerSession(p) PROVE LedgerStep
  BY <1>40 DEF HandlerSession, LedgerStep, QuietStep
<1>41. CASE NextMonth
  BY <1>41 DEF NextMonth, MonthStep, LedgerStep
<1>42. CASE Crash
  BY <1>42 DEF Crash, LedgerStep, QuietStep
<1>43. CASE UNCHANGED vars
  BY <1>43 DEF vars, LedgerStep, QuietStep
<1> QED
  BY <1>1, <1>2, <1>3, <1>4, <1>5, <1>6, <1>7, <1>8, <1>9, <1>10, <1>11, <1>12, <1>13, <1>14,
     <1>15, <1>16, <1>17, <1>18, <1>19, <1>20, <1>21, <1>22, <1>23, <1>24, <1>25, <1>26, <1>27,
     <1>28, <1>29, <1>30, <1>31, <1>32, <1>33, <1>34, <1>35, <1>36, <1>37, <1>38, <1>39, <1>40,
     <1>41, <1>42, <1>43
  DEF Next, Consume, Environment, Beside, Process, Receive

-----------------------------------------------------------------------------
(* The invariant.                                                          *)
LEMMA AnswerInit == Init => AnswerInv
<1> SUFFICES ASSUME Init PROVE AnswerInv
  OBVIOUS
<1>1. \A m \in Messages : Reacting(m) = {} /\ Notifying(m) = {}
  BY DEF Init, Reacting, Notifying, Unanswered, ToAI, Decisions
<1>2. \A m \in Messages : Cardinality(Reacting(m)) = 0 /\ Cardinality(Notifying(m)) = 0
  BY <1>1, FS_EmptySet, Zenon
<1>3. TablesOK
  BY DEF Init, TablesOK, BagsOfMessages, Empty
<1>4. RowsCover
  BY <1>2 DEF Init, RowsCover, Empty
<1>5. OneRowPerMonth
  BY DEF Init, OneRowPerMonth, Empty
<1> QED
  BY <1>3, <1>4, <1>5 DEF AnswerInv

LEMMA AnswerNext == AnswerInv /\ LedgerStep => AnswerInv'
<1> SUFFICES ASSUME AnswerInv, LedgerStep PROVE AnswerInv'
  OBVIOUS
<1> DEFINE R(m) == Cardinality(Reacting(m))
           N(m) == Cardinality(Notifying(m))
<1>sets. \A m : /\ Reacting(m) \in SUBSET Workers /\ Notifying(m) \in SUBSET Workers
                /\ Reacting(m)' \in SUBSET Workers /\ Notifying(m)' \in SUBSET Workers
  BY DEF Reacting, Notifying
<1>nat. \A m : R(m) \in Nat /\ N(m) \in Nat /\ R(m)' \in Nat /\ N(m)' \in Nat
  BY <1>sets, WorkersCount
<1>few. ASSUME NoNewHolder PROVE \A m \in Messages : R(m)' <= R(m) /\ N(m)' <= N(m)
  BY <1>few, <1>sets, FewerWorkers DEF NoNewHolder
<1> USE DEF AnswerInv, TablesOK, BagsOfMessages, RowsCover, OneRowPerMonth, Inc
<1>1. CASE QuietStep
  <2>1. \A m \in Messages : R(m)' <= R(m) /\ N(m)' <= N(m)
    BY <1>1, <1>few DEF QuietStep
  <2> QED
    BY <1>1, <1>nat, <2>1 DEF QuietStep
<1>2. CASE MonthStep
  <2>1. \A m \in Messages : R(m)' <= R(m) /\ N(m)' <= N(m)
    BY <1>2, <1>few DEF MonthStep
  <2> QED
    BY <1>2, <1>nat, <2>1 DEF MonthStep
<1>3. ASSUME NEW m \in Messages, NEW w \in Workers, StoreStep(m, w) PROVE AnswerInv'
  <2>1. \A n \in Messages : R(n)' <= R(n) + (IF n = m THEN 1 ELSE 0)
    BY <1>3, <1>sets, OneWorkerMore, FewerWorkers, <1>nat DEF StoreStep, NewHolder
  <2>2. \A n \in Messages : N(n)' <= N(n) + (IF n = m THEN 1 ELSE 0)
    BY <1>3, <1>sets, OneWorkerMore, FewerWorkers, <1>nat DEF StoreStep, NewHolder
  <2>3. TablesOK'
    BY <1>3 DEF StoreStep
  <2>4. RowsCover'
    BY <1>3, <1>nat, <2>1, <2>2 DEF StoreStep
  <2>5. OneRowPerMonth'
    BY <1>3 DEF StoreStep
  <2> QED
    BY <2>3, <2>4, <2>5
<1>4. ASSUME NEW m \in Messages, NEW w \in Workers, ReplyStep(m, w) PROVE AnswerInv'
  <2>1. R(m)' + 1 <= R(m)
    <3>1. Reacting(m)' \in SUBSET (Reacting(m) \ {w})
      BY <1>4 DEF ReplyStep, NoNewHolder
    <3> QED
      BY <1>4, <1>sets, <3>1, OneWorkerLess DEF ReplyStep
  <2>2. \A n \in Messages : R(n)' <= R(n) /\ N(n)' <= N(n)
    BY <1>4, <1>few DEF ReplyStep
  <2> QED
    BY <1>4, <1>nat, <2>1, <2>2 DEF ReplyStep
<1>5. ASSUME NEW m \in Messages, NEW w \in Workers, EventStep(m, w) PROVE AnswerInv'
  <2>1. N(m)' + 1 <= N(m)
    <3>1. Notifying(m)' \in SUBSET (Notifying(m) \ {w})
      BY <1>5 DEF EventStep, NoNewHolder
    <3> QED
      BY <1>5, <1>sets, <3>1, OneWorkerLess DEF EventStep
  <2>2. \A n \in Messages : R(n)' <= R(n) /\ N(n)' <= N(n)
    BY <1>5, <1>few DEF EventStep
  <2> QED
    BY <1>5, <1>nat, <2>1, <2>2 DEF EventStep
<1> QED
  BY <1>1, <1>2, <1>3, <1>4, <1>5 DEF LedgerStep

LEMMA AnswerInvariant == Spec => []AnswerInv
  BY ThreadsType, EveryStep, AnswerInit, AnswerNext, PTL DEF Spec

(* However often a message with a platform id is delivered and processed,  *)
(* it is answered and handed over at most once per partition begun.        *)
THEOREM AnsweredOnce == Spec => []AnsweredOncePerMonth
<1>1. AnswerInv => AnsweredOncePerMonth
  <2> SUFFICES ASSUME AnswerInv, NEW m \in Messages \ Anonymous
               PROVE  replies[m] <= month /\ events[m] <= month
    BY DEF AnsweredOncePerMonth
  <2>1. Cardinality(Reacting(m)) \in Nat /\ Cardinality(Notifying(m)) \in Nat
    BY WorkersCount DEF Reacting, Notifying
  <2> QED
    BY <2>1 DEF AnswerInv, TablesOK, BagsOfMessages, RowsCover, OneRowPerMonth
<1> QED
  BY <1>1, AnswerInvariant, PTL

(* The router implements the abstract ledger.                              *)
THEOREM ImplementsLedger == Spec => LedgerSpec
<1>1. Init => Ledger!Init
  BY DEF Init, Ledger!Init, Empty
<1>2. AnswerInv /\ LedgerStep => [Ledger!Next]_Ledger!vars
  <2> SUFFICES ASSUME AnswerInv, LedgerStep PROVE [Ledger!Next]_Ledger!vars
    OBVIOUS
  <2>1. CASE QuietStep
    BY <2>1 DEF QuietStep, Ledger!vars
  <2>2. CASE MonthStep
    BY <2>2 DEF MonthStep, Ledger!Next, Ledger!NextMonth
  <2>3. ASSUME NEW m \in Messages, NEW w \in Workers, StoreStep(m, w) PROVE Ledger!Store(m)
    BY <2>3 DEF StoreStep, Ledger!Store, Inc
  <2>4. ASSUME NEW m \in Messages, NEW w \in Workers, ReplyStep(m, w) PROVE Ledger!Reply(m)
    <3>1. Cardinality(Reacting(m)) >= 1
      <4>1. Reacting(m) \in SUBSET Workers /\ w \in Reacting(m)
        BY <2>4 DEF ReplyStep, Reacting
      <4>2. Cardinality(Reacting(m) \ {w}) + 1 <= Cardinality(Reacting(m))
        BY <4>1, OneWorkerLess
      <4>3. Cardinality(Reacting(m) \ {w}) \in Nat /\ Cardinality(Reacting(m)) \in Nat
        BY <4>1, WorkersCount
      <4> QED
        BY <4>2, <4>3
    <3>2. replies[m] < rows[m]
      <4>1. Cardinality(Reacting(m)) \in Nat
        BY WorkersCount DEF Reacting
      <4> QED
        BY <3>1, <4>1 DEF AnswerInv, TablesOK, BagsOfMessages, RowsCover
    <3> QED
      BY <2>4, <3>2 DEF ReplyStep, Ledger!Reply, Inc
  <2>5. ASSUME NEW m \in Messages, NEW w \in Workers, EventStep(m, w) PROVE UNCHANGED Ledger!vars
    BY <2>5 DEF EventStep, Ledger!vars
  <2> QED
    BY <2>1, <2>2, <2>3, <2>4, <2>5 DEF LedgerStep, Ledger!Next
<1> QED
  BY <1>1, <1>2, ThreadsType, EveryStep, AnswerInvariant, PTL DEF Spec, LedgerSpec, Ledger!Spec
=============================================================================
