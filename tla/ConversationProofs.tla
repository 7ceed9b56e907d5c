------------------------- MODULE ConversationProofs -------------------------
(***************************************************************************)
(* A customer's conversations for any number of conversations, messages,   *)
(* failures and handoffs: types, the number of ratings, the table of       *)
(* transitions, the cached session, what may be open side by side, and     *)
(* that a closed conversation was asked for a rating.                      *)
(***************************************************************************)
EXTENDS Conversation, FiniteSetTheorems, WellFoundedInduction, TLAPS

-----------------------------------------------------------------------------
(* Types, and what each goroutine can be doing.                            *)
WorkerSteps == {"idle", "store", "dispatch", "transition", "update", "cache",
                "answer", "reply", "rate", "forget"}
SweepSteps == {"idle", "invalidate", "onclose", "publish", "remember", "status"}
HandlerSteps == {"idle", "transition", "update", "cache", "chatwoot", "mark"}
Steps == WorkerSteps \cup SweepSteps \cup HandlerSteps

Jobs == [step : Steps, conv : Convs \cup {NoConv},
         goal : States \cup {"none"}, view : States \cup {"none"}]

\* An idle goroutine holds nothing; a transition has a target the code asks for.
JobsOK ==
  /\ job \in [Actors -> Jobs]
  /\ Step("worker") \in WorkerSteps /\ Step("sweep") \in SweepSteps
  /\ Step("handler") \in HandlerSteps
  /\ \A a \in Actors : IF Step(a) = "idle" THEN job[a] = Idle ELSE Cur(a) \in Convs
  /\ \A a \in Actors : Step(a) \in {"transition", "update", "cache"} =>
       Goal(a) = "human" \/ (a = "worker" /\ Goal(a) = "ai")

Counts == faults \in Nat /\ expired \in Nat /\ received \in Nat /\ escalated \in Nat

TypeInv == ConversationTypeOK /\ JobsOK /\ Counts

LEMMA StateNames ==
  /\ States = {"pending", "ai", "human", "closed"}
  /\ Targets("pending") = {"ai", "human"} /\ Targets("ai") = {"human", "closed"}
  /\ Targets("human") = {"closed"} /\ Targets("closed") = {"ai"}
  BY DEF States, Targets, Machine!States, Machine!Served, Machine!Targets

(* A nonempty set of conversations has a newest one.  Of the sets of       *)
(* members above a member, take one that contains no other such set.       *)
LEMMA Largest ==
  ASSUME NEW S \in SUBSET Convs, S # {}
  PROVE  Newest(S) \in S /\ \A k \in S : k <= Newest(S)
<1> DEFINE Above(m) == {k \in S : m < k}
           F == {Above(m) : m \in S}
<1>1. IsFiniteSet(S)
  <2>1. IsFiniteSet(1 .. MaxConvs)
    BY ConversationAssumption, FS_Interval
  <2> QED BY <2>1, FS_Subset DEF Convs
<1>2. F \subseteq FiniteSubsetsOf(S) /\ F # {}
  <2>1. \A m \in S : Above(m) \in FiniteSubsetsOf(S)
    BY <1>1, FS_Subset DEF FiniteSubsetsOf
  <2> QED BY <2>1
<1>3. PICK T \in F : \A U \in F : ~(<<U, T>> \in StrictSubsetOrdering(S))
  <2> HIDE DEF F
  <2> QED BY <1>2, FS_StrictSubsetOrderingWellFounded, WFMin
<1>4. PICK m \in S : T = Above(m)
  OBVIOUS
<1>5. S \subseteq Nat
  BY DEF Convs
<1>6. ASSUME NEW k \in S, m < k PROVE FALSE
  <2>1. k \in Above(m) /\ k \notin Above(k)
    BY <1>5, <1>6
  <2>2. ASSUME NEW j \in Above(k) PROVE j \in Above(m)
    BY <1>5, <1>6, <2>2
  <2>3. Above(k) \subseteq Above(m) /\ Above(k) # Above(m)
    BY <2>1, <2>2
  <2>4. Above(k) \in F /\ Above(k) \in SUBSET S /\ T \in SUBSET S
    BY <1>4
  <2> QED BY <1>3, <1>4, <2>3, <2>4 DEF StrictSubsetOrdering
<1>7. \E n \in S : \A k \in S : k <= n
  BY <1>5, <1>6
<1> QED
  BY <1>7, Zenon DEF Newest

(* What the lookup of an inbound message does: the newest reachable        *)
(* conversation, or the first unused row when none is reachable.           *)
LEMMA Received ==
  ASSUME Receive
  PROVE  /\ UNCHANGED <<aged, msgs, surveyVars, handoffs, found, expired, escalated, disturbed>>
         /\ received < MaxMessages /\ received' = received + 1 /\ Step("worker") = "idle"
         /\ \/ \E c \in Convs : /\ Reachable(c) /\ \A d \in Convs : Reachable(d) => d <= c
                                /\ job' = [job EXCEPT !["worker"] = Job("store", c, "none", "none")]
                                /\ UNCHANGED <<faults, st, session>>
            \/ \E c \in Convs : /\ \A d \in Convs : ~Reachable(d)
                                /\ st[c] = "none" /\ \A d \in Convs : d < c => st[d] # "none"
                                /\ job' = [job EXCEPT !["worker"] = Job("store", c, "none", "none")]
                                /\ st' = [st EXCEPT ![c] = "pending"]
                                /\ \/ session' = [session EXCEPT ![c] = "pending"] /\ NoFault
                                   \/ UNCHANGED session /\ Fault
            \/ Rest("worker") /\ Fault /\ UNCHANGED <<st, session>>
<1> DEFINE S == {c \in Convs : Reachable(c)}
           For(c) == job' = [job EXCEPT !["worker"] = Job("store", c, "none", "none")]
<1>1. CASE S # {} /\ For(Newest(S)) /\ NoFault /\ UNCHANGED <<st, session>>
  <2>1. Newest(S) \in S /\ \A k \in S : k <= Newest(S)
    <3> HIDE DEF S
    <3>1. S \in SUBSET Convs
      BY DEF S
    <3> QED BY <1>1, <3>1, Largest
  <2>2. \E c \in Convs : /\ Reachable(c) /\ \A d \in Convs : Reachable(d) => d <= c
                         /\ For(c) /\ UNCHANGED <<faults, st, session>>
    BY <1>1, <2>1 DEF NoFault
  <2> QED BY <2>2 DEF Receive
<1>2. CASE /\ S = {}
           /\ \E c \in {c \in Convs : st[c] = "none" /\ \A d \in Convs : d < c => st[d] # "none"} :
                /\ For(c) /\ st' = [st EXCEPT ![c] = "pending"]
                /\ \/ session' = [session EXCEPT ![c] = "pending"] /\ NoFault
                   \/ UNCHANGED session /\ Fault
  BY <1>2 DEF Receive
<1>3. CASE Rest("worker") /\ Fault /\ UNCHANGED <<st, session>>
  BY <1>3 DEF Receive
<1> QED
  BY <1>1, <1>2, <1>3 DEF Receive

LEMMA TypeInit == ConvInit => TypeInv
  BY ConversationAssumption, StateNames
  DEF ConvInit, TypeInv, ConversationTypeOK, JobsOK, Counts, Jobs, Steps, WorkerSteps,
      SweepSteps, HandlerSteps, Actors, Step, Cur, Goal, Job, Idle

LEMMA TypeNext == TypeInv /\ [ConvNext]_convVars => TypeInv'
<1> SUFFICES ASSUME TypeInv, [ConvNext]_convVars PROVE TypeInv'
  OBVIOUS
<1> USE ConversationAssumption, StateNames
    DEF TypeInv, ConversationTypeOK, JobsOK, Counts, Jobs, Steps,
        WorkerSteps, SweepSteps, HandlerSteps, Actors, Step, Cur, Goal,
        Rest, Goto, Aim, Job, Idle, Fault, NoFault, UnchangedBut,
        rowVars, surveyVars, boundVars, WriteState, Touch,
        AfterTransition, AfterFailure, Expire
<1>1. ASSUME NEW a \in {"worker", "handler"}, GetState(a) PROVE TypeInv'
  BY <1>1 DEF GetState
<1>2. ASSUME NEW a \in {"worker", "handler"}, UpdateState(a) PROVE TypeInv'
  BY <1>2 DEF UpdateState
<1>3. ASSUME NEW a \in {"worker", "handler"}, CacheState(a) PROVE TypeInv'
  BY <1>3 DEF CacheState
<1>4. ASSUME StoreMessage PROVE TypeInv'
  BY <1>4 DEF StoreMessage
<1>5. ASSUME Dispatch PROVE TypeInv'
  BY <1>5 DEF Dispatch
<1>6. ASSUME Answer PROVE TypeInv'
  BY <1>6 DEF Answer
<1>7. ASSUME CheckReply PROVE TypeInv'
  BY <1>7 DEF CheckReply
<1>8. ASSUME Rate PROVE TypeInv'
  BY <1>8 DEF Rate
<1>9. ASSUME ForgetPending PROVE TypeInv'
  BY <1>9 DEF ForgetPending
<1>10. ASSUME NEW c \in Convs, TakeHandoff(c) PROVE TypeInv'
  BY <1>10 DEF TakeHandoff
<1>11. ASSUME HandOver PROVE TypeInv'
  BY <1>11 DEF HandOver
<1>12. ASSUME MarkHandoff PROVE TypeInv'
  BY <1>12 DEF MarkHandoff
<1>13. ASSUME Sweep PROVE TypeInv'
  BY <1>13 DEF Sweep
<1>14. ASSUME NEW c \in Convs, CloseIdle(c) PROVE TypeInv'
  BY <1>14 DEF CloseIdle
<1>15. ASSUME InvalidateSession PROVE TypeInv'
  BY <1>15 DEF InvalidateSession
<1>16. ASSUME ShouldSendSurvey PROVE TypeInv'
  BY <1>16 DEF ShouldSendSurvey
<1>17. ASSUME PublishSurvey PROVE TypeInv'
  BY <1>17 DEF PublishSurvey
<1>18. ASSUME RememberPending PROVE TypeInv'
  BY <1>18 DEF RememberPending
<1>19. ASSUME MarkSurveySent PROVE TypeInv'
  BY <1>19 DEF MarkSurveySent
<1>20. ASSUME Receive PROVE TypeInv'
  BY <1>20, Received
<1>21. ASSUME NEW c \in Convs, Age(c) PROVE TypeInv'
  BY <1>21 DEF Age
<1>22. ASSUME NEW c \in Convs, ExpireSession(c) PROVE TypeInv'
  BY <1>22 DEF ExpireSession
<1>23. ASSUME NEW c \in Convs, ExpirePending(c) PROVE TypeInv'
  BY <1>23 DEF ExpirePending
<1>24. ASSUME NEW c \in Convs, CloseWindow(c) PROVE TypeInv'
  BY <1>24 DEF CloseWindow
<1>25. CASE UNCHANGED convVars
  BY <1>25 DEF convVars
<1> QED
  <2> HIDE DEF TypeInv, UnchangedBut, Rest, Goto, Aim
  <2> QED
    BY <1>1, <1>2, <1>3, <1>4, <1>5, <1>6, <1>7, <1>8, <1>9, <1>10, <1>11, <1>12, <1>13,
       <1>14, <1>15, <1>16, <1>17, <1>18, <1>19, <1>20, <1>21, <1>22, <1>23, <1>24, <1>25
       DEF ConvNext, WorkerStep, SweepStep

(* The types of the rows, keys and counters, and of each goroutine's job.  *)
THEOREM ConversationTypes == ConvSpec => []ConversationTypeOK
<1>1. TypeInv => ConversationTypeOK
  BY DEF TypeInv
<1> QED
  BY TypeInit, TypeNext, <1>1, PTL DEF ConvSpec

-----------------------------------------------------------------------------
(* A rating uses up a right to rate that a survey gave.  The right lies in *)
(* the pending key, or with the worker that has read the key, or with the  *)
(* sweep that has published and is about to write the key; a key whose     *)
(* deletion failed costs a fault.                                          *)
KeyRight(c) ==
  IF Cur("worker") = c /\ Step("worker") = "rate" THEN 1
  ELSE IF Cur("worker") = c /\ Step("worker") = "forget" THEN 0
  ELSE IF c \in pending THEN 1 ELSE 0
SweepRight(c) == IF Cur("sweep") = c /\ Step("sweep") = "remember" THEN 1 ELSE 0

RateInv == \A c \in Convs : ratings[c] + KeyRight(c) + SweepRight(c) <= surveys[c] + faults

LEMMA RateNext == TypeInv /\ RateInv /\ [ConvNext]_convVars => RateInv'
<1> SUFFICES ASSUME TypeInv /\ RateInv, [ConvNext]_convVars PROVE RateInv'
  OBVIOUS
<1> USE ConversationAssumption, StateNames
    DEF TypeInv, ConversationTypeOK, JobsOK, Counts, Jobs, Steps,
        WorkerSteps, SweepSteps, HandlerSteps, Actors, Step, Cur, Goal,
        Rest, Goto, Aim, Job, Idle, Fault, NoFault, UnchangedBut,
        rowVars, surveyVars, boundVars, WriteState, Touch, AfterTransition, AfterFailure, Expire,
        RateInv, KeyRight, SweepRight
<1>1. ASSUME NEW a \in {"worker", "handler"}, GetState(a) PROVE RateInv'
  BY <1>1 DEF GetState
<1>2. ASSUME NEW a \in {"worker", "handler"}, UpdateState(a) PROVE RateInv'
  BY <1>2 DEF UpdateState
<1>3. ASSUME NEW a \in {"worker", "handler"}, CacheState(a) PROVE RateInv'
  BY <1>3 DEF CacheState
<1>4. ASSUME StoreMessage PROVE RateInv'
  BY <1>4 DEF StoreMessage
<1>5. ASSUME Dispatch PROVE RateInv'
  BY <1>5 DEF Dispatch
<1>6. ASSUME Answer PROVE RateInv'
  BY <1>6 DEF Answer
<1>7. ASSUME CheckReply PROVE RateInv'
  BY <1>7 DEF CheckReply
<1>8. ASSUME Rate PROVE RateInv'
  BY <1>8 DEF Rate
<1>9. ASSUME ForgetPending PROVE RateInv'
  BY <1>9 DEF ForgetPending
<1>10. ASSUME NEW c \in Convs, TakeHandoff(c) PROVE RateInv'
  BY <1>10 DEF TakeHandoff
<1>11. ASSUME HandOver PROVE RateInv'
  BY <1>11 DEF HandOver
<1>12. ASSUME MarkHandoff PROVE RateInv'
  BY <1>12 DEF MarkHandoff
<1>13. ASSUME Sweep PROVE RateInv'
  BY <1>13 DEF Sweep
<1>14. ASSUME NEW c \in Convs, CloseIdle(c) PROVE RateInv'
  BY <1>14 DEF CloseIdle
<1>15. ASSUME InvalidateSession PROVE RateInv'
  BY <1>15 DEF InvalidateSession
<1>16. ASSUME ShouldSendSurvey PROVE RateInv'
  BY <1>16 DEF ShouldSendSurvey
<1>17. ASSUME PublishSurvey PROVE RateInv'
  BY <1>17 DEF PublishSurvey
<1>18. ASSUME RememberPending PROVE RateInv'
  BY <1>18 DEF RememberPending
<1>19. ASSUME MarkSurveySent PROVE RateInv'
  BY <1>19 DEF MarkSurveySent
<1>20. ASSUME Receive PROVE RateInv'
  BY <1>20, Received
<1>21. ASSUME NEW c \in Convs, Age(c) PROVE RateInv'
  BY <1>21 DEF Age
<1>22. ASSUME NEW c \in Convs, ExpireSession(c) PROVE RateInv'
  BY <1>22 DEF ExpireSession
<1>23. ASSUME NEW c \in Convs, ExpirePending(c) PROVE RateInv'
  BY <1>23 DEF ExpirePending
<1>24. ASSUME NEW c \in Convs, CloseWindow(c) PROVE RateInv'
  BY <1>24 DEF CloseWindow
<1>25. CASE UNCHANGED convVars
  BY <1>25 DEF convVars
<1> QED
  BY <1>1, <1>2, <1>3, <1>4, <1>5, <1>6, <1>7, <1>8, <1>9, <1>10, <1>11, <1>12, <1>13,
     <1>14, <1>15, <1>16, <1>17, <1>18, <1>19, <1>20, <1>21, <1>22, <1>23, <1>24, <1>25
     DEF ConvNext, WorkerStep, SweepStep

(* A customer's number is counted as a rating at most once per survey.     *)
THEOREM RatingsBounded == ConvSpec => []RatedOncePerSurvey
<1>1. ConvInit => RateInv
  BY ConversationAssumption
  DEF ConvInit, RateInv, KeyRight, SweepRight, Actors, Cur, Step, Job, Idle
<1>2. TypeInv /\ RateInv => RatedOncePerSurvey
  BY DEF TypeInv, ConversationTypeOK, Counts, RateInv, KeyRight, SweepRight, RatedOncePerSurvey
<1> QED
  BY TypeInit, TypeNext, RateNext, <1>1, <1>2, PTL DEF ConvSpec

-----------------------------------------------------------------------------
(* Before a row exists nothing refers to it, and what the sweep and its    *)
(* closing work on has left the pending state for good.                    *)
RowsInv ==
  /\ \A c \in Convs : st[c] = "none" => /\ session[c] = "none" /\ found[c] = "none"
                                        /\ c \notin handoffs /\ \A a \in Actors : Cur(a) # c
  /\ \A c \in Convs : found[c] # "closed"
  /\ \A c \in Convs : found[c] \in {"ai", "human"} => st[c] \in {"ai", "human", "closed"}
  /\ Step("sweep") # "idle" => st[Cur("sweep")] \in {"ai", "human", "closed"}

LEMMA RowsNext == TypeInv /\ RowsInv /\ [ConvNext]_convVars => RowsInv'
<1> SUFFICES ASSUME TypeInv /\ RowsInv, [ConvNext]_convVars PROVE RowsInv'
  OBVIOUS
<1> USE ConversationAssumption, StateNames
    DEF TypeInv, ConversationTypeOK, JobsOK, Counts, Jobs, Steps,
        WorkerSteps, SweepSteps, HandlerSteps, Actors, Step, Cur, Goal,
        Rest, Goto, Aim, Job, Idle, Fault, NoFault, UnchangedBut,
        rowVars, surveyVars, boundVars, WriteState, Touch,
        AfterTransition, AfterFailure, Expire,
        RowsInv
<1>1. ASSUME NEW a \in {"worker", "handler"}, GetState(a) PROVE RowsInv'
  BY <1>1 DEF GetState
<1>2. ASSUME NEW a \in {"worker", "handler"}, UpdateState(a) PROVE RowsInv'
  BY <1>2 DEF UpdateState
<1>3. ASSUME NEW a \in {"worker", "handler"}, CacheState(a) PROVE RowsInv'
  BY <1>3 DEF CacheState
<1>4. ASSUME StoreMessage PROVE RowsInv'
  BY <1>4 DEF StoreMessage
<1>5. ASSUME Dispatch PROVE RowsInv'
  BY <1>5 DEF Dispatch
<1>6. ASSUME Answer PROVE RowsInv'
  BY <1>6 DEF Answer
<1>7. ASSUME CheckReply PROVE RowsInv'
  BY <1>7 DEF CheckReply
<1>8. ASSUME Rate PROVE RowsInv'
  BY <1>8 DEF Rate
<1>9. ASSUME ForgetPending PROVE RowsInv'
  BY <1>9 DEF ForgetPending
<1>10. ASSUME NEW c \in Convs, TakeHandoff(c) PROVE RowsInv'
  BY <1>10 DEF TakeHandoff
<1>11. ASSUME HandOver PROVE RowsInv'
  BY <1>11 DEF HandOver
<1>12. ASSUME MarkHandoff PROVE RowsInv'
  BY <1>12 DEF MarkHandoff
<1>13. ASSUME Sweep PROVE RowsInv'
  BY <1>13 DEF Sweep
<1>14. ASSUME NEW c \in Convs, CloseIdle(c) PROVE RowsInv'
  BY <1>14 DEF CloseIdle
<1>15. ASSUME InvalidateSession PROVE RowsInv'
  BY <1>15 DEF InvalidateSession
<1>16. ASSUME ShouldSendSurvey PROVE RowsInv'
  BY <1>16 DEF ShouldSendSurvey
<1>17. ASSUME PublishSurvey PROVE RowsInv'
  BY <1>17 DEF PublishSurvey
<1>18. ASSUME RememberPending PROVE RowsInv'
  BY <1>18 DEF RememberPending
<1>19. ASSUME MarkSurveySent PROVE RowsInv'
  BY <1>19 DEF MarkSurveySent
<1>20. ASSUME Receive PROVE RowsInv'
  BY <1>20, Received DEF Reachable
<1>21. ASSUME NEW c \in Convs, Age(c) PROVE RowsInv'
  BY <1>21 DEF Age
<1>22. ASSUME NEW c \in Convs, ExpireSession(c) PROVE RowsInv'
  BY <1>22 DEF ExpireSession
<1>23. ASSUME NEW c \in Convs, ExpirePending(c) PROVE RowsInv'
  BY <1>23 DEF ExpirePending
<1>24. ASSUME NEW c \in Convs, CloseWindow(c) PROVE RowsInv'
  BY <1>24 DEF CloseWindow
<1>25. CASE UNCHANGED convVars
  BY <1>25 DEF convVars
<1> QED
  <2> HIDE DEF TypeInv, RowsInv, UnchangedBut, Rest, Goto, Aim
  <2> QED
    BY <1>1, <1>2, <1>3, <1>4, <1>5, <1>6, <1>7, <1>8, <1>9, <1>10, <1>11, <1>12, <1>13,
       <1>14, <1>15, <1>16, <1>17, <1>18, <1>19, <1>20, <1>21, <1>22, <1>23, <1>24, <1>25
       DEF ConvNext, WorkerStep, SweepStep

LEMMA RowsInit == ConvInit => RowsInv
  BY ConversationAssumption, StateNames DEF ConvInit, RowsInv, Actors, Cur, Step, Job, Idle

-----------------------------------------------------------------------------
(* On a conversation nobody disturbed at most one goroutine relies on a    *)
(* state it read, what it read is still the stored state, and the session  *)
(* differs from the row only while that goroutine has still to write it.   *)
Writing(a, c) == Cur(a) = c /\ Step(a) = "cache"
Closing(c) == Cur("sweep") = c /\ Step("sweep") = "invalidate"

OneRelies(c) == \A a, b \in Actors : Relying(a, c) /\ Relying(b, c) => a = b
StillTrue(c) ==
  /\ found[c] \in {"none", st[c]}
  /\ Closing(c) => st[c] = "closed" /\ found[c] = "none"
  /\ \A a \in {"worker", "handler"} :
       Cur(a) = c => /\ Step(a) = "update" => Goal(a) \in Targets(st[c])
                     /\ Step(a) = "cache" => Goal(a) = st[c]
SessionTrue(c) ==
  \/ session[c] \in {"none", st[c]} \/ Closing(c)
  \/ \E a \in {"worker", "handler"} : Writing(a, c)

FreshInv == \A c \in Convs \ disturbed : OneRelies(c) /\ StillTrue(c) /\ SessionTrue(c)

LEMMA FreshNext == TypeInv /\ RowsInv /\ FreshInv /\ [ConvNext]_convVars => FreshInv'
<1> SUFFICES ASSUME TypeInv /\ RowsInv /\ FreshInv, [ConvNext]_convVars PROVE FreshInv'
  OBVIOUS
<1> USE ConversationAssumption, StateNames
    DEF TypeInv, ConversationTypeOK, JobsOK, Counts, Jobs, Steps,
        WorkerSteps, SweepSteps, HandlerSteps, Actors, Step, Cur, Goal,
        Rest, Goto, Aim, Job, Idle, Fault, NoFault, UnchangedBut,
        rowVars, surveyVars, boundVars, WriteState, Touch,
        AfterTransition, AfterFailure, Expire,
        RowsInv, FreshInv, OneRelies, StillTrue, SessionTrue, Writing, Closing, Relying, Overlaps
<1>1. ASSUME NEW a \in {"worker", "handler"}, GetState(a) PROVE FreshInv'
  BY <1>1 DEF GetState
<1>2. ASSUME NEW a \in {"worker", "handler"}, UpdateState(a) PROVE FreshInv'
  BY <1>2 DEF UpdateState
<1>3. ASSUME NEW a \in {"worker", "handler"}, CacheState(a) PROVE FreshInv'
  BY <1>3 DEF CacheState
<1>4. ASSUME StoreMessage PROVE FreshInv'
  BY <1>4 DEF StoreMessage
<1>5. ASSUME Dispatch PROVE FreshInv'
  BY <1>5 DEF Dispatch
<1>6. ASSUME Answer PROVE FreshInv'
  BY <1>6 DEF Answer
<1>7. ASSUME CheckReply PROVE FreshInv'
  BY <1>7 DEF CheckReply
<1>8. ASSUME Rate PROVE FreshInv'
  BY <1>8 DEF Rate
<1>9. ASSUME ForgetPending PROVE FreshInv'
  BY <1>9 DEF ForgetPending
<1>10. ASSUME NEW c \in Convs, TakeHandoff(c) PROVE FreshInv'
  BY <1>10 DEF TakeHandoff
<1>11. ASSUME HandOver PROVE FreshInv'
  BY <1>11 DEF HandOver
<1>12. ASSUME MarkHandoff PROVE FreshInv'
  BY <1>12 DEF MarkHandoff
<1>13. ASSUME Sweep PROVE FreshInv'
  BY <1>13 DEF Sweep
<1>14. ASSUME NEW c \in Convs, CloseIdle(c) PROVE FreshInv'
  BY <1>14 DEF CloseIdle
<1>15. ASSUME InvalidateSession PROVE FreshInv'
  BY <1>15 DEF InvalidateSession
<1>16. ASSUME ShouldSendSurvey PROVE FreshInv'
  BY <1>16 DEF ShouldSendSurvey
<1>17. ASSUME PublishSurvey PROVE FreshInv'
  BY <1>17 DEF PublishSurvey
<1>18. ASSUME RememberPending PROVE FreshInv'
  BY <1>18 DEF RememberPending
<1>19. ASSUME MarkSurveySent PROVE FreshInv'
  BY <1>19 DEF MarkSurveySent
<1>20. ASSUME Receive PROVE FreshInv'
  BY <1>20, Received DEF Reachable
<1>21. ASSUME NEW c \in Convs, Age(c) PROVE FreshInv'
  BY <1>21 DEF Age
<1>22. ASSUME NEW c \in Convs, ExpireSession(c) PROVE FreshInv'
  BY <1>22 DEF ExpireSession
<1>23. ASSUME NEW c \in Convs, ExpirePending(c) PROVE FreshInv'
  BY <1>23 DEF ExpirePending
<1>24. ASSUME NEW c \in Convs, CloseWindow(c) PROVE FreshInv'
  BY <1>24 DEF CloseWindow
<1>25. CASE UNCHANGED convVars
  BY <1>25 DEF convVars
<1> HIDE DEF FreshInv
<1> QED
  BY <1>1, <1>2, <1>3, <1>4, <1>5, <1>6, <1>7, <1>8, <1>9, <1>10, <1>11, <1>12, <1>13,
     <1>14, <1>15, <1>16, <1>17, <1>18, <1>19, <1>20, <1>21, <1>22, <1>23, <1>24, <1>25
     DEF ConvNext, WorkerStep, SweepStep

LEMMA FreshInit == ConvInit => FreshInv
  BY ConversationAssumption, StateNames
  DEF ConvInit, FreshInv, OneRelies, StillTrue, SessionTrue, Writing, Closing, Relying,
      Actors, Cur, Step, Goal, Job, Idle

(* The cached session is the row's state, or somebody is on the way to     *)
(* write it, or two transitions overlapped.                                *)
THEOREM SessionsFresh == ConvSpec => []SessionFresh
<1>1. FreshInv => SessionFresh
  BY DEF FreshInv, SessionTrue, Writing, Closing, SessionFresh, Relying, Actors
<1> QED
  BY TypeInit, TypeNext, RowsInit, RowsNext, FreshInit, FreshNext, <1>1, PTL DEF ConvSpec

-----------------------------------------------------------------------------
LEMMA MachineNames == Machine!States = States /\ \A s : Machine!Targets(s) = Targets(s)
  BY DEF States, Targets

(* On an undisturbed conversation what is about to be written is allowed.  *)
LEMMA Allowed ==
  ASSUME FreshInv
  PROVE  /\ \A a \in {"worker", "handler"} :
              Step(a) = "update" /\ Cur(a) \in Convs \ disturbed => Goal(a) \in Targets(st[Cur(a)])
         /\ \A c \in Convs \ disturbed :
              found[c] \in {"ai", "human"} => st[c] \in States /\ "closed" \in Targets(st[c])
  BY StateNames DEF FreshInv, StillTrue

Follows == [Machine!MachineNext]_(Machine!machineVars)

(* Every step keeps to the table, or overwrites a row on which two         *)
(* transitions overlapped.                                                 *)
LEMMA MachineStep == TypeInv /\ RowsInv /\ FreshInv /\ [ConvNext]_convVars => Follows
<1> SUFFICES ASSUME TypeInv /\ RowsInv /\ FreshInv, [ConvNext]_convVars PROVE Follows
  OBVIOUS
<1> USE ConversationAssumption, StateNames
    DEF TypeInv, ConversationTypeOK, JobsOK, Counts, Jobs, Steps,
        WorkerSteps, SweepSteps, HandlerSteps, Actors, Step, Cur, Goal,
        Rest, Goto, Aim, Job, Idle, Fault, NoFault, UnchangedBut,
        rowVars, surveyVars, boundVars, WriteState, Touch,
        AfterTransition, AfterFailure, Expire,
        RowsInv, FreshInv, StillTrue, Machine!MachineNext, Machine!Create, Machine!Transition,
        Machine!Overwrite, Machine!Served, Machine!machineVars, Follows
<1>1. ASSUME NEW a \in {"worker", "handler"}, GetState(a) PROVE Follows
  BY <1>1 DEF GetState
<1>2. ASSUME NEW a \in {"worker", "handler"}, UpdateState(a) PROVE Follows
  <2>0. Cur(a) \in Convs /\ st[Cur(a)] \in States
    <3>1. Cur(a) \in Convs /\ a \in Actors
      BY <1>2 DEF UpdateState
    <3>2. st[Cur(a)] # "none" /\ st[Cur(a)] \in States \cup {"none"}
      BY <3>1
    <3> QED BY <3>1, <3>2
  <2>1. CASE UNCHANGED st
    BY <1>2, <2>1 DEF UpdateState
  <2>2. CASE st' = [st EXCEPT ![Cur(a)] = Goal(a)] /\ Cur(a) \in disturbed
    <3>1. Goal(a) \in {"ai", "human"} /\ Cur(a) \in Convs
      BY <1>2 DEF UpdateState
    <3>2. CASE st[Cur(a)] = "pending"
      BY <1>2, <2>2, <3>1, <3>2, MachineNames DEF UpdateState
    <3>3. CASE st[Cur(a)] \in {"ai", "human", "closed"}
      BY <1>2, <2>2, <3>1, <3>3 DEF UpdateState
    <3>4. st[Cur(a)] \in {"pending", "ai", "human", "closed"}
      BY <2>0
    <3> QED BY <3>2, <3>3, <3>4
  <2>3. CASE st' = [st EXCEPT ![Cur(a)] = Goal(a)] /\ Cur(a) \notin disturbed
    <3>1. Step(a) = "update"
      BY <1>2 DEF UpdateState
    <3>2. Goal(a) \in Targets(st[Cur(a)])
      BY <2>0, <2>3, <3>1, Allowed
    <3> QED BY <1>2, <2>0, <2>3, <3>2, MachineNames DEF UpdateState
  <2> QED BY <1>2, <2>1, <2>2, <2>3 DEF UpdateState
<1>3. ASSUME NEW a \in {"worker", "handler"}, CacheState(a) PROVE Follows
  BY <1>3 DEF CacheState
<1>4. ASSUME StoreMessage PROVE Follows
  BY <1>4 DEF StoreMessage
<1>5. ASSUME Dispatch PROVE Follows
  BY <1>5 DEF Dispatch
<1>6. ASSUME Answer PROVE Follows
  BY <1>6 DEF Answer
<1>7. ASSUME CheckReply PROVE Follows
  BY <1>7 DEF CheckReply
<1>8. ASSUME Rate PROVE Follows
  BY <1>8 DEF Rate
<1>9. ASSUME ForgetPending PROVE Follows
  BY <1>9 DEF ForgetPending
<1>10. ASSUME NEW c \in Convs, TakeHandoff(c) PROVE Follows
  BY <1>10 DEF TakeHandoff
<1>11. ASSUME HandOver PROVE Follows
  BY <1>11 DEF HandOver
<1>12. ASSUME MarkHandoff PROVE Follows
  BY <1>12 DEF MarkHandoff
<1>13. ASSUME Sweep PROVE Follows
  BY <1>13 DEF Sweep
<1>14. ASSUME NEW c \in Convs, CloseIdle(c) PROVE Follows
  <2>1. CASE UNCHANGED st
    BY <1>14, <2>1 DEF CloseIdle
  <2>2. CASE st' = [st EXCEPT ![c] = "closed"] /\ found[c] \in {"ai", "human"}
    <3>1. CASE c \in disturbed
      BY <1>14, <2>2, <3>1 DEF CloseIdle
    <3>2. CASE c \notin disturbed
      <4>1. st[c] \in States /\ "closed" \in Targets(st[c])
        BY <2>2, <3>2, Allowed
      <4> QED BY <1>14, <2>2, <4>1, MachineNames DEF CloseIdle
    <3> QED
      BY <3>1, <3>2, Zenon
  <2>3. found[c] \in {"pending", "ai", "human"}
    BY <1>14 DEF CloseIdle
  <2>4. UNCHANGED st \/ (st' = [st EXCEPT ![c] = "closed"] /\ found[c] \in {"ai", "human"})
    BY <1>14, <2>3 DEF CloseIdle
  <2> QED BY <2>1, <2>2, <2>4
<1>15. ASSUME InvalidateSession PROVE Follows
  BY <1>15 DEF InvalidateSession
<1>16. ASSUME ShouldSendSurvey PROVE Follows
  BY <1>16 DEF ShouldSendSurvey
<1>17. ASSUME PublishSurvey PROVE Follows
  BY <1>17 DEF PublishSurvey
<1>18. ASSUME RememberPending PROVE Follows
  BY <1>18 DEF RememberPending
<1>19. ASSUME MarkSurveySent PROVE Follows
  BY <1>19 DEF MarkSurveySent
<1>20. ASSUME Receive PROVE Follows
  BY <1>20, Received
<1>21. ASSUME NEW c \in Convs, Age(c) PROVE Follows
  BY <1>21 DEF Age
<1>22. ASSUME NEW c \in Convs, ExpireSession(c) PROVE Follows
  BY <1>22 DEF ExpireSession
<1>23. ASSUME NEW c \in Convs, ExpirePending(c) PROVE Follows
  BY <1>23 DEF ExpirePending
<1>24. ASSUME NEW c \in Convs, CloseWindow(c) PROVE Follows
  BY <1>24 DEF CloseWindow
<1>25. CASE UNCHANGED convVars
  BY <1>25 DEF convVars
<1> HIDE DEF Follows
<1> QED
  BY <1>1, <1>2, <1>3, <1>4, <1>5, <1>6, <1>7, <1>8, <1>9, <1>10, <1>11, <1>12, <1>13,
     <1>14, <1>15, <1>16, <1>17, <1>18, <1>19, <1>20, <1>21, <1>22, <1>23, <1>24, <1>25
     DEF ConvNext, WorkerStep, SweepStep

(* The stored state follows the transition table of machine.go.            *)
THEOREM KeepsToMachine == ConvSpec => MachineSpec
<1>1. ConvInit => Machine!MachineInit
  BY DEF ConvInit, Machine!MachineInit
<1> QED
  BY TypeInit, TypeNext, RowsInit, RowsNext, FreshInit, FreshNext, MachineStep, <1>1, PTL
  DEF ConvSpec, MachineSpec, Machine!MachineSpec, Follows

-----------------------------------------------------------------------------
(* Whatever makes a closed conversation reachable or answerable comes from *)
(* a survey that was published.                                            *)
AskedInv ==
  \A c \in Convs :
    \/ survey[c] = "sent" \/ c \in pending
    \/ Cur("sweep") = c /\ Step("sweep") \in {"remember", "status"}
    \/ Cur("worker") = c /\ Step("worker") = "rate"
    => surveys[c] >= 1

LEMMA AskedInit == ConvInit => AskedInv
  BY ConversationAssumption DEF ConvInit, AskedInv, Actors, Cur, Step, Job, Idle

LEMMA AskedNext == TypeInv /\ AskedInv /\ [ConvNext]_convVars => AskedInv'
<1> SUFFICES ASSUME TypeInv /\ AskedInv, [ConvNext]_convVars PROVE AskedInv'
  OBVIOUS
<1> USE ConversationAssumption, StateNames
    DEF TypeInv, ConversationTypeOK, JobsOK, Counts, Jobs, Steps,
        WorkerSteps, SweepSteps, HandlerSteps, Actors, Step, Cur, Goal,
        Rest, Goto, Aim, Job, Idle, Fault, NoFault, UnchangedBut,
        rowVars, surveyVars, boundVars, WriteState, Touch,
        AfterTransition, AfterFailure, Expire, AskedInv
<1>1. ASSUME NEW a \in {"worker", "handler"}, GetState(a) PROVE AskedInv'
  BY <1>1 DEF GetState
<1>2. ASSUME NEW a \in {"worker", "handler"}, UpdateState(a) PROVE AskedInv'
  BY <1>2 DEF UpdateState
<1>3. ASSUME NEW a \in {"worker", "handler"}, CacheState(a) PROVE AskedInv'
  BY <1>3 DEF CacheState
<1>4. ASSUME StoreMessage PROVE AskedInv'
  BY <1>4 DEF StoreMessage
<1>5. ASSUME Dispatch PROVE AskedInv'
  BY <1>5 DEF Dispatch
<1>6. ASSUME Answer PROVE AskedInv'
  BY <1>6 DEF Answer
<1>7. ASSUME CheckReply PROVE AskedInv'
  BY <1>7 DEF CheckReply
<1>8. ASSUME Rate PROVE AskedInv'
  BY <1>8 DEF Rate
<1>9. ASSUME ForgetPending PROVE AskedInv'
  BY <1>9 DEF ForgetPending
<1>10. ASSUME NEW c \in Convs, TakeHandoff(c) PROVE AskedInv'
  BY <1>10 DEF TakeHandoff
<1>11. ASSUME HandOver PROVE AskedInv'
  BY <1>11 DEF HandOver
<1>12. ASSUME MarkHandoff PROVE AskedInv'
  BY <1>12 DEF MarkHandoff
<1>13. ASSUME Sweep PROVE AskedInv'
  BY <1>13 DEF Sweep
<1>14. ASSUME NEW c \in Convs, CloseIdle(c) PROVE AskedInv'
  BY <1>14 DEF CloseIdle
<1>15. ASSUME InvalidateSession PROVE AskedInv'
  BY <1>15 DEF InvalidateSession
<1>16. ASSUME ShouldSendSurvey PROVE AskedInv'
  BY <1>16 DEF ShouldSendSurvey
<1>17. ASSUME PublishSurvey PROVE AskedInv'
  BY <1>17 DEF PublishSurvey
<1>18. ASSUME RememberPending PROVE AskedInv'
  BY <1>18 DEF RememberPending
<1>19. ASSUME MarkSurveySent PROVE AskedInv'
  BY <1>19 DEF MarkSurveySent
<1>20. ASSUME Receive PROVE AskedInv'
  BY <1>20, Received
<1>21. ASSUME NEW c \in Convs, Age(c) PROVE AskedInv'
  BY <1>21 DEF Age
<1>22. ASSUME NEW c \in Convs, ExpireSession(c) PROVE AskedInv'
  BY <1>22 DEF ExpireSession
<1>23. ASSUME NEW c \in Convs, ExpirePending(c) PROVE AskedInv'
  BY <1>23 DEF ExpirePending
<1>24. ASSUME NEW c \in Convs, CloseWindow(c) PROVE AskedInv'
  BY <1>24 DEF CloseWindow
<1>25. CASE UNCHANGED convVars
  BY <1>25 DEF convVars
<1> QED
  BY <1>1, <1>2, <1>3, <1>4, <1>5, <1>6, <1>7, <1>8, <1>9, <1>10, <1>11, <1>12, <1>13,
     <1>14, <1>15, <1>16, <1>17, <1>18, <1>19, <1>20, <1>21, <1>22, <1>23, <1>24, <1>25
     DEF ConvNext, WorkerStep, SweepStep

-----------------------------------------------------------------------------
(* Rows are used in order, and of two undisturbed conversations the older  *)
(* is open, or being worked on, only if it was asked before the newer one  *)
(* came or since; the newer one next to it, only if it was asked too.      *)
InOrder == \A c, d \in Convs : c < d /\ st[d] # "none" => st[c] # "none"

Handled(c) == Cur("worker") = c

Beside(c, d) ==
  /\ st[d] # "none" /\ (Open(c) \/ Handled(c)) => surveys[c] >= 1
  /\ Handled(c) => ~Open(d)
  /\ Open(c) /\ (Open(d) \/ Handled(d)) => surveys[d] >= 1

BesideInv == InOrder /\ \A c, d \in Convs \ disturbed : c < d => Beside(c, d)

LEMMA BesideNext ==
  TypeInv /\ RowsInv /\ FreshInv /\ AskedInv /\ BesideInv /\ [ConvNext]_convVars => BesideInv'
<1> SUFFICES ASSUME TypeInv /\ RowsInv /\ FreshInv /\ AskedInv /\ BesideInv,
                    [ConvNext]_convVars
             PROVE BesideInv'
  OBVIOUS
<1> USE ConversationAssumption, StateNames
    DEF TypeInv, ConversationTypeOK, JobsOK, Counts, Jobs, Steps,
        WorkerSteps, SweepSteps, HandlerSteps, Actors, Step, Cur, Goal,
        Rest, Goto, Aim, Job, Idle, Fault, NoFault, UnchangedBut,
        rowVars, surveyVars, boundVars, WriteState, Touch,
        AfterTransition, AfterFailure, Expire,
        RowsInv, FreshInv, OneRelies, StillTrue, Writing, Closing, Relying, Overlaps,
        AskedInv, BesideInv, InOrder, Beside, Handled, Open
<1>1. ASSUME NEW a \in {"worker", "handler"}, GetState(a) PROVE BesideInv'
  BY <1>1 DEF GetState
<1>2. ASSUME NEW a \in {"worker", "handler"}, UpdateState(a) PROVE BesideInv'
  <2>1. \A c \in Convs \ disturbed : Open(c)' => Open(c) \/ Handled(c)
    <3> SUFFICES ASSUME NEW c \in Convs \ disturbed, Open(c)' PROVE Open(c) \/ Handled(c)
      OBVIOUS
    <3>1. CASE st'[c] = st[c]
      BY <3>1
    <3>2. CASE Cur(a) = c /\ Step(a) = "update" /\ Goal(a) \in Targets(st[c])
      BY <3>2
    <3> QED
      BY <1>2, <3>1, <3>2, Allowed DEF UpdateState
  <2>2. \A c \in Convs : st'[c] = "none" <=> st[c] = "none"
    BY <1>2 DEF UpdateState
  <2>3. UNCHANGED <<surveys, disturbed>> /\ \A c \in Convs : Handled(c)' => Handled(c)
    BY <1>2 DEF UpdateState
  <2>4. InOrder'
    BY <2>2
  <2>5. ASSUME NEW c \in Convs \ disturbed, NEW d \in Convs \ disturbed, c < d PROVE Beside(c, d)'
    <3>1. Beside(c, d)
      BY <2>5
    <3>2. ~(Handled(c) /\ Handled(d))
      BY <2>5 DEF Convs
    <3> HIDE DEF Open, Handled
    <3> QED BY <2>1, <2>2, <2>3, <3>1, <3>2
  <2> QED BY <2>3, <2>4, <2>5
<1>3. ASSUME NEW a \in {"worker", "handler"}, CacheState(a) PROVE BesideInv'
  BY <1>3 DEF CacheState
<1>4. ASSUME StoreMessage PROVE BesideInv'
  BY <1>4 DEF StoreMessage
<1>5. ASSUME Dispatch PROVE BesideInv'
  BY <1>5 DEF Dispatch
<1>6. ASSUME Answer PROVE BesideInv'
  BY <1>6 DEF Answer
<1>7. ASSUME CheckReply PROVE BesideInv'
  BY <1>7 DEF CheckReply
<1>8. ASSUME Rate PROVE BesideInv'
  BY <1>8 DEF Rate
<1>9. ASSUME ForgetPending PROVE BesideInv'
  BY <1>9 DEF ForgetPending
<1>10. ASSUME NEW c \in Convs, TakeHandoff(c) PROVE BesideInv'
  BY <1>10 DEF TakeHandoff
<1>11. ASSUME HandOver PROVE BesideInv'
  BY <1>11 DEF HandOver
<1>12. ASSUME MarkHandoff PROVE BesideInv'
  BY <1>12 DEF MarkHandoff
<1>13. ASSUME Sweep PROVE BesideInv'
  BY <1>13 DEF Sweep
<1>14. ASSUME NEW c \in Convs, CloseIdle(c) PROVE BesideInv'
  BY <1>14 DEF CloseIdle
<1>15. ASSUME InvalidateSession PROVE BesideInv'
  BY <1>15 DEF InvalidateSession
<1>16. ASSUME ShouldSendSurvey PROVE BesideInv'
  BY <1>16 DEF ShouldSendSurvey
<1>17. ASSUME PublishSurvey PROVE BesideInv'
  BY <1>17 DEF PublishSurvey
<1>18. ASSUME RememberPending PROVE BesideInv'
  BY <1>18 DEF RememberPending
<1>19. ASSUME MarkSurveySent PROVE BesideInv'
  BY <1>19 DEF MarkSurveySent
<1>20. ASSUME Receive PROVE BesideInv'
  <2>1. UNCHANGED <<surveys, disturbed>>
    BY <1>20, Received
  <2>2. CASE \E c \in Convs : /\ Reachable(c) /\ \A d \in Convs : Reachable(d) => d <= c
                              /\ job' = [job EXCEPT !["worker"] = Job("store", c, "none", "none")]
                              /\ UNCHANGED <<faults, st, session>>
    <3>1. PICK e \in Convs : /\ Reachable(e) /\ \A d \in Convs : Reachable(d) => d <= e
                             /\ Cur("worker")' = e
      BY <2>2
    <3>2. UNCHANGED st /\ \A c \in Convs : Handled(c)' <=> c = e
      BY <2>2, <3>1
    <3>3. Open(e) \/ surveys[e] >= 1
      BY <3>1 DEF Reachable
    <3>4. \A d \in Convs : e < d => ~Open(d)
      BY <3>1 DEF Reachable, Convs
    <3>5. ASSUME NEW c \in Convs \ disturbed, NEW d \in Convs \ disturbed, c < d PROVE Beside(c, d)'
      <4>1. Beside(c, d)
        BY <3>5
      <4>2. c # d
        BY <3>5 DEF Convs
      <4> QED BY <2>1, <3>2, <3>3, <3>4, <3>5, <4>1, <4>2
    <3> QED BY <2>1, <3>2, <3>5
  <2>3. CASE \E c \in Convs : /\ \A d \in Convs : ~Reachable(d)
                              /\ st[c] = "none" /\ \A d \in Convs : d < c => st[d] # "none"
                              /\ job' = [job EXCEPT !["worker"] = Job("store", c, "none", "none")]
                              /\ st' = [st EXCEPT ![c] = "pending"]
    <3>0. PICK e \in Convs : /\ \A d \in Convs : ~Reachable(d)
                             /\ st[e] = "none" /\ \A d \in Convs : d < e => st[d] # "none"
                             /\ job' = [job EXCEPT !["worker"] = Job("store", e, "none", "none")]
                             /\ st' = [st EXCEPT ![e] = "pending"]
      BY <2>3
    <3>1. /\ \A d \in Convs : ~Reachable(d)
          /\ st[e] = "none" /\ \A d \in Convs : d < e => st[d] # "none"
          /\ Cur("worker")' = e /\ st' = [st EXCEPT ![e] = "pending"]
      BY <3>0
    <3>2. \A c \in Convs : ~Open(c)
      BY <3>1 DEF Reachable
    <3>3. \A d \in Convs : e < d => st[d] = "none"
      BY <3>1
    <3>4. \A c \in Convs : (Open(c)' => c = e) /\ (Handled(c)' => c = e)
      BY <3>1, <3>2
    <3>5. InOrder'
      BY <3>1, <3>3 DEF Convs
    <3>6. ASSUME NEW c \in Convs \ disturbed, NEW d \in Convs \ disturbed, c < d PROVE Beside(c, d)'
      <4>1. c # d
        BY <3>6 DEF Convs
      <4>2. c = e => st'[d] = "none"
        BY <3>1, <3>3, <3>6, <4>1
      <4>3. (Open(c)' => c = e) /\ (Handled(c)' => c = e) /\ (Open(d)' => d = e) /\ (Handled(d)' => d = e)
        BY <3>4
      <4> HIDE DEF Handled, Open
      <4> QED BY <4>1, <4>2, <4>3 DEF Beside
    <3> QED BY <2>1, <3>5, <3>6
  <2>4. CASE Rest("worker") /\ UNCHANGED st
    <3>1. UNCHANGED st /\ \A c \in Convs : ~Handled(c)'
      BY <2>4
    <3>2. ASSUME NEW c \in Convs \ disturbed, NEW d \in Convs \ disturbed, c < d PROVE Beside(c, d)'
      <4>1. Beside(c, d)
        BY <3>2
      <4> HIDE DEF Handled
      <4> QED BY <2>1, <3>1, <4>1
    <3> QED BY <2>1, <3>1, <3>2
  <2> QED
    BY <1>20, <2>2, <2>3, <2>4, Received
<1>21. ASSUME NEW c \in Convs, Age(c) PROVE BesideInv'
  BY <1>21 DEF Age
<1>22. ASSUME NEW c \in Convs, ExpireSession(c) PROVE BesideInv'
  BY <1>22 DEF ExpireSession
<1>23. ASSUME NEW c \in Convs, ExpirePending(c) PROVE BesideInv'
  BY <1>23 DEF ExpirePending
<1>24. ASSUME NEW c \in Convs, CloseWindow(c) PROVE BesideInv'
  BY <1>24 DEF CloseWindow
<1>25. CASE UNCHANGED convVars
  BY <1>25 DEF convVars
<1> HIDE DEF BesideInv
<1> QED
  BY <1>1, <1>2, <1>3, <1>4, <1>5, <1>6, <1>7, <1>8, <1>9, <1>10, <1>11, <1>12, <1>13,
     <1>14, <1>15, <1>16, <1>17, <1>18, <1>19, <1>20, <1>21, <1>22, <1>23, <1>24, <1>25
     DEF ConvNext, WorkerStep, SweepStep

LEMMA BesideInit == ConvInit => BesideInv
  BY ConversationAssumption
  DEF ConvInit, BesideInv, InOrder, Beside, Handled, Open, Actors, Cur, Step, Job, Idle

(* Two conversations are open side by side only if both were asked.        *)
THEOREM BesideOnlyAsked == ConvSpec => []OpenBesideOnlyIfAsked
<1>1. BesideInv => OpenBesideOnlyIfAsked
  <2> SUFFICES ASSUME BesideInv, NEW c \in Convs \ disturbed, NEW d \in Convs \ disturbed,
                      c # d, Open(c), Open(d)
               PROVE  surveys[c] >= 1 /\ surveys[d] >= 1
    BY DEF OpenBesideOnlyIfAsked
  <2>1. c < d \/ d < c
    BY ConversationAssumption DEF Convs
  <2> QED
    BY <2>1 DEF BesideInv, Beside, Open
<1> QED
  BY TypeInit, TypeNext, RowsInit, RowsNext, FreshInit, FreshNext, AskedInit, AskedNext,
     BesideInit, BesideNext, <1>1, PTL DEF ConvSpec

-----------------------------------------------------------------------------
(* While nothing fails, a closed conversation with enough messages was     *)
(* asked, or the sweep is still closing it, or the worker is on the way to *)
(* reopen it with the message it has counted.                              *)
Reopening(c) ==
  /\ Cur("worker") = c
  /\ \/ Step("worker") \in {"store", "dispatch", "reply"}
     \/ Step("worker") \in {"transition", "update"} /\ Goal("worker") = "ai"

SurveyedInv ==
  \A c \in Convs \ disturbed :
    /\ faults = 0 /\ st[c] = "closed" /\ msgs[c] >= MinMessages
    /\ Cur("sweep") # c /\ ~Reopening(c)
    => surveys[c] >= 1

LEMMA SurveyedNext ==
  TypeInv /\ RowsInv /\ FreshInv /\ AskedInv /\ SurveyedInv /\ [ConvNext]_convVars => SurveyedInv'
<1> SUFFICES ASSUME TypeInv /\ RowsInv /\ FreshInv /\ AskedInv /\ SurveyedInv,
                    [ConvNext]_convVars
             PROVE SurveyedInv'
  OBVIOUS
<1> USE ConversationAssumption, StateNames
    DEF TypeInv, ConversationTypeOK, JobsOK, Counts, Jobs, Steps,
        WorkerSteps, SweepSteps, HandlerSteps, Actors, Step, Cur, Goal,
        Rest, Goto, Aim, Job, Idle, Fault, NoFault, UnchangedBut,
        rowVars, surveyVars, boundVars, WriteState, Touch,
        AfterTransition, AfterFailure, Expire,
        RowsInv, FreshInv, OneRelies, StillTrue, Writing, Closing, Relying, Overlaps,
        AskedInv, SurveyedInv, Reopening, SessionTrue
<1>1. ASSUME NEW a \in {"worker", "handler"}, GetState(a) PROVE SurveyedInv'
  BY <1>1 DEF GetState
<1>2. ASSUME NEW a \in {"worker", "handler"}, UpdateState(a) PROVE SurveyedInv'
  BY <1>2 DEF UpdateState
<1>3. ASSUME NEW a \in {"worker", "handler"}, CacheState(a) PROVE SurveyedInv'
  BY <1>3 DEF CacheState
<1>4. ASSUME StoreMessage PROVE SurveyedInv'
  BY <1>4 DEF StoreMessage
<1>5. ASSUME Dispatch PROVE SurveyedInv'
  BY <1>5 DEF Dispatch
<1>6. ASSUME Answer PROVE SurveyedInv'
  BY <1>6 DEF Answer
<1>7. ASSUME CheckReply PROVE SurveyedInv'
  BY <1>7 DEF CheckReply
<1>8. ASSUME Rate PROVE SurveyedInv'
  BY <1>8 DEF Rate
<1>9. ASSUME ForgetPending PROVE SurveyedInv'
  BY <1>9 DEF ForgetPending
<1>10. ASSUME NEW c \in Convs, TakeHandoff(c) PROVE SurveyedInv'
  BY <1>10 DEF TakeHandoff
<1>11. ASSUME HandOver PROVE SurveyedInv'
  BY <1>11 DEF HandOver
<1>12. ASSUME MarkHandoff PROVE SurveyedInv'
  BY <1>12 DEF MarkHandoff
<1>13. ASSUME Sweep PROVE SurveyedInv'
  BY <1>13 DEF Sweep
<1>14. ASSUME NEW c \in Convs, CloseIdle(c) PROVE SurveyedInv'
  BY <1>14 DEF CloseIdle
<1>15. ASSUME InvalidateSession PROVE SurveyedInv'
  BY <1>15 DEF InvalidateSession
<1>16. ASSUME ShouldSendSurvey PROVE SurveyedInv'
  BY <1>16 DEF ShouldSendSurvey
<1>17. ASSUME PublishSurvey PROVE SurveyedInv'
  BY <1>17 DEF PublishSurvey
<1>18. ASSUME RememberPending PROVE SurveyedInv'
  BY <1>18 DEF RememberPending
<1>19. ASSUME MarkSurveySent PROVE SurveyedInv'
  BY <1>19 DEF MarkSurveySent
<1>20. ASSUME Receive PROVE SurveyedInv'
  BY <1>20, Received DEF Reachable
<1>21. ASSUME NEW c \in Convs, Age(c) PROVE SurveyedInv'
  BY <1>21 DEF Age
<1>22. ASSUME NEW c \in Convs, ExpireSession(c) PROVE SurveyedInv'
  BY <1>22 DEF ExpireSession
<1>23. ASSUME NEW c \in Convs, ExpirePending(c) PROVE SurveyedInv'
  BY <1>23 DEF ExpirePending
<1>24. ASSUME NEW c \in Convs, CloseWindow(c) PROVE SurveyedInv'
  BY <1>24 DEF CloseWindow
<1>25. CASE UNCHANGED convVars
  BY <1>25 DEF convVars
<1> HIDE DEF SurveyedInv
<1> QED
  BY <1>1, <1>2, <1>3, <1>4, <1>5, <1>6, <1>7, <1>8, <1>9, <1>10, <1>11, <1>12, <1>13,
     <1>14, <1>15, <1>16, <1>17, <1>18, <1>19, <1>20, <1>21, <1>22, <1>23, <1>24, <1>25
     DEF ConvNext, WorkerStep, SweepStep

(* A conversation that closed without a fault was asked for a rating.      *)
THEOREM ClosedWereAsked == ConvSpec => []ClosedMeansAsked
<1>1. ConvInit => SurveyedInv
  BY DEF ConvInit, SurveyedInv
<1>2. TypeInv /\ SurveyedInv => ClosedMeansAsked
  BY DEF SurveyedInv, Reopening, ClosedMeansAsked
<1> QED
  BY TypeInit, TypeNext, RowsInit, RowsNext, FreshInit, FreshNext, AskedInit, AskedNext,
     SurveyedNext, <1>1, <1>2, PTL DEF ConvSpec

=============================================================================
