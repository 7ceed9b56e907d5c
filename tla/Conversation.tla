---------------------------- MODULE Conversation ----------------------------
(***************************************************************************)
(* The conversations of one customer: the manager's inbound lookup and     *)
(* transitions over a PostgreSQL row and a Redis session, the idle sweep   *)
(* with its close callback, the satisfaction survey, and the part of the   *)
(* handoff handler that works on the row.                                  *)
(*                                                                         *)
(* Three goroutines interleave between their database and Redis calls: the *)
(* router's worker that holds the customer's lock, the sweep, and the      *)
(* handoff consumer.  A row is aged when nothing has written updated_at    *)
(* for the idle timeout.  Manager.TransitionState is never called with the *)
(* closed state: the sweep writes that one by itself.                      *)
(***************************************************************************)
EXTENDS Naturals, FiniteSets

CONSTANTS
  MaxConvs,     \* bound: conversations the customer may open
  MaxMessages,  \* bound: messages the customer sends
  MinMessages,  \* min_customer_messages of the survey settings
  MaxMishaps,   \* bound: failed database and Redis calls, expired keys and windows, together
  MaxHandoffs,  \* bound: handoff events
  NoConv

Convs == 1 .. MaxConvs
Actors == {"worker", "sweep", "handler"}

ASSUME ConversationAssumption ==
  /\ MaxConvs \in Nat /\ MaxMessages \in Nat /\ MinMessages \in Nat \ {0}
  /\ MaxMishaps \in Nat /\ MaxHandoffs \in Nat /\ NoConv \notin Convs

VARIABLES
  st, aged,     \* rows: state ("none": no row), updated_at past the idle timeout
  msgs,         \* rows of messages, inbound from the customer
  survey,       \* survey_status: "none", "sent", "completed"
  window,       \* conversations with survey_sent_at inside the survey window
  session,      \* cached state, or "none"
  pending,      \* conversations with a survey:pending key
  surveys,      \* surveys published for a conversation
  ratings,      \* scores written for a conversation
  handoffs,     \* handoff events published and not yet taken
  found,        \* rows the sweep has read and not yet handled: conv -> state
  job,          \* what each actor is doing: step, conversation, target, state it loaded
  received, faults, expired, escalated,
  disturbed     \* history: conversations with overlapping transitions or a lost session write

rowVars == <<st, aged, msgs>>
surveyVars == <<survey, window, pending, surveys, ratings>>
boundVars == <<received, faults, expired, escalated>>
convVars == <<rowVars, surveyVars, session, handoffs, found, job, boundVars, disturbed>>

Machine == INSTANCE ConversationMachine
States == Machine!States
Targets(s) == Machine!Targets(s)

Job(s, c, g, v) == [step |-> s, conv |-> c, goal |-> g, view |-> v]
Idle == Job("idle", NoConv, "none", "none")

ConvInit ==
  /\ st = [c \in Convs |-> "none"] /\ aged = {} /\ msgs = [c \in Convs |-> 0]
  /\ survey = [c \in Convs |-> "none"] /\ window = {} /\ pending = {}
  /\ surveys = [c \in Convs |-> 0] /\ ratings = [c \in Convs |-> 0]
  /\ session = [c \in Convs |-> "none"] /\ handoffs = {}
  /\ found = [c \in Convs |-> "none"]
  /\ job = [a \in Actors |-> Idle]
  /\ received = 0 /\ faults = 0 /\ expired = 0 /\ escalated = 0 /\ disturbed = {}

Step(a) == job[a].step
Cur(a) == job[a].conv
Rest(a) == job' = [job EXCEPT ![a] = Idle]
Goto(a, s) == IF s = "idle" THEN Rest(a)
              ELSE job' = [job EXCEPT ![a].step = s]
\* The caller's next steps are TransitionState with that target.
Aim(a, s) == job' = [job EXCEPT ![a] = Job("transition", Cur(a), s, "none")]
Fault == faults + expired < MaxMishaps /\ faults' = faults + 1
NoFault == UNCHANGED faults
UnchangedBut == UNCHANGED <<received, expired, escalated>>

\* Who relies on a state of c it read earlier, or has still to correct the session.
Relying(a, c) ==
  IF a = "sweep" THEN found[c] # "none" \/ (Cur(a) = c /\ Step(a) = "invalidate")
                 ELSE Cur(a) = c /\ Step(a) \in {"update", "cache"}

\* a begins to rely on c while another actor does.
Overlaps(a, c) == \E b \in Actors \ {a} : Relying(b, c)

\* UpdateConversationState: the row's state and updated_at.
WriteState(c, s) == st' = [st EXCEPT ![c] = s] /\ aged' = aged \ {c}
Touch(c) == aged' = aged \ {c}

-----------------------------------------------------------------------------
(* Manager.TransitionState, called by the worker and the handler.  The     *)
(* state after a failed GetSession is the row's.                           *)
Goal(a) == job[a].goal

AfterTransition(a) == IF a = "handler" THEN "mark" ELSE IF Goal(a) = "ai" THEN "answer" ELSE "idle"
\* The worker drops a message whose conversation it cannot move to the AI.
AfterFailure(a) == IF a = "handler" THEN "mark" ELSE "idle"

\* Mutant: the transition is not validated.
GetStateUnchecked(a) ==
  /\ Step(a) = "transition"
  /\ Goto(a, "update")
  /\ UNCHANGED <<rowVars, surveyVars, session, handoffs, found, boundVars, disturbed>>

GetState(a) ==
  /\ Step(a) = "transition"
  /\ \E read \in BOOLEAN :
       LET view == IF read /\ session[Cur(a)] # "none" THEN session[Cur(a)] ELSE st[Cur(a)] IN
       /\ IF read THEN NoFault ELSE Fault
       /\ IF Goal(a) \in Targets(view)
          THEN /\ Goto(a, "update")
               /\ disturbed' = disturbed \cup {c \in {Cur(a)} : Overlaps(a, c)}
          ELSE Goto(a, AfterFailure(a)) /\ UNCHANGED disturbed
  /\ UNCHANGED <<rowVars, surveyVars, session, handoffs, found>> /\ UnchangedBut

UpdateState(a) ==
  /\ Step(a) = "update"
  /\ \/ WriteState(Cur(a), Goal(a)) /\ Goto(a, "cache") /\ NoFault
     \/ Goto(a, AfterFailure(a)) /\ Fault /\ UNCHANGED <<st, aged>>
  /\ UNCHANGED <<msgs, surveyVars, session, handoffs, found, disturbed>> /\ UnchangedBut

CacheState(a) ==
  /\ Step(a) = "cache"
  /\ Goto(a, AfterTransition(a))
  /\ \/ session' = [session EXCEPT ![Cur(a)] = Goal(a)] /\ NoFault /\ UNCHANGED disturbed
     \/ Fault /\ disturbed' = disturbed \cup {Cur(a)} /\ UNCHANGED session
  /\ UNCHANGED <<rowVars, surveyVars, handoffs, found>> /\ UnchangedBut

-----------------------------------------------------------------------------
(* The worker: HandleInboundMessage, then the switch on the state.         *)

\* GetConversationByCustomer.
Reachable(c) == \/ st[c] \in States \ {"closed"}
                \/ st[c] = "closed" /\ survey[c] = "sent" /\ c \in window
\* Mutant: only active conversations are looked up, as before the window existed.
ReachableActive(c) == st[c] \in States \ {"closed"}
\* Mutant: ORDER BY created_at without DESC.
Oldest(S) == CHOOSE c \in S : \A d \in S : c <= d

Newest(S) == CHOOSE c \in S : \A d \in S : d <= c

\* The lookup, and on "no rows" a new row and its session.
Receive ==
  /\ Step("worker") = "idle" /\ received < MaxMessages
  /\ received' = received + 1
  /\ LET S == {c \in Convs : Reachable(c)}
         new == {c \in Convs : st[c] = "none" /\ \A d \in Convs : d < c => st[d] # "none"}
         For(c) == job' = [job EXCEPT !["worker"] = Job("store", c, "none", "none")]
     IN \/ /\ S # {} /\ For(Newest(S)) /\ NoFault /\ UNCHANGED <<st, session>>
        \/ /\ S = {}
           /\ \E c \in new : /\ For(c) /\ st' = [st EXCEPT ![c] = "pending"]
                             /\ \/ session' = [session EXCEPT ![c] = "pending"] /\ NoFault
                                \/ UNCHANGED session /\ Fault
        \/ Rest("worker") /\ Fault /\ UNCHANGED <<st, session>>
  /\ UNCHANGED <<aged, msgs, surveyVars, handoffs, found, expired, escalated, disturbed>>

\* The row of the message leaves updated_at of the conversation alone.
StoreMessage ==
  LET c == Cur("worker") IN
  /\ Step("worker") = "store"
  /\ \/ msgs' = [msgs EXCEPT ![c] = @ + 1] /\ Goto("worker", "dispatch") /\ NoFault
     \/ UNCHANGED msgs /\ Rest("worker") /\ Fault
  /\ UNCHANGED <<st, aged, surveyVars, session, handoffs, found, disturbed>> /\ UnchangedBut

Dispatch ==
  /\ Step("worker") = "dispatch"
  /\ \/ st[Cur("worker")] = "pending" /\ Aim("worker", "ai")
     \/ st[Cur("worker")] = "ai" /\ Goto("worker", "answer")
     \/ st[Cur("worker")] = "human" /\ Rest("worker")
     \/ st[Cur("worker")] = "closed" /\ Goto("worker", "reply")
  /\ UNCHANGED <<rowVars, surveyVars, session, handoffs, found, boundVars, disturbed>>

\* callDifyAndPublish: the answer went out, or a handoff event was published.
Answer ==
  /\ Step("worker") = "answer"
  /\ \/ Rest("worker") /\ NoFault /\ UNCHANGED <<handoffs, aged, escalated>>
     \/ /\ Aim("worker", "human")
        /\ UNCHANGED aged
        /\ escalated < MaxHandoffs
        /\ \/ handoffs' = handoffs \cup {Cur("worker")} /\ escalated' = escalated + 1 /\ NoFault
           \/ UNCHANGED <<handoffs, escalated>> /\ Fault
     \/ /\ job' = job /\ NoFault /\ UNCHANGED <<handoffs, escalated>>   \* metadata merged on the way
        /\ Cur("worker") \in aged /\ Touch(Cur("worker"))
  /\ UNCHANGED <<st, msgs, surveyVars, session, found, disturbed, received, expired>>

-----------------------------------------------------------------------------
(* HandleSurveyReply, on a closed conversation.                            *)
CheckReply ==
  /\ Step("worker") = "reply"
  /\ \/ Cur("worker") \in pending /\ Goto("worker", "rate") /\ NoFault
     \/ Aim("worker", "ai") /\ NoFault    \* no key, or the text is not a rating
     \/ Aim("worker", "ai") /\ Fault
  /\ UNCHANGED <<rowVars, surveyVars, session, handoffs, found, disturbed>> /\ UnchangedBut

Rate ==
  LET c == Cur("worker") IN
  /\ Step("worker") = "rate"
  /\ \/ /\ survey' = [survey EXCEPT ![c] = "completed"]
        /\ ratings' = [ratings EXCEPT ![c] = @ + 1]
        /\ Touch(c) /\ Goto("worker", "forget") /\ NoFault
     \/ UNCHANGED <<survey, ratings, aged>> /\ Aim("worker", "ai") /\ Fault
  /\ UNCHANGED <<st, msgs, window, pending, surveys, session, handoffs, found, disturbed>> /\ UnchangedBut

\* Mutant: the pending key stays.
KeepPending == /\ Step("worker") = "forget" /\ Rest("worker")
               /\ UNCHANGED <<rowVars, surveyVars, session, handoffs, found, boundVars, disturbed>>

\* The pending key is deleted; the thank-you message follows.
ForgetPending ==
  /\ Step("worker") = "forget"
  /\ Rest("worker")
  /\ \/ pending' = pending \ {Cur("worker")} /\ NoFault
     \/ UNCHANGED pending /\ Fault
  /\ UNCHANGED <<rowVars, survey, window, surveys, ratings, session, handoffs, found, disturbed>> /\ UnchangedBut

-----------------------------------------------------------------------------
(* closeIdleConversations and the close callback.                          *)

\* Mutant: the sweep asks for conversations with the AI only.
SweepAI ==
  /\ Step("sweep") = "idle" /\ \A c \in Convs : found[c] = "none"
  /\ \E c \in aged : st[c] = "ai"
  /\ found' = [c \in Convs |-> IF c \in aged /\ st[c] = "ai" THEN "ai" ELSE "none"]
  /\ disturbed' = disturbed \cup {c \in aged : st[c] = "ai" /\ Overlaps("sweep", c)}
  /\ UNCHANGED <<rowVars, surveyVars, session, handoffs, job, boundVars>>

\* GetIdleConversations.
Sweep ==
  /\ Step("sweep") = "idle" /\ \A c \in Convs : found[c] = "none"
  /\ \E c \in aged : st[c] # "closed"
  /\ found' = [c \in Convs |-> IF c \in aged /\ st[c] # "closed" THEN st[c] ELSE "none"]
  /\ disturbed' = disturbed \cup {c \in aged : st[c] # "closed" /\ Overlaps("sweep", c)}
  /\ UNCHANGED <<rowVars, surveyVars, session, handoffs, job, boundVars>>

CloseIdle(c) ==
  /\ Step("sweep") = "idle" /\ found[c] # "none"
  /\ found' = [found EXCEPT ![c] = "none"]
  /\ IF "closed" \in Targets(found[c])
     THEN \/ /\ WriteState(c, "closed") /\ NoFault
             /\ job' = [job EXCEPT !["sweep"] = Job("invalidate", c, "none", "none")]
          \/ UNCHANGED <<st, aged, job>> /\ Fault
     ELSE UNCHANGED <<st, aged, job, faults>>
  /\ UNCHANGED <<msgs, surveyVars, session, handoffs, disturbed>> /\ UnchangedBut

\* Mutant: the idle closure ends here, without the close callback.
InvalidateAndStop ==
  /\ Step("sweep") = "invalidate"
  /\ session' = [session EXCEPT ![Cur("sweep")] = "none"]
  /\ Rest("sweep")
  /\ UNCHANGED <<rowVars, surveyVars, handoffs, found, boundVars, disturbed>>

\* Mutant: the idle closure leaves the session in Redis.
KeepSession ==
  /\ Step("sweep") = "invalidate" /\ Goto("sweep", "onclose")
  /\ UNCHANGED <<rowVars, surveyVars, session, handoffs, found, boundVars, disturbed>>

InvalidateSession ==
  /\ Step("sweep") = "invalidate"
  /\ Goto("sweep", "onclose")
  /\ \/ session' = [session EXCEPT ![Cur("sweep")] = "none"] /\ NoFault /\ UNCHANGED disturbed
     \/ Fault /\ disturbed' = disturbed \cup {Cur("sweep")} /\ UNCHANGED session
  /\ UNCHANGED <<rowVars, surveyVars, handoffs, found>> /\ UnchangedBut

\* ShouldSendSurvey, on a line that has the survey enabled.
ShouldSendSurvey ==
  LET c == Cur("sweep") IN
  /\ Step("sweep") = "onclose"
  /\ \/ /\ NoFault
        /\ IF c \notin pending /\ msgs[c] >= MinMessages THEN Goto("sweep", "publish") ELSE Rest("sweep")
     \/ Rest("sweep") /\ Fault
  /\ UNCHANGED <<rowVars, surveyVars, session, handoffs, found, disturbed>> /\ UnchangedBut

PublishSurvey ==
  /\ Step("sweep") = "publish"
  /\ \/ surveys' = [surveys EXCEPT ![Cur("sweep")] = @ + 1] /\ Goto("sweep", "remember") /\ NoFault
     \/ UNCHANGED surveys /\ Rest("sweep") /\ Fault
  /\ UNCHANGED <<rowVars, survey, window, pending, ratings, session, handoffs, found, disturbed>> /\ UnchangedBut

RememberPending ==
  /\ Step("sweep") = "remember"
  /\ Goto("sweep", "status")
  /\ \/ pending' = pending \cup {Cur("sweep")} /\ NoFault
     \/ UNCHANGED pending /\ Fault
  /\ UNCHANGED <<rowVars, survey, window, surveys, ratings, session, handoffs, found, disturbed>> /\ UnchangedBut

MarkSurveySent ==
  LET c == Cur("sweep") IN
  /\ Step("sweep") = "status"
  /\ Rest("sweep")
  /\ \/ /\ survey' = [survey EXCEPT ![c] = "sent"] /\ window' = window \cup {c}
        /\ Touch(c) /\ NoFault
     \/ UNCHANGED <<survey, window, aged>> /\ Fault
  /\ UNCHANGED <<st, msgs, pending, surveys, ratings, session, handoffs, found, disturbed>> /\ UnchangedBut

-----------------------------------------------------------------------------
(* HandoffHandler.Handle, as far as the row is concerned: the state is     *)
(* loaded before the summary and the calls to Chatwoot, and used after.    *)
TakeHandoff(c) ==
  /\ Step("handler") = "idle" /\ c \in handoffs
  /\ handoffs' = handoffs \ {c}
  /\ \/ job' = [job EXCEPT !["handler"] = Job("chatwoot", c, "none", st[c])] /\ NoFault
     \/ UNCHANGED job /\ Fault
  /\ UNCHANGED <<rowVars, surveyVars, session, found, disturbed>> /\ UnchangedBut

\* The contact, the conversation, the agent, the history, the intent summary.
HandOver ==
  /\ Step("handler") = "chatwoot"
  /\ \/ /\ IF job["handler"].view # "human" THEN Aim("handler", "human") ELSE Goto("handler", "mark")
        /\ Touch(Cur("handler")) /\ NoFault
     \/ Rest("handler") /\ Fault /\ UNCHANGED aged
  /\ UNCHANGED <<st, msgs, surveyVars, session, handoffs, found, disturbed>> /\ UnchangedBut

MarkHandoff ==
  /\ Step("handler") = "mark"
  /\ Touch(Cur("handler")) /\ Rest("handler")
  /\ UNCHANGED <<st, msgs, surveyVars, session, handoffs, found, boundVars, disturbed>>

-----------------------------------------------------------------------------
(* Time.                                                                   *)
Age(c) == /\ st[c] \notin {"none", "closed"} /\ c \notin aged
          /\ aged' = aged \cup {c}
          /\ UNCHANGED <<st, msgs, surveyVars, session, handoffs, found, job, boundVars, disturbed>>

Expire == faults + expired < MaxMishaps /\ expired' = expired + 1

ExpireSession(c) == /\ session[c] # "none" /\ Expire
                    /\ session' = [session EXCEPT ![c] = "none"]
                    /\ UNCHANGED <<rowVars, surveyVars, handoffs, found, job, received, faults, escalated, disturbed>>

\* The key's life starts before survey_sent_at, and both use one period; an
\* administrator may change or disable it while a survey is out.
ExpirePending(c) == /\ c \in pending /\ Expire
                    /\ pending' = pending \ {c}
                    /\ UNCHANGED <<rowVars, survey, window, surveys, ratings, session, handoffs,
                                   found, job, received, faults, escalated, disturbed>>

CloseWindow(c) == /\ c \in window /\ Expire
                  /\ window' = window \ {c}
                  /\ UNCHANGED <<rowVars, survey, pending, surveys, ratings, session, handoffs,
                                 found, job, received, faults, escalated, disturbed>>

WorkerStep ==
  \/ \E a \in {"worker", "handler"} : GetState(a) \/ UpdateState(a) \/ CacheState(a)
  \/ StoreMessage \/ Dispatch \/ Answer
  \/ CheckReply \/ Rate \/ ForgetPending
  \/ (\E c \in Convs : TakeHandoff(c)) \/ HandOver \/ MarkHandoff
SweepStep ==
  \/ Sweep \/ (\E c \in Convs : CloseIdle(c)) \/ InvalidateSession
  \/ ShouldSendSurvey \/ PublishSurvey \/ RememberPending \/ MarkSurveySent

ConvNext ==
  \/ Receive
  \/ WorkerStep \/ SweepStep
  \/ \E c \in Convs : Age(c) \/ ExpireSession(c) \/ ExpirePending(c) \/ CloseWindow(c)

ConvSpec == ConvInit /\ [][ConvNext]_convVars
\* The sweep is a goroutine on a ticker: it takes its next step eventually.
ConvFairSpec == ConvSpec /\ WF_convVars(SweepStep)

-----------------------------------------------------------------------------
\* Type invariant: states, counters and what each goroutine works on.
ConversationTypeOK ==
  /\ st \in [Convs -> States \cup {"none"}] /\ session \in [Convs -> States \cup {"none"}]
  /\ found \in [Convs -> States \cup {"none"}]
  /\ aged \subseteq Convs /\ window \subseteq Convs /\ pending \subseteq Convs
  /\ handoffs \subseteq Convs /\ disturbed \subseteq Convs
  /\ survey \in [Convs -> {"none", "sent", "completed"}]
  /\ \A f \in {msgs, surveys, ratings} : f \in [Convs -> Nat]
  /\ \A a \in Actors : Cur(a) \in Convs \cup {NoConv} /\ (Step(a) # "idle" => Cur(a) \in Convs)

\* The stored state keeps to the table of transitions (machine.go) unless a
\* writer worked with a state that had changed under it: the only ways to leave
\* the table are two goroutines overlapping on one conversation and a session
\* write that failed.
MachineSpec == Machine!MachineSpec

\* A cached session says what the row says, except while somebody is between
\* its write of the row and its write of the session, or once such a pair
\* overlapped or failed half-way (manager.go: TransitionState, the idle sweep).
SessionFresh ==
  \A c \in Convs : \/ c \in disturbed \/ session[c] \in {"none", st[c]}
                   \/ \E a \in Actors : Relying(a, c)

Open(c) == st[c] \notin {"none", "closed"}

\* Two conversations of a customer are open side by side only if both were
\* closed before and asked for a rating, so that each could be reopened: a new
\* one is never opened beside an open one, nor an unasked one taken up again
\* beside another (GetConversationByCustomer).
OpenBesideOnlyIfAsked ==
  \A c, d \in Convs \ disturbed :
    c # d /\ Open(c) /\ Open(d) => surveys[c] >= 1 /\ surveys[d] >= 1

\* A customer with an open conversation has no other (STORY-016: existing active
\* conversations are continued).  The code opens a second one: while the survey
\* of the newer conversation is on its way the older one is reopened, and once
\* the survey is marked the newer one is found first, closed as it is.
OneOpenConversation ==
  disturbed # {} \/ \A c, d \in Convs : Open(c) /\ Open(d) => c = d

\* A survey is answered at most once: a later number is a message, not a
\* second score (HandleSurveyReply), save for a pending key that could not be
\* deleted.
RatedOncePerSurvey == \A c \in Convs : ratings[c] <= surveys[c] + faults

\* When nothing fails, a closed conversation with enough messages was asked for
\* a rating: the idle sweep, which is the only way to close, calls the survey,
\* and a message it did not count reopens the conversation.  Where transitions
\* overlapped, the session may say human and keep that message from reopening.
ClosedMeansAsked ==
  \A c \in Convs \ disturbed :
    /\ st[c] = "closed" /\ faults = 0 /\ msgs[c] >= MinMessages
    /\ Cur("sweep") # c /\ Cur("worker") # c
    => surveys[c] >= 1

\* A conversation nobody touches any more is closed in the end, whether the AI
\* or an agent holds it (the sweep's ticker is the only fairness assumed).
IdleIsClosed ==
  \A c \in Convs : (st[c] \in {"ai", "human"} /\ c \in aged) ~> (st[c] = "closed" \/ c \notin aged)
=============================================================================
