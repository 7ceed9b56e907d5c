--------------------------- MODULE InboundRouter ---------------------------
(***************************************************************************)
(* The router's consumption of the Redis stream unica:inbound: workers     *)
(* that share one consumer name, the pending entries list (PEL) and its    *)
(* drain at startup, the per-customer lock with a TTL, the store of the    *)
(* message with its per-month unique index, the reaction chosen from the   *)
(* conversation's state, and the acknowledgement.                          *)
(*                                                                         *)
(* One entry of the stream is known by the message it carries: two copies  *)
(* of a message have the same payload, so the stream and the PEL are bags  *)
(* of messages.  A conversation is its row and the session cached of it:   *)
(* TransitionState reads the session, writes the row and then the session, *)
(* under the lock in a worker and without it in the handoff handler, and   *)
(* the idle sweep closes the row and invalidates the session afterwards.   *)
(***************************************************************************)
EXTENDS Naturals, FiniteSets, Sequences

CONSTANTS
  Workers,      \* router goroutines
  Customers,    \* channel + platform user: what the lock is keyed by
  Messages,     \* platform messages
  Anonymous,    \* messages without a platform_msg_id
  Textless,     \* messages without text: an image, a sticker
  SenderOf,     \* [Messages -> Customers]
  Arrivals,     \* [Messages -> Nat]: times the gateway publishes each one
  Drainer,      \* the goroutine that runs Start's pending drain
  Free, Orphan, \* lock values: no token, the token of a dead or failed caller
  NoMessage,    \* a worker between messages
  MayBeSlow,    \* is there a model whose calls outlive the lock's TTL?
  MaxConvs,     \* bound: conversations of one customer
  MaxMonths,    \* bound: monthly partitions
  MaxFaults,    \* bound: failed Redis or database operations
  MaxCrashes    \* bound: process crashes

ASSUME WorkersAssumption == /\ Drainer \in Workers
                            /\ IsFiniteSet(Workers)
                            /\ Free \notin Workers /\ Orphan \notin Workers
                            /\ Free # Orphan
ASSUME MessagesAssumption == /\ SenderOf \in [Messages -> Customers]
                             /\ Arrivals \in [Messages -> Nat]
                             /\ Anonymous \subseteq Messages
                             /\ Textless \subseteq Messages
                             /\ NoMessage \notin Messages
ASSUME BoundsAssumption == /\ MaxConvs \in Nat /\ MaxMonths \in Nat
                           /\ MaxFaults \in Nat /\ MaxCrashes \in Nat
                           /\ MayBeSlow \in BOOLEAN

VARIABLES
  toPublish,  \* [Messages -> Nat]: publications the gateway has still to make
  stream,     \* bag: entries of unica:inbound not yet delivered to the group
  pel,        \* bag: delivered and not acknowledged
  toDrain,    \* bag: PEL entries the startup drain has not reached yet
  phase,      \* "draining" until Start has drained the PEL, then "running"
  pc,         \* [Workers -> Steps]: where processMessage is
  cur,        \* [Workers -> message in hand]
  lock,       \* [Customers -> Workers \cup {Free, Orphan}]: conv_lock:<customer>
  overrun,    \* workers whose lock expired while they were processing
  slow,       \* may the model call take longer than the lock's TTL?
  convs,      \* [Customers -> Seq(state)]: rows of conversations, oldest first
  conv,       \* [Workers -> Nat]: index of the conversation in hand
  session,    \* [Pairs -> state or "none"]: what Redis caches of a row
  sent,       \* conversations with survey_status "sent", inside the window
  handed,     \* conversations on unica:handoff the handler has not finished
  beside,     \* conversations in the hands of the sweep and of the handler, by step
  crossed,    \* history: conversations the sweep closed across a transition
  rows, inMonth, month, replies,  \* see ReplyLedger
  events,     \* bag: handoff events published on unica:handoff
  settled,    \* bag: acknowledgements of a message whose processing ended
  stranded,   \* bag: PEL entries nobody holds until the next restart
  faults, crashes

queueVars == <<toPublish, stream, pel, toDrain, phase, settled, stranded>>
tableVars == <<rows, inMonth, month>>
convRows  == <<convs, session, sent, handed, beside, crossed>>
convVars  == <<convRows, conv>>
lockVars  == <<lock, overrun, slow>>
outVars   == <<replies, events>>
vars == <<queueVars, tableVars, convVars, lockVars, outVars, pc, cur, faults, crashes>>

-----------------------------------------------------------------------------
(* machine.go: the states of a conversation.                               *)
States == {"pending", "ai_processing", "human_processing", "closed"}

CanTransitionTo(s, t) ==
  \/ s = "pending" /\ t \in {"ai_processing", "human_processing"}
  \/ s = "ai_processing" /\ t \in {"human_processing", "closed"}
  \/ s = "human_processing" /\ t = "closed"
  \/ s = "closed" /\ t = "ai_processing"

\* A customer and the index of one of its conversations.
Pairs == Customers \X (1 .. MaxConvs)

\* The idle sweep's steps after the row is closed, and the handoff handler's
\* after TransitionState has validated.
SweepSteps == {"invalidate", "survey"}
HandlerSteps == {"row", "session"}

\* What becomes of an answer; a worker delivering a decision is at that step.
Decisions == {"send", "send_and_handoff", "handoff"}

\* Steps taken with the lock held, and the later ones among them, which may
\* run after its TTL because they follow or contain a remote call.
ToAI == {"toAI", "rowAI", "sessionAI"}
ToHuman == {"toHuman", "rowHuman", "sessionHuman"}
LateSteps == Decisions \cup ToHuman \cup {"dify", "event", "forward", "ack", "release"}
LockedSteps == {"find", "create", "store", "state", "survey", "ask"} \cup ToAI \cup LateSteps
Steps == {"idle", "route", "drop", "lock", "requeue", "requeued"} \cup LockedSteps

Sender(w) == SenderOf[cur[w]]
Pair(w) == <<Sender(w), conv[w]>>
Row(p) == convs[p[1]][p[2]]
State(w) == Row(Pair(w))
SetRow(p, s) == convs' = [convs EXCEPT ![p[1]][p[2]] = s]

Inc(bag, m) == [bag EXCEPT ![m] = @ + 1]
Dec(bag, m) == [bag EXCEPT ![m] = @ - 1]
Empty == [m \in Messages |-> 0]

-----------------------------------------------------------------------------
Init ==
  /\ toPublish = Arrivals
  /\ stream = Empty /\ pel = Empty /\ toDrain = Empty
  /\ settled = Empty /\ stranded = Empty
  /\ phase = "draining"
  /\ pc = [w \in Workers |-> "idle"]
  /\ cur = [w \in Workers |-> NoMessage]
  /\ lock = [c \in Customers |-> Free]
  /\ overrun = {} /\ slow \in {FALSE, MayBeSlow}
  /\ convs = [c \in Customers |-> <<>>]
  /\ conv = [w \in Workers |-> 0]
  /\ session = [p \in Pairs |-> "none"]
  /\ sent = {} /\ handed = {} /\ crossed = {}
  /\ beside = [s \in SweepSteps \cup HandlerSteps |-> {}]
  /\ rows = Empty /\ inMonth = {} /\ month = 1
  /\ replies = Empty /\ events = Empty
  /\ faults = 0 /\ crashes = 0

Goto(w, step) == pc' = [pc EXCEPT ![w] = step]
Fault == faults < MaxFaults /\ faults' = faults + 1
NoFault == UNCHANGED faults
PutDown(w) == /\ cur' = [cur EXCEPT ![w] = NoMessage]
              /\ conv' = [conv EXCEPT ![w] = 0]

(* The gateway publishes a message: again, when the platform redelivers it *)
(* and the gateway's own Redis dedup misses it.                            *)
Publish(m) ==
  /\ toPublish[m] > 0
  /\ toPublish' = Dec(toPublish, m)
  /\ stream' = Inc(stream, m)
  /\ UNCHANGED <<pel, toDrain, phase, settled, stranded, tableVars, convVars,
                 lockVars, pc, cur, outVars, faults, crashes>>

-----------------------------------------------------------------------------
(* Start and readLoop.                                                     *)
DrainNext(m) ==
  /\ phase = "draining" /\ pc[Drainer] = "idle"
  /\ toDrain[m] > 0
  /\ toDrain' = Dec(toDrain, m)
  /\ cur' = [cur EXCEPT ![Drainer] = m]
  /\ Goto(Drainer, "route")
  /\ UNCHANGED <<toPublish, stream, pel, phase, settled, stranded, tableVars,
                 convVars, lockVars, outVars, faults, crashes>>

DrainDone ==
  /\ phase = "draining" /\ pc[Drainer] = "idle"
  /\ toDrain = Empty
  /\ phase' = "running"
  /\ UNCHANGED <<toPublish, stream, pel, toDrain, settled, stranded, tableVars,
                 convVars, lockVars, pc, cur, outVars, faults, crashes>>

\* A Redis error ends the drain: what it had not reached waits for a restart.
DrainFails ==
  /\ phase = "draining" /\ pc[Drainer] = "idle"
  /\ toDrain # Empty
  /\ Fault
  /\ phase' = "running"
  /\ stranded' = [m \in Messages |-> stranded[m] + toDrain[m]]
  /\ toDrain' = Empty
  /\ UNCHANGED <<toPublish, stream, pel, settled, tableVars, convVars, lockVars,
                 pc, cur, outVars, crashes>>

Read(w, m) ==
  /\ phase = "running" /\ pc[w] = "idle"
  /\ stream[m] > 0
  /\ stream' = Dec(stream, m)
  /\ pel' = Inc(pel, m)
  /\ cur' = [cur EXCEPT ![w] = m]
  /\ Goto(w, "route")
  /\ UNCHANGED <<toPublish, toDrain, phase, settled, stranded, tableVars,
                 convVars, lockVars, outVars, faults, crashes>>

\* XREADGROUP delivered the entry but its answer never arrived.
ReadLost(m) ==
  /\ phase = "running"
  /\ stream[m] > 0
  /\ Fault
  /\ stream' = Dec(stream, m)
  /\ pel' = Inc(pel, m)
  /\ stranded' = Inc(stranded, m)
  /\ UNCHANGED <<toPublish, toDrain, phase, settled, tableVars, convVars,
                 lockVars, pc, cur, outVars, crashes>>

-----------------------------------------------------------------------------
(* processMessage, up to the lock.                                         *)
Routed(w) ==
  /\ pc[w] = "route"
  /\ Goto(w, "lock")
  /\ UNCHANGED <<queueVars, tableVars, convVars, lockVars, cur, outVars, faults, crashes>>

\* No payload, a payload that does not parse, or no route for the channel.
Unroutable(w) ==
  /\ pc[w] = "route"
  /\ Fault
  /\ Goto(w, "drop")
  /\ UNCHANGED <<queueVars, tableVars, convVars, lockVars, cur, outVars, crashes>>

Acquire(w) ==
  /\ pc[w] = "lock"
  /\ lock[Sender(w)] = Free
  /\ lock' = [lock EXCEPT ![Sender(w)] = w]
  /\ Goto(w, "find")
  /\ UNCHANGED <<queueVars, tableVars, convVars, overrun, slow, cur, outVars, faults, crashes>>

\* The last SETNX before the deadline still found a token.
LockWaitExceeded(w) ==
  /\ pc[w] = "lock"
  /\ lock[Sender(w)] # Free
  /\ Goto(w, "requeue")
  /\ UNCHANGED <<queueVars, tableVars, convVars, lockVars, cur, outVars, faults, crashes>>

\* SETNX failed; it may have been applied, and then nobody knows the token.
LockError(w) ==
  /\ pc[w] = "lock"
  /\ Fault
  /\ \/ lock' = lock
     \/ lock[Sender(w)] = Free /\ lock' = [lock EXCEPT ![Sender(w)] = Orphan]
  /\ Goto(w, "requeue")
  /\ UNCHANGED <<queueVars, tableVars, convVars, overrun, slow, cur, outVars, crashes>>

\* Mutant: the entry is acknowledged without a copy.
RequeueNothing(w) ==
  /\ pc[w] = "requeue"
  /\ Goto(w, "requeued")
  /\ UNCHANGED <<queueVars, tableVars, convVars, lockVars, cur, outVars, faults, crashes>>

Requeue(w) ==
  /\ pc[w] = "requeue"
  /\ stream' = Inc(stream, cur[w])
  /\ Goto(w, "requeued")
  /\ UNCHANGED <<toPublish, pel, toDrain, phase, settled, stranded, tableVars,
                 convVars, lockVars, cur, outVars, faults, crashes>>

\* The failed XADD may still have been applied.
RequeueFails(w) ==
  /\ pc[w] = "requeue"
  /\ Fault
  /\ stream' \in {stream, Inc(stream, cur[w])}
  /\ stranded' = Inc(stranded, cur[w])
  /\ Goto(w, "idle") /\ PutDown(w)
  /\ UNCHANGED <<toPublish, pel, toDrain, phase, settled, tableVars,
                 convRows, lockVars, outVars, crashes>>

(* XACK of the entry in hand; when it fails the entry stays in the PEL.    *)
\* A requeued original: its copy is what still has to be processed.
AckRequeued(w) ==
  /\ pc[w] = "requeued"
  /\ \/ NoFault /\ pel' = Dec(pel, cur[w]) /\ UNCHANGED stranded
     \/ Fault /\ stranded' = Inc(stranded, cur[w]) /\ UNCHANGED pel
  /\ Goto(w, "idle") /\ PutDown(w)
  /\ UNCHANGED <<toPublish, stream, toDrain, phase, settled, tableVars, convRows,
                 lockVars, outVars, crashes>>

AckDropped(w) ==
  /\ pc[w] = "drop"
  /\ \/ /\ NoFault /\ pel' = Dec(pel, cur[w])
        /\ settled' = Inc(settled, cur[w]) /\ UNCHANGED stranded
     \/ Fault /\ stranded' = Inc(stranded, cur[w]) /\ UNCHANGED <<pel, settled>>
  /\ Goto(w, "idle") /\ PutDown(w)
  /\ UNCHANGED <<toPublish, stream, toDrain, phase, tableVars, convRows, lockVars, outVars, crashes>>

-----------------------------------------------------------------------------
(* HandleInboundMessage, under the lock.                                   *)

\* The newest conversation that is open or still waits for its rating.
Current(c) == {i \in DOMAIN convs[c] : convs[c][i] # "closed" \/ <<c, i>> \in sent}

FindConversation(w) ==
  /\ pc[w] = "find"
  /\ IF Current(Sender(w)) = {}
     THEN Goto(w, "create") /\ UNCHANGED conv
     ELSE /\ \E i \in Current(Sender(w)) :
               /\ \A j \in Current(Sender(w)) : j <= i
               /\ conv' = [conv EXCEPT ![w] = i]
          /\ Goto(w, "store")
  /\ UNCHANGED <<queueVars, tableVars, convRows, lockVars, cur, outVars,
                 faults, crashes>>

\* The row, and the session after it.
CreateConversation(w) ==
  /\ pc[w] = "create"
  /\ Len(convs[Sender(w)]) < MaxConvs
  /\ convs' = [convs EXCEPT ![Sender(w)] = Append(@, "pending")]
  /\ conv' = [conv EXCEPT ![w] = Len(convs[Sender(w)]) + 1]
  /\ \/ session' = [session EXCEPT ![<<Sender(w), conv'[w]>>] = "pending"] /\ NoFault
     \/ UNCHANGED session /\ Fault
  /\ Goto(w, "store")
  /\ UNCHANGED <<queueVars, tableVars, sent, handed, beside, crossed, lockVars, cur, outVars,
                 crashes>>

Stored(m) ==
  /\ rows' = Inc(rows, m)
  /\ inMonth' = inMonth \cup {m}
  /\ UNCHANGED month

\* INSERT ... ON CONFLICT DO NOTHING: the index covers one month's partition.
IsRedelivery(m) == m \notin Anonymous /\ m \in inMonth

\* Mutant: the duplicate result is ignored.
StoreIgnoringDuplicate(w) ==
  /\ pc[w] = "store"
  /\ IF IsRedelivery(cur[w]) THEN UNCHANGED tableVars ELSE Stored(cur[w])
  /\ Goto(w, "state")
  /\ UNCHANGED <<queueVars, convVars, lockVars, cur, outVars, faults, crashes>>

StoreMessage(w) ==
  /\ pc[w] = "store"
  /\ IF IsRedelivery(cur[w])
     THEN Goto(w, "ack") /\ UNCHANGED tableVars
     ELSE Goto(w, "state") /\ Stored(cur[w])
  /\ UNCHANGED <<queueVars, convVars, lockVars, cur, outVars, faults, crashes>>

\* A database error drops the message with an acknowledgement; the statement
\* that failed may have been committed.
DatabaseError(w) ==
  /\ pc[w] \in {"find", "create", "store", "state", "toAI", "toHuman"}
  /\ Fault
  /\ \/ UNCHANGED <<tableVars, convs>>
     \/ /\ pc[w] = "store" /\ ~IsRedelivery(cur[w])
        /\ Stored(cur[w]) /\ UNCHANGED convs
     \/ /\ pc[w] = "create" /\ Len(convs[Sender(w)]) < MaxConvs
        /\ convs' = [convs EXCEPT ![Sender(w)] = Append(@, "pending")]
        /\ UNCHANGED tableVars
  /\ Goto(w, "ack")
  /\ UNCHANGED <<queueVars, conv, session, sent, handed, beside, crossed, lockVars, cur, outVars,
                 crashes>>

-----------------------------------------------------------------------------
(* The reaction, by the state the database shows.                          *)
SwitchOnState(w) ==
  /\ pc[w] = "state"
  /\ \/ State(w) = "pending" /\ Goto(w, "toAI")
     \/ State(w) = "ai_processing" /\ Goto(w, "ask")
     \/ State(w) = "human_processing" /\ Goto(w, "forward")
     \/ State(w) = "closed" /\ Goto(w, "survey")
  /\ UNCHANGED <<queueVars, tableVars, convVars, lockVars, cur, outVars, faults, crashes>>

\* Publishing to unica:outbound; a failed XADD is only logged.
SendOrLog(w) == \/ NoFault /\ replies' = Inc(replies, cur[w])
                \/ Fault /\ UNCHANGED replies

\* HandleSurveyReply: a rating completes the survey and is thanked for,
\* anything else reopens the conversation.
SurveyReply(w) ==
  /\ pc[w] = "survey"
  /\ \/ /\ Pair(w) \in sent \cup beside["survey"] /\ cur[w] \notin Textless
        /\ sent' = sent \ {Pair(w)}
        /\ SendOrLog(w)
        /\ Goto(w, "ack")
     \/ UNCHANGED <<sent, replies>> /\ NoFault /\ Goto(w, "toAI")
  /\ UNCHANGED <<queueVars, tableVars, convs, session, handed, beside, crossed, conv, lockVars,
                 cur, events, crashes>>

(* TransitionState, in three steps: validate against the session or, when  *)
(* it is missing or cannot be read, the row; write the row; write the      *)
(* session.                                                                *)
View(p) == IF session[p] = "none" THEN Row(p) ELSE session[p]
MayMove(p, s) == \/ CanTransitionTo(View(p), s) /\ NoFault
                 \/ CanTransitionTo(Row(p), s) /\ Fault
Refused(p, s) == \/ ~CanTransitionTo(View(p), s) /\ NoFault
                 \/ ~CanTransitionTo(Row(p), s) /\ Fault

\* The session is read before the sweep, which has closed the row, invalidates it.
ReadsBehindSweep(p) == crossed' = crossed \cup ({p} \cap beside["invalidate"])

Goal(step) == IF step \in ToAI THEN "ai_processing" ELSE "human_processing"

\* A refused message is logged and acknowledged; so is one that was reacted to
\* and whose conversation stays with the AI.
TransitionState(w) ==
  /\ pc[w] \in {"toAI", "toHuman"}
  /\ \/ /\ MayMove(Pair(w), Goal(pc[w]))
        /\ Goto(w, IF pc[w] = "toAI" THEN "rowAI" ELSE "rowHuman")
     \/ Refused(Pair(w), Goal(pc[w])) /\ Goto(w, "ack")
  /\ ReadsBehindSweep(Pair(w))
  /\ UNCHANGED <<queueVars, tableVars, convs, session, sent, handed, beside, conv, lockVars, cur,
                 outVars, crashes>>

\* An update that failed may have been committed.
WriteRow(w) ==
  /\ pc[w] \in {"rowAI", "rowHuman"}
  /\ \/ /\ SetRow(Pair(w), Goal(pc[w])) /\ NoFault
        /\ Goto(w, IF pc[w] = "rowAI" THEN "sessionAI" ELSE "sessionHuman")
     \/ /\ UNCHANGED convs \/ SetRow(Pair(w), Goal(pc[w]))
        /\ Fault /\ Goto(w, "ack")
  /\ UNCHANGED <<queueVars, tableVars, session, sent, handed, beside, crossed, conv, lockVars, cur,
                 outVars, crashes>>

WriteSession(w) ==
  /\ pc[w] \in {"sessionAI", "sessionHuman"}
  /\ \/ session' = [session EXCEPT ![Pair(w)] = Goal(pc[w])] /\ NoFault
     \/ UNCHANGED session /\ Fault
  /\ Goto(w, IF pc[w] = "sessionAI" THEN "ask" ELSE "ack")
  /\ UNCHANGED <<queueVars, tableVars, convs, sent, handed, beside, crossed, conv, lockVars, cur,
                 outVars, crashes>>

\* callDifyAndPublish before the call: no text, a triage handoff, or the call.
Ask(w) ==
  /\ pc[w] = "ask"
  /\ IF cur[w] \in Textless
     THEN Goto(w, "ack")
     ELSE Goto(w, "handoff") \/ Goto(w, "dify")
  /\ UNCHANGED <<queueVars, tableVars, convVars, lockVars, cur, outVars, faults, crashes>>

\* The call returns: an error or an empty answer is a handoff too.
DifyReturns(w) ==
  /\ pc[w] = "dify"
  /\ \E decision \in Decisions : Goto(w, decision)
  /\ UNCHANGED <<queueVars, tableVars, convVars, lockVars, cur, outVars, faults, crashes>>

\* Mutant: an answer that escalates is followed by the holding message.
PublishBoth(w) ==
  /\ pc[w] \in Decisions
  /\ SendOrLog(w)
  /\ Goto(w, CASE pc[w] = "send" -> "ack"
               [] pc[w] = "send_and_handoff" -> "handoff"
               [] pc[w] = "handoff" -> "event")
  /\ UNCHANGED <<queueVars, tableVars, convVars, lockVars, cur, events, crashes>>

\* publishAIResponse or publishHoldingMessage.
PublishReply(w) ==
  /\ pc[w] \in Decisions
  /\ SendOrLog(w)
  /\ Goto(w, IF pc[w] = "send" THEN "ack" ELSE "event")
  /\ UNCHANGED <<queueVars, tableVars, convVars, lockVars, cur, events, crashes>>

PublishHandoffEvent(w) ==
  /\ pc[w] = "event"
  /\ \/ NoFault /\ events' = Inc(events, cur[w]) /\ handed' = handed \cup {Pair(w)}
     \/ Fault /\ UNCHANGED <<events, handed>>
  /\ Goto(w, "toHuman")
  /\ UNCHANGED <<queueVars, tableVars, convs, session, sent, beside, crossed, conv, lockVars, cur,
                 replies, crashes>>

\* ForwardToChatwoot: its error is only logged.
Forward(w) ==
  /\ pc[w] = "forward"
  /\ SendOrLog(w)
  /\ Goto(w, "ack")
  /\ UNCHANGED <<queueVars, tableVars, convVars, lockVars, cur, events, crashes>>

Ack(w) ==
  /\ pc[w] = "ack"
  /\ \/ /\ NoFault /\ pel' = Dec(pel, cur[w])
        /\ settled' = Inc(settled, cur[w]) /\ UNCHANGED stranded
     \/ Fault /\ stranded' = Inc(stranded, cur[w]) /\ UNCHANGED <<pel, settled>>
  /\ Goto(w, "release")
  /\ UNCHANGED <<toPublish, stream, toDrain, phase, tableVars, convVars,
                 lockVars, cur, outVars, crashes>>

\* Mutant: DEL without comparing the token.
ReleaseAnyToken(w) ==
  /\ pc[w] = "release"
  /\ lock' = [lock EXCEPT ![Sender(w)] = Free]
  /\ overrun' = overrun \ {w}
  /\ Goto(w, "idle") /\ PutDown(w)
  /\ UNCHANGED <<queueVars, tableVars, convRows, slow, outVars, faults, crashes>>

\* The deferred release deletes the key only if it still holds our token; a
\* failed script leaves the token behind.
Release(w) ==
  /\ pc[w] = "release"
  /\ IF lock[Sender(w)] = w
     THEN \/ NoFault /\ lock' = [lock EXCEPT ![Sender(w)] = Free]
          \/ Fault /\ lock' = [lock EXCEPT ![Sender(w)] = Orphan]
     ELSE NoFault /\ UNCHANGED lock
  /\ overrun' = overrun \ {w}
  /\ Goto(w, "idle") /\ PutDown(w)
  /\ UNCHANGED <<queueVars, tableVars, convRows, slow, outVars, crashes>>

-----------------------------------------------------------------------------
(* The surroundings: the lock's TTL, the idle sweep, the survey window,    *)
(* the calendar, and a crash with restart.                                 *)
\* Mutant: a lock without a TTL.
LockStays(c) == FALSE /\ UNCHANGED vars

LockExpires(c) ==
  /\ lock[c] # Free
  /\ \/ lock[c] = Orphan /\ UNCHANGED overrun
     \/ /\ slow
        /\ lock[c] \in Workers /\ pc[lock[c]] \in LateSteps
        /\ overrun' = overrun \cup {lock[c]}
  /\ lock' = [lock EXCEPT ![c] = Free]
  /\ UNCHANGED <<queueVars, tableVars, convVars, slow, pc, cur, outVars, faults, crashes>>

Transitioning == {"rowAI", "sessionAI", "rowHuman", "sessionHuman"}
InTransition(p) == \/ \E w \in Workers : pc[w] \in Transitioning /\ Pair(w) = p
                   \/ p \in beside["row"] \cup beside["session"]

\* closeIdleConversations updates a row it read as idle before, whatever happened
\* since.  An update that failed is passed over, even if it was committed.
IdleClose(p) ==
  /\ beside["invalidate"] = {} /\ beside["survey"] = {}
  /\ Row(p) \in {"ai_processing", "human_processing"}
  /\ Len(convs[p[1]]) < MaxConvs
  /\ SetRow(p, "closed")
  /\ \/ NoFault /\ beside' = [beside EXCEPT !["invalidate"] = @ \cup {p}]
     \/ Fault /\ UNCHANGED beside
  /\ crossed' = IF InTransition(p) THEN crossed \cup {p} ELSE crossed
  /\ UNCHANGED <<queueVars, tableVars, session, sent, handed, conv, lockVars, pc, cur, outVars,
                 crashes>>

\* Mutant: the idle closure leaves the session in Redis.
SessionKept(p) ==
  /\ p \in beside["invalidate"]
  /\ beside' = [beside EXCEPT !["invalidate"] = @ \ {p}, !["survey"] = @ \cup {p}]
  /\ UNCHANGED <<queueVars, tableVars, convs, session, sent, handed, crossed, conv, lockVars, pc,
                 cur, outVars, faults, crashes>>

InvalidateSession(p) ==
  /\ p \in beside["invalidate"]
  /\ \/ session' = [session EXCEPT ![p] = "none"] /\ NoFault
     \/ UNCHANGED session /\ Fault
  /\ beside' = [beside EXCEPT !["invalidate"] = @ \ {p}, !["survey"] = @ \cup {p}]
  /\ UNCHANGED <<queueVars, tableVars, convs, sent, handed, crossed, conv, lockVars, pc, cur,
                 outVars, crashes>>

\* fireOnClose: a survey is sent and marked, or is not due.
CloseCallback(p) ==
  /\ p \in beside["survey"]
  /\ sent' \in {sent, sent \cup {p}}
  /\ beside' = [beside EXCEPT !["survey"] = @ \ {p}]
  /\ UNCHANGED <<queueVars, tableVars, convs, session, handed, crossed, conv, lockVars, pc, cur,
                 outVars, faults, crashes>>

SurveyLapses(p) ==
  /\ p \in sent
  /\ sent' = sent \ {p}
  /\ UNCHANGED <<queueVars, tableVars, convs, session, handed, beside, crossed, conv, lockVars, pc,
                 cur, outVars, faults, crashes>>

SessionExpires(p) ==
  /\ session[p] # "none"
  /\ session' = [session EXCEPT ![p] = "none"]
  /\ UNCHANGED <<queueVars, tableVars, convs, sent, handed, beside, crossed, conv, lockVars, pc,
                 cur, outVars, faults, crashes>>

(* The handoff handler, as far as the row and the session are concerned:   *)
(* it takes an event, and then moves the conversation to a human unless it *)
(* found it there, or gave up before.  Its steps are those of a worker.    *)
HandlerFinishes(p) == handed' = handed \ {p}

HandlerTransition(p) ==
  /\ p \in handed /\ beside["row"] = {} /\ beside["session"] = {}
  /\ \/ MayMove(p, "human_processing") /\ beside' = [beside EXCEPT !["row"] = @ \cup {p}] /\ UNCHANGED handed
     \/ Refused(p, "human_processing") /\ HandlerFinishes(p) /\ UNCHANGED beside
     \/ NoFault /\ HandlerFinishes(p) /\ UNCHANGED beside
  /\ ReadsBehindSweep(p)
  /\ UNCHANGED <<queueVars, tableVars, convs, session, sent, conv, lockVars, pc, cur, outVars,
                 crashes>>

HandlerRow(p) ==
  /\ p \in beside["row"]
  /\ \/ /\ SetRow(p, "human_processing") /\ NoFault /\ UNCHANGED handed
        /\ beside' = [beside EXCEPT !["row"] = @ \ {p}, !["session"] = @ \cup {p}]
     \/ /\ UNCHANGED convs \/ SetRow(p, "human_processing")
        /\ Fault /\ HandlerFinishes(p) /\ beside' = [beside EXCEPT !["row"] = @ \ {p}]
  /\ UNCHANGED <<queueVars, tableVars, session, sent, crossed, conv, lockVars, pc, cur, outVars,
                 crashes>>

HandlerSession(p) ==
  /\ p \in beside["session"]
  /\ \/ session' = [session EXCEPT ![p] = "human_processing"] /\ NoFault
     \/ UNCHANGED session /\ Fault
  /\ HandlerFinishes(p) /\ beside' = [beside EXCEPT !["session"] = @ \ {p}]
  /\ UNCHANGED <<queueVars, tableVars, convs, sent, crossed, conv, lockVars, pc, cur, outVars,
                 crashes>>

NextMonth ==
  /\ month < MaxMonths
  /\ month' = month + 1
  /\ inMonth' = {}
  /\ UNCHANGED <<queueVars, rows, convVars, lockVars, pc, cur, outVars, faults, crashes>>

\* Mutant: a restart that reads only new entries.
CrashWithoutDrain ==
  /\ crashes < MaxCrashes
  /\ crashes' = crashes + 1
  /\ pc' = [w \in Workers |-> "idle"]
  /\ cur' = [w \in Workers |-> NoMessage]
  /\ conv' = [w \in Workers |-> 0]
  /\ lock' = [c \in Customers |-> IF lock[c] \in Workers THEN Orphan ELSE lock[c]]
  /\ overrun' = {}
  /\ phase' = "draining"
  /\ beside' = [s \in SweepSteps \cup HandlerSteps |-> {}]
  /\ UNCHANGED <<toPublish, stream, pel, toDrain, settled, stranded, tableVars,
                 convs, session, sent, handed, crossed, slow, outVars, faults>>

\* A crash loses every worker's place; the restart drains the whole PEL.
Crash ==
  /\ crashes < MaxCrashes
  /\ crashes' = crashes + 1
  /\ pc' = [w \in Workers |-> "idle"]
  /\ cur' = [w \in Workers |-> NoMessage]
  /\ conv' = [w \in Workers |-> 0]
  /\ lock' = [c \in Customers |-> IF lock[c] \in Workers THEN Orphan ELSE lock[c]]
  /\ overrun' = {}
  /\ phase' = "draining"
  /\ toDrain' = pel
  /\ stranded' = Empty
  /\ beside' = [s \in SweepSteps \cup HandlerSteps |-> {}]
  /\ UNCHANGED <<toPublish, stream, pel, settled, tableVars, convs, session, sent, handed, crossed,
                 slow, outVars, faults>>

-----------------------------------------------------------------------------
Process(w) ==
  \/ Routed(w) \/ Unroutable(w)
  \/ Acquire(w) \/ LockWaitExceeded(w) \/ LockError(w)
  \/ Requeue(w) \/ RequeueFails(w) \/ AckRequeued(w) \/ AckDropped(w)
  \/ FindConversation(w) \/ CreateConversation(w) \/ StoreMessage(w) \/ DatabaseError(w)
  \/ SwitchOnState(w) \/ SurveyReply(w)
  \/ TransitionState(w) \/ WriteRow(w) \/ WriteSession(w) \/ Ask(w) \/ DifyReturns(w)
  \/ PublishReply(w) \/ PublishHandoffEvent(w) \/ Forward(w) \/ Ack(w) \/ Release(w)

Consume == DrainDone \/ DrainFails \/ \E m \in Messages : DrainNext(m)

\* What works on a conversation beside the worker that has it in hand.
Beside(p) ==
  \/ IdleClose(p) \/ InvalidateSession(p) \/ CloseCallback(p)
  \/ SurveyLapses(p) \/ SessionExpires(p)
  \/ HandlerTransition(p) \/ HandlerRow(p) \/ HandlerSession(p)

Environment ==
  \/ NextMonth \/ Crash
  \/ \E m \in Messages : Publish(m) \/ ReadLost(m)
  \/ \E c \in Customers : LockExpires(c)
  \/ \E p \in Pairs : p[2] \in DOMAIN convs[p[1]] /\ Beside(p)

Receive(w) == \E m \in Messages : Read(w, m)

Next == Consume \/ Environment \/ \E w \in Workers : Process(w) \/ Receive(w)

Spec == Init /\ [][Next]_vars

\* Every goroutine runs when it can, and the key of a dead holder expires.
Fairness ==
  /\ WF_vars(Consume)
  /\ \A w \in Workers : WF_vars(Process(w)) /\ WF_vars(Receive(w))
  /\ \A c \in Customers : WF_vars(lock[c] = Orphan /\ LockExpires(c))

FairSpec == Spec /\ Fairness

-----------------------------------------------------------------------------
BagsOfMessages == [Messages -> Nat]

QueuesOK == /\ toPublish \in BagsOfMessages /\ stream \in BagsOfMessages
            /\ pel \in BagsOfMessages /\ toDrain \in BagsOfMessages
            /\ settled \in BagsOfMessages /\ stranded \in BagsOfMessages
            /\ phase \in {"draining", "running"}
ThreadsOK == /\ pc \in [Workers -> Steps]
             /\ cur \in [Workers -> Messages \cup {NoMessage}]
             /\ \A w \in Workers : pc[w] = "idle" <=> cur[w] = NoMessage
LocksOK == /\ lock \in [Customers -> Workers \cup {Free, Orphan}]
           /\ overrun \subseteq Workers /\ slow \in BOOLEAN
TablesOK == /\ rows \in BagsOfMessages /\ inMonth \subseteq Messages /\ month \in Nat
            /\ replies \in BagsOfMessages /\ events \in BagsOfMessages
ConvsOK == /\ convs \in [Customers -> Seq(States)] /\ conv \in [Workers -> Nat]
           /\ session \in [Pairs -> States \cup {"none"}]
           /\ sent \subseteq Pairs /\ handed \subseteq Pairs /\ crossed \subseteq Pairs
           /\ beside \in [SweepSteps \cup HandlerSteps -> SUBSET Pairs]
BoundsOK == faults \in 0..MaxFaults /\ crashes \in 0..MaxCrashes

(* Every variable holds a value of its type; the bags have no negative     *)
(* count (no entry is acknowledged twice); a worker is idle exactly when   *)
(* it has no message in hand.                                              *)
TypeOK == QueuesOK /\ ThreadsOK /\ LocksOK /\ TablesOK /\ ConvsOK /\ BoundsOK

(* lock.go:36 promises that one worker at a time processes a customer's    *)
(* messages.  It holds as long as nobody's lock expires under them: of two *)
(* workers inside the lock of one customer at least one overran its TTL.   *)
(* (The token check of the release is what keeps one overrun from freeing  *)
(* the lock of a third worker.)                                            *)
InsideLock(w) == pc[w] \in LockedSteps
ExclusiveUnlessOverrun ==
  \A v, w \in Workers :
    (v # w /\ InsideLock(v) /\ InsideLock(w) /\ Sender(v) = Sender(w))
      => v \in overrun \/ w \in overrun

(* The promise of lock.go itself, without the exception.                   *)
NeverTwoWorkers ==
  \A v, w \in Workers :
    (v # w /\ InsideLock(v) /\ InsideLock(w)) => Sender(v) # Sender(w)

(* The duplicate check of processMessage: however often a message with a   *)
(* platform id is delivered, requeued, drained or processed under an       *)
(* expired lock, the customer gets at most one reaction, and the agents    *)
(* one handoff event, per monthly partition begun so far.                  *)
AnsweredOncePerMonth ==
  \A m \in Messages \ Anonymous : replies[m] <= month /\ events[m] <= month

(* No entry the gateway published disappears: it is in the stream, pending *)
(* or acknowledged after processing, whatever crashes or Redis errors come *)
(* between the XADD of a requeue and the XACK of the original.             *)
NoDeliveryLost ==
  \A m \in Messages : Arrivals[m] - toPublish[m] <= stream[m] + pel[m] + settled[m]

(* While workers run, every pending entry has exactly one owner: a worker  *)
(* holding it, or nobody until the restart (the drain is the only recovery *)
(* there is).  An entry held twice would be acknowledged under its second  *)
(* holder's feet.                                                          *)
Held(m) == {w \in Workers : cur[w] = m /\ pc[w] # "release"}
PendingIsOwned ==
  \A m \in Messages :
    pel[m] = Cardinality(Held(m)) + stranded[m] + toDrain[m]

(* A message with text that was acknowledged has been reacted to, when no  *)
(* operation failed, nothing crashed and no lock expired: a redelivery is  *)
(* acknowledged as a duplicate only after the first delivery is through,   *)
(* and its worker is not refused the transition to the AI.  The exception  *)
(* is a customer of whom the sweep closed a conversation across a          *)
(* transition: a session read between the sweep's update and its           *)
(* invalidation, or written after it, names a state the row has left,      *)
(* TransitionState refuses, and processMessage only logs that.             *)
Crossed == {p[1] : p \in crossed}
AcknowledgedMeansAnswered ==
  (faults = 0 /\ crashes = 0 /\ ~slow) =>
    \A m \in Messages \ Textless : settled[m] > 0 => replies[m] > 0 \/ SenderOf[m] \in Crossed

(* Whatever fails, the stream is worked off in the end: no requeue loop    *)
(* runs for ever behind a lock, and only entries stranded by a failed      *)
(* acknowledgement or read stay pending.                                   *)
EverythingSettles == <>[](stream = Empty /\ pel = stranded)

(* The table and the reactions follow the abstract ledger.                 *)
Ledger == INSTANCE ReplyLedger
LedgerSpec == Ledger!Spec
=============================================================================
