------------------------------ MODULE Handoff ------------------------------
(***************************************************************************)
(* One conversation on its way to a human agent: the handoff stream and    *)
(* its consumer, the hand-over to Chatwoot, and the forwarder of later     *)
(* messages.                                                               *)
(*                                                                         *)
(* Two goroutines of the router interleave between their calls: the handoff*)
(* consumer and the worker that forwards.  A crash stops both.  Messages   *)
(* are numbered by created_at; the AI's share the table with the           *)
(* customer's, and the history shows both.                                 *)
(***************************************************************************)
EXTENDS Naturals, Sequences, FiniteSets

CONSTANTS
  Limit,           \* maxHistoryMessages
  MaxHistory,      \* bound: messages of the conversation
  MaxEvents,       \* bound: handoff events
  MaxHandMishaps,  \* bound: calls that fail and keys that expire, together
  MaxHandCrashes   \* bound: crashes of the router

ASSUME HandoffAssumption ==
  /\ Limit \in Nat \ {0} /\ MaxHistory \in Nat \ {0} /\ MaxEvents \in Nat
  /\ MaxHandMishaps \in Nat /\ MaxHandCrashes \in Nat

VARIABLES
  history,      \* number of stored messages
  human,        \* the row is in human_processing
  hstream, hpel, hacked,  \* events: unread, delivered and not acknowledged, acknowledged
  reading,      \* the consumer reads "pending" entries or "new" ones
  hbatch,       \* entries of its last read
  hand,         \* the handler: step, state it loaded, Chatwoot conversation, messages to send, last sent
  forward,      \* the forwarder: step, message, Chatwoot conversation
  toCw, fromCw, \* unica_conv_cw and cw_conv keys: 0 or the conversation; known conversations
  opened,       \* Chatwoot conversations created
  synced,       \* how often the history sync sent a message
  skipped,      \* messages whose sending by the sync failed
  watermark,
  mishaps, handCrashes,
  raced         \* history: handler and forwarder looked for the mapping at the same time

queueVars == <<hstream, hpel, hacked, reading, hbatch>>
mapVars == <<toCw, fromCw, opened, raced>>
syncVars == <<synced, skipped, watermark>>
handVars == <<history, human, queueVars, hand, forward, mapVars, syncVars, mishaps, handCrashes>>

HandIdle == [step |-> "idle", view |-> FALSE, cw |-> 0, send |-> <<>>, last |-> 0]
ForwardIdle == [step |-> "idle", cw |-> 0]

HandInit ==
  /\ history = 1 /\ human = FALSE
  /\ hstream = <<>> /\ hpel = <<>> /\ hacked = {} /\ reading = "pending" /\ hbatch = <<>>
  /\ hand = HandIdle /\ forward = ForwardIdle
  /\ toCw = 0 /\ fromCw = {} /\ opened = 0 /\ raced = FALSE
  /\ synced = [m \in 1 .. MaxHistory |-> 0] /\ skipped = {} /\ watermark = 0
  /\ mishaps = 0 /\ handCrashes = 0

Mishap == mishaps < MaxHandMishaps /\ mishaps' = mishaps + 1
NoMishap == UNCHANGED mishaps
Goes(s) == hand' = [hand EXCEPT !.step = s]

-----------------------------------------------------------------------------
(* The router's worker.                                                    *)
Events == Len(hstream) + Len(hpel) + Cardinality(hacked)

\* publishHandoffEvent, then TransitionState; either may fail and is logged.
Escalate ==
  /\ ~human /\ forward.step = "idle" /\ Events < MaxEvents
  /\ \/ hstream' = Append(hstream, Events + 1) /\ human' = TRUE /\ NoMishap
     \/ hstream' = Append(hstream, Events + 1) /\ UNCHANGED human /\ Mishap
     \/ UNCHANGED hstream /\ human' = TRUE /\ Mishap
  /\ UNCHANGED <<history, hpel, hacked, reading, hbatch, hand, forward, mapVars, syncVars, handCrashes>>

\* A message is stored: the customer's, or the AI's answer to it.  In
\* human_processing the worker goes on to ForwardToChatwoot.
StoreHistory ==
  /\ history < MaxHistory /\ forward.step = "idle"
  /\ history' = history + 1
  /\ forward' = IF human THEN [step |-> "lookup", cw |-> 0] ELSE forward
  /\ UNCHANGED <<human, queueVars, hand, mapVars, syncVars, mishaps, handCrashes>>

\* Closed by the sweep and reopened by the customer, or the AI again.
BackToAI ==
  /\ human /\ forward.step = "idle" /\ human' = FALSE
  /\ UNCHANGED <<history, queueVars, hand, forward, mapVars, syncVars, mishaps, handCrashes>>

-----------------------------------------------------------------------------
(* findOrCreateCWConversation, of the handler and of the forwarder: a GET, *)
(* Chatwoot's answer, and a pipeline of two SETs.                          *)
Looking(step) == step \in {"create", "keep"}

\* Mutant: the other key is written only.
SetReverseKey(cw) == fromCw' = fromCw \cup {cw} /\ UNCHANGED toCw

SetKeys(cw) == toCw' = cw /\ fromCw' = fromCw \cup {cw}

\* Both keys, one of them, or none.
KeepMapping(cw) == \/ SetKeys(cw) /\ NoMishap
                   \/ UNCHANGED <<toCw, fromCw>> /\ Mishap
                   \/ toCw' = cw /\ UNCHANGED fromCw /\ Mishap

\* Configuration, contact and lookup; an unreadable key counts as absent.
ForwardLookup ==
  /\ forward.step = "lookup"
  /\ \/ toCw # 0 /\ forward' = [step |-> "send", cw |-> toCw] /\ NoMishap /\ UNCHANGED raced
     \/ /\ \/ toCw = 0 /\ NoMishap
           \/ toCw # 0 /\ Mishap
        /\ forward' = [step |-> "create", cw |-> 0]
        /\ raced' = (raced \/ Looking(hand.step))
     \/ forward' = ForwardIdle /\ Mishap /\ UNCHANGED raced
  /\ UNCHANGED <<history, human, queueVars, hand, toCw, fromCw, opened, syncVars, handCrashes>>

ForwardCreate ==
  /\ forward.step = "create"
  /\ \/ opened' = opened + 1 /\ forward' = [step |-> "keep", cw |-> opened + 1] /\ NoMishap
     \/ UNCHANGED opened /\ forward' = ForwardIdle /\ Mishap
  /\ UNCHANGED <<history, human, queueVars, hand, toCw, fromCw, raced, syncVars, handCrashes>>

ForwardKeep ==
  /\ forward.step = "keep"
  /\ forward' = [forward EXCEPT !.step = "send"]
  /\ KeepMapping(forward.cw)
  /\ UNCHANGED <<history, human, queueVars, hand, opened, raced, syncVars, handCrashes>>

\* SendMessage; the worker acknowledges the message whether it failed or not.
ForwardSend ==
  /\ forward.step = "send"
  /\ forward' = ForwardIdle
  /\ NoMishap \/ Mishap
  /\ UNCHANGED <<history, human, queueVars, hand, mapVars, syncVars, handCrashes>>

-----------------------------------------------------------------------------
(* HandoffConsumer.                                                        *)
Resting == hand.step = "idle" /\ hbatch = <<>>

\* XREADGROUP 0, again and again until the pending list is empty; an error ends it.
ProcessPending ==
  /\ Resting /\ reading = "pending"
  /\ \/ hpel # <<>> /\ hbatch' = hpel /\ UNCHANGED reading /\ NoMishap
     \/ hpel = <<>> /\ reading' = "new" /\ UNCHANGED hbatch /\ NoMishap
     \/ hpel # <<>> /\ reading' = "new" /\ UNCHANGED hbatch /\ Mishap
  /\ UNCHANGED <<history, human, hstream, hpel, hacked, hand, forward, mapVars, syncVars, handCrashes>>

ConsumeLoop ==
  /\ Resting /\ reading = "new" /\ hstream # <<>>
  /\ hbatch' = hstream /\ hpel' = hpel \o hstream /\ hstream' = <<>>
  /\ UNCHANGED <<history, human, hacked, reading, hand, forward, mapVars, syncVars, mishaps, handCrashes>>

\* Mutant: the entry is acknowledged before it is handled.
AckFirst ==
  /\ hand.step = "idle" /\ hbatch # <<>> /\ Head(hbatch) \notin hacked
  /\ hand' = [HandIdle EXCEPT !.step = "lookup", !.view = human]
  /\ hacked' = hacked \cup {Head(hbatch)} /\ hpel' = SelectSeq(hpel, LAMBDA e : e # Head(hbatch))
  /\ UNCHANGED <<history, human, hstream, reading, hbatch, forward, mapVars, syncVars, mishaps, handCrashes>>

\* Handle begins: the conversation as it is now, its messages, the summary,
\* the configuration and the contact.  Any of them may fail.
ProcessEntry ==
  /\ hand.step = "idle" /\ hbatch # <<>>
  /\ \/ hand' = [HandIdle EXCEPT !.step = "lookup", !.view = human] /\ NoMishap
     \/ hand' = [HandIdle EXCEPT !.step = "ack"] /\ Mishap
  /\ UNCHANGED <<history, human, queueVars, forward, mapVars, syncVars, handCrashes>>

\* The entry is acknowledged whether Handle failed or not.
AckEvent ==
  /\ hand.step = "ack"
  /\ hand' = HandIdle /\ hbatch' = Tail(hbatch)
  /\ \/ /\ hacked' = hacked \cup {Head(hbatch)} /\ NoMishap
        /\ hpel' = SelectSeq(hpel, LAMBDA e : e # Head(hbatch))
     \/ UNCHANGED <<hpel, hacked>> /\ Mishap
  /\ UNCHANGED <<history, human, hstream, reading, forward, mapVars, syncVars, handCrashes>>

HandLookup ==
  /\ hand.step = "lookup"
  /\ \/ toCw # 0 /\ hand' = [hand EXCEPT !.step = "assign", !.cw = toCw] /\ NoMishap /\ UNCHANGED raced
     \/ /\ \/ toCw = 0 /\ NoMishap
           \/ toCw # 0 /\ Mishap
        /\ Goes("create")
        /\ raced' = (raced \/ Looking(forward.step))
  /\ UNCHANGED <<history, human, queueVars, forward, toCw, fromCw, opened, syncVars, handCrashes>>

HandCreate ==
  /\ hand.step = "create"
  /\ \/ opened' = opened + 1 /\ hand' = [hand EXCEPT !.step = "keep", !.cw = opened + 1] /\ NoMishap
     \/ UNCHANGED opened /\ Goes("ack") /\ Mishap
  /\ UNCHANGED <<history, human, queueVars, forward, toCw, fromCw, raced, syncVars, handCrashes>>

HandKeep ==
  /\ hand.step = "keep" /\ Goes("assign")
  /\ KeepMapping(hand.cw)
  /\ UNCHANGED <<history, human, queueVars, forward, opened, raced, syncVars, handCrashes>>

\* Distributor.Assign and AssignConversation, then the briefing note: each is
\* best effort.
Assign ==
  /\ hand.step = "assign" /\ Goes("history")
  /\ UNCHANGED <<history, human, queueVars, forward, mapVars, syncVars, mishaps, handCrashes>>

-----------------------------------------------------------------------------
(* SyncConversationHistory.                                                *)
\* Mutant: ORDER BY created_at DESC.
NewestAfter(w) == [i \in 1 .. (IF history - w > Limit THEN Limit ELSE history - w) |-> history + 1 - i]

\* GetMessages and GetMessagesAfterID: the oldest ones, at most Limit.
MessagesAfter(w) == [i \in 1 .. (IF history - w > Limit THEN Limit ELSE history - w) |-> w + i]

\* A watermark that cannot be read counts as none; messages that cannot be
\* loaded end the sync.
LoadHistory ==
  /\ hand.step = "history"
  /\ \/ hand' = [hand EXCEPT !.step = "sync", !.send = MessagesAfter(watermark)] /\ NoMishap
     \/ hand' = [hand EXCEPT !.step = "sync", !.send = MessagesAfter(0)] /\ Mishap
     \/ Goes("finish") /\ Mishap
  /\ UNCHANGED <<history, human, queueVars, forward, mapVars, syncVars, handCrashes>>

SendHistory ==
  /\ hand.step = "sync" /\ hand.send # <<>>
  /\ LET m == Head(hand.send) IN
     \/ /\ hand' = [hand EXCEPT !.send = Tail(@), !.last = m]
        /\ synced' = [synced EXCEPT ![m] = @ + 1] /\ NoMishap /\ UNCHANGED skipped
     \/ hand' = [hand EXCEPT !.send = Tail(@)] /\ skipped' = skipped \cup {m} /\ Mishap /\ UNCHANGED synced
  /\ UNCHANGED <<history, human, queueVars, forward, mapVars, watermark, handCrashes>>

\* Mutant: the watermark is not kept.
NoWatermark ==
  /\ hand.step = "sync" /\ hand.send = <<>> /\ Goes("finish")
  /\ UNCHANGED <<history, human, queueVars, forward, mapVars, syncVars, mishaps, handCrashes>>

KeepWatermark ==
  /\ hand.step = "sync" /\ hand.send = <<>> /\ Goes("finish")
  /\ \/ watermark' = (IF hand.last = 0 THEN watermark ELSE hand.last) /\ NoMishap
     \/ UNCHANGED watermark /\ Mishap
  /\ UNCHANGED <<history, human, queueVars, forward, mapVars, synced, skipped, handCrashes>>

\* Intent summary, TransitionState when the loaded state was another, MarkHandoff.
Finish ==
  /\ hand.step = "finish" /\ Goes("ack")
  /\ \/ human' = TRUE /\ ~hand.view /\ NoMishap
     \/ UNCHANGED human /\ hand.view /\ NoMishap
     \/ UNCHANGED human /\ Mishap
  /\ UNCHANGED <<history, queueVars, forward, mapVars, syncVars, handCrashes>>

-----------------------------------------------------------------------------
ExpireKeys ==
  /\ Mishap
  /\ \/ toCw' = 0 /\ fromCw' = {} /\ UNCHANGED watermark
     \/ watermark' = 0 /\ UNCHANGED <<toCw, fromCw>>
  /\ UNCHANGED <<history, human, queueVars, hand, forward, opened, raced, synced, skipped, handCrashes>>

\* Mutant: a restarted consumer goes straight to the new entries.
CrashAndForget ==
  /\ handCrashes < MaxHandCrashes /\ handCrashes' = handCrashes + 1
  /\ hand' = HandIdle /\ forward' = ForwardIdle /\ hbatch' = <<>> /\ reading' = "new"
  /\ UNCHANGED <<history, human, hstream, hpel, hacked, mapVars, syncVars, mishaps>>

CrashHandoff ==
  /\ handCrashes < MaxHandCrashes /\ handCrashes' = handCrashes + 1
  /\ hand' = HandIdle /\ forward' = ForwardIdle /\ hbatch' = <<>> /\ reading' = "pending"
  /\ UNCHANGED <<history, human, hstream, hpel, hacked, mapVars, syncVars, mishaps>>

ConsumerStep ==
  \/ ProcessPending \/ ConsumeLoop \/ ProcessEntry \/ HandLookup \/ HandCreate \/ HandKeep
  \/ Assign \/ LoadHistory \/ SendHistory \/ KeepWatermark \/ Finish \/ AckEvent

HandNext ==
  \/ Escalate \/ StoreHistory \/ BackToAI
  \/ ForwardLookup \/ ForwardCreate \/ ForwardKeep \/ ForwardSend
  \/ ConsumerStep
  \/ ExpireKeys \/ CrashHandoff

HandSpec == HandInit /\ [][HandNext]_handVars

-----------------------------------------------------------------------------
\* An event whose handling nothing disturbed has a conversation in Chatwoot:
\* acknowledging comes after the hand-over, so a crash leaves it pending.
AckedMeansHandedOver == hacked # {} /\ mishaps = 0 => opened >= 1

\* SyncConversationHistory's watermark: a message is sent once, save for one
\* more time per failed call, expired key or crash; and whatever the watermark
\* has passed was sent, or its sending failed (later syncs never look below it).
HistoryHandedOver ==
  /\ \A m \in 1 .. MaxHistory : synced[m] <= 1 + mishaps + handCrashes
  /\ \A m \in 1 .. watermark : synced[m] > 0 \/ m \in skipped

\* A conversation has one counterpart in Chatwoot unless the handler and the
\* forwarder looked for it at the same time, or a key or a crash got in between.
OneChatwootConversation == ~raced => opened <= 1 + mishaps + handCrashes
=============================================================================
