----------------------------- MODULE AgentDesk -----------------------------
(***************************************************************************)
(* The agents' side of a handoff: the pool that counts what each agent     *)
(* holds, the distributor that picks one, and the webhook through which    *)
(* Chatwoot tells of their replies.                                        *)
(*                                                                         *)
(* Only the handoff consumer assigns.  Presence and the release of load    *)
(* are operations of the pool that nothing in the repository calls yet.    *)
(***************************************************************************)
EXTENDS Naturals, FiniteSets

CONSTANTS
  Agents, MaxConcurrent,
  Desks,          \* conversations handed over, each with one in Chatwoot
  MaxDeskFaults   \* bound: failing calls and expired mappings

ASSUME AgentDeskAssumption == MaxConcurrent \in Nat /\ MaxDeskFaults \in Nat /\ "none" \notin Agents

VARIABLES
  load, online,
  assigned,    \* assigned_agent_id of a conversation's row
  picked,      \* the assignment under way: conversation and agent
  mapped,      \* conversations whose cw_conv key exists
  replied,     \* rows with first_agent_reply_at
  published,   \* messages the webhook put on unica:outbound
  deskFaults

deskVars == <<load, online, assigned, picked, mapped, replied, published, deskFaults>>

DeskInit ==
  /\ load = [a \in Agents |-> 0] /\ online = {} /\ assigned = [c \in Desks |-> "none"]
  /\ picked = {} /\ mapped = {} /\ replied = {} /\ published = {} /\ deskFaults = 0

DeskFault == deskFaults < MaxDeskFaults /\ deskFaults' = deskFaults + 1

\* SetOnline and its heartbeat, SetOffline or a heartbeat that ran out.
SetOnline(a) == /\ online' = online \cup {a}
                /\ UNCHANGED <<load, assigned, picked, mapped, replied, published, deskFaults>>
SetOffline(a) == /\ online' = online \ {a}
                 /\ UNCHANGED <<load, assigned, picked, mapped, replied, published, deskFaults>>

\* The script decrements and stays at zero.
DecrementLoad(a) == /\ load' = [load EXCEPT ![a] = IF @ = 0 THEN 0 ELSE @ - 1]
                    /\ UNCHANGED <<online, assigned, picked, mapped, replied, published, deskFaults>>

HasRoom(a) == load[a] < MaxConcurrent

\* GetAvailableAgents: an agent whose keys cannot be read is left out.
Available(readable) == {a \in online \cap readable : HasRoom(a)}

\* Distributor.Assign up to the choice: the lowest load, the first of equals.
Choose(c) ==
  /\ picked = {}
  /\ \E unread \in {{}} \cup {{a} : a \in online} :
       /\ IF unread = {} THEN UNCHANGED deskFaults ELSE DeskFault
       /\ \E a \in Available(Agents \ unread) :
            /\ \A b \in Available(Agents \ unread) : load[a] <= load[b]
            /\ picked' = {<<c, a>>}
  /\ UNCHANGED <<load, online, assigned, mapped, replied, published>>

\* IncrementLoad; the row's agent is best effort.
Commit ==
  /\ picked # {} /\ picked' = {}
  /\ \E p \in picked :
       \/ /\ load' = [load EXCEPT ![p[2]] = @ + 1]
          /\ \/ assigned' = [assigned EXCEPT ![p[1]] = p[2]] /\ UNCHANGED deskFaults
             \/ UNCHANGED assigned /\ DeskFault
       \/ UNCHANGED <<load, assigned>> /\ DeskFault
  /\ UNCHANGED <<online, mapped, replied, published>>

\* findOrCreateCWConversation stored the reverse key, or it ran out.
Map(c) == /\ mapped' = mapped \cup {c}
          /\ UNCHANGED <<load, online, assigned, picked, replied, published, deskFaults>>
Unmap(c) == /\ c \in mapped /\ DeskFault /\ mapped' = mapped \ {c}
            /\ UNCHANGED <<load, online, assigned, picked, replied, published>>

-----------------------------------------------------------------------------
(* ChatwootWebhookHandler.ServeHTTP answers 200 whatever becomes of it.    *)

\* custom_attributes of a Chatwoot conversation: what its two creators set.
CustomAttributes == {"unica_conversation_id", "handoff"}

\* What is told of a new message.
Notices == [type : {"incoming", "outgoing"}, private : BOOLEAN, sender : {"user", "contact"}, blank : BOOLEAN]

Channel == IF "channel_id" \in CustomAttributes THEN "channel" ELSE "none"

MessageCreated(c, n) ==
  /\ n.type = "outgoing" /\ ~n.private /\ n.sender # "contact"
  /\ c \in mapped /\ ~n.blank
  /\ \/ /\ published' = published \cup {[conv |-> c, kind |-> "reply", channel |-> Channel]}
        /\ \/ replied' = replied \cup {c} /\ UNCHANGED deskFaults
           \/ UNCHANGED replied /\ DeskFault
     \/ UNCHANGED <<published, replied>> /\ DeskFault
  /\ UNCHANGED <<load, online, assigned, picked, mapped>>

\* A close event for the outbound stream; nothing turns it into a transition.
ConversationResolved(c) ==
  /\ c \in mapped
  /\ \/ published' = published \cup {[conv |-> c, kind |-> "closed", channel |-> "none"]} /\ UNCHANGED deskFaults
     \/ UNCHANGED published /\ DeskFault
  /\ UNCHANGED <<load, online, assigned, picked, mapped, replied>>

DeskNext ==
  \/ \E a \in Agents : SetOnline(a) \/ SetOffline(a) \/ DecrementLoad(a)
  \/ Commit
  \/ \E c \in Desks : \/ Choose(c) \/ Map(c) \/ Unmap(c) \/ ConversationResolved(c)
                      \/ \E n \in Notices : MessageCreated(c, n)

DeskSpec == DeskInit /\ [][DeskNext]_deskVars

-----------------------------------------------------------------------------
\* A reply of an agent is published with the channel it has to leave through.
AgentRepliesRouted == \A r \in published : r.kind = "reply" => r.channel # "none"
=============================================================================
