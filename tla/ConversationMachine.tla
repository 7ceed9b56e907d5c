------------------------ MODULE ConversationMachine ------------------------
(***************************************************************************)
(* What the state machine of a conversation promises: a conversation is    *)
(* created pending, leaves that state through the table of transitions     *)
(* only, never comes back to it, and keeps to the table afterwards until   *)
(* somebody decided on a state that was no longer the stored one.          *)
(***************************************************************************)
CONSTANT Convs

VARIABLES st,        \* st[c]: the stored state, "none" before creation
          disturbed  \* conversations whose cached or remembered state may be stale

machineVars == <<st, disturbed>>

Served == {"ai", "human", "closed"}
States == Served \cup {"pending"}

\* validTransitions.
Targets(s) == CASE s = "pending" -> {"ai", "human"}
                [] s = "ai"      -> {"human", "closed"}
                [] s = "human"   -> {"closed"}
                [] s = "closed"  -> {"ai"}

MachineInit == st = [c \in Convs |-> "none"] /\ disturbed = {}

Create(c) == st[c] = "none" /\ st' = [st EXCEPT ![c] = "pending"]

Transition(c) == /\ st[c] \in States
                 /\ \E s \in Targets(st[c]) : st' = [st EXCEPT ![c] = s]

\* A writer that worked with a stale state skips the table.
Overwrite(c) == /\ c \in disturbed' /\ st[c] \in Served
                /\ \E s \in Served : st' = [st EXCEPT ![c] = s]

MachineNext ==
  /\ disturbed \subseteq disturbed' /\ disturbed' \subseteq Convs
  /\ \/ st' = st
     \/ \E c \in Convs : Create(c) \/ Transition(c) \/ Overwrite(c)

MachineSpec == MachineInit /\ [][MachineNext]_machineVars
=============================================================================
