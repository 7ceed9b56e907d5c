------------------------------ MODULE Switches ------------------------------
(***************************************************************************)
(* The platform's runtime switches: rows the console writes, the router's  *)
(* snapshot of them, polled, and the console's cached view of the router.  *)
(*                                                                         *)
(* A value is the number of the write that set it: 0 is the environment's, *)
(* 1 a seeded row.                                                         *)
(***************************************************************************)
EXTENDS Naturals

CONSTANTS SwitchKeys, MaxWrites, MaxSwitchFaults, MaxRestarts

VARIABLES
  setting,     \* [SwitchKeys -> value], 0 for no row
  routing,     \* the snapshot the router decides by; NoSnapshot before boot
  newest,      \* [SwitchKeys -> newest value this process routed by] (history)
  writing,     \* the console's write: keys still to be set, whether any was
  view,        \* the console's copy of /configz, and the one being fetched
  writes, switchFaults, restarts

switchVars == <<setting, routing, newest, writing, view, writes, switchFaults, restarts>>

Environment == [k \in SwitchKeys |-> 0]
NoSnapshot == [k \in {} |-> 0]

SwitchInit ==
  /\ setting = Environment /\ routing = NoSnapshot /\ newest = Environment
  /\ writing = [todo |-> {}, changed |-> FALSE]
  /\ view = [cached |-> NoSnapshot, fetched |-> NoSnapshot] /\ writes = 1
  /\ switchFaults = 0 /\ restarts = 0

SwitchFault == switchFaults < MaxSwitchFaults /\ switchFaults' = switchFaults + 1

Newer(old, snap) == [k \in SwitchKeys |-> IF snap[k] > old[k] THEN snap[k] ELSE old[k]]

\* NewSwitchPoller: seed what no row says yet, each on its own, and read;
\* without a reading the router starts on its environment.
NewSwitchPoller ==
  /\ routing = NoSnapshot
  /\ \E seeded \in SUBSET {k \in SwitchKeys : setting[k] = 0}, read \in BOOLEAN :
       LET rows == [k \in SwitchKeys |-> IF k \in seeded THEN 1 ELSE setting[k]] IN
       /\ IF read /\ \A k \in SwitchKeys : rows[k] > 0 THEN UNCHANGED switchFaults ELSE SwitchFault
       /\ setting' = rows /\ routing' = IF read THEN rows ELSE Environment
       /\ newest' = routing'
  /\ UNCHANGED <<writing, view, writes, restarts>>

\* Mutant: a failing read puts the router back on its environment.
PollOrEnvironment ==
  /\ routing # NoSnapshot
  /\ \/ routing' = setting /\ UNCHANGED switchFaults
     \/ SwitchFault /\ routing' = Environment
  /\ newest' = Newer(newest, routing')
  /\ UNCHANGED <<setting, writing, view, writes, restarts>>

\* A tick of Start's loop: a failing read keeps the previous snapshot.
Poll ==
  /\ routing # NoSnapshot
  /\ \/ routing' = setting /\ UNCHANGED switchFaults
     \/ SwitchFault /\ UNCHANGED routing
  /\ newest' = Newer(newest, routing')
  /\ UNCHANGED <<setting, writing, view, writes, restarts>>

RestartRouter ==
  /\ restarts < MaxRestarts /\ restarts' = restarts + 1
  /\ routing # NoSnapshot /\ routing' = NoSnapshot
  /\ UNCHANGED <<setting, newest, writing, view, writes, switchFaults>>

\* HandleSwitches after its checks: each key in turn, a failing one reported,
\* and the view dropped at the end when any was set.
RequestSwitches ==
  /\ writing.todo = {} /\ writes < MaxWrites
  /\ \E keys \in SUBSET SwitchKeys \ {{}} : writing' = [todo |-> keys, changed |-> FALSE]
  /\ UNCHANGED <<setting, routing, newest, view, writes, switchFaults, restarts>>

SetSwitch(k) ==
  /\ k \in writing.todo
  /\ \/ /\ writes < MaxWrites /\ writes' = writes + 1
        /\ setting' = [setting EXCEPT ![k] = writes + 1] /\ UNCHANGED switchFaults
        /\ writing' = [todo |-> writing.todo \ {k}, changed |-> TRUE]
     \/ SwitchFault /\ writing' = [writing EXCEPT !.todo = @ \ {k}] /\ UNCHANGED <<setting, writes>>
  /\ view' = IF writing'.todo = {} /\ writing'.changed THEN [view EXCEPT !.cached = NoSnapshot] ELSE view
  /\ UNCHANGED <<routing, newest, restarts>>

\* RouterBridge.Switches: a view younger than its lifetime is used, any other
\* fetched and then kept.
FetchView ==
  /\ view.cached = NoSnapshot /\ view.fetched = NoSnapshot /\ routing # NoSnapshot
  /\ view' = [view EXCEPT !.fetched = routing]
  /\ UNCHANGED <<setting, routing, newest, writing, writes, switchFaults, restarts>>
KeepView ==
  /\ view.fetched # NoSnapshot /\ view' = [cached |-> view.fetched, fetched |-> NoSnapshot]
  /\ UNCHANGED <<setting, routing, newest, writing, writes, switchFaults, restarts>>
ExpireView ==
  /\ view.cached # NoSnapshot /\ view' = [view EXCEPT !.cached = NoSnapshot]
  /\ UNCHANGED <<setting, routing, newest, writing, writes, switchFaults, restarts>>

SwitchNext ==
  \/ NewSwitchPoller \/ Poll \/ RestartRouter \/ RequestSwitches \/ FetchView \/ KeepView \/ ExpireView
  \/ \E k \in SwitchKeys : SetSwitch(k)

SwitchSpec == SwitchInit /\ [][SwitchNext]_switchVars

-----------------------------------------------------------------------------
\* While it runs the router never goes back to an older setting or to its
\* environment, however often the settings cannot be read.
SwitchesNeverGoBack == routing # NoSnapshot => routing = newest
=============================================================================
