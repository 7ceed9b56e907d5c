------------------------------ MODULE AppConfig ------------------------------
(***************************************************************************)
(* The configuration of a product line's Dify app.  Dify has no partial    *)
(* update: every write of the admin service reads the whole model_config,  *)
(* changes one part, posts the whole back, and reads it again to see       *)
(* whether it took.  Nothing serialises the writers.                       *)
(***************************************************************************)
EXTENDS Naturals

CONSTANTS
  Callers,       \* admin requests in flight at once
  MaxEdits,      \* bound: writes started
  MaxAppFaults   \* bound: failing console requests

Parts == {"prompt", "model", "datasets", "variables"}

VARIABLES
  app,        \* [Parts -> what Dify holds: 0 as it was created]
  advanced,   \* the app is in advanced prompt mode
  edits,
  caller,     \* [Callers -> the write in hand]
  confirmed,  \* [Parts -> the value the last confirmed write left] (history)
  unsure,     \* parts written since without a confirmation (history)
  appFaults

appVars == <<app, advanced, edits, caller, confirmed, unsure, appFaults>>

AsCreated == [p \in Parts |-> 0]
Write(pc, set, new, cfg, late) == [pc |-> pc, set |-> set, new |-> new, cfg |-> cfg, late |-> late]
NoWrite == Write("idle", {}, 0, AsCreated, FALSE)

AppInit ==
  /\ app = AsCreated /\ advanced \in BOOLEAN /\ edits = 0
  /\ caller = [c \in Callers |-> NoWrite]
  /\ confirmed = app /\ unsure = {} /\ appFaults = 0

AppFault == appFaults < MaxAppFaults /\ appFaults' = appFaults + 1

\* GET /apps/{id}, the model_config a write of the parts in set starts from.
ReadFirst(c, set) ==
  /\ caller[c] = NoWrite /\ edits < MaxEdits
  /\ edits' = edits + 1
  /\ \/ caller' = [caller EXCEPT ![c] = Write("post", set, edits + 1, app, FALSE)]
        /\ UNCHANGED appFaults
     \/ AppFault /\ UNCHANGED caller
  /\ UNCHANGED <<app, advanced, confirmed, unsure>>

\* The prompt, and with it the inputs the router injects.
UpdateSystemPrompt(c) == ~advanced /\ ReadFirst(c, {"prompt", "variables"})
PinModel(c) == ReadFirst(c, {"model"})
AttachDataset(c) == ReadFirst(c, {"datasets"})
\* An app that declares everything is left untouched.
EnsureContextVariables(c) == app["variables"] = 0 /\ ReadFirst(c, {"variables"})

\* Adding a dataset or the missing variables twice adds nothing.
ValueOf(c, p) ==
  IF p \in {"prompt", "model"} THEN caller[c].new ELSE 1

\* POST /apps/{id}/model-config.  The answer may be lost after the write.
WriteConfig(c) ==
  /\ caller[c].pc = "post"
  /\ \/ /\ app' = [p \in Parts |-> IF p \in caller[c].set THEN ValueOf(c, p) ELSE caller[c].cfg[p]]
        /\ unsure' = unsure \cup (IF caller[c].late THEN Parts ELSE caller[c].set)
        /\ LET told == [caller EXCEPT ![c] = Write("verify", @.set, @.new, AsCreated, FALSE)]
               lost == [caller EXCEPT ![c] = NoWrite]
               Late(cs) == [d \in Callers |-> IF cs[d].pc = "post" THEN [cs[d] EXCEPT !.late = TRUE] ELSE cs[d]]
           IN \/ caller' = Late(told) /\ UNCHANGED appFaults
              \/ caller' = Late(lost) /\ AppFault
     \/ AppFault /\ caller' = [caller EXCEPT ![c] = NoWrite] /\ UNCHANGED <<app, unsure>>
  /\ UNCHANGED <<advanced, edits, confirmed>>

\* Mutant: the status of the write is taken for its effect.
TrustStatus(c) == TRUE

\* What was written is what Dify reports.
Took(c) == \A p \in caller[c].set : app[p] = ValueOf(c, p)

\* The read-back; a write that cannot be confirmed is reported as failed.
VerifyConfig(c) ==
  /\ caller[c].pc = "verify"
  /\ caller' = [caller EXCEPT ![c] = NoWrite]
  /\ \/ /\ Took(c) /\ UNCHANGED appFaults
        /\ confirmed' = [p \in Parts |-> IF p \in caller[c].set THEN ValueOf(c, p) ELSE confirmed[p]]
        /\ unsure' = unsure \ caller[c].set
     \/ ~Took(c) /\ UNCHANGED <<confirmed, unsure, appFaults>>
     \/ AppFault /\ UNCHANGED <<confirmed, unsure>>
  /\ UNCHANGED <<app, advanced, edits>>

AppNext ==
  \E c \in Callers :
    \/ UpdateSystemPrompt(c) \/ PinModel(c) \/ AttachDataset(c) \/ EnsureContextVariables(c)
    \/ WriteConfig(c) \/ VerifyConfig(c)

AppSpec == AppInit /\ [][AppNext]_appVars

-----------------------------------------------------------------------------
\* A part that was confirmed stays what it was until it is written again: a
\* save of the prompt never takes the model or the dataset with it, except by
\* a write that began before another one landed.
ConfirmedPartsHold == \A p \in Parts : app[p] = confirmed[p] \/ p \in unsure
=============================================================================
