---------------------------- MODULE ModelVersions ----------------------------
(***************************************************************************)
(* Which model a product line answers with: its own override, or else the  *)
(* platform's revision, or else the built-in one.  A change is tried on a  *)
(* Dify app first and stored only if Dify took it; what cannot be stored   *)
(* or confirmed is put back.  The platform's change reaches the other      *)
(* lines only when an operator pushes it.                                  *)
(***************************************************************************)
EXTENDS Naturals, FiniteSets

CONSTANTS
  Lines,
  Admins,           \* requests in flight at once
  MaxModelWrites,   \* bound: requests
  MaxModelFaults    \* bound: failing calls to Dify or the database

Specs == {"builtin", "m1", "m2"}

VARIABLES
  platformModel,  \* the active platform revision, "none" for none
  override,       \* [Lines -> the line's own active revision, "none" for none]
  answering,      \* [Lines -> the model its Dify app is pinned to]
  admin,          \* [Admins -> the request in hand]
  modelWrites,
  behind,         \* lines waiting for a push, or left by a failure or by two
                  \* requests at once (history)
  modelFaults

modelVars == <<platformModel, override, answering, admin, modelWrites, behind, modelFaults>>

PlatformSpec == IF platformModel = "none" THEN "builtin" ELSE platformModel
\* resolve, and resolveScope of the roster and the push.
Effective(l) == IF override[l] = "none" THEN PlatformSpec ELSE override[l]

ModelFault == modelFaults < MaxModelFaults /\ modelFaults' = modelFaults + 1

\* A request that changes the model of one line, or of a batch of them.
Change(pc, scope, l, spec, restore, unchanged, todo, tiers, alone) ==
  [pc |-> pc, scope |-> scope, line |-> l, spec |-> spec, restore |-> restore,
   unchanged |-> unchanged, todo |-> todo, tiers |-> tiers, alone |-> alone]
NoTiers == [l \in Lines |-> "none"]
NoChange == Change("idle", "line", "none", "builtin", "builtin", FALSE, {}, NoTiers, FALSE)

Changing == {a \in Admins : admin[a].pc # "idle"}

ModelInit ==
  /\ platformModel = "none" /\ override \in [Lines -> {"none", "m1"}]
  /\ answering = [l \in Lines |-> Effective(l)]
  /\ admin = [a \in Admins |-> NoChange] /\ modelWrites = 0 /\ behind = {} /\ modelFaults = 0

BeginChange(a, request) ==
  /\ admin[a].pc = "idle" /\ modelWrites < MaxModelWrites /\ modelWrites' = modelWrites + 1
  /\ admin' = [b \in Admins |->
       IF b = a THEN request
       ELSE IF b \in Changing THEN [admin[b] EXCEPT !.alone = FALSE] ELSE NoChange]
  /\ UNCHANGED <<platformModel, override, answering, behind, modelFaults>>

Turn(a, pc) == admin' = [admin EXCEPT ![a].pc = pc]
Done(a) == admin' = [admin EXCEPT ![a] = NoChange]

\* Line l is where the request of a meant to leave it, or is not.
Settle(a, l, ok) == behind' = IF ok /\ admin[a].alone THEN behind \ {l} ELSE behind \cup {l}

ModelChange(pc, scope, l, spec, restore) ==
  Change(pc, scope, l, spec, restore, scope = "line" /\ override[l] = spec, {}, NoTiers, Changing = {})

\* PUT .../model of one line.
SetOverride(a) ==
  \E l \in Lines, spec \in Specs : BeginChange(a, ModelChange("pin", "line", l, spec, Effective(l)))

\* Mutant: the app the check borrowed goes back to the platform's model.
RestorePlatform(l) == PlatformSpec

\* HandleModel puts the app back on the line's own model.
RestoreOf(l) == IF override[l] = "none" THEN PlatformSpec ELSE override[l]

\* PUT of the platform's model; unchanged, it is done.  A line that inherits it
\* is preferred for the check.
HandleModel(a) ==
  \E l \in Lines, spec \in Specs :
    /\ spec # platformModel
    /\ override[l] # "none" => \A k \in Lines : override[k] # "none"
    /\ BeginChange(a, ModelChange("pin", "platform", l, spec, RestoreOf(l)))

\* PinModel on the request's line: taken; rejected; taken without a
\* confirmation, which the caller is told; or taken without an answer, which
\* it takes for a rejection.  A model the line has already is not stored again.
Pin(a, l, spec, Took, Landed, Rejected) ==
  \/ answering' = [answering EXCEPT ![l] = spec] /\ UNCHANGED modelFaults /\ Took
  \/ answering' = [answering EXCEPT ![l] = spec] /\ ModelFault /\ Landed
  \/ answering' = [answering EXCEPT ![l] = spec] /\ ModelFault /\ Rejected /\ Settle(a, l, FALSE)
  \/ UNCHANGED answering /\ ModelFault /\ Rejected /\ (IF admin[a].alone THEN UNCHANGED behind ELSE Settle(a, l, FALSE))

\* A pin that failed, whatever Dify made of it.
Unconfirmed(l, spec) ==
  ModelFault /\ answering' \in {answering, [answering EXCEPT ![l] = spec]}

TryModel(a) ==
  /\ admin[a].pc = "pin"
  /\ Pin(a, admin[a].line, admin[a].spec,
         IF admin[a].unchanged THEN Done(a) /\ Settle(a, admin[a].line, TRUE)
                               ELSE Turn(a, "publish") /\ UNCHANGED behind,
         Turn(a, "revert") /\ UNCHANGED behind,
         Done(a))
  /\ UNCHANGED <<platformModel, override, modelWrites>>

\* Publish of the repository: the scope's next active revision.
PublishModel(a) ==
  \/ admin[a].scope = "line" /\ override' = [override EXCEPT ![admin[a].line] = admin[a].spec] /\ UNCHANGED platformModel
  \/ admin[a].scope = "platform" /\ platformModel' = admin[a].spec /\ UNCHANGED override

\* A line with a model of its own goes back to it after it has served the
\* platform's check; an app whose model could not be stored goes back too.
StoreModel(a) ==
  LET l == admin[a].line
      inherit == {k \in Lines : override[k] = "none"}
  IN
  /\ admin[a].pc = "publish"
  /\ \/ PublishModel(a) /\ admin[a].scope = "line" /\ Done(a) /\ Settle(a, l, TRUE) /\ UNCHANGED modelFaults
     \/ /\ PublishModel(a) /\ admin[a].scope = "platform"
        /\ behind' = IF l \in inherit /\ admin[a].alone THEN (behind \cup inherit) \ {l} ELSE behind \cup inherit
        /\ IF l \in inherit THEN Done(a) ELSE Turn(a, "revert")
        /\ UNCHANGED modelFaults
     \/ ModelFault /\ Turn(a, "revert") /\ UNCHANGED <<platformModel, override, behind>>
  /\ UNCHANGED <<answering, modelWrites>>

\* On a context of its own, so that it runs when the request's has expired.
Revert(a) ==
  LET l == admin[a].line IN
  /\ admin[a].pc = "revert" /\ Done(a)
  /\ \/ answering' = [answering EXCEPT ![l] = admin[a].restore] /\ Settle(a, l, TRUE) /\ UNCHANGED modelFaults
     \/ Unconfirmed(l, admin[a].restore) /\ Settle(a, l, FALSE)
  /\ UNCHANGED <<platformModel, override, modelWrites>>

\* DELETE .../model: the row is retired, then what it inherits is pinned.
ClearOverride(a) ==
  \E l \in Lines :
    /\ override[l] # "none"
    /\ BeginChange(a, ModelChange("clear", "line", l, PlatformSpec, PlatformSpec))

RetireOverride(a) ==
  /\ admin[a].pc = "clear"
  /\ \/ override' = [override EXCEPT ![admin[a].line] = "none"] /\ Turn(a, "inherit") /\ UNCHANGED modelFaults
     \/ ModelFault /\ Done(a) /\ UNCHANGED override
  /\ UNCHANGED <<platformModel, answering, modelWrites, behind>>

PinInherited(a) ==
  LET l == admin[a].line IN
  /\ admin[a].pc = "inherit" /\ Done(a)
  /\ \/ answering' = [answering EXCEPT ![l] = admin[a].spec] /\ Settle(a, l, TRUE) /\ UNCHANGED modelFaults
     \/ Unconfirmed(l, admin[a].spec) /\ Settle(a, l, FALSE)
  /\ UNCHANGED <<platformModel, override, modelWrites>>

\* The push reads the tiers once for the whole batch and pins line by line.
HandlePush(a) ==
  \E batch \in SUBSET Lines \ {{}} :
    BeginChange(a, Change("push", "line", "none", "builtin", "builtin", FALSE, batch,
                          [l \in Lines |-> Effective(l)], Changing = {}))

PushOneLine(a) ==
  \E l \in Lines :
    /\ admin[a].pc = "push" /\ l \in admin[a].todo
    /\ IF admin[a].todo = {l} THEN Done(a) ELSE admin' = [admin EXCEPT ![a].todo = @ \ {l}]
    /\ \/ answering' = [answering EXCEPT ![l] = admin[a].tiers[l]] /\ Settle(a, l, TRUE) /\ UNCHANGED modelFaults
       \/ Unconfirmed(l, admin[a].tiers[l]) /\ Settle(a, l, FALSE)
    /\ UNCHANGED <<platformModel, override, modelWrites>>

ModelNext ==
  \E a \in Admins :
    \/ SetOverride(a) \/ HandleModel(a) \/ TryModel(a) \/ StoreModel(a) \/ Revert(a)
    \/ ClearOverride(a) \/ RetireOverride(a) \/ PinInherited(a)
    \/ HandlePush(a) \/ PushOneLine(a)

ModelSpec == ModelInit /\ [][ModelNext]_modelVars

-----------------------------------------------------------------------------
\* A line nobody is changing answers with the model its tier gives it, unless a
\* push is still due, a call to Dify failed on it, or two requests overlapped:
\* a check of the platform's model leaves no trace on a line of its own.
AnswersWithItsTier ==
  \A l \in Lines \ behind :
    (\A a \in Changing : admin[a].line # l) => answering[l] = Effective(l)
=============================================================================
