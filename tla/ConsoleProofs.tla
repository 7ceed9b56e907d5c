---------------------------- MODULE ConsoleProofs ----------------------------
(***************************************************************************)
(* What the console's pages and the router's caches of them keep, for any  *)
(* number of requests, lines, revisions, versions and failures: each       *)
(* component's own behaviour, its inductive invariant and its property.    *)
(***************************************************************************)
EXTENDS OntologyStore, Switches, AppConfig, DatasetRetrieval, LineSettings, PromptVersions,
        ModelVersions, Provisioning, SequenceTheorems, FiniteSetTheorems, WellFoundedInduction, TLAPS

-----------------------------------------------------------------------------
\* A nonempty set of numbers from 1 to n has a largest.
LEMMA HasLargest ==
  ASSUME NEW n \in Nat, NEW S \in SUBSET (1 .. n), S # {}
  PROVE  \E m \in S : \A k \in S : k <= m
<1> DEFINE Above(m) == {k \in S : m < k}
           F == {Above(m) : m \in S}
<1>1. IsFiniteSet(S)
  <2>1. IsFiniteSet(1 .. n)
    BY FS_Interval
  <2> QED BY <2>1, FS_Subset
<1>2. F \subseteq FiniteSubsetsOf(S) /\ F # {}
  <2>1. \A m \in S : Above(m) \in FiniteSubsetsOf(S)
    BY <1>1, FS_Subset DEF FiniteSubsetsOf
  <2> QED BY <2>1
<1>3. PICK T \in F : \A U \in F : ~(<<U, T>> \in StrictSubsetOrdering(S))
  <2> HIDE DEF F
  <2> QED BY <1>2, FS_StrictSubsetOrderingWellFounded, WFMin
<1>4. PICK m \in S : T = Above(m)
  OBVIOUS
<1>5. ASSUME NEW k \in S, m < k PROVE FALSE
  <2>1. k \in Above(m) /\ k \notin Above(k)
    BY <1>5
  <2>2. ASSUME NEW j \in Above(k) PROVE j \in Above(m)
    BY <1>5, <2>2
  <2>3. Above(k) \subseteq Above(m) /\ Above(k) # Above(m)
    BY <2>1, <2>2
  <2>4. Above(k) \in F /\ Above(k) \in SUBSET S /\ T \in SUBSET S
    BY <1>4
  <2> QED BY <1>3, <1>4, <2>3, <2>4 DEF StrictSubsetOrdering
<1> QED
  BY <1>5

LEMMA NewestPublished == Newest \in Nat
<1>1. Published \in SUBSET (1 .. MaxVersion)
  BY DEF Published, Versions
<1>2. CASE Published # {}
  <2>1. \E v \in Published : \A w \in Published : w <= v
    BY <1>1, <1>2, HasLargest, StoreAssumption
  <2>2. Newest \in Published
    BY <1>2, <2>1 DEF Newest
  <2> QED BY <1>1, <2>2
<1> QED BY <1>2 DEF Newest

(* Ontology versions: a transaction that may commit has deactivated every  *)
(* active version but its target, so its commit leaves the target alone.   *)
StoreTypes ==
  /\ version \in [Versions -> {"none", "active", "inactive"}]
  /\ tx \in [Publishers -> [pc : {"idle", "publish", "rollback", "insert", "activate"},
                            target : Nat, seen : SUBSET Versions, held : SUBSET Versions]]
  /\ \A p \in Publishers : tx[p].pc # "idle" => tx[p].target \in Versions
  /\ acknowledged \in Versions \cup {0}

StoreInv == StoreTypes /\ LastPublishIsActive

LEMMA StoreNextKeeps == StoreInv /\ [StoreNext]_storeVars => StoreInv'
<1> SUFFICES ASSUME StoreInv, [StoreNext]_storeVars PROVE StoreInv'
  OBVIOUS
<1> USE StoreAssumption DEF StoreTypes, StoreInv, LastPublishIsActive, BeginTx, Tx, NoTx, Active, Versions, StoreFault, Admissible, After
<1>1. ASSUME NEW p \in Publishers, BeginPublish(p) PROVE StoreInv'
  BY <1>1, NewestPublished DEF BeginPublish
<1>2. ASSUME NEW p \in Publishers, BeginRollback(p) PROVE StoreInv'
  BY <1>2 DEF BeginRollback
<1>3. ASSUME NEW p \in Publishers, SeeActive(p) PROVE StoreInv'
  <2>1. /\ UNCHANGED <<version, acknowledged>> /\ tx[p].pc \in {"publish", "rollback"}
        /\ tx' = [tx EXCEPT ![p].seen = Active, ![p].pc = IF @ = "publish" THEN "insert" ELSE "activate"]
    BY <1>3 DEF SeeActive
  <2>2. tx[p].target \in Versions /\ Active \in SUBSET Versions
    BY <2>1
  <2>3. [tx[p] EXCEPT !.seen = Active, !.pc = IF @ = "publish" THEN "insert" ELSE "activate"]
        \in [pc : {"idle", "publish", "rollback", "insert", "activate"},
            target : Nat, seen : SUBSET Versions, held : SUBSET Versions]
    BY <2>2
  <2>4. tx'[p].target = tx[p].target /\ \A q \in Publishers \ {p} : tx'[q] = tx[q]
    BY <2>1
  <2> QED BY <2>1, <2>2, <2>3, <2>4
<1>4. ASSUME NEW p \in Publishers, Deactivate(p) PROVE StoreInv'
  <2>1. /\ UNCHANGED <<version, acknowledged>> /\ tx[p].seen \in SUBSET Versions
        /\ tx' = [tx EXCEPT ![p].held = tx[p].seen \cap Active, ![p].seen = {}]
    BY <1>4 DEF Deactivate
  <2>2. [tx[p] EXCEPT !.held = tx[p].seen \cap Active, !.seen = {}]
        \in [pc : {"idle", "publish", "rollback", "insert", "activate"},
            target : Nat, seen : SUBSET Versions, held : SUBSET Versions]
    BY <2>1
  <2>3. /\ tx'[p].target = tx[p].target /\ tx'[p].pc = tx[p].pc
        /\ \A q \in Publishers \ {p} : tx'[q] = tx[q]
    BY <2>1
  <2> QED BY <2>1, <2>2, <2>3
<1>5. ASSUME NEW p \in Publishers, FinishTx(p) PROVE StoreInv'
  <2>1. CASE Admissible(p) /\ version' = After(p) /\ acknowledged' = tx[p].target
    <3>1. tx[p].target \in Versions /\ tx[p].target # 0
      BY <1>5 DEF FinishTx
    <3>2. \A v \in Versions : version'[v] = "active" <=> v = tx[p].target
      BY <2>1, <3>1
    <3>3. version' \in [Versions -> {"none", "active", "inactive"}]
      BY <2>1
    <3> QED
      BY <1>5, <2>1, <3>1, <3>2, <3>3 DEF FinishTx
  <2>2. CASE UNCHANGED <<version, acknowledged>>
    BY <1>5, <2>2 DEF FinishTx
  <2> QED
    BY <1>5, <2>1, <2>2 DEF FinishTx
<1>6. ASSUME QueryActive PROVE StoreInv'
  BY <1>6 DEF QueryActive
<1>7. ASSUME CacheActive PROVE StoreInv'
  BY <1>7 DEF CacheActive
<1>8. ASSUME Outlive PROVE StoreInv'
  BY <1>8 DEF Outlive
<1>9. CASE UNCHANGED storeVars
  BY <1>9 DEF storeVars
<1> HIDE DEF StoreInv
<1> QED
  BY <1>1, <1>2, <1>3, <1>4, <1>5, <1>6, <1>7, <1>8, <1>9
     DEF StoreNext

(* However publishes and rollbacks overlap, the active version is that of  *)
(* the last one answered with success.                                     *)
THEOREM LastPublishActive == StoreSpec => []LastPublishIsActive
<1>1. StoreInit => StoreInv
  BY StoreAssumption DEF StoreInit, StoreInv, StoreTypes, LastPublishIsActive, Active, Tx, NoTx, Versions
<1>2. StoreInv => LastPublishIsActive
  BY DEF StoreInv
<1> QED
  BY StoreNextKeeps, <1>1, <1>2, PTL DEF StoreSpec

-----------------------------------------------------------------------------
(* The switches: the router decides by the newest setting it has read, and  *)
(* no row is older than that.                                              *)
SwitchTypes ==
  /\ setting \in [SwitchKeys -> Nat] /\ newest \in [SwitchKeys -> Nat]
  /\ writes \in Nat \ {0} /\ \A k \in SwitchKeys : setting[k] <= writes

RoutesByNewest ==
  routing # NoSnapshot => routing = newest /\ \A k \in SwitchKeys : newest[k] <= setting[k]

SwitchInv == SwitchTypes /\ RoutesByNewest

\* A snapshot no older than the newest is the newest.
LEMMA NewerIsLater ==
  ASSUME NEW old \in [SwitchKeys -> Nat], NEW snap \in [SwitchKeys -> Nat],
         \A k \in SwitchKeys : old[k] <= snap[k]
  PROVE  Newer(old, snap) = snap
<1>1. ASSUME NEW k \in SwitchKeys PROVE (IF snap[k] > old[k] THEN snap[k] ELSE old[k]) = snap[k]
  <2>1. old[k] \in Nat /\ snap[k] \in Nat /\ old[k] <= snap[k]
    OBVIOUS
  <2> QED BY <2>1
<1> QED BY <1>1 DEF Newer

LEMMA SwitchNextKeeps == SwitchInv /\ [SwitchNext]_switchVars => SwitchInv'
<1> SUFFICES ASSUME SwitchInv, [SwitchNext]_switchVars PROVE SwitchInv'
  OBVIOUS
<1> USE DEF SwitchInv, SwitchTypes, RoutesByNewest
<1>1. CASE NewSwitchPoller
  BY <1>1 DEF NewSwitchPoller, Environment
<1>2. CASE Poll
  <2>1. newest = routing /\ Newer(newest, newest) = newest /\ Newer(newest, setting) = setting
    BY <1>2, NewerIsLater DEF Poll
  <2> QED BY <1>2, <2>1 DEF Poll
<1>3. CASE RestartRouter
  BY <1>3 DEF RestartRouter
<1>4. CASE RequestSwitches
  BY <1>4 DEF RequestSwitches
<1>5. ASSUME NEW k \in SwitchKeys, SetSwitch(k) PROVE SwitchInv'
  <2>1. CASE writes' = writes + 1 /\ setting' = [setting EXCEPT ![k] = writes + 1]
    BY <1>5, <2>1 DEF SetSwitch
  <2>2. CASE UNCHANGED <<setting, writes>>
    BY <1>5, <2>2 DEF SetSwitch
  <2> QED BY <1>5, <2>1, <2>2 DEF SetSwitch
<1>6. CASE FetchView \/ KeepView \/ ExpireView
  BY <1>6 DEF FetchView, KeepView, ExpireView
<1>7. CASE UNCHANGED switchVars
  BY <1>7 DEF switchVars
<1> QED
  BY <1>1, <1>2, <1>3, <1>4, <1>5, <1>6, <1>7 DEF SwitchNext

(* A router that runs never goes back to an older setting.                 *)
THEOREM NeverGoesBack == SwitchSpec => []SwitchesNeverGoBack
<1>1. SwitchInit => SwitchInv
  BY DEF SwitchInit, SwitchInv, SwitchTypes, RoutesByNewest, Environment
<1>2. SwitchInv => SwitchesNeverGoBack
  BY DEF SwitchInv, RoutesByNewest, SwitchesNeverGoBack
<1> QED
  BY SwitchNextKeeps, <1>1, <1>2, PTL DEF SwitchSpec

-----------------------------------------------------------------------------
(* The Dify app: a write that no other write overtook posts back what the  *)
(* app holds, but for the parts it is about.                               *)
Writes == [pc : {"idle", "post", "verify"}, set : SUBSET Parts, new : Nat,
           cfg : [Parts -> Nat], late : BOOLEAN]

AppTypes ==
  /\ app \in [Parts -> Nat] /\ confirmed \in [Parts -> Nat]
  /\ edits \in Nat /\ unsure \subseteq Parts
  /\ caller \in [Callers -> Writes]

ReadIsCurrent == \A c \in Callers : caller[c].pc = "post" => caller[c].late \/ caller[c].cfg = app

AppInv == AppTypes /\ ReadIsCurrent /\ ConfirmedPartsHold

LEMMA ReadKeepsApp ==
  ASSUME AppInv, NEW c \in Callers, NEW set \in SUBSET Parts, ReadFirst(c, set)
  PROVE  AppInv'
<1> USE DEF AppTypes, AppInv, ReadFirst, AppFault
<1>1. AppTypes'
  <2>1. Write("post", set, edits + 1, app, FALSE) \in Writes
    BY DEF Write, Writes
  <2>2. caller' \in [Callers -> Writes]
    BY <2>1
  <2> QED BY <2>2
<1>2. ConfirmedPartsHold'
  BY DEF ConfirmedPartsHold
<1>3. ReadIsCurrent'
  BY DEF ReadIsCurrent, Write
<1> QED BY <1>1, <1>2, <1>3

LEMMA WriteKeepsApp ==
  ASSUME AppInv, NEW c \in Callers, WriteConfig(c)
  PROVE  AppInv'
<1> DEFINE Late(cs) == [d \in Callers |-> IF cs[d].pc = "post" THEN [cs[d] EXCEPT !.late = TRUE] ELSE cs[d]]
           told == [caller EXCEPT ![c] = Write("verify", caller[c].set, caller[c].new, AsCreated, FALSE)]
           lost == [caller EXCEPT ![c] = NoWrite]
<1> USE DEF AppTypes, AppInv
<1>1. caller[c] \in Writes /\ caller[c].pc = "post" /\ caller[c].set \subseteq Parts
  BY DEF WriteConfig, Writes
<1>2. told \in [Callers -> Writes] /\ lost \in [Callers -> Writes]
  <2>1. Write("verify", caller[c].set, caller[c].new, AsCreated, FALSE) \in Writes
    BY <1>1 DEF Write, Writes, AsCreated
  <2>2. NoWrite \in Writes
    BY DEF NoWrite, Write, Writes, AsCreated
  <2> QED BY <2>1, <2>2
<1>3. ASSUME NEW cs \in [Callers -> Writes]
      PROVE  Late(cs) \in [Callers -> Writes] /\ \A d \in Callers : Late(cs)[d].pc = "post" => Late(cs)[d].late
  <2>1. ASSUME NEW d \in Callers
        PROVE  [cs[d] EXCEPT !.late = TRUE] \in Writes /\ [cs[d] EXCEPT !.late = TRUE].late
    <3>1. cs[d] \in Writes
      OBVIOUS
    <3> QED BY <3>1 DEF Writes
  <2> QED BY <2>1
<1>4. CASE UNCHANGED <<app, unsure>> /\ caller' = lost
  <2>1. AppTypes'
    BY <1>2, <1>4 DEF WriteConfig
  <2>2. ReadIsCurrent'
    BY <1>4 DEF ReadIsCurrent, NoWrite, Write
  <2>3. ConfirmedPartsHold'
    BY <1>4 DEF ConfirmedPartsHold, WriteConfig
  <2> QED BY <2>1, <2>2, <2>3
<1>5. CASE /\ app' = [p \in Parts |-> IF p \in caller[c].set THEN ValueOf(c, p) ELSE caller[c].cfg[p]]
           /\ unsure' = unsure \cup (IF caller[c].late THEN Parts ELSE caller[c].set)
           /\ caller' = Late(told) \/ caller' = Late(lost)
  <2>1. caller[c].new \in Nat /\ caller[c].cfg \in [Parts -> Nat]
    BY <1>1 DEF Writes
  <2>2. app' \in [Parts -> Nat]
    BY <1>5, <2>1 DEF ValueOf
  <2>3. caller' \in [Callers -> Writes]
    <3> HIDE DEF Late, told, lost
    <3> QED BY <1>2, <1>3, <1>5
  <2>4. AppTypes'
    BY <1>1, <1>5, <2>2, <2>3 DEF WriteConfig
  <2>5. ReadIsCurrent'
    BY <1>2, <1>3, <1>5 DEF ReadIsCurrent
  <2>6. ConfirmedPartsHold'
    BY <1>1, <1>5, <2>1 DEF ConfirmedPartsHold, ReadIsCurrent, WriteConfig
  <2> QED BY <2>4, <2>5, <2>6
<1> QED
  BY <1>4, <1>5 DEF WriteConfig

LEMMA VerifyKeepsApp ==
  ASSUME AppInv, NEW c \in Callers, VerifyConfig(c)
  PROVE  AppInv'
<1> USE DEF AppTypes, AppInv
<1>1. caller[c] \in Writes /\ caller[c].set \subseteq Parts /\ caller[c].new \in Nat
  BY DEF Writes
<1>2. NoWrite \in Writes
  BY DEF NoWrite, Write, Writes, AsCreated
<1>3. AppTypes'
  BY <1>1, <1>2 DEF VerifyConfig, ValueOf
<1>4. ReadIsCurrent'
  BY DEF ReadIsCurrent, VerifyConfig, NoWrite, Write
<1>5. ConfirmedPartsHold'
  BY DEF ConfirmedPartsHold, VerifyConfig, Took
<1> QED BY <1>3, <1>4, <1>5

(* What a write confirmed stays until the part is written again.           *)
THEOREM ConfirmedHold == AppSpec => []ConfirmedPartsHold
<1>1. AppInit => AppInv
  <2>1. NoWrite \in Writes /\ AsCreated \in [Parts -> Nat]
    BY DEF NoWrite, Write, Writes, AsCreated
  <2> QED
    BY <2>1 DEF AppInit, AppInv, AppTypes, ReadIsCurrent, ConfirmedPartsHold, AsCreated, NoWrite, Write
<1>2. AppInv /\ [AppNext]_appVars => AppInv'
  <2> SUFFICES ASSUME AppInv, [AppNext]_appVars PROVE AppInv'
    OBVIOUS
  <2>1. CASE UNCHANGED appVars
    BY <2>1 DEF AppInv, AppTypes, ReadIsCurrent, ConfirmedPartsHold, appVars
  <2>2. {"prompt", "variables"} \in SUBSET Parts /\ {"model"} \in SUBSET Parts
        /\ {"datasets"} \in SUBSET Parts /\ {"variables"} \in SUBSET Parts
    BY DEF Parts
  <2> QED
    BY <2>1, <2>2, ReadKeepsApp, WriteKeepsApp, VerifyKeepsApp
    DEF AppNext, UpdateSystemPrompt, PinModel, AttachDataset, EnsureContextVariables
<1>3. AppInv => ConfirmedPartsHold
  BY DEF AppInv
<1> QED
  BY <1>1, <1>2, <1>3, PTL DEF AppSpec

-----------------------------------------------------------------------------
(* A dataset's retrieval: a call that knew the index asks for the method   *)
(* the index takes, and the index is decided once.                         *)
Repairs == [pc : {"idle", "read", "patch", "verify"}, technique : Techniques, knew : BOOLEAN]

RetrievalTypes ==
  /\ technique \in Techniques /\ index \in Techniques \cup {""}
  /\ upload \in [Repairers -> Techniques \cup {""}]
  /\ repair \in [Repairers -> Repairs]
  /\ settled \in BOOLEAN

KnewTheIndex ==
  \A r \in Repairers : repair[r].knew => index # "" /\ repair[r].technique = index

SettledIsSound == settled => index # "" /\ method = RetrievalModel(index)

RetrievalInv == RetrievalTypes /\ KnewTheIndex /\ SettledIsSound

LEMMA RepairTypes ==
  ASSUME NEW pc \in {"idle", "read", "patch", "verify"}, NEW t \in Techniques, NEW knew \in BOOLEAN
  PROVE  Repair(pc, t, knew) \in Repairs
BY DEF Repair, Repairs

LEMMA RetrievalNextKeeps == RetrievalInv /\ [RetrievalNext]_retrievalVars => RetrievalInv'
<1> SUFFICES ASSUME RetrievalInv, [RetrievalNext]_retrievalVars PROVE RetrievalInv'
  OBVIOUS
<1> USE DEF RetrievalInv, RetrievalTypes, KnewTheIndex, SettledIsSound
<1>t. "" \notin Techniques /\ FromEnv \in Techniques /\ "economy" \in Techniques
  BY DEF Techniques, FromEnv
<1>n. NoRepair \in Repairs /\ NoRepair.knew = FALSE
  BY <1>t, RepairTypes DEF NoRepair, Repair
<1>1. CASE SwitchTechnique
  BY <1>1 DEF SwitchTechnique
<1>2. ASSUME NEW u \in Repairers, Upload(u) PROVE RetrievalInv'
  BY <1>2 DEF Upload
<1>3. ASSUME NEW u \in Repairers, CreateDocument(u) PROVE RetrievalInv'
  BY <1>3 DEF CreateDocument
<1>4. ASSUME NEW r \in Repairers, SetRetrieval(r) PROVE RetrievalInv'
  <2>1. PICK t \in Techniques : repair' = [repair EXCEPT ![r] = Repair("read", t, FALSE)]
    BY <1>4 DEF SetRetrieval
  <2>2. Repair("read", t, FALSE) \in Repairs /\ Repair("read", t, FALSE).knew = FALSE
    BY RepairTypes DEF Repair
  <2> QED BY <1>4, <2>1, <2>2 DEF SetRetrieval
<1>5. ASSUME NEW r \in Repairers, ReadDataset(r) PROVE RetrievalInv'
  <2> DEFINE knew == (index # "")  read == Repair("patch", repair[r].technique, knew)
  <2>0. repair[r].technique \in Techniques
    BY DEF Repairs
  <2>1. read \in Repairs /\ read.knew = (index # "") /\ read.technique = repair[r].technique
    BY <2>0, RepairTypes DEF Repair
  <2>2. CASE Accepts(r) /\ repair' = [repair EXCEPT ![r] = read]
    <3> HIDE DEF read
    <3> QED BY <1>5, <2>1, <2>2 DEF ReadDataset, Accepts
  <2>3. CASE repair' = [repair EXCEPT ![r] = NoRepair]
    BY <1>5, <1>n, <2>3 DEF ReadDataset
  <2> QED BY <1>5, <2>2, <2>3 DEF ReadDataset
<1>6. ASSUME NEW r \in Repairers, PatchDataset(r) PROVE RetrievalInv'
  <2>1. repair' \in [Repairers -> Repairs]
        /\ \A s \in Repairers : repair'[s].knew => repair[s].knew /\ repair'[s].technique = repair[s].technique
    <3>1. CASE repair' = [repair EXCEPT ![r].pc = "verify"]
      BY <3>1 DEF Repairs
    <3>2. CASE repair' = [repair EXCEPT ![r] = NoRepair]
      BY <1>n, <3>2
    <3> QED BY <1>6, <3>1, <3>2 DEF PatchDataset
  <2>2. repair[r].technique \in Techniques /\ repair[r].knew \in BOOLEAN
    BY DEF Repairs
  <2>3. CASE method' = RetrievalModel(repair[r].technique) /\ settled' = (settled /\ repair[r].knew)
    <3>1. settled' \in BOOLEAN /\ (settled' => settled /\ repair[r].knew)
      BY <2>2, <2>3
    <3>2. SettledIsSound'
      BY <1>6, <2>3, <3>1 DEF PatchDataset
    <3>3. KnewTheIndex'
      BY <1>6, <2>1 DEF PatchDataset
    <3> QED BY <1>6, <2>1, <3>1, <3>2, <3>3 DEF PatchDataset
  <2>4. CASE UNCHANGED <<method, settled>>
    BY <1>6, <2>1, <2>4 DEF PatchDataset
  <2> QED BY <1>6, <2>3, <2>4 DEF PatchDataset
<1>7. ASSUME NEW r \in Repairers, VerifyDataset(r) PROVE RetrievalInv'
  <2>1. repair' = [repair EXCEPT ![r] = NoRepair]
        /\ UNCHANGED <<technique, techniques, index, method, upload>>
    BY <1>7 DEF VerifyDataset
  <2>2. CASE method = RetrievalModel(repair[r].technique) /\ settled' = (settled \/ repair[r].knew)
    <3>1. repair[r].knew \in BOOLEAN
      BY DEF Repairs
    <3>2. settled' \in BOOLEAN /\ (settled' => settled \/ repair[r].knew)
      BY <2>2, <3>1
    <3> QED BY <1>n, <2>1, <2>2, <3>2
  <2>3. CASE UNCHANGED settled
    BY <1>n, <2>1, <2>3
  <2> QED BY <1>7, <2>2, <2>3 DEF VerifyDataset
<1>8. CASE UNCHANGED retrievalVars
  BY <1>8 DEF retrievalVars
<1> QED
  BY <1>1, <1>2, <1>3, <1>4, <1>5, <1>6, <1>7, <1>8 DEF RetrievalNext

(* A dataset repaired once its index was decided stays soundly searched.   *)
THEOREM StaysSound == RetrievalSpec => []RepairedStaysSound
<1>1. RetrievalInit => RetrievalInv
  <2>1. NoRepair \in Repairs /\ NoRepair.knew = FALSE
    BY DEF NoRepair, Repair, Repairs, Techniques
  <2> QED
    BY <2>1 DEF RetrievalInit, RetrievalInv, RetrievalTypes, KnewTheIndex, SettledIsSound
<1>2. RetrievalInv => RepairedStaysSound
  BY DEF RetrievalInv, SettledIsSound, RetrievalTypes, RepairedStaysSound, ClassifyRetrieval, RetrievalModel
<1> QED
  BY RetrievalNextKeeps, <1>1, <1>2, PTL DEF RetrievalSpec

-----------------------------------------------------------------------------
(* A line's settings: what a request will write back unchanged is what was *)
(* meant to be there, unless another request has its block in hand too, or *)
(* wrote it while a binding had the document.                              *)
Requests == [pc : {"idle", "write", "bind", "drop"}, set : SUBSET Settings, read : [Settings -> Nat],
             rev : Nat, todo : SUBSET RouteChannels, ok : BOOLEAN]

HasDocument(r) == r.pc \in {"write", "bind"}
Touches(r, b) == HasDocument(r) /\ \E g \in r.set : BlockOf(g) = b
WritesBack(r, f) == f \notin r.set /\ (Touches(r, BlockOf(f)) \/ r.pc = "bind")

LineTypes ==
  /\ stored \in [Settings -> Nat] /\ intended \in [Settings -> Nat] /\ rev \in Nat
  /\ editor \in [Editors -> Requests]
  /\ \A e \in Editors : editor[e].pc = "bind" => editor[e].set = {"dataset"}

ReadAsMeant ==
  \A e \in Editors, f \in Settings :
    WritesBack(editor[e], f) => editor[e].read[f] = intended[f] \/ BlockOf(f) \in crossed

SharedIsCrossed ==
  \A e, d \in Editors, f \in Settings :
    e # d /\ Touches(editor[e], BlockOf(f)) /\ Touches(editor[d], BlockOf(f)) => BlockOf(f) \in crossed

LineInv == LineTypes /\ ReadAsMeant /\ SharedIsCrossed /\ SettingsKept

LEMMA RequestTypes ==
  ASSUME NEW pc \in {"idle", "write", "bind", "drop"}, NEW set \in SUBSET Settings, NEW read \in [Settings -> Nat],
         NEW r \in Nat, NEW todo \in SUBSET RouteChannels, NEW ok \in BOOLEAN
  PROVE  Request(pc, set, read, r, todo, ok) \in Requests
BY DEF Request, Requests

LEMMA NothingInHand == NoRequest \in Requests /\ NoRequest.pc = "idle" /\ Unread \in [Settings -> Nat]
BY DEF NoRequest, Request, Requests, Unread

LEMMA EditorParts ==
  ASSUME LineTypes, NEW e \in Editors
  PROVE  /\ editor[e].set \in SUBSET Settings /\ editor[e].read \in [Settings -> Nat]
         /\ editor[e].rev \in Nat /\ editor[e].todo \in SUBSET RouteChannels /\ editor[e].ok \in BOOLEAN
BY DEF LineTypes, Requests

\* A step that takes no block in hand and writes nothing.
LEMMA LetsGo ==
  ASSUME LineInv, editor' \in [Editors -> Requests], UNCHANGED <<stored, intended, rev, crossed>>,
         \A e \in Editors : editor'[e] = editor[e] \/ ~HasDocument(editor'[e])
  PROVE  LineInv'
<1> USE DEF LineInv, LineTypes
<1>0. \A e \in Editors : editor'[e].pc = "bind" => editor'[e] = editor[e]
  BY DEF HasDocument
<1>1. ReadAsMeant'
  BY DEF ReadAsMeant, WritesBack, Touches, HasDocument
<1>2. SharedIsCrossed'
  BY DEF SharedIsCrossed, Touches
<1> QED BY <1>0, <1>1, <1>2 DEF SettingsKept

LEMMA ReadKeepsSettings ==
  ASSUME LineInv, NEW e \in Editors, NEW pc \in {"write", "bind"}, NEW set \in SUBSET Settings, Read(e, pc, set),
         pc = "bind" => set = {"dataset"}
  PROVE  LineInv'
<1> DEFINE r == Request(pc, set, stored, 0, {}, FALSE)
<1> USE DEF LineInv, LineTypes
<1>1. r \in Requests /\ r.pc = pc /\ r.set = set /\ r.read = stored
  BY RequestTypes DEF Request
<1>2. /\ editor' = [editor EXCEPT ![e] = r] /\ UNCHANGED <<stored, intended, rev>>
      /\ crossed \subseteq crossed'
  BY DEF Read
<1>3. ASSUME NEW d \in Editors, NEW f \in Settings, Touches(editor[d], BlockOf(f)), Touches(r, BlockOf(f))
      PROVE  BlockOf(f) \in crossed'
  <2>1. BlockOf(f) \in Blocks(set) /\ BlockOf(f) \in Blocks(editor[d].set) /\ editor[d].pc \in {"write", "bind"}
    BY <1>1, <1>3 DEF Touches, Blocks, HasDocument
  <2> QED BY <2>1 DEF Read
<1> HIDE DEF r
<1>4. LineTypes'
  BY <1>1, <1>2
<1>5. ReadAsMeant'
  <2> SUFFICES ASSUME NEW d \in Editors, NEW f \in Settings, WritesBack(editor'[d], f)
               PROVE  editor'[d].read[f] = intended[f] \/ BlockOf(f) \in crossed
    BY <1>2 DEF ReadAsMeant
  <2>1. CASE d = e
    BY <1>1, <1>2, <2>1 DEF SettingsKept
  <2>2. CASE d # e
    <3>1. editor'[d] = editor[d]
      BY <1>2, <2>2
    <3> QED BY <3>1 DEF ReadAsMeant
  <2> QED BY <2>1, <2>2
<1>6. SharedIsCrossed'
  BY <1>2, <1>3 DEF SharedIsCrossed
<1>7. SettingsKept'
  BY <1>2 DEF SettingsKept
<1> QED BY <1>4, <1>5, <1>6, <1>7

\* A request's write: what it leaves as it was is as meant, and the settings it
\* sets are in nobody else's hands, or known to be.
LEMMA RequestWrites ==
  ASSUME LineInv, NEW e \in Editors, editor' \in [Editors -> Requests],
         \A d \in Editors : HasDocument(editor'[d]) => d # e /\ editor'[d] = editor[d],
         HasDocument(editor[e]), stored' \in [Settings -> Nat], rev' = rev + 1, crossed \subseteq crossed',
         intended' = [f \in Settings |-> IF Changed(e, f) THEN rev + 1 ELSE intended[f]],
         \A f \in Settings :
            stored'[f] = IF Changed(e, f) THEN rev + 1
                         ELSE IF WritesBack(editor[e], f) THEN editor[e].read[f] ELSE stored[f],
         \A d \in Editors, f \in editor[e].set : d # e /\ editor[d].pc = "bind" => BlockOf(f) \in crossed'
  PROVE  LineInv'
<1> USE DEF LineInv, LineTypes, Changed
<1>1. editor[e].set \in SUBSET Settings /\ rev + 1 \in Nat
  BY EditorParts
<1>2. LineTypes'
  <2>1. \A d \in Editors : editor'[d].pc = "bind" => editor'[d] = editor[d]
    BY DEF HasDocument
  <2> QED BY <1>1, <2>1
<1>3. ASSUME NEW f \in Settings, BlockOf(f) \notin crossed' PROVE stored'[f] = intended'[f]
  <2>1. CASE f \in editor[e].set
    BY <2>1
  <2>2. CASE f \notin editor[e].set /\ WritesBack(editor[e], f)
    <3>1. editor[e].read[f] = intended[f]
      BY <1>3, <2>2 DEF ReadAsMeant
    <3> QED BY <2>2, <3>1
  <2>3. CASE f \notin editor[e].set /\ ~WritesBack(editor[e], f)
    <3>1. stored[f] = intended[f]
      BY <1>3 DEF SettingsKept
    <3> QED BY <2>3, <3>1
  <2> QED BY <2>1, <2>2, <2>3
<1>4. SharedIsCrossed'
  BY DEF SharedIsCrossed, Touches
<1>5. ReadAsMeant'
  <2> SUFFICES ASSUME NEW d \in Editors, NEW f \in Settings, BlockOf(f) \notin crossed', WritesBack(editor'[d], f)
               PROVE  editor'[d].read[f] = intended'[f]
    BY DEF ReadAsMeant
  <2>1. d # e /\ editor'[d] = editor[d]
    BY DEF WritesBack, Touches, HasDocument
  <2>2. editor[d].read[f] = intended[f]
    BY <2>1 DEF ReadAsMeant
  <2>3. f \notin editor[e].set
    <3>1. CASE editor[d].pc = "bind"
      BY <2>1, <3>1
    <3>2. CASE Touches(editor[d], BlockOf(f))
      <4>1. ~Touches(editor[e], BlockOf(f))
        BY <2>1, <3>2 DEF SharedIsCrossed
      <4> QED BY <4>1 DEF Touches
    <3> QED BY <2>1, <3>1, <3>2 DEF WritesBack
  <2>4. intended'[f] = intended[f]
    BY <2>3
  <2> QED BY <2>1, <2>2, <2>4
<1> QED BY <1>2, <1>3, <1>4, <1>5 DEF SettingsKept

LEMMA WriteKeepsSettings ==
  ASSUME LineInv, NEW e \in Editors, WriteSettings(e)
  PROVE  LineInv'
<1>1. editor[e].pc = "write" /\ editor[e].set \in SUBSET Settings /\ editor[e].read \in [Settings -> Nat]
  BY EditorParts DEF LineInv, WriteSettings
<1>2. editor' \in [Editors -> Requests] /\ \A d \in Editors : HasDocument(editor'[d]) => d # e /\ editor'[d] = editor[d]
  <2> DEFINE r == Request("drop", {}, Unread, rev + 1, RouteChannels, TRUE)
  <2>0. rev + 1 \in Nat /\ Unread \in [Settings -> Nat]
    BY NothingInHand DEF LineInv, LineTypes
  <2>1. r \in Requests /\ ~HasDocument(r) /\ NoRequest \in Requests /\ ~HasDocument(NoRequest)
    BY <2>0, NothingInHand DEF Request, Requests, HasDocument
  <2>2. editor' = [editor EXCEPT ![e] = r] \/ editor' = [editor EXCEPT ![e] = NoRequest]
    BY DEF WriteSettings
  <2> HIDE DEF r
  <2> QED BY <2>1, <2>2 DEF LineInv, LineTypes
<1>3. CASE UNCHANGED <<stored, intended, rev, crossed>>
  BY <1>2, <1>3, LetsGo
<1>4. CASE /\ stored' = SetConfigKey(e) /\ rev' = rev + 1
           /\ intended' = [f \in Settings |-> IF Changed(e, f) THEN rev + 1 ELSE intended[f]]
           /\ crossed' = IF \E d \in Editors : editor[d].pc = "bind"
                         THEN crossed \cup Blocks(editor[e].set) ELSE crossed
  <2>1. stored' \in [Settings -> Nat]
    BY <1>1, <1>4 DEF SetConfigKey, LineInv, LineTypes
  <2>2. ASSUME NEW f \in Settings
        PROVE  stored'[f] = IF Changed(e, f) THEN rev + 1
                            ELSE IF WritesBack(editor[e], f) THEN editor[e].read[f] ELSE stored[f]
    BY <1>1, <1>4, <2>2 DEF SetConfigKey, WritesBack, Touches, HasDocument, Changed
  <2>3. \A d \in Editors, f \in editor[e].set : d # e /\ editor[d].pc = "bind" => BlockOf(f) \in crossed'
    BY <1>4 DEF Blocks
  <2>4. HasDocument(editor[e]) /\ crossed \subseteq crossed'
    BY <1>1, <1>4 DEF HasDocument
  <2> QED BY <1>2, <1>4, <2>1, <2>2, <2>3, <2>4, RequestWrites
<1> QED BY <1>3, <1>4 DEF WriteSettings

LEMMA BindingKeepsSettings ==
  ASSUME LineInv, NEW e \in Editors, WriteBinding(e)
  PROVE  LineInv'
<1>1. /\ editor[e].pc = "bind" /\ editor[e].set \in SUBSET Settings /\ editor[e].read \in [Settings -> Nat]
      /\ editor' = [editor EXCEPT ![e] = NoRequest] /\ UNCHANGED crossed
  BY EditorParts DEF LineInv, WriteBinding
<1>2. editor' \in [Editors -> Requests] /\ \A d \in Editors : HasDocument(editor'[d]) => d # e /\ editor'[d] = editor[d]
  <2>1. NoRequest \in Requests /\ ~HasDocument(NoRequest)
    BY NothingInHand DEF HasDocument
  <2> QED BY <1>1, <2>1 DEF LineInv, LineTypes
<1>3. CASE UNCHANGED <<stored, intended, rev>>
  BY <1>1, <1>2, <1>3, LetsGo
<1>4. CASE /\ stored' = [f \in Settings |-> IF Changed(e, f) THEN rev + 1 ELSE editor[e].read[f]]
           /\ intended' = [f \in Settings |-> IF Changed(e, f) THEN rev + 1 ELSE intended[f]]
           /\ rev' = rev + 1
  <2>1. stored' \in [Settings -> Nat]
    BY <1>1, <1>4 DEF LineInv, LineTypes
  <2>2. \A f \in Settings : stored'[f] = IF Changed(e, f) THEN rev + 1
                                         ELSE IF WritesBack(editor[e], f) THEN editor[e].read[f] ELSE stored[f]
    BY <1>1, <1>4 DEF WritesBack, Changed
  <2>3. ASSUME NEW d \in Editors, NEW f \in editor[e].set, d # e, editor[d].pc = "bind" PROVE BlockOf(f) \in crossed
    <3>1. editor[e].set = {"dataset"} /\ editor[d].set = {"dataset"} /\ f = "dataset" /\ f \in Settings
      BY <1>1, <2>3 DEF LineInv, LineTypes, Settings
    <3>2. Touches(editor[e], BlockOf(f)) /\ Touches(editor[d], BlockOf(f))
      BY <1>1, <2>3, <3>1 DEF Touches, HasDocument
    <3> QED BY <2>3, <3>1, <3>2 DEF LineInv, SharedIsCrossed
  <2>4. HasDocument(editor[e])
    BY <1>1 DEF HasDocument
  <2> QED BY <1>1, <1>2, <1>4, <2>1, <2>2, <2>3, <2>4, RequestWrites
<1> QED BY <1>3, <1>4 DEF WriteBinding

\* What the console's pages read before they write.
LEMMA RequestsRead ==
  ASSUME NEW e \in Editors,
         \/ UpdateThreshold(e) \/ UpdateHandoffRules(e) \/ UpdateSurvey(e) \/ PutConfig(e)
         \/ SaveDataset(e) \/ UpdateDifyBinding(e)
  PROVE  \E pc \in {"write", "bind"}, set \in SUBSET Settings : Read(e, pc, set) /\ (pc = "bind" => set = {"dataset"})
<1>1. CASE UpdateDifyBinding(e)
  BY <1>1 DEF UpdateDifyBinding, Settings
<1>2. CASE \E set \in SUBSET Settings : LoadSettings(e, set)
  BY <1>2 DEF LoadSettings
<1>3. \/ UpdateDifyBinding(e)
      \/ \E set \in SUBSET Settings : LoadSettings(e, set)
  BY DEF UpdateThreshold, UpdateHandoffRules, UpdateSurvey, PutConfig, SaveDataset, Settings
<1> QED BY <1>1, <1>2, <1>3

LEMMA LineNextKeeps == LineInv /\ [LineNext]_lineVars => LineInv'
<1> SUFFICES ASSUME LineInv, [LineNext]_lineVars PROVE LineInv'
  OBVIOUS
<1>1. ASSUME NEW e \in Editors,
             \/ UpdateThreshold(e) \/ UpdateHandoffRules(e) \/ UpdateSurvey(e) \/ PutConfig(e)
             \/ SaveDataset(e) \/ UpdateDifyBinding(e)
      PROVE  LineInv'
  <2>1. PICK pc \in {"write", "bind"}, set \in SUBSET Settings : Read(e, pc, set) /\ (pc = "bind" => set = {"dataset"})
    BY <1>1, RequestsRead
  <2> QED BY <2>1, ReadKeepsSettings
<1>2. ASSUME NEW e \in Editors, WriteSettings(e) \/ WriteBinding(e) PROVE LineInv'
  BY <1>2, WriteKeepsSettings, BindingKeepsSettings
<1>3. ASSUME NEW e \in Editors, AnswerEditor(e) PROVE LineInv'
  <2>1. editor' = [editor EXCEPT ![e] = NoRequest] /\ UNCHANGED <<stored, intended, rev, crossed>>
    BY <1>3 DEF AnswerEditor, ListFailed
  <2> QED BY <2>1, NothingInHand, LetsGo DEF LineInv, LineTypes, HasDocument
<1>4. ASSUME NEW e \in Editors, NEW c \in RouteChannels, DropRoute(e, c) PROVE LineInv'
  <2> DEFINE r(ok) == Request("drop", {}, Unread, editor[e].rev, editor[e].todo \ {c}, ok)
  <2>1. \A ok \in BOOLEAN : r(ok) \in Requests /\ r(ok).pc = "drop"
    BY EditorParts, NothingInHand, RequestTypes DEF LineInv, Request
  <2>2. PICK ok \in BOOLEAN : editor' = [editor EXCEPT ![e] = r(ok)]
    BY <1>4, EditorParts DEF LineInv, DropRoute
  <2>3. UNCHANGED <<stored, intended, rev, crossed>>
    BY <1>4 DEF DropRoute
  <2> HIDE DEF r
  <2> QED BY <2>1, <2>2, <2>3, LetsGo DEF LineInv, LineTypes, HasDocument
<1>5. ASSUME NEW c \in RouteChannels, QueryRoute(c) \/ ExpireRoute(c) PROVE LineInv'
  BY <1>5, LetsGo DEF LineInv, LineTypes, QueryRoute, ExpireRoute
<1>6. CASE SetRouteCache \/ UNCHANGED lineVars
  BY <1>6, LetsGo DEF LineInv, LineTypes, SetRouteCache, lineVars
<1> QED
  BY <1>1, <1>2, <1>3, <1>4, <1>5, <1>6 DEF LineNext

(* A setting keeps what was last written to it, unless two requests had    *)
(* its block in hand or a binding the whole document (SetConfigKey,        *)
(* UpdateDifyBinding, and the pages that read before they write).          *)
THEOREM SettingsAreKept == LineSpec => []SettingsKept
<1>1. LineInit => LineInv
  BY NothingInHand
  DEF LineInit, LineInv, LineTypes, ReadAsMeant, WritesBack, SharedIsCrossed, SettingsKept, Touches, HasDocument
<1>2. LineInv => SettingsKept
  BY DEF LineInv
<1> QED
  BY LineNextKeeps, <1>1, <1>2, PTL DEF LineSpec

(* An answer with cache_invalidated: a copy older than the write it answers *)
(* is gone, or comes from a read that was under way.                       *)
FillTypes ==
  /\ cached \in [RouteChannels -> Nat] /\ rev \in Nat \ {0} /\ reported \in Nat
  /\ filling.rev \in Nat /\ filling.late \in BOOLEAN
  /\ editor \in [Editors -> Requests]
  /\ reported <= rev /\ \A e \in Editors : editor[e].rev <= rev

\* Channel c is not routed by a copy older than r, nor about to be.
Dropped(k, fill, old, c, r) ==
  /\ k[c] # 0 /\ k[c] < r => c \in old
  /\ fill # NoFill /\ fill.channel = c /\ fill.rev < r => fill.late

RouteDropped(c, r) == Dropped(cached, filling, straddled, c, r)
WillBeDropped(c, r) == Dropped(cached', filling', straddled', c, r)

DroppedAsSaid ==
  /\ \A c \in RouteChannels : RouteDropped(c, reported)
  /\ \A e \in Editors, c \in RouteChannels :
       editor[e].pc = "drop" /\ editor[e].ok /\ c \notin editor[e].todo => RouteDropped(c, editor[e].rev)

RouteInv == FillTypes /\ DroppedAsSaid

\* What the router and the console do to the cache never makes a copy older.
LEMMA StaysDropped ==
  ASSUME RouteInv, NEW c \in RouteChannels, NEW r \in Nat, r <= rev, RouteDropped(c, r),
         \/ UNCHANGED <<cached, filling, straddled>>
         \/ SetRouteCache
         \/ \E d \in RouteChannels : QueryRoute(d) \/ ExpireRoute(d)
         \/ \E d \in RouteChannels, q \in Nat :
              /\ cached' = [cached EXCEPT ![d] = 0] /\ UNCHANGED straddled
              /\ filling' = Fill(filling.channel, filling.rev, filling.late \/ (filling.channel = d /\ filling.rev < q))
  PROVE  WillBeDropped(c, r)
<1> USE DEF RouteInv, FillTypes, Dropped, RouteDropped, WillBeDropped
<1>1. CASE UNCHANGED <<cached, filling, straddled>>
  BY <1>1
<1>2. CASE SetRouteCache
  <2>1. filling # NoFill /\ filling' = NoFill
    BY <1>2 DEF SetRouteCache
  <2>2. CASE UNCHANGED <<cached, straddled>>
    BY <2>1, <2>2
  <2>3. CASE /\ cached' = [cached EXCEPT ![filling.channel] = filling.rev]
             /\ straddled' = IF filling.late THEN straddled \cup {filling.channel} ELSE straddled \ {filling.channel}
    <3>1. CASE c = filling.channel
      BY <2>1, <2>3, <3>1
    <3>2. CASE c # filling.channel
      BY <2>1, <2>3, <3>2
    <3> QED BY <3>1, <3>2
  <2> QED BY <1>2, <2>2, <2>3 DEF SetRouteCache
<1>3. ASSUME NEW d \in RouteChannels, QueryRoute(d) PROVE WillBeDropped(c, r)
  BY <1>3 DEF QueryRoute, Fill
<1>4. ASSUME NEW d \in RouteChannels, ExpireRoute(d) PROVE WillBeDropped(c, r)
  BY <1>4 DEF ExpireRoute
<1>5. ASSUME NEW d \in RouteChannels, NEW q \in Nat,
             cached' = [cached EXCEPT ![d] = 0], UNCHANGED straddled,
             filling' = Fill(filling.channel, filling.rev, filling.late \/ (filling.channel = d /\ filling.rev < q))
      PROVE  WillBeDropped(c, r)
  <2>1. cached'[c] = cached[c] \/ cached'[c] = 0
    BY <1>5
  <2>2. filling'.channel = filling.channel /\ filling'.rev = filling.rev /\ (filling.late => filling'.late)
    BY <1>5 DEF Fill
  <2>3. CASE filling # NoFill
    BY <1>5, <2>1, <2>2, <2>3
  <2>4. CASE filling = NoFill
    <3>1. filling'.rev = 0 /\ filling'.channel = "none"
      BY <2>2, <2>4 DEF NoFill, Fill
    <3>2. filling' = NoFill \/ filling'.late
      BY <1>5, <2>4 DEF NoFill, Fill
    <3> QED BY <1>5, <2>1, <3>2
  <2> QED BY <2>3, <2>4
<1> QED BY <1>1, <1>2, <1>3, <1>4, <1>5

\* A step of the cache and the router alone.
LEMMA RouterKeepsRoutes ==
  ASSUME RouteInv, UNCHANGED <<editor, rev, reported>>,
         cached' \in [RouteChannels -> Nat], filling'.rev \in Nat, filling'.late \in BOOLEAN,
         \A c \in RouteChannels, r \in Nat : r <= rev /\ RouteDropped(c, r) => WillBeDropped(c, r)
  PROVE  RouteInv'
<1> USE DEF RouteInv, FillTypes
<1>1. \A e \in Editors : editor[e].rev \in Nat
  BY DEF Requests
<1>2. DroppedAsSaid'
  BY <1>1 DEF DroppedAsSaid, RouteDropped, WillBeDropped
<1> QED BY <1>2

\* A step of one request; its own share of the promise comes with it.
LEMMA EditorKeepsRoutes ==
  ASSUME RouteInv, NEW e \in Editors, editor' \in [Editors -> Requests],
         \A d \in Editors : d # e => editor'[d] = editor[d],
         rev' \in Nat, rev <= rev', editor'[e].rev <= rev', reported' \in Nat, reported' <= rev',
         cached' \in [RouteChannels -> Nat], filling'.rev \in Nat, filling'.late \in BOOLEAN,
         \A c \in RouteChannels, r \in Nat : r <= rev /\ RouteDropped(c, r) => WillBeDropped(c, r),
         \A c \in RouteChannels : WillBeDropped(c, reported'),
         \A c \in RouteChannels : editor'[e].pc = "drop" /\ editor'[e].ok /\ c \notin editor'[e].todo
                                    => WillBeDropped(c, editor'[e].rev)
  PROVE  RouteInv'
<1> USE DEF RouteInv, FillTypes
<1>1. \A d \in Editors : editor[d].rev \in Nat
  BY DEF Requests
<1>2. ASSUME NEW d \in Editors PROVE editor'[d].rev <= rev'
  <2>1. CASE d # e
    BY <1>1, <2>1
  <2> QED BY <2>1
<1>3. FillTypes'
  BY <1>2
<1>4. ASSUME NEW d \in Editors, NEW c \in RouteChannels,
             editor'[d].pc = "drop", editor'[d].ok, c \notin editor'[d].todo
      PROVE  WillBeDropped(c, editor'[d].rev)
  <2>1. CASE d = e
    BY <1>4, <2>1
  <2>2. CASE d # e
    <3>1. editor'[d] = editor[d]
      BY <2>2
    <3>2. RouteDropped(c, editor[d].rev) /\ editor[d].rev <= rev
      BY <1>4, <3>1 DEF DroppedAsSaid
    <3> QED BY <1>1, <3>1, <3>2
  <2> QED BY <2>1, <2>2
<1> QED BY <1>3, <1>4 DEF DroppedAsSaid, RouteDropped, WillBeDropped

LEMMA RequestKeepsRoutes ==
  ASSUME RouteInv, NEW e \in Editors, NEW set \in SUBSET Settings, stored \in [Settings -> Nat],
         (\E pc \in {"write", "bind"} : Read(e, pc, set)) \/ WriteSettings(e) \/ WriteBinding(e) \/ AnswerEditor(e)
  PROVE  RouteInv'
<1>0. /\ cached \in [RouteChannels -> Nat] /\ rev \in Nat /\ filling.rev \in Nat /\ filling.late \in BOOLEAN
      /\ reported \in Nat /\ reported <= rev
      /\ editor \in [Editors -> Requests] /\ editor[e].rev \in Nat /\ editor[e].rev <= rev
      /\ \A c \in RouteChannels : RouteDropped(c, reported)
      /\ Unread \in [Settings -> Nat] /\ NoRequest \in Requests /\ NoRequest.pc = "idle" /\ NoRequest.rev = 0
  BY NothingInHand DEF RouteInv, FillTypes, Requests, DroppedAsSaid, NoRequest, Request
<1>e. \A q \in Requests : editor' = [editor EXCEPT ![e] = q] =>
        /\ editor' \in [Editors -> Requests] /\ editor'[e] = q
        /\ \A d \in Editors : d # e => editor'[d] = editor[d]
  BY <1>0
<1>1. UNCHANGED <<cached, filling, straddled>>
  BY DEF Read, WriteSettings, WriteBinding, AnswerEditor, ListFailed
<1>2. /\ \A c \in RouteChannels, r \in Nat : r <= rev /\ RouteDropped(c, r) => WillBeDropped(c, r)
      /\ cached' \in [RouteChannels -> Nat] /\ filling'.rev \in Nat /\ filling'.late \in BOOLEAN
  BY <1>0, <1>1 DEF Dropped, RouteDropped, WillBeDropped
<1>3. ASSUME NEW pc \in {"write", "bind"}, Read(e, pc, set) PROVE RouteInv'
  <2> DEFINE q == Request(pc, set, stored, 0, {}, FALSE)
  <2>1. q \in Requests /\ q.pc # "drop" /\ q.rev = 0
    BY DEF Request, Requests
  <2>2. editor' = [editor EXCEPT ![e] = q] /\ UNCHANGED <<rev, reported>>
    BY <1>3 DEF Read
  <2>3. \A c \in RouteChannels : WillBeDropped(c, reported')
    BY <1>0, <1>1, <2>2 DEF Dropped, RouteDropped, WillBeDropped
  <2> HIDE DEF q
  <2>4. /\ editor' \in [Editors -> Requests] /\ editor'[e].pc # "drop" /\ editor'[e].rev = 0
        /\ \A d \in Editors : d # e => editor'[d] = editor[d]
    BY <1>e, <2>1, <2>2
  <2>5. rev' \in Nat /\ rev <= rev' /\ editor'[e].rev <= rev' /\ reported' \in Nat /\ reported' <= rev'
    BY <1>0, <2>2, <2>4
  <2> QED BY <1>2, <2>3, <2>4, <2>5, EditorKeepsRoutes
<1>4. CASE WriteSettings(e) \/ WriteBinding(e)
  <2> DEFINE q == Request("drop", {}, Unread, rev + 1, RouteChannels, TRUE)
  <2>1. q \in Requests /\ q.todo = RouteChannels /\ q.rev = rev + 1
    BY <1>0 DEF Request, Requests
  <2>2. \A c \in RouteChannels : WillBeDropped(c, reported')
    BY <1>0, <1>1, <1>4 DEF Dropped, RouteDropped, WillBeDropped, WriteSettings, WriteBinding
  <2>3. /\ reported' = reported
        /\ \/ rev' = rev + 1 /\ editor' = [editor EXCEPT ![e] = q]
           \/ rev' \in {rev, rev + 1} /\ editor' = [editor EXCEPT ![e] = NoRequest]
    BY <1>4 DEF WriteSettings, WriteBinding
  <2> HIDE DEF q
  <2>4. CASE rev' = rev + 1 /\ editor' = [editor EXCEPT ![e] = q]
    <3>1. /\ editor' \in [Editors -> Requests] /\ editor'[e].todo = RouteChannels /\ editor'[e].rev = rev + 1
          /\ \A d \in Editors : d # e => editor'[d] = editor[d]
      BY <1>e, <2>1, <2>4
    <3>2. rev' \in Nat /\ rev <= rev' /\ editor'[e].rev <= rev' /\ reported' \in Nat /\ reported' <= rev'
      BY <1>0, <2>3, <2>4, <3>1
    <3> QED BY <1>2, <2>2, <3>1, <3>2, EditorKeepsRoutes
  <2>5. CASE rev' \in {rev, rev + 1} /\ editor' = [editor EXCEPT ![e] = NoRequest]
    <3>1. /\ editor' \in [Editors -> Requests] /\ editor'[e].pc = "idle" /\ editor'[e].rev = 0
          /\ \A d \in Editors : d # e => editor'[d] = editor[d]
      BY <1>0, <1>e, <2>5
    <3>2. rev' \in Nat /\ rev <= rev' /\ editor'[e].rev <= rev' /\ reported' \in Nat /\ reported' <= rev'
      BY <1>0, <2>3, <2>5, <3>1
    <3> QED BY <1>2, <2>2, <3>1, <3>2, EditorKeepsRoutes
  <2> QED BY <2>3, <2>4, <2>5
<1>5. CASE AnswerEditor(e)
  <2>1. editor' = [editor EXCEPT ![e] = NoRequest] /\ rev' = rev
        /\ (\/ reported' = reported
            \/ reported' = editor[e].rev /\ editor[e].ok /\ editor[e].pc = "drop" /\ editor[e].todo = {})
    <3>0. rev' = rev /\ editor[e].pc = "drop"
      BY <1>5 DEF AnswerEditor
    <3>1. CASE ListFailed(e)
      BY <3>0, <3>1 DEF ListFailed
    <3>2. CASE editor[e].todo = {} /\ editor' = [editor EXCEPT ![e] = NoRequest]
               /\ reported' = IF editor[e].ok /\ reported < editor[e].rev THEN editor[e].rev ELSE reported
      BY <3>0, <3>2
    <3> QED BY <1>5, <3>1, <3>2 DEF AnswerEditor
  <2>2. reported' \in Nat /\ reported' <= rev
    BY <1>0, <2>1
  <2>3. \A c \in RouteChannels : WillBeDropped(c, reported')
    <3>1. \A c \in RouteChannels : RouteDropped(c, reported')
      BY <1>0, <2>1 DEF RouteInv, DroppedAsSaid
    <3> QED BY <1>1, <3>1 DEF Dropped, RouteDropped, WillBeDropped
  <2>4. RouteInv'
    <3>1. /\ editor' \in [Editors -> Requests] /\ editor'[e].pc = "idle" /\ editor'[e].rev = 0
          /\ \A d \in Editors : d # e => editor'[d] = editor[d]
      BY <1>0, <1>e, <2>1
    <3>2. rev' \in Nat /\ rev <= rev' /\ editor'[e].rev <= rev' /\ reported' \in Nat /\ reported' <= rev'
      BY <1>0, <2>2, <2>1, <3>1
    <3> QED BY <1>2, <2>3, <3>1, <3>2, EditorKeepsRoutes
  <2> QED BY <2>4
<1> QED BY <1>3, <1>4, <1>5

LEMMA DropKeepsRoutes ==
  ASSUME RouteInv, NEW e \in Editors, NEW d \in RouteChannels, DropRoute(e, d)
  PROVE  RouteInv'
<1> DEFINE q(ok) == Request("drop", {}, Unread, editor[e].rev, editor[e].todo \ {d}, ok)
<1>0. /\ cached \in [RouteChannels -> Nat] /\ rev \in Nat /\ filling.rev \in Nat /\ filling.late \in BOOLEAN
      /\ reported \in Nat /\ reported <= rev /\ UNCHANGED <<rev, reported>>
      /\ editor \in [Editors -> Requests] /\ editor[e].rev \in Nat /\ editor[e].rev <= rev /\ editor[e].ok \in BOOLEAN
      /\ editor[e].todo \subseteq RouteChannels /\ editor[e].pc = "drop"
  BY DEF RouteInv, FillTypes, Requests, DropRoute
<1>e. \A r \in Requests : editor' = [editor EXCEPT ![e] = r] =>
        /\ editor' \in [Editors -> Requests] /\ editor'[e] = r
        /\ \A o \in Editors : o # e => editor'[o] = editor[o]
  BY <1>0
<1>1. ASSUME NEW ok \in BOOLEAN
      PROVE  q(ok) \in Requests /\ q(ok).rev = editor[e].rev /\ q(ok).todo = editor[e].todo \ {d} /\ q(ok).ok = ok
  BY <1>0, NothingInHand DEF Request, Requests
<1>2. CASE /\ cached' = [cached EXCEPT ![d] = 0] /\ UNCHANGED straddled
           /\ filling' = Fill(filling.channel, filling.rev, filling.late \/ (filling.channel = d /\ filling.rev < editor[e].rev))
           /\ editor' = [editor EXCEPT ![e] = q(editor[e].ok)]
  <2>1. \A c \in RouteChannels, r \in Nat : r <= rev /\ RouteDropped(c, r) => WillBeDropped(c, r)
    BY <1>0, <1>2, StaysDropped
  <2>2. cached' \in [RouteChannels -> Nat] /\ filling'.rev \in Nat /\ filling'.late \in BOOLEAN
    BY <1>0, <1>2 DEF Fill
  <2>3. WillBeDropped(d, editor[e].rev)
    <3>1. cached'[d] = 0
      BY <1>0, <1>2
    <3>2. filling'.channel = d /\ filling'.rev < editor[e].rev => filling'.late
      BY <1>2 DEF Fill
    <3> QED BY <3>1, <3>2 DEF Dropped, WillBeDropped
  <2>4. \A c \in RouteChannels : WillBeDropped(c, reported')
    BY <1>0, <2>1 DEF RouteInv, DroppedAsSaid
  <2>5. \A c \in RouteChannels : editor[e].ok /\ c \notin editor[e].todo \ {d} => WillBeDropped(c, editor[e].rev)
    BY <1>0, <2>1, <2>3 DEF RouteInv, DroppedAsSaid
  <2> HIDE DEF q
  <2>6. /\ editor' \in [Editors -> Requests] /\ editor'[e].rev = editor[e].rev
        /\ editor'[e].todo = editor[e].todo \ {d} /\ editor'[e].ok = editor[e].ok
        /\ \A c \in Editors : c # e => editor'[c] = editor[c]
    BY <1>0, <1>e, <1>1, <1>2
  <2>7. rev' \in Nat /\ rev <= rev' /\ editor'[e].rev <= rev' /\ reported' \in Nat /\ reported' <= rev'
    BY <1>0, <2>6
  <2> QED BY <2>1, <2>2, <2>4, <2>5, <2>6, <2>7, EditorKeepsRoutes
<1>3. CASE UNCHANGED <<cached, filling, straddled>> /\ editor' = [editor EXCEPT ![e] = q(FALSE)]
  <2>1. \A c \in RouteChannels, r \in Nat : r <= rev /\ RouteDropped(c, r) => WillBeDropped(c, r)
    BY <1>3 DEF RouteDropped, WillBeDropped, Dropped
  <2>2. \A c \in RouteChannels : WillBeDropped(c, reported')
    BY <1>0, <2>1 DEF RouteInv, DroppedAsSaid
  <2>3. cached' \in [RouteChannels -> Nat] /\ filling'.rev \in Nat /\ filling'.late \in BOOLEAN
    BY <1>0, <1>3
  <2> HIDE DEF q
  <2>4. /\ editor' \in [Editors -> Requests] /\ editor'[e].rev = editor[e].rev
        /\ editor'[e].todo = editor[e].todo \ {d} /\ editor'[e].ok = FALSE
        /\ \A c \in Editors : c # e => editor'[c] = editor[c]
    BY <1>0, <1>e, <1>1, <1>3
  <2>5. rev' \in Nat /\ rev <= rev' /\ editor'[e].rev <= rev' /\ reported' \in Nat /\ reported' <= rev'
    BY <1>0, <2>4
  <2> QED BY <2>1, <2>2, <2>3, <2>4, <2>5, EditorKeepsRoutes
<1> QED BY <1>2, <1>3 DEF DropRoute

LEMMA RouteNextKeeps == LineInv /\ RouteInv /\ [LineNext]_lineVars => RouteInv'
<1> SUFFICES ASSUME LineInv, RouteInv, [LineNext]_lineVars PROVE RouteInv'
  OBVIOUS
<1>0. /\ cached \in [RouteChannels -> Nat] /\ rev \in Nat /\ filling.rev \in Nat /\ filling.late \in BOOLEAN
      /\ reported \in Nat /\ reported <= rev
      /\ \A e \in Editors : /\ editor[e].rev \in Nat /\ editor[e].rev <= rev
                            /\ editor[e].ok \in BOOLEAN /\ editor[e].todo \subseteq RouteChannels
  BY DEF RouteInv, FillTypes, Requests
<1>1. CASE SetRouteCache
  <2>1. UNCHANGED <<editor, rev, reported>> /\ cached' \in [RouteChannels -> Nat] /\ filling'.rev \in Nat /\ filling'.late \in BOOLEAN
    BY <1>0, <1>1 DEF SetRouteCache, NoFill, Fill
  <2> QED BY <1>1, <2>1, StaysDropped, RouterKeepsRoutes
<1>2. ASSUME NEW d \in RouteChannels, QueryRoute(d) \/ ExpireRoute(d) PROVE RouteInv'
  <2>1. UNCHANGED <<editor, rev, reported>>
    BY <1>2 DEF QueryRoute, ExpireRoute
  <2>2. cached' \in [RouteChannels -> Nat] /\ filling'.rev \in Nat /\ filling'.late \in BOOLEAN
    <3>1. CASE QueryRoute(d)
      BY <1>0, <3>1 DEF QueryRoute, Fill
    <3>2. CASE ExpireRoute(d)
      BY <1>0, <3>2 DEF ExpireRoute
    <3> QED BY <1>2, <3>1, <3>2
  <2> QED BY <1>2, <2>1, <2>2, StaysDropped, RouterKeepsRoutes
<1>3. CASE UNCHANGED lineVars
  BY <1>3 DEF lineVars, RouteInv, FillTypes, DroppedAsSaid, Dropped, RouteDropped, WillBeDropped
<1>4. ASSUME NEW e \in Editors, NEW d \in RouteChannels, DropRoute(e, d) PROVE RouteInv'
  BY <1>4, DropKeepsRoutes
<1>5. ASSUME NEW e \in Editors,
             \/ UpdateThreshold(e) \/ UpdateHandoffRules(e) \/ UpdateSurvey(e) \/ PutConfig(e)
             \/ SaveDataset(e) \/ UpdateDifyBinding(e)
             \/ WriteSettings(e) \/ WriteBinding(e) \/ AnswerEditor(e)
      PROVE  RouteInv'
  <2>1. stored \in [Settings -> Nat]
    BY DEF LineInv, LineTypes
  <2>2. \/ \E pc \in {"write", "bind"}, set \in SUBSET Settings : Read(e, pc, set)
        \/ WriteSettings(e) \/ WriteBinding(e) \/ AnswerEditor(e)
    BY <1>5, RequestsRead
  <2>3. {} \in SUBSET Settings
    OBVIOUS
  <2> QED BY <2>1, <2>2, <2>3, RequestKeepsRoutes
<1> QED
  BY <1>1, <1>2, <1>3, <1>4, <1>5 DEF LineNext

(* A reported invalidation leaves no route on an older copy.               *)
THEOREM InvalidationHolds == LineSpec => []ReportedInvalidationHolds
<1>1. LineInit => LineInv /\ RouteInv
  <2>1. LineInit => LineInv
    BY NothingInHand
    DEF LineInit, LineInv, LineTypes, ReadAsMeant, WritesBack, SharedIsCrossed, SettingsKept, Touches, HasDocument
  <2>2. LineInit => RouteInv
    BY NothingInHand
    DEF LineInit, RouteInv, FillTypes, DroppedAsSaid, RouteDropped, Dropped, NoRequest, Request, NoFill, Fill
  <2> QED BY <2>1, <2>2
<1>2. RouteInv => ReportedInvalidationHolds
  BY DEF RouteInv, FillTypes, DroppedAsSaid, RouteDropped, Dropped, ReportedInvalidationHolds
<1> QED
  BY LineNextKeeps, RouteNextKeeps, <1>1, <1>2, PTL DEF LineSpec

-----------------------------------------------------------------------------
(* Prompts: what a revision marked as pushed says is what Dify answers     *)
(* with, and what the origin record says is, once nothing is under way.    *)
Revisions == [body : Texts, template : Templates \cup {"none"}, pushed : BOOLEAN]
Prompts == [pc : {"idle", "project", "mark", "origin"}, row : Nat, alone : BOOLEAN]

PromptTypes ==
  /\ rows \in Seq(Revisions) /\ activeRow \in 0 .. Len(rows) /\ live \in Texts /\ template \in Templates
  /\ writer \in [Writers -> Prompts]
  /\ \A w \in InProgress : writer[w].row \in 1 .. Len(rows)
  /\ edited \in BOOLEAN /\ overlapped \in BOOLEAN /\ unrecorded \in BOOLEAN

\* A request nothing overlapped has the active revision in hand, and the text
\* it has sent is the one Dify answers with.
OneAtATime ==
  /\ \A w \in InProgress : writer[w].alone => InProgress = {w} /\ writer[w].row = activeRow
  /\ \A w \in InProgress : ~writer[w].alone => overlapped
  /\ \A w \in InProgress :
       writer[w].alone /\ ~edited /\ writer[w].pc \in {"mark", "origin"} => live = rows[writer[w].row].body

PushedIsLive ==
  ~overlapped /\ ~edited /\ activeRow # 0 => (rows[activeRow].pushed => live = rows[activeRow].body)

OriginIsLive ==
  /\ ~overlapped /\ ~edited /\ ~unrecorded
  /\ \A w \in InProgress : writer[w].pc = "project"
  => origin = NoOrigin \/ live = origin.body

PromptInv == PromptTypes /\ OneAtATime /\ PushedIsLive /\ OriginIsLive

LEMMA RowTypes ==
  ASSUME NEW b \in Texts, NEW t \in Templates \cup {"none"}, NEW pushed \in BOOLEAN
  PROVE  /\ Row(b, t, pushed) \in Revisions /\ Row(b, t, pushed).body = b
         /\ Row(b, t, pushed).template = t /\ Row(b, t, pushed).pushed = pushed
BY DEF Row, Revisions

\* Marking a revision leaves its text and the others alone.
LEMMA Marked ==
  ASSUME rows \in Seq(Revisions), NEW n \in 1 .. Len(rows), NEW pushed \in BOOLEAN
  PROVE  /\ WithPushed(n, pushed) \in Seq(Revisions) /\ Len(WithPushed(n, pushed)) = Len(rows)
         /\ WithPushed(n, pushed)[n].pushed = pushed
         /\ \A i \in 1 .. Len(rows) : WithPushed(n, pushed)[i].body = rows[i].body
         /\ \A i \in 1 .. Len(rows) : i # n => WithPushed(n, pushed)[i] = rows[i]
<1>1. rows[n] \in Revisions
  OBVIOUS
<1>2. rows[n].body \in Texts /\ rows[n].template \in Templates \cup {"none"}
  BY <1>1 DEF Revisions
<1> DEFINE r == Row(rows[n].body, rows[n].template, pushed)
<1>3. r \in Revisions /\ r.body = rows[n].body /\ r.pushed = pushed
  BY <1>2 DEF Row, Revisions
<1>4. WithPushed(n, pushed) = [rows EXCEPT ![n] = r]
  BY DEF WithPushed
<1> HIDE DEF r
<1>5. /\ [rows EXCEPT ![n] = r] \in Seq(Revisions) /\ Len([rows EXCEPT ![n] = r]) = Len(rows)
      /\ \A j \in 1 .. Len(rows) : [rows EXCEPT ![n] = r][j] = IF j = n THEN r ELSE rows[j]
  BY <1>3, ExceptSeq
<1> QED BY <1>3, <1>4, <1>5

LEMMA WriterParts ==
  ASSUME PromptTypes, NEW w \in Writers
  PROVE  /\ writer[w].pc \in {"idle", "project", "mark", "origin"} /\ writer[w].row \in Nat
         /\ writer[w].alone \in BOOLEAN /\ NoPrompt \in Prompts /\ NoPrompt.pc = "idle"
BY DEF PromptTypes, Prompts, NoPrompt, Prompt

\* A new request: the active revision is as it was, or is not pushed.
LEMMA StoredKeepsPrompts ==
  ASSUME PromptInv, NEW w \in Writers, NEW rs \in Seq(Revisions), NEW a \in 1 .. Len(rs),
         Len(rows) <= Len(rs), \A i \in 1 .. Len(rows) : rs[i].body = rows[i].body,
         ~rs[a].pushed \/ (rs = rows /\ a = activeRow),
         Stored(w, rs, a, a)
  PROVE  PromptInv'
<1> USE DEF PromptInv
<1>1. /\ rows' = rs /\ activeRow' = a /\ UNCHANGED <<template, live, origin, edited, unrecorded>>
      /\ overlapped' = (overlapped \/ InProgress # {}) /\ w \notin InProgress
      /\ writer' = [v \in Writers |->
           IF v = w THEN Prompt("project", a, InProgress = {})
           ELSE IF v \in InProgress THEN Prompt(writer[v].pc, writer[v].row, FALSE) ELSE NoPrompt]
  BY DEF Stored, InProgress
<1>2. Prompt("project", a, InProgress = {}) \in Prompts
  BY DEF Prompt, Prompts
<1>3. ASSUME NEW v \in InProgress PROVE Prompt(writer[v].pc, writer[v].row, FALSE) \in Prompts
  <2>1. v \in Writers
    BY DEF InProgress
  <2> QED BY <2>1, WriterParts DEF Prompt, Prompts
<1>4. writer' \in [Writers -> Prompts]
  BY <1>1, <1>2, <1>3, WriterParts
<1>5. /\ writer'[w].pc = "project" /\ writer'[w].row = a /\ writer'[w].alone = (InProgress = {})
      /\ \A v \in InProgress : /\ writer'[v].pc = writer[v].pc /\ writer'[v].row = writer[v].row
                               /\ ~writer'[v].alone
  BY <1>1 DEF Prompt, InProgress
<1>6. InProgress' = InProgress \cup {w}
  BY <1>1, <1>5, WriterParts DEF InProgress
<1>7. PromptTypes'
  <2>1. \A v \in InProgress' : writer'[v].row \in 1 .. Len(rs)
    BY <1>5, <1>6 DEF PromptTypes
  <2>2. overlapped' \in BOOLEAN
    BY <1>1
  <2>3. rows' = rs /\ activeRow' = a /\ UNCHANGED <<template, live, edited, unrecorded>>
    BY <1>1
  <2> QED BY <1>4, <2>1, <2>2, <2>3 DEF PromptTypes
<1>8. OneAtATime'
  BY <1>1, <1>5, <1>6 DEF OneAtATime
<1>9. PushedIsLive'
  BY <1>1 DEF PushedIsLive
<1>10. OriginIsLive'
  BY <1>1, <1>5, <1>6 DEF OriginIsLive
<1> QED BY <1>7, <1>8, <1>9, <1>10

LEMMA ChangeKeepsPrompts ==
  ASSUME PromptInv, NEW w \in Writers, UpdatePrompt(w) \/ ResetPrompt(w) \/ PushOne(w) \/ RollbackPrompt(w)
  PROVE  PromptInv'
<1>1. rows \in Seq(Revisions) /\ activeRow \in 0 .. Len(rows) /\ template \in Templates
  BY DEF PromptInv, PromptTypes
<1>2. ASSUME NEW b \in Texts, NEW t \in Templates \cup {"none"}, PublishRevision(w, b, t) PROVE PromptInv'
  <2>0. Row(b, t, FALSE) \in Revisions /\ Row(b, t, FALSE).pushed = FALSE
    BY DEF Row, Revisions
  <2>1. PICK r \in Revisions : r = Row(b, t, FALSE) /\ r.pushed = FALSE
    BY <2>0
  <2> DEFINE rs == Append(rows, r)
  <2>2. /\ rs \in Seq(Revisions) /\ Len(rs) = Len(rows) + 1 /\ rs[Len(rows) + 1] = r
        /\ \A i \in 1 .. Len(rows) : rs[i] = rows[i]
    BY <1>1, AppendProperties
  <2>3. Stored(w, rs, Len(rows) + 1, Len(rows) + 1)
    BY <1>2, <2>1 DEF PublishRevision
  <2> HIDE DEF rs
  <2>4. Len(rows) \in Nat
    BY <1>1
  <2>5. Len(rows) + 1 \in 1 .. Len(rs) /\ Len(rows) <= Len(rs)
    BY <2>2, <2>4
  <2>6. rs[Len(rows) + 1].pushed = FALSE /\ \A i \in 1 .. Len(rows) : rs[i].body = rows[i].body
    BY <2>1, <2>2
  <2> QED BY <2>2, <2>3, <2>5, <2>6, StoredKeepsPrompts
<1>3. ASSUME activeRow # 0, Stored(w, rows, activeRow, activeRow) PROVE PromptInv'
  <2>1. activeRow \in 1 .. Len(rows) /\ Len(rows) <= Len(rows)
    BY <1>1, <1>3
  <2> QED BY <1>1, <1>3, <2>1, StoredKeepsPrompts
<1>4. ASSUME NEW n \in 1 .. Len(rows), Stored(w, Reactivated(n), n, n) PROVE PromptInv'
  <2> DEFINE rs == WithPushed(n, FALSE)
  <2>1. /\ rs \in Seq(Revisions) /\ Len(rs) = Len(rows) /\ rs[n].pushed = FALSE
        /\ \A i \in 1 .. Len(rows) : rs[i].body = rows[i].body
    BY <1>1, Marked
  <2>2. Stored(w, rs, n, n)
    BY <1>4 DEF Reactivated
  <2> HIDE DEF rs
  <2>3. n \in 1 .. Len(rs) /\ Len(rows) <= Len(rs)
    BY <1>1, <2>1
  <2> QED BY <2>1, <2>2, <2>3, StoredKeepsPrompts
<1>5. \A b, t : StoreRevision(w, b, t) =>
        \/ activeRow # 0 /\ Stored(w, rows, activeRow, activeRow)
        \/ PublishRevision(w, b, t)
  BY DEF StoreRevision
<1>6. template \in Texts
  BY <1>1 DEF Texts
<1>7. CASE UpdatePrompt(w)
  <2>1. PICK b \in Texts : StoreRevision(w, b, IF b = template THEN template ELSE "none")
    BY <1>7 DEF UpdatePrompt
  <2>2. (IF b = template THEN template ELSE "none") \in Templates \cup {"none"}
    BY <1>1
  <2> QED BY <1>2, <1>3, <1>5, <2>1, <2>2
<1>8. CASE ResetPrompt(w)
  BY <1>1, <1>2, <1>3, <1>5, <1>6, <1>8 DEF ResetPrompt
<1>9. CASE PushOne(w)
  <2>1. (activeRow # 0 /\ Stored(w, rows, activeRow, activeRow)) \/ PublishRevision(w, template, template)
    BY <1>9 DEF PushOne
  <2> QED BY <1>1, <1>2, <1>3, <1>6, <2>1
<1>10. CASE RollbackPrompt(w)
  BY <1>4, <1>10 DEF RollbackPrompt
<1> QED BY <1>7, <1>8, <1>9, <1>10

LEMMA Advances ==
  ASSUME PromptTypes, NEW w \in InProgress, NEW pc \in {"mark", "origin"}, writer' = [writer EXCEPT ![w].pc = pc]
  PROVE  /\ writer' \in [Writers -> Prompts] /\ InProgress' = InProgress
         /\ writer'[w].pc = pc /\ writer'[w].row = writer[w].row /\ writer'[w].alone = writer[w].alone
         /\ \A v \in InProgress : v # w => writer'[v] = writer[v]
<1>1. w \in Writers /\ writer \in [Writers -> Prompts] /\ writer[w] \in Prompts
  BY DEF PromptTypes, InProgress
<1>2. [writer[w] EXCEPT !.pc = pc] \in Prompts
  BY <1>1 DEF Prompts
<1>3. writer' \in [Writers -> Prompts]
  BY <1>1, <1>2
<1>4. /\ writer'[w].pc = pc /\ writer'[w].row = writer[w].row /\ writer'[w].alone = writer[w].alone
      /\ \A v \in Writers : v # w => writer'[v] = writer[v]
  BY <1>1 DEF Prompts
<1> QED BY <1>1, <1>3, <1>4 DEF InProgress

LEMMA LeavesOff ==
  ASSUME PromptTypes, NEW w \in InProgress, writer' = [writer EXCEPT ![w] = NoPrompt]
  PROVE  /\ writer' \in [Writers -> Prompts] /\ InProgress' = InProgress \ {w}
         /\ \A v \in InProgress : v # w => writer'[v] = writer[v]
BY WriterParts DEF PromptTypes, InProgress

LEMMA ProjectKeepsPrompts ==
  ASSUME PromptInv, NEW w \in Writers, ProjectPrompt(w)
  PROVE  PromptInv'
<1> USE DEF PromptInv
<1>1. /\ w \in InProgress /\ writer[w].pc = "project" /\ UNCHANGED <<template, rows, activeRow, origin, overlapped>>
      /\ writer[w].row \in 1 .. Len(rows) /\ rows \in Seq(Revisions) /\ writer[w].alone \in BOOLEAN
  BY WriterParts DEF ProjectPrompt, InProgress, PromptTypes
<1>2. rows[writer[w].row].body \in Texts
  <2>1. rows[writer[w].row] \in Revisions
    BY <1>1
  <2> QED BY <2>1 DEF Revisions
<1>3. \A v \in InProgress : v # w => ~writer[v].alone
  BY <1>1 DEF OneAtATime
<1>4. CASE /\ live' = rows[writer[w].row].body /\ edited' = FALSE
           /\ writer' = [writer EXCEPT ![w].pc = "mark"] /\ UNCHANGED unrecorded
  <2>1. /\ writer' \in [Writers -> Prompts] /\ InProgress' = InProgress
        /\ writer'[w].pc = "mark" /\ writer'[w].row = writer[w].row /\ writer'[w].alone = writer[w].alone
        /\ \A v \in InProgress : v # w => writer'[v] = writer[v]
    BY <1>1, <1>4, Advances
  <2>2. PromptTypes'
    BY <1>1, <1>2, <1>4, <2>1 DEF PromptTypes
  <2>3. OneAtATime'
    BY <1>1, <1>3, <1>4, <2>1 DEF OneAtATime
  <2>4. PushedIsLive'
    BY <1>1, <1>4, <2>1 DEF PushedIsLive, OneAtATime
  <2>5. OriginIsLive'
    BY <1>1, <2>1 DEF OriginIsLive
  <2> QED BY <2>2, <2>3, <2>4, <2>5
<1>5. CASE /\ live' = rows[writer[w].row].body /\ edited' = FALSE
           /\ writer' = [writer EXCEPT ![w] = NoPrompt] /\ unrecorded' = TRUE
  <2>1. /\ writer' \in [Writers -> Prompts] /\ InProgress' = InProgress \ {w}
        /\ \A v \in InProgress : v # w => writer'[v] = writer[v]
    BY <1>1, <1>5, LeavesOff
  <2>2. PromptTypes'
    BY <1>1, <1>2, <1>5, <2>1 DEF PromptTypes
  <2>3. OneAtATime'
    BY <1>1, <1>3, <1>5, <2>1 DEF OneAtATime
  <2>4. PushedIsLive'
    BY <1>1, <1>5, <2>1 DEF PushedIsLive, OneAtATime
  <2>5. OriginIsLive'
    BY <1>5 DEF OriginIsLive
  <2> QED BY <2>2, <2>3, <2>4, <2>5
<1>6. CASE writer' = [writer EXCEPT ![w] = NoPrompt] /\ UNCHANGED <<live, edited, unrecorded>>
  <2>1. /\ writer' \in [Writers -> Prompts] /\ InProgress' = InProgress \ {w}
        /\ \A v \in InProgress : v # w => writer'[v] = writer[v]
    BY <1>1, <1>6, LeavesOff
  <2>2. PromptTypes'
    BY <1>1, <1>6, <2>1 DEF PromptTypes
  <2>3. OneAtATime'
    BY <1>1, <1>3, <1>6, <2>1 DEF OneAtATime
  <2>4. PushedIsLive'
    BY <1>1, <1>6 DEF PushedIsLive
  <2>5. OriginIsLive'
    BY <1>1, <1>6, <2>1 DEF OriginIsLive
  <2> QED BY <2>2, <2>3, <2>4, <2>5
<1> QED BY <1>4, <1>5, <1>6 DEF ProjectPrompt

LEMMA MarkKeepsPrompts ==
  ASSUME PromptInv, NEW w \in Writers, MarkPushed(w)
  PROVE  PromptInv'
<1> USE DEF PromptInv
<1>1. /\ w \in InProgress /\ writer[w].pc = "mark" /\ writer' = [writer EXCEPT ![w].pc = "origin"]
      /\ UNCHANGED <<template, activeRow, live, origin, edited, overlapped, unrecorded>>
      /\ writer[w].row \in 1 .. Len(rows) /\ rows \in Seq(Revisions) /\ activeRow \in 0 .. Len(rows)
  BY DEF MarkPushed, InProgress, PromptTypes
<1>2. /\ writer' \in [Writers -> Prompts] /\ InProgress' = InProgress
      /\ writer'[w].pc = "origin" /\ writer'[w].row = writer[w].row /\ writer'[w].alone = writer[w].alone
      /\ \A v \in InProgress : v # w => writer'[v] = writer[v]
  BY <1>1, Advances
<1>3. /\ rows' \in Seq(Revisions) /\ Len(rows') = Len(rows)
      /\ \A i \in 1 .. Len(rows) : rows'[i].body = rows[i].body
      /\ \A i \in 1 .. Len(rows) : i # writer[w].row => rows'[i] = rows[i]
  <2>1. CASE rows' = WithPushed(writer[w].row, TRUE)
    BY <1>1, <2>1, Marked
  <2>2. CASE UNCHANGED rows
    BY <1>1, <2>2
  <2> QED BY <2>1, <2>2 DEF MarkPushed
<1>4. PromptTypes'
  BY <1>1, <1>2, <1>3 DEF PromptTypes
<1>5. OneAtATime'
  <2>1. \A v \in InProgress : writer[v].row \in 1 .. Len(rows)
    BY DEF PromptTypes
  <2> QED BY <1>1, <1>2, <1>3, <2>1 DEF OneAtATime
<1>6. PushedIsLive'
  <2> SUFFICES ASSUME ~overlapped, ~edited, activeRow # 0, rows'[activeRow].pushed
               PROVE  live = rows'[activeRow].body
    BY <1>1 DEF PushedIsLive
  <2>1. activeRow \in 1 .. Len(rows)
    BY <1>1
  <2>2. CASE activeRow = writer[w].row
    BY <1>1, <1>3, <2>1, <2>2 DEF OneAtATime
  <2>3. CASE activeRow # writer[w].row
    BY <1>3, <2>1, <2>3 DEF PushedIsLive
  <2> QED BY <2>2, <2>3
<1>7. OriginIsLive'
  BY <1>1, <1>2 DEF OriginIsLive
<1> QED BY <1>4, <1>5, <1>6, <1>7

LEMMA OriginKeepsPrompts ==
  ASSUME PromptInv, NEW w \in Writers, StorePromptOrigin(w)
  PROVE  PromptInv'
<1> USE DEF PromptInv
<1>1. /\ w \in InProgress /\ writer[w].pc = "origin" /\ writer' = [writer EXCEPT ![w] = NoPrompt]
      /\ UNCHANGED <<template, rows, activeRow, live, edited>> /\ writer[w].alone \in BOOLEAN
      /\ overlapped \in BOOLEAN /\ unrecorded \in BOOLEAN
  BY WriterParts DEF StorePromptOrigin, InProgress, PromptTypes
<1>2. /\ writer' \in [Writers -> Prompts] /\ InProgress' = InProgress \ {w}
      /\ \A v \in InProgress : v # w => writer'[v] = writer[v]
  BY <1>1, LeavesOff
<1>3. \A v \in InProgress : v # w => ~writer[v].alone /\ ~writer[w].alone
  BY <1>1 DEF OneAtATime
<1>4. CASE origin' = [body |-> rows[writer[w].row].body, template |-> rows[writer[w].row].template]
           /\ unrecorded' = (unrecorded /\ ~writer[w].alone) /\ overlapped' = (overlapped /\ ~writer[w].alone)
  <2>1. /\ origin'.body = rows[writer[w].row].body /\ overlapped' \in BOOLEAN /\ unrecorded' \in BOOLEAN
        /\ (overlapped' <=> overlapped /\ ~writer[w].alone)
    BY <1>1, <1>4
  <2>2. PromptTypes'
    BY <1>1, <1>2, <2>1 DEF PromptTypes
  <2>3. OneAtATime'
    BY <1>1, <1>2, <1>3, <2>1 DEF OneAtATime
  <2>4. ~overlapped' => writer[w].alone /\ writer[w].row = activeRow
    BY <1>1, <2>1 DEF OneAtATime
  <2>5. ~overlapped' /\ ~edited => live = rows[writer[w].row].body
    BY <1>1, <2>4 DEF OneAtATime
  <2>6. PushedIsLive'
    BY <1>1, <2>4, <2>5 DEF PushedIsLive
  <2>7. OriginIsLive'
    BY <1>1, <2>1, <2>5 DEF OriginIsLive
  <2> QED BY <2>2, <2>3, <2>6, <2>7
<1>5. CASE unrecorded' = TRUE /\ UNCHANGED <<origin, overlapped>>
  <2>1. PromptTypes'
    BY <1>1, <1>2, <1>5 DEF PromptTypes
  <2>2. OneAtATime'
    BY <1>1, <1>2, <1>3, <1>5 DEF OneAtATime
  <2>3. PushedIsLive' /\ OriginIsLive'
    BY <1>1, <1>5 DEF PushedIsLive, OriginIsLive
  <2> QED BY <2>1, <2>2, <2>3
<1> QED BY <1>4, <1>5 DEF StorePromptOrigin

(* Neither page takes for a hand edit in Dify what the console put there.  *)
THEOREM AlarmsAreTrue == PromptSpec => []AlarmMeansEdited
<1>1. PromptInit => PromptInv
  <2> SUFFICES ASSUME PromptInit PROVE PromptInv
    OBVIOUS
  <2>1. NoPrompt \in Prompts /\ NoPrompt.pc = "idle"
    BY DEF NoPrompt, Prompt, Prompts
  <2>2. InProgress = {} /\ writer \in [Writers -> Prompts]
    BY <2>1 DEF PromptInit, InProgress
  <2>3. live \in Texts /\ Row(live, "none", TRUE) \in Revisions /\ Row(live, "none", TRUE).body = live
    BY DEF PromptInit, Texts, Templates, Row, Revisions
  <2>4. /\ rows \in Seq(Revisions) /\ activeRow \in 0 .. Len(rows)
        /\ activeRow # 0 => rows[activeRow].body = live
    <3>1. CASE rows = <<>>
      BY <3>1 DEF PromptInit
    <3>2. CASE rows = <<Row(live, "none", TRUE)>>
      <4>1. PICK r \in Revisions : r = Row(live, "none", TRUE) /\ r.body = live
        BY <2>3
      <4>2. rows = <<r>> /\ activeRow = Len(rows)
        BY <3>2, <4>1 DEF PromptInit
      <4>3. <<r>> \in Seq(Revisions) /\ Len(<<r>>) = 1 /\ <<r>>[1] = r
        <5> HIDE DEF Revisions
        <5> QED OBVIOUS
      <4>4. rows \in Seq(Revisions) /\ activeRow = 1 /\ Len(rows) = 1 /\ rows[1] = r
        BY <4>2, <4>3
      <4>5. 1 \in 0 .. 1 /\ rows[activeRow] = r
        BY <4>4
      <4>6. activeRow \in 0 .. Len(rows)
        BY <4>4, <4>5
      <4>7. rows[activeRow].body = live
        BY <4>1, <4>5
      <4> QED BY <4>4, <4>6, <4>7
    <3> QED BY <3>1, <3>2 DEF PromptInit
  <2> QED BY <2>2, <2>3, <2>4 DEF PromptInit, PromptInv, PromptTypes, OneAtATime, PushedIsLive, OriginIsLive, Templates
<1>2. PromptInv /\ [PromptNext]_promptVars => PromptInv'
  <2> SUFFICES ASSUME PromptInv, [PromptNext]_promptVars PROVE PromptInv'
    OBVIOUS
  <2>1. CASE EditElsewhere
    BY <2>1 DEF EditElsewhere, PromptInv, PromptTypes, OneAtATime, PushedIsLive, OriginIsLive, InProgress
  <2>2. CASE Release
    BY <2>2 DEF Release, PromptInv, PromptTypes, OneAtATime, PushedIsLive, OriginIsLive, InProgress, Templates
  <2>3. CASE UNCHANGED promptVars
    BY <2>3 DEF promptVars, PromptInv, PromptTypes, OneAtATime, PushedIsLive, OriginIsLive, InProgress
  <2> QED
    BY <2>1, <2>2, <2>3, ChangeKeepsPrompts, ProjectKeepsPrompts, MarkKeepsPrompts, OriginKeepsPrompts
    DEF PromptNext
<1>3. PromptInv => AlarmMeansEdited
  <2> SUFFICES ASSUME PromptInv, \A w \in Writers : writer[w] = NoPrompt, ~overlapped, ~unrecorded, ~edited
               PROVE  ClassifyPrompt(ProjectionRecord) # "changed_elsewhere" /\ ProbeProjection # "changed_elsewhere"
    BY DEF AlarmMeansEdited
  <2>1. InProgress = {}
    BY DEF InProgress, NoPrompt, Prompt
  <2>2. origin = NoOrigin \/ live = origin.body
    BY <2>1 DEF PromptInv, OriginIsLive
  <2>3. activeRow # 0 /\ rows[activeRow].pushed => live = rows[activeRow].body
    BY DEF PromptInv, PushedIsLive
  <2>4. ProjectionRecord = NoOrigin \/ live = ProjectionRecord.body
    BY <2>2, <2>3 DEF ProjectionRecord
  <2> QED BY <2>3, <2>4 DEF ClassifyPrompt, ProbeProjection
<1> QED
  BY <1>1, <1>2, <1>3, PTL DEF PromptSpec

-----------------------------------------------------------------------------
(* Models: a request nothing overlapped knows what the line it is about    *)
(* answers with and what its tier is; a line left by a request that        *)
(* overlapped another is behind.                                           *)
Changes == [pc : {"idle", "pin", "publish", "revert", "clear", "inherit", "push"},
            scope : {"line", "platform"}, line : Lines \cup {"none"}, spec : Specs, restore : Specs,
            unchanged : BOOLEAN, todo : SUBSET Lines, tiers : [Lines -> Specs \cup {"none"}], alone : BOOLEAN]

ModelTypes ==
  /\ platformModel \in Specs \cup {"none"}
  /\ override \in [Lines -> Specs \cup {"none"}] /\ answering \in [Lines -> Specs]
  /\ admin \in [Admins -> Changes]
  /\ \A a \in Admins : admin[a].pc \notin {"idle", "push"} => admin[a].line \in Lines
  /\ \A a \in Admins : admin[a].pc = "push" => admin[a].tiers \in [Lines -> Specs]

AloneIsAlone ==
  \A a, b \in Admins : admin[a].pc # "idle" /\ admin[a].alone /\ b # a => admin[b].pc = "idle"

\* What the request in hand of a, called r, knows when nothing overlapped it.
Knows(r) ==
  /\ r.pc \in {"pin", "publish", "revert"} => r.restore = Effective(r.line)
  /\ r.pc = "pin" /\ r.unchanged => r.spec = Effective(r.line)
  /\ r.pc = "publish" => answering[r.line] = r.spec
  /\ r.pc \in {"clear", "inherit"} => r.spec = PlatformSpec
  /\ r.pc = "inherit" => override[r.line] = "none"
  /\ r.pc = "push" => \A l \in r.todo : r.tiers[l] = Effective(l)

AloneKnows == \A a \in Admins : admin[a].alone => Knows(admin[a])

\* No request has done anything to line l yet.
Untouched(l) == \A a \in Changing : admin[a].line = l => admin[a].pc \in {"pin", "clear", "push"}

UntouchedAnswers == \A l \in Lines \ behind : Untouched(l) => answering[l] = Effective(l)

ModelInv == ModelTypes /\ AloneIsAlone /\ AloneKnows /\ UntouchedAnswers

LEMMA AdminParts ==
  ASSUME ModelTypes, NEW a \in Admins
  PROVE  /\ admin[a].pc \in {"idle", "pin", "publish", "revert", "clear", "inherit", "push"}
         /\ admin[a].scope \in {"line", "platform"} /\ admin[a].line \in Lines \cup {"none"}
         /\ admin[a].spec \in Specs /\ admin[a].restore \in Specs /\ admin[a].unchanged \in BOOLEAN
         /\ admin[a].todo \in SUBSET Lines /\ admin[a].tiers \in [Lines -> Specs \cup {"none"}]
         /\ admin[a].alone \in BOOLEAN
BY DEF ModelTypes, Changes

LEMMA NoChangeIdle == NoChange \in Changes /\ NoChange.pc = "idle" /\ ~NoChange.alone
BY DEF NoChange, Change, Changes, NoTiers, Specs

\* A line that kept what it answers with and its tier, or has what its tier says now.
Holds(a, l) ==
  \/ answering'[l] = Effective(l)'
  \/ /\ l \notin behind /\ answering'[l] = answering[l] /\ Effective(l)' = Effective(l)
     /\ admin[a].line = l => admin[a].pc \in {"pin", "clear", "push"}

LEMMA EndKeepsModels ==
  ASSUME ModelInv, NEW a \in Admins, admin[a].pc # "idle", Done(a),
         platformModel' \in Specs \cup {"none"}, override' \in [Lines -> Specs \cup {"none"}],
         answering' \in [Lines -> Specs], \A l \in Lines \ behind' : Holds(a, l)
  PROVE  ModelInv'
<1> USE DEF ModelInv
<1>1. /\ admin' \in [Admins -> Changes] /\ admin'[a] = NoChange
      /\ \A b \in Admins : b # a => admin'[b] = admin[b]
  BY NoChangeIdle DEF ModelTypes, Done
<1>2. ModelTypes'
  BY <1>1, NoChangeIdle DEF ModelTypes
<1>3. AloneIsAlone'
  BY <1>1, NoChangeIdle DEF AloneIsAlone
<1>4. ASSUME NEW b \in Admins, b # a PROVE ~admin'[b].alone \/ admin'[b].pc = "idle"
  BY <1>1, <1>4 DEF AloneIsAlone
<1>5. AloneKnows'
  <2>1. \A b \in Admins : admin'[b].alone => admin'[b].pc = "idle"
    BY <1>1, <1>4, NoChangeIdle
  <2> QED BY <2>1 DEF AloneKnows, Knows
<1>6. ASSUME NEW l \in Lines \ behind', Untouched(l)' PROVE answering'[l] = Effective(l)'
  <2>1. CASE answering'[l] = Effective(l)'
    BY <2>1
  <2>2. CASE /\ l \notin behind /\ answering'[l] = answering[l] /\ Effective(l)' = Effective(l)
             /\ admin[a].line = l => admin[a].pc \in {"pin", "clear", "push"}
    <3>1. Untouched(l)
      BY <1>1, <1>6, <2>2 DEF Untouched, Changing
    <3> QED BY <2>2, <3>1 DEF UntouchedAnswers
  <2> QED BY <1>6, <2>1, <2>2 DEF Holds
<1> QED BY <1>2, <1>3, <1>5, <1>6 DEF UntouchedAnswers

LEMMA TurnKeepsModels ==
  ASSUME ModelInv, NEW a \in Admins, admin[a].pc \notin {"idle", "push"}, NEW l0 \in Lines, l0 = admin[a].line,
         NEW pc \in {"publish", "revert", "inherit"}, Turn(a, pc),
         platformModel' \in Specs \cup {"none"}, override' \in [Lines -> Specs \cup {"none"}],
         answering' \in [Lines -> Specs],
         \A l \in Lines \ behind' : l = l0 \/ Holds(a, l),
         admin[a].alone =>
           /\ pc \in {"publish", "revert"} => admin[a].restore = Effective(l0)'
           /\ pc = "publish" => answering'[l0] = admin[a].spec
           /\ pc = "inherit" => admin[a].spec = PlatformSpec' /\ override'[l0] = "none"
  PROVE  ModelInv'
<1> USE DEF ModelInv
<1>1. /\ admin' \in [Admins -> Changes] /\ admin'[a].pc = pc /\ admin'[a].line = admin[a].line
      /\ admin'[a].alone = admin[a].alone /\ admin'[a].spec = admin[a].spec /\ admin'[a].restore = admin[a].restore
      /\ \A b \in Admins : b # a => admin'[b] = admin[b]
  <2>1. admin \in [Admins -> Changes] /\ admin' = [admin EXCEPT ![a].pc = pc]
    BY DEF ModelTypes, Turn
  <2>2. admin[a] \in Changes
    BY <2>1
  <2>3. [admin[a] EXCEPT !.pc = pc] \in Changes
    BY <2>2 DEF Changes
  <2>4. admin' \in [Admins -> Changes]
    BY <2>1, <2>3
  <2>5. /\ admin'[a].pc = pc /\ admin'[a].line = admin[a].line
        /\ admin'[a].alone = admin[a].alone /\ admin'[a].spec = admin[a].spec /\ admin'[a].restore = admin[a].restore
    BY <2>1, <2>2 DEF Changes
  <2> QED BY <2>1, <2>4, <2>5
<1>2. ModelTypes'
  BY <1>1 DEF ModelTypes
<1>3. AloneIsAlone'
  BY <1>1 DEF AloneIsAlone
<1>4. ASSUME NEW b \in Admins, b # a PROVE ~admin'[b].alone \/ admin'[b].pc = "idle"
  BY <1>1, <1>4 DEF AloneIsAlone
<1>5. AloneKnows'
  <2>1. \A b \in Admins : b # a /\ admin'[b].alone => Knows(admin[b])'
    BY <1>4 DEF Knows
  <2>2. admin'[a].alone => Knows(admin[a])'
    BY <1>1 DEF Knows
  <2> QED BY <2>1, <2>2 DEF AloneKnows
<1>6. ASSUME NEW l \in Lines \ behind', Untouched(l)' PROVE answering'[l] = Effective(l)'
  <2>0. l # l0
    BY <1>1, <1>6 DEF Untouched, Changing
  <2>1. CASE answering'[l] = Effective(l)'
    BY <2>1
  <2>2. CASE l \notin behind /\ answering'[l] = answering[l] /\ Effective(l)' = Effective(l)
    <3>1. Untouched(l)
      BY <1>1, <1>6, <2>0, <2>2 DEF Untouched, Changing
    <3> QED BY <2>2, <3>1 DEF UntouchedAnswers
  <2> QED BY <1>6, <2>0, <2>1, <2>2 DEF Holds
<1> QED BY <1>2, <1>3, <1>5, <1>6 DEF UntouchedAnswers

LEMMA BeginKeepsModels ==
  ASSUME ModelInv, NEW a \in Admins, NEW r \in Changes, r.pc \in {"pin", "clear", "push"},
         r.pc # "push" => r.line \in Lines, r.pc = "push" => r.tiers \in [Lines -> Specs],
         r.alone = (Changing = {}), Knows(r), BeginChange(a, r)
  PROVE  ModelInv'
<1> USE DEF ModelInv
<1>1. /\ \A b \in Admins : b # a /\ b \in Changing => admin'[b] = [admin[b] EXCEPT !.alone = FALSE]
      /\ \A b \in Admins : b # a /\ b \notin Changing => admin'[b] = NoChange
      /\ admin'[a] = r /\ UNCHANGED <<platformModel, override, answering, behind>> /\ admin[a].pc = "idle"
      /\ admin' = [b \in Admins |-> admin'[b]]
  BY DEF BeginChange
<1>2. ASSUME NEW b \in Admins, b # a
      PROVE  /\ admin'[b] \in Changes /\ ~admin'[b].alone
             /\ admin'[b].pc = admin[b].pc
             /\ admin[b].pc # "idle" => admin'[b].line = admin[b].line /\ admin'[b].tiers = admin[b].tiers
  <2>1. CASE b \in Changing
    <3>1. admin[b] \in Changes /\ admin'[b] = [admin[b] EXCEPT !.alone = FALSE]
      BY <1>1, <1>2, <2>1 DEF ModelTypes
    <3> QED BY <3>1 DEF Changes
  <2>2. CASE b \notin Changing
    BY <1>1, <1>2, <2>2, NoChangeIdle DEF Changing
  <2> QED BY <2>1, <2>2
<1>3. ModelTypes'
  <2>1. \A b \in Admins : admin'[b] \in Changes
    BY <1>1, <1>2
  <2>2. admin' \in [Admins -> Changes]
    BY <1>1, <2>1
  <2> QED BY <1>1, <1>2, <2>2 DEF ModelTypes
<1>4. AloneIsAlone'
  <2>1. r.alone => \A b \in Admins : admin[b].pc = "idle"
    BY DEF Changing
  <2> QED BY <1>1, <1>2, <2>1 DEF AloneIsAlone
<1>5. AloneKnows'
  <2>1. Knows(r) /\ UNCHANGED <<platformModel, override, answering>>
    BY <1>1
  <2>2. Knows(admin[a])'
    BY <1>1, <2>1 DEF Knows, Effective, PlatformSpec
  <2> QED BY <1>2, <2>2 DEF AloneKnows
<1>6. ASSUME NEW l \in Lines \ behind, Untouched(l)' PROVE answering[l] = Effective(l)
  <2>1. Untouched(l)
    BY <1>1, <1>2, <1>6 DEF Untouched, Changing
  <2> QED BY <2>1 DEF UntouchedAnswers
<1>7. UntouchedAnswers'
  BY <1>1, <1>6 DEF UntouchedAnswers, Effective, PlatformSpec
<1> QED BY <1>3, <1>4, <1>5, <1>7

LEMMA TryKeepsModels ==
  ASSUME ModelInv, NEW a \in Admins, TryModel(a)
  PROVE  ModelInv'
<1>0. PICK l0 \in Lines, spec \in Specs : l0 = admin[a].line /\ spec = admin[a].spec
  BY AdminParts DEF ModelInv, ModelTypes, TryModel
<1> DEFINE sent == [answering EXCEPT ![l0] = spec]
<1>1. /\ admin[a].pc = "pin" /\ l0 \in Lines /\ spec \in Specs /\ UNCHANGED <<platformModel, override>>
      /\ answering \in [Lines -> Specs] /\ sent \in [Lines -> Specs] /\ "none" \notin Specs
      /\ platformModel \in Specs \cup {"none"} /\ override \in [Lines -> Specs \cup {"none"}]
  BY <1>0, AdminParts DEF ModelInv, ModelTypes, TryModel, Specs
<1>2. \A l \in Lines : Effective(l)' = Effective(l)
  BY <1>0, <1>1 DEF Effective, PlatformSpec
<1>3. /\ admin[a].alone => admin[a].restore = Effective(l0)
      /\ admin[a].alone /\ admin[a].unchanged => spec = Effective(l0)
  BY <1>0, <1>1 DEF ModelInv, AloneKnows, Knows
<1>4. ASSUME answering' = sent \/ UNCHANGED answering, NEW l \in Lines, l # l0, l \notin behind PROVE Holds(a, l)
  BY <1>0, <1>1, <1>2, <1>4 DEF Holds
<1>5. CASE answering' = sent /\ admin[a].unchanged /\ Done(a) /\ Settle(a, l0, TRUE)
  <2>1. ASSUME NEW l \in Lines \ behind' PROVE Holds(a, l)
    <3>1. CASE l # l0
      BY <1>4, <1>5, <2>1, <3>1 DEF Settle
    <3>2. CASE l = l0
      BY <1>0, <1>1, <1>2, <1>3, <1>5, <2>1, <3>2 DEF Settle, Holds
    <3> QED BY <3>1, <3>2
  <2> QED BY <1>0, <1>1, <1>5, <2>1, EndKeepsModels
<1>6. CASE answering' = sent /\ UNCHANGED behind /\ (Turn(a, "publish") \/ Turn(a, "revert"))
  <2>1. \A l \in Lines \ behind' : l = l0 \/ Holds(a, l)
    BY <1>4, <1>6
  <2>2. admin[a].alone => admin[a].restore = Effective(l0)'
    BY <1>0, <1>1, <1>2, <1>3
  <2>3. answering'[l0] = admin[a].spec
    BY <1>0, <1>1, <1>6
  <2>4. answering' \in [Lines -> Specs] /\ platformModel' \in Specs \cup {"none"}
        /\ override' \in [Lines -> Specs \cup {"none"}]
    BY <1>0, <1>1, <1>6
  <2>5. CASE Turn(a, "publish")
    BY <1>0, <1>1, <2>1, <2>2, <2>3, <2>4, <2>5, TurnKeepsModels
  <2>6. CASE Turn(a, "revert")
    BY <1>0, <1>1, <2>1, <2>2, <2>3, <2>4, <2>6, TurnKeepsModels
  <2> QED BY <1>6, <2>5, <2>6
<1>7. CASE (answering' = sent \/ UNCHANGED answering) /\ Done(a) /\ Settle(a, l0, FALSE)
  <2>1. \A l \in Lines \ behind' : Holds(a, l)
    BY <1>4, <1>7 DEF Settle
  <2> QED BY <1>0, <1>1, <1>7, <2>1, EndKeepsModels
<1>8. CASE UNCHANGED <<answering, behind>> /\ Done(a)
  <2>1. \A l \in Lines \ behind' : Holds(a, l)
    BY <1>0, <1>1, <1>2, <1>8 DEF Holds
  <2> QED BY <1>0, <1>1, <1>8, <2>1, EndKeepsModels
<1> QED
  BY <1>0, <1>5, <1>6, <1>7, <1>8 DEF TryModel, Pin

LEMMA StoreKeepsModels ==
  ASSUME ModelInv, NEW a \in Admins, StoreModel(a)
  PROVE  ModelInv'
<1>0. PICK l0 \in Lines, spec \in Specs : l0 = admin[a].line /\ spec = admin[a].spec
  BY AdminParts DEF ModelInv, ModelTypes, StoreModel
<1> DEFINE inherit == {k \in Lines : override[k] = "none"}
<1>1. /\ admin[a].pc = "publish" /\ l0 \in Lines /\ spec \in Specs /\ answering' = answering
      /\ answering \in [Lines -> Specs] /\ "none" \notin Specs
      /\ platformModel \in Specs \cup {"none"} /\ override \in [Lines -> Specs \cup {"none"}]
  BY <1>0, AdminParts DEF ModelInv, ModelTypes, StoreModel, Specs
<1>2. admin[a].alone => admin[a].restore = Effective(l0) /\ answering[l0] = spec
  BY <1>0, <1>1 DEF ModelInv, AloneKnows, Knows
<1>3. CASE /\ override' = [override EXCEPT ![l0] = spec] /\ UNCHANGED platformModel
           /\ Done(a) /\ Settle(a, l0, TRUE)
  <2>1. Effective(l0)' = spec /\ \A l \in Lines : l # l0 => Effective(l)' = Effective(l)
    BY <1>0, <1>1, <1>3 DEF Effective, PlatformSpec
  <2>2. ASSUME NEW l \in Lines \ behind' PROVE Holds(a, l)
    <3>1. CASE l # l0
      BY <1>0, <1>1, <1>3, <2>1, <2>2, <3>1 DEF Settle, Holds
    <3>2. CASE l = l0
      BY <1>0, <1>1, <1>2, <1>3, <2>1, <2>2, <3>2 DEF Settle, Holds
    <3> QED BY <3>1, <3>2
  <2> QED BY <1>0, <1>1, <1>3, <2>2, EndKeepsModels
<1>4. CASE /\ platformModel' = spec /\ UNCHANGED override
           /\ behind' = IF l0 \in inherit /\ admin[a].alone THEN (behind \cup inherit) \ {l0} ELSE behind \cup inherit
           /\ IF l0 \in inherit THEN Done(a) ELSE Turn(a, "revert")
  <2>1. /\ \A l \in inherit : Effective(l)' = spec
        /\ \A l \in Lines : l \notin inherit => Effective(l)' = Effective(l)
    BY <1>0, <1>1, <1>4 DEF Effective, PlatformSpec
  <2>2. ASSUME NEW l \in Lines \ behind', l \in inherit \/ l # l0 PROVE Holds(a, l)
    <3>1. CASE l \in inherit
      <4>1. l = l0 /\ admin[a].alone
        BY <1>4, <2>2, <3>1
      <4> QED BY <1>0, <1>1, <1>2, <2>1, <3>1, <4>1 DEF Holds
    <3>2. CASE l \notin inherit /\ l # l0
      BY <1>0, <1>1, <1>4, <2>1, <2>2, <3>2 DEF Holds
    <3> QED BY <2>2, <3>1, <3>2
  <2>3. CASE l0 \in inherit /\ Done(a)
    <3>1. \A l \in Lines \ behind' : Holds(a, l)
      BY <2>2, <2>3
    <3> QED BY <1>0, <1>1, <1>4, <2>3, <3>1, EndKeepsModels
  <2>4. CASE l0 \notin inherit /\ Turn(a, "revert")
    <3>1. \A l \in Lines \ behind' : l = l0 \/ Holds(a, l)
      BY <2>2
    <3>2. admin[a].alone => admin[a].restore = Effective(l0)'
      BY <1>0, <1>1, <1>2, <2>1, <2>4
    <3> QED BY <1>0, <1>1, <1>4, <2>4, <3>1, <3>2, TurnKeepsModels
  <2> QED BY <1>4, <2>3, <2>4
<1>5. CASE UNCHANGED <<platformModel, override, behind>> /\ Turn(a, "revert")
  <2>1. \A l \in Lines : Effective(l)' = Effective(l)
    BY <1>5 DEF Effective, PlatformSpec
  <2>2. \A l \in Lines \ behind' : l = l0 \/ Holds(a, l)
    BY <1>0, <1>1, <1>5, <2>1 DEF Holds
  <2>3. admin[a].alone => admin[a].restore = Effective(l0)'
    BY <1>0, <1>1, <1>2, <2>1
  <2> QED BY <1>0, <1>1, <1>5, <2>2, <2>3, TurnKeepsModels
<1> QED
  BY <1>0, <1>3, <1>4, <1>5 DEF StoreModel, PublishModel

\* The end of a request that pins what it should, or could not confirm it.
LEMMA PinKeepsModels ==
  ASSUME ModelInv, NEW a \in Admins, NEW l0 \in Lines, NEW spec \in Specs, admin[a].pc # "idle", Done(a),
         UNCHANGED <<platformModel, override>>, admin[a].alone => spec = Effective(l0),
         \A l \in Lines : admin[a].line = l => l = l0 \/ admin[a].pc \in {"pin", "clear", "push"},
         \/ answering' = [answering EXCEPT ![l0] = spec] /\ Settle(a, l0, TRUE)
         \/ answering' \in {answering, [answering EXCEPT ![l0] = spec]} /\ Settle(a, l0, FALSE)
  PROVE  ModelInv'
<1>1. \A l \in Lines : Effective(l)' = Effective(l)
  BY DEF Effective, PlatformSpec
<1>2. /\ answering \in [Lines -> Specs] /\ platformModel \in Specs \cup {"none"}
      /\ override \in [Lines -> Specs \cup {"none"}]
  BY DEF ModelInv, ModelTypes
<1>3. ASSUME NEW l \in Lines \ behind' PROVE Holds(a, l)
  <2>1. CASE l # l0
    BY <1>1, <1>2, <1>3, <2>1 DEF Settle, Holds
  <2>2. CASE l = l0
    BY <1>1, <1>2, <1>3, <2>2 DEF Settle, Holds
  <2> QED BY <2>1, <2>2
<1> QED BY <1>2, <1>3, EndKeepsModels

LEMMA ClearKeepsModels ==
  ASSUME ModelInv, NEW a \in Admins, RetireOverride(a)
  PROVE  ModelInv'
<1>0. PICK l0 \in Lines : l0 = admin[a].line
  BY DEF ModelInv, ModelTypes, RetireOverride
<1>1. /\ admin[a].pc = "clear" /\ UNCHANGED <<platformModel, answering, behind>>
      /\ answering \in [Lines -> Specs] /\ platformModel \in Specs \cup {"none"}
      /\ override \in [Lines -> Specs \cup {"none"}]
  BY DEF ModelInv, ModelTypes, RetireOverride
<1>2. CASE override' = [override EXCEPT ![l0] = "none"] /\ Turn(a, "inherit")
  <2>1. \A l \in Lines : l # l0 => Effective(l)' = Effective(l)
    BY <1>0, <1>1, <1>2 DEF Effective, PlatformSpec
  <2>2. \A l \in Lines \ behind' : l = l0 \/ Holds(a, l)
    BY <1>0, <1>1, <2>1 DEF Holds
  <2>3. admin[a].alone => admin[a].spec = PlatformSpec' /\ override'[l0] = "none"
    BY <1>0, <1>1, <1>2 DEF ModelInv, AloneKnows, Knows, PlatformSpec
  <2> QED BY <1>0, <1>1, <1>2, <2>2, <2>3, TurnKeepsModels
<1>3. CASE Done(a) /\ UNCHANGED override
  <2>1. \A l \in Lines : Effective(l)' = Effective(l)
    BY <1>0, <1>1, <1>3 DEF Effective, PlatformSpec
  <2>2. \A l \in Lines \ behind' : Holds(a, l)
    BY <1>0, <1>1, <2>1 DEF Holds
  <2> QED BY <1>0, <1>1, <1>3, <2>2, EndKeepsModels
<1> QED BY <1>0, <1>2, <1>3 DEF RetireOverride

LEMMA PushKeepsModels ==
  ASSUME ModelInv, NEW a \in Admins, PushOneLine(a)
  PROVE  ModelInv'
<1>1. PICK l0 \in Lines :
        /\ admin[a].pc = "push" /\ l0 \in admin[a].todo
        /\ IF admin[a].todo = {l0} THEN Done(a) ELSE admin' = [admin EXCEPT ![a].todo = admin[a].todo \ {l0}]
        /\ \/ answering' = [answering EXCEPT ![l0] = admin[a].tiers[l0]] /\ Settle(a, l0, TRUE)
           \/ /\ answering' \in {answering, [answering EXCEPT ![l0] = admin[a].tiers[l0]]}
              /\ Settle(a, l0, FALSE)
        /\ UNCHANGED <<platformModel, override>>
  BY DEF PushOneLine, Unconfirmed
<1>2. PICK t \in Specs : t = admin[a].tiers[l0]
  BY <1>1 DEF ModelInv, ModelTypes
<1>3. admin[a].alone => t = Effective(l0)
  BY <1>1, <1>2 DEF ModelInv, AloneKnows, Knows
<1>4. CASE admin[a].todo = {l0}
  BY <1>1, <1>2, <1>3, <1>4, PinKeepsModels
<1>5. CASE admin[a].todo # {l0}
  <2> USE DEF ModelInv
  <2>1. admin' = [admin EXCEPT ![a].todo = admin[a].todo \ {l0}] /\ admin \in [Admins -> Changes] /\ admin[a] \in Changes
    BY <1>1, <1>5 DEF ModelTypes
  <2>2. [admin[a] EXCEPT !.todo = admin[a].todo \ {l0}] \in Changes
    BY <2>1 DEF Changes
  <2>3. /\ admin' \in [Admins -> Changes] /\ \A b \in Admins : b # a => admin'[b] = admin[b]
    BY <2>1, <2>2
  <2>4. /\ admin'[a].pc = "push" /\ admin'[a].todo \subseteq admin[a].todo
        /\ admin'[a].line = admin[a].line /\ admin'[a].tiers = admin[a].tiers /\ admin'[a].alone = admin[a].alone
    BY <1>1, <2>1 DEF Changes
  <2>5. ModelTypes'
    BY <1>1, <1>2, <2>3, <2>4 DEF ModelTypes
  <2>6. AloneIsAlone'
    BY <1>1, <2>3, <2>4 DEF AloneIsAlone
  <2>7. \A l \in Lines : Effective(l)' = Effective(l)
    BY <1>1 DEF Effective, PlatformSpec
  <2>8. AloneKnows'
    <3>1. Knows(admin[a])' \/ ~admin'[a].alone
      <4>1. admin[a].alone => \A l \in admin[a].todo : admin[a].tiers[l] = Effective(l)
        BY <1>1 DEF AloneKnows, Knows
      <4>2. admin[a].todo \subseteq Lines
        BY AdminParts
      <4> QED BY <2>4, <2>7, <4>1, <4>2 DEF Knows
    <3>2. ASSUME NEW b \in Admins, b # a PROVE Knows(admin[b])' \/ ~admin'[b].alone
      <4>1. admin'[b].alone => admin'[b].pc = "idle"
        BY <1>1, <2>3, <3>2 DEF AloneIsAlone
      <4> QED BY <4>1 DEF Knows
    <3> QED BY <3>1, <3>2 DEF AloneKnows
  <2>9. ASSUME NEW l \in Lines \ behind', Untouched(l)' PROVE answering'[l] = Effective(l)'
    <3>1. CASE l # l0
      <4>1. l \notin behind /\ answering'[l] = answering[l]
        BY <1>1, <2>9, <3>1 DEF Settle, ModelTypes
      <4>2. Untouched(l)
        BY <1>1, <2>3, <2>4, <2>9 DEF Untouched, Changing
      <4> QED BY <2>7, <4>1, <4>2 DEF UntouchedAnswers
    <3>2. CASE l = l0
      BY <1>1, <1>2, <1>3, <2>7, <2>9, <3>2 DEF Settle, ModelTypes
    <3> QED BY <3>1, <3>2
  <2> QED BY <2>5, <2>6, <2>8, <2>9 DEF UntouchedAnswers
<1> QED BY <1>4, <1>5

LEMMA RequestKeepsModels ==
  ASSUME ModelInv, NEW a \in Admins, SetOverride(a) \/ HandleModel(a) \/ ClearOverride(a) \/ HandlePush(a)
  PROVE  ModelInv'
<1>0. /\ platformModel \in Specs \cup {"none"} /\ override \in [Lines -> Specs \cup {"none"}]
      /\ PlatformSpec \in Specs /\ \A l \in Lines : Effective(l) \in Specs /\ RestoreOf(l) = Effective(l)
  BY DEF ModelInv, ModelTypes, PlatformSpec, Effective, RestoreOf, Specs
<1>1. NoTiers \in [Lines -> Specs \cup {"none"}] /\ (Changing = {}) \in BOOLEAN
  BY DEF NoTiers
<1>2. ASSUME NEW pc \in {"pin", "clear"}, NEW scope \in {"line", "platform"}, NEW l \in Lines,
             NEW spec \in Specs, NEW restore \in Specs,
             pc = "pin" => restore = Effective(l), pc = "clear" => spec = PlatformSpec,
             BeginChange(a, ModelChange(pc, scope, l, spec, restore))
      PROVE  ModelInv'
  <2> DEFINE same == (scope = "line" /\ override[l] = spec)
             r == ModelChange(pc, scope, l, spec, restore)
  <2>1. /\ r \in Changes /\ r.pc = pc /\ r.line = l /\ r.spec = spec /\ r.restore = restore
        /\ r.unchanged = same /\ r.alone = (Changing = {})
    BY <1>1 DEF ModelChange, Change, Changes
  <2>2. r.unchanged => spec = Effective(l)
    BY <2>1 DEF Effective, Specs
  <2> HIDE DEF r
  <2>3. Knows(r)
    BY <1>2, <2>1, <2>2 DEF Knows
  <2>4. BeginChange(a, r)
    BY <1>2 DEF r
  <2> QED BY <2>1, <2>3, <2>4, BeginKeepsModels
<1>3. CASE SetOverride(a)
  BY <1>0, <1>2, <1>3 DEF SetOverride
<1>4. CASE HandleModel(a)
  BY <1>0, <1>2, <1>4 DEF HandleModel
<1>5. CASE ClearOverride(a)
  <2>1. PICK l \in Lines : BeginChange(a, ModelChange("clear", "line", l, PlatformSpec, PlatformSpec))
    BY <1>5 DEF ClearOverride
  <2> QED BY <1>0, <1>2, <2>1
<1>6. CASE HandlePush(a)
  <2> DEFINE r(batch) == Change("push", "line", "none", "builtin", "builtin", FALSE, batch,
                                [l \in Lines |-> Effective(l)], Changing = {})
  <2>1. PICK batch \in SUBSET Lines : BeginChange(a, r(batch))
    BY <1>6 DEF HandlePush
  <2>2. [l \in Lines |-> Effective(l)] \in [Lines -> Specs]
    BY <1>0
  <2>3. /\ r(batch) \in Changes /\ r(batch).pc = "push" /\ r(batch).todo = batch
        /\ r(batch).tiers = [l \in Lines |-> Effective(l)] /\ r(batch).alone = (Changing = {})
    BY <1>1, <2>2 DEF Change, Changes, Specs
  <2> HIDE DEF r
  <2>4. Knows(r(batch))
    BY <2>3 DEF Knows
  <2> QED BY <2>1, <2>2, <2>3, <2>4, BeginKeepsModels
<1> QED BY <1>3, <1>4, <1>5, <1>6

(* A line nobody changes answers with the model of its tier.               *)
THEOREM TierAnswers == ModelSpec => []AnswersWithItsTier
<1>1. ModelInit => ModelInv
  BY NoChangeIdle
  DEF ModelInit, ModelInv, ModelTypes, AloneIsAlone, AloneKnows, UntouchedAnswers, Effective, PlatformSpec, Specs
<1>2. ModelInv /\ [ModelNext]_modelVars => ModelInv'
  <2> SUFFICES ASSUME ModelInv, [ModelNext]_modelVars PROVE ModelInv'
    OBVIOUS
  <2>1. CASE UNCHANGED modelVars
    BY <2>1 DEF modelVars, ModelInv, ModelTypes, AloneIsAlone, AloneKnows, Knows, UntouchedAnswers, Untouched,
                Changing, Effective, PlatformSpec
  <2>2. ASSUME NEW a \in Admins, Revert(a) PROVE ModelInv'
    <3>1. PICK l0 \in Lines, spec \in Specs : l0 = admin[a].line /\ spec = admin[a].restore
      BY <2>2, AdminParts DEF ModelInv, ModelTypes, Revert
    <3>2. admin[a].alone => spec = Effective(l0)
      BY <2>2, <3>1 DEF ModelInv, AloneKnows, Knows, Revert
    <3> QED BY <2>2, <3>1, <3>2, PinKeepsModels DEF Revert, Unconfirmed
  <2>3. ASSUME NEW a \in Admins, PinInherited(a) PROVE ModelInv'
    <3>1. PICK l0 \in Lines, spec \in Specs : l0 = admin[a].line /\ spec = admin[a].spec
      BY <2>3, AdminParts DEF ModelInv, ModelTypes, PinInherited
    <3>2. admin[a].alone => spec = Effective(l0)
      BY <2>3, <3>1 DEF ModelInv, AloneKnows, Knows, PinInherited, Effective
    <3> QED BY <2>3, <3>1, <3>2, PinKeepsModels DEF PinInherited, Unconfirmed
  <2> QED
    BY <2>1, <2>2, <2>3, RequestKeepsModels, TryKeepsModels, StoreKeepsModels, ClearKeepsModels, PushKeepsModels
    DEF ModelNext
<1>3. ModelInv => AnswersWithItsTier
  BY DEF ModelInv, UntouchedAnswers, Untouched, AnswersWithItsTier
<1> QED
  BY <1>1, <1>2, <1>3, PTL DEF ModelSpec

-----------------------------------------------------------------------------
(* Provisioning: what exists outside is on the row, in the hands of the     *)
(* request, named to an operator, or was never answered.  The invariant     *)
(* follows a request through its steps: before the write-back a new object  *)
(* fills a gap of the row, afterwards it is on the row or in the report,    *)
(* and a deletion lets go of the row only with what it warned about.        *)
LineType == [exists : BOOLEAN, app : Nat, dataset : Nat, account : Nat, token : BOOLEAN, inbox : Nat, column : Nat]
DifySteps == {"app", "key", "dataset", "bind"}
ChatwootSteps == {"portal", "chatwoot", "block", "agent", "inbox"}
DeleteSteps == {"data", "account", "dify", "row"}
JobType == [pc : {"idle"} \cup DifySteps \cup ChatwootSteps \cup DeleteSteps, onboard : BOOLEAN,
            app : Nat, dataset : Nat, newApp : Nat, newDataset : Nat, report : SUBSET Nat,
            block : LineType, account : Nat, warned : SUBSET Nat]
ProvTypeOK == line \in LineType /\ job \in JobType /\ alive \subseteq Nat /\ made \in Nat

\* The column only repeats the account, and an inbox on record is the account's.
LineSound == /\ line.column \in {0, line.account}
             /\ line.inbox # 0 => /\ line.account # 0 /\ line.inbox \in DOMAIN inboxOf
                                  /\ inboxOf[line.inbox] = line.account

\* What a request creates, the row it read did not have: writing it back
\* replaces nothing.
NewWhereNone == job.pc \in DifySteps =>
  /\ IF job.newApp = 0 THEN job.app = line.app ELSE job.app = job.newApp /\ line.app = 0
  /\ IF job.newDataset = 0 THEN job.dataset = line.dataset
     ELSE job.dataset = job.newDataset /\ line.dataset = 0
  /\ job.report = {}

\* After the Dify part its objects are on the row or in the report.
WrittenOrReported == job.pc \in ChatwootSteps =>
  {job.newApp, job.newDataset} \ {0} \subseteq {line.app, line.dataset} \cup job.report

\* The block is the row's, but for an account that is not stored yet.
BlockSound ==
  /\ job.pc \in DifySteps \cup ChatwootSteps => job.block.inbox = line.inbox
  /\ job.pc \in DifySteps \cup (ChatwootSteps \ {"block"}) => job.block.account = line.account
  /\ job.pc = "block" => line.account = 0 /\ job.block.account # 0
  /\ job.pc \in {"agent", "inbox"} => line.account # 0

\* A deletion works on what the row names; what it could not remove it warns of.
DeleteSound == job.pc \in DeleteSteps =>
  /\ InHand = {} /\ job.app = line.app /\ job.dataset = line.dataset
  /\ job.account \in {0, line.account} /\ line.account \in outOfSight \cup {0, job.account}
  /\ job.pc \in {"dify", "row"} => alive \cap Belonging({job.account} \ {0}) \subseteq Belonging(job.warned)
  /\ job.pc = "row" => alive \cap Belonging({job.app, job.dataset} \ {0}) \subseteq Belonging(job.warned)

\* Ids are handed out once, so no inbox belongs to the inbox on record.
OneLevel == /\ line.account \in 0..made /\ job.block.account \in 0..made
            /\ \A i \in DOMAIN inboxOf : inboxOf[i] \in 0..made /\ (line.inbox # 0 => inboxOf[i] # line.inbox)

ProvInv == /\ ProvTypeOK /\ LineSound /\ NewWhereNone /\ WrittenOrReported /\ BlockSound
           /\ DeleteSound /\ NoSilentOrphan

ProvSteps == {"idle"} \cup DifySteps \cup ChatwootSteps \cup DeleteSteps
Known == OnRecord \cup InHand \cup named \cup outOfSight

\* What was found stays found when nothing known is forgotten and a new object is known.
SameInboxes(N) == \A i \in DOMAIN inboxOf \ N : i \in DOMAIN inboxOf' /\ inboxOf'[i] = inboxOf[i]

LEMMA AllKept ==
  ASSUME NoSilentOrphan, Known \subseteq Known', NEW N, N \subseteq Known',
         alive' \subseteq alive \cup N, SameInboxes(N)
  PROVE  NoSilentOrphan'
  BY DEF NoSilentOrphan, Reachable, Belonging, Known, SameInboxes

LEMMA LineKept == LineSound /\ UNCHANGED <<line, inboxOf>> => LineSound'
  BY DEF LineSound

LEMMA NoJobType == NoJob \in JobType
<1>1. NoLine \in LineType
  BY DEF NoLine, LineType
<1> QED
  BY <1>1 DEF NoJob, JobType

\* The request in hand has ended.
LEMMA Ended ==
  ASSUME job' = NoJob
  PROVE  job' \in JobType /\ job'.pc = "idle" /\ InHand' = {}
  BY NoJobType DEF InHand, NoJob, NoLine

LEMMA EndsWell ==
  ASSUME job' = NoJob, line' \in LineType, LineSound', alive' \subseteq Nat, made' \in Nat, NoSilentOrphan'
  PROVE  ProvInv'
  BY Ended DEF ProvInv, ProvTypeOK, NewWhereNone, WrittenOrReported, BlockSound, DeleteSound,
     DifySteps, ChatwootSteps, DeleteSteps

\* It goes on with another step and what it has.
SameData == /\ job'.app = job.app /\ job'.dataset = job.dataset
            /\ job'.newApp = job.newApp /\ job'.newDataset = job.newDataset
            /\ job'.block = job.block /\ job'.account = job.account

LEMMA GoesTo ==
  ASSUME job \in JobType, NEW s \in ProvSteps, job' = At(s)
  PROVE  /\ job' \in JobType /\ job'.pc = s /\ SameData
         /\ job'.report = job.report /\ job'.warned = job.warned /\ InHand' = InHand
  BY DEF JobType, ProvSteps, At, SameData, InHand

LEMMA Continues ==
  ASSUME ProvInv, NEW s, job' = At(s), UNCHANGED <<line, inboxOf, named, outOfSight, alive, made>>,
         <<job.pc, s>> \in {<<"app", "dataset">>, <<"key", "dataset">>, <<"dataset", "bind">>,
                            <<"portal", "chatwoot">>, <<"agent", "inbox">>, <<"data", "account">>}
  PROVE  ProvInv'
<1> USE DEF DifySteps, ChatwootSteps, DeleteSteps
<1>1. /\ job' \in JobType /\ job'.pc = s /\ SameData
      /\ job'.report = job.report /\ job'.warned = job.warned /\ InHand' = InHand
  BY GoesTo DEF ProvSteps, ProvInv, ProvTypeOK
<1>2. Known' = Known /\ LineSound'
  BY <1>1, LineKept DEF Known, OnRecord, ProvInv
<1>3. NoSilentOrphan'
  BY <1>2 DEF ProvInv, NoSilentOrphan, Known, Reachable, Belonging
<1>4. NewWhereNone' /\ WrittenOrReported' /\ BlockSound'
  BY <1>1 DEF ProvInv, NewWhereNone, WrittenOrReported, BlockSound, SameData
<1>5. DeleteSound'
  BY <1>1 DEF ProvInv, DeleteSound, SameData
<1> QED
  BY <1>1, <1>2, <1>3, <1>4, <1>5 DEF ProvInv, ProvTypeOK

\* The Dify part ends before the write-back, or its write-back fails: what the
\* run made is in the report.
LEMMA UnrecordedType == job \in JobType => Unrecorded(job) \in SUBSET Nat
  BY DEF JobType, Unrecorded

LEMMA Reports ==
  ASSUME job \in JobType, NEW r \in SUBSET Nat, job' = DifyOver([job EXCEPT !.report = r])
  PROVE  IF job.onboard THEN job' \in JobType /\ job'.pc = "portal" /\ SameData /\ job'.report = r
         ELSE job' = NoJob
  BY DEF JobType, DifyOver, SameData, ChatwootSteps

LEMMA StopsWell ==
  ASSUME ProvInv, job' = DifyOver([job EXCEPT !.report = Unrecorded(job)]), job.pc \in DifySteps,
         UNCHANGED <<line, inboxOf>>, named \subseteq named', job.onboard \/ Unrecorded(job) \subseteq named',
         NEW N \in SUBSET Nat, made' \in Nat, alive' \subseteq alive \cup N, outOfSight' = outOfSight \cup N
  PROVE  ProvInv'
<1> USE DEF DifySteps, ChatwootSteps, DeleteSteps
<1>1. LineSound' /\ job \in JobType /\ line' \in LineType /\ alive' \subseteq Nat
  BY LineKept DEF ProvInv, ProvTypeOK
<1>2. Unrecorded(job) \in SUBSET Nat
  BY <1>1, UnrecordedType
<1>3. /\ job.block.account = line.account /\ job.block.inbox = line.inbox /\ job.report = {}
  BY DEF ProvInv, BlockSound, NewWhereNone
<1>4. SameInboxes(N) /\ NoSilentOrphan
  BY DEF SameInboxes, ProvInv
<1>5. InHand \subseteq Unrecorded(job) \cup OnRecord
  BY <1>3 DEF InHand, Unrecorded, OnRecord
<1>6. OnRecord' = OnRecord
  BY DEF OnRecord
<1>7. CASE job.onboard
  <2>1. job' \in JobType /\ job'.pc = "portal" /\ SameData /\ job'.report = Unrecorded(job)
    BY <1>1, <1>2, <1>7, Reports
  <2>2. Unrecorded(job) \subseteq InHand'
    BY <2>1 DEF InHand
  <2>3. Known \subseteq Known' /\ N \subseteq Known'
    BY <1>5, <1>6, <2>2 DEF Known
  <2>4. NoSilentOrphan'
    BY <1>4, <2>3, AllKept
  <2>5. WrittenOrReported' /\ BlockSound'
    BY <1>3, <2>1 DEF WrittenOrReported, BlockSound, SameData, Unrecorded
  <2> QED
    BY <1>1, <2>1, <2>4, <2>5 DEF ProvInv, ProvTypeOK, NewWhereNone, DeleteSound
<1>8. CASE ~job.onboard
  <2>1. job' = NoJob /\ InHand' = {}
    BY <1>1, <1>2, <1>8, Reports, Ended
  <2>2. Known \subseteq Known' /\ N \subseteq Known'
    BY <1>5, <1>6, <1>8 DEF Known
  <2>3. NoSilentOrphan'
    BY <1>4, <2>2, AllKept
  <2> QED
    BY <1>1, <2>1, <2>3, EndsWell
<1> QED
  BY <1>7, <1>8

\* The answer of onboarding says what is neither on the row nor a new object
\* out of sight.
LEMMA AnswersWell ==
  ASSUME ProvInv, job.pc \in ChatwootSteps, NEW more, Answer(more),
         line' \in LineType, LineSound', OnRecord \subseteq OnRecord',
         {line'.app, line'.dataset} = {line.app, line.dataset},
         {job.block.account, job.block.inbox} \ {0} \subseteq OnRecord' \cup more,
         NEW N \in SUBSET Nat, made' \in Nat, alive' \subseteq alive \cup N,
         N \subseteq OnRecord' \cup more \cup outOfSight', outOfSight \subseteq outOfSight', SameInboxes(N)
  PROVE  ProvInv'
<1>1. job' = NoJob /\ named' = named \cup job.report \cup more
  BY DEF Answer
<1>2. {job.newApp, job.newDataset} \ {0} \subseteq OnRecord \cup job.report
  BY DEF ProvInv, WrittenOrReported, OnRecord
<1>3. Known \subseteq Known' /\ N \subseteq Known'
  <2>1. InHand \subseteq OnRecord' \cup named'
    BY <1>1, <1>2 DEF InHand
  <2>2. OnRecord' \cup named' \cup outOfSight' \subseteq Known' /\ named \cup more \subseteq named'
    BY <1>1 DEF Known
  <2>3. Known \subseteq OnRecord' \cup named' \cup outOfSight'
    BY <2>1, <2>2 DEF Known
  <2> QED
    BY <2>2, <2>3
<1>4. NoSilentOrphan' /\ alive' \subseteq Nat
  BY <1>3, AllKept DEF ProvInv, ProvTypeOK
<1> QED
  BY <1>1, <1>4, EndsWell

LEMMA ProvInvInit == ProvInit => ProvInv /\ OneLevel
<1> SUFFICES ASSUME ProvInit PROVE ProvInv /\ OneLevel
  OBVIOUS
<1>1. NoLine \in LineType /\ NoJob \in JobType
  BY NoJobType DEF NoLine, LineType
<1> QED
  BY <1>1 DEF OneLevel, ProvInit, ProvInv, ProvTypeOK, NoJob, NoLine, LineSound, NewWhereNone, WrittenOrReported,
     BlockSound, DeleteSound, NoSilentOrphan, InHand, DifySteps, ChatwootSteps, DeleteSteps

LEMMA ProvInvNext == ProvInv /\ OneLevel /\ [ProvNext]_provVars => ProvInv'
<1> SUFFICES ASSUME ProvInv /\ OneLevel, [ProvNext]_provVars PROVE ProvInv'
  OBVIOUS
<1> USE ProvisionAssumption
<1>1. ASSUME NEW onboard \in BOOLEAN, StartProvision(onboard) PROVE ProvInv'
  <2>1. job = NoJob /\ InHand = {}
    BY <1>1 DEF StartProvision, InHand, NoJob, NoLine
  <2>2. /\ line' \in LineType /\ line'.app = line.app /\ line'.dataset = line.dataset
        /\ line'.account = line.account /\ line'.inbox = line.inbox /\ line'.column = line.column
    BY <1>1 DEF StartProvision, ProvInv, ProvTypeOK, LineType
  <2>3. NoJob \in JobType
    BY NoJobType
  <2>4. /\ job' \in JobType /\ job'.pc = "app" /\ job'.app = line.app /\ job'.dataset = line.dataset
        /\ job'.newApp = 0 /\ job'.newDataset = 0 /\ job'.report = {} /\ job'.block = line
    BY <1>1, <2>3 DEF StartProvision, ProvInv, ProvTypeOK, JobType, LineType, NoJob, DifySteps
  <2>5. LineSound' /\ OnRecord' = OnRecord
    BY <1>1, <2>2 DEF StartProvision, ProvInv, LineSound, OnRecord
  <2>6. NoSilentOrphan'
    <3>1. Known \subseteq Known' /\ SameInboxes({})
      BY <1>1, <2>1, <2>5 DEF StartProvision, Known, SameInboxes
    <3> QED
      BY <1>1, <3>1, AllKept DEF StartProvision, ProvInv
  <2>7. NewWhereNone' /\ WrittenOrReported' /\ BlockSound' /\ DeleteSound'
    BY <2>2, <2>4 DEF NewWhereNone, WrittenOrReported, BlockSound, DeleteSound, DifySteps, ChatwootSteps, DeleteSteps
  <2> QED
    BY <1>1, <2>2, <2>4, <2>5, <2>6, <2>7 DEF StartProvision, ProvInv, ProvTypeOK
<1>2. ASSUME CreateApp PROVE ProvInv'
  <2>0. job.pc = "app" /\ job.pc \in DifySteps
    BY <1>2 DEF CreateApp, DifySteps
  <2>1. CASE job.app # 0 /\ job' = At("dataset") /\ NothingMade /\ UNCHANGED <<line, inboxOf, named, outOfSight>>
    BY <2>0, <2>1, Continues DEF NothingMade
  <2>2. ASSUME NEW o \in Objects, job.app = 0, Made(o), UNCHANGED <<line, inboxOf, named, outOfSight>>,
               job' = [job EXCEPT !.pc = "key", !.app = o, !.newApp = o]
        PROVE  ProvInv'
    <3>1. /\ job' \in JobType /\ job'.pc = "key" /\ job'.app = o /\ job'.newApp = o
          /\ job'.dataset = job.dataset /\ job'.newDataset = job.newDataset
          /\ job'.block = job.block /\ job'.report = job.report
      <4>1. o \in Nat /\ job \in JobType
        BY <2>2 DEF ProvInv, ProvTypeOK, Objects
      <4> QED
        BY <2>2, <4>1 DEF JobType, DifySteps
    <3>2. /\ UNCHANGED <<line, inboxOf, named, outOfSight>> /\ OnRecord' = OnRecord
          /\ alive' = alive \cup {o} /\ made' = o /\ o \in Nat
      BY <1>2, <2>2 DEF Made, OnRecord, Objects
    <3>3. job.app = 0 /\ job.pc = "app"
      BY <1>2, <2>2 DEF CreateApp
    <3>4. o # 0 /\ job.newApp = 0 /\ line.app = 0
      BY <3>3, <2>2 DEF ProvInv, NewWhereNone, Objects, DifySteps
    <3>5. InHand' = InHand \cup {o}
      BY <3>1, <3>4 DEF InHand
    <3>6. NoSilentOrphan'
      <4>1. Known \subseteq Known' /\ {o} \subseteq Known' /\ SameInboxes({o})
        BY <3>2, <3>5 DEF Known, SameInboxes
      <4> QED
        BY <3>2, <4>1, AllKept DEF ProvInv
    <3>7. NewWhereNone' /\ WrittenOrReported' /\ BlockSound' /\ DeleteSound'
      BY <3>1, <3>2, <3>3, <3>4
      DEF ProvInv, NewWhereNone, WrittenOrReported, BlockSound, DeleteSound, DifySteps, ChatwootSteps, DeleteSteps
    <3>8. LineSound'
      BY <3>2, LineKept DEF ProvInv
    <3> QED
      BY <3>1, <3>2, <3>6, <3>7, <3>8 DEF ProvInv, ProvTypeOK
  <2>3. ASSUME NEW o \in Objects, Made(o), outOfSight' = outOfSight \cup {o}, StopDify PROVE ProvInv'
    <3>1. {o} \in SUBSET Nat /\ made' \in Nat /\ alive' \subseteq alive \cup {o}
      BY <2>3 DEF Made, Objects
    <3> QED
      BY <2>0, <2>3, <3>1, StopsWell DEF StopDify
  <2>4. CASE NothingMade /\ UNCHANGED outOfSight /\ StopDify
    <3>1. made' \in Nat /\ {} \in SUBSET Nat /\ alive' \subseteq alive \cup {} /\ outOfSight' = outOfSight \cup {}
      BY <2>4 DEF NothingMade, ProvInv, ProvTypeOK
    <3> QED
      BY <2>0, <2>4, <3>1, StopsWell DEF StopDify
  <2> QED
    BY <1>2, <2>1, <2>2, <2>3, <2>4 DEF CreateApp
<1>3. ASSUME CreateKey PROVE ProvInv'
  <2>1. CASE job' = At("dataset") /\ UNCHANGED <<line, inboxOf, named>>
    BY <1>3, <2>1, Continues DEF CreateKey, NothingMade
  <2>2. CASE StopDify
    <3>1. /\ made' \in Nat /\ {} \in SUBSET Nat /\ alive' \subseteq alive \cup {}
          /\ outOfSight' = outOfSight \cup {} /\ job.pc \in DifySteps
      BY <1>3 DEF CreateKey, NothingMade, ProvInv, ProvTypeOK, DifySteps
    <3> QED
      BY <2>2, <3>1, StopsWell DEF StopDify
  <2> QED
    BY <1>3, <2>1, <2>2 DEF CreateKey
<1>4. ASSUME CreateDataset PROVE ProvInv'
  <2>0. job.pc = "dataset" /\ job.pc \in DifySteps
    BY <1>4 DEF CreateDataset, DifySteps
  <2>1. CASE job.dataset # 0 /\ job' = At("bind") /\ NothingMade /\ UNCHANGED <<line, inboxOf, named, outOfSight>>
    BY <2>0, <2>1, Continues DEF NothingMade
  <2>2. ASSUME NEW o \in Objects, job.dataset = 0, Made(o), UNCHANGED <<line, inboxOf, named, outOfSight>>,
               job' = [job EXCEPT !.pc = "bind", !.dataset = o, !.newDataset = o]
        PROVE  ProvInv'
    <3>1. /\ job' \in JobType /\ job'.pc = "bind" /\ job'.dataset = o /\ job'.newDataset = o
          /\ job'.app = job.app /\ job'.newApp = job.newApp
          /\ job'.block = job.block /\ job'.report = job.report
      <4>1. o \in Nat /\ job \in JobType
        BY <2>2 DEF ProvInv, ProvTypeOK, Objects
      <4> QED
        BY <2>2, <4>1 DEF JobType, DifySteps
    <3>2. /\ UNCHANGED <<line, inboxOf, named, outOfSight>> /\ OnRecord' = OnRecord
          /\ alive' = alive \cup {o} /\ made' = o /\ o \in Nat
      BY <1>4, <2>2 DEF Made, OnRecord, Objects
    <3>3. job.dataset = 0 /\ job.pc = "dataset"
      BY <1>4, <2>2 DEF CreateDataset
    <3>4. o # 0 /\ job.newDataset = 0 /\ line.dataset = 0
      BY <3>3, <2>2 DEF ProvInv, NewWhereNone, Objects, DifySteps
    <3>5. InHand' = InHand \cup {o}
      BY <3>1, <3>4 DEF InHand
    <3>6. NoSilentOrphan'
      <4>1. Known \subseteq Known' /\ {o} \subseteq Known' /\ SameInboxes({o})
        BY <3>2, <3>5 DEF Known, SameInboxes
      <4> QED
        BY <3>2, <4>1, AllKept DEF ProvInv
    <3>7. NewWhereNone' /\ WrittenOrReported' /\ BlockSound' /\ DeleteSound'
      BY <3>1, <3>2, <3>3, <3>4
      DEF ProvInv, NewWhereNone, WrittenOrReported, BlockSound, DeleteSound, DifySteps, ChatwootSteps, DeleteSteps
    <3>8. LineSound'
      BY <3>2, LineKept DEF ProvInv
    <3> QED
      BY <3>1, <3>2, <3>6, <3>7, <3>8 DEF ProvInv, ProvTypeOK
  <2>3. ASSUME NEW o \in Objects, Made(o), outOfSight' = outOfSight \cup {o}, StopDify PROVE ProvInv'
    <3>1. {o} \in SUBSET Nat /\ made' \in Nat /\ alive' \subseteq alive \cup {o}
      BY <2>3 DEF Made, Objects
    <3> QED
      BY <2>0, <2>3, <3>1, StopsWell DEF StopDify
  <2>4. CASE NothingMade /\ UNCHANGED outOfSight /\ StopDify
    <3>1. made' \in Nat /\ {} \in SUBSET Nat /\ alive' \subseteq alive \cup {} /\ outOfSight' = outOfSight \cup {}
      BY <2>4 DEF NothingMade, ProvInv, ProvTypeOK
    <3> QED
      BY <2>0, <2>4, <3>1, StopsWell DEF StopDify
  <2> QED
    BY <1>4, <2>1, <2>2, <2>3, <2>4 DEF CreateDataset
<1>5. ASSUME PersistBinding PROVE ProvInv'
  <2>0. /\ job.pc = "bind" /\ job.pc \in DifySteps /\ job \in JobType /\ line \in LineType
        /\ made' \in Nat /\ alive' \subseteq alive \cup {} /\ alive' \subseteq Nat
        /\ UNCHANGED <<inboxOf, outOfSight>> /\ {} \in SUBSET Nat /\ outOfSight' = outOfSight \cup {}
    BY <1>5 DEF PersistBinding, NothingMade, ProvInv, ProvTypeOK, DifySteps
  <2>1. CASE /\ UNCHANGED line /\ job' = DifyOver([job EXCEPT !.report = Unrecorded(job)])
             /\ named' = named \cup Unrecorded(job)
    BY <2>0, <2>1, StopsWell
  <2>2. CASE /\ line' = CASE job.newApp # 0 -> [line EXCEPT !.app = job.app, !.dataset = job.dataset]
                          [] job.newApp = 0 /\ job.newDataset # 0 -> [line EXCEPT !.dataset = job.dataset]
                          [] OTHER -> line
             /\ job' = DifyOver(job) /\ UNCHANGED named
    <3>1. /\ line.app \in {0, job.app} /\ line.dataset \in {0, job.dataset} /\ job.report = {}
          /\ {job.newApp, job.newDataset} \ {0} \subseteq {job.app, job.dataset}
          /\ job.newApp = 0 => job.app = line.app
          /\ job.newDataset = 0 => job.dataset = line.dataset
          /\ job.block.account = line.account /\ job.block.inbox = line.inbox
      BY <2>0 DEF ProvInv, NewWhereNone, BlockSound
    <3>2. /\ line' \in LineType /\ line'.app = job.app /\ line'.dataset = job.dataset
          /\ line'.account = line.account /\ line'.inbox = line.inbox /\ line'.column = line.column
      <4>1. CASE job.newApp # 0
        BY <2>0, <2>2, <4>1 DEF LineType, JobType
      <4>2. CASE job.newApp = 0 /\ job.newDataset # 0
        BY <2>0, <2>2, <3>1, <4>2 DEF LineType, JobType
      <4>3. CASE job.newApp = 0 /\ job.newDataset = 0
        BY <2>0, <2>2, <3>1, <4>3
      <4> QED
        BY <4>1, <4>2, <4>3
    <3>3. LineSound'
      BY <2>0, <3>2 DEF ProvInv, LineSound
    <3>4. OnRecord \subseteq OnRecord' /\ InHand \subseteq OnRecord'
      BY <3>1, <3>2 DEF OnRecord, InHand
    <3>5. NoSilentOrphan'
      <4>1. Known \subseteq Known' /\ SameInboxes({})
        BY <2>0, <2>2, <3>4 DEF Known, SameInboxes
      <4> QED
        BY <2>0, <4>1, AllKept DEF ProvInv
    <3>6. CASE job.onboard
      <4>1. job' = At("portal")
        BY <2>2, <3>6 DEF DifyOver, At
      <4>2. job' \in JobType /\ job'.pc = "portal" /\ SameData
        BY <2>0, <4>1, GoesTo DEF ProvSteps, ChatwootSteps
      <4>3. NewWhereNone' /\ WrittenOrReported' /\ BlockSound' /\ DeleteSound'
        BY <3>1, <3>2, <4>2 DEF NewWhereNone, WrittenOrReported, BlockSound, DeleteSound, SameData,
           DifySteps, ChatwootSteps, DeleteSteps
      <4> QED
        BY <2>0, <3>2, <3>3, <3>5, <4>2, <4>3 DEF ProvInv, ProvTypeOK
    <3>7. CASE ~job.onboard
      BY <2>0, <2>2, <3>2, <3>3, <3>5, <3>7, EndsWell DEF DifyOver
    <3> QED
      BY <3>6, <3>7
  <2> QED
    BY <1>5, <2>1, <2>2 DEF PersistBinding
<1>6. ASSUME PortalAccount PROVE ProvInv'
  <2>1. CASE job' = At("chatwoot") /\ UNCHANGED outOfSight
    BY <1>6, <2>1, Continues DEF PortalAccount, NothingMade
  <2>2. CASE job' = NoJob /\ outOfSight' = outOfSight \cup job.report
    <3>1. /\ UNCHANGED <<line, inboxOf, named, alive, made>> /\ line' \in LineType /\ LineSound'
          /\ alive' \subseteq Nat /\ made' \in Nat
      BY <1>6, LineKept DEF PortalAccount, NothingMade, ProvInv, ProvTypeOK
    <3>2. InHand \subseteq OnRecord \cup job.report /\ OnRecord' = OnRecord
      BY <1>6, <3>1 DEF PortalAccount, ProvInv, WrittenOrReported, BlockSound, InHand, OnRecord, ChatwootSteps
    <3>3. Known \subseteq Known' /\ SameInboxes({})
      BY <2>2, <3>1, <3>2 DEF Known, SameInboxes
    <3>4. NoSilentOrphan'
      BY <3>1, <3>3, AllKept DEF ProvInv
    <3> QED
      BY <2>2, <3>1, <3>4, EndsWell
  <2> QED
    BY <1>6, <2>1, <2>2 DEF PortalAccount
<1>7. ASSUME ResumeAccount PROVE ProvInv'
  <2>1. /\ job.pc = "chatwoot" /\ line.account # 0 /\ job \in JobType /\ line \in LineType
        /\ UNCHANGED <<inboxOf, named, outOfSight, alive, made>>
    BY <1>7 DEF ResumeAccount, NothingMade, ProvInv, ProvTypeOK
  <2>2. /\ line' \in LineType /\ line'.column \in {line.column, line.account} /\ line'.app = line.app
        /\ line'.dataset = line.dataset /\ line'.account = line.account /\ line'.inbox = line.inbox
    BY <1>7, <2>1 DEF ResumeAccount, LineType
  <2>3. /\ job' \in JobType /\ job'.pc = "agent" /\ job'.newApp = job.newApp /\ job'.newDataset = job.newDataset
        /\ job'.report = job.report /\ job'.block = line
    BY <1>7, <2>1 DEF ResumeAccount, JobType, ChatwootSteps
  <2>4. LineSound' /\ OnRecord' = OnRecord
    BY <2>1, <2>2 DEF ProvInv, LineSound, OnRecord
  <2>5. InHand \subseteq InHand' \cup OnRecord
    BY <2>1, <2>3 DEF InHand, OnRecord, ProvInv, BlockSound, DifySteps, ChatwootSteps
  <2>6. Known \subseteq Known' /\ SameInboxes({})
    BY <2>1, <2>4, <2>5 DEF Known, SameInboxes
  <2>7. NoSilentOrphan'
    BY <2>1, <2>6, AllKept DEF ProvInv
  <2>8. NewWhereNone' /\ WrittenOrReported' /\ BlockSound' /\ DeleteSound'
    BY <2>1, <2>2, <2>3 DEF ProvInv, NewWhereNone, WrittenOrReported, BlockSound, DeleteSound,
       DifySteps, ChatwootSteps, DeleteSteps
  <2> QED
    BY <2>1, <2>2, <2>3, <2>4, <2>7, <2>8 DEF ProvInv, ProvTypeOK
<1>8. ASSUME CreateAccount PROVE ProvInv'
  <2>0. /\ job.pc = "chatwoot" /\ job.pc \in ChatwootSteps /\ job \in JobType /\ line \in LineType
        /\ UNCHANGED <<line, inboxOf>> /\ LineSound' /\ OnRecord' = OnRecord
        /\ job.block.account = line.account /\ job.block.inbox = line.inbox
    BY <1>8, LineKept DEF CreateAccount, ProvInv, ProvTypeOK, BlockSound, OnRecord, DifySteps, ChatwootSteps
  <2>1. ASSUME NEW o \in Objects, line.account = 0, Made(o), UNCHANGED <<named, outOfSight>>,
               job' = [job EXCEPT !.pc = "block", !.block = [line EXCEPT !.account = o]]
        PROVE  ProvInv'
    <3>1. /\ o \in Nat /\ o # 0 /\ made' = o /\ alive' = alive \cup {o}
      BY <2>1 DEF Made, Objects
    <3>2. PICK b \in LineType : b = [line EXCEPT !.account = o] /\ b.account = o /\ b.inbox = line.inbox
      <4>1. /\ [line EXCEPT !.account = o] \in LineType /\ [line EXCEPT !.account = o].account = o
            /\ [line EXCEPT !.account = o].inbox = line.inbox
        BY <2>0, <3>1 DEF LineType
      <4> QED
        BY <4>1
    <3>3. /\ job' \in JobType /\ job'.pc = "block" /\ job'.newApp = job.newApp /\ job'.newDataset = job.newDataset
          /\ job'.report = job.report /\ job'.block = b
      BY <2>0, <2>1, <3>2 DEF JobType, ChatwootSteps
    <3>4. InHand \subseteq InHand' \cup OnRecord /\ o \in InHand'
      BY <2>0, <3>1, <3>2, <3>3 DEF InHand, OnRecord
    <3>5. Known \subseteq Known' /\ {o} \subseteq Known' /\ SameInboxes({o})
      BY <2>0, <2>1, <3>4 DEF Known, SameInboxes
    <3>6. NoSilentOrphan'
      BY <3>1, <3>5, AllKept DEF ProvInv
    <3>7. NewWhereNone' /\ WrittenOrReported' /\ BlockSound' /\ DeleteSound'
      BY <2>0, <2>1, <3>1, <3>2, <3>3 DEF ProvInv, NewWhereNone, WrittenOrReported, BlockSound, DeleteSound,
         DifySteps, ChatwootSteps, DeleteSteps
    <3> QED
      BY <2>0, <3>1, <3>3, <3>6, <3>7 DEF ProvInv, ProvTypeOK
  <2>2. ASSUME NEW o \in Objects, Made(o), outOfSight' = outOfSight \cup {o}, Answer({}) PROVE ProvInv'
    <3>1. {o} \in SUBSET Nat /\ made' \in Nat /\ alive' \subseteq alive \cup {o} /\ SameInboxes({o})
      BY <2>0, <2>2 DEF Made, Objects, SameInboxes
    <3>2. {job.block.account, job.block.inbox} \ {0} \subseteq OnRecord' \cup {}
      BY <2>0 DEF OnRecord
    <3> QED
      BY <2>0, <2>2, <3>1, <3>2, AnswersWell
  <2>3. CASE NothingMade /\ UNCHANGED outOfSight /\ Answer({})
    <3>1. made' \in Nat /\ alive' \subseteq alive \cup {} /\ SameInboxes({})
      BY <2>0, <2>3 DEF NothingMade, ProvInv, ProvTypeOK, SameInboxes
    <3>2. {job.block.account, job.block.inbox} \ {0} \subseteq OnRecord' \cup {}
      BY <2>0 DEF OnRecord
    <3> QED
      BY <2>0, <2>3, <3>1, <3>2, AnswersWell
  <2> QED
    BY <1>8, <2>1, <2>2, <2>3 DEF CreateAccount
<1>9. ASSUME StoreAccount PROVE ProvInv'
  <2>0. /\ job.pc = "block" /\ job.pc \in ChatwootSteps /\ job \in JobType /\ line \in LineType
        /\ UNCHANGED <<inboxOf, outOfSight, alive, made>> /\ SameInboxes({})
        /\ made' \in Nat /\ alive' \subseteq alive \cup {}
        /\ line.account = 0 /\ line.inbox = 0 /\ job.block.account # 0 /\ job.block.account \in Nat
        /\ job.block.inbox = line.inbox
    BY <1>9 DEF StoreAccount, NothingMade, ProvInv, ProvTypeOK, BlockSound, LineSound, DifySteps, ChatwootSteps,
       SameInboxes, JobType, LineType
  <2>1. CASE /\ job' = At("agent") /\ UNCHANGED named
             /\ \/ line' = [line EXCEPT !.account = job.block.account, !.column = job.block.account]
                \/ line' = [line EXCEPT !.account = job.block.account]
    <3>1. /\ line' \in LineType /\ line'.account = job.block.account /\ line'.column \in {line.column, line'.account}
          /\ line'.app = line.app /\ line'.dataset = line.dataset /\ line'.inbox = line.inbox
      BY <2>0, <2>1 DEF LineType
    <3>2. job' \in JobType /\ job'.pc = "agent" /\ SameData /\ job'.report = job.report /\ InHand' = InHand
      BY <2>0, <2>1, GoesTo DEF ProvSteps, ChatwootSteps
    <3>3. LineSound' /\ OnRecord \subseteq OnRecord'
      BY <2>0, <3>1 DEF ProvInv, LineSound, OnRecord
    <3>4. Known \subseteq Known'
      BY <2>0, <2>1, <3>2, <3>3 DEF Known
    <3>5. NoSilentOrphan'
      BY <2>0, <3>4, AllKept DEF ProvInv
    <3>6. NewWhereNone' /\ WrittenOrReported' /\ BlockSound' /\ DeleteSound'
      BY <2>0, <3>1, <3>2 DEF ProvInv, NewWhereNone, WrittenOrReported, BlockSound, DeleteSound, SameData,
         DifySteps, ChatwootSteps, DeleteSteps
    <3> QED
      BY <2>0, <3>1, <3>2, <3>3, <3>5, <3>6 DEF ProvInv, ProvTypeOK
  <2>2. CASE UNCHANGED line /\ Answer({job.block.account})
    <3>1. LineSound' /\ OnRecord' = OnRecord
      BY <2>0, <2>2, LineKept DEF ProvInv, OnRecord
    <3>2. {job.block.account, job.block.inbox} \ {0} \subseteq OnRecord' \cup {job.block.account}
      BY <2>0
    <3> QED
      BY <2>0, <2>2, <3>1, <3>2, AnswersWell
  <2> QED
    BY <1>9, <2>1, <2>2 DEF StoreAccount
<1>10. ASSUME EnsureAgent PROVE ProvInv'
  <2>0. /\ job.pc = "agent" /\ job.pc \in ChatwootSteps /\ job \in JobType /\ line \in LineType
        /\ UNCHANGED <<inboxOf, outOfSight, alive, made>> /\ SameInboxes({})
        /\ made' \in Nat /\ alive' \subseteq alive \cup {}
        /\ job.block.account = line.account /\ line.account # 0 /\ job.block.inbox = line.inbox
    BY <1>10 DEF EnsureAgent, NothingMade, ProvInv, ProvTypeOK, BlockSound, DifySteps, ChatwootSteps, SameInboxes
  <2>1. CASE job' = At("inbox") /\ UNCHANGED <<line, named>>
    BY <2>0, <2>1, Continues
  <2>2. CASE \/ line' = [line EXCEPT !.token = TRUE]
             \/ UNCHANGED line
    <3>1. /\ line' \in LineType /\ line'.app = line.app /\ line'.dataset = line.dataset
          /\ line'.account = line.account /\ line'.inbox = line.inbox /\ line'.column = line.column
      BY <2>0, <2>2 DEF LineType
    <3>2. LineSound' /\ OnRecord' = OnRecord
      BY <2>0, <3>1 DEF ProvInv, LineSound, OnRecord
    <3>3. CASE Answer({})
      <4>1. {job.block.account, job.block.inbox} \ {0} \subseteq OnRecord' \cup {}
        BY <2>0, <3>2 DEF OnRecord
      <4> QED
        BY <2>0, <3>1, <3>2, <3>3, <4>1, AnswersWell
    <3>4. CASE job' = [job EXCEPT !.pc = "inbox", !.block.token = TRUE] /\ UNCHANGED named
      <4>1. PICK b \in LineType : /\ job' = [job EXCEPT !.pc = "inbox", !.block = b]
                                 /\ b.account = job.block.account /\ b.inbox = job.block.inbox
        <5>1. /\ [job.block EXCEPT !.token = TRUE] \in LineType
              /\ [job.block EXCEPT !.token = TRUE].account = job.block.account
              /\ [job.block EXCEPT !.token = TRUE].inbox = job.block.inbox
          BY <2>0 DEF JobType, LineType
        <5> QED
          BY <2>0, <3>4, <5>1 DEF JobType
      <4>2. /\ job' \in JobType /\ job'.pc = "inbox" /\ job'.newApp = job.newApp /\ job'.newDataset = job.newDataset
            /\ job'.report = job.report /\ job'.block = b
        BY <2>0, <4>1 DEF JobType, ChatwootSteps
      <4>3. InHand' = InHand
        BY <4>1, <4>2 DEF InHand
      <4>4. Known \subseteq Known'
        BY <2>0, <3>2, <3>4, <4>3 DEF Known
      <4>5. NoSilentOrphan'
        BY <2>0, <4>4, AllKept DEF ProvInv
      <4>6. NewWhereNone' /\ WrittenOrReported' /\ BlockSound' /\ DeleteSound'
        BY <2>0, <3>1, <4>1, <4>2 DEF ProvInv, NewWhereNone, WrittenOrReported, BlockSound, DeleteSound,
           DifySteps, ChatwootSteps, DeleteSteps
      <4> QED
        BY <2>0, <3>1, <3>2, <4>2, <4>5, <4>6 DEF ProvInv, ProvTypeOK
    <3> QED
      BY <1>10, <2>1, <3>3, <3>4 DEF EnsureAgent
  <2> QED
    BY <1>10, <2>1, <2>2 DEF EnsureAgent
<1>11. ASSUME CreateInbox PROVE ProvInv'
  <2>0. /\ job.pc = "inbox" /\ job.pc \in ChatwootSteps /\ job \in JobType /\ line \in LineType
        /\ job.block.account = line.account /\ line.account # 0 /\ job.block.inbox = line.inbox
        /\ made \in Nat /\ alive \subseteq alive \cup {}
    BY <1>11 DEF CreateInbox, ProvInv, ProvTypeOK, BlockSound, DifySteps, ChatwootSteps
  <2>1. CASE Answer({}) /\ NothingMade /\ UNCHANGED <<line, inboxOf, outOfSight>>
    <3>1. LineSound' /\ OnRecord' = OnRecord /\ SameInboxes({})
      BY <2>1, LineKept DEF ProvInv, OnRecord, SameInboxes
    <3>2. {job.block.account, job.block.inbox} \ {0} \subseteq OnRecord' \cup {}
      BY <2>0, <3>1 DEF OnRecord
    <3> QED
      BY <2>0, <2>1, <3>1, <3>2, AnswersWell DEF NothingMade
  <2>2. ASSUME NEW o \in Objects, job.block.inbox = 0, Made(o),
               inboxOf' = [i \in DOMAIN inboxOf \cup {o} |-> IF i = o THEN job.block.account ELSE inboxOf[i]],
               \/ line' = [line EXCEPT !.inbox = o] /\ Answer({}) /\ UNCHANGED outOfSight
               \/ Answer({o}) /\ UNCHANGED <<line, outOfSight>>
               \/ Answer({}) /\ outOfSight' = outOfSight \cup {o} /\ UNCHANGED line
        PROVE  ProvInv'
    <3>1. {o} \in SUBSET Nat /\ o # 0 /\ made' \in Nat /\ alive' \subseteq alive \cup {o} /\ SameInboxes({o})
      BY <2>2 DEF Made, Objects, SameInboxes
    <3>2. CASE line' = [line EXCEPT !.inbox = o] /\ Answer({}) /\ UNCHANGED outOfSight
      <4>1. /\ line' \in LineType /\ line'.app = line.app /\ line'.dataset = line.dataset
            /\ line'.account = line.account /\ line'.inbox = o /\ line'.column = line.column
        BY <2>0, <3>1, <3>2 DEF LineType
      <4>2. LineSound'
        BY <2>0, <2>2, <4>1 DEF ProvInv, LineSound
      <4>3. OnRecord \subseteq OnRecord' /\ o \in OnRecord'
        BY <2>0, <2>2, <3>1, <4>1 DEF OnRecord
      <4>4. {job.block.account, job.block.inbox} \ {0} \subseteq OnRecord' \cup {}
        BY <2>0, <2>2, <4>3, <4>1 DEF OnRecord
      <4> QED
        BY <2>0, <3>1, <3>2, <4>1, <4>2, <4>3, <4>4, AnswersWell
    <3>3. ASSUME NEW more, Answer(more), UNCHANGED line, outOfSight \subseteq outOfSight', o \in more \cup outOfSight'
          PROVE  ProvInv'
      <4>1. LineSound' /\ OnRecord' = OnRecord
        BY <2>0, <2>2, <3>3 DEF ProvInv, LineSound, OnRecord
      <4>2. {job.block.account, job.block.inbox} \ {0} \subseteq OnRecord' \cup more
        BY <2>0, <4>1 DEF OnRecord
      <4> QED
        BY <2>0, <3>1, <3>3, <4>1, <4>2, AnswersWell
    <3> QED
      BY <2>2, <3>2, <3>3
  <2> QED
    BY <1>11, <2>1, <2>2 DEF CreateInbox
<1>12. ASSUME StartDelete PROVE ProvInv'
  <2>1. job = NoJob /\ InHand = {} /\ NoJob \in JobType /\ line \in LineType
    BY <1>12, NoJobType DEF StartDelete, InHand, NoJob, NoLine, ProvInv, ProvTypeOK
  <2>2. PICK a \in {line.account, line.column} :
          /\ job' = [NoJob EXCEPT !.pc = "data", !.account = a, !.app = line.app, !.dataset = line.dataset]
          /\ outOfSight' = outOfSight \cup ({line.account} \ {a, 0})
    BY <1>12 DEF StartDelete
  <2>3. a \in {0, line.account} /\ a \in Nat
    BY <2>1, <2>2 DEF ProvInv, LineSound, LineType
  <2>4. /\ job' \in JobType /\ job'.pc = "data" /\ job'.app = line.app /\ job'.dataset = line.dataset
        /\ job'.account = a /\ job'.newApp = 0 /\ job'.newDataset = 0 /\ job'.report = {} /\ job'.block = NoLine
    BY <2>1, <2>2, <2>3 DEF JobType, LineType, NoJob, DeleteSteps
  <2>5. UNCHANGED <<line, alive, inboxOf, made, named>> /\ LineSound' /\ OnRecord' = OnRecord
    BY <1>12, LineKept DEF StartDelete, ProvInv, OnRecord
  <2>6. InHand' = {}
    BY <2>4 DEF InHand, NoLine
  <2>7. NoSilentOrphan'
    <3>1. Known \subseteq Known' /\ SameInboxes({})
      BY <2>1, <2>2, <2>5 DEF Known, SameInboxes
    <3> QED
      BY <2>5, <3>1, AllKept DEF ProvInv
  <2>8. NewWhereNone' /\ WrittenOrReported' /\ BlockSound' /\ DeleteSound'
    BY <2>2, <2>3, <2>4, <2>5, <2>6 DEF NewWhereNone, WrittenOrReported, BlockSound, DeleteSound,
       DifySteps, ChatwootSteps, DeleteSteps
  <2> QED
    BY <2>4, <2>5, <2>7, <2>8 DEF ProvInv, ProvTypeOK
<1>13. ASSUME DeleteData PROVE ProvInv'
  <2>1. CASE job' = At("account")
    BY <1>13, <2>1, Continues DEF DeleteData, NothingMade
  <2>2. CASE job' = NoJob
    <3>1. UNCHANGED <<line, inboxOf, named, outOfSight, alive, made>> /\ InHand = {}
      BY <1>13 DEF DeleteData, NothingMade, ProvInv, DeleteSound, DeleteSteps
    <3>2. LineSound' /\ Known \subseteq Known' /\ SameInboxes({})
      BY <3>1, LineKept DEF ProvInv, Known, OnRecord, SameInboxes
    <3>3. NoSilentOrphan'
      BY <3>1, <3>2, AllKept DEF ProvInv
    <3> QED
      BY <2>2, <3>1, <3>2, <3>3, EndsWell DEF ProvInv, ProvTypeOK
  <2> QED
    BY <1>13, <2>1, <2>2 DEF DeleteData
<1>14. ASSUME DeleteAccount PROVE ProvInv'
  <2>0. job.pc = "account" /\ InHand = {} /\ job \in JobType
    BY <1>14 DEF DeleteAccount, ProvInv, ProvTypeOK, DeleteSound, DeleteSteps
  <2>1. UNCHANGED <<line, inboxOf, made, named, outOfSight>>
    BY <1>14 DEF DeleteAccount, Remove
  <2>2. /\ job' \in JobType /\ job'.pc = "dify" /\ SameData /\ job'.report = job.report
        /\ job.warned \subseteq job'.warned /\ alive' \subseteq alive
        /\ alive' \cap Belonging({job.account} \ {0}) \subseteq Belonging(job'.warned)
    <3>0. {job.account} \ {0} \subseteq Nat
      BY <2>0 DEF JobType
    <3>1. CASE alive' = alive \ Belonging({job.account} \ {0}) /\ job' = At("dify")
      <4>1. job' \in JobType /\ job'.pc = "dify" /\ SameData /\ job'.report = job.report /\ job'.warned = job.warned
        BY <2>0, <3>1, GoesTo DEF ProvSteps, DeleteSteps
      <4> QED
        BY <3>1, <4>1
    <3>2. ASSUME NEW gone \in SUBSET ({job.account} \ {0}), alive' = alive \ Belonging(gone),
                 job' = [job EXCEPT !.pc = "dify", !.warned = @ \cup ({job.account} \ {0})]
          PROVE  /\ job' \in JobType /\ job'.pc = "dify" /\ SameData /\ job'.report = job.report
                 /\ job.warned \subseteq job'.warned /\ alive' \subseteq alive
                 /\ alive' \cap Belonging({job.account} \ {0}) \subseteq Belonging(job'.warned)
      <4>1. /\ job' \in JobType /\ job'.pc = "dify" /\ SameData /\ job'.report = job.report
            /\ job'.warned = job.warned \cup ({job.account} \ {0})
        BY <2>0, <3>0, <3>2 DEF JobType, SameData, DeleteSteps
      <4> QED
        BY <3>2, <4>1 DEF Belonging
    <3> QED
      BY <1>14, <3>1, <3>2 DEF DeleteAccount, Remove
  <2>3. InHand' = {} /\ LineSound'
    BY <2>0, <2>1, <2>2, LineKept DEF InHand, SameData, ProvInv
  <2>4. Known \subseteq Known' /\ SameInboxes({})
    BY <2>0, <2>1 DEF Known, OnRecord, SameInboxes
  <2>5. NoSilentOrphan'
    BY <2>2, <2>4, AllKept DEF ProvInv
  <2>6. DeleteSound'
    <3>1. /\ InHand' = {} /\ job'.app = line'.app /\ job'.dataset = line'.dataset
          /\ job'.account \in {0, line'.account} /\ line'.account \in outOfSight' \cup {0, job'.account}
      BY <2>0, <2>1, <2>2, <2>3 DEF ProvInv, DeleteSound, SameData, DeleteSteps
    <3>2. alive' \cap Belonging({job.account} \ {0})' \subseteq Belonging(job.warned)'
      BY <2>1, <2>2 DEF SameData, Belonging
    <3> QED
      BY <2>2, <3>1, <3>2 DEF DeleteSound
  <2>7. NewWhereNone' /\ WrittenOrReported' /\ BlockSound'
    BY <2>2 DEF NewWhereNone, WrittenOrReported, BlockSound, DifySteps, ChatwootSteps
  <2> QED
    BY <2>1, <2>2, <2>3, <2>5, <2>6, <2>7 DEF ProvInv, ProvTypeOK
<1>15. ASSUME DeleteDify PROVE ProvInv'
  <2>0. job.pc = "dify" /\ InHand = {} /\ job \in JobType
    BY <1>15 DEF DeleteDify, ProvInv, ProvTypeOK, DeleteSound, DeleteSteps
  <2>1. UNCHANGED <<line, inboxOf, made, named, outOfSight>>
    BY <1>15 DEF DeleteDify, Remove
  <2>2. /\ job' \in JobType /\ job'.pc = "row" /\ SameData /\ job'.report = job.report
        /\ job.warned \subseteq job'.warned /\ alive' \subseteq alive
        /\ alive' \cap Belonging({job.app, job.dataset} \ {0}) \subseteq Belonging(job'.warned)
    <3>0. {job.app, job.dataset} \ {0} \subseteq Nat
      BY <2>0 DEF JobType
    <3>1. CASE alive' = alive \ Belonging({job.app, job.dataset} \ {0}) /\ job' = At("row")
      <4>1. job' \in JobType /\ job'.pc = "row" /\ SameData /\ job'.report = job.report /\ job'.warned = job.warned
        BY <2>0, <3>1, GoesTo DEF ProvSteps, DeleteSteps
      <4> QED
        BY <3>1, <4>1
    <3>2. ASSUME NEW gone \in SUBSET ({job.app, job.dataset} \ {0}), alive' = alive \ Belonging(gone),
                 job' = [job EXCEPT !.pc = "row", !.warned = @ \cup ({job.app, job.dataset} \ {0})]
          PROVE  /\ job' \in JobType /\ job'.pc = "row" /\ SameData /\ job'.report = job.report
                 /\ job.warned \subseteq job'.warned /\ alive' \subseteq alive
                 /\ alive' \cap Belonging({job.app, job.dataset} \ {0}) \subseteq Belonging(job'.warned)
      <4>1. /\ job' \in JobType /\ job'.pc = "row" /\ SameData /\ job'.report = job.report
            /\ job'.warned = job.warned \cup ({job.app, job.dataset} \ {0})
        BY <2>0, <3>0, <3>2 DEF JobType, SameData, DeleteSteps
      <4> QED
        BY <3>2, <4>1 DEF Belonging
    <3> QED
      BY <1>15, <3>1, <3>2 DEF DeleteDify, Remove
  <2>3. InHand' = {} /\ LineSound'
    BY <2>0, <2>1, <2>2, LineKept DEF InHand, SameData, ProvInv
  <2>4. Known \subseteq Known' /\ SameInboxes({})
    BY <2>0, <2>1 DEF Known, OnRecord, SameInboxes
  <2>5. NoSilentOrphan'
    BY <2>2, <2>4, AllKept DEF ProvInv
  <2>6. DeleteSound'
    <3>1. /\ InHand' = {} /\ job'.app = line'.app /\ job'.dataset = line'.dataset
          /\ job'.account \in {0, line'.account} /\ line'.account \in outOfSight' \cup {0, job'.account}
      BY <2>0, <2>1, <2>2, <2>3 DEF ProvInv, DeleteSound, SameData, DeleteSteps
    <3>2. alive \cap Belonging({job.account} \ {0}) \subseteq Belonging(job.warned)
      BY <2>0 DEF ProvInv, DeleteSound, DeleteSteps
    <3>3. alive' \cap Belonging({job.account} \ {0})' \subseteq Belonging(job.warned)'
      BY <2>1, <2>2, <3>2 DEF SameData, Belonging
    <3>4. alive' \cap Belonging({job.app, job.dataset} \ {0})' \subseteq Belonging(job.warned)'
      BY <2>1, <2>2 DEF SameData, Belonging
    <3> QED
      BY <2>2, <3>1, <3>3, <3>4 DEF DeleteSound
  <2>7. NewWhereNone' /\ WrittenOrReported' /\ BlockSound'
    BY <2>2 DEF NewWhereNone, WrittenOrReported, BlockSound, DifySteps, ChatwootSteps
  <2> QED
    BY <2>1, <2>2, <2>3, <2>5, <2>6, <2>7 DEF ProvInv, ProvTypeOK
<1>16. ASSUME DeleteRow PROVE ProvInv'
  <2>0. /\ job' = NoJob /\ InHand = {} /\ InHand' = {} /\ job.pc = "row"
        /\ UNCHANGED <<inboxOf, outOfSight, alive, made>> /\ alive' \subseteq Nat /\ made' \in Nat
    BY <1>16, Ended DEF DeleteRow, NothingMade, ProvInv, ProvTypeOK, DeleteSound, DeleteSteps
  <2>1. CASE UNCHANGED <<line, named>>
    <3>1. LineSound' /\ Known \subseteq Known' /\ SameInboxes({})
      BY <2>0, <2>1, LineKept DEF ProvInv, Known, OnRecord, SameInboxes
    <3>2. NoSilentOrphan'
      BY <2>0, <3>1, AllKept DEF ProvInv
    <3> QED
      BY <2>0, <2>1, <3>1, <3>2, EndsWell DEF ProvInv, ProvTypeOK
  <2>2. CASE line' = NoLine /\ named' = named \cup job.warned
    <3>1. line' \in LineType /\ LineSound' /\ OnRecord' = {}
      BY <2>2 DEF NoLine, LineType, LineSound, OnRecord
    <3>2. /\ job.app = line.app /\ job.dataset = line.dataset /\ line.account \in outOfSight \cup {0, job.account}
          /\ alive \cap Belonging({job.account} \ {0}) \subseteq Belonging(job.warned)
          /\ alive \cap Belonging({job.app, job.dataset} \ {0}) \subseteq Belonging(job.warned)
      BY <2>0 DEF ProvInv, DeleteSound, DeleteSteps
    <3>3. ASSUME NEW o \in alive PROVE o \in Belonging(named \cup job.warned \cup outOfSight)
      <4>1. o \in Belonging(OnRecord \cup named \cup outOfSight)
        BY <2>0, <3>3 DEF ProvInv, NoSilentOrphan, Reachable
      <4>2. CASE o \in Belonging(named \cup outOfSight)
        BY <4>2 DEF Belonging
      <4>3. CASE o \in Belonging({line.app, line.dataset} \ {0})
        BY <3>2, <3>3, <4>3 DEF Belonging
      <4>4. CASE line.account # 0 /\ o \in Belonging({line.account})
        BY <3>2, <3>3, <4>4 DEF Belonging
      <4>5. CASE o = line.inbox /\ line.inbox # 0
        <5>1. line.account # 0 /\ o \in Belonging({line.account})
          BY <4>5 DEF ProvInv, LineSound, Belonging
        <5> QED
          BY <5>1, <4>4
      <4>6. ~(o \in DOMAIN inboxOf /\ line.inbox # 0 /\ inboxOf[o] = line.inbox)
        BY DEF OneLevel
      <4> QED
        BY <4>1, <4>2, <4>3, <4>4, <4>5, <4>6 DEF Belonging, OnRecord
    <3>4. NoSilentOrphan'
      BY <2>0, <2>2, <3>1, <3>3 DEF NoSilentOrphan, Reachable, Belonging
    <3> QED
      BY <2>0, <2>2, <3>1, <3>4, EndsWell
  <2> QED
    BY <1>16, <2>1, <2>2 DEF DeleteRow
<1>17. ASSUME CrashAdmin PROVE ProvInv'
  <2>1. /\ job' = NoJob /\ InHand' = {} /\ outOfSight' = outOfSight \cup (InHand \ OnRecord)
        /\ UNCHANGED <<line, inboxOf, named, alive, made>>
    BY <1>17, Ended DEF CrashAdmin, NothingMade
  <2>2. LineSound' /\ Known \subseteq Known' /\ SameInboxes({})
    BY <2>1, LineKept DEF ProvInv, Known, OnRecord, SameInboxes
  <2>3. NoSilentOrphan'
    BY <2>1, <2>2, AllKept DEF ProvInv
  <2> QED
    BY <2>1, <2>2, <2>3, EndsWell DEF ProvInv, ProvTypeOK
<1>18. CASE UNCHANGED provVars
  BY <1>18 DEF provVars, ProvInv, ProvTypeOK, LineSound, NewWhereNone, WrittenOrReported, BlockSound,
     DeleteSound, InHand, Belonging, NoSilentOrphan, Reachable, OnRecord
<1> QED
  BY <1>1, <1>2, <1>3, <1>4, <1>5, <1>6, <1>7, <1>8, <1>9, <1>10, <1>11, <1>12,
     <1>13, <1>14, <1>15, <1>16, <1>17, <1>18
     DEF ProvNext

LEMMA OneLevelKept ==
  ASSUME ProvTypeOK, OneLevel, made' \in Nat, made <= made', UNCHANGED inboxOf,
         line'.inbox \in {0, line.inbox}, line'.account \in {0, line.account, job.block.account},
         job'.block.account \in {0, line.account, job.block.account, made'}
  PROVE  OneLevel'
<1>1. PICK m, n \in Nat : m = made /\ n = made' /\ m <= n
  BY DEF ProvTypeOK
<1>2. \A k \in 0..m : k \in 0..n
  BY <1>1
<1>3. 0 \in 0..n /\ n \in 0..n
  BY <1>1
<1> QED
  BY <1>1, <1>2, <1>3 DEF OneLevel

\* Nothing new, or one object with the next id.
LEMMA MadeGrows ==
  ASSUME made \in Nat, NothingMade \/ \E o \in Objects : Made(o)
  PROVE  made' \in Nat /\ made <= made'
  BY DEF NothingMade, Made, Objects

\* What becomes of the block in hand.
LEMMA BlockStays ==
  ASSUME job \in JobType
  PROVE  /\ job' = NoJob => job'.block.account = 0
         /\ \A s \in ProvSteps : job' = At(s) => job'.block.account = job.block.account
         /\ \A r \in SUBSET Nat : job' = DifyOver([job EXCEPT !.report = r]) =>
              job'.block.account \in {0, job.block.account}
         /\ job' = DifyOver(job) => job'.block.account \in {0, job.block.account}
<1>1. job' = NoJob => job'.block.account = 0
  BY DEF NoJob, NoLine
<1>2. \A s \in ProvSteps : job' = At(s) => job'.block.account = job.block.account
  BY DEF At, JobType
<1>3. \A r \in SUBSET Nat : job' = DifyOver([job EXCEPT !.report = r]) =>
        job'.block.account \in {0, job.block.account}
  BY <1>1 DEF DifyOver, JobType
<1>4. job' = DifyOver(job) => job'.block.account \in {0, job.block.account}
  BY <1>1 DEF DifyOver, JobType
<1> QED
  BY <1>1, <1>2, <1>3, <1>4

LEMMA OneLevelNext == ProvInv /\ OneLevel /\ [ProvNext]_provVars => OneLevel'
<1> SUFFICES ASSUME ProvInv /\ OneLevel, [ProvNext]_provVars PROVE OneLevel'
  OBVIOUS
<1> USE ProvisionAssumption
<1>0. ProvTypeOK
  BY DEF ProvInv
<1> USE <1>0
<1>1. ASSUME NEW onboard \in BOOLEAN, StartProvision(onboard) PROVE OneLevel'
  <2>1. made' \in Nat /\ made <= made' /\ UNCHANGED inboxOf
    BY <1>1, MadeGrows DEF StartProvision, ProvTypeOK, NothingMade, Made, Objects
  <2>2. line'.inbox \in {0, line.inbox} /\ line'.account \in {0, line.account, job.block.account}
    BY <1>1 DEF StartProvision, ProvTypeOK, LineType, NoLine
  <2>3. job'.block.account \in {0, line.account, job.block.account, made'}
    BY <1>1 DEF StartProvision, NoJob
  <2> QED
    BY <2>1, <2>2, <2>3, OneLevelKept
<1>2. ASSUME CreateApp PROVE OneLevel'
  <2>1. made' \in Nat /\ made <= made' /\ UNCHANGED inboxOf
    BY <1>2, MadeGrows DEF CreateApp, StopDify, ProvTypeOK, NothingMade, Made, Objects
  <2>2. line'.inbox \in {0, line.inbox} /\ line'.account \in {0, line.account, job.block.account}
    BY <1>2 DEF CreateApp, StopDify, ProvTypeOK, LineType, NoLine
  <2>3. job'.block.account \in {0, line.account, job.block.account, made'}
    <3>1. CASE job' = At("dataset")
      BY <3>1, BlockStays DEF ProvTypeOK, ProvSteps, DifySteps, ChatwootSteps, DeleteSteps
    <3>2. ASSUME NEW o \in Objects, job' = [job EXCEPT !.pc = "key", !.app = o, !.newApp = o]
          PROVE  job'.block.account \in {0, line.account, job.block.account, made'}
      BY <3>2 DEF ProvTypeOK, JobType
    <3>3. CASE StopDify
      BY <3>3, BlockStays, UnrecordedType DEF StopDify, ProvTypeOK
    <3> QED
      BY <1>2, <3>1, <3>2, <3>3 DEF CreateApp, StopDify
  <2> QED
    BY <2>1, <2>2, <2>3, OneLevelKept
<1>3. ASSUME CreateKey PROVE OneLevel'
  <2>1. made' \in Nat /\ made <= made' /\ UNCHANGED inboxOf
    BY <1>3, MadeGrows DEF CreateKey, StopDify, ProvTypeOK, NothingMade, Made, Objects
  <2>2. line'.inbox \in {0, line.inbox} /\ line'.account \in {0, line.account, job.block.account}
    BY <1>3 DEF CreateKey, StopDify, ProvTypeOK, LineType, NoLine
  <2>3. job'.block.account \in {0, line.account, job.block.account, made'}
    BY <1>3, BlockStays, UnrecordedType DEF CreateKey, StopDify, ProvTypeOK, ProvSteps, DifySteps,
       ChatwootSteps, DeleteSteps
  <2> QED
    BY <2>1, <2>2, <2>3, OneLevelKept
<1>4. ASSUME CreateDataset PROVE OneLevel'
  <2>1. made' \in Nat /\ made <= made' /\ UNCHANGED inboxOf
    BY <1>4, MadeGrows DEF CreateDataset, StopDify, ProvTypeOK, NothingMade, Made, Objects
  <2>2. line'.inbox \in {0, line.inbox} /\ line'.account \in {0, line.account, job.block.account}
    BY <1>4 DEF CreateDataset, StopDify, ProvTypeOK, LineType, NoLine
  <2>3. job'.block.account \in {0, line.account, job.block.account, made'}
    <3>1. CASE job' = At("bind")
      BY <3>1, BlockStays DEF ProvTypeOK, ProvSteps, DifySteps, ChatwootSteps, DeleteSteps
    <3>2. ASSUME NEW o \in Objects, job' = [job EXCEPT !.pc = "bind", !.dataset = o, !.newDataset = o]
          PROVE  job'.block.account \in {0, line.account, job.block.account, made'}
      BY <3>2 DEF ProvTypeOK, JobType
    <3>3. CASE StopDify
      BY <3>3, BlockStays, UnrecordedType DEF StopDify, ProvTypeOK
    <3> QED
      BY <1>4, <3>1, <3>2, <3>3 DEF CreateDataset, StopDify
  <2> QED
    BY <2>1, <2>2, <2>3, OneLevelKept
<1>5. ASSUME PersistBinding PROVE OneLevel'
  <2>1. made' \in Nat /\ made <= made' /\ UNCHANGED inboxOf
    BY <1>5, MadeGrows DEF PersistBinding, ProvTypeOK, NothingMade, Made, Objects
  <2>2. line'.inbox \in {0, line.inbox} /\ line'.account \in {0, line.account, job.block.account}
    BY <1>5 DEF PersistBinding, ProvTypeOK, LineType, NoLine
  <2>3. job'.block.account \in {0, line.account, job.block.account, made'}
    BY <1>5, BlockStays, UnrecordedType DEF PersistBinding, ProvTypeOK, ProvSteps, DifySteps, ChatwootSteps,
       DeleteSteps
  <2> QED
    BY <2>1, <2>2, <2>3, OneLevelKept
<1>6. ASSUME PortalAccount PROVE OneLevel'
  <2>1. made' \in Nat /\ made <= made' /\ UNCHANGED inboxOf
    BY <1>6, MadeGrows DEF PortalAccount, ProvTypeOK, NothingMade, Made, Objects
  <2>2. line'.inbox \in {0, line.inbox} /\ line'.account \in {0, line.account, job.block.account}
    BY <1>6 DEF PortalAccount, ProvTypeOK, LineType, NoLine
  <2>3. job'.block.account \in {0, line.account, job.block.account, made'}
    BY <1>6, BlockStays, UnrecordedType DEF PortalAccount, ProvTypeOK, ProvSteps, DifySteps, ChatwootSteps,
       DeleteSteps
  <2> QED
    BY <2>1, <2>2, <2>3, OneLevelKept
<1>7. ASSUME ResumeAccount PROVE OneLevel'
  <2>1. made' \in Nat /\ made <= made' /\ UNCHANGED inboxOf
    BY <1>7, MadeGrows DEF ResumeAccount, ProvTypeOK, NothingMade, Made, Objects
  <2>2. line'.inbox \in {0, line.inbox} /\ line'.account \in {0, line.account, job.block.account}
    BY <1>7 DEF ResumeAccount, ProvTypeOK, LineType, NoLine
  <2>3. job'.block.account \in {0, line.account, job.block.account, made'}
    BY <1>7, BlockStays, UnrecordedType DEF ResumeAccount, ProvTypeOK, ProvSteps, DifySteps, ChatwootSteps,
       DeleteSteps
  <2> QED
    BY <2>1, <2>2, <2>3, OneLevelKept
<1>8. ASSUME CreateAccount PROVE OneLevel'
  <2>1. made' \in Nat /\ made <= made' /\ UNCHANGED inboxOf
    BY <1>8, MadeGrows DEF CreateAccount, Answer, ProvTypeOK, NothingMade, Made, Objects
  <2>2. line'.inbox \in {0, line.inbox} /\ line'.account \in {0, line.account, job.block.account}
    BY <1>8 DEF CreateAccount, Answer, ProvTypeOK, LineType, NoLine
  <2>3. job'.block.account \in {0, line.account, job.block.account, made'}
    <3>1. CASE job' = NoJob
      BY <3>1, BlockStays DEF ProvTypeOK
    <3>2. ASSUME NEW o \in Objects, Made(o), job' = [job EXCEPT !.pc = "block", !.block = [line EXCEPT !.account = o]]
          PROVE  job'.block.account \in {0, line.account, job.block.account, made'}
      <4>1. [line EXCEPT !.account = o].account = o /\ made' = o
        BY <3>2 DEF ProvTypeOK, LineType, Made
      <4>2. job'.block = [line EXCEPT !.account = o]
        BY <3>2 DEF ProvTypeOK, JobType
      <4> QED
        BY <4>1, <4>2
    <3> QED
      BY <1>8, <3>1, <3>2 DEF CreateAccount, Answer
  <2> QED
    BY <2>1, <2>2, <2>3, OneLevelKept
<1>9. ASSUME StoreAccount PROVE OneLevel'
  <2>1. made' \in Nat /\ made <= made' /\ UNCHANGED inboxOf
    BY <1>9, MadeGrows DEF StoreAccount, Answer, ProvTypeOK, NothingMade, Made, Objects
  <2>2. line'.inbox \in {0, line.inbox} /\ line'.account \in {0, line.account, job.block.account}
    BY <1>9 DEF StoreAccount, Answer, ProvTypeOK, LineType, NoLine
  <2>3. job'.block.account \in {0, line.account, job.block.account, made'}
    BY <1>9, BlockStays, UnrecordedType DEF StoreAccount, Answer, ProvTypeOK, ProvSteps, DifySteps,
       ChatwootSteps, DeleteSteps
  <2> QED
    BY <2>1, <2>2, <2>3, OneLevelKept
<1>10. ASSUME EnsureAgent PROVE OneLevel'
  <2>1. made' \in Nat /\ made <= made' /\ UNCHANGED inboxOf
    BY <1>10, MadeGrows DEF EnsureAgent, Answer, ProvTypeOK, NothingMade, Made, Objects
  <2>2. line'.inbox \in {0, line.inbox} /\ line'.account \in {0, line.account, job.block.account}
    BY <1>10 DEF EnsureAgent, Answer, ProvTypeOK, LineType, NoLine
  <2>3. job'.block.account \in {0, line.account, job.block.account, made'}
    <3>1. CASE job' = NoJob
      BY <3>1, BlockStays DEF ProvTypeOK
    <3>2. CASE job' = At("inbox")
      BY <3>2, BlockStays DEF ProvTypeOK, ProvSteps, DifySteps, ChatwootSteps, DeleteSteps
    <3>3. CASE job' = [job EXCEPT !.pc = "inbox", !.block.token = TRUE]
      BY <3>3 DEF ProvTypeOK, JobType, LineType
    <3> QED
      BY <1>10, <3>1, <3>2, <3>3 DEF EnsureAgent, Answer
  <2> QED
    BY <2>1, <2>2, <2>3, OneLevelKept
<1>11. ASSUME CreateInbox PROVE OneLevel'
  <2>1. CASE Answer({}) /\ NothingMade /\ UNCHANGED <<line, inboxOf>>
    BY <2>1, MadeGrows, BlockStays, OneLevelKept DEF Answer, ProvTypeOK
  <2>2. ASSUME NEW o \in Objects, job.block.inbox = 0, Made(o), job' = NoJob,
               inboxOf' = [i \in DOMAIN inboxOf \cup {o} |-> IF i = o THEN job.block.account ELSE inboxOf[i]],
               line' = line \/ line' = [line EXCEPT !.inbox = o]
        PROVE  OneLevel'
    <3>1. PICK m \in Nat : made = m /\ o = m + 1 /\ made' = o
      BY <2>2 DEF Made, ProvTypeOK
    <3>2. \A k \in 0..m : k \in 0..o /\ k # o
      BY <3>1
    <3>3. line'.account = line.account /\ line'.inbox \in {line.inbox, o} /\ line.inbox = 0
      BY <1>11, <2>2 DEF CreateInbox, ProvInv, BlockSound, ProvTypeOK, LineType, ChatwootSteps
    <3>4. job'.block.account = 0 /\ 0 \in 0..o
      BY <2>2, <3>1, BlockStays DEF ProvTypeOK
    <3> QED
      BY <2>2, <3>1, <3>2, <3>3, <3>4 DEF OneLevel
  <2> QED
    BY <1>11, <2>1, <2>2 DEF CreateInbox, Answer
<1>12. ASSUME StartDelete PROVE OneLevel'
  <2>1. made' \in Nat /\ made <= made' /\ UNCHANGED inboxOf
    BY <1>12, MadeGrows DEF StartDelete, ProvTypeOK, NothingMade, Made, Objects
  <2>2. line'.inbox \in {0, line.inbox} /\ line'.account \in {0, line.account, job.block.account}
    BY <1>12 DEF StartDelete, ProvTypeOK, LineType, NoLine
  <2>3. job'.block.account \in {0, line.account, job.block.account, made'}
    BY <1>12 DEF StartDelete, NoJob, NoLine
  <2> QED
    BY <2>1, <2>2, <2>3, OneLevelKept
<1>13. ASSUME DeleteData PROVE OneLevel'
  <2>1. made' \in Nat /\ made <= made' /\ UNCHANGED inboxOf
    BY <1>13, MadeGrows DEF DeleteData, ProvTypeOK, NothingMade, Made, Objects
  <2>2. line'.inbox \in {0, line.inbox} /\ line'.account \in {0, line.account, job.block.account}
    BY <1>13 DEF DeleteData, ProvTypeOK, LineType, NoLine
  <2>3. job'.block.account \in {0, line.account, job.block.account, made'}
    BY <1>13, BlockStays, UnrecordedType DEF DeleteData, ProvTypeOK, ProvSteps, DifySteps, ChatwootSteps, DeleteSteps
  <2> QED
    BY <2>1, <2>2, <2>3, OneLevelKept
<1>14. ASSUME DeleteAccount PROVE OneLevel'
  <2>1. made' \in Nat /\ made <= made' /\ UNCHANGED inboxOf
    BY <1>14, MadeGrows DEF DeleteAccount, Remove, ProvTypeOK, NothingMade, Made, Objects
  <2>2. line'.inbox \in {0, line.inbox} /\ line'.account \in {0, line.account, job.block.account}
    BY <1>14 DEF DeleteAccount, Remove, ProvTypeOK, LineType, NoLine
  <2>3. job'.block.account \in {0, line.account, job.block.account, made'}
    <3>1. CASE job' = At("dify")
      BY <3>1, BlockStays DEF ProvTypeOK, ProvSteps, DifySteps, ChatwootSteps, DeleteSteps
    <3>2. CASE job' = [job EXCEPT !.pc = "dify", !.warned = @ \cup ({job.account} \ {0})]
      BY <3>2 DEF ProvTypeOK, JobType
    <3> QED
      BY <1>14, <3>1, <3>2 DEF DeleteAccount, Remove
  <2> QED
    BY <2>1, <2>2, <2>3, OneLevelKept
<1>15. ASSUME DeleteDify PROVE OneLevel'
  <2>1. made' \in Nat /\ made <= made' /\ UNCHANGED inboxOf
    BY <1>15, MadeGrows DEF DeleteDify, Remove, ProvTypeOK, NothingMade, Made, Objects
  <2>2. line'.inbox \in {0, line.inbox} /\ line'.account \in {0, line.account, job.block.account}
    BY <1>15 DEF DeleteDify, Remove, ProvTypeOK, LineType, NoLine
  <2>3. job'.block.account \in {0, line.account, job.block.account, made'}
    <3>1. CASE job' = At("row")
      BY <3>1, BlockStays DEF ProvTypeOK, ProvSteps, DifySteps, ChatwootSteps, DeleteSteps
    <3>2. CASE job' = [job EXCEPT !.pc = "row", !.warned = @ \cup ({job.app, job.dataset} \ {0})]
      BY <3>2 DEF ProvTypeOK, JobType
    <3> QED
      BY <1>15, <3>1, <3>2 DEF DeleteDify, Remove
  <2> QED
    BY <2>1, <2>2, <2>3, OneLevelKept
<1>16. ASSUME DeleteRow PROVE OneLevel'
  <2>1. made' \in Nat /\ made <= made' /\ UNCHANGED inboxOf
    BY <1>16, MadeGrows DEF DeleteRow, ProvTypeOK, NothingMade, Made, Objects
  <2>2. line'.inbox \in {0, line.inbox} /\ line'.account \in {0, line.account, job.block.account}
    BY <1>16 DEF DeleteRow, ProvTypeOK, LineType, NoLine
  <2>3. job'.block.account \in {0, line.account, job.block.account, made'}
    BY <1>16, BlockStays, UnrecordedType DEF DeleteRow, ProvTypeOK, ProvSteps, DifySteps, ChatwootSteps, DeleteSteps
  <2> QED
    BY <2>1, <2>2, <2>3, OneLevelKept
<1>17. ASSUME CrashAdmin PROVE OneLevel'
  <2>1. made' \in Nat /\ made <= made' /\ UNCHANGED inboxOf
    BY <1>17, MadeGrows DEF CrashAdmin, ProvTypeOK, NothingMade, Made, Objects
  <2>2. line'.inbox \in {0, line.inbox} /\ line'.account \in {0, line.account, job.block.account}
    BY <1>17 DEF CrashAdmin, ProvTypeOK, LineType, NoLine
  <2>3. job'.block.account \in {0, line.account, job.block.account, made'}
    BY <1>17, BlockStays, UnrecordedType DEF CrashAdmin, ProvTypeOK, ProvSteps, DifySteps, ChatwootSteps, DeleteSteps
  <2> QED
    BY <2>1, <2>2, <2>3, OneLevelKept
<1>18. CASE UNCHANGED provVars
  BY <1>18 DEF provVars, OneLevel
<1> QED
  BY <1>1, <1>2, <1>3, <1>4, <1>5, <1>6, <1>7, <1>8, <1>9, <1>10, <1>11, <1>12,
     <1>13, <1>14, <1>15, <1>16, <1>17, <1>18
     DEF ProvNext

\* However often a tenant is asked for, whatever fails or crashes on the way,
\* and whether or not it is removed again: nothing exists in Dify or Chatwoot
\* that is neither on the product line, nor in the hands of the request, nor
\* named to an operator, but for what no answer was ever given of.
THEOREM NoneOrphaned == ProvSpec => []NoSilentOrphan
<1> DEFINE Inv == ProvInv /\ OneLevel
<1>1. ProvInit => Inv
  BY ProvInvInit
<1>2. Inv /\ [ProvNext]_provVars => Inv'
  BY ProvInvNext, OneLevelNext
<1>3. Inv => NoSilentOrphan
  BY DEF ProvInv
<1> HIDE DEF Inv
<1> QED
  BY <1>1, <1>2, <1>3, PTL DEF ProvSpec
=============================================================================
