---------------------------- MODULE Provisioning ----------------------------
(***************************************************************************)
(* Bringing a tenant into existence and ending it.  Each request walks     *)
(* over objects of two systems that cannot be rolled back: an app and a    *)
(* dataset in Dify, an account with its inbox in Chatwoot.  What it made   *)
(* is written to the product line after the fact, and a request that stops *)
(* half-way is resumed by sending it again.  One request at a time: what   *)
(* two at once do to each other is described in the README.                *)
(***************************************************************************)
EXTENDS Naturals

CONSTANTS
  MaxMade,        \* bound: objects ever created outside
  MaxJobs,        \* bound: requests
  MaxProvFaults   \* bound: failing calls and crashes

ASSUME ProvisionAssumption == MaxMade \in Nat /\ MaxJobs \in Nat /\ MaxProvFaults \in Nat

VARIABLES
  line,      \* the product_lines row, and its config_json
  alive,     \* the objects that exist in Dify and Chatwoot
  inboxOf,   \* the account an inbox belongs to
  made,      \* ids handed out
  job,       \* the request in hand
  named,     \* the objects an answer or a log line told the operator about
  outOfSight,\* objects whose creation was never answered, or whose request
             \* ended without an answer (history)
  jobs, provFaults

provVars == <<line, alive, inboxOf, made, job, named, outOfSight, jobs, provFaults>>

Objects == 1..MaxMade
NoLine == [exists |-> FALSE, app |-> 0, dataset |-> 0, account |-> 0, token |-> FALSE, inbox |-> 0, column |-> 0]
NoJob == [pc |-> "idle", onboard |-> FALSE, app |-> 0, dataset |-> 0, newApp |-> 0, newDataset |-> 0,
          report |-> {}, block |-> NoLine, account |-> 0, warned |-> {}]

ProvInit ==
  /\ line = NoLine /\ alive = {} /\ inboxOf = [i \in {} |-> 0] /\ made = 0 /\ job = NoJob
  /\ named = {} /\ outOfSight = {} /\ jobs = 0 /\ provFaults = 0

ProvFault == provFaults < MaxProvFaults /\ provFaults' = provFaults + 1
NoProvFault == UNCHANGED provFaults

Made(o) == made < MaxMade /\ o = made + 1 /\ made' = o /\ alive' = alive \cup {o}
NothingMade == UNCHANGED <<made, alive>>

At(pc) == [job EXCEPT !.pc = pc]
\* EnsureDifyLine returned: HandleProvision answers, onboarding keeps the
\* report for its own answer and goes on with the portal account.
DifyOver(j) == IF j.onboard THEN [j EXCEPT !.pc = "portal"] ELSE NoJob

\* HandleOnboard with ensureProductLine, or HandleProvision on a line that
\* exists; both read the row first.
StartProvision(onboard) ==
  /\ job = NoJob /\ jobs < MaxJobs /\ jobs' = jobs + 1
  /\ onboard \/ line.exists
  /\ line' = [line EXCEPT !.exists = TRUE]
  /\ job' = [NoJob EXCEPT !.pc = "app", !.onboard = onboard, !.app = line.app, !.dataset = line.dataset,
                          !.block = line]
  /\ UNCHANGED <<alive, inboxOf, made, named, outOfSight, provFaults>>

\* Mutant: a run that stopped reports its failure and nothing else.
NothingUnrecorded(j) == {}

\* What a stopped run made and did not write back.
Unrecorded(j) == {j.newApp, j.newDataset} \ {0}

\* The run ends before the write-back; the answer of a provisioning request is
\* given here, that of onboarding at its end.
StopDify ==
  /\ ProvFault
  /\ job' = DifyOver([job EXCEPT !.report = Unrecorded(job)])
  /\ named' = IF job.onboard THEN named ELSE named \cup Unrecorded(job)
  /\ UNCHANGED <<line, inboxOf>>

\* The console login may fail, the creation may fail, and its answer may be
\* lost after it was carried out.
CreateApp ==
  /\ job.pc = "app"
  /\ \/ /\ job.app # 0 /\ job' = At("dataset") /\ NothingMade /\ NoProvFault
        /\ UNCHANGED <<line, inboxOf, named, outOfSight>>
     \/ \E o \in Objects :
          /\ job.app = 0 /\ Made(o) /\ NoProvFault
          /\ job' = [job EXCEPT !.pc = "key", !.app = o, !.newApp = o]
          /\ UNCHANGED <<line, inboxOf, named, outOfSight>>
     \/ \E o \in Objects : job.app = 0 /\ Made(o) /\ outOfSight' = outOfSight \cup {o} /\ StopDify
     \/ NothingMade /\ UNCHANGED outOfSight /\ StopDify
  /\ UNCHANGED jobs

\* Only a new app gets a key; without one the run stops.
CreateKey ==
  /\ job.pc = "key"
  /\ \/ job' = At("dataset") /\ NoProvFault /\ UNCHANGED <<line, inboxOf, named>>
     \/ StopDify
  /\ NothingMade /\ UNCHANGED <<outOfSight, jobs>>

CreateDataset ==
  /\ job.pc = "dataset"
  /\ \/ /\ job.dataset # 0 /\ job' = At("bind") /\ NothingMade /\ NoProvFault
        /\ UNCHANGED <<line, inboxOf, named, outOfSight>>
     \/ \E o \in Objects :
          /\ job.dataset = 0 /\ Made(o) /\ NoProvFault
          /\ job' = [job EXCEPT !.pc = "bind", !.dataset = o, !.newDataset = o]
          /\ UNCHANGED <<line, inboxOf, named, outOfSight>>
     \/ \E o \in Objects : job.dataset = 0 /\ Made(o) /\ outOfSight' = outOfSight \cup {o} /\ StopDify
     \/ job.dataset = 0 /\ NothingMade /\ UNCHANGED outOfSight /\ StopDify
  /\ UNCHANGED jobs

\* persistDifyBinding: the binding of a new app carries the dataset along, a
\* new dataset alone is set by its key, and neither is written when nothing is
\* new.  The message of a failed write names both objects, in the log too.
PersistBinding ==
  /\ job.pc = "bind"
  /\ \/ /\ line' = CASE job.newApp # 0 -> [line EXCEPT !.app = job.app, !.dataset = job.dataset]
                     [] job.newApp = 0 /\ job.newDataset # 0 -> [line EXCEPT !.dataset = job.dataset]
                     [] OTHER -> line
        /\ job' = DifyOver(job) /\ NoProvFault /\ UNCHANGED named
     \/ /\ Unrecorded(job) # {} /\ ProvFault
        /\ job' = DifyOver([job EXCEPT !.report = Unrecorded(job)])
        /\ named' = named \cup Unrecorded(job) /\ UNCHANGED line
  /\ NothingMade /\ UNCHANGED <<inboxOf, outOfSight, jobs>>

\* ensurePortalAccount; a failure answers 500 and the report goes with it.
PortalAccount ==
  /\ job.pc = "portal"
  /\ \/ job' = At("chatwoot") /\ NoProvFault /\ UNCHANGED outOfSight
     \/ ProvFault /\ job' = NoJob /\ outOfSight' = outOfSight \cup job.report
  /\ NothingMade /\ UNCHANGED <<line, inboxOf, named, jobs>>

\* The answer of onboarding, with what its Dify step had to say.
Answer(more) == job' = NoJob /\ named' = named \cup job.report \cup more

\* An account on record is completed, its column repaired at best.
ResumeAccount ==
  /\ job.pc = "chatwoot" /\ line.account # 0
  /\ job' = [job EXCEPT !.pc = "agent", !.block = line]
  /\ \/ line' = [line EXCEPT !.column = line.account] /\ NoProvFault
     \/ line.column # line.account /\ ProvFault /\ UNCHANGED line
  /\ NothingMade /\ UNCHANGED <<inboxOf, named, outOfSight, jobs>>

\* CreateAccount; the configuration may be unreadable before it.
CreateAccount ==
  /\ job.pc = "chatwoot"
  /\ \/ \E o \in Objects :
          /\ line.account = 0 /\ Made(o) /\ NoProvFault
          /\ job' = [job EXCEPT !.pc = "block", !.block = [line EXCEPT !.account = o]]
          /\ UNCHANGED <<named, outOfSight>>
     \/ \E o \in Objects :
          /\ line.account = 0 /\ Made(o) /\ ProvFault
          /\ outOfSight' = outOfSight \cup {o} /\ Answer({})
     \/ ProvFault /\ NothingMade /\ UNCHANGED outOfSight /\ Answer({})
  /\ UNCHANGED <<line, inboxOf, jobs>>

\* The block is stored before anything else runs; when it cannot be, the log
\* names the account.  The column follows at best.
StoreAccount ==
  /\ job.pc = "block"
  /\ \/ /\ line' = [line EXCEPT !.account = job.block.account, !.column = job.block.account]
        /\ job' = At("agent") /\ NoProvFault /\ UNCHANGED named
     \/ /\ line' = [line EXCEPT !.account = job.block.account]
        /\ job' = At("agent") /\ ProvFault /\ UNCHANGED named
     \/ ProvFault /\ UNCHANGED line /\ Answer({job.block.account})
  /\ NothingMade /\ UNCHANGED <<inboxOf, outOfSight, jobs>>

\* EnsureAgent, whose token is stored as soon as it exists; a user that exists
\* already, a token that could not be stored, an agent that could not be linked
\* or an answer without a token end the step.
EnsureAgent ==
  /\ job.pc = "agent"
  /\ \/ job.block.token /\ job' = At("inbox") /\ NoProvFault /\ UNCHANGED <<line, named>>
     \/ /\ ~job.block.token /\ line' = [line EXCEPT !.token = TRUE] /\ NoProvFault
        /\ job' = [job EXCEPT !.pc = "inbox", !.block.token = TRUE] /\ UNCHANGED named
     \/ ~job.block.token /\ ProvFault /\ Answer({}) /\ line' \in {line, [line EXCEPT !.token = TRUE]}
  /\ NothingMade /\ UNCHANGED <<inboxOf, outOfSight, jobs>>

\* CreateAPIInbox and its record, whose failure is logged with the inbox.
CreateInbox ==
  /\ job.pc = "inbox"
  /\ \/ /\ job.block.inbox # 0 /\ Answer({}) /\ NothingMade /\ NoProvFault
        /\ UNCHANGED <<line, inboxOf, outOfSight>>
     \/ \E o \in Objects :
          /\ job.block.inbox = 0 /\ Made(o)
          /\ inboxOf' = [i \in DOMAIN inboxOf \cup {o} |-> IF i = o THEN job.block.account ELSE inboxOf[i]]
          /\ \/ line' = [line EXCEPT !.inbox = o] /\ Answer({}) /\ NoProvFault /\ UNCHANGED outOfSight
             \/ ProvFault /\ Answer({o}) /\ UNCHANGED <<line, outOfSight>>
             \/ ProvFault /\ Answer({}) /\ outOfSight' = outOfSight \cup {o} /\ UNCHANGED line
     \/ /\ job.block.inbox = 0 /\ ProvFault /\ Answer({}) /\ NothingMade
        /\ UNCHANGED <<line, inboxOf, outOfSight>>
  /\ UNCHANGED jobs

-----------------------------------------------------------------------------
\* chatwootAccountOf: the block first, the column when it names none or could
\* not be read.  An account neither names is left behind without a word.
StartDelete ==
  /\ job = NoJob /\ line.exists /\ jobs < MaxJobs /\ jobs' = jobs + 1
  /\ \E readable \in BOOLEAN :
       /\ IF readable THEN NoProvFault ELSE ProvFault
       /\ LET account == IF readable /\ line.account # 0 THEN line.account ELSE line.column
          IN /\ job' = [NoJob EXCEPT !.pc = "data", !.account = account, !.app = line.app, !.dataset = line.dataset]
             /\ outOfSight' = outOfSight \cup ({line.account} \ {account, 0})
  /\ UNCHANGED <<line, alive, inboxOf, made, named>>

\* DeleteTenantData, one transaction; its failure ends the request.
DeleteData ==
  /\ job.pc = "data"
  /\ \/ job' = At("account") /\ NoProvFault
     \/ job' = NoJob /\ ProvFault
  /\ NothingMade /\ UNCHANGED <<line, inboxOf, named, outOfSight, jobs>>

Belonging(os) == os \cup {i \in DOMAIN inboxOf : inboxOf[i] \in os}

\* A removal that failed is named in the answer, and may have happened.
Remove(os, pc) ==
  /\ \/ alive' = alive \ Belonging(os) /\ job' = At(pc) /\ NoProvFault
     \/ \E gone \in SUBSET os :
          /\ os # {} /\ ProvFault /\ alive' = alive \ Belonging(gone)
          /\ job' = [job EXCEPT !.pc = pc, !.warned = @ \cup os]
  /\ UNCHANGED <<line, inboxOf, made, named, outOfSight, jobs>>

DeleteAccount == job.pc = "account" /\ Remove({job.account} \ {0}, "dify")
DeleteDify == job.pc = "dify" /\ Remove({job.app, job.dataset} \ {0}, "row")

\* The row goes last; when it stays, what was warned about is still on it.
DeleteRow ==
  /\ job.pc = "row" /\ job' = NoJob
  /\ \/ line' = NoLine /\ named' = named \cup job.warned /\ NoProvFault
     \/ ProvFault /\ UNCHANGED <<line, named>>
  /\ NothingMade /\ UNCHANGED <<inboxOf, outOfSight, jobs>>

\* What a request knows of beside the row it read; a deletion knows the row.
InHand == job.report \cup ({job.newApp, job.newDataset, job.block.account, job.block.inbox} \ {0})
OnRecord == {line.app, line.dataset, line.account, line.inbox} \ {0}

\* The process stops in the middle of a request.
CrashAdmin ==
  /\ job # NoJob /\ ProvFault /\ job' = NoJob
  /\ outOfSight' = outOfSight \cup (InHand \ OnRecord)
  /\ NothingMade /\ UNCHANGED <<line, inboxOf, named, jobs>>

ProvNext ==
  \/ \E onboard \in BOOLEAN : StartProvision(onboard)
  \/ CreateApp \/ CreateKey \/ CreateDataset \/ PersistBinding \/ PortalAccount
  \/ ResumeAccount \/ CreateAccount \/ StoreAccount \/ EnsureAgent \/ CreateInbox
  \/ StartDelete \/ DeleteData \/ DeleteAccount \/ DeleteDify \/ DeleteRow
  \/ CrashAdmin

ProvSpec == ProvInit /\ [][ProvNext]_provVars

-----------------------------------------------------------------------------
\* What an operator finds by looking at an account he knows about.
Reachable(os) == Belonging(os)

\* However often onboarding is sent again, and whatever fails before the
\* tenant is removed, nothing exists in Dify or Chatwoot that is neither on the
\* product line nor in the hands of a request nor named to an operator, unless
\* its creation or its request was never answered (EnsureDifyLine,
\* provisionDifyLine, ensureChatwoot, deleteTenant).
NoSilentOrphan == alive \subseteq Reachable(OnRecord \cup InHand \cup named \cup outOfSight)
=============================================================================
