# A TLA+ model of Lurus-UNICA

UNICA receives customer messages from chat platforms, answers them with a Dify
agent whose answers are checked against a product ontology, hands conversations
to human agents in Chatwoot, and sends the replies back to the platforms. Three
Go services do this, joined by Redis streams and PostgreSQL:

    platform --webhook--> gateway --unica:inbound--> router --unica:outbound--> gateway --> platform
                                                      |  ^
                                       unica:handoff  |  | (same process: handoff consumer)
                                                      v  |
                                                   Chatwoot --webhook--> gateway (agent replies)

This directory holds TLA+ modules for the parts whose correctness depends on
interleaving, failure and order, TLC configurations that check them on small
instances, and TLAPS proofs of the safety properties for every instance.

- [Inventory](#inventory): the parts of the system
- [Modules](#modules): what is modelled, and how it corresponds to the code
- [Runs](#runs): what each TLC run checks, its bounds and what it shows
- [Proofs](#proofs): what is proved, and along which argument
- [Divergences](#divergences-found) between code and its own statements
- [Not modelled](#not-modelled) and [Plan](#plan)

To check: `tlc -config router.cfg MCInboundRouter` (and so on, see the table of
runs); `tlapm InboundRouterProofs.tla` (and the other `*Proofs.tla`).

All paths below are under `src/unica/`.

## Inventory

| Component | State | Operations | Talks to | Hard behaviour | What makes it correct |
|---|---|---|---|---|---|
| Inbound router `router/internal/routing/router.go` | stream `unica:inbound`, its PEL, goroutine positions | `Start`, `drainPending`, `readLoop`, `processMessage`, `requeue`, `ack` | Redis streams, session manager, judge, Chatwoot | redelivery, crash between steps, requeue of XADD then XACK, one shared consumer name | no entry lost, one owner per pending entry, one reaction per message |
| Conversation lock `routing/lock.go` | `conv_lock:<channel>:<user>` with TTL 60 s | `Acquire`, token-checked release | router workers, other instances | TTL shorter than a slow model call; tokens of dead holders | one worker per customer |
| Conversations `router/internal/state` | `conversations` row, Redis session, `messages` partitions | `HandleInboundMessage`, `TransitionState`, idle sweep | router, handoff, survey | stale session, sweep beside transitions | only legal transitions, one open conversation, idle ones are closed |
| Satisfaction survey `router/internal/survey` | pending key, `survey_status` | `SendSurvey`, `HandleSurveyReply` | sweep, router | three writes, any of which may fail | a closed conversation was asked, and is rated once |
| Answer judge `routing/judge.go`, `guardrail/evaluator.go`, `routing/grounding.go` | none of its own | `JudgeAnswer` | breaker, ontology | order of overrides on one verdict, modes off/shadow/enforce | no blank delivery; escalations reach a person |
| Enforcement breaker `pkg/domain/breaker.go` | ring of outcomes, counters, `openUntil` per product line | `Allow`, `Record`, `Open` | all workers | ring arithmetic over resets and resizes; check-then-act | withholding is bounded |
| Ontology `pkg/domain` | classes, vocabulary, assertions; `ontology_versions` | `ParseYAML`, `Validate`, `Publish`, `Rollback`, `Active` | judge, console | overlapping facts, overlapping transactions | the closest fact decides; the last publish is active |
| Outbound consumer `gateway/internal/stream/consumer.go` | stream `unica:outbound`, its PEL, goroutine positions | `readLoop`, `claimPendingLoop`, `processMessage`, `DrainPending` | dispatcher | claims beside workers, shutdown beside sends | each entry acknowledged, and only after delivery |
| Dedup, retry, dead letters `gateway/internal/dedup` | 24 h dedup keys, stream `unica:dead_letter` | `IsDuplicate`, `ExecuteWithRetry`, `SendToDeadLetter` | adapters | key claimed before the send; nested retries | at most one send per key, and a dead letter only for what was not delivered, as far as the platform's answers tell |
| Handoff consumer and handler `router/internal/handoff` | stream `unica:handoff`, mapping keys, history watermark | `processPending`, `Handle`, `SyncConversationHistory` | Chatwoot, scheduling | double creation, half-done handoffs | one Chatwoot conversation, complete history |
| Agent scheduling and Chatwoot webhook | load counters; reverse mapping | `Assign`, `ServeHTTP` | handoff, Chatwoot, `unica:outbound` | counters nobody decrements; attributes nobody sets | replies leave through their channel |
| Token manager `gateway/internal/token` | token keys, refresh loops | `GetToken`, `refreshLoop`, `RegisterChannel` | platforms | refresh outside the single flight; answers that are lost | the cached token is the newest issued |
| Rate limiter, burst detector `gateway/internal/ratelimit` | sorted sets, cooldown key | `Allow`, `RecordAndCheck` | inbound API | interleaved pipelines | no window admits more than the limit |
| Webhooks, inbound API, adapters | none | parse, verify, publish, format, send | platforms, `unica:inbound` | missing ids, double decoding, lost answers, the month's end | one row per message and month; an answer is shown as what it says |
| Channel configuration `channelcfg`, admin `channels` | rows, handler map, adapter registry | CRUD, `DeleteTenantData`, `LoadAll`, `Watch` | Redis pub/sub | notices nobody hears, changes nobody announces | the gateway serves the enabled rows |
| Line settings and route cache | `config_json`, `route:<channel>` hash with TTL | page saves, `UpdateDifyBinding`, `Invalidate`, read-through | router | fills racing invalidations, one document many pages | saves keep each other; a reported invalidation holds |
| Switches `pkg/platformsettings`, `routing/switches.go` | rows, the router's snapshot | seed, poll, `HandleSwitches` | console | unreadable settings | a running router never falls back |
| Dify app configuration | `model_config`, prompt and model revisions, dataset | prompt, model, dataset and top_k writes, push, roll-back | Dify | no partial update, four-step saves, borrowed apps | what is confirmed holds; pages tell the truth |
| Onboarding and deletion `admin/internal/identity` | product line row, objects in Dify and Chatwoot | `HandleOnboard`, `HandleProvision`, `deleteTenant` | Dify, Chatwoot | no rollback across systems | nothing is orphaned without a word |
| Accounts and audit | `users`, refresh keys; `audit_logs`, channel | login, refresh, edit; `Log`, `processLoop` | Redis, PostgreSQL | long-lived tokens; drops, concurrent writers | a deactivated account fades out; the trail is true |
| Reporter, portal, deployment | | | PostgreSQL | none of their own | |

The hazards found while reading, each at its source line and with the
properties that answer to it, are listed in `PROJECT.json` under `hazards`.

## Modules

| Module | Models | Extends / refines |
|---|---|---|
| `ReplyLedger` | abstract: rows of the `messages` table and reactions made for them | |
| `InboundRouter` | consumption of `unica:inbound` by workers, the lock, the store, the reaction | refines `ReplyLedger` (`LedgerSpec`) |
| `BreakerWindow` | abstract: a sliding window of outcomes, and when it opens | |
| `Breaker` | the ring buffer of `breaker.go` | refines `BreakerWindow` (`SlidingWindow`) |
| `AnswerJudge` | `JudgeAnswer`, several workers sharing one `Breaker` | extends `Breaker`, whose steps are the only way its lines change |
| `GroundedFacts` | loading an ontology, and the comparison of an answer's claims with it | |
| `OutboundDelivery` | consumer, dispatcher, retry, dead letters, shutdown | |
| `ConversationMachine` | abstract: the transition table of `machine.go` | |
| `Conversation` | a customer's conversations under worker, idle sweep and handoff handler; the survey | refines `ConversationMachine` (`MachineSpec`) |
| `Handoff` | `unica:handoff`, `Handle`, `ForwardToChatwoot`, history sync | |
| `AgentDesk` | agent pool, distributor, Chatwoot webhook | |
| `Adapters`, `Ingress` | the five platforms' formats as operators; webhook, inbound API, stream, dispatch | `Ingress` extends `Adapters` |
| `RateLimit` | sliding window and burst cooldown | |
| `Tokens` | access tokens of a channel | |
| `ChannelWiring` | channel rows, notices, the gateway's reload | |
| `LineSettings` | `config_json`, invalidation, route cache | |
| `Switches` | runtime switches and the poller | |
| `OntologyStore` | versions under concurrent transactions, and the cache | |
| `AppConfig` | read-modify-write of a Dify app | |
| `PromptVersions`, `ModelVersions`, `DatasetRetrieval` | prompt revisions; model tiers; dataset index and search method | |
| `Provisioning` | onboarding, provisioning, deletion | |
| `Access`, `AuditTrail` | accounts and tokens; the audit middleware and logger | |
| `MCPlatform` | the components from `Handoff` and `GroundedFacts` on, side by side, one in focus per behaviour | extends them all |
| other `MC*` | small sets of messages, workers, settings for TLC | one per module |
| `*Proofs` | theorems and their proofs | |

`PROJECT.json` maps every definition to the lines it stands for.

### InboundRouter

A worker's `pc` is its place in `processMessage`, one value per point at which
another goroutine, a failed call or a crash can make a difference:

| `pc` | code |
|---|---|
| `idle` | in `readLoop` (or, for the drainer, between two entries of `drainPending`) |
| `route` | payload parsing and route lookup; a failure goes to `drop`, acknowledged without processing |
| `lock` | `ConvLock.Acquire`; a deadline or a Redis error leads to `requeue` |
| `requeue`, `requeued` | XADD of the copy, then XACK of the original |
| `find`, `create`, `store` | `HandleInboundMessage`: newest usable conversation, insert, `INSERT ... ON CONFLICT DO NOTHING` |
| `state` | the switch on the conversation's state, re-read from the database |
| `survey` | `HandleSurveyReply` for a closed conversation |
| `toAI`, `rowAI`, `sessionAI` | `TransitionState`: the session read and validated, the row written, the session written |
| `ask`, `dify` | `callDifyAndPublish` before and during the remote call |
| `send`, `send_and_handoff`, `handoff` | the decision being delivered: the publication to `unica:outbound` |
| `event` | the handoff event |
| `toHuman`, `rowHuman`, `sessionHuman` | the transition to `human_processing`, in the same three steps |
| `forward` | `ForwardToChatwoot` |
| `ack`, `release` | XACK, then the deferred token-checked release |

The stream and the PEL are bags of messages, because a requeued copy carries
the payload of its original. `settled` counts acknowledgements that end a
message's processing (not those of a requeued original), `stranded` the pending
entries that no goroutine holds: workers read only new entries, so these wait
for the drain of the next start. `rows`, `inMonth` and `month` are the table
with its unique index per monthly partition.

Failures: every Redis and database call may fail once per unit of `MaxFaults`,
and a call that failed may have been applied (XADD, SETNX, the INSERTs and
UPDATEs). `Crash` loses all positions, turns the tokens of the workers into
orphans that only the TTL removes, and starts the drain over the whole PEL. A
graceful `Stop` waits for the workers and is a crash with idle workers.
`LockExpires` removes an orphan's token at any time; it removes a live
worker's token only in behaviours with a slow model (`slow`, which `MayBeSlow`
allows), and then only from the remote call on (`LateSteps`), because the steps
before it are short database and Redis calls.

Beside the worker two others work on its customer's conversations, and neither
takes the lock. The idle sweep closes the row (`IdleClose`), then invalidates the
session (`InvalidateSession`), then runs the close callback; the handoff handler
moves a conversation to a human by the same `TransitionState`
(`HandlerTransition`, `HandlerRow`, `HandlerSession`). `beside` holds what either
has in hand, by step. A worker may therefore validate against a session the row
has left, be refused, and acknowledge the message unanswered; `crossed` records
the conversations where the sweep's closing and a transition overlapped.

Abstracted: Dify's answer and the judge's verdict are a choice among
`Decisions` (`AnswerJudge` models how it is made); the Dify session record;
logging and metrics; how old a row is (the sweep may find any open row idle) and
the rest of the handler (`Conversation` and `Handoff` have them).

### Breaker and AnswerJudge

`Breaker` has the fields of `breakerLine` with the same names (`outcomes`,
`next`, `filled`, `suppressed`, `openUntil`, `trips`; `size` is the length of
`outcomes`), and positions count from 0 as in Go. `Allow` and `Record` are the
methods, with `normalise` applied first and the ring created or resized on use
(`Sized`); `Refuses` is what `Allow` answers. `Tick` is `time.Now`.

`AnswerJudge` keeps one job per worker: `Begin` takes an input, `CallAllow` and
`CallRecord` are the two separate calls on the shared breaker (each atomic
under its mutex, the pair is not), `Decide` computes the verdict by the chain
`Evaluate` (rules, triage keywords, confidence) → `Escalated` (harm, funds,
announced transfer) → `Enforced` (contradictions under enforcement) →
`Withheld` (blank answers), in the order of `JudgeAnswer`.
`Deliver` is `deliverJudgement`. The text algorithms that yield the inputs
(keyword and blank tests, the denial scan) are inputs here; what the claims of an
answer amount to is decided in `GroundedFacts`.

### OutboundDelivery

A thread is a reading worker or the claimer; after the workers have stopped
the claimer's identity does the drain. `pc` follows `processMessage` and the
dispatcher: `check` (deduplicator), `send` (an attempt of the retryer), `taken`
(the platform has the message, the adapter waits for its answer), `bury`
(dead letter), `failed` (the dispatcher returned an error), `ack`. An attempt may
fail before the platform took the message (`SendFails` at `send`) or after, when
the answer times out, is lost or cannot be read (at `taken`); the gateway cannot
tell the two apart, so `sent` counts what the platform took and `lost` how many of
those were reported as failed. A message
has a dedup key or none; the key is claimed by `check` and never released.
`phase` is `running`, `stopping` (context cancelled, goroutines finishing) and
`draining`; `main` cancels before it stops, as `Shutdown` and `StartDrain` do.
A `send` under a cancelled context fails without a dead letter; in the drain
the ten-second deadline may end a send (`SendCancelled`) or the drain (`Exit`).
WeChat's adapter posts without the context: a post already past its token is
taken although the cancellation came meanwhile, which is `Deliver` before
`Shutdown`, since nothing in between can tell.
Payloads that do not parse are acknowledged without a dispatch; they carry no
message and are left out. The 24 hours of a dedup key are taken to outlast an
entry's time in the PEL.

### Conversation

One customer; a row is `st` (state), `aged` (updated_at past the idle timeout)
and the survey's columns. `session` is the Redis copy, `found` what the sweep's
query returned and has not yet been worked through. `job` gives each of the
three goroutines its step: `transition`, `update`, `cache` are the read, the
UPDATE and the session write of `TransitionState`; `store`, `dispatch`,
`answer`, `reply`, `rate`, `forget` the worker; `invalidate`, `onclose`,
`publish`, `remember`, `status` the sweep's closing of one row with its survey;
`chatwoot`, `mark` the handler. `disturbed` records the conversations on which
two of them overlapped or a session write failed: only for those may the table
of transitions be left. A write of the row renews `updated_at`; the insertion
of a message does not, as in the code.

### Handoff and AgentDesk

Events, the PEL and the batch of the last read are sequences; `hand` and
`forward` are the positions of the two goroutines that share the mapping keys
`toCw` and `fromCw`. Creating a conversation, storing the two keys, loading the
history, each message and the watermark are steps of their own. `raced` records
that both looked for the mapping at once. `AgentDesk` has the pool (`load`,
`online`), the distributor's choice and its commit apart, and the webhook;
`CustomAttributes` are those the two creators set. Nothing in the repository
calls `SetOnline`, `SetOffline` and `DecrementLoad`; nothing turns the published
close event into a transition.

### The gateway's edge: Adapters, Ingress, RateLimit, Tokens, ChannelWiring

`Adapters` is a set of operators: what a message of a type becomes on each
platform, whether its content survives the second decoding, which key it gets
and what is sent for an answer. `Ingress` makes behaviours of them: resends,
XADDs that fail or whose answer is lost, the router's row per key and monthly
partition, a dispatch.
`RateLimit` takes the three commands of the pipeline apart and lets at most
`Lag` ticks pass between a request's clock and its count. `Tokens` numbers what
the platform issues, which it may have done although the call failed
(`IssueToken`, `unanswered`), as a SET may have been applied that failed.
`ChannelWiring` has one gateway process from boot to the subscription, and the
operations of the console with what each publishes: `told` are the channels
changed since the last load with a notice the gateway hears, `unheard` those it
was not told of, by a toggle or the deletion of a tenant (`Silently`) or because
the notice or the reload failed or came too early.

### The console: settings, versions, apps

Values are the numbers of the writes that made them, so that "older" means
something. `LineSettings`: a request reads the document, writes its block, then
drops the routes one by one; the router's fill is a read and a later write.
`UpdateDifyBinding` and `WriteBinding` are the binding of a new app, which reads
the document and writes it back whole. The keys of the Chatwoot account and of
the prompt's origin are written like the survey's, each by one page, and are left
out; the set-up programs that write `config_json` before a line is in use are too.
`OntologyStore`: each SQL statement is a step under read committed, and a
transaction waits for rows another holds; a COMMIT that was applied although its
answer was lost counts as one that failed here. `AppConfig`: GET, POST and the
read-back of a write, by two callers. `PromptVersions`: store, project, mark,
origin; the template in an origin is the stored revision's, and the caller's, which
the code takes where the revision has none, is left out. `ModelVersions`: pin for a check, store, revert; clear; push with tiers
read once. `DatasetRetrieval`: uploads and repairs, the technique resolved when
the code resolves it. `Switches`: seed, poll, restart, the console's copy.

### Provisioning, Access, AuditTrail

`Provisioning` walks one request at a time over objects numbered as they are
made; `named` are those an answer or a log line told the operator about,
`outOfSight` those whose creation or request was never answered. `Access` has
ticks for the lifetimes of tokens. In `AuditTrail` the resource is an edition
number, so that a snapshot has a place among the writes.

### GroundedFacts

An ontology is a class tree, stages, three properties and up to two assertions,
taken from `Drafts` and loaded only if `Validate` accepts it. A claim is a
property, a set of qualifiers and a value in one of its spellings (bare, with a
label, with a unit). `CheckClaims` keeps the order of the checks in
`checkClaims`. Answers are single claims, two claims that differ in the value,
and the copy of every scoped tag the model was shown.

## Runs

| Run | Checks | Bounds | Shows |
|---|---|---|---|
| `router` | `NoDeliveryLost`, `PendingIsOwned`, `EverythingSettles` | one message published twice, 2 workers, sweep and handler, 1 fault, 1 crash, 2 conversations | entries are neither lost nor owned twice under a fault and a crash; the stream is worked off |
| `router_overrun` | `ExclusiveUnlessOverrun`, `AnsweredOncePerMonth`, `AcknowledgedMeansAnswered`, `LedgerSpec` | a keyed message twice and an anonymous, textless one, 2 interchangeable workers, sweep and handler, 2 months, model calls that may outlive the lock or never do | exclusion is lost only to an overrun; the table still keeps reactions to one per month; without overruns only a sweep across a transition leaves an acknowledged message unanswered |
| `router_mutex` | `NeverTwoWorkers` (violated) | as above, both messages with text | see Divergences |
| `breaker` | `SuppressedCounts`, `SlidingWindow` | windows of 3 and 4 that alternate, cooldowns of 1 and 2, 5 ticks | the ring is a sliding window across wrap-around, reset and resize |
| `judge` | `EscalationReachesHuman`, `StreakBounded` | 2 workers, one tick, a breaker of four samples, 25 inputs: contradicted or not under shadow and enforcement or unchecked, each plain, about harm, about a blocked topic, with an announced transfer, or blank | whoever must get a person gets one; how many answers in a row enforcement can withhold although Allow and Record are apart |
| `judge_shadow` | `ShadowRoutesAsOff` (violated) | every combination of signals, 1 worker | see Divergences |
| `outbound` | `SentOncePerKey`, `DeadOrSent`, `AckedWithoutKeyMeansSent`, `EveryEntryAcked` | a keyed and an unkeyed message, 1 worker and the claimer, 2 attempts in each of the two retry loops, 3 faults, a shutdown, a crash | at most one send per key (one more per check that failed open and per send reported as failed), a dead letter only for a message no reported send delivered, every entry acknowledged |
| `outbound_lost` | `AckedMeansSettled` (violated) | 2 workers, no fault, 1 shutdown | see Divergences |
| `conversation` | `SessionFresh`, `RatedOncePerSurvey`, `OpenBesideOnlyIfAsked`, `ClosedMeansAsked`, `MachineSpec`, `IdleIsClosed` | 2 conversations, 3 messages, 1 handoff, 1 failing call or expiry | the rows keep to the transition table and the session to the row unless two goroutines overlapped on one conversation or a session write failed; surveys; idle conversations are closed |
| `two_open` | `OneOpenConversation` (violated) | 2 conversations, 4 messages, no failure | see Divergences |
| `platform` | the nineteen invariants below | see there | each component around the message paths |
| `agent_reply` | `AgentRepliesRouted` (violated) | 2 agents, 1 conversation | see Divergences |

`platform` checks, component by component (the focus; the others rest):

| Focus | Invariant | Says | Bounds |
|---|---|---|---|
| handoff | `AckedMeansHandedOver`, `HistoryHandedOver`, `OneChatwootConversation` | an undisturbed event has its Chatwoot conversation when acknowledged; history is sent once per failure and nothing below the watermark is forgotten; one counterpart unless the two creators raced | 3 messages of which a sync loads 2, 2 events, 1 mishap, 1 crash |
| desk | covered by `agent_reply` and by coverage of its actions | | 2 agents of load 1, 2 conversations |
| limit | `AllowedWithinLimit` | no window shorter by the lag admits more than the limit | 3 requests, limit 1, window 3, lag 1, 4 ticks |
| ingress | `CarriedFaithfully` | one row per named message and month it is read in, one without an id is merged only with another, 202 means enqueued, an answer is shown as what it says | 2 messages, 2 sends, 2 months, every type on every platform: the second send is the same message in the same month or the next, or the other message |
| token | `TokenIsNewest` | the cached token is the newest unless refreshes overlapped, its answer was lost or its SET failed | 4 tokens, 2 faults |
| wiring | `ServingFollowsRows` | with all notices handled a channel is served when and only when its row is enabled, but for those no notice told of | 2 channels and a legacy row, 4 changes |
| line | `SettingsKept`, `ReportedInvalidationHolds` | pages do not undo each other except within one block, and a binding only what was saved while it had the document; after cache_invalidated no older route but one being read meanwhile | 2 editors, 3 revisions |
| switch | `SwitchesNeverGoBack` | a running router never returns to an older setting | 2 switches, 2 failing calls, 1 restart |
| store | `LastPublishIsActive` | the one active version is the last answered with success | 2 transactions, 3 versions |
| app | `ConfirmedPartsHold` | a confirmed part stays until written again | 2 callers, 3 writes |
| retrieval | `RepairedStaysSound` | a repaired dataset keeps finding its documents | 2 calls, 2 changes of technique |
| prompt | `AlarmMeansEdited` | no false report of a hand edit | 2 writers, 2 requests, 3 revisions |
| model | `AnswersWithItsTier` | a line answers with its tier's model unless a push is due, a call failed or requests overlapped | 2 lines, 2 requests |
| provision | `NoSilentOrphan` | nothing outside is forgotten without a word | 6 objects, 4 requests, 2 faults |
| access | `InactiveFadesOut` | a deactivated account is out after the lifetime of an access token | 2 requests, 2 pairs, 4 ticks |
| audit | `TrailTrue` | every answered write is in the trail once or known lost, with snapshots on either side of it | 3 writes, a buffer of 1 |
| facts | `FactsDecide` | a claim is judged by the closest fact; a claim without a scope holds in every one; copied tags are not reported | 3 classes, 2 stages, 2 facts |

Why the bounds are enough. A duplicate, a requeue or a second owner needs two
copies of one message and two workers; a third adds no new pair. A fault leads
to the recovery it calls for, and the crash may come at every step of that; that
the safety properties survive any number of both is proved. Two conversations of a customer
reach the reopened and the closed one side by side with a new one; two months
the one boundary a redelivery can cross. Two conversations that are rightly open
side by side need a fourth message, which `two_open` has and `conversation` has
not; that this happens only when both were asked is proved without the bound
(`BesideOnlyAsked`), and a wrong choice of the conversation shows with three. In
`judge` the bound on the answers withheld in a row is reached: the share that
trips, and the second worker already past Allow. In the outbound runs three faults exhaust
the inner retry loop once and leave one for the dead letter or the
acknowledgement; the attempts are 2 where the code has 3 of each, which keeps
"first, and last" but drops "middle", which the code treats as the first. The
breaker's windows are the smallest in which wrap, overwrite of a suppressed
outcome and shrinking differ. In the judge's inputs the two retrieval scores
and two thresholds lie on each side of 0.75, 0.80 and 0.90, the constants of
`grounding.go`. In `platform` two actors of a kind (editors, callers, writers,
transactions, repairers) are the pair that a lost update needs, three versions or
revisions are an old one, one lost and one that wins, and three messages with a
limit of two are the smallest history that does not fit in one sync; two months
(`MaxPartitions`) have the one boundary a resend can cross. Two facts
overlap, tie or refine each other over a class tree of depth three; a third fact
adds only further pairs. Each property's exceptions (`crossed`, `straddled`,
`behind`, `outOfSight`, ...) are history variables that only the named event
sets, so that a violation from any other cause is found; a mutant of the code
violates each property within these bounds. Where the exception is itself a hazard
of the code (`raced`, `straddled`, `together`, `late`, `disturbed`, `lost` of the
audit trail, `outOfSight`), the property says that nothing else does harm and does
not catch the hazard, which the code has; `hazards` says so at each.

The components of `platform` share no variable, and their properties speak of one
component each: interleaving them with each other would add states and no
behaviour, which is why one is in focus at a time.

Deadlock checking is off where publishers, faults, writers and clocks are bounded,
so that the system comes to rest: all runs but those of the judge,
where a worker can always take another answer.

Fairness. `FairSpec` of `InboundRouter` assumes weak fairness of the drain and
of each worker's `Process` and `Receive` (goroutines are scheduled; every call in
them has a timeout, and a fault is a step of `Process` too) and of the expiry of
an orphaned token (Redis expires keys). Nothing is assumed of publications,
faults, crashes, the sweep or the expiry of a live token. `FairSpec` of
`OutboundDelivery` assumes the same of its threads and of the stages of a
shutdown once it has begun, and strong fairness of a claim of each pending
entry: the ticker of `claimPendingLoop` keeps ticking, XAUTOCLAIM returns
every entry idle for the interval, and an entry held by a thread is not
always pending and claimable but is so again and again. `ConvFairSpec` assumes
weak fairness of the sweep's steps only: `idleTimeoutLoop` is a goroutine on a
ticker. Nothing is assumed of the customer, the worker or the handler. The
components of `platform` are checked for safety only.

## Proofs

TLAPS checks the following for every value of the constants that satisfies the
assumptions of the modules. These say that bounds are natural numbers, that
limits, lifetimes and attempts are at least one, that the sets of workers are
finite, that "no message" and the like are not messages, and that settings and
inputs have the fields the code gives them: `WorkersAssumption`,
`MessagesAssumption` and `BoundsAssumption` (`InboundRouter`),
`DefaultAssumption`, `ConfigsAssumption` and `ClockAssumption` (`Breaker`; the
default of `NewBreaker` is usable), `InputsAssumption` (`AnswerJudge`),
`ThreadsAssumption`, `AttemptsAssumption`, `LimitsAssumption` and
`MessagesAssumption` (`OutboundDelivery`), and those of `Conversation`,
`Handoff`, `OntologyStore`, `Provisioning`, `ChannelWiring`, `Tokens`,
`RateLimit`, `Access`, `AuditTrail` and `GroundedFacts`. `LimitAssumption` has the lag of a
pipeline below the window. No proof is left open.

Each argument names the inductive invariant: the property alone is hardly ever
preserved by a step, and what has to be added is the reason why it holds.

### The inbound path

| Theorem | Module | Argument |
|---|---|---|
| `LockExclusive`: `Spec => []ExclusiveUnlessOverrun` | `InboundRouterProofs` | Exclusion alone is not inductive: an exit step must know whose token is in the lock. `HoldsLock` says that a worker inside the lock has its token there or is in `overrun`; one token names one worker. |
| `AnsweredOnce`: `Spec => []AnsweredOncePerMonth` | `InboundRouterProofs` | `AnswerInv`: for a keyed message the reactions made, plus the workers between the store and the reaction, never exceed the rows (`RowsCover`), and rows never exceed the months begun, the present month counting only if the message is in its index (`OneRowPerMonth`). |
| `ImplementsLedger`: `Spec => LedgerSpec` | `InboundRouterProofs` | Under the same invariant every step is a step of `ReplyLedger` or leaves its variables alone. |
| `EntriesOwned`: `Spec => []PendingIsOwned` | `InboundQueueProofs` | `QueueInv`; every action is first shown to be one of a few kinds of step on the queues, and the count of holders changes by one with the holder's step. |
| `EntriesNeverLost`: `Spec => []NoDeliveryLost` | `InboundQueueProofs` | The sum of stream, PEL and settled entries never falls below the publications; a requeue adds before it removes. |
| `TypeCorrect`: `Spec => []TypeOK` | `InboundQueueProofs` | That `pel` is never negative needs `PendingIsOwned`: the worker that acknowledges owns one of the pending entries. |
| `SettledAnswered`: `Spec => []AcknowledgedMeansAnswered` | `InboundQueueProofs` | `CalmInv`: as long as nothing failed, crashed or expired, a stored message is answered, of a customer the sweep crossed, or in the hands of the worker that stored it (`StoredIsAnswered`). A redelivery can find the row only inside the lock, hence after that worker left it, hence answered: the proof needs `HoldsLock`, and that failures and crashes are counted by every action (`FailuresCounted`). That the worker is not refused its transition is `FreshInv`: of a conversation that was not crossed, a closed row has no session or one about to be invalidated, a pending row none that says more, and nobody is about to write another (`ToAIGranted`). |

### The judge

| Theorem | Module | Argument |
|---|---|---|
| `NormaliseUsable` | `BreakerProofs` | Whatever was configured, `normalise` yields a floor in 1..window, a rate in 1..100 and a positive cooldown. |
| `BreakerTypes`, `CountExact` | `BreakerProofs` | The counters stay in the ring; the running count equals the number of suppressed slots among the filled ones. |
| `SlidesAsWindow`: `BreakerSpec => SlidingWindow` | `BreakerProofs` | Step refinement of `BreakerWindow`. The i-th oldest outcome lies in `Slot(i)`; a push writes the slot after the newest and shifts the others by one (`SlotsPushed`, `RingPushed`), a trip and a new size leave an empty window. Positions of the window and written slots correspond one to one, so `CountExact` gives the window's rate (`RingBad`), and a line opens only when that is high enough. |
| `NeverBlank`, `AlwaysEscalated` | `AnswerJudgeProofs` | By the verdict chain, for all inputs, settings and breaker states. |
| `UsesBreaker`: `Spec => BreakerSpec` | `AnswerJudgeProofs` | Composition: workers change the lines only by steps of `Breaker`. |
| `WithholdingBounded`: `Spec => []StreakBounded`, for lines whose settings nobody changes (`Steady`) | `AnswerJudgeProofs` | `Explained`: the answers withheld in a row are suppressed outcomes at the end of the ring (`Run`), or in flight between Allow and Record; once the run reaches the share that trips, `Allow` refuses, and a delivered answer or a trip starts the count again. `Steady` is what the property is about: a changed window starts a new ring. |
| `AnswerJudgedByFacts`: `[]FactsDecide` | `AnswerJudgeProofs` | Nothing with a circle of classes is loaded (`NoCircle`), so a class is at one distance from each ancestor and distances add up (`HopsAdd`). Hence of two facts that match the one refined by the other scores less (`RefinedScoresLess`), exactly one fact decides (`OneDecides`), and it is among the closest (`ClosestDecides`); a fact of the very scope asked for beats all others (`OwnScopeScoresMost`), so a copied tag passes alone (`TagPasses`) and beside the others (`CopiedPass`). |

### The outbound path

| Theorem | Module | Argument |
|---|---|---|
| `OutboundTypes`, `EntriesInOnePlace` | `OutboundProofs` | Together (`PlacesInv`), with the fact that a thread before a send has an attempt left: each attempt ends in a send, a failure counted, or the dead letter. |
| `SendsBounded`: `Spec => []SentOncePerKey` | `OutboundProofs` | `BudgetInv`: for each key, sends not reported as failed plus threads about to send stay within one if the key is claimed, plus one per check that failed open. A thread that awaits an answer holds a send of its own (`AnswersInv`), which is taken out of the count when the answer is lost and the thread goes back to sending. While the shutdown cancels, threads pass a failing check without a budget, but none of them can send, and all are idle before the drain begins. |
| `NotBothDeadAndSent`: `Spec => []DeadOrSent` | `OutboundProofs` | `ClaimInv`: while no check failed open, an unclaimed key's messages are untouched (every send of them was reported as failed), and the one thread that claimed a key is alone between the claim and the outcome; the one send that is not reported is the one it awaits the answer of. |
| `UnkeyedAckedMeansSent`: `Spec => []AckedWithoutKeyMeansSent` | `OutboundProofs` | Without a key the only way to the acknowledgement leads through a send (`SentBeforeAck`). |

### Conversations

| Theorem | Module | Argument |
|---|---|---|
| `ConversationTypes`: `ConvSpec => []ConversationTypeOK` | `ConversationProofs` | With `JobsOK`: which steps each goroutine can be at, and which targets a transition has. |
| `RatingsBounded`: `ConvSpec => []RatedOncePerSurvey` | `ConversationProofs` | `RateInv`: a rating needs a right to rate, which is the pending key, the worker that has seen it, or the sweep about to set it. Ratings and rights together never exceed surveys and faults: deleting the key may fail, and costs one. |
| `SessionsFresh`: `ConvSpec => []SessionFresh` | `ConversationProofs` | `FreshInv`, for undisturbed conversations: at most one goroutine relies on a state it has read, what it read still holds, and the session is the row's state, absent, or about to be written. `RowsInv` keeps goroutines away from rows that do not exist. |
| `KeepsToMachine`: `ConvSpec => MachineSpec` | `ConversationProofs` | Step refinement of the transition table: by `FreshInv` the UPDATE is made from the state that was checked. |
| `BesideOnlyAsked`: `ConvSpec => []OpenBesideOnlyIfAsked` | `ConversationProofs` | `BesideInv`, over the order of the rows: while a newer row exists, an older one that is open or worked on was asked, and the newer one too once both are open. `AskedInv`: whatever makes a closed conversation reachable comes from a published survey. |
| `ClosedWereAsked`: `ConvSpec => []ClosedMeansAsked` | `ConversationProofs` | `SurveyedInv`: a closed conversation with enough messages was asked, is with the sweep, or with the worker that reopens it by the message just counted. |

### The hand-over and the gateway's edge

| Theorem | Module | Argument |
|---|---|---|
| `AckedIsHandedOver`, `OneCounterpart`: `[]AckedMeansHandedOver`, `[]OneChatwootConversation` | `GatewayProofs` | A key, and a goroutine past its creation, point at a counterpart that was opened (`OpenedFirst`). Handler and forwarder look for it one at a time (`OneLooks`), and what exists is named by the key or in the hands of the one that made it (`KeepsNamed`); failed calls, lost keys, crashes and races are what the properties except. |
| `HistoryIsHandedOver`: `[]HistoryHandedOver` | `GatewayProofs` | `WatermarkTrue`: what the watermark has passed was sent or skipped, and between two syncs what it has not passed was sent no more often than something went wrong. `SyncAt`: within a sync the messages left to send are the next ones in order. |
| `WithinLimit`: `[]AllowedWithinLimit` | `GatewayProofs` | A request that counted is still in the sorted set while a window may hold it (`HitsStay`), because the others prune by clocks that are at most the lag apart (`CountsInTime`); so the last of a window's requests to count saw all the others. The counting is over sets, with `FiniteSetTheorems`. |
| `NewestToken`: `[]TokenIsNewest` | `GatewayProofs` | There is one loop at most, and unless a caller's refresh overlapped it at most one refresh runs (`Alone`); that one has the newest token in hand when it stores it. A call that fails after the platform issued a token leaves nobody at the store, and `unanswered` until the next answer. |
| `CarriedAsSent`: `[]CarriedFaithfully` | `GatewayProofs` | `IngressInv`: the key of an entry is the id of its message or nothing (`KeyFits`), so a row is found again exactly by a message of that id: per month there is one (`OneRow`), and a message without an id is found in a row without (`NamelessRow`). Two lemmas carry the case distinction over the five platforms: what a webhook publishes of a message (`WebhookPublishes`), and what a customer sees of an answer (`ShownWell`). |
| `ServesWhatIsEnabled`: `[]ServingFollowsRows` | `GatewayProofs` | `WiringInv`: what was loaded agrees with the row of every channel that has not changed since (`LoadedFollowsRows`); one that has is among those a waiting notice tells of (`ToldIsWaiting`) or nobody does, and what is served is what was loaded (`ServesLoaded`). |
| `InactiveIsOut`: `[]InactiveFadesOut` | `GatewayProofs` | A handler about to issue a pair found an active account and is not late, so every pair is dated at most the handler's lag after the account went inactive (`PairsInTime`); nothing prolongs a pair. |
| `TrailIsTrue`: `[]TrailTrue` | `GatewayProofs` | An entry that left its request is at exactly one place (`OnePlace`, `SomePlace`): in the buffer, with the logger, in the trail, or lost; and its snapshots enclose its edition from the moment they are taken. |

### The console

| Theorem | Module | Argument |
|---|---|---|
| `LastPublishActive`: `[]LastPublishIsActive` | `ConsoleProofs` | The property with the types of the transactions is inductive (`StoreInv`): the partial unique index and the row locks do the rest in each step. |
| `NeverGoesBack`: `[]SwitchesNeverGoBack` | `ConsoleProofs` | A running router routes by the newest snapshot it ever read, and no key of that is newer than the setting. |
| `ConfirmedHold`: `[]ConfirmedPartsHold` | `ConsoleProofs` | What a caller is about to post is the current configuration with its part replaced, or it is known to be late. |
| `StaysSound`: `[]RepairedStaysSound` | `ConsoleProofs` | A repair that knew the index has its technique, and a settled dataset is searched by the method of its index. |
| `SettingsAreKept`, `InvalidationHolds`: `[]SettingsKept`, `[]ReportedInvalidationHolds` | `ConsoleProofs` | `LineInv`: an editor about to write has read what was meant of all it will write back unchanged (its block, or for a binding the document), or that is in `crossed` (`ReadAsMeant`); two editors on a block have crossed. `RouteInv`: a channel dropped for a revision holds no older copy, and a fill that could bring one back is known to straddle. |
| `AlarmsAreTrue`: `[]AlarmMeansEdited` | `ConsoleProofs` | One write at a time, or it is known that they overlapped; what is marked as pushed, and what the origin names, is what is live. |
| `TierAnswers`: `[]AnswersWithItsTier` | `ConsoleProofs` | A request that is alone knows the tiers and what it replaces; a line no request has touched yet answers with its effective model. |
| `NoneOrphaned`: `[]NoSilentOrphan` | `ConsoleProofs` | `ProvInv` follows a request through its steps. Before the write-back every new object fills a gap of the row (`NewWhereNone`), so writing it replaces nothing; afterwards it is on the row or in the report (`WrittenOrReported`). The block in hand is the row's, but for an account not yet stored (`BlockSound`). A deletion lets go of the row only when what is left of its objects belongs to what it warned about (`DeleteSound`); this covers the inbox because an inbox on record is the account's (`LineSound`) and no inbox has inboxes (`OneLevel`). |

### What is only model-checked

- Liveness (`EverythingSettles`, `EveryEntryAcked`, `IdleIsClosed`): the prover
  has no rules for ENABLED.
- Vocabularies other than those of `GroundedFacts`: `FactsDecide` is proved for
  any number of facts, but over the class trees and properties of `Drafts`. What
  the walk up an arbitrary tree yields needs induction over data; the lemmas
  compute it for these trees (`ShortWalk`, `Circle`). For the same reason the
  rate of the breaker's window is stated with a cardinality, not with a fold.

The type invariants of the modules with a theorem of that kind (`TypeOK`,
`BreakerTypeOK`, `ConversationTypeOK`) and the invariants `DeliversNotBlank` and
`EveryEntryInOnePlace` are proved and part of no run.

## Divergences found

Shown by a run:

- **The lock's TTL is shorter than what it protects** (`router_mutex`).
  `lock.go` promises that messages of one conversation are serialized and that
  the TTL exceeds the longest Dify call. It is 60 s, is never renewed, and one
  Dify call may take 60 s, three times. A second worker then processes the next
  message of that customer beside the first. What survives is in
  `router_overrun`: no message is answered twice, because the table decides.
- **Shadow validation changes routing** (`judge_shadow`). `judge.go` and
  `pkg/domain/config.go` say that shadow routes as if validation were off. A
  checked and confirmed claim raises the confidence score, so with a threshold
  of 0.80 shadow delivers what off hands to a person.
- **A graceful shutdown can lose a message** (`outbound_lost`). The workers'
  context is cancelled before they finish; a send that fails for that reason
  has already claimed its dedup key; the drain takes the entry for a duplicate
  and acknowledges it. `AckedWithoutKeyMeansSent` shows that the key is the
  cause: an unkeyed message is acknowledged only when it was delivered.
- **Agents' replies have no channel** (`agent_reply`). The Chatwoot webhook takes
  the channel from a custom attribute of the conversation that neither creator of
  such conversations sets; they put it on the contact. `STORY-024.md:78` asks for
  "correct channel routing info".
- **Two conversations of one customer may be open at once** (`two_open`).
  `STORY-016.md:72` requires that existing active conversations are continued. A
  message that arrives while the newer conversation's survey is published but not
  yet marked reopens the older one; the next message finds the newer one, closed
  and marked by now, and reopens it too. Nothing fails, and no two goroutines
  are on one conversation. `OpenBesideOnlyIfAsked` says what remains: both were
  asked for a rating before.

Met while modelling, and part of the models, without a run of their own:

- Enabling or disabling a channel in the console (`toggleChannel`) publishes no
  invalidation, unlike creating, updating and deleting one; `STORY-032.md:60`
  expects it. `ServingFollowsRows` excepts the channel until the next load.
- Deleting a tenant deletes the rows of its channels (`DeleteTenantData`) and
  publishes no invalidation: the gateway goes on answering their webhooks until
  another change makes it reload, or a restart (`DeleteTenant`, `unheard`).
- A token refresh whose answer is lost or cannot be read has superseded the cached
  token at a platform that honours only the newest; `GetToken` hands the old one out
  until a refresh succeeds or it expires (`AskPlatform`, `unanswered`).
- A message resent in the month after it was stored is stored a second time: the
  index of `012_partition_maintenance.sql` belongs to a partition, as its comment
  says. `CarriedFaithfully` counts rows per month.
- A notice published between the gateway's first load and its subscription, or
  during a reload that fails, is not made up for (`ServingFollowsRows`, `unheard`).
- A send whose answer is lost or unreadable is an error to the retryer: the
  message is sent again, and dead-lettered after the last attempt although the
  customer has it. `SentOncePerKey` and `DeadOrSent` count those sends (`lost`).
- A webhook whose publication to the stream failed is answered 200, so the
  platform does not send it again (`Ingress`, `Webhook`).
- Two messages of one customer within a second that carry no platform id share a
  key, and the second is taken for a duplicate (`NameOrSecond`).
- The tag of a fact that holds everywhere is rendered without a scope; when the
  same property also has a scoped fact with other values, an answer that copies
  the tag, as `render.go` asks, is reported as `ambiguous_scope`. `FactsDecide`
  therefore speaks of copied tags that have a scope.
- A value with its unit behind it passes the range check, which drops the unit,
  and is then compared with the bare values as it was written, and reported as a
  contradiction (`CheckValue`, `Among`).
- `updateUser` reads the row and writes both columns back, so a renaming that
  overlaps a deactivation undoes it (`Access`, `EditUser`).
- `UpdateDifyBinding` writes the whole `config_json` it read back: a setting saved
  between its SELECT and its UPDATE is undone (`LineSettings`, `WriteBinding`;
  `SettingsKept` excepts what was saved then, by `crossed`).
- Two overlapping provisioning requests for one line each create an app and a
  dataset, and the other's objects are lost. `Provisioning` has one request at a
  time.
- A request whose pipeline to Redis fails is let through without being counted
  (`limiter.go`); `AllowedWithinLimit` counts those that were.
- A refresh token is accepted where an access token is (`jwt.go`), though it
  carries no role. `InactiveFadesOut` speaks of access tokens.
- The idle sweep closes a row and invalidates its session afterwards, while
  `TransitionState` trusts the session. A message of a customer whose conversation
  is closed meanwhile is stored, refused its transition ("invalid transition"
  between the session's state and `ai_processing`), logged and acknowledged without
  an answer, with nothing failed (`TransitionState`, `crossed`).
  `AcknowledgedMeansAnswered` says that nothing else leads there.
- Where transitions overlapped, the session may go on saying `human` for a row
  that is closed, and the customer's next message neither reopens the conversation
  nor leads to a survey. `ClosedMeansAsked` excepts the conversations in
  `disturbed`.
- The history sync loads the oldest messages after the watermark, so a long
  conversation reaches the agent in instalments, one per handoff.
- An agent's load is incremented by every assignment and decremented by nobody.

## Not modelled

The bytes of the platform formats, WeChat's encryption and the signature digests
(`Adapters` takes their outcomes); text classification, keyword matching, the
denial scan and the blank test (pure string functions covered by table tests);
Dify, Acest and the experience collector of the router (remote calls whose
outcomes are the alternatives of `DifyReturns`); rosters, probes, statistics and
list pages of the console, the reporter and the portal (they read and keep
nothing); roles and permissions (predicates without state); the schedule of
partition maintenance; two provisioning requests at once (above).

## Plan

Done: all modules above, and theorems for every safety property of the runs.
Left:

1. `GroundedFacts`: `Classes` and `Trees` as constants, with an acyclic parent
   function as their assumption, for which `HopsAdd` would need induction.
2. Two provisioning requests at once, should the code come to serialize them.
