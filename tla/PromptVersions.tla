--------------------------- MODULE PromptVersions ---------------------------
(***************************************************************************)
(* The system prompt of a product line: revisions in prompt_versions, one  *)
(* of them active; the text Dify answers with; and the origin record the   *)
(* pages fall back to.  A write stores a revision, sends it to Dify, marks *)
(* it pushed and records its origin, in this order and without a lock.     *)
(***************************************************************************)
EXTENDS Naturals, Sequences

CONSTANTS
  Writers,          \* console and platform requests in flight at once
  MaxRevisions,     \* bound: rows of prompt_versions
  MaxPromptWrites,  \* bound: requests
  MaxPromptFaults   \* bound: failing calls to Dify or the database

\* Two releases of the platform's template and two texts of the tenant's, one
\* of which predates the contract every prompt has to keep now.
Templates == {"t1", "t2"}
Texts == Templates \cup {"own", "legacy"}
MissingPromptRequirements(b) == b = "legacy"

VARIABLES
  template,      \* the template of the running release
  rows,          \* prompt_versions: [body, template, pushed]
  activeRow,     \* the active one, 0 for none
  live,          \* the text in Dify
  origin,        \* config_json.prompt_origin: [body, template]
  writer,        \* [Writers -> the request in hand]
  promptWrites,
  edited,        \* the text was changed in Dify since the last write (history)
  overlapped,      \* two requests were in hand at once since then (history)
  unrecorded,    \* a text arrived that no origin record describes (history)
  promptFaults

promptVars == <<template, rows, activeRow, live, origin, writer, promptWrites, edited, overlapped, unrecorded, promptFaults>>

Prompt(pc, row, alone) == [pc |-> pc, row |-> row, alone |-> alone]
NoPrompt == Prompt("idle", 0, FALSE)
Row(body, t, pushed) == [body |-> body, template |-> t, pushed |-> pushed]
NoOrigin == [body |-> "none", template |-> "none"]

\* A line nobody has saved, or one whose live text was adopted as v1.
PromptInit ==
  /\ template = "t1" /\ live \in {"t1", "legacy"} /\ origin = NoOrigin
  /\ rows \in {<<>>, <<Row(live, "none", TRUE)>>} /\ activeRow = Len(rows)
  /\ writer = [w \in Writers |-> NoPrompt] /\ promptWrites = 0
  /\ edited = FALSE /\ overlapped = FALSE /\ unrecorded = FALSE /\ promptFaults = 0

PromptFault == promptFaults < MaxPromptFaults /\ promptFaults' = promptFaults + 1

InProgress == {v \in Writers : writer[v].pc # "idle"}

\* One request more; rs and a are the rows and the active one it leaves, row
\* the one to send.
Stored(w, rs, a, row) ==
  /\ writer[w].pc = "idle" /\ promptWrites < MaxPromptWrites /\ promptWrites' = promptWrites + 1
  /\ rows' = rs /\ activeRow' = a
  /\ writer' = [v \in Writers |->
       IF v = w THEN Prompt("project", row, InProgress = {})
       ELSE IF v \in InProgress THEN Prompt(writer[v].pc, writer[v].row, FALSE) ELSE NoPrompt]
  /\ overlapped' = (overlapped \/ InProgress # {})
  /\ UNCHANGED <<template, live, origin, edited, unrecorded>>

\* Publish: MAX(version)+1, the only active one, not pushed yet.
PublishRevision(w, b, t) ==
  /\ Len(rows) < MaxRevisions
  /\ Stored(w, Append(rows, Row(b, t, FALSE)), Len(rows) + 1, Len(rows) + 1)

\* storeRevision: text that is active already is not published again, unless
\* the active revision could not be read.
StoreRevision(w, b, t) ==
  IF activeRow # 0 /\ rows[activeRow].body = b
  THEN \/ Stored(w, rows, activeRow, activeRow) /\ UNCHANGED promptFaults
       \/ PublishRevision(w, b, t) /\ PromptFault
  ELSE PublishRevision(w, b, t) /\ UNCHANGED promptFaults

UpdatePrompt(w) ==
  \E b \in Texts :
    ~MissingPromptRequirements(b) /\ StoreRevision(w, b, IF b = template THEN template ELSE "none")

ResetPrompt(w) == StoreRevision(w, template, template)

\* The platform's push of its template; an unreadable active row stops it.
PushOne(w) ==
  /\ IF activeRow # 0 /\ rows[activeRow].body = template
     THEN Stored(w, rows, activeRow, activeRow)
     ELSE PublishRevision(w, template, template)
  /\ UNCHANGED promptFaults

WithPushed(n, pushed) == [rows EXCEPT ![n] = Row(@.body, @.template, pushed)]

\* Mutant: the revision keeps the time of its earlier projection.
ReactivatedAsWas(n) == rows

\* Until it is sent again the revision is not in effect.
Reactivated(n) == WithPushed(n, FALSE)

RollbackPrompt(w) ==
  \E n \in 1..Len(rows) :
    /\ ~MissingPromptRequirements(rows[n].body)
    /\ Stored(w, Reactivated(n), n, n) /\ UNCHANGED promptFaults

\* UpdateSystemPrompt; a call that failed may have landed all the same.
ProjectPrompt(w) ==
  /\ writer[w].pc = "project"
  /\ \/ /\ live' = rows[writer[w].row].body /\ edited' = FALSE
        /\ \/ writer' = [writer EXCEPT ![w].pc = "mark"] /\ UNCHANGED <<unrecorded, promptFaults>>
           \/ PromptFault /\ writer' = [writer EXCEPT ![w] = NoPrompt] /\ unrecorded' = TRUE
     \/ PromptFault /\ writer' = [writer EXCEPT ![w] = NoPrompt] /\ UNCHANGED <<live, edited, unrecorded>>
  /\ UNCHANGED <<template, rows, activeRow, origin, promptWrites, overlapped>>

\* Addressed by row, and not a failure of the request.
MarkPushed(w) ==
  /\ writer[w].pc = "mark" /\ writer' = [writer EXCEPT ![w].pc = "origin"]
  /\ \/ rows' = WithPushed(writer[w].row, TRUE) /\ UNCHANGED promptFaults
     \/ PromptFault /\ UNCHANGED rows
  /\ UNCHANGED <<template, activeRow, live, origin, promptWrites, edited, overlapped, unrecorded>>

StorePromptOrigin(w) ==
  /\ writer[w].pc = "origin" /\ writer' = [writer EXCEPT ![w] = NoPrompt]
  /\ \/ /\ origin' = [body |-> rows[writer[w].row].body, template |-> rows[writer[w].row].template]
        /\ unrecorded' = (unrecorded /\ ~writer[w].alone)
        /\ overlapped' = (overlapped /\ ~writer[w].alone)
        /\ UNCHANGED promptFaults
     \/ PromptFault /\ unrecorded' = TRUE /\ UNCHANGED <<origin, overlapped>>
  /\ UNCHANGED <<template, rows, activeRow, live, promptWrites, edited>>

\* Somebody edits the text in the Dify console; a release brings a template.
EditElsewhere ==
  /\ ~edited /\ edited' = TRUE
  /\ live' \in Texts \ {live}
  /\ UNCHANGED <<template, rows, activeRow, origin, writer, promptWrites, overlapped, unrecorded, promptFaults>>

Release ==
  /\ template = "t1" /\ template' = "t2"
  /\ UNCHANGED <<rows, activeRow, live, origin, writer, promptWrites, edited, overlapped, unrecorded, promptFaults>>

PromptNext ==
  \/ \E w \in Writers : \/ UpdatePrompt(w) \/ ResetPrompt(w) \/ PushOne(w) \/ RollbackPrompt(w)
                        \/ ProjectPrompt(w) \/ MarkPushed(w) \/ StorePromptOrigin(w)
  \/ EditElsewhere \/ Release

PromptSpec == PromptInit /\ [][PromptNext]_promptVars

-----------------------------------------------------------------------------
(* What the two pages say about the line.                                  *)

\* The record the tenant's page classifies the live text against.
ProjectionRecord ==
  IF activeRow = 0 \/ ~rows[activeRow].pushed THEN origin
  ELSE [body |-> rows[activeRow].body, template |-> rows[activeRow].template]

ClassifyPrompt(record) ==
  IF live = template THEN "current"
  ELSE IF record = NoOrigin THEN "unknown"
  ELSE IF live # record.body THEN "changed_elsewhere"
  ELSE IF record.template # "none" THEN "outdated" ELSE "custom"

\* The platform's roster compares it with the active revision.
ProbeProjection ==
  IF activeRow = 0 THEN "unknown"
  ELSE IF live = rows[activeRow].body THEN "in_effect"
  ELSE IF rows[activeRow].pushed THEN "changed_elsewhere" ELSE "not_pushed"

\* Neither page reports a hand edit in Dify that nobody made: whatever writes
\* fail half-way, the text the console put there is recognised as its own, but
\* for one whose arrival no record describes or that two writes fought over.
AlarmMeansEdited ==
  (\A w \in Writers : writer[w] = NoPrompt) /\ ~overlapped /\ ~unrecorded /\ ~edited =>
    ClassifyPrompt(ProjectionRecord) # "changed_elsewhere" /\ ProbeProjection # "changed_elsewhere"
=============================================================================
