---------------------------- MODULE AnswerJudge ----------------------------
(***************************************************************************)
(* The decision chain of one model answer (JudgeAnswer with the guardrail  *)
(* evaluator and the grounded confidence), run by several router workers   *)
(* that share one Breaker.  The chain calls the breaker twice, Allow and   *)
(* then Record, and other workers' calls fall in between.                  *)
(*                                                                         *)
(* What the chain reads of a message and an answer is a record: the topics *)
(* the query matched, whether the stripped answer is blank, how it asked   *)
(* for a human, its scores in percent, and the product line's settings.    *)
(***************************************************************************)
EXTENDS Breaker

CONSTANTS Workers, NoJob,
          Inputs    \* the messages, answers and settings to be judged

\* When one input is judged: from the query to the settings.
IsInput(in) ==
  /\ in.topics \subseteq {"blocked", "harm", "funds", "keyword"}
  /\ in.triage \in {"off", "shadow", "on"}
  /\ in.blank \in BOOLEAN
  /\ in.escalation \in {"none", "tag", "prose"}
  /\ in.retrieval \in 0..100 /\ in.threshold \in 0..100
  /\ in.ontology \in BOOLEAN
  /\ in.facts \in BOOLEAN /\ in.facts => in.ontology
  /\ in.experience \in BOOLEAN
  /\ in.claims \in BOOLEAN
  /\ in.contradicts \in BOOLEAN
  /\ in.validation \in {"off", "shadow", "enforce"}
  /\ in.breaker \in Configs /\ in.line \in Lines

ASSUME InputsAssumption == (\A in \in Inputs : IsInput(in)) /\ NoJob \notin Inputs

VARIABLES pc,       \* [Workers -> "idle", "allow", "record", "decide", "done"]
          job,      \* [Workers -> input in hand]
          refused,  \* [Workers -> BOOLEAN]: Allow's answer, negated
          streak    \* [Lines -> Nat]: contradicting answers Allow let enforcement
                    \* withhold since the last trip or consistent answer (history)

judgeVars == <<pc, job, refused, streak>>
vars == <<breakerVars, judgeVars>>

-----------------------------------------------------------------------------
Delivers(decision)  == decision \in {"send", "send_and_handoff"}
Escalates(decision) == decision \in {"handoff", "send_and_handoff"}
Verdict(decision, reason) == [decision |-> decision, reason |-> reason]

Checked(in)    == in.ontology /\ in.validation # "off"
Violation(in)  == Checked(in) /\ in.contradicts
Enforces(in)   == in.validation = "enforce"

ConfidenceVerified   == 90
ConfidenceGrounded   == 75
ConfidenceExperience == 72

GroundedConfidence(in) ==
  CASE in.facts /\ Checked(in) /\ in.claims /\ ~Violation(in)
         -> Larger(in.retrieval, ConfidenceVerified)
    [] in.facts /\ ~(Checked(in) /\ in.claims /\ ~Violation(in))
         -> Larger(in.retrieval, ConfidenceGrounded)
    [] ~in.facts /\ in.experience -> Larger(in.retrieval, ConfidenceExperience)
    [] OTHER -> in.retrieval

\* Mutant: harm reports are one more keyword.
EvaluateHarmAsKeyword(in, confidence) ==
  IF "blocked" \in in.topics THEN Verdict("handoff", "blocked_topic")
  ELSE IF in.triage # "on" /\ in.topics # {} THEN Verdict("handoff", "keyword_match")
  ELSE IF confidence < in.threshold THEN Verdict("handoff", "low_confidence")
  ELSE Verdict("send", "confidence_ok")

\* EvaluateWithMode.
Evaluate(in, confidence) ==
  IF "blocked" \in in.topics THEN Verdict("handoff", "blocked_topic")
  ELSE IF "harm" \in in.topics THEN Verdict("send_and_handoff", "safety_incident")
  ELSE IF "funds" \in in.topics THEN Verdict("send_and_handoff", "funds_at_risk")
  ELSE IF in.triage # "on" /\ "keyword" \in in.topics THEN Verdict("handoff", "keyword_match")
  ELSE IF confidence < in.threshold THEN Verdict("handoff", "low_confidence")
  ELSE Verdict("send", "confidence_ok")

\* A tag or an announced transfer turns a send into send_and_handoff.
Escalated(in, v) ==
  IF in.escalation # "none" /\ v.decision = "send"
  THEN Verdict("send_and_handoff", "model_raised") ELSE v

Enforced(in, allowed, v) ==
  IF Enforces(in) /\ allowed /\ Violation(in)
  THEN Verdict("handoff", "claim_conflict") ELSE v

\* A blank answer is never delivered; an escalation keeps its own reason.
Withheld(in, v) ==
  IF in.blank /\ Delivers(v.decision)
  THEN Verdict("handoff", IF Escalates(v.decision) THEN v.reason ELSE "empty_answer")
  ELSE v

Judge(in, allowed) ==
  Withheld(in, Enforced(in, allowed, Escalated(in, Evaluate(in, GroundedConfidence(in)))))

Outcome(w) == Judge(job[w], ~refused[w])
Done(w) == pc[w] = "done"

-----------------------------------------------------------------------------
Init ==
  /\ BreakerInit
  /\ pc = [w \in Workers |-> "idle"]
  /\ job = [w \in Workers |-> NoJob]
  /\ refused = [w \in Workers |-> FALSE]
  /\ streak = [p \in Lines |-> 0]

Goto(w, step) == pc' = [pc EXCEPT ![w] = step]

Begin(w, in) ==
  /\ pc[w] = "idle"
  /\ job' = [job EXCEPT ![w] = in]
  /\ refused' = [refused EXCEPT ![w] = FALSE]
  /\ Goto(w, IF ~Checked(in) THEN "decide" ELSE IF Enforces(in) THEN "allow" ELSE "record")
  /\ UNCHANGED <<breakerVars, streak>>

CallAllow(w) ==
  LET in == job[w] IN
  /\ pc[w] = "allow"
  /\ Allow(in.line, in.breaker)
  /\ refused' = [refused EXCEPT ![w] = Refuses(in.line, in.breaker)]
  /\ streak' = [streak EXCEPT ![in.line] =
                  IF line'[in.line].trips > line[in.line].trips THEN 0
                  ELSE IF Violation(in) /\ ~refused'[w] THEN @ + 1 ELSE @]
  /\ Goto(w, "record")
  /\ UNCHANGED <<now, job>>

\* Mutant: only delivered answers are fed to the window.
CallRecordDelivered(w) ==
  LET in == job[w] IN
  /\ pc[w] = "record"
  /\ IF Violation(in) /\ ~refused[w] THEN UNCHANGED line
     ELSE Record(in.line, in.breaker, Violation(in))
  /\ streak' = [streak EXCEPT ![in.line] = IF Violation(in) THEN @ ELSE 0]
  /\ Goto(w, "decide")
  /\ UNCHANGED <<now, job, refused>>

CallRecord(w) ==
  LET in == job[w] IN
  /\ pc[w] = "record"
  /\ Record(in.line, in.breaker, Violation(in))
  /\ streak' = [streak EXCEPT ![in.line] = IF Violation(in) THEN @ ELSE 0]
  /\ Goto(w, "decide")
  /\ UNCHANGED <<now, job, refused>>

Decide(w) ==
  /\ pc[w] = "decide"
  /\ Goto(w, "done")
  /\ UNCHANGED <<breakerVars, job, refused, streak>>

Deliver(w) ==
  /\ Done(w)
  /\ Goto(w, "idle")
  /\ job' = [job EXCEPT ![w] = NoJob]
  /\ refused' = [refused EXCEPT ![w] = FALSE]
  /\ UNCHANGED <<breakerVars, streak>>

Next ==
  \/ Tick /\ UNCHANGED judgeVars
  \/ \E w \in Workers :
       \/ CallAllow(w) \/ CallRecord(w) \/ Decide(w) \/ Deliver(w)
       \/ \E in \in Inputs : Begin(w, in)

Spec == Init /\ [][Next]_vars

-----------------------------------------------------------------------------
(* judge.go:121-131, D18: a decision that delivers has something to        *)
(* deliver, on every delivery path.                                        *)
DeliversNotBlank ==
  \A w \in Workers : Done(w) => ~(Delivers(Outcome(w).decision) /\ job[w].blank)

(* D13: a harm report, money at risk, a tagged or an announced transfer    *)
(* brings a person in, whatever the triage mode, the scores, the ontology  *)
(* and the breaker say.                                                    *)
NeedsPerson(in) == in.topics \cap {"harm", "funds"} # {} \/ in.escalation # "none"
EscalationReachesHuman ==
  \A w \in Workers : Done(w) /\ NeedsPerson(job[w]) => Escalates(Outcome(w).decision)

\* The judgement of the same answer, had validation been in another mode.
InMode(in, mode) == Judge([in EXCEPT !.validation = mode], TRUE)
(* judge.go:114, the whole promise: shadow mode routes precisely as off.   *)
ShadowRoutesAsOff ==
  \A w \in Workers :
    Done(w) /\ job[w].validation = "shadow"
      => Outcome(w).decision = InMode(job[w], "off").decision

(* breaker.go:26: the breaker bounds the suppression enforcement causes.   *)
(* With an ontology that contradicts every answer, the answers withheld in *)
(* a row stay below the larger of the sample floor and the share of the    *)
(* window that trips, plus the workers that were already past Allow.       *)
Limit(config) ==
  LET c == Normalise(config) IN
    Larger(c.min, (c.rate * c.window + 99) \div 100) + Cardinality(Workers) - 1
StreakBounded ==
  \A p \in Lines : \E c \in Configs : streak[p] <= Limit(c)
=============================================================================
