---------------------------- MODULE MCAnswerJudge ----------------------------
(* Inputs for two questions: every combination of signals judged by one     *)
(* worker, and enforcing product lines judged by several workers at once.   *)
EXTENDS AnswerJudge, TLC

CONSTANTS shop, w1, w2, nojob

Symmetry == Permutations(Workers)

Cfg(rate, min, window) ==
  [disabled |-> FALSE, rate |-> rate, min |-> min, window |-> window, cooldown |-> 1]
SmallDefault == Cfg(50, 2, 4)
OneConfig == {Cfg(50, 2, 4)}
Touchy == {Cfg(100, 1, 1)}

Evidence ==
  {e \in [ontology : BOOLEAN, facts : BOOLEAN, experience : BOOLEAN, claims : BOOLEAN,
          contradicts : BOOLEAN, validation : {"off", "shadow", "enforce"}] :
     /\ e.facts \/ e.claims \/ e.contradicts => e.ontology
     /\ ~(e.facts /\ e.experience)}
AnySignals ==
  {[topics |-> t, triage |-> m, blank |-> b, escalation |-> x, retrieval |-> r,
    threshold |-> h, ontology |-> e.ontology, facts |-> e.facts,
    experience |-> e.experience, claims |-> e.claims, contradicts |-> e.contradicts,
    validation |-> e.validation, breaker |-> c, line |-> shop] :
     t \in {{}, {"blocked"}, {"harm"}, {"funds"}, {"harm", "keyword"}},
     m \in {"off", "on"}, b \in BOOLEAN, x \in {"none", "tag", "prose"},
     r \in {50, 95}, h \in {73, 80}, e \in Evidence, c \in Configs}

Checkable(contradicts, validation, breaker) ==
  [topics |-> {}, triage |-> "on", blank |-> FALSE, escalation |-> "none",
   retrieval |-> 95, threshold |-> 73, ontology |-> TRUE, facts |-> TRUE,
   experience |-> FALSE, claims |-> TRUE, contradicts |-> contradicts,
   validation |-> validation, breaker |-> breaker, line |-> shop]
\* What the query and the answer ask for besides, beside what the checks say.
Asks == {[topics |-> {}, blank |-> FALSE, escalation |-> "none"],
         [topics |-> {"harm"}, blank |-> FALSE, escalation |-> "none"],
         [topics |-> {"blocked"}, blank |-> FALSE, escalation |-> "none"],
         [topics |-> {}, blank |-> FALSE, escalation |-> "prose"],
         [topics |-> {}, blank |-> TRUE, escalation |-> "tag"]}
Enforcing ==
  {[Checkable(e[1], e[2], c) EXCEPT !.topics = a.topics, !.blank = a.blank, !.escalation = a.escalation] :
     e \in (BOOLEAN \X {"shadow", "enforce"}) \cup {<<TRUE, "off">>}, a \in Asks, c \in Configs}
==============================================================================
