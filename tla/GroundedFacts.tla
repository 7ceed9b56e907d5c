---------------------------- MODULE GroundedFacts ----------------------------
(***************************************************************************)
(* What a product line's ontology says, and how an answer's claims are     *)
(* compared with it.  A fact holds in a scope: a class of goods, which     *)
(* covers its subclasses, and a stage; the most specific fact decides.     *)
(* The model is shown every fact together with the tag to copy.            *)
(* The scan of the prose for denied services is left to AnswerJudge.       *)
(***************************************************************************)
EXTENDS Naturals, Sequences, FiniteSets
Seqs == INSTANCE SequencesExt

CONSTANT MaxFacts   \* bound: assertions of an ontology

ASSUME MaxFactsAssumption == MaxFacts \in Nat

Unset == ""   \* a class or stage that is not named
Classes == {"goods", "phone", "case"}
Stages == {"before", "after"}
NumberOf == [v \in {"7", "15", "120"} |-> CASE v = "7" -> 7 [] v = "15" -> 15 [] v = "120" -> 120]

\* A value as it is written: bare, by its label, or with a unit behind it.
Bare(v) == [v |-> v, as |-> "bare"]

VARIABLES
  ontology,   \* [parent, stages, props, facts], NoOntology before the first
  claims,     \* of the answer in hand: [prop, quals, value]
  found       \* what was reported of it: <<claim, kind>>

factVars == <<ontology, claims, found>>

NoOntology == [props |-> <<>>]

-----------------------------------------------------------------------------
(* An assertion is [class, stage, prop, values], of any class or stage     *)
(* where it leaves them unset.                                             *)
Scope(a) == [class |-> a.class, stage |-> a.stage]
NoScope == [class |-> Unset, stage |-> Unset]
Named(s) == {d \in DOMAIN s : s[d] # Unset}

\* The walk stops after 16 classes.
Ancestor(o, class) ==
  LET up[n \in 0..15] == IF n = 0 THEN class ELSE IF up[n - 1] = Unset THEN Unset ELSE o.parent[up[n - 1]]
  IN up
Hops(o, class, ancestor) == {n \in 0..15 : ancestor # Unset /\ Ancestor(o, class)[n] = ancestor}
AppliesTo(o, p, class) == Unset \in {o.props[p].domain, class} \/ Hops(o, class, o.props[p].domain) # {}

Canonical(prop, w) == IF w.as = "label" /\ w.v \in prop.labels THEN Bare(w.v) ELSE w
Among(values, w) == w.as = "bare" /\ w.v \in values

\* The unit is dropped where a number is read.
CheckValue(prop, written) ==
  LET w == Canonical(prop, written) IN
  /\ prop.values # {} => Among(prop.values, w)
  /\ prop.kind = "enum" => prop.values # {}
  /\ prop.kind \in {"integer", "percent"} =>
       w.as # "label" /\ w.v \in DOMAIN NumberOf /\ NumberOf[w.v] \in prop.min..prop.max

-----------------------------------------------------------------------------
(* What is refused when an ontology is loaded.                              *)
CheckNoCycle(o, c) == Unset \in {Ancestor(o, c)[n] : n \in 0..Cardinality(Classes)}
ValidClasses(o) == \A c \in Classes : o.parent[c] \in Classes \cup {Unset} /\ CheckNoCycle(o, c)
ValidDimensions(o) == o.stages # {} /\ o.stages \cap Classes = {}
ValidProperties(o) ==
  \A p \in DOMAIN o.props : LET prop == o.props[p] IN
    /\ prop.domain \in Classes \cup {Unset} /\ (prop.kind = "enum" => prop.values # {})
    /\ prop.functional => prop.card <= 1
    /\ prop.labels \subseteq prop.values
    /\ p \notin prop.requires /\ prop.requires \subseteq DOMAIN o.props
ValidAssertions(o) ==
  \A i \in DOMAIN o.facts : LET a == o.facts[i] IN
    /\ a.class \in Classes \cup {Unset} /\ a.stage \in o.stages \cup {Unset}
    /\ a.prop \in DOMAIN o.props
    /\ LET prop == o.props[a.prop] IN
       /\ AppliesTo(o, a.prop, a.class)
       /\ prop.functional => Len(a.values) = 1
       /\ Len(a.values) >= prop.card
       /\ \A k \in DOMAIN a.values : CheckValue(prop, Bare(a.values[k]))
Validate(o) == ValidClasses(o) /\ ValidDimensions(o) /\ ValidProperties(o) /\ ValidAssertions(o)

-----------------------------------------------------------------------------
FactsOf(o, p) == {i \in DOMAIN o.facts : o.facts[i].prop = p /\ o.facts[i].values # <<>>}
ValuesOf(o, i) == {o.facts[i].values[k] : k \in DOMAIN o.facts[i].values}

\* Two facts with the same values are one for an answer without a scope.
DistinctFactsOf(o, p) == {o.facts[i].values : i \in FactsOf(o, p)}

\* Mutant: a farther ancestor outweighs a nearer one.
HopsAdded(o, s, q) ==
  LET hops == Hops(o, q.class, s.class)
  IN 32 * Cardinality(Named(s)) + (IF s.class = Unset THEN 0 ELSE CHOOSE n \in hops : TRUE)

\* matchScope's score; a nearer ancestor is the more specific.
Score(o, s, q) ==
  LET hops == Hops(o, q.class, s.class)
  IN 32 * Cardinality(Named(s)) - (IF s.class = Unset THEN 0 ELSE CHOOSE n \in hops : TRUE)

\* A scope that names what the query leaves open does not match.
Matches(o, s, q) ==
  /\ Named(s) \subseteq Named(q)
  /\ s.class # Unset => Hops(o, q.class, s.class) # {}
  /\ s.stage # Unset => s.stage = q.stage

\* FactsOf's order among facts of one score.
Before(o, i, j) ==
  LET a == o.facts[i].class b == o.facts[j].class
  IN (a = Unset /\ b # Unset) \/ ((a = Unset <=> b = Unset) /\ i <= j)

\* The facts that decide, none or one.
AssertedValues(o, p, q) ==
  LET match == {i \in FactsOf(o, p) : Matches(o, Scope(o.facts[i]), q)}
      best == {i \in match : \A j \in match : Score(o, Scope(o.facts[j]), q) <= Score(o, Scope(o.facts[i]), q)}
  IN {i \in best : \A j \in best : Before(o, i, j)}

ResolveScopeValue(o, v) ==
  CASE v \in Classes -> "class" [] v \in o.stages -> "stage" [] OTHER -> "none"
Unknown(o, quals) ==
  \/ \E v \in quals : ResolveScopeValue(o, v) = "none"
  \/ \E v, w \in quals : v # w /\ ResolveScopeValue(o, v) = ResolveScopeValue(o, w)
Qualifier(o, quals, d) ==
  IF \E v \in quals : ResolveScopeValue(o, v) = d THEN CHOOSE v \in quals : ResolveScopeValue(o, v) = d ELSE Unset
ResolveScope(o, quals) == [class |-> Qualifier(o, quals, "class"), stage |-> Qualifier(o, quals, "stage")]

CompareToAssertions(o, c, q) ==
  LET w == Canonical(o.props[c.prop], c.value)
      decide == AssertedValues(o, c.prop, q)
      variants == DistinctFactsOf(o, c.prop)
  IN IF q # NoScope
     THEN IF \A i \in decide : Among(ValuesOf(o, i), w) THEN "none" ELSE "contradicts_assertion"
     ELSE IF Cardinality(variants) > 1 THEN "ambiguous_scope"
     ELSE IF \A vs \in variants : Among({vs[k] : k \in DOMAIN vs}, w) THEN "none" ELSE "contradicts_assertion"

\* The checks of one claim, in their order.
Kind(o, c) ==
  LET q == ResolveScope(o, c.quals) IN
  CASE c.prop \notin DOMAIN o.props -> "undeclared_property"
    [] c.prop \in DOMAIN o.props /\ Unknown(o, c.quals) -> "unknown_scope"
    [] c.prop \in DOMAIN o.props /\ ~Unknown(o, c.quals) ->
         IF ~AppliesTo(o, c.prop, q.class) THEN "domain_mismatch"
         ELSE IF ~CheckValue(o.props[c.prop], c.value) THEN "range"
         ELSE CompareToAssertions(o, c, q)

\* The values are compared as they were written.
FunctionalConflict(o, cs, i) ==
  /\ o.props[cs[i].prop].functional
  /\ \E j \in 1..i : \E k \in 1..i :
       /\ \A n \in {j, k} : cs[n].prop = cs[i].prop /\ Kind(o, cs[n]) = "none"
                            /\ ResolveScope(o, cs[n].quals) = ResolveScope(o, cs[i].quals)
       /\ cs[j].value # cs[k].value

CheckClaims(o, cs) ==
  {<<i, Kind(o, cs[i])>> : i \in {j \in DOMAIN cs : Kind(o, cs[j]) # "none"}} \cup
  {<<i, "functional_conflict">> : i \in {j \in DOMAIN cs : Kind(o, cs[j]) = "none" /\ FunctionalConflict(o, cs, j)}}

\* A companion is missing that is neither claimed nor, by any value stated for
\* it, in the text, which holds the claimed values.
CheckCompanions(o, cs) ==
  {<<i, "missing_companion">> : i \in {j \in DOMAIN cs :
     /\ cs[j].prop \in DOMAIN o.props
     /\ \E p \in o.props[cs[j].prop].requires :
          /\ \A k \in DOMAIN cs : cs[k].prop # p
          /\ \A f \in FactsOf(o, p), k \in DOMAIN cs : cs[k].value.v \notin ValuesOf(o, f)}}

\* Mutant: without the scope.
UnscopedTag(o, i, k) == [prop |-> o.facts[i].prop, quals |-> {}, value |-> Bare(o.facts[i].values[k])]

\* The tag rendered for one value of one fact.
Tag(o, i, k) == [prop |-> o.facts[i].prop, quals |-> {o.facts[i].class, o.facts[i].stage} \ {Unset},
                 value |-> Bare(o.facts[i].values[k])]

\* An answer that copies every tag with a scope.
Copied(o) == Seqs!SetToSeq({Tag(o, i, k) : i \in {j \in DOMAIN o.facts : Scope(o.facts[j]) # NoScope}, k \in {1}} \cup
                      {Tag(o, i, k) : i \in {j \in DOMAIN o.facts : Scope(o.facts[j]) # NoScope /\ Len(o.facts[j].values) = 2}, k \in {2}})

-----------------------------------------------------------------------------
(* One vocabulary that is sound, and ones with a mistake each.              *)
ReturnWindow == [domain |-> Unset, kind |-> "integer", values |-> {}, labels |-> {}, min |-> 1, max |-> 30,
                 functional |-> TRUE, card |-> 0, requires |-> {"seal"}]
Seal == [domain |-> Unset, kind |-> "enum", values |-> {"unopened"}, labels |-> {"unopened"}, min |-> 0, max |-> 0,
         functional |-> FALSE, card |-> 0, requires |-> {}]
Rate == [domain |-> "phone", kind |-> "percent", values |-> {}, labels |-> {}, min |-> 0, max |-> 100,
         functional |-> FALSE, card |-> 1, requires |-> {}]
Sound == [window |-> ReturnWindow, seal |-> Seal, rate |-> Rate]
Vocabularies == {Sound, [Sound EXCEPT !.window.card = 2], [Sound EXCEPT !.rate.domain = "nowhere"],
                 [Sound EXCEPT !.window.requires = {"window"}], [Sound EXCEPT !.seal.values = {}]}
Trees == {[goods |-> Unset, phone |-> "goods", case |-> "phone"], [goods |-> Unset, phone |-> "goods", case |-> "goods"],
          [goods |-> "case", phone |-> "goods", case |-> "phone"]}
Assertion ==
  [class : Classes \cup {Unset}, stage : {Unset, "before"}, prop : {"window"}, values : {<<"7">>, <<"15">>, <<"120">>, <<"7", "15">>}] \cup
  [class : Classes \cup {Unset}, stage : {Unset, "before"}, prop : {"rate"}, values : {<<"7", "15">>, <<>>}] \cup
  [class : {Unset}, stage : {Unset}, prop : {"seal"}, values : {<<"unopened">>}]
Drafts == [parent : Trees, stages : {Stages}, props : Vocabularies,
           facts : UNION {[1..n -> Assertion] : n \in 0..MaxFacts}]

Qualifiers == {{}, {"nowhere"}, {"phone", "case"}, {"goods"}, {"phone"}, {"case"}, {"before"}, {"after"}, {"case", "before"}}
Said ==
  [prop : {"window"}, quals : Qualifiers, value : {Bare("7"), [v |-> "15", as |-> "unit"], Bare("120")}] \cup
  [prop : {"rate"}, quals : Qualifiers, value : {Bare("7")}] \cup
  [prop : {"seal"}, quals : {{}}, value : {[v |-> "unopened", as |-> w] : w \in {"bare", "label"}}] \cup
  [prop : {"ghost"}, quals : {{}}, value : {Bare("7")}]

FactsInit == ontology = NoOntology /\ claims = <<>> /\ found = {}

\* ParseYAML, before a publication and when the router loads it.
LoadOntology ==
  /\ ontology = NoOntology
  /\ \E o \in Drafts : Validate(o) /\ ontology' = o
  /\ UNCHANGED <<claims, found>>

\* ParseClaims and the checks of the answer.
CheckAnswer ==
  /\ ontology # NoOntology /\ claims = <<>>
  /\ \E cs \in {<<c>> : c \in Said} \cup {Copied(ontology)} \cup
               {<<c, [c EXCEPT !.value = Bare("15")]>> : c \in {d \in Said : d.prop = "window" /\ d.value = Bare("7")}} :
       claims' = cs /\ found' = CheckClaims(ontology, cs) \cup CheckCompanions(ontology, cs)
  /\ UNCHANGED ontology

FactsNext == LoadOntology \/ CheckAnswer
FactsSpec == FactsInit /\ [][FactsNext]_factVars

-----------------------------------------------------------------------------
MoreSpecific(o, a, b) ==
  /\ Scope(a) # Scope(b) /\ b.stage \in {Unset, a.stage}
  /\ b.class # Unset => Hops(o, a.class, b.class) # {}

\* Of the facts that cover a claim, those that no other covering fact refines.
Closest(o, c) ==
  LET q == ResolveScope(o, c.quals)
      covering == {i \in FactsOf(o, c.prop) : MoreSpecific(o, q, o.facts[i]) \/ Scope(o.facts[i]) = q}
  IN {i \in covering : \A j \in covering : ~MoreSpecific(o, o.facts[j], o.facts[i])}

\* No two facts of one scope differ.
Agreed(o) == \A i, j \in DOMAIN o.facts :
  o.facts[i].prop = o.facts[j].prop /\ Scope(o.facts[i]) = Scope(o.facts[j]) => ValuesOf(o, i) = ValuesOf(o, j)

\* A claim about a situation is judged by a fact that no other fact of the
\* ontology refines there, whatever the order the facts were written in.
ClosestFactDecides(c) ==
  LET w == Canonical(ontology.props[c.prop], c.value)
  IN Closest(ontology, c) # {} =>
       \E i \in Closest(ontology, c) : (<<1, "contradicts_assertion">> \in found) = ~Among(ValuesOf(ontology, i), w)

\* The answer of a model is judged by the facts it was given: a claim about a
\* situation by a fact that no other one refines there, whatever order they were
\* written in; a claim without a situation passes only if it is true in every
\* one; and an answer that copies the tags it was shown is not reported at all,
\* unless two facts of one scope differ or a companion was never stated.
FactsDecide ==
  ontology # NoOntology /\ claims # <<>> =>
    /\ (Len(claims) = 1 /\ claims[1].quals # {} /\ Kind(ontology, claims[1]) \in {"none", "contradicts_assertion"})
         => ClosestFactDecides(claims[1])
    /\ (claims[1].quals = {} /\ \A f \in found : f[1] # 1 \/ f[2] = "missing_companion")
         => \A i \in FactsOf(ontology, claims[1].prop) :
              Among(ValuesOf(ontology, i), Canonical(ontology.props[claims[1].prop], claims[1].value))
    /\ claims = Copied(ontology) /\ Agreed(ontology) => \A f \in found : f[2] = "missing_companion"
=============================================================================
