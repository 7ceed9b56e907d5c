------------------------- MODULE AnswerJudgeProofs -------------------------
(***************************************************************************)
(* The decision chain for any inputs, settings, workers and product lines: *)
(* what it promises about the decision, and that the workers between them  *)
(* use the breaker as Breaker specifies, so that its theorems apply.       *)
(* Then the facts an answer is compared with: which of them decides, and   *)
(* that an answer copied from them passes.                                 *)
(***************************************************************************)
EXTENDS AnswerJudge, GroundedFacts, BreakerProofs

\* A worker inside the chain has a real input in hand.
JobOK == /\ pc \in [Workers -> {"idle", "allow", "record", "decide", "done"}]
         /\ job \in [Workers -> Inputs \cup {NoJob}]
         /\ \A w \in Workers : pc[w] # "idle" => job[w] \in Inputs

LEMMA JobInit == Init => JobOK
  BY DEF Init, JobOK

LEMMA JobNext == JobOK /\ [Next]_vars => JobOK'
<1> SUFFICES ASSUME JobOK, [Next]_vars PROVE JobOK'
  OBVIOUS
<1> USE DEF JobOK, Goto
<1>1. CASE Tick /\ UNCHANGED judgeVars
  BY <1>1 DEF judgeVars
<1>2. ASSUME NEW w \in Workers, NEW in \in Inputs, Begin(w, in) PROVE JobOK'
  BY <1>2 DEF Begin
<1>3. ASSUME NEW w \in Workers, CallAllow(w) PROVE JobOK'
  BY <1>3 DEF CallAllow
<1>4. ASSUME NEW w \in Workers, CallRecord(w) PROVE JobOK'
  BY <1>4 DEF CallRecord
<1>5. ASSUME NEW w \in Workers, Decide(w) PROVE JobOK'
  BY <1>5 DEF Decide
<1>6. ASSUME NEW w \in Workers, Deliver(w) PROVE JobOK'
  BY <1>6 DEF Deliver
<1>7. CASE UNCHANGED vars
  BY <1>7 DEF vars, judgeVars
<1> QED
  BY <1>1, <1>2, <1>3, <1>4, <1>5, <1>6, <1>7 DEF Next

LEMMA JobInvariant == Spec => []JobOK
  BY JobInit, JobNext, PTL DEF Spec

-----------------------------------------------------------------------------
(* The chain on one input.                                                 *)
LEMMA JudgeBlank ==
  ASSUME NEW in, in.blank, NEW allowed
  PROVE  ~Delivers(Judge(in, allowed).decision)
  BY DEF Judge, Withheld, Verdict, Delivers

LEMMA EvaluateEscalates ==
  ASSUME NEW in, NEW confidence, in.topics \cap {"harm", "funds"} # {}
  PROVE  Escalates(Evaluate(in, confidence).decision)
  BY DEF Evaluate, Verdict, Escalates

LEMMA EvaluateDecides ==
  ASSUME NEW in, NEW confidence
  PROVE  Evaluate(in, confidence).decision \in {"send", "send_and_handoff", "handoff"}
  BY DEF Evaluate, Verdict

LEMMA EscalatedEscalates ==
  ASSUME NEW in, NeedsPerson(in), NEW confidence
  PROVE  Escalates(Escalated(in, Evaluate(in, confidence)).decision)
  BY EvaluateEscalates, EvaluateDecides DEF NeedsPerson, Escalated, Verdict, Escalates

\* Enforcement and the blank answer replace a decision by a handoff only.
LEMMA JudgeEscalates ==
  ASSUME NEW in, NeedsPerson(in), NEW allowed
  PROVE  Escalates(Judge(in, allowed).decision)
<1> DEFINE v == Escalated(in, Evaluate(in, GroundedConfidence(in)))
<1>1. Escalates(v.decision)
  BY EscalatedEscalates
<1> HIDE DEF v
<1>2. Escalates(Enforced(in, allowed, v).decision)
  BY <1>1 DEF Enforced, Verdict, Escalates
<1>3. Escalates(Withheld(in, Enforced(in, allowed, v)).decision)
  BY <1>2 DEF Withheld, Verdict, Escalates
<1> QED
  BY <1>3 DEF Judge, v

(* A delivered answer has text, whatever the breaker and the settings say. *)
THEOREM NeverBlank == Spec => []DeliversNotBlank
<1>1. DeliversNotBlank
  BY JudgeBlank DEF DeliversNotBlank, Outcome
<1> QED
  BY <1>1, PTL

(* Harm, money at risk and an asked-for transfer always reach a person.    *)
THEOREM AlwaysEscalated == Spec => []EscalationReachesHuman
<1>1. EscalationReachesHuman
  BY JudgeEscalates DEF EscalationReachesHuman, Outcome
<1> QED
  BY <1>1, PTL

-----------------------------------------------------------------------------
LEMMA BreakerSteps == JobOK /\ [Next]_vars => [BreakerNext]_breakerVars
<1> SUFFICES ASSUME JobOK, [Next]_vars PROVE [BreakerNext]_breakerVars
  OBVIOUS
<1>1. CASE Tick /\ UNCHANGED judgeVars
  BY <1>1 DEF BreakerNext
<1>2. ASSUME NEW w \in Workers, NEW in \in Inputs, Begin(w, in) PROVE UNCHANGED breakerVars
  BY <1>2 DEF Begin
<1>3. ASSUME NEW w \in Workers, CallAllow(w) PROVE BreakerNext
  <2>1. PICK in \in Inputs : in = job[w]
    BY <1>3 DEF CallAllow, JobOK
  <2>2. in.line \in Lines /\ in.breaker \in Configs
    BY <2>1, InputsAssumption DEF IsInput
  <2>3. Allow(in.line, in.breaker) /\ UNCHANGED now
    BY <1>3, <2>1 DEF CallAllow, Allow
  <2> QED
    BY <2>2, <2>3 DEF BreakerNext
<1>4. ASSUME NEW w \in Workers, CallRecord(w) PROVE BreakerNext
  <2>1. PICK in \in Inputs : in = job[w]
    BY <1>4 DEF CallRecord, JobOK
  <2>2. in.line \in Lines /\ in.breaker \in Configs /\ Violation(in) \in BOOLEAN
    BY <2>1, InputsAssumption DEF IsInput, Violation, Checked
  <2>3. Record(in.line, in.breaker, Violation(in)) /\ UNCHANGED now
    BY <1>4, <2>1 DEF CallRecord, Record
  <2> QED
    BY <2>2, <2>3 DEF BreakerNext
<1>5. ASSUME NEW w \in Workers, Decide(w) PROVE UNCHANGED breakerVars
  BY <1>5 DEF Decide
<1>6. ASSUME NEW w \in Workers, Deliver(w) PROVE UNCHANGED breakerVars
  BY <1>6 DEF Deliver
<1>7. CASE UNCHANGED vars
  BY <1>7 DEF vars
<1> QED
  BY <1>1, <1>2, <1>3, <1>4, <1>5, <1>6, <1>7 DEF Next

(* Every step of the workers is a step of the breaker's specification, so  *)
(* BreakerTypes, CountExact and SlidesAsWindow hold under every            *)
(* interleaving of the two calls of each chain.                            *)
THEOREM UsesBreaker == Spec => BreakerSpec
<1>1. Init => BreakerInit
  BY DEF Init
<1> QED
  BY <1>1, BreakerSteps, JobInvariant, PTL DEF Spec, BreakerSpec

-----------------------------------------------------------------------------
(* How many answers in a row enforcement withholds.  The slots of the ring *)
(* by age: the youngest, written last, is 1.                               *)
AgeOf(l, i) == IF i < l.next THEN l.next - i ELSE l.next + l.size - i

\* The r youngest outcomes are all suppressed.
Run(l, r) == r <= l.filled /\ \A i \in 0..(l.size - 1) : AgeOf(l, i) <= r => l.outcomes[i]

LEMMA LineParts ==
  ASSUME NEW l, LineInv(l)
  PROVE  /\ l.size \in Nat \ {0} /\ l.next \in 0..(l.size - 1) /\ l.filled \in 0..l.size
         /\ l.outcomes \in [0..(l.size - 1) -> BOOLEAN] /\ l.suppressed \in Int
         /\ l.trips \in Nat
         /\ l.filled < l.size => l.next = l.filled
         /\ l.suppressed = Cardinality(Counted(l))
  BY DEF LineInv, LineOK, LinesOfSize

\* A run is part of the count.
LEMMA RunIsCounted ==
  ASSUME NEW l, LineInv(l), NEW r \in Nat, Run(l, r)
  PROVE  r <= l.suppressed
<1> DEFINE young == (IF r <= l.next THEN l.next - r ELSE 0)..(l.next - 1)
           old == (IF r <= l.next THEN l.size ELSE l.next + l.size - r)..(l.size - 1)
<1>1. /\ l.size \in Nat \ {0} /\ l.next \in 0..(l.size - 1) /\ l.filled \in 0..l.size
      /\ l.filled < l.size => l.next = l.filled
      /\ l.suppressed = Cardinality(Counted(l)) /\ r <= l.filled
  BY LineParts DEF Run
<1>2. IsFiniteSet(young) /\ Cardinality(young) = IF r <= l.next THEN r ELSE l.next
  <2> DEFINE a == IF r <= l.next THEN l.next - r ELSE 0
             b == l.next - 1
  <2>1. a \in Int /\ b \in Int /\ l.next \in Nat /\ young = a..b
    BY <1>1
  <2>2. (IF a > b THEN 0 ELSE b - a + 1) = IF r <= l.next THEN r ELSE l.next
    BY <1>1
  <2> HIDE DEF a, b, young
  <2>3. IsFiniteSet(a..b) /\ Cardinality(a..b) = IF a > b THEN 0 ELSE b - a + 1
    BY <2>1, FS_Interval
  <2> QED BY <2>1, <2>2, <2>3
<1>3. IsFiniteSet(old) /\ Cardinality(old) = IF r <= l.next THEN 0 ELSE r - l.next
  <2> DEFINE a == IF r <= l.next THEN l.size ELSE l.next + l.size - r
             b == l.size - 1
  <2>1. a \in Int /\ b \in Int /\ old = a..b
    BY <1>1
  <2>2. (IF a > b THEN 0 ELSE b - a + 1) = IF r <= l.next THEN 0 ELSE r - l.next
    BY <1>1
  <2> HIDE DEF a, b, old
  <2>3. IsFiniteSet(a..b) /\ Cardinality(a..b) = IF a > b THEN 0 ELSE b - a + 1
    BY <2>1, FS_Interval
  <2> QED BY <2>1, <2>2, <2>3
<1>4. young \cap old = {}
  BY <1>1
<1>5. IsFiniteSet(young \cup old) /\ Cardinality(young \cup old) = r
  <2>1. Cardinality(young \cap old) = 0
    BY <1>4, FS_EmptySet
  <2> HIDE DEF young, old
  <2>2. IsFiniteSet(young \cup old)
        /\ Cardinality(young \cup old) = Cardinality(young) + Cardinality(old) - Cardinality(young \cap old)
    BY <1>2, <1>3, FS_Union
  <2> QED BY <1>1, <1>2, <1>3, <2>1, <2>2
<1>6. young \cup old \subseteq Counted(l)
  <2>1. ASSUME NEW i \in young \cup old
        PROVE  i \in 0..(l.size - 1) /\ AgeOf(l, i) <= r /\ i \in 0..(l.filled - 1)
    BY <1>1 DEF AgeOf
  <2> QED BY <2>1 DEF Run, Counted
<1>7. IsFiniteSet(Counted(l))
  BY <1>1, CountedFinite
<1> HIDE DEF young, old
<1>8. Cardinality(young \cup old) <= Cardinality(Counted(l))
  BY <1>6, <1>7, FS_Subset
<1> QED BY <1>1, <1>5, <1>8

\* One more suppressed outcome makes the run longer, until it fills the ring.
LEMMA RunGrows ==
  ASSUME NEW l, LineInv(l), NEW r \in Nat, Run(l, r)
  PROVE  Run(Pushed(l, TRUE), IF r < l.size THEN r + 1 ELSE l.size)
<1> DEFINE p == Pushed(l, TRUE)
<1>1. /\ l.size \in Nat \ {0} /\ l.next \in 0..(l.size - 1) /\ l.filled \in 0..l.size
      /\ l.outcomes \in [0..(l.size - 1) -> BOOLEAN] /\ r <= l.filled
  BY LineParts DEF Run
<1>2. /\ p.size = l.size /\ p.outcomes = [l.outcomes EXCEPT ![l.next] = TRUE]
      /\ p.next = IF l.next + 1 = l.size THEN 0 ELSE l.next + 1
      /\ p.filled = IF l.filled < l.size THEN l.filled + 1 ELSE l.filled
  BY <1>1, NextSlot DEF Pushed
<1> HIDE DEF p
<1>3. ASSUME NEW i \in 0..(l.size - 1), AgeOf(p, i) <= r + 1 PROVE p.outcomes[i]
  <2>1. CASE i = l.next
    BY <1>1, <1>2, <2>1
  <2>2. CASE i # l.next
    <3>1. AgeOf(l, i) <= r
      <4>1. AgeOf(p, i) = AgeOf(l, i) + 1
        <5>1. CASE l.next + 1 = l.size
          BY <1>1, <1>2, <2>2, <5>1 DEF AgeOf
        <5>2. CASE l.next + 1 # l.size
          <6>1. p.next = l.next + 1 /\ p.size = l.size
            BY <1>1, <1>2, <5>2
          <6>2. CASE i < l.next
            BY <1>1, <6>1, <6>2 DEF AgeOf
          <6>3. CASE l.next < i
            BY <1>1, <6>1, <6>3 DEF AgeOf
          <6> QED BY <1>1, <2>2, <6>2, <6>3
        <5> QED BY <5>1, <5>2
      <4>2. AgeOf(l, i) \in Int
        BY <1>1 DEF AgeOf
      <4> QED BY <1>3, <4>1, <4>2
    <3> QED BY <1>1, <1>2, <2>2, <3>1 DEF Run
  <2> QED BY <2>1, <2>2
<1>4. CASE r < l.size
  <2>1. r + 1 <= p.filled
    BY <1>1, <1>2, <1>4
  <2>2. Run(p, r + 1)
    BY <1>2, <1>3, <2>1 DEF Run
  <2> QED BY <1>4, <2>2 DEF p
<1>5. CASE ~(r < l.size)
  <2>1. r = l.size /\ l.filled = l.size
    BY <1>1, <1>5
  <2>2. ASSUME NEW i \in 0..(l.size - 1) PROVE AgeOf(p, i) <= r + 1
    BY <1>1, <1>2, <2>1 DEF AgeOf
  <2>3. l.size <= p.filled
    BY <1>1, <1>2, <2>1
  <2>4. \A i \in 0..(p.size - 1) : p.outcomes[i]
    BY <1>2, <1>3, <2>2
  <2>5. Run(p, l.size)
    BY <2>3, <2>4 DEF Run
  <2> QED BY <1>5, <2>5 DEF p
<1> QED BY <1>4, <1>5

LEMMA NoRun ==
  ASSUME NEW l, LineInv(l)
  PROVE  Run(l, 0)
<1>1. \A i \in 0..(l.size - 1) : AgeOf(l, i) >= 1
  BY LineParts DEF AgeOf
<1> QED BY <1>1, LineParts DEF Run, AgeOf

-----------------------------------------------------------------------------
\* The run that trips the breaker: below it Allow lets an answer through.
Share(config) == LET c == Normalise(config) IN Larger(c.min, (c.rate * c.window + 99) \div 100)

LEMMA ShareOf ==
  ASSUME NEW rate \in 1..100, NEW window \in Nat, NEW filled \in 0..window, NEW r \in Nat,
         100 * r < rate * filled
  PROVE  r + 1 <= (rate * window + 99) \div 100
<1>1. rate * filled <= rate * window /\ rate * filled \in Nat /\ rate * window \in Nat
  BY Z3
<1>2. PICK x \in Nat : x = rate * window
  BY <1>1
<1>3. PICK y \in Nat : y = rate * filled
  BY <1>1
<1>4. 100 * r < x
  BY <1>1, <1>2, <1>3
<1>5. r + 1 <= (x + 99) \div 100
  BY <1>4
<1> QED BY <1>2, <1>5

LEMMA RunBelowShare ==
  ASSUME NEW config \in Configs, NEW l, LineInv(l), l.size = Normalise(config).window,
         ~MustTrip(l, Normalise(config)), NEW r \in Nat, Run(l, r)
  PROVE  r + 1 <= Share(config) /\ r < l.size
<1> DEFINE c == Normalise(config)
<1>1. /\ c.rate \in 1..100 /\ c.min \in Nat \ {0} /\ c.window \in Nat \ {0} /\ c.min <= c.window
  BY NormaliseUsable
<1>2. l.filled \in 0..l.size /\ l.suppressed \in Int /\ r <= l.filled /\ r <= l.suppressed
  BY LineParts, RunIsCounted DEF Run
<1> HIDE DEF c
<1>3. l.size = c.window /\ ~MustTrip(l, c) /\ Share(config) = Larger(c.min, (c.rate * c.window + 99) \div 100)
  BY DEF c, Share
<1>4. CASE l.filled < c.min
  <2>1. r + 1 <= c.min /\ r < l.size
    BY <1>1, <1>2, <1>3, <1>4
  <2>2. PICK d \in Int : d = (c.rate * c.window + 99) \div 100
    BY <1>1
  <2> QED BY <1>1, <1>3, <2>1, <2>2 DEF Larger
<1>5. CASE ~(l.filled < c.min)
  <2>1. ~(100 * l.suppressed >= c.rate * l.filled)
    BY <1>1, <1>2, <1>3, <1>5 DEF MustTrip
  <2>2. PICK y \in Nat : y = c.rate * l.filled
    BY <1>1, <1>2
  <2>3. 100 * r < c.rate * l.filled
    BY <1>2, <2>1, <2>2
  <2>4. r + 1 <= (c.rate * c.window + 99) \div 100
    BY <1>1, <1>2, <1>3, <2>3, ShareOf
  <2>5. r < l.size
    <3>1. c.rate * l.filled <= 100 * l.filled
      BY <1>1, <1>2, Z3
    <3>2. l.filled \in Nat /\ l.size \in Nat /\ l.filled <= l.size
      BY <1>1, <1>2, <1>3
    <3>3. y <= 100 * l.filled /\ 100 * r < y
      BY <2>2, <2>3, <3>1
    <3> HIDE DEF c
    <3> QED BY <3>2, <3>3
  <2>6. PICK d \in Int : d = (c.rate * c.window + 99) \div 100
    BY <1>1
  <2> QED BY <1>1, <1>3, <2>4, <2>5, <2>6 DEF Larger
<1> QED BY <1>4, <1>5

-----------------------------------------------------------------------------
(* The workers.                                                            *)
ChainTypes ==
  /\ JobOK
  /\ refused \in [Workers -> BOOLEAN] /\ streak \in [Lines -> Nat]
  /\ \A w \in Workers : pc[w] = "allow" => Enforces(job[w])

LEMMA ChainStarts == Init => ChainTypes
  BY JobInit DEF Init, ChainTypes

LEMMA ChainNext == ChainTypes /\ [Next]_vars => ChainTypes'
<1> SUFFICES ASSUME ChainTypes, [Next]_vars PROVE ChainTypes'
  OBVIOUS
<1>0. JobOK'
  BY JobNext DEF ChainTypes
<1> USE <1>0 DEF ChainTypes, JobOK, Goto
<1>1. CASE Tick /\ UNCHANGED judgeVars
  BY <1>1 DEF judgeVars
<1>2. ASSUME NEW w \in Workers, NEW in \in Inputs, Begin(w, in) PROVE ChainTypes'
  BY <1>2 DEF Begin
<1>3. ASSUME NEW w \in Workers, CallAllow(w) PROVE ChainTypes'
  <2>1. job[w].line \in Lines /\ streak[job[w].line] \in Nat
    BY <1>3, InputsAssumption DEF CallAllow, IsInput
  <2>2. streak' \in [Lines -> Nat]
    BY <1>3, <2>1 DEF CallAllow
  <2>3. refused' \in [Workers -> BOOLEAN]
    BY <1>3 DEF CallAllow, Refuses
  <2> QED BY <1>3, <2>2, <2>3 DEF CallAllow
<1>4. ASSUME NEW w \in Workers, CallRecord(w) PROVE ChainTypes'
  <2>1. job[w].line \in Lines /\ streak[job[w].line] \in Nat
    BY <1>4, InputsAssumption DEF CallRecord, IsInput
  <2> QED BY <1>4, <2>1 DEF CallRecord
<1>5. ASSUME NEW w \in Workers, Decide(w) PROVE ChainTypes'
  BY <1>5 DEF Decide
<1>6. ASSUME NEW w \in Workers, Deliver(w) PROVE ChainTypes'
  BY <1>6 DEF Deliver
<1>7. CASE UNCHANGED vars
  BY <1>7 DEF vars, judgeVars
<1> HIDE DEF ChainTypes
<1> QED
  BY <1>1, <1>2, <1>3, <1>4, <1>5, <1>6, <1>7 DEF Next

\* The workers that Allow let withhold an answer, and that have yet to record it.
InFlight(p) == {w \in Workers : /\ pc[w] = "record" /\ job[w].line = p /\ ~refused[w]
                                /\ Enforces(job[w]) /\ Violation(job[w])}

\* The answers withheld in a row are in the run of the ring or in flight; once
\* the run fills the ring the next Allow trips.
Explained(l, n, k) ==
  \/ Run(l, l.size)
  \/ \E r \in Nat : Run(l, r) /\ n <= r + k
StreakOK(p, config) ==
  streak[p] # 0 => /\ line[p].size = Normalise(config).window /\ streak[p] <= Limit(config)
                   /\ Explained(line[p], streak[p], Cardinality(InFlight(p)))

\* Each line keeps one configuration with the breaker on.
Steady(conf) ==
  /\ conf \in [Lines -> Configs] /\ IsFiniteSet(Workers)
  /\ \A in \in Inputs : in.breaker = conf[in.line] /\ ~in.breaker.disabled

LEMMA FlightCount ==
  ASSUME IsFiniteSet(Workers), NEW p
  PROVE  /\ IsFiniteSet(InFlight(p)) /\ Cardinality(InFlight(p)) \in Nat
         /\ Cardinality(InFlight(p)) <= Cardinality(Workers) /\ Cardinality(Workers) \in Nat
<1>1. InFlight(p) \in SUBSET Workers
  BY DEF InFlight
<1> HIDE DEF InFlight
<1> QED BY <1>1, FS_Subset, FS_CardinalityType

\* A line that is left alone.
LEMMA StreakStays ==
  ASSUME NEW p, NEW config, StreakOK(p, config), streak'[p] = streak[p], line'[p] = line[p],
         InFlight(p)' = InFlight(p)
  PROVE  StreakOK(p, config)'
<1>1. Cardinality(InFlight(p))' = Cardinality(InFlight(p))
  OBVIOUS
<1> HIDE DEF InFlight
<1> QED BY <1>1 DEF StreakOK

\* Allow lets w withhold one more.
LEMMA StreakGrows ==
  ASSUME NEW p \in Lines, NEW config \in Configs, StreakOK(p, config), streak \in [Lines -> Nat],
         IsFiniteSet(Workers), NEW w \in Workers, w \notin InFlight(p),
         InFlight(p)' = InFlight(p) \cup {w}, streak'[p] = streak[p] + 1,
         line'[p] = Sized(line[p], Normalise(config).window), LineInv(line[p]),
         ~MustTrip(line'[p], Normalise(config))
  PROVE  StreakOK(p, config)'
<1> DEFINE c == Normalise(config)
           k == Cardinality(InFlight(p))
           l == line'[p]
           n == streak[p]
<1>1. c.window \in Nat \ {0}
  BY NormaliseUsable
<1>2. LineInv(l) /\ l.size = c.window
  <2>1. LineInv(Sized(line[p], c.window))
    BY <1>1, SizedInv
  <2>2. Sized(line[p], c.window).size = c.window
    BY DEF Sized, Emptied
  <2> QED BY <2>1, <2>2
<1>3. /\ k \in Nat /\ n \in Nat /\ Cardinality(InFlight(p)') = k + 1
      /\ k + 1 <= Cardinality(Workers) /\ Cardinality(Workers) \in Nat
  <2>1. IsFiniteSet(InFlight(p)) /\ k \in Nat /\ n \in Nat /\ Cardinality(Workers) \in Nat
    BY FlightCount
  <2>2. Cardinality(InFlight(p) \cup {w}) = k + 1
    <3> HIDE DEF InFlight
    <3> QED BY <2>1, FS_AddElement
  <2>3. InFlight(p) \cup {w} \in SUBSET Workers
    BY DEF InFlight
  <2>4. Cardinality(InFlight(p) \cup {w}) <= Cardinality(Workers)
    <3> HIDE DEF InFlight
    <3> QED BY <2>3, FS_Subset
  <2> QED BY <2>1, <2>2, <2>4
<1>4. \E r \in Nat : Run(l, r) /\ n <= r + k
  <2>1. CASE n = 0
    BY <1>2, <1>3, <2>1, NoRun
  <2>2. CASE n # 0
    <3>1. line[p].size = c.window /\ Explained(line[p], n, k)
      BY <2>2 DEF StreakOK
    <3>2. l = line[p]
      BY <3>1 DEF Sized
    <3>3. ~Run(l, l.size)
      <4>1. l.size \in Nat
        BY <1>1, <1>2
      <4> QED BY <1>2, <4>1, RunBelowShare
    <3> QED BY <3>1, <3>2, <3>3 DEF Explained
  <2> QED BY <2>1, <2>2
<1>5. PICK r \in Nat : Run(l, r) /\ n <= r + k
  BY <1>4
<1>6. r + 1 <= Share(config)
  BY <1>2, <1>5, RunBelowShare
<1>7. n + 1 <= Limit(config)
  <2>1. Limit(config) = Share(config) + Cardinality(Workers) - 1
    BY DEF Limit, Share
  <2>2. Share(config) \in Int
    BY NormaliseUsable DEF Share, Larger
  <2> HIDE DEF k, n
  <2> QED BY <1>3, <1>5, <1>6, <2>1, <2>2
<1>8. n + 1 <= r + (k + 1)
  <2> HIDE DEF k, n
  <2> QED BY <1>3, <1>5
<1>9. StreakOK(p, config)'
  <2>1. streak'[p] = n + 1 /\ Cardinality(InFlight(p)') = k + 1
    BY <1>3
  <2> HIDE DEF k, n
  <2>2. Explained(l, n + 1, k + 1)
    BY <1>5, <1>8 DEF Explained
  <2> QED BY <1>2, <1>7, <2>1, <2>2 DEF StreakOK
<1> QED BY <1>9

\* w records the answer it withheld, or one that another mode let pass.
LEMMA StreakRecorded ==
  ASSUME NEW p \in Lines, NEW config \in Configs, StreakOK(p, config), streak \in [Lines -> Nat],
         IsFiniteSet(Workers), NEW w \in Workers, InFlight(p)' = InFlight(p) \ {w},
         streak'[p] = streak[p], LineInv(line[p]),
         line'[p] = Pushed(Sized(line[p], Normalise(config).window), TRUE)
  PROVE  StreakOK(p, config)'
<1> SUFFICES ASSUME streak[p] # 0 PROVE StreakOK(p, config)'
  BY DEF StreakOK
<1> DEFINE l == line[p]
           k == Cardinality(InFlight(p))
           n == streak[p]
           m == Cardinality(InFlight(p)')
<1>1. l.size = Normalise(config).window /\ n <= Limit(config) /\ Explained(l, n, k)
  BY DEF StreakOK
<1>2. line'[p] = Pushed(l, TRUE) /\ line'[p].size = l.size
  <2>1. Sized(l, Normalise(config).window) = l
    BY <1>1 DEF Sized
  <2>2. line'[p] = Pushed(l, TRUE)
    <3> HIDE DEF l
    <3> QED BY <2>1 DEF l
  <2> QED BY <2>2 DEF Pushed
<1>3. n \in Nat /\ k \in Nat /\ m \in Nat /\ k <= m + 1
  <2>1. IsFiniteSet(InFlight(p)) /\ k \in Nat
    BY FlightCount
  <2> HIDE DEF InFlight
  <2>2. IsFiniteSet(InFlight(p) \ {w}) /\ Cardinality(InFlight(p) \ {w}) \in {k, k - 1}
    BY <2>1, FS_RemoveElement
  <2>3. Cardinality(InFlight(p) \ {w}) \in Nat
    BY <2>2, FS_CardinalityType
  <2> QED BY <2>1, <2>2, <2>3
<1>4. l.size \in Nat /\ l.filled \in 0..l.size
  BY LineParts
<1>5. Explained(line'[p], n, m)
  <2>1. CASE Run(l, l.size)
    <3>1. Run(Pushed(l, TRUE), l.size)
      <4>1. LineInv(l) /\ ~(l.size < l.size)
        BY <1>4
      <4> HIDE DEF l
      <4> QED BY <1>4, <2>1, <4>1, RunGrows
    <3> QED BY <1>2, <3>1 DEF Explained
  <2>2. ASSUME NEW r \in Nat, Run(l, r), n <= r + k PROVE Explained(line'[p], n, m)
    <3>1. CASE r < l.size
      <4>1. Run(line'[p], r + 1)
        BY <1>2, <2>2, <3>1, RunGrows
      <4>2. n <= (r + 1) + m /\ r + 1 \in Nat
        <5> HIDE DEF n, k, m
        <5> QED BY <1>3, <2>2
      <4> QED BY <4>1, <4>2 DEF Explained
    <3>2. CASE ~(r < l.size)
      BY <1>2, <2>2, <3>2, RunGrows DEF Explained
    <3> QED BY <3>1, <3>2
  <2> QED BY <1>1, <2>1, <2>2 DEF Explained
<1>6. streak'[p] = n /\ Cardinality(InFlight(p)') = m
  OBVIOUS
<1> HIDE DEF n, m, k
<1> QED BY <1>1, <1>2, <1>5, <1>6 DEF StreakOK

LEMMA StreakNext ==
  ASSUME NEW conf, Steady(conf), ChainTypes, BreakerInv, [Next]_vars,
         \A p \in Lines : StreakOK(p, conf[p])
  PROVE  \A p \in Lines : StreakOK(p, conf[p])'
<1> SUFFICES ASSUME NEW p \in Lines PROVE StreakOK(p, conf[p])'
  OBVIOUS
<1> DEFINE c == Normalise(conf[p])
           l == Sized(line[p], c.window)
<1>a. /\ conf[p] \in Configs /\ StreakOK(p, conf[p]) /\ IsFiniteSet(Workers)
      /\ LineInv(line[p]) /\ streak \in [Lines -> Nat] /\ streak[p] \in Nat
  BY DEF Steady, BreakerInv, ChainTypes
<1>b. \A w \in Workers : pc[w] # "idle" =>
        /\ job[w] \in Inputs /\ job[w].line \in Lines /\ Violation(job[w]) \in BOOLEAN
        /\ job[w].breaker = conf[job[w].line] /\ ~Normalise(job[w].breaker).disabled
  BY InputsAssumption DEF ChainTypes, JobOK, Steady, IsInput, Violation, Checked, Normalise
<1>c. DOMAIN line = Lines /\ pc \in [Workers -> {"idle", "allow", "record", "decide", "done"}]
      /\ job \in [Workers -> Inputs \cup {NoJob}] /\ refused \in [Workers -> BOOLEAN]
  BY DEF BreakerInv, ChainTypes, JobOK
<1>1. CASE Tick /\ UNCHANGED judgeVars
  <2>1. InFlight(p)' = InFlight(p)
    BY <1>1 DEF judgeVars, InFlight
  <2> QED BY <1>1, <1>a, <2>1, StreakStays DEF Tick, judgeVars
<1>2. ASSUME NEW w \in Workers, NEW in \in Inputs, Begin(w, in) PROVE StreakOK(p, conf[p])'
  <2>1. InFlight(p)' = InFlight(p)
    BY <1>2, <1>c DEF Begin, Goto, InFlight
  <2> QED BY <1>2, <1>a, <2>1, StreakStays DEF Begin, breakerVars
<1>3. ASSUME NEW w \in Workers, CallAllow(w) PROVE StreakOK(p, conf[p])'
  <2>0. pc[w] = "allow" /\ Enforces(job[w])
    BY <1>3 DEF CallAllow, ChainTypes
  <2>1. CASE job[w].line # p
    <3>1. InFlight(p)' = InFlight(p)
      BY <1>3, <1>c, <2>0, <2>1 DEF CallAllow, Goto, InFlight
    <3>2. line'[p] = line[p] /\ streak'[p] = streak[p]
      BY <1>3, <1>a, <1>b, <1>c, <2>0, <2>1 DEF CallAllow, Allow
    <3> QED BY <1>a, <3>1, <3>2, StreakStays
  <2>2. CASE job[w].line = p
    <3>1. job[w].breaker = conf[p] /\ ~c.disabled
      BY <1>b, <2>0, <2>2
    <3>2. line'[p] = IF ~IsOpen(l) /\ MustTrip(l, c) THEN Tripped(l, c) ELSE l
      BY <1>3, <1>c, <2>2, <3>1 DEF CallAllow, Allow
    <3>3. refused'[w] <=> IsOpen(l) \/ MustTrip(l, c)
      BY <1>3, <1>c, <2>2, <3>1 DEF CallAllow, Refuses
    <3>4. streak'[p] = IF line'[p].trips > line[p].trips THEN 0
                       ELSE IF Violation(job[w]) /\ ~refused'[w] THEN streak[p] + 1 ELSE streak[p]
      BY <1>3, <1>a, <2>2 DEF CallAllow
    <3>5. l.trips = line[p].trips /\ l.trips \in Nat
      BY <1>a, LineParts DEF Sized, Emptied
    <3>6. InFlight(p)' = IF Violation(job[w]) /\ ~refused'[w] THEN InFlight(p) \cup {w} ELSE InFlight(p)
      BY <1>3, <1>b, <1>c, <2>0, <2>2 DEF CallAllow, Goto, InFlight
    <3>7. w \notin InFlight(p)
      BY <2>0 DEF InFlight
    <3> HIDE DEF l
    <3>8. CASE ~IsOpen(l) /\ MustTrip(l, c)
      <4>1. line'[p].trips = l.trips + 1
        BY <3>2, <3>8 DEF Tripped, Emptied
      <4> QED BY <3>4, <3>5, <4>1 DEF StreakOK
    <3>9. CASE ~(~IsOpen(l) /\ MustTrip(l, c))
      <4>1. line'[p] = l /\ ~(line'[p].trips > line[p].trips)
        BY <3>2, <3>5, <3>9
      <4>2. CASE Violation(job[w]) /\ ~refused'[w]
        <5>1. ~MustTrip(l, c) /\ streak'[p] = streak[p] + 1 /\ InFlight(p)' = InFlight(p) \cup {w}
          BY <3>3, <3>4, <3>6, <4>1, <4>2
        <5> QED BY <1>a, <3>7, <4>1, <5>1, StreakGrows DEF l
      <4>3. CASE ~(Violation(job[w]) /\ ~refused'[w])
        <5>1. streak'[p] = streak[p] /\ InFlight(p)' = InFlight(p)
          BY <3>4, <3>6, <4>1, <4>3
        <5>2. CASE streak[p] = 0
          BY <5>1, <5>2 DEF StreakOK
        <5>3. CASE streak[p] # 0
          <6>1. l = line[p]
            BY <1>a, <5>3 DEF l, Sized, StreakOK
          <6> QED BY <1>a, <4>1, <5>1, <6>1, StreakStays
        <5> QED BY <5>2, <5>3
      <4> QED BY <4>2, <4>3
    <3> QED BY <3>8, <3>9
  <2> QED BY <2>1, <2>2
<1>4. ASSUME NEW w \in Workers, CallRecord(w) PROVE StreakOK(p, conf[p])'
  <2>0. pc[w] = "record" /\ job[w] \in Inputs
    BY <1>4, <1>b DEF CallRecord
  <2>1. CASE job[w].line # p
    <3>1. InFlight(p)' = InFlight(p)
      BY <1>4, <1>c, <2>0, <2>1 DEF CallRecord, Goto, InFlight
    <3>2. line'[p] = line[p] /\ streak'[p] = streak[p]
      BY <1>4, <1>a, <1>b, <1>c, <2>0, <2>1 DEF CallRecord, Record
    <3> QED BY <1>a, <3>1, <3>2, StreakStays
  <2>2. CASE job[w].line = p
    <3>1. job[w].breaker = conf[p] /\ ~c.disabled
      BY <1>b, <2>0, <2>2
    <3>2. line'[p] = Pushed(l, Violation(job[w]))
      BY <1>4, <1>c, <2>2, <3>1 DEF CallRecord, Record
    <3>3. streak'[p] = IF Violation(job[w]) THEN streak[p] ELSE 0
      BY <1>4, <1>a, <2>2 DEF CallRecord
    <3>4. InFlight(p)' = InFlight(p) \ {w}
      BY <1>4, <1>c, <2>0 DEF CallRecord, Goto, InFlight
    <3>5. CASE Violation(job[w])
      <4>1. Violation(job[w]) = TRUE
        BY <1>b, <2>0, <3>5
      <4> QED BY <1>a, <3>2, <3>3, <3>4, <3>5, <4>1, StreakRecorded
    <3>6. CASE ~Violation(job[w])
      BY <3>3, <3>6 DEF StreakOK
    <3> QED BY <3>5, <3>6
  <2> QED BY <2>1, <2>2
<1>5. ASSUME NEW w \in Workers, Decide(w) PROVE StreakOK(p, conf[p])'
  <2>1. InFlight(p)' = InFlight(p)
    BY <1>5, <1>c DEF Decide, Goto, InFlight
  <2> QED BY <1>5, <1>a, <2>1, StreakStays DEF Decide, breakerVars
<1>6. ASSUME NEW w \in Workers, Deliver(w) PROVE StreakOK(p, conf[p])'
  <2>1. InFlight(p)' = InFlight(p)
    BY <1>6, <1>c DEF Deliver, Done, Goto, InFlight
  <2> QED BY <1>6, <1>a, <2>1, StreakStays DEF Deliver, breakerVars
<1>7. CASE UNCHANGED vars
  <2>1. InFlight(p)' = InFlight(p)
    BY <1>7 DEF vars, judgeVars, InFlight
  <2> QED BY <1>7, <1>a, <2>1, StreakStays DEF vars, judgeVars, breakerVars
<1> HIDE DEF c, l
<1> QED
  BY <1>1, <1>2, <1>3, <1>4, <1>5, <1>6, <1>7 DEF Next

(* The answers enforcement withholds in a row stay below the share of the  *)
(* window that trips, plus the workers already past Allow, on every line   *)
(* whose settings nobody changes and for any window, rate and number of    *)
(* workers (breaker.go:26).                                                *)
THEOREM WithholdingBounded ==
  ASSUME NEW conf, Steady(conf)
  PROVE  Spec => []StreakBounded
<1> DEFINE Inv == ChainTypes /\ BreakerInv /\ \A p \in Lines : StreakOK(p, conf[p])
<1>1. Init => Inv
  BY ChainStarts, BreakerInvInit DEF Init, StreakOK
<1>2. Inv /\ [Next]_vars => Inv'
  <2> SUFFICES ASSUME Inv, [Next]_vars PROVE Inv'
    OBVIOUS
  <2>1. ChainTypes' /\ BreakerInv'
    BY ChainNext, BreakerSteps, BreakerInvNext DEF ChainTypes
  <2>2. \A p \in Lines : StreakOK(p, conf[p])'
    BY StreakNext
  <2> QED BY <2>1, <2>2
<1>3. Inv => StreakBounded
  <2> SUFFICES ASSUME Inv, NEW p \in Lines PROVE \E k \in Configs : streak[p] <= Limit(k)
    BY DEF StreakBounded
  <2>1. conf[p] \in Configs
    BY DEF Steady
  <2>2. streak[p] <= Limit(conf[p])
    <3>1. CASE streak[p] # 0
      BY <3>1 DEF StreakOK
    <3>2. CASE streak[p] = 0
      <4>1. Cardinality(Workers) \in Nat
        BY FS_CardinalityType DEF Steady
      <4>2. Share(conf[p]) >= 1 /\ Share(conf[p]) \in Int
        BY <2>1, NormaliseUsable DEF Share, Larger
      <4>3. Limit(conf[p]) = Share(conf[p]) + Cardinality(Workers) - 1
        BY DEF Limit, Share
      <4> QED BY <3>2, <4>1, <4>2, <4>3
    <3> QED BY <3>1, <3>2
  <2> QED BY <2>1, <2>2
<1> QED
  BY <1>1, <1>2, <1>3, PTL DEF Spec


-----------------------------------------------------------------------------
(* GroundedFacts.  A class or stage left open is no name of one.           *)
LEMMA NotUnset == Unset \notin {"goods", "phone", "case", "before", "after"}
  BY Zenon DEF Unset

\* The walk from a class along its ancestors, a step at a time.
Step(o, a) == IF a = Unset THEN Unset ELSE o.parent[a]
Walked(o, class, v) == [n \in 0..15 |-> IF n = 0 THEN class ELSE Step(o, v[n - 1])]

LEMMA Walk ==
  ASSUME NEW o, NEW class, NEW W, W = Walked(o, class, W)
  PROVE  /\ Ancestor(o, class)[0] = class
         /\ \A n \in 1..15 : Ancestor(o, class)[n] = Step(o, Ancestor(o, class)[n - 1])
<1> DEFINE up == Ancestor(o, class)
<1>1. up = CHOOSE v : v = Walked(o, class, v)
  BY DEF Ancestor, Walked, Step
<1> HIDE DEF up
<1>2. up = Walked(o, class, up)
  BY <1>1
<1>3. ASSUME NEW v, NEW g, v = Walked(o, class, g)
      PROVE  v[0] = class /\ \A n \in 1..15 : v[n] = Step(o, g[n - 1])
  BY <1>3 DEF Walked
<1> QED
  BY <1>2, <1>3 DEF up

\* A walk is found by its values.
LEMMA WalkOf ==
  ASSUME NEW o, NEW class, NEW W, W = [n \in 0..15 |-> W[n]],
         W[0] = class, \A n \in 1..15 : W[n] = Step(o, W[n - 1])
  PROVE  W = Walked(o, class, W)
<1>1. PICK g : g = W
  OBVIOUS
<1>2. ASSUME NEW n \in 0..15 PROVE W[n] = IF n = 0 THEN class ELSE Step(o, g[n - 1])
  <2>1. n = 0 \/ n \in 1..15
    OBVIOUS
  <2> QED
    BY <1>1, <2>1
<1>3. W = Walked(o, class, g)
  BY <1>2 DEF Walked
<1> QED
  BY <1>1, <1>3

LEMMA Follow ==
  ASSUME NEW o, NEW class, NEW W, W = [n \in 0..15 |-> W[n]],
         W[0] = class, \A n \in 1..15 : W[n] = Step(o, W[n - 1])
  PROVE  \A n \in 0..15 : Ancestor(o, class)[n] = W[n]
<1> DEFINE A == Ancestor(o, class)
<1>1. A[0] = class /\ \A n \in 1..15 : A[n] = Step(o, A[n - 1])
  BY Walk, WalkOf
<1> HIDE DEF A
<1>2. A[0] = W[0] /\ A[1] = W[1] /\ A[2] = W[2] /\ A[3] = W[3]
  BY <1>1
<1>3. A[4] = W[4] /\ A[5] = W[5] /\ A[6] = W[6] /\ A[7] = W[7]
  BY <1>1, <1>2
<1>4. A[8] = W[8] /\ A[9] = W[9] /\ A[10] = W[10] /\ A[11] = W[11]
  BY <1>1, <1>3
<1>5. A[12] = W[12] /\ A[13] = W[13] /\ A[14] = W[14] /\ A[15] = W[15]
  BY <1>1, <1>4
<1>6. ASSUME NEW n \in 0..15 PROVE A[n] = W[n]
  BY <1>2, <1>3, <1>4, <1>5
<1> QED
  BY <1>6 DEF A

\* A class has at most two ancestors, or is one of three in a circle.
LEMMA ShortWalk ==
  ASSUME NEW o, NEW a, NEW b, NEW c, b = Step(o, a), c = Step(o, b), Step(o, c) = Unset
  PROVE  /\ Ancestor(o, a)[0] = a /\ Ancestor(o, a)[1] = b /\ Ancestor(o, a)[2] = c
         /\ \A n \in 3..15 : Ancestor(o, a)[n] = Unset
<1> DEFINE W == [n \in 0..15 |-> IF n = 0 THEN a ELSE IF n = 1 THEN b ELSE IF n = 2 THEN c ELSE Unset]
<1>0. Step(o, Unset) = Unset
  BY DEF Step
<1>1. /\ W = [n \in 0..15 |-> W[n]] /\ W[0] = a /\ W[1] = b /\ W[2] = c
      /\ \A n \in 3..15 : W[n] = Unset
  OBVIOUS
<1> HIDE DEF W
<1>2. ASSUME NEW n \in 1..15 PROVE W[n] = Step(o, W[n - 1])
  <2>1. n \in {1, 2, 3} \/ (n \in 4..15 /\ n - 1 \in 3..15)
    OBVIOUS
  <2> QED
    BY <1>0, <1>1, <2>1
<1>3. \A n \in 0..15 : Ancestor(o, a)[n] = W[n]
  BY <1>1, <1>2, Follow
<1> QED
  BY <1>1, <1>3

LEMMA Circle ==
  ASSUME NEW o, NEW a, NEW b, NEW c, b = Step(o, a), c = Step(o, b), Step(o, c) = a
  PROVE  /\ Ancestor(o, a)[0] = a /\ Ancestor(o, a)[1] = b /\ Ancestor(o, a)[2] = c
         /\ Ancestor(o, a)[3] = a
<1> DEFINE W == [n \in 0..15 |-> IF n % 3 = 0 THEN a ELSE IF n % 3 = 1 THEN b ELSE c]
<1>1. /\ W = [n \in 0..15 |-> W[n]]
      /\ \A n \in 0..15 : W[n] = IF n % 3 = 0 THEN a ELSE IF n % 3 = 1 THEN b ELSE c
  OBVIOUS
<1> HIDE DEF W
<1>2. W[0] = a /\ W[1] = b /\ W[2] = c /\ W[3] = a
  BY <1>1
<1>3. ASSUME NEW n \in 1..15 PROVE W[n] = Step(o, W[n - 1])
  <2>1. n - 1 \in 0..15 /\ n \in 0..15
    OBVIOUS
  <2>2. \/ n % 3 = 0 /\ (n - 1) % 3 = 2
        \/ n % 3 = 1 /\ (n - 1) % 3 = 0
        \/ n % 3 = 2 /\ (n - 1) % 3 = 1
    OBVIOUS
  <2> QED
    BY <1>1, <2>1, <2>2
<1>4. \A n \in 0..15 : Ancestor(o, a)[n] = W[n]
  BY <1>1, <1>2, <1>3, Follow
<1> QED
  BY <1>2, <1>4

Chain == [goods |-> Unset, phone |-> "goods", case |-> "phone"]
Fork == [goods |-> Unset, phone |-> "goods", case |-> "goods"]
IsTree(o) == o.parent \in {Chain, Fork}
LEMMA TreeSteps ==
  ASSUME NEW o
  PROVE  /\ Step(o, Unset) = Unset
         /\ IsTree(o) =>
              /\ Step(o, "goods") = Unset /\ Step(o, "phone") = "goods"
              /\ Step(o, "case") \in {"phone", "goods"}
         /\ o.parent = [goods |-> "case", phone |-> "goods", case |-> "phone"] =>
              /\ Step(o, "goods") = "case" /\ Step(o, "case") = "phone" /\ Step(o, "phone") = "goods"
  BY NotUnset DEF Step, IsTree, Chain, Fork

LEMMA NoCircle ==
  ASSUME NEW o, o.parent \in Trees, \A c \in Classes : CheckNoCycle(o, c)
  PROVE  IsTree(o)
<1> SUFFICES ASSUME o.parent = [goods |-> "case", phone |-> "goods", case |-> "phone"] PROVE FALSE
  BY DEF Trees, IsTree, Chain, Fork
<1>1. Ancestor(o, "goods")[0] = "goods" /\ Ancestor(o, "goods")[1] = "case"
      /\ Ancestor(o, "goods")[2] = "phone" /\ Ancestor(o, "goods")[3] = "goods"
  BY TreeSteps, Circle
<1>2. Cardinality(Classes) = 3
  <2>1. Cardinality({"goods"}) = 1 /\ IsFiniteSet({"goods"})
    BY FS_Singleton
  <2>2. Cardinality({"goods", "phone"}) = 2 /\ IsFiniteSet({"goods", "phone"})
    <3>1. {"goods", "phone"} = {"goods"} \cup {"phone"}
      OBVIOUS
    <3>2. "phone" \notin {"goods"}
      OBVIOUS
    <3>3. /\ IsFiniteSet({"goods"} \cup {"phone"})
          /\ Cardinality({"goods"} \cup {"phone"}) = Cardinality({"goods"}) + 1
      BY <2>1, <3>2, FS_AddElement
    <3> QED
      BY <2>1, <3>1, <3>3
  <2>3. Classes = {"goods", "phone"} \cup {"case"}
    BY DEF Classes
  <2>4. "case" \notin {"goods", "phone"}
    OBVIOUS
  <2>5. Cardinality({"goods", "phone"} \cup {"case"}) = Cardinality({"goods", "phone"}) + 1
    BY <2>2, <2>4, FS_AddElement
  <2> QED
    BY <2>2, <2>3, <2>5
<1>3. \A n \in 0..3 : Ancestor(o, "goods")[n] # Unset
  BY <1>1, NotUnset
<1>4. CheckNoCycle(o, "goods")
  BY DEF Classes
<1> QED
  BY <1>2, <1>3, <1>4 DEF CheckNoCycle

LEMMA HopsOf ==
  ASSUME NEW o, IsTree(o), NEW x \in Classes \cup {Unset}, NEW y \in Classes
  PROVE  \A n : n \in Hops(o, x, y) <=> \/ n = 0 /\ x = y
                                        \/ n = 1 /\ Step(o, x) = y
                                        \/ n = 2 /\ Step(o, Step(o, x)) = y
<1>1. Step(o, Step(o, Step(o, x))) = Unset
  BY TreeSteps DEF Classes
<1>2. /\ Ancestor(o, x)[0] = x /\ Ancestor(o, x)[1] = Step(o, x) /\ Ancestor(o, x)[2] = Step(o, Step(o, x))
      /\ \A n \in 3..15 : Ancestor(o, x)[n] = Unset
  BY <1>1, ShortWalk
<1>3. y # Unset
  BY NotUnset DEF Classes
<1>4. \A n : n \in 0..15 <=> n = 0 \/ n = 1 \/ n = 2 \/ n \in 3..15
  OBVIOUS
<1> QED
  BY <1>2, <1>3, <1>4 DEF Hops

\* A class is at one distance from each of its ancestors, itself at none, and
\* distances add up.
LEMMA HopsAdd ==
  ASSUME NEW o, IsTree(o), NEW x \in Classes \cup {Unset}, NEW y \in Classes
  PROVE  /\ \A n, m \in Hops(o, x, y) : n = m
         /\ \A n \in Hops(o, x, y) : n \in 0..2 /\ x # Unset /\ (n = 0 <=> x = y)
         /\ x = y => Hops(o, x, y) # {}
         /\ \A z \in Classes : \A n \in Hops(o, x, y), m \in Hops(o, y, z) : n + m \in Hops(o, x, z)
<1>1. /\ Step(o, Unset) = Unset /\ Step(o, "goods") = Unset /\ Step(o, "phone") = "goods"
      /\ Step(o, "case") \in {"phone", "goods"}
  BY TreeSteps
<1>2. \A n, m \in Hops(o, x, y) : n = m
  BY <1>1, HopsOf, NotUnset DEF Classes
<1>3. \A n \in Hops(o, x, y) : n \in 0..2 /\ x # Unset /\ (n = 0 <=> x = y)
  BY <1>1, HopsOf, NotUnset DEF Classes
<1>4. x = y => Hops(o, x, y) # {}
  BY HopsOf
<1>5. ASSUME NEW z \in Classes, NEW n \in Hops(o, x, y), NEW m \in Hops(o, y, z)
      PROVE  n + m \in Hops(o, x, z)
  <2>1. (n = 0 /\ x = y) \/ (n = 1 /\ Step(o, x) = y) \/ (n = 2 /\ Step(o, Step(o, x)) = y)
    BY HopsOf
  <2>2. (m = 0 /\ y = z) \/ (m = 1 /\ Step(o, y) = z) \/ (m = 2 /\ Step(o, Step(o, y)) = z)
    BY HopsOf
  <2>3. \A k : k \in Hops(o, x, z) <=> \/ k = 0 /\ x = z
                                       \/ k = 1 /\ Step(o, x) = z
                                       \/ k = 2 /\ Step(o, Step(o, x)) = z
    BY HopsOf
  <2> QED
    BY <1>1, <2>1, <2>2, <2>3, NotUnset DEF Classes
<1> QED
  BY <1>2, <1>3, <1>4, <1>5

-----------------------------------------------------------------------------
\* Of finitely many positions one has the largest number.
LEMMA HasBest ==
  ASSUME NEW n \in Nat, NEW S \in SUBSET (1..n), S # {}, NEW v, \A k \in S : v[k] \in Int
  PROVE  \E m \in S : \A k \in S : v[k] <= v[m]
<1> DEFINE Above(m) == {k \in S : v[m] < v[k]}
           F == {Above(m) : m \in S}
<1>1. IsFiniteSet(S)
  <2>1. IsFiniteSet(1..n)
    BY FS_Interval
  <2> QED BY <2>1, FS_Subset
<1>2. F \subseteq FiniteSubsetsOf(S) /\ F # {}
  <2>1. \A m \in S : Above(m) \in FiniteSubsetsOf(S)
    BY <1>1, FS_Subset DEF FiniteSubsetsOf
  <2> QED BY <2>1
<1>3. PICK T \in F : \A U \in F : ~(<<U, T>> \in StrictSubsetOrdering(S))
  <2> HIDE DEF F, Above
  <2>1. IsWellFoundedOn(StrictSubsetOrdering(S), FiniteSubsetsOf(S))
    BY FS_StrictSubsetOrderingWellFounded
  <2> QED
    BY <1>2, <2>1, WFMin
<1>4. PICK m \in S : T = Above(m)
  OBVIOUS
<1>5. ASSUME NEW k \in S, v[m] < v[k] PROVE FALSE
  <2>1. k \in Above(m) /\ k \notin Above(k)
    BY <1>5
  <2>2. ASSUME NEW j \in Above(k) PROVE j \in Above(m)
    BY <1>5, <2>2
  <2>3. Above(k) \subseteq Above(m) /\ Above(k) # Above(m)
    BY <2>1, <2>2
  <2>4. Above(k) \in F /\ Above(k) \in SUBSET S /\ T \in SUBSET S
    BY <1>4
  <2> HIDE DEF Above, F
  <2>5. <<Above(k), T>> \in StrictSubsetOrdering(S)
    BY <1>4, <2>3, <2>4 DEF StrictSubsetOrdering
  <2> QED BY <1>3, <2>4, <2>5
<1> QED
  BY <1>5

-----------------------------------------------------------------------------
\* What passes Validate.
FactOK(o, a) ==
  /\ a.class \in Classes \cup {Unset} /\ a.stage \in {Unset, "before"}
  /\ \/ a.prop = "window" /\ a.values \in {<<"7">>, <<"15">>}
     \/ a.prop = "rate" /\ a.values = <<"7", "15">>
     \/ a.prop = "seal" /\ a.values = <<"unopened">> /\ Scope(a) = NoScope
  /\ AppliesTo(o, a.prop, a.class)
  /\ \A k \in DOMAIN a.values : CheckValue(o.props[a.prop], Bare(a.values[k]))

OntologyOK(o) ==
  /\ IsTree(o) /\ o.props = Sound /\ o.stages = Stages
  /\ \E n \in Nat : o.facts \in [1..n -> Assertion]
  /\ \A i \in DOMAIN o.facts : FactOK(o, o.facts[i])

LEMMA SoundProps ==
  /\ DOMAIN Sound = {"window", "seal", "rate"}
  /\ Sound["window"] = ReturnWindow /\ Sound["seal"] = Seal /\ Sound["rate"] = Rate
  BY DEF Sound

LEMMA OnlySound ==
  ASSUME NEW o, o.props \in Vocabularies, ValidProperties(o)
  PROVE  o.props = Sound
<1>1. CASE o.props = [Sound EXCEPT !.window.card = 2]
  <2>1. "window" \in DOMAIN o.props /\ o.props["window"].card = 2 /\ o.props["window"].functional
    BY <1>1 DEF Sound, ReturnWindow
  <2> QED
    BY <2>1 DEF ValidProperties
<1>2. CASE o.props = [Sound EXCEPT !.rate.domain = "nowhere"]
  <2>1. "rate" \in DOMAIN o.props /\ o.props["rate"].domain = "nowhere"
    BY <1>2 DEF Sound, Rate
  <2>2. "nowhere" \notin Classes \cup {Unset}
    <3>1. "nowhere" # Unset
      BY Zenon DEF Unset
    <3> QED
      BY <3>1 DEF Classes
  <2> QED
    BY <2>1, <2>2 DEF ValidProperties
<1>3. CASE o.props = [Sound EXCEPT !.window.requires = {"window"}]
  <2>1. "window" \in DOMAIN o.props /\ "window" \in o.props["window"].requires
    BY <1>3 DEF Sound, ReturnWindow
  <2> QED
    BY <2>1 DEF ValidProperties
<1>4. CASE o.props = [Sound EXCEPT !.seal.values = {}]
  <2>1. "seal" \in DOMAIN o.props /\ o.props["seal"].kind = "enum" /\ o.props["seal"].values = {}
    BY <1>4 DEF Sound, Seal
  <2> QED
    BY <2>1 DEF ValidProperties
<1> QED
  BY <1>1, <1>2, <1>3, <1>4 DEF Vocabularies

LEMMA LoadedOK ==
  ASSUME NEW o \in Drafts, Validate(o)
  PROVE  OntologyOK(o)
<1>1. /\ o.parent \in Trees /\ o.stages = Stages /\ o.props \in Vocabularies
      /\ \E n \in 0..MaxFacts : o.facts \in [1..n -> Assertion]
  BY DEF Drafts
<1>2. ValidClasses(o) /\ ValidProperties(o) /\ ValidAssertions(o)
  BY DEF Validate
<1>3. IsTree(o)
  BY <1>1, <1>2, NoCircle DEF ValidClasses
<1>4. o.props = Sound
  BY <1>1, <1>2, OnlySound
<1>5. ASSUME NEW i \in DOMAIN o.facts PROVE FactOK(o, o.facts[i])
  <2> DEFINE a == o.facts[i]
  <2>1. a \in Assertion
    BY <1>1
  <2>2. /\ o.props[a.prop].functional => Len(a.values) = 1
        /\ AppliesTo(o, a.prop, a.class) /\ Len(a.values) >= o.props[a.prop].card
        /\ \A k \in DOMAIN a.values : CheckValue(o.props[a.prop], Bare(a.values[k]))
    BY <1>2 DEF ValidAssertions
  <2> HIDE DEF a
  <2>3. CASE a.prop = "window"
    <3>1. a.class \in Classes \cup {Unset} /\ a.stage \in {Unset, "before"}
      BY <2>1, <2>3 DEF Assertion
    <3>2. a.values \in {<<"7">>, <<"15">>, <<"120">>, <<"7", "15">>}
      BY <2>1, <2>3 DEF Assertion
    <3>0. o.props[a.prop] = ReturnWindow
      BY <1>4, <2>3, SoundProps
    <3>3. ASSUME a.values = <<"120">> PROVE FALSE
      <4>1. CheckValue(ReturnWindow, Bare("120"))
        BY <2>2, <3>0, <3>3
      <4>2. Canonical(ReturnWindow, Bare("120")) = Bare("120")
        BY DEF Canonical, Bare
      <4>3. NumberOf["120"] \in 1..30
        BY <4>1, <4>2 DEF CheckValue, ReturnWindow, Bare
      <4> QED
        BY <4>3 DEF NumberOf
    <3>4. a.values # <<"7", "15">>
      BY <2>2, <3>0 DEF ReturnWindow
    <3> QED
      BY <2>2, <2>3, <3>1, <3>2, <3>3, <3>4 DEF FactOK, a
  <2>4. CASE a.prop = "rate"
    <3>1. /\ a.class \in Classes \cup {Unset} /\ a.stage \in {Unset, "before"}
          /\ a.values \in {<<"7", "15">>, <<>>}
      BY <2>1, <2>4 DEF Assertion
    <3>2. a.values # <<>>
      <4>1. o.props[a.prop] = Rate
        BY <1>4, <2>4, SoundProps
      <4> QED
        BY <2>2, <4>1 DEF Rate
    <3> QED
      BY <2>2, <2>4, <3>1, <3>2 DEF FactOK, a
  <2>5. CASE a.prop = "seal"
    <3>1. a.class = Unset /\ a.stage = Unset /\ a.values = <<"unopened">>
      BY <2>1, <2>5 DEF Assertion
    <3>2. Scope(a) = NoScope
      BY <3>1 DEF Scope, NoScope
    <3> QED
      BY <2>2, <2>5, <3>1, <3>2 DEF FactOK, a
  <2>6. a.prop \in {"window", "rate", "seal"}
    BY <2>1 DEF Assertion
  <2> QED
    BY <2>3, <2>4, <2>5, <2>6 DEF a
<1> QED
  BY <1>1, <1>3, <1>4, <1>5, MaxFactsAssumption DEF OntologyOK

-----------------------------------------------------------------------------
(* Scopes: what the qualifiers of a claim say, and which fact is closer.   *)
Scopes == [class : Classes \cup {Unset}, stage : Stages \cup {Unset}]
DistancesTo(o, s, q) == IF s.class = Unset THEN 0 ELSE CHOOSE n \in Hops(o, q.class, s.class) : TRUE
AsNamed(x) == IF x = Unset THEN 0 ELSE 1

LEMMA KindsApart ==
  ASSUME NEW o, o.stages = Stages, NEW v
  PROVE  /\ ResolveScopeValue(o, v) = "class" <=> v \in Classes
         /\ ResolveScopeValue(o, v) = "stage" <=> v \in Stages
         /\ v \in Classes \cup Stages => v # Unset
         /\ ~(v \in Classes /\ v \in Stages)
<1>1. v \in Classes \cup Stages => v # Unset
  BY NotUnset DEF Classes, Stages
<1>2. ~(v \in Classes /\ v \in Stages)
  BY DEF Classes, Stages
<1> QED
  BY <1>1, <1>2 DEF ResolveScopeValue

LEMMA Resolved ==
  ASSUME NEW o, o.stages = Stages, NEW quals
  PROVE  /\ ResolveScope(o, quals) \in Scopes
         /\ quals = {} => ResolveScope(o, quals) = NoScope
         /\ quals # {} /\ ~Unknown(o, quals) => ResolveScope(o, quals) # NoScope
<1> DEFINE r == ResolveScope(o, quals)
<1>1. /\ r = [class |-> r.class, stage |-> r.stage]
      /\ r.class = IF \E v \in quals : ResolveScopeValue(o, v) = "class"
                   THEN CHOOSE v \in quals : ResolveScopeValue(o, v) = "class" ELSE Unset
      /\ r.stage = IF \E v \in quals : ResolveScopeValue(o, v) = "stage"
                   THEN CHOOSE v \in quals : ResolveScopeValue(o, v) = "stage" ELSE Unset
  BY DEF ResolveScope, Qualifier
<1> HIDE DEF r
<1>2. /\ r.class \in Classes \cup {Unset} /\ r.stage \in Stages \cup {Unset}
      /\ (\E v \in quals : v \in Classes) => r.class # Unset
      /\ (\E v \in quals : v \in Stages) => r.stage # Unset
      /\ quals = {} => r.class = Unset /\ r.stage = Unset
  BY <1>1, KindsApart
<1>3. r \in Scopes
  BY <1>1, <1>2 DEF Scopes
<1>4. quals = {} => r = NoScope
  BY <1>1, <1>2 DEF NoScope
<1>5. ASSUME quals # {}, ~Unknown(o, quals) PROVE r # NoScope
  <2>1. PICK v \in quals : TRUE
    BY <1>5
  <2>2. ResolveScopeValue(o, v) # "none"
    BY <1>5 DEF Unknown
  <2>3. v \in Classes \/ v \in Stages
    BY <2>2 DEF ResolveScopeValue
  <2>4. r.class # Unset \/ r.stage # Unset
    BY <1>2, <2>3
  <2> QED
    BY <2>4 DEF NoScope
<1> QED
  BY <1>3, <1>4, <1>5 DEF r

\* A tag's qualifiers are read back as the scope they were written from.
LEMMA ScopeReadBack ==
  ASSUME NEW o, o.stages = Stages, NEW s \in Scopes
  PROVE  LET quals == {s.class, s.stage} \ {Unset} IN ~Unknown(o, quals) /\ ResolveScope(o, quals) = s
<1> DEFINE quals == {s.class, s.stage} \ {Unset}
           r == ResolveScope(o, quals)
<1>s. s.class \in Classes \cup {Unset} /\ s.stage \in Stages \cup {Unset}
      /\ s = [class |-> s.class, stage |-> s.stage]
  BY DEF Scopes
<1>1. \A v \in quals : /\ ResolveScopeValue(o, v) \in {"class", "stage"}
                       /\ ResolveScopeValue(o, v) = "class" <=> v = s.class
                       /\ ResolveScopeValue(o, v) = "stage" <=> v = s.stage
  BY <1>s, KindsApart
<1>2. ~Unknown(o, quals)
  BY <1>1 DEF Unknown
<1>3. /\ r = [class |-> r.class, stage |-> r.stage]
      /\ r.class = IF \E v \in quals : ResolveScopeValue(o, v) = "class"
                   THEN CHOOSE v \in quals : ResolveScopeValue(o, v) = "class" ELSE Unset
      /\ r.stage = IF \E v \in quals : ResolveScopeValue(o, v) = "stage"
                   THEN CHOOSE v \in quals : ResolveScopeValue(o, v) = "stage" ELSE Unset
  BY DEF ResolveScope, Qualifier
<1> HIDE DEF r
<1>4. r.class = s.class /\ r.stage = s.stage
  BY <1>s, <1>1, <1>3
<1> QED
  BY <1>s, <1>2, <1>3, <1>4 DEF r

LEMMA NamedCount ==
  ASSUME NEW s \in Scopes
  PROVE  /\ Cardinality(Named(s)) = AsNamed(s.class) + AsNamed(s.stage)
         /\ "class" \in Named(s) <=> s.class # Unset
         /\ "stage" \in Named(s) <=> s.stage # Unset
<1>1. \A d : d \in Named(s) <=> (d = "class" /\ s.class # Unset) \/ (d = "stage" /\ s.stage # Unset)
  BY DEF Named, Scopes
<1>2. CASE s.class = Unset /\ s.stage = Unset
  <2>1. Named(s) = {}
    BY <1>1, <1>2
  <2> QED
    BY <1>1, <1>2, <2>1, FS_EmptySet DEF AsNamed
<1>3. CASE s.class # Unset /\ s.stage = Unset
  <2>1. Named(s) = {"class"}
    BY <1>1, <1>3
  <2>2. Cardinality({"class"}) = 1
    BY FS_Singleton
  <2> QED
    BY <1>1, <1>3, <2>1, <2>2 DEF AsNamed
<1>4. CASE s.class = Unset /\ s.stage # Unset
  <2>1. Named(s) = {"stage"}
    BY <1>1, <1>4
  <2>2. Cardinality({"stage"}) = 1
    BY FS_Singleton
  <2> QED
    BY <1>1, <1>4, <2>1, <2>2 DEF AsNamed
<1>5. CASE s.class # Unset /\ s.stage # Unset
  <2>1. Named(s) = {"class"} \cup {"stage"}
    BY <1>1, <1>5
  <2>2. Cardinality({"class"}) = 1 /\ IsFiniteSet({"class"}) /\ "stage" \notin {"class"}
    BY FS_Singleton
  <2>3. Cardinality(Named(s)) = 2
    BY <2>1, <2>2, FS_AddElement
  <2> QED
    BY <1>1, <1>5, <2>3 DEF AsNamed
<1> QED
  BY <1>2, <1>3, <1>4, <1>5

LEMMA MatchesCover ==
  ASSUME NEW o, IsTree(o), NEW s \in Scopes, NEW q \in Scopes
  PROVE  Matches(o, s, q) <=> /\ s.stage \in {Unset, q.stage}
                              /\ s.class # Unset => Hops(o, q.class, s.class) # {}
<1>1. \A d : d \in Named(s) => d = "class" \/ d = "stage"
  BY DEF Named, Scopes
<1>2. s.class \in Classes \cup {Unset} /\ q.class \in Classes \cup {Unset}
  BY DEF Scopes
<1>3. s.class # Unset /\ Hops(o, q.class, s.class) # {} => q.class # Unset
  BY <1>2, HopsAdd
<1>4. /\ s.stage \in {Unset, q.stage} /\ (s.class # Unset => Hops(o, q.class, s.class) # {})
        => Named(s) \subseteq Named(q)
  BY <1>1, <1>3, NamedCount
<1> QED
  BY <1>4, NamedCount DEF Matches

LEMMA ScoreOf ==
  ASSUME NEW o, IsTree(o), NEW s \in Scopes, NEW q \in Scopes, Matches(o, s, q)
  PROVE  /\ Score(o, s, q) = 32 * (AsNamed(s.class) + AsNamed(s.stage)) - DistancesTo(o, s, q)
         /\ DistancesTo(o, s, q) \in 0..2
         /\ s.class # Unset => DistancesTo(o, s, q) \in Hops(o, q.class, s.class)
<1> DEFINE d == DistancesTo(o, s, q)
<1>1. s.class \in Classes \cup {Unset} /\ q.class \in Classes \cup {Unset}
  BY DEF Scopes
<1>2. CASE s.class = Unset
  <2>1. d = 0
    BY <1>2 DEF DistancesTo
  <2> QED
    BY <1>2, <2>1, NamedCount DEF Score, DistancesTo
<1>3. CASE s.class # Unset
  <2>1. Hops(o, q.class, s.class) # {}
    BY <1>3 DEF Matches
  <2>2. d \in Hops(o, q.class, s.class)
    BY <1>3, <2>1 DEF DistancesTo
  <2>3. d \in 0..2
    BY <1>1, <1>3, <2>2, HopsAdd
  <2> QED
    BY <1>3, <2>2, <2>3, NamedCount DEF Score, DistancesTo
<1> QED
  BY <1>2, <1>3

\* Of two facts that match, the one the other refines scores less.
LEMMA RefinedScoresLess ==
  ASSUME NEW o, IsTree(o), NEW s \in Scopes, NEW t \in Scopes, NEW q \in Scopes,
         Matches(o, s, q), Matches(o, t, q), s # t, s.stage \in {Unset, t.stage},
         s.class # Unset => Hops(o, t.class, s.class) # {}
  PROVE  Score(o, s, q) < Score(o, t, q)
<1> DEFINE ds == DistancesTo(o, s, q)
           dt == DistancesTo(o, t, q)
           ns == AsNamed(s.class) + AsNamed(s.stage)
           nt == AsNamed(t.class) + AsNamed(t.stage)
<1>1. /\ s.class \in Classes \cup {Unset} /\ t.class \in Classes \cup {Unset}
      /\ q.class \in Classes \cup {Unset}
      /\ (s.class # t.class \/ s.stage # t.stage)
  BY DEF Scopes
<1>2. /\ Score(o, s, q) = 32 * ns - ds /\ ds \in 0..2
      /\ Score(o, t, q) = 32 * nt - dt /\ dt \in 0..2
  BY ScoreOf
<1>3. /\ s.class # Unset => ds \in Hops(o, q.class, s.class)
      /\ t.class # Unset => dt \in Hops(o, q.class, t.class)
  BY ScoreOf
<1>4. s.class # Unset => t.class # Unset
  BY <1>1, HopsAdd
<1>5. ns \in 0..2 /\ nt \in 0..2 /\ ns <= nt
  BY <1>4 DEF AsNamed
<1>6. CASE ns < nt
  <2> HIDE DEF ns, nt, ds, dt
  <2> QED
    BY <1>2, <1>5, <1>6
<1>7. CASE ns = nt
  <2>1. (s.class = Unset <=> t.class = Unset) /\ s.stage = t.stage
    BY <1>4, <1>7 DEF AsNamed
  <2>2. s.class # t.class /\ s.class # Unset /\ t.class # Unset
    BY <1>1, <2>1
  <2>3. PICK m \in Hops(o, t.class, s.class) : TRUE
    BY <2>2
  <2>4. m \in 0..2 /\ m # 0
    BY <1>1, <2>2, HopsAdd
  <2>5. dt + m \in Hops(o, q.class, s.class)
    BY <1>1, <1>3, <2>2, HopsAdd
  <2>6. ds = dt + m
    BY <1>1, <1>3, <2>2, <2>5, HopsAdd
  <2> HIDE DEF ns, nt, ds, dt
  <2> QED
    BY <1>2, <1>5, <1>7, <2>4, <2>6
<1> QED
  BY <1>5, <1>6, <1>7

\* A fact of the very scope asked for scores more than any other.
LEMMA OwnScopeScoresMost ==
  ASSUME NEW o, IsTree(o), NEW s \in Scopes, NEW q \in Scopes,
         Matches(o, s, q), Score(o, q, q) <= Score(o, s, q)
  PROVE  s = q
<1>1. q.class # Unset => Hops(o, q.class, q.class) # {}
  BY HopsAdd DEF Scopes
<1>2. Matches(o, q, q)
  BY <1>1, MatchesCover
<1>3. /\ s.stage \in {Unset, q.stage}
      /\ s.class # Unset => Hops(o, q.class, s.class) # {}
  BY MatchesCover
<1>4. SUFFICES ASSUME s # q PROVE FALSE
  OBVIOUS
<1>5. Score(o, s, q) < Score(o, q, q)
  BY <1>2, <1>3, <1>4, RefinedScoresLess
<1>6. Score(o, s, q) \in Int /\ Score(o, q, q) \in Int
  BY <1>2, ScoreOf DEF AsNamed
<1> QED
  BY <1>5, <1>6

LEMMA FactScope ==
  ASSUME NEW o, OntologyOK(o), NEW i \in DOMAIN o.facts
  PROVE  /\ Scope(o.facts[i]) \in Scopes
         /\ Scope(o.facts[i]).class = o.facts[i].class /\ Scope(o.facts[i]).stage = o.facts[i].stage
  BY DEF OntologyOK, FactOK, Scopes, Scope, Stages

MatchesOf(o, p, q) == {i \in FactsOf(o, p) : Matches(o, Scope(o.facts[i]), q)}

\* Exactly one of the facts that match decides, and none of them scores more.
LEMMA OneDecides ==
  ASSUME NEW o, OntologyOK(o), NEW p, NEW q \in Scopes, MatchesOf(o, p, q) # {}
  PROVE  \E d \in MatchesOf(o, p, q) :
           /\ AssertedValues(o, p, q) = {d}
           /\ \A j \in MatchesOf(o, p, q) : Score(o, Scope(o.facts[j]), q) <= Score(o, Scope(o.facts[d]), q)
<1> DEFINE match == MatchesOf(o, p, q)
           best == {i \in match : \A j \in match : Score(o, Scope(o.facts[j]), q) <= Score(o, Scope(o.facts[i]), q)}
<1>1. PICK n \in Nat : o.facts \in [1..n -> Assertion]
  BY DEF OntologyOK
<1>2. match \subseteq 1..n
  BY <1>1 DEF MatchesOf, FactsOf
<1>3. best # {}
  <2> DEFINE v == [i \in match |-> Score(o, Scope(o.facts[i]), q)]
  <2>1. \A i \in match : Matches(o, Scope(o.facts[i]), q) /\ Scope(o.facts[i]) \in Scopes
    BY <1>1, <1>2, FactScope DEF MatchesOf
  <2>2. \A i \in match : Score(o, Scope(o.facts[i]), q) \in Int
    BY <2>1, ScoreOf DEF AsNamed, OntologyOK
  <2>3. \A i \in match : v[i] = Score(o, Scope(o.facts[i]), q) /\ v[i] \in Int
    BY <2>2
  <2> HIDE DEF v, match
  <2>4. \E m \in match : \A k \in match : v[k] <= v[m]
    BY <1>2, <2>3, HasBest DEF match
  <2> QED
    BY <2>3, <2>4
<1>4. \E d \in best : \A j \in best : Before(o, d, j)
  <2> DEFINE v == [i \in best |-> IF o.facts[i].class = Unset THEN 0 - i ELSE 0 - i - n]
  <2>1. best \in SUBSET (1..n)
    BY <1>2
  <2> HIDE DEF best, match
  <2>2. \A i \in best : i \in 1..n /\ v[i] = IF o.facts[i].class = Unset THEN 0 - i ELSE 0 - i - n
    BY <2>1
  <2>3. \A i \in best : v[i] \in Int
    BY <2>2
  <2> HIDE DEF v
  <2>4. PICK d \in best : \A k \in best : v[k] <= v[d]
    BY <1>3, <2>1, <2>3, HasBest
  <2>5. ASSUME NEW j \in best PROVE Before(o, d, j)
    BY <2>2, <2>4 DEF Before
  <2> QED
    BY <2>5
<1>5. \A i, j \in best : Before(o, i, j) /\ Before(o, j, i) => i = j
  BY <1>2 DEF Before
<1>6. AssertedValues(o, p, q) = {i \in best : \A j \in best : Before(o, i, j)}
  BY DEF AssertedValues, MatchesOf
<1> HIDE DEF best
<1>7. PICK d \in best : \A j \in best : Before(o, d, j)
  BY <1>4
<1>8. AssertedValues(o, p, q) = {d}
  BY <1>5, <1>6, <1>7
<1> QED
  BY <1>7, <1>8 DEF best

-----------------------------------------------------------------------------
\* The facts that decide are among the closest.
LEMMA ClosestDecides ==
  ASSUME NEW o, OntologyOK(o), NEW c, Closest(o, c) # {}
  PROVE  \E d \in Closest(o, c) : AssertedValues(o, c.prop, ResolveScope(o, c.quals)) = {d}
<1> DEFINE q == ResolveScope(o, c.quals)
           p == c.prop
<1>1. q \in Scopes
  BY Resolved DEF OntologyOK
<1>2. Scope(q) = q
  BY <1>1 DEF Scope, Scopes
<1> HIDE DEF q
<1>3. \A i \in FactsOf(o, p) : /\ Scope(o.facts[i]) \in Scopes
                               /\ Scope(o.facts[i]).class = o.facts[i].class
                               /\ Scope(o.facts[i]).stage = o.facts[i].stage
  BY FactScope DEF FactsOf
<1>4. ASSUME NEW i \in FactsOf(o, p)
      PROVE  MoreSpecific(o, q, o.facts[i]) \/ Scope(o.facts[i]) = q <=> Matches(o, Scope(o.facts[i]), q)
  <2>1. q.class # Unset => Hops(o, q.class, q.class) # {}
    BY <1>1, HopsAdd DEF Scopes, OntologyOK
  <2>2. Matches(o, Scope(o.facts[i]), q)
          <=> /\ o.facts[i].stage \in {Unset, q.stage}
              /\ o.facts[i].class # Unset => Hops(o, q.class, o.facts[i].class) # {}
    BY <1>1, <1>3, MatchesCover DEF OntologyOK
  <2>3. MoreSpecific(o, q, o.facts[i])
          <=> /\ q # Scope(o.facts[i]) /\ o.facts[i].stage \in {Unset, q.stage}
              /\ o.facts[i].class # Unset => Hops(o, q.class, o.facts[i].class) # {}
    BY <1>2 DEF MoreSpecific
  <2> QED
    BY <1>3, <2>1, <2>2, <2>3
<1>5. Closest(o, c) = {i \in MatchesOf(o, p, q) :
                         \A j \in MatchesOf(o, p, q) : ~MoreSpecific(o, o.facts[j], o.facts[i])}
  BY <1>4 DEF Closest, MatchesOf, q
<1>6. MatchesOf(o, p, q) # {}
  BY <1>5
<1>7. PICK d \in MatchesOf(o, p, q) :
        /\ AssertedValues(o, p, q) = {d}
        /\ \A j \in MatchesOf(o, p, q) : Score(o, Scope(o.facts[j]), q) <= Score(o, Scope(o.facts[d]), q)
  BY <1>1, <1>6, OneDecides
<1>8. ASSUME NEW j \in MatchesOf(o, p, q), MoreSpecific(o, o.facts[j], o.facts[d]) PROVE FALSE
  <2> DEFINE s == Scope(o.facts[d])
             t == Scope(o.facts[j])
  <2>1. s \in Scopes /\ t \in Scopes /\ Matches(o, s, q) /\ Matches(o, t, q)
    BY <1>3 DEF MatchesOf
  <2>2. s # t /\ s.stage \in {Unset, t.stage} /\ (s.class # Unset => Hops(o, t.class, s.class) # {})
    BY <1>3, <1>8 DEF MoreSpecific, MatchesOf
  <2> HIDE DEF s, t
  <2>3. Score(o, s, q) < Score(o, t, q)
    BY <1>1, <2>1, <2>2, RefinedScoresLess DEF OntologyOK
  <2>4. Score(o, s, q) \in Int /\ Score(o, t, q) \in Int
    BY <1>1, <2>1, ScoreOf DEF AsNamed, OntologyOK
  <2>5. Score(o, t, q) <= Score(o, s, q)
    BY <1>7 DEF s, t
  <2> QED
    BY <2>3, <2>4, <2>5
<1> QED
  BY <1>5, <1>7, <1>8 DEF q

-----------------------------------------------------------------------------
\* An answer that copies the tags holds tags only.
LEMMA Listed ==
  ASSUME NEW S, IsFiniteSet(S)
  PROVE  Cardinality(S) \in Nat /\ Seqs!SetToSeq(S) \in [1..Cardinality(S) -> S]
<1>1. Cardinality(S) \in Nat /\ ExistsBijection(1..Cardinality(S), S)
  BY FS_CardinalityType
<1>2. PICK f : f \in Bijection(1..Cardinality(S), S)
  BY <1>1 DEF ExistsBijection
<1>3. f \in [1..Cardinality(S) -> S] /\ \A a, b \in DOMAIN f : f[a] = f[b] => a = b
  BY <1>2 DEF Bijection, Injection, IsInjective
<1>4. Seqs!Cardinality(S) = Cardinality(S)
  BY DEF Seqs!Cardinality, Cardinality
<1>5. Seqs!IsInjective(f)
  BY <1>3 DEF Seqs!IsInjective
<1> QED
  BY <1>1, <1>3, <1>4, <1>5 DEF Seqs!SetToSeq

LEMMA ImageFinite ==
  ASSUME NEW n \in Nat, NEW J \in SUBSET (1..n), NEW f, f = [i \in J |-> f[i]]
  PROVE  IsFiniteSet({f[i] : i \in J})
<1>1. IsFiniteSet(J)
  BY FS_Interval, FS_Subset
<1>2. f \in Surjection(J, {f[i] : i \in J})
  BY DEF Surjection
<1> QED
  BY <1>1, <1>2, FS_Surjection

TagOf(o, t) ==
  \E i \in DOMAIN o.facts : \E k \in DOMAIN o.facts[i].values :
    Scope(o.facts[i]) # NoScope /\ t = Tag(o, i, k)

LEMMA CopiedTags ==
  ASSUME NEW o, OntologyOK(o)
  PROVE  \E n \in Nat : DOMAIN Copied(o) = 1..n /\ \A j \in 1..n : TagOf(o, Copied(o)[j])
<1>1. PICK n \in Nat : o.facts \in [1..n -> Assertion]
  BY DEF OntologyOK
<1> DEFINE J == {j \in DOMAIN o.facts : Scope(o.facts[j]) # NoScope}
           K == {j \in DOMAIN o.facts : Scope(o.facts[j]) # NoScope /\ Len(o.facts[j].values) = 2}
           f == [i \in J |-> Tag(o, i, 1)]
           g == [i \in K |-> Tag(o, i, 2)]
           A == {Tag(o, i, k) : i \in J, k \in {1}}
           B == {Tag(o, i, k) : i \in K, k \in {2}}
<1>2. J \in SUBSET (1..n) /\ K \in SUBSET (1..n)
  BY <1>1
<1>3. A = {f[i] : i \in J} /\ B = {g[i] : i \in K}
  <2> HIDE DEF J, K
  <2>1. (\A i \in J : f[i] = Tag(o, i, 1)) /\ \A i \in K : g[i] = Tag(o, i, 2)
    OBVIOUS
  <2> HIDE DEF f, g
  <2>2. \A t : t \in A <=> t \in {f[i] : i \in J}
    BY <2>1
  <2>3. \A t : t \in B <=> t \in {g[i] : i \in K}
    BY <2>1
  <2> HIDE DEF A, B
  <2> QED
    BY <2>2, <2>3
<1>4. f = [i \in J |-> f[i]] /\ g = [i \in K |-> g[i]]
  <2> HIDE DEF A, B, J, K
  <2>1. (\A i \in J : f[i] = Tag(o, i, 1)) /\ \A i \in K : g[i] = Tag(o, i, 2)
    OBVIOUS
  <2>2. f = [i \in J |-> Tag(o, i, 1)] /\ g = [i \in K |-> Tag(o, i, 2)]
    OBVIOUS
  <2> HIDE DEF f, g
  <2> QED
    BY <2>1, <2>2
<1>5. IsFiniteSet(A \cup B)
  <2> HIDE DEF A, B, f, g, J, K
  <2>1. IsFiniteSet(A)
    BY <1>2, <1>3, <1>4, ImageFinite
  <2>2. IsFiniteSet(B)
    BY <1>2, <1>3, <1>4, ImageFinite
  <2> QED
    BY <2>1, <2>2, FS_Union
<1>6. ASSUME NEW t \in A \cup B PROVE TagOf(o, t)
  <2>1. ASSUME NEW i \in J, t = Tag(o, i, 1) PROVE TagOf(o, t)
    <3>1. FactOK(o, o.facts[i])
      BY DEF OntologyOK
    <3>2. 1 \in DOMAIN o.facts[i].values
      BY <3>1 DEF FactOK
    <3> QED
      BY <2>1, <3>2 DEF TagOf
  <2>2. ASSUME NEW i \in K, t = Tag(o, i, 2) PROVE TagOf(o, t)
    <3>1. FactOK(o, o.facts[i]) /\ Len(o.facts[i].values) = 2
      BY DEF OntologyOK
    <3>2. 2 \in DOMAIN o.facts[i].values
      BY <3>1 DEF FactOK
    <3> QED
      BY <2>2, <3>2 DEF TagOf
  <2> HIDE DEF J, K
  <2> QED
    BY <2>1, <2>2
<1>7. Copied(o) = Seqs!SetToSeq(A \cup B)
  BY DEF Copied
<1> HIDE DEF A, B
<1> QED
  BY <1>5, <1>6, <1>7, Listed

\* A copied tag passes on its own.
LEMMA TagPasses ==
  ASSUME NEW o, OntologyOK(o), Agreed(o), NEW i \in DOMAIN o.facts,
         NEW k \in DOMAIN o.facts[i].values, Scope(o.facts[i]) # NoScope
  PROVE  /\ Kind(o, Tag(o, i, k)) = "none"
         /\ ResolveScope(o, Tag(o, i, k).quals) = Scope(o.facts[i])
<1> DEFINE a == o.facts[i]
           c == Tag(o, i, k)
           q == Scope(a)
<1>1. FactOK(o, a) /\ o.stages = Stages /\ o.props = Sound
  BY DEF OntologyOK
<1>2. q \in Scopes /\ q.class = a.class /\ q.stage = a.stage
  BY FactScope
<1>3. c.prop = a.prop /\ c.quals = {q.class, q.stage} \ {Unset} /\ c.value = Bare(a.values[k])
  BY <1>2 DEF Tag
<1>4. a.prop \in DOMAIN o.props
  BY <1>1, SoundProps DEF FactOK
<1> HIDE DEF a, c, q
<1>5. ~Unknown(o, c.quals) /\ ResolveScope(o, c.quals) = q
  BY <1>1, <1>2, <1>3, ScopeReadBack
<1>6. AppliesTo(o, c.prop, q.class) /\ CheckValue(o.props[c.prop], c.value)
  BY <1>1, <1>2, <1>3 DEF FactOK, a
<1>7. Canonical(o.props[c.prop], c.value) = c.value
  BY <1>3 DEF Canonical, Bare
<1>8. i \in MatchesOf(o, c.prop, q)
  <2>1. a.values # <<>>
    BY <1>1 DEF FactOK
  <2>2. q.class # Unset => Hops(o, q.class, q.class) # {}
    BY <1>2, HopsAdd DEF Scopes, OntologyOK
  <2>3. Matches(o, q, q)
    BY <1>2, <2>2, MatchesCover DEF OntologyOK
  <2> QED
    BY <1>3, <2>1, <2>3 DEF MatchesOf, FactsOf, a, q
<1>9. PICK d \in MatchesOf(o, c.prop, q) :
        /\ AssertedValues(o, c.prop, q) = {d}
        /\ \A j \in MatchesOf(o, c.prop, q) : Score(o, Scope(o.facts[j]), q) <= Score(o, Scope(o.facts[d]), q)
  BY <1>2, <1>8, OneDecides
<1>10. Scope(o.facts[d]) = q
  <2>1. Scope(o.facts[d]) \in Scopes /\ Matches(o, Scope(o.facts[d]), q)
    BY FactScope DEF MatchesOf, FactsOf
  <2>2. Score(o, q, q) <= Score(o, Scope(o.facts[d]), q)
    BY <1>8, <1>9 DEF q, a
  <2> QED
    BY <1>2, <2>1, <2>2, OwnScopeScoresMost DEF OntologyOK
<1>11. ValuesOf(o, d) = ValuesOf(o, i)
  <2>1. d \in DOMAIN o.facts /\ o.facts[d].prop = a.prop
    BY <1>3 DEF MatchesOf, FactsOf
  <2> QED
    BY <1>10, <2>1 DEF Agreed, q, a
<1>12. Among(ValuesOf(o, d), c.value)
  <2>1. a.values[k] \in ValuesOf(o, i)
    BY DEF ValuesOf, a
  <2> QED
    BY <1>3, <1>11, <2>1 DEF Among, Bare
<1>13. q # NoScope
  BY DEF q, a
<1>14. CompareToAssertions(o, c, q) = "none"
  BY <1>7, <1>9, <1>12, <1>13 DEF CompareToAssertions
<1>15. Kind(o, c) = "none"
  BY <1>3, <1>4, <1>5, <1>6, <1>14 DEF Kind
<1> QED
  BY <1>5, <1>15 DEF c, q, a

LEMMA OneValue ==
  ASSUME NEW o, OntologyOK(o), NEW i \in DOMAIN o.facts, NEW j \in DOMAIN o.facts,
         o.props[o.facts[i].prop].functional, o.facts[j].prop = o.facts[i].prop,
         ValuesOf(o, i) = ValuesOf(o, j),
         NEW k \in DOMAIN o.facts[i].values, NEW l \in DOMAIN o.facts[j].values
  PROVE  o.facts[i].values[k] = o.facts[j].values[l]
<1>1. FactOK(o, o.facts[i]) /\ FactOK(o, o.facts[j]) /\ o.props = Sound
  BY DEF OntologyOK
<1>2. o.facts[i].prop = "window"
  <2>1. o.facts[i].prop # "seal"
    BY <1>1, SoundProps DEF Seal
  <2>2. o.facts[i].prop # "rate"
    BY <1>1, SoundProps DEF Rate
  <2> QED
    BY <1>1, <2>1, <2>2 DEF FactOK
<1>3. /\ o.facts[i].values \in {<<"7">>, <<"15">>} /\ o.facts[j].values \in {<<"7">>, <<"15">>}
  BY <1>1, <1>2 DEF FactOK
<1>4. k = 1 /\ l = 1 /\ ValuesOf(o, i) = {o.facts[i].values[1]} /\ ValuesOf(o, j) = {o.facts[j].values[1]}
  BY <1>3 DEF ValuesOf
<1> QED
  BY <1>4

\* The copied tags pass together.
LEMMA CopiedPass ==
  ASSUME NEW o, OntologyOK(o), Agreed(o)
  PROVE  CheckClaims(o, Copied(o)) = {}
<1> DEFINE cs == Copied(o)
<1>1. PICK n \in Nat : DOMAIN cs = 1..n /\ \A j \in 1..n : TagOf(o, cs[j])
  BY CopiedTags
<1> HIDE DEF cs
<1>2. \A j \in 1..n : Kind(o, cs[j]) = "none"
  BY <1>1, TagPasses DEF TagOf
<1>3. ASSUME NEW x \in 1..n, NEW y \in 1..n, cs[x].prop = cs[y].prop, o.props[cs[x].prop].functional,
             ResolveScope(o, cs[x].quals) = ResolveScope(o, cs[y].quals)
      PROVE  cs[x].value = cs[y].value
  <2>i. PICK i \in DOMAIN o.facts :
          \E k \in DOMAIN o.facts[i].values : Scope(o.facts[i]) # NoScope /\ cs[x] = Tag(o, i, k)
    BY <1>1 DEF TagOf
  <2>1. PICK k \in DOMAIN o.facts[i].values : Scope(o.facts[i]) # NoScope /\ cs[x] = Tag(o, i, k)
    BY <2>i
  <2>j. PICK j \in DOMAIN o.facts :
          \E l \in DOMAIN o.facts[j].values : Scope(o.facts[j]) # NoScope /\ cs[y] = Tag(o, j, l)
    BY <1>1 DEF TagOf
  <2>2. PICK l \in DOMAIN o.facts[j].values : Scope(o.facts[j]) # NoScope /\ cs[y] = Tag(o, j, l)
    BY <2>j
  <2>3. Scope(o.facts[i]) = Scope(o.facts[j])
    BY <1>3, <2>1, <2>2, TagPasses
  <2>4. cs[x].prop = o.facts[i].prop /\ cs[y].prop = o.facts[j].prop
        /\ cs[x].value = Bare(o.facts[i].values[k]) /\ cs[y].value = Bare(o.facts[j].values[l])
    BY <2>1, <2>2 DEF Tag
  <2>5. ValuesOf(o, i) = ValuesOf(o, j)
    BY <1>3, <2>3, <2>4 DEF Agreed
  <2>6. o.facts[i].values[k] = o.facts[j].values[l]
    <3>1. o.facts[j].prop = o.facts[i].prop /\ o.props[o.facts[i].prop].functional
      BY <1>3, <2>4
    <3> QED
      BY <2>5, <3>1, OneValue
  <2> QED
    BY <2>4, <2>6
<1>4. ASSUME NEW j \in 1..n PROVE ~FunctionalConflict(o, cs, j)
  <2>1. SUFFICES ASSUME NEW x \in 1..j, NEW y \in 1..j, o.props[cs[j].prop].functional,
                        cs[x].prop = cs[j].prop, cs[y].prop = cs[j].prop,
                        ResolveScope(o, cs[x].quals) = ResolveScope(o, cs[j].quals),
                        ResolveScope(o, cs[y].quals) = ResolveScope(o, cs[j].quals)
                 PROVE  cs[x].value = cs[y].value
    BY DEF FunctionalConflict
  <2>2. x \in 1..n /\ y \in 1..n
    OBVIOUS
  <2> QED
    BY <1>3, <2>1, <2>2
<1> QED
  BY <1>1, <1>2, <1>4 DEF CheckClaims, cs

-----------------------------------------------------------------------------
\* An ontology in use passed Validate, and what was reported of the answer in
\* hand is what the checks report of it.
FactsInv ==
  /\ ontology # NoOntology => OntologyOK(ontology)
  /\ claims # <<>> =>
       /\ ontology # NoOntology
       /\ \E n \in Nat : DOMAIN claims = 1..n
       /\ found = CheckClaims(ontology, claims) \cup CheckCompanions(ontology, claims)

LEMMA FactsNextKeeps == FactsInv /\ [FactsNext]_factVars => FactsInv'
<1> SUFFICES ASSUME FactsInv, [FactsNext]_factVars PROVE FactsInv'
  OBVIOUS
<1>1. CASE LoadOntology
  <2>1. OntologyOK(ontology')
    BY <1>1, LoadedOK DEF LoadOntology
  <2>2. claims' = <<>>
    BY <1>1 DEF LoadOntology, FactsInv
  <2> QED
    BY <2>1, <2>2 DEF FactsInv
<1>2. CASE CheckAnswer
  <2>1. /\ ontology # NoOntology /\ ontology' = ontology
        /\ found' = CheckClaims(ontology, claims') \cup CheckCompanions(ontology, claims')
    BY <1>2 DEF CheckAnswer
  <2>2. OntologyOK(ontology)
    BY <2>1 DEF FactsInv
  <2>3. \E n \in Nat : DOMAIN claims' = 1..n
    <3>1. CASE \E c : claims' = <<c>>
      <4>1. DOMAIN claims' = 1..1
        BY <3>1
      <4> QED
        BY <4>1
    <3>2. CASE claims' = Copied(ontology)
      BY <2>2, <3>2, CopiedTags
    <3>3. CASE \E c, d : claims' = <<c, d>>
      <4>1. DOMAIN claims' = 1..2
        BY <3>3
      <4> QED
        BY <4>1
    <3>4. PICK cs \in {<<c>> : c \in Said} \cup {Copied(ontology)} \cup
               {<<c, [c EXCEPT !.value = Bare("15")]>> : c \in {d \in Said : d.prop = "window" /\ d.value = Bare("7")}} :
            claims' = cs
      BY <1>2 DEF CheckAnswer
    <3> QED
      BY <3>1, <3>2, <3>3, <3>4
  <2> QED
    BY <2>1, <2>2, <2>3 DEF FactsInv
<1>3. CASE UNCHANGED factVars
  BY <1>3 DEF factVars, FactsInv
<1> QED
  BY <1>1, <1>2, <1>3 DEF FactsNext

LEMMA Compared ==
  ASSUME NEW o, NEW c, Kind(o, c) \in {"none", "contradicts_assertion"}
  PROVE  ~Unknown(o, c.quals) /\ Kind(o, c) = CompareToAssertions(o, c, ResolveScope(o, c.quals))
<1> DEFINE q == ResolveScope(o, c.quals)
<1>1. c.prop \in DOMAIN o.props
  BY DEF Kind
<1>2. ~Unknown(o, c.quals)
  BY <1>1 DEF Kind
<1>3. Kind(o, c) = IF ~AppliesTo(o, c.prop, q.class) THEN "domain_mismatch"
                   ELSE IF ~CheckValue(o.props[c.prop], c.value) THEN "range"
                   ELSE CompareToAssertions(o, c, q)
  BY <1>1, <1>2 DEF Kind
<1> HIDE DEF q
<1>4. Kind(o, c) = CompareToAssertions(o, c, q)
  BY <1>3
<1> QED
  BY <1>2, <1>4 DEF q

LEMMA KindReported ==
  ASSUME NEW o, NEW c
  PROVE  Kind(o, c) \notin {"missing_companion", "functional_conflict"}
<1> DEFINE q == ResolveScope(o, c.quals)
<1>1. CompareToAssertions(o, c, q) \in {"none", "contradicts_assertion", "ambiguous_scope"}
  BY DEF CompareToAssertions
<1>2. CASE c.prop \notin DOMAIN o.props
  BY <1>2 DEF Kind
<1>3. CASE c.prop \in DOMAIN o.props /\ Unknown(o, c.quals)
  BY <1>3 DEF Kind
<1>4. CASE c.prop \in DOMAIN o.props /\ ~Unknown(o, c.quals)
  <2>1. Kind(o, c) = IF ~AppliesTo(o, c.prop, q.class) THEN "domain_mismatch"
                     ELSE IF ~CheckValue(o.props[c.prop], c.value) THEN "range"
                     ELSE CompareToAssertions(o, c, q)
    BY <1>4 DEF Kind
  <2> HIDE DEF q
  <2> QED
    BY <1>1, <2>1
<1> QED
  BY <1>2, <1>3, <1>4

LEMMA FactsInvDecides == FactsInv => FactsDecide
<1> SUFFICES ASSUME FactsInv, ontology # NoOntology, claims # <<>>
             PROVE  /\ (/\ Len(claims) = 1 /\ claims[1].quals # {}
                        /\ Kind(ontology, claims[1]) \in {"none", "contradicts_assertion"})
                         => ClosestFactDecides(claims[1])
                    /\ (claims[1].quals = {} /\ \A f \in found : f[1] # 1 \/ f[2] = "missing_companion")
                         => \A i \in FactsOf(ontology, claims[1].prop) :
                              Among(ValuesOf(ontology, i), Canonical(ontology.props[claims[1].prop], claims[1].value))
                    /\ claims = Copied(ontology) /\ Agreed(ontology) => \A f \in found : f[2] = "missing_companion"
  BY DEF FactsDecide
<1> DEFINE o == ontology
           c == claims[1]
           q == ResolveScope(o, c.quals)
           w == Canonical(o.props[c.prop], c.value)
<1>1. /\ OntologyOK(o) /\ found = CheckClaims(o, claims) \cup CheckCompanions(o, claims)
      /\ \A f \in CheckCompanions(o, claims) : f[2] = "missing_companion"
  BY DEF FactsInv, CheckCompanions
<1>2. 1 \in DOMAIN claims
  <2>1. PICK n \in Nat : DOMAIN claims = 1..n
    BY DEF FactsInv
  <2> QED
    BY <2>1
<1>3. <<1, "contradicts_assertion">> \in found <=> Kind(o, c) = "contradicts_assertion"
  BY <1>1, <1>2 DEF CheckClaims, CheckCompanions
<1>4. Kind(o, c) # "none" => <<1, Kind(o, c)>> \in found
  BY <1>1, <1>2 DEF CheckClaims
<1>5. q \in Scopes
  BY <1>1, Resolved DEF OntologyOK
<1>6. ASSUME c.quals # {}, Kind(o, c) \in {"none", "contradicts_assertion"}, Closest(o, c) # {}
      PROVE  \E i \in Closest(o, c) :
               (<<1, "contradicts_assertion">> \in found) = ~Among(ValuesOf(o, i), w)
  <2>1. ~Unknown(o, c.quals) /\ Kind(o, c) = CompareToAssertions(o, c, q)
    BY <1>6, Compared
  <2>2. q # NoScope
    BY <1>1, <1>6, <2>1, Resolved DEF OntologyOK
  <2>3. PICK d \in Closest(o, c) : AssertedValues(o, c.prop, q) = {d}
    BY <1>1, <1>6, ClosestDecides
  <2>4. Kind(o, c) = IF Among(ValuesOf(o, d), w) THEN "none" ELSE "contradicts_assertion"
    BY <2>1, <2>2, <2>3 DEF CompareToAssertions
  <2> HIDE DEF o, c, q, w
  <2>5. (<<1, "contradicts_assertion">> \in found) <=> ~Among(ValuesOf(o, d), w)
    BY <1>3, <2>4
  <2>6. (<<1, "contradicts_assertion">> \in found) = ~Among(ValuesOf(o, d), w)
    BY <2>5
  <2> QED
    BY <2>6
<1>7. ASSUME c.quals = {}, \A f \in found : f[1] # 1 \/ f[2] = "missing_companion"
      PROVE  \A i \in FactsOf(o, c.prop) : Among(ValuesOf(o, i), w)
  <2>1. Kind(o, c) = "none"
    BY <1>4, <1>7, KindReported
  <2>2. CompareToAssertions(o, c, q) = "none"
    BY <2>1, Compared
  <2>3. q = NoScope
    BY <1>1, <1>7, Resolved DEF OntologyOK
  <2>4. \A vs \in DistinctFactsOf(o, c.prop) : Among({vs[k] : k \in DOMAIN vs}, w)
    BY <2>2, <2>3 DEF CompareToAssertions
  <2>5. ASSUME NEW i \in FactsOf(o, c.prop) PROVE Among(ValuesOf(o, i), w)
    BY <2>4 DEF DistinctFactsOf, ValuesOf
  <2> QED
    BY <2>5
<1>8. ASSUME claims = Copied(o), Agreed(o) PROVE \A f \in found : f[2] = "missing_companion"
  BY <1>1, <1>8, CopiedPass
<1> QED
  BY <1>6, <1>7, <1>8 DEF ClosestFactDecides

(* The model is judged by the facts it was given, for ontologies of any    *)
(* number of facts: a claim about a situation by the closest fact, whatever *)
(* the order of the facts; a claim about none passes only if every fact     *)
(* agrees; and copied tags are not reported (AssertedValues, CheckClaims,   *)
(* Tag).                                                                    *)
THEOREM AnswerJudgedByFacts == FactsSpec => []FactsDecide
<1>1. FactsInit => FactsInv
  BY DEF FactsInit, FactsInv
<1> QED
  BY <1>1, FactsNextKeeps, FactsInvDecides, PTL DEF FactsSpec
=============================================================================
