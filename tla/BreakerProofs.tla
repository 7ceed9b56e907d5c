--------------------------- MODULE BreakerProofs ---------------------------
(***************************************************************************)
(* The breaker's ring, for any window sizes, settings and product lines:   *)
(* its counters stay inside the ring and its running count of suppressed   *)
(* outcomes is exact, although reset leaves the outcomes in place; and     *)
(* the breaker refines the sliding windows of BreakerWindow: the i-th      *)
(* oldest outcome lies in the i-th of the slots written last, and a push   *)
(* shifts these slots by one.                                              *)
(***************************************************************************)
EXTENDS Breaker, FunctionTheorems, FiniteSetTheorems, SequenceTheorems, TLAPS

\* Until the ring is full the next slot is the first unwritten one, so the
\* stale outcomes of an earlier window lie outside the slots that count.
LineInv(l) == /\ LineOK(l)
              /\ l.filled < l.size => l.next = l.filled
              /\ l.suppressed = Cardinality(Counted(l))

BreakerInv == /\ line = [p \in Lines |-> line[p]]
              /\ \A p \in Lines : LineInv(line[p])
              /\ now \in 0..MaxNow

-----------------------------------------------------------------------------
(* normalise never returns a breaker that cannot trip: the sample floor is *)
(* at least one answer and fits into the window.                           *)
THEOREM NormaliseUsable ==
  ASSUME NEW c \in Configs
  PROVE  LET n == Normalise(c) IN
           /\ n.rate \in 1..100 /\ n.cooldown \in Nat \ {0}
           /\ n.min \in Nat \ {0} /\ n.window \in Nat \ {0}
           /\ n.min <= n.window
  BY DefaultAssumption, ConfigsAssumption DEF IsConfig, Normalise, OrDefault, Larger

-----------------------------------------------------------------------------
(* The operations on one line.                                             *)
LEMMA NextSlot ==
  ASSUME NEW n \in Nat \ {0}, NEW i \in 0..(n - 1)
  PROVE  (i + 1) % n = IF i + 1 = n THEN 0 ELSE i + 1
  OBVIOUS

LEMMA CountedFinite ==
  ASSUME NEW l, l.filled \in Nat
  PROVE  IsFiniteSet(Counted(l)) /\ Cardinality(Counted(l)) \in Nat
<1>1. IsFiniteSet(0..(l.filled - 1))
  BY FS_Interval
<1> QED
  BY <1>1, FS_Subset, FS_CardinalityType DEF Counted

LEMMA EmptyCount ==
  ASSUME NEW l, l.filled = 0
  PROVE  Cardinality(Counted(l)) = 0
<1>1. Counted(l) = {}
  BY DEF Counted
<1> QED
  BY <1>1, FS_EmptySet

LEMMA NewLineInv ==
  ASSUME NEW size \in Nat \ {0}
  PROVE  LineInv(NewLine(size))
<1>1. LineOK(NewLine(size))
  BY DEF LineOK, LinesOfSize, NewLine, Emptied, Ring
<1>2. Cardinality(Counted(NewLine(size))) = 0
  BY EmptyCount DEF NewLine, Emptied
<1> QED
  BY <1>1, <1>2 DEF LineInv, NewLine, Emptied

LEMMA SizedInv ==
  ASSUME NEW l, LineInv(l), NEW size \in Nat \ {0}
  PROVE  LineInv(Sized(l, size))
<1>1. CASE l.size = size
  BY <1>1 DEF Sized
<1>2. CASE l.size # size
  <2> DEFINE s == Sized(l, size)
  <2>0. s = [size |-> size, outcomes |-> Ring(size), next |-> 0, filled |-> 0,
             suppressed |-> 0, openUntil |-> l.openUntil, trips |-> l.trips]
    BY <1>2 DEF Sized, Emptied
  <2>1. LineOK(s) /\ s.filled = 0 /\ s.next = 0 /\ s.suppressed = 0
    BY <2>0 DEF Ring, LineInv, LineOK, LinesOfSize
  <2>2. Cardinality(Counted(s)) = 0
    BY <2>1, EmptyCount
  <2> QED
    BY <2>1, <2>2 DEF LineInv
<1> QED
  BY <1>1, <1>2

LEMMA TrippedInv ==
  ASSUME NEW l, LineInv(l), NEW c, c.cooldown \in Nat, now \in Nat
  PROVE  LineInv(Tripped(l, c))
<1> DEFINE t == Tripped(l, c)
<1>0. t = [size |-> l.size, outcomes |-> l.outcomes, next |-> 0, filled |-> 0,
           suppressed |-> 0, openUntil |-> now + c.cooldown, trips |-> l.trips + 1]
  BY DEF Tripped, Emptied
<1>1. LineOK(t) /\ t.filled = 0 /\ t.next = 0 /\ t.suppressed = 0
  BY <1>0 DEF LineInv, LineOK, LinesOfSize
<1>2. Cardinality(Counted(t)) = 0
  BY <1>1, EmptyCount
<1> QED
  BY <1>1, <1>2 DEF LineInv

LEMMA PushedInv ==
  ASSUME NEW l, LineInv(l), NEW b \in BOOLEAN
  PROVE  LineInv(Pushed(l, b))
<1> DEFINE r == Pushed(l, b)
           evicted == l.filled = l.size /\ l.outcomes[l.next]
<1>type. /\ l.size \in Nat \ {0} /\ l.next \in 0..(l.size - 1) /\ l.filled \in 0..l.size
         /\ l.outcomes \in [0..(l.size - 1) -> BOOLEAN] /\ l.suppressed \in Int
  BY DEF LineInv, LineOK, LinesOfSize
<1>1. /\ r.size = l.size
      /\ r.outcomes = [l.outcomes EXCEPT ![l.next] = b]
      /\ r.next = IF l.next + 1 = l.size THEN 0 ELSE l.next + 1
      /\ r.filled = IF l.filled < l.size THEN l.filled + 1 ELSE l.filled
      /\ r.suppressed = l.suppressed - AsCount(evicted) + AsCount(b)
  BY <1>type, NextSlot DEF Pushed, LineInv, LineOK, LinesOfSize
<1>2. LineOK(r)
  <2>1. r = [size |-> r.size, outcomes |-> r.outcomes, next |-> r.next, filled |-> r.filled,
             suppressed |-> r.suppressed, openUntil |-> l.openUntil, trips |-> l.trips]
    BY DEF Pushed
  <2>2. l.openUntil \in Nat /\ l.trips \in Nat
    BY DEF LineInv, LineOK, LinesOfSize
  <2>3. r.suppressed \in Int
    BY <1>1, <1>type DEF AsCount
  <2>4. r.size = l.size /\ r.next \in 0..(l.size - 1) /\ r.filled \in 0..l.size
    BY <1>1, <1>type
  <2>5. r.outcomes \in [0..(l.size - 1) -> BOOLEAN]
    BY <1>1, <1>type
  <2> HIDE DEF r
  <2> QED
    BY <2>1, <2>2, <2>3, <2>4, <2>5, <1>type DEF LineOK, LinesOfSize
<1>3. r.filled < r.size => r.next = r.filled
  BY <1>1, <1>type DEF LineInv
<1>4. r.suppressed = Cardinality(Counted(r))
  <2>fin. IsFiniteSet(Counted(l)) /\ Cardinality(Counted(l)) \in Nat
    BY <1>type, CountedFinite
  <2>now. l.suppressed = Cardinality(Counted(l))
    BY DEF LineInv
  <2> DEFINE kept == Counted(l) \ {l.next}
  <2>1. Counted(r) = IF b THEN kept \cup {l.next} ELSE kept
    BY <1>1, <1>type DEF Counted, LineInv
  <2>2. l.next \in Counted(l) <=> evicted
    BY <1>type DEF Counted, LineInv
  <2>3. IsFiniteSet(kept) /\ Cardinality(kept) = l.suppressed - AsCount(evicted)
    <3>1. /\ IsFiniteSet(kept)
          /\ Cardinality(kept) = IF l.next \in Counted(l) THEN Cardinality(Counted(l)) - 1
                                 ELSE Cardinality(Counted(l))
      BY <2>fin, FS_RemoveElement
    <3> QED
      BY <2>fin, <2>now, <2>2, <3>1 DEF AsCount
  <2>4. Cardinality(kept \cup {l.next}) = Cardinality(kept) + 1
    BY <2>3, FS_AddElement
  <2> QED
    BY <1>1, <2>1, <2>3, <2>4, <1>type DEF AsCount
<1> QED
  BY <1>2, <1>3, <1>4 DEF LineInv

-----------------------------------------------------------------------------
(* The invariant.                                                          *)
LEMMA BreakerInvInit == BreakerInit => BreakerInv
  BY NewLineInv, DefaultAssumption, ClockAssumption DEF BreakerInit, BreakerInv, IsConfig

LEMMA BreakerInvNext == BreakerInv /\ [BreakerNext]_breakerVars => BreakerInv'
<1> SUFFICES ASSUME BreakerInv, [BreakerNext]_breakerVars PROVE BreakerInv'
  OBVIOUS
<1>1. CASE Tick
  BY <1>1, ClockAssumption DEF Tick, BreakerInv
<1>2. ASSUME NEW p \in Lines, NEW c \in Configs, Allow(p, c), UNCHANGED now PROVE BreakerInv'
  <2> DEFINE n == Normalise(c)
             l == Sized(line[p], n.window)
  <2>1. LineInv(l)
    BY NormaliseUsable, SizedInv DEF BreakerInv
  <2>2. LineInv(Tripped(l, n))
    BY <2>1, NormaliseUsable, TrippedInv, ClockAssumption DEF BreakerInv
  <2>3. LineInv(line'[p])
    BY <1>2, <2>1, <2>2 DEF Allow, BreakerInv
  <2>4. line' = [line EXCEPT ![p] = line'[p]]
    BY <1>2 DEF Allow, BreakerInv
  <2> QED
    BY <1>2, <2>3, <2>4 DEF BreakerInv
<1>3. ASSUME NEW p \in Lines, NEW c \in Configs, NEW b \in BOOLEAN, Record(p, c, b), UNCHANGED now
      PROVE  BreakerInv'
  <2> DEFINE n == Normalise(c)
             l == Sized(line[p], n.window)
  <2>1. LineInv(l)
    BY NormaliseUsable, SizedInv DEF BreakerInv
  <2>2. LineInv(Pushed(l, b))
    BY <2>1, PushedInv
  <2>3. LineInv(line'[p])
    BY <1>3, <2>2 DEF Record, BreakerInv
  <2>4. line' = [line EXCEPT ![p] = line'[p]]
    BY <1>3 DEF Record, BreakerInv
  <2> QED
    BY <1>3, <2>3, <2>4 DEF BreakerInv
<1>4. CASE UNCHANGED breakerVars
  BY <1>4 DEF breakerVars, BreakerInv
<1> QED
  BY <1>1, <1>2, <1>3, <1>4 DEF BreakerNext

LEMMA BreakerInvariant == BreakerSpec => []BreakerInv
  BY BreakerInvInit, BreakerInvNext, PTL DEF BreakerSpec

(* The counters stay inside the ring, across wraps, trips and resizes.     *)
THEOREM BreakerTypes == BreakerSpec => []BreakerTypeOK
<1>1. BreakerInv => BreakerTypeOK
  BY DEF BreakerInv, BreakerTypeOK, LineInv
<1> QED
  BY <1>1, BreakerInvariant, PTL

(* The count compared with the trip rate is the number of suppressed       *)
(* outcomes since the window was last emptied.                             *)
THEOREM CountExact == BreakerSpec => []SuppressedCounts
<1>1. BreakerInv => SuppressedCounts
  BY DEF BreakerInv, SuppressedCounts, LineInv
<1> QED
  BY <1>1, BreakerInvariant, PTL

-----------------------------------------------------------------------------
(* The ring as a window: the i-th oldest of its outcomes is in this slot.  *)
Slot(n, next, filled, i) ==
  IF next - filled + i - 1 < 0 THEN next - filled + i - 1 + n ELSE next - filled + i - 1

LEMMA SlotNumber ==
  ASSUME NEW n \in Nat \ {0}, NEW next \in 0..(n - 1), NEW filled \in 0..n, NEW i \in 1..filled
  PROVE  Slot(n, next, filled, i) \in 0..(n - 1)
         /\ (next - filled + i - 1 + n) % n = Slot(n, next, filled, i)
<1>1. Slot(n, next, filled, i) \in 0..(n - 1)
  BY DEF Slot
<1>2. CASE next - filled + i - 1 < 0
  <2>1. next - filled + i - 1 + n \in 0..(n - 1)
    BY <1>2
  <2>2. \A x \in 0..(n - 1) : x % n = x
    OBVIOUS
  <2> QED BY <1>2, <2>1, <2>2 DEF Slot
<1>3. CASE ~(next - filled + i - 1 < 0)
  <2>1. next - filled + i - 1 \in 0..(n - 1)
    BY <1>3
  <2>2. \A x \in 0..(n - 1) : (x + n) % n = x
    OBVIOUS
  <2> QED BY <1>3, <2>1, <2>2 DEF Slot
<1> QED BY <1>1, <1>2, <1>3

LEMMA SlotsDiffer ==
  ASSUME NEW n \in Nat \ {0}, NEW next \in 0..(n - 1), NEW filled \in 0..n,
         NEW i \in 1..filled, NEW j \in 1..filled, i # j
  PROVE  Slot(n, next, filled, i) # Slot(n, next, filled, j)
  BY DEF Slot

LEMMA SlotFound ==
  ASSUME NEW n \in Nat \ {0}, NEW next \in 0..(n - 1), NEW filled \in 0..n,
         filled < n => next = filled, NEW j \in 0..(filled - 1)
  PROVE  \E i \in 1..filled : Slot(n, next, filled, i) = j
<1>1. CASE next = filled
  <2>1. j + 1 \in 1..filled /\ Slot(n, next, filled, j + 1) = j
    BY <1>1 DEF Slot
  <2> QED BY <2>1
<1>2. CASE filled = n /\ j >= next
  <2>1. j - next + 1 \in 1..filled /\ Slot(n, next, filled, j - next + 1) = j
    BY <1>2 DEF Slot
  <2> QED BY <2>1
<1>3. CASE filled = n /\ j < next
  <2>1. j - next + n + 1 \in 1..filled /\ Slot(n, next, filled, j - next + n + 1) = j
    BY <1>3 DEF Slot
  <2> QED BY <2>1
<1> QED BY <1>1, <1>2, <1>3

\* The slots after a push.
LEMMA SlotsPushed ==
  ASSUME NEW n \in Nat \ {0}, NEW next \in 0..(n - 1), NEW filled \in 0..n,
         filled < n => next = filled,
         NEW next2, next2 = IF next + 1 = n THEN 0 ELSE next + 1
  PROVE  /\ filled < n =>
              /\ \A i \in 1..filled : Slot(n, next2, filled + 1, i) = Slot(n, next, filled, i)
              /\ Slot(n, next2, filled + 1, filled + 1) = next
              /\ \A i \in 1..filled : Slot(n, next, filled, i) # next
         /\ filled = n =>
              /\ \A i \in 1..(n - 1) : Slot(n, next2, n, i) = Slot(n, next, n, i + 1)
              /\ Slot(n, next2, n, n) = next
              /\ \A i \in 1..(n - 1) : Slot(n, next, n, i + 1) # next
<1>1. CASE next + 1 = n
  BY <1>1 DEF Slot
<1>2. CASE next + 1 # n
  BY <1>2 DEF Slot
<1> QED BY <1>1, <1>2

SlotOf(l, i) == Slot(l.size, l.next, l.filled, i)

LEMMA RingParts ==
  ASSUME NEW l, LineInv(l)
  PROVE  /\ l.size \in Nat \ {0} /\ l.next \in 0..(l.size - 1) /\ l.filled \in 0..l.size
         /\ l.outcomes \in [0..(l.size - 1) -> BOOLEAN] /\ l.suppressed \in Int
         /\ l.filled < l.size => l.next = l.filled
         /\ \A i \in 1..l.filled : SlotOf(l, i) \in 0..(l.size - 1) /\ RingOf(l)[i] = l.outcomes[SlotOf(l, i)]
         /\ RingOf(l) \in Seq(BOOLEAN) /\ Len(RingOf(l)) = l.filled /\ DOMAIN RingOf(l) = 1..l.filled
<1>1. /\ l.size \in Nat \ {0} /\ l.next \in 0..(l.size - 1) /\ l.filled \in 0..l.size
      /\ l.outcomes \in [0..(l.size - 1) -> BOOLEAN] /\ l.suppressed \in Int
      /\ l.filled < l.size => l.next = l.filled
  BY DEF LineInv, LineOK, LinesOfSize
<1>2. ASSUME NEW i \in 1..l.filled
      PROVE  /\ SlotOf(l, i) \in 0..(l.size - 1)
             /\ (l.next - l.filled + i - 1 + l.size) % l.size = SlotOf(l, i)
  BY <1>1, SlotNumber DEF SlotOf
<1>3. RingOf(l) = [i \in 1..l.filled |-> l.outcomes[SlotOf(l, i)]]
  BY <1>2 DEF RingOf
<1>4. \A i \in 1..l.filled : l.outcomes[SlotOf(l, i)] \in BOOLEAN
  BY <1>1, <1>2
<1>5. l.filled \in Nat
  BY <1>1
<1> HIDE DEF SlotOf
<1>6. RingOf(l) \in [1..l.filled -> BOOLEAN]
  BY <1>3, <1>4
<1>7. RingOf(l) \in Seq(BOOLEAN) /\ Len(RingOf(l)) = l.filled
  BY <1>5, <1>6
<1> QED
  BY <1>1, <1>2, <1>3, <1>7

\* The running count is the number of suppressed outcomes of the window.
LEMMA RingBad ==
  ASSUME NEW l, LineInv(l)
  PROVE  Window!Bad(RingOf(l)) = l.suppressed
<1> DEFINE S == {i \in DOMAIN RingOf(l) : RingOf(l)[i]}
           f == [i \in S |-> SlotOf(l, i)]
<1>1. S = {i \in 1..l.filled : l.outcomes[SlotOf(l, i)]}
  BY RingParts
<1>2. IsFiniteSet(S)
  <2>1. IsFiniteSet(1..l.filled)
    BY FS_Interval, RingParts
  <2> QED
    BY <1>1, <2>1, FS_Subset
<1>3. ASSUME NEW i \in 1..l.filled, NEW j \in 1..l.filled, SlotOf(l, i) = SlotOf(l, j) PROVE i = j
  BY <1>3, RingParts, SlotsDiffer DEF SlotOf
<1>4. ASSUME NEW i \in 1..l.filled PROVE SlotOf(l, i) \in 0..(l.filled - 1)
  <2>1. CASE l.filled < l.size
    BY <2>1, RingParts DEF SlotOf, Slot
  <2>2. CASE l.filled = l.size
    BY <2>2, RingParts
  <2> QED
    BY <2>1, <2>2, RingParts
<1>5. ASSUME NEW j \in 0..(l.filled - 1) PROVE \E i \in 1..l.filled : SlotOf(l, i) = j
  <2>1. /\ l.size \in Nat \ {0} /\ l.next \in 0..(l.size - 1) /\ l.filled \in 0..l.size
        /\ l.filled < l.size => l.next = l.filled
    BY RingParts
  <2>2. \E i \in 1..l.filled : Slot(l.size, l.next, l.filled, i) = j
    BY <2>1, SlotFound
  <2> QED
    BY <2>2 DEF SlotOf
<1>6. f \in Bijection(S, Counted(l))
  <2>1. f \in [S -> Counted(l)]
    BY <1>1, <1>4 DEF Counted
  <2>2. \A i, j \in S : f[i] = f[j] => i = j
    BY <1>1, <1>3
  <2>3. \A j \in Counted(l) : \E i \in S : f[i] = j
    BY <1>1, <1>5 DEF Counted
  <2> HIDE DEF f, S
  <2> QED
    BY <2>1, <2>2, <2>3, Fun_IsBij, Zenon
<1>7. Cardinality(S) = Cardinality(Counted(l))
  BY <1>2, <1>6, FS_Bijection DEF ExistsBijection
<1>8. Window!Cardinality(S) = Cardinality(S)
  BY DEF Window!Cardinality, Cardinality
<1> QED
  BY <1>7, <1>8 DEF Window!Bad, LineInv

LEMMA WithoutOldest ==
  ASSUME NEW S, NEW s \in Seq(S), NEW n \in Nat, Len(s) = n + 1
  PROVE  /\ SubSeq(s, 2, n + 1) \in Seq(S) /\ Len(SubSeq(s, 2, n + 1)) = n
         /\ \A i \in 1..n : SubSeq(s, 2, n + 1)[i] = s[i + 1]
<1>1. SubSeq(s, 2, n + 1) \in Seq(S) /\ Len(SubSeq(s, 2, n + 1)) = n
  OBVIOUS
<1>2. \A i \in 1..n : SubSeq(s, 2, n + 1)[i] = s[i + 1]
  OBVIOUS
<1> QED
  BY <1>1, <1>2

\* Record appends to the window, which forgets its oldest outcome when full.
LEMMA RingPushed ==
  ASSUME NEW l, LineInv(l), NEW b \in BOOLEAN
  PROVE  RingOf(Pushed(l, b)) = Window!Latest(Append(RingOf(l), b), l.size)
<1> DEFINE p == Pushed(l, b)
           s == RingOf(l)
<1>1. LineInv(p)
  BY PushedInv
<1>2. /\ p.size = l.size /\ p.outcomes = [l.outcomes EXCEPT ![l.next] = b]
      /\ p.next = IF l.next + 1 = l.size THEN 0 ELSE l.next + 1
      /\ p.filled = IF l.filled < l.size THEN l.filled + 1 ELSE l.filled
  <2>1. (l.next + 1) % l.size = IF l.next + 1 = l.size THEN 0 ELSE l.next + 1
    BY RingParts, NextSlot
  <2> QED
    BY <2>1 DEF Pushed
<1> HIDE DEF p
<1>3. /\ Append(s, b) \in Seq(BOOLEAN) /\ Len(Append(s, b)) = l.filled + 1
      /\ \A i \in 1..l.filled : Append(s, b)[i] = l.outcomes[SlotOf(l, i)]
      /\ Append(s, b)[l.filled + 1] = b
  BY RingParts, AppendProperties
<1>4. /\ RingOf(p) \in Seq(BOOLEAN) /\ Len(RingOf(p)) = p.filled
      /\ \A i \in 1..p.filled : RingOf(p)[i] = p.outcomes[SlotOf(p, i)]
  BY <1>1, RingParts
<1> HIDE DEF s
<1>5. /\ l.filled < l.size =>
           /\ \A i \in 1..l.filled : SlotOf(p, i) = SlotOf(l, i) /\ SlotOf(l, i) # l.next
           /\ SlotOf(p, l.filled + 1) = l.next
      /\ l.filled = l.size =>
           /\ \A i \in 1..(l.size - 1) : SlotOf(p, i) = SlotOf(l, i + 1) /\ SlotOf(l, i + 1) # l.next
           /\ SlotOf(p, l.size) = l.next
  <2>1. /\ l.size \in Nat \ {0} /\ l.next \in 0..(l.size - 1) /\ l.filled \in 0..l.size
        /\ l.filled < l.size => l.next = l.filled
    BY RingParts
  <2>2. /\ l.filled < l.size =>
             /\ \A i \in 1..l.filled :
                  Slot(l.size, p.next, l.filled + 1, i) = Slot(l.size, l.next, l.filled, i)
             /\ Slot(l.size, p.next, l.filled + 1, l.filled + 1) = l.next
             /\ \A i \in 1..l.filled : Slot(l.size, l.next, l.filled, i) # l.next
        /\ l.filled = l.size =>
             /\ \A i \in 1..(l.size - 1) :
                  Slot(l.size, p.next, l.size, i) = Slot(l.size, l.next, l.size, i + 1)
             /\ Slot(l.size, p.next, l.size, l.size) = l.next
             /\ \A i \in 1..(l.size - 1) : Slot(l.size, l.next, l.size, i + 1) # l.next
    BY <1>2, <2>1, SlotsPushed
  <2>3. l.filled < l.size => p.filled = l.filled + 1
    BY <1>2
  <2>4. l.filled = l.size => p.filled = l.filled
    BY <1>2, <2>1
  <2> QED
    BY <1>2, <2>2, <2>3, <2>4 DEF SlotOf
<1>6. p.outcomes[l.next] = b /\ \A j \in 0..(l.size - 1) : j # l.next => p.outcomes[j] = l.outcomes[j]
  BY <1>2, RingParts
<1>7. CASE l.filled < l.size
  <2>1. p.filled = l.filled + 1 /\ l.filled \in Nat
    BY <1>2, <1>7, RingParts
  <2>2. RingOf(p)[l.filled + 1] = b
    BY <1>4, <1>5, <1>6, <1>7, <2>1
  <2>3. \A i \in 1..l.filled : RingOf(p)[i] = l.outcomes[SlotOf(l, i)]
    <3> SUFFICES ASSUME NEW i \in 1..l.filled PROVE RingOf(p)[i] = l.outcomes[SlotOf(l, i)]
      OBVIOUS
    <3>1. RingOf(p)[i] = p.outcomes[SlotOf(p, i)]
      BY <1>4, <2>1
    <3>2. SlotOf(p, i) = SlotOf(l, i) /\ SlotOf(l, i) # l.next
      BY <1>5, <1>7
    <3>3. SlotOf(l, i) \in 0..(l.size - 1)
      BY RingParts
    <3> QED
      BY <1>6, <3>1, <3>2, <3>3
  <2>4. \A i \in 1..p.filled : RingOf(p)[i] = Append(s, b)[i]
    BY <1>3, <2>1, <2>2, <2>3
  <2>5. RingOf(p) = Append(s, b)
    BY <1>3, <1>4, <2>1, <2>4, SeqEqual
  <2>6. Window!Latest(Append(s, b), l.size) = Append(s, b)
    BY <1>3, <1>7, RingParts DEF Window!Latest
  <2> QED
    BY <2>5, <2>6 DEF p, s
<1>8. CASE l.filled = l.size
  <2> DEFINE t == SubSeq(Append(s, b), 2, l.size + 1)
  <2>0. l.size \in Nat \ {0}
    BY RingParts
  <2>1. Window!Latest(Append(s, b), l.size) = t
    <3>1. Len(Append(s, b)) = l.size + 1 /\ ~(l.size + 1 <= l.size) /\ (l.size + 1) - l.size + 1 = 2
      BY <1>3, <1>8, <2>0
    <3> QED
      BY <3>1 DEF Window!Latest
  <2>2. \A i \in 2..(l.size + 1) : Append(s, b)[i] \in BOOLEAN
    BY <1>3, <1>8, <2>0, ElementOfSeq
  <2>3. /\ t \in Seq(BOOLEAN) /\ Len(t) = l.size
        /\ \A i \in 1..l.size : t[i] = Append(s, b)[i + 1]
    BY <1>3, <1>8, <2>0, WithoutOldest
  <2>4. p.filled = l.size
    BY <1>2, <1>8, <2>0
  <2> HIDE DEF t
  <2>5. \A i \in 1..(l.size - 1) : RingOf(p)[i] = t[i]
    <3> SUFFICES ASSUME NEW i \in 1..(l.size - 1) PROVE RingOf(p)[i] = t[i]
      OBVIOUS
    <3>1. i \in 1..p.filled /\ i + 1 \in 1..l.filled /\ i \in 1..l.size
      BY <1>8, <2>0, <2>4
    <3>2. RingOf(p)[i] = l.outcomes[SlotOf(l, i + 1)]
      BY <1>4, <1>5, <1>6, <1>8, <3>1, RingParts
    <3> QED
      BY <1>3, <2>3, <3>1, <3>2
  <2>6. RingOf(p)[l.size] = t[l.size]
    <3>1. l.size \in 1..l.size
      BY <2>0
    <3>2. RingOf(p)[l.size] = b
      BY <1>4, <1>5, <1>6, <1>8, <2>4, <3>1
    <3> QED
      BY <1>3, <1>8, <2>3, <3>1, <3>2
  <2>7. \A i \in 1..l.size : RingOf(p)[i] = t[i]
    BY <2>0, <2>5, <2>6
  <2>8. RingOf(p) = t
    BY <1>4, <2>3, <2>4, <2>7, SeqEqual
  <2> QED
    BY <2>1, <2>8 DEF p, s
<1> QED
  BY <1>7, <1>8, RingParts

\* A line without outcomes has an empty window, and a resize empties it.
LEMMA RingEmpty ==
  ASSUME NEW l, l.filled = 0
  PROVE  RingOf(l) = <<>>
  BY DEF RingOf

LEMMA RingSized ==
  ASSUME NEW l, LineInv(l), NEW n \in Nat \ {0}
  PROVE  /\ RingOf(Sized(l, n)) = IF l.size = n THEN RingOf(l) ELSE <<>>
         /\ Sized(l, n).size = n /\ Sized(l, n).openUntil = l.openUntil
         /\ l.size # n => Sized(l, n).filled = 0
<1>1. CASE l.size = n
  BY <1>1 DEF Sized
<1>2. CASE l.size # n
  <2>1. Sized(l, n) = Emptied(n, Ring(n), l.openUntil, l.trips)
    BY <1>2 DEF Sized
  <2>2. /\ Sized(l, n).filled = 0 /\ Sized(l, n).size = n /\ Sized(l, n).openUntil = l.openUntil
    BY <2>1 DEF Emptied
  <2> QED
    BY <1>2, <2>2, RingEmpty
<1> QED
  BY <1>1, <1>2

-----------------------------------------------------------------------------
Slides == [Window!Next]_(Window!vars)

\* A line whose ring, size and cooldown changed, and what the windows show of it.
LEMMA OthersShown ==
  ASSUME BreakerInv, NEW p \in Lines, NEW l, line' = [line EXCEPT ![p] = l]
  PROVE  /\ [q \in Lines |-> RingOf(line'[q])]
              = [[q \in Lines |-> RingOf(line[q])] EXCEPT ![p] = RingOf(l)]
         /\ [q \in Lines |-> line'[q].size] = [[q \in Lines |-> line[q].size] EXCEPT ![p] = l.size]
         /\ [q \in Lines |-> line'[q].openUntil]
              = [[q \in Lines |-> line[q].openUntil] EXCEPT ![p] = l.openUntil]
<1>1. line'[p] = l /\ \A q \in Lines : q # p => line'[q] = line[q]
  BY DEF BreakerInv
<1>2. /\ RingOf(line'[p]) = RingOf(l)
      /\ \A q \in Lines : q # p => RingOf(line'[q]) = RingOf(line[q])
  BY <1>1
<1> HIDE DEF RingOf
<1>3. [q \in Lines |-> RingOf(line'[q])]
        = [[q \in Lines |-> RingOf(line[q])] EXCEPT ![p] = RingOf(l)]
  BY <1>2
<1>4. [q \in Lines |-> line'[q].size] = [[q \in Lines |-> line[q].size] EXCEPT ![p] = l.size]
  <2> DEFINE SizeOf(x) == x.size
  <2>1. SizeOf(line'[p]) = SizeOf(l) /\ \A q \in Lines : q # p => SizeOf(line'[q]) = SizeOf(line[q])
    BY <1>1
  <2> HIDE DEF SizeOf
  <2>2. [q \in Lines |-> SizeOf(line'[q])] = [[q \in Lines |-> SizeOf(line[q])] EXCEPT ![p] = SizeOf(l)]
    BY <2>1
  <2> QED
    BY <2>2 DEF SizeOf
<1>5. [q \in Lines |-> line'[q].openUntil]
        = [[q \in Lines |-> line[q].openUntil] EXCEPT ![p] = l.openUntil]
  <2> DEFINE CooldownOf(x) == x.openUntil
  <2>1. CooldownOf(line'[p]) = CooldownOf(l) /\ \A q \in Lines : q # p => CooldownOf(line'[q]) = CooldownOf(line[q])
    BY <1>1
  <2> HIDE DEF CooldownOf
  <2>2. [q \in Lines |-> CooldownOf(line'[q])] = [[q \in Lines |-> CooldownOf(line[q])] EXCEPT ![p] = CooldownOf(l)]
    BY <2>1
  <2> QED
    BY <2>2 DEF CooldownOf
<1> QED
  BY <1>3, <1>4, <1>5

LEMMA BreakerSlides == BreakerInv /\ [BreakerNext]_breakerVars => Slides
<1> SUFFICES ASSUME BreakerInv, [BreakerNext]_breakerVars PROVE Slides
  OBVIOUS
<1>1. CASE Tick
  <2>1. Window!Tick
    BY <1>1, ClockAssumption DEF Tick, Window!Tick
  <2> QED
    BY <2>1 DEF Slides, Window!Next
<1>2. CASE UNCHANGED breakerVars
  <2>1. UNCHANGED Window!vars
    BY <1>2 DEF breakerVars, Window!vars
  <2> QED
    BY <2>1 DEF Slides
<1>3. ASSUME NEW p \in Lines, NEW config \in Configs, NEW b \in BOOLEAN, UNCHANGED now,
             Allow(p, config) \/ Record(p, config, b)
      PROVE  Slides
  <2> DEFINE c == Normalise(config)
             l == Sized(line[p], c.window)
             seen == IF line[p].size = c.window THEN RingOf(line[p]) ELSE <<>>
  <2>c. /\ c.window \in Nat \ {0} /\ c.min \in Nat \ {0} /\ c.rate \in 1..100
        /\ c.cooldown \in Nat \ {0} /\ c \in {Normalise(d) : d \in Configs}
    BY NormaliseUsable
  <2>l. LineInv(line[p]) /\ now \in Nat
    BY ClockAssumption DEF BreakerInv
  <2>1. LineInv(l)
    BY <2>c, <2>l, SizedInv
  <2>2. RingOf(l) = seen /\ l.size = c.window /\ l.openUntil = line[p].openUntil
    BY <2>c, <2>l, RingSized
  <2>seen. Window!Seen(p, c) = seen
    BY DEF Window!Seen
  <2> HIDE DEF c, l, seen
  <2>becomes. ASSUME NEW x, line' = [line EXCEPT ![p] = x], x.size = c.window
      PROVE  Window!Becomes(p, c, RingOf(x))
    <3>1. /\ [q \in Lines |-> RingOf(line'[q])]
                = [[q \in Lines |-> RingOf(line[q])] EXCEPT ![p] = RingOf(x)]
          /\ [q \in Lines |-> line'[q].size]
                = [[q \in Lines |-> line[q].size] EXCEPT ![p] = x.size]
      BY <2>becomes, OthersShown
    <3> QED
      BY <2>becomes, <3>1 DEF Window!Becomes
  <2>open. ASSUME NEW x, line' = [line EXCEPT ![p] = x]
      PROVE  [q \in Lines |-> line[q].openUntil]'
                = [[q \in Lines |-> line[q].openUntil] EXCEPT ![p] = x.openUntil]
    BY <2>open, OthersShown
  <2>same. ASSUME NEW x, line' = [line EXCEPT ![p] = x], x.openUntil = line[p].openUntil
      PROVE  UNCHANGED [q \in Lines |-> line[q].openUntil]
    <3>1. [[q \in Lines |-> line[q].openUntil] EXCEPT ![p] = line[p].openUntil]
            = [q \in Lines |-> line[q].openUntil]
      OBVIOUS
    <3> QED
      BY <2>same, <2>open, <3>1
  <2>3. CASE line' = line
    BY <1>3, <2>3, <1>2 DEF breakerVars
  <2>4. CASE line' = [line EXCEPT ![p] = l]
    <3>1. Window!Resize(p, c)
      <4>1. Window!Becomes(p, c, Window!Seen(p, c))
        <5>1. RingOf(l) = Window!Seen(p, c) /\ l.size = c.window
          BY <2>2, <2>seen
        <5> QED
          BY <2>4, <2>becomes, <5>1 DEF Window!Becomes
      <4>2. UNCHANGED [q \in Lines |-> line[q].openUntil]
        BY <2>2, <2>4, <2>same
      <4> QED
        BY <1>3, <4>1, <4>2 DEF Window!Resize
    <3> QED
      BY <2>c, <3>1 DEF Slides, Window!Next
  <2>5. CASE ~IsOpen(l) /\ MustTrip(l, c) /\ line' = [line EXCEPT ![p] = Tripped(l, c)]
    <3>1. /\ RingOf(Tripped(l, c)) = <<>> /\ Tripped(l, c).size = c.window
          /\ Tripped(l, c).openUntil = now + c.cooldown
      <4>1. Tripped(l, c).filled = 0 /\ Tripped(l, c).size = l.size /\ Tripped(l, c).openUntil = now + c.cooldown
        BY DEF Tripped, Emptied
      <4> QED
        BY <2>2, <4>1, RingEmpty
    <3>2. now >= line[p].openUntil
      BY <2>1, <2>2, <2>5, <2>l DEF IsOpen, LineInv, LineOK, LinesOfSize
    <3>3. /\ Len(Window!Seen(p, c)) >= c.min
          /\ 100 * Window!Bad(Window!Seen(p, c)) >= c.rate * Len(Window!Seen(p, c))
      BY <2>1, <2>2, <2>5, <2>seen, RingBad, RingParts DEF MustTrip
    <3>4. Window!Trip(p, c)
      <4>1. Window!Becomes(p, c, <<>>)
        BY <2>5, <2>becomes, <3>1
      <4>2. [q \in Lines |-> line[q].openUntil]'
              = [[q \in Lines |-> line[q].openUntil] EXCEPT ![p] = now + c.cooldown]
        BY <2>5, <2>open, <3>1
      <4> QED
        BY <1>3, <3>2, <3>3, <4>1, <4>2 DEF Window!Trip
    <3> QED
      BY <2>c, <3>4 DEF Slides, Window!Next
  <2>6. CASE line' = [line EXCEPT ![p] = Pushed(l, b)]
    <3>1. /\ RingOf(Pushed(l, b)) = Window!Latest(Append(seen, b), c.window)
          /\ Pushed(l, b).size = c.window /\ Pushed(l, b).openUntil = line[p].openUntil
      BY <2>1, <2>2, RingPushed DEF Pushed
    <3>2. Window!Observe(p, c, b)
      <4>1. Window!Becomes(p, c, Window!Latest(Append(Window!Seen(p, c), b), c.window))
        <5>1. /\ RingOf(Pushed(l, b)) = Window!Latest(Append(Window!Seen(p, c), b), c.window)
              /\ Pushed(l, b).size = c.window
          BY <2>seen, <3>1
        <5> QED
          BY <2>6, <2>becomes, <5>1 DEF Window!Becomes
      <4>2. UNCHANGED [q \in Lines |-> line[q].openUntil]
        BY <2>6, <2>same, <3>1
      <4> QED
        BY <1>3, <4>1, <4>2 DEF Window!Observe
    <3> QED
      BY <2>c, <3>2 DEF Slides, Window!Next
  <2>7. \/ line' = line \/ line' = [line EXCEPT ![p] = l]
        \/ ~IsOpen(l) /\ MustTrip(l, c) /\ line' = [line EXCEPT ![p] = Tripped(l, c)]
        \/ line' = [line EXCEPT ![p] = Pushed(l, b)]
    BY <1>3 DEF Allow, Record, BreakerInv, c, l
  <2> QED
    BY <2>3, <2>4, <2>5, <2>6, <2>7
<1> QED
  BY <1>1, <1>2, <1>3 DEF BreakerNext

(* The breaker of every line is a sliding window of its latest outcomes,   *)
(* whatever sizes it was given in turn, and it opens only when enough of   *)
(* them were suppressed (Record, Allow).                                   *)
THEOREM SlidesAsWindow == BreakerSpec => SlidingWindow
<1>1. BreakerInit => Window!Init
  <2> SUFFICES ASSUME BreakerInit PROVE Window!Init
    OBVIOUS
  <2>1. \A p \in Lines : line[p] = NewLine(Default.window)
    BY DEF BreakerInit
  <2>2. /\ NewLine(Default.window).filled = 0 /\ NewLine(Default.window).size \in Nat
        /\ NewLine(Default.window).openUntil = 0
    BY DefaultAssumption DEF IsConfig, NewLine, Emptied
  <2> QED
    BY <2>1, <2>2, RingEmpty DEF BreakerInit, Window!Init
<1> QED
  BY <1>1, BreakerInvInit, BreakerInvNext, BreakerSlides, PTL
  DEF BreakerSpec, SlidingWindow, Window!Spec, Slides
=============================================================================
