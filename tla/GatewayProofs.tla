---------------------------- MODULE GatewayProofs ----------------------------
(***************************************************************************)
(* What the gateway with its platform tokens and its limiter, a message's  *)
(* way in and an answer's way out, the hand-over to a human agent, the     *)
(* sign-in and the audit trail keep, for any number of accounts, messages,  *)
(* operators, failures and crashes: each component's own behaviour, its   *)
(* inductive invariant and its property.                                   *)
(***************************************************************************)
EXTENDS ChannelWiring, Tokens, RateLimit, Access, AuditTrail, Handoff, Ingress,
        SequenceTheorems, FiniteSetTheorems, TLAPS

-----------------------------------------------------------------------------
(* Dynamic channels: what the gateway loaded, then what it serves, is what  *)
(* the row says of every channel with no change since that it was told of   *)
(* or could not hear of.                                                    *)
RowStates == {"absent", "off", "on"}

WiringTypes ==
  /\ row \in [Channels -> RowStates] /\ notices \in Nat
  /\ gateway \in {"boot", "booting", "deaf", "ready", "wiring"}
  /\ gateway \in {"boot", "booting", "deaf"} => notices = 0

\* A change the gateway was told of is loaded with the notice that is waiting.
ToldIsWaiting == told = {} \/ notices > 0 \/ gateway = "boot"
BootKnowsNothing == gateway = "boot" => told = Channels
LoadedFollowsRows == \A c \in Channels \ (unheard \cup told) : c \in loaded <=> row[c] = "on"
ServesLoaded == gateway \in {"boot", "deaf", "ready"} => handlers = loaded \ Unserved

WiringInv ==
  /\ WiringTypes /\ ToldIsWaiting /\ BootKnowsNothing /\ LoadedFollowsRows /\ ServesLoaded
  /\ handlers = adapters

\* The rows that change join those the gateway is told of or could not hear of.
LEMMA ChangeKeepsWiring ==
  ASSUME WiringInv, NEW changed \in SUBSET Channels, NEW state \in RowStates,
         ChangeRows(changed, state),
         (\E c \in Channels : changed = {c} /\ Announce(c)) \/ Silently(changed)
  PROVE  WiringInv'
<1>1. /\ UNCHANGED <<gateway, loaded, handlers, adapters>>
      /\ row' = [c \in Channels |-> IF c \in changed THEN state ELSE row[c]]
  BY DEF ChangeRows
<1>2. /\ told' = told \/ (notices' > 0 /\ gateway \in {"ready", "wiring"})
      /\ told \cup unheard \cup changed \subseteq told' \cup unheard'
      /\ notices' = notices \/ (notices' = notices + 1 /\ gateway \in {"ready", "wiring"})
  BY DEF Announce, Silently, WiringInv, WiringTypes
<1>3. WiringTypes'
  BY <1>1, <1>2 DEF WiringInv, WiringTypes
<1>4. ToldIsWaiting' /\ BootKnowsNothing'
  BY <1>1, <1>2 DEF WiringInv, WiringTypes, ToldIsWaiting, BootKnowsNothing
<1>5. LoadedFollowsRows'
  BY <1>1, <1>2 DEF WiringInv, LoadedFollowsRows
<1> QED BY <1>1, <1>3, <1>4, <1>5 DEF WiringInv, ServesLoaded

LEMMA WiringNextKeeps == WiringInv /\ [WiringNext]_wiringVars => WiringInv'
<1> SUFFICES ASSUME WiringInv, [WiringNext]_wiringVars PROVE WiringInv'
  OBVIOUS
<1>1. ASSUME NEW c \in Channels, CreateChannel(c) \/ UpdateChannel(c) \/ DeleteChannel(c) \/ ToggleChannel(c)
      PROVE  WiringInv'
  <2>1. row[c] \in RowStates /\ (IF row[c] = "on" THEN "off" ELSE "on") \in RowStates
    BY DEF WiringInv, WiringTypes, RowStates
  <2>2. PICK state \in RowStates : ChangeRows({c}, state) /\ (Announce(c) \/ Silently({c}))
    BY <1>1, <2>1 DEF CreateChannel, UpdateChannel, DeleteChannel, ToggleChannel, ChangeRow, RowStates
  <2> QED
    BY <2>2, ChangeKeepsWiring
<1>2. ASSUME NEW owned \in SUBSET Channels, DeleteTenant(owned) PROVE WiringInv'
  <2>1. ChangeRows(owned, "absent") /\ Silently(owned) /\ "absent" \in RowStates
    BY <1>2 DEF DeleteTenant, RowStates
  <2> QED BY <2>1, ChangeKeepsWiring
<1> USE DEF WiringInv, WiringTypes, ToldIsWaiting, BootKnowsNothing, LoadedFollowsRows, ServesLoaded
<1>3. CASE LoadAll
  <2>1. /\ UNCHANGED <<row, handlers, adapters>> /\ told' = {}
        /\ gateway = "boot" \/ (gateway = "ready" /\ notices > 0)
        /\ notices' = IF gateway = "boot" THEN notices ELSE notices - 1
    BY <1>3 DEF LoadAll
  <2>2. CASE UNCHANGED loaded /\ unheard' = unheard \cup told /\ gateway' = IF gateway = "boot" THEN "deaf" ELSE "ready"
    BY <2>1, <2>2
  <2>3. CASE loaded' = {c \in Channels : row[c] = "on"} /\ gateway' = IF gateway = "boot" THEN "booting" ELSE "wiring"
    BY <2>1, <2>3
  <2> QED BY <1>3, <2>2, <2>3 DEF LoadAll
<1>4. CASE Wire
  BY <1>4 DEF Wire
<1>5. CASE Subscribe
  BY <1>5 DEF Subscribe
<1>6. CASE UNCHANGED wiringVars
  BY <1>6 DEF wiringVars
<1> QED BY <1>1, <1>2, <1>3, <1>4, <1>5, <1>6 DEF WiringNext

(* With every notice handled, the gateway answers a channel's webhook       *)
(* exactly when the channel is enabled, and can send through what it        *)
(* answers, but for each channel whose last change nobody told it of: the   *)
(* toggle and the deletion of a tenant publish no notice, and a notice or a *)
(* reload may fail (setupDynamicChannelPipeline, publishInvalidation,       *)
(* toggleChannel, deleteTenant).                                            *)
THEOREM ServesWhatIsEnabled == WiringSpec => []ServingFollowsRows
<1>1. WiringInit => WiringInv
  BY ChannelWiringAssumption
  DEF WiringInit, WiringInv, WiringTypes, RowStates, ToldIsWaiting, BootKnowsNothing, LoadedFollowsRows, ServesLoaded
<1>2. WiringInv => ServingFollowsRows
  BY DEF WiringInv, ToldIsWaiting, LoadedFollowsRows, ServesLoaded, ServingFollowsRows, Settled, Enabled
<1> QED
  BY WiringNextKeeps, <1>1, <1>2, PTL DEF WiringSpec

-----------------------------------------------------------------------------
(* Tokens: while no caller's refresh overlapped the loop's, at most one     *)
(* refresh runs and what it is about to store is the newest token.          *)
Refreshes == [pc : {"idle", "ask", "store"}, try : Nat, token : Nat]

TokenTypes ==
  /\ issued \in Nat /\ tokenKey \in Nat /\ refresher \in [Refreshers -> Refreshes]
  /\ together \in BOOLEAN /\ unsaved \in BOOLEAN /\ unanswered \in BOOLEAN

\* One loop at most: a registration spawns one for a new channel only.
OneLoop == loops \subseteq {"loop"} /\ refresher["loop2"].pc = "idle"

\* What a refresh that ran alone has in hand.
Alone ==
  /\ refresher["callers"].pc = "idle" \/ refresher["loop"].pc = "idle"
  /\ \A r \in Refreshers : refresher[r].pc = "store" => refresher[r].token = issued

TokenInv == TokenTypes /\ OneLoop /\ (together \/ Alone) /\ TokenIsNewest

LEMMA RefreshBegins == ASSUME TokenInv, NEW r \in Refreshers, BeginRefresh(r) PROVE TokenInv'
<1> USE DEF TokenInv, TokenTypes, OneLoop, Refreshers, Refreshes
<1>1. /\ refresher' = [refresher EXCEPT ![r] = [pc |-> "ask", try |-> 1, token |-> 0]]
      /\ refresher[r].pc = "idle" /\ (r \in loops \/ r = "callers")
      /\ UNCHANGED <<issued, tokenKey, loops, unsaved, unanswered>>
  BY DEF BeginRefresh
<1>2. together' \in BOOLEAN
    /\ (together' <=> (together \/ ("callers" \in Busy \cup {r} /\ (Busy \cup {r}) \cap Loops # {})))
  BY Zenon DEF BeginRefresh
<1>3. refresher' \in [Refreshers -> Refreshes] /\ OneLoop'
  BY <1>1
<1>4. ASSUME ~together' PROVE Alone'
  <2>1. ~together /\ ("callers" \notin Busy \cup {r} \/ "loop" \notin Busy \cup {r})
    BY <1>2, <1>4 DEF Loops
  <2> QED BY <1>1, <2>1 DEF Busy, Alone
<1>5. ASSUME ~together' PROVE TokenIsNewest'
  <2>1. ~together
    BY <1>2, <1>5
  <2> QED BY <1>1, <2>1 DEF TokenIsNewest
<1>6. together' => TokenIsNewest'
  BY DEF TokenIsNewest
<1> QED BY <1>1, <1>2, <1>3, <1>4, <1>5, <1>6

LEMMA AskKeepsTokens == ASSUME TokenInv, NEW r \in Refreshers, AskPlatform(r) PROVE TokenInv'
<1> USE DEF TokenInv, TokenTypes, OneLoop, Refreshers, Refreshes
<1>1. refresher[r].pc = "ask" /\ UNCHANGED <<tokenKey, loops, together>>
  BY DEF AskPlatform
<1>2. CASE issued' = issued + 1 /\ unsaved' = FALSE /\ unanswered' = FALSE
           /\ refresher' = [refresher EXCEPT ![r] = [pc |-> "store", try |-> 0, token |-> issued + 1]]
  <2>1. TokenTypes' /\ OneLoop'
    <3>1. [pc |-> "store", try |-> 0, token |-> issued + 1] \in Refreshes /\ issued + 1 \in Nat
      OBVIOUS
    <3>2. refresher' \in [Refreshers -> Refreshes]
      <4> HIDE DEF Refreshes, Refreshers
      <4> QED BY <1>2, <3>1
    <3>3. r # "loop2" => refresher'["loop2"] = refresher["loop2"]
      BY <1>2
    <3>4. r # "loop2"
      BY <1>1
    <3> QED BY <1>1, <1>2, <3>1, <3>2, <3>3, <3>4
  <2>2. together \/ Alone'
    BY <1>1, <1>2 DEF Alone
  <2>3. TokenIsNewest'
    <3>1. refresher'[r].pc = "store" /\ refresher'[r].token = issued'
      BY <1>2
    <3> QED BY <3>1 DEF TokenIsNewest
  <2> QED BY <1>1, <2>1, <2>2, <2>3
<1>3. CASE /\ refresher' = [refresher EXCEPT ![r].try = @ + 1] \/ refresher' = [refresher EXCEPT ![r] = Idling]
           /\ \/ UNCHANGED <<issued, unsaved, unanswered>>
              \/ issued' = issued + 1 /\ unsaved' = FALSE /\ unanswered' = TRUE
  <2>1. /\ refresher' \in [Refreshers -> Refreshes]
        /\ \A s \in Refreshers : refresher'[s].pc = refresher[s].pc \/ refresher'[s].pc = "idle"
        /\ \A s \in Refreshers : s # r => refresher'[s] = refresher[s]
        /\ refresher'[r].pc # "store"
    BY <1>1, <1>3 DEF Idling
  <2>2. CASE UNCHANGED <<issued, unsaved, unanswered>>
    <3>1. Alone => Alone'
      BY <2>1, <2>2 DEF Alone
    <3>2. TokenIsNewest'
      BY <1>1, <2>1, <2>2 DEF TokenIsNewest
    <3> QED BY <1>1, <2>1, <2>2, <3>1, <3>2
  <2>3. CASE issued' = issued + 1 /\ unsaved' = FALSE /\ unanswered' = TRUE
    <3>1. ASSUME Alone PROVE \A s \in Refreshers : refresher'[s].pc # "store"
      BY <1>1, <2>1, <3>1 DEF Alone
    <3>2. Alone => Alone'
      BY <2>1, <3>1 DEF Alone
    <3>3. TokenIsNewest'
      BY <2>3 DEF TokenIsNewest
    <3>4. unsaved' \in BOOLEAN /\ unanswered' \in BOOLEAN
      BY <2>3, Zenon
    <3>5. TokenTypes' /\ OneLoop'
      BY <1>1, <2>1, <2>3, <3>4
    <3> QED BY <1>1, <3>2, <3>3, <3>5
  <2> QED BY <1>3, <2>2, <2>3
<1> QED BY <1>2, <1>3 DEF AskPlatform, IssueToken

LEMMA StoreKeepsTokens == ASSUME TokenInv, NEW r \in Refreshers, StoreToken(r) PROVE TokenInv'
<1> USE DEF TokenInv, TokenTypes, OneLoop, Refreshers, Refreshes
<1>1. /\ refresher[r].pc = "store" /\ refresher' = [refresher EXCEPT ![r] = Idling]
      /\ UNCHANGED <<issued, loops, unanswered>>
  BY DEF StoreToken
<1>2. refresher' \in [Refreshers -> Refreshes] /\ OneLoop'
  BY <1>1 DEF Idling
<1>3. Alone => Alone'
  BY <1>1, <1>2 DEF Alone, Idling
<1>4. CASE /\ tokenKey' = refresher[r].token /\ UNCHANGED unsaved
           /\ together' = (together /\ (Busy # {r} \/ refresher[r].token # issued))
  <2>1. together' \in BOOLEAN /\ (together' <=> (together /\ (Busy # {r} \/ refresher[r].token # issued)))
    BY <1>4, Zenon
  <2>2. ASSUME ~together' PROVE Alone' /\ TokenIsNewest'
    <3>1. CASE Busy = {r} /\ refresher[r].token = issued
      <4>1. \A s \in Refreshers : refresher'[s].pc = "idle"
        BY <1>1, <3>1 DEF Busy, Idling
      <4> QED BY <1>1, <1>4, <3>1, <4>1 DEF Alone, TokenIsNewest
    <3>2. CASE ~together
      <4>1. refresher[r].token = issued
        BY <1>1, <3>2 DEF Alone
      <4> QED BY <1>1, <1>3, <1>4, <3>2, <4>1 DEF TokenIsNewest
    <3> QED BY <2>1, <2>2, <3>1, <3>2
  <2>3. together' => TokenIsNewest'
    BY DEF TokenIsNewest
  <2> QED BY <1>1, <1>2, <1>4, <2>1, <2>2, <2>3
<1>5. CASE unsaved' = (unsaved \/ refresher[r].token = issued) /\ tokenKey' \in {tokenKey, refresher[r].token} /\ UNCHANGED together
  <2>1. unsaved' \in BOOLEAN /\ (unsaved' <=> (unsaved \/ refresher[r].token = issued))
    BY <1>5, Zenon
  <2>2. together \/ TokenIsNewest'
    <3>1. together \/ refresher[r].token = issued
      BY <1>1 DEF Alone
    <3> QED BY <2>1, <3>1 DEF TokenIsNewest
  <2>3. together' => TokenIsNewest'
    BY DEF TokenIsNewest
  <2> QED BY <1>1, <1>2, <1>3, <1>5, <2>1, <2>2, <2>3
<1> QED BY <1>4, <1>5 DEF StoreToken

LEMMA TokenNextKeeps == TokenInv /\ [TokenNext]_tokenVars => TokenInv'
<1> SUFFICES ASSUME TokenInv, [TokenNext]_tokenVars PROVE TokenInv'
  OBVIOUS
<1>1. CASE RegisterChannel \/ StartLoops \/ ExpireToken \/ UNCHANGED tokenVars
  <2> USE DEF TokenInv, TokenTypes, OneLoop, Alone, TokenIsNewest
  <2>1. CASE RegisterChannel
    BY <2>1 DEF RegisterChannel
  <2>2. CASE StartLoops
    BY <2>2 DEF StartLoops
  <2>3. CASE ExpireToken
    BY <2>3 DEF ExpireToken
  <2>4. CASE UNCHANGED tokenVars
    BY <2>4 DEF tokenVars
  <2> QED BY <1>1, <2>1, <2>2, <2>3, <2>4
<1> QED
  BY <1>1, RefreshBegins, AskKeepsTokens, StoreKeepsTokens DEF TokenNext

(* A token handed out is the newest but for the overlap of a caller's       *)
(* refresh with the loop's, a refresh whose answer was lost after the       *)
(* platform issued the token, a SET that failed, or one that is under way   *)
(* (GetToken, refreshToken, refreshLoop).                                   *)
THEOREM NewestToken == TokenSpec => []TokenIsNewest
<1>1. TokenInit => TokenInv
  <2> SUFFICES ASSUME TokenInit PROVE TokenInv
    OBVIOUS
  <2>1. refresher \in [Refreshers -> Refreshes] /\ \A r \in Refreshers : refresher[r].pc = "idle"
    BY DEF TokenInit, Idling, Refreshes
  <2> QED BY <2>1 DEF TokenInit, TokenInv, TokenTypes, OneLoop, Alone, TokenIsNewest, Refreshers
<1>2. TokenInv => TokenIsNewest
  BY DEF TokenInv
<1> QED
  BY TokenNextKeeps, <1>1, <1>2, PTL DEF TokenSpec

-----------------------------------------------------------------------------
(* The limiter: a request that counted is still in the sorted set while a   *)
(* window may hold it, so the last of a window's requests to count saw all  *)
(* the others.                                                              *)
Asked == [pc : {"new", "prune", "add", "count", "burst", "cool", "allowed", "refused", "uncounted"},
          at : Nat, count : Nat]

LimitTypes ==
  /\ clock \in Nat \ {0} /\ IsFiniteSet(hits) /\ \A h \in hits : h.at \in Nat
  /\ req \in [Requests -> Asked]

\* A request counts Lag ticks at most after it read the clock.
CountsInTime ==
  \A r \in Requests :
    /\ req[r].at <= clock
    /\ req[r].pc \in {"prune", "add", "count"} => clock <= req[r].at + Lag

Hit(r) == [of |-> r, at |-> req[r].at]
HitsStay ==
  \A r \in Requests : req[r].pc \in {"count", "burst", "cool", "allowed"} /\ clock < req[r].at + RateWindow
                        => Hit(r) \in hits

\* Requests of a window that are allowed, or will be once the burst is checked.
Passed(r) == req[r].pc = "allowed" \/ (req[r].pc \in {"burst", "cool"} /\ req[r].count <= MaxRequests)
PassedIn(t) == {r \in Requests : Passed(r) /\ t <= req[r].at /\ req[r].at < t + RateWindow - Lag}
FewPass == \A t \in Nat : IsFiniteSet(PassedIn(t)) /\ Cardinality(PassedIn(t)) <= MaxRequests

LimitInv == LimitTypes /\ CountsInTime /\ HitsStay /\ FewPass

\* A step that lets no other request pass, and takes no hit away too soon.
LEMMA NoneMorePass ==
  ASSUME LimitInv, \A r \in Requests : Passed(r)' => Passed(r) /\ req'[r].at = req[r].at
  PROVE  FewPass'
<1> SUFFICES ASSUME NEW t \in Nat
             PROVE  IsFiniteSet(PassedIn(t)') /\ Cardinality(PassedIn(t)') <= MaxRequests
  BY DEF FewPass
<1>1. PassedIn(t)' \subseteq PassedIn(t)
  BY DEF PassedIn
<1>2. IsFiniteSet(PassedIn(t)) /\ Cardinality(PassedIn(t)) <= MaxRequests
  BY DEF LimitInv, FewPass
<1>3. IsFiniteSet(PassedIn(t)') /\ Cardinality(PassedIn(t)') <= Cardinality(PassedIn(t))
  BY <1>1, <1>2, FS_Subset
<1>4. Cardinality(PassedIn(t)) \in Nat /\ Cardinality(PassedIn(t)') \in Nat
  BY <1>2, <1>3, FS_CardinalityType
<1> QED BY <1>2, <1>3, <1>4, LimitAssumption

LEMMA CountKeepsLimit == ASSUME LimitInv, NEW r \in Requests, Count(r) PROVE LimitInv'
<1> DEFINE n == Cardinality(hits)
           asked == [req[r] EXCEPT !.pc = "burst", !.count = n]
<1>1. n \in Nat
  BY FS_CardinalityType DEF LimitInv, LimitTypes
<1>2. /\ req[r].pc = "count" /\ req' = [req EXCEPT ![r] = asked] /\ UNCHANGED <<clock, hits, bursts, coolUntil, limitFaults>>
  BY DEF Count
<1>3. asked \in Asked /\ asked.pc = "burst" /\ asked.count = n /\ asked.at = req[r].at
  BY <1>1 DEF LimitInv, LimitTypes, Asked
<1> HIDE DEF n, asked
<1>4. /\ req' \in [Requests -> Asked] /\ req'[r] = asked
      /\ \A s \in Requests : s # r => req'[s] = req[s]
      /\ \A s \in Requests : req'[s].at = req[s].at
  BY <1>2, <1>3 DEF LimitInv, LimitTypes
<1>5. LimitTypes' /\ CountsInTime' /\ HitsStay'
  BY <1>2, <1>3, <1>4 DEF LimitInv, LimitTypes, CountsInTime, HitsStay, Hit
<1>6. ASSUME NEW t \in Nat PROVE IsFiniteSet(PassedIn(t)') /\ Cardinality(PassedIn(t)') <= MaxRequests
  <2>1. CASE r \notin PassedIn(t)'
    <3>1. PassedIn(t)' \subseteq PassedIn(t)
      BY <1>4, <2>1 DEF PassedIn, Passed
    <3>2. IsFiniteSet(PassedIn(t)) /\ Cardinality(PassedIn(t)) <= MaxRequests
      BY DEF LimitInv, FewPass
    <3>3. IsFiniteSet(PassedIn(t)') /\ Cardinality(PassedIn(t)') <= Cardinality(PassedIn(t))
      BY <3>1, <3>2, FS_Subset
    <3>4. Cardinality(PassedIn(t)) \in Nat /\ Cardinality(PassedIn(t)') \in Nat
      BY <3>2, <3>3, FS_CardinalityType
    <3> QED BY <3>2, <3>3, <3>4, LimitAssumption
  <2>2. CASE r \in PassedIn(t)'
    <3>1. n <= MaxRequests /\ t <= req[r].at /\ req[r].at < t + RateWindow - Lag
      BY <1>3, <1>4, <2>2 DEF PassedIn, Passed
    <3>2. ASSUME NEW s \in PassedIn(t)' PROVE [of |-> s, at |-> req[s].at] \in hits
      <4>1. s \in Requests /\ req[s].pc \in {"count", "burst", "cool", "allowed"} /\ t <= req[s].at
        BY <1>2, <1>4 DEF PassedIn, Passed
      <4>2. clock < req[s].at + RateWindow
        <5>1. clock <= req[r].at + Lag /\ clock \in Nat /\ req[r].at \in Nat /\ req[s].at \in Nat
          BY <1>2, <4>1 DEF LimitInv, CountsInTime, LimitTypes, Asked
        <5> QED BY <3>1, <4>1, <5>1, LimitAssumption
      <4> QED BY <4>1, <4>2 DEF LimitInv, HitsStay, Hit
    <3> DEFINE f == [s \in PassedIn(t)' |-> [of |-> s, at |-> req[s].at]]
    <3>3. f \in Injection(PassedIn(t)', hits)
      <4>1. f \in [PassedIn(t)' -> hits]
        BY <3>2
      <4>2. \A a, b \in PassedIn(t)' : f[a] = f[b] => a = b
        OBVIOUS
      <4> QED BY <4>1, <4>2 DEF Injection, IsInjective
    <3> HIDE DEF f
    <3>4. IsFiniteSet(PassedIn(t)') /\ Cardinality(PassedIn(t)') <= n
      BY <3>3, FS_Injection DEF LimitInv, LimitTypes, n
    <3>5. Cardinality(PassedIn(t)') \in Nat
      BY <3>4, FS_CardinalityType
    <3> QED BY <1>1, <3>1, <3>4, <3>5, LimitAssumption
  <2> QED BY <2>1, <2>2
<1> QED BY <1>5, <1>6 DEF LimitInv, FewPass


\* A request moves on: it lets no one pass whom it did not, and keeps the hits
\* that a window may still hold, its own among them.
LEMMA MoveKeepsLimit ==
  ASSUME LimitInv, NEW r \in Requests, NEW a \in Asked, req' = [req EXCEPT ![r] = a], clock' = clock,
         IsFiniteSet(hits'), \A h \in hits' : h.at \in Nat,
         a.at <= clock,
         a.pc \in {"prune", "add", "count"} => clock <= a.at + Lag,
         \A h \in hits : clock < h.at + RateWindow => h \in hits',
         a.pc \in {"count", "burst", "cool", "allowed"} /\ clock < a.at + RateWindow
            => [of |-> r, at |-> a.at] \in hits',
         a.pc = "allowed" \/ (a.pc \in {"burst", "cool"} /\ a.count <= MaxRequests)
            => Passed(r) /\ a.at = req[r].at
  PROVE  LimitInv'
<1>1. /\ req' \in [Requests -> Asked] /\ req'[r] = a
      /\ \A s \in Requests : s # r => req'[s] = req[s]
  BY DEF LimitInv, LimitTypes
<1>2. LimitTypes'
  BY <1>1 DEF LimitInv, LimitTypes
<1>3. CountsInTime'
  BY <1>1 DEF LimitInv, CountsInTime
<1>4. HitsStay'
  <2>1. ASSUME NEW s \in Requests, s # r, req[s].pc \in {"count", "burst", "cool", "allowed"},
               clock < req[s].at + RateWindow
        PROVE  [of |-> s, at |-> req[s].at] \in hits'
    <3>1. [of |-> s, at |-> req[s].at] \in hits
      BY <2>1 DEF LimitInv, HitsStay, Hit
    <3> QED BY <2>1, <3>1
  <2> QED BY <1>1, <2>1 DEF HitsStay, Hit
<1>5. \A s \in Requests : Passed(s)' => Passed(s) /\ req'[s].at = req[s].at
  BY <1>1 DEF Passed
<1> QED BY <1>2, <1>3, <1>4, <1>5, NoneMorePass DEF LimitInv

\* The same, with only the step of the request changed.
LEMMA StepKeepsLimit ==
  ASSUME LimitInv, NEW r \in Requests,
         NEW p \in {"add", "count", "burst", "cool", "allowed", "refused", "uncounted"},
         Step(r, p), req[r].pc # "new", UNCHANGED clock,
         IsFiniteSet(hits'), \A h \in hits' : h.at \in Nat,
         \A h \in hits : clock < h.at + RateWindow => h \in hits',
         p \in {"add", "count"} => req[r].pc \in {"prune", "add"},
         p = "count" => Hit(r) \in hits',
         p \in {"burst", "cool", "allowed"} => req[r].pc \in {"burst", "cool"},
         p = "allowed" => Verdict(req[r].count) = "allowed"
  PROVE  LimitInv'
<1> DEFINE a == [req[r] EXCEPT !.pc = p]
<1>1. /\ a \in Asked /\ a.pc = p /\ a.at = req[r].at /\ a.count = req[r].count
      /\ a.at \in Nat /\ a.count \in Nat
  BY DEF LimitInv, LimitTypes, Asked
<1>2. req' = [req EXCEPT ![r] = a]
  BY DEF Step
<1> HIDE DEF a
<1>3. a.at <= clock /\ (p \in {"add", "count"} => clock <= a.at + Lag)
  BY <1>1 DEF LimitInv, CountsInTime
<1>4. p \in {"count", "burst", "cool", "allowed"} /\ clock < a.at + RateWindow
        => [of |-> r, at |-> a.at] \in hits'
  BY <1>1 DEF LimitInv, HitsStay, Hit
<1>5. p = "allowed" \/ (p \in {"burst", "cool"} /\ a.count <= MaxRequests) => Passed(r)
  BY <1>1, LimitAssumption DEF Passed, Verdict
<1> QED BY <1>1, <1>2, <1>3, <1>4, <1>5, MoveKeepsLimit

LEMMA LimitNextKeeps == LimitInv /\ [LimitNext]_limitVars => LimitInv'
<1> SUFFICES ASSUME LimitInv, [LimitNext]_limitVars PROVE LimitInv'
  OBVIOUS
<1> USE LimitAssumption
<1>1. CASE UNCHANGED limitVars
  BY <1>1 DEF limitVars, LimitInv, LimitTypes, CountsInTime, HitsStay, Hit, FewPass, PassedIn, Passed
<1>2. CASE Tick
  <2>1. clock' = clock + 1 /\ UNCHANGED <<hits, req>>
    BY <1>2 DEF Tick
  <2>2. \A r \in Requests : req[r].pc \in {"prune", "add", "count"} => clock < req[r].at + Lag
    BY <1>2 DEF Tick, Counting
  <2>3. LimitTypes' /\ CountsInTime' /\ HitsStay'
    <3>1. \A r \in Requests : req[r].at \in Nat
      BY DEF LimitInv, LimitTypes, Asked
    <3> QED BY <2>1, <2>2, <3>1 DEF LimitInv, LimitTypes, CountsInTime, HitsStay, Hit
  <2> QED BY <2>1, <2>3, NoneMorePass DEF LimitInv, Passed
<1>3. /\ IsFiniteSet(hits) /\ \A h \in hits : h.at \in Nat
      /\ \A r \in Requests : req[r] \in Asked /\ req[r].at \in Nat /\ req[r].count \in Nat
      /\ clock \in Nat
  BY DEF LimitInv, LimitTypes, Asked
<1>4. ASSUME NEW r \in Requests, Admit(r) PROVE LimitInv'
  <2>1. UNCHANGED <<clock, hits>> /\ req[r].pc = "new"
    BY <1>4 DEF Admit
  <2>2. CASE Step(r, "refused")
    <3> DEFINE a == [req[r] EXCEPT !.pc = "refused"]
    <3>1. a \in Asked /\ a.pc = "refused" /\ a.at = req[r].at
      BY <1>3 DEF Asked
    <3>2. req' = [req EXCEPT ![r] = a]
      BY <2>2 DEF Step
    <3> HIDE DEF a
    <3>3. a.at <= clock /\ IsFiniteSet(hits') /\ hits' = hits /\ \A h \in hits' : h.at \in Nat
      BY <1>3, <2>1, <3>1 DEF LimitInv, CountsInTime
    <3> QED BY <2>1, <3>1, <3>2, <3>3, MoveKeepsLimit
  <2>3. CASE req' = [req EXCEPT ![r] = [@ EXCEPT !.pc = "prune", !.at = clock]]
    <3> DEFINE a == [req[r] EXCEPT !.pc = "prune", !.at = clock]
    <3>1. a \in Asked /\ a.pc = "prune" /\ a.at = clock
      BY <1>3 DEF Asked
    <3>2. req' = [req EXCEPT ![r] = a]
      BY <2>3
    <3> HIDE DEF a
    <3>3. /\ a.at <= clock /\ clock <= a.at + Lag
          /\ IsFiniteSet(hits') /\ hits' = hits /\ \A h \in hits' : h.at \in Nat
      BY <1>3, <2>1, <3>1
    <3> QED BY <2>1, <3>1, <3>2, <3>3, MoveKeepsLimit
  <2> QED BY <1>4, <2>2, <2>3 DEF Admit
<1>5. ASSUME NEW r \in Requests, Prune(r) PROVE LimitInv'
  <2>1. req[r].pc = "prune" /\ Step(r, "add") /\ hits' = Within(hits, req[r].at, RateWindow) /\ UNCHANGED clock
    BY <1>5 DEF Prune
  <2>2. req[r].at <= clock
    BY <2>1 DEF LimitInv, CountsInTime
  <2>3. hits' \subseteq hits /\ \A h \in hits : clock < h.at + RateWindow => h \in hits'
    BY <1>3, <2>1, <2>2 DEF Within
  <2>4. IsFiniteSet(hits') /\ \A h \in hits' : h.at \in Nat
    BY <1>3, <2>3, FS_Subset
  <2> QED BY <2>1, <2>3, <2>4, StepKeepsLimit
<1>6. ASSUME NEW r \in Requests, Record(r) PROVE LimitInv'
  <2>1. req[r].pc = "add" /\ Step(r, "count") /\ hits' = hits \cup {Hit(r)} /\ UNCHANGED clock
    BY <1>6 DEF Record, Hit
  <2>2. IsFiniteSet(hits')
    BY <1>3, <2>1, FS_AddElement
  <2>3. Hit(r).at \in Nat /\ \A h \in hits' : h \in hits \/ h = Hit(r)
    BY <1>3, <2>1 DEF Hit
  <2>4. \A h \in hits' : h.at \in Nat
    BY <1>3, <2>3
  <2> QED BY <2>1, <2>2, <2>4, StepKeepsLimit
<1>7. ASSUME NEW r \in Requests, PipelineFails(r) PROVE LimitInv'
  BY <1>3, <1>7, StepKeepsLimit DEF PipelineFails
<1>8. ASSUME NEW r \in Requests, Burst(r) PROVE LimitInv'
  <2>1. PICK p \in {"cool", Verdict(req[r].count)} : Step(r, p)
    BY <1>8 DEF Burst
  <2>2. req[r].pc = "burst" /\ UNCHANGED <<clock, hits>> /\ p \in {"cool", "allowed", "refused"}
    BY <1>8, <2>1 DEF Burst, Verdict
  <2> QED BY <1>3, <2>1, <2>2, StepKeepsLimit
<1>9. ASSUME NEW r \in Requests, Cool(r) PROVE LimitInv'
  <2>1. PICK p \in {Verdict(req[r].count)} : Step(r, p)
    BY <1>9 DEF Cool
  <2>2. req[r].pc = "cool" /\ UNCHANGED <<clock, hits>> /\ p \in {"allowed", "refused"}
    BY <1>9, <2>1 DEF Cool, Verdict
  <2> QED BY <1>3, <2>1, <2>2, StepKeepsLimit
<1> QED
  BY <1>1, <1>2, <1>4, <1>5, <1>6, <1>7, <1>8, <1>9, CountKeepsLimit DEF LimitNext

(* However the pipelines of the requests interleave, no window, shorter by  *)
(* the lag, has more allowed requests than the limit (ChannelLimiter.Allow, *)
(* burst detector).                                                         *)
THEOREM WithinLimit == LimitSpec => []AllowedWithinLimit
<1>1. LimitInit => LimitInv
  <2> SUFFICES ASSUME LimitInit PROVE LimitInv
    OBVIOUS
  <2>1. req \in [Requests -> Asked] /\ \A r \in Requests : req[r].pc = "new"
    BY DEF LimitInit, Asked
  <2>2. \A t \in Nat : PassedIn(t) = {}
    BY <2>1 DEF PassedIn, Passed
  <2> QED
    BY <2>1, <2>2, FS_EmptySet, LimitAssumption
    DEF LimitInit, LimitInv, LimitTypes, CountsInTime, HitsStay, FewPass
<1>2. LimitInv => AllowedWithinLimit
  <2> SUFFICES ASSUME LimitInv, NEW t \in 1 .. MaxTicks
               PROVE  Cardinality({r \in Requests : /\ req[r].pc = "allowed"
                                                    /\ t <= req[r].at /\ req[r].at < t + RateWindow - Lag})
                         <= MaxRequests
    BY DEF AllowedWithinLimit
  <2> DEFINE A == {r \in Requests : /\ req[r].pc = "allowed"
                                    /\ t <= req[r].at /\ req[r].at < t + RateWindow - Lag}
  <2>1. A \subseteq PassedIn(t)
    BY DEF PassedIn, Passed
  <2>2. IsFiniteSet(PassedIn(t)) /\ Cardinality(PassedIn(t)) <= MaxRequests
    BY LimitAssumption DEF LimitInv, FewPass
  <2> HIDE DEF A
  <2>3. IsFiniteSet(A) /\ Cardinality(A) <= Cardinality(PassedIn(t))
    BY <2>1, <2>2, FS_Subset
  <2>4. Cardinality(PassedIn(t)) \in Nat /\ Cardinality(A) \in Nat
    BY <2>2, <2>3, FS_CardinalityType
  <2>5. Cardinality(A) <= MaxRequests
    BY <2>2, <2>3, <2>4, LimitAssumption
  <2> QED BY <2>5 DEF A
<1> QED
  BY LimitNextKeeps, <1>1, <1>2, PTL DEF LimitSpec

-----------------------------------------------------------------------------
(* Signing in: a pair is dated at most HandlerLag after the account went    *)
(* inactive, since a handler that issues one found it active when it began. *)
Signing == [pc : {"free", "delete", "load", "issue", "store", "edit"},
            started : Nat, read : BOOLEAN, pair : Nat]

AccessTypes ==
  /\ now \in Nat \ {0} /\ active \in BOOLEAN /\ offSince \in Nat /\ offSince <= now
  /\ offSince # 0 <=> active = FALSE
  /\ IsFiniteSet(pairs) /\ \A p \in pairs : p.id \in Nat /\ p.at \in Nat /\ p.at <= now
  /\ handler \in [Handlers -> Signing]

\* A handler about to issue a pair is not late, and it found an active account.
IssuesInTime ==
  \A h \in Handlers : handler[h].pc = "issue" =>
    /\ handler[h].started <= now /\ now <= handler[h].started + HandlerLag
    /\ offSince # 0 => handler[h].started <= offSince

PairsInTime == offSince # 0 => \A p \in pairs : p.at <= offSince + HandlerLag

AccessInv == AccessTypes /\ IssuesInTime /\ PairsInTime

\* The account is switched on or off while the handlers go on as they were, or
\* let go.
LEMMA SwitchingKeepsAccess ==
  ASSUME AccessInv, NEW on \in BOOLEAN, SetActive(on), UNCHANGED <<now, pairs>>,
         handler' \in [Handlers -> Signing],
         \A h \in Handlers : handler'[h].pc = "issue" => handler'[h] = handler[h]
  PROVE  AccessInv'
<1> USE AccessAssumption DEF AccessInv, AccessTypes, IssuesInTime, PairsInTime
<1> HIDE DEF Signing
<1>1. /\ active' = on /\ offSince' \in Nat /\ offSince' <= now /\ (offSince' # 0 <=> active' = FALSE)
      /\ offSince' # 0 => offSince' = now \/ (offSince' = offSince /\ offSince # 0)
  BY DEF SetActive
<1>2. \A h \in Handlers : handler[h].started \in Nat
  BY DEF Signing
<1> QED BY <1>1, <1>2

LEMMA AccessNextKeeps == AccessInv /\ [AccessNext]_accessVars => AccessInv'
<1> SUFFICES ASSUME AccessInv, [AccessNext]_accessVars PROVE AccessInv'
  OBVIOUS
<1> USE AccessAssumption DEF AccessInv
<1>1. Free \in Signing /\ Free.pc = "free"
  BY DEF Free, Signing
<1>2. CASE AccessTick
  <2>1. \A h \in Handlers : handler[h].started \in Nat
    BY DEF AccessTypes, Signing
  <2> QED BY <1>2, <2>1 DEF AccessTick, AccessTypes, IssuesInTime, PairsInTime
<1>3. CASE UNCHANGED accessVars
  BY <1>3 DEF accessVars, AccessTypes, IssuesInTime, PairsInTime
<1>4. ASSUME NEW h \in Handlers, Login(h) PROVE AccessInv'
  <2>1. [Free EXCEPT !.pc = "issue", !.started = now] \in Signing
        /\ [Free EXCEPT !.pc = "issue", !.started = now].started = now
    BY DEF Free, Signing, AccessTypes
  <2> QED BY <1>4, <2>1 DEF Login, MayIssue, AccessTypes, IssuesInTime, PairsInTime
<1>5. ASSUME NEW h \in Handlers, NEW p \in pairs, Refresh(h, p) PROVE AccessInv'
  <2>1. /\ [Free EXCEPT !.pc = "delete", !.pair = p.id] \in Signing
        /\ [Free EXCEPT !.pc = "delete", !.pair = p.id].pc = "delete"
    BY DEF Free, Signing, AccessTypes
  <2> QED BY <1>5, <2>1 DEF Refresh, AccessTypes, IssuesInTime, PairsInTime
<1>6. ASSUME NEW h \in Handlers, DeleteKey(h) PROVE AccessInv'
  <2>1. handler' \in [Handlers -> Signing] /\ \A g \in Handlers : handler'[g].pc = "issue" => handler'[g] = handler[g]
    BY <1>6 DEF DeleteKey, Moves, AccessTypes, Signing
  <2> QED BY <1>6, <2>1 DEF DeleteKey, AccessTypes, IssuesInTime, PairsInTime
<1>7. ASSUME NEW h \in Handlers, LoadUser(h) PROVE AccessInv'
  <2>1. CASE MayIssue(h) /\ handler' = [handler EXCEPT ![h].pc = "issue", ![h].started = now]
    <3>1. handler' \in [Handlers -> Signing]
      BY <2>1 DEF AccessTypes, Signing
    <3>2. handler'[h].started = now /\ \A g \in Handlers : g # h => handler'[g] = handler[g]
      BY <2>1 DEF AccessTypes, Signing
    <3> QED BY <1>7, <2>1, <3>1, <3>2 DEF LoadUser, MayIssue, AccessTypes, IssuesInTime, PairsInTime
  <2>2. CASE Frees(h)
    BY <1>1, <1>7, <2>2 DEF LoadUser, Frees, AccessTypes, IssuesInTime, PairsInTime
  <2> QED BY <1>7, <2>1, <2>2 DEF LoadUser
<1>8. ASSUME NEW h \in Handlers, Issue(h) PROVE AccessInv'
  <2> DEFINE new == Cardinality(pairs) + 1
  <2>1. /\ pairs' = pairs \cup {[id |-> new, at |-> now]}
        /\ handler' = [handler EXCEPT ![h].pc = "store", ![h].pair = new]
        /\ handler[h].pc = "issue" /\ UNCHANGED <<now, active, offSince>>
    BY <1>8 DEF Issue
  <2>2. new \in Nat
    BY FS_CardinalityType DEF AccessTypes
  <2>3. IsFiniteSet(pairs')
    BY <2>1, FS_AddElement DEF AccessTypes
  <2> HIDE DEF new
  <2>4. handler' \in [Handlers -> Signing] /\ \A g \in Handlers : handler'[g].pc = "issue" => handler'[g] = handler[g]
    BY <2>1, <2>2 DEF AccessTypes, Signing
  <2>5. AccessTypes'
    BY <2>1, <2>2, <2>3, <2>4 DEF AccessTypes
  <2>6. offSince # 0 => now <= offSince + HandlerLag
    <3>1. handler[h].started \in Nat
      BY DEF AccessTypes, Signing
    <3> QED BY <2>1, <3>1 DEF IssuesInTime, AccessTypes
  <2> QED BY <2>1, <2>4, <2>5, <2>6 DEF IssuesInTime, PairsInTime
<1>9. ASSUME NEW h \in Handlers, StoreKey(h) PROVE AccessInv'
  BY <1>1, <1>9 DEF StoreKey, Frees, AccessTypes, IssuesInTime, PairsInTime
<1>10. ASSUME NEW h \in Handlers, DeactivateUser(h) PROVE AccessInv'
  BY <1>10, SwitchingKeepsAccess DEF DeactivateUser, AccessTypes
<1>11. ASSUME NEW h \in Handlers, EditUser(h) PROVE AccessInv'
  <2>1. PICK on \in BOOLEAN : handler' = [handler EXCEPT ![h] = [Free EXCEPT !.pc = "edit", !.read = on]]
    BY <1>11 DEF EditUser
  <2>2. [Free EXCEPT !.pc = "edit", !.read = on] \in Signing /\ [Free EXCEPT !.pc = "edit", !.read = on].pc = "edit"
    BY DEF Free, Signing
  <2> QED BY <1>11, <2>1, <2>2 DEF EditUser, AccessTypes, IssuesInTime, PairsInTime
<1>12. ASSUME NEW h \in Handlers, WriteUser(h) PROVE AccessInv'
  <2>1. /\ handler' \in [Handlers -> Signing] /\ UNCHANGED <<now, pairs>>
        /\ \A g \in Handlers : handler'[g].pc = "issue" => handler'[g] = handler[g]
    BY <1>1, <1>12 DEF WriteUser, Frees, AccessTypes
  <2>2. CASE SetActive(handler[h].read)
    <3>1. handler[h].read \in BOOLEAN
      BY DEF AccessTypes, Signing
    <3> QED BY <2>1, <2>2, <3>1, SwitchingKeepsAccess
  <2>3. CASE UNCHANGED <<active, offSince>>
    BY <2>1, <2>3 DEF AccessTypes, IssuesInTime, PairsInTime
  <2> QED BY <1>12, <2>2, <2>3 DEF WriteUser
<1> QED
  BY <1>2, <1>3, <1>4, <1>5, <1>6, <1>7, <1>8, <1>9, <1>10, <1>11, <1>12 DEF AccessNext

(* A deactivated account is out of the console once the access tokens it    *)
(* had have expired: neither HandleRefresh nor a HandleLogin under way      *)
(* prolongs it.                                                             *)
THEOREM InactiveIsOut == AccessSpec => []InactiveFadesOut
<1>1. AccessInit => AccessInv
  <2>1. Free \in Signing /\ Free.pc = "free"
    BY DEF Free, Signing
  <2> QED BY <2>1, FS_EmptySet DEF AccessInit, AccessInv, AccessTypes, IssuesInTime, PairsInTime
<1>2. AccessInv => InactiveFadesOut
  BY AccessAssumption DEF AccessInv, AccessTypes, PairsInTime, InactiveFadesOut, Believed
<1> QED
  BY AccessNextKeeps, <1>1, <1>2, PTL DEF AccessSpec

-----------------------------------------------------------------------------
(* The audit trail: an entry that left its request is at one place, in the  *)
(* buffer, with the logger or in the trail, or it is lost.                  *)
Entries == [pc : {"before", "handle", "after", "log", "done"}, before : Nat, wrote : Nat, after : Nat]

On(s, w) == \E i \in DOMAIN s : s[i] = w
NoneTwice(s) == \A i, j \in DOMAIN s : s[i] = s[j] => i = j

AuditTypes ==
  /\ edition \in Nat \ {0} /\ audited \in [WriteRequests -> Entries]
  /\ buffer \in Seq(WriteRequests) /\ logging \in Seq(WriteRequests) /\ trail \in Seq(WriteRequests)
  /\ logging = <<>> \/ \E w \in WriteRequests : logging = <<w>>

\* The two snapshots so far lie on either side of the write.
EntryOK(a, e) ==
  /\ a.before <= e /\ a.wrote <= e
  /\ a.pc \in {"before", "handle"} => a.wrote = 0
  /\ a.pc \in {"after", "log"} => a.wrote # 0
  /\ a.wrote # 0 => a.before < a.wrote
  /\ a.wrote # 0 /\ a.pc \in {"log", "done"} => a.wrote <= a.after

OnePlace ==
  /\ NoneTwice(buffer) /\ NoneTwice(trail)
  /\ \A w \in WriteRequests :
       /\ ~(On(buffer, w) /\ On(logging, w)) /\ ~(On(buffer, w) /\ On(trail, w))
       /\ ~(On(logging, w) /\ On(trail, w))
       /\ On(buffer, w) \/ On(logging, w) \/ On(trail, w) =>
            audited[w].pc = "done" /\ audited[w].wrote # 0 /\ w \notin lost
       /\ w \in lost /\ Running => audited[w].pc = "done"

SomePlace ==
  /\ \A w \in WriteRequests : audited[w].wrote # 0 /\ (Running => audited[w].pc = "done") =>
       On(buffer, w) \/ On(logging, w) \/ On(trail, w) \/ w \in lost
  /\ ~Running => buffer = <<>> /\ logging = <<>>

AuditInv == AuditTypes /\ (\A w \in WriteRequests : EntryOK(audited[w], edition)) /\ OnePlace /\ SomePlace

\* What an entry put at the end of a queue, or taken from its head, changes.
LEMMA PutAtEnd ==
  ASSUME NEW S, NEW s \in Seq(S), NEW w \in S
  PROVE  /\ Append(s, w) \in Seq(S) /\ \A v : On(Append(s, w), v) <=> On(s, v) \/ v = w
         /\ NoneTwice(s) /\ ~On(s, w) => NoneTwice(Append(s, w))
<1> DEFINE t == Append(s, w)
<1>1. /\ DOMAIN s = 1 .. Len(s) /\ DOMAIN t = 1 .. Len(s) + 1
      /\ t \in Seq(S) /\ t[Len(s) + 1] = w
      /\ \A i \in 1 .. Len(s) : t[i] = s[i]
      /\ Len(s) \in Nat
  BY AppendProperties
<1>2. 1 .. Len(s) + 1 = (1 .. Len(s)) \cup {Len(s) + 1} /\ Len(s) + 1 \notin 1 .. Len(s)
  BY <1>1
<1> HIDE DEF t
<1>3. \A v : On(t, v) <=> On(s, v) \/ v = w
  <2> SUFFICES ASSUME NEW v PROVE On(t, v) <=> On(s, v) \/ v = w
    OBVIOUS
  <2>1. On(t, v) <=> \E i \in (1 .. Len(s)) \cup {Len(s) + 1} : t[i] = v
    BY <1>1, <1>2 DEF On
  <2>2. On(s, v) <=> \E i \in 1 .. Len(s) : t[i] = v
    BY <1>1 DEF On
  <2> QED BY <1>1, <2>1, <2>2
<1>4. ASSUME NoneTwice(s), ~On(s, w) PROVE NoneTwice(t)
  <2> SUFFICES ASSUME NEW i \in 1 .. Len(s) + 1, NEW j \in 1 .. Len(s) + 1, t[i] = t[j] PROVE i = j
    BY <1>1 DEF NoneTwice
  <2> QED BY <1>1, <1>2, <1>4 DEF On, NoneTwice
<1> QED BY <1>1, <1>3, <1>4 DEF t

LEMMA TakeFromHead ==
  ASSUME NEW S, NEW s \in Seq(S), s # <<>>
  PROVE  /\ Head(s) \in S /\ Tail(s) \in Seq(S)
         /\ \A v : On(s, v) <=> v = Head(s) \/ On(Tail(s), v)
         /\ NoneTwice(s) => NoneTwice(Tail(s)) /\ ~On(Tail(s), Head(s))
<1>1. /\ Head(s) \in S /\ Tail(s) \in Seq(S) /\ Len(Tail(s)) = Len(s) - 1 /\ Len(s) \in Nat \ {0}
      /\ \A i \in 1 .. Len(s) - 1 : Tail(s)[i] = s[i + 1]
      /\ Head(s) = s[1] /\ DOMAIN s = 1 .. Len(s) /\ DOMAIN Tail(s) = 1 .. Len(s) - 1
  <2>1. Len(s) \in Nat \ {0}
    BY EmptySeq
  <2> QED BY <2>1, HeadTailProperties
<1>2. ASSUME NEW v PROVE On(s, v) <=> v = Head(s) \/ On(Tail(s), v)
  <2>1. ASSUME NEW i \in 1 .. Len(s), s[i] = v, v # Head(s) PROVE On(Tail(s), v)
    <3>1. i - 1 \in 1 .. Len(s) - 1 /\ Tail(s)[i - 1] = s[i]
      BY <1>1, <2>1
    <3> QED BY <1>1, <2>1, <3>1 DEF On
  <2>2. ASSUME NEW i \in 1 .. Len(s) - 1, Tail(s)[i] = v PROVE On(s, v)
    <3>1. i + 1 \in 1 .. Len(s) /\ s[i + 1] = v
      BY <1>1, <2>2
    <3> QED BY <1>1, <3>1 DEF On
  <2>3. v = Head(s) => On(s, v)
    <3>1. 1 \in 1 .. Len(s)
      BY <1>1
    <3> QED BY <1>1, <3>1 DEF On
  <2> QED BY <1>1, <2>1, <2>2, <2>3 DEF On
<1>3. ASSUME NoneTwice(s) PROVE NoneTwice(Tail(s)) /\ ~On(Tail(s), Head(s))
  <2>1. ASSUME NEW i \in 1 .. Len(s) - 1, NEW j \in 1 .. Len(s) - 1, Tail(s)[i] = Tail(s)[j] PROVE i = j
    <3>1. i + 1 \in 1 .. Len(s) /\ j + 1 \in 1 .. Len(s) /\ s[i + 1] = s[j + 1]
      BY <1>1, <2>1
    <3>2. i + 1 = j + 1
      BY <1>1, <1>3, <3>1 DEF NoneTwice
    <3> QED BY <3>2
  <2>2. ASSUME NEW i \in 1 .. Len(s) - 1, Tail(s)[i] = Head(s) PROVE FALSE
    <3>1. i + 1 \in 1 .. Len(s) /\ 1 \in 1 .. Len(s) /\ s[i + 1] = s[1] /\ i + 1 # 1
      BY <1>1, <2>2
    <3> QED BY <1>1, <1>3, <3>1 DEF NoneTwice
  <2> QED BY <1>1, <2>1, <2>2 DEF On, NoneTwice
<1> QED BY <1>1, <1>2, <1>3

LEMMA NobodyOnEmpty == (\A w : ~On(<<>>, w)) /\ NoneTwice(<<>>)
  BY DEF On, NoneTwice

LEMMA OnlyOnSingle == \A w, v : On(<<w>>, v) <=> v = w
  BY DEF On

Went(pc, before, wrote, after) == [pc |-> pc, before |-> before, wrote |-> wrote, after |-> after]

LEMMA HandlerSaved ==
  ASSUME NEW r \in Entries, NEW x
  PROVE  [r EXCEPT !.wrote = x, !.pc = "after"] = Went("after", r.before, x, r.after)
<1> DEFINE e == [r EXCEPT !.wrote = x, !.pc = "after"]
           f == Went("after", r.before, x, r.after)
           fields == {"pc", "before", "wrote", "after"}
<1>1. e.pc = f.pc /\ e.before = f.before /\ e.wrote = f.wrote /\ e.after = f.after
  BY DEF Went, Entries
<1>2. e = [i \in fields |-> e[i]] /\ f = [i \in fields |-> f[i]]
  BY DEF Went, Entries
<1> HIDE DEF e, f
<1>3. \A i \in fields : e[i] = f[i]
  BY <1>1
<1>4. e = f
  BY <1>2, <1>3
<1> QED BY <1>4 DEF e, f

LEMMA Snapshotted ==
  ASSUME NEW r \in Entries, NEW x
  PROVE  [r EXCEPT !.after = x, !.pc = "log"] = Went("log", r.before, r.wrote, x)
<1> DEFINE e == [r EXCEPT !.after = x, !.pc = "log"]
           f == Went("log", r.before, r.wrote, x)
           fields == {"pc", "before", "wrote", "after"}
<1>1. e.pc = f.pc /\ e.before = f.before /\ e.wrote = f.wrote /\ e.after = f.after
  BY DEF Went, Entries
<1>2. e = [i \in fields |-> e[i]] /\ f = [i \in fields |-> f[i]]
  BY DEF Went, Entries
<1> HIDE DEF e, f
<1>3. \A i \in fields : e[i] = f[i]
  BY <1>1
<1>4. e = f
  BY <1>2, <1>3
<1> QED BY <1>4 DEF e, f

\* A step of a request that leaves the queues alone.
LEMMA RequestKeepsTrail ==
  ASSUME AuditInv, Running, NEW w \in WriteRequests, NEW a \in Entries,
         audited' = [audited EXCEPT ![w] = a], audited[w].pc # "done",
         edition' \in Nat, edition <= edition', EntryOK(a, edition'),
         a.pc = "done" => a.wrote = 0,
         UNCHANGED <<buffer, logging, trail, lost, up>>
  PROVE  AuditInv'
<1>1. Running' /\ edition' # 0
  BY DEF Running, AuditInv, AuditTypes
<1>2. AuditTypes'
  BY <1>1 DEF AuditInv, AuditTypes
<1>3. audited'[w] = a /\ \A v \in WriteRequests : v # w => audited'[v] = audited[v]
  BY DEF AuditInv, AuditTypes
<1>4. \A v \in WriteRequests : EntryOK(audited'[v], edition')
  <2>1. ASSUME NEW v \in WriteRequests, v # w PROVE EntryOK(audited'[v], edition')
    <3>1. audited[v] \in Entries
      BY DEF AuditInv, AuditTypes
    <3>2. EntryOK(audited[v], edition) /\ audited'[v] = audited[v] /\ edition \in Nat
      BY <1>3, <2>1 DEF AuditInv, AuditTypes
    <3>3. EntryOK(audited[v], edition')
      BY <3>1, <3>2 DEF EntryOK, Entries
    <3> QED BY <3>2, <3>3
  <2> QED BY <1>3, <2>1
<1>5. OnePlace' /\ SomePlace'
  BY <1>1, <1>3 DEF AuditInv, OnePlace, SomePlace
<1> QED BY <1>2, <1>4, <1>5 DEF AuditInv

LEMMA SnapshotsKeepTrail ==
  ASSUME AuditInv, NEW w \in WriteRequests, SnapshotBefore(w) \/ Handle(w) \/ SnapshotAfter(w)
  PROVE  AuditInv'
<1> USE DEF Went
<1>1. /\ Running /\ audited[w] \in Entries /\ EntryOK(audited[w], edition)
      /\ edition \in Nat \ {0} /\ audited \in [WriteRequests -> Entries]
  BY DEF AuditInv, AuditTypes, SnapshotBefore, Handle, SnapshotAfter
<1>2. CASE SnapshotBefore(w)
  <2>1. PICK b \in {edition, audited[w].before} :
          audited' = [audited EXCEPT ![w] = Went("handle", b, audited[w].wrote, audited[w].after)]
    BY <1>1, <1>2 DEF SnapshotBefore, Entries
  <2>2. /\ audited[w].pc = "before" /\ UNCHANGED <<edition, buffer, logging, trail, lost, up>>
    BY <1>2 DEF SnapshotBefore
  <2>3. Went("handle", b, audited[w].wrote, audited[w].after) \in Entries
    BY <1>1 DEF Entries
  <2>4. EntryOK(Went("handle", b, audited[w].wrote, audited[w].after), edition')
    BY <1>1, <2>2 DEF EntryOK, Entries
  <2>5. edition' \in Nat /\ edition <= edition' /\ audited[w].pc # "done"
    BY <1>1, <2>2
  <2> QED BY <1>1, <2>1, <2>2, <2>3, <2>4, <2>5, RequestKeepsTrail
<1>3. CASE Handle(w)
  <2>1. /\ audited[w].pc = "handle" /\ edition' \in {edition, edition + 1}
        /\ UNCHANGED <<buffer, logging, trail, lost, up>>
    BY <1>3 DEF Handle
  <2>2. edition' \in Nat /\ edition <= edition' /\ audited[w].pc # "done" /\ audited[w].wrote = 0
    BY <1>1, <2>1 DEF EntryOK
  <2>3. CASE edition' = edition + 1
             /\ audited' = [audited EXCEPT ![w].wrote = edition + 1, ![w].pc = "after"]
    <3>1. audited' = [audited EXCEPT ![w] = Went("after", audited[w].before, edition + 1, audited[w].after)]
      <4>1. [audited[w] EXCEPT !.wrote = edition + 1, !.pc = "after"]
               = Went("after", audited[w].before, edition + 1, audited[w].after)
        BY <1>1, HandlerSaved
      <4> HIDE DEF Went
      <4> QED BY <1>1, <2>3, <4>1
    <3>2. Went("after", audited[w].before, edition + 1, audited[w].after) \in Entries
      BY <1>1 DEF Entries
    <3>3. EntryOK(Went("after", audited[w].before, edition + 1, audited[w].after), edition')
      BY <1>1, <2>3 DEF EntryOK, Entries
    <3> QED BY <1>1, <2>1, <2>2, <3>1, <3>2, <3>3, RequestKeepsTrail
  <2>4. CASE audited' = [audited EXCEPT ![w].pc = "done"]
    <3>1. audited' = [audited EXCEPT ![w] = Went("done", audited[w].before, audited[w].wrote, audited[w].after)]
      <4>1. [audited[w] EXCEPT !.pc = "done"]
               = Went("done", audited[w].before, audited[w].wrote, audited[w].after)
        BY <1>1 DEF Entries
      <4> HIDE DEF Went
      <4> QED BY <1>1, <2>4, <4>1
    <3>2. Went("done", audited[w].before, audited[w].wrote, audited[w].after) \in Entries
      BY <1>1 DEF Entries
    <3>3. EntryOK(Went("done", audited[w].before, audited[w].wrote, audited[w].after), edition')
      BY <1>1, <2>1, <2>2 DEF EntryOK, Entries
    <3> QED BY <1>1, <2>1, <2>2, <3>1, <3>2, <3>3, RequestKeepsTrail
  <2> QED BY <1>3, <2>3, <2>4 DEF Handle
<1>4. CASE SnapshotAfter(w)
  <2>1. PICK a \in {edition, audited[w].wrote} :
          audited' = [audited EXCEPT ![w].after = a, ![w].pc = "log"]
    BY <1>4 DEF SnapshotAfter
  <2>2. audited[w].pc = "after" /\ UNCHANGED <<edition, buffer, logging, trail, lost, up>>
    BY <1>4 DEF SnapshotAfter
  <2>3. audited' = [audited EXCEPT ![w] = Went("log", audited[w].before, audited[w].wrote, a)]
    <3>1. [audited[w] EXCEPT !.after = a, !.pc = "log"]
             = Went("log", audited[w].before, audited[w].wrote, a)
      BY <1>1, Snapshotted
    <3> HIDE DEF Went
    <3> QED BY <1>1, <2>1, <3>1
  <2>4. Went("log", audited[w].before, audited[w].wrote, a) \in Entries
    BY <1>1 DEF Entries
  <2>5. EntryOK(Went("log", audited[w].before, audited[w].wrote, a), edition')
    BY <1>1, <2>2 DEF EntryOK, Entries
  <2>6. edition' \in Nat /\ edition <= edition' /\ audited[w].pc # "done"
    BY <1>1, <2>2
  <2> QED BY <1>1, <2>2, <2>3, <2>4, <2>5, <2>6, RequestKeepsTrail
<1> QED BY <1>2, <1>3, <1>4

LEMMA LogKeepsTrail == ASSUME AuditInv, NEW w \in WriteRequests, LogEntry(w) PROVE AuditInv'
<1>1. /\ Running /\ Running' /\ audited[w].pc = "log" /\ audited' = [audited EXCEPT ![w].pc = "done"]
      /\ UNCHANGED <<edition, logging, trail, up>>
  BY DEF LogEntry, Running
<1>2. /\ audited' \in [WriteRequests -> Entries] /\ audited'[w].pc = "done" /\ audited[w].wrote # 0
      /\ audited'[w].wrote = audited[w].wrote /\ audited'[w].before = audited[w].before
      /\ audited'[w].after = audited[w].after
      /\ \A v \in WriteRequests : v # w => audited'[v] = audited[v]
  BY <1>1 DEF AuditInv, AuditTypes, Entries, EntryOK
<1>3. \A v \in WriteRequests : EntryOK(audited'[v], edition')
  <2>1. EntryOK(audited'[w], edition')
    BY <1>1, <1>2 DEF AuditInv, EntryOK
  <2> QED BY <1>1, <1>2, <2>1 DEF AuditInv
<1>4. ~On(buffer, w) /\ ~On(logging, w) /\ ~On(trail, w) /\ w \notin lost
  BY <1>1 DEF AuditInv, OnePlace
<1>5. CASE buffer' = Append(buffer, w) /\ UNCHANGED lost
  <2>1. /\ buffer' \in Seq(WriteRequests) /\ NoneTwice(buffer')
        /\ \A v : On(buffer', v) <=> On(buffer, v) \/ v = w
    BY <1>4, <1>5, PutAtEnd DEF AuditInv, AuditTypes, OnePlace
  <2>2. OnePlace'
    BY <1>1, <1>2, <1>4, <1>5, <2>1 DEF AuditInv, OnePlace
  <2>3. SomePlace'
    BY <1>1, <1>2, <1>5, <2>1 DEF AuditInv, SomePlace
  <2> QED BY <1>1, <1>2, <1>3, <2>1, <2>2, <2>3 DEF AuditInv, AuditTypes
<1>6. CASE lost' = lost \cup {w} /\ UNCHANGED buffer
  BY <1>1, <1>2, <1>3, <1>4, <1>6 DEF AuditInv, AuditTypes, OnePlace, SomePlace
<1> QED BY <1>5, <1>6 DEF LogEntry

LEMMA TakeKeepsTrail == ASSUME AuditInv, TakeEntry PROVE AuditInv'
<1>1. /\ Running /\ Running' /\ logging = <<>> /\ buffer # <<>> /\ logging' = <<Head(buffer)>>
      /\ buffer' = Tail(buffer) /\ UNCHANGED <<edition, audited, trail, lost, up>>
  BY DEF TakeEntry, Running
<1>2. PICK h \in WriteRequests : h = Head(buffer)
  BY <1>1, TakeFromHead DEF AuditInv, AuditTypes
<1>3. /\ buffer' \in Seq(WriteRequests) /\ NoneTwice(buffer') /\ ~On(buffer', h)
      /\ \A v : On(buffer, v) <=> v = h \/ On(buffer', v)
  BY <1>1, <1>2, TakeFromHead DEF AuditInv, AuditTypes, OnePlace
<1>4. /\ logging' = <<h>> /\ \A v : On(logging', v) <=> v = h
      /\ \A v : ~On(logging, v)
  BY <1>1, <1>2, OnlyOnSingle, NobodyOnEmpty
<1>5. AuditTypes'
  BY <1>1, <1>3, <1>4 DEF AuditInv, AuditTypes
<1>6. OnePlace' /\ SomePlace'
  BY <1>1, <1>3, <1>4 DEF AuditInv, OnePlace, SomePlace
<1> QED BY <1>1, <1>5, <1>6 DEF AuditInv

LEMMA InsertKeepsTrail == ASSUME AuditInv, InsertEntry PROVE AuditInv'
<1>1. /\ Running /\ Running' /\ logging # <<>> /\ logging' = <<>>
      /\ UNCHANGED <<edition, audited, buffer, up>>
  BY DEF InsertEntry, Running
<1>2. PICK l \in WriteRequests : logging = <<l>>
  BY <1>1 DEF AuditInv, AuditTypes
<1>3. /\ logging[1] = l /\ \A v : On(logging, v) <=> v = l
      /\ \A v : ~On(logging', v)
  BY <1>1, <1>2, OnlyOnSingle, NobodyOnEmpty
<1>4. CASE trail' = trail \o logging /\ UNCHANGED lost
  <2>1. trail' = Append(trail, l)
    BY <1>2, <1>4, AppendIsConcat DEF AuditInv, AuditTypes
  <2>2. ~On(trail, l)
    BY <1>3 DEF AuditInv, OnePlace
  <2>3. /\ trail' \in Seq(WriteRequests) /\ NoneTwice(trail')
        /\ \A v : On(trail', v) <=> On(trail, v) \/ v = l
    BY <2>1, <2>2, PutAtEnd DEF AuditInv, AuditTypes, OnePlace
  <2>4. AuditTypes'
    BY <1>1, <1>4, <2>3 DEF AuditInv, AuditTypes
  <2>5. OnePlace' /\ SomePlace'
    BY <1>1, <1>3, <1>4, <2>3 DEF AuditInv, OnePlace, SomePlace
  <2> QED BY <1>1, <2>4, <2>5 DEF AuditInv
<1>5. CASE lost' = lost \cup {l} /\ UNCHANGED trail
  <2>1. AuditTypes'
    BY <1>1, <1>5 DEF AuditInv, AuditTypes
  <2>2. OnePlace' /\ SomePlace'
    BY <1>1, <1>3, <1>5 DEF AuditInv, OnePlace, SomePlace
  <2> QED BY <1>1, <2>1, <2>2 DEF AuditInv
<1> QED BY <1>3, <1>4, <1>5 DEF InsertEntry

\* What is in memory when the console ends is lost.
LEMMA StopKeepsTrail == ASSUME AuditInv, Stop PROVE AuditInv'
<1>1. /\ ~Running' /\ lost' = lost \cup Unlogged /\ buffer' = <<>> /\ logging' = <<>>
      /\ UNCHANGED <<edition, audited, trail>>
  BY DEF Stop, Running
<1>2. Unlogged = {w \in WriteRequests : audited[w].wrote # 0 /\ ~On(trail, w)}
  BY DEF Unlogged, On
<1>3. (\A v : ~On(buffer', v) /\ ~On(logging', v)) /\ NoneTwice(buffer')
  BY <1>1, NobodyOnEmpty
<1>4. AuditTypes'
  BY <1>1 DEF AuditInv, AuditTypes
<1>5. OnePlace' /\ SomePlace'
  BY <1>1, <1>2, <1>3 DEF AuditInv, OnePlace, SomePlace
<1> QED BY <1>1, <1>4, <1>5 DEF AuditInv

LEMMA AuditNextKeeps == AuditInv /\ [AuditNext]_auditVars => AuditInv'
<1> SUFFICES ASSUME AuditInv, [AuditNext]_auditVars PROVE AuditInv'
  OBVIOUS
<1>1. CASE CloseLogger
  <2>1. Running' /\ Running /\ UNCHANGED <<edition, audited, buffer, logging, trail, lost>>
    BY <1>1 DEF CloseLogger, Running
  <2> QED BY <2>1 DEF AuditInv, AuditTypes, OnePlace, SomePlace
<1>2. CASE UNCHANGED auditVars
  BY <1>2 DEF auditVars, AuditInv, AuditTypes, OnePlace, SomePlace, Running
<1> QED
  BY <1>1, <1>2, SnapshotsKeepTrail, LogKeepsTrail, TakeKeepsTrail, InsertKeepsTrail, StopKeepsTrail
  DEF AuditNext, ExitConsole, CrashConsole

(* Every write answered 2xx is in audit_logs once, or on its way there, or  *)
(* was dropped by a full buffer, a failed insert or the end of the process; *)
(* and its two snapshots lie on either side of it (Middleware, Logger.Log,  *)
(* processLoop, Close).                                                     *)
THEOREM TrailIsTrue == AuditSpec => []TrailTrue
<1>1. AuditInit => AuditInv
  <2> SUFFICES ASSUME AuditInit PROVE AuditInv
    OBVIOUS
  <2>1. \A w \in WriteRequests : audited[w].wrote = 0 /\ audited[w].before = 0 /\ audited[w].pc = "before"
    BY DEF AuditInit
  <2>2. audited \in [WriteRequests -> Entries] /\ Running /\ lost = {} /\ edition = 1
    BY DEF AuditInit, Entries, Running
  <2>3. buffer = <<>> /\ logging = <<>> /\ trail = <<>>
    BY DEF AuditInit
  <2>4. AuditTypes
    BY <2>2, <2>3 DEF AuditTypes
  <2>5. \A w \in WriteRequests : EntryOK(audited[w], edition)
    BY <2>1, <2>2 DEF EntryOK
  <2>6. OnePlace /\ SomePlace
    BY <2>1, <2>2, <2>3, NobodyOnEmpty DEF OnePlace, SomePlace
  <2> QED BY <2>4, <2>5, <2>6 DEF AuditInv
<1>2. AuditInv => TrailTrue
  <2> SUFFICES ASSUME AuditInv PROVE TrailTrue
    OBVIOUS
  <2>1. ASSUME NEW w \in WriteRequests, audited[w].wrote # 0
        PROVE  Cardinality({i \in DOMAIN trail : trail[i] = w}) = IF w \in lost \/ Waiting(w) THEN 0 ELSE 1
    <3>1. Waiting(w) <=> (Running /\ audited[w].pc \in {"after", "log"}) \/ On(buffer, w) \/ On(logging, w)
      BY DEF Waiting, On
    <3>2. w \in lost \/ Waiting(w) <=> ~On(trail, w)
      <4>1. audited[w].pc \in {"after", "log", "done"}
        BY <2>1 DEF AuditInv, AuditTypes, EntryOK, Entries
      <4> QED BY <2>1, <3>1, <4>1 DEF AuditInv, OnePlace, SomePlace
    <3>3. CASE On(trail, w)
      <4>1. PICK i \in DOMAIN trail : trail[i] = w
        BY <3>3 DEF On
      <4>2. {j \in DOMAIN trail : trail[j] = w} = {i}
        BY <4>1 DEF AuditInv, OnePlace, NoneTwice
      <4> QED BY <3>2, <3>3, <4>2, FS_Singleton
    <3>4. CASE ~On(trail, w)
      <4>1. {j \in DOMAIN trail : trail[j] = w} = {}
        BY <3>4 DEF On
      <4> QED BY <3>2, <3>4, <4>1, FS_EmptySet
    <3> QED BY <3>3, <3>4
  <2>2. ASSUME NEW i \in DOMAIN trail
        PROVE  LET a == audited[trail[i]] IN a.wrote # 0 /\ a.before < a.wrote /\ a.wrote <= a.after
    <3>1. trail[i] \in WriteRequests /\ On(trail, trail[i])
      BY DEF AuditInv, AuditTypes, On
    <3> QED BY <3>1 DEF AuditInv, OnePlace, EntryOK
  <2> QED BY <2>1, <2>2 DEF TrailTrue
<1> QED
  BY AuditNextKeeps, <1>1, <1>2, PTL DEF AuditSpec

-----------------------------------------------------------------------------
(* The hand-over.  Types first.                                            *)
Hands == [step : {"idle", "lookup", "create", "keep", "assign", "history", "sync", "finish", "ack"},
          view : BOOLEAN, cw : Nat, send : Seq(Nat), last : Nat]
Forwards == [step : {"idle", "lookup", "create", "keep", "send"}, cw : Nat]

HandNumbers ==
  /\ history \in Nat /\ history <= MaxHistory
  /\ toCw \in Nat /\ opened \in Nat /\ watermark \in Nat
  /\ mishaps \in Nat /\ handCrashes \in Nat
  /\ synced \in [1 .. MaxHistory -> Nat]

HandTypes == human \in BOOLEAN /\ hand \in Hands /\ forward \in Forwards /\ HandNumbers

LEMMA HandParts ==
  ASSUME NEW h \in Hands
  PROVE  /\ h.step \in {"idle", "lookup", "create", "keep", "assign", "history", "sync", "finish", "ack"}
         /\ h.view \in BOOLEAN /\ h.cw \in Nat /\ h.send \in Seq(Nat) /\ h.last \in Nat
  BY DEF Hands

LEMMA HandMoves ==
  ASSUME NEW h \in Hands,
         NEW s \in {"idle", "lookup", "create", "keep", "assign", "history", "sync", "finish", "ack"},
         NEW c \in Nat, NEW v \in BOOLEAN
  PROVE  /\ [h EXCEPT !.step = s] \in Hands /\ [h EXCEPT !.step = s, !.cw = c] \in Hands
         /\ [h EXCEPT !.step = s, !.view = v] \in Hands
  BY DEF Hands

LEMMA IdleHand == HandIdle \in Hands
<1>1. <<>> \in Seq(Nat)
  OBVIOUS
<1> QED BY <1>1 DEF HandIdle, Hands

\* The messages of a sync are numbers.
LEMMA MessagesAreNumbers ==
  ASSUME history \in Nat, NEW w \in Nat
  PROVE  /\ MessagesAfter(w) \in Seq(Nat)
         /\ \A i \in DOMAIN MessagesAfter(w) : MessagesAfter(w)[i] = w + i /\ w + i <= history
         /\ DOMAIN MessagesAfter(w) = 1 .. Len(MessagesAfter(w))
<1> DEFINE n == IF history - w > Limit THEN Limit ELSE history - w
<1>1. CASE n \in Nat
  <2>1. n <= history - w
    BY <1>1, HandoffAssumption
  <2> HIDE DEF n
  <2>2. [i \in 1 .. n |-> w + i] \in Seq(Nat)
    BY <1>1
  <2>3. MessagesAfter(w) = [i \in 1 .. n |-> w + i]
    BY DEF MessagesAfter, n
  <2>4. \A i \in 1 .. n : w + i <= history
    BY <1>1, <2>1
  <2>5. Len([i \in 1 .. n |-> w + i]) = n
    BY <1>1
  <2> QED BY <1>1, <2>2, <2>3, <2>4, <2>5
<1>2. CASE n \notin Nat
  <2>1. 1 .. n = {}
    BY <1>2, HandoffAssumption
  <2>2. MessagesAfter(w) = [i \in {} |-> w + i]
    BY <2>1 DEF MessagesAfter
  <2>3. [i \in {} |-> w + i] = <<>>
    OBVIOUS
  <2> QED BY <2>2, <2>3
<1> QED BY <1>1, <1>2

LEMMA HandTypesKeep == HandTypes /\ [HandNext]_handVars => HandTypes'
<1> SUFFICES ASSUME HandTypes, [HandNext]_handVars PROVE HandTypes'
  OBVIOUS
<1> USE HandoffAssumption DEF HandTypes, HandNumbers, Hands, Forwards, Mishap, NoMishap, Goes, HandIdle, ForwardIdle, queueVars, mapVars, syncVars, KeepMapping, SetKeys
<1>1. ASSUME Escalate PROVE HandTypes'
  <2>1. human' \in BOOLEAN
    BY <1>1 DEF Escalate
  <2>2. hand' \in Hands
    BY <1>1 DEF Escalate
  <2>3. forward' \in Forwards
    BY <1>1 DEF Escalate
  <2>4. HandNumbers'
    BY <1>1 DEF Escalate, HandNumbers
  <2> QED BY <2>1, <2>2, <2>3, <2>4
<1>2. ASSUME StoreHistory PROVE HandTypes'
  BY <1>2 DEF StoreHistory
<1>3. ASSUME BackToAI PROVE HandTypes'
  BY <1>3 DEF BackToAI
<1>4. ASSUME ForwardLookup PROVE HandTypes'
  <2>1. human' \in BOOLEAN
    BY <1>4 DEF ForwardLookup
  <2>2. hand' \in Hands
    BY <1>4 DEF ForwardLookup
  <2>3. forward' \in Forwards
    BY <1>4 DEF ForwardLookup
  <2>4. HandNumbers'
    BY <1>4 DEF ForwardLookup, HandNumbers
  <2> QED BY <2>1, <2>2, <2>3, <2>4
<1>5. ASSUME ForwardCreate PROVE HandTypes'
  BY <1>5 DEF ForwardCreate
<1>6. ASSUME ForwardKeep PROVE HandTypes'
  <2>1. human' \in BOOLEAN
    BY <1>6 DEF ForwardKeep
  <2>2. hand' \in Hands
    BY <1>6 DEF ForwardKeep
  <2>3. forward' \in Forwards
    BY <1>6 DEF ForwardKeep
  <2>4. HandNumbers'
    <3>1. forward.cw \in Nat
      OBVIOUS
    <3>2. UNCHANGED <<history, opened, watermark, synced, handCrashes>> /\ toCw' \in {toCw, forward.cw}
      BY <1>6 DEF ForwardKeep
    <3>3. mishaps' \in Nat
      BY <1>6 DEF ForwardKeep
    <3> QED BY <3>1, <3>2, <3>3
  <2> QED BY <2>1, <2>2, <2>3, <2>4
<1>7. ASSUME ForwardSend PROVE HandTypes'
  BY <1>7 DEF ForwardSend
<1>8. ASSUME ProcessPending PROVE HandTypes'
  BY <1>8 DEF ProcessPending
<1>9. ASSUME ConsumeLoop PROVE HandTypes'
  BY <1>9 DEF ConsumeLoop
<1>10. ASSUME ProcessEntry PROVE HandTypes'
  <2>1. UNCHANGED <<history, human, forward, toCw, opened, watermark, synced, handCrashes>> /\ mishaps' \in Nat
    BY <1>10 DEF ProcessEntry
  <2>2. [HandIdle EXCEPT !.step = "lookup", !.view = human] \in Hands
    <3> HIDE DEF Hands, HandIdle
    <3> QED BY HandMoves, IdleHand
  <2>3. [HandIdle EXCEPT !.step = "ack"] \in Hands
    <3> HIDE DEF Hands, HandIdle
    <3> QED BY HandMoves, IdleHand
  <2>4. hand' \in Hands
    <3> HIDE DEF Hands, HandIdle
    <3> QED BY <1>10, <2>2, <2>3 DEF ProcessEntry
  <2> QED BY <2>1, <2>4
<1>11. ASSUME HandLookup PROVE HandTypes'
  <2>1. human' \in BOOLEAN
    BY <1>11 DEF HandLookup
  <2>2. hand' \in Hands
    BY <1>11 DEF HandLookup
  <2>3. forward' \in Forwards
    BY <1>11 DEF HandLookup
  <2>4. HandNumbers'
    BY <1>11 DEF HandLookup, HandNumbers
  <2> QED BY <2>1, <2>2, <2>3, <2>4
<1>12. ASSUME HandCreate PROVE HandTypes'
  <2>1. UNCHANGED <<history, human, forward, toCw, watermark, synced, handCrashes>> /\ mishaps' \in Nat
    BY <1>12 DEF HandCreate
  <2>2. [hand EXCEPT !.step = "keep", !.cw = opened + 1] \in Hands
    <3>1. PICK c \in Nat : c = opened + 1
      OBVIOUS
    <3> HIDE DEF Hands
    <3> QED BY <3>1, HandMoves
  <2>3. [hand EXCEPT !.step = "ack"] \in Hands
    OBVIOUS
  <2>4. hand' \in Hands /\ opened' \in Nat
    <3>1. \/ opened' = opened + 1 /\ hand' = [hand EXCEPT !.step = "keep", !.cw = opened + 1]
          \/ opened' = opened /\ hand' = [hand EXCEPT !.step = "ack"]
      BY <1>12 DEF HandCreate
    <3> HIDE DEF Hands, Forwards
    <3> QED BY <2>2, <2>3, <3>1
  <2> QED BY <2>1, <2>4
<1>13. ASSUME HandKeep PROVE HandTypes'
  <2>1. human' \in BOOLEAN
    BY <1>13 DEF HandKeep
  <2>2. hand' \in Hands
    BY <1>13 DEF HandKeep
  <2>3. forward' \in Forwards
    BY <1>13 DEF HandKeep
  <2>4. HandNumbers'
    <3>1. hand.cw \in Nat
      OBVIOUS
    <3>2. UNCHANGED <<history, opened, watermark, synced, handCrashes>> /\ toCw' \in {toCw, hand.cw}
      BY <1>13 DEF HandKeep
    <3>3. mishaps' \in Nat
      BY <1>13 DEF HandKeep
    <3> QED BY <3>1, <3>2, <3>3
  <2> QED BY <2>1, <2>2, <2>3, <2>4
<1>14. ASSUME Assign PROVE HandTypes'
  BY <1>14 DEF Assign
<1>15. ASSUME LoadHistory PROVE HandTypes'
  <2>1. UNCHANGED <<history, human, forward, toCw, opened, watermark, synced, handCrashes>> /\ mishaps' \in Nat
    BY <1>15 DEF LoadHistory
  <2>2. ASSUME NEW s \in Seq(Nat) PROVE [hand EXCEPT !.step = "sync", !.send = s] \in Hands
    OBVIOUS
  <2>3. MessagesAfter(watermark) \in Seq(Nat) /\ MessagesAfter(0) \in Seq(Nat)
    BY MessagesAreNumbers
  <2>4. [hand EXCEPT !.step = "finish"] \in Hands
    OBVIOUS
  <2>5. hand' \in Hands
    <3> HIDE DEF Hands
    <3> QED BY <1>15, <2>2, <2>3, <2>4 DEF LoadHistory
  <2> QED BY <2>1, <2>5
<1>16. ASSUME SendHistory PROVE HandTypes'
  <2> DEFINE m == Head(hand.send)
  <2>1. UNCHANGED <<history, human, forward, toCw, opened, watermark, handCrashes>> /\ mishaps' \in Nat
    <3>1. UNCHANGED <<history, human, forward, toCw, opened, watermark, handCrashes>>
      BY <1>16 DEF SendHistory
    <3>2. NoMishap \/ Mishap
      BY <1>16 DEF SendHistory
    <3> QED BY <3>1, <3>2
  <2>2. hand.send \in Seq(Nat) /\ hand.send # <<>>
    BY <1>16, HandParts DEF SendHistory
  <2>3. m \in Nat /\ Tail(hand.send) \in Seq(Nat)
    BY <2>2, HeadTailProperties
  <2>4. [hand EXCEPT !.send = Tail(hand.send), !.last = m] \in Hands /\ [hand EXCEPT !.send = Tail(hand.send)] \in Hands
    <3> HIDE DEF m
    <3> QED BY <2>3
  <2>5. hand' \in Hands
    <3>1. hand' \in {[hand EXCEPT !.send = Tail(hand.send), !.last = m], [hand EXCEPT !.send = Tail(hand.send)]}
      BY <1>16 DEF SendHistory
    <3> HIDE DEF Hands, Forwards, m
    <3> QED BY <2>4, <3>1
  <2>6. synced' = [synced EXCEPT ![m] = @ + 1] \/ synced' = synced
    BY <1>16 DEF SendHistory
  <2>7. synced' \in [1 .. MaxHistory -> Nat]
    <3> DEFINE dom == 1 .. MaxHistory
    <3>1. synced \in [dom -> Nat]
      OBVIOUS
    <3> HIDE DEF m, dom
    <3>2. synced' \in [dom -> Nat]
      BY <2>6, <3>1
    <3> QED BY <3>2 DEF dom
  <2> QED BY <2>1, <2>5, <2>7
<1>17. ASSUME KeepWatermark PROVE HandTypes'
  <2>1. human' \in BOOLEAN
    BY <1>17 DEF KeepWatermark
  <2>2. hand' \in Hands
    BY <1>17 DEF KeepWatermark
  <2>3. forward' \in Forwards
    BY <1>17 DEF KeepWatermark
  <2>4. HandNumbers'
    BY <1>17 DEF KeepWatermark, HandNumbers
  <2> QED BY <2>1, <2>2, <2>3, <2>4
<1>18. ASSUME Finish PROVE HandTypes'
  <2>1. human' \in BOOLEAN
    BY <1>18 DEF Finish
  <2>2. hand' \in Hands
    BY <1>18 DEF Finish
  <2>3. forward' \in Forwards
    BY <1>18 DEF Finish
  <2>4. HandNumbers'
    BY <1>18 DEF Finish, HandNumbers
  <2> QED BY <2>1, <2>2, <2>3, <2>4
<1>19. ASSUME AckEvent PROVE HandTypes'
  BY <1>19 DEF AckEvent
<1>20. ASSUME ExpireKeys PROVE HandTypes'
  BY <1>20 DEF ExpireKeys
<1>21. ASSUME CrashHandoff PROVE HandTypes'
  BY <1>21 DEF CrashHandoff
<1>22. CASE UNCHANGED handVars
  BY <1>22 DEF handVars
<1> QED
  BY <1>1, <1>2, <1>3, <1>4, <1>5, <1>6, <1>7, <1>8, <1>9, <1>10, <1>11, <1>12,
     <1>13, <1>14, <1>15, <1>16, <1>17, <1>18, <1>19, <1>20, <1>21, <1>22
     DEF HandNext, ConsumerStep

-----------------------------------------------------------------------------
LEMMA HandStarts == HandInit => HandTypes /\ hand.step = "idle" /\ forward.step = "idle"
<1> SUFFICES ASSUME HandInit PROVE HandTypes /\ hand.step = "idle" /\ forward.step = "idle"
  OBVIOUS
<1>1. hand \in Hands /\ hand.step = "idle"
  BY IdleHand DEF HandInit, HandIdle
<1>2. forward \in Forwards /\ forward.step = "idle"
  BY DEF HandInit, ForwardIdle, Forwards
<1>3. human \in BOOLEAN /\ history <= MaxHistory /\ synced \in [1 .. MaxHistory -> Nat]
  <2>1. 1 <= MaxHistory
    BY HandoffAssumption
  <2> QED BY <2>1 DEF HandInit
<1>4. HandNumbers
  BY <1>3 DEF HandInit, HandNumbers
<1> QED BY <1>1, <1>2, <1>3, <1>4 DEF HandTypes

\* How a handler's step goes on.
LEMMA HandBegins ==
  ASSUME ProcessEntry
  PROVE  /\ hand'.step = "lookup" \/ (hand'.step = "ack" /\ Mishap)
         /\ hand'.last = 0
BY DEF ProcessEntry, HandIdle

\* A key, and a handler or forwarder past its creation, point at a conversation
\* that was opened.
OpenedFirst ==
  /\ toCw # 0 \/ forward.step = "keep" => opened >= 1
  /\ hand.step \in {"keep", "assign", "history", "sync", "finish"} => opened >= 1
  /\ mishaps = 0 /\ (hand.step = "ack" \/ hacked # {}) => opened >= 1

LEMMA OpenedFirstKeeps == HandTypes /\ OpenedFirst /\ [HandNext]_handVars => OpenedFirst'
<1> SUFFICES ASSUME HandTypes /\ OpenedFirst, [HandNext]_handVars PROVE OpenedFirst'
  OBVIOUS
<1> USE DEF HandTypes, HandNumbers, Hands, Forwards, OpenedFirst, Mishap, NoMishap, Goes, HandIdle, ForwardIdle, queueVars, mapVars, syncVars, KeepMapping, SetKeys
<1>1. ASSUME Escalate PROVE OpenedFirst'
  BY <1>1 DEF Escalate
<1>2. ASSUME StoreHistory PROVE OpenedFirst'
  BY <1>2 DEF StoreHistory
<1>3. ASSUME BackToAI PROVE OpenedFirst'
  BY <1>3 DEF BackToAI
<1>4. ASSUME ForwardLookup PROVE OpenedFirst'
  BY <1>4 DEF ForwardLookup
<1>5. ASSUME ForwardCreate PROVE OpenedFirst'
  BY <1>5 DEF ForwardCreate
<1>6. ASSUME ForwardKeep PROVE OpenedFirst'
  BY <1>6 DEF ForwardKeep
<1>7. ASSUME ForwardSend PROVE OpenedFirst'
  BY <1>7 DEF ForwardSend
<1>8. ASSUME ProcessPending PROVE OpenedFirst'
  BY <1>8 DEF ProcessPending
<1>9. ASSUME ConsumeLoop PROVE OpenedFirst'
  BY <1>9 DEF ConsumeLoop
<1>10. ASSUME ProcessEntry PROVE OpenedFirst'
  <2>1. UNCHANGED <<forward, toCw, opened, hacked>>
    BY <1>10 DEF ProcessEntry
  <2> QED BY <1>10, <2>1, HandBegins DEF ProcessEntry
<1>11. ASSUME HandLookup PROVE OpenedFirst'
  BY <1>11 DEF HandLookup
<1>12. ASSUME HandCreate PROVE OpenedFirst'
  BY <1>12 DEF HandCreate
<1>13. ASSUME HandKeep PROVE OpenedFirst'
  BY <1>13 DEF HandKeep
<1>14. ASSUME Assign PROVE OpenedFirst'
  BY <1>14 DEF Assign
<1>15. ASSUME LoadHistory PROVE OpenedFirst'
  BY <1>15 DEF LoadHistory
<1>16. ASSUME SendHistory PROVE OpenedFirst'
  BY <1>16 DEF SendHistory
<1>17. ASSUME KeepWatermark PROVE OpenedFirst'
  BY <1>17 DEF KeepWatermark
<1>18. ASSUME Finish PROVE OpenedFirst'
  BY <1>18 DEF Finish
<1>19. ASSUME AckEvent PROVE OpenedFirst'
  BY <1>19 DEF AckEvent
<1>20. ASSUME ExpireKeys PROVE OpenedFirst'
  BY <1>20 DEF ExpireKeys
<1>21. ASSUME CrashHandoff PROVE OpenedFirst'
  BY <1>21 DEF CrashHandoff
<1>22. CASE UNCHANGED handVars
  BY <1>22 DEF handVars
<1> QED
  BY <1>1, <1>2, <1>3, <1>4, <1>5, <1>6, <1>7, <1>8, <1>9, <1>10, <1>11, <1>12,
     <1>13, <1>14, <1>15, <1>16, <1>17, <1>18, <1>19, <1>20, <1>21, <1>22
     DEF HandNext, ConsumerStep

(* An event whose handling nothing disturbed has a conversation in Chatwoot *)
(* before it is acknowledged (processEntry acknowledges after Handle).      *)
THEOREM AckedIsHandedOver == HandSpec => []AckedMeansHandedOver
<1>1. HandInit => HandTypes /\ OpenedFirst
  BY HandStarts DEF HandInit, OpenedFirst
<1>2. OpenedFirst => AckedMeansHandedOver
  BY DEF OpenedFirst, AckedMeansHandedOver
<1> QED
  BY HandTypesKeep, OpenedFirstKeeps, <1>1, <1>2, PTL DEF HandSpec

-----------------------------------------------------------------------------
\* Handler and forwarder look for the conversation one at a time; what one of
\* them is about to open, and what a key names, is within the count.
OneLooks ==
  ~raced =>
    /\ ~(Looking(hand.step) /\ Looking(forward.step))
    /\ opened <= 1 + mishaps + handCrashes
    /\ hand.step = "create" \/ forward.step = "create" => opened <= mishaps + handCrashes
    /\ toCw = 0 /\ hand.step # "keep" /\ forward.step # "keep" => opened <= mishaps + handCrashes

KeepsNamed ==
  /\ hand.step = "keep" => hand.cw # 0
  /\ forward.step = "keep" => forward.cw # 0

LEMMA MoreRoom ==
  ASSUME NEW a \in Nat, NEW b \in Nat, NEW c \in Nat, a <= b
  PROVE  a + c <= b + c /\ a + c \in Nat /\ b + c \in Nat
  OBVIOUS

\* While the handler is elsewhere, more setbacks only widen the bound.
LEMMA LooksElsewhere ==
  ASSUME KeepsNamed, OneLooks, HandNumbers, mishaps' \in Nat, mishaps <= mishaps',
         UNCHANGED <<forward, toCw, opened, raced, handCrashes>>,
         hand.step \notin {"create", "keep"}, hand'.step \notin {"create", "keep"}
  PROVE  (KeepsNamed /\ OneLooks)'
<1>1. KeepsNamed'
  BY DEF KeepsNamed
<1>2. mishaps + handCrashes <= mishaps' + handCrashes /\ mishaps + handCrashes \in Nat /\ mishaps' + handCrashes \in Nat
  <2>1. mishaps \in Nat /\ handCrashes \in Nat
    BY DEF HandNumbers
  <2>2. PICK m \in Nat : m = mishaps'
    OBVIOUS
  <2> QED BY <2>1, <2>2, MoreRoom
<1>3. opened \in Nat /\ 1 + mishaps + handCrashes = 1 + (mishaps + handCrashes)
      /\ 1 + mishaps' + handCrashes = 1 + (mishaps' + handCrashes)
  BY DEF HandNumbers
<1>4. OneLooks'
  BY <1>2, <1>3 DEF OneLooks, Looking
<1> QED BY <1>1, <1>4

LEMMA OneLooksKeeps == HandTypes /\ KeepsNamed /\ OneLooks /\ [HandNext]_handVars => (KeepsNamed /\ OneLooks)'
<1> SUFFICES ASSUME HandTypes /\ KeepsNamed /\ OneLooks, [HandNext]_handVars PROVE (KeepsNamed /\ OneLooks)'
  OBVIOUS
<1> USE DEF HandTypes, HandNumbers, Hands, Forwards, KeepsNamed, OneLooks, Looking, Mishap, NoMishap, Goes, HandIdle, ForwardIdle, queueVars, mapVars, syncVars, KeepMapping, SetKeys
<1>1. ASSUME Escalate PROVE (KeepsNamed /\ OneLooks)'
  BY <1>1 DEF Escalate
<1>2. ASSUME StoreHistory PROVE (KeepsNamed /\ OneLooks)'
  BY <1>2 DEF StoreHistory
<1>3. ASSUME BackToAI PROVE (KeepsNamed /\ OneLooks)'
  BY <1>3 DEF BackToAI
<1>4. ASSUME ForwardLookup PROVE (KeepsNamed /\ OneLooks)'
  <2>1. UNCHANGED <<hand, toCw, opened, handCrashes>> /\ forward.step = "lookup"
    BY <1>4 DEF ForwardLookup
  <2>2. CASE forward'.step \in {"send", "idle"} /\ (mishaps' = mishaps \/ mishaps' = mishaps + 1) /\ raced' = raced
    <3>1. CASE mishaps' = mishaps
      BY <2>1, <2>2, <3>1
    <3>2. CASE mishaps' = mishaps + 1
      BY <2>1, <2>2, <3>2
    <3> QED BY <2>2, <3>1, <3>2
  <2>3. CASE /\ (toCw = 0 /\ mishaps' = mishaps) \/ mishaps' = mishaps + 1
             /\ forward' = [step |-> "create", cw |-> 0] /\ raced' = (raced \/ Looking(hand.step))
    <3>1. raced' <=> (raced \/ Looking(hand.step))
      BY <2>3, Zenon
    <3> QED BY <2>1, <2>3, <3>1
  <2> QED BY <1>4, <2>2, <2>3 DEF ForwardLookup
<1>5. ASSUME ForwardCreate PROVE (KeepsNamed /\ OneLooks)'
  BY <1>5 DEF ForwardCreate
<1>6. ASSUME ForwardKeep PROVE (KeepsNamed /\ OneLooks)'
  BY <1>6 DEF ForwardKeep
<1>7. ASSUME ForwardSend PROVE (KeepsNamed /\ OneLooks)'
  BY <1>7 DEF ForwardSend
<1>8. ASSUME ProcessPending PROVE (KeepsNamed /\ OneLooks)'
  BY <1>8 DEF ProcessPending
<1>9. ASSUME ConsumeLoop PROVE (KeepsNamed /\ OneLooks)'
  BY <1>9 DEF ConsumeLoop
<1>10. ASSUME ProcessEntry PROVE (KeepsNamed /\ OneLooks)'
  <2>1. UNCHANGED <<forward, toCw, opened, raced, handCrashes>> /\ mishaps <= mishaps' /\ mishaps' \in Nat
    BY <1>10 DEF ProcessEntry
  <2>2. hand'.step \notin {"create", "keep"} /\ hand.step \notin {"create", "keep"}
    BY <1>10, HandBegins DEF ProcessEntry
  <2> HIDE DEF KeepsNamed, OneLooks, HandNumbers
  <2> QED BY <2>1, <2>2, LooksElsewhere
<1>11. ASSUME HandLookup PROVE (KeepsNamed /\ OneLooks)'
  <2>1. UNCHANGED <<forward, toCw, opened, handCrashes>> /\ hand.step = "lookup"
    BY <1>11 DEF HandLookup
  <2>2. CASE hand' = [hand EXCEPT !.step = "assign", !.cw = toCw] /\ mishaps' = mishaps /\ raced' = raced
    <3>1. hand'.step = "assign"
      BY <2>2
    <3> QED BY <2>1, <2>2, <3>1
  <2>3. CASE /\ (toCw = 0 /\ mishaps' = mishaps) \/ mishaps' = mishaps + 1
             /\ hand' = [hand EXCEPT !.step = "create"] /\ raced' = (raced \/ Looking(forward.step))
    <3>1. hand'.step = "create"
      BY <2>3
    <3>2. raced' <=> (raced \/ Looking(forward.step))
      BY <2>3, Zenon
    <3> QED BY <2>1, <2>3, <3>1, <3>2
  <2> QED BY <1>11, <2>2, <2>3 DEF HandLookup
<1>12. ASSUME HandCreate PROVE (KeepsNamed /\ OneLooks)'
  <2>1. UNCHANGED <<forward, toCw, raced, handCrashes>> /\ hand.step = "create"
    BY <1>12 DEF HandCreate
  <2>2. CASE opened' = opened + 1 /\ hand' = [hand EXCEPT !.step = "keep", !.cw = opened + 1] /\ mishaps' = mishaps
    <3>1. hand'.step = "keep" /\ hand'.cw = opened + 1 /\ opened + 1 # 0
      BY <2>2
    <3> QED BY <2>1, <2>2, <3>1
  <2>3. CASE UNCHANGED opened /\ hand' = [hand EXCEPT !.step = "ack"] /\ mishaps' = mishaps + 1
    <3>1. hand'.step = "ack"
      BY <2>3
    <3> QED BY <2>1, <2>3, <3>1
  <2> QED BY <1>12, <2>2, <2>3 DEF HandCreate
<1>13. ASSUME HandKeep PROVE (KeepsNamed /\ OneLooks)'
  BY <1>13 DEF HandKeep
<1>14. ASSUME Assign PROVE (KeepsNamed /\ OneLooks)'
  BY <1>14 DEF Assign
<1>15. ASSUME LoadHistory PROVE (KeepsNamed /\ OneLooks)'
  <2>1. UNCHANGED <<forward, toCw, opened, raced, handCrashes>> /\ mishaps <= mishaps' /\ mishaps' \in Nat
    BY <1>15 DEF LoadHistory
  <2>2. hand'.step \notin {"create", "keep"} /\ hand.step \notin {"create", "keep"}
    BY <1>15 DEF LoadHistory
  <2> HIDE DEF KeepsNamed, OneLooks, HandNumbers
  <2> QED BY <2>1, <2>2, LooksElsewhere
<1>16. ASSUME SendHistory PROVE (KeepsNamed /\ OneLooks)'
  <2>1. UNCHANGED <<forward, toCw, opened, raced, handCrashes>> /\ mishaps <= mishaps' /\ mishaps' \in Nat
    BY <1>16 DEF SendHistory
  <2>2. hand'.step \notin {"create", "keep"} /\ hand.step \notin {"create", "keep"}
    BY <1>16 DEF SendHistory
  <2> HIDE DEF KeepsNamed, OneLooks, HandNumbers
  <2> QED BY <2>1, <2>2, LooksElsewhere
<1>17. ASSUME KeepWatermark PROVE (KeepsNamed /\ OneLooks)'
  BY <1>17 DEF KeepWatermark
<1>18. ASSUME Finish PROVE (KeepsNamed /\ OneLooks)'
  BY <1>18 DEF Finish
<1>19. ASSUME AckEvent PROVE (KeepsNamed /\ OneLooks)'
  BY <1>19 DEF AckEvent
<1>20. ASSUME ExpireKeys PROVE (KeepsNamed /\ OneLooks)'
  BY <1>20 DEF ExpireKeys
<1>21. ASSUME CrashHandoff PROVE (KeepsNamed /\ OneLooks)'
  BY <1>21 DEF CrashHandoff
<1>22. CASE UNCHANGED handVars
  BY <1>22 DEF handVars
<1> QED
  BY <1>1, <1>2, <1>3, <1>4, <1>5, <1>6, <1>7, <1>8, <1>9, <1>10, <1>11, <1>12,
     <1>13, <1>14, <1>15, <1>16, <1>17, <1>18, <1>19, <1>20, <1>21, <1>22
     DEF HandNext, ConsumerStep

(* A conversation has one counterpart in Chatwoot, unless the two looked    *)
(* for it at once, or a failed call, a lost key or a crash came in between  *)
(* (findOrCreateCWConversation).                                            *)
THEOREM OneCounterpart == HandSpec => []OneChatwootConversation
<1>1. HandInit => HandTypes /\ KeepsNamed /\ OneLooks
  <2> SUFFICES ASSUME HandInit PROVE HandTypes /\ KeepsNamed /\ OneLooks
    OBVIOUS
  <2>1. opened = 0 /\ mishaps = 0 /\ handCrashes = 0
    BY DEF HandInit
  <2> QED BY <2>1, HandStarts DEF KeepsNamed, OneLooks, Looking
<1>2. OneLooks => OneChatwootConversation
  BY DEF OneLooks, OneChatwootConversation
<1> QED
  BY HandTypesKeep, OneLooksKeeps, <1>1, <1>2, PTL DEF HandSpec

-----------------------------------------------------------------------------
\* Calls that failed, keys that expired and crashes, together.
Setbacks == mishaps + handCrashes

Early == {"idle", "lookup", "create", "keep", "assign", "history"}
Covered(m) == synced[m] > 0 \/ m \in skipped
Few(m) == synced[m] <= Setbacks

(* What the watermark has passed was sent or skipped; between two syncs,    *)
(* what it has not was sent no more often than something went wrong.        *)
WatermarkTrue ==
  /\ watermark <= MaxHistory /\ \A m \in 1 .. watermark : Covered(m)
  /\ hand.step # "sync" => \A m \in 1 .. MaxHistory : m > watermark => Few(m)
  /\ hand.step \in Early => hand.last = 0
  /\ \A m \in 1 .. MaxHistory : synced[m] <= 1 + Setbacks

\* In a sync that has come to message s: the messages to send are the next.
SyncAt(s) ==
  /\ \A i \in 1 .. Len(hand.send) : hand.send[i] = s + i
  /\ s + Len(hand.send) <= MaxHistory /\ hand.last <= s
  /\ \A m \in 1 .. s : Covered(m)
  /\ \A m \in 1 .. MaxHistory : s < m /\ m <= s + Len(hand.send) => Few(m)
  /\ \A m \in 1 .. MaxHistory : hand.last < m /\ (watermark < m \/ hand.last # 0) => Few(m)
  /\ watermark <= s \/ \A m \in 1 .. MaxHistory : hand.last < m => Few(m)

SyncInv == WatermarkTrue /\ (hand.step = "sync" => \E s \in Nat : SyncAt(s))

LEMMA OneMoreSetback ==
  ASSUME HandNumbers
  PROVE  /\ Setbacks \in Nat /\ 1 + Setbacks = 1 + mishaps + handCrashes
         /\ NoMishap /\ UNCHANGED handCrashes => Setbacks' = Setbacks
         /\ Mishap /\ UNCHANGED handCrashes => Setbacks' = Setbacks + 1
         /\ NoMishap /\ handCrashes' = handCrashes + 1 => Setbacks' = Setbacks + 1
<1>1. PICK m \in Nat, c \in Nat : m = mishaps /\ c = handCrashes
  BY DEF HandNumbers
<1> QED BY <1>1 DEF Setbacks, Mishap, NoMishap

\* Steps that leave the syncs as they are.
LEMMA QuietKeepsSync ==
  ASSUME SyncInv, Setbacks' = Setbacks, UNCHANGED <<synced, skipped, watermark>>,
         \/ hand' = hand
         \/ hand.step # "sync" /\ hand'.step # "sync" /\ (hand'.step \in Early => hand'.last = 0)
  PROVE  SyncInv'
<1>1. WatermarkTrue'
  BY DEF SyncInv, WatermarkTrue, Covered, Few
<1>2. CASE hand' = hand
  <2>1. ASSUME NEW s \in Nat, SyncAt(s) PROVE SyncAt(s)'
    BY <1>2, <2>1 DEF SyncAt, Covered, Few
  <2> QED BY <1>1, <1>2, <2>1 DEF SyncInv
<1> QED BY <1>1, <1>2 DEF SyncInv

\* A setback makes room for one more sending of each.
LEMMA RoomAfterSetback ==
  ASSUME HandTypes, SyncInv, Setbacks' = Setbacks + 1, synced' = synced
  PROVE  \A m \in 1 .. MaxHistory : Few(m)' /\ synced'[m] <= 1 + Setbacks'
<1>1. PICK b \in Nat : b = Setbacks
  BY OneMoreSetback DEF HandTypes
<1>2. ASSUME NEW m \in 1 .. MaxHistory PROVE synced'[m] <= Setbacks' /\ synced'[m] <= 1 + Setbacks'
  <2>1. synced[m] \in Nat /\ synced[m] <= 1 + b
    BY <1>1 DEF HandTypes, HandNumbers, SyncInv, WatermarkTrue
  <2> QED BY <1>1, <2>1
<1> QED BY <1>2 DEF Few

LEMMA SetbackKeepsSync ==
  ASSUME HandTypes, SyncInv, Setbacks' = Setbacks + 1, synced' = synced, skipped \subseteq skipped',
         watermark' \in {watermark, 0},
         hand' = hand \/ (hand'.step # "sync" /\ (hand'.step \in Early => hand'.last = 0))
  PROVE  SyncInv'
<1>1. \A m \in 1 .. MaxHistory : Few(m)' /\ synced'[m] <= 1 + Setbacks'
  BY RoomAfterSetback
<1>2. \A m : Covered(m) => Covered(m)'
  BY DEF Covered
<1>3. WatermarkTrue'
  BY <1>1, <1>2, HandoffAssumption DEF SyncInv, WatermarkTrue
<1>4. CASE hand' = hand
  <2>1. ASSUME NEW s \in Nat, SyncAt(s) PROVE SyncAt(s)'
    BY <1>1, <1>2, <1>4, <2>1 DEF SyncAt
  <2> QED BY <1>3, <1>4, <2>1 DEF SyncInv
<1> QED BY <1>3, <1>4 DEF SyncInv

\* The messages after w, as a sync loads them.
LEMMA LoadedFrom ==
  ASSUME HandTypes, NEW w \in Nat, w <= MaxHistory,
         hand' = [hand EXCEPT !.step = "sync", !.send = MessagesAfter(w)]
  PROVE  /\ hand'.step = "sync" /\ hand'.last = hand.last
         /\ \A i \in 1 .. Len(hand'.send) : hand'.send[i] = w + i
         /\ Len(hand'.send) \in Nat /\ w + Len(hand'.send) <= MaxHistory
<1>1. hand'.step = "sync" /\ hand'.last = hand.last /\ hand'.send = MessagesAfter(w)
  BY DEF HandTypes, Hands
<1> DEFINE q == MessagesAfter(w)
<1>2. /\ q \in Seq(Nat) /\ DOMAIN q = 1 .. Len(q)
      /\ \A i \in DOMAIN q : q[i] = w + i /\ w + i <= history
  BY MessagesAreNumbers DEF HandTypes, HandNumbers
<1> HIDE DEF q
<1>3. Len(q) \in Nat
  BY <1>2
<1>4. w + Len(q) <= MaxHistory
  <2>1. CASE Len(q) = 0
    BY <2>1
  <2>2. CASE Len(q) # 0
    <3>1. Len(q) \in DOMAIN q
      BY <1>2, <1>3, <2>2
    <3>2. w + Len(q) <= history
      BY <1>2, <3>1
    <3> QED BY <1>3, <3>2, HandoffAssumption DEF HandTypes, HandNumbers
  <2> QED BY <2>1, <2>2
<1>5. \A i \in 1 .. Len(q) : q[i] = w + i
  BY <1>2
<1> QED BY <1>1, <1>3, <1>4, <1>5 DEF q

LEMMA LoadKeepsSync ==
  ASSUME HandTypes, SyncInv, LoadHistory
  PROVE  SyncInv'
<1>1. /\ hand.step = "history" /\ hand.last = 0
      /\ UNCHANGED <<synced, skipped, watermark, handCrashes>>
  BY DEF LoadHistory, syncVars, SyncInv, WatermarkTrue, Early
<1>2. CASE hand' = [hand EXCEPT !.step = "sync", !.send = MessagesAfter(watermark)] /\ NoMishap
  <2>1. watermark \in Nat /\ watermark <= MaxHistory
    BY DEF HandTypes, HandNumbers, SyncInv, WatermarkTrue
  <2>2. /\ hand'.step = "sync" /\ hand'.last = 0
        /\ \A i \in 1 .. Len(hand'.send) : hand'.send[i] = watermark + i
        /\ Len(hand'.send) \in Nat /\ watermark + Len(hand'.send) <= MaxHistory
    BY <1>1, <1>2, <2>1, LoadedFrom
  <2>3. Setbacks' = Setbacks
    BY <1>1, <1>2, OneMoreSetback DEF HandTypes
  <2>4. \A m \in 1 .. MaxHistory : m > watermark => Few(m)'
    BY <1>1, <2>3 DEF SyncInv, WatermarkTrue, Few
  <2>5. \A m \in 1 .. watermark : Covered(m)'
    BY <1>1 DEF SyncInv, WatermarkTrue, Covered
  <2>6. SyncAt(watermark)'
    BY <1>1, <2>1, <2>2, <2>4, <2>5 DEF SyncAt
  <2>7. WatermarkTrue'
    BY <1>1, <2>1, <2>2, <2>3, <2>5 DEF WatermarkTrue, SyncInv, Early
  <2>8. \E s \in Nat : SyncAt(s)'
    BY <1>1, <2>1, <2>6
  <2> QED BY <2>7, <2>8 DEF SyncInv
<1>3. CASE hand' = [hand EXCEPT !.step = "sync", !.send = MessagesAfter(0)] /\ Mishap
  <2>1. 0 \in Nat /\ 0 <= MaxHistory
    BY HandoffAssumption
  <2>2. /\ hand'.step = "sync" /\ hand'.last = 0
        /\ \A i \in 1 .. Len(hand'.send) : hand'.send[i] = 0 + i
        /\ Len(hand'.send) \in Nat /\ 0 + Len(hand'.send) <= MaxHistory
    BY <1>1, <1>3, <2>1, LoadedFrom
  <2>3. Setbacks' = Setbacks + 1
    BY <1>1, <1>3, OneMoreSetback DEF HandTypes
  <2>4. \A m \in 1 .. MaxHistory : Few(m)' /\ synced'[m] <= 1 + Setbacks'
    BY <1>1, <2>3, RoomAfterSetback
  <2>5. \A m \in 1 .. watermark : Covered(m)'
    BY <1>1 DEF SyncInv, WatermarkTrue, Covered
  <2>6. SyncAt(0)'
    BY <2>1, <2>2, <2>4 DEF SyncAt
  <2>7. WatermarkTrue'
    BY <1>1, <2>2, <2>4, <2>5 DEF WatermarkTrue, SyncInv, Early
  <2>8. \E s \in Nat : SyncAt(s)'
    BY <2>1, <2>6
  <2> QED BY <2>7, <2>8 DEF SyncInv
<1>4. CASE hand' = [hand EXCEPT !.step = "finish"] /\ Mishap
  <2>1. hand'.step = "finish"
    BY <1>4 DEF HandTypes, Hands
  <2>2. Setbacks' = Setbacks + 1
    BY <1>1, <1>4, OneMoreSetback DEF HandTypes
  <2> QED BY <1>1, <2>1, <2>2, SetbackKeepsSync DEF Early
<1> QED BY <1>2, <1>3, <1>4 DEF LoadHistory, Goes

\* What is sent next, in a sync that has come to message s.
LEMMA SentNext ==
  ASSUME HandTypes, NEW s \in Nat, SyncAt(s), hand.send # <<>>
  PROVE  /\ Head(hand.send) = s + 1 /\ s + 1 \in 1 .. MaxHistory
         /\ Len(Tail(hand.send)) \in Nat /\ s + 1 + Len(Tail(hand.send)) = s + Len(hand.send)
         /\ s + 1 <= s + Len(hand.send)
         /\ \A i \in 1 .. Len(Tail(hand.send)) : Tail(hand.send)[i] = s + 1 + i
<1> DEFINE q == hand.send
<1>1. q \in Seq(Nat) /\ q # <<>>
  BY HandParts DEF HandTypes
<1>2. (\A i \in 1 .. Len(q) : q[i] = s + i) /\ s + Len(q) <= MaxHistory
  BY DEF SyncAt
<1> HIDE DEF q
<1>3. Len(q) \in Nat /\ Len(q) >= 1 /\ Head(q) = q[1] /\ Len(Tail(q)) = Len(q) - 1
      /\ \A i \in 1 .. Len(Tail(q)) : Tail(q)[i] = q[i + 1]
  BY <1>1, HeadTailProperties
<1>4. Head(q) = s + 1
  BY <1>2, <1>3
<1>5. ASSUME NEW i \in 1 .. Len(Tail(q)) PROVE Tail(q)[i] = s + 1 + i
  <2>1. i + 1 \in 1 .. Len(q)
    BY <1>3
  <2> QED BY <1>2, <1>3, <2>1
<1>6. s + 1 \in 1 .. MaxHistory
  BY <1>2, <1>3, HandoffAssumption
<1>7. Len(Tail(q)) \in Nat /\ s + 1 + Len(Tail(q)) = s + Len(q) /\ s + 1 <= s + Len(q)
  <2> DEFINE n == Len(q)
             t == Len(Tail(q))
  <2>1. n \in Nat /\ n >= 1 /\ t = n - 1
    BY <1>3
  <2> HIDE DEF n, t
  <2>2. t \in Nat /\ s + 1 + t = s + n /\ s + 1 <= s + n
    BY <2>1
  <2> QED BY <2>2 DEF n, t
<1> QED BY <1>4, <1>5, <1>6, <1>7 DEF q

LEMMA SendKeepsSync ==
  ASSUME HandTypes, SyncInv, SendHistory
  PROVE  SyncInv'
<1>1. /\ hand.step = "sync" /\ hand.send # <<>>
      /\ UNCHANGED <<watermark, handCrashes>>
  BY DEF SendHistory
<1>2. PICK s \in Nat : SyncAt(s)
  BY <1>1 DEF SyncInv
<1>3. /\ Head(hand.send) = s + 1 /\ s + 1 \in 1 .. MaxHistory
      /\ Len(Tail(hand.send)) \in Nat /\ s + 1 + Len(Tail(hand.send)) = s + Len(hand.send)
      /\ s + 1 <= s + Len(hand.send)
      /\ \A i \in 1 .. Len(Tail(hand.send)) : Tail(hand.send)[i] = s + 1 + i
  BY <1>1, <1>2, SentNext
<1>4. /\ hand.last \in Nat /\ hand.last <= s /\ s + Len(hand.send) <= MaxHistory
      /\ \A m \in 1 .. s : Covered(m)
  BY <1>2, HandParts DEF HandTypes, SyncAt
<1>5. watermark \in Nat /\ synced \in [1 .. MaxHistory -> Nat]
  BY DEF HandTypes, HandNumbers
<1>6. CASE /\ hand' = [hand EXCEPT !.send = Tail(hand.send), !.last = s + 1]
           /\ synced' = [synced EXCEPT ![s + 1] = @ + 1] /\ NoMishap /\ UNCHANGED skipped
  <2>1. hand'.step = "sync" /\ hand'.send = Tail(hand.send) /\ hand'.last = s + 1
    BY <1>1, <1>6 DEF HandTypes, Hands
  <2>2. Setbacks' = Setbacks /\ Setbacks \in Nat
    BY <1>1, <1>6, OneMoreSetback DEF HandTypes
  <2>3. synced'[s + 1] = synced[s + 1] + 1 /\ \A m \in 1 .. MaxHistory : m # s + 1 => synced'[m] = synced[m]
    BY <1>3, <1>5, <1>6
  <2>4. Few(s + 1)
    <3>1. s < s + 1 /\ s + 1 <= s + Len(hand.send)
      BY <1>3
    <3> QED BY <1>2, <1>3, <3>1 DEF SyncAt
  <2>5. \A m \in 1 .. MaxHistory : synced'[m] <= 1 + Setbacks'
    <3>1. PICK b \in Nat : b = Setbacks
      BY <2>2
    <3> TAKE m \in 1 .. MaxHistory
    <3>2. synced[m] \in Nat /\ synced[m] <= 1 + b
      BY <1>5, <3>1 DEF SyncInv, WatermarkTrue
    <3>3. CASE m = s + 1
      BY <2>2, <2>3, <2>4, <3>1, <3>2, <3>3 DEF Few
    <3> QED BY <2>2, <2>3, <3>1, <3>2, <3>3
  <2>6. ASSUME NEW m \in 1 .. MaxHistory, s + 1 < m PROVE Few(m)'
    <3>1. hand.last < m
      BY <1>4, <2>6
    <3>2. Few(m)
      <4>1. CASE hand.last # 0 \/ watermark < m
        BY <1>2, <3>1, <4>1 DEF SyncAt
      <4>2. CASE ~(watermark < m)
        <5>1. ~(watermark <= s)
          BY <1>5, <2>6, <4>2
        <5> QED BY <1>2, <3>1, <5>1 DEF SyncAt
      <4> QED BY <4>1, <4>2
    <3> QED BY <2>2, <2>3, <2>6, <3>2 DEF Few
  <2>7. \A m \in 1 .. s + 1 : Covered(m)'
    <3> TAKE m \in 1 .. s + 1
    <3>1. CASE m = s + 1
      BY <1>3, <1>5, <2>3, <3>1 DEF Covered
    <3>2. CASE m # s + 1
      <4>1. m \in 1 .. s /\ m \in 1 .. MaxHistory
        BY <1>3, <3>2, HandoffAssumption
      <4> QED BY <1>4, <1>6, <2>3, <3>2, <4>1 DEF Covered
    <3> QED BY <3>1, <3>2
  <2>8. \A m \in 1 .. watermark : Covered(m)'
    <3> TAKE m \in 1 .. watermark
    <3>1. Covered(m)
      BY DEF SyncInv, WatermarkTrue
    <3>2. m \in 1 .. MaxHistory
      BY <1>5, HandoffAssumption DEF SyncInv, WatermarkTrue
    <3>3. CASE m = s + 1
      BY <2>7, <3>3
    <3> QED BY <1>6, <2>3, <3>1, <3>2, <3>3 DEF Covered
  <2>9. SyncAt(s + 1)'
    <3>1. s + 1 + Len(hand'.send) <= MaxHistory /\ \A i \in 1 .. Len(hand'.send) : hand'.send[i] = s + 1 + i
      BY <1>3, <1>4, <2>1
    <3>2. hand'.last <= s + 1
      BY <2>1
    <3>3. \A m \in 1 .. MaxHistory : s + 1 < m => Few(m)'
      BY <2>6
    <3>4. \A m \in 1 .. MaxHistory : hand'.last < m => Few(m)'
      BY <2>1, <3>3
    <3> QED BY <2>7, <3>1, <3>2, <3>3, <3>4 DEF SyncAt
  <2>10. WatermarkTrue'
    BY <1>1, <2>1, <2>5, <2>8 DEF WatermarkTrue, SyncInv, Early
  <2>11. \E n \in Nat : SyncAt(n)'
    BY <2>9
  <2> QED BY <2>10, <2>11 DEF SyncInv
<1>7. CASE /\ hand' = [hand EXCEPT !.send = Tail(hand.send)]
           /\ skipped' = skipped \cup {s + 1} /\ Mishap /\ UNCHANGED synced
  <2>1. hand'.step = "sync" /\ hand'.send = Tail(hand.send) /\ hand'.last = hand.last
    BY <1>1, <1>7 DEF HandTypes, Hands
  <2>2. Setbacks' = Setbacks + 1
    BY <1>1, <1>7, OneMoreSetback DEF HandTypes
  <2>3. \A m \in 1 .. MaxHistory : Few(m)' /\ synced'[m] <= 1 + Setbacks'
    BY <1>7, <2>2, RoomAfterSetback
  <2>4. \A m : Covered(m) => Covered(m)'
    BY <1>7 DEF Covered
  <2>5. \A m \in 1 .. s + 1 : Covered(m)'
    <3> TAKE m \in 1 .. s + 1
    <3>1. CASE m = s + 1
      BY <1>7, <3>1 DEF Covered
    <3>2. CASE m # s + 1
      BY <1>4, <2>4, <3>2
    <3> QED BY <3>1, <3>2
  <2>6. SyncAt(s + 1)'
    <3>1. s + 1 + Len(hand'.send) <= MaxHistory /\ \A i \in 1 .. Len(hand'.send) : hand'.send[i] = s + 1 + i
      BY <1>3, <1>4, <2>1
    <3>2. hand'.last <= s + 1
      BY <1>4, <2>1
    <3> QED BY <2>3, <2>5, <3>1, <3>2 DEF SyncAt
  <2>7. WatermarkTrue'
    BY <1>1, <2>1, <2>3, <2>4 DEF WatermarkTrue, SyncInv, Early
  <2>8. \E n \in Nat : SyncAt(n)'
    BY <2>6
  <2> QED BY <2>7, <2>8 DEF SyncInv
<1> QED BY <1>3, <1>6, <1>7 DEF SendHistory

LEMMA KeepWatermarkKeepsSync ==
  ASSUME HandTypes, SyncInv, KeepWatermark
  PROVE  SyncInv'
<1>1. /\ hand.step = "sync" /\ hand.send = <<>> /\ hand' = [hand EXCEPT !.step = "finish"]
      /\ UNCHANGED <<synced, skipped, handCrashes>>
  BY DEF KeepWatermark, Goes
<1>2. hand'.step = "finish"
  BY <1>1 DEF HandTypes, Hands
<1>3. PICK s \in Nat : SyncAt(s)
  BY <1>1 DEF SyncInv
<1>4. CASE watermark' = (IF hand.last = 0 THEN watermark ELSE hand.last) /\ NoMishap
  <2>1. Setbacks' = Setbacks
    BY <1>1, <1>4, OneMoreSetback DEF HandTypes
  <2>2. \A m : (Covered(m) <=> Covered(m)') /\ (Few(m) <=> Few(m)')
    BY <1>1, <2>1 DEF Covered, Few
  <2>3. watermark \in Nat /\ hand.last \in Nat /\ hand.last <= s /\ s <= MaxHistory
    <3>1. hand.last \in Nat /\ s + Len(hand.send) <= MaxHistory /\ hand.last <= s /\ Len(hand.send) = 0
      BY <1>1, <1>3, HandParts DEF HandTypes, SyncAt
    <3> QED BY <3>1 DEF HandTypes, HandNumbers
  <2>4. \A m \in 1 .. MaxHistory : synced'[m] <= 1 + Setbacks'
    BY <1>1, <2>1 DEF SyncInv, WatermarkTrue
  <2>5. CASE hand.last = 0
    <3>1. watermark' = watermark
      BY <1>4, <2>5
    <3>2. \A m \in 1 .. MaxHistory : m > watermark => Few(m)
      BY <1>3, <2>3, <2>5 DEF SyncAt
    <3> QED BY <1>2, <2>2, <2>4, <3>1, <3>2 DEF SyncInv, WatermarkTrue, Early
  <2>6. CASE hand.last # 0
    <3>1. watermark' = hand.last
      BY <1>4, <2>6
    <3>2. \A m \in 1 .. MaxHistory : m > hand.last => Few(m)
      BY <1>3, <2>3, <2>6 DEF SyncAt
    <3>3. hand.last <= MaxHistory /\ \A m \in 1 .. hand.last : Covered(m)
      <4>1. \A m \in 1 .. hand.last : m \in 1 .. s
        BY <2>3
      <4> QED BY <1>3, <2>3, <4>1, HandoffAssumption DEF SyncAt
    <3> QED BY <1>2, <2>2, <2>4, <3>1, <3>2, <3>3 DEF SyncInv, WatermarkTrue, Early
  <2> QED BY <2>5, <2>6
<1>5. CASE watermark' = watermark /\ Mishap
  <2>1. Setbacks' = Setbacks + 1
    BY <1>1, <1>5, OneMoreSetback DEF HandTypes
  <2> QED BY <1>1, <1>2, <1>5, <2>1, SetbackKeepsSync DEF Early
<1> QED BY <1>4, <1>5 DEF KeepWatermark

LEMMA SyncKeeps == HandTypes /\ SyncInv /\ [HandNext]_handVars => SyncInv'
<1> SUFFICES ASSUME HandTypes, SyncInv, [HandNext]_handVars PROVE SyncInv'
  OBVIOUS
<1>1. /\ Mishap /\ UNCHANGED handCrashes => Setbacks' = Setbacks + 1
      /\ NoMishap /\ UNCHANGED handCrashes => Setbacks' = Setbacks
  BY OneMoreSetback DEF HandTypes
<1>2. ASSUME hand' = hand, UNCHANGED <<syncVars, handCrashes>>, NoMishap \/ Mishap PROVE SyncInv'
  <2>1. synced' = synced /\ skipped' = skipped /\ watermark' = watermark
    BY <1>2 DEF syncVars
  <2>2. CASE NoMishap
    BY <1>1, <1>2, <2>1, <2>2, QuietKeepsSync
  <2>3. CASE Mishap
    BY <1>1, <1>2, <2>1, <2>3, SetbackKeepsSync
  <2> QED BY <1>2, <2>2, <2>3
<1>3. ASSUME hand.step # "sync", hand'.step # "sync", hand'.step \in Early => hand'.last = 0,
             UNCHANGED <<syncVars, handCrashes>>, NoMishap \/ Mishap PROVE SyncInv'
  <2>1. synced' = synced /\ skipped' = skipped /\ watermark' = watermark
    BY <1>3 DEF syncVars
  <2>2. CASE NoMishap
    BY <1>1, <1>3, <2>1, <2>2, QuietKeepsSync
  <2>3. CASE Mishap
    BY <1>1, <1>3, <2>1, <2>3, SetbackKeepsSync
  <2> QED BY <1>3, <2>2, <2>3
<1>4. CASE Escalate
  BY <1>2, <1>4 DEF Escalate, KeepMapping, queueVars, mapVars, NoMishap
<1>5. CASE StoreHistory
  BY <1>2, <1>5 DEF StoreHistory, KeepMapping, queueVars, mapVars, NoMishap
<1>6. CASE BackToAI
  BY <1>2, <1>6 DEF BackToAI, KeepMapping, queueVars, mapVars, NoMishap
<1>7. CASE ForwardLookup
  BY <1>2, <1>7 DEF ForwardLookup, KeepMapping, queueVars, mapVars, NoMishap
<1>8. CASE ForwardCreate
  BY <1>2, <1>8 DEF ForwardCreate, KeepMapping, queueVars, mapVars, NoMishap
<1>9. CASE ForwardKeep
  BY <1>2, <1>9 DEF ForwardKeep, KeepMapping, queueVars, mapVars, NoMishap
<1>10. CASE ForwardSend
  BY <1>2, <1>10 DEF ForwardSend, KeepMapping, queueVars, mapVars, NoMishap
<1>11. CASE ProcessPending
  BY <1>2, <1>11 DEF ProcessPending, KeepMapping, queueVars, mapVars, NoMishap
<1>12. CASE ConsumeLoop
  BY <1>2, <1>12 DEF ConsumeLoop, KeepMapping, queueVars, mapVars, NoMishap
<1>13. CASE ProcessEntry
  <2>1. hand.step # "sync" /\ hand'.step # "sync" /\ (hand'.step \in Early => hand'.last = 0)
    BY <1>13 DEF ProcessEntry, Goes, HandTypes, Hands, HandIdle, SyncInv, WatermarkTrue, Early
  <2> QED BY <1>3, <1>13, <2>1 DEF ProcessEntry, KeepMapping, NoMishap
<1>14. CASE HandLookup
  <2>1. hand.step # "sync" /\ hand'.step # "sync" /\ (hand'.step \in Early => hand'.last = 0)
    BY <1>14 DEF HandLookup, Goes, HandTypes, Hands, HandIdle, SyncInv, WatermarkTrue, Early
  <2> QED BY <1>3, <1>14, <2>1 DEF HandLookup, KeepMapping, NoMishap
<1>15. CASE HandCreate
  <2>1. hand.step # "sync" /\ hand'.step # "sync" /\ (hand'.step \in Early => hand'.last = 0)
    BY <1>15 DEF HandCreate, Goes, HandTypes, Hands, HandIdle, SyncInv, WatermarkTrue, Early
  <2> QED BY <1>3, <1>15, <2>1 DEF HandCreate, KeepMapping, NoMishap
<1>16. CASE HandKeep
  <2>1. hand.step # "sync" /\ hand'.step # "sync" /\ (hand'.step \in Early => hand'.last = 0)
    BY <1>16 DEF HandKeep, Goes, HandTypes, Hands, HandIdle, SyncInv, WatermarkTrue, Early
  <2> QED BY <1>3, <1>16, <2>1 DEF HandKeep, KeepMapping, NoMishap
<1>17. CASE Assign
  <2>1. hand.step # "sync" /\ hand'.step # "sync" /\ (hand'.step \in Early => hand'.last = 0)
    BY <1>17 DEF Assign, Goes, HandTypes, Hands, HandIdle, SyncInv, WatermarkTrue, Early
  <2> QED BY <1>3, <1>17, <2>1 DEF Assign, KeepMapping, NoMishap
<1>18. CASE Finish
  <2>1. hand.step # "sync" /\ hand'.step # "sync" /\ (hand'.step \in Early => hand'.last = 0)
    BY <1>18 DEF Finish, Goes, HandTypes, Hands, HandIdle, SyncInv, WatermarkTrue, Early
  <2> QED BY <1>3, <1>18, <2>1 DEF Finish, KeepMapping, NoMishap
<1>19. CASE AckEvent
  <2>1. hand.step # "sync" /\ hand'.step # "sync" /\ (hand'.step \in Early => hand'.last = 0)
    BY <1>19 DEF AckEvent, Goes, HandTypes, Hands, HandIdle, SyncInv, WatermarkTrue, Early
  <2> QED BY <1>3, <1>19, <2>1 DEF AckEvent, KeepMapping, NoMishap
<1>20. CASE LoadHistory
  BY <1>20, LoadKeepsSync
<1>21. CASE SendHistory
  BY <1>21, SendKeepsSync
<1>22. CASE KeepWatermark
  BY <1>22, KeepWatermarkKeepsSync
<1>23. CASE ExpireKeys
  BY <1>1, <1>23, SetbackKeepsSync DEF ExpireKeys
<1>24. CASE CrashHandoff
  <2>1. hand'.step = "idle" /\ hand'.last = 0
    BY <1>24 DEF CrashHandoff, HandIdle
  <2>2. Setbacks' = Setbacks + 1
    BY <1>24, OneMoreSetback DEF CrashHandoff, HandTypes, NoMishap
  <2> QED BY <1>24, <2>1, <2>2, SetbackKeepsSync DEF CrashHandoff, syncVars
<1>25. CASE UNCHANGED handVars
  BY <1>2, <1>25 DEF handVars, NoMishap
<1> QED
  BY <1>4, <1>5, <1>6, <1>7, <1>8, <1>9, <1>10, <1>11, <1>12, <1>13, <1>14,
     <1>15, <1>16, <1>17, <1>18, <1>19, <1>20, <1>21, <1>22, <1>23, <1>24, <1>25
     DEF HandNext, ConsumerStep

(* The history of a conversation is handed over: a message is sent once and *)
(* once more at most per failed call, lost key or crash, and the watermark  *)
(* passes none that was not sent or tried (SyncConversationHistory).        *)
THEOREM HistoryIsHandedOver == HandSpec => []HistoryHandedOver
<1>1. HandInit => HandTypes /\ SyncInv
  <2> SUFFICES ASSUME HandInit PROVE HandTypes /\ SyncInv
    OBVIOUS
  <2>1. hand.step = "idle" /\ hand.last = 0
    BY DEF HandInit, HandIdle
  <2>2. watermark = 0 /\ Setbacks = 0 /\ \A m \in 1 .. MaxHistory : synced[m] = 0
    BY DEF HandInit, Setbacks
  <2>3. 1 .. watermark = {} /\ watermark <= MaxHistory
    BY <2>2, HandoffAssumption
  <2> QED BY <2>1, <2>2, <2>3, HandStarts DEF SyncInv, WatermarkTrue, Few, Covered
<1>2. HandTypes /\ SyncInv => HistoryHandedOver
  <2> SUFFICES ASSUME HandTypes, SyncInv PROVE HistoryHandedOver
    OBVIOUS
  <2>1. 1 + Setbacks = 1 + mishaps + handCrashes
    BY OneMoreSetback DEF HandTypes
  <2> QED BY <2>1 DEF SyncInv, WatermarkTrue, Covered, HistoryHandedOver
<1> QED
  BY HandTypesKeep, SyncKeeps, <1>1, <1>2, PTL DEF HandSpec

-----------------------------------------------------------------------------
(* The way in and out: what a month read of a message with an id is one     *)
(* row, because its entries carry that id as their key and no others do.    *)
Contents == [type : {"text", "image", "video", "link", "event", "card", "voice"},
             text : {"", "said", "raw", "voice", "unsupported"}, url : {"", "url"}, desc : {"", "desc"}]
MsgKeys == {NoKey, <<"at", 1>>, <<"id", 1>>, <<"id", 2>>}
InEntries == [key : MsgKeys, content : Contents, of : MsgIds]
KeptRows == [key : MsgKeys, content : Contents, of : MsgIds, month : Nat]

MsgTypes ==
  /\ platform \in Platforms /\ month \in Nat
  /\ \A i \in MsgIds : /\ msgs[i].id = i /\ msgs[i].second = 1 /\ msgs[i].type \in RawTypes
                       /\ msgs[i].readable \in BOOLEAN /\ msgs[i].named \in BOOLEAN

\* The key of an entry is its message's id, or no id.
KeyFits(e) == IF msgs[e.of].named THEN e.key = <<"id", e.of>> ELSE e.key \in {NoKey, <<"at", 1>>}
EntriesFit ==
  /\ stream \in Seq(InEntries) /\ \A i \in DOMAIN stream : KeyFits(stream[i])
  /\ kept \in Seq(KeptRows) /\ \A i \in DOMAIN kept : KeyFits(kept[i])

\* A message with an id has a row of each month it was read in, and one only.
OneRow ==
  \A m \in MsgIds, mo \in Nat : msgs[m].named =>
    /\ <<m, mo>> \in taken <=> \E i \in DOMAIN kept : kept[i].of = m /\ kept[i].month = mo
    /\ \A i, j \in DOMAIN kept : /\ kept[i].of = m /\ kept[i].month = mo
                                /\ kept[j].of = m /\ kept[j].month = mo => i = j

\* One without an id that was read is behind a row of that month without one.
NamelessRow ==
  \A m \in MsgIds, mo \in Nat : ~msgs[m].named /\ <<m, mo>> \in taken =>
    \E k \in DOMAIN kept : kept[k].month = mo /\ ~msgs[kept[k].of].named

ShownTrue == reply.seen = NoContent \/ ShownAs(reply.told, reply.seen)
IngressInv == MsgTypes /\ EntriesFit /\ OneRow /\ NamelessRow /\ accepted \subseteq enqueued /\ ShownTrue

LEMMA KeysDiffer ==
  /\ \A i \in MsgIds : <<"id", i>> # NoKey /\ <<"id", i>> # <<"at", 1>>
  /\ \A i, j \in MsgIds : <<"id", i>> = <<"id", j>> => i = j
BY DEF NoKey, MsgIds

\* What the five platforms publish of a message.
LEMMA WebhookPublishes ==
  ASSUME MsgTypes, NEW i \in MsgIds, NEW signed \in BOOLEAN, NEW body \in Bodies,
         NEW e \in WebhookOf(platform, signed, body, msgs[i]).publish
  PROVE  e \in InEntries /\ e.of = i /\ KeyFits(e)
<1> DEFINE m == msgs[i]
<1>1. /\ m.id = i /\ m.second = 1 /\ m.type \in RawTypes /\ m.readable \in BOOLEAN /\ m.named \in BOOLEAN
      /\ platform \in Platforms
  BY DEF MsgTypes
<1> HIDE DEF m
<1>2. /\ NameOrSecond(m) \in MsgKeys
      /\ IF m.named THEN NameOrSecond(m) = <<"id", i>> ELSE NameOrSecond(m) \in {NoKey, <<"at", 1>>}
  BY <1>1 DEF NameOrSecond, MsgKeys, MsgIds
<1>3. \A t \in {"said", "raw", "voice", "unsupported", ""} : Words(t) \in Contents
  BY DEF Words, Contents
<1>4. \A k \in {"image", "video"}, there \in BOOLEAN : Medium(k, there) \in Contents
  BY DEF Medium, Contents
<1>5. \A there \in BOOLEAN : Link(there) \in Contents /\ [Link(there) EXCEPT !.url = "url"] \in Contents
  BY DEF Link, Medium, Contents
<1>6. [NoContent EXCEPT !.type = "event"] \in Contents
  BY DEF NoContent, Contents
<1>7. WechatContent(m) \in Contents
  BY <1>1, <1>3, <1>4, <1>5, <1>6 DEF WechatContent, RawTypes
<1>8. Redecoded(m, {"image", "video"}) \in Contents /\ Redecoded(m, {"image"}) \in Contents
  BY <1>1, <1>3, <1>4 DEF Redecoded, Unsupported, RawTypes
<1>9. DouyinContent(m) \in Contents /\ KuaishouContent(m) \in Contents /\ TaobaoContent(m) \in Contents
  BY <1>1, <1>5, <1>8 DEF DouyinContent, KuaishouContent, TaobaoContent
<1>10. XhsContent(m) \in Contents
  BY <1>1, <1>3, <1>4, <1>5 DEF XhsContent, Unsupported, RawTypes
<1>11. PICK key, content :
         /\ e = [key |-> key, content |-> content, of |-> m.id] /\ content \in Contents /\ key \in MsgKeys
         /\ IF m.named THEN key = <<"id", i>> ELSE key \in {NoKey, <<"at", 1>>}
  <2> USE DEF Handled, Forbidden, Echo
  <2>0. e \in WebhookOf(platform, signed, body, m).publish
    BY DEF m
  <2>1. CASE platform = "wechat"
    BY <2>0, <2>1, <1>2, <1>7 DEF WebhookOf, WechatWebhook, WechatParse
  <2>2. CASE platform = "douyin"
    BY <2>0, <2>2, <1>2, <1>9 DEF WebhookOf, DouyinWebhook, DouyinParse
  <2>3. CASE platform = "kuaishou"
    BY <2>0, <2>3, <1>2, <1>9 DEF WebhookOf, KuaishouWebhook, KuaishouParse
  <2>4. CASE platform = "taobao"
    BY <2>0, <2>4, <1>2, <1>9 DEF WebhookOf, TaobaoWebhook, TaobaoParse
  <2>5. CASE platform = "xiaohongshu"
    <3>1. e = XhsParse(m)
      BY <2>0, <2>5 DEF WebhookOf, XhsWebhook
    <3>2. (IF m.named THEN <<"id", m.id>> ELSE NoKey) \in MsgKeys
      BY <1>1 DEF MsgKeys, MsgIds
    <3> QED
      BY <3>1, <3>2, <1>1, <1>10 DEF XhsParse
  <2> QED
    BY <1>1, <2>1, <2>2, <2>3, <2>4, <2>5 DEF Platforms
<1> QED
  BY <1>1, <1>11 DEF InEntries, KeyFits, m

\* What is published of message i keeps the invariant.
LEMMA PublishKeeps ==
  ASSUME IngressInv, NEW i \in MsgIds, NEW entries, entries = <<>> \/ \E e \in InEntries : entries = <<e>>,
         \A k \in DOMAIN entries : entries[k].of = i /\ KeyFits(entries[k]),
         NEW landed \in BOOLEAN, Publish(entries, landed),
         UNCHANGED <<platform, msgs, taken, kept, month, reply>>,
         accepted' = accepted \/ (landed /\ entries # <<>> /\ accepted' = accepted \cup {i})
  PROVE  IngressInv'
<1>1. entries \in Seq(InEntries)
  <2>1. CASE entries = <<>>
    BY <2>1
  <2>2. ASSUME NEW e \in InEntries, entries = <<e>> PROVE entries \in Seq(InEntries)
    BY <2>2
  <2> QED
    BY <2>1, <2>2
<1>2. /\ stream' \in Seq(InEntries) /\ \A k \in DOMAIN stream' : KeyFits(stream'[k])
      /\ enqueued \subseteq enqueued' /\ (landed /\ entries # <<>> => i \in enqueued')
  <2>1. CASE landed
    <3>1. stream' = stream \o entries /\ enqueued' = enqueued \cup {entries[k].of : k \in DOMAIN entries}
      BY <2>1 DEF Publish
    <3>2. stream \in Seq(InEntries) /\ \A k \in DOMAIN stream : KeyFits(stream[k])
      BY DEF IngressInv, EntriesFit
    <3>3. \A k \in 1 .. Len(stream) + Len(entries) :
            stream'[k] = IF k <= Len(stream) THEN stream[k] ELSE entries[k - Len(stream)]
      BY <1>1, <3>1, <3>2
    <3>4. stream' \in Seq(InEntries) /\ Len(stream') = Len(stream) + Len(entries)
      BY <1>1, <3>1, <3>2
    <3>5. ASSUME NEW k \in DOMAIN stream' PROVE KeyFits(stream'[k])
      <4>1. CASE k <= Len(stream)
        BY <3>2, <3>3, <3>4, <3>5, <4>1
      <4>2. CASE ~(k <= Len(stream))
        <5>1. k - Len(stream) \in 1 .. Len(entries)
          BY <1>1, <3>2, <3>4, <3>5, <4>2
        <5> QED
          BY <1>1, <3>2, <3>3, <3>4, <3>5, <4>2, <5>1
      <4> QED
        BY <4>1, <4>2
    <3>6. entries # <<>> => 1 \in DOMAIN entries
      OBVIOUS
    <3> QED
      BY <3>1, <3>4, <3>5, <3>6
  <2>2. CASE ~landed
    BY <2>2 DEF Publish, IngressInv, EntriesFit
  <2> QED
    BY <2>1, <2>2
<1>4. EntriesFit'
  BY <1>2 DEF IngressInv, EntriesFit, KeyFits
<1>5. MsgTypes' /\ OneRow' /\ NamelessRow' /\ ShownTrue'
  BY DEF IngressInv, MsgTypes, OneRow, NamelessRow, ShownTrue
<1>6. (accepted \subseteq enqueued)'
  BY <1>2 DEF IngressInv
<1> QED
  BY <1>4, <1>5, <1>6 DEF IngressInv

LEMMA WebhookKeeps ==
  ASSUME IngressInv, NEW i \in MsgIds, NEW signed \in BOOLEAN, NEW body \in Bodies, Webhook(i, signed, body)
  PROVE  IngressInv'
<1> DEFINE P == WebhookOf(platform, signed, body, msgs[i]).publish
           entries == IF P = {} THEN <<>> ELSE <<CHOOSE e \in P : TRUE>>
<1>1. P # {} => (CHOOSE e \in P : TRUE) \in P
  OBVIOUS
<1>2. \A e \in P : e \in InEntries /\ e.of = i /\ KeyFits(e)
  BY WebhookPublishes DEF IngressInv
<1>3. PICK landed \in BOOLEAN : Publish(entries, landed)
  BY DEF Webhook
<1>4. UNCHANGED <<platform, msgs, accepted, taken, kept, month, reply>>
  BY DEF Webhook
<1> HIDE DEF P
<1>5. /\ entries = <<>> \/ \E e \in InEntries : entries = <<e>>
      /\ \A k \in DOMAIN entries : entries[k].of = i /\ KeyFits(entries[k])
  <2>1. CASE P = {}
    BY <2>1
  <2>2. CASE P # {}
    <3>1. PICK e \in InEntries : entries = <<e>> /\ e.of = i /\ KeyFits(e)
      BY <1>1, <1>2, <2>2
    <3> HIDE DEF entries
    <3> QED
      BY <3>1
  <2> QED
    BY <2>1, <2>2
<1> HIDE DEF entries
<1> QED
  BY <1>3, <1>4, <1>5, PublishKeeps

LEMMA PostKeeps == ASSUME IngressInv, NEW i \in MsgIds, Post(i) PROVE IngressInv'
<1> DEFINE posted == ApiEntry(msgs[i])
<1>1. posted \in InEntries /\ posted.of = i /\ KeyFits(posted)
  <2>1. /\ msgs[i].id = i /\ msgs[i].type \in RawTypes /\ msgs[i].readable \in BOOLEAN /\ msgs[i].named \in BOOLEAN
    BY DEF IngressInv, MsgTypes
  <2>2. (IF msgs[i].named THEN <<"id", msgs[i].id>> ELSE NoKey) \in MsgKeys
    BY <2>1 DEF MsgKeys, MsgIds
  <2>3. (IF msgs[i].type = "text" THEN Words(IF msgs[i].readable THEN "said" ELSE "")
         ELSE Medium(msgs[i].type, msgs[i].readable)) \in Contents
    BY <2>1 DEF Words, Medium, Contents, RawTypes
  <2> QED
    BY <2>1, <2>2, <2>3 DEF ApiEntry, InEntries, KeyFits
<1>2. UNCHANGED <<platform, msgs, taken, kept, month, reply>>
  BY DEF Post
<1>3. \/ \E landed \in BOOLEAN : /\ Publish(<<posted>>, landed)
                                /\ (accepted' = accepted \/ (landed /\ accepted' = accepted \cup {i}))
      \/ UNCHANGED <<accepted, stream, enqueued>>
  BY DEF Post
<1> HIDE DEF posted
<1>4. CASE UNCHANGED <<accepted, stream, enqueued>>
  BY <1>2, <1>4 DEF IngressInv, MsgTypes, EntriesFit, KeyFits, OneRow, NamelessRow, ShownTrue
<1>5. ASSUME NEW landed \in BOOLEAN, Publish(<<posted>>, landed),
             accepted' = accepted \/ (landed /\ accepted' = accepted \cup {i})
      PROVE  IngressInv'
  <2>1. /\ \A k \in DOMAIN <<posted>> : <<posted>>[k].of = i /\ KeyFits(<<posted>>[k])
        /\ <<posted>> # <<>>
    BY <1>1
  <2> QED
    BY <1>1, <1>2, <1>5, <2>1, PublishKeeps
<1> QED
  BY <1>3, <1>4, <1>5

LEMMA TakeKeeps == ASSUME IngressInv, Take PROVE IngressInv'
<1> DEFINE e == Head(stream)
           stored == [key |-> e.key, content |-> e.content, of |-> e.of, month |-> month]
<1>1. /\ stream \in Seq(InEntries) /\ stream # <<>> /\ stream' = Tail(stream)
      /\ \A i \in DOMAIN stream : KeyFits(stream[i])
      /\ kept \in Seq(KeptRows) /\ \A i \in DOMAIN kept : KeyFits(kept[i])
      /\ taken' = taken \cup {<<e.of, month>>}
      /\ UNCHANGED <<platform, msgs, accepted, enqueued, month, reply>> /\ month \in Nat
  BY DEF Take, IngressInv, EntriesFit, MsgTypes
<1>2. e \in InEntries /\ KeyFits(e)
  <2>1. 1 \in DOMAIN stream /\ e = stream[1]
    BY <1>1
  <2> QED
    BY <1>1, <2>1
<1>3. stream' \in Seq(InEntries) /\ \A i \in DOMAIN stream' : i + 1 \in DOMAIN stream /\ stream'[i] = stream[i + 1]
  BY <1>1
<1>4. kept' = IF HasRow(e) THEN kept ELSE Append(kept, stored)
  BY DEF Take
<1>5. stored \in KeptRows /\ KeyFits(stored) /\ stored.of = e.of /\ stored.key = e.key /\ stored.month = month
  BY <1>1, <1>2 DEF InEntries, KeptRows, KeyFits
<1> HIDE DEF e, stored
<1>6. ASSUME NEW key \in MsgKeys, NEW of \in MsgIds,
             IF msgs[of].named THEN key = <<"id", of>> ELSE key \in {NoKey, <<"at", 1>>},
             NEW m \in MsgIds, msgs[m].named
      PROVE  (of = m <=> key = <<"id", m>>) /\ (of = m => key # NoKey)
  BY <1>6, KeysDiffer
<1>7. /\ e.of \in MsgIds /\ e.key \in MsgKeys
      /\ \A i \in DOMAIN kept : kept[i].of \in MsgIds /\ kept[i].key \in MsgKeys /\ kept[i].month \in Nat
  <2>1. e.of \in MsgIds /\ e.key \in MsgKeys
    BY <1>2 DEF InEntries
  <2>2. \A k \in KeptRows : k.of \in MsgIds /\ k.key \in MsgKeys /\ k.month \in Nat
    BY DEF KeptRows
  <2>3. \A i \in DOMAIN kept : kept[i] \in KeptRows
    BY <1>1
  <2> QED
    BY <2>1, <2>2, <2>3
<1>8. \A m \in MsgIds : msgs[m].named =>
        /\ e.of = m <=> e.key = <<"id", m>>
        /\ e.of = m => e.key # NoKey
        /\ \A i \in DOMAIN kept : kept[i].of = m <=> kept[i].key = <<"id", m>>
  <2> SUFFICES ASSUME NEW m \in MsgIds, msgs[m].named
               PROVE  /\ e.of = m <=> e.key = <<"id", m>>
                      /\ e.of = m => e.key # NoKey
                      /\ \A i \in DOMAIN kept : kept[i].of = m <=> kept[i].key = <<"id", m>>
    OBVIOUS
  <2>1. (e.of = m <=> e.key = <<"id", m>>) /\ (e.of = m => e.key # NoKey)
    <3>1. IF msgs[e.of].named THEN e.key = <<"id", e.of>> ELSE e.key \in {NoKey, <<"at", 1>>}
      BY <1>2 DEF KeyFits
    <3> QED
      BY <1>6, <1>7, <3>1
  <2>2. ASSUME NEW i \in DOMAIN kept PROVE kept[i].of = m <=> kept[i].key = <<"id", m>>
    <3> DEFINE key == kept[i].key
               of == kept[i].of
    <3>1. IF msgs[of].named THEN key = <<"id", of>> ELSE key \in {NoKey, <<"at", 1>>}
      BY <1>1, <2>2 DEF KeyFits
    <3>2. of \in MsgIds /\ key \in MsgKeys
      BY <1>7, <2>2
    <3> HIDE DEF key, of
    <3>3. of = m <=> key = <<"id", m>>
      BY <1>6, <3>1, <3>2
    <3> QED
      BY <3>3 DEF key, of
  <2> QED
    BY <2>1, <2>2
<1>9. OneRow /\ NamelessRow
  BY DEF IngressInv
<1>10. CASE kept' = Append(kept, stored) /\ ~HasRow(e)
  <2>1. /\ kept' \in Seq(KeptRows) /\ DOMAIN kept' = DOMAIN kept \cup {Len(kept) + 1}
        /\ Len(kept) + 1 \notin DOMAIN kept /\ kept'[Len(kept) + 1] = stored
        /\ \A i \in DOMAIN kept : kept'[i] = kept[i]
    BY <1>1, <1>5, <1>10
  <2>2. \A i \in DOMAIN kept' : KeyFits(kept'[i])
    BY <1>1, <1>5, <2>1
  <2>3. OneRow'
    <3>1. \A m \in MsgIds : msgs[m].named /\ e.of = m =>
            ~\E i \in DOMAIN kept : kept[i].of = m /\ kept[i].month = month
      BY <1>8, <1>10 DEF HasRow
    <3>2. ASSUME NEW m \in MsgIds, NEW mo \in Nat, msgs[m].named, e.of = m, mo = month
          PROVE  /\ <<m, mo>> \in taken'
                 /\ \A i \in DOMAIN kept' : kept'[i].of = m /\ kept'[i].month = mo => i = Len(kept) + 1
                 /\ kept'[Len(kept) + 1].of = m /\ kept'[Len(kept) + 1].month = mo
      BY <1>1, <1>5, <2>1, <3>1, <3>2
    <3>3. ASSUME NEW m \in MsgIds, NEW mo \in Nat, msgs[m].named, ~(e.of = m /\ mo = month)
          PROVE  /\ <<m, mo>> \in taken' <=> <<m, mo>> \in taken
                 /\ \A i \in DOMAIN kept' : kept'[i].of = m /\ kept'[i].month = mo
                       => i \in DOMAIN kept /\ kept[i].of = m /\ kept[i].month = mo
      BY <1>1, <1>5, <2>1, <3>3
    <3>4. ASSUME NEW m \in MsgIds, NEW mo \in Nat, msgs[m].named
          PROVE  /\ <<m, mo>> \in taken' <=> \E i \in DOMAIN kept' : kept'[i].of = m /\ kept'[i].month = mo
                 /\ \A i, j \in DOMAIN kept' : /\ kept'[i].of = m /\ kept'[i].month = mo
                                              /\ kept'[j].of = m /\ kept'[j].month = mo => i = j
      <4>1. CASE e.of = m /\ mo = month
        BY <2>1, <3>2, <3>4, <4>1
      <4>2. CASE ~(e.of = m /\ mo = month)
        BY <1>9, <2>1, <3>3, <3>4, <4>2 DEF OneRow
      <4> QED
        BY <4>1, <4>2
    <3> QED
      BY <1>1, <3>4 DEF OneRow
  <2>4. NamelessRow'
    <3> SUFFICES ASSUME NEW m \in MsgIds, NEW mo \in Nat, ~msgs[m].named, <<m, mo>> \in taken'
                 PROVE  \E k \in DOMAIN kept' : kept'[k].month = mo /\ ~msgs[kept'[k].of].named
      BY <1>1 DEF NamelessRow
    <3>1. <<m, mo>> \in taken \/ (m = e.of /\ mo = month)
      BY <1>1
    <3>2. CASE <<m, mo>> \in taken
      <4>1. PICK k \in DOMAIN kept : kept[k].month = mo /\ ~msgs[kept[k].of].named
        BY <1>9, <3>2 DEF NamelessRow
      <4>2. k \in DOMAIN kept' /\ kept'[k] = kept[k]
        BY <2>1
      <4> QED
        BY <4>1, <4>2
    <3>3. CASE m = e.of /\ mo = month
      BY <1>5, <2>1, <3>3
    <3> QED
      BY <3>1, <3>2, <3>3
  <2> QED
    BY <1>1, <1>3, <2>1, <2>2, <2>3, <2>4 DEF IngressInv, MsgTypes, EntriesFit, KeyFits, ShownTrue
<1>11. CASE kept' = kept /\ HasRow(e)
  <2>1. PICK k \in DOMAIN kept : e.key # NoKey /\ kept[k].key = e.key /\ kept[k].month = month
    BY <1>11 DEF HasRow
  <2>2. msgs[e.of].named => kept[k].of = e.of
    BY <1>7, <1>8, <2>1
  <2>3. ~msgs[e.of].named => ~msgs[kept[k].of].named
    BY <1>7, <1>8, <2>1
  <2>4. OneRow'
    BY <1>1, <1>7, <1>9, <1>11, <2>1, <2>2 DEF OneRow
  <2>5. NamelessRow'
    BY <1>1, <1>7, <1>9, <1>11, <2>1, <2>3 DEF NamelessRow
  <2> QED
    BY <1>1, <1>3, <1>11, <2>4, <2>5 DEF IngressInv, MsgTypes, EntriesFit, KeyFits, ShownTrue
<1> QED
  BY <1>4, <1>10, <1>11

LEMMA MonthKeeps == ASSUME IngressInv, NextMonth PROVE IngressInv'
<1>1. /\ month' = month + 1
      /\ UNCHANGED <<platform, msgs, accepted, stream, enqueued, taken, kept, reply>>
  BY DEF NextMonth
<1> QED
  BY <1>1 DEF IngressInv, MsgTypes, EntriesFit, KeyFits, OneRow, NamelessRow, ShownTrue

\* What any of the five platforms shows of an answer.
LEMMA ShownWell ==
  ASSUME NEW p \in Platforms, NEW c \in Replies, NEW net \in Nets
  PROVE  SendOf(p, c, net).seen = NoContent \/ ShownAs(c, SendOf(p, c, net).seen)
<1>1. \E media \in {{"image"}, {"image", "video"}} : SendOf(p, c, net) = Outcome(net, Formatted(c, media))
  BY DEF Platforms, SendOf, WechatSend, DouyinSend, KuaishouSend, TaobaoSend, XhsSend
<1>2. \A media \in {{"image"}, {"image", "video"}} : ShownAs(c, Formatted(c, media))
  <2>1. CASE c = Words("said")
    BY <2>1 DEF Words, Formatted, ShownAs
  <2>2. CASE c = Medium("image", TRUE)
    BY <2>2 DEF Medium, Formatted, ShownAs
  <2>3. CASE c = Medium("video", TRUE)
    BY <2>3 DEF Words, Medium, Formatted, FirstWords, ShownAs
  <2>4. CASE c = [Link(TRUE) EXCEPT !.text = "said"]
    <3>1. c.type = "link" /\ c.text = "said" /\ c.url = "url" /\ c.desc = "desc"
      BY <2>4 DEF Link, Medium
    <3> QED
      BY <3>1 DEF Words, Formatted, FirstWords, ShownAs
  <2> QED
    BY <2>1, <2>2, <2>3, <2>4 DEF Replies
<1> QED
  BY <1>1, <1>2 DEF Outcome

LEMMA DispatchKeeps ==
  ASSUME IngressInv, NEW c \in Replies, NEW net \in Nets, Dispatch(c, net)
  PROVE  IngressInv'
<1>1. /\ UNCHANGED <<platform, msgs, accepted, stream, enqueued, taken, kept, month>>
      /\ reply' = [told |-> c, seen |-> SendOf(platform, c, net).seen]
  BY DEF Dispatch
<1>2. ShownTrue'
  <2>1. platform \in Platforms
    BY DEF IngressInv, MsgTypes
  <2>2. reply'.told = c /\ reply'.seen = SendOf(platform, c, net).seen
    BY <1>1
  <2>3. reply'.seen = NoContent \/ ShownAs(c, reply'.seen)
    BY <2>1, <2>2, ShownWell
  <2> QED
    BY <2>2, <2>3 DEF ShownTrue
<1> QED
  BY <1>1, <1>2 DEF IngressInv, MsgTypes, EntriesFit, KeyFits, OneRow, NamelessRow

(* However often a message is sent and whatever becomes of the XADDs: one   *)
(* with an id is one row of each month it is read in, one without is behind *)
(* a row without, a caller told 202 has his message in the stream or behind *)
(* it, and an answer is seen as what it says (the five adapters,            *)
(* HandleInbound, CreateMessage and its index, the registry's Send).        *)
THEOREM CarriedAsSent == IngressSpec => []CarriedFaithfully
<1>1. IngressInit => IngressInv
  <2> SUFFICES ASSUME IngressInit PROVE IngressInv
    OBVIOUS
  <2>1. PICK type \in RawTypes, readable, first, named \in BOOLEAN :
          msgs = <<[id |-> 1, type |-> "text", readable |-> TRUE, named |-> first, second |-> 1],
                   [id |-> 2, type |-> type, readable |-> readable, named |-> named, second |-> 1]>>
    BY DEF IngressInit
  <2>2. MsgTypes
    <3>1. /\ msgs[1] = [id |-> 1, type |-> "text", readable |-> TRUE, named |-> first, second |-> 1]
          /\ msgs[2] = [id |-> 2, type |-> type, readable |-> readable, named |-> named, second |-> 1]
      BY <2>1
    <3>2. /\ msgs[1].id = 1 /\ msgs[1].second = 1 /\ msgs[1].type \in RawTypes
          /\ msgs[1].readable \in BOOLEAN /\ msgs[1].named \in BOOLEAN
      BY <3>1 DEF RawTypes
    <3>3. /\ msgs[2].id = 2 /\ msgs[2].second = 1 /\ msgs[2].type \in RawTypes
          /\ msgs[2].readable \in BOOLEAN /\ msgs[2].named \in BOOLEAN
      BY <3>1
    <3> QED
      BY <3>2, <3>3 DEF IngressInit, MsgTypes, MsgIds
  <2>3. EntriesFit /\ OneRow /\ NamelessRow /\ accepted \subseteq enqueued /\ ShownTrue
    BY DEF IngressInit, EntriesFit, OneRow, NamelessRow, ShownTrue, NoReply
  <2> QED
    BY <2>2, <2>3 DEF IngressInv
<1>2. IngressInv /\ [IngressNext]_ingressVars => IngressInv'
  <2>1. IngressInv /\ UNCHANGED ingressVars => IngressInv'
    BY DEF ingressVars, IngressInv, MsgTypes, EntriesFit, KeyFits, OneRow, NamelessRow, ShownTrue
  <2> QED
    BY <2>1, WebhookKeeps, PostKeeps, TakeKeeps, MonthKeeps, DispatchKeeps DEF IngressNext
<1>3. IngressInv => CarriedFaithfully
  <2> SUFFICES ASSUME IngressInv PROVE CarriedFaithfully
    OBVIOUS
  <2>1. ASSUME NEW i \in MsgIds, NEW mo \in 1..month, msgs[i].named
        PROVE  Cardinality(RowsWith(msgs[i], mo)) = IF <<i, mo>> \in taken THEN 1 ELSE 0
    <3>1. RowsWith(msgs[i], mo) = {k \in DOMAIN kept : kept[k].of = i /\ kept[k].month = mo}
      BY DEF RowsWith, IngressInv, MsgTypes
    <3>2. /\ <<i, mo>> \in taken <=> \E k \in DOMAIN kept : kept[k].of = i /\ kept[k].month = mo
          /\ \A k, l \in DOMAIN kept : /\ kept[k].of = i /\ kept[k].month = mo
                                      /\ kept[l].of = i /\ kept[l].month = mo => k = l
      BY <2>1 DEF IngressInv, MsgTypes, OneRow
    <3>3. CASE <<i, mo>> \in taken
      <4>1. PICK k \in DOMAIN kept : kept[k].of = i /\ kept[k].month = mo
        BY <3>2, <3>3
      <4>2. RowsWith(msgs[i], mo) = {k}
        BY <3>1, <3>2, <4>1
      <4> QED
        BY <3>3, <4>2, FS_Singleton
    <3>4. CASE <<i, mo>> \notin taken
      <4>1. RowsWith(msgs[i], mo) = {}
        BY <3>1, <3>2, <3>4
      <4> QED
        BY <3>4, <4>1, FS_EmptySet
    <3> QED
      BY <3>3, <3>4
  <2>2. ASSUME NEW i \in MsgIds, NEW mo \in 1..month, ~msgs[i].named, <<i, mo>> \in taken
        PROVE  \E k \in DOMAIN kept : kept[k].month = mo /\ ~msgs[kept[k].of].named
    BY <2>2 DEF IngressInv, MsgTypes, NamelessRow
  <2> QED
    BY <2>1, <2>2 DEF CarriedFaithfully, IngressInv, ShownTrue
<1> QED
  BY <1>1, <1>2, <1>3, PTL DEF IngressSpec

=============================================================================
