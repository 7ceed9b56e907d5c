------------------------------- MODULE Tokens -------------------------------
(***************************************************************************)
(* One channel's access token: GetToken and its single-flight refresh, and *)
(* the background loop.  A platform issues numbered tokens; only the       *)
(* newest is sure to be accepted.                                          *)
(***************************************************************************)
EXTENDS Naturals

CONSTANTS RetryMax, MaxIssued, MaxTokenFaults

ASSUME TokenAssumption == RetryMax \in Nat \ {0}

\* refreshToken runs in callers, one at a time, and in the channel's loop; a
\* second loop can only come from a bug.
Refreshers == {"callers", "loop", "loop2"}
Loops == {"loop", "loop2"}

VARIABLES
  issued,       \* newest token
  tokenKey,     \* the token in Redis, 0 for none
  refresher,    \* [Refreshers -> [pc, try, token]]
  entry,        \* credentials in use: 0 unregistered, then one more each time
  started, loops,
  together,     \* a caller's refresh overlapped the loop's (history)
  unsaved,      \* the newest token's SET failed (history)
  unanswered,   \* the answer that carried the newest token was lost (history)
  alerted, tokenFaults

tokenVars == <<issued, tokenKey, refresher, entry, started, loops, together, unsaved, unanswered, alerted, tokenFaults>>

Idling == [pc |-> "idle", try |-> 0, token |-> 0]

TokenInit ==
  /\ issued = 0 /\ tokenKey = 0 /\ refresher = [r \in Refreshers |-> Idling]
  /\ entry = 0 /\ started = FALSE /\ loops = {} /\ together = FALSE /\ unsaved = FALSE /\ unanswered = FALSE
  /\ alerted = 0 /\ tokenFaults = 0

TokenFault == tokenFaults < MaxTokenFaults /\ tokenFaults' = tokenFaults + 1

Busy == {r \in Refreshers : refresher[r].pc # "idle"}

\* Mutant: every registration after Start spawns a loop.
RegisterAndSpawn ==
  /\ entry < 2 /\ entry' = entry + 1
  /\ loops' = IF started THEN loops \cup (IF loops = {} THEN {"loop"} ELSE {"loop2"}) ELSE loops
  /\ UNCHANGED <<issued, tokenKey, refresher, started, together, unsaved, unanswered, alerted, tokenFaults>>

\* A reload registers the channel again; only a new one gets a loop.
RegisterChannel ==
  /\ entry < 2 /\ entry' = entry + 1
  /\ loops' = IF started /\ entry = 0 THEN loops \cup {"loop"} ELSE loops
  /\ UNCHANGED <<issued, tokenKey, refresher, started, together, unsaved, unanswered, alerted, tokenFaults>>

StartLoops ==
  /\ ~started /\ started' = TRUE
  /\ loops' = IF entry > 0 THEN {"loop"} ELSE {}
  /\ UNCHANGED <<issued, tokenKey, refresher, entry, together, unsaved, unanswered, alerted, tokenFaults>>

\* GetToken on a miss (or a failing GET), or a loop whose wait is over.
BeginRefresh(r) ==
  /\ refresher[r].pc = "idle" /\ entry > 0
  /\ \/ r \in loops /\ UNCHANGED tokenFaults
     \/ r = "callers" /\ tokenKey = 0 /\ UNCHANGED tokenFaults
     \/ r = "callers" /\ tokenKey # 0 /\ TokenFault
  /\ refresher' = [refresher EXCEPT ![r] = [pc |-> "ask", try |-> 1, token |-> 0]]
  /\ together' = (together \/ ("callers" \in Busy \cup {r} /\ (Busy \cup {r}) \cap Loops # {}))
  /\ UNCHANGED <<issued, tokenKey, entry, started, loops, unsaved, unanswered, alerted>>

\* The platform issues a token, and the one before is the newest no more.
IssueToken == issued < MaxIssued /\ issued' = issued + 1 /\ unsaved' = FALSE

\* The platform's answer.  A call may fail before a token is issued, or after,
\* when its answer is lost or unreadable; after the last attempt an alert is
\* published, and a caller may give up between two attempts.
AskPlatform(r) ==
  /\ refresher[r].pc = "ask"
  /\ \/ /\ IssueToken /\ unanswered' = FALSE
        /\ refresher' = [refresher EXCEPT ![r] = [pc |-> "store", try |-> 0, token |-> issued + 1]]
        /\ UNCHANGED <<alerted, tokenFaults>>
     \/ /\ TokenFault
        /\ \/ IssueToken /\ unanswered' = TRUE
           \/ UNCHANGED <<issued, unsaved, unanswered>>
        /\ \/ /\ refresher[r].try < RetryMax
              /\ refresher' = [refresher EXCEPT ![r].try = @ + 1] /\ UNCHANGED alerted
           \/ /\ refresher[r].try = RetryMax \/ r = "callers"
              /\ refresher' = [refresher EXCEPT ![r] = Idling]
              /\ alerted' = IF refresher[r].try = RetryMax THEN alerted + 1 ELSE alerted
  /\ UNCHANGED <<tokenKey, entry, started, loops, together>>

\* SET with the lifetime; the token is used even when the SET fails, which it
\* may do after it was applied.
StoreToken(r) ==
  LET token == refresher[r].token IN
  /\ refresher[r].pc = "store" /\ refresher' = [refresher EXCEPT ![r] = Idling]
  /\ \/ /\ tokenKey' = token /\ UNCHANGED <<unsaved, tokenFaults>>
        /\ together' = (together /\ (Busy # {r} \/ token # issued))
     \/ /\ TokenFault /\ tokenKey' \in {tokenKey, token} /\ UNCHANGED together
        /\ unsaved' = (unsaved \/ token = issued)
  /\ UNCHANGED <<issued, entry, started, loops, unanswered, alerted>>

ExpireToken ==
  /\ tokenKey # 0 /\ tokenKey' = 0
  /\ UNCHANGED <<issued, refresher, entry, started, loops, together, unsaved, unanswered, alerted, tokenFaults>>

TokenNext ==
  \/ RegisterChannel \/ StartLoops \/ ExpireToken
  \/ \E r \in Refreshers : BeginRefresh(r) \/ AskPlatform(r) \/ StoreToken(r)

TokenSpec == TokenInit /\ [][TokenNext]_tokenVars

-----------------------------------------------------------------------------
\* A token that is handed out is the newest, unless the newest is about to be
\* stored, could not be, or never arrived because its answer was lost, or a
\* caller's refresh overlapped the loop's.  Each of these ends with the next
\* refresh that runs alone and is answered and stored.
TokenIsNewest ==
  tokenKey \in {0, issued} \/ together \/ unsaved \/ unanswered
    \/ \E r \in Refreshers : refresher[r].pc = "store" /\ refresher[r].token = issued
=============================================================================
