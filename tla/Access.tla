------------------------------- MODULE Access -------------------------------
(***************************************************************************)
(* Signing in to the console: one account, its token pairs, the refresh    *)
(* keys in Redis, and the administrators' edits of the account.  An access *)
(* token is believed until it expires; the account row is only read when   *)
(* a pair is issued.  Time is in ticks; a handler finishes within          *)
(* HandlerLag ticks of its first read.                                     *)
(***************************************************************************)
EXTENDS Naturals, FiniteSets

CONSTANTS
  Handlers,              \* requests being handled
  AccessTtl, RefreshTtl, \* JWTManager
  HandlerLag, MaxSessionTicks, MaxPairs, MaxAccessFaults

ASSUME AccessAssumption == AccessTtl \in Nat \ {0} /\ RefreshTtl \in Nat \ {0} /\ HandlerLag \in Nat

VARIABLES
  now,
  active, offSince,   \* users.is_active, and the tick at which it was cleared
  pairs,              \* issued pairs: [id, at]
  keys,               \* refresh:{hash}, [id, until]
  handler,            \* [Handlers -> [pc, started, read]]
  accessFaults

accessVars == <<now, active, offSince, pairs, keys, handler, accessFaults>>

Free == [pc |-> "free", started |-> 0, read |-> FALSE, pair |-> 0]

AccessInit ==
  /\ now = 1 /\ active = TRUE /\ offSince = 0 /\ pairs = {} /\ keys = {} /\ accessFaults = 0
  /\ handler = [h \in Handlers |-> Free]

AccessFault == accessFaults < MaxAccessFaults /\ accessFaults' = accessFaults + 1
Moves(h, pc) == handler' = [handler EXCEPT ![h].pc = pc]
Frees(h) == handler' = [handler EXCEPT ![h] = Free]

\* Mutant: the refresh does not look at is_active.
Unchecked(h) == handler[h].pc = "load" \/ active

\* The row as the handler reads it: a pair is issued to an active account only.
MayIssue(h) == active

(* HandleLogin reads the row by e-mail; the password is right.              *)
Login(h) ==
  /\ handler[h].pc = "free" /\ MayIssue(h)
  /\ handler' = [handler EXCEPT ![h] = [Free EXCEPT !.pc = "issue", !.started = now]]
  /\ UNCHANGED <<now, active, offSince, pairs, keys, accessFaults>>

(* HandleRefresh: the token is valid and its key exists; a Redis error is   *)
(* taken for a revoked token.                                               *)
Refresh(h, p) ==
  /\ handler[h].pc = "free" /\ now < p.at + RefreshTtl
  /\ \E k \in keys : k.id = p.id /\ now < k.until
  /\ handler' = [handler EXCEPT ![h] = [Free EXCEPT !.pc = "delete", !.pair = p.id]]
  /\ UNCHANGED <<now, active, offSince, pairs, keys, accessFaults>>

\* The old key is deleted; the error of the DEL is not looked at.
DeleteKey(h) ==
  /\ handler[h].pc = "delete" /\ Moves(h, "load")
  /\ \/ keys' = {k \in keys : k.id # handler[h].pair} /\ UNCHANGED accessFaults
     \/ AccessFault /\ UNCHANGED keys
  /\ UNCHANGED <<now, active, offSince, pairs>>

LoadUser(h) ==
  /\ handler[h].pc = "load"
  /\ \/ /\ MayIssue(h) /\ UNCHANGED accessFaults
        /\ handler' = [handler EXCEPT ![h].pc = "issue", ![h].started = now]
     \/ ~MayIssue(h) /\ Frees(h) /\ UNCHANGED accessFaults
     \/ AccessFault /\ Frees(h)
  /\ UNCHANGED <<now, active, offSince, pairs, keys>>

\* GenerateTokenPair: both tokens are dated now.
Issue(h) ==
  /\ handler[h].pc = "issue" /\ Cardinality(pairs) < MaxPairs
  /\ LET id == Cardinality(pairs) + 1 IN
     /\ pairs' = pairs \cup {[id |-> id, at |-> now]}
     /\ handler' = [handler EXCEPT ![h].pc = "store", ![h].pair = id]
  /\ UNCHANGED <<now, active, offSince, keys, accessFaults>>

\* A pair whose key is not stored is handed out all the same.
StoreKey(h) ==
  /\ handler[h].pc = "store" /\ Frees(h)
  /\ \/ keys' = keys \cup {[id |-> handler[h].pair, until |-> now + RefreshTtl]} /\ UNCHANGED accessFaults
     \/ AccessFault /\ UNCHANGED keys
  /\ UNCHANGED <<now, active, offSince, pairs>>

SetActive(on) ==
  /\ active' = on
  /\ offSince' = IF on THEN 0 ELSE IF active THEN now ELSE offSince

\* deleteUser: one UPDATE.
DeactivateUser(h) ==
  /\ handler[h].pc = "free" /\ SetActive(FALSE)
  /\ UNCHANGED <<now, pairs, keys, handler, accessFaults>>

(* updateUser reads the row and writes both columns back: a renaming that   *)
(* overlaps a deactivation undoes it.                                       *)
EditUser(h) ==
  /\ handler[h].pc = "free"
  /\ \E on \in BOOLEAN :     \* as asked, or as the row has it
       handler' = [handler EXCEPT ![h] = [Free EXCEPT !.pc = "edit", !.read = on]]
  /\ UNCHANGED <<now, active, offSince, pairs, keys, accessFaults>>

WriteUser(h) ==
  /\ handler[h].pc = "edit" /\ Frees(h)
  /\ \/ SetActive(handler[h].read) /\ UNCHANGED accessFaults
     \/ AccessFault /\ UNCHANGED <<active, offSince>>
  /\ UNCHANGED <<now, pairs, keys>>

AccessTick ==
  /\ now < MaxSessionTicks
  /\ \A h \in Handlers : handler[h].pc = "issue" => now < handler[h].started + HandlerLag
  /\ now' = now + 1
  /\ UNCHANGED <<active, offSince, pairs, keys, handler, accessFaults>>

AccessNext ==
  \/ AccessTick
  \/ \E h \in Handlers :
       \/ Login(h) \/ \E p \in pairs : Refresh(h, p)
       \/ DeleteKey(h) \/ LoadUser(h) \/ Issue(h) \/ StoreKey(h)
       \/ DeactivateUser(h) \/ EditUser(h) \/ WriteUser(h)

AccessSpec == AccessInit /\ [][AccessNext]_accessVars

\* AuthMiddleware: the claims of an access token are believed until it expires.
Believed(p) == now < p.at + AccessTtl

(* A deactivated account is out of the console once the tokens it had have  *)
(* expired: neither a refresh nor a sign-in under way prolongs it.          *)
InactiveFadesOut ==
  offSince # 0 /\ now >= offSince + AccessTtl + HandlerLag => \A p \in pairs : ~Believed(p)
=============================================================================
