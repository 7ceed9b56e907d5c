--------------------------- MODULE OntologyStore ---------------------------
(***************************************************************************)
(* The versions of one product line's ontology: Publish and Rollback as    *)
(* transactions that run side by side in the database (read committed: a   *)
(* statement sees what is committed and waits for a row another            *)
(* transaction holds), and the process-local cache in front of them.       *)
(***************************************************************************)
EXTENDS Naturals, FiniteSets

CONSTANTS Publishers, MaxVersion, MaxStoreFaults

ASSUME StoreAssumption == MaxVersion \in Nat

Versions == 1..MaxVersion

VARIABLES
  version,     \* [Versions -> "none", "active", "inactive"], as committed
  tx,          \* [Publishers -> the transaction in hand]
  acknowledged,\* version the last successful request made active (history)
  cache,       \* [version, fresh], version 0 for none
  querying,     \* a query whose result is not cached yet, 0 for none
  storeFaults

storeVars == <<version, tx, acknowledged, cache, querying, storeFaults>>

Tx(kind, target) == [pc |-> kind, target |-> target, seen |-> {}, held |-> {}]
NoTx == Tx("idle", 0)
NotCached == [version |-> 0, fresh |-> FALSE]

StoreInit ==
  /\ version = [v \in Versions |-> "none"] /\ tx = [p \in Publishers |-> NoTx]
  /\ acknowledged = 0 /\ cache = NotCached /\ querying = 0 /\ storeFaults = 0

StoreFault == storeFaults < MaxStoreFaults /\ storeFaults' = storeFaults + 1

Published == {v \in Versions : version[v] # "none"}
Active == {v \in Versions : version[v] = "active"}
Newest == IF Published = {} THEN 0 ELSE CHOOSE v \in Published : \A w \in Published : w <= v

BeginTx(p, target, kind) ==
  /\ tx[p].pc = "idle"
  /\ tx' = [tx EXCEPT ![p] = Tx(kind, target)]
  /\ UNCHANGED <<version, acknowledged, cache, querying, storeFaults>>

\* MAX(version) + 1 is read before anything is locked.
BeginPublish(p) == Newest < MaxVersion /\ BeginTx(p, Newest + 1, "publish")
BeginRollback(p) == \E v \in Versions : BeginTx(p, v, "rollback")

\* UPDATE ... SET active = FALSE WHERE active: the row it sees, once no other
\* transaction holds it, if it is still active then.
SeeActive(p) ==
  /\ tx[p].pc \in {"publish", "rollback"}
  /\ tx' = [tx EXCEPT ![p].seen = Active, ![p].pc = IF @ = "publish" THEN "insert" ELSE "activate"]
  /\ UNCHANGED <<version, acknowledged, cache, querying, storeFaults>>
Deactivate(p) ==
  /\ tx[p].seen # {} /\ \A q \in Publishers : tx[q].held \cap tx[p].seen = {}
  /\ tx' = [tx EXCEPT ![p].held = tx[p].seen \cap Active, ![p].seen = {}]
  /\ UNCHANGED <<version, acknowledged, cache, querying, storeFaults>>

After(p) == [v \in Versions |-> IF v = tx[p].target THEN "active"
                               ELSE IF v \in tx[p].held THEN "inactive" ELSE version[v]]

\* Mutant: no unique index on the active row.
AnyTarget(p) == IF tx[p].pc = "insert" THEN version[tx[p].target] = "none" ELSE version[tx[p].target] # "none"

\* The last statement succeeds when its row is free to insert, or there to
\* activate, and leaves one active row (uq_ontology_active).
Admissible(p) ==
  /\ IF tx[p].pc = "insert" THEN version[tx[p].target] = "none" ELSE version[tx[p].target] # "none"
  /\ Active \ (tx[p].held \cup {tx[p].target}) = {}

\* Insert or activate, commit, and drop this process's cached copy; on any
\* error the transaction is rolled back and the cache is left alone.
FinishTx(p) ==
  /\ tx[p].pc \in {"insert", "activate"} /\ tx[p].seen = {}
  /\ tx' = [tx EXCEPT ![p] = NoTx]
  /\ \/ /\ Admissible(p) /\ version' = After(p) /\ acknowledged' = tx[p].target
        /\ cache' = NotCached /\ UNCHANGED storeFaults
     \/ /\ IF Admissible(p) THEN StoreFault ELSE UNCHANGED storeFaults
        /\ UNCHANGED <<version, acknowledged, cache>>
  /\ UNCHANGED querying

\* Store.Active past a cached copy that has outlived its TTL; without a
\* reading the expired copy is served, and stays expired.
QueryActive ==
  /\ ~cache.fresh /\ querying = 0
  /\ \/ Active # {} /\ querying' \in Active /\ UNCHANGED storeFaults
     \/ StoreFault /\ UNCHANGED querying
  /\ UNCHANGED <<version, tx, acknowledged, cache>>

CacheActive ==
  /\ querying # 0 /\ querying' = 0 /\ cache' = [version |-> querying, fresh |-> TRUE]
  /\ UNCHANGED <<version, tx, acknowledged, storeFaults>>

Outlive ==
  /\ cache.fresh /\ cache' = [cache EXCEPT !.fresh = FALSE]
  /\ UNCHANGED <<version, tx, acknowledged, querying, storeFaults>>

StoreNext ==
  \/ \E p \in Publishers : BeginPublish(p) \/ BeginRollback(p) \/ SeeActive(p) \/ Deactivate(p) \/ FinishTx(p)
  \/ QueryActive \/ CacheActive \/ Outlive

StoreSpec == StoreInit /\ [][StoreNext]_storeVars

-----------------------------------------------------------------------------
\* However publishes and rollbacks overlap, the one active version is that of
\* the last of them that was answered with success.
LastPublishIsActive == Active = IF acknowledged = 0 THEN {} ELSE {acknowledged}
=============================================================================
