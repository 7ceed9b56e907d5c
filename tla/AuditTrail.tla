----------------------------- MODULE AuditTrail -----------------------------
(***************************************************************************)
(* The audit middleware around a write to one resource, and the logger:    *)
(* a bounded channel drained by one goroutine.  The resource is an edition *)
(* number, so that a snapshot can be placed among the writes.              *)
(***************************************************************************)
EXTENDS Naturals, Sequences, FiniteSets

CONSTANTS WriteRequests, BufferSize, MaxAuditFaults

ASSUME AuditAssumption == BufferSize \in Nat \ {0}

VARIABLES
  edition,
  audited,     \* [WriteRequests -> [pc, before, wrote, after]], 0 for no snapshot
  buffer,      \* Logger.entries
  logging,     \* what processLoop is writing, or <<>>
  trail,       \* audit_logs
  lost,        \* entries dropped, not inserted, or in memory at a crash (history)
  up, auditFaults

auditVars == <<edition, audited, buffer, logging, trail, lost, up, auditFaults>>

AuditInit ==
  /\ edition = 1 /\ buffer = <<>> /\ logging = <<>> /\ trail = <<>> /\ lost = {}
  /\ audited = [w \in WriteRequests |-> [pc |-> "before", before |-> 0, wrote |-> 0, after |-> 0]]
  /\ up = "up" /\ auditFaults = 0

Running == up \in {"up", "closing"}
AuditFault == auditFaults < MaxAuditFaults /\ auditFaults' = auditFaults + 1

\* The snapshot before the handler; a failing one does not stop the request.
SnapshotBefore(w) ==
  /\ Running /\ audited[w].pc = "before"
  /\ \/ audited' = [audited EXCEPT ![w].before = edition, ![w].pc = "handle"] /\ UNCHANGED auditFaults
     \/ audited' = [audited EXCEPT ![w].pc = "handle"] /\ AuditFault
  /\ UNCHANGED <<edition, buffer, logging, trail, lost, up>>

(* The handler writes and answers 2xx, or does not: then there is no entry, *)
(* even when it wrote before it failed.                                     *)
Handle(w) ==
  /\ Running /\ audited[w].pc = "handle"
  /\ \/ /\ edition' = edition + 1
        /\ audited' = [audited EXCEPT ![w].wrote = edition + 1, ![w].pc = "after"] /\ UNCHANGED auditFaults
     \/ /\ AuditFault /\ edition' \in {edition, edition + 1}
        /\ audited' = [audited EXCEPT ![w].pc = "done"]
  /\ UNCHANGED <<buffer, logging, trail, lost, up>>

\* Mutant: both snapshots before the handler.
SnapshotTwice(w) ==
  /\ Running /\ audited[w].pc = "after"
  /\ audited' = [audited EXCEPT ![w].after = audited[w].before, ![w].pc = "log"] /\ UNCHANGED auditFaults
  /\ UNCHANGED <<edition, buffer, logging, trail, lost, up>>

(* The snapshot after it; when that fails the response stands in for it, as *)
(* it does for a create.                                                    *)
SnapshotAfter(w) ==
  /\ Running /\ audited[w].pc = "after"
  /\ \/ audited' = [audited EXCEPT ![w].after = edition, ![w].pc = "log"] /\ UNCHANGED auditFaults
     \/ audited' = [audited EXCEPT ![w].after = audited[w].wrote, ![w].pc = "log"] /\ AuditFault
  /\ UNCHANGED <<edition, buffer, logging, trail, lost, up>>


(* A full channel drops the entry; so does, once the logger is closed, the  *)
(* send on it, a panic that the server recovers.                            *)
LogEntry(w) ==
  /\ Running /\ audited[w].pc = "log" /\ audited' = [audited EXCEPT ![w].pc = "done"]
  /\ IF up = "up" /\ Len(buffer) < BufferSize
     THEN buffer' = Append(buffer, w) /\ UNCHANGED lost
     ELSE lost' = lost \cup {w} /\ UNCHANGED buffer
  /\ UNCHANGED <<edition, logging, trail, up, auditFaults>>

\* processLoop: take, insert, and go on whatever came of it.
TakeEntry ==
  /\ Running /\ logging = <<>> /\ buffer # <<>>
  /\ logging' = <<Head(buffer)>> /\ buffer' = Tail(buffer)
  /\ UNCHANGED <<edition, audited, trail, lost, up, auditFaults>>

InsertEntry ==
  /\ Running /\ logging # <<>> /\ logging' = <<>>
  /\ \/ trail' = trail \o logging /\ UNCHANGED <<lost, auditFaults>>
     \/ AuditFault /\ lost' = lost \cup {logging[1]} /\ UNCHANGED trail
  /\ UNCHANGED <<edition, audited, buffer, up>>

(* Shutdown waits for the handlers, 15 s at most; Close then waits for the  *)
(* buffer to be drained, and the process ends.                              *)
CloseLogger ==
  /\ up = "up" /\ up' = "closing"
  /\ \/ \A w \in WriteRequests : audited[w].pc \in {"before", "done"} /\ UNCHANGED auditFaults
     \/ AuditFault
  /\ UNCHANGED <<edition, audited, buffer, logging, trail, lost>>

Unlogged == {w \in WriteRequests : audited[w].wrote # 0 /\ \A i \in DOMAIN trail : trail[i] # w}
Stop ==
  /\ up' = "down" /\ lost' = lost \cup Unlogged /\ buffer' = <<>> /\ logging' = <<>>
  /\ UNCHANGED <<edition, audited, trail>>
ExitConsole == up = "closing" /\ buffer = <<>> /\ logging = <<>> /\ Stop /\ UNCHANGED auditFaults
CrashConsole == Running /\ AuditFault /\ Stop

AuditNext ==
  \/ \E w \in WriteRequests : SnapshotBefore(w) \/ Handle(w) \/ SnapshotAfter(w) \/ LogEntry(w)
  \/ TakeEntry \/ InsertEntry \/ CloseLogger \/ ExitConsole \/ CrashConsole

AuditSpec == AuditInit /\ [][AuditNext]_auditVars

Waiting(w) ==
  \/ Running /\ audited[w].pc \in {"after", "log"}
  \/ \E i \in DOMAIN buffer : buffer[i] = w
  \/ \E i \in DOMAIN logging : logging[i] = w

(* Every write that was answered 2xx is in the trail once, or on its way,   *)
(* or was lost to a full buffer, a failed insert or a crash; and its two    *)
(* snapshots lie on either side of it, whoever else wrote meanwhile.        *)
TrailTrue ==
  /\ \A w \in WriteRequests : audited[w].wrote # 0 =>
       Cardinality({i \in DOMAIN trail : trail[i] = w}) = IF w \in lost \/ Waiting(w) THEN 0 ELSE 1
  /\ \A i \in DOMAIN trail : LET a == audited[trail[i]] IN
       /\ a.wrote # 0 /\ a.before < a.wrote /\ a.wrote <= a.after
=============================================================================
