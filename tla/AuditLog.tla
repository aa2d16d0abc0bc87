------------------------------ MODULE AuditLog ------------------------------
(***************************************************************************)
(* The in-memory audit log of operator/main.go: recordAudit appends an     *)
(* event under auditLock and cuts the slice to its last auditLogCapacity   *)
(* entries; handleGetAuditEvents walks it backwards under the same lock.   *)
(* Each of the two is one critical section, hence one action here.         *)
(***************************************************************************)
EXTENDS AuditEvents

CONSTANTS
  Capacity,     \* auditLogCapacity
  MaxRecords    \* bound of the model: events recorded between two restarts

ASSUME CapacityAssumption == Capacity \in Nat \ {0}
ASSUME MaxRecordsAssumption == MaxRecords \in Nat

VARIABLES
  auditLog,     \* the slice
  page,         \* the events of the last answer of handleGetAuditEvents
  journal       \* history: every event since the operator started

vars == <<auditLog, page, journal>>

-----------------------------------------------------------------------------
\* A bug: the oldest entries are kept, the new ones fall off the end.
KeepsOldest(s) ==
  IF Len(s) > Capacity THEN SubSeq(s, 1, Capacity) ELSE s

Truncate(s) ==
  IF Len(s) > Capacity THEN SubSeq(s, Len(s) - Capacity + 1, Len(s)) ELSE s

RecordAudit(e) ==
  /\ auditLog' = Truncate(Append(auditLog, e))
  /\ journal' = Append(journal, e)
  /\ UNCHANGED page

\* A bug: the loop stops before index 0, the oldest entry is never listed.
BackwardsToOne(s) == [i \in 1..(Len(s) - 1) |-> s[Len(s) + 1 - i]]

Backwards(s) == [i \in 1..Len(s) |-> s[Len(s) + 1 - i]]

GetAuditEvents(q) ==
  /\ page' = Matching(q, Backwards(auditLog))
  /\ UNCHANGED <<auditLog, journal>>

\* The process is replaced: package variables start from their zero values.
Restart ==
  /\ auditLog' = <<>>
  /\ journal' = <<>>
  /\ UNCHANGED page

Init == auditLog = <<>> /\ page = <<>> /\ journal = <<>>

Next == \/ /\ Len(journal) < MaxRecords
           /\ \E e \in Event : RecordAudit(e)
        \/ \E q \in Query : GetAuditEvents(q)
        \/ Restart

Spec == Init /\ [][Next]_vars

-----------------------------------------------------------------------------
(* Shape of the log: the slice holds recorded events and never outgrows    *)
(* auditLogCapacity (main.go:76-78).                                       *)
TypeOK ==
  /\ auditLog \in Seq(Event)
  /\ journal \in Seq(Event)
  /\ Len(auditLog) <= Capacity

(* The slice is the recent end of the journal: nothing recorded since the  *)
(* start is missing from it before Capacity newer events push it out, and  *)
(* the order of recording is kept (main.go:68-78).                         *)
RecentWindow ==
  /\ Len(auditLog) = IF Len(journal) > Capacity THEN Capacity ELSE Len(journal)
  /\ \A i \in 1..Len(auditLog) :
       auditLog[i] = journal[Len(journal) - Len(auditLog) + i]

Journal == INSTANCE AuditJournal

(* The bounded slice is indistinguishable, through the audit endpoint,     *)
(* from an unbounded journal of which the recent end is shown.             *)
RefinesJournal == Journal!JSpec
=============================================================================
