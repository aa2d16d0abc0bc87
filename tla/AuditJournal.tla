---------------------------- MODULE AuditJournal ----------------------------
(***************************************************************************)
(* What the audit log of the operator promises to the dashboard: a journal *)
(* of every action taken since the operator started, of which a client is  *)
(* shown the Capacity most recent entries, the newest first, narrowed to a *)
(* namespace and to a name when it asks for that.  The journal does not    *)
(* survive a restart of the operator.                                      *)
(*                                                                         *)
(* This is the abstract specification; AuditLog.tla is the bounded slice   *)
(* that operator/main.go keeps instead of the journal.                     *)
(***************************************************************************)
EXTENDS AuditEvents

CONSTANT Capacity   \* how many of the recent events a client may see

VARIABLES
  journal,      \* every event since the operator started, oldest first
  page          \* the last answer of the audit endpoint, newest first

jvars == <<journal, page>>

\* How many entries of the journal a client may still see.
Visible == IF Len(journal) > Capacity THEN Capacity ELSE Len(journal)

\* Those entries, counted back from the end of the journal.
RecentFirst == [i \in 1..Visible |-> journal[Len(journal) + 1 - i]]

JInit == journal = <<>> /\ page = <<>>

Happen(e) == journal' = Append(journal, e) /\ UNCHANGED page

Show(q) == page' = Matching(q, RecentFirst) /\ UNCHANGED journal

Forget == journal' = <<>> /\ UNCHANGED page

JNext == \/ \E e \in Event : Happen(e)
         \/ \E q \in Query : Show(q)
         \/ Forget

JSpec == JInit /\ [][JNext]_jvars
=============================================================================
