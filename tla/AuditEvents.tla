---------------------------- MODULE AuditEvents -----------------------------
(***************************************************************************)
(* The vocabulary of the audit log of operator/main.go: the events that    *)
(* the four quick actions record, and the filters of the audit endpoint.   *)
(***************************************************************************)
EXTENDS Integers, Sequences

CONSTANTS
  Namespace,    \* namespaces of the cluster
  Name,         \* names of Subscriptions
  Detail,       \* what an event says beside its kind: a channel, or nothing
  Unset         \* a query parameter the client left out ("" in the code)

ASSUME UnsetAssumption == Unset \notin Namespace \cup Name

Kind == {"approve", "restart", "delete", "channel-change"}

\* The timestamp is left out; of the detail only the channel is kept.
Event == [type : Kind, namespace : Namespace, name : Name,
          detail : Detail, success : BOOLEAN]

Query == [namespace : Namespace \cup {Unset}, name : Name \cup {Unset}]

Lets(q, e) == /\ q.namespace \in {Unset, e.namespace}
              /\ q.name \in {Unset, e.name}

Matching(q, s) == SelectSeq(s, LAMBDA e : Lets(q, e))
=============================================================================
