---------------------------- MODULE QuickActions ----------------------------
(***************************************************************************)
(* The four quick actions of the dashboard: approve an upgrade, restart a  *)
(* pod, change a channel, delete a Subscription.  The dashboard proxies    *)
(* each request to the Go operator and waits ten seconds for the answer;   *)
(* in the operator every request is a goroutine of its own that calls the  *)
(* Kubernetes API one object at a time with context.Background(), records  *)
(* the outcome in the audit log and answers.  Requests interleave between  *)
(* any two calls, the reply of a call can be lost after it took effect,    *)
(* the proxy can give up before the goroutine does, and the process can    *)
(* die with requests in flight.                                            *)
(*                                                                         *)
(* The API server, OLM and the kubelet are external: they are modelled by  *)
(* what the handlers rely on (a refused stale Update, NotFound, graceful   *)
(* deletion).                                                              *)
(***************************************************************************)
EXTENDS Integers, Sequences, FiniteSets

CONSTANTS
  Namespace,
  Sub,          \* Subscriptions
  NsOf,         \* the namespace of each Subscription
  Plan,         \* InstallPlans: numbers, in the order the API lists them
  PlanOf,       \* the Subscription whose upgrade an InstallPlan carries
  Pod,          \* pods, numbers that are no InstallPlan's
  PodOf,        \* the Subscription whose operator a pod runs
  Channel,
  NoChannel,
  Request,      \* bound of the model: the requests, one goroutine each
  Offered,      \* the actions a user may ask for: [kind, sub, channel]
  Capacity,     \* auditLogCapacity
  MaxRevision,  \* bound of the model: status writes by OLM per InstallPlan
  MaxCrashes    \* bound of the model: restarts of the operator

ASSUME ClusterAssumption ==
  /\ NsOf \in [Sub -> Namespace]
  /\ Plan \subseteq Nat /\ Pod \subseteq Nat /\ Plan \cap Pod = {}
  /\ PlanOf \in [Plan -> Sub]
  /\ PodOf \in [Pod -> Sub]
  /\ Sub \cap (Plan \cup Pod) = {}
  /\ NoChannel \notin Channel
ASSUME RequestAssumption ==
  Offered \subseteq
    [kind : {"approve", "restart", "delete"}, sub : Sub, channel : {NoChannel}]
      \cup [kind : {"channel-change"}, sub : Sub, channel : Channel]
ASSUME BoundAssumption ==
  /\ IsFiniteSet(Request)
  /\ Capacity \in Nat \ {0}
  /\ MaxRevision \in Nat
  /\ MaxCrashes \in Nat

VARIABLES
  \* the cluster
  subs,         \* the Subscriptions that exist
  channel,      \* spec.channel of each
  approved,     \* spec.approved of each InstallPlan
  revision,     \* metadata.resourceVersion of each InstallPlan
  podState,     \* "unborn", "running", "terminating" or "gone"
  \* the goroutine of each request
  pc,
  ask,          \* the decoded body, with the kind of the endpoint
  todo,         \* the listed objects not tried yet
  seen,         \* the resourceVersions in the list it read
  success,      \* result.Success
  \* the audit log
  auditLog, journal,
  \* the dashboard's side of each request
  answer,       \* "none", "waiting", "ok", "failed", "refused", "gateway"
  crashes,
  \* history
  touched,      \* objects the API server changed for this request
  acked         \* those of them whose reply reached the operator

cluster == <<subs, channel, approved, revision, podState>>
handler == <<pc, ask, todo, seen, success>>
audit   == <<auditLog, journal>>
history == <<touched, acked>>
vars    == <<cluster, handler, audit, answer, crashes, history>>

Audit == INSTANCE AuditLog
  WITH Name <- Sub, Detail <- Channel \cup {NoChannel}, Unset <- NoChannel,
       page <- <<>>, MaxRecords <- Cardinality(Request)

\* Where a goroutine is.
Place == {"idle", "refused", "list", "apply", "record", "reply", "done", "dead"}

NoAsk == [kind |-> "none"]

\* The loops take the listed objects in order.
IsNext(r, x) == x \in todo[r] /\ \A y \in todo[r] : x <= y

InFlight(r) == pc[r] \in {"list", "apply", "record", "reply"}

Init ==
  /\ subs = Sub
  /\ channel \in [Sub -> Channel]
  /\ approved = [p \in Plan |-> FALSE]
  /\ revision = [p \in Plan |-> 0]
  /\ podState \in [Pod -> {"unborn", "running"}]
  /\ pc = [r \in Request |-> "idle"]
  /\ ask = [r \in Request |-> NoAsk]
  /\ todo = [r \in Request |-> {}]
  /\ seen = [r \in Request |-> revision]
  /\ success = [r \in Request |-> FALSE]
  /\ auditLog = <<>> /\ journal = <<>>
  /\ answer = [r \in Request |-> "none"]
  /\ crashes = 0
  /\ touched = [r \in Request |-> {}]
  /\ acked = [r \in Request |-> {}]

-----------------------------------------------------------------------------
(* A request arrives.                                                      *)

\* The user confirms; the dashboard posts and waits.
Submit(r, a) ==
  /\ pc[r] = "idle"
  /\ pc' = [pc EXCEPT ![r] =
              IF a.kind \in {"approve", "restart"} THEN "list" ELSE "apply"]
  /\ ask' = [ask EXCEPT ![r] = a]
  /\ answer' = [answer EXCEPT ![r] = "waiting"]
  /\ UNCHANGED <<cluster, todo, seen, success, audit, crashes, history>>

\* A body that does not decode, a method other than POST, or a channel change
\* without a channel: answered at once, nothing done and nothing recorded.
Refuse(r) ==
  /\ pc[r] = "idle"
  /\ pc' = [pc EXCEPT ![r] = "refused"]
  /\ answer' = [answer EXCEPT ![r] = "refused"]
  /\ UNCHANGED <<cluster, ask, todo, seen, success, audit, crashes, history>>

-----------------------------------------------------------------------------
(* The calls of a handler.                                                 *)

\* A bug: Success starts out TRUE and an early return forgets to clear it.
FailAsSuccess(r) ==
  /\ pc' = [pc EXCEPT ![r] = "record"]
  /\ success' = [success EXCEPT ![r] = TRUE]
  /\ UNCHANGED <<cluster, ask, todo, seen, audit, answer, crashes, history>>

\* Every error path leaves result.Success FALSE and goes on to the audit log.
Fail(r) ==
  /\ pc' = [pc EXCEPT ![r] = "record"]
  /\ UNCHANGED <<cluster, ask, todo, seen, success, audit, answer, crashes, history>>

\* The InstallPlans of the namespace, whoever they belong to; the approved
\* ones are skipped by the loop, so they are left out of todo.
ListPlans(r) ==
  /\ pc[r] = "list" /\ ask[r].kind = "approve"
  /\ \/ /\ todo' = [todo EXCEPT ![r] =
                      {p \in Plan : /\ NsOf[PlanOf[p]] = NsOf[ask[r].sub]
                                    /\ ~approved[p]}]
        /\ seen' = [seen EXCEPT ![r] = revision]
        /\ pc' = [pc EXCEPT ![r] = "apply"]
        /\ UNCHANGED <<cluster, ask, success, audit, answer, crashes, history>>
     \/ Fail(r)

\* The pods with the operator's label; a terminating pod is still listed.
ListPods(r) ==
  /\ pc[r] = "list" /\ ask[r].kind = "restart"
  /\ \/ /\ todo' = [todo EXCEPT ![r] =
                      {p \in Pod : /\ PodOf[p] = ask[r].sub
                                   /\ podState[p] \in {"running", "terminating"}}]
        /\ pc' = [pc EXCEPT ![r] = "apply"]
        /\ UNCHANGED <<cluster, ask, seen, success, audit, answer, crashes, history>>
     \/ Fail(r)

\* A bug: the loop goes on after a success.
AcknowledgeAndGoOn(r, x) ==
  /\ touched' = [touched EXCEPT ![r] = @ \cup {x}]
  /\ acked' = [acked EXCEPT ![r] = @ \cup {x}]
  /\ success' = [success EXCEPT ![r] = TRUE]
  /\ UNCHANGED pc

\* The API server changed object x for request r and the reply arrived: the
\* handler stops at this first success.
Acknowledge(r, x) ==
  /\ touched' = [touched EXCEPT ![r] = @ \cup {x}]
  /\ acked' = [acked EXCEPT ![r] = @ \cup {x}]
  /\ success' = [success EXCEPT ![r] = TRUE]
  /\ pc' = [pc EXCEPT ![r] = "record"]

\* The object changed but the reply was lost: to the handler it is an error.
LoseReply(r, x) ==
  /\ touched' = [touched EXCEPT ![r] = @ \cup {x}]
  /\ UNCHANGED <<acked, success>>

\* A bug: a failed call is tried again on the same stale object.
TryAgain(r, x) == UNCHANGED todo

\* The loop goes on to the next listed object, whatever became of x.
Tried(r, x) == todo' = [todo EXCEPT ![r] = @ \ {x}]

\* A bug: spec.approved is patched instead, without the resourceVersion.
AcceptPlanPatch(r, p) ==
  /\ approved' = [approved EXCEPT ![p] = TRUE]
  /\ revision' = [revision EXCEPT ![p] = @ + 1]

\* Update of an InstallPlan: accepted only with the current resourceVersion.
AcceptUpdate(r, p) ==
  /\ revision[p] = seen[r][p]
  /\ approved' = [approved EXCEPT ![p] = TRUE]
  /\ revision' = [revision EXCEPT ![p] = @ + 1]

TryPlan(r) ==
  /\ pc[r] = "apply" /\ ask[r].kind = "approve"
  /\ \E p \in Plan :
       /\ IsNext(r, p)
       /\ Tried(r, p)
       /\ \/ AcceptUpdate(r, p) /\ Acknowledge(r, p)
          \/ AcceptUpdate(r, p) /\ LoseReply(r, p) /\ UNCHANGED pc
          \/ UNCHANGED <<approved, revision, touched, acked, success, pc>>
  /\ UNCHANGED <<subs, channel, podState, ask, seen, audit, answer, crashes>>

\* Delete of a pod: graceful, and accepted again while the pod terminates.
AcceptEviction(p) ==
  /\ podState[p] \in {"running", "terminating"}
  /\ podState' = [podState EXCEPT ![p] = "terminating"]

TryPod(r) ==
  /\ pc[r] = "apply" /\ ask[r].kind = "restart"
  /\ \E p \in Pod :
       /\ IsNext(r, p)
       /\ Tried(r, p)
       /\ \/ AcceptEviction(p) /\ Acknowledge(r, p)
          \/ AcceptEviction(p) /\ LoseReply(r, p) /\ UNCHANGED pc
          \/ UNCHANGED <<podState, touched, acked, success, pc>>
  /\ UNCHANGED <<subs, channel, approved, revision, ask, seen, audit, answer, crashes>>

\* A bug: the loop that ran out returns its error before the audit log.
GiveUpUnrecorded(r) ==
  /\ pc[r] = "apply" /\ ask[r].kind \in {"approve", "restart"} /\ todo[r] = {}
  /\ pc' = [pc EXCEPT ![r] = "reply"]
  /\ UNCHANGED <<cluster, ask, todo, seen, success, audit, answer, crashes, history>>

\* The loop ran out of objects: "No unapproved InstallPlans required
\* intervention." or "No pods found".
GiveUp(r) ==
  /\ pc[r] = "apply" /\ ask[r].kind \in {"approve", "restart"} /\ todo[r] = {}
  /\ Fail(r)

\* Delete of the Subscription, whether or not it is idle.
AcceptPurge(r) ==
  /\ ask[r].sub \in subs
  /\ subs' = subs \ {ask[r].sub}

PurgeSubscription(r) ==
  /\ pc[r] = "apply" /\ ask[r].kind = "delete"
  /\ \/ AcceptPurge(r) /\ Acknowledge(r, ask[r].sub)
     \/ /\ AcceptPurge(r) /\ LoseReply(r, ask[r].sub)
        /\ pc' = [pc EXCEPT ![r] = "record"]
     \/ /\ pc' = [pc EXCEPT ![r] = "record"]
        /\ UNCHANGED <<subs, touched, acked, success>>
  /\ UNCHANGED <<channel, approved, revision, podState, ask, todo, seen,
                 audit, answer, crashes>>

\* Merge patch of spec.channel: no resourceVersion, the last writer wins.
AcceptPatch(r) ==
  /\ ask[r].sub \in subs
  /\ channel' = [channel EXCEPT ![ask[r].sub] = ask[r].channel]

PatchChannel(r) ==
  /\ pc[r] = "apply" /\ ask[r].kind = "channel-change"
  /\ \/ AcceptPatch(r) /\ Acknowledge(r, ask[r].sub)
     \/ /\ AcceptPatch(r) /\ LoseReply(r, ask[r].sub)
        /\ pc' = [pc EXCEPT ![r] = "record"]
     \/ /\ pc' = [pc EXCEPT ![r] = "record"]
        /\ UNCHANGED <<channel, touched, acked, success>>
  /\ UNCHANGED <<subs, approved, revision, podState, ask, todo, seen,
                 audit, answer, crashes>>

-----------------------------------------------------------------------------
(* The outcome is recorded, then sent.                                     *)

\* What the handler records about request r; the detail is the new channel
\* when a channel change succeeded.
Outcome(r) ==
  [type |-> ask[r].kind, namespace |-> NsOf[ask[r].sub], name |-> ask[r].sub,
   detail |-> IF success[r] THEN ask[r].channel ELSE NoChannel,
   success |-> success[r]]

\* A bug: only successes are worth an event.
RecordSuccess(r) ==
  /\ pc[r] = "record"
  /\ IF success[r] THEN Audit!RecordAudit(Outcome(r)) ELSE UNCHANGED audit
  /\ pc' = [pc EXCEPT ![r] = "reply"]
  /\ UNCHANGED <<cluster, ask, todo, seen, success, answer, crashes, history>>

Record(r) ==
  /\ pc[r] = "record"
  /\ Audit!RecordAudit(Outcome(r))
  /\ pc' = [pc EXCEPT ![r] = "reply"]
  /\ UNCHANGED <<cluster, ask, todo, seen, success, answer, crashes, history>>

Reply(r) ==
  /\ pc[r] = "reply"
  /\ pc' = [pc EXCEPT ![r] = "done"]
  /\ answer' = [answer EXCEPT ![r] =
                  IF @ # "waiting" THEN @ ELSE IF success[r] THEN "ok" ELSE "failed"]
  /\ UNCHANGED <<cluster, ask, todo, seen, success, audit, crashes, history>>

\* A bug: a timeout is reported as a failure of the action.
TimeoutAsFailure(r) ==
  /\ answer[r] = "waiting"
  /\ answer' = [answer EXCEPT ![r] = "failed"]
  /\ UNCHANGED <<cluster, handler, audit, crashes, history>>

\* requests.request(..., timeout=10) expires: the user reads 502 while the
\* goroutine goes on.
ProxyTimeout(r) ==
  /\ answer[r] = "waiting"
  /\ answer' = [answer EXCEPT ![r] = "gateway"]
  /\ UNCHANGED <<cluster, handler, audit, crashes, history>>

\* The operator's process is replaced: its goroutines and its audit log are
\* gone, the proxy sees its connections close.
Crash ==
  /\ crashes < MaxCrashes
  /\ crashes' = crashes + 1
  /\ pc' = [r \in Request |-> IF pc[r] \in {"idle", "refused"} THEN pc[r] ELSE "dead"]
  /\ answer' = [r \in Request |-> IF answer[r] = "waiting" THEN "gateway" ELSE answer[r]]
  /\ Audit!Restart
  /\ UNCHANGED <<cluster, ask, todo, seen, success, history>>

-----------------------------------------------------------------------------
(* The rest of the cluster.                                                *)

\* OLM writes the status of an InstallPlan, which changes its resourceVersion.
OlmTouches(p) ==
  /\ revision[p] < MaxRevision
  /\ revision' = [revision EXCEPT ![p] = @ + 1]
  /\ UNCHANGED <<subs, channel, approved, podState, handler, audit, answer,
                 crashes, history>>

\* A pod ends, or its Deployment starts another one.
PodMoves(p) ==
  /\ \/ podState[p] = "unborn" /\ podState' = [podState EXCEPT ![p] = "running"]
     \/ podState[p] = "terminating" /\ podState' = [podState EXCEPT ![p] = "gone"]
  /\ UNCHANGED <<subs, channel, approved, revision, handler, audit, answer,
                 crashes, history>>

Handle(r) == \/ ListPlans(r) \/ TryPlan(r)
             \/ ListPods(r) \/ TryPod(r) \/ GiveUp(r)
             \/ PurgeSubscription(r) \/ PatchChannel(r)
             \/ Record(r) \/ Reply(r)

Next == \/ \E r \in Request : \/ \E a \in Offered : Submit(r, a)
                              \/ Refuse(r)
                              \/ Handle(r)
                              \/ ProxyTimeout(r)
        \/ Crash
        \/ \E p \in Plan : OlmTouches(p)
        \/ \E p \in Pod : PodMoves(p)

\* A goroutine that can run does run, and every API call returns.
Fairness == \A r \in Request : WF_vars(Handle(r))

Spec == Init /\ [][Next]_vars /\ Fairness

-----------------------------------------------------------------------------
(* Properties.                                                             *)

(* The state of every request, object and log entry is one the code can    *)
(* produce; the slice never outgrows auditLogCapacity.                     *)
TypeOK ==
  /\ subs \subseteq Sub
  /\ channel \in [Sub -> Channel]
  /\ approved \in [Plan -> BOOLEAN]
  /\ revision \in [Plan -> Nat]
  /\ podState \in [Pod -> {"unborn", "running", "terminating", "gone"}]
  /\ pc \in [Request -> Place]
  /\ ask \in [Request -> Offered \cup {NoAsk}]
  /\ todo \in [Request -> SUBSET (Plan \cup Pod)]
  /\ seen \in [Request -> [Plan -> Nat]]
  /\ success \in [Request -> BOOLEAN]
  /\ answer \in [Request -> {"none", "waiting", "ok", "failed", "refused", "gateway"}]
  /\ crashes \in 0..MaxCrashes
  /\ touched \in [Request -> SUBSET (Plan \cup Pod \cup Sub)]
  /\ acked \in [Request -> SUBSET (Plan \cup Pod \cup Sub)]
  /\ Audit!TypeOK

(* Two approvals that read the same list never both approve the same       *)
(* InstallPlan: the second Update carries a stale resourceVersion, fails   *)
(* and moves on (remediation.go:194-206).                                  *)
NoPlanApprovedTwice ==
  \A p \in Plan, r1, r2 \in Request :
    p \in touched[r1] /\ p \in touched[r2] => r1 = r2

(* The loops stop at the first call that succeeds: a request confirms at   *)
(* most one effect, and it reports success exactly when it confirmed one,  *)
(* however the calls of other requests interleave (remediation.go:201-205, *)
(* main.go:189-196).                                                       *)
OneConfirmedEffect ==
  \A r \in Request : /\ Cardinality(acked[r]) <= 1
                     /\ success[r] <=> acked[r] # {}

(* Every handled request is in the journal exactly once, with its outcome, *)
(* before it is answered, on the error paths too; requests that were       *)
(* refused or that died are not (main.go:159, 199, 224, 305, 313).         *)
ExactlyOnceAudit ==
  LET Recorded == {r \in Request : pc[r] \in {"reply", "done"}}
      Events == {journal[i] : i \in DOMAIN journal} \cup {Outcome(r) : r \in Recorded}
  IN \A e \in Events :
       Cardinality({i \in DOMAIN journal : journal[i] = e})
         = Cardinality({r \in Recorded : Outcome(r) = e})

\* The InstallPlans, pods and Subscriptions that are not as they were found.
Changed == {p \in Plan : approved[p]}
             \cup {p \in Pod : podState[p] \in {"terminating", "gone"}}
             \cup (Sub \ subs)

\* The action that changes an object of this sort, on this operator's behalf.
Asked(r, x) ==
  \/ ask[r].kind = "approve" /\ x \in Plan /\ NsOf[PlanOf[x]] = NsOf[ask[r].sub]
  \/ ask[r].kind = "restart" /\ x \in Pod /\ PodOf[x] = ask[r].sub
  \/ ask[r].kind \in {"delete", "channel-change"} /\ x = ask[r].sub

\* The entry i of the journal tells of request r, its action and its operator,
\* and calls it a success only if a change was confirmed; it is in the slice
\* until auditLogCapacity newer ones are.
Tells(i, r) ==
  /\ journal[i].type = ask[r].kind /\ journal[i].name = ask[r].sub
  /\ journal[i].success <=> acked[r] # {}
  /\ Len(journal) - i < Capacity => \E j \in DOMAIN auditLog : auditLog[j] = journal[i]

(* Nothing changes behind the back of the audit log.  Each approval, pod   *)
(* stop and removal in the cluster is the work of a request that asked for *)
(* it, and once that request is through its loop the log tells of it: also *)
(* when every reply was lost, so that the user reads of a failure, and     *)
(* when the proxy gave up.  Only the death of the process leaves a change  *)
(* without a trace (main.go:159-160, 175-201, 242-259, remediation.go:169, *)
(* 201-212).                                                               *)
ChangesAreTraced ==
  /\ \A x \in Changed : \E r \in Request : x \in touched[r]
  /\ \A r \in Request :
       /\ \A x \in touched[r] : Asked(r, x)
       /\ touched[r] # {} =>
            \/ pc[r] \in {"apply", "record"}
            \/ pc[r] \in {"reply", "done"} /\ \E i \in DOMAIN journal : Tells(i, r)
            \/ pc[r] = "dead" /\ crashes > 0

(* What the user is told holds in the cluster: an "ok" means that an       *)
(* InstallPlan of the namespace was approved, that a pod of the operator   *)
(* was stopped, or that the Subscription is gone.  A channel is not        *)
(* promised: a later patch may have overwritten it.                        *)
OkMeansDone ==
  \A r \in Request : answer[r] = "ok" =>
    /\ ask[r].kind = "approve" =>
         \E p \in acked[r] : /\ p \in Plan /\ approved[p]
                             /\ NsOf[PlanOf[p]] = NsOf[ask[r].sub]
    /\ ask[r].kind = "restart" =>
         \E p \in acked[r] : /\ p \in Pod /\ PodOf[p] = ask[r].sub
                             /\ podState[p] \in {"terminating", "gone"}
    /\ ask[r].kind = "delete" => ask[r].sub \notin subs
    /\ ask[r].kind = "channel-change" => ask[r].sub \in acked[r]

(* Once the user has read an outcome the request changes nothing any more; *)
(* only after a 502 of the proxy may it still do so (server.py:214-225).   *)
AnswerIsFinal ==
  [][\A r \in Request : answer[r] \in {"ok", "failed"} => touched'[r] = touched[r]]_vars

(* Every request that was taken on ends: its loop tries each listed       *)
(* object once, whatever else changes the cluster meanwhile, and then the  *)
(* outcome is recorded and sent; or the process is replaced                *)
(* (remediation.go:185-212, main.go:175-260).                              *)
HandlerFinishes == \A r \in Request : InFlight(r) ~> pc[r] \in {"done", "dead"}

-----------------------------------------------------------------------------
(* A statement of the dashboard that the code breaks.                      *)

(* app.js:2469 asks "Approve upgrade for <name> in <namespace>?": what the *)
(* user confirms is the upgrade of that operator.                          *)
ApprovesNamedOperator ==
  \A r \in Request : ask[r].kind = "approve" =>
    \A p \in touched[r] : PlanOf[p] = ask[r].sub
=============================================================================
