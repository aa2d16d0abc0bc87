------------------------------ MODULE OLMHealth -----------------------------
(***************************************************************************)
(* The health of OLM itself: what the governance sweep reports of the two  *)
(* OLM pods, the InstallPlans and the CatalogSources                       *)
(* (CollectOLMHealthStatus), the anomalies it finds (DetectAnomalies), and *)
(* the panel, the banner and the list that app.js makes of both.           *)
(*                                                                         *)
(* The two scans of the operator read the same lists by different rules,   *)
(* and three places of the page read their two results.                    *)
(***************************************************************************)
EXTENDS Naturals, Sequences, FiniteSets, SequencesExt, Subsequences

CONSTANTS
  Pods,         \* the answers of the API server for the pods of one deployment
  Plans, Sources, Subs, Csvs,  \* the lists that it may answer with
  UserNamespace \* the namespaces that are not the platform's

ASSUME ListsAssumption ==
  /\ \A answer \in Pods : /\ IsSequence(answer.pods)
                           /\ \A i \in DOMAIN answer.pods : IsSequence(answer.pods[i].containers)
  /\ \A l \in Plans : IsSequence(l)
  /\ \A l \in Sources : IsSequence(l)
  /\ \A l \in Subs : IsSequence(l)
  /\ \A l \in Csvs : IsSequence(l)

VARIABLES
  lists,        \* the lists of the last sweep that ended
  health,       \* olm_health
  anomalies     \* the types of the anomalies, in their order

hvars == <<lists, health, anomalies>>

-----------------------------------------------------------------------------
(* The operator.                                                           *)

\* A container is [ready, waiting]: waiting is "" when it is not, or the reason.
NotReady(c) == ~c.ready

\* A bug: a container that waits for no known reason does not count.
StatusByReason(pod) ==
  LET bad == SelectInSeq(pod.containers, LAMBDA c : NotReady(c) /\ c.waiting # "")
  IN  IF pod.phase # "Running" THEN pod.phase
      ELSE IF bad = 0 THEN "Running" ELSE "Degraded"

\* The first container that is not ready decides; the reason is left out.
getPodStatus(pod) ==
  LET bad == SelectInSeq(pod.containers, NotReady)
  IN  IF pod.phase # "Running" THEN pod.phase
      ELSE IF bad = 0 THEN "Running"
      ELSE IF pod.containers[bad].waiting = "" THEN "NotReady" ELSE "Degraded"

\* An answer is [fails, pods]; of several pods the first one speaks.
DeploymentStatus(answer) ==
  IF answer.fails THEN "Error"
  ELSE IF answer.pods = <<>> THEN "NotFound" ELSE getPodStatus(answer.pods[1])

Number(seq, P(_)) == Len(Kept(seq, P))

\* A plan is [phase, conflict], a source its connection state or "none".
CollectOLMHealthStatus(l) ==
  [olm     |-> DeploymentStatus(l.olm),
   catalog |-> DeploymentStatus(l.catalog),
   plans   |-> [total   |-> Len(l.plans),
                pending |-> Number(l.plans, LAMBDA p : p.phase \in {"Installing", "RequiresApproval"}),
                failed  |-> Number(l.plans, LAMBDA p : p.phase = "Failed")],
   sources |-> [total   |-> Len(l.sources),
                ready   |-> Number(l.sources, LAMBDA s : s = "READY"),
                failed  |-> Number(l.sources, LAMBDA s : s \in {"TRANSIENT_FAILURE", "SHUTDOWN"})]]

Deadlocks(subs) == Kept(subs, LAMBDA s : s.deadlocked)

Conflicts(plans) == Kept(plans, LAMBDA p : p.phase = "Failed" /\ p.conflict)

Zombie(csv, subs) ==
  /\ csv.namespace \in UserNamespace
  /\ \A i \in DOMAIN subs : subs[i].namespace # csv.namespace

Timeout(csv) == csv.reason \in {"APIServiceResourceIssue", "RequirementsNotMet"}

Rejected(csv) == csv.reason \in {"UnpackFailed", "UnsupportedAPI"}

\* A CSV may be a zombie and stuck as well.
OfCsv(csv, subs) ==
  (IF Zombie(csv, subs) THEN <<"Zombie CSV">> ELSE <<>>)
    \o (IF Timeout(csv) THEN <<"Webhook/API Timeout">>
        ELSE IF Rejected(csv) THEN <<"API Deprecation Rejection">> ELSE <<>>)

\* Any other state than READY, but a source without one.
Unready(sources) == Kept(sources, LAMBDA s : s \notin {"READY", "none"})

Each(seq, type) == [i \in DOMAIN seq |-> type]

DetectAnomalies(l) ==
     Each(Deadlocks(l.subs), "Dependency Deadlock")
  \o Each(Conflicts(l.plans), "InstallPlan Conflict")
  \o FlattenSeq([i \in DOMAIN l.csvs |-> OfCsv(l.csvs[i], l.subs)])
  \o Each(Unready(l.sources), "Catalog Source")

-----------------------------------------------------------------------------
\* Before the first sweep has ended the answer has a zero for every field.
NoLists == [olm |-> <<>>]
NoCounts == [total |-> 0, pending |-> 0, failed |-> 0, ready |-> 0]

HInit ==
  /\ lists = NoLists
  /\ health = [olm |-> "", catalog |-> "", plans |-> NoCounts, sources |-> NoCounts]
  /\ anomalies = <<>>

\* A sweep ends; a list that failed is empty here.
SweepEnds ==
  /\ lists = NoLists
  /\ \E olm, catalog \in Pods, plans \in Plans, sources \in Sources, subs \in Subs, csvs \in Csvs :
       lists' = [olm |-> olm, catalog |-> catalog, plans |-> plans,
                 sources |-> sources, subs |-> subs, csvs |-> csvs]
  /\ health' = CollectOLMHealthStatus(lists')
  /\ anomalies' = DetectAnomalies(lists')

\* The operator restarts: its memory is lost.
RestartOperator ==
  /\ lists # NoLists
  /\ lists' = NoLists
  /\ health' = [olm |-> "", catalog |-> "", plans |-> NoCounts, sources |-> NoCounts]
  /\ anomalies' = <<>>

HNext == SweepEnds \/ RestartOperator

HSpec == HInit /\ [][HNext]_hvars

-----------------------------------------------------------------------------
(* The page.                                                               *)

\* updateOLMHealthStatus: its badge.
HealthBadge ==
  IF anomalies = <<>> /\ health.olm = "Running" /\ health.catalog = "Running" THEN "HEALTHY"
  ELSE IF anomalies # <<>> THEN "ACTION REQUIRED" ELSE "WARNING"

\* The colours of the two summaries.
InstallPlanSummary ==
  IF health.plans.total = 0 THEN "gray" ELSE IF health.plans.failed > 0 THEN "red"
  ELSE IF health.plans.pending > 0 THEN "amber" ELSE "green"

CatalogSourceSummary ==
  IF health.sources.total = 0 THEN "gray" ELSE IF health.sources.failed > 0 THEN "red"
  ELSE IF health.sources.ready < health.sources.total THEN "amber" ELSE "green"

getStatusClass(status) ==
  IF status = "Running" THEN "green" ELSE IF status = "Degraded" THEN "red"
  ELSE IF status \in {"NotReady", "Pending"} THEN "amber"
  ELSE IF status \in {"", "NotFound", "Unknown"} THEN "gray" ELSE "blue"

\* The banner and its list: amber with a number, or green and "healthy".
AnomalyBanner == [amber |-> anomalies # <<>>, count |-> Len(anomalies)]

AnomalyList == anomalies

-----------------------------------------------------------------------------
(* HEALTHY is not said beside anything red: when it is, every container of *)
(* the first pod of both deployments is ready, no source that reports a    *)
(* state has lost its connection, and no resolution, conflict, webhook or  *)
(* zombie is left; the banner says the same, and has one row in its list   *)
(* for each anomaly it counts.  InstallPlans that failed for another       *)
(* reason than a conflict are left out by the code                         *)
(* (collector_health.go:21-132, collector.go:612-757, app.js:252-283,      *)
(* 584-717, 2509-2551).                                                    *)
HealthAgrees ==
  /\ HealthBadge = "HEALTHY" =>
       /\ getStatusClass(health.olm) = "green" /\ getStatusClass(health.catalog) = "green"
       /\ CatalogSourceSummary # "red"
       /\ \A answer \in {lists.olm, lists.catalog} :
            \A i \in DOMAIN answer.pods[1].containers : answer.pods[1].containers[i].ready
       /\ \A i \in DOMAIN lists.sources : lists.sources[i] \in {"READY", "none"}
       /\ InstallPlanSummary = "red" =>
            \E i \in DOMAIN lists.plans : lists.plans[i].phase = "Failed" /\ ~lists.plans[i].conflict
       /\ \A i \in DOMAIN lists.subs : ~lists.subs[i].deadlocked
       /\ \A i \in DOMAIN lists.csvs :
            LET csv == lists.csvs[i] IN ~(Timeout(csv) \/ Rejected(csv) \/ Zombie(csv, lists.subs))
  /\ HealthBadge = "ACTION REQUIRED" <=> AnomalyBanner.amber
  /\ AnomalyBanner.count = Len(AnomalyList)
=============================================================================
