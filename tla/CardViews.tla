----------------------------- MODULE CardViews ------------------------------
(***************************************************************************)
(* What app.js makes of the slice of operators: the metric tiles and the   *)
(* lists behind them, the cards with their badges, warnings and offers,    *)
(* and the topology.  The slice is the one UpgradeFlow fills, so that what *)
(* a card says can be held against the diagram of the same answer.         *)
(*                                                                         *)
(* A record has the fields that the server sends; in a condition of the    *)
(* page a field that is not sent counts as false.                          *)
(***************************************************************************)
EXTENDS UpgradeFlow, FiniteSets, SequencesExt, FiniteSetsExt, Subsequences

-----------------------------------------------------------------------------
(* The tiles, and the lists that open with a click on one.                 *)

CanBeUpgraded(op) == op.canUpgrade

MajorRisk(op) == op.canUpgrade /\ op.upgradeType = "MAJOR"

Degraded(op) ==
  op.phase \in {"Failed", "UpgradeFailed", "InstallPlanFailed", "Unknown", "Pending"}

Overloaded(op) ==
  \/ "restarts" \in DOMAIN op /\ op.restarts > 5
  \/ "oom_killed" \in DOMAIN op /\ op.oom_killed

PendingApproval(op) ==
  "approval_status" \in DOMAIN op /\ op.approval_status = "RequiresApproval"

Orphaned(op) == "has_orphans" \in DOMAIN op /\ op.has_orphans

HasRoutes(op) == op.routes > 0

\* The packages are compared by name; the model has no second spelling of one.
PackageGroup(ops, op) == {i \in DOMAIN ops : ops[i].package = op.package}

Conflicting(ops) ==
  {g \in {PackageGroup(ops, ops[i]) : i \in DOMAIN ops} : Cardinality(g) > 1}

Type == {"total", "uptodate", "upgradeable", "major", "idle", "conflict",
         "degraded", "overloaded", "pending", "orphaned", "routes"}

\* The list of openMetricModal.
OpenMetricList(ops, type) ==
  CASE type = "total"       -> ops
    [] type = "uptodate"    -> Kept(ops, LAMBDA op : ~op.canUpgrade)
    [] type = "upgradeable" -> Kept(ops, CanBeUpgraded)
    [] type = "major"       -> Kept(ops, MajorRisk)
    [] type = "idle"        -> Kept(ops, IsIdle)
    [] type = "conflict"    ->
         Kept(ops, LAMBDA op : Cardinality(PackageGroup(ops, op)) > 1)
    [] type = "degraded"    -> Kept(ops, Degraded)
    [] type = "overloaded"  -> Kept(ops, Overloaded)
    [] type = "pending"     -> Kept(ops, PendingApproval)
    [] type = "orphaned"    -> Kept(ops, Orphaned)
    [] type = "routes"      -> Kept(ops, HasRoutes)

\* The list of conflicts is shown by groups, that of routes by operators.
ConflictGroups(ops) == Conflicting(OpenMetricList(ops, "conflict"))

\* A bug: the tile counts the groups.
CountGroups(ops) == Cardinality(Conflicting(ops))

ConflictCount(ops) == MapThenSumSet(Cardinality, Conflicting(ops))

Count(ops, P(_)) == Len(Kept(ops, P))

\* The number updateMetrics writes on a tile.
Metric(ops, type) ==
  CASE type = "total"       -> Len(ops)
    [] type = "uptodate"    -> Len(ops) - Count(ops, CanBeUpgraded)
    [] type = "upgradeable" -> Count(ops, CanBeUpgraded)
    [] type = "major"       -> Count(ops, MajorRisk)
    [] type = "idle"        -> Count(ops, IsIdle)
    [] type = "conflict"    -> ConflictCount(ops)
    [] type = "degraded"    -> Count(ops, Degraded)
    [] type = "overloaded"  -> Count(ops, Overloaded)
    [] type = "pending"     -> Count(ops, PendingApproval)
    [] type = "orphaned"    -> Count(ops, Orphaned)
    [] type = "routes"      -> Count(ops, HasRoutes)

\* The slices of the doughnut.
StatusChart(ops) ==
  [upToDate |-> Len(ops) - Count(ops, CanBeUpgraded), pending |-> Count(ops, CanBeUpgraded)]

-----------------------------------------------------------------------------
(* A card.                                                                 *)

UpdateBadge(op) ==
  IF ~op.canUpgrade THEN "Up to date"
  ELSE IF op.upgradeType \in {"MAJOR", "MINOR"} THEN op.upgradeType ELSE "PATCH"

\* The red box of the projection, in place of the "Safe Target Projection".
BreakingWarning(op) == op.canUpgrade /\ op.breaking

\* The remediation that a card offers, with a projection and without.
RemediationButton(op) ==
  IF IsIdle(op) THEN "PURGE_IDLE_SUBSCRIPTION"
  ELSE IF op.phase = "Failed" THEN "REAPPROVE_INSTALLPLAN" ELSE "none"

\* No phase of a CSV or a Subscription has the word "Blocked" in it.
OffersApproval(op) == op.canUpgrade

\* renderHealthScore, in points of a hundred and dots of ten.
HealthLabel(score) ==
  IF score >= 90 THEN "Excellent" ELSE IF score >= 70 THEN "Good"
  ELSE IF score >= 50 THEN "Fair" ELSE IF score >= 30 THEN "Poor" ELSE "Critical"

FilledDots(score) == score \div 10

RiskInAmber(op) == CalculateSecurityRiskScore(op) > 30

-----------------------------------------------------------------------------
(* The topology of one operator: its nodes as the server lists them, and   *)
(* the tree the page draws of them.                                        *)

Node(type, name, status, children) ==
  [id |-> <<type, name>>, type |-> type, status |-> status, children |-> children]

BuildDependencyGraph(op) ==
  LET crds == [e \in DOMAIN op.crds |-> Node("CRD", op.crds[e].kind, op.crds[e].active, <<>>)]
      csv == Node("CSV", op.version, op.phase, [e \in DOMAIN crds |-> crds[e].id])
  IN  crds \o <<csv, Node("Subscription", op.name, op.phase, <<csv.id>>)>>

\* A bug: the tree starts at the first node of the list.
FirstNode(nodes) == 1

\* The root that openTopologyModal looks for.
RootNode(nodes) == SelectInSeq(nodes, LAMBDA n : n.type = "Subscription")

\* A child that is not among the nodes draws nothing.
buildTopologyHTML(root, nodes) ==
  LET ids == {root} \cup UNION {{nodes[i].id} \cup ToSet(nodes[i].children) : i \in DOMAIN nodes}
      html[id \in ids] ==
        LET at == SelectInSeq(nodes, LAMBDA n : n.id = id)
        IN  IF at = 0 THEN <<>>
            ELSE <<nodes[at]>> \o FlattenSeq([c \in DOMAIN nodes[at].children |->
                                    html[nodes[at].children[c]]])
  IN  html[root]

Topology(op) ==
  LET nodes == BuildDependencyGraph(op)
      root == RootNode(nodes)
  IN  IF root = 0 THEN <<>> ELSE buildTopologyHTML(nodes[root].id, nodes)

-----------------------------------------------------------------------------
(* Tiles, lists, charts, cards and diagram are computed one by one, some   *)
(* by the operator and some by the page, and tell one story: each tile has *)
(* the length of its list, and the conflicts that of its groups together;  *)
(* what runs into "Up-to-Date" is what the tile and the doughnut count; a  *)
(* link and the badges of its operators name one class; an approval is     *)
(* offered for just the operators that go somewhere; and a warning is on a *)
(* MAJOR upgrade (app.js:185-235, 284-455,                                 *)
(* 1231-1262, 1455-1635; collector.go:762-867).                            *)
CardsAgreeWithFlow ==
  LET flow == BuildUpgradeFlowData(operators) IN
  /\ \A type \in Type : Metric(operators, type) = Len(OpenMetricList(operators, type))
  /\ MapThenSumSet(Cardinality, ConflictGroups(operators)) = Metric(operators, "conflict")
  /\ StatusChart(operators).upToDate =
       MapThenSumSet(LAMBDA l : Cardinality(l.operators), {l \in flow : l.target = UpToDate})
  /\ \A link \in flow : \A i \in link.operators :
       /\ OffersApproval(operators[i]) <=> link.target # UpToDate
       /\ UpdateBadge(operators[i]) = "Up to date" <=> link.target = UpToDate
       /\ NamesDiffer /\ link.target \notin {UpToDate, Blocked}
            => UpdateBadge(operators[i]) = link.type
       /\ BreakingWarning(operators[i]) => UpdateBadge(operators[i]) = "MAJOR"

(* The health of a card is never at odds with the rest of it, although the *)
(* operator and the page set points, limits and colours in four places: a  *)
(* score fits its dots, "Excellent" is none that is degraded, risky or to  *)
(* be healed, and "Good" none whose upgrade breaks something               *)
(* (remediation.go:92-169, app.js:1375-1395, 1489-1580).                   *)
LabelsAgree ==
  \A i \in DOMAIN operators :
    LET op == operators[i]
        score == CalculateHealthScore(op)
    IN  /\ FilledDots(score) \in 0..10
        /\ HealthLabel(score) = "Excellent" =>
             ~Degraded(op) /\ ~RiskInAmber(op) /\ RemediationButton(op) # "REAPPROVE_INSTALLPLAN"
        /\ HealthLabel(score) \in {"Excellent", "Good"} =>
             ~BreakingWarning(op) /\ op.phase # "Failed"

(* The tree that is drawn is the whole graph, each node once and in its    *)
(* place: Subscription, CSV, and under it the CRDs in their order, with    *)
(* the count of just that CRD unless a kind is listed twice                *)
(* (remediation.go:32-69, app.js:2070-2121).                               *)
TopologyIsWhole ==
  \A i \in DOMAIN operators :
    LET op == operators[i]
        drawn == Topology(op)
    IN  /\ [n \in DOMAIN drawn |-> drawn[n].type] =
             <<"Subscription", "CSV">> \o [e \in DOMAIN op.crds |-> "CRD"]
        /\ Cardinality(ProvidedCRDKinds(op)) = Len(op.crds) =>
             \A e \in DOMAIN op.crds :
               drawn[e + 2] = Node("CRD", op.crds[e].kind, op.crds[e].active, <<>>)
=============================================================================
