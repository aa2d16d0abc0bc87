---------------------------- MODULE UpgradeFlow -----------------------------
(***************************************************************************)
(* What the governance sweep concludes about each operator it finds: the   *)
(* class of its pending upgrade, its scores, and, over the whole slice of  *)
(* operators, the upgrade flow, the dependency graph and the impact of a   *)
(* removal (operator/pkg/collector).                                       *)
(*                                                                         *)
(* A version text is kept as the three numbers parseSemver finds in it and *)
(* whether it is nothing but these numbers: "v1.2.3" and "1.2.3" differ,   *)
(* and a text without three numbers reads as 0.0.0.                        *)
(***************************************************************************)
EXTENDS Integers, Sequences

CONSTANTS
  Name,         \* names of Subscriptions, which repeat across namespaces, and
                \* of packages, which may be the same words
  Kind,         \* kinds of custom resources
  Phase,        \* phases of a CSV and states of a Subscription
  NoHead,       \* no package manifest, or no entry of the channel in it
  Found,        \* what a sweep may find of an operator
  MaxOperators  \* bound of the model

Version == Nat \X Nat \X Nat

Text == [semver : Version, plain : BOOLEAN]

CRDInfo == [kind : Kind, active : Nat]

\* An operator as the cluster shows it: its own version, the head of its
\* channel, its CRDs, and whether its CRs use what the head has removed.
Finding == [name : Name, package : Name, text : Text, head : Version \cup {NoHead},
            phase : Phase, crds : Seq(CRDInfo), violated : BOOLEAN, routes : Nat]

ASSUME NoHeadAssumption == NoHead \notin Version
ASSUME FoundAssumption == Found \subseteq Finding
ASSUME MaxOperatorsAssumption == MaxOperators \in Nat

VARIABLE operators     \* results, in the order of the Subscriptions

-----------------------------------------------------------------------------
(* Versions and the class of an upgrade.                                   *)

parseSemver(text) == text.semver

Formatted(v) == [semver |-> v, plain |-> TRUE]

\* A bug: each number is compared on its own.
AnyNumberGreater(target, current) ==
  target[1] > current[1] \/ target[2] > current[2] \/ target[3] > current[3]

isVersionGreater(target, current) ==
  \/ target[1] > current[1]
  \/ target[1] = current[1] /\ target[2] > current[2]
  \/ target[1] = current[1] /\ target[2] = current[2] /\ target[3] > current[3]

UpgradeClass(target, current) ==
  IF target[1] > current[1] THEN "MAJOR"
  ELSE IF target[2] > current[2] THEN "MINOR" ELSE "PATCH"

CanUpgrade(found) ==
  /\ found.head # NoHead
  /\ isVersionGreater(found.head, parseSemver(found.text))

UpgradeType(found) ==
  IF CanUpgrade(found) THEN UpgradeClass(found.head, parseSemver(found.text))
  ELSE "NONE"

Target(found) == IF found.head = NoHead THEN found.text ELSE Formatted(found.head)

\* The fields of OperatorInfo that the sweep fills last.
Inspected(found) ==
  LET class == UpgradeType(found) IN
  [name |-> found.name, package |-> found.package, version |-> found.text,
   target |-> Target(found), phase |-> found.phase, crds |-> found.crds,
   routes |-> found.routes,
   canUpgrade |-> CanUpgrade(found), upgradeType |-> class,
   breaking |-> class = "MAJOR" /\ found.violated,
   blocker |-> found.phase = "Failed" \/ class = "MAJOR"]

-----------------------------------------------------------------------------
(* The scores of one operator.                                             *)

\* Taken from a sum when the condition holds.
Minus(condition, points) == IF condition THEN points ELSE 0

\* A bug: only one of the failed phases is named.
FailedOnly(phase) ==
  CASE phase = "UpgradeFailed" -> 40
    [] phase \in {"Unknown", "Pending"} -> 25
    [] phase = "UpgradePending" -> 10
    [] phase = "Succeeded" -> 0
    [] OTHER -> 5

PhasePoints(phase) ==
  CASE phase \in {"Failed", "UpgradeFailed", "InstallPlanFailed"} -> 40
    [] phase \in {"Unknown", "Pending"} -> 25
    [] phase = "UpgradePending" -> 10
    [] phase = "Succeeded" -> 0
    [] OTHER -> 5

IsIdle(op) == Len(op.crds) > 0 /\ \A i \in DOMAIN op.crds : op.crds[i].active = 0

Clamped(score) == IF score < 0 THEN 0 ELSE IF score > 100 THEN 100 ELSE score

CalculateHealthScore(op) ==
  Clamped(100 - PhasePoints(op.phase)
              - Minus(op.canUpgrade /\ op.upgradeType = "MAJOR", 15)
              - Minus(op.canUpgrade /\ op.upgradeType = "MINOR", 5)
              - Minus(op.breaking, 15)
              - Minus(IsIdle(op), 10)
              - Minus(op.routes > 2, 10)
              - Minus(op.routes \in 1..2, 5)
              - Minus(op.blocker, 5))

CalculateSecurityRiskScore(op) ==
    Minus(op.upgradeType = "MAJOR", 40) + Minus(op.breaking, 30)
  + Minus(op.routes > 0, 15) + Minus(op.phase = "Failed", 15)

-----------------------------------------------------------------------------
(* The upgrade flow: links from the versions that run to where they go.    *)

UpToDate == [sink |-> "Up-to-Date"]
Blocked == [sink |-> "Blocked"]

Awaits(phase) == phase \in {"UpgradePending", "RequiresApproval"}

Goal(op) == IF ~op.canUpgrade THEN UpToDate
            ELSE IF Awaits(op.phase) THEN Blocked ELSE op.target

\* The operators of a link, by their places in the slice.
FlowMap(ops, source, target) ==
  {i \in DOMAIN ops : ops[i].version = source /\ Goal(ops[i]) = target}

Earliest(places) == CHOOSE i \in places : \A j \in places : i <= j

\* A bug: the type is that of the first operator of the inventory.
FirstOfAll(ops, members) == 1

\* The link names its operators; its type is looked up by the first name.
Typical(ops, members) ==
  Earliest({i \in DOMAIN ops : ops[i].name = ops[Earliest(members)].name})

FlowType(ops, target, members) ==
  IF target = Blocked THEN "blocked"
  ELSE IF target = UpToDate THEN "uptodate" ELSE ops[Typical(ops, members)].upgradeType

BuildUpgradeFlowData(ops) ==
  {LET source == ops[i].version
       target == Goal(ops[i])
       members == FlowMap(ops, source, target)
   IN [source |-> source, target |-> target, operators |-> members,
       type |-> FlowType(ops, target, members)] : i \in DOMAIN ops}

-----------------------------------------------------------------------------
(* Operators that own the same kind.                                       *)

\* A CSV may list a kind once for each of its versions.
Ownership(ops) ==
  UNION {{[operator |-> i, entry |-> e] : e \in DOMAIN ops[i].crds} : i \in DOMAIN ops}

Before(a, b) ==
  a.operator < b.operator \/ (a.operator = b.operator /\ a.entry < b.entry)

OwnedKind(ops, place) == ops[place.operator].crds[place.entry].kind

\* Two places in the order of the list of owners of one kind.
Shared(ops, a, b) == Before(a, b) /\ OwnedKind(ops, a) = OwnedKind(ops, b)

\* A bug: every owner of a kind is joined to its first owner only.
StarEdges(ops) ==
  {<<ops[p[1].operator].name, ops[p[2].operator].name>> : p \in
     {q \in Ownership(ops) \X Ownership(ops) :
        /\ Shared(ops, q[1], q[2])
        /\ ~\E first \in Ownership(ops) : Shared(ops, first, q[1])}}

\* BuildDependencyGraphData, its edges; an edge keeps one of its labels.
SharesEdges(ops) ==
  {<<ops[p[1].operator].name, ops[p[2].operator].name>> : p \in
     {q \in Ownership(ops) \X Ownership(ops) : Shared(ops, q[1], q[2])}}

ProvidedCRDKinds(op) == {op.crds[e].kind : e \in DOMAIN op.crds}

Called(ops, name) == {i \in DOMAIN ops : name \in {ops[i].name, ops[i].package}}

\* AnalyzeOperatorImpact: the target is the first operator of that name.
DirectDependents(ops, name) ==
  LET named == Called(ops, name)
  IN IF named = {} THEN {}
     ELSE {ops[p.operator].name : p \in {q \in Ownership(ops) :
             /\ q.operator \notin named
             /\ OwnedKind(ops, q) \in ProvidedCRDKinds(ops[Earliest(named)])
             /\ ops[q.operator].crds[q.entry].active > 0}}

-----------------------------------------------------------------------------
FInit == operators = <<>>

\* results := make(...): each sweep starts over.
ResultsAfresh == operators # <<>> /\ operators' = <<>>

Inspect == /\ Len(operators) < MaxOperators
           /\ \E found \in Found : operators' = Append(operators, Inspected(found))

FNext == ResultsAfresh \/ Inspect

FSpec == FInit /\ [][FNext]_operators

-----------------------------------------------------------------------------
OperatorInfo ==
  [name : Name, package : Name, version : Text, target : Text, phase : Phase,
   crds : Seq(CRDInfo), routes : Nat, canUpgrade : BOOLEAN,
   upgradeType : {"MAJOR", "MINOR", "PATCH", "NONE"}, breaking : BOOLEAN, blocker : BOOLEAN]

(* Shape of the slice.                                                     *)
FlowTypeOK == operators \in Seq(OperatorInfo) /\ Len(operators) <= MaxOperators

\* The order of versions: the first number that differs decides.
Older(v, w) == \E n \in 1..3 : v[n] < w[n] /\ \A m \in 1..(n - 1) : v[m] = w[m]

(* The flow runs from older to newer versions, over all operators taken    *)
(* together, so that no cycle of links can form: the Sankey diagram is     *)
(* drawn in layers (collector.go:762-867, 187-195).                        *)
FlowAscends ==
  \A link \in BuildUpgradeFlowData(operators) :
    link.target \notin {UpToDate, Blocked} =>
      Older(link.source.semver, link.target.semver)

NamesDiffer == \A i, j \in DOMAIN operators :
  i # j => operators[i].name # operators[j].name

(* A link carries one class of upgrade, that of each of its operators,     *)
(* although its type is looked up by a name: this needs names that differ  *)
(* (collector.go:840-851).                                                 *)
LinkTypeIsItsClass ==
  NamesDiffer =>
    \A link \in BuildUpgradeFlowData(operators) :
      link.target \notin {UpToDate, Blocked} =>
        \A i \in link.operators : operators[i].upgradeType = link.type

Joined(n, m) == {<<n, m>>, <<m, n>>} \cap SharesEdges(operators) # {}

(* The two views of who depends on whom agree: an operator that the impact *)
(* analysis lists is a neighbour in the graph, and a neighbour all of      *)
(* whose kinds are in use is listed (collector.go:989-1025, 1044-1089).    *)
ImpactMatchesGraph ==
  (\A i \in DOMAIN operators : Called(operators, operators[i].name) = {i}) =>
    \A i, j \in DOMAIN operators :
      LET n == operators[i].name
          m == operators[j].name
      IN i # j =>
           /\ m \in DirectDependents(operators, n) => Joined(n, m)
           /\ /\ Joined(n, m)
              /\ \A e \in DOMAIN operators[j].crds : operators[j].crds[e].active > 0
              => m \in DirectDependents(operators, n)
=============================================================================
