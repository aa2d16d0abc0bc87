------------------------- MODULE UpgradeFlowProofs --------------------------
(***************************************************************************)
(* Proofs about UpgradeFlow.tla and CardViews.tla for every inventory, of  *)
(* any length and with any versions: the flow ascends, a link has one      *)
(* class, the impact analysis agrees with the dependency graph, and tiles, *)
(* lists, cards, diagram and topology tell one story of the operators.     *)
(***************************************************************************)
EXTENDS CardViews, SequenceLemmas, WellFoundedInduction, TLAPS

(* The comparison of versions is the order of version numbers.             *)
LEMMA GreaterIsOlder ==
  ASSUME NEW v \in Version, NEW w \in Version, isVersionGreater(v, w)
  PROVE  Older(w, v)
<1>1. /\ v[1] \in Nat /\ v[2] \in Nat /\ v[3] \in Nat
      /\ w[1] \in Nat /\ w[2] \in Nat /\ w[3] \in Nat
  BY DEF Version
<1>2. CASE v[1] > w[1]
  BY <1>1, <1>2 DEF Older
<1>3. CASE v[1] = w[1] /\ v[2] > w[2]
  <2>1. w[2] < v[2] /\ \A m \in 1..(2 - 1) : w[m] = v[m]
    BY <1>1, <1>3
  <2>2. QED
    BY <2>1 DEF Older
<1>4. CASE v[1] = w[1] /\ v[2] = w[2] /\ v[3] > w[3]
  <2>1. w[3] < v[3] /\ \A m \in 1..(3 - 1) : w[m] = v[m]
    <3>1. \A m \in 1..2 : m = 1 \/ m = 2
      OBVIOUS
    <3>2. QED
      BY <1>1, <1>4, <3>1
  <2>2. QED
    BY <2>1 DEF Older
<1>5. QED
  BY <1>2, <1>3, <1>4 DEF isVersionGreater

(* Versions are ordered strictly: none is older than itself, and what is   *)
(* older than an older one is older.  A chain of links that ascend never   *)
(* comes back to where it began.                                           *)
THEOREM OlderIsStrict ==
  ASSUME NEW u \in Version, NEW v \in Version, NEW w \in Version
  PROVE  /\ ~Older(u, u)
         /\ Older(u, v) /\ Older(v, w) => Older(u, w)
<1>1. /\ u[1] \in Nat /\ u[2] \in Nat /\ u[3] \in Nat
      /\ v[1] \in Nat /\ v[2] \in Nat /\ v[3] \in Nat
      /\ w[1] \in Nat /\ w[2] \in Nat /\ w[3] \in Nat
  BY DEF Version
<1> DEFINE Lex(a, b) == \/ a[1] < b[1]
                        \/ a[1] = b[1] /\ a[2] < b[2]
                        \/ a[1] = b[1] /\ a[2] = b[2] /\ a[3] < b[3]
<1>2. ASSUME NEW a, NEW b PROVE Older(a, b) <=> Lex(a, b)
  <2>1. /\ 1..(1 - 1) = {} /\ 1..(2 - 1) = {1} /\ 1..(3 - 1) = {1, 2} /\ 1..3 = {1, 2, 3}
    OBVIOUS
  <2>2. QED
    BY <2>1, Zenon DEF Older
<1>3. ~Lex(u, u)
  BY <1>1
<1>4. Lex(u, v) /\ Lex(v, w) => Lex(u, w)
  BY <1>1
<1>5. QED
  <2> HIDE DEF Lex
  <2> QED
    BY <1>2, <1>3, <1>4

-----------------------------------------------------------------------------
\* What the sweep concludes about an operator is derived from its versions.
Classified(op) ==
  /\ op.canUpgrade =>
       /\ isVersionGreater(op.target.semver, op.version.semver)
       /\ op.upgradeType = UpgradeClass(op.target.semver, op.version.semver)
  /\ op.upgradeType = "MAJOR" => op.canUpgrade
  /\ op.breaking => op.upgradeType = "MAJOR"
  /\ op.upgradeType = "MAJOR" \/ op.phase = "Failed" => op.blocker

FlowInv == FlowTypeOK /\ \A i \in DOMAIN operators : Classified(operators[i])

LEMMA InspectedFacts ==
  ASSUME NEW found \in Found
  PROVE  Inspected(found) \in OperatorInfo /\ Classified(Inspected(found))
<1> USE FoundAssumption, NoHeadAssumption
<1>1. found \in Finding
  OBVIOUS
<1>2. Target(found) \in Text
  BY <1>1 DEF Finding, Target, Formatted, Text
<1>3. UpgradeType(found) \in {"MAJOR", "MINOR", "PATCH", "NONE"} /\ CanUpgrade(found) \in BOOLEAN
  BY DEF UpgradeType, UpgradeClass, CanUpgrade, isVersionGreater
<1>4. Inspected(found) \in OperatorInfo
  BY <1>1, <1>2, <1>3 DEF Inspected, OperatorInfo, Finding
<1>5. ASSUME CanUpgrade(found)
      PROVE  /\ isVersionGreater(Target(found).semver, found.text.semver)
             /\ UpgradeType(found) = UpgradeClass(Target(found).semver, found.text.semver)
  <2>1. found.head # NoHead
    BY <1>5 DEF CanUpgrade
  <2>2. Target(found).semver = found.head
    BY <2>1 DEF Target, Formatted
  <2>3. QED
    BY <1>5, <2>2 DEF CanUpgrade, UpgradeType, parseSemver
<1>6. Classified(Inspected(found))
  <2>1. UpgradeType(found) = "MAJOR" => CanUpgrade(found)
    BY DEF UpgradeType
  <2>2. QED
    BY <1>5, <2>1 DEF Classified, Inspected
<1>7. QED
  BY <1>4, <1>6

LEMMA FlowInvariance == FSpec => []FlowInv
<1> USE MaxOperatorsAssumption
<1>1. FInit => FlowInv
  BY DEF FInit, FlowInv, FlowTypeOK
<1>2. FlowInv /\ [FNext]_operators => FlowInv'
  <2> SUFFICES ASSUME FlowInv, [FNext]_operators
               PROVE  FlowInv'
    OBVIOUS
  <2>1. CASE ResultsAfresh
    BY <2>1 DEF ResultsAfresh, FlowInv, FlowTypeOK
  <2>2. CASE Inspect
    <3>1. PICK found \in Found : operators' = Append(operators, Inspected(found))
      BY <2>2 DEF Inspect
    <3>2. Inspected(found) \in OperatorInfo /\ Classified(Inspected(found))
      BY InspectedFacts
    <3>3. operators \in Seq(OperatorInfo) /\ Len(operators) < MaxOperators
      BY <2>2 DEF Inspect, FlowInv, FlowTypeOK
    <3> DEFINE op == Inspected(found)
    <3> HIDE DEF op
    <3>4. /\ Append(operators, op) \in Seq(OperatorInfo)
          /\ Len(Append(operators, op)) <= MaxOperators
      BY <3>2, <3>3 DEF op
    <3>5. ASSUME NEW i \in DOMAIN Append(operators, op)
          PROVE  Classified(Append(operators, op)[i])
      <4>1. \/ i \in DOMAIN operators /\ Append(operators, op)[i] = operators[i]
            \/ Append(operators, op)[i] = op
        BY <3>3
      <4>2. QED
        BY <4>1, <3>2 DEF FlowInv, op
    <3>6. QED
      BY <3>1, <3>4, <3>5 DEF FlowInv, FlowTypeOK, op
  <2>3. CASE UNCHANGED operators
    BY <2>3 DEF FlowInv, FlowTypeOK
  <2>4. QED
    BY <2>1, <2>2, <2>3 DEF FNext
<1>3. QED
  BY <1>1, <1>2, PTL DEF FSpec

(* The slice has its shape for every Found and every number of operators.  *)
LEMMA FlowTypeCorrect == FSpec => []FlowTypeOK
<1>1. FlowInv => FlowTypeOK
  BY DEF FlowInv
<1>2. QED
  BY <1>1, FlowInvariance, PTL

-----------------------------------------------------------------------------
(* A link between two versions comes from an operator that can upgrade.    *)
LEMMA LinkFacts ==
  ASSUME NEW i \in DOMAIN operators, Goal(operators[i]) \notin {UpToDate, Blocked}
  PROVE  operators[i].canUpgrade /\ Goal(operators[i]) = operators[i].target
BY DEF Goal

(* Every link of the upgrade flow leads to a newer version (collector.go:  *)
(* 762-867), whatever the operators are.                                   *)
THEOREM FlowAlwaysAscends == FSpec => []FlowAscends
<1>1. FlowInv => FlowAscends
  <2> SUFFICES ASSUME FlowInv, NEW link \in BuildUpgradeFlowData(operators),
                      link.target \notin {UpToDate, Blocked}
               PROVE  Older(link.source.semver, link.target.semver)
    BY DEF FlowAscends
  <2>1. PICK i \in DOMAIN operators : /\ link.source = operators[i].version
                                      /\ link.target = Goal(operators[i])
    BY DEF BuildUpgradeFlowData
  <2>2. operators[i].canUpgrade /\ link.target = operators[i].target
    BY <2>1, LinkFacts
  <2>3. isVersionGreater(link.target.semver, link.source.semver)
    BY <2>1, <2>2 DEF FlowInv, Classified
  <2>4. operators[i] \in OperatorInfo
    BY DEF FlowInv, FlowTypeOK
  <2>5. link.target.semver \in Version /\ link.source.semver \in Version
    BY <2>1, <2>2, <2>4 DEF OperatorInfo, Text
  <2>6. QED
    BY <2>3, <2>5, GreaterIsOlder
<1>2. QED
  BY <1>1, FlowInvariance, PTL

-----------------------------------------------------------------------------
(* A set of places that is not empty has an earliest one.                  *)
LEMMA EarliestExists ==
  ASSUME NEW S \in SUBSET Nat, S # {}
  PROVE  Earliest(S) \in S /\ \A j \in S : Earliest(S) <= j
<1> DEFINE Less == {p \in Nat \X Nat : p[1] < p[2]}
<1>1. IsWellFoundedOn(Less, Nat)
  BY NatLessThanWellFounded, Zenon DEF OpToRel
<1>2. PICK x \in S : \A y \in S : <<y, x>> \notin Less
  <2> HIDE DEF Less
  <2> QED
    BY <1>1, WFMin, Zenon
<1>3. \A y \in S : x <= y
  <2> TAKE y \in S
  <2>1. <<y, x>> \in Nat \X Nat /\ <<y, x>> \notin Less
    BY <1>2
  <2>2. ~(y < x)
    BY <2>1
  <2>3. QED
    BY <2>1, <2>2
<1>4. QED
  BY <1>3, Zenon DEF Earliest

\* With names that differ, a link shows the class of each of its operators.
LEMMA LinkClass == FlowInv => LinkTypeIsItsClass
<1> SUFFICES ASSUME FlowInv, NamesDiffer,
                    NEW link \in BuildUpgradeFlowData(operators),
                    link.target \notin {UpToDate, Blocked},
                    NEW j \in link.operators
             PROVE  operators[j].upgradeType = link.type
  BY DEF LinkTypeIsItsClass
<1>1. PICK i \in DOMAIN operators :
        LET members == FlowMap(operators, operators[i].version, Goal(operators[i]))
        IN /\ link.target = Goal(operators[i])
           /\ link.operators = members
           /\ link.type = FlowType(operators, Goal(operators[i]), members)
  BY DEF BuildUpgradeFlowData
<1> DEFINE members == FlowMap(operators, operators[i].version, Goal(operators[i]))
           e == Earliest(members)
<1>2. i \in members /\ j \in members /\ members \subseteq DOMAIN operators
  BY <1>1 DEF FlowMap
<1>3. DOMAIN operators \subseteq Nat
  BY DEF FlowInv, FlowTypeOK
<1>4. e \in members
  <2> HIDE DEF members
  <2> QED
    BY <1>2, <1>3, EarliestExists
<1>5. Typical(operators, members) = e
  <2>1. {k \in DOMAIN operators : operators[k].name = operators[e].name} = {e}
    BY <1>2, <1>4 DEF NamesDiffer
  <2>2. Earliest({e}) = e
    <3>1. {e} \in SUBSET Nat
      BY <1>2, <1>3, <1>4
    <3>2. QED
      BY <3>1, EarliestExists
  <2>3. QED
    BY <2>1, <2>2 DEF Typical
<1>6. link.type = operators[e].upgradeType
  BY <1>1, <1>5 DEF FlowType
<1>7. \A k \in members : /\ operators[k].version = operators[i].version
                         /\ operators[k].canUpgrade
                         /\ operators[k].target = Goal(operators[i])
  <2> TAKE k \in members
  <2>1. k \in DOMAIN operators /\ operators[k].version = operators[i].version
        /\ Goal(operators[k]) = Goal(operators[i])
    BY DEF FlowMap
  <2>2. QED
    BY <1>1, <2>1, LinkFacts
<1>8. \A k \in members : operators[k].upgradeType =
        UpgradeClass(Goal(operators[i]).semver, operators[i].version.semver)
  <2> TAKE k \in members
  <2>1. k \in DOMAIN operators
    BY <1>2
  <2>2. QED
    BY <1>7, <2>1 DEF FlowInv, Classified
<1>9. QED
  BY <1>2, <1>4, <1>6, <1>8

(* With names that differ, every operator of a link has the class that the *)
(* link shows (collector.go:840-851).                                      *)
THEOREM LinkTypeAlwaysItsClass == FSpec => []LinkTypeIsItsClass
BY LinkClass, FlowInvariance, PTL

-----------------------------------------------------------------------------
(* Who depends on whom.  The places at which kinds are owned are pairs of  *)
(* an operator and an entry of its list.                                   *)

LEMMA OwnershipFacts ==
  ASSUME NEW ops
  PROVE  /\ \A p \in Ownership(ops) :
              p.operator \in DOMAIN ops /\ p.entry \in DOMAIN ops[p.operator].crds
         /\ \A i \in DOMAIN ops : \A e \in DOMAIN ops[i].crds :
              [operator |-> i, entry |-> e] \in Ownership(ops)
BY DEF Ownership

LEMMA EdgeFacts ==
  ASSUME NEW ops, NEW edge
  PROVE  edge \in SharesEdges(ops) <=>
           \E p, q \in Ownership(ops) :
             Shared(ops, p, q) /\ edge = <<ops[p.operator].name, ops[q.operator].name>>
<1> DEFINE O == Ownership(ops)
           pairs == {r \in O \X O : Shared(ops, r[1], r[2])}
           names(r) == <<ops[r[1].operator].name, ops[r[2].operator].name>>
<1>1. SharesEdges(ops) = {names(r) : r \in pairs}
  BY DEF SharesEdges
<1>2. ASSUME edge \in SharesEdges(ops)
      PROVE  \E p, q \in O : Shared(ops, p, q) /\ edge = <<ops[p.operator].name, ops[q.operator].name>>
  <2>1. PICK r \in pairs : edge = names(r)
    BY <1>1, <1>2
  <2>2. r[1] \in O /\ r[2] \in O /\ Shared(ops, r[1], r[2])
    OBVIOUS
  <2>3. QED
    BY <2>1, <2>2
<1>3. ASSUME NEW p \in O, NEW q \in O, Shared(ops, p, q)
      PROVE  <<ops[p.operator].name, ops[q.operator].name>> \in SharesEdges(ops)
  <2> DEFINE r == <<p, q>>
  <2>1. r \in pairs /\ names(r) = <<ops[p.operator].name, ops[q.operator].name>>
    BY <1>3
  <2>2. names(r) \in SharesEdges(ops)
    BY <1>1, <2>1
  <2>3. QED
    BY <2>1, <2>2
<1>4. QED
  BY <1>2, <1>3

\* Two places of different operators are in the order of the list, one way or
\* the other; if they are of one kind, there is an edge.
LEMMA OneKindIsAnEdge ==
  ASSUME operators \in Seq(OperatorInfo),
         NEW p \in Ownership(operators), NEW q \in Ownership(operators),
         p.operator # q.operator, OwnedKind(operators, p) = OwnedKind(operators, q)
  PROVE  Joined(operators[p.operator].name, operators[q.operator].name)
<1>1. p.operator \in DOMAIN operators /\ q.operator \in DOMAIN operators
  BY OwnershipFacts
<1>2. p.operator \in Nat /\ q.operator \in Nat
  BY <1>1
<1>3. CASE p.operator < q.operator
  <2>1. Shared(operators, p, q)
    BY <1>3 DEF Shared, Before
  <2>2. <<operators[p.operator].name, operators[q.operator].name>> \in SharesEdges(operators)
    BY <2>1, EdgeFacts
  <2>3. QED
    BY <2>2 DEF Joined
<1>4. CASE q.operator < p.operator
  <2>1. Shared(operators, q, p)
    BY <1>4 DEF Shared, Before
  <2>2. <<operators[q.operator].name, operators[p.operator].name>> \in SharesEdges(operators)
    BY <2>1, EdgeFacts
  <2>3. QED
    BY <2>2 DEF Joined
<1>5. QED
  BY <1>2, <1>3, <1>4

\* Whose name nobody else has, as a name or as a package, is found by it; what
\* the analysis lists for it is who owns one of its kinds and uses it.
LEMMA DependentsOf ==
  ASSUME operators \in Seq(OperatorInfo), NEW i \in DOMAIN operators,
         Called(operators, operators[i].name) = {i}, NEW name
  PROVE  name \in DirectDependents(operators, operators[i].name) <=>
           \E p \in Ownership(operators) :
             /\ p.operator # i /\ operators[p.operator].name = name
             /\ \E e \in DOMAIN operators[i].crds :
                  OwnedKind(operators, p) = operators[i].crds[e].kind
             /\ operators[p.operator].crds[p.entry].active > 0
<1>1. i \in Nat
  OBVIOUS
<1>2. Earliest({i}) = i
  <2>1. {i} \in SUBSET Nat /\ {i} # {}
    BY <1>1
  <2>2. Earliest({i}) \in {i}
    BY <2>1, EarliestExists
  <2>3. QED
    BY <2>2
<1>3. DirectDependents(operators, operators[i].name) =
        {operators[p.operator].name : p \in {q \in Ownership(operators) :
           /\ q.operator \notin {i}
           /\ OwnedKind(operators, q) \in ProvidedCRDKinds(operators[i])
           /\ operators[q.operator].crds[q.entry].active > 0}}
  BY <1>2 DEF DirectDependents
<1>4. QED
  BY <1>3 DEF ProvidedCRDKinds

(* The impact analysis and the dependency graph agree, in any inventory in *)
(* which no name is that of two operators (collector.go:989-1025,          *)
(* 1044-1089).                                                             *)
THEOREM ImpactAlwaysMatchesGraph == FSpec => []ImpactMatchesGraph
<1>1. FlowInv => ImpactMatchesGraph
  <2> SUFFICES ASSUME FlowInv,
                      \A k \in DOMAIN operators : Called(operators, operators[k].name) = {k},
                      NEW i \in DOMAIN operators, NEW j \in DOMAIN operators, i # j
               PROVE  LET n == operators[i].name
                          m == operators[j].name
                      IN  /\ m \in DirectDependents(operators, n) => Joined(n, m)
                          /\ /\ Joined(n, m)
                             /\ \A e \in DOMAIN operators[j].crds : operators[j].crds[e].active > 0
                             => m \in DirectDependents(operators, n)
    BY DEF ImpactMatchesGraph
  <2> DEFINE n == operators[i].name
             m == operators[j].name
  <2>1. operators \in Seq(OperatorInfo)
    BY DEF FlowInv, FlowTypeOK
  <2>2. \A k, l \in DOMAIN operators : operators[k].name = operators[l].name => k = l
    BY DEF Called
  <2>3. ASSUME m \in DirectDependents(operators, n)
        PROVE  Joined(n, m)
    <3>1. \E p \in Ownership(operators) :
            /\ operators[p.operator].name = m
            /\ \E e \in DOMAIN operators[i].crds : OwnedKind(operators, p) = operators[i].crds[e].kind
      <4>1. Called(operators, operators[i].name) = {i}
        OBVIOUS
      <4> HIDE DEF m
      <4>2. QED
        BY <2>1, <2>3, <4>1, DependentsOf
    <3> PICK p \in Ownership(operators), e \in DOMAIN operators[i].crds :
          operators[p.operator].name = m /\ OwnedKind(operators, p) = operators[i].crds[e].kind
      BY <3>1
    <3> DEFINE q == [operator |-> i, entry |-> e]
    <3>2. q \in Ownership(operators) /\ OwnedKind(operators, q) = operators[i].crds[e].kind
      BY OwnershipFacts DEF OwnedKind
    <3>3. p.operator = j
      BY <2>2, OwnershipFacts
    <3>4. q.operator = i
      OBVIOUS
    <3> HIDE DEF q
    <3>5. QED
      BY <2>1, <3>2, <3>3, <3>4, OneKindIsAnEdge
  <2>4. ASSUME Joined(n, m),
               \A e \in DOMAIN operators[j].crds : operators[j].crds[e].active > 0
        PROVE  m \in DirectDependents(operators, n)
    <3>1. PICK a \in Ownership(operators), b \in Ownership(operators) :
            /\ OwnedKind(operators, a) = OwnedKind(operators, b)
            /\ a.operator = i /\ b.operator = j
      <4>1. PICK p \in Ownership(operators), q \in Ownership(operators) :
              /\ OwnedKind(operators, p) = OwnedKind(operators, q)
              /\ <<operators[p.operator].name, operators[q.operator].name>> \in {<<n, m>>, <<m, n>>}
        <5>1. \/ <<n, m>> \in SharesEdges(operators)
              \/ <<m, n>> \in SharesEdges(operators)
          BY <2>4 DEF Joined
        <5>2. QED
          BY <5>1, EdgeFacts DEF Shared
      <4>2. \/ p.operator = i /\ q.operator = j
            \/ p.operator = j /\ q.operator = i
        BY <2>2, <4>1, OwnershipFacts
      <4>3. QED
        BY <4>1, <4>2
    <3>2. operators[b.operator].crds[b.entry].active > 0
      BY <2>4, <3>1, OwnershipFacts
    <3>3. \E e \in DOMAIN operators[i].crds : OwnedKind(operators, b) = operators[i].crds[e].kind
      BY <3>1, OwnershipFacts DEF OwnedKind
    <3>4. QED
      BY <2>1, <3>1, <3>2, <3>3, DependentsOf
  <2>5. QED
    BY <2>3, <2>4
<1>2. QED
  BY <1>1, FlowInvariance, PTL

-----------------------------------------------------------------------------
(* What the cards say of an operator.                                      *)

LEMMA PhaseCosts ==
  ASSUME NEW phase
  PROVE  /\ PhasePoints(phase) \in {0, 5, 10, 25, 40}
         /\ phase \in {"Failed", "UpgradeFailed", "InstallPlanFailed"} => PhasePoints(phase) = 40
         /\ phase \in {"Unknown", "Pending"} => PhasePoints(phase) = 25
BY DEF PhasePoints

\* The points that are taken, one condition after the other, as a sum.
LEMMA ScoreFacts ==
  ASSUME NEW op \in OperatorInfo, Classified(op)
  PROVE  LET score == CalculateHealthScore(op)
             major == op.upgradeType = "MAJOR"
         IN  /\ score \in 0..100
             /\ Degraded(op) => score <= 75
             /\ op.phase = "Failed" => score <= 60
             /\ major => score <= 85
             /\ op.breaking => score <= 65
<1> DEFINE points == PhasePoints(op.phase)
           a == Minus(op.canUpgrade /\ op.upgradeType = "MAJOR", 15)
           b == Minus(op.canUpgrade /\ op.upgradeType = "MINOR", 5)
           c == Minus(op.breaking, 15)
           d == Minus(IsIdle(op), 10)
           e == Minus(op.routes > 2, 10)
           f == Minus(op.routes \in 1..2, 5)
           g == Minus(op.blocker, 5)
<1>1. CalculateHealthScore(op) = Clamped(100 - points - a - b - c - d - e - f - g)
  BY Zenon DEF CalculateHealthScore
<1>2. /\ a \in {0, 15} /\ b \in {0, 5} /\ c \in {0, 15} /\ d \in {0, 10}
      /\ e \in {0, 10} /\ f \in {0, 5} /\ g \in {0, 5}
  BY DEF Minus
<1>3. /\ points \in {0, 5, 10, 25, 40}
      /\ op.phase = "Failed" => points = 40
      /\ Degraded(op) => points >= 25
  BY PhaseCosts DEF Degraded
<1>4. /\ op.upgradeType = "MAJOR" => a = 15 /\ g = 5
      /\ op.breaking => a = 15 /\ c = 15 /\ g = 5
  BY DEF Classified, Minus
<1> HIDE DEF points, a, b, c, d, e, f, g
<1> DEFINE sum == 100 - points - a - b - c - d - e - f - g
<1>5. sum \in Int /\ sum <= 100 - points - a - c - g
  BY <1>2, <1>3
<1>6. /\ Clamped(sum) \in 0..100
      /\ Clamped(sum) = 0 \/ Clamped(sum) <= sum
  <2> HIDE DEF sum
  <2> QED
    BY <1>5 DEF Clamped
<1>7. QED
  <2> HIDE DEF sum
  <2> QED
    BY <1>1, <1>2, <1>3, <1>4, <1>5, <1>6 DEF sum

(* Health, warnings, risk and offers of one card are never at odds         *)
(* (remediation.go:92-169, app.js:1375-1395, 1489-1580).                   *)
THEOREM LabelsAlwaysAgree == FSpec => []LabelsAgree
<1>1. FlowInv => LabelsAgree
  <2> SUFFICES ASSUME FlowInv, NEW i \in DOMAIN operators
               PROVE  LET op == operators[i]
                          score == CalculateHealthScore(op)
                      IN  /\ FilledDots(score) \in 0..10
                          /\ HealthLabel(score) = "Excellent" =>
                               /\ ~Degraded(op) /\ ~RiskInAmber(op)
                               /\ RemediationButton(op) # "REAPPROVE_INSTALLPLAN"
                          /\ HealthLabel(score) \in {"Excellent", "Good"} =>
                               ~BreakingWarning(op) /\ op.phase # "Failed"
    BY DEF LabelsAgree
  <2> DEFINE op == operators[i]
             score == CalculateHealthScore(op)
  <2>1. op \in OperatorInfo /\ Classified(op)
    BY DEF FlowInv, FlowTypeOK
  <2> HIDE DEF op
  <2>2. /\ score \in 0..100
        /\ Degraded(op) => score <= 75
        /\ op.phase = "Failed" => score <= 60
        /\ op.upgradeType = "MAJOR" => score <= 85
        /\ op.breaking => score <= 65
    BY <2>1, ScoreFacts
  <2> HIDE DEF score
  <2>3. FilledDots(score) \in 0..10
    BY <2>2 DEF FilledDots
  <2>4. /\ HealthLabel(score) = "Excellent" => score >= 90
        /\ HealthLabel(score) \in {"Excellent", "Good"} => score >= 70
    BY <2>2 DEF HealthLabel
  <2>5. RiskInAmber(op) => op.upgradeType = "MAJOR" \/ op.breaking \/ op.phase = "Failed"
    <3> DEFINE routes == Minus(op.routes > 0, 15)
    <3>1. routes \in {0, 15}
      BY DEF Minus
    <3>2. ASSUME op.upgradeType # "MAJOR", ~op.breaking, op.phase # "Failed"
          PROVE  CalculateSecurityRiskScore(op) = 0 + 0 + routes + 0
      BY <3>2 DEF CalculateSecurityRiskScore, Minus
    <3> HIDE DEF routes
    <3>3. QED
      BY <3>1, <3>2 DEF RiskInAmber
  <2>6. RemediationButton(op) = "REAPPROVE_INSTALLPLAN" => op.phase = "Failed"
    BY DEF RemediationButton
  <2>7. BreakingWarning(op) => op.breaking
    BY DEF BreakingWarning
  <2>8. QED
    BY <2>2, <2>3, <2>4, <2>5, <2>6, <2>7 DEF op, score
<1>2. QED
  BY <1>1, FlowInvariance, PTL

-----------------------------------------------------------------------------
(* Tiles, lists, links and badges.                                         *)

\* Where an operator goes tells whether it can be upgraded.
LEMMA GoalFacts ==
  ASSUME NEW op \in OperatorInfo
  PROVE  Goal(op) = UpToDate <=> ~op.canUpgrade
<1>1. Blocked # UpToDate
  BY Zenon DEF Blocked, UpToDate
<1>2. op.target # UpToDate
  <2> DEFINE word == UpToDate.sink
  <2>1. UpToDate = [sink |-> word]
    BY Zenon DEF UpToDate
  <2> HIDE DEF word
  <2>2. op.target \in Text
    BY DEF OperatorInfo
  <2>3. [sink |-> word] \notin Text
    BY DEF Text
  <2>4. QED
    BY <2>1, <2>2, <2>3
<1>3. QED
  BY <1>1, <1>2, Zenon DEF Goal

\* The text of the badge.
LEMMA BadgeFacts ==
  ASSUME NEW op \in OperatorInfo, Classified(op)
  PROVE  /\ UpdateBadge(op) = "Up to date" <=> ~op.canUpgrade
         /\ op.canUpgrade => UpdateBadge(op) = op.upgradeType
<1>1. op.canUpgrade => op.upgradeType \in {"MAJOR", "MINOR", "PATCH"}
  BY DEF Classified, UpgradeClass
<1>2. op.canUpgrade => UpdateBadge(op) = op.upgradeType
  BY <1>1, Zenon DEF UpdateBadge
<1>3. ~op.canUpgrade => UpdateBadge(op) = "Up to date"
  BY Zenon DEF UpdateBadge
<1>4. "Up to date" \notin {"MAJOR", "MINOR", "PATCH"}
  BY Zenon
<1>5. QED
  BY <1>1, <1>2, <1>3, <1>4, Zenon

\* The groups of packages: the places in a group of more than one are those
\* that share their package with another place.
LEMMA GroupFacts ==
  ASSUME NEW X, NEW ops \in Seq(X)
  PROVE  /\ ConflictCount(ops) = Cardinality(UNION Conflicting(ops))
         /\ \A i \in DOMAIN ops :
              /\ i \in UNION Conflicting(ops) <=> Cardinality(PackageGroup(ops, ops[i])) > 1
              /\ Cardinality(PackageGroup(ops, ops[i])) > 1 <=>
                   \E j \in DOMAIN ops : j # i /\ ops[j].package = ops[i].package
         /\ UNION Conflicting(ops) \subseteq DOMAIN ops
<1> DEFINE D == DOMAIN ops
           group == [i \in D |-> PackageGroup(ops, ops[i])]
           groups == {PackageGroup(ops, ops[i]) : i \in D}
<1>1. \A I \in SUBSET D : IsFiniteSet(I)
  BY PlacesAreFinite
<1>2. \A i, j \in D : j \in PackageGroup(ops, ops[i]) <=> ops[j].package = ops[i].package
  BY DEF PackageGroup
<1>3. \A i \in D : i \in PackageGroup(ops, ops[i]) /\ PackageGroup(ops, ops[i]) \subseteq D
  BY DEF PackageGroup
<1>4. /\ IsFiniteSet(Conflicting(ops))
      /\ \A c \in Conflicting(ops) : IsFiniteSet(c)
      /\ \A c, d \in Conflicting(ops) : c # d => c \cap d = {}
  <2>1. IsFiniteSet(groups)
    <3>1. group \in Surjection(D, groups)
      BY DEF Surjection
    <3>2. IsFiniteSet(D)
      BY <1>1
    <3> HIDE DEF group, groups, D
    <3>3. QED
      BY <3>1, <3>2, FS_Surjection
  <2>2. Conflicting(ops) \subseteq groups
    BY DEF Conflicting
  <2>3. \A c \in groups : IsFiniteSet(c)
    BY <1>1, <1>3
  <2>4. \A c, d \in groups : c # d => c \cap d = {}
    BY DEF PackageGroup
  <2> HIDE DEF groups
  <2>5. QED
    BY <2>1, <2>2, <2>3, <2>4, FS_Subset
<1>5. ConflictCount(ops) = Cardinality(UNION Conflicting(ops))
  BY <1>4, SizesAddUp DEF ConflictCount
<1>6. ASSUME NEW i \in D
      PROVE  i \in UNION Conflicting(ops) <=> Cardinality(PackageGroup(ops, ops[i])) > 1
  <2>1. \A j \in D : i \in PackageGroup(ops, ops[j]) =>
          PackageGroup(ops, ops[j]) = PackageGroup(ops, ops[i])
    BY DEF PackageGroup
  <2>2. QED
    BY <1>3, <2>1 DEF Conflicting
<1>7. ASSUME NEW i \in D
      PROVE  Cardinality(PackageGroup(ops, ops[i])) > 1 <=>
               \E j \in D : j # i /\ ops[j].package = ops[i].package
  <2>1. IsFiniteSet(PackageGroup(ops, ops[i])) /\ i \in PackageGroup(ops, ops[i])
    BY <1>1, <1>3
  <2>2. Cardinality(PackageGroup(ops, ops[i])) > 1 <=>
          \E j \in PackageGroup(ops, ops[i]) : j # i
    BY <2>1, MoreThanOne
  <2>3. QED
    BY <1>2, <1>3, <2>2
<1>8. UNION Conflicting(ops) \subseteq D
  BY <1>3 DEF Conflicting
<1>9. QED
  BY <1>5, <1>6, <1>7, <1>8

\* The list of conflicts holds the places of all groups, and its own groups
\* are all of it: a package that two operators share is in the list twice.
LEMMA ConflictListFacts ==
  ASSUME NEW X, NEW ops \in Seq(X)
  PROVE  LET list == OpenMetricList(ops, "conflict")
         IN  /\ Len(list) = ConflictCount(ops)
             /\ MapThenSumSet(Cardinality, Conflicting(list)) = Len(list)
<1> DEFINE I == {i \in DOMAIN ops : Cardinality(PackageGroup(ops, ops[i])) > 1}
           list == At(ops, I)
<1>1. OpenMetricList(ops, "conflict") = list
  BY DEF OpenMetricList, Kept, Places
<1>2. I \in SUBSET DOMAIN ops
  OBVIOUS
<1>3. I = UNION Conflicting(ops)
  BY GroupFacts
<1>4. \A i \in I : \E j \in I : j # i /\ ops[j].package = ops[i].package
  <2> SUFFICES ASSUME NEW i \in I
               PROVE  \E j \in I : j # i /\ ops[j].package = ops[i].package
    OBVIOUS
  <2>1. i \in DOMAIN ops /\ Cardinality(PackageGroup(ops, ops[i])) > 1
    OBVIOUS
  <2>2. PICK j \in DOMAIN ops : j # i /\ ops[j].package = ops[i].package
    BY <2>1, GroupFacts
  <2>3. PackageGroup(ops, ops[j]) = PackageGroup(ops, ops[i])
    BY <2>2 DEF PackageGroup
  <2>4. QED
    BY <2>1, <2>2, <2>3
<1>5. /\ list \in Seq(X) /\ Len(list) = Cardinality(I)
      /\ \A k \in DOMAIN list : Nth(I, k) \in I /\ list[k] = ops[Nth(I, k)]
      /\ \A i \in I : \E k \in DOMAIN list : Nth(I, k) = i
  <2> HIDE DEF I
  <2> QED
    BY <1>2, KeptInOrder
<1> HIDE DEF list
<1>6. UNION Conflicting(list) = DOMAIN list
  <2>1. ASSUME NEW k \in DOMAIN list
        PROVE  k \in UNION Conflicting(list)
    <3>1. PICK j \in I : j # Nth(I, k) /\ ops[j].package = ops[Nth(I, k)].package
      <4> HIDE DEF I
      <4> QED
        BY <1>4, <1>5
    <3>2. PICK l \in DOMAIN list : Nth(I, l) = j
      <4> HIDE DEF I
      <4> QED
        BY <1>5
    <3>3. l # k /\ list[l].package = list[k].package
      <4> HIDE DEF I
      <4> QED
        BY <1>5, <3>1, <3>2
    <3>4. QED
      BY <1>5, <3>3, GroupFacts
  <2>2. QED
    BY <1>5, <2>1, GroupFacts
<1>7. Cardinality(DOMAIN list) = Len(list)
  <2>1. DOMAIN list = 1..Len(list) /\ Len(list) \in Nat
    BY <1>5
  <2>2. Cardinality(1..Len(list)) = IF 1 > Len(list) THEN 0 ELSE Len(list) - 1 + 1
    BY <2>1, FS_Interval, 1 \in Int, Len(list) \in Int
  <2>3. QED
    BY <2>1, <2>2
<1>8. MapThenSumSet(Cardinality, Conflicting(list)) = Cardinality(UNION Conflicting(list))
  BY <1>5, GroupFacts DEF ConflictCount
<1>9. QED
  BY <1>1, <1>3, <1>5, <1>6, <1>7, <1>8, GroupFacts

\* The operators of a link are those of its source that go to its target.
LEMMA LinkShape ==
  ASSUME NEW ops, NEW link \in BuildUpgradeFlowData(ops)
  PROVE  /\ link.operators = FlowMap(ops, link.source, link.target)
         /\ link.type = FlowType(ops, link.target, link.operators)
         /\ \E i \in link.operators : link.source = ops[i].version /\ link.target = Goal(ops[i])
         /\ link = [source |-> link.source, target |-> link.target,
                    operators |-> link.operators, type |-> link.type]
<1>1. PICK i \in DOMAIN ops :
        link = [source |-> ops[i].version, target |-> Goal(ops[i]),
                operators |-> FlowMap(ops, ops[i].version, Goal(ops[i])),
                type |-> FlowType(ops, Goal(ops[i]), FlowMap(ops, ops[i].version, Goal(ops[i])))]
  BY DEF BuildUpgradeFlowData
<1>2. QED
  BY <1>1 DEF FlowMap

\* The slice of the doughnut is what runs into "Up-to-Date".
LEMMA ChartFacts ==
  ASSUME NEW ops \in Seq(OperatorInfo)
  PROVE  StatusChart(ops).upToDate =
           MapThenSumSet(LAMBDA l : Cardinality(l.operators),
                         {l \in BuildUpgradeFlowData(ops) : l.target = UpToDate})
<1> DEFINE D == DOMAIN ops
           L == {l \in BuildUpgradeFlowData(ops) : l.target = UpToDate}
           I == {i \in D : ops[i].canUpgrade}
           members == [l \in L |-> l.operators]
<1>1. \A i \in D : Goal(ops[i]) = UpToDate <=> ~ops[i].canUpgrade
  BY GoalFacts
<1>2. \A l \in L : \A i \in l.operators :
        i \in D /\ ops[i].version = l.source /\ ~ops[i].canUpgrade
  <2> TAKE l \in L
  <2>1. l.operators = FlowMap(ops, l.source, l.target) /\ l.target = UpToDate
    BY LinkShape
  <2>2. QED
    BY <1>1, <2>1 DEF FlowMap
<1>3. \A l, m \in L : l.source = m.source => l = m
  <2> TAKE l, m \in L
  <2>1. /\ l.target = m.target
        /\ l.operators = FlowMap(ops, l.source, l.target)
        /\ m.operators = FlowMap(ops, m.source, m.target)
        /\ l.type = FlowType(ops, l.target, l.operators)
        /\ m.type = FlowType(ops, m.target, m.operators)
        /\ l = [source |-> l.source, target |-> l.target, operators |-> l.operators, type |-> l.type]
        /\ m = [source |-> m.source, target |-> m.target, operators |-> m.operators, type |-> m.type]
    BY LinkShape
  <2>2. QED
    BY <2>1
<1>4. IsFiniteSet(L)
  <2> DEFINE link(i) == [source |-> ops[i].version, target |-> Goal(ops[i]),
                         operators |-> FlowMap(ops, ops[i].version, Goal(ops[i])),
                         type |-> FlowType(ops, Goal(ops[i]), FlowMap(ops, ops[i].version, Goal(ops[i])))]
             draw == [i \in D |-> link(i)]
             flow == BuildUpgradeFlowData(ops)
  <2>1. flow = {link(i) : i \in D}
    BY Zenon DEF BuildUpgradeFlowData
  <2>2. draw \in Surjection(D, flow)
    <3> HIDE DEF link
    <3> QED
      BY <2>1 DEF Surjection
  <2>3. IsFiniteSet(D)
    BY PlacesAreFinite
  <2> HIDE DEF draw, flow
  <2>4. IsFiniteSet(flow)
    BY <2>2, <2>3, FS_Surjection
  <2>5. QED
    BY <2>4, FS_Subset DEF flow
<1>5. DisjointFamily(L, members)
  <2>1. \A l \in L : members[l] \in SUBSET D
    BY <1>2
  <2>2. \A l \in L : IsFiniteSet(members[l])
    BY <2>1, PlacesAreFinite
  <2>3. \A l, m \in L : l # m => members[l] \cap members[m] = {}
    BY <1>2, <1>3
  <2>4. QED
    BY <2>2, <2>3, Zenon DEF DisjointFamily
<1>6. Together(members, L) = D \ I
  <2>1. ASSUME NEW i \in D, ~ops[i].canUpgrade
        PROVE  i \in Together(members, L)
    <3> DEFINE set == FlowMap(ops, ops[i].version, Goal(ops[i]))
               l == [source |-> ops[i].version, target |-> Goal(ops[i]), operators |-> set,
                     type |-> FlowType(ops, Goal(ops[i]), set)]
    <3>1. l \in BuildUpgradeFlowData(ops) /\ l.target = UpToDate /\ l.operators = set
      BY <1>1, <2>1 DEF BuildUpgradeFlowData
    <3>2. i \in set
      BY DEF FlowMap
    <3> HIDE DEF set, l
    <3>3. l \in L /\ i \in members[l]
      BY <3>1, <3>2
    <3>4. QED
      BY <3>3 DEF Together
  <2>2. ASSUME NEW i \in Together(members, L)
        PROVE  i \in D /\ ~ops[i].canUpgrade
    BY <1>2 DEF Together
  <2>3. QED
    BY <2>1, <2>2
<1> DEFINE Step(f) == [s \in SUBSET L |-> IF s = {} THEN 0
                         ELSE Cardinality(OneOf(s).operators) + f[s \ {OneOf(s)}]]
           sum == CHOOSE f : f = Step(f)
<1>7. MapThenSumSet(LAMBDA l : Cardinality(l.operators), L) = sum[L]
  BY Zenon DEF MapThenSumSet, MapThenFoldSet, OneOf
<1> HIDE DEF L
<1>8. ASSUME NEW f
      PROVE  Adds(f, L, members) <=> f = Step(f)
  <2>1. \A s \in SUBSET L : s # {} => members[OneOf(s)] = OneOf(s).operators
    BY DEF OneOf
  <2> HIDE DEF members
  <2>2. Step(f) = [s \in SUBSET L |-> IF s = {} THEN 0
                     ELSE Cardinality(members[OneOf(s)]) + f[s \ {OneOf(s)}]]
    BY <2>1
  <2>3. QED
    BY <2>2 DEF Adds
<1> HIDE DEF members, Step
<1>9. \E f : Adds(f, L, members)
  BY <1>4, <1>5, SumOfSizes
<1>10. Adds(sum, L, members)
  BY <1>8, <1>9
<1> HIDE DEF sum
<1>11. sum[L] = Cardinality(D \ I)
  BY <1>4, <1>5, <1>6, <1>10, SumOfSizes
<1>12. Cardinality(D \ I) = Len(ops) - Count(ops, CanBeUpgraded)
  <2>1. Count(ops, CanBeUpgraded) = Len(At(ops, I))
    BY DEF Count, Kept, Places, CanBeUpgraded
  <2>2. I \in SUBSET DOMAIN ops
    OBVIOUS
  <2> HIDE DEF I
  <2>3. QED
    BY <2>1, <2>2, RestOfList
<1>13. QED
  BY <1>7, <1>11, <1>12, Zenon DEF StatusChart, L

\* Each tile has the length of the list behind it: most count what the list
\* keeps, one what the list leaves out, and one the groups of the list.
LEMMA TileFacts ==
  ASSUME NEW X, NEW ops \in Seq(X), NEW type \in Type
  PROVE  Metric(ops, type) = Len(OpenMetricList(ops, type))
<1>1. CASE type = "uptodate"
  <2> DEFINE I == {i \in DOMAIN ops : ops[i].canUpgrade}
  <2>1. Metric(ops, "uptodate") = Len(ops) - Len(At(ops, I))
    BY DEF Metric, Count, Kept, Places, CanBeUpgraded
  <2>2. OpenMetricList(ops, "uptodate") = At(ops, DOMAIN ops \ I)
    <3> DEFINE J == {i \in DOMAIN ops : ~ops[i].canUpgrade}
    <3>1. J = DOMAIN ops \ I
      OBVIOUS
    <3>2. OpenMetricList(ops, "uptodate") = At(ops, J)
      BY DEF OpenMetricList, Kept, Places
    <3>3. QED
      BY <3>1, <3>2
  <2>3. I \in SUBSET DOMAIN ops
    OBVIOUS
  <2> HIDE DEF I
  <2>4. QED
    BY <1>1, <2>1, <2>2, <2>3, RestOfList
<1>2. CASE type = "conflict"
  <2>1. Metric(ops, "conflict") = ConflictCount(ops)
    BY DEF Metric
  <2>2. QED
    BY <1>2, <2>1, ConflictListFacts
<1>3. CASE type \in Type \ {"uptodate", "conflict"}
  BY <1>3, Zenon DEF Type, Metric, OpenMetricList, Count
<1>4. QED
  BY <1>1, <1>2, <1>3

(* What the tiles, their lists, the doughnut, the cards and the diagram    *)
(* say of one answer is one story, whatever the operators are and however  *)
(* many there are (app.js:185-235, 284-455, 1231-1262, 1455-1635;          *)
(* collector.go:762-867).                                                  *)
THEOREM CardsAlwaysAgreeWithFlow == FSpec => []CardsAgreeWithFlow
<1>1. FlowInv => CardsAgreeWithFlow
  <2> SUFFICES ASSUME FlowInv PROVE CardsAgreeWithFlow
    OBVIOUS
  <2>1. operators \in Seq(OperatorInfo)
    BY DEF FlowInv, FlowTypeOK
  <2>2. \A type \in Type : Metric(operators, type) = Len(OpenMetricList(operators, type))
    BY <2>1, TileFacts
  <2>3. MapThenSumSet(Cardinality, ConflictGroups(operators)) = Metric(operators, "conflict")
    <3>1. Metric(operators, "conflict") = ConflictCount(operators)
      BY DEF Metric
    <3>2. QED
      BY <2>1, <3>1, ConflictListFacts DEF ConflictGroups
  <2>4. StatusChart(operators).upToDate =
          MapThenSumSet(LAMBDA l : Cardinality(l.operators),
                        {l \in BuildUpgradeFlowData(operators) : l.target = UpToDate})
    BY <2>1, ChartFacts
  <2>5. ASSUME NEW link \in BuildUpgradeFlowData(operators), NEW i \in link.operators
        PROVE  /\ OffersApproval(operators[i]) <=> link.target # UpToDate
               /\ UpdateBadge(operators[i]) = "Up to date" <=> link.target = UpToDate
               /\ NamesDiffer /\ link.target \notin {UpToDate, Blocked}
                    => UpdateBadge(operators[i]) = link.type
               /\ BreakingWarning(operators[i]) => UpdateBadge(operators[i]) = "MAJOR"
    <3> DEFINE op == operators[i]
    <3>1. i \in DOMAIN operators /\ Goal(op) = link.target
      BY LinkShape DEF FlowMap
    <3>2. op \in OperatorInfo /\ Classified(op)
      BY <2>1, <3>1 DEF FlowInv
    <3>3. NamesDiffer /\ link.target \notin {UpToDate, Blocked} => op.upgradeType = link.type
      BY LinkClass DEF LinkTypeIsItsClass
    <3> HIDE DEF op
    <3>4. link.target = UpToDate <=> ~op.canUpgrade
      BY <3>1, <3>2, GoalFacts
    <3>5. /\ UpdateBadge(op) = "Up to date" <=> ~op.canUpgrade
          /\ op.canUpgrade => UpdateBadge(op) = op.upgradeType
      BY <3>2, BadgeFacts
    <3>6. OffersApproval(op) <=> link.target # UpToDate
      BY <3>4, Zenon DEF OffersApproval
    <3>7. BreakingWarning(op) => UpdateBadge(op) = "MAJOR"
      <4>1. BreakingWarning(op) => op.canUpgrade /\ op.upgradeType = "MAJOR"
        BY <3>2 DEF BreakingWarning, Classified
      <4>2. QED
        BY <3>5, <4>1, Zenon
    <3>8. QED
      BY <3>3, <3>4, <3>5, <3>6, <3>7, Zenon DEF op
  <2>6. QED
    BY <2>2, <2>3, <2>4, <2>5, Zenon DEF CardsAgreeWithFlow
<1>2. QED
  BY <1>1, FlowInvariance, PTL

-----------------------------------------------------------------------------
(* The topology.  The tree that buildTopologyHTML draws is a function on   *)
(* the names of nodes; it exists, and is the only one.                     *)

NodeAt(nodes, id) == SelectInSeq(nodes, LAMBDA n : n.id = id)

\* The first node of that name.
LEMMA NodeAtFacts ==
  ASSUME NEW X, NEW nodes \in Seq(X), NEW i \in DOMAIN nodes,
         \A j \in DOMAIN nodes : j < i => nodes[j].id # nodes[i].id
  PROVE  NodeAt(nodes, nodes[i].id) = i
<1> DEFINE I == {j \in 1..Len(nodes) : nodes[j].id = nodes[i].id}
<1>1. NodeAt(nodes, nodes[i].id) = IF I # {} THEN Min(I) ELSE 0
  BY DEF NodeAt, SelectInSeq
<1>2. i \in I /\ I \in SUBSET Nat /\ \A j \in I : i <= j
  OBVIOUS
<1> HIDE DEF I
<1>3. Min(I) = i
  <2>1. Min(I) \in I /\ Min(I) <= i
    BY <1>2, MinFacts
  <2>2. QED
    BY <1>2, <2>1
<1>4. QED
  BY <1>1, <1>2, <1>3

LEMMA NodeAtIsANode ==
  ASSUME NEW X, NEW nodes \in Seq(X), NEW i \in DOMAIN nodes
  PROVE  /\ NodeAt(nodes, nodes[i].id) \in 1..i
         /\ nodes[NodeAt(nodes, nodes[i].id)].id = nodes[i].id
<1> DEFINE I == {j \in 1..Len(nodes) : nodes[j].id = nodes[i].id}
<1>1. NodeAt(nodes, nodes[i].id) = IF I # {} THEN Min(I) ELSE 0
  BY DEF NodeAt, SelectInSeq
<1>2. i \in I /\ I \in SUBSET Nat
  OBVIOUS
<1>3. Min(I) \in I /\ Min(I) <= i
  <2> HIDE DEF I
  <2> QED
    BY <1>2, MinFacts
<1>4. QED
  BY <1>1, <1>2, <1>3

\* The graph: the CRDs, the CSV that has them, the Subscription that has it.
LEMMA GraphFacts ==
  ASSUME NEW op \in OperatorInfo
  PROVE  LET n == Len(op.crds)
             nodes == BuildDependencyGraph(op)
         IN  /\ n \in Nat /\ \E X : nodes \in Seq(X)
             /\ Len(nodes) = n + 2
             /\ \A e \in 1..n :
                  nodes[e] = Node("CRD", op.crds[e].kind, op.crds[e].active, <<>>)
             /\ nodes[n + 1] = Node("CSV", op.version, op.phase,
                                    [e \in 1..n |-> <<"CRD", op.crds[e].kind>>])
             /\ nodes[n + 2] = Node("Subscription", op.name, op.phase, <<<<"CSV", op.version>>>>)
<1> DEFINE n == Len(op.crds)
           crds == [e \in DOMAIN op.crds |-> Node("CRD", op.crds[e].kind, op.crds[e].active, <<>>)]
           csv == Node("CSV", op.version, op.phase, [e \in DOMAIN crds |-> crds[e].id])
           sub == Node("Subscription", op.name, op.phase, <<csv.id>>)
           X == {crds[e] : e \in 1..n} \cup {csv, sub}
<1>1. op.crds \in Seq(CRDInfo) /\ n \in Nat /\ DOMAIN op.crds = 1..n
  BY DEF OperatorInfo
<1>2. \A e \in 1..n : crds[e].id = <<"CRD", op.crds[e].kind>>
  BY <1>1 DEF Node
<1>3. [e \in DOMAIN crds |-> crds[e].id] = [e \in 1..n |-> <<"CRD", op.crds[e].kind>>]
  <2>1. DOMAIN crds = 1..n
    BY <1>1
  <2> HIDE DEF crds
  <2>2. QED
    BY <1>2, <2>1
<1>4. csv.id = <<"CSV", op.version>>
  BY DEF Node
<1>5. BuildDependencyGraph(op) = crds \o <<csv, sub>>
  BY DEF BuildDependencyGraph
<1>6. crds \in Seq(X) /\ Len(crds) = n
  <2>1. crds \in [1..n -> X]
    BY <1>1
  <2> HIDE DEF crds, X, n
  <2>2. QED
    BY <1>1, <2>1
<1>7. <<csv, sub>> \in Seq(X) /\ Len(<<csv, sub>>) = 2
  <2>1. csv \in X /\ sub \in X
    BY Zenon
  <2> HIDE DEF csv, sub, crds, X
  <2>2. QED
    BY <2>1
<1>8. \A e \in 1..n : crds[e] = Node("CRD", op.crds[e].kind, op.crds[e].active, <<>>)
  BY <1>1
<1> DEFINE two == <<csv, sub>>
<1>9. two[1] = csv /\ two[2] = sub
  <2> HIDE DEF csv, sub
  <2> QED
    OBVIOUS
<1>10. /\ csv = Node("CSV", op.version, op.phase, [e \in 1..n |-> <<"CRD", op.crds[e].kind>>])
       /\ sub = Node("Subscription", op.name, op.phase, <<<<"CSV", op.version>>>>)
  BY <1>3, <1>4
<1> HIDE DEF crds, two, csv, sub, X, n
<1>11. /\ crds \o two \in Seq(X) /\ Len(crds \o two) = Len(crds) + Len(two)
       /\ \A i \in 1..(Len(crds) + Len(two)) :
            (crds \o two)[i] = IF i <= Len(crds) THEN crds[i] ELSE two[i - Len(crds)]
  BY <1>6, <1>7, ConcatProperties DEF two
<1>12. n \in Nat /\ Len(crds) = n /\ Len(two) = 2
  BY <1>1, <1>6, <1>7 DEF two
<1>13. BuildDependencyGraph(op) = crds \o two
  BY <1>5 DEF two
<1> DEFINE nodes == BuildDependencyGraph(op)
<1>14. /\ nodes \in Seq(X) /\ Len(nodes) = n + 2
       /\ \A e \in 1..n : nodes[e] = crds[e]
       /\ nodes[n + 1] = csv /\ nodes[n + 2] = sub
  <2> DEFINE all == crds \o two
  <2> HIDE DEF all
  <2>1. \A i \in 1..(Len(crds) + Len(two)) :
          all[i] = IF i <= Len(crds) THEN crds[i] ELSE two[i - Len(crds)]
    BY <1>11 DEF all
  <2>2. \A i \in 1..(n + 2) : all[i] = IF i <= n THEN crds[i] ELSE two[i - n]
    BY <1>12, <2>1
  <2>3. all \in Seq(X) /\ Len(all) = n + 2
    BY <1>11, <1>12 DEF all
  <2>4. \A e \in 1..n : all[e] = crds[e]
    BY <1>12, <2>2
  <2>5. all[n + 1] = two[1] /\ all[n + 2] = two[2]
    <3>1. /\ n + 1 \in 1..(n + 2) /\ ~(n + 1 <= n) /\ n + 1 - n = 1
          /\ n + 2 \in 1..(n + 2) /\ ~(n + 2 <= n) /\ n + 2 - n = 2
      BY <1>12
    <3>2. QED
      BY <1>12, <2>2, <3>1
  <2>6. nodes = all
    BY <1>13 DEF all
  <2> HIDE DEF nodes
  <2>7. QED
    BY <1>9, <2>3, <2>4, <2>5, <2>6
<1> HIDE DEF nodes
<1>15. QED
  BY <1>8, <1>10, <1>12, <1>14 DEF nodes, n

\* What buildTopologyHTML draws for the name of a node, when html is what it
\* draws for the names of its children.
Line(html, nodes, id) ==
  IF NodeAt(nodes, id) = 0 THEN <<>>
  ELSE <<nodes[NodeAt(nodes, id)]>> \o
         FlattenSeq([c \in DOMAIN nodes[NodeAt(nodes, id)].children |->
                      html[nodes[NodeAt(nodes, id)].children[c]]])

Ids(root, nodes) ==
  {root} \cup UNION {{nodes[i].id} \cup ToSet(nodes[i].children) : i \in DOMAIN nodes}

Draws(html, root, nodes) == html = [id \in Ids(root, nodes) |-> Line(html, nodes, id)]

LEMMA Drawing ==
  ASSUME NEW root, NEW nodes, \E html : Draws(html, root, nodes)
  PROVE  \E html : Draws(html, root, nodes) /\ buildTopologyHTML(root, nodes) = html[root]
<1> DEFINE html == CHOOSE h : Draws(h, root, nodes)
<1>1. Draws(html, root, nodes)
  BY Zenon
<1>2. buildTopologyHTML(root, nodes) = html[root]
  BY Zenon DEF buildTopologyHTML, Draws, Line, Ids, NodeAt
<1>3. QED
  BY <1>1, <1>2, Zenon

\* Where the nodes of the graph are found by their names: a CRD of a kind that
\* is listed twice is found at the first of its places.
LEMMA PlacesOfNodes ==
  ASSUME NEW op \in OperatorInfo
  PROVE  LET n == Len(op.crds)
             nodes == BuildDependencyGraph(op)
         IN  /\ NodeAt(nodes, <<"CSV", op.version>>) = n + 1
             /\ NodeAt(nodes, <<"Subscription", op.name>>) = n + 2
             /\ RootNode(nodes) = n + 2
             /\ \A e \in 1..n : /\ NodeAt(nodes, <<"CRD", op.crds[e].kind>>) \in 1..n
                                 /\ op.crds[NodeAt(nodes, <<"CRD", op.crds[e].kind>>)].kind = op.crds[e].kind
<1> DEFINE n == Len(op.crds)
           nodes == BuildDependencyGraph(op)
<1>1. /\ n \in Nat /\ Len(nodes) = n + 2
      /\ \A e \in 1..n : nodes[e].id = <<"CRD", op.crds[e].kind>> /\ nodes[e].type = "CRD"
      /\ nodes[n + 1].id = <<"CSV", op.version>> /\ nodes[n + 1].type = "CSV"
      /\ nodes[n + 2].id = <<"Subscription", op.name>> /\ nodes[n + 2].type = "Subscription"
  <2>1. \A type, name, status, children :
          /\ Node(type, name, status, children).id = <<type, name>>
          /\ Node(type, name, status, children).type = type
    BY Zenon DEF Node
  <2>2. /\ n \in Nat /\ Len(nodes) = n + 2
        /\ \A e \in 1..n : nodes[e] = Node("CRD", op.crds[e].kind, op.crds[e].active, <<>>)
        /\ \E children : nodes[n + 1] = Node("CSV", op.version, op.phase, children)
        /\ \E children : nodes[n + 2] = Node("Subscription", op.name, op.phase, children)
    BY GraphFacts, Zenon
  <2> HIDE DEF n, nodes
  <2>3. \A e \in 1..n : nodes[e].id = <<"CRD", op.crds[e].kind>> /\ nodes[e].type = "CRD"
    BY <2>1, <2>2
  <2>4. nodes[n + 1].id = <<"CSV", op.version>> /\ nodes[n + 1].type = "CSV"
    BY <2>1, <2>2
  <2>5. nodes[n + 2].id = <<"Subscription", op.name>> /\ nodes[n + 2].type = "Subscription"
    BY <2>1, <2>2
  <2>6. QED
    BY <2>2, <2>3, <2>4, <2>5, Zenon
<1>2. PICK X : nodes \in Seq(X)
  BY GraphFacts
<1> HIDE DEF n, nodes
<1>3. /\ DOMAIN nodes = 1..(n + 2)
      /\ n + 1 \in 1..(n + 2) /\ n + 2 \in 1..(n + 2)
      /\ \A e \in 1..(n + 2) : e \in 1..n \/ e = n + 1 \/ e = n + 2
  BY <1>1, <1>2
<1>4. NodeAt(nodes, nodes[n + 1].id) = n + 1
  <2>1. \A j \in DOMAIN nodes : j < n + 1 => j \in 1..n
    BY <1>1, <1>3
  <2>2. \A j \in DOMAIN nodes : j < n + 1 => nodes[j].id # nodes[n + 1].id
    BY <1>1, <2>1
  <2>3. QED
    BY <1>2, <1>3, <2>2, NodeAtFacts
<1>5. NodeAt(nodes, nodes[n + 2].id) = n + 2
  <2>1. \A j \in DOMAIN nodes : j < n + 2 => j \in 1..n \/ j = n + 1
    BY <1>1, <1>3
  <2>2. \A j \in DOMAIN nodes : j < n + 2 => nodes[j].id # nodes[n + 2].id
    BY <1>1, <2>1
  <2>3. QED
    BY <1>2, <1>3, <2>2, NodeAtFacts
<1>6. RootNode(nodes) = n + 2
  <2> DEFINE I == {j \in 1..Len(nodes) : nodes[j].type = "Subscription"}
  <2>1. RootNode(nodes) = IF I # {} THEN Min(I) ELSE 0
    BY DEF RootNode, SelectInSeq
  <2>2. I = {n + 2}
    BY <1>1, <1>2, <1>3
  <2>3. Min({n + 2}) = n + 2
    <3>1. {n + 2} \in SUBSET Nat /\ {n + 2} # {}
      BY <1>1
    <3>2. Min({n + 2}) \in {n + 2}
      BY <3>1, MinFacts
    <3>3. QED
      BY <3>2
  <2> HIDE DEF I
  <2>4. QED
    BY <2>1, <2>2, <2>3
<1>7. ASSUME NEW e \in 1..n
      PROVE  /\ NodeAt(nodes, <<"CRD", op.crds[e].kind>>) \in 1..n
             /\ op.crds[NodeAt(nodes, <<"CRD", op.crds[e].kind>>)].kind = op.crds[e].kind
  <2> DEFINE at == NodeAt(nodes, nodes[e].id)
  <2>1. e \in DOMAIN nodes /\ nodes[e].id = <<"CRD", op.crds[e].kind>>
    BY <1>1, <1>3
  <2>2. at \in 1..e /\ nodes[at].id = nodes[e].id
    BY <1>2, <2>1, NodeAtIsANode
  <2>3. at \in 1..n
    BY <1>1, <2>2
  <2>4. nodes[at].id = <<"CRD", op.crds[at].kind>>
    BY <1>1, <2>3
  <2>5. op.crds[at].kind = op.crds[e].kind
    BY <2>1, <2>2, <2>4
  <2>6. QED
    BY <2>1, <2>3, <2>5
<1>8. QED
  BY <1>1, <1>4, <1>5, <1>6, <1>7 DEF n, nodes

CrdId(op, e) == <<"CRD", op.crds[e].kind>>
CsvId(op) == <<"CSV", op.version>>
SubId(op) == <<"Subscription", op.name>>

\* The boxes of the CRDs, in the order of their list.
Leaves(op) ==
  [e \in 1..Len(op.crds) |->
     BuildDependencyGraph(op)[NodeAt(BuildDependencyGraph(op), CrdId(op, e))]]

\* What is drawn for a CRD, for the CSV and for the Subscription.
LEMMA Lines ==
  ASSUME NEW op \in OperatorInfo, NEW html
  PROVE  LET n == Len(op.crds)
             nodes == BuildDependencyGraph(op)
             csv == <<nodes[n + 1]>> \o Leaves(op)
         IN  /\ \A e \in 1..n : Line(html, nodes, CrdId(op, e)) = <<Leaves(op)[e]>>
             /\ (\A e \in 1..n : html[CrdId(op, e)] = <<Leaves(op)[e]>>)
                  => Line(html, nodes, CsvId(op)) = csv
             /\ html[CsvId(op)] = csv => Line(html, nodes, SubId(op)) = <<nodes[n + 2]>> \o csv
<1> DEFINE n == Len(op.crds)
           nodes == BuildDependencyGraph(op)
           leaves == Leaves(op)
           csv == <<nodes[n + 1]>> \o leaves
<1>1. PICK X : nodes \in Seq(X)
  BY GraphFacts
<1>2. /\ n \in Nat /\ Len(nodes) = n + 2
      /\ \A e \in 1..n : nodes[e].children = <<>>
      /\ nodes[n + 1].children = [e \in 1..n |-> CrdId(op, e)]
      /\ nodes[n + 2].children = <<CsvId(op)>>
  <2>1. \A type, name, status, children : Node(type, name, status, children).children = children
    BY DEF Node
  <2>2. /\ n \in Nat /\ Len(nodes) = n + 2
        /\ \A e \in 1..n : nodes[e] = Node("CRD", op.crds[e].kind, op.crds[e].active, <<>>)
        /\ nodes[n + 1] = Node("CSV", op.version, op.phase, [e \in 1..n |-> <<"CRD", op.crds[e].kind>>])
        /\ nodes[n + 2] = Node("Subscription", op.name, op.phase, <<<<"CSV", op.version>>>>)
    BY GraphFacts, Zenon
  <2> HIDE DEF n, nodes
  <2>3. \A e \in 1..n : nodes[e].children = <<>>
    BY <2>1, <2>2
  <2>4. nodes[n + 1].children = [e \in 1..n |-> <<"CRD", op.crds[e].kind>>]
    BY <2>1, <2>2
  <2>5. nodes[n + 2].children = <<<<"CSV", op.version>>>>
    BY <2>1, <2>2
  <2>6. QED
    BY <2>2, <2>3, <2>4, <2>5, Zenon DEF CrdId, CsvId
<1>3. /\ NodeAt(nodes, CsvId(op)) = n + 1 /\ NodeAt(nodes, SubId(op)) = n + 2
      /\ \A e \in 1..n : NodeAt(nodes, CrdId(op, e)) \in 1..n
  BY PlacesOfNodes, Zenon DEF CrdId, CsvId, SubId
<1>4. /\ \A e \in 1..n : leaves[e] = nodes[NodeAt(nodes, CrdId(op, e))]
      /\ DOMAIN leaves = 1..n
  BY DEF Leaves
<1>5. leaves \in Seq(X) /\ \A e \in 1..n : leaves[e] \in X
  <2>1. leaves = [e \in 1..n |-> leaves[e]]
    BY DEF Leaves
  <2> HIDE DEF leaves, n, nodes
  <2>2. ASSUME NEW e \in 1..n
        PROVE  leaves[e] \in X
    <3> DEFINE at == NodeAt(nodes, CrdId(op, e))
    <3>1. at \in 1..n /\ leaves[e] = nodes[at]
      BY <1>3, <1>4
    <3> HIDE DEF at
    <3>2. at \in 1..Len(nodes)
      BY <1>2, <3>1
    <3>3. QED
      BY <1>1, <3>1, <3>2
  <2>3. leaves \in [1..n -> X]
    BY <2>1, <2>2
  <2>4. QED
    BY <1>2, <2>2, <2>3
<1>6. csv \in Seq(X)
  <2> HIDE DEF leaves, n, nodes
  <2>1. nodes[n + 1] \in X
    BY <1>1, <1>2
  <2>2. <<nodes[n + 1]>> \in Seq(X)
    BY <2>1
  <2>3. QED
    BY <1>5, <2>2, ConcatProperties
<1> HIDE DEF n, nodes, leaves, csv
<1>7. ASSUME NEW e \in 1..n
      PROVE  Line(html, nodes, CrdId(op, e)) = <<leaves[e]>>
  <2> DEFINE at == NodeAt(nodes, CrdId(op, e))
             drawn == [c \in DOMAIN nodes[at].children |-> html[nodes[at].children[c]]]
  <2>1. at # 0 /\ nodes[at].children = <<>> /\ leaves[e] = nodes[at]
    BY <1>2, <1>3, <1>4
  <2>2. drawn = <<>>
    BY <2>1
  <2>3. FlattenSeq(drawn) = <<>>
    BY <2>2 DEF FlattenSeq
  <2>4. Line(html, nodes, CrdId(op, e)) = <<leaves[e]>> \o FlattenSeq(drawn)
    BY <2>1, Zenon DEF Line
  <2>5. <<leaves[e]>> \in Seq(X)
    BY <1>5
  <2> DEFINE one == <<leaves[e]>>
  <2> HIDE DEF drawn, at, one
  <2>6. one \o <<>> = one
    BY <2>5, ConcatEmptySeq DEF one
  <2>7. QED
    BY <2>3, <2>4, <2>6 DEF one
<1>8. ASSUME \A e \in 1..n : html[CrdId(op, e)] = <<leaves[e]>>
      PROVE  Line(html, nodes, CsvId(op)) = <<nodes[n + 1]>> \o leaves
  <2> DEFINE at == NodeAt(nodes, CsvId(op))
             drawn == [c \in DOMAIN nodes[at].children |-> html[nodes[at].children[c]]]
  <2>1. at = n + 1 /\ at # 0 /\ nodes[at].children = [e \in 1..n |-> CrdId(op, e)]
    BY <1>2, <1>3
  <2>2. drawn = [e \in DOMAIN leaves |-> <<leaves[e]>>]
    BY <1>4, <1>8, <2>1
  <2>3. FlattenSeq(drawn) = leaves
    <3> HIDE DEF drawn
    <3> QED
      BY <1>5, <2>2, FlattenSingletons, Zenon
  <2>4. Line(html, nodes, CsvId(op)) = <<nodes[at]>> \o FlattenSeq(drawn)
    BY <2>1, Zenon DEF Line
  <2> HIDE DEF drawn, at
  <2>5. QED
    BY <2>1, <2>3, <2>4, Zenon
<1>9. ASSUME html[CsvId(op)] = csv
      PROVE  Line(html, nodes, SubId(op)) = <<nodes[n + 2]>> \o csv
  <2> DEFINE at == NodeAt(nodes, SubId(op))
             drawn == [c \in DOMAIN nodes[at].children |-> html[nodes[at].children[c]]]
  <2>1. at = n + 2 /\ at # 0 /\ nodes[at].children = <<CsvId(op)>>
    BY <1>2, <1>3
  <2>2. drawn = <<csv>>
    BY <1>9, <2>1
  <2>3. FlattenSeq(drawn) = csv
    <3> HIDE DEF drawn
    <3> QED
      BY <1>6, <2>2, FlattenOne, Zenon
  <2>4. Line(html, nodes, SubId(op)) = <<nodes[at]>> \o FlattenSeq(drawn)
    BY <2>1, Zenon DEF Line
  <2> HIDE DEF drawn, at
  <2>5. QED
    BY <2>1, <2>3, <2>4, Zenon
<1>10. QED
  BY <1>7, <1>8, <1>9, Zenon DEF n, nodes, leaves, csv

\* The names below the Subscription are those of its nodes.
LEMMA IdsFacts ==
  ASSUME NEW op \in OperatorInfo
  PROVE  Ids(SubId(op), BuildDependencyGraph(op)) =
           {SubId(op), CsvId(op)} \cup {CrdId(op, e) : e \in 1..Len(op.crds)}
<1> DEFINE n == Len(op.crds)
           nodes == BuildDependencyGraph(op)
           crdIds == {CrdId(op, e) : e \in 1..n}
           of(i) == {nodes[i].id} \cup ToSet(nodes[i].children)
<1>1. PICK X : nodes \in Seq(X)
  BY GraphFacts
<1>2. /\ n \in Nat /\ Len(nodes) = n + 2
      /\ \A e \in 1..n : nodes[e] = Node("CRD", op.crds[e].kind, op.crds[e].active, <<>>)
      /\ nodes[n + 1] = Node("CSV", op.version, op.phase, [e \in 1..n |-> <<"CRD", op.crds[e].kind>>])
      /\ nodes[n + 2] = Node("Subscription", op.name, op.phase, <<<<"CSV", op.version>>>>)
  BY GraphFacts, Zenon
<1>3. \A type, name, status, children :
        /\ Node(type, name, status, children).children = children
        /\ Node(type, name, status, children).id = <<type, name>>
  BY DEF Node
<1> HIDE DEF n, nodes
<1>4. \A e \in 1..n : of(e) = {CrdId(op, e)}
  <2>1. ToSet(<<>>) = {}
    BY DEF ToSet
  <2>2. \A e \in 1..n : nodes[e].children = <<>> /\ nodes[e].id = CrdId(op, e)
    BY <1>2, <1>3 DEF CrdId
  <2>3. QED
    BY <2>1, <2>2
<1>5. of(n + 1) = {CsvId(op)} \cup crdIds
  <2> DEFINE ids == [e \in 1..n |-> CrdId(op, e)]
  <2>1. nodes[n + 1].children = ids /\ nodes[n + 1].id = CsvId(op)
    <3>1. nodes[n + 1].children = [e \in 1..n |-> <<"CRD", op.crds[e].kind>>]
      BY <1>2, <1>3
    <3>2. nodes[n + 1].id = <<"CSV", op.version>>
      BY <1>2, <1>3
    <3>3. QED
      BY <3>1, <3>2, Zenon DEF CsvId, CrdId
  <2>2. ToSet(ids) = crdIds
    BY DEF ToSet
  <2> HIDE DEF ids, crdIds
  <2>3. QED
    BY <2>1, <2>2
<1>6. of(n + 2) = {SubId(op), CsvId(op)}
  <2>1. nodes[n + 2].children = <<CsvId(op)>> /\ nodes[n + 2].id = SubId(op)
    BY <1>2, <1>3 DEF CsvId, SubId
  <2>2. ToSet(<<CsvId(op)>>) = {CsvId(op)}
    BY DEF ToSet
  <2>3. QED
    BY <2>1, <2>2
<1>7. /\ DOMAIN nodes = 1..(n + 2) /\ n + 1 \in 1..(n + 2) /\ n + 2 \in 1..(n + 2)
      /\ \A i \in 1..(n + 2) : i \in 1..n \/ i = n + 1 \/ i = n + 2
  BY <1>1, <1>2
<1>8. Ids(SubId(op), nodes) = {SubId(op)} \cup UNION {of(i) : i \in DOMAIN nodes}
  BY Zenon DEF Ids
<1>9. QED
  <2> HIDE DEF of
  <2>1. \A i \in DOMAIN nodes : of(i) \subseteq {SubId(op), CsvId(op)} \cup crdIds
    BY <1>4, <1>5, <1>6, <1>7
  <2>2. of(n + 1) \subseteq UNION {of(i) : i \in DOMAIN nodes}
    BY <1>7
  <2>3. crdIds \subseteq UNION {of(i) : i \in DOMAIN nodes} /\ CsvId(op) \in UNION {of(i) : i \in DOMAIN nodes}
    BY <1>5, <2>2
  <2> DEFINE all == UNION {of(i) : i \in DOMAIN nodes}
  <2>4. all \subseteq {SubId(op), CsvId(op)} \cup crdIds
    BY <2>1
  <2> HIDE DEF all, crdIds
  <2>5. {SubId(op)} \cup all = {SubId(op), CsvId(op)} \cup crdIds
    BY <2>3, <2>4 DEF all
  <2>6. QED
    BY <1>8, <2>5, Zenon DEF all, crdIds, n, nodes

\* What is drawn: the Subscription, the CSV, the boxes of the CRDs.
LEMMA TopologyFacts ==
  ASSUME NEW op \in OperatorInfo
  PROVE  LET n == Len(op.crds)
             nodes == BuildDependencyGraph(op)
         IN  Topology(op) = <<nodes[n + 2]>> \o (<<nodes[n + 1]>> \o Leaves(op))
<1> DEFINE n == Len(op.crds)
           nodes == BuildDependencyGraph(op)
           csv == <<nodes[n + 1]>> \o Leaves(op)
           sub == <<nodes[n + 2]>> \o csv
           ids == Ids(SubId(op), nodes)
           leaf(id) == <<nodes[NodeAt(nodes, id)]>>
           drawing == [id \in ids |-> IF id = SubId(op) THEN sub
                                      ELSE IF id = CsvId(op) THEN csv ELSE leaf(id)]
<1>1. ids = {SubId(op), CsvId(op)} \cup {CrdId(op, e) : e \in 1..n}
  BY IdsFacts
<1>2. /\ SubId(op) # CsvId(op)
      /\ \A e \in 1..n : CrdId(op, e) # SubId(op) /\ CrdId(op, e) # CsvId(op)
  BY DEF SubId, CsvId, CrdId
<1>3. \A e \in 1..n : <<Leaves(op)[e]>> = leaf(CrdId(op, e))
  BY DEF Leaves
<1>4. ASSUME NEW html
      PROVE  /\ \A e \in 1..n : Line(html, nodes, CrdId(op, e)) = <<Leaves(op)[e]>>
             /\ (\A e \in 1..n : html[CrdId(op, e)] = <<Leaves(op)[e]>>)
                  => Line(html, nodes, CsvId(op)) = csv
             /\ html[CsvId(op)] = csv => Line(html, nodes, SubId(op)) = sub
  BY Lines, Zenon
<1> HIDE DEF n, nodes, csv, sub, ids, leaf
<1>5. Draws(drawing, SubId(op), nodes)
  <2>1. /\ drawing[SubId(op)] = sub /\ drawing[CsvId(op)] = csv
        /\ \A e \in 1..n : drawing[CrdId(op, e)] = <<Leaves(op)[e]>>
    BY <1>1, <1>2, <1>3
  <2> HIDE DEF drawing
  <2>2. \A id \in ids : drawing[id] = Line(drawing, nodes, id)
    BY <1>1, <1>4, <2>1
  <2>3. drawing = [id \in ids |-> drawing[id]]
    BY DEF drawing
  <2>4. drawing = [id \in ids |-> Line(drawing, nodes, id)]
    BY <2>2, <2>3
  <2>5. QED
    BY <2>4, Zenon DEF Draws, ids
<1>6. PICK html : /\ Draws(html, SubId(op), nodes)
                  /\ buildTopologyHTML(SubId(op), nodes) = html[SubId(op)]
  <2> HIDE DEF drawing
  <2> QED
    BY <1>5, Drawing, Zenon
<1>7. \A id \in ids : html[id] = Line(html, nodes, id)
  BY <1>6 DEF Draws, ids
<1>8. html[SubId(op)] = sub
  <2>1. \A e \in 1..n : html[CrdId(op, e)] = <<Leaves(op)[e]>>
    BY <1>1, <1>4, <1>7
  <2>2. html[CsvId(op)] = csv
    BY <1>1, <1>4, <1>7, <2>1
  <2>3. QED
    BY <1>1, <1>4, <1>7, <2>2
<1>9. Topology(op) = buildTopologyHTML(SubId(op), nodes)
  <2>1. RootNode(nodes) = n + 2 /\ n \in Nat
    BY PlacesOfNodes, GraphFacts, Zenon DEF n, nodes
  <2>2. nodes[n + 2].id = SubId(op)
    <3>1. nodes[n + 2] = Node("Subscription", op.name, op.phase, <<<<"CSV", op.version>>>>)
      BY GraphFacts, Zenon DEF n, nodes
    <3>2. QED
      BY <3>1 DEF Node, SubId
  <2>3. n + 2 # 0
    BY <2>1
  <2>4. Topology(op) = IF RootNode(nodes) = 0 THEN <<>>
                       ELSE buildTopologyHTML(nodes[RootNode(nodes)].id, nodes)
    BY Zenon DEF Topology, nodes
  <2>5. QED
    BY <2>1, <2>2, <2>3, <2>4, Zenon
<1>10. QED
  BY <1>6, <1>8, <1>9, Zenon DEF n, nodes, csv, sub

(* The topology that is drawn has every node, in its place (remediation.go:*)
(* 32-69, app.js:2070-2121), for any operator with any list of CRDs.       *)
THEOREM TopologyAlwaysWhole == FSpec => []TopologyIsWhole
<1>1. FlowInv => TopologyIsWhole
  <2> SUFFICES ASSUME NEW op \in OperatorInfo
               PROVE  /\ [n \in DOMAIN Topology(op) |-> Topology(op)[n].type] =
                           <<"Subscription", "CSV">> \o [e \in DOMAIN op.crds |-> "CRD"]
                      /\ Cardinality(ProvidedCRDKinds(op)) = Len(op.crds) =>
                           \A e \in DOMAIN op.crds :
                             Topology(op)[e + 2] = Node("CRD", op.crds[e].kind, op.crds[e].active, <<>>)
    <3>1. FlowInv => \A i \in DOMAIN operators : operators[i] \in OperatorInfo
      BY DEF FlowInv, FlowTypeOK
    <3>2. QED
      BY <3>1, Zenon DEF TopologyIsWhole
  <2> DEFINE n == Len(op.crds)
             nodes == BuildDependencyGraph(op)
             leaves == Leaves(op)
             drawn == Topology(op)
  <2>1. n \in Nat /\ DOMAIN op.crds = 1..n
    BY DEF OperatorInfo
  <2>2. PICK X : nodes \in Seq(X)
    BY GraphFacts
  <2>3. /\ Len(nodes) = n + 2
        /\ \A e \in 1..n : nodes[e] = Node("CRD", op.crds[e].kind, op.crds[e].active, <<>>)
        /\ \E c : nodes[n + 1] = Node("CSV", op.version, op.phase, c)
        /\ \E c : nodes[n + 2] = Node("Subscription", op.name, op.phase, c)
    BY GraphFacts, Zenon
  <2>4. \A e \in 1..n : /\ NodeAt(nodes, CrdId(op, e)) \in 1..n
                         /\ op.crds[NodeAt(nodes, CrdId(op, e))].kind = op.crds[e].kind
    BY PlacesOfNodes, Zenon DEF CrdId
  <2>5. leaves = [e \in 1..n |-> nodes[NodeAt(nodes, CrdId(op, e))]]
    BY DEF Leaves
  <2>6. drawn = <<nodes[n + 2]>> \o (<<nodes[n + 1]>> \o leaves)
    BY TopologyFacts, Zenon
  <2> HIDE DEF n, nodes, leaves, drawn
  <2>7. \A type, name, status, children : Node(type, name, status, children).type = type
    BY DEF Node
  <2>8. /\ \A e \in 1..n : nodes[e].type = "CRD"
        /\ nodes[n + 1].type = "CSV" /\ nodes[n + 2].type = "Subscription"
    BY <2>3, <2>7
  <2>9. leaves \in Seq(X) /\ Len(leaves) = n /\ nodes[n + 1] \in X /\ nodes[n + 2] \in X
    <3>1. \A e \in 1..n : nodes[NodeAt(nodes, CrdId(op, e))] \in X
      BY <2>1, <2>2, <2>3, <2>4
    <3>2. leaves \in [1..n -> X]
      BY <2>5, <3>1
    <3>3. nodes[n + 1] \in X /\ nodes[n + 2] \in X
      BY <2>1, <2>2, <2>3
    <3>4. QED
      BY <2>1, <3>2, <3>3
  <2>10. /\ drawn \in Seq(X) /\ Len(drawn) = n + 2
         /\ drawn[1] = nodes[n + 2] /\ drawn[2] = nodes[n + 1]
         /\ \A e \in 1..n : drawn[e + 2] = leaves[e]
    BY <2>6, <2>9, TwoInFront
  <2>11. [i \in DOMAIN drawn |-> drawn[i].type] =
           <<"Subscription", "CSV">> \o [e \in DOMAIN op.crds |-> "CRD"]
    <3> DEFINE words == {"Subscription", "CSV", "CRD"}
               types == [i \in DOMAIN drawn |-> drawn[i].type]
               crd == [e \in DOMAIN op.crds |-> "CRD"]
               list == <<"Subscription", "CSV">> \o crd
    <3>1. crd \in Seq(words) /\ Len(crd) = n /\ \A e \in 1..n : crd[e] = "CRD"
      <4>1. crd \in [1..n -> words]
        BY <2>1
      <4>2. \A e \in 1..n : crd[e] = "CRD"
        BY <2>1
      <4> HIDE DEF crd, words
      <4>3. QED
        BY <2>1, <4>1, <4>2
    <3> DEFINE two == <<"Subscription", "CSV">>
    <3>2. two \in Seq(words) /\ Len(two) = 2 /\ two[1] = "Subscription" /\ two[2] = "CSV"
      OBVIOUS
    <3> HIDE DEF crd, two, words
    <3>3. /\ two \o crd \in Seq(words) /\ Len(two \o crd) = Len(two) + Len(crd)
          /\ \A i \in 1..(Len(two) + Len(crd)) :
               (two \o crd)[i] = IF i <= Len(two) THEN two[i] ELSE crd[i - Len(two)]
      BY <3>1, <3>2, ConcatProperties
    <3>4. list = two \o crd
      BY DEF two
    <3> HIDE DEF list
    <3>5. /\ list \in Seq(words) /\ Len(list) = n + 2
          /\ \A i \in 1..(n + 2) : list[i] = IF i <= 2 THEN two[i] ELSE crd[i - 2]
      BY <2>1, <3>1, <3>2, <3>3, <3>4
    <3>6. DOMAIN drawn = 1..(n + 2) /\ DOMAIN types = 1..(n + 2) /\ DOMAIN list = 1..(n + 2)
      BY <2>1, <2>10, <3>5
    <3>7. \A e \in 1..n : leaves[e].type = "CRD"
      BY <2>4, <2>5, <2>8
    <3>8. ASSUME NEW i \in 1..(n + 2)
          PROVE  drawn[i].type = list[i]
      <4>1. CASE i = 1
        BY <2>8, <2>10, <3>2, <3>5, <4>1
      <4>2. CASE i = 2
        BY <2>8, <2>10, <3>2, <3>5, <4>2
      <4>3. CASE i # 1 /\ i # 2
        <5>1. i - 2 \in 1..n /\ i = (i - 2) + 2 /\ ~(i <= 2)
          BY <2>1, <4>3
        <5>2. drawn[i] = leaves[i - 2]
          BY <2>10, <5>1
        <5>3. list[i] = "CRD"
          BY <3>1, <3>5, <5>1
        <5>4. QED
          BY <3>7, <5>1, <5>2, <5>3
      <4>4. QED
        BY <4>1, <4>2, <4>3
    <3>9. \A i \in 1..(n + 2) : types[i] = list[i]
      BY <3>6, <3>8
    <3>10. types = [i \in 1..(n + 2) |-> types[i]] /\ list = [i \in 1..(n + 2) |-> list[i]]
      <4>1. types = [i \in 1..(n + 2) |-> types[i]]
        BY <3>6
      <4> HIDE DEF types
      <4>2. QED
        BY <3>5, <4>1
    <3> HIDE DEF types
    <3>11. types = list
      BY <3>9, <3>10
    <3>12. QED
      BY <3>11 DEF types, list, crd
  <2>12. ASSUME Cardinality(ProvidedCRDKinds(op)) = Len(op.crds), NEW e \in DOMAIN op.crds
         PROVE  drawn[e + 2] = Node("CRD", op.crds[e].kind, op.crds[e].active, <<>>)
    <3> DEFINE kind == [d \in 1..n |-> op.crds[d].kind]
               kinds == ProvidedCRDKinds(op)
    <3>1. kind \in Surjection(1..n, kinds)
      BY <2>1 DEF Surjection, ProvidedCRDKinds
    <3>2. IsFiniteSet(1..n) /\ Cardinality(1..n) = n
      <4>1. IsFiniteSet(1..n) /\ Cardinality(1..n) = IF 1 > n THEN 0 ELSE n - 1 + 1
        BY <2>1, FS_Interval, 1 \in Int, n \in Int
      <4>2. QED
        BY <2>1, <4>1
    <3>3. \A c, d \in 1..n : op.crds[c].kind = op.crds[d].kind => c = d
      <4>1. Cardinality(kinds) = Cardinality(1..n)
        BY <2>12, <3>2 DEF n
      <4> HIDE DEF kind, kinds
      <4>2. kind \in Injection(1..n, kinds)
        BY <3>1, <3>2, <4>1, FS_Surjection
      <4>3. \A c, d \in 1..n : kind[c] = kind[d] => c = d
        BY <4>2 DEF Injection, IsInjective
      <4>4. QED
        BY <4>3 DEF kind
    <3>4. NodeAt(nodes, CrdId(op, e)) = e
      BY <2>1, <2>4, <3>3
    <3>5. leaves[e] = nodes[e]
      BY <2>1, <2>5, <3>4
    <3>6. QED
      BY <2>1, <2>3, <2>10, <3>5
  <2>13. QED
    BY <2>11, <2>12, Zenon DEF drawn
<1>2. QED
  BY <1>1, FlowInvariance, PTL
=============================================================================
