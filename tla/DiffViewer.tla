----------------------------- MODULE DiffViewer -----------------------------
(***************************************************************************)
(* What crd_diff_viewer.js and a card of app.js make of the result of the  *)
(* schema diff, which SchemaDiff computes.                                 *)
(***************************************************************************)
EXTENDS SchemaDiff, FiniteSets

\* The line between the versions: red with a count, or green with
\* "100% Schema Compatible".
RenderFlowDiagram(d) ==
  [red |-> d.breaking, violations |-> IF d.breaking THEN Cardinality(d.violating) ELSE 0]

\* The rows of the table; without one it says that everything "remains fully
\* compatible".  Fields that are removed or change their type are not shown.
RenderSpecFieldComparison(d) == d.violating

\* A MAJOR upgrade's card: the red box with its rows, or the safe projection.
CardRows(d) == IF d.breaking /\ d.violating # {} THEN d.violating ELSE {}

-----------------------------------------------------------------------------
\* What a path is in, outermost first, and the gone paths that are in none.
Around(p) == {SubSeq(p, 1, k) : k \in 1..(Len(p) - 1)}
Topmost == {p \in Gone : Around(p) \cap Gone = {}}

\* A resource and a path it sets, however deep, that the target has not.
Losses == {l \in input.crs \X Gone : l[2] \in Sets[l[1].spec]}

\* What the analysis compares: its own namespace, when the list and both
\* schemas could be read, and no elements of arrays (schema_diff.go:79-95,
\* 217).  Of the rest the screen says "compatible".
Seen(l) == Compared /\ l[1].namespace = Home /\ ~InElements(l[2])

(* From the cluster to the screen: the table has one row for every path    *)
(* that a resource of the operator's namespace sets and the upgrade takes  *)
(* away, at the outermost of them, and no other row; so every loss that    *)
(* the analysis compares is told of by its own row or one it is below; the *)
(* card has the same rows, the line is red when there is one and counts    *)
(* them (schema_diff.go:66-120, 186-250; app.js:1488-1517;                 *)
(* crd_diff_viewer.js:42-119).                                             *)
ShownIffPathIsGone ==
  LET rows == RenderSpecFieldComparison(diff)
  IN  /\ rows = {l \in Losses : Seen(l) /\ l[2] \in Topmost}
      /\ \A l \in Losses :
           Seen(l) => \E row \in rows : row[1] = l[1] /\ row[2] \in Around(l[2]) \cup {l[2]}
      /\ CardRows(diff) = rows
      /\ RenderFlowDiagram(diff).red <=> rows # {}
      /\ RenderFlowDiagram(diff).violations = Cardinality(rows)

(* crd_diff_viewer.js:86: without a breach "all specs and custom resource  *)
(* instances defined on the cluster remain fully compatible": no resource  *)
(* sets a field whose type changes.                                        *)
CompatibleMeansCompatible ==
  RenderSpecFieldComparison(diff) = {} =>
    \A cr \in Listed(input) : Sets[cr.spec] \cap diff.mutated = {}
=============================================================================
