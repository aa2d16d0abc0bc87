--------------------------- MODULE PageOperators ----------------------------
(***************************************************************************)
(* What the page knows of an operator, and the ways app.js tells operators *)
(* apart: the inventory is a sequence of them, in the server's order.      *)
(***************************************************************************)
EXTENDS Naturals, Sequences, SequencesExt, Subsequences

\* op.name || op.package.
Id(op) == IF op.name # "" THEN op.name ELSE op.package

\* Array.find: the index of the first operator of that id, 0 if there is none.
First(ops, id) == SelectInSeq(ops, LAMBDA o : Id(o) = id)

\* Array.filter.
Having(ops, P(_)) == Kept(ops, P)

\* The check boxes of the filter panel.
Filter == {"canUpgrade", "failed", "idle", "hasRoutes", "majorUpgrade", "highRisk", "blocked"}

Meets(op, filter) ==
  CASE filter = "canUpgrade"   -> op.can_upgrade
    [] filter = "failed"       -> op.phase = "Failed"
    [] filter = "idle"         -> op.is_idle
    [] filter = "hasRoutes"    -> op.exposed_routes > 0
    [] filter = "majorUpgrade" -> op.upgrade_type = "MAJOR"
    [] filter = "highRisk"     -> op.risk_score >= 50
    [] filter = "blocked"      -> op.phase \in {"Blocked", "RequiresApproval"}

\* op.text: the words found in its name, package, version, namespace, channel.
Matches(op, query) == query = "" \/ query \in op.text

\* The test of applyFilters.
Passes(op, query, filters) ==
  Matches(op, query) /\ \A f \in filters : Meets(op, f)
=============================================================================
