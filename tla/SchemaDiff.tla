----------------------------- MODULE SchemaDiff -----------------------------
(***************************************************************************)
(* AnalyzeCRDBreakingChanges of operator/pkg/collector/schema_diff.go: the *)
(* schema a CRD has now against the one a MAJOR upgrade brings, and the    *)
(* custom resources that set a field the upgrade removes.  One step is the *)
(* analysis of one CRD; an operator's result is the sum over its CRDs.     *)
(*                                                                         *)
(* A field name is the sequence of its parts between dots, a path the      *)
(* parts of its names one after the other, as in the dotted string.        *)
(***************************************************************************)
EXTENDS Integers, Sequences

CONSTANTS
  SpecProperties,  \* the property maps of schemas, those inside others included
  Specs,           \* the specs of custom resources and the values inside them
  Depth, SpecDepth,  \* how deep each of them is nested
  CRLists,         \* the sets of custom resources that a cluster may have
  Home,            \* the namespace of the operator
  Item             \* the step into the elements of an array

VARIABLES
  input,        \* what the cluster and the catalog showed
  diff          \* CRDDiffResult, paths for strings

dvars == <<input, diff>>

-----------------------------------------------------------------------------
(* A property of a schema is [type, nested, properties], with type "" when *)
(* none is declared; a value of a resource is [map, fields].  A property   *)
(* map and the fields of a value are functions from field names.           *)
(*                                                                         *)
(* nested is the keyword "properties" of an object.  What "items" says of  *)
(* the elements of an array, or "additionalProperties" of the entries of a *)
(* map with free keys, is below a step named Item; a value has it for all  *)
(* its elements together.                                                  *)

NoProperties == << >>

\* Names have no dot; maps are not nested without end; an object has named
\* fields in it, anything else has at most elements.
ASSUME SchemaAssumption ==
  /\ NoProperties \in SpecProperties
  /\ \A m \in SpecProperties :
       /\ Depth[m] \in Nat
       /\ \A n \in DOMAIN m :
            /\ n = <<Head(n)>>
            /\ m[n].properties \in SpecProperties
            /\ Depth[m[n].properties] < Depth[m]
            /\ m[n].nested => <<Item>> \notin DOMAIN m[n].properties
            /\ m[n].nested \/ DOMAIN m[n].properties \subseteq {<<Item>>}
ASSUME SpecAssumption ==
  /\ \A v \in Specs :
       /\ SpecDepth[v] \in Nat
       /\ v.map \/ DOMAIN v.fields \subseteq {<<Item>>}
       /\ \A n \in DOMAIN v.fields :
            /\ n = <<Head(n)>>
            /\ v.fields[n] \in Specs /\ SpecDepth[v.fields[n]] < SpecDepth[v]
  /\ \A crs \in CRLists : \A cr \in crs : cr.spec \in Specs

Mutations(cur, tgt) ==
  {n \in DOMAIN cur \cap DOMAIN tgt :
     cur[n].type # "" /\ tgt[n].type # "" /\ cur[n].type # tgt[n].type}

\* A bug: an object that the target leaves without properties is skipped.
DescendsIfBoth(cur, tgt) ==
  {n \in DOMAIN cur \cap DOMAIN tgt : cur[n].nested /\ tgt[n].nested}

\* The properties whose own properties are compared next.
Descends(cur, tgt) == {n \in DOMAIN cur \cap DOMAIN tgt : cur[n].nested}

\* An object that collapsed in the target counts as one without properties.
Below(tgt, n) ==
  IF n \in DOMAIN tgt /\ tgt[n].nested THEN tgt[n].properties ELSE NoProperties

\* walk, with the prefix put in front by the caller.
Removed[cur \in SpecProperties] ==
  [tgt \in SpecProperties |->
     (DOMAIN cur \ DOMAIN tgt)
       \cup UNION {{n \o p : p \in Removed[cur[n].properties][Below(tgt, n)]} :
                     n \in Descends(cur, tgt)}]

Mutated[cur \in SpecProperties] ==
  [tgt \in SpecProperties |->
     Mutations(cur, tgt)
       \cup UNION {{n \o p : p \in Mutated[cur[n].properties][Below(tgt, n)]} :
                     n \in Descends(cur, tgt)}]

\* A schema is [found, properties], what the version has and whether the
\* analysis gets to it: not when the CRD cannot be read, or its version, the
\* entry in the target CSV or the properties of "spec" are missing.
compareOpenAPISchemas(current, target) ==
  IF current.found /\ target.found
  THEN [removed |-> Removed[current.properties][target.properties],
        mutated |-> Mutated[current.properties][target.properties]]
  ELSE [removed |-> {}, mutated |-> {}]

\* From part to part of the path; current[k] has the value after k parts, if
\* there is one.
hasFieldInSpec(spec, path) ==
  LET Inside(v, part) == IF v.map /\ part \in DOMAIN v.fields THEN {v.fields[part]} ELSE {}
      current[k \in 0..Len(path)] ==
        IF k = 0 THEN {spec} ELSE UNION {Inside(v, <<path[k]>>) : v \in current[k - 1]}
  IN  current[Len(path)] # {}

Listed(i) == IF i.listFails THEN {} ELSE {cr \in i.crs : cr.namespace = Home}

\* Without a custom resource there is no diff either.
Changes(i) == IF Listed(i) = {} THEN [removed |-> {}, mutated |-> {}]
               ELSE compareOpenAPISchemas(i.current, i.target)

AnalyzeCRDBreakingChanges(i) ==
  LET changes == Changes(i)
      violating == {v \in Listed(i) \X changes.removed : hasFieldInSpec(v[1].spec, v[2])}
  IN [removed |-> changes.removed, mutated |-> changes.mutated,
      violating |-> violating, breaking |-> violating # {}]

-----------------------------------------------------------------------------
NoSchema == [found |-> FALSE, properties |-> NoProperties]
Schemas == [found : BOOLEAN, properties : {m \in SpecProperties : <<Item>> \notin DOMAIN m}]

NoInput == [current |-> NoSchema, target |-> NoSchema, crs |-> {}, listFails |-> FALSE]
NoDiff == [removed |-> {}, mutated |-> {}, violating |-> {}, breaking |-> FALSE]

DInit == input = NoInput /\ diff = NoDiff

\* Each sweep starts from an empty CRDDiffResult.
DiffAfresh == input # NoInput /\ input' = NoInput /\ diff' = NoDiff

AnalyzeCRD ==
  /\ input = NoInput
  /\ \E current, target \in Schemas, crs \in CRLists, fails \in BOOLEAN :
       input' = [current |-> current, target |-> target, crs |-> crs, listFails |-> fails]
  /\ diff' = AnalyzeCRDBreakingChanges(input')

DNext == AnalyzeCRD \/ DiffAfresh

DSpec == DInit /\ [][DNext]_dvars

-----------------------------------------------------------------------------
\* All paths of a property map, and all paths that a value sets.
Paths[m \in SpecProperties] ==
  DOMAIN m \cup UNION {{n \o p : p \in Paths[m[n].properties]} : n \in DOMAIN m}

Sets[v \in Specs] ==
  DOMAIN v.fields \cup UNION {{n \o p : p \in Sets[v.fields[n]]} : n \in DOMAIN v.fields}

\* The paths of the schema that the upgrade takes away, and those of them
\* that are among the elements of an array.
Gone == Paths[input.current.properties] \ Paths[input.target.properties]
InElements(p) == \E k \in DOMAIN p : p[k] = Item

\* Both schemas and the custom resources were there to be compared.
Compared == input.current.found /\ input.target.found /\ ~input.listFails

(* Every active resource of the cluster is held against the new schema     *)
(* (the comments at schema_diff.go:30 and 66).                             *)
ActiveCRIsEvaluated ==
  Compared =>
    \A cr \in input.crs : (\E p \in Sets[cr.spec] \cap Gone : ~InElements(p)) =>
      \E path \in diff.removed : <<cr, path>> \in diff.violating
=============================================================================
