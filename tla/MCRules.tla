------------------------------- MODULE MCRules ------------------------------
(***************************************************************************)
(* The components whose steps are rules applied to some input, side by     *)
(* side: the leak predictor, the schema diff, the conclusions of the sweep *)
(* and the brain's own inventory.  A behaviour exercises one of them, the  *)
(* others keep their initial state.                                        *)
(***************************************************************************)
EXTENDS LeakWindow, DiffViewer, CardViews, BrainInventory

CONSTANTS f, g, x, home, away, alpha, beta, gamma, delta, K, L

\* What a filter keeps is what SelectSeq keeps.
ASSUME KeptIsSelectSeq ==
  \A s \in UNION {[1..n -> 1..3] : n \in 0..4}, S \in SUBSET (1..3) :
    Kept(s, LAMBDA v : v \in S) = SelectSeq(s, LAMBDA v : v \in S)

-----------------------------------------------------------------------------
(* Schemas with two fields, one of which may be an object or an array.     *)

Leaf(types) == [type : types, nested : {FALSE}, properties : {NoProperties}]

MapsOf(names, values) == UNION {[s -> values] : s \in SUBSET names}

Fields == MapsOf({<<x>>}, Leaf({"string", "integer"}))

Object == [type : {"object"}, nested : {TRUE}, properties : Fields]

\* Arrays of strings, and of objects that have x or nothing.
Elements ==
  MapsOf({<<Item>>},
         Leaf({"string"})
           \cup [type : {"object"}, nested : {TRUE}, properties : {NoProperties} \cup MapsOf({<<x>>}, Leaf({"string"}))])
    \ {NoProperties}
Array == [type : {"array"}, nested : {FALSE}, properties : Elements]

\* f is anything, g a leaf.
Tops == {m \in MapsOf({<<f>>, <<g>>}, Leaf({"", "string", "integer", "object"}) \cup Object \cup Array) :
           /\ <<f>> \in DOMAIN m => m[<<f>>].type # "integer"
           /\ <<g>> \in DOMAIN m => m[<<g>>] \in Leaf({"string", "integer"})}

MCSpecProperties == Tops \cup Elements \cup Fields

MCDepth ==
  [m \in MCSpecProperties |->
     IF m = NoProperties THEN 0
     ELSE IF m \in Fields THEN 1 ELSE IF m \in Elements THEN 2 ELSE 3]

Scalar == [map |-> FALSE, fields |-> << >>]

Values == {Scalar} \cup [map : {TRUE}, fields : MapsOf({<<x>>}, {Scalar})]
Lists == [map : {FALSE}, fields : MapsOf({<<Item>>}, Values) \ {<< >>}]

\* What is nested in a resource is in f, as in the schemas.
CustomSpecs ==
  {Scalar} \cup
    [map : {TRUE},
     fields : {m \in MapsOf({<<f>>, <<g>>}, Values \cup Lists) :
                 <<g>> \in DOMAIN m => m[<<g>>] = Scalar}]

MCSpecs == CustomSpecs \cup Values \cup Lists

MCSpecDepth ==
  [v \in MCSpecs |->
     IF v.fields = << >> THEN 0
     ELSE IF v \in Values THEN 1 ELSE IF v \in Lists THEN 2 ELSE 3]

Nested == [map |-> TRUE, fields |-> [n \in {<<x>>} |-> Scalar]]
Both == [map |-> TRUE, fields |-> [n \in {<<f>>, <<g>>} |-> IF n = <<f>> THEN Nested ELSE Scalar]]

\* One resource at most, or two of which one is as full as can be.
MCCRLists ==
  {{}} \cup {{[namespace |-> n, spec |-> s]} : n \in {home, away}, s \in CustomSpecs}
    \cup {{[namespace |-> home, spec |-> Both], cr} :
             cr \in {[namespace |-> away, spec |-> Both], [namespace |-> home, spec |-> Nested]}}

-----------------------------------------------------------------------------
(* Versions to step between, one of them also written "v1.1.0".            *)

Texts == {Formatted(<<1, 1, 0>>), Formatted(<<2, 0, 0>>),
          [semver |-> <<1, 1, 0>>, plain |-> FALSE]}

Travelling(names, texts) ==
  [name : names, package : {delta}, text : texts,
   head : {NoHead, <<1, 1, 1>>, <<1, 2, 0>>, <<2, 0, 0>>},
   phase : {"Succeeded", "UpgradePending", "Failed"}, crds : {<< >>},
   violated : {TRUE}, routes : {2}]

\* Operators on their way through the versions; beta sets out from "1.1.0".
Travellers == Travelling({alpha}, Texts) \cup Travelling({beta}, {Formatted(<<1, 1, 0>>)})

\* Operators with one or two kinds, or one kind in two versions; beta or gamma
\* may be of the package alpha.
Owners == [name : {alpha, beta, gamma}, package : {alpha, delta},
           text : {Formatted(<<1, 0, 0>>)}, head : {NoHead}, phase : {"Unknown"},
           crds : {<<[kind |-> K, active |-> 0]>>, <<[kind |-> K, active |-> 1]>>,
                   <<[kind |-> L, active |-> 1]>>,
                   <<[kind |-> K, active |-> 0], [kind |-> L, active |-> 1]>>,
                   <<[kind |-> K, active |-> 0], [kind |-> K, active |-> 1]>>},
           violated : {FALSE}, routes : {0}]

MCFound == Travellers \cup Owners

-----------------------------------------------------------------------------
RInit == LInit /\ DInit /\ FInit /\ BInit

Leak == DInit /\ FInit /\ BInit /\ LNext /\ UNCHANGED <<dvars, operators, bvars>>
Diff == LInit /\ FInit /\ BInit /\ DNext /\ UNCHANGED <<lvars, operators, bvars>>
Flow == LInit /\ DInit /\ BInit /\ FNext /\ UNCHANGED <<lvars, dvars, bvars>>
Brain == LInit /\ DInit /\ FInit /\ BNext /\ UNCHANGED <<lvars, dvars, operators>>

RSpec == RInit /\ [][Leak \/ Diff \/ Flow \/ Brain]_<<lvars, dvars, operators, bvars>>
=============================================================================
