--------------------------- MODULE DependencyPanel --------------------------
(***************************************************************************)
(* The dependency graph of app.js: the section that loads and draws it     *)
(* each time it is opened, and the impact analysis of one operator, asked  *)
(* by a click on a node or by its name.                                    *)
(*                                                                         *)
(* Requests overlap and are answered in any order.  The page looks at no   *)
(* status: the error that the server sends for one that is not logged in,  *)
(* or whose operator is not reached, is a JSON object like any other.      *)
(***************************************************************************)
EXTENDS Naturals, FiniteSets

CONSTANTS
  Graphs,       \* the graphs of the server, each [nodes, depended, twins]
  NoGraph, Refused,  \* null, and the object { error: ... }
  Load, Question,    \* bounds of the model: requests under way at a time
  Operator      \* bound of the model: the operators

ASSUME GraphAssumption ==
  /\ \A g \in Graphs : g.depended \subseteq g.nodes /\ g.nodes \subseteq Operator
  /\ NoGraph \notin Graphs /\ Refused \notin Graphs /\ NoGraph # Refused

VARIABLES
  graph,        \* the graph that the server has now
  sectionOpen,
  load,         \* requests of the graph: [at, data]
  dependencyGraphData,
  dependencyNetwork,    \* the graph the network was made of
  panel,        \* what #dependencyGraph shows: nothing, the network, an error
  question,     \* requests of an analysis: [about, answer]
  impact        \* what the modal shows: [about, answer]

impacts == <<question, impact>>
drawing == <<dependencyGraphData, dependencyNetwork, panel>>
pvars == <<graph, sectionOpen, load, drawing, impacts>>

Idle == [about |-> "none", answer |-> "unused"]

Unloaded == [at |-> "unused", data |-> NoGraph]

PanelInit ==
  /\ graph \in Graphs
  /\ sectionOpen = FALSE
  /\ load = [l \in Load |-> Unloaded]
  /\ dependencyGraphData = NoGraph /\ dependencyNetwork = NoGraph /\ panel = "empty"
  /\ question = [q \in Question |-> Idle]
  /\ impact = Idle

-----------------------------------------------------------------------------
\* Closing the section cancels nothing; opening it asks again.
ToggleDependencyGraph ==
  /\ sectionOpen' = ~sectionOpen
  /\ IF sectionOpen THEN UNCHANGED load
     ELSE \E l \in Load : load[l] = Unloaded /\ load' = [load EXCEPT ![l].at = "sent"]
  /\ UNCHANGED <<graph, drawing, impacts>>

\* A bug: a network that is there already is not made anew.
RenderOnce(g) ==
  /\ dependencyNetwork' = IF dependencyNetwork = NoGraph THEN g ELSE dependencyNetwork
  /\ panel' = "network"

\* vis.js replaces what the element shows.
RenderDependencyGraph(g) == dependencyNetwork' = g /\ panel' = "network"

\* The element shows the message, but the variable keeps the network.
FailedToLoad == panel' = "failed" /\ UNCHANGED dependencyNetwork

\* An error object has no nodes; vis.js refuses two nodes of one id.
Drawable(data) == data # Refused /\ ~data.twins

LoadDependencyGraph(l) ==
  /\ load[l].at = "served"
  /\ dependencyGraphData' = load[l].data
  /\ IF Drawable(load[l].data) THEN RenderDependencyGraph(load[l].data) ELSE FailedToLoad
  /\ load' = [load EXCEPT ![l] = Unloaded]
  /\ UNCHANGED <<graph, sectionOpen, impacts>>

\* No connection, or a body that does not parse: the data stay.
LoadFails(l) ==
  /\ load[l] # Unloaded
  /\ FailedToLoad
  /\ load' = [load EXCEPT ![l] = Unloaded]
  /\ UNCHANGED <<graph, sectionOpen, dependencyGraphData, impacts>>

ServeGraph(l) ==
  /\ load[l].at = "sent"
  /\ \E answer \in {graph, Refused} :
       load' = [load EXCEPT ![l] = [at |-> "served", data |-> answer]]
  /\ UNCHANGED <<graph, sectionOpen, drawing, impacts>>

-----------------------------------------------------------------------------
\* showOperatorImpact, up to its request.
Ask(operator) ==
  /\ \E q \in Question :
       question[q] = Idle /\ question' = [question EXCEPT ![q] = [about |-> operator, answer |-> "sent"]]
  /\ UNCHANGED <<graph, sectionOpen, load, drawing, impact>>

\* A click on a node of the network.
ClickNode(operator) ==
  panel = "network" /\ operator \in dependencyNetwork.nodes /\ Ask(operator)

\* analyzeDependencyImpact, which accepts a name of the last data only.
AnalyzeDependencyImpact(operator) ==
  /\ dependencyGraphData \notin {NoGraph, Refused}
  /\ operator \in dependencyGraphData.nodes
  /\ Ask(operator)

\* AnalyzeOperatorImpact, in short; an operator that is gone has nobody.
Analysis(operator) == IF operator \in graph.depended THEN "dependents" ELSE "nobody"

ServeImpact(q) ==
  /\ question[q].answer = "sent"
  /\ \E answer \in {Analysis(question[q].about), "refused"} :
       question' = [question EXCEPT ![q].answer = answer]
  /\ UNCHANGED <<graph, sectionOpen, load, drawing, impact>>

\* The modal shows the answer that came last.
ShowOperatorImpact(q) ==
  /\ question[q].answer \in {"dependents", "nobody", "refused"}
  /\ impact' = question[q]
  /\ question' = [question EXCEPT ![q] = Idle]
  /\ UNCHANGED <<graph, sectionOpen, load, drawing>>

\* An alert.
ImpactFails(q) ==
  /\ question[q] # Idle
  /\ question' = [question EXCEPT ![q] = Idle]
  /\ UNCHANGED <<graph, sectionOpen, load, drawing, impact>>

\* The server (external).
GraphMoves ==
  /\ \E g \in Graphs \ {graph} : graph' = g
  /\ UNCHANGED <<sectionOpen, load, drawing, impacts>>

PanelNext ==
  \/ ToggleDependencyGraph \/ GraphMoves
  \/ \E l \in Load : LoadDependencyGraph(l) \/ LoadFails(l) \/ ServeGraph(l)
  \/ \E o \in Operator : ClickNode(o) \/ AnalyzeDependencyImpact(o)
  \/ \E q \in Question : ServeImpact(q) \/ ShowOperatorImpact(q) \/ ImpactFails(q)

PanelSpec == PanelInit /\ [][PanelNext]_pvars

-----------------------------------------------------------------------------
\* The text of the modal, when no list of dependents is in the answer.
SaysSafe == impact # Idle /\ impact.answer # "dependents"

\* The operators that a click or a name can ask about.
Clickable == IF panel = "network" THEN dependencyNetwork.nodes ELSE {}
Nameable == IF dependencyGraphData \in {NoGraph, Refused} THEN {}
            ELSE dependencyGraphData.nodes

(* Through loads that overlap and end in any way: when a network is seen   *)
(* it is that of the last data, so that a click and a name reach the same  *)
(* operators; after a load that brought an error no name is accepted, and  *)
(* none is clickable (app.js:2878-3008, 3131-3152).                        *)
OfferedIsDrawn ==
  /\ panel = "network" => dependencyNetwork = dependencyGraphData /\ Clickable = Nameable
  /\ dependencyGraphData = Refused => Clickable = {}

(* app.js:3095, the text of the modal: safe to remove, no operators depend *)
(* on this one.                                                            *)
SafeOnlyIfAnalysed == SaysSafe => impact.answer = "nobody"
=============================================================================
