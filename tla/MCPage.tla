------------------------------- MODULE MCPage -------------------------------
(***************************************************************************)
(* The parts of the page side by side: its inventory, the autonomous       *)
(* switch, the grid, the modals, the dependency panel, the sections with   *)
(* the upgrade diagram and the requests of the user.  No two of them share *)
(* a variable, and a behaviour exercises one while the others are in an    *)
(* initial state.                                                          *)
(***************************************************************************)
EXTENDS DashboardPage, AutonomousSwitch, OperatorGrid, PageModals,
        DependencyPanel, UpgradeDiagram, PageRequests

CONSTANTS n1, n2    \* nodes of the dependency graph

Op(n, ns, idle, v) ==
  [name |-> n, package |-> "p", namespace |-> ns, is_idle |-> idle,
   text |-> IF idle THEN {"q"} ELSE {}, version |-> v]

\* Two operators of one name; one more operator than can be compared.
MCInventories ==
  { <<Op("a", 1, TRUE, 1), Op("a", 2, FALSE, 1), Op("b", 1, TRUE, 1),
      Op("c", 1, FALSE, 1), Op("d", 1, FALSE, 1)>>,
    <<Op("b", 1, FALSE, 2), Op("c", 1, TRUE, 2)>> }

\* One that depends on another, one alone, and one that is listed twice.
MCGraphs ==
  { [nodes |-> {n1, n2}, depended |-> {n1}, twins |-> FALSE],
    [nodes |-> {n2}, depended |-> {}, twins |-> FALSE],
    [nodes |-> {n1}, depended |-> {}, twins |-> TRUE] }

\* One choice of what the initial states leave open.
OneModal == modal = "unified"
OneGraph == graph = CHOOSE g \in Graphs : TRUE

MCInit ==
  /\ Init /\ SInit /\ GInit /\ MInit /\ PanelInit /\ UInit /\ QInit
  /\ OneModal \/ OneGraph

Page ==
  /\ SInit /\ GInit /\ MInit /\ PanelInit /\ UInit /\ QInit /\ OneModal /\ OneGraph
  /\ Next /\ UNCHANGED <<svars, gvars, mvars, pvars, uvars, qvars>>

Switch ==
  /\ Init /\ GInit /\ MInit /\ PanelInit /\ UInit /\ QInit /\ OneModal /\ OneGraph
  /\ SNext /\ UNCHANGED <<vars, gvars, mvars, pvars, uvars, qvars>>

Grid ==
  /\ Init /\ SInit /\ MInit /\ PanelInit /\ UInit /\ QInit /\ OneModal /\ OneGraph
  /\ GNext /\ UNCHANGED <<vars, svars, mvars, pvars, uvars, qvars>>

Modals ==
  /\ Init /\ SInit /\ GInit /\ PanelInit /\ UInit /\ QInit /\ OneGraph
  /\ MNext /\ UNCHANGED <<vars, svars, gvars, pvars, uvars, qvars>>

Panel ==
  /\ Init /\ SInit /\ GInit /\ MInit /\ UInit /\ QInit /\ OneModal
  /\ PanelNext /\ UNCHANGED <<vars, svars, gvars, mvars, uvars, qvars>>

Diagram ==
  /\ Init /\ SInit /\ GInit /\ MInit /\ PanelInit /\ QInit /\ OneModal /\ OneGraph
  /\ UNext /\ UNCHANGED <<vars, svars, gvars, mvars, pvars, qvars>>

Requests ==
  /\ Init /\ SInit /\ GInit /\ MInit /\ PanelInit /\ UInit /\ OneModal /\ OneGraph
  /\ QNext /\ UNCHANGED <<vars, svars, gvars, mvars, pvars, uvars>>

MCVars == <<vars, svars, gvars, mvars, pvars, uvars, qvars>>

MCNext == Page \/ Switch \/ Grid \/ Modals \/ Panel \/ Diagram \/ Requests

MCSpec == MCInit /\ [][MCNext]_MCVars /\ Fairness /\ MFairness
=============================================================================
