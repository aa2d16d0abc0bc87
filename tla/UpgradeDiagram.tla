--------------------------- MODULE UpgradeDiagram ---------------------------
(***************************************************************************)
(* The sections of the page that a click on their heading folds, and the   *)
(* upgrade-flow diagram in one of them, app.js.  A section that folds gets *)
(* the height 0 at once and leaves the layout by a timer of 300 ms; in a   *)
(* section that has left, the diagram has no width and is not drawn, and   *)
(* 100 ms after the section unfolds it is drawn again.  No timer is ever   *)
(* cancelled, and those of different lengths overtake each other.          *)
(*                                                                         *)
(* The sections share nothing but the record that localStorage keeps, so   *)
(* two stand for all.                                                      *)
(***************************************************************************)
EXTENDS Naturals

CONSTANTS
  Flow,         \* the upgrade flows that fetches and snapshots bring
  EmptyFlow,    \* one without nodes
  NoFlow,       \* null
  MaxFolds     \* bound of the model: timers of one kind at once

ASSUME DiagramAssumption == EmptyFlow \in Flow /\ NoFlow \notin Flow /\ MaxFolds \in Nat \ {0}

Section == {"sankeySection", "chartsSection"}

VARIABLES
  saved,        \* localStorage, SECTIONS_STATE_KEY
  sectionsState,
  folded,       \* style.maxHeight is "0px"
  displayed,    \* style.display is not "none"
  folds,        \* of each section: timers that will take it off the layout
  currentUpgradeFlow,
  drawn,        \* the flow that the diagram shows
  redraws,      \* timers that will draw it
  tooltips,     \* tooltips in the document
  pointed       \* the pointer is on a link

layout == <<saved, sectionsState, folded, displayed, folds>>
tips == <<tooltips, pointed>>
uvars == <<layout, currentUpgradeFlow, drawn, redraws, tips>>

\* A page that is loaded.
LoadSectionsState ==
  /\ sectionsState' = saved
  /\ displayed' = saved /\ folded' = [s \in Section |-> ~saved[s]]
  /\ folds' = [s \in Section |-> 0]
  /\ currentUpgradeFlow' = NoFlow /\ drawn' = NoFlow /\ redraws' = 0
  /\ tooltips' = 0 /\ pointed' = FALSE
  /\ UNCHANGED saved

UInit ==
  /\ saved = [s \in Section |-> TRUE] /\ sectionsState = saved
  /\ displayed = saved /\ folded = [s \in Section |-> FALSE]
  /\ folds = [s \in Section |-> 0]
  /\ currentUpgradeFlow = NoFlow /\ drawn = NoFlow /\ redraws = 0
  /\ tooltips = 0 /\ pointed = FALSE

-----------------------------------------------------------------------------
\* Links that are drawn anew are under no pointer; the tooltip is elsewhere.
renderSankeyDiagram(flow) ==
  /\ currentUpgradeFlow' = flow
  /\ IF flow = EmptyFlow \/ displayed["sankeySection"]
     THEN drawn' = flow /\ pointed' = FALSE
     ELSE UNCHANGED <<drawn, pointed>>
  /\ UNCHANGED tooltips

\* Of a fetch, a snapshot on the timeline or the clearing of the timeline.
RenderSankeyDiagram(flow) ==
  /\ renderSankeyDiagram(flow)
  /\ UNCHANGED <<layout, redraws>>

\* The timer of an unfolded diagram.
Redraw ==
  /\ redraws > 0
  /\ redraws' = redraws - 1
  /\ renderSankeyDiagram(currentUpgradeFlow)
  /\ UNCHANGED layout

IsCollapsed(s) == folded[s] \/ ~displayed[s]

\* toggleSection of a section that is folded, or folding.
Expand(s) ==
  /\ IsCollapsed(s)
  /\ displayed' = [displayed EXCEPT ![s] = TRUE] /\ folded' = [folded EXCEPT ![s] = FALSE]
  /\ sectionsState' = [sectionsState EXCEPT ![s] = TRUE] /\ saved' = sectionsState'
  /\ IF s = "sankeySection" /\ currentUpgradeFlow # NoFlow
     THEN redraws < MaxFolds /\ redraws' = redraws + 1
     ELSE UNCHANGED redraws
  /\ UNCHANGED <<folds, currentUpgradeFlow, drawn, tips>>

Collapse(s) ==
  /\ ~IsCollapsed(s) /\ folds[s] < MaxFolds
  /\ folded' = [folded EXCEPT ![s] = TRUE]
  /\ folds' = [folds EXCEPT ![s] = @ + 1]
  /\ sectionsState' = [sectionsState EXCEPT ![s] = FALSE] /\ saved' = sectionsState'
  /\ UNCHANGED <<displayed, currentUpgradeFlow, drawn, redraws, tips>>

\* A bug: the section leaves, whatever was clicked since.
LeaveAnyway(s) ==
  /\ folds[s] > 0
  /\ folds' = [folds EXCEPT ![s] = @ - 1]
  /\ displayed' = [displayed EXCEPT ![s] = FALSE]
  /\ UNCHANGED <<saved, sectionsState, folded, currentUpgradeFlow, drawn, redraws, tips>>

\* The timer of a fold: the section leaves if it is folded now.
Leave(s) ==
  /\ folds[s] > 0
  /\ folds' = [folds EXCEPT ![s] = @ - 1]
  /\ displayed' = [displayed EXCEPT ![s] = @ /\ ~folded[s]]
  /\ UNCHANGED <<saved, sectionsState, folded, currentUpgradeFlow, drawn, redraws, tips>>

-----------------------------------------------------------------------------
\* showSankeyTooltip: the one there is goes first.
ShowTooltip ==
  /\ ~pointed /\ displayed["sankeySection"] /\ drawn \notin {NoFlow, EmptyFlow}
  /\ pointed' = TRUE /\ tooltips' = 1
  /\ UNCHANGED <<layout, currentUpgradeFlow, drawn, redraws>>

\* hideSankeyTooltip, when the pointer leaves a link.
HideTooltip ==
  /\ pointed
  /\ pointed' = FALSE /\ tooltips' = 0
  /\ UNCHANGED <<layout, currentUpgradeFlow, drawn, redraws>>

\* Where a tooltip goes along one axis: behind the pointer, before it when it
\* would come too close to the far edge, and never too close to the near one.
Offset == 15
Edge == 20
Place(client, size, viewport) ==
  LET start == IF client + Offset + size > viewport - Edge
               THEN client - size - Offset ELSE client + Offset
  IN  IF start < Edge THEN Edge ELSE start

UNext ==
  \/ LoadSectionsState \/ Redraw \/ ShowTooltip \/ HideTooltip
  \/ \E flow \in Flow : RenderSankeyDiagram(flow)
  \/ \E s \in Section : Expand(s) \/ Collapse(s) \/ Leave(s)

USpec == UInit /\ [][UNext]_uvars

-----------------------------------------------------------------------------
(* However fast a heading is clicked: what the next load of the page will  *)
(* restore is what the user sees once the timers have run, an open section *)
(* is never taken away by the timer of an earlier fold, and a folded one   *)
(* does not stay in the layout.  A diagram that is in the layout, and will *)
(* not be drawn by a timer, is that of the last upgrade flow, although     *)
(* flows come while it is folded and are not drawn then (app.js:934-951,   *)
(* 1898-1970).                                                             *)
SectionsFollowState ==
  /\ \A s \in Section :
       /\ saved[s] = sectionsState[s] /\ sectionsState[s] = ~IsCollapsed(s)
       /\ folds[s] = 0 => displayed[s] = saved[s]
  /\ ~IsCollapsed("sankeySection") /\ redraws = 0 => drawn = currentUpgradeFlow
=============================================================================
