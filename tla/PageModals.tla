----------------------------- MODULE PageModals -----------------------------
(***************************************************************************)
(* The modals of app.js and crd_diff_viewer.js as overlays: a modal covers *)
(* the page unless it has the class "hidden", and is seen unless it has    *)
(* the class "opacity-0".  Opening takes the first class away at once and  *)
(* the second by a timer of 10 ms; closing adds the second at once and the *)
(* first by a timer of 200 ms.  No timer is ever cancelled.                *)
(*                                                                         *)
(* The modals share nothing, so a behaviour follows one of them.           *)
(***************************************************************************)
EXTENDS Naturals, Sequences, SequencesExt

CONSTANTS
  Listed,       \* bound of the model: the ids that buttons and nodes name
  MaxTimers     \* bound of the model: timers of a modal at once

ASSUME ModalAssumption == MaxTimers \in Nat \ {0}

Modal == {"unified", "logo", "topology", "export", "comparison", "cve", "impact", "crdDiff"}

VARIABLES
  modal,        \* the one that is followed
  hidden, transparent,  \* its classes
  timers,       \* "show" and "hide", in the order in which they were set
  asked,        \* it was opened last, not closed
  hasty,        \* opened with a "hide" still under way
  inventory     \* currentOperatorData: the ids that are found in it

mvars == <<modal, hidden, transparent, timers, asked, hasty, inventory>>

Fades == modal # "crdDiff"

MInit ==
  /\ modal \in Modal
  /\ hidden = TRUE /\ transparent = Fades
  /\ timers = <<>> /\ asked = FALSE /\ hasty = FALSE
  /\ inventory = {}

-----------------------------------------------------------------------------
\* A bug: the timer that makes it visible is missing.
ShowNothing ==
  /\ Len(timers) < MaxTimers
  /\ hidden' = FALSE
  /\ asked' = TRUE /\ hasty' = ("hide" \in ToSet(timers))
  /\ UNCHANGED <<modal, transparent, timers, inventory>>

Show ==
  /\ Len(timers) < MaxTimers
  /\ hidden' = FALSE /\ timers' = IF Fades THEN Append(timers, "show") ELSE timers
  /\ asked' = TRUE /\ hasty' = ("hide" \in ToSet(timers))
  /\ UNCHANGED <<modal, transparent, inventory>>

\* A bug: a modal that is not visible yet is not closed.
HideIfSeen ==
  /\ ~hidden /\ Len(timers) < MaxTimers
  /\ IF transparent THEN UNCHANGED <<transparent, timers>>
                    ELSE transparent' = TRUE /\ timers' = Append(timers, "hide")
  /\ asked' = FALSE
  /\ UNCHANGED <<modal, hidden, hasty, inventory>>

Hide ==
  /\ ~hidden /\ Len(timers) < MaxTimers
  /\ transparent' = TRUE /\ timers' = Append(timers, "hide")
  /\ asked' = FALSE
  /\ UNCHANGED <<modal, hidden, hasty, inventory>>

\* A timer runs before the later ones, but for the "show" that overtakes
\* the "hide" set within the 190 ms before it.
Fires(i) ==
  /\ timers[i] = "show" => \A j \in 1..(i - 1) : timers[j] = "hide"
  /\ timers[i] = "hide" => i = 1
  /\ timers' = RemoveAt(timers, i)
  /\ IF timers[i] = "show" THEN transparent' = FALSE /\ UNCHANGED hidden
                           ELSE hidden' = TRUE /\ UNCHANGED transparent
  /\ UNCHANGED <<modal, asked, hasty, inventory>>

-----------------------------------------------------------------------------
\* Metrics and components share a modal; the buttons of a list and of the
\* cards name an operator, which the inventory may have lost by now.
OpenMetricModal == modal = "unified" /\ Show

OpenComponentModal == modal = "unified" /\ \E id \in Listed : id \in inventory /\ Show

OpenTopologyModal == modal = "topology" /\ \E id \in Listed : id \in inventory /\ Show

OpenLogoModal == modal = "logo" /\ Show

OpenExportModal == modal = "export" /\ Show

OpenComparisonModal == modal = "comparison" /\ Show

\* With or without the operator: it says "No CVEs found" then.
OpenCVEModal == modal = "cve" /\ Show

\* The end of showOperatorImpact.
ShowImpact == modal = "impact" /\ Show

RenderCRDDiffModal == modal = "crdDiff" /\ \E id \in Listed : id \in inventory /\ Show

CloseMetricModal == modal = "unified" /\ Hide

\* Of a click on the backdrop or the button, not of one inside.
CloseTopologyModal == modal = "topology" /\ Hide

CloseLogoModal == modal = "logo" /\ Hide

\* Of a click, and at the end of each export.
CloseExportModal == modal = "export" /\ Hide

CloseComparisonModal == modal = "comparison" /\ Hide

CloseCVEModal == modal = "cve" /\ Hide

CloseImpactModal == modal = "impact" /\ Hide

CloseCRDDiffModal ==
  /\ modal = "crdDiff" /\ ~hidden
  /\ hidden' = TRUE /\ asked' = FALSE
  /\ UNCHANGED <<modal, transparent, timers, hasty, inventory>>

\* A fetch brings an inventory; a modal that is open keeps what it shows.
NewInventory ==
  /\ \E s \in SUBSET Listed : s # inventory /\ inventory' = s
  /\ UNCHANGED <<modal, hidden, transparent, timers, asked, hasty>>

Timers == \E i \in DOMAIN timers : Fires(i)

MNext ==
  \/ OpenMetricModal \/ OpenComponentModal \/ OpenTopologyModal \/ OpenLogoModal
  \/ OpenExportModal \/ OpenComparisonModal \/ OpenCVEModal \/ ShowImpact \/ RenderCRDDiffModal
  \/ CloseMetricModal \/ CloseTopologyModal \/ CloseLogoModal \/ CloseExportModal
  \/ CloseComparisonModal \/ CloseCVEModal \/ CloseImpactModal \/ CloseCRDDiffModal
  \/ NewInventory \/ Timers

\* Browsers run their timers.
MFairness == WF_mvars(Timers)

MSpec == MInit /\ [][MNext]_mvars /\ MFairness

-----------------------------------------------------------------------------
(* No modal stays over the page unseen, swallowing every click: one that   *)
(* is neither hidden nor visible has a timer that will make it one of the  *)
(* two, however opening and closing overlap; and one that is opened while  *)
(* no timer of a close is under way stays until it is closed.  One opened  *)
(* within 200 ms of a close is hidden by the timer of that close           *)
(* (app.js:537-580, 2121-2209, 2434-2452, 2844-2857, 3110-3129).           *)
NoInvisibleOverlay ==
  /\ ~hidden /\ transparent => timers # <<>>
  /\ asked /\ ~hasty => ~hidden

(* A modal that is closed for good goes, also when it was closed before it *)
(* could be seen (app.js:546-557).                                         *)
ClosedGoesAway == <>[]~asked => <>[]hidden
=============================================================================
