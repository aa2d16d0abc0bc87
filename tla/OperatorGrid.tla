---------------------------- MODULE OperatorGrid ----------------------------
(***************************************************************************)
(* The operator grid of app.js: the search box and the filters, the cards  *)
(* with their quick-action menus and remediation buttons, the comparison   *)
(* mode and the exports.                                                   *)
(*                                                                         *)
(* Everything on a card is made anew by every renderGrid; what the browser *)
(* does by itself in between, like ticking a box that is clicked, is part  *)
(* of the actions.                                                         *)
(***************************************************************************)
EXTENDS PageOperators

CONSTANTS
  Inventories,  \* bound of the model: the inventories that fetches bring
  Query,        \* what may be typed into the search box
  CheckBox      \* bound of the model: the filters that are used

ASSUME GridAssumption ==
  /\ \A ops \in Inventories : IsSequence(ops)
  /\ "" \in Query /\ CheckBox \subseteq Filter

VARIABLES
  allOperators, filteredOperators,
  search, checked,          \* the search box, the filters that are checked
  searchDebounceTimer,      \* a search waits for its 300 ms
  comparisonMode, selectedForComparison,
  autonomousModeEnabled,
  cards,        \* the grid, card by card
  gridFailed    \* the grid shows the error of a fetch instead

inputs == <<search, checked, searchDebounceTimer>>
comparison == <<comparisonMode, selectedForComparison>>
gvars == <<allOperators, filteredOperators, inputs, comparison,
           autonomousModeEnabled, cards, gridFailed>>

GInit ==
  /\ allOperators = <<>> /\ filteredOperators = <<>>
  /\ search = "" /\ checked = {} /\ searchDebounceTimer = FALSE
  /\ comparisonMode = FALSE /\ selectedForComparison = <<>>
  /\ autonomousModeEnabled = TRUE
  /\ cards = <<>> /\ gridFailed = FALSE

-----------------------------------------------------------------------------
IsSelected(selected, id) == First(selected, id) # 0

\* A card, its menu closed; applyAutonomousModeState sees to its buttons.
Card(op) ==
  [op |-> op, ticked |-> comparisonMode' /\ IsSelected(selectedForComparison', Id(op)),
   menu |-> FALSE, live |-> autonomousModeEnabled']

renderGrid ==
  /\ cards' = [i \in DOMAIN filteredOperators' |-> Card(filteredOperators'[i])]
  /\ gridFailed' = FALSE

applyFilters ==
  /\ filteredOperators' =
       Having(allOperators', LAMBDA op : Passes(op, search', checked'))
  /\ renderGrid

\* A bug: the inventory is rendered as it came.
FetchedUnfiltered ==
  /\ \E ops \in Inventories : allOperators' = ops /\ filteredOperators' = ops
  /\ UNCHANGED <<inputs, comparison, autonomousModeEnabled>>
  /\ renderGrid

\* The end of fetchTargets, with data or in its catch.
Fetched ==
  /\ \E ops \in Inventories : allOperators' = ops
  /\ UNCHANGED <<inputs, comparison, autonomousModeEnabled>>
  /\ applyFilters

FetchFails ==
  /\ cards' = <<>> /\ gridFailed' = TRUE
  /\ UNCHANGED <<allOperators, filteredOperators, inputs, comparison, autonomousModeEnabled>>

\* handleSearch: the timer starts again with every key.
HandleSearch ==
  /\ \E q \in Query \ {search} : search' = q
  /\ searchDebounceTimer' = TRUE
  /\ UNCHANGED <<allOperators, filteredOperators, checked, comparison,
                 autonomousModeEnabled, cards, gridFailed>>

DebounceEnds ==
  /\ searchDebounceTimer
  /\ searchDebounceTimer' = FALSE
  /\ UNCHANGED <<allOperators, search, checked, comparison, autonomousModeEnabled>>
  /\ applyFilters

\* A check box filters at once, with whatever the search box holds by then.
CheckFilter(f) ==
  /\ checked' = IF f \in checked THEN checked \ {f} ELSE checked \cup {f}
  /\ UNCHANGED <<allOperators, search, searchDebounceTimer, comparison, autonomousModeEnabled>>
  /\ applyFilters

-----------------------------------------------------------------------------
\* A bug: the mode ends and the selection stays.
ToggleKeepsSelection ==
  /\ comparisonMode' = ~comparisonMode
  /\ UNCHANGED <<allOperators, filteredOperators, inputs, selectedForComparison,
                 autonomousModeEnabled>>
  /\ renderGrid

ToggleComparisonMode ==
  /\ comparisonMode' = ~comparisonMode /\ selectedForComparison' = <<>>
  /\ UNCHANGED <<allOperators, filteredOperators, inputs, autonomousModeEnabled>>
  /\ renderGrid

MaxCompared == 3

\* selectForComparison, of a click on the box of a card: at the limit there is
\* an alert, and the box stays as the browser has just set it.
RefuseTick(i) ==
  /\ comparisonMode
  /\ Len(selectedForComparison) >= MaxCompared
  /\ ~IsSelected(selectedForComparison, Id(cards[i].op))
  /\ cards' = [cards EXCEPT ![i].ticked = ~@]
  /\ UNCHANGED <<allOperators, filteredOperators, inputs, comparison,
                 autonomousModeEnabled, gridFailed>>

Chosen(id) ==
  IF First(allOperators, id) = 0 THEN <<>> ELSE <<allOperators[First(allOperators, id)]>>

SelectForComparison(i) ==
  /\ comparisonMode
  /\ LET id == Id(cards[i].op)
         at == First(selectedForComparison, id)
     IN  IF at # 0
         THEN selectedForComparison' = RemoveAt(selectedForComparison, at)
         ELSE /\ Len(selectedForComparison) < MaxCompared
              /\ selectedForComparison' = selectedForComparison \o Chosen(id)
  /\ UNCHANGED <<allOperators, filteredOperators, inputs, comparisonMode, autonomousModeEnabled>>
  /\ renderGrid

\* toggleQuickActions: the document has one element of that id to find, the
\* menu of the first card; menus of other ids are closed.
ToggleQuickActions(i) ==
  /\ LET id == Id(cards[i].op)
         first == SelectInSeq(cards, LAMBDA c : Id(c.op) = id)
     IN  cards' = [j \in DOMAIN cards |->
                     [cards[j] EXCEPT !.menu = IF j = first THEN ~@
                                               ELSE @ /\ Id(cards[j].op) = id]]
  /\ UNCHANGED <<allOperators, filteredOperators, inputs, comparison,
                 autonomousModeEnabled, gridFailed>>

\* A click on anything that lets it through to the document.
ClickElsewhere ==
  /\ \E i \in DOMAIN cards : cards[i].menu
  /\ cards' = [i \in DOMAIN cards |-> [cards[i] EXCEPT !.menu = FALSE]]
  /\ UNCHANGED <<allOperators, filteredOperators, inputs, comparison,
                 autonomousModeEnabled, gridFailed>>

\* toggleAutonomousMode, for the buttons of the grid: applyAutonomousModeState.
SwitchAutonomousMode ==
  /\ autonomousModeEnabled' = ~autonomousModeEnabled
  /\ cards' = [i \in DOMAIN cards |-> [cards[i] EXCEPT !.live = autonomousModeEnabled']]
  /\ UNCHANGED <<allOperators, filteredOperators, inputs, comparison, gridFailed>>

GNext ==
  \/ Fetched \/ FetchFails \/ HandleSearch \/ DebounceEnds
  \/ \E f \in CheckBox : CheckFilter(f)
  \/ ToggleComparisonMode \/ ClickElsewhere \/ SwitchAutonomousMode
  \/ \E i \in DOMAIN cards : SelectForComparison(i) \/ RefuseTick(i) \/ ToggleQuickActions(i)

GSpec == GInit /\ [][GNext]_gvars

-----------------------------------------------------------------------------
\* exportAsJSON, exportAsCSV: every operator; exportAsPDF: the first twenty.
PdfRows == 20
Exported(format) ==
  IF format = "pdf" /\ Len(filteredOperators) > PdfRows
  THEN SubSeq(filteredOperators, 1, PdfRows) ELSE filteredOperators

OnCards == [i \in DOMAIN cards |-> cards[i].op]

(* Through fetches that come while a search waits, filters set during that *)
(* wait, and errors that are typed over: the cards are the operators of    *)
(* the last inventory that pass what the search box and the filters hold,  *)
(* and an export has just these (app.js:1308-1373, 2211-2323).             *)
GridIsTheFilter ==
  ~gridFailed =>
    /\ \A format \in {"json", "csv"} : Exported(format) = OnCards
    /\ ~searchDebounceTimer =>
         OnCards = Having(allOperators, LAMBDA op : Passes(op, search, checked))

(* The cards keep up with the page, whichever inventories, filters and     *)
(* errors come between the clicks: what is ticked is what will be compared *)
(* (ticks and selection differ only while three operators are selected, by *)
(* the boxes refused since then); one menu is open at a time, operators of *)
(* one name included, although it may be that of another card than the one *)
(* clicked; the remediation buttons are live just when the switch is on    *)
(* (app.js:1426-1432, 1721-1741, 1834-1839, 2344-2393, 2454-2466).         *)
CardsAreCurrent ==
  /\ Len(selectedForComparison) <= MaxCompared
  /\ ~comparisonMode => selectedForComparison = <<>>
  /\ Len(selectedForComparison) < MaxCompared =>
       \A i \in DOMAIN cards :
         cards[i].ticked <=> IsSelected(selectedForComparison, Id(cards[i].op))
  /\ \A i, j \in DOMAIN cards : cards[i].menu /\ cards[j].menu => i = j
  /\ \A i \in DOMAIN cards : cards[i].live <=> autonomousModeEnabled
=============================================================================
