--------------------------- MODULE DashboardPage ----------------------------
(***************************************************************************)
(* The inventory page of dashboard/static/app.js: it fetches the inventory *)
(* when it is opened, on a timer and on a button, keeps a copy in          *)
(* localStorage, and keeps the last upgrade-flow diagrams for a timeline   *)
(* that the user slides through.                                           *)
(*                                                                         *)
(* Callbacks run one at a time; between the request of a fetch and its     *)
(* answer anything may happen, other fetches included, and answers may     *)
(* come in any order.  An inventory is its number: the server, which is    *)
(* external, moves from one to the next.  It has an upgrade flow with      *)
(* nodes, one without (an operator that has just restarted), or none.      *)
(* A 304 is the browser's business and never reaches the page, which sets  *)
(* no conditional header.                                                  *)
(***************************************************************************)
EXTENDS Naturals, Sequences

CONSTANTS
  Fetch,        \* fetches under way at the same time
  MaxSnapshots, \* MAX_HISTORY_ITEMS
  MaxInventory, \* bound of the model: inventories of the server
  Track,        \* bound of the model: the places of the track, 0..Track
  WithNodes,    \* the inventories whose upgrade_flow has nodes
  WithoutNodes  \* those whose upgrade_flow has no nodes; others have none

ASSUME PageAssumption ==
  /\ MaxSnapshots \in Nat \ {0} /\ MaxInventory \in Nat \ {0} /\ Track \in Nat \ {0}
  /\ WithNodes \subseteq 1..MaxInventory /\ WithoutNodes \subseteq 1..MaxInventory
  /\ WithNodes \cap WithoutNodes = {}

\* No inventory, no cached copy, no diagram, or its words "No upgrade flow data
\* available"; inventories are 1..MaxInventory.
Nothing == 0

VARIABLES
  server,       \* the inventory the server answers with
  cache,        \* localStorage, CACHE_KEY: [data, fresh]
  snapshots,    \* localStorage, SANKEY_HISTORY_KEY, newest first
  open,         \* the page is there; not so after a redirect to the login
  fetch,        \* each fetch: [at, data, late]; late: overtaken by another answer
  shown,        \* currentOperatorData
  broken,       \* the grid shows the error instead
  refreshing,   \* currentInterval > 0
  ticking,      \* intervals of the page that are running
  timer,        \* timerId names one of them
  due,          \* countdown <= 0
  diagram,      \* currentUpgradeFlow, the inventory that the diagram shows
  slider,       \* currentHistoryIndex, counted from 1
  scrubber      \* where the handle is on the track: 0 the oldest end

clock == <<refreshing, ticking, timer, due>>
screen == <<shown, broken, diagram, slider, scrubber>>
vars == <<server, cache, snapshots, open, fetch, screen, clock>>

NoCache == [data |-> Nothing, fresh |-> FALSE]

Unused == [at |-> "unused", data |-> Nothing, late |-> FALSE]

Init ==
  /\ server = 1
  /\ cache = NoCache /\ snapshots = <<>>
  /\ open = FALSE
  /\ fetch = [f \in Fetch |-> Unused]
  /\ shown = Nothing /\ broken = FALSE /\ diagram = Nothing
  /\ slider = 1 /\ scrubber = Track
  /\ refreshing = TRUE /\ ticking = 0 /\ timer = FALSE /\ due = FALSE

-----------------------------------------------------------------------------
(* The steps the callbacks are made of.                                    *)

\* A bug: the running interval is not cleared.
StartAnotherTimer(on) ==
  /\ refreshing' = on /\ timer' = on /\ due' = FALSE
  /\ ticking' = ticking + (IF on THEN 1 ELSE 0)

\* startAutoRefresh, with currentInterval > 0 or "Off".
StartAutoRefresh(on) ==
  /\ refreshing' = on /\ timer' = on /\ due' = FALSE
  /\ ticking' = (IF timer THEN ticking - 1 ELSE ticking) + (IF on THEN 1 ELSE 0)

\* A bug: the newest snapshot goes to the other end.
SaveLast(s, data) ==
  IF data \notin WithNodes THEN s
  ELSE IF Len(s) = MaxSnapshots THEN Append(Tail(s), data) ELSE Append(s, data)

\* saveSankeySnapshot of a flow with nodes: unshift, then splice off the oldest.
SaveSankeySnapshot(s, data) ==
  LET longer == <<data>> \o s
  IN  IF data \notin WithNodes THEN s
      ELSE IF Len(longer) > MaxSnapshots THEN SubSeq(longer, 1, MaxSnapshots) ELSE longer

\* renderSankeyDiagram after a diagram; not called without a flow.
Drawn(data, before) ==
  IF data \in WithNodes THEN data ELSE IF data \in WithoutNodes THEN Nothing ELSE before

\* renderHistoryTimeline: the timeline is back at its newest end.
RenderHistoryTimeline == slider' = 1 /\ scrubber' = Track

\* The end of fetchTargets with data: everything on screen, the timeline only
\* with a new snapshot, and the countdown from the start.
ShowInventory(data) ==
  /\ shown' = data /\ broken' = FALSE
  /\ snapshots' = SaveSankeySnapshot(snapshots, data)
  /\ diagram' = Drawn(data, diagram)
  /\ IF data \in WithNodes THEN RenderHistoryTimeline ELSE UNCHANGED <<slider, scrubber>>
  /\ StartAutoRefresh(refreshing)

\* A bug: the error leaves the timer as it is.
ShowErrorOnly ==
  /\ broken' = TRUE
  /\ UNCHANGED <<snapshots, shown, diagram, slider, scrubber, clock>>

\* The end of fetchTargets in its catch.
ShowError ==
  /\ broken' = TRUE
  /\ StartAutoRefresh(refreshing)
  /\ UNCHANGED <<snapshots, shown, diagram, slider, scrubber>>

\* fetch(url) is called.
Request(f) ==
  /\ fetch[f] = Unused
  /\ fetch' = [fetch EXCEPT ![f].at = "sent"]

-----------------------------------------------------------------------------
(* The callbacks.                                                          *)

\* DOMContentLoaded, of a new page or of location.reload() a second after an
\* action: what was under way is gone.  The cached copy serves for 30 s.
Open ==
  /\ open' = TRUE
  /\ IF cache.fresh
     THEN /\ shown' = cache.data /\ diagram' = Drawn(cache.data, Nothing)
          /\ snapshots' = SaveSankeySnapshot(snapshots, cache.data)
          /\ fetch' = [f \in Fetch |-> Unused]
          /\ ticking' = 1 /\ timer' = TRUE
     ELSE /\ shown' = Nothing /\ diagram' = Nothing
          /\ \E f \in Fetch :
               fetch' = [[g \in Fetch |-> Unused] EXCEPT ![f].at = "sent"]
          /\ ticking' = 0 /\ timer' = FALSE
          /\ UNCHANGED snapshots
  /\ broken' = FALSE /\ RenderHistoryTimeline
  /\ refreshing' = TRUE /\ due' = FALSE
  /\ UNCHANGED <<server, cache>>

\* The countdown reaches zero.
CountDown ==
  /\ open /\ ticking > 0 /\ ~due
  /\ due' = TRUE
  /\ UNCHANGED <<server, cache, snapshots, open, fetch, screen, refreshing, ticking, timer>>

\* Every second from then on, until a fetch ends, another one is started.
Tick(f) ==
  /\ open /\ ticking > 0 /\ due
  /\ Request(f)
  /\ UNCHANGED <<server, cache, snapshots, open, screen, clock>>

\* invalidateClientCache, the refresh button.
InvalidateClientCache(f) ==
  /\ open
  /\ Request(f)
  /\ cache' = NoCache
  /\ UNCHANGED <<server, snapshots, open, screen, clock>>

\* updateRefreshInterval: another interval, or "Off".
UpdateRefreshInterval(on) ==
  /\ open
  /\ StartAutoRefresh(on)
  /\ UNCHANGED <<server, cache, snapshots, open, fetch, screen>>

\* fetchTargets(true) of a remediation that was answered.
FetchTargets(f) ==
  /\ open
  /\ Request(f)
  /\ UNCHANGED <<server, cache, snapshots, open, screen, clock>>

\* What an answer leaves of the fetches.
Overtaking(f) ==
  [g \in Fetch |-> IF g = f THEN Unused
                   ELSE [fetch[g] EXCEPT !.late = @ \/ fetch[g].at = "served"]]

\* A bug: a copy that is still fresh is kept.
ArriveKeepsCopy(f) ==
  /\ fetch[f].at = "served"
  /\ cache' = IF cache.fresh THEN cache ELSE [data |-> fetch[f].data, fresh |-> TRUE]
  /\ ShowInventory(fetch[f].data)
  /\ fetch' = Overtaking(f)
  /\ UNCHANGED <<server, open>>

\* The answer of a fetch is there, whole.
Arrive(f) ==
  /\ fetch[f].at = "served"
  /\ cache' = [data |-> fetch[f].data, fresh |-> TRUE]
  /\ ShowInventory(fetch[f].data)
  /\ fetch' = Overtaking(f)
  /\ UNCHANGED <<server, open>>

\* A status that is not ok, a body that does not parse, no connection.
Fail(f) ==
  /\ fetch[f].at \in {"sent", "served"}
  /\ ShowError
  /\ fetch' = [fetch EXCEPT ![f] = Unused]
  /\ UNCHANGED <<server, cache, open>>

\* 401: the page goes to the login.
Redirect(f) ==
  /\ fetch[f].at = "sent"
  /\ open' = FALSE
  /\ fetch' = [g \in Fetch |-> Unused]
  /\ ticking' = 0 /\ timer' = FALSE /\ due' = FALSE
  /\ UNCHANGED <<server, cache, snapshots, screen, refreshing>>

\* Math.round((1 - position) * (history.length - 1)), counted from 1.
IndexAt(place) ==
  1 + (2 * (Track - place) * (Len(snapshots) - 1) + Track) \div (2 * Track)

\* The handle is dragged or the track clicked: updateSliderPosition, which
\* moves the handle only when it comes to another snapshot.
Slide(place) ==
  /\ open /\ snapshots # <<>> /\ IndexAt(place) # slider
  /\ slider' = IndexAt(place) /\ scrubber' = place
  /\ diagram' = snapshots[slider']
  /\ UNCHANGED <<server, cache, snapshots, open, fetch, shown, broken, clock>>

\* clearSankeyHistory: currentUpgradeFlow is drawn again, whatever it is; the
\* slider is hidden and keeps its index.
ClearSankeyHistory ==
  /\ open /\ snapshots # <<>>
  /\ snapshots' = <<>>
  /\ UNCHANGED <<server, cache, open, fetch, screen, clock>>

\* CACHE_TTL_MS after the copy was made.
CacheExpires ==
  /\ cache.fresh
  /\ cache' = [cache EXCEPT !.fresh = FALSE]
  /\ UNCHANGED <<server, snapshots, open, fetch, screen, clock>>

\* The server (external): a new inventory; an answer to a fetch.
ServerMoves ==
  /\ server < MaxInventory
  /\ server' = server + 1
  /\ UNCHANGED <<cache, snapshots, open, fetch, screen, clock>>

Serve(f) ==
  /\ fetch[f].at = "sent"
  /\ fetch' = [fetch EXCEPT ![f].at = "served", ![f].data = server]
  /\ UNCHANGED <<server, cache, snapshots, open, screen, clock>>

Timer == CountDown \/ \E f \in Fetch : Tick(f)

Answer(f) == Serve(f) \/ Arrive(f) \/ Fail(f) \/ Redirect(f)

Next ==
  \/ Open \/ Timer \/ ClearSankeyHistory \/ CacheExpires \/ ServerMoves
  \/ \E f \in Fetch : InvalidateClientCache(f) \/ FetchTargets(f) \/ Answer(f)
  \/ \E on \in BOOLEAN : UpdateRefreshInterval(on)
  \/ \E place \in 0..Track : Slide(place)

\* Browsers run their intervals; the server answers or the connection fails.
Fairness == WF_vars(Timer) /\ \A f \in Fetch : WF_vars(Answer(f))

Spec == Init /\ [][Next]_vars /\ Fairness

-----------------------------------------------------------------------------
(* However fetches end and the interval is changed, a page never runs two  *)
(* refresh timers, and none once the user has switched refreshing off,     *)
(* with fetches still under way at that moment (app.js:63-79).             *)
OneTimer == ticking <= 1 /\ (~refreshing => ticking = 0)

(* The handle, the snapshot the timeline names and the diagram agree, and  *)
(* what it calls CURRENT is the inventory on the screen, whatever fetches  *)
(* ended and wherever the handle was.  An inventory without nodes is not   *)
(* on the timeline: the handle and its label stay where they were, at an   *)
(* older snapshot called CURRENT perhaps, and the diagram shows that one   *)
(* or says that there is none (app.js:146-150, 725-750, 825-865, 894-951). *)
CurrentIsShown ==
  open /\ shown # Nothing /\ snapshots # <<>> =>
    /\ slider = IndexAt(scrubber)
    /\ diagram = snapshots[slider] \/ (diagram = Nothing /\ shown \notin WithNodes)
    /\ slider = 1 /\ shown \in WithNodes => diagram = shown

(* An older inventory replaces a newer one on the screen only by an answer *)
(* that another one has overtaken; never by the copy that a page finds in  *)
(* localStorage, and never when fetches do not overlap (app.js:84-131).    *)
OlderOnlyIfOvertaken ==
  [][shown' < shown /\ shown' # Nothing =>
       \E f \in Fetch : fetch[f].late /\ fetch[f].data = shown']_vars

\* What starts the countdown afresh by the user's hand.
UserRestarts == Open \/ \E on \in BOOLEAN : UpdateRefreshInterval(on)

(* A page left to itself, open and not switched off, never stops asking:   *)
(* errors and overlapping answers leave its timer running (app.js:63-79,   *)
(* 159-169).                                                               *)
KeepsAsking ==
  <>[][~UserRestarts]_vars
    => []<>(~open \/ ~refreshing \/ \E f \in Fetch : fetch[f].at # "unused")

(* app.js:884: clearing the timeline re-renders the current state.         *)
ClearShowsCurrent ==
  [][snapshots # <<>> /\ snapshots' = <<>> /\ shown' \in WithNodes => diagram' = shown']_vars
=============================================================================
