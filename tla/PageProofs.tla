----------------------------- MODULE PageProofs -----------------------------
(***************************************************************************)
(* Proofs about the page, for every number of pages, fetches, loads and    *)
(* requests under way, every graph, upgrade flow and inventory, every      *)
(* capacity of the timeline and every length of its track: first its       *)
(* inventory (one timer, a timeline that agrees with the screen, and older *)
(* data only by an answer that was overtaken), then the parts that share   *)
(* no state with it: the sections with the upgrade diagram, the dependency *)
(* panel, the autonomous switch, the requests of the user.                 *)
(***************************************************************************)
EXTENDS DashboardPage, UpgradeDiagram, DependencyPanel, AutonomousSwitch,
        PageRequests, TLAPS

-----------------------------------------------------------------------------
(* The inventory.                                                          *)

PageTypeOK ==
  /\ server \in Nat
  /\ cache \in [data : Nat, fresh : BOOLEAN]
  /\ snapshots \in Seq(Nat)
  /\ fetch \in [Fetch -> [at : {"unused", "sent", "served"}, data : Nat, late : BOOLEAN]]
  /\ shown \in Nat /\ diagram \in Nat
  /\ refreshing \in BOOLEAN /\ timer \in BOOLEAN /\ ticking \in Nat

\* timerId names the interval that runs, and only a refreshing page has one.
TimerIsNamed ==
  /\ ticking = IF timer THEN 1 ELSE 0
  /\ timer => refreshing

\* The newest snapshot is what the screen shows, unless that has no nodes or the
\* timeline was cleared.
NewestIsShown ==
  open /\ snapshots # <<>> =>
    /\ slider = IndexAt(scrubber)
    /\ diagram = snapshots[slider] \/ (diagram = Nothing /\ shown \notin WithNodes)
    /\ shown \in WithNodes => snapshots[1] = shown

\* No answer is ahead of the server, and only one that was overtaken is behind
\* the screen.
AnswersInOrder ==
  /\ shown <= server
  /\ cache.fresh => cache.data = shown
  /\ \A f \in Fetch : fetch[f].at = "served" =>
       /\ fetch[f].data <= server
       /\ ~fetch[f].late => shown <= fetch[f].data

PageInv == PageTypeOK /\ TimerIsNamed /\ NewestIsShown /\ AnswersInOrder

-----------------------------------------------------------------------------
(* The timeline's operators.                                               *)

\* A snapshot that is saved is the newest of the timeline, at its first place;
\* a flow without nodes is not saved.
LEMMA SavedIsNewest ==
  ASSUME NEW s \in Seq(Nat), NEW flow \in Nat
  PROVE  /\ SaveSankeySnapshot(s, flow) \in Seq(Nat)
         /\ flow \in WithNodes =>
              /\ SaveSankeySnapshot(s, flow) # <<>>
              /\ SaveSankeySnapshot(s, flow)[1] = flow
         /\ flow \notin WithNodes => SaveSankeySnapshot(s, flow) = s
<1> USE PageAssumption
<1> DEFINE longer == <<flow>> \o s
<1>1. longer \in Seq(Nat) /\ Len(longer) = Len(s) + 1 /\ longer[1] = flow
  OBVIOUS
<1>2. longer # <<>>
  BY <1>1
<1>3. CASE flow \notin WithNodes
  <2>1. SaveSankeySnapshot(s, flow) = s
    BY <1>3, Zenon DEF SaveSankeySnapshot
  <2>2. QED
    BY <1>3, <2>1
<1>4. CASE flow \in WithNodes /\ Len(longer) > MaxSnapshots
  <2>1. /\ SubSeq(longer, 1, MaxSnapshots) \in Seq(Nat)
        /\ Len(SubSeq(longer, 1, MaxSnapshots)) = MaxSnapshots
        /\ SubSeq(longer, 1, MaxSnapshots)[1] = flow
    <3>1. /\ MaxSnapshots \in Nat /\ MaxSnapshots >= 1 /\ MaxSnapshots <= Len(longer)
      BY <1>1, <1>4
    <3>2. QED
      BY <1>1, <3>1
  <2>2. SubSeq(longer, 1, MaxSnapshots) # <<>>
    BY <2>1
  <2>3. SaveSankeySnapshot(s, flow) = SubSeq(longer, 1, MaxSnapshots)
    BY <1>4 DEF SaveSankeySnapshot
  <2>4. QED
    BY <1>4, <2>1, <2>2, <2>3, Zenon
<1>5. CASE flow \in WithNodes /\ ~(Len(longer) > MaxSnapshots)
  <2>1. SaveSankeySnapshot(s, flow) = longer
    BY <1>5 DEF SaveSankeySnapshot
  <2>2. QED
    BY <1>1, <1>2, <1>5, <2>1
<1>6. QED
  BY <1>3, <1>4, <1>5

\* The newest end of the track is the newest snapshot.
LEMMA NewestEnd ==
  ASSUME snapshots \in Seq(Nat)
  PROVE  IndexAt(Track) = 1
<1>1. Track \in Nat /\ Track > 0
  BY PageAssumption
<1>2. Track \div (2 * Track) = 0
  BY <1>1
<1>3. 2 * (Track - Track) * (Len(snapshots) - 1) + Track = Track
  BY <1>1
<1>4. QED
  BY <1>1, <1>2, <1>3 DEF IndexAt

\* A quotient is within the bound that its dividend is within.
LEMMA QuotientBound ==
  ASSUME NEW a \in Nat, NEW d \in Nat \ {0}, NEW k \in Nat, a < d * (k + 1)
  PROVE  a \div d \in 0..k
<1> DEFINE q == a \div d
<1>1. q \in Nat /\ d * q <= a
  <2>1. q \in Nat
    OBVIOUS
  <2>2. d * q <= a
    OBVIOUS
  <2>3. QED
    BY <2>1, <2>2
<1> HIDE DEF q
<1>2. CASE q >= k + 1
  <2>1. PICK more \in Nat : q = (k + 1) + more
    BY <1>1, <1>2
  <2>2. d * q = d * (k + 1) + d * more /\ d * more \in Nat /\ d * (k + 1) \in Nat
    BY <2>1
  <2>3. QED
    BY <1>1, <2>2
<1>3. CASE ~(q >= k + 1)
  <2>1. q <= k
    BY <1>1, <1>3
  <2>2. QED
    BY <1>1, <2>1 DEF q
<1>4. QED
  BY <1>2, <1>3

\* Wherever the handle is, it is at a snapshot of the timeline.
LEMMA PlaceHasSnapshot ==
  ASSUME snapshots \in Seq(Nat), snapshots # <<>>, NEW place \in 0..Track
  PROVE  IndexAt(place) \in 1..Len(snapshots)
<1> DEFINE n == Len(snapshots) - 1
           far == Track - place
           over == 2 * far * n + Track
<1>1. Track \in Nat /\ Track > 0 /\ n \in Nat /\ far \in 0..Track
  BY PageAssumption
<1> HIDE DEF n, far
<1>2. far * n \in Nat /\ far * n <= Track * n /\ Track * n \in Nat
  BY <1>1
<1>3. 2 * far * n = 2 * (far * n) /\ 2 * Track * (n + 1) = 2 * (Track * n) + 2 * Track
  BY <1>1
<1>4. over \in Nat /\ over < 2 * Track * (n + 1)
  BY <1>1, <1>2, <1>3
<1>5. 2 * Track \in Nat \ {0}
  BY <1>1
<1> HIDE DEF over
<1>6. over \div (2 * Track) \in 0..n
  BY <1>1, <1>4, <1>5, QuotientBound
<1>7. IndexAt(place) = 1 + over \div (2 * Track)
  BY DEF IndexAt, over, far, n
<1>8. Len(snapshots) = n + 1
  BY DEF n
<1>9. QED
  BY <1>1, <1>6, <1>7, <1>8

-----------------------------------------------------------------------------
(* The steps.                                                              *)

LEMMA NoCacheIsCopy == NoCache \in [data : Nat, fresh : BOOLEAN]
<1>1. FALSE \in BOOLEAN /\ Nothing \in Nat
  BY DEF Nothing
<1>2. QED
  BY <1>1 DEF NoCache

LEMMA InitPage == Init => PageInv
<1> SUFFICES ASSUME Init PROVE PageInv
  OBVIOUS
<1>1. PageTypeOK
  <2>1. Unused \in [at : {"unused", "sent", "served"}, data : Nat, late : BOOLEAN]
    BY DEF Unused, Nothing
  <2>2. fetch \in [Fetch -> [at : {"unused", "sent", "served"}, data : Nat, late : BOOLEAN]]
    BY <2>1 DEF Init
  <2>3. /\ server \in Nat /\ shown \in Nat /\ diagram \in Nat /\ ticking \in Nat
        /\ snapshots \in Seq(Nat)
    BY DEF Init, Nothing
  <2>4. refreshing \in BOOLEAN /\ timer \in BOOLEAN
    BY DEF Init
  <2>5. cache \in [data : Nat, fresh : BOOLEAN]
    BY NoCacheIsCopy DEF Init
  <2>6. QED
    BY <2>2, <2>3, <2>4, <2>5 DEF PageTypeOK
<1>2. TimerIsNamed /\ NewestIsShown
  BY DEF Init, TimerIsNamed, NewestIsShown
<1>3. AnswersInOrder
  BY DEF Init, NoCache, Unused, Nothing, AnswersInOrder
<1>4. QED
  BY <1>1, <1>2, <1>3 DEF PageInv

\* startAutoRefresh clears the interval that timerId names before it starts one.
LEMMA StartKeepsOneTimer ==
  ASSUME PageTypeOK, TimerIsNamed, NEW on \in BOOLEAN, StartAutoRefresh(on)
  PROVE  /\ refreshing' \in BOOLEAN /\ timer' \in BOOLEAN /\ ticking' \in Nat
         /\ TimerIsNamed'
BY DEF PageTypeOK, TimerIsNamed, StartAutoRefresh

\* What a finished fetch, or a fresh copy, puts on the screen.
LEMMA ShowIsNewest ==
  ASSUME PageTypeOK, NEW data \in Nat,
         shown' = data, data \in WithNodes => diagram' = data,
         data \notin WithNodes => diagram' = Nothing,
         snapshots' = SaveSankeySnapshot(snapshots, data),
         RenderHistoryTimeline
  PROVE  NewestIsShown' /\ snapshots' \in Seq(Nat)
<1>1. /\ snapshots' \in Seq(Nat)
      /\ data \in WithNodes => snapshots' # <<>> /\ snapshots'[1] = data
  BY SavedIsNewest DEF PageTypeOK
<1>2. Track \in Nat /\ Track > 0
  BY PageAssumption
<1>3. Track \div (2 * Track) = 0
  BY <1>2
<1>4. 2 * (Track - Track) * (Len(snapshots') - 1) + Track = Track
  BY <1>1, <1>2
<1>5. IndexAt(scrubber)' = 1
  BY <1>2, <1>3, <1>4 DEF IndexAt, RenderHistoryTimeline
<1>6. QED
  BY <1>1, <1>5 DEF NewestIsShown, RenderHistoryTimeline

\* An inventory without nodes leaves the timeline as it is.
LEMMA ShowLeavesTimeline ==
  ASSUME PageInv, NEW data \in Nat, data \notin WithNodes,
         shown' = data, diagram' = Drawn(data, diagram), UNCHANGED <<open, slider, scrubber>>,
         snapshots' = SaveSankeySnapshot(snapshots, data)
  PROVE  NewestIsShown' /\ snapshots' \in Seq(Nat)
<1>1. snapshots' = snapshots
  BY SavedIsNewest DEF PageInv, PageTypeOK
<1>2. diagram' = Nothing \/ diagram' = diagram
  BY DEF Drawn
<1>3. QED
  BY <1>1, <1>2 DEF PageInv, PageTypeOK, NewestIsShown, IndexAt

LEMMA OpenPage == PageInv /\ Open => PageInv'
<1> SUFFICES ASSUME PageInv, Open PROVE PageInv'
  OBVIOUS
<1>1. CASE cache.fresh
  <2>1. /\ cache.data \in Nat /\ cache.data = shown
        /\ shown' = cache.data /\ diagram' = Drawn(cache.data, Nothing)
        /\ snapshots' = SaveSankeySnapshot(snapshots, cache.data)
        /\ RenderHistoryTimeline
        /\ fetch' = [f \in Fetch |-> Unused]
        /\ ticking' = 1 /\ timer' = TRUE /\ refreshing' = TRUE
        /\ UNCHANGED <<server, cache>>
    BY <1>1 DEF Open, PageInv, PageTypeOK, AnswersInOrder
  <2>2. NewestIsShown' /\ snapshots' \in Seq(Nat) /\ diagram' \in Nat
    BY <2>1, ShowIsNewest DEF PageInv, Drawn, Nothing
  <2>3. PageTypeOK'
    BY <2>1, <2>2 DEF PageInv, PageTypeOK, Unused, Nothing
  <2>4. TimerIsNamed' /\ AnswersInOrder'
    BY <2>1 DEF PageInv, TimerIsNamed, AnswersInOrder, Unused
  <2>5. QED
    BY <2>2, <2>3, <2>4 DEF PageInv
<1>2. CASE ~cache.fresh
  <2>1. PICK f \in Fetch : fetch' = [[g \in Fetch |-> Unused] EXCEPT ![f].at = "sent"]
    BY <1>2 DEF Open
  <2>2. /\ shown' = Nothing /\ diagram' = Nothing /\ RenderHistoryTimeline
        /\ ticking' = 0 /\ timer' = FALSE /\ refreshing' = TRUE
        /\ UNCHANGED <<server, cache, snapshots>>
    BY <1>2 DEF Open
  <2>3. PageTypeOK'
    BY <2>1, <2>2 DEF PageInv, PageTypeOK, Unused, Nothing
  <2>4. TimerIsNamed' /\ NewestIsShown'
    <3>1. Nothing \notin WithNodes
      BY PageAssumption DEF Nothing
    <3>2. IndexAt(Track) = 1 /\ IndexAt(scrubber)' = IndexAt(Track)
      BY <2>2, NewestEnd DEF PageInv, PageTypeOK, RenderHistoryTimeline, IndexAt
    <3>3. QED
      BY <2>2, <3>1, <3>2 DEF TimerIsNamed, NewestIsShown, RenderHistoryTimeline
  <2>5. \A g \in Fetch : fetch'[g].at # "served"
    BY <2>1 DEF Unused
  <2>6. AnswersInOrder'
    BY <1>2, <2>2, <2>5 DEF PageInv, PageTypeOK, AnswersInOrder, Nothing
  <2>7. QED
    BY <2>3, <2>4, <2>6 DEF PageInv
<1>3. QED
  BY <1>1, <1>2

LEMMA ArrivePage ==
  ASSUME PageInv, NEW f \in Fetch, Arrive(f)
  PROVE  PageInv'
<1>1. /\ fetch[f].at = "served" /\ fetch[f].data \in Nat /\ fetch[f].data <= server
      /\ UNCHANGED server
      /\ cache' = [data |-> fetch[f].data, fresh |-> TRUE]
      /\ shown' = fetch[f].data /\ diagram' = Drawn(fetch[f].data, diagram)
      /\ snapshots' = SaveSankeySnapshot(snapshots, fetch[f].data)
      /\ UNCHANGED open /\ StartAutoRefresh(refreshing)
  BY DEF Arrive, ShowInventory, PageInv, PageTypeOK, AnswersInOrder
<1>2. NewestIsShown' /\ snapshots' \in Seq(Nat) /\ diagram' \in Nat
  <2>1. CASE fetch[f].data \in WithNodes
    <3>1. diagram' = fetch[f].data /\ RenderHistoryTimeline
      BY <1>1, <2>1 DEF Arrive, ShowInventory, Drawn
    <3>2. QED
      BY <1>1, <2>1, <3>1, ShowIsNewest DEF PageInv
  <2>2. CASE fetch[f].data \notin WithNodes
    <3>1. UNCHANGED <<slider, scrubber>>
      BY <2>2 DEF Arrive, ShowInventory
    <3>2. diagram' \in Nat
      BY <1>1, <2>2 DEF Drawn, Nothing, PageInv, PageTypeOK
    <3>3. QED
      BY <1>1, <2>2, <3>1, <3>2, ShowLeavesTimeline
  <2>3. QED
    BY <2>1, <2>2
<1>3. /\ refreshing' \in BOOLEAN /\ timer' \in BOOLEAN /\ ticking' \in Nat
      /\ TimerIsNamed'
  BY <1>1, StartKeepsOneTimer DEF PageInv, PageTypeOK
<1>4. fetch' = [g \in Fetch |->
                  IF g = f THEN Unused
                  ELSE [fetch[g] EXCEPT !.late = @ \/ fetch[g].at = "served"]]
  BY DEF Arrive, Overtaking
<1>5. fetch' \in [Fetch -> [at : {"unused", "sent", "served"}, data : Nat, late : BOOLEAN]]
  <2>1. ASSUME NEW g \in Fetch
        PROVE  fetch'[g] \in [at : {"unused", "sent", "served"}, data : Nat, late : BOOLEAN]
    BY <1>4 DEF PageInv, PageTypeOK, Unused, Nothing
  <2>2. QED
    BY <1>4, <2>1
<1>6. PageTypeOK'
  BY <1>1, <1>2, <1>3, <1>5 DEF PageInv, PageTypeOK
<1>7. ASSUME NEW g \in Fetch, fetch'[g].at = "served"
      PROVE  fetch'[g].data <= server' /\ fetch'[g].late
  BY <1>1, <1>4, <1>7 DEF PageInv, PageTypeOK, AnswersInOrder, Unused
<1>8. AnswersInOrder'
  BY <1>1, <1>7 DEF AnswersInOrder
<1>9. QED
  BY <1>2, <1>3, <1>6, <1>8 DEF PageInv

\* A fetch that ends without an inventory, and one that starts: the others keep
\* their place.
LEMMA FailPage ==
  ASSUME PageInv, NEW f \in Fetch, Fail(f)
  PROVE  PageInv'
<1>1. /\ fetch' = [fetch EXCEPT ![f] = Unused]
      /\ StartAutoRefresh(refreshing)
      /\ UNCHANGED <<server, cache, snapshots, open, shown, diagram, slider, scrubber>>
  BY DEF Fail, ShowError
<1>2. /\ refreshing' \in BOOLEAN /\ timer' \in BOOLEAN /\ ticking' \in Nat
      /\ TimerIsNamed'
  BY <1>1, StartKeepsOneTimer DEF PageInv, PageTypeOK
<1>3. PageTypeOK'
  BY <1>1, <1>2 DEF PageInv, PageTypeOK, Unused, Nothing
<1>4. NewestIsShown'
  BY <1>1 DEF PageInv, NewestIsShown, IndexAt
<1>5. AnswersInOrder'
  BY <1>1 DEF PageInv, PageTypeOK, AnswersInOrder, Unused
<1>6. QED
  BY <1>2, <1>3, <1>4, <1>5 DEF PageInv

LEMMA RequestPage ==
  ASSUME PageInv, NEW f \in Fetch, Request(f), cache' = cache \/ cache' = NoCache,
         UNCHANGED <<server, snapshots, open, screen, clock>>
  PROVE  PageInv'
<1>1. fetch' = [fetch EXCEPT ![f].at = "sent"]
  BY DEF Request
<1>2. /\ UNCHANGED <<server, snapshots, open, shown, diagram, slider, scrubber>>
      /\ UNCHANGED <<refreshing, ticking, timer>>
  BY DEF screen, clock
<1>3. PageTypeOK'
  BY <1>1, <1>2, NoCacheIsCopy DEF PageInv, PageTypeOK
<1>4. TimerIsNamed' /\ NewestIsShown'
  BY <1>2 DEF PageInv, TimerIsNamed, NewestIsShown, IndexAt
<1>5. AnswersInOrder'
  BY <1>1, <1>2 DEF PageInv, PageTypeOK, AnswersInOrder, NoCache
<1>6. QED
  BY <1>3, <1>4, <1>5 DEF PageInv

LEMMA ServePage ==
  ASSUME PageInv, NEW f \in Fetch, Serve(f)
  PROVE  PageInv'
<1>1. /\ fetch' = [fetch EXCEPT ![f].at = "served", ![f].data = server]
      /\ UNCHANGED <<server, cache, snapshots, open, shown, diagram, slider, scrubber>>
      /\ UNCHANGED <<refreshing, ticking, timer>>
  BY DEF Serve, screen, clock
<1>2. PageTypeOK'
  BY <1>1 DEF PageInv, PageTypeOK
<1>3. TimerIsNamed' /\ NewestIsShown'
  BY <1>1 DEF PageInv, TimerIsNamed, NewestIsShown, IndexAt
<1>4. AnswersInOrder'
  BY <1>1 DEF PageInv, PageTypeOK, AnswersInOrder
<1>5. QED
  BY <1>2, <1>3, <1>4 DEF PageInv

LEMMA RedirectPage ==
  ASSUME PageInv, NEW f \in Fetch, Redirect(f)
  PROVE  PageInv'
<1>1. /\ open' = FALSE
      /\ fetch' = [g \in Fetch |-> Unused]
      /\ ticking' = 0 /\ timer' = FALSE
      /\ UNCHANGED <<server, cache, snapshots, shown, diagram, refreshing>>
  BY DEF Redirect, screen
<1>2. PageTypeOK'
  BY <1>1 DEF PageInv, PageTypeOK, Unused, Nothing
<1>3. TimerIsNamed' /\ NewestIsShown'
  BY <1>1 DEF TimerIsNamed, NewestIsShown
<1>4. AnswersInOrder'
  BY <1>1 DEF PageInv, AnswersInOrder, Unused
<1>5. QED
  BY <1>2, <1>3, <1>4 DEF PageInv

\* The timeline: what is dragged to is drawn, and an empty one claims nothing.
LEMMA TimelinePage ==
  ASSUME PageInv, (\E place \in 0..Track : Slide(place)) \/ ClearSankeyHistory
  PROVE  PageInv'
<1>1. UNCHANGED <<server, cache, open, fetch, shown, refreshing, ticking, timer>>
  BY DEF Slide, ClearSankeyHistory, screen, clock
<1>2. TimerIsNamed' /\ AnswersInOrder'
  BY <1>1 DEF PageInv, TimerIsNamed, AnswersInOrder
<1>3. CASE ClearSankeyHistory
  BY <1>1, <1>2, <1>3 DEF ClearSankeyHistory, screen, PageInv, PageTypeOK, NewestIsShown
<1>4. ASSUME NEW place \in 0..Track, Slide(place)
      PROVE  PageInv'
  <2>1. /\ UNCHANGED snapshots
        /\ slider' = IndexAt(place) /\ scrubber' = place
        /\ diagram' = snapshots[slider']
        /\ snapshots # <<>>
    BY <1>4 DEF Slide
  <2>2. IndexAt(place) \in 1..Len(snapshots)
    BY <1>4, <2>1, PlaceHasSnapshot DEF PageInv, PageTypeOK
  <2>3. PageTypeOK'
    BY <1>1, <2>1, <2>2 DEF PageInv, PageTypeOK
  <2>4. NewestIsShown'
    BY <1>1, <2>1 DEF PageInv, NewestIsShown, IndexAt
  <2>5. QED
    BY <1>2, <2>3, <2>4 DEF PageInv
<1>5. QED
  BY <1>3, <1>4

\* Steps that leave the screen, the timeline and the fetches alone.
LEMMA AsidePage ==
  ASSUME PageInv,
         \/ CountDown \/ CacheExpires \/ ServerMoves
         \/ \E on \in BOOLEAN : UpdateRefreshInterval(on)
         \/ UNCHANGED vars
  PROVE  PageInv'
<1>1. UNCHANGED <<snapshots, open, fetch, shown, diagram, slider, scrubber>>
  BY DEF CountDown, CacheExpires, ServerMoves, UpdateRefreshInterval, vars, screen
<1>2. \/ UNCHANGED cache
      \/ cache' = [cache EXCEPT !.fresh = FALSE]
  BY DEF CountDown, CacheExpires, ServerMoves, UpdateRefreshInterval, vars
<1>3. /\ cache' \in [data : Nat, fresh : BOOLEAN]
      /\ cache'.fresh => cache.fresh /\ cache'.data = cache.data
  <2>1. CASE UNCHANGED cache
    BY <2>1 DEF PageInv, PageTypeOK
  <2>2. CASE cache' = [cache EXCEPT !.fresh = FALSE]
    BY <2>2 DEF PageInv, PageTypeOK
  <2>3. QED
    BY <1>2, <2>1, <2>2
<1>4. UNCHANGED server \/ server' = server + 1
  BY DEF CountDown, CacheExpires, ServerMoves, UpdateRefreshInterval, vars
<1>5. server' \in Nat /\ server' >= server
  BY <1>4 DEF PageInv, PageTypeOK
<1>6. /\ refreshing' \in BOOLEAN /\ timer' \in BOOLEAN /\ ticking' \in Nat
      /\ TimerIsNamed'
  <2>1. CASE \E on \in BOOLEAN : UpdateRefreshInterval(on)
    <3>1. PICK on \in BOOLEAN : StartAutoRefresh(on)
      BY <2>1 DEF UpdateRefreshInterval
    <3>2. QED
      BY <3>1, StartKeepsOneTimer DEF PageInv
  <2>2. CASE UNCHANGED <<refreshing, ticking, timer>>
    BY <2>2 DEF PageInv, PageTypeOK, TimerIsNamed
  <2>3. QED
    BY <2>1, <2>2 DEF CountDown, CacheExpires, ServerMoves, vars, clock
<1>7. PageTypeOK'
  BY <1>1, <1>3, <1>5, <1>6 DEF PageInv, PageTypeOK
<1>8. NewestIsShown'
  BY <1>1 DEF PageInv, NewestIsShown, IndexAt
<1>9. AnswersInOrder'
  BY <1>1, <1>3, <1>5 DEF PageInv, PageTypeOK, AnswersInOrder
<1>10. QED
  BY <1>6, <1>7, <1>8, <1>9 DEF PageInv

-----------------------------------------------------------------------------
(* The theorems.                                                           *)

LEMMA NextPage == PageInv /\ [Next]_vars => PageInv'
<1> SUFFICES ASSUME PageInv, [Next]_vars PROVE PageInv'
  OBVIOUS
<1>1. CASE Open
  BY <1>1, OpenPage
<1>2. CASE \E place \in 0..Track : Slide(place)
  BY <1>2, TimelinePage
<1>3. CASE ClearSankeyHistory
  BY <1>3, TimelinePage
<1>4. CASE \/ CountDown \/ CacheExpires \/ ServerMoves
           \/ \E on \in BOOLEAN : UpdateRefreshInterval(on)
           \/ UNCHANGED vars
  BY <1>4, AsidePage
<1>5. ASSUME NEW f \in Fetch, InvalidateClientCache(f) \/ FetchTargets(f) \/ Tick(f)
      PROVE  PageInv'
  BY <1>5, RequestPage DEF InvalidateClientCache, FetchTargets, Tick
<1>6. ASSUME NEW f \in Fetch, Answer(f)
      PROVE  PageInv'
  BY <1>6, ServePage, ArrivePage, FailPage, RedirectPage DEF Answer
<1>7. QED
  BY <1>1, <1>2, <1>3, <1>4, <1>5, <1>6 DEF Next, Timer

LEMMA PageInvariant == Spec => []PageInv
<1>1. Init => PageInv
  BY InitPage
<1>2. PageInv /\ [Next]_vars => PageInv'
  BY NextPage
<1>3. QED
  BY <1>1, <1>2, PTL DEF Spec

(* A page never runs two refresh timers, and none that is switched off,    *)
(* whatever fetches end in whatever order (app.js:63-79).                  *)
THEOREM OneTimerAlways == Spec => []OneTimer
<1>1. PageInv => OneTimer
  BY DEF PageInv, PageTypeOK, TimerIsNamed, OneTimer
<1>2. QED
  BY <1>1, PageInvariant, PTL

(* The timeline is true of the screen, with any number of fetches and      *)
(* snapshots and any inventories without nodes or without a flow in        *)
(* between: those leave it at the last that had nodes (app.js:146-150,     *)
(* 725-750, 825-865, 894-951).                                             *)
THEOREM TimelineIsTrue == Spec => []CurrentIsShown
<1>1. PageInv => CurrentIsShown
  BY DEF PageInv, NewestIsShown, CurrentIsShown
<1>2. QED
  BY <1>1, PageInvariant, PTL

(* Only an answer that another one has overtaken replaces an inventory by  *)
(* an older one (app.js:84-131).                                           *)
THEOREM NeverOlderInOrder == Spec => OlderOnlyIfOvertaken
<1> DEFINE Overtaken == shown' < shown /\ shown' # Nothing =>
                          \E f \in Fetch : fetch[f].late /\ fetch[f].data = shown'
<1>1. PageInv /\ [Next]_vars => [Overtaken]_vars
  <2> SUFFICES ASSUME PageInv, Next, shown' < shown, shown' # Nothing
               PROVE  \E f \in Fetch : fetch[f].late /\ fetch[f].data = shown'
    BY DEF vars
  <2>1. shown \in Nat /\ ~(shown < shown)
    BY DEF PageInv, PageTypeOK
  <2>2. ASSUME NEW f \in Fetch, Arrive(f)
        PROVE  fetch[f].late /\ fetch[f].data = shown'
    BY <2>1, <2>2 DEF Arrive, ShowInventory, PageInv, PageTypeOK, AnswersInOrder
  <2>3. CASE Open
    BY <2>1, <2>3 DEF Open, PageInv, AnswersInOrder
  <2>4. CASE ~Open /\ \A f \in Fetch : ~Arrive(f)
    <3>1. UNCHANGED shown
      BY <2>4 DEF Next, Timer, Answer, CountDown, Tick, InvalidateClientCache,
                  UpdateRefreshInterval, FetchTargets, Fail, ShowError, Redirect,
                  Slide, ClearSankeyHistory, CacheExpires, ServerMoves, Serve, screen
    <3>2. QED
      BY <2>1, <3>1
  <2>5. QED
    BY <2>2, <2>3, <2>4
<1>2. QED
  BY <1>1, PageInvariant, PTL DEF Spec, OlderOnlyIfOvertaken

-----------------------------------------------------------------------------
(* The sections.                                                           *)

SectionsTypeOK ==
  /\ saved \in [Section -> BOOLEAN] /\ sectionsState = saved
  /\ folded \in [Section -> BOOLEAN] /\ displayed \in [Section -> BOOLEAN]
  /\ folds \in [Section -> Nat]
  /\ redraws \in Nat

\* A section is folded iff it is saved as such; one that is not is displayed,
\* and one that is will leave the layout by a timer.
FoldedAsSaved ==
  \A s \in Section :
    /\ folded[s] = ~saved[s]
    /\ saved[s] => displayed[s]
    /\ folds[s] = 0 => displayed[s] = saved[s]

\* In the layout, folding or not, the diagram is current unless a timer will
\* draw it; nothing is drawn before there is a flow.
DiagramIsCurrent ==
  /\ displayed["sankeySection"] /\ redraws = 0 => drawn = currentUpgradeFlow
  /\ currentUpgradeFlow = NoFlow => drawn = NoFlow

SectionsInv == SectionsTypeOK /\ FoldedAsSaved /\ DiagramIsCurrent

LEMMA InitSections == UInit => SectionsInv
<1> SUFFICES ASSUME UInit PROVE SectionsInv
  OBVIOUS
<1>1. SectionsTypeOK /\ FoldedAsSaved
  BY DEF UInit, SectionsTypeOK, FoldedAsSaved
<1>2. DiagramIsCurrent
  BY DEF UInit, DiagramIsCurrent
<1>3. QED
  BY <1>1, <1>2 DEF SectionsInv

LEMMA LoadSections ==
  ASSUME SectionsInv, LoadSectionsState
  PROVE  SectionsInv'
<1>1. SectionsTypeOK' /\ FoldedAsSaved'
  BY DEF LoadSectionsState, SectionsInv, SectionsTypeOK, FoldedAsSaved
<1>2. DiagramIsCurrent'
  BY DEF LoadSectionsState, DiagramIsCurrent
<1>3. QED
  BY <1>1, <1>2 DEF SectionsInv

\* The diagram is drawn with a new flow, or with the one it should show.
LEMMA DrawSections ==
  ASSUME SectionsInv, NEW flow, flow \in Flow \/ flow = currentUpgradeFlow,
         renderSankeyDiagram(flow), UNCHANGED layout, redraws' \in Nat,
         redraws' = redraws \/ ~displayed["sankeySection"] \/ flow = currentUpgradeFlow
  PROVE  SectionsInv'
<1>1. SectionsTypeOK' /\ FoldedAsSaved'
  BY DEF layout, SectionsInv, SectionsTypeOK, FoldedAsSaved
<1>2. DiagramIsCurrent'
  <2>1. CASE flow = EmptyFlow \/ displayed["sankeySection"]
    BY <2>1 DEF renderSankeyDiagram, DiagramIsCurrent
  <2>2. CASE ~(flow = EmptyFlow \/ displayed["sankeySection"])
    BY <2>2, DiagramAssumption DEF renderSankeyDiagram, layout, SectionsInv, DiagramIsCurrent
  <2>3. QED
    BY <2>1, <2>2
<1>3. QED
  BY <1>1, <1>2 DEF SectionsInv

LEMMA ExpandSections ==
  ASSUME SectionsInv, NEW s \in Section, Expand(s)
  PROVE  SectionsInv'
<1>1. SectionsTypeOK'
  BY DEF Expand, SectionsInv, SectionsTypeOK
<1>2. FoldedAsSaved'
  BY DEF Expand, SectionsInv, SectionsTypeOK, FoldedAsSaved
<1>3. DiagramIsCurrent'
  <2>1. CASE s = "sankeySection" /\ currentUpgradeFlow # NoFlow
    BY <2>1 DEF Expand, SectionsInv, SectionsTypeOK, DiagramIsCurrent
  <2>2. CASE s = "sankeySection" /\ currentUpgradeFlow = NoFlow
    BY <2>2 DEF Expand, SectionsInv, DiagramIsCurrent
  <2>3. CASE s # "sankeySection"
    BY <2>3 DEF Expand, SectionsInv, SectionsTypeOK, DiagramIsCurrent
  <2>4. QED
    BY <2>1, <2>2, <2>3
<1>4. QED
  BY <1>1, <1>2, <1>3 DEF SectionsInv

LEMMA FoldSections ==
  ASSUME SectionsInv, NEW s \in Section, Collapse(s) \/ Leave(s)
  PROVE  SectionsInv'
<1>1. CASE Collapse(s)
  <2>1. SectionsTypeOK'
    BY <1>1 DEF Collapse, SectionsInv, SectionsTypeOK
  <2>2. ASSUME NEW t \in Section
        PROVE  /\ folded'[t] = ~saved'[t]
               /\ saved'[t] => displayed'[t]
               /\ folds'[t] = 0 => displayed'[t] = saved'[t]
    <3>1. CASE t = s
      <4>1. folded'[t] = TRUE /\ saved'[t] = FALSE
        BY <1>1, <3>1 DEF Collapse, SectionsInv, SectionsTypeOK
      <4>2. folds'[t] # 0
        BY <1>1, <3>1 DEF Collapse, SectionsInv, SectionsTypeOK
      <4>3. QED
        BY <4>1, <4>2
    <3>2. CASE t # s
      BY <1>1, <3>2 DEF Collapse, SectionsInv, SectionsTypeOK, FoldedAsSaved
    <3>3. QED
      BY <3>1, <3>2
  <2>3. FoldedAsSaved'
    BY <2>2 DEF FoldedAsSaved
  <2>4. DiagramIsCurrent'
    BY <1>1 DEF Collapse, SectionsInv, DiagramIsCurrent
  <2>5. QED
    BY <2>1, <2>3, <2>4 DEF SectionsInv
<1>2. CASE Leave(s)
  <2>1. SectionsTypeOK' /\ FoldedAsSaved'
    BY <1>2 DEF Leave, SectionsInv, SectionsTypeOK, FoldedAsSaved
  <2>2. displayed'["sankeySection"] => displayed["sankeySection"]
    BY <1>2 DEF Leave, SectionsInv, SectionsTypeOK, Section
  <2>3. QED
    BY <1>2, <2>1, <2>2 DEF Leave, SectionsInv, DiagramIsCurrent
<1>3. QED
  BY <1>1, <1>2

(* However fast sections are folded and unfolded, what is saved is what is *)
(* seen, and a diagram that is seen is that of the last upgrade flow       *)
(* (app.js:934-951, 1898-1970).                                            *)
THEOREM SectionsAlwaysFollow == USpec => []SectionsFollowState
<1>1. SectionsInv /\ [UNext]_uvars => SectionsInv'
  <2> SUFFICES ASSUME SectionsInv, [UNext]_uvars PROVE SectionsInv'
    OBVIOUS
  <2>1. CASE LoadSectionsState
    BY <2>1, LoadSections
  <2>2. CASE Redraw
    <3>1. /\ renderSankeyDiagram(currentUpgradeFlow)
          /\ redraws' \in Nat /\ UNCHANGED layout
      BY <2>2 DEF Redraw, SectionsInv, SectionsTypeOK
    <3>2. QED
      BY <3>1, DrawSections
  <2>3. ASSUME NEW flow \in Flow, RenderSankeyDiagram(flow)
        PROVE  SectionsInv'
    BY <2>3, DrawSections DEF RenderSankeyDiagram, SectionsInv, SectionsTypeOK
  <2>4. CASE ShowTooltip \/ HideTooltip \/ UNCHANGED uvars
    BY <2>4 DEF ShowTooltip, HideTooltip, uvars, layout, SectionsInv, SectionsTypeOK,
                FoldedAsSaved, DiagramIsCurrent
  <2>5. ASSUME NEW s \in Section, Expand(s) \/ Collapse(s) \/ Leave(s)
        PROVE  SectionsInv'
    BY <2>5, ExpandSections, FoldSections
  <2>6. QED
    BY <2>1, <2>2, <2>3, <2>4, <2>5 DEF UNext
<1>2. SectionsInv => SectionsFollowState
  BY DEF SectionsInv, SectionsTypeOK, FoldedAsSaved, DiagramIsCurrent,
         SectionsFollowState, IsCollapsed, Section
<1>3. QED
  BY InitSections, <1>1, <1>2, PTL DEF USpec

(* A tooltip that fits next to an edge of the window is wholly inside it,  *)
(* wherever the pointer is (app.js:1155-1185).                             *)
THEOREM TooltipStaysInside ==
  ASSUME NEW client \in Nat, NEW size \in Nat, NEW viewport \in Nat,
         client <= viewport, size + Edge <= viewport
  PROVE  Edge <= Place(client, size, viewport) /\ Place(client, size, viewport) + size <= viewport
BY DEF Place, Edge, Offset

-----------------------------------------------------------------------------
(* The dependency panel.                                                   *)

LoadsTypeOK ==
  /\ graph \in Graphs
  /\ load \in [Load -> [at : {"unused", "sent", "served"},
                        data : Graphs \cup {NoGraph, Refused}]]
  /\ \A l \in Load : load[l].at = "served" => load[l].data # NoGraph

\* A network that is seen was made of the last data.
NetworkIsLast ==
  panel = "network" =>
    /\ dependencyNetwork = dependencyGraphData
    /\ dependencyGraphData \notin {NoGraph, Refused}

LoadsInv == LoadsTypeOK /\ NetworkIsLast

LEMMA LoadGraph ==
  ASSUME LoadsInv, NEW l \in Load,
         LoadDependencyGraph(l) \/ LoadFails(l) \/ ServeGraph(l)
  PROVE  LoadsInv'
<1>1. CASE LoadDependencyGraph(l)
  <2>1. load[l].data \in Graphs \cup {Refused} /\ load[l].data # NoGraph
    BY <1>1 DEF LoadDependencyGraph, LoadsInv, LoadsTypeOK
  <2>2. NetworkIsLast'
    BY <1>1, <2>1 DEF LoadDependencyGraph, Drawable, RenderDependencyGraph, FailedToLoad, NetworkIsLast
  <2>3. LoadsTypeOK'
    BY <1>1 DEF LoadDependencyGraph, Unloaded, LoadsInv, LoadsTypeOK
  <2>4. QED
    BY <2>2, <2>3 DEF LoadsInv
<1>2. CASE LoadFails(l)
  <2>1. LoadsTypeOK'
    BY <1>2 DEF LoadFails, Unloaded, LoadsInv, LoadsTypeOK
  <2>2. QED
    BY <1>2, <2>1 DEF LoadFails, FailedToLoad, LoadsInv, NetworkIsLast
<1>3. CASE ServeGraph(l)
  <2>1. PICK answer \in {graph, Refused} :
          load' = [load EXCEPT ![l] = [at |-> "served", data |-> answer]]
    BY <1>3 DEF ServeGraph
  <2>2. answer \in Graphs \cup {Refused} /\ answer # NoGraph
    BY <2>1, GraphAssumption DEF LoadsInv, LoadsTypeOK
  <2>3. LoadsTypeOK'
    BY <1>3, <2>1, <2>2 DEF ServeGraph, LoadsInv, LoadsTypeOK
  <2>4. QED
    BY <1>3, <2>3 DEF ServeGraph, drawing, LoadsInv, NetworkIsLast
<1>4. QED
  BY <1>1, <1>2, <1>3

(* A click and a name reach the same operators of a dependency graph that  *)
(* is seen, however loads overlap and end (app.js:2878-3008, 3131-3152).   *)
THEOREM OfferedIsAlwaysDrawn == PanelSpec => []OfferedIsDrawn
<1>1. PanelInit => LoadsInv
  <2> SUFFICES ASSUME PanelInit PROVE LoadsInv
    OBVIOUS
  <2>1. LoadsTypeOK
    BY DEF PanelInit, Unloaded, LoadsTypeOK
  <2>2. NetworkIsLast
    BY DEF PanelInit, NetworkIsLast
  <2>3. QED
    BY <2>1, <2>2 DEF LoadsInv
<1>2. LoadsInv /\ [PanelNext]_pvars => LoadsInv'
  <2> SUFFICES ASSUME LoadsInv, [PanelNext]_pvars PROVE LoadsInv'
    OBVIOUS
  <2>1. CASE ToggleDependencyGraph
    <3>1. LoadsTypeOK'
      BY <2>1 DEF ToggleDependencyGraph, LoadsInv, LoadsTypeOK
    <3>2. QED
      BY <2>1, <3>1 DEF ToggleDependencyGraph, drawing, LoadsInv, NetworkIsLast
  <2>2. CASE GraphMoves \/ UNCHANGED pvars
    BY <2>2 DEF GraphMoves, pvars, drawing, LoadsInv, LoadsTypeOK, NetworkIsLast
  <2>3. ASSUME NEW l \in Load, LoadDependencyGraph(l) \/ LoadFails(l) \/ ServeGraph(l)
        PROVE  LoadsInv'
    BY <2>3, LoadGraph
  <2>4. ASSUME NEW o \in Operator, ClickNode(o) \/ AnalyzeDependencyImpact(o)
        PROVE  LoadsInv'
    BY <2>4 DEF ClickNode, AnalyzeDependencyImpact, Ask, drawing, LoadsInv, LoadsTypeOK,
                NetworkIsLast
  <2>5. ASSUME NEW q \in Question, ServeImpact(q) \/ ShowOperatorImpact(q) \/ ImpactFails(q)
        PROVE  LoadsInv'
    BY <2>5 DEF ServeImpact, ShowOperatorImpact, ImpactFails, drawing, LoadsInv,
                LoadsTypeOK, NetworkIsLast
  <2>6. QED
    BY <2>1, <2>2, <2>3, <2>4, <2>5 DEF PanelNext
<1>3. LoadsInv => OfferedIsDrawn
  BY GraphAssumption
  DEF LoadsInv, NetworkIsLast, OfferedIsDrawn, Clickable, Nameable
<1>4. QED
  BY <1>1, <1>2, <1>3, PTL DEF PanelSpec

-----------------------------------------------------------------------------
(* The autonomous switch.                                                  *)

\* Each page that is open runs the one interval it has a name for, and a page
\* whose document is complete has one if its switch is on.
IntervalsAreNamed ==
  /\ enabled \in [Tab -> BOOLEAN] /\ stored \in BOOLEAN
  /\ document \in [Tab -> {"closed", "script", "complete"}]
  /\ nsaaSyncTimer \in [Tab -> BOOLEAN] /\ running \in [Tab -> Nat]
  /\ SyncFollowsSwitch

\* startNsaaAutoSync and stopNsaaAutoSync leave an open page with one interval
\* and with none.
LEMMA StartedOrStopped ==
  ASSUME IntervalsAreNamed, NEW t \in Tab, document[t] # "closed"
  PROVE  /\ StartNsaaAutoSync(t) =>
              /\ nsaaSyncTimer' = [nsaaSyncTimer EXCEPT ![t] = TRUE]
              /\ running' = [running EXCEPT ![t] = 1]
         /\ StopNsaaAutoSync(t) =>
              /\ nsaaSyncTimer' = [nsaaSyncTimer EXCEPT ![t] = FALSE]
              /\ running' = [running EXCEPT ![t] = 0]
<1>1. CASE nsaaSyncTimer[t]
  <2>1. running[t] = 1 /\ nsaaSyncTimer[t] = TRUE
    BY <1>1 DEF IntervalsAreNamed, SyncFollowsSwitch
  <2>2. QED
    BY <1>1, <2>1 DEF IntervalsAreNamed, StartNsaaAutoSync, StopNsaaAutoSync
<1>2. CASE ~nsaaSyncTimer[t]
  <2>1. running[t] = 0 /\ nsaaSyncTimer[t] = FALSE
    BY <1>2 DEF IntervalsAreNamed, SyncFollowsSwitch
  <2>2. QED
    BY <1>2, <2>1 DEF IntervalsAreNamed, StartNsaaAutoSync, StopNsaaAutoSync
<1>3. QED
  BY <1>1, <1>2

LEMMA SwitchStep ==
  ASSUME IntervalsAreNamed, [SNext]_svars
  PROVE  IntervalsAreNamed'
<1>1. CASE UNCHANGED svars
  BY <1>1 DEF svars, IntervalsAreNamed, SyncFollowsSwitch
<1>2. ASSUME NEW t \in Tab, RunScript(t)
      PROVE  IntervalsAreNamed'
  BY <1>2 DEF RunScript, IntervalsAreNamed, SyncFollowsSwitch
<1>3. ASSUME NEW t \in Tab, Close(t)
      PROVE  IntervalsAreNamed'
  BY <1>3 DEF Close, IntervalsAreNamed, SyncFollowsSwitch
<1>4. ASSUME NEW t \in Tab, LoadAutonomousMode(t)
      PROVE  IntervalsAreNamed'
  <2>1. /\ document[t] # "closed" /\ document' = [document EXCEPT ![t] = "complete"]
        /\ enabled' = [enabled EXCEPT ![t] = stored]
        /\ UNCHANGED stored
    BY <1>4 DEF LoadAutonomousMode
  <2>2. CASE stored
    <3>1. /\ nsaaSyncTimer' = [nsaaSyncTimer EXCEPT ![t] = TRUE]
          /\ running' = [running EXCEPT ![t] = 1]
      BY <1>4, <2>1, <2>2, StartedOrStopped DEF LoadAutonomousMode
    <3>2. QED
      BY <2>1, <3>1 DEF IntervalsAreNamed, SyncFollowsSwitch
  <2>3. CASE ~stored
    BY <1>4, <2>1, <2>3 DEF LoadAutonomousMode, IntervalsAreNamed, SyncFollowsSwitch
  <2>4. QED
    BY <2>2, <2>3
<1>5. ASSUME NEW t \in Tab, ToggleAutonomousMode(t)
      PROVE  IntervalsAreNamed'
  <2>1. /\ document[t] # "closed" /\ UNCHANGED document
        /\ enabled' = [enabled EXCEPT ![t] = ~@]
        /\ stored' \in BOOLEAN
    BY <1>5 DEF ToggleAutonomousMode
  <2>2. CASE enabled[t]
    <3>1. /\ nsaaSyncTimer' = [nsaaSyncTimer EXCEPT ![t] = FALSE]
          /\ running' = [running EXCEPT ![t] = 0]
      BY <1>5, <2>1, <2>2, StartedOrStopped DEF ToggleAutonomousMode
    <3>2. QED
      BY <2>1, <2>2, <3>1 DEF IntervalsAreNamed, SyncFollowsSwitch
  <2>3. CASE ~enabled[t]
    <3>1. /\ nsaaSyncTimer' = [nsaaSyncTimer EXCEPT ![t] = TRUE]
          /\ running' = [running EXCEPT ![t] = 1]
      BY <1>5, <2>1, <2>3, StartedOrStopped DEF ToggleAutonomousMode
    <3>2. QED
      BY <2>1, <3>1 DEF IntervalsAreNamed, SyncFollowsSwitch
  <2>4. QED
    BY <2>2, <2>3
<1>6. ASSUME NEW t \in Tab, SyncToNSAA(t) \/ SyncEnds(t)
      PROVE  IntervalsAreNamed'
  BY <1>6 DEF SyncToNSAA, SyncEnds, IntervalsAreNamed, SyncFollowsSwitch
<1>7. QED
  BY <1>1, <1>2, <1>3, <1>4, <1>5, <1>6 DEF SNext

(* Whatever is clicked in whichever page and moment, an open page never    *)
(* has two intervals nor one that it cannot stop, and one that is complete *)
(* and switched on has one (app.js:1834-1846, 1881-1896, 2176-2188).       *)
THEOREM SyncAlwaysFollowsSwitch == SSpec => []SyncFollowsSwitch
<1>1. SInit => IntervalsAreNamed
  BY DEF SInit, IntervalsAreNamed, SyncFollowsSwitch
<1>2. IntervalsAreNamed /\ [SNext]_svars => IntervalsAreNamed'
  BY SwitchStep
<1>3. IntervalsAreNamed => SyncFollowsSwitch
  BY DEF IntervalsAreNamed
<1>4. QED
  BY <1>1, <1>2, <1>3, PTL DEF SSpec

-----------------------------------------------------------------------------
(* The requests of the user.                                               *)

RequestsTypeOK ==
  /\ request \in [Slot -> [what : Kinds \cup {"nothing"},
                           answer : {"none", "success", "failure", "error", "unreadable"},
                           done : BOOLEAN]]
  /\ dialog.reload \in BOOLEAN
  /\ reloads \in Nat /\ unloaded \in BOOLEAN

\* A success that is relayed is one of something done.
SuccessIsDone ==
  \A s \in Slot : request[s].answer = "success" =>
    request[s].done \/ request[s].what \notin Relayed

RequestsInv == RequestsTypeOK /\ SuccessIsDone /\ ToldTheTruth

LEMMA TellRequests ==
  ASSUME RequestsInv, NEW s \in Slot, Tell(s)
  PROVE  RequestsInv'
<1>1. /\ dialog.reload = FALSE
      /\ dialog'.says = Verdict(request[s]) /\ dialog'.of = request[s]
      /\ dialog'.reload \in BOOLEAN
      /\ request' = [request EXCEPT ![s] = Unsent]
      /\ unloaded' = (unloaded \/ dialog'.reload)
      /\ UNCHANGED reloads
  BY DEF Tell, NoDialog
<1>2. RequestsTypeOK' /\ SuccessIsDone'
  BY <1>1 DEF RequestsInv, RequestsTypeOK, SuccessIsDone, Unsent
<1>3. dialog'.says = "done" /\ dialog'.of.what \in Relayed => dialog'.of.done
  BY <1>1 DEF Verdict, Relayed, RequestsInv, RequestsTypeOK, SuccessIsDone
<1>4. unloaded' => dialog'.reload \/ reloads' > 0
  BY <1>1 DEF RequestsInv, ToldTheTruth
<1>5. QED
  BY <1>2, <1>3, <1>4 DEF RequestsInv, ToldTheTruth

\* The user asks, the server acts and answers: nothing is told yet.
LEMMA AskRequests ==
  ASSUME RequestsInv, NEW s \in Slot,
         (\E what \in Kinds : Send(s, what)) \/ Perform(s) \/ Answered(s)
  PROVE  RequestsInv'
<1>1. UNCHANGED <<dialog, reloads, unloaded>>
  BY DEF Send, Perform, Answered
<1>2. ToldTheTruth'
  BY <1>1 DEF RequestsInv, ToldTheTruth
<1>3. RequestsTypeOK' /\ SuccessIsDone'
  <2>1. ASSUME NEW what \in Kinds, Send(s, what)
        PROVE  RequestsTypeOK' /\ SuccessIsDone'
    <3>1. request' = [request EXCEPT ![s] = [Unsent EXCEPT !.what = what]]
      BY <2>1 DEF Send
    <3>2. /\ [Unsent EXCEPT !.what = what]
                 \in [what : Kinds \cup {"nothing"},
                      answer : {"none", "success", "failure", "error", "unreadable"},
                      done : BOOLEAN]
          /\ [Unsent EXCEPT !.what = what].answer = "none"
      BY DEF Unsent
    <3>3. QED
      BY <1>1, <3>1, <3>2 DEF RequestsInv, RequestsTypeOK, SuccessIsDone
  <2>2. CASE Perform(s)
    BY <1>1, <2>2 DEF Perform, RequestsInv, RequestsTypeOK, SuccessIsDone
  <2>3. CASE Answered(s)
    <3>1. PICK answer \in {"success", "failure", "error", "unreadable"} :
            /\ answer = "success" => request[s].done \/ request[s].what \notin Relayed
            /\ request' = [request EXCEPT ![s].answer = answer]
      BY <2>3 DEF Answered
    <3>2. QED
      BY <1>1, <3>1 DEF RequestsInv, RequestsTypeOK, SuccessIsDone
  <2>4. QED
    BY <2>1, <2>2, <2>3
<1>4. QED
  BY <1>2, <1>3 DEF RequestsInv

\* The alert is closed or refuses, the page is loaded again, the switch clicked.
LEMMA AsideRequests ==
  ASSUME RequestsInv,
         Dismiss \/ Reload \/ Switched \/ (\E what \in Kinds : Refuse(what)) \/ UNCHANGED qvars
  PROVE  RequestsInv'
<1>1. CASE Dismiss
  <2>1. UNCHANGED <<request, unloaded>> /\ dialog' = NoDialog
    BY <1>1 DEF Dismiss
  <2>2. reloads' \in Nat /\ (dialog.reload \/ reloads > 0 => reloads' > 0)
    BY <1>1, RequestsAssumption DEF Dismiss, RequestsInv, RequestsTypeOK
  <2>3. QED
    BY <2>1, <2>2 DEF NoDialog, RequestsInv, RequestsTypeOK, SuccessIsDone, ToldTheTruth
<1>2. CASE Reload
  BY <1>2 DEF Reload, NoDialog, Unsent, RequestsInv, RequestsTypeOK, SuccessIsDone, ToldTheTruth
<1>3. CASE Switched \/ UNCHANGED qvars
  BY <1>3 DEF Switched, qvars, RequestsInv, RequestsTypeOK, SuccessIsDone, ToldTheTruth
<1>4. ASSUME NEW what \in Kinds, Refuse(what)
      PROVE  RequestsInv'
  <2>1. /\ dialog.reload = FALSE
        /\ dialog'.says = "refused" /\ dialog'.reload = FALSE
        /\ UNCHANGED <<request, reloads, unloaded>>
    BY <1>4 DEF Refuse, NoDialog
  <2>2. QED
    BY <2>1 DEF RequestsInv, RequestsTypeOK, SuccessIsDone, ToldTheTruth
<1>5. QED
  BY <1>1, <1>2, <1>3, <1>4

(* An alert that reports something as done, other than a remediation or a  *)
(* dispatch, is true of what the servers did, and the page that a change   *)
(* was confirmed on will be loaded again, for any number of requests in    *)
(* any order (app.js:2468-2507, 2613-2745).                                *)
THEOREM ToldTheTruthAlways == QSpec => []ToldTheTruth
<1>1. QInit => RequestsInv
  <2> SUFFICES ASSUME QInit PROVE RequestsInv
    OBVIOUS
  <2>1. Unsent \in [what : Kinds \cup {"nothing"},
                   answer : {"none", "success", "failure", "error", "unreadable"},
                   done : BOOLEAN]
    BY DEF Unsent
  <2>2. RequestsTypeOK
    BY <2>1 DEF QInit, NoDialog, RequestsTypeOK
  <2>3. SuccessIsDone /\ ToldTheTruth
    BY DEF QInit, NoDialog, Unsent, SuccessIsDone, ToldTheTruth
  <2>4. QED
    BY <2>2, <2>3 DEF RequestsInv
<1>2. RequestsInv /\ [QNext]_qvars => RequestsInv'
  BY TellRequests, AskRequests, AsideRequests DEF QNext
<1>3. RequestsInv => ToldTheTruth
  BY DEF RequestsInv
<1>4. QED
  BY <1>1, <1>2, <1>3, PTL DEF QSpec
=============================================================================
