\* Two fetches at once, two snapshots kept, four inventories: one without
\* nodes and one without a flow between two with both.
\* Two open pages of one browser, two dispatches of each under way.
\* One filter and one word to search; four timers of a modal.
\* Two loads of the graph and one analysis at once.
\* Two upgrade flows and an empty one; two timers of each kind.
\* Two requests of the user at once, two reloads that wait.
CONSTANTS
  Fetch = {f1, f2}
  MaxSnapshots = 2
  MaxInventory = 4
  Track = 4
  WithNodes = {1, 4}
  WithoutNodes = {2}
  Tab = {t1, t2}
  MaxSyncs = 2
  Inventories <- MCInventories
  Query = {"", "q"}
  CheckBox = {"idle"}
  Listed = {x1}
  MaxTimers = 4
  n1 = n1
  n2 = n2
  Graphs <- MCGraphs
  NoGraph = NoGraph
  Refused = Refused
  Load = {l1, l2}
  Question = {q1}
  Operator = {n1, n2}
  Flow = {u1, u2, EmptyFlow}
  EmptyFlow = EmptyFlow
  NoFlow = NoFlow
  MaxFolds = 2
  Slot = {s1, s2}
  MaxReloads = 2

SPECIFICATION MCSpec

INVARIANTS
  OneTimer
  CurrentIsShown
  SyncFollowsSwitch
  GridIsTheFilter
  CardsAreCurrent
  NoInvisibleOverlay
  OfferedIsDrawn
  SectionsFollowState
  ToldTheTruth

PROPERTIES
  KeepsAsking
  OlderOnlyIfOvertaken
  ClosedGoesAway
