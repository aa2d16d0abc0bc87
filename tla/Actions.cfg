\* Every action of the dashboard on one operator, two requests.  A log of one
\* entry is full as soon as one of them is recorded.
\* One pod whose reports overlap in two threads of the brain, and a restart of
\* either side.  The tracker climbs to the level where a restart is asked for; a
\* window of three is full, and overfull, as soon as a verdict is possible.
CONSTANTS
  ns1 = ns1
  opA = opA
  opB = opB
  none = none
  Namespace = {ns1}
  Sub = {opA, opB}
  NsOf <- MCNsOf
  NoChannel = none
  Channel = {stable, fast}
  Plan = {1, 2}
  PlanOf <- MCPlanOf
  Pod = {11}
  PodOf <- MCPodOf
  Request = {r1, r2}
  Offered <- AllActions
  Capacity = 1
  MaxRevision = 1
  MaxCrashes = 1

  p1 = p1
  Monitored = {p1}
  PodOrder <- OneOrder
  Thread = {t1, t2}
  None = none
  Base = 420
  Step = 35
  Limit = 512
  Window = 3
  MinSamples = 3
  MaxTracker = 490
  MaxRestarts = 1

SPECIFICATION ActionsSpec

\* The requests are bounded: a behaviour of the handlers stops when all are
\* answered.
CHECK_DEADLOCK FALSE

INVARIANTS
  OkMeansDone
  ChangesAreTraced
  ExactlyOnceAudit
  HistoryBounded

PROPERTIES
  AnswerIsFinal
  EvictsOnFreshAnswer
  LoopNeverHangs
