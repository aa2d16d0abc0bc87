\* Two approvals in a namespace with two InstallPlans: stale lists, lost
\* replies, OLM writing the plans, one crash.
\* Three handlers of the inventory at once, three sweeps.
CONSTANTS
  ns1 = ns1
  opA = opA
  opB = opB
  none = none
  Namespace = {ns1}
  Sub = {opA, opB}
  NsOf <- MCNsOf
  NoChannel = none
  Channel = {stable}
  Plan = {1, 2}
  PlanOf <- MCPlanOf
  Pod = {}
  PodOf <- MCPodOf
  Request = {r1, r2}
  Offered <- Approvals
  Capacity = 2
  MaxRevision = 1
  MaxCrashes = 1

  Reader = {h1, h2, h3}
  MaxSweeps = 3

SPECIFICATION HandlersSpec

\* The requests and the sweeps are bounded and no client need come back.
CHECK_DEADLOCK FALSE

INVARIANTS
  NoPlanApprovedTwice
  OneConfirmedEffect
  AnswerFromOneSweep

PROPERTIES
  HandlerFinishes
  NeverBlanked
  RefinesAtomicInventory
  NobodyStarves
