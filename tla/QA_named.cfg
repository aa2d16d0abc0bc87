\* One approval, of an operator that shares its namespace.
CONSTANTS
  ns1 = ns1
  opA = opA
  opB = opB
  none = none
  Namespace = {ns1}
  Sub = {opA, opB}
  NsOf <- MCNsOf
  NoChannel = none
  Channel = {stable}
  Plan = {1, 2}
  PlanOf <- MCPlanOf
  Pod = {}
  PodOf <- MCPodOf
  Request = {r1}
  Offered <- Approvals
  Capacity = 2
  MaxRevision = 0
  MaxCrashes = 0

SPECIFICATION Spec

\* The requests are bounded: the system stops when all are answered.
CHECK_DEADLOCK FALSE

INVARIANTS
  ApprovesNamedOperator
