\* One operator with two CSVs that is installed, upgraded, used and removed
\* under the sweep.
\* Two containers in a pod; at most one plan, Subscription and CSV, two sources.
\* The audit slice holds two events and three are recorded between restarts, so
\* an event falls out of it; two names, so that a filter lets only some through.
CONSTANTS
  Op = {alpha}
  Version = {v1, v2}
  NoCsv = NoCsv
  Owner = {alpha}
  Exempt = {}
  MaxChanges = 2

  home = home
  away = away
  system = system
  Pods <- MCPods
  Plans <- MCPlans
  Sources <- MCSources
  Subs <- MCSubs
  Csvs <- MCCsvs
  UserNamespace = {home, away}

  Namespace = {ns1}
  Name = {opA, opB}
  Detail = {none}
  Unset = Unset
  Capacity = 2
  MaxRecords = 3

SPECIFICATION OpSpec

INVARIANTS
  ZombieLostItsSubscription
  InventoryIsTrue
  HealthAgrees
  RecentWindow

PROPERTY RefinesJournal
