\* The memory levels the operator reports (400, 455, 490, 525) and others off
\* its grid, so that histories rise, fall and stay flat on both sides of the
\* limit and at it, and fall towards it; two fields, an object or an array among
\* them, with one field below; three operators; two Subscriptions, two
\* discoveries, and a request whose three reads fall anywhere between them.
CONSTANTS
  Sample = {400, 455, 490, 512, 525, 530, 540}
  Limit = 512
  Window = 5
  MinSamples = 3

  f = f
  g = g
  x = x
  home = home
  away = away
  SpecProperties <- MCSpecProperties
  Specs <- MCSpecs
  Depth <- MCDepth
  SpecDepth <- MCSpecDepth
  CRLists <- MCCRLists
  Home = home
  Item = Item

  alpha = alpha
  beta = beta
  gamma = gamma
  delta = delta
  K = K
  L = L
  Name = {alpha, beta, gamma, delta}
  Kind = {K, L}
  Phase = {"Succeeded", "UpgradePending", "Failed", "Unknown"}
  NoHead = NoHead
  Found <- MCFound
  MaxOperators = 3

  Subscription = {s1, s2}
  BrainRequest = {r1}
  MaxVersion = 2
  MaxDiscoveries = 2

SPECIFICATION RSpec

INVARIANTS
  AlarmIsRight
  ShownIffPathIsGone
  FlowAscends
  LinkTypeIsItsClass
  ImpactMatchesGraph
  UpgradeWasThere
  CardsAgreeWithFlow
  LabelsAgree
  TopologyIsWhole
