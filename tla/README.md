# hybrid-operator: specifications, model checking, proofs

TLA+ specifications of the hybrid operator: the Go process that watches the
Operator Lifecycle Manager (OLM) of an OpenShift cluster and acts on it, the
Python brain that predicts memory leaks, and the dashboard in front of both.
Every definition is translated from the source under `src/`; `PROJECT.json` maps
each one to its lines.

## The system

| Component | State | Operations | Talks to |
|---|---|---|---|
| Audit log (`operator/main.go` 43-106) | `auditLog`, a slice of at most `auditLogCapacity` events, under `auditLock` | `recordAudit`, `handleGetAuditEvents` (newest first, filtered) | called by the quick actions, read by the dashboard |
| Quick actions (`main.go` 142-319, `remediation.go` 171-230) | none of their own; one goroutine per request | approve, restart, delete, change channel | Kubernetes API, audit log |
| Dashboard proxy (`dashboard/server.py` 211-257) | none | forwards a request, waits ten seconds | operator, browser |
| Inventory cache (`main.go` 55-63, 108-133, 657-685) | `opCache` under `cacheLock` | `collectOperators` every minute, six handlers that read | collector, dashboard, brain |
| Governance sweep (`collector.go` 236-581, 614-760) | locals of one call | lists CSVs, Subscriptions, custom resources, ...; joins them | Kubernetes API |
| OLM health (`collector_health.go`, `collector.go` 612-757) | none; part of the sweep's result | pods, InstallPlans, sources; the scan for anomalies | sweep, dashboard |
| Telemetry loop (`main.go` 687-754) | `simulatedMemoryTracker` | list pods, report each, evict | brain, Kubernetes API |
| Leak predictor (`brain/app.py` 149-179) | `pod_history`, five samples per pod, no lock | `receive_telemetry`, one thread per request | telemetry loop |
| Brain inventory (`brain/app.py` 41-142, 182-207) | `evaluated_olm_inventory`, replaced by a background thread | discovery loop, fallback of `get_catalog_targets` | Kubernetes API, operator |
| Upgrade paths, scores, dependency graph, schema diff (`collector.go`, `remediation.go`, `schema_diff.go`) | none | pure functions of one inventory | sweep, dashboard |
| CVE scanner (`operator/pkg/security`) | a cache with a time to live | lookups by package | outside service |
| Page: inventory (`app.js` 33-131, 720-932) | what is on screen, copy in `localStorage`, refresh timer, snapshots of the upgrade flow | fetch, refresh, slide, clear | dashboard server |
| Page: switch (`app.js` 1834-1896, 2176-2188) | autonomous switch and its interval, per page; the stored choice | toggle, dispatch to the agent | other pages, server |
| Page: grid (`app.js` 1308-1741, 2211-2466) | search, filters, selection, the cards | search, filter, compare, export, menus | page inventory |
| Page: modals (`app.js` 537-580, 2121-2209, ..., `crd_diff_viewer.js`) | two classes per modal, timers | open, close | grid, panel |
| Page: sections and diagram (`app.js` 934-1185, 1898-1970) | folded sections, diagram, timers | fold, unfold, draw | page inventory |
| Page: dependency panel (`app.js` 2859-3152) | the graph, its network | load, analyse | server |
| Page: requests (`app.js` 2123-2146, 2468-2507, 2613-2745) | requests and alerts under way | send, tell, load again | server |

What is hard here: goroutines, threads and browser callbacks that interleave
between any two calls; API calls whose reply is lost after they took effect; two
timeouts (five seconds towards the brain, ten towards the operator) with the work
going on behind them; timers of the page that nothing cancels; state in memory
that a restart loses; an inventory joined from lists of different moments; and
one inventory from which a dozen places, on both sides of the wire, each draw
their own conclusions. `PROJECT.json` lists each hazard at its line.

## The modules

`PROJECT.json` ("map") gives for every definition the lines it stands for; the
correspondence in short:

| Module | Models | State | Actions |
|---|---|---|---|
| `AuditEvents`, `AuditLog` | `recordAudit`, `handleGetAuditEvents` | `auditLog` as the sequence it is, `page` the last answer of the endpoint, `journal` a history of all that happened | `RecordAudit`, `GetAuditEvents`, `Restart` |
| `AuditJournal` | what the log promises: a journal with a horizon | `happened`, `page` | record, read, forget |
| `QuickActions` | the four POST handlers, `ExecuteRemediationAction`, the dashboard's proxy | per request: program counter, list read, objects left; the cluster; the audit log, an `INSTANCE` of `AuditLog` | one per call to the Kubernetes API, plus the answer, the proxy's timeout, a crash; OLM and the kubelet as external actions |
| `InventoryCache` | `collectOperators` and the handlers that hold the read lock | `opCache` as two words, the RWMutex through `sweep` and `place` | lock, assign, read, send, one by one |
| `AtomicInventory` | what the cache promises: a register of whole inventories | `current`, `view` | publish, serve, lose |
| `GovernanceSweep` | `GetClusterGovernance` against a cluster that changes | the lists taken so far; `past`, the history of the cluster during the sweep | one per list and one per operator inspected |
| `OLMHealth` | `CollectOLMHealthStatus`, `DetectAnomalies`; the panel, banner and list of the page | the lists of the last sweep, the health, the anomalies | `SweepEnds`, `RestartOperator` |
| `LeastSquares`, `LeakWindow` | `receive_telemetry` for one pod, one request at a time | `history`, `action` | `ReceiveTelemetry` |
| `Telemetry` | `runTelemetryLoop`, `sendToExternalBrain` and the request threads of the brain | the loop's locals and tracker, `pod_history`, one program counter per thread, the pods | one per line at which two threads can interleave; timeouts, restarts |
| `UpgradeFlow` | what the sweep concludes from one operator, the upgrade flow, the dependency graph, the impact analysis, the two scores | `operators`, the slice of results | `Inspect`, `ResultsAfresh` |
| `CardViews` | what the page makes of that slice: tiles, lists, charts, cards, labels, topology | as `UpgradeFlow` | as `UpgradeFlow` |
| `Subsequences` | what `filter` leaves of an array, for the modules of the page | none | none |
| `SchemaDiff` | `AnalyzeCRDBreakingChanges` and the recursion under it | the input of one analysis, its result | `AnalyzeCRD`, `DiffAfresh` |
| `DiffViewer` | what `crd_diff_viewer.js` and a card make of that result | as `SchemaDiff` | as `SchemaDiff` |
| `BrainInventory` | the discovery thread of the brain and the fallback of `get_catalog_targets` | the thread's list, the global, what a request has read; the catalog as external | list, one package at a time, publish; three reads of a request |
| `DashboardPage` | `fetchTargets`, the refresh timer, the cached copy, the timeline of upgrade flows | the page's globals, `localStorage`, the fetches under way | one per callback |
| `AutonomousSwitch` | the autonomous switch and the interval that dispatches to the agent | per page: copy of the switch, interval, dispatches under way; the stored choice | load, click, interval, answer |
| `PageOperators`, `OperatorGrid` | how the page tells operators apart; search, filters, cards, menus, comparison, exports | inputs, selection, `cards` as they were last rendered | one per callback: fetched, debounce, check box, tick, menu, click elsewhere |
| `PageModals` | the eight modals | the classes of one of them, its timers in the order set | open, close, a timer fires |
| `UpgradeDiagram` | the sections that fold, the diagram in one of them, its tooltip | the saved state, height and layout of each, timers, what is drawn | fold, unfold, timers, a new flow, the pointer |
| `DependencyPanel` | the dependency graph and the impact analysis | the data, the network that is drawn, requests under way | open, load, fail, click, ask by name, answer |
| `PageRequests` | quick actions, reads, remediation and dispatch as the user sees them | requests, the alert, reloads that wait | send, carry out, answer, tell, dismiss, load again |

How they are composed. `QuickActions` composes the handlers with `AuditLog`, whose
`RecordAudit` is what they call; `Telemetry` composes the Go loop with
the brain's threads and takes the verdict from `LeakWindow` by `INSTANCE`;
`CardViews` extends `UpgradeFlow` and `DiffViewer` extends `SchemaDiff`, so that
what the page says is held against what the operator computed from the same
input. `MCHandlers`, `MCActions`, `MCOperator`, `MCRules` and `MCPage` put components
that share no variable side by side in one run: a step of one is allowed only
while the others are in one initial state, so that the state space is the sum and
not the product. `MCQuickActions` gives the constants of the quick actions values.

Operators whose comment begins with "A bug:" are variants of a definition, with a
mistake that could have been made there; no specification uses them. Each checked
property is false when one of them takes the place of the definition it varies.

## What is abstracted

- Names, messages, wording, logging and colours. A conversion is kept by what it
  does: `parseSemver` gives three numbers, a version text is those and whether it
  is exactly their formatted form, a dotted field path is the sequence of its
  parts.
- `LeakWindow`: `numpy.polyfit` computes in floating point. The exact slope and
  projection are multiples of a fiftieth for a window of five, so that the error of
  the fit decides a comparison only where both sides are equal: a slope of zero,
  a projection that meets the limit. There the model takes either outcome
  (`Positive`). So a flat history at or above the limit may be restarted, and
  `AlarmIsRight` allows it.
- `Telemetry` reads `pod_history[pod]` where the code holds the reference
  `history`, and merges the fit with its later read of `history[-1]` in one step.
- `GovernanceSweep` gives every operator its own namespace with at most one
  Subscription; routes, images and package manifests are left out. The anomalies
  other than zombies are in `OLMHealth`, which takes finished lists as its input.
- `UpgradeFlow` takes a finished inspection as its input instead of the API's
  objects; names are never empty there, so the code's "Unknown" labels do not
  occur.
- `SchemaDiff` analyses one CRD at a time, and a field's name has no dot. What
  follows from several versions of one kind in one CSV is not modelled there. The
  elements of an array (`items`) and the entries of a map with free keys
  (`additionalProperties`) are below a step named `Item`, which the code never takes
  (`schema_diff.go:217`), so that what it misses there occurs in the model.
- `DashboardPage`: an inventory has an upgrade flow with nodes, one without nodes,
  or none (`WithNodes`, `WithoutNodes`). The server is never asked conditionally, so
  a 304 does not reach the script. One page: two pages of one browser share the
  snapshots in `localStorage`, which the model of the timeline leaves out.
- `PageRequests`: a server carries out what it was asked to or not. A remediation is
  carried out by nobody, as in `server.py:294`.
- `PageModals` follows one modal per behaviour, and `UpgradeDiagram` two of the
  sections: no others share anything with them but the record that is saved.
- The parts of the page are modelled apart. A fetch reaches the grid, the sections
  and the open modals as an input (`Fetched`, `RenderSankeyDiagram`, `NewInventory`),
  at any moment; its timing is the subject of `DashboardPage`.
- The Kubernetes API is external and modelled by what the handlers rely on: an
  Update with an old `resourceVersion` is refused, a reply may be lost after the
  call took effect, a list may fail.

## The runs

Every bound below is named in its `.cfg`.

| Run | Question | Bounds, and why they are enough |
|---|---|---|
| `handlers` | Can two approvals that read the same list approve one InstallPlan twice (`NoPlanApprovedTwice`)? Does a request confirm more than one effect (`OneConfirmedEffect`)? Does every handler end (`HandlerFinishes`)? Can a handler answer with parts of two sweeps (`AnswerFromOneSweep`), does a failed sweep blank the cache (`NeverBlanked`), can readers starve the writer or it them (`NobodyStarves`)? And the refinement of `AtomicInventory` | Two requests, two plans, one status write of OLM per plan (a stale list without any other request) and one crash: each plan is contended by two at a time. Three handlers (one inside, one waiting, one arriving), three sweeps |
| `actions` | For all four actions: does "ok" mean done (`OkMeansDone`), does no change in the cluster go without its entry in the log, also when its reply was lost or the proxy gave up (`ChangesAreTraced`), is each request in the journal exactly once (`ExactlyOnceAudit`), is an answer final (`AnswerIsFinal`)? And of the telemetry loop, where threads whose client gave up run on beside later ones: do the histories stay bounded (`HistoryBounded`), is an eviction always on the answer to the report just sent (`EvictsOnFreshAnswer`), does a hanging brain stop the loop (`LoopNeverHangs`)? | Two requests of any kinds, two plans, one pod, one write of OLM; a log of one entry, so that it is full at once; one crash. One monitored pod (the brain keeps one list per pod, and the loop reports one at a time), two threads, one restart of either side |
| `approve_other` | Finding: does an approval approve what the user was asked about? No | One request, two operators of one namespace |
| `operator` | The lists of one sweep are of different moments and some fail: is every operator in, is none called a zombie or a blocker without a reason (`InventoryIsTrue`, `ZombieLostItsSubscription`)? Do badge, banner and summaries of OLM agree (`HealthAgrees`)? Is the cut audit slice the recent part of what happened, and does the endpoint, which reads it backwards with filters, answer as `AuditJournal` allows (`RecentWindow`, `RefinesJournal`)? | One operator (they do not influence each other in a sweep), two CSVs, two changes of the cluster between any two lists; two containers in a pod, at most one plan, Subscription and CSV and two sources (each is counted by itself); a slice of two and three records, so that an event falls out and a filter skips one that stayed |
| `sweep_idle` | Finding: an operator in use is called idle when its list of custom resources fails | One change |
| `rules` | Over every small input: the leak verdict (`AlarmIsRight`); the schema diff up to each row on the screen, against a definition by paths (`ShownIffPathIsGone`); flow, graph and impact (`FlowAscends`, `LinkTypeIsItsClass`, `ImpactMatchesGraph`); the brain's inventory while its cluster changes (`UpgradeWasThere`); and the page's view of the slice (`CardsAgreeWithFlow`, `LabelsAgree`, `TopologyIsWhole`) | Seven memory levels, below, at and above the limit, and windows of five; schemas of two fields, one of them an object or an array of strings or objects (`Specs`, `Depth` and `SpecDepth` are computed from them); three operators in three versions; two Subscriptions, two discoveries, one request whose three reads fall between them |
| `rules_crs` | Finding: custom resources outside the namespace of the operator | as `rules` |
| `rules_types` | Finding: a field whose type the upgrade changes | as `rules` |
| `page` | With answers in any order, errors and reloads: one timer at most (`OneTimer`), a timeline that tells the truth (`CurrentIsShown`), an older inventory only from an overtaken answer (`OlderOnlyIfOvertaken`), refreshing that never stops (`KeepsAsking`). The interval follows the switch (`SyncFollowsSwitch`). The cards are what search and filters hold, and keep up with clicks (`GridIsTheFilter`, `CardsAreCurrent`). Timers that overtake each other leave no modal in the way and no section in a wrong state (`NoInvisibleOverlay`, `ClosedGoesAway`, `SectionsFollowState`). What is clickable is drawn (`OfferedIsDrawn`), and what is told on the word of the one that did it is true (`ToldTheTruth`) | Two fetches at once; four inventories, one with a flow without nodes and one without a flow between two that have both; a timeline of two, to which each fetch of one of those two adds a snapshot, so that it is full and overfull; two pages with two dispatches each; two inventories, five operators (one more than can be compared, and two of one name); four timers of a modal; two loads and three graphs, one with a name twice; two timers of each kind for a section; two requests, two reloads |
| `page_clear` | Finding: what is drawn after the timeline is cleared | One fetch, two snapshots |
| `told_done` | Finding: "executed successfully" of a remediation that nobody carries out, and "Dispatch Successful" of one that the agent refused | One request |
| `impact_error` | Finding: a refused analysis is shown as "safe to remove" | as `page` |

The seven findings are disagreements between the code and what its own comments,
prompts or messages say; `PROJECT.json` quotes both sides.

Results that hold only under a condition, which the properties state: a link of
the upgrade flow shows the class of each of its operators when no two operators
have one name (`LinkTypeIsItsClass`); a modal that is opened within 200 ms of a
close is hidden by the timer of that close (`NoInvisibleOverlay`); ticks and
selection differ while three operators are selected, by the boxes refused since
then, and with two operators of one name the menu that opens may be the other
one's (`CardsAreCurrent`); what is told as not done may have been done, or be yet,
and what is told of a remediation or a dispatch comes from the dashboard and not
from the one that should do it (`ToldTheTruth`); what the screen calls compatible may
not have been compared: resources of another namespace, a list or a schema that
could not be read, and what is below the elements of an array (`Seen` in
`DiffViewer`, with `schema_diff.go:84` and `crd_diff_viewer.js:86`); an inventory without
nodes, the first of an operator that has just restarted, leaves the timeline as it
was, with the label CURRENT on an older snapshot (`CurrentIsShown`); and an upgrade
that the brain announces may be of a Subscription that was removed or made anew
since (`UpgradeWasThere`). The switch has one corner the property excludes: two clicks in a
page before its stored value is read, with a click in another page in between,
leave an interval running under a switch that is off (`SyncFollowsSwitch`).

## Fairness

- `QuickActions`: each handler takes its next step. The goroutines are scheduled
  by the runtime; a call to the API server returns, with an answer or with an
  error when the connection breaks. Crashes, timeouts, OLM and the pods are not
  fair.
- `Telemetry`: only the operator's goroutine and its timer are fair, and the timer
  because the HTTP client has a timeout of five seconds (`main.go:740`). Nothing
  is assumed of the brain, so that the loop must go on beside a brain that hangs.
- `InventoryCache`: the goroutines inside the lock and the sweeper waiting for it
  run on. `Send` is fair because the only clients, the brain and the dashboard on
  the same host, give up after five and ten seconds; the server itself has no write
  timeout. A waiting writer lets no new reader in, as `sync.RWMutex` documents.
- `DashboardPage`: the browser runs its intervals, and a fetch ends in some way.
- `PageModals`: the browser runs the timers that were set. Nothing is assumed of
  the user.
- All others: none; no liveness is claimed. In particular the Kubernetes client of
  the brain has no time limit, so nothing says that a discovery ends.

The runs that put components side by side take the fairness of each. A component
that rests in its initial state has no fair step enabled there, so that the
conjunction asks nothing impossible.

## What is proved

TLAPS proves the following for every value of the constants that satisfies the
named assumptions of the modules. Every invariant that a run checks has a
theorem. Each proof has one inductive invariant; the property alone is seldom
inductive, and the list says what is added to it.

`HandlersProofs` (`QuickActions`, `InventoryCache`)

- `ApprovedOnce`: no InstallPlan is approved for two requests. A handler may hold an
  old list, so `ApprovalInv` adds what makes such a list harmless
  (`ListIsStaleOnceApproved`: a listed plan that was approved since has a newer
  revision than the one in the list, so the Update will be refused) and that what
  a request changed stays approved.
- `OneEffectAlways` and `AnswerIsAlwaysFinal` from `EffectInv`: before a success nothing
  is confirmed, after it the loop is left (`OneEffect`), and an answer other than the
  proxy's comes after the last call (`AnsweredLast`).
- `OkIsAlwaysTrue` from `DoneInv`: what a handler has listed is what it was asked about
  (`ListedIsAsked`), and what was confirmed to it holds in the cluster
  (`ConfirmedHolds`), because no step of the model takes an approval, a stopped pod
  or a deleted Subscription back (`NothingUndone`).
- `ExactlyOnceAlways` from `JournalInv`. The property counts the entries of the journal
  that speak of a request; the invariant has no count but a function from the
  entries to the requests that wrote them, one to one and onto those that have
  recorded (`Wrote`). Restricted to one kind of entry it is a bijection, so that the
  two counts are equal. The journal is finite; of the requests nothing is asked.
- `ChangesAlwaysTraced` from `TraceInv` with the two before: what changed in the
  cluster was touched by a request that asked for it, a request that touched
  something goes on to its record or is dead, and what it recorded is in the slice
  as long as the slice is the recent part of the journal (`RecentWindow`).
  `AllTypeCorrect` is the rest of the types.
- `NoTornAnswer`, `NotBlanked`, `ImplementsAtomicInventory` and `CacheTypeCorrect` from
  `CacheInv`: while the struct is being assigned no handler is inside the lock, the
  half that is assigned is the sweep under way, and what a handler read first is
  still in the cache when it reads the rest.

`OperatorProofs` (`GovernanceSweep`, `OLMHealth`, `DiffViewer`, `AuditLog`)

- `ZombieAlwaysLostIt` and `InventoryIsAlwaysTrue` from `SweepInv`: each list is the
  cluster of one moment of the sweep, the CSVs' not after the Subscriptions'
  (`ListsAreOfMoments`), and what is found of an operator follows from the two lists
  alone (`FoundByLists`). For any number of operators, versions and changes; every
  change of the cluster only adds a moment.
- `HealthAlwaysAgrees` from `ResultsOfLists`: health and anomalies are those of one
  sweep, or nothing is known yet. What is left is about two scans of the same lists:
  a list of anomalies that is empty has none from any of its parts (`NoAnomaly`),
  and a summary is red for a reason in the lists (`RedHasAReason`). For lists of any
  length (`ListsAssumption`: they are sequences).
- `ShownAlwaysIffGone` from `DiffInv`. By the depth of the current schema, which the
  assumptions make finite, whatever `Removed` has is gone, and whatever is gone lies
  at or below something removed (`CoversTheGone`; an object that collapsed takes all
  that is in it along). A resource that sets a path sets each beginning of it
  (`ClosedUpwards`), and the walk of `hasFieldInSpec` along a path ends at a value if
  and only if the path is set (`StepsExist`, `RestOfPath`), for paths outside
  arrays (`PlainPaths`), the only ones that `Removed` has. So a resource has a row for
  a path if and only if that is the outermost it loses (`RowIffTopmost`), and every loss
  is at or below one (`EveryLossIsCovered`). `SchemaAssumption` and `SpecAssumption` say
  what is asked of the constants: names without dots, nesting that ends, and nothing
  but elements inside what is not an object.
- `TypeCorrect`, `RecentWindowHolds` (the slice is the recent part of what was recorded
  since the process started, because the cut is of the old end: `TruncateFacts`) and
  `ImplementsJournal`: each page the endpoint builds by reading the slice backwards
  is one the journal allows. A capacity of at least one is assumed.

`BrainProofs` (`LeakWindow`, `BrainInventory`)

- `AlarmAlwaysRight`, from an invariant that says only that the answer is that of the
  history. The rest is arithmetic: the slope of the least squares line is a mean of
  the rises from one sample to the next, with weights that are not negative
  (summation by parts, `PartialSums` and `Weighted`), hence no less than the smallest
  and no more than the largest of them. Where the slope or the projection is exactly
  on the border, both roundings are covered. For windows of any length.
- `UpgradeAlwaysWasThere` from `BrainInv`: a Subscription about which nothing is noted
  is not ahead of the list that the thread holds (`WasBehind`), and the three reads of
  a request are of inventories published in that order (`ReadInOrder`).

`UpgradeFlowProofs` (`UpgradeFlow`, `CardViews`), all from `FlowInv`: each operator in
the slice carries the class that its two versions give it (`Classified`).

- `FlowAlwaysAscends` and `OlderIsStrict`: every link goes from an older to a newer
  version, and that order is strict and transitive, hence no cycle of links.
- `LinkTypeAlwaysItsClass`, with the first operator of a link (`EarliestExists`, from the
  well-ordering of the naturals).
- `ImpactAlwaysMatchesGraph`: the dependents that the analysis collects are joined to
  the operator by an edge of the graph.
- `LabelsAlwaysAgree`: by cases over what takes points off the score.
- `CardsAlwaysAgreeWithFlow`: the links of the flow share no operator and together have
  the operators that are counted, so that the sums over links are the counts over
  the slice (`SumOfSizes`, `TogetherFacts`).
- `TopologyAlwaysWhole`: `buildTopologyHTML`, a recursive function of the node's name,
  draws a node and then, one after the other, what it draws for the children. A
  solution of that equation exists for the tree of an operator and every solution
  is the list of its nodes (`Draws`, `FlattenSingletons`).

`PageProofs` (`DashboardPage`, `UpgradeDiagram`, `DependencyPanel`, `AutonomousSwitch`,
`PageRequests`)

- `OneTimerAlways`, `TimelineIsTrue` and `NeverOlderInOrder` from `PageInv`: `timerId` names
  the interval that runs (`TimerIsNamed`), the newest snapshot is what the screen
  shows, if that has a flow (`NewestIsShown`), and no answer is ahead of the server, and only an
  overtaken one behind the screen (`AnswersInOrder`). For any number of fetches,
  snapshots and inventories.
- `SectionsAlwaysFollow` from `SectionsInv` (a section that is saved as open is in the
  layout, and a diagram that is in the layout is current unless a timer will draw
  it); `OfferedIsAlwaysDrawn` from `LoadsInv`; `SyncAlwaysFollowsSwitch` from
  `IntervalsAreNamed`; `ToldTheTruthAlways` from `RequestsInv` (a success that is relayed
  is given only for what was carried out).
- `TooltipStaysInside`, which is about the arithmetic of `Place` alone and needs no
  invariant: a tooltip that fits beside an edge lies in the window.

`GridProofs` (`OperatorGrid`, `PageModals`)

- `GridAlwaysTheFilter` and `CardsAlwaysCurrent` from `GridInv`: what was filtered last is
  current unless a search waits (`FilteredIsCurrent`), the cards are of that list
  (`CardsShowFiltered`), ticks are the selection until it is full
  (`TickedIsSelected`), and an open menu belongs to the first card of its name
  (`FirstHasMenu`). They rest on `KeptInOrder`: a filter leaves the entries that pass,
  each once and in their order.
- `NeverInvisibleOverlay` from `ModalInv`: a modal that is open and transparent has a
  timer, and one opened with no close under way has no timer that would hide it.
  For any number of timers.

`TelemetryProofs` (`Telemetry`)

- `EvictsOnFreshAnswerAlways` from `FreshInv`: the thread that is awaited works on the
  report of the first pod and the reading of now.
- `HistoryAlwaysBounded` from `BoundedInv`: every history is a sequence, and each append
  is matched by a thread in `Trimming`, a finite set because the threads are (the
  only use of that assumption).

`SequenceLemmas` has what several of these need: of filters (`Kept` in `Subsequences`,
which `KeptIsSelectSeq` compares with `SelectSeq` in the `rules` run), of lists of
lists, of sums, and of walks along paths.

Recursion is written as recursive functions over a set with a measure (the depth
of a schema, the places of a list); what such a function computes is proved from
its defining equation by the well-ordering of the measure, as a least
counterexample, since the induction theorems of the library take an operator as
a parameter, which the provers cannot instantiate.

Only model-checked: the five properties that say "eventually" (`HandlerFinishes`,
`LoopNeverHangs`, `NobodyStarves`, `KeepsAsking`, `ClosedGoesAway`), which the provers
cannot handle.

## Not modelled

- The CVE scanner: its cache holds a mock that depends on the package alone, so a
  cached answer cannot be told from a fresh one; the probe of its source is I/O.
- Images and the lists of CVE sources: read-only summaries of one API answer. The
  routes and package manifests of the sweep: lists no state depends on.
- Metrics and cost endpoints: floating-point arithmetic over one answer.
- `EstimateMaintenanceWindow` and `getOCPVersions`, a text of the hour and a read.
- Login sessions: Flask's cookies; the handlers keep no state.
- Layout and wording of the page, the templates, and the viewer script of the
  brain with `olm_lifecycle.py` and `olm_catalog.py`, which the service does not
  import.
- The API types, which no code of the repository uses, the chart, and the
  deployment scripts, which are shell around `oc` and `helm`.
- Two pages of one browser that share the timeline in `localStorage`, which
  `PROJECT.json` lists as a hazard with the reason.

## Open ends

1. The type invariants of the components whose theorems need only part of them.
2. The sweep with two Subscriptions in a namespace, and the package manifests.
3. The timeline in two pages of one browser.
4. A composition of the brain's fallback with the operator's cache, in which the
   empty inventory of an operator that has just restarted takes the place of the
   brain's own.
