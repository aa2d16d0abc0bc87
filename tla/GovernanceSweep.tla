-------------------------- MODULE GovernanceSweep ---------------------------
(***************************************************************************)
(* One sweep of GetClusterGovernance (operator/pkg/collector/collector.go) *)
(* over a cluster that goes on changing: the CSVs are listed, then the     *)
(* subscriptions, then the custom resources of each operator in turn, and  *)
(* the three answers, each of its own moment, are joined into one          *)
(* inventory.                                                              *)
(*                                                                         *)
(* An operator has a namespace to itself here: at most one Subscription    *)
(* and its CSVs.  past is the history of the cluster since the sweep       *)
(* began, oldest first; its last element is the cluster now.  Between      *)
(* sweeps it holds the cluster as it is and nothing else.                  *)
(***************************************************************************)
EXTENDS Naturals, Sequences

CONSTANTS
  Op,           \* operators, each with its namespace
  Version,      \* their CSVs
  NoCsv,        \* the empty CSV name
  Owner,        \* the operators whose CSVs own a CRD
  Exempt,       \* the operators in an openshift-* namespace
  MaxChanges    \* bound of the model: changes of the cluster in one sweep

ASSUME OpAssumption ==
  /\ NoCsv \notin Version
  /\ Owner \subseteq Op /\ Exempt \subseteq Op
  /\ MaxChanges \in Nat

\* status.phase of a CSV; a new one has none yet.
CsvPhase == {"", "Succeeded", "Failed"}

\* status.state of a Subscription; a new one has none yet.
SubState == {"", "AtLatestKnown", "UpgradeFailed"}

CsvName == Version \cup {NoCsv}

\* What the cluster holds of one operator.
Holding == [sub : BOOLEAN,
            starting : CsvName, installed : CsvName, state : SubState,
            csv : [Version -> CsvPhase \cup {"absent"}],
            crs : 0..1]

VARIABLES
  past,         \* Seq([Op -> Holding])
  at,           \* "idle", "csvs", "subs", "inspect", "return"
  csvs,         \* the CSVs that were listed; none when the list failed
  subs,         \* the subscriptions that were listed, by operator
  found         \* results: what is known of each operator inspected so far

govvars == <<past, at, csvs, subs, found>>

Now == past[Len(past)]

NoCsvs == [o \in Op |-> [v \in Version |-> "absent"]]

NoSubs == [o \in {} |-> 0]

Absent == [sub |-> FALSE, starting |-> NoCsv, installed |-> NoCsv, state |-> "",
           csv |-> [v \in Version |-> "absent"], crs |-> 0]

Steady(v) == [sub |-> TRUE, starting |-> NoCsv, installed |-> v,
              state |-> "AtLatestKnown",
              csv |-> [w \in Version |-> IF w = v THEN "Succeeded" ELSE "absent"],
              crs |-> 1]

GovInit ==
  /\ past \in {<<c>> : c \in [Op -> {Absent} \cup {Steady(v) : v \in Version}]}
  /\ at = "idle"
  /\ csvs = NoCsvs /\ subs = NoSubs /\ found = NoSubs

-----------------------------------------------------------------------------
(* The cluster (external): users and OLM.                                  *)

Becomes(o, h) ==
  /\ h # Now[o] /\ Len(past) <= MaxChanges
  /\ past' = IF at = "idle" THEN <<[Now EXCEPT ![o] = h]>>
                            ELSE Append(past, [Now EXCEPT ![o] = h])
  /\ UNCHANGED <<at, csvs, subs, found>>

Subscribe(o) ==
  \E s \in CsvName :
    /\ ~Now[o].sub
    /\ Becomes(o, [Now[o] EXCEPT !.sub = TRUE, !.starting = s])

\* The CSVs and the custom resources outlive the Subscription.
Unsubscribe(o) ==
  Becomes(o, [Now[o] EXCEPT !.sub = FALSE, !.starting = NoCsv,
                            !.installed = NoCsv, !.state = ""])

OlmInstalls(o) ==
  \E v \in Version : /\ Now[o].sub /\ Now[o].csv[v] = "absent"
                     /\ Becomes(o, [Now[o] EXCEPT !.csv[v] = ""])

OlmReports(o) ==
  \E v \in Version, p \in {"Succeeded", "Failed"} :
    /\ Now[o].csv[v] # "absent"
    /\ Becomes(o, [Now[o] EXCEPT !.csv[v] = p])

OlmRecords(o) ==
  \E v \in Version, s \in {"AtLatestKnown", "UpgradeFailed"} :
    /\ Now[o].sub /\ Now[o].csv[v] # "absent"
    /\ Becomes(o, [Now[o] EXCEPT !.installed = v, !.state = s])

CsvDeleted(o) ==
  \E v \in Version : Becomes(o, [Now[o] EXCEPT !.csv[v] = "absent"])

CustomResource(o) == o \in Owner /\ Becomes(o, [Now[o] EXCEPT !.crs = 1 - @])

Cluster == \E o \in Op : \/ Subscribe(o) \/ Unsubscribe(o) \/ OlmInstalls(o)
                         \/ OlmReports(o) \/ OlmRecords(o) \/ CsvDeleted(o)
                         \/ CustomResource(o)

-----------------------------------------------------------------------------
(* The sweep.                                                              *)

\* The locals of the sweep go out of scope.
Finish ==
  /\ at' = "idle"
  /\ past' = <<Now>>
  /\ csvs' = NoCsvs /\ subs' = NoSubs /\ found' = NoSubs

StartSweep ==
  /\ at = "idle"
  /\ at' = "csvs"
  /\ UNCHANGED <<past, csvs, subs, found>>

\* A failed list of the CSVs is a warning; the sweep goes on without them.
ListCsvs ==
  /\ at = "csvs"
  /\ csvs' \in {NoCsvs, [o \in Op |-> Now[o].csv]}
  /\ at' = "subs"
  /\ UNCHANGED <<past, subs, found>>

\* A failed list of the subscriptions ends the sweep; nothing is published.
NoSubsListed ==
  /\ at = "subs"
  /\ Finish

ListSubs ==
  /\ at = "subs"
  /\ subs' = [o \in {p \in Op : Now[p].sub} |-> Now[o]]
  /\ at' = IF subs' = NoSubs THEN "return" ELSE "inspect"
  /\ UNCHANGED <<past, csvs, found>>

\* installedCSV, startingCSV while nothing is installed.
Named(sub) == IF sub.installed # NoCsv THEN sub.installed ELSE sub.starting

\* The phase of the CSV of that name in the list, if it is there.
ListedPhase(o, name) == IF name = NoCsv THEN "absent" ELSE csvs[o][name]

\* A bug: a CSV that was not listed is a failed one.
PhaseWithoutState(o, sub) ==
  LET listed == ListedPhase(o, Named(sub))
  IN  IF listed \notin {"absent", ""} THEN listed ELSE "Failed"

\* op.Phase: the CSV's if it has one, else the subscription's state, "Failed"
\* for an upgrade that failed.  "Unknown", that is no CSV and no state, ends
\* as "Failed" too; a CSV without a phase and no state ends as "".
Phase(o, sub) ==
  LET listed == ListedPhase(o, Named(sub))
  IN  IF listed \in {"Succeeded", "Failed"} THEN listed
      ELSE IF sub.state = "UpgradeFailed" THEN "Failed"
      ELSE IF sub.state = "AtLatestKnown" THEN sub.state
      ELSE IF listed = "absent" THEN "Failed" ELSE ""

\* The CRDs are known from the listed CSV only.
HasCRDs(o, sub) == o \in Owner /\ ListedPhase(o, Named(sub)) # "absent"

\* One operator joins the results.  counted is what the list of its custom
\* resources returned: a list that failed counts none.
Inspect ==
  \E o \in DOMAIN subs \ DOMAIN found : \E counted \in {0, Now[o].crs} :
    /\ at = "inspect"
    /\ found' = [p \in DOMAIN found \cup {o} |->
                   IF p = o
                   THEN [csv |-> Named(subs[o]),
                         phase |-> Phase(o, subs[o]),
                         idle |-> HasCRDs(o, subs[o]) /\ counted = 0]
                   ELSE found[p]]
    /\ at' = IF DOMAIN found' = DOMAIN subs THEN "return" ELSE "inspect"
    /\ UNCHANGED <<past, csvs, subs>>

\* A bug: the anomalies are looked for in a list of CSVs of their own.
OrphansAfresh ==
  {o \in Op \ (Exempt \cup DOMAIN subs) :
     \E v \in Version : Now[o].csv[v] # "absent"}

\* The "Zombie CSV" anomalies.
Orphans ==
  {o \in Op \ (Exempt \cup DOMAIN subs) :
     \E v \in Version : csvs[o][v] # "absent"}

\* found and Orphans go to the cache of the operator.
Return == at = "return" /\ Finish

Sweep == \/ StartSweep \/ ListCsvs \/ ListSubs \/ NoSubsListed
         \/ Inspect \/ Return

GovNext == Cluster \/ Sweep

GovSpec == GovInit /\ [][GovNext]_govvars

-----------------------------------------------------------------------------
Moments == 1..Len(past)

(* A CSV is called a zombie only if its namespace really was without a     *)
(* subscription at a moment of the sweep when the CSV was there, or had    *)
(* been: an operator that is being installed, whose CSV follows its        *)
(* subscription, is never offered for PURGE_ZOMBIE_CSV (collector.go:245,  *)
(* 294, 685-707).                                                          *)
ZombieLostItsSubscription ==
  at = "return" =>
    \A o \in Orphans :
      \E i, j \in Moments :
        /\ i <= j
        /\ \E v \in Version : past[i][o].csv[v] # "absent"
        /\ ~past[j][o].sub

(* The inventory holds every operator that was subscribed throughout the   *)
(* sweep and none that never was: a list that fails does not pass for an   *)
(* empty cluster.  And "Failed", which makes an operator a blocker of the  *)
(* OpenShift upgrade, is said only of one whose named CSV had failed, or   *)
(* whose subscription reported a failure or nothing at all: no error of    *)
(* the CSV list and no change between the lists makes a healthy operator   *)
(* a blocker (collector.go:294-297, 366-382, 490-494).                     *)
InventoryIsTrue ==
  at = "return" =>
    /\ \A o \in Op :
         /\ (\A i \in Moments : past[i][o].sub) => o \in DOMAIN found
         /\ o \in DOMAIN found => \E i \in Moments : past[i][o].sub
    /\ \A o \in DOMAIN found :
         found[o].phase = "Failed" =>
           \E i, j \in Moments :
             /\ i <= j /\ past[j][o].sub
             /\ \/ /\ found[o].csv # NoCsv
                   /\ past[i][o].csv[found[o].csv] = "Failed"
                   /\ Named(past[j][o]) = found[o].csv
                \/ past[j][o].state \in {"", "UpgradeFailed"}

(* "Mark operator as idle only if it provides CRDs but none are            *)
(* instantiated" (collector.go:416): an operator published as idle had no  *)
(* custom resource at some moment of the sweep.                            *)
IdleOnlyIfUnused ==
  at = "return" =>
    \A o \in DOMAIN found :
      found[o].idle => \E i \in Moments : past[i][o].crs = 0
=============================================================================
