--------------------------- MODULE OperatorProofs ---------------------------
(***************************************************************************)
(* Proofs about what the operator learns and keeps.  The governance sweep  *)
(* publishes what was true of the cluster at moments of the sweep, for any *)
(* number of operators, versions and changes of the cluster between its    *)
(* lists; the health badge and the list of anomalies agree, for any state  *)
(* of OLM; what the schema diff shows is what the resources lose, for      *)
(* schemas of any size and finite depth; the audit log is the recent end   *)
(* of what was recorded, for every capacity and every set of events.       *)
(***************************************************************************)
EXTENDS GovernanceSweep, OLMHealth, DiffViewer, AuditLog, SequenceLemmas, TLAPS

-----------------------------------------------------------------------------
(* The inductive invariant: which moments the lists are of, and how the    *)
(* results follow from them.                                               *)

PastTypeOK ==
  /\ past \in Seq([Op -> Holding]) /\ past # <<>>
  /\ at \in {"idle", "csvs", "subs", "inspect", "return"}

CsvsOf(i) == csvs = NoCsvs \/ csvs = [o \in Op |-> past[i][o].csv]

SubsOf(j) == subs = [o \in {p \in Op : past[j][p].sub} |-> past[j][o]]

\* Each list is of one moment; that of the CSVs, if it did not fail, of the
\* earlier one.
ListsAreOfMoments ==
  /\ at = "subs" => \E i \in Moments : CsvsOf(i)
  /\ at \in {"inspect", "return"} =>
       \E i, j \in Moments : i <= j /\ CsvsOf(i) /\ SubsOf(j)

\* An operator is inspected by the lists alone, whatever it is by now.
FoundByLists ==
  /\ at \in {"idle", "csvs", "subs"} => DOMAIN found = {}
  /\ at = "inspect" => DOMAIN found \subseteq DOMAIN subs
  /\ at = "return" => DOMAIN found = DOMAIN subs
  /\ \A o \in DOMAIN found : /\ found[o].csv = Named(subs[o])
                             /\ found[o].phase = Phase(o, subs[o])

SweepInv == PastTypeOK /\ ListsAreOfMoments /\ FoundByLists

-----------------------------------------------------------------------------
(* The cluster.                                                            *)

LEMMA NowIsHolding ==
  ASSUME PastTypeOK
  PROVE  /\ Len(past) \in Nat \ {0} /\ Now \in [Op -> Holding]
         /\ \A i \in Moments : past[i] \in [Op -> Holding]
<1>1. Len(past) \in Nat \ {0}
  BY DEF PastTypeOK
<1>2. \A i \in Moments : past[i] \in [Op -> Holding]
  BY <1>1 DEF PastTypeOK, Moments
<1>3. QED
  BY <1>1, <1>2 DEF Now, Moments

\* What is concluded of an operator depends on the two lists only.
LEMMA PhaseByLists ==
  ASSUME UNCHANGED csvs
  PROVE  \A o, s : Phase(o, s)' = Phase(o, s)
<1>1. \A o, n : ListedPhase(o, n)' = ListedPhase(o, n)
  BY DEF ListedPhase
<1>2. QED
  BY <1>1 DEF Phase

\* A change of the cluster outside of a sweep leaves no trace; one inside is
\* added to the history, and every earlier moment stays what it was.
LEMMA ChangeKeepsMoments ==
  ASSUME SweepInv, NEW o \in Op, NEW h \in Holding, Becomes(o, h)
  PROVE  SweepInv'
<1>0. PastTypeOK /\ ListsAreOfMoments /\ FoundByLists /\ UNCHANGED <<at, csvs, subs, found>>
  BY DEF SweepInv, Becomes
<1>1. /\ Len(past) \in Nat \ {0} /\ Now \in [Op -> Holding]
  BY <1>0, NowIsHolding
<1> DEFINE next == [Now EXCEPT ![o] = h]
<1>2. next \in [Op -> Holding]
  BY <1>1
<1>3. CASE at = "idle"
  <2>1. past' = <<next>>
    BY <1>3 DEF Becomes
  <2> HIDE DEF next
  <2>2. PastTypeOK'
    BY <1>0, <1>2, <2>1 DEF PastTypeOK
  <2>3. ListsAreOfMoments' /\ FoundByLists'
    BY <1>0, <1>3, PhaseByLists DEF ListsAreOfMoments, FoundByLists
  <2>4. QED
    BY <2>2, <2>3 DEF SweepInv
<1>4. CASE at # "idle"
  <2>1. past' = Append(past, next)
    BY <1>4 DEF Becomes
  <2> HIDE DEF next
  <2>2. PastTypeOK'
    BY <1>0, <1>2, <2>1 DEF PastTypeOK
  <2>3. \A i \in Moments : i \in Moments' /\ past'[i] = past[i]
    BY <1>0, <1>1, <1>2, <2>1 DEF Moments, PastTypeOK
  <2>4. \A i \in Moments : (CsvsOf(i) => CsvsOf(i)') /\ (SubsOf(i) => SubsOf(i)')
    BY <1>0, <2>3 DEF CsvsOf, SubsOf, NoCsvs
  <2>5. ListsAreOfMoments'
    BY <1>0, <2>3, <2>4 DEF ListsAreOfMoments
  <2>6. FoundByLists'
    BY <1>0, PhaseByLists
       DEF FoundByLists
  <2>7. QED
    BY <2>2, <2>5, <2>6 DEF SweepInv
<1>5. QED
  BY <1>3, <1>4

\* Users and OLM only write what a Subscription, a CSV and the custom
\* resources can hold.
LEMMA ClusterKeepsInv ==
  ASSUME SweepInv, Cluster
  PROVE  SweepInv'
<1>1. Now \in [Op -> Holding]
  BY NowIsHolding DEF SweepInv
<1>2. PICK o \in Op :
        \/ Subscribe(o) \/ Unsubscribe(o) \/ OlmInstalls(o) \/ OlmReports(o)
        \/ OlmRecords(o) \/ CsvDeleted(o) \/ CustomResource(o)
  BY DEF Cluster
<1>3. Now[o] \in Holding
  BY <1>1
<1>4. SUFFICES \E h \in Holding : Becomes(o, h)
  BY ChangeKeepsMoments
<1>5. CASE Subscribe(o)
  <2>1. PICK s \in CsvName : Becomes(o, [Now[o] EXCEPT !.sub = TRUE, !.starting = s])
    BY <1>5 DEF Subscribe
  <2>2. [Now[o] EXCEPT !.sub = TRUE, !.starting = s] \in Holding
    BY <1>3 DEF Holding
  <2>3. QED
    BY <2>1, <2>2
<1>6. CASE Unsubscribe(o)
  <2>1. [Now[o] EXCEPT !.sub = FALSE, !.starting = NoCsv, !.installed = NoCsv,
                       !.state = ""] \in Holding
    BY <1>3 DEF Holding, CsvName, SubState
  <2>2. QED
    BY <1>6, <2>1 DEF Unsubscribe
<1>7. CASE OlmInstalls(o)
  <2>1. PICK v \in Version : Becomes(o, [Now[o] EXCEPT !.csv[v] = ""])
    BY <1>7 DEF OlmInstalls
  <2>2. [Now[o] EXCEPT !.csv[v] = ""] \in Holding
    BY <1>3 DEF Holding, CsvPhase
  <2>3. QED
    BY <2>1, <2>2
<1>8. CASE OlmReports(o)
  <2>1. PICK v \in Version, p \in {"Succeeded", "Failed"} :
          Becomes(o, [Now[o] EXCEPT !.csv[v] = p])
    BY <1>8 DEF OlmReports
  <2>2. [Now[o] EXCEPT !.csv[v] = p] \in Holding
    BY <1>3 DEF Holding, CsvPhase
  <2>3. QED
    BY <2>1, <2>2
<1>9. CASE OlmRecords(o)
  <2>1. PICK v \in Version, s \in {"AtLatestKnown", "UpgradeFailed"} :
          Becomes(o, [Now[o] EXCEPT !.installed = v, !.state = s])
    BY <1>9 DEF OlmRecords
  <2>2. [Now[o] EXCEPT !.installed = v, !.state = s] \in Holding
    BY <1>3 DEF Holding, CsvName, SubState
  <2>3. QED
    BY <2>1, <2>2
<1>10. CASE CsvDeleted(o)
  <2>1. PICK v \in Version : Becomes(o, [Now[o] EXCEPT !.csv[v] = "absent"])
    BY <1>10 DEF CsvDeleted
  <2>2. [Now[o] EXCEPT !.csv[v] = "absent"] \in Holding
    BY <1>3 DEF Holding
  <2>3. QED
    BY <2>1, <2>2
<1>11. CASE CustomResource(o)
  <2>1. [Now[o] EXCEPT !.crs = 1 - @] \in Holding
    BY <1>3 DEF Holding
  <2>2. QED
    BY <1>11, <2>1 DEF CustomResource
<1>12. QED
  BY <1>2, <1>5, <1>6, <1>7, <1>8, <1>9, <1>10, <1>11

\* Lists that stay are of the moments they were of.
LEMMA ListsStay ==
  ASSUME UNCHANGED <<past, csvs, subs>>
  PROVE  /\ Moments' = Moments
         /\ \A i : CsvsOf(i)' = CsvsOf(i) /\ SubsOf(i)' = SubsOf(i)
  BY DEF Moments, CsvsOf, SubsOf, NoCsvs

-----------------------------------------------------------------------------
(* The sweep.                                                              *)

LEMMA InitSweep == GovInit => SweepInv
<1> SUFFICES ASSUME GovInit PROVE SweepInv
  OBVIOUS
<1>1. Absent \in Holding
  BY DEF Absent, Holding, CsvName, SubState
<1>2. \A v \in Version : Steady(v) \in Holding
  BY DEF Steady, Holding, CsvName, SubState, CsvPhase
<1>3. PICK c \in [Op -> {Absent} \cup {Steady(v) : v \in Version}] : past = <<c>>
  BY DEF GovInit
<1>4. c \in [Op -> Holding]
  BY <1>1, <1>2
<1>5. PastTypeOK
  BY <1>3, <1>4 DEF GovInit, PastTypeOK
<1>6. ListsAreOfMoments /\ FoundByLists
  BY DEF GovInit, ListsAreOfMoments, FoundByLists, NoSubs
<1>7. QED
  BY <1>5, <1>6 DEF SweepInv

LEMMA FinishKeepsInv ==
  ASSUME SweepInv, Finish
  PROVE  SweepInv'
<1>1. Now \in [Op -> Holding]
  BY NowIsHolding DEF SweepInv
<1>2. PastTypeOK'
  BY <1>1 DEF Finish, PastTypeOK
<1>3. ListsAreOfMoments' /\ FoundByLists'
  BY DEF Finish, ListsAreOfMoments, FoundByLists, NoSubs
<1>4. QED
  BY <1>2, <1>3 DEF SweepInv

\* The CSVs are of this moment.
LEMMA ListCsvsKeepsInv ==
  ASSUME SweepInv, ListCsvs
  PROVE  SweepInv'
<1>1. PastTypeOK /\ FoundByLists /\ UNCHANGED <<past, subs, found>> /\ at = "csvs" /\ at' = "subs"
  BY DEF SweepInv, ListCsvs
<1>2. PastTypeOK'
  BY <1>1 DEF PastTypeOK
<1>3. Len(past) \in Moments /\ Moments' = Moments
  BY <1>1, NowIsHolding DEF Moments
<1>4. CsvsOf(Len(past))'
  BY <1>1, <1>3 DEF CsvsOf, ListCsvs, Now, NoCsvs
<1>5. ListsAreOfMoments'
  BY <1>1, <1>3, <1>4 DEF ListsAreOfMoments, CsvsOf
<1>6. FoundByLists'
  BY <1>1 DEF FoundByLists
<1>7. QED
  BY <1>2, <1>5, <1>6 DEF SweepInv

\* The subscriptions are of this moment, that of the CSVs is past.
LEMMA ListSubsKeepsInv ==
  ASSUME SweepInv, ListSubs
  PROVE  SweepInv'
<1>1. /\ PastTypeOK /\ ListsAreOfMoments /\ FoundByLists
      /\ UNCHANGED <<past, csvs, found>> /\ at = "subs"
  BY DEF SweepInv, ListSubs
<1>2. at' \in {"inspect", "return"} /\ (at' = "return" => DOMAIN subs' = {})
  BY DEF ListSubs, NoSubs
<1>3. PastTypeOK'
  BY <1>1, <1>2 DEF PastTypeOK
<1>4. Len(past) \in Nat /\ Len(past) \in Moments /\ Moments' = Moments
  BY <1>1, NowIsHolding DEF Moments
<1>5. PICK i \in Moments : CsvsOf(i)
  BY <1>1 DEF ListsAreOfMoments
<1>6. PICK j \in Moments : j = Len(past)
  BY <1>4
<1>7. i <= j /\ CsvsOf(i)' /\ SubsOf(j)'
  BY <1>1, <1>4, <1>5, <1>6 DEF CsvsOf, NoCsvs, SubsOf, ListSubs, Now, Moments
<1>8. ListsAreOfMoments'
  BY <1>2, <1>4, <1>7 DEF ListsAreOfMoments
<1>9. FoundByLists'
  BY <1>1, <1>2 DEF FoundByLists
<1>10. QED
  BY <1>3, <1>8, <1>9 DEF SweepInv

LEMMA InspectKeepsInv ==
  ASSUME SweepInv, Inspect
  PROVE  SweepInv'
<1>1. /\ PastTypeOK /\ ListsAreOfMoments /\ FoundByLists
      /\ UNCHANGED <<past, csvs, subs>> /\ at = "inspect"
  BY DEF SweepInv, Inspect
<1>2. PICK o \in DOMAIN subs \ DOMAIN found : \E counted \in {0, Now[o].crs} :
        /\ found' = [p \in DOMAIN found \cup {o} |->
                       IF p = o
                       THEN [csv |-> Named(subs[o]),
                             phase |-> Phase(o, subs[o]),
                             idle |-> HasCRDs(o, subs[o]) /\ counted = 0]
                       ELSE found[p]]
        /\ at' = IF DOMAIN found' = DOMAIN subs THEN "return" ELSE "inspect"
  BY DEF Inspect
<1>3. /\ DOMAIN found' = DOMAIN found \cup {o}
      /\ found'[o].csv = Named(subs[o]) /\ found'[o].phase = Phase(o, subs[o])
      /\ \A p \in DOMAIN found : found'[p] = found[p]
  BY <1>2
<1>4. PastTypeOK' /\ at' \in {"inspect", "return"}
  BY <1>1, <1>2 DEF PastTypeOK
<1>5. ListsAreOfMoments'
  BY <1>1, <1>4, ListsStay DEF ListsAreOfMoments
<1>6. FoundByLists'
  BY <1>1, <1>2, <1>3, <1>4, PhaseByLists DEF FoundByLists
<1>7. QED
  BY <1>4, <1>5, <1>6 DEF SweepInv

LEMMA NextSweep == SweepInv /\ [GovNext]_govvars => SweepInv'
<1> SUFFICES ASSUME SweepInv, [GovNext]_govvars PROVE SweepInv'
  OBVIOUS
<1>1. CASE StartSweep
  <2>1. at = "idle" /\ at' = "csvs" /\ UNCHANGED <<past, csvs, subs, found>>
    BY <1>1 DEF StartSweep
  <2>2. PastTypeOK' /\ ListsAreOfMoments' /\ FoundByLists'
    BY <2>1, PhaseByLists DEF SweepInv, PastTypeOK, ListsAreOfMoments, FoundByLists
  <2>3. QED
    BY <2>2 DEF SweepInv
<1>2. CASE UNCHANGED govvars
  BY <1>2, PhaseByLists, ListsStay
     DEF govvars, SweepInv, PastTypeOK, ListsAreOfMoments, FoundByLists
<1>3. QED
  BY <1>1, <1>2, ClusterKeepsInv, FinishKeepsInv, ListCsvsKeepsInv,
     ListSubsKeepsInv, InspectKeepsInv
     DEF GovNext, Sweep, NoSubsListed, Return

LEMMA SweepInvAlways == GovSpec => []SweepInv
<1>1. QED
  BY InitSweep, NextSweep, PTL DEF GovSpec

-----------------------------------------------------------------------------
(* What follows of the results.                                            *)

(* A CSV called a zombie was there without a subscription at a moment of   *)
(* the sweep, or had been (collector.go:245, 294, 685-707).                *)
THEOREM ZombieAlwaysLostIt == GovSpec => []ZombieLostItsSubscription
<1>1. SweepInv => ZombieLostItsSubscription
  <2> SUFFICES ASSUME SweepInv, at = "return", NEW o \in Orphans
               PROVE  \E i, j \in Moments :
                        /\ i <= j
                        /\ \E v \in Version : past[i][o].csv[v] # "absent"
                        /\ ~past[j][o].sub
    BY DEF ZombieLostItsSubscription
  <2>1. PICK i, j \in Moments : i <= j /\ CsvsOf(i) /\ SubsOf(j)
    BY DEF SweepInv, ListsAreOfMoments
  <2>2. PICK v \in Version : o \in Op /\ csvs[o][v] # "absent"
    BY DEF Orphans
  <2>3. past[i][o].csv[v] # "absent"
    BY <2>1, <2>2 DEF CsvsOf, NoCsvs
  <2>4. ~past[j][o].sub
    BY <2>1, <2>2 DEF SubsOf, Orphans
  <2>5. QED
    BY <2>1, <2>2, <2>3, <2>4
<1>2. QED
  BY <1>1, SweepInvAlways, PTL

\* "Failed" is said for a reason that one of the two lists gives.
LEMMA FailedByAList ==
  ASSUME NEW o \in Op, NEW s \in Holding, csvs \in [Op -> [Version -> CsvPhase \cup {"absent"}]],
         Phase(o, s) = "Failed"
  PROVE  \/ Named(s) \in Version /\ csvs[o][Named(s)] = "Failed"
         \/ s.state \in {"", "UpgradeFailed"}
<1>1. Named(s) \in Version \cup {NoCsv} /\ s.state \in SubState
  BY DEF Named, Holding, CsvName
<1> DEFINE listed == ListedPhase(o, Named(s))
<1>2. CASE listed = "Failed"
  BY <1>1, <1>2 DEF ListedPhase
<1>3. CASE listed # "Failed" /\ s.state = "AtLatestKnown"
  <2>1. Phase(o, s) \in {"Succeeded", "AtLatestKnown"}
    BY <1>3 DEF Phase
  <2>2. QED
    BY <2>1
<1>4. QED
  BY <1>1, <1>2, <1>3 DEF SubState

(* The published inventory misses no operator that was subscribed          *)
(* throughout the sweep, has none that never was, and calls an operator    *)
(* failed for a reason only (collector.go:294-297, 366-382, 490-494).      *)
THEOREM InventoryIsAlwaysTrue == GovSpec => []InventoryIsTrue
<1>1. SweepInv => InventoryIsTrue
  <2> SUFFICES ASSUME SweepInv, at = "return" PROVE InventoryIsTrue
    BY DEF InventoryIsTrue
  <2>1. PICK i, j \in Moments : i <= j /\ CsvsOf(i) /\ SubsOf(j)
    BY DEF SweepInv, ListsAreOfMoments
  <2>2. /\ DOMAIN found = DOMAIN subs /\ past[i] \in [Op -> Holding] /\ past[j] \in [Op -> Holding]
        /\ \A o \in DOMAIN found : /\ found[o].csv = Named(subs[o])
                                   /\ found[o].phase = Phase(o, subs[o])
    BY NowIsHolding DEF SweepInv, FoundByLists
  <2>3. /\ DOMAIN subs = {p \in Op : past[j][p].sub}
        /\ \A o \in DOMAIN subs : o \in Op /\ subs[o] = past[j][o] /\ subs[o] \in Holding
    BY <2>1, <2>2 DEF SubsOf
  <2>4. \A o \in Op : /\ (\A k \in Moments : past[k][o].sub) => o \in DOMAIN found
                      /\ o \in DOMAIN found => \E k \in Moments : past[k][o].sub
    BY <2>1, <2>2, <2>3
  <2>5. csvs \in [Op -> [Version -> CsvPhase \cup {"absent"}]]
    BY <2>1, <2>2 DEF CsvsOf, NoCsvs, Holding
  <2>6. ASSUME NEW o \in DOMAIN found, found[o].phase = "Failed"
        PROVE  \E k, l \in Moments :
                 /\ k <= l /\ past[l][o].sub
                 /\ \/ /\ found[o].csv # NoCsv
                       /\ past[k][o].csv[found[o].csv] = "Failed"
                       /\ Named(past[l][o]) = found[o].csv
                    \/ past[l][o].state \in {"", "UpgradeFailed"}
    <3>1. /\ o \in Op /\ past[j][o].sub /\ subs[o] = past[j][o] /\ subs[o] \in Holding
          /\ found[o].csv = Named(past[j][o]) /\ Phase(o, past[j][o]) = "Failed"
      BY <2>2, <2>3, <2>6
    <3>2. \/ found[o].csv \in Version /\ csvs[o][found[o].csv] = "Failed"
          \/ past[j][o].state \in {"", "UpgradeFailed"}
      BY <2>5, <3>1, FailedByAList
    <3>3. CASE found[o].csv \in Version /\ csvs[o][found[o].csv] = "Failed"
      <4>1. past[i][o].csv[found[o].csv] = "Failed" /\ found[o].csv # NoCsv
        BY <2>1, <3>1, <3>3, OpAssumption DEF CsvsOf, NoCsvs
      <4>2. QED
        BY <2>1, <3>1, <4>1
    <3>4. QED
      BY <2>1, <3>1, <3>2, <3>3
  <2>7. QED
    BY <2>4, <2>6 DEF InventoryIsTrue
<1>2. QED
  BY <1>1, SweepInvAlways, PTL

-----------------------------------------------------------------------------
(* The audit log: its slice keeps its shape, is the recent end of what was *)
(* recorded, and implements the abstract journal of AuditJournal.tla.      *)

(* Cutting a sequence to its last Capacity entries (main.go:76-78): how    *)
(* long the result is, and where each of its entries comes from.           *)
LEMMA TruncateFacts ==
  ASSUME NEW S, NEW s \in Seq(S)
  PROVE  /\ Truncate(s) \in Seq(S)
         /\ Len(Truncate(s)) = IF Len(s) > Capacity THEN Capacity ELSE Len(s)
         /\ \A i \in 1..Len(Truncate(s)) :
              Truncate(s)[i] = s[Len(s) - Len(Truncate(s)) + i]
<1> USE CapacityAssumption
<1>1. CASE Len(s) > Capacity
  <2> DEFINE lo == Len(s) - Capacity + 1
  <2>1. lo \in 1..Len(s) /\ Len(s) \in 1..Len(s)
    BY <1>1
  <2>2. Truncate(s) = SubSeq(s, lo, Len(s))
    BY <1>1 DEF Truncate
  <2>3. /\ SubSeq(s, lo, Len(s)) \in Seq(S)
        /\ Len(SubSeq(s, lo, Len(s))) = Capacity
        /\ \A i \in 1..Capacity : SubSeq(s, lo, Len(s))[i] = s[lo + i - 1]
    BY <2>1
  <2>4. QED
    BY <2>2, <2>3, <1>1
<1>2. CASE ~(Len(s) > Capacity)
  <2>1. Truncate(s) = s
    BY <1>2 DEF Truncate
  <2>2. QED
    BY <2>1, <1>2
<1>3. QED
  BY <1>1, <1>2

(* The slice and the journal hold events, and the slice never outgrows     *)
(* auditLogCapacity, whatever that constant is.                            *)
THEOREM TypeCorrect == Spec => []TypeOK
<1> USE CapacityAssumption
<1>1. Init => TypeOK
  BY DEF Init, TypeOK
<1>2. TypeOK /\ [Next]_vars => TypeOK'
  <2> SUFFICES ASSUME TypeOK, [Next]_vars
               PROVE  TypeOK'
    OBVIOUS
  <2>1. ASSUME NEW e \in Event, RecordAudit(e)
        PROVE  TypeOK'
    <3>1. Append(auditLog, e) \in Seq(Event) /\ Append(journal, e) \in Seq(Event)
      BY DEF TypeOK
    <3>2. /\ Truncate(Append(auditLog, e)) \in Seq(Event)
          /\ Len(Truncate(Append(auditLog, e))) =
               IF Len(Append(auditLog, e)) > Capacity
               THEN Capacity ELSE Len(Append(auditLog, e))
      BY <3>1, TruncateFacts, Zenon
    <3>3. Len(Truncate(Append(auditLog, e))) <= Capacity
      BY <3>1, <3>2
    <3>4. QED
      BY <2>1, <3>1, <3>2, <3>3 DEF RecordAudit, TypeOK
  <2>2. ASSUME NEW q \in Query, GetAuditEvents(q)
        PROVE  TypeOK'
    BY <2>2 DEF GetAuditEvents, TypeOK
  <2>3. CASE Restart
    BY <2>3 DEF Restart, TypeOK
  <2>4. CASE UNCHANGED vars
    BY <2>4 DEF vars, TypeOK
  <2>5. QED
    BY <2>1, <2>2, <2>3, <2>4 DEF Next
<1>3. QED
  BY <1>1, <1>2, PTL DEF Spec

(* Nothing recorded is missing from the slice before Capacity newer events *)
(* have been recorded, and the order of recording is kept.                 *)
THEOREM RecentWindowHolds == Spec => []RecentWindow
<1> USE CapacityAssumption
<1>1. Init => RecentWindow
  BY DEF Init, RecentWindow
<1>2. TypeOK /\ RecentWindow /\ [Next]_vars => RecentWindow'
  <2> SUFFICES ASSUME TypeOK, RecentWindow, [Next]_vars
               PROVE  RecentWindow'
    OBVIOUS
  <2>1. ASSUME NEW e \in Event, RecordAudit(e)
        PROVE  RecentWindow'
    <3> DEFINE a == Append(auditLog, e)
               j == Append(journal, e)
    <3>1. /\ a \in Seq(Event) /\ j \in Seq(Event)
          /\ Len(a) = Len(auditLog) + 1 /\ Len(j) = Len(journal) + 1
      BY DEF TypeOK
    <3>2. \A i \in 1..Len(a) : a[i] = j[Len(j) - Len(a) + i]
      <4> SUFFICES ASSUME NEW i \in 1..Len(a)
                   PROVE  a[i] = j[Len(j) - Len(a) + i]
        OBVIOUS
      <4> auditLog \in Seq(Event) /\ journal \in Seq(Event)
        BY DEF TypeOK
      <4>1. Len(auditLog) <= Len(journal)
        BY DEF RecentWindow
      <4>2. CASE i = Len(a)
        BY <4>1, <4>2, <3>1
      <4>3. CASE i \in 1..Len(auditLog)
        <5>1. Len(journal) - Len(auditLog) + i \in 1..Len(journal)
          BY <4>1, <4>3
        <5>2. auditLog[i] = journal[Len(journal) - Len(auditLog) + i]
          BY <4>3 DEF RecentWindow
        <5>3. QED
          BY <5>1, <5>2, <4>3, <3>1
      <4>4. Len(auditLog) \in Nat /\ Len(a) = Len(auditLog) + 1
        BY <3>1
      <4> HIDE DEF a, j
      <4>5. i = Len(a) \/ i \in 1..Len(auditLog)
        BY <4>4
      <4>6. QED
        BY <4>2, <4>3, <4>5
    <3>3. /\ Len(Truncate(a)) = IF Len(a) > Capacity THEN Capacity ELSE Len(a)
          /\ \A i \in 1..Len(Truncate(a)) :
               Truncate(a)[i] = a[Len(a) - Len(Truncate(a)) + i]
      BY <3>1, TruncateFacts, Zenon
    <3>4. Len(a) > Capacity => Len(j) > Capacity
      BY <3>1 DEF RecentWindow, TypeOK
    <3>5. Len(Truncate(a)) = IF Len(j) > Capacity THEN Capacity ELSE Len(j)
      BY <3>1, <3>3 DEF RecentWindow, TypeOK
    <3>6. ASSUME NEW i \in 1..Len(Truncate(a))
          PROVE  Truncate(a)[i] = j[Len(j) - Len(Truncate(a)) + i]
      <4> DEFINE k == Len(a) - Len(Truncate(a)) + i
      <4> Len(a) \in Nat /\ Len(Truncate(a)) \in Nat /\ Len(Truncate(a)) <= Len(a)
        BY <3>1, <3>3
      <4>1. k \in 1..Len(a)
        OBVIOUS
      <4>2. a[k] = j[Len(j) - Len(a) + k]
        BY <4>1, <3>2
      <4>3. Len(j) - Len(a) + k = Len(j) - Len(Truncate(a)) + i
        BY <3>1, <3>3
      <4>4. QED
        BY <4>2, <4>3, <3>3
    <3>7. auditLog' = Truncate(a) /\ journal' = j
      BY <2>1 DEF RecordAudit
    <3>8. QED
      BY <3>5, <3>6, <3>7 DEF RecentWindow
  <2>2. ASSUME NEW q \in Query, GetAuditEvents(q)
        PROVE  RecentWindow'
    BY <2>2 DEF GetAuditEvents, RecentWindow
  <2>3. CASE Restart
    BY <2>3 DEF Restart, RecentWindow
  <2>4. CASE UNCHANGED vars
    BY <2>4 DEF vars, RecentWindow
  <2>5. QED
    BY <2>1, <2>2, <2>3, <2>4 DEF Next
<1>3. QED
  BY <1>1, <1>2, TypeCorrect, PTL DEF Spec

(* Through the audit endpoint the bounded slice cannot be told from an     *)
(* unbounded journal of which the recent end is shown, newest first.       *)
THEOREM ImplementsJournal == Spec => RefinesJournal
<1> USE CapacityAssumption
<1>1. Init => Journal!JInit
  BY DEF Init, Journal!JInit
<1>2. TypeOK /\ RecentWindow /\ [Next]_vars => [Journal!JNext]_(Journal!jvars)
  <2> SUFFICES ASSUME TypeOK, RecentWindow, [Next]_vars
               PROVE  [Journal!JNext]_(Journal!jvars)
    OBVIOUS
  <2>1. ASSUME NEW e \in Event, RecordAudit(e)
        PROVE  Journal!JNext
    BY <2>1 DEF RecordAudit, Journal!JNext, Journal!Happen,
                Journal!Event, Journal!Kind, Event, Kind
  <2>2. ASSUME NEW q \in Query, GetAuditEvents(q)
        PROVE  Journal!JNext
    <3>1. Backwards(auditLog) = Journal!RecentFirst
      <4>1. /\ Len(auditLog) \in Nat /\ Len(journal) \in Nat
            /\ Len(auditLog) = Journal!Visible
            /\ Len(auditLog) <= Len(journal)
        BY DEF TypeOK, RecentWindow, Journal!Visible
      <4>2. ASSUME NEW i \in 1..Len(auditLog)
            PROVE  auditLog[Len(auditLog) + 1 - i] = journal[Len(journal) + 1 - i]
        <5> DEFINE k == Len(auditLog) + 1 - i
        <5>1. k \in 1..Len(auditLog)
          BY <4>1
        <5>2. auditLog[k] = journal[Len(journal) - Len(auditLog) + k]
          BY <5>1 DEF RecentWindow
        <5>3. Len(journal) - Len(auditLog) + k = Len(journal) + 1 - i
          BY <4>1
        <5>4. QED
          BY <5>2, <5>3
      <4>3. QED
        BY <4>1, <4>2 DEF Backwards, Journal!RecentFirst
    <3>2. Journal!Show(q)
      BY <2>2, <3>1 DEF GetAuditEvents, Journal!Show, Matching, Journal!Matching,
                        Lets, Journal!Lets
    <3>3. QED
      BY <3>2 DEF Journal!JNext, Journal!Query, Query
  <2>3. CASE Restart
    BY <2>3 DEF Restart, Journal!JNext, Journal!Forget
  <2>4. CASE UNCHANGED vars
    BY <2>4 DEF vars, Journal!jvars
  <2>5. QED
    BY <2>1, <2>2, <2>3, <2>4 DEF Next
<1>3. QED
  BY <1>1, <1>2, TypeCorrect, RecentWindowHolds, PTL
  DEF Spec, RefinesJournal, Journal!JSpec

-----------------------------------------------------------------------------
(* The health of OLM.  What the page shows follows from the lists of the   *)
(* last sweep, whatever they hold.                                         *)

Lists ==
  [olm : Pods, catalog : Pods, plans : Plans, sources : Sources, subs : Subs, csvs : Csvs]

\* Both results are those of one sweep, or nothing is known of OLM yet.
ResultsOfLists ==
  \/ health.olm # "Running" /\ anomalies = <<>>
  \/ /\ lists \in Lists
     /\ health = CollectOLMHealthStatus(lists) /\ anomalies = DetectAnomalies(lists)

LEMMA ResultsAlwaysOfLists == HSpec => []ResultsOfLists
<1>1. ASSUME HInit PROVE ResultsOfLists
  BY <1>1, Zenon DEF HInit, ResultsOfLists
<1>2. ResultsOfLists /\ [HNext]_hvars => ResultsOfLists'
  <2> SUFFICES ASSUME ResultsOfLists, [HNext]_hvars
               PROVE  ResultsOfLists'
    OBVIOUS
  <2>1. CASE SweepEnds
    <3>1. lists' \in Lists
      BY <2>1 DEF SweepEnds, Lists
    <3>2. QED
      BY <2>1, <3>1 DEF SweepEnds, ResultsOfLists
  <2>2. CASE RestartOperator
    BY <2>2, Zenon DEF RestartOperator, ResultsOfLists
  <2>3. CASE UNCHANGED hvars
    BY <2>3 DEF hvars, ResultsOfLists
  <2>4. QED
    BY <2>1, <2>2, <2>3 DEF HNext
<1>3. QED
  BY <1>1, <1>2, PTL DEF HSpec

\* A filter that leaves nothing has met nothing that passes.
LEMMA NothingKept ==
  ASSUME NEW s, IsSequence(s), NEW I \in SUBSET DOMAIN s
  PROVE  /\ At(s, I) \in Seq({s[i] : i \in DOMAIN s}) /\ Len(At(s, I)) \in Nat
         /\ At(s, I) = <<>> <=> I = {}
         /\ Len(At(s, I)) > 0 <=> I # {}
<1> DEFINE X == {s[i] : i \in DOMAIN s}
<1>1. s \in Seq(X)
  BY DEF IsSequence
<1> HIDE DEF X
<1>2. At(s, I) \in Seq(X) /\ (At(s, I) = <<>> <=> I = {})
  BY <1>1, KeptInOrder
<1>3. Len(At(s, I)) > 0 <=> At(s, I) # <<>>
  BY <1>2, EmptySeq
<1>4. QED
  BY <1>2, <1>3 DEF X

\* Of the two deployments: what runs has no container that is not ready.
LEMMA RunningIsReady ==
  ASSUME NEW answer \in Pods, DeploymentStatus(answer) = "Running"
  PROVE  \A i \in DOMAIN answer.pods[1].containers : answer.pods[1].containers[i].ready
<1> DEFINE pod == answer.pods[1]
           I == {i \in 1..Len(pod.containers) : NotReady(pod.containers[i])}
<1>1. answer.pods # <<>> /\ getPodStatus(pod) = "Running"
  BY DEF DeploymentStatus
<1>2. IsSequence(pod.containers)
  <2>1. IsSequence(answer.pods) /\ \A i \in DOMAIN answer.pods : IsSequence(answer.pods[i].containers)
    BY ListsAssumption
  <2>2. 1 \in DOMAIN answer.pods
    BY <1>1, <2>1 DEF IsSequence
  <2>3. QED
    BY <2>1, <2>2
<1>3. DOMAIN pod.containers = 1..Len(pod.containers)
  BY <1>2 DEF IsSequence
<1>4. SelectInSeq(pod.containers, NotReady) = 0
  BY <1>1 DEF getPodStatus
<1>5. I = {}
  <2>1. SelectInSeq(pod.containers, NotReady) = IF I # {} THEN Min(I) ELSE 0
    BY DEF SelectInSeq
  <2>2. I \in SUBSET Nat /\ 0 \notin I
    BY DEF IsSequence
  <2> HIDE DEF I
  <2>3. QED
    BY <1>4, <2>1, <2>2, MinFacts
<1>6. QED
  BY <1>3, <1>5 DEF NotReady

AnomalyType ==
  {"Dependency Deadlock", "InstallPlan Conflict", "Zombie CSV", "Webhook/API Timeout",
   "API Deprecation Rejection", "Catalog Source"}

LEMMA EachIsEmpty ==
  ASSUME NEW s, IsSequence(s), NEW I \in SUBSET DOMAIN s, NEW type \in AnomalyType
  PROVE  /\ Each(At(s, I), type) \in Seq(AnomalyType)
         /\ Each(At(s, I), type) = <<>> <=> I = {}
<1> DEFINE kept == At(s, I)
<1>1. PICK X : kept \in Seq(X)
  BY NothingKept
<1>2. kept = <<>> <=> I = {}
  BY NothingKept
<1> HIDE DEF kept
<1>3. DOMAIN kept = 1..Len(kept) /\ Len(kept) \in Nat
  BY <1>1
<1>4. Each(kept, type) = [i \in 1..Len(kept) |-> type]
  BY <1>3 DEF Each
<1>5. Each(kept, type) \in Seq(AnomalyType) /\ Len(Each(kept, type)) = Len(kept)
  BY <1>3, <1>4
<1>6. Each(kept, type) = <<>> <=> kept = <<>>
  BY <1>1, <1>5, EmptySeq
<1>7. QED
  BY <1>2, <1>5, <1>6 DEF kept

LEMMA OfCsvIsEmpty ==
  ASSUME NEW csv, NEW list
  PROVE  /\ OfCsv(csv, list) \in Seq(AnomalyType)
         /\ OfCsv(csv, list) = <<>> <=> ~Zombie(csv, list) /\ ~Timeout(csv) /\ ~Rejected(csv)
<1> DEFINE zombie == "Zombie CSV"
           timeout == "Webhook/API Timeout"
           rejected == "API Deprecation Rejection"
<1>1. zombie \in AnomalyType /\ timeout \in AnomalyType /\ rejected \in AnomalyType
  BY Zenon DEF AnomalyType
<1>2. OfCsv(csv, list) =
        (IF Zombie(csv, list) THEN <<zombie>> ELSE <<>>)
          \o (IF Timeout(csv) THEN <<timeout>> ELSE IF Rejected(csv) THEN <<rejected>> ELSE <<>>)
  BY Zenon DEF OfCsv
<1> HIDE DEF zombie, timeout, rejected
<1> DEFINE one == IF Zombie(csv, list) THEN <<zombie>> ELSE <<>>
           other == IF Timeout(csv) THEN <<timeout>> ELSE IF Rejected(csv) THEN <<rejected>> ELSE <<>>
<1>3. one \in Seq(AnomalyType) /\ (one = <<>> <=> ~Zombie(csv, list))
  BY <1>1
<1>4. other \in Seq(AnomalyType) /\ (other = <<>> <=> ~Timeout(csv) /\ ~Rejected(csv))
  BY <1>1
<1>5. OfCsv(csv, list) = one \o other
  BY <1>2, Zenon
<1> HIDE DEF one, other
<1>6. QED
  BY <1>3, <1>4, <1>5, ConcatProperties, ConcatEqualIffEmpty

\* The list of anomalies is made of four parts, that of the CSVs of one for
\* each of them.  It is empty only if every part is.
LEMMA NoAnomaly ==
  ASSUME NEW l \in Lists, DetectAnomalies(l) = <<>>
  PROVE  /\ \A i \in DOMAIN l.subs : ~l.subs[i].deadlocked
         /\ \A i \in DOMAIN l.plans : ~(l.plans[i].phase = "Failed" /\ l.plans[i].conflict)
         /\ \A i \in DOMAIN l.csvs : OfCsv(l.csvs[i], l.subs) = <<>>
         /\ \A i \in DOMAIN l.sources : l.sources[i] \in {"READY", "none"}
<1> DEFINE Stuck == {i \in DOMAIN l.subs : l.subs[i].deadlocked}
           Clash == {i \in DOMAIN l.plans : l.plans[i].phase = "Failed" /\ l.plans[i].conflict}
           Lost == {i \in DOMAIN l.sources : l.sources[i] \notin {"READY", "none"}}
           parts == [i \in DOMAIN l.csvs |-> OfCsv(l.csvs[i], l.subs)]
           deadlock == "Dependency Deadlock"
           conflict == "InstallPlan Conflict"
           source == "Catalog Source"
           a == Each(At(l.subs, Stuck), deadlock)
           b == Each(At(l.plans, Clash), conflict)
           c == FlattenSeq(parts)
           d == Each(At(l.sources, Lost), source)
<1>1. IsSequence(l.subs) /\ IsSequence(l.plans) /\ IsSequence(l.sources) /\ IsSequence(l.csvs)
  BY ListsAssumption DEF Lists
<1>2. a \o b \o c \o d = <<>>
  BY Zenon DEF DetectAnomalies, Deadlocks, Conflicts, Unready, Kept, Places
<1>3. deadlock \in AnomalyType /\ conflict \in AnomalyType /\ source \in AnomalyType
  BY Zenon DEF AnomalyType
<1> HIDE DEF deadlock, conflict, source
<1>4. a \in Seq(AnomalyType) /\ (a = <<>> <=> Stuck = {})
  <2> HIDE DEF Stuck
  <2>1. Stuck \in SUBSET DOMAIN l.subs
    BY DEF Stuck
  <2>2. QED
    BY <1>1, <1>3, <2>1, EachIsEmpty
<1>5. b \in Seq(AnomalyType) /\ (b = <<>> <=> Clash = {})
  <2> HIDE DEF Clash
  <2>1. Clash \in SUBSET DOMAIN l.plans
    BY DEF Clash
  <2>2. QED
    BY <1>1, <1>3, <2>1, EachIsEmpty
<1>6. c \in Seq(AnomalyType) /\ (c = <<>> <=> \A i \in DOMAIN parts : parts[i] = <<>>)
  <2>1. \A i \in DOMAIN l.csvs : OfCsv(l.csvs[i], l.subs) \in Seq(AnomalyType)
    BY OfCsvIsEmpty
  <2>2. DOMAIN l.csvs = 1..Len(l.csvs) /\ Len(l.csvs) \in Nat
    BY <1>1 DEF IsSequence
  <2>3. parts \in Seq(Seq(AnomalyType))
    BY <2>1, <2>2
  <2> HIDE DEF parts
  <2>4. QED
    BY <2>3, FlattenFacts
<1>7. d \in Seq(AnomalyType) /\ (d = <<>> <=> Lost = {})
  <2> HIDE DEF Lost
  <2>1. Lost \in SUBSET DOMAIN l.sources
    BY DEF Lost
  <2>2. QED
    BY <1>1, <1>3, <2>1, EachIsEmpty
<1>8. a = <<>> /\ b = <<>> /\ c = <<>> /\ d = <<>>
  <2> HIDE DEF a, b, c, d
  <2>1. a \o b \in Seq(AnomalyType) /\ a \o b \o c \in Seq(AnomalyType)
    BY <1>4, <1>5, <1>6, ConcatProperties
  <2>2. a \o b \o c = <<>> /\ d = <<>>
    BY <1>2, <1>7, <2>1, ConcatEqualIffEmpty
  <2>3. a \o b = <<>> /\ c = <<>>
    BY <1>6, <2>1, <2>2, ConcatEqualIffEmpty
  <2>4. QED
    BY <1>4, <1>5, <2>2, <2>3, ConcatEqualIffEmpty
<1>9. Stuck = {} /\ Clash = {} /\ Lost = {} /\ \A i \in DOMAIN parts : parts[i] = <<>>
  <2> HIDE DEF a, b, c, d, Stuck, Clash, Lost, parts
  <2>1. QED
    BY <1>4, <1>5, <1>6, <1>7, <1>8
<1>10. QED
  BY <1>9

\* The colour of a summary is red only for something that failed.
LEMMA RedHasAReason ==
  ASSUME lists \in Lists, health = CollectOLMHealthStatus(lists)
  PROVE  /\ CatalogSourceSummary = "red" =>
              \E i \in DOMAIN lists.sources : lists.sources[i] \in {"TRANSIENT_FAILURE", "SHUTDOWN"}
         /\ InstallPlanSummary = "red" =>
              \E i \in DOMAIN lists.plans : lists.plans[i].phase = "Failed"
<1> DEFINE Lost == {i \in DOMAIN lists.sources : lists.sources[i] \in {"TRANSIENT_FAILURE", "SHUTDOWN"}}
           Failed == {i \in DOMAIN lists.plans : lists.plans[i].phase = "Failed"}
<1>1. IsSequence(lists.plans) /\ IsSequence(lists.sources)
  BY ListsAssumption DEF Lists
<1>2. health.sources.failed = Len(At(lists.sources, Lost)) /\ health.plans.failed = Len(At(lists.plans, Failed))
  BY DEF CollectOLMHealthStatus, Number, Kept, Places
<1>3. health.sources.failed > 0 => Lost # {}
  <2>1. Lost \in SUBSET DOMAIN lists.sources
    OBVIOUS
  <2>2. health.sources.failed = Len(At(lists.sources, Lost))
    BY <1>2
  <2> HIDE DEF Lost
  <2>3. Len(At(lists.sources, Lost)) > 0 <=> Lost # {}
    BY <1>1, <2>1, NothingKept
  <2>4. QED
    BY <2>2, <2>3
<1>4. health.plans.failed > 0 => Failed # {}
  <2>1. Failed \in SUBSET DOMAIN lists.plans
    OBVIOUS
  <2>2. health.plans.failed = Len(At(lists.plans, Failed))
    BY <1>2
  <2> HIDE DEF Failed
  <2>3. Len(At(lists.plans, Failed)) > 0 <=> Failed # {}
    BY <1>1, <2>1, NothingKept
  <2>4. QED
    BY <2>2, <2>3
<1>5. CatalogSourceSummary = "red" => health.sources.failed > 0
  BY DEF CatalogSourceSummary
<1>6. InstallPlanSummary = "red" => health.plans.failed > 0
  BY DEF InstallPlanSummary
<1>7. QED
  BY <1>3, <1>4, <1>5, <1>6

(* HEALTHY is not said beside anything red, of whatever the API server     *)
(* lists, and the banner agrees with the badge and with its list           *)
(* (collector_health.go:21-132, collector.go:612-757, app.js:252-283).     *)
THEOREM HealthAlwaysAgrees == HSpec => []HealthAgrees
<1>1. ResultsOfLists => HealthAgrees
  <2> SUFFICES ASSUME ResultsOfLists
               PROVE  HealthAgrees
    OBVIOUS
  <2>1. HealthBadge = "ACTION REQUIRED" <=> AnomalyBanner.amber
    BY DEF HealthBadge, AnomalyBanner
  <2>2. AnomalyBanner.count = Len(AnomalyList)
    BY DEF AnomalyBanner, AnomalyList
  <2>3. ASSUME HealthBadge = "HEALTHY"
        PROVE  /\ getStatusClass(health.olm) = "green" /\ getStatusClass(health.catalog) = "green"
               /\ CatalogSourceSummary # "red"
               /\ \A answer \in {lists.olm, lists.catalog} :
                    \A i \in DOMAIN answer.pods[1].containers : answer.pods[1].containers[i].ready
               /\ \A i \in DOMAIN lists.sources : lists.sources[i] \in {"READY", "none"}
               /\ InstallPlanSummary = "red" =>
                    \E i \in DOMAIN lists.plans : lists.plans[i].phase = "Failed" /\ ~lists.plans[i].conflict
               /\ \A i \in DOMAIN lists.subs : ~lists.subs[i].deadlocked
               /\ \A i \in DOMAIN lists.csvs :
                    LET csv == lists.csvs[i]
                    IN ~(Timeout(csv) \/ Rejected(csv) \/ Zombie(csv, lists.subs))
    <3>1. anomalies = <<>> /\ health.olm = "Running" /\ health.catalog = "Running"
      BY <2>3 DEF HealthBadge
    <3>2. /\ lists \in Lists
          /\ health = CollectOLMHealthStatus(lists) /\ DetectAnomalies(lists) = <<>>
      BY <3>1 DEF ResultsOfLists
    <3>3. getStatusClass(health.olm) = "green" /\ getStatusClass(health.catalog) = "green"
      BY <3>1, Zenon DEF getStatusClass
    <3>4. ASSUME NEW answer \in {lists.olm, lists.catalog}
          PROVE  \A i \in DOMAIN answer.pods[1].containers : answer.pods[1].containers[i].ready
      <4>1. answer \in Pods
        BY <3>2 DEF Lists
      <4>2. health.olm = DeploymentStatus(lists.olm) /\ health.catalog = DeploymentStatus(lists.catalog)
        BY <3>2 DEF CollectOLMHealthStatus
      <4>3. DeploymentStatus(answer) = "Running"
        BY <3>1, <4>2
      <4>4. QED
        BY <4>1, <4>3, RunningIsReady
    <3>5. /\ \A i \in DOMAIN lists.subs : ~lists.subs[i].deadlocked
          /\ \A i \in DOMAIN lists.plans : ~(lists.plans[i].phase = "Failed" /\ lists.plans[i].conflict)
          /\ \A i \in DOMAIN lists.csvs : OfCsv(lists.csvs[i], lists.subs) = <<>>
          /\ \A i \in DOMAIN lists.sources : lists.sources[i] \in {"READY", "none"}
      BY <3>2, NoAnomaly
    <3>6. CatalogSourceSummary # "red"
      BY <3>2, <3>5, RedHasAReason
    <3>7. InstallPlanSummary = "red" =>
            \E i \in DOMAIN lists.plans : lists.plans[i].phase = "Failed" /\ ~lists.plans[i].conflict
      BY <3>2, <3>5, RedHasAReason
    <3>8. \A i \in DOMAIN lists.csvs :
            LET csv == lists.csvs[i]
            IN ~(Timeout(csv) \/ Rejected(csv) \/ Zombie(csv, lists.subs))
      BY <3>5, OfCsvIsEmpty
    <3>9. QED
      BY <3>3, <3>4, <3>5, <3>6, <3>7, <3>8
  <2>4. QED
    BY <2>1, <2>2, <2>3 DEF HealthAgrees
<1>2. QED
  BY <1>1, ResultsAlwaysOfLists, PTL

-----------------------------------------------------------------------------
(* The three walks of the schema diff.                                     *)

Part == {Head(n) : n \in (UNION {DOMAIN m : m \in SpecProperties})
                           \cup UNION {DOMAIN v.fields : v \in Specs}}

LEMMA NamesOfParts ==
  /\ \A m \in SpecProperties : DOMAIN m \subseteq Names(Part)
  /\ \A v \in Specs : DOMAIN v.fields \subseteq Names(Part)
<1>1. ASSUME NEW m \in SpecProperties, NEW n \in DOMAIN m
      PROVE  n \in Names(Part)
  <2>1. n = <<Head(n)>>
    BY SchemaAssumption
  <2>2. Head(n) \in Part
    BY DEF Part
  <2>3. QED
    BY <2>1, <2>2 DEF Names
<1>2. ASSUME NEW v \in Specs, NEW n \in DOMAIN v.fields
      PROVE  n \in Names(Part)
  <2>1. n = <<Head(n)>>
    BY SpecAssumption
  <2>2. Head(n) \in Part
    BY DEF Part
  <2>3. QED
    BY <2>1, <2>2 DEF Names
<1>3. QED
  BY <1>1, <1>2

\* What the paths of a property map are.
LEMMA PathsOfMap ==
  ASSUME NEW m \in SpecProperties
  PROVE  /\ Paths[m] \subseteq Seq(Part) \ {<<>>}
         /\ \A p : p \in Paths[m] <=>
              p \in DOMAIN m \/ \E n \in DOMAIN m : \E q \in Paths[m[n].properties] : p = n \o q
<1> DEFINE S == SpecProperties
           base == [s \in S |-> DOMAIN s]
           child == [s \in S |-> [n \in DOMAIN s |-> s[n].properties]]
           Step(f) == [s \in S |-> DOMAIN s \cup UNION {{n \o p : p \in f[s[n].properties]} : n \in DOMAIN s}]
<1>1. \A s \in S : base[s] = DOMAIN s /\ \A n \in DOMAIN s : child[s][n] = s[n].properties
  OBVIOUS
<1>2. IsTree(Part, S, base, base, child, Depth)
  <2> HIDE DEF base, child
  <2>1. \A s \in S : Depth[s] \in Nat /\ base[s] \subseteq Names(Part)
    BY <1>1, NamesOfParts, SchemaAssumption, Zenon
  <2>2. \A s \in S : \A n \in base[s] : child[s][n] \in S /\ Depth[child[s][n]] < Depth[s]
    <3>1. \A s \in S : \A n \in DOMAIN s : s[n].properties \in S /\ Depth[s[n].properties] < Depth[s]
      BY SchemaAssumption, Zenon
    <3>2. QED
      BY <1>1, <3>1
  <2>3. QED
    BY <2>1, <2>2 DEF IsTree
<1>3. ASSUME NEW f
      PROVE  Step(f) = WalkStep(f, S, base, base, child)
  <2> HIDE DEF base, child
  <2>1. ASSUME NEW s \in S
        PROVE  {{n \o p : p \in f[s[n].properties]} : n \in DOMAIN s}
                 = {{n \o p : p \in f[child[s][n]]} : n \in base[s]}
    <3> DEFINE Under(n) == {n \o p : p \in f[s[n].properties]}
               Beneath(n) == {n \o p : p \in f[child[s][n]]}
    <3>1. \A n \in DOMAIN s : Under(n) = Beneath(n)
      BY <1>1
    <3> HIDE DEF Under, Beneath
    <3>2. {Under(n) : n \in DOMAIN s} = {Beneath(n) : n \in base[s]}
      BY <1>1, <3>1
    <3>3. QED
      BY <3>2 DEF Under, Beneath
  <2>2. QED
    BY <1>1, <2>1 DEF WalkStep
<1>4. Paths = WalkStep(Paths, S, base, base, child)
  <2>1. Paths = CHOOSE f : f = Step(f)
    BY Zenon DEF Paths
  <2> HIDE DEF Step, base, child
  <2>2. \E f : f = Step(f)
    <3>1. WalkExists(S, base, base, child)
      BY <1>2, WalkIsDefined, Zenon
    <3>2. QED
      BY <1>3, <3>1 DEF WalkExists
  <2>3. QED
    BY <1>3, <2>1, <2>2, Zenon
<1> HIDE DEF base, child
<1>5. /\ \A s \in S : Paths[s] \subseteq Seq(Part) \ {<<>>}
      /\ \A s \in S : \A p :
           p \in Paths[s] <=> FoundAt(p, Paths, s, base, base, child)
  BY <1>2, <1>4, WalkFinds, Zenon
<1>6. ASSUME NEW p
      PROVE  p \in Paths[m] <=>
               p \in DOMAIN m \/ \E n \in DOMAIN m : \E q \in Paths[m[n].properties] : p = n \o q
  <2>1. p \in Paths[m] <=> FoundAt(p, Paths, m, base, base, child)
    BY <1>5, Zenon
  <2>2. base[m] = DOMAIN m /\ \A n \in DOMAIN m : child[m][n] = m[n].properties
    BY <1>1
  <2>3. QED
    BY <2>1, <2>2 DEF FoundAt
<1>7. QED
  BY <1>5, <1>6

\* What a value sets.
LEMMA SetsOfValue ==
  ASSUME NEW v \in Specs
  PROVE  /\ Sets[v] \subseteq Seq(Part) \ {<<>>}
         /\ \A p : p \in Sets[v] <=>
              p \in DOMAIN v.fields \/ \E n \in DOMAIN v.fields : \E q \in Sets[v.fields[n]] : p = n \o q
<1> DEFINE S == Specs
           base == [s \in S |-> DOMAIN s.fields]
           child == [s \in S |-> [n \in DOMAIN s.fields |-> s.fields[n]]]
           Step(f) == [s \in S |-> DOMAIN s.fields \cup UNION {{n \o p : p \in f[s.fields[n]]} : n \in DOMAIN s.fields}]
<1>1. \A s \in S : base[s] = DOMAIN s.fields /\ \A n \in DOMAIN s.fields : child[s][n] = s.fields[n]
  OBVIOUS
<1>2. IsTree(Part, S, base, base, child, SpecDepth)
  <2> HIDE DEF base, child
  <2>1. \A s \in S : SpecDepth[s] \in Nat /\ base[s] \subseteq Names(Part)
    BY <1>1, NamesOfParts, SpecAssumption, Zenon
  <2>2. \A s \in S : \A n \in base[s] : child[s][n] \in S /\ SpecDepth[child[s][n]] < SpecDepth[s]
    <3>1. \A s \in S : \A n \in DOMAIN s.fields : s.fields[n] \in S /\ SpecDepth[s.fields[n]] < SpecDepth[s]
      BY SpecAssumption, Zenon
    <3>2. QED
      BY <1>1, <3>1
  <2>3. QED
    BY <2>1, <2>2 DEF IsTree
<1>3. ASSUME NEW f
      PROVE  Step(f) = WalkStep(f, S, base, base, child)
  <2> HIDE DEF base, child
  <2>1. ASSUME NEW s \in S
        PROVE  {{n \o p : p \in f[s.fields[n]]} : n \in DOMAIN s.fields}
                 = {{n \o p : p \in f[child[s][n]]} : n \in base[s]}
    <3> DEFINE Under(n) == {n \o p : p \in f[s.fields[n]]}
               Beneath(n) == {n \o p : p \in f[child[s][n]]}
    <3>1. \A n \in DOMAIN s.fields : Under(n) = Beneath(n)
      BY <1>1
    <3> HIDE DEF Under, Beneath
    <3>2. {Under(n) : n \in DOMAIN s.fields} = {Beneath(n) : n \in base[s]}
      BY <1>1, <3>1
    <3>3. QED
      BY <3>2 DEF Under, Beneath
  <2>2. QED
    BY <1>1, <2>1 DEF WalkStep
<1>4. Sets = WalkStep(Sets, S, base, base, child)
  <2>1. Sets = CHOOSE f : f = Step(f)
    BY Zenon DEF Sets
  <2> HIDE DEF Step, base, child
  <2>2. \E f : f = Step(f)
    <3>1. WalkExists(S, base, base, child)
      BY <1>2, WalkIsDefined, Zenon
    <3>2. QED
      BY <1>3, <3>1 DEF WalkExists
  <2>3. QED
    BY <1>3, <2>1, <2>2, Zenon
<1> HIDE DEF base, child
<1>5. /\ \A s \in S : Sets[s] \subseteq Seq(Part) \ {<<>>}
      /\ \A s \in S : \A p :
           p \in Sets[s] <=> FoundAt(p, Sets, s, base, base, child)
  BY <1>2, <1>4, WalkFinds, Zenon
<1>6. ASSUME NEW p
      PROVE  p \in Sets[v] <=>
               p \in DOMAIN v.fields \/ \E n \in DOMAIN v.fields : \E q \in Sets[v.fields[n]] : p = n \o q
  <2>1. p \in Sets[v] <=> FoundAt(p, Sets, v, base, base, child)
    BY <1>5, Zenon
  <2>2. base[v] = DOMAIN v.fields /\ \A n \in DOMAIN v.fields : child[v][n] = v.fields[n]
    BY <1>1
  <2>3. QED
    BY <2>1, <2>2 DEF FoundAt
<1>7. QED
  BY <1>5, <1>6

\* What the removed paths between two property maps are.
LEMMA RemovedBetween ==
  ASSUME NEW cur \in SpecProperties, NEW tgt \in SpecProperties
  PROVE  /\ Removed[cur][tgt] \subseteq Seq(Part) \ {<<>>}
         /\ \A p : p \in Removed[cur][tgt] <=>
              \/ p \in DOMAIN cur \ DOMAIN tgt
              \/ \E n \in Descends(cur, tgt) : \E q \in Removed[cur[n].properties][Below(tgt, n)] : p = n \o q
<1> DEFINE P == SpecProperties
           S == P \X P
           base == [s \in S |-> DOMAIN s[1] \ DOMAIN s[2]]
           kids == [s \in S |-> Descends(s[1], s[2])]
           child == [s \in S |-> [n \in Descends(s[1], s[2]) |-> <<s[1][n].properties, Below(s[2], n)>>]]
           depth == [s \in S |-> Depth[s[1]]]
           Step(f) == [c \in P |-> [t \in P |->
                         (DOMAIN c \ DOMAIN t)
                           \cup UNION {{n \o p : p \in f[c[n].properties][Below(t, n)]} : n \in Descends(c, t)}]]
           Pair(f) == [s \in S |-> f[s[1]][s[2]]]
<1>1. ASSUME NEW s \in S
      PROVE  /\ base[s] = DOMAIN s[1] \ DOMAIN s[2] /\ kids[s] = Descends(s[1], s[2])
             /\ depth[s] = Depth[s[1]]
             /\ \A n \in kids[s] : child[s][n] = <<s[1][n].properties, Below(s[2], n)>>
  OBVIOUS
<1>2. ASSUME NEW c \in P, NEW t \in P, NEW n \in Descends(c, t)
      PROVE  n \in DOMAIN c /\ c[n].properties \in P /\ Below(t, n) \in P /\ Depth[c[n].properties] < Depth[c]
  <2>1. n \in DOMAIN c
    BY DEF Descends
  <2>2. c[n].properties \in P /\ Depth[c[n].properties] < Depth[c] /\ NoProperties \in P
    BY <2>1, SchemaAssumption, Zenon
  <2>3. n \in DOMAIN t => t[n].properties \in P
    BY SchemaAssumption, Zenon
  <2>4. QED
    BY <2>1, <2>2, <2>3, Zenon DEF Below
<1>3. IsTree(Part, S, base, kids, child, depth)
  <2>1. ASSUME NEW s \in S
        PROVE  /\ depth[s] \in Nat
               /\ base[s] \subseteq Names(Part) /\ kids[s] \subseteq Names(Part)
               /\ \A n \in kids[s] : child[s][n] \in S /\ depth[child[s][n]] < depth[s]
    <3>1. s[1] \in P /\ s[2] \in P
      OBVIOUS
    <3>2. Depth[s[1]] \in Nat /\ DOMAIN s[1] \subseteq Names(Part)
      BY <3>1, NamesOfParts, SchemaAssumption, Zenon
    <3>3. kids[s] \subseteq DOMAIN s[1]
      BY <1>1 DEF Descends
    <3>4. ASSUME NEW n \in kids[s]
          PROVE  child[s][n] \in S /\ depth[child[s][n]] < depth[s]
      <4> DEFINE c == s[1][n].properties  t == Below(s[2], n)
      <4>1. n \in Descends(s[1], s[2]) /\ child[s][n] = <<c, t>>
        BY <1>1
      <4>2. c \in P /\ t \in P /\ Depth[c] < Depth[s[1]]
        BY <1>2, <3>1, <4>1
      <4> HIDE DEF c, t, child
      <4>3. <<c, t>> \in S /\ depth[<<c, t>>] = Depth[c] /\ depth[s] = Depth[s[1]]
        BY <4>2
      <4>4. QED
        BY <4>1, <4>2, <4>3
    <3> HIDE DEF S, base, kids, child, depth
    <3>5. QED
      BY <1>1, <3>2, <3>3, <3>4
  <2> HIDE DEF S, base, kids, child, depth
  <2>2. QED
    BY <2>1 DEF IsTree
<1>4. ASSUME NEW f, NEW c \in P, NEW t \in P
      PROVE  /\ Step(f)[c][t] = WalkStep(Pair(f), S, base, kids, child)[<<c, t>>]
             /\ Pair(f)[<<c, t>>] = f[c][t]
  <2> DEFINE s == <<c, t>>
             Under(n) == {n \o p : p \in f[c[n].properties][Below(t, n)]}
             Beneath(n) == {n \o p : p \in Pair(f)[child[s][n]]}
  <2>1. s \in S /\ s[1] = c /\ s[2] = t
    OBVIOUS
  <2>2. base[s] = DOMAIN c \ DOMAIN t /\ kids[s] = Descends(c, t)
    BY <1>1, <2>1
  <2>3. ASSUME NEW n \in Descends(c, t)
        PROVE  Under(n) = Beneath(n)
    <3> DEFINE d == c[n].properties  u == Below(t, n)
    <3>1. child[s][n] = <<d, u>>
      BY <1>1, <2>1, <2>2
    <3>2. d \in P /\ u \in P
      BY <1>2
    <3> HIDE DEF d, u
    <3>3. Pair(f)[<<d, u>>] = f[d][u]
      BY <3>2
    <3> HIDE DEF Pair, child, s
    <3>4. QED
      BY <3>1, <3>3 DEF d, u
  <2>4. Step(f)[c][t] = (DOMAIN c \ DOMAIN t) \cup UNION {Under(n) : n \in Descends(c, t)}
    OBVIOUS
  <2>5. WalkStep(Pair(f), S, base, kids, child)[s] = base[s] \cup UNION {Beneath(n) : n \in kids[s]}
    <3> HIDE DEF S, base, kids, child, Pair, s
    <3> QED
      BY <2>1 DEF WalkStep
  <2>6. Pair(f)[s] = f[c][t]
    BY <2>1
  <2> HIDE DEF Under, Beneath, Step, Pair, S, base, kids, child
  <2>7. {Under(n) : n \in Descends(c, t)} = {Beneath(n) : n \in kids[s]}
    BY <2>2, <2>3
  <2>8. QED
    BY <2>2, <2>4, <2>5, <2>6, <2>7
<1> HIDE DEF Step, base, kids, child, depth
<1>5. \E f : f = Step(f)
  <2>1. WalkExists(S, base, kids, child)
    <3> HIDE DEF S
    <3> QED
      BY <1>3, WalkIsDefined, Zenon
  <2>2. PICK W : W = WalkStep(W, S, base, kids, child)
    BY <2>1 DEF WalkExists
  <2> PICK f : f = [c \in P |-> [t \in P |-> W[<<c, t>>]]]
    OBVIOUS
  <2>3. W = [s \in S |-> W[s]]
    <3> HIDE DEF S
    <3>1. WalkStep(W, S, base, kids, child) = [s \in S |-> WalkStep(W, S, base, kids, child)[s]]
      BY DEF WalkStep
    <3>2. QED
      BY <2>2, <3>1
  <2>4. Pair(f) = W
    <3>1. \A s \in S : f[s[1]][s[2]] = W[s]
      <4>1. \A s \in S : s[1] \in P /\ s[2] \in P /\ s = <<s[1], s[2]>>
        OBVIOUS
      <4> HIDE DEF S
      <4>2. QED
        BY <4>1
    <3> HIDE DEF S
    <3>2. QED
      BY <2>3, <3>1
  <2>5. ASSUME NEW c \in P, NEW t \in P
        PROVE  Step(f)[c][t] = W[<<c, t>>]
    <3>1. Step(f)[c][t] = WalkStep(Pair(f), S, base, kids, child)[<<c, t>>]
      <4> HIDE DEF Pair, S, P
      <4>1. QED
        BY <1>4, Zenon
    <3>2. QED
      BY <2>2, <2>4, <3>1
  <2>6. f = Step(f)
    <3>1. PICK h : h = Step(f)
      OBVIOUS
    <3>2. h = [c \in P |-> [t \in P |-> h[c][t]]]
      BY <3>1 DEF Step
    <3>3. \A c, t \in P : h[c][t] = W[<<c, t>>]
      BY <2>5, <3>1
    <3> HIDE DEF P, Step
    <3>4. h = f
      BY <3>2, <3>3
    <3>5. QED
      BY <3>1, <3>4
  <2>7. QED
    BY <2>6
<1>6. Removed = Step(Removed)
  <2>1. Removed = CHOOSE f : f = Step(f)
    BY Zenon DEF Removed, Step
  <2>2. QED
    BY <1>5, <2>1, Zenon
<1> DEFINE R == Pair(Removed)
<1>7. R = WalkStep(R, S, base, kids, child)
  <2>1. ASSUME NEW s \in S
        PROVE  R[s] = WalkStep(R, S, base, kids, child)[s]
    <3>1. s[1] \in P /\ s[2] \in P /\ s = <<s[1], s[2]>>
      OBVIOUS
    <3> HIDE DEF S, P, Pair
    <3>2. /\ Step(Removed)[s[1]][s[2]] = WalkStep(R, S, base, kids, child)[<<s[1], s[2]>>]
          /\ R[<<s[1], s[2]>>] = Removed[s[1]][s[2]]
      BY <1>4, <3>1
    <3>3. QED
      BY <1>6, <3>1, <3>2
  <2>2. R = [s \in S |-> R[s]]
    OBVIOUS
  <2> HIDE DEF R, S
  <2>3. WalkStep(R, S, base, kids, child) = [s \in S |-> WalkStep(R, S, base, kids, child)[s]]
    BY DEF WalkStep
  <2>4. QED
    BY <2>1, <2>2, <2>3
<1>8. /\ \A s \in S : R[s] \subseteq Seq(Part) \ {<<>>}
      /\ \A s \in S : \A p : p \in R[s] <=> FoundAt(p, R, s, base, kids, child)
  <2> HIDE DEF R, S
  <2> QED
    BY <1>3, <1>7, WalkFinds, Zenon
<1> DEFINE here == <<cur, tgt>>
<1>9. here \in S /\ here[1] = cur /\ here[2] = tgt
  OBVIOUS
<1>10. \A c, t \in P : R[<<c, t>>] = Removed[c][t]
  OBVIOUS
<1> HIDE DEF R, S, here
<1>11. Removed[cur][tgt] \subseteq Seq(Part) \ {<<>>}
  BY <1>8, <1>9, <1>10 DEF here
<1>12. ASSUME NEW p
       PROVE  p \in Removed[cur][tgt] <=>
                \/ p \in DOMAIN cur \ DOMAIN tgt
                \/ \E n \in Descends(cur, tgt) : \E q \in Removed[cur[n].properties][Below(tgt, n)] : p = n \o q
  <2>1. p \in R[here] <=> p \in base[here] \/ \E n \in kids[here] : \E q \in R[child[here][n]] : p = n \o q
    BY <1>8, <1>9, Zenon DEF FoundAt
  <2>2. base[here] = DOMAIN cur \ DOMAIN tgt /\ kids[here] = Descends(cur, tgt) /\ R[here] = Removed[cur][tgt]
    BY <1>1, <1>9, <1>10 DEF here
  <2>3. ASSUME NEW n \in Descends(cur, tgt)
        PROVE  R[child[here][n]] = Removed[cur[n].properties][Below(tgt, n)]
    <3>1. child[here][n] = <<cur[n].properties, Below(tgt, n)>>
      BY <1>1, <1>9, <2>2
    <3>2. cur[n].properties \in P /\ Below(tgt, n) \in P
      BY <1>2
    <3>3. QED
      BY <1>10, <3>1, <3>2
  <2>4. QED
    BY <2>1, <2>2, <2>3
<1>13. QED
  BY <1>11, <1>12

-----------------------------------------------------------------------------
(* Paths outside the elements of arrays, and what they are in.             *)

Plain == Part \ {Item}

\* A function on the places of a list is a list.
LEMMA ListOfPlain ==
  ASSUME NEW n \in Nat, NEW f \in [1..n -> Plain]
  PROVE  f \in Seq(Plain)
BY SeqDef

\* A path stays out of the elements when none of its parts steps into them.
LEMMA PlainPaths ==
  ASSUME NEW p \in Seq(Part)
  PROVE  ~InElements(p) <=> p \in Seq(Plain)
<1>1. Len(p) \in Nat /\ p \in [1..Len(p) -> Part] /\ DOMAIN p = 1..Len(p)
  BY LenProperties
<1>2. ASSUME ~InElements(p)
      PROVE  p \in Seq(Plain)
  <2>1. p \in [1..Len(p) -> Plain]
    BY <1>1, <1>2 DEF InElements, Plain
  <2>2. QED
    BY <1>1, <2>1, ListOfPlain
<1>3. ASSUME p \in Seq(Plain), NEW k \in DOMAIN p
      PROVE  p[k] # Item
  <2>1. k \in 1..Len(p)
    BY <1>1
  <2>2. p[k] \in Plain
    BY <1>3, <2>1, ElementOfSeq
  <2>3. QED
    BY <2>2 DEF Plain
<1>4. QED
  BY <1>2, <1>3 DEF InElements

\* A name in front keeps a path plain, and comes off a plain one.
LEMMA PlainInFront ==
  ASSUME NEW n \in Names(Part), NEW q \in Seq(Part)
  PROVE  n \o q \in Seq(Plain) <=> n \in Names(Plain) /\ q \in Seq(Plain)
<1> DEFINE p == n \o q
<1>1. /\ p \in Seq(Part) /\ Len(p) = Len(q) + 1 /\ p[1] = n[1] /\ Len(q) \in Nat
      /\ \A i \in 1..Len(q) : p[i + 1] = q[i]
  BY OneInFront, LenProperties
<1>2. ASSUME p \in Seq(Plain)
      PROVE  n \in Names(Plain) /\ q \in Seq(Plain)
  <2> HIDE DEF p
  <2>1. \A i \in 1..Len(p) : p[i] \in Plain
    BY <1>2, ElementOfSeq
  <2>2. n[1] \in Plain
    <3>1. 1 \in 1..Len(p)
      BY <1>1
    <3>2. QED
      BY <1>1, <2>1, <3>1
  <2>3. n \in Names(Plain)
    <3>1. PICK a \in Part : n = <<a>>
      BY DEF Names
    <3>2. QED
      BY <2>2, <3>1 DEF Names
  <2>4. q \in [1..Len(q) -> Plain]
    <3>1. q \in [1..Len(q) -> Part]
      BY LenProperties
    <3>2. \A i \in 1..Len(q) : i + 1 \in 1..Len(p)
      BY <1>1
    <3>3. QED
      BY <1>1, <2>1, <3>1, <3>2
  <2>5. q \in Seq(Plain)
    BY <1>1, <2>4, ListOfPlain
  <2>6. QED
    BY <2>3, <2>5
<1>3. ASSUME n \in Names(Plain), q \in Seq(Plain)
      PROVE  p \in Seq(Plain)
  BY <1>3, OneInFront
<1>4. QED
  BY <1>2, <1>3

\* Two ways to write a path begin with the same name.
BeginAlike(n, k, s, u, r) == n \o s = (k \o u) \o r => n = k /\ s = u \o r

LEMMA SameStart ==
  \A n, k \in Names(Part) : \A s, u, r \in Seq(Part) : BeginAlike(n, k, s, u, r)
<1>1. ASSUME NEW n \in Names(Part), NEW k \in Names(Part), NEW s \in Seq(Part),
             NEW u \in Seq(Part), NEW r \in Seq(Part), n \o s = (k \o u) \o r
      PROVE  n = k /\ s = u \o r
  <2> PICK t : t = u \o r
    OBVIOUS
  <2>1. t \in Seq(Part)
    BY ConcatProperties
  <2>2. n \o s = k \o t
    BY <1>1, OneInFront
  <2>3. n = k /\ s = t
    <3>1. \A v \in Seq(Part) : n \o s = k \o v => n = k /\ s = v
      BY OnlyOneWay
    <3>2. QED
      BY <2>1, <2>2, <3>1
  <2>4. QED
    BY <2>3
<1>2. QED
  BY <1>1 DEF BeginAlike

\* What a path is in are its proper beginnings.
LEMMA AroundIsBefore ==
  ASSUME NEW p \in Seq(Part)
  PROVE  \A q : q \in Around(p) <=>
           q \in Seq(Part) \ {<<>>} /\ \E r \in Seq(Part) \ {<<>>} : p = q \o r
<1>1. Len(p) \in Nat /\ \A i \in 1..Len(p) : p[i] \in Part
  BY LenProperties, ElementOfSeq
<1>2. ASSUME NEW k \in 1..(Len(p) - 1)
      PROVE  /\ SubSeq(p, 1, k) \in Seq(Part) \ {<<>>}
             /\ SubSeq(p, k + 1, Len(p)) \in Seq(Part) \ {<<>>}
             /\ p = SubSeq(p, 1, k) \o SubSeq(p, k + 1, Len(p))
  <2>1. /\ k \in Int /\ Len(p) \in Int /\ k + 1 \in Int /\ 1 <= k /\ k + 1 <= Len(p)
        /\ \A i \in 1..k : p[i] \in Part
        /\ \A i \in (k + 1)..Len(p) : p[i] \in Part
        /\ 1 \in 1..(Len(p) + 1) /\ k \in 0..Len(p) /\ 1 - 1 = 0 /\ Len(p) \in k..Len(p)
    BY <1>1
  <2>2. SubSeq(p, 1, k) \in Seq(Part) /\ Len(SubSeq(p, 1, k)) = k - 1 + 1
    BY <2>1, SubSeqProperties
  <2>3. SubSeq(p, k + 1, Len(p)) \in Seq(Part) /\ Len(SubSeq(p, k + 1, Len(p))) = Len(p) - (k + 1) + 1
    BY <2>1, SubSeqProperties
  <2>4. SubSeq(p, 1, k) # <<>> /\ SubSeq(p, k + 1, Len(p)) # <<>>
    <3>1. Len(<<>>) = 0
      BY EmptySeq
    <3>2. k - 1 + 1 # 0 /\ Len(p) - (k + 1) + 1 # 0
      BY <2>1
    <3>3. QED
      BY <2>2, <2>3, <3>1, <3>2
  <2>5. SubSeq(p, 1, k) \o SubSeq(p, k + 1, Len(p)) = SubSeq(p, 1, Len(p))
    BY <2>1, ConcatAdjacentSubSeq
  <2>6. SubSeq(p, 1, Len(p)) = p
    BY SubSeqFull
  <2>7. QED
    BY <2>2, <2>3, <2>4, <2>5, <2>6
<1>3. ASSUME NEW q \in Seq(Part) \ {<<>>}, NEW r \in Seq(Part) \ {<<>>}, p = q \o r
      PROVE  q \in Around(p)
  <2>1. Len(q) \in Nat /\ Len(q) > 0 /\ Len(r) \in Nat /\ Len(r) > 0
    BY EmptySeq
  <2>2. Len(p) = Len(q) + Len(r)
    BY <1>3, ConcatProperties
  <2>3. Len(q) \in 1..(Len(p) - 1) /\ 1 \in 1..Len(q) /\ Len(q) \in 1..Len(q)
    BY <2>1, <2>2
  <2>4. SubSeq(p, 1, Len(q)) = SubSeq(q, 1, Len(q))
    BY <1>3, <2>3, SubSeqOfConcat1
  <2>5. SubSeq(q, 1, Len(q)) = q
    BY SubSeqFull
  <2>6. QED
    BY <2>3, <2>4, <2>5 DEF Around
<1>4. ASSUME NEW q \in Around(p)
      PROVE  q \in Seq(Part) \ {<<>>} /\ \E r \in Seq(Part) \ {<<>>} : p = q \o r
  <2>1. PICK k \in 1..(Len(p) - 1) : q = SubSeq(p, 1, k)
    BY DEF Around
  <2>2. QED
    BY <1>2, <2>1
<1>5. QED
  BY <1>3, <1>4

-----------------------------------------------------------------------------
(* What is removed is gone while all it is in is kept, and what is gone is *)
(* below something removed or in the elements of an array.                 *)

BelowRemoved(p, cur, tgt) == \E q \in Removed[cur][tgt] : \E r \in Seq(Part) : p = q \o r

KeptAround(p, tgt) ==
  \A q \in Seq(Part) \ {<<>>} : (\E r \in Seq(Part) \ {<<>>} : p = q \o r) => q \in Paths[tgt]

CoversTheGone(cur) ==
  \A tgt \in SpecProperties :
    /\ Removed[cur][tgt] \subseteq Seq(Plain) \cap (Paths[cur] \ Paths[tgt])
    /\ \A p \in (Paths[cur] \ Paths[tgt]) \cap Seq(Plain) : BelowRemoved(p, cur, tgt)
    /\ \A p \in Removed[cur][tgt] : KeptAround(p, tgt)

\* The properties of an object, with no step into elements among them.
Object(m) == m \in SpecProperties /\ <<Item>> \notin DOMAIN m

\* One level: when it is so below, it is so here.
LEMMA CoversFromBelow ==
  ASSUME NEW cur \in SpecProperties, <<Item>> \notin DOMAIN cur,
         \A n \in DOMAIN cur : cur[n].nested => CoversTheGone(cur[n].properties)
  PROVE  CoversTheGone(cur)
<1> SUFFICES ASSUME NEW tgt \in SpecProperties
             PROVE  /\ Removed[cur][tgt] \subseteq Seq(Plain) \cap (Paths[cur] \ Paths[tgt])
                    /\ \A p \in (Paths[cur] \ Paths[tgt]) \cap Seq(Plain) : BelowRemoved(p, cur, tgt)
                    /\ \A p \in Removed[cur][tgt] : KeptAround(p, tgt)
  BY DEF CoversTheGone
<1>1. /\ DOMAIN cur \subseteq Names(Part) /\ DOMAIN tgt \subseteq Names(Part)
      /\ \A n \in DOMAIN cur : cur[n].properties \in SpecProperties
      /\ \A n \in DOMAIN tgt : tgt[n].properties \in SpecProperties
      /\ NoProperties \in SpecProperties
  BY NamesOfParts, SchemaAssumption, Zenon
<1>2. DOMAIN cur \subseteq Names(Plain)
  <2>1. ASSUME NEW n \in DOMAIN cur
        PROVE  n \in Names(Plain)
    <3>1. PICK a \in Part : n = <<a>>
      BY <1>1 DEF Names
    <3>2. a # Item
      BY <3>1, Zenon
    <3>3. QED
      BY <3>1, <3>2 DEF Names, Plain
  <2>2. QED
    BY <2>1
<1>3. ASSUME NEW m \in SpecProperties, NEW q \in Paths[m], q \in Seq(Plain)
      PROVE  DOMAIN m # {} /\ ~(DOMAIN m \subseteq {<<Item>>})
  <2>1. /\ DOMAIN m \subseteq Names(Part)
        /\ \A n \in DOMAIN m : m[n].properties \in SpecProperties
    BY NamesOfParts, SchemaAssumption, Zenon
  <2>2. PICK n \in DOMAIN m : \E r \in Seq(Part) : q = n \o r
    <3>1. CASE q \in DOMAIN m
      <4>1. q = q \o <<>> /\ <<>> \in Seq(Part)
        BY <2>1, <3>1, EmptySeq, OneInFront
      <4>2. QED
        BY <3>1, <4>1
    <3>2. CASE \E n \in DOMAIN m : \E r \in Paths[m[n].properties] : q = n \o r
      <4>1. \A n \in DOMAIN m : Paths[m[n].properties] \subseteq Seq(Part)
        BY <2>1, PathsOfMap
      <4>2. QED
        BY <3>2, <4>1
    <3>3. QED
      BY <3>1, <3>2, PathsOfMap
  <2>3. PICK r \in Seq(Part) : q = n \o r
    BY <2>2
  <2>4. n \in Names(Plain)
    BY <1>3, <2>1, <2>3, PlainInFront
  <2>5. n # <<Item>>
    BY <2>4 DEF Names, Plain
  <2>6. QED
    BY <2>5
<1>4. ASSUME NEW n \in DOMAIN tgt
      PROVE  /\ Below(tgt, n) \in SpecProperties
             /\ \A q \in Seq(Plain) : q \in Paths[Below(tgt, n)] <=> q \in Paths[tgt[n].properties]
  <2>1. tgt[n].nested \/ DOMAIN tgt[n].properties \subseteq {<<Item>>}
    BY SchemaAssumption, Zenon
  <2>2. CASE tgt[n].nested
    BY <1>1, <2>2, Zenon DEF Below
  <2>3. CASE ~tgt[n].nested
    <3>1. Below(tgt, n) = NoProperties
      BY <2>3, Zenon DEF Below
    <3>2. DOMAIN NoProperties = {}
      BY DEF NoProperties
    <3>3. \A q \in Seq(Plain) : q \notin Paths[NoProperties]
      BY <1>1, <1>3, <3>2
    <3>4. \A q \in Seq(Plain) : q \notin Paths[tgt[n].properties]
      BY <1>1, <1>3, <2>1, <2>3
    <3>5. QED
      BY <1>1, <3>1, <3>3, <3>4, Zenon
  <2>4. QED
    BY <2>2, <2>3
<1>5. ASSUME NEW m \in {cur, tgt}, NEW n \in DOMAIN m, NEW q \in Seq(Part), q # <<>>
      PROVE  n \o q \in Paths[m] <=> q \in Paths[m[n].properties]
  <2>1. m \in SpecProperties /\ DOMAIN m \subseteq Names(Part) /\ n \in Names(Part)
    BY <1>1
  <2>2. PICK p : p = n \o q
    OBVIOUS
  <2>3. p \in Paths[m] <=> p \in DOMAIN m \/ \E k \in DOMAIN m : \E r \in Paths[m[k].properties] : p = k \o r
    <3>1. \A s : s \in Paths[m] <=> s \in DOMAIN m \/ \E k \in DOMAIN m : \E r \in Paths[m[k].properties] : s = k \o r
      BY <2>1, PathsOfMap, Zenon
    <3>2. QED
      BY <3>1, Zenon
  <2>4. p \notin DOMAIN m
    <3>1. n \o q \notin Names(Part)
      BY <1>5, <2>1, NotAName
    <3>2. QED
      BY <2>1, <2>2, <3>1
  <2>5. ASSUME NEW k \in DOMAIN m, NEW r \in Paths[m[k].properties], p = k \o r
        PROVE  k = n /\ r = q
    <3>1. m[k].properties \in SpecProperties
      BY <1>1
    <3>2. r \in Seq(Part) /\ k \in Names(Part)
      BY <2>1, <3>1, PathsOfMap
    <3>3. n \o q = k \o r
      BY <2>2, <2>5
    <3>4. QED
      BY <2>1, <3>2, <3>3, OnlyOneWay, Zenon
  <2>6. p \in Paths[m] => q \in Paths[m[n].properties]
    BY <2>3, <2>4, <2>5
  <2>7. q \in Paths[m[n].properties] => p \in Paths[m]
    BY <2>2, <2>3, Zenon
  <2>8. QED
    BY <2>2, <2>6, <2>7, Zenon
<1>6. ASSUME NEW n \in Descends(cur, tgt), NEW q \in Removed[cur[n].properties][Below(tgt, n)]
      PROVE  /\ n \in DOMAIN cur /\ n \in DOMAIN tgt /\ n \in Names(Part)
             /\ q \in Seq(Plain) /\ q \in Seq(Part) /\ q # <<>>
             /\ q \in Paths[cur[n].properties] /\ q \notin Paths[Below(tgt, n)]
             /\ KeptAround(q, Below(tgt, n))
  <2>1. n \in DOMAIN cur /\ n \in DOMAIN tgt /\ cur[n].nested
    BY DEF Descends
  <2>2. CoversTheGone(cur[n].properties) /\ Below(tgt, n) \in SpecProperties
    BY <1>4, <2>1
  <2> DEFINE c == cur[n].properties  t == Below(tgt, n)
  <2>3. c \in SpecProperties
    BY <1>1, <2>1
  <2> HIDE DEF c, t
  <2>4. q \in Seq(Plain) /\ q \in Paths[c] /\ q \notin Paths[t] /\ KeptAround(q, t)
    BY <2>2, Zenon DEF CoversTheGone, c, t
  <2>5. q \in Seq(Part) /\ q # <<>>
    BY <2>3, <2>4, PathsOfMap
  <2>6. QED
    BY <1>1, <2>1, <2>4, <2>5 DEF c, t
<1>7. ASSUME NEW p \in Removed[cur][tgt]
      PROVE  p \in Seq(Plain) \cap (Paths[cur] \ Paths[tgt])
  <2>1. CASE p \in DOMAIN cur \ DOMAIN tgt
    <3>1. p \in Paths[cur]
      BY <2>1, PathsOfMap
    <3>2. ASSUME p \in Paths[tgt]
          PROVE  FALSE
      <4>1. PICK n \in DOMAIN tgt : \E q \in Paths[tgt[n].properties] : p = n \o q
        BY <2>1, <3>2, PathsOfMap
      <4>2. PICK q \in Paths[tgt[n].properties] : p = n \o q
        BY <4>1
      <4>3. q \in Seq(Part) /\ q # <<>> /\ n \in Names(Part) /\ p \in Names(Part)
        BY <1>1, <2>1, <4>2, PathsOfMap
      <4>4. QED
        BY <4>2, <4>3, NotAName
    <3>3. p \in Seq(Plain)
      <4>1. p \in Names(Plain)
        BY <1>2, <2>1
      <4>2. PICK a \in Plain : p = <<a>>
        BY <4>1 DEF Names
      <4>3. QED
        BY <4>2
    <3>4. QED
      BY <3>1, <3>2, <3>3
  <2>2. ASSUME NEW n \in Descends(cur, tgt), NEW q \in Removed[cur[n].properties][Below(tgt, n)], p = n \o q
        PROVE  p \in Seq(Plain) \cap (Paths[cur] \ Paths[tgt])
    <3>1. p \in Paths[cur] \ Paths[tgt]
      BY <1>4, <1>5, <1>6, <2>2
    <3>2. p \in Seq(Plain)
      BY <1>2, <1>6, <2>2, PlainInFront
    <3>3. QED
      BY <3>1, <3>2
  <2>3. \/ p \in DOMAIN cur \ DOMAIN tgt
        \/ \E n \in Descends(cur, tgt) : \E q \in Removed[cur[n].properties][Below(tgt, n)] : p = n \o q
    <3>1. \A s : s \in Removed[cur][tgt] <=>
            \/ s \in DOMAIN cur \ DOMAIN tgt
            \/ \E n \in Descends(cur, tgt) : \E q \in Removed[cur[n].properties][Below(tgt, n)] : s = n \o q
      BY RemovedBetween, Zenon
    <3>2. QED
      BY <3>1, Zenon
  <2>4. QED
    BY <2>1, <2>2, <2>3, Zenon
<1>8. ASSUME NEW p \in Removed[cur][tgt], NEW q \in Seq(Part), q # <<>>, NEW r \in Seq(Part), r # <<>>, p = q \o r
      PROVE  q \in Paths[tgt]
  <2> PICK k, u : k = <<q[1]>> /\ u = Tail(q)
    OBVIOUS
  <2>1. k \in Names(Part) /\ u \in Seq(Part) /\ q = k \o u
    BY <1>8, FirstAndRest
  <2>2. u \o r \in Seq(Part) /\ u \o r # <<>>
    BY <1>8, <2>1, ConcatProperties, ConcatEqualIffEmpty
  <2>3. p = k \o (u \o r)
    BY <1>8, <2>1, OneInFront
  <2>4. CASE p \in DOMAIN cur \ DOMAIN tgt
    <3>1. p \in Names(Part)
      BY <1>1, <2>4
    <3>2. QED
      BY <2>1, <2>2, <2>3, <3>1, NotAName
  <2>5. ASSUME NEW n \in Descends(cur, tgt), NEW s \in Removed[cur[n].properties][Below(tgt, n)], p = n \o s
        PROVE  q \in Paths[tgt]
    <3>1. n = k /\ s = u \o r
      <4>1. n \in Names(Part) /\ s \in Seq(Part) /\ n \o s = (k \o u) \o r
        BY <1>6, <1>8, <2>1, <2>5
      <4>2. BeginAlike(n, k, s, u, r)
        BY <2>1, <4>1, SameStart
      <4>3. QED
        BY <4>1, <4>2 DEF BeginAlike
    <3>2. CASE u = <<>>
      <4>1. q = n
        BY <2>1, <3>1, <3>2, OneInFront
      <4>2. QED
        BY <1>6, <4>1, PathsOfMap
    <3>3. CASE u # <<>>
      <4>1. u \in Paths[Below(tgt, n)]
        BY <1>6, <1>8, <2>1, <3>1, <3>3 DEF KeptAround
      <4>2. u \in Seq(Plain)
        <5>1. n \in Names(Part) /\ n \o u \in Seq(Part)
          BY <1>6, <2>1, OneInFront
        <5>2. u \o r \in Seq(Plain)
          BY <1>6, <3>1
        <5>3. \A i \in 1..Len(u) : u[i] \in Plain
          <6>1. Len(u) \in Nat /\ Len(r) \in Nat /\ Len(u \o r) = Len(u) + Len(r)
            BY <2>1, LenProperties, ConcatProperties
          <6>2. ASSUME NEW i \in 1..Len(u)
                PROVE  u[i] \in Plain
            <7>1. i \in 1..(Len(u) + Len(r)) /\ i <= Len(u)
              BY <6>1
            <7>2. (u \o r)[i] = u[i]
              BY <2>1, <7>1, ConcatProperties
            <7>3. (u \o r)[i] \in Plain
              BY <5>2, <6>1, <7>1, ElementOfSeq
            <7>4. QED
              BY <7>2, <7>3
          <6>3. QED
            BY <6>2
        <5>4. Len(u) \in Nat /\ u \in [1..Len(u) -> Part]
          BY <2>1, LenProperties
        <5>5. u \in [1..Len(u) -> Plain]
          BY <5>3, <5>4
        <5>6. QED
          BY <5>4, <5>5, ListOfPlain
      <4>3. u \in Paths[tgt[n].properties]
        BY <1>4, <1>6, <4>1, <4>2
      <4>4. n \o u \in Paths[tgt]
        BY <1>5, <1>6, <2>1, <3>3, <4>3
      <4>5. QED
        BY <2>1, <3>1, <4>4, Zenon
    <3>4. QED
      BY <3>2, <3>3
  <2>6. \/ p \in DOMAIN cur \ DOMAIN tgt
        \/ \E n \in Descends(cur, tgt) : \E s \in Removed[cur[n].properties][Below(tgt, n)] : p = n \o s
    <3>1. \A o : o \in Removed[cur][tgt] <=>
            \/ o \in DOMAIN cur \ DOMAIN tgt
            \/ \E n \in Descends(cur, tgt) : \E s \in Removed[cur[n].properties][Below(tgt, n)] : o = n \o s
      BY RemovedBetween, Zenon
    <3>2. QED
      BY <3>1, Zenon
  <2>7. QED
    BY <2>4, <2>5, <2>6, Zenon
<1>9. ASSUME NEW p \in (Paths[cur] \ Paths[tgt]) \cap Seq(Plain)
      PROVE  BelowRemoved(p, cur, tgt)
  <2>1. ASSUME NEW n \in DOMAIN cur \ DOMAIN tgt, NEW r \in Seq(Part), p = n \o r
        PROVE  BelowRemoved(p, cur, tgt)
    <3>1. n \in Removed[cur][tgt]
      BY RemovedBetween
    <3>2. QED
      BY <2>1, <3>1 DEF BelowRemoved
  <2>2. CASE p \in DOMAIN cur
    <3>1. p \notin DOMAIN tgt
      BY PathsOfMap
    <3>2. p = p \o <<>> /\ <<>> \in Seq(Part)
      <4>1. p \in Names(Part) /\ <<>> \in Seq(Part)
        BY <1>1, <2>2, EmptySeq
      <4>2. QED
        BY <4>1, OneInFront
    <3>3. QED
      BY <2>1, <2>2, <3>1, <3>2
  <2>3. ASSUME NEW n \in DOMAIN cur, NEW q \in Paths[cur[n].properties], p = n \o q
        PROVE  BelowRemoved(p, cur, tgt)
    <3>1. q \in Seq(Part) /\ q # <<>> /\ n \in Names(Part) /\ q \in Seq(Plain)
      <4>1. q \in Seq(Part) /\ q # <<>> /\ n \in Names(Part)
        BY <1>1, <2>3, PathsOfMap
      <4>2. q \in Seq(Plain)
        BY <2>3, <4>1, PlainInFront
      <4>3. QED
        BY <4>1, <4>2
    <3>2. CASE n \notin DOMAIN tgt
      BY <2>1, <2>3, <3>1, <3>2
    <3>3. CASE n \in DOMAIN tgt
      <4>1. q \notin Paths[tgt[n].properties]
        BY <1>5, <2>3, <3>1, <3>3
      <4>2. q \in (Paths[cur[n].properties] \ Paths[Below(tgt, n)]) \cap Seq(Plain)
        BY <1>4, <3>1, <3>3, <4>1
      <4>3. cur[n].nested
        <5>1. cur[n].nested \/ DOMAIN cur[n].properties \subseteq {<<Item>>}
          BY SchemaAssumption, Zenon
        <5>2. ~(DOMAIN cur[n].properties \subseteq {<<Item>>})
          BY <1>1, <1>3, <2>3, <3>1
        <5>3. QED
          BY <5>1, <5>2
      <4>4. PICK s \in Removed[cur[n].properties][Below(tgt, n)] : \E r \in Seq(Part) : q = s \o r
        <5> DEFINE c == cur[n].properties  t == Below(tgt, n)
        <5>1. CoversTheGone(c) /\ t \in SpecProperties /\ q \in (Paths[c] \ Paths[t]) \cap Seq(Plain)
          BY <1>4, <3>3, <4>2, <4>3
        <5> HIDE DEF c, t
        <5>2. BelowRemoved(q, c, t)
          BY <5>1 DEF CoversTheGone
        <5>3. QED
          BY <5>2 DEF c, t, BelowRemoved
      <4>5. n \in Descends(cur, tgt)
        BY <3>3, <4>3 DEF Descends
      <4>6. n \o s \in Removed[cur][tgt]
        BY <4>5, RemovedBetween
      <4>7. s \in Seq(Part)
        BY <1>6, <4>5
      <4>8. PICK r \in Seq(Part) : q = s \o r
        BY <4>4
      <4>9. p = (n \o s) \o r
        BY <2>3, <3>1, <4>7, <4>8, OneInFront
      <4>10. QED
        BY <4>6, <4>9 DEF BelowRemoved
    <3>4. QED
      BY <3>2, <3>3
  <2>4. p \in DOMAIN cur \/ \E n \in DOMAIN cur : \E q \in Paths[cur[n].properties] : p = n \o q
    <3>1. p \in Paths[cur]
      OBVIOUS
    <3>2. \A s : s \in Paths[cur] <=>
            s \in DOMAIN cur \/ \E n \in DOMAIN cur : \E q \in Paths[cur[n].properties] : s = n \o q
      BY PathsOfMap, Zenon
    <3>3. QED
      BY <3>1, <3>2, Zenon
  <2>5. QED
    BY <2>2, <2>3, <2>4, Zenon
<1>10. QED
  BY <1>7, <1>8, <1>9 DEF KeptAround

LEMMA RemovedCoversTheGone ==
  \A cur : Object(cur) => CoversTheGone(cur)
<1> DEFINE Bad == {d \in Nat : \E cur \in SpecProperties : Object(cur) /\ Depth[cur] = d /\ ~CoversTheGone(cur)}
<1>1. SUFFICES ASSUME NEW cur, Object(cur), ~CoversTheGone(cur)
               PROVE  FALSE
  OBVIOUS
<1>2. \A m \in SpecProperties :
        /\ Depth[m] \in Nat
        /\ \A n \in DOMAIN m :
             /\ m[n].properties \in SpecProperties /\ Depth[m[n].properties] < Depth[m]
             /\ m[n].nested => <<Item>> \notin DOMAIN m[n].properties
  BY SchemaAssumption, Zenon
<1>3. Bad \in SUBSET Nat /\ Bad # {}
  <2>1. cur \in SpecProperties /\ Depth[cur] \in Nat
    BY <1>1, <1>2 DEF Object
  <2>2. QED
    BY <1>1, <2>1
<1>4. Min(Bad) \in Bad /\ \A d \in Bad : Min(Bad) <= d
  <2> HIDE DEF Bad
  <2> QED
    BY <1>3, MinFacts
<1>5. PICK m \in SpecProperties : Object(m) /\ Depth[m] = Min(Bad) /\ ~CoversTheGone(m)
  BY <1>4
<1>6. ASSUME NEW n \in DOMAIN m, m[n].nested
      PROVE  CoversTheGone(m[n].properties)
  <2> DEFINE c == m[n].properties
  <2>1. c \in SpecProperties /\ Object(c) /\ Depth[c] \in Nat /\ Depth[m] \in Nat /\ Depth[c] < Depth[m]
    BY <1>2, <1>6 DEF Object
  <2> HIDE DEF c
  <2>2. Depth[c] \notin Bad
    <3> HIDE DEF Bad
    <3> QED
      BY <1>4, <1>5, <2>1
  <2>3. CoversTheGone(c)
    BY <2>1, <2>2
  <2>4. QED
    BY <2>3 DEF c
<1>7. QED
  BY <1>5, <1>6, CoversFromBelow DEF Object

-----------------------------------------------------------------------------
(* The walk along a path finds what the value sets.                        *)

\* A path is set when its first name is and the rest is set in there.
LEMMA SetBelow ==
  ASSUME NEW v \in Specs, NEW n \in Names(Part)
  PROVE  /\ n \in Sets[v] <=> n \in DOMAIN v.fields
         /\ \A q \in Seq(Part) \ {<<>>} :
              n \o q \in Sets[v] <=> n \in DOMAIN v.fields /\ q \in Sets[v.fields[n]]
<1>1. /\ DOMAIN v.fields \subseteq Names(Part)
      /\ \A k \in DOMAIN v.fields : v.fields[k] \in Specs
  BY NamesOfParts, SpecAssumption, Zenon
<1>2. \A s : s \in Sets[v] <=> s \in DOMAIN v.fields \/ \E k \in DOMAIN v.fields : \E r \in Sets[v.fields[k]] : s = k \o r
  BY SetsOfValue, Zenon
<1>3. ASSUME NEW k \in DOMAIN v.fields, NEW r \in Sets[v.fields[k]]
      PROVE  k \in Names(Part) /\ r \in Seq(Part) /\ r # <<>>
  <2>1. v.fields[k] \in Specs
    BY <1>1
  <2>2. QED
    BY <1>1, <2>1, SetsOfValue
<1>4. n \in Sets[v] => n \in DOMAIN v.fields
  <2>1. ASSUME NEW k \in DOMAIN v.fields, NEW r \in Sets[v.fields[k]], n = k \o r
        PROVE  FALSE
    <3>1. k \o r \notin Names(Part)
      BY <1>3, NotAName
    <3>2. QED
      BY <2>1, <3>1, Zenon
  <2>2. QED
    BY <1>2, <2>1, Zenon
<1>5. ASSUME NEW q \in Seq(Part) \ {<<>>}
      PROVE  n \o q \in Sets[v] <=> n \in DOMAIN v.fields /\ q \in Sets[v.fields[n]]
  <2>1. n \o q \notin Names(Part)
    BY NotAName
  <2>2. ASSUME NEW k \in DOMAIN v.fields, NEW r \in Sets[v.fields[k]], n \o q = k \o r
        PROVE  k = n /\ r = q
    <3>1. k \in Names(Part) /\ r \in Seq(Part) /\ q \in Seq(Part)
      BY <1>3
    <3>2. QED
      BY <2>2, <3>1, OnlyOneWay, Zenon
  <2>3. PICK s : s = n \o q
    OBVIOUS
  <2>4. s \in Sets[v] => n \in DOMAIN v.fields /\ q \in Sets[v.fields[n]]
    <3>1. s \notin DOMAIN v.fields
      BY <1>1, <2>1, <2>3, Zenon
    <3>2. ASSUME s \in Sets[v]
          PROVE  \E k \in DOMAIN v.fields : \E r \in Sets[v.fields[k]] : s = k \o r
      BY <1>2, <3>1, <3>2, Zenon
    <3>3. QED
      BY <2>2, <2>3, <3>2, Zenon
  <2>5. n \in DOMAIN v.fields /\ q \in Sets[v.fields[n]] => s \in Sets[v]
    BY <1>2, <2>3, Zenon
  <2>6. QED
    BY <2>3, <2>4, <2>5, Zenon
<1>6. QED
  BY <1>2, <1>4, <1>5, Zenon

\* Who sets a path sets what it is below.
ClosedUpwards(v) ==
  \A q \in Seq(Part) \ {<<>>}, r \in Seq(Part) : q \o r \in Sets[v] => q \in Sets[v]

LEMMA ClosedFromBelow ==
  ASSUME NEW v \in Specs, \A n \in DOMAIN v.fields : ClosedUpwards(v.fields[n])
  PROVE  ClosedUpwards(v)
<1> SUFFICES ASSUME NEW q \in Seq(Part) \ {<<>>}, NEW r \in Seq(Part), q \o r \in Sets[v]
             PROVE  q \in Sets[v]
  BY DEF ClosedUpwards
<1> DEFINE n == <<q[1]>>  t == Tail(q)
<1>1. n \in Names(Part) /\ t \in Seq(Part) /\ q = n \o t
  BY FirstAndRest
<1> HIDE DEF n, t
<1>2. t \o r \in Seq(Part) /\ (t \o r = <<>> <=> t = <<>> /\ r = <<>>)
  BY <1>1, ConcatProperties, ConcatEqualIffEmpty
<1>3. q \o r = n \o (t \o r)
  BY <1>1, OneInFront
<1>4. n \o <<>> = n
  BY <1>1, OneInFront
<1>5. CASE t \o r = <<>>
  BY <1>1, <1>2, <1>3, <1>5, Zenon
<1>6. CASE t \o r # <<>>
  <2> DEFINE u == t \o r
  <2>1. n \o u \in Sets[v] /\ u \in Seq(Part) \ {<<>>}
    <3>1. u \notin {<<>>}
      BY <1>6, Zenon
    <3>2. n \o u \in Sets[v]
      BY <1>3, Zenon
    <3>3. QED
      BY <1>2, <3>1, <3>2, Zenon
  <2> HIDE DEF u
  <2>2. n \in DOMAIN v.fields /\ u \in Sets[v.fields[n]]
    BY <1>1, <2>1, SetBelow
  <2>3. CASE t = <<>>
    <3>1. n \in Sets[v]
      BY <1>1, <2>2, SetBelow
    <3>2. QED
      BY <1>1, <1>4, <2>3, <3>1, Zenon
  <2>4. CASE t # <<>>
    <3>1. t \in Seq(Part) \ {<<>>}
      BY <1>1, <2>4
    <3>2. t \in Sets[v.fields[n]]
      BY <2>2, <3>1 DEF ClosedUpwards, u
    <3>3. n \o t \in Sets[v]
      BY <1>1, <2>2, <3>1, <3>2, SetBelow
    <3>4. QED
      BY <1>1, <3>3, Zenon
  <2>5. QED
    BY <2>3, <2>4
<1>7. QED
  BY <1>5, <1>6

LEMMA SetsAreClosed ==
  \A v \in Specs : ClosedUpwards(v)
<1> DEFINE Bad == {d \in Nat : \E v \in Specs : SpecDepth[v] = d /\ ~ClosedUpwards(v)}
<1>1. SUFFICES ASSUME NEW v \in Specs, ~ClosedUpwards(v)
               PROVE  FALSE
  OBVIOUS
<1>2. \A w \in Specs :
        /\ SpecDepth[w] \in Nat
        /\ \A n \in DOMAIN w.fields : w.fields[n] \in Specs /\ SpecDepth[w.fields[n]] < SpecDepth[w]
  BY SpecAssumption, Zenon
<1>3. Bad \in SUBSET Nat /\ Bad # {}
  BY <1>1, <1>2
<1>4. Min(Bad) \in Bad /\ \A d \in Bad : Min(Bad) <= d
  <2> HIDE DEF Bad
  <2> QED
    BY <1>3, MinFacts
<1>5. PICK w \in Specs : SpecDepth[w] = Min(Bad) /\ ~ClosedUpwards(w)
  BY <1>4
<1>6. ASSUME NEW n \in DOMAIN w.fields
      PROVE  ClosedUpwards(w.fields[n])
  <2> DEFINE u == w.fields[n]
  <2>1. u \in Specs /\ SpecDepth[u] \in Nat /\ SpecDepth[w] \in Nat /\ SpecDepth[u] < SpecDepth[w]
    BY <1>2
  <2> HIDE DEF u
  <2>2. SpecDepth[u] \notin Bad
    <3> HIDE DEF Bad
    <3> QED
      BY <1>4, <1>5, <2>1
  <2>3. ClosedUpwards(u)
    BY <2>1, <2>2
  <2>4. QED
    BY <2>3 DEF u
<1>7. QED
  BY <1>5, <1>6, ClosedFromBelow

\* The walk of the code along a path ends at a value just when the path is set.
LEMMA HasFieldIffSet ==
  ASSUME NEW spec \in Specs, NEW p \in Seq(Part), p # <<>>, ~InElements(p)
  PROVE  hasFieldInSpec(spec, p) <=> p \in Sets[spec]
<1> DEFINE n == Len(p)
           Inside(v, part) == IF v.map /\ part \in DOMAIN v.fields THEN {v.fields[part]} ELSE {}
           Step(f) == [k \in 0..n |-> IF k = 0 THEN {spec} ELSE UNION {Inside(v, <<p[k]>>) : v \in f[k - 1]}]
           C == CHOOSE f : f = Step(f)
           rest(k) == SubSeq(p, k + 1, n)
           Good(k) == /\ C[k] \subseteq Specs
                      /\ (\E v \in C[k] : rest(k) \in Sets[v]) <=> p \in Sets[spec]
           Bad == {k \in 0..(n - 1) : ~Good(k)}
<1>1. hasFieldInSpec(spec, p) <=> C[n] # {}
  BY Zenon DEF hasFieldInSpec
<1>2. n \in Nat /\ n > 0 /\ n - 1 \in 0..(n - 1)
  BY EmptySeq, LenProperties
<1>3. ASSUME NEW v \in Specs, NEW part, part # <<Item>>
      PROVE  \A w : w \in Inside(v, part) <=> part \in DOMAIN v.fields /\ w = v.fields[part]
  <2>1. v.map \/ DOMAIN v.fields \subseteq {<<Item>>}
    BY SpecAssumption, Zenon
  <2>2. v.map \/ part \notin DOMAIN v.fields
    BY <1>3, <2>1
  <2>3. QED
    BY <2>2, Zenon
<1>4. \A v \in Specs : \A part \in DOMAIN v.fields : v.fields[part] \in Specs
  BY SpecAssumption, Zenon
<1>5. \A k \in 1..n : <<p[k]>> # <<Item>>
  <2>1. \A k \in 1..n : p[k] # Item
    BY LenProperties DEF InElements
  <2>2. QED
    BY <2>1
<1> HIDE DEF Inside
<1>6. ASSUME NEW V \in SUBSET Specs, NEW part, part # <<Item>>
      PROVE  UNION {Inside(v, part) : v \in V} \in SUBSET Specs
  <2>1. \A v \in V : Inside(v, part) \subseteq Specs
    BY <1>3, <1>4, <1>6
  <2>2. QED
    BY <2>1
<1>7. C = Step(C)
  <2> DEFINE X == SUBSET Specs
             g == [k \in 1..n |-> [V \in X |-> UNION {Inside(v, <<p[k]>>) : v \in V}]]
  <2>1. g \in [1..n -> [X -> X]]
    BY <1>6, <1>5
  <2>2. {spec} \in X
    OBVIOUS
  <2>3. PICK f \in [0..n -> X] : Steps(f, {spec}, g, n)
    <3> HIDE DEF g, X, n
    <3> QED
      BY <1>2, <2>1, <2>2, StepsExist
  <2>4. ASSUME NEW k \in 0..n, k # 0
        PROVE  f[k] = UNION {Inside(v, <<p[k]>>) : v \in f[k - 1]}
    <3>1. k \in 1..n /\ k - 1 \in 0..n
      BY <2>4
    <3>2. f[k] = g[k][f[k - 1]] /\ f[k - 1] \in X
      BY <2>3, <3>1 DEF Steps
    <3>3. QED
      BY <3>1, <3>2
  <2>5. f[0] = {spec} /\ f = [k \in 0..n |-> f[k]]
    BY <2>3 DEF Steps
  <2>6. f = Step(f)
    BY <2>4, <2>5
  <2> HIDE DEF Step
  <2>7. QED
    BY <2>6, Zenon
<1> HIDE DEF C
<1>8. /\ C[0] = {spec}
      /\ \A k \in 1..n : C[k] = UNION {Inside(v, <<p[k]>>) : v \in C[k - 1]}
  <2>1. C[0] = {spec}
    <3>1. Step(C)[0] = {spec}
      BY <1>2
    <3>2. QED
      BY <1>7, <3>1
  <2>2. ASSUME NEW k \in 1..n
        PROVE  C[k] = UNION {Inside(v, <<p[k]>>) : v \in C[k - 1]}
    <3>1. Step(C)[k] = UNION {Inside(v, <<p[k]>>) : v \in C[k - 1]}
      BY <1>2
    <3>2. QED
      BY <1>7, <3>1
  <2>3. QED
    BY <2>1, <2>2
<1> HIDE DEF Step
<1>9. ASSUME NEW k \in 0..(n - 1), C[k] \subseteq Specs
      PROVE  /\ C[k + 1] \subseteq Specs
             /\ \A w : w \in C[k + 1] <=>
                  \E v \in C[k] : <<p[k + 1]>> \in DOMAIN v.fields /\ w = v.fields[<<p[k + 1]>>]
  <2> DEFINE part == <<p[k + 1]>>
  <2>1. k + 1 \in 1..n /\ (k + 1) - 1 = k
    BY <1>2
  <2>2. part # <<Item>>
    BY <1>5, <2>1
  <2>3. C[k + 1] = UNION {Inside(v, part) : v \in C[k]}
    BY <1>8, <2>1
  <2> HIDE DEF part
  <2>4. C[k + 1] \subseteq Specs
    BY <1>6, <1>9, <2>2, <2>3
  <2>5. \A w : w \in C[k + 1] <=> \E v \in C[k] : w \in Inside(v, part)
    BY <2>3
  <2>6. \A w : w \in C[k + 1] <=> \E v \in C[k] : part \in DOMAIN v.fields /\ w = v.fields[part]
    BY <1>3, <1>9, <2>2, <2>5
  <2>7. QED
    BY <2>4, <2>6 DEF part
<1>10. Good(0)
  <2>1. rest(0) = p
    BY SubSeqFull
  <2>2. QED
    BY <1>8, <2>1
<1>11. ASSUME NEW k \in 0..(n - 1), k # n - 1, Good(k)
       PROVE  Good(k + 1)
  <2> DEFINE part == <<p[k + 1]>>  q == rest(k + 1)
  <2>1. part \in Names(Part) /\ q \in Seq(Part) \ {<<>>} /\ rest(k) = part \o q
    <3>1. (k + 1) + 1 = k + 2
      BY <1>2
    <3>2. QED
      BY <1>11, <3>1, RestOfPath
  <2> HIDE DEF part, q
  <2>2. \A v \in C[k] : part \o q \in Sets[v] <=> part \in DOMAIN v.fields /\ q \in Sets[v.fields[part]]
    BY <1>11, <2>1, SetBelow
  <2>3. (\E v \in C[k] : part \o q \in Sets[v]) <=> \E w \in C[k + 1] : q \in Sets[w]
    BY <1>9, <1>11, <2>2 DEF part
  <2>4. C[k + 1] \subseteq Specs
    BY <1>9, <1>11
  <2>5. QED
    BY <1>11, <2>1, <2>3, <2>4, Zenon DEF q
<1> HIDE DEF Good
<1>12. Good(n - 1)
  <2>1. SUFFICES ASSUME ~Good(n - 1) PROVE FALSE
    OBVIOUS
  <2>2. Bad \in SUBSET Nat /\ n - 1 \in Bad
    BY <1>2, <2>1
  <2>3. Min(Bad) \in Bad /\ \A k \in Bad : Min(Bad) <= k
    <3> HIDE DEF Bad
    <3> QED
      BY <2>2, MinFacts
  <2>4. PICK k \in 0..(n - 1) : k = Min(Bad) /\ ~Good(k)
    BY <2>3
  <2>5. k # 0
    BY <1>10, <2>4
  <2>6. k - 1 \in 0..(n - 1) /\ k - 1 # n - 1 /\ (k - 1) + 1 = k /\ ~(k <= k - 1)
    BY <1>2, <2>5
  <2>7. k - 1 \notin Bad
    <3> HIDE DEF Bad
    <3> QED
      BY <2>3, <2>4, <2>6
  <2>8. Good(k - 1)
    BY <2>6, <2>7
  <2>9. Good((k - 1) + 1)
    BY <1>11, <2>6, <2>8
  <2>10. QED
    BY <2>4, <2>6, <2>9
<1>13. C[n] # {} <=> p \in Sets[spec]
  <2> DEFINE k == n - 1  part == <<p[k + 1]>>
  <2>1. k \in 0..(n - 1) /\ k + 1 = n
    BY <1>2
  <2>2. C[k] \subseteq Specs /\ ((\E v \in C[k] : rest(k) \in Sets[v]) <=> p \in Sets[spec])
    BY <1>12 DEF Good
  <2>3. rest(k) = part /\ part \in Names(Part)
    <3> HIDE DEF k
    <3>1. part \in Names(Part) /\ rest(k) = part \o SubSeq(p, k + 2, n) /\ SubSeq(p, k + 2, n) = <<>>
      <4>1. k = n - 1
        BY DEF k
      <4>2. QED
        BY <2>1, <4>1, RestOfPath
    <3>2. part \o <<>> = part
      BY <3>1, OneInFront
    <3>3. QED
      BY <3>1, <3>2
  <2> HIDE DEF k
  <2>4. \A w : w \in C[k + 1] <=> \E v \in C[k] : part \in DOMAIN v.fields /\ w = v.fields[part]
    BY <1>9, <2>1, <2>2
  <2> HIDE DEF part, rest
  <2>5. \A v \in C[k] : part \in Sets[v] <=> part \in DOMAIN v.fields
    BY <2>2, <2>3, SetBelow
  <2>6. C[n] # {} <=> \E v \in C[k] : part \in DOMAIN v.fields
    BY <2>1, <2>4
  <2>7. QED
    BY <2>2, <2>3, <2>5, <2>6
<1>14. QED
  BY <1>1, <1>13

-----------------------------------------------------------------------------
(* The diff is of the input, and shows what is lost.                       *)

Inputs == [current : Schemas, target : Schemas, crs : CRLists \cup {{}}, listFails : BOOLEAN]

DiffInv == input \in Inputs /\ diff = AnalyzeCRDBreakingChanges(input)

LEMMA DiffInvStart ==
  ASSUME DInit
  PROVE  DiffInv
<1>1. input = NoInput /\ diff = NoDiff
  BY DEF DInit
<1>2. NoInput \in Inputs
  <2>1. NoSchema \in Schemas
    <3>1. NoProperties \in SpecProperties
      BY SchemaAssumption, Zenon
    <3>2. DOMAIN NoProperties = {}
      BY DEF NoProperties
    <3> HIDE DEF NoProperties
    <3>3. QED
      BY <3>1, <3>2 DEF NoSchema, Schemas
  <2> HIDE DEF NoSchema, Schemas
  <2>2. QED
    BY <2>1 DEF NoInput, Inputs
<1>3. Listed(NoInput) = {}
  BY DEF NoInput, Listed
<1>4. Changes(NoInput) = [removed |-> {}, mutated |-> {}]
  BY <1>3 DEF Changes
<1>5. AnalyzeCRDBreakingChanges(NoInput) = NoDiff
  <2> DEFINE c == Changes(NoInput)
             violating == {v \in Listed(NoInput) \X c.removed : hasFieldInSpec(v[1].spec, v[2])}
  <2>1. c.removed = {} /\ c.mutated = {}
    BY <1>4
  <2>2. violating = {}
    <3>1. Listed(NoInput) \X c.removed = {}
      BY <1>3
    <3>2. QED
      BY <3>1
  <2> HIDE DEF c
  <2>3. AnalyzeCRDBreakingChanges(NoInput)
          = [removed |-> c.removed, mutated |-> c.mutated,
             violating |-> violating, breaking |-> violating # {}]
    BY Zenon DEF AnalyzeCRDBreakingChanges, c
  <2> HIDE DEF violating
  <2>4. QED
    BY <2>1, <2>2, <2>3 DEF NoDiff
<1>6. QED
  BY <1>1, <1>2, <1>5 DEF DiffInv

LEMMA DiffInvStep ==
  ASSUME DiffInv, [DNext]_dvars
  PROVE  DiffInv'
<1>1. CASE AnalyzeCRD
  <2>1. PICK current \in Schemas, target \in Schemas, crs \in CRLists, fails \in BOOLEAN :
          input' = [current |-> current, target |-> target, crs |-> crs, listFails |-> fails]
    BY <1>1 DEF AnalyzeCRD
  <2>2. input' \in Inputs
    <3> HIDE DEF Schemas
    <3> QED
      BY <2>1 DEF Inputs
  <2>3. diff' = AnalyzeCRDBreakingChanges(input')
    BY <1>1 DEF AnalyzeCRD
  <2>4. QED
    BY <2>2, <2>3 DEF DiffInv
<1>2. CASE DiffAfresh
  <2>1. DInit'
    BY <1>2 DEF DiffAfresh, DInit
  <2>2. QED
    BY <2>1, DiffInvStart, PTL
<1>3. CASE UNCHANGED dvars
  BY <1>3 DEF DiffInv, dvars
<1>4. QED
  BY <1>1, <1>2, <1>3 DEF DNext

\* A custom resource sets something removed when it sets what the walk finds.
LEMMA RowIffTopmost ==
  ASSUME DiffInv, Compared, NEW cr \in input.crs, cr.namespace = Home
  PROVE  \A p : <<cr, p>> \in diff.violating <=>
                  p \in Gone /\ p \in Sets[cr.spec] /\ ~InElements(p) /\ Around(p) \cap Gone = {}
<1> DEFINE cur == input.current.properties
           tgt == input.target.properties
<1>1. /\ Object(cur) /\ cur \in SpecProperties /\ tgt \in SpecProperties
      /\ cr.spec \in Specs
      /\ Gone = Paths[cur] \ Paths[tgt]
  <2>1. input.current \in Schemas /\ input.target \in Schemas /\ input.crs \in CRLists \cup {{}}
    BY DEF DiffInv, Inputs
  <2>2. \A s \in Schemas : s.properties \in SpecProperties /\ <<Item>> \notin DOMAIN s.properties
    BY DEF Schemas
  <2>3. cr.spec \in Specs
    BY <2>1, SpecAssumption, Zenon
  <2>4. QED
    BY <2>1, <2>2, <2>3 DEF Object, Gone
<1>2. /\ diff.violating = {v \in Listed(input) \X Changes(input).removed : hasFieldInSpec(v[1].spec, v[2])}
      /\ cr \in Listed(input)
  BY DEF DiffInv, AnalyzeCRDBreakingChanges, Listed, Compared
<1>3. Changes(input).removed = Removed[cur][tgt]
  BY <1>2 DEF Changes, compareOpenAPISchemas, Compared
<1> HIDE DEF cur, tgt
<1>4. \A p : <<cr, p>> \in diff.violating <=> p \in Removed[cur][tgt] /\ hasFieldInSpec(cr.spec, p)
  <2> DEFINE L == Listed(input)  R == Removed[cur][tgt]
  <2>1. diff.violating = {v \in L \X R : hasFieldInSpec(v[1].spec, v[2])} /\ cr \in L
    BY <1>2, <1>3
  <2> HIDE DEF L, R
  <2>2. ASSUME NEW p
        PROVE  <<cr, p>> \in diff.violating <=> p \in R /\ hasFieldInSpec(cr.spec, p)
    <3> DEFINE v == <<cr, p>>
    <3>1. v[1] = cr /\ v[2] = p /\ (v \in L \X R <=> p \in R)
      BY <2>1
    <3> HIDE DEF v
    <3>2. v \in diff.violating <=> v \in L \X R /\ hasFieldInSpec(v[1].spec, v[2])
      BY <2>1
    <3>3. QED
      BY <3>1, <3>2, Zenon DEF v
  <2>3. QED
    BY <2>2 DEF R
<1>5. CoversTheGone(cur)
  BY <1>1, RemovedCoversTheGone
<1>6. /\ Removed[cur][tgt] \subseteq Seq(Plain) \cap Gone
      /\ \A p \in Gone \cap Seq(Plain) : BelowRemoved(p, cur, tgt)
      /\ \A p \in Removed[cur][tgt] : KeptAround(p, tgt)
      /\ Removed[cur][tgt] \subseteq Seq(Part) \ {<<>>}
      /\ Gone \subseteq Seq(Part) \ {<<>>}
  <2>1. Removed[cur][tgt] \subseteq Seq(Part) \ {<<>>} /\ Paths[cur] \subseteq Seq(Part) \ {<<>>}
    BY <1>1, RemovedBetween, PathsOfMap
  <2>2. QED
    BY <1>1, <1>5, <2>1 DEF CoversTheGone
<1>7. ASSUME NEW p \in Removed[cur][tgt]
      PROVE  /\ hasFieldInSpec(cr.spec, p) <=> p \in Sets[cr.spec]
             /\ p \in Gone /\ ~InElements(p) /\ Around(p) \cap Gone = {}
  <2>1. p \in Seq(Part) /\ p # <<>> /\ p \in Seq(Plain) /\ p \in Gone /\ KeptAround(p, tgt)
    BY <1>6
  <2>2. ~InElements(p)
    BY <2>1, PlainPaths
  <2>3. hasFieldInSpec(cr.spec, p) <=> p \in Sets[cr.spec]
    BY <1>1, <2>1, <2>2, HasFieldIffSet
  <2>4. \A q \in Around(p) : q \in Paths[tgt]
    <3>1. \A q \in Around(p) : q \in Seq(Part) \ {<<>>} /\ \E r \in Seq(Part) \ {<<>>} : p = q \o r
      BY <2>1, AroundIsBefore
    <3>2. QED
      BY <2>1, <3>1, Zenon DEF KeptAround
  <2>5. QED
    BY <1>1, <2>1, <2>2, <2>3, <2>4
<1>8. ASSUME NEW p \in Gone, ~InElements(p), Around(p) \cap Gone = {}
      PROVE  p \in Removed[cur][tgt]
  <2>1. p \in Seq(Part) /\ p \in Seq(Plain)
    BY <1>6, <1>8, PlainPaths
  <2>2. PICK q \in Removed[cur][tgt] : \E r \in Seq(Part) : p = q \o r
    BY <1>6, <2>1 DEF BelowRemoved
  <2>3. PICK r \in Seq(Part) : p = q \o r
    BY <2>2
  <2>4. q \in Seq(Part) \ {<<>>} /\ q \in Gone
    BY <1>6
  <2>5. CASE r = <<>>
    <3>1. p = q
      BY <2>3, <2>4, <2>5, ConcatEmptySeq
    <3>2. QED
      BY <3>1
  <2>6. CASE r # <<>>
    <3>1. r \in Seq(Part) \ {<<>>}
      BY <2>6
    <3>2. q \in Around(p)
      BY <2>1, <2>3, <2>4, <3>1, AroundIsBefore
    <3>3. QED
      BY <1>8, <2>4, <3>2
  <2>7. QED
    BY <2>5, <2>6
<1>9. QED
  BY <1>4, <1>7, <1>8

\* A loss that is compared is below a row or is one.
LEMMA EveryLossIsCovered ==
  ASSUME DiffInv, Compared, NEW cr \in input.crs, cr.namespace = Home,
         NEW p \in Gone, p \in Sets[cr.spec], ~InElements(p)
  PROVE  \E q \in Around(p) \cup {p} : <<cr, q>> \in diff.violating
<1> DEFINE cur == input.current.properties
           tgt == input.target.properties
<1>1. /\ Object(cur) /\ cur \in SpecProperties /\ tgt \in SpecProperties
      /\ cr.spec \in Specs
      /\ Gone = Paths[cur] \ Paths[tgt]
  <2>1. input.current \in Schemas /\ input.target \in Schemas /\ input.crs \in CRLists \cup {{}}
    BY DEF DiffInv, Inputs
  <2>2. \A s \in Schemas : s.properties \in SpecProperties /\ <<Item>> \notin DOMAIN s.properties
    BY DEF Schemas
  <2>3. cr.spec \in Specs
    BY <2>1, SpecAssumption, Zenon
  <2>4. QED
    BY <2>1, <2>2, <2>3 DEF Object, Gone
<1> HIDE DEF cur, tgt
<1>2. CoversTheGone(cur)
  BY <1>1, RemovedCoversTheGone
<1>3. p \in Seq(Part) /\ p \in Seq(Plain)
  <2>1. p \in Seq(Part)
    BY <1>1, PathsOfMap
  <2>2. QED
    BY <2>1, PlainPaths
<1>4. PICK q \in Removed[cur][tgt] : \E r \in Seq(Part) : p = q \o r
  <2>1. BelowRemoved(p, cur, tgt)
    BY <1>1, <1>2, <1>3 DEF CoversTheGone
  <2>2. QED
    BY <2>1 DEF BelowRemoved
<1>5. PICK r \in Seq(Part) : p = q \o r
  BY <1>4
<1>6. q \in Seq(Part) \ {<<>>} /\ q \in Gone /\ q \in Seq(Plain) /\ KeptAround(q, tgt)
  BY <1>1, <1>2, RemovedBetween DEF CoversTheGone
<1>7. q \in Around(p) \cup {p}
  <2>1. CASE r = <<>>
    BY <1>5, <1>6, <2>1, ConcatEmptySeq
  <2>2. CASE r # <<>>
    <3>1. r \in Seq(Part) \ {<<>>}
      BY <2>2
    <3>2. QED
      BY <1>3, <1>5, <1>6, <3>1, AroundIsBefore
  <2>3. QED
    BY <2>1, <2>2
<1>8. q \in Sets[cr.spec]
  <2>1. ClosedUpwards(cr.spec)
    BY <1>1, SetsAreClosed
  <2>2. q \o r \in Sets[cr.spec]
    BY <1>5
  <2>3. QED
    BY <1>6, <2>1, <2>2, Zenon DEF ClosedUpwards
<1>9. ~InElements(q)
  BY <1>6, PlainPaths
<1>10. Around(q) \cap Gone = {}
  <2>1. \A s \in Around(q) : s \in Seq(Part) \ {<<>>} /\ \E u \in Seq(Part) \ {<<>>} : q = s \o u
    BY <1>6, AroundIsBefore
  <2>2. \A s \in Around(q) : s \in Paths[tgt]
    BY <1>6, <2>1, Zenon DEF KeptAround
  <2>3. QED
    BY <1>1, <2>2
<1>11. <<cr, q>> \in diff.violating
  BY <1>6, <1>8, <1>9, <1>10, RowIffTopmost
<1>12. QED
  BY <1>7, <1>11

\* The rows are those losses; without a comparison there is none.
LEMMA RowsAreLosses ==
  ASSUME DiffInv
  PROVE  diff.violating = {l \in Losses : Seen(l) /\ l[2] \in Topmost}
<1>1. diff.violating = {v \in Listed(input) \X Changes(input).removed : hasFieldInSpec(v[1].spec, v[2])}
  BY DEF DiffInv, AnalyzeCRDBreakingChanges
<1>2. ASSUME NEW l \in diff.violating
      PROVE  /\ l = <<l[1], l[2]>> /\ l[1] \in input.crs /\ l[1].namespace = Home
             /\ Compared
  <2> DEFINE L == Listed(input)  R == Changes(input).removed
  <2>1. l \in L \X R
    BY <1>1
  <2>2. l = <<l[1], l[2]>> /\ l[1] \in L /\ l[2] \in R
    BY <2>1
  <2>3. l[1] \in input.crs /\ l[1].namespace = Home /\ ~input.listFails
    BY <2>2 DEF Listed
  <2>4. input.current.found /\ input.target.found
    BY <2>2 DEF Changes, compareOpenAPISchemas
  <2>5. QED
    BY <2>2, <2>3, <2>4 DEF Compared
<1>3. ASSUME NEW l \in diff.violating
      PROVE  l \in Losses /\ Seen(l) /\ l[2] \in Topmost
  <2> PICK cr, p : cr = l[1] /\ p = l[2]
    OBVIOUS
  <2>1. l = <<cr, p>> /\ cr \in input.crs /\ cr.namespace = Home /\ Compared
    BY <1>2
  <2>2. p \in Gone /\ p \in Sets[cr.spec] /\ ~InElements(p) /\ Around(p) \cap Gone = {}
    BY <2>1, RowIffTopmost
  <2>3. l \in input.crs \X Gone
    BY <2>1, <2>2
  <2>4. QED
    BY <2>1, <2>2, <2>3 DEF Losses, Seen, Topmost
<1>4. ASSUME NEW l \in Losses, Seen(l), l[2] \in Topmost
      PROVE  l \in diff.violating
  <2> PICK cr, p : cr = l[1] /\ p = l[2]
    OBVIOUS
  <2>1. l \in input.crs \X Gone /\ p \in Sets[cr.spec]
    BY DEF Losses
  <2>2. l = <<cr, p>> /\ cr \in input.crs /\ p \in Gone
    BY <2>1
  <2>3. Compared /\ cr.namespace = Home /\ ~InElements(p) /\ Around(p) \cap Gone = {}
    BY <1>4 DEF Seen, Topmost
  <2>4. QED
    BY <2>1, <2>2, <2>3, RowIffTopmost
<1>5. QED
  BY <1>3, <1>4

(* The table has a row for each outermost path of a resource of the        *)
(* namespace that the upgrade takes away, outside the elements of arrays,  *)
(* and no other; each loss the analysis compares is in one of them; card,  *)
(* line and count agree (schema_diff.go:66-120, 186-250; app.js:1488-1517; *)
(* crd_diff_viewer.js:42-119): for schemas and resources of any size and   *)
(* any finite depth.                                                       *)
THEOREM ShownAlwaysIffGone ==
  DSpec => []ShownIffPathIsGone
<1>1. DiffInv => ShownIffPathIsGone
  <2> SUFFICES ASSUME DiffInv PROVE ShownIffPathIsGone
    OBVIOUS
  <2>1. diff.breaking <=> diff.violating # {}
    BY DEF DiffInv, AnalyzeCRDBreakingChanges
  <2>2. diff.violating = {l \in Losses : Seen(l) /\ l[2] \in Topmost}
    BY RowsAreLosses
  <2>3. ASSUME NEW l \in Losses, Seen(l)
        PROVE  \E row \in diff.violating : row[1] = l[1] /\ row[2] \in Around(l[2]) \cup {l[2]}
    <3> PICK cr, p : cr = l[1] /\ p = l[2]
      OBVIOUS
    <3>1. cr \in input.crs /\ p \in Gone /\ p \in Sets[cr.spec]
      BY DEF Losses
    <3>2. Compared /\ cr.namespace = Home /\ ~InElements(p)
      BY <2>3 DEF Seen
    <3>3. PICK q \in Around(p) \cup {p} : <<cr, q>> \in diff.violating
      BY <3>1, <3>2, EveryLossIsCovered
    <3>4. <<cr, q>>[1] = cr /\ <<cr, q>>[2] = q
      OBVIOUS
    <3>5. QED
      BY <3>3, <3>4
  <2>4. Cardinality({}) = 0
    BY FS_EmptySet
  <2>5. CardRows(diff) = diff.violating
    BY <2>1 DEF CardRows
  <2>6. RenderFlowDiagram(diff).red <=> diff.violating # {}
    BY <2>1 DEF RenderFlowDiagram
  <2>7. RenderFlowDiagram(diff).violations = Cardinality(diff.violating)
    BY <2>1, <2>4 DEF RenderFlowDiagram
  <2>8. RenderSpecFieldComparison(diff) = diff.violating
    BY DEF RenderSpecFieldComparison
  <2> HIDE DEF Losses, Seen, Topmost
  <2>9. QED
    BY <2>2, <2>3, <2>5, <2>6, <2>7, <2>8 DEF ShownIffPathIsGone
<1>2. DInit => DiffInv
  BY DiffInvStart
<1>3. DiffInv /\ [DNext]_dvars => DiffInv'
  BY DiffInvStep
<1>4. QED
  BY <1>1, <1>2, <1>3, PTL DEF DSpec
=============================================================================
