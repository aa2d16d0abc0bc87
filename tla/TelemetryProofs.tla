--------------------------- MODULE TelemetryProofs ---------------------------
(***************************************************************************)
(* Proofs about Telemetry.tla for every number of pods, of threads of the  *)
(* brain and of restarts, and every window: no pod is evicted on the       *)
(* answer to an earlier report, and the histories that threads share       *)
(* outgrow the window only by the threads about to cut them.               *)
(***************************************************************************)
EXTENDS Telemetry, FiniteSetTheorems, TLAPS

Places == {"sent", "store", "trim", "measure", "fit", "answered"}

\* A thread that handles a report, and one that does not.
IsReport(r) ==
  \E P, L, V : r \in [at : Places, pod : P, mem : Nat, new : BOOLEAN, len : L, verdict : V]

ThreadsTypeOK ==
  /\ tracker \in Nat
  /\ thread = [t \in Thread |-> thread[t]]
  /\ \A t \in Thread : thread[t] = Idle \/ IsReport(thread[t])

\* The report under way is about the first pod of the list and what the
\* tracker is now.
ReportIsFresh ==
  loop = "await" =>
    /\ awaited \in Thread /\ IsReport(thread[awaited])
    /\ thread[awaited].pod = Head(pods) /\ thread[awaited].mem = tracker

FreshInv == ThreadsTypeOK /\ ReportIsFresh

\* What a step of thread t leaves: the other threads, and what its report is.
StepOf(t) ==
  /\ thread' = [u \in Thread |-> thread'[u]]
  /\ \A u \in Thread \ {t} : thread'[u] = thread[u]
  /\ IsReport(thread[t]) /\ IsReport(thread'[t])
  /\ thread'[t].pod = thread[t].pod /\ thread'[t].mem = thread[t].mem

LEMMA BrainStep ==
  ASSUME ThreadsTypeOK, NEW t \in Thread,
         Lookup(t) \/ Store(t) \/ Pop(t) \/ Measure(t) \/ Fit(t)
  PROVE  StepOf(t) /\ UNCHANGED operator
<1>1. thread[t].at \in {"sent", "store", "trim", "measure", "fit"}
  BY DEF Lookup, Store, Pop, Measure, Fit, At
<1>2. IsReport(thread[t])
  BY <1>1 DEF ThreadsTypeOK, Idle
<1>3. PICK P, L, V :
        thread[t] \in [at : Places, pod : P, mem : Nat, new : BOOLEAN, len : L, verdict : V]
  BY <1>2 DEF IsReport
<1>4. \E r : /\ thread' = [thread EXCEPT ![t] = r]
            /\ IsReport(r) /\ r.pod = thread[t].pod /\ r.mem = thread[t].mem
  <2>1. ASSUME NEW place \in Places, thread' = [thread EXCEPT ![t].at = place]
        PROVE  \E r : /\ thread' = [thread EXCEPT ![t] = r]
                     /\ IsReport(r) /\ r.pod = thread[t].pod /\ r.mem = thread[t].mem
    <3> DEFINE r == [thread[t] EXCEPT !.at = place]
    <3>1. /\ thread' = [thread EXCEPT ![t] = r]
          /\ r \in [at : Places, pod : P, mem : Nat, new : BOOLEAN, len : L, verdict : V]
          /\ r.pod = thread[t].pod /\ r.mem = thread[t].mem
      BY <1>3, <2>1
    <3> HIDE DEF r
    <3>2. QED
      BY <3>1 DEF IsReport
  <2>2. CASE Lookup(t)
    <3> DEFINE new == thread[t].pod \notin DOMAIN pod_history
               r == [thread[t] EXCEPT !.at = "store", !.new = new]
    <3>1. new \in BOOLEAN
      OBVIOUS
    <3>2. thread' = [thread EXCEPT ![t] = r]
      BY <2>2 DEF Lookup
    <3> HIDE DEF new
    <3>3. /\ r \in [at : Places, pod : P, mem : Nat, new : BOOLEAN, len : L, verdict : V]
          /\ r.pod = thread[t].pod /\ r.mem = thread[t].mem
      BY <1>3, <3>1 DEF Places
    <3> HIDE DEF r
    <3>4. QED
      BY <3>2, <3>3 DEF IsReport
  <2>3. CASE Store(t) \/ Pop(t)
    <3>1. \E place \in Places : thread' = [thread EXCEPT ![t].at = place]
      BY <2>3 DEF Store, Pop, Goto, Places
    <3>2. QED
      BY <2>1, <3>1
  <2>4. CASE Measure(t)
    <3> DEFINE n == Len(Samples(thread[t].pod))
               r == [thread[t] EXCEPT !.len = n,
                                      !.at = IF n < MinSamples THEN "answered" ELSE "fit"]
    <3>1. thread' = [thread EXCEPT ![t] = r]
      BY <2>4 DEF Measure
    <3> HIDE DEF n
    <3>2. /\ r \in [at : Places, pod : P, mem : Nat, new : BOOLEAN, len : L \cup {n}, verdict : V]
          /\ r.pod = thread[t].pod /\ r.mem = thread[t].mem
      BY <1>3 DEF Places
    <3> HIDE DEF r
    <3>3. QED
      BY <3>1, <3>2 DEF IsReport
  <2>5. CASE Fit(t)
    <3> DEFINE h == Samples(thread[t].pod)
    <3>0. PICK up \in BOOLEAN :
            thread' = [thread EXCEPT ![t].at = "answered",
                                     ![t].verdict = IF Len(h) # thread[t].len THEN "ERROR"
                                                    ELSE Predictor!Verdict(h, up)]
      BY <2>5 DEF Fit
    <3> DEFINE v == IF Len(h) # thread[t].len THEN "ERROR" ELSE Predictor!Verdict(h, up)
               r == [thread[t] EXCEPT !.at = "answered", !.verdict = v]
    <3>1. thread' = [thread EXCEPT ![t] = r]
      BY <3>0
    <3> HIDE DEF v
    <3>2. /\ r \in [at : Places, pod : P, mem : Nat, new : BOOLEAN, len : L, verdict : V \cup {v}]
          /\ r.pod = thread[t].pod /\ r.mem = thread[t].mem
      BY <1>3 DEF Places
    <3> HIDE DEF r
    <3>3. QED
      BY <3>1, <3>2 DEF IsReport
  <2>6. QED
    BY <2>2, <2>3, <2>4, <2>5
<1>5. UNCHANGED operator
  BY DEF Lookup, Store, Pop, Measure, Fit
<1>6. QED
  BY <1>2, <1>4, <1>5 DEF StepOf, ThreadsTypeOK

LEMMA InitFresh == TInit => FreshInv
BY TelemetryAssumption DEF TInit, FreshInv, ThreadsTypeOK, ReportIsFresh

\* A step of a thread leaves the report that is waited for about the same pod.
LEMMA StepKeepsFresh ==
  ASSUME FreshInv, NEW t \in Thread, StepOf(t), UNCHANGED operator
  PROVE  FreshInv'
<1>1. ThreadsTypeOK'
  BY DEF StepOf, operator, FreshInv, ThreadsTypeOK
<1>2. ReportIsFresh'
  <2>1. SUFFICES ASSUME loop = "await"
                 PROVE  /\ awaited \in Thread /\ IsReport(thread'[awaited])
                        /\ thread'[awaited].pod = Head(pods) /\ thread'[awaited].mem = tracker
    BY DEF operator, ReportIsFresh
  <2>2. /\ awaited \in Thread /\ IsReport(thread[awaited])
        /\ thread[awaited].pod = Head(pods) /\ thread[awaited].mem = tracker
    BY <2>1 DEF FreshInv, ReportIsFresh
  <2>3. CASE awaited = t
    BY <2>2, <2>3 DEF StepOf
  <2>4. CASE awaited # t
    BY <2>2, <2>4 DEF StepOf
  <2>5. QED
    BY <2>3, <2>4
<1>3. QED
  BY <1>1, <1>2 DEF FreshInv

\* The operator waits for nothing after the step, and no thread moves.
LEMMA NotAwaiting ==
  ASSUME FreshInv, loop' # "await", tracker' \in Nat, UNCHANGED thread
  PROVE  FreshInv'
BY DEF FreshInv, ThreadsTypeOK, ReportIsFresh

LEMMA SweepFresh == FreshInv /\ Sweep => FreshInv'
<1> SUFFICES ASSUME FreshInv, Sweep PROVE FreshInv'
  OBVIOUS
<1>1. tracker \in Nat
  BY DEF FreshInv, ThreadsTypeOK
<1>2. CASE ListMonitored \/ SendFails \/ SendTimesOut
  BY <1>1, <1>2, NotAwaiting DEF ListMonitored, SendFails, SendTimesOut, NoAction
<1>3. CASE Evict
  <2>1. tracker' \in Nat
    BY <1>1, <1>3, TelemetryAssumption DEF Evict
  <2>2. QED
    BY <1>3, <2>1, NotAwaiting DEF Evict
<1>4. CASE EndSweep
  <2>1. tracker' \in Nat
    BY <1>1, <1>4, TelemetryAssumption DEF EndSweep
  <2>2. QED
    BY <1>4, <2>1, NotAwaiting DEF EndSweep
<1>5. ASSUME NEW t \in Thread, Receive(t)
      PROVE  FreshInv'
  BY <1>1, <1>5, NotAwaiting DEF Receive, NoAction
<1>6. ASSUME NEW t \in Thread, SendReport(t)
      PROVE  FreshInv'
  <2> DEFINE r == Report(Head(pods), tracker)
  <2>1. /\ thread' = [thread EXCEPT ![t] = r]
        /\ awaited' = t /\ UNCHANGED <<pods, tracker>>
    BY <1>6 DEF SendReport
  <2>2. /\ r \in [at : Places, pod : {Head(pods)}, mem : Nat, new : BOOLEAN,
                  len : {0}, verdict : {"NONE"}]
        /\ r.pod = Head(pods) /\ r.mem = tracker
    BY <1>1 DEF Report, Places
  <2> HIDE DEF r
  <2>3. IsReport(r)
    BY <2>2 DEF IsReport
  <2>4. thread'[t] = r
    BY <2>1 DEF FreshInv, ThreadsTypeOK
  <2>5. ThreadsTypeOK'
    BY <1>1, <2>1, <2>3, <2>4 DEF FreshInv, ThreadsTypeOK
  <2>6. ReportIsFresh'
    BY <2>1, <2>2, <2>3, <2>4 DEF ReportIsFresh
  <2>7. QED
    BY <2>5, <2>6 DEF FreshInv
<1>7. QED
  BY <1>2, <1>3, <1>4, <1>5, <1>6 DEF Sweep

LEMMA BrainFresh == FreshInv /\ Brain => FreshInv'
<1> SUFFICES ASSUME FreshInv, NEW t \in Thread,
                    Lookup(t) \/ Store(t) \/ Pop(t) \/ Measure(t) \/ Fit(t) \/ Exit(t)
             PROVE  FreshInv'
  BY DEF Brain
<1>1. CASE Exit(t)
  <2>1. /\ thread' = [thread EXCEPT ![t] = Idle]
        /\ awaited # t /\ UNCHANGED operator
    BY <1>1 DEF Exit
  <2>2. ThreadsTypeOK'
    BY <2>1 DEF operator, FreshInv, ThreadsTypeOK
  <2>3. ReportIsFresh'
    BY <2>1 DEF operator, FreshInv, ReportIsFresh, ThreadsTypeOK
  <2>4. QED
    BY <2>2, <2>3 DEF FreshInv
<1>2. CASE ~Exit(t)
  BY <1>2, BrainStep, StepKeepsFresh DEF FreshInv
<1>3. QED
  BY <1>1, <1>2

LEMMA NextFresh == FreshInv /\ [TNext]_tvars => FreshInv'
<1> SUFFICES ASSUME FreshInv, [TNext]_tvars PROVE FreshInv'
  OBVIOUS
<1>1. CASE RestartBrain
  <2>1. thread' = [t \in Thread |-> Idle] /\ loop' # "await" /\ UNCHANGED tracker
    BY <1>1 DEF RestartBrain
  <2>2. QED
    BY <2>1 DEF FreshInv, ThreadsTypeOK, ReportIsFresh
<1>2. CASE RestartOperator
  BY <1>2, TelemetryAssumption, NotAwaiting DEF RestartOperator
<1>3. CASE (\E p \in Monitored : PodChanges(p)) \/ UNCHANGED tvars
  BY <1>3 DEF PodChanges, tvars, operator, FreshInv, ThreadsTypeOK, ReportIsFresh
<1>4. QED
  BY <1>1, <1>2, <1>3, SweepFresh, BrainFresh DEF TNext

(* The operator evicts on the answer to the report it just sent only,      *)
(* whatever older reports are still handled by other threads of the brain  *)
(* (main.go:711-717).                                                      *)
THEOREM EvictsOnFreshAnswerAlways == TSpec => EvictsOnFreshAnswer
<1> DEFINE Fresh ==
      loop # "evict" /\ loop' = "evict" =>
        \E t \in Thread : /\ At(t, "answered")
                          /\ thread[t].verdict = "RESTART_PROACTIVE"
                          /\ thread[t].pod = Head(pods)
                          /\ thread[t].mem = tracker
<1>1. FreshInv /\ [TNext]_tvars => [Fresh]_tvars
  <2> SUFFICES ASSUME FreshInv, TNext, loop # "evict", loop' = "evict"
               PROVE  \E t \in Thread : /\ At(t, "answered")
                                        /\ thread[t].verdict = "RESTART_PROACTIVE"
                                        /\ thread[t].pod = Head(pods)
                                        /\ thread[t].mem = tracker
    BY DEF tvars
  <2>1. PICK t \in Thread : Receive(t)
    BY DEF TNext, Sweep, ListMonitored, SendFails, SendTimesOut, NoAction, Evict, EndSweep, SendReport,
           Brain, Lookup, Store, Pop, Measure, Fit, Exit, operator, RestartBrain,
           RestartOperator, PodChanges
  <2>2. QED
    BY <2>1 DEF Receive, NoAction, At, FreshInv, ReportIsFresh
<1>2. QED
  BY InitFresh, NextFresh, <1>1, PTL DEF TSpec, EvictsOnFreshAnswer

-----------------------------------------------------------------------------
(* The histories.                                                          *)

HistoriesTypeOK ==
  /\ pod_history = [p \in DOMAIN pod_history |-> pod_history[p]]
  /\ \A p \in DOMAIN pod_history : pod_history[p] \in Seq(Nat)

BoundedInv == ThreadsTypeOK /\ HistoriesTypeOK /\ HistoryBounded

LEMMA SamplesType ==
  ASSUME HistoriesTypeOK, NEW p
  PROVE  Samples(p) \in Seq(Nat) /\ Len(Samples(p)) \in Nat
<1>1. Samples(p) \in Seq(Nat)
  BY DEF HistoriesTypeOK, Samples
<1>2. QED
  BY <1>1

\* Any set of threads can be counted.
LEMMA ThreadsFinite ==
  ASSUME NEW S \in SUBSET Thread
  PROVE  IsFiniteSet(S) /\ Cardinality(S) \in Nat
<1>1. IsFiniteSet(S)
  BY TelemetryAssumption, FS_Subset
<1>2. QED
  BY <1>1, FS_CardinalityType

\* Steps that leave the histories alone and take no thread away that is about
\* to cut one.
LEMMA HistoryKept ==
  ASSUME BoundedInv, ThreadsTypeOK', UNCHANGED pod_history,
         \A p \in Monitored : Trimming(p) \subseteq Trimming(p)'
  PROVE  BoundedInv'
<1>1. HistoriesTypeOK'
  BY DEF BoundedInv, HistoriesTypeOK
<1>2. ASSUME NEW p \in Monitored
      PROVE  Len(Samples(p)') <= Window + Cardinality(Trimming(p)')
  <2>1. Len(Samples(p)) <= Window + Cardinality(Trimming(p))
    BY DEF BoundedInv, HistoryBounded
  <2>2. Samples(p)' = Samples(p) /\ Len(Samples(p)) \in Nat
    BY SamplesType DEF Samples, BoundedInv
  <2>3. Trimming(p) \in SUBSET Trimming(p)' /\ Trimming(p)' \in SUBSET Thread
    BY DEF Trimming
  <2>4. /\ IsFiniteSet(Trimming(p)') /\ Cardinality(Trimming(p)') \in Nat
        /\ Cardinality(Trimming(p)) \in Nat
    BY <2>3, ThreadsFinite
  <2>5. Cardinality(Trimming(p)) <= Cardinality(Trimming(p)')
    BY <2>3, <2>4, FS_Subset
  <2>6. QED
    BY <2>1, <2>2, <2>4, <2>5, TelemetryAssumption
<1>3. HistoryBounded'
  BY <1>2 DEF HistoryBounded
<1>4. QED
  BY <1>1, <1>3 DEF BoundedInv

\* One list is replaced by another that is within the bound.
LEMMA ListReplaced ==
  ASSUME BoundedInv, ThreadsTypeOK', NEW p, NEW s \in Seq(Nat), Stored(p, s),
         Len(s) <= Window + Cardinality(Trimming(p)'),
         \A q \in Monitored : q # p => Trimming(q)' = Trimming(q)
  PROVE  BoundedInv'
<1>1. pod_history' = [q \in DOMAIN pod_history \cup {p} |-> IF q = p THEN s ELSE pod_history[q]]
  BY DEF Stored
<1>2. HistoriesTypeOK'
  BY <1>1 DEF BoundedInv, HistoriesTypeOK
<1>3. Samples(p)' = s /\ \A q \in Monitored : q # p => Samples(q)' = Samples(q)
  BY <1>1 DEF Samples
<1>4. HistoryBounded'
  BY <1>3 DEF BoundedInv, HistoryBounded
<1>5. QED
  BY <1>2, <1>4 DEF BoundedInv

\* One sample more, by a thread that will cut the list.
LEMMA StoreBounded ==
  ASSUME BoundedInv, NEW t \in Thread, Store(t)
  PROVE  BoundedInv'
<1>0. PICK p : p = thread[t].pod
  OBVIOUS
<1> DEFINE s == Append(IF thread[t].new THEN <<>> ELSE Samples(p), thread[t].mem)
<1>1. StepOf(t) /\ UNCHANGED tracker
  BY BrainStep DEF BoundedInv, operator
<1>2. thread[t].at = "store" /\ thread[t].mem \in Nat
  BY <1>1 DEF Store, At, StepOf, IsReport
<1>3. Samples(p) \in Seq(Nat) /\ Len(Samples(p)) \in Nat
  BY SamplesType DEF BoundedInv
<1>4. s \in Seq(Nat) /\ Len(s) <= Len(Samples(p)) + 1 /\ Len(s) \in Nat
  BY <1>2, <1>3
<1>5. /\ pod_history' = [q \in DOMAIN pod_history \cup {p} |-> IF q = p THEN s ELSE pod_history[q]]
      /\ thread' = [thread EXCEPT ![t].at = "trim"]
  BY <1>0 DEF Store, Stored, Goto
<1> HIDE DEF s
<1>6. thread'[t].at = "trim"
  BY <1>1, <1>5 DEF StepOf, IsReport, BoundedInv, ThreadsTypeOK
<1>7. Trimming(p)' = Trimming(p) \cup {t} /\ t \notin Trimming(p)
  BY <1>0, <1>1, <1>2, <1>6 DEF Trimming, At, StepOf
<1>8. \A q \in Monitored : q # p => Trimming(q)' = Trimming(q)
  BY <1>0, <1>1 DEF Trimming, At, StepOf
<1>9. ThreadsTypeOK'
  BY <1>1 DEF StepOf, BoundedInv, ThreadsTypeOK
<1>10. CASE p \in Monitored
  <2>1. Trimming(p) \in SUBSET Thread
    BY DEF Trimming
  <2>2. IsFiniteSet(Trimming(p)) /\ Cardinality(Trimming(p)) \in Nat
    BY <2>1, ThreadsFinite
  <2>3. Cardinality(Trimming(p)') = Cardinality(Trimming(p)) + 1
    BY <1>7, <2>2, FS_AddElement
  <2>4. Len(Samples(p)) <= Window + Cardinality(Trimming(p))
    BY <1>10 DEF BoundedInv, HistoryBounded
  <2>5. Len(s) <= Window + Cardinality(Trimming(p)')
    BY <1>3, <1>4, <2>2, <2>3, <2>4, TelemetryAssumption
  <2>6. Stored(p, s)
    BY <1>5 DEF Stored
  <2>7. QED
    BY <1>4, <1>8, <1>9, <2>5, <2>6, ListReplaced
<1>11. CASE p \notin Monitored
  <2>1. HistoriesTypeOK'
    BY <1>4, <1>5 DEF BoundedInv, HistoriesTypeOK
  <2>2. \A q \in Monitored : Samples(q)' = Samples(q) /\ Trimming(q)' = Trimming(q)
    BY <1>5, <1>8, <1>11 DEF Samples
  <2>3. HistoryBounded'
    BY <2>2 DEF BoundedInv, HistoryBounded
  <2>4. QED
    BY <1>9, <2>1, <2>3 DEF BoundedInv
<1>12. QED
  BY <1>10, <1>11

\* The list is cut, or was short enough.
LEMMA PopBounded ==
  ASSUME BoundedInv, NEW t \in Thread, Pop(t)
  PROVE  BoundedInv'
<1>0. PICK p : p = thread[t].pod
  OBVIOUS
<1> DEFINE s == Predictor!Trim(Samples(p))
<1>1. StepOf(t) /\ UNCHANGED tracker
  BY BrainStep DEF BoundedInv, operator
<1>2. thread[t].at = "trim"
  BY DEF Pop, At
<1>3. Samples(p) \in Seq(Nat) /\ Len(Samples(p)) \in Nat
  BY SamplesType DEF BoundedInv
<1>4. /\ s \in Seq(Nat) /\ Len(s) \in Nat
      /\ Len(s) <= Window \/ Len(s) = Len(Samples(p)) - 1
  <2>1. CASE Len(Samples(p)) > Window
    <3>1. Samples(p) # <<>> /\ s = Tail(Samples(p))
      BY <1>3, <2>1, TelemetryAssumption DEF Predictor!Trim
    <3>2. QED
      BY <1>3, <3>1
  <2>2. CASE ~(Len(Samples(p)) > Window)
    BY <1>3, <2>2, TelemetryAssumption DEF Predictor!Trim
  <2>3. QED
    BY <2>1, <2>2
<1>5. Stored(p, s) /\ thread' = [thread EXCEPT ![t].at = "measure"]
  BY <1>0 DEF Pop, Goto
<1> HIDE DEF s
<1>6. thread'[t].at = "measure"
  BY <1>1, <1>5 DEF StepOf, IsReport, BoundedInv, ThreadsTypeOK
<1>7. Trimming(p)' = Trimming(p) \ {t} /\ t \in Trimming(p)
  BY <1>0, <1>1, <1>2, <1>6 DEF Trimming, At, StepOf
<1>8. \A q \in Monitored : q # p => Trimming(q)' = Trimming(q)
  BY <1>0, <1>1 DEF Trimming, At, StepOf
<1>9. ThreadsTypeOK'
  BY <1>1 DEF StepOf, BoundedInv, ThreadsTypeOK
<1>10. /\ IsFiniteSet(Trimming(p)) /\ Cardinality(Trimming(p)) \in Nat
       /\ Cardinality(Trimming(p)') \in Nat
  BY <1>7, ThreadsFinite DEF Trimming
<1>11. Cardinality(Trimming(p)') = Cardinality(Trimming(p)) - 1
  BY <1>7, <1>10, FS_RemoveElement
<1>12. CASE p \in Monitored
  <2>1. Len(Samples(p)) <= Window + Cardinality(Trimming(p))
    BY <1>12 DEF BoundedInv, HistoryBounded
  <2>2. Len(s) <= Window + Cardinality(Trimming(p)')
    BY <1>3, <1>4, <1>10, <1>11, <2>1, TelemetryAssumption
  <2>3. QED
    BY <1>4, <1>5, <1>8, <1>9, <2>2, ListReplaced
<1>13. CASE p \notin Monitored
  <2>1. HistoriesTypeOK'
    BY <1>4, <1>5 DEF Stored, BoundedInv, HistoriesTypeOK
  <2>2. \A q \in Monitored : Samples(q)' = Samples(q) /\ Trimming(q)' = Trimming(q)
    BY <1>5, <1>8, <1>13 DEF Stored, Samples
  <2>3. HistoryBounded'
    BY <2>2 DEF BoundedInv, HistoryBounded
  <2>4. QED
    BY <1>9, <2>1, <2>3 DEF BoundedInv
<1>14. QED
  BY <1>12, <1>13

LEMMA InitBounded == TInit => BoundedInv
<1> SUFFICES ASSUME TInit PROVE BoundedInv
  OBVIOUS
<1>1. ThreadsTypeOK /\ HistoriesTypeOK
  BY TelemetryAssumption DEF TInit, ThreadsTypeOK, HistoriesTypeOK
<1>2. ASSUME NEW p \in Monitored
      PROVE  Len(Samples(p)) <= Window + Cardinality(Trimming(p))
  <2>1. Len(Samples(p)) = 0
    BY DEF TInit, Samples
  <2>2. Cardinality(Trimming(p)) \in Nat
    BY ThreadsFinite DEF Trimming
  <2>3. QED
    BY <2>1, <2>2, TelemetryAssumption
<1>3. QED
  BY <1>1, <1>2 DEF BoundedInv, HistoryBounded

LEMMA BrainBounded ==
  ASSUME BoundedInv, ThreadsTypeOK', NEW t \in Thread,
         Lookup(t) \/ Measure(t) \/ Fit(t) \/ Exit(t)
  PROVE  BoundedInv'
<1>1. UNCHANGED pod_history
  BY DEF Lookup, Measure, Fit, Exit
<1>2. thread[t].at # "trim"
  BY DEF Lookup, Measure, Fit, Exit, At
<1>3. \A u \in Thread \ {t} : thread'[u] = thread[u]
  BY DEF Lookup, Measure, Fit, Exit, BoundedInv, ThreadsTypeOK
<1>4. QED
  BY <1>1, <1>2, <1>3, HistoryKept DEF Trimming, At

LEMMA SweepBounded ==
  ASSUME BoundedInv, ThreadsTypeOK', Sweep \/ RestartOperator \/ (\E p \in Monitored : PodChanges(p))
                                     \/ UNCHANGED tvars
  PROVE  BoundedInv'
<1>1. UNCHANGED pod_history
  BY DEF Sweep, ListMonitored, SendFails, SendTimesOut, Evict, EndSweep, SendReport, Receive,
         NoAction, RestartOperator, PodChanges, tvars
<1>2. \/ UNCHANGED thread
      \/ \E t \in Thread : SendReport(t)
  BY DEF Sweep, ListMonitored, SendFails, SendTimesOut, Evict, EndSweep, Receive,
         NoAction, RestartOperator, PodChanges, tvars
<1>3. CASE UNCHANGED thread
  BY <1>1, <1>3, HistoryKept DEF Trimming, At
<1>4. ASSUME NEW t \in Thread, SendReport(t)
      PROVE  BoundedInv'
  <2>1. thread[t].at # "trim" /\ \A u \in Thread \ {t} : thread'[u] = thread[u]
    BY <1>4 DEF SendReport, Idle, BoundedInv, ThreadsTypeOK
  <2>2. QED
    BY <1>1, <2>1, HistoryKept DEF Trimming, At
<1>5. QED
  BY <1>2, <1>3, <1>4

LEMMA RestartBounded == ThreadsTypeOK' /\ RestartBrain => BoundedInv'
<1> SUFFICES ASSUME ThreadsTypeOK', RestartBrain PROVE BoundedInv'
  OBVIOUS
<1>1. HistoriesTypeOK'
  BY DEF RestartBrain, HistoriesTypeOK
<1>2. ASSUME NEW p \in Monitored
      PROVE  Len(Samples(p)') <= Window + Cardinality(Trimming(p)')
  <2>1. Len(Samples(p)') = 0
    BY DEF RestartBrain, Samples
  <2>2. Trimming(p)' \in SUBSET Thread
    BY DEF Trimming
  <2>3. Cardinality(Trimming(p)') \in Nat
    BY <2>2, ThreadsFinite
  <2>4. QED
    BY <2>1, <2>3, TelemetryAssumption
<1>3. QED
  BY <1>1, <1>2 DEF BoundedInv, HistoryBounded

(* Whatever number of threads share a history, it outgrows the window only *)
(* by those that are about to cut it (app.py:161-163).                     *)
THEOREM HistoryAlwaysBounded == TSpec => []HistoryBounded
<1>1. FreshInv => ThreadsTypeOK
  BY DEF FreshInv
<1>2. ThreadsTypeOK' /\ BoundedInv /\ [TNext]_tvars => BoundedInv'
  BY StoreBounded, PopBounded, BrainBounded, SweepBounded, RestartBounded DEF TNext, Brain
<1>3. BoundedInv => HistoryBounded
  BY DEF BoundedInv
<1>4. QED
  BY InitFresh, NextFresh, InitBounded, <1>1, <1>2, <1>3, PTL DEF TSpec
=============================================================================
