----------------------------- MODULE Telemetry ------------------------------
(***************************************************************************)
(* The proactive mitigation loop: the Go operator lists the monitored pods *)
(* every ten seconds, reports a simulated memory reading of each running   *)
(* one to the Python brain, waits at most five seconds for the verdict and *)
(* evicts the pod when a restart is asked for (operator/main.go).  The     *)
(* brain handles each report in a thread of its own; the threads share the *)
(* histories without a lock (brain/app.py), and a thread whose client gave *)
(* up runs on beside the next one.                                         *)
(*                                                                         *)
(* The cluster (pods that start, stop and come back under the same name,   *)
(* an API server that may refuse a call) is external.                      *)
(***************************************************************************)
EXTENDS Integers, Sequences, FiniteSets

CONSTANTS
  Monitored,    \* names of the monitored pods
  PodOrder,     \* Monitored as a sequence, the order of the API's lists
  Thread,       \* request threads of the brain
  None,         \* no thread, no request
  Base,         \* simulatedMemoryTracker at the start and after an eviction
  Step,         \* added after each sweep
  Limit, Window, MinSamples,    \* of the predictor, see LeakWindow.tla
  MaxTracker,   \* bound of the model: where the tracker stops growing
  MaxRestarts   \* bound of the model: restarts of the operator and the brain

ASSUME TelemetryAssumption ==
  /\ PodOrder \in Seq(Monitored)
  /\ IsFiniteSet(Thread) /\ None \notin Thread
  /\ Base \in Nat /\ Step \in Nat /\ Limit \in Nat
  /\ Window \in Nat /\ MinSamples \in 2..Window
  /\ MaxTracker \in Nat /\ MaxRestarts \in Nat

VARIABLES
  \* the operator's telemetry loop
  loop,         \* "list", "pods", "await", "evict"
  pods,         \* the listed pods not yet reported, the first one under way
  found,        \* len(pods.Items) > 0
  tracker,      \* simulatedMemoryTracker
  awaited,      \* the thread whose answer the HTTP client waits for
  \* the brain
  pod_history,  \* a list for each pod it has heard of
  thread,       \* each request thread
  \* the cluster
  phase,        \* "absent", "Pending", "Running", "Terminating"
  restarts

operator == <<loop, pods, found, tracker, awaited>>
tvars == <<operator, pod_history, thread, phase, restarts>>

Predictor == INSTANCE LeakWindow
  WITH Sample <- Nat, history <- <<>>, action <- "NONE"

Idle == [at |-> "idle"]

\* A report on its way through receive_telemetry: where it is, its payload,
\* whether it saw the pod unknown, the length it measured, its verdict.
Report(p, m) == [at |-> "sent", pod |-> p, mem |-> m, new |-> FALSE,
                 len |-> 0, verdict |-> "NONE"]

Samples(p) == IF p \in DOMAIN pod_history THEN pod_history[p] ELSE <<>>

TInit ==
  /\ loop = "list" /\ pods = <<>> /\ found = FALSE
  /\ tracker = Base /\ awaited = None
  /\ pod_history = [p \in {} |-> <<>>]
  /\ thread = [t \in Thread |-> Idle]
  /\ phase \in [Monitored -> {"absent", "Running"}]
  /\ restarts = 0

-----------------------------------------------------------------------------
(* The operator, one goroutine.                                            *)

\* A terminating pod still has phase Running.
Listed(p) == phase[p] \in {"Running", "Terminating"}

\* The list is a snapshot; the pods that are not running are skipped.  (A
\* list that fails changes nothing: the loop sleeps and lists again.)
ListMonitored ==
  /\ loop = "list"
  /\ loop' = "pods"
  /\ pods' = SelectSeq(PodOrder, Listed)
  /\ found' = (\E p \in Monitored : phase[p] # "absent")
  /\ UNCHANGED <<tracker, awaited, pod_history, thread, phase, restarts>>

\* POST to the brain, with the tracker as the reading of every pod.
SendReport(t) ==
  /\ loop = "pods" /\ pods # <<>>
  /\ thread[t] = Idle
  /\ thread' = [thread EXCEPT ![t] = Report(Head(pods), tracker)]
  /\ awaited' = t
  /\ loop' = "await"
  /\ UNCHANGED <<pods, found, tracker, pod_history, phase, restarts>>

\* The action is "NONE": go on to the next pod.
NoAction ==
  /\ loop' = "pods" /\ pods' = Tail(pods) /\ awaited' = None
  /\ UNCHANGED <<found, tracker, pod_history, thread, phase, restarts>>

\* The brain cannot be reached.
SendFails == loop = "pods" /\ pods # <<>> /\ NoAction

\* A bug: the client has no timeout and a hung brain is waited for.
NeverTimesOut == loop = "await" /\ FALSE

\* The five seconds of the HTTP client are over; the thread runs on.
SendTimesOut == loop = "await" /\ NoAction

\* A bug: the verdict of any request for this pod is taken.
TakesAnyAnswer(t) ==
  /\ loop = "await"
  /\ thread[t].at = "answered" /\ thread[t].pod = Head(pods)
  /\ IF thread[t].verdict = "RESTART_PROACTIVE"
     THEN /\ loop' = "evict"
          /\ UNCHANGED <<pods, found, tracker, awaited, pod_history, thread, phase, restarts>>
     ELSE NoAction

\* The answer arrives within the five seconds.  A 500 of a thread that raised
\* an exception does not decode and counts as "NONE".
Receive(t) ==
  /\ loop = "await" /\ awaited = t
  /\ thread[t].at = "answered"
  /\ IF thread[t].verdict = "RESTART_PROACTIVE"
     THEN /\ loop' = "evict"
          /\ UNCHANGED <<pods, found, tracker, awaited, pod_history, thread, phase, restarts>>
     ELSE NoAction

\* Delete of the pod: success resets the tracker, an error (the pod is gone,
\* the call is refused, or its reply is lost) leaves it.
Evict ==
  /\ loop = "evict"
  /\ \/ /\ phase[Head(pods)] # "absent"
        /\ phase' = [phase EXCEPT ![Head(pods)] =
                       IF @ = "Pending" THEN "absent" ELSE "Terminating"]
        /\ tracker' \in {Base, tracker}
     \/ UNCHANGED <<phase, tracker>>
  /\ loop' = "pods" /\ pods' = Tail(pods) /\ awaited' = None
  /\ UNCHANGED <<found, pod_history, thread, restarts>>

\* The end of a sweep and its ten seconds of sleep.
EndSweep ==
  /\ loop = "pods" /\ pods = <<>>
  /\ loop' = "list"
  /\ tracker' = IF found /\ tracker + Step <= MaxTracker THEN tracker + Step ELSE tracker
  /\ UNCHANGED <<pods, found, awaited, pod_history, thread, phase, restarts>>

-----------------------------------------------------------------------------
(* A request thread of the brain; the interpreter may switch threads       *)
(* between any two of these steps.                                         *)

At(t, place) == thread[t].at = place

Goto(t, place) == thread' = [thread EXCEPT ![t].at = place]

\* if pod_name not in pod_history
Lookup(t) ==
  /\ At(t, "sent")
  /\ thread' = [thread EXCEPT ![t].at = "store",
                              ![t].new = thread[t].pod \notin DOMAIN pod_history]
  /\ UNCHANGED <<operator, pod_history, phase, restarts>>

Stored(p, s) == pod_history' = [q \in DOMAIN pod_history \cup {p} |->
                              IF q = p THEN s ELSE pod_history[q]]

\* The new list, when one was found missing, and the append.
Store(t) ==
  /\ At(t, "store")
  /\ Stored(thread[t].pod,
            Append(IF thread[t].new THEN <<>> ELSE Samples(thread[t].pod), thread[t].mem))
  /\ Goto(t, "trim")
  /\ UNCHANGED <<operator, phase, restarts>>

\* A bug: the pop is left out.
NoPop(t) ==
  /\ At(t, "trim")
  /\ Goto(t, "measure")
  /\ UNCHANGED <<operator, pod_history, phase, restarts>>

\* if len(...) > 5: pop(0)
Pop(t) ==
  /\ At(t, "trim")
  /\ Stored(thread[t].pod, Predictor!Trim(Samples(thread[t].pod)))
  /\ Goto(t, "measure")
  /\ UNCHANGED <<operator, phase, restarts>>

\* len(history) >= 3, and x = arange(len(history)).
Measure(t) ==
  /\ At(t, "measure")
  /\ LET n == Len(Samples(thread[t].pod)) IN
       thread' = [thread EXCEPT ![t].len = n,
                                ![t].at = IF n < MinSamples THEN "answered" ELSE "fit"]
  /\ UNCHANGED <<operator, pod_history, phase, restarts>>

\* y = array(history) and the fit.  When another thread changed the length
\* since, polyfit raises and Flask answers 500.  The fit rounds either way.
Fit(t) ==
  /\ At(t, "fit")
  /\ \E up \in BOOLEAN :
       LET h == Samples(thread[t].pod) IN
         thread' = [thread EXCEPT ![t].at = "answered",
                                  ![t].verdict = IF Len(h) # thread[t].len THEN "ERROR"
                                                 ELSE Predictor!Verdict(h, up)]
  /\ UNCHANGED <<operator, pod_history, phase, restarts>>

\* The thread ends once its answer is taken or nobody waits for it any more.
Exit(t) ==
  /\ At(t, "answered") /\ awaited # t
  /\ thread' = [thread EXCEPT ![t] = Idle]
  /\ UNCHANGED <<operator, pod_history, phase, restarts>>

-----------------------------------------------------------------------------
(* Restarts and the cluster.                                               *)

RestartBrain ==
  /\ restarts < MaxRestarts
  /\ restarts' = restarts + 1
  /\ pod_history' = [p \in {} |-> <<>>]
  /\ thread' = [t \in Thread |-> Idle]
  /\ IF loop = "await"
     THEN loop' = "pods" /\ pods' = Tail(pods) /\ awaited' = None
     ELSE UNCHANGED <<loop, pods, awaited>>
  /\ UNCHANGED <<found, tracker, phase>>

RestartOperator ==
  /\ restarts < MaxRestarts
  /\ restarts' = restarts + 1
  /\ loop' = "list" /\ pods' = <<>> /\ found' = FALSE
  /\ tracker' = Base /\ awaited' = None
  /\ UNCHANGED <<pod_history, thread, phase>>

\* A pod starts, or ends and may come back under its name (StatefulSet).
PodChanges(p) ==
  /\ \/ phase[p] = "absent" /\ phase' = [phase EXCEPT ![p] = "Pending"]
     \/ phase[p] = "Pending" /\ phase' = [phase EXCEPT ![p] = "Running"]
     \/ phase[p] \in {"Running", "Terminating"} /\ phase' = [phase EXCEPT ![p] = "absent"]
  /\ UNCHANGED <<operator, pod_history, thread, restarts>>

Sweep == \/ ListMonitored \/ SendFails \/ SendTimesOut \/ Evict \/ EndSweep
         \/ \E t \in Thread : SendReport(t) \/ Receive(t)

Brain == \E t \in Thread : \/ Lookup(t) \/ Store(t) \/ Pop(t) \/ Measure(t)
                           \/ Fit(t) \/ Exit(t)

TNext == \/ Sweep \/ Brain
        \/ RestartBrain \/ RestartOperator
        \/ \E p \in Monitored : PodChanges(p)

\* The operator's goroutine runs, and its timer fires, whatever the brain
\* does; nothing is assumed of the brain's threads or of the cluster.
TSpec == TInit /\ [][TNext]_tvars /\ WF_tvars(Sweep)

-----------------------------------------------------------------------------
\* The threads that have appended to p's list and not yet cut it.
Trimming(p) == {t \in Thread : At(t, "trim") /\ thread[t].pod = p}

(* Whatever threads share a history, it outgrows the window only by the    *)
(* threads that are about to cut it (app.py:161-163).                      *)
HistoryBounded ==
  \A p \in Monitored : Len(Samples(p)) <= Window + Cardinality(Trimming(p))

(* The operator evicts only on the answer to the report it just sent: the  *)
(* verdict is about the first pod of the list and the reading it has now,  *)
(* however late the answers to earlier reports are (main.go:711-717).      *)
EvictsOnFreshAnswer ==
  [][loop # "evict" /\ loop' = "evict" =>
       \E t \in Thread : /\ At(t, "answered")
                         /\ thread[t].verdict = "RESTART_PROACTIVE"
                         /\ thread[t].pod = Head(pods)
                         /\ thread[t].mem = tracker]_tvars

(* A brain that hangs, dies or raises never stops the loop: it comes back  *)
(* to list the pods again and again (main.go:690-731).                     *)
LoopNeverHangs == []<>(loop = "list")
=============================================================================
