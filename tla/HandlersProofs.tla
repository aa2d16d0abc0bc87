--------------------------- MODULE HandlersProofs ---------------------------
(***************************************************************************)
(* Proofs about the HTTP handlers of the operator.                         *)
(*                                                                         *)
(* QuickActions.tla, for every cluster, every number of requests and every *)
(* set of actions offered: two approvals that race over the same list of   *)
(* InstallPlans never both approve the same one, a request confirms one    *)
(* effect at most, what the user is told of it is final and true of the    *)
(* cluster, the journal has it exactly once, and no change of the cluster  *)
(* is missing from it unless the process died.                             *)
(*                                                                         *)
(* InventoryCache.tla, for every set of readers and every number of sweeps:*)
(* the lock keeps answers whole, and the cache implements the register of  *)
(* AtomicInventory.tla.                                                    *)
(***************************************************************************)
EXTENDS QuickActions, InventoryCache, FiniteSetTheorems, SequenceTheorems, TLAPS

\* The part of the state that the approvals and their history live in.
ApprovalTypeOK ==
  /\ approved \in [Plan -> BOOLEAN]
  /\ revision \in [Plan -> Nat]
  /\ ask \in [Request -> Offered \cup {NoAsk}]
  /\ todo \in [Request -> SUBSET (Plan \cup Pod)]
  /\ seen \in [Request -> [Plan -> Nat]]
  /\ touched \in [Request -> SUBSET (Plan \cup Pod \cup Sub)]

\* What a request changed stays approved.
TouchedIsApproved ==
  \A r \in Request, p \in Plan : p \in touched[r] => approved[p]

\* A listed InstallPlan that was approved since has a newer resourceVersion,
\* so the Update that a handler still holds for it will be refused.
ListIsStaleOnceApproved ==
  \A r \in Request, p \in Plan : p \in todo[r] =>
    /\ seen[r][p] <= revision[p]
    /\ approved[p] => seen[r][p] < revision[p]

ApprovalInv == /\ ApprovalTypeOK
               /\ TouchedIsApproved
               /\ ListIsStaleOnceApproved
               /\ NoPlanApprovedTwice

LEMMA InitApproval == Init => ApprovalInv
BY ClusterAssumption
DEF Init, ApprovalInv, ApprovalTypeOK, TouchedIsApproved,
    ListIsStaleOnceApproved, NoPlanApprovedTwice

\* Steps that leave the InstallPlans and the lists alone.
LEMMA Unrelated ==
  ASSUME ApprovalInv,
         UNCHANGED <<approved, revision, ask, todo, seen, touched>>
  PROVE  ApprovalInv'
BY DEF ApprovalInv, ApprovalTypeOK, TouchedIsApproved,
       ListIsStaleOnceApproved, NoPlanApprovedTwice

\* A request that is asked for, or one that touches something that is no
\* InstallPlan: the lists can only get shorter.
LEMMA NoPlanTouched ==
  ASSUME ApprovalInv, ApprovalTypeOK',
         UNCHANGED <<approved, revision, seen>>,
         \A r \in Request : todo'[r] \cap Plan \subseteq todo[r],
         \A r \in Request : touched'[r] \cap Plan = touched[r] \cap Plan
  PROVE  ApprovalInv'
BY DEF ApprovalInv, TouchedIsApproved, ListIsStaleOnceApproved, NoPlanApprovedTwice

LEMMA ListPlansApproval ==
  ASSUME ApprovalInv, NEW r \in Request, ListPlans(r)
  PROVE  ApprovalInv'
<1>1. CASE Fail(r)
  BY <1>1, Unrelated DEF Fail, cluster, history
<1>2. CASE ~Fail(r)
  <2>1. /\ todo' = [todo EXCEPT ![r] =
                      {p \in Plan : /\ NsOf[PlanOf[p]] = NsOf[ask[r].sub]
                                    /\ ~approved[p]}]
        /\ seen' = [seen EXCEPT ![r] = revision]
        /\ pc' = [pc EXCEPT ![r] = "apply"]
        /\ UNCHANGED <<approved, revision, ask, touched>>
    BY <1>2 DEF ListPlans, cluster, history
  <2>2. ApprovalTypeOK'
    BY <2>1 DEF ApprovalInv, ApprovalTypeOK
  <2>3. TouchedIsApproved' /\ NoPlanApprovedTwice'
    BY <2>1 DEF ApprovalInv, TouchedIsApproved, NoPlanApprovedTwice
  <2>4. ListIsStaleOnceApproved'
    BY <2>1 DEF ApprovalInv, ApprovalTypeOK, ListIsStaleOnceApproved
  <2>5. QED
    BY <2>2, <2>3, <2>4 DEF ApprovalInv
<1>3. QED
  BY <1>1, <1>2

LEMMA TryPlanApproval ==
  ASSUME ApprovalInv, NEW r \in Request, TryPlan(r)
  PROVE  ApprovalInv'
<1>1. PICK p \in Plan :
        /\ IsNext(r, p)
        /\ Tried(r, p)
        /\ \/ AcceptUpdate(r, p) /\ Acknowledge(r, p)
           \/ AcceptUpdate(r, p) /\ LoseReply(r, p) /\ UNCHANGED pc
           \/ UNCHANGED <<approved, revision, touched, acked, success, pc>>
  BY DEF TryPlan
<1>2. /\ UNCHANGED <<ask, seen>>
      /\ todo' = [todo EXCEPT ![r] = @ \ {p}]
      /\ p \in todo[r]
  BY <1>1 DEF TryPlan, Tried, IsNext
<1>3. CASE /\ AcceptUpdate(r, p)
           /\ touched' = [touched EXCEPT ![r] = @ \cup {p}]
  <2>1. /\ ~approved[p]
        /\ approved' = [approved EXCEPT ![p] = TRUE]
        /\ revision' = [revision EXCEPT ![p] = @ + 1]
    BY <1>2, <1>3 DEF AcceptUpdate, ApprovalInv, ApprovalTypeOK, ListIsStaleOnceApproved
  <2>2. ApprovalTypeOK'
    BY <1>2, <1>3, <2>1 DEF ApprovalInv, ApprovalTypeOK
  <2>3. TouchedIsApproved'
    BY <1>3, <2>1 DEF ApprovalInv, ApprovalTypeOK, TouchedIsApproved
  <2>4. NoPlanApprovedTwice'
    BY <1>3, <2>1 DEF ApprovalInv, ApprovalTypeOK, TouchedIsApproved, NoPlanApprovedTwice
  <2>5. ListIsStaleOnceApproved'
    BY <1>2, <2>1 DEF ApprovalInv, ApprovalTypeOK, ListIsStaleOnceApproved
  <2>6. QED
    BY <2>2, <2>3, <2>4, <2>5 DEF ApprovalInv
<1>4. CASE UNCHANGED <<approved, revision, touched, acked, success, pc>>
  <2>1. ApprovalTypeOK'
    BY <1>2, <1>4 DEF ApprovalInv, ApprovalTypeOK
  <2>2. \A q \in Request : todo'[q] \cap Plan \subseteq todo[q]
    BY <1>2 DEF ApprovalInv, ApprovalTypeOK
  <2>3. QED
    BY <1>2, <1>4, <2>1, <2>2, NoPlanTouched
<1>5. QED
  BY <1>1, <1>3, <1>4 DEF Acknowledge, LoseReply, ApprovalInv, ApprovalTypeOK

LEMMA RestartApproval ==
  ASSUME ApprovalInv, NEW r \in Request, ListPods(r) \/ TryPod(r)
  PROVE  ApprovalInv'
<1> USE ClusterAssumption
<1>1. CASE ListPods(r)
  <2>1. CASE Fail(r)
    BY <2>1, Unrelated DEF Fail, cluster, history
  <2>2. CASE ~Fail(r)
    <3>1. /\ todo' = [todo EXCEPT ![r] =
                        {p \in Pod : /\ PodOf[p] = ask[r].sub
                                     /\ podState[p] \in {"running", "terminating"}}]
          /\ pc' = [pc EXCEPT ![r] = "apply"]
          /\ UNCHANGED <<approved, revision, ask, seen, touched>>
      BY <1>1, <2>2 DEF ListPods, cluster, history
    <3>2. ApprovalTypeOK'
      BY <3>1 DEF ApprovalInv, ApprovalTypeOK
    <3>3. \A q \in Request : todo'[q] \cap Plan \subseteq todo[q]
      BY <3>1 DEF ApprovalInv, ApprovalTypeOK
    <3>4. QED
      BY <3>1, <3>2, <3>3, NoPlanTouched
  <2>3. QED
    BY <2>1, <2>2
<1>2. CASE TryPod(r)
  <2>1. PICK p \in Pod :
          /\ Tried(r, p)
          /\ \/ touched' = [touched EXCEPT ![r] = @ \cup {p}]
             \/ UNCHANGED touched
    BY <1>2 DEF TryPod, Acknowledge, LoseReply, ApprovalInv, ApprovalTypeOK
  <2>2. UNCHANGED <<approved, revision, ask, seen>>
    BY <1>2 DEF TryPod
  <2>3. ApprovalTypeOK'
    <3>1. todo' \in [Request -> SUBSET (Plan \cup Pod)]
      BY <2>1 DEF Tried, ApprovalInv, ApprovalTypeOK
    <3>2. touched' \in [Request -> SUBSET (Plan \cup Pod \cup Sub)]
      BY <2>1 DEF ApprovalInv, ApprovalTypeOK
    <3>3. QED
      BY <2>2, <3>1, <3>2 DEF ApprovalInv, ApprovalTypeOK
  <2>4. \A q \in Request : todo'[q] \cap Plan \subseteq todo[q]
    BY <2>1 DEF Tried, ApprovalInv, ApprovalTypeOK
  <2>5. \A q \in Request : touched'[q] \cap Plan = touched[q] \cap Plan
    BY <2>1 DEF ApprovalInv, ApprovalTypeOK
  <2>6. QED
    BY <2>2, <2>3, <2>4, <2>5, NoPlanTouched
<1>3. QED
  BY <1>1, <1>2

LEMMA SubscriptionApproval ==
  ASSUME ApprovalInv, NEW r \in Request, PurgeSubscription(r) \/ PatchChannel(r)
  PROVE  ApprovalInv'
<1> USE ClusterAssumption, RequestAssumption
<1>1. /\ ask[r].sub \in Sub
      /\ UNCHANGED <<approved, revision, ask, todo, seen>>
      /\ \/ touched' = [touched EXCEPT ![r] = @ \cup {ask[r].sub}]
         \/ UNCHANGED touched
  <2>1. ask[r].kind \in {"delete", "channel-change"}
    BY DEF PurgeSubscription, PatchChannel
  <2>2. ask[r] \in Offered
    BY <2>1 DEF ApprovalInv, ApprovalTypeOK, NoAsk
  <2>3. QED
    BY <2>2 DEF PurgeSubscription, PatchChannel, Acknowledge, LoseReply,
                ApprovalInv, ApprovalTypeOK
<1>2. ApprovalTypeOK'
  BY <1>1 DEF ApprovalInv, ApprovalTypeOK
<1>3. \A q \in Request : touched'[q] \cap Plan = touched[q] \cap Plan
  BY <1>1 DEF ApprovalInv, ApprovalTypeOK
<1>4. \A q \in Request : todo'[q] \cap Plan \subseteq todo[q]
  BY <1>1
<1>5. QED
  BY <1>1, <1>2, <1>3, <1>4, NoPlanTouched

LEMMA NextApproval == ApprovalInv /\ [Next]_vars => ApprovalInv'
<1> SUFFICES ASSUME ApprovalInv, [Next]_vars
             PROVE  ApprovalInv'
  OBVIOUS
<1>1. ASSUME NEW r \in Request, NEW a \in Offered, Submit(r, a)
      PROVE  ApprovalInv'
  <2>1. ApprovalTypeOK' /\ UNCHANGED <<approved, revision, seen, todo, touched>>
    BY <1>1 DEF Submit, cluster, history, ApprovalInv, ApprovalTypeOK
  <2>2. QED
    BY <2>1, NoPlanTouched
<1>2. ASSUME NEW r \in Request, Refuse(r) \/ GiveUp(r) \/ Record(r) \/ Reply(r)
      PROVE  ApprovalInv'
  <2>1. UNCHANGED <<approved, revision, ask, todo, seen, touched>>
    BY <1>2 DEF Refuse, GiveUp, Fail, Record, Reply, cluster, history
  <2>2. QED
    BY <2>1, Unrelated
<1>3. ASSUME NEW r \in Request, ProxyTimeout(r)
      PROVE  ApprovalInv'
  BY <1>3, Unrelated DEF ProxyTimeout, cluster, handler, history
<1>4. CASE Crash
  BY <1>4, Unrelated DEF Crash, cluster, history
<1>5. ASSUME NEW p \in Plan, OlmTouches(p)
      PROVE  ApprovalInv'
  BY <1>5 DEF OlmTouches, handler, history, ApprovalInv, ApprovalTypeOK,
              TouchedIsApproved, ListIsStaleOnceApproved, NoPlanApprovedTwice
<1>6. ASSUME NEW p \in Pod, PodMoves(p)
      PROVE  ApprovalInv'
  BY <1>6, Unrelated DEF PodMoves, handler, history
<1>7. CASE UNCHANGED vars
  BY <1>7, Unrelated DEF vars, cluster, handler, history
<1>8. QED
  BY <1>1, <1>2, <1>3, <1>4, <1>5, <1>6, <1>7, ListPlansApproval, TryPlanApproval,
     RestartApproval, SubscriptionApproval
  DEF Next, Handle

(* However many approvals race, stale lists, lost replies and crashes      *)
(* included, no InstallPlan is approved by two of them: the resourceVersion*)
(* that a handler holds for a plan approved since is always an old one.    *)
THEOREM ApprovedOnce == Spec => []NoPlanApprovedTwice
<1>1. ApprovalInv => NoPlanApprovedTwice
  BY DEF ApprovalInv
<1>2. QED
  BY InitApproval, NextApproval, <1>1, PTL DEF Spec

-----------------------------------------------------------------------------
(* One effect, one answer.                                                 *)

EffectTypeOK ==
  /\ pc \in [Request -> Place]
  /\ success \in [Request -> BOOLEAN]
  /\ acked \in [Request -> SUBSET (Plan \cup Pod \cup Sub)]
  /\ answer \in [Request -> {"none", "waiting", "ok", "failed", "refused", "gateway"}]

\* Where a goroutine is before its first success.
Early == {"idle", "refused", "list", "apply"}

OneEffect ==
  \A r \in Request : /\ pc[r] \in Early => acked[r] = {}
                     /\ success[r] <=> acked[r] # {}
                     /\ \A x, y \in acked[r] : x = y

AnsweredLast ==
  \A r \in Request : answer[r] \in {"ok", "failed"} =>
    /\ pc[r] \in {"done", "dead"}
    /\ answer[r] = "ok" => success[r]

EffectInv == EffectTypeOK /\ OneEffect /\ AnsweredLast

\* A goroutine moves on without a success, and without an answer.
LEMMA Advance ==
  ASSUME EffectInv, NEW r \in Request, NEW q \in Place,
         pc[r] \notin {"done", "dead"}, q \in Early => pc[r] \in Early,
         pc' = [pc EXCEPT ![r] = q], UNCHANGED <<success, acked, answer>>
  PROVE  EffectInv'
<1>1. EffectTypeOK'
  BY DEF EffectInv, EffectTypeOK
<1>2. OneEffect' /\ AnsweredLast'
  BY DEF EffectInv, EffectTypeOK, OneEffect, AnsweredLast
<1>3. QED
  BY <1>1, <1>2 DEF EffectInv

\* Its first success.
LEMMA Confirm ==
  ASSUME EffectInv, NEW r \in Request, NEW x \in Plan \cup Pod \cup Sub,
         pc[r] = "apply", Acknowledge(r, x), UNCHANGED answer
  PROVE  EffectInv'
<1>1. /\ acked' = [acked EXCEPT ![r] = {x}]
      /\ success' = [success EXCEPT ![r] = TRUE]
      /\ pc' = [pc EXCEPT ![r] = "record"]
  BY DEF Acknowledge, EffectInv, EffectTypeOK, OneEffect, Early
<1>2. EffectTypeOK'
  BY <1>1 DEF EffectInv, EffectTypeOK, Place
<1>3. OneEffect'
  BY <1>1 DEF EffectInv, EffectTypeOK, OneEffect, Early
<1>4. AnsweredLast'
  BY <1>1 DEF EffectInv, EffectTypeOK, AnsweredLast
<1>5. QED
  BY <1>2, <1>3, <1>4 DEF EffectInv

LEMMA StillEffect ==
  ASSUME EffectInv, UNCHANGED <<pc, success, acked, answer>>
  PROVE  EffectInv'
BY DEF EffectInv, EffectTypeOK, OneEffect, AnsweredLast

LEMMA FailEffect ==
  ASSUME EffectInv, NEW r \in Request, pc[r] \in {"list", "apply"}, Fail(r)
  PROVE  EffectInv'
BY Advance DEF Fail, Place, Early, history

LEMMA ListEffect ==
  ASSUME EffectInv, NEW r \in Request, ListPlans(r) \/ ListPods(r)
  PROVE  EffectInv'
<1>1. pc[r] = "list"
  BY DEF ListPlans, ListPods
<1>2. CASE Fail(r)
  BY <1>1, <1>2, FailEffect
<1>3. CASE ~Fail(r)
  <2>1. pc' = [pc EXCEPT ![r] = "apply"] /\ UNCHANGED <<success, acked, answer>>
    BY <1>3 DEF ListPlans, ListPods, history
  <2>2. QED
    BY <1>1, <2>1, Advance DEF Place, Early
<1>4. QED
  BY <1>2, <1>3

LEMMA ApplyEffect ==
  ASSUME EffectInv, ApprovalTypeOK, NEW r \in Request,
         TryPlan(r) \/ TryPod(r) \/ PurgeSubscription(r) \/ PatchChannel(r)
  PROVE  EffectInv'
<1>1. pc[r] = "apply" /\ UNCHANGED answer
  BY DEF TryPlan, TryPod, PurgeSubscription, PatchChannel
<1>2. CASE TryPlan(r) \/ TryPod(r)
  <2>1. \/ \E x \in Plan \cup Pod : Acknowledge(r, x)
        \/ UNCHANGED <<pc, success, acked>>
    BY <1>2 DEF TryPlan, TryPod, LoseReply
  <2>2. QED
    BY <1>1, <2>1, Confirm, StillEffect
<1>3. CASE PurgeSubscription(r) \/ PatchChannel(r)
  <2>1. ask[r].sub \in Sub
    BY <1>3, RequestAssumption
    DEF PurgeSubscription, PatchChannel, ApprovalTypeOK, NoAsk
  <2>2. \/ Acknowledge(r, ask[r].sub)
        \/ pc' = [pc EXCEPT ![r] = "record"] /\ UNCHANGED <<success, acked>>
    BY <1>3 DEF PurgeSubscription, PatchChannel, LoseReply
  <2>3. QED
    BY <1>1, <2>1, <2>2, Confirm, Advance DEF Place, Early
<1>4. QED
  BY <1>2, <1>3

LEMMA NextEffect == EffectInv /\ ApprovalTypeOK /\ [Next]_vars => EffectInv'
<1> SUFFICES ASSUME EffectInv, ApprovalTypeOK, [Next]_vars
             PROVE  EffectInv'
  OBVIOUS
<1>1. ASSUME NEW r \in Request, NEW a \in Offered, Submit(r, a)
      PROVE  EffectInv'
  BY <1>1 DEF Submit, history, EffectInv, EffectTypeOK, OneEffect, AnsweredLast, Place, Early
<1>2. ASSUME NEW r \in Request, Refuse(r)
      PROVE  EffectInv'
  BY <1>2 DEF Refuse, history, EffectInv, EffectTypeOK, OneEffect, AnsweredLast, Place, Early
<1>3. ASSUME NEW r \in Request, GiveUp(r)
      PROVE  EffectInv'
  BY <1>3, FailEffect DEF GiveUp
<1>4. ASSUME NEW r \in Request, Record(r)
      PROVE  EffectInv'
  <2>1. /\ pc[r] = "record" /\ pc' = [pc EXCEPT ![r] = "reply"]
        /\ UNCHANGED <<success, acked, answer>>
    BY <1>4 DEF Record, history
  <2>2. QED
    BY <2>1, Advance DEF Place, Early
<1>5. ASSUME NEW r \in Request, Reply(r)
      PROVE  EffectInv'
  <2>1. /\ pc[r] = "reply" /\ pc' = [pc EXCEPT ![r] = "done"]
        /\ UNCHANGED <<success, acked>>
        /\ \/ UNCHANGED answer
           \/ answer' = [answer EXCEPT ![r] = IF success[r] THEN "ok" ELSE "failed"]
    BY <1>5 DEF Reply, history, EffectInv, EffectTypeOK
  <2>2. QED
    BY <2>1 DEF EffectInv, EffectTypeOK, OneEffect, AnsweredLast, Place, Early
<1>6. ASSUME NEW r \in Request, ProxyTimeout(r)
      PROVE  EffectInv'
  BY <1>6 DEF ProxyTimeout, handler, history, EffectInv, EffectTypeOK, OneEffect, AnsweredLast
<1>7. CASE Crash
  <2>1. EffectTypeOK'
    BY <1>7 DEF Crash, history, EffectInv, EffectTypeOK, Place
  <2>2. \A r \in Request : pc'[r] \in Early => pc'[r] = pc[r]
    BY <1>7 DEF Crash, Early, EffectInv, EffectTypeOK
  <2>3. OneEffect'
    BY <1>7, <2>2 DEF Crash, history, EffectInv, OneEffect
  <2>4. AnsweredLast'
    BY <1>7 DEF Crash, EffectInv, EffectTypeOK, AnsweredLast
  <2>5. QED
    BY <2>1, <2>3, <2>4 DEF EffectInv
<1>8. CASE (\E p \in Plan : OlmTouches(p)) \/ (\E p \in Pod : PodMoves(p)) \/ UNCHANGED vars
  BY <1>8, StillEffect DEF OlmTouches, PodMoves, vars, handler, history
<1>9. QED
  BY <1>1, <1>2, <1>3, <1>4, <1>5, <1>6, <1>7, <1>8, ListEffect, ApplyEffect
  DEF Next, Handle

LEMMA InitEffect == Init => EffectInv
BY DEF Init, EffectInv, EffectTypeOK, OneEffect, AnsweredLast, Place, Early

LEMMA EffectInvariant == Spec => [](ApprovalTypeOK /\ EffectInv)
<1>1. ApprovalInv => ApprovalTypeOK
  BY DEF ApprovalInv
<1>2. QED
  BY InitApproval, NextApproval, InitEffect, NextEffect, <1>1, PTL DEF Spec

(* A request confirms at most one effect, and reports success exactly when *)
(* it confirmed one, for any number of requests, lost replies and crashes  *)
(* (remediation.go:201-205, main.go:189-196).                              *)
THEOREM OneEffectAlways == Spec => []OneConfirmedEffect
<1>1. EffectInv => OneConfirmedEffect
  <2> SUFFICES ASSUME EffectInv, NEW r \in Request
               PROVE  Cardinality(acked[r]) <= 1 /\ (success[r] <=> acked[r] # {})
    BY DEF OneConfirmedEffect
  <2>1. success[r] <=> acked[r] # {}
    BY DEF EffectInv, OneEffect
  <2>2. CASE acked[r] = {}
    BY <2>1, <2>2, FS_EmptySet
  <2>3. CASE acked[r] # {}
    <3>1. PICK x : acked[r] = {x}
      BY <2>3 DEF EffectInv, OneEffect
    <3>2. Cardinality(acked[r]) = 1
      BY <3>1, FS_Singleton
    <3>3. QED
      BY <2>1, <3>2
  <2>4. QED
    BY <2>2, <2>3
<1>2. QED
  BY <1>1, EffectInvariant, PTL

(* After an outcome that the user has read, a request touches nothing; of  *)
(* those that end in a 502 nothing is said (server.py:214-225).            *)
THEOREM AnswerIsAlwaysFinal == Spec => AnswerIsFinal
<1> DEFINE Final == \A r \in Request :
                      answer[r] \in {"ok", "failed"} => touched'[r] = touched[r]
<1>1. ApprovalTypeOK /\ EffectInv /\ [Next]_vars => [Final]_vars
  <2> SUFFICES ASSUME ApprovalTypeOK, EffectInv, Next, NEW r \in Request,
                      answer[r] \in {"ok", "failed"}
               PROVE  touched'[r] = touched[r]
    BY DEF vars
  <2>1. pc[r] # "apply"
    BY DEF EffectInv, AnsweredLast
  <2>2. ASSUME NEW q \in Request,
               TryPlan(q) \/ TryPod(q) \/ PurgeSubscription(q) \/ PatchChannel(q)
        PROVE  touched'[r] = touched[r]
    <3>1. q # r
      BY <2>1, <2>2 DEF TryPlan, TryPod, PurgeSubscription, PatchChannel
    <3>2. \/ UNCHANGED touched
          \/ \E x : touched' = [touched EXCEPT ![q] = @ \cup {x}]
      BY <2>2 DEF TryPlan, TryPod, PurgeSubscription, PatchChannel, Acknowledge, LoseReply
    <3>3. QED
      BY <3>1, <3>2 DEF ApprovalTypeOK
  <2>3. CASE ~\E q \in Request :
               TryPlan(q) \/ TryPod(q) \/ PurgeSubscription(q) \/ PatchChannel(q)
    <3>1. UNCHANGED touched
      BY <2>3 DEF Next, Handle, Submit, Refuse, ListPlans, ListPods, GiveUp, Fail, Record,
                  Reply, ProxyTimeout, Crash, OlmTouches, PodMoves, history
    <3>2. QED
      BY <3>1
  <2>4. QED
    BY <2>2, <2>3
<1>2. QED
  BY <1>1, EffectInvariant, PTL DEF Spec, AnswerIsFinal

-----------------------------------------------------------------------------
(* What is confirmed stays done.                                           *)

WorldTypeOK ==
  /\ subs \subseteq Sub
  /\ podState \in [Pod -> {"unborn", "running", "terminating", "gone"}]

\* A list holds objects of what was asked for only.
ListedIsAsked ==
  \A r \in Request :
    /\ pc[r] = "idle" => todo[r] = {}
    /\ ask[r].kind = "approve" =>
         \A p \in todo[r] : p \in Plan /\ NsOf[PlanOf[p]] = NsOf[ask[r].sub]
    /\ ask[r].kind = "restart" =>
         \A p \in todo[r] : p \in Pod /\ PodOf[p] = ask[r].sub

\* What request r confirmed holds in the cluster.
Holds(r) ==
  /\ ask[r].kind = "approve" =>
       \E p \in acked[r] : /\ p \in Plan /\ approved[p]
                           /\ NsOf[PlanOf[p]] = NsOf[ask[r].sub]
  /\ ask[r].kind = "restart" =>
       \E p \in acked[r] : /\ p \in Pod /\ PodOf[p] = ask[r].sub
                           /\ podState[p] \in {"terminating", "gone"}
  /\ ask[r].kind = "delete" => ask[r].sub \notin subs
  /\ ask[r].kind = "channel-change" => ask[r].sub \in acked[r]

ConfirmedHolds == \A r \in Request : acked[r] # {} => Holds(r)

DoneInv == WorldTypeOK /\ ListedIsAsked /\ ConfirmedHolds

Typed == ApprovalTypeOK /\ EffectInv

\* What an approval, a restart or a deletion brought about is never undone.
NothingUndone ==
  /\ \A p \in Plan : approved[p] => approved'[p]
  /\ \A p \in Pod : podState[p] \in {"terminating", "gone"} =>
                      podState'[p] \in {"terminating", "gone"}
  /\ subs' \subseteq subs

\* Steps that confirm nothing.
LEMMA StillHolds ==
  ASSUME ConfirmedHolds, NothingUndone, NEW r \in Request,
         ask'[r] = ask[r], acked'[r] = acked[r], acked[r] # {}
  PROVE  Holds(r)'
<1>1. Holds(r)
  BY DEF ConfirmedHolds
<1>2. QED
  BY <1>1 DEF Holds, NothingUndone

LEMMA OthersHold ==
  ASSUME DoneInv, NothingUndone, WorldTypeOK', ListedIsAsked',
         \A r \in Request : acked'[r] # {} =>
           (ask'[r] = ask[r] /\ acked'[r] = acked[r]) \/ Holds(r)'
  PROVE  DoneInv'
<1>1. ConfirmedHolds'
  BY StillHolds DEF DoneInv, ConfirmedHolds
<1>2. QED
  BY <1>1 DEF DoneInv

\* Steps of the handlers and the user that leave the cluster alone.
LEMMA SubmitDone ==
  ASSUME Typed, DoneInv, NEW r \in Request, NEW a \in Offered, Submit(r, a)
  PROVE  DoneInv'
<1>1. /\ pc[r] = "idle"
      /\ pc' = [pc EXCEPT ![r] = IF a.kind \in {"approve", "restart"} THEN "list" ELSE "apply"]
      /\ ask' = [ask EXCEPT ![r] = a]
      /\ UNCHANGED <<subs, approved, podState, todo, acked>>
  BY DEF Submit, cluster, history
<1>2. acked[r] = {} /\ todo[r] = {}
  BY <1>1 DEF Typed, EffectInv, OneEffect, Early, DoneInv, ListedIsAsked
<1>3. WorldTypeOK' /\ NothingUndone
  BY <1>1 DEF DoneInv, WorldTypeOK, NothingUndone
<1>4. ListedIsAsked'
  BY <1>1, <1>2 DEF Typed, ApprovalTypeOK, EffectInv, EffectTypeOK, DoneInv, ListedIsAsked
<1>5. \A q \in Request : acked'[q] # {} => ask'[q] = ask[q] /\ acked'[q] = acked[q]
  BY <1>1, <1>2 DEF Typed, ApprovalTypeOK
<1>6. QED
  BY <1>3, <1>4, <1>5, OthersHold

LEMMA QuietDone ==
  ASSUME DoneInv, UNCHANGED <<subs, approved, podState, ask, todo, acked>>,
         \A r \in Request : pc'[r] = "idle" => pc[r] = "idle"
  PROVE  DoneInv'
<1>1. WorldTypeOK' /\ NothingUndone
  BY DEF DoneInv, WorldTypeOK, NothingUndone
<1>2. ListedIsAsked'
  BY DEF DoneInv, ListedIsAsked
<1>3. QED
  BY <1>1, <1>2, OthersHold

LEMMA ListDone ==
  ASSUME Typed, DoneInv, NEW r \in Request, ListPlans(r) \/ ListPods(r), ~Fail(r)
  PROVE  DoneInv'
<1>1. /\ pc' = [pc EXCEPT ![r] = "apply"]
      /\ UNCHANGED <<subs, approved, podState, ask, acked>>
  BY DEF ListPlans, ListPods, cluster, history
<1>2. WorldTypeOK' /\ NothingUndone
  BY <1>1 DEF DoneInv, WorldTypeOK, NothingUndone
<1>3. ListedIsAsked'
  BY <1>1 DEF ListPlans, ListPods, Typed, ApprovalTypeOK, EffectInv, EffectTypeOK,
              DoneInv, ListedIsAsked
<1>4. QED
  BY <1>1, <1>2, <1>3, OthersHold

\* The lists get shorter.
LEMMA TriedKeepsAsked ==
  ASSUME Typed, ListedIsAsked, NEW r \in Request, NEW x, Tried(r, x), UNCHANGED ask,
         \A q \in Request : pc'[q] = "idle" => pc[q] = "idle"
  PROVE  ListedIsAsked'
BY DEF Tried, Typed, ApprovalTypeOK, ListedIsAsked

LEMMA TryPlanDone ==
  ASSUME Typed, DoneInv, NEW r \in Request, TryPlan(r)
  PROVE  DoneInv'
<1>1. PICK p \in Plan :
        /\ IsNext(r, p)
        /\ Tried(r, p)
        /\ \/ AcceptUpdate(r, p) /\ Acknowledge(r, p)
           \/ AcceptUpdate(r, p) /\ LoseReply(r, p) /\ UNCHANGED pc
           \/ UNCHANGED <<approved, revision, touched, acked, success, pc>>
  BY DEF TryPlan
<1>2. /\ ask[r].kind = "approve" /\ UNCHANGED <<subs, podState, ask>>
      /\ NsOf[PlanOf[p]] = NsOf[ask[r].sub]
  BY <1>1 DEF TryPlan, IsNext, DoneInv, ListedIsAsked
<1>3. approved' = approved \/ approved' = [approved EXCEPT ![p] = TRUE]
  BY <1>1 DEF AcceptUpdate
<1>4. WorldTypeOK' /\ NothingUndone
  BY <1>2, <1>3 DEF DoneInv, WorldTypeOK, NothingUndone, Typed, ApprovalTypeOK
<1>5. \A q \in Request : pc'[q] = "idle" => pc[q] = "idle"
  BY <1>1 DEF Acknowledge, Typed, EffectInv, EffectTypeOK
<1>6. ListedIsAsked'
  BY <1>1, <1>2, <1>5, TriedKeepsAsked DEF DoneInv
<1>7. CASE UNCHANGED acked
  BY <1>2, <1>4, <1>6, <1>7, OthersHold
<1>8. CASE AcceptUpdate(r, p) /\ Acknowledge(r, p)
  <2>1. acked' = [acked EXCEPT ![r] = @ \cup {p}] /\ approved'[p] = TRUE
    BY <1>8 DEF Acknowledge, AcceptUpdate, Typed, ApprovalTypeOK
  <2>2. p \in acked'[r] /\ \A q \in Request \ {r} : acked'[q] = acked[q]
    BY <2>1 DEF Typed, EffectInv, EffectTypeOK
  <2>3. Holds(r)'
    BY <1>2, <2>1, <2>2 DEF Holds
  <2>4. QED
    BY <1>2, <1>4, <1>6, <2>2, <2>3, OthersHold
<1>9. QED
  BY <1>1, <1>7, <1>8 DEF LoseReply

LEMMA TryPodDone ==
  ASSUME Typed, DoneInv, NEW r \in Request, TryPod(r)
  PROVE  DoneInv'
<1>1. PICK p \in Pod :
        /\ IsNext(r, p)
        /\ Tried(r, p)
        /\ \/ AcceptEviction(p) /\ Acknowledge(r, p)
           \/ AcceptEviction(p) /\ LoseReply(r, p) /\ UNCHANGED pc
           \/ UNCHANGED <<podState, touched, acked, success, pc>>
  BY DEF TryPod
<1>2. /\ ask[r].kind = "restart" /\ UNCHANGED <<subs, approved, ask>>
      /\ PodOf[p] = ask[r].sub
  BY <1>1 DEF TryPod, IsNext, DoneInv, ListedIsAsked
<1>3. podState' = podState \/ podState' = [podState EXCEPT ![p] = "terminating"]
  BY <1>1 DEF AcceptEviction
<1>4. WorldTypeOK' /\ NothingUndone
  BY <1>2, <1>3 DEF DoneInv, WorldTypeOK, NothingUndone
<1>5. \A q \in Request : pc'[q] = "idle" => pc[q] = "idle"
  BY <1>1 DEF Acknowledge, Typed, EffectInv, EffectTypeOK
<1>6. ListedIsAsked'
  BY <1>1, <1>2, <1>5, TriedKeepsAsked DEF DoneInv
<1>7. CASE UNCHANGED acked
  BY <1>2, <1>4, <1>6, <1>7, OthersHold
<1>8. CASE AcceptEviction(p) /\ Acknowledge(r, p)
  <2>1. acked' = [acked EXCEPT ![r] = @ \cup {p}] /\ podState'[p] = "terminating"
    BY <1>8 DEF Acknowledge, AcceptEviction, DoneInv, WorldTypeOK
  <2>2. p \in acked'[r] /\ \A q \in Request \ {r} : acked'[q] = acked[q]
    BY <2>1 DEF Typed, EffectInv, EffectTypeOK
  <2>3. Holds(r)'
    BY <1>2, <2>1, <2>2 DEF Holds
  <2>4. QED
    BY <1>2, <1>4, <1>6, <2>2, <2>3, OthersHold
<1>9. QED
  BY <1>1, <1>7, <1>8 DEF LoseReply

LEMMA SubscriptionDone ==
  ASSUME Typed, DoneInv, NEW r \in Request, PurgeSubscription(r) \/ PatchChannel(r)
  PROVE  DoneInv'
<1> DEFINE sub == ask[r].sub
<1>1. /\ UNCHANGED <<approved, podState, ask, todo>>
      /\ subs' \subseteq subs
  BY DEF PurgeSubscription, PatchChannel, AcceptPurge
<1>2. WorldTypeOK' /\ NothingUndone
  BY <1>1 DEF DoneInv, WorldTypeOK, NothingUndone
<1>3. \A q \in Request : pc'[q] = "idle" => pc[q] = "idle"
  BY DEF PurgeSubscription, PatchChannel, Acknowledge, Typed, EffectInv, EffectTypeOK
<1>4. ListedIsAsked'
  BY <1>1, <1>3 DEF DoneInv, ListedIsAsked
<1>5. CASE UNCHANGED acked
  BY <1>1, <1>2, <1>4, <1>5, OthersHold
<1>6. CASE Acknowledge(r, sub)
  <2>1. sub \in acked'[r] /\ \A q \in Request \ {r} : acked'[q] = acked[q]
    BY <1>6 DEF Acknowledge, Typed, EffectInv, EffectTypeOK
  <2>2. /\ ask[r].kind = "delete" /\ sub \notin subs'
        \/ ask[r].kind = "channel-change"
    <3>1. CASE PurgeSubscription(r)
      <4>1. acked' # acked
        BY <2>1 DEF PurgeSubscription, Typed, EffectInv, OneEffect, Early, PatchChannel
      <4>2. QED
        BY <3>1, <4>1 DEF PurgeSubscription, AcceptPurge, LoseReply
    <3>2. CASE PatchChannel(r)
      BY <3>2 DEF PatchChannel
    <3>3. QED
      BY <3>1, <3>2
  <2>3. Holds(r)'
    BY <1>1, <2>1, <2>2 DEF Holds
  <2>4. QED
    BY <1>1, <1>2, <1>4, <2>1, <2>3, OthersHold
<1>7. QED
  BY <1>5, <1>6 DEF PurgeSubscription, PatchChannel, LoseReply

LEMMA NextDone == DoneInv /\ Typed /\ [Next]_vars => DoneInv'
<1> SUFFICES ASSUME DoneInv, Typed, [Next]_vars
             PROVE  DoneInv'
  OBVIOUS
<1>1. ASSUME NEW r \in Request, Fail(r), pc[r] # "idle"
      PROVE  DoneInv'
  BY <1>1, QuietDone DEF Fail, cluster, history, Typed, EffectInv, EffectTypeOK
<1>2. ASSUME NEW r \in Request, ListPlans(r) \/ ListPods(r)
      PROVE  DoneInv'
  <2>1. pc[r] # "idle"
    BY <1>2 DEF ListPlans, ListPods
  <2>2. QED
    BY <1>1, <1>2, <2>1, ListDone
<1>3. ASSUME NEW r \in Request, GiveUp(r)
      PROVE  DoneInv'
  BY <1>1, <1>3 DEF GiveUp
<1>4. ASSUME NEW r \in Request, Refuse(r) \/ Record(r) \/ Reply(r)
      PROVE  DoneInv'
  BY <1>4, QuietDone DEF Refuse, Record, Reply, cluster, history, Typed, EffectInv, EffectTypeOK
<1>5. CASE \/ \E r \in Request : ProxyTimeout(r)
           \/ \E p \in Plan : OlmTouches(p)
           \/ UNCHANGED vars
  BY <1>5, QuietDone DEF ProxyTimeout, OlmTouches, vars, cluster, handler, history
<1>6. CASE Crash
  BY <1>6, QuietDone DEF Crash, cluster, history, Typed, EffectInv, EffectTypeOK
<1>7. ASSUME NEW p \in Pod, PodMoves(p)
      PROVE  DoneInv'
  <2>1. UNCHANGED <<subs, approved, ask, todo, acked, pc>>
    BY <1>7 DEF PodMoves, handler, history
  <2>2. WorldTypeOK' /\ NothingUndone
    BY <1>7, <2>1 DEF PodMoves, DoneInv, WorldTypeOK, NothingUndone
  <2>3. ListedIsAsked'
    BY <2>1 DEF DoneInv, ListedIsAsked
  <2>4. QED
    BY <2>1, <2>2, <2>3, OthersHold
<1>8. QED
  BY <1>2, <1>3, <1>4, <1>5, <1>6, <1>7, SubmitDone, TryPlanDone, TryPodDone, SubscriptionDone
  DEF Next, Handle

LEMMA InitDone == Init => DoneInv
BY DEF Init, NoAsk, DoneInv, WorldTypeOK, ListedIsAsked, ConfirmedHolds

(* What the user is told was done is done, and stays so: an approved       *)
(* InstallPlan of the namespace, a stopped pod of the operator, a          *)
(* Subscription that is gone (remediation.go:175-260, main.go:175-225).    *)
THEOREM OkIsAlwaysTrue == Spec => []OkMeansDone
<1>1. Typed /\ DoneInv => OkMeansDone
  BY DEF Typed, EffectInv, OneEffect, AnsweredLast, DoneInv, ConfirmedHolds, Holds, OkMeansDone
<1>2. ApprovalTypeOK /\ EffectInv <=> Typed
  BY DEF Typed
<1>3. QED
  BY <1>1, <1>2, EffectInvariant, InitDone, NextDone, PTL DEF Spec

-----------------------------------------------------------------------------
(* The audit log that the requests share.                                  *)

\* Whose outcome is in the journal: those that have recorded it.
HasRecorded(r) == pc[r] \in {"reply", "done"}

\* by[i] is the request that wrote the entry i.
Wrote(by) ==
  /\ \A i, j \in DOMAIN journal : by[i] = by[j] => i = j
  /\ \A i \in DOMAIN journal : HasRecorded(by[i]) /\ journal[i] = Outcome(by[i])
  /\ \A r \in Request : HasRecorded(r) => \E i \in DOMAIN journal : by[i] = r

JournalInv ==
  /\ auditLog \in Seq(Audit!Event) /\ Len(auditLog) <= Capacity
  /\ journal \in Seq(Audit!Event)
  /\ \A r \in Request : pc[r] \notin {"idle", "refused"} => ask[r] \in Offered
  /\ \E by \in [DOMAIN journal -> Request] : Wrote(by)

LEMMA InitJournal == Init => JournalInv
<1> SUFFICES ASSUME Init
             PROVE  JournalInv
  OBVIOUS
<1>1. journal = <<>> /\ auditLog = <<>> /\ DOMAIN journal = {}
  BY DEF Init
<1>2. <<>> \in Seq(Audit!Event) /\ Len(<<>>) = 0
  OBVIOUS
<1>3. [i \in {} |-> i] \in [DOMAIN journal -> Request] /\ Wrote([i \in {} |-> i])
  BY <1>1 DEF Wrote, HasRecorded, Init
<1>4. \E by \in [DOMAIN journal -> Request] : Wrote(by)
  BY <1>3, Zenon
<1>5. \A r \in Request : pc[r] = "idle"
  BY DEF Init
<1>6. auditLog \in Seq(Audit!Event) /\ journal \in Seq(Audit!Event) /\ Len(auditLog) <= Capacity
  BY <1>1, <1>2, BoundAssumption
<1>7. QED
  BY <1>4, <1>5, <1>6 DEF JournalInv

\* What is recorded is an event.
LEMMA OutcomeIsEvent ==
  ASSUME Typed, NEW r \in Request, ask[r] \in Offered
  PROVE  Outcome(r) \in Audit!Event
<1>1. /\ ask[r].kind \in Audit!Kind /\ ask[r].sub \in Sub
      /\ ask[r].channel \in Channel \cup {NoChannel}
  BY RequestAssumption DEF Audit!Kind
<1>2. NsOf[ask[r].sub] \in Namespace /\ success[r] \in BOOLEAN
  BY <1>1, ClusterAssumption DEF Typed, EffectInv, EffectTypeOK
<1>3. QED
  BY <1>1, <1>2 DEF Outcome, Audit!Event

\* A step of one request that neither records nor loses what was recorded.
LEMMA NothingRecorded ==
  ASSUME JournalInv, NEW r \in Request, ~HasRecorded(r), ~HasRecorded(r)',
         pc'[r] \notin {"idle", "refused"} => ask'[r] \in Offered,
         \A q \in Request \ {r} : pc'[q] = pc[q] /\ ask'[q] = ask[q] /\ success'[q] = success[q],
         UNCHANGED audit
  PROVE  JournalInv'
<1>1. PICK by \in [DOMAIN journal -> Request] : Wrote(by)
  BY DEF JournalInv
<1>2. UNCHANGED <<auditLog, journal>>
  BY DEF audit
<1>3. \A i \in DOMAIN journal : by[i] \in Request \ {r}
  BY <1>1 DEF Wrote
<1>4. \A q \in Request \ {r} : (HasRecorded(q)' <=> HasRecorded(q)) /\ Outcome(q)' = Outcome(q)
  BY DEF HasRecorded, Outcome
<1>5. Wrote(by)'
  BY <1>1, <1>2, <1>3, <1>4 DEF Wrote
<1>6. QED
  BY <1>1, <1>2, <1>5 DEF JournalInv

LEMMA RecordJournal ==
  ASSUME Typed, JournalInv, NEW r \in Request, Record(r)
  PROVE  JournalInv' /\ Audit!RecordAudit(Outcome(r)) /\ Outcome(r) \in Audit!Event
<1> USE BoundAssumption
<1>1. /\ pc[r] = "record" /\ pc' = [pc EXCEPT ![r] = "reply"]
      /\ auditLog' = Audit!Truncate(Append(auditLog, Outcome(r)))
      /\ journal' = Append(journal, Outcome(r))
      /\ UNCHANGED <<ask, success>>
  BY DEF Record, Audit!RecordAudit
<1>2. ask[r] \in Offered
  BY <1>1 DEF JournalInv
<1>3. Outcome(r) \in Audit!Event
  BY <1>2, OutcomeIsEvent
<1>4. /\ journal' \in Seq(Audit!Event) /\ Len(journal) \in Nat
      /\ DOMAIN journal = 1..Len(journal) /\ DOMAIN journal' = 1..(Len(journal) + 1)
      /\ \A i \in DOMAIN journal : journal'[i] = journal[i]
      /\ journal'[Len(journal) + 1] = Outcome(r)
  <2>1. journal \in Seq(Audit!Event)
    BY DEF JournalInv
  <2>2. QED
    BY <1>1, <1>3, <2>1, AppendProperties
<1>5. auditLog' \in Seq(Audit!Event) /\ Len(auditLog') <= Capacity
  <2>1. auditLog \in Seq(Audit!Event)
    BY DEF JournalInv
  <2> DEFINE s == Append(auditLog, Outcome(r))
  <2>2. s \in Seq(Audit!Event) /\ Len(s) \in Nat
    BY <1>3, <2>1
  <2>3. Audit!Truncate(s) \in Seq(Audit!Event) /\ Len(Audit!Truncate(s)) <= Capacity
    <3> HIDE DEF s
    <3> QED
      BY <2>2 DEF Audit!Truncate
  <2>4. QED
    BY <1>1, <2>3
<1>6. PICK by \in [DOMAIN journal -> Request] : Wrote(by)
  BY DEF JournalInv
<1>7. PICK after \in [DOMAIN journal' -> Request] :
        /\ \A i \in DOMAIN journal : after[i] = by[i]
        /\ after[Len(journal) + 1] = r
  <2> DEFINE f == [i \in DOMAIN journal' |-> IF i \in DOMAIN journal THEN by[i] ELSE r]
  <2>1. f \in [DOMAIN journal' -> Request]
    OBVIOUS
  <2>2. (\A i \in DOMAIN journal : f[i] = by[i]) /\ f[Len(journal) + 1] = r
    BY <1>4
  <2>3. QED
    BY <2>1, <2>2
<1>8. /\ \A i \in DOMAIN journal : i \in DOMAIN journal' /\ by[i] # r
      /\ \A i \in DOMAIN journal' : i \in DOMAIN journal \/ i = Len(journal) + 1
      /\ Len(journal) + 1 \in DOMAIN journal'
      /\ Len(journal) + 1 \notin DOMAIN journal
  BY <1>1, <1>4, <1>6 DEF Wrote, HasRecorded
<1>9. /\ \A q \in Request : HasRecorded(q)' <=> HasRecorded(q) \/ q = r
      /\ \A q \in Request : Outcome(q)' = Outcome(q)
  BY <1>1 DEF HasRecorded, Outcome, Typed, EffectInv, EffectTypeOK
<1>10. Wrote(after)'
  <2>1. \A i, j \in DOMAIN journal' : after[i] = after[j] => i = j
    BY <1>6, <1>7, <1>8 DEF Wrote
  <2>2. \A i \in DOMAIN journal' : HasRecorded(after[i])' /\ journal'[i] = Outcome(after[i])'
    <3>1. ASSUME NEW i \in DOMAIN journal
          PROVE  HasRecorded(after[i])' /\ journal'[i] = Outcome(after[i])'
      <4>1. after[i] = by[i] /\ by[i] \in Request /\ HasRecorded(by[i])
            /\ journal[i] = Outcome(by[i])
        BY <1>6, <1>7, <1>8 DEF Wrote
      <4>2. HasRecorded(by[i])' /\ journal'[i] = Outcome(by[i])'
        BY <1>4, <1>9, <4>1
      <4>3. QED
        BY <4>1, <4>2
    <3>2. HasRecorded(r)' /\ journal'[Len(journal) + 1] = Outcome(r)'
      BY <1>4, <1>7, <1>9
    <3>3. QED
      BY <1>7, <1>8, <3>1, <3>2
  <2>3. ASSUME NEW q \in Request, HasRecorded(q)'
        PROVE  \E i \in DOMAIN journal' : after[i] = q
    BY <1>6, <1>7, <1>8, <1>9, <2>3 DEF Wrote
  <2>4. QED
    BY <2>1, <2>2, <2>3 DEF Wrote
<1>11. \A q \in Request : pc'[q] \notin {"idle", "refused"} => ask'[q] \in Offered
  BY <1>1 DEF JournalInv, Typed, EffectInv, EffectTypeOK
<1>12. (\E w \in [DOMAIN journal -> Request] : Wrote(w))'
  BY <1>10, Zenon
<1>13. JournalInv'
  BY <1>4, <1>5, <1>11, <1>12 DEF JournalInv
<1>14. QED
  BY <1>3, <1>13 DEF Record

\* A restart loses the log, and the requests that were in it.
LEMMA CrashJournal ==
  ASSUME Typed, JournalInv, Crash
  PROVE  JournalInv'
<1>1. /\ auditLog' = <<>> /\ journal' = <<>>
      /\ pc' = [r \in Request |-> IF pc[r] \in {"idle", "refused"} THEN pc[r] ELSE "dead"]
      /\ UNCHANGED ask
  BY DEF Crash, Audit!Restart
<1>2. DOMAIN journal' = {} /\ <<>> \in Seq(Audit!Event) /\ Len(<<>>) = 0
  BY <1>1
<1>3. \A r \in Request : pc'[r] \notin {"reply", "done"}
  BY <1>1
<1>4. [i \in {} |-> i] \in [DOMAIN journal' -> Request] /\ Wrote([i \in {} |-> i])'
  BY <1>2, <1>3 DEF Wrote, HasRecorded
<1>5. (\E by \in [DOMAIN journal -> Request] : Wrote(by))'
  BY <1>4, Zenon
<1>6. \A r \in Request : pc'[r] \notin {"idle", "refused"} => ask'[r] \in Offered
  BY <1>1 DEF JournalInv
<1>7. auditLog' \in Seq(Audit!Event) /\ journal' \in Seq(Audit!Event) /\ Len(auditLog') <= Capacity
  BY <1>1, <1>2, BoundAssumption
<1>8. QED
  BY <1>5, <1>6, <1>7 DEF JournalInv

\* Every other step of a request keeps to that request and off the log.
LEMMA NextJournal ==
  ASSUME Typed, JournalInv, [Next]_vars
  PROVE  /\ JournalInv'
         /\ \/ \E r \in Request : Record(r)
            \/ Crash
            \/ UNCHANGED audit
<1> DEFINE Quiet(r) ==
      /\ ~HasRecorded(r) /\ ~HasRecorded(r)'
      /\ pc'[r] \notin {"idle", "refused"} => ask'[r] \in Offered
      /\ \A q \in Request \ {r} : pc'[q] = pc[q] /\ ask'[q] = ask[q] /\ success'[q] = success[q]
      /\ UNCHANGED audit
<1> USE DEF Typed, EffectInv, EffectTypeOK, ApprovalTypeOK
<1>1. ASSUME NEW r \in Request, Quiet(r)
      PROVE  JournalInv' /\ UNCHANGED audit
  BY <1>1, NothingRecorded
<1>2. ASSUME NEW r \in Request, NEW a \in Offered, Submit(r, a)
      PROVE  Quiet(r)
  <2>1. /\ pc[r] = "idle"
        /\ pc' = [pc EXCEPT ![r] = IF a.kind \in {"approve", "restart"} THEN "list" ELSE "apply"]
        /\ ask' = [ask EXCEPT ![r] = a]
        /\ UNCHANGED <<success, audit>>
    BY <1>2 DEF Submit
  <2>2. QED
    BY <2>1 DEF HasRecorded
<1>3. ASSUME NEW r \in Request, Refuse(r)
      PROVE  Quiet(r)
  BY <1>3 DEF Refuse, HasRecorded
<1>4. ASSUME NEW r \in Request, Fail(r), pc[r] \in {"list", "apply"}
      PROVE  Quiet(r)
  BY <1>4 DEF Fail, HasRecorded, JournalInv
<1>5. ASSUME NEW r \in Request, ListPlans(r) \/ ListPods(r)
      PROVE  Quiet(r)
  <2>1. pc[r] = "list"
    BY <1>5 DEF ListPlans, ListPods
  <2>2. CASE ~Fail(r)
    <3>1. pc' = [pc EXCEPT ![r] = "apply"] /\ UNCHANGED <<ask, success, audit>>
      BY <1>5, <2>2 DEF ListPlans, ListPods
    <3>2. QED
      BY <2>1, <3>1 DEF HasRecorded, JournalInv
  <2>3. QED
    BY <1>4, <2>1, <2>2
<1>6. ASSUME NEW r \in Request,
             TryPlan(r) \/ TryPod(r) \/ PurgeSubscription(r) \/ PatchChannel(r)
      PROVE  Quiet(r)
  <2>1. /\ pc[r] = "apply" /\ UNCHANGED <<ask, audit>>
        /\ pc' = [pc EXCEPT ![r] = "record"] \/ UNCHANGED pc
        /\ success' = [success EXCEPT ![r] = TRUE] \/ UNCHANGED success
    BY <1>6 DEF TryPlan, TryPod, PurgeSubscription, PatchChannel, Acknowledge, LoseReply
  <2>2. QED
    BY <2>1 DEF HasRecorded, JournalInv
<1>7. ASSUME NEW r \in Request, GiveUp(r)
      PROVE  Quiet(r)
  BY <1>4, <1>7 DEF GiveUp
<1>8. ASSUME UNCHANGED <<ask, success, audit>>, \A r \in Request : HasRecorded(r)' <=> HasRecorded(r),
             \A r \in Request : pc'[r] \notin {"idle", "refused"} => pc[r] \notin {"idle", "refused"}
      PROVE  JournalInv'
  <2>1. PICK by \in [DOMAIN journal -> Request] : Wrote(by)
    BY DEF JournalInv
  <2>2. UNCHANGED <<auditLog, journal>> /\ \A r \in Request : Outcome(r)' = Outcome(r)
    BY <1>8 DEF audit, Outcome
  <2>3. Wrote(by)'
    BY <1>8, <2>1, <2>2 DEF Wrote
  <2>4. QED
    BY <1>8, <2>2, <2>3 DEF JournalInv
<1>9. ASSUME NEW r \in Request, Reply(r)
      PROVE  JournalInv' /\ UNCHANGED audit
  <2>1. /\ pc[r] = "reply" /\ pc' = [pc EXCEPT ![r] = "done"]
        /\ UNCHANGED <<ask, success, audit>>
    BY <1>9 DEF Reply
  <2>2. QED
    BY <1>8, <2>1 DEF HasRecorded
<1>10. CASE \/ \E r \in Request : ProxyTimeout(r)
            \/ \E p \in Plan : OlmTouches(p)
            \/ \E p \in Pod : PodMoves(p)
            \/ UNCHANGED vars
  <2>1. UNCHANGED <<pc, ask, success, audit>>
    BY <1>10 DEF ProxyTimeout, OlmTouches, PodMoves, vars, handler
  <2>2. QED
    BY <1>8, <2>1 DEF HasRecorded
<1> HIDE DEF Quiet, Typed
<1>11. QED
  BY <1>1, <1>2, <1>3, <1>5, <1>6, <1>7, <1>9, <1>10, RecordJournal, CrashJournal
  DEF Next, Handle

LEMMA JournalInvariant == Spec => [](Typed /\ JournalInv)
<1>1. ApprovalTypeOK /\ EffectInv <=> Typed
  BY DEF Typed
<1>2. Typed /\ JournalInv /\ [Next]_vars => JournalInv'
  BY NextJournal
<1>3. QED
  BY <1>1, <1>2, EffectInvariant, InitJournal, PTL DEF Spec

(* Every handled request is in the journal exactly once and with its       *)
(* outcome, the error paths included, and nobody else is: the entries are  *)
(* in a one-to-one relation with the requests that have recorded           *)
(* (main.go:159, 199, 224, 305, 313).                                      *)
THEOREM ExactlyOnceAlways == Spec => []ExactlyOnceAudit
<1>1. JournalInv => ExactlyOnceAudit
  <2> SUFFICES ASSUME JournalInv, NEW e
               PROVE  Cardinality({i \in DOMAIN journal : journal[i] = e})
                        = Cardinality({r \in {q \in Request : HasRecorded(q)} : Outcome(r) = e})
    BY DEF ExactlyOnceAudit, HasRecorded
  <2>1. PICK by \in [DOMAIN journal -> Request] : Wrote(by)
    BY DEF JournalInv
  <2> DEFINE S == {i \in DOMAIN journal : journal[i] = e}
             T == {r \in {q \in Request : HasRecorded(q)} : Outcome(r) = e}
             f == [i \in S |-> by[i]]
  <2>2. IsFiniteSet(S)
    <3>1. DOMAIN journal = 1..Len(journal) /\ Len(journal) \in Nat
      BY DEF JournalInv
    <3>2. IsFiniteSet(1..Len(journal))
      BY <3>1, FS_Interval
    <3>3. QED
      BY <3>1, <3>2, FS_Subset
  <2>3. f \in Bijection(S, T)
    <3>1. f \in [S -> T]
      BY <2>1 DEF Wrote
    <3>2. \A i, j \in S : f[i] = f[j] => i = j
      BY <2>1 DEF Wrote
    <3>3. \A r \in T : \E i \in S : f[i] = r
      BY <2>1 DEF Wrote
    <3>4. QED
      <4> HIDE DEF S, T, f
      <4> QED
        BY <3>1, <3>2, <3>3 DEF Bijection, Injection, Surjection, IsInjective
  <2>4. ExistsBijection(S, T)
    BY <2>3 DEF ExistsBijection
  <2>5. QED
    <3> HIDE DEF S, T
    <3>1. Cardinality(T) = Cardinality(S)
      BY <2>2, <2>4, FS_Bijection
    <3>2. QED
      BY <3>1 DEF S, T
<1>2. QED
  BY <1>1, JournalInvariant, PTL

-----------------------------------------------------------------------------
(* What changed, and who asked for it.                                     *)

TraceInv ==
  /\ crashes \in Nat
  /\ \A x \in Changed : \E r \in Request : x \in touched[r]
  /\ \A r \in Request :
       /\ \A x \in touched[r] : Asked(r, x)
       /\ touched[r] # {} => pc[r] \in {"apply", "record", "reply", "done", "dead"}
       /\ pc[r] = "dead" => crashes > 0

\* A step that touches nothing.
LEMMA NothingTouched ==
  ASSUME TraceInv, UNCHANGED touched, crashes' \in Nat, crashes' >= crashes,
         Changed' \subseteq Changed,
         \A r \in Request : touched[r] # {} => ask'[r] = ask[r],
         \A r \in Request : pc'[r] # pc[r] =>
           \/ touched[r] = {} /\ pc'[r] # "dead"
           \/ pc'[r] \in {"apply", "record", "reply", "done"}
           \/ pc'[r] = "dead" /\ crashes' > 0
  PROVE  TraceInv'
BY DEF TraceInv, Asked

\* A step that touches an object for the request that asked for it.
LEMMA OneTouched ==
  ASSUME TraceInv, Typed, NEW r \in Request, NEW x, pc[r] = "apply", Asked(r, x),
         x \in Plan \cup Pod \cup Sub,
         touched' = [touched EXCEPT ![r] = @ \cup {x}], UNCHANGED <<ask, crashes>>,
         Changed' \subseteq Changed \cup {x},
         pc' = pc \/ pc' = [pc EXCEPT ![r] = "record"]
  PROVE  TraceInv'
<1>1. /\ touched'[r] = touched[r] \cup {x}
      /\ \A q \in Request \ {r} : touched'[q] = touched[q]
  BY DEF Typed, ApprovalTypeOK
<1>2. /\ pc'[r] \in {"apply", "record"}
      /\ \A q \in Request \ {r} : pc'[q] = pc[q]
  BY DEF Typed, EffectInv, EffectTypeOK
<1>3. \A y \in Changed' : \E q \in Request : y \in touched'[q]
  BY <1>1 DEF TraceInv
<1>4. ASSUME NEW q \in Request
      PROVE  \A y \in touched'[q] : Asked(q, y)'
  BY <1>1 DEF TraceInv, Asked
<1>5. QED
  BY <1>1, <1>2, <1>3, <1>4 DEF TraceInv

LEMMA TryTrace ==
  ASSUME TraceInv, Typed, DoneInv, NEW r \in Request, TryPlan(r) \/ TryPod(r)
  PROVE  TraceInv'
<1>1. CASE TryPlan(r)
  <2>1. PICK p \in Plan :
          /\ IsNext(r, p)
          /\ \/ AcceptUpdate(r, p) /\ Acknowledge(r, p)
             \/ AcceptUpdate(r, p) /\ LoseReply(r, p) /\ UNCHANGED pc
             \/ UNCHANGED <<approved, revision, touched, acked, success, pc>>
    BY <1>1 DEF TryPlan
  <2>2. /\ pc[r] = "apply" /\ UNCHANGED <<subs, podState, ask, crashes>>
        /\ Asked(r, p)
    BY <1>1, <2>1 DEF TryPlan, IsNext, DoneInv, ListedIsAsked, Asked
  <2>3. CASE UNCHANGED <<approved, touched, pc>>
    BY <2>2, <2>3, NothingTouched DEF Changed, TraceInv
  <2>4. CASE approved' = [approved EXCEPT ![p] = TRUE]
    <3>1. Changed' \subseteq Changed \cup {p}
      BY <2>2, <2>4 DEF Changed, Typed, ApprovalTypeOK
    <3>2. QED
      BY <2>1, <2>2, <2>3, <3>1, OneTouched DEF Acknowledge, LoseReply
  <2>5. QED
    BY <2>1, <2>3, <2>4 DEF AcceptUpdate
<1>2. CASE TryPod(r)
  <2>1. PICK p \in Pod :
          /\ IsNext(r, p)
          /\ \/ AcceptEviction(p) /\ Acknowledge(r, p)
             \/ AcceptEviction(p) /\ LoseReply(r, p) /\ UNCHANGED pc
             \/ UNCHANGED <<podState, touched, acked, success, pc>>
    BY <1>2 DEF TryPod
  <2>2. /\ pc[r] = "apply" /\ UNCHANGED <<subs, approved, ask, crashes>>
        /\ Asked(r, p)
    BY <1>2, <2>1 DEF TryPod, IsNext, DoneInv, ListedIsAsked, Asked
  <2>3. CASE UNCHANGED <<podState, touched, pc>>
    BY <2>2, <2>3, NothingTouched DEF Changed, TraceInv
  <2>4. CASE podState' = [podState EXCEPT ![p] = "terminating"]
    <3>1. Changed' \subseteq Changed \cup {p}
      BY <2>2, <2>4 DEF Changed, DoneInv, WorldTypeOK
    <3>2. QED
      BY <2>1, <2>2, <2>3, <3>1, OneTouched DEF Acknowledge, LoseReply
  <2>5. QED
    BY <2>1, <2>3, <2>4 DEF AcceptEviction
<1>3. QED
  BY <1>1, <1>2

LEMMA SubscriptionTrace ==
  ASSUME TraceInv, Typed, DoneInv, NEW r \in Request,
         PurgeSubscription(r) \/ PatchChannel(r)
  PROVE  TraceInv'
<1>1. /\ pc[r] = "apply" /\ UNCHANGED <<approved, podState, ask, crashes>>
      /\ ask[r].sub \in Sub /\ Asked(r, ask[r].sub)
  BY RequestAssumption
  DEF PurgeSubscription, PatchChannel, Asked, Typed, ApprovalTypeOK, NoAsk
<1>2. Changed' \subseteq Changed \cup {ask[r].sub}
  BY <1>1 DEF PurgeSubscription, PatchChannel, AcceptPurge, Changed
<1>3. CASE UNCHANGED <<subs, touched>> /\ pc' = [pc EXCEPT ![r] = "record"]
  <2>1. \A q \in Request : pc'[q] # pc[q] => pc'[q] = "record"
    BY <1>3 DEF Typed, EffectInv, EffectTypeOK
  <2>2. QED
    BY <1>1, <1>3, <2>1, NothingTouched DEF Changed, TraceInv
<1>4. CASE Acknowledge(r, ask[r].sub)
  BY <1>1, <1>2, <1>4, OneTouched DEF Acknowledge
<1>5. CASE LoseReply(r, ask[r].sub) /\ pc' = [pc EXCEPT ![r] = "record"]
  BY <1>1, <1>2, <1>5, OneTouched DEF LoseReply
<1>6. QED
  BY <1>3, <1>4, <1>5 DEF PurgeSubscription, PatchChannel

LEMMA NextTrace == TraceInv /\ Typed /\ DoneInv /\ [Next]_vars => TraceInv'
<1> SUFFICES ASSUME TraceInv, Typed, DoneInv, [Next]_vars
             PROVE  TraceInv'
  OBVIOUS
<1>1. ASSUME NEW r \in Request, NEW a \in Offered, Submit(r, a)
      PROVE  TraceInv'
  <2>1. touched[r] = {}
    BY <1>1 DEF Submit, TraceInv
  <2>2. /\ UNCHANGED <<subs, approved, podState, touched, crashes>>
        /\ \A q \in Request : q # r => ask'[q] = ask[q] /\ pc'[q] = pc[q]
        /\ pc'[r] \in {"list", "apply"}
    BY <1>1 DEF Submit, cluster, history, Typed, ApprovalTypeOK, EffectInv, EffectTypeOK
  <2>3. QED
    BY <2>1, <2>2, NothingTouched DEF Changed, TraceInv
<1>2. ASSUME NEW r \in Request, Refuse(r)
      PROVE  TraceInv'
  <2>1. touched[r] = {}
    BY <1>2 DEF Refuse, TraceInv
  <2>2. /\ UNCHANGED <<subs, approved, podState, ask, touched, crashes>>
        /\ \A q \in Request : q # r => pc'[q] = pc[q]
        /\ pc'[r] = "refused"
    BY <1>2 DEF Refuse, cluster, history, Typed, EffectInv, EffectTypeOK
  <2>3. QED
    BY <2>1, <2>2, NothingTouched DEF Changed, TraceInv
<1>3. ASSUME NEW r \in Request,
             ListPlans(r) \/ ListPods(r) \/ GiveUp(r) \/ Record(r) \/ Reply(r)
      PROVE  TraceInv'
  <2>1. /\ UNCHANGED <<subs, approved, podState, ask, touched, crashes>>
        /\ \E q \in {"apply", "record", "reply", "done"} : pc' = [pc EXCEPT ![r] = q]
    BY <1>3 DEF ListPlans, ListPods, GiveUp, Fail, Record, Reply, cluster, history
  <2>2. \A q \in Request : pc'[q] # pc[q] => pc'[q] \in {"apply", "record", "reply", "done"}
    BY <2>1 DEF Typed, EffectInv, EffectTypeOK
  <2>3. QED
    BY <2>1, <2>2, NothingTouched DEF Changed, TraceInv
<1>4. CASE Crash
  <2>1. /\ UNCHANGED <<subs, approved, podState, ask, touched>>
        /\ crashes' = crashes + 1
        /\ \A r \in Request : pc'[r] # pc[r] => pc'[r] = "dead"
    BY <1>4 DEF Crash, cluster, history, Typed, EffectInv, EffectTypeOK
  <2>2. crashes' \in Nat /\ crashes' >= crashes /\ crashes' > 0
    BY <2>1 DEF TraceInv
  <2>3. QED
    BY <2>1, <2>2, NothingTouched DEF Changed
<1>5. CASE \/ \E r \in Request : ProxyTimeout(r)
           \/ \E p \in Plan : OlmTouches(p)
           \/ UNCHANGED vars
  <2>1. UNCHANGED <<subs, approved, podState, ask, touched, crashes, pc>>
    BY <1>5 DEF ProxyTimeout, OlmTouches, vars, cluster, handler, history
  <2>2. QED
    BY <2>1, NothingTouched DEF Changed, TraceInv
<1>6. ASSUME NEW p \in Pod, PodMoves(p)
      PROVE  TraceInv'
  <2>1. UNCHANGED <<subs, approved, ask, touched, crashes, pc>>
    BY <1>6 DEF PodMoves, handler, history
  <2>2. \A q \in Pod : podState'[q] \in {"terminating", "gone"} =>
                         podState[q] \in {"terminating", "gone"}
    BY <1>6 DEF PodMoves, DoneInv, WorldTypeOK
  <2>3. Changed' \subseteq Changed
    BY <2>1, <2>2 DEF Changed
  <2>4. QED
    BY <2>1, <2>3, NothingTouched DEF TraceInv
<1>7. QED
  BY <1>1, <1>2, <1>3, <1>4, <1>5, <1>6, TryTrace, SubscriptionTrace DEF Next, Handle

LEMMA InitTrace == Init => TraceInv
BY ClusterAssumption DEF Init, TraceInv, Changed

\* The slice stays the recent end of the journal when it is cut.
LEMMA RecordWindow ==
  ASSUME Typed, JournalInv, Audit!RecentWindow, NEW r \in Request, Record(r)
  PROVE  Audit!RecentWindow'
<1> DEFINE a == Append(auditLog, Outcome(r))
           j == Append(journal, Outcome(r))
<1>1. Outcome(r) \in Audit!Event /\ auditLog' = Audit!Truncate(a) /\ journal' = j
  BY RecordJournal DEF Audit!RecordAudit
<1>2. /\ auditLog \in Seq(Audit!Event) /\ journal \in Seq(Audit!Event)
      /\ Len(auditLog) <= Capacity /\ Len(auditLog) <= Len(journal)
      /\ Capacity \in Nat \ {0}
  BY BoundAssumption DEF JournalInv, Audit!RecentWindow
<1>3. /\ a \in Seq(Audit!Event) /\ j \in Seq(Audit!Event)
      /\ Len(a) = Len(auditLog) + 1 /\ Len(j) = Len(journal) + 1
      /\ Len(auditLog) \in Nat /\ Len(journal) \in Nat
  BY <1>1, <1>2, AppendProperties
<1>4. ASSUME NEW i \in 1..Len(a)
      PROVE  a[i] = j[Len(j) - Len(a) + i]
  <2>1. CASE i = Len(a)
    BY <1>1, <1>2, <1>3, <2>1
  <2>2. CASE i \in 1..Len(auditLog)
    <3>1. /\ Len(journal) - Len(auditLog) + i \in 1..Len(journal)
          /\ auditLog[i] = journal[Len(journal) - Len(auditLog) + i]
      <4>1. auditLog[i] = journal[Len(journal) - Len(auditLog) + i]
        BY <2>2 DEF Audit!RecentWindow
      <4>2. ASSUME NEW m \in Nat, NEW n \in Nat, NEW k \in 1..m, m <= n
            PROVE  n - m + k \in 1..n
        BY <4>2
      <4>3. Len(auditLog) \in Nat /\ Len(journal) \in Nat /\ Len(auditLog) <= Len(journal)
        BY <1>2, <1>3
      <4>4. QED
        BY <2>2, <4>1, <4>2, <4>3
    <3>2. /\ a[i] = auditLog[i]
          /\ j[Len(journal) - Len(auditLog) + i] = journal[Len(journal) - Len(auditLog) + i]
      BY <1>1, <1>2, <2>2, <3>1
    <3>3. Len(j) - Len(a) + i = Len(journal) - Len(auditLog) + i
      BY <1>3
    <3>4. QED
      BY <3>1, <3>2, <3>3
  <2>3. QED
    <3> HIDE DEF a, j
    <3> QED
      BY <1>3, <2>1, <2>2
<1> HIDE DEF a, j
<1>5. CASE Len(a) <= Capacity
  <2>1. auditLog' = a
    BY <1>1, <1>3, <1>5, <1>2 DEF Audit!Truncate
  <2>2. Len(a) = IF Len(j) > Capacity THEN Capacity ELSE Len(j)
    BY <1>2, <1>3, <1>5 DEF Audit!RecentWindow
  <2>3. QED
    BY <1>1, <1>4, <2>1, <2>2 DEF Audit!RecentWindow
<1>6. CASE Len(a) > Capacity
  <2>1. Len(a) = Capacity + 1 /\ Len(auditLog) = Capacity
    BY <1>2, <1>3, <1>6
  <2>2. auditLog' = SubSeq(a, 2, Len(a))
    BY <1>1, <1>2, <1>6, <2>1 DEF Audit!Truncate
  <2>3. Len(auditLog') = Capacity /\ \A i \in 1..Capacity : auditLog'[i] = a[i + 1]
    BY <1>2, <1>3, <2>1, <2>2
  <2>4. Len(j) > Capacity
    BY <1>2, <1>3, <2>1
  <2>5. ASSUME NEW i \in 1..Capacity
        PROVE  auditLog'[i] = j[Len(j) - Capacity + i]
    <3>1. i + 1 \in 1..Len(a) /\ Len(j) - Len(a) + (i + 1) = Len(j) - Capacity + i
      BY <1>2, <1>3, <2>1
    <3>2. QED
      BY <1>4, <2>3, <3>1
  <2>6. QED
    BY <1>1, <2>3, <2>4, <2>5 DEF Audit!RecentWindow
<1>7. QED
  BY <1>2, <1>3, <1>5, <1>6

LEMMA WindowInvariant == Spec => []Audit!RecentWindow
<1>1. Init => Audit!RecentWindow
  BY BoundAssumption DEF Init, Audit!RecentWindow
<1>2. Typed /\ JournalInv /\ Audit!RecentWindow /\ [Next]_vars => Audit!RecentWindow'
  <2>1. ASSUME Crash
        PROVE  Audit!RecentWindow'
    BY <2>1, BoundAssumption DEF Crash, Audit!Restart, Audit!RecentWindow
  <2>2. ASSUME UNCHANGED audit, Audit!RecentWindow
        PROVE  Audit!RecentWindow'
    BY <2>2 DEF audit, Audit!RecentWindow
  <2>3. QED
    BY <2>1, <2>2, NextJournal, RecordWindow
<1>3. QED
  BY <1>1, <1>2, JournalInvariant, PTL DEF Spec

(* Nothing changes behind the back of the audit log, for any number of     *)
(* requests, conflicts, lost replies and 502s: each change has a request   *)
(* that asked for it, and its outcome is logged unless the process died    *)
(* (main.go:159-160, 175-201, 242-259, remediation.go:169, 201-212).       *)
THEOREM ChangesAlwaysTraced == Spec => []ChangesAreTraced
<1>1. TraceInv /\ Typed /\ JournalInv /\ Audit!RecentWindow => ChangesAreTraced
  <2> SUFFICES ASSUME TraceInv, Typed, JournalInv, Audit!RecentWindow
               PROVE  ChangesAreTraced
    OBVIOUS
  <2>1. PICK by \in [DOMAIN journal -> Request] : Wrote(by)
    BY DEF JournalInv
  <2>2. ASSUME NEW i \in DOMAIN journal, Len(journal) - i < Capacity
        PROVE  \E j \in DOMAIN auditLog : auditLog[j] = journal[i]
    <3> DEFINE j == Len(auditLog) - (Len(journal) - i)
    <3>1. /\ Len(journal) \in Nat /\ i \in 1..Len(journal) /\ Capacity \in Nat
          /\ Len(auditLog) \in Nat /\ DOMAIN auditLog = 1..Len(auditLog)
      BY BoundAssumption DEF JournalInv
    <3>2. j \in 1..Len(auditLog)
      BY <2>2, <3>1 DEF Audit!RecentWindow
    <3>3. auditLog[j] = journal[Len(journal) - Len(auditLog) + j]
      BY <3>2 DEF Audit!RecentWindow
    <3>4. Len(journal) - Len(auditLog) + j = i
      BY <3>1
    <3>5. QED
      BY <3>1, <3>2, <3>3, <3>4
  <2>3. ASSUME NEW r \in Request, HasRecorded(r)
        PROVE  \E i \in DOMAIN journal : Tells(i, r)
    <3>1. PICK i \in DOMAIN journal : by[i] = r
      BY <2>1, <2>3 DEF Wrote
    <3>2. journal[i] = Outcome(r)
      BY <2>1, <3>1 DEF Wrote
    <3>3. success[r] <=> acked[r] # {}
      BY DEF Typed, EffectInv, OneEffect
    <3>4. /\ journal[i].type = ask[r].kind /\ journal[i].name = ask[r].sub
          /\ journal[i].success = success[r]
      BY <3>2 DEF Outcome
    <3>5. Tells(i, r)
      BY <2>2, <3>3, <3>4 DEF Tells
    <3>6. QED
      BY <3>5
  <2>4. QED
    BY <2>3 DEF TraceInv, HasRecorded, ChangesAreTraced
<1>2. ApprovalTypeOK /\ EffectInv <=> Typed
  BY DEF Typed
<1>3. QED
  BY <1>1, <1>2, EffectInvariant, InitDone, NextDone, JournalInvariant, WindowInvariant,
     InitTrace, NextTrace, PTL DEF Spec

\* What no other invariant types.
RestTypeOK == channel \in [Sub -> Channel] /\ crashes \in 0..MaxCrashes

(* Whatever the requests do and however often the process is replaced, the *)
(* state of every request, object and log entry is one the code can        *)
(* produce, and the slice of events never outgrows auditLogCapacity        *)
(* (main.go:55-79, 142-319, remediation.go:185-229).                       *)
THEOREM AllTypeCorrect == Spec => []TypeOK
<1>1. Init => RestTypeOK
  BY BoundAssumption DEF Init, RestTypeOK
<1>2. Typed /\ RestTypeOK /\ [Next]_vars => RestTypeOK'
  <2> SUFFICES ASSUME Typed, RestTypeOK, [Next]_vars
               PROVE  RestTypeOK'
    OBVIOUS
  <2>1. CASE Crash
    BY <2>1, BoundAssumption DEF Crash, cluster, RestTypeOK
  <2>2. ASSUME NEW r \in Request, PatchChannel(r)
        PROVE  RestTypeOK'
    <3>1. ask[r] \in Offered /\ ask[r].kind = "channel-change" /\ UNCHANGED crashes
      BY <2>2 DEF PatchChannel, Typed, ApprovalTypeOK, NoAsk
    <3>2. ask[r].channel \in Channel
      BY <3>1, RequestAssumption
    <3>3. UNCHANGED channel \/ channel' = [channel EXCEPT ![ask[r].sub] = ask[r].channel]
      BY <2>2 DEF PatchChannel, AcceptPatch
    <3>4. QED
      BY <3>1, <3>2, <3>3 DEF RestTypeOK
  <2>3. CASE ~Crash /\ ~\E r \in Request : PatchChannel(r)
    <3>1. UNCHANGED <<channel, crashes>>
      BY <2>3 DEF Next, Handle, Submit, Refuse, ListPlans, TryPlan, ListPods, TryPod, GiveUp,
                  Fail, PurgeSubscription, Record, Reply, ProxyTimeout, OlmTouches, PodMoves,
                  vars, cluster
    <3>2. QED
      BY <3>1 DEF RestTypeOK
  <2>4. QED
    BY <2>1, <2>2, <2>3
<1>3. Typed /\ DoneInv /\ JournalInv /\ RestTypeOK => TypeOK
  BY DEF Typed, ApprovalTypeOK, EffectInv, EffectTypeOK, DoneInv, WorldTypeOK, JournalInv,
         RestTypeOK, TypeOK, Audit!TypeOK
<1>4. ApprovalTypeOK /\ EffectInv <=> Typed
  BY DEF Typed
<1>5. QED
  BY <1>1, <1>2, <1>3, <1>4, EffectInvariant, JournalInvariant, InitDone, NextDone, PTL DEF Spec

-----------------------------------------------------------------------------
(* The inventory that handlers read while the governance loop replaces it. *)

\* While the cache is assigned no reader is inside the lock and the first
\* field has the number of the sweep; what a reader has read stays what it
\* was until it has read the rest.
CacheInv ==
  /\ CacheTypeOK
  /\ sweep = "rest" => cache.first = round
  /\ sweep \in {"first", "rest"} =>
       \A r \in Reader : place[r] \notin {"first", "rest", "send"}
  /\ \A r \in Reader : place[r] = "rest" => first[r] = cache.first
  /\ AnswerFromOneSweep

LEMMA CacheInvInit == CInit => CacheInv
BY MaxSweepsAssumption DEF CInit, CacheInv, CacheTypeOK, AnswerFromOneSweep

LEMMA CacheInvNext == CacheInv /\ [CNext]_cvars => CacheInv'
<1> USE MaxSweepsAssumption
<1> SUFFICES ASSUME CacheInv, [CNext]_cvars
             PROVE  CacheInv'
  OBVIOUS
<1> USE DEF CacheInv, CacheTypeOK, AnswerFromOneSweep
<1>1. CASE StartSweep
  BY <1>1 DEF StartSweep
<1>2. CASE SweepFails
  BY <1>2 DEF SweepFails
<1>3. CASE CallLock
  BY <1>3 DEF CallLock
<1>4. CASE AcquireLock
  BY <1>4 DEF AcquireLock, Holders
<1>5. CASE AssignFirst
  BY <1>5 DEF AssignFirst
<1>6. CASE AssignRest
  <2>1. cache' = [first |-> cache.first, rest |-> round] /\ cache.first \in 0..round
    BY <1>6 DEF AssignRest
  <2>2. cache.first = round
    BY <1>6 DEF AssignRest
  <2>3. QED
    BY <1>6, <2>1, <2>2 DEF AssignRest
<1>7. ASSUME NEW r \in Reader, Arrive(r)
      PROVE  CacheInv'
  BY <1>7 DEF Arrive
<1>8. ASSUME NEW r \in Reader, RLock(r)
      PROVE  CacheInv'
  BY <1>8 DEF RLock, WriterPending
<1>9. ASSUME NEW r \in Reader, ReadFirst(r)
      PROVE  CacheInv'
  BY <1>9 DEF ReadFirst
<1>10. ASSUME NEW r \in Reader, ReadRest(r)
       PROVE  CacheInv'
  BY <1>10 DEF ReadRest
<1>11. ASSUME NEW r \in Reader, Send(r)
       PROVE  CacheInv'
  BY <1>11 DEF Send
<1>12. CASE Restart
  BY <1>12 DEF Restart
<1>13. CASE UNCHANGED cvars
  BY <1>13 DEF cvars
<1>14. QED
  BY <1>1, <1>2, <1>3, <1>4, <1>5, <1>6, <1>7, <1>8, <1>9, <1>10, <1>11, <1>12, <1>13
  DEF CNext, Sweeper, Handler

(* Shape of the cache and its users; the cache is torn only while it is    *)
(* assigned.                                                               *)
THEOREM CacheTypeCorrect == CSpec => []CacheTypeOK
<1>1. CacheInv => CacheTypeOK
  BY DEF CacheInv
<1>2. QED
  BY <1>1, CacheInvInit, CacheInvNext, PTL DEF CSpec

(* No answer is put together from two sweeps (main.go:108-133, 677-679).   *)
THEOREM NoTornAnswer == CSpec => []AnswerFromOneSweep
<1>1. CacheInv => AnswerFromOneSweep
  BY DEF CacheInv
<1>2. QED
  BY <1>1, CacheInvInit, CacheInvNext, PTL DEF CSpec

-----------------------------------------------------------------------------
LEMMA NotBlankedNext ==
  CacheInv /\ [CNext]_cvars =>
    [cache'.rest = cache.rest \/ cache'.rest > cache.rest \/ Restart]_cvars
<1> USE MaxSweepsAssumption
<1> SUFFICES ASSUME CacheInv, CNext
             PROVE  cache'.rest = cache.rest \/ cache'.rest > cache.rest \/ Restart
  BY DEF cvars
<1>1. CASE AssignRest
  <2>1. cache'.rest = round /\ cache.rest \in 0..round /\ round \in Nat
    BY <1>1 DEF AssignRest, CacheInv, CacheTypeOK
  <2>2. QED
    BY <2>1
<1>2. CASE AssignFirst
  <2>1. cache'.rest = cache.rest
    BY <1>2 DEF AssignFirst, CacheInv, CacheTypeOK
  <2>2. QED
    BY <2>1
<1>3. QED
  BY <1>1, <1>2 DEF CNext, Sweeper, Handler, StartSweep, SweepFails, CallLock,
                    AcquireLock, Arrive, RLock, ReadFirst, ReadRest, Send

(* A published inventory gives way only to a newer one or to a new process *)
(* (main.go:671-675).                                                      *)
THEOREM NotBlanked == CSpec => NeverBlanked
BY CacheInvInit, CacheInvNext, NotBlankedNext, PTL DEF CSpec, NeverBlanked

-----------------------------------------------------------------------------
\* The answers as the register sees them.
Seen == [r \in Reader |-> response[r].rest]

LEMMA CacheStep ==
  ASSUME CacheInv, CacheInv', [CNext]_cvars
  PROVE  \/ cache'.rest = cache.rest /\ Seen' = Seen
         \/ cache'.rest \in Nat /\ cache'.rest > cache.rest /\ Seen' = Seen
         \/ \E r \in Reader : /\ Seen' = [Seen EXCEPT ![r] = cache.rest]
                              /\ cache'.rest = cache.rest
         \/ cache'.rest = 0 /\ Seen' = Seen
<1> USE MaxSweepsAssumption
<1>1. CASE AssignRest
  <2>1. cache'.rest = round /\ cache.rest \in 0..round /\ round \in Nat
    BY <1>1 DEF AssignRest, CacheInv, CacheTypeOK
  <2>2. Seen' = Seen
    BY <1>1 DEF AssignRest, Seen
  <2>3. QED
    BY <2>1, <2>2
<1>2. CASE AssignFirst
  <2>1. cache'.rest = cache.rest /\ Seen' = Seen
    BY <1>2 DEF AssignFirst, CacheInv, CacheTypeOK, Seen
  <2>2. QED
    BY <2>1
<1>3. ASSUME NEW r \in Reader, ReadRest(r)
      PROVE  Seen' = [Seen EXCEPT ![r] = cache.rest] /\ cache' = cache
  <2>1. /\ response \in [Reader -> [first : 0..round, rest : 0..round]]
        /\ response' = [response EXCEPT ![r] = [first |-> first[r], rest |-> cache.rest]]
    BY <1>3 DEF ReadRest, CacheInv, CacheTypeOK
  <2>2. Seen' = [q \in Reader |-> IF q = r THEN cache.rest ELSE response[q].rest]
    BY <2>1 DEF Seen
  <2>3. [Seen EXCEPT ![r] = cache.rest]
          = [q \in Reader |-> IF q = r THEN cache.rest ELSE response[q].rest]
    BY DEF Seen
  <2>4. QED
    BY <1>3, <2>2, <2>3 DEF ReadRest
<1>4. CASE Restart
  BY <1>4 DEF Restart, Seen
<1>5. ASSUME UNCHANGED <<cache, response>>
      PROVE  cache'.rest = cache.rest /\ Seen' = Seen
  BY <1>5 DEF Seen
<1>6. QED
  BY <1>1, <1>2, <1>3, <1>4, <1>5
  DEF CNext, Sweeper, Handler, cvars, StartSweep, SweepFails, CallLock, AcquireLock,
      Arrive, RLock, ReadFirst, Send

(* The locked cache implements one register of whole inventories: each     *)
(* handler answers with what was published at one moment of its request.   *)
THEOREM ImplementsAtomicInventory == CSpec => RefinesAtomicInventory
<1> DEFINE View == [r \in Reader |-> IF response[r].first = response[r].rest
                                    THEN response[r].rest ELSE -1]
<1>1. AnswerFromOneSweep => View = Seen
  BY DEF AnswerFromOneSweep, Seen
<1>2. CacheInv => AnswerFromOneSweep
  BY DEF CacheInv
<1>3. CInit => Atomic!AInit
  BY DEF CInit, Atomic!AInit
<1>4. CacheInv /\ [CNext]_cvars => [Atomic!ANext]_(Atomic!avars)
  <2> SUFFICES ASSUME CacheInv, [CNext]_cvars
               PROVE  [Atomic!ANext]_(Atomic!avars)
    OBVIOUS
  <2>1. CacheInv'
    BY CacheInvNext
  <2>2. View = Seen /\ View' = Seen'
    <3>1. View = Seen
      BY <1>1, <1>2
    <3>2. \A r \in Reader : (response[r].first = response[r].rest)'
      BY <2>1 DEF CacheInv, AnswerFromOneSweep
    <3>3. View' = Seen'
      BY <3>2 DEF Seen
    <3>4. QED
      BY <3>1, <3>3
  <2> HIDE DEF View
  <2>3. \/ cache'.rest = cache.rest /\ View' = View
        \/ cache'.rest \in Nat /\ cache'.rest > cache.rest /\ View' = View
        \/ \E r \in Reader : /\ View' = [View EXCEPT ![r] = cache.rest]
                             /\ cache'.rest = cache.rest
        \/ cache'.rest = 0 /\ View' = View
    BY <2>1, <2>2, CacheStep
  <2>4. QED
    BY <2>3 DEF Atomic!ANext, Atomic!Publish, Atomic!Serve, Atomic!Lose, Atomic!avars, View
<1>5. QED
  BY <1>3, <1>4, CacheInvInit, CacheInvNext, PTL
  DEF CSpec, RefinesAtomicInventory, Atomic!ASpec
=============================================================================
