----------------------------- MODULE MCActions ------------------------------
(***************************************************************************)
(* What the operator does to the cluster, side by side: the quick actions  *)
(* of the user, and the evictions of the telemetry loop.  They share no    *)
(* state but the API server's, and a behaviour exercises one while the     *)
(* other is in an initial state.                                           *)
(***************************************************************************)
EXTENDS MCQuickActions, Telemetry

CONSTANT p1

OneOrder == <<p1>>

\* One choice of what the initial states leave open.
NothingRuns == \A p \in Monitored : phase[p] = "absent"
SameChannel == \A s \in Sub : channel[s] = channel[opB]
NoPod == \A p \in Pod : podState[p] = "unborn"

\* No request is about opB, and the channels are alike.
ActionsInit == Init /\ TInit /\ channel[opB] = CHOOSE c \in Channel : TRUE

Actions == TInit /\ NothingRuns /\ Next /\ UNCHANGED tvars
Mitigation == Init /\ SameChannel /\ NoPod /\ TNext /\ UNCHANGED vars

ActionsSpec ==
  ActionsInit /\ [][Actions \/ Mitigation]_<<vars, tvars>> /\ WF_tvars(Sweep)
=============================================================================
