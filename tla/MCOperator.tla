----------------------------- MODULE MCOperator -----------------------------
(***************************************************************************)
(* What the operator learns and keeps, side by side: the sweep over a      *)
(* cluster that changes, the health of OLM that the sweep reports, and the *)
(* audit log.  A behaviour exercises one while the others are in an        *)
(* initial state.                                                          *)
(***************************************************************************)
EXTENDS GovernanceSweep, OLMHealth, AuditLog

CONSTANTS home, away, system

-----------------------------------------------------------------------------
(* The answers OLMHealth is tried on.                                      *)

Ready == [ready |-> TRUE, waiting |-> ""]
Stuck == [ready |-> FALSE, waiting |-> ""]
Crashing == [ready |-> FALSE, waiting |-> "CrashLoopBackOff"]

PodsOf(containers) ==
  [fails |-> FALSE, pods |-> <<[phase |-> "Running", containers |-> containers]>>]

MCPods ==
  {PodsOf(<<c, d>>) : c, d \in {Ready, Stuck, Crashing}}
    \cup {[fails |-> TRUE, pods |-> <<>>], [fails |-> FALSE, pods |-> <<>>],
          [fails |-> FALSE, pods |-> <<[phase |-> "Pending", containers |-> <<>>]>>]}

AtMostOne(S) == {<<>>} \cup {<<s>> : s \in S}

MCPlans ==
  AtMostOne({[phase |-> "Complete", conflict |-> FALSE], [phase |-> "RequiresApproval", conflict |-> FALSE],
             [phase |-> "Failed", conflict |-> TRUE], [phase |-> "Failed", conflict |-> FALSE]})

MCSources ==
  AtMostOne({"READY", "CONNECTING", "TRANSIENT_FAILURE", "none"})
    \cup {<<"READY", "TRANSIENT_FAILURE">>, <<"CONNECTING", "READY">>}

MCSubs == AtMostOne([namespace : {home}, deadlocked : BOOLEAN])

MCCsvs ==
  AtMostOne([namespace : {home, system},
             reason : {"InstallSucceeded", "UnsupportedAPI", "RequirementsNotMet"}])

-----------------------------------------------------------------------------
\* One choice of what the initial states leave open.
NoneInstalled == Now = [o \in Op |-> Absent]

OpInit == GovInit /\ HInit /\ Init

Governance == HInit /\ Init /\ GovNext /\ UNCHANGED <<hvars, vars>>

Health == GovInit /\ NoneInstalled /\ Init /\ HNext /\ UNCHANGED <<govvars, vars>>

Log == GovInit /\ NoneInstalled /\ HInit /\ Next /\ UNCHANGED <<govvars, hvars>>

OpSpec == OpInit /\ [][Governance \/ Health \/ Log]_<<govvars, hvars, vars>>
=============================================================================
