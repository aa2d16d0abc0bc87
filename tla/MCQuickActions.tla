--------------------------- MODULE MCQuickActions ---------------------------
(* Small clusters for QuickActions.  The operators share a namespace, so   *)
(* an approval for one finds the InstallPlans of both.                     *)
EXTENDS QuickActions, TLC

CONSTANTS ns1, opA, opB, none

MCNsOf == (opA :> ns1) @@ (opB :> ns1)
MCPlanOf == [p \in Plan |-> IF p = 1 THEN opB ELSE opA]
MCPodOf == [p \in Pod |-> opA]

Approvals == [kind : {"approve"}, sub : {opA}, channel : {none}]
AllActions == [kind : {"approve", "restart", "delete"}, sub : {opA}, channel : {none}]
                \cup [kind : {"channel-change"}, sub : {opA}, channel : Channel]
=============================================================================
