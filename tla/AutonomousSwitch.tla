-------------------------- MODULE AutonomousSwitch --------------------------
(***************************************************************************)
(* The autonomous switch of the dashboard, app.js: every open page has its *)
(* copy of the switch and, while that is on, an interval that makes the    *)
(* server push the inventory to the agent (NSAA).  The last choice made in *)
(* any page is kept in localStorage, which a page reads once, when its     *)
(* document is complete; the switch can be clicked a little earlier, from  *)
(* the moment its script has run.                                          *)
(*                                                                         *)
(* The server answers a dispatch in some way: it gives the operator and    *)
(* the agent five seconds each.                                            *)
(***************************************************************************)
EXTENDS Naturals

CONSTANTS
  Tab,          \* pages of one browser
  MaxSyncs      \* bound of the model: dispatches of a page under way at once

ASSUME SwitchAssumption == MaxSyncs \in Nat \ {0}

VARIABLES
  stored,       \* localStorage, AUTONOMOUS_MODE_KEY; nothing stored means on
  document,     \* of each page: "closed", "script" (app.js has run), "complete"
  enabled,      \* autonomousModeEnabled
  nsaaSyncTimer,    \* whether it names an interval
  running,      \* intervals of syncToNSAA that run in the page
  syncs         \* dispatches under way

svars == <<stored, document, enabled, nsaaSyncTimer, running, syncs>>

SInit ==
  /\ stored = TRUE
  /\ document = [t \in Tab |-> "closed"]
  /\ enabled = [t \in Tab |-> TRUE]
  /\ nsaaSyncTimer = [t \in Tab |-> FALSE]
  /\ running = [t \in Tab |-> 0] /\ syncs = [t \in Tab |-> 0]

-----------------------------------------------------------------------------
\* A bug: every call starts an interval.
StartAnother(t) ==
  /\ nsaaSyncTimer' = [nsaaSyncTimer EXCEPT ![t] = TRUE]
  /\ running' = [running EXCEPT ![t] = @ + 1]
  /\ \E n \in {syncs[t], syncs[t] + 1} : n <= MaxSyncs /\ syncs' = [syncs EXCEPT ![t] = n]

\* startNsaaAutoSync: a dispatch at once (within the bound), and the interval.
StartNsaaAutoSync(t) ==
  IF nsaaSyncTimer[t]
  THEN UNCHANGED <<nsaaSyncTimer, running, syncs>>
  ELSE /\ nsaaSyncTimer' = [nsaaSyncTimer EXCEPT ![t] = TRUE]
       /\ running' = [running EXCEPT ![t] = @ + 1]
       /\ syncs' = [syncs EXCEPT ![t] = IF @ < MaxSyncs THEN @ + 1 ELSE @]

\* stopNsaaAutoSync: what is under way is not called back.
StopNsaaAutoSync(t) ==
  /\ running' = [running EXCEPT ![t] = IF nsaaSyncTimer[t] THEN @ - 1 ELSE @]
  /\ nsaaSyncTimer' = [nsaaSyncTimer EXCEPT ![t] = FALSE]
  /\ UNCHANGED syncs

-----------------------------------------------------------------------------
\* A page is opened or reloaded and app.js runs: its variables are new.
RunScript(t) ==
  /\ document' = [document EXCEPT ![t] = "script"]
  /\ enabled' = [enabled EXCEPT ![t] = TRUE]
  /\ nsaaSyncTimer' = [nsaaSyncTimer EXCEPT ![t] = FALSE]
  /\ running' = [running EXCEPT ![t] = 0] /\ syncs' = [syncs EXCEPT ![t] = 0]
  /\ UNCHANGED stored

Close(t) ==
  /\ document[t] # "closed"
  /\ document' = [document EXCEPT ![t] = "closed"]
  /\ running' = [running EXCEPT ![t] = 0] /\ syncs' = [syncs EXCEPT ![t] = 0]
  /\ UNCHANGED <<stored, enabled, nsaaSyncTimer>>

\* loadAutonomousMode, on DOMContentLoaded.
LoadAutonomousMode(t) ==
  /\ document[t] = "script"
  /\ document' = [document EXCEPT ![t] = "complete"]
  /\ enabled' = [enabled EXCEPT ![t] = stored]
  /\ IF stored THEN StartNsaaAutoSync(t) ELSE UNCHANGED <<nsaaSyncTimer, running, syncs>>
  /\ UNCHANGED stored

\* toggleAutonomousMode, of a click on the switch.
ToggleAutonomousMode(t) ==
  /\ document[t] # "closed"
  /\ enabled' = [enabled EXCEPT ![t] = ~@]
  /\ stored' = ~enabled[t]
  /\ IF enabled[t] THEN StopNsaaAutoSync(t) ELSE StartNsaaAutoSync(t)
  /\ UNCHANGED document

\* The interval calls syncToNSAA, whether or not earlier calls have ended.
SyncToNSAA(t) ==
  /\ running[t] > 0 /\ syncs[t] < MaxSyncs
  /\ syncs' = [syncs EXCEPT ![t] = @ + 1]
  /\ UNCHANGED <<stored, document, enabled, nsaaSyncTimer, running>>

\* dispatch_to_nsaa has answered, or the request failed: it is logged.
SyncEnds(t) ==
  /\ syncs[t] > 0
  /\ syncs' = [syncs EXCEPT ![t] = @ - 1]
  /\ UNCHANGED <<stored, document, enabled, nsaaSyncTimer, running>>

SNext ==
  \E t \in Tab : \/ RunScript(t) \/ Close(t) \/ LoadAutonomousMode(t)
                 \/ ToggleAutonomousMode(t) \/ SyncToNSAA(t) \/ SyncEnds(t)

SSpec == SInit /\ [][SNext]_svars

-----------------------------------------------------------------------------
(* Whatever was clicked before or after the stored choice was read, in any *)
(* page: no page has two intervals, nsaaSyncTimer names the one it has, so *)
(* that it can be stopped, and a page whose switch is on has one           *)
(* (app.js:1834-1846, 1881-1896, 2176-2188).  The converse fails when the  *)
(* switch of a page is clicked twice before its document is complete and   *)
(* that of another page in between: the page then reads the other choice,  *)
(* off, and loadAutonomousMode stops nothing.                              *)
SyncFollowsSwitch ==
  \A t \in Tab : document[t] # "closed" =>
    /\ running[t] = IF nsaaSyncTimer[t] THEN 1 ELSE 0
    /\ document[t] = "complete" /\ enabled[t] => nsaaSyncTimer[t]
=============================================================================
