----------------------------- MODULE MCHandlers -----------------------------
(***************************************************************************)
(* The HTTP handlers of operator/main.go, side by side: those of the quick *)
(* actions, and those that read the inventory while the governance loop    *)
(* replaces it.  A behaviour exercises one group while the other is in an  *)
(* initial state.                                                          *)
(***************************************************************************)
EXTENDS MCQuickActions, InventoryCache

HandlersInit == Init /\ CInit

Actions == CInit /\ Next /\ UNCHANGED cvars
Readers == Init /\ CNext /\ UNCHANGED vars

HandlersSpec ==
  /\ HandlersInit /\ [][Actions \/ Readers]_<<vars, cvars>>
  /\ Fairness /\ CFairness
=============================================================================
