-------------------------- MODULE AtomicInventory ---------------------------
(***************************************************************************)
(* What the cached inventory of the operator promises: each answer is one  *)
(* published inventory, whole, and the newest one at some moment between   *)
(* the request and its answer.  Inventories are numbered by the sweep that *)
(* made them; 0 is the empty inventory before the first one.               *)
(***************************************************************************)
EXTENDS Integers

CONSTANT Reader

VARIABLES
  current,      \* the inventory that is published
  view          \* the inventory each reader was last given

avars == <<current, view>>

AInit == current = 0 /\ view = [r \in Reader |-> 0]

\* Sweeps come one after the other, some of them publish nothing.
Publish == /\ current' \in Nat /\ current' > current
           /\ UNCHANGED view

Serve(r) == view' = [view EXCEPT ![r] = current] /\ UNCHANGED current

\* The process is replaced.  A reader keeps what it was given.
Lose == current' = 0 /\ UNCHANGED view

ANext == Publish \/ (\E r \in Reader : Serve(r)) \/ Lose

ASpec == AInit /\ [][ANext]_avars
=============================================================================
