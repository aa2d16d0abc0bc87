--------------------------- MODULE InventoryCache ---------------------------
(***************************************************************************)
(* The cache between the governance loop and the HTTP handlers of          *)
(* operator/main.go.  One goroutine sweeps the cluster and assigns opCache *)
(* under cacheLock; every inventory, CVE and dependency handler reads it   *)
(* under the read lock, and most keep that lock until their client has     *)
(* taken the answer.                                                       *)
(*                                                                         *)
(* The content of a sweep is its number; opCache is a struct of several    *)
(* words, so its assignment and the reads of its fields are two steps      *)
(* each.  A sync.RWMutex lets no new reader in once a writer waits.        *)
(***************************************************************************)
EXTENDS Integers

CONSTANTS
  Reader,       \* requests under way at the same time
  MaxSweeps     \* bound of the model: sweeps, counted over restarts

ASSUME MaxSweepsAssumption == MaxSweeps \in Nat

VARIABLES
  cache,        \* opCache: the sweeps its first and its other fields come from
  round,        \* the number of the sweep under way, or of the last one
  sweep,        \* "idle", "collect", "lock", "first", "rest"
  place,        \* of each reader: "idle", "wants", "first", "rest", "send"
  first,        \* what each reader read first
  response        \* the answer each reader was last given: [first, rest]

cvars == <<cache, round, sweep, place, first, response>>

CInit ==
  /\ cache = [first |-> 0, rest |-> 0]
  /\ round = 0
  /\ sweep = "idle"
  /\ place = [r \in Reader |-> "idle"]
  /\ first = [r \in Reader |-> 0]
  /\ response = [r \in Reader |-> [first |-> 0, rest |-> 0]]

\* The readers inside the lock.
Holders == {r \in Reader : place[r] \in {"first", "rest", "send"}}

\* A writer holds the lock or waits for it.
WriterPending == sweep \in {"lock", "first", "rest"}

-----------------------------------------------------------------------------
(* The governance goroutine: collectOperators, every minute.               *)

StartSweep ==
  /\ sweep = "idle" /\ round < MaxSweeps
  /\ round' = round + 1
  /\ sweep' = "collect"
  /\ UNCHANGED <<cache, place, first, response>>

\* A bug: the zero response of the failed sweep is published.
PublishFailure ==
  /\ sweep = "collect"
  /\ sweep' = "idle"
  /\ cache' = [first |-> 0, rest |-> 0]
  /\ UNCHANGED <<round, place, first, response>>

\* An error of GetClusterGovernance: the old inventory stays.
SweepFails ==
  /\ sweep = "collect"
  /\ sweep' = "idle"
  /\ UNCHANGED <<cache, round, place, first, response>>

CallLock ==
  /\ sweep = "collect"
  /\ sweep' = "lock"
  /\ UNCHANGED <<cache, round, place, first, response>>

\* A bug: the assignment is made without the lock.
AssignUnlocked ==
  /\ sweep = "lock"
  /\ sweep' = "first"
  /\ UNCHANGED <<cache, round, place, first, response>>

\* Lock returns when the readers that were inside have left.
AcquireLock ==
  /\ sweep = "lock" /\ Holders = {}
  /\ sweep' = "first"
  /\ UNCHANGED <<cache, round, place, first, response>>

AssignFirst ==
  /\ sweep = "first"
  /\ cache' = [cache EXCEPT !.first = round]
  /\ sweep' = "rest"
  /\ UNCHANGED <<round, place, first, response>>

\* A bug: the function returns without Unlock.
AssignRestKeepsLock ==
  /\ sweep = "rest"
  /\ cache' = [cache EXCEPT !.rest = round]
  /\ UNCHANGED <<round, sweep, place, first, response>>

\* The rest of the assignment, and Unlock.
AssignRest ==
  /\ sweep = "rest"
  /\ cache' = [cache EXCEPT !.rest = round]
  /\ sweep' = "idle"
  /\ UNCHANGED <<round, place, first, response>>

-----------------------------------------------------------------------------
(* A handler that reads the cache.                                         *)

Arrive(r) ==
  /\ place[r] = "idle"
  /\ place' = [place EXCEPT ![r] = "wants"]
  /\ UNCHANGED <<cache, round, sweep, first, response>>

RLock(r) ==
  /\ place[r] = "wants" /\ ~WriterPending
  /\ place' = [place EXCEPT ![r] = "first"]
  /\ UNCHANGED <<cache, round, sweep, first, response>>

ReadFirst(r) ==
  /\ place[r] = "first"
  /\ first' = [first EXCEPT ![r] = cache.first]
  /\ place' = [place EXCEPT ![r] = "rest"]
  /\ UNCHANGED <<cache, round, sweep, response>>

ReadRest(r) ==
  /\ place[r] = "rest"
  /\ response' = [response EXCEPT ![r] = [first |-> first[r], rest |-> cache.rest]]
  /\ place' = [place EXCEPT ![r] = "send"]
  /\ UNCHANGED <<cache, round, sweep, first>>

\* The client took the answer or gave up; the deferred RUnlock runs.
Send(r) ==
  /\ place[r] = "send"
  /\ place' = [place EXCEPT ![r] = "idle"]
  /\ UNCHANGED <<cache, round, sweep, first, response>>

-----------------------------------------------------------------------------
\* The process is replaced: empty cache, no lock, requests and sweep gone.
\* The numbering of the sweeps goes on.
Restart ==
  /\ round < MaxSweeps
  /\ cache' = [first |-> 0, rest |-> 0]
  /\ sweep' = "idle"
  /\ place' = [r \in Reader |-> "idle"]
  /\ UNCHANGED <<round, first, response>>

Sweeper == \/ CallLock \/ AcquireLock \/ AssignFirst \/ AssignRest

Handler(r) == RLock(r) \/ ReadFirst(r) \/ ReadRest(r) \/ Send(r)

CNext == \/ StartSweep \/ SweepFails \/ Sweeper \/ Restart
        \/ \E r \in Reader : Arrive(r) \/ Handler(r)

\* The goroutines run.  Send is fair because the only clients, the brain and
\* the dashboard on the same host, give up after five and ten seconds.
CFairness == WF_cvars(Sweeper) /\ \A r \in Reader : WF_cvars(Handler(r))

CSpec == CInit /\ [][CNext]_cvars /\ CFairness

-----------------------------------------------------------------------------
(* Shape of the cache, the goroutine and the handlers: no sweep number is  *)
(* ahead of the sweeps that were made, and the cache is torn only in the   *)
(* middle of its assignment.                                               *)
CacheTypeOK ==
  /\ cache.first # cache.rest => sweep = "rest"
  /\ round \in 0..MaxSweeps
  /\ cache \in [first : 0..round, rest : 0..round]
  /\ sweep \in {"idle", "collect", "lock", "first", "rest"}
  /\ place \in [Reader -> {"idle", "wants", "first", "rest", "send"}]
  /\ first \in [Reader -> 0..round]
  /\ response \in [Reader -> [first : 0..round, rest : 0..round]]

(* No torn answer: whatever a handler sends comes from one sweep, however  *)
(* the assignment of opCache and the reads interleave (main.go:108-133,    *)
(* 677-679).                                                               *)
AnswerFromOneSweep == \A r \in Reader : response[r].first = response[r].rest

(* A failed sweep blanks nothing: once an inventory is published, only a   *)
(* newer one or a new process takes its place (main.go:671-675).           *)
NeverBlanked ==
  [][cache'.rest = cache.rest \/ cache'.rest > cache.rest \/ Restart]_cvars

Atomic == INSTANCE AtomicInventory
  WITH current <- cache.rest,
       view <- [r \in Reader |-> IF response[r].first = response[r].rest
                                 THEN response[r].rest ELSE -1]

(* The locked cache behaves as a single register of whole inventories.     *)
RefinesAtomicInventory == Atomic!ASpec

(* Readers that come and go cannot keep a finished sweep from being        *)
(* published, since a waiting writer lets no new reader in; neither do the *)
(* sweeps starve a reader, whose request is answered (main.go:108-133,     *)
(* 671-679).                                                               *)
NobodyStarves ==
  /\ sweep = "lock" ~> sweep = "idle"
  /\ \A r \in Reader : place[r] = "wants" ~> place[r] = "idle"
=============================================================================
