--------------------------- MODULE BrainInventory ---------------------------
(***************************************************************************)
(* The brain's own inventory, brain/app.py: a daemon thread builds a list  *)
(* of the Subscriptions, one call per package, and replaces the global     *)
(* evaluated_olm_inventory by it; a request for the catalog targets asks   *)
(* the operator first and falls back to that global, which it reads three  *)
(* times.  Nothing is locked.                                              *)
(*                                                                         *)
(* Versions are numbers; an entry of the list is the answer to "can it be  *)
(* upgraded?".  The Kubernetes client sets no time limit: a discovery may  *)
(* wait for ever, and nothing here says that one ends.                     *)
(***************************************************************************)
EXTENDS Naturals, FiniteSets, Sequences

CONSTANTS
  Subscription,
  BrainRequest, \* requests for the catalog targets under way at the same time
  MaxVersion,       \* bound of the model: versions of an operator
  MaxDiscoveries    \* bound of the model: discoveries that publish

VARIABLES
  catalog,      \* of each Subscription: [there, installed, head]
  discovery,    \* "sleep" or "items"
  items,        \* the list of the Subscriptions: Subscription |-> installed version
  todo,         \* those the loop has yet to come to
  inventory,    \* its local list: Subscription |-> can_upgrade
  evaluated,    \* evaluated_olm_inventory
  ask,          \* of each request: "idle", "go", "upgradeable", "total", "operators"
  reply,        \* of each request: what it has read
  published,    \* history: the inventories published by this process, the empty one first
  outdated      \* history: Subscriptions that were behind their channel, made anew or
                \* removed since the list was taken, during a discovery

cluster == <<catalog, outdated>>
thread == <<discovery, items, todo, inventory>>
global == <<evaluated, published>>
requests == <<ask, reply>>
bvars == <<cluster, thread, global, requests>>

Empty == << >>

NoReply == [upgradeable |-> 0, total |-> 0, operators |-> Empty]

BInit ==
  /\ catalog = [s \in Subscription |-> [there |-> TRUE, installed |-> 1, head |-> 1]]
  /\ discovery = "sleep" /\ items = Empty /\ todo = {} /\ inventory = Empty
  /\ evaluated = Empty
  /\ ask = [r \in BrainRequest |-> "idle"] /\ reply = [r \in BrainRequest |-> NoReply]
  /\ published = <<Empty>> /\ outdated = {}

\* Version 0 is none: the Subscription has no CSV yet.
Behind(s) == catalog[s].there /\ catalog[s].installed < catalog[s].head

-----------------------------------------------------------------------------
(* The discovery thread: collect_and_evaluate_olm_inventory.               *)

\* The Subscriptions are listed.  Without a kubeconfig, and when this call
\* fails, the function returns with nothing changed.
ListSubscriptions ==
  /\ discovery = "sleep" /\ Len(published) <= MaxDiscoveries
  /\ discovery' = "items"
  /\ LET there == {s \in Subscription : catalog[s].there}
     IN  items' = [s \in there |-> catalog[s].installed] /\ todo' = there
  /\ inventory' = Empty
  /\ outdated' = {s \in Subscription : Behind(s)}
  /\ UNCHANGED <<catalog, global, requests>>

\* A bug: an operator at the head of its channel has an upgrade.
NotOlder(s) == catalog[s].head >= items[s]

\* target_v > installed_ver: the head of its channel, as it is now, against the
\* version of the list.
Newer(s) == catalog[s].head > items[s]

\* The local list with the package of s appended: can it be upgraded?
Appended(s, canUpgrade) ==
  [q \in DOMAIN inventory \cup {s} |-> IF q = s THEN canUpgrade ELSE inventory[q]]

\* An ApiException, a channel that is not there or a Subscription that names
\* no package: it is listed without an upgrade.
ListedAnyway(s) == inventory' = Appended(s, FALSE)

QueryPackage(s) ==
  /\ discovery = "items" /\ s \in todo
  /\ todo' = todo \ {s}
  /\ ListedAnyway(s) \/ inventory' = Appended(s, Newer(s))
  /\ UNCHANGED <<cluster, discovery, items, global, requests>>

\* Any other exception ends the function; the global stays.
DiscoveryFails ==
  /\ discovery = "items"
  /\ discovery' = "sleep" /\ items' = Empty /\ todo' = {} /\ inventory' = Empty
  /\ outdated' = {}
  /\ UNCHANGED <<catalog, global, requests>>

Evaluated ==
  /\ discovery = "items" /\ todo = {}
  /\ evaluated' = inventory
  /\ published' = Append(published, inventory)
  /\ discovery' = "sleep" /\ items' = Empty /\ todo' = {} /\ inventory' = Empty
  /\ outdated' = {}
  /\ UNCHANGED <<catalog, requests>>

-----------------------------------------------------------------------------
(* A request: get_catalog_targets.                                         *)

Ask(r) ==
  /\ ask[r] = "idle"
  /\ ask' = [ask EXCEPT ![r] = "go"] /\ reply' = [reply EXCEPT ![r] = NoReply]
  /\ UNCHANGED <<cluster, thread, global>>

\* The operator answers with its inventory, which is passed on.
GoAnswers(r) ==
  /\ ask[r] = "go"
  /\ ask' = [ask EXCEPT ![r] = "idle"]
  /\ UNCHANGED <<cluster, thread, global, reply>>

\* No answer in five seconds, another status than 200, or no JSON.
GoFails(r) ==
  /\ ask[r] = "go"
  /\ ask' = [ask EXCEPT ![r] = "upgradeable"]
  /\ UNCHANGED <<cluster, thread, global, reply>>

Upgradeable(inv) == Cardinality({s \in DOMAIN inv : inv[s]})

ReadUpgradeable(r) ==
  /\ ask[r] = "upgradeable"
  /\ reply' = [reply EXCEPT ![r].upgradeable = Upgradeable(evaluated)]
  /\ ask' = [ask EXCEPT ![r] = "total"]
  /\ UNCHANGED <<cluster, thread, global>>

ReadTotal(r) ==
  /\ ask[r] = "total"
  /\ reply' = [reply EXCEPT ![r].total = Cardinality(DOMAIN evaluated)]
  /\ ask' = [ask EXCEPT ![r] = "operators"]
  /\ UNCHANGED <<cluster, thread, global>>

ReadOperators(r) ==
  /\ ask[r] = "operators"
  /\ reply' = [reply EXCEPT ![r].operators = evaluated]
  /\ ask' = [ask EXCEPT ![r] = "idle"]
  /\ UNCHANGED <<cluster, thread, global>>

\* The process is replaced; what was answered is of no interest any more.
RestartBrain ==
  /\ discovery' = "sleep" /\ items' = Empty /\ todo' = {} /\ inventory' = Empty
  /\ evaluated' = Empty /\ published' = <<Empty>> /\ outdated' = {}
  /\ ask' = [r \in BrainRequest |-> "idle"] /\ reply' = [r \in BrainRequest |-> NoReply]
  /\ UNCHANGED catalog

-----------------------------------------------------------------------------
(* The cluster, external.                                                  *)

\* Only what happens during a discovery is of interest.
Note(s) == outdated' = IF discovery = "items" THEN outdated \cup {s} ELSE outdated

\* The catalog source brings a newer version into the channel.
HeadMoves(s) ==
  /\ catalog[s].head < MaxVersion
  /\ catalog' = [catalog EXCEPT ![s].head = @ + 1]
  /\ IF catalog[s].there THEN Note(s) ELSE UNCHANGED outdated
  /\ UNCHANGED <<thread, global, requests>>

\* OLM installs the head of the channel.
Upgrade(s) ==
  /\ Behind(s)
  /\ catalog' = [catalog EXCEPT ![s].installed = catalog[s].head]
  /\ UNCHANGED <<outdated, thread, global, requests>>

\* A user subscribes, with nothing installed or with a CSV that was left over,
\* or removes the Subscription.
Create(s, v) ==
  /\ ~catalog[s].there /\ v <= catalog[s].head
  /\ catalog' = [catalog EXCEPT ![s] = [there |-> TRUE, installed |-> v, head |-> @.head]]
  /\ Note(s)
  /\ UNCHANGED <<thread, global, requests>>

Delete(s) ==
  /\ catalog[s].there
  /\ catalog' = [catalog EXCEPT ![s].there = FALSE]
  /\ Note(s)
  /\ UNCHANGED <<thread, global, requests>>

BNext ==
  \/ ListSubscriptions \/ DiscoveryFails \/ Evaluated \/ RestartBrain
  \/ \E s \in Subscription :
       QueryPackage(s) \/ HeadMoves(s) \/ Upgrade(s) \/ Delete(s)
       \/ \E v \in 0..MaxVersion : Create(s, v)
  \/ \E r \in BrainRequest :
       \/ Ask(r) \/ GoAnswers(r) \/ GoFails(r)
       \/ ReadUpgradeable(r) \/ ReadTotal(r) \/ ReadOperators(r)

BSpec == BInit /\ [][BNext]_bvars

-----------------------------------------------------------------------------
(* The list and the heads of the channels are read at different moments;   *)
(* still no upgrade is announced that the operator did not have at some    *)
(* moment of the discovery, unless its Subscription was removed or made    *)
(* anew meanwhile; one that has nothing installed yet counts as outdated.  *)
(* And a fallback answer announces nothing else: each of its parts is that *)
(* of a whole inventory of a finished discovery, no older than the part    *)
(* read before it, though not always of the same one (app.py:73-132,       *)
(* 194-199).                                                               *)
UpgradeWasThere ==
  /\ discovery = "items" => {s \in DOMAIN inventory : inventory[s]} \subseteq outdated
  /\ \A r \in BrainRequest : ask[r] = "idle" /\ reply[r] # NoReply =>
       \E i, j, k \in DOMAIN published :
         /\ i <= j /\ j <= k
         /\ reply[r].upgradeable = Upgradeable(published[i])
         /\ reply[r].total = Cardinality(DOMAIN published[j])
         /\ reply[r].operators = published[k]
=============================================================================
