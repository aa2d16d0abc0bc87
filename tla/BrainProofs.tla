----------------------------- MODULE BrainProofs ----------------------------
(***************************************************************************)
(* Proofs about the brain.                                                 *)
(*                                                                         *)
(* BrainInventory.tla, for any number of Subscriptions, versions,          *)
(* discoveries and requests: what is announced was there.                  *)
(*                                                                         *)
(* LeakWindow.tla, for windows of any length and any natural numbers as    *)
(* samples: the slope of the least squares line lies between the smallest  *)
(* and the largest rise from one sample to the next, so that an alarm is   *)
(* never without a rise that would pass the limit, and never missing when  *)
(* all of them would.                                                      *)
(***************************************************************************)
EXTENDS BrainInventory, LeakWindow, SequenceLemmas, TLAPS

-----------------------------------------------------------------------------
(* The brain's inventory.                                                  *)

BrainTypeOK ==
  /\ catalog \in [Subscription -> [there : BOOLEAN, installed : Nat, head : Nat]]
  /\ ask \in [BrainRequest -> {"idle", "go", "upgradeable", "total", "operators"}]
  /\ \A r \in BrainRequest : \E u, t, o :
       reply[r] = [upgradeable |-> u, total |-> t, operators |-> o]
  /\ reply = [r \in BrainRequest |-> reply[r]]
  /\ \E S : published \in Seq(S)

\* As long as nothing is noted about a Subscription of the list, its channel
\* has stayed where it was when the list was taken: behind what is installed.
WasBehind ==
  discovery = "items" =>
    /\ DOMAIN items \subseteq Subscription /\ todo \subseteq DOMAIN items
    /\ \A s \in DOMAIN items \ outdated :
         catalog[s].there /\ items[s] \in Nat /\ catalog[s].head <= items[s]
    /\ \A s \in DOMAIN inventory : inventory[s] => s \in outdated

\* The global is the last inventory published.
Latest == published # <<>> /\ published[Len(published)] = evaluated

\* The parts that a request has read so far are of published inventories, none
\* older than the part before it.
CountedFrom(r, i) == reply[r].upgradeable = Upgradeable(published[i])
SizedFrom(r, j) == reply[r].total = Cardinality(DOMAIN published[j])

ReadInOrder ==
  \A r \in BrainRequest :
    /\ ask[r] = "go" => reply[r] = NoReply
    /\ ask[r] = "total" => \E i \in DOMAIN published : CountedFrom(r, i)
    /\ ask[r] = "operators" =>
         \E i, j \in DOMAIN published : i <= j /\ CountedFrom(r, i) /\ SizedFrom(r, j)
    /\ ask[r] = "idle" /\ reply[r] # NoReply =>
         \E i, j, k \in DOMAIN published :
           /\ i <= j /\ j <= k
           /\ CountedFrom(r, i) /\ SizedFrom(r, j)
           /\ reply[r].operators = published[k]

BrainInv == BrainTypeOK /\ WasBehind /\ Latest /\ ReadInOrder

LEMMA BrainInit == BInit => BrainInv
<1> SUFFICES ASSUME BInit
             PROVE  BrainInv
  OBVIOUS
<1>1. BrainTypeOK /\ Latest
  <2>1. published = <<Empty>> /\ published \in Seq({Empty})
    BY DEF BInit
  <2>2. BrainTypeOK
    BY <2>1 DEF BInit, BrainTypeOK, NoReply
  <2>3. QED
    BY <2>1, <2>2 DEF BInit, Latest
<1>2. WasBehind /\ ReadInOrder
  BY DEF BInit, WasBehind, ReadInOrder
<1>3. QED
  BY <1>1, <1>2 DEF BrainInv

\* Steps of the cluster.
LEMMA ClusterBehind ==
  ASSUME BrainTypeOK, WasBehind, UNCHANGED thread, NEW s \in Subscription,
         \/ HeadMoves(s) \/ Upgrade(s) \/ Delete(s)
         \/ \E v \in 0..MaxVersion : Create(s, v)
  PROVE  WasBehind' /\ catalog' \in [Subscription -> [there : BOOLEAN, installed : Nat, head : Nat]]
<1>1. /\ UNCHANGED <<discovery, items, todo, inventory>>
      /\ \A q \in Subscription : catalog[q] \in [there : BOOLEAN, installed : Nat, head : Nat]
  BY DEF thread, BrainTypeOK
<1>2. PICK c \in [there : BOOLEAN, installed : Nat, head : Nat] : catalog' = [catalog EXCEPT ![s] = c]
  <2> DEFINE Entry == [there : BOOLEAN, installed : Nat, head : Nat]
             old == catalog[s]
  <2>1. old \in Entry
    BY <1>1
  <2>2. CASE HeadMoves(s)
    <3>1. catalog' = [catalog EXCEPT ![s] = [old EXCEPT !.head = @ + 1]]
      BY <2>2 DEF HeadMoves
    <3>2. [old EXCEPT !.head = @ + 1] \in Entry
      BY <2>1
    <3>3. QED
      BY <3>1, <3>2, Zenon
  <2>3. CASE Upgrade(s)
    <3>1. catalog' = [catalog EXCEPT ![s] = [old EXCEPT !.installed = old.head]]
      BY <2>3 DEF Upgrade
    <3>2. [old EXCEPT !.installed = old.head] \in Entry
      BY <2>1
    <3>3. QED
      BY <3>1, <3>2, Zenon
  <2>4. CASE Delete(s)
    <3>1. catalog' = [catalog EXCEPT ![s] = [old EXCEPT !.there = FALSE]]
      BY <2>4 DEF Delete
    <3>2. [old EXCEPT !.there = FALSE] \in Entry
      BY <2>1
    <3>3. QED
      BY <3>1, <3>2, Zenon
  <2>5. ASSUME NEW v \in 0..MaxVersion, Create(s, v)
        PROVE  \E d \in Entry : catalog' = [catalog EXCEPT ![s] = d]
    <3>1. catalog' = [catalog EXCEPT ![s] = [there |-> TRUE, installed |-> v, head |-> old.head]]
      BY <2>5 DEF Create
    <3>2. [there |-> TRUE, installed |-> v, head |-> old.head] \in Entry
      BY <2>1
    <3>3. QED
      BY <3>1, <3>2, Zenon
  <2>6. QED
    BY <2>2, <2>3, <2>4, <2>5
<1>3. /\ catalog' \in [Subscription -> [there : BOOLEAN, installed : Nat, head : Nat]]
      /\ \A q \in Subscription \ {s} : catalog'[q] = catalog[q]
  BY <1>2 DEF BrainTypeOK
<1>4. ASSUME discovery = "items"
      PROVE  /\ outdated \subseteq outdated'
             /\ \/ s \in outdated' \/ ~catalog[s].there
                \/ catalog'[s].head = catalog[s].head /\ catalog'[s].there = catalog[s].there
  <2>1. CASE HeadMoves(s)
    BY <1>4, <2>1 DEF HeadMoves, Note
  <2>2. CASE Upgrade(s)
    BY <1>1, <2>2 DEF Upgrade, BrainTypeOK
  <2>3. CASE Delete(s) \/ \E v \in 0..MaxVersion : Create(s, v)
    BY <1>4, <2>3 DEF Delete, Create, Note
  <2>4. QED
    BY <2>1, <2>2, <2>3
<1>5. WasBehind'
  BY <1>1, <1>3, <1>4 DEF WasBehind
<1>6. QED
  BY <1>3, <1>5

\* Steps of the discovery.
LEMMA DiscoveryBehind ==
  ASSUME BrainTypeOK, WasBehind, UNCHANGED catalog,
         \/ ListSubscriptions \/ DiscoveryFails \/ Evaluated \/ RestartBrain
         \/ \E s \in Subscription : QueryPackage(s)
         \/ UNCHANGED <<discovery, items, todo, inventory, outdated>>
  PROVE  WasBehind'
<1>1. CASE ListSubscriptions
  BY <1>1 DEF ListSubscriptions, Behind, Empty, BrainTypeOK, WasBehind
<1>2. CASE DiscoveryFails \/ Evaluated \/ RestartBrain
  BY <1>2 DEF DiscoveryFails, Evaluated, RestartBrain, WasBehind
<1>3. ASSUME NEW s \in Subscription, QueryPackage(s)
      PROVE  WasBehind'
  <2>1. /\ discovery = "items" /\ s \in todo /\ todo' = todo \ {s}
        /\ UNCHANGED <<discovery, items, outdated>>
        /\ inventory' = Appended(s, FALSE) \/ inventory' = Appended(s, Newer(s))
    BY <1>3 DEF QueryPackage, ListedAnyway, cluster
  <2>2. s \in DOMAIN items /\ (Newer(s) => s \in outdated)
    BY <2>1 DEF WasBehind, Newer, BrainTypeOK
  <2>3. ASSUME NEW b \in BOOLEAN, inventory' = Appended(s, b), b => s \in outdated,
               NEW q \in DOMAIN inventory', inventory'[q]
        PROVE  q \in outdated
    <3>1. q \in DOMAIN inventory \cup {s}
      BY <2>3 DEF Appended
    <3>2. inventory'[q] = IF q = s THEN b ELSE inventory[q]
      <4>1. Appended(s, b)[q] = IF q = s THEN b ELSE inventory[q]
        BY <3>1 DEF Appended
      <4>2. QED
        BY <2>3, <4>1, Zenon
    <3>3. CASE q = s
      BY <2>3, <3>2, <3>3
    <3>4. CASE q # s
      BY <2>1, <2>3, <3>1, <3>2, <3>4 DEF WasBehind
    <3>5. QED
      BY <3>3, <3>4
  <2>4. Newer(s) \in BOOLEAN
    BY DEF Newer
  <2>5. \A q \in DOMAIN inventory' : inventory'[q] => q \in outdated'
    BY <2>1, <2>2, <2>3, <2>4
  <2>6. QED
    BY <2>1, <2>5 DEF WasBehind
<1>4. CASE UNCHANGED <<discovery, items, todo, inventory, outdated>>
  BY <1>4 DEF WasBehind
<1>5. QED
  BY <1>1, <1>2, <1>3, <1>4

\* A later inventory takes nothing away from what was read.
LEMMA PublishedGrows ==
  ASSUME BrainTypeOK, Latest, ReadInOrder, UNCHANGED requests,
         \/ published' = Append(published, evaluated')
         \/ UNCHANGED global
  PROVE  /\ \E S : published' \in Seq(S)
         /\ Latest' /\ ReadInOrder'
<1>1. UNCHANGED <<ask, reply>>
  BY DEF requests
<1>2. CASE UNCHANGED global
  <2>1. UNCHANGED <<evaluated, published>>
    BY <1>2 DEF global
  <2>2. QED
    BY <1>1, <2>1 DEF BrainTypeOK, Latest, ReadInOrder, CountedFrom, SizedFrom
<1>3. CASE published' = Append(published, evaluated')
  <2>1. PICK S : published \in Seq(S)
    BY DEF BrainTypeOK
  <2>2. /\ published \in Seq(S \cup {evaluated'}) /\ Len(published) \in Nat
        /\ DOMAIN published = 1..Len(published)
    BY <2>1
  <2>3. /\ published' \in Seq(S \cup {evaluated'})
        /\ DOMAIN published' = 1..(Len(published) + 1) /\ Len(published') = Len(published) + 1
        /\ published'[Len(published) + 1] = evaluated'
        /\ \A i \in DOMAIN published : i \in DOMAIN published' /\ published'[i] = published[i]
    BY <1>3, <2>2
  <2>4. Latest'
    BY <2>2, <2>3 DEF Latest
  <2>5. \A r \in BrainRequest, i \in DOMAIN published :
          /\ CountedFrom(r, i) => CountedFrom(r, i)'
          /\ SizedFrom(r, i) => SizedFrom(r, i)'
    BY <1>1, <2>3 DEF CountedFrom, SizedFrom, Upgradeable
  <2>6. ReadInOrder'
    BY <1>1, <2>3, <2>5 DEF ReadInOrder
  <2>7. QED
    BY <2>3, <2>4, <2>6
<1>4. QED
  BY <1>2, <1>3

\* Steps of one request.
RequestStep(r) == \/ Ask(r) \/ GoAnswers(r) \/ GoFails(r)
                  \/ ReadUpgradeable(r) \/ ReadTotal(r) \/ ReadOperators(r)

LEMMA RequestReads ==
  ASSUME BrainTypeOK, Latest, ReadInOrder, NEW r \in BrainRequest, RequestStep(r)
  PROVE  BrainTypeOK' /\ Latest' /\ ReadInOrder' /\ UNCHANGED <<cluster, thread>>
<1> DEFINE Stages == {"idle", "go", "upgradeable", "total", "operators"}
           Fields(rep) == \E u, t, o : rep = [upgradeable |-> u, total |-> t, operators |-> o]
           last == Len(published)
<1>1. /\ UNCHANGED <<catalog, outdated, evaluated, published>> /\ UNCHANGED <<cluster, thread>>
      /\ last \in DOMAIN published /\ last \in Nat /\ published[last] = evaluated
      /\ \A i \in DOMAIN published : i \in Nat /\ i <= last
  <2>1. PICK S : published \in Seq(S)
    BY DEF BrainTypeOK
  <2>2. last \in DOMAIN published /\ last \in Nat /\ \A i \in DOMAIN published : i \in Nat /\ i <= last
    BY <2>1 DEF Latest
  <2>3. QED
    BY <2>2 DEF RequestStep, Ask, GoAnswers, GoFails, ReadUpgradeable, ReadTotal, ReadOperators,
                cluster, global, Latest
<1>2. PICK to \in Stages : ask' = [ask EXCEPT ![r] = to]
  BY DEF RequestStep, Ask, GoAnswers, GoFails, ReadUpgradeable, ReadTotal, ReadOperators
<1>3. PICK rep : Fields(rep) /\ reply' = [reply EXCEPT ![r] = rep]
  <2>1. PICK u, t, o : reply[r] = [upgradeable |-> u, total |-> t, operators |-> o]
    BY DEF BrainTypeOK
  <2>2. CASE Ask(r)
    BY <2>2 DEF Ask, NoReply
  <2>3. CASE GoAnswers(r) \/ GoFails(r)
    <3>1. reply' = [reply EXCEPT ![r] = reply[r]]
      BY <2>3 DEF GoAnswers, GoFails, BrainTypeOK
    <3>2. QED
      BY <2>1, <3>1
  <2>4. CASE ReadUpgradeable(r)
    <3>1. reply' = [reply EXCEPT ![r] = [reply[r] EXCEPT !.upgradeable = Upgradeable(evaluated)]]
      BY <2>4 DEF ReadUpgradeable
    <3>2. [reply[r] EXCEPT !.upgradeable = Upgradeable(evaluated)]
            = [upgradeable |-> Upgradeable(evaluated), total |-> t, operators |-> o]
      BY <2>1
    <3>3. QED
      BY <3>1, <3>2, Zenon
  <2>5. CASE ReadTotal(r)
    <3>1. reply' = [reply EXCEPT ![r] = [reply[r] EXCEPT !.total = Cardinality(DOMAIN evaluated)]]
      BY <2>5 DEF ReadTotal
    <3>2. [reply[r] EXCEPT !.total = Cardinality(DOMAIN evaluated)]
            = [upgradeable |-> u, total |-> Cardinality(DOMAIN evaluated), operators |-> o]
      BY <2>1
    <3>3. QED
      BY <3>1, <3>2, Zenon
  <2>6. CASE ReadOperators(r)
    <3>1. reply' = [reply EXCEPT ![r] = [reply[r] EXCEPT !.operators = evaluated]]
      BY <2>6 DEF ReadOperators
    <3>2. [reply[r] EXCEPT !.operators = evaluated]
            = [upgradeable |-> u, total |-> t, operators |-> evaluated]
      BY <2>1
    <3>3. QED
      BY <3>1, <3>2, Zenon
  <2>7. QED
    BY <2>2, <2>3, <2>4, <2>5, <2>6 DEF RequestStep
<1>4. /\ \A q \in BrainRequest \ {r} : ask'[q] = ask[q] /\ reply'[q] = reply[q]
      /\ ask'[r] = to /\ reply'[r] = rep
      /\ reply' = [q \in BrainRequest |-> reply'[q]]
  <2>1. reply = [q \in BrainRequest |-> reply[q]]
    BY DEF BrainTypeOK
  <2>2. reply' = [q \in BrainRequest |-> IF q = r THEN rep ELSE reply[q]]
    BY <1>3, <2>1
  <2>3. QED
    BY <1>2, <2>2 DEF BrainTypeOK
<1>5. BrainTypeOK' /\ Latest'
  <2>1. ask' \in [BrainRequest -> Stages]
    BY <1>2 DEF BrainTypeOK
  <2>2. ASSUME NEW q \in BrainRequest
        PROVE  Fields(reply'[q])
    <3>1. Fields(reply[q]) /\ (reply'[q] = rep \/ reply'[q] = reply[q])
      BY <1>4 DEF BrainTypeOK
    <3>2. QED
      BY <1>3, <3>1, Zenon
  <2>3. catalog' = catalog /\ published' = published
    BY <1>1
  <2>4. QED
    BY <1>1, <1>4, <2>1, <2>2, <2>3 DEF BrainTypeOK, Latest
<1>6. /\ UNCHANGED published
      /\ \A i \in DOMAIN published :
           /\ CountedFrom(r, i)' <=> rep.upgradeable = Upgradeable(published[i])
           /\ SizedFrom(r, i)' <=> rep.total = Cardinality(DOMAIN published[i])
      /\ \A q \in BrainRequest \ {r}, i \in DOMAIN published :
           /\ CountedFrom(q, i)' <=> CountedFrom(q, i)
           /\ SizedFrom(q, i)' <=> SizedFrom(q, i)
  BY <1>1, <1>4 DEF CountedFrom, SizedFrom, Upgradeable
<1> DEFINE InOrder(q) ==
      /\ ask[q] = "go" => reply[q] = NoReply
      /\ ask[q] = "total" => \E i \in DOMAIN published : CountedFrom(q, i)
      /\ ask[q] = "operators" =>
           \E i, j \in DOMAIN published : i <= j /\ CountedFrom(q, i) /\ SizedFrom(q, j)
      /\ ask[q] = "idle" /\ reply[q] # NoReply =>
           \E i, j, k \in DOMAIN published :
             /\ i <= j /\ j <= k
             /\ CountedFrom(q, i) /\ SizedFrom(q, j)
             /\ reply[q].operators = published[k]
<1>7. InOrder(r)'
  <2>1. CASE Ask(r) \/ GoAnswers(r) \/ GoFails(r)
    <3>1. /\ ask'[r] \in {"idle", "go", "upgradeable"}
          /\ reply'[r] = NoReply
      BY <2>1 DEF Ask, GoAnswers, GoFails, ReadInOrder, BrainTypeOK
    <3>2. QED
      BY <3>1
  <2>2. CASE ReadUpgradeable(r)
    <3>1. ask'[r] = "total" /\ rep.upgradeable = Upgradeable(evaluated)
      BY <1>4, <2>2 DEF ReadUpgradeable, BrainTypeOK
    <3>2. CountedFrom(r, last)'
      BY <1>1, <1>6, <3>1
    <3>3. QED
      BY <1>1, <3>1, <3>2
  <2>3. CASE ReadTotal(r)
    <3>1. /\ ask'[r] = "operators" /\ rep.total = Cardinality(DOMAIN evaluated)
          /\ rep.upgradeable = reply[r].upgradeable
      BY <1>4, <2>3 DEF ReadTotal, BrainTypeOK
    <3>2. PICK i \in DOMAIN published : CountedFrom(r, i)
      BY <2>3 DEF ReadTotal, ReadInOrder
    <3>3. CountedFrom(r, i)' /\ SizedFrom(r, last)' /\ i <= last
      BY <1>1, <1>6, <3>1, <3>2 DEF CountedFrom
    <3>4. QED
      BY <1>1, <3>1, <3>3
  <2>4. CASE ReadOperators(r)
    <3>1. /\ ask'[r] = "idle" /\ rep.operators = evaluated
          /\ rep.upgradeable = reply[r].upgradeable /\ rep.total = reply[r].total
      BY <1>4, <2>4 DEF ReadOperators, BrainTypeOK
    <3>2. PICK i, j \in DOMAIN published : i <= j /\ CountedFrom(r, i) /\ SizedFrom(r, j)
      BY <2>4 DEF ReadOperators, ReadInOrder
    <3>3. CountedFrom(r, i)' /\ SizedFrom(r, j)' /\ j <= last
      BY <1>1, <1>6, <3>1, <3>2 DEF CountedFrom, SizedFrom
    <3>4. QED
      BY <1>1, <1>4, <3>1, <3>2, <3>3
  <2>5. QED
    BY <2>1, <2>2, <2>3, <2>4 DEF RequestStep
<1>8. ASSUME NEW q \in BrainRequest \ {r}
      PROVE  InOrder(q)'
  <2>1. InOrder(q)
    BY DEF ReadInOrder
  <2>2. QED
    BY <1>1, <1>4, <1>6, <2>1
<1>9. ReadInOrder'
  <2>1. \A q \in BrainRequest : InOrder(q)'
    BY <1>7, <1>8
  <2>2. QED
    BY <2>1 DEF ReadInOrder
<1>10. QED
  BY <1>1, <1>5, <1>9

LEMMA BrainNext == BrainInv /\ [BNext]_bvars => BrainInv'
<1> SUFFICES ASSUME BrainInv, [BNext]_bvars
             PROVE  BrainInv'
  OBVIOUS
<1> USE DEF BrainInv
<1>1. ASSUME NEW r \in BrainRequest, RequestStep(r)
      PROVE  BrainInv'
  <2>1. BrainTypeOK' /\ Latest' /\ ReadInOrder' /\ UNCHANGED <<cluster, thread>>
    BY <1>1, RequestReads
  <2>2. WasBehind'
    BY <2>1, DiscoveryBehind DEF cluster, thread
  <2>3. QED
    BY <2>1, <2>2
<1>2. ASSUME NEW s \in Subscription,
             \/ HeadMoves(s) \/ Upgrade(s) \/ Delete(s)
             \/ \E v \in 0..MaxVersion : Create(s, v)
      PROVE  BrainInv'
  <2>1. UNCHANGED <<thread, global, requests>>
    BY <1>2 DEF HeadMoves, Upgrade, Delete, Create
  <2>2. WasBehind' /\ catalog' \in [Subscription -> [there : BOOLEAN, installed : Nat, head : Nat]]
    BY <1>2, <2>1, ClusterBehind
  <2>3. Latest' /\ ReadInOrder' /\ \E S : published' \in Seq(S)
    BY <2>1, PublishedGrows
  <2>4. QED
    BY <2>1, <2>2, <2>3 DEF BrainTypeOK, requests
<1>3. CASE \/ ListSubscriptions \/ DiscoveryFails \/ Evaluated
           \/ \E s \in Subscription : QueryPackage(s)
           \/ UNCHANGED bvars
  <2>1. UNCHANGED <<catalog, requests>>
        /\ (UNCHANGED global \/ published' = Append(published, evaluated'))
    BY <1>3 DEF ListSubscriptions, DiscoveryFails, Evaluated, QueryPackage, bvars, cluster
  <2>2. WasBehind'
    BY <1>3, <2>1, DiscoveryBehind DEF bvars, cluster, thread
  <2>3. Latest' /\ ReadInOrder' /\ \E S : published' \in Seq(S)
    BY <2>1, PublishedGrows
  <2>4. QED
    BY <2>1, <2>2, <2>3 DEF BrainTypeOK, requests
<1>4. CASE RestartBrain
  <2>1. /\ published' = <<Empty>> /\ evaluated' = Empty /\ UNCHANGED catalog
        /\ ask' = [r \in BrainRequest |-> "idle"] /\ reply' = [r \in BrainRequest |-> NoReply]
    BY <1>4 DEF RestartBrain
  <2>2. published' \in Seq({Empty})
    BY <2>1
  <2>3. BrainTypeOK'
    BY <2>1, <2>2 DEF BrainTypeOK, NoReply
  <2>4. Latest' /\ ReadInOrder'
    BY <2>1 DEF Latest, ReadInOrder
  <2>5. WasBehind'
    BY <1>4, <2>1, DiscoveryBehind
  <2>6. QED
    BY <2>3, <2>4, <2>5
<1>5. QED
  BY <1>1, <1>2, <1>3, <1>4 DEF BNext, RequestStep

(* No upgrade is announced that was not there at some moment of the        *)
(* discovery, and a fallback answer is put together of whole inventories   *)
(* in the order they were published, for any number of Subscriptions,      *)
(* requests, discoveries and restarts (app.py:73-132, 194-199).            *)
THEOREM UpgradeAlwaysWasThere == BSpec => []UpgradeWasThere
<1>1. BrainInv => UpgradeWasThere
  BY DEF BrainInv, WasBehind, ReadInOrder, CountedFrom, SizedFrom, UpgradeWasThere
<1>2. QED
  BY <1>1, BrainInit, BrainNext, PTL DEF BSpec

-----------------------------------------------------------------------------
(* A sum over 0..(n - 1) is the last of its partial sums.                  *)

\* f adds up w over the sets of indices, as MapThenSumSet does.
SumsUp(f, S, w) ==
  f = [s \in SUBSET S |-> IF s = {} THEN 0 ELSE w[OneOf(s)] + f[s \ {OneOf(s)}]]

\* p has the sums of w up to each place.
PartialSums(p, n, w) ==
  /\ p \in [0..n -> Int] /\ p[0] = 0
  /\ \A k \in 0..(n - 1) : p[k + 1] = p[k] + w[k]

\* Each index stands for as many things of its own as its summand says.
LEMMA PartialSumsReachTheSum ==
  ASSUME NEW n \in Nat, NEW w \in [0..(n - 1) -> Nat]
  PROVE  /\ \E f : SumsUp(f, 0..(n - 1), w)
         /\ \E p \in [0..n -> Nat] :
              /\ PartialSums(p, n, w)
              /\ \A f : SumsUp(f, 0..(n - 1), w) => f[0..(n - 1)] = p[n]
<1> DEFINE S == 0..(n - 1)
           family == [x \in S |-> {x} \X (1..w[x])]
           p == [k \in 0..n |-> Cardinality(Together(family, 0..(k - 1)))]
<1>1. ASSUME NEW x \in S
      PROVE  IsFiniteSet(family[x]) /\ Cardinality(family[x]) = w[x]
  <2>1. w[x] \in Nat /\ IsFiniteSet(1..w[x]) /\ Cardinality(1..w[x]) = w[x]
    <3>1. w[x] \in Nat
      OBVIOUS
    <3> DEFINE m == w[x]
    <3> HIDE DEF m
    <3>2. m \in Nat => IsFiniteSet(1..m) /\ Cardinality(1..m) = IF 1 > m THEN 0 ELSE m - 1 + 1
      BY FS_Interval, 1 \in Int, \A i \in Nat : i \in Int
    <3>3. m \in Nat => Cardinality(1..m) = m
      BY <3>2
    <3>4. QED
      BY <3>1, <3>2, <3>3 DEF m
  <2>2. IsFiniteSet({x}) /\ Cardinality({x}) = 1
    BY FS_Singleton
  <2>3. /\ IsFiniteSet({x} \X (1..w[x]))
        /\ Cardinality({x} \X (1..w[x])) = Cardinality({x}) * Cardinality(1..w[x])
    BY <2>1, <2>2, FS_Product
  <2>4. QED
    BY <2>1, <2>2, <2>3
<1>2. DisjointFamily(S, family)
  <2>1. \A x, y \in S : x # y => family[x] \cap family[y] = {}
    OBVIOUS
  <2> HIDE DEF family, S
  <2>2. QED
    BY <1>1, <2>1 DEF DisjointFamily
<1>3. IsFiniteSet(S)
  BY FS_Interval
<1>4. \A s \in SUBSET S : s # {} => Cardinality(family[OneOf(s)]) = w[OneOf(s)]
  BY <1>1 DEF OneOf
<1>5. ASSUME NEW f
      PROVE  SumsUp(f, S, w) <=> Adds(f, S, family)
  <2> HIDE DEF family, S
  <2> DEFINE F == [s \in SUBSET S |-> IF s = {} THEN 0 ELSE w[OneOf(s)] + f[s \ {OneOf(s)}]]
             G == [s \in SUBSET S |-> IF s = {} THEN 0
                     ELSE Cardinality(family[OneOf(s)]) + f[s \ {OneOf(s)}]]
  <2>1. F = G
    BY <1>4
  <2>2. QED
    BY <2>1 DEF SumsUp, Adds
<1>6. ASSUME NEW k \in 0..n
      PROVE  0..(k - 1) \in SUBSET S
  OBVIOUS
<1>7. p \in [0..n -> Nat]
  <2> HIDE DEF family, S
  <2> QED
    BY <1>2, <1>3, <1>6, TogetherFacts
<1>8. p[0] = 0
  <2>1. 0..(0 - 1) = {}
    OBVIOUS
  <2>2. Together(family, {}) = {}
    BY DEF Together
  <2>3. QED
    BY <2>1, <2>2, FS_EmptySet
<1>9. ASSUME NEW k \in 0..(n - 1)
      PROVE  p[k + 1] = p[k] + w[k]
  <2> DEFINE old == 0..(k - 1)
             A == Together(family, old)
             B == family[k]
  <2>1. 0..k = old \cup {k} /\ k \in S /\ k \notin old /\ old \in SUBSET S
    OBVIOUS
  <2>2. Together(family, 0..k) = A \cup B
    <3> HIDE DEF family, S, old
    <3> QED
      BY <2>1 DEF Together
  <2>3. A \cap B = {}
    <3> HIDE DEF family, S, old
    <3> QED
      BY <1>2, <2>1 DEF Together, DisjointFamily
  <2>4. /\ IsFiniteSet(A) /\ Cardinality(A) \in Nat
        /\ IsFiniteSet(B) /\ Cardinality(B) = w[k] /\ w[k] \in Nat
    <3>1. w[k] \in Nat
      BY <2>1
    <3> HIDE DEF family, S, old
    <3>2. QED
      BY <1>1, <1>2, <1>3, <2>1, <3>1, TogetherFacts
  <2>5. p[k + 1] = Cardinality(Together(family, 0..k)) /\ p[k] = Cardinality(A)
    <3>1. k + 1 \in 0..n /\ k \in 0..n /\ (k + 1) - 1 = k
      OBVIOUS
    <3> HIDE DEF family, S
    <3>2. QED
      BY <3>1
  <2> HIDE DEF A, B, old, p, family, S
  <2>6. Cardinality(A \cup B) = Cardinality(A) + Cardinality(B) - Cardinality(A \cap B)
    BY <2>4, FS_Union
  <2>7. Cardinality(A \cap B) = 0
    BY <2>3, FS_EmptySet
  <2>8. Cardinality(A \cup B) = Cardinality(A) + w[k]
    BY <2>4, <2>6, <2>7
  <2>9. QED
    BY <2>2, <2>5, <2>8
<1>10. p[n] = Cardinality(Together(family, S))
  OBVIOUS
<1> HIDE DEF p, family, S
<1>11. PartialSums(p, n, w)
  BY <1>7, <1>8, <1>9 DEF PartialSums
<1>12. /\ \E f : SumsUp(f, S, w)
       /\ \A f : SumsUp(f, S, w) => f[S] = p[n]
  BY <1>2, <1>3, <1>5, <1>10, SumOfSizes
<1>13. QED
  BY <1>7, <1>11, <1>12 DEF S

-----------------------------------------------------------------------------
(* The covariance of a rising sequence with its index.                     *)

\* What the covariance grows by with each sample, and that in its parts.
LEMMA ProductsOfSteps ==
  ASSUME NEW k \in Int, NEW m \in Int, NEW a \in Int, NEW u \in Int, NEW v \in Int,
         NEW x \in Int, NEW z \in Int
  PROVE  /\ (m + 1) * (v + m * z) - (a + m) * (u + z)
             = (m * v - a * u) + (v + m * m * z - a * z - m * u)
         /\ (v + k * x) + (k + 1) * m * z - (a + k) * z - m * (u + x)
             = (v + k * m * z - a * z - m * u) + (m - k) * (z - x)
<1>1. /\ (m + 1) * (v + m * z) = m * v + v + m * m * z + m * z
      /\ (a + m) * (u + z) = a * u + a * z + m * u + m * z
  OBVIOUS
<1>2. /\ (k + 1) * m * z = k * m * z + m * z
      /\ (a + k) * z = a * z + k * z
      /\ m * (u + x) = m * u + m * x
      /\ (m - k) * (z - x) = m * z - m * x - k * z + k * x
  OBVIOUS
<1>3. QED
  BY <1>1, <1>2

Rising(z, n) ==
  /\ z \in [0..(n - 1) -> Int]
  /\ \A k \in 0..(n - 2) : z[k] <= z[k + 1]

Weighted(z, n) == [k \in 0..(n - 1) |-> k * z[k]]

LEMMA RisesAddUp ==
  ASSUME NEW n \in Nat, NEW z, Rising(z, n), NEW i \in 0..(n - 1), NEW j \in i..(n - 1)
  PROVE  z[i] <= z[j]
<1> DEFINE Bad == {l \in i..(n - 1) : ~(z[i] <= z[l])}
<1>1. SUFFICES ASSUME Bad # {} PROVE FALSE
  OBVIOUS
<1>2. Bad \in SUBSET Nat
  OBVIOUS
<1> HIDE DEF Bad
<1>3. PICK l \in Bad : \A b \in Bad : l <= b
  BY <1>1, <1>2, MinFacts
<1>4. l \in i..(n - 1) /\ ~(z[i] <= z[l])
  BY DEF Bad
<1>5. z[i] \in Int /\ z[l] \in Int
  BY <1>4 DEF Rising
<1>6. l # i
  BY <1>4, <1>5
<1>7. l - 1 \in i..(n - 1) /\ l - 1 \in 0..(n - 2) /\ (l - 1) + 1 = l /\ ~(l <= l - 1)
  BY <1>4, <1>6
<1>8. l - 1 \notin Bad
  BY <1>3, <1>7
<1>9. z[i] <= z[l - 1]
  BY <1>7, <1>8 DEF Bad
<1>10. z[l - 1] <= z[l] /\ z[l - 1] \in Int
  BY <1>7 DEF Rising
<1>11. QED
  BY <1>4, <1>5, <1>9, <1>10

\* One sample more does not make the covariance smaller.
LEMMA CovarianceGrows ==
  ASSUME NEW n \in Nat, NEW z, Rising(z, n), NEW a, NEW u, NEW v,
         PartialSums(a, n, [k \in 0..(n - 1) |-> k]), PartialSums(u, n, z),
         PartialSums(v, n, Weighted(z, n)), NEW m \in 0..(n - 1)
  PROVE  m * v[m] - a[m] * u[m] <= (m + 1) * v[m + 1] - a[m + 1] * u[m + 1]
<1> DEFINE part == [k \in 0..m |-> v[k] + k * m * z[m] - a[k] * z[m] - m * u[k]]
           Bad == {k \in 0..m : ~(0 <= part[k])}
<1>1. /\ \A k \in 0..m : /\ k \in 0..n /\ k \in 0..(n - 1) /\ k \in Int
                         /\ z[k] \in Int /\ a[k] \in Int /\ u[k] \in Int /\ v[k] \in Int
      /\ m \in 0..m /\ m \in Int
  BY DEF Rising, PartialSums
<1>2. /\ a[0] = 0 /\ u[0] = 0 /\ v[0] = 0
      /\ \A k \in 0..m : a[k + 1] = a[k] + k /\ u[k + 1] = u[k] + z[k] /\ v[k + 1] = v[k] + k * z[k]
  BY <1>1 DEF PartialSums, Weighted
<1>3. \A k \in 0..m : part[k] \in Int
  BY <1>1
<1>4. part[0] = 0
  <2>1. 0 \in 0..m
    OBVIOUS
  <2>2. part[0] = v[0] + 0 * m * z[m] - a[0] * z[m] - m * u[0]
    BY <2>1
  <2>3. QED
    BY <1>1, <1>2, <2>2
<1>5. ASSUME NEW k \in 0..(m - 1)
      PROVE  part[k] <= part[k + 1]
  <2>1. k \in 0..m /\ k + 1 \in 0..m
    OBVIOUS
  <2>2. part[k + 1] = (v[k] + k * z[k]) + (k + 1) * m * z[m] - (a[k] + k) * z[m] - m * (u[k] + z[k])
    BY <1>2, <2>1
  <2>3. part[k] = v[k] + k * m * z[m] - a[k] * z[m] - m * u[k]
    BY <2>1
  <2>4. part[k + 1] = part[k] + (m - k) * (z[m] - z[k])
    <3> HIDE DEF part
    <3> DEFINE ak == a[k]
               uk == u[k]
               vk == v[k]
               zk == z[k]
               zm == z[m]
    <3>1. /\ ak \in Int /\ uk \in Int /\ vk \in Int /\ zk \in Int /\ zm \in Int
          /\ k \in Int /\ m \in Int
      BY <1>1, <2>1
    <3> HIDE DEF ak, uk, vk, zk, zm
    <3>2. (vk + k * zk) + (k + 1) * m * zm - (ak + k) * zm - m * (uk + zk)
             = (vk + k * m * zm - ak * zm - m * uk) + (m - k) * (zm - zk)
      BY <3>1, ProductsOfSteps
    <3>3. QED
      BY <2>2, <2>3, <3>2 DEF ak, uk, vk, zk, zm
  <2>5. z[k] <= z[m]
    BY <2>1, RisesAddUp
  <2>6. 0 <= (m - k) * (z[m] - z[k])
    <3>1. m - k \in Nat /\ z[m] - z[k] \in Nat
      BY <1>1, <2>1, <2>5
    <3>2. \A x, y \in Nat : 0 <= x * y
      OBVIOUS
    <3>3. QED
      BY <3>1, <3>2
  <2>7. (m - k) * (z[m] - z[k]) \in Int
    BY <1>1, <2>1
  <2> HIDE DEF part
  <2>8. QED
    BY <1>3, <2>1, <2>4, <2>6, <2>7
<1> HIDE DEF part
<1>6. 0 <= part[m]
  <2>1. SUFFICES ASSUME Bad # {} PROVE FALSE
    BY <1>1
  <2>2. Bad \in SUBSET Nat
    OBVIOUS
  <2> HIDE DEF Bad
  <2>3. PICK k \in Bad : \A b \in Bad : k <= b
    BY <2>1, <2>2, MinFacts
  <2>4. k \in 0..m /\ ~(0 <= part[k])
    BY DEF Bad
  <2>5. k # 0
    BY <1>4, <2>4
  <2>6. k - 1 \in 0..m /\ k - 1 \in 0..(m - 1) /\ (k - 1) + 1 = k /\ ~(k <= k - 1)
    BY <2>4, <2>5
  <2>7. k - 1 \notin Bad
    BY <2>3, <2>6
  <2>8. 0 <= part[k - 1]
    BY <2>6, <2>7 DEF Bad
  <2>9. part[k - 1] <= part[k]
    BY <1>5, <2>6
  <2>10. QED
    BY <1>3, <2>4, <2>6, <2>8, <2>9
<1>7. QED
  <2> DEFINE am == a[m]
             um == u[m]
             vm == v[m]
             zm == z[m]
  <2>1. am \in Int /\ um \in Int /\ vm \in Int /\ zm \in Int /\ m \in Int
    BY <1>1
  <2>2. part[m] = vm + m * m * zm - am * zm - m * um
    BY <1>1 DEF part
  <2>3. a[m + 1] = am + m /\ u[m + 1] = um + zm /\ v[m + 1] = vm + m * zm
    BY <1>1, <1>2
  <2> HIDE DEF am, um, vm, zm
  <2>4. (m + 1) * (vm + m * zm) - (am + m) * (um + zm) = (m * vm - am * um) + part[m]
    BY <2>1, <2>2, ProductsOfSteps
  <2>5. m * vm - am * um \in Int /\ part[m] \in Int
    BY <1>1, <1>3, <2>1
  <2>6. m * vm - am * um <= (m + 1) * (vm + m * zm) - (am + m) * (um + zm)
    BY <1>6, <2>4, <2>5
  <2>7. QED
    BY <2>3, <2>6 DEF am, um, vm

\* From two samples on it is at least the first rise.
LEMMA CovarianceIsLarge ==
  ASSUME NEW n \in Nat, n >= 2, NEW z, Rising(z, n), NEW a, NEW u, NEW v,
         PartialSums(a, n, [k \in 0..(n - 1) |-> k]), PartialSums(u, n, z),
         PartialSums(v, n, Weighted(z, n))
  PROVE  z[1] - z[0] <= n * v[n] - a[n] * u[n]
<1> DEFINE cov == [m \in 0..n |-> m * v[m] - a[m] * u[m]]
           Bad == {m \in 2..n : ~(z[1] - z[0] <= cov[m])}
<1>1. \A m \in 0..n : m \in Int /\ v[m] \in Int /\ a[m] \in Int /\ u[m] \in Int
  <2>1. a \in [0..n -> Int] /\ u \in [0..n -> Int] /\ v \in [0..n -> Int]
    BY DEF PartialSums
  <2>2. QED
    BY <2>1
<1>2. \A m \in 0..n : cov[m] \in Int
  <2>1. \A i, j, k, l \in Int : i * j - k * l \in Int
    OBVIOUS
  <2>2. \A m \in 0..n : m * v[m] - a[m] * u[m] \in Int
    BY <1>1, <2>1
  <2>3. QED
    BY <2>2
<1>3. z[0] \in Int /\ z[1] \in Int
  BY DEF Rising
<1>4. cov[2] = z[1] - z[0]
  <2>1. 0 \in 0..(n - 1) /\ 1 \in 0..(n - 1) /\ 2 \in 0..n
    OBVIOUS
  <2>2. /\ a[0 + 1] = a[0] + 0 /\ u[0 + 1] = u[0] + z[0] /\ v[0 + 1] = v[0] + 0 * z[0]
        /\ a[1 + 1] = a[1] + 1 /\ u[1 + 1] = u[1] + z[1] /\ v[1 + 1] = v[1] + 1 * z[1]
        /\ a[0] = 0 /\ u[0] = 0 /\ v[0] = 0
    BY <2>1 DEF PartialSums, Weighted
  <2>3. a[2] = 1 /\ u[2] = z[0] + z[1] /\ v[2] = z[1]
    BY <1>3, <2>2
  <2>4. QED
    BY <1>3, <2>1, <2>3
<1>5. ASSUME NEW m \in 0..(n - 1)
      PROVE  cov[m] <= cov[m + 1]
  <2>1. m \in 0..n /\ m + 1 \in 0..n
    OBVIOUS
  <2>2. m * v[m] - a[m] * u[m] <= (m + 1) * v[m + 1] - a[m + 1] * u[m + 1]
    BY CovarianceGrows
  <2>3. QED
    BY <2>1, <2>2
<1>6. cov[n] = n * v[n] - a[n] * u[n]
  OBVIOUS
<1> HIDE DEF cov
<1>7. z[1] - z[0] <= cov[n]
  <2>1. SUFFICES ASSUME Bad # {} PROVE FALSE
    OBVIOUS
  <2>2. Bad \in SUBSET Nat
    OBVIOUS
  <2> HIDE DEF Bad
  <2>3. PICK m \in Bad : \A b \in Bad : m <= b
    BY <2>1, <2>2, MinFacts
  <2>4. m \in 2..n /\ ~(z[1] - z[0] <= cov[m])
    BY DEF Bad
  <2>5. m # 2
    BY <1>3, <1>4, <2>4
  <2>6. m - 1 \in 2..n /\ m - 1 \in 0..(n - 1) /\ (m - 1) + 1 = m /\ ~(m <= m - 1) /\ m \in 0..n
    BY <2>4, <2>5
  <2>7. m - 1 \notin Bad
    BY <2>3, <2>6
  <2>8. z[1] - z[0] <= cov[m - 1]
    BY <2>6, <2>7 DEF Bad
  <2>9. cov[m - 1] <= cov[m]
    BY <1>5, <2>6
  <2>10. cov[m - 1] \in Int /\ cov[m] \in Int
    BY <1>2, <2>6
  <2>11. QED
    BY <1>3, <2>4, <2>8, <2>9, <2>10
<1>8. QED
  BY <1>6, <1>7

-----------------------------------------------------------------------------
(* The least squares line.                                                 *)

\* The four sums of the fit, with their partial sums.
LEMMA SlopeSums ==
  ASSUME NEW y \in Seq(Nat), NEW n, n = Len(y)
  PROVE  \E a, b, c, d \in [0..n -> Nat] :
           /\ PartialSums(a, n, [k \in 0..(n - 1) |-> k])
           /\ PartialSums(b, n, [k \in 0..(n - 1) |-> k * k])
           /\ PartialSums(c, n, [k \in 0..(n - 1) |-> y[k + 1]])
           /\ PartialSums(d, n, [k \in 0..(n - 1) |-> k * y[k + 1]])
           /\ SlopeNum(y) = n * d[n] - a[n] * c[n]
           /\ SlopeDen(y) = n * b[n] - a[n] * a[n]
<1> DEFINE S == 0..(n - 1)
           wa == [k \in S |-> k]
           wb == [k \in S |-> k * k]
           wc == [k \in S |-> y[k + 1]]
           wd == [k \in S |-> k * y[k + 1]]
<1>1. /\ n \in Nat
      /\ wa \in [S -> Nat] /\ wb \in [S -> Nat] /\ wc \in [S -> Nat] /\ wd \in [S -> Nat]
  <2>1. n \in Nat /\ \A k \in S : k \in Nat /\ y[k + 1] \in Nat
    OBVIOUS
  <2>2. \A i, j \in Nat : i * j \in Nat
    OBVIOUS
  <2>3. QED
    BY <2>1, <2>2
<1> HIDE DEF S
<1>2. \A s \in SUBSET S : s # {} => OneOf(s) \in S
  BY DEF OneOf
<1> DEFINE StepA(f) == [s \in SUBSET S |-> IF s = {} THEN 0 ELSE OneOf(s) + f[s \ {OneOf(s)}]]
           StepB(f) == [s \in SUBSET S |-> IF s = {} THEN 0
                          ELSE OneOf(s) * OneOf(s) + f[s \ {OneOf(s)}]]
           StepC(f) == [s \in SUBSET S |-> IF s = {} THEN 0
                          ELSE y[OneOf(s) + 1] + f[s \ {OneOf(s)}]]
           StepD(f) == [s \in SUBSET S |-> IF s = {} THEN 0
                          ELSE OneOf(s) * y[OneOf(s) + 1] + f[s \ {OneOf(s)}]]
           sumA == CHOOSE f : f = StepA(f)
           sumB == CHOOSE f : f = StepB(f)
           sumC == CHOOSE f : f = StepC(f)
           sumD == CHOOSE f : f = StepD(f)
<1>3. /\ Total(LAMBDA x : x, n) = sumA[S]
      /\ Total(LAMBDA x : x * x, n) = sumB[S]
      /\ Total(LAMBDA x : y[x + 1], n) = sumC[S]
      /\ Total(LAMBDA x : x * y[x + 1], n) = sumD[S]
  BY Zenon DEF Total, MapThenSumSet, MapThenFoldSet, OneOf, S
<1>4. ASSUME NEW f
      PROVE  /\ f = StepA(f) <=> SumsUp(f, S, wa)
             /\ f = StepB(f) <=> SumsUp(f, S, wb)
             /\ f = StepC(f) <=> SumsUp(f, S, wc)
             /\ f = StepD(f) <=> SumsUp(f, S, wd)
  <2>1. \A s \in SUBSET S : s # {} =>
          /\ wa[OneOf(s)] = OneOf(s) /\ wb[OneOf(s)] = OneOf(s) * OneOf(s)
          /\ wc[OneOf(s)] = y[OneOf(s) + 1] /\ wd[OneOf(s)] = OneOf(s) * y[OneOf(s) + 1]
    BY <1>2
  <2> HIDE DEF wa, wb, wc, wd
  <2>2. StepA(f) = [s \in SUBSET S |-> IF s = {} THEN 0 ELSE wa[OneOf(s)] + f[s \ {OneOf(s)}]]
    BY <2>1
  <2>3. StepB(f) = [s \in SUBSET S |-> IF s = {} THEN 0 ELSE wb[OneOf(s)] + f[s \ {OneOf(s)}]]
    BY <2>1
  <2>4. StepC(f) = [s \in SUBSET S |-> IF s = {} THEN 0 ELSE wc[OneOf(s)] + f[s \ {OneOf(s)}]]
    BY <2>1
  <2>5. StepD(f) = [s \in SUBSET S |-> IF s = {} THEN 0 ELSE wd[OneOf(s)] + f[s \ {OneOf(s)}]]
    BY <2>1
  <2> HIDE DEF StepA, StepB, StepC, StepD
  <2>6. QED
    BY <2>2, <2>3, <2>4, <2>5 DEF SumsUp
<1> HIDE DEF wa, wb, wc, wd, StepA, StepB, StepC, StepD
<1>5. PICK a \in [0..n -> Nat] :
        PartialSums(a, n, wa) /\ \A f : SumsUp(f, S, wa) => f[S] = a[n]
  BY <1>1, PartialSumsReachTheSum DEF S
<1>6. PICK b \in [0..n -> Nat] :
        PartialSums(b, n, wb) /\ \A f : SumsUp(f, S, wb) => f[S] = b[n]
  BY <1>1, PartialSumsReachTheSum DEF S
<1>7. PICK c \in [0..n -> Nat] :
        PartialSums(c, n, wc) /\ \A f : SumsUp(f, S, wc) => f[S] = c[n]
  BY <1>1, PartialSumsReachTheSum DEF S
<1>8. PICK d \in [0..n -> Nat] :
        PartialSums(d, n, wd) /\ \A f : SumsUp(f, S, wd) => f[S] = d[n]
  BY <1>1, PartialSumsReachTheSum DEF S
<1>9. /\ \E f : SumsUp(f, S, wa)
      /\ \E f : SumsUp(f, S, wb)
      /\ \E f : SumsUp(f, S, wc)
      /\ \E f : SumsUp(f, S, wd)
  BY <1>1, PartialSumsReachTheSum DEF S
<1>10. sumA = StepA(sumA) /\ sumB = StepB(sumB) /\ sumC = StepC(sumC) /\ sumD = StepD(sumD)
  BY <1>4, <1>9
<1>11. /\ SumsUp(sumA, S, wa) /\ SumsUp(sumB, S, wb)
       /\ SumsUp(sumC, S, wc) /\ SumsUp(sumD, S, wd)
  BY <1>4, <1>10
<1> HIDE DEF sumA, sumB, sumC, sumD
<1>12. sumA[S] = a[n] /\ sumB[S] = b[n] /\ sumC[S] = c[n] /\ sumD[S] = d[n]
  BY <1>5, <1>6, <1>7, <1>8, <1>11
<1>13. SlopeNum(y) = n * d[n] - a[n] * c[n] /\ SlopeDen(y) = n * b[n] - a[n] * a[n]
  BY <1>3, <1>12, Zenon DEF SlopeNum, SlopeDen
<1>14. QED
  BY <1>5, <1>6, <1>7, <1>8, <1>13 DEF wa, wb, wc, wd, S

\* The sums of a combination of two sequences.
Combination(D, v, E, w, S) == [k \in S |-> D * v[k] + E * w[k]]

LEMMA SumsOfCombination ==
  ASSUME NEW n \in Nat, NEW D \in Int, NEW E \in Int, NEW v, NEW w, NEW p, NEW q,
         v \in [0..(n - 1) -> Int], w \in [0..(n - 1) -> Int],
         PartialSums(p, n, v), PartialSums(q, n, w)
  PROVE  PartialSums(Combination(D, p, E, q, 0..n), n, Combination(D, v, E, w, 0..(n - 1)))
<1> DEFINE r == Combination(D, p, E, q, 0..n)
           x == Combination(D, v, E, w, 0..(n - 1))
<1>1. /\ x = [k \in 0..(n - 1) |-> D * v[k] + E * w[k]]
      /\ r = [k \in 0..n |-> D * p[k] + E * q[k]]
  BY DEF Combination
<1> HIDE DEF r, x
<1>2. /\ p \in [0..n -> Int] /\ q \in [0..n -> Int] /\ p[0] = 0 /\ q[0] = 0
      /\ \A k \in 0..(n - 1) : p[k + 1] = p[k] + v[k] /\ q[k + 1] = q[k] + w[k]
  BY DEF PartialSums
<1>3. \A i, j \in Int : D * i + E * j \in Int
  OBVIOUS
<1>4. r \in [0..n -> Int]
  BY <1>1, <1>2, <1>3
<1>5. r[0] = 0
  BY <1>1, <1>2
<1>6. ASSUME NEW k \in 0..(n - 1)
      PROVE  r[k + 1] = r[k] + x[k]
  <2> DEFINE pk == p[k]
             qk == q[k]
             vk == v[k]
             wk == w[k]
  <2>1. k \in 0..n /\ k + 1 \in 0..n
    OBVIOUS
  <2>2. pk \in Int /\ qk \in Int /\ vk \in Int /\ wk \in Int
    BY <1>2, <2>1
  <2>3. /\ r[k] = D * pk + E * qk /\ r[k + 1] = D * (pk + vk) + E * (qk + wk)
        /\ x[k] = D * vk + E * wk
    BY <1>1, <1>2, <2>1
  <2> HIDE DEF pk, qk, vk, wk
  <2>4. /\ D * (pk + vk) = D * pk + D * vk /\ D * pk \in Int /\ D * vk \in Int
        /\ E * (qk + wk) = E * qk + E * wk /\ E * qk \in Int /\ E * wk \in Int
    BY <2>2
  <2>5. QED
    BY <2>2, <2>3, <2>4
<1>7. QED
  BY <1>4, <1>5, <1>6 DEF PartialSums, r, x

\* A rising sequence made of index and samples has a covariance that is made
\* of numerator and denominator in the same way.
LEMMA SlopeOfCombination ==
  ASSUME NEW y \in Seq(Nat), NEW n, n = Len(y), n >= 2, NEW D \in Int, NEW E \in Int,
         Rising([k \in 0..(n - 1) |-> D * k + E * y[k + 1]], n)
  PROVE  /\ SlopeNum(y) \in Int /\ SlopeDen(y) \in Int
         /\ D + E * (y[2] - y[1]) <= D * SlopeDen(y) + E * SlopeNum(y)
<1> DEFINE index == [k \in 0..(n - 1) |-> k]
           square == [k \in 0..(n - 1) |-> k * k]
           value == [k \in 0..(n - 1) |-> y[k + 1]]
           product == [k \in 0..(n - 1) |-> k * y[k + 1]]
           z == Combination(D, index, E, value, 0..(n - 1))
           x == Combination(D, square, E, product, 0..(n - 1))
<1>1. n \in Nat /\ n >= 2
  OBVIOUS
<1>2. PICK a, b, c, d \in [0..n -> Nat] :
        /\ PartialSums(a, n, index) /\ PartialSums(b, n, square)
        /\ PartialSums(c, n, value) /\ PartialSums(d, n, product)
        /\ SlopeNum(y) = n * d[n] - a[n] * c[n]
        /\ SlopeDen(y) = n * b[n] - a[n] * a[n]
  BY SlopeSums
<1>3. \A k \in 0..(n - 1) : k \in Int /\ y[k + 1] \in Int /\ k * k \in Int /\ k * y[k + 1] \in Int
  <2>1. \A k \in 0..(n - 1) : k \in Int /\ y[k + 1] \in Int
    OBVIOUS
  <2>2. \A i, j \in Int : i * j \in Int
    OBVIOUS
  <2>3. QED
    BY <2>1, <2>2
<1>4. /\ index \in [0..(n - 1) -> Int] /\ square \in [0..(n - 1) -> Int]
      /\ value \in [0..(n - 1) -> Int] /\ product \in [0..(n - 1) -> Int]
  BY <1>3
<1>5. a[n] \in Int /\ b[n] \in Int /\ c[n] \in Int /\ d[n] \in Int
  <2>1. n \in 0..n /\ \A i \in Nat : i \in Int
    BY <1>1
  <2>2. QED
    BY <2>1
<1>6. SlopeNum(y) \in Int /\ SlopeDen(y) \in Int
  <2>1. \A i, j, k, l \in Int : i * j - k * l \in Int
    OBVIOUS
  <2>2. n \in Int
    BY <1>1
  <2>3. n * d[n] - a[n] * c[n] \in Int /\ n * b[n] - a[n] * a[n] \in Int
    BY <1>5, <2>1, <2>2, Zenon
  <2>4. QED
    BY <1>2, <2>3, Zenon
<1>7. Rising(z, n)
  <2>1. z = [k \in 0..(n - 1) |-> D * k + E * y[k + 1]]
    BY DEF Combination
  <2> HIDE DEF z
  <2>2. QED
    BY <2>1
<1>8. Weighted(z, n) = x
  <2>1. x = [k \in 0..(n - 1) |-> D * (k * k) + E * (k * y[k + 1])]
    BY DEF Combination
  <2>2. ASSUME NEW k \in 0..(n - 1)
        PROVE  k * z[k] = D * (k * k) + E * (k * y[k + 1])
    <3>1. z[k] = D * k + E * y[k + 1]
      BY DEF Combination
    <3> HIDE DEF z
    <3> DEFINE h == y[k + 1]
    <3>2. k \in Int /\ h \in Int
      BY <1>3
    <3> HIDE DEF h
    <3>3. k * (D * k + E * h) = D * (k * k) + E * (k * h)
      BY <3>2
    <3>4. QED
      BY <3>1, <3>3 DEF h
  <2> HIDE DEF z, x
  <2>3. QED
    BY <2>1, <2>2 DEF Weighted
<1>9. z[1] - z[0] = D + E * (y[2] - y[1])
  <2>1. 0 \in 0..(n - 1) /\ 1 \in 0..(n - 1)
    BY <1>1
  <2>2. z[0] = D * 0 + E * y[1] /\ z[1] = D * 1 + E * y[2]
    BY <2>1 DEF Combination
  <2>3. y[1] \in Int /\ y[2] \in Int
    BY <1>1
  <2> HIDE DEF z
  <2>4. E * (y[2] - y[1]) = E * y[2] - E * y[1] /\ E * y[2] \in Int /\ E * y[1] \in Int
    BY <2>3
  <2>5. QED
    BY <2>2, <2>4
<1> DEFINE u == Combination(D, a, E, c, 0..n)
           v == Combination(D, b, E, d, 0..n)
<1>10. u[n] = D * a[n] + E * c[n] /\ v[n] = D * b[n] + E * d[n]
  BY <1>1 DEF Combination
<1> HIDE DEF index, square, value, product
<1>11. PartialSums(u, n, z)
  BY <1>1, <1>2, <1>4, SumsOfCombination
<1>12. PartialSums(v, n, x)
  BY <1>1, <1>2, <1>4, SumsOfCombination
<1> HIDE DEF z, x, u, v
<1>13. z[1] - z[0] <= n * v[n] - a[n] * u[n]
  BY <1>1, <1>2, <1>7, <1>8, <1>11, <1>12, CovarianceIsLarge DEF index
<1>14. n * v[n] - a[n] * u[n] = D * SlopeDen(y) + E * SlopeNum(y)
  <2> DEFINE an == a[n]
             bn == b[n]
             cn == c[n]
             dn == d[n]
  <2>1. an \in Int /\ bn \in Int /\ cn \in Int /\ dn \in Int /\ n \in Int
    BY <1>1, <1>5
  <2>2. /\ SlopeNum(y) = n * dn - an * cn /\ SlopeDen(y) = n * bn - an * an
        /\ n * v[n] - a[n] * u[n] = n * (D * bn + E * dn) - an * (D * an + E * cn)
    BY <1>2, <1>10
  <2> HIDE DEF an, bn, cn, dn
  <2>3. n * (D * bn + E * dn) - an * (D * an + E * cn)
           = D * (n * bn - an * an) + E * (n * dn - an * cn)
    <3>1. /\ n * (D * bn + E * dn) = D * (n * bn) + E * (n * dn)
          /\ an * (D * an + E * cn) = D * (an * an) + E * (an * cn)
          /\ D * (n * bn - an * an) = D * (n * bn) - D * (an * an)
          /\ E * (n * dn - an * cn) = E * (n * dn) - E * (an * cn)
      BY <2>1
    <3>2. \A i, j, k \in Int : i * (j * k) \in Int
      OBVIOUS
    <3>3. /\ D * (n * bn) \in Int /\ E * (n * dn) \in Int
          /\ D * (an * an) \in Int /\ E * (an * cn) \in Int
      BY <2>1, <3>2
    <3>4. QED
      BY <3>1, <3>3
  <2>4. QED
    BY <2>2, <2>3
<1>15. QED
  BY <1>6, <1>9, <1>13, <1>14

\* The line through at least two samples has a slope, and it is neither
\* steeper than the largest rise nor less steep than the smallest.
LEMMA SlopeBetweenRises ==
  ASSUME NEW y \in Seq(Nat), Len(y) >= 2, NEW D \in Int
  PROVE  /\ SlopeNum(y) \in Int /\ SlopeDen(y) \in Int /\ SlopeDen(y) >= 1
         /\ (\A i \in 1..(Len(y) - 1) : y[i + 1] - y[i] <= D) => SlopeNum(y) <= D * SlopeDen(y)
         /\ (\A i \in 1..(Len(y) - 1) : D <= y[i + 1] - y[i]) => D * SlopeDen(y) <= SlopeNum(y)
<1> DEFINE n == Len(y)
<1>1. /\ n \in Nat /\ n >= 2 /\ y[1] \in Int /\ y[2] \in Int
      /\ \A k \in 0..(n - 1) : k \in Int /\ y[k + 1] \in Int
      /\ \A k \in 0..(n - 2) : /\ k \in 0..(n - 1) /\ k + 1 \in 0..(n - 1) /\ (k + 1) + 1 = k + 2
                              /\ k + 1 \in 1..(n - 1) /\ k + 1 \in Int
  OBVIOUS
<1>2. SlopeNum(y) \in Int /\ SlopeDen(y) \in Int /\ SlopeDen(y) >= 1
  <2> DEFINE z == [k \in 0..(n - 1) |-> 1 * k + 0 * y[k + 1]]
  <2>1. \A k \in 0..(n - 1) : z[k] = k
    BY <1>1
  <2>2. z \in [0..(n - 1) -> Int]
    BY <1>1
  <2>3. Rising(z, n)
    <3> HIDE DEF z, n
    <3> QED
      BY <1>1, <2>1, <2>2 DEF Rising
  <2> HIDE DEF n
  <2>4. /\ SlopeNum(y) \in Int /\ SlopeDen(y) \in Int
        /\ 1 + 0 * (y[2] - y[1]) <= 1 * SlopeDen(y) + 0 * SlopeNum(y)
    BY <1>1, <2>3, SlopeOfCombination, 1 \in Int, 0 \in Int DEF n
  <2>5. QED
    BY <1>1, <2>4
<1>3. ASSUME \A i \in 1..(n - 1) : y[i + 1] - y[i] <= D
      PROVE  SlopeNum(y) <= D * SlopeDen(y)
  <2> DEFINE z == [k \in 0..(n - 1) |-> D * k + (-1) * y[k + 1]]
  <2>1. \A k \in 0..(n - 1) : z[k] = D * k - y[k + 1] /\ z[k] \in Int
    BY <1>1
  <2>2. ASSUME NEW k \in 0..(n - 2)
        PROVE  z[k] <= z[k + 1]
    <3> HIDE DEF z, n
    <3>1. y[k + 2] - y[k + 1] <= D /\ y[k + 2] \in Int /\ y[k + 1] \in Int
      BY <1>1, <1>3
    <3>2. D * (k + 1) = D * k + D /\ D * k \in Int
      BY <1>1
    <3>3. z[k] = D * k - y[k + 1] /\ z[k + 1] = D * (k + 1) - y[k + 2]
      BY <1>1, <2>1
    <3>4. QED
      BY <3>1, <3>2, <3>3
  <2>3. Rising(z, n)
    <3> HIDE DEF n
    <3> QED
      BY <2>1, <2>2 DEF Rising
  <2> HIDE DEF n
  <2>4. D + (-1) * (y[2] - y[1]) <= D * SlopeDen(y) + (-1) * SlopeNum(y)
    BY <1>1, <2>3, SlopeOfCombination, -1 \in Int DEF n
  <2>5. y[2] - y[1] <= D
    <3>1. 1 \in 1..(n - 1) /\ 1 + 1 = 2
      BY <1>1
    <3>2. QED
      BY <1>3, <3>1
  <2> DEFINE P == D * SlopeDen(y)
             S == SlopeNum(y)
             R == y[2] - y[1]
  <2>6. P \in Int /\ S \in Int /\ R \in Int
    BY <1>1, <1>2
  <2>7. D + (-1) * R <= P + (-1) * S /\ R <= D
    BY <2>4, <2>5
  <2> HIDE DEF P, S, R, z
  <2>8. S <= P
    BY <2>6, <2>7
  <2>9. QED
    BY <2>8 DEF P, S
<1>4. ASSUME \A i \in 1..(n - 1) : D <= y[i + 1] - y[i]
      PROVE  D * SlopeDen(y) <= SlopeNum(y)
  <2> DEFINE z == [k \in 0..(n - 1) |-> (-D) * k + 1 * y[k + 1]]
  <2>1. \A k \in 0..(n - 1) : z[k] = y[k + 1] - D * k /\ z[k] \in Int
    BY <1>1
  <2>2. ASSUME NEW k \in 0..(n - 2)
        PROVE  z[k] <= z[k + 1]
    <3> HIDE DEF z, n
    <3>1. D <= y[k + 2] - y[k + 1] /\ y[k + 2] \in Int /\ y[k + 1] \in Int
      BY <1>1, <1>4
    <3>2. D * (k + 1) = D * k + D /\ D * k \in Int
      BY <1>1
    <3>3. z[k] = y[k + 1] - D * k /\ z[k + 1] = y[k + 2] - D * (k + 1)
      BY <1>1, <2>1
    <3>4. QED
      BY <3>1, <3>2, <3>3
  <2>3. Rising(z, n)
    <3> HIDE DEF n
    <3> QED
      BY <2>1, <2>2 DEF Rising
  <2> HIDE DEF n
  <2>4. (-D) + 1 * (y[2] - y[1]) <= (-D) * SlopeDen(y) + 1 * SlopeNum(y)
    BY <1>1, <2>3, SlopeOfCombination, -D \in Int, 1 \in Int DEF n
  <2>5. D <= y[2] - y[1]
    <3>1. 1 \in 1..(n - 1) /\ 1 + 1 = 2
      BY <1>1
    <3>2. QED
      BY <1>4, <3>1
  <2> DEFINE P == D * SlopeDen(y)
             S == SlopeNum(y)
             R == y[2] - y[1]
  <2>6. P \in Int /\ S \in Int /\ R \in Int /\ (-D) * SlopeDen(y) = -P
    BY <1>1, <1>2
  <2>7. (-D) + 1 * R <= -P + 1 * S /\ D <= R
    BY <2>4, <2>5, <2>6
  <2> HIDE DEF P, S, R, z
  <2>8. P <= S
    BY <2>6, <2>7
  <2>9. QED
    BY <2>8 DEF P, S
<1>5. QED
  BY <1>2, <1>3, <1>4

-----------------------------------------------------------------------------
(* The inductive invariant: the answer is that of the history there is,    *)
(* however the fit was rounded.                                            *)

LeakInv ==
  /\ history \in Seq(Sample)
  /\ \E up \in BOOLEAN : action = Verdict(history, up)

LEMMA LeakInvariance == LSpec => []LeakInv
<1>1. LInit => LeakInv
  <2>1. ASSUME LInit
        PROVE  LeakInv
    <3>1. history = <<>> /\ action = "NONE" /\ <<>> \in Seq(Sample) /\ Len(<<>>) = 0
      BY <2>1, EmptySeq DEF LInit
    <3>2. ~Flagged(<<>>, FALSE)
      <4>1. ~(Len(<<>>) >= MinSamples)
        BY <3>1, WindowAssumption
      <4>2. QED
        BY <4>1, Zenon DEF Flagged
    <3>3. action = Verdict(history, FALSE) /\ FALSE \in BOOLEAN
      BY <3>1, <3>2 DEF Verdict
    <3>4. QED
      BY <3>1, <3>3 DEF LeakInv
  <2>2. QED
    BY <2>1
<1>2. LeakInv /\ [LNext]_lvars => LeakInv'
  <2>1. ASSUME LeakInv, NEW m \in Sample, NEW up \in BOOLEAN, ReceiveTelemetry(m, up)
        PROVE  LeakInv'
    <3>1. Append(history, m) \in Seq(Sample) /\ Append(history, m) # <<>>
      BY <2>1, AppendProperties DEF LeakInv
    <3>2. Trim(Append(history, m)) \in Seq(Sample)
      BY <3>1 DEF Trim
    <3>3. QED
      BY <2>1, <3>2 DEF LeakInv, ReceiveTelemetry
  <2>2. ASSUME LeakInv, UNCHANGED lvars
        PROVE  LeakInv'
    <3>1. UNCHANGED <<history, action>>
      BY <2>2 DEF lvars
    <3>2. QED
      BY <2>2, <3>1 DEF LeakInv, Verdict, Flagged, Excess, Positive
  <2>3. QED
    BY <2>1, <2>2 DEF LNext
<1>3. QED
  BY <1>1, <1>2, PTL DEF LSpec

(* A restart is asked for only if a rise that is not a fall, repeated      *)
(* once, would reach the limit, and always if each would pass it, whatever *)
(* the limit, the window, the samples and the rounding are                 *)
(* (app.py:161-177).                                                       *)
THEOREM AlarmAlwaysRight == LSpec => []AlarmIsRight
<1>1. LeakInv => AlarmIsRight
  <2> SUFFICES ASSUME LeakInv PROVE AlarmIsRight
    OBVIOUS
  <2> DEFINE n == Len(history)
             last == history[n]
             num == SlopeNum(history)
             den == SlopeDen(history)
             rise(i) == history[i + 1] - history[i]
  <2>1. /\ history \in Seq(Nat) /\ n \in Nat
        /\ Limit \in Int /\ MinSamples \in Int /\ MinSamples >= 2
    <3>1. history \in Seq(Sample) /\ n \in Nat
      BY DEF LeakInv
    <3>2. history \in Seq(Nat)
      <4>1. DOMAIN history = 1..n /\ \A i \in 1..n : history[i] \in Nat
        <5>1. DOMAIN history = 1..n /\ \A i \in 1..n : history[i] \in Sample
          BY <3>1
        <5>2. QED
          BY <5>1, SampleAssumption
      <4>2. history \in [1..n -> Nat]
        <5>1. history = [i \in 1..n |-> history[i]]
          BY <3>1
        <5>2. QED
          BY <4>1, <5>1
      <4>3. QED
        BY <3>1, <4>2
    <3>3. Limit \in Int /\ MinSamples \in Int /\ MinSamples >= 2
      BY LimitAssumption, WindowAssumption
    <3>4. QED
      BY <3>1, <3>2, <3>3
  <2>2. /\ \A i \in 1..(n - 1) : rise(i) \in Rises
        /\ \A d \in Rises : \E i \in 1..(n - 1) : d = rise(i)
    BY DEF Rises
  <2>3. ASSUME n >= 2
        PROVE  last \in Int /\ \A i \in 1..(n - 1) : rise(i) \in Int
    BY <2>1, <2>3
  <2>4. n >= 2 => num \in Int /\ den \in Int /\ den >= 1
    BY <2>1, SlopeBetweenRises, 0 \in Int
  <2> DEFINE left == (last - Limit) * den + num
  <2>5. ASSUME n >= 2
        PROVE  left \in Int
    <3> HIDE DEF last, num, den
    <3>1. (last - Limit) * den \in Int
      BY <2>1, <2>3, <2>4, <2>5
    <3>2. QED
      BY <2>4, <2>5, <3>1
  <2>6. PICK up \in BOOLEAN : action = Verdict(history, up)
    BY DEF LeakInv
  <2>7. action = "RESTART_PROACTIVE" <=>
          n >= MinSamples /\ Positive(num, up) /\ Positive(left, up)
    <3>1. Flagged(history, up) <=> n >= MinSamples /\ Positive(num, up) /\ Positive(left, up)
      BY DEF Flagged, Excess
    <3>2. QED
      BY <2>6, <3>1 DEF Verdict
  <2>8. ASSUME n >= MinSamples, Positive(num, up), Positive(left, up),
               \A d \in Rises : ~(d >= 0 /\ last + d >= Limit)
        PROVE  FALSE
    <3> DEFINE D == IF last < Limit THEN Limit - last - 1 ELSE -1
    <3>1. n >= 2
      BY <2>1, <2>8
    <3>2. last \in Int /\ D \in Int
      BY <2>1, <2>3, <3>1
    <3>3. ASSUME NEW i \in 1..(n - 1)
          PROVE  rise(i) <= D
      <4>1. ~(rise(i) >= 0 /\ last + rise(i) >= Limit) /\ rise(i) \in Int
        BY <2>2, <2>3, <2>8, <3>1
      <4> HIDE DEF rise, last
      <4>2. QED
        BY <2>1, <3>2, <4>1
    <3> HIDE DEF D
    <3>4. num <= D * den
      BY <2>1, <3>1, <3>2, <3>3, SlopeBetweenRises
    <3>5. num \in Int /\ den \in Int /\ den >= 1 /\ left \in Int /\ num >= 0 /\ left >= 0
      <4> HIDE DEF num, den, left
      <4> QED
        BY <2>4, <2>5, <2>8, <3>1 DEF Positive
    <3> HIDE DEF last, num, den
    <3>6. CASE last < Limit
      <4>1. D = Limit - last - 1
        BY <3>6 DEF D
      <4>2. /\ (Limit - last - 1) * den = Limit * den - last * den - den
            /\ (last - Limit) * den = last * den - Limit * den
            /\ Limit * den \in Int /\ last * den \in Int
        BY <2>1, <3>2, <3>5
      <4>3. QED
        BY <3>4, <3>5, <4>1, <4>2
    <3>7. CASE ~(last < Limit)
      BY <3>4, <3>5, <3>7 DEF D
    <3>8. QED
      BY <3>6, <3>7
  <2>9. ASSUME n >= MinSamples, \A d \in Rises : d > 0 /\ last + d > Limit
        PROVE  num > 0 /\ left > 0
    <3> DEFINE D == IF last < Limit THEN Limit - last + 1 ELSE 1
    <3>1. n >= 2
      BY <2>1, <2>9
    <3>2. last \in Int /\ D \in Int /\ D >= 1
      BY <2>1, <2>3, <3>1
    <3>3. ASSUME NEW i \in 1..(n - 1)
          PROVE  D <= rise(i)
      <4>1. rise(i) > 0 /\ last + rise(i) > Limit /\ rise(i) \in Int
        BY <2>2, <2>3, <2>9, <3>1
      <4> HIDE DEF rise, last
      <4>2. QED
        BY <2>1, <3>2, <4>1
    <3>4. last + D > Limit
      BY <2>1, <3>2
    <3> HIDE DEF D
    <3>5. D * den <= num
      BY <2>1, <3>1, <3>2, <3>3, SlopeBetweenRises
    <3> HIDE DEF last, num, den
    <3>6. num \in Int /\ den \in Int /\ den >= 1
      BY <2>4, <3>1
    <3>7. \A i, j \in Int : i >= 1 /\ j >= 1 => i * j >= 1
      OBVIOUS
    <3>8. D * den >= 1 /\ D * den \in Int
      BY <3>2, <3>6, <3>7
    <3>9. (last - Limit) * den + D * den >= 1
      <4>1. (last + D - Limit) * den >= 1
        BY <2>1, <3>2, <3>4, <3>6, <3>7
      <4>2. (last + D - Limit) * den = (last - Limit) * den + D * den
        BY <2>1, <3>2, <3>6
      <4>3. QED
        BY <4>1, <4>2
    <3>10. (last - Limit) * den \in Int
      BY <2>1, <3>2, <3>6
    <3>11. QED
      BY <3>5, <3>6, <3>8, <3>9, <3>10
  <2>10. num > 0 => Positive(num, up)
    BY DEF Positive
  <2>11. left > 0 => Positive(left, up)
    BY DEF Positive
  <2>12. QED
    <3> HIDE DEF num, left, rise
    <3> QED
      BY <2>7, <2>8, <2>9, <2>10, <2>11, Zenon DEF AlarmIsRight
<1>2. QED
  BY <1>1, LeakInvariance, PTL
=============================================================================
