----------------------------- MODULE GridProofs -----------------------------
(***************************************************************************)
(* Proofs about the grid of the operators, for every inventory and every   *)
(* text that is searched for, and about the modals that open over it, for  *)
(* any number of timers that overtake each other.                          *)
(***************************************************************************)
EXTENDS OperatorGrid, PageModals, SequenceLemmas, TLAPS

-----------------------------------------------------------------------------
(* The grid.  Whatever the page knows of an operator, an operator is one   *)
(* of those that the inventories hold.                                     *)

Known == UNION {{ops[i] : i \in DOMAIN ops} : ops \in Inventories}

CardOf == [op : Known, ticked : BOOLEAN, menu : BOOLEAN, live : BOOLEAN]

GridTypeOK ==
  /\ allOperators \in Seq(Known) /\ filteredOperators \in Seq(Known)
  /\ selectedForComparison \in Seq(Known) /\ Len(selectedForComparison) <= MaxCompared
  /\ cards \in Seq(CardOf)
  /\ searchDebounceTimer \in BOOLEAN /\ comparisonMode \in BOOLEAN
  /\ autonomousModeEnabled \in BOOLEAN

Passing(ops, query, filters) == {i \in DOMAIN ops : Passes(ops[i], query, filters)}

\* What was filtered last is current unless a search waits for its timer.
FilteredIsCurrent ==
  ~searchDebounceTimer =>
    filteredOperators = At(allOperators, Passing(allOperators, search, checked))

CardsShowFiltered ==
  ~gridFailed => /\ DOMAIN cards = DOMAIN filteredOperators
                 /\ \A i \in DOMAIN cards : cards[i].op = filteredOperators[i]

TickedIsSelected ==
  /\ ~comparisonMode => selectedForComparison = <<>>
  /\ Len(selectedForComparison) < MaxCompared =>
       \A i \in DOMAIN cards :
         cards[i].ticked <=> IsSelected(selectedForComparison, Id(cards[i].op))

\* Only the first card of an id has a menu that can be found.
FirstHasMenu ==
  /\ \A i, j \in DOMAIN cards : cards[i].menu /\ cards[j].menu => i = j
  /\ \A i \in DOMAIN cards : cards[i].menu =>
       \A j \in 1..(i - 1) : Id(cards[j].op) # Id(cards[i].op)

LiveIsMode == \A i \in DOMAIN cards : cards[i].live = autonomousModeEnabled

GridInv == /\ GridTypeOK /\ FilteredIsCurrent /\ CardsShowFiltered
           /\ TickedIsSelected /\ FirstHasMenu /\ LiveIsMode

LEMMA FirstFacts ==
  ASSUME NEW X, NEW ops \in Seq(X), NEW id
  PROVE  /\ First(ops, id) \in 0..Len(ops)
         /\ First(ops, id) = 0 <=> \A i \in 1..Len(ops) : Id(ops[i]) # id
<1> DEFINE I == {i \in 1..Len(ops) : Id(ops[i]) = id}
<1>1. First(ops, id) = IF I # {} THEN Min(I) ELSE 0
  BY DEF First, SelectInSeq
<1>2. I \in SUBSET Nat /\ I \in SUBSET 1..Len(ops) /\ 0 \notin I
  OBVIOUS
<1>3. I # {} => Min(I) \in I
  <2> HIDE DEF I
  <2> QED
    BY <1>2, MinFacts
<1>4. I = {} <=> \A i \in 1..Len(ops) : Id(ops[i]) # id
  OBVIOUS
<1> HIDE DEF I
<1>5. CASE I = {}
  BY <1>1, <1>4, <1>5
<1>6. CASE I # {}
  <2>1. First(ops, id) \in 1..Len(ops)
    BY <1>1, <1>2, <1>3, <1>6
  <2>2. QED
    BY <1>4, <1>6, <2>1
<1>7. QED
  BY <1>5, <1>6

\* What Array.filter leaves are operators that the page knows.
LEMMA FilteredAreKnown ==
  ASSUME NEW ops \in Seq(Known), NEW query, NEW filters
  PROVE  At(ops, Passing(ops, query, filters)) \in Seq(Known)
<1>1. Passing(ops, query, filters) \in SUBSET DOMAIN ops
  BY DEF Passing
<1>2. QED
  BY <1>1, KeptInOrder

LEMMA InventoriesAreKnown ==
  ASSUME NEW ops \in Inventories
  PROVE  ops \in Seq(Known)
<1>1. ops \in Seq({ops[i] : i \in DOMAIN ops})
  BY GridAssumption DEF IsSequence
<1>2. {ops[i] : i \in DOMAIN ops} \subseteq Known
  BY DEF Known
<1>3. QED
  BY <1>1, <1>2, SeqMonotonic

LEMMA InitGrid == GInit => GridInv
<1> SUFFICES ASSUME GInit PROVE GridInv
  OBVIOUS
<1>1. /\ allOperators = <<>> /\ filteredOperators = <<>> /\ cards = <<>>
      /\ selectedForComparison = <<>> /\ searchDebounceTimer = FALSE
      /\ comparisonMode = FALSE /\ autonomousModeEnabled = TRUE
  BY Zenon DEF GInit
<1>2. GridTypeOK
  <2>1. <<>> \in Seq(Known) /\ <<>> \in Seq(CardOf) /\ Len(<<>>) <= 3
    BY EmptySeq
  <2>2. QED
    BY <1>1, <2>1 DEF GridTypeOK, MaxCompared
<1>3. FilteredIsCurrent
  <2> DEFINE I == Passing(allOperators, search, checked)
  <2>1. I = {} /\ I \in SUBSET DOMAIN allOperators /\ allOperators \in Seq(Known)
    BY <1>1 DEF Passing
  <2> HIDE DEF I
  <2>2. At(allOperators, I) = <<>>
    BY <2>1, KeptInOrder
  <2>3. QED
    BY <1>1, <2>2 DEF FilteredIsCurrent, I
<1>4. CardsShowFiltered /\ TickedIsSelected /\ FirstHasMenu /\ LiveIsMode
  BY <1>1 DEF CardsShowFiltered, TickedIsSelected, FirstHasMenu, LiveIsMode
<1>5. QED
  BY <1>2, <1>3, <1>4 DEF GridInv

\* renderGrid makes every card anew.
LEMMA RenderedIsCurrent ==
  ASSUME renderGrid, filteredOperators' \in Seq(Known), selectedForComparison' \in Seq(Known),
         comparisonMode' \in BOOLEAN, autonomousModeEnabled' \in BOOLEAN,
         ~comparisonMode' => selectedForComparison' = <<>>
  PROVE  /\ cards' \in Seq(CardOf)
         /\ CardsShowFiltered' /\ TickedIsSelected' /\ FirstHasMenu' /\ LiveIsMode'
<1> DEFINE n == Len(filteredOperators')
<1>1. /\ DOMAIN filteredOperators' = 1..n /\ n \in Nat
      /\ \A i \in 1..n : filteredOperators'[i] \in Known
  OBVIOUS
<1>2. cards' = [i \in 1..n |-> Card(filteredOperators'[i])]
  BY <1>1 DEF renderGrid
<1>3. \A i \in 1..n : Card(filteredOperators'[i]) \in CardOf
  <2>1. \A op \in Known : Card(op) \in CardOf
    BY DEF Card, CardOf
  <2>2. QED
    BY <1>1, <2>1
<1> HIDE DEF n
<1>4. cards' \in Seq(CardOf) /\ DOMAIN cards' = 1..n
  BY <1>1, <1>2, <1>3
<1>5. ASSUME NEW i \in 1..n
      PROVE  /\ cards'[i].op = filteredOperators'[i]
             /\ cards'[i].ticked <=> IsSelected(selectedForComparison', Id(cards'[i].op))
             /\ cards'[i].menu = FALSE /\ cards'[i].live = autonomousModeEnabled'
  <2>1. cards'[i] = Card(filteredOperators'[i])
    BY <1>2
  <2> DEFINE ticked == comparisonMode' /\ IsSelected(selectedForComparison', Id(filteredOperators'[i]))
  <2>2. Card(filteredOperators'[i]) =
          [op |-> filteredOperators'[i], ticked |-> ticked,
           menu |-> FALSE, live |-> autonomousModeEnabled']
    BY Zenon DEF Card
  <2>3. ASSUME selectedForComparison' = <<>>, NEW id
        PROVE  ~IsSelected(selectedForComparison', id)
    <3>1. First(selectedForComparison', id) = 0 <=>
            \A j \in 1..Len(selectedForComparison') : Id(selectedForComparison'[j]) # id
      BY FirstFacts
    <3>2. 1..Len(selectedForComparison') = {}
      BY <2>3
    <3>3. QED
      BY <3>1, <3>2 DEF IsSelected
  <2>4. ticked <=> IsSelected(selectedForComparison', Id(filteredOperators'[i]))
    BY <2>3, Zenon
  <2> HIDE DEF ticked
  <2>5. /\ cards'[i].op = filteredOperators'[i] /\ cards'[i].ticked = ticked
        /\ cards'[i].menu = FALSE /\ cards'[i].live = autonomousModeEnabled'
    BY <2>1, <2>2
  <2>6. QED
    BY <2>4, <2>5, Zenon
<1>6. QED
  BY <1>1, <1>4, <1>5 DEF CardsShowFiltered, TickedIsSelected, FirstHasMenu, LiveIsMode

\* An action that filters and renders leaves all of it current.
LEMMA AppliedIsCurrent ==
  ASSUME GridTypeOK, applyFilters, allOperators' \in Seq(Known),
         UNCHANGED <<comparison, autonomousModeEnabled>>, searchDebounceTimer' \in BOOLEAN,
         ~comparisonMode => selectedForComparison = <<>>
  PROVE  GridInv'
<1>1. filteredOperators' = At(allOperators', Passing(allOperators', search', checked'))
  BY Zenon DEF applyFilters, Having, Kept, Places, Passing
<1>2. filteredOperators' \in Seq(Known)
  BY <1>1, FilteredAreKnown
<1>3. FilteredIsCurrent'
  BY <1>1, Zenon DEF FilteredIsCurrent
<1>4. /\ comparisonMode' = comparisonMode /\ autonomousModeEnabled' = autonomousModeEnabled
      /\ selectedForComparison' = selectedForComparison
  BY DEF comparison
<1>5. renderGrid
  BY DEF applyFilters
<1>6. /\ cards' \in Seq(CardOf)
      /\ CardsShowFiltered' /\ TickedIsSelected' /\ FirstHasMenu' /\ LiveIsMode'
  BY <1>2, <1>4, <1>5, RenderedIsCurrent DEF GridTypeOK
<1>7. GridTypeOK'
  BY <1>2, <1>4, <1>6 DEF GridTypeOK
<1>8. QED
  BY <1>3, <1>6, <1>7 DEF GridInv

\* One that renders without filtering keeps what was filtered.
LEMMA RenderedKeepsGrid ==
  ASSUME GridInv, renderGrid, UNCHANGED <<allOperators, filteredOperators, inputs, autonomousModeEnabled>>,
         comparisonMode' \in BOOLEAN, selectedForComparison' \in Seq(Known),
         Len(selectedForComparison') <= MaxCompared,
         ~comparisonMode' => selectedForComparison' = <<>>
  PROVE  GridInv'
<1>1. /\ filteredOperators' \in Seq(Known) /\ allOperators' \in Seq(Known)
      /\ searchDebounceTimer' \in BOOLEAN /\ autonomousModeEnabled' \in BOOLEAN
  BY DEF GridInv, GridTypeOK, inputs
<1>2. /\ cards' \in Seq(CardOf)
      /\ CardsShowFiltered' /\ TickedIsSelected' /\ FirstHasMenu' /\ LiveIsMode'
  BY <1>1, RenderedIsCurrent
<1>3. FilteredIsCurrent'
  BY DEF GridInv, FilteredIsCurrent, inputs
<1>4. GridTypeOK'
  BY <1>1, <1>2 DEF GridTypeOK
<1>5. QED
  BY <1>2, <1>3, <1>4 DEF GridInv

\* A click on the box of a card selects its operator or takes it out again.
LEMMA SelectKeepsGrid ==
  ASSUME GridInv, NEW i \in DOMAIN cards, SelectForComparison(i)
  PROVE  GridInv'
<1> DEFINE id == Id(cards[i].op)
           at == First(selectedForComparison, id)
           n == Len(selectedForComparison)
<1>1. /\ selectedForComparison \in Seq(Known) /\ allOperators \in Seq(Known)
      /\ n \in Nat /\ n <= 3
  BY DEF GridInv, GridTypeOK, MaxCompared
<1>2. at \in 0..n
  BY <1>1, FirstFacts
<1>3. selectedForComparison' \in Seq(Known) /\ Len(selectedForComparison') <= 3
  <2>1. CASE at # 0
    <3>1. selectedForComparison' = RemoveAt(selectedForComparison, at) /\ at \in 1..n
      BY <1>1, <1>2, <2>1 DEF SelectForComparison
    <3> HIDE DEF at
    <3>2. /\ RemoveAt(selectedForComparison, at) \in Seq(Known)
          /\ Len(RemoveAt(selectedForComparison, at)) = n - 1
      BY <1>1, <3>1, RemoveAtFacts
    <3>3. QED
      BY <1>1, <3>1, <3>2
  <2>2. CASE at = 0
    <3>1. selectedForComparison' = selectedForComparison \o Chosen(id) /\ n < 3
      BY <2>2 DEF SelectForComparison, MaxCompared
    <3>2. Chosen(id) \in Seq(Known) /\ Len(Chosen(id)) <= 1
      <4>1. First(allOperators, id) \in 0..Len(allOperators)
        BY <1>1, FirstFacts
      <4>2. CASE First(allOperators, id) = 0
        BY <4>2, EmptySeq DEF Chosen
      <4>3. CASE First(allOperators, id) # 0
        <5>1. allOperators[First(allOperators, id)] \in Known
          BY <1>1, <4>1, <4>3
        <5>2. QED
          BY <4>3, <5>1 DEF Chosen
      <4>4. QED
        BY <4>2, <4>3
    <3> HIDE DEF id
    <3>3. QED
      BY <1>1, <3>1, <3>2, ConcatProperties
  <2>3. QED
    BY <2>1, <2>2
<1>4. /\ comparisonMode /\ comparisonMode' = comparisonMode /\ renderGrid
      /\ UNCHANGED <<allOperators, filteredOperators, inputs, autonomousModeEnabled>>
  BY DEF SelectForComparison
<1>5. comparisonMode' \in BOOLEAN /\ (~comparisonMode' => selectedForComparison' = <<>>)
  BY <1>4 DEF GridInv, GridTypeOK
<1>6. Len(selectedForComparison') <= MaxCompared
  BY <1>3 DEF MaxCompared
<1>7. QED
  BY <1>3, <1>4, <1>5, <1>6, RenderedKeepsGrid

\* An action that touches nothing of the grid but marks of its cards.
LEMMA MarksKeepGrid ==
  ASSUME GridInv, cards' \in Seq(CardOf), DOMAIN cards' = DOMAIN cards,
         \A j \in DOMAIN cards : cards'[j].op = cards[j].op,
         UNCHANGED <<allOperators, filteredOperators, inputs, comparison, gridFailed>>,
         autonomousModeEnabled' \in BOOLEAN
  PROVE  GridTypeOK' /\ FilteredIsCurrent' /\ CardsShowFiltered'
<1>1. GridTypeOK'
  BY DEF GridInv, GridTypeOK, inputs, comparison
<1>2. FilteredIsCurrent'
  BY DEF GridInv, FilteredIsCurrent, inputs
<1>3. CardsShowFiltered'
  BY DEF GridInv, CardsShowFiltered
<1>4. QED
  BY <1>1, <1>2, <1>3

LEMMA RefuseKeepsGrid ==
  ASSUME GridInv, NEW i \in DOMAIN cards, RefuseTick(i)
  PROVE  GridInv'
<1>1. /\ cards \in Seq(CardOf) /\ comparisonMode
      /\ cards' = [cards EXCEPT ![i] = [cards[i] EXCEPT !.ticked = ~cards[i].ticked]]
      /\ UNCHANGED <<allOperators, filteredOperators, inputs, comparison,
                     autonomousModeEnabled, gridFailed>>
  BY DEF RefuseTick, GridInv, GridTypeOK
<1> DEFINE card == [cards[i] EXCEPT !.ticked = ~cards[i].ticked]
<1>2. cards[i] \in CardOf
  BY <1>1
<1>3. /\ card \in CardOf /\ card.op = cards[i].op
      /\ card.menu = cards[i].menu /\ card.live = cards[i].live
  BY <1>2 DEF CardOf
<1> HIDE DEF card
<1>4. cards' = [cards EXCEPT ![i] = card]
  BY <1>1 DEF card
<1>5. cards' \in Seq(CardOf) /\ DOMAIN cards' = DOMAIN cards
  BY <1>1, <1>3, <1>4
<1>6. \A j \in DOMAIN cards : /\ cards'[j].op = cards[j].op
                              /\ cards'[j].menu = cards[j].menu /\ cards'[j].live = cards[j].live
  BY <1>1, <1>3, <1>4
<1>7. GridTypeOK' /\ FilteredIsCurrent' /\ CardsShowFiltered'
  BY <1>1, <1>5, <1>6, MarksKeepGrid DEF GridInv, GridTypeOK
<1>8. TickedIsSelected'
  <2>1. /\ ~(Len(selectedForComparison) < MaxCompared)
        /\ selectedForComparison' = selectedForComparison /\ comparisonMode' = comparisonMode
    BY <1>1 DEF RefuseTick, GridInv, GridTypeOK, MaxCompared, comparison
  <2>2. QED
    BY <1>1, <2>1 DEF TickedIsSelected
<1>9. FirstHasMenu'
  <2>1. \A k \in DOMAIN cards : 1..(k - 1) \subseteq DOMAIN cards
    BY <1>1
  <2>2. QED
    BY <1>5, <1>6, <2>1 DEF GridInv, FirstHasMenu
<1>10. LiveIsMode'
  BY <1>1, <1>5, <1>6 DEF GridInv, LiveIsMode
<1>11. QED
  BY <1>7, <1>8, <1>9, <1>10 DEF GridInv

\* A mark set on every card: the menus closed, the buttons switched.
LEMMA CloseMenusKeepsGrid ==
  ASSUME GridInv, ClickElsewhere
  PROVE  GridInv'
<1>1. /\ cards \in Seq(CardOf)
      /\ cards' = [i \in DOMAIN cards |-> [cards[i] EXCEPT !.menu = FALSE]]
      /\ UNCHANGED <<allOperators, filteredOperators, inputs, comparison,
                     autonomousModeEnabled, gridFailed>>
  BY DEF ClickElsewhere, GridInv, GridTypeOK
<1>2. \A i \in DOMAIN cards : cards'[i] = [cards[i] EXCEPT !.menu = FALSE] /\ cards[i] \in CardOf
  BY <1>1
<1>3. \A i \in DOMAIN cards :
        /\ cards'[i] \in CardOf /\ cards'[i].op = cards[i].op
        /\ cards'[i].ticked = cards[i].ticked /\ cards'[i].live = cards[i].live
        /\ cards'[i].menu = FALSE
  BY <1>2 DEF CardOf
<1>4. cards' \in Seq(CardOf) /\ DOMAIN cards' = DOMAIN cards
  <2>1. DOMAIN cards = 1..Len(cards) /\ Len(cards) \in Nat
    BY <1>1
  <2>2. DOMAIN cards' = DOMAIN cards
    BY <1>1
  <2>3. cards' \in [1..Len(cards) -> CardOf]
    BY <1>1, <1>3, <2>1
  <2>4. QED
    BY <2>1, <2>2, <2>3
<1>5. GridTypeOK' /\ FilteredIsCurrent' /\ CardsShowFiltered'
  BY <1>1, <1>3, <1>4, MarksKeepGrid DEF GridInv, GridTypeOK
<1>6. TickedIsSelected'
  BY <1>1, <1>3, <1>4 DEF GridInv, TickedIsSelected, comparison
<1>7. FirstHasMenu'
  BY <1>3, <1>4 DEF FirstHasMenu
<1>8. LiveIsMode'
  BY <1>1, <1>3, <1>4 DEF GridInv, LiveIsMode
<1>9. QED
  BY <1>5, <1>6, <1>7, <1>8 DEF GridInv

LEMMA SwitchKeepsGrid ==
  ASSUME GridInv, SwitchAutonomousMode
  PROVE  GridInv'
<1>1. /\ cards \in Seq(CardOf) /\ autonomousModeEnabled' \in BOOLEAN
      /\ cards' = [i \in DOMAIN cards |-> [cards[i] EXCEPT !.live = autonomousModeEnabled']]
      /\ UNCHANGED <<allOperators, filteredOperators, inputs, comparison, gridFailed>>
  BY DEF SwitchAutonomousMode, GridInv, GridTypeOK
<1>2. \A i \in DOMAIN cards : /\ cards'[i] = [cards[i] EXCEPT !.live = autonomousModeEnabled']
                              /\ cards[i] \in CardOf
  BY <1>1
<1>3. \A i \in DOMAIN cards :
        /\ cards'[i] \in CardOf /\ cards'[i].op = cards[i].op
        /\ cards'[i].ticked = cards[i].ticked /\ cards'[i].menu = cards[i].menu
        /\ cards'[i].live = autonomousModeEnabled'
  BY <1>1, <1>2 DEF CardOf
<1>4. cards' \in Seq(CardOf) /\ DOMAIN cards' = DOMAIN cards
  <2>1. DOMAIN cards = 1..Len(cards) /\ Len(cards) \in Nat
    BY <1>1
  <2>2. DOMAIN cards' = DOMAIN cards
    BY <1>1
  <2>3. cards' \in [1..Len(cards) -> CardOf]
    BY <1>1, <1>3, <2>1
  <2>4. QED
    BY <2>1, <2>2, <2>3
<1>5. GridTypeOK' /\ FilteredIsCurrent' /\ CardsShowFiltered'
  BY <1>1, <1>3, <1>4, MarksKeepGrid
<1>6. TickedIsSelected'
  BY <1>1, <1>3, <1>4 DEF GridInv, TickedIsSelected, comparison
<1>7. FirstHasMenu'
  <2>1. \A k \in DOMAIN cards : 1..(k - 1) \subseteq DOMAIN cards
    BY <1>1
  <2>2. QED
    BY <1>3, <1>4, <2>1 DEF GridInv, FirstHasMenu
<1>8. LiveIsMode'
  BY <1>3, <1>4 DEF LiveIsMode
<1>9. QED
  BY <1>5, <1>6, <1>7, <1>8 DEF GridInv

\* The menu that toggles is that of the first card of the id; every other
\* one that was open is closed, for it is of another id.
LEMMA ToggleMenuKeepsGrid ==
  ASSUME GridInv, NEW i \in DOMAIN cards, ToggleQuickActions(i)
  PROVE  GridInv'
<1> DEFINE id == Id(cards[i].op)
           I == {j \in 1..Len(cards) : Id(cards[j].op) = id}
           first == SelectInSeq(cards, LAMBDA c : Id(c.op) = id)
           opened(j) == IF j = first THEN ~cards[j].menu
                        ELSE cards[j].menu /\ Id(cards[j].op) = id
<1>1. /\ cards \in Seq(CardOf)
      /\ UNCHANGED <<allOperators, filteredOperators, inputs, comparison,
                     autonomousModeEnabled, gridFailed>>
  BY DEF ToggleQuickActions, GridInv, GridTypeOK
<1>2. cards' = [j \in DOMAIN cards |-> [cards[j] EXCEPT !.menu = opened(j)]]
  BY Zenon DEF ToggleQuickActions
<1>3. DOMAIN cards = 1..Len(cards) /\ Len(cards) \in Nat /\ i \in 1..Len(cards)
  BY <1>1
<1>4. first \in I /\ \A j \in I : first <= j
  <2>1. first = IF I # {} THEN Min(I) ELSE 0
    BY DEF SelectInSeq
  <2>2. i \in I /\ I \in SUBSET Nat
    BY <1>3
  <2> HIDE DEF I, first
  <2>3. QED
    BY <2>1, <2>2, MinFacts
<1> HIDE DEF first
<1>5. ASSUME NEW j \in DOMAIN cards
      PROVE  /\ cards[j] \in CardOf /\ opened(j) \in BOOLEAN
             /\ cards'[j] = [cards[j] EXCEPT !.menu = opened(j)]
  <2>1. cards[j] \in CardOf
    BY <1>1
  <2>2. cards[j].menu \in BOOLEAN
    BY <2>1 DEF CardOf
  <2>3. opened(j) \in BOOLEAN
    <3>1. CASE j = first
      BY <2>2, <3>1, Zenon
    <3>2. CASE j # first
      BY <2>2, <3>2, Zenon
    <3>3. QED
      BY <3>1, <3>2
  <2> HIDE DEF opened
  <2>4. QED
    BY <1>2, <2>1, <2>3
<1>6. ASSUME NEW j \in DOMAIN cards
      PROVE  /\ cards'[j] \in CardOf /\ cards'[j].op = cards[j].op
             /\ cards'[j].ticked = cards[j].ticked /\ cards'[j].live = cards[j].live
             /\ cards'[j].menu = opened(j)
  <2> HIDE DEF opened
  <2> QED
    BY <1>5 DEF CardOf
<1>7. cards' \in Seq(CardOf) /\ DOMAIN cards' = DOMAIN cards
  <2>1. DOMAIN cards' = DOMAIN cards
    BY <1>2
  <2>2. cards' \in [1..Len(cards) -> CardOf]
    <3> HIDE DEF opened
    <3> QED
      BY <1>2, <1>3, <1>6, <2>1
  <2>3. QED
    BY <1>3, <2>1, <2>2
<1>8. ASSUME NEW j \in DOMAIN cards, cards'[j].menu
      PROVE  j = first
  <2>1. opened(j)
    BY <1>6, <1>8, Zenon
  <2>2. SUFFICES ASSUME j # first PROVE FALSE
    OBVIOUS
  <2>3. cards[j].menu /\ Id(cards[j].op) = id
    BY <2>1, <2>2
  <2>4. j \in I /\ first < j
    BY <1>3, <1>4, <2>2, <2>3
  <2>5. first \in 1..(j - 1) /\ Id(cards[first].op) = id
    BY <1>3, <1>4, <2>4
  <2>6. QED
    BY <2>3, <2>5 DEF GridInv, FirstHasMenu
<1>9. GridTypeOK' /\ FilteredIsCurrent' /\ CardsShowFiltered'
  BY <1>1, <1>6, <1>7, MarksKeepGrid DEF GridInv, GridTypeOK
<1>10. TickedIsSelected'
  BY <1>1, <1>6, <1>7 DEF GridInv, TickedIsSelected, comparison
<1>11. FirstHasMenu'
  <2>1. \A j \in 1..(first - 1) : Id(cards'[j].op) # Id(cards'[first].op)
    BY <1>3, <1>4, <1>6
  <2>2. QED
    BY <1>7, <1>8, <2>1 DEF FirstHasMenu
<1>12. LiveIsMode'
  BY <1>1, <1>6, <1>7 DEF GridInv, LiveIsMode
<1>13. QED
  BY <1>9, <1>10, <1>11, <1>12 DEF GridInv

LEMMA NextGrid == GridInv /\ [GNext]_gvars => GridInv'
<1> SUFFICES ASSUME GridInv, [GNext]_gvars
             PROVE  GridInv'
  OBVIOUS
<1>1. /\ GridTypeOK /\ allOperators \in Seq(Known)
      /\ ~comparisonMode => selectedForComparison = <<>>
  BY DEF GridInv, GridTypeOK, TickedIsSelected
<1>2. CASE Fetched
  <2>1. allOperators' \in Seq(Known)
    BY <1>2, InventoriesAreKnown DEF Fetched
  <2>2. /\ applyFilters /\ UNCHANGED <<comparison, autonomousModeEnabled>>
        /\ searchDebounceTimer' \in BOOLEAN
    BY <1>1, <1>2 DEF Fetched, inputs, GridTypeOK
  <2>3. QED
    BY <1>1, <2>1, <2>2, AppliedIsCurrent
<1>3. CASE FetchFails
  <2>1. /\ cards' = <<>> /\ gridFailed' = TRUE
        /\ UNCHANGED <<allOperators, filteredOperators, inputs, comparison, autonomousModeEnabled>>
    BY <1>3 DEF FetchFails
  <2>2. <<>> \in Seq(CardOf) /\ DOMAIN cards' = {}
    BY <2>1, EmptySeq
  <2>3. GridTypeOK' /\ FilteredIsCurrent'
    BY <2>1, <2>2 DEF GridInv, GridTypeOK, FilteredIsCurrent, inputs, comparison
  <2>4. CardsShowFiltered' /\ FirstHasMenu' /\ LiveIsMode'
    BY <2>1, <2>2 DEF CardsShowFiltered, FirstHasMenu, LiveIsMode
  <2>5. TickedIsSelected'
    BY <1>1, <2>1, <2>2 DEF TickedIsSelected, comparison
  <2>6. QED
    BY <2>3, <2>4, <2>5 DEF GridInv
<1>4. CASE HandleSearch
  <2>1. /\ searchDebounceTimer' = TRUE
        /\ UNCHANGED <<allOperators, filteredOperators, checked, comparison,
                       autonomousModeEnabled, cards, gridFailed>>
    BY <1>4, Zenon DEF HandleSearch
  <2>2. GridTypeOK' /\ FilteredIsCurrent' /\ CardsShowFiltered'
    BY <2>1 DEF GridInv, GridTypeOK, FilteredIsCurrent, CardsShowFiltered, comparison
  <2>3. TickedIsSelected' /\ FirstHasMenu' /\ LiveIsMode'
    BY <2>1 DEF GridInv, TickedIsSelected, FirstHasMenu, LiveIsMode, comparison
  <2>4. QED
    BY <2>2, <2>3 DEF GridInv
<1>5. CASE DebounceEnds
  <2>1. /\ allOperators' = allOperators /\ applyFilters
        /\ UNCHANGED <<comparison, autonomousModeEnabled>> /\ searchDebounceTimer' = FALSE
    BY <1>5, Zenon DEF DebounceEnds
  <2>2. QED
    BY <1>1, <2>1, AppliedIsCurrent
<1>6. ASSUME NEW f \in CheckBox, CheckFilter(f)
      PROVE  GridInv'
  <2>1. /\ allOperators' = allOperators /\ applyFilters
        /\ UNCHANGED <<comparison, autonomousModeEnabled>>
        /\ searchDebounceTimer' = searchDebounceTimer
    BY <1>6, Zenon DEF CheckFilter
  <2>2. searchDebounceTimer' \in BOOLEAN
    BY <1>1, <2>1 DEF GridTypeOK
  <2>3. QED
    BY <1>1, <2>1, <2>2, AppliedIsCurrent
<1>7. CASE ToggleComparisonMode
  <2>1. /\ renderGrid /\ comparisonMode' = ~comparisonMode /\ selectedForComparison' = <<>>
        /\ UNCHANGED <<allOperators, filteredOperators, inputs, autonomousModeEnabled>>
    BY <1>7 DEF ToggleComparisonMode
  <2>2. /\ selectedForComparison' \in Seq(Known) /\ Len(selectedForComparison') <= MaxCompared
        /\ comparisonMode' \in BOOLEAN
    BY <1>1, <2>1, EmptySeq DEF GridTypeOK, MaxCompared
  <2>3. QED
    BY <2>1, <2>2, RenderedKeepsGrid
<1>8. CASE ClickElsewhere
  BY <1>8, CloseMenusKeepsGrid
<1>9. CASE SwitchAutonomousMode
  BY <1>9, SwitchKeepsGrid
<1>10. ASSUME NEW i \in DOMAIN cards,
              SelectForComparison(i) \/ RefuseTick(i) \/ ToggleQuickActions(i)
       PROVE  GridInv'
  BY <1>10, SelectKeepsGrid, RefuseKeepsGrid, ToggleMenuKeepsGrid
<1>11. CASE UNCHANGED gvars
  <2>1. GridTypeOK' /\ FilteredIsCurrent' /\ CardsShowFiltered'
    BY <1>11 DEF gvars, inputs, comparison, GridInv, GridTypeOK, FilteredIsCurrent, CardsShowFiltered
  <2>2. TickedIsSelected' /\ FirstHasMenu' /\ LiveIsMode'
    BY <1>11 DEF gvars, comparison, GridInv, TickedIsSelected, FirstHasMenu, LiveIsMode
  <2>3. QED
    BY <2>1, <2>2 DEF GridInv
<1>12. QED
  BY <1>2, <1>3, <1>4, <1>5, <1>6, <1>7, <1>8, <1>9, <1>10, <1>11 DEF GNext

LEMMA GridInvariant == GSpec => []GridInv
<1>1. QED
  BY InitGrid, NextGrid, PTL DEF GSpec

(* The cards are what passes the filter of what is known now, whatever     *)
(* inventories come, and an export has just these (app.js:1308-1373).      *)
THEOREM GridAlwaysTheFilter == GSpec => []GridIsTheFilter
<1>1. GridInv => GridIsTheFilter
  <2> SUFFICES ASSUME GridInv, ~gridFailed
               PROVE  /\ \A format \in {"json", "csv"} : Exported(format) = OnCards
                      /\ ~searchDebounceTimer =>
                           OnCards = Having(allOperators, LAMBDA op : Passes(op, search, checked))
    BY DEF GridIsTheFilter
  <2>1. OnCards = filteredOperators
    BY DEF GridInv, GridTypeOK, CardsShowFiltered, OnCards
  <2>2. \A format \in {"json", "csv"} : Exported(format) = filteredOperators
    BY DEF Exported
  <2>3. ~searchDebounceTimer =>
          filteredOperators = Having(allOperators, LAMBDA op : Passes(op, search, checked))
    BY Zenon DEF GridInv, FilteredIsCurrent, Having, Kept, Places, Passing
  <2>4. QED
    BY <2>1, <2>2, <2>3, Zenon
<1>2. QED
  BY <1>1, GridInvariant, PTL

(* What is ticked is what will be compared, one menu is open at a time,    *)
(* and the buttons are live just when the switch is on, through every      *)
(* order of fetches, filters, clicks and switches (app.js:1721-1741,       *)
(* 2344-2393, 2454-2466).                                                  *)
THEOREM CardsAlwaysCurrent == GSpec => []CardsAreCurrent
<1>1. GridInv => CardsAreCurrent
  BY DEF GridInv, GridTypeOK, TickedIsSelected, FirstHasMenu, LiveIsMode, CardsAreCurrent
<1>2. QED
  BY <1>1, GridInvariant, PTL

-----------------------------------------------------------------------------
(* The modals.  An open and transparent one has a timer, for a timer that  *)
(* runs makes it visible or hides it; the one that was opened with no      *)
(* close under way has no timer that would hide it.                        *)

ModalInv ==
  /\ timers \in Seq({"show", "hide"}) /\ hidden \in BOOLEAN /\ transparent \in BOOLEAN
  /\ ~hidden /\ transparent => timers # <<>>
  /\ asked /\ ~hasty => ~hidden /\ timers \in Seq({"show"})
  /\ modal = "crdDiff" => ~transparent /\ timers = <<>>

LEMMA InitModal == MInit => ModalInv
BY EmptySeq DEF MInit, ModalInv, Fades

LEMMA ShowKeepsModal ==
  ASSUME ModalInv, Show
  PROVE  ModalInv'
<1>1. /\ hidden' = FALSE /\ hasty' = ("hide" \in ToSet(timers))
      /\ timers' = IF modal # "crdDiff" THEN Append(timers, "show") ELSE timers
      /\ UNCHANGED <<modal, transparent>>
  BY DEF Show, Fades
<1>2. timers \in Seq({"show", "hide"})
  BY DEF ModalInv
<1>3. ASSUME ~hasty' PROVE timers \in Seq({"show"})
  <2>1. "hide" \notin ToSet(timers)
    BY <1>1, <1>3, Zenon
  <2>2. \A i \in 1..Len(timers) : timers[i] = "show"
    BY <1>2, <2>1 DEF ToSet
  <2>3. QED
    BY <1>2, <2>2
<1>4. CASE modal = "crdDiff"
  BY <1>1, <1>2, <1>3, <1>4 DEF ModalInv
<1>5. CASE modal # "crdDiff"
  <2>1. timers' = Append(timers, "show") /\ timers' \in Seq({"show", "hide"}) /\ timers' # <<>>
    BY <1>1, <1>2, <1>5
  <2>2. ~hasty' => timers' \in Seq({"show"})
    BY <1>3, <2>1
  <2>3. QED
    BY <1>1, <1>5, <2>1, <2>2 DEF ModalInv
<1>6. QED
  BY <1>4, <1>5

LEMMA HideKeepsModal ==
  ASSUME ModalInv, Hide, modal # "crdDiff"
  PROVE  ModalInv'
BY DEF ModalInv, Hide

LEMMA FireKeepsModal ==
  ASSUME ModalInv, NEW i \in DOMAIN timers, Fires(i)
  PROVE  ModalInv'
<1>1. timers \in Seq({"show", "hide"}) /\ i \in 1..Len(timers) /\ timers[i] \in {"show", "hide"}
  BY DEF ModalInv
<1>2. timers' = RemoveAt(timers, i) /\ UNCHANGED <<modal, asked, hasty>>
  BY DEF Fires
<1>3. timers' \in Seq({"show", "hide"})
  BY <1>1, <1>2, RemoveAtFacts
<1>4. timers \in Seq({"show"}) => timers' \in Seq({"show"}) /\ timers[i] = "show"
  BY <1>1, <1>2, RemoveAtFacts
<1>5. modal # "crdDiff"
  BY <1>1 DEF ModalInv
<1> DEFINE OnlyShow(q) == q \in Seq({"show"})
<1>6. CASE timers[i] = "show"
  <2>1. transparent' = FALSE /\ hidden' = hidden
    BY <1>6 DEF Fires
  <2>2. /\ asked /\ ~hasty => ~hidden /\ OnlyShow(timers)
        /\ OnlyShow(timers) => OnlyShow(timers')
    BY <1>4, Zenon DEF ModalInv
  <2> HIDE DEF OnlyShow
  <2>3. asked' /\ ~hasty' => ~hidden' /\ OnlyShow(timers')
    BY <1>2, <2>1, <2>2
  <2>4. hidden' \in BOOLEAN
    BY <2>1 DEF ModalInv
  <2>5. QED
    BY <1>2, <1>3, <1>5, <2>1, <2>3, <2>4 DEF ModalInv, OnlyShow
<1>7. CASE timers[i] = "hide"
  <2>1. hidden' = TRUE /\ transparent' = transparent
    BY <1>7 DEF Fires
  <2>2. ~(asked' /\ ~hasty')
    BY <1>2, <1>4, <1>7 DEF ModalInv
  <2>3. transparent' \in BOOLEAN
    BY <2>1 DEF ModalInv
  <2>4. QED
    BY <1>2, <1>3, <1>5, <2>1, <2>2, <2>3 DEF ModalInv
<1>8. QED
  BY <1>1, <1>6, <1>7

LEMMA NextModal == ModalInv /\ [MNext]_mvars => ModalInv'
<1> SUFFICES ASSUME ModalInv, [MNext]_mvars
             PROVE  ModalInv'
  OBVIOUS
<1>1. CASE Show
  BY <1>1, ShowKeepsModal
<1>2. CASE Hide /\ modal # "crdDiff"
  BY <1>2, HideKeepsModal
<1>3. CASE CloseCRDDiffModal
  BY <1>3 DEF CloseCRDDiffModal, ModalInv
<1>4. CASE NewInventory
  BY <1>4 DEF NewInventory, ModalInv
<1>5. CASE Timers
  BY <1>5, FireKeepsModal DEF Timers
<1>6. CASE UNCHANGED mvars
  BY <1>6 DEF mvars, ModalInv
<1>7. QED
  BY <1>1, <1>2, <1>3, <1>4, <1>5, <1>6
  DEF MNext, OpenMetricModal, OpenComponentModal, OpenTopologyModal, OpenLogoModal,
      OpenExportModal, OpenComparisonModal, OpenCVEModal, ShowImpact, RenderCRDDiffModal,
      CloseMetricModal, CloseTopologyModal, CloseLogoModal, CloseExportModal,
      CloseComparisonModal, CloseCVEModal, CloseImpactModal

(* No modal stays over the page unseen, however opening and closing        *)
(* overlap and however many timers are under way, and one that is opened   *)
(* with no close under way stays (app.js:537-580, 2121-2209, 2434-2452).   *)
THEOREM NeverInvisibleOverlay == MSpec => []NoInvisibleOverlay
<1>1. ModalInv => NoInvisibleOverlay
  BY DEF ModalInv, NoInvisibleOverlay
<1>2. MSpec => []ModalInv
  BY InitModal, NextModal, PTL DEF MSpec
<1>3. QED
  BY <1>1, <1>2, PTL
=============================================================================
