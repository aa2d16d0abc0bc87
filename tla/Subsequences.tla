---------------------------- MODULE Subsequences ----------------------------
(***************************************************************************)
(* What a filter leaves of a list, JavaScript's Array.filter and Go's loops*)
(* that append or count what passes a test: the entries that pass, in      *)
(* their order.  This is SelectSeq, without the recursion that its         *)
(* definition has.                                                         *)
(***************************************************************************)
EXTENDS Naturals, FiniteSets, Sequences

IsSequence(s) == s \in Seq({s[i] : i \in DOMAIN s})

\* The numbers of I up to i, and the k-th number of I.
Rank(I, i) == Cardinality({j \in I : j <= i})
Nth(I, k) == CHOOSE i \in I : Rank(I, i) = k

\* The entries of s at the places I.
At(s, I) == [k \in 1..Cardinality(I) |-> s[Nth(I, k)]]

Places(s, P(_)) == {i \in DOMAIN s : P(s[i])}

Kept(s, P(_)) == At(s, Places(s, P))
=============================================================================
