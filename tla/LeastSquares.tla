---------------------------- MODULE LeastSquares ----------------------------
(***************************************************************************)
(* numpy.polyfit(x, y, 1) for x = 0, 1, ..., n - 1: the slope of the least *)
(* squares line through a sequence of integers, as an exact fraction.      *)
(***************************************************************************)
EXTENDS Integers, Sequences, FiniteSetsExt

Total(f(_), n) == MapThenSumSet(f, 0..(n - 1))

\* n * sum(x y) - sum(x) * sum(y)
SlopeNum(y) ==
  LET n == Len(y)
  IN n * Total(LAMBDA x : x * y[x + 1], n)
       - Total(LAMBDA x : x, n) * Total(LAMBDA x : y[x + 1], n)

\* n * sum(x x) - sum(x) ^ 2, positive from two samples on
SlopeDen(y) ==
  LET n == Len(y)
  IN n * Total(LAMBDA x : x * x, n) - Total(LAMBDA x : x, n) * Total(LAMBDA x : x, n)
=============================================================================
