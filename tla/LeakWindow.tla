----------------------------- MODULE LeakWindow -----------------------------
(***************************************************************************)
(* The leak predictor of brain/app.py: the last five memory samples of a   *)
(* pod, a line fitted through them by least squares, and a restart asked   *)
(* for when the line rises and one more step of it passes the limit.       *)
(*                                                                         *)
(* The state machine here is one pod seen by one request at a time; the    *)
(* threads that share the histories are in Telemetry.tla.                  *)
(*                                                                         *)
(* The brain fits the line in floating point.  The exact slope and the     *)
(* exact projection are multiples of 1 / SlopeDen, a fiftieth for five     *)
(* samples, next to which the error of the fit is nothing: it decides a    *)
(* comparison only when the two sides are equal.  A flat history has the   *)
(* slope zero and may come out of polyfit as a line that rises a little.   *)
(***************************************************************************)
EXTENDS Integers, Sequences, LeastSquares

CONSTANTS
  Sample,       \* memory_mb values that can be reported
  Limit,        \* MEMORY_LIMIT_MB
  Window,       \* samples kept
  MinSamples    \* samples needed for a prediction

ASSUME SampleAssumption == Sample \subseteq Nat
ASSUME LimitAssumption == Limit \in Nat
ASSUME WindowAssumption == Window \in Nat /\ MinSamples \in 2..Window

VARIABLES
  history,      \* pod_history[pod_name]
  action        \* the answer to the last report

lvars == <<history, action>>

-----------------------------------------------------------------------------
\* pop(0) once the list is longer than the window.
Trim(h) == IF Len(h) > Window THEN Tail(h) ELSE h

\* Whether a float whose exact value is d / SlopeDen is positive, when the fit
\* rounds up or down.
Positive(d, up) == d > 0 \/ (d = 0 /\ up)

\* What the line leaves of the limit, one step on, multiplied out.
Excess(h) == (h[Len(h)] - Limit) * SlopeDen(h) + SlopeNum(h)

\* A bug: the projection is compared without asking that the line rises.
FlaggedWhenHigh(h, up) ==
  /\ Len(h) >= MinSamples
  /\ Positive(Excess(h), up)

\* slope > 0 and history[-1] + slope > MEMORY_LIMIT_MB
Flagged(h, up) ==
  /\ Len(h) >= MinSamples
  /\ Positive(SlopeNum(h), up)
  /\ Positive(Excess(h), up)

Verdict(h, up) == IF Flagged(h, up) THEN "RESTART_PROACTIVE" ELSE "NONE"

ReceiveTelemetry(m, up) ==
  /\ history' = Trim(Append(history, m))
  /\ action' = Verdict(history', up)

LInit == history = <<>> /\ action = "NONE"

LNext == \E m \in Sample, up \in BOOLEAN : ReceiveTelemetry(m, up)

LSpec == LInit /\ [][LNext]_lvars

-----------------------------------------------------------------------------
\* The rise from each kept sample to the next.
Rises == {history[i + 1] - history[i] : i \in 1..(Len(history) - 1)}

(* A restart is asked for only when some rise between two neighbouring     *)
(* samples, repeated once, would reach the limit: below the limit that     *)
(* takes a true rise, so a flat or falling history asks for none there,    *)
(* and a falling one nowhere.  At or above the limit a flat history may be *)
(* restarted, by the rounding of the fit.  A restart is asked for whenever *)
(* every rise of a full enough history would pass the limit                *)
(* (app.py:161-177).                                                       *)
AlarmIsRight ==
  LET last == history[Len(history)] IN
  /\ action = "RESTART_PROACTIVE" => \E d \in Rises : d >= 0 /\ last + d >= Limit
  /\ /\ Len(history) >= MinSamples
     /\ \A d \in Rises : d > 0 /\ last + d > Limit
     => action = "RESTART_PROACTIVE"
=============================================================================
