---------------------------- MODULE PageRequests ----------------------------
(***************************************************************************)
(* What app.js tells the user of the requests he makes: the quick actions, *)
(* the reads of the same menu (metrics, cost, a YAML to copy), the         *)
(* remediation buttons and the dispatch to the agent (NSAA).  The          *)
(* answers of requests under way come in any order, each is told in an     *)
(* alert, which blocks the page, and after some of them the page is loaded *)
(* again a second later, whatever is under way then.                       *)
(*                                                                         *)
(* The servers (external) carry out a request or not, and answer with a    *)
(* success, with a failure that they explain, with an object that has an   *)
(* error only (not logged in; an operator that is not reached, or not in   *)
(* ten seconds, and may act all the same), or with nothing that the page   *)
(* can use: no JSON, no connection, no clipboard to copy to.               *)
(***************************************************************************)
EXTENDS Naturals

CONSTANTS
  Slot,         \* bound of the model: requests under way at a time
  MaxReloads    \* bound of the model: reloads that wait at a time

ASSUME RequestsAssumption == MaxReloads \in Nat \ {0}

\* Those that are followed by a reload, and the others.
Reloading == {"approve", "change-channel", "delete"}
Posted == Reloading \cup {"restart-pod", "remediate", "dispatch"}
Read == {"metrics", "cost", "copy-yaml"}
Kinds == Posted \cup Read

\* Those whose success comes from the one that carried them out.  The others
\* are answered by the dashboard: a remediation, which nobody carries out, and
\* a dispatch, whatever status the agent has answered it with.
Relayed == Kinds \ {"remediate", "dispatch"}

VARIABLES
  request,      \* each request: [what, answer, done]
  dialog,       \* the alert that is open: [says, of, reload]
  reloads,      \* timers that will load the page again
  unloaded,     \* a change was confirmed, and the page not loaded again since
  autonomous    \* autonomousModeEnabled

qvars == <<request, dialog, reloads, unloaded, autonomous>>

Unsent == [what |-> "nothing", answer |-> "none", done |-> FALSE]

NoDialog == [says |-> "nothing", of |-> Unsent, reload |-> FALSE]

QInit ==
  /\ request = [s \in Slot |-> Unsent]
  /\ dialog = NoDialog
  /\ reloads = 0 /\ unloaded = FALSE /\ autonomous = TRUE

-----------------------------------------------------------------------------
\* The user clicks, and agrees when asked: fetch is called.  A remediation
\* needs the switch to be on.
Send(s, what) ==
  /\ dialog = NoDialog /\ request[s] = Unsent
  /\ what = "remediate" => autonomous
  /\ request' = [request EXCEPT ![s] = [Unsent EXCEPT !.what = what]]
  /\ UNCHANGED <<dialog, reloads, unloaded, autonomous>>

\* He clicks and is refused: the switch is off, the channel is empty or the one
\* shown on the card, the name typed is another.
Refuse(what) ==
  /\ dialog = NoDialog
  /\ \/ what = "remediate" /\ ~autonomous
     \/ what \in {"change-channel", "delete"}
  /\ dialog' = [NoDialog EXCEPT !.says = "refused"]
  /\ UNCHANGED <<request, reloads, unloaded, autonomous>>

\* The servers; the agent, when it takes what was dispatched.
Perform(s) ==
  /\ request[s].what \in Kinds \ {"remediate"} /\ request[s].answer \in {"none", "error"}
  /\ ~request[s].done
  /\ request' = [request EXCEPT ![s].done = TRUE]
  /\ UNCHANGED <<dialog, reloads, unloaded, autonomous>>

\* The answer leaves for the page.
Answered(s) ==
  /\ request[s] # Unsent /\ request[s].answer = "none"
  /\ \E answer \in {"success", "failure", "error", "unreadable"} :
       /\ answer = "success" => request[s].done \/ request[s].what \notin Relayed
       /\ answer = "failure" => request[s].what \in Relayed
       /\ request' = [request EXCEPT ![s].answer = answer]
  /\ UNCHANGED <<dialog, reloads, unloaded, autonomous>>

\* A bug: an answer that says something is taken for a success.
AnyMessageIsGood(r) ==
  IF r.answer = "unreadable" THEN "broken"
  ELSE IF r.what = "remediate" \/ r.answer \in {"success", "failure"} THEN "done" ELSE "not done"

\* What the alert says.  The remediation looks at no status: an object without
\* a message is "Remediation executed."
Verdict(r) ==
  IF r.answer = "unreadable" THEN "broken"
  ELSE IF r.what = "remediate" \/ r.answer = "success" THEN "done" ELSE "not done"

\* The answer of a request is read; alert() holds the handler up.
Tell(s) ==
  /\ dialog = NoDialog /\ request[s].answer # "none"
  /\ dialog' = [says |-> Verdict(request[s]), of |-> request[s],
                reload |-> Verdict(request[s]) = "done" /\ request[s].what \in Reloading]
  /\ unloaded' = (unloaded \/ dialog'.reload)
  /\ request' = [request EXCEPT ![s] = Unsent]
  /\ UNCHANGED <<reloads, autonomous>>

\* The alert is closed and the handler goes on; an unbounded number of reloads
\* is as good as MaxReloads.
Dismiss ==
  /\ dialog # NoDialog
  /\ reloads' = IF dialog.reload /\ reloads < MaxReloads THEN reloads + 1 ELSE reloads
  /\ dialog' = NoDialog
  /\ UNCHANGED <<request, unloaded, autonomous>>

\* location.reload(): nobody is told of what is under way.  The new page may
\* begin with the copy of the old one, see Open of DashboardPage.
Reload ==
  /\ dialog = NoDialog /\ reloads > 0
  /\ request' = [s \in Slot |-> Unsent]
  /\ reloads' = 0 /\ unloaded' = FALSE
  /\ UNCHANGED <<dialog, autonomous>>

\* The switch of the page.
Switched ==
  /\ dialog = NoDialog
  /\ autonomous' = ~autonomous
  /\ UNCHANGED <<request, dialog, reloads, unloaded>>

QNext ==
  \/ Dismiss \/ Reload \/ Switched
  \/ \E what \in Kinds : Refuse(what) \/ \E s \in Slot : Send(s, what)
  \/ \E s \in Slot : Perform(s) \/ Answered(s) \/ Tell(s)

QSpec == QInit /\ [][QNext]_qvars

-----------------------------------------------------------------------------
(* Whatever is under way at the same time and in any order of answers, an  *)
(* alert that says that something was done, or shows something that was    *)
(* read, is about something that was, if the answer comes from the one     *)
(* that did it: not if it is about a remediation or a dispatch.  And the   *)
(* page that a change was confirmed on is bound to be loaded again         *)
(* (app.js:2468-2507, 2613-2745).  The converse does not hold: what is     *)
(* told as not done may have been done, or be yet.                         *)
ToldTheTruth ==
  /\ dialog.says = "done" /\ dialog.of.what \in Relayed => dialog.of.done
  /\ unloaded => dialog.reload \/ reloads > 0

(* server.py:300 "executed successfully", app.js:2138 "Dispatch            *)
(* Successful": what an alert says was done was done, whatever it is about.*)
DoneMeansDone == dialog.says = "done" => dialog.of.done
=============================================================================
