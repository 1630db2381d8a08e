------------------------------ MODULE PageBase ------------------------------
(* What the browser pages share (public/config.js): calls of the API through  *)
(* apiFetch, each of which answers when it likes, fails, or is lost when the  *)
(* user leaves the page, and tasks repeated by startPolling.                  *)
(*                                                                            *)
(* JavaScript runs one handler at a time: a step of these modules is the code *)
(* from one await to the next.  An API key is set, and the page is visible.   *)
EXTENDS Naturals

CONSTANTS
  Sessions,     \* the sessions of the gateway
  NoSession,    \* none of them
  MaxClicks,    \* bound: what the user does
  MaxFailures   \* bound: calls that fail for no reason of their own

ASSUME NoSessionAssumption == NoSession \notin Sessions

VARIABLES
  calls,      \* the calls of the page in flight; alike ones are kept once
  clicks,
  failures

Choice == Sessions \cup {NoSession}

Click == clicks < MaxClicks /\ clicks' = clicks + 1 /\ UNCHANGED failures

\* A step of the page that is neither the user's nor a failure.
Quietly == UNCHANGED <<clicks, failures>>

Call(new) == calls' = calls \cup new

\* The answer of a call in flight, and the calls the page makes then.
Returns(c, new) == c \in calls /\ calls' = (calls \ {c}) \cup new

\* apiFetch throws: the network, a status that is not 2xx.
Fails(c) ==
  /\ Returns(c, {})
  /\ failures < MaxFailures
  /\ failures' = failures + 1
  /\ UNCHANGED clicks
=============================================================================
