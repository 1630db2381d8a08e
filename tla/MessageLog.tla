----------------------------- MODULE MessageLog -----------------------------
(* What the gateway promises of the messages of its sessions, whatever races  *)
(* for their rows: a message is due from the moment the WhatsApp server takes *)
(* it from, or has it for, a session; it is stored on one side for good, or   *)
(* lost, and may still be stored after that; content once stored stays; only  *)
(* what is stored is announced, as the side it is stored on; and a request is *)
(* answered with success only for what was announced as sent.                 *)
CONSTANT Keys  \* sessions and message ids: the unique key of the table

VARIABLES
  fate,      \* what has become of each message
  side,      \* where it is stored
  content,   \* the messages stored with their content
  heard,     \* the messages announced, each as of a side
  answered   \* the messages a request was answered with success for

vars == <<fate, side, content, heard, answered>>

Fates == {"unknown", "due", "stored", "lost"}
Sides == {"inbound", "outbound"}

Init ==
  /\ fate = [k \in Keys |-> "unknown"]
  /\ side = [k \in Keys |-> "none"]
  /\ content = {} /\ heard = {} /\ answered = {}

Now(K) == {k \in Keys : fate[k] \in K}
Become(due, lost) ==
  fate' = [k \in Keys |-> IF k \in due THEN "due"
                          ELSE IF k \in lost THEN "lost" ELSE fate[k]]

\* The server takes a message, or has it for a session, or both for two
\* sessions; the sender may never learn of it.
Arrive(due, lost) ==
  /\ due \cup lost \subseteq Now({"unknown"})
  /\ Become(due, lost)
  /\ UNCHANGED <<side, content, heard, answered>>

\* A fault drops messages that were due.
Lose(lost) ==
  /\ lost \subseteq Now({"due"})
  /\ Become({}, lost)
  /\ UNCHANGED <<side, content, heard, answered>>

\* A row is written, the first or once more.
Store(k, d) ==
  /\ fate[k] # "unknown"
  /\ fate' = [fate EXCEPT ![k] = "stored"]
  /\ side[k] \in {"none", d}
  /\ side' = [side EXCEPT ![k] = d]
  /\ content' \in {content, content \cup {k}}
  /\ UNCHANGED <<heard, answered>>

Announce(k, d) ==
  /\ fate[k] = "stored" /\ side[k] = d
  /\ heard' = heard \cup {<<d, k>>}
  /\ answered' \in IF d = "outbound" THEN {answered, answered \cup {k}}
                   ELSE {answered}
  /\ UNCHANGED <<fate, side, content>>

Next ==
  \/ \E due, lost \in SUBSET Keys : Arrive(due, lost)
  \/ \E lost \in SUBSET Keys : Lose(lost)
  \/ \E k \in Keys, d \in Sides : Store(k, d) \/ Announce(k, d)

Spec == Init /\ [][Next]_vars
=============================================================================
