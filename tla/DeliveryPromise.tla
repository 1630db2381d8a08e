-------------------------- MODULE DeliveryPromise --------------------------
(* What the outbox promises of each webhook delivery, whatever queue, worker  *)
(* or database carries it: it is POSTed at most Limit times, never again once *)
(* the receiver has answered 2xx, and it is given up only when every one of   *)
(* its Limit attempts was made and refused, or its webhook was removed.       *)
EXTENDS Naturals

CONSTANTS Ids,     \* the deliveries
          Limit    \* how often a delivery may be POSTed, at least once

VARIABLES fate,    \* what became of a delivery
          tries    \* how often it was POSTed

vars == <<fate, tries>>

Fates == {"unknown", "open", "accepted", "abandoned", "withdrawn"}

TypeOK ==
  /\ fate \in [Ids -> Fates]
  /\ tries \in [Ids -> 0..Limit]

Init ==
  /\ fate = [d \in Ids |-> "unknown"]
  /\ tries = [d \in Ids |-> 0]

\* The delivery is owed from here on.
Owe(d) ==
  /\ fate[d] = "unknown"
  /\ fate' = [fate EXCEPT ![d] = "open"]
  /\ UNCHANGED tries

\* A POST is answered 2xx; a removed webhook may still receive the POST that
\* was already on its way.
Accept(d) ==
  /\ fate[d] \in {"open", "withdrawn"}
  /\ tries[d] < Limit
  /\ tries' = [tries EXCEPT ![d] = @ + 1]
  /\ fate' = [fate EXCEPT ![d] = "accepted"]

\* A POST fails or is answered otherwise.
Refuse(d) ==
  /\ fate[d] \in {"open", "withdrawn"}
  /\ tries[d] < Limit
  /\ tries' = [tries EXCEPT ![d] = @ + 1]
  /\ UNCHANGED fate

GiveUp(d) ==
  /\ fate[d] = "open"
  /\ tries[d] = Limit
  /\ fate' = [fate EXCEPT ![d] = "abandoned"]
  /\ UNCHANGED tries

\* Removing a webhook withdraws all its deliveries in one step; an answer
\* already given stays given.
Withdraw ==
  /\ \E gone \in SUBSET {d \in Ids : fate[d] \in {"open", "abandoned"}} :
       fate' = [d \in Ids |-> IF d \in gone THEN "withdrawn" ELSE fate[d]]
  /\ UNCHANGED tries

Next ==
  \/ \E d \in Ids : Owe(d) \/ Accept(d) \/ Refuse(d) \/ GiveUp(d)
  \/ Withdraw

Spec == Init /\ [][Next]_vars
=============================================================================
