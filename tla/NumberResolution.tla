-------------------------- MODULE NumberResolution --------------------------
(* Whom a message goes to: Manager.resolveDirectTarget and VerifyNumber       *)
(* (internal/session/manager.go) over CandidatePhones                         *)
(* (internal/whatsapp/jid.go), while accounts come and go on WhatsApp.        *)
(*                                                                            *)
(* Brazilian mobile numbers exist with and without a leading 9, and an        *)
(* account is registered under one of the two spellings.  A number is its     *)
(* country, its area code and the digits that follow; punctuation, the plus   *)
(* sign and the server part of a JID name the same number.                    *)
EXTENDS Naturals, Sequences, FiniteSets

CONSTANTS
  Brazil,       \* country code 55
  Countries,    \* country codes
  Digits,       \* digits, Nine among them
  Nine,
  OldLength,    \* digits of a number without the leading 9: 8
  Lids,         \* hidden ids
  Groups,       \* JIDs of groups
  MaxAccounts   \* bound: accounts at a time

ASSUME NumbersAssumption ==
  Brazil \in Countries /\ Nine \in Digits /\ OldLength \in Nat \ {0}
ASSUME MaxAccountsAssumption == MaxAccounts \in Nat

VARIABLES
  accounts,  \* numbers registered on WhatsApp
  pnOf,      \* whatsmeow_lid_map; a lid it does not have stands for itself
  call,      \* a request that sends
  confirmed  \* history: numbers it asked for that were registered then

vars == <<accounts, pnOf, call, confirmed>>

\* Area codes, of two digits, change nothing and are left out.
Numbers ==
  [country: Countries,
   rest: UNION {[1..n -> Digits] : n \in OldLength..(OldLength + 1)}]
Targets == Numbers \cup Lids \cup Groups
ASSUME LidsAssumption == Lids \cap Numbers = {}
Nobody == [country |-> "none"]

\* resolving: the target as parsed; asking: the target with its lid replaced.
Call ==
  [pc: {"resolving", "asking", "done"}, asked: Targets, to: Targets]
    \cup [pc: {"idle", "failed"}, asked: Targets \cup {Nobody}, to: {Nobody}]

TypeOK ==
  /\ accounts \in SUBSET Numbers
  /\ pnOf \in [Lids -> Numbers \cup Lids]
  /\ call \in Call
  /\ confirmed \in SUBSET Numbers

Init ==
  /\ accounts = {}
  /\ pnOf = [l \in Lids |-> l]
  /\ call = [pc |-> "idle", asked |-> Nobody, to |-> Nobody]
  /\ confirmed = {}

-----------------------------------------------------------------------------
(* The algorithm.                                                             *)

AddNine(n) ==
  IF n.country = Brazil /\ Len(n.rest) = OldLength
  THEN {[n EXCEPT !.rest = <<Nine>> \o @]} ELSE {}
DropNine(n) ==
  IF n.country = Brazil /\ Len(n.rest) = OldLength + 1 /\ Head(n.rest) = Nine
  THEN {[n EXCEPT !.rest = Tail(@)]} ELSE {}

CandidatePhones_OnlyAdd(n) == {n} \cup AddNine(n)
CandidatePhones(n) == {n} \cup AddNine(n) \cup DropNine(n)

\* The server says who is "in": a number it knows by that name, and it may
\* know one also by its other spelling.
Answers(n) ==
  IF n \in accounts THEN {{n}}
  ELSE {{}} \cup {{m} : m \in CandidatePhones(n) \cap accounts}

\* IsOnWhatsApp: everything that asking for these numbers may give.
IsOnWhatsApp(numbers) ==
  {UNION {answer[n] : n \in numbers} :
     answer \in {f \in [numbers -> SUBSET accounts] :
                   \A n \in numbers : f[n] \in Answers(n)}}

\* The exact number, or else the first of the answers, which come in any order.
Pick_First(n, found) == found
Pick(n, found) == IF n \in found THEN {n} ELSE found

Outcome(choice) == IF choice = {} THEN {Nobody} ELSE choice

\* resolveDirectTarget of a number, and VerifyNumber of one.
Resolutions(n) ==
  UNION {Outcome(Pick(n, found)) : found \in IsOnWhatsApp(CandidatePhones(n))}
Verified(n) == UNION {Outcome(found) : found \in IsOnWhatsApp({n})}

-----------------------------------------------------------------------------
(* The requests and their world.                                              *)

\* ParseTargetJID
Begin(target) ==
  /\ call.pc \notin {"resolving", "asking"}
  /\ call' = [pc |-> "resolving", asked |-> target, to |-> target]
  /\ confirmed' = {}
  /\ UNCHANGED <<accounts, pnOf>>

\* preferredDirectTarget; when the lookup fails the lid itself is kept.
Preferred(target) ==
  IF target \in Lids THEN {target, pnOf[target]} ELSE {target}

Prefer ==
  /\ call.pc = "resolving"
  /\ \E target \in Preferred(call.to) :
       call' = [call EXCEPT !.to = target,
                            !.pc = IF target \in Numbers THEN "asking" ELSE "done"]
  /\ UNCHANGED <<accounts, pnOf, confirmed>>

\* What to do with an outcome of the lookup: ErrNumberNotOnWhatsApp, or send.
Settle_Unchecked(to) ==
  /\ call' = [call EXCEPT !.to = to, !.pc = "done"]
  /\ UNCHANGED <<accounts, pnOf>>
Settle_Anyway(to) ==
  /\ call' = [call EXCEPT !.to = IF to = Nobody THEN @ ELSE to, !.pc = "done"]
  /\ UNCHANGED <<accounts, pnOf>>
Settle(to) ==
  /\ call' = [call EXCEPT !.to = to,
                          !.pc = IF to = Nobody THEN "failed" ELSE "done"]
  /\ UNCHANGED <<accounts, pnOf>>

Ask ==
  /\ call.pc = "asking"
  /\ \E to \in Resolutions(call.to) : Settle(to)
  /\ confirmed' = accounts \cap CandidatePhones(call.to)

AskFails ==
  /\ call.pc = "asking"
  /\ Settle(Nobody)
  /\ UNCHANGED confirmed

Register(n) ==
  /\ Cardinality(accounts) < MaxAccounts
  /\ accounts' = accounts \cup {n}
  /\ UNCHANGED <<pnOf, call, confirmed>>

Deregister(n) ==
  /\ accounts' = accounts \ {n}
  /\ UNCHANGED <<pnOf, call, confirmed>>

LearnNumber(lid, n) ==
  /\ pnOf' = [k \in Lids |-> IF k = lid THEN n
                             ELSE IF pnOf[k] = n THEN k ELSE pnOf[k]]
  /\ UNCHANGED <<accounts, call, confirmed>>

Next ==
  \/ \E target \in Targets : Begin(target)
  \/ Prefer \/ Ask \/ AskFails
  \/ \E n \in Numbers : Register(n) \/ Deregister(n)
  \/ \E lid \in Lids, n \in Numbers : LearnNumber(lid, n)

Spec == Init /\ [][Next]_vars

-----------------------------------------------------------------------------
(* Properties.                                                                *)

\* It makes no difference which spelling of a number a caller uses, when one of
\* them is registered: both reach that account.  When both are, each reaches
\* its own.
SpellingsAgree ==
  \A n \in Numbers : \A m \in CandidatePhones(n) :
    /\ n \in accounts => Resolutions(n) = {n}
    /\ n \in accounts /\ m \notin accounts => Resolutions(m) = {n}

\* A number that VerifyNumber says exists is reached by a send, and under the
\* name VerifyNumber gave.
VerifiedIsReached ==
  \A n \in Numbers : Verified(n) \ {Nobody} # {} =>
    Resolutions(n) = Verified(n) \ {Nobody}

\* A message goes to no number but one the server confirmed, which is the one
\* asked for or its other spelling; that of a lid may have changed meanwhile.
OnlyConfirmed ==
  call.pc = "done" /\ call.to \in Numbers =>
    /\ call.to \in confirmed
    /\ call.asked \in Numbers =>
         call.asked \in CandidatePhones(call.to)
=============================================================================
