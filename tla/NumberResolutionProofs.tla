----------------------- MODULE NumberResolutionProofs -----------------------
(* Theorems of NumberResolution, for any countries, digits and lengths of     *)
(* numbers, any hidden ids and groups, and any number of accounts.            *)
EXTENDS NumberResolution, SequenceTheorems, TLAPS

-----------------------------------------------------------------------------
(* The two spellings of a number.                                             *)

\* What follows the area code is a sequence of digits, of one of two lengths.
LEMMA RestType ==
  ASSUME NEW n \in Numbers
  PROVE  /\ n.country \in Countries
         /\ n.rest \in Seq(Digits) /\ n.rest # <<>>
         /\ Len(n.rest) \in {OldLength, OldLength + 1}
         /\ n = [country |-> n.country, rest |-> n.rest]
<1>1. PICK k \in OldLength..(OldLength + 1) : n.rest \in [1..k -> Digits]
  BY DEF Numbers
<1>2. k \in Nat \ {0}
  BY NumbersAssumption
<1>3. n.rest \in Seq(Digits) /\ Len(n.rest) = k
  BY <1>1, <1>2
<1>4. n.rest # <<>>
  BY <1>2, <1>3, EmptySeq
<1>5. k = OldLength \/ k = OldLength + 1
  BY NumbersAssumption
<1> QED
  BY <1>3, <1>4, <1>5 DEF Numbers

\* A sequence of digits of one of the two lengths makes a number.
LEMMA NumberType ==
  ASSUME NEW c \in Countries, NEW s \in Seq(Digits),
         Len(s) \in {OldLength, OldLength + 1}
  PROVE  [country |-> c, rest |-> s] \in Numbers
<1>1. s \in [1..Len(s) -> Digits] /\ Len(s) \in OldLength..(OldLength + 1)
  BY LenProperties, NumbersAssumption
<1> QED
  BY <1>1 DEF Numbers

\* A leading nine that was added can be dropped, and one dropped added.
LEMMA NineAddDrop ==
  ASSUME NEW s \in Seq(Digits)
  PROVE  /\ <<Nine>> \o s \in Seq(Digits)
         /\ Len(<<Nine>> \o s) = Len(s) + 1
         /\ Head(<<Nine>> \o s) = Nine
         /\ Tail(<<Nine>> \o s) = s
         /\ s # <<>> => /\ Tail(s) \in Seq(Digits) /\ Len(Tail(s)) = Len(s) - 1
                        /\ Head(s) = Nine => <<Nine>> \o Tail(s) = s
<1>1. <<Nine>> \in Seq(Digits) /\ Len(<<Nine>>) = 1 /\ <<Nine>>[1] = Nine
  BY NumbersAssumption
<1> DEFINE t == <<Nine>> \o s
<1>2. /\ t \in Seq(Digits) /\ Len(t) = Len(s) + 1
      /\ \A i \in 1..(Len(s) + 1) : t[i] = IF i <= 1 THEN Nine ELSE s[i - 1]
  BY <1>1, ConcatProperties
<1>3. Len(s) \in Nat
  BY LenProperties
<1> HIDE DEF t
<1>4. t # <<>> /\ Head(t) = t[1]
  BY <1>2, <1>3, EmptySeq
<1>5. Head(t) = Nine
  BY <1>2, <1>3, <1>4
<1>6. /\ Tail(t) \in Seq(Digits) /\ Len(Tail(t)) = Len(s)
      /\ \A i \in 1..Len(s) : Tail(t)[i] = t[i + 1]
  BY <1>2, <1>3, <1>4, HeadTailProperties
<1>7. \A i \in 1..Len(s) : Tail(t)[i] = s[i]
  BY <1>2, <1>3, <1>6
<1>8. Tail(t) = s
  BY <1>6, <1>7, SeqEqual
<1>9. ASSUME s # <<>>
      PROVE  /\ Tail(s) \in Seq(Digits) /\ Len(Tail(s)) = Len(s) - 1
             /\ Head(s) = Nine => <<Nine>> \o Tail(s) = s
  <2>1. /\ Tail(s) \in Seq(Digits) /\ Len(Tail(s)) = Len(s) - 1
        /\ \A i \in 1..Len(Tail(s)) : Tail(s)[i] = s[i + 1]
    BY <1>9, HeadTailProperties
  <2> DEFINE u == <<Nine>> \o Tail(s)
  <2>2. /\ u \in Seq(Digits) /\ Len(u) = Len(s)
        /\ \A i \in 1..Len(s) : u[i] = IF i <= 1 THEN Nine ELSE Tail(s)[i - 1]
    BY <1>1, <1>3, <2>1, ConcatProperties
  <2> HIDE DEF u
  <2>3. ASSUME Head(s) = Nine, NEW i \in 1..Len(s) PROVE u[i] = s[i]
    <3>1. CASE i = 1
      BY <2>2, <2>3, <3>1
    <3>2. CASE i # 1
      BY <1>3, <2>1, <2>2, <2>3, <3>2
    <3> QED BY <3>1, <3>2
  <2>4. Head(s) = Nine => u = s
    BY <2>2, <2>3, SeqEqual
  <2> QED BY <2>1, <2>4 DEF u
<1> QED
  BY <1>2, <1>5, <1>8, <1>9 DEF t

\* The candidates of a number, by its country, its length and its first digit.
Short(n) == n.country = Brazil /\ Len(n.rest) = OldLength
Long(n) == /\ n.country = Brazil /\ Len(n.rest) = OldLength + 1
           /\ Head(n.rest) = Nine
Longer(n) == [country |-> n.country, rest |-> <<Nine>> \o n.rest]
Shorter(n) == [country |-> n.country, rest |-> Tail(n.rest)]

LEMMA CandidatesAre ==
  ASSUME NEW n \in Numbers
  PROVE  /\ CandidatePhones(n) = {n} \cup (IF Short(n) THEN {Longer(n)} ELSE {})
                                     \cup (IF Long(n) THEN {Shorter(n)} ELSE {})
         /\ ~(Short(n) /\ Long(n))
<1>1. \A s : [n EXCEPT !.rest = s] = [country |-> n.country, rest |-> s]
  BY DEF Numbers
<1>2. /\ [n EXCEPT !.rest = <<Nine>> \o n.rest] = Longer(n)
      /\ [n EXCEPT !.rest = Tail(n.rest)] = Shorter(n)
  BY <1>1 DEF Longer, Shorter
<1>3. AddNine(n) = IF Short(n) THEN {Longer(n)} ELSE {}
  BY <1>2 DEF AddNine, Short
<1>4. DropNine(n) = IF Long(n) THEN {Shorter(n)} ELSE {}
  BY <1>2 DEF DropNine, Long
<1>5. ~(Short(n) /\ Long(n))
  BY NumbersAssumption DEF Short, Long
<1> QED
  BY <1>3, <1>4, <1>5 DEF CandidatePhones

\* The other spelling is a number, of which this one is the other spelling.
LEMMA OtherSpelling ==
  ASSUME NEW n \in Numbers
  PROVE  /\ Short(n) => /\ Longer(n) \in Numbers /\ Long(Longer(n))
                        /\ Shorter(Longer(n)) = n
         /\ Long(n) => /\ Shorter(n) \in Numbers /\ Short(Shorter(n))
                       /\ Longer(Shorter(n)) = n
<1>1. /\ n.country \in Countries /\ n.rest \in Seq(Digits) /\ n.rest # <<>>
      /\ n = [country |-> n.country, rest |-> n.rest]
  BY RestType
<1>2. ASSUME Short(n)
      PROVE  /\ Longer(n) \in Numbers /\ Long(Longer(n))
             /\ Shorter(Longer(n)) = n
  <2> DEFINE s == <<Nine>> \o n.rest
  <2>1. /\ s \in Seq(Digits) /\ Len(s) = OldLength + 1 /\ Head(s) = Nine
        /\ Tail(s) = n.rest
    BY <1>1, <1>2, NineAddDrop DEF Short
  <2>2. Longer(n) = [country |-> n.country, rest |-> s]
    BY DEF Longer
  <2> HIDE DEF s
  <2>3. Longer(n) \in Numbers
    BY <1>1, <2>1, <2>2, NumberType
  <2> QED BY <1>1, <1>2, <2>1, <2>2, <2>3 DEF Short, Long, Shorter
<1>3. ASSUME Long(n)
      PROVE  /\ Shorter(n) \in Numbers /\ Short(Shorter(n))
             /\ Longer(Shorter(n)) = n
  <2> DEFINE s == Tail(n.rest)
  <2>1. /\ s \in Seq(Digits) /\ Len(s) = OldLength /\ <<Nine>> \o s = n.rest
    BY <1>1, <1>3, NineAddDrop, NumbersAssumption DEF Long
  <2>2. Shorter(n) = [country |-> n.country, rest |-> s]
    BY DEF Shorter
  <2> HIDE DEF s
  <2>3. Shorter(n) \in Numbers
    BY <1>1, <2>1, <2>2, NumberType
  <2> QED BY <1>1, <1>3, <2>1, <2>2, <2>3 DEF Short, Long, Longer
<1> QED
  BY <1>2, <1>3

\* The candidates of a number are two at most, and are each other's candidates.
LEMMA CandidatesAgree ==
  ASSUME NEW n \in Numbers, NEW m \in CandidatePhones(n)
  PROVE  /\ m \in Numbers
         /\ n \in CandidatePhones(n)
         /\ CandidatePhones(m) = CandidatePhones(n)
         /\ m # n => CandidatePhones(n) = {n, m}
<1>1. n \in CandidatePhones(n)
  BY CandidatesAre
<1>2. CASE m = n
  BY <1>1, <1>2
<1>3. CASE m # n /\ Short(n)
  <2>1. m = Longer(n) /\ CandidatePhones(n) = {n, m}
    BY <1>3, CandidatesAre
  <2>2. m \in Numbers /\ Long(m) /\ Shorter(m) = n
    BY <1>3, <2>1, OtherSpelling
  <2>3. CandidatePhones(m) = {m, n}
    BY <2>2, CandidatesAre
  <2> QED BY <1>1, <2>1, <2>2, <2>3
<1>4. CASE m # n /\ ~Short(n)
  <2>1. m = Shorter(n) /\ CandidatePhones(n) = {n, m} /\ Long(n)
    BY <1>4, CandidatesAre
  <2>2. m \in Numbers /\ Short(m) /\ Longer(m) = n
    BY <2>1, OtherSpelling
  <2>3. CandidatePhones(m) = {m, n}
    BY <2>2, CandidatesAre
  <2> QED BY <1>1, <2>1, <2>2, <2>3
<1> QED
  BY <1>2, <1>3, <1>4

-----------------------------------------------------------------------------
(* What the server answers.                                                   *)

\* It names accounts only, each a spelling of a number that was asked for; of a
\* number that is registered itself, that one alone; and it answers something.
LEMMA ServerAnswers ==
  ASSUME NEW numbers
  PROVE  /\ IsOnWhatsApp(numbers) # {}
         /\ \A found \in IsOnWhatsApp(numbers) :
              /\ found \subseteq accounts
              /\ \A m \in found : \E n \in numbers :
                   m \in CandidatePhones(n) /\ (n \in accounts => m = n)
              /\ numbers \cap accounts \subseteq found
<1> DEFINE answers == {f \in [numbers -> SUBSET accounts] :
                         \A n \in numbers : f[n] \in Answers(n)}
<1>1. answers # {}
  <2> DEFINE f == [n \in numbers |-> IF n \in accounts THEN {n} ELSE {}]
  <2>1. f \in [numbers -> SUBSET accounts] /\ \A n \in numbers : f[n] \in Answers(n)
    BY DEF Answers
  <2> QED BY <2>1
<1>2. ASSUME NEW f \in answers, NEW n \in numbers
      PROVE  /\ f[n] \subseteq accounts
             /\ \A m \in f[n] : /\ m = n \/ m \in CandidatePhones(n)
                                /\ n \in accounts => m = n
             /\ n \in accounts => n \in f[n]
  BY <1>2 DEF Answers
<1>3. \A n : n \in CandidatePhones(n)
  BY DEF CandidatePhones
<1>4. IsOnWhatsApp(numbers) = {UNION {answer[n] : n \in numbers} : answer \in answers}
  BY DEF IsOnWhatsApp
<1> HIDE DEF answers
<1>5. ASSUME NEW found \in IsOnWhatsApp(numbers)
      PROVE  /\ found \subseteq accounts
             /\ \A m \in found : \E n \in numbers :
                  m \in CandidatePhones(n) /\ (n \in accounts => m = n)
             /\ numbers \cap accounts \subseteq found
  <2>1. PICK f \in answers : found = UNION {f[n] : n \in numbers}
    BY <1>4
  <2> QED BY <1>2, <1>3, <2>1
<1>6. IsOnWhatsApp(numbers) # {}
  <2>1. PICK f \in answers : TRUE
    BY <1>1
  <2>2. UNION {f[n] : n \in numbers} \in IsOnWhatsApp(numbers)
    BY <1>4, <2>1
  <2> QED BY <2>2
<1> QED
  BY <1>5, <1>6

\* A send goes to a spelling that is registered, or to nobody: to the number
\* itself if it is registered, and else to its other spelling if that is.
LEMMA Resolved ==
  ASSUME accounts \subseteq Numbers, NEW n \in Numbers
  PROVE  /\ Resolutions(n) # {}
         /\ Resolutions(n) \subseteq (CandidatePhones(n) \cap accounts) \cup {Nobody}
         /\ n \in accounts => Resolutions(n) = {n}
         /\ \A m \in CandidatePhones(n) :
              m \in accounts /\ n \notin accounts => Resolutions(n) = {m}
<1> DEFINE answers == IsOnWhatsApp(CandidatePhones(n))
<1>1. /\ answers # {}
      /\ \A found \in answers :
           /\ found \subseteq CandidatePhones(n) \cap accounts
           /\ CandidatePhones(n) \cap accounts \subseteq found
  BY ServerAnswers, CandidatesAgree
<1>2. Resolutions(n) = UNION {Outcome(Pick(n, found)) : found \in answers}
  BY DEF Resolutions
<1>3. n \in CandidatePhones(n)
  BY CandidatesAgree DEF CandidatePhones
<1> HIDE DEF answers
<1>4. \A found \in answers : found = CandidatePhones(n) \cap accounts
  BY <1>1
<1> DEFINE found == CandidatePhones(n) \cap accounts
<1> HIDE DEF found
<1>5. Resolutions(n) = Outcome(Pick(n, found))
  <2>1. answers = {found}
    BY <1>1, <1>4 DEF found
  <2>2. {Outcome(Pick(n, answer)) : answer \in answers} = {Outcome(Pick(n, found))}
    BY <2>1
  <2> QED BY <1>2, <2>2
<1> USE DEF found
<1>6. CASE n \in accounts
  <2>1. Resolutions(n) = {n}
    BY <1>3, <1>5, <1>6 DEF Outcome, Pick
  <2> QED BY <1>3, <1>6, <2>1
<1>7. CASE n \notin accounts
  <2>1. Resolutions(n) = Outcome(found) /\ n \notin found
    BY <1>5, <1>7 DEF Pick
  <2>2. ASSUME NEW m \in CandidatePhones(n), m \in accounts
        PROVE  Resolutions(n) = {m}
    <3>1. CandidatePhones(n) = {n, m}
      BY <1>7, <2>2, CandidatesAgree
    <3>2. found = {m}
      BY <1>7, <2>2, <3>1
    <3> QED BY <2>1, <3>2 DEF Outcome
  <2>3. Resolutions(n) # {} /\ Resolutions(n) \subseteq found \cup {Nobody}
    BY <2>1 DEF Outcome
  <2> QED BY <1>7, <2>2, <2>3
<1> QED
  BY <1>6, <1>7

-----------------------------------------------------------------------------
(* The requests.                                                              *)

\* A number that is being resolved is still the one asked for, and what the
\* server is asked about is a number.
KeepsAsked ==
  /\ call.pc \in {"resolving", "asking"} /\ call.asked \in Numbers =>
       call.to = call.asked
  /\ call.pc = "asking" => call.to \in Numbers
IInv == TypeOK /\ KeepsAsked /\ OnlyConfirmed

\* Nobody is no number: it has no digits.
LEMMA NobodyIsNoNumber == Nobody \notin Numbers
BY DEF Nobody, Numbers

\* What an outcome of the lookup makes of a call that asks.
LEMMA SettleEffect ==
  ASSUME IInv, call.pc = "asking", NEW to \in Numbers \cup {Nobody}, Settle(to)
  PROVE  /\ TypeOK' <=> confirmed' \in SUBSET Numbers
         /\ call'.asked = call.asked /\ call'.to = to
         /\ call'.pc = IF to = Nobody THEN "failed" ELSE "done"
<1>1. call \in [pc: {"asking"}, asked: Targets, to: Targets]
  BY DEF IInv, TypeOK, Call
<1>2. call' = [pc |-> IF to = Nobody THEN "failed" ELSE "done",
               asked |-> call.asked, to |-> to]
  BY <1>1 DEF Settle
<1>3. call' \in Call
  BY <1>1, <1>2 DEF Call, Targets
<1> QED
  BY <1>2, <1>3 DEF IInv, TypeOK, Settle

\* The invariant holds at the start.
LEMMA InitIInv == Init => IInv
BY DEF Init, IInv, TypeOK, Call, KeepsAsked, OnlyConfirmed

\* Every step keeps it.
LEMMA NextIInv == IInv /\ [Next]_vars => IInv'
<1> SUFFICES ASSUME IInv, [Next]_vars PROVE IInv'
  OBVIOUS
<1>1. ASSUME NEW target \in Targets, Begin(target) PROVE IInv'
  BY <1>1 DEF IInv, TypeOK, Call, KeepsAsked, OnlyConfirmed, Begin
<1>2. CASE Prefer
  <2>1. /\ call \in [pc: {"resolving"}, asked: Targets, to: Targets]
        /\ call.asked \in Numbers => call.to = call.asked
    BY <1>2 DEF Prefer, IInv, TypeOK, Call, KeepsAsked
  <2>2. PICK target \in Preferred(call.to) :
          call' = [call EXCEPT !.to = target,
                               !.pc = IF target \in Numbers THEN "asking" ELSE "done"]
    BY <1>2 DEF Prefer
  <2>3. target \in Targets /\ (call.to \in Numbers => target = call.to)
    BY <2>1, LidsAssumption DEF Preferred, IInv, TypeOK, Targets
  <2>4. call' = [pc |-> IF target \in Numbers THEN "asking" ELSE "done",
                 asked |-> call.asked, to |-> target]
    BY <2>1, <2>2
  <2>5. TypeOK'
    BY <1>2, <2>1, <2>3, <2>4 DEF Prefer, IInv, TypeOK, Call
  <2>6. KeepsAsked' /\ OnlyConfirmed'
    BY <2>1, <2>3, <2>4 DEF KeepsAsked, OnlyConfirmed
  <2> QED BY <2>5, <2>6 DEF IInv
<1>3. CASE Ask
  <2>1. PICK to \in Resolutions(call.to) : Settle(to)
    BY <1>3 DEF Ask
  <2>2. /\ call.pc = "asking" /\ call.to \in Numbers
        /\ call.asked \in Numbers => call.to = call.asked
        /\ accounts \subseteq Numbers
    BY <1>3 DEF Ask, IInv, TypeOK, KeepsAsked
  <2>3. confirmed' = accounts \cap CandidatePhones(call.to)
    BY <1>3 DEF Ask
  <2>4. to \in confirmed' \cup {Nobody} /\ confirmed' \subseteq Numbers
    BY <2>2, <2>3, Resolved
  <2>5. /\ TypeOK' <=> confirmed' \in SUBSET Numbers
        /\ call'.asked = call.asked /\ call'.to = to
        /\ call'.pc = IF to = Nobody THEN "failed" ELSE "done"
    BY <2>1, <2>2, <2>4, SettleEffect
  <2>6. TypeOK' /\ KeepsAsked'
    BY <2>4, <2>5 DEF KeepsAsked
  <2>7. \A m \in CandidatePhones(call.to) : call.to \in CandidatePhones(m)
    BY <2>2, CandidatesAgree
  <2>8. OnlyConfirmed'
    BY <2>2, <2>3, <2>4, <2>5, <2>7, NobodyIsNoNumber DEF OnlyConfirmed
  <2> QED BY <2>6, <2>8 DEF IInv
<1>4. CASE AskFails
  <2>1. /\ TypeOK' <=> confirmed' \in SUBSET Numbers
        /\ call'.pc = "failed" /\ confirmed' = confirmed
    BY <1>4, SettleEffect DEF AskFails
  <2> QED BY <2>1 DEF IInv, TypeOK, KeepsAsked, OnlyConfirmed
<1>5. ASSUME NEW n \in Numbers, Register(n) \/ Deregister(n) PROVE IInv'
  BY <1>5 DEF IInv, TypeOK, KeepsAsked, OnlyConfirmed, Register, Deregister
<1>6. ASSUME NEW lid \in Lids, NEW n \in Numbers, LearnNumber(lid, n) PROVE IInv'
  BY <1>6 DEF IInv, TypeOK, KeepsAsked, OnlyConfirmed, LearnNumber
<1>7. CASE UNCHANGED vars
  BY <1>7 DEF IInv, TypeOK, KeepsAsked, OnlyConfirmed, vars
<1> QED
  BY <1>1, <1>2, <1>3, <1>4, <1>5, <1>6, <1>7 DEF Next

\* It always holds.
THEOREM Invariance == Spec => []IInv
<1> QED BY InitIInv, NextIInv, PTL DEF Spec

-----------------------------------------------------------------------------
(* The theorems.                                                              *)

\* A call is always one of the requests that can be under way, and the server's
\* accounts and the map of lids keep their types.
THEOREM TypeCorrect == Spec => []TypeOK
<1>1. IInv => TypeOK
  BY DEF IInv
<1> QED BY <1>1, Invariance, PTL

\* Whichever numbers are registered, both spellings of a number that is reach
\* its account, unless each has an account of its own
\* (resolveDirectTarget over CandidatePhones).
THEOREM EitherSpelling == Spec => []SpellingsAgree
<1>1. TypeOK => SpellingsAgree
  <2> SUFFICES ASSUME TypeOK, NEW n \in Numbers, NEW m \in CandidatePhones(n)
               PROVE  /\ n \in accounts => Resolutions(n) = {n}
                      /\ n \in accounts /\ m \notin accounts => Resolutions(m) = {n}
    BY DEF SpellingsAgree
  <2>1. accounts \subseteq Numbers
    BY DEF TypeOK
  <2>2. m \in Numbers /\ n \in CandidatePhones(m)
    BY CandidatesAgree
  <2> QED BY <2>1, <2>2, Resolved
<1> QED BY <1>1, TypeCorrect, PTL

\* A number VerifyNumber says exists is reached by a send, under the name that
\* it gave: the two lookups, of one number and of all its candidates, agree.
THEOREM VerifyIsTrue == Spec => []VerifiedIsReached
<1>1. TypeOK => VerifiedIsReached
  <2> SUFFICES ASSUME TypeOK, NEW n \in Numbers, Verified(n) \ {Nobody} # {}
               PROVE  Resolutions(n) = Verified(n) \ {Nobody}
    BY DEF VerifiedIsReached
  <2>1. accounts \subseteq Numbers
    BY DEF TypeOK
  <2>2. \A found \in IsOnWhatsApp({n}) :
          /\ found \subseteq CandidatePhones(n) \cap accounts
          /\ n \in accounts => found = {n}
    BY ServerAnswers
  <2>3. Verified(n) \ {Nobody} \subseteq CandidatePhones(n) \cap accounts
    BY <2>2 DEF Verified, Outcome
  <2>4. PICK m \in Verified(n) : m # Nobody /\ m \in CandidatePhones(n) /\ m \in accounts
    BY <2>3
  <2>5. CASE n \in accounts
    <3>1. Resolutions(n) = {n}
      BY <2>1, <2>5, Resolved
    <3>2. Verified(n) \ {Nobody} = {n}
      BY <2>2, <2>4, <2>5 DEF Verified, Outcome
    <3> QED BY <3>1, <3>2
  <2>6. CASE n \notin accounts
    <3>1. Resolutions(n) = {m}
      BY <2>1, <2>4, <2>6, Resolved
    <3>2. CandidatePhones(n) = {n, m}
      BY <2>4, <2>6, CandidatesAgree
    <3>3. Verified(n) \ {Nobody} = {m}
      BY <2>3, <2>4, <2>6, <3>2
    <3> QED BY <3>1, <3>3
  <2> QED BY <2>5, <2>6
<1> QED BY <1>1, TypeCorrect, PTL

\* A message goes to no number but one the server had just confirmed, which is
\* the one asked for or its other spelling, whatever else happens meanwhile.
THEOREM ConfirmedFirst == Spec => []OnlyConfirmed
<1>1. IInv => OnlyConfirmed
  BY DEF IInv
<1> QED BY <1>1, Invariance, PTL
=============================================================================
