\* Numbers of one or two digits, in Brazil and elsewhere, of which any two are
\* registered: none, one or both spellings of a number, in every order.
CONSTANTS
  Brazil = br
  Countries = {br, us}
  Digits = {d1, d9}
  Nine = d9
  OldLength = 1
  Lids = {l1}
  Groups = {g1}
  MaxAccounts = 2
SPECIFICATION Spec
INVARIANTS TypeOK SpellingsAgree VerifiedIsReached OnlyConfirmed
