---------------------------- MODULE SessionLife ----------------------------
(* What the gateway promises of its sessions, whatever goroutines, late       *)
(* events, statements and restarts carry it.  A session is created once, goes *)
(* through logins, and is deleted for good; a WhatsApp account is linked once *)
(* and only the session that linked it ever names it or runs a client with    *)
(* it; a session that has an account gives it up only to log in by QR code    *)
(* again; and a code is shown only in a session that logs in by QR code.      *)
CONSTANTS Sessions, Accounts,
          Methods,    \* ways to log in, "qr" among them
          Nobody,     \* no session
          NoAccount

VARIABLES
  life,     \* "absent", "live" or "deleted"
  mode,     \* how the session logs in, "none" before it is created
  account,  \* the account the session names
  code,     \* it shows a QR code
  linked,   \* the session that linked each account
  clients   \* the accounts in use: pairs of a session and an account

vars == <<life, mode, account, code, linked, clients>>
rowVars == <<life, mode, account, code>>

\* What was there before: accounts named by the session that linked them.
Init ==
  /\ life \in [Sessions -> {"absent", "live"}]
  /\ mode \in [Sessions -> Methods \cup {"none"}]
  /\ \A s \in Sessions : mode[s] = "none" <=> life[s] = "absent"
  /\ account \in [Sessions -> Accounts \cup {NoAccount}]
  /\ linked \in [Accounts -> Sessions \cup {Nobody}]
  /\ \A s \in Sessions :
       account[s] # NoAccount => life[s] = "live" /\ linked[account[s]] = s
  /\ code = [s \in Sessions |-> FALSE]
  /\ clients = {}

Exists(s) == life[s] # "absent"

Create(s) ==
  /\ life[s] = "absent"
  /\ life' = [life EXCEPT ![s] = "live"]
  /\ \E m \in Methods : mode' = [mode EXCEPT ![s] = m]
  /\ UNCHANGED <<account, code, linked, clients>>

\* The phone links an account, new to this gateway, to a client of the session.
Link(s, a) ==
  /\ Exists(s) /\ linked[a] = Nobody
  /\ linked' = [linked EXCEPT ![a] = s]
  /\ clients' = clients \cup {<<s, a>>}
  /\ UNCHANGED rowVars

\* The session takes note of an account that it has linked, perhaps late.
Adopt(s, a) ==
  /\ Exists(s) /\ linked[a] = s
  /\ account' = [account EXCEPT ![s] = a]
  /\ code' = [code EXCEPT ![s] = FALSE]
  /\ UNCHANGED <<life, mode, linked, clients>>

\* It starts a client with an account that it has linked.
Connect(s, a) ==
  /\ Exists(s) /\ linked[a] = s
  /\ clients' = clients \cup {<<s, a>>}
  /\ UNCHANGED <<rowVars, linked>>

\* Clients end, or lose their account.
Disconnect ==
  /\ clients' \subseteq clients
  /\ UNCHANGED <<rowVars, linked>>

Show(s) ==
  /\ Exists(s) /\ mode[s] = "qr"
  /\ code' = [code EXCEPT ![s] = TRUE]
  /\ UNCHANGED <<life, mode, account, linked, clients>>

Hide(s) ==
  /\ code' = [code EXCEPT ![s] = FALSE]
  /\ UNCHANGED <<life, mode, account, linked, clients>>

\* Back to a login by QR code: the one way to give an account up.
Reset(s) ==
  /\ life[s] = "live"
  /\ mode' = [mode EXCEPT ![s] = "qr"]
  /\ account' = [account EXCEPT ![s] = NoAccount]
  /\ code' = [code EXCEPT ![s] = FALSE]
  /\ UNCHANGED <<life, linked, clients>>

Delete(s) ==
  /\ Exists(s)
  /\ life' = [life EXCEPT ![s] = "deleted"]
  /\ code' = [code EXCEPT ![s] = FALSE]
  /\ UNCHANGED <<mode, account, linked, clients>>

Next ==
  \/ \E s \in Sessions : Create(s) \/ Show(s) \/ Hide(s) \/ Reset(s) \/ Delete(s)
  \/ \E s \in Sessions, a \in Accounts : Link(s, a) \/ Adopt(s, a) \/ Connect(s, a)
  \/ Disconnect

Spec == Init /\ [][Next]_vars
=============================================================================
