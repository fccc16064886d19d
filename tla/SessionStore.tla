----------------------------- MODULE SessionStore -----------------------------
(***************************************************************************)
(* What a store of sessions promises, with the reasons for ending one left *)
(* out: a token stands for one account from the moment it is issued until  *)
(* it ends, and it is never issued again (backend/vault_sessions.py:1-28). *)
(***************************************************************************)
CONSTANTS Token, User

VARIABLES
  account,  \* account[t]: whose session t is, for every open session t
  used      \* the tokens issued so far

vars == <<account, used>>

Init ==
  /\ account = [t \in {} |-> {}]
  /\ used = {}

\* Sessions end: idle, too old, evicted, locked or revoked.
End(gone) ==
  /\ account' = [t \in DOMAIN account \ gone |-> account[t]]
  /\ UNCHANGED used

\* A new session; to make room, others may end.
Open(t, u, gone) ==
  /\ t \notin used
  /\ account' = [s \in (DOMAIN account \ gone) \union {t} |->
                   IF s = t THEN u ELSE account[s]]
  /\ used' = used \union {t}

Next ==
  \E gone \in SUBSET Token :
    \/ End(gone)
    \/ \E t \in Token, u \in User : Open(t, u, gone)

Spec == Init /\ [][Next]_vars
=============================================================================
