----------------------------- MODULE MCAccounts -----------------------------
(* Accounts on small instances, for TLC. *)
EXTENDS Accounts, TLC

\* Requests differ only in what they are asked to do.
Symmetry == Permutations(Request)

\* Demote, promote, disable, enable: one field each, as the users page sends.
OneField == {<<"member", "keep">>, <<"admin", "keep">>,
             <<"keep", "no">>, <<"keep", "yes">>}
\* People: who may sign in, with which password, under which role.
\* (Deleting accounts is one of the RaceOps.)
PeopleOps == {"bootstrap", "login", "unlock", "change_password",
              "create_user", "update_user", "reset_password"}

\* Later states of the program: the owner of the vault and another administrator,
\* each with an open session, or the owner and a service account.  Getting there
\* from Init takes sessions and derivations, which are better spent on what
\* comes next.
Established(second) ==
  LET m1 == [id |-> 1, key |-> 1]
      m2 == [id |-> 2, key |-> 1]
      admin(m) == [role |-> "admin", active |-> TRUE, must_change |-> FALSE,
                   material |-> m, service_owner |-> NoUser]
      other == IF second = "admin" THEN admin(m2)
               ELSE [admin(m2) EXCEPT !.role = "service", !.service_owner = 1]
      session(u, m) == [user |-> u, fingerprint |-> m, key |-> 1,
                        via |-> "write"]
  IN  /\ db = [users |-> [u \in UserId |-> IF u = 1 THEN admin(m1)
                                           ELSE IF u = 2 THEN other
                                           ELSE NoRow],
               vault |-> [owner |-> 1, material |-> m1], next |-> 3]
      /\ lock = NoRequest
      /\ staged = db
      /\ minted = 2
      /\ sessions = [t \in Token |-> IF t = 1 THEN session(1, m1)
                                     ELSE IF t = 2 /\ second = "admin"
                                     THEN session(2, m2)
                                     ELSE NoSession]
      /\ opened = IF second = "admin" THEN 2 ELSE 1
      /\ delivered = 1..opened
      /\ req = [r \in Request |-> Idle]

TwoAdminsSpec ==
  (\E second \in {"admin", "service"} : Established(second)) /\ [][Next]_vars

RaceOps == {"login", "write", "change_password", "update_user",
            "reset_password", "delete_user", "mcp", "rotate_token",
            "require_change", "revoke_sessions"}

\* Unlocking against one change of the account that unlocks.
UnlockRaceOps == {"unlock", "reset_password"}
============================================================================
