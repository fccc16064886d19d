------------------------------- MODULE Accounts -------------------------------
(***************************************************************************)
(* Accounts, their key material and the sessions opened for them           *)
(* (backend/crud/auth.py), run by concurrent requests under the            *)
(* transaction discipline of backend/crud/engine.py.                       *)
(*                                                                         *)
(* The requests are tasks of one event loop.  A write request holds        *)
(* SQLite's single write lock from its first statement to the commit, so   *)
(* its reads and writes are one step on a staged copy of the database, and *)
(* the commit is another.  What happens between two transactions of one    *)
(* request is the interesting part: an operation that derives a key first  *)
(* commits, runs Argon2id without the lock, and checks everything again.   *)
(*                                                                         *)
(* Key material is a record of a fresh number (its random salt) and of the *)
(* vault key it wraps.  Whether a typed password opens the material is a   *)
(* free choice.  Sessions are those of VaultSessions without the clock:    *)
(* any of them may end at any time.                                        *)
(***************************************************************************)
EXTENDS Integers

CONSTANTS
  Request,       \* requests being served at the same time
  MaxUsers,      \* bound: account ids ever given out (AUTOINCREMENT)
  MaxMaterials,  \* bound: key materials ever derived
  MaxTokens,     \* bound: sessions ever opened
  Ops,           \* the operations the clients ask for
  UpdatePayloads \* the role and active fields of PATCH /users/{id}, "keep"
                 \* where the field is left out

ASSUME AccountsAssumption ==
  /\ MaxUsers \in Nat \ {0}
  /\ MaxMaterials \in Nat \ {0}
  /\ MaxTokens \in Nat \ {0}
  /\ 0 \notin Request
  /\ UpdatePayloads \subseteq
       ({"admin", "member", "service", "keep"} \X {"keep", "yes", "no"})

VARIABLES
  db,         \* the committed database
  lock,       \* the request that holds SQLite's write lock, or NoRequest
  staged,     \* what the lock holder would commit
  minted,     \* materials derived so far
  sessions,   \* VaultSessions: token |-> account, fingerprint and key
  opened,     \* sessions opened so far; their tokens are 1..opened
  delivered,  \* the tokens some client received
  req         \* the requests

vars == <<db, lock, staged, minted, sessions, opened, delivered, req>>

NoRequest == 0
NoUser == 0
UserId == 1..MaxUsers
Token == 1..MaxTokens
Roles == {"admin", "member", "service"}

Material == [id : 0..MaxMaterials, key : 0..MaxMaterials]
NoMaterial == [id |-> 0, key |-> 0]

\* A row of the users table; service_owner_id is NoUser for people.
UserRow == [role : Roles \union {"none"}, active : BOOLEAN,
            must_change : BOOLEAN, material : Material,
            service_owner : 0..MaxUsers]
NoRow == [role |-> "none", active |-> FALSE, must_change |-> FALSE,
          material |-> NoMaterial, service_owner |-> NoUser]

\* The singleton vault row.  A vault written before accounts existed has
\* material and no owner.
VaultRow == [owner : 0..MaxUsers, material : Material]
NoVault == [owner |-> NoUser, material |-> NoMaterial]

Database == [users : [UserId -> UserRow], vault : VaultRow,
             next : 1..(MaxUsers + 1)]

\* via tells which kind of transaction opened the session; the code does not
\* record it, no action reads it.
SessionRow == [user : 0..MaxUsers, fingerprint : Material,
               key : 0..MaxMaterials, via : {"none", "write", "read"}]

SessionOps == {"write", "change_password", "create_user", "update_user",
               "revoke_sessions", "require_change", "rotate_token",
               "reset_password", "delete_user"}
OpenOps == {"bootstrap", "login", "unlock", "mcp"}
Phases == {"idle", "resolved", "kdf", "snapshot", "staged", "read",
           "committed", "rolled_back"}
Hooks == {"none", "revoke_user", "revoke_except"}

\* One request: what it was asked to do and what its locals hold.  observed is
\* the material read before the derivation, or the fingerprint of the session.
RequestRow ==
  [op : SessionOps \union OpenOps \union {"none"}, phase : Phases,
   token : 0..MaxTokens, user : 0..MaxUsers, observed : Material,
   key : 0..MaxMaterials, target : 0..MaxUsers, role : Roles \union {"keep"},
   active : {"keep", "yes", "no"}, opens : BOOLEAN,
   new : 0..MaxTokens, hook : Hooks]
Idle ==
  [op |-> "none", phase |-> "idle", token |-> 0, user |-> NoUser,
   observed |-> NoMaterial, key |-> 0, target |-> NoUser, role |-> "keep",
   active |-> "keep", opens |-> FALSE, new |-> 0, hook |-> "none"]

-----------------------------------------------------------------------------
(***************************************************************************)
(* Reading the database.                                                   *)
(***************************************************************************)
Exists(d, u) == u \in UserId /\ d.users[u].role # "none"

Initialized(d) == \E u \in UserId : Exists(d, u)

IsAdmin(d, u) ==
  u \in UserId /\ d.users[u].active /\ d.users[u].role = "admin"

IsPerson(d, u) ==
  /\ Exists(d, u)
  /\ d.users[u].active
  /\ d.users[u].role # "service"

\* validate_vault_material(): the vault row repeats its owner's material.
VaultIsCanonical(d) ==
  /\ d.vault # NoVault
  /\ d.vault.owner # NoUser =>
       /\ Exists(d, d.vault.owner)
       /\ d.users[d.vault.owner].material = d.vault.material

KeyMatches(d, key) == d.vault # NoVault /\ key = d.vault.material.key

\* What context() asks of the account behind a session.
Authorized(d, r) ==
  /\ IsPerson(d, req[r].user)
  /\ req[r].observed = d.users[req[r].user].material
  /\ VaultIsCanonical(d)
  /\ KeyMatches(d, req[r].key)

OtherAdmins(d, u) == {v \in UserId \ {u} : IsAdmin(d, v)}

(***************************************************************************)
(* Writing it.                                                             *)
(***************************************************************************)
NewMaterial(key) == [id |-> minted + 1, key |-> key]

\* Mutant: the vault row keeps the old material of its owner.
RewrappedUserOnly(d, u, m, must) ==
  [d EXCEPT !.users[u].material = m, !.users[u].must_change = must]

\* store_user_material(), and _store() when the account is the vault's owner.
Rewrapped(d, u, m, must) ==
  [d EXCEPT !.users[u].material = m,
            !.users[u].must_change = must,
            !.vault.material = IF d.vault.owner = u THEN m ELSE @]

Added(d, role, m, must, serviceOwner) ==
  [d EXCEPT !.users[d.next] =
              [role |-> role, active |-> TRUE, must_change |-> must,
               material |-> m, service_owner |-> serviceOwner],
            !.next = @ + 1]

-----------------------------------------------------------------------------
(***************************************************************************)
(* Database.transaction() and its hooks.                                   *)
(***************************************************************************)
Stage(r, d, hook) ==
  /\ lock = NoRequest
  /\ lock' = r
  /\ staged' = d
  /\ req' = [req EXCEPT ![r].phase = "staged", ![r].hook = hook,
                        ![r].token = 0]
  /\ UNCHANGED <<db, sessions, opened, delivered>>

\* Mutant: two sessions can get the same token.
StageWithOldToken(r, d, u, key, hook) ==
  /\ lock = NoRequest
  /\ opened < MaxTokens
  /\ lock' = r
  /\ staged' = d
  /\ opened' \in {opened, opened + 1}
  /\ sessions' = [sessions EXCEPT ![opened'] =
                   [user |-> u, fingerprint |-> d.users[u].material,
                    key |-> key, via |-> "write"]]
  /\ req' = [req EXCEPT ![r].phase = "staged", ![r].hook = hook,
                        ![r].user = u, ![r].new = opened']
  /\ UNCHANGED <<db, delivered>>

\* _open_session(): the session is in memory before the commit.
StageWithSession(r, d, u, key, hook) ==
  /\ lock = NoRequest
  /\ opened < MaxTokens
  /\ lock' = r
  /\ staged' = d
  /\ opened' = opened + 1
  /\ sessions' = [sessions EXCEPT ![opened + 1] =
                   [user |-> u, fingerprint |-> d.users[u].material,
                    key |-> key, via |-> "write"]]
  /\ req' = [req EXCEPT ![r].phase = "staged", ![r].hook = hook,
                        ![r].user = u, ![r].new = opened + 1]
  /\ UNCHANGED <<db, delivered>>

\* session.commit() before the derivation: the lock is free again.
Derive(r, user, observed, key) ==
  /\ req[r].phase = "resolved"
  /\ req' = [req EXCEPT ![r].phase = "kdf", ![r].token = 0,
                        ![r].user = user,
                        ![r].observed = observed, ![r].key = key]
  /\ UNCHANGED <<db, lock, staged, minted, sessions, opened, delivered>>

NoSession == [user |-> NoUser, fingerprint |-> NoMaterial, key |-> 0,
              via |-> "none"]

IsLive(t) == t \in Token /\ sessions[t] # NoSession

EndedSessions(gone) ==
  [t \in Token |-> IF t \in gone THEN NoSession ELSE sessions[t]]

SessionsOf(u) == {t \in Token : IsLive(t) /\ sessions[t].user = u}

Commit(r) ==
  /\ req[r].phase = "staged"
  /\ db' = staged
  /\ lock' = NoRequest
  /\ req' = [req EXCEPT ![r].phase = "committed"]
  /\ UNCHANGED <<staged, minted, sessions, opened, delivered>>

\* An error, a cancelled task or a failed commit.
Rollback(r) ==
  /\ req[r].phase = "staged"
  /\ lock' = NoRequest
  /\ staged' = db
  /\ req' = [req EXCEPT ![r].phase = "rolled_back"]
  /\ UNCHANGED <<db, minted, sessions, opened, delivered>>

\* Mutant: the sessions of the actor are revoked, not those of the target.
HookTargetIsActor(r) == req[r].user

HookTarget(r) ==
  IF req[r].op = "change_password" THEN req[r].user ELSE req[r].target

Revoked(r) ==
  CASE req[r].hook = "none" -> {}
    [] req[r].hook = "revoke_user" -> SessionsOf(HookTarget(r))
    [] req[r].hook = "revoke_except" ->
         SessionsOf(HookTarget(r)) \ {req[r].new}

\* The after_commit callbacks; then the answer goes out.
RunCommitHooks(r) ==
  /\ req[r].phase = "committed"
  /\ sessions' = EndedSessions(Revoked(r))
  /\ delivered' = delivered \union ({req[r].new} \ {0})
  /\ req' = [req EXCEPT ![r] = Idle]
  /\ UNCHANGED <<db, lock, staged, minted, opened>>

\* Mutant: no after_rollback callback.
SkipRollbackHooks(r) ==
  /\ req[r].phase = "rolled_back"
  /\ req' = [req EXCEPT ![r] = Idle]
  /\ UNCHANGED <<db, lock, staged, minted, sessions, opened, delivered>>

\* The after_rollback callbacks: the session opened in advance is revoked.
RunRollbackHooks(r) ==
  /\ req[r].phase = "rolled_back"
  /\ sessions' = EndedSessions({req[r].new})
  /\ req' = [req EXCEPT ![r] = Idle]
  /\ UNCHANGED <<db, lock, staged, minted, opened, delivered>>

\* Any error before something was staged: a wrong password, a guard of the
\* operation, a busy database, a cancelled request.
Refuse(r) ==
  /\ req[r].phase \in {"resolved", "kdf", "snapshot"}
  /\ req' = [req EXCEPT ![r] = Idle]
  /\ UNCHANGED <<db, lock, staged, minted, sessions, opened, delivered>>

-----------------------------------------------------------------------------
(***************************************************************************)
(* Requests arrive.                                                        *)
(***************************************************************************)
\* get_credential() and the first three lines of context(): the session is
\* resolved in memory before the request waits for the database.
ArriveWithSession(r, op, t, target, role, active, opens) ==
  /\ req[r] = Idle /\ op \in Ops
  /\ t \in delivered /\ IsLive(t)
  /\ req' = [req EXCEPT ![r] =
              [Idle EXCEPT !.op = op, !.phase = "resolved", !.token = t,
                           !.user = sessions[t].user,
                           !.observed = sessions[t].fingerprint,
                           !.key = sessions[t].key, !.target = target,
                           !.role = role, !.active = active,
                           !.opens = opens]]
  /\ UNCHANGED <<db, lock, staged, minted, sessions, opened, delivered>>

Arrive(r, op, target) ==
  /\ req[r] = Idle /\ op \in Ops
  /\ req' = [req EXCEPT ![r] = [Idle EXCEPT !.op = op, !.phase = "resolved",
                                            !.target = target]]
  /\ UNCHANGED <<db, lock, staged, minted, sessions, opened, delivered>>

\* context() refuses the session and ends it.
ContextEndsSession(r) ==
  /\ req[r].phase = "resolved" /\ req[r].op \in SessionOps
  /\ lock = NoRequest
  /\ ~Authorized(db, r)
  /\ sessions' = EndedSessions({req[r].token})
  /\ req' = [req EXCEPT ![r] = Idle]
  /\ UNCHANGED <<db, lock, staged, minted, opened, delivered>>

\* context() lets the request in, in the transaction that takes the lock.
InContext(r, op) ==
  /\ req[r].op = op /\ req[r].phase = "resolved"
  /\ lock = NoRequest
  /\ Authorized(db, r)
  /\ db.users[req[r].user].must_change =>
       op = "change_password" /\ req[r].opens

\* require_admin() and _target() on top of it.
AsAdmin(r, op) ==
  /\ InContext(r, op)
  /\ IsAdmin(db, req[r].user)

AsAdminOn(r, op) == AsAdmin(r, op) /\ Exists(db, req[r].target)

\* The second transaction of a request: the derivation is over.
Derived(r, op) ==
  /\ req[r].op = op /\ req[r].phase = "kdf"
  /\ lock = NoRequest

-----------------------------------------------------------------------------
(***************************************************************************)
(* Bootstrap: the first account, of a new vault or of one from before      *)
(* accounts existed.  /unlock of such a vault comes here too; its deferred *)
(* transaction can only be upgraded if nobody committed since it began.    *)
(***************************************************************************)
BootstrapObserve(r) ==
  /\ req[r].op = "bootstrap"
  /\ lock = NoRequest
  /\ ~Initialized(db)
  /\ Derive(r, NoUser, db.vault.material, db.vault.material.key)

\* Mutant: the second check is left out, the earlier one is trusted.
BootstrapNewUnchecked(r) ==
  /\ Derived(r, "bootstrap") /\ req[r].observed = NoMaterial
  /\ db.next <= MaxUsers
  /\ minted < MaxMaterials /\ minted' = minted + 1
  /\ LET m == NewMaterial(minted + 1)
         d == Added(db, "admin", m, FALSE, NoUser)
     IN  StageWithSession(r, [d EXCEPT !.vault = [owner |-> db.next,
                                                  material |-> m]],
                          db.next, m.key, "none")

BootstrapNew(r) ==
  /\ Derived(r, "bootstrap") /\ req[r].observed = NoMaterial
  /\ ~Initialized(db) /\ db.vault = NoVault
  /\ minted < MaxMaterials /\ minted' = minted + 1
  /\ LET m == NewMaterial(minted + 1)
         d == Added(db, "admin", m, FALSE, NoUser)
     IN  StageWithSession(r, [d EXCEPT !.vault = [owner |-> db.next,
                                                  material |-> m]],
                          db.next, m.key, "none")

BootstrapLegacy(r) ==
  /\ Derived(r, "bootstrap") /\ req[r].observed # NoMaterial
  /\ ~Initialized(db) /\ db.vault.material = req[r].observed
  /\ LET d == Added(db, "admin", req[r].observed, FALSE, NoUser)
     IN  StageWithSession(r, [d EXCEPT !.vault.owner = db.next],
                          db.next, req[r].key, "none")
  /\ UNCHANGED minted

(***************************************************************************)
(* login(), in a write transaction, and /unlock, on a read snapshot.       *)
(***************************************************************************)
LoginObserve(r) ==
  /\ req[r].op = "login"
  /\ lock = NoRequest
  /\ IsPerson(db, req[r].target) /\ db.vault # NoVault
  /\ LET m == db.users[req[r].target].material
     IN  Derive(r, req[r].target, m, m.key)

\* Mutant: the account is not read again.
StillSomeLogin(r) == KeyMatches(db, req[r].key)

\* The account is read again: still the one whose password was checked.
StillThatLogin(r) ==
  /\ IsPerson(db, req[r].user)
  /\ db.users[req[r].user].material = req[r].observed
  /\ VaultIsCanonical(db)
  /\ KeyMatches(db, req[r].key)

LoginOpen(r) ==
  /\ Derived(r, "login")
  /\ StillThatLogin(r)
  /\ StageWithSession(r, db, req[r].user, req[r].key, "none")
  /\ UNCHANGED minted

UnlockObserve(r) ==
  /\ req[r].op = "unlock"
  /\ db.vault.owner # NoUser /\ IsPerson(db, db.vault.owner)
  /\ LET m == db.users[db.vault.owner].material
     IN  Derive(r, db.vault.owner, m, m.key)

\* The second transaction begins: from here on the request sees this state.
UnlockSnapshot(r) ==
  /\ req[r].op = "unlock" /\ req[r].phase = "kdf"
  /\ StillThatLogin(r)
  /\ req' = [req EXCEPT ![r].phase = "snapshot"]
  /\ UNCHANGED <<db, lock, staged, minted, sessions, opened, delivered>>

UnlockOpen(r) ==
  /\ req[r].op = "unlock" /\ req[r].phase = "snapshot"
  /\ opened < MaxTokens
  /\ opened' = opened + 1
  /\ sessions' = [sessions EXCEPT ![opened + 1] =
                   [user |-> req[r].user, fingerprint |-> req[r].observed,
                    key |-> req[r].key, via |-> "read"]]
  /\ req' = [req EXCEPT ![r].phase = "read", ![r].new = opened + 1]
  /\ UNCHANGED <<db, lock, staged, minted, delivered>>

ReadEnds(r) ==
  /\ req[r].phase = "read"
  /\ \E end \in {"committed", "rolled_back"} :
       req' = [req EXCEPT ![r].phase = end]
  /\ UNCHANGED <<db, lock, staged, minted, sessions, opened, delivered>>

\* Logout or /lock, and what VaultSessions does by itself: the idle timeout, the
\* absolute lifetime and eviction.
SessionEnds(t) ==
  /\ IsLive(t)
  /\ sessions' = EndedSessions({t})
  /\ UNCHANGED <<db, lock, staged, minted, opened, delivered, req>>

(***************************************************************************)
(* What a signed-in account does for itself.                               *)
(***************************************************************************)
\* Any request that changes entries, folders or settings: what it writes is
\* the business of other modules, here it only needs the context.
EntryWrite(r) ==
  /\ InContext(r, "write")
  /\ Stage(r, db, "none")
  /\ UNCHANGED minted

ChangePasswordObserve(r) ==
  /\ InContext(r, "change_password")
  /\ Derive(r, req[r].user, req[r].observed, req[r].key)

\* Mutant: the material is not compared with the one that was verified.
StillSomeAccount(r) ==
  /\ Exists(db, req[r].user) /\ db.users[req[r].user].active
  /\ VaultIsCanonical(db)
  /\ KeyMatches(db, req[r].key)

StillThatAccount(r) ==
  /\ Exists(db, req[r].user) /\ db.users[req[r].user].active
  /\ db.users[req[r].user].material = req[r].observed
  /\ VaultIsCanonical(db)
  /\ KeyMatches(db, req[r].key)

ChangePasswordApply(r) ==
  /\ Derived(r, "change_password")
  /\ StillThatAccount(r)
  /\ minted < MaxMaterials /\ minted' = minted + 1
  /\ LET u == req[r].user
         d == Rewrapped(db, u, NewMaterial(req[r].key), FALSE)
     IN  IF req[r].opens
         THEN StageWithSession(r, d, u, req[r].key, "revoke_except")
         ELSE Stage(r, d, "revoke_user")

\* resolve_service_token(): a service account has no session, every MCP call
\* derives its key again.
McpObserve(r) ==
  /\ req[r].op = "mcp"
  /\ lock = NoRequest
  /\ Exists(db, req[r].target) /\ db.users[req[r].target].active
  /\ db.users[req[r].target].role = "service"
  /\ db.vault # NoVault
  /\ LET m == db.users[req[r].target].material
     IN  Derive(r, req[r].target, m, m.key)

McpWrite(r) ==
  /\ Derived(r, "mcp")
  /\ StillThatAccount(r)
  /\ db.users[req[r].user].role = "service"
  /\ Stage(r, db, "none")
  /\ UNCHANGED minted

(***************************************************************************)
(* What an administrator does to other accounts.                           *)
(***************************************************************************)
CreateUserObserve(r) ==
  /\ AsAdmin(r, "create_user")
  /\ Derive(r, req[r].user, req[r].observed, req[r].key)

\* Mutant: only the vault is checked again.
StillAnyone(r) == db.vault # NoVault

\* The actor and the vault key are checked again after the derivation.
StillAdmin(r) ==
  /\ IsAdmin(db, req[r].user)
  /\ KeyMatches(db, req[r].key)

CreateUserApply(r) ==
  /\ Derived(r, "create_user")
  /\ StillAdmin(r)
  /\ db.next <= MaxUsers
  /\ minted < MaxMaterials /\ minted' = minted + 1
  /\ LET service == req[r].role = "service"
     IN  Stage(r, Added(db, req[r].role, NewMaterial(req[r].key), ~service,
                        IF service THEN req[r].user ELSE NoUser), "none")

RotateTokenObserve(r) ==
  /\ AsAdminOn(r, "rotate_token")
  /\ db.users[req[r].target].role = "service"
  /\ Derive(r, req[r].user, req[r].observed, req[r].key)

RotateTokenApply(r) ==
  /\ Derived(r, "rotate_token")
  /\ StillAdmin(r)
  /\ Exists(db, req[r].target) /\ db.users[req[r].target].role = "service"
  /\ minted < MaxMaterials /\ minted' = minted + 1
  /\ Stage(r, [db EXCEPT !.users[req[r].target].material =
                           NewMaterial(req[r].key)], "none")

ResetPasswordObserve(r) ==
  /\ AsAdminOn(r, "reset_password")
  /\ db.users[req[r].target].role # "service"
  /\ Derive(r, req[r].user, req[r].observed, req[r].key)

ResetPasswordApply(r) ==
  /\ Derived(r, "reset_password")
  /\ StillAdmin(r)
  /\ Exists(db, req[r].target) /\ db.users[req[r].target].role # "service"
  /\ minted < MaxMaterials /\ minted' = minted + 1
  /\ Stage(r, Rewrapped(db, req[r].target, NewMaterial(req[r].key), TRUE),
           "revoke_user")

RequirePasswordChange(r) ==
  /\ AsAdminOn(r, "require_change")
  /\ db.users[req[r].target].role # "service"
  /\ Stage(r, [db EXCEPT !.users[req[r].target].must_change = TRUE], "none")
  /\ UNCHANGED minted

RevokeUserSessions(r) ==
  /\ AsAdminOn(r, "revoke_sessions")
  /\ Stage(r, db, "revoke_user")
  /\ UNCHANGED minted

\* Mutant: a field the payload leaves out is written too.
UpdatedWithUnset(row, role, active) ==
  [row EXCEPT !.role = role, !.active = active = "yes"]

Updated(row, role, active) ==
  [row EXCEPT !.role = IF role = "keep" THEN @ ELSE role,
              !.active = IF active = "keep" THEN @ ELSE active = "yes"]

\* Mutant: the last administrator may be disabled as long as it keeps its role.
UpdateUserRoleGuardOnly(r) ==
  /\ AsAdminOn(r, "update_user")
  /\ LET u == req[r].target
         old == db.users[u]
         new == Updated(old, req[r].role, req[r].active)
     IN  /\ (old.role = "service") <=> (new.role = "service")
         /\ (old.active /\ old.role = "admin" /\ new.role # "admin")
              => OtherAdmins(db, u) # {}
         /\ Stage(r, [db EXCEPT !.users[u] = new],
                  IF req[r].role # "keep" \/ req[r].active = "no"
                  THEN "revoke_user" ELSE "none")
  /\ UNCHANGED minted

UpdateUser(r) ==
  /\ AsAdminOn(r, "update_user")
  /\ LET u == req[r].target
         old == db.users[u]
         new == Updated(old, req[r].role, req[r].active)
     IN  /\ (old.role = "service") <=> (new.role = "service")
         /\ (old.active /\ old.role = "admin"
               /\ (req[r].active = "no" \/ new.role # "admin"))
              => OtherAdmins(db, u) # {}
         /\ Stage(r, [db EXCEPT !.users[u] = new],
                  IF req[r].role # "keep" \/ req[r].active = "no"
                  THEN "revoke_user" ELSE "none")
  /\ UNCHANGED minted

\* Mutant: the primary owner may be deleted.
DeleteAnyUser(r) ==
  /\ AsAdminOn(r, "delete_user")
  /\ req[r].target # req[r].user
  /\ \A v \in UserId : db.users[v].service_owner # req[r].target
  /\ Stage(r, [db EXCEPT !.users[req[r].target] = NoRow], "revoke_user")
  /\ UNCHANGED minted

\* Accounts that own entries or folders are refused as well (EntryAccess).
DeleteUser(r) ==
  /\ AsAdminOn(r, "delete_user")
  /\ req[r].target # req[r].user
  /\ db.vault.owner # req[r].target
  /\ \A v \in UserId : db.users[v].service_owner # req[r].target
  /\ Stage(r, [db EXCEPT !.users[req[r].target] = NoRow], "revoke_user")
  /\ UNCHANGED minted

\* The process dies: memory is gone, SQLite keeps what was committed.
Restart ==
  /\ sessions' = [t \in Token |-> NoSession]
  /\ req' = [r \in Request |-> Idle]
  /\ lock' = NoRequest
  /\ staged' = db
  /\ UNCHANGED <<db, minted, opened, delivered>>

-----------------------------------------------------------------------------
EmptyDb == [users |-> [u \in UserId |-> NoRow], vault |-> NoVault, next |-> 1]

\* A new installation, or a vault upgraded from the time before accounts.
Init ==
  /\ db \in {EmptyDb,
             [EmptyDb EXCEPT !.vault.material = [id |-> 1, key |-> 1]]}
  /\ lock = NoRequest
  /\ staged = db
  /\ minted = 1
  /\ sessions = [t \in Token |-> NoSession]
  /\ opened = 0
  /\ delivered = {}
  /\ req = [r \in Request |-> Idle]

Arrivals(r) ==
  \/ Arrive(r, "bootstrap", NoUser)
  \/ Arrive(r, "unlock", NoUser)
  \/ \E u \in UserId : Arrive(r, "login", u) \/ Arrive(r, "mcp", u)
  \/ \E t \in Token :
       \/ ArriveWithSession(r, "write", t, NoUser, "keep", "keep", FALSE)
       \/ \E opens \in BOOLEAN :
            ArriveWithSession(r, "change_password", t, NoUser, "keep",
                              "keep", opens)
       \/ \E role \in Roles :
            ArriveWithSession(r, "create_user", t, NoUser, role, "keep",
                              FALSE)
       \/ \E u \in UserId :
            \/ \E op \in {"revoke_sessions", "require_change",
                          "rotate_token", "reset_password", "delete_user"} :
                 ArriveWithSession(r, op, t, u, "keep", "keep", FALSE)
            \/ \E p \in UpdatePayloads :
                 ArriveWithSession(r, "update_user", t, u, p[1], p[2],
                                   FALSE)

\* The handlers: everything a request that has arrived does next.
Serve(r) ==
  \/ ContextEndsSession(r)
  \/ BootstrapObserve(r) \/ BootstrapNew(r) \/ BootstrapLegacy(r)
  \/ LoginObserve(r) \/ LoginOpen(r)
  \/ UnlockObserve(r) \/ UnlockSnapshot(r) \/ UnlockOpen(r) \/ ReadEnds(r)
  \/ EntryWrite(r)
  \/ ChangePasswordObserve(r) \/ ChangePasswordApply(r)
  \/ McpObserve(r) \/ McpWrite(r)
  \/ CreateUserObserve(r) \/ CreateUserApply(r)
  \/ RotateTokenObserve(r) \/ RotateTokenApply(r)
  \/ ResetPasswordObserve(r) \/ ResetPasswordApply(r)
  \/ RequirePasswordChange(r) \/ RevokeUserSessions(r)
  \/ UpdateUser(r) \/ DeleteUser(r)
  \/ Commit(r) \/ Rollback(r)
  \/ RunCommitHooks(r) \/ RunRollbackHooks(r)
  \/ Refuse(r)

Next ==
  \/ \E r \in Request : Arrivals(r) \/ Serve(r)
  \/ \E t \in Token : SessionEnds(t)
  \/ Restart

Spec == Init /\ [][Next]_vars

-----------------------------------------------------------------------------
\* Rows, sessions and requests are well formed: the columns of users and vault
\* (models.py) never get a value their constraints would refuse.
TypeOK ==
  /\ db \in Database /\ staged \in Database
  /\ lock \in Request \union {NoRequest}
  /\ minted \in 0..MaxMaterials
  /\ sessions \in [Token -> SessionRow]
  /\ opened \in 0..MaxTokens
  /\ delivered \in SUBSET (1..opened)
  /\ req \in [Request -> RequestRow]

\* The write lock is held exactly while a request has something staged.
LockIsHeld ==
  \A r \in Request : req[r].phase = "staged" <=> lock = r

\* Once there are accounts the vault row repeats its owner's material, across
\* every password change and reset; otherwise every session would be refused
\* and nobody could log in (auth.py:validate_vault_material).
VaultMatchesOwner ==
  IF Initialized(db) THEN db.vault.owner # NoUser /\ VaultIsCanonical(db)
                     ELSE db.vault.owner = NoUser

\* Every account wraps the one vault key, whoever rewrapped it and however
\* long the derivation took (VAULT_FORMAT.md:73).
OneVaultKey ==
  \A u \in UserId :
    Exists(db, u) => db.users[u].material.key = db.vault.material.key

\* An initialised vault always has an active administrator, whatever two
\* administrators do to each other at once (auth.py:update_user).
SomeAdministrator ==
  Initialized(db) => \E u \in UserId : IsAdmin(db, u)

AdminOps == {"create_user", "update_user", "revoke_sessions",
             "require_change", "rotate_token", "reset_password",
             "delete_user"}

\* At the instant of its commit, a request still acts for an account that may
\* do so: an administrator for the admin operations, and for the others an
\* active account with the very credentials that were verified.  "Concurrent
\* disable, reset or token rotation wins" (VAULT_FORMAT.md:69).
CommitsAreAuthorized ==
  \A r \in Request :
    req[r].phase = "staged" =>
      /\ req[r].op \in AdminOps => IsAdmin(db, req[r].user)
      /\ req[r].op \in {"write", "change_password", "login", "mcp"} =>
           /\ Exists(db, req[r].user) /\ db.users[req[r].user].active
           /\ db.users[req[r].user].material = req[r].observed
      /\ req[r].op \in {"write", "change_password", "login"} =>
           db.users[req[r].user].role # "service"

\* A session whose token nobody received does not stay open: a login, unlock or
\* password change that fails at its commit leaves nothing behind.
NoOrphanSessions ==
  \A t \in Token :
    IsLive(t) => t \in delivered \/ \E r \in Request : req[r].new = t

\* A session that its account's present state no longer justifies.
Stale(t) ==
  /\ IsLive(t)
  /\ \/ ~IsPerson(db, sessions[t].user)
     \/ db.users[sessions[t].user].material # sessions[t].fingerprint

\* A stale session is about to be revoked, or its own request is still in
\* flight, or it came from an /unlock that was overtaken on its snapshot.
StaleSessionsAreDoomed ==
  \A t \in Token :
    Stale(t) /\ sessions[t].via = "write" =>
      \E r \in Request :
        \/ req[r].new = t
        \/ req[r].phase = "committed" /\ t \in Revoked(r)

\* What administrators who work against each other must not break: the rows stay
\* well formed and consistent, one of them remains, each commit is authorised
\* and whoever is revoked is on the way out (auth.py, user administration).
AdministrationIsSafe ==
  TypeOK /\ VaultMatchesOwner /\ SomeAdministrator /\ CommitsAreAuthorized
    /\ StaleSessionsAreDoomed

\* Once nothing is in flight no session is stale: "Password changes, resets,
\* deactivation and explicit revocation remove affected sessions after commit"
\* (VAULT_FORMAT.md:71).  An /unlock on a snapshot breaks it.
RevocationIsComplete ==
  (\A r \in Request : req[r] = Idle) => \A t \in Token : ~Stale(t)

\* The sessions in memory, with the tokens handed out so far.
Store == INSTANCE SessionStore WITH
  User <- 1..MaxUsers,
  account <- [t \in {s \in Token : sessions[s] # NoSession} |->
                sessions[t].user],
  used <- 1..opened

\* The sessions are those of an abstract store: a token is given to one account
\* once, and an ended session never comes back (auth.py:_open_session).
SessionsAreAStore == Store!Spec
=============================================================================
