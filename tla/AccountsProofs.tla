--------------------------- MODULE AccountsProofs ---------------------------
(***************************************************************************)
(* What the accounts, their key material and their sessions guarantee for  *)
(* any number of concurrent requests, accounts, derivations and sessions,  *)
(* whichever operations the clients ask for.                               *)
(***************************************************************************)
EXTENDS Accounts, TLAPS

USE AccountsAssumption

-----------------------------------------------------------------------------
(***************************************************************************)
(* The inductive invariant.                                                *)
(***************************************************************************)
\* A database in which everybody who should can sign in: the invariants of the
\* committed database, and what they rest on.  Ids are not given out twice, and
\* the vault's owner is a person.
Sound(d) ==
  /\ IF Initialized(d) THEN d.vault.owner # NoUser /\ VaultIsCanonical(d)
                       ELSE d.vault.owner = NoUser /\ d.next = 1
  /\ \A u \in UserId : Exists(d, u) =>
       /\ u < d.next
       /\ d.users[u].material.key = d.vault.material.key
  /\ Initialized(d) => /\ \E u \in UserId : IsAdmin(d, u)
                       /\ d.users[d.vault.owner].role # "service"

\* What a transaction may not do: give out an old id again, or turn a person
\* into a service account.
Succeeds(d, e) ==
  /\ d.next <= e.next
  /\ \A u \in UserId : (u < d.next /\ Exists(e, u)) =>
       /\ Exists(d, u)
       /\ (d.users[u].role = "service") <=> (e.users[u].role = "service")

\* The account can go on using its sessions.
Spared(d, e, u) ==
  IsPerson(d, u) =>
    IsPerson(e, u) /\ e.users[u].material = d.users[u].material

\* A session is opened late in a request, and only a person changes a password.
RowOK(q, d) ==
  /\ q.phase \in {"idle", "resolved", "kdf", "snapshot"} => q.new = 0
  /\ q.new <= opened
  /\ q.op = "create_user" => q.role \in Roles
  /\ q.phase = "snapshot" => q.user \in UserId
  /\ (q.op = "change_password" /\ q.phase = "kdf") =>
       /\ q.user \in UserId /\ q.user < d.next
       /\ d.users[q.user].role # "service"

\* CommitsAreAuthorized, of one request.
MayCommit(op, u, m) ==
  /\ op \in AdminOps => IsAdmin(db, u)
  /\ op \in {"write", "change_password", "login", "mcp"} =>
       Exists(db, u) /\ db.users[u].active /\ db.users[u].material = m
  /\ op \in {"write", "change_password", "login"} =>
       db.users[u].role # "service"

\* Whose sessions the commit ends.
Revokes(r, u) == req[r].hook # "none" /\ u = HookTarget(r)

\* A commit that would make sessions stale revokes them.
StagedSpares ==
  \A r \in Request : req[r].phase = "staged" =>
    \A u \in UserId : Revokes(r, u) \/ Spared(db, staged, u)

\* The session opened in advance fits the account as it will be committed.
StagedSessionsFit ==
  \A r \in Request, t \in Token :
    (req[r].phase = "staged" /\ req[r].new = t /\ IsLive(t)) =>
      /\ IsPerson(staged, sessions[t].user)
      /\ staged.users[sessions[t].user].material = sessions[t].fingerprint

\* StaleSessionsAreDoomed, with the reason why the session does not stay: its
\* own request cannot commit any more without making it fit.
Doomed ==
  \A t \in Token :
    (Stale(t) /\ sessions[t].via = "write") =>
      \E r \in Request :
        \/ req[r].phase \in {"staged", "rolled_back"} /\ req[r].new = t
        \/ req[r].phase = "committed" /\ t \in Revoked(r)

\* No session has a token that was not given out.
FreshTokens == \A t \in Token : t > opened => sessions[t] = NoSession

IInv ==
  /\ TypeOK /\ LockIsHeld
  /\ Sound(db) /\ Sound(staged) /\ Succeeds(db, staged)
  /\ \A r \in Request : RowOK(req[r], db)
  /\ CommitsAreAuthorized /\ StagedSpares /\ StagedSessionsFit
  /\ NoOrphanSessions /\ Doomed /\ FreshTokens

-----------------------------------------------------------------------------
(***************************************************************************)
(* What is written into the database.                                      *)
(***************************************************************************)
\* The first transaction of a vault, and one that changes nothing.
LEMMA SucceedsItself == ASSUME NEW d \in Database PROVE Succeeds(d, d)
BY DEF Succeeds, Database, Exists

\* store_user_material() and _store(): the account, and the vault row with it.
LEMMA RewrappedIsSound ==
  ASSUME NEW d \in Database, NEW u \in UserId, NEW m \in Material,
         NEW must \in BOOLEAN, NEW e, e = Rewrapped(d, u, m, must),
         Sound(d), Exists(d, u), m.key = d.vault.material.key
  PROVE  /\ e \in Database /\ Sound(e) /\ Succeeds(d, e)
         /\ e.users[u].material = m
         /\ IsPerson(d, u) => IsPerson(e, u)
         /\ \A v \in UserId \ {u} : Spared(d, e, v)
<1> DEFINE row == [d.users[u] EXCEPT !.material = m, !.must_change = must]
           vault == [d.vault EXCEPT !.material =
                       IF d.vault.owner = u THEN m ELSE d.vault.material]
<1>a. d.users \in [UserId -> UserRow] /\ d.vault \in VaultRow
  BY DEF Database
<1>b. /\ row \in UserRow /\ row.role = d.users[u].role
      /\ row.active = d.users[u].active /\ row.material = m
  BY <1>a DEF UserRow
<1>c. /\ vault \in VaultRow /\ vault.owner = d.vault.owner
      /\ vault.material = IF d.vault.owner = u THEN m ELSE d.vault.material
  BY <1>a DEF VaultRow
<1>d. e = [d EXCEPT !.users = [d.users EXCEPT ![u] = row], !.vault = vault]
  BY <1>a DEF Rewrapped, Database
<1> HIDE DEF row, vault
<1>1. /\ e \in Database /\ e.next = d.next /\ e.vault = vault
      /\ e.users = [d.users EXCEPT ![u] = row]
  <2>1. [d.users EXCEPT ![u] = row] \in [UserId -> UserRow]
    BY <1>a, <1>b
  <2> QED
    BY <2>1, <1>c, <1>d DEF Database
<1>2. e.users[u] = row /\ \A v \in UserId \ {u} : e.users[v] = d.users[v]
  BY <1>1, <1>a
<1>3. \A v \in UserId : /\ e.users[v].role = d.users[v].role
                        /\ e.users[v].active = d.users[v].active
  BY <1>2, <1>b
<1>4. Initialized(d) /\ Initialized(e) /\ e.vault # NoVault
  BY <1>1, <1>3, <1>c DEF Initialized, Exists, Sound, NoVault, NoUser
<1>5. VaultIsCanonical(e)
  BY <1>1, <1>2, <1>3, <1>4, <1>b, <1>c DEF Sound, VaultIsCanonical, Exists, NoVault
<1>6. \A v \in UserId : e.users[v].material.key = IF v = u THEN m.key ELSE d.users[v].material.key
  BY <1>2, <1>b
<1>7. e.vault.material.key = d.vault.material.key
  BY <1>1, <1>c
<1>8. Sound(e)
  BY <1>1, <1>3, <1>4, <1>5, <1>6, <1>7, <1>c DEF Sound, Exists, IsAdmin, VaultIsCanonical
<1>9. Succeeds(d, e)
  BY <1>1, <1>3, d.next \in Int DEF Succeeds, Exists, Database
<1> QED
  BY <1>1, <1>2, <1>3, <1>8, <1>9, <1>b DEF Spared, IsPerson, Exists

WithRow(d, u, row) == [d EXCEPT !.users[u] = row]

\* One row is written; what that leaves alone.
LEMMA RowReplaced ==
  ASSUME NEW d \in Database, NEW u \in UserId, NEW row \in UserRow, NEW e,
         e = WithRow(d, u, row)
  PROVE  /\ e \in Database /\ e.next = d.next /\ e.vault = d.vault
         /\ e.users[u] = row
         /\ \A v \in UserId \ {u} : e.users[v] = d.users[v]
<1>1. d.users \in [UserId -> UserRow]
  BY DEF Database
<1>2. [d.users EXCEPT ![u] = row] \in [UserId -> UserRow]
  BY <1>1
<1>3. e = [d EXCEPT !.users = [d.users EXCEPT ![u] = row]]
  BY DEF WithRow
<1>4. /\ e \in Database /\ e.next = d.next /\ e.vault = d.vault
      /\ e.users = [d.users EXCEPT ![u] = row]
  BY <1>2, <1>3 DEF Database
<1> QED
  BY <1>1, <1>4

\* update_user(), delete_user() and the rest of the administration, as far as
\* the database is concerned: the owner of the vault keeps its material, a
\* service account stays one, and some administrator is left.
LEMMA RowChangeIsSound ==
  ASSUME NEW d \in Database, NEW u \in UserId, NEW row \in UserRow, NEW e,
         e = WithRow(d, u, row),
         Sound(d), Exists(d, u),
         row.role # "none" =>
           /\ (row.role = "service") <=> (d.users[u].role = "service")
           /\ row.material.key = d.vault.material.key,
         d.vault.owner = u =>
           row.role # "none" /\ row.material = d.users[u].material,
         \E v \in UserId : IsAdmin(e, v)
  PROVE  /\ e \in Database /\ Sound(e) /\ Succeeds(d, e)
         /\ \A v \in UserId \ {u} : Spared(d, e, v)
<1>1. /\ e \in Database /\ e.next = d.next /\ e.vault = d.vault
      /\ e.users[u] = row
      /\ \A v \in UserId \ {u} : e.users[v] = d.users[v]
  BY RowReplaced
<1>2. Initialized(d)
  BY DEF Initialized
<1>3. Initialized(e)
  <2>1. PICK v \in UserId : IsAdmin(e, v)
    OBVIOUS
  <2>2. Exists(e, v)
    BY <2>1 DEF IsAdmin, Exists
  <2> QED
    BY <2>2 DEF Initialized
<1>4. d.vault.owner \in UserId
  BY <1>2 DEF Sound, VaultIsCanonical, Exists
<1>5. VaultIsCanonical(e)
  BY <1>1, <1>2, <1>4 DEF Sound, VaultIsCanonical, Exists
<1>6. \A v \in UserId : Exists(e, v) =>
        Exists(d, v) /\ e.users[v].material.key = d.vault.material.key
  BY <1>1 DEF Sound, Exists
<1>7. e.users[d.vault.owner].role # "service"
  BY <1>1, <1>2, <1>4 DEF Sound
<1>8. Sound(e)
  BY <1>1, <1>2, <1>3, <1>5, <1>6, <1>7 DEF Sound
<1>9. Succeeds(d, e)
  BY <1>1, <1>6, d.next \in Int DEF Succeeds, Exists, Database
<1> QED
  BY <1>1, <1>8, <1>9 DEF Spared, IsPerson, Exists

\* A new account; the ones that were there stay as they are.
LEMMA AddedRow ==
  ASSUME NEW d \in Database, NEW role \in Roles, NEW m \in Material,
         NEW must \in BOOLEAN, NEW serviceOwner \in 0..MaxUsers, NEW e,
         e = Added(d, role, m, must, serviceOwner), d.next <= MaxUsers
  PROVE  /\ e \in Database /\ e.vault = d.vault /\ e.next = d.next + 1
         /\ d.next \in UserId
         /\ e.users[d.next].role = role /\ e.users[d.next].active
         /\ e.users[d.next].material = m
         /\ \A v \in UserId \ {d.next} : e.users[v] = d.users[v]
<1> DEFINE row == [role |-> role, active |-> TRUE, must_change |-> must,
                   material |-> m, service_owner |-> serviceOwner]
<1>1. d.next \in UserId /\ d.next \in Int
  BY DEF Database, UserId
<1>2. /\ row \in UserRow /\ row.role = role /\ row.active
      /\ row.material = m
  BY DEF UserRow
<1>3. e = [[d EXCEPT !.users[d.next] = row] EXCEPT !.next = d.next + 1]
  BY DEF Added, Database
<1> HIDE DEF row
<1> DEFINE f == WithRow(d, d.next, row)
<1>4. /\ f \in Database /\ f.next = d.next /\ f.vault = d.vault
      /\ f.users[d.next] = row
      /\ \A v \in UserId \ {d.next} : f.users[v] = d.users[v]
  BY <1>1, <1>2, RowReplaced
<1> HIDE DEF f
<1>5. d.next + 1 \in 1..(MaxUsers + 1)
  BY DEF Database
<1>6. e \in Database /\ e.vault = f.vault /\ e.next = d.next + 1
      /\ e.users = f.users
  <2>1. e = [f EXCEPT !.next = d.next + 1]
    BY <1>3 DEF f, WithRow
  <2> QED
    BY <2>1, <1>4, <1>5 DEF Database
<1> QED
  BY <1>1, <1>2, <1>4, <1>6

\* create_user(): the new account wraps the vault key too.
LEMMA NewAccountIsSound ==
  ASSUME NEW d \in Database, NEW role \in Roles, NEW m \in Material,
         NEW must \in BOOLEAN, NEW serviceOwner \in 0..MaxUsers, NEW e,
         e = Added(d, role, m, must, serviceOwner), d.next <= MaxUsers,
         Sound(d), Initialized(d), m.key = d.vault.material.key
  PROVE  /\ e \in Database /\ Sound(e) /\ Succeeds(d, e)
         /\ \A v \in UserId : Spared(d, e, v)
<1>1. /\ e \in Database /\ e.vault = d.vault /\ e.next = d.next + 1
      /\ d.next \in UserId /\ d.next \in Int
      /\ e.users[d.next].role = role /\ e.users[d.next].material = m
      /\ \A v \in UserId \ {d.next} : e.users[v] = d.users[v]
  BY AddedRow DEF UserId
<1>2. ~Exists(d, d.next)
  BY <1>1 DEF Sound
<1>3. \A v \in UserId : Exists(d, v) => v # d.next /\ e.users[v] = d.users[v]
  BY <1>1, <1>2
<1>4. \A v \in UserId : Exists(e, v) <=> Exists(d, v) \/ v = d.next
  BY <1>1, <1>3, role # "none" DEF Exists, Roles
<1>5. Initialized(e)
  BY <1>4 DEF Initialized
<1>6. VaultIsCanonical(e) /\ e.users[d.vault.owner].role # "service"
  BY <1>1, <1>3, <1>4 DEF Sound, VaultIsCanonical, Exists
<1>7. \A v \in UserId : IsAdmin(d, v) => IsAdmin(e, v)
  BY <1>3, <1>1 DEF IsAdmin, Exists
<1>8. \A v \in UserId : Exists(e, v) =>
        v < e.next /\ e.users[v].material.key = e.vault.material.key
  BY <1>1, <1>3, <1>4 DEF Sound, UserId
<1>9. Sound(e)
  BY <1>1, <1>5, <1>6, <1>7, <1>8 DEF Sound
<1>10. Succeeds(d, e)
  BY <1>1, <1>3, <1>4 DEF Succeeds, UserId
<1> QED
  BY <1>1, <1>3, <1>4, <1>9, <1>10 DEF Spared, IsPerson

\* bootstrap(): the first account owns the vault.
LEMMA FirstAccountIsSound ==
  ASSUME NEW d \in Database, NEW m \in Material, NEW must \in BOOLEAN, NEW f,
         Sound(d), ~Initialized(d),
         f = [Added(d, "admin", m, must, NoUser)
                EXCEPT !.vault = [owner |-> d.next, material |-> m]]
  PROVE  /\ f \in Database /\ Sound(f) /\ Succeeds(d, f)
         /\ \A v \in UserId : Spared(d, f, v)
         /\ d.next \in UserId /\ IsPerson(f, d.next)
         /\ f.users[d.next].material = m
<1> DEFINE e == Added(d, "admin", m, must, NoUser)
<1>1. d.next = 1 /\ d.next <= MaxUsers
  BY DEF Sound
<1>2. /\ e \in Database /\ e.next = d.next + 1
      /\ d.next \in UserId
      /\ e.users[d.next].role = "admin" /\ e.users[d.next].active
      /\ e.users[d.next].material = m
      /\ \A v \in UserId \ {d.next} : e.users[v] = d.users[v]
  <2>1. "admin" \in Roles /\ NoUser \in 0..MaxUsers
    BY DEF Roles, NoUser
  <2> QED
    BY <1>1, <2>1, AddedRow
<1> HIDE DEF e
<1>3. f = [e EXCEPT !.vault = [owner |-> d.next, material |-> m]]
  BY DEF e
<1> DEFINE vault == [owner |-> d.next, material |-> m]
<1>4. /\ vault \in VaultRow /\ vault.owner = 1 /\ vault.material = m
  BY <1>1 DEF VaultRow
<1> HIDE DEF vault
<1>5. /\ f \in Database /\ f.users = e.users /\ f.next = 2
      /\ f.vault.owner = 1 /\ f.vault.material = m
  <2>1. f = [e EXCEPT !.vault = vault]
    BY <1>3 DEF vault
  <2>2. f \in Database /\ f.users = e.users /\ f.next = e.next /\ f.vault = vault
    BY <2>1, <1>2, <1>4 DEF Database
  <2>3. f.next = 2
    BY <2>2, <1>1, <1>2
  <2>4. f.vault.owner = 1 /\ f.vault.material = m
    BY <2>2, <1>4
  <2> QED
    BY <2>2, <2>3, <2>4
<1>6. \A v \in UserId : ~Exists(d, v) /\ (Exists(f, v) <=> v = 1)
  BY <1>1, <1>2, <1>5 DEF Initialized, Exists
<1>7. 1 \in UserId /\ Exists(f, 1) /\ IsAdmin(f, 1) /\ IsPerson(f, 1)
  BY <1>1, <1>2, <1>5 DEF IsAdmin, Exists, IsPerson
<1>8. Sound(f)
  <2>1. Initialized(f)
    BY <1>7 DEF Initialized
  <2>2. f.vault.owner # NoUser /\ f.vault # NoVault
    BY <1>5 DEF NoUser, NoVault
  <2>3. VaultIsCanonical(f)
    BY <2>2, <1>1, <1>2, <1>5, <1>7 DEF VaultIsCanonical
  <2>4. f.users[f.vault.owner].role # "service"
    BY <1>1, <1>2, <1>5
  <2>5. \A u \in UserId : Exists(f, u) =>
          u < f.next /\ f.users[u].material.key = f.vault.material.key
    BY <1>1, <1>2, <1>5, <1>6
  <2> QED
    BY <2>1, <2>2, <2>3, <2>4, <2>5, <1>7 DEF Sound
<1>9. Succeeds(d, f)
  BY <1>1, <1>5, <1>6 DEF Succeeds, UserId
<1> QED
  BY <1>1, <1>2, <1>5, <1>6, <1>7, <1>8, <1>9 DEF Spared, IsPerson

-----------------------------------------------------------------------------
(***************************************************************************)
(* The kinds of step.                                                      *)
(***************************************************************************)
\* Whose sessions the hook of a request will end.
LEMMA WhoIsRevoked ==
  ASSUME TypeOK, NEW r \in Request
  PROVE  \A t : t \in Revoked(r) <=>
           /\ t \in Token /\ sessions[t] # NoSession
           /\ Revokes(r, sessions[t].user)
           /\ ~(req[r].hook = "revoke_except" /\ t = req[r].new)
<1>1. req[r].hook \in {"none", "revoke_user", "revoke_except"}
  BY DEF TypeOK, RequestRow, Hooks
<1>2. CASE req[r].hook = "none"
  BY <1>2 DEF Revoked, Revokes
<1>3. CASE req[r].hook = "revoke_user"
  BY <1>3 DEF Revoked, Revokes, SessionsOf, IsLive
<1>4. CASE req[r].hook = "revoke_except"
  BY <1>4 DEF Revoked, Revokes, SessionsOf, IsLive
<1> QED
  BY <1>1, <1>2, <1>3, <1>4

LEMMA WhoIsRevokedNext ==
  ASSUME TypeOK', NEW r \in Request
  PROVE  \A t : t \in Revoked(r)' <=>
           /\ t \in Token /\ sessions'[t] # NoSession
           /\ Revokes(r, sessions[t].user)'
           /\ ~(req'[r].hook = "revoke_except" /\ t = req'[r].new)
<1>1. req'[r].hook \in {"none", "revoke_user", "revoke_except"}
  BY DEF TypeOK, RequestRow, Hooks
<1>2. CASE req'[r].hook = "none"
  BY <1>2 DEF Revoked, Revokes
<1>3. CASE req'[r].hook = "revoke_user"
  BY <1>3 DEF Revoked, Revokes, SessionsOf, IsLive
<1>4. CASE req'[r].hook = "revoke_except"
  BY <1>4 DEF Revoked, Revokes, SessionsOf, IsLive
<1> QED
  BY <1>1, <1>2, <1>3, <1>4

\* A step of one request that neither takes nor releases the write lock: it may
\* end sessions and hand out its own.
LEMMA RequestStep ==
  ASSUME IInv, NEW r \in Request, NEW row \in RequestRow, NEW gone,
         req' = [req EXCEPT ![r] = row],
         req[r].phase # "staged", row.phase # "staged", RowOK(row, db),
         sessions' = EndedSessions(gone),
         delivered \subseteq delivered', delivered' \subseteq 1..opened,
         req[r].new \in gone \union delivered' \union {0, row.new},
         req[r].phase = "rolled_back" => req[r].new \in gone,
         req[r].phase = "committed" => Revoked(r) \subseteq gone,
         UNCHANGED <<db, lock, staged, minted, opened>>
  PROVE  IInv'
<1> USE DEF IInv
<1>1. /\ \A t \in Token : sessions'[t] = IF t \in gone THEN NoSession
                                                     ELSE sessions[t]
      /\ sessions' \in [Token -> SessionRow]
  BY DEF EndedSessions, TypeOK, SessionRow, NoSession, NoUser, NoMaterial, Material
<1>2. /\ req'[r] = row /\ req' \in [Request -> RequestRow]
      /\ \A q \in Request \ {r} : req'[q] = req[q]
  BY DEF TypeOK
<1>3. TypeOK'
  BY <1>1, <1>2 DEF TypeOK
<1>4. LockIsHeld'
  BY <1>2 DEF LockIsHeld
<1>5. Sound(db)' /\ Sound(staged)' /\ Succeeds(db, staged)'
  BY DEF Sound, Succeeds, Initialized, Exists, VaultIsCanonical, IsAdmin
<1>6. \A q \in Request : RowOK(req[q], db)'
  BY <1>2 DEF RowOK
<1>7. CommitsAreAuthorized'
  BY <1>2 DEF CommitsAreAuthorized, IsAdmin, Exists
<1>8. StagedSpares'
  BY <1>2 DEF StagedSpares, Revokes, HookTarget, Spared, IsPerson, Exists
<1>9. StagedSessionsFit'
  BY <1>1, <1>2 DEF StagedSessionsFit, IsLive, IsPerson, Exists
<1>10. NoOrphanSessions'
  BY <1>1, <1>2 DEF NoOrphanSessions, IsLive, Token
<1>11. Doomed'
  <2> SUFFICES ASSUME NEW t \in Token, Stale(t)', sessions'[t].via = "write"
               PROVE  \E q \in Request :
                        \/ /\ req'[q].phase \in {"staged", "rolled_back"}
                           /\ req'[q].new = t
                        \/ req'[q].phase = "committed" /\ t \in Revoked(q)'
    BY DEF Doomed
  <2>1. Stale(t) /\ t \notin gone /\ sessions'[t] = sessions[t]
    BY <1>1 DEF Stale, IsLive, IsPerson, Exists
  <2>2. PICK q \in Request :
          \/ req[q].phase \in {"staged", "rolled_back"} /\ req[q].new = t
          \/ req[q].phase = "committed" /\ t \in Revoked(q)
    BY <2>1 DEF Doomed
  <2>3. q # r
    BY <2>1, <2>2
  <2>4. t \in Revoked(q) => t \in Revoked(q)'
    BY <1>2, <1>3, <2>1, <2>3, WhoIsRevoked, WhoIsRevokedNext
      DEF Revokes, HookTarget
  <2> QED
    BY <1>2, <2>2, <2>3, <2>4
<1>12. FreshTokens'
  BY <1>1 DEF FreshTokens
<1> QED
  BY <1>3, <1>4, <1>5, <1>6, <1>7, <1>8, <1>9, <1>10, <1>11, <1>12

\* The request goes on to another phase.
LEMMA PhaseSet ==
  ASSUME NEW q \in RequestRow, NEW p \in Phases
  PROVE  [q EXCEPT !.phase = p] \in RequestRow
BY DEF RequestRow

LEMMA HookSet ==
  ASSUME NEW q \in RequestRow, NEW hook \in Hooks
  PROVE  [q EXCEPT !.phase = "staged", !.hook = hook] \in RequestRow
<1>1. PICK x \in RequestRow : x = [q EXCEPT !.phase = "staged"]
  BY PhaseSet DEF Phases
<1>2. [x EXCEPT !.hook = hook] \in RequestRow
  BY DEF RequestRow
<1> QED
  BY <1>1, <1>2

\* A request gets the write lock and writes; no session is opened.
LEMMA StageStep ==
  ASSUME IInv, NEW r \in Request, NEW d \in Database, NEW hook \in Hooks,
         Stage(r, d, hook), minted' \in 0..MaxMaterials,
         req[r].phase \in {"resolved", "kdf"},
         MayCommit(req[r].op, req[r].user, req[r].observed),
         Sound(d), Succeeds(db, d),
         \A u \in UserId :
           (hook # "none" /\ u = HookTarget(r)) \/ Spared(db, d, u)
  PROVE  IInv'
<1> USE DEF IInv
<1>1. /\ lock = NoRequest /\ lock' = r /\ staged' = d
      /\ UNCHANGED <<db, sessions, opened, delivered>>
      /\ req' = [req EXCEPT ![r].phase = "staged", ![r].hook = hook,
                            ![r].token = 0]
  BY DEF Stage
<1>2. req \in [Request -> RequestRow]
  BY DEF TypeOK
<1>3. /\ req' \in [Request -> RequestRow]
      /\ req'[r] = [req[r] EXCEPT !.phase = "staged", !.hook = hook, !.token = 0]
      /\ \A q \in Request \ {r} : req'[q] = req[q]
  <2> DEFINE row == [req[r] EXCEPT !.phase = "staged", !.hook = hook, !.token = 0]
  <2>1. row \in RequestRow
    <3>1. PICK x \in RequestRow :
            x = [req[r] EXCEPT !.phase = "staged", !.hook = hook]
      BY <1>2, HookSet
    <3>2. [x EXCEPT !.token = 0] \in RequestRow
      BY DEF RequestRow
    <3> QED
      BY <3>1, <3>2
  <2>2. req' = [req EXCEPT ![r] = row]
    BY <1>1, <1>2
  <2> HIDE DEF row
  <2>3. /\ req' \in [Request -> RequestRow] /\ req'[r] = row
        /\ \A q \in Request \ {r} : req'[q] = req[q]
    BY <1>2, <2>1, <2>2
  <2> QED
    BY <2>3 DEF row
<1>4. /\ req'[r].phase = "staged" /\ req'[r].hook = hook
      /\ req'[r].op = req[r].op /\ req'[r].user = req[r].user
      /\ req'[r].observed = req[r].observed /\ req'[r].new = req[r].new
      /\ req'[r].target = req[r].target /\ req'[r].role = req[r].role
  BY <1>2, <1>3 DEF RequestRow
<1>5. \A q \in Request : q # r => req[q].phase # "staged"
  BY <1>1 DEF LockIsHeld, NoRequest
<1>6. req[r].new = 0
  BY DEF RowOK
<1>7. TypeOK'
  BY <1>1, <1>3 DEF TypeOK
<1>8. LockIsHeld'
  BY <1>1, <1>3, <1>4, <1>5 DEF LockIsHeld
<1>9. Sound(db)' /\ Sound(staged)' /\ Succeeds(db, staged)'
  BY <1>1 DEF Sound, Succeeds, Initialized, Exists, VaultIsCanonical, IsAdmin
<1>10. \A q \in Request : RowOK(req[q], db)'
  BY <1>1, <1>3, <1>4 DEF RowOK
<1>11. CommitsAreAuthorized'
  BY <1>1, <1>3, <1>4, <1>5 DEF CommitsAreAuthorized, MayCommit, IsAdmin, Exists
<1>12. StagedSpares'
  BY <1>1, <1>3, <1>4, <1>5 DEF StagedSpares, Revokes, HookTarget, Spared,
    IsPerson, Exists
<1>13. StagedSessionsFit'
  BY <1>1, <1>3, <1>4, <1>5, <1>6 DEF StagedSessionsFit, IsLive, Token
<1>14. NoOrphanSessions'
  BY <1>1, <1>3, <1>4 DEF NoOrphanSessions, IsLive
<1>15. Doomed'
  <2> SUFFICES ASSUME NEW t \in Token, Stale(t)', sessions'[t].via = "write"
               PROVE  \E q \in Request :
                        \/ /\ req'[q].phase \in {"staged", "rolled_back"}
                           /\ req'[q].new = t
                        \/ req'[q].phase = "committed" /\ t \in Revoked(q)'
    BY DEF Doomed
  <2>1. Stale(t)
    BY <1>1 DEF Stale, IsLive, IsPerson, Exists
  <2>2. PICK q \in Request :
          \/ req[q].phase \in {"staged", "rolled_back"} /\ req[q].new = t
          \/ req[q].phase = "committed" /\ t \in Revoked(q)
    BY <2>1, <1>1 DEF Doomed
  <2>3. q # r
    BY <2>2
  <2>4. t \in Revoked(q) => t \in Revoked(q)'
    BY <1>1, <1>3, <1>7, <2>3, WhoIsRevoked, WhoIsRevokedNext
      DEF Revokes, HookTarget
  <2> QED
    BY <1>3, <2>2, <2>3, <2>4
<1>16. FreshTokens'
  BY <1>1 DEF FreshTokens
<1> QED
  BY <1>7, <1>8, <1>9, <1>10, <1>11, <1>12, <1>13, <1>14, <1>15, <1>16

\* A request gets the write lock, writes and opens a session ahead of the
\* commit; the session fits what it writes (_open_session()).
LEMMA SessionStep ==
  ASSUME IInv, NEW r \in Request, NEW d \in Database, NEW hook \in Hooks,
         NEW u \in UserId, NEW key \in 0..MaxMaterials,
         StageWithSession(r, d, u, key, hook), minted' \in 0..MaxMaterials,
         req[r].phase = "kdf", IsPerson(d, u),
         MayCommit(req[r].op, u, req[r].observed),
         Sound(d), Succeeds(db, d),
         \A v \in UserId :
           \/ hook # "none" /\ req[r].op = "change_password" /\ v = u
           \/ Spared(db, d, v)
  PROVE  IInv'
<1> USE DEF IInv
<1> DEFINE new == [user |-> u, fingerprint |-> d.users[u].material,
                   key |-> key, via |-> "write"]
<1>1. /\ lock = NoRequest /\ lock' = r /\ staged' = d
      /\ opened < MaxTokens /\ opened' = opened + 1
      /\ sessions' = [sessions EXCEPT ![opened + 1] = new]
      /\ UNCHANGED <<db, delivered>>
      /\ req' = [req EXCEPT ![r].phase = "staged", ![r].hook = hook,
                            ![r].user = u, ![r].new = opened + 1]
  BY DEF StageWithSession
<1>2. req \in [Request -> RequestRow] /\ sessions \in [Token -> SessionRow]
  BY DEF TypeOK
<1>3. opened + 1 \in Token /\ opened \in Nat
  BY <1>1 DEF TypeOK, Token
<1>4. /\ new \in SessionRow /\ new.user = u
      /\ new.fingerprint = d.users[u].material
  BY DEF SessionRow, Database, UserRow, UserId
<1> HIDE DEF new
<1>5. /\ sessions' \in [Token -> SessionRow] /\ sessions'[opened + 1] = new
      /\ \A t \in Token \ {opened + 1} : sessions'[t] = sessions[t]
  BY <1>1, <1>2, <1>3, <1>4
<1>6. /\ req'[r] = [req[r] EXCEPT !.phase = "staged", !.hook = hook,
                                  !.user = u, !.new = opened + 1]
      /\ \A q \in Request \ {r} : req'[q] = req[q]
      /\ req' \in [Request -> RequestRow]
  <2> DEFINE row == [req[r] EXCEPT !.phase = "staged", !.hook = hook,
                                   !.user = u, !.new = opened + 1]
  <2>1. row \in RequestRow
    <3>1. PICK x \in RequestRow :
            x = [req[r] EXCEPT !.phase = "staged", !.hook = hook]
      BY <1>2, HookSet
    <3>a. u \in 0..MaxUsers
      BY DEF UserId
    <3>b. [x EXCEPT !.user = u] \in RequestRow
      BY <3>a DEF RequestRow
    <3>2. PICK y \in RequestRow : y = [x EXCEPT !.user = u]
      BY <3>b
    <3>3. [y EXCEPT !.new = opened + 1] \in RequestRow
      BY <1>3 DEF RequestRow, Token
    <3> QED
      BY <3>1, <3>2, <3>3
  <2>2. req' = [req EXCEPT ![r] = row]
    BY <1>1, <1>2
  <2> HIDE DEF row
  <2>3. /\ req' \in [Request -> RequestRow] /\ req'[r] = row
        /\ \A q \in Request \ {r} : req'[q] = req[q]
    BY <1>2, <2>1, <2>2
  <2> QED
    BY <2>3 DEF row
<1>7. /\ req'[r].phase = "staged" /\ req'[r].hook = hook
      /\ req'[r].op = req[r].op /\ req'[r].user = u
      /\ req'[r].observed = req[r].observed /\ req'[r].new = opened + 1
      /\ req'[r].target = req[r].target /\ req'[r].role = req[r].role
  BY <1>2, <1>6 DEF RequestRow
<1>8. \A q \in Request : q # r => req[q].phase # "staged"
  BY <1>1 DEF LockIsHeld, NoRequest
<1>9. TypeOK'
  BY <1>1, <1>3, <1>5, <1>6 DEF TypeOK
<1>10. LockIsHeld'
  BY <1>1, <1>6, <1>7, <1>8 DEF LockIsHeld
<1>11. Sound(db)' /\ Sound(staged)' /\ Succeeds(db, staged)'
  BY <1>1 DEF Sound, Succeeds, Initialized, Exists, VaultIsCanonical, IsAdmin
<1>12. \A q \in Request : RowOK(req[q], db)'
  <2>1. RowOK(req[r], db)'
    BY <1>1, <1>3, <1>6, <1>7 DEF RowOK
  <2>2. ASSUME NEW q \in Request, q # r PROVE RowOK(req[q], db)'
    BY <2>2, <1>1, <1>2, <1>3, <1>6 DEF RowOK, RequestRow
  <2> QED
    BY <2>1, <2>2
<1>13. CommitsAreAuthorized'
  BY <1>1, <1>6, <1>7, <1>8 DEF CommitsAreAuthorized, MayCommit, IsAdmin, Exists
<1>14. StagedSpares'
  BY <1>1, <1>6, <1>7, <1>8 DEF StagedSpares, Revokes, HookTarget, Spared,
    IsPerson, Exists
<1>15. StagedSessionsFit'
  BY <1>1, <1>4, <1>5, <1>6, <1>7, <1>8 DEF StagedSessionsFit, IsPerson, Exists
<1>16. req[r].new = 0
  BY DEF RowOK
<1>17. NoOrphanSessions'
  BY <1>1, <1>5, <1>6, <1>7, <1>16 DEF NoOrphanSessions, IsLive, Token
<1>18. Doomed'
  <2> SUFFICES ASSUME NEW t \in Token, Stale(t)', sessions'[t].via = "write"
               PROVE  \E q \in Request :
                        \/ /\ req'[q].phase \in {"staged", "rolled_back"}
                           /\ req'[q].new = t
                        \/ req'[q].phase = "committed" /\ t \in Revoked(q)'
    BY DEF Doomed
  <2>1. CASE t = opened + 1
    BY <2>1, <1>7
  <2>2. CASE t # opened + 1
    <3>1. Stale(t) /\ sessions'[t] = sessions[t]
      BY <1>1, <1>5, <2>2 DEF Stale, IsLive, IsPerson, Exists
    <3>2. PICK q \in Request :
            \/ req[q].phase \in {"staged", "rolled_back"} /\ req[q].new = t
            \/ req[q].phase = "committed" /\ t \in Revoked(q)
      BY <3>1 DEF Doomed
    <3>3. q # r
      BY <3>2
    <3>4. t \in Revoked(q) => t \in Revoked(q)'
      BY <1>6, <1>9, <3>1, <3>3, WhoIsRevoked, WhoIsRevokedNext
        DEF Revokes, HookTarget
    <3> QED
      BY <1>6, <3>2, <3>3, <3>4
  <2> QED
    BY <2>1, <2>2
<1>19. FreshTokens'
  BY <1>1, <1>3, <1>5 DEF FreshTokens, Token
<1> QED
  BY <1>9, <1>10, <1>11, <1>12, <1>13, <1>14, <1>15, <1>17, <1>18, <1>19

\* Commit: what was staged becomes the database.  Sessions it makes stale are
\* those its hook is about to end.
LEMMA CommitStep ==
  ASSUME IInv, NEW r \in Request, Commit(r)
  PROVE  IInv'
<1> USE DEF IInv
<1>1. /\ req[r].phase = "staged" /\ db' = staged /\ lock' = NoRequest
      /\ req' = [req EXCEPT ![r].phase = "committed"]
      /\ UNCHANGED <<staged, minted, sessions, opened, delivered>>
  BY DEF Commit
<1>2. req \in [Request -> RequestRow]
  BY DEF TypeOK
<1>3. /\ req' \in [Request -> RequestRow]
      /\ req'[r] = [req[r] EXCEPT !.phase = "committed"]
      /\ \A q \in Request \ {r} : req'[q] = req[q]
  <2>1. [req[r] EXCEPT !.phase = "committed"] \in RequestRow
    BY <1>2, PhaseSet DEF Phases
  <2> QED
    BY <1>1, <1>2, <2>1
<1>4. /\ req'[r].phase = "committed" /\ req'[r].hook = req[r].hook
      /\ req'[r].op = req[r].op /\ req'[r].user = req[r].user
      /\ req'[r].new = req[r].new
      /\ req'[r].target = req[r].target /\ req'[r].role = req[r].role
  BY <1>2, <1>3 DEF RequestRow
<1>5. \A q \in Request : req'[q].phase # "staged"
  BY <1>1, <1>3, <1>4 DEF LockIsHeld
<1>6. TypeOK'
  BY <1>1, <1>3 DEF TypeOK
<1>7. LockIsHeld'
  BY <1>1, <1>5 DEF LockIsHeld, NoRequest
<1>8. Sound(db)' /\ Sound(staged)'
  BY <1>1 DEF Sound, Initialized, Exists, VaultIsCanonical, IsAdmin
<1>9. Succeeds(db, staged)'
  BY <1>1, SucceedsItself DEF TypeOK
<1>10. \A q \in Request : RowOK(req[q], db)'
  <2>1. RowOK(req[r], db)'
    BY <1>1, <1>4 DEF RowOK
  <2>2. ASSUME NEW q \in Request, q # r PROVE RowOK(req[q], db)'
    <3>1. RowOK(req[q], db)
      OBVIOUS
    <3>2. \A u \in UserId :
            u < db.next => /\ u < staged.next
                           /\ db.users[u].role # "service" =>
                                staged.users[u].role # "service"
      <4>1. db.next \in Int /\ staged.next \in Int /\ UserId \subseteq Int
        BY DEF TypeOK, Database, UserId
      <4> QED
        BY <4>1 DEF Succeeds, Exists
    <3> QED
      BY <2>2, <3>1, <3>2, <1>1, <1>3 DEF RowOK
  <2> QED
    BY <2>1, <2>2
<1>11. CommitsAreAuthorized' /\ StagedSpares' /\ StagedSessionsFit'
  BY <1>5 DEF CommitsAreAuthorized, StagedSpares, StagedSessionsFit
<1>12. NoOrphanSessions'
  BY <1>1, <1>3, <1>4 DEF NoOrphanSessions, IsLive
<1>13. Doomed'
  <2> SUFFICES ASSUME NEW t \in Token, Stale(t)', sessions'[t].via = "write"
               PROVE  \E q \in Request :
                        \/ /\ req'[q].phase \in {"staged", "rolled_back"}
                           /\ req'[q].new = t
                        \/ req'[q].phase = "committed" /\ t \in Revoked(q)'
    BY DEF Doomed
  <2>1. \A q \in Request : t \in Revoked(q) => t \in Revoked(q)'
    BY <1>1, <1>3, <1>4, <1>6, WhoIsRevoked, WhoIsRevokedNext
      DEF Revokes, HookTarget
  <2>2. IsLive(t) /\ IsLive(t)'
    BY <1>1 DEF Stale, IsLive
  <2>3. req[r].new # t
    BY <2>2, <1>1 DEF StagedSessionsFit, Stale, IsPerson, Exists
  <2>4. CASE Stale(t)
    <3>1. PICK q \in Request :
            \/ req[q].phase \in {"staged", "rolled_back"} /\ req[q].new = t
            \/ req[q].phase = "committed" /\ t \in Revoked(q)
      BY <2>4, <1>1 DEF Doomed
    <3>2. q # r
      BY <3>1, <1>1, <2>3
    <3> QED
      BY <1>3, <2>1, <3>1, <3>2
  <2>5. CASE ~Stale(t)
    <3> DEFINE u == sessions[t].user
    <3>1. /\ IsPerson(db, u) /\ u \in UserId
          /\ db.users[u].material = sessions[t].fingerprint
      BY <2>2, <2>5 DEF Stale, IsPerson, Exists
    <3>2. ~Spared(db, staged, u)
      BY <3>1, <1>1 DEF Spared, Stale, IsPerson, Exists
    <3>3. Revokes(r, u)
      BY <3>1, <3>2, <1>1 DEF StagedSpares
    <3>4. t \in Revoked(r)
      BY <3>3, <2>2, <2>3, WhoIsRevoked DEF IsLive
    <3> QED
      BY <3>4, <2>1, <1>4
  <2> QED
    BY <2>4, <2>5
<1>14. FreshTokens'
  BY <1>1 DEF FreshTokens
<1> QED
  BY <1>6, <1>7, <1>8, <1>9, <1>10, <1>11, <1>12, <1>13, <1>14

\* Rollback: the database stays, and the session opened in advance is doomed.
LEMMA RollbackStep ==
  ASSUME IInv, NEW r \in Request, Rollback(r)
  PROVE  IInv'
<1> USE DEF IInv
<1>1. /\ req[r].phase = "staged" /\ staged' = db /\ lock' = NoRequest
      /\ req' = [req EXCEPT ![r].phase = "rolled_back"]
      /\ UNCHANGED <<db, minted, sessions, opened, delivered>>
  BY DEF Rollback
<1>2. req \in [Request -> RequestRow]
  BY DEF TypeOK
<1>3. /\ req' \in [Request -> RequestRow]
      /\ req'[r] = [req[r] EXCEPT !.phase = "rolled_back"]
      /\ \A q \in Request \ {r} : req'[q] = req[q]
  <2>1. [req[r] EXCEPT !.phase = "rolled_back"] \in RequestRow
    BY <1>2, PhaseSet DEF Phases
  <2> QED
    BY <1>1, <1>2, <2>1
<1>4. /\ req'[r].phase = "rolled_back" /\ req'[r].hook = req[r].hook
      /\ req'[r].op = req[r].op /\ req'[r].user = req[r].user
      /\ req'[r].new = req[r].new
      /\ req'[r].target = req[r].target /\ req'[r].role = req[r].role
  BY <1>2, <1>3 DEF RequestRow
<1>5. \A q \in Request : req'[q].phase # "staged"
  BY <1>1, <1>3, <1>4 DEF LockIsHeld
<1>6. TypeOK'
  BY <1>1, <1>3 DEF TypeOK
<1>7. LockIsHeld'
  BY <1>1, <1>5 DEF LockIsHeld, NoRequest
<1>8. Sound(db)' /\ Sound(staged)'
  BY <1>1 DEF Sound, Initialized, Exists, VaultIsCanonical, IsAdmin
<1>9. Succeeds(db, staged)'
  BY <1>1, SucceedsItself DEF TypeOK
<1>10. \A q \in Request : RowOK(req[q], db)'
  BY <1>1, <1>3, <1>4 DEF RowOK
<1>11. CommitsAreAuthorized' /\ StagedSpares' /\ StagedSessionsFit'
  BY <1>5 DEF CommitsAreAuthorized, StagedSpares, StagedSessionsFit
<1>12. NoOrphanSessions'
  BY <1>1, <1>3, <1>4 DEF NoOrphanSessions, IsLive
<1>13. Doomed'
  <2> SUFFICES ASSUME NEW t \in Token, Stale(t)', sessions'[t].via = "write"
               PROVE  \E q \in Request :
                        \/ /\ req'[q].phase \in {"staged", "rolled_back"}
                           /\ req'[q].new = t
                        \/ req'[q].phase = "committed" /\ t \in Revoked(q)'
    BY DEF Doomed
  <2>1. \A q \in Request : t \in Revoked(q) => t \in Revoked(q)'
    BY <1>1, <1>3, <1>4, <1>6, WhoIsRevoked, WhoIsRevokedNext
      DEF Revokes, HookTarget
  <2>2. Stale(t)
    BY <1>1 DEF Stale, IsLive, IsPerson, Exists
  <2>3. PICK q \in Request :
          \/ req[q].phase \in {"staged", "rolled_back"} /\ req[q].new = t
          \/ req[q].phase = "committed" /\ t \in Revoked(q)
    BY <2>2, <1>1 DEF Doomed
  <2> QED
    BY <1>1, <1>3, <1>4, <2>1, <2>3
<1>14. FreshTokens'
  BY <1>1 DEF FreshTokens
<1> QED
  BY <1>6, <1>7, <1>8, <1>9, <1>10, <1>11, <1>12, <1>13, <1>14

\* /unlock opens its session on its snapshot.
LEMMA UnlockOpenStep ==
  ASSUME IInv, NEW r \in Request, UnlockOpen(r)
  PROVE  IInv'
<1> USE DEF IInv
<1> DEFINE new == [user |-> req[r].user, fingerprint |-> req[r].observed,
                   key |-> req[r].key, via |-> "read"]
<1>1. /\ opened < MaxTokens /\ opened' = opened + 1
      /\ sessions' = [sessions EXCEPT ![opened + 1] = new]
      /\ UNCHANGED <<db, lock, staged, minted, delivered>>
      /\ req[r].phase = "snapshot" /\ req[r].op = "unlock"
      /\ req' = [req EXCEPT ![r].phase = "read", ![r].new = opened + 1]
  BY DEF UnlockOpen
<1>2. req \in [Request -> RequestRow] /\ sessions \in [Token -> SessionRow]
  BY DEF TypeOK
<1>3. opened + 1 \in Token /\ opened \in Nat
  BY <1>1 DEF TypeOK, Token
<1>4. new \in SessionRow /\ new.via = "read"
  BY <1>2 DEF SessionRow, RequestRow
<1> HIDE DEF new
<1>5. /\ sessions' \in [Token -> SessionRow] /\ sessions'[opened + 1] = new
      /\ \A t \in Token \ {opened + 1} : sessions'[t] = sessions[t]
  BY <1>1, <1>2, <1>3, <1>4
<1>6. /\ req'[r] = [req[r] EXCEPT !.phase = "read", !.new = opened + 1]
      /\ \A q \in Request \ {r} : req'[q] = req[q]
      /\ req' \in [Request -> RequestRow]
  <2> DEFINE row == [req[r] EXCEPT !.phase = "read", !.new = opened + 1]
  <2>1. row \in RequestRow
    <3>1. PICK x \in RequestRow : x = [req[r] EXCEPT !.phase = "read"]
      BY <1>2, PhaseSet DEF Phases
    <3>2. [x EXCEPT !.new = opened + 1] \in RequestRow
      BY <1>3 DEF RequestRow, Token
    <3> QED
      BY <3>1, <3>2
  <2>2. req' = [req EXCEPT ![r] = row]
    BY <1>1, <1>2
  <2> HIDE DEF row
  <2>3. /\ req' \in [Request -> RequestRow] /\ req'[r] = row
        /\ \A q \in Request \ {r} : req'[q] = req[q]
    BY <1>2, <2>1, <2>2
  <2> QED
    BY <2>3 DEF row
<1>7. /\ req'[r].phase = "read" /\ req'[r].op = req[r].op
      /\ req'[r].new = opened + 1
  BY <1>2, <1>6 DEF RequestRow
<1>8. TypeOK'
  BY <1>1, <1>3, <1>5, <1>6 DEF TypeOK
<1>9. LockIsHeld'
  BY <1>1, <1>6, <1>7 DEF LockIsHeld
<1>10. Sound(db)' /\ Sound(staged)' /\ Succeeds(db, staged)'
  BY <1>1 DEF Sound, Succeeds, Initialized, Exists, VaultIsCanonical, IsAdmin
<1>11. \A q \in Request : RowOK(req[q], db)'
  <2>1. RowOK(req[r], db)'
    BY <1>1, <1>3, <1>7 DEF RowOK
  <2>2. ASSUME NEW q \in Request, q # r PROVE RowOK(req[q], db)'
    BY <2>2, <1>1, <1>2, <1>3, <1>6 DEF RowOK, RequestRow
  <2> QED
    BY <2>1, <2>2
<1>12. CommitsAreAuthorized'
  BY <1>1, <1>6, <1>7 DEF CommitsAreAuthorized, IsAdmin, Exists
<1>13. StagedSpares'
  BY <1>1, <1>6, <1>7 DEF StagedSpares, Revokes, HookTarget, Spared, IsPerson,
    Exists
<1>14. StagedSessionsFit'
  <2>1. \A q \in Request : req[q].new # opened + 1
    BY <1>2, <1>3 DEF RowOK, RequestRow
  <2> QED
    BY <2>1, <1>1, <1>5, <1>6, <1>7 DEF StagedSessionsFit, IsLive, IsPerson, Exists
<1>15. req[r].new = 0
  BY <1>1 DEF RowOK
<1>16. NoOrphanSessions'
  BY <1>1, <1>5, <1>6, <1>7, <1>15 DEF NoOrphanSessions, IsLive, Token
<1>17. Doomed'
  <2> SUFFICES ASSUME NEW t \in Token, Stale(t)', sessions'[t].via = "write"
               PROVE  \E q \in Request :
                        \/ /\ req'[q].phase \in {"staged", "rolled_back"}
                           /\ req'[q].new = t
                        \/ req'[q].phase = "committed" /\ t \in Revoked(q)'
    BY DEF Doomed
  <2>1. t # opened + 1
    BY <1>4, <1>5
  <2>2. Stale(t) /\ sessions'[t] = sessions[t]
    BY <1>1, <1>5, <2>1 DEF Stale, IsLive, IsPerson, Exists
  <2>3. PICK q \in Request :
          \/ req[q].phase \in {"staged", "rolled_back"} /\ req[q].new = t
          \/ req[q].phase = "committed" /\ t \in Revoked(q)
    BY <2>2 DEF Doomed
  <2>4. q # r
    BY <1>1, <2>3
  <2>5. t \in Revoked(q) => t \in Revoked(q)'
    BY <1>6, <1>8, <2>2, <2>4, WhoIsRevoked, WhoIsRevokedNext
      DEF Revokes, HookTarget
  <2> QED
    BY <1>6, <2>3, <2>4, <2>5
<1>18. FreshTokens'
  BY <1>1, <1>3, <1>5 DEF FreshTokens, Token
<1> QED
  BY <1>8, <1>9, <1>10, <1>11, <1>12, <1>13, <1>14, <1>16, <1>17, <1>18

\* A session ends by itself: logout, /lock, a timeout or eviction.
LEMMA SessionEndsStep ==
  ASSUME IInv, NEW s \in Token, SessionEnds(s)
  PROVE  IInv'
<1> USE DEF IInv
<1>1. /\ sessions' = EndedSessions({s})
      /\ UNCHANGED <<db, lock, staged, minted, opened, delivered, req>>
  BY DEF SessionEnds
<1>a. req' = req /\ staged' = staged
  BY <1>1
<1>2. /\ \A t \in Token : sessions'[t] = IF t = s THEN NoSession
                                                 ELSE sessions[t]
      /\ sessions' \in [Token -> SessionRow]
  BY <1>1 DEF EndedSessions, TypeOK, SessionRow, NoSession, NoUser, NoMaterial,
    Material
<1>3. TypeOK' /\ LockIsHeld'
  BY <1>1, <1>2 DEF TypeOK, LockIsHeld
<1>4. Sound(db)' /\ Sound(staged)' /\ Succeeds(db, staged)'
  BY <1>1 DEF Sound, Succeeds, Initialized, Exists, VaultIsCanonical, IsAdmin
<1>5. \A q \in Request : RowOK(req[q], db)'
  BY <1>1 DEF RowOK
<1>6. CommitsAreAuthorized'
  BY <1>1 DEF CommitsAreAuthorized, IsAdmin, Exists
<1>7. StagedSpares'
  BY <1>1 DEF StagedSpares, Revokes, HookTarget, Spared, IsPerson, Exists
<1>8. StagedSessionsFit'
  <2> SUFFICES ASSUME NEW r \in Request, NEW t \in Token,
                      req[r].phase = "staged", req[r].new = t, IsLive(t)'
               PROVE  (/\ IsPerson(staged, sessions[t].user)
                       /\ staged.users[sessions[t].user].material =
                            sessions[t].fingerprint)'
    BY <1>a DEF StagedSessionsFit
  <2>1. IsLive(t) /\ sessions'[t] = sessions[t]
    BY <1>2 DEF IsLive
  <2> QED
    BY <2>1, <1>a DEF StagedSessionsFit, IsPerson, Exists
<1>9. NoOrphanSessions' /\ FreshTokens'
  BY <1>1, <1>2 DEF NoOrphanSessions, IsLive, FreshTokens
<1>10. Doomed'
  <2> SUFFICES ASSUME NEW t \in Token, Stale(t)', sessions'[t].via = "write"
               PROVE  \E q \in Request :
                        \/ /\ req'[q].phase \in {"staged", "rolled_back"}
                           /\ req'[q].new = t
                        \/ req'[q].phase = "committed" /\ t \in Revoked(q)'
    BY DEF Doomed
  <2>1. Stale(t) /\ sessions'[t] = sessions[t]
    BY <1>1, <1>2 DEF Stale, IsLive, IsPerson, Exists
  <2>2. ASSUME NEW q \in Request, t \in Revoked(q) PROVE t \in Revoked(q)'
    BY <1>a, <1>3, <2>1, <2>2, WhoIsRevoked, WhoIsRevokedNext
      DEF Revokes, HookTarget
  <2> QED
    BY <1>1, <2>1, <2>2 DEF Doomed
<1> QED
  BY <1>3, <1>4, <1>5, <1>6, <1>7, <1>8, <1>9, <1>10

LEMMA IdleRow == Idle \in RequestRow /\ Idle.phase = "idle" /\ Idle.new = 0
                  /\ Idle.op = "none" /\ Idle.role = "keep"
BY DEF Idle, RequestRow, Phases, Hooks, Material, NoMaterial, NoUser

\* The process dies and starts again.
LEMMA RestartStep ==
  ASSUME IInv, Restart
  PROVE  IInv'
<1> USE DEF IInv
<1>1. /\ sessions' = [t \in Token |-> NoSession]
      /\ req' = [r \in Request |-> Idle] /\ lock' = NoRequest /\ staged' = db
      /\ UNCHANGED <<db, minted, opened, delivered>>
  BY DEF Restart
<1>2. /\ \A t \in Token : sessions'[t] = NoSession
      /\ sessions' \in [Token -> SessionRow]
  BY <1>1 DEF SessionRow, NoSession, NoUser, NoMaterial, Material
<1>3. req' \in [Request -> RequestRow] /\ \A r \in Request : req'[r] = Idle
  BY <1>1, IdleRow
<1>4. TypeOK' /\ LockIsHeld'
  BY <1>1, <1>2, <1>3, IdleRow DEF TypeOK, LockIsHeld, NoRequest
<1>5. Sound(db)' /\ Sound(staged)'
  BY <1>1 DEF Sound, Initialized, Exists, VaultIsCanonical, IsAdmin
<1>6. Succeeds(db, staged)'
  BY <1>1, SucceedsItself DEF TypeOK
<1>7. \A r \in Request : RowOK(req[r], db)'
  BY <1>3, <1>4, IdleRow DEF RowOK, TypeOK
<1>8. CommitsAreAuthorized' /\ StagedSpares' /\ StagedSessionsFit'
  BY <1>3, IdleRow DEF CommitsAreAuthorized, StagedSpares, StagedSessionsFit
<1>9. NoOrphanSessions' /\ FreshTokens' /\ Doomed'
  BY <1>2 DEF NoOrphanSessions, FreshTokens, Doomed, Stale, IsLive
<1> QED
  BY <1>4, <1>5, <1>6, <1>7, <1>8, <1>9

\* A new installation, or a vault from before accounts existed.
LEMMA InitIInv == Init => IInv
<1> SUFFICES ASSUME Init PROVE IInv
  OBVIOUS
<1> USE DEF Init
<1>1. /\ db \in Database /\ db.next = 1 /\ db.vault.owner = NoUser
      /\ \A u \in UserId : db.users[u].role = "none"
  <2>1. NoRow \in UserRow /\ NoRow.role = "none"
    BY DEF NoRow, UserRow, NoUser, NoMaterial, Material
  <2>2. \A m \in Material : [owner |-> NoUser, material |-> m] \in VaultRow
    BY DEF VaultRow, NoUser
  <2>3. NoMaterial \in Material /\ [id |-> 1, key |-> 1] \in Material
    BY DEF NoMaterial, Material
  <2>4. CASE db = EmptyDb
    BY <2>1, <2>2, <2>3, <2>4 DEF EmptyDb, Database, NoVault
  <2>5. CASE db = [EmptyDb EXCEPT !.vault.material = [id |-> 1, key |-> 1]]
    <3>1. db = [users |-> [u \in UserId |-> NoRow], next |-> 1,
                vault |-> [owner |-> NoUser, material |-> [id |-> 1, key |-> 1]]]
      BY <2>5 DEF EmptyDb, NoVault
    <3> QED
      BY <2>1, <2>2, <2>3, <3>1 DEF Database
  <2> QED
    BY <2>4, <2>5
<1>2. ~Initialized(db)
  BY <1>1 DEF Initialized, Exists
<1>3. Sound(db) /\ Sound(staged)
  BY <1>1, <1>2 DEF Sound, Exists, Initialized
<1>4. Succeeds(db, staged)
  BY <1>1, SucceedsItself
<1>5. NoSession \in SessionRow
  BY DEF SessionRow, NoSession, NoUser, NoMaterial, Material
<1>6. TypeOK /\ LockIsHeld
  BY <1>1, <1>5, IdleRow DEF TypeOK, LockIsHeld, NoRequest
<1>7. \A r \in Request : RowOK(req[r], db)
  <2>1. \A r \in Request : req[r] = Idle
    OBVIOUS
  <2> HIDE DEF Init
  <2>2. Idle.new <= opened
    BY <1>6, IdleRow DEF TypeOK
  <2>3. RowOK(Idle, db)
    BY <2>2, IdleRow DEF RowOK
  <2> QED
    BY <2>1, <2>3
<1>8. CommitsAreAuthorized /\ StagedSpares /\ StagedSessionsFit
  BY IdleRow DEF CommitsAreAuthorized, StagedSpares, StagedSessionsFit
<1>9. NoOrphanSessions /\ FreshTokens /\ Doomed
  BY DEF NoOrphanSessions, FreshTokens, Doomed, Stale, IsLive
<1> QED
  BY <1>3, <1>4, <1>6, <1>7, <1>8, <1>9 DEF IInv

-----------------------------------------------------------------------------
(***************************************************************************)
(* The operations.                                                         *)
(***************************************************************************)
\* The first half of an operation that derives a key.
LEMMA DeriveStep ==
  ASSUME IInv, NEW r \in Request, NEW user \in 0..MaxUsers,
         NEW observed \in Material, NEW key \in 0..MaxMaterials,
         Derive(r, user, observed, key),
         req[r].op = "change_password" =>
           /\ user \in UserId /\ user < db.next
           /\ db.users[user].role # "service"
  PROVE  IInv'
<1> DEFINE row == [req[r] EXCEPT !.phase = "kdf", !.token = 0, !.user = user,
                                 !.observed = observed, !.key = key]
<1>1. /\ req[r].phase = "resolved"
      /\ UNCHANGED <<db, lock, staged, minted, sessions, opened, delivered>>
  BY DEF Derive
<1>2. /\ req \in [Request -> RequestRow] /\ sessions \in [Token -> SessionRow]
      /\ delivered \subseteq 1..opened /\ RowOK(req[r], db)
  BY DEF IInv, TypeOK
<1>3. req' = [req EXCEPT ![r] = row]
  BY <1>2 DEF Derive
<1>4. row \in RequestRow
  <2>1. PICK x \in RequestRow : x = [req[r] EXCEPT !.phase = "kdf"]
    BY <1>2, PhaseSet DEF Phases
  <2>2. [x EXCEPT !.token = 0] \in RequestRow
    BY DEF RequestRow
  <2>3. PICK y \in RequestRow : y = [x EXCEPT !.token = 0]
    BY <2>2
  <2>4. [y EXCEPT !.user = user] \in RequestRow
    BY DEF RequestRow
  <2>5. PICK z \in RequestRow : z = [y EXCEPT !.user = user]
    BY <2>4
  <2>6. [z EXCEPT !.observed = observed] \in RequestRow
    BY DEF RequestRow
  <2>7. PICK w \in RequestRow : w = [z EXCEPT !.observed = observed]
    BY <2>6
  <2>8. [w EXCEPT !.key = key] \in RequestRow
    BY DEF RequestRow
  <2> QED
    BY <2>1, <2>3, <2>5, <2>7, <2>8
<1>5. /\ row.phase = "kdf" /\ row.op = req[r].op /\ row.new = req[r].new
      /\ row.role = req[r].role /\ row.user = user
  BY <1>2 DEF RequestRow
<1> HIDE DEF row
<1>6. RowOK(row, db) /\ req[r].new = 0
  BY <1>1, <1>2, <1>5 DEF RowOK
<1>7. sessions' = EndedSessions({})
  BY <1>1, <1>2 DEF EndedSessions
<1> QED
  BY <1>1, <1>2, <1>3, <1>4, <1>5, <1>6, <1>7, RequestStep

\* A request that is refused, or done without a session: nothing is left of it.
LEMMA ForgetStep ==
  ASSUME IInv, NEW r \in Request, NEW gone,
         req' = [req EXCEPT ![r] = Idle], req[r].phase # "staged",
         sessions' = EndedSessions(gone),
         delivered \subseteq delivered', delivered' \subseteq 1..opened,
         req[r].new \in gone \union delivered' \union {0},
         req[r].phase = "rolled_back" => req[r].new \in gone,
         req[r].phase = "committed" => Revoked(r) \subseteq gone,
         UNCHANGED <<db, lock, staged, minted, opened>>
  PROVE  IInv'
<1>1. opened \in Nat
  BY DEF IInv, TypeOK
<1>2. Idle.new <= opened
  BY <1>1, IdleRow
<1>3. RowOK(Idle, db)
  BY <1>2, IdleRow DEF RowOK
<1> QED
  BY <1>3, IdleRow, RequestStep

LEMMA ArriveStep ==
  ASSUME IInv, NEW r \in Request, NEW op \in {"bootstrap", "unlock", "login", "mcp"},
         NEW target \in 0..MaxUsers, Arrive(r, op, target)
  PROVE  IInv'
<1> DEFINE row == [Idle EXCEPT !.op = op, !.phase = "resolved", !.target = target]
<1>1. /\ req[r] = Idle /\ req' = [req EXCEPT ![r] = row]
      /\ UNCHANGED <<db, lock, staged, minted, sessions, opened, delivered>>
  BY DEF Arrive
<1>2. /\ req \in [Request -> RequestRow] /\ sessions \in [Token -> SessionRow]
      /\ delivered \subseteq 1..opened /\ opened \in Nat
  BY DEF IInv, TypeOK
<1>3. row \in RequestRow
  <2>1. [Idle EXCEPT !.op = op] \in RequestRow
    BY IdleRow DEF RequestRow, OpenOps
  <2>2. PICK x \in RequestRow : x = [Idle EXCEPT !.op = op]
    BY <2>1
  <2>3. PICK y \in RequestRow : y = [x EXCEPT !.phase = "resolved"]
    BY PhaseSet DEF Phases
  <2>4. [y EXCEPT !.target = target] \in RequestRow
    BY DEF RequestRow
  <2> QED
    BY <2>2, <2>3, <2>4
<1>4. row.phase = "resolved" /\ row.op = op /\ row.new = 0
  BY IdleRow DEF RequestRow
<1> HIDE DEF row
<1>5. RowOK(row, db)
  BY <1>2, <1>4 DEF RowOK
<1>6. sessions' = EndedSessions({})
  BY <1>1, <1>2 DEF EndedSessions
<1> QED
  BY <1>1, <1>2, <1>3, <1>4, <1>5, <1>6, IdleRow, RequestStep

LEMMA ArriveWithSessionStep ==
  ASSUME IInv, NEW r \in Request, NEW op \in SessionOps, NEW t \in Token,
         NEW target \in 0..MaxUsers, NEW role \in Roles \union {"keep"},
         NEW active \in {"keep", "yes", "no"}, NEW opens \in BOOLEAN,
         ArriveWithSession(r, op, t, target, role, active, opens),
         op = "create_user" => role \in Roles
  PROVE  IInv'
<1> DEFINE row == [Idle EXCEPT !.op = op, !.phase = "resolved", !.token = t,
                               !.user = sessions[t].user,
                               !.observed = sessions[t].fingerprint,
                               !.key = sessions[t].key, !.target = target,
                               !.role = role, !.active = active,
                               !.opens = opens]
<1>1. /\ req[r] = Idle /\ req' = [req EXCEPT ![r] = row]
      /\ UNCHANGED <<db, lock, staged, minted, sessions, opened, delivered>>
  BY DEF ArriveWithSession
<1>2. /\ req \in [Request -> RequestRow] /\ sessions \in [Token -> SessionRow]
      /\ delivered \subseteq 1..opened /\ opened \in Nat
  BY DEF IInv, TypeOK
<1>a. /\ sessions[t].user \in 0..MaxUsers
      /\ sessions[t].fingerprint \in Material
      /\ sessions[t].key \in 0..MaxMaterials
      /\ t \in 0..MaxTokens
  BY <1>2 DEF SessionRow, Token
<1> DEFINE x1 == [Idle EXCEPT !.op = op]
           x2 == [x1 EXCEPT !.phase = "resolved"]
           x3 == [x2 EXCEPT !.token = t]
           x4 == [x3 EXCEPT !.user = sessions[t].user]
           x5 == [x4 EXCEPT !.observed = sessions[t].fingerprint]
           x6 == [x5 EXCEPT !.key = sessions[t].key]
           x7 == [x6 EXCEPT !.target = target]
           x8 == [x7 EXCEPT !.role = role]
           x9 == [x8 EXCEPT !.active = active]
           x10 == [x9 EXCEPT !.opens = opens]
<1>b. row = x10
  OBVIOUS
<1> HIDE DEF row, x10, x9, x8, x7, x6, x5, x4, x3, x2, x1
<1>c. /\ x1 \in RequestRow /\ x1.op = op /\ x1.new = 0
  BY IdleRow DEF x1, RequestRow
<1>d. /\ x2 \in RequestRow
      /\ x2.op = op /\ x2.new = 0 /\ x2.phase = "resolved"
  BY <1>c DEF x2, RequestRow, Phases
<1>e. /\ x3 \in RequestRow
      /\ x3.op = op /\ x3.new = 0 /\ x3.phase = "resolved"
  BY <1>d, <1>a DEF x3, RequestRow
<1>f. /\ x4 \in RequestRow
      /\ x4.op = op /\ x4.new = 0 /\ x4.phase = "resolved"
  BY <1>e, <1>a DEF x4, RequestRow
<1>g. /\ x5 \in RequestRow
      /\ x5.op = op /\ x5.new = 0 /\ x5.phase = "resolved"
  BY <1>f, <1>a DEF x5, RequestRow
<1>h. /\ x6 \in RequestRow
      /\ x6.op = op /\ x6.new = 0 /\ x6.phase = "resolved"
  BY <1>g, <1>a DEF x6, RequestRow
<1>i. /\ x7 \in RequestRow
      /\ x7.op = op /\ x7.new = 0 /\ x7.phase = "resolved"
  BY <1>h DEF x7, RequestRow
<1>j. /\ x8 \in RequestRow
      /\ x8.op = op /\ x8.new = 0 /\ x8.phase = "resolved" /\ x8.role = role
  BY <1>i DEF x8, RequestRow
<1>k. /\ x9 \in RequestRow
      /\ x9.op = op /\ x9.new = 0 /\ x9.phase = "resolved" /\ x9.role = role
  BY <1>j DEF x9, RequestRow
<1>l. /\ x10 \in RequestRow
      /\ x10.op = op /\ x10.new = 0 /\ x10.phase = "resolved" /\ x10.role = role
  BY <1>k DEF x10, RequestRow
<1>3. row \in RequestRow
  BY <1>b, <1>l
<1>4. row.phase = "resolved" /\ row.op = op /\ row.new = 0 /\ row.role = role
  BY <1>b, <1>l
<1>5. RowOK(row, db)
  BY <1>2, <1>4 DEF RowOK
<1>6. sessions' = EndedSessions({})
  BY <1>1, <1>2 DEF EndedSessions
<1> QED
  BY <1>1, <1>2, <1>3, <1>4, <1>5, <1>6, IdleRow, RequestStep

\* The request's locals and the database are well formed.
LEMMA Locals ==
  ASSUME IInv, NEW r \in Request
  PROVE  /\ req[r] \in RequestRow /\ db \in Database /\ Sound(db)
         /\ req[r].user \in 0..MaxUsers /\ req[r].target \in 0..MaxUsers
         /\ req[r].observed \in Material /\ req[r].key \in 0..MaxMaterials
         /\ req[r].role \in Roles \union {"keep"}
         /\ req[r].active \in {"keep", "yes", "no"}
         /\ req[r].new \in Nat /\ RowOK(req[r], db)
         /\ minted \in 0..MaxMaterials
         /\ sessions = EndedSessions({})
         /\ delivered \subseteq 1..opened
         /\ \A u \in UserId : db.users[u] \in UserRow
<1>1. req[r] \in RequestRow /\ db \in Database
  BY DEF IInv, TypeOK
<1>2. sessions = EndedSessions({})
  BY DEF IInv, TypeOK, EndedSessions
<1> QED
  BY <1>1, <1>2 DEF IInv, TypeOK, RequestRow, Database

\* What context() has made sure of.
LEMMA AuthorizedFacts ==
  ASSUME IInv, NEW r \in Request, Authorized(db, r)
  PROVE  /\ IsPerson(db, req[r].user) /\ req[r].user \in UserId
         /\ req[r].user < db.next /\ db.users[req[r].user].role # "service"
         /\ db.users[req[r].user].material = req[r].observed
         /\ Initialized(db) /\ req[r].key = db.vault.material.key
<1>1. Sound(db)
  BY DEF IInv
<1>2. /\ IsPerson(db, req[r].user) /\ Exists(db, req[r].user)
      /\ req[r].user \in UserId
      /\ db.users[req[r].user].role # "service"
      /\ db.users[req[r].user].material = req[r].observed
      /\ req[r].key = db.vault.material.key
  BY DEF Authorized, IsPerson, Exists, KeyMatches
<1>3. Initialized(db)
  BY <1>2 DEF Initialized
<1> QED
  BY <1>1, <1>2, <1>3 DEF Sound

\* Operations that read, commit and derive.
LEMMA ObserveSteps ==
  ASSUME IInv, NEW r \in Request,
         \/ BootstrapObserve(r) \/ LoginObserve(r) \/ UnlockObserve(r)
         \/ ChangePasswordObserve(r) \/ McpObserve(r) \/ CreateUserObserve(r)
         \/ RotateTokenObserve(r) \/ ResetPasswordObserve(r)
  PROVE  IInv'
<1>1. ASSUME NEW m \in Material PROVE m.key \in 0..MaxMaterials
  BY DEF Material
<1>2. \A u \in UserId : db.users[u].material \in Material
  BY Locals DEF UserRow
<1>3. db.vault.material \in Material /\ db.vault.owner \in 0..MaxUsers
  BY Locals DEF Database, VaultRow
<1>4. NoUser \in 0..MaxUsers /\ UserId \subseteq 0..MaxUsers
  BY DEF NoUser, UserId
<1>5. CASE BootstrapObserve(r)
  BY <1>1, <1>3, <1>4, <1>5, DeriveStep DEF BootstrapObserve
<1>6. CASE LoginObserve(r)
  BY <1>1, <1>2, <1>4, <1>6, DeriveStep DEF LoginObserve, IsPerson, Exists
<1>7. CASE UnlockObserve(r)
  BY <1>1, <1>2, <1>4, <1>7, DeriveStep DEF UnlockObserve, IsPerson, Exists
<1>8. CASE McpObserve(r)
  BY <1>1, <1>2, <1>4, <1>8, DeriveStep DEF McpObserve, Exists
<1>9. ASSUME NEW op \in SessionOps, InContext(r, op),
             Derive(r, req[r].user, req[r].observed, req[r].key)
      PROVE  IInv'
  <2>1. Authorized(db, r)
    BY <1>9 DEF InContext
  <2> QED
    BY <1>9, <2>1, AuthorizedFacts, Locals, DeriveStep
<1>10. {"change_password", "create_user", "rotate_token", "reset_password"}
         \subseteq SessionOps
  BY DEF SessionOps
<1> QED
  BY <1>5, <1>6, <1>7, <1>8, <1>9, <1>10 DEF ChangePasswordObserve,
    CreateUserObserve, RotateTokenObserve, ResetPasswordObserve, AsAdminOn, AsAdmin

\* Requests that end, and those that only go on to their next phase.
LEMMA QuietSteps ==
  ASSUME IInv, NEW r \in Request,
         \/ ContextEndsSession(r) \/ Refuse(r) \/ RunCommitHooks(r)
         \/ RunRollbackHooks(r) \/ UnlockSnapshot(r) \/ ReadEnds(r)
  PROVE  IInv'
<1>1. CASE ContextEndsSession(r)
  <2>1. req[r].new = 0
    BY <1>1, Locals DEF ContextEndsSession, RowOK
  <2> QED
    BY <1>1, <2>1, Locals, ForgetStep DEF ContextEndsSession
<1>2. CASE Refuse(r)
  <2>1. req[r].new = 0
    BY <1>2, Locals DEF Refuse, RowOK
  <2> QED
    BY <1>2, <2>1, Locals, ForgetStep DEF Refuse
<1>3. CASE RunCommitHooks(r)
  <2>1. delivered' \subseteq 1..opened
    BY <1>3, Locals DEF RunCommitHooks, RowOK
  <2> QED
    BY <1>3, <2>1, ForgetStep DEF RunCommitHooks
<1>4. CASE RunRollbackHooks(r)
  BY <1>4, Locals, ForgetStep DEF RunRollbackHooks
<1>5. ASSUME NEW p \in Phases, req' = [req EXCEPT ![r].phase = p],
             UNCHANGED <<db, lock, staged, minted, sessions, opened, delivered>>,
             \/ /\ p = "snapshot" /\ req[r].phase = "kdf"
                /\ req[r].user \in UserId
             \/ /\ p \in {"committed", "rolled_back"} /\ req[r].phase = "read"
      PROVE  IInv'
  <2> DEFINE row == [req[r] EXCEPT !.phase = p]
  <2>1. row \in RequestRow
    BY Locals, PhaseSet
  <2>2. req' = [req EXCEPT ![r] = row]
    BY <1>5 DEF IInv, TypeOK
  <2>3. /\ row.phase = p /\ row.op = req[r].op /\ row.new = req[r].new
        /\ row.role = req[r].role /\ row.user = req[r].user
    BY Locals DEF RequestRow
  <2> HIDE DEF row
  <2>4. RowOK(row, db)
    BY <1>5, <2>3, Locals DEF RowOK
  <2> QED
    BY <1>5, <2>1, <2>2, <2>3, <2>4, Locals, RequestStep
<1>6. CASE UnlockSnapshot(r)
  BY <1>5, <1>6 DEF UnlockSnapshot, StillThatLogin, IsPerson, Exists, Phases
<1>7. CASE ReadEnds(r)
  BY <1>5, <1>7 DEF ReadEnds, Phases
<1> QED
  BY <1>1, <1>2, <1>3, <1>4, <1>6, <1>7

\* Nothing changes in the accounts themselves.
LEMMA SpareSelf == \A u \in UserId : Spared(db, db, u)
BY DEF Spared

LEMMA NewMaterialType ==
  ASSUME minted \in 0..MaxMaterials, minted < MaxMaterials,
         NEW key \in 0..MaxMaterials
  PROVE  /\ NewMaterial(key) \in Material /\ NewMaterial(key).key = key
         /\ minted + 1 \in 0..MaxMaterials
BY DEF NewMaterial, Material

\* Writes that are the business of other modules, and revoking sessions.
LEMMA PlainWriteSteps ==
  ASSUME IInv, NEW r \in Request,
         EntryWrite(r) \/ McpWrite(r) \/ RevokeUserSessions(r)
  PROVE  IInv'
<1>1. Succeeds(db, db)
  BY Locals, SucceedsItself
<1>2. {"none", "revoke_user"} \subseteq Hooks
  BY DEF Hooks
<1>3. CASE EntryWrite(r)
  <2>1. MayCommit(req[r].op, req[r].user, req[r].observed)
    BY <1>3, AuthorizedFacts DEF EntryWrite, InContext, MayCommit, AdminOps,
      IsPerson
  <2> QED
    BY <1>1, <1>2, <1>3, <2>1, Locals, SpareSelf, StageStep DEF EntryWrite, InContext
<1>4. CASE McpWrite(r)
  <2>1. MayCommit(req[r].op, req[r].user, req[r].observed)
    BY <1>4 DEF McpWrite, Derived, StillThatAccount, MayCommit, AdminOps
  <2> QED
    BY <1>1, <1>2, <1>4, <2>1, Locals, SpareSelf, StageStep DEF McpWrite, Derived
<1>5. CASE RevokeUserSessions(r)
  <2>1. MayCommit(req[r].op, req[r].user, req[r].observed)
    BY <1>5 DEF RevokeUserSessions, AsAdminOn, AsAdmin, InContext, MayCommit
  <2> QED
    BY <1>1, <1>2, <1>5, <2>1, Locals, SpareSelf, StageStep
      DEF RevokeUserSessions, AsAdminOn, AsAdmin, InContext
<1> QED
  BY <1>3, <1>4, <1>5

\* login(), with the account as it is read again.
LEMMA LoginOpenStep ==
  ASSUME IInv, NEW r \in Request, LoginOpen(r)
  PROVE  IInv'
<1>1. Succeeds(db, db) /\ "none" \in Hooks
  BY Locals, SucceedsItself DEF Hooks
<1>2. /\ req[r].op = "login" /\ req[r].phase = "kdf"
      /\ IsPerson(db, req[r].user) /\ Exists(db, req[r].user)
      /\ db.users[req[r].user].active /\ req[r].user \in UserId
      /\ db.users[req[r].user].role # "service"
      /\ db.users[req[r].user].material = req[r].observed
      /\ StageWithSession(r, db, req[r].user, req[r].key, "none")
      /\ minted' = minted
  BY DEF LoginOpen, Derived, StillThatLogin, IsPerson, Exists
<1>3. MayCommit(req[r].op, req[r].user, req[r].observed)
  BY <1>2 DEF MayCommit, AdminOps
<1> QED
  BY <1>1, <1>2, <1>3, Locals, SpareSelf, SessionStep

\* The first account, of a new vault and of an old one.
LEMMA BootstrapNewStep ==
  ASSUME IInv, NEW r \in Request, BootstrapNew(r)
  PROVE  IInv'
<1> DEFINE m == NewMaterial(minted + 1)
           D(no) == [Added(db, "admin", m, no, NoUser)
                       EXCEPT !.vault = [owner |-> db.next, material |-> m]]
<1>a. StageWithSession(r, D(FALSE), db.next, m.key, "none")
  BY Zenon DEF BootstrapNew
<1>b. PICK must \in BOOLEAN : must = FALSE
  OBVIOUS
<1> DEFINE d == D(must)
<1>1. /\ StageWithSession(r, d, db.next, m.key, "none")
      /\ d = [Added(db, "admin", m, must, NoUser)
                EXCEPT !.vault = [owner |-> db.next, material |-> m]]
  BY <1>a, <1>b, Zenon
<1>c. m = NewMaterial(minted + 1)
  OBVIOUS
<1> HIDE DEF m, d
<1>2. /\ req[r].op = "bootstrap" /\ req[r].phase = "kdf" /\ ~Initialized(db)
      /\ minted < MaxMaterials /\ minted' = minted + 1
  BY DEF BootstrapNew, Derived
<1>3. m \in Material /\ m.key \in 0..MaxMaterials /\ minted' \in 0..MaxMaterials
  BY <1>c, <1>2, Locals, NewMaterialType
<1>4. /\ d \in Database /\ Sound(d) /\ Succeeds(db, d)
      /\ \A v \in UserId : Spared(db, d, v)
      /\ db.next \in UserId /\ IsPerson(d, db.next)
  BY <1>1, <1>2, <1>3, Locals, FirstAccountIsSound
<1>5. MayCommit(req[r].op, db.next, req[r].observed) /\ "none" \in Hooks
  BY <1>2 DEF MayCommit, AdminOps, Hooks
<1> QED
  BY <1>1, <1>2, <1>3, <1>4, <1>5, SessionStep

LEMMA BootstrapLegacyStep ==
  ASSUME IInv, NEW r \in Request, BootstrapLegacy(r)
  PROVE  IInv'
<1> DEFINE m == req[r].observed
           D(no) == [Added(db, "admin", m, no, NoUser) EXCEPT !.vault.owner = db.next]
<1>a. StageWithSession(r, D(FALSE), db.next, req[r].key, "none")
  BY Zenon DEF BootstrapLegacy
<1>b. PICK must \in BOOLEAN : must = FALSE
  OBVIOUS
<1> DEFINE d == D(must)
<1>1. /\ StageWithSession(r, d, db.next, req[r].key, "none")
      /\ d = [Added(db, "admin", m, must, NoUser) EXCEPT !.vault.owner = db.next]
  BY <1>a, <1>b, Zenon
<1> HIDE DEF d
<1>2. /\ req[r].op = "bootstrap" /\ req[r].phase = "kdf" /\ ~Initialized(db)
      /\ db.vault.material = m /\ minted' = minted
  BY DEF BootstrapLegacy, Derived
<1>3. m \in Material /\ db \in Database /\ Sound(db)
  BY Locals
<1> HIDE DEF m
<1>4. d = [Added(db, "admin", m, must, NoUser)
             EXCEPT !.vault = [owner |-> db.next, material |-> m]]
  <2> DEFINE e == Added(db, "admin", m, must, NoUser)
  <2>1. e.vault = db.vault
    <3>1. "admin" \in Roles /\ NoUser \in 0..MaxUsers /\ db.next <= MaxUsers
      BY <1>2, <1>3 DEF Roles, NoUser, Sound
    <3> QED
      BY <1>3, <3>1, AddedRow
  <2>2. [db.vault EXCEPT !.owner = db.next] = [owner |-> db.next, material |-> m]
    BY <1>2, <1>3 DEF Database, VaultRow
  <2> HIDE DEF e
  <2>3. d = [e EXCEPT !.vault = [e.vault EXCEPT !.owner = db.next]]
    BY <1>1 DEF e
  <2>4. d = [e EXCEPT !.vault = [owner |-> db.next, material |-> m]]
    BY <2>1, <2>2, <2>3
  <2> QED
    BY <2>4 DEF e
<1>5. /\ d \in Database /\ Sound(d) /\ Succeeds(db, d)
      /\ \A v \in UserId : Spared(db, d, v)
      /\ db.next \in UserId /\ IsPerson(d, db.next)
  BY <1>2, <1>3, <1>4, FirstAccountIsSound
<1>6. MayCommit(req[r].op, db.next, req[r].observed) /\ "none" \in Hooks
  BY <1>2 DEF MayCommit, AdminOps, Hooks
<1> QED
  BY <1>1, <1>2, <1>5, <1>6, Locals, SessionStep

\* change_password(): its own sessions go, but for the new one.
LEMMA ChangePasswordApplyStep ==
  ASSUME IInv, NEW r \in Request, ChangePasswordApply(r)
  PROVE  IInv'
<1> DEFINE u == req[r].user
           m == NewMaterial(req[r].key)
           D(no) == Rewrapped(db, u, m, no)
<1>1. /\ req[r].op = "change_password" /\ req[r].phase = "kdf"
      /\ Exists(db, u) /\ u \in UserId /\ db.users[u].active
      /\ db.users[u].material = req[r].observed
      /\ req[r].key = db.vault.material.key
      /\ minted < MaxMaterials /\ minted' = minted + 1
  BY DEF ChangePasswordApply, Derived, StillThatAccount, KeyMatches, Exists
<1>2. db.users[u].role # "service"
  BY <1>1, Locals DEF RowOK
<1>3. \/ StageWithSession(r, D(FALSE), u, req[r].key, "revoke_except")
      \/ Stage(r, D(FALSE), "revoke_user")
  BY Zenon DEF ChangePasswordApply
<1>4. PICK must \in BOOLEAN : must = FALSE
  OBVIOUS
<1> DEFINE d == D(must)
<1>5. /\ d = Rewrapped(db, u, m, must)
      /\ \/ StageWithSession(r, d, u, req[r].key, "revoke_except")
         \/ Stage(r, d, "revoke_user")
  BY <1>3, <1>4, Zenon
<1>6. m \in Material /\ m.key = db.vault.material.key /\ minted' \in 0..MaxMaterials
  BY <1>1, Locals, NewMaterialType
<1> HIDE DEF m, d
<1>7. /\ d \in Database /\ Sound(d) /\ Succeeds(db, d)
      /\ IsPerson(db, u) => IsPerson(d, u)
      /\ \A v \in UserId \ {u} : Spared(db, d, v)
  BY <1>1, <1>5, <1>6, Locals, RewrappedIsSound
<1>8. IsPerson(d, u) /\ MayCommit(req[r].op, req[r].user, req[r].observed)
  BY <1>1, <1>2, <1>7 DEF MayCommit, AdminOps, IsPerson
<1>9. HookTarget(r) = u /\ {"revoke_except", "revoke_user"} \subseteq Hooks
  BY <1>1 DEF HookTarget, Hooks
<1>10. CASE StageWithSession(r, d, u, req[r].key, "revoke_except")
  BY <1>1, <1>6, <1>7, <1>8, <1>9, <1>10, Locals, SessionStep
<1>11. CASE Stage(r, d, "revoke_user")
  BY <1>1, <1>6, <1>7, <1>8, <1>9, <1>11, StageStep
<1> QED
  BY <1>5, <1>10, <1>11

\* What require_admin() and _target() have made sure of.
LEMMA AdminFacts ==
  ASSUME IInv, NEW r \in Request, NEW op \in AdminOps, AsAdmin(r, op)
  PROVE  /\ req[r].phase = "resolved" /\ req[r].op = op
         /\ IsAdmin(db, req[r].user) /\ req[r].user \in UserId
         /\ MayCommit(req[r].op, req[r].user, req[r].observed)
         /\ HookTarget(r) = req[r].target
BY DEF AsAdmin, InContext, IsAdmin, MayCommit, HookTarget, AdminOps

\* The second half of an administrator's operation that derives a key.
LEMMA StillAdminFacts ==
  ASSUME IInv, NEW r \in Request, NEW op \in AdminOps, Derived(r, op),
         StillAdmin(r)
  PROVE  /\ req[r].phase = "kdf" /\ req[r].op = op
         /\ IsAdmin(db, req[r].user) /\ Initialized(db)
         /\ req[r].key = db.vault.material.key
         /\ MayCommit(req[r].op, req[r].user, req[r].observed)
         /\ HookTarget(r) = req[r].target
<1>1. Exists(db, req[r].user) /\ req[r].user \in UserId
  BY DEF StillAdmin, IsAdmin, Exists
<1>2. Initialized(db)
  BY <1>1 DEF Initialized
<1> QED
  BY <1>2 DEF Derived, StillAdmin, KeyMatches, MayCommit, HookTarget, AdminOps

LEMMA CreateUserApplyStep ==
  ASSUME IInv, NEW r \in Request, CreateUserApply(r)
  PROVE  IInv'
<1> DEFINE m == NewMaterial(req[r].key)
           service == req[r].role = "service"
           owner == IF service THEN req[r].user ELSE NoUser
           D(no) == Added(db, req[r].role, m, no, owner)
<1>1. /\ Derived(r, "create_user") /\ StillAdmin(r) /\ db.next <= MaxUsers
      /\ minted < MaxMaterials /\ minted' = minted + 1
  BY DEF CreateUserApply
<1>2. Stage(r, D(~service), "none")
  BY Zenon DEF CreateUserApply
<1>3. PICK must \in BOOLEAN : must = ~service
  OBVIOUS
<1> DEFINE d == D(must)
<1>4. d = Added(db, req[r].role, m, must, owner) /\ Stage(r, d, "none")
  BY <1>2, <1>3, Zenon
<1>5. owner \in 0..MaxUsers
  BY Locals DEF NoUser
<1> HIDE DEF m, d, owner
<1>6. /\ req[r].phase = "kdf" /\ req[r].op = "create_user" /\ Initialized(db)
      /\ req[r].key = db.vault.material.key
      /\ MayCommit(req[r].op, req[r].user, req[r].observed)
  BY <1>1, StillAdminFacts DEF AdminOps
<1>7. m \in Material /\ m.key = db.vault.material.key /\ minted' \in 0..MaxMaterials
  BY <1>1, <1>6, Locals, NewMaterialType DEF m
<1>8. req[r].role \in Roles
  BY <1>6, Locals DEF RowOK
<1>9. /\ d \in Database /\ Sound(d) /\ Succeeds(db, d)
      /\ \A v \in UserId : Spared(db, d, v)
  BY <1>1, <1>4, <1>5, <1>6, <1>7, <1>8, Locals, NewAccountIsSound
<1> QED
  BY <1>4, <1>6, <1>7, <1>9, StageStep DEF Hooks

LEMMA ResetPasswordApplyStep ==
  ASSUME IInv, NEW r \in Request, ResetPasswordApply(r)
  PROVE  IInv'
<1> DEFINE u == req[r].target
           m == NewMaterial(req[r].key)
           D(yes) == Rewrapped(db, u, m, yes)
<1>1. /\ Derived(r, "reset_password") /\ StillAdmin(r)
      /\ minted < MaxMaterials /\ minted' = minted + 1
      /\ Exists(db, u) /\ u \in UserId
  BY DEF ResetPasswordApply, Exists
<1>2. Stage(r, D(TRUE), "revoke_user")
  BY Zenon DEF ResetPasswordApply
<1>3. PICK must \in BOOLEAN : must = TRUE
  OBVIOUS
<1> DEFINE d == D(must)
<1>4. d = Rewrapped(db, u, m, must) /\ Stage(r, d, "revoke_user")
  BY <1>2, <1>3, Zenon
<1> HIDE DEF m, d
<1>5. /\ req[r].phase = "kdf" /\ req[r].key = db.vault.material.key
      /\ MayCommit(req[r].op, req[r].user, req[r].observed)
      /\ HookTarget(r) = u
  BY <1>1, StillAdminFacts DEF AdminOps
<1>6. m \in Material /\ m.key = db.vault.material.key /\ minted' \in 0..MaxMaterials
  BY <1>1, <1>5, Locals, NewMaterialType DEF m
<1>7. /\ d \in Database /\ Sound(d) /\ Succeeds(db, d)
      /\ \A v \in UserId \ {u} : Spared(db, d, v)
  BY <1>1, <1>4, <1>6, Locals, RewrappedIsSound
<1> QED
  BY <1>4, <1>5, <1>6, <1>7, StageStep DEF Hooks

\* An administrator is left as long as the row of one is not touched, or is
\* still an administrator's.
LEMMA AdministratorStays ==
  ASSUME NEW d \in Database, NEW u \in UserId, NEW row \in UserRow, NEW e,
         e = WithRow(d, u, row), NEW v \in UserId, IsAdmin(d, v),
         v = u => row.active /\ row.role = "admin"
  PROVE  \E w \in UserId : IsAdmin(e, w)
<1>1. /\ e.users[u] = row /\ \A w \in UserId \ {u} : e.users[w] = d.users[w]
  BY RowReplaced
<1>2. IsAdmin(e, v)
  BY <1>1 DEF IsAdmin
<1> QED
  BY <1>2

LEMMA RotateTokenApplyStep ==
  ASSUME IInv, NEW r \in Request, RotateTokenApply(r)
  PROVE  IInv'
<1> DEFINE u == req[r].target
           m == NewMaterial(req[r].key)
           row == [db.users[u] EXCEPT !.material = m]
           d == WithRow(db, u, row)
<1>1. /\ Derived(r, "rotate_token") /\ StillAdmin(r)
      /\ minted < MaxMaterials /\ minted' = minted + 1
      /\ Exists(db, u) /\ u \in UserId /\ db.users[u].role = "service"
      /\ Stage(r, [db EXCEPT !.users[u].material = m], "none")
  BY DEF RotateTokenApply, Exists
<1>2. /\ req[r].phase = "kdf" /\ req[r].key = db.vault.material.key
      /\ MayCommit(req[r].op, req[r].user, req[r].observed)
      /\ IsAdmin(db, req[r].user) /\ req[r].user \in UserId
  BY <1>1, StillAdminFacts DEF AdminOps, IsAdmin
<1>3. m \in Material /\ m.key = db.vault.material.key /\ minted' \in 0..MaxMaterials
  BY <1>1, <1>2, Locals, NewMaterialType
<1> HIDE DEF m
<1>4. db \in Database /\ db.users[u] \in UserRow /\ Sound(db)
  BY <1>1, Locals
<1>5. /\ row \in UserRow /\ row.role = "service" /\ row.material = m
      /\ row.active = db.users[u].active
  BY <1>1, <1>3, <1>4 DEF UserRow
<1>6. Stage(r, d, "none")
  <2>1. [db EXCEPT !.users[u].material = m] = d
    BY <1>4 DEF WithRow, Database
  <2> HIDE DEF d
  <2> QED
    BY <1>1, <2>1
<1>7. db.vault.owner # u
  BY <1>1, <1>4 DEF Sound, Initialized
<1>8. req[r].user # u
  BY <1>1, <1>2 DEF IsAdmin
<1> HIDE DEF row
<1>9. d = WithRow(db, u, row)
  OBVIOUS
<1> HIDE DEF d
<1>10. \E v \in UserId : IsAdmin(d, v)
  BY <1>1, <1>2, <1>4, <1>5, <1>8, <1>9, AdministratorStays
<1>11. /\ d \in Database /\ Sound(d) /\ Succeeds(db, d)
       /\ \A v \in UserId \ {u} : Spared(db, d, v)
  BY <1>1, <1>3, <1>4, <1>5, <1>7, <1>9, <1>10, RowChangeIsSound
<1>12. Spared(db, d, u)
  BY <1>1 DEF Spared, IsPerson
<1> QED
  BY <1>2, <1>3, <1>6, <1>11, <1>12, StageStep DEF Hooks

LEMMA RequirePasswordChangeStep ==
  ASSUME IInv, NEW r \in Request, RequirePasswordChange(r)
  PROVE  IInv'
<1> DEFINE u == req[r].target
           row == [db.users[u] EXCEPT !.must_change = TRUE]
           d == WithRow(db, u, row)
<1>1. /\ AsAdmin(r, "require_change") /\ minted' = minted
      /\ Exists(db, u) /\ u \in UserId
      /\ Stage(r, [db EXCEPT !.users[u].must_change = TRUE], "none")
  BY DEF RequirePasswordChange, AsAdminOn, Exists
<1>2. /\ req[r].phase = "resolved"
      /\ MayCommit(req[r].op, req[r].user, req[r].observed)
      /\ IsAdmin(db, req[r].user) /\ req[r].user \in UserId
  BY <1>1, AdminFacts DEF AdminOps
<1>4. db \in Database /\ db.users[u] \in UserRow /\ Sound(db)
      /\ minted' \in 0..MaxMaterials
  BY <1>1, Locals
<1>5. /\ row \in UserRow /\ row.role = db.users[u].role
      /\ row.material = db.users[u].material
      /\ row.active = db.users[u].active
  BY <1>4 DEF UserRow
<1>6. Stage(r, d, "none")
  <2>1. [db EXCEPT !.users[u].must_change = TRUE] = d
    BY <1>4 DEF WithRow, Database
  <2> HIDE DEF d
  <2> QED
    BY <1>1, <2>1
<1> HIDE DEF row
<1>9. d = WithRow(db, u, row)
  OBVIOUS
<1> HIDE DEF d
<1>10. \E v \in UserId : IsAdmin(d, v)
  <2>1. req[r].user = u => row.active /\ row.role = "admin"
    BY <1>2, <1>5 DEF IsAdmin
  <2> QED
    BY <1>1, <1>2, <1>4, <1>5, <1>9, <2>1, AdministratorStays
<1>11. db.users[u].material.key = db.vault.material.key
  BY <1>1, <1>4 DEF Sound
<1>12. row.role # "none"
  BY <1>1, <1>5 DEF Exists
<1>13. /\ d \in Database /\ Sound(d) /\ Succeeds(db, d)
       /\ \A v \in UserId \ {u} : Spared(db, d, v)
  BY <1>1, <1>4, <1>5, <1>9, <1>10, <1>11, <1>12, RowChangeIsSound
<1>14. d.users[u] = row
  BY <1>1, <1>4, <1>5, <1>9, RowReplaced
<1>15. Spared(db, d, u)
  BY <1>5, <1>14 DEF Spared, IsPerson, Exists
<1> QED
  BY <1>2, <1>4, <1>6, <1>13, <1>15, StageStep DEF Hooks

LEMMA DeleteUserStep ==
  ASSUME IInv, NEW r \in Request, DeleteUser(r)
  PROVE  IInv'
<1> DEFINE u == req[r].target
           d == WithRow(db, u, NoRow)
<1>1. /\ AsAdmin(r, "delete_user") /\ minted' = minted
      /\ Exists(db, u) /\ u \in UserId
      /\ u # req[r].user /\ db.vault.owner # u
      /\ Stage(r, d, "revoke_user")
  BY DEF DeleteUser, AsAdminOn, Exists, WithRow
<1>2. /\ req[r].phase = "resolved"
      /\ MayCommit(req[r].op, req[r].user, req[r].observed)
      /\ IsAdmin(db, req[r].user) /\ req[r].user \in UserId
      /\ HookTarget(r) = u
  BY <1>1, AdminFacts DEF AdminOps
<1>3. db \in Database /\ Sound(db) /\ minted' \in 0..MaxMaterials
  BY <1>1, Locals
<1>4. NoRow \in UserRow /\ NoRow.role = "none"
  BY DEF NoRow, UserRow, NoUser, NoMaterial, Material
<1>5. d = WithRow(db, u, NoRow)
  OBVIOUS
<1> HIDE DEF d
<1>6. \E v \in UserId : IsAdmin(d, v)
  BY <1>1, <1>2, <1>3, <1>4, <1>5, AdministratorStays
<1>7. /\ d \in Database /\ Sound(d) /\ Succeeds(db, d)
      /\ \A v \in UserId \ {u} : Spared(db, d, v)
  BY <1>1, <1>3, <1>4, <1>5, <1>6, RowChangeIsSound
<1> QED
  BY <1>1, <1>2, <1>3, <1>7, StageStep DEF Hooks

\* update_user(): demoting or disabling somebody who is the last administrator
\* is refused, and whoever loses something is revoked.
LEMMA UpdateUserStep ==
  ASSUME IInv, NEW r \in Request, UpdateUser(r)
  PROVE  IInv'
<1> DEFINE u == req[r].target
           old == db.users[u]
           row == Updated(old, req[r].role, req[r].active)
           d == WithRow(db, u, row)
           hook == IF req[r].role # "keep" \/ req[r].active = "no"
                   THEN "revoke_user" ELSE "none"
<1>1. /\ AsAdmin(r, "update_user") /\ minted' = minted
      /\ Exists(db, u) /\ u \in UserId
      /\ (old.role = "service") <=> (row.role = "service")
      /\ (old.active /\ old.role = "admin"
            /\ (req[r].active = "no" \/ row.role # "admin"))
           => OtherAdmins(db, u) # {}
      /\ Stage(r, d, hook)
  BY DEF UpdateUser, AsAdminOn, Exists, WithRow
<1>2. /\ req[r].phase = "resolved"
      /\ MayCommit(req[r].op, req[r].user, req[r].observed)
      /\ IsAdmin(db, req[r].user) /\ req[r].user \in UserId
      /\ HookTarget(r) = u
  BY <1>1, AdminFacts DEF AdminOps
<1>3. /\ db \in Database /\ Sound(db) /\ minted' \in 0..MaxMaterials
      /\ old \in UserRow /\ old.role # "none"
      /\ req[r].role \in Roles \union {"keep"}
      /\ req[r].active \in {"keep", "yes", "no"}
  BY <1>1, Locals DEF Exists
<1>4. /\ row \in UserRow /\ row.material = old.material
      /\ row.role = IF req[r].role = "keep" THEN old.role ELSE req[r].role
      /\ row.active = IF req[r].active = "keep" THEN old.active
                      ELSE req[r].active = "yes"
  BY <1>3 DEF Updated, UserRow
<1>5. row.role # "none"
  BY <1>3, <1>4 DEF Roles
<1>6. hook \in Hooks
  BY DEF Hooks
<1>7. d = WithRow(db, u, row)
  OBVIOUS
<1> HIDE DEF row, d
<1>8. \E v \in UserId : IsAdmin(d, v)
  <2>1. CASE OtherAdmins(db, u) # {}
    <3>1. PICK v \in UserId : IsAdmin(db, v) /\ v # u
      BY <2>1 DEF OtherAdmins
    <3> QED
      BY <1>1, <1>3, <1>4, <1>7, <3>1, AdministratorStays
  <2>2. CASE OtherAdmins(db, u) = {}
    <3>1. req[r].user = u
      BY <1>2, <2>2 DEF OtherAdmins
    <3>2. old.active /\ old.role = "admin"
      BY <1>2, <3>1 DEF IsAdmin
    <3>3. req[r].active # "no" /\ row.role = "admin"
      BY <1>1, <2>2, <3>2
    <3>4. row.active
      BY <1>3, <1>4, <3>2, <3>3
    <3> QED
      BY <1>1, <1>2, <1>3, <1>4, <1>7, <3>3, <3>4, AdministratorStays
  <2> QED
    BY <2>1, <2>2
<1>9. old.material.key = db.vault.material.key
  BY <1>1, <1>3 DEF Sound
<1>10. /\ d \in Database /\ Sound(d) /\ Succeeds(db, d)
       /\ \A v \in UserId \ {u} : Spared(db, d, v)
  BY <1>1, <1>3, <1>4, <1>5, <1>7, <1>8, <1>9, RowChangeIsSound
<1>11. d.users[u] = row
  BY <1>1, <1>3, <1>4, <1>7, RowReplaced
<1>12. hook = "none" => Spared(db, d, u)
  <2> SUFFICES ASSUME hook = "none" PROVE Spared(db, d, u)
    OBVIOUS
  <2>1. req[r].role = "keep" /\ req[r].active # "no"
    OBVIOUS
  <2>2. row.role = old.role /\ (old.active => row.active)
    BY <1>3, <1>4, <2>1
  <2> QED
    BY <1>4, <1>11, <2>2 DEF Spared, IsPerson, Exists
<1> HIDE DEF hook
<1> QED
  BY <1>1, <1>2, <1>3, <1>6, <1>10, <1>12, StageStep

\* Requests arrive, in every combination the routes allow.
LEMMA ArrivalSteps ==
  ASSUME IInv, NEW r \in Request, Arrivals(r)
  PROVE  IInv'
<1>1. NoUser \in 0..MaxUsers /\ UserId \subseteq 0..MaxUsers
  BY DEF NoUser, UserId
<1>2. CASE \/ Arrive(r, "bootstrap", NoUser) \/ Arrive(r, "unlock", NoUser)
           \/ \E u \in UserId : Arrive(r, "login", u) \/ Arrive(r, "mcp", u)
  BY <1>1, <1>2, ArriveStep
<1>3. ASSUME NEW t \in Token, NEW op \in SessionOps, NEW u \in 0..MaxUsers,
             NEW role \in Roles \union {"keep"},
             NEW active \in {"keep", "yes", "no"},
             ArriveWithSession(r, op, t, u, role, active, FALSE),
             op = "create_user" => role \in Roles
      PROVE  IInv'
  <2>1. PICK opens \in BOOLEAN : opens = FALSE
    OBVIOUS
  <2>2. ArriveWithSession(r, op, t, u, role, active, opens)
    BY <1>3, <2>1, Zenon
  <2>3. op = "create_user" => role \in Roles
    BY <1>3
  <2> HIDE <1>3
  <2> QED
    BY <2>2, <2>3, ArriveWithSessionStep
<1>4. ASSUME NEW t \in Token,
             ArriveWithSession(r, "write", t, NoUser, "keep", "keep", FALSE)
      PROVE  IInv'
  BY <1>1, <1>3, <1>4, Zenon DEF SessionOps
<1>5. ASSUME NEW t \in Token, NEW opens \in BOOLEAN,
             ArriveWithSession(r, "change_password", t, NoUser, "keep", "keep",
                               opens)
      PROVE  IInv'
  BY <1>1, <1>5, ArriveWithSessionStep DEF SessionOps
<1>6. ASSUME NEW t \in Token, NEW role \in Roles,
             ArriveWithSession(r, "create_user", t, NoUser, role, "keep", FALSE)
      PROVE  IInv'
  BY <1>1, <1>3, <1>6, Zenon DEF SessionOps
<1>7. ASSUME NEW t \in Token, NEW u \in UserId,
             NEW op \in {"revoke_sessions", "require_change", "rotate_token",
                         "reset_password", "delete_user"},
             ArriveWithSession(r, op, t, u, "keep", "keep", FALSE)
      PROVE  IInv'
  <2>1. op \in SessionOps /\ op # "create_user" /\ u \in 0..MaxUsers
    BY <1>1 DEF SessionOps
  <2>2. "keep" \in Roles \union {"keep"} /\ "keep" \in {"keep", "yes", "no"}
    OBVIOUS
  <2> QED
    BY <1>3, <1>7, <2>1, <2>2, Zenon
<1>8. ASSUME NEW t \in Token, NEW u \in UserId, NEW p \in UpdatePayloads,
             ArriveWithSession(r, "update_user", t, u, p[1], p[2], FALSE)
      PROVE  IInv'
  <2>1. /\ p[1] \in Roles \union {"keep"} /\ p[2] \in {"keep", "yes", "no"}
        /\ "update_user" \in SessionOps /\ "update_user" # "create_user"
        /\ u \in 0..MaxUsers
    BY <1>1 DEF Roles, SessionOps
  <2> QED
    BY <1>3, <1>8, <2>1, Zenon
<1> QED
  BY <1>2, <1>4, <1>5, <1>6, <1>7, <1>8, Zenon DEF Arrivals

\* Every step of every request, the end of a session and a restart keep the
\* invariant.
LEMMA NextIInv == IInv /\ [Next]_vars => IInv'
<1> SUFFICES ASSUME IInv, [Next]_vars PROVE IInv'
  OBVIOUS
<1>1. CASE UNCHANGED vars
  <2>1. /\ db' = db /\ lock' = lock /\ staged' = staged /\ minted' = minted
        /\ sessions' = sessions /\ opened' = opened
        /\ delivered' = delivered /\ req' = req
    BY <1>1 DEF vars
  <2>2. TypeOK' /\ LockIsHeld' /\ FreshTokens'
    BY <2>1 DEF IInv, TypeOK, LockIsHeld, FreshTokens
  <2>3. Sound(db)' /\ Sound(staged)' /\ Succeeds(db, staged)'
    BY <2>1 DEF IInv, Sound, Succeeds, Initialized, Exists, VaultIsCanonical,
      IsAdmin
  <2>4. \A r \in Request : RowOK(req[r], db)'
    BY <2>1 DEF IInv, RowOK
  <2>5. CommitsAreAuthorized' /\ NoOrphanSessions'
    BY <2>1 DEF IInv, CommitsAreAuthorized, IsAdmin, Exists, NoOrphanSessions,
      IsLive
  <2>6. StagedSpares'
    BY <2>1 DEF IInv, StagedSpares, Revokes, HookTarget, Spared, IsPerson, Exists
  <2>7. StagedSessionsFit'
    BY <2>1 DEF IInv, StagedSessionsFit, IsLive, IsPerson, Exists
  <2>8. Doomed'
    <3>1. \A t \in Token : Stale(t)' => Stale(t)
      BY <2>1 DEF Stale, IsLive, IsPerson, Exists
    <3>2. \A r \in Request, t \in Token : t \in Revoked(r) => t \in Revoked(r)'
      BY <2>1, <2>2, WhoIsRevoked, WhoIsRevokedNext DEF IInv, Revokes, HookTarget
    <3> QED
      BY <2>1, <3>1, <3>2 DEF IInv, Doomed
  <2> QED
    BY <2>2, <2>3, <2>4, <2>5, <2>6, <2>7, <2>8 DEF IInv
<1>2. ASSUME NEW r \in Request, Arrivals(r) PROVE IInv'
  BY <1>2, ArrivalSteps
<1>3. ASSUME NEW r \in Request, Serve(r) PROVE IInv'
  BY <1>3, ObserveSteps, QuietSteps, PlainWriteSteps, LoginOpenStep,
    BootstrapNewStep, BootstrapLegacyStep, UnlockOpenStep, ChangePasswordApplyStep,
    CreateUserApplyStep, RotateTokenApplyStep, ResetPasswordApplyStep,
    RequirePasswordChangeStep, UpdateUserStep, DeleteUserStep, CommitStep,
    RollbackStep, Zenon DEF Serve
<1>4. ASSUME NEW t \in Token, SessionEnds(t) PROVE IInv'
  BY <1>4, SessionEndsStep
<1>5. CASE Restart
  BY <1>5, RestartStep
<1> QED
  BY <1>1, <1>2, <1>3, <1>4, <1>5 DEF Next

LEMMA Invariance == Spec => []IInv
BY InitIInv, NextIInv, PTL DEF Spec

-----------------------------------------------------------------------------
(***************************************************************************)
(* The theorems.                                                           *)
(***************************************************************************)
\* However many people change or reset passwords at once, the vault row repeats
\* its owner's material, so that everybody can still sign in
\* (auth.py:validate_vault_material).
THEOREM VaultAlwaysMatches == Spec => []VaultMatchesOwner
<1>1. IInv => VaultMatchesOwner
  BY DEF IInv, Sound, VaultMatchesOwner
<1> QED
  BY <1>1, Invariance, PTL

\* Every account wraps the one vault key, after any number of derivations, each
\* begun before and applied after those of others (VAULT_FORMAT.md:73).
THEOREM AlwaysOneVaultKey == Spec => []OneVaultKey
<1>1. IInv => OneVaultKey
  BY DEF IInv, Sound, OneVaultKey
<1> QED
  BY <1>1, Invariance, PTL

\* There is always an active administrator, for any number of administrators
\* working against each other (auth.py:update_user, :delete_user).
THEOREM AlwaysAnAdministrator == Spec => []SomeAdministrator
<1>1. IInv => SomeAdministrator
  BY DEF IInv, Sound, SomeAdministrator
<1> QED
  BY <1>1, Invariance, PTL

\* No request commits for an account that lost its rights, or changed its
\* credentials, since they were checked (VAULT_FORMAT.md:69).
THEOREM CommitsAuthorized == Spec => []CommitsAreAuthorized
<1>1. IInv => CommitsAreAuthorized
  BY DEF IInv
<1> QED
  BY <1>1, Invariance, PTL

\* A request that fails at its commit leaves no session that nobody holds
\* (auth.py:_open_session, engine.py:after_rollback).
THEOREM NeverAnOrphan == Spec => []NoOrphanSessions
<1>1. IInv => NoOrphanSessions
  BY DEF IInv
<1> QED
  BY <1>1, Invariance, PTL

\* A session that its account no longer justifies is on its way out: its own
\* request has not committed, or some commit's hook is about to end it
\* (engine.py:after_commit).
THEOREM StaleAreDoomed == Spec => []StaleSessionsAreDoomed
<1>1. IInv => StaleSessionsAreDoomed
  BY DEF IInv, Doomed, StaleSessionsAreDoomed
<1> QED
  BY <1>1, Invariance, PTL

\* All of it together, what administrators who work against each other must not
\* break (auth.py, user administration).
THEOREM AdministrationSafe == Spec => []AdministrationIsSafe
<1>1. IInv => AdministrationIsSafe
  BY DEF IInv, AdministrationIsSafe, Sound, VaultMatchesOwner, SomeAdministrator,
    Doomed, StaleSessionsAreDoomed
<1> QED
  BY <1>1, Invariance, PTL

-----------------------------------------------------------------------------
(***************************************************************************)
(* The sessions implement the abstract store.                              *)
(***************************************************************************)
Live == {t \in Token : sessions[t] # NoSession}

\* Sessions end, or nothing happens to them.
LEMMA EndIsStoreStep ==
  ASSUME NEW gone, sessions' = EndedSessions(gone), opened' = opened
  PROVE  Store!Next
<1> DEFINE g == gone \intersect Token
           Account == [t \in Live |-> sessions[t].user]
<1>1. \A t \in Token : sessions'[t] = IF t \in gone THEN NoSession ELSE sessions[t]
  BY DEF EndedSessions
<1>2. Live' = Live \ g
  BY <1>1 DEF Live
<1>3. Account' = [t \in Live \ g |-> Account[t]]
  <2>1. \A t \in Live \ g : sessions'[t].user = Account[t]
    BY <1>1 DEF Live
  <2> QED
    BY <1>2, <2>1
<1>4. Store!End(g)
  BY <1>3 DEF Store!End, Live
<1> QED
  BY <1>4 DEF Store!Next

\* A session is opened, with a token that was not given out before.
LEMMA OpenIsStoreStep ==
  ASSUME IInv, NEW row, row.user \in UserId, opened < MaxTokens,
         sessions' = [sessions EXCEPT ![opened + 1] = row],
         opened' = opened + 1
  PROVE  Store!Next
<1> DEFINE t == opened + 1
           Account == [s \in Live |-> sessions[s].user]
<1>1. t \in Token /\ opened \in Nat /\ sessions \in [Token -> SessionRow]
  BY DEF IInv, TypeOK, Token
<1>2. sessions'[t] = row /\ \A s \in Token \ {t} : sessions'[s] = sessions[s]
  BY <1>1
<1>3. row # NoSession
  BY DEF NoSession, NoUser, UserId
<1>4. Live' = Live \union {t}
  BY <1>1, <1>2, <1>3 DEF Live
<1>5. t \notin 1..opened /\ 1..(opened + 1) = (1..opened) \union {t}
  BY <1>1
<1>6. Account' = [s \in (Live \ {}) \union {t} |->
                    IF s = t THEN row.user ELSE Account[s]]
  <2>1. \A s \in Live \union {t} :
          sessions'[s].user = IF s = t THEN row.user ELSE Account[s]
    BY <1>2 DEF Live
  <2> QED
    BY <1>4, <2>1
<1>7. Store!Open(t, row.user, {})
  BY <1>5, <1>6 DEF Store!Open, Live
<1>8. t \in Token /\ row.user \in 1..MaxUsers /\ {} \in SUBSET Token
  BY <1>1 DEF UserId
<1> QED
  BY <1>7, <1>8 DEF Store!Next

LEMMA NewSessionIsStoreStep ==
  ASSUME IInv, NEW r, NEW d, NEW u \in UserId, NEW key, NEW hook,
         StageWithSession(r, d, u, key, hook)
  PROVE  Store!Next
<1> DEFINE row == [user |-> u, fingerprint |-> d.users[u].material, key |-> key,
                   via |-> "write"]
<1>1. /\ opened < MaxTokens /\ opened' = opened + 1
      /\ sessions' = [sessions EXCEPT ![opened + 1] = row]
  BY DEF StageWithSession
<1>2. row.user \in UserId
  OBVIOUS
<1> HIDE DEF row
<1> QED
  BY <1>1, <1>2, OpenIsStoreStep

LEMMA NextIsStoreStep ==
  ASSUME IInv, [Next]_vars
  PROVE  [Store!Next]_(Store!vars)
<1>1. sessions = EndedSessions({})
  BY DEF IInv, TypeOK, EndedSessions
<1>2. ASSUME UNCHANGED <<sessions, opened>> PROVE Store!Next
  BY <1>1, <1>2, EndIsStoreStep
<1>3. ASSUME NEW r \in Request, Arrivals(r) PROVE Store!Next
  BY <1>2, <1>3 DEF Arrivals, Arrive, ArriveWithSession
<1>4. ASSUME NEW r \in Request, Serve(r) PROVE Store!Next
  <2>1. CASE ContextEndsSession(r) \/ RunCommitHooks(r) \/ RunRollbackHooks(r)
    BY <2>1, EndIsStoreStep DEF ContextEndsSession, RunCommitHooks, RunRollbackHooks
  <2>2. CASE \/ BootstrapObserve(r) \/ LoginObserve(r) \/ UnlockObserve(r)
             \/ UnlockSnapshot(r) \/ ReadEnds(r) \/ ChangePasswordObserve(r)
             \/ McpObserve(r) \/ CreateUserObserve(r) \/ RotateTokenObserve(r)
             \/ ResetPasswordObserve(r) \/ Commit(r) \/ Rollback(r) \/ Refuse(r)
    BY <1>2, <2>2 DEF BootstrapObserve, LoginObserve, UnlockObserve,
      UnlockSnapshot, ReadEnds, ChangePasswordObserve, McpObserve,
      CreateUserObserve, RotateTokenObserve, ResetPasswordObserve, Commit, Rollback,
      Refuse, Derive
  <2>3. ASSUME NEW d, NEW hook, Stage(r, d, hook) PROVE Store!Next
    BY <1>2, <2>3 DEF Stage
  <2>4. CASE \/ EntryWrite(r) \/ McpWrite(r) \/ CreateUserApply(r)
             \/ RotateTokenApply(r) \/ ResetPasswordApply(r)
             \/ RequirePasswordChange(r) \/ RevokeUserSessions(r)
             \/ UpdateUser(r) \/ DeleteUser(r)
    BY <2>3, <2>4, Zenon DEF EntryWrite, McpWrite, CreateUserApply, RotateTokenApply,
      ResetPasswordApply, RequirePasswordChange, RevokeUserSessions, UpdateUser,
      DeleteUser
  <2>5. CASE BootstrapNew(r) \/ BootstrapLegacy(r)
    <3>1. ~Initialized(db)
      BY <2>5 DEF BootstrapNew, BootstrapLegacy
    <3>2. db.next \in UserId
      BY <3>1 DEF IInv, Sound, UserId
    <3> QED
      BY <2>5, <3>2, NewSessionIsStoreStep, Zenon DEF BootstrapNew, BootstrapLegacy
  <2>6. CASE LoginOpen(r)
    BY <2>6, NewSessionIsStoreStep DEF LoginOpen, StillThatLogin, IsPerson, Exists
  <2>7. CASE UnlockOpen(r)
    <3> DEFINE row == [user |-> req[r].user, fingerprint |-> req[r].observed,
                       key |-> req[r].key, via |-> "read"]
    <3>1. /\ opened < MaxTokens /\ opened' = opened + 1
          /\ sessions' = [sessions EXCEPT ![opened + 1] = row]
      BY <2>7 DEF UnlockOpen
    <3>2. row.user \in UserId
      BY <2>7 DEF UnlockOpen, IInv, RowOK
    <3> HIDE DEF row
    <3> QED
      BY <3>1, <3>2, OpenIsStoreStep
  <2>8. CASE ChangePasswordApply(r)
    <3>1. req[r].user \in UserId
      BY <2>8 DEF ChangePasswordApply, StillThatAccount, Exists
    <3> QED
      BY <2>3, <2>8, <3>1, NewSessionIsStoreStep, Zenon DEF ChangePasswordApply
  <2> QED
    BY <1>4, <2>1, <2>2, <2>4, <2>5, <2>6, <2>7, <2>8 DEF Serve
<1>5. ASSUME NEW t \in Token, SessionEnds(t) PROVE Store!Next
  BY <1>5, EndIsStoreStep DEF SessionEnds
<1>6. CASE Restart
  <2>1. sessions' = EndedSessions(Token)
    BY <1>6 DEF Restart, EndedSessions
  <2> QED
    BY <1>6, <2>1, EndIsStoreStep DEF Restart
<1>7. CASE UNCHANGED vars
  BY <1>2, <1>7 DEF vars
<1> QED
  BY <1>3, <1>4, <1>5, <1>6, <1>7 DEF Next

\* The sessions are those of the abstract store, however the requests interleave:
\* a token is given to one account once, and an ended session never comes back
\* (auth.py:_open_session).
THEOREM SessionsRefineStore == Spec => SessionsAreAStore
<1>1. Init => Store!Init
  <2> SUFFICES ASSUME Init PROVE Store!Init
    OBVIOUS
  <2>1. Live = {} /\ 1..opened = {}
    BY DEF Init, Live
  <2> QED
    BY <2>1 DEF Store!Init, Live
<1>2. IInv /\ [Next]_vars => [Store!Next]_(Store!vars)
  BY NextIsStoreStep
<1> QED
  BY <1>1, <1>2, Invariance, PTL DEF Spec, SessionsAreAStore, Store!Spec
=============================================================================
