----------------------------- MODULE IdleSetting -----------------------------
(***************************************************************************)
(* The inactivity timeout lives twice: as a row of the database            *)
(* (backend/crud/settings.py) and as the number VaultSessions enforces.    *)
(* The second follows the first along two ways: update_settings() sets it  *)
(* in an after_commit hook, and everything that opens a session reads the  *)
(* row again and sets it on the spot (auth.py:_refresh_timeout).           *)
(*                                                                         *)
(* Requests that write hold the write lock from their first statement to   *)
(* the commit.  /unlock does not: it reads a snapshot of the database.     *)
(***************************************************************************)
EXTENDS Naturals

CONSTANTS
  Request,   \* requests being served at the same time
  Timeouts,  \* what the setting can be
  Default,   \* SETTINGS_DEFAULTS["inactivity_ms"]
  Ops        \* the operations the clients ask for

ASSUME IdleAssumption ==
  /\ Timeouts \subseteq Nat \ {0}
  /\ Default \in Timeouts

VARIABLES
  stored,     \* the committed row, or NoRow before the first change
  committed,  \* every value the row ever had
  timeout,    \* VaultSessions._idle_timeout_ms
  sessions,   \* the requests whose last opened session is still open
  lock,       \* the request that holds SQLite's write lock
  req         \* the requests

vars == <<stored, committed, timeout, sessions, lock, req>>

NoRow == 0
NoRequest == "nobody"
Idle == [op |-> "none", phase |-> "idle", value |-> NoRow]

\* Mutant: no default while the row is missing.
EffectiveRow(row) == row

\* inactivity_ms(): without a row, the default.
Effective(row) == IF row = NoRow THEN Default ELSE row

\* The answer with the token went out.
Delivered(s) == ~(req[s].op = "login" /\ req[s].phase \in {"staged", "committed"})

-----------------------------------------------------------------------------
Arrive(r, op, value) ==
  /\ req[r] = Idle
  /\ op \in Ops
  /\ op = "update" => \E s \in sessions : Delivered(s)
  /\ req' = [req EXCEPT ![r] =
              [op |-> op, phase |-> "arrived", value |-> value]]
  /\ UNCHANGED <<stored, committed, timeout, sessions, lock>>

\* Mutant: the new timeout is enforced before it is committed.
UpdateSettingsAtOnce(r) ==
  /\ req[r].op = "update" /\ req[r].phase = "arrived"
  /\ lock = NoRequest
  /\ lock' = r
  /\ timeout' = req[r].value
  /\ req' = [req EXCEPT ![r].phase = "staged"]
  /\ UNCHANGED <<stored, committed, sessions>>

\* update_settings(), of PATCH /settings and of a restore into an empty vault.
UpdateSettings(r) ==
  /\ req[r].op = "update" /\ req[r].phase = "arrived"
  /\ lock = NoRequest
  /\ lock' = r
  /\ req' = [req EXCEPT ![r].phase = "staged"]
  /\ UNCHANGED <<stored, committed, timeout, sessions>>

\* login(), bootstrap() and change_password(): _refresh_timeout() and
\* _open_session() in the transaction that holds the lock.
Login(r) ==
  /\ req[r].op = "login" /\ req[r].phase = "arrived"
  /\ lock = NoRequest
  /\ lock' = r
  /\ timeout' = Effective(stored)
  /\ sessions' = sessions \union {r}
  /\ req' = [req EXCEPT ![r].phase = "staged"]
  /\ UNCHANGED <<stored, committed>>

Commit(r) ==
  /\ req[r].phase = "staged"
  /\ lock' = NoRequest
  /\ stored' = IF req[r].op = "update" THEN req[r].value ELSE stored
  /\ committed' = committed \union {Effective(stored')}
  /\ req' = [req EXCEPT ![r].phase = "committed"]
  /\ UNCHANGED <<timeout, sessions>>

\* With the after_rollback hook: the session opened in advance is revoked.  The
\* timeout it set stays.
Rollback(r) ==
  /\ req[r].phase = "staged"
  /\ lock' = NoRequest
  /\ sessions' = IF req[r].op = "login" THEN sessions \ {r} ELSE sessions
  /\ req' = [req EXCEPT ![r] = Idle]
  /\ UNCHANGED <<stored, committed, timeout>>

\* The after_commit hook.
RunCommitHooks(r) ==
  /\ req[r].phase = "committed"
  /\ timeout' = IF req[r].op = "update" THEN req[r].value ELSE timeout
  /\ req' = [req EXCEPT ![r] = Idle]
  /\ UNCHANGED <<stored, committed, sessions, lock>>

\* The read transaction of /unlock begins: the row it will see is decided.
UnlockSnapshot(r) ==
  /\ req[r].op = "unlock" /\ req[r].phase = "arrived"
  /\ req' = [req EXCEPT ![r].phase = "snapshot",
                        ![r].value = Effective(stored)]
  /\ UNCHANGED <<stored, committed, timeout, sessions, lock>>

UnlockOpen(r) ==
  /\ req[r].op = "unlock" /\ req[r].phase = "snapshot"
  /\ timeout' = req[r].value
  /\ sessions' = sessions \union {r}
  /\ req' = [req EXCEPT ![r] = Idle]
  /\ UNCHANGED <<stored, committed, lock>>

\* Any error before the transaction did something.
Refuse(r) ==
  /\ req[r].phase \in {"arrived", "snapshot"}
  /\ req' = [req EXCEPT ![r] = Idle]
  /\ UNCHANGED <<stored, committed, timeout, sessions, lock>>

\* A session is locked, revoked or expires.
SessionEnds(r) ==
  /\ r \in sessions
  /\ sessions' = sessions \ {r}
  /\ UNCHANGED <<stored, committed, timeout, lock, req>>

\* A new process starts from the default, whatever is stored (main.py:93).
Restart ==
  /\ timeout' = Default
  /\ sessions' = {}
  /\ lock' = NoRequest
  /\ req' = [r \in Request |-> Idle]
  /\ UNCHANGED <<stored, committed>>

Init ==
  /\ stored = NoRow
  /\ committed = {Default}
  /\ timeout = Default
  /\ sessions = {}
  /\ lock = NoRequest
  /\ req = [r \in Request |-> Idle]

Next ==
  \/ \E r \in Request :
       \/ Arrive(r, "login", NoRow)
       \/ Arrive(r, "unlock", NoRow)
       \/ \E v \in Timeouts : Arrive(r, "update", v)
       \/ UpdateSettings(r) \/ Login(r)
       \/ Commit(r) \/ Rollback(r) \/ RunCommitHooks(r)
       \/ UnlockSnapshot(r) \/ UnlockOpen(r)
       \/ Refuse(r) \/ SessionEnds(r)
  \/ Restart

Spec == Init /\ [][Next]_vars

-----------------------------------------------------------------------------
\* The stored row, the number in memory and the requests are well formed
\* (settings.py:update_settings, vault_sessions.py:set_idle_timeout).
TypeOK ==
  /\ stored \in Timeouts \union {NoRow}
  /\ committed \subseteq Timeouts
  /\ timeout \in Timeouts
  /\ sessions \subseteq Request
  /\ lock \in Request \union {NoRequest}
  /\ req \in [Request -> [op : {"none", "update", "login", "unlock"},
                         phase : {"idle", "arrived", "staged", "snapshot",
                                  "committed"},
                         value : Timeouts \union {NoRow}]]

\* The enforced timeout never gets ahead of the database, whatever rolls back
\* and in whatever order requests finish: it is a value some commit wrote
\* (engine.py:after_commit).
NotAheadOfDatabase == timeout \in committed

\* The row, the number in memory and the requests are well formed, and the
\* number is one that was committed.
TimeoutIsSound == TypeOK /\ NotAheadOfDatabase
=============================================================================
