-------------------------- MODULE IdleSettingProofs --------------------------
(***************************************************************************)
(* That the enforced inactivity timeout is always one that was committed,  *)
(* for any number of requests and any set of timeouts.                     *)
(***************************************************************************)
EXTENDS IdleSetting, TLAPS

\* What a request is going to enforce: an update still has a timeout to write,
\* its hook enforces what was committed, and so does an unlock on its snapshot.
PromisesAreKept ==
  \A r \in Request :
    /\ req[r].op = "update" => req[r].value \in Timeouts
    /\ req[r].op = "update" /\ req[r].phase = "committed" =>
         req[r].value \in committed
    /\ req[r].phase = "snapshot" => req[r].value \in committed

IInv ==
  /\ TypeOK
  /\ NotAheadOfDatabase
  /\ Default \in committed
  /\ Effective(stored) \in committed
  /\ PromisesAreKept

-----------------------------------------------------------------------------
\* The first state, before anybody changed the setting (settings.py).
LEMMA InitIInv == Init => IInv
BY IdleAssumption DEF Init, IInv, TypeOK, NotAheadOfDatabase, PromisesAreKept,
  Effective, Idle, NoRow, NoRequest

\* One step of any request, or a restart of the process, keeps the invariant.
LEMMA NextIInv == IInv /\ [Next]_vars => IInv'
<1> SUFFICES ASSUME IInv, [Next]_vars PROVE IInv'
  OBVIOUS
<1> USE IdleAssumption DEF IInv, TypeOK, NotAheadOfDatabase, PromisesAreKept,
      NoRow, NoRequest
<1>1. ASSUME NEW r \in Request, NEW op \in {"login", "unlock"}, Arrive(r, op, NoRow)
      PROVE  IInv'
  BY <1>1 DEF Arrive, Effective
<1>2. ASSUME NEW r \in Request, NEW v \in Timeouts, Arrive(r, "update", v)
      PROVE  IInv'
  BY <1>2 DEF Arrive, Effective
<1>3. ASSUME NEW r \in Request, UpdateSettings(r) PROVE IInv'
  BY <1>3 DEF UpdateSettings, Effective
<1>4. ASSUME NEW r \in Request, Login(r) PROVE IInv'
  BY <1>4 DEF Login, Effective
<1>5. ASSUME NEW r \in Request, Commit(r) PROVE IInv'
  BY <1>5 DEF Commit, Effective
<1>6. ASSUME NEW r \in Request, Rollback(r) PROVE IInv'
  BY <1>6 DEF Rollback, Effective, Idle
<1>7. ASSUME NEW r \in Request, RunCommitHooks(r) PROVE IInv'
  BY <1>7 DEF RunCommitHooks, Effective, Idle
<1>8. ASSUME NEW r \in Request, UnlockSnapshot(r) PROVE IInv'
  BY <1>8 DEF UnlockSnapshot, Effective
<1>9. ASSUME NEW r \in Request, UnlockOpen(r) PROVE IInv'
  BY <1>9 DEF UnlockOpen, Effective, Idle
<1>10. ASSUME NEW r \in Request, Refuse(r) PROVE IInv'
  BY <1>10 DEF Refuse, Effective, Idle
<1>11. ASSUME NEW r \in Request, SessionEnds(r) PROVE IInv'
  BY <1>11 DEF SessionEnds, Effective
<1>12. CASE Restart
  BY <1>12 DEF Restart, Effective, Idle
<1>13. CASE UNCHANGED vars
  BY <1>13 DEF vars, Effective
<1>14. QED
  BY <1>1, <1>2, <1>3, <1>4, <1>5, <1>6, <1>7, <1>8, <1>9, <1>10, <1>11,
     <1>12, <1>13 DEF Next

\* The setting, the number in memory and the requests stay well formed, and the
\* number VaultSessions enforces never gets ahead of the database, whatever is
\* rolled back, overtaken on a snapshot or restarted (auth.py:_refresh_timeout,
\* engine.py:after_commit).
THEOREM TimeoutSound == Spec => []TimeoutIsSound
<1>1. IInv => TimeoutIsSound
  BY DEF IInv, TimeoutIsSound
<1>2. QED
  BY <1>1, InitIInv, NextIInv, PTL DEF Spec
=============================================================================
