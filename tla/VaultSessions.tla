---------------------------- MODULE VaultSessions ----------------------------
(***************************************************************************)
(* The store of unlocked sessions of the one process that serves the vault *)
(* (backend/vault_sessions.py).  It maps the digest of a bearer token to   *)
(* the vault key unwrapped at unlock; here a token stands for its digest   *)
(* and the key, which no operation of the store looks at, is left out.     *)
(*                                                                         *)
(* Every method runs without suspension on the event loop of the process   *)
(* and reads the clock once, so one method call is one step.  Time passes  *)
(* between the calls only.                                                 *)
(***************************************************************************)
EXTENDS Integers, FiniteSets

CONSTANTS
  Token,         \* the tokens that secrets.token_urlsafe can return
  User,          \* account ids
  MaxSessions,   \* max_sessions: 32 in server mode, 1 in the desktop core
  IdleTimeouts,  \* the values the inactivity setting can take
  Tolerance,     \* EXPIRY_TOLERANCE_MS
  MaxLifetime,   \* MAX_LIFETIME_MS
  MaxClock       \* bound of the model: the last instant of either clock

ASSUME SessionsAssumption ==
  /\ MaxSessions \in Nat \ {0}
  /\ IdleTimeouts \subseteq Nat
  /\ Tolerance \in Nat
  /\ MaxLifetime \in Nat
  /\ MaxClock \in Nat

VARIABLES
  clock,         \* the two system clocks, one Instant
  idle_timeout,  \* _idle_timeout_ms
  sessions,      \* _sessions, the OrderedDict
  issued         \* every token handed out so far

vars == <<clock, idle_timeout, sessions, issued>>

(***************************************************************************)
(* Time.  The monotonic clock stops while the machine sleeps; the wall     *)
(* clock can be set.                                                       *)
(***************************************************************************)
Instant == [monotonic : 0..MaxClock, wall : 0..MaxClock]

\* Mutant: only the wall clock is read.
MsSinceWallOnly(now, earlier) == now.wall - earlier.wall

MsSince(now, earlier) ==
  LET mono == now.monotonic - earlier.monotonic
      wall == now.wall - earlier.wall
  IN  IF mono >= wall THEN mono ELSE wall

(***************************************************************************)
(* The dictionary.  The position of an entry in the OrderedDict is given   *)
(* by the set of the tokens ahead of it: the next one to evict has nothing *)
(* ahead.                                                                  *)
(***************************************************************************)
Session == [user : User, created : Instant, last_used : Instant,
            ahead : SUBSET Token]

Live == DOMAIN sessions

\* Mutant: a deleted entry stays in the order of the others.
WithoutUnlinking(dict, gone) == [t \in DOMAIN dict \ gone |-> dict[t]]

Without(dict, gone) ==
  [t \in DOMAIN dict \ gone |-> [dict[t] EXCEPT !.ahead = @ \ gone]]

\* Mutant: activity does not move the session to the end.
StaysInPlace(dict, t) == dict

MoveToEnd(dict, t) ==
  [s \in DOMAIN dict |->
     [dict[s] EXCEPT !.ahead = IF s = t THEN DOMAIN dict \ {t} ELSE @ \ {t}]]

Remaining(session, idle, now) ==
  LET byIdle == idle + Tolerance - MsSince(now, session.last_used)
      byLife == MaxLifetime - MsSince(now, session.created)
  IN  IF byIdle <= byLife THEN byIdle ELSE byLife

IsExpired(t) == Remaining(sessions[t], idle_timeout, clock) <= 0

Expired == {t \in Live : IsExpired(t)}

Unexpired == Without(sessions, Expired)

\* Mutant: > for >= in the loop's condition.
EvictedTooLate(dict) ==
  IF Cardinality(DOMAIN dict) <= MaxSessions
  THEN {} ELSE {t \in DOMAIN dict : dict[t].ahead = {}}

\* The popitem(last=False) loop of open().  No more than MaxSessions are ever
\* there (SessionsBounded), so the loop removes at most one.
Evicted(dict) ==
  IF Cardinality(DOMAIN dict) < MaxSessions
  THEN {} ELSE {t \in DOMAIN dict : dict[t].ahead = {}}

Inserted(dict, t, u) ==
  [s \in DOMAIN dict \union {t} |->
     IF s = t THEN [user |-> u, created |-> clock, last_used |-> clock,
                    ahead |-> DOMAIN dict \ {t}]
              ELSE dict[s]]

-----------------------------------------------------------------------------
(***************************************************************************)
(* The operations.                                                         *)
(***************************************************************************)
\* Mutant: the sessions that ended under the old timeout are not dropped.
SetIdleTimeoutOnly(ms) ==
  /\ idle_timeout' = ms
  /\ UNCHANGED <<clock, issued, sessions>>

SetIdleTimeout(ms) ==
  /\ sessions' = Unexpired
  /\ idle_timeout' = ms
  /\ UNCHANGED <<clock, issued>>

\* Mutant: the least recently used session goes before the expired ones.
OpenWithoutDrop(t, u) ==
  /\ t \notin issued
  /\ LET room == Without(sessions, Evicted(sessions))
     IN  sessions' = Inserted(room, t, u)
  /\ issued' = issued \union {t}
  /\ UNCHANGED <<clock, idle_timeout>>

\* Mutant: a token can be handed out again once its session is gone.
OpenReusingTokens(t, u) ==
  /\ t \notin Live
  /\ LET room == Without(Unexpired, Evicted(Unexpired))
     IN  sessions' = Inserted(room, t, u)
  /\ issued' = issued \union {t}
  /\ UNCHANGED <<clock, idle_timeout>>

\* Tokens are 256 random bits: a new one was never issued before.
Open(t, u) ==
  /\ t \notin issued
  /\ LET room == Without(Unexpired, Evicted(Unexpired))
     IN  sessions' = Inserted(room, t, u)
  /\ issued' = issued \union {t}
  /\ UNCHANGED <<clock, idle_timeout>>

\* resolve() with its _live().  info(), user_id() and credential_fingerprint()
\* do what resolve(refresh=False) does: they delete an expired session.
Resolve(t, refresh) ==
  /\ t \in Live
  /\ sessions' =
       IF IsExpired(t) THEN Without(sessions, {t})
       ELSE IF refresh
       THEN MoveToEnd([sessions EXCEPT ![t].last_used = clock], t)
       ELSE sessions
  /\ UNCHANGED <<clock, idle_timeout, issued>>

Remove(gone) ==
  /\ sessions' = Without(sessions, gone)
  /\ UNCHANGED <<clock, idle_timeout, issued>>

Revoke(t) == t \in Live /\ Remove({t})

RevokeAll == Remove(Live)

SessionsOf(u) == {t \in Live : sessions[t].user = u}

RevokeUser(u) == Remove(SessionsOf(u))

RevokeUserExcept(u, t) == t \in issued /\ Remove(SessionsOf(u) \ {t})

\* Mutant: the sweeper looks at the absolute lifetime only.
DropOverAge ==
  Remove({t \in Live : MsSince(clock, sessions[t].created) >= MaxLifetime})

\* The sweeper's turn, and open()'s and set_idle_timeout()'s first step.
DropExpired == Remove(Expired)

-----------------------------------------------------------------------------
(***************************************************************************)
(* The environment: time passes, the machine sleeps, the wall clock is set.*)
(***************************************************************************)
Tick ==
  /\ clock.monotonic < MaxClock /\ clock.wall < MaxClock
  /\ clock' = [monotonic |-> clock.monotonic + 1, wall |-> clock.wall + 1]
  /\ UNCHANGED <<idle_timeout, sessions, issued>>

Sleep ==
  /\ clock.wall < MaxClock
  /\ clock' = [clock EXCEPT !.wall = @ + 1]
  /\ UNCHANGED <<idle_timeout, sessions, issued>>

SetWallBack ==
  /\ \E w \in 0..MaxClock :
       w < clock.wall /\ clock' = [clock EXCEPT !.wall = w]
  /\ UNCHANGED <<idle_timeout, sessions, issued>>

Init ==
  /\ clock = [monotonic |-> 0, wall |-> 0]
  /\ idle_timeout \in IdleTimeouts
  /\ sessions = [t \in {} |-> {}]
  /\ issued = {}

Next ==
  \/ \E ms \in IdleTimeouts : SetIdleTimeout(ms)
  \/ \E t \in Token, u \in User : Open(t, u)
  \/ \E t \in Token, refresh \in BOOLEAN : Resolve(t, refresh)
  \/ \E t \in Token : Revoke(t)
  \/ RevokeAll
  \/ \E u \in User : RevokeUser(u)
  \/ \E u \in User, t \in Token : RevokeUserExcept(u, t)
  \/ DropExpired
  \/ Tick
  \/ Sleep
  \/ SetWallBack

Spec == Init /\ [][Next]_vars

\* The lifespan of the process keeps the sweeper's task running
\* (main.py:_drop_expired_sessions).
FairSpec == Spec /\ WF_vars(DropExpired)

-----------------------------------------------------------------------------
\* The dictionary holds well-formed sessions of issued tokens, and no entry is
\* ahead of one that is not in it.
TypeOK ==
  /\ clock \in Instant
  /\ idle_timeout \in IdleTimeouts
  /\ issued \in SUBSET Token
  /\ Live \subseteq issued
  /\ sessions \in [Live -> Session]
  /\ \A t \in Live : sessions[t].ahead \subseteq Live

\* The dictionary order is a strict total order of the sessions ...
StrictOrder ==
  \A a, b \in Live :
    /\ a \notin sessions[a].ahead
    /\ a # b => (a \in sessions[b].ahead <=> b \notin sessions[a].ahead)
    /\ a \in sessions[b].ahead => sessions[a].ahead \subseteq sessions[b].ahead

\* ... and it is the order of last use.
OrderIsRecency ==
  \A a, b \in Live :
    a \in sessions[b].ahead =>
      sessions[a].last_used.monotonic <= sessions[b].last_used.monotonic

\* popitem(last=False) has exactly one victim, whatever was deleted from the
\* middle before, and it is the least recently used session
\* (vault_sessions.py:19-22).
LeastRecentlyUsedFirst == StrictOrder /\ OrderIsRecency

\* The store never holds more than max_sessions keys.
SessionsBounded ==
  /\ IsFiniteSet(Live)
  /\ Cardinality(Live) <= MaxSessions

\* A session has ended when it left the store, or when its idle or absolute
\* limit has passed by the clock that cannot be set.
Ended(t) ==
  \/ t \notin Live
  \/ clock.monotonic - sessions[t].last_used.monotonic
       >= idle_timeout + Tolerance
  \/ clock.monotonic - sessions[t].created.monotonic >= MaxLifetime

\* "An ended session is deleted and can never be used again": neither a later
\* request, nor a longer timeout, nor a clock set back revives it
\* (vault_sessions.py:11, :112).
EndedForGood == [][\A t \in issued : Ended(t) => Ended(t)']_vars

\* open() takes a usable session away only when the store is full of usable
\* sessions, and then the one that was used least recently.
EvictsOnlyWhenFull ==
  [][issued' # issued =>
       \A t \in Live \ Expired :
         t \notin Live' =>
           /\ Cardinality(Live \ Expired) >= MaxSessions
           /\ \A s \in Live \intersect Live' :
                sessions[t].last_used.monotonic
                  <= sessions[s].last_used.monotonic]_vars

\* The key of a session that ended leaves memory, whether or not anyone asks for
\* the session again: time and again no key in memory is that of an ended
\* session, and an ended one stays ended (main.py:59-62).
EndedKeysAreDropped == []<>(\A t \in Live : ~Ended(t))

\* The dictionary without times and order.
Store == INSTANCE SessionStore WITH
  account <- [t \in Live |-> sessions[t].user],
  used <- issued

\* Seen from outside, the sessions are those of an abstract store: whatever the
\* clocks and the limits do, a token opens the sessions of one account only,
\* from the moment it is issued until it ends, and never again
\* (vault_sessions.py:open, :_live).
ImplementsStore == Store!Spec
=============================================================================
