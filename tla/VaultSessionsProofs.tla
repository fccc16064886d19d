------------------------- MODULE VaultSessionsProofs -------------------------
(***************************************************************************)
(* What VaultSessions guarantees for every number of tokens, accounts and  *)
(* sessions, every timeout and every length of time.                       *)
(***************************************************************************)
EXTENDS VaultSessions, FiniteSetTheorems, WellFoundedInduction, TLAPS

USE SessionsAssumption

-----------------------------------------------------------------------------
(* The dictionary operators. *)

\* A dictionary of sessions whose order only mentions its own entries.
Dict(d) ==
  /\ DOMAIN d \subseteq Token
  /\ d \in [DOMAIN d -> Session]
  /\ \A t \in DOMAIN d : d[t].ahead \subseteq DOMAIN d

\* Its order is strict and total.
Ordered(d) ==
  \A a, b \in DOMAIN d :
    /\ a \notin d[a].ahead
    /\ a # b => (a \in d[b].ahead <=> b \notin d[a].ahead)
    /\ a \in d[b].ahead => d[a].ahead \subseteq d[b].ahead

\* Its order is the order of last use.
ByRecency(d) ==
  \A a, b \in DOMAIN d :
    a \in d[b].ahead =>
      d[a].last_used.monotonic <= d[b].last_used.monotonic

\* The sessions of e are sessions of d, with their account and their times.
Keeps(e, d) ==
  /\ DOMAIN e \subseteq DOMAIN d
  /\ \A t \in DOMAIN e : /\ e[t].user = d[t].user
                        /\ e[t].created = d[t].created
                        /\ e[t].last_used = d[t].last_used

\* The sessions of e are those of d, and t was used just now.
Touches(e, d, t) ==
  /\ DOMAIN e = DOMAIN d
  /\ \A s \in DOMAIN d :
       /\ e[s].user = d[s].user
       /\ e[s].created = d[s].created
       /\ e[s].last_used = IF s = t THEN clock ELSE d[s].last_used

\* The sessions of e are those of d and the new session t.
Adds(e, d, t, u) ==
  /\ DOMAIN e = DOMAIN d \union {t}
  /\ \A s \in DOMAIN d : e[s] = d[s]
  /\ e[t].user = u /\ e[t].last_used = clock /\ e[t].created = clock

\* Deleting sessions keeps the others as they are and the dictionary in order.
LEMMA WithoutKeepsOrder ==
  ASSUME NEW d, NEW gone, NEW e, e = Without(d, gone),
         Dict(d), Ordered(d), ByRecency(d)
  PROVE  /\ DOMAIN e = DOMAIN d \ gone
         /\ Dict(e) /\ Ordered(e) /\ ByRecency(e) /\ Keeps(e, d)
<1>1. DOMAIN e = DOMAIN d \ gone
  BY DEF Without
<1>2. \A t \in DOMAIN e : e[t] = [d[t] EXCEPT !.ahead = @ \ gone]
  BY <1>1 DEF Without
<1>3. \A t \in DOMAIN e : d[t] \in Session
  BY <1>1 DEF Dict
<1>4. \A t \in DOMAIN e :
        /\ e[t] \in Session
        /\ e[t].user = d[t].user
        /\ e[t].created = d[t].created
        /\ e[t].last_used = d[t].last_used
        /\ e[t].ahead = d[t].ahead \ gone
  BY <1>2, <1>3 DEF Session
<1>5. Dict(e)
  <2>1. e \in [DOMAIN e -> Session]
    BY <1>4 DEF Without
  <2> QED
    BY <1>1, <1>4, <2>1 DEF Dict
<1>6. Ordered(e)
  BY <1>1, <1>4 DEF Ordered
<1>7. ByRecency(e)
  BY <1>1, <1>4 DEF ByRecency
<1> QED
  BY <1>1, <1>4, <1>5, <1>6, <1>7 DEF Keeps

\* Activity now puts a session last.
LEMMA MoveToEndKeepsOrder ==
  ASSUME NEW d, NEW t \in DOMAIN d, Dict(d), Ordered(d), ByRecency(d),
         clock \in Instant,
         \A s \in DOMAIN d : d[s].last_used.monotonic <= clock.monotonic,
         NEW e, e = MoveToEnd([d EXCEPT ![t].last_used = clock], t)
  PROVE  Dict(e) /\ Ordered(e) /\ ByRecency(e) /\ Touches(e, d, t)
<1> DEFINE f == [d EXCEPT ![t].last_used = clock]
<1>1. DOMAIN f = DOMAIN d /\ DOMAIN e = DOMAIN d
  BY DEF MoveToEnd
<1>2. \A s \in DOMAIN d : d[s] \in Session
  BY DEF Dict
<1>3. \A s \in DOMAIN d :
        f[s] = IF s = t THEN [d[t] EXCEPT !.last_used = clock] ELSE d[s]
  BY DEF Dict
<1>4. \A s \in DOMAIN d :
        e[s] = [f[s] EXCEPT !.ahead = IF s = t THEN DOMAIN d \ {t}
                                               ELSE @ \ {t}]
  BY <1>1 DEF MoveToEnd
<1>5. \A s \in DOMAIN d :
        /\ e[s] \in Session
        /\ e[s].user = d[s].user
        /\ e[s].created = d[s].created
        /\ e[s].last_used = (IF s = t THEN clock ELSE d[s].last_used)
        /\ e[s].ahead = (IF s = t THEN DOMAIN d \ {t} ELSE d[s].ahead \ {t})
  <2> HIDE DEF f
  <2>1. ASSUME NEW s \in DOMAIN d, s = t
        PROVE  /\ e[s] \in Session
               /\ e[s].user = d[s].user
               /\ e[s].created = d[s].created
               /\ e[s].last_used = clock
               /\ e[s].ahead = DOMAIN d \ {t}
    <3>1. f[s] \in Session /\ f[s] = [d[s] EXCEPT !.last_used = clock]
      BY <1>2, <1>3, <2>1 DEF Session
    <3>2. e[s] = [f[s] EXCEPT !.ahead = DOMAIN d \ {t}]
      BY <1>4, <2>1
    <3>3. DOMAIN d \ {t} \in SUBSET Token
      BY DEF Dict
    <3> QED
      BY <1>2, <3>1, <3>2, <3>3 DEF Session
  <2>2. ASSUME NEW s \in DOMAIN d, s # t
        PROVE  /\ e[s] \in Session
               /\ e[s].user = d[s].user
               /\ e[s].created = d[s].created
               /\ e[s].last_used = d[s].last_used
               /\ e[s].ahead = d[s].ahead \ {t}
    <3>1. f[s] = d[s] /\ e[s] = [d[s] EXCEPT !.ahead = @ \ {t}]
      BY <1>3, <1>4, <2>2
    <3> QED
      BY <1>2, <3>1 DEF Session
  <2> QED
    BY <2>1, <2>2
<1>6. Dict(e)
  <2>1. e \in [DOMAIN e -> Session]
    BY <1>1, <1>5 DEF MoveToEnd
  <2> QED
    BY <1>1, <1>5, <2>1 DEF Dict
<1> HIDE DEF f
<1>7. Ordered(e)
  <2> SUFFICES ASSUME NEW a \in DOMAIN d, NEW b \in DOMAIN d
               PROVE  /\ a \notin e[a].ahead
                      /\ a # b => (a \in e[b].ahead <=> b \notin e[a].ahead)
                      /\ a \in e[b].ahead => e[a].ahead \subseteq e[b].ahead
    BY <1>1 DEF Ordered
  <2>1. CASE a = t
    BY <1>5, <2>1
  <2>2. CASE a # t /\ b = t
    <3>1. e[a].ahead = d[a].ahead \ {t} /\ e[b].ahead = DOMAIN d \ {t}
      BY <1>5, <2>2
    <3>2. a \notin d[a].ahead /\ d[a].ahead \subseteq DOMAIN d
      BY DEF Ordered, Dict
    <3> QED
      BY <2>2, <3>1, <3>2
  <2>3. CASE a # t /\ b # t
    <3>1. e[a].ahead = d[a].ahead \ {t} /\ e[b].ahead = d[b].ahead \ {t}
      BY <1>5, <2>3
    <3>2. /\ a \notin d[a].ahead
          /\ a # b => (a \in d[b].ahead <=> b \notin d[a].ahead)
          /\ a \in d[b].ahead => d[a].ahead \subseteq d[b].ahead
      BY DEF Ordered
    <3> QED
      BY <2>3, <3>1, <3>2
  <2> QED
    BY <2>1, <2>2, <2>3
<1>8. ByRecency(e)
  <2> SUFFICES ASSUME NEW a \in DOMAIN d, NEW b \in DOMAIN d,
                      a \in e[b].ahead
               PROVE  e[a].last_used.monotonic <= e[b].last_used.monotonic
    BY <1>1 DEF ByRecency
  <2>1. a # t
    BY <1>5
  <2>2. CASE b = t
    BY <1>5, <2>1, <2>2
  <2>3. CASE b # t
    BY <1>5, <2>1, <2>3 DEF ByRecency
  <2> QED
    BY <2>2, <2>3
<1> QED
  BY <1>1, <1>5, <1>6, <1>7, <1>8 DEF Touches

\* A session opened now goes to the end.
LEMMA InsertedKeepsOrder ==
  ASSUME NEW d, NEW t \in Token, NEW u \in User, t \notin DOMAIN d,
         Dict(d), Ordered(d), ByRecency(d), clock \in Instant,
         \A s \in DOMAIN d : d[s].last_used.monotonic <= clock.monotonic,
         NEW e, e = Inserted(d, t, u)
  PROVE  Dict(e) /\ Ordered(e) /\ ByRecency(e) /\ Adds(e, d, t, u)
<1>1. DOMAIN e = DOMAIN d \union {t}
  BY DEF Inserted
<1>2. \A s \in DOMAIN d : e[s] = d[s] /\ d[s] \in Session
  BY DEF Inserted, Dict
<1>3. e[t] = [user |-> u, created |-> clock, last_used |-> clock,
              ahead |-> DOMAIN d \ {t}]
  BY DEF Inserted
<1>4. /\ e[t] \in Session
      /\ e[t].user = u /\ e[t].last_used = clock /\ e[t].created = clock
      /\ e[t].ahead = DOMAIN d
  <2>1. DOMAIN d \ {t} = DOMAIN d /\ DOMAIN d \in SUBSET Token
    BY DEF Dict
  <2> QED
    BY <1>3, <2>1 DEF Session
<1>5. Dict(e)
  <2>1. e \in [DOMAIN e -> Session]
    BY <1>1, <1>2, <1>4 DEF Inserted
  <2>2. \A s \in DOMAIN e : e[s].ahead \subseteq DOMAIN e
    BY <1>1, <1>2, <1>4 DEF Dict
  <2> QED
    BY <1>1, <2>1, <2>2 DEF Dict
<1>6. Ordered(e)
  <2> SUFFICES ASSUME NEW a \in DOMAIN e, NEW b \in DOMAIN e
               PROVE  /\ a \notin e[a].ahead
                      /\ a # b => (a \in e[b].ahead <=> b \notin e[a].ahead)
                      /\ a \in e[b].ahead => e[a].ahead \subseteq e[b].ahead
    BY DEF Ordered
  <2>1. CASE a = t /\ b = t
    BY <1>4, <2>1
  <2>2. CASE a = t /\ b # t
    <3>1. b \in DOMAIN d /\ e[b].ahead \subseteq DOMAIN d
      BY <1>1, <1>2, <2>2 DEF Dict
    <3> QED
      BY <1>4, <2>2, <3>1
  <2>3. CASE a # t /\ b = t
    <3>1. a \in DOMAIN d /\ e[a].ahead \subseteq DOMAIN d
          /\ a \notin e[a].ahead
      BY <1>1, <1>2, <2>3 DEF Dict, Ordered
    <3> QED
      BY <1>4, <2>3, <3>1
  <2>4. CASE a # t /\ b # t
    <3>1. a \in DOMAIN d /\ b \in DOMAIN d /\ e[a] = d[a] /\ e[b] = d[b]
      BY <1>1, <1>2, <2>4
    <3> QED
      BY <3>1 DEF Ordered
  <2> QED
    BY <2>1, <2>2, <2>3, <2>4
<1>7. ByRecency(e)
  <2> SUFFICES ASSUME NEW a \in DOMAIN e, NEW b \in DOMAIN e,
                      a \in e[b].ahead
               PROVE  e[a].last_used.monotonic <= e[b].last_used.monotonic
    BY DEF ByRecency
  <2>1. CASE b = t
    BY <1>1, <1>2, <1>4, <2>1
  <2>2. CASE b # t
    <3>1. b \in DOMAIN d /\ a \in DOMAIN d
      BY <1>1, <1>2, <2>2 DEF Dict
    <3> QED
      BY <1>2, <3>1 DEF ByRecency
  <2> QED
    BY <2>1, <2>2
<1> QED
  BY <1>1, <1>2, <1>4, <1>5, <1>6, <1>7 DEF Adds

\* Every non-empty set of numbers has a least one.
LEMMA LeastNumber ==
  ASSUME NEW T, T \subseteq Nat, T # {}
  PROVE  \E x \in T : \A y \in T : x <= y
<1>1. PICK x \in T : \A y \in T : ~(<<y, x>> \in OpToRel(<, Nat))
  BY NatLessThanWellFounded, WFMin
<1>2. \A y \in T : ~(y < x)
  BY <1>1 DEF OpToRel
<1>3. ASSUME NEW y \in T
      PROVE  x <= y
  <2>1. x \in Nat /\ y \in Nat
    OBVIOUS
  <2> QED
    BY <1>2, <2>1
<1> QED
  BY <1>3

\* A dictionary that is not empty has an oldest entry: popitem finds a victim.
LEMMA OldestExists ==
  ASSUME NEW d, Dict(d), Ordered(d), IsFiniteSet(DOMAIN d), DOMAIN d # {}
  PROVE  \E t \in DOMAIN d : d[t].ahead = {}
<1> DEFINE T == {Cardinality(d[t].ahead) : t \in DOMAIN d}
<1>1. \A t \in DOMAIN d : IsFiniteSet(d[t].ahead)
  BY FS_Subset DEF Dict
<1>2. T \subseteq Nat /\ T # {}
  BY <1>1, FS_CardinalityType
<1>3. PICK n \in T : \A m \in T : n <= m
  BY <1>2, LeastNumber
<1>4. PICK t \in DOMAIN d : n = Cardinality(d[t].ahead)
  BY <1>3
<1>5. SUFFICES ASSUME NEW s \in d[t].ahead
               PROVE  FALSE
  BY <1>4
<1>6. s \in DOMAIN d
  BY <1>4 DEF Dict
<1>7. d[s].ahead \subseteq d[t].ahead /\ s \notin d[s].ahead
  BY <1>6 DEF Ordered
<1>8. d[s].ahead # d[t].ahead
  BY <1>7
<1>9. Cardinality(d[s].ahead) < Cardinality(d[t].ahead)
  <2>1. d[s].ahead \in SUBSET d[t].ahead /\ IsFiniteSet(d[t].ahead)
    BY <1>1, <1>7
  <2>2. /\ Cardinality(d[s].ahead) <= Cardinality(d[t].ahead)
        /\ Cardinality(d[s].ahead) # Cardinality(d[t].ahead)
    BY <1>8, <2>1, FS_Subset
  <2>3. Cardinality(d[s].ahead) \in Nat /\ Cardinality(d[t].ahead) \in Nat
    BY <1>1, <1>6, FS_CardinalityType
  <2> QED
    BY <2>2, <2>3
<1>10. Cardinality(d[s].ahead) \in T /\ Cardinality(d[t].ahead) \in T
  BY <1>6
<1> QED
  BY <1>2, <1>3, <1>4, <1>9, <1>10

-----------------------------------------------------------------------------
(* The inductive invariant. *)

\* No session was opened or used in the future of the monotonic clock.
UsedInThePast ==
  \A t \in Live :
    sessions[t].last_used.monotonic <= clock.monotonic

IInv ==
  /\ TypeOK
  /\ StrictOrder
  /\ OrderIsRecency
  /\ UsedInThePast
  /\ SessionsBounded

\* The invariant, in terms of the dictionary.
LEMMA InvIsDict ==
  IInv <=> /\ clock \in Instant
           /\ idle_timeout \in IdleTimeouts
           /\ issued \in SUBSET Token
           /\ Live \subseteq issued
           /\ Dict(sessions) /\ Ordered(sessions) /\ ByRecency(sessions)
           /\ UsedInThePast
           /\ SessionsBounded
BY DEF IInv, TypeOK, StrictOrder, OrderIsRecency, Dict, Ordered, ByRecency,
       Live

\* The empty store of a new process satisfies the invariant.
LEMMA InitInv == Init => IInv
<1> SUFFICES ASSUME Init PROVE IInv
  OBVIOUS
<1>1. Live = {} /\ clock \in Instant
  BY DEF Init, Live, Instant
<1>2. sessions \in [Live -> Session]
  BY <1>1 DEF Init, Live
<1>3. IsFiniteSet({}) /\ Cardinality({}) = 0
  BY FS_EmptySet
<1> QED
  BY <1>1, <1>2, <1>3
     DEF Init, IInv, TypeOK, StrictOrder, OrderIsRecency, UsedInThePast,
         SessionsBounded

\* Deleting any sessions keeps the invariant.
LEMMA WithoutKeepsInv ==
  ASSUME IInv, NEW gone, sessions' = Without(sessions, gone),
         UNCHANGED <<clock, issued>>, idle_timeout' \in IdleTimeouts
  PROVE  IInv'
<1>1. /\ Live' = Live \ gone
      /\ Dict(sessions') /\ Ordered(sessions') /\ ByRecency(sessions')
      /\ \A t \in Live' : sessions'[t].last_used = sessions[t].last_used
  <2>1. Dict(sessions) /\ Ordered(sessions) /\ ByRecency(sessions)
    BY InvIsDict
  <2>2. /\ DOMAIN sessions' = DOMAIN sessions \ gone
        /\ Dict(sessions') /\ Ordered(sessions') /\ ByRecency(sessions')
        /\ Keeps(sessions', sessions)
    BY <2>1, WithoutKeepsOrder
  <2> QED
    BY <2>2 DEF Live, Keeps
<1>2. UsedInThePast'
  BY <1>1, InvIsDict DEF UsedInThePast, Live
<1>3. SessionsBounded'
  <2>1. IsFiniteSet(Live) /\ Cardinality(Live) <= MaxSessions
    BY InvIsDict DEF SessionsBounded
  <2>2. /\ IsFiniteSet(Live \ gone)
        /\ Cardinality(Live \ gone) <= Cardinality(Live)
    BY <2>1, FS_Subset
  <2>3. Cardinality(Live) \in Nat /\ Cardinality(Live \ gone) \in Nat
    BY <2>1, <2>2, FS_CardinalityType
  <2> QED
    BY <1>1, <2>1, <2>2, <2>3 DEF SessionsBounded
<1> QED
  BY <1>1, <1>2, <1>3, InvIsDict DEF Live, IInv, TypeOK, StrictOrder,
     OrderIsRecency, Dict, Ordered, ByRecency

\* open() leaves room for one more.
LEMMA RoomForOne ==
  ASSUME NEW d, Dict(d), Ordered(d), IsFiniteSet(DOMAIN d),
         Cardinality(DOMAIN d) <= MaxSessions
  PROVE  /\ IsFiniteSet(DOMAIN d \ Evicted(d))
         /\ Cardinality(DOMAIN d \ Evicted(d)) < MaxSessions
<1>1. Cardinality(DOMAIN d) \in Nat
  BY FS_CardinalityType
<1>2. CASE Cardinality(DOMAIN d) < MaxSessions
  <2>1. DOMAIN d \ Evicted(d) = DOMAIN d
    BY <1>2 DEF Evicted
  <2> QED
    BY <1>2, <2>1
<1>3. CASE ~(Cardinality(DOMAIN d) < MaxSessions)
  <2>1. Evicted(d) = {t \in DOMAIN d : d[t].ahead = {}}
    BY <1>3 DEF Evicted
  <2>2. DOMAIN d # {}
    BY <1>3, FS_EmptySet
  <2>3. PICK t \in DOMAIN d : d[t].ahead = {}
    BY <2>2, OldestExists
  <2>4. DOMAIN d \ Evicted(d) \in SUBSET (DOMAIN d \ {t})
    BY <2>1, <2>3
  <2>5. /\ IsFiniteSet(DOMAIN d \ {t})
        /\ Cardinality(DOMAIN d \ {t}) = Cardinality(DOMAIN d) - 1
    BY <2>3, FS_RemoveElement
  <2>6. /\ IsFiniteSet(DOMAIN d \ Evicted(d))
        /\ Cardinality(DOMAIN d \ Evicted(d)) <= Cardinality(DOMAIN d \ {t})
    BY <2>4, <2>5, FS_Subset
  <2>7. Cardinality(DOMAIN d \ Evicted(d)) \in Nat
    BY <2>6, FS_CardinalityType
  <2> QED
    BY <1>1, <2>5, <2>6, <2>7
<1> QED
  BY <1>2, <1>3

-----------------------------------------------------------------------------
(* The operations keep the invariant. *)

\* open(): dropping, evicting and inserting in turn.
LEMMA OpenKeepsInv ==
  ASSUME IInv, NEW t \in Token, NEW u \in User, Open(t, u)
  PROVE  IInv'
<1> DEFINE d == Unexpired
           e == Without(d, Evicted(d))
<1>1. Dict(sessions) /\ Ordered(sessions) /\ ByRecency(sessions)
  BY InvIsDict
<1>2. /\ DOMAIN d = Live \ Expired
      /\ Dict(d) /\ Ordered(d) /\ ByRecency(d) /\ Keeps(d, sessions)
  BY <1>1, WithoutKeepsOrder DEF Unexpired, Live
<1>3. IsFiniteSet(DOMAIN d) /\ Cardinality(DOMAIN d) <= MaxSessions
  <2>1. IsFiniteSet(Live) /\ Cardinality(Live) <= MaxSessions
    BY InvIsDict DEF SessionsBounded
  <2>2. /\ IsFiniteSet(DOMAIN d)
        /\ Cardinality(DOMAIN d) <= Cardinality(Live)
    BY <1>2, <2>1, FS_Subset
  <2>3. Cardinality(Live) \in Nat /\ Cardinality(DOMAIN d) \in Nat
    BY <2>1, <2>2, FS_CardinalityType
  <2> QED
    BY <2>1, <2>2, <2>3
<1> HIDE DEF d
<1>4. /\ IsFiniteSet(DOMAIN d \ Evicted(d))
      /\ Cardinality(DOMAIN d \ Evicted(d)) < MaxSessions
  BY <1>2, <1>3, RoomForOne
<1>5. /\ DOMAIN e = DOMAIN d \ Evicted(d)
      /\ Dict(e) /\ Ordered(e) /\ ByRecency(e) /\ Keeps(e, d)
  BY <1>2, WithoutKeepsOrder
<1>6. sessions' = Inserted(e, t, u)
  BY DEF Open, d
<1> HIDE DEF e
<1>7. t \notin DOMAIN e
  BY <1>2, <1>5, InvIsDict DEF Open
<1>8. clock \in Instant
      /\ \A s \in DOMAIN e : e[s].last_used.monotonic <= clock.monotonic
  BY <1>2, <1>5, InvIsDict DEF Keeps, UsedInThePast, Live
<1>9. /\ Dict(sessions') /\ Ordered(sessions') /\ ByRecency(sessions')
      /\ Adds(sessions', e, t, u)
  BY <1>5, <1>6, <1>7, <1>8, InsertedKeepsOrder
<1>10. Live' = DOMAIN e \union {t}
  BY <1>9 DEF Adds, Live
<1>11. UsedInThePast'
  <2>1. ASSUME NEW s \in Live'
        PROVE  sessions'[s].last_used.monotonic <= clock.monotonic
    <3>1. CASE s = t
      <4>1. sessions'[s].last_used = clock /\ clock.monotonic \in Int
        BY <1>8, <1>9, <3>1 DEF Adds, Instant
      <4> QED
        BY <4>1
    <3>2. CASE s # t
      BY <1>8, <1>9, <1>10, <3>2 DEF Adds
    <3> QED
      BY <3>1, <3>2
  <2> QED
    BY <2>1 DEF UsedInThePast, Open
<1>12. SessionsBounded'
  <2>1. /\ IsFiniteSet(Live')
        /\ Cardinality(Live') = Cardinality(DOMAIN e) + 1
    BY <1>4, <1>5, <1>7, <1>10, FS_AddElement
  <2>2. Cardinality(DOMAIN e) \in Nat
    BY <1>4, <1>5, FS_CardinalityType
  <2> QED
    BY <1>4, <1>5, <2>1, <2>2 DEF SessionsBounded
<1>13. /\ clock' \in Instant /\ idle_timeout' \in IdleTimeouts
       /\ issued' \in SUBSET Token /\ Live' \subseteq issued'
  BY <1>2, <1>5, <1>10, InvIsDict DEF Open
<1> QED
  BY <1>9, <1>11, <1>12, <1>13
     DEF Live, IInv, TypeOK, StrictOrder, OrderIsRecency, Dict, Ordered,
         ByRecency

\* resolve(): the session is deleted, put last, or left alone.
LEMMA ResolveKeepsInv ==
  ASSUME IInv, NEW t \in Token, NEW refresh \in BOOLEAN, Resolve(t, refresh)
  PROVE  IInv'
<1>1. CASE IsExpired(t)
  <2>1. sessions' = Without(sessions, {t})
    BY <1>1 DEF Resolve
  <2>2. UNCHANGED <<clock, issued>> /\ idle_timeout' \in IdleTimeouts
    BY InvIsDict DEF Resolve
  <2> QED
    BY <2>1, <2>2, WithoutKeepsInv
<1>2. CASE ~IsExpired(t) /\ refresh
  <2>1. sessions' = MoveToEnd([sessions EXCEPT ![t].last_used = clock], t)
    BY <1>2 DEF Resolve
  <2>2. /\ Dict(sessions) /\ Ordered(sessions) /\ ByRecency(sessions)
        /\ clock \in Instant /\ t \in DOMAIN sessions
        /\ \A s \in DOMAIN sessions :
             sessions[s].last_used.monotonic <= clock.monotonic
    BY InvIsDict DEF UsedInThePast, Resolve, Live
  <2>3. /\ Dict(sessions') /\ Ordered(sessions') /\ ByRecency(sessions')
        /\ Touches(sessions', sessions, t)
    BY <2>1, <2>2, MoveToEndKeepsOrder
  <2>4. Live' = Live
    BY <2>3 DEF Touches, Live
  <2>5. UsedInThePast'
    <3>1. clock' = clock /\ clock.monotonic \in Int
      BY <2>2 DEF Resolve, Instant
    <3>2. ASSUME NEW s \in Live
          PROVE  sessions'[s].last_used.monotonic <= clock.monotonic
      <4>1. CASE s = t
        <5>1. sessions'[s].last_used = clock
          BY <2>3, <4>1 DEF Touches, Live
        <5> QED
          BY <3>1, <5>1
      <4>2. CASE s # t
        BY <2>2, <2>3, <4>2 DEF Touches, Live
      <4> QED
        BY <4>1, <4>2
    <3> QED
      BY <2>4, <3>1, <3>2 DEF UsedInThePast
  <2>6. SessionsBounded'
    BY <2>4, InvIsDict DEF SessionsBounded
  <2>7. /\ clock' \in Instant /\ idle_timeout' \in IdleTimeouts
        /\ issued' \in SUBSET Token /\ Live' \subseteq issued'
    BY <2>4, InvIsDict DEF Resolve
  <2> QED
    BY <2>3, <2>5, <2>6, <2>7
       DEF Live, IInv, TypeOK, StrictOrder, OrderIsRecency, Dict, Ordered,
           ByRecency
<1>3. CASE ~IsExpired(t) /\ ~refresh
  <2>1. UNCHANGED vars
    BY <1>3 DEF Resolve, vars
  <2> QED
    BY <2>1 DEF vars, IInv, TypeOK, StrictOrder, OrderIsRecency,
       UsedInThePast, SessionsBounded, Live
<1> QED
  BY <1>1, <1>2, <1>3

\* Time passing keeps the invariant, as the monotonic clock never goes back.
LEMMA ClockKeepsInv ==
  ASSUME IInv, clock' \in Instant, clock.monotonic <= clock'.monotonic,
         UNCHANGED <<idle_timeout, sessions, issued>>
  PROVE  IInv'
<1>1. UsedInThePast'
  <2>1. \A t \in Live : sessions[t].last_used.monotonic \in Int
    BY InvIsDict DEF Dict, Live, Session, Instant
  <2>2. clock.monotonic \in Int /\ clock'.monotonic \in Int
    BY InvIsDict DEF Instant
  <2> QED
    BY <2>1, <2>2, InvIsDict DEF UsedInThePast, Live
<1> QED
  BY <1>1 DEF IInv, TypeOK, StrictOrder, OrderIsRecency, SessionsBounded, Live

\* The invariant is inductive ...
LEMMA NextKeepsInv == IInv /\ [Next]_vars => IInv'
<1> SUFFICES ASSUME IInv, [Next]_vars PROVE IInv'
  OBVIOUS
<1>0. /\ idle_timeout \in IdleTimeouts
      /\ clock \in Instant
  BY InvIsDict
<1>1. ASSUME NEW gone, Remove(gone) PROVE IInv'
  BY <1>0, <1>1, WithoutKeepsInv DEF Remove
<1>2. ASSUME NEW ms \in IdleTimeouts, SetIdleTimeout(ms) PROVE IInv'
  BY <1>2, WithoutKeepsInv DEF SetIdleTimeout, Unexpired
<1>3. ASSUME NEW t \in Token, NEW u \in User, Open(t, u) PROVE IInv'
  BY <1>3, OpenKeepsInv
<1>4. ASSUME NEW t \in Token, NEW refresh \in BOOLEAN, Resolve(t, refresh)
      PROVE  IInv'
  BY <1>4, ResolveKeepsInv
<1>5. ASSUME NEW t \in Token, Revoke(t) PROVE IInv'
  BY <1>1, <1>5 DEF Revoke
<1>6. CASE RevokeAll
  BY <1>1, <1>6 DEF RevokeAll
<1>7. ASSUME NEW u \in User, RevokeUser(u) PROVE IInv'
  BY <1>1, <1>7 DEF RevokeUser
<1>8. ASSUME NEW u \in User, NEW t \in Token, RevokeUserExcept(u, t)
      PROVE  IInv'
  BY <1>1, <1>8 DEF RevokeUserExcept
<1>9. CASE DropExpired
  BY <1>1, <1>9 DEF DropExpired
<1>10. CASE Tick
  <2>1. clock' \in Instant /\ clock.monotonic <= clock'.monotonic
    BY <1>0, <1>10 DEF Tick, Instant
  <2> QED
    BY <1>10, <2>1, ClockKeepsInv DEF Tick
<1>11. CASE Sleep
  <2>1. clock' \in Instant /\ clock.monotonic <= clock'.monotonic
    BY <1>0, <1>11 DEF Sleep, Instant
  <2> QED
    BY <1>11, <2>1, ClockKeepsInv DEF Sleep
<1>12. CASE SetWallBack
  <2>1. clock' \in Instant /\ clock.monotonic <= clock'.monotonic
    BY <1>0, <1>12 DEF SetWallBack, Instant
  <2> QED
    BY <1>12, <2>1, ClockKeepsInv DEF SetWallBack
<1>13. CASE UNCHANGED vars
  BY <1>13 DEF vars, IInv, TypeOK, StrictOrder, OrderIsRecency,
     UsedInThePast, SessionsBounded, Live
<1> QED
  BY <1>2, <1>3, <1>4, <1>5, <1>6, <1>7, <1>8, <1>9, <1>10, <1>11, <1>12,
     <1>13 DEF Next

\* ... and so it always holds.
LEMMA InvHolds == Spec => []IInv
<1> QED
  BY InitInv, NextKeepsInv, PTL DEF Spec

\* vault_sessions.py keeps its dictionary well-formed.
THEOREM TypeCorrect == Spec => []TypeOK
<1>1. IInv => TypeOK
  BY DEF IInv
<1> QED
  BY <1>1, InvHolds, PTL

\* open() never keeps more than max_sessions keys in memory.
THEOREM Bounded == Spec => []SessionsBounded
<1>1. IInv => SessionsBounded
  BY DEF IInv
<1> QED
  BY <1>1, InvHolds, PTL

\* The OrderedDict stays a total order, and that order is the order of last use:
\* popitem(last=False) takes exactly the least recently used session.
THEOREM EvictionOrder == Spec => []LeastRecentlyUsedFirst
<1>1. IInv => LeastRecentlyUsedFirst
  BY DEF IInv, LeastRecentlyUsedFirst
<1> QED
  BY <1>1, InvHolds, PTL

-----------------------------------------------------------------------------
(* An ended session never comes back. *)

\* What has ended by the monotonic clock is found expired, wherever the wall
\* clock stands: ms_since() takes the larger of the two elapsed times.
LEMMA EndedIsExpired ==
  ASSUME IInv, NEW t \in Live, Ended(t)
  PROVE  IsExpired(t)
<1>1. /\ clock.monotonic \in Int /\ clock.wall \in Int
      /\ sessions[t].last_used.monotonic \in Int
      /\ sessions[t].last_used.wall \in Int
      /\ sessions[t].created.monotonic \in Int
      /\ sessions[t].created.wall \in Int
      /\ idle_timeout \in Int
  BY InvIsDict DEF Dict, Live, Session, Instant
<1>2. /\ MsSince(clock, sessions[t].last_used) \in Int
      /\ MsSince(clock, sessions[t].last_used)
           >= clock.monotonic - sessions[t].last_used.monotonic
      /\ MsSince(clock, sessions[t].created) \in Int
      /\ MsSince(clock, sessions[t].created)
           >= clock.monotonic - sessions[t].created.monotonic
  BY <1>1 DEF MsSince
<1>3. \/ clock.monotonic - sessions[t].last_used.monotonic
           >= idle_timeout + Tolerance
      \/ clock.monotonic - sessions[t].created.monotonic >= MaxLifetime
  BY DEF Ended
<1> QED
  BY <1>1, <1>2, <1>3 DEF IsExpired, Remaining

\* A step that keeps a session's times and does not turn the monotonic clock
\* back, under the same timeout, leaves it ended.
LEMMA StaysEnded ==
  ASSUME IInv, NEW t \in Live, Ended(t),
         idle_timeout' = idle_timeout, clock' \in Instant,
         clock.monotonic <= clock'.monotonic,
         sessions'[t].last_used = sessions[t].last_used,
         sessions'[t].created = sessions[t].created
  PROVE  Ended(t)'
<1>1. /\ clock.monotonic \in Int /\ clock'.monotonic \in Int
      /\ sessions[t].last_used.monotonic \in Int
      /\ sessions[t].created.monotonic \in Int
      /\ idle_timeout \in Int
  BY InvIsDict DEF Dict, Live, Session, Instant
<1>2. CASE clock.monotonic - sessions[t].last_used.monotonic
             >= idle_timeout + Tolerance
  BY <1>1, <1>2 DEF Ended
<1>3. CASE clock.monotonic - sessions[t].created.monotonic >= MaxLifetime
  BY <1>1, <1>3 DEF Ended
<1> QED
  BY <1>2, <1>3 DEF Ended

\* Deleting sessions leaves every ended one ended.
LEMMA RemovedStaysEnded ==
  ASSUME IInv, NEW gone, sessions' = Without(sessions, gone),
         UNCHANGED <<clock, idle_timeout>>, NEW t, Ended(t)
  PROVE  Ended(t)'
<1>1. Dict(sessions) /\ Ordered(sessions) /\ ByRecency(sessions)
  BY InvIsDict
<1>2. Live' = Live \ gone /\ Keeps(sessions', sessions)
  BY <1>1, WithoutKeepsOrder DEF Live
<1>3. CASE t \notin Live'
  BY <1>3 DEF Ended
<1>4. CASE t \in Live'
  <2>1. /\ t \in Live
        /\ sessions'[t].last_used = sessions[t].last_used
        /\ sessions'[t].created = sessions[t].created
    BY <1>2, <1>4 DEF Keeps, Live
  <2>2. clock' \in Instant /\ clock.monotonic <= clock'.monotonic
    BY InvIsDict DEF Instant
  <2> QED
    BY <2>1, <2>2, StaysEnded
<1> QED
  BY <1>3, <1>4

\* No step revives an ended session.
LEMMA NextKeepsEnded ==
  ASSUME IInv, [Next]_vars, NEW t \in issued, Ended(t)
  PROVE  Ended(t)'
<1>0. /\ Dict(sessions) /\ Ordered(sessions) /\ ByRecency(sessions)
      /\ clock \in Instant /\ clock.monotonic \in Int
  BY InvIsDict DEF Instant
<1>1. ASSUME NEW gone, Remove(gone) PROVE Ended(t)'
  BY <1>1, RemovedStaysEnded DEF Remove
<1>2. ASSUME NEW ms \in IdleTimeouts, SetIdleTimeout(ms) PROVE Ended(t)'
  <2>1. Live' = Live \ Expired
    BY <1>0, <1>2, WithoutKeepsOrder DEF SetIdleTimeout, Unexpired, Live
  <2>2. t \notin Live'
    BY <2>1, EndedIsExpired DEF Expired
  <2> QED
    BY <2>2 DEF Ended
<1>3. ASSUME NEW s \in Token, NEW u \in User, Open(s, u) PROVE Ended(t)'
  <2> DEFINE d == Unexpired
             e == Without(d, Evicted(d))
  <2>1. /\ DOMAIN d = Live \ Expired
        /\ Dict(d) /\ Ordered(d) /\ ByRecency(d)
    BY <1>0, WithoutKeepsOrder DEF Unexpired, Live
  <2> HIDE DEF d
  <2>2. DOMAIN e \subseteq DOMAIN d
    BY DEF Without
  <2>3. Live' = DOMAIN e \union {s}
    BY <1>3 DEF Open, Inserted, Live, d
  <2>4. t # s /\ t \notin DOMAIN d
    BY <1>3, <2>1, EndedIsExpired DEF Open, Expired
  <2>5. t \notin Live'
    BY <2>2, <2>3, <2>4
  <2> QED
    BY <2>5 DEF Ended
<1>4. ASSUME NEW s \in Token, NEW refresh \in BOOLEAN, Resolve(s, refresh)
      PROVE  Ended(t)'
  <2>1. CASE IsExpired(s)
    BY <1>4, <2>1, RemovedStaysEnded DEF Resolve
  <2>2. CASE ~IsExpired(s) /\ refresh
    <3>1. (s # t /\ s \in Live) \/ t \notin Live
      BY <1>4, <2>2, EndedIsExpired DEF Resolve
    <3>2. sessions' = MoveToEnd([sessions EXCEPT ![s].last_used = clock], s)
      BY <1>4, <2>2 DEF Resolve
    <3>3. Touches(sessions', sessions, s)
      BY <1>0, <1>4, <3>2, MoveToEndKeepsOrder, InvIsDict
         DEF UsedInThePast, Resolve, Live
    <3>4. CASE t \notin Live
      <4>1. t \notin Live'
        BY <3>3, <3>4 DEF Touches, Live
      <4> QED
        BY <4>1 DEF Ended
    <3>5. CASE t \in Live
      <4>1. /\ sessions'[t].last_used = sessions[t].last_used
            /\ sessions'[t].created = sessions[t].created
        BY <3>1, <3>3, <3>5 DEF Touches, Live
      <4>2. /\ clock' \in Instant /\ clock.monotonic <= clock'.monotonic
            /\ idle_timeout' = idle_timeout
        BY <1>0, <1>4 DEF Resolve
      <4> QED
        BY <3>5, <4>1, <4>2, StaysEnded
    <3> QED
      BY <3>4, <3>5
  <2>3. CASE ~IsExpired(s) /\ ~refresh
    BY <1>4, <2>3 DEF Resolve, Ended, Live
  <2> QED
    BY <2>1, <2>2, <2>3
<1>5. ASSUME NEW s \in Token, Revoke(s) PROVE Ended(t)'
  BY <1>1, <1>5 DEF Revoke
<1>6. CASE RevokeAll
  BY <1>1, <1>6 DEF RevokeAll
<1>7. ASSUME NEW u \in User, RevokeUser(u) PROVE Ended(t)'
  BY <1>1, <1>7 DEF RevokeUser
<1>8. ASSUME NEW u \in User, NEW s \in Token, RevokeUserExcept(u, s)
      PROVE  Ended(t)'
  BY <1>1, <1>8 DEF RevokeUserExcept
<1>9. CASE DropExpired
  BY <1>1, <1>9 DEF DropExpired
<1>10. ASSUME clock' \in Instant, clock.monotonic <= clock'.monotonic,
              UNCHANGED <<idle_timeout, sessions, issued>>
       PROVE  Ended(t)'
  <2>1. CASE t \in Live
    BY <1>10, <2>1, StaysEnded
  <2>2. CASE t \notin Live
    BY <1>10, <2>2 DEF Ended, Live
  <2> QED
    BY <2>1, <2>2
<1>11. CASE Tick
  <2>1. clock' \in Instant /\ clock.monotonic <= clock'.monotonic
    BY <1>0, <1>11 DEF Tick, Instant
  <2> QED
    BY <1>10, <1>11, <2>1 DEF Tick
<1>12. CASE Sleep
  <2>1. clock' \in Instant /\ clock.monotonic <= clock'.monotonic
    BY <1>0, <1>12 DEF Sleep, Instant
  <2> QED
    BY <1>10, <1>12, <2>1 DEF Sleep
<1>13. CASE SetWallBack
  <2>1. clock' \in Instant /\ clock.monotonic <= clock'.monotonic
    BY <1>0, <1>13 DEF SetWallBack, Instant
  <2> QED
    BY <1>10, <1>13, <2>1 DEF SetWallBack
<1>14. CASE UNCHANGED vars
  BY <1>14 DEF vars, Ended, Live
<1> QED
  BY <1>2, <1>3, <1>4, <1>5, <1>6, <1>7, <1>8, <1>9, <1>11, <1>12, <1>13,
     <1>14 DEF Next

\* "An ended session is deleted and can never be used again"
\* (vault_sessions.py:10-11): no request, no longer timeout and no clock set
\* back revives a session that left the store or passed one of its limits.
THEOREM NoRevival == Spec => EndedForGood
<1>1. IInv /\ [Next]_vars => [\A t \in issued : Ended(t) => Ended(t)']_vars
  BY NextKeepsEnded
<1> QED
  BY <1>1, InvHolds, PTL DEF Spec, EndedForGood

-----------------------------------------------------------------------------
(* What makes room for a new session. *)

\* Opening a session takes a usable one away only from a full store, and then
\* the one that nothing is ahead of.
LEMMA OpenEvictsOldest ==
  ASSUME IInv, NEW n \in Token, NEW u \in User, Open(n, u),
         NEW t \in Live \ Expired, t \notin Live'
  PROVE  /\ Cardinality(Live \ Expired) >= MaxSessions
         /\ \A s \in Live \intersect Live' :
              sessions[t].last_used.monotonic <= sessions[s].last_used.monotonic
<1> DEFINE d == Unexpired
           e == Without(d, Evicted(d))
<1>1. /\ Dict(sessions) /\ Ordered(sessions) /\ ByRecency(sessions)
      /\ Live \subseteq issued /\ n \notin issued
  BY InvIsDict DEF Open
<1>2. /\ DOMAIN d = Live \ Expired
      /\ Dict(d) /\ Ordered(d) /\ ByRecency(d) /\ Keeps(d, sessions)
  BY <1>1, WithoutKeepsOrder DEF Unexpired, Live
<1> HIDE DEF d
<1>3. DOMAIN e = DOMAIN d \ Evicted(d)
  BY <1>2, WithoutKeepsOrder
<1>4. Live' = DOMAIN e \union {n}
  BY DEF Open, Inserted, Live, d
<1>5. t \in DOMAIN d /\ t \in Evicted(d)
  BY <1>2, <1>3, <1>4
<1>6. ~(Cardinality(DOMAIN d) < MaxSessions) /\ d[t].ahead = {}
  BY <1>5 DEF Evicted
<1>7. Cardinality(Live \ Expired) >= MaxSessions
  <2>1. IsFiniteSet(Live)
    BY InvIsDict DEF SessionsBounded
  <2>2. Cardinality(Live \ Expired) \in Nat
    BY <2>1, FS_Subset, FS_CardinalityType, Live \ Expired \subseteq Live
  <2> QED
    BY <1>2, <1>6, <2>2, SessionsAssumption
<1>8. ASSUME NEW s \in Live \intersect Live'
      PROVE  sessions[t].last_used.monotonic <= sessions[s].last_used.monotonic
  <2>1. s \in DOMAIN d /\ s # t
    BY <1>1, <1>3, <1>4, <1>8
  <2>2. t \in d[s].ahead
    BY <1>2, <1>5, <1>6, <2>1 DEF Ordered
  <2>3. d[t].last_used.monotonic <= d[s].last_used.monotonic
    BY <1>2, <1>5, <2>1, <2>2 DEF ByRecency
  <2> QED
    BY <1>2, <1>5, <2>1, <2>3 DEF Keeps
<1> QED
  BY <1>7, <1>8

\* open() takes a usable session away only when the store is full of usable
\* sessions, and then the one that was used least recently
\* (vault_sessions.py:open).
THEOREM Eviction == Spec => EvictsOnlyWhenFull
<1>1. ASSUME IInv, [Next]_vars, issued' # issued
      PROVE  \E n \in Token, u \in User : Open(n, u)
  BY <1>1 DEF Next, vars, SetIdleTimeout, Resolve, Revoke, RevokeAll, RevokeUser,
              RevokeUserExcept, DropExpired, Remove, Tick, Sleep, SetWallBack
<1>2. IInv /\ [Next]_vars =>
        [issued' # issued =>
           \A t \in Live \ Expired :
             t \notin Live' =>
               /\ Cardinality(Live \ Expired) >= MaxSessions
               /\ \A s \in Live \intersect Live' :
                    sessions[t].last_used.monotonic
                      <= sessions[s].last_used.monotonic]_vars
  BY <1>1, OpenEvictsOldest
<1> QED
  BY <1>2, InvHolds, PTL DEF Spec, EvictsOnlyWhenFull

-----------------------------------------------------------------------------
(* VaultSessions implements SessionStore. *)

\* The refinement mapping.
Account == [t \in Live |-> sessions[t].user]

\* Deleting sessions, for whatever reason, is an End step of the store.
LEMMA RemovalIsEnd ==
  ASSUME IInv, NEW gone, sessions' = Without(sessions, gone),
         issued' = issued
  PROVE  Store!Next
<1>1. Dict(sessions) /\ Ordered(sessions) /\ ByRecency(sessions)
      /\ Live \subseteq Token
  BY InvIsDict
<1>2. Live' = Live \ gone /\ Keeps(sessions', sessions)
  BY <1>1, WithoutKeepsOrder DEF Live
<1>3. Account' = [t \in DOMAIN Account \ (Live \intersect gone) |-> Account[t]]
  BY <1>2 DEF Account, Keeps, Live
<1>4. PICK g \in SUBSET Token : g = Live \intersect gone
  BY <1>1
<1>5. Store!End(g)
  BY <1>3, <1>4 DEF Store!End, Account
<1> QED
  BY <1>5 DEF Store!Next

\* open() is an Open step that ends the expired sessions and the evicted one.
LEMMA OpenIsOpen ==
  ASSUME IInv, NEW t \in Token, NEW u \in User, Open(t, u)
  PROVE  Store!Next
<1> DEFINE d == Unexpired
           e == Without(d, Evicted(d))
<1>1. Dict(sessions) /\ Ordered(sessions) /\ ByRecency(sessions)
      /\ Live \subseteq Token /\ Live \subseteq issued
  BY InvIsDict
<1>2. /\ DOMAIN d = Live \ Expired
      /\ Dict(d) /\ Ordered(d) /\ ByRecency(d) /\ Keeps(d, sessions)
  BY <1>1, WithoutKeepsOrder DEF Unexpired, Live
<1>3. sessions' = Inserted(e, t, u)
  BY DEF Open
<1> HIDE DEF d
<1>4. Keeps(e, d)
  <2>1. /\ DOMAIN e = DOMAIN d \ Evicted(d)
        /\ Dict(e) /\ Ordered(e) /\ ByRecency(e) /\ Keeps(e, d)
    BY <1>2, WithoutKeepsOrder
  <2> QED
    BY <2>1
<1> HIDE DEF e
<1>5. /\ DOMAIN sessions' = DOMAIN e \union {t}
      /\ \A s \in DOMAIN e : s # t => sessions'[s] = e[s]
      /\ sessions'[t].user = u
  BY <1>3 DEF Inserted
<1> DEFINE gone == Live \ DOMAIN e
<1>6. DOMAIN e \subseteq Live /\ t \notin Live
  BY <1>1, <1>2, <1>4 DEF Keeps, Live, Open
<1>7. Account' = [s \in (DOMAIN Account \ gone) \union {t} |->
                   IF s = t THEN u ELSE Account[s]]
  <2>1. DOMAIN Account = Live /\ Live' = (Live \ gone) \union {t}
    BY <1>5, <1>6 DEF Account, Live
  <2>2. ASSUME NEW s \in Live'
        PROVE  sessions'[s].user = IF s = t THEN u ELSE Account[s]
    <3>1. CASE s = t
      BY <1>5, <3>1
    <3>2. CASE s # t
      <4>1. s \in DOMAIN e /\ sessions'[s] = e[s]
        BY <1>5, <3>2 DEF Live
      <4>2. e[s].user = sessions[s].user
        BY <1>2, <1>4, <4>1 DEF Keeps
      <4>3. Account[s] = sessions[s].user
        BY <1>6, <4>1 DEF Account
      <4> QED
        BY <3>2, <4>1, <4>2, <4>3
    <3> QED
      BY <3>1, <3>2
  <2> QED
    BY <2>1, <2>2 DEF Account
<1>8. PICK g \in SUBSET Token : g = gone
  BY <1>1
<1>9. Store!Open(t, u, g)
  BY <1>7, <1>8 DEF Store!Open, Account, Open
<1> QED
  BY <1>9 DEF Store!Next

\* Every step is a step of the abstract store, or leaves it as it is.
LEMMA NextIsStoreStep ==
  ASSUME IInv, [Next]_vars
  PROVE  [Store!Next]_(Store!vars)
<1>1. ASSUME NEW gone, Remove(gone) PROVE Store!Next
  BY <1>1, RemovalIsEnd DEF Remove
<1>2. ASSUME NEW ms \in IdleTimeouts, SetIdleTimeout(ms) PROVE Store!Next
  BY <1>2, RemovalIsEnd DEF SetIdleTimeout, Unexpired
<1>3. ASSUME NEW t \in Token, NEW u \in User, Open(t, u) PROVE Store!Next
  BY <1>3, OpenIsOpen
<1>4. ASSUME NEW t \in Token, NEW refresh \in BOOLEAN, Resolve(t, refresh)
      PROVE  [Store!Next]_(Store!vars)
  <2>1. CASE IsExpired(t)
    BY <1>4, <2>1, RemovalIsEnd DEF Resolve
  <2>2. CASE ~IsExpired(t) /\ refresh
    <3>1. sessions' = MoveToEnd([sessions EXCEPT ![t].last_used = clock], t)
      BY <1>4, <2>2 DEF Resolve
    <3>2. Touches(sessions', sessions, t)
      BY <1>4, <3>1, MoveToEndKeepsOrder, InvIsDict
         DEF UsedInThePast, Resolve, Live
    <3>3. Account' = Account
      BY <3>2 DEF Touches, Account, Live
    <3> QED
      BY <1>4, <3>3 DEF Store!vars, Account, Resolve
  <2>3. CASE ~IsExpired(t) /\ ~refresh
    BY <1>4, <2>3 DEF Resolve, Store!vars, Live
  <2> QED
    BY <2>1, <2>2, <2>3
<1>5. ASSUME NEW t \in Token, Revoke(t) PROVE Store!Next
  BY <1>1, <1>5 DEF Revoke
<1>6. CASE RevokeAll
  BY <1>1, <1>6 DEF RevokeAll
<1>7. ASSUME NEW u \in User, RevokeUser(u) PROVE Store!Next
  BY <1>1, <1>7 DEF RevokeUser
<1>8. ASSUME NEW u \in User, NEW t \in Token, RevokeUserExcept(u, t)
      PROVE  Store!Next
  BY <1>1, <1>8 DEF RevokeUserExcept
<1>9. CASE DropExpired
  BY <1>1, <1>9 DEF DropExpired
<1>10. CASE Tick \/ Sleep \/ SetWallBack \/ UNCHANGED vars
  BY <1>10 DEF Tick, Sleep, SetWallBack, vars, Store!vars, Live
<1> QED
  BY <1>2, <1>3, <1>4, <1>5, <1>6, <1>7, <1>8, <1>9, <1>10 DEF Next

\* Whatever the clocks, the limits and the evictions do, a token belongs to one
\* account from the moment open() returns it until the session ends, and is
\* never accepted again.
THEOREM Refinement == Spec => ImplementsStore
<1>1. Init => Store!Init
  <2> SUFFICES ASSUME Init PROVE Store!Init
    OBVIOUS
  <2>1. Live = {}
    BY DEF Init, Live
  <2> QED
    BY <2>1 DEF Init, Store!Init
<1>2. IInv /\ [Next]_vars => [Store!Next]_(Store!vars)
  BY NextIsStoreStep
<1> QED
  BY <1>1, <1>2, InvHolds, PTL DEF Spec, ImplementsStore, Store!Spec
=============================================================================
