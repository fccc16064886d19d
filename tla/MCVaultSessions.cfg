SPECIFICATION FairSpec
CONSTANTS
  Token = {t1, t2, t3}
  User = {u1, u2}
  MaxSessions = 2
  IdleTimeouts = {1, 2}
  Tolerance = 0
  MaxLifetime = 2
  MaxClock = 2
INVARIANTS TypeOK LeastRecentlyUsedFirst SessionsBounded
PROPERTIES EndedForGood EvictsOnlyWhenFull ImplementsStore EndedKeysAreDropped
