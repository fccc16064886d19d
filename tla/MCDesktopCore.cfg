SPECIFICATION Spec
CONSTANTS
  Request = {1, 2}
  Unlock = {1}
  MaxWaiting = 2
  MaxQueued = 1
  MaxInFlight = 1
  MaxRestarts = 1
  MaxFaults = 1
INVARIANTS SupervisorIsSound HandledOnce KeysAreWatched
PROPERTIES LockEndsTheKeys RevokedRequestsStop NeverStuck
CHECK_DEADLOCK FALSE
