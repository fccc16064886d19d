SPECIFICATION Spec
CONSTANTS
  Process = {p1, p2}
  MaxVaults = 2
  MaxCommits = 2
  MaxKept = 2
  Ops <- AllOps
SYMMETRY Symmetry
INVARIANTS FilesAreSound NothingIsLost SetAsideCanResume
  RollbackIsThere InterruptedRestoreIsComplete
