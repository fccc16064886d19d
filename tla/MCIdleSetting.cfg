SPECIFICATION Spec
CONSTANTS
  Request = {r1, r2, r3}
  Timeouts = {1, 2, 3}
  Default = 2
  Ops <- AllOps
SYMMETRY Symmetry
INVARIANT TimeoutIsSound
