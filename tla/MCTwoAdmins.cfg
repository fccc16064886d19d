SPECIFICATION TwoAdminsSpec
CONSTANTS
  Request = {r1, r2}
  MaxUsers = 2
  MaxMaterials = 3
  MaxTokens = 2
  Ops <- RaceOps
  UpdatePayloads <- OneField
SYMMETRY Symmetry
INVARIANT AdministrationIsSafe
