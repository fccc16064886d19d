SPECIFICATION TwoAdminsSpec
CONSTANTS
  Request = {r1, r2}
  MaxUsers = 2
  MaxMaterials = 3
  MaxTokens = 3
  Ops <- UnlockRaceOps
  UpdatePayloads <- OneField
INVARIANTS RevocationIsComplete
