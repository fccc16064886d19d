SPECIFICATION Spec
CONSTANTS
  Request = {r1, r2}
  MaxUsers = 2
  MaxMaterials = 3
  MaxTokens = 2
  Ops <- PeopleOps
  UpdatePayloads <- OneField
SYMMETRY Symmetry
INVARIANTS VaultMatchesOwner OneVaultKey SomeAdministrator
  CommitsAreAuthorized NoOrphanSessions StaleSessionsAreDoomed
PROPERTIES SessionsAreAStore
