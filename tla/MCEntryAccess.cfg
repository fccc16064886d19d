SPECIFICATION Spec
CONSTANTS
  User <- People
  Admin <- Admins
  Service <- Services
  ServiceOwner <- Roles
  Group = {"g"}
  Name = {x, y}
  GroupName = {"team"}
  MaxEntries = 1
  MaxFolders = 2
  MaxTime = 1
  MaxGrants = 2
  Managed = {"ola"}
  Offered <- TwoOffers
SYMMETRY Symmetry
INVARIANTS TablesAreSound DocumentNamesItsFolder EntriesFollowUnlessStrayed
  ViewsAgree TrailTellsTheGrants
PROPERTIES AccessIsGranted
CHECK_DEADLOCK FALSE
