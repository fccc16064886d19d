SPECIFICATION Spec
CONSTANTS
  User <- People
  Admin <- Admins
  Service <- Services
  ServiceOwner <- Roles
  Group = {"g"}
  Name = {x, y}
  GroupName = {"team"}
  MaxEntries = 1
  MaxFolders = 1
  MaxTime = 0
  MaxGrants = 1
  Managed = {}
  Offered <- WriteForGood
INVARIANT EntriesFollowTheirFolder
CHECK_DEADLOCK FALSE
