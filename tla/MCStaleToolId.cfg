SPECIFICATION Spec
CONSTANTS
  Person = {"ann", "ola"}
  Admin = {"ann"}
  Service = {"bot"}
  ServiceOwner <- Owners
  Name = {"a", "b"}
  Value = {"typed"}
  FolderName = {"x"}
  CsvFile <- CsvFiles
  OtherFile <- OtherFiles
  MigrationFile <- Archives
  MaxIds = 6
  MaxChanges = 3
  MaxFiles = 2
  MaxFrames = 8
INVARIANTS ToolsActOnTheirEntry
CHECK_DEADLOCK FALSE
