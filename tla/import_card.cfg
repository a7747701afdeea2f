SPECIFICATION PoliteSpec
CONSTANTS
  Pullers = {watcher}
  Uploaders = {app1}
  Shots = {"sd/100/a", "sd/100/a_1"}
  Keys = {"sd/100/a", "sd/100/a_1", "upload/device/a"}
  Uploads <- FieldUploads
  Included = {"sd/100/a", "sd/100/a_1"}
  DeleteAfterImport = TRUE
  MaxSuffix = 0
  MaxErrors = 2
  MaxFaults = 2
  Contents <- MCContents
  EmptyFiles <- MCEmpty
  Folders <- MCFolders
  Names <- MCNames
  Paths <- MCPaths
  NameOf <- MCNameOf
  Frame <- MCFrame
  Unreadable <- SecondUnreadable
  Dates <- MCDates
  Candidate <- MCCandidate
  None = None
INVARIANTS EntriesTruthful DeletedIsRecorded StagingClean AckedIsKept
PROPERTIES NeverOverwritten UsesLedger
