SPECIFICATION Spec
CONSTANTS
  Pullers = {watcher}
  Uploaders = {app1}
  Shots = {"sd/101/a"}
  Keys = {"sd/101/a", "sd/100/a"}
  Uploads <- OneFrame
  Included = {"sd/101/a"}
  DeleteAfterImport = FALSE
  MaxSuffix = 0
  MaxErrors = 2
  MaxFaults = 0
  Contents <- MCContents
  EmptyFiles <- MCEmpty
  Folders <- MCFolders
  Names <- MCNames
  Paths <- MCPaths
  NameOf <- MCNameOf
  Frame <- MCFrame
  Unreadable = {}
  Dates <- MCDates
  Candidate <- MCCandidate
  None = None
PROPERTY NeverOverwritten
