SPECIFICATION FairSpec
CONSTANTS
  Pullers = {watcher}
  Uploaders = {app1}
  Shots = {"sd/100/a", "sd/101/a", "cf/100/a"}
  Keys = {"sd/100/a", "sd/101/a", "cf/100/a", "upload/device/b"}
  Uploads <- Renamed
  Included = {"sd/100/a", "sd/101/a", "cf/100/a"}
  DeleteAfterImport = FALSE
  MaxSuffix = 0
  MaxErrors = 2
  MaxFaults = 3
  Contents <- MCContents
  EmptyFiles <- MCEmpty
  Folders <- MCFolders
  Names <- MCNames
  Paths <- MCPaths
  NameOf <- MCNameOf
  Frame <- MCFrame
  Unreadable = {}
  Dates <- MCDates
  Candidate <- MCCandidate
  None = None
INVARIANT NoTwinCopies
PROPERTY EventuallyImported
