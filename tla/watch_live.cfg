SPECIFICATION FairSpec
CONSTANTS
  Shots = {s1, s2}
  Previewers = {app}
  MaxErrors = 2
  MaxFaults = 1
  KeepsNews = TRUE
INVARIANTS PollExclusive NothingForgotten RequestKept
PROPERTIES RequestsAnswered EventuallyTried StopsCleanly
CHECK_DEADLOCK FALSE
