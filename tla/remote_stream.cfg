SPECIFICATION FairSpec
CONSTANTS
  Publishers = {"manager", "stdout", "stderr", "watcher"}
  Streams = {page}
  Messages <- MCMessages
  HistorySize = 3
  ReplaySize = 2
  Buffer = 2
  Nobody = Nobody
  Modes = {"none", "unknown", "tailscale", "external", "unnamed", "missing", "named", "quick"}
  Advertised = FALSE
  Nodes = {"node1", "node2"}
  Tunnels = {"tunnel1", "tunnel2"}
  MinDelay = 2
  MaxDelay = 3
  LeavesChild = TRUE
  MaxFaults = 1
  MaxEvents = 1
INVARIANTS NeverSentClosed NoGap InOrder StatusIsCurrent StreamShowsStatus NothingLeftRunning
PROPERTIES PublishingEnds KeepsTrying Stops
CHECK_DEADLOCK FALSE
