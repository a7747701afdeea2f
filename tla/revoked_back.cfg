SPECIFICATION Spec
CONSTANTS
  Devices = {d1, d2}
  Handlers = {h1}
  Commands = {k1}
  Daemon = Daemon
  Local = Local
  Codes = {c1}
  MaxAttempts = 2
  Times = {1, 2, 3, 4, 5}
  Torn = Torn
  Garbled = Garbled
  None = None
  MaxFaults = 0
  GoesOn = TRUE
INVARIANT TokenStopsWorking
CHECK_DEADLOCK FALSE
