SPECIFICATION Spec
CONSTANTS
  Procs = {daemon}
  Keys = {k1, k2}
  Digests = {d1, d2}
  NoDigest = NoDigest
  Absent = Absent
  NoKey = NoKey
INVARIANTS IndexesAgree DiskIsLastSave
PROPERTY ImplementsLedger
