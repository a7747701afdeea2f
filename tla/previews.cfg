SPECIFICATION Spec
CONSTANTS
  Photos <- MCPhotos
  Jpegs <- MCJpegs
  Stem <- MCStem
  Taken <- MCTaken
  Handlers = {h1, h2}
  None = None
  Chunks = 2
  MaxTime = 1
  MaxEdits = 1
  MaxFaults = 1
INVARIANTS CachedIsWhole PreviewIsCurrent
SYMMETRY Alike
CHECK_DEADLOCK FALSE
