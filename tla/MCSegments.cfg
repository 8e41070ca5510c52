CONSTANTS
  None = None
  Event = {e1}
  Export = {x1}
  Exporter = {g1}
  Chunk = 1
SPECIFICATION Spec
CHECK_DEADLOCK FALSE
INVARIANT SegmentsAreStored
