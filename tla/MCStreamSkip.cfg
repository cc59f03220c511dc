SPECIFICATION Spec
CONSTANTS
  s = s
  b = b
  Topics = {s, b}
  MaxEvents = 2
  Limit = 3
  MaxRepeats = 1
  MaxTrims = 1
  MaxDrops = 2
INVARIANT NeverSkipped
CHECK_DEADLOCK FALSE
