\* A Seal call still waiting when the node stops and restarts the engine.
CONSTANTS
  MaxSeals = 2
  MaxStarts = 2
SPECIFICATION Spec
INVARIANT SealNeverPanics
CHECK_DEADLOCK FALSE
