\* N = 4 (F = 1, Q = 3) with the round-0 speaker Byzantine, two blocks,
\* rounds 0..2: the equivocation scenario S3 of the spec and two round
\* changes after it, checked against AbstractConsensus.
CONSTANTS
  A = A
  B = B
  C = C
  D = D
  X = X
  Y = Y
  None = None
  MaxRound = 2
  ValOrder <- MCValOrder
  Byzantine <- MCByzantine
  Blocks <- MCBlocks
  RequestOf <- MCRequestOf
SPECIFICATION Spec
PROPERTY Refinement
\* The height can end (every honest node committed) or stall once rounds
\* are exhausted.
CHECK_DEADLOCK FALSE
