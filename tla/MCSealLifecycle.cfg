\* Three mining works and two engine starts: enough for a stale result left
\* by one Seal call to meet the next call, and for a restart under a Seal.
CONSTANTS
  MaxSeals = 3
  MaxStarts = 2
SPECIFICATION Spec
INVARIANT TypeOK
INVARIANT NoSendOnClosedChannel
\* The code really can stop: a panic ends the process and a blocked
\* sendResultChan holds coreMu for good (runs seal_panic, commit_send).
CHECK_DEADLOCK FALSE
