\* Three mining works against one engine start: a stale result left in
\* commitCh by a stopped Seal call and a second hand-over.
CONSTANTS
  MaxSeals = 3
  MaxStarts = 1
SPECIFICATION FairSpec
PROPERTY CommitSendCompletes
CHECK_DEADLOCK FALSE
