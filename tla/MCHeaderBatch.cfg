\* N = 4, F = 1, Q = 3; a forged list {v1, o1} has Q = 2, which the
\* Byzantine validator and the outsider can meet alone.  Two headers: the
\* second is checked against the list the first carries, forged or not
\* (three headers take over three minutes and add no new case).
CONSTANTS
  v1 = v1  v2 = v2  v3 = v3  v4 = v4  o1 = o1
  BadSig = BadSig
  Validators <- MCValidators
  Outsiders <- MCOutsiders
  Byzantine <- MCByzantine
  Forged <- MCForged
  Proposers <- MCProposers
  BatchLen = 2
SPECIFICATION FairSpec
SYMMETRY Symmetry
INVARIANT InsertedCarryContractValidators
PROPERTY BatchSettles
\* One batch is verified and inserted; then both goroutines have returned.
CHECK_DEADLOCK FALSE
