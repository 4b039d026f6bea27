\* N = 4, F = 1, Q = 3, one Byzantine validator, tendermint verifyCommittedSeals.
CONSTANTS
  v1 = v1  v2 = v2  v3 = v3  v4 = v4  o1 = o1
  b1 = b1  b2 = b2  b3 = b3
  BadSig = BadSig
  NoBlock = NoBlock
  Validators <- MCValidators
  Outsiders <- MCOutsiders
  Byzantine <- MCByzantine
  Blocks <- MCBlocks
  MaxSeals = 4
  Engine = "tendermint"
SPECIFICATION Spec
SYMMETRY Symmetry
INVARIANT AcceptedBlocksAgree
INVARIANT AcceptedBackedByQuorum
\* One height is modelled: it ends once every honest validator committed and
\* every acceptable header was imported, so the model really stops.
CHECK_DEADLOCK FALSE
