\* Genesis lists 3 validators out of address order; the contract is
\* deployed with the same set; blocks 2..4 may shrink or restore it, with
\* two restarts, so Prepare sorts both the genesis list and lists the
\* contract wrote, on the miner's and on a restarted node's path.
CONSTANTS
  GenesisVals <- MCGenesisVals
  ConfigUsers = {1, 2, 3}
  ValSets <- MCValSets
  MaxHeight = 4
  MaxDeployerTxs = 0
  MaxRestarts = 2
  CanRevert = TRUE
  Nil = Nil
SPECIFICATION Spec
INVARIANT PreparedSorted
\* The chain stops at MaxHeight: every behaviour ends there.
CHECK_DEADLOCK FALSE
