\* A block-1 candidate may carry a deployer transaction, so the deployer
\* nonce at deployment may be 1; the contract set as before.
CONSTANTS
  GenesisVals <- MCGenesisVals
  ConfigUsers = {1, 2, 3}
  ValSets <- MCValSets
  MaxHeight = 3
  MaxDeployerTxs = 1
  MaxRestarts = 1
  CanRevert = TRUE
  Nil = Nil
SPECIFICATION Spec
INVARIANT ContractReachable
\* The chain stops at MaxHeight: every behaviour ends there.
CHECK_DEADLOCK FALSE
