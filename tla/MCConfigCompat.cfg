\* 32 configs over heights 0..3; two restarts let a rewound chain grow
\* again under the new config before the next change.
CONSTANTS
  Nil = Nil
  SmiloEIP155 = TRUE
  MaxHead = 3
  MaxRestarts = 2
  Configs <- MCConfigs
  Genesis <- MCGenesis
SPECIFICATION Spec
INVARIANT ChainMatchesConfig
INVARIANT RewindToLowestConflict
\* The node's life is bounded by MaxHead and MaxRestarts.
CHECK_DEADLOCK FALSE
