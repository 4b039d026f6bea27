------------------------- MODULE MCValidatorHandoff -------------------------
EXTENDS ValidatorHandoff

MCGenesisVals == <<3, 1, 2>>
MCValSets == {{1, 2}, {1, 2, 3}}
=============================================================================
