------------------------- MODULE MCCommitCertificate -------------------------
EXTENDS CommitCertificate, TLC

CONSTANTS v1, v2, v3, v4, o1, b1, b2, b3

MCValidators == {v1, v2, v3, v4}
MCOutsiders == {o1}
MCByzantine == {v1}
MCBlocks == {b1, b2, b3}

\* Honest validators are interchangeable, and so are the blocks.
Symmetry == Permutations({v2, v3, v4}) \cup Permutations(MCBlocks)
=============================================================================
