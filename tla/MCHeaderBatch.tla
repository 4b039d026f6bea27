---------------------------- MODULE MCHeaderBatch ----------------------------
EXTENDS HeaderBatch, TLC

CONSTANTS v1, v2, v3, v4, o1

MCValidators == {v1, v2, v3, v4}
MCOutsiders == {o1}
MCByzantine == {v1}
\* The Byzantine validator and an outsider name themselves the validators.
MCForged == {v1, o1}
MCProposers == {v1, o1}

\* Honest validators are interchangeable.
Symmetry == Permutations({v2, v3, v4})
=============================================================================
