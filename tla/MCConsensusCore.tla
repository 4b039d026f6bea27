--------------------------- MODULE MCConsensusCore ---------------------------
EXTENDS ConsensusCore, TLC

CONSTANTS A, B, C, D, X, Y

\* Four validators in address order, A the speaker of round 0.
MCValOrder == <<A, B, C, D>>
MCByzantine == {A}
MCBlocks == {X, Y}
\* Honest miners disagree on the block they want, so a new speaker's
\* proposal differs from what an equivocating A sent some nodes.
MCRequestOf == (A :> X) @@ (B :> Y) @@ (C :> X) @@ (D :> Y)
=============================================================================
