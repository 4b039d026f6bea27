---------------------------- MODULE MCHeaderCodec ----------------------------
EXTENDS HeaderCodec, TLC

CONSTANTS v1, o1, g, z, x

\* The zero byte and one other.
MCBytes == {z, x}

MCValidators == {v1}
MCOutsiders == {o1, g}
\* Two validator lists, so a second Prepare changes the signing hash.
MCValLists == {<<v1>>, <<v1, o1>>}
=============================================================================
