--------------------------- MODULE MCPluginManager ---------------------------
EXTENDS PluginManager, TLC

CONSTANTS p1, p2, u1, c1, c2

MCPlugins == {p1, p2}
MCUnknown == {u1}
MCCallers == {c1, c2}

\* Plugins are interchangeable, and so are callers.
Symmetry == Permutations(MCPlugins) \cup Permutations(MCCallers)
=============================================================================
