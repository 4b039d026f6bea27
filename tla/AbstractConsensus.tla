-------------------------- MODULE AbstractConsensus --------------------------
(***************************************************************************)
(* What the consensus core of one height promises (spec 8.1): each honest  *)
(* validator delivers at most one block, a delivered block is never taken  *)
(* back, and no two honest validators deliver different blocks.            *)
(***************************************************************************)
CONSTANTS
  Honest,   \* the honest validators
  Blocks,   \* candidate proposals
  None      \* no block delivered yet

VARIABLE decided    \* the block each honest validator delivered, or None

Init == decided = [n \in Honest |-> None]

\* Validator n delivers block b, the block every validator that has
\* delivered already delivered.
Decide(n, b) ==
  /\ decided[n] = None
  /\ \A m \in Honest : decided[m] \in {None, b}
  /\ decided' = [decided EXCEPT ![n] = b]

Next == \E n \in Honest, b \in Blocks : Decide(n, b)

Spec == Init /\ [][Next]_decided
=============================================================================
