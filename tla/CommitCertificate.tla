-------------------------- MODULE CommitCertificate --------------------------
(***************************************************************************)
(* One block height seen from the chain layer: honest validators commit   *)
(* (send a committed seal for) at most one block, Byzantine validators and *)
(* outsiders sign anything, and any peer may hand any node a header built  *)
(* from the seals that exist.  A node inserts a block only when the       *)
(* backend's verifyHeader accepts its header.                              *)
(*                                                                         *)
(* Honest commits abstract the consensus core: a node commits only after  *)
(* Prepared, which locks it on that block for the rest of the height, so  *)
(* it never seals two blocks of one height.                                *)
(***************************************************************************)
EXTENDS CommittedSeals, SequencesExt

CONSTANTS
  Byzantine,    \* validators that sign whatever they are asked to
  Blocks,       \* candidate blocks of this height (header hash without seals)
  NoBlock,      \* an honest validator that has committed nothing yet
  MaxSeals,     \* longest committed-seal list a forged header carries
  Engine        \* "tendermint" or "sport": whose verifyCommittedSeals runs

ASSUME Byzantine \subseteq Validators /\ Cardinality(Byzantine) <= F(Validators)
ASSUME NoBlock \notin Blocks /\ MaxSeals \in Nat /\ Engine \in {"tendermint", "sport"}

Honest == Validators \ Byzantine

VARIABLES
  committed,    \* committed[v]: the block honest v sent a committed seal for
  proposerOf,   \* proposerOf[b]: what ecrecover gives for b's proposer seal
  accepted      \* blocks some node inserted after verifyHeader accepted them

vars == <<committed, proposerOf, accepted>>

MinSeals(vals) ==
  IF Engine = "sport" THEN SportMinSeals(vals) ELSE TendermintMinSeals(vals)

\* Seals over b that exist: an honest validator's only if it committed b.
SealsFor(b) ==
  Byzantine \cup Outsiders \cup {BadSig} \cup {v \in Honest : committed[v] = b}

Init ==
  /\ committed = [v \in Honest |-> NoBlock]
  /\ proposerOf \in [Blocks -> Seals]
  /\ accepted = {}

\* Honest v reaches Committed on b: its pre-prepare check ran verifySigner on
\* b's header, and its lock keeps it from committing a second block.
Commit(v, b) ==
  /\ committed[v] = NoBlock
  /\ verifySigner(proposerOf[b], Validators) = "nil"
  /\ committed' = [committed EXCEPT ![v] = b]
  /\ UNCHANGED <<proposerOf, accepted>>

\* A node receives a header for b with any committed-seal list that can be
\* built, and inserts b when verifyHeader returns nil.
ImportHeader(b) ==
  /\ \E seals \in BoundedSeq(SealsFor(b), MaxSeals), wf \in BOOLEAN :
        verifyHeader([wellFormed |-> wf, proposer |-> proposerOf[b],
                      seals |-> seals], Validators, MinSeals(Validators)) = "nil"
  /\ accepted' = accepted \cup {b}
  /\ UNCHANGED <<committed, proposerOf>>

Next ==
  \/ \E v \in Honest, b \in Blocks : Commit(v, b)
  \/ \E b \in Blocks \ accepted : ImportHeader(b)

Spec == Init /\ [][Next]_vars

-----------------------------------------------------------------------------
(* Properties                                                              *)

\* Single decision per height: verifyHeader never lets two different blocks
\* of the same height in, whatever seals a Byzantine minority adds to the
\* headers it hands out (spec section 8, invariant 1).
AcceptedBlocksAgree ==
  \A b1, b2 \in accepted : b1 = b2

\* Quorum floor with seal validity: a block verifyHeader accepted carries
\* seals of a quorum of distinct validators, so at least Q - |Byzantine|
\* honest validators committed it (spec section 8, invariants 2 and 3).
AcceptedBackedByQuorum ==
  \A b \in accepted :
     Cardinality({v \in Honest : committed[v] = b})
        >= Quorum(Validators) - Cardinality(Byzantine)
=============================================================================
