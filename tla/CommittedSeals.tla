--------------------------- MODULE CommittedSeals ---------------------------
(***************************************************************************)
(* Header verification of the BFT backends, as pure operators.            *)
(*                                                                         *)
(* A committed seal is an ECDSA signature over Keccak256(hash || 0x02);   *)
(* the code only ever uses the address GetSignatureAddress recovers from   *)
(* it, so a seal is modelled by that address, or by BadSig when recovery   *)
(* fails.  The proposer seal is modelled the same way (ecrecover).         *)
(* The standalone header checks of verifyHeader (future time, extra-data   *)
(* format, nonce, mix digest, uncle hash, difficulty) and the parent and   *)
(* timestamp checks of verifyCascadingFields each only reject, so they are *)
(* abstracted to one flag wellFormed.                                       *)
(***************************************************************************)
EXTENDS Naturals, Sequences, FiniteSets

CONSTANTS
  Validators,   \* the parent block's validator set
  Outsiders,    \* addresses that hold keys but are not validators
  BadSig        \* a seal from which no address can be recovered

ASSUME Validators # {} /\ Validators \cap Outsiders = {}
ASSUME BadSig \notin Validators \cup Outsiders

\* What recovering the signer of one seal can give.
Seals == Validators \cup Outsiders \cup {BadSig}

\* Quorum arithmetic of the validator set: F = floor((N-1)/3), Q = ceil(2N/3).
F(vals) == (Cardinality(vals) - 1) \div 3
Quorum(vals) == (2 * Cardinality(vals) + 2) \div 3

\* Mutant: the seal loop forgets to take a signer out of the copied set.
RemoveValidatorKeep(vals, addr) == vals

\* RemoveValidator on the copied set: the set without addr.
RemoveValidator(vals, addr) == vals \ {addr}

\* The loop over extra.CommittedSeal: every seal must recover to a member of
\* what is left of the copied validator set, which it then leaves; returns
\* the first error, or the number of valid seals.
RECURSIVE CountCommittedSeals(_, _, _)
CountCommittedSeals(seals, vals, validSeal) ==
  IF seals = <<>> THEN [err |-> "nil", validSeal |-> validSeal]
  ELSE CASE Head(seals) = BadSig ->
              [err |-> "ErrInvalidSignature", validSeal |-> validSeal]
         [] Head(seals) \notin vals ->
              [err |-> "ErrInvalidCommittedSeals", validSeal |-> validSeal]
         [] OTHER ->
              CountCommittedSeals(Tail(seals),
                                  RemoveValidator(vals, Head(seals)),
                                  validSeal + 1)

\* verifyCommittedSeals, given the minimum number of valid seals the engine
\* requires.
verifyCommittedSeals(seals, vals, minSeals) ==
  LET r == CountCommittedSeals(seals, vals, 0) IN
  CASE seals = <<>>          -> "ErrEmptyCommittedSeals"
    [] r.err # "nil"         -> r.err
    [] r.validSeal < minSeals -> "ErrInvalidCommittedSeals"
    [] OTHER                 -> "nil"

\* Mutant: an off-by-one in the quorum comparison.
TendermintMinSealsOffByOne(vals) == Quorum(vals) - 1

\* The tendermint backend requires a quorum of seals ...
TendermintMinSeals(vals) == Quorum(vals)

\* ... the sport backend requires 2F (validSeal < 2*F fails).
SportMinSeals(vals) == 2 * F(vals)

\* verifySigner: the proposer seal must recover to a parent validator.
verifySigner(signer, vals) ==
  CASE signer = BadSig       -> "ErrInvalidSignature"
    [] signer \notin vals    -> "errUnauthorized"
    [] OTHER                 -> "nil"

\* verifyHeader -> verifyCascadingFields -> verifySigner ->
\* verifyCommittedSeals, in the code's order.
verifyHeader(h, vals, minSeals) ==
  CASE ~h.wellFormed                            -> "ErrMalformedHeader"
    [] verifySigner(h.proposer, vals) # "nil"   -> verifySigner(h.proposer, vals)
    [] OTHER -> verifyCommittedSeals(h.seals, vals, minSeals)
=============================================================================
