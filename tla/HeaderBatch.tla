----------------------------- MODULE HeaderBatch -----------------------------
(***************************************************************************)
(* Batch header verification of the tendermint backend (VerifyHeaders,    *)
(* consensus/tendermint/backend/engine.go) and the chain insertion that    *)
(* reads its results.                                                      *)
(*                                                                         *)
(* VerifyHeaders starts one goroutine that verifies the headers in input   *)
(* order, header i with the unverified headers[:i] as parents, and sends   *)
(* each error on a results channel of capacity len(headers); the caller    *)
(* reads one result per header, stops at the first error and closes the    *)
(* abort channel when it returns.  With parents, retrieveValidators takes  *)
(* the validator set from the parent's extra data, so every header after   *)
(* the first is checked against a set only the batch itself vouches for.   *)
(*                                                                         *)
(* A peer hands the node a batch: each header carries a validator list     *)
(* (the contract's Validators, or a Forged one), a proposer seal and a set *)
(* of committed seals.  Honest validators seal only headers their own      *)
(* Finalize produced, which carry the contract's Validators.  The stored   *)
(* head, parent of the first header, carries Validators.  The standalone  *)
(* checks and the parent-hash and timestamp checks only reject, so every   *)
(* header is taken as passing them (wellFormed).                           *)
(***************************************************************************)
EXTENDS CommittedSeals, SequencesExt

CONSTANTS
  Byzantine,    \* validators that seal whatever they are asked to
  Forged,       \* a validator list a peer writes into a header's extra
  Proposers,    \* who a header's proposer seal recovers to
  BatchLen      \* number of headers in the batch

ASSUME Byzantine \subseteq Validators /\ Cardinality(Byzantine) <= F(Validators)
ASSUME Forged # Validators /\ Forged \subseteq Validators \cup Outsiders
ASSUME Proposers \subseteq Seals /\ BatchLen \in Nat \ {0}

Honest == Validators \ Byzantine
Idx == 1..BatchLen

\* The headers a peer can build: honest seals only on a header with the
\* contract's validator list.  Seals are kept as the set of their signers.
SealersOf(vs) ==
  Byzantine \cup Outsiders \cup (IF vs = Validators THEN Honest ELSE {})

Headers ==
  UNION {[vals : {vs}, proposer : Proposers, sealers : SUBSET SealersOf(vs)] :
           vs \in {Validators, Forged}}

VARIABLES
  batch,        \* the headers handed to VerifyHeaders, in input order
  verified,     \* headers the goroutine has verified and sent a result for
  running,      \* the goroutine has not returned
  results,      \* errors buffered in the results channel
  abortClosed,  \* the caller closed abort (its deferred close ran)
  inserted,     \* headers the caller inserted, a prefix of the batch
  reading       \* the caller is still reading results

vars == <<batch, verified, running, results, abortClosed, inserted, reading>>

\* Mutant: the validator set is read from the header's own extra.
retrieveValidatorsOwnExtra(i) == batch[i].vals

\* retrieveValidators: from the last parent's extra when parents are
\* passed, else retrieveSavedValidators of the stored head.
retrieveValidators(i) == IF i > 1 THEN batch[i - 1].vals ELSE Validators

\* verifyHeader(chain, headers[i], headers[:i]) of the tendermint backend.
\* The seal list is the signer set in some order: without unrecoverable
\* seals the loop's verdict does not depend on the order.
BatchVerdict(i) ==
  verifyHeader([wellFormed |-> TRUE, proposer |-> batch[i].proposer,
                seals |-> SetToSeq(batch[i].sealers)],
               retrieveValidators(i), TendermintMinSeals(retrieveValidators(i)))

\* make(chan error, len(headers))
ResultsCap == BatchLen

Init ==
  /\ batch \in [Idx -> Headers]
  /\ verified = 0 /\ running = TRUE /\ results = <<>>
  /\ abortClosed = FALSE /\ inserted = 0 /\ reading = TRUE

-----------------------------------------------------------------------------
(* The goroutine of VerifyHeaders                                         *)

\* Mutant: the loop stops one header short.
VerifySendShort ==
  /\ running /\ Len(results) < ResultsCap
  /\ results' = Append(results, BatchVerdict(verified + 1))
  /\ verified' = verified + 1
  /\ running' = (verified + 2 < BatchLen)
  /\ UNCHANGED <<batch, abortClosed, inserted, reading>>

\* Verify the next header; the select takes `results <- err` (always ready
\* while the buffer has room); the loop ends after the last header.
VerifySend ==
  /\ running /\ Len(results) < ResultsCap
  /\ results' = Append(results, BatchVerdict(verified + 1))
  /\ verified' = verified + 1
  /\ running' = (verified + 1 < BatchLen)
  /\ UNCHANGED <<batch, abortClosed, inserted, reading>>

\* Verify the next header; with abort closed the select may take
\* `case <-abort: return` instead (Go picks either ready case).
VerifyAbort ==
  /\ running /\ abortClosed
  /\ running' = FALSE
  /\ UNCHANGED <<batch, verified, results, abortClosed, inserted, reading>>

-----------------------------------------------------------------------------
(* The caller: insertChain / ValidateHeaderChain in core/, outside the    *)
(* repository: `err := <-results` per header, return at the first error,  *)
(* `defer close(abort)`.                                                   *)

\* Mutant: an error is logged and the header inserted anyway.
ReceiveIgnoreError ==
  /\ reading /\ results # <<>>
  /\ results' = Tail(results)
  /\ inserted' = inserted + 1
  /\ reading' = (inserted + 1 < BatchLen)
  /\ abortClosed' = (inserted + 1 = BatchLen)
  /\ UNCHANGED <<batch, verified, running>>

Receive ==
  /\ reading /\ results # <<>>
  /\ results' = Tail(results)
  /\ IF Head(results) = "nil"
       THEN /\ inserted' = inserted + 1
            /\ reading' = (inserted + 1 < BatchLen)
            /\ abortClosed' = (inserted + 1 = BatchLen)
       ELSE /\ reading' = FALSE /\ abortClosed' = TRUE
            /\ UNCHANGED inserted
  /\ UNCHANGED <<batch, verified, running>>

Next == VerifySend \/ VerifyAbort \/ Receive

Spec == Init /\ [][Next]_vars

\* The goroutine and the caller are runnable goroutines; Go schedules them.
FairSpec == Spec /\ WF_vars(VerifySend \/ VerifyAbort) /\ WF_vars(Receive)

-----------------------------------------------------------------------------
(* Properties                                                              *)

\* No header carrying a validator list the contract did not produce enters
\* the chain: later headers of a batch are checked against the list of an
\* unverified parent, and only the caller's stop at the first error keeps
\* a header verified against a forged parent out (engine.go:662-670).
InsertedCarryContractValidators ==
  \A i \in 1..inserted : batch[i].vals = Validators

\* The batch settles: the caller gets a result for every header up to the
\* first error, and the VerifyHeaders goroutine returns, also when the
\* caller stopped reading early (results capacity, abort case).
BatchSettles ==
  <>[](~running /\ ~reading)
=============================================================================
