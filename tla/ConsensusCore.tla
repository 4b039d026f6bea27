---------------------------- MODULE ConsensusCore ----------------------------
(***************************************************************************)
(* The round-based consensus core of one height (spec 4.4), with the       *)
(* per-round state of sportdao/smilobftcore/model.go: roundState,          *)
(* messageSet (one message per sender) and roundChangeSet.                 *)
(*                                                                         *)
(* Honest validators run the handlers; the Byzantine ones have sent every  *)
(* message they could from the start (equivocation included).  Messages    *)
(* are never consumed: a message may be handled late, more than once (the  *)
(* messageSet ignores the second copy) or never, which covers loss,        *)
(* duplication, reordering and the backlog of early messages.  A round     *)
(* timer may fire at any time before a decision (no synchrony is assumed   *)
(* for safety).  Speakers rotate round-robin over the validator order.     *)
(***************************************************************************)
EXTENDS Naturals, FiniteSets, Sequences

CONSTANTS
  ValOrder,    \* the validator set, in its order (sequence of nodes)
  Byzantine,   \* the faulty validators
  Blocks,      \* candidate proposals
  RequestOf,   \* the block each validator's miner asks it to propose
  MaxRound,    \* rounds 0..MaxRound
  None

Nodes == {ValOrder[i] : i \in 1..Len(ValOrder)}
Honest == Nodes \ Byzantine
Rounds == 0..MaxRound
N == Len(ValOrder)

ASSUME RequestOf \in [Nodes -> Blocks] /\ None \notin Blocks

\* F = (N-1)/3 and the quorum Q = ceil(2N/3) of the validator set.
F == (N - 1) \div 3

\* Mutant: the catch-up threshold F+1 used as the quorum.
QuorumSizeFPlusOne == F + 1

QuorumSize == (2 * N + 2) \div 3

\* Round-robin speaker of round r within one height.
Speaker(r) == ValOrder[(r % N) + 1]

Msgs ==
  [type : {"PrePrepare", "Prepare", "Commit"}, round : Rounds,
   block : Blocks, sender : Nodes]
  \cup [type : {"RoundChange"}, round : Rounds, block : {None},
        sender : Nodes]

States == {"AcceptRequest", "PrePrepared", "Prepared", "Committed"}

VARIABLES
  round,       \* roundState.round
  state,       \* core.state
  waiting,     \* core.waitingForRoundChange
  proposal,    \* roundState.Preprepare's block, or None
  lockedHash,  \* roundState.lockedHash, or None
  sentPP,      \* core.sentPreprepare
  decided,     \* the block delivered on commitCh, or None
  msgs         \* every message sent so far

vars == <<round, state, waiting, proposal, lockedHash, sentPP, decided, msgs>>

Msg(t, r, b, s) == [type |-> t, round |-> r, block |-> b, sender |-> s]

\* A messageSet for (type, round, block): one entry per sender address.  A
\* node may act on a threshold as soon as that many senders have sent the
\* message (it may have received them all), or later, or never.
Senders(t, r, b) == {m.sender : m \in {x \in msgs : x.type = t /\ x.round = r
                                                   /\ x.block = b}}

\* core.New: state AcceptRequest, round 0, nothing proposed or locked.
Init ==
  /\ round = [n \in Honest |-> 0]
  /\ state = [n \in Honest |-> "AcceptRequest"]
  /\ waiting = [n \in Honest |-> FALSE]
  /\ proposal = [n \in Honest |-> None]
  /\ lockedHash = [n \in Honest |-> None]
  /\ sentPP = [n \in Honest |-> FALSE]
  /\ decided = [n \in Honest |-> None]
  /\ msgs = {m \in Msgs : m.sender \in Byzantine}

-----------------------------------------------------------------------------
(* Handlers of an honest validator n.                                      *)

\* newRoundState for round r: a fresh view with empty Prepares and Commits;
\* lockedHash is kept, and so is the Preprepare when the node holds a lock
\* (spec 4.4 RoundState), else none; `wait` is waitingForRoundChange.
NewRoundState(n, r, wait) ==
  /\ round' = [round EXCEPT ![n] = r]
  /\ state' = [state EXCEPT ![n] = "AcceptRequest"]
  /\ waiting' = [waiting EXCEPT ![n] = wait]
  /\ proposal' = [proposal EXCEPT ![n] = IF lockedHash[n] # None THEN @ ELSE None]
  /\ lockedHash' = lockedHash
  /\ sentPP' = [sentPP EXCEPT ![n] = FALSE]

\* Move to round r waiting for its round change; broadcast RoundChange(r).
SendRoundChange(n, r) ==
  /\ NewRoundState(n, r, TRUE)
  /\ msgs' = msgs \cup {Msg("RoundChange", r, None, n)}
  /\ UNCHANGED decided

\* The speaker of the current view proposes its locked block if it holds a
\* lock, else its pending request.
Propose(n) ==
  /\ Speaker(round[n]) = n /\ state[n] = "AcceptRequest"
  /\ ~waiting[n] /\ ~sentPP[n]
  /\ LET b == IF lockedHash[n] # None THEN lockedHash[n] ELSE RequestOf[n]
     IN msgs' = msgs \cup {Msg("PrePrepare", round[n], b, n)}
  /\ sentPP' = [sentPP EXCEPT ![n] = TRUE]
  /\ UNCHANGED <<round, state, waiting, proposal, lockedHash, decided>>

PrePrepareFor(n, m) ==
  /\ m.type = "PrePrepare"
  /\ m.round = round[n] /\ m.sender = Speaker(round[n])
  /\ state[n] = "AcceptRequest" /\ ~waiting[n]

AcceptProposal(n, b) ==
  /\ state' = [state EXCEPT ![n] = "PrePrepared"]
  /\ proposal' = [proposal EXCEPT ![n] = b]
  /\ msgs' = msgs \cup {Msg("Prepare", round[n], b, n)}
  /\ UNCHANGED <<round, waiting, lockedHash, sentPP, decided>>

\* The first PrePrepare of the speaker: a node locked on another block asks
\* for the next round; otherwise it stores the proposal and sends Prepare.
HandlePrePrepare(n, m) ==
  /\ PrePrepareFor(n, m)
  /\ IF lockedHash[n] # None /\ m.block # lockedHash[n]
       THEN round[n] < MaxRound /\ SendRoundChange(n, round[n] + 1)
       ELSE AcceptProposal(n, m.block)

\* Q Prepares for the proposal of this view: Prepared, lock, send Commit.
HandlePrepare(n) ==
  /\ state[n] = "PrePrepared" /\ ~waiting[n]
  /\ Cardinality(Senders("Prepare", round[n], proposal[n])) >= QuorumSize
  /\ state' = [state EXCEPT ![n] = "Prepared"]
  /\ lockedHash' = [lockedHash EXCEPT ![n] = proposal[n]]
  /\ msgs' = msgs \cup {Msg("Commit", round[n], proposal[n], n)}
  /\ UNCHANGED <<round, waiting, proposal, sentPP, decided>>

\* Q Commits for the proposal of this view: Committed, the sealed block
\* goes to the backend.  Commits are admitted once the node has a proposal
\* (PrePrepared or Prepared); before that they are future messages.
HandleCommit(n) ==
  /\ state[n] \in {"PrePrepared", "Prepared"} /\ ~waiting[n]
  /\ Cardinality(Senders("Commit", round[n], proposal[n])) >= QuorumSize
  /\ state' = [state EXCEPT ![n] = "Committed"]
  /\ decided' = [decided EXCEPT ![n] = proposal[n]]
  /\ UNCHANGED <<round, waiting, proposal, lockedHash, sentPP, msgs>>

\* The round timer fires before a decision.
Timeout(n) ==
  /\ state[n] # "Committed" /\ round[n] < MaxRound
  /\ SendRoundChange(n, round[n] + 1)

\* F+1 RoundChange messages for a round above the current one: catch up to
\* the smallest such round.
CatchUp(n) ==
  LET ahead == {r \in Rounds : r > round[n] /\
                  Cardinality(Senders("RoundChange", r, None)) >= F + 1}
  IN /\ state[n] # "Committed" /\ ahead # {}
     /\ SendRoundChange(n, CHOOSE r \in ahead : \A x \in ahead : r <= x)

\* Q RoundChange messages for the round the node waits on start it.
EnterRound(n) ==
  /\ waiting[n]
  /\ Cardinality(Senders("RoundChange", round[n], None)) >= QuorumSize
  /\ waiting' = [waiting EXCEPT ![n] = FALSE]
  /\ UNCHANGED <<round, state, proposal, lockedHash, sentPP, decided, msgs>>

Next ==
  \E n \in Honest :
    \/ Propose(n) \/ HandlePrepare(n) \/ HandleCommit(n)
    \/ Timeout(n) \/ CatchUp(n) \/ EnterRound(n)
    \/ \E m \in msgs : HandlePrePrepare(n, m)

Spec == Init /\ [][Next]_vars

-----------------------------------------------------------------------------
(* Properties.                                                             *)

\* Spec 8.1: the core implements the abstract promise of the height.
\* Mapping each honest validator to the block it delivered on commitCh,
\* every step of the handlers is a step of AbstractConsensus: a node
\* delivers once and for good, and no two honest nodes deliver different
\* blocks, whatever the Byzantine speaker equivocates and however messages
\* are lost, delayed or repeated across round changes.
Abs == INSTANCE AbstractConsensus WITH decided <- decided

Refinement == Abs!Spec
=============================================================================
