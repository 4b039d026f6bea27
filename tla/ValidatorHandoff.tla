--------------------------- MODULE ValidatorHandoff ---------------------------
(***************************************************************************)
(* How the validator set is handed from block to block (tendermint        *)
(* backend engine.go: Prepare, Finalize, getValidators,                    *)
(* retrieveSavedValidators, retrieveValidators) through the Autonity       *)
(* contract bridge (autonity.go: DeployAutonityContract,                   *)
(* ContractGetValidators, ApplyPerformRedistribution, Address).            *)
(*                                                                         *)
(* Two goroutines of one node finalize blocks on the head: the miner       *)
(* (Prepare, execute its transactions, Finalize, then its block is decided *)
(* or dropped) and the importer (execute another proposer's block,         *)
(* Finalize, insert).  Both run getValidators under contractsMu, so the    *)
(* part of Finalize touching shared memory is one step.  The chain and its *)
(* per-block world state persist; ac.address,                              *)
(* sb.autonityContractAddress and SavedValidatorsRetriever are memory and  *)
(* are lost on a restart.                                                  *)
(*                                                                         *)
(* Addresses of validators are integers (bytes.Compare is <).  The         *)
(* contract address CreateAddress(deployer, k) is represented by the       *)
(* deployer nonce k; the zero address is Nil.                              *)
(***************************************************************************)
EXTENDS Naturals, Sequences, SequencesExt, FiniteSets

CONSTANTS
  GenesisVals,     \* validator list in the genesis header's extra-data
  ConfigUsers,     \* validators the contract constructor is given
  ValSets,         \* validator sets a block's transactions may install
  MaxHeight,       \* longest chain
  MaxDeployerTxs,  \* deployer transactions a block-1 candidate may carry
  MaxRestarts,
  CanRevert,       \* whether EVM calls may fail
  Nil

Procs == {"miner", "importer"}
Heights == 0..MaxHeight

\* World state of a block: the contract's validator set, the deployer's
\* nonce and the address the contract was created at.
GenesisState == [cvals |-> {}, nonce |-> 0, deployed |-> Nil]

NoWork == [parent |-> 0, vals |-> <<>>, st |-> GenesisState, gas |-> FALSE]

VARIABLES
  height,     \* head block number
  extra,      \* extra[h]: validators in header h's extra-data
  snap,       \* snap[h]: world state after block h
  acAddress,  \* Contract.address
  sbAddress,  \* Backend.autonityContractAddress
  retriever,  \* Contract.SavedValidatorsRetriever != nil
  pc,         \* per goroutine: idle, prepared, executed, finalized
  work,       \* per goroutine: the block being finalized
  restarts

vars == <<height, extra, snap, acAddress, sbAddress, retriever, pc, work,
          restarts>>

Init ==
  /\ height = 0
  /\ extra = [h \in Heights |-> IF h = 0 THEN GenesisVals ELSE <<>>]
  /\ snap = [h \in Heights |-> GenesisState]
  /\ acAddress = Nil /\ sbAddress = Nil /\ retriever = FALSE
  /\ pc = [p \in Procs |-> "idle"] /\ work = [p \in Procs |-> NoWork]
  /\ restarts = 0

-----------------------------------------------------------------------------
(* Helpers translating the code.                                           *)

Swap(s, i, j) == [s EXCEPT ![i] = s[j], ![j] = s[i]]

\* Mutant: the inner loop starts two places after i.
RECURSIVE ExchangeSortSkip(_, _, _)
ExchangeSortSkip(s, i, j) ==
  IF i > Len(s) THEN s
  ELSE IF j > Len(s) THEN ExchangeSortSkip(s, i + 1, i + 3)
  ELSE ExchangeSortSkip(IF s[i] > s[j] THEN Swap(s, i, j) ELSE s, i, j + 1)

\* Prepare's nested loop: for i, for j > i, swap when fullnodes[i] sorts
\* after fullnodes[j].
RECURSIVE ExchangeSort(_, _, _)
ExchangeSort(s, i, j) ==
  IF i > Len(s) THEN s
  ELSE IF j > Len(s) THEN ExchangeSort(s, i + 1, i + 2)
  ELSE ExchangeSort(IF s[i] > s[j] THEN Swap(s, i, j) ELSE s, i, j + 1)

\* retrieveSavedValidators(number): header number-1 by number (0 read as 1).
retrieveSavedValidators(number) == extra[IF number = 0 THEN 0 ELSE number - 1]

\* retrieveValidators with the parent passed: the parent's extra-data.
retrieveValidators(parent) == extra[parent]

\* Contract.Address: ac.address, or the configured address
\* CreateAddress(deployer, 0) while it is the zero address.
Address == IF acAddress = Nil THEN 0 ELSE acAddress

-----------------------------------------------------------------------------
(* Goroutine actions.                                                      *)

\* Prepare on the head: the parent's validators, sorted, go into extra.
Prepare ==
  /\ pc["miner"] = "idle" /\ height < MaxHeight
  /\ pc' = [pc EXCEPT !["miner"] = "prepared"]
  /\ work' = [work EXCEPT !["miner"] =
               [NoWork EXCEPT !.parent = height,
                 !.vals = ExchangeSort(retrieveValidators(height), 1, 2),
                 !.st = snap[height]]]
  /\ UNCHANGED <<height, extra, snap, acAddress, sbAddress, retriever,
                 restarts>>

\* The importer takes another proposer's block on the head.
ImportBegin ==
  /\ pc["importer"] = "idle" /\ height < MaxHeight
  /\ pc' = [pc EXCEPT !["importer"] = "prepared"]
  /\ work' = [work EXCEPT !["importer"] =
               [NoWork EXCEPT !.parent = height, !.st = snap[height]]]
  /\ UNCHANGED <<height, extra, snap, acAddress, sbAddress, retriever,
                 restarts>>

\* The block's transactions run on the parent's state: deployer
\* transactions (block 1 only) raise the deployer nonce, a contract
\* transaction may install a new validator set once the contract exists,
\* and gas may be used.
Execute(p) ==
  /\ pc[p] = "prepared"
  /\ \E d \in 0..(IF work[p].parent = 0 THEN MaxDeployerTxs ELSE 0),
        v \in (IF work[p].st.deployed = Nil THEN {Nil} ELSE ValSets \cup {Nil}),
        g \in BOOLEAN :
       LET st == work[p].st
       IN work' = [work EXCEPT ![p].gas = g,
                    ![p].st = [st EXCEPT !.nonce = @ + d,
                                 !.cvals = IF v = Nil THEN @ ELSE v]]
  /\ pc' = [pc EXCEPT ![p] = "executed"]
  /\ UNCHANGED <<height, extra, snap, acAddress, sbAddress, retriever,
                 restarts>>

\* DeployAutonityContract: evm.Create from the deployer lands at
\* CreateAddress(deployer, nonce) and raises the nonce; the constructor
\* installs the configured users; the address is returned and stored in
\* ac.address.
DeployAutonityContract(st) ==
  [address |-> st.nonce,
   st |-> [st EXCEPT !.deployed = st.nonce, !.nonce = @ + 1,
                     !.cvals = ConfigUsers]]

\* ContractGetValidators: the getValidators call on the block's state,
\* sorted.  It only answers when Address() holds the contract: a call to
\* an address without code returns nothing and the unpack fails.
ContractGetValidators(w) == SetToSortSeq(w.st.cvals, <)

ContractAnswers(w) == Address = w.st.deployed

\* ApplyPerformRedistribution: after block 1, a block that used gas calls
\* performRedistribution, and a revert fails Finalize.
ApplyPerformRedistributionMayFail(w) == w.parent + 1 > 1 /\ w.gas /\ CanRevert

\* Finalize of block 1: getValidators installs the retriever, deploys the
\* contract, records its address in ac.address and
\* sb.autonityContractAddress, and hands over the validators of header 0.
FinalizeFirst(p) ==
  LET w == work[p]
      dep == DeployAutonityContract(w.st)
  IN /\ pc[p] = "executed" /\ w.parent = 0
     /\ retriever' = TRUE
     /\ acAddress' = dep.address /\ sbAddress' = dep.address
     /\ work' = [work EXCEPT ![p].st = dep.st,
                             ![p].vals = retrieveSavedValidators(1)]
     /\ pc' = [pc EXCEPT ![p] = "finalized"]
     /\ UNCHANGED <<height, extra, snap, restarts>>

\* The deployment reverts: Finalize returns the error, the retriever is
\* already installed.
FinalizeFirstFails(p) ==
  /\ pc[p] = "executed" /\ work[p].parent = 0 /\ CanRevert
  /\ retriever' = TRUE
  /\ pc' = [pc EXCEPT ![p] = "idle"]
  /\ UNCHANGED <<height, extra, snap, acAddress, sbAddress, work, restarts>>

\* getValidators of a later block fills a zero backend contract address
\* with CreateAddress(deployer, 0).
FillBackendAddress == sbAddress' = IF sbAddress = Nil THEN 0 ELSE sbAddress

\* Finalize of a later block: getValidators, then the redistribution, then
\* the validators go into extra.
FinalizeLater(p) ==
  LET w == work[p] IN
  /\ pc[p] = "executed" /\ w.parent > 0
  /\ FillBackendAddress
  /\ ContractAnswers(w)
  /\ work' = [work EXCEPT ![p].vals = ContractGetValidators(w)]
  /\ pc' = [pc EXCEPT ![p] = "finalized"]
  /\ UNCHANGED <<height, extra, snap, acAddress, retriever, restarts>>

\* getValidators gets no answer or reverts, or the redistribution reverts.
FinalizeLaterFails(p) ==
  LET w == work[p] IN
  /\ pc[p] = "executed" /\ w.parent > 0
  /\ FillBackendAddress
  /\ ~ContractAnswers(w) \/ CanRevert \/ ApplyPerformRedistributionMayFail(w)
  /\ pc' = [pc EXCEPT ![p] = "idle"]
  /\ UNCHANGED <<height, extra, snap, acAddress, retriever, work, restarts>>

\* The finalized block is decided (miner) or inserted (importer) while its
\* parent is still the head: header and state persist.
Commit(p) ==
  LET w == work[p] IN
  /\ pc[p] = "finalized" /\ w.parent = height
  /\ height' = height + 1
  /\ extra' = [extra EXCEPT ![height + 1] = w.vals]
  /\ snap' = [snap EXCEPT ![height + 1] = w.st]
  /\ pc' = [pc EXCEPT ![p] = "idle"]
  /\ UNCHANGED <<acAddress, sbAddress, retriever, work, restarts>>

\* The work is dropped: another block was decided, the head moved, or the
\* import failed verification.
Discard(p) ==
  /\ pc[p] # "idle"
  /\ pc' = [pc EXCEPT ![p] = "idle"]
  /\ UNCHANGED <<height, extra, snap, acAddress, sbAddress, retriever, work,
                 restarts>>

\* The node restarts: the chain persists, memory is fresh.
Restart ==
  /\ restarts < MaxRestarts
  /\ acAddress' = Nil /\ sbAddress' = Nil /\ retriever' = FALSE
  /\ pc' = [p \in Procs |-> "idle"] /\ work' = [p \in Procs |-> NoWork]
  /\ restarts' = restarts + 1
  /\ UNCHANGED <<height, extra, snap>>

Next ==
  \/ Prepare \/ ImportBegin \/ Restart
  \/ \E p \in Procs :
       \/ Execute(p) \/ FinalizeFirst(p) \/ FinalizeFirstFails(p)
       \/ FinalizeLater(p) \/ FinalizeLaterFails(p) \/ Commit(p)
       \/ Discard(p)

Spec == Init /\ [][Next]_vars

-----------------------------------------------------------------------------
(* Properties.                                                             *)

\* Until Finalize rewrites it, the miner's header lists its parent's
\* validators in ascending address order, as Prepare's exchange sort must
\* leave them (the genesis list is out of order).
PreparedSorted ==
  pc["miner"] \in {"prepared", "executed"} =>
    work["miner"].vals = SortSeq(extra[work["miner"].parent], <)

\* Once block 1 is on the chain, the address the node calls the contract
\* at (Contract.Address) is where the canonical chain deployed it, also
\* after a restart or a miner's dropped block-1 attempt.
ContractReachable ==
  height >= 1 => Address = snap[height].deployed

====
