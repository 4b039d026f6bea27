# TLA+ models of the go-smilo BFT consensus backends

This directory holds TLA+ models of the BFT consensus engine glue of
go-smilo (`src/src/blockchain/smilobft`), the TLC configurations that check
them, and `PROJECT.json`, which lists the components, the runs, the mutants,
the map from every definition to the source lines it models, the findings and
the hazards.

## 1. Inventory

The repository slice contains eight Go files.  The consensus *core* (the
pre-prepare/prepare/commit/round-change state machine) is described by
`spec.md` but only its types are in the slice (`model.go`); the backends,
the contract bridge, the plugin manager and the chain configuration are.

| Component | Source | State | Operations | Interacts with |
|---|---|---|---|---|
| Header verification, tendermint | `consensus/tendermint/backend/engine.go` | none (reads chain, LRU caches) | `VerifyHeader`, `verifyHeader`, `verifyCascadingFields`, `verifySigner`, `verifyCommittedSeals`, `VerifyHeaders`, `VerifySeal`, `VerifyUncles`, `retrieveValidators`, `retrieveSavedValidators` | chain reader; called by block import and by the core on pre-prepare |
| Header verification, sport | `consensus/sport/backend/backend_engine_sport.go` | `recentAddresses` LRU | `verifySigner`, `verifyCommittedSeals` (2F threshold), `ecrecover` | snapshot store |
| Header codec | sport backend file | header `Extra` | `prepareExtra`, `writeSeal`, `writeCommittedSeals`, `ecrecover` | backend, core |
| Seal / Commit hand-over and lifecycle | tendermint engine.go | `coreStarted`, `commitCh` (under `coreMu`), `proposedBlockHash` (under `sealMu`), `stopped` | `Seal`, `sendResultChan`, `isResultChanNil`, `Start`, `Stop`, `updateBlock` | miner goroutine (calls Seal with a stop channel), core goroutine (Commit -> sendResultChan), node (Start/Stop) |
| Header preparation and finalisation | tendermint engine.go | `blockchain`, `autonityContractAddress` (under `contractsMu`) | `Prepare`, `Finalize`, `getValidators` | validator contract |
| Consensus core | `consensus/sportdao/smilobftcore/model.go` (types), spec section 4.4 | `roundState` (view, Preprepare, Prepares, Commits, lockedHash, pendingRequest), `roundChangeSet`, backlogs, `waitingForRoundChange` | handle Request, PrePrepare, Prepare, Commit, RoundChange, Timeout, FinalCommitted | backend (broadcast, sign, Commit), peers |
| Autonity contract bridge | `contracts/autonity/autonity.go` | `address` (under the embedded RWMutex), `contractABI` (lazy) | `DeployAutonityContract`, `ContractGetValidators`, `ApplyPerformRedistribution`, `Address`, `abi` ... | EVM, backend `getValidators`/`Finalize` |
| Plugin manager | `plugin/service.go` | `plugins` (under `mux`), `initializedPlugins` | `Start` (with roll-back), `Stop`, `getPlugin`, `GetPluginTemplate` | node service lifecycle, RPC |
| Chain configuration | `params/config.go` | config records | `CheckCompatible` (rewind fix-point), `isForked`, `Rules` | database start-up |
| Protocol descriptors | `consensus/protocol.go` | constants | none | P2P |

**What is hard.**  Header verification is where a Byzantine peer meets the
node: any header with any seal list can arrive, and the certificate check
must still admit at most one block per height.  The Seal hand-over runs
three goroutines (miner, core, node lifecycle) over two locks and a
one-slot channel that `Start` replaces; Go `select` picks at random among
ready cases, so a stop and a result can race.  The core is a Byzantine
three-phase protocol with round changes and locks.  The plugin manager and
the contract bridge have small unsynchronised reads.

**What makes each component correct.**
* Verification: no two different blocks of one height are accepted
  (given at most F Byzantine validators and honest validators that commit
  one block per height); every accepted block carries a quorum of distinct
  validator seals.
* Seal hand-over: a Seal call returns its own block or nil, never a stale
  one; the core never sends on a closed channel; the core's hand-over never
  blocks for good; closing the channel is a clean shutdown for readers.
* Core: agreement per height, lock safety, a committed block carries Q
  seals, and progress by round change after a crashed speaker.
* Plugin manager: after a failed Start no plugin is left running.
* CheckCompatible: returns the lowest conflicting fork.

The `hazards` list in `PROJECT.json` names each of these at the line where it
bites.

## 2. Plan

Modules, in order of importance (done ones marked):

1. **CommittedSeals** (done): the verification operators (`verifyHeader`,
   `verifySigner`, `verifyCommittedSeals` of both engines) as pure operators.
2. **CommitCertificate** (done): composes CommittedSeals with honest
   committers and a Byzantine minority at one height; asks whether verified
   imports agree.
3. **SealLifecycle** (done): Seal, Commit/sendResultChan, Start, Stop.
4. **ConsensusCore** (done, safety): the round-based core of one height from
   spec section 4.4 and `model.go`.
5. **PluginManager** (done): Start with roll-back, Stop, the template cache.
6. **ConfigCompat** (done): `CheckCompatible` as a RECURSIVE operator, a node
   that restarts with new configs, against reference rules.
7. **ValidatorHandoff** (done): Prepare, Finalize, getValidators and the
   contract bridge, with the miner and importer goroutines and restarts.
8. **AbstractConsensus** and a refinement (done): ConsensusCore
   implements "each height decides at most one block, and a decided block
   stays decided" (INSTANCE ... WITH, checked as a PROPERTY).  Still open:
   letting the core's decisions replace the abstract `Commit` of
   CommitCertificate.
8a. **HeaderCodec** (done): the sport backend's extra-data codec
   (prepareExtra, updateBlock/writeSeal, writeCommittedSeals, ecrecover with
   its cache) and the sport verification of the header it produces.
9. **Core liveness** (open): that a wait for a round change ends, and
   that a height commits, both need a synchrony assumption (round timers
   long enough, doubling per round) that the spec states only informally.
   With rounds bounded, every wait ends at the last round by the bound
   alone, so no eventuality is checked on ConsensusCore.
10. **ChainVerification**: several heights and a side branch, to check
    `retrieveSavedValidators`' lookup of header number-1 by number
    (engine.go 631) against the parent actually verified.
11. The rest of the Autonity bridge (whitelist, gas price, lazy ABI) only
    if a property about it appears.
12. **HeaderBatch** (done): `VerifyHeaders`, its goroutine and channels,
    and the caller's result loop, with a peer that forges validator lists.

## 3. Modules and how they correspond to the code

### CommittedSeals
A seal is modelled by the address `GetSignatureAddress` recovers from it
(or `BadSig`).  `CountCommittedSeals` is the loop of `verifyCommittedSeals`
(engine.go 250-268): each seal must recover to a member of what is left of
the copied validator set, which `RemoveValidator` then shrinks, so a
repeated signer fails.  `verifyCommittedSeals` adds the empty-list check and
the threshold: `TendermintMinSeals` = Quorum (engine.go 271),
`SportMinSeals` = 2F (sport file 107).  `verifyHeader` runs the format
checks (one flag `wellFormed`: future time, extra-data, nonce, mix digest,
uncle hash, difficulty, parent, timestamp), then `verifySigner`, then
`verifyCommittedSeals`, in the code's order.  Quorum and F come from the
validator set, which is not in the slice (spec: F = floor((N-1)/3),
Q = ceil(2N/3)).

### CommitCertificate
State: `committed[v]` for honest validators (the block v sent a committed
seal for), `proposerOf[b]` (what ecrecover gives for block b's proposer
seal, chosen in Init), `accepted` (blocks some node inserted).  `Commit`
abstracts the core: an honest node commits after Prepared, which locks it,
so it commits at most one block per height, and only a block whose proposer
verifySigner accepts.  `ImportHeader(b)` is a header for b with any seal
list that can be built from existing seals (Byzantine validators and
outsiders sign anything; a seal that recovers to nothing is `BadSig`),
accepted when `verifyHeader` returns nil.

### HeaderBatch
`VerifyHeaders` (engine.go 171-189) and the chain insertion that reads its
results (`insertChain` / `ValidateHeaderChain` in core/, outside the
repository: one `<-results` per header, return at the first error,
`defer close(abort)`).  A peer's batch is chosen in `Init`: each header
carries a validator list (the contract's `Validators`, or `Forged`), a
proposer and a set of committed-seal signers; honest validators seal only
headers with the contract's list (their own Finalize wrote it).  The
goroutine's `VerifySend` verifies header i with `headers[:i]` as parents and
appends the error to `results` (capacity `len(headers)`); `VerifyAbort` is
the select's abort case once the caller closed abort.  `retrieveValidators`
is the parents branch of engine.go 648-677: header i > 1 is checked against
header i-1's list, header 1 against the stored head.  `BatchVerdict` is
`verifyHeader` of CommittedSeals with that list.  The caller's `Receive`
inserts on nil and stops, closing abort, at the first error.

### SealLifecycle
Goroutines and their program counters: each Seal call i (`sealPc[i]`,
`idle -> check -> delay -> lockSeal -> wait -> done`), the core
(`corePc`: `idle -> lock -> send`), and the node's `Start`/`Stop`, each one
atomic step under `coreMu`.  Channels are numbered by the Start that made
them (`commitCh` = 0 is nil); each has a one-slot buffer `chBuf` and a
`chClosed` flag.  A Seal in `wait` is blocked on `sealCh[i]`, the value of
`sb.commitCh` when it entered the select.  `crashed` records a panic (nil
dereference, send on closed channel), after which nothing moves.
`Backend.Commit` is not in the slice; `CoreCommit` models it from the spec
and from the autonity code it comes from: the block goes to
`sendResultChan` only when it equals `proposedBlockHash` and commitCh is not
nil.  `Start` no longer starts the core (engine.go 599-601 are commented
out), so the core is not tied to `coreStarted`: `CoreCommit` may run
whether or not the engine is started.

### ConsensusCore
One height of the core, N validators in `ValOrder` (round-robin speaker
`ValOrder[(r % N) + 1]`), a set of Byzantine ones.  Per honest node: `round`,
`state` (AcceptRequest, PrePrepared, Prepared, Committed), `waiting`
(`waitingForRoundChange`), `proposal` (the stored Preprepare's block),
`lockedHash`, `sentPP`, `decided`.  `msgs` is every message sent; the
Byzantine nodes have sent every message from the start (equivocation
included), and messages are never consumed, so any loss, delay, duplication
or reordering is a choice of which messages a node acts on.  A messageSet
holds one message per sender address (`model.go` 113-150), so a threshold is
a count of distinct `Senders`; a node may act once that many have been sent.
`NewRoundState` is `newRoundState` (`model.go` 171-183): fresh Prepares and
Commits, `lockedHash` kept, and the Preprepare kept when the node holds a
lock (the caller passes it then, spec 4.4), else none.  The handlers themselves are not
in the slice and are modelled from spec section 4.4: `Propose` (the locked
block, else the miner's request), `HandlePrePrepare` (a locked node given a
different block asks for the next round), `HandlePrepare` (Q Prepares:
Prepared, lock, Commit), `HandleCommit` (Q Commits, admitted in
PrePrepared or Prepared: decide), `Timeout`,
`CatchUp` (F+1 RoundChanges for a higher round) and `EnterRound` (Q
RoundChanges for the awaited round).  Only safety is checked, so no
fairness is assumed.

### AbstractConsensus and the refinement
`AbstractConsensus` is spec section 8.1's promise of one height: a single
variable `decided[n]` per honest node, and one action `Decide(n, b)` that
may set an undecided node's value only to a block no honest node decided
differently.  ConsensusCore ends with
`Abs == INSTANCE AbstractConsensus WITH decided <- decided` and checks
`Refinement == Abs!Spec` as a PROPERTY: every step of the core is either a
`Decide` or leaves `decided` unchanged.  This is stronger than the
pairwise agreement invariant it replaces: it also says a decision is never
changed or withdrawn.

### HeaderCodec
`consensus/sport/backend/backend_engine_sport.go`.  `extra` is
`header.Extra`: vanity bytes (model values, with `Zero` the padding byte)
followed by one element standing for the RLP-encoded `SportExtra`, a
record with `Fullnodes`, `Seal` and `CommittedSeal`; `Extractable` is
`ExtractSportExtra` succeeding.  A signature is the pair (key, digest), so
recovery against another digest gives an unrelated address (`Garbage`),
and `SigHash` (Seal and CommittedSeal cleared) and `HeaderHash` (only
CommittedSeal cleared) are records of what they hash, not byte strings.
Operators: `prepareExtra` (pad, truncate to the vanity, append a fresh
SportExtra), `writeSeal`/`updateBlock`, `writeCommittedSeals` (empty list
and wrong-length seal rejected), `ecrecover` (a hit in `recentAddresses`
keyed by `header.Hash()`, else recover against `sigHash` and cache),
`sportVerifySigner` and `sportVerifyCommittedSeals` (genesis handling, then
CommittedSeals' loop with the 2F threshold).  Actions: `Prepare`,
`UpdateBlock` (a seal by any key, the miner's or another node's),
`Commit` (seals over `Keccak(hash || 0x02)` by any key, or a short seal)
and `Verify` (an importer, at block 0 or 1), in any order, as the miner,
the core and importers may call them on the same header.  `sealer` and
`verdict` are history: the key of the last seal since `Prepare`, and the
outcome of verifying the header as it is now.

### PluginManager
`plugin/service.go`.  The manager's `Start` (start each plugin in order,
on the first failure stop the ones started, in the same order), `Stop`
(stop each, keep going after a failure, report the failure) and
`GetPluginTemplate` (read the `plugins` cache without `mux`, on a miss
look the plugin up, take `mux` and write the cache) are one action per
step, with a program counter per concurrent caller.  Two callers reading
and writing the Go map at once is undefined behaviour that the runtime
reports as a fatal error; the model records it in `fatal`.

### ConfigCompat
`params/config.go`.  `checkCompatible` is the first failing check of the
code's list in the code's order (`CheckOrder`, `Fails`, `ErrorOf`), and
`newCompatError` its rewind arithmetic; `CompatLoop` is the for loop of
`CheckCompatible` as a RECURSIVE operator that re-checks at each RewindTo
until the error is nil or the rewind point stops moving.  The node side
(keep a chain of blocks, each built under the config stored at import; on
restart with a new config, rewind to RewindTo, then store it) lives outside
the repository and is modelled from the `ConfigCompatError` comment.  The
properties compare with `RulesAt`: the code's `Rules(num)` (the rules the
EVM executes a block under, built from the `Is*` fork predicates and
`IsPetersburg`, which treats a nil Petersburg block as on from
Constantinople), plus the forks read outside `Rules` (DAO side, ewasm,
QIP714, code-size change, Ceil(2N/3)).  It is independent of
`checkCompatible`, which is the code under test.

### ValidatorHandoff
`engine.go` Prepare/Finalize/getValidators/retrieve* and `autonity.go`.
Persistent state: `extra[h]` (validators in header h) and `snap[h]` (the
world state after block h: the contract's validator set, the deployer
nonce, where the contract was created).  Memory: `acAddress`
(`Contract.address`), `sbAddress` (`autonityContractAddress`),
`retriever`.  Two goroutines, `miner` and `importer`, each take a block on
the head through `Prepare` (miner) or `ImportBegin`, `Execute`, Finalize
(`FinalizeFirst`/`FinalizeFirstFails` for block 1: deploy, header 0's
validators; `FinalizeLater`/`FinalizeLaterFails`: ContractGetValidators at
`Address`, redistribution), then `Commit` when the parent is still the head,
or `Discard`.  `Restart` clears memory.  getValidators runs under
`contractsMu`, which justifies one step per Finalize.  `ExchangeSort` is
Prepare's nested swap loop.  The contract address `CreateAddress(deployer,
k)` is the nonce k; the configured address of `Address()` is taken to be
`CreateAddress(deployer, 0)`, as engine.go 422 computes it (its
implementation is outside the slice).

## 4. Runs

| Run | Checks | Result |
|---|---|---|
| `cert_tendermint` | AcceptedBlocksAgree, AcceptedBackedByQuorum | pass |
| `cert_sport` | AcceptedBlocksAgree with the sport threshold | violation: finding |
| `seal_lifecycle` | TypeOK, NoSendOnClosedChannel | pass |
| `seal_panic` | SealNeverPanics | violation: finding |
| `commit_send` | CommitSendCompletes (liveness) | violation: finding |
| `plugin_manager` | StartFailureRollsBack, StopNilMeansAllStopped, TemplateBoundToPlugin | pass |
| `config_compat` | ChainMatchesConfig, RewindToLowestConflict | pass |
| `consensus_core` | Refinement (of AbstractConsensus) | pass |
| `validator_handoff` | PreparedSorted | pass |
| `validator_nonce` | ContractReachable with a deployer transaction in block 1 | violation: finding |
| `header_codec` | SealRecoversProposer, AcceptedSealedByValidator | pass |
| `header_batch` | InsertedCarryContractValidators, BatchSettles (liveness) | pass |

Every property of a passing run has a mutant in `PROJECT.json`: a
plausible bug in one mapped definition that TLC finds violating it.

**Findings.**
* *Sport accepts 2F seals.* With N=4 and one Byzantine validator v1, an
  honest v2 commits b1 (round 0, prepares from v1, v2, v4) and an honest v3
  commits b2 (round 1, v4 never reached Prepared so it is not locked); the
  headers with seals {v1, v2} and {v1, v3} both pass the sport
  `verifyCommittedSeals`.  The tendermint threshold Q=3 makes this
  impossible (cert_tendermint).
* *Seal dereferences nil after a restart.*  Seal waits on commitCh holding
  no lock; Stop then Start closes that channel; the receive yields nil and
  the mismatch branch logs `result.Hash()`.
* *sendResultChan can block forever holding coreMu.*  Seal call 1 gets its
  block into the one-slot channel but takes the stop branch; call 2 is
  proposed and committed, the core reads proposedBlockHash before call 2's
  deferred clear, locks coreMu and blocks on the full channel.  Every later
  Seal (RLock), Start and Stop then wait on coreMu.
* *The contract address goes stale.*  `ac.address` is set by every block-1
  Finalize, including a miner attempt that is then dropped, and after a
  restart falls back to `CreateAddress(deployer, 0)`.  If block 1 carries
  a deployer transaction, the contract lives at nonce 1, and from then on
  getValidators calls an address without code and Finalize fails at every
  block.

**Observations not kept as runs.**  The project keeps one run per
question, so these disagreements met while modelling are recorded as notes
on their hazards in `PROJECT.json` rather than as runs:
* service.go 93: GetPluginTemplate reads the `plugins` map without `mux`
  while another caller writes it under `mux` (line 119), a concurrent map
  read and write that the Go runtime aborts on.  `MCPluginRace.cfg`
  (INVARIANT NoConcurrentMapAccess on MCPluginManager, two first calls for
  one name) shows it; it is run by hand, as Go's race detector also finds
  it with two concurrent callers.
* config.go 613: the EIP155 chain-ID check passes the old and new chain
  IDs to `newCompatError`, so RewindTo is one below a chain ID, not a
  block number (changing the chain ID from 5 to 6 at head 3 with EIP155 at
  block 1 rewinds to 4 and keeps blocks signed under chain ID 5).
* config.go 627: `checkCompatible` compares the raw `PetersburgBlock`
  fields, while `IsPetersburg` reads a nil Petersburg block as "with
  Constantinople".  With Constantinople at 1 and Petersburg nil, a restart
  at head 1 with Petersburg at 2 reports no conflict and keeps block 1,
  executed with Petersburg on, under a config that says it was off
  (ChainMatchesConfig fails on an instance that varies PetersburgBlock).
* engine.go 620: a Seal call waiting when Stop runs returns only when the
  miner closes its stop channel; the miner does so when it stops, which
  the model does not assume.

**Bounds.**  N=4 with one Byzantine validator and one outsider is the
smallest system with a Byzantine fault; seal lists up to 4 entries cover a
full certificate plus duplicates; three blocks let two conflicting and one
unused candidate exist.  For SealLifecycle, three Seal calls and two Starts
are the fewest for a stale result to meet a later call and for a restart
under a waiting call.  ConsensusCore uses N=4 with the round-0 speaker
Byzantine, two blocks with honest miners split between them, and rounds
0..2: round 1's speaker may propose against a round-0 lock, and round 2
lets a node that changed round on a lock mismatch meet a third speaker.  Rounds 0..3
take four minutes (5.3M states), too close to the limit of a run.
PluginManager uses two plugins (a failure after a success) and two
callers (a cache race).  ConfigCompat uses 32 configs over four fork fields
and heads 0..3, with two restarts so a rewound chain grows again before the
next change.  ValidatorHandoff uses four heights (block 1, and three
blocks where the contract set may change), two validator sets, two
restarts (memory lost before and after a set change) and reverting calls.  HeaderCodec uses one fullnode and one other key
(so a second seal of the same block by a non-fullnode exists), a one-byte
vanity with raw extras of length 0..2 (shorter than, equal to and longer
than the vanity), and committed-seal lists of up to two seals; the cache
hazard needs only a seal by the fullnode, a verification, and a re-seal by
the other key.  HeaderBatch uses the N=4 system with a forged list
{v1, o1} (Q=2, met by the Byzantine validator and the outsider alone) and
two headers, so the second is checked against the first one's list, forged
or not; every signer subset is a possible seal list.  Three headers (900k
states, over three minutes) add no new case.

**Fairness.**  `FairSpec` of SealLifecycle assumes the Go scheduler runs every
runnable goroutine (weak fairness on each Seal and core step) and that a
goroutine waiting for a mutex gets it when it is released often enough
(strong fairness, Go's starvation mode).  Nothing is assumed of the node's
Start and Stop calls or of the miner closing stop channels.  `FairSpec` of HeaderBatch assumes the Go scheduler
runs the verifier goroutine and the caller, both runnable goroutines; the
peer's batch is fixed.  The other runs are safety checks and assume no
fairness.

## 5. Not modelled (yet) and why
See `components` in PROJECT.json.
* The byte-level RLP codec and Keccak: only their effect is modelled
  (decodable or not; which fields a hash covers).
* The EVM internals of the contract bridge and the reward arithmetic are
  out of scope of consensus safety.  The bridge's whitelist and minimum
  gas price calls (autonity.go 236-374) have no caller under `src/` and
  the spec says nothing of them, so there is nothing to check them against.
* `ChainConfig.Copy` has no caller under `src/`.
* `consensus/protocol.go` holds constants and interfaces only.
* The sport backend's Start/Stop: its Seal is not in the slice, so the
  hand-over cannot be composed from the code.  It matches the tendermint
  Start/Stop, except that a failing `core.Start` returns after commitCh
  was already closed and replaced.
* The unsynchronised `Address()` read (autonity.go 452): a torn read
  matters only when a concurrent write changes the value.  In every
  reachable ValidatorHandoff state the overlapping write stores the same
  address, except in the `validator_nonce` case, where the address is
  already wrong.
* Block rewards (`AccumulateRewards`, `getSmiloBlockReward`): the reward
  table is outside the slice and the spec puts economics out of scope.
* A core restart within a height, which forgets `lockedHash`: `core.Start`
  is outside the slice, and the spec counts such a validator against F.
* The side-branch lookup of `retrieveSavedValidators` (engine.go 631)
  needs two stored blocks of one height, which `AcceptedBlocksAgree`
  excludes for the tendermint engine; multi-height chains are not modelled.
* Commit liveness of a height (see section 2, item 9).
