---------------------------- MODULE SealLifecycle ----------------------------
(***************************************************************************)
(* The tendermint Backend's hand-over of a sealed block from the consensus *)
(* core to the miner (consensus/tendermint/backend/engine.go).             *)
(*                                                                         *)
(* Goroutines: the miner's Seal calls (one per mining work, each with its  *)
(* own stop channel, block i for call i), the consensus core committing    *)
(* blocks through Commit -> sendResultChan, and the node calling Start and *)
(* Stop.  Shared state: coreStarted and commitCh under coreMu (an RWMutex),*)
(* proposedBlockHash under sealMu, and the channels commitCh points to.    *)
(* Channel k is the one the k-th Start made (capacity 1); 0 is nil.        *)
(* Every step that does not block on a lock or channel is one action.      *)
(***************************************************************************)
EXTENDS Naturals, Sequences

CONSTANTS
  MaxSeals,    \* number of Seal calls (mining works); call i seals block i
  MaxStarts    \* number of successful Start calls

ASSUME MaxSeals \in Nat \ {0} /\ MaxStarts \in Nat \ {0}

SealIds == 1..MaxSeals
Chans == 1..MaxStarts
NoHash == 0                 \* common.Hash{}
NilChan == 0                \* a nil channel
SealPcs == {"idle", "check", "delay", "lockSeal", "wait", "done"}
CorePcs == {"idle", "lock", "send"}

VARIABLES
  coreStarted, commitCh, chBuf, chClosed,    \* guarded by coreMu
  coreMuHeld,          \* the core holds coreMu.Lock inside sendResultChan
  proposedBlockHash,   \* guarded by sealMu (but see Start)
  sealMu,              \* Seal call holding sealMu, or 0
  sealPc, sealCh, stopFired, sealResult,     \* per Seal call
  posted,              \* blocks posted to the core as NewUnminedBlockEvent
  corePc, coreBlock, coreCh, coreDone,       \* the consensus core
  crashed              \* a goroutine panicked: the process is gone

vars == <<coreStarted, commitCh, chBuf, chClosed, coreMuHeld,
          proposedBlockHash, sealMu, sealPc, sealCh, stopFired, sealResult,
          posted, corePc, coreBlock, coreCh, coreDone, crashed>>

sealVars == <<sealPc, sealCh, stopFired, sealResult>>
coreVars == <<corePc, coreBlock, coreCh, coreDone>>

TypeOK ==
  /\ coreStarted \in BOOLEAN /\ coreMuHeld \in BOOLEAN /\ crashed \in BOOLEAN
  /\ commitCh \in Chans \cup {NilChan}
  /\ chBuf \in [Chans -> Seq(SealIds)] /\ \A c \in Chans : Len(chBuf[c]) <= 1
  /\ chClosed \in [Chans -> BOOLEAN]
  /\ proposedBlockHash \in SealIds \cup {NoHash}
  /\ sealMu \in SealIds \cup {0}
  /\ sealPc \in [SealIds -> SealPcs]
  /\ sealCh \in [SealIds -> Chans \cup {NilChan}]
  /\ stopFired \in [SealIds -> BOOLEAN]
  /\ sealResult \in [SealIds -> SealIds \cup {NoHash}]
  /\ posted \subseteq SealIds /\ coreDone \subseteq SealIds
  /\ corePc \in CorePcs /\ coreBlock \in SealIds \cup {NoHash}
  /\ coreCh \in Chans \cup {NilChan}

Init ==
  /\ coreStarted = FALSE /\ commitCh = NilChan
  /\ chBuf = [c \in Chans |-> <<>>] /\ chClosed = [c \in Chans |-> FALSE]
  /\ coreMuHeld = FALSE /\ proposedBlockHash = NoHash /\ sealMu = 0
  /\ sealPc = [i \in SealIds |-> "idle"] /\ sealCh = [i \in SealIds |-> NilChan]
  /\ stopFired = [i \in SealIds |-> FALSE]
  /\ sealResult = [i \in SealIds |-> NoHash]
  /\ posted = {} /\ corePc = "idle" /\ coreBlock = NoHash
  /\ coreCh = NilChan /\ coreDone = {} /\ crashed = FALSE

-----------------------------------------------------------------------------
(* Seal(chain, block, stop)                                                *)

\* The miner calls Seal for work i (after the earlier works).  Under RLock
\* it reads coreStarted (ErrStoppedEngine when false); the validator,
\* parent and updateBlock checks may fail (authorized is that input).
SealStart(i) ==
  /\ sealPc[i] = "idle" /\ \A j \in 1..(i - 1) : sealPc[j] # "idle"
  /\ ~coreMuHeld
  /\ \E authorized \in BOOLEAN :
        sealPc' = [sealPc EXCEPT ![i] =
                     IF coreStarted /\ authorized THEN "delay" ELSE "done"]
  /\ UNCHANGED <<coreStarted, commitCh, chBuf, chClosed, coreMuHeld,
                 proposedBlockHash, sealMu, sealCh, stopFired, sealResult,
                 posted, corePc, coreBlock, coreCh, coreDone, crashed>>

\* select { case <-time.After(delay): ... case <-stop: return nil, nil }
SealDelayElapsed(i) ==
  /\ sealPc[i] = "delay"
  /\ sealPc' = [sealPc EXCEPT ![i] = "lockSeal"]
  /\ UNCHANGED <<coreStarted, commitCh, chBuf, chClosed, coreMuHeld,
                 proposedBlockHash, sealMu, sealCh, stopFired, sealResult,
                 posted, corePc, coreBlock, coreCh, coreDone, crashed>>

SealDelayStopped(i) ==
  /\ sealPc[i] = "delay" /\ stopFired[i]
  /\ sealPc' = [sealPc EXCEPT ![i] = "done"]
  /\ UNCHANGED <<coreStarted, commitCh, chBuf, chClosed, coreMuHeld,
                 proposedBlockHash, sealMu, sealCh, stopFired, sealResult,
                 posted, corePc, coreBlock, coreCh, coreDone, crashed>>

\* sealMu.Lock(); proposedBlockHash = block.Hash(); post the block to the
\* core; enter the for/select loop, which evaluates sb.commitCh.
SealLock(i) ==
  /\ sealPc[i] = "lockSeal" /\ sealMu = 0
  /\ sealMu' = i
  /\ proposedBlockHash' = i
  /\ posted' = posted \cup {i}
  /\ sealPc' = [sealPc EXCEPT ![i] = "wait"]
  /\ sealCh' = [sealCh EXCEPT ![i] = commitCh]
  /\ UNCHANGED <<coreStarted, commitCh, chBuf, chClosed, coreMuHeld,
                 stopFired, sealResult, coreVars, crashed>>

\* The deferred clear(): proposedBlockHash = common.Hash{}; sealMu.Unlock().
SealReturn(i, result) ==
  /\ sealPc' = [sealPc EXCEPT ![i] = "done"]
  /\ sealResult' = [sealResult EXCEPT ![i] = result]
  /\ proposedBlockHash' = NoHash
  /\ sealMu' = 0

\* Whether a result is the block this Seal call proposed.
IsOwnResult(i, result) == result = i

\* case result := <-sb.commitCh with a block buffered: return it when its
\* hash is this call's block, otherwise keep waiting (re-reading commitCh).
SealReceive(i) ==
  /\ sealPc[i] = "wait" /\ chBuf[sealCh[i]] # <<>>
  /\ LET result == Head(chBuf[sealCh[i]]) IN
     /\ chBuf' = [chBuf EXCEPT ![sealCh[i]] = Tail(@)]
     /\ IF IsOwnResult(i, result)
          THEN /\ SealReturn(i, result)
               /\ UNCHANGED sealCh
          ELSE /\ sealCh' = [sealCh EXCEPT ![i] = commitCh]
               /\ UNCHANGED <<sealPc, sealResult, proposedBlockHash, sealMu>>
  /\ UNCHANGED <<coreStarted, commitCh, chClosed, coreMuHeld, stopFired,
                 posted, coreVars, crashed>>

\* The channel is closed and drained: result is nil, the else branch logs
\* result.Hash() and dereferences nil.
SealReceiveClosed(i) ==
  /\ sealPc[i] = "wait" /\ chBuf[sealCh[i]] = <<>> /\ chClosed[sealCh[i]]
  /\ crashed' = TRUE
  /\ UNCHANGED <<coreStarted, commitCh, chBuf, chClosed, coreMuHeld,
                 proposedBlockHash, sealMu, sealVars, posted, coreVars>>

\* case <-stop: return nil, nil
SealStopped(i) ==
  /\ sealPc[i] = "wait" /\ stopFired[i]
  /\ SealReturn(i, NoHash)
  /\ UNCHANGED <<coreStarted, commitCh, chBuf, chClosed, coreMuHeld,
                 sealCh, stopFired, posted, coreVars, crashed>>

-----------------------------------------------------------------------------
(* The consensus core: Backend.Commit -> sendResultChan                    *)

\* isResultChanNil: commitCh == nil, read under coreMu.RLock, so not
\* while sendResultChan holds the write lock.
isResultChanNil == commitCh = NilChan

\* Commit of block b: when b is the block the local Seal proposed and
\* isResultChanNil (under RLock) is false, the block goes to
\* sendResultChan; otherwise it is only enqueued to the fetcher.  The core
\* runs apart from Start and Stop (Start no longer starts it), so a commit
\* may come whether or not the engine is started.
CoreCommit(b) ==
  /\ corePc = "idle" /\ ~coreMuHeld
  /\ b \in posted \ coreDone
  /\ coreDone' = coreDone \cup {b}
  /\ IF proposedBlockHash = b /\ ~isResultChanNil
       THEN corePc' = "lock" /\ coreBlock' = b
       ELSE UNCHANGED <<corePc, coreBlock>>
  /\ UNCHANGED <<coreStarted, commitCh, chBuf, chClosed, coreMuHeld,
                 proposedBlockHash, sealMu, sealVars, posted, coreCh, crashed>>

\* Mutant: sendResultChan without coreMu.
CoreLockNoMutex ==
  /\ corePc = "lock"
  /\ coreCh' = commitCh
  /\ corePc' = "send"
  /\ UNCHANGED <<coreStarted, commitCh, chBuf, chClosed, coreMuHeld,
                 proposedBlockHash, sealMu, sealVars, posted, coreBlock,
                 coreDone, crashed>>

\* sendResultChan: coreMu.Lock(), then `sb.commitCh <- block` evaluates
\* sb.commitCh while the lock is held.
CoreLock ==
  /\ corePc = "lock" /\ ~coreMuHeld
  /\ coreMuHeld' = TRUE
  /\ coreCh' = commitCh
  /\ corePc' = "send"
  /\ UNCHANGED <<coreStarted, commitCh, chBuf, chClosed, proposedBlockHash,
                 sealMu, sealVars, posted, coreBlock, coreDone, crashed>>

\* Mutant: the send ignores the channel's capacity.
CoreSendNoCapacity ==
  /\ corePc = "send" /\ ~chClosed[coreCh]
  /\ chBuf' = [chBuf EXCEPT ![coreCh] = Append(@, coreBlock)]
  /\ coreMuHeld' = FALSE
  /\ corePc' = "idle"
  /\ UNCHANGED <<coreStarted, commitCh, chClosed, proposedBlockHash, sealMu,
                 sealVars, posted, coreBlock, coreCh, coreDone, crashed>>

\* The send completes once the buffer has room; the deferred Unlock runs.
CoreSend ==
  /\ corePc = "send" /\ ~chClosed[coreCh] /\ Len(chBuf[coreCh]) < 1
  /\ chBuf' = [chBuf EXCEPT ![coreCh] = Append(@, coreBlock)]
  /\ coreMuHeld' = FALSE
  /\ corePc' = "idle"
  /\ UNCHANGED <<coreStarted, commitCh, chClosed, proposedBlockHash, sealMu,
                 sealVars, posted, coreBlock, coreCh, coreDone, crashed>>

\* A send on a closed channel panics.
CoreSendClosed ==
  /\ corePc = "send" /\ chClosed[coreCh]
  /\ crashed' = TRUE
  /\ UNCHANGED <<coreStarted, commitCh, chBuf, chClosed, coreMuHeld,
                 proposedBlockHash, sealMu, sealVars, posted, coreVars>>

-----------------------------------------------------------------------------
(* The node: Start, Stop, and the miner's stop channels                    *)

\* Start under coreMu.Lock: ErrStartedEngine when started; otherwise clear
\* proposedBlockHash, close a non-nil commitCh, make a new one, started.
Start ==
  /\ ~coreMuHeld /\ ~coreStarted /\ commitCh < MaxStarts
  /\ proposedBlockHash' = NoHash
  /\ chClosed' = IF commitCh = NilChan THEN chClosed
                 ELSE [chClosed EXCEPT ![commitCh] = TRUE]
  /\ commitCh' = commitCh + 1
  /\ coreStarted' = TRUE
  /\ UNCHANGED <<chBuf, coreMuHeld, sealMu, sealVars, posted, coreVars,
                 crashed>>

\* Stop under coreMu.Lock: ErrStoppedEngine when stopped; otherwise stop
\* the core and clear coreStarted.  commitCh is left open.
Stop ==
  /\ ~coreMuHeld /\ coreStarted
  /\ coreStarted' = FALSE
  /\ UNCHANGED <<commitCh, chBuf, chClosed, coreMuHeld, proposedBlockHash,
                 sealMu, sealVars, posted, coreVars, crashed>>

\* The miner closes the stop channel of a running Seal call (new work).
FireStop(i) ==
  /\ sealPc[i] \in {"check", "delay", "lockSeal", "wait"} /\ ~stopFired[i]
  /\ stopFired' = [stopFired EXCEPT ![i] = TRUE]
  /\ UNCHANGED <<coreStarted, commitCh, chBuf, chClosed, coreMuHeld,
                 proposedBlockHash, sealMu, sealPc, sealCh, sealResult,
                 posted, coreVars, crashed>>

-----------------------------------------------------------------------------

SealStep(i) ==
  \/ SealStart(i) \/ SealDelayElapsed(i) \/ SealDelayStopped(i)
  \/ SealLock(i) \/ SealReceive(i) \/ SealReceiveClosed(i) \/ SealStopped(i)

CoreStep ==
  \/ \E b \in SealIds : CoreCommit(b)
  \/ CoreLock \/ CoreSend \/ CoreSendClosed

Next ==
  /\ ~crashed
  /\ \/ \E i \in SealIds : SealStep(i)
     \/ CoreStep
     \/ Start \/ Stop
     \/ \E i \in SealIds : FireStop(i)

Spec == Init /\ [][Next]_vars

\* Runnable goroutines are scheduled (weak fairness); a goroutine waiting
\* for a mutex gets it once it is free often enough (Go's mutex starvation
\* mode).  The node's Start/Stop calls and the miner are not assumed to act.
FairSpec ==
  /\ Spec
  /\ \A i \in SealIds :
       /\ WF_vars(SealDelayElapsed(i) \/ SealReceive(i) \/ SealReceiveClosed(i)
                  \/ SealStopped(i) \/ SealDelayStopped(i))
       /\ SF_vars(SealLock(i)) /\ SF_vars(SealStart(i))
  /\ WF_vars(CoreSend \/ CoreSendClosed)
  /\ SF_vars(CoreLock)
  /\ WF_vars(\E b \in SealIds : CoreCommit(b))

-----------------------------------------------------------------------------
(* Properties                                                              *)

\* The core never sends on a closed commitCh: Start closes the old channel
\* only under coreMu, which sendResultChan holds for the whole send.
NoSendOnClosedChannel ==
  corePc = "send" => ~chClosed[coreCh]

\* Spec 4.3.2: readers of commitCh observe its closure as a clean shutdown;
\* no Seal call dereferences the nil result of a closed channel.
SealNeverPanics ==
  ~crashed

\* Spec section 5: the core's hand-over of a committed block never blocks
\* it for good; every send that sendResultChan starts completes.
CommitSendCompletes ==
  corePc = "send" ~> corePc = "idle"

=============================================================================
