---------------------------- MODULE ConfigCompat ----------------------------
(***************************************************************************)
(* Chain-configuration compatibility (params/config.go): checkCompatible,  *)
(* the fix-point loop of CheckCompatible, and the node that uses it.       *)
(*                                                                         *)
(* A ChainConfig is a record of the fields checkCompatible reads; a block  *)
(* number is a Nat and nil is Nil.  The node keeps a stored config and a   *)
(* chain of blocks, each built under the config stored when it was         *)
(* imported.  On a restart with a new config the node runs                 *)
(* CheckCompatible at its head; on an error it rewinds to RewindTo, the    *)
(* "block number to which the local chain must be rewound to correct the   *)
(* error" (ConfigCompatError), and then stores the new config.  The node   *)
(* side lives in core/, outside the repository, and is modelled from that  *)
(* comment.                                                                *)
(***************************************************************************)
EXTENDS Naturals, Sequences, FiniteSets, TLC

CONSTANTS
  Configs,      \* the chain configs a node may be started with
  Genesis,      \* the config of the first start
  SmiloEIP155,  \* isSmiloEIP155Activated for this node
  MaxHead,      \* longest chain
  MaxRestarts,  \* restarts with a (possibly) new config
  Nil

ASSUME Genesis \in Configs /\ SmiloEIP155 \in BOOLEAN
ASSUME MaxHead \in Nat /\ MaxRestarts \in Nat

\* isForked: s != nil && s <= head
isForked(s, head) == s # Nil /\ head # Nil /\ s <= head

configNumEqual(x, y) ==
  IF x = Nil THEN y = Nil ELSE y # Nil /\ x = y

\* Mutant: only the stored fork block is compared with the head.
isForkIncompatibleStoredOnly(s1, s2, head) ==
  isForked(s1, head) /\ ~configNumEqual(s1, s2)

isForkIncompatible(s1, s2, head) ==
  (isForked(s1, head) \/ isForked(s2, head)) /\ ~configNumEqual(s1, s2)

\* newCompatError: RewindTo is one below the lower non-nil block, or 0.
newCompatError(what, storedblock, newblock) ==
  LET rew == CASE storedblock = Nil -> newblock
               [] newblock = Nil \/ storedblock < newblock -> storedblock
               [] OTHER -> newblock
  IN [What |-> what, StoredConfig |-> storedblock, NewConfig |-> newblock,
      RewindTo |-> IF rew # Nil /\ rew > 0 THEN rew - 1 ELSE 0]

\* The checks of checkCompatible, in the order the code makes them.
CheckOrder ==
  <<"Homestead", "DAO", "DAOSupport", "EIP150", "EIP155", "EIP155ChainID",
    "EIP158", "EIP158ChainID", "Byzantium", "Constantinople", "Petersburg",
    "Istanbul", "ewasm", "Ceil2Nby3", "QIP714", "MaxCodeSize">>

\* The block field a check compares (and reports) for the plain fork checks.
ForkField ==
  [Homestead |-> "HomesteadBlock", DAO |-> "DAOForkBlock",
   DAOSupport |-> "DAOForkBlock", EIP150 |-> "EIP150Block",
   EIP155 |-> "EIP155Block", EIP158 |-> "EIP158Block",
   EIP158ChainID |-> "EIP158Block", Byzantium |-> "ByzantiumBlock",
   Constantinople |-> "ConstantinopleBlock", Petersburg |-> "PetersburgBlock",
   Istanbul |-> "IstanbulBlock", ewasm |-> "EWASMBlock",
   QIP714 |-> "QIP714Block", MaxCodeSize |-> "MaxCodeSizeChangeBlock"]

Fails(k, c, n, head, smilo) ==
  CASE k = "DAOSupport" ->
         isForked(c.DAOForkBlock, head) /\ c.DAOForkSupport # n.DAOForkSupport
    [] k = "EIP155" ->
         smilo /\ c.ChainID # Nil
         /\ isForkIncompatible(c.EIP155Block, n.EIP155Block, head)
    [] k = "EIP155ChainID" ->
         smilo /\ c.ChainID # Nil /\ isForked(c.EIP155Block, head)
         /\ ~configNumEqual(c.ChainID, n.ChainID)
    [] k = "EIP158ChainID" ->
         isForked(c.EIP158Block, head) /\ ~configNumEqual(c.ChainID, n.ChainID)
    [] k = "Ceil2Nby3" ->
         c.Istanbul # Nil /\ n.Istanbul # Nil
         /\ isForkIncompatible(c.Istanbul.Ceil2Nby3Block,
                               n.Istanbul.Ceil2Nby3Block, head)
    [] OTHER ->
         isForkIncompatible(c[ForkField[k]], n[ForkField[k]], head)

\* The error a failing check returns: which numbers it hands newCompatError.
ErrorOf(k, c, n) ==
  CASE k = "EIP155ChainID" -> newCompatError(k, c.ChainID, n.ChainID)
    [] k = "Ceil2Nby3" ->
         newCompatError(k, c.Istanbul.Ceil2Nby3Block, n.Istanbul.Ceil2Nby3Block)
    [] OTHER -> newCompatError(k, c[ForkField[k]], n[ForkField[k]])

\* checkCompatible: the first failing check's error, or nil.
checkCompatible(c, n, head, smilo) ==
  LET failing == {i \in 1..Len(CheckOrder) :
                    Fails(CheckOrder[i], c, n, head, smilo)}
      first == CHOOSE i \in failing : \A j \in failing : i <= j
  IN IF failing = {} THEN Nil ELSE ErrorOf(CheckOrder[first], c, n)

\* Mutant: the first error is returned without iterating.
CompatLoopOnce(c, n, head, smilo, lasterr) ==
  checkCompatible(c, n, head, smilo)

\* The for loop of CheckCompatible: re-check at the last RewindTo until
\* there is no error or the rewind point stops moving.
RECURSIVE CompatLoop(_, _, _, _, _)
CompatLoop(c, n, head, smilo, lasterr) ==
  LET err == checkCompatible(c, n, head, smilo) IN
  IF err = Nil \/ (lasterr # Nil /\ err.RewindTo = lasterr.RewindTo)
    THEN lasterr
    ELSE CompatLoop(c, n, err.RewindTo, smilo, err)

CheckCompatible(c, n, height, smilo) == CompatLoop(c, n, height, smilo, Nil)

-----------------------------------------------------------------------------
(* The node.                                                               *)

VARIABLES
  stored,      \* the chain config in the database
  chain,       \* chain[h]: the config block h was built under
  restarts,
  lastCheck    \* inputs and result of the last CheckCompatible

vars == <<stored, chain, restarts, lastCheck>>

Init ==
  /\ stored = Genesis /\ chain = <<>> /\ restarts = 0
  /\ lastCheck = Nil

\* A block is imported under the stored config's rules.
ImportBlock ==
  /\ Len(chain) < MaxHead
  /\ chain' = Append(chain, stored)
  /\ UNCHANGED <<stored, restarts, lastCheck>>

\* A restart with config n: CheckCompatible at the head, rewind on an error
\* (SetHead never moves the head up), then n becomes the stored config.
Restart(n) ==
  /\ restarts < MaxRestarts
  /\ LET err == CheckCompatible(stored, n, Len(chain), SmiloEIP155)
         keep == IF err = Nil \/ err.RewindTo >= Len(chain)
                   THEN Len(chain) ELSE err.RewindTo
     IN /\ chain' = SubSeq(chain, 1, keep)
        /\ lastCheck' = [old |-> stored, new |-> n, head |-> Len(chain),
                         err |-> err]
  /\ stored' = n
  /\ restarts' = restarts + 1

Next == ImportBlock \/ \E n \in Configs : Restart(n)

Spec == Init /\ [][Next]_vars

-----------------------------------------------------------------------------
(* Properties, against the rules a block is executed under (Rules and the *)
(* other fork predicates), not against checkCompatible.                    *)

\* The Is* fork predicates (IsHomestead ... IsMaxCodeSizeChangeBlock): the
\* fork whose block is field f has happened at num.
IsForkedAt(c, f, num) == isForked(c[f], num)

\* IsPetersburg: Petersburg is on at its own block, or, when its block is
\* nil, from Constantinople on.
IsPetersburg(c, num) ==
  \/ isForked(c.PetersburgBlock, num)
  \/ c.PetersburgBlock = Nil /\ isForked(c.ConstantinopleBlock, num)

\* ChainConfig.Rules(num): the rules the EVM executes block num under; a
\* nil chain ID reads as 0.
Rules(c, num) ==
  [ChainID |-> IF c.ChainID = Nil THEN 0 ELSE c.ChainID,
   IsHomestead |-> IsForkedAt(c, "HomesteadBlock", num),
   IsEIP150 |-> IsForkedAt(c, "EIP150Block", num),
   IsEIP155 |-> IsForkedAt(c, "EIP155Block", num),
   IsEIP158 |-> IsForkedAt(c, "EIP158Block", num),
   IsByzantium |-> IsForkedAt(c, "ByzantiumBlock", num),
   IsConstantinople |-> IsForkedAt(c, "ConstantinopleBlock", num),
   IsPetersburg |-> IsPetersburg(c, num),
   IsIstanbul |-> IsForkedAt(c, "IstanbulBlock", num)]

\* What a block built under config c at height h depends on: Rules(h),
\* with EIP155 as activated on this node and the chain ID only once EIP155
\* or EIP158 uses it, plus the forks read outside Rules (the DAO side once
\* the DAO fork is active, ewasm, QIP714, the code-size change and the
\* Ceil(2N/3) switch when an Istanbul section exists).
RulesAt(c, h) ==
  LET r == Rules(c, h) IN
  [r EXCEPT !.IsEIP155 = SmiloEIP155 /\ @,
            !.ChainID = IF (SmiloEIP155 /\ r.IsEIP155) \/ r.IsEIP158
                          THEN @ ELSE Nil]
  @@ [dao |-> IsForkedAt(c, "DAOForkBlock", h),
      daoSupport |-> IsForkedAt(c, "DAOForkBlock", h) /\ c.DAOForkSupport,
      ewasm |-> IsForkedAt(c, "EWASMBlock", h),
      qip714 |-> IsForkedAt(c, "QIP714Block", h),
      maxCodeSize |-> IsForkedAt(c, "MaxCodeSizeChangeBlock", h),
      ceil |-> IF c.Istanbul = Nil THEN Nil
               ELSE isForked(c.Istanbul.Ceil2Nby3Block, h)]

\* After any sequence of imports and restarts with changed configs, every
\* block left on the chain was built under the same rules the stored
\* config now gives its height: CheckCompatible and the rewind it asks for
\* never keep a block whose rules a new config changed.
ChainMatchesConfig ==
  \A h \in 1..Len(chain) : RulesAt(chain[h], h) = RulesAt(stored, h)

\* The highest head up to which the two configs agree, or 0 when they
\* differ from genesis on.
HighestCompatibleHead(c, n, height) ==
  LET ok == {h \in 0..height : \A x \in 0..h : RulesAt(c, x) = RulesAt(n, x)}
  IN IF ok = {} THEN 0 ELSE CHOOSE h \in ok : \A x \in ok : x <= h

\* CheckCompatible "finds the lowest conflict": its RewindTo is the highest
\* block both configs agree on, whichever of the checks fired first.
RewindToLowestConflict ==
  (lastCheck # Nil /\ lastCheck.err # Nil) =>
    lastCheck.err.RewindTo =
      HighestCompatibleHead(lastCheck.old, lastCheck.new, lastCheck.head)

=============================================================================
