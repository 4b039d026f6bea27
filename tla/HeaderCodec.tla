----------------------------- MODULE HeaderCodec -----------------------------
(***************************************************************************)
(* The sport backend's consensus extra-data of one header                  *)
(* (consensus/sport/backend/backend_engine_sport.go): prepareExtra,        *)
(* updateBlock/writeSeal, writeCommittedSeals, ecrecover with its          *)
(* process-wide recentAddresses cache, and the sport verifySigner and      *)
(* verifyCommittedSeals run on the header the codec produced.              *)
(*                                                                         *)
(* header.Extra is a sequence: vanity bytes, then one element for the     *)
(* RLP-encoded SportExtra (a record), which ExtractSportExtra decodes.      *)
(* A signature is the pair (key, digest); recovering it against another    *)
(* digest gives an unrelated address, Garbage.  The calls on the header    *)
(* happen in any order and any number of times, as the miner (Prepare,     *)
(* Seal, re-seal of a new round), the core (Commit) and importers          *)
(* (VerifyHeader) may make them.                                           *)
(***************************************************************************)
EXTENDS CommittedSeals, SequencesExt

CONSTANTS
  ValLists,     \* validator lists a Prepare may write
  Bytes,        \* vanity byte values
  Zero,         \* the padding byte 0x00
  VanityLen,    \* types.SportExtraVanity
  MaxCommitted, \* longest committed-seal list a Commit writes
  ShortSeal,    \* a committed seal of the wrong length
  Garbage,      \* what recovery against a different digest gives
  None

ASSUME Garbage \in Outsiders /\ Zero \in Bytes

Signers == Validators \cup (Outsiders \ {Garbage})
NoSeal == <<>>                       \* Seal: []byte{}

VARIABLES
  extra,           \* header.Extra
  recentAddresses, \* ecrecover's cache: header hash -> address
  sealer,          \* history: key of the last updateBlock since prepareExtra
  verdict          \* errors of verifying the header as it is now, if done

vars == <<extra, recentAddresses, sealer, verdict>>

\* types.ExtractSportExtra: the element after the vanity, when there is one.
Extractable(e) == Len(e) = VanityLen + 1 /\ e[VanityLen + 1] \notin Bytes
ExtraOf(e) == e[VanityLen + 1]
Vanity(e) == SubSeq(e, 1, VanityLen)
WithExtra(e, ist) == Vanity(e) \o <<ist>>

\* sigHash: the header with Seal and CommittedSeal cleared; header.Hash():
\* the header with CommittedSeal cleared (committed seals sign this hash).
SigHash(e) == [vanity |-> Vanity(e), vals |-> ExtraOf(e).Fullnodes]
HeaderHash(e) == [sig |-> SigHash(e), seal |-> ExtraOf(e).Seal]

Sign(key, digest) == [key |-> key, digest |-> digest]
\* PrepareCommittedSeal(hash): committed seals sign Keccak(hash || 0x02).
CommitDigest(hash) == [committed |-> hash]

\* sport.GetSignatureAddress: an empty seal does not recover.
GetSignatureAddress(digest, sig) ==
  IF sig = NoSeal THEN [err |-> "errInvalidSignature", addr |-> None]
  ELSE [err |-> "nil",
        addr |-> IF sig.digest = digest THEN sig.key ELSE Garbage]

\* prepareExtra: pad Extra with zero bytes to the vanity length, keep the
\* first VanityLen bytes, append a SportExtra with the list and no seals.
prepareExtra(e, vals) ==
  LET padded == IF Len(e) < VanityLen
                  THEN e \o [i \in 1..(VanityLen - Len(e)) |-> Zero] ELSE e
  IN SubSeq(padded, 1, VanityLen)
       \o <<[Fullnodes |-> vals, Seal |-> NoSeal, CommittedSeal |-> <<>>]>>

\* Mutant: writeCommittedSeals re-encodes the extra without the vanity.
writeCommittedSealsNoVanity(e, seals) ==
  CASE seals = <<>>                      -> [err |-> "errInvalidCommittedSeals"]
    [] \E i \in 1..Len(seals) : seals[i] = ShortSeal
                                         -> [err |-> "errInvalidCommittedSeals"]
    [] ~Extractable(e)                   -> [err |-> "errInvalidSportHeaderExtra"]
    [] OTHER -> [err |-> "nil",
                 extra |-> <<[ExtraOf(e) EXCEPT !.CommittedSeal = seals]>>]

\* writeCommittedSeals: reject an empty list or a seal of the wrong length,
\* then replace CommittedSeal and re-encode after the vanity.
writeCommittedSeals(e, seals) ==
  CASE seals = <<>>                      -> [err |-> "errInvalidCommittedSeals"]
    [] \E i \in 1..Len(seals) : seals[i] = ShortSeal
                                         -> [err |-> "errInvalidCommittedSeals"]
    [] ~Extractable(e)                   -> [err |-> "errInvalidSportHeaderExtra"]
    [] OTHER -> [err |-> "nil",
                 extra |-> WithExtra(e, [ExtraOf(e) EXCEPT !.CommittedSeal = seals])]

\* Mutant: the cache is keyed by the signing hash, which leaves the seal out.
ecrecoverBySigHash(e, cache) ==
  IF ~Extractable(e) THEN [err |-> "errInvalidSportHeaderExtra", cache |-> cache]
  ELSE IF SigHash(e) \in DOMAIN cache
    THEN [err |-> "nil", addr |-> cache[SigHash(e)], cache |-> cache]
  ELSE LET r == GetSignatureAddress(SigHash(e), ExtraOf(e).Seal) IN
       [err |-> r.err, addr |-> r.addr,
        cache |-> IF r.err = "nil" THEN (SigHash(e) :> r.addr) @@ cache ELSE cache]

\* ecrecover: a cache hit on header.Hash(), else decode the extra, recover
\* the proposer seal against sigHash and cache the address.  (Only decodable
\* headers are ever cached, so decoding first changes no outcome.)
ecrecover(e, cache) ==
  IF ~Extractable(e) THEN [err |-> "errInvalidSportHeaderExtra", cache |-> cache]
  ELSE IF HeaderHash(e) \in DOMAIN cache
    THEN [err |-> "nil", addr |-> cache[HeaderHash(e)], cache |-> cache]
  ELSE LET r == GetSignatureAddress(SigHash(e), ExtraOf(e).Seal) IN
       [err |-> r.err, addr |-> r.addr,
        cache |-> IF r.err = "nil" THEN (HeaderHash(e) :> r.addr) @@ cache ELSE cache]

\* sport verifySigner: genesis is not verifiable; the recovered proposer
\* must be in the parent's fullnode set.  Returns the error and the cache.
sportVerifySigner(number, e, cache) ==
  IF number = 0 THEN [err |-> "errUnknownBlock", cache |-> cache]
  ELSE LET r == ecrecover(e, cache) IN
       [err |-> CASE r.err # "nil"              -> r.err
                  [] r.addr \notin Validators   -> "errUnauthorized"
                  [] OTHER                      -> "nil",
        cache |-> r.cache]

\* The committed seals as the addresses GetSignatureAddress recovers from
\* them against Keccak(header.Hash() || 0x02).
CommittedSigners(e) ==
  LET digest == CommitDigest(HeaderHash(e)) IN
  [i \in 1..Len(ExtraOf(e).CommittedSeal) |->
     LET r == GetSignatureAddress(digest, ExtraOf(e).CommittedSeal[i]) IN
     IF r.err = "nil" THEN r.addr ELSE BadSig]

\* sport verifyCommittedSeals: nothing to check at genesis; otherwise the
\* loop of CommittedSeals with the 2F threshold.
sportVerifyCommittedSeals(number, e) ==
  CASE number = 0      -> "nil"
    [] ~Extractable(e) -> "errInvalidSportHeaderExtra"
    [] OTHER -> verifyCommittedSeals(CommittedSigners(e), Validators,
                                     SportMinSeals(Validators))

\* writeSeal: the seal must be a whole number of SportExtraSeal-byte
\* signatures (Sign's always are); decode, set Seal, re-encode.
writeSeal(e, seal) ==
  IF ~Extractable(e) THEN [err |-> "errInvalidSportHeaderExtra"]
  ELSE [err |-> "nil", extra |-> WithExtra(e, [ExtraOf(e) EXCEPT !.Seal = seal])]

\* updateBlock: sign sigHash(header) with the node's key, write the seal.
updateBlock(e, key) == writeSeal(e, Sign(key, SigHash(e)))

-----------------------------------------------------------------------------

Init ==
  /\ extra \in BoundedSeq(Bytes, VanityLen + 1)   \* the miner's extra data
  /\ recentAddresses = [h \in {} |-> None]
  /\ sealer = None
  /\ verdict = <<None, None>>

\* Engine Prepare writes the extra for the new header's validator list.
Prepare(vals) ==
  /\ extra' = prepareExtra(extra, vals)
  /\ sealer' = None
  /\ verdict' = <<None, None>>
  /\ UNCHANGED recentAddresses

\* Seal -> updateBlock with the key of the sealing node; an error leaves the
\* header as it was.
UpdateBlock(key) ==
  LET r == updateBlock(extra, key) IN
  /\ r.err = "nil"
  /\ extra' = r.extra
  /\ sealer' = key
  /\ verdict' = <<None, None>>
  /\ UNCHANGED recentAddresses

\* The committed seals a Commit may collect for the header as it is now:
\* any key's seal over Keccak(header.Hash() || 0x02), or a short seal.
CommitSeals ==
  IF Extractable(extra)
    THEN {Sign(k, CommitDigest(HeaderHash(extra))) : k \in Signers} \cup {ShortSeal}
    ELSE {ShortSeal}

\* Commit -> writeCommittedSeals with the seals the core collected.
Commit(seals) ==
  LET r == writeCommittedSeals(extra, seals) IN
  /\ r.err = "nil"
  /\ extra' = r.extra
  /\ verdict' = <<None, None>>
  /\ UNCHANGED <<recentAddresses, sealer>>

\* An importer runs verifySigner then verifyCommittedSeals on the header.
Verify(number) ==
  LET s == sportVerifySigner(number, extra, recentAddresses) IN
  /\ recentAddresses' = s.cache
  /\ verdict' = <<s.err, sportVerifyCommittedSeals(number, extra)>>
  /\ UNCHANGED <<extra, sealer>>

Next ==
  \/ \E vals \in ValLists : Prepare(vals)
  \/ \E key \in Signers : UpdateBlock(key)
  \/ \E seals \in BoundedSeq(CommitSeals, MaxCommitted) : Commit(seals)
  \/ \E number \in {0, 1} : Verify(number)

Spec == Init /\ [][Next]_vars

-----------------------------------------------------------------------------
(* Properties                                                              *)

\* Spec 8.6 (sig-hash stability): once updateBlock sealed the header, the
\* proposer seal keeps recovering to the sealing key through every later
\* writeCommittedSeals, until a new prepareExtra starts the header again.
SealRecoversProposer ==
  sealer # None =>
    /\ Extractable(extra)
    /\ GetSignatureAddress(SigHash(extra), ExtraOf(extra).Seal).addr = sealer

\* Verification never trusts a stale cached signer: when the sport
\* verifySigner and verifyCommittedSeals accept the header, through
\* ecrecover's cache, it was really sealed by a fullnode, even when an
\* earlier seal by another key of the same block was verified before.
AcceptedSealedByValidator ==
  verdict = <<"nil", "nil">> =>
    GetSignatureAddress(SigHash(extra), ExtraOf(extra).Seal).addr \in Validators
=============================================================================
