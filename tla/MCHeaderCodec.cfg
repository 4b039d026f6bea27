\* One fullnode (F = 0, so sport asks for 2F = 0 seals beyond a non-empty
\* list) and one outside key that may re-seal the same block; a one-byte vanity with raw extras of length
\* 0..2 (short, exact, long); committed-seal lists of up to two seals.
CONSTANTS
  v1 = v1  o1 = o1  g = g
  BadSig = BadSig  ShortSeal = ShortSeal  None = None
  Validators <- MCValidators
  Outsiders <- MCOutsiders
  Garbage = g
  ValLists <- MCValLists
  z = z  x = x
  Bytes <- MCBytes
  Zero = z
  VanityLen = 1
  MaxCommitted = 2
SPECIFICATION Spec
INVARIANT SealRecoversProposer
INVARIANT AcceptedSealedByValidator
