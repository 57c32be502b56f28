SPECIFICATION Spec
CONSTANTS
  v = v  s = s  t = t  NoPayer = NoPayer
  PublicKey = {v, s, t}
  account = v
  SignerLists <- MCSignerLists
  MAX_RETRIES = 3
  UnlistedEnds = {}
INVARIANTS TypeOK NoFalseFailure
PROPERTIES Settles ImplementsSubmission
