SPECIFICATION Spec
CONSTANTS
  v = v  s = s  t = t  NoPayer = NoPayer
  PublicKey = {v, s, t}
  account = v
  SignerLists <- MCSignerListsPayerFirst
  MAX_RETRIES = 3
  UnlistedEnds = {"TIMEOUT"}
INVARIANTS EverySignerSigns
