SPECIFICATION Spec
CONSTANTS
  a = a  b = b  c = c  s = s  t = t  u = u  v = v  None = None
  Run = {a, b, c}
  Commands <- MCCommands
  Existing = {s}
  stakeAccount <- MCStakeAccount
  Reserve = 2
  Purse = 5
  Held = 5
  Gift = 1
  MaxGifts = 1
  MaxEpoch = 3
INVARIANTS TypeOK
PROPERTIES FailsOnlyByRace
CHECK_DEADLOCK FALSE
