SPECIFICATION Spec
CONSTANTS
  r = r  q = q  m = m  a = a  b = b  None = None
  f = f  g = g  h = h  s = s  d = d  t = t
  Run = {r, q}
  Minter = {m}
  Mover = {f, g, h}
  Together <- MCTogether
  Supply <- MCSupply
  move <- MCMove
  targetAccount <- MCTargetAccount
  Account = {a, b}
  MaxAmount = 1
  Amounts = {1}
  mintAmount = 1
INVARIANTS TypeOK AmountsAreMints KeptFrozen
CHECK_DEADLOCK FALSE
