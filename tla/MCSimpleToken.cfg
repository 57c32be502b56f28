SPECIFICATION ExecSpec
CONSTANTS
  q = q  u = u  e = e  z = z  None = None
  Account = {a1, a2, a3}
  MaxAmount = 2
  Amounts <- MCAmounts
  Draft = {q}
  Token = token
  SignerSets <- MCSignerSets
  Byte = {e, z}
  Zero = z
  Image <- MCImage
  Chunk <- MCChunk
  Offsets = {0, 1}
  Space = 2
  Budget = 5
  Heaps = {1, 2}
  heap_cost = 2
  MaxDepth = 2
  MaxInstructions = 2
  MaxHistory = 2
INVARIANTS TypeOK SupplyAccounted CachedIsFinal PaidInFull
PROPERTIES WrittenByItsKey Stops
CHECK_DEADLOCK FALSE
