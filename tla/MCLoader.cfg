SPECIFICATION Spec
CONSTANTS
  w = w  p = p  d = d  b = b  k = k  j = j
  e = e  z = z  Meta = Meta  None = None
  Address <- MCAddress
  Key <- MCKey
  Program = {p}
  Pda <- MCPda
  Byte = {e, z}
  Zero = z
  Image <- MCImage
  BufferMeta = 1
  ProgramDataMeta = 2
  ProgramLen = 1
  MaxDataLen = 4
  RentOverhead = 0
  RentRate = 1
  Predrain = TRUE
  Supply <- MCSupply
  SignerSets <- MCSignerSets
  Authority = {k, j}
  Deposit = {2}
  Spaces = {2, 3}
  Lengths = {0, 1, 2}
  Chunk <- MCChunk
  Gift = {}
  MaxInstructions = 1
  MaxSlot = 1
INVARIANTS TypeOK LamportsConserved HeaderIntact InstalledIsVerified CacheCoherent
CHECK_DEADLOCK FALSE
