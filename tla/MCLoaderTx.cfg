SPECIFICATION Spec
CONSTANTS
  w = w  p = p  d = d  b = b  k = k  j = j
  e = e  z = z  Meta = Meta  None = None
  Address <- MCAddress
  Key <- MCKey
  Program = {p}
  Pda <- MCPda
  Byte = {e, z}
  Zero = z
  Image <- MCImage
  BufferMeta = 1
  ProgramDataMeta = 2
  ProgramLen = 1
  MaxDataLen = 4
  RentOverhead = 0
  RentRate = 1
  Predrain = FALSE
  Supply <- MCSupply7
  SignerSets <- MCSignerSets
  Authority = {k}
  Deposit = {2}
  Spaces = {2}
  Lengths = {0, 1}
  Chunk <- MCChunk
  Gift = {1}
  MaxInstructions = 2
  MaxSlot = 0
PROPERTIES OnlyAuthorityChanges ProgramPermanent ImplementsRegistry
INVARIANTS ProgramLinked
CHECK_DEADLOCK FALSE
CONSTRAINT FewLamports
