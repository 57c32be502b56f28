SPECIFICATION Spec
CONSTANTS
  w = w  p = p  d = d  b = b  o = o  e = e  f = f  z = z  Meta = Meta  None = None
  Address <- MCAddress
  Key <- MCAddress
  Program = {p}
  Pda <- MCPda
  Byte = {e, f, z}
  Zero = z
  Image <- MCImage
  BufferMeta = 2
  ProgramDataMeta = 3
  ProgramLen = 1
  MaxDataLen = 20
  RentOverhead = 0
  RentRate = 1
  Predrain = FALSE
  payer = w  program = p  buffer = b  programdata = d  other = o
  Rebuilds <- MCRebuilds
  chunkSize = 2
  PROGRAM_ACCOUNT_SPACE = 2
  maxRetries = 1
  Purse = 20
  MaxLate <- MCMaxLate
  Contested <- MCContested
INVARIANTS TypeOK BufferIntact HoleOnlyByRetry MixedOnlyByLate Recoverable
PROPERTIES ScriptEnds
CHECK_DEADLOCK FALSE
