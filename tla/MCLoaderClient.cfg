SPECIFICATION ClientSpec
CONSTANTS
  w = w  p = p  d = d  b = b  k = k  n = n  i = i  x = x  y = y  s = s
  e = e  z = z  Meta = Meta  None = None
  Address <- MCAddress
  Key <- MCKey
  Program = {p}
  Pda <- MCPda
  Byte = {e, z}
  Zero = z
  Image <- MCImage
  BufferMeta = 1
  ProgramDataMeta = 2
  ProgramLen = 1
  MaxDataLen = 7
  RentOverhead = 0
  RentRate = 1
  Predrain = TRUE
  Supply <- MCSupply
  Authority = {w, k}
  Deposit = {2}
  BufferLens = {0, 2}
  ProgramLens = {2, 5}
  Offsets = {0, 1, 2}
  Chunk <- MCChunk
  rent = x  clock = y  system_program = s
  payer_address = w  program_address = p  programdata_address = d  buffer_address = b
  authority_address = k  new_authority_address = n  invalid_authority_address = i
  elf_orig <- MCOrig
  elf_new <- MCNew
  bad_elf <- MCBad
INVARIANTS ClientTypeOK AsksEnough AsksNoMore PredicatesTell ScriptAgrees BufferHoldsProgram
CHECK_DEADLOCK FALSE
