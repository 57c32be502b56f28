----------------------------- MODULE DeploySizes ----------------------------
(***************************************************************************)
(* The arithmetic of deploy.ts, in bytes: the buffer account it allocates  *)
(* for a file, the chunks it writes, and which of them the loader refuses  *)
(* because they end behind the account.                                    *)
(***************************************************************************)
EXTENDS Integers

CONSTANT Lengths  \* sizes of the program file

ASSUME LengthsAssumption == Lengths \subseteq Nat

VARIABLES
  len,      \* programData.length
  i,        \* chunks written
  covered,  \* bytes of the file they hold
  lost      \* chunks the loader refused

sizes == <<len, i, covered, lost>>

Least(m, n) == IF m < n THEN m ELSE n

\* size_of_buffer_metadata: a tag of 4 bytes, an option's 1, a key's 32.
bufferMetadata == 4 + 1 + 32

\* Math.ceil((programData.length + 33) / 1024) * 1024
bufferSizeFloor(n) == ((n + 33) \div 1024) * 1024

bufferSize(n) == ((n + 33 + 1023) \div 1024) * 1024

\* calculateOptimalChunkSize
chunkSize == Least(1232 - 400 - 5 - 150, 600)

totalChunksFloor(n) == n \div chunkSize

totalChunks(n) == (n + chunkSize - 1) \div chunkSize

Offset(c) == c * chunkSize

ChunkEnd(n, c) == Least(Offset(c) + chunkSize, n)

\* The length test of the loader's Write.
Refused(n, c) == bufferMetadata + ChunkEnd(n, c) > bufferSize(n)

SizesInit == len \in Lengths /\ i = 0 /\ covered = 0 /\ lost = {}

WriteChunk ==
  /\ i < totalChunks(len)
  /\ i' = i + 1
  /\ covered' = covered + (ChunkEnd(len, i) - Offset(i))
  /\ lost' = IF Refused(len, i) THEN lost \cup {i} ELSE lost
  /\ UNCHANGED len

SizesNext == WriteChunk

SizesSpec == SizesInit /\ [][SizesNext]_sizes
-----------------------------------------------------------------------------

\* The chunks follow each other without gap or overlap, and the last one ends
\* where the file does.
Contiguous == covered = IF i = totalChunks(len) THEN len ELSE Offset(i)

\* The allocation is short by four bytes at most: a write can be refused only at
\* the end of the file, in the last two chunks.
LostOnlyAtTheEnd == \A c \in lost : c >= totalChunks(len) - 2

\* What the comment beside bufferSize says of the metadata in front of the content
\* (33 bytes): the account holds it and the file, so that no write is refused.
FileFits == lost = {}

\* The sizes of which the end does not fit.
Short(n) == (n + 33) % 1024 \in {0, 1021, 1022, 1023}

\* A chunk is refused for those sizes and no others.
LostIffShort == (i = totalChunks(len) /\ len > 0) => (lost # {} <=> Short(len))
=============================================================================
