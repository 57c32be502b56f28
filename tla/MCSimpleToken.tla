--------------------------- MODULE MCSimpleToken ----------------------------
(* simple_token with three accounts and a u64 that overflows early, and a  *)
(* program q of the loader v1 that calls it once it is finalized.          *)
EXTENDS Execution

CONSTANTS q, u, e, z

MCAmounts == 0..MaxAmount
MCSignerSets == {{u}, {u, q}}
MCChunk == {<<e>>}
\* What loads: the drafts whose first cell was written.
MCImage == {<<e, z>>, <<e, e>>}
=============================================================================
