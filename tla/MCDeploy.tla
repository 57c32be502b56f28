------------------------------ MODULE MCDeploy ------------------------------
(* Two runs: with a file of two chunks and a shorter one after it, whose    *)
(* buffer has the same size, or with a file of one chunk and one that does  *)
(* not fit the buffer of the first.  Then the histories another party takes *)
(* part in: two runs with files of one chunk, the second begun after what   *)
(* the first broadcast has landed, and one run, with a file of two chunks,  *)
(* that fits the buffer or does not.  The first cell makes an image load.   *)
EXTENDS Deploy, TLC

CONSTANTS w, p, d, b, o, e, f, z

MCAddress == {w, p, d, b, o}
MCPda == p :> d
Build(file, size) == [file |-> file, bufferSize |-> size]
MCContested ==
  { << Build(<<e, e>>, 4), Build(<<f, f>>, 4) >>,
    << Build(<<e, f, f>>, 6) >>, << Build(<<e, f, f>>, 4) >> }
MCRebuilds ==
  { << Build(<<e, f, f>>, 6), Build(<<f, e>>, 6) >>,
    << Build(<<e, e>>, 4), Build(<<f, f, e>>, 6) >> } \cup MCContested
MCMaxLate == [versions \in MCRebuilds |-> IF versions \in MCContested THEN 0 ELSE 2]
MCImage == {c \in [1..4 -> {e, f, z}] \cup [1..2 -> {e, f, z}] : c[1] # z}
=============================================================================
