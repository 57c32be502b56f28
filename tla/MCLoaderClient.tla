--------------------------- MODULE MCLoaderClient ---------------------------
(* One program p with programdata d, one buffer b, a wallet w that is also *)
(* an authority, and a key k that only signs; n and i are further keys for *)
(* the tests.                                                              *)
EXTENDS LoaderTests

CONSTANTS w, p, d, b, k, n, i, x, y, s, e, z

MCAddress == {w, p, d, b}
MCKey == MCAddress \cup {k, n, i, x, y, s}
MCPda == p :> d
MCImage == {c \in UNION {[1..m -> {e, z}] : m \in 1..2} : c[1] = e}
MCSupply == [a \in MCAddress |-> [NoAccount EXCEPT !.lamports = IF a = w THEN 8 ELSE 0]]
MCChunk == {<<e>>}
MCOrig == <<e, e>>
MCNew == <<e>>
MCBad == <<z>>
=============================================================================
