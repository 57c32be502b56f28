------------------------------ MODULE MCLoader ------------------------------
(* One program p with programdata d, one buffer b, a wallet w and two      *)
(* authorities that are only keys; accounts of up to four cells.           *)
EXTENDS UpgradeableLoader, TLC

CONSTANTS w, p, d, b, k, j, e, z

MCAddress == {w, p, d, b}
MCKey == MCAddress \cup {k, j}
MCPda == p :> d
MCImage == {s \in UNION {[1..n -> {e, z}] : n \in 1..2} : s[1] = e}
Wallet(n) == [a \in MCAddress |-> [NoAccount EXCEPT !.lamports = IF a = w THEN n ELSE 0]]
MCSupply == Wallet(8)
MCSupply7 == Wallet(7)
MCSignerSets == {{w, p, b, k}, {w, j}}
MCChunk == {<<e>>}
\* Bound of the two-instruction run: no account but the wallet hoards lamports.
FewLamports == \A a \in Address \ {w} : acct[a].lamports <= 3
=============================================================================
