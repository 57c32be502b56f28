--------------------------- MODULE MCTokenScripts ---------------------------
(* Two runs of initialize.ts that overwrite each other's file, and a run   *)
(* of mint.ts between and beside them; or two runs that move the same      *)
(* token out of an account, and one that moves it from there to a frozen   *)
(* account, which Token-2022 refuses.                                      *)
EXTENDS TokenScripts, TLC

CONSTANTS r, q, m, a, b, f, g, h, s, d, t

MCTargetAccount == r :> a @@ q :> b
MCTogether == {{r, q, m}, {f, g, h}}
MCSupply == s :> [balance |-> 1, frozen |-> TRUE] @@ d :> [balance |-> 0, frozen |-> FALSE]
              @@ t :> [balance |-> 0, frozen |-> TRUE]
MCMove == [v \in {f, g} |-> [source |-> s, destination |-> d, amount |-> 1]]
            @@ h :> [source |-> s, destination |-> t, amount |-> 1]
=============================================================================
