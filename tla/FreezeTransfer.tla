--------------------------- MODULE FreezeTransfer ---------------------------
(***************************************************************************)
(* The transaction of thaw-transfer-freeze.ts, over accounts of Token-2022 *)
(* as the script expects them: holding[a] is a balance and whether the     *)
(* account is frozen.  A transaction takes effect as a whole or not at all.*)
(***************************************************************************)
EXTENDS Integers, SequencesExt

Holding == [balance : Nat, frozen : BOOLEAN]

Thaw(a) == [op |-> "thaw", account |-> a]
Freeze(a) == [op |-> "freeze", account |-> a]
TransferChecked(from, to, n) == [op |-> "transfer", from |-> from, to |-> to, amount |-> n]

thawTransfer(source, destination, n) ==
  << Thaw(source), TransferChecked(source, destination, n) >>

thawTransferFreeze(source, destination, n) ==
  << Thaw(source), TransferChecked(source, destination, n), Freeze(source) >>

\* Token-2022 refuses to thaw what is not frozen, to freeze what is, and to move
\* tokens from or to a frozen account.
Allowed(holding, ix) ==
  CASE ix.op = "thaw"   -> holding[ix.account].frozen
    [] ix.op = "freeze" -> ~holding[ix.account].frozen
    [] ix.op = "transfer" ->
         /\ ~holding[ix.from].frozen /\ ~holding[ix.to].frozen
         /\ holding[ix.from].balance >= ix.amount

Applied(holding, ix) ==
  CASE ix.op = "thaw"   -> [holding EXCEPT ![ix.account].frozen = FALSE]
    [] ix.op = "freeze" -> [holding EXCEPT ![ix.account].frozen = TRUE]
    [] ix.op = "transfer" ->
         LET debited == [holding EXCEPT ![ix.from].balance = @ - ix.amount]
         IN [debited EXCEPT ![ix.to].balance = @ + ix.amount]

\* An instruction, on what the ones before it left; a transaction that fails leaves
\* the accounts as they were.
Step(holding, r, ix) ==
  IF r.ok /\ Allowed(r.holding, ix) THEN [r EXCEPT !.holding = Applied(@, ix)]
  ELSE [ok |-> FALSE, holding |-> holding]

\* The instructions in order.
Outcome(holding, tx) ==
  FoldLeft(LAMBDA r, ix : Step(holding, r, ix), [ok |-> TRUE, holding |-> holding], tx)
=============================================================================
