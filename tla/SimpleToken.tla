---------------------------- MODULE SimpleToken -----------------------------
(***************************************************************************)
(* The Anchor program simple_token: token accounts that hold a u64 amount. *)
(* Anchor gives every instruction its own copies of the accounts it names  *)
(* and writes them back, in the order they are declared, when it returns;  *)
(* an instruction that fails, by a require! or by overflow (the release    *)
(* profile checks it), writes nothing back.                                *)
(***************************************************************************)
EXTENDS Integers, FiniteSets, Functions

CONSTANTS
  Account,    \* addresses a token account may live at
  MaxAmount,  \* u64::MAX
  Amounts     \* amount arguments the callers pass

ASSUME AmountAssumption ==
  /\ MaxAmount \in Nat \ {0}
  /\ Amounts \subseteq 0..MaxAmount

VARIABLES
  amount,   \* what each initialized token account holds
  minted, burned,  \* history: amounts of the calls that succeeded
  doubled   \* history: amounts transferred from an account to itself

vars == <<amount, minted, burned, doubled>>

Initialized == DOMAIN amount

Init ==
  /\ amount = [a \in {} |-> 0]
  /\ minted = 0 /\ burned = 0 /\ doubled = 0

\* The instruction's copy of an account replaces it.
WriteBack(account, copy) == [amount EXCEPT ![account] = copy]

\* Checked u64 addition: overflow panics, and the instruction fails.
NoOverflowUnchecked(x, n) == TRUE

NoOverflow(x, n) == x + n <= MaxAmount

initializeIfNeeded(a) ==
  /\ amount' = [x \in Initialized \cup {a} |-> IF x = a THEN 0 ELSE amount[x]]
  /\ UNCHANGED <<minted, burned, doubled>>

\* init creates the account, so there must be none at the address.
initialize(a) ==
  /\ a \notin Initialized
  /\ amount' = [x \in Initialized \cup {a} |-> IF x = a THEN 0 ELSE amount[x]]
  /\ UNCHANGED <<minted, burned, doubled>>

mint(a, n) ==
  /\ a \in Initialized
  /\ NoOverflow(amount[a], n)
  /\ amount' = WriteBack(a, amount[a] + n)
  /\ minted' = minted + n
  /\ UNCHANGED <<burned, doubled>>

burn(a, n) ==
  /\ a \in Initialized
  /\ amount[a] >= n
  /\ amount' = WriteBack(a, amount[a] - n)
  /\ burned' = burned + n
  /\ UNCHANGED <<minted, doubled>>

\* The two copies of a transfer, written back from first: when both are the same
\* account the copy `to` wins, and the debit of the copy `from` is lost.
TransferredSwapped(from, to, n) ==
  [amount EXCEPT ![to] = amount[to] + n, ![from] = amount[from] - n]

Transferred(from, to, n) ==
  [amount EXCEPT ![from] = amount[from] - n, ![to] = amount[to] + n]

transfer(from, to, n) ==
  /\ {from, to} \subseteq Initialized
  /\ amount[from] >= n
  /\ NoOverflow(amount[to], n)
  /\ amount' = Transferred(from, to, n)
  /\ doubled' = IF from = to THEN doubled + n ELSE doubled
  /\ UNCHANGED <<minted, burned>>

Next ==
  \/ \E a \in Account : initialize(a)
  \/ \E a \in Account, n \in Amounts : mint(a, n) \/ burn(a, n)
  \/ \E from, to \in Account, n \in Amounts : transfer(from, to, n)

Spec == Init /\ [][Next]_vars
-----------------------------------------------------------------------------

\* No sequence of calls takes an amount below zero or above u64::MAX.
TypeOK ==
  /\ Initialized \subseteq Account
  /\ amount \in [Initialized -> 0..MaxAmount]
  /\ minted \in Nat /\ burned \in Nat /\ doubled \in Nat

\* The tokens in circulation are those minted and not burned, and those a
\* transfer from an account to itself added: a transfer between two accounts
\* makes or loses none, and a failed call leaves no trace.
SupplyAccounted == SumFunction(amount) = minted + doubled - burned
=============================================================================
