------------------------------- MODULE Stake --------------------------------
(***************************************************************************)
(* scripts/stake.ts: runs of its commands create, deactivate and withdraw  *)
(* side by side.  A run reads the state of a stake account, decides, and   *)
(* submits a transaction that lands later; epochs pass and anyone may send *)
(* lamports to the account in between.  The stake program and the RPC node *)
(* are modelled from what the script uses of them.                         *)
(***************************************************************************)
EXTENDS Requests

CONSTANTS
  Run,         \* runs of the script
  None,
  Commands,    \* what a run may be asked: its command and arguments
  Existing,    \* stake accounts there are before
  stakeAccount,  \* the key a run of create generates
  Reserve,     \* rent-exempt reserve of a stake account
  Purse,       \* lamports of the Fireblocks account
  Held,        \* lamports of the stake accounts there are before
  Gift,        \* what others may send to a stake account
  MaxGifts, MaxEpoch  \* bounds on such transfers and on the epochs

ASSUME StakeAssumption ==
  /\ Commands \subseteq [command : {"create"}, amount : Int]
        \cup [command : {"deactivate"}, stake : Existing \cup {stakeAccount[r] : r \in Run}]
        \cup [command : {"withdraw"}, stake : Existing \cup {stakeAccount[r] : r \in Run},
              amount : Nat \cup {None}]
  /\ \A r, q \in Run : stakeAccount[r] = stakeAccount[q] => r = q
  /\ \A r \in Run : stakeAccount[r] \notin Existing
  /\ {Purse, Gift, MaxGifts} \subseteq Nat /\ {Reserve, MaxEpoch} \subseteq Nat \ {0}
  /\ Held \in Nat /\ Held > Reserve

VARIABLES
  epoch,
  vault,   \* lamports of the Fireblocks account
  stakes,  \* the stake accounts on the chain
  gifts,   \* transfers by others not made yet
  task,    \* what each run was asked
  pc,      \* where it is
  balance  \* what getBalance told it

chain == <<epoch, vault, stakes, gifts>>
script == <<task, pc, balance>>
vars == <<chain, requests, script>>

Address == Existing \cup {stakeAccount[r] : r \in Run}

-----------------------------------------------------------------------------
(* The stake program                                                       *)

\* The epochs of the delegation, of which all but the reserve is the stake.
Never == MaxEpoch + 1
Delegated(lamports, e) ==
  [lamports |-> lamports, stake |-> lamports - Reserve, activated |-> e, deactivated |-> Never]
NoStake == [lamports |-> 0, stake |-> 0, activated |-> Never, deactivated |-> Never]

Exists(s) == stakes[s].lamports > 0

\* What a delegation counts for: it warms up and cools down in one epoch.
Locked(account) ==
  CASE account.deactivated = Never -> account.stake
    [] account.activated < account.deactivated /\ account.deactivated = epoch -> account.stake
    [] OTHER -> 0

\* getStakeActivation
Activation(account) ==
  CASE account.deactivated = Never -> IF account.activated = epoch THEN "activating" ELSE "active"
    [] account.deactivated # Never /\ Locked(account) > 0 -> "deactivating"
    [] OTHER -> "inactive"

\* Everything, or what leaves the reserve and the locked stake.
CanWithdraw(account, lamports) ==
  /\ lamports <= account.lamports
  /\ lamports + Reserve + Locked(account) <= account.lamports
       \/ (lamports = account.lamports /\ Locked(account) = 0)

Succeeds(tx) ==
  CASE tx.kind = "create" ->
         ~Exists(tx.stake) /\ tx.lamports > Reserve /\ tx.lamports <= vault
    [] tx.kind = "deactivate" -> Exists(tx.stake) /\ stakes[tx.stake].deactivated = Never
    [] tx.kind = "withdraw" -> Exists(tx.stake) /\ CanWithdraw(stakes[tx.stake], tx.lamports)

Withdrawn(account, lamports) ==
  IF lamports = account.lamports THEN NoStake ELSE [account EXCEPT !.lamports = @ - lamports]

Effect(tx) ==
  CASE tx.kind = "create" ->
         stakes' = [stakes EXCEPT ![tx.stake] = Delegated(tx.lamports, epoch)]
           /\ vault' = vault - tx.lamports
    [] tx.kind = "deactivate" ->
         stakes' = [stakes EXCEPT ![tx.stake].deactivated = epoch] /\ UNCHANGED vault
    [] tx.kind = "withdraw" ->
         stakes' = [stakes EXCEPT ![tx.stake] = Withdrawn(@, tx.lamports)]
           /\ vault' = vault + tx.lamports

Land(id) ==
  /\ Executed(id, Succeeds(requests[id].of))
  /\ IF Succeeds(requests[id].of) THEN Effect(requests[id].of) ELSE UNCHANGED <<vault, stakes>>
  /\ UNCHANGED <<epoch, gifts, script>>

NextEpoch ==
  /\ epoch < MaxEpoch /\ epoch' = epoch + 1
  /\ UNCHANGED <<vault, stakes, gifts, requests, script>>

\* Lamports anyone may transfer to the account.
Deposit(s) ==
  /\ gifts > 0 /\ gifts' = gifts - 1 /\ Exists(s)
  /\ stakes' = [stakes EXCEPT ![s].lamports = @ + Gift]
  /\ UNCHANGED <<epoch, vault, requests, script>>

-----------------------------------------------------------------------------
(* The script                                                              *)

Init ==
  /\ epoch = 1 /\ vault = Purse /\ gifts = MaxGifts
  /\ stakes = [s \in Address |-> IF s \in Existing THEN Delegated(Held, 0) ELSE NoStake]
  /\ requests = << >>
  /\ task \in [Run -> Commands]
  /\ pc = [r \in Run |-> "start"] /\ balance = [r \in Run |-> 0]

Goto(r, label) == pc' = [pc EXCEPT ![r] = label]

At(r, command, label) == task[r].command = command /\ pc[r] = label

Tx(kind, s, lamports, seen, by) ==
  [kind |-> kind, stake |-> s, lamports |-> lamports, balance |-> seen, by |-> by]

Submit(r, tx, next) ==
  /\ \/ Sent(tx) /\ Goto(r, next)
     \/ Threw(tx) /\ Goto(r, "failed")
  /\ UNCHANGED <<chain, task, balance>>

Anything(amount) == TRUE

\* main rejects an amount that is not a positive number.
Accepts(amount) == amount > 0

Create(r) ==
  /\ At(r, "create", "start") /\ Accepts(task[r].amount)
  /\ Submit(r, Tx("create", stakeAccount[r], task[r].amount, 0, r), "display")

\* getStakeActivation of the account, which fails while there is none: the error
\* is reported as that of the transaction.
Display(r) ==
  /\ At(r, "create", "display")
  /\ Goto(r, IF Exists(stakeAccount[r]) THEN "done" ELSE "failed")
  /\ UNCHANGED <<chain, requests, task, balance>>

\* deactivateStake shows the state, and goes on whatever it is.
Show(r) ==
  /\ At(r, "deactivate", "start")
  /\ Goto(r, IF Exists(task[r].stake) THEN "send" ELSE "failed")
  /\ UNCHANGED <<chain, requests, task, balance>>

Deactivate(r) ==
  /\ At(r, "deactivate", "send")
  /\ Submit(r, Tx("deactivate", task[r].stake, 0, 0, r), "done")

GetBalance(r) ==
  /\ At(r, "withdraw", "start")
  /\ balance' = [balance EXCEPT ![r] = stakes[task[r].stake].lamports]
  /\ Goto(r, "check")
  /\ UNCHANGED <<chain, requests, task>>

\* The state a withdrawal needs.
WithdrawableUnlessActive(state) == state # "active"

Withdrawable(state) == state = "inactive"

Check(r) ==
  /\ At(r, "withdraw", "check")
  /\ LET account == stakes[task[r].stake]
     IN \/ ~Exists(task[r].stake) /\ Goto(r, "failed")
        \/ /\ Exists(task[r].stake)
           /\ Goto(r, IF Withdrawable(Activation(account)) THEN "send" ELSE "refused")
  /\ UNCHANGED <<chain, requests, task, balance>>

\* An amount that is absent, zero or not a number (both 0 here) is the balance.
Requested(amount, lamports) == IF amount \in {None, 0} THEN lamports ELSE amount

Withdraw(r) ==
  /\ At(r, "withdraw", "send")
  /\ Submit(r, Tx("withdraw", task[r].stake, Requested(task[r].amount, balance[r]),
                  balance[r], r), "done")

\* Arguments main rejects, and calls of the RPC node or of Fireblocks that fail.
Fail(r) ==
  /\ pc[r] \in {"start", "display", "check", "send"} /\ Goto(r, "failed")
  /\ UNCHANGED <<chain, requests, task, balance>>

Next ==
  \/ \E r \in Run :
       \/ Create(r) \/ Display(r) \/ Show(r) \/ Deactivate(r)
       \/ GetBalance(r) \/ Check(r) \/ Withdraw(r) \/ Fail(r)
  \/ \E id \in DOMAIN requests : Land(id)
  \/ \E id \in DOMAIN requests : Decide(id) /\ UNCHANGED <<chain, script>>
  \/ NextEpoch
  \/ \E s \in Address : Deposit(s)

Spec == Init /\ [][Next]_vars
-----------------------------------------------------------------------------
(* Properties                                                              *)

\* No balance goes below zero, and no run asks for a stake that is not positive.
TypeOK ==
  /\ epoch \in 1..MaxEpoch /\ vault \in Nat /\ gifts \in 0..MaxGifts
  /\ \A s \in Address :
       stakes[s] \in [lamports : Nat, stake : Nat, activated : 0..Never, deactivated : 0..Never]
  /\ \A id \in DOMAIN requests :
       /\ requests[id].fate \in Fate /\ requests[id].of.lamports \in Nat
       /\ requests[id].of.kind = "create" => requests[id].of.lamports > 0

\* An amount the account the run saw could not give.
TooMuch(tx) ==
  tx.lamports # tx.balance /\ tx.lamports + Reserve > tx.balance

\* The state a run of withdraw checked cannot be stale in a way that matters: its
\* transaction, landing epochs and other runs' transactions later, fails only if
\* the account is gone, its balance is no longer the one the run read, or the amount
\* asked was too much.  (An account may be gone and its balance the one read: none,
\* if it was made between the two reads of the run.)
FailsOnlyByRace ==
  [][\A id \in DOMAIN requests :
       (requests[id].of.kind = "withdraw" /\ requests'[id].fate = "failed")
         => \/ requests[id].fate = "failed"
            \/ ~Exists(requests[id].of.stake)
            \/ stakes[requests[id].of.stake].lamports # requests[id].of.balance
            \/ TooMuch(requests[id].of)]_vars
=============================================================================
