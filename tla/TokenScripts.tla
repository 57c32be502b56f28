---------------------------- MODULE TokenScripts ----------------------------
(***************************************************************************)
(* The scripts that handle tokens.  A run of fireblocks/initialize.ts      *)
(* makes a key, saves it to targetAccount.json and initialises the account *)
(* of simple_token twice, through Anchor and by hand; a run of mint.ts     *)
(* mints to the account the file names; a run of thaw-transfer-freeze.ts   *)
(* moves tokens of Token-2022 between accounts that are kept frozen.  Runs *)
(* overlap, and their transactions land in any order.                      *)
(***************************************************************************)
EXTENDS Requests, FreezeTransfer, FiniteSets

CONSTANTS
  Run,        \* runs of initialize.ts
  Minter,     \* runs of mint.ts
  Mover,      \* runs of thaw-transfer-freeze.ts
  Together,   \* the sets of runs there may be at a time
  targetAccount,  \* the key each run of initialize.ts generates
  None,       \* no file yet
  Account, MaxAmount, Amounts,  \* of simple_token
  mintAmount, \* what a run of mint.ts mints
  Supply,     \* the accounts of Token-2022 at first
  move        \* source, destination and amount of each run that moves tokens

ASSUME ScriptAssumption ==
  /\ Run \cap Minter = {} /\ Mover \cap (Run \cup Minter) = {} /\ None \notin Account
  /\ targetAccount \in [Run -> Account]
  /\ \A r, q \in Run : targetAccount[r] = targetAccount[q] => r = q
  /\ MaxAmount \in Nat \ {0} /\ Amounts \subseteq 0..MaxAmount /\ mintAmount \in Amounts
  /\ IsFiniteSet(DOMAIN Supply) /\ Supply \in [DOMAIN Supply -> Holding]
  /\ move \in [Mover -> [source : DOMAIN Supply, destination : DOMAIN Supply, amount : Nat]]

VARIABLES
  amount, minted, burned, doubled,  \* simple_token
  holding, \* the accounts of Token-2022
  file,    \* targetAccount.json
  target,  \* the account a run of mint.ts read from it
  pc       \* where each run is

simple_token == <<amount, minted, burned, doubled>>
token == <<simple_token, holding>>
scripts == <<file, target, pc>>
vars == <<token, requests, scripts>>

Token == INSTANCE SimpleToken

Process == Run \cup Minter \cup Mover

Init ==
  /\ Token!Init /\ holding = Supply /\ requests = << >>
  /\ file = None /\ target = [m \in Minter |-> None]
  /\ \E P \in Together :
       pc = [r \in Process |-> IF r \notin P THEN "absent"
                             ELSE IF r \in Run THEN "save"
                             ELSE IF r \in Minter THEN "read" ELSE "move"]

Goto(r, label) == pc' = [pc EXCEPT ![r] = label]

Tx(kind, account, by) == [kind |-> kind, account |-> account, by |-> by]

\* sendAndConfirmTransaction: an error ends the run.
Submit(r, from, tx, next) ==
  /\ pc[r] = from
  /\ \/ Sent(tx) /\ Goto(r, next)
     \/ Threw(tx) /\ Goto(r, "failed")
  /\ UNCHANGED <<token, file, target>>

-----------------------------------------------------------------------------
(* initialize.ts                                                           *)

Save(r) ==
  /\ pc[r] = "save"
  /\ file' = targetAccount[r] /\ Goto(r, "first")
  /\ UNCHANGED <<token, requests, target>>

InitializeByAnchor(r) ==
  Submit(r, "first", Tx("initialize", targetAccount[r], r), "second")

\* The same account again.
InitializeManually(r) ==
  Submit(r, "second", Tx("initialize", targetAccount[r], r), "done")

-----------------------------------------------------------------------------
(* mint.ts                                                                 *)

\* The file must be there to be read.
ReadUnsaved(m) ==
  /\ pc[m] = "read"
  /\ target' = [target EXCEPT ![m] = file] /\ Goto(m, "mint")
  /\ UNCHANGED <<token, requests, file>>

Read(m) ==
  /\ pc[m] = "read" /\ file # None
  /\ target' = [target EXCEPT ![m] = file] /\ Goto(m, "mint")
  /\ UNCHANGED <<token, requests, file>>

Mint(m) == Submit(m, "mint", Tx("mint", target[m], m), "done")

-----------------------------------------------------------------------------
(* thaw-transfer-freeze.ts                                                 *)

Moved(v) ==
  Outcome(holding, thawTransferFreeze(move[v].source, move[v].destination, move[v].amount))

Move(v) == Submit(v, "move", Tx("move", move[v].source, v), "done")

-----------------------------------------------------------------------------
\* An error elsewhere: creating the connection, the file, getLatestBlockhash.
Fail(r) ==
  /\ pc[r] \notin {"absent", "done", "failed"} /\ Goto(r, "failed")
  /\ UNCHANGED <<token, requests, file, target>>

-----------------------------------------------------------------------------
(* The network                                                             *)

\* A transaction that takes effect, and one the program refuses.
Execute(tx) ==
  \/ tx.kind = "initialize" /\ Token!initialize(tx.account) /\ UNCHANGED holding
  \/ tx.kind = "mint" /\ Token!mint(tx.account, mintAmount) /\ UNCHANGED holding
  \/ tx.kind = "move" /\ Moved(tx.by).ok /\ holding' = Moved(tx.by).holding
       /\ UNCHANGED simple_token

Refuse(tx) ==
  /\ \/ tx.kind = "initialize" /\ tx.account \in Token!Initialized
     \/ tx.kind = "mint" /\ tx.account \notin Token!Initialized
     \/ /\ tx.kind = "mint" /\ tx.account \in Token!Initialized
        /\ ~Token!NoOverflow(amount[tx.account], mintAmount)
     \/ tx.kind = "move" /\ ~Moved(tx.by).ok
  /\ UNCHANGED token

Land(id) ==
  /\ \/ Execute(requests[id].of) /\ Executed(id, TRUE)
     \/ Refuse(requests[id].of) /\ Executed(id, FALSE)
  /\ UNCHANGED scripts

Next ==
  \/ \E r \in Run : Save(r) \/ InitializeByAnchor(r) \/ InitializeManually(r)
  \/ \E m \in Minter : Read(m) \/ Mint(m)
  \/ \E v \in Mover : Move(v)
  \/ \E r \in Process : Fail(r)
  \/ \E id \in DOMAIN requests : Land(id)
  \/ \E id \in DOMAIN requests : Decide(id) /\ UNCHANGED <<token, scripts>>

Spec == Init /\ [][Next]_vars
-----------------------------------------------------------------------------
(* Properties                                                              *)

\* No account leaves the range of a u64 or goes below zero, and no transaction names
\* an account no run was given or generated.
TypeOK ==
  /\ Token!TypeOK /\ holding \in [DOMAIN Supply -> Holding]
  /\ file \in Account \cup {None} /\ target \in [Minter -> Account \cup {None}]
  /\ \A id \in DOMAIN requests :
       /\ requests[id].fate \in Fate
       /\ requests[id].of.account
            \in {targetAccount[r] : r \in Run} \cup {move[v].source : v \in Mover}

Minted(a) ==
  {id \in DOMAIN requests :
     /\ requests[id].fate = "ok"
     /\ requests[id].of.kind = "mint" /\ requests[id].of.account = a}

\* However late the second initialisation of an account lands, between the mints
\* of other runs or after them, it takes none of them back: an account holds what
\* the mints that took effect on it made.
AmountsAreMints ==
  \A a \in Token!Initialized : amount[a] = mintAmount * Cardinality(Minted(a))

Total(accounts) == SumFunction([a \in DOMAIN Supply |-> accounts[a].balance])

\* An account that was frozen is frozen whenever nothing executes, however many runs
\* move its tokens and whichever of them fail; and no token is made or lost by them.
KeptFrozen ==
  /\ \A a \in DOMAIN Supply : Supply[a].frozen => holding[a].frozen
  /\ Total(holding) = Total(Supply)
=============================================================================
