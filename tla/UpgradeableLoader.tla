------------------------- MODULE UpgradeableLoader --------------------------
(***************************************************************************)
(* The upgradeable loader (scripts/ref/bpf_loader) on a ledger.  A         *)
(* transaction is a set of signers and a sequence of instructions, each    *)
(* working on the accounts the one before left; an instruction that fails  *)
(* undoes the whole transaction, a transaction that ends writes its        *)
(* accounts back and drops those without lamports.  The loader itself      *)
(* keeps nothing between instructions but the executors it caches.         *)
(***************************************************************************)
EXTENDS LoaderInstructions, FiniteSets, Functions

CONSTANTS
  Supply,           \* the accounts and balances the ledger starts with
  SignerSets,       \* who may sign a transaction
  Authority,        \* keys passed as authority
  Deposit,          \* balances an account may be created with
  Spaces,           \* sizes an account may be created with
  Lengths,          \* max_data_len and offset arguments
  Chunk,            \* contents of a Write
  Gift,             \* amounts of a plain transfer
  MaxInstructions,  \* bound on the instructions of a transaction
  MaxSlot           \* bound on the clock

VARIABLES
  bank,       \* committed accounts
  acct,       \* accounts as the transaction in flight sees them
  signers,    \* signers of the transaction in flight, {} when there is none
  steps,      \* instructions it has executed
  executors,  \* committed executor cache: the code a program id runs, or None
  loaded,     \* the cache as the transaction in flight sees it
  slot        \* Clock::slot

vars == <<bank, acct, signers, steps, executors, loaded, slot>>
ledger == <<bank, executors, slot>>

\* An address is 32 bytes.
ASSUME LedgerAssumption == IsFiniteSet(Address)
ASSUME SupplyAssumption ==
  /\ Supply \in [Address -> Account]
  /\ \A a \in Address : Supply[a] = [NoAccount EXCEPT !.lamports = Supply[a].lamports]
ASSUME CallerAssumption ==
  /\ SignerSets \subseteq (SUBSET Key) \ {{}}
  /\ Authority \subseteq Key
ASSUME BoundAssumption ==
  /\ Deposit \cup Spaces \cup Lengths \cup Gift \cup {MaxInstructions, MaxSlot} \subseteq Nat
  /\ Chunk \subseteq Seq(Byte)

InTransaction == signers # {}

Init ==
  /\ bank = Supply /\ acct = Supply
  /\ signers = {} /\ steps = 0
  /\ executors = [p \in Program |-> None] /\ loaded = executors
  /\ slot = 0

-----------------------------------------------------------------------------
(* The runtime around the loader                                           *)

Begin(s) ==
  /\ ~InTransaction
  /\ signers' = s /\ steps' = 0
  /\ UNCHANGED <<ledger, acct, loaded>>

\* One more instruction of the transaction in flight.
Executing ==
  /\ InTransaction /\ steps < MaxInstructions
  /\ steps' = steps + 1
  /\ UNCHANGED <<ledger, signers>>

Commit ==
  /\ InTransaction /\ steps > 0
  /\ bank' = Purge(acct) /\ acct' = bank'
  /\ executors' = loaded
  /\ signers' = {} /\ steps' = 0
  /\ UNCHANGED <<loaded, slot>>

Abort ==
  /\ InTransaction
  /\ acct' = bank /\ loaded' = executors
  /\ signers' = {} /\ steps' = 0
  /\ UNCHANGED ledger

Tick ==
  /\ ~InTransaction /\ slot < MaxSlot
  /\ slot' = slot + 1
  /\ UNCHANGED <<bank, acct, signers, steps, executors, loaded>>

\* The bank may forget a cached executor.
Evict(p) ==
  /\ ~InTransaction
  /\ executors' = [executors EXCEPT ![p] = None] /\ loaded' = executors'
  /\ UNCHANGED <<bank, acct, signers, steps, slot>>

CreateAccount(from, to, lamports, space) ==
  /\ Executing
  /\ CanCreateAccount(acct, signers, from, to, lamports)
  /\ acct' = AfterCreateAccount(acct, from, to, lamports, space)
  /\ UNCHANGED loaded

Transfer(from, to, lamports) ==
  /\ Executing
  /\ CanTransfer(acct, signers, from, to, lamports)
  /\ acct' = AfterTransfer(acct, from, to, lamports)
  /\ UNCHANGED loaded

-----------------------------------------------------------------------------
(* The loader                                                              *)

\* InvokeContext::add_executor
AddExecutorOnce(cache, program, code) ==
  [cache EXCEPT ![program] = IF @ = None THEN code ELSE @]

AddExecutor(cache, program, code) == [cache EXCEPT ![program] = code]

InitializeBuffer(buffer, authority) ==
  /\ Executing
  /\ CanInitializeBuffer(acct, buffer)
  /\ acct' = AfterInitializeBuffer(acct, buffer, authority)
  /\ UNCHANGED loaded

Write(buffer, authority, offset, bytes) ==
  /\ Executing
  /\ CanWrite(acct, signers, buffer, authority, offset, bytes)
  /\ acct' = AfterWrite(acct, buffer, offset, bytes)
  /\ UNCHANGED loaded

DeployWithMaxDataLen(payer, programdata, program, buffer, authority, maxLen) ==
  /\ Executing
  /\ CanDeploy(acct, signers, payer, programdata, program, buffer, authority, maxLen)
  /\ acct' = AfterDeploy(acct, payer, programdata, program, buffer, authority,
                         maxLen, slot)
  /\ loaded' = AddExecutor(loaded, program, BufferContent(acct[buffer]))

Upgrade(programdata, program, buffer, spill, authority) ==
  /\ Executing
  /\ CanUpgrade(acct, signers, programdata, program, buffer, spill, authority)
  /\ acct' = AfterUpgrade(acct, programdata, buffer, spill, authority, slot)
  /\ loaded' = AddExecutor(loaded, program, BufferContent(acct[buffer]))

SetAuthority(account, present, new) ==
  /\ Executing
  /\ CanSetAuthority(acct, signers, account, present, new)
  /\ acct' = AfterSetAuthority(acct, account, new)
  /\ UNCHANGED loaded

Close(close, recipient, authority, program) ==
  /\ Executing
  /\ CanClose(acct, signers, close, recipient, authority, program)
  /\ acct' = AfterClose(acct, close, recipient)
  /\ UNCHANGED loaded

\* Calling the program: the cached executor, or one made from the programdata.
Invoke(program) ==
  LET code == ProgramDataContent(acct[acct[program].state.programdata])
  IN /\ Executing
     /\ CanInvoke(acct, program)
     /\ \/ loaded[program] # None /\ UNCHANGED loaded
        \/ loaded[program] = None /\ Loads(code) /\ loaded' = AddExecutor(loaded, program, code)
     /\ UNCHANGED acct

-----------------------------------------------------------------------------

Runtime ==
  \/ \E s \in SignerSets : Begin(s)
  \/ Commit
  \/ Abort
  \/ Tick
  \/ \E p \in Program : Evict(p)
  \/ \E from, to \in Address, n \in Deposit, space \in Spaces :
       CreateAccount(from, to, n, space)
  \/ \E from, to \in Address, n \in Gift : Transfer(from, to, n)

Loader ==
  \/ \E b \in Address, k \in Authority : InitializeBuffer(b, k)
  \/ \E b \in Address, k \in Authority, i \in Lengths, c \in Chunk :
       Write(b, k, i, c)
  \/ \E payer, d, b \in Address, p \in Program, k \in Authority, n \in Lengths :
       DeployWithMaxDataLen(payer, d, p, b, k, n)
  \/ \E d, b, spill \in Address, p \in Program, k \in Authority :
       Upgrade(d, p, b, spill, k)
  \/ \E a \in Address, k \in Authority, new \in Authority \cup {None} :
       SetAuthority(a, k, new)
  \/ \E a, r, p \in Address, k \in Authority : Close(a, r, k, p)
  \/ \E p \in Program : Invoke(p)

Next == Runtime \/ Loader

Spec == Init /\ [][Next]_vars
-----------------------------------------------------------------------------
(* Properties                                                              *)

TypeOK ==
  /\ bank \in [Address -> Account] /\ acct \in [Address -> Account]
  /\ signers \in SUBSET Key /\ steps \in 0..MaxInstructions
  /\ executors \in [Program -> Seq(Byte) \cup {None}]
  /\ loaded \in [Program -> Seq(Byte) \cup {None}]
  /\ slot \in Nat

\* Deploying, upgrading and closing move lamports between accounts by five
\* different rules (drain, fund, spill, refund, create): none makes or loses any.
Total(as) == SumFunction([a \in Address |-> as[a].lamports])
LamportsConserved == Total(acct) = Total(Supply) /\ Total(bank) = Total(Supply)

\* A program and its programdata point at each other: an executable account is a
\* Program linked to its derived address, and a programdata belongs to one.
Linked(as) ==
  /\ \A a \in Address : as[a].state.tag = "Program" <=> as[a].executable
  /\ \A a \in Address : as[a].executable => 
       a \in Program /\ as[a].state.programdata = Pda[a]
  /\ \A a \in Address : as[a].state.tag = "ProgramData" =>
       \E p \in Program : Pda[p] = a /\ as[p].executable
ProgramLinked == Linked(acct) /\ Linked(bank)

\* No Write, of any offset, reaches the serialised state in front of an
\* account's content.
Framed(account) ==
  account.state.tag # "Uninitialized" =>
    /\ Len(account.data) >= StateLen(account.state.tag)
    /\ \A i \in 1..StateLen(account.state.tag) : account.data[i] = Meta
HeaderIntact == \A a \in Address : Framed(bank[a])

\* The program bits a programdata account holds were verified: they are an image
\* that passed create_executor, and nothing but zeros after it.
Padded(code, content) ==
  /\ Len(code) <= Len(content)
  /\ \A i \in 1..Len(content) :
       content[i] = IF i <= Len(code) THEN code[i] ELSE Zero
Verified(account) ==
  account.state.tag = "ProgramData" =>
    \E code \in Image : Padded(code, ProgramDataContent(account))
InstalledIsVerified == \A a \in Address : Verified(bank[a])

\* A program that can be invoked never runs code other than the one its
\* programdata holds, whatever the executor cache kept from earlier deployments.
Coherent(as, cache) ==
  \A p \in Program :
    (CanInvoke(as, p) /\ cache[p] # None)
      => Padded(cache[p], ProgramDataContent(as[Pda[p]]))
CacheCoherent == Coherent(bank, executors)

\* What an authority protects: the state and content of the account it is
\* recorded in, and the lamports that keep the account alive.
Disturbed(old, new) ==
  \/ new.owner # old.owner \/ new.state # old.state \/ new.data # old.data
  \/ new.lamports < old.lamports

\* However the instructions of a transaction follow each other (hand the
\* authority over, write, upgrade, close, reinitialise), it disturbs a buffer or a
\* programdata only if the authority recorded when it began has signed it.  An
\* account without authority, a final program's, is never disturbed again.
AuthoritySigned ==
  \A a \in Address :
    (bank[a].state.tag \in {"Buffer", "ProgramData"} /\ Disturbed(bank[a], bank'[a]))
      => bank[a].state.authority \in signers
OnlyAuthorityChanges == [][AuthoritySigned]_vars

\* A program account is written once: no transaction changes or removes it, and
\* once its programdata is closed no transaction gives it a programdata again.
Keeps(as, new) ==
  \A p \in Program :
    as[p].executable =>
      /\ new[p] = as[p]
      /\ as[Pda[p]].state.tag # "ProgramData" => new[Pda[p]].state.tag # "ProgramData"
ProgramKept == Keeps(bank, bank')
ProgramPermanent == [][ProgramKept]_vars
\* The loader implements the registry: an account that became an executable
\* Program stands for a program of it, live while its programdata is one.
Entry(status, authority, code) ==
  [status |-> status, authority |-> authority, code |-> code]

AsProgram(as, p) ==
  CASE ~as[p].executable -> Entry("absent", None, None)
    [] as[p].executable /\ as[Pda[p]].state.tag = "ProgramData" ->
         Entry("live", as[Pda[p]].state.authority, ProgramDataContent(as[Pda[p]]))
    [] OTHER -> Entry("closed", None, None)

InstalledCode ==
  {c \in UNION {[1..n -> Byte] : n \in 1..MaxDataLen} : \E code \in Image : Padded(code, c)}

Registry == INSTANCE ProgramRegistry WITH
  Code    <- InstalledCode,
  saved   <- [p \in Program |-> AsProgram(bank, p)],
  prog    <- [p \in Program |-> AsProgram(acct, p)],
  signers <- signers

\* Every step of the loader, the runtime around it included, is a step of the
\* registry or leaves it as it is: one deployment, upgrades and hand-overs signed
\* by the authority, verified code only, no change after finality or closing.
ImplementsRegistry == Registry!Spec
-----------------------------------------------------------------------------
(* The inductive invariant OnlyAuthorityChanges rests on                   *)

\* Only the loader's accounts carry data, and with it a state.
SystemEmpty(as) ==
  \A a \in Address : as[a].owner = "system" =>
    as[a].state = Uninitialized /\ as[a].data = << >>

\* Between transactions an address without lamports has no account at all.
Funded == \A a \in Address : bank[a].lamports = 0 => bank[a] = NoAccount

\* Between transactions there is nothing in flight.
Settled == ~InTransaction => acct = bank /\ loaded = executors

\* What the transaction in flight disturbed so far it had the signature for.
Signed ==
  \A a \in Address :
    (bank[a].state.tag \in {"Buffer", "ProgramData"} /\ Disturbed(bank[a], acct[a]))
      => bank[a].state.authority \in signers

AuthorityInv ==
  TypeOK /\ SystemEmpty(acct) /\ SystemEmpty(bank) /\ Funded /\ Settled /\ Signed
-----------------------------------------------------------------------------
(* The inductive invariant of the other safety properties and the registry  *)

\* What holds of every account on its own: only a Program is executable, and it
\* keeps the rent it was deployed with; a programdata is funded, no larger than an
\* account may be and holds verified code; the serialised state is in one piece.
Sound(account) ==
  /\ account.state.tag = "Program" <=> account.executable
  /\ account.executable => account.owner = "loader" /\ account.lamports > 0
  /\ account.state.tag = "ProgramData" =>
       account.lamports > 0 /\ Len(account.data) <= MaxDataLen
  /\ Verified(account) /\ Framed(account)

\* The accounts and the cache of the transaction in flight keep what those of the
\* ledger keep, and it leaves alone what no commit may change.
ProgramInv ==
  /\ TypeOK /\ SystemEmpty(acct) /\ SystemEmpty(bank) /\ Settled
  /\ \A a \in Address : Sound(acct[a]) /\ Sound(bank[a])
  /\ ProgramLinked /\ Keeps(bank, acct)
  /\ Coherent(acct, loaded) /\ CacheCoherent
=============================================================================
