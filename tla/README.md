# Verification of solana-sdk-sample

TLA+ modules of the programs and scripts of this repository, TLC runs over
small instances of them, and theorems checked by TLAPS.  Paths are relative to
the repository's root.

## 1. The system

| part | source | state it keeps | operations |
|---|---|---|---|
| upgradeable loader | `scripts/ref/bpf_loader/src/lib.rs` 72-136, 199-838 | none of its own: accounts (lamports, owner, executable, serialised state, data) and the executor cache | InitializeBuffer, Write, DeployWithMaxDataLen, Upgrade, SetAuthority, Close, invocation of a program |
| loader v1 | the same, 840-889 | accounts, the executor cache | Write, Finalize |
| program execution | the same, 891-1040 | a frame per program in execution, the transaction's compute meter | execute, call, return, fail |
| account layout, instruction builders | `scripts/ref/bpf_loader_upgradable.rs`, `loader_upgradable_instruction.rs` | none | sizes, lists of flagged accounts |
| simple_token | `programs/simple-token/src/lib.rs` | a `u64` per token account | initialize, mint, burn, transfer |
| Fireblocks adapter | `scripts/fireblocks/lib/FireblocksConnectionAdapter.ts`, `helpers.ts` | the vault's key, one call's progress | create, sendTransaction |
| deployment script | `scripts/deployment/deploy.ts` | chunk counter, retries, the hash it waits for | one run of deployProgram |
| token scripts | `scripts/fireblocks/initialize.ts`, `mint.ts`; `scripts/initialize.ts`, `mint.ts` | `targetAccount.json` | a run of each |
| stake script | `scripts/stake.ts` | what it read before it submits | create, deactivate, withdraw |
| freeze tools | `scripts/utils/thaw-transfer-freeze.ts`, `check-freeze-state.ts` | none | one transaction; two readers |
| the rest | `scripts/utils/estimate-gas.ts`, `updateUri.ts`, `scripts/*.ts`, `deploy_old.ts`, `migrations`, `tests` | none | print, or one request |

How they meet.  Every script submits its transactions through the adapter,
which signs for the local keys, hands the transaction to Fireblocks and polls
until Fireblocks starts to broadcast it.  The adapter's `confirmTransaction`
always answers success, so to a script "sent and confirmed" means "broadcast":
the transaction is executed later, after others, or never, and may fail.
`deploy.ts` drives the upgradeable loader that way, the token scripts
simple_token, `thaw-transfer-freeze.ts` Token-2022, and `stake.ts` the stake
program.  Runs of the token scripts also share a file.

What is hard:

- the loader is a protocol: accounts go through buffer, program, programdata
  and closed, in any order callers choose, several instructions to a transaction,
  with accounts that alias each other, and what holds after a sequence is nowhere
  written down (authority, lamports, executor cache, permanence);
- submission is unreliable: a request that threw may still be broadcast, one
  that returned may still fail, and several are in flight at a time;
- scripts read a state, decide, and submit something that takes effect later,
  beside other runs of themselves and beside epochs that pass;
- sizes: the metadata in front of a buffer, the chunks of a file, a `u64`;
- a program works on a copy of its accounts, calls programs that work on copies of
  theirs, and pays from one compute meter whose errors the machine ignores.

What makes each part correct: see the properties of section 3; the hazards and
the property that watches each of them are listed in `PROJECT.json`.

## 2. The modules

```
 ProgramBits                 what both loaders do to a program's bytes
   |-- LoaderInstructions    CanX/AfterX of each loader instruction (no state)
   |     |-- UpgradeableLoader     transactions, ledger, cache ---> ProgramRegistry
   |     |-- LoaderClient          instruction builders against the loader
   |     |     |-- LoaderWire      encoding of instructions, predicates on it
   |     |     `-- LoaderTests     the loader's tests, replayed
   |     `-- Deploy                deploy.ts against the loader
   |           `-- Requests        transactions in flight, as Submission promises
   `-- LoaderV1              Write and Finalize (no state)
 SimpleToken                 the Anchor program
   |-- Execution             programs in execution (with LoaderV1)
   `-- TokenScripts          initialize.ts, mint.ts, the file (with Requests)
         `-- FreezeTransfer  the transaction of thaw-transfer-freeze.ts
 FireblocksAdapter           create, sendTransaction, Fireblocks ---> Submission
 DeploySizes                 deploy.ts in bytes
 Stake                       stake.ts, the stake program's epochs (with Requests)
```

(`--->`: implements; the abstract specification is a PROPERTY of a run.)

**LoaderInstructions.**  `CanX` is the conjunction of every check instruction X
makes before it returns Ok, in the loader or in the runtime around it
(`Changeable`: who may write or debit an account); `AfterX` is the map of
accounts it leaves.  Data is counted in cells instead of bytes: the serialised
state covers the first cells (value `Meta`), so a write that reached it would
show; the sizes of the metadata are constants, of which only the order matters.
`Loads` (of **ProgramBits**, which both loaders share) stands for
`create_executor`: contents in `Image` load, verify and compile.  Accounts in two roles of one instruction are allowed wherever the
code allows them; where it borrows an account twice the instruction fails, and
`CanX` says so.  `Predrain` is the feature flag of line 442.

**UpgradeableLoader.**  `bank`/`executors` are committed, `acct`/`loaded` are
what the transaction in flight sees.  Begin, instructions, then Commit (drops
accounts without lamports) or Abort.  Callers pass any accounts, any authority
and any argument.  `Evict` lets the bank forget an executor; `Transfer` lets
anyone send lamports, to a closed programdata for instance.

**ProgramRegistry** is what the loader promises about a program when accounts,
sizes, lamports and executors are forgotten: absent, live with an authority and
verified code, closed for ever.

**LoaderClient.**  Each builder returns its instruction with the account list it
makes (`New`, `NewReadonly`, signer or not); the loader finds accounts by
position in it (`At`), and the transaction is signed by exactly the flagged
accounts, none of which can be a derived address.  This is where a position or
a flag of one file can disagree with the other.  All builders are there, those
of SetAuthorityChecked and ExtendProgram too, which this loader answers with
InvalidInstructionData.  **LoaderWire** has what an instruction looks like on the
wire: the index its encoding starts with, the predicates that read that one
byte, and the encoding `deploy.ts` writes by hand.  `ScriptAgrees` compares what the
two encodings do on the accounts the instruction before them leaves: InitializeBuffer
on a buffer that was just created, DeployWithMaxDataLen beside a program account that
was, since on an account with a state both would be refused, whatever they say.

**LoaderTests** replays, step by step, the tests of `lib.rs` for the upgradeable
loader on the instructions of LoaderClient: `AgreesWithTests` is an ASSUME, which
TLC evaluates before *loader_client* starts.  A refusal is a refusal: which error
code it has is left out, and so are the tests of loader v1, `invoke_main`, and the
fuzz and size tests.

**LoaderV1** writes a program in place, under the signature of the account's own
key, until Finalize makes it executable.

**Execution** is the executable branch of `process_instruction_common` and
`BpfExecutor::execute`.  A frame is a program in execution, with its copy of the
accounts; `Return` writes the copy back (`held`), `Fail` ends the program, its
callers and the transaction.  `Call` executes a program in the middle of another
one, which goes on with the accounts as they then are.  Every step of the machine
takes a unit of `remaining`; `spent` remembers what was charged, heaps and calls
included, whether or not the meter could pay it.  The programs are simple_token,
whose accounts are the actual amounts of SimpleToken, and programs of the loader
v1, written and finalized by transactions beside the calls.  Executors are cached
by `Finalize` and `Invoke`, rolled back by `Abort`, forgotten by `Evict`.

**SimpleToken.**  Anchor deserialises a copy of each account an instruction
names and writes the copies back in the order of declaration: with `from` and
`to` the same account the second copy wins.  Overflow aborts, as the release
profile of `Cargo.toml` asks for.

**FireblocksAdapter.**  One adapter and one call of `sendTransaction` (`Call`:
Connect, Prepare, Sign, Create, FirstPoll, Check, Poll) beside Fireblocks
(`Advance`, `End`), whose status moves between any two polls; any request may
fail, and the request that creates the transaction may be made and its answer
lost.  Queue, approval and signing statuses are one, PENDING; a hash may be
known before BROADCASTING.  **Submission** is what a caller may rely on.

**Requests** turns that promise into an environment for the scripts: `Sent`
(broadcast), `Threw` (held, broadcast or dead), `Decide` (a held one is
broadcast or dropped), `Executed` (later, any order, success or failure).
That it is what the adapter does is the theorem `ReturnsOnlyBroadcast`.

**Deploy.**  Runs of `deployProgram`, a step per request or wait: create the
program account, create and initialise the buffer, wait, write each chunk and
wait, retry what failed without waiting, finalize.  `Landed` is
`getTransaction(...)` not null, true of a transaction that failed on chain, too.
The keys come from files, so `Rerun`, with the program built anew, meets the
accounts and the transactions in flight the last run left.  The script asks only
for the transaction it sent last (`Awaited`); the others are forgotten when they end.
A poll that fails (`PollFails`) leaves the wait of a chunk for the retry loop.

`deploy.ts` creates program and buffer in transactions of their own (lines 160 and 204)
and uses them in later ones.  What `loader_upgradable_instruction.rs` warns of can happen
in between: InitializeBuffer asks for no signature, Close of an account without state for
none of its owner, DeployWithMaxDataLen for none of the program.  `OtherParty` does these,
and hands over or closes what it took, at any time; `taken` remembers what it
initialised or deployed.  It acts in the histories of `Contested`.  What it does elsewhere is left out: its purse, the buffer its program comes
from, the contents it writes to a buffer of its own.  Of the
authorities it can give an account there are its own and, by SetAuthority, the payer's; of the programdata
it can make, the shortest, with its own authority.
**DeploySizes** has the same loop in the script's real bytes.

**TokenScripts.**  A run of `initialize.ts` saves its key and initialises the
account twice; a run of `mint.ts` reads the file and mints.  The chain executes
the actions of SimpleToken.  A run of `thaw-transfer-freeze.ts` submits one
transaction over accounts of Token-2022 (**FreezeTransfer**: thaw, transfer,
freeze, as a whole or not at all).

**Stake.**  Runs of create, deactivate and withdraw.  The stake program is
external: delegation warms up and cools down in one epoch (`Activation`,
`Locked`), a withdrawal leaves the reserve or takes all.

## 3. What the runs check

| run | instance | what it shows |
|---|---|---|
| loader_steps | 4 accounts, 2 authorities, one instruction per transaction, 2 slots | `LamportsConserved`, `HeaderIntact`, `InstalledIsVerified`, `CacheCoherent` |
| loader_transactions | the same, two instructions per transaction, plain transfers | `OnlyAuthorityChanges`, `ProgramPermanent`, `ProgramLinked`, `ImplementsRegistry` |
| loader_client | wallet that is also an authority, one more key, 2 buffer lengths, 2 allocations | `AsksEnough`, `AsksNoMore`, `PredicatesTell`, `ScriptAgrees`, `BufferHoldsProgram`; the tests of the loader |
| simple_token | 3 accounts, amounts 0..2, one program of loader v1, a budget of 5 units, transactions of 2 instructions, 2 programs deep | `SupplyAccounted`, `CachedIsFinal`, `PaidInFull`, `WrittenByItsKey`, `Stops` |
| adapter | vault, 2 signers, 3 retries | `NoFalseFailure`, `Settles`, `ImplementsSubmission` |
| adapter_signers | fee payer before a signer | violation of `EverySignerSigns` |
| deploy | 2 runs, files of 1 and 2 chunks, or 1 run and too small a buffer, 1 retry; another party beside some of them | `BufferIntact`, `HoleOnlyByRetry`, `MixedOnlyByLate`, `Recoverable`, `ScriptEnds` |
| deploy_completed | the same | violation of `CompletedSuccessfully` |
| deploy_sizes | lengths around every boundary | `Contiguous`, `LostOnlyAtTheEnd`, `LostIffShort` |
| deploy_sizes_comment | the same | violation of `FileFits` |
| token_scripts | 2 runs of initialize and 1 of mint, or 3 of thaw-transfer-freeze | `AmountsAreMints`, `KeptFrozen` |
| stake | 3 runs of any command, 3 epochs, one transfer | `FailsOnlyByRace` |

Every passing run checks a type invariant as well.

*Bounds, and why they are enough.*  The loader runs have one program with its
programdata, one buffer and one wallet: enough for every alias of two roles, for
close and re-creation, and for an authority that changes hands (two keys); data
of up to four cells holds metadata, a cell of code and a cell that a shorter
upgrade must clear.  One instruction per
transaction, with two slots and the buffer drained first (`Predrain`), and two
instructions per transaction, with transfers and the buffer drained last, are
separate runs because together they are too many.  The second is capped by
`FewLamports`: every account costs three lamports at most, and one but the wallet
that holds more only repeats what spills, refunds and gifts do.  `loader_client` has no
clock and no gifts; it has an empty buffer and one
that holds a program, an allocation that just suffices and the largest there may be, and
writes of one cell to the first, the last, and the one behind the buffer.

In `deploy` a file of two chunks, of which the first alone loads, makes a hole possible.  A second run follows with a shorter file in a
buffer of the same size (the old tail stays), or with one that does not fit the
buffer the first run made; or there is one run, with a file that does not fit its own
buffer.  `MaxLate` transactions of the first may still be in flight,
two in these histories, enough for a late write or finalize beside a late creation.  One retry makes the
retry loop fail and succeed.  The histories of `Contested`, with another party, are smaller:
one run with a file of two chunks, that fits the buffer or does not, and two runs of one chunk, the
second begun when nothing of the first is in flight.  They let it come before, between and after each
transaction of a run, and let a run meet what was taken from the last one.  The run has
858522 distinct states, the most of all; the theorems have no such bounds.
`deploy_sizes` needs no more than the ends of kilobytes and chunks, since both
formulas are periodic, and the theorems cover every length.  The u64 of
`simple_token` ends at 2 (`MaxAmount`), so every sum overflows early; the history
of what was minted, burned and doubled is capped by `MaxHistory`.  Two
instructions let a transaction finalize a program and run it; five units pay for a
call with its heap and return, or run out in the caller, in the callee or on
entry.  `MaxDepth` is the runtime's limit of calls in calls.
In `token_scripts` the runs are those of one half of the scripts at a time
(`Together`), since the two halves share nothing.  In `stake` three runs allow
create, deactivate and withdraw of one account, or two withdrawals that race; an amount that `parseFloat` cannot
read counts as 0, negative amounts to withdraw are not enumerated.

*Deadlock* is not checked where the system stops by itself (a script that ended
with nothing in flight, a wallet without lamports).

*Fairness.*  `Settles` assumes that the call runs on (`WF(Call)`: JavaScript
timers fire) and that Fireblocks moves every request on until it ends
(`WF(Advance)`), and that it ends it with a status `waitForSignature` names
(`UnlistedEnds = {}`): a final status it does not name is polled for ever.
`ScriptEnds` assumes that every run of the script goes on and that what was broadcast is
executed in the end, successfully or not; a transaction that expires is never
found by `getTransaction`, and the wait loops have no timeout.  It does not assume that
any call fails: `PollFails`, `Fail` and `OtherParty` may happen, and are not in `WF(Script)`,
so each loop is left because the transaction it waits for landed.  `Stops` assumes
that the machine runs on (`WF(Machine)`): the program decides how, and may loop or
call for ever; the meter stops it.

### Disagreements between the code and its words

- `FireblocksConnectionAdapter.ts:273` says the fee payer is skipped; the loop
  ends there (`break`), and the signers behind it do not sign
  (*adapter_signers*).
- `deploy.ts:204` counts 33 bytes of metadata; the loader keeps 37
  (`bpf_loader_upgradable.rs:64`).  The file does not fit exactly when
  `(length + 33) % 1024` is 0, 1021, 1022 or 1023 (*deploy_sizes_comment*,
  theorem `BufferShortExactly`).
- `deploy.ts:565` reports a completed deployment when the finalize transaction
  is only broadcast (*deploy_completed*).

Seen while modelling, with no run of their own: `deploy.ts:479` says the entire
program is written while a resent chunk may be in flight (`HoleOnlyByRetry` says
what follows; after another run, a refused write that counts as confirmed leaves a
hole, too); the second initialisation of `fireblocks/initialize.ts` can only
fail if the first took effect, though line 99 reports it (`AmountsAreMints`
says it does no harm); `stake.ts:113` reads the new account before it need
exist, and reports the error as the transaction's; `stake.ts:248` takes an
amount of 0 for the whole balance; `loader_upgradable_instruction.rs` calls the
authority of InitializeBuffer, and the new authority of a buffer's
SetAuthority, optional, while the loader refuses both.  `validateConfig` of the
adapter is never called.  The client builds SetAuthorityChecked and ExtendProgram,
which this loader does not know; the comment on SetAuthority says a buffer can be
made immutable by leaving out the new authority, which the loader refuses.
`close_any` pushes its optional accounts one behind the other: with a program and no
authority, the program stands where the loader reads the authority.
`lib.rs:991` shadows `program_id`, so a failing program is logged by another name
than its invocation.  `thaw-transfer-freeze.ts` prints success for a transaction that is
only broadcast, and of which Token-2022 may refuse any part.
`loader_upgradable_instruction.rs:15-18` says that InitializeBuffer must be in the transaction
that creates the account, or another party may initialise it, and the comment on
DeployWithMaxDataLen says the same of the program account.  `deploy.ts` creates them
at lines 188 and 224 and uses them at 269 and 549, in other transactions.  What follows is in `Recoverable`:
without the exception of `Lost`, *deploy* finds the buffer initialised by another party, whose lamports the
payer cannot get back, and a programdata of a deployment that was not the script's.

## 4. What is proved

For every value of the constants that satisfies the named assumptions:

| module | theorem | says |
|---|---|---|
| UpgradeableLoader_proofs | `TypeCorrect` | `Spec => []TypeOK` |
| | `AuthorityProtects` | `Spec => OnlyAuthorityChanges` |
| | `NoLamportLost` | `Spec => []LamportsConserved` |
| | `ProgramsLinked` | `Spec => []ProgramLinked` |
| | `HeadersIntact` | `Spec => []HeaderIntact` |
| | `OnlyVerifiedCode` | `Spec => []InstalledIsVerified` |
| | `CacheTrue` | `Spec => []CacheCoherent` |
| | `ProgramsPermanent` | `Spec => ProgramPermanent` |
| | `LoaderImplementsRegistry` | `Spec => ImplementsRegistry`, the refinement |
| Execution_proofs | `AmountsInRange` | `Spec => []TypeOK` of SimpleToken |
| | `TransferMoves` | what a transfer between two accounts does to each amount |
| | `BudgetHolds` | `ExecSpec => []PaidInFull` |
| | `ExecutorsFinal` | `ExecSpec => []CachedIsFinal` |
| | `ProgramsWrittenByKey` | `ExecSpec => WrittenByItsKey` |
| | `AmountsInRangeThroughout` | `ExecSpec => []TypeOK` |
| | `SupplyAccountedThroughout` | `ExecSpec => []SupplyAccounted` |
| Client_proofs | `ClientTypeCorrect` | `ClientSpec => []ClientTypeOK` |
| | `BuffersHoldPrograms` | `ClientSpec => []BufferHoldsProgram` |
| | `AsksForEnough` | `ClientSpec => []AsksEnough`, where no program is an authority |
| | `NoSignatureTooMany` | `ClientSpec => []AsksNoMore` |
| | `PredicatesRight` | `ClientSpec => []PredicatesTell` |
| | `HandWritten` | `ClientSpec => []ScriptAgrees` |
| | `ReturnsOnlyBroadcast` | `Spec => ImplementsSubmission`, the refinement |
| | `AdapterTypeCorrect` | `Spec => []TypeOK` |
| | `FailuresAreReal` | `Spec => []NoFalseFailure` |
| | `BufferShortExactly` | the lengths the allocation is short for |
| | `ChunksCover`, `LostExactly`, `LostAtTheEnd` | `SizesSpec => []Contiguous`, `[]LostIffShort`, `[]LostOnlyAtTheEnd` |
| Deploy_proofs | `DeployTypeCorrect` | `Spec => []TypeOK` |
| | `BufferKeepsFiles` | `Spec => []BufferIntact` |
| | `HolesExplained` | `Spec => []HoleOnlyByRetry` |
| | `MixturesExplained` | `Spec => []MixedOnlyByLate` |
| | `NothingLost` | `Spec => []Recoverable` |
| Stake_proofs | `StakeTypeCorrect` | `Spec => []TypeOK` |
| | `StateNeverStale` | `Spec => FailsOnlyByRace` |
| TokenScripts_proofs | `ScriptsTypeCorrect` | `Spec => []TypeOK` |
| | `MintsAddUp` | `Spec => []AmountsAreMints` |
| | `FrozenKept` | `Spec => []KeptFrozen` |

**Sums_proofs** has lemmas about the sum of a function over a finite set
(`SumFunction` of the community modules), which adds the elements in an order
nothing is known of.  `SumsExist` shows that its recursion defines a function, `RemoveOne`
that any element can be the last one added; from it come `SumPoint`, `SumNew` and
`SumSplit`: what a sum becomes when one value changes, when the function has
one more value, and how it splits in two.  Induction is over a set of numbers or a set of sets
(`Least`, `SubsetInduction`), so that no operator is a parameter.

**LoaderInstructions_proofs** has the lemmas about
the instructions, for any map of accounts, that the loader and `deploy.ts` share.
Lemmas give the type of every operator of LoaderInstructions (`SetStateType`,
`OverwriteType`, ...), the effect of each instruction (`DeployEffect`,
`UpgradeEffect`, ...: which accounts it touches, when roles alias, too), and what
the cells of the data are afterwards (`SetStateCells`, `ContentCells`,
`DeployedCells`: behind the state the installed code, then zeros).

*TypeCorrect.*  From the effects: balances stay natural numbers because the
checks bound what is debited, also when roles alias.

*AuthorityProtects.*  `OnlyAuthorityChanges` speaks of a whole transaction, so
it is not inductive: what a transaction did so far has to be remembered.
`AuthorityInv` is TypeOK; `SystemEmpty` (only the loader's accounts carry a
state); `Funded` (a committed account without lamports is none, so Commit's
purge disturbs nothing that was not disturbed); `Settled` (between
transactions nothing is in flight); and `Signed`: whatever the transaction in
flight disturbed so far, the authority recorded *in the bank* has signed.  The
core is `DisturbedSince`: an account undisturbed so far still has the bank's
authority, so the check of the next instruction is the check of that authority;
one disturbed before is covered by `Signed`.

*NoLamportLost.*  Each instruction leaves all accounts but two or three, and these
hold together what they held (`TwoMove`, `ThreeMove`); an account in two roles
has a case of its own.  A deployment creates, funds and drains, an upgrade refunds what
the rent does not need, a close moves all.  The purge of a commit drops accounts
that hold nothing.

*ProgramsLinked, HeadersIntact, OnlyVerifiedCode, CacheTrue, ProgramsPermanent.*
One invariant, `ProgramInv` (at the end of UpgradeableLoader, so that TLC can
check it), says them of both ledgers, the bank's and that of the transaction in
flight, and of both caches.  What it adds is `Sound`, which is true of each account on its own
(only a Program is executable, and it keeps the rent it was deployed with, so no
purge removes it; a programdata is funded and not larger than an account may be),
and `Keeps(bank, acct)`: what the transaction did so far already leaves alone what
no commit may change.  Commit then has nothing to show, and Abort goes back to
the bank.  Every instruction is one of six kinds of change
(`Deploys`, `Upgrades`, `HandsOver`, `Closes`, or quiet at every program; and
Invoke, which changes only the cache), and the invariant is shown for the kinds.

*LoaderImplementsRegistry.*  The mapping reads what a program account stands for
(`AsProgram`) in both ledgers.  The kinds of change are the actions of
ProgramRegistry, a quiet instruction is a stutter; that the signature the
registry asks for was there comes from the checks of the kind, that the code is
verified from `Sound`, that Begin, Commit and Abort map to theirs from `Settled`.

*The theorems of LoaderClient.*  First the fold over a transaction is unfolded for one and
two instructions (`RunOne`, `RunTwo`: an instruction succeeds if its checks pass and it
changed nothing that is not locked).  Then each builder gets one lemma that says what its
list of accounts comes to, for any accounts, signatures and locks: `Fills` for `write`,
`Installs` for a deployment, `Replaces`, `Hands`, `Empties`, `Makes`; the checks of the
instruction over the right accounts, its effect, who signs, what is locked.  `Kinds`
sorts everything the client builds into these, and the instructions this loader
refuses.  `HandWritten` compares what the script's and the library's lists come to.  The
others rest on `ClientInv`: between transactions nothing is left of an account without
state, every recorded authority is one of the client's, and a buffer has the length it
was created for behind its metadata.  It is needed because an uninitialized
allocation can be closed by anyone, with any signature or none: the client leaves none
behind, since it allocates and initialises in one transaction.
`AsksForEnough` and `NoSignatureTooMany` then follow from where each check looks for
its signature (`WriteSigned`, `CloseSigned`, ...) and which accounts an instruction
changes (`WriteLocks`, `CloseLocks`, ...); `PredicatesRight` from what each effect does to
states and contents.  `AsksForEnough` supposes that no program's address is an authority:
otherwise `close_any` without an authority, whose program takes the authority's
position unsigned, would lack a signature.

*ReturnsOnlyBroadcast.*  `BroadcastInv` ties what the call last saw to the
history variable `broadcast`; each step is then a step of Submission or a
stutter.  *FailuresAreReal*: `RetryInv` adds that a call that has not thrown
counted each failed poll once, and saw nothing before its first.

*BudgetHolds.*  The error of a charge the meter cannot pay is ignored, so that the
meter was paid is not inductive: `MeterInv` says that `spent` and `remaining`
make up the budget, or else nothing remains and a program is still in execution
or the transaction failed, and with nothing left no program gets to return.

*ExecutorsFinal, ProgramsWrittenByKey.*  `LoaderInv` relates the accounts of the
transaction in flight to the bank's: one that differs was not executable in the
bank and its key has signed.  An executor is cached one assignment before its
account is executable, within one instruction; the invariant holds of both
ledgers, so Commit, Abort and Evict keep it.

*AmountsInRangeThroughout.*  `AmountsInv` says of every copy of the amounts (the
program's, the transaction's, the bank's) what `AmountsInRange` says of one, and
cites its lemmas for the calls of simple_token.

*SupplyAccountedThroughout.*  The sum over the accounts follows `minted`,
`burned` and `doubled` in every call of simple_token (`NextAccounted`; a transfer
to itself adds its amount, because the second copy of the account is written back last).
Around the calls, `SupplyInv` says it of the transaction's amounts and of the bank's, and
that a program other than simple_token has the accounts as the transaction has them:
only a failure, after which nothing executes, or simple_token at work
leaves a copy that differs.

*The theorems of Deploy.*  `DeployInv`, checked by TLC before it was proved, has
three layers.  Always:
`Loop`, `Histories`, `Flight` and `Waiting` say where the script is, which
transactions can be in flight, and that what it waits for is the last of them;
`Holdings` says what each of the four accounts can be, whatever landed and whoever it is from:
without state, a buffer, or finalized, and under the payer's authority if it is not among the
`taken`; `NothingLost` follows from it.  While the buffer is not taken, `BufferShape`: absent, all
zeros, or a buffer of the payer's with cells of the files.  While nothing is taken,
`ProgramShape` (the program not deployed, or deployed once with its programdata), `Progress`,
`Refusal` and `InstalledInv`.  A step of another party leaves the last two layers
alone, if it only closes what has no state, or takes away what they suppose.
`Progress` is the heart: before the deployment, every chunk the script went on
from is in the buffer or among the resent and the refused, and so is every chunk of a run
whose finalize is in flight.  Cells may be overwritten later, but only by
cells of the same file, or of another run's if one was late.
`InitOnce` and `Refusal` are about a first run: its buffer is initialised before
the first write or never, so a chunk that fits and was refused has met an account that
never becomes a buffer, and there will be no deployment.  `InstalledInv` is what a deployment
makes of `Progress`; nothing changes a programdata after it.

*StateNeverStale.*  `RaceInv`: each run sends at most one create, for its own
key (`CreatesOnce`), so that an account that exists was there from the start or
made once, and is never made anew (`ExistingMade`); no deactivation is of an epoch
to come (`PastOnly`); and, the core, `CheckedSettled`: a stake that a run of withdraw
checked and has yet to withdraw from is inactive and without locked lamports, if it is
still there, and stays so in every later epoch.

*ChunksCover, LostExactly, LostAtTheEnd.*  `LoopInv` says what the loop has
covered and lost after i chunks; the rest is arithmetic, as in
`BufferShortExactly`.

*ScriptsTypeCorrect, MintsAddUp, FrozenKept.*  `ScriptInv`, checked by TLC before it was
proved, has three parts.  `Shape` says what the file, the runs and the requests in
flight can hold: the accounts the scripts generated, and the transactions they build.
`Circulation` adds to `AmountsAreMints` that a mint that took effect found its account
initialised: an account that is made now has had none, and one that is there is not
made again.  `Custody`: every account of Token-2022 is as frozen as at first, not
only those that were, and the balances make up the supply.  The core is a
transaction of thaw-transfer-freeze (`Transfer...` lemmas): its three instructions are
unfolded from the fold, the accounts may be one and the same, and either all took effect
or the accounts are as they were; the sum follows with `SumPoint`.

### Assumptions

The proofs use the ASSUMEs of the modules, each of which TLC evaluates in a
run.  `LedgerAssumption` says that there are finitely many addresses (an address is 32
bytes), without which the lamports have no sum.  Others say what a code path takes for granted: in Deploy, that program, buffer,
payer and programdata are four accounts (three key pairs and a derived address),
that a file is deployed in each run, and that chunks, sizes and retries are positive
(they are literals in `deploy.ts`); in Stake, that there is an epoch; in TokenScripts, that amounts are u64 values and
that there are finitely many accounts of Token-2022, without which the supply has no sum; in
LoaderInstructions, that a programdata address is derived from one program and is no
program itself, that a state covers at least a cell, in the order of the sizes of
`bpf_loader_upgradable.rs`, and that rent is not free; in LoaderClient, that the accounts of
the ledger start without data, and that the sysvars and the system program are no accounts a
client passes.

### What the proofs changed

Two properties were checked by TLC and did not hold in general; a step that
could not be proved led to the counterexample in both cases.  `FailsOnlyByRace`
lacked a case that needs four runs: a withdrawal that read the balance of an account not
made yet, and its activation after it was made, finds it withdrawn by another.
`HoleOnlyByRetry` lacked a case that needs a file that does not fit its own
buffer (`deploy.ts:204`): in a first run the last chunk is refused, counts as
confirmed, and the deployment goes through without it if what is there loads.
The run *deploy* now has that history.

### Only model-checked

- Liveness under fairness is out of the prover's reach: `Settles`, `ScriptEnds`,
  `Stops`.
- So are the library's induction theorems, which take an operator as a parameter.
  Sums_proofs does without them.
- The replay of the loader's tests (`AgreesWithTests`) is evaluated by TLC.

## 5. Abstractions, and what is not modelled

- Transaction fees and rent collection are left out.  Compute limits are modelled in
  Execution only, and who is signer or writable in LoaderClient only; elsewhere an
  account's key signs or does not.
- The virtual machine is external: a program is what it makes of its copy of the
  accounts, one unit of the meter at a time.  So are the syscalls (one, that of a
  call between programs), the serialisation of parameters and the ELF loader and
  verifier (`Loads`).
- Token-2022 is external: it thaws, moves and freezes as FreezeTransfer says.
- CreateAccount at an address that holds lamports fails, as in the system
  program; `Deposit` of Stake sends only to stake accounts there are.
- Signing, serialisation and durable nonces of Fireblocks are one request.
- `check-freeze-state.ts` and `stake.ts info` only read and print.  The scripts that
  use AnchorProvider submit the same instructions through a local wallet.  The
  factory of the adapter, its note, fee level and external id are configuration.
  The one-shot tools, `deploy_old.ts` and the stubs: see the notes in `PROJECT.json`.

## 6. Plan

Done, in this order: LoaderInstructions and UpgradeableLoader with
ProgramRegistry, the proofs about them, SimpleToken, FireblocksAdapter with
Submission, Deploy and DeploySizes, TokenScripts, Stake, LoaderClient; then LoaderV1
and Execution with their proofs, all builders and LoaderWire, LoaderTests,
FreezeTransfer, repeated runs in Deploy; then the proofs of the loader's
programs and its refinement, of Stake, of Deploy, of the sums of lamports and
tokens, of the token scripts, and of the client of the loader.  Next: two
programs in the loader runs, whose buffers and programdata may be mixed up (the
theorems already cover them).
