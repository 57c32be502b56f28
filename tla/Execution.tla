------------------------------ MODULE Execution ------------------------------
(***************************************************************************)
(* Programs being executed: the executable branch of                       *)
(* process_instruction_common, and BpfExecutor::execute.  A program gets a *)
(* copy of its accounts (its parameters) and a share of the transaction's  *)
(* compute meter, and what it made of the copy is written back only if it  *)
(* returns SUCCESS.  It may call a program, which is executed the same way *)
(* in the middle of it.  Here the programs are simple_token, whose amounts *)
(* are the accounts, and programs of the loader v1, which are written and  *)
(* finalized beside it and call it.                                        *)
(***************************************************************************)
EXTENDS SimpleToken, LoaderV1

CONSTANTS
  None,
  Token,            \* the program id of simple_token
  SignerSets,       \* who may sign a transaction
  Chunk, Offsets,   \* arguments of the loader's Write
  Space,            \* size of a draft
  Budget,           \* compute units of a transaction
  Heaps,            \* heap sizes a transaction may ask for, in units of 32 KiB
  heap_cost,        \* compute units of 32 KiB of heap
  MaxDepth,         \* programs that may be in execution at once
  MaxInstructions,  \* bound on the instructions of a transaction
  MaxHistory        \* bound on what is minted, burned and doubled

\* A program in execution.
Frame == [id : Draft \cup {Token}, handled : BOOLEAN, pc : 0..1]

ASSUME ExecutionAssumption ==
  /\ Token \notin Draft /\ None \notin Frame
  /\ \A s \in SignerSets : s # {}
  /\ Zero \in Byte /\ Image \subseteq Seq(Byte) /\ Chunk \subseteq Seq(Byte)
  /\ Offsets \cup Heaps \subseteq Nat
  /\ {Space, Budget, heap_cost, MaxDepth, MaxInstructions, MaxHistory} \subseteq Nat

VARIABLES
  bank,       \* what is committed
  held,       \* the token accounts, as the transaction in flight has them
  programs,   \* the accounts of the loader v1
  loaded,     \* the executors cached for them
  signers,    \* signers of the transaction in flight, {} when there is none
  steps,      \* instructions it has executed
  heap,       \* the heap it asked for
  remaining,  \* its compute meter
  spent,      \* history: what the meter was charged, at most Budget + 1
  failed,     \* an instruction of it failed
  running,    \* the program in execution, whose parameters are amount
  callers     \* the programs waiting for it

ledger == <<bank, programs, loaded>>
meter == <<remaining, spent>>
frames == <<running, callers>>
transaction == <<signers, steps, heap, failed>>
execVars == <<vars, held, ledger, meter, frames, transaction>>

InTransaction == signers # {}
Idle == running = None

\* What a transaction leaves to the next one.
Outcome ==
  [amount |-> held, minted |-> minted, burned |-> burned, doubled |-> doubled,
   programs |-> programs, loaded |-> loaded]

ExecInit ==
  /\ Init /\ held = amount
  /\ programs = [p \in Draft |-> [data |-> [i \in 1..Space |-> Zero], executable |-> FALSE]]
  /\ loaded = [p \in Draft |-> None]
  /\ bank = Outcome
  /\ signers = {} /\ steps = 0 /\ heap = 0 /\ failed = FALSE
  /\ remaining = 0 /\ spent = 0
  /\ running = None /\ callers = << >>

-----------------------------------------------------------------------------
(* The runtime around the programs                                         *)

Begin(s, size) ==
  /\ ~InTransaction
  /\ signers' = s /\ heap' = size /\ remaining' = Budget
  /\ UNCHANGED <<vars, held, ledger, spent, frames, steps, failed>>

\* No transaction is in flight any more.
End ==
  /\ signers' = {} /\ steps' = 0 /\ heap' = 0 /\ failed' = FALSE
  /\ remaining' = 0 /\ spent' = 0
  /\ UNCHANGED frames

Commit ==
  /\ InTransaction /\ Idle /\ ~failed /\ steps > 0
  /\ bank' = Outcome /\ amount' = held
  /\ End
  /\ UNCHANGED <<minted, burned, doubled, held, programs, loaded>>

Abort ==
  /\ InTransaction /\ Idle
  /\ amount' = bank.amount /\ held' = bank.amount
  /\ minted' = bank.minted /\ burned' = bank.burned /\ doubled' = bank.doubled
  /\ programs' = bank.programs /\ loaded' = bank.loaded
  /\ End
  /\ UNCHANGED bank

\* The bank may forget a cached executor.
Evict(p) ==
  /\ ~InTransaction
  /\ loaded' = [loaded EXCEPT ![p] = None] /\ bank' = [bank EXCEPT !.loaded = loaded']
  /\ UNCHANGED <<vars, held, programs, meter, frames, transaction>>

\* One more instruction of the transaction in flight.
Executing ==
  /\ InTransaction /\ Idle /\ ~failed /\ steps < MaxInstructions
  /\ steps' = steps + 1
  /\ UNCHANGED <<signers, heap, failed>>

-----------------------------------------------------------------------------
(* The loader v1                                                           *)

Write(p, offset, bytes) ==
  /\ Executing
  /\ CanWrite(programs, signers, p, offset, bytes)
  /\ programs' = AfterWrite(programs, p, offset, bytes)
  /\ UNCHANGED <<vars, held, bank, loaded, meter, frames>>

\* The executor is cached before the account is executable.
Finalize(p) ==
  /\ Executing
  /\ CanFinalize(programs, signers, p)
  /\ loaded' = [loaded EXCEPT ![p] = programs[p].data]
  /\ programs' = AfterFinalize(programs, p)
  /\ UNCHANGED <<vars, held, bank, meter, frames>>

-----------------------------------------------------------------------------
(* The executor                                                            *)

\* ThisInstructionMeter::consume.  The error of a charge that exceeds what remains
\* is ignored: it leaves nothing, and the next instruction of the program fails.
ConsumeIfEnough(units, n) == IF n <= units THEN units - n ELSE units
ConsumeNothing(units, n) == units

Consume(units, n) == IF n <= units THEN units - n ELSE 0

Charge(n) ==
  /\ remaining' = Consume(remaining, n)
  /\ spent' = IF spent + n > Budget THEN Budget + 1 ELSE spent + n

\* create_vm: the first 32 KiB of heap are free.
HeapCost == IF heap = 0 THEN 0 ELSE (heap - 1) * heap_cost

\* The account to execute is executable; without a cached executor its content
\* makes one.
Runnable(p) ==
  \/ p = Token
  \/ /\ p \in Draft /\ programs[p].executable
     /\ loaded[p] # None \/ Loads(programs[p].data)

\* Up to the first instruction of the program: executor, parameters, machine.
Enter(p, units) ==
  /\ Runnable(p)
  /\ loaded' = IF p = Token \/ loaded[p] # None THEN loaded
               ELSE [loaded EXCEPT ![p] = programs[p].data]
  /\ running' = [id |-> p, handled |-> FALSE, pc |-> 0]
  /\ amount' = held
  /\ Charge(units + HeapCost)

Invoke(p) ==
  /\ Executing
  /\ Enter(p, 0)
  /\ UNCHANGED <<minted, burned, doubled, held, bank, programs, callers>>

\* The machine executes an instruction only against a unit of the meter.
Alive == ~Idle /\ remaining > 0

Alone == UNCHANGED <<held, ledger, callers, transaction>>

\* The program computes, in a loop if it likes.
Compute ==
  /\ Alive
  /\ running' = [running EXCEPT !.pc = 1 - @]
  /\ Charge(1)
  /\ UNCHANGED vars /\ Alone

\* simple_token handles its instruction, on its copy of the accounts.
Handle ==
  /\ Alive /\ running.id = Token /\ ~running.handled
  /\ minted + burned + doubled <= MaxHistory
  /\ Next
  /\ running' = [running EXCEPT !.handled = TRUE]
  /\ Charge(1) /\ Alone

\* A system call that executes another program, at the caller's expense.
Call(p) ==
  /\ Alive /\ running.id # Token /\ Len(callers) + 1 < MaxDepth
  /\ callers' = Append(callers, running.id)
  /\ Enter(p, 1)
  /\ UNCHANGED <<minted, burned, doubled, held, bank, programs, transaction>>

\* What deserialize_parameters makes of the accounts.
Written == amount

\* SUCCESS: the parameters are written back, and the caller, if there is one, goes
\* on with the accounts as they are now.
Return ==
  /\ Alive /\ (running.id = Token => running.handled)
  /\ held' = Written
  /\ IF callers = << >> THEN running' = None /\ UNCHANGED callers
     ELSE /\ running' = [id |-> callers[Len(callers)], handled |-> FALSE, pc |-> 0]
          /\ callers' = SubSeq(callers, 1, Len(callers) - 1)
  /\ Charge(1)
  /\ UNCHANGED <<vars, ledger, transaction>>

\* Another status, a trap, the meter exhausted, parameters that do not deserialize:
\* the error of the program is that of every caller, and of the transaction.
Fail ==
  /\ ~Idle
  /\ \/ UNCHANGED held
     \/ Alive /\ held' = amount   \* deserialize_parameters failed on its way
  /\ running' = None /\ callers' = << >> /\ failed' = TRUE
  /\ UNCHANGED <<vars, ledger, meter, signers, steps, heap>>

Machine == Compute \/ Handle \/ (\E p \in Draft \cup {Token} : Call(p)) \/ Return \/ Fail

ExecNext ==
  \/ \E s \in SignerSets, size \in Heaps : Begin(s, size)
  \/ Commit \/ Abort
  \/ \E p \in Draft : Evict(p)
  \/ \E p \in Draft, offset \in Offsets, bytes \in Chunk : Write(p, offset, bytes)
  \/ \E p \in Draft : Finalize(p)
  \/ \E p \in Draft \cup {Token} : Invoke(p)
  \/ Machine

\* The machine runs on while there is a program in it.
ExecSpec == ExecInit /\ [][ExecNext]_execVars /\ WF_execVars(Machine)
-----------------------------------------------------------------------------
(* Properties                                                              *)

\* A program of the loader v1 is written by transactions its own key signed, until it
\* is executable, and never after: not even in the transaction that finalized it, from
\* its next instruction on (only the end of a transaction that failed takes anything
\* back), nor by what a transaction leaves behind.
WrittenByItsKey ==
  [][\A p \in Draft :
       /\ signers' # {} /\ programs'[p] # programs[p] =>
            ~programs[p].executable /\ p \in signers
       /\ bank'.programs[p] # bank.programs[p] =>
            ~bank.programs[p].executable /\ p \in signers]_execVars

\* What is executed is what was verified: a cached executor is that of the content
\* its account will have for ever, though it is cached before the account is final.
Verified(accounts, cache) ==
  \A p \in Draft : cache[p] # None =>
    accounts[p] = [data |-> cache[p], executable |-> TRUE] /\ cache[p] \in Image
CachedIsFinal == Verified(programs, loaded) /\ Verified(bank.programs, bank.loaded)

\* No transaction gets away with more than its budget: the programs it executed,
\* those they called and the heaps of all of them were paid in full.
PaidInFull == (InTransaction /\ Idle /\ ~failed) => spent <= Budget

\* A program that loops, or calls others for ever, is stopped.
Stops == ~Idle ~> Idle
=============================================================================
