-------------------------- MODULE Execution_proofs --------------------------
(* For any programs, budgets and heap sizes, and programs that call each    *)
(* other however deep.                                                      *)
EXTENDS Execution, Sums_proofs

-----------------------------------------------------------------------------
(* simple_token called on its own, for any accounts and any width of the    *)
(* amounts                                                                 *)

\* The histories start at zero, over no account.
LEMMA InitType == Init => TypeOK
BY AmountAssumption DEF Init, TypeOK, Initialized

\* Writing back a copy that is in range keeps every amount in range.
LEMMA WriteBackType ==
  ASSUME TypeOK, NEW a \in Initialized, NEW x \in 0..MaxAmount
  PROVE  /\ WriteBack(a, x) \in [Initialized -> 0..MaxAmount]
         /\ DOMAIN WriteBack(a, x) = Initialized
BY DEF WriteBack, TypeOK, Initialized

\* Every call keeps the types: burn and transfer check the balance they debit,
\* mint and transfer overflow rather than wrap.
LEMMA NextType == TypeOK /\ [Next]_vars => TypeOK'
<1> SUFFICES ASSUME TypeOK, [Next]_vars PROVE TypeOK'
  OBVIOUS
<1> USE AmountAssumption
<1>1. /\ Initialized \subseteq Account
      /\ \A a \in Initialized : amount[a] \in 0..MaxAmount
      /\ Amounts \subseteq Nat
      /\ minted \in Nat /\ burned \in Nat /\ doubled \in Nat
  BY DEF TypeOK
<1>2. CASE UNCHANGED vars
  BY <1>2 DEF vars, TypeOK, Initialized
<1>3. ASSUME NEW a \in Account, initialize(a) PROVE TypeOK'
  <2>1. /\ amount' \in [Initialized \cup {a} -> 0..MaxAmount]
        /\ DOMAIN amount' = Initialized \cup {a}
    BY <1>1, <1>3 DEF initialize
  <2> QED BY <1>1, <1>3, <2>1 DEF TypeOK, Initialized, initialize
<1>4. ASSUME NEW a \in Account, NEW n \in Amounts, mint(a, n) PROVE TypeOK'
  <2>1. a \in Initialized /\ amount[a] + n \in 0..MaxAmount
    BY <1>1, <1>4 DEF mint, NoOverflow
  <2>2. amount' \in [Initialized -> 0..MaxAmount] /\ DOMAIN amount' = Initialized
    BY <1>4, <2>1, WriteBackType DEF mint
  <2>3. minted' \in Nat
    BY <1>1, <1>4 DEF mint
  <2> QED BY <1>1, <1>4, <2>2, <2>3 DEF TypeOK, Initialized, mint
<1>5. ASSUME NEW a \in Account, NEW n \in Amounts, burn(a, n) PROVE TypeOK'
  <2>1. a \in Initialized /\ amount[a] - n \in 0..MaxAmount
    BY <1>1, <1>5 DEF burn
  <2>2. amount' \in [Initialized -> 0..MaxAmount] /\ DOMAIN amount' = Initialized
    BY <1>5, <2>1, WriteBackType DEF burn
  <2>3. burned' \in Nat
    BY <1>1, <1>5 DEF burn
  <2> QED BY <1>1, <1>5, <2>2, <2>3 DEF TypeOK, Initialized, burn
<1>6. ASSUME NEW from \in Account, NEW to \in Account, NEW n \in Amounts,
             transfer(from, to, n)
      PROVE  TypeOK'
  <2>1. /\ from \in Initialized /\ to \in Initialized
        /\ amount[from] - n \in 0..MaxAmount /\ amount[to] + n \in 0..MaxAmount
    BY <1>1, <1>6 DEF transfer, NoOverflow
  <2>2. amount' \in [Initialized -> 0..MaxAmount] /\ DOMAIN amount' = Initialized
    BY <1>6, <2>1 DEF transfer, Transferred, TypeOK, Initialized
  <2>3. doubled' \in Nat
    BY <1>1, <1>6 DEF transfer
  <2> QED BY <1>1, <1>6, <2>2, <2>3 DEF TypeOK, Initialized, transfer
<1> QED BY <1>2, <1>3, <1>4, <1>5, <1>6 DEF Next

\* Whatever calls are made, in whatever order, every amount stays between zero and
\* u64::MAX: no call wraps around.
THEOREM AmountsInRange == Spec => []TypeOK
BY InitType, NextType, PTL DEF Spec

\* A transfer between two accounts moves the amount and touches no third account.
THEOREM TransferMoves ==
  ASSUME TypeOK, NEW from \in Account, NEW to \in Account, from # to,
         NEW n \in Amounts, transfer(from, to, n)
  PROVE  /\ amount'[from] + amount'[to] = amount[from] + amount[to]
         /\ \A a \in Initialized \ {from, to} : amount'[a] = amount[a]
<1>1. from \in Initialized /\ to \in Initialized
  BY DEF transfer
<1>2. amount[from] \in Nat /\ amount[to] \in Nat /\ n \in Nat
  BY <1>1, AmountAssumption DEF TypeOK
<1>3. /\ amount'[from] = amount[from] - n /\ amount'[to] = amount[to] + n
      /\ \A a \in Initialized \ {from, to} : amount'[a] = amount[a]
  BY <1>1 DEF transfer, Transferred, TypeOK, Initialized
<1> QED BY <1>2, <1>3

-----------------------------------------------------------------------------
(* The invariant, by parts                                                  *)

\* bank is what Outcome makes.
BankShape ==
  bank = [amount |-> bank.amount, minted |-> bank.minted, burned |-> bank.burned,
          doubled |-> bank.doubled, programs |-> bank.programs, loaded |-> bank.loaded]

\* The amounts are in range in every copy of them.
InRange(f) == DOMAIN f \subseteq Account /\ f \in [DOMAIN f -> 0..MaxAmount]
AmountsInv ==
  /\ TypeOK /\ InRange(held) /\ InRange(bank.amount)
  /\ bank.minted \in Nat /\ bank.burned \in Nat /\ bank.doubled \in Nat

\* What a transaction did to the programs so far, it may commit.
ProgramsInv ==
  /\ programs \in [Draft -> ProgramAccount] /\ loaded \in [Draft -> Seq(Byte) \cup {None}]
  /\ bank.programs \in [Draft -> ProgramAccount]
  /\ bank.loaded \in [Draft -> Seq(Byte) \cup {None}]
  /\ \A p \in Draft : programs[p] # bank.programs[p] =>
       ~bank.programs[p].executable /\ p \in signers

\* The meter holds what the transaction did not spend; when it spent too much, the
\* program in execution cannot return.
MeterInv ==
  /\ remaining \in Nat /\ spent \in Nat /\ heap \in Nat
  /\ Idle \/ running \in Frame
  /\ callers \in Seq(Draft \cup {Token})
  /\ ~InTransaction => Idle /\ spent = 0
  /\ InTransaction =>
       \/ spent + remaining = Budget
       \/ spent = Budget + 1 /\ remaining = 0 /\ (~Idle \/ failed)

\* A program that goes on is still a program in execution.
LEMMA FrameGoesOn ==
  ASSUME running \in Frame
  PROVE  [running EXCEPT !.pc = 1 - @] \in Frame /\ [running EXCEPT !.handled = TRUE] \in Frame
<1>1. 1 - running.pc \in 0..1
  BY DEF Frame
<1>2. [running EXCEPT !.pc = 1 - running.pc] \in Frame
  <2> DEFINE pc == 1 - running.pc
  <2> HIDE DEF pc
  <2>1. pc \in 0..1
    BY <1>1 DEF pc
  <2>2. [running EXCEPT !.pc = pc] \in Frame
    BY <2>1 DEF Frame
  <2> QED BY <2>2 DEF pc
<1>3. [running EXCEPT !.handled = TRUE] \in Frame
  BY DEF Frame
<1> QED BY <1>2, <1>3

-----------------------------------------------------------------------------
(* The meter                                                                *)

\* The heap costs nothing or more.
LEMMA HeapCostNat == ASSUME heap \in Nat PROVE HeapCost \in Nat
<1>1. CASE heap = 0
  BY <1>1 DEF HeapCost
<1>2. CASE heap # 0
  <2> DEFINE k == heap - 1
  <2>1. k \in Nat /\ heap_cost \in Nat
    BY <1>2, ExecutionAssumption
  <2> HIDE DEF k
  <2>2. k * heap_cost \in Nat
    BY <2>1
  <2> QED BY <1>2, <2>2 DEF HeapCost, k
<1> QED BY <1>1, <1>2

\* A charge leaves the meter and what was spent in agreement.
LEMMA ChargeKeeps ==
  ASSUME remaining \in Nat, spent \in Nat, NEW n \in Nat, Charge(n),
         spent + remaining = Budget \/ (spent = Budget + 1 /\ remaining = 0)
  PROVE  /\ remaining' \in Nat /\ spent' \in Nat
         /\ spent' + remaining' = Budget \/ (spent' = Budget + 1 /\ remaining' = 0)
         /\ (spent + remaining = Budget /\ n <= remaining) => spent' + remaining' = Budget
BY ExecutionAssumption DEF Charge, Consume

\* Nothing is spent before the first transaction.
LEMMA InitMeter == ExecInit => MeterInv
BY DEF ExecInit, MeterInv, InTransaction, Idle

\* Every step keeps the invariant: a program returns only against a unit that is there.
LEMMA NextMeter == MeterInv /\ [ExecNext]_execVars => MeterInv'
<1> SUFFICES ASSUME MeterInv, [ExecNext]_execVars PROVE MeterInv'
  OBVIOUS
<1> USE DEF MeterInv, InTransaction, Idle
<1>1. CASE UNCHANGED execVars
  BY <1>1 DEF execVars, meter, frames, transaction
<1>2. ASSUME NEW s \in SignerSets, NEW size \in Heaps, Begin(s, size) PROVE MeterInv'
  BY <1>2, ExecutionAssumption DEF Begin, frames
<1>3. CASE Commit \/ Abort
  BY <1>3 DEF Commit, Abort, End, frames
<1>4. ASSUME NEW p \in Draft, Evict(p) PROVE MeterInv'
  BY <1>4 DEF Evict, meter, frames, transaction
<1>5. ASSUME NEW p \in Draft, NEW offset \in Offsets, NEW bytes \in Chunk,
             Write(p, offset, bytes) PROVE MeterInv'
  BY <1>5 DEF Write, Executing, meter, frames
<1>6. ASSUME NEW p \in Draft, Finalize(p) PROVE MeterInv'
  BY <1>6 DEF Finalize, Executing, meter, frames
<1>7. ASSUME NEW p \in Draft \cup {Token}, NEW units \in 0..1, Enter(p, units),
             InTransaction, UNCHANGED <<signers, heap>>,
             callers' \in Seq(Draft \cup {Token})
      PROVE  MeterInv'
  <2>1. units + HeapCost \in Nat
    BY HeapCostNat
  <2>2. running' \in Frame
    BY <1>7 DEF Enter, Frame
  <2>3. ~Idle'
    BY <2>2, ExecutionAssumption
  <2>4. Charge(units + HeapCost)
    BY <1>7 DEF Enter
  <2> QED BY <1>7, <2>1, <2>2, <2>3, <2>4, ChargeKeeps
<1>8. ASSUME NEW p \in Draft \cup {Token}, Invoke(p) PROVE MeterInv'
  BY <1>7, <1>8 DEF Invoke, Executing
<1>9. CASE Compute \/ Handle
  <2>1. ~Idle /\ Charge(1) /\ UNCHANGED <<signers, heap, callers, failed>>
    BY <1>9 DEF Compute, Handle, Alive, Alone, transaction
  <2>2. running \in Frame
    BY <2>1
  <2>3. running' \in Frame
    BY <1>9, <2>2, FrameGoesOn DEF Compute, Handle
  <2>4. ~Idle'
    BY <2>3, ExecutionAssumption
  <2> QED BY <2>1, <2>3, <2>4, ChargeKeeps
<1>10. ASSUME NEW p \in Draft \cup {Token}, Call(p) PROVE MeterInv'
  <2>1. running \in Frame /\ InTransaction
    BY <1>10 DEF Call, Alive
  <2>2. callers' \in Seq(Draft \cup {Token})
    BY <1>10, <2>1 DEF Call, Frame
  <2> QED BY <1>7, <1>10, <2>1, <2>2 DEF Call, transaction
<1>11. CASE Return
  <2>1. /\ InTransaction /\ remaining > 0 /\ Charge(1)
        /\ UNCHANGED <<signers, heap, failed>>
    BY <1>11 DEF Return, Alive, transaction
  <2>2. /\ remaining' \in Nat /\ spent' \in Nat /\ spent' + remaining' = Budget
    BY <2>1, ChargeKeeps
  <2>3. CASE callers = << >>
    BY <1>11, <2>1, <2>2, <2>3 DEF Return
  <2>4. CASE callers # << >>
    <3>1. /\ callers[Len(callers)] \in Draft \cup {Token}
          /\ SubSeq(callers, 1, Len(callers) - 1) \in Seq(Draft \cup {Token})
      BY <2>4
    <3>2. /\ running' = [id |-> callers[Len(callers)], handled |-> FALSE, pc |-> 0]
          /\ callers' = SubSeq(callers, 1, Len(callers) - 1)
      BY <1>11, <2>4 DEF Return
    <3>3. running' \in Frame
      BY <3>1, <3>2 DEF Frame
    <3> QED BY <2>1, <2>2, <3>1, <3>2, <3>3
  <2> QED BY <2>3, <2>4
<1>12. CASE Fail
  BY <1>12 DEF Fail, meter
<1> QED BY <1>1, <1>2, <1>3, <1>4, <1>5, <1>6, <1>8, <1>9, <1>10, <1>11, <1>12
       DEF ExecNext, Machine

\* Whatever the programs do, call or reserve, a transaction that gets through paid
\* for all of it, though the loader ignores the error of a charge.
THEOREM BudgetHolds == ExecSpec => []PaidInFull
<1>1. MeterInv => PaidInFull
  BY ExecutionAssumption DEF MeterInv, PaidInFull, InTransaction, Idle
<1> QED BY <1>1, InitMeter, NextMeter, PTL DEF ExecSpec

-----------------------------------------------------------------------------
(* The programs of the loader v1                                            *)

LoaderInv ==
  /\ BankShape /\ ProgramsInv /\ CachedIsFinal
  /\ ~InTransaction => programs = bank.programs

\* Writing over the bits of an account leaves bits.
LEMMA OverwriteBytes ==
  ASSUME NEW data \in Seq(Byte), NEW offset \in Nat, NEW bytes \in Seq(Byte)
  PROVE  Overwrite(data, offset, bytes) \in Seq(Byte)
<1> DEFINE n == Len(data)
           new(i) == IF i \in offset + 1 .. offset + Len(bytes) THEN bytes[i - offset]
                     ELSE data[i]
<1>1. /\ n \in Nat /\ DOMAIN data = 1..n /\ \A i \in 1..n : data[i] \in Byte
      /\ Len(bytes) \in Nat /\ \A i \in 1..Len(bytes) : bytes[i] \in Byte
  OBVIOUS
<1>2. ASSUME NEW i \in 1..n PROVE new(i) \in Byte
  <2>1. i \in offset + 1 .. offset + Len(bytes) => i - offset \in 1..Len(bytes)
    BY <1>1
  <2> QED BY <1>1, <2>1
<1>3. Overwrite(data, offset, bytes) = [i \in 1..n |-> new(i)]
  BY <1>1 DEF Overwrite
<1> HIDE DEF n, new
<1> QED BY <1>1, <1>2, <1>3

\* Write changes the bits of one account, whose key signed and which was a draft.
LEMMA WriteOne ==
  ASSUME programs \in [Draft -> ProgramAccount], NEW p \in Draft, NEW offset \in Offsets,
         NEW bytes \in Chunk, CanWrite(programs, signers, p, offset, bytes),
         programs' = AfterWrite(programs, p, offset, bytes)
  PROVE  /\ programs' \in [Draft -> ProgramAccount]
         /\ ~programs[p].executable /\ p \in signers
         /\ \A x \in Draft \ {p} : programs'[x] = programs[x]
<1>1. Overwrite(programs[p].data, offset, bytes) \in Seq(Byte)
  BY OverwriteBytes, ExecutionAssumption DEF ProgramAccount
<1>2. programs' = [programs EXCEPT ![p] =
                     [@ EXCEPT !.data = Overwrite(programs[p].data, offset, bytes)]]
  BY DEF AfterWrite
<1> QED BY <1>1, <1>2 DEF CanWrite, IsDraft, ProgramAccount

\* Finalize makes one draft executable, whose key signed, and leaves its bits.
LEMMA FinalizeOne ==
  ASSUME programs \in [Draft -> ProgramAccount], NEW p \in Draft,
         CanFinalize(programs, signers, p), programs' = AfterFinalize(programs, p)
  PROVE  /\ programs' \in [Draft -> ProgramAccount]
         /\ ~programs[p].executable /\ p \in signers /\ programs[p].data \in Image
         /\ programs'[p] = [data |-> programs[p].data, executable |-> TRUE]
         /\ \A x \in Draft \ {p} : programs'[x] = programs[x]
<1>1. programs' = [programs EXCEPT ![p] = [@ EXCEPT !.executable = TRUE]]
  BY DEF AfterFinalize
<1> QED BY <1>1 DEF CanFinalize, IsDraft, Loads, ProgramAccount

\* A program that is entered without an executor gets that of its final content.
LEMMA EnterVerified ==
  ASSUME LoaderInv, NEW p \in Draft \cup {Token}, NEW units, Enter(p, units)
  PROVE  loaded' \in [Draft -> Seq(Byte) \cup {None}] /\ Verified(programs, loaded')
<1> USE DEF LoaderInv, ProgramsInv, CachedIsFinal
<1>1. CASE p = Token \/ loaded[p] # None
  BY <1>1 DEF Enter
<1>2. CASE p # Token /\ loaded[p] = None
  <2>1. /\ p \in Draft /\ programs[p].executable /\ Loads(programs[p].data)
        /\ loaded' = [loaded EXCEPT ![p] = programs[p].data]
    BY <1>2 DEF Enter, Runnable
  <2>2. /\ programs[p].data \in Seq(Byte)
        /\ programs[p] = [data |-> programs[p].data, executable |-> TRUE]
    BY <2>1 DEF ProgramAccount
  <2> QED BY <2>1, <2>2 DEF Verified, Loads
<1> QED BY <1>1, <1>2

\* Nothing is cached before the first transaction.
LEMMA InitLoader == ExecInit => LoaderInv
<1> SUFFICES ASSUME ExecInit PROVE LoaderInv
  OBVIOUS
<1>1. [i \in 1..Space |-> Zero] \in Seq(Byte)
  BY ExecutionAssumption
<1>2. programs \in [Draft -> ProgramAccount] /\ loaded \in [Draft -> Seq(Byte) \cup {None}]
  BY <1>1 DEF ExecInit, ProgramAccount
<1>3. BankShape /\ bank.programs = programs /\ bank.loaded = loaded
  BY DEF ExecInit, Outcome, BankShape
<1>4. \A p \in Draft : loaded[p] = None
  BY DEF ExecInit
<1> QED BY <1>2, <1>3, <1>4 DEF LoaderInv, ProgramsInv, CachedIsFinal, Verified

\* Every step keeps the invariant: the loader writes drafts only, and caches what it
\* makes final; the bank takes all of it or nothing.
LEMMA NextLoader == LoaderInv /\ [ExecNext]_execVars => LoaderInv'
<1> SUFFICES ASSUME LoaderInv, [ExecNext]_execVars PROVE LoaderInv'
  OBVIOUS
<1> USE DEF LoaderInv, ProgramsInv, InTransaction
<1>1. CASE UNCHANGED <<bank, programs, loaded, signers>>
  BY <1>1 DEF BankShape, CachedIsFinal, Verified
<1>2. ASSUME NEW s \in SignerSets, NEW size \in Heaps, Begin(s, size) PROVE LoaderInv'
  BY <1>2 DEF Begin, ledger, BankShape, CachedIsFinal, Verified
<1>3. CASE Commit
  <2>1. /\ BankShape' /\ bank'.programs = programs /\ bank'.loaded = loaded
        /\ UNCHANGED <<programs, loaded>> /\ signers' = {}
    BY <1>3 DEF Commit, Outcome, BankShape, End
  <2> QED BY <2>1 DEF CachedIsFinal, Verified
<1>4. CASE Abort
  <2>1. /\ UNCHANGED bank /\ signers' = {}
        /\ programs' = bank.programs /\ loaded' = bank.loaded
    BY <1>4 DEF Abort, End
  <2>2. bank.loaded \in [Draft -> Seq(Byte) \cup {None}]
    OBVIOUS
  <2> QED BY <2>1, <2>2 DEF BankShape, CachedIsFinal, Verified
<1>5. ASSUME NEW p \in Draft, Evict(p) PROVE LoaderInv'
  <2>1. /\ loaded' = [loaded EXCEPT ![p] = None] /\ UNCHANGED <<programs, signers>>
        /\ bank' = [bank EXCEPT !.loaded = loaded'] /\ programs = bank.programs
    BY <1>5 DEF Evict, transaction
  <2>2. BankShape' /\ bank'.programs = bank.programs /\ bank'.loaded = loaded'
    BY <2>1 DEF BankShape
  <2>3. Verified(programs, loaded')
    BY <2>1 DEF CachedIsFinal, Verified
  <2> QED BY <2>1, <2>2, <2>3 DEF CachedIsFinal, Verified
<1>6. ASSUME NEW p \in Draft, NEW offset \in Offsets, NEW bytes \in Chunk,
             Write(p, offset, bytes) PROVE LoaderInv'
  <2>1. /\ CanWrite(programs, signers, p, offset, bytes) /\ InTransaction
        /\ programs' = AfterWrite(programs, p, offset, bytes)
        /\ UNCHANGED <<bank, loaded, signers>>
    BY <1>6 DEF Write, Executing
  <2>2. /\ programs' \in [Draft -> ProgramAccount]
        /\ ~programs[p].executable /\ p \in signers
        /\ \A x \in Draft \ {p} : programs'[x] = programs[x]
    BY <2>1, WriteOne
  <2>3. loaded[p] = None
    BY <2>2 DEF CachedIsFinal, Verified
  <2>4. Verified(programs, loaded)'
    BY <2>1, <2>2, <2>3 DEF CachedIsFinal, Verified
  <2>5. ASSUME NEW x \in Draft, programs'[x] # bank.programs[x]
        PROVE  ~bank.programs[x].executable /\ x \in signers
    BY <2>2, <2>5
  <2> QED BY <2>1, <2>2, <2>4, <2>5 DEF BankShape, CachedIsFinal, Verified
<1>7. ASSUME NEW p \in Draft, Finalize(p) PROVE LoaderInv'
  <2>1. /\ CanFinalize(programs, signers, p) /\ InTransaction
        /\ programs' = AfterFinalize(programs, p)
        /\ loaded' = [loaded EXCEPT ![p] = programs[p].data]
        /\ UNCHANGED <<bank, signers>>
    BY <1>7 DEF Finalize, Executing
  <2>2. /\ programs' \in [Draft -> ProgramAccount]
        /\ ~programs[p].executable /\ p \in signers /\ programs[p].data \in Image
        /\ programs'[p] = [data |-> programs[p].data, executable |-> TRUE]
        /\ \A x \in Draft \ {p} : programs'[x] = programs[x]
    BY <2>1, FinalizeOne
  <2>3. Verified(programs, loaded)'
    BY <2>1, <2>2 DEF CachedIsFinal, Verified
  <2>4. programs[p].data \in Seq(Byte)
    BY DEF ProgramAccount
  <2>5. ASSUME NEW x \in Draft, programs'[x] # bank.programs[x]
        PROVE  ~bank.programs[x].executable /\ x \in signers
    BY <2>2, <2>5
  <2> QED BY <2>1, <2>2, <2>3, <2>4, <2>5 DEF BankShape, CachedIsFinal, Verified
<1>8. ASSUME NEW p \in Draft \cup {Token}, Invoke(p) \/ Call(p) PROVE LoaderInv'
  <2>1. /\ UNCHANGED <<bank, programs, signers>>
        /\ loaded' \in [Draft -> Seq(Byte) \cup {None}] /\ Verified(programs, loaded')
    BY <1>8, EnterVerified DEF Invoke, Call, Executing, transaction
  <2> QED BY <2>1 DEF BankShape, CachedIsFinal, Verified
<1>9. Compute \/ Handle \/ Return \/ Fail => UNCHANGED <<bank, programs, loaded, signers>>
  BY DEF Compute, Handle, Return, Fail, Alone, ledger, transaction
<1>10. UNCHANGED execVars => UNCHANGED <<bank, programs, loaded, signers>>
  BY DEF execVars, ledger, transaction
<1> QED BY <1>1, <1>2, <1>3, <1>4, <1>5, <1>6, <1>7, <1>8, <1>9, <1>10
       DEF ExecNext, Machine

\* The bank takes a changed program only from a transaction its key signed.
LEMMA CommitByKey ==
  ASSUME LoaderInv, [ExecNext]_execVars,
         NEW p \in Draft, bank'.programs[p] # bank.programs[p]
  PROVE  ~bank.programs[p].executable /\ p \in signers
<1>1. CASE Commit
  <2>1. bank'.programs = programs
    BY <1>1 DEF Commit, Outcome
  <2> QED BY <2>1 DEF LoaderInv, ProgramsInv
<1>2. ASSUME NEW x \in Draft, Evict(x) PROVE FALSE
  <2>1. bank'.programs = bank.programs
    BY <1>2 DEF Evict, LoaderInv, BankShape
  <2> QED BY <2>1
<1>3. CASE UNCHANGED bank
  BY <1>3
<1>4. CASE Machine
  BY <1>3, <1>4 DEF Machine, Compute, Handle, Call, Return, Fail, Alone, ledger
<1>5. CASE UNCHANGED execVars
  BY <1>3, <1>5 DEF execVars, ledger
<1> QED BY <1>1, <1>2, <1>3, <1>4, <1>5
       DEF ExecNext, Begin, Abort, Write, Finalize, Invoke, ledger

\* The executor of a program of the loader v1 is that of the content its account will
\* always have, whatever transactions are cut short and whatever the cache forgets.
THEOREM ExecutorsFinal == ExecSpec => []CachedIsFinal
<1>1. LoaderInv => CachedIsFinal
  BY DEF LoaderInv
<1> QED BY <1>1, InitLoader, NextLoader, PTL DEF ExecSpec

\* An instruction changes only a program its transaction is signed for, and only one
\* that is not executable yet: after an earlier instruction finalized it, too.
LEMMA InstructionByKey ==
  ASSUME LoaderInv, ExecNext, NEW p \in Draft, signers' # {}, programs'[p] # programs[p]
  PROVE  ~programs[p].executable /\ p \in signers
<1>1. PICK q \in Draft :
        Finalize(q) \/ \E offset \in Offsets, bytes \in Chunk : Write(q, offset, bytes)
  <2>1. Machine => programs' = programs
    BY DEF Machine, Compute, Handle, Alone, Call, Enter, Return, Fail, Written, ledger
  <2>2. ASSUME NEW s \in SignerSets, NEW size \in Heaps, Begin(s, size)
        PROVE  programs' = programs
    BY <2>2 DEF Begin, ledger
  <2>3. \A q \in Draft : Evict(q) => programs' = programs
    BY DEF Evict
  <2>4. \A q \in Draft \cup {Token} : Invoke(q) => programs' = programs
    BY DEF Invoke, Enter
  <2>5. (Commit => programs' = programs) /\ ~Abort
    BY DEF Commit, Abort, End
  <2> QED BY <2>1, <2>2, <2>3, <2>4, <2>5 DEF ExecNext
<1>2. CASE Finalize(q)
  <2>1. CanFinalize(programs, signers, q) /\ programs' = AfterFinalize(programs, q)
    BY <1>2 DEF Finalize
  <2> QED BY <2>1 DEF CanFinalize, IsDraft, AfterFinalize
<1>3. CASE \E offset \in Offsets, bytes \in Chunk : Write(q, offset, bytes)
  <2>1. PICK offset \in Offsets, bytes \in Chunk : Write(q, offset, bytes)
    BY <1>3
  <2>2. /\ CanWrite(programs, signers, q, offset, bytes)
        /\ programs' = AfterWrite(programs, q, offset, bytes)
    BY <2>1 DEF Write
  <2> QED BY <2>2 DEF CanWrite, IsDraft, AfterWrite
<1> QED BY <1>1, <1>2, <1>3

\* A program changes only before it is executable, and under its own key's signature:
\* from one instruction to the next, and from one transaction to the next.
THEOREM ProgramsWrittenByKey == ExecSpec => WrittenByItsKey
<1> DEFINE ByKey == \A p \in Draft :
                      /\ signers' # {} /\ programs'[p] # programs[p] =>
                           ~programs[p].executable /\ p \in signers
                      /\ bank'.programs[p] # bank.programs[p] =>
                           ~bank.programs[p].executable /\ p \in signers
<1>1. LoaderInv /\ [ExecNext]_execVars => ByKey
  <2> SUFFICES ASSUME LoaderInv, [ExecNext]_execVars, NEW p \in Draft
               PROVE  /\ signers' # {} /\ programs'[p] # programs[p] =>
                           ~programs[p].executable /\ p \in signers
                      /\ bank'.programs[p] # bank.programs[p] =>
                           ~bank.programs[p].executable /\ p \in signers
    OBVIOUS
  <2>1. UNCHANGED execVars => programs' = programs
    BY DEF execVars, ledger
  <2> QED BY <2>1, InstructionByKey, CommitByKey
<1> QED BY <1>1, InitLoader, NextLoader, PTL DEF ExecSpec, WrittenByItsKey

-----------------------------------------------------------------------------
(* The amounts of simple_token                                              *)

\* There is no account before the first transaction.
LEMMA InitAmounts == ExecInit => BankShape /\ AmountsInv
BY InitType DEF ExecInit, Init, Outcome, BankShape, AmountsInv, InRange

\* Every step keeps the invariant: a copy goes to a program, to the transaction and
\* to the bank, and only simple_token changes one.
LEMMA NextAmounts ==
  BankShape /\ AmountsInv /\ [ExecNext]_execVars => (BankShape /\ AmountsInv)'
<1> SUFFICES ASSUME BankShape, AmountsInv, [ExecNext]_execVars
             PROVE  BankShape' /\ AmountsInv'
  OBVIOUS
<1>1. CASE UNCHANGED <<vars, held, bank>>
  BY <1>1 DEF vars, BankShape, AmountsInv, TypeOK, Initialized, InRange
<1>2. CASE Commit
  <2>1. /\ bank' = Outcome /\ amount' = held /\ UNCHANGED <<minted, burned, doubled, held>>
    BY <1>2 DEF Commit
  <2>2. /\ BankShape' /\ bank'.amount = held
        /\ bank'.minted = minted /\ bank'.burned = burned /\ bank'.doubled = doubled
    BY <2>1 DEF Outcome, BankShape
  <2> QED BY <2>1, <2>2 DEF AmountsInv, TypeOK, Initialized, InRange
<1>3. CASE Abort
  BY <1>3 DEF Abort, BankShape, AmountsInv, TypeOK, Initialized, InRange
<1>4. ASSUME NEW p \in Draft, Evict(p) PROVE BankShape' /\ AmountsInv'
  <2>1. BankShape' /\ UNCHANGED <<vars, held>>
    BY <1>4 DEF Evict, BankShape
  <2>2. /\ bank'.amount = bank.amount /\ bank'.minted = bank.minted
        /\ bank'.burned = bank.burned /\ bank'.doubled = bank.doubled
    BY <1>4 DEF Evict, BankShape
  <2> QED BY <2>1, <2>2 DEF vars, AmountsInv, TypeOK, Initialized, InRange
<1>5. ASSUME NEW p \in Draft \cup {Token}, Invoke(p) \/ Call(p) PROVE BankShape' /\ AmountsInv'
  <2>1. amount' = held /\ UNCHANGED <<minted, burned, doubled, held, bank>>
    BY <1>5 DEF Invoke, Call, Enter
  <2> QED BY <2>1 DEF BankShape, AmountsInv, TypeOK, Initialized, InRange
<1>6. CASE Handle
  <2>1. Next /\ UNCHANGED <<held, bank>>
    BY <1>6 DEF Handle, Alone, ledger
  <2>2. TypeOK'
    BY <2>1, NextType DEF AmountsInv
  <2> QED BY <2>1, <2>2 DEF BankShape, AmountsInv, InRange
<1>7. CASE Return \/ Fail
  <2>1. (held' = amount \/ held' = held) /\ UNCHANGED <<vars, bank>>
    BY <1>7 DEF Return, Fail, Written, ledger
  <2> QED BY <2>1 DEF vars, BankShape, AmountsInv, TypeOK, Initialized, InRange
<1>8. Compute => UNCHANGED <<vars, held, bank>>
  BY DEF Compute, Alone, ledger
<1>9. UNCHANGED execVars => UNCHANGED <<vars, held, bank>>
  BY DEF execVars, ledger
<1>10. ASSUME NEW s \in SignerSets, NEW size \in Heaps, Begin(s, size)
       PROVE  UNCHANGED <<vars, held, bank>>
  BY <1>10 DEF Begin, ledger
<1>11. ASSUME NEW p \in Draft,
              Finalize(p) \/ \E offset \in Offsets, bytes \in Chunk : Write(p, offset, bytes)
       PROVE  UNCHANGED <<vars, held, bank>>
  BY <1>11 DEF Write, Finalize
<1> QED BY <1>1, <1>2, <1>3, <1>4, <1>5, <1>6, <1>7, <1>8, <1>9, <1>10, <1>11
       DEF ExecNext, Machine

\* However programs call simple_token, and wherever they fail, no amount leaves the
\* range of a u64, in a program's copy, in the transaction's or in the bank.
THEOREM AmountsInRangeThroughout == ExecSpec => []TypeOK
<1>1. AmountsInv => TypeOK
  BY DEF AmountsInv
<1> QED BY <1>1, InitAmounts, NextAmounts, PTL DEF ExecSpec


-----------------------------------------------------------------------------
(* The tokens in circulation                                                *)

\* The amounts add up to what the history says.
Accounted(f, m, b, d) == IsFiniteSet(DOMAIN f) /\ SumFunction(f) = (m + d) - b

\* A program other than simple_token has the accounts as the transaction has them:
\* only in the copy of simple_token, or after a failure, which executes no program
\* any more, do they differ.
SupplyInv ==
  /\ Accounted(amount, minted, burned, doubled)
  /\ Accounted(bank.amount, bank.minted, bank.burned, bank.doubled)
  /\ failed => Idle
  /\ failed \/ amount = held \/ (~Idle /\ running.id = Token)

\* There is nothing to add up over no account.
LEMMA InitAccounted == Init => Accounted(amount, minted, burned, doubled)
<1> SUFFICES ASSUME Init PROVE Accounted(amount, minted, burned, doubled)
  OBVIOUS
<1>1. IsFiniteSet({}) /\ DOMAIN amount = {}
  BY FS_EmptySet DEF Init
<1>2. PartialSums(amount, {})[{}] = 0
  BY <1>1, SumEmpty
<1>3. SumFunction(amount) = 0
  BY <1>1, <1>2, SumIs
<1>4. minted = 0 /\ burned = 0 /\ doubled = 0
  BY DEF Init
<1>5. SumFunction(amount) = (minted + doubled) - burned
  BY <1>3, <1>4
<1> QED BY <1>1, <1>5 DEF Accounted

\* What the histories add up to after each kind of call.
LEMMA Histories ==
  \A s, m, b, d, n, x, y \in Int : s = (m + d) - b =>
    /\ (s - x) + (x + n) = ((m + n) + d) - b
    /\ (s - x) + (x - n) = (m + d) - (b + n)
    /\ (s - x) + (x + n) = (m + (d + n)) - b
    /\ (((s - x) + (x - n)) - y) + (y + n) = (m + d) - b
    /\ s + 0 = (m + d) - b
OBVIOUS

\* Every call of simple_token keeps the amounts accounted for: a transfer between
\* two accounts changes two of them by opposite amounts, one from an account to
\* itself only credits it.
LEMMA NextAccounted ==
  ASSUME TypeOK, Accounted(amount, minted, burned, doubled), Next
  PROVE  Accounted(amount, minted, burned, doubled)'
<1> DEFINE s == SumFunction(amount)
<1>1. /\ amount \in [Initialized -> Int] /\ IsFiniteSet(Initialized)
      /\ DOMAIN amount = Initialized
  BY AmountAssumption DEF TypeOK, Accounted, Initialized
<1>2. minted \in Int /\ burned \in Int /\ doubled \in Int /\ Amounts \subseteq Int
  BY AmountAssumption DEF TypeOK
<1>3. s \in Int
  BY <1>1, SumType
<1>4. s = (minted + doubled) - burned
  BY DEF Accounted
<1> HIDE DEF s
<1>5. ASSUME NEW a \in Account, initialize(a) PROVE Accounted(amount, minted, burned, doubled)'
  <2>1. /\ a \notin Initialized /\ UNCHANGED <<minted, burned, doubled>>
        /\ amount' = [x \in Initialized \cup {a} |-> IF x = a THEN 0 ELSE amount[x]]
    BY <1>5 DEF initialize
  <2>2. /\ amount' \in [Initialized \cup {a} -> Int] /\ amount'[a] = 0
        /\ \A x \in Initialized : amount'[x] = amount[x]
        /\ DOMAIN amount' = Initialized \cup {a}
    BY <1>1, <2>1
  <2>3. ASSUME NEW g, g = amount' PROVE SumFunction(g) = s + g[a]
    <3>1. /\ g \in [Initialized \cup {a} -> Int]
          /\ \A x \in Initialized : g[x] = amount[x]
      BY <2>2, <2>3
    <3> QED BY <1>1, <2>1, <3>1, SumNew DEF s
  <2>4. SumFunction(amount') = (minted + doubled) - burned
    BY <1>2, <1>3, <1>4, <2>2, <2>3, Histories
  <2>5. IsFiniteSet(Initialized \cup {a})
    BY <1>1, FS_AddElement
  <2> QED BY <2>1, <2>2, <2>4, <2>5 DEF Accounted
<1>6. ASSUME NEW a \in Initialized, NEW v \in Int, amount' = WriteBack(a, v)
      PROVE  SumFunction(amount') = (s - amount[a]) + v /\ DOMAIN amount' = Initialized
  BY <1>1, <1>6, SumPoint DEF WriteBack, s
<1>7. ASSUME NEW a \in Account, NEW n \in Amounts, mint(a, n)
      PROVE  Accounted(amount, minted, burned, doubled)'
  <2>1. /\ a \in Initialized /\ amount' = WriteBack(a, amount[a] + n)
        /\ minted' = minted + n /\ burned' = burned /\ doubled' = doubled
    BY <1>7 DEF mint
  <2>2. n \in Int /\ amount[a] \in Int /\ amount[a] + n \in Int
    BY <1>1, <1>2, <2>1
  <2>3. SumFunction(amount') = (s - amount[a]) + (amount[a] + n) /\ DOMAIN amount' = Initialized
    BY <1>6, <2>1, <2>2
  <2>4. SumFunction(amount') = ((minted + n) + doubled) - burned
    BY <1>2, <1>3, <1>4, <2>2, <2>3, Histories
  <2> QED BY <1>1, <2>1, <2>3, <2>4 DEF Accounted
<1>8. ASSUME NEW a \in Account, NEW n \in Amounts, burn(a, n)
      PROVE  Accounted(amount, minted, burned, doubled)'
  <2>1. /\ a \in Initialized /\ amount' = WriteBack(a, amount[a] - n)
        /\ minted' = minted /\ burned' = burned + n /\ doubled' = doubled
    BY <1>8 DEF burn
  <2>2. n \in Int /\ amount[a] \in Int /\ amount[a] - n \in Int
    BY <1>1, <1>2, <2>1
  <2>3. SumFunction(amount') = (s - amount[a]) + (amount[a] - n) /\ DOMAIN amount' = Initialized
    BY <1>6, <2>1, <2>2
  <2>4. SumFunction(amount') = (minted + doubled) - (burned + n)
    BY <1>2, <1>3, <1>4, <2>2, <2>3, Histories
  <2> QED BY <1>1, <2>1, <2>3, <2>4 DEF Accounted
<1>9. ASSUME NEW from \in Account, NEW to \in Account, NEW n \in Amounts, transfer(from, to, n)
      PROVE  Accounted(amount, minted, burned, doubled)'
  <2>1. /\ from \in Initialized /\ to \in Initialized
        /\ amount' = [amount EXCEPT ![from] = amount[from] - n, ![to] = amount[to] + n]
        /\ doubled' = (IF from = to THEN doubled + n ELSE doubled)
        /\ minted' = minted /\ burned' = burned
    BY <1>9 DEF transfer, Transferred
  <2>2. /\ n \in Int /\ amount[from] \in Int /\ amount[to] \in Int
        /\ amount[from] - n \in Int /\ amount[to] + n \in Int
    BY <1>1, <1>2, <2>1
  <2>3. DOMAIN amount' = Initialized
    BY <1>1, <2>1
  <2>4. CASE from = to
    <3>1. amount' = WriteBack(to, amount[to] + n)
      BY <1>1, <2>1, <2>4 DEF WriteBack
    <3>2. SumFunction(amount') = (s - amount[to]) + (amount[to] + n)
      BY <1>6, <2>1, <2>2, <3>1
    <3>3. SumFunction(amount') = (minted + (doubled + n)) - burned
      BY <1>2, <1>3, <1>4, <2>2, <3>2, Histories
    <3> QED BY <1>1, <2>1, <2>3, <2>4, <3>3 DEF Accounted
  <2>5. CASE from # to
    <3> DEFINE f == [amount EXCEPT ![from] = amount[from] - n]
    <3>1. /\ f \in [Initialized -> Int] /\ f[to] = amount[to]
          /\ amount' = [f EXCEPT ![to] = amount[to] + n]
      BY <1>1, <2>1, <2>2, <2>5
    <3>2. SumFunction(f) = (s - amount[from]) + (amount[from] - n)
      BY <1>1, <2>1, <2>2, SumPoint DEF s
    <3> HIDE DEF f
    <3>3. SumFunction(amount') = (SumFunction(f) - f[to]) + (amount[to] + n)
      <4>1. SumFunction([f EXCEPT ![to] = amount[to] + n])
              = (SumFunction(f) - f[to]) + (amount[to] + n)
        <5>1. to \in Initialized /\ amount[to] + n \in Int /\ IsFiniteSet(Initialized)
          BY <1>1, <2>1, <2>2
        <5> QED BY <3>1, <5>1, SumPoint
      <4> QED BY <3>1, <4>1
    <3>4. SumFunction(amount') = (minted + doubled) - burned
      BY <1>2, <1>3, <1>4, <2>2, <3>1, <3>2, <3>3, Histories
    <3> QED BY <1>1, <2>1, <2>3, <2>5, <3>4 DEF Accounted
  <2> QED BY <2>4, <2>5
<1> QED BY <1>5, <1>7, <1>8, <1>9 DEF Next

\* Nothing is in circulation before the first transaction.
LEMMA InitSupply == ExecInit => SupplyInv
BY InitAccounted DEF ExecInit, Outcome, SupplyInv, Accounted

\* Every step keeps the amounts accounted for, in the program's copy and in the bank.
LEMMA NextSupply ==
  SupplyInv /\ MeterInv /\ AmountsInv /\ [ExecNext]_execVars => SupplyInv'
<1> SUFFICES ASSUME SupplyInv, MeterInv, AmountsInv, [ExecNext]_execVars PROVE SupplyInv'
  OBVIOUS
<1>1. ASSUME UNCHANGED <<vars, held, failed, running>>,
             /\ bank'.amount = bank.amount /\ bank'.minted = bank.minted
             /\ bank'.burned = bank.burned /\ bank'.doubled = bank.doubled
      PROVE  SupplyInv'
  BY <1>1 DEF vars, SupplyInv, Accounted, Idle
<1>2. CASE UNCHANGED execVars
  BY <1>1, <1>2 DEF execVars, ledger, transaction, frames
<1>3. ASSUME NEW t \in SignerSets, NEW size \in Heaps, Begin(t, size) PROVE SupplyInv'
  BY <1>1, <1>3 DEF Begin, ledger, frames
<1>4. CASE Commit
  <2>1. /\ bank' = Outcome /\ amount' = held /\ UNCHANGED <<minted, burned, doubled, held>>
        /\ Idle /\ ~failed
    BY <1>4 DEF Commit
  <2>2. /\ bank'.amount = held /\ bank'.minted = minted
        /\ bank'.burned = burned /\ bank'.doubled = doubled
    BY <2>1 DEF Outcome
  <2>3. amount = held
    BY <2>1 DEF SupplyInv
  <2>4. failed' = FALSE
    BY <1>4 DEF Commit, End
  <2> QED BY <2>1, <2>2, <2>3, <2>4 DEF SupplyInv, Accounted
<1>5. CASE Abort
  BY <1>5 DEF Abort, End, SupplyInv, Accounted
<1>6. ASSUME NEW p \in Draft, Evict(p) PROVE SupplyInv'
  BY <1>1, <1>6 DEF Evict, frames, transaction
<1>7. ASSUME NEW p \in Draft,
             Finalize(p) \/ \E offset \in Offsets, bytes \in Chunk : Write(p, offset, bytes)
      PROVE  SupplyInv'
  BY <1>1, <1>7 DEF Write, Finalize, Executing, frames
<1>8. ASSUME NEW p \in Draft \cup {Token}, Invoke(p) PROVE SupplyInv'
  <2>1. /\ amount' = held /\ UNCHANGED <<minted, burned, doubled, held, bank, failed>>
        /\ Idle /\ ~failed
    BY <1>8 DEF Invoke, Enter, Executing
  <2>2. amount = held
    BY <2>1 DEF SupplyInv
  <2> QED BY <2>1, <2>2 DEF SupplyInv, Accounted
<1>9. ASSUME NEW p \in Draft \cup {Token}, Call(p) PROVE SupplyInv'
  <2>1. /\ amount' = held /\ UNCHANGED <<minted, burned, doubled, held, bank, failed>>
        /\ running.id # Token
    BY <1>9 DEF Call, Enter, transaction
  <2>2. ~failed
    BY <1>9 DEF Call, Alive, SupplyInv
  <2>3. amount = held
    BY <2>1, <2>2 DEF SupplyInv
  <2> QED BY <2>1, <2>2, <2>3 DEF SupplyInv, Accounted
<1>10. CASE Compute
  <2>1. UNCHANGED <<vars, held, bank, failed>> /\ ~Idle
    BY <1>10 DEF Compute, Alone, ledger, transaction, Alive
  <2>2. running' # None /\ running'.id = running.id
    <3>1. running \in Frame /\ running' = [running EXCEPT !.pc = 1 - running.pc]
      BY <1>10, <2>1 DEF Compute, MeterInv
    <3>2. running' \in Frame
      BY <1>10, <3>1, FrameGoesOn DEF Compute
    <3> QED BY <3>1, <3>2, ExecutionAssumption DEF Frame
  <2> QED BY <2>1, <2>2 DEF vars, SupplyInv, Accounted, Idle
<1>11. CASE Handle
  <2>1. /\ Next /\ UNCHANGED <<held, bank, failed>> /\ ~Idle /\ running.id = Token
        /\ running' = [running EXCEPT !.handled = TRUE]
    BY <1>11 DEF Handle, Alone, ledger, transaction, Alive
  <2>2. running' # None /\ running'.id = Token
    <3>1. running \in Frame /\ running' \in Frame
      BY <2>1, FrameGoesOn DEF MeterInv
    <3> QED BY <2>1, <3>1, ExecutionAssumption DEF Frame
  <2>3. Accounted(amount, minted, burned, doubled)'
    BY <2>1, NextAccounted DEF AmountsInv, SupplyInv
  <2> QED BY <2>1, <2>2, <2>3 DEF SupplyInv, Accounted, Idle
<1>12. CASE Return
  <2>1. held' = amount /\ UNCHANGED <<vars, bank, failed>> /\ ~Idle
    BY <1>12 DEF Return, Alive, Written, ledger, transaction
  <2>2. ~failed'
    BY <2>1 DEF SupplyInv
  <2> QED BY <2>1, <2>2 DEF vars, SupplyInv, Accounted
<1>13. CASE Fail
  <2>1. failed' = TRUE /\ Idle' /\ UNCHANGED <<vars, bank>>
    BY <1>13 DEF Fail, ledger, Idle
  <2> QED BY <2>1 DEF vars, SupplyInv, Accounted
<1> QED BY <1>2, <1>3, <1>4, <1>5, <1>6, <1>7, <1>8, <1>9, <1>10, <1>11, <1>12, <1>13
       DEF ExecNext, Machine

\* However simple_token is called, on its own or by other programs, and wherever a
\* transaction fails, the tokens in circulation are those the calls that count
\* minted, less those they burned, plus those an account transferred to itself.
THEOREM SupplyAccountedThroughout == ExecSpec => []SupplyAccounted
<1>1. SupplyInv /\ AmountsInv => SupplyAccounted
  <2>1. ASSUME SupplyInv, AmountsInv PROVE SupplyAccounted
    <3>1. \A m, d, b \in Nat : (m + d) - b = m + d - b
      OBVIOUS
    <3>2. minted \in Nat /\ burned \in Nat /\ doubled \in Nat
      BY <2>1 DEF AmountsInv, TypeOK
    <3>3. SumFunction(amount) = (minted + doubled) - burned
      BY <2>1 DEF SupplyInv, Accounted
    <3> QED BY <3>1, <3>2, <3>3 DEF SupplyAccounted
  <2> QED BY <2>1
<1> QED BY <1>1, InitSupply, NextSupply, InitMeter, NextMeter, InitAmounts, NextAmounts,
           PTL DEF ExecSpec
=============================================================================
