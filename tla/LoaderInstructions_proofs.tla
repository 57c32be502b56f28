-------------------- MODULE LoaderInstructions_proofs ---------------------
(***************************************************************************)
(* Lemmas about the instructions of the upgradeable loader, for every map  *)
(* of accounts: what each leaves of the accounts it touches, if its checks *)
(* passed.  The theorems about the loader and about the deployments that   *)
(* use it rest on them.                                                    *)
(***************************************************************************)
EXTENDS LoaderInstructions, SequenceTheorems, TLAPS

Cell == Byte \cup {Meta}

-----------------------------------------------------------------------------
(* What the helpers on account data return                                 *)

\* A function on 1..n is a sequence, stated for the three rewritings of data.
LEMMA DataDomain ==
  ASSUME NEW data \in Seq(Cell)
  PROVE  /\ Len(data) \in Nat
         /\ DOMAIN data = 1..Len(data)
         /\ \A i \in 1..Len(data) : data[i] \in Cell
  BY LenProperties, ElementOfSeq

\* set_state keeps the size of an account and the type of its cells.
LEMMA SetStateType ==
  ASSUME NEW account \in Account, NEW state \in State
  PROVE  /\ SetState(account, state) \in Account
         /\ Len(SetState(account, state).data) = Len(account.data)
         /\ SetState(account, state).state = state
         /\ SetState(account, state).lamports = account.lamports
         /\ SetState(account, state).owner = account.owner
         /\ SetState(account, state).executable = account.executable
<1> DEFINE n == Len(account.data)
           data == [i \in 1..n |-> IF i <= StateLen(state.tag) THEN Meta
                                   ELSE account.data[i]]
<1>1. account.data \in Seq(Cell)
  BY DEF Account, Cell
<1>2. n \in Nat /\ DOMAIN account.data = 1..n /\ \A i \in 1..n : account.data[i] \in Cell
  BY <1>1, DataDomain
<1>3. \A i \in 1..n : (IF i <= StateLen(state.tag) THEN Meta ELSE account.data[i]) \in Cell
  BY <1>2 DEF Cell
<1>4. data \in Seq(Cell) /\ Len(data) = n
  BY <1>2, <1>3
<1>5. SetState(account, state) = [account EXCEPT !.state = state, !.data = data]
  BY <1>2 DEF SetState
<1> QED BY <1>4, <1>5 DEF Account, Cell

\* Copying bytes over data changes neither its size nor its type.
LEMMA OverwriteType ==
  ASSUME NEW data \in Seq(Cell), NEW offset \in Nat, NEW bytes \in Seq(Cell)
  PROVE  /\ Overwrite(data, offset, bytes) \in Seq(Cell)
         /\ Len(Overwrite(data, offset, bytes)) = Len(data)
<1> DEFINE n == Len(data)
           new(i) == IF i \in offset + 1 .. offset + Len(bytes) THEN bytes[i - offset]
                     ELSE data[i]
<1>1. n \in Nat /\ DOMAIN data = 1..n /\ \A i \in 1..n : data[i] \in Cell
  BY DataDomain
<1>2. Len(bytes) \in Nat /\ \A i \in 1..Len(bytes) : bytes[i] \in Cell
  BY DataDomain
<1>3. ASSUME NEW i \in 1..n PROVE new(i) \in Cell
  <2>1. CASE i \in offset + 1 .. offset + Len(bytes)
    <3>1. i - offset \in 1..Len(bytes)
      BY <1>1, <1>2, <2>1
    <3> QED BY <1>2, <2>1, <3>1
  <2>2. CASE i \notin offset + 1 .. offset + Len(bytes)
    BY <1>1, <2>2
  <2> QED BY <2>1, <2>2
<1>4. Overwrite(data, offset, bytes) = [i \in 1..n |-> new(i)]
  BY <1>1 DEF Overwrite
<1> HIDE DEF n, new
<1>5. [i \in 1..n |-> new(i)] \in Seq(Cell) /\ Len([i \in 1..n |-> new(i)]) = n
  BY <1>1, <1>3
<1> QED BY <1>4, <1>5 DEF n

\* Zeroing the rest of an account changes neither its size nor its type.
LEMMA ZeroFromType ==
  ASSUME NEW data \in Seq(Cell), NEW offset \in Nat
  PROVE  /\ ZeroFrom(data, offset) \in Seq(Cell)
         /\ Len(ZeroFrom(data, offset)) = Len(data)
<1> DEFINE n == Len(data)
           new(i) == IF i > offset THEN Zero ELSE data[i]
<1>1. n \in Nat /\ DOMAIN data = 1..n /\ \A i \in 1..n : data[i] \in Cell
  BY DataDomain
<1>2. \A i \in 1..n : new(i) \in Cell
  BY <1>1, CellAssumption DEF Cell
<1>3. ZeroFrom(data, offset) = [i \in 1..n |-> new(i)]
  BY <1>1 DEF ZeroFrom
<1> HIDE DEF n, new
<1>4. [i \in 1..n |-> new(i)] \in Seq(Cell) /\ Len([i \in 1..n |-> new(i)]) = n
  BY <1>1, <1>2
<1> QED BY <1>3, <1>4 DEF n

\* The content of an account is a sequence of cells.
LEMMA ContentType ==
  ASSUME NEW account \in Account, NEW offset \in Nat
  PROVE  /\ Content(account, offset) \in Seq(Cell)
         /\ offset <= Len(account.data)
              => Len(Content(account, offset)) = Len(account.data) - offset
<1>1. account.data \in Seq(Cell)
  BY DEF Account, Cell
<1>2. Len(account.data) \in Nat /\ \A i \in 1..Len(account.data) : account.data[i] \in Cell
  BY <1>1, DataDomain
<1>3. offset + 1 \in Int /\ \A i \in offset + 1 .. Len(account.data) : account.data[i] \in Cell
  BY <1>2
<1>4. /\ SubSeq(account.data, offset + 1, Len(account.data)) \in Seq(Cell)
      /\ Len(SubSeq(account.data, offset + 1, Len(account.data)))
           = IF offset + 1 <= Len(account.data)
             THEN Len(account.data) - (offset + 1) + 1 ELSE 0
  BY <1>2, <1>3, SubSeqProperties
<1> QED BY <1>2, <1>4 DEF Content

\* The size constants are naturals, and no state is longer than the metadata.
LEMMA Sizes ==
  /\ BufferMeta \in Nat \ {0} /\ ProgramDataMeta \in Nat \ {0}
  /\ ProgramLen \in Nat \ {0} /\ MaxDataLen \in Nat \ {0}
BY SizeAssumption

\* The states the instructions serialise.
LEMMA StateType ==
  /\ Uninitialized \in State
  /\ \A k \in Key \cup {None} : BufferState(k) \in State
  /\ \A d \in Address : ProgramState(d) \in State
  /\ \A n \in Nat, k \in Key \cup {None} : ProgramDataState(n, k) \in State
BY DEF Uninitialized, BufferState, ProgramState, ProgramDataState, State, Tag

\* An absent account and a fresh allocation are accounts.
LEMMA AllocatedType ==
  ASSUME NEW lamports \in Nat, NEW space \in Nat
  PROVE  /\ NoAccount \in Account
         /\ Allocated(lamports, space) \in Account
         /\ Len(Allocated(lamports, space).data) = space
<1>1. << >> \in Seq(Cell)
  BY EmptySeq
<1>2. NoAccount \in Account
  BY <1>1, StateType DEF NoAccount, Account, Cell
<1>3. [i \in 1..space |-> Zero] \in Seq(Cell) /\ Len([i \in 1..space |-> Zero]) = space
  BY CellAssumption DEF Cell
<1> QED BY <1>2, <1>3, StateType DEF Allocated, NoAccount, Account, Cell

\* Rent is a positive balance for every account that has data.
LEMMA RentType ==
  ASSUME NEW n \in Nat
  PROVE  /\ Rent(n) \in Nat /\ (n > 0 => Rent(n) > 0)
         /\ AtLeastOne(Rent(n)) \in Nat \ {0}
<1> DEFINE m == RentOverhead + n
<1>1. m \in Nat /\ (n > 0 => m > 0)
  BY RentAssumption
<1>2. \A x, y \in Nat : x * y \in Nat /\ (x > 0 /\ y > 0 => x * y > 0)
  OBVIOUS
<1>3. m * RentRate \in Nat /\ (n > 0 => m * RentRate > 0)
  BY <1>1, <1>2, RentAssumption
<1> QED BY <1>3 DEF Rent, AtLeastOne
-----------------------------------------------------------------------------
(* Every instruction turns accounts into accounts                          *)

Accounts == [Address -> Account]

\* The fields of an account and of a state, for the leaves that need one.
LEMMA AccountFields ==
  ASSUME NEW account \in Account
  PROVE  /\ account.lamports \in Nat
         /\ account.owner \in {"system", "loader"}
         /\ account.executable \in BOOLEAN
         /\ account.state \in State /\ account.state.tag \in Tag
         /\ account.state.authority \in Key \cup {None}
         /\ account.state.slot \in Nat
         /\ account.data \in Seq(Cell) /\ Len(account.data) \in Nat
BY LenProperties DEF Account, State, Cell

\* Giving an account another balance or other data leaves an account.
LEMMA AccountUpdate ==
  ASSUME NEW account \in Account, NEW n \in Nat, NEW data \in Seq(Cell)
  PROVE  /\ [account EXCEPT !.lamports = n] \in Account
         /\ [account EXCEPT !.data = data] \in Account
         /\ [account EXCEPT !.executable = TRUE] \in Account
         /\ [account EXCEPT !.lamports = n, !.data = data] \in Account
BY DEF Account, Cell

\* A debit that is covered and a credit leave a balance.
LEMMA Balances ==
  \A x, y \in Nat : x + y \in Nat /\ (x >= y => x - y \in Nat)
OBVIOUS

\* CreateAccount leaves well-typed accounts: the payer had the deposit.
LEMMA CreateAccountType ==
  ASSUME NEW as \in Accounts, NEW by, NEW from \in Address, NEW to \in Address,
         NEW n \in Nat, NEW space \in Nat,
         CanCreateAccount(as, by, from, to, n)
  PROVE  AfterCreateAccount(as, from, to, n, space) \in Accounts
<1>1. as[from].lamports \in Nat
  BY AccountFields DEF Accounts
<1>2. as[from].lamports >= n
  BY DEF CanCreateAccount
<1>3. as[from].lamports - n \in Nat
  BY <1>1, <1>2, Balances
<1>4. [as[from] EXCEPT !.lamports = as[from].lamports - n] \in Account
  BY <1>3, EmptySeq, AccountUpdate DEF Accounts
<1>5. Allocated(n, space) \in Account
  BY AllocatedType
<1> QED BY <1>4, <1>5 DEF AfterCreateAccount, Accounts

\* A transfer leaves well-typed accounts: the sender had the amount.
LEMMA TransferType ==
  ASSUME NEW as \in Accounts, NEW by, NEW from \in Address, NEW to \in Address,
         NEW n \in Nat, CanTransfer(as, by, from, to, n)
  PROVE  AfterTransfer(as, from, to, n) \in Accounts
<1>1. as[from].lamports \in Nat /\ as[to].lamports \in Nat
  BY AccountFields DEF Accounts
<1>2. as[from].lamports >= n /\ from # to
  BY DEF CanTransfer
<1>3. as[from].lamports - n \in Nat /\ as[to].lamports + n \in Nat
  BY <1>1, <1>2, Balances
<1>4. /\ [as[from] EXCEPT !.lamports = as[from].lamports - n] \in Account
      /\ [as[to] EXCEPT !.lamports = as[to].lamports + n] \in Account
  BY <1>3, EmptySeq, AccountUpdate DEF Accounts
<1> QED BY <1>2, <1>4 DEF AfterTransfer, Accounts

\* InitializeBuffer leaves well-typed accounts.
LEMMA InitializeBufferType ==
  ASSUME NEW as \in Accounts, NEW buffer \in Address, NEW k \in Key
  PROVE  AfterInitializeBuffer(as, buffer, k) \in Accounts
BY SetStateType, StateType DEF AfterInitializeBuffer, Accounts

\* Write leaves well-typed accounts.
LEMMA WriteType ==
  ASSUME NEW as \in Accounts, NEW buffer \in Address, NEW offset \in Nat,
         NEW bytes \in Seq(Byte)
  PROVE  AfterWrite(as, buffer, offset, bytes) \in Accounts
<1>1. bytes \in Seq(Cell)
  BY SeqMonotonic DEF Cell
<1>2. as[buffer] \in Account /\ as[buffer].data \in Seq(Cell) /\ BufferMeta + offset \in Nat
  <2>1. as[buffer] \in Account
    BY DEF Accounts
  <2>2. as[buffer].data \in Seq(Cell)
    BY <2>1, AccountFields
  <2>3. BufferMeta + offset \in Nat
    BY Sizes
  <2> QED BY <2>1, <2>2, <2>3
<1>3. Overwrite(as[buffer].data, BufferMeta + offset, bytes) \in Seq(Cell)
  BY <1>1, <1>2, OverwriteType
<1>4. [as[buffer] EXCEPT !.data = Overwrite(as[buffer].data, BufferMeta + offset, bytes)]
        \in Account
  BY <1>2, <1>3, AccountUpdate
<1> QED BY <1>4 DEF AfterWrite, Accounts

\* What the deployment's checks imply of the four accounts it touches.
LEMMA DeployAccounts ==
  ASSUME NEW as \in Accounts, NEW by, NEW payer \in Address, NEW d \in Address,
         NEW p \in Program, NEW buffer \in Address, NEW k \in Key, NEW maxLen \in Nat,
         CanDeploy(as, by, payer, d, p, buffer, k, maxLen)
  PROVE  /\ p \in Address
         /\ payer # buffer /\ payer # d /\ payer # p
         /\ buffer # d /\ buffer # p /\ d # p
         /\ PayerLeft(as, payer, buffer, maxLen) \in Nat
         /\ ProgramDataCost(maxLen) \in Nat \ {0}
<1>1. d = Pda[p] /\ payer # d /\ payer # buffer
  BY DEF CanDeploy
<1>2. p \in Address /\ d # p
  BY <1>1, PdaAssumption
<1>3. as[p].data # << >> /\ as[p].state.tag = "Uninitialized"
  BY DEF CanDeploy, ProgramReady, Holds
<1>4. as[buffer].data # << >> /\ as[buffer].state.tag = "Buffer"
  BY DEF CanDeploy, BufferReady, Holds
<1>5. as[payer].data = << >>
  BY DEF CanDeploy, Pays
<1>6. as[d].data = << >>
  BY DEF CanDeploy, NoAccount
<1>7. payer # p /\ buffer # d /\ buffer # p
  BY <1>3, <1>4, <1>5, <1>6
<1>8. as[payer].lamports \in Nat /\ as[buffer].lamports \in Nat
  BY AccountFields DEF Accounts
<1>9. ProgramDataMeta + maxLen \in Nat
  BY Sizes
<1>10. ProgramDataCost(maxLen) \in Nat \ {0}
  BY <1>9, RentType DEF ProgramDataCost
<1>11. as[payer].lamports + (IF Predrain THEN as[buffer].lamports ELSE 0)
         >= ProgramDataCost(maxLen)
  BY DEF CanDeploy, Pays
<1>12. \A x, y, z \in Nat : (x + (IF Predrain THEN y ELSE 0) >= z) => x + y - z \in Nat
  BY RentAssumption
<1>13. PayerLeft(as, payer, buffer, maxLen) \in Nat
  BY <1>8, <1>10, <1>11, <1>12 DEF PayerLeft
<1> QED BY <1>1, <1>2, <1>7, <1>10, <1>13

\* The programdata a deployment makes, field by field.
LEMMA DeployedProgramDataType ==
  ASSUME NEW as \in Accounts, NEW buffer \in Address, NEW k \in Key,
         NEW maxLen \in Nat, NEW t \in Nat
  PROVE  /\ DeployedProgramData(as, buffer, k, maxLen, t) \in Account
         /\ DeployedProgramData(as, buffer, k, maxLen, t).lamports = ProgramDataCost(maxLen)
         /\ DeployedProgramData(as, buffer, k, maxLen, t).state = ProgramDataState(t, k)
         /\ DeployedProgramData(as, buffer, k, maxLen, t).owner = "loader"
         /\ DeployedProgramData(as, buffer, k, maxLen, t).executable = FALSE
<1> DEFINE space == ProgramDataMeta + maxLen
           cost == ProgramDataCost(maxLen)
           old == Allocated(cost, space)
           state == ProgramDataState(t, k)
           fresh == SetState(old, state)
           code == BufferContent(as[buffer])
<1>1. space \in Nat /\ cost \in Nat
  BY Sizes, RentType DEF ProgramDataCost
<1> HIDE DEF space, cost
<1>2. old \in Account /\ state \in State
  BY <1>1, AllocatedType, StateType
<1>3. old.lamports = cost /\ old.owner = "loader" /\ old.executable = FALSE
  BY DEF Allocated, NoAccount
<1> HIDE DEF old, state
<1>4. /\ fresh \in Account /\ fresh.lamports = cost /\ fresh.state = state
      /\ fresh.owner = "loader" /\ fresh.executable = FALSE
  BY <1>2, <1>3, SetStateType
<1> HIDE DEF fresh
<1>5. code \in Seq(Cell)
  BY Sizes, ContentType DEF BufferContent, Accounts
<1> HIDE DEF code
<1>6. Overwrite(fresh.data, ProgramDataMeta, code) \in Seq(Cell)
  BY <1>4, <1>5, Sizes, OverwriteType, AccountFields
<1>7. [fresh EXCEPT !.data = Overwrite(fresh.data, ProgramDataMeta, code)] \in Account
  BY <1>4, <1>6, EmptySeq, AccountUpdate
<1>8. /\ [fresh EXCEPT !.data = Overwrite(fresh.data, ProgramDataMeta, code)].lamports = cost
      /\ [fresh EXCEPT !.data = Overwrite(fresh.data, ProgramDataMeta, code)].state = state
      /\ [fresh EXCEPT !.data = Overwrite(fresh.data, ProgramDataMeta, code)].owner = "loader"
      /\ [fresh EXCEPT !.data = Overwrite(fresh.data, ProgramDataMeta, code)].executable = FALSE
  BY <1>4 DEF Account
<1>9. DeployedProgramData(as, buffer, k, maxLen, t)
        = [fresh EXCEPT !.data = Overwrite(fresh.data, ProgramDataMeta, code)]
  BY DEF DeployedProgramData, fresh, code, old, state, cost, space
<1> QED BY <1>7, <1>8, <1>9 DEF cost, state

\* The map a deployment leaves, account by account.
Deployed(as, new, payer, d, p, buffer, k, maxLen, t) ==
  /\ new[payer] = [as[payer] EXCEPT !.lamports = PayerLeft(as, payer, buffer, maxLen)]
  /\ new[buffer] = [as[buffer] EXCEPT !.lamports = 0]
  /\ new[d] = DeployedProgramData(as, buffer, k, maxLen, t)
  /\ new[p] = [SetState(as[p], ProgramState(d)) EXCEPT !.executable = TRUE]
  /\ \A a \in Address \ {payer, buffer, d, p} : new[a] = as[a]

\* A deployment whose checks passed leaves well-typed accounts.
LEMMA DeployEffect ==
  ASSUME NEW as \in Accounts, NEW by, NEW payer \in Address, NEW d \in Address,
         NEW p \in Program, NEW buffer \in Address, NEW k \in Key, NEW maxLen \in Nat,
         NEW t \in Nat, CanDeploy(as, by, payer, d, p, buffer, k, maxLen)
  PROVE  LET new == AfterDeploy(as, payer, d, p, buffer, k, maxLen, t)
         IN new \in Accounts /\ Deployed(as, new, payer, d, p, buffer, k, maxLen, t)
<1>1. /\ p \in Address /\ payer # buffer /\ payer # d /\ payer # p
      /\ buffer # d /\ buffer # p /\ d # p
      /\ PayerLeft(as, payer, buffer, maxLen) \in Nat
  BY DeployAccounts
<1> DEFINE new == AfterDeploy(as, payer, d, p, buffer, k, maxLen, t)
           paid == [as[payer] EXCEPT !.lamports = PayerLeft(as, payer, buffer, maxLen)]
           drained == [as[buffer] EXCEPT !.lamports = 0]
           installed == DeployedProgramData(as, buffer, k, maxLen, t)
           program == [SetState(as[p], ProgramState(d)) EXCEPT !.executable = TRUE]
<1>2. new = [as EXCEPT ![payer] = paid, ![buffer] = drained, ![d] = installed, ![p] = program]
  BY <1>1 DEF AfterDeploy, Accounts
<1>3. paid \in Account /\ drained \in Account
  BY <1>1, EmptySeq, AccountUpdate DEF Accounts
<1>4. installed \in Account
  BY DeployedProgramDataType
<1>5. program \in Account
  <2>1. SetState(as[p], ProgramState(d)) \in Account
    BY <1>1, SetStateType, StateType DEF Accounts
  <2> QED BY <2>1, EmptySeq, AccountUpdate
<1> HIDE DEF paid, drained, installed, program, new
<1>6. new \in Accounts
  BY <1>1, <1>2, <1>3, <1>4, <1>5 DEF Accounts
<1>7. /\ new[payer] = paid /\ new[buffer] = drained /\ new[d] = installed
      /\ new[p] = program
      /\ \A a \in Address \ {payer, buffer, d, p} : new[a] = as[a]
  BY <1>1, <1>2 DEF Accounts
<1>8. Deployed(as, new, payer, d, p, buffer, k, maxLen, t)
  BY <1>7 DEF Deployed, paid, drained, installed, program
<1> QED BY <1>6, <1>8 DEF new

\* What the upgrade's checks imply of the four accounts it touches.
LEMMA UpgradeAccounts ==
  ASSUME NEW as \in Accounts, NEW by, NEW d \in Address, NEW p \in Program,
         NEW buffer \in Address, NEW spill \in Address, NEW k \in Key,
         CanUpgrade(as, by, d, p, buffer, spill, k)
  PROVE  /\ buffer # d /\ spill # d /\ spill # buffer
         /\ Surplus(as, d, buffer) \in Nat
         /\ as[spill].lamports + Surplus(as, d, buffer) \in Nat
<1>1. buffer # d /\ spill # d /\ spill # buffer /\ Surplus(as, d, buffer) >= 0
  BY DEF CanUpgrade
<1>2. /\ as[d].lamports \in Nat /\ as[buffer].lamports \in Nat
      /\ as[spill].lamports \in Nat /\ Len(as[d].data) \in Nat
  BY AccountFields DEF Accounts
<1>3. BalanceRequired(as[d]) \in Nat
  BY <1>2, RentType DEF BalanceRequired
<1>4. \A x, y, z, u \in Nat : x + y - z >= 0 =>
        x + y - z \in Nat /\ u + (x + y - z) \in Nat
  OBVIOUS
<1> QED BY <1>1, <1>2, <1>3, <1>4 DEF Surplus

\* The programdata an upgrade leaves, field by field.
LEMMA UpgradedProgramDataType ==
  ASSUME NEW as \in Accounts, NEW d \in Address, NEW buffer \in Address, NEW k \in Key,
         NEW t \in Nat
  PROVE  LET new == UpgradedProgramData(as, d, buffer, k, t)
         IN /\ new \in Account
            /\ new.lamports = BalanceRequired(as[d])
            /\ new.state = ProgramDataState(t, k)
            /\ new.owner = as[d].owner
            /\ new.executable = as[d].executable
            /\ Len(new.data) = Len(as[d].data)
<1> DEFINE code == BufferContent(as[buffer])
           state == ProgramDataState(t, k)
           set == SetState(as[d], state)
           data == ZeroFrom(Overwrite(set.data, ProgramDataMeta, code),
                            ProgramDataMeta + Len(code))
           balance == BalanceRequired(set)
<1>1. as[d] \in Account /\ as[buffer] \in Account /\ state \in State
  BY StateType DEF Accounts
<1> HIDE DEF state
<1>2. /\ set \in Account /\ Len(set.data) = Len(as[d].data) /\ set.state = state
      /\ set.owner = as[d].owner /\ set.executable = as[d].executable
  BY <1>1, SetStateType
<1> HIDE DEF set
<1>3. code \in Seq(Cell) /\ ProgramDataMeta + Len(code) \in Nat
  <2>1. code \in Seq(Cell)
    BY <1>1, Sizes, ContentType DEF BufferContent
  <2>2. Len(code) \in Nat
    BY <2>1, DataDomain
  <2>3. ProgramDataMeta \in Nat
    BY Sizes
  <2> QED BY <2>1, <2>2, <2>3, Balances
<1> HIDE DEF code
<1>4. set.data \in Seq(Cell)
  BY <1>2, AccountFields
<1>5. /\ Overwrite(set.data, ProgramDataMeta, code) \in Seq(Cell)
      /\ Len(Overwrite(set.data, ProgramDataMeta, code)) = Len(set.data)
  BY <1>3, <1>4, Sizes, OverwriteType
<1>6. data \in Seq(Cell) /\ Len(data) = Len(set.data)
  BY <1>3, <1>5, ZeroFromType
<1>7. balance \in Nat /\ balance = BalanceRequired(as[d])
  <2>1. Len(set.data) \in Nat
    BY <1>4, DataDomain
  <2> QED BY <1>2, <2>1, RentType DEF BalanceRequired
<1>8. UpgradedProgramData(as, d, buffer, k, t)
        = [set EXCEPT !.lamports = balance, !.data = data]
  BY DEF UpgradedProgramData, set, state, code
<1> HIDE DEF balance, data
<1>9. [set EXCEPT !.lamports = balance, !.data = data] \in Account
  BY <1>2, <1>6, <1>7, AccountUpdate
<1>10. LET new == [set EXCEPT !.lamports = balance, !.data = data]
       IN /\ new.lamports = balance /\ new.state = set.state /\ new.data = data
          /\ new.owner = set.owner /\ new.executable = set.executable
  BY <1>2 DEF Account
<1> QED BY <1>2, <1>6, <1>7, <1>8, <1>9, <1>10 DEF state

\* The map an upgrade leaves, account by account.
Upgraded(as, new, d, buffer, spill, k, t) ==
  /\ new[spill] = [as[spill] EXCEPT !.lamports =
                     as[spill].lamports + Surplus(as, d, buffer)]
  /\ new[buffer] = [as[buffer] EXCEPT !.lamports = 0]
  /\ new[d] = UpgradedProgramData(as, d, buffer, k, t)
  /\ \A a \in Address \ {spill, buffer, d} : new[a] = as[a]

\* An upgrade whose checks passed leaves well-typed accounts.
LEMMA UpgradeEffect ==
  ASSUME NEW as \in Accounts, NEW by, NEW d \in Address, NEW p \in Program,
         NEW buffer \in Address, NEW spill \in Address, NEW k \in Key, NEW t \in Nat,
         CanUpgrade(as, by, d, p, buffer, spill, k)
  PROVE  LET new == AfterUpgrade(as, d, buffer, spill, k, t)
         IN new \in Accounts /\ Upgraded(as, new, d, buffer, spill, k, t)
<1> DEFINE new == AfterUpgrade(as, d, buffer, spill, k, t)
           credited == [as[spill] EXCEPT !.lamports =
                          as[spill].lamports + Surplus(as, d, buffer)]
           drained == [as[buffer] EXCEPT !.lamports = 0]
           installed == UpgradedProgramData(as, d, buffer, k, t)
<1>1. /\ buffer # d /\ spill # d /\ spill # buffer
      /\ as[spill].lamports + Surplus(as, d, buffer) \in Nat
  BY UpgradeAccounts
<1>2. new = [as EXCEPT ![spill] = credited, ![buffer] = drained, ![d] = installed]
  BY <1>1 DEF AfterUpgrade, Accounts
<1>3. credited \in Account /\ drained \in Account
  BY <1>1, EmptySeq, AccountUpdate DEF Accounts
<1>4. installed \in Account
  BY UpgradedProgramDataType
<1> HIDE DEF credited, drained, installed, new
<1>5. new \in Accounts
  BY <1>1, <1>2, <1>3, <1>4 DEF Accounts
<1>6. /\ new[spill] = credited /\ new[buffer] = drained /\ new[d] = installed
      /\ \A a \in Address \ {spill, buffer, d} : new[a] = as[a]
  BY <1>1, <1>2 DEF Accounts
<1>7. Upgraded(as, new, d, buffer, spill, k, t)
  BY <1>6 DEF Upgraded, credited, drained, installed
<1> QED BY <1>5, <1>7 DEF new

\* The map a change of authority leaves.
LEMMA SetAuthorityEffect ==
  ASSUME NEW as \in Accounts, NEW a \in Address, NEW new \in Key \cup {None}
  PROVE  /\ AfterSetAuthority(as, a, new) \in Accounts
         /\ AfterSetAuthority(as, a, new)[a].state =
              IF as[a].state.tag = "Buffer" THEN BufferState(new)
              ELSE ProgramDataState(as[a].state.slot, new)
         /\ AfterSetAuthority(as, a, new)[a].lamports = as[a].lamports
         /\ AfterSetAuthority(as, a, new)[a].owner = as[a].owner
         /\ AfterSetAuthority(as, a, new)[a].executable = as[a].executable
         /\ \A x \in Address \ {a} : AfterSetAuthority(as, a, new)[x] = as[x]
<1> DEFINE state == IF as[a].state.tag = "Buffer" THEN BufferState(new)
                    ELSE ProgramDataState(as[a].state.slot, new)
<1>1. as[a] \in Account /\ as[a].state.slot \in Nat
  BY AccountFields DEF Accounts
<1>2. state \in State
  BY <1>1, StateType
<1>3. AfterSetAuthority(as, a, new) = [as EXCEPT ![a] = SetState(as[a], state)]
  BY DEF AfterSetAuthority, Accounts
<1> HIDE DEF state
<1>4. /\ SetState(as[a], state) \in Account
      /\ SetState(as[a], state).state = state
      /\ SetState(as[a], state).lamports = as[a].lamports
      /\ SetState(as[a], state).owner = as[a].owner
      /\ SetState(as[a], state).executable = as[a].executable
  BY <1>1, <1>2, SetStateType
<1> QED BY <1>3, <1>4 DEF Accounts, state

\* The map a closing leaves, account by account.
Closed(as, new, a, r) ==
  /\ a # r
  /\ new[r] = [as[r] EXCEPT !.lamports = as[r].lamports + as[a].lamports]
  /\ new[a].state = Uninitialized /\ new[a].lamports = 0
  /\ new[a].owner = as[a].owner /\ new[a].executable = as[a].executable
  /\ \A x \in Address \ {a, r} : new[x] = as[x]

\* A closing whose checks passed leaves well-typed accounts.
LEMMA CloseEffect ==
  ASSUME NEW as \in Accounts, NEW by, NEW a \in Address, NEW r \in Address,
         NEW k, NEW p, CanClose(as, by, a, r, k, p)
  PROVE  /\ AfterClose(as, a, r) \in Accounts
         /\ Closed(as, AfterClose(as, a, r), a, r)
<1> DEFINE new == AfterClose(as, a, r)
           credited == [as[r] EXCEPT !.lamports = as[r].lamports + as[a].lamports]
           closed == [SetState(as[a], Uninitialized) EXCEPT !.lamports = 0]
<1>1. a # r
  BY DEF CanClose
<1>2. as[r].lamports + as[a].lamports \in Nat
  BY AccountFields, Balances DEF Accounts
<1>3. credited \in Account
  BY <1>2, EmptySeq, AccountUpdate DEF Accounts
<1>4. SetState(as[a], Uninitialized) \in Account
  BY SetStateType, StateType DEF Accounts
<1>5. closed \in Account
  BY <1>4, EmptySeq, AccountUpdate
<1>6. /\ closed.state = Uninitialized /\ closed.lamports = 0
      /\ closed.owner = as[a].owner /\ closed.executable = as[a].executable
  <2>1. as[a] \in Account
    BY DEF Accounts
  <2>2. /\ closed.state = SetState(as[a], Uninitialized).state /\ closed.lamports = 0
        /\ closed.owner = SetState(as[a], Uninitialized).owner
        /\ closed.executable = SetState(as[a], Uninitialized).executable
    BY <1>4 DEF Account
  <2> QED BY <2>1, <2>2, SetStateType, StateType
<1>7. new = [as EXCEPT ![r] = credited, ![a] = closed]
  BY <1>1 DEF AfterClose, Accounts
<1> HIDE DEF closed
<1>8. new \in Accounts
  BY <1>3, <1>5, <1>7 DEF Accounts
<1>9. /\ new[r] = credited /\ new[a] = closed
      /\ \A x \in Address \ {a, r} : new[x] = as[x]
  BY <1>1, <1>7 DEF Accounts
<1> HIDE DEF new
<1>10. Closed(as, new, a, r)
  BY <1>1, <1>6, <1>9 DEF Closed
<1> QED BY <1>8, <1>10 DEF new

\* Dropping the accounts without lamports keeps the types.
LEMMA PurgeType ==
  ASSUME NEW as \in Accounts
  PROVE  Purge(as) \in Accounts
<1>1. NoAccount \in Account
  BY AllocatedType
<1> QED BY <1>1 DEF Purge, Accounts

\* What an address without an account reads as.
LEMMA EmptyAccount ==
  /\ Uninitialized.tag = "Uninitialized"
  /\ NoAccount.owner = "system" /\ NoAccount.state = Uninitialized
  /\ NoAccount.data = << >> /\ NoAccount.lamports = 0 /\ NoAccount.executable = FALSE
BY DEF Uninitialized, NoAccount

-----------------------------------------------------------------------------
(* The cells of account data                                               *)

\* What set_state leaves in each cell.
LEMMA SetStateCells ==
  ASSUME NEW account \in Account, NEW state \in State,
         NEW i \in 1..Len(account.data)
  PROVE  SetState(account, state).data[i]
           = IF i <= StateLen(state.tag) THEN Meta ELSE account.data[i]
<1>1. account.data \in Seq(Cell)
  BY AccountFields
<1>2. DOMAIN account.data = 1..Len(account.data)
  BY <1>1, DataDomain
<1>3. SetState(account, state).data
        = [x \in DOMAIN account.data |->
             IF x <= StateLen(state.tag) THEN Meta ELSE account.data[x]]
  BY DEF SetState, Account
<1> QED BY <1>2, <1>3

\* A cell of the content is that many cells behind the offset.
LEMMA ContentCells ==
  ASSUME NEW account \in Account, NEW offset \in Nat, offset <= Len(account.data),
         NEW i \in 1 .. Len(account.data) - offset
  PROVE  Content(account, offset)[i] = account.data[offset + i]
<1> DEFINE n == Len(account.data)
<1>1. account.data \in Seq(Cell) /\ n \in Nat
  BY AccountFields
<1>2. \A x \in offset + 1 .. n : account.data[x] \in Cell
  <2>1. \A x \in 1..n : account.data[x] \in Cell
    BY <1>1, DataDomain
  <2> QED BY <1>1, <2>1
<1>3. offset + 1 \in Int /\ n \in Int
  BY <1>1
<1>4. \A x \in 1 .. n - (offset + 1) + 1 :
        SubSeq(account.data, offset + 1, n)[x] = account.data[(offset + 1) + x - 1]
  BY <1>2, <1>3, SubSeqProperties
<1>5. i \in 1 .. n - (offset + 1) + 1 /\ (offset + 1) + i - 1 = offset + i
  BY <1>1
<1> QED BY <1>4, <1>5 DEF Content

\* The serialised states differ in size, and none is longer than a programdata's.
LEMMA StateLens ==
  ASSUME NEW tag \in Tag
  PROVE  /\ StateLen(tag) \in Nat \ {0} /\ StateLen(tag) <= ProgramDataMeta
         /\ StateLen("Buffer") = BufferMeta /\ StateLen("Program") = ProgramLen
         /\ StateLen("ProgramData") = ProgramDataMeta
<1>1. /\ StateLen("Uninitialized") = 1 /\ StateLen("Buffer") = BufferMeta
      /\ StateLen("Program") = ProgramLen /\ StateLen("ProgramData") = ProgramDataMeta
  BY DEF StateLen
<1> QED BY <1>1, SizeAssumption, Sizes DEF Tag

-----------------------------------------------------------------------------
(* The cells of a deployed programdata                                     *)

\* The cells of a programdata in which code is installed, whatever was there before.
HoldsCode(data, code) ==
  /\ ProgramDataMeta + Len(code) <= Len(data)
  /\ \A i \in 1..Len(data) :
       data[i] = IF i <= ProgramDataMeta THEN Meta
                 ELSE IF i <= ProgramDataMeta + Len(code) THEN code[i - ProgramDataMeta]
                 ELSE Zero

\* Behind the metadata such a programdata has the code, and then zeros.
LEMMA CodeContent ==
  ASSUME NEW account \in Account, NEW code, Len(code) \in Nat, HoldsCode(account.data, code)
  PROVE  LET n == Len(account.data) - ProgramDataMeta
         IN /\ n \in Nat /\ Len(code) <= n /\ Len(ProgramDataContent(account)) = n
            /\ \A i \in 1..n : ProgramDataContent(account)[i]
                                = IF i <= Len(code) THEN code[i] ELSE Zero
<1> DEFINE n == Len(account.data)
           content == Content(account, ProgramDataMeta)
<1>1. n \in Nat /\ ProgramDataMeta \in Nat
  BY AccountFields, Sizes
<1>2. ProgramDataMeta + Len(code) <= n
  BY DEF HoldsCode
<1>3. ProgramDataMeta <= n /\ n - ProgramDataMeta \in Nat
  BY <1>1, <1>2
<1>4. Len(content) = n - ProgramDataMeta
  BY <1>1, <1>3, ContentType
<1>5. ASSUME NEW i \in 1 .. n - ProgramDataMeta
      PROVE  content[i] = IF i <= Len(code) THEN code[i] ELSE Zero
  <2>1. content[i] = account.data[ProgramDataMeta + i]
    BY <1>1, <1>3, ContentCells
  <2>2. /\ ProgramDataMeta + i \in 1..n /\ ~(ProgramDataMeta + i <= ProgramDataMeta)
        /\ (ProgramDataMeta + i <= ProgramDataMeta + Len(code) <=> i <= Len(code))
        /\ (ProgramDataMeta + i) - ProgramDataMeta = i
    BY <1>1
  <2> QED BY <2>1, <2>2 DEF HoldsCode
<1>6. Len(code) <= n - ProgramDataMeta
  BY <1>1, <1>2
<1> QED BY <1>3, <1>4, <1>5, <1>6 DEF ProgramDataContent

\* Sums and differences of sizes.
LEMMA SizeArithmetic ==
  /\ \A x, y \in Nat : x > y => y <= x /\ x - y > 0 /\ x - y \in Nat
  /\ \A x, y, z \in Nat : y <= z => x + y \in Nat /\ x <= x + y /\ x + y <= x + z
OBVIOUS

\* Writing code behind the metadata of data that holds a state and zeros.
LEMMA OverwriteHoldsCode ==
  ASSUME NEW data \in Seq(Cell), NEW code \in Seq(Cell),
         ProgramDataMeta + Len(code) <= Len(data),
         \A i \in 1..Len(data) : /\ i <= ProgramDataMeta => data[i] = Meta
                                 /\ i > ProgramDataMeta + Len(code) => data[i] = Zero
  PROVE  HoldsCode(Overwrite(data, ProgramDataMeta, code), code)
<1> DEFINE new == Overwrite(data, ProgramDataMeta, code)
<1>1. Len(new) = Len(data) /\ ProgramDataMeta \in Nat
  BY Sizes, OverwriteType
<1>2. Len(code) \in Nat /\ Len(data) \in Nat
  BY DataDomain
<1>3. ASSUME NEW i \in 1..Len(data)
      PROVE  new[i] = IF i <= ProgramDataMeta THEN Meta
                      ELSE IF i <= ProgramDataMeta + Len(code) THEN code[i - ProgramDataMeta]
                      ELSE Zero
  <2>1. new[i] = IF i \in ProgramDataMeta + 1 .. ProgramDataMeta + Len(code)
                 THEN code[i - ProgramDataMeta] ELSE data[i]
    BY DataDomain DEF Overwrite
  <2>2. i \in ProgramDataMeta + 1 .. ProgramDataMeta + Len(code)
          <=> ~(i <= ProgramDataMeta) /\ i <= ProgramDataMeta + Len(code)
    BY <1>1, <1>2
  <2>3. i > ProgramDataMeta + Len(code) <=> ~(i <= ProgramDataMeta + Len(code))
    BY <1>1, <1>2
  <2> HIDE DEF new
  <2>4. CASE i <= ProgramDataMeta
    BY <2>1, <2>2, <2>4
  <2>5. CASE ~(i <= ProgramDataMeta)
    BY <2>1, <2>2, <2>3, <2>5
  <2> QED BY <2>4, <2>5
<1> HIDE DEF new
<1>4. HoldsCode(new, code)
  BY <1>1, <1>3 DEF HoldsCode
<1> QED BY <1>4 DEF new

\* The code of a deployment or upgrade: the content of a buffer that loads.
LEMMA BufferCode ==
  ASSUME NEW as \in Accounts, NEW b \in Address, NEW k, NEW by, BufferReady(as[b], k, by)
  PROVE  /\ BufferContent(as[b]) \in Image /\ BufferContent(as[b]) \in Seq(Cell)
         /\ Len(BufferContent(as[b])) \in Nat /\ Len(BufferContent(as[b])) > 0
<1>1. as[b] \in Account /\ Len(as[b].data) > BufferMeta
  BY DEF Accounts, BufferReady
<1>2. BufferMeta \in Nat /\ Len(as[b].data) \in Nat
  BY <1>1, Sizes, AccountFields
<1>3. /\ BufferMeta <= Len(as[b].data) /\ Len(as[b].data) - BufferMeta > 0
      /\ Len(as[b].data) - BufferMeta \in Nat
  BY <1>1, <1>2, SizeArithmetic
<1>4. /\ BufferContent(as[b]) \in Seq(Cell)
      /\ Len(BufferContent(as[b])) = Len(as[b].data) - BufferMeta
  BY <1>1, <1>2, <1>3, ContentType DEF BufferContent
<1> QED BY <1>3, <1>4 DEF BufferReady, Loads

\* A deployment puts the state, the buffer's content and zeros in the programdata.
LEMMA DeployedCells ==
  ASSUME NEW as \in Accounts, NEW b \in Address, NEW k \in Key, NEW maxLen \in Nat,
         NEW t \in Nat, BufferContent(as[b]) \in Seq(Cell),
         maxLen >= Len(BufferContent(as[b]))
  PROVE  LET new == DeployedProgramData(as, b, k, maxLen, t)
         IN /\ HoldsCode(new.data, BufferContent(as[b]))
            /\ Len(new.data) = ProgramDataMeta + maxLen
<1> DEFINE space == ProgramDataMeta + maxLen
           cost == ProgramDataCost(maxLen)
           old == Allocated(cost, space)
           state == ProgramDataState(t, k)
           fresh == SetState(old, state)
           code == BufferContent(as[b])
           data == Overwrite(fresh.data, ProgramDataMeta, code)
<1>1. space \in Nat /\ cost \in Nat /\ ProgramDataMeta \in Nat
  BY Sizes, RentType DEF ProgramDataCost
<1>2. old \in Account /\ Len(old.data) = space /\ \A i \in 1..space : old.data[i] = Zero
  <2> HIDE DEF cost, space
  <2>1. old.data = [i \in 1..space |-> Zero]
    BY DEF Allocated, NoAccount
  <2> QED BY <1>1, <2>1, AllocatedType
<1>3. state \in State /\ StateLen(state.tag) = ProgramDataMeta
  BY StateType, StateLens DEF ProgramDataState, Uninitialized, Tag
<1>4. Len(code) \in Nat /\ ProgramDataMeta + Len(code) <= space
  <2>1. Len(code) \in Nat /\ Len(code) <= maxLen
    <3>1. Len(code) \in Nat
      BY DataDomain
    <3>2. \A x, y \in Nat : x >= y => y <= x
      OBVIOUS
    <3> QED BY <3>1, <3>2
  <2> HIDE DEF code
  <2> QED BY <1>1, <2>1, SizeArithmetic
<1> HIDE DEF space, old, state, code
<1>5. fresh \in Account /\ Len(fresh.data) = space
  BY <1>2, <1>3, SetStateType
<1>6. fresh.data \in Seq(Cell)
  BY <1>5, AccountFields
<1>7. \A i \in 1..space : fresh.data[i] = IF i <= ProgramDataMeta THEN Meta ELSE Zero
  BY <1>2, <1>3, SetStateCells
<1> HIDE DEF fresh
<1>8. HoldsCode(data, code) /\ Len(data) = space
  <2>1. \A i \in 1..space : /\ i <= ProgramDataMeta => fresh.data[i] = Meta
                            /\ i > ProgramDataMeta + Len(code) => fresh.data[i] = Zero
    BY <1>1, <1>4, <1>7
  <2>2. code \in Seq(Cell)
    BY DEF code
  <2> QED BY <1>1, <1>4, <1>5, <1>6, <2>1, <2>2, OverwriteHoldsCode, OverwriteType
<1> HIDE DEF data
<1>9. DeployedProgramData(as, b, k, maxLen, t) = [fresh EXCEPT !.data = data]
  BY DEF DeployedProgramData, fresh, code, old, state, cost, space, data
<1>10. DeployedProgramData(as, b, k, maxLen, t).data = data
  BY <1>5, <1>9 DEF Account
<1> QED BY <1>8, <1>10 DEF code, space
=============================================================================
