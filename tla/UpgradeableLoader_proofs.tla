---------------------- MODULE UpgradeableLoader_proofs ----------------------
(***************************************************************************)
(* Theorems about the upgradeable loader, for every ledger, caller and     *)
(* size: its types, what the authorities protect, the lamports, the        *)
(* programs and their cached code, and that the loader implements the      *)
(* registry of ProgramRegistry.                                            *)
(***************************************************************************)
EXTENDS UpgradeableLoader, LoaderInstructions_proofs, Sums_proofs

-----------------------------------------------------------------------------
(* Type correctness                                                        *)

\* The arguments Next enumerates.
LEMMA Arguments ==
  /\ Program \subseteq Address
  /\ Authority \subseteq Key
  /\ Lengths \subseteq Nat /\ Deposit \subseteq Nat /\ Spaces \subseteq Nat
  /\ Gift \subseteq Nat /\ MaxInstructions \in Nat
  /\ Chunk \subseteq Seq(Byte)
  /\ Image \subseteq Seq(Byte)
  /\ \A s \in SignerSets : s \in SUBSET Key /\ s # {}
BY PdaAssumption, CallerAssumption, BoundAssumption, CellAssumption

\* The ledger starts well-typed.
LEMMA InitType == Init => TypeOK
<1> SUFFICES ASSUME Init PROVE TypeOK
  OBVIOUS
<1>1. bank \in [Address -> Account] /\ acct \in [Address -> Account]
  BY SupplyAssumption DEF Init
<1>2. signers \in SUBSET Key /\ steps \in 0..MaxInstructions /\ slot \in Nat
  BY Arguments DEF Init
<1>3. executors \in [Program -> Seq(Byte) \cup {None}] /\ loaded = executors
  BY DEF Init
<1> QED BY <1>1, <1>2, <1>3 DEF TypeOK

\* The executor cache after a deployment, an upgrade or a call.
LEMMA AddExecutorType ==
  ASSUME NEW cache \in [Program -> Seq(Byte) \cup {None}], NEW p \in Program,
         NEW code, Loads(code)
  PROVE  AddExecutor(cache, p, code) \in [Program -> Seq(Byte) \cup {None}]
<1>1. code \in Seq(Byte)
  BY CellAssumption DEF Loads
<1> QED BY <1>1 DEF AddExecutor

\* An instruction of the transaction in flight keeps the types when it leaves
\* accounts and a cache.
LEMMA ExecutingType ==
  ASSUME TypeOK, Executing, acct' \in Accounts,
         loaded' \in [Program -> Seq(Byte) \cup {None}]
  PROVE  TypeOK'
<1>1. steps' \in 0..MaxInstructions
  BY Arguments DEF TypeOK, Executing
<1>2. UNCHANGED <<bank, executors, slot, signers>>
  BY DEF Executing, ledger
<1> QED BY <1>1, <1>2 DEF TypeOK, Accounts

\* Every step keeps the types: one case per action of Next.
LEMMA NextType == TypeOK /\ [Next]_vars => TypeOK'
<1> SUFFICES ASSUME TypeOK, [Next]_vars PROVE TypeOK'
  OBVIOUS
<1> USE Arguments
<1>1. /\ acct \in Accounts /\ bank \in Accounts
      /\ loaded \in [Program -> Seq(Byte) \cup {None}]
  BY DEF TypeOK, Accounts
<1>2. CASE UNCHANGED vars
  BY <1>2 DEF vars, TypeOK
<1>3. ASSUME NEW s \in SignerSets, Begin(s) PROVE TypeOK'
  BY <1>3 DEF Begin, TypeOK, ledger
<1>4. CASE Commit
  <2>1. Purge(acct) \in Accounts
    BY <1>1, PurgeType
  <2> QED BY <1>4, <2>1 DEF Commit, TypeOK, Accounts
<1>5. CASE Abort
  BY <1>5 DEF Abort, TypeOK, ledger
<1>6. CASE Tick
  BY <1>6 DEF Tick, TypeOK
<1>7. ASSUME NEW p \in Program, Evict(p) PROVE TypeOK'
  BY <1>7 DEF Evict, TypeOK
<1>8. ASSUME NEW from \in Address, NEW to \in Address, NEW n \in Deposit,
             NEW space \in Spaces, CreateAccount(from, to, n, space)
      PROVE  TypeOK'
  <2>1. acct' \in Accounts
    BY <1>1, <1>8, CreateAccountType DEF CreateAccount
  <2> QED BY <1>1, <1>8, <2>1, ExecutingType DEF CreateAccount
<1>9. ASSUME NEW from \in Address, NEW to \in Address, NEW n \in Gift,
             Transfer(from, to, n)
      PROVE  TypeOK'
  <2>1. acct' \in Accounts
    BY <1>1, <1>9, TransferType DEF Transfer
  <2> QED BY <1>1, <1>9, <2>1, ExecutingType DEF Transfer
<1>10. ASSUME NEW b \in Address, NEW k \in Authority, InitializeBuffer(b, k)
      PROVE  TypeOK'
  <2>1. acct' \in Accounts
    BY <1>1, <1>10, InitializeBufferType DEF InitializeBuffer
  <2> QED BY <1>1, <1>10, <2>1, ExecutingType DEF InitializeBuffer
<1>11. ASSUME NEW b \in Address, NEW k \in Authority, NEW i \in Lengths, NEW c \in Chunk,
              Write(b, k, i, c)
       PROVE  TypeOK'
  <2>1. acct' \in Accounts
    BY <1>1, <1>11, WriteType DEF Write
  <2> QED BY <1>1, <1>11, <2>1, ExecutingType DEF Write
<1>12. ASSUME NEW payer \in Address, NEW d \in Address, NEW b \in Address,
              NEW p \in Program, NEW k \in Authority, NEW n \in Lengths,
              DeployWithMaxDataLen(payer, d, p, b, k, n)
       PROVE  TypeOK'
  <2>1. CanDeploy(acct, signers, payer, d, p, b, k, n) /\ slot \in Nat /\ k \in Key
    BY <1>12 DEF DeployWithMaxDataLen, TypeOK
  <2>2. acct' \in Accounts
    BY <1>1, <1>12, <2>1, DeployEffect DEF DeployWithMaxDataLen
  <2>3. Loads(BufferContent(acct[b]))
    BY <2>1 DEF CanDeploy, BufferReady
  <2>4. loaded' \in [Program -> Seq(Byte) \cup {None}]
    BY <1>1, <1>12, <2>3, AddExecutorType DEF DeployWithMaxDataLen
  <2> QED BY <1>12, <2>2, <2>4, ExecutingType DEF DeployWithMaxDataLen
<1>13. ASSUME NEW d \in Address, NEW b \in Address, NEW spill \in Address,
              NEW p \in Program, NEW k \in Authority, Upgrade(d, p, b, spill, k)
       PROVE  TypeOK'
  <2>1. CanUpgrade(acct, signers, d, p, b, spill, k) /\ slot \in Nat /\ k \in Key
    BY <1>13 DEF Upgrade, TypeOK
  <2>2. acct' \in Accounts
    BY <1>1, <1>13, <2>1, UpgradeEffect DEF Upgrade
  <2>3. Loads(BufferContent(acct[b]))
    BY <2>1 DEF CanUpgrade, BufferReady
  <2>4. loaded' \in [Program -> Seq(Byte) \cup {None}]
    BY <1>1, <1>13, <2>3, AddExecutorType DEF Upgrade
  <2> QED BY <1>13, <2>2, <2>4, ExecutingType DEF Upgrade
<1>14. ASSUME NEW a \in Address, NEW k \in Authority, NEW new \in Authority \cup {None},
              SetAuthority(a, k, new)
       PROVE  TypeOK'
  <2>1. acct' \in Accounts
    BY <1>1, <1>14, SetAuthorityEffect DEF SetAuthority
  <2> QED BY <1>1, <1>14, <2>1, ExecutingType DEF SetAuthority
<1>15. ASSUME NEW a \in Address, NEW r \in Address, NEW p \in Address,
              NEW k \in Authority, Close(a, r, k, p)
       PROVE  TypeOK'
  <2>1. acct' \in Accounts
    BY <1>1, <1>15, CloseEffect DEF Close
  <2> QED BY <1>1, <1>15, <2>1, ExecutingType DEF Close
<1>16. ASSUME NEW p \in Program, Invoke(p) PROVE TypeOK'
  <2>1. loaded' \in [Program -> Seq(Byte) \cup {None}]
    BY <1>1, <1>16, AddExecutorType DEF Invoke
  <2> QED BY <1>1, <1>16, <2>1, ExecutingType DEF Invoke
<1> QED BY <1>2, <1>3, <1>4, <1>5, <1>6, <1>7, <1>8, <1>9, <1>10, <1>11, <1>12, <1>13,
           <1>14, <1>15, <1>16 DEF Next, Runtime, Loader

\* Whatever the accounts, callers and sizes, the ledger, the transaction in flight
\* and the executor caches stay well-typed: in particular no drain, funding, spill
\* or refund of the loader ever takes a balance below zero.
THEOREM TypeCorrect == Spec => []TypeOK
BY InitType, NextType, PTL DEF Spec
-----------------------------------------------------------------------------
(* Only the authority changes what it protects                             *)

\* An instruction disturbs a buffer or a programdata only with the signature of
\* the authority recorded in it.
Obeys(as, new, by) ==
  \A a \in Address :
    (as[a].state.tag \in {"Buffer", "ProgramData"} /\ Disturbed(as[a], new[a]))
      => as[a].state.authority \in by

\* An account left as it is, or only credited, is not disturbed.
LEMMA Undisturbed ==
  ASSUME NEW old \in Account
  PROVE  /\ ~Disturbed(old, old)
         /\ \A n \in Nat : ~Disturbed(old, [old EXCEPT !.lamports = old.lamports + n])
<1>1. old.lamports \in Nat
  BY AccountFields
<1>2. \A x, n \in Nat : ~(x < x) /\ ~(x + n < x)
  OBVIOUS
<1>3. ~(old.lamports < old.lamports)
  BY <1>1, <1>2
<1>4. ASSUME NEW n \in Nat
      PROVE  ~Disturbed(old, [old EXCEPT !.lamports = old.lamports + n])
  <2> DEFINE new == [old EXCEPT !.lamports = old.lamports + n]
  <2>1. /\ new.owner = old.owner /\ new.state = old.state /\ new.data = old.data
        /\ new.lamports = old.lamports + n
    BY DEF Account
  <2>2. ~(old.lamports + n < old.lamports)
    BY <1>1, <1>2
  <2> QED BY <2>1, <2>2 DEF Disturbed
<1> QED BY <1>3, <1>4 DEF Disturbed

\* An account the system program owns is no buffer, program or programdata.
LEMMA SystemTag ==
  ASSUME NEW as, SystemEmpty(as), NEW a \in Address, as[a].owner = "system"
  PROVE  as[a].state.tag = "Uninitialized"
BY EmptyAccount DEF SystemEmpty

\* A step that gives the system program no data leaves its accounts empty.
LEMMA KeepsSystemEmpty ==
  ASSUME NEW as, SystemEmpty(as), NEW new,
         \A a \in Address : \/ new[a].owner # "system"
                            \/ /\ new[a].owner = as[a].owner
                               /\ new[a].state = as[a].state
                               /\ new[a].data = as[a].data
  PROVE  SystemEmpty(new)
BY DEF SystemEmpty

\* CreateAccount debits and fills only accounts without loader state.
LEMMA CreateAccountObeys ==
  ASSUME NEW as \in Accounts, SystemEmpty(as), NEW by, NEW from \in Address,
         NEW to \in Address, NEW n \in Nat, NEW space \in Nat,
         CanCreateAccount(as, by, from, to, n)
  PROVE  LET new == AfterCreateAccount(as, from, to, n, space)
         IN SystemEmpty(new) /\ Obeys(as, new, by)
<1> DEFINE new == AfterCreateAccount(as, from, to, n, space)
<1>1. from # to /\ as[from].owner = "system" /\ as[to] = NoAccount
  BY DEF CanCreateAccount
<1>2. /\ new[from] = [as[from] EXCEPT !.lamports = as[from].lamports - n]
      /\ new[to] = Allocated(n, space)
      /\ \A a \in Address \ {from, to} : new[a] = as[a]
  BY <1>1 DEF AfterCreateAccount, Accounts
<1>3. /\ new[from].owner = as[from].owner /\ new[from].state = as[from].state
      /\ new[from].data = as[from].data
  BY <1>2 DEF Account, Accounts
<1>4. new[to].owner = "loader"
  BY <1>2 DEF Allocated, NoAccount
<1>5. as[from].state.tag = "Uninitialized" /\ as[to].state.tag = "Uninitialized"
  BY <1>1, SystemTag, EmptyAccount
<1> HIDE DEF new
<1>6. SystemEmpty(new)
  <2>1. ASSUME NEW a \in Address
        PROVE  \/ new[a].owner # "system"
               \/ /\ new[a].owner = as[a].owner
                  /\ new[a].state = as[a].state
                  /\ new[a].data = as[a].data
    BY <1>2, <1>3, <1>4
  <2> QED BY <2>1, KeepsSystemEmpty
<1>7. Obeys(as, new, by)
  BY <1>2, <1>5, Undisturbed DEF Obeys, Accounts
<1> QED BY <1>6, <1>7 DEF new

\* A transfer debits an account without loader state and credits another.
LEMMA TransferObeys ==
  ASSUME NEW as \in Accounts, SystemEmpty(as), NEW by, NEW from \in Address,
         NEW to \in Address, NEW n \in Nat, CanTransfer(as, by, from, to, n)
  PROVE  LET new == AfterTransfer(as, from, to, n)
         IN SystemEmpty(new) /\ Obeys(as, new, by)
<1> DEFINE new == AfterTransfer(as, from, to, n)
<1>1. from # to /\ as[from].owner = "system"
  BY DEF CanTransfer
<1>2. /\ new[from] = [as[from] EXCEPT !.lamports = as[from].lamports - n]
      /\ new[to] = [as[to] EXCEPT !.lamports = as[to].lamports + n]
      /\ \A a \in Address \ {from, to} : new[a] = as[a]
  BY <1>1 DEF AfterTransfer, Accounts
<1> HIDE DEF new
<1>3. /\ new[from].owner = as[from].owner /\ new[from].state = as[from].state
      /\ new[from].data = as[from].data
      /\ new[to].owner = as[to].owner /\ new[to].state = as[to].state
      /\ new[to].data = as[to].data
  BY <1>2 DEF Account, Accounts
<1>4. as[from].state.tag = "Uninitialized"
  BY <1>1, SystemTag
<1>5. as[to] \in Account
  BY DEF Accounts
<1>6. ~Disturbed(as[to], new[to])
  BY <1>2, <1>5, Undisturbed
<1>7. SystemEmpty(new)
  <2>1. ASSUME NEW a \in Address
        PROVE  /\ new[a].owner = as[a].owner
               /\ new[a].state = as[a].state
               /\ new[a].data = as[a].data
    BY <1>2, <1>3
  <2> QED BY <2>1, KeepsSystemEmpty
<1>8. Obeys(as, new, by)
  BY <1>2, <1>4, <1>6, Undisturbed DEF Obeys, Accounts
<1> QED BY <1>7, <1>8 DEF new

\* The authority that passed the check has signed.
LEMMA AuthorisedSigned ==
  ASSUME NEW state, NEW k, NEW by, Authorised(state, k, by)
  PROVE  state.authority \in by
BY DEF Authorised

\* InitializeBuffer changes only an account that records no authority.
LEMMA InitializeBufferObeys ==
  ASSUME NEW as \in Accounts, SystemEmpty(as), NEW by, NEW b \in Address, NEW k \in Key,
         CanInitializeBuffer(as, b)
  PROVE  LET new == AfterInitializeBuffer(as, b, k)
         IN SystemEmpty(new) /\ Obeys(as, new, by)
<1> DEFINE new == AfterInitializeBuffer(as, b, k)
<1>1. as[b].state.tag = "Uninitialized" /\ as[b].owner = "loader"
  BY DEF CanInitializeBuffer, Holds, Changeable
<1>2. new[b] = SetState(as[b], BufferState(k)) /\ \A a \in Address \ {b} : new[a] = as[a]
  BY DEF AfterInitializeBuffer, Accounts
<1>3. SetState(as[b], BufferState(k)).owner = "loader"
  <2>1. as[b] \in Account /\ BufferState(k) \in State
    BY StateType DEF Accounts
  <2> QED BY <1>1, <2>1, SetStateType
<1> HIDE DEF new
<1>4. SystemEmpty(new)
  <2>1. ASSUME NEW a \in Address
        PROVE  new[a].owner # "system" \/ new[a] = as[a]
    BY <1>2, <1>3
  <2> QED BY <2>1, KeepsSystemEmpty
<1>5. Obeys(as, new, by)
  BY <1>1, <1>2, Undisturbed DEF Obeys, Accounts
<1> QED BY <1>4, <1>5 DEF new

\* Write changes the buffer its authority signed for.
LEMMA WriteObeys ==
  ASSUME NEW as \in Accounts, SystemEmpty(as), NEW by, NEW b \in Address, NEW k \in Key,
         NEW i \in Nat, NEW bytes, CanWrite(as, by, b, k, i, bytes)
  PROVE  LET new == AfterWrite(as, b, i, bytes)
         IN SystemEmpty(new) /\ Obeys(as, new, by)
<1> DEFINE new == AfterWrite(as, b, i, bytes)
<1>1. as[b].owner = "loader" /\ Authorised(as[b].state, k, by)
  BY DEF CanWrite, Changeable
<1>2. /\ new[b] = [as[b] EXCEPT !.data = Overwrite(as[b].data, BufferMeta + i, bytes)]
      /\ \A a \in Address \ {b} : new[a] = as[a]
  BY DEF AfterWrite, Accounts
<1> HIDE DEF new
<1>3. new[b].owner = "loader"
  <2>1. as[b] \in Account
    BY DEF Accounts
  <2>2. new[b] = [as[b] EXCEPT !.data = Overwrite(as[b].data, BufferMeta + i, bytes)]
    BY <1>2
  <2> QED BY <1>1, <2>1, <2>2 DEF Account
<1>4. SystemEmpty(new)
  <2>1. ASSUME NEW a \in Address
        PROVE  new[a].owner # "system" \/ new[a] = as[a]
    BY <1>2, <1>3
  <2> QED BY <2>1, KeepsSystemEmpty
<1>5. Obeys(as, new, by)
  BY <1>1, <1>2, AuthorisedSigned, Undisturbed DEF Obeys, Accounts
<1> QED BY <1>4, <1>5 DEF new

\* A deployment drains the buffer its authority signed for; the other accounts
\* it changes record no authority.
LEMMA DeployObeys ==
  ASSUME NEW as \in Accounts, SystemEmpty(as), NEW by, NEW payer \in Address,
         NEW d \in Address, NEW p \in Program, NEW buffer \in Address, NEW k \in Key,
         NEW maxLen \in Nat, NEW t \in Nat, CanDeploy(as, by, payer, d, p, buffer, k, maxLen)
  PROVE  LET new == AfterDeploy(as, payer, d, p, buffer, k, maxLen, t)
         IN SystemEmpty(new) /\ Obeys(as, new, by)
<1> DEFINE new == AfterDeploy(as, payer, d, p, buffer, k, maxLen, t)
<1>1. /\ as[payer].owner = "system" /\ as[d] = NoAccount
      /\ as[p].owner = "loader" /\ as[p].state.tag = "Uninitialized"
      /\ as[buffer].owner = "loader" /\ Authorised(as[buffer].state, k, by)
  BY DEF CanDeploy, Pays, ProgramReady, BufferReady, Holds, Changeable
<1>2. /\ new[payer] = [as[payer] EXCEPT !.lamports = PayerLeft(as, payer, buffer, maxLen)]
      /\ new[buffer] = [as[buffer] EXCEPT !.lamports = 0]
      /\ new[d] = DeployedProgramData(as, buffer, k, maxLen, t)
      /\ new[p] = [SetState(as[p], ProgramState(d)) EXCEPT !.executable = TRUE]
      /\ \A a \in Address \ {payer, buffer, d, p} : new[a] = as[a]
  <2>1. Deployed(as, new, payer, d, p, buffer, k, maxLen, t)
    BY DeployEffect
  <2> HIDE DEF new
  <2> QED BY <2>1 DEF Deployed
<1> HIDE DEF new
<1>3. p \in Address
  BY PdaAssumption
<1>4. as[payer].state.tag = "Uninitialized" /\ as[d].state.tag = "Uninitialized"
  BY <1>1, SystemTag, EmptyAccount
<1>5. as[payer] \in Account /\ as[buffer] \in Account
  BY DEF Accounts
<1>6. /\ new[payer].owner = as[payer].owner /\ new[payer].state = as[payer].state
      /\ new[payer].data = as[payer].data
  <2>1. new[payer] = [as[payer] EXCEPT !.lamports = PayerLeft(as, payer, buffer, maxLen)]
    BY <1>2
  <2> QED BY <1>5, <2>1 DEF Account
<1>7. new[buffer].owner = "loader"
  <2>1. new[buffer] = [as[buffer] EXCEPT !.lamports = 0]
    BY <1>2
  <2> QED BY <1>5, <1>1, <2>1 DEF Account
<1>8. new[d].owner = "loader"
  <2>1. new[d] = DeployedProgramData(as, buffer, k, maxLen, t)
    BY <1>2
  <2>2. DeployedProgramData(as, buffer, k, maxLen, t).owner = "loader"
    BY DeployedProgramDataType
  <2> QED BY <2>1, <2>2
<1>9. new[p].owner = "loader"
  <2> DEFINE set == SetState(as[p], ProgramState(d))
  <2>1. as[p] \in Account /\ ProgramState(d) \in State
    BY <1>3, StateType DEF Accounts
  <2>2. set.owner = "loader" /\ set \in Account
    BY <1>1, <2>1, SetStateType
  <2>3. new[p] = [set EXCEPT !.executable = TRUE]
    BY <1>2
  <2> HIDE DEF set
  <2> QED BY <2>2, <2>3 DEF Account
<1>10. SystemEmpty(new)
  <2>1. ASSUME NEW a \in Address
        PROVE  \/ new[a].owner # "system"
               \/ /\ new[a].owner = as[a].owner
                  /\ new[a].state = as[a].state
                  /\ new[a].data = as[a].data
    BY <1>2, <1>6, <1>7, <1>8, <1>9
  <2> QED BY <2>1, KeepsSystemEmpty
<1>11. as[buffer].state.authority \in by
  BY <1>1, AuthorisedSigned
<1>12. Obeys(as, new, by)
  BY <1>1, <1>2, <1>4, <1>11, Undisturbed DEF Obeys, Accounts
<1> QED BY <1>10, <1>12 DEF new

\* An upgrade changes the buffer and the programdata their authority signed for.
LEMMA UpgradeObeys ==
  ASSUME NEW as \in Accounts, SystemEmpty(as), NEW by, NEW d \in Address, NEW p \in Program,
         NEW buffer \in Address, NEW spill \in Address, NEW k \in Key, NEW t \in Nat,
         CanUpgrade(as, by, d, p, buffer, spill, k)
  PROVE  LET new == AfterUpgrade(as, d, buffer, spill, k, t)
         IN SystemEmpty(new) /\ Obeys(as, new, by)
<1> DEFINE new == AfterUpgrade(as, d, buffer, spill, k, t)
<1>1. /\ as[d].owner = "loader" /\ Authorised(as[d].state, k, by)
      /\ as[buffer].owner = "loader" /\ Authorised(as[buffer].state, k, by)
  BY DEF CanUpgrade, Upgradeable, BufferReady, Changeable
<1>2. Surplus(as, d, buffer) \in Nat
  BY UpgradeAccounts
<1>3. /\ new[spill] = [as[spill] EXCEPT !.lamports =
                         as[spill].lamports + Surplus(as, d, buffer)]
      /\ new[buffer] = [as[buffer] EXCEPT !.lamports = 0]
      /\ new[d] = UpgradedProgramData(as, d, buffer, k, t)
      /\ \A a \in Address \ {spill, buffer, d} : new[a] = as[a]
  <2>1. Upgraded(as, new, d, buffer, spill, k, t)
    BY UpgradeEffect
  <2> HIDE DEF new
  <2> QED BY <2>1 DEF Upgraded
<1>4. as[spill] \in Account /\ as[buffer] \in Account
  BY DEF Accounts
<1> HIDE DEF new
<1>5. /\ new[spill].owner = as[spill].owner /\ new[spill].state = as[spill].state
      /\ new[spill].data = as[spill].data
  <2>1. new[spill] = [as[spill] EXCEPT !.lamports =
                        as[spill].lamports + Surplus(as, d, buffer)]
    BY <1>3
  <2> QED BY <1>4, <2>1 DEF Account
<1>6. new[buffer].owner = "loader"
  <2>1. new[buffer] = [as[buffer] EXCEPT !.lamports = 0]
    BY <1>3
  <2> QED BY <1>4, <1>1, <2>1 DEF Account
<1>7. new[d].owner = "loader"
  <2>1. new[d] = UpgradedProgramData(as, d, buffer, k, t)
    BY <1>3
  <2>2. UpgradedProgramData(as, d, buffer, k, t).owner = as[d].owner
    BY UpgradedProgramDataType
  <2> QED BY <1>1, <2>1, <2>2
<1>8. ~Disturbed(as[spill], new[spill])
  <2>1. new[spill] = [as[spill] EXCEPT !.lamports =
                        as[spill].lamports + Surplus(as, d, buffer)]
    BY <1>3
  <2> QED BY <1>4, <1>2, <2>1, Undisturbed
<1>9. SystemEmpty(new)
  <2>1. ASSUME NEW a \in Address
        PROVE  \/ new[a].owner # "system"
               \/ /\ new[a].owner = as[a].owner
                  /\ new[a].state = as[a].state
                  /\ new[a].data = as[a].data
    BY <1>3, <1>5, <1>6, <1>7
  <2> QED BY <2>1, KeepsSystemEmpty
<1>10. as[buffer].state.authority \in by /\ as[d].state.authority \in by
  BY <1>1, AuthorisedSigned
<1>11. Obeys(as, new, by)
  BY <1>3, <1>8, <1>10, Undisturbed DEF Obeys, Accounts
<1> QED BY <1>9, <1>11 DEF new

\* SetAuthority changes the account its present authority signed for.
LEMMA SetAuthorityObeys ==
  ASSUME NEW as \in Accounts, SystemEmpty(as), NEW by, NEW a \in Address, NEW k,
         NEW to \in Key \cup {None}, CanSetAuthority(as, by, a, k, to)
  PROVE  LET new == AfterSetAuthority(as, a, to)
         IN SystemEmpty(new) /\ Obeys(as, new, by)
<1> DEFINE new == AfterSetAuthority(as, a, to)
<1>1. as[a].owner = "loader" /\ Authorised(as[a].state, k, by)
  BY DEF CanSetAuthority, Changeable
<1>2. new[a].owner = as[a].owner /\ \A x \in Address \ {a} : new[x] = as[x]
  BY SetAuthorityEffect
<1> HIDE DEF new
<1>3. SystemEmpty(new)
  <2>1. ASSUME NEW x \in Address
        PROVE  new[x].owner # "system" \/ new[x] = as[x]
    BY <1>1, <1>2
  <2> QED BY <2>1, KeepsSystemEmpty
<1>4. as[a].state.authority \in by
  BY <1>1, AuthorisedSigned
<1>5. Obeys(as, new, by)
  BY <1>2, <1>4, Undisturbed DEF Obeys, Accounts
<1> QED BY <1>3, <1>5 DEF new

\* Close empties an account its authority signed for, or one without authority
\* because it was never initialised.
LEMMA CloseObeys ==
  ASSUME NEW as \in Accounts, SystemEmpty(as), NEW by, NEW a \in Address,
         NEW r \in Address, NEW k, NEW p \in Address, CanClose(as, by, a, r, k, p)
  PROVE  LET new == AfterClose(as, a, r)
         IN SystemEmpty(new) /\ Obeys(as, new, by)
<1> DEFINE new == AfterClose(as, a, r)
<1>1. /\ as[a].owner = "loader"
      /\ as[a].state.tag = "Uninitialized" \/ Authorised(as[a].state, k, by)
  BY DEF CanClose, Changeable, Holds
<1>2. /\ a # r
      /\ new[r] = [as[r] EXCEPT !.lamports = as[r].lamports + as[a].lamports]
      /\ new[a].owner = as[a].owner
      /\ \A x \in Address \ {a, r} : new[x] = as[x]
  <2>1. Closed(as, new, a, r)
    BY CloseEffect
  <2> HIDE DEF new
  <2> QED BY <2>1 DEF Closed
<1> HIDE DEF new
<1>3. /\ new[r].owner = as[r].owner /\ new[r].state = as[r].state
      /\ new[r].data = as[r].data
  BY <1>2 DEF Accounts, Account
<1>4. ~Disturbed(as[r], new[r])
  <2>1. as[r] \in Account /\ as[a].lamports \in Nat
    BY AccountFields DEF Accounts
  <2> QED BY <1>2, <2>1, Undisturbed
<1>5. SystemEmpty(new)
  <2>1. ASSUME NEW x \in Address
        PROVE  \/ new[x].owner # "system"
               \/ /\ new[x].owner = as[x].owner
                  /\ new[x].state = as[x].state
                  /\ new[x].data = as[x].data
    BY <1>1, <1>2, <1>3
  <2> QED BY <2>1, KeepsSystemEmpty
<1>6. as[a].state.tag = "Uninitialized" \/ as[a].state.authority \in by
  BY <1>1, AuthorisedSigned
<1>7. Obeys(as, new, by)
  BY <1>2, <1>4, <1>6, Undisturbed DEF Obeys, Accounts
<1> QED BY <1>5, <1>7 DEF new

\* Disturbing an account that was not disturbed before is disturbing it.
LEMMA DisturbedSince ==
  ASSUME NEW old \in Account, NEW mid \in Account, NEW new \in Account,
         Disturbed(old, new), ~Disturbed(old, mid)
  PROVE  mid.state = old.state /\ Disturbed(mid, new)
<1>1. old.lamports \in Nat /\ mid.lamports \in Nat /\ new.lamports \in Nat
  BY AccountFields
<1>2. \A x, y, n \in Nat : n < x /\ ~(y < x) => n < y
  OBVIOUS
<1>3. new.lamports < old.lamports /\ ~(mid.lamports < old.lamports)
        => new.lamports < mid.lamports
  BY <1>1, <1>2
<1> QED BY <1>3 DEF Disturbed

\* An instruction that obeys the authorities preserves the invariant.
LEMMA InstructionInv ==
  ASSUME AuthorityInv, TypeOK', Executing, acct' \in Accounts, SystemEmpty(acct'),
         Obeys(acct, acct', signers)
  PROVE  AuthorityInv'
<1>1. UNCHANGED <<bank, executors, slot, signers>> /\ signers # {}
  BY DEF Executing, ledger, InTransaction
<1>2. SystemEmpty(acct)' /\ SystemEmpty(bank)'
  BY <1>1 DEF AuthorityInv, SystemEmpty
<1>3. Funded' /\ Settled'
  BY <1>1 DEF AuthorityInv, Funded, Settled, InTransaction
<1>4. Signed'
  <2> SUFFICES ASSUME NEW a \in Address, bank[a].state.tag \in {"Buffer", "ProgramData"},
                      Disturbed(bank[a], acct'[a])
               PROVE  bank[a].state.authority \in signers
    BY <1>1 DEF Signed
  <2>1. CASE Disturbed(bank[a], acct[a])
    BY <2>1 DEF AuthorityInv, Signed
  <2>2. CASE ~Disturbed(bank[a], acct[a])
    <3>1. bank[a] \in Account /\ acct[a] \in Account /\ acct'[a] \in Account
      BY DEF AuthorityInv, TypeOK, Accounts
    <3>2. acct[a].state = bank[a].state /\ Disturbed(acct[a], acct'[a])
      BY <2>2, <3>1, DisturbedSince
    <3> QED BY <3>2 DEF Obeys
  <2> QED BY <2>1, <2>2
<1> QED BY <1>2, <1>3, <1>4 DEF AuthorityInv

\* Nothing is disturbed while the ledger and the accounts in flight agree.
LEMMA SettledSigned ==
  ASSUME TypeOK, acct = bank
  PROVE  Signed
<1>1. \A a \in Address : bank[a] \in Account
  BY DEF TypeOK
<1> QED BY <1>1, Undisturbed DEF Signed

\* The invariant holds of the ledger the accounts start in.
LEMMA InitAuthority == Init => AuthorityInv
<1> SUFFICES ASSUME Init PROVE AuthorityInv
  OBVIOUS
<1>1. TypeOK
  BY InitType
<1>2. \A a \in Address : /\ Supply[a] = [NoAccount EXCEPT !.lamports = Supply[a].lamports]
                         /\ Supply[a] \in Account
  BY SupplyAssumption
<1>3. \A a \in Address : Supply[a].state = Uninitialized /\ Supply[a].data = << >>
  BY <1>2 DEF NoAccount
<1>4. SystemEmpty(acct) /\ SystemEmpty(bank)
  BY <1>3 DEF Init, SystemEmpty
<1>5. Funded
  BY <1>2 DEF Init, Funded, NoAccount
<1>6. Settled
  BY DEF Init, Settled
<1>7. Signed
  BY <1>1, SettledSigned DEF Init
<1> QED BY <1>1, <1>4, <1>5, <1>6, <1>7 DEF AuthorityInv

\* A commit writes back only what the authorities signed for: an account it drops
\* lost its lamports, so it was disturbed.
LEMMA CommitSigned ==
  ASSUME AuthorityInv, Commit
  PROVE  AuthoritySigned
<1> SUFFICES ASSUME NEW a \in Address, bank[a].state.tag \in {"Buffer", "ProgramData"},
                    Disturbed(bank[a], bank'[a])
             PROVE  bank[a].state.authority \in signers
  BY DEF AuthoritySigned
<1>1. bank'[a] = IF acct[a].lamports = 0 THEN NoAccount ELSE acct[a]
  BY DEF Commit, Purge
<1>2. bank[a] \in Account
  BY DEF AuthorityInv, TypeOK
<1>3. bank[a].lamports \in Nat /\ bank[a].lamports # 0
  BY <1>2, AccountFields, EmptyAccount DEF AuthorityInv, Funded
<1>4. Disturbed(bank[a], acct[a])
  <2>1. \A x \in Nat : x # 0 => 0 < x
    OBVIOUS
  <2>2. CASE acct[a].lamports = 0
    BY <1>3, <2>1, <2>2 DEF Disturbed
  <2>3. CASE acct[a].lamports # 0
    BY <1>1, <2>3
  <2> QED BY <2>2, <2>3
<1> QED BY <1>4 DEF AuthorityInv, Signed

\* A commit drops accounts without lamports and preserves the invariant.
LEMMA CommitInv ==
  ASSUME AuthorityInv, TypeOK', Commit
  PROVE  AuthorityInv'
<1>1. bank' = Purge(acct) /\ acct' = bank' /\ signers' = {} /\ loaded' = executors'
  BY DEF Commit
<1>2. \A a \in Address : bank'[a] = IF acct[a].lamports = 0 THEN NoAccount ELSE acct[a]
  BY <1>1 DEF Purge
<1>3. SystemEmpty(bank')
  BY <1>2, EmptyAccount DEF AuthorityInv, SystemEmpty
<1>4. Funded'
  BY <1>2, EmptyAccount DEF Funded
<1>5. Settled'
  BY <1>1 DEF Settled
<1>6. Signed'
  <2>1. \A a \in Address : bank'[a] \in Account
    BY DEF TypeOK
  <2> QED BY <1>1, <2>1, Undisturbed DEF Signed
<1> QED BY <1>1, <1>3, <1>4, <1>5, <1>6 DEF AuthorityInv, SystemEmpty

\* An instruction commits nothing.
LEMMA ExecutingSigned ==
  ASSUME AuthorityInv, Executing
  PROVE  AuthoritySigned
<1>1. \A a \in Address : bank[a] \in Account
  BY DEF AuthorityInv, TypeOK
<1> QED BY <1>1, Undisturbed DEF Executing, ledger, AuthoritySigned

\* A step that leaves the ledger and the accounts in flight alone, outside a
\* transaction or to start one.
LEMMA IdleStep ==
  ASSUME AuthorityInv, TypeOK', ~InTransaction, UNCHANGED <<bank, acct>>,
         loaded' = executors' \/ signers' # {}
  PROVE  AuthorityInv' /\ AuthoritySigned
<1>1. acct = bank
  BY DEF AuthorityInv, Settled
<1>2. \A a \in Address : bank[a] \in Account
  BY DEF AuthorityInv, TypeOK
<1>3. SystemEmpty(acct)' /\ SystemEmpty(bank)' /\ Funded'
  BY DEF AuthorityInv, SystemEmpty, Funded
<1>4. Settled'
  BY <1>1 DEF Settled, InTransaction
<1>5. Signed' /\ AuthoritySigned
  BY <1>1, <1>2, Undisturbed DEF Signed, AuthoritySigned
<1> QED BY <1>3, <1>4, <1>5 DEF AuthorityInv

\* An abort goes back to the ledger, which nothing disturbed.
LEMMA AbortStep ==
  ASSUME AuthorityInv, TypeOK', Abort
  PROVE  AuthorityInv' /\ AuthoritySigned
<1>1. bank' = bank /\ acct' = bank /\ executors' = executors /\ loaded' = executors
  BY DEF Abort, ledger
<1>2. \A a \in Address : bank[a] \in Account
  BY DEF AuthorityInv, TypeOK
<1>3. SystemEmpty(acct)' /\ SystemEmpty(bank)' /\ Funded' /\ Settled'
  BY <1>1 DEF AuthorityInv, SystemEmpty, Funded, Settled
<1>4. Signed' /\ AuthoritySigned
  BY <1>1, <1>2, Undisturbed DEF Signed, AuthoritySigned
<1> QED BY <1>3, <1>4 DEF AuthorityInv

\* Every step preserves the invariant and changes the ledger only as the
\* authorities signed for.
LEMMA NextAuthority ==
  AuthorityInv /\ [Next]_vars => AuthorityInv' /\ (AuthoritySigned \/ UNCHANGED vars)
<1> SUFFICES ASSUME AuthorityInv, [Next]_vars
             PROVE  AuthorityInv' /\ (AuthoritySigned \/ UNCHANGED vars)
  OBVIOUS
<1> USE Arguments
<1> DEFINE Step == AuthorityInv' /\ AuthoritySigned
<1>1. /\ TypeOK' /\ TypeOK /\ acct \in Accounts /\ slot \in Nat /\ SystemEmpty(acct)
  BY NextType DEF AuthorityInv, TypeOK, Accounts
<1>2. CASE UNCHANGED vars
  <2>1. UNCHANGED <<bank, acct, signers, executors, loaded>>
    BY <1>2 DEF vars
  <2> QED BY <1>1, <1>2, <2>1
        DEF AuthorityInv, SystemEmpty, Funded, Settled, InTransaction, Signed
<1>3. ASSUME NEW s \in SignerSets, Begin(s) PROVE Step
  <2>1. signers' # {}
    BY <1>3, CallerAssumption DEF Begin
  <2> QED BY <1>1, <1>3, <2>1, IdleStep DEF Begin, ledger
<1>4. CASE Commit
  <2>1. Step
    BY <1>1, <1>4, CommitInv, CommitSigned
  <2> QED BY <2>1
<1>5. CASE Abort
  <2>1. Step
    BY <1>1, <1>5, AbortStep
  <2> QED BY <2>1
<1>6. CASE Tick
  <2>1. loaded = executors
    BY <1>6 DEF Tick, AuthorityInv, Settled
  <2>2. Step
    BY <1>1, <1>6, <2>1, IdleStep DEF Tick
  <2> QED BY <2>2
<1>7. ASSUME NEW p \in Program, Evict(p) PROVE Step
  BY <1>1, <1>7, IdleStep DEF Evict
<1>8. ASSUME NEW from \in Address, NEW to \in Address, NEW n \in Deposit, NEW space \in Spaces,
             CreateAccount(from, to, n, space)
      PROVE  Step
  <2>1. acct' \in Accounts
    BY <1>1 DEF TypeOK, Accounts
  <2>2. SystemEmpty(acct') /\ Obeys(acct, acct', signers)
    BY <1>1, <1>8, CreateAccountObeys DEF CreateAccount
  <2>3. Executing
    BY <1>8 DEF CreateAccount
  <2> QED BY <2>1, <2>2, <2>3, <1>1, InstructionInv, ExecutingSigned
<1>9. ASSUME NEW from \in Address, NEW to \in Address, NEW n \in Gift,
             Transfer(from, to, n)
      PROVE  Step
  <2>1. acct' \in Accounts
    BY <1>1 DEF TypeOK, Accounts
  <2>2. SystemEmpty(acct') /\ Obeys(acct, acct', signers)
    BY <1>1, <1>9, TransferObeys DEF Transfer
  <2>3. Executing
    BY <1>9 DEF Transfer
  <2> QED BY <2>1, <2>2, <2>3, <1>1, InstructionInv, ExecutingSigned
<1>10. ASSUME NEW b \in Address, NEW k \in Authority,
             InitializeBuffer(b, k)
      PROVE  Step
  <2>1. acct' \in Accounts
    BY <1>1 DEF TypeOK, Accounts
  <2>2. SystemEmpty(acct') /\ Obeys(acct, acct', signers)
    BY <1>1, <1>10, InitializeBufferObeys DEF InitializeBuffer
  <2>3. Executing
    BY <1>10 DEF InitializeBuffer
  <2> QED BY <2>1, <2>2, <2>3, <1>1, InstructionInv, ExecutingSigned
<1>11. ASSUME NEW b \in Address, NEW k \in Authority, NEW i \in Lengths, NEW c \in Chunk,
             Write(b, k, i, c)
      PROVE  Step
  <2>1. acct' \in Accounts
    BY <1>1 DEF TypeOK, Accounts
  <2>2. SystemEmpty(acct') /\ Obeys(acct, acct', signers)
    BY <1>1, <1>11, WriteObeys DEF Write
  <2>3. Executing
    BY <1>11 DEF Write
  <2> QED BY <2>1, <2>2, <2>3, <1>1, InstructionInv, ExecutingSigned
<1>12. ASSUME NEW payer \in Address, NEW d \in Address, NEW b \in Address,
             NEW p \in Program, NEW k \in Authority, NEW n \in Lengths,
             DeployWithMaxDataLen(payer, d, p, b, k, n)
      PROVE  Step
  <2>1. acct' \in Accounts
    BY <1>1 DEF TypeOK, Accounts
  <2>2. SystemEmpty(acct') /\ Obeys(acct, acct', signers)
    BY <1>1, <1>12, DeployObeys DEF DeployWithMaxDataLen
  <2>3. Executing
    BY <1>12 DEF DeployWithMaxDataLen
  <2> QED BY <2>1, <2>2, <2>3, <1>1, InstructionInv, ExecutingSigned
<1>13. ASSUME NEW d \in Address, NEW b \in Address, NEW spill \in Address,
             NEW p \in Program, NEW k \in Authority,
             Upgrade(d, p, b, spill, k)
      PROVE  Step
  <2>1. acct' \in Accounts
    BY <1>1 DEF TypeOK, Accounts
  <2>2. SystemEmpty(acct') /\ Obeys(acct, acct', signers)
    BY <1>1, <1>13, UpgradeObeys DEF Upgrade
  <2>3. Executing
    BY <1>13 DEF Upgrade
  <2> QED BY <2>1, <2>2, <2>3, <1>1, InstructionInv, ExecutingSigned
<1>14. ASSUME NEW a \in Address, NEW k \in Authority, NEW new \in Authority \cup {None},
             SetAuthority(a, k, new)
      PROVE  Step
  <2>1. acct' \in Accounts
    BY <1>1 DEF TypeOK, Accounts
  <2>2. SystemEmpty(acct') /\ Obeys(acct, acct', signers)
    BY <1>1, <1>14, SetAuthorityObeys DEF SetAuthority
  <2>3. Executing
    BY <1>14 DEF SetAuthority
  <2> QED BY <2>1, <2>2, <2>3, <1>1, InstructionInv, ExecutingSigned
<1>15. ASSUME NEW a \in Address, NEW r \in Address, NEW p \in Address, NEW k \in Authority,
             Close(a, r, k, p)
      PROVE  Step
  <2>1. acct' \in Accounts
    BY <1>1 DEF TypeOK, Accounts
  <2>2. SystemEmpty(acct') /\ Obeys(acct, acct', signers)
    BY <1>1, <1>15, CloseObeys DEF Close
  <2>3. Executing
    BY <1>15 DEF Close
  <2> QED BY <2>1, <2>2, <2>3, <1>1, InstructionInv, ExecutingSigned
<1>16. ASSUME NEW p \in Program, Invoke(p) PROVE Step
  <2>1. Executing /\ acct' = acct
    BY <1>16 DEF Invoke
  <2>2. \A a \in Address : acct[a] \in Account
    BY <1>1 DEF Accounts
  <2>3. SystemEmpty(acct') /\ Obeys(acct, acct', signers) /\ acct' \in Accounts
    BY <1>1, <2>1, <2>2, Undisturbed DEF Obeys
  <2> QED BY <1>1, <2>1, <2>3, InstructionInv, ExecutingSigned
<1> QED BY <1>2, <1>3, <1>4, <1>5, <1>6, <1>7, <1>8, <1>9, <1>10, <1>11, <1>12, <1>13,
           <1>14, <1>15, <1>16 DEF Next, Runtime, Loader

\* For any accounts, keys, sizes and transactions of any length: a transaction
\* changes a buffer or a programdata, or takes lamports from it, only if the
\* authority the account recorded before it began is among its signers; nothing
\* touches an account without authority.
THEOREM AuthorityProtects == Spec => OnlyAuthorityChanges
<1>1. Spec => []AuthorityInv
  BY InitAuthority, NextAuthority, PTL DEF Spec
<1>2. AuthorityInv /\ [Next]_vars => [AuthoritySigned]_vars
  BY NextAuthority
<1> QED BY <1>1, <1>2, PTL DEF Spec, OnlyAuthorityChanges
-----------------------------------------------------------------------------
(* No lamport is made or lost                                              *)

Lamports(as) == [a \in Address |-> as[a].lamports]

\* Accounts hold whole numbers of lamports.
LEMMA LamportsType ==
  ASSUME NEW as \in Accounts
  PROVE  Lamports(as) \in [Address -> Int] /\ \A a \in Address : as[a].lamports \in Nat
<1>1. \A a \in Address : as[a].lamports \in Nat
  BY AccountFields DEF Accounts
<1> DEFINE balance(a) == as[a].lamports
<1>2. \A a \in Address : balance(a) \in Nat
  BY <1>1
<1> HIDE DEF balance
<1>3. [a \in Address |-> balance(a)] \in [Address -> Int]
  BY <1>2
<1>4. Lamports(as) \in [Address -> Int]
  BY <1>3 DEF Lamports, balance
<1> QED BY <1>1, <1>4

\* The sum of the balances is what Total is.
LEMMA TotalIs ==
  ASSUME NEW as
  PROVE  Total(as) = SumFunction(Lamports(as))
BY DEF Total, Lamports

\* Maps with the same balances have the same total.
LEMMA SameTotal ==
  ASSUME NEW as, NEW new, \A a \in Address : new[a].lamports = as[a].lamports
  PROVE  Total(new) = Total(as)
<1>1. Lamports(new) = Lamports(as)
  BY DEF Lamports
<1> QED BY <1>1, TotalIs

\* What two and three accounts hold together, and that the others hold what they did.
Two(as, x, y) == as[x].lamports + as[y].lamports
Three(as, x, y, z) == (as[x].lamports + as[y].lamports) + as[z].lamports
SameBalances(as, new, others) == \A a \in others : new[a].lamports = as[a].lamports

\* Lamports that move between three accounts leave the total.
LEMMA ThreeMove ==
  ASSUME NEW as \in Accounts, NEW new \in Accounts,
         NEW x \in Address, NEW y \in Address, NEW z \in Address, x # y, x # z, y # z,
         SameBalances(as, new, Address \ {x, y, z}), Three(new, x, y, z) = Three(as, x, y, z)
  PROVE  Total(new) = Total(as)
<1> DEFINE f == Lamports(as)
           g == Lamports(new)
<1>1. f \in [Address -> Int] /\ g \in [Address -> Int]
  BY LamportsType
<1>2. \A a \in Address : f[a] = as[a].lamports /\ g[a] = new[a].lamports
  BY DEF Lamports
<1> HIDE DEF f, g
<1>3. (f[x] + f[y]) + f[z] = (g[x] + g[y]) + g[z] /\ \A a \in Address \ {x, y, z} : g[a] = f[a]
  BY <1>2 DEF Three, SameBalances
<1> DEFINE h == [f EXCEPT ![x] = g[x]]
           i == [h EXCEPT ![y] = g[y]]
<1>4. h \in [Address -> Int] /\ h[y] = f[y] /\ h[x] = g[x] /\ \A a \in Address \ {x} : h[a] = f[a]
  BY <1>1
<1> HIDE DEF h
<1>5. i \in [Address -> Int] /\ i[y] = g[y] /\ \A a \in Address \ {y} : i[a] = h[a]
  BY <1>1, <1>4
<1> HIDE DEF i
<1>6. i[z] = f[z] /\ \A a \in Address \ {z} : g[a] = i[a]
  BY <1>3, <1>4, <1>5
<1>7. SumFunction(h) = (SumFunction(f) - f[x]) + g[x]
  BY <1>1, <1>4, LedgerAssumption, SumDiffer
<1>8. SumFunction(i) = (SumFunction(h) - f[y]) + g[y]
  BY <1>4, <1>5, LedgerAssumption, SumDiffer
<1>9. SumFunction(g) = (SumFunction(i) - f[z]) + g[z]
  BY <1>1, <1>5, <1>6, LedgerAssumption, SumDiffer
<1>10. /\ f[x] \in Int /\ f[y] \in Int /\ f[z] \in Int /\ SumFunction(f) \in Int
       /\ g[x] \in Int /\ g[y] \in Int /\ g[z] \in Int
  BY <1>1, LedgerAssumption, SumType
<1>11. \A s, a, b, c, d, e, k \in Int : (a + b) + c = (d + e) + k =>
         (((((s - a) + d) - b) + e) - c) + k = s
  OBVIOUS
<1>12. SumFunction(g) = SumFunction(f)
  BY <1>3, <1>7, <1>8, <1>9, <1>10, <1>11
<1> QED BY <1>12, TotalIs DEF f, g

\* Lamports that move between two accounts leave the total.
LEMMA TwoMove ==
  ASSUME NEW as \in Accounts, NEW new \in Accounts,
         NEW x \in Address, NEW y \in Address, x # y,
         SameBalances(as, new, Address \ {x, y}), Two(new, x, y) = Two(as, x, y)
  PROVE  Total(new) = Total(as)
<1> DEFINE f == Lamports(as)
           g == Lamports(new)
           h == [f EXCEPT ![x] = g[x]]
<1>1. f \in [Address -> Int] /\ g \in [Address -> Int]
  BY LamportsType
<1>2. \A a \in Address : f[a] = as[a].lamports /\ g[a] = new[a].lamports
  BY DEF Lamports
<1> HIDE DEF f, g
<1>3. f[x] + f[y] = g[x] + g[y] /\ \A a \in Address \ {x, y} : g[a] = f[a]
  BY <1>2 DEF Two, SameBalances
<1>4. h \in [Address -> Int] /\ h[x] = g[x] /\ \A a \in Address \ {x} : h[a] = f[a]
  BY <1>1
<1> HIDE DEF h
<1>5. h[y] = f[y] /\ \A a \in Address \ {y} : g[a] = h[a]
  BY <1>3, <1>4
<1>6. SumFunction(h) = (SumFunction(f) - f[x]) + g[x]
  BY <1>1, <1>4, LedgerAssumption, SumDiffer
<1>7. SumFunction(g) = (SumFunction(h) - f[y]) + g[y]
  BY <1>1, <1>4, <1>5, LedgerAssumption, SumDiffer
<1>8. f[x] \in Int /\ f[y] \in Int /\ g[x] \in Int /\ g[y] \in Int /\ SumFunction(f) \in Int
  BY <1>1, LedgerAssumption, SumType
<1>9. \A s, a, b, c, d \in Int : a + b = c + d => (((s - a) + c) - b) + d = s
  OBVIOUS
<1>10. SumFunction(g) = SumFunction(f)
  BY <1>3, <1>6, <1>7, <1>8, <1>9
<1> QED BY <1>10, TotalIs DEF f, g

\* A new account gets the deposit the payer had.
LEMMA CreateAccountTotal ==
  ASSUME NEW as \in Accounts, NEW by, NEW from \in Address, NEW to \in Address,
         NEW n \in Nat, NEW space \in Nat, CanCreateAccount(as, by, from, to, n)
  PROVE  Total(AfterCreateAccount(as, from, to, n, space)) = Total(as)
<1> DEFINE new == AfterCreateAccount(as, from, to, n, space)
<1>1. new \in Accounts
  BY CreateAccountType
<1>2. from # to /\ as[from].lamports >= n /\ as[to].lamports = 0
  BY EmptyAccount DEF CanCreateAccount
<1>3. /\ new[from].lamports = as[from].lamports - n
      /\ new[to] = Allocated(n, space)
      /\ \A a \in Address \ {from, to} : new[a] = as[a]
  BY <1>2 DEF AfterCreateAccount, Accounts, Account
<1>4. new[to].lamports = n
  BY <1>3 DEF Allocated, NoAccount
<1> HIDE DEF new
<1>5. Two(new, from, to) = Two(as, from, to)
  <2>1. \A x \in Nat : x >= n => x + 0 = (x - n) + n
    OBVIOUS
  <2>2. as[from].lamports + 0 = (as[from].lamports - n) + n
    BY <1>2, <2>1, LamportsType
  <2> QED BY <1>2, <1>3, <1>4, <2>2 DEF Two
<1>6. SameBalances(as, new, Address \ {from, to})
  BY <1>3 DEF SameBalances
<1>7. Total(new) = Total(as)
  BY <1>1, <1>2, <1>5, <1>6, TwoMove
<1> QED BY <1>7 DEF new

\* A transfer moves lamports from one account to another.
LEMMA TransferTotal ==
  ASSUME NEW as \in Accounts, NEW by, NEW from \in Address, NEW to \in Address,
         NEW n \in Nat, CanTransfer(as, by, from, to, n)
  PROVE  Total(AfterTransfer(as, from, to, n)) = Total(as)
<1> DEFINE new == AfterTransfer(as, from, to, n)
<1>1. new \in Accounts
  BY TransferType
<1>2. from # to /\ as[from].lamports >= n
  BY DEF CanTransfer
<1>3. /\ new[from].lamports = as[from].lamports - n
      /\ new[to].lamports = as[to].lamports + n
      /\ \A a \in Address \ {from, to} : new[a] = as[a]
  BY <1>2 DEF AfterTransfer, Accounts, Account
<1> HIDE DEF new
<1>4. Two(new, from, to) = Two(as, from, to)
  <2>1. \A x, y \in Nat : x >= n => x + y = (x - n) + (y + n)
    OBVIOUS
  <2>2. as[from].lamports \in Nat /\ as[to].lamports \in Nat
    BY LamportsType
  <2> QED BY <1>2, <1>3, <2>1, <2>2 DEF Two
<1>5. SameBalances(as, new, Address \ {from, to})
  BY <1>3 DEF SameBalances
<1>6. Total(new) = Total(as)
  BY <1>1, <1>2, <1>4, <1>5, TwoMove
<1> QED BY <1>6 DEF new

\* An instruction of the loader that moves no lamports leaves the total.
LEMMA QuietTotals ==
  ASSUME NEW as \in Accounts, NEW a \in Address
  PROVE  /\ \A k \in Key : Total(AfterInitializeBuffer(as, a, k)) = Total(as)
         /\ \A k \in Key \cup {None} : Total(AfterSetAuthority(as, a, k)) = Total(as)
         /\ \A offset \in Nat, bytes \in Seq(Byte) :
              Total(AfterWrite(as, a, offset, bytes)) = Total(as)
<1>1. ASSUME NEW k \in Key PROVE Total(AfterInitializeBuffer(as, a, k)) = Total(as)
  <2> DEFINE new == AfterInitializeBuffer(as, a, k)
  <2>1. /\ new[a] = SetState(as[a], BufferState(k))
        /\ \A x \in Address \ {a} : new[x] = as[x]
    BY DEF AfterInitializeBuffer, Accounts
  <2>2. as[a] \in Account /\ BufferState(k) \in State
    BY StateType DEF Accounts
  <2> HIDE DEF new
  <2>3. new[a].lamports = as[a].lamports
    <3>1. SetState(as[a], BufferState(k)).lamports = as[a].lamports
      BY <2>2, SetStateType
    <3> QED BY <2>1, <3>1
  <2>4. Total(new) = Total(as)
    BY <2>1, <2>3, SameTotal
  <2> QED BY <2>4 DEF new
<1>2. ASSUME NEW k \in Key \cup {None} PROVE Total(AfterSetAuthority(as, a, k)) = Total(as)
  <2> DEFINE new == AfterSetAuthority(as, a, k)
  <2>1. new[a].lamports = as[a].lamports /\ \A x \in Address \ {a} : new[x] = as[x]
    BY SetAuthorityEffect
  <2> HIDE DEF new
  <2>2. Total(new) = Total(as)
    BY <2>1, SameTotal
  <2> QED BY <2>2 DEF new
<1>3. ASSUME NEW offset \in Nat, NEW bytes \in Seq(Byte)
      PROVE  Total(AfterWrite(as, a, offset, bytes)) = Total(as)
  <2> DEFINE new == AfterWrite(as, a, offset, bytes)
  <2>1. new[a].lamports = as[a].lamports /\ \A x \in Address \ {a} : new[x] = as[x]
    BY DEF AfterWrite, Accounts, Account
  <2> HIDE DEF new
  <2>2. Total(new) = Total(as)
    BY <2>1, SameTotal
  <2> QED BY <2>2 DEF new
<1> QED BY <1>1, <1>2, <1>3

\* A deployment drains the buffer into the payer, who funds the programdata.
LEMMA DeployTotal ==
  ASSUME NEW as \in Accounts, NEW by, NEW payer \in Address, NEW d \in Address,
         NEW p \in Program, NEW buffer \in Address, NEW k \in Key, NEW maxLen \in Nat,
         NEW t \in Nat, CanDeploy(as, by, payer, d, p, buffer, k, maxLen)
  PROVE  Total(AfterDeploy(as, payer, d, p, buffer, k, maxLen, t)) = Total(as)
<1> DEFINE new == AfterDeploy(as, payer, d, p, buffer, k, maxLen, t)
<1>1. /\ p \in Address /\ payer # buffer /\ payer # d /\ payer # p
      /\ buffer # d /\ buffer # p /\ d # p
      /\ PayerLeft(as, payer, buffer, maxLen) \in Nat
      /\ ProgramDataCost(maxLen) \in Nat
  BY DeployAccounts
<1>2. new \in Accounts /\ Deployed(as, new, payer, d, p, buffer, k, maxLen, t)
  BY DeployEffect
<1> HIDE DEF new
<1>3. /\ new[payer].lamports = PayerLeft(as, payer, buffer, maxLen)
      /\ new[buffer].lamports = 0
      /\ new[d].lamports = ProgramDataCost(maxLen)
      /\ \A a \in Address \ {payer, buffer, d, p} : new[a] = as[a]
  <2>1. as[payer] \in Account /\ as[buffer] \in Account
    BY DEF Accounts
  <2>2. new[payer].lamports = PayerLeft(as, payer, buffer, maxLen) /\ new[buffer].lamports = 0
    BY <1>2, <2>1 DEF Deployed, Account
  <2>3. new[d].lamports = ProgramDataCost(maxLen)
    <3>1. DeployedProgramData(as, buffer, k, maxLen, t).lamports = ProgramDataCost(maxLen)
      BY DeployedProgramDataType
    <3> QED BY <1>2, <3>1 DEF Deployed
  <2> QED BY <1>2, <2>2, <2>3 DEF Deployed
<1>4. new[p].lamports = as[p].lamports
  <2>1. as[p] \in Account /\ ProgramState(d) \in State
    BY <1>1, StateType DEF Accounts
  <2>2. /\ SetState(as[p], ProgramState(d)) \in Account
        /\ SetState(as[p], ProgramState(d)).lamports = as[p].lamports
    BY <2>1, SetStateType
  <2> QED BY <1>2, <2>2 DEF Deployed, Account
<1>5. as[d].lamports = 0
  BY EmptyAccount DEF CanDeploy
<1>6. /\ as[payer].lamports \in Nat /\ as[buffer].lamports \in Nat
  BY LamportsType
<1>7. PayerLeft(as, payer, buffer, maxLen)
        = as[payer].lamports + as[buffer].lamports - ProgramDataCost(maxLen)
  BY DEF PayerLeft
<1>8. \A x, y, cost \in Nat : (x + y) + 0 = ((x + y - cost) + 0) + cost
  OBVIOUS
<1>9. Three(new, payer, buffer, d) = Three(as, payer, buffer, d)
  <2>1. (as[payer].lamports + as[buffer].lamports) + 0
          = ((as[payer].lamports + as[buffer].lamports - ProgramDataCost(maxLen)) + 0)
              + ProgramDataCost(maxLen)
    BY <1>1, <1>6, <1>8
  <2> QED BY <1>3, <1>5, <1>7, <2>1 DEF Three
<1>10. SameBalances(as, new, Address \ {payer, buffer, d})
  BY <1>3, <1>4 DEF SameBalances
<1>11. new \in Accounts
  BY <1>2
<1>12. Total(new) = Total(as)
  BY <1>1, <1>9, <1>10, <1>11, ThreeMove
<1> QED BY <1>12 DEF new

\* An upgrade leaves the programdata its rent and spills the rest of its balance
\* and the buffer's.
LEMMA UpgradeTotal ==
  ASSUME NEW as \in Accounts, NEW by, NEW d \in Address, NEW p \in Program,
         NEW buffer \in Address, NEW spill \in Address, NEW k \in Key, NEW t \in Nat,
         CanUpgrade(as, by, d, p, buffer, spill, k)
  PROVE  Total(AfterUpgrade(as, d, buffer, spill, k, t)) = Total(as)
<1> DEFINE new == AfterUpgrade(as, d, buffer, spill, k, t)
<1>1. /\ buffer # d /\ spill # d /\ spill # buffer
      /\ Surplus(as, d, buffer) \in Nat
  BY UpgradeAccounts
<1>2. new \in Accounts /\ Upgraded(as, new, d, buffer, spill, k, t)
  BY UpgradeEffect
<1> HIDE DEF new
<1>3. /\ new[spill].lamports = as[spill].lamports + Surplus(as, d, buffer)
      /\ new[buffer].lamports = 0
      /\ \A a \in Address \ {spill, buffer, d} : new[a] = as[a]
  <2>1. as[spill] \in Account /\ as[buffer] \in Account
    BY DEF Accounts
  <2> QED BY <1>2, <2>1 DEF Upgraded, Account
<1>4. new[d].lamports = BalanceRequired(as[d])
  <2>1. UpgradedProgramData(as, d, buffer, k, t).lamports = BalanceRequired(as[d])
    BY UpgradedProgramDataType
  <2> QED BY <1>2, <2>1 DEF Upgraded
<1>5. /\ as[spill].lamports \in Nat /\ as[buffer].lamports \in Nat /\ as[d].lamports \in Nat
      /\ new[d].lamports \in Nat
  BY <1>2, LamportsType
<1>6. Surplus(as, d, buffer) = as[d].lamports + as[buffer].lamports - BalanceRequired(as[d])
  BY DEF Surplus
<1>7. PICK x \in Nat, y \in Nat, z \in Nat, r \in Nat :
        /\ x = as[spill].lamports /\ y = as[buffer].lamports
        /\ z = as[d].lamports /\ r = BalanceRequired(as[d])
  BY <1>4, <1>5
<1>8. Three(new, spill, buffer, d) = Three(as, spill, buffer, d)
  <2>1. (x + y) + z = ((x + (z + y - r)) + 0) + r
    OBVIOUS
  <2> QED BY <1>3, <1>4, <1>6, <1>7, <2>1 DEF Three
<1>9. new \in Accounts /\ SameBalances(as, new, Address \ {spill, buffer, d})
  BY <1>2, <1>3 DEF SameBalances
<1>10. Total(new) = Total(as)
  BY <1>1, <1>8, <1>9, ThreeMove
<1> QED BY <1>10 DEF new

\* A closing refunds the recipient what the closed account had.
LEMMA CloseTotal ==
  ASSUME NEW as \in Accounts, NEW by, NEW a \in Address, NEW r \in Address,
         NEW k, NEW p \in Address, CanClose(as, by, a, r, k, p)
  PROVE  Total(AfterClose(as, a, r)) = Total(as)
<1> DEFINE new == AfterClose(as, a, r)
<1>1. new \in Accounts /\ Closed(as, new, a, r)
  BY CloseEffect
<1> HIDE DEF new
<1>2. a # r /\ new[a].lamports = 0 /\ \A x \in Address \ {r, a} : new[x] = as[x]
  BY <1>1 DEF Closed
<1>3. new[r].lamports = as[r].lamports + as[a].lamports
  BY <1>1 DEF Closed, Accounts, Account
<1>4. as[r].lamports \in Nat /\ as[a].lamports \in Nat
  BY LamportsType
<1>5. \A x, y \in Nat : x + y = (x + y) + 0
  OBVIOUS
<1>6. Two(new, r, a) = Two(as, r, a)
  BY <1>2, <1>3, <1>4, <1>5 DEF Two
<1>7. new \in Accounts /\ SameBalances(as, new, Address \ {r, a})
  BY <1>1, <1>2 DEF SameBalances
<1>8. Total(new) = Total(as)
  BY <1>2, <1>6, <1>7, TwoMove
<1> QED BY <1>8 DEF new

\* An account that is dropped for want of lamports had none to lose.
LEMMA PurgeTotal ==
  ASSUME NEW as \in Accounts
  PROVE  Total(Purge(as)) = Total(as)
<1>1. \A a \in Address : Purge(as)[a].lamports = as[a].lamports
  BY EmptyAccount DEF Purge
<1> QED BY <1>1, SameTotal

\* Every step conserves the lamports: one case per action of Next.
LEMMA NextLamports == TypeOK /\ LamportsConserved /\ [Next]_vars => LamportsConserved'
<1> SUFFICES ASSUME TypeOK, LamportsConserved, [Next]_vars PROVE LamportsConserved'
  OBVIOUS
<1> USE Arguments
<1>1. acct \in Accounts /\ slot \in Nat
  BY DEF TypeOK, Accounts
<1>2. ASSUME UNCHANGED <<acct, bank>> PROVE LamportsConserved'
  BY <1>2 DEF LamportsConserved
<1>3. ASSUME Executing, Total(acct') = Total(acct) PROVE LamportsConserved'
  BY <1>3 DEF LamportsConserved, Executing, ledger
<1>4. CASE UNCHANGED vars
  BY <1>2, <1>4 DEF vars
<1>5. ASSUME NEW s \in SignerSets, Begin(s) PROVE LamportsConserved'
  BY <1>2, <1>5 DEF Begin, ledger
<1>6. CASE Commit
  BY <1>1, <1>6, PurgeTotal DEF Commit, LamportsConserved
<1>7. CASE Abort
  BY <1>7 DEF Abort, ledger, LamportsConserved
<1>8. CASE Tick
  BY <1>2, <1>8 DEF Tick
<1>9. ASSUME NEW p \in Program, Evict(p) PROVE LamportsConserved'
  BY <1>2, <1>9 DEF Evict
<1>10. ASSUME NEW from \in Address, NEW to \in Address, NEW n \in Deposit,
              NEW space \in Spaces, CreateAccount(from, to, n, space)
       PROVE  LamportsConserved'
  BY <1>1, <1>3, <1>10, CreateAccountTotal DEF CreateAccount
<1>11. ASSUME NEW from \in Address, NEW to \in Address, NEW n \in Gift,
              Transfer(from, to, n)
       PROVE  LamportsConserved'
  BY <1>1, <1>3, <1>11, TransferTotal DEF Transfer
<1>12. ASSUME NEW b \in Address, NEW k \in Authority, InitializeBuffer(b, k)
       PROVE  LamportsConserved'
  BY <1>1, <1>3, <1>12, QuietTotals DEF InitializeBuffer
<1>13. ASSUME NEW b \in Address, NEW k \in Authority, NEW i \in Lengths, NEW c \in Chunk,
              Write(b, k, i, c)
       PROVE  LamportsConserved'
  BY <1>1, <1>3, <1>13, QuietTotals DEF Write
<1>14. ASSUME NEW payer \in Address, NEW d \in Address, NEW b \in Address,
              NEW p \in Program, NEW k \in Authority, NEW n \in Lengths,
              DeployWithMaxDataLen(payer, d, p, b, k, n)
       PROVE  LamportsConserved'
  BY <1>1, <1>3, <1>14, DeployTotal DEF DeployWithMaxDataLen
<1>15. ASSUME NEW d \in Address, NEW b \in Address, NEW spill \in Address,
              NEW p \in Program, NEW k \in Authority, Upgrade(d, p, b, spill, k)
       PROVE  LamportsConserved'
  BY <1>1, <1>3, <1>15, UpgradeTotal DEF Upgrade
<1>16. ASSUME NEW a \in Address, NEW k \in Authority, NEW new \in Authority \cup {None},
              SetAuthority(a, k, new)
       PROVE  LamportsConserved'
  BY <1>1, <1>3, <1>16, QuietTotals DEF SetAuthority
<1>17. ASSUME NEW a \in Address, NEW r \in Address, NEW p \in Address,
              NEW k \in Authority, Close(a, r, k, p)
       PROVE  LamportsConserved'
  BY <1>1, <1>3, <1>17, CloseTotal DEF Close
<1>18. ASSUME NEW p \in Program, Invoke(p) PROVE LamportsConserved'
  BY <1>2, <1>18 DEF Invoke, Executing, ledger
<1> QED BY <1>4, <1>5, <1>6, <1>7, <1>8, <1>9, <1>10, <1>11, <1>12, <1>13, <1>14,
           <1>15, <1>16, <1>17, <1>18 DEF Next, Runtime, Loader

\* Whatever the instructions of a transaction, and whether it is committed or not,
\* the ledger holds the lamports it started with, none made and none lost.
THEOREM NoLamportLost == Spec => []LamportsConserved
<1>1. Init => LamportsConserved
  BY DEF Init, LamportsConserved
<1> QED BY <1>1, InitType, NextType, NextLamports, PTL DEF Spec
-----------------------------------------------------------------------------
(* The state in front of an account and the code behind it                 *)

\* A state that fits is in one piece after set_state.
LEMMA SetStateFramed ==
  ASSUME NEW account \in Account, NEW state \in State,
         StateLen(state.tag) <= Len(account.data)
  PROVE  Framed(SetState(account, state))
<1> DEFINE new == SetState(account, state)
           n == StateLen(state.tag)
<1>1. /\ new.state = state /\ Len(new.data) = Len(account.data)
      /\ Len(account.data) \in Nat
  BY SetStateType, AccountFields
<1>2. n \in Nat
  BY StateLens DEF State
<1>3. \A i \in 1..n : new.data[i] = Meta
  <2>1. \A i \in 1..n : i \in 1..Len(account.data) /\ i <= n
    BY <1>1, <1>2
  <2> QED BY <2>1, SetStateCells
<1> HIDE DEF new
<1>4. Framed(new)
  BY <1>1, <1>3 DEF Framed
<1> QED BY <1>4 DEF new

\* A write behind the state leaves it in one piece.
LEMMA OverwriteFramed ==
  ASSUME NEW account \in Account, Framed(account), NEW offset \in Nat,
         StateLen(account.state.tag) <= offset, NEW bytes \in Seq(Cell)
  PROVE  Framed([account EXCEPT !.data = Overwrite(account.data, offset, bytes)])
<1> DEFINE data == Overwrite(account.data, offset, bytes)
           new == [account EXCEPT !.data = data]
           n == StateLen(account.state.tag)
<1>1. account.data \in Seq(Cell) /\ Len(account.data) \in Nat /\ account.state.tag \in Tag
  BY AccountFields
<1>2. Len(data) = Len(account.data) /\ data \in Seq(Cell) /\ n \in Nat
  BY <1>1, OverwriteType, StateLens
<1>3. ASSUME n <= Len(account.data), NEW i \in 1..n
      PROVE  data[i] = account.data[i]
  <2>1. i \in 1..Len(account.data)
    BY <1>1, <1>2, <1>3
  <2>2. ~(i \in offset + 1 .. offset + Len(bytes))
    BY <1>2
  <2>3. data[i] = IF i \in offset + 1 .. offset + Len(bytes) THEN bytes[i - offset]
                  ELSE account.data[i]
    BY <1>1, <2>1, DataDomain DEF Overwrite
  <2> QED BY <2>2, <2>3
<1> HIDE DEF data
<1>4. new.data = data /\ new.state = account.state
  BY DEF Account
<1> HIDE DEF new
<1>5. Framed(new)
  BY <1>2, <1>3, <1>4 DEF Framed
<1> QED BY <1>5 DEF new, data

\* Re-serialising a programdata's state leaves its content.
LEMMA SetStateContent ==
  ASSUME NEW account \in Account, NEW state \in State,
         ProgramDataMeta <= Len(account.data)
  PROVE  ProgramDataContent(SetState(account, state)) = ProgramDataContent(account)
<1> DEFINE new == SetState(account, state)
           n == Len(account.data) - ProgramDataMeta
<1>1. new \in Account /\ Len(new.data) = Len(account.data)
  BY SetStateType
<1>2. Len(account.data) \in Nat /\ ProgramDataMeta \in Nat /\ n \in Nat
  BY AccountFields, Sizes
<1>3. /\ Content(new, ProgramDataMeta) \in Seq(Cell)
      /\ Content(account, ProgramDataMeta) \in Seq(Cell)
      /\ Len(Content(new, ProgramDataMeta)) = n
      /\ Len(Content(account, ProgramDataMeta)) = n
  <2> HIDE DEF new
  <2> QED BY <1>1, <1>2, ContentType
<1>4. ASSUME NEW i \in 1..n
      PROVE  Content(new, ProgramDataMeta)[i] = Content(account, ProgramDataMeta)[i]
  <2>1. /\ Content(new, ProgramDataMeta)[i] = new.data[ProgramDataMeta + i]
        /\ Content(account, ProgramDataMeta)[i] = account.data[ProgramDataMeta + i]
    <3> HIDE DEF new
    <3> QED BY <1>1, <1>2, ContentCells
  <2>2. StateLen(state.tag) \in Nat /\ StateLen(state.tag) <= ProgramDataMeta
    BY StateLens DEF State
  <2>3. /\ ProgramDataMeta + i \in 1..Len(account.data)
        /\ ~(ProgramDataMeta + i <= StateLen(state.tag))
    BY <1>2, <2>2
  <2>4. new.data[ProgramDataMeta + i] = account.data[ProgramDataMeta + i]
    BY <2>3, SetStateCells
  <2> QED BY <2>1, <2>4
<1> HIDE DEF new, n
<1>5. Content(new, ProgramDataMeta) = Content(account, ProgramDataMeta)
  BY <1>3, <1>4, SeqEqual
<1> QED BY <1>5 DEF ProgramDataContent, new

\* A programdata that holds code is a state in one piece, the code, and zeros.
LEMMA HoldsCodeContent ==
  ASSUME NEW account \in Account, account.state.tag = "ProgramData",
         NEW code, Len(code) \in Nat, HoldsCode(account.data, code)
  PROVE  Framed(account) /\ Padded(code, ProgramDataContent(account))
<1> DEFINE n == Len(account.data)
           content == Content(account, ProgramDataMeta)
<1>1. n \in Nat /\ ProgramDataMeta \in Nat /\ StateLen("ProgramData") = ProgramDataMeta
  BY AccountFields, Sizes, StateLens DEF Tag
<1>2. ProgramDataMeta + Len(code) <= n
  BY DEF HoldsCode
<1>3. ProgramDataMeta <= n /\ n - ProgramDataMeta \in Nat
  BY <1>1, <1>2
<1>4. Framed(account)
  <2>1. \A i \in 1..ProgramDataMeta : i \in 1..n /\ i <= ProgramDataMeta
    BY <1>1, <1>3
  <2>2. \A i \in 1..ProgramDataMeta : account.data[i] = Meta
    BY <2>1 DEF HoldsCode
  <2> QED BY <1>1, <1>3, <2>2 DEF Framed
<1>5. /\ Len(code) <= n - ProgramDataMeta
      /\ Len(content) = n - ProgramDataMeta
      /\ \A i \in 1 .. n - ProgramDataMeta :
           content[i] = IF i <= Len(code) THEN code[i] ELSE Zero
  BY CodeContent DEF ProgramDataContent
<1> HIDE DEF content, n
<1>6. Padded(code, content)
  BY <1>5 DEF Padded
<1> QED BY <1>4, <1>6 DEF ProgramDataContent, content
-----------------------------------------------------------------------------
(* Sound accounts, and changes that leave the programs alone               *)

AllSound(as) == \A a \in Address : Sound(as[a])

\* A change that no program and no programdata can be told by.
Quiet(old, new) ==
  /\ new.executable = old.executable
  /\ old.executable => new = old
  /\ new.state.tag = "ProgramData" <=> old.state.tag = "ProgramData"
  /\ old.state.tag = "ProgramData" => new.state = old.state /\ new.data = old.data

QuietElsewhere(as, new, S) == \A a \in Address \ S : Quiet(as[a], new[a])

\* An account that carries no state is sound when it is not executable.
LEMMA PlainSound ==
  /\ Sound(NoAccount)
  /\ \A n, space \in Nat : Sound(Allocated(n, space)) /\ Quiet(NoAccount, Allocated(n, space))
<1>1. /\ NoAccount.state.tag = "Uninitialized" /\ NoAccount.executable = FALSE
  BY EmptyAccount
<1>2. \A n, space \in Nat : /\ Allocated(n, space).state.tag = "Uninitialized"
                            /\ Allocated(n, space).executable = FALSE
  BY DEF Allocated, NoAccount, Uninitialized
<1> QED BY <1>1, <1>2 DEF Sound, Quiet, Verified, Framed

\* An account that is only debited or credited stays sound, as long as what an
\* executable account holds does not change and a programdata is not emptied.
LEMMA BalanceSound ==
  ASSUME NEW old \in Account, Sound(old), NEW n \in Nat,
         old.executable => n = old.lamports,
         old.state.tag = "ProgramData" => n > 0
  PROVE  /\ Sound([old EXCEPT !.lamports = n])
         /\ Quiet(old, [old EXCEPT !.lamports = n])
<1> DEFINE new == [old EXCEPT !.lamports = n]
<1>1. /\ new.state = old.state /\ new.data = old.data /\ new.owner = old.owner
      /\ new.executable = old.executable /\ new.lamports = n
  BY DEF Account
<1>2. old.executable => new = old
  BY DEF Account
<1> HIDE DEF new
<1>3. Framed(new) /\ Verified(new)
  BY <1>1 DEF Sound, Framed, Verified, ProgramDataContent, Content
<1>4. Sound(new) /\ Quiet(old, new)
  BY <1>1, <1>2, <1>3 DEF Sound, Quiet
<1> QED BY <1>4 DEF new

\* Rewriting an account that is neither executable nor a programdata, to one that
\* is neither, leaves the programs alone.
LEMMA BufferSound ==
  ASSUME NEW old, ~old.executable, old.state.tag # "ProgramData",
         NEW new, ~new.executable, new.executable = old.executable,
         new.state.tag \in {"Uninitialized", "Buffer"}, Framed(new)
  PROVE  Sound(new) /\ Quiet(old, new)
<1>1. Verified(new)
  BY DEF Verified
<1> QED BY <1>1 DEF Sound, Quiet

\* Accounts the system program owns are no program's.
LEMMA SystemQuiet ==
  ASSUME NEW as \in Accounts, SystemEmpty(as), AllSound(as), NEW a \in Address,
         as[a].owner = "system"
  PROVE  as[a].state.tag # "ProgramData" /\ ~as[a].executable
BY SystemTag DEF AllSound, Sound

\* An account left as it is is quiet.
LEMMA SameQuiet == \A account : Quiet(account, account)
BY DEF Quiet

-----------------------------------------------------------------------------
(* The instructions that leave every program alone                         *)

\* What such an instruction guarantees.
LeavesPrograms(as, new) == AllSound(new) /\ QuietElsewhere(as, new, {})

\* CreateAccount debits a system account and fills an absent one.
LEMMA CreateAccountLeaves ==
  ASSUME NEW as \in Accounts, SystemEmpty(as), AllSound(as), NEW by,
         NEW from \in Address, NEW to \in Address, NEW n \in Nat, NEW space \in Nat,
         CanCreateAccount(as, by, from, to, n)
  PROVE  LeavesPrograms(as, AfterCreateAccount(as, from, to, n, space))
<1> DEFINE new == AfterCreateAccount(as, from, to, n, space)
<1>1. /\ from # to /\ as[from].owner = "system" /\ as[to] = NoAccount
      /\ as[from].lamports >= n
  BY DEF CanCreateAccount
<1>2. /\ new[from] = [as[from] EXCEPT !.lamports = as[from].lamports - n]
      /\ new[to] = Allocated(n, space)
      /\ \A a \in Address \ {from, to} : new[a] = as[a]
  BY <1>1 DEF AfterCreateAccount, Accounts
<1>3. as[from] \in Account /\ as[from].lamports - n \in Nat
  BY <1>1, AccountFields, Balances DEF Accounts
<1>4. as[from].state.tag # "ProgramData" /\ ~as[from].executable
  BY <1>1, SystemQuiet
<1>5. Sound(new[from]) /\ Quiet(as[from], new[from])
  BY <1>2, <1>3, <1>4, BalanceSound DEF AllSound
<1>6. Sound(new[to]) /\ Quiet(as[to], new[to])
  BY <1>1, <1>2, PlainSound
<1> HIDE DEF new
<1>7. \A a \in Address : Sound(new[a]) /\ Quiet(as[a], new[a])
  BY <1>2, <1>5, <1>6, SameQuiet DEF AllSound
<1> QED BY <1>7 DEF LeavesPrograms, AllSound, QuietElsewhere, new

\* Transfer debits a system account and credits one that is not executable.
LEMMA TransferLeaves ==
  ASSUME NEW as \in Accounts, SystemEmpty(as), AllSound(as), NEW by,
         NEW from \in Address, NEW to \in Address, NEW n \in Nat,
         CanTransfer(as, by, from, to, n)
  PROVE  LeavesPrograms(as, AfterTransfer(as, from, to, n))
<1> DEFINE new == AfterTransfer(as, from, to, n)
<1>1. /\ from # to /\ as[from].owner = "system" /\ ~as[to].executable
      /\ as[from].lamports >= n
  BY DEF CanTransfer
<1>2. /\ new[from] = [as[from] EXCEPT !.lamports = as[from].lamports - n]
      /\ new[to] = [as[to] EXCEPT !.lamports = as[to].lamports + n]
      /\ \A a \in Address \ {from, to} : new[a] = as[a]
  BY <1>1 DEF AfterTransfer, Accounts
<1> HIDE DEF new
<1>3. as[from] \in Account /\ as[to] \in Account
  BY DEF Accounts
<1>4. /\ as[from].lamports - n \in Nat /\ as[to].lamports + n \in Nat
      /\ as[to].lamports > 0 => as[to].lamports + n > 0
  <2>1. as[from].lamports \in Nat /\ as[to].lamports \in Nat
    BY <1>3, AccountFields
  <2>2. as[from].lamports >= n
    BY <1>1
  <2>3. as[from].lamports - n \in Nat /\ as[to].lamports + n \in Nat
    BY <2>1, <2>2, Balances
  <2>4. \A x, y \in Nat : x > 0 => x + y > 0
    OBVIOUS
  <2>5. as[to].lamports > 0 => as[to].lamports + n > 0
    BY <2>1, <2>4
  <2> QED BY <2>3, <2>5
<1>5. as[from].state.tag # "ProgramData" /\ ~as[from].executable
  BY <1>1, SystemQuiet
<1>6. Sound(new[from]) /\ Quiet(as[from], new[from])
  <2> DEFINE left == as[from].lamports - n
  <2>1. left \in Nat /\ Sound(as[from]) /\ new[from] = [as[from] EXCEPT !.lamports = left]
    BY <1>2, <1>4 DEF AllSound
  <2> HIDE DEF left
  <2> QED BY <1>3, <1>5, <2>1, BalanceSound
<1>7. as[to].state.tag = "ProgramData" => as[to].lamports > 0
  BY DEF AllSound, Sound
<1>8. Sound(new[to]) /\ Quiet(as[to], new[to])
  BY <1>3, <1>1, <1>2, <1>4, <1>7, BalanceSound DEF AllSound
<1>9. \A a \in Address : Sound(new[a]) /\ Quiet(as[a], new[a])
  BY <1>2, <1>6, <1>8, SameQuiet DEF AllSound
<1> QED BY <1>9 DEF LeavesPrograms, AllSound, QuietElsewhere, new

\* InitializeBuffer writes the state of a buffer over an account without one.
LEMMA InitializeBufferLeaves ==
  ASSUME NEW as \in Accounts, AllSound(as), NEW b \in Address, NEW k \in Key,
         CanInitializeBuffer(as, b)
  PROVE  LeavesPrograms(as, AfterInitializeBuffer(as, b, k))
<1> DEFINE new == AfterInitializeBuffer(as, b, k)
           set == SetState(as[b], BufferState(k))
<1>1. /\ as[b].state.tag = "Uninitialized" /\ ~as[b].executable
      /\ Len(as[b].data) >= BufferMeta
  BY DEF CanInitializeBuffer, Holds, Changeable
<1>2. new[b] = set /\ \A a \in Address \ {b} : new[a] = as[a]
  BY DEF AfterInitializeBuffer, Accounts
<1>3. as[b] \in Account /\ BufferState(k) \in State /\ BufferState(k).tag = "Buffer"
  BY StateType DEF Accounts, BufferState, Uninitialized
<1>4. StateLen(BufferState(k).tag) <= Len(as[b].data)
  <2>1. BufferMeta \in Nat /\ Len(as[b].data) \in Nat /\ StateLen("Buffer") = BufferMeta
    BY <1>3, Sizes, AccountFields, StateLens DEF Tag
  <2> QED BY <1>1, <1>3, <2>1
<1>5. Framed(set) /\ set.state.tag = "Buffer" /\ set.executable = as[b].executable
  BY <1>3, <1>4, SetStateFramed, SetStateType
<1> HIDE DEF new, set
<1>6. Sound(set) /\ Quiet(as[b], set)
  BY <1>1, <1>5, BufferSound
<1>7. \A a \in Address : Sound(new[a]) /\ Quiet(as[a], new[a])
  BY <1>2, <1>6, SameQuiet DEF AllSound
<1> QED BY <1>7 DEF LeavesPrograms, AllSound, QuietElsewhere, new

\* Write changes a buffer behind its state.
LEMMA WriteLeaves ==
  ASSUME NEW as \in Accounts, AllSound(as), NEW by, NEW b \in Address, NEW k,
         NEW i \in Nat, NEW bytes \in Seq(Byte), CanWrite(as, by, b, k, i, bytes)
  PROVE  LeavesPrograms(as, AfterWrite(as, b, i, bytes))
<1> DEFINE new == AfterWrite(as, b, i, bytes)
           written == [as[b] EXCEPT !.data = Overwrite(as[b].data, BufferMeta + i, bytes)]
<1>1. as[b].state.tag = "Buffer" /\ ~as[b].executable
  BY DEF CanWrite, Holds, Changeable
<1>2. new[b] = written /\ \A a \in Address \ {b} : new[a] = as[a]
  BY DEF AfterWrite, Accounts
<1>3. as[b] \in Account /\ bytes \in Seq(Cell)
  BY SeqMonotonic DEF Accounts, Cell
<1>4. BufferMeta + i \in Nat /\ StateLen(as[b].state.tag) <= BufferMeta + i
  <2>1. BufferMeta \in Nat /\ StateLen("Buffer") = BufferMeta
    BY Sizes, StateLens DEF Tag
  <2> QED BY <1>1, <2>1
<1>5. Framed(written)
  BY <1>3, <1>4, OverwriteFramed DEF AllSound, Sound
<1>6. written.state = as[b].state /\ written.executable = as[b].executable
  BY <1>3 DEF Account
<1> HIDE DEF new, written
<1>7. Sound(written) /\ Quiet(as[b], written)
  BY <1>1, <1>5, <1>6, BufferSound
<1>8. \A a \in Address : Sound(new[a]) /\ Quiet(as[a], new[a])
  BY <1>2, <1>7, SameQuiet DEF AllSound
<1> QED BY <1>8 DEF LeavesPrograms, AllSound, QuietElsewhere, new
-----------------------------------------------------------------------------
(* The programdata a deployment or an upgrade leaves                       *)

\* An upgrade replaces everything behind the metadata.
LEMMA UpgradedCells ==
  ASSUME NEW as \in Accounts, NEW d \in Address, NEW b \in Address, NEW k \in Key,
         NEW t \in Nat, BufferContent(as[b]) \in Seq(Cell),
         Len(as[d].data) >= ProgramDataMeta + Len(BufferContent(as[b]))
  PROVE  HoldsCode(UpgradedProgramData(as, d, b, k, t).data, BufferContent(as[b]))
<1> DEFINE code == BufferContent(as[b])
           state == ProgramDataState(t, k)
           set == SetState(as[d], state)
           mid == Overwrite(set.data, ProgramDataMeta, code)
           end == ProgramDataMeta + Len(code)
           data == ZeroFrom(mid, end)
           n == Len(as[d].data)
<1>1. as[d] \in Account /\ state \in State /\ StateLen(state.tag) = ProgramDataMeta
  BY StateType, StateLens DEF Accounts, ProgramDataState, Uninitialized, Tag
<1>2. /\ Len(code) \in Nat /\ n \in Nat /\ ProgramDataMeta \in Nat /\ end \in Nat
      /\ end <= n /\ ProgramDataMeta <= end
  <2>1. Len(code) \in Nat /\ n \in Nat /\ ProgramDataMeta \in Nat
    BY <1>1, DataDomain, AccountFields, Sizes
  <2>2. n >= end
    OBVIOUS
  <2> HIDE DEF code, n
  <2>3. end \in Nat /\ ProgramDataMeta <= end
    BY <2>1, SizeArithmetic
  <2> HIDE DEF end
  <2>4. end <= n
    BY <2>1, <2>2, <2>3
  <2> QED BY <2>1, <2>3, <2>4
<1> HIDE DEF state
<1>3. set \in Account /\ Len(set.data) = n /\ set.data \in Seq(Cell)
  BY <1>1, SetStateType, AccountFields
<1>4. ASSUME NEW i \in 1..n, i <= ProgramDataMeta PROVE set.data[i] = Meta
  BY <1>1, <1>4, SetStateCells
<1> HIDE DEF set, code
<1>5. mid \in Seq(Cell) /\ Len(mid) = n
  <2>1. code \in Seq(Cell)
    BY DEF code
  <2> QED BY <1>2, <1>3, <2>1, OverwriteType
<1>6. ASSUME NEW i \in 1..n
      PROVE  mid[i] = IF i \in ProgramDataMeta + 1 .. end THEN code[i - ProgramDataMeta]
                      ELSE set.data[i]
  BY <1>3, DataDomain DEF Overwrite
<1> HIDE DEF mid
<1>7. Len(data) = n
  BY <1>2, <1>5, ZeroFromType
<1>8. ASSUME NEW i \in 1..n
      PROVE  data[i] = IF i <= ProgramDataMeta THEN Meta
                       ELSE IF i <= end THEN code[i - ProgramDataMeta] ELSE Zero
  <2>1. data[i] = IF i > end THEN Zero ELSE mid[i]
    BY <1>5, DataDomain DEF ZeroFrom
  <2> HIDE DEF data
  <2>2. CASE i <= ProgramDataMeta
    <3>1. ~(i > end) /\ ~(i \in ProgramDataMeta + 1 .. end)
      BY <1>2, <2>2
    <3> QED BY <1>4, <1>6, <2>1, <2>2, <3>1
  <2>3. CASE ~(i <= ProgramDataMeta) /\ i <= end
    <3>1. ~(i > end) /\ i \in ProgramDataMeta + 1 .. end
      BY <1>2, <2>3
    <3> QED BY <1>6, <2>1, <2>3, <3>1
  <2>4. CASE ~(i <= end)
    <3>1. i > end /\ ~(i <= ProgramDataMeta)
      BY <1>2, <2>4
    <3> QED BY <2>1, <2>4, <3>1
  <2> QED BY <2>2, <2>3, <2>4
<1> HIDE DEF data
<1>9. HoldsCode(data, code)
  BY <1>2, <1>7, <1>8 DEF HoldsCode
<1>10. UpgradedProgramData(as, d, b, k, t).data = data
  <2>1. UpgradedProgramData(as, d, b, k, t)
          = [set EXCEPT !.lamports = BalanceRequired(set), !.data = data]
    BY DEF UpgradedProgramData, set, state, code, mid, data
  <2> QED BY <1>3, <2>1 DEF Account
<1> QED BY <1>9, <1>10 DEF code
-----------------------------------------------------------------------------
(* The instructions that change a program                                  *)

\* A programdata that holds verified code.
Installed(account, code) ==
  /\ account.state.tag = "ProgramData" /\ ~account.executable
  /\ ProgramDataMeta < Len(account.data) /\ Len(account.data) <= MaxDataLen
  /\ code \in Image /\ Padded(code, ProgramDataContent(account))

\* What the four instructions do to program p, for those who signed.
Deploys(as, new, by, p, k, code) ==
  /\ ~as[p].executable /\ as[Pda[p]].state.tag # "ProgramData"
  /\ new[p].executable /\ new[p].state.programdata = Pda[p]
  /\ Installed(new[Pda[p]], code)
  /\ new[Pda[p]].state.authority = k /\ k \in by
  /\ QuietElsewhere(as, new, {p, Pda[p]})

Live(as, p) == as[p].executable /\ as[Pda[p]].state.tag = "ProgramData"

Upgrades(as, new, by, p, code) ==
  /\ Live(as, p) /\ as[Pda[p]].state.authority \in by
  /\ Installed(new[Pda[p]], code)
  /\ new[Pda[p]].state.authority = as[Pda[p]].state.authority
  /\ QuietElsewhere(as, new, {Pda[p]})

HandsOver(as, new, by, p) ==
  /\ Live(as, p) /\ as[Pda[p]].state.authority \in by
  /\ new[Pda[p]].state.tag = "ProgramData" /\ ~new[Pda[p]].executable
  /\ new[Pda[p]].state.authority \in Key \cup {None}
  /\ ProgramDataContent(new[Pda[p]]) = ProgramDataContent(as[Pda[p]])
  /\ QuietElsewhere(as, new, {Pda[p]})

Closes(as, new, by, p) ==
  /\ Live(as, p) /\ as[Pda[p]].state.authority \in by
  /\ new[Pda[p]].state.tag # "ProgramData" /\ ~new[Pda[p]].executable
  /\ QuietElsewhere(as, new, {Pda[p]})

\* A funded programdata of legal size that holds the code of a buffer is sound.
LEMMA InstalledSound ==
  ASSUME NEW account \in Account, account.state.tag = "ProgramData", ~account.executable,
         account.lamports > 0, Len(account.data) <= MaxDataLen,
         NEW code \in Image, Len(code) \in Nat, Len(code) > 0,
         HoldsCode(account.data, code)
  PROVE  Sound(account) /\ Installed(account, code)
<1>1. Framed(account) /\ Padded(code, ProgramDataContent(account))
  BY HoldsCodeContent
<1>2. ProgramDataMeta < Len(account.data)
  <2>1. ProgramDataMeta \in Nat /\ Len(account.data) \in Nat
    BY Sizes, AccountFields
  <2>2. ProgramDataMeta + Len(code) <= Len(account.data)
    BY DEF HoldsCode
  <2>3. \A x, y, z \in Nat : y > 0 /\ x + y <= z => x < z
    OBVIOUS
  <2> QED BY <2>1, <2>2, <2>3
<1>3. Verified(account)
  BY <1>1 DEF Verified
<1> QED BY <1>1, <1>2, <1>3 DEF Sound, Installed

\* A deployment makes the program and installs the content of the buffer.
LEMMA DeployPrograms ==
  ASSUME NEW as \in Accounts, SystemEmpty(as), AllSound(as), NEW by,
         NEW payer \in Address, NEW p \in Program,
         NEW b \in Address, NEW k \in Key, NEW maxLen \in Nat, NEW t \in Nat,
         CanDeploy(as, by, payer, Pda[p], p, b, k, maxLen)
  PROVE  LET new == AfterDeploy(as, payer, Pda[p], p, b, k, maxLen, t)
         IN AllSound(new) /\ Deploys(as, new, by, p, k, BufferContent(as[b]))
<1> DEFINE d == Pda[p]
           new == AfterDeploy(as, payer, d, p, b, k, maxLen, t)
           code == BufferContent(as[b])
<1>1. d \in Address
  BY PdaAssumption
<1>2. /\ new[payer] = [as[payer] EXCEPT !.lamports = PayerLeft(as, payer, b, maxLen)]
      /\ new[b] = [as[b] EXCEPT !.lamports = 0]
      /\ new[d] = DeployedProgramData(as, b, k, maxLen, t)
      /\ new[p] = [SetState(as[p], ProgramState(d)) EXCEPT !.executable = TRUE]
      /\ \A a \in Address \ {payer, b, d, p} : new[a] = as[a]
  <2>1. Deployed(as, new, payer, d, p, b, k, maxLen, t)
    BY <1>1, DeployEffect
  <2> HIDE DEF new
  <2> QED BY <2>1 DEF Deployed
<1>3. /\ p \in Address /\ PayerLeft(as, payer, b, maxLen) \in Nat
      /\ ProgramDataCost(maxLen) \in Nat \ {0}
      /\ payer # d /\ payer # p /\ b # d /\ b # p /\ d # p
  BY <1>1, DeployAccounts
<1>4. /\ as[payer].owner = "system" /\ as[d] = NoAccount
      /\ ProgramReady(as[p]) /\ BufferReady(as[b], k, by)
      /\ maxLen >= Len(code) /\ ProgramDataMeta + maxLen <= MaxDataLen
  BY DEF CanDeploy, Pays
<1>5. as[payer] \in Account /\ as[b] \in Account /\ as[p] \in Account
  BY <1>3 DEF Accounts
<1> HIDE DEF new, code
<1>6. Sound(new[payer]) /\ Quiet(as[payer], new[payer])
  <2> DEFINE left == PayerLeft(as, payer, b, maxLen)
  <2>1. as[payer].state.tag # "ProgramData" /\ ~as[payer].executable /\ Sound(as[payer])
    BY <1>4, SystemQuiet DEF AllSound
  <2>2. left \in Nat /\ new[payer] = [as[payer] EXCEPT !.lamports = left]
    BY <1>2, <1>3
  <2> HIDE DEF left
  <2> QED BY <1>5, <2>1, <2>2, BalanceSound
<1>7. Sound(new[b]) /\ Quiet(as[b], new[b])
  <2>1. as[b].state.tag = "Buffer" /\ ~as[b].executable /\ Sound(as[b])
    BY <1>4 DEF BufferReady, Holds, Changeable, AllSound
  <2>2. 0 \in Nat /\ new[b] = [as[b] EXCEPT !.lamports = 0]
    BY <1>2
  <2> QED BY <1>5, <2>1, <2>2, BalanceSound
<1>8. /\ Sound(new[d]) /\ Installed(new[d], code)
      /\ new[d].state.authority = k
  <2>1. /\ code \in Image /\ code \in Seq(Cell) /\ Len(code) \in Nat /\ Len(code) > 0
    BY <1>4, BufferCode DEF code
  <2> DEFINE made == DeployedProgramData(as, b, k, maxLen, t)
  <2>2. new[d] = made
    BY <1>2
  <2>3. HoldsCode(made.data, code) /\ Len(made.data) = ProgramDataMeta + maxLen
    BY <1>4, <2>1, DeployedCells DEF code
  <2>4. made \in Account
    BY DeployedProgramDataType
  <2>5. made.lamports = ProgramDataCost(maxLen)
    BY DeployedProgramDataType
  <2>6. made.state = ProgramDataState(t, k)
    BY DeployedProgramDataType
  <2>7. made.executable = FALSE
    BY DeployedProgramDataType
  <2> HIDE DEF made
  <2>8. HoldsCode(new[d].data, code) /\ Len(new[d].data) = ProgramDataMeta + maxLen
    BY <2>2, <2>3
  <2>9. /\ new[d] \in Account /\ new[d].lamports = ProgramDataCost(maxLen)
        /\ new[d].state = ProgramDataState(t, k) /\ new[d].executable = FALSE
    BY <2>2, <2>4, <2>5, <2>7, <2>6
  <2>10. new[d].state.tag = "ProgramData" /\ new[d].state.authority = k
    BY <2>9 DEF ProgramDataState, Uninitialized
  <2>11. new[d].lamports > 0
    BY <1>3, <2>9
  <2>12. Len(new[d].data) <= MaxDataLen
    BY <1>4, <2>8
  <2> QED BY <2>1, <2>8, <2>9, <2>10, <2>11, <2>12, InstalledSound
<1>9. Sound(new[p]) /\ new[p].executable /\ new[p].state.programdata = d
  <2> DEFINE state == ProgramState(d)
             set == SetState(as[p], state)
  <2>1. state \in State
    BY <1>1, StateType
  <2>2. state.tag = "Program" /\ state.programdata = d
    BY DEF ProgramState, Uninitialized
  <2>3. Len(as[p].data) >= ProgramLen /\ as[p].lamports >= Rent(Len(as[p].data))
        /\ as[p].owner = "loader"
    BY <1>4 DEF ProgramReady, Changeable
  <2>4. ProgramLen \in Nat \ {0} /\ Len(as[p].data) \in Nat /\ as[p].lamports \in Nat
    BY <1>5, Sizes, AccountFields
  <2>5. StateLen(state.tag) <= Len(as[p].data) /\ Len(as[p].data) > 0
    <3>1. StateLen(state.tag) = ProgramLen
      BY <2>2, StateLens DEF Tag
    <3>2. \A x, y \in Nat : x >= y /\ y # 0 => y <= x /\ x > 0
      OBVIOUS
    <3> QED BY <2>3, <2>4, <3>1, <3>2
  <2>6. as[p].lamports > 0
    <3>1. Rent(Len(as[p].data)) \in Nat /\ Rent(Len(as[p].data)) > 0
      BY <2>4, <2>5, RentType
    <3>2. \A x, y \in Nat : x >= y /\ y > 0 => x > 0
      OBVIOUS
    <3> QED BY <2>3, <2>4, <3>1, <3>2
  <2> HIDE DEF state
  <2>7. /\ Framed(set) /\ set \in Account /\ set.state = state
        /\ set.owner = "loader" /\ set.lamports = as[p].lamports
    BY <1>5, <2>1, <2>3, <2>5, SetStateFramed, SetStateType
  <2>8. new[p] = [set EXCEPT !.executable = TRUE]
    BY <1>2 DEF state
  <2> HIDE DEF set
  <2>9. /\ new[p].state = state /\ new[p].data = set.data /\ new[p].owner = "loader"
        /\ new[p].lamports = as[p].lamports /\ new[p].executable = TRUE
    BY <2>7, <2>8 DEF Account
  <2>10. Framed(new[p]) /\ Verified(new[p])
    BY <2>2, <2>7, <2>9 DEF Framed, Verified
  <2> QED BY <2>2, <2>6, <2>9, <2>10 DEF Sound
<1>10. ASSUME NEW a \in Address \ {p, d} PROVE Sound(new[a]) /\ Quiet(as[a], new[a])
  BY <1>2, <1>6, <1>7, SameQuiet DEF AllSound
<1>11. AllSound(new)
  BY <1>8, <1>9, <1>10 DEF AllSound
<1>12. ~as[p].executable /\ as[d].state.tag # "ProgramData" /\ k \in by
  BY <1>4, EmptyAccount DEF ProgramReady, Changeable, BufferReady, Authorised
<1>13. QuietElsewhere(as, new, {p, d})
  BY <1>10 DEF QuietElsewhere
<1>14. Deploys(as, new, by, p, k, code)
  BY <1>8, <1>9, <1>12, <1>13 DEF Deploys
<1> QED BY <1>11, <1>14 DEF new, code

\* An upgrade installs the content of the buffer in the programdata of the program
\* and leaves the program's account alone.
LEMMA UpgradePrograms ==
  ASSUME NEW as \in Accounts, AllSound(as), NEW by, NEW p \in Program,
         NEW b \in Address, NEW spill \in Address, NEW k \in Key, NEW t \in Nat,
         CanUpgrade(as, by, Pda[p], p, b, spill, k)
  PROVE  LET new == AfterUpgrade(as, Pda[p], b, spill, k, t)
         IN AllSound(new) /\ Upgrades(as, new, by, p, BufferContent(as[b]))
<1> DEFINE d == Pda[p]
           new == AfterUpgrade(as, d, b, spill, k, t)
           code == BufferContent(as[b])
<1>1. d \in Address /\ CanUpgrade(as, by, d, p, b, spill, k)
  BY PdaAssumption
<1> HIDE DEF d
<1>2. /\ new[spill] = [as[spill] EXCEPT !.lamports = as[spill].lamports + Surplus(as, d, b)]
      /\ new[b] = [as[b] EXCEPT !.lamports = 0]
      /\ new[d] = UpgradedProgramData(as, d, b, k, t)
      /\ \A a \in Address \ {spill, b, d} : new[a] = as[a]
  <2>1. Upgraded(as, new, d, b, spill, k, t)
    BY <1>1, UpgradeEffect
  <2> HIDE DEF new
  <2> QED BY <2>1 DEF Upgraded
<1>3. /\ Surplus(as, d, b) \in Nat /\ as[spill].lamports + Surplus(as, d, b) \in Nat
      /\ b # d /\ spill # d /\ spill # b
  BY <1>1, UpgradeAccounts
<1>4. /\ as[p].executable /\ BufferReady(as[b], k, by) /\ Upgradeable(as[d], k, by)
      /\ Len(as[d].data) >= ProgramDataMeta + Len(code)
      /\ as[spill].executable => Surplus(as, d, b) = 0
  BY <1>1 DEF CanUpgrade
<1>5. as[spill] \in Account /\ as[b] \in Account /\ as[d] \in Account
  BY <1>1 DEF Accounts
<1>6. /\ as[d].state.tag = "ProgramData" /\ ~as[d].executable
      /\ as[d].state.authority = k /\ k \in by
      /\ as[d].lamports > 0 /\ Len(as[d].data) <= MaxDataLen
  BY <1>1, <1>4 DEF Upgradeable, Holds, Changeable, Authorised, AllSound, Sound
<1> HIDE DEF new, code
<1>7. Sound(new[spill]) /\ Quiet(as[spill], new[spill])
  <2> DEFINE sum == as[spill].lamports + Surplus(as, d, b)
  <2>1. sum \in Nat /\ new[spill] = [as[spill] EXCEPT !.lamports = sum]
    BY <1>2, <1>3
  <2>2. as[spill].executable => sum = as[spill].lamports
    <3>1. as[spill].lamports \in Nat
      BY <1>5, AccountFields
    <3>2. \A x \in Nat : x + 0 = x
      OBVIOUS
    <3> QED BY <1>4, <3>1, <3>2
  <2>3. as[spill].state.tag = "ProgramData" => sum > 0
    <3>1. as[spill].state.tag = "ProgramData" => as[spill].lamports > 0
      BY DEF AllSound, Sound
    <3>2. as[spill].lamports \in Nat
      BY <1>5, AccountFields
    <3>3. \A x, y \in Nat : x > 0 => x + y > 0
      OBVIOUS
    <3> QED BY <1>3, <3>1, <3>2, <3>3
  <2> HIDE DEF sum
  <2> QED BY <1>5, <2>1, <2>2, <2>3, BalanceSound DEF AllSound
<1>8. Sound(new[b]) /\ Quiet(as[b], new[b])
  <2>1. as[b].state.tag = "Buffer" /\ ~as[b].executable /\ Sound(as[b])
    BY <1>4 DEF BufferReady, Holds, Changeable, AllSound
  <2>2. 0 \in Nat /\ new[b] = [as[b] EXCEPT !.lamports = 0]
    BY <1>2
  <2> QED BY <1>5, <2>1, <2>2, BalanceSound
<1>9. Sound(new[d]) /\ Installed(new[d], code) /\ new[d].state.authority = k
  <2>1. /\ code \in Image /\ code \in Seq(Cell) /\ Len(code) \in Nat /\ Len(code) > 0
    BY <1>4, BufferCode DEF code
  <2> DEFINE made == UpgradedProgramData(as, d, b, k, t)
  <2>2. new[d] = made
    BY <1>2
  <2>3. HoldsCode(made.data, code)
    BY <1>1, <1>4, <2>1, UpgradedCells DEF code
  <2>4. made \in Account
    BY <1>1, UpgradedProgramDataType
  <2>5. made.lamports = BalanceRequired(as[d])
    BY <1>1, UpgradedProgramDataType
  <2>6. made.state = ProgramDataState(t, k)
    BY <1>1, UpgradedProgramDataType
  <2>7. made.executable = as[d].executable
    BY <1>1, UpgradedProgramDataType
  <2>8. Len(made.data) = Len(as[d].data)
    BY <1>1, UpgradedProgramDataType
  <2> HIDE DEF made
  <2>9. new[d].state.tag = "ProgramData" /\ new[d].state.authority = k
    BY <2>2, <2>6 DEF ProgramDataState, Uninitialized
  <2>10. new[d].lamports > 0
    <3>1. new[d].lamports \in Nat \ {0}
      BY <1>5, <2>2, <2>5, RentType, AccountFields DEF BalanceRequired
    <3>2. \A x \in Nat \ {0} : x > 0
      OBVIOUS
    <3> QED BY <3>1, <3>2
  <2>11. Len(new[d].data) <= MaxDataLen /\ ~new[d].executable
    BY <1>6, <2>2, <2>7, <2>8
  <2> QED BY <2>1, <2>2, <2>3, <2>4, <2>9, <2>10, <2>11, InstalledSound
<1>10. ASSUME NEW a \in Address \ {d} PROVE Sound(new[a]) /\ Quiet(as[a], new[a])
  BY <1>2, <1>7, <1>8, SameQuiet DEF AllSound
<1>11. AllSound(new)
  BY <1>9, <1>10 DEF AllSound
<1>12. QuietElsewhere(as, new, {d})
  BY <1>10 DEF QuietElsewhere
<1>13. Upgrades(as, new, by, p, code)
  BY <1>4, <1>6, <1>9, <1>12 DEF Upgrades, Live, d
<1> QED BY <1>11, <1>13 DEF new, code, d

\* A change of authority rewrites the state of a buffer, or that of the programdata
\* of the program it belongs to.
LEMMA SetAuthorityPrograms ==
  ASSUME NEW as \in Accounts, AllSound(as), Linked(as), NEW by, NEW a \in Address,
         NEW k, NEW to \in Key \cup {None}, CanSetAuthority(as, by, a, k, to)
  PROVE  LET new == AfterSetAuthority(as, a, to)
         IN /\ AllSound(new)
            /\ LeavesPrograms(as, new) \/ \E p \in Program : HandsOver(as, new, by, p)
<1> DEFINE new == AfterSetAuthority(as, a, to)
           state == IF as[a].state.tag = "Buffer" THEN BufferState(to)
                    ELSE ProgramDataState(as[a].state.slot, to)
           set == SetState(as[a], state)
<1>1. /\ as[a].state.tag \in {"Buffer", "ProgramData"}
      /\ Authorised(as[a].state, k, by) /\ ~as[a].executable
  BY DEF CanSetAuthority, Holds, Changeable
<1>2. new[a] = set /\ \A x \in Address \ {a} : new[x] = as[x]
  BY DEF AfterSetAuthority, Accounts
<1>3. as[a] \in Account /\ as[a].state.slot \in Nat /\ Sound(as[a])
  BY AccountFields DEF Accounts, AllSound
<1>4. state \in State /\ state.tag = as[a].state.tag /\ state.authority = to
  <2>1. state \in State
    BY <1>3, StateType
  <2>2. CASE as[a].state.tag = "Buffer"
    BY <2>1, <2>2 DEF BufferState, Uninitialized
  <2>3. CASE as[a].state.tag = "ProgramData"
    BY <2>1, <2>3 DEF ProgramDataState, Uninitialized
  <2> QED BY <1>1, <2>2, <2>3
<1> HIDE DEF state
<1>5. StateLen(state.tag) <= Len(as[a].data)
  <2>1. Len(as[a].data) >= StateLen(as[a].state.tag)
    BY <1>1, <1>3 DEF Sound, Framed
  <2>2. StateLen(state.tag) \in Nat /\ Len(as[a].data) \in Nat
    BY <1>3, <1>4, AccountFields, StateLens DEF State
  <2>3. \A x, y \in Nat : x >= y => y <= x
    OBVIOUS
  <2> QED BY <1>4, <2>1, <2>2, <2>3
<1>6. Framed(set) /\ set.state = state
  BY <1>3, <1>4, <1>5, SetStateFramed, SetStateType
<1>7. set.executable = as[a].executable /\ set.lamports = as[a].lamports
  BY <1>3, <1>4, SetStateType
<1>8. CASE as[a].state.tag = "Buffer"
  <2> HIDE DEF set, new
  <2>1. Sound(set) /\ Quiet(as[a], set)
    BY <1>1, <1>4, <1>6, <1>7, <1>8, BufferSound
  <2>2. \A x \in Address : Sound(new[x]) /\ Quiet(as[x], new[x])
    BY <1>2, <2>1, SameQuiet DEF AllSound
  <2>3. AllSound(new) /\ LeavesPrograms(as, new)
    BY <2>2 DEF LeavesPrograms, AllSound, QuietElsewhere
  <2> QED BY <2>3 DEF new
<1>9. CASE as[a].state.tag = "ProgramData"
  <2>1. ProgramDataMeta <= Len(as[a].data)
    BY <1>4, <1>5, <1>9, StateLens DEF Tag
  <2>2. ProgramDataContent(set) = ProgramDataContent(as[a])
    BY <1>3, <1>4, <2>1, SetStateContent
  <2>3. Len(set.data) = Len(as[a].data)
    BY <1>3, <1>4, SetStateType
  <2> HIDE DEF set, new
  <2>4. Verified(set)
    BY <1>3, <1>9, <2>2 DEF Sound, Verified
  <2>5. Sound(set)
    BY <1>1, <1>3, <1>4, <1>6, <1>7, <1>9, <2>3, <2>4 DEF Sound
  <2>6. PICK p \in Program : Pda[p] = a /\ as[p].executable
    BY <1>9 DEF Linked
  <2>7. \A x \in Address \ {a} : Sound(new[x]) /\ Quiet(as[x], new[x])
    BY <1>2, SameQuiet DEF AllSound
  <2>8. AllSound(new) /\ QuietElsewhere(as, new, {a})
    BY <1>2, <2>5, <2>7 DEF AllSound, QuietElsewhere
  <2>9. new[a].state.tag = "ProgramData" /\ new[a].state.authority = to /\ ~new[a].executable
    BY <1>1, <1>2, <1>4, <1>6, <1>7, <1>9
  <2>10. Live(as, p) /\ as[a].state.authority \in by
    BY <1>1, <1>9, <2>6 DEF Live, Authorised
  <2>11. HandsOver(as, new, by, p)
    BY <1>2, <2>2, <2>6, <2>8, <2>9, <2>10 DEF HandsOver
  <2> QED BY <2>8, <2>11 DEF new
<1> QED BY <1>1, <1>8, <1>9

\* A closing removes an account without a program, or the programdata of the
\* program that was passed with it.
LEMMA ClosePrograms ==
  ASSUME NEW as \in Accounts, AllSound(as), Linked(as), NEW by, NEW a \in Address,
         NEW r \in Address, NEW k, NEW q \in Address, CanClose(as, by, a, r, k, q)
  PROVE  LET new == AfterClose(as, a, r)
         IN /\ AllSound(new)
            /\ LeavesPrograms(as, new) \/ \E p \in Program : Closes(as, new, by, p)
<1> DEFINE new == AfterClose(as, a, r)
<1>1. /\ ~as[a].executable
      /\ ~as[r].executable \/ as[a].lamports = 0
      /\ as[a].state.tag = "ProgramData" => LinksTo(as[q], a) /\ Authorised(as[a].state, k, by)
  BY DEF CanClose, Changeable, Holds
<1>2. /\ a # r /\ new[r] = [as[r] EXCEPT !.lamports = as[r].lamports + as[a].lamports]
      /\ new[a].state = Uninitialized /\ new[a].executable = as[a].executable
      /\ \A x \in Address \ {a, r} : new[x] = as[x]
  <2>1. Closed(as, new, a, r)
    BY CloseEffect
  <2> HIDE DEF new
  <2> QED BY <2>1 DEF Closed
<1> HIDE DEF new
<1>3. as[a] \in Account /\ as[r] \in Account /\ Sound(as[r])
  BY DEF Accounts, AllSound
<1>4. Sound(new[r]) /\ Quiet(as[r], new[r])
  <2> DEFINE sum == as[r].lamports + as[a].lamports
  <2>1. as[r].lamports \in Nat /\ as[a].lamports \in Nat
    BY <1>3, AccountFields
  <2>2. sum \in Nat
    BY <2>1, Balances
  <2>3. as[r].executable => sum = as[r].lamports
    <3>1. \A x, y \in Nat : y = 0 => x + y = x
      OBVIOUS
    <3> QED BY <1>1, <2>1, <3>1
  <2>4. as[r].state.tag = "ProgramData" => sum > 0
    <3>1. as[r].state.tag = "ProgramData" => as[r].lamports > 0
      BY <1>3 DEF Sound
    <3>2. \A x, y \in Nat : x > 0 => x + y > 0
      OBVIOUS
    <3> QED BY <2>1, <3>1, <3>2
  <2>5. new[r] = [as[r] EXCEPT !.lamports = sum]
    BY <1>2
  <2> HIDE DEF sum
  <2> QED BY <1>3, <2>2, <2>3, <2>4, <2>5, BalanceSound
<1>5. new[a].state.tag = "Uninitialized" /\ ~new[a].executable
  <2>1. new[a].state.tag = "Uninitialized"
    BY <1>2, EmptyAccount
  <2>2. new[a].executable = as[a].executable
    BY <1>2
  <2> QED BY <1>1, <2>1, <2>2
<1>6. Framed(new[a]) /\ Verified(new[a])
  BY <1>5 DEF Framed, Verified
<1>7. Sound(new[a])
  BY <1>5, <1>6 DEF Sound
<1>8. \A x \in Address \ {a} : Sound(new[x]) /\ Quiet(as[x], new[x])
  BY <1>2, <1>4, SameQuiet DEF AllSound
<1>9. AllSound(new)
  BY <1>7, <1>8 DEF AllSound
<1>10. CASE as[a].state.tag # "ProgramData"
  <2>1. Quiet(as[a], new[a])
    BY <1>1, <1>2, <1>5, <1>10 DEF Quiet
  <2>2. LeavesPrograms(as, new)
    BY <1>8, <1>9, <2>1 DEF LeavesPrograms, QuietElsewhere
  <2> QED BY <1>9, <2>2 DEF new
<1>11. CASE as[a].state.tag = "ProgramData"
  <2>1. as[q].state.tag = "Program" /\ as[q].state.programdata = a
    BY <1>1, <1>11 DEF LinksTo, Holds
  <2>2. as[q].executable /\ q \in Program /\ Pda[q] = a
    BY <2>1 DEF Linked
  <2>3. QuietElsewhere(as, new, {a})
    BY <1>8 DEF QuietElsewhere
  <2>4. as[a].state.authority \in by
    BY <1>1, <1>11 DEF Authorised
  <2>5. Closes(as, new, by, q)
    BY <1>5, <1>11, <2>2, <2>3, <2>4 DEF Closes, Live
  <2> QED BY <1>9, <2>2, <2>5 DEF new
<1> QED BY <1>10, <1>11
-----------------------------------------------------------------------------
(* What every instruction does to the programs                             *)

\* A program that a change leaves alone.
SameProgram(as, new, q) ==
  /\ new[q].executable = as[q].executable
  /\ as[q].executable => new[q] = as[q]
  /\ new[Pda[q]].state.tag = "ProgramData" <=> as[Pda[q]].state.tag = "ProgramData"
  /\ as[Pda[q]].state.tag = "ProgramData" =>
       /\ new[Pda[q]].state = as[Pda[q]].state
       /\ ProgramDataContent(new[Pda[q]]) = ProgramDataContent(as[Pda[q]])

\* A step that is quiet at the two accounts of a program leaves the program alone.
LEMMA QuietProgram ==
  ASSUME NEW as, NEW new, NEW S, QuietElsewhere(as, new, S),
         NEW q \in Program, q \notin S, Pda[q] \notin S
  PROVE  SameProgram(as, new, q)
<1>1. q \in Address /\ Pda[q] \in Address
  BY PdaAssumption
<1>2. Quiet(as[q], new[q]) /\ Quiet(as[Pda[q]], new[Pda[q]])
  BY <1>1 DEF QuietElsewhere
<1> QED BY <1>2 DEF Quiet, SameProgram, ProgramDataContent, Content

\* What the four instructions that change a program have in common: they leave
\* every other account alone, and the program linked to its programdata.
Changes(as, new, p) ==
  /\ QuietElsewhere(as, new, {p, Pda[p]})
  /\ new[p].executable /\ new[p].state.programdata = Pda[p]
  /\ ~new[Pda[p]].executable
  /\ as[p].executable => new[p] = as[p] /\ as[Pda[p]].state.tag = "ProgramData"

\* Each of the four is such a change.
LEMMA ChangesProgram ==
  ASSUME NEW as, Linked(as), NEW new, NEW by, NEW p \in Program, NEW k, NEW code,
         \/ Deploys(as, new, by, p, k, code) \/ Upgrades(as, new, by, p, code)
         \/ HandsOver(as, new, by, p) \/ Closes(as, new, by, p)
  PROVE  Changes(as, new, p)
<1>1. p \in Address /\ Pda[p] \in Address /\ p # Pda[p]
  BY PdaAssumption
<1>2. CASE Deploys(as, new, by, p, k, code)
  BY <1>2 DEF Deploys, Installed, Changes
<1>3. ASSUME Live(as, p), QuietElsewhere(as, new, {Pda[p]}), ~new[Pda[p]].executable
      PROVE  Changes(as, new, p)
  <2>1. Quiet(as[p], new[p])
    BY <1>1, <1>3 DEF QuietElsewhere
  <2>2. new[p] = as[p] /\ as[p].executable /\ as[Pda[p]].state.tag = "ProgramData"
    BY <1>3, <2>1 DEF Quiet, Live
  <2>3. as[p].state.programdata = Pda[p]
    BY <1>1, <2>2 DEF Linked
  <2>4. QuietElsewhere(as, new, {p, Pda[p]})
    BY <1>3 DEF QuietElsewhere
  <2> QED BY <1>3, <2>2, <2>3, <2>4 DEF Changes
<1>4. CASE Upgrades(as, new, by, p, code)
  BY <1>3, <1>4 DEF Upgrades, Installed
<1>5. CASE HandsOver(as, new, by, p)
  BY <1>3, <1>5 DEF HandsOver
<1>6. CASE Closes(as, new, by, p)
  BY <1>3, <1>6 DEF Closes
<1> QED BY <1>2, <1>4, <1>5, <1>6

\* Every other program is left alone.
LEMMA ChangesOne ==
  ASSUME NEW as, NEW new, NEW p \in Program, Changes(as, new, p),
         NEW q \in Program, q # p
  PROVE  SameProgram(as, new, q)
<1>1. q \notin {p, Pda[p]} /\ Pda[q] \notin {p, Pda[p]}
  BY PdaAssumption
<1> QED BY <1>1, QuietProgram DEF Changes

\* The programs stay linked to their programdatas, and those that exist stay as
\* they are.
LEMMA ChangesLinked ==
  ASSUME NEW as, Linked(as), NEW new, AllSound(new),
         NEW p \in Program, Changes(as, new, p)
  PROVE  Linked(new) /\ Keeps(as, new)
<1> DEFINE d == Pda[p]
<1>1. p \in Address /\ d \in Address /\ \A q \in Program : q # d /\ q \in Address
  BY PdaAssumption
<1>2. \A a \in Address : new[a].state.tag = "Program" <=> new[a].executable
  BY DEF AllSound, Sound
<1>3. ASSUME NEW a \in Address, new[a].executable
      PROVE  a \in Program /\ new[a].state.programdata = Pda[a]
  <2>1. CASE a = p
    BY <2>1 DEF Changes
  <2>2. CASE a # p
    <3>1. a # d
      BY <1>3 DEF Changes
    <3>2. Quiet(as[a], new[a])
      BY <2>2, <3>1 DEF Changes, QuietElsewhere
    <3>3. as[a].executable /\ new[a] = as[a]
      BY <1>3, <3>2 DEF Quiet
    <3> QED BY <3>3 DEF Linked
  <2> QED BY <2>1, <2>2
<1>4. ASSUME NEW a \in Address, new[a].state.tag = "ProgramData"
      PROVE  \E q \in Program : Pda[q] = a /\ new[q].executable
  <2>1. CASE a = d
    BY <2>1 DEF Changes
  <2>2. CASE a # d
    <3>1. a # p
      BY <1>1, <1>2, <1>4 DEF Changes
    <3>2. Quiet(as[a], new[a])
      BY <2>2, <3>1 DEF Changes, QuietElsewhere
    <3>3. as[a].state.tag = "ProgramData"
      BY <1>4, <3>2 DEF Quiet
    <3>4. PICK q \in Program : Pda[q] = a /\ as[q].executable
      BY <3>3 DEF Linked
    <3>5. q # p
      BY <2>2, <3>4
    <3>6. SameProgram(as, new, q)
      BY <3>5, ChangesOne
    <3> QED BY <3>4, <3>6 DEF SameProgram
  <2> QED BY <2>1, <2>2
<1>5. ASSUME NEW q \in Program, as[q].executable
      PROVE  /\ new[q] = as[q]
             /\ as[Pda[q]].state.tag # "ProgramData" => new[Pda[q]].state.tag # "ProgramData"
  <2>1. CASE q = p
    BY <1>5, <2>1 DEF Changes
  <2>2. CASE q # p
    <3>1. SameProgram(as, new, q)
      BY <2>2, ChangesOne
    <3> QED BY <1>5, <3>1 DEF SameProgram
  <2> QED BY <2>1, <2>2
<1>6. Linked(new)
  BY <1>2, <1>3, <1>4 DEF Linked
<1>7. Keeps(as, new)
  BY <1>5 DEF Keeps
<1> QED BY <1>6, <1>7

\* An instruction that leaves the programs alone leaves each of them alone.
LEMMA LeavesSame ==
  ASSUME NEW as, NEW new, LeavesPrograms(as, new), NEW q \in Program
  PROVE  SameProgram(as, new, q)
<1> DEFINE S == {}
<1>1. QuietElsewhere(as, new, S) /\ q \notin S /\ Pda[q] \notin S
  BY DEF LeavesPrograms
<1> HIDE DEF S
<1> QED BY <1>1, QuietProgram

\* Where every program is left alone, programs stay linked and keep what they were.
LEMMA LeavesLinked ==
  ASSUME NEW as, Linked(as), NEW new, LeavesPrograms(as, new)
  PROVE  Linked(new) /\ Keeps(as, new)
<1>1. \A a \in Address : Quiet(as[a], new[a])
  BY DEF LeavesPrograms, QuietElsewhere
<1>2. \A q \in Program : SameProgram(as, new, q)
  BY LeavesSame
<1>3. \A a \in Address : new[a].state.tag = "Program" <=> new[a].executable
  BY DEF LeavesPrograms, AllSound, Sound
<1>4. ASSUME NEW a \in Address, new[a].executable
      PROVE  a \in Program /\ new[a].state.programdata = Pda[a]
  <2>1. as[a].executable /\ new[a] = as[a]
    BY <1>1, <1>4 DEF Quiet
  <2> QED BY <2>1 DEF Linked
<1>5. ASSUME NEW a \in Address, new[a].state.tag = "ProgramData"
      PROVE  \E q \in Program : Pda[q] = a /\ new[q].executable
  <2>1. as[a].state.tag = "ProgramData"
    BY <1>1, <1>5 DEF Quiet
  <2>2. PICK q \in Program : Pda[q] = a /\ as[q].executable
    BY <2>1 DEF Linked
  <2> QED BY <1>2, <2>2 DEF SameProgram
<1>6. Linked(new)
  BY <1>3, <1>4, <1>5 DEF Linked
<1>7. Keeps(as, new)
  BY <1>2 DEF Keeps, SameProgram
<1> QED BY <1>6, <1>7

\* A program can be invoked as long as its programdata is one.
LEMMA InvocableLive ==
  ASSUME NEW as \in Accounts, AllSound(as), Linked(as), NEW p \in Program
  PROVE  /\ CanInvoke(as, p) <=> Live(as, p)
         /\ Live(as, p) => as[p].state.programdata = Pda[p]
<1>1. p \in Address /\ Pda[p] \in Address
  BY PdaAssumption
<1>2. as[p].executable => /\ as[p].state.tag = "Program" /\ as[p].owner = "loader"
                          /\ as[p].state.programdata = Pda[p]
  BY <1>1 DEF Linked, AllSound, Sound
<1>3. ASSUME NEW a \in Address, as[a].state.tag \in {"Program", "ProgramData"}
      PROVE  as[a].data # << >>
  <2>1. Len(as[a].data) >= StateLen(as[a].state.tag)
    BY <1>3 DEF AllSound, Sound, Framed
  <2>2. StateLen(as[a].state.tag) \in Nat \ {0}
    BY <1>3, StateLens DEF Tag
  <2>3. Len(<< >>) = 0
    OBVIOUS
  <2>4. \A x \in Nat \ {0} : ~(0 >= x)
    OBVIOUS
  <2> QED BY <2>1, <2>2, <2>3, <2>4
<1>4. ASSUME Live(as, p) PROVE CanInvoke(as, p)
  <2>1. Holds(as[p], "Program")
    BY <1>1, <1>2, <1>3, <1>4 DEF Live, Holds
  <2>2. Holds(as[Pda[p]], "ProgramData")
    BY <1>1, <1>3, <1>4 DEF Live, Holds
  <2> QED BY <1>2, <1>4, <2>1, <2>2 DEF Live, CanInvoke, LinksTo
<1>5. ASSUME CanInvoke(as, p) PROVE Live(as, p)
  BY <1>2, <1>5 DEF Live, CanInvoke, Holds
<1> QED BY <1>2, <1>4, <1>5 DEF Live

\* The programs and the executor cache an instruction leaves, for those who signed.
Outcome(as, new, by, cache, next) ==
  \/ LeavesPrograms(as, new) /\ next = cache
  \/ \E p \in Program, k \in Key, code \in Image :
       /\ Deploys(as, new, by, p, k, code) \/ Upgrades(as, new, by, p, code)
       /\ next = AddExecutor(cache, p, code)
  \/ \E p \in Program :
       /\ HandsOver(as, new, by, p) \/ Closes(as, new, by, p)
       /\ next = cache
  \/ \E p \in Program :
       /\ new = as /\ Live(as, p)
       /\ next = AddExecutor(cache, p, ProgramDataContent(as[Pda[p]]))

Cache == [Program -> Seq(Byte) \cup {None}]

\* A program that is left alone runs code its programdata holds if it did before.
LEMMA SameCoherent ==
  ASSUME NEW as \in Accounts, NEW new \in Accounts, AllSound(as), AllSound(new),
         Linked(as), Linked(new), NEW cache, Coherent(as, cache),
         NEW q \in Program, SameProgram(as, new, q), CanInvoke(new, q), cache[q] # None
  PROVE  Padded(cache[q], ProgramDataContent(new[Pda[q]]))
<1>1. Live(new, q)
  BY InvocableLive
<1>2. Live(as, q) /\ ProgramDataContent(new[Pda[q]]) = ProgramDataContent(as[Pda[q]])
  BY <1>1 DEF Live, SameProgram
<1>3. CanInvoke(as, q)
  BY <1>2, InvocableLive
<1> QED BY <1>2, <1>3 DEF Coherent

\* The content of a programdata is code padded with no zeros.
LEMMA SelfPadded ==
  ASSUME NEW account \in Account
  PROVE  Padded(ProgramDataContent(account), ProgramDataContent(account))
<1>1. ProgramDataContent(account) \in Seq(Cell)
  BY Sizes, ContentType DEF ProgramDataContent
<1>2. Len(ProgramDataContent(account)) \in Nat
  BY <1>1, DataDomain
<1>3. \A n \in Nat : n <= n /\ \A i \in 1..n : i <= n
  OBVIOUS
<1> QED BY <1>2, <1>3 DEF Padded

\* An instruction keeps programs and programdatas linked, keeps those that exist,
\* and keeps every executor it leaves in the cache true to the programdata.
LEMMA OutcomeKeeps ==
  ASSUME NEW as \in Accounts, NEW new \in Accounts, AllSound(as), AllSound(new),
         Linked(as), NEW by, NEW cache \in Cache, NEW next,
         Coherent(as, cache), Outcome(as, new, by, cache, next)
  PROVE  Linked(new) /\ Keeps(as, new) /\ Coherent(new, next)
<1> DEFINE Goal == Linked(new) /\ Keeps(as, new) /\ Coherent(new, next)
<1>1. ASSUME LeavesPrograms(as, new), next = cache PROVE Goal
  <2>1. Linked(new) /\ Keeps(as, new)
    BY <1>1, LeavesLinked
  <2>2. \A q \in Program : SameProgram(as, new, q)
    BY <1>1, LeavesSame
  <2>3. Coherent(new, cache)
    BY <2>1, <2>2, SameCoherent DEF Coherent
  <2> QED BY <1>1, <2>1, <2>3
<1>2. ASSUME NEW p \in Program, Changes(as, new, p),
             \A q \in Program \ {p} : next[q] = cache[q],
             CanInvoke(new, p) /\ next[p] # None
               => Padded(next[p], ProgramDataContent(new[Pda[p]]))
      PROVE  Goal
  <2>1. Linked(new) /\ Keeps(as, new)
    BY <1>2, ChangesLinked
  <2>2. ASSUME NEW q \in Program, q # p, CanInvoke(new, q), next[q] # None
        PROVE  Padded(next[q], ProgramDataContent(new[Pda[q]]))
    <3>1. SameProgram(as, new, q) /\ next[q] = cache[q]
      BY <1>2, <2>2, ChangesOne
    <3> QED BY <2>1, <2>2, <3>1, SameCoherent
  <2>3. Coherent(new, next)
    BY <1>2, <2>2 DEF Coherent
  <2> QED BY <2>1, <2>3
<1>3. ASSUME NEW p \in Program, NEW k \in Key, NEW code \in Image,
             Deploys(as, new, by, p, k, code) \/ Upgrades(as, new, by, p, code),
             next = AddExecutor(cache, p, code)
      PROVE  Goal
  <2>1. Changes(as, new, p)
    BY <1>3, ChangesProgram
  <2>2. next[p] = code /\ \A q \in Program \ {p} : next[q] = cache[q]
    BY <1>3 DEF AddExecutor, Cache
  <2>3. Padded(code, ProgramDataContent(new[Pda[p]]))
    BY <1>3 DEF Deploys, Upgrades, Installed
  <2> QED BY <1>2, <2>1, <2>2, <2>3
<1>4. ASSUME NEW p \in Program, HandsOver(as, new, by, p), next = cache PROVE Goal
  <2>1. Changes(as, new, p)
    BY <1>4, ChangesProgram
  <2>2. CanInvoke(as, p)
    BY <1>4, InvocableLive DEF HandsOver
  <2>3. next[p] # None => Padded(next[p], ProgramDataContent(as[Pda[p]]))
    BY <1>4, <2>2 DEF Coherent
  <2>4. ProgramDataContent(new[Pda[p]]) = ProgramDataContent(as[Pda[p]])
    BY <1>4 DEF HandsOver
  <2> QED BY <1>2, <1>4, <2>1, <2>3, <2>4
<1>5. ASSUME NEW p \in Program, Closes(as, new, by, p), next = cache PROVE Goal
  <2>1. Changes(as, new, p)
    BY <1>5, ChangesProgram
  <2>2. ~Live(new, p)
    BY <1>5 DEF Closes, Live
  <2>3. Linked(new)
    BY <2>1, ChangesLinked
  <2>4. ~CanInvoke(new, p)
    BY <2>2, <2>3, InvocableLive
  <2> QED BY <1>2, <1>5, <2>1, <2>4
<1>6. ASSUME NEW p \in Program, new = as, Live(as, p),
             next = AddExecutor(cache, p, ProgramDataContent(as[Pda[p]]))
      PROVE  Goal
  <2>1. /\ next[p] = ProgramDataContent(as[Pda[p]])
        /\ \A q \in Program \ {p} : next[q] = cache[q]
    BY <1>6 DEF AddExecutor, Cache
  <2>2. as[Pda[p]] \in Account
    BY PdaAssumption DEF Accounts
  <2>3. Coherent(new, next)
    BY <1>6, <2>1, <2>2, SelfPadded DEF Coherent
  <2>4. Keeps(as, new)
    BY <1>6 DEF Keeps
  <2> QED BY <1>6, <2>3, <2>4
<1> QED BY <1>1, <1>3, <1>4, <1>5, <1>6 DEF Outcome

\* A step of the transaction in flight, as far as the programs can tell.
Instruction ==
  /\ Executing /\ AllSound(acct')
  /\ Outcome(acct, acct', signers, loaded, loaded')

\* Every instruction is such a step: one case per instruction of Next.
LEMMA NextInstruction ==
  ASSUME ProgramInv, Next
  PROVE  \/ \E s \in SignerSets : Begin(s)
         \/ Commit \/ Abort \/ Tick
         \/ \E p \in Program : Evict(p)
         \/ Instruction
<1> USE Arguments
<1>1. /\ acct \in Accounts /\ slot \in Nat /\ SystemEmpty(acct)
      /\ AllSound(acct) /\ Linked(acct)
  BY DEF ProgramInv, ProgramLinked, TypeOK, Accounts, AllSound
<1>2. ASSUME Executing, LeavesPrograms(acct, acct'), loaded' = loaded PROVE Instruction
  BY <1>2 DEF Instruction, Outcome, LeavesPrograms
<1>3. ASSUME NEW from \in Address, NEW to \in Address, NEW n \in Deposit,
             NEW space \in Spaces, CreateAccount(from, to, n, space)
      PROVE  Instruction
  <2>1. LeavesPrograms(acct, acct')
    BY <1>1, <1>3, CreateAccountLeaves DEF CreateAccount
  <2> QED BY <1>2, <1>3, <2>1 DEF CreateAccount
<1>4. ASSUME NEW from \in Address, NEW to \in Address, NEW n \in Gift,
             Transfer(from, to, n)
      PROVE  Instruction
  <2>1. LeavesPrograms(acct, acct')
    BY <1>1, <1>4, TransferLeaves DEF Transfer
  <2> QED BY <1>2, <1>4, <2>1 DEF Transfer
<1>5. ASSUME NEW b \in Address, NEW k \in Authority, InitializeBuffer(b, k)
      PROVE  Instruction
  <2>1. LeavesPrograms(acct, acct')
    BY <1>1, <1>5, InitializeBufferLeaves DEF InitializeBuffer
  <2> QED BY <1>2, <1>5, <2>1 DEF InitializeBuffer
<1>6. ASSUME NEW b \in Address, NEW k \in Authority, NEW i \in Lengths, NEW c \in Chunk,
             Write(b, k, i, c)
      PROVE  Instruction
  <2>1. LeavesPrograms(acct, acct')
    BY <1>1, <1>6, WriteLeaves DEF Write
  <2> QED BY <1>2, <1>6, <2>1 DEF Write
<1>7. ASSUME NEW payer \in Address, NEW d \in Address, NEW b \in Address,
             NEW p \in Program, NEW k \in Authority, NEW n \in Lengths,
             DeployWithMaxDataLen(payer, d, p, b, k, n)
      PROVE  Instruction
  <2> DEFINE code == BufferContent(acct[b])
  <2>1. /\ Executing /\ CanDeploy(acct, signers, payer, d, p, b, k, n)
        /\ acct' = AfterDeploy(acct, payer, d, p, b, k, n, slot)
        /\ loaded' = AddExecutor(loaded, p, code)
    BY <1>7 DEF DeployWithMaxDataLen
  <2>2. d = Pda[p] /\ code \in Image
    BY <2>1 DEF CanDeploy, BufferReady, Loads
  <2>3. AllSound(acct') /\ Deploys(acct, acct', signers, p, k, code)
    BY <1>1, <2>1, <2>2, DeployPrograms
  <2> QED BY <2>1, <2>2, <2>3 DEF Instruction, Outcome
<1>8. ASSUME NEW d \in Address, NEW b \in Address, NEW spill \in Address,
             NEW p \in Program, NEW k \in Authority, Upgrade(d, p, b, spill, k)
      PROVE  Instruction
  <2> DEFINE code == BufferContent(acct[b])
  <2>1. /\ Executing /\ CanUpgrade(acct, signers, d, p, b, spill, k)
        /\ acct' = AfterUpgrade(acct, d, b, spill, k, slot)
        /\ loaded' = AddExecutor(loaded, p, code)
    BY <1>8 DEF Upgrade
  <2>2. d = Pda[p] /\ code \in Image
    BY <1>1, <2>1 DEF CanUpgrade, LinksTo, Linked, BufferReady, Loads
  <2>3. AllSound(acct') /\ Upgrades(acct, acct', signers, p, code)
    BY <1>1, <2>1, <2>2, UpgradePrograms
  <2> QED BY <2>1, <2>2, <2>3 DEF Instruction, Outcome
<1>9. ASSUME NEW a \in Address, NEW k \in Authority, NEW new \in Authority \cup {None},
             SetAuthority(a, k, new)
      PROVE  Instruction
  <2>1. /\ AllSound(acct') /\ Executing /\ loaded' = loaded
        /\ \/ LeavesPrograms(acct, acct')
           \/ \E p \in Program : HandsOver(acct, acct', signers, p)
    BY <1>1, <1>9, SetAuthorityPrograms DEF SetAuthority
  <2> QED BY <2>1 DEF Instruction, Outcome
<1>10. ASSUME NEW a \in Address, NEW r \in Address, NEW p \in Address,
             NEW k \in Authority, Close(a, r, k, p)
      PROVE  Instruction
  <2>1. /\ AllSound(acct') /\ Executing /\ loaded' = loaded
        /\ \/ LeavesPrograms(acct, acct')
           \/ \E q \in Program : Closes(acct, acct', signers, q)
    BY <1>1, <1>10, ClosePrograms DEF Close
  <2> QED BY <2>1 DEF Instruction, Outcome
<1>11. ASSUME NEW p \in Program, Invoke(p) PROVE Instruction
  <2>1. Executing /\ CanInvoke(acct, p) /\ acct' = acct
    BY <1>11 DEF Invoke
  <2>2. Live(acct, p) /\ acct[p].state.programdata = Pda[p]
    BY <1>1, <2>1, InvocableLive
  <2>3. CASE loaded' = loaded
    <3>1. LeavesPrograms(acct, acct')
      BY <1>1, <2>1, SameQuiet DEF LeavesPrograms, QuietElsewhere
    <3> QED BY <1>2, <2>1, <2>3, <3>1
  <2>4. CASE loaded' = AddExecutor(loaded, p, ProgramDataContent(acct[Pda[p]]))
    BY <1>1, <2>1, <2>2, <2>4 DEF Instruction, Outcome
  <2> QED BY <1>11, <2>2, <2>3, <2>4 DEF Invoke
<1> QED BY <1>3, <1>4, <1>5, <1>6, <1>7, <1>8, <1>9, <1>10, <1>11 DEF Next, Runtime, Loader
-----------------------------------------------------------------------------
(* The invariant                                                           *)

\* What is kept since the transaction began stays kept by one more instruction.
LEMMA KeepsSince ==
  ASSUME NEW old, NEW mid, NEW new, Keeps(old, mid), Keeps(mid, new)
  PROVE  Keeps(old, new)
BY DEF Keeps

\* Dropping the accounts without lamports drops no program and no programdata.
LEMMA PurgeSame ==
  ASSUME NEW as \in Accounts, AllSound(as), Linked(as)
  PROVE  /\ AllSound(Purge(as)) /\ Linked(Purge(as))
         /\ \A p \in Program : SameProgram(as, Purge(as), p)
<1> DEFINE new == Purge(as)
<1>1. \A a \in Address : new[a] = IF as[a].lamports = 0 THEN NoAccount ELSE as[a]
  BY DEF Purge
<1> HIDE DEF new
<1>2. AllSound(new)
  BY <1>1, PlainSound DEF AllSound
<1>3. ASSUME NEW a \in Address PROVE Quiet(as[a], new[a])
  <2>1. CASE as[a].lamports # 0
    BY <1>1, <2>1, SameQuiet
  <2>2. CASE as[a].lamports = 0
    <3>1. as[a].state.tag # "ProgramData" /\ ~as[a].executable
      <4>1. /\ as[a].executable => as[a].lamports > 0
            /\ as[a].state.tag = "ProgramData" => as[a].lamports > 0
        BY DEF AllSound, Sound
      <4>2. ~(0 > 0)
        OBVIOUS
      <4> QED BY <2>2, <4>1, <4>2
    <3>2. new[a].state.tag # "ProgramData" /\ new[a].executable = FALSE
      BY <1>1, <2>2, EmptyAccount
    <3>3. as[a].executable \in BOOLEAN
      BY AccountFields DEF Accounts
    <3> QED BY <3>1, <3>2, <3>3 DEF Quiet
  <2> QED BY <2>1, <2>2
<1>4. LeavesPrograms(as, new)
  BY <1>2, <1>3 DEF LeavesPrograms, QuietElsewhere
<1>5. \A p \in Program : SameProgram(as, new, p)
  BY <1>4, LeavesSame
<1>6. Linked(new)
  BY <1>4, LeavesLinked
<1> QED BY <1>2, <1>5, <1>6 DEF new

\* A ledger keeps what it is.
LEMMA KeepsItself == \A as : Keeps(as, as)
BY DEF Keeps

\* The ledger starts without programs.
LEMMA InitProgram == Init => ProgramInv
<1> SUFFICES ASSUME Init PROVE ProgramInv
  OBVIOUS
<1>1. AuthorityInv
  BY InitAuthority
<1>2. bank = Supply /\ acct = Supply
  BY DEF Init
<1>3. ASSUME NEW a \in Address
      PROVE  Supply[a].state.tag = "Uninitialized" /\ Supply[a].executable = FALSE
  <2>1. Supply[a] = [NoAccount EXCEPT !.lamports = Supply[a].lamports]
    BY SupplyAssumption
  <2> QED BY <2>1 DEF NoAccount, Uninitialized
<1>4. \A a \in Address : Sound(Supply[a])
  BY <1>3 DEF Sound, Verified, Framed
<1>5. Linked(Supply)
  BY <1>3 DEF Linked
<1>6. \A cache : Coherent(Supply, cache)
  <2>1. \A p \in Program : ~CanInvoke(Supply, p)
    BY <1>3, Arguments DEF CanInvoke
  <2> QED BY <2>1 DEF Coherent
<1> QED BY <1>1, <1>2, <1>4, <1>5, <1>6, KeepsItself
      DEF AuthorityInv, ProgramInv, ProgramLinked, CacheCoherent

\* A step that leaves the ledger alone, and the accounts in flight unless it goes
\* back to the ledger's.
LEMMA IdlePrograms ==
  ASSUME AuthorityInv', ProgramInv, bank' = bank, acct' = acct \/ acct' = bank,
         Coherent(bank, executors'), Coherent(acct', loaded')
  PROVE  ProgramInv' /\ ProgramKept
<1>1. AllSound(acct') /\ AllSound(bank') /\ Linked(acct') /\ Linked(bank')
  BY DEF ProgramInv, ProgramLinked, AllSound
<1>2. Keeps(bank', acct') /\ ProgramKept
  BY KeepsItself DEF ProgramInv, ProgramKept
<1> QED BY <1>1, <1>2
      DEF AuthorityInv, ProgramInv, ProgramLinked, CacheCoherent, AllSound

\* An instruction keeps the programs of the transaction in flight.
LEMMA InstructionPrograms ==
  ASSUME AuthorityInv', ProgramInv, Instruction
  PROVE  ProgramInv' /\ ProgramKept
<1>1. /\ acct \in Accounts /\ acct' \in Accounts /\ loaded \in Cache
      /\ AllSound(acct) /\ Linked(acct)
  BY DEF AuthorityInv, ProgramInv, ProgramLinked, TypeOK, Accounts, Cache, AllSound
<1>2. /\ AllSound(acct') /\ Outcome(acct, acct', signers, loaded, loaded')
      /\ bank' = bank /\ executors' = executors
  BY DEF Instruction, Executing, ledger
<1>3. Linked(acct') /\ Keeps(acct, acct') /\ Coherent(acct', loaded')
  BY <1>1, <1>2, OutcomeKeeps DEF ProgramInv
<1>4. Keeps(bank', acct') /\ ProgramKept
  BY <1>2, <1>3, KeepsSince, KeepsItself DEF ProgramInv, ProgramKept
<1>5. ProgramLinked' /\ CacheCoherent' /\ AllSound(bank')
  BY <1>2, <1>3 DEF ProgramInv, ProgramLinked, CacheCoherent, AllSound
<1> QED BY <1>2, <1>3, <1>4, <1>5 DEF AuthorityInv, ProgramInv, AllSound

\* A commit writes the programs of the transaction back as they are.
LEMMA CommitPrograms ==
  ASSUME AuthorityInv', ProgramInv, Commit
  PROVE  ProgramInv' /\ ProgramKept
<1> DEFINE new == Purge(acct)
<1>1. /\ bank' = new /\ acct' = new /\ executors' = loaded /\ loaded' = loaded
      /\ acct \in Accounts /\ new \in Accounts
  BY PurgeType DEF Commit, ProgramInv, TypeOK, Accounts
<1>2. AllSound(acct) /\ Linked(acct) /\ Coherent(acct, loaded) /\ Keeps(bank, acct)
  BY DEF ProgramInv, ProgramLinked, AllSound
<1>3. AllSound(new) /\ Linked(new) /\ \A p \in Program : SameProgram(acct, new, p)
  BY <1>1, <1>2, PurgeSame
<1> HIDE DEF new
<1>4. Keeps(acct, new)
  BY <1>3 DEF Keeps, SameProgram
<1>5. Coherent(new, loaded)
  BY <1>1, <1>2, <1>3, SameCoherent DEF Coherent
<1>6. ProgramKept /\ Keeps(bank', acct')
  BY <1>1, <1>2, <1>4, KeepsSince, KeepsItself DEF ProgramKept
<1>7. ProgramLinked' /\ CacheCoherent' /\ Coherent(acct', loaded')
  BY <1>1, <1>3, <1>5 DEF ProgramLinked, CacheCoherent
<1> QED BY <1>1, <1>3, <1>6, <1>7 DEF AuthorityInv, ProgramInv, AllSound

\* Every step preserves the invariant and keeps the programs of the ledger.
LEMMA NextProgram ==
  AuthorityInv /\ ProgramInv /\ [Next]_vars
    => ProgramInv' /\ (ProgramKept \/ UNCHANGED vars)
<1> SUFFICES ASSUME AuthorityInv, ProgramInv, [Next]_vars
             PROVE  ProgramInv' /\ (ProgramKept \/ UNCHANGED vars)
  OBVIOUS
<1>1. AuthorityInv'
  BY NextAuthority
<1>2. CASE UNCHANGED vars
  <2>1. UNCHANGED <<bank, acct, executors, loaded>>
    BY <1>2 DEF vars
  <2>2. ProgramInv'
    BY <1>1, <2>1, IdlePrograms DEF ProgramInv, CacheCoherent
  <2> QED BY <1>2, <2>2
<1>3. ASSUME NEW s \in SignerSets, Begin(s) PROVE ProgramInv' /\ ProgramKept
  <2>1. UNCHANGED <<bank, acct, executors, loaded>>
    BY <1>3 DEF Begin, ledger
  <2> QED BY <1>1, <2>1, IdlePrograms DEF ProgramInv, CacheCoherent
<1>4. CASE Commit
  BY <1>1, <1>4, CommitPrograms
<1>5. CASE Abort
  <2>1. bank' = bank /\ acct' = bank /\ executors' = executors /\ loaded' = executors
    BY <1>5 DEF Abort, ledger
  <2> QED BY <1>1, <2>1, IdlePrograms DEF ProgramInv, CacheCoherent
<1>6. CASE Tick
  <2>1. UNCHANGED <<bank, acct, executors, loaded>>
    BY <1>6 DEF Tick
  <2> QED BY <1>1, <2>1, IdlePrograms DEF ProgramInv, CacheCoherent
<1>7. ASSUME NEW p \in Program, Evict(p) PROVE ProgramInv' /\ ProgramKept
  <2>1. /\ UNCHANGED <<bank, acct>> /\ acct = bank /\ loaded' = executors'
        /\ executors' = [executors EXCEPT ![p] = None] /\ executors \in Cache
    BY <1>7 DEF Evict, ProgramInv, Settled, TypeOK, Cache
  <2>2. \A q \in Program : executors'[q] = executors[q] \/ executors'[q] = None
    BY <2>1 DEF Cache
  <2>3. Coherent(bank, executors')
    BY <2>2 DEF ProgramInv, CacheCoherent, Coherent
  <2> QED BY <1>1, <2>1, <2>3, IdlePrograms
<1>8. CASE Instruction
  BY <1>1, <1>8, InstructionPrograms
<1>9. CASE Next
  BY <1>3, <1>4, <1>5, <1>6, <1>7, <1>8, <1>9, NextInstruction
<1> QED BY <1>2, <1>9

\* Whatever is deployed, upgraded, handed over and closed, in transactions of any
\* length.
LEMMA ProgramsHold == Spec => [](AuthorityInv /\ ProgramInv)
<1>1. Init => AuthorityInv /\ ProgramInv
  BY InitAuthority, InitProgram
<1>2. AuthorityInv /\ ProgramInv /\ [Next]_vars => (AuthorityInv /\ ProgramInv)'
  BY NextAuthority, NextProgram
<1> QED BY <1>1, <1>2, PTL DEF Spec

\* An executable account is a program linked to its derived address, and every
\* programdata belongs to an executable program, in the ledger and at every step of
\* a transaction: no order of deployments, upgrades, changes of authority and
\* closings separates a program from its programdata.
THEOREM ProgramsLinked == Spec => []ProgramLinked
<1>1. AuthorityInv /\ ProgramInv => ProgramLinked
  BY DEF ProgramInv
<1> QED BY <1>1, ProgramsHold, PTL

\* No Write of any offset and length, no upgrade and no change of authority leaves
\* a serialised state that is overwritten or does not fit its account.
THEOREM HeadersIntact == Spec => []HeaderIntact
<1>1. AuthorityInv /\ ProgramInv => HeaderIntact
  BY DEF ProgramInv, HeaderIntact, Sound
<1> QED BY <1>1, ProgramsHold, PTL

\* What a programdata holds passed create_executor: it is a verified image and
\* zeros behind it, whatever longer code was installed before.
THEOREM OnlyVerifiedCode == Spec => []InstalledIsVerified
<1>1. AuthorityInv /\ ProgramInv => InstalledIsVerified
  BY DEF ProgramInv, InstalledIsVerified, Sound
<1> QED BY <1>1, ProgramsHold, PTL

\* The executor cache never runs code other than the programdata's: a deployment or
\* an upgrade replaces the executor in the transaction that installs the code, and
\* a transaction that is aborted takes it back.
THEOREM CacheTrue == Spec => []CacheCoherent
<1>1. AuthorityInv /\ ProgramInv => CacheCoherent
  BY DEF ProgramInv
<1> QED BY <1>1, ProgramsHold, PTL

\* No transaction changes or removes the account of a program, and a program whose
\* programdata was closed never has one again.
THEOREM ProgramsPermanent == Spec => ProgramPermanent
<1>1. AuthorityInv /\ ProgramInv /\ [Next]_vars => [ProgramKept]_vars
  BY NextProgram
<1> QED BY <1>1, ProgramsHold, PTL DEF Spec, ProgramPermanent
-----------------------------------------------------------------------------
(* The loader implements the registry                                      *)

Programs(as) == [p \in Program |-> AsProgram(as, p)]

\* What a program account stands for.
LEMMA AsProgramCases ==
  ASSUME NEW as, NEW p
  PROVE  /\ ~as[p].executable => AsProgram(as, p) = Entry("absent", None, None)
         /\ Live(as, p) => AsProgram(as, p) = Entry("live", as[Pda[p]].state.authority,
                                                    ProgramDataContent(as[Pda[p]]))
         /\ as[p].executable /\ ~Live(as, p) => AsProgram(as, p) = Entry("closed", None, None)
BY DEF AsProgram, Live

\* A program that is left alone stands for the same entry of the registry.
LEMMA SameEntry ==
  ASSUME NEW as, NEW new, NEW p \in Program, SameProgram(as, new, p)
  PROVE  AsProgram(new, p) = AsProgram(as, p)
<1>1. CASE ~as[p].executable
  BY <1>1, AsProgramCases DEF SameProgram
<1>2. CASE Live(as, p)
  <2>1. /\ Live(new, p) /\ new[Pda[p]].state = as[Pda[p]].state
        /\ ProgramDataContent(new[Pda[p]]) = ProgramDataContent(as[Pda[p]])
    BY <1>2 DEF SameProgram, Live
  <2> QED BY <1>2, <2>1, AsProgramCases
<1>3. CASE as[p].executable /\ ~Live(as, p)
  <2>1. new[p].executable /\ ~Live(new, p)
    BY <1>3 DEF SameProgram, Live
  <2> QED BY <1>3, <2>1, AsProgramCases
<1> QED BY <1>1, <1>2, <1>3

\* A change of one program is a change of one entry.
LEMMA ChangesEntry ==
  ASSUME NEW as, NEW new, NEW p \in Program, Changes(as, new, p)
  PROVE  Programs(new) = [Programs(as) EXCEPT ![p] = AsProgram(new, p)]
<1>1. \A q \in Program \ {p} : AsProgram(new, q) = AsProgram(as, q)
  BY ChangesOne, SameEntry
<1> QED BY <1>1 DEF Programs

\* The code an installation leaves is code of the registry.
LEMMA InstalledIsCode ==
  ASSUME NEW account \in Account, NEW code \in Image, Installed(account, code)
  PROVE  ProgramDataContent(account) \in InstalledCode
<1> DEFINE content == ProgramDataContent(account)
           n == Len(account.data) - ProgramDataMeta
<1>1. /\ ProgramDataMeta < Len(account.data) /\ Len(account.data) <= MaxDataLen
      /\ Padded(code, content)
  BY DEF Installed
<1>2. ProgramDataMeta \in Nat /\ Len(account.data) \in Nat /\ MaxDataLen \in Nat
  BY Sizes, AccountFields
<1>3. n \in 1..MaxDataLen /\ ProgramDataMeta <= Len(account.data)
  <2>1. \A x, y, z \in Nat : x < y /\ y <= z => x <= y /\ y - x \in 1..z
    OBVIOUS
  <2> QED BY <1>1, <1>2, <2>1
<1>4. content \in Seq(Cell) /\ Len(content) = n
  BY <1>2, <1>3, ContentType DEF ProgramDataContent
<1> HIDE DEF content, n
<1>5. content = [i \in 1..n |-> content[i]]
  BY <1>4
<1>6. \A i \in 1..n : content[i] \in Byte
  <2>1. code \in Seq(Byte) /\ Zero \in Byte
    BY CellAssumption
  <2>2. Len(code) \in Nat /\ \A i \in 1..Len(code) : code[i] \in Byte
    BY <2>1
  <2>3. \A i \in 1..n : i <= Len(code) => i \in 1..Len(code)
    BY <1>3, <2>2
  <2> QED BY <1>1, <1>4, <2>1, <2>2, <2>3 DEF Padded
<1>7. content \in [1..n -> Byte]
  BY <1>5, <1>6
<1>8. content \in InstalledCode
  BY <1>1, <1>3, <1>7 DEF InstalledCode
<1> QED BY <1>8 DEF content

\* The steps the registry may take, for those who signed.
RegistryStep(prog, next, by) ==
  \/ next = prog
  \/ \E p \in Program, k \in by, c \in InstalledCode :
       /\ prog[p] = Entry("absent", None, None)
       /\ next = [prog EXCEPT ![p] = Entry("live", k, c)]
  \/ \E p \in Program :
       /\ prog[p].status = "live" /\ prog[p].authority \in by
       /\ \/ \E c \in InstalledCode : next = [prog EXCEPT ![p].code = c]
          \/ \E k \in Key \cup {None} : next = [prog EXCEPT ![p].authority = k]
          \/ next = [prog EXCEPT ![p] = Entry("closed", None, None)]

\* The entry of a live program.
LEMMA LiveEntry ==
  ASSUME NEW as, NEW p \in Program, Live(as, p)
  PROVE  /\ Programs(as)[p] = Entry("live", as[Pda[p]].state.authority,
                                    ProgramDataContent(as[Pda[p]]))
         /\ Programs(as)[p].status = "live"
         /\ Programs(as)[p].authority = as[Pda[p]].state.authority
<1>1. Programs(as)[p] = Entry("live", as[Pda[p]].state.authority,
                              ProgramDataContent(as[Pda[p]]))
  BY AsProgramCases DEF Programs
<1>2. /\ Programs(as)[p].status = "live"
      /\ Programs(as)[p].authority = as[Pda[p]].state.authority
  BY <1>1 DEF Entry
<1> QED BY <1>1, <1>2

\* A deployment adds an entry.
LEMMA DeploysEntry ==
  ASSUME NEW as, Linked(as), NEW new \in Accounts, NEW by, NEW p \in Program, NEW k,
         NEW code \in Image, Deploys(as, new, by, p, k, code)
  PROVE  RegistryStep(Programs(as), Programs(new), by)
<1> DEFINE c == ProgramDataContent(new[Pda[p]])
           prog == Programs(as)
           next == Programs(new)
<1>1. Changes(as, new, p)
  BY ChangesProgram
<1>2. /\ ~as[p].executable /\ Live(new, p) /\ new[Pda[p]].state.authority = k
      /\ k \in by /\ Installed(new[Pda[p]], code)
  BY DEF Deploys, Installed, Live
<1>3. c \in InstalledCode
  BY <1>2, InstalledIsCode, PdaAssumption DEF Accounts
<1>4. AsProgram(new, p) = Entry("live", k, c)
  BY <1>2, AsProgramCases
<1>5. prog[p] = Entry("absent", None, None)
  BY <1>2, AsProgramCases DEF Programs
<1>6. next = [prog EXCEPT ![p] = AsProgram(new, p)]
  BY <1>1, ChangesEntry
<1> HIDE DEF c, prog, next
<1>7. RegistryStep(prog, next, by)
  BY <1>2, <1>3, <1>4, <1>5, <1>6 DEF RegistryStep
<1> QED BY <1>7 DEF prog, next

\* An upgrade changes the code of an entry.
LEMMA UpgradesEntry ==
  ASSUME NEW as, Linked(as), NEW new \in Accounts, NEW by, NEW p \in Program,
         NEW code \in Image, Upgrades(as, new, by, p, code)
  PROVE  RegistryStep(Programs(as), Programs(new), by)
<1> DEFINE c == ProgramDataContent(new[Pda[p]])
           prog == Programs(as)
           next == Programs(new)
           k == as[Pda[p]].state.authority
<1>1. Changes(as, new, p)
  BY ChangesProgram
<1>2. Live(as, p) /\ k \in by /\ Installed(new[Pda[p]], code) /\ new[Pda[p]].state.authority = k
  BY DEF Upgrades
<1>3. c \in InstalledCode
  BY <1>2, InstalledIsCode, PdaAssumption DEF Accounts
<1>4. Live(new, p)
  BY <1>1, <1>2 DEF Changes, Installed, Live
<1>5. AsProgram(new, p) = Entry("live", k, c)
  BY <1>2, <1>4, AsProgramCases
<1>6. /\ prog[p] = Entry("live", k, ProgramDataContent(as[Pda[p]]))
      /\ prog[p].status = "live" /\ prog[p].authority = k
  BY <1>2, LiveEntry
<1>7. next = [prog EXCEPT ![p] = AsProgram(new, p)]
  BY <1>1, ChangesEntry
<1> HIDE DEF c, prog, next, k
<1>8. next = [prog EXCEPT ![p].code = c]
  BY <1>5, <1>6, <1>7 DEF Entry
<1>9. RegistryStep(prog, next, by)
  BY <1>2, <1>3, <1>6, <1>8 DEF RegistryStep
<1> QED BY <1>9 DEF prog, next

\* A change of authority changes the authority of an entry, or makes it final.
LEMMA HandsOverEntry ==
  ASSUME NEW as, Linked(as), NEW new, NEW by, NEW p \in Program, HandsOver(as, new, by, p)
  PROVE  RegistryStep(Programs(as), Programs(new), by)
<1> DEFINE c == ProgramDataContent(as[Pda[p]])
           prog == Programs(as)
           next == Programs(new)
           old == as[Pda[p]].state.authority
           k == new[Pda[p]].state.authority
<1>1. Changes(as, new, p)
  BY ChangesProgram
<1>2. Live(as, p) /\ old \in by /\ ProgramDataContent(new[Pda[p]]) = c /\ k \in Key \cup {None}
  BY DEF HandsOver
<1>3. Live(new, p)
  BY <1>1 DEF Changes, HandsOver, Live
<1>4. AsProgram(new, p) = Entry("live", k, c)
  BY <1>2, <1>3, AsProgramCases
<1>5. prog[p] = Entry("live", old, c) /\ prog[p].status = "live" /\ prog[p].authority = old
  BY <1>2, LiveEntry
<1>6. next = [prog EXCEPT ![p] = AsProgram(new, p)]
  BY <1>1, ChangesEntry
<1> HIDE DEF c, prog, next, old, k
<1>7. next = [prog EXCEPT ![p].authority = k]
  <2>1. prog[p] = Entry("live", old, c)
    BY <1>5
  <2>2. [prog[p] EXCEPT !.authority = k] = Entry("live", k, c)
    BY <2>1 DEF Entry
  <2> QED BY <1>4, <1>6, <2>2
<1>8. RegistryStep(prog, next, by)
  BY <1>2, <1>5, <1>7 DEF RegistryStep
<1> QED BY <1>8 DEF prog, next

\* A closing closes an entry.
LEMMA ClosesEntry ==
  ASSUME NEW as, Linked(as), NEW new, NEW by, NEW p \in Program, Closes(as, new, by, p)
  PROVE  RegistryStep(Programs(as), Programs(new), by)
<1> DEFINE prog == Programs(as)
           next == Programs(new)
<1>1. Changes(as, new, p)
  BY ChangesProgram
<1>2. Live(as, p) /\ as[Pda[p]].state.authority \in by
  BY DEF Closes
<1>3. new[p].executable /\ ~Live(new, p)
  BY <1>1 DEF Changes, Closes, Live
<1>4. AsProgram(new, p) = Entry("closed", None, None)
  BY <1>3, AsProgramCases
<1>5. prog[p].status = "live" /\ prog[p].authority = as[Pda[p]].state.authority
  BY <1>2, LiveEntry
<1>6. next = [prog EXCEPT ![p] = AsProgram(new, p)]
  BY <1>1, ChangesEntry
<1> HIDE DEF prog, next
<1>7. RegistryStep(prog, next, by)
  BY <1>2, <1>4, <1>5, <1>6 DEF RegistryStep
<1> QED BY <1>7 DEF prog, next

\* An instruction changes one entry of the registry, as one of its operations
\* does, or none.
LEMMA OutcomeEntry ==
  ASSUME NEW as, Linked(as), NEW new \in Accounts, NEW by, NEW cache, NEW next,
         Outcome(as, new, by, cache, next)
  PROVE  RegistryStep(Programs(as), Programs(new), by)
<1>1. CASE LeavesPrograms(as, new)
  <2>1. \A q \in Program : AsProgram(new, q) = AsProgram(as, q)
    BY <1>1, LeavesSame, SameEntry
  <2> QED BY <2>1 DEF Programs, RegistryStep
<1>2. CASE new = as
  BY <1>2 DEF RegistryStep
<1> QED BY <1>1, <1>2, DeploysEntry, UpgradesEntry, HandsOverEntry, ClosesEntry DEF Outcome

\* The ledger starts with an empty registry.
LEMMA InitRegistry == Init => Registry!Init
<1> SUFFICES ASSUME Init PROVE Registry!Init
  OBVIOUS
<1>1. bank = Supply /\ acct = Supply /\ signers = {}
  BY DEF Init
<1>2. ASSUME NEW p \in Program PROVE AsProgram(Supply, p) = Entry("absent", None, None)
  <2>1. Supply[p] = [NoAccount EXCEPT !.lamports = Supply[p].lamports]
    BY Arguments, SupplyAssumption
  <2>2. ~Supply[p].executable
    BY <2>1 DEF NoAccount
  <2> QED BY <2>2, AsProgramCases
<1> QED BY <1>1, <1>2 DEF Registry!Init, Registry!Absent, Entry

\* Every step of the loader is a step of the registry or leaves it as it is.
LEMMA NextRegistry ==
  AuthorityInv /\ ProgramInv /\ [Next]_vars => [Registry!Next]_(Registry!vars)
<1> SUFFICES ASSUME AuthorityInv, ProgramInv, [Next]_vars
             PROVE  \/ Registry!Next
                    \/ UNCHANGED <<Programs(bank), Programs(acct), signers>>
  BY DEF Registry!vars, Programs
<1> DEFINE Goal == \/ Registry!Next
                   \/ UNCHANGED <<Programs(bank), Programs(acct), signers>>
<1>1. /\ acct \in Accounts /\ acct' \in Accounts /\ Linked(acct)
      /\ AllSound(acct) /\ signers \subseteq Key
  BY NextType DEF ProgramInv, ProgramLinked, TypeOK, Accounts, AllSound
<1>2. CASE UNCHANGED vars
  BY <1>2 DEF vars
<1>3. ASSUME NEW s \in SignerSets, Begin(s) PROVE Goal
  <2>1. s \in (SUBSET Key) \ {{}} /\ signers = {} /\ signers' = s /\ UNCHANGED <<bank, acct>>
    BY <1>3, CallerAssumption DEF Begin, ledger, InTransaction
  <2>2. Registry!Begin
    BY <2>1 DEF Registry!Begin
  <2> QED BY <2>2 DEF Registry!Next
<1>4. CASE Commit
  <2>1. signers # {} /\ signers' = {} /\ bank' = Purge(acct) /\ acct' = Purge(acct)
    BY <1>4 DEF Commit, InTransaction
  <2>2. \A p \in Program : AsProgram(Purge(acct), p) = AsProgram(acct, p)
    BY <1>1, PurgeSame, SameEntry
  <2>3. Registry!Commit
    BY <2>1, <2>2 DEF Registry!Commit
  <2> QED BY <2>3 DEF Registry!Next
<1>5. CASE Abort
  <2>1. signers # {} /\ signers' = {} /\ acct' = bank /\ bank' = bank
    BY <1>5 DEF Abort, InTransaction, ledger
  <2>2. Registry!Abort
    BY <2>1 DEF Registry!Abort
  <2> QED BY <2>2 DEF Registry!Next
<1>6. CASE Tick
  BY <1>6 DEF Tick
<1>7. ASSUME NEW p \in Program, Evict(p) PROVE Goal
  BY <1>7 DEF Evict
<1>8. CASE Instruction
  <2>1. /\ bank' = bank /\ signers' = signers
        /\ Outcome(acct, acct', signers, loaded, loaded')
    BY <1>8 DEF Instruction, Executing, ledger
  <2>2. RegistryStep(Programs(acct), Programs(acct'), signers)
    BY <1>1, <2>1, OutcomeEntry
  <2>3. CASE Programs(acct') = Programs(acct)
    BY <2>1, <2>3
  <2> DEFINE prog == Programs(acct)
             next == Programs(acct')
  <2>4. ASSUME NEW p \in Program, NEW k \in signers, NEW c \in InstalledCode,
               prog[p] = Entry("absent", None, None),
               next = [prog EXCEPT ![p] = Entry("live", k, c)]
        PROVE  Registry!Deploy(p)
    BY <2>1, <2>4 DEF Registry!Deploy, Registry!Absent, Registry!Live, Entry, Programs
  <2>5. ASSUME NEW p \in Program, prog[p].status = "live", prog[p].authority \in signers,
               NEW c \in InstalledCode, next = [prog EXCEPT ![p].code = c]
        PROVE  Registry!Upgrade(p)
    BY <2>1, <2>5 DEF Registry!Upgrade, Programs
  <2>6. ASSUME NEW p \in Program, prog[p].status = "live", prog[p].authority \in signers,
               NEW k \in Key \cup {None}, next = [prog EXCEPT ![p].authority = k]
        PROVE  Registry!SetAuthority(p)
    BY <2>1, <2>6 DEF Registry!SetAuthority, Programs
  <2>7. ASSUME NEW p \in Program, prog[p].status = "live", prog[p].authority \in signers,
               next = [prog EXCEPT ![p] = Entry("closed", None, None)]
        PROVE  Registry!Close(p)
    BY <2>1, <2>7 DEF Registry!Close, Registry!Closed, Entry, Programs
  <2> QED BY <2>2, <2>3, <2>4, <2>5, <2>6, <2>7 DEF RegistryStep, Registry!Next
<1> QED BY <1>2, <1>3, <1>4, <1>5, <1>6, <1>7, <1>8, NextInstruction

\* The loader implements the registry: for any accounts, keys and sizes a program is
\* deployed once, with verified code, by transactions that take effect as a whole;
\* its authority, and nobody else, upgrades, hands over or closes it; a final
\* program stays as it is and a closed one stays closed.
THEOREM LoaderImplementsRegistry == Spec => ImplementsRegistry
BY ProgramsHold, InitRegistry, NextRegistry, PTL
   DEF Spec, ImplementsRegistry, Registry!Spec
=============================================================================
