------------------------- MODULE LoaderInstructions -------------------------
(***************************************************************************)
(* The instructions of the upgradeable BPF loader kept under scripts/ref,  *)
(* as pure operators over a map of accounts.  CanX is the conjunction of   *)
(* every check instruction X makes before it returns Ok, AfterX the map it *)
(* leaves.  The state machines (UpgradeableLoader, Deploy) give them       *)
(* transactions, a ledger and callers.                                     *)
(*                                                                         *)
(* Sizes are counted in cells instead of bytes: an account's data is a     *)
(* sequence of cells, its serialised loader state covers the first cells   *)
(* (value Meta) and the rest is program content.                           *)
(***************************************************************************)
EXTENDS ProgramBits

CONSTANTS
  Address,          \* accounts of the ledger
  Key,              \* public keys: the addresses and keys that only sign
  None,             \* Option::None
  Program,          \* addresses a program may be deployed at
  Pda,              \* find_program_address([program], loader)
  Meta,             \* a cell that holds serialised state
  BufferMeta,       \* cells of metadata before a buffer's content
  ProgramDataMeta,  \* cells of metadata before a programdata's content
  ProgramLen,       \* cells of a serialised Program state
  MaxDataLen,       \* MAX_PERMITTED_DATA_LENGTH
  RentOverhead,     \* cells every account pays rent for besides its data
  RentRate,         \* rent-exempt balance of one cell
  Predrain          \* the reduce_required_deploy_balance feature is active

ASSUME KeyAssumption ==
  Address \subseteq Key /\ None \notin Key
ASSUME PdaAssumption ==
  /\ Program \subseteq Address
  /\ Pda \in [Program -> Address \ Program]
  /\ \A p, q \in Program : Pda[p] = Pda[q] => p = q
ASSUME CellAssumption ==
  Zero \in Byte /\ Meta \notin Byte /\ Image \subseteq Seq(Byte)
ASSUME SizeAssumption ==
  /\ {BufferMeta, ProgramDataMeta, ProgramLen, MaxDataLen} \subseteq Nat \ {0}
  /\ ProgramLen <= BufferMeta /\ BufferMeta <= ProgramDataMeta
ASSUME RentAssumption ==
  RentOverhead \in Nat /\ RentRate \in Nat \ {0} /\ Predrain \in BOOLEAN

\* Rent::minimum_balance
Rent(len) == (RentOverhead + len) * RentRate

-----------------------------------------------------------------------------
(* Accounts                                                                *)

Tag == {"Uninitialized", "Buffer", "Program", "ProgramData"}

State == [tag : Tag, authority : Key \cup {None},
          programdata : Address \cup {None}, slot : Nat]

Account == [lamports : Nat, owner : {"system", "loader"}, executable : BOOLEAN,
            state : State, data : Seq(Byte \cup {Meta})]

Uninitialized ==
  [tag |-> "Uninitialized", authority |-> None, programdata |-> None, slot |-> 0]

BufferState(authority) ==
  [Uninitialized EXCEPT !.tag = "Buffer", !.authority = authority]

ProgramState(programdata) ==
  [Uninitialized EXCEPT !.tag = "Program", !.programdata = programdata]

ProgramDataState(slot, authority) ==
  [Uninitialized EXCEPT !.tag = "ProgramData", !.slot = slot,
                        !.authority = authority]

\* What the ledger returns for an address that holds no lamports.
NoAccount ==
  [lamports |-> 0, owner |-> "system", executable |-> FALSE,
   state |-> Uninitialized, data |-> << >>]

\* A zeroed allocation, as the system program's CreateAccount makes it.
Allocated(lamports, space) ==
  [NoAccount EXCEPT !.lamports = lamports, !.owner = "loader",
                    !.data = [i \in 1..space |-> Zero]]

\* An account left without lamports is gone when the transaction ends.
Purge(as) == [a \in Address |-> IF as[a].lamports = 0 THEN NoAccount ELSE as[a]]

-----------------------------------------------------------------------------
(* Account data                                                            *)

\* buffer_data_offset and programdata_data_offset.
Content(account, offset) == SubSeq(account.data, offset + 1, Len(account.data))

BufferContent(account) == Content(account, BufferMeta)
ProgramDataContent(account) == Content(account, ProgramDataMeta)

\* KeyedAccount::state fails on data too short to hold a state.
Holds(account, tag) == account.data # << >> /\ account.state.tag = tag

StateLen(tag) ==
  CASE tag = "Uninitialized" -> 1
    [] tag = "Buffer"        -> BufferMeta
    [] tag = "Program"       -> ProgramLen
    [] tag = "ProgramData"   -> ProgramDataMeta

\* set_state serialises over the front of the data and leaves the rest.
SetState(account, state) ==
  [account EXCEPT
     !.state = state,
     !.data = [i \in DOMAIN @ |-> IF i <= StateLen(state.tag) THEN Meta ELSE @[i]]]

ZeroFrom(data, offset) == [i \in DOMAIN data |-> IF i > offset THEN Zero ELSE data[i]]

AtLeastOne(n) == IF n < 1 THEN 1 ELSE n

\* The runtime lets the loader change or debit only accounts it owns that are
\* not executable, and never moves the balance of an executable account.
Changeable(account) == account.owner = "loader" /\ ~account.executable

\* The signature check every authority goes through: the recorded authority is
\* present, is the one passed, and signed.
AuthorisedUnsigned(state, authority, signers) ==
  state.authority # None /\ state.authority = authority

Authorised(state, authority, signers) ==
  /\ state.authority # None
  /\ state.authority = authority
  /\ authority \in signers

-----------------------------------------------------------------------------
(* The system program, as the loader and its callers use it                *)

CanCreateAccountUnfunded(as, signers, from, to, lamports) ==
  /\ from # to
  /\ {from, to} \subseteq signers
  /\ as[from].owner = "system" /\ as[from].data = << >>
  /\ as[to] = NoAccount

CanCreateAccount(as, signers, from, to, lamports) ==
  /\ from # to
  /\ {from, to} \subseteq signers
  /\ as[from].owner = "system" /\ as[from].data = << >>
  /\ as[from].lamports >= lamports
  /\ as[to] = NoAccount

AfterCreateAccount(as, from, to, lamports, space) ==
  [as EXCEPT ![from].lamports = @ - lamports, ![to] = Allocated(lamports, space)]

CanTransfer(as, signers, from, to, lamports) ==
  /\ from # to
  /\ from \in signers
  /\ as[from].owner = "system" /\ as[from].data = << >>
  /\ as[from].lamports >= lamports
  /\ ~as[to].executable

AfterTransfer(as, from, to, lamports) ==
  [as EXCEPT ![from].lamports = @ - lamports, ![to].lamports = @ + lamports]

-----------------------------------------------------------------------------
(* Loader instructions                                                     *)

CanInitializeBuffer(as, buffer) ==
  /\ Holds(as[buffer], "Uninitialized")
  /\ Changeable(as[buffer])
  /\ Len(as[buffer].data) >= BufferMeta

AfterInitializeBuffer(as, buffer, authority) ==
  [as EXCEPT ![buffer] = SetState(@, BufferState(authority))]

CanWrite(as, signers, buffer, authority, offset, bytes) ==
  /\ Holds(as[buffer], "Buffer")
  /\ Authorised(as[buffer].state, authority, signers)
  /\ Len(as[buffer].data) >= BufferMeta + offset + Len(bytes)
  /\ Changeable(as[buffer])

AfterWriteFromStart(as, buffer, offset, bytes) ==
  [as EXCEPT ![buffer].data = Overwrite(@, offset, bytes)]

AfterWrite(as, buffer, offset, bytes) ==
  [as EXCEPT ![buffer].data = Overwrite(@, BufferMeta + offset, bytes)]

\* The account a program may be deployed at.
ProgramReadyUnfunded(account) ==
  /\ Holds(account, "Uninitialized")
  /\ Len(account.data) >= ProgramLen
  /\ Changeable(account)

ProgramReady(account) ==
  /\ Holds(account, "Uninitialized")
  /\ Len(account.data) >= ProgramLen
  /\ account.lamports >= Rent(Len(account.data))
  /\ Changeable(account)

\* A buffer whose authority signed and whose content may be installed.
BufferReady(account, authority, signers) ==
  /\ Holds(account, "Buffer")
  /\ Authorised(account.state, authority, signers)
  /\ Len(account.data) > BufferMeta
  /\ Loads(BufferContent(account))
  /\ Changeable(account)

\* The programdata account the create_account call makes: rent-exempt, and one
\* lamport at least, which the payer must have before or after the drain.
ProgramDataCost(len) == AtLeastOne(Rent(ProgramDataMeta + len))

PaysUnchecked(as, payer, buffer, maxLen) ==
  as[payer].owner = "system" /\ as[payer].data = << >>

Pays(as, payer, buffer, maxLen) ==
  /\ as[payer].owner = "system" /\ as[payer].data = << >>
  /\ as[payer].lamports + (IF Predrain THEN as[buffer].lamports ELSE 0)
       >= ProgramDataCost(maxLen)

CanDeploy(as, signers, payer, programdata, program, buffer, authority, maxLen) ==
  /\ ProgramReady(as[program])
  /\ BufferReady(as[buffer], authority, signers)
  /\ maxLen >= Len(BufferContent(as[buffer]))
  /\ ProgramDataMeta + maxLen <= MaxDataLen
  /\ programdata = Pda[program]
  /\ as[programdata] = NoAccount
  /\ payer \notin {programdata, buffer}  \* buffer: borrowed twice otherwise
  /\ payer \in signers
  /\ Pays(as, payer, buffer, maxLen)

DeployedProgramData(as, buffer, authority, maxLen, slot) ==
  LET fresh == SetState(Allocated(ProgramDataCost(maxLen), ProgramDataMeta + maxLen),
                        ProgramDataState(slot, authority))
  IN [fresh EXCEPT !.data = Overwrite(@, ProgramDataMeta, BufferContent(as[buffer]))]

\* The payer gets the buffer's lamports and funds the programdata.
PayerLeft(as, payer, buffer, maxLen) ==
  as[payer].lamports + as[buffer].lamports - ProgramDataCost(maxLen)

AfterDeploy(as, payer, programdata, program, buffer, authority, maxLen, slot) ==
  [as EXCEPT
     ![payer].lamports = PayerLeft(as, payer, buffer, maxLen),
     ![buffer].lamports = 0,
     ![programdata] = DeployedProgramData(as, buffer, authority, maxLen, slot),
     ![program] = [SetState(@, ProgramState(programdata)) EXCEPT !.executable = TRUE]]

BalanceRequired(account) == AtLeastOne(Rent(Len(account.data)))

Surplus(as, programdata, buffer) ==
  as[programdata].lamports + as[buffer].lamports - BalanceRequired(as[programdata])

\* A programdata whose authority signed.
UpgradeableByAnyone(account, authority, signers) ==
  Holds(account, "ProgramData") /\ Changeable(account)

UpgradeableIfAuthorised(account, authority, signers) ==
  Authorised(account.state, authority, signers) /\ Changeable(account)

Upgradeable(account, authority, signers) ==
  /\ Holds(account, "ProgramData")
  /\ Authorised(account.state, authority, signers)
  /\ Changeable(account)

\* An executable program account that points at that programdata.
LinksTo(account, programdata) ==
  /\ account.owner = "loader"
  /\ Holds(account, "Program")
  /\ account.state.programdata = programdata

CanUpgrade(as, signers, programdata, program, buffer, spill, authority) ==
  /\ as[program].executable /\ LinksTo(as[program], programdata)
  /\ BufferReady(as[buffer], authority, signers)
  /\ Len(as[programdata].data) >= ProgramDataMeta + Len(BufferContent(as[buffer]))
  /\ Surplus(as, programdata, buffer) >= 0
  /\ Upgradeable(as[programdata], authority, signers)
  /\ buffer # programdata
  /\ spill \notin {programdata, buffer}   \* borrowed while it is credited
  /\ as[spill].executable => Surplus(as, programdata, buffer) = 0

UpgradedProgramData(as, programdata, buffer, authority, slot) ==
  LET code == BufferContent(as[buffer])
      new  == SetState(as[programdata], ProgramDataState(slot, authority))
  IN [new EXCEPT
        !.lamports = BalanceRequired(new),
        !.data = ZeroFrom(Overwrite(@, ProgramDataMeta, code),
                          ProgramDataMeta + Len(code))]

AfterUpgrade(as, programdata, buffer, spill, authority, slot) ==
  [as EXCEPT
     ![spill].lamports = @ + Surplus(as, programdata, buffer),
     ![buffer].lamports = 0,
     ![programdata] = UpgradedProgramData(as, programdata, buffer, authority, slot)]

CanSetAuthority(as, signers, account, present, new) ==
  /\ Holds(as[account], "Buffer") \/ Holds(as[account], "ProgramData")
  /\ Holds(as[account], "Buffer") => new # None
  /\ Authorised(as[account].state, present, signers)
  /\ Changeable(as[account])

AfterSetAuthority(as, account, new) ==
  [as EXCEPT ![account] =
     SetState(@, IF @.state.tag = "Buffer" THEN BufferState(new)
                 ELSE ProgramDataState(@.state.slot, new))]

\* Close: an uninitialized account needs no signature, a buffer its authority,
\* a programdata its authority and the program account that links to it.
CanClose(as, signers, close, recipient, authority, program) ==
  /\ close # recipient
  /\ Changeable(as[close])
  /\ ~as[recipient].executable \/ as[close].lamports = 0
  /\ \/ Holds(as[close], "Uninitialized")
     \/ /\ Holds(as[close], "Buffer")
        /\ Authorised(as[close].state, authority, signers)
     \/ /\ Holds(as[close], "ProgramData")
        /\ LinksTo(as[program], close)
        /\ Authorised(as[close].state, authority, signers)

AfterCloseUndrained(as, close, recipient) ==
  [as EXCEPT ![recipient].lamports = @ + as[close].lamports,
             ![close] = SetState(@, Uninitialized)]

\* (Uninitialized serialises as the zeros an uninitialized account starts with.)
AfterClose(as, close, recipient) ==
  [as EXCEPT ![recipient].lamports = @ + as[close].lamports,
             ![close] = [SetState(@, Uninitialized) EXCEPT !.lamports = 0]]

\* process_instruction_common, for an executable program account.
CanInvoke(as, program) ==
  /\ as[program].executable
  /\ LinksTo(as[program], as[program].state.programdata)
  /\ Holds(as[as[program].state.programdata], "ProgramData")
=============================================================================
