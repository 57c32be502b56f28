---------------------------- MODULE LoaderClient ----------------------------
(***************************************************************************)
(* The client side of the upgradeable loader (bpf_loader_upgradable.rs):   *)
(* the functions that build its instructions, each with a list of accounts *)
(* flagged as signer or writable, against a loader that finds an account   *)
(* by its position in that list.  A transaction is signed by the accounts  *)
(* flagged so and by no other.                                             *)
(***************************************************************************)
EXTENDS LoaderInstructions, LoaderWire, SequencesExt

CONSTANTS
  Supply,      \* the accounts and balances the ledger starts with
  Authority,   \* keys passed as authority
  Deposit,     \* balances accounts are created with
  BufferLens,  \* lengths buffers are created for
  ProgramLens, \* lengths programs are deployed and extended for
  Offsets, Chunk,  \* where a Write goes, and its content
  rent, clock, system_program  \* the sysvars and the program some instructions name

VARIABLES
  acct,        \* the accounts on the chain
  program_len  \* history: what each buffer was created for

clientVars == <<acct, program_len>>

ASSUME ClientAssumption ==
  /\ Supply \in [Address -> Account]
  /\ \A a \in Address : Supply[a] = [NoAccount EXCEPT !.lamports = Supply[a].lamports]
  /\ Authority \subseteq Key /\ {rent, clock, system_program} \subseteq Key \ Address
  /\ Deposit \cup BufferLens \cup ProgramLens \cup Offsets \subseteq Nat
  /\ Chunk \subseteq Seq(Byte)

-----------------------------------------------------------------------------
(* Instructions and the accounts they name                                 *)

New(key, signer) == [key |-> key, signer |-> signer, writable |-> TRUE]
NewReadonly(key, signer) == [key |-> key, signer |-> signer, writable |-> FALSE]

Instruction(program_id, data, metas) ==
  [program_id |-> program_id, data |-> data, metas |-> metas]

\* Instruction::new_with_bincode
new_with_bincode(variant, fields, metas) ==
  Instruction("loader", serialize(variant, fields), metas)

\* The one instruction of the system program there is here.
create_account(from, to, lamports, space) ==
  Instruction("system", [fields |-> [lamports |-> lamports, space |-> space]],
              <<New(from, TRUE), New(to, TRUE)>>)

size_of_bufferBare(len) == len

size_of_buffer(len) == BufferMeta + len

create_buffer(payer, buffer, authority, lamports, len) ==
  << create_account(payer, buffer, lamports, size_of_buffer(len)),
     new_with_bincode("InitializeBuffer", << >>,
                      <<New(buffer, FALSE), NewReadonly(authority, FALSE)>>) >>

write(buffer, authority, offset, bytes) ==
  << new_with_bincode("Write", [offset |-> offset, bytes |-> bytes],
                      <<New(buffer, FALSE), NewReadonly(authority, TRUE)>>) >>

deploy_with_max_program_len(payer, program, buffer, authority, lamports, len) ==
  << create_account(payer, program, lamports, ProgramLen),
     new_with_bincode("DeployWithMaxDataLen", [max_data_len |-> len],
       <<New(payer, TRUE), New(Pda[program], FALSE), New(program, FALSE), New(buffer, FALSE),
         NewReadonly(rent, FALSE), NewReadonly(clock, FALSE),
         NewReadonly(system_program, FALSE), NewReadonly(authority, TRUE)>>) >>

upgradeReadonly(program, buffer, authority, spill) ==
  << new_with_bincode("Upgrade", << >>,
       <<New(Pda[program], FALSE), NewReadonly(program, FALSE), New(buffer, FALSE),
         New(spill, FALSE), NewReadonly(rent, FALSE), NewReadonly(clock, FALSE),
         NewReadonly(authority, TRUE)>>) >>

upgrade(program, buffer, authority, spill) ==
  << new_with_bincode("Upgrade", << >>,
       <<New(Pda[program], FALSE), New(program, FALSE), New(buffer, FALSE),
         New(spill, FALSE), NewReadonly(rent, FALSE), NewReadonly(clock, FALSE),
         NewReadonly(authority, TRUE)>>) >>

set_buffer_authority(buffer, current, new) ==
  << new_with_bincode("SetAuthority", << >>,
       <<New(buffer, FALSE), NewReadonly(current, TRUE), NewReadonly(new, FALSE)>>) >>

set_buffer_authority_checked(buffer, current, new) ==
  << new_with_bincode("SetAuthorityChecked", << >>,
       <<New(buffer, FALSE), NewReadonly(current, TRUE), NewReadonly(new, TRUE)>>) >>

\* The metas of an optional account.
SomeSigning(key) == IF key = None THEN << >> ELSE <<NewReadonly(key, TRUE)>>
Some(key) == IF key = None THEN << >> ELSE <<NewReadonly(key, FALSE)>>

set_upgrade_authoritySigned(program, current, new) ==
  << new_with_bincode("SetAuthority", << >>,
       <<New(Pda[program], FALSE), NewReadonly(current, TRUE)>> \o SomeSigning(new)) >>

set_upgrade_authority(program, current, new) ==
  << new_with_bincode("SetAuthority", << >>,
       <<New(Pda[program], FALSE), NewReadonly(current, TRUE)>> \o Some(new)) >>

set_upgrade_authority_checked(program, current, new) ==
  << new_with_bincode("SetAuthorityChecked", << >>,
       <<New(Pda[program], FALSE), NewReadonly(current, TRUE), NewReadonly(new, TRUE)>>) >>

close_any(account, recipient, authority, program) ==
  << new_with_bincode("Close", << >>,
       <<New(account, FALSE), New(recipient, FALSE)>> \o SomeSigning(authority)
         \o (IF program = None THEN << >> ELSE <<New(program, FALSE)>>)) >>

close(account, recipient, authority) == close_any(account, recipient, authority, None)

extend_program(program, payer, additional_bytes) ==
  << new_with_bincode("ExtendProgram", [additional_bytes |-> additional_bytes],
       <<New(Pda[program], FALSE), New(program, FALSE)>>
         \o (IF payer = None THEN << >>
             ELSE <<NewReadonly(system_program, FALSE), New(payer, TRUE)>>)) >>

-----------------------------------------------------------------------------
(* The same instructions as deploy.ts writes them, by hand                 *)

ByHand(index, fields, metas) ==
  << Instruction("loader", [index |-> index, fields |-> fields], metas) >>

scriptInitialize(buffer, payer) ==
  ByHand(0, << >>, <<New(buffer, FALSE), NewReadonly(payer, FALSE)>>)

scriptWrite(buffer, payer, offset, bytes) ==
  ByHand(1, [offset |-> offset, bytes |-> bytes],
         <<New(buffer, FALSE), NewReadonly(payer, TRUE)>>)

scriptDeploySwapped(payer, program, buffer, size) ==
  ByHand(2, [max_data_len |-> size],
         <<New(payer, TRUE), New(program, FALSE), New(Pda[program], FALSE), New(buffer, FALSE),
           NewReadonly(rent, FALSE), NewReadonly(clock, FALSE),
           NewReadonly(system_program, FALSE), NewReadonly(payer, TRUE)>>)

scriptDeploy(payer, program, buffer, size) ==
  ByHand(2, [max_data_len |-> size],
         <<New(payer, TRUE), New(Pda[program], FALSE), New(program, FALSE), New(buffer, FALSE),
           NewReadonly(rent, FALSE), NewReadonly(clock, FALSE),
           NewReadonly(system_program, FALSE), NewReadonly(payer, TRUE)>>)

-----------------------------------------------------------------------------
(* The chain                                                               *)

Metas(tx) == UNION {ToSet(ix.metas) : ix \in ToSet(tx)}

\* An account flagged anywhere in a transaction is so in all its instructions.
Signing(tx) == {m.key : m \in {x \in Metas(tx) : x.signer}}
Writable(tx) == {m.key : m \in {x \in Metas(tx) : x.writable}}

\* keyed_account_at_index, of an account that may be absent
At(ix, index) == IF index < Len(ix.metas) THEN ix.metas[index + 1].key ELSE None

\* What the program an instruction is sent to takes it for.
Operation(ix) ==
  IF ix.program_id = "system" THEN "CreateAccount" ELSE limited_deserialize(ix.data)

\* The checks of an instruction, over the accounts at the positions it reads.
Can(as, signers, writable, ix) ==
  LET op == Operation(ix)
      args == ix.data.fields
  IN
  CASE op = "CreateAccount" ->
         CanCreateAccount(as, signers, At(ix, 0), At(ix, 1), args.lamports)
    [] op = "InitializeBuffer" ->
         At(ix, 1) # None /\ CanInitializeBuffer(as, At(ix, 0))
    [] op = "Write" ->
         CanWrite(as, signers, At(ix, 0), At(ix, 1), args.offset, args.bytes)
    [] op = "DeployWithMaxDataLen" ->
         /\ At(ix, 4) = rent /\ At(ix, 5) = clock
         /\ \E m \in ToSet(ix.metas) : m.key = system_program
         /\ CanDeploy(as, signers, At(ix, 0), At(ix, 1), At(ix, 2), At(ix, 3), At(ix, 7),
                      args.max_data_len)
    [] op = "Upgrade" ->
         /\ At(ix, 4) = rent /\ At(ix, 5) = clock
         /\ At(ix, 1) \in writable
         /\ CanUpgrade(as, signers, At(ix, 0), At(ix, 1), At(ix, 2), At(ix, 3), At(ix, 6))
    [] op = "SetAuthority" ->
         CanSetAuthority(as, signers, At(ix, 0), At(ix, 1), At(ix, 2))
    [] op = "Close" ->
         /\ Holds(as[At(ix, 0)], "ProgramData") => At(ix, 3) \in writable
         /\ CanClose(as, signers, At(ix, 0), At(ix, 1), At(ix, 2), At(ix, 3))
    [] op = "InvalidInstructionData" -> FALSE

After(as, ix) ==
  LET op == Operation(ix)
      args == ix.data.fields
  IN
  CASE op = "CreateAccount" ->
         AfterCreateAccount(as, At(ix, 0), At(ix, 1), args.lamports, args.space)
    [] op = "InitializeBuffer" -> AfterInitializeBuffer(as, At(ix, 0), At(ix, 1))
    [] op = "Write" -> AfterWrite(as, At(ix, 0), args.offset, args.bytes)
    [] op = "DeployWithMaxDataLen" ->
         AfterDeploy(as, At(ix, 0), At(ix, 1), At(ix, 2), At(ix, 3), At(ix, 7),
                     args.max_data_len, 0)
    [] op = "Upgrade" ->
         AfterUpgrade(as, At(ix, 0), At(ix, 2), At(ix, 3), At(ix, 6), 0)
    [] op = "SetAuthority" -> AfterSetAuthority(as, At(ix, 0), At(ix, 2))
    [] op = "Close" -> AfterClose(as, At(ix, 0), At(ix, 1))

\* The runtime fails an instruction that changed an account not locked for it.
Executes(as, signers, writable, ix) ==
  /\ Can(as, signers, writable, ix)
  /\ \A a \in Address : After(as, ix)[a] # as[a] => a \in writable

\* An instruction, on what the ones before it left.
Step(signers, writable, r, ix) ==
  IF r.ok /\ Executes(r.as, signers, writable, ix)
  THEN [r EXCEPT !.as = After(@, ix)] ELSE [r EXCEPT !.ok = FALSE]

\* The instructions in order.
RunOn(as, signers, writable, tx) ==
  FoldLeft(LAMBDA r, ix : Step(signers, writable, r, ix), [ok |-> TRUE, as |-> as], tx)

Run(signers, writable, tx) == RunOn(acct, signers, writable, tx)

\* Nobody holds the key of a derived address.
Signable == Key \ {Pda[p] : p \in Program}

Send(tx) ==
  LET end == Run(Signing(tx), Writable(tx), tx)
  IN Signing(tx) \subseteq Signable /\ end.ok /\ acct' = Purge(end.as)

\* The lengths of the buffers that are left.
Created(lens) ==
  program_len' = [a \in Address |-> IF acct'[a].state.tag = "Buffer" THEN lens[a] ELSE 0]

-----------------------------------------------------------------------------
(* The client                                                              *)

ClientInit == acct = Supply /\ program_len = [a \in Address |-> 0]

CreateBuffer(payer, buffer, authority, lamports, len) ==
  /\ Send(create_buffer(payer, buffer, authority, lamports, len))
  /\ Created([program_len EXCEPT ![buffer] = len])

\* What a client builds for accounts there are already.
Writes == {write(b, k, n, c) : b \in Address, k \in Authority, n \in Offsets, c \in Chunk}
Deploys ==
  {deploy_with_max_program_len(payer, p, b, k, n, size) : payer \in Address, p \in Program,
     b \in Address, k \in Authority, n \in Deposit, size \in ProgramLens}
Upgrades ==
  {upgrade(p, b, k, spill) : p \in Program, b \in Address, k \in Authority, spill \in Address}
Sets ==
  {set_buffer_authority(b, k, new) : b \in Address, k \in Authority, new \in Authority}
SetsUpgrade ==
  {set_upgrade_authority(p, k, new) :
     p \in Program, k \in Authority, new \in Authority \cup {None}}
ClosesAny ==
  {close_any(a, r, k, p) : a \in Address, r \in Address, k \in Authority \cup {None},
                           p \in Program \cup {None}}
ClosesOwn == {close(a, r, k) : a \in Address, r \in Address, k \in Authority}
SetsChecked ==
  {set_buffer_authority_checked(b, k, new) :
     b \in Address, k \in Authority, new \in Authority}
SetsUpgradeChecked ==
  {set_upgrade_authority_checked(p, k, new) :
     p \in Program, k \in Authority, new \in Authority}
Extends ==
  {extend_program(p, payer, n) :
     p \in Program, payer \in Address \cup {None}, n \in ProgramLens}

Built == Writes \cup Deploys \cup Upgrades \cup Sets \cup SetsUpgrade \cup ClosesAny \cup ClosesOwn
           \cup SetsChecked \cup SetsUpgradeChecked \cup Extends

ClientNext ==
  \/ \E payer, b \in Address, k \in Authority, n \in Deposit, len \in BufferLens :
       CreateBuffer(payer, b, k, n, len)
  \/ \E tx \in Built : Send(tx) /\ Created(program_len)

ClientSpec == ClientInit /\ [][ClientNext]_clientVars
-----------------------------------------------------------------------------
(* Properties                                                              *)

\* Accounts stay well formed whatever the client sends.
ClientTypeOK == acct \in [Address -> Account] /\ program_len \in [Address -> Nat]

\* The account lists ask for enough: a transaction that would succeed with every
\* signature and every account writable succeeds with those they flag.
AsksEnough ==
  \A tx \in Built :
    Run(Signable, Key, tx).ok => Run(Signing(tx), Writable(tx), tx).ok

\* And for no signature too many: without any one of them it would fail.
AsksNoMore ==
  \A tx \in Built :
    Run(Signing(tx), Writable(tx), tx).ok =>
      \A k \in Signing(tx) : ~Run(Signing(tx) \ {k}, Writable(tx), tx).ok

\* The predicates tell what an instruction does from its first byte: one that installs
\* another program is an upgrade, one that hands an account over sets an authority, and
\* one that empties a state closes.  (Who lets only some of them through relies on it.)
PredicatesTell ==
  \A tx \in Built :
    LET before == Run(Signable, Key, Front(tx)).as
        after  == Run(Signable, Key, tx)
        data   == Last(tx).data
    IN after.ok =>
         \A a \in Address :
           LET was == before[a]
               is  == after.as[a]
           IN /\ Holds(was, "ProgramData") /\ Holds(is, "ProgramData")
                   /\ ProgramDataContent(is) # ProgramDataContent(was)
                 => is_upgrade_instruction(data)
              /\ is.state.tag = was.state.tag /\ is.state.authority # was.state.authority
                 => is_set_authority_instruction(data)
                      \/ is_set_authority_checked_instruction(data)
              /\ is.state.tag = "Uninitialized" /\ was.state.tag # "Uninitialized"
                 => is_close_instruction(data)

\* deploy.ts numbers its instructions and orders their accounts by hand: on any accounts
\* they do what those of the library do, when one wallet is payer and authority.  The
\* account they are for has just been created, as by the instruction that precedes them
\* in the library's transaction: on one that has a state already they are refused.
Alike(hand, built) ==
  LET created == Run(Signing(built), Writable(built), Front(built)).as
      tx == <<Last(built)>>
  IN RunOn(created, Signing(hand), Writable(hand), hand)
       = RunOn(created, Signing(tx), Writable(tx), tx)
ScriptAgrees ==
  \A payer \in Address \cap Authority, b \in Address :
    /\ \A n \in Deposit, len \in BufferLens :
         Alike(scriptInitialize(b, payer), create_buffer(payer, b, payer, n, len))
    /\ \A i \in Offsets, c \in Chunk :
         Alike(scriptWrite(b, payer, i, c), write(b, payer, i, c))
    /\ \A p \in Program, n \in Deposit, len \in ProgramLens :
         Alike(scriptDeploy(payer, p, b, len),
               deploy_with_max_program_len(payer, p, b, payer, n, len))

\* A buffer made by create_buffer for a length holds a program of that length up
\* to its last cell, whoever had its authority in between, and no longer one.
BufferHoldsProgram ==
  \A b \in Address : Holds(acct[b], "Buffer") =>
    \A i \in Offsets, c \in Chunk :
      Run(Key, Key, write(b, acct[b].state.authority, i, c)).ok
        <=> i + Len(c) <= program_len[b]
=============================================================================
