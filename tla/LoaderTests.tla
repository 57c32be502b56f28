----------------------------- MODULE LoaderTests -----------------------------
(***************************************************************************)
(* The tests of the upgradeable loader (mod tests of bpf_loader's lib.rs), *)
(* replayed on the model: one definition per test, or per group of its     *)
(* cases where the test is long, and the accounts each prepares.  A case   *)
(* that expects an error is a call that must be refused, whichever error   *)
(* it names.  Nine bytes of content become as many cells as the model's    *)
(* ELF has; the fee of a transaction is left out.                          *)
(***************************************************************************)
EXTENDS LoaderClient

CONSTANTS
  payer_address, program_address, programdata_address, buffer_address,
  authority_address, new_authority_address, invalid_authority_address,
  elf_orig, elf_new,  \* two programs that load, of different lengths
  bad_elf             \* what is left of one that was truncated

\* KeyedAccountTuple lists: process_instruction, and the accounts it leaves.
process_instruction(as, ix) == Can(as, Signing(<<ix>>), Writable(<<ix>>), ix)

\* An account of the loader that holds a state and, behind it, content.
Stored(lamports, state, content) ==
  SetState([Allocated(lamports, 0) EXCEPT
              !.data = [i \in 1..StateLen(state.tag) |-> Zero] \o content], state)

Ledger(accounts) == accounts @@ [a \in Address |-> NoAccount]

Zeros(n) == [i \in 1..n |-> Zero]
len == Len(elf_orig)

-----------------------------------------------------------------------------
test_bpf_loader_upgradeable_initialize_buffer ==
  LET as == Ledger(buffer_address :> Allocated(1, BufferMeta + len))
      ix == new_with_bincode("InitializeBuffer", << >>,
               <<NewReadonly(buffer_address, FALSE), NewReadonly(authority_address, FALSE)>>)
  IN /\ process_instruction(as, ix)
     /\ After(as, ix)[buffer_address].state = BufferState(authority_address)
     /\ ~process_instruction(After(as, ix), ix)  \* Already initialized

test_bpf_loader_upgradeable_write ==
  LET Buffer(state) == Ledger(buffer_address :> Stored(1, state, Zeros(len)))
      mine == Buffer(BufferState(buffer_address))
      WriteBy(key, signed, offset, bytes) ==
        new_with_bincode("Write", [offset |-> offset, bytes |-> bytes],
           <<NewReadonly(buffer_address, FALSE), NewReadonly(key, signed)>>)
      whole == WriteBy(buffer_address, TRUE, 0, elf_orig)
      rest  == WriteBy(buffer_address, TRUE, 1, SubSeq(elf_orig, 2, len))
  IN /\ ~process_instruction(Ledger(buffer_address :> Allocated(1, BufferMeta + len)), whole)
     /\ process_instruction(mine, whole)
     /\ After(mine, whole)[buffer_address] = Stored(1, BufferState(buffer_address), elf_orig)
     /\ process_instruction(mine, rest)
     /\ BufferContent(After(mine, rest)[buffer_address]) = <<Zero>> \o SubSeq(elf_orig, 2, len)
     /\ ~process_instruction(mine, WriteBy(buffer_address, TRUE, 0, Append(elf_orig, Zero)))
     /\ ~process_instruction(mine, WriteBy(buffer_address, TRUE, 1, elf_orig))
     /\ ~process_instruction(mine, WriteBy(buffer_address, FALSE, 0, elf_orig))
     /\ ~process_instruction(mine, WriteBy(authority_address, TRUE, 1, elf_orig))
     /\ ~process_instruction(Buffer(BufferState(None)),
           WriteBy(authority_address, TRUE, 1, elf_orig))

-----------------------------------------------------------------------------
(* test_bpf_loader_upgradeable_deploy_with_max_len                         *)

min_program_balance == Rent(ProgramLen)
min_buffer_balance == Rent(BufferMeta + len)
min_programdata_balance == Rent(ProgramDataMeta + len)
payer_base_balance == 10

Payer(lamports) == payer_address :> [NoAccount EXCEPT !.lamports = lamports]
BufferOf(lamports, key, content) ==
  buffer_address :> Stored(lamports, BufferState(key), content)
buffer_account == BufferOf(min_buffer_balance, authority_address, elf_orig)
before == Ledger(buffer_account @@ Payer(payer_base_balance))

\* Message::new over deploy_with_max_program_len, and its first instruction
\* replaced by the creation of an account of another size.
DeployTx(lamports, max_data_len) ==
  deploy_with_max_program_len(payer_address, program_address, buffer_address,
                              authority_address, lamports, max_data_len)
deployTx == DeployTx(min_program_balance, len)
DeploySized(space) ==
  <<create_account(payer_address, program_address, min_program_balance, space), deployTx[2]>>

Sent(as, tx) == RunOn(as, Signing(tx), Writable(tx), tx)
Refused(as, tx) == ~Sent(as, tx).ok

\* The second instruction alone, with its last account replaced.
DeployWith(last) == <<[deployTx[2] EXCEPT !.metas = SubSeq(@, 1, 7) \o last]>>

deployed ==
  Sent(Ledger(buffer_account @@ Payer(payer_base_balance + min_program_balance
                                        + min_programdata_balance - min_buffer_balance)),
       deployTx)

deploy_success ==
  LET as == Purge(deployed.as)
  IN /\ deployed.ok
     /\ as[payer_address].lamports = payer_base_balance
     /\ as[buffer_address] = NoAccount
     /\ as[program_address].lamports = min_program_balance
     /\ Len(as[program_address].data) = ProgramLen
     /\ as[program_address].state = ProgramState(programdata_address)
     /\ as[programdata_address].lamports = min_programdata_balance
     /\ as[programdata_address].state = ProgramDataState(0, authority_address)
     /\ ProgramDataContent(as[programdata_address]) = elf_orig
     /\ CanInvoke(as, program_address)

\* Initialized program account, initialized ProgramData account; no authority,
\* authority not a signer; no buffer.
deploy_accounts ==
  LET again == buffer_account @@ Payer(payer_base_balance) @@ Purge(deployed.as)
      ready == Ledger(buffer_account @@ Payer(payer_base_balance)
                        @@ program_address :> Allocated(min_programdata_balance, ProgramLen)
                        @@ programdata_address :> Allocated(1, ProgramDataMeta + len))
  IN /\ Refused(again, <<deployTx[2]>>)
     /\ Refused(program_address :> NoAccount @@ again, deployTx)
     /\ Refused(ready, DeployWith(<< >>))
     /\ Refused(ready, DeployWith(<<NewReadonly(authority_address, FALSE)>>))
     /\ Refused(Ledger(Payer(payer_base_balance)), deployTx)

\* Not rent exempt, nor when larger than needed; too small; a payer without the
\* difference between the buffer's lamports and the programdata's.
deploy_balances ==
  /\ Refused(before, DeployTx(min_program_balance - 1, len))
  /\ Refused(before, DeploySized(ProgramLen + 1))
  /\ Refused(before, DeploySized(ProgramLen - 1))
  /\ Refused(Ledger(buffer_account @@ Payer(min_program_balance)), deployTx)

\* max_data_len too small, and too large for any account; not the system account.
deploy_max_data_len ==
  LET rich == MaxDataLen * Rent(ProgramDataMeta + MaxDataLen)
  IN /\ Refused(before, DeployTx(min_program_balance, len - 1))
     /\ Refused(Ledger(BufferOf(rich, authority_address, elf_orig) @@ Payer(rich)),
                DeployTx(min_program_balance, MaxDataLen))
     /\ Refused(before, [deployTx EXCEPT ![2].metas[7].key = invalid_authority_address])

\* Bad ELF, small buffer, mismatched authority, None authority.
deploy_buffers ==
  LET With(buffer) == Ledger(buffer @@ Payer(payer_base_balance))
  IN /\ Refused(With(BufferOf(min_buffer_balance, authority_address, bad_elf)), deployTx)
     /\ Refused(With(buffer_address :>
                       [buffer_account[buffer_address] EXCEPT
                          !.lamports = min_programdata_balance, !.data = << >>]), deployTx)
     /\ Refused(With(BufferOf(min_programdata_balance, buffer_address, elf_orig)), deployTx)
     /\ Refused(With(BufferOf(min_programdata_balance, None, elf_orig)), deployTx)

-----------------------------------------------------------------------------
(* test_bpf_loader_upgradeable_upgrade: the payer is the spill account     *)

longest == IF len > Len(elf_new) THEN len ELSE Len(elf_new)
min_balance == Rent(ProgramDataMeta + longest)

get_accounts(buffer_authority) ==
  Ledger(buffer_address :> Stored(1, BufferState(buffer_authority), elf_new)
           @@ programdata_address :>
                Stored(min_balance, ProgramDataState(0, authority_address), Zeros(longest))
           @@ program_address :>
                [Stored(min_program_balance, ProgramState(programdata_address), << >>)
                   EXCEPT !.executable = TRUE])

UpgradeBy(programdata, program, spill, authority) ==
  new_with_bincode("Upgrade", << >>,
     <<New(programdata, FALSE), program, New(buffer_address, FALSE), New(spill, FALSE),
       NewReadonly(rent, FALSE), NewReadonly(clock, FALSE), authority>>)

signed == NewReadonly(authority_address, TRUE)
upgradeIx ==
  UpgradeBy(programdata_address, New(program_address, FALSE), payer_address, signed)

upgrade_success ==
  LET as    == get_accounts(authority_address)
      after == After(as, upgradeIx)
  IN /\ process_instruction(as, upgradeIx)
     /\ after[buffer_address].lamports = 0
     /\ after[programdata_address].lamports = min_balance
     /\ after[payer_address].lamports = 1
     /\ after[programdata_address].state = ProgramDataState(0, authority_address)
     /\ SubSeq(ProgramDataContent(after[programdata_address]), 1, Len(elf_new)) = elf_new

\* Not upgradable, wrong authority, authority did not sign.
upgrade_authority ==
  LET as == get_accounts(authority_address)
      By(authority) ==
        UpgradeBy(programdata_address, New(program_address, FALSE), payer_address, authority)
  IN /\ ~process_instruction(
           [as EXCEPT ![programdata_address] = SetState(@, ProgramDataState(0, None))], upgradeIx)
     /\ ~process_instruction(as, By(NewReadonly(invalid_authority_address, TRUE)))
     /\ ~process_instruction(as, By(NewReadonly(authority_address, FALSE)))

\* Program account not executable, not owned by the loader, not writable, not
\* initialized, of another programdata (whose place the spill account takes).
upgrade_program ==
  LET as == get_accounts(authority_address)
      elsewhere == [as EXCEPT ![payer_address] = as[programdata_address],
                              ![programdata_address] = NoAccount]
  IN /\ ~process_instruction([as EXCEPT ![program_address].executable = FALSE], upgradeIx)
     /\ ~process_instruction([as EXCEPT ![program_address].owner = "system"], upgradeIx)
     /\ ~process_instruction(as,
           UpgradeBy(programdata_address, NewReadonly(program_address, FALSE), payer_address,
                     signed))
     /\ ~process_instruction(
           [as EXCEPT ![program_address] = SetState(@, Uninitialized)], upgradeIx)
     /\ ~process_instruction(elsewhere,
           UpgradeBy(payer_address, New(program_address, FALSE), programdata_address, signed))

\* Buffer not initialized, too big, too small; mismatched authority, None authority,
\* and None in the program as well.
upgrade_buffer ==
  LET as == get_accounts(authority_address)
      With(account) == [as EXCEPT ![buffer_address] = account]
      none == With(Stored(1, BufferState(None), elf_new))
  IN /\ ~process_instruction(With(SetState(as[buffer_address], Uninitialized)), upgradeIx)
     /\ ~process_instruction(
           With(Stored(1, BufferState(authority_address), Zeros(longest + 1))), upgradeIx)
     /\ ~process_instruction(With([as[buffer_address] EXCEPT !.data = << >>]), upgradeIx)
     /\ ~process_instruction(get_accounts(buffer_address), upgradeIx)
     /\ ~process_instruction(none, upgradeIx)
     /\ ~process_instruction(
           [none EXCEPT ![programdata_address] = SetState(@, ProgramDataState(0, None))],
           upgradeIx)

-----------------------------------------------------------------------------
SetAuthority(account, present, new) ==
  new_with_bincode("SetAuthority", << >>, <<NewReadonly(account, FALSE), present>> \o Some(new))

wrong == NewReadonly(invalid_authority_address, TRUE)
unsigned == NewReadonly(authority_address, FALSE)

test_bpf_loader_upgradeable_set_upgrade_authority ==
  LET With(state) == Ledger(programdata_address :> Stored(1, state, << >>))
      as == With(ProgramDataState(0, authority_address))
      Set(present, new) == SetAuthority(programdata_address, present, new)
      moved == new_with_bincode("SetAuthority", << >>,
                  <<NewReadonly(programdata_address, FALSE), signed,
                    NewReadonly(new_authority_address, TRUE)>>)
  IN /\ process_instruction(as, moved)
     /\ After(as, moved) = With(ProgramDataState(0, new_authority_address))
     /\ process_instruction(as, Set(signed, None))
     /\ After(as, Set(signed, None)) = With(ProgramDataState(0, None))
     /\ ~process_instruction(as, Set(unsigned, None))
     /\ ~process_instruction(as, Set(wrong, new_authority_address))
     /\ ~process_instruction(With(ProgramDataState(0, None)), Set(wrong, None))
     /\ ~process_instruction(With(ProgramState(buffer_address)), Set(wrong, None))

test_bpf_loader_upgradeable_set_buffer_authority ==
  LET With(state) == Ledger(buffer_address :> Stored(1, state, << >>))
      as == With(BufferState(authority_address))
      Set(present, new) == SetAuthority(buffer_address, present, new)
      handed == Set(signed, new_authority_address)
  IN /\ ~process_instruction(as, Set(signed, None))  \* New authority required
     /\ process_instruction(as, handed)
     /\ After(as, handed) = With(BufferState(new_authority_address))
     /\ ~process_instruction(as, Set(unsigned, new_authority_address))
     /\ ~process_instruction(as, Set(wrong, new_authority_address))
     /\ ~process_instruction(With(BufferState(None)), Set(wrong, new_authority_address))
     /\ ~process_instruction(With(ProgramState(buffer_address)), Set(wrong, None))

\* The recipient is the payer.
test_bpf_loader_upgradeable_close ==
  LET Close(account, rest) ==
        new_with_bincode("Close", << >>,
           <<NewReadonly(account, FALSE), NewReadonly(payer_address, FALSE)>> \o rest)
      buffer == Ledger(buffer_address :> Stored(1, BufferState(authority_address), << >>)
                         @@ Payer(1))
      empty  == Ledger(buffer_address :> Allocated(1, ProgramDataMeta) @@ Payer(1))
      program ==
        Ledger(programdata_address :> Stored(1, ProgramDataState(0, authority_address), << >>)
                 @@ program_address :>
                      [Stored(1, ProgramState(programdata_address), << >>)
                         EXCEPT !.executable = TRUE]
                 @@ Payer(1))
      Closes(as, account, rest) ==
        LET after == After(as, Close(account, rest))
        IN /\ process_instruction(as, Close(account, rest))
           /\ after[account].lamports = 0 /\ after[account].state = Uninitialized
           /\ after[payer_address].lamports = 2
      full == <<signed, New(program_address, FALSE)>>
  IN /\ Closes(buffer, buffer_address, <<signed>>)
     /\ ~process_instruction(buffer, Close(buffer_address, <<wrong>>))
     /\ Closes(empty, buffer_address, << >>)
     /\ Closes(program, programdata_address, full)
     /\ ~CanInvoke(After(program, Close(programdata_address, full)), program_address)

-----------------------------------------------------------------------------
\* The instructions of the model do what the tests of the loader assert.
ASSUME AgreesWithTests ==
  /\ test_bpf_loader_upgradeable_initialize_buffer
  /\ test_bpf_loader_upgradeable_write
  /\ deploy_success /\ deploy_accounts /\ deploy_balances
  /\ deploy_max_data_len /\ deploy_buffers
  /\ upgrade_success /\ upgrade_authority /\ upgrade_program /\ upgrade_buffer
  /\ test_bpf_loader_upgradeable_set_upgrade_authority
  /\ test_bpf_loader_upgradeable_set_buffer_authority
  /\ test_bpf_loader_upgradeable_close
=============================================================================
