------------------------------ MODULE LoaderV1 -------------------------------
(***************************************************************************)
(* The instructions of the BPF loader v1, process_loader_instruction, over *)
(* a map of its program accounts.  An account holds the program's bits and *)
(* nothing else: they are written in place, under the signature of the     *)
(* account's own key, until Finalize makes the account executable.         *)
(***************************************************************************)
EXTENDS ProgramBits

CONSTANT
  Draft  \* addresses of the accounts that are to become programs

ProgramAccount == [data : Seq(Byte), executable : BOOLEAN]

\* An executable account is a program to be run, not one to be written:
\* process_instruction_common refuses the loader's instructions on it.
IsDraftAlways(account) == TRUE

IsDraft(account) == ~account.executable

CanWriteExecutable(programs, signers, p, offset, bytes) ==
  p \in signers /\ Len(programs[p].data) >= offset + Len(bytes)

CanWrite(programs, signers, p, offset, bytes) ==
  /\ IsDraft(programs[p])
  /\ p \in signers
  /\ Len(programs[p].data) >= offset + Len(bytes)

AfterWrite(programs, p, offset, bytes) ==
  [programs EXCEPT ![p].data = Overwrite(@, offset, bytes)]

CanFinalize(programs, signers, p) ==
  /\ IsDraft(programs[p])
  /\ p \in signers
  /\ Loads(programs[p].data)

AfterFinalize(programs, p) == [programs EXCEPT ![p].executable = TRUE]
=============================================================================
