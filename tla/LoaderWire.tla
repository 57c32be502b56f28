----------------------------- MODULE LoaderWire -----------------------------
(***************************************************************************)
(* The data of an instruction of the upgradeable loader, as bincode lays   *)
(* out UpgradeableLoaderInstruction: the position of the variant in the    *)
(* declaration, then its fields.  The numbers of the predicates, and those *)
(* of deploy.ts, are written by hand and must follow the declaration.      *)
(***************************************************************************)
EXTENDS Integers, Sequences

UpgradeableLoaderInstruction ==
  << "InitializeBuffer", "Write", "DeployWithMaxDataLen", "Upgrade", "SetAuthority", "Close",
     "ExtendProgram", "SetAuthorityChecked" >>

\* bincode::serialize
serialize(variant, fields) ==
  [index |-> (CHOOSE i \in DOMAIN UpgradeableLoaderInstruction :
                UpgradeableLoaderInstruction[i] = variant) - 1,
   fields |-> fields]

\* The variants the loader has an arm for: its enum ends before ExtendProgram, and
\* data of a later variant is InvalidInstructionData.
Arms == 6

limited_deserialize(data) ==
  IF data.index < Arms THEN UpgradeableLoaderInstruction[data.index + 1]
  ELSE "InvalidInstructionData"

is_upgrade_instructionFromOne(data) == data.index = 4
is_upgrade_instruction(data) == data.index = 3

is_set_authority_instruction(data) == data.index = 4
is_close_instruction(data) == data.index = 5
is_set_authority_checked_instruction(data) == data.index = 7
=============================================================================
