----------------------------- MODULE ProgramBits -----------------------------
(***************************************************************************)
(* What both loaders do with the bits of a program, wherever an account    *)
(* keeps them: write_program_data and create_executor.                     *)
(***************************************************************************)
EXTENDS Integers, Sequences

CONSTANTS
  Byte, Zero,  \* contents of a cell, and the zero an allocation leaves
  Image        \* contents that load as ELF, verify and compile

Overwrite(data, offset, bytes) ==
  [i \in DOMAIN data |->
     IF i \in offset + 1 .. offset + Len(bytes) THEN bytes[i - offset] ELSE data[i]]

\* create_executor: the content loads as ELF, passes the verifier and compiles.
LoadsAnything(code) == TRUE

Loads(code) == code \in Image
=============================================================================
