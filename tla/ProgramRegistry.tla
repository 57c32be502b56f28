-------------------------- MODULE ProgramRegistry ---------------------------
(***************************************************************************)
(* What the upgradeable loader promises about a program, with no account,  *)
(* size, lamport or executor: a program is deployed once, with verified    *)
(* code; while it is live its authority, and nobody else, upgrades it,     *)
(* hands it over, makes it final or closes it; a final program stays as it *)
(* is and a closed one stays closed.  All of it by transactions that take  *)
(* effect as a whole or not at all.                                        *)
(***************************************************************************)
CONSTANTS Program, Key, None, Code

VARIABLES
  saved,    \* the registry between transactions
  prog,     \* the registry as the transaction in flight sees it
  signers   \* who signed the transaction in flight, {} when there is none

vars == <<saved, prog, signers>>

Absent == [status |-> "absent", authority |-> None, code |-> None]
Closed == [status |-> "closed", authority |-> None, code |-> None]
Live(authority, code) ==
  [status |-> "live", authority |-> authority, code |-> code]

Init == saved = [p \in Program |-> Absent] /\ prog = saved /\ signers = {}

Begin ==
  /\ signers = {}
  /\ signers' \in (SUBSET Key) \ {{}}
  /\ UNCHANGED <<saved, prog>>

Commit == signers # {} /\ saved' = prog /\ signers' = {} /\ UNCHANGED prog

Abort == signers # {} /\ prog' = saved /\ signers' = {} /\ UNCHANGED saved

Deploy(p) ==
  /\ prog[p] = Absent
  /\ \E k \in signers, c \in Code : prog' = [prog EXCEPT ![p] = Live(k, c)]
  /\ UNCHANGED <<saved, signers>>

Upgrade(p) ==
  /\ prog[p].status = "live" /\ prog[p].authority \in signers
  /\ \E c \in Code : prog' = [prog EXCEPT ![p].code = c]
  /\ UNCHANGED <<saved, signers>>

SetAuthority(p) ==
  /\ prog[p].status = "live" /\ prog[p].authority \in signers
  /\ \E k \in Key \cup {None} : prog' = [prog EXCEPT ![p].authority = k]
  /\ UNCHANGED <<saved, signers>>

Close(p) ==
  /\ prog[p].status = "live" /\ prog[p].authority \in signers
  /\ prog' = [prog EXCEPT ![p] = Closed]
  /\ UNCHANGED <<saved, signers>>

Next ==
  \/ Begin \/ Commit \/ Abort
  \/ \E p \in Program : Deploy(p) \/ Upgrade(p) \/ SetAuthority(p) \/ Close(p)

Spec == Init /\ [][Next]_vars
=============================================================================
