------------------------------ MODULE Requests ------------------------------
(***************************************************************************)
(* The transactions the scripts submit through the Fireblocks adapter.  Of *)
(* each the script learns what Submission says: a hash of a transaction    *)
(* that was broadcast, or an error when anything may have become of it.    *)
(* Broadcast transactions are executed later, in any order, and take       *)
(* effect or fail as a whole.                                              *)
(***************************************************************************)
EXTENDS Integers, SequencesExt

VARIABLE requests  \* what each transaction does (of), and what became of it

Fate == {"held", "broadcast", "dead", "ok", "failed"}

Submitted(what, as) == requests' = Append(requests, [of |-> what, fate |-> as])

Sent(what) == Submitted(what, "broadcast")

Threw(what) == \E as \in {"held", "broadcast", "dead"} : Submitted(what, as)

\* Fireblocks decides a request its script has given up on.
Decide(id) ==
  /\ requests[id].fate = "held"
  /\ \E as \in {"broadcast", "dead"} : requests' = [requests EXCEPT ![id].fate = as]

\* The network executes a transaction.
Executed(id, ok) ==
  /\ requests[id].fate = "broadcast"
  /\ requests' = [requests EXCEPT ![id].fate = IF ok THEN "ok" ELSE "failed"]

-----------------------------------------------------------------------------
(* The same for a script that asks for no transaction but the last: one     *)
(* that was executed, or never will be, is forgotten.                       *)

Forget(id) == requests' = RemoveAt(requests, id)

ThrewForgetful(what) ==
  (\E as \in {"held", "broadcast"} : Submitted(what, as)) \/ UNCHANGED requests

DecideForgetful(id) ==
  /\ requests[id].fate = "held"
  /\ (requests' = [requests EXCEPT ![id].fate = "broadcast"]) \/ Forget(id)

ExecutedForgetful(id) == requests[id].fate = "broadcast" /\ Forget(id)
=============================================================================
