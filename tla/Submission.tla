----------------------------- MODULE Submission -----------------------------
(***************************************************************************)
(* What one call of sendTransaction promises its caller: a transaction it  *)
(* returns a hash of is on the network.  An error says nothing: the        *)
(* transaction may be dead, on the network, or still on its way there.     *)
(***************************************************************************)
VARIABLES
  outcome,  \* what the caller has: "pending", a "hash" or an "error"
  fate      \* the transaction: "held" by Fireblocks, "broadcast" or "dead"

vars == <<outcome, fate>>

Init == outcome = "pending" /\ fate = "held"

Broadcast == fate = "held" /\ fate' = "broadcast" /\ UNCHANGED outcome

Die == fate = "held" /\ fate' = "dead" /\ UNCHANGED outcome

Return ==
  /\ outcome = "pending" /\ fate = "broadcast"
  /\ outcome' = "hash" /\ UNCHANGED fate

\* The request may never have reached Fireblocks.
Throw ==
  /\ outcome = "pending" /\ outcome' = "error"
  /\ fate' = fate \/ (fate = "held" /\ fate' = "dead")

Next == Broadcast \/ Die \/ Return \/ Throw

Spec == Init /\ [][Next]_vars
=============================================================================
