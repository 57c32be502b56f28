------------------------------ MODULE MCStake -------------------------------
(* Three runs of any command, over a stake that is active already and the  *)
(* one the first of them may create; an epoch or two pass.                 *)
EXTENDS Stake, TLC

CONSTANTS a, b, c, s, t, u, v

MCStakeAccount == a :> t @@ b :> u @@ c :> v
MCCommands ==
  {[command |-> "create", amount |-> n] : n \in {0, 4}}
    \cup {[command |-> "deactivate", stake |-> x] : x \in {s, t}}
    \cup {[command |-> "withdraw", stake |-> x, amount |-> n] : x \in {s, t}, n \in {None, 0, 3}}
=============================================================================
