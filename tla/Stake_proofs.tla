---------------------------- MODULE Stake_proofs ----------------------------
(***************************************************************************)
(* Theorems about scripts/stake.ts, for any number of runs, stakes, epochs *)
(* and transfers by others.                                                *)
(***************************************************************************)
EXTENDS Stake, SequenceTheorems, TLAPS

-----------------------------------------------------------------------------
(* The invariant, by parts                                                 *)

StakeTx == [kind : {"create", "deactivate", "withdraw"}, stake : Address,
            lamports : Nat, balance : Nat, by : Run]

StakeAccount == [lamports : Nat, stake : Nat, activated : 0..Never, deactivated : 0..Never]

Label == {"start", "display", "check", "send", "done", "failed", "refused"}

Shape ==
  /\ epoch \in 1..MaxEpoch /\ vault \in Nat /\ gifts \in 0..MaxGifts
  /\ stakes \in [Address -> StakeAccount]
  /\ requests \in Seq([of : StakeTx, fate : Fate])
  /\ task \in [Run -> Commands] /\ pc \in [Run -> Label] /\ balance \in [Run -> Nat]

\* A run of create sends one transaction, of a positive stake and for the key it
\* generated.
IsCreate(id, s) == requests[id].of.kind = "create" /\ requests[id].of.stake = s

CreatesOnce ==
  /\ \A id \in DOMAIN requests :
       LET tx == requests[id].of
       IN tx.kind = "create" =>
            tx.lamports > 0 /\ tx.stake = stakeAccount[tx.by] /\ pc[tx.by] # "start"
  /\ \A s \in Address : \A i, j \in DOMAIN requests :
       IsCreate(i, s) /\ IsCreate(j, s) => i = j

\* No stake was deactivated in an epoch still to come.
PastOnly == \A s \in Address : stakes[s].deactivated \in 0..epoch \cup {Never}

\* The account was there at first, or its one creation has taken effect: it may be
\* gone again, but nothing can make it anew.
Made(s) ==
  s \in Existing \/ \E id \in DOMAIN requests : IsCreate(id, s) /\ requests[id].fate = "ok"

ExistingMade == \A s \in Address : Exists(s) => Made(s)

Inactive(account) == account.deactivated # Never /\ Locked(account) = 0

\* What a run of withdraw checked stays true: no epoch and no transaction locks the
\* stake again.
Settled(s) == Made(s) /\ (Exists(s) => Inactive(stakes[s]))

CheckedSettled ==
  /\ \A r \in Run : At(r, "withdraw", "send") => Settled(task[r].stake)
  /\ \A id \in DOMAIN requests :
       requests[id].of.kind = "withdraw" => Settled(requests[id].of.stake)

RaceInv == Shape /\ CreatesOnce /\ PastOnly /\ ExistingMade /\ CheckedSettled

-----------------------------------------------------------------------------
(* The stake program                                                       *)

\* What a run was asked, by its command.
LEMMA CommandTypes ==
  ASSUME Shape, NEW r \in Run
  PROVE  /\ task[r].command = "create" => task[r].amount \in Int
         /\ task[r].command \in {"deactivate", "withdraw"} => task[r].stake \in Address
         /\ task[r].command = "withdraw" => task[r].amount \in Nat \cup {None}
<1> DEFINE K == Existing \cup {stakeAccount[q] : q \in Run}
           Creates == [command : {"create"}, amount : Int]
           Deactivates == [command : {"deactivate"}, stake : K]
           Withdraws == [command : {"withdraw"}, stake : K, amount : Nat \cup {None}]
<1>1. task[r] \in Creates \cup Deactivates \cup Withdraws
  BY StakeAssumption DEF Shape
<1>2. /\ task[r] \in Creates => task[r].command = "create" /\ task[r].amount \in Int
      /\ task[r] \in Deactivates =>
           task[r].command = "deactivate" /\ task[r].stake \in K
      /\ task[r] \in Withdraws =>
           /\ task[r].command = "withdraw" /\ task[r].stake \in K
           /\ task[r].amount \in Nat \cup {None}
  OBVIOUS
<1> QED BY <1>1, <1>2 DEF Address

\* The fields of an account and of a request.
LEMMA Fields ==
  ASSUME Shape
  PROVE  /\ \A s \in Address :
              /\ stakes[s] \in StakeAccount
              /\ stakes[s].lamports \in Nat /\ stakes[s].stake \in Nat
              /\ stakes[s].activated \in 0..Never /\ stakes[s].deactivated \in 0..Never
         /\ \A id \in DOMAIN requests :
              /\ requests[id] \in [of : StakeTx, fate : Fate]
              /\ requests[id].of \in StakeTx /\ requests[id].fate \in Fate
              /\ requests[id].of.kind \in {"create", "deactivate", "withdraw"}
              /\ requests[id].of.stake \in Address /\ requests[id].of.lamports \in Nat
              /\ requests[id].of.balance \in Nat /\ requests[id].of.by \in Run
<1>1. \A s \in Address : stakes[s] \in StakeAccount
  BY DEF Shape
<1>2. \A id \in DOMAIN requests : requests[id] \in [of : StakeTx, fate : Fate]
  BY ElementOfSeq, LenProperties DEF Shape
<1> QED BY <1>1, <1>2 DEF StakeAccount, StakeTx

\* The state a run that checks finds locks nothing.
LEMMA InactiveUnlocked ==
  ASSUME Shape, NEW s \in Address
  PROVE  Activation(stakes[s]) = "inactive" => Inactive(stakes[s])
<1>1. Locked(stakes[s]) \in Nat
  BY Fields DEF Locked
<1> QED BY <1>1 DEF Activation, Inactive

\* A successful transaction leaves accounts.
LEMMA EffectShape ==
  ASSUME Shape, NEW tx \in StakeTx, Succeeds(tx), Effect(tx)
  PROVE  stakes' \in [Address -> StakeAccount] /\ vault' \in Nat
<1> USE DEF Shape
<1>1. /\ tx.stake \in Address /\ tx.lamports \in Nat
      /\ tx.kind \in {"create", "deactivate", "withdraw"}
  BY DEF StakeTx
<1>2. /\ stakes[tx.stake] \in StakeAccount /\ stakes[tx.stake].lamports \in Nat
      /\ Reserve \in Nat /\ Never \in Nat /\ epoch \in 0..Never
  BY <1>1, Fields, StakeAssumption DEF Never
<1>3. CASE tx.kind = "create"
  <2>1. tx.lamports > Reserve /\ tx.lamports <= vault
    BY <1>3 DEF Succeeds
  <2>2. vault - tx.lamports \in Nat /\ tx.lamports - Reserve \in Nat
    BY <1>1, <1>2, <2>1
  <2>3. Delegated(tx.lamports, epoch) \in StakeAccount
    BY <1>1, <1>2, <2>2 DEF Delegated, StakeAccount, Never
  <2> QED BY <1>1, <1>3, <2>2, <2>3 DEF Effect
<1>4. CASE tx.kind = "deactivate"
  <2>1. [stakes[tx.stake] EXCEPT !.deactivated = epoch] \in StakeAccount
    BY <1>2 DEF StakeAccount
  <2>2. /\ stakes' = [stakes EXCEPT ![tx.stake] =
                        [stakes[tx.stake] EXCEPT !.deactivated = epoch]]
        /\ vault' = vault
    BY <1>1, <1>4 DEF Effect
  <2> QED BY <1>1, <2>1, <2>2
<1>5. CASE tx.kind = "withdraw"
  <2>1. tx.lamports <= stakes[tx.stake].lamports
    BY <1>5 DEF Succeeds, CanWithdraw
  <2>2. stakes[tx.stake].lamports - tx.lamports \in Nat /\ vault + tx.lamports \in Nat
    BY <1>1, <1>2, <2>1
  <2>3. NoStake \in StakeAccount
    BY <1>2 DEF NoStake, StakeAccount
  <2>4. Withdrawn(stakes[tx.stake], tx.lamports) \in StakeAccount
    BY <1>2, <2>2, <2>3 DEF Withdrawn, StakeAccount
  <2> QED BY <1>1, <1>5, <2>2, <2>4 DEF Effect
<1> QED BY <1>1, <1>3, <1>4, <1>5

-----------------------------------------------------------------------------
(* The requests                                                            *)

\* A request made keeps the others.
LEMMA Appended ==
  ASSUME Shape, NEW tx \in StakeTx, NEW as \in Fate, Submitted(tx, as)
  PROVE  /\ requests' \in Seq([of : StakeTx, fate : Fate])
         /\ DOMAIN requests' = DOMAIN requests \cup {Len(requests) + 1}
         /\ Len(requests) + 1 \notin DOMAIN requests
         /\ \A id \in DOMAIN requests : requests'[id] = requests[id]
         /\ requests'[Len(requests) + 1] = [of |-> tx, fate |-> as]
<1>1. requests \in Seq([of : StakeTx, fate : Fate])
  BY DEF Shape
<1>2. [of |-> tx, fate |-> as] \in [of : StakeTx, fate : Fate]
  OBVIOUS
<1>3. requests' = Append(requests, [of |-> tx, fate |-> as])
  BY DEF Submitted
<1>4. Len(requests) \in Nat /\ DOMAIN requests = 1..Len(requests)
  BY <1>1, LenProperties
<1>5. /\ requests' \in Seq([of : StakeTx, fate : Fate])
      /\ Len(requests') = Len(requests) + 1 /\ DOMAIN requests' = 1..Len(requests')
      /\ \A id \in 1..Len(requests) : requests'[id] = requests[id]
      /\ requests'[Len(requests) + 1] = [of |-> tx, fate |-> as]
  <2> DEFINE S == [of : StakeTx, fate : Fate]
             e == [of |-> tx, fate |-> as]
  <2> HIDE DEF S, e
  <2>1. requests \in Seq(S) /\ e \in S /\ requests' = Append(requests, e)
    BY <1>1, <1>2, <1>3 DEF S, e
  <2>2. /\ requests' \in Seq(S) /\ Len(requests') = Len(requests) + 1
        /\ \A id \in 1..Len(requests) : requests'[id] = requests[id]
        /\ requests'[Len(requests) + 1] = e
    BY <2>1, AppendProperties
  <2>3. DOMAIN requests' = 1..Len(requests')
    BY <2>2, LenProperties
  <2> QED BY <2>2, <2>3 DEF S, e
<1> QED BY <1>4, <1>5

\* A request decided or executed stays the same request.
LEMMA Refated ==
  ASSUME Shape, NEW id \in DOMAIN requests, NEW as \in Fate,
         requests' = [requests EXCEPT ![id].fate = as]
  PROVE  /\ requests' \in Seq([of : StakeTx, fate : Fate])
         /\ DOMAIN requests' = DOMAIN requests
         /\ \A i \in DOMAIN requests : requests'[i].of = requests[i].of
         /\ \A i \in DOMAIN requests : i # id => requests'[i] = requests[i]
         /\ requests'[id].fate = as
<1> DEFINE new == [requests[id] EXCEPT !.fate = as]
<1>1. requests \in Seq([of : StakeTx, fate : Fate])
  BY DEF Shape
<1>2. requests[id] \in [of : StakeTx, fate : Fate]
  BY Fields
<1>3. /\ new \in [of : StakeTx, fate : Fate]
      /\ new.of = requests[id].of /\ new.fate = as
  BY <1>2
<1>4. requests' = [requests EXCEPT ![id] = new]
  OBVIOUS
<1> HIDE DEF new
<1>5. /\ requests' \in Seq([of : StakeTx, fate : Fate])
      /\ DOMAIN requests' = DOMAIN requests
      /\ \A i \in DOMAIN requests : i # id => requests'[i] = requests[i]
      /\ requests'[id] = new
  <2> DEFINE S == [of : StakeTx, fate : Fate]
  <2> HIDE DEF S
  <2>1. requests \in Seq(S) /\ new \in S
    BY <1>1, <1>3 DEF S
  <2>2. DOMAIN requests = 1..Len(requests)
    BY <2>1, LenProperties
  <2>3. id \in 1..Len(requests)
    BY <2>2
  <2>4. /\ [requests EXCEPT ![id] = new] \in Seq(S)
        /\ Len([requests EXCEPT ![id] = new]) = Len(requests)
        /\ \A i \in 1..Len(requests) :
             [requests EXCEPT ![id] = new][i] = IF i = id THEN new ELSE requests[i]
    BY <2>1, <2>3, ExceptSeq
  <2>5. /\ requests' \in Seq(S) /\ Len(requests') = Len(requests)
        /\ \A i \in 1..Len(requests) :
             requests'[i] = IF i = id THEN new ELSE requests[i]
    BY <1>4, <2>4
  <2>6. DOMAIN requests' = 1..Len(requests')
    BY <2>5, LenProperties
  <2>7. requests'[id] = new
    BY <2>3, <2>5
  <2>8. \A i \in 1..Len(requests) : i # id => requests'[i] = requests[i]
    BY <2>5
  <2> QED BY <2>2, <2>5, <2>6, <2>7, <2>8 DEF S
<1> QED BY <1>3, <1>5

\* The requests are the same, whatever became of them.
SameRequests ==
  /\ DOMAIN requests' = DOMAIN requests
  /\ \A id \in DOMAIN requests : requests'[id].of = requests[id].of

\* What was settled is settled still.
StaysSettled == \A s \in Address : Settled(s) => Settled(s)'

\* What took effect once has taken effect.
LEMMA MadeStays ==
  ASSUME DOMAIN requests \subseteq DOMAIN requests',
         \A id \in DOMAIN requests :
           /\ requests'[id].of = requests[id].of
           /\ requests[id].fate = "ok" => requests'[id].fate = "ok",
         NEW s, Made(s)
  PROVE  Made(s)'
BY DEF Made, IsCreate

\* While no run sends anything and none is at its start again, the invariant needs a
\* look at the stakes alone.
LEMMA QuietKeeps ==
  ASSUME CreatesOnce, CheckedSettled, SameRequests, StaysSettled, Shape, Shape',
         UNCHANGED task,
         \A r \in Run : pc'[r] = "start" => pc[r] = "start",
         \A r \in Run : At(r, "withdraw", "send")' =>
                          At(r, "withdraw", "send") \/ Settled(task[r].stake)'
  PROVE  CreatesOnce' /\ CheckedSettled'
<1>1. CreatesOnce'
  <2>1. \A s \in Address, id \in DOMAIN requests : IsCreate(id, s)' => IsCreate(id, s)
    BY DEF IsCreate, SameRequests
  <2>2. \A id \in DOMAIN requests : requests[id].of.by \in Run
    BY Fields
  <2> QED BY <2>1, <2>2 DEF CreatesOnce, SameRequests
<1>2. CheckedSettled'
  <2>1. ASSUME NEW id \in DOMAIN requests', requests'[id].of.kind = "withdraw"
        PROVE  Settled(requests[id].of.stake)'
    <3>1. id \in DOMAIN requests /\ requests'[id].of = requests[id].of
      BY DEF SameRequests
    <3>2. PICK s \in Address : s = requests[id].of.stake
      BY <3>1, Fields
    <3>3. Settled(s)
      BY <2>1, <3>1, <3>2 DEF CheckedSettled
    <3>4. Settled(s)'
      BY <3>3 DEF StaysSettled
    <3>5. s = requests'[id].of.stake
      BY <3>1, <3>2
    <3> QED BY <3>4, <3>5
  <2>2. ASSUME NEW r \in Run, At(r, "withdraw", "send")'
        PROVE  Settled(task[r].stake)'
    <3>1. PICK s \in Address : s = task[r].stake
      BY <2>2, CommandTypes DEF At
    <3>2. CASE At(r, "withdraw", "send")
      <4>1. Settled(s)'
        BY <3>1, <3>2 DEF CheckedSettled, StaysSettled
      <4> QED BY <3>1, <4>1
    <3> QED BY <2>2, <3>2
  <2> QED BY <2>1, <2>2 DEF CheckedSettled
<1> QED BY <1>1, <1>2

-----------------------------------------------------------------------------
(* The steps                                                               *)

\* At first every account there is was there, and nothing is deactivated.
LEMMA InitRace == Init => RaceInv
<1> SUFFICES ASSUME Init PROVE RaceInv
  OBVIOUS
<1>1. /\ NoStake.lamports = 0 /\ NoStake.deactivated = Never
      /\ Delegated(Held, 0).deactivated = Never
  BY DEF NoStake, Delegated
<1>2. NoStake \in StakeAccount /\ Delegated(Held, 0) \in StakeAccount
  <2>1. Never \in Nat /\ Held \in Nat /\ Held - Reserve \in Nat
    BY StakeAssumption DEF Never
  <2> QED BY <2>1 DEF NoStake, Delegated, StakeAccount
<1>3. requests = << >> /\ DOMAIN requests = {}
  BY DEF Init
<1>4. Shape
  <2>1. stakes \in [Address -> StakeAccount]
    BY <1>2 DEF Init
  <2>2. requests \in Seq([of : StakeTx, fate : Fate])
    BY <1>3, EmptySeq
  <2> QED BY <2>1, <2>2, StakeAssumption DEF Init, Shape, Label
<1>5. PastOnly
  BY <1>1 DEF Init, PastOnly
<1>6. ExistingMade
  BY <1>1 DEF Init, ExistingMade, Exists, Made
<1>7. CheckedSettled
  BY <1>3 DEF Init, CheckedSettled, At
<1> QED BY <1>3, <1>4, <1>5, <1>6, <1>7 DEF RaceInv, CreatesOnce

\* A stake nothing happens to stays settled.
LEMMA SameSettled ==
  ASSUME NEW s, Settled(s), stakes'[s] = stakes[s], epoch' = epoch,
         DOMAIN requests \subseteq DOMAIN requests',
         \A id \in DOMAIN requests :
           /\ requests'[id].of = requests[id].of
           /\ requests[id].fate = "ok" => requests'[id].fate = "ok"
  PROVE  Settled(s)'
<1>1. Made(s)'
  BY MadeStays DEF Settled
<1> QED BY <1>1 DEF Settled, Exists, Inactive, Locked

\* A run that sends nothing moves on.
LEMMA MoveKeeps ==
  ASSUME RaceInv, NEW r \in Run, NEW l \in Label \ {"start"},
         Goto(r, l), UNCHANGED <<chain, requests, task>>, balance' \in [Run -> Nat],
         l = "send" /\ task[r].command = "withdraw" => Settled(task[r].stake)
  PROVE  RaceInv'
<1> USE DEF RaceInv
<1>1. Shape'
  BY DEF Shape, Goto, chain
<1>2. StaysSettled /\ SameRequests
  <2>1. SameRequests
    BY DEF SameRequests
  <2>2. ASSUME NEW s \in Address, Settled(s) PROVE Settled(s)'
    BY <2>2, SameSettled DEF chain
  <2> QED BY <2>1, <2>2 DEF StaysSettled
<1>3. PastOnly' /\ ExistingMade'
  BY DEF PastOnly, ExistingMade, chain, Exists, Made, IsCreate
<1>4. /\ \A q \in Run : pc'[q] = "start" => pc[q] = "start"
      /\ \A q \in Run : q # r => pc'[q] = pc[q]
      /\ pc'[r] = l
  BY DEF Goto, Shape
<1>5. ASSUME NEW q \in Run, At(q, "withdraw", "send")'
      PROVE  At(q, "withdraw", "send") \/ Settled(task[q].stake)'
  <2>1. CASE q # r
    BY <1>4, <1>5, <2>1 DEF At
  <2>2. CASE q = r
    <3>1. Settled(task[r].stake)
      BY <1>4, <1>5, <2>2 DEF At
    <3>2. PICK s \in Address : s = task[r].stake
      BY <1>5, <2>2, CommandTypes DEF At
    <3>3. Settled(s)'
      BY <1>2, <3>1, <3>2 DEF StaysSettled
    <3> QED BY <2>2, <3>2, <3>3
  <2> QED BY <2>1, <2>2
<1>6. CreatesOnce' /\ CheckedSettled'
  BY <1>1, <1>2, <1>4, <1>5, QuietKeeps
<1> QED BY <1>1, <1>3, <1>6

\* A run that sends a transaction: a creation is its first, a withdrawal is of a
\* stake that is settled.
LEMMA SubmitKeeps ==
  ASSUME RaceInv, NEW r \in Run, NEW tx \in StakeTx, NEW next \in {"display", "done"},
         Submit(r, tx, next), tx.by = r,
         tx.kind = "create" =>
           tx.lamports > 0 /\ tx.stake = stakeAccount[r] /\ pc[r] = "start",
         tx.kind = "withdraw" => Settled(tx.stake)
  PROVE  RaceInv'
<1> USE DEF RaceInv
<1>1. /\ UNCHANGED <<chain, task, balance>>
      /\ \E l \in Label \ {"start", "send"} : Goto(r, l)
      /\ \E as \in Fate : Submitted(tx, as)
  BY DEF Submit, Sent, Threw, Fate, Label
<1>2. PICK l \in Label \ {"start", "send"} : Goto(r, l)
  BY <1>1
<1>3. PICK as \in Fate : Submitted(tx, as)
  BY <1>1
<1> DEFINE new == Len(requests) + 1
<1>4. /\ requests' \in Seq([of : StakeTx, fate : Fate])
      /\ DOMAIN requests' = DOMAIN requests \cup {new} /\ new \notin DOMAIN requests
      /\ \A id \in DOMAIN requests : requests'[id] = requests[id]
      /\ requests'[new].of = tx
  <2>1. /\ requests' \in Seq([of : StakeTx, fate : Fate])
        /\ DOMAIN requests' = DOMAIN requests \cup {new} /\ new \notin DOMAIN requests
        /\ \A id \in DOMAIN requests : requests'[id] = requests[id]
        /\ requests'[new] = [of |-> tx, fate |-> as]
    BY <1>3, Appended
  <2> HIDE DEF new
  <2>2. requests'[new].of = tx
    BY <2>1
  <2> QED BY <2>1, <2>2
<1> HIDE DEF new
<1>5. Shape'
  BY <1>1, <1>2, <1>4 DEF Shape, Goto, chain
<1>6. /\ \A q \in Run : q # r => pc'[q] = pc[q]
      /\ pc'[r] # "start" /\ pc'[r] # "send"
  BY <1>2 DEF Goto, Shape
<1>7. \A s \in Address : Settled(s) => Settled(s)'
  BY <1>1, <1>4, SameSettled DEF chain
<1>8. PastOnly' /\ ExistingMade'
  BY <1>1, <1>4 DEF PastOnly, ExistingMade, chain, Exists, Made, IsCreate
<1>9. CreatesOnce'
  <2>1. ASSUME NEW id \in DOMAIN requests', requests'[id].of.kind = "create"
        PROVE  /\ requests'[id].of.lamports > 0
               /\ requests'[id].of.stake = stakeAccount[requests'[id].of.by]
               /\ pc'[requests'[id].of.by] # "start"
    <3>1. CASE id = new
      BY <1>4, <1>6, <2>1, <3>1
    <3>2. CASE id \in DOMAIN requests
      <4>1. /\ requests'[id].of = requests[id].of /\ requests[id].of.by \in Run
        BY <1>4, <3>2, Fields
      <4> QED BY <1>6, <2>1, <3>2, <4>1 DEF CreatesOnce
    <3> QED BY <1>4, <3>1, <3>2
  <2>2. ASSUME tx.kind = "create", NEW i \in DOMAIN requests, requests[i].of.kind = "create"
        PROVE  requests[i].of.stake # tx.stake
    <3>1. /\ requests[i].of.stake = stakeAccount[requests[i].of.by]
          /\ requests[i].of.by \in Run /\ requests[i].of.by # r
      BY <2>2, Fields DEF CreatesOnce
    <3> QED BY <2>2, <3>1, StakeAssumption
  <2>3. ASSUME NEW s \in Address, NEW i \in DOMAIN requests', NEW j \in DOMAIN requests',
               IsCreate(i, s)', IsCreate(j, s)'
        PROVE  i = j
    <3>1. CASE i \in DOMAIN requests /\ j \in DOMAIN requests
      BY <1>4, <2>3, <3>1 DEF CreatesOnce, IsCreate
    <3>2. CASE i = new /\ j \in DOMAIN requests
      BY <1>4, <2>2, <2>3, <3>2 DEF IsCreate
    <3>3. CASE i \in DOMAIN requests /\ j = new
      BY <1>4, <2>2, <2>3, <3>3 DEF IsCreate
    <3> QED BY <1>4, <3>1, <3>2, <3>3
  <2> QED BY <2>1, <2>3 DEF CreatesOnce
<1>10. CheckedSettled'
  <2>1. ASSUME NEW id \in DOMAIN requests', requests'[id].of.kind = "withdraw"
        PROVE  Settled(requests[id].of.stake)'
    <3>1. CASE id \in DOMAIN requests
      <4>1. PICK s \in Address : s = requests[id].of.stake
        BY <3>1, Fields
      <4>2. s = requests'[id].of.stake
        BY <1>4, <3>1, <4>1
      <4>3. Settled(s)'
        BY <1>4, <1>7, <2>1, <3>1, <4>1 DEF CheckedSettled
      <4> QED BY <4>2, <4>3
    <3>2. CASE id = new
      <4>1. PICK s \in Address : s = tx.stake
        BY DEF StakeTx
      <4>2. s = requests'[id].of.stake
        BY <1>4, <3>2, <4>1
      <4>3. Settled(s)'
        BY <1>4, <1>7, <2>1, <3>2, <4>1
      <4> QED BY <4>2, <4>3
    <3> QED BY <1>4, <3>1, <3>2
  <2>2. ASSUME NEW q \in Run, At(q, "withdraw", "send")'
        PROVE  Settled(task[q].stake)'
    <3>1. q # r /\ At(q, "withdraw", "send")
      BY <1>1, <1>6, <2>2 DEF At
    <3>2. PICK s \in Address : s = task[q].stake
      BY <3>1, CommandTypes DEF At
    <3>3. Settled(s)'
      BY <1>7, <3>1, <3>2 DEF CheckedSettled
    <3>4. s = task'[q].stake
      BY <1>1, <3>2
    <3> QED BY <3>3, <3>4
  <2> QED BY <2>1, <2>2 DEF CheckedSettled
<1> QED BY <1>5, <1>8, <1>9, <1>10

\* Fireblocks decides.
LEMMA DecideKeeps ==
  ASSUME RaceInv, NEW id \in DOMAIN requests, Decide(id), UNCHANGED <<chain, script>>
  PROVE  RaceInv'
<1> USE DEF RaceInv
<1>1. PICK as \in {"broadcast", "dead"} : requests' = [requests EXCEPT ![id].fate = as]
  BY DEF Decide
<1>2. as \in Fate
  BY DEF Fate
<1>3. /\ requests' \in Seq([of : StakeTx, fate : Fate])
      /\ DOMAIN requests' = DOMAIN requests
      /\ \A i \in DOMAIN requests : requests'[i].of = requests[i].of
      /\ \A i \in DOMAIN requests : requests[i].fate = "ok" => requests'[i].fate = "ok"
  BY <1>1, <1>2, Refated DEF Decide
<1>4. Shape'
  BY <1>3 DEF Shape, chain, script
<1>5. SameRequests /\ StaysSettled
  BY <1>3, SameSettled DEF SameRequests, StaysSettled, chain
<1>6. PastOnly' /\ ExistingMade'
  BY <1>3 DEF PastOnly, ExistingMade, chain, Exists, Made, IsCreate
<1>7. /\ \A r \in Run : At(r, "withdraw", "send")' => At(r, "withdraw", "send")
      /\ \A r \in Run : pc'[r] = "start" => pc[r] = "start"
      /\ UNCHANGED task
  BY DEF At, script
<1>8. CreatesOnce' /\ CheckedSettled'
  BY <1>4, <1>5, <1>7, QuietKeeps
<1> QED BY <1>4, <1>6, <1>8

\* Epochs lock nothing that is inactive.
LEMMA EpochKeeps ==
  ASSUME RaceInv, NextEpoch
  PROVE  RaceInv'
<1> USE DEF RaceInv
<1>1. /\ UNCHANGED <<vault, stakes, gifts, requests, task, pc, balance>>
      /\ epoch' = epoch + 1 /\ epoch < MaxEpoch
  BY DEF NextEpoch, script
<1>2. /\ epoch \in 1..MaxEpoch /\ MaxEpoch \in Nat
      /\ epoch' \in 1..MaxEpoch /\ epoch' # Never /\ epoch # Never
  BY <1>1, StakeAssumption DEF Shape, Never
<1>3. Shape'
  BY <1>1, <1>2 DEF Shape
<1>4. PastOnly'
  <2>1. 0..epoch \subseteq 0..epoch'
    BY <1>1, <1>2
  <2> QED BY <1>1, <2>1 DEF PastOnly
<1>5. ExistingMade'
  BY <1>1 DEF ExistingMade, Exists, Made, IsCreate
<1>6. ASSUME NEW s \in Address, Settled(s) PROVE Settled(s)'
  <2>1. Made(s)'
    BY <1>1, <1>6 DEF Settled, Made, IsCreate
  <2>2. ASSUME Exists(s) PROVE Inactive(stakes[s])'
    <3>1. stakes[s].deactivated # Never /\ stakes[s].deactivated \in 0..epoch
      BY <1>6, <2>2 DEF Settled, Inactive, PastOnly
    <3>2. stakes[s].deactivated # epoch'
      BY <1>1, <1>2, <3>1
    <3>3. Locked(stakes[s])' = 0
      BY <1>1, <3>1, <3>2 DEF Locked
    <3> QED BY <1>1, <3>1, <3>3 DEF Inactive, Never
  <2> QED BY <1>1, <2>1, <2>2 DEF Settled, Exists
<1>7. SameRequests /\ StaysSettled
  BY <1>1, <1>6 DEF SameRequests, StaysSettled
<1>8. CreatesOnce' /\ CheckedSettled'
  BY <1>1, <1>3, <1>7, QuietKeeps DEF At
<1> QED BY <1>3, <1>4, <1>5, <1>8

\* Lamports sent to an account change neither its delegation nor that it is there.
LEMMA DepositKeeps ==
  ASSUME RaceInv, NEW s \in Address, Deposit(s)
  PROVE  RaceInv'
<1> USE DEF RaceInv
<1> DEFINE new == [stakes[s] EXCEPT !.lamports = stakes[s].lamports + Gift]
<1>1. /\ UNCHANGED <<epoch, vault, requests, task, pc, balance>>
      /\ gifts > 0 /\ gifts' = gifts - 1 /\ Exists(s)
      /\ stakes' = [stakes EXCEPT ![s] = new]
  BY DEF Deposit, script
<1>2. stakes[s] \in StakeAccount /\ stakes[s].lamports + Gift \in Nat
  BY Fields, StakeAssumption
<1>3. /\ new \in StakeAccount /\ new.deactivated = stakes[s].deactivated
      /\ new.activated = stakes[s].activated /\ new.stake = stakes[s].stake
  BY <1>2 DEF StakeAccount
<1> HIDE DEF new
<1>4. /\ stakes' \in [Address -> StakeAccount] /\ stakes'[s] = new
      /\ \A x \in Address : x # s => stakes'[x] = stakes[x]
  BY <1>1, <1>3 DEF Shape
<1>5. Shape'
  <2>1. gifts' \in 0..MaxGifts
    BY <1>1, StakeAssumption DEF Shape
  <2> QED BY <1>1, <1>4, <2>1 DEF Shape
<1>6. PastOnly'
  BY <1>1, <1>3, <1>4 DEF PastOnly
<1>7. ExistingMade'
  <2>1. \A x \in Address : Exists(x)' => Exists(x)
    BY <1>1, <1>4 DEF Exists
  <2> QED BY <1>1, <2>1 DEF ExistingMade, Made, IsCreate
<1>8. ASSUME NEW x \in Address, Settled(x) PROVE Settled(x)'
  <2>1. CASE x # s
    BY <1>1, <1>4, <1>8, <2>1, SameSettled
  <2>2. CASE x = s
    <3>1. Made(s)'
      BY <1>1, <1>8, <2>2 DEF Settled, Made, IsCreate
    <3>2. Inactive(stakes[s])
      BY <1>1, <1>8, <2>2 DEF Settled
    <3>3. Inactive(stakes[s])'
      BY <1>1, <1>3, <1>4, <3>2 DEF Inactive, Locked
    <3> QED BY <2>2, <3>1, <3>3 DEF Settled
  <2> QED BY <2>1, <2>2
<1>9. SameRequests /\ StaysSettled
  BY <1>1, <1>8 DEF SameRequests, StaysSettled
<1>10. CreatesOnce' /\ CheckedSettled'
  BY <1>1, <1>5, <1>9, QuietKeeps DEF At
<1> QED BY <1>5, <1>6, <1>7, <1>10

\* What a successful transaction does to the accounts: the one it names alone changes,
\* a creation is of a stake that is not settled, and none locks a stake again.
LEMMA EffectKeeps ==
  ASSUME RaceInv, NEW id \in DOMAIN requests, requests[id].fate = "broadcast",
         Succeeds(requests[id].of), Effect(requests[id].of)
  PROVE  LET tx == requests[id].of
         IN /\ \A x \in Address : x # tx.stake => stakes'[x] = stakes[x]
            /\ stakes'[tx.stake].deactivated \in {Never, epoch, stakes[tx.stake].deactivated}
            /\ Exists(tx.stake) \/ tx.kind = "create"
            /\ Settled(tx.stake) =>
                 \/ stakes'[tx.stake].lamports = 0
                 \/ /\ Exists(tx.stake)
                    /\ stakes'[tx.stake].deactivated = stakes[tx.stake].deactivated
                    /\ stakes'[tx.stake].activated = stakes[tx.stake].activated
                    /\ stakes'[tx.stake].stake = stakes[tx.stake].stake
<1> USE DEF RaceInv
<1> DEFINE tx == requests[id].of
           s == tx.stake
<1>1. /\ tx.kind \in {"create", "deactivate", "withdraw"}
      /\ tx \in StakeTx /\ s \in Address /\ tx.by \in Run
      /\ stakes[s] \in StakeAccount
  BY Fields
<1>2. Succeeds(tx) /\ Effect(tx)
  OBVIOUS
<1>3. CASE tx.kind = "create"
  <2>1. ~Settled(s)
    <3>1. s \notin Existing
      BY <1>1, <1>3, StakeAssumption DEF CreatesOnce
    <3>2. \A i \in DOMAIN requests : IsCreate(i, s) => i = id
      BY <1>1, <1>3 DEF CreatesOnce, IsCreate
    <3> QED BY <3>1, <3>2 DEF Settled, Made
  <2> HIDE DEF s
  <2>2. stakes' = [stakes EXCEPT ![s] = Delegated(tx.lamports, epoch)]
    BY <1>2, <1>3 DEF Effect, s
  <2>3. /\ \A x \in Address : x # s => stakes'[x] = stakes[x]
        /\ stakes'[s].deactivated = Never
    BY <1>1, <2>2 DEF Shape, Delegated
  <2> QED BY <1>3, <2>1, <2>3 DEF s
<1>4. CASE tx.kind = "deactivate"
  <2> HIDE DEF s
  <2>1. Exists(s) /\ stakes[s].deactivated = Never
    BY <1>2, <1>4 DEF Succeeds, s
  <2>2. ~Settled(s)
    BY <2>1 DEF Settled, Inactive
  <2>3. stakes' = [stakes EXCEPT ![s].deactivated = epoch]
    BY <1>2, <1>4 DEF Effect, s
  <2>4. /\ \A x \in Address : x # s => stakes'[x] = stakes[x]
        /\ stakes'[s].deactivated = epoch
    BY <1>1, <2>3 DEF Shape, StakeAccount
  <2> QED BY <2>1, <2>2, <2>4 DEF s
<1>5. CASE tx.kind = "withdraw"
  <2> HIDE DEF s
  <2> DEFINE new == Withdrawn(stakes[s], tx.lamports)
  <2>1. Exists(s)
    BY <1>2, <1>5 DEF Succeeds, s
  <2>2. stakes' = [stakes EXCEPT ![s] = new]
    BY <1>2, <1>5 DEF Effect, s
  <2>3. \/ new.lamports = 0 /\ new.deactivated = Never
        \/ /\ new.deactivated = stakes[s].deactivated
           /\ new.activated = stakes[s].activated /\ new.stake = stakes[s].stake
    BY <1>1 DEF Withdrawn, NoStake, StakeAccount
  <2> HIDE DEF new
  <2>4. /\ \A x \in Address : x # s => stakes'[x] = stakes[x]
        /\ stakes'[s] = new
    BY <1>1, <2>2 DEF Shape
  <2> QED BY <2>1, <2>3, <2>4 DEF s
<1> QED BY <1>1, <1>3, <1>4, <1>5

\* A transaction is executed.
LEMMA LandKeeps ==
  ASSUME RaceInv, NEW id \in DOMAIN requests, Land(id)
  PROVE  RaceInv'
<1> USE DEF RaceInv
<1> DEFINE tx == requests[id].of
           as == IF Succeeds(tx) THEN "ok" ELSE "failed"
<1>1. /\ requests[id].fate = "broadcast"
      /\ requests' = [requests EXCEPT ![id].fate = as]
      /\ UNCHANGED <<epoch, gifts, task, pc, balance>>
      /\ IF Succeeds(tx) THEN Effect(tx) ELSE UNCHANGED <<vault, stakes>>
  BY DEF Land, Executed, script
<1>2. as \in Fate
  BY DEF Fate
<1> HIDE DEF as
<1>3. /\ requests' \in Seq([of : StakeTx, fate : Fate])
      /\ DOMAIN requests' = DOMAIN requests
      /\ \A i \in DOMAIN requests : requests'[i].of = requests[i].of
      /\ \A i \in DOMAIN requests : i # id => requests'[i] = requests[i]
      /\ requests'[id].fate = as
  BY <1>1, <1>2, Refated
<1>4. \A i \in DOMAIN requests : requests[i].fate = "ok" => requests'[i].fate = "ok"
  BY <1>1, <1>3
<1>5. tx \in StakeTx /\ tx.stake \in Address
  BY Fields
<1>6. Shape'
  <2>1. stakes' \in [Address -> StakeAccount] /\ vault' \in Nat
    BY <1>1, <1>5, EffectShape DEF Shape
  <2> QED BY <1>1, <1>3, <2>1 DEF Shape
<1>7. SameRequests
  BY <1>3 DEF SameRequests
<1>8. \A x \in Address : Made(x) => Made(x)'
  BY <1>3, <1>4, MadeStays
<1>9. PastOnly' /\ ExistingMade' /\ StaysSettled
  <2>1. CASE ~Succeeds(tx)
    <3>1. UNCHANGED <<epoch, stakes>>
      BY <1>1, <2>1
    <3>2. StaysSettled
      BY <1>3, <1>4, <3>1, SameSettled DEF StaysSettled
    <3> QED BY <1>8, <3>1, <3>2 DEF PastOnly, ExistingMade, Exists
  <2>2. CASE Succeeds(tx)
    <3> DEFINE s == tx.stake
    <3>1. /\ \A x \in Address : x # s => stakes'[x] = stakes[x]
          /\ stakes'[s].deactivated \in {Never, epoch, stakes[s].deactivated}
          /\ Exists(s) \/ tx.kind = "create"
          /\ Settled(s) =>
               \/ stakes'[s].lamports = 0
               \/ /\ Exists(s) /\ stakes'[s].deactivated = stakes[s].deactivated
                  /\ stakes'[s].activated = stakes[s].activated
                  /\ stakes'[s].stake = stakes[s].stake
      BY <1>1, <2>2, EffectKeeps
    <3>2. PastOnly'
      <4>1. epoch \in 0..epoch
        BY DEF Shape
      <4>2. stakes'[s].deactivated \in 0..epoch \cup {Never}
        BY <1>5, <3>1, <4>1 DEF PastOnly
      <4> QED BY <1>1, <3>1, <4>2 DEF PastOnly
    <3>3. ExistingMade'
      <4>1. ASSUME tx.kind = "create" PROVE Made(s)'
        <5>1. requests'[id].fate = "ok" /\ requests'[id].of = tx
          BY <1>3, <2>2 DEF as
        <5>2. PICK x \in Address : x = s
          BY <1>5
        <5>3. Made(x)'
          BY <1>3, <4>1, <5>1, <5>2 DEF Made, IsCreate
        <5>4. x = requests'[id].of.stake
          BY <5>1, <5>2
        <5> QED BY <5>3, <5>4
      <4>2. PICK x \in Address : x = s
        BY <1>5
      <4>3. Made(x)'
        <5>1. x = requests'[id].of.stake
          BY <1>3, <4>2
        <5> QED BY <1>8, <3>1, <4>1, <4>2, <5>1 DEF ExistingMade
      <4> QED BY <1>8, <3>1, <4>2, <4>3 DEF ExistingMade, Exists
    <3>4. ASSUME NEW x \in Address, Settled(x) PROVE Settled(x)'
      <4>1. CASE x # s
        BY <1>1, <1>3, <1>4, <3>1, <3>4, <4>1, SameSettled
      <4>2. CASE x = s
        <5>1. Made(x)'
          BY <1>8, <3>4 DEF Settled
        <5>2. CASE stakes'[x].lamports = 0
          BY <5>1, <5>2 DEF Settled, Exists
        <5>3. CASE /\ Exists(x) /\ stakes'[x].deactivated = stakes[x].deactivated
                   /\ stakes'[x].activated = stakes[x].activated
                   /\ stakes'[x].stake = stakes[x].stake
          <6>1. Inactive(stakes[x])
            BY <3>4, <5>3 DEF Settled
          <6>2. Inactive(stakes[x])'
            BY <1>1, <5>3, <6>1 DEF Inactive, Locked
          <6> QED BY <5>1, <6>2 DEF Settled
        <5> QED BY <3>1, <3>4, <4>2, <5>2, <5>3
      <4> QED BY <4>1, <4>2
    <3> QED BY <3>2, <3>3, <3>4 DEF StaysSettled
  <2> QED BY <2>1, <2>2
<1>10. CreatesOnce' /\ CheckedSettled'
  BY <1>1, <1>6, <1>7, <1>9, QuietKeeps DEF At
<1> QED BY <1>6, <1>9, <1>10

\* Every step keeps the invariant: one case per action.
LEMMA NextRace == RaceInv /\ [Next]_vars => RaceInv'
<1> SUFFICES ASSUME RaceInv, [Next]_vars PROVE RaceInv'
  OBVIOUS
<1>1. Shape /\ balance \in [Run -> Nat]
  BY DEF RaceInv, Shape
<1>2. ASSUME NEW r \in Run, Create(r) PROVE RaceInv'
  <2> DEFINE tx == Tx("create", stakeAccount[r], task[r].amount, 0, r)
  <2>1. task[r].command = "create" /\ pc[r] = "start" /\ task[r].amount > 0
    BY <1>2 DEF Create, At, Accepts
  <2>2. task[r].amount \in Nat /\ stakeAccount[r] \in Address
    BY <1>1, <2>1, CommandTypes DEF Address
  <2>3. tx \in StakeTx /\ tx.kind = "create" /\ tx.by = r
        /\ tx.stake = stakeAccount[r] /\ tx.lamports > 0
    BY <2>1, <2>2 DEF Tx, StakeTx
  <2>4. Submit(r, tx, "display")
    BY <1>2 DEF Create
  <2> HIDE DEF tx
  <2> QED BY <2>1, <2>3, <2>4, SubmitKeeps
<1>3. ASSUME NEW r \in Run, Display(r) PROVE RaceInv'
  <2>1. PICK l \in {"done", "failed"} : Goto(r, l)
    BY <1>3 DEF Display
  <2> QED BY <1>1, <1>3, <2>1, MoveKeeps DEF Display, Label
<1>4. ASSUME NEW r \in Run, Show(r) PROVE RaceInv'
  <2>1. PICK l \in {"send", "failed"} : Goto(r, l)
    BY <1>4 DEF Show
  <2>2. task[r].command # "withdraw"
    BY <1>4 DEF Show, At
  <2> QED BY <1>1, <1>4, <2>1, <2>2, MoveKeeps DEF Show, Label
<1>5. ASSUME NEW r \in Run, Deactivate(r) PROVE RaceInv'
  <2> DEFINE tx == Tx("deactivate", task[r].stake, 0, 0, r)
  <2>1. task[r].stake \in Address
    BY <1>1, <1>5, CommandTypes DEF Deactivate, At
  <2>2. tx \in StakeTx /\ tx.kind = "deactivate" /\ tx.by = r
    BY <2>1 DEF Tx, StakeTx
  <2>3. Submit(r, tx, "done")
    BY <1>5 DEF Deactivate
  <2> HIDE DEF tx
  <2> QED BY <2>2, <2>3, SubmitKeeps
<1>6. ASSUME NEW r \in Run, GetBalance(r) PROVE RaceInv'
  <2>1. stakes[task[r].stake].lamports \in Nat
    BY <1>1, <1>6, CommandTypes, Fields DEF GetBalance, At
  <2>2. balance' \in [Run -> Nat]
    BY <1>1, <1>6, <2>1 DEF GetBalance
  <2>3. Goto(r, "check") /\ UNCHANGED <<chain, requests, task>>
    BY <1>6 DEF GetBalance
  <2> QED BY <2>2, <2>3, MoveKeeps DEF Label
<1>7. ASSUME NEW r \in Run, Check(r) PROVE RaceInv'
  <2> DEFINE s == task[r].stake
  <2>1. s \in Address
    BY <1>1, <1>7, CommandTypes DEF Check, At
  <2>2. PICK l \in {"send", "failed", "refused"} :
          Goto(r, l) /\ (l = "send" => Exists(s) /\ Withdrawable(Activation(stakes[s])))
    BY <1>7 DEF Check
  <2>3. l = "send" => Settled(s)
    BY <1>1, <2>1, <2>2, InactiveUnlocked DEF RaceInv, ExistingMade, Settled, Withdrawable
  <2>4. UNCHANGED <<chain, requests, task, balance>>
    BY <1>7 DEF Check
  <2> QED BY <1>1, <2>2, <2>3, <2>4, MoveKeeps DEF Label
<1>8. ASSUME NEW r \in Run, Withdraw(r) PROVE RaceInv'
  <2> DEFINE n == Requested(task[r].amount, balance[r])
             tx == Tx("withdraw", task[r].stake, n, balance[r], r)
  <2>1. task[r].stake \in Address /\ task[r].amount \in Nat \cup {None}
    BY <1>1, <1>8, CommandTypes DEF Withdraw, At
  <2>2. n \in Nat /\ balance[r] \in Nat
    BY <1>1, <2>1 DEF Requested
  <2>3. tx \in StakeTx /\ tx.kind = "withdraw" /\ tx.by = r /\ tx.stake = task[r].stake
    BY <2>1, <2>2 DEF Tx, StakeTx
  <2>4. Settled(task[r].stake)
    BY <1>8 DEF Withdraw, RaceInv, CheckedSettled
  <2>5. Submit(r, tx, "done")
    BY <1>8 DEF Withdraw
  <2> HIDE DEF tx
  <2> QED BY <2>3, <2>4, <2>5, SubmitKeeps
<1>9. ASSUME NEW r \in Run, Fail(r) PROVE RaceInv'
  BY <1>1, <1>9, MoveKeeps DEF Fail, Label
<1>10. CASE UNCHANGED vars
  <2>1. UNCHANGED <<epoch, vault, stakes, gifts, requests, task, pc, balance>>
    BY <1>10 DEF vars, chain, script
  <2> QED BY <2>1 DEF RaceInv, Shape, CreatesOnce, PastOnly, ExistingMade, CheckedSettled,
                      IsCreate, Made, Exists, Settled, Inactive, Locked, At
<1> QED BY <1>2, <1>3, <1>4, <1>5, <1>6, <1>7, <1>8, <1>9, <1>10,
           LandKeeps, DecideKeeps, EpochKeeps, DepositKeeps DEF Next

\* The invariant holds of every behaviour.
LEMMA RaceHolds == Spec => []RaceInv
BY InitRace, NextRace, PTL DEF Spec

-----------------------------------------------------------------------------
(* Theorems                                                                *)

\* For every number of runs, stakes and epochs: no balance goes below zero, and no run
\* asks for a stake that is not positive.
THEOREM StakeTypeCorrect == Spec => []TypeOK
<1>1. RaceInv => TypeOK
  <2> SUFFICES ASSUME RaceInv PROVE TypeOK
    OBVIOUS
  <2>1. Shape /\ CreatesOnce
    BY DEF RaceInv
  <2> QED BY <2>1, Fields DEF TypeOK, Shape, CreatesOnce, StakeAccount
<1> QED BY <1>1, RaceHolds, PTL

\* A transaction fails in one step only, and for its own sake.
LEMMA FailsByLanding ==
  ASSUME RaceInv, [Next]_vars, NEW id \in DOMAIN requests,
         requests'[id].fate = "failed", requests[id].fate # "failed"
  PROVE  ~Succeeds(requests[id].of)
<1>1. Shape
  BY DEF RaceInv
<1>2. ASSUME NEW i \in DOMAIN requests, Land(i) PROVE ~Succeeds(requests[id].of)
  <2>1. requests' = [requests EXCEPT ![i].fate = IF Succeeds(requests[i].of) THEN "ok"
                                                  ELSE "failed"]
    BY <1>2 DEF Land, Executed
  <2>2. (IF Succeeds(requests[i].of) THEN "ok" ELSE "failed") \in Fate
    BY DEF Fate
  <2>3. /\ id # i => requests'[id] = requests[id]
        /\ requests'[i].fate = IF Succeeds(requests[i].of) THEN "ok" ELSE "failed"
    BY <1>1, <2>1, <2>2, Refated
  <2> QED BY <2>3
<1>3. ASSUME NEW i \in DOMAIN requests, Decide(i) PROVE FALSE
  <2>1. PICK as \in {"broadcast", "dead"} : requests' = [requests EXCEPT ![i].fate = as]
    BY <1>3 DEF Decide
  <2>2. /\ id # i => requests'[id] = requests[id]
        /\ requests'[i].fate = as
    BY <1>1, <2>1, Refated DEF Fate
  <2> QED BY <2>1, <2>2
<1>4. ASSUME NEW tx, NEW as, Submitted(tx, as) PROVE FALSE
  <2> DEFINE e == [of |-> tx, fate |-> as]
             S == [of : StakeTx, fate : Fate] \cup {e}
  <2>1. [of : StakeTx, fate : Fate] \subseteq S /\ e \in S
    OBVIOUS
  <2>2. requests' = Append(requests, e)
    BY <1>4 DEF Submitted
  <2> HIDE DEF e, S
  <2>3. requests \in Seq(S)
    BY <1>1, <2>1, SeqMonotonic DEF Shape
  <2>4. id \in 1..Len(requests)
    BY <2>3, LenProperties
  <2>5. requests'[id] = requests[id]
    BY <2>1, <2>2, <2>3, <2>4, AppendProperties
  <2> QED BY <2>5
<1>5. ASSUME NEW r \in Run, NEW tx, NEW next, Submit(r, tx, next) PROVE FALSE
  <2>1. \E as \in Fate : Submitted(tx, as)
    BY <1>5 DEF Submit, Sent, Threw, Fate
  <2> QED BY <1>4, <2>1
<1>6. requests' # requests
  OBVIOUS
<1>7. ASSUME NEW r \in Run,
             \/ Create(r) \/ Display(r) \/ Show(r) \/ Deactivate(r)
             \/ GetBalance(r) \/ Check(r) \/ Withdraw(r) \/ Fail(r)
      PROVE  FALSE
  BY <1>5, <1>6, <1>7 DEF Create, Display, Show, Deactivate, GetBalance, Check, Withdraw, Fail
<1> QED BY <1>2, <1>3, <1>6, <1>7 DEF Next, NextEpoch, Deposit, vars

\* A withdrawal of the balance the run read, or of an amount that leaves the reserve,
\* succeeds on a settled stake.
LEMMA SettledGives ==
  ASSUME Shape, NEW tx \in StakeTx, tx.kind = "withdraw", Settled(tx.stake),
         Exists(tx.stake), stakes[tx.stake].lamports = tx.balance, ~TooMuch(tx)
  PROVE  Succeeds(tx)
<1> DEFINE account == stakes[tx.stake]
<1>1. /\ tx.stake \in Address /\ tx.lamports \in Nat /\ Reserve \in Nat
      /\ account.lamports \in Nat
  BY Fields, StakeAssumption DEF StakeTx
<1>2. Locked(account) = 0
  BY DEF Settled, Inactive
<1>3. tx.lamports = account.lamports \/ tx.lamports + Reserve <= account.lamports
  BY <1>1 DEF TooMuch
<1>4. CanWithdraw(account, tx.lamports)
  <2> HIDE DEF account
  <2>1. tx.lamports <= account.lamports
    BY <1>1, <1>3
  <2> QED BY <1>1, <1>2, <1>3, <2>1 DEF CanWithdraw
<1> QED BY <1>4 DEF Succeeds

\* For every number of runs, stakes and epochs: what a run of withdraw checked stays
\* true until its transaction lands, which fails only if the account is gone, its
\* balance is no longer the one the run read, or the amount asked was too much.
THEOREM StateNeverStale == Spec => FailsOnlyByRace
<1>1. ASSUME RaceInv, [Next]_vars, NEW id \in DOMAIN requests,
             requests[id].of.kind = "withdraw", requests'[id].fate = "failed"
      PROVE  \/ requests[id].fate = "failed"
             \/ ~Exists(requests[id].of.stake)
             \/ stakes[requests[id].of.stake].lamports # requests[id].of.balance
             \/ TooMuch(requests[id].of)
  <2>1. Shape /\ requests[id].of \in StakeTx /\ Settled(requests[id].of.stake)
    BY <1>1, Fields DEF RaceInv, CheckedSettled
  <2>2. requests[id].fate # "failed" => ~Succeeds(requests[id].of)
    BY <1>1, FailsByLanding
  <2> QED BY <1>1, <2>1, <2>2, SettledGives
<1>2. RaceInv /\ [Next]_vars =>
        [\A id \in DOMAIN requests :
           (requests[id].of.kind = "withdraw" /\ requests'[id].fate = "failed")
             => \/ requests[id].fate = "failed"
                \/ ~Exists(requests[id].of.stake)
                \/ stakes[requests[id].of.stake].lamports # requests[id].of.balance
                \/ TooMuch(requests[id].of)]_vars
  BY <1>1
<1> QED BY <1>2, RaceHolds, PTL DEF Spec, FailsOnlyByRace
=============================================================================
