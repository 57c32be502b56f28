------------------------ MODULE TokenScripts_proofs ------------------------
(***************************************************************************)
(* Theorems about the token scripts and thaw-transfer-freeze.ts, for any   *)
(* number of runs, accounts and amounts, and any order in which their      *)
(* transactions land.                                                      *)
(***************************************************************************)
EXTENDS TokenScripts, Sums_proofs

\* The last of some of the numbers from 1 to 3.
LEMMA Greatest ==
  ASSUME NEW s \in SUBSET {1, 2, 3}, s # {}
  PROVE  Max(s) = IF 3 \in s THEN 3 ELSE IF 2 \in s THEN 2 ELSE 1
<1> DEFINE m == IF 3 \in s THEN 3 ELSE IF 2 \in s THEN 2 ELSE 1
<1>1. m \in s /\ \A y \in s : m >= y
  <2>1. \A y \in s : y = 1 \/ y = 2 \/ y = 3
    OBVIOUS
  <2>2. s # {} => 1 \in s \/ 2 \in s \/ 3 \in s
    BY <2>1
  <2> QED BY <2>1, <2>2
<1>2. ASSUME NEW x \in s, \A y \in s : x >= y PROVE x = m
  BY <1>2
<1> HIDE DEF m
<1>3. Max(s) = m
  BY <1>1, <1>2 DEF Max
<1> QED BY <1>3 DEF m

\* The steps of a transaction of three instructions, one after another.
LEMMA ThreeSteps ==
  ASSUME NEW h, NEW x, NEW y, NEW z
  PROVE  Outcome(h, <<x, y, z>>) =
           Step(h, Step(h, Step(h, [ok |-> TRUE, holding |-> h], x), y), z)
<1> DEFINE start == [ok |-> TRUE, holding |-> h]
           tx == <<x, y, z>>
           first(s) == IF 1 \in s THEN Step(h, start, x) ELSE start
           second(s) == IF 2 \in s THEN Step(h, first(s), y) ELSE first(s)
           third(s) == IF 3 \in s THEN Step(h, second(s), z) ELSE second(s)
           IsFold(g) == g = [s \in SUBSET {1, 2, 3} |-> IF s = {} THEN start
                               ELSE Step(h, g[s \ {Max(s)}], tx[Max(s)])]
           w == [s \in SUBSET {1, 2, 3} |-> third(s)]
           fold == CHOOSE g : IsFold(g)
<1>1. DOMAIN tx = {1, 2, 3}
  OBVIOUS
<1>2. Outcome(h, tx) = fold[{1, 2, 3}]
  BY <1>1, Zenon DEF Outcome, FoldLeft, MapThenFoldSet
<1>3. IsFold(w)
  <2>1. ASSUME NEW s \in SUBSET {1, 2, 3}, s # {}
        PROVE  w[s] = Step(h, w[s \ {Max(s)}], tx[Max(s)])
    <3>1. CASE 3 \in s
      <4>1. Max(s) = 3 /\ third(s \ {3}) = second(s)
        BY <3>1, Greatest
      <4> QED BY <3>1, <4>1
    <3>2. CASE 3 \notin s /\ 2 \in s
      <4>1. Max(s) = 2 /\ third(s \ {2}) = first(s) /\ third(s) = Step(h, first(s), y)
        BY <3>2, Greatest
      <4> QED BY <3>2, <4>1
    <3>3. CASE 3 \notin s /\ 2 \notin s
      <4>1. s = {1}
        BY <2>1, <3>3
      <4>2. Max(s) = 1
        BY <4>1, Greatest
      <4> QED BY <4>1, <4>2
    <3> QED BY <3>1, <3>2, <3>3
  <2>2. w[{}] = start
    OBVIOUS
  <2>3. w = [s \in SUBSET {1, 2, 3} |-> w[s]]
    OBVIOUS
  <2> HIDE DEF w
  <2> QED BY <2>1, <2>2, <2>3
<1>4. IsFold(fold)
  <2> HIDE DEF IsFold
  <2> QED BY <1>3, Zenon
<1> HIDE DEF fold
<1>5. /\ fold[{}] = start
      /\ \A s \in SUBSET {1, 2, 3} :
           s # {} => fold[s] = Step(h, fold[s \ {Max(s)}], tx[Max(s)])
  BY <1>4
<1>6. /\ fold[{1}] = Step(h, fold[{}], x) /\ fold[{1, 2}] = Step(h, fold[{1}], y)
      /\ fold[{1, 2, 3}] = Step(h, fold[{1, 2}], z)
  <2>1. /\ {1} \ {1} = {} /\ {1, 2} \ {2} = {1} /\ {1, 2, 3} \ {3} = {1, 2}
        /\ Max({1}) = 1 /\ Max({1, 2}) = 2 /\ Max({1, 2, 3}) = 3
    BY Greatest
  <2>2. tx[1] = x /\ tx[2] = y /\ tx[3] = z
    OBVIOUS
  <2> HIDE DEF tx
  <2> QED BY <1>5, <2>1, <2>2
<1> QED BY <1>2, <1>5, <1>6

\* A transaction that takes effect has moved its amount, or nothing, when both
\* accounts are one, and left every account as frozen as it was.
LEMMA TransferEffect ==
  ASSUME NEW D, NEW h \in [D -> Holding], NEW s \in D,
         NEW d \in D, NEW n \in Nat,
         Outcome(h, thawTransferFreeze(s, d, n)).ok
  PROVE  LET after == Outcome(h, thawTransferFreeze(s, d, n)).holding IN
           /\ after \in [D -> Holding]
           /\ \A a \in D : after[a].frozen = h[a].frozen
           /\ s = d => after = h
           /\ s # d =>
                /\ after[s].balance = h[s].balance - n
                /\ after[d].balance = h[d].balance + n
                /\ \A a \in D \ {s, d} : after[a] = h[a]
<1> DEFINE start == [ok |-> TRUE, holding |-> h]
           ix == TransferChecked(s, d, n)
           thawed == Step(h, start, Thaw(s))
           moved == Step(h, thawed, ix)
           frozen == Step(h, moved, Freeze(s))
           yes == TRUE
           no == FALSE
           h1 == [h EXCEPT ![s].frozen = no]
           h2 == Applied(h1, ix)
<1>1. frozen = Outcome(h, thawTransferFreeze(s, d, n))
  BY ThreeSteps DEF thawTransferFreeze
<1>2. /\ moved.ok /\ Allowed(moved.holding, Freeze(s))
      /\ frozen.holding = Applied(moved.holding, Freeze(s))
  BY <1>1 DEF Step
<1>3. /\ thawed.ok /\ Allowed(thawed.holding, ix)
      /\ moved.holding = Applied(thawed.holding, ix)
  BY <1>2 DEF Step
<1>4. Allowed(h, Thaw(s)) /\ thawed.holding = h1
  BY <1>3 DEF Step, Thaw, Applied
<1> HIDE DEF thawed, moved, frozen
<1>5. h[s].frozen
  BY <1>4 DEF Thaw, Allowed
<1>6. ~h1[s].frozen /\ ~h1[d].frozen /\ h1[s].balance >= n
  BY <1>3, <1>4 DEF TransferChecked, Allowed
<1>7. h2 = [[h1 EXCEPT ![s].balance = @ - n] EXCEPT ![d].balance = @ + n]
  BY DEF TransferChecked, Applied
<1>8. frozen.holding = [h2 EXCEPT ![s].frozen = yes]
  BY <1>2, <1>3, <1>4 DEF Freeze, Applied
<1> HIDE DEF h2, ix
<1> DEFINE R(x, z) == [balance |-> x, frozen |-> z]
           h3 == [h1 EXCEPT ![s].balance = @ - n]
<1>9. PICK B \in Nat : h[s] = R(B, yes)
  BY <1>5 DEF Holding
<1> HIDE DEF yes, no
<1>10. h1 = [h EXCEPT ![s] = R(B, no)]
  <2>1. [h[s] EXCEPT !.frozen = no] = R(B, no)
    BY <1>9
  <2> QED BY <2>1
<1> HIDE DEF h1
<1>11. h1[s] = R(B, no) /\ B >= n
  BY <1>6, <1>10
<1>12. h3 = [h EXCEPT ![s] = R(B - n, no)] /\ h3[s] = R(B - n, no)
  <2>1. [h1[s] EXCEPT !.balance = h1[s].balance - n] = R(B - n, no)
    BY <1>11
  <2>2. h3 = [h1 EXCEPT ![s] = R(B - n, no)]
    BY <2>1
  <2> HIDE DEF h3
  <2> QED BY <1>10, <2>2
<1>13. h2 = [h3 EXCEPT ![d] = [h3[d] EXCEPT !.balance = h3[d].balance + n]]
  <2>1. h2 = [h3 EXCEPT ![d].balance = @ + n]
    BY <1>7
  <2> HIDE DEF h3
  <2> QED BY <2>1
<1> HIDE DEF h3
<1>14. CASE s = d
  <2>1. [h3[s] EXCEPT !.balance = h3[s].balance + n] = R(B, no)
    <3>1. (B - n) + n = B
      BY <1>9
    <3> QED BY <1>12, <3>1
  <2>2. h2 = [h EXCEPT ![s] = R(B, no)]
    BY <1>12, <1>13, <1>14, <2>1
  <2>3. [h2[s] EXCEPT !.frozen = yes] = R(B, yes)
    BY <2>2
  <2>4. frozen.holding = [h EXCEPT ![s] = R(B, yes)]
    BY <1>8, <2>2, <2>3
  <2>5. frozen.holding = h
    BY <1>9, <2>4
  <2> QED BY <1>1, <1>14, <2>5
<1>15. CASE s # d
  <2>1. PICK C \in Nat : h[d] = R(C, no)
    BY <1>6, <1>10, <1>15 DEF Holding, no
  <2>2. [h3[d] EXCEPT !.balance = h3[d].balance + n] = R(C + n, no)
    BY <1>12, <1>15, <2>1
  <2>3. h2 = [h EXCEPT ![s] = R(B - n, no), ![d] = R(C + n, no)]
    BY <1>12, <1>13, <1>15, <2>2
  <2>4. [h2[s] EXCEPT !.frozen = yes] = R(B - n, yes)
    BY <1>15, <2>3
  <2>5. frozen.holding = [h EXCEPT ![s] = R(B - n, yes), ![d] = R(C + n, no)]
    BY <1>8, <1>15, <2>3, <2>4
  <2>6. R(B - n, yes) \in Holding /\ R(C + n, no) \in Holding
    BY <1>9, <1>11 DEF Holding, yes, no
  <2>7. /\ frozen.holding \in [D -> Holding]
        /\ frozen.holding[s] = R(B - n, yes) /\ frozen.holding[d] = R(C + n, no)
        /\ \A a \in D \ {s, d} : frozen.holding[a] = h[a]
    BY <1>15, <2>5, <2>6
  <2>8. \A a \in D : frozen.holding[a].frozen = h[a].frozen
    <3>1. frozen.holding[s].frozen = yes /\ h[s].frozen = yes
      BY <1>9, <2>7
    <3>2. frozen.holding[d].frozen = no /\ h[d].frozen = no
      BY <2>1, <2>7
    <3> QED BY <2>7, <3>1, <3>2
  <2>9. /\ frozen.holding[s].balance = h[s].balance - n
        /\ frozen.holding[d].balance = h[d].balance + n
    <3>1. h[s].balance = B /\ h[d].balance = C
      BY <1>9, <2>1
    <3>2. frozen.holding[s].balance = B - n /\ frozen.holding[d].balance = C + n
      BY <2>7
    <3> QED BY <3>1, <3>2
  <2> QED BY <1>1, <1>15, <2>7, <2>8, <2>9
<1> QED BY <1>14, <1>15

\* What some accounts hold together.
Holdings(D, h) == SumFunction([a \in D |-> h[a].balance])

\* No token is made or lost by it.
LEMMA TransferTotal ==
  ASSUME NEW D, IsFiniteSet(D), NEW h \in [D -> Holding], NEW s \in D,
         NEW d \in D, NEW n \in Nat,
         Outcome(h, thawTransferFreeze(s, d, n)).ok
  PROVE  Holdings(D, Outcome(h, thawTransferFreeze(s, d, n)).holding) = Holdings(D, h)
<1> DEFINE after == Outcome(h, thawTransferFreeze(s, d, n)).holding
           f == [a \in D |-> h[a].balance]
           g == [f EXCEPT ![s] = f[s] - n]
           k == [a \in D |-> after[a].balance]
<1>1. /\ after \in [D -> Holding]
      /\ s = d => after = h
      /\ s # d => /\ after[s].balance = h[s].balance - n
                  /\ after[d].balance = h[d].balance + n
                  /\ \A a \in D \ {s, d} : after[a] = h[a]
  BY TransferEffect
<1> HIDE DEF after
<1>2. CASE s = d
  BY <1>1, <1>2 DEF after
<1>3. CASE s # d
  <2>1. /\ f \in [D -> Int] /\ g \in [D -> Int]
        /\ k \in [D -> Int]
    BY <1>1 DEF Holding
  <2>2. k = [g EXCEPT ![d] = g[d] + n]
    BY <1>1, <1>3, <2>1
  <2>3. g[d] + n \in Int /\ g[d] \in Int /\ f[s] \in Int /\ f[s] - n \in Int
    BY <2>1
  <2> HIDE DEF f, k
  <2>4. SumFunction(g) = (SumFunction(f) - f[s]) + (f[s] - n)
    <3>1. f \in [D -> Int] /\ f[s] - n \in Int
      BY <2>1, <2>3
    <3> QED BY <3>1, SumPoint
  <2> HIDE DEF g
  <2>5. SumFunction([g EXCEPT ![d] = g[d] + n]) = (SumFunction(g) - g[d]) + (g[d] + n)
    BY <2>1, <2>3, SumPoint
  <2>6. SumFunction(f) \in Int /\ SumFunction(g) \in Int
    BY <2>1, SumType
  <2>7. SumFunction(k) = SumFunction(f)
    BY <2>2, <2>3, <2>4, <2>5, <2>6
  <2> QED BY <2>7 DEF Holdings, f, k, after
<1> QED BY <1>2, <1>3

-----------------------------------------------------------------------------
(* The invariant                                                           *)

Targets == {targetAccount[r] : r \in Run}

Label == {"absent", "save", "first", "second", "read", "mint", "move", "done", "failed"}

\* The transactions the scripts submit.
Requested ==
  [kind : {"initialize", "mint"}, account : Targets, by : Process]
    \cup {Tx("move", move[v].source, v) : v \in Mover}

\* A run that mints has read an account from the file, which only ever names one that
\* a run of initialize.ts generated.
Shape ==
  /\ pc \in [Process -> Label]
  /\ file \in Targets \cup {None}
  /\ target \in [Minter -> Targets \cup {None}]
  /\ \A m \in Minter : pc[m] = "mint" => target[m] # None
  /\ requests \in Seq([of : Requested, fate : Fate])

\* A mint that took effect found its account there, so an account that is created has
\* had none; nothing takes the account away.
Circulation ==
  /\ Token!TypeOK
  /\ \A id \in DOMAIN requests :
       requests[id].fate = "ok" /\ requests[id].of.kind = "mint"
         => requests[id].of.account \in Token!Initialized
  /\ AmountsAreMints

\* Every account of Token-2022 is as frozen as it was at first, not only those that
\* were frozen.
Custody ==
  /\ holding \in [DOMAIN Supply -> Holding]
  /\ \A a \in DOMAIN Supply : holding[a].frozen = Supply[a].frozen
  /\ Total(holding) = Total(Supply)

ScriptInv == Shape /\ Circulation /\ Custody

InFlight == [of : Requested, fate : Fate]

\* A mint that took effect.
MintedBy(id) == requests[id].fate = "ok" /\ requests[id].of.kind = "mint"

-----------------------------------------------------------------------------
(* Requests                                                                *)

\* A step that lets no mint take effect leaves what was minted alone.
LEMMA NoMint ==
  ASSUME Circulation, UNCHANGED <<amount, minted, burned, doubled>>,
         \A id \in DOMAIN requests' : MintedBy(id)' =>
           id \in DOMAIN requests /\ MintedBy(id) /\ requests'[id].of = requests[id].of,
         \A id \in DOMAIN requests : MintedBy(id) =>
           id \in DOMAIN requests' /\ MintedBy(id)' /\ requests'[id].of = requests[id].of
  PROVE  Circulation'
<1>1. ASSUME NEW a PROVE Minted(a)' = Minted(a)
  BY DEF Minted, MintedBy
<1>2. Token!TypeOK'
  BY DEF Circulation, Token!TypeOK, Token!Initialized
<1>3. \A id \in DOMAIN requests' : MintedBy(id)' => requests'[id].of.account \in DOMAIN amount'
  BY DEF Circulation, MintedBy, Token!Initialized
<1>4. AmountsAreMints'
  BY <1>1 DEF Circulation, AmountsAreMints, Token!Initialized
<1> QED BY <1>2, <1>3, <1>4 DEF Circulation, MintedBy, Token!Initialized

\* The request of a script is the last there is, and has not been executed.
LEMMA Asking ==
  ASSUME Shape, NEW tx \in Requested, Sent(tx) \/ Threw(tx)
  PROVE  /\ requests' \in Seq(InFlight)
         /\ DOMAIN requests \subseteq DOMAIN requests'
         /\ \A id \in DOMAIN requests : requests'[id] = requests[id]
         /\ \A id \in DOMAIN requests' \ DOMAIN requests : requests'[id].fate # "ok"
<1>1. PICK as \in {"held", "broadcast", "dead"} :
        requests' = Append(requests, [of |-> tx, fate |-> as])
  BY DEF Sent, Threw, Submitted
<1> DEFINE new == [of |-> tx, fate |-> as]
<1>2. requests \in Seq(InFlight) /\ new \in InFlight /\ new.fate # "ok"
  BY DEF Shape, InFlight, Fate
<1>3. requests' = Append(requests, new)
  BY <1>1
<1> HIDE DEF new
<1>4. /\ requests' \in Seq(InFlight)
      /\ Len(requests') = Len(requests) + 1
      /\ \A id \in 1..Len(requests) : requests'[id] = requests[id]
      /\ requests'[Len(requests) + 1] = new
  BY <1>2, <1>3
<1>5. /\ DOMAIN requests = 1..Len(requests) /\ DOMAIN requests' = 1..Len(requests')
      /\ Len(requests) \in Nat
  BY <1>2, <1>4
<1>6. \A id \in DOMAIN requests' \ DOMAIN requests : id = Len(requests) + 1
  BY <1>4, <1>5
<1> QED BY <1>2, <1>4, <1>5, <1>6

\* A request whose fate is decided keeps what it does, and the others stay.
LEMMA Fated ==
  ASSUME Shape, NEW id \in DOMAIN requests, NEW as \in Fate,
         requests' = [requests EXCEPT ![id].fate = as]
  PROVE  /\ requests' \in Seq(InFlight) /\ DOMAIN requests' = DOMAIN requests
         /\ requests'[id].of = requests[id].of /\ requests'[id].fate = as
         /\ \A k \in DOMAIN requests \ {id} : requests'[k] = requests[k]
<1>1. requests \in Seq(InFlight) /\ DOMAIN requests = 1..Len(requests) /\ Len(requests) \in Nat
  BY DEF Shape, InFlight
<1> DEFINE new == [requests[id] EXCEPT !.fate = as]
<1>2. requests[id] \in InFlight
  BY <1>1
<1>3. new \in InFlight /\ new.of = requests[id].of /\ new.fate = as
  BY <1>2 DEF InFlight
<1>4. requests' = [requests EXCEPT ![id] = new]
  OBVIOUS
<1> HIDE DEF new
<1>5. requests' \in [1..Len(requests) -> InFlight]
  <2>1. requests \in [1..Len(requests) -> InFlight]
    BY <1>1
  <2> QED BY <1>1, <1>3, <1>4, <2>1
<1>6. requests' \in Seq(InFlight)
  BY <1>1, <1>5
<1> QED BY <1>1, <1>3, <1>4, <1>6

\* Decide moves a request from held to broadcast or dead: none takes effect.
LEMMA Deciding ==
  ASSUME ScriptInv, NEW id \in DOMAIN requests, Decide(id), UNCHANGED <<token, scripts>>
  PROVE  ScriptInv'
<1> USE DEF ScriptInv
<1>1. PICK as \in {"broadcast", "dead"} : requests' = [requests EXCEPT ![id].fate = as]
  BY DEF Decide
<1>2. as \in Fate /\ requests[id].fate # "ok"
  BY DEF Decide, Fate
<1>3. /\ requests' \in Seq(InFlight) /\ DOMAIN requests' = DOMAIN requests
      /\ requests'[id].fate = as
      /\ \A k \in DOMAIN requests \ {id} : requests'[k] = requests[k]
  BY <1>1, <1>2, Fated
<1>4. Shape'
  BY <1>3 DEF Shape, scripts, InFlight, Requested
<1>5. Circulation'
  BY <1>2, <1>3, NoMint DEF MintedBy, token, simple_token
<1>6. Custody'
  BY DEF Custody, Total, token
<1> QED BY <1>4, <1>5, <1>6

-----------------------------------------------------------------------------
(* The scripts                                                             *)

\* sendAndConfirmTransaction.
LEMMA Submitting ==
  ASSUME ScriptInv, NEW r \in Process, NEW from, NEW tx \in Requested, NEW next \in Label,
         next # "mint", Submit(r, from, tx, next)
  PROVE  ScriptInv'
<1> USE DEF ScriptInv
<1>1. /\ requests' \in Seq(InFlight)
      /\ DOMAIN requests \subseteq DOMAIN requests'
      /\ \A id \in DOMAIN requests : requests'[id] = requests[id]
      /\ \A id \in DOMAIN requests' \ DOMAIN requests : requests'[id].fate # "ok"
  BY Asking DEF Submit
<1>2. PICK to \in Label \ {"mint"} : pc' = [pc EXCEPT ![r] = to]
  BY DEF Submit, Goto, Label
<1>3. Shape'
  BY <1>1, <1>2 DEF Shape, Submit, InFlight, Requested
<1>4. Circulation'
  BY <1>1, NoMint DEF MintedBy, Submit, token, simple_token
<1>5. Custody'
  BY DEF Custody, Total, Submit, token
<1> QED BY <1>3, <1>4, <1>5

\* A step that only moves a script.
LEMMA Alone ==
  ASSUME ScriptInv, UNCHANGED <<token, requests>>, Shape'
  PROVE  ScriptInv'
<1> USE DEF ScriptInv
<1>1. Circulation'
  BY NoMint DEF MintedBy, token, simple_token
<1>2. Custody'
  BY DEF Custody, Total, token
<1> QED BY <1>1, <1>2

LEMMA Saving == ASSUME ScriptInv, NEW r \in Run, Save(r) PROVE ScriptInv'
<1>1. Shape'
  BY DEF ScriptInv, Shape, Save, Goto, Targets, Process, Label
<1> QED BY <1>1, Alone DEF Save

\* What a run of mint.ts reads is an account, since the file is there.
LEMMA Reading == ASSUME ScriptInv, NEW m \in Minter, Read(m) PROVE ScriptInv'
<1>1. Shape'
  BY DEF ScriptInv, Shape, Read, Goto, Process, Label
<1> QED BY <1>1, Alone DEF Read

LEMMA Failing == ASSUME ScriptInv, NEW r \in Process, Fail(r) PROVE ScriptInv'
<1>1. Shape'
  BY DEF ScriptInv, Shape, Fail, Goto, Process, Label
<1> QED BY <1>1, Alone DEF Fail

LEMMA Initializing ==
  ASSUME ScriptInv, NEW r \in Run, InitializeByAnchor(r) \/ InitializeManually(r)
  PROVE  ScriptInv'
<1> DEFINE tx == Tx("initialize", targetAccount[r], r)
<1>1. tx \in Requested /\ r \in Process /\ {"second", "done"} \subseteq Label
  BY DEF Requested, Tx, Targets, Process, Label
<1>2. Submit(r, "first", tx, "second") \/ Submit(r, "second", tx, "done")
  BY DEF InitializeByAnchor, InitializeManually
<1> HIDE DEF tx
<1> QED BY <1>1, <1>2, Submitting

LEMMA Minting == ASSUME ScriptInv, NEW m \in Minter, Mint(m) PROVE ScriptInv'
<1> DEFINE tx == Tx("mint", target[m], m)
<1>1. target[m] \in Targets
  BY DEF ScriptInv, Shape, Mint, Submit
<1>2. tx \in Requested /\ m \in Process /\ "done" \in Label
  BY <1>1 DEF Requested, Tx, Process, Label
<1>3. Submit(m, "mint", tx, "done")
  BY DEF Mint
<1> HIDE DEF tx
<1> QED BY <1>2, <1>3, Submitting

LEMMA Moving == ASSUME ScriptInv, NEW v \in Mover, Move(v) PROVE ScriptInv'
<1> DEFINE tx == Tx("move", move[v].source, v)
<1>1. tx \in Requested /\ v \in Process /\ "done" \in Label
  BY DEF Requested, Process, Label
<1>2. Submit(v, "move", tx, "done")
  BY DEF Move
<1> HIDE DEF tx
<1> QED BY <1>1, <1>2, Submitting

-----------------------------------------------------------------------------
(* The network                                                             *)

\* What the requests that land say they do.
LEMMA Content ==
  ASSUME Shape, NEW id \in DOMAIN requests
  PROVE  LET tx == requests[id].of IN
           /\ tx \in Requested
           /\ tx.kind \in {"initialize", "mint"} => tx.account \in Targets
           /\ tx.kind = "move" => tx.by \in Mover
<1> DEFINE tx == requests[id].of
<1>1. tx \in Requested
  <2>1. requests \in Seq(InFlight)
    BY DEF Shape, InFlight
  <2>2. requests[id] \in InFlight
    BY <2>1
  <2> QED BY <2>2 DEF InFlight
<1>2. CASE tx \in [kind : {"initialize", "mint"}, account : Targets, by : Process]
  BY <1>1, <1>2
<1>3. CASE \E v \in Mover : tx = Tx("move", move[v].source, v)
  BY <1>1, <1>3 DEF Tx
<1> QED BY <1>1, <1>2, <1>3 DEF Requested

\* The transaction of a request takes effect, or it does not.
LEMMA Landing ==
  ASSUME Shape, NEW id \in DOMAIN requests, NEW ok \in BOOLEAN, Executed(id, ok),
         UNCHANGED scripts
  PROVE  /\ Shape' /\ requests[id].fate = "broadcast"
         /\ DOMAIN requests' = DOMAIN requests
         /\ requests'[id].of = requests[id].of
         /\ requests'[id].fate = IF ok THEN "ok" ELSE "failed"
         /\ \A k \in DOMAIN requests \ {id} : requests'[k] = requests[k]
<1> DEFINE as == IF ok THEN "ok" ELSE "failed"
<1>1. as \in Fate /\ requests' = [requests EXCEPT ![id].fate = as]
  BY DEF Executed, Fate
<1> HIDE DEF as
<1>2. /\ requests' \in Seq(InFlight) /\ DOMAIN requests' = DOMAIN requests
      /\ requests'[id].of = requests[id].of /\ requests'[id].fate = as
      /\ \A k \in DOMAIN requests \ {id} : requests'[k] = requests[k]
  BY <1>1, Fated
<1>3. Shape'
  BY <1>2 DEF Shape, scripts, InFlight, Requested
<1> QED BY <1>2, <1>3 DEF as, Executed

\* A transaction that does not mint, or is refused, leaves the mints as they were.
LEMMA SameMints ==
  ASSUME NEW id \in DOMAIN requests, requests[id].fate = "broadcast",
         requests'[id].of = requests[id].of, DOMAIN requests' = DOMAIN requests,
         requests'[id].fate = "ok" => requests[id].of.kind # "mint",
         \A k \in DOMAIN requests \ {id} : requests'[k] = requests[k]
  PROVE  /\ \A k \in DOMAIN requests' : MintedBy(k)' =>
              MintedBy(k) /\ requests'[k].of = requests[k].of
         /\ \A k \in DOMAIN requests : MintedBy(k) =>
              MintedBy(k)' /\ requests'[k].of = requests[k].of
BY DEF MintedBy

\* initialize creates an account, which holds nothing: no mint on it took effect.
LEMMA InitializeLands ==
  ASSUME ScriptInv, NEW id \in DOMAIN requests, requests[id].of.kind = "initialize",
         Executed(id, TRUE), Token!initialize(requests[id].of.account),
         UNCHANGED <<holding, scripts>>
  PROVE  ScriptInv'
<1> USE DEF ScriptInv
<1>0. PICK a : a = requests[id].of.account
  OBVIOUS
<1>1. a \in Account
  BY <1>0, Content, ScriptAssumption DEF Targets
<1>2. /\ Shape' /\ requests[id].fate = "broadcast"
      /\ DOMAIN requests' = DOMAIN requests
      /\ requests'[id].of = requests[id].of
      /\ \A k \in DOMAIN requests \ {id} : requests'[k] = requests[k]
  BY Landing
<1>3. /\ \A k \in DOMAIN requests' : MintedBy(k)' =>
           MintedBy(k) /\ requests'[k].of = requests[k].of
      /\ \A k \in DOMAIN requests : MintedBy(k) =>
           MintedBy(k)' /\ requests'[k].of = requests[k].of
  BY <1>2, SameMints
<1>4. /\ a \notin DOMAIN amount /\ DOMAIN amount' = DOMAIN amount \cup {a}
      /\ amount'[a] = 0 /\ \A x \in DOMAIN amount : amount'[x] = amount[x]
      /\ amount' \in [DOMAIN amount' -> 0..MaxAmount]
      /\ UNCHANGED <<minted, burned, doubled>>
  BY <1>0, ScriptAssumption DEF Circulation, Token!TypeOK, Token!Initialized, Token!initialize
<1>5. ASSUME NEW x PROVE Minted(x)' = Minted(x)
  BY <1>2, <1>3 DEF Minted, MintedBy
<1>6. Minted(a) = {}
  BY <1>4 DEF Circulation, Minted, Token!Initialized
<1>7. Token!TypeOK'
  BY <1>1, <1>4 DEF Circulation, Token!TypeOK, Token!Initialized
<1>8. AmountsAreMints'
  <2> SUFFICES ASSUME NEW x \in DOMAIN amount'
               PROVE  amount'[x] = mintAmount * Cardinality(Minted(x)')
    BY DEF AmountsAreMints, Token!Initialized
  <2>1. CASE x = a
    <3>1. Minted(x)' = {}
      BY <1>5, <1>6, <2>1
    <3>2. Cardinality(Minted(x)') = 0 /\ mintAmount \in Nat
      BY <3>1, FS_EmptySet, ScriptAssumption
    <3> QED BY <1>4, <2>1, <3>2
  <2>2. CASE x # a
    BY <1>4, <1>5, <2>2 DEF Circulation, AmountsAreMints, Token!Initialized
  <2> QED BY <2>1, <2>2
<1>9. \A k \in DOMAIN requests' : MintedBy(k)' => requests'[k].of.account \in DOMAIN amount'
  BY <1>2, <1>3, <1>4 DEF Circulation, MintedBy, Token!Initialized
<1>10. Circulation'
  BY <1>7, <1>8, <1>9 DEF Circulation, MintedBy, Token!Initialized
<1>11. Custody'
  BY DEF Custody, Total
<1> QED BY <1>2, <1>10, <1>11

\* mint adds its amount to the account, and its request to those that took effect.
LEMMA MintLands ==
  ASSUME ScriptInv, NEW id \in DOMAIN requests, requests[id].of.kind = "mint",
         Executed(id, TRUE), Token!mint(requests[id].of.account, mintAmount),
         UNCHANGED <<holding, scripts>>
  PROVE  ScriptInv'
<1> USE DEF ScriptInv
<1>0. PICK a : a = requests[id].of.account
  OBVIOUS
<1>1. /\ Shape' /\ requests[id].fate = "broadcast" /\ requests'[id].fate = "ok"
      /\ DOMAIN requests' = DOMAIN requests
      /\ requests'[id].of = requests[id].of
      /\ \A k \in DOMAIN requests \ {id} : requests'[k] = requests[k]
  BY Landing
<1>2. requests'[id].of.account = a /\ requests'[id].of.kind = "mint"
  BY <1>0, <1>1
<1>3. IsFiniteSet(DOMAIN requests)
  <2>1. requests \in Seq(InFlight)
    BY DEF Shape, InFlight
  <2>2. DOMAIN requests = 1..Len(requests) /\ Len(requests) \in Int /\ 1 \in Int
    BY <2>1
  <2> QED BY <2>2, FS_Interval
<1>4. /\ id \notin Minted(a) /\ Minted(a)' = Minted(a) \cup {id}
      /\ IsFiniteSet(Minted(a)) /\ \A x : x # a => Minted(x)' = Minted(x)
  <2>1. \A x : x # a => Minted(x)' = Minted(x)
    <3>1. ASSUME NEW x, x # a PROVE Minted(x)' = Minted(x)
      BY <1>1, <1>2, <3>1 DEF Minted
    <3> QED BY <3>1
  <2>2. id \notin Minted(a) /\ Minted(a) \subseteq DOMAIN requests
    BY <1>1 DEF Minted
  <2>3. {k \in DOMAIN requests' : /\ requests'[k].fate = "ok" /\ requests'[k].of.kind = "mint"
                                  /\ requests'[k].of.account = a} = Minted(a) \cup {id}
    BY <1>1, <1>2 DEF Minted
  <2> QED BY <1>3, <2>1, <2>2, <2>3, FS_Subset DEF Minted
<1>5. /\ a \in DOMAIN amount /\ DOMAIN amount' = DOMAIN amount
      /\ amount'[a] = amount[a] + mintAmount
      /\ \A x \in DOMAIN amount \ {a} : amount'[x] = amount[x]
      /\ amount' \in [DOMAIN amount' -> 0..MaxAmount]
      /\ minted' = minted + mintAmount /\ UNCHANGED <<burned, doubled>>
      /\ mintAmount \in Nat
  BY <1>0, ScriptAssumption DEF Circulation, Token!TypeOK, Token!Initialized, Token!mint,
       Token!NoOverflow, Token!WriteBack
<1>6. Token!TypeOK'
  BY <1>5 DEF Circulation, Token!TypeOK, Token!Initialized
<1>7. AmountsAreMints'
  <2> SUFFICES ASSUME NEW x \in DOMAIN amount'
               PROVE  amount'[x] = mintAmount * Cardinality(Minted(x)')
    BY DEF AmountsAreMints, Token!Initialized
  <2>1. CASE x = a
    <3>1. Cardinality(Minted(a)') = Cardinality(Minted(a)) + 1 /\ Cardinality(Minted(a)) \in Nat
      BY <1>4, FS_AddElement, FS_CardinalityType
    <3>2. amount[a] = mintAmount * Cardinality(Minted(a))
      BY <1>5 DEF Circulation, AmountsAreMints, Token!Initialized
    <3>3. Minted(x)' = Minted(a)'
      BY <2>1
    <3>4. Cardinality(Minted(x)') = Cardinality(Minted(a)) + 1
      BY <3>1, <3>3
    <3>5. mintAmount * (Cardinality(Minted(a)) + 1) = mintAmount * Cardinality(Minted(a)) + mintAmount
      BY <1>5, <3>1
    <3> QED BY <1>5, <2>1, <3>2, <3>4, <3>5
  <2>2. CASE x # a
    BY <1>4, <1>5, <2>2 DEF Circulation, AmountsAreMints, Token!Initialized
  <2> QED BY <2>1, <2>2
<1>8. \A k \in DOMAIN requests' : MintedBy(k)' => requests'[k].of.account \in DOMAIN amount'
  <2> SUFFICES ASSUME NEW k \in DOMAIN requests', MintedBy(k)'
               PROVE  requests'[k].of.account \in DOMAIN amount'
    OBVIOUS
  <2>1. CASE k = id
    BY <1>2, <1>5, <2>1
  <2>2. CASE k # id
    BY <1>1, <1>5, <2>2 DEF Circulation, MintedBy, Token!Initialized
  <2> QED BY <2>1, <2>2
<1>9. Circulation'
  BY <1>6, <1>7, <1>8 DEF Circulation, MintedBy, Token!Initialized
<1>10. Custody'
  BY DEF Custody, Total
<1> QED BY <1>1, <1>9, <1>10

\* The tokens a run moves are moved whole, and the accounts frozen as they were.
LEMMA MoveLands ==
  ASSUME ScriptInv, NEW id \in DOMAIN requests, requests[id].of.kind = "move",
         Executed(id, TRUE), Moved(requests[id].of.by).ok,
         holding' = Moved(requests[id].of.by).holding, UNCHANGED <<simple_token, scripts>>
  PROVE  ScriptInv'
<1> USE DEF ScriptInv
<1>1. /\ Shape' /\ requests[id].fate = "broadcast"
      /\ DOMAIN requests' = DOMAIN requests
      /\ requests'[id].of = requests[id].of
      /\ \A k \in DOMAIN requests \ {id} : requests'[k] = requests[k]
  BY Landing
<1>2. Circulation'
  <2>1. /\ \A k \in DOMAIN requests' : MintedBy(k)' =>
             MintedBy(k) /\ requests'[k].of = requests[k].of
        /\ \A k \in DOMAIN requests : MintedBy(k) =>
             MintedBy(k)' /\ requests'[k].of = requests[k].of
    BY <1>1, SameMints
  <2> QED BY <1>1, <2>1, NoMint DEF simple_token
<1>3. Custody'
  <2> DEFINE v == requests[id].of.by
             src == move[v].source
             dst == move[v].destination
             n == move[v].amount
  <2>1. v \in Mover
    BY Content
  <2>2. src \in DOMAIN Supply /\ dst \in DOMAIN Supply /\ n \in Nat
    BY <2>1, ScriptAssumption
  <2>3. /\ Outcome(holding, thawTransferFreeze(src, dst, n)).ok
        /\ holding' = Outcome(holding, thawTransferFreeze(src, dst, n)).holding
    BY DEF Moved
  <2>4. holding \in [DOMAIN Supply -> Holding] /\ IsFiniteSet(DOMAIN Supply)
    BY ScriptAssumption DEF Custody
  <2> HIDE DEF src, dst, n
  <2>5. /\ holding' \in [DOMAIN Supply -> Holding]
        /\ \A a \in DOMAIN Supply : holding'[a].frozen = holding[a].frozen
    BY <2>2, <2>3, <2>4, TransferEffect
  <2>6. Holdings(DOMAIN Supply, holding') = Holdings(DOMAIN Supply, holding)
    BY <2>2, <2>3, <2>4, TransferTotal
  <2> QED BY <2>5, <2>6 DEF Custody, Total, Holdings
<1> QED BY <1>1, <1>2, <1>3

\* A transaction that is refused changes nothing.
LEMMA RefusalLands ==
  ASSUME ScriptInv, NEW id \in DOMAIN requests, Executed(id, FALSE),
         UNCHANGED <<token, scripts>>
  PROVE  ScriptInv'
<1> USE DEF ScriptInv
<1>1. /\ Shape' /\ requests[id].fate = "broadcast" /\ requests'[id].fate = "failed"
      /\ DOMAIN requests' = DOMAIN requests
      /\ requests'[id].of = requests[id].of
      /\ \A k \in DOMAIN requests \ {id} : requests'[k] = requests[k]
  BY Landing
<1>2. Circulation'
  <2>1. /\ \A k \in DOMAIN requests' : MintedBy(k)' =>
             MintedBy(k) /\ requests'[k].of = requests[k].of
        /\ \A k \in DOMAIN requests : MintedBy(k) =>
             MintedBy(k)' /\ requests'[k].of = requests[k].of
    BY <1>1, SameMints
  <2> QED BY <1>1, <2>1, NoMint DEF token, simple_token
<1>3. Custody'
  BY DEF Custody, Total, token
<1> QED BY <1>1, <1>2, <1>3

LEMMA LandingKeeps ==
  ASSUME ScriptInv, NEW id \in DOMAIN requests, Land(id)
  PROVE  ScriptInv'
<1>1. ASSUME Execute(requests[id].of), Executed(id, TRUE) PROVE ScriptInv'
  BY <1>1, InitializeLands, MintLands, MoveLands DEF Execute, Land, simple_token
<1>2. ASSUME Refuse(requests[id].of), Executed(id, FALSE) PROVE ScriptInv'
  BY <1>2, RefusalLands DEF Refuse, Land
<1> QED BY <1>1, <1>2 DEF Land

-----------------------------------------------------------------------------
(* Theorems                                                                *)

LEMMA InitInv == Init => ScriptInv
<1> SUFFICES ASSUME Init PROVE ScriptInv
  OBVIOUS
<1>1. Shape
  BY DEF Init, Shape, Label, Process
<1>2. Circulation
  <2>1. amount = [a \in {} |-> 0] /\ minted = 0 /\ burned = 0 /\ doubled = 0 /\ requests = << >>
    BY DEF Init, Token!Init
  <2>2. DOMAIN amount = {} /\ amount \in [{} -> 0..MaxAmount] /\ DOMAIN requests = {}
    BY <2>1
  <2> QED BY <2>1, <2>2 DEF Circulation, Token!TypeOK, Token!Initialized, AmountsAreMints
<1>3. Custody
  BY ScriptAssumption DEF Init, Custody
<1> QED BY <1>1, <1>2, <1>3 DEF ScriptInv

\* Every step keeps the invariant.
LEMMA NextInv == ScriptInv /\ [Next]_vars => ScriptInv'
<1> SUFFICES ASSUME ScriptInv, [Next]_vars PROVE ScriptInv'
  OBVIOUS
<1>1. ASSUME NEW r \in Run, Save(r) \/ InitializeByAnchor(r) \/ InitializeManually(r)
      PROVE  ScriptInv'
  BY <1>1, Saving, Initializing
<1>2. ASSUME NEW m \in Minter, Read(m) \/ Mint(m) PROVE ScriptInv'
  BY <1>2, Reading, Minting
<1>3. ASSUME NEW id \in DOMAIN requests, Decide(id), UNCHANGED <<token, scripts>>
      PROVE  ScriptInv'
  BY <1>3, Deciding
<1>4. CASE UNCHANGED vars
  <2>1. Shape'
    BY <1>4 DEF ScriptInv, Shape, vars, scripts
  <2> QED BY <1>4, <2>1, Alone DEF vars
<1> QED BY <1>1, <1>2, <1>3, <1>4, Moving, Failing, LandingKeeps DEF Next

LEMMA ScriptInvariant == Spec => []ScriptInv
BY InitInv, NextInv, PTL DEF Spec

\* No account of simple_token leaves the range of a u64, and the scripts submit only
\* transactions for accounts they generated or were given, however many runs there are.
THEOREM ScriptsTypeCorrect == Spec => []TypeOK
<1>1. ScriptInv => TypeOK
  <2> SUFFICES ASSUME ScriptInv PROVE TypeOK
    OBVIOUS
  <2>1. Targets \subseteq Account
    BY ScriptAssumption DEF Targets
  <2>2. /\ file \in Account \cup {None} /\ target \in [Minter -> Account \cup {None}]
    BY <2>1 DEF ScriptInv, Shape
  <2>3. ASSUME NEW id \in DOMAIN requests
        PROVE  /\ requests[id].fate \in Fate
               /\ requests[id].of.account \in Targets \cup {move[v].source : v \in Mover}
    <3>1. requests[id] \in InFlight
      <4>1. requests \in Seq(InFlight)
        BY DEF ScriptInv, Shape, InFlight
      <4> QED BY <4>1
    <3>2. requests[id].of \in Requested /\ requests[id].fate \in Fate
      BY <3>1 DEF InFlight
    <3> QED BY <3>2 DEF Requested, Tx
  <2> QED BY <2>2, <2>3 DEF ScriptInv, Circulation, Custody, TypeOK, Targets
<1> QED BY <1>1, ScriptInvariant, PTL

\* Whatever order the transactions of any number of runs land in, an account holds what
\* the mints that took effect on it made: initialising it again takes none of them back.
THEOREM MintsAddUp == Spec => []AmountsAreMints
<1>1. ScriptInv => AmountsAreMints
  BY DEF ScriptInv, Circulation
<1> QED BY <1>1, ScriptInvariant, PTL

\* Any number of runs move tokens between any accounts: what was frozen is frozen when
\* nothing executes, and no token is made or lost.
THEOREM FrozenKept == Spec => []KeptFrozen
<1>1. ScriptInv => KeptFrozen
  BY DEF ScriptInv, Custody, KeptFrozen
<1> QED BY <1>1, ScriptInvariant, PTL
=============================================================================
