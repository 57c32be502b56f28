---------------------------- MODULE Client_proofs ---------------------------
(***************************************************************************)
(* Theorems about the client side: the functions that build the loader's   *)
(* instructions, the adapter that submits the scripts' transactions, and   *)
(* the sizes deploy.ts computes.  For any keys, programs, lengths and      *)
(* contents, any signers, any number of retries, any statuses Fireblocks   *)
(* may end a request with that the code does not name.                     *)
(***************************************************************************)
EXTENDS LoaderClient, FireblocksAdapter, DeploySizes, LoaderInstructions_proofs

-----------------------------------------------------------------------------
(* Transactions of no, one or two instructions                             *)

\* A transaction that has gone well so far, and one that has failed.
Going(as) == [ok |-> TRUE, as |-> as]
Failed(as) == [ok |-> FALSE, as |-> as]

LEMMA Fields == \A as : Going(as).ok /\ Going(as).as = as /\ ~Failed(as).ok
BY DEF Going, Failed

\* The last of some of the numbers 1 and 2.
LEMMA Greatest ==
  ASSUME NEW s \in SUBSET {1, 2}, s # {}
  PROVE  Max(s) = IF 2 \in s THEN 2 ELSE 1
<1> DEFINE m == IF 2 \in s THEN 2 ELSE 1
<1>1. m \in s /\ \A y \in s : m >= y
  <2>1. \A y \in s : y = 1 \/ y = 2
    OBVIOUS
  <2>2. 1 \in s \/ 2 \in s
    BY <2>1
  <2> QED BY <2>1, <2>2
<1>2. ASSUME NEW x \in s, \A y \in s : x >= y PROVE x = m
  BY <1>2
<1> HIDE DEF m
<1>3. Max(s) = m
  BY <1>1, <1>2 DEF Max
<1> QED BY <1>3 DEF m

\* The outcome of a record update, whatever is in it.
LEMMA Updates ==
  /\ \A m, n : [Going(m) EXCEPT !.as = n] = Going(n)
  /\ \A m : [Going(m) EXCEPT !.ok = FALSE] = Failed(m)
  /\ \A m : [Failed(m) EXCEPT !.ok = FALSE] = Failed(m)
<1> DEFINE yes == TRUE
           no == FALSE
<1> HIDE DEF yes, no
<1>1. ASSUME NEW z, NEW k, NEW m, NEW r \in [ok : {z}, as : {m}]
      PROVE  [r EXCEPT !.as = k] = [ok |-> z, as |-> k]
  BY SMT
<1>2. ASSUME NEW z, NEW k, NEW m, NEW r \in [ok : {z}, as : {m}]
      PROVE  [r EXCEPT !.ok = k] = [ok |-> k, as |-> m]
  BY SMT
<1>3. \A m, z : [ok |-> z, as |-> m] \in [ok : {z}, as : {m}]
  BY SMT
<1>4. \A m, n : [[ok |-> yes, as |-> m] EXCEPT !.as = n] = [ok |-> yes, as |-> n]
  BY <1>1, <1>3, Zenon
<1>5. \A m, z : [[ok |-> z, as |-> m] EXCEPT !.ok = no] = [ok |-> no, as |-> m]
  BY <1>2, <1>3, Zenon
<1> QED BY <1>4, <1>5, Zenon DEF yes, no, Going, Failed

\* What a step makes of a transaction that has gone well.
Goes(by, w, as, x, n) == Step(by, w, Going(as), x) = Going(n)

\* A step goes on when its instruction executes,
LEMMA StepGoes ==
  ASSUME NEW by, NEW w, NEW as, NEW x, Executes(as, by, w, x)
  PROVE  Goes(by, w, as, x, After(as, x))
BY Updates, Fields, Zenon DEF Step, Goes

\* fails when it does not,
LEMMA StepStops ==
  ASSUME NEW by, NEW w, NEW as, NEW x, ~Executes(as, by, w, x)
  PROVE  Step(by, w, Going(as), x) = Failed(as)
BY Updates, Fields, Zenon DEF Step

\* and leaves a transaction that has failed.
LEMMA StepFailed ==
  ASSUME NEW by, NEW w, NEW as, NEW x
  PROVE  Step(by, w, Failed(as), x) = Failed(as)
BY Updates, Fields, Zenon DEF Step

LEMMA NoSteps ==
  ASSUME NEW as, NEW by, NEW w
  PROVE  RunOn(as, by, w, << >>) = [ok |-> TRUE, as |-> as]
<1> DEFINE start == [ok |-> TRUE, as |-> as]
           IsFold(g) == g = [s \in SUBSET {} |-> IF s = {} THEN start
                               ELSE Step(by, w, g[s \ {Max(s)}], << >>[Max(s)])]
           fold == CHOOSE g : IsFold(g)
<1>1. DOMAIN << >> = {}
  OBVIOUS
<1>2. RunOn(as, by, w, << >>) = fold[{}]
  BY <1>1, Zenon DEF RunOn, FoldLeft, MapThenFoldSet
<1>3. IsFold([s \in SUBSET {} |-> start])
  <2>1. \A s \in SUBSET {} : s = {}
    OBVIOUS
  <2> QED BY <2>1
<1>4. IsFold(fold)
  <2> HIDE DEF IsFold
  <2> QED BY <1>3, Zenon
<1> HIDE DEF fold
<1>5. fold[{}] = start
  BY <1>4
<1> QED BY <1>2, <1>5

\* A transaction of one instruction takes effect when the instruction executes.
LEMMA RunOne ==
  ASSUME NEW as, NEW by, NEW w, NEW x
  PROVE  /\ RunOn(as, by, w, <<x>>).ok <=> Executes(as, by, w, x)
         /\ Executes(as, by, w, x) => RunOn(as, by, w, <<x>>).as = After(as, x)
<1> DEFINE start == [ok |-> TRUE, as |-> as]
           list == <<x>>
           first(s) == IF 1 \in s THEN Step(by, w, start, x) ELSE start
           IsFold(g) == g = [s \in SUBSET {1} |-> IF s = {} THEN start
                               ELSE Step(by, w, g[s \ {Max(s)}], list[Max(s)])]
           f == [s \in SUBSET {1} |-> first(s)]
           fold == CHOOSE g : IsFold(g)
<1>1. DOMAIN list = {1}
  OBVIOUS
<1>2. RunOn(as, by, w, list) = fold[{1}]
  BY <1>1, Zenon DEF RunOn, FoldLeft, MapThenFoldSet
<1>3. IsFold(f)
  <2>1. ASSUME NEW s \in SUBSET {1}, s # {}
        PROVE  f[s] = Step(by, w, f[s \ {Max(s)}], list[Max(s)])
    <3>1. s = {1} /\ Max(s) = 1
      BY <2>1, Greatest
    <3> QED BY <3>1
  <2>2. f[{}] = start
    OBVIOUS
  <2>3. f = [s \in SUBSET {1} |-> f[s]]
    OBVIOUS
  <2> HIDE DEF f
  <2> QED BY <2>1, <2>2, <2>3
<1>4. IsFold(fold)
  <2> HIDE DEF IsFold
  <2> QED BY <1>3, Zenon
<1> HIDE DEF fold
<1>5. /\ fold[{}] = start
      /\ \A s \in SUBSET {1} :
           s # {} => fold[s] = Step(by, w, fold[s \ {Max(s)}], list[Max(s)])
  BY <1>4
<1>6. fold[{1}] = Step(by, w, fold[{}], x)
  <2>1. {1} \ {1} = {} /\ Max({1}) = 1 /\ list[1] = x
    BY Greatest
  <2> HIDE DEF list
  <2> QED BY <1>5, <2>1
<1>7. RunOn(as, by, w, list) = Step(by, w, Going(as), x)
  BY <1>2, <1>5, <1>6 DEF Going
<1> HIDE DEF list
<1>8. /\ RunOn(as, by, w, list).ok <=> Executes(as, by, w, x)
      /\ Executes(as, by, w, x) => RunOn(as, by, w, list).as = After(as, x)
  <2>1. CASE Executes(as, by, w, x)
    <3>1. Goes(by, w, as, x, After(as, x))
      BY <2>1, StepGoes, Zenon
    <3>2. RunOn(as, by, w, list) = Going(After(as, x))
      BY <1>7, <3>1, Zenon DEF Goes
    <3> QED BY <2>1, <3>2, Fields, Zenon
  <2>2. CASE ~Executes(as, by, w, x)
    <3>1. RunOn(as, by, w, list) = Failed(as)
      BY <1>7, <2>2, StepStops, Zenon
    <3> QED BY <2>2, <3>1, Fields, Zenon
  <2> QED BY <2>1, <2>2, Zenon
<1> QED BY <1>8 DEF list

\* The accounts an instruction leaves.
Leaves(as, x, mid) == mid = After(as, x)

\* One of two when the second executes on what the first leaves.
Both(as, by, w, x, y, mid) ==
  /\ RunOn(as, by, w, <<x, y>>).ok <=> Executes(as, by, w, x) /\ Executes(mid, by, w, y)
  /\ RunOn(as, by, w, <<x, y>>).ok => RunOn(as, by, w, <<x, y>>).as = After(mid, y)

LEMMA RunTwo ==
  ASSUME NEW as, NEW by, NEW w, NEW x, NEW y, NEW mid, Leaves(as, x, mid)
  PROVE  Both(as, by, w, x, y, mid)
<1> DEFINE start == [ok |-> TRUE, as |-> as]
           list == <<x, y>>
           first(s) == IF 1 \in s THEN Step(by, w, start, x) ELSE start
           second(s) == IF 2 \in s THEN Step(by, w, first(s), y) ELSE first(s)
           IsFold(g) == g = [s \in SUBSET {1, 2} |-> IF s = {} THEN start
                               ELSE Step(by, w, g[s \ {Max(s)}], list[Max(s)])]
           f == [s \in SUBSET {1, 2} |-> second(s)]
           fold == CHOOSE g : IsFold(g)
<1>1. DOMAIN list = {1, 2}
  OBVIOUS
<1>2. RunOn(as, by, w, list) = fold[{1, 2}]
  BY <1>1, Zenon DEF RunOn, FoldLeft, MapThenFoldSet
<1>3. IsFold(f)
  <2>1. ASSUME NEW s \in SUBSET {1, 2}, s # {}
        PROVE  f[s] = Step(by, w, f[s \ {Max(s)}], list[Max(s)])
    <3>1. CASE 2 \in s
      <4>1. Max(s) = 2 /\ second(s \ {2}) = first(s)
        BY <3>1, Greatest
      <4> QED BY <3>1, <4>1
    <3>2. CASE 2 \notin s
      <4>1. s = {1}
        BY <2>1, <3>2
      <4>2. Max(s) = 1
        BY <4>1, Greatest
      <4> QED BY <4>1, <4>2
    <3> QED BY <3>1, <3>2
  <2>2. f[{}] = start
    OBVIOUS
  <2>3. f = [s \in SUBSET {1, 2} |-> f[s]]
    OBVIOUS
  <2> HIDE DEF f
  <2> QED BY <2>1, <2>2, <2>3
<1>4. IsFold(fold)
  <2> HIDE DEF IsFold
  <2> QED BY <1>3, Zenon
<1> HIDE DEF fold
<1>5. /\ fold[{}] = start
      /\ \A s \in SUBSET {1, 2} :
           s # {} => fold[s] = Step(by, w, fold[s \ {Max(s)}], list[Max(s)])
  BY <1>4
<1>6. /\ fold[{1}] = Step(by, w, fold[{}], x) /\ fold[{1, 2}] = Step(by, w, fold[{1}], y)
  <2>1. /\ {1} \ {1} = {} /\ {1, 2} \ {2} = {1} /\ Max({1}) = 1 /\ Max({1, 2}) = 2
    BY Greatest
  <2>2. list[1] = x /\ list[2] = y
    OBVIOUS
  <2> HIDE DEF list
  <2> QED BY <1>5, <2>1, <2>2
<1>7. PICK r : r = Step(by, w, Going(as), x) /\ RunOn(as, by, w, list) = Step(by, w, r, y)
  BY <1>2, <1>5, <1>6, Zenon DEF Going
<1> HIDE DEF list
<1>8. CASE Executes(as, by, w, x)
  <2>1. r = Going(mid)
    <3>1. Goes(by, w, as, x, After(as, x))
      BY <1>8, StepGoes, Zenon
    <3> QED BY <1>7, <3>1, Zenon DEF Goes, Leaves
  <2>2. RunOn(as, by, w, list) = Step(by, w, Going(mid), y)
    BY <1>7, <2>1, Zenon
  <2>3. CASE Executes(mid, by, w, y)
    <3>1. Goes(by, w, mid, y, After(mid, y))
      BY <2>3, StepGoes, Zenon
    <3>2. RunOn(as, by, w, list) = Going(After(mid, y))
      BY <2>2, <3>1, Zenon DEF Goes
    <3> QED BY <1>8, <2>3, <3>2, Fields, Zenon DEF list, Both
  <2>4. CASE ~Executes(mid, by, w, y)
    <3>1. Step(by, w, Going(mid), y) = Failed(mid)
      BY <2>4, StepStops
    <3>2. RunOn(as, by, w, list) = Failed(mid)
      BY <2>2, <3>1, Zenon
    <3> QED BY <1>8, <2>4, <3>2, Fields, Zenon DEF list, Both
  <2> QED BY <2>3, <2>4, Zenon
<1>9. CASE ~Executes(as, by, w, x)
  <2>1. r = Failed(as)
    <3>1. Step(by, w, Going(as), x) = Failed(as)
      BY <1>9, StepStops
    <3> QED BY <1>7, <3>1, Zenon
  <2>2. RunOn(as, by, w, list) = Step(by, w, Failed(as), y)
    BY <1>7, <2>1, Zenon
  <2>3. RunOn(as, by, w, list) = Failed(as)
    BY <2>2, StepFailed, Zenon
  <2> QED BY <1>9, <2>3, Fields, Zenon DEF list, Both
<1> QED BY <1>8, <1>9, Zenon
-----------------------------------------------------------------------------
(* The encoding of instructions                                            *)

\* Each arm of the loader is reached by the encoding of its variant, which is the one
\* deploy.ts writes by hand.
LEMMA Arm ==
  ASSUME NEW n \in 1..8, NEW fields
  PROVE  serialize(UpgradeableLoaderInstruction[n], fields) = [index |-> n - 1, fields |-> fields]
<1>1. DOMAIN UpgradeableLoaderInstruction = 1..8
  BY DEF UpgradeableLoaderInstruction
<1>2. \A m \in 1..8 : UpgradeableLoaderInstruction[m] = UpgradeableLoaderInstruction[n] => m = n
  BY DEF UpgradeableLoaderInstruction
<1> QED BY <1>1, <1>2 DEF serialize

LEMMA Variants ==
  /\ UpgradeableLoaderInstruction[1] = "InitializeBuffer"
  /\ UpgradeableLoaderInstruction[2] = "Write"
  /\ UpgradeableLoaderInstruction[3] = "DeployWithMaxDataLen"
  /\ UpgradeableLoaderInstruction[4] = "Upgrade"
  /\ UpgradeableLoaderInstruction[5] = "SetAuthority"
  /\ UpgradeableLoaderInstruction[6] = "Close"
  /\ UpgradeableLoaderInstruction[7] = "ExtendProgram"
  /\ UpgradeableLoaderInstruction[8] = "SetAuthorityChecked"
BY DEF UpgradeableLoaderInstruction

LEMMA Wire ==
  ASSUME NEW fields
  PROVE  /\ serialize("InitializeBuffer", fields) = [index |-> 0, fields |-> fields]
         /\ serialize("Write", fields) = [index |-> 1, fields |-> fields]
         /\ serialize("DeployWithMaxDataLen", fields) = [index |-> 2, fields |-> fields]
         /\ serialize("Upgrade", fields) = [index |-> 3, fields |-> fields]
         /\ serialize("SetAuthority", fields) = [index |-> 4, fields |-> fields]
         /\ serialize("Close", fields) = [index |-> 5, fields |-> fields]
         /\ serialize("ExtendProgram", fields) = [index |-> 6, fields |-> fields]
         /\ serialize("SetAuthorityChecked", fields) = [index |-> 7, fields |-> fields]
<1>2. \A n \in 1..8 : serialize(UpgradeableLoaderInstruction[n], fields)
                       = [index |-> n - 1, fields |-> fields]
  BY Arm
<1>3. 1 \in 1..8 /\ 2 \in 1..8 /\ 3 \in 1..8 /\ 4 \in 1..8 /\ 5 \in 1..8 /\ 6 \in 1..8
        /\ 7 \in 1..8 /\ 8 \in 1..8
        /\ 1-1 = 0 /\ 2-1 = 1 /\ 3-1 = 2 /\ 4-1 = 3 /\ 5-1 = 4 /\ 6-1 = 5 /\ 7-1 = 6 /\ 8-1 = 7
  OBVIOUS
<1> QED BY Variants, <1>2, <1>3

\* What the loader takes an instruction of the library for.
LEMMA Understood ==
  ASSUME NEW fields, NEW metas
  PROVE  /\ Operation(new_with_bincode("InitializeBuffer", fields, metas)) = "InitializeBuffer"
         /\ Operation(new_with_bincode("Write", fields, metas)) = "Write"
         /\ Operation(new_with_bincode("DeployWithMaxDataLen", fields, metas))
              = "DeployWithMaxDataLen"
         /\ Operation(new_with_bincode("Upgrade", fields, metas)) = "Upgrade"
         /\ Operation(new_with_bincode("SetAuthority", fields, metas)) = "SetAuthority"
         /\ Operation(new_with_bincode("Close", fields, metas)) = "Close"
         /\ Operation(new_with_bincode("ExtendProgram", fields, metas))
              = "InvalidInstructionData"
         /\ Operation(new_with_bincode("SetAuthorityChecked", fields, metas))
              = "InvalidInstructionData"
<1> DEFINE data(n) == [index |-> n, fields |-> fields]
           takes(n) == Operation(Instruction("loader", data(n), metas))
<1>1. ASSUME NEW n \in 0..7
      PROVE  takes(n) = IF n < 6 THEN UpgradeableLoaderInstruction[n + 1]
                        ELSE "InvalidInstructionData"
  BY DEF Operation, Instruction, limited_deserialize, Arms
<1> HIDE DEF takes
<1>2. /\ takes(0) = "InitializeBuffer" /\ takes(1) = "Write"
      /\ takes(2) = "DeployWithMaxDataLen" /\ takes(3) = "Upgrade"
      /\ takes(4) = "SetAuthority" /\ takes(5) = "Close"
      /\ takes(6) = "InvalidInstructionData" /\ takes(7) = "InvalidInstructionData"
  BY <1>1, Variants
<1> QED BY <1>2, Wire, Zenon DEF new_with_bincode, takes

\* The flags of a meta.
LEMMA Flags ==
  \A k : /\ New(k, TRUE).key = k /\ New(k, TRUE).signer /\ New(k, TRUE).writable
         /\ New(k, FALSE).key = k /\ ~New(k, FALSE).signer /\ New(k, FALSE).writable
         /\ NewReadonly(k, TRUE).key = k /\ NewReadonly(k, TRUE).signer
         /\ ~NewReadonly(k, TRUE).writable
         /\ NewReadonly(k, FALSE).key = k /\ ~NewReadonly(k, FALSE).signer
         /\ ~NewReadonly(k, FALSE).writable
BY Zenon DEF New, NewReadonly

\* The keys and the metas of one instruction.
LEMMA MetasOf ==
  ASSUME NEW x
  PROVE  Metas(<<x>>) = ToSet(x.metas)
<1>1. ToSet(<<x>>) = {x}
  BY DEF ToSet
<1> QED BY <1>1 DEF Metas

LEMMA MetasOfTwo ==
  ASSUME NEW x, NEW y
  PROVE  Metas(<<x, y>>) = ToSet(x.metas) \cup ToSet(y.metas)
<1>1. ToSet(<<x, y>>) = {x, y}
  BY DEF ToSet
<1> QED BY <1>1 DEF Metas

LEMMA ListOfTwo ==
  ASSUME NEW m1, NEW m2
  PROVE  ToSet(<<m1, m2>>) = {m1, m2}
BY DEF ToSet

LEMMA ListOfThree ==
  ASSUME NEW m1, NEW m2, NEW m3
  PROVE  ToSet(<<m1, m2, m3>>) = {m1, m2, m3}
BY DEF ToSet

LEMMA ListOfFour ==
  ASSUME NEW m1, NEW m2, NEW m3, NEW m4
  PROVE  ToSet(<<m1, m2, m3, m4>>) = {m1, m2, m3, m4}
BY DEF ToSet

LEMMA ListOfSeven ==
  ASSUME NEW m1, NEW m2, NEW m3, NEW m4, NEW m5, NEW m6, NEW m7
  PROVE  ToSet(<<m1, m2, m3, m4, m5, m6, m7>>) = {m1, m2, m3, m4, m5, m6, m7}
BY DEF ToSet

LEMMA ListOfEight ==
  ASSUME NEW m1, NEW m2, NEW m3, NEW m4, NEW m5, NEW m6, NEW m7, NEW m8
  PROVE  ToSet(<<m1, m2, m3, m4, m5, m6, m7, m8>>) = {m1, m2, m3, m4, m5, m6, m7, m8}
BY DEF ToSet

\* A transaction is signed by the accounts flagged so, and locks those flagged writable.
LEMMA Flagged ==
  ASSUME NEW x
  PROVE  /\ \A k : k \in Signing(<<x>>) <=> \E m \in ToSet(x.metas) : m.signer /\ m.key = k
         /\ \A k : k \in Writable(<<x>>) <=> \E m \in ToSet(x.metas) : m.writable /\ m.key = k
BY MetasOf, Zenon DEF Signing, Writable

\* The parts of an instruction.
LEMMA Parts ==
  ASSUME NEW variant, NEW fields, NEW metas
  PROVE  /\ new_with_bincode(variant, fields, metas).metas = metas
         /\ new_with_bincode(variant, fields, metas).data.fields = fields
BY DEF new_with_bincode, Instruction, serialize

\* What the runtime asks of the accounts that are not locked for writing.
Locked(as, new, w) == \A a \in Address : new[a] # as[a] => a \in w

-----------------------------------------------------------------------------
(* What each transaction of the library asks, and what it does             *)
\* Each arm makes the checks of its instruction, over the accounts it finds,
LEMMA Checks ==
  ASSUME NEW x, NEW as, NEW by, NEW w
  PROVE  /\ Operation(x) = "InitializeBuffer" =>
              (Can(as, by, w, x) <=> At(x, 1) # None /\ CanInitializeBuffer(as, At(x, 0)))
         /\ Operation(x) = "Write" =>
              (Can(as, by, w, x) <=> CanWrite(as, by, At(x, 0), At(x, 1), x.data.fields.offset,
                                              x.data.fields.bytes))
         /\ Operation(x) = "DeployWithMaxDataLen" =>
              (Can(as, by, w, x) <=>
                 /\ At(x, 4) = rent /\ At(x, 5) = clock
                 /\ \E m \in ToSet(x.metas) : m.key = system_program
                 /\ CanDeploy(as, by, At(x, 0), At(x, 1), At(x, 2), At(x, 3), At(x, 7),
                              x.data.fields.max_data_len))
         /\ Operation(x) = "Upgrade" =>
              (Can(as, by, w, x) <=>
                 /\ At(x, 4) = rent /\ At(x, 5) = clock /\ At(x, 1) \in w
                 /\ CanUpgrade(as, by, At(x, 0), At(x, 1), At(x, 2), At(x, 3), At(x, 6)))
         /\ Operation(x) = "SetAuthority" =>
              (Can(as, by, w, x) <=> CanSetAuthority(as, by, At(x, 0), At(x, 1), At(x, 2)))
         /\ Operation(x) = "Close" =>
              (Can(as, by, w, x) <=>
                 /\ Holds(as[At(x, 0)], "ProgramData") => At(x, 3) \in w
                 /\ CanClose(as, by, At(x, 0), At(x, 1), At(x, 2), At(x, 3)))
         /\ Operation(x) = "CreateAccount" =>
              (Can(as, by, w, x) <=>
                 CanCreateAccount(as, by, At(x, 0), At(x, 1), x.data.fields.lamports))
         /\ Operation(x) = "InvalidInstructionData" => ~Can(as, by, w, x)
BY DEF Can

\* and has the effect of its instruction.
LEMMA Effects ==
  ASSUME NEW x, NEW as
  PROVE  /\ Operation(x) = "InitializeBuffer" =>
              After(as, x) = AfterInitializeBuffer(as, At(x, 0), At(x, 1))
         /\ Operation(x) = "Write" =>
              After(as, x) = AfterWrite(as, At(x, 0), x.data.fields.offset, x.data.fields.bytes)
         /\ Operation(x) = "DeployWithMaxDataLen" =>
              After(as, x) = AfterDeploy(as, At(x, 0), At(x, 1), At(x, 2), At(x, 3), At(x, 7),
                                         x.data.fields.max_data_len, 0)
         /\ Operation(x) = "Upgrade" =>
              After(as, x) = AfterUpgrade(as, At(x, 0), At(x, 2), At(x, 3), At(x, 6), 0)
         /\ Operation(x) = "SetAuthority" =>
              After(as, x) = AfterSetAuthority(as, At(x, 0), At(x, 2))
         /\ Operation(x) = "Close" => After(as, x) = AfterClose(as, At(x, 0), At(x, 1))
         /\ Operation(x) = "CreateAccount" =>
              After(as, x) = AfterCreateAccount(as, At(x, 0), At(x, 1), x.data.fields.lamports,
                                                x.data.fields.space)
BY DEF After

-----------------------------------------------------------------------------
(* What each transaction of the library asks, and what it does             *)

\* A transaction of one instruction.
LEMMA Runs ==
  ASSUME NEW x, NEW as, NEW by, NEW w
  PROVE  /\ RunOn(as, by, w, <<x>>).ok <=> Can(as, by, w, x) /\ Locked(as, After(as, x), w)
         /\ RunOn(as, by, w, <<x>>).ok => RunOn(as, by, w, <<x>>).as = After(as, x)
<1>1. Executes(as, by, w, x) <=> Can(as, by, w, x) /\ Locked(as, After(as, x), w)
  BY Zenon DEF Executes, Locked
<1>2. /\ RunOn(as, by, w, <<x>>).ok <=> Executes(as, by, w, x)
      /\ Executes(as, by, w, x) => RunOn(as, by, w, <<x>>).as = After(as, x)
  BY RunOne
<1> QED BY <1>1, <1>2, Zenon

\* The accounts of an instruction by their positions.
LEMMA PlacesOfTwo ==
  ASSUME NEW x, NEW m1, NEW m2,
         x.metas = <<m1, m2>>
  PROVE  /\ At(x, 0) = m1.key
         /\ At(x, 1) = m2.key
         /\ At(x, 2) = None
         /\ At(x, 3) = None
BY DEF At

LEMMA PlacesOfThree ==
  ASSUME NEW x, NEW m1, NEW m2, NEW m3,
         x.metas = <<m1, m2, m3>>
  PROVE  /\ At(x, 0) = m1.key
         /\ At(x, 1) = m2.key
         /\ At(x, 2) = m3.key
         /\ At(x, 3) = None
BY DEF At

LEMMA PlacesOfFour ==
  ASSUME NEW x, NEW m1, NEW m2, NEW m3, NEW m4,
         x.metas = <<m1, m2, m3, m4>>
  PROVE  /\ At(x, 0) = m1.key
         /\ At(x, 1) = m2.key
         /\ At(x, 2) = m3.key
         /\ At(x, 3) = m4.key
BY DEF At

LEMMA PlacesOfSeven ==
  ASSUME NEW x, NEW m1, NEW m2, NEW m3, NEW m4, NEW m5, NEW m6, NEW m7,
         x.metas = <<m1, m2, m3, m4, m5, m6, m7>>
  PROVE  /\ At(x, 0) = m1.key
         /\ At(x, 1) = m2.key
         /\ At(x, 2) = m3.key
         /\ At(x, 3) = m4.key
         /\ At(x, 4) = m5.key
         /\ At(x, 5) = m6.key
         /\ At(x, 6) = m7.key
BY DEF At

LEMMA PlacesOfEight ==
  ASSUME NEW x, NEW m1, NEW m2, NEW m3, NEW m4, NEW m5, NEW m6, NEW m7, NEW m8,
         x.metas = <<m1, m2, m3, m4, m5, m6, m7, m8>>
  PROVE  /\ At(x, 0) = m1.key
         /\ At(x, 1) = m2.key
         /\ At(x, 2) = m3.key
         /\ At(x, 3) = m4.key
         /\ At(x, 4) = m5.key
         /\ At(x, 5) = m6.key
         /\ At(x, 6) = m7.key
         /\ At(x, 7) = m8.key
BY DEF At

\* What filling a buffer asks and does.
Fills(list, b, k, n, c) ==
  /\ Signing(list) = {k} /\ Writable(list) = {b}
  /\ \A as, by, w :
       /\ RunOn(as, by, w, list).ok <=>
            CanWrite(as, by, b, k, n, c) /\ Locked(as, AfterWrite(as, b, n, c), w)
       /\ RunOn(as, by, w, list).ok => RunOn(as, by, w, list).as = AfterWrite(as, b, n, c)

LEMMA WriteRuns ==
  ASSUME NEW b, NEW k, NEW n, NEW c
  PROVE  Fills(write(b, k, n, c), b, k, n, c)
<1> DEFINE args == [offset |-> n, bytes |-> c]
           m1 == New(b, FALSE)
           m2 == NewReadonly(k, TRUE)
           metas == <<m1, m2>>
           x == new_with_bincode("Write", args, metas)
<1>1. write(b, k, n, c) = <<x>>
  BY Zenon DEF write
<1>2. args.offset = n /\ args.bytes = c
  BY Zenon
<1>3. /\ m1.key = b /\ ~m1.signer /\ m1.writable
      /\ m2.key = k /\ m2.signer /\ ~m2.writable
  BY Flags, Zenon
<1> HIDE DEF args, m1, m2
<1>4. x.metas = metas /\ x.data.fields = args
  BY Parts
<1>5. Operation(x) = "Write"
  BY Understood
<1> HIDE DEF x
<1>6. At(x, 0) = b /\ At(x, 1) = k
  <2>1. At(x, 0) = m1.key /\ At(x, 1) = m2.key
    BY <1>4, PlacesOfTwo
  <2> QED BY <1>3, <2>1
<1>7. ASSUME NEW as, NEW by, NEW w
      PROVE  /\ RunOn(as, by, w, <<x>>).ok <=>
                   CanWrite(as, by, b, k, n, c) /\ Locked(as, AfterWrite(as, b, n, c), w)
             /\ RunOn(as, by, w, <<x>>).ok => RunOn(as, by, w, <<x>>).as = AfterWrite(as, b, n, c)
  <2>1. Can(as, by, w, x) <=> CanWrite(as, by, b, k, n, c)
    BY <1>2, <1>4, <1>5, <1>6, Checks
  <2>2. After(as, x) = AfterWrite(as, b, n, c)
    BY <1>2, <1>4, <1>5, <1>6, Effects
  <2>3. /\ RunOn(as, by, w, <<x>>).ok <=> Can(as, by, w, x) /\ Locked(as, After(as, x), w)
        /\ RunOn(as, by, w, <<x>>).ok => RunOn(as, by, w, <<x>>).as = After(as, x)
    BY Runs
  <2> QED BY <2>1, <2>2, <2>3
<1>8. ToSet(x.metas) = {m1, m2}
  <2>1. ToSet(metas) = {m1, m2}
    BY ListOfTwo
  <2> QED BY <1>4, <2>1
<1>9. Signing(<<x>>) = {k} /\ Writable(<<x>>) = {b}
  <2>1. /\ \A z : z \in Signing(<<x>>) <=> z = k
        /\ \A z : z \in Writable(<<x>>) <=> z = b
    BY <1>3, <1>8, Flagged
  <2> QED BY <2>1
<1> QED BY <1>1, <1>7, <1>9, Zenon DEF Fills

\* What an upgrade asks and does.
Replaces(list, p, b, k, spill) ==
  /\ Signing(list) = {k} /\ Writable(list) = {Pda[p], p, b, spill}
  /\ \A as, by, w :
       /\ RunOn(as, by, w, list).ok <=>
            /\ p \in w /\ CanUpgrade(as, by, Pda[p], p, b, spill, k)
            /\ Locked(as, AfterUpgrade(as, Pda[p], b, spill, k, 0), w)
       /\ RunOn(as, by, w, list).ok =>
            RunOn(as, by, w, list).as = AfterUpgrade(as, Pda[p], b, spill, k, 0)

LEMMA UpgradeRuns ==
  ASSUME NEW p, NEW b, NEW k, NEW spill
  PROVE  Replaces(upgrade(p, b, k, spill), p, b, k, spill)
<1> DEFINE d == Pda[p]
           m1 == New(d, FALSE)
           m2 == New(p, FALSE)
           m3 == New(b, FALSE)
           m4 == New(spill, FALSE)
           m5 == NewReadonly(rent, FALSE)
           m6 == NewReadonly(clock, FALSE)
           m7 == NewReadonly(k, TRUE)
           metas == <<m1, m2, m3, m4, m5, m6, m7>>
           x == new_with_bincode("Upgrade", << >>, metas)
<1>1. upgrade(p, b, k, spill) = <<x>>
  BY Zenon DEF upgrade
<1> HIDE DEF d
<1>3. /\ m1.key = d /\ ~m1.signer /\ m1.writable
      /\ m2.key = p /\ ~m2.signer /\ m2.writable
      /\ m3.key = b /\ ~m3.signer /\ m3.writable
      /\ m4.key = spill /\ ~m4.signer /\ m4.writable
      /\ m5.key = rent /\ ~m5.signer /\ ~m5.writable
      /\ m6.key = clock /\ ~m6.signer /\ ~m6.writable
      /\ m7.key = k /\ m7.signer /\ ~m7.writable
  BY Flags, Zenon
<1> HIDE DEF m1, m2, m3, m4, m5, m6, m7
<1>4. x.metas = metas
  BY Parts
<1>5. Operation(x) = "Upgrade"
  BY Understood
<1> HIDE DEF x
<1>6. /\ At(x, 0) = d /\ At(x, 1) = p /\ At(x, 2) = b /\ At(x, 3) = spill
      /\ At(x, 4) = rent /\ At(x, 5) = clock /\ At(x, 6) = k
  <2>1. /\ At(x, 0) = m1.key /\ At(x, 1) = m2.key /\ At(x, 2) = m3.key /\ At(x, 3) = m4.key
        /\ At(x, 4) = m5.key /\ At(x, 5) = m6.key /\ At(x, 6) = m7.key
    BY <1>4, PlacesOfSeven
  <2> QED BY <1>3, <2>1
<1>7. ASSUME NEW as, NEW by, NEW w
      PROVE  /\ RunOn(as, by, w, <<x>>).ok <=>
                   /\ p \in w /\ CanUpgrade(as, by, d, p, b, spill, k)
                   /\ Locked(as, AfterUpgrade(as, d, b, spill, k, 0), w)
             /\ RunOn(as, by, w, <<x>>).ok =>
                  RunOn(as, by, w, <<x>>).as = AfterUpgrade(as, d, b, spill, k, 0)
  <2>1. Can(as, by, w, x) <=> p \in w /\ CanUpgrade(as, by, d, p, b, spill, k)
    BY <1>5, <1>6, Checks
  <2>2. After(as, x) = AfterUpgrade(as, d, b, spill, k, 0)
    BY <1>5, <1>6, Effects
  <2>3. /\ RunOn(as, by, w, <<x>>).ok <=> Can(as, by, w, x) /\ Locked(as, After(as, x), w)
        /\ RunOn(as, by, w, <<x>>).ok => RunOn(as, by, w, <<x>>).as = After(as, x)
    BY Runs
  <2> QED BY <2>1, <2>2, <2>3
<1>8. ToSet(x.metas) = {m1, m2, m3, m4, m5, m6, m7}
  <2>1. ToSet(metas) = {m1, m2, m3, m4, m5, m6, m7}
    BY ListOfSeven
  <2> QED BY <1>4, <2>1
<1>9. Signing(<<x>>) = {k} /\ Writable(<<x>>) = {d, p, b, spill}
  <2>1. /\ \A z : z \in Signing(<<x>>) <=> z = k
        /\ \A z : z \in Writable(<<x>>) <=> z \in {d, p, b, spill}
    BY <1>3, <1>8, Flagged
  <2> QED BY <2>1
<1> QED BY <1>1, <1>7, <1>9, Zenon DEF Replaces, d

\* What handing an account over asks and does.
Hands(list, a, k, new) ==
  /\ Signing(list) = {k} /\ Writable(list) = {a}
  /\ \A as, by, w :
       /\ RunOn(as, by, w, list).ok <=>
            CanSetAuthority(as, by, a, k, new) /\ Locked(as, AfterSetAuthority(as, a, new), w)
       /\ RunOn(as, by, w, list).ok =>
            RunOn(as, by, w, list).as = AfterSetAuthority(as, a, new)

LEMMA SetBufferRuns ==
  ASSUME NEW b, NEW k, NEW new
  PROVE  Hands(set_buffer_authority(b, k, new), b, k, new)
<1> DEFINE m1 == New(b, FALSE)
           m2 == NewReadonly(k, TRUE)
           m3 == NewReadonly(new, FALSE)
           metas == <<m1, m2, m3>>
           x == new_with_bincode("SetAuthority", << >>, metas)
<1>1. set_buffer_authority(b, k, new) = <<x>>
  BY Zenon DEF set_buffer_authority
<1>3. /\ m1.key = b /\ ~m1.signer /\ m1.writable
      /\ m2.key = k /\ m2.signer /\ ~m2.writable
      /\ m3.key = new /\ ~m3.signer /\ ~m3.writable
  BY Flags, Zenon
<1> HIDE DEF m1, m2, m3
<1>4. x.metas = metas
  BY Parts
<1>5. Operation(x) = "SetAuthority"
  BY Understood
<1> HIDE DEF x
<1>6. At(x, 0) = b /\ At(x, 1) = k /\ At(x, 2) = new
  <2>1. At(x, 0) = m1.key /\ At(x, 1) = m2.key /\ At(x, 2) = m3.key
    BY <1>4, PlacesOfThree
  <2> QED BY <1>3, <2>1
<1>7. ASSUME NEW as, NEW by, NEW w
      PROVE  /\ RunOn(as, by, w, <<x>>).ok <=>
                  CanSetAuthority(as, by, b, k, new) /\ Locked(as, AfterSetAuthority(as, b, new), w)
             /\ RunOn(as, by, w, <<x>>).ok =>
                  RunOn(as, by, w, <<x>>).as = AfterSetAuthority(as, b, new)
  <2>1. Can(as, by, w, x) <=> CanSetAuthority(as, by, b, k, new)
    BY <1>5, <1>6, Checks
  <2>2. After(as, x) = AfterSetAuthority(as, b, new)
    BY <1>5, <1>6, Effects
  <2>3. /\ RunOn(as, by, w, <<x>>).ok <=> Can(as, by, w, x) /\ Locked(as, After(as, x), w)
        /\ RunOn(as, by, w, <<x>>).ok => RunOn(as, by, w, <<x>>).as = After(as, x)
    BY Runs
  <2> QED BY <2>1, <2>2, <2>3
<1>8. ToSet(x.metas) = {m1, m2, m3}
  <2>1. ToSet(metas) = {m1, m2, m3}
    BY ListOfThree
  <2> QED BY <1>4, <2>1
<1>9. Signing(<<x>>) = {k} /\ Writable(<<x>>) = {b}
  <2>1. /\ \A z : z \in Signing(<<x>>) <=> z = k
        /\ \A z : z \in Writable(<<x>>) <=> z = b
    BY <1>3, <1>8, Flagged
  <2> QED BY <2>1
<1> QED BY <1>1, <1>7, <1>9, Zenon DEF Hands

\* Lists with an optional end.
LEMMA Joined ==
  ASSUME NEW m1, NEW m2, NEW m3, NEW m4
  PROVE  /\ <<m1, m2>> \o << >> = <<m1, m2>>
         /\ <<m1, m2>> \o <<m3>> = <<m1, m2, m3>>
         /\ <<m1, m2, m3>> \o << >> = <<m1, m2, m3>>
         /\ <<m1, m2, m3>> \o <<m4>> = <<m1, m2, m3, m4>>
<1> DEFINE S == {m1, m2, m3, m4}
<1>1. <<m1, m2>> \o << >> = <<m1, m2>>
  OBVIOUS
<1>2. <<m1, m2>> \o <<m3>> = <<m1, m2, m3>>
  <2> DEFINE front == <<m1, m2>>
             end == <<m3>>
             all == <<m1, m2, m3>>
  <2>1. front \in Seq(S) /\ Len(front) = 2 /\ end \in Seq(S) /\ Len(end) = 1
    OBVIOUS
  <2>2. all \in Seq(S) /\ Len(all) = 3 /\ all[3] = end[1]
    OBVIOUS
  <2>3. \A n \in 1..2 : all[n] = front[n]
    OBVIOUS
  <2> HIDE DEF front, end, all, S
  <2>4. /\ front \o end \in Seq(S) /\ Len(front \o end) = 3
        /\ \A n \in 1..3 : (front \o end)[n] = IF n <= 2 THEN front[n] ELSE end[n - 2]
    <3>1. /\ front \o end \in Seq(S) /\ Len(front \o end) = Len(front) + Len(end)
          /\ \A n \in 1 .. Len(front) + Len(end) :
               (front \o end)[n] = IF n <= Len(front) THEN front[n] ELSE end[n - Len(front)]
      BY <2>1, ConcatProperties, Zenon
    <3> QED BY <2>1, <3>1
  <2>5. \A n \in 1..3 : (front \o end)[n] = all[n]
    BY <2>2, <2>3, <2>4
  <2> QED BY <2>2, <2>4, <2>5, SeqEqual DEF front, end, all
<1>3. <<m1, m2, m3>> \o << >> = <<m1, m2, m3>>
  OBVIOUS
<1>4. <<m1, m2, m3>> \o <<m4>> = <<m1, m2, m3, m4>>
  <2> DEFINE front == <<m1, m2, m3>>
             end == <<m4>>
             all == <<m1, m2, m3, m4>>
  <2>1. front \in Seq(S) /\ Len(front) = 3 /\ end \in Seq(S) /\ Len(end) = 1
    OBVIOUS
  <2>2. all \in Seq(S) /\ Len(all) = 4 /\ all[4] = end[1]
    OBVIOUS
  <2>3. \A n \in 1..3 : all[n] = front[n]
    OBVIOUS
  <2> HIDE DEF front, end, all, S
  <2>4. /\ front \o end \in Seq(S) /\ Len(front \o end) = 4
        /\ \A n \in 1..4 : (front \o end)[n] = IF n <= 3 THEN front[n] ELSE end[n - 3]
    <3>1. /\ front \o end \in Seq(S) /\ Len(front \o end) = Len(front) + Len(end)
          /\ \A n \in 1 .. Len(front) + Len(end) :
               (front \o end)[n] = IF n <= Len(front) THEN front[n] ELSE end[n - Len(front)]
      BY <2>1, ConcatProperties, Zenon
    <3> QED BY <2>1, <3>1
  <2>5. \A n \in 1..4 : (front \o end)[n] = all[n]
    BY <2>2, <2>3, <2>4
  <2> QED BY <2>2, <2>4, <2>5, SeqEqual DEF front, end, all
<1> QED BY <1>1, <1>2, <1>3, <1>4

LEMMA SetUpgradeRuns ==
  ASSUME NEW p, NEW k, NEW new
  PROVE  Hands(set_upgrade_authority(p, k, new), Pda[p], k, new)
<1> DEFINE d == Pda[p]
           m1 == New(d, FALSE)
           m2 == NewReadonly(k, TRUE)
           m3 == NewReadonly(new, FALSE)
<1>1. CASE new # None
  <2>1. <<m1, m2>> \o <<m3>> = <<m1, m2, m3>>
    BY Joined
  <2>2. set_upgrade_authority(p, k, new) = set_buffer_authority(d, k, new)
    BY <1>1, <2>1, Zenon DEF set_upgrade_authority, set_buffer_authority, Some
  <2> QED BY <2>2, SetBufferRuns, Zenon
<1>2. CASE new = None
  <2> DEFINE metas == <<m1, m2>>
             x == new_with_bincode("SetAuthority", << >>, metas)
  <2>1. set_upgrade_authority(p, k, new) = <<x>>
    <3>1. metas \o << >> = metas
      BY Joined
    <3> QED BY <1>2, <3>1, Zenon DEF set_upgrade_authority, Some
  <2> HIDE DEF d
  <2>3. /\ m1.key = d /\ ~m1.signer /\ m1.writable
        /\ m2.key = k /\ m2.signer /\ ~m2.writable
    BY Flags, Zenon
  <2> HIDE DEF m1, m2
  <2>4. x.metas = metas
    BY Parts
  <2>5. Operation(x) = "SetAuthority"
    BY Understood
  <2> HIDE DEF x
  <2>6. At(x, 0) = d /\ At(x, 1) = k /\ At(x, 2) = new
    <3>1. At(x, 0) = m1.key /\ At(x, 1) = m2.key /\ At(x, 2) = None
      BY <2>4, PlacesOfTwo
    <3> QED BY <1>2, <2>3, <3>1
  <2>7. ASSUME NEW as, NEW by, NEW w
        PROVE  /\ RunOn(as, by, w, <<x>>).ok <=>
                    /\ CanSetAuthority(as, by, d, k, new)
                    /\ Locked(as, AfterSetAuthority(as, d, new), w)
               /\ RunOn(as, by, w, <<x>>).ok =>
                    RunOn(as, by, w, <<x>>).as = AfterSetAuthority(as, d, new)
    <3>1. Can(as, by, w, x) <=> CanSetAuthority(as, by, d, k, new)
      BY <2>5, <2>6, Checks
    <3>2. After(as, x) = AfterSetAuthority(as, d, new)
      BY <2>5, <2>6, Effects
    <3>3. /\ RunOn(as, by, w, <<x>>).ok <=> Can(as, by, w, x) /\ Locked(as, After(as, x), w)
          /\ RunOn(as, by, w, <<x>>).ok => RunOn(as, by, w, <<x>>).as = After(as, x)
      BY Runs
    <3> QED BY <3>1, <3>2, <3>3
  <2>8. ToSet(x.metas) = {m1, m2}
    <3>1. ToSet(metas) = {m1, m2}
      BY ListOfTwo
    <3> QED BY <2>4, <3>1
  <2>9. Signing(<<x>>) = {k} /\ Writable(<<x>>) = {d}
    <3>1. /\ \A z : z \in Signing(<<x>>) <=> z = k
          /\ \A z : z \in Writable(<<x>>) <=> z = d
      BY <2>3, <2>8, Flagged
    <3> QED BY <3>1
  <2> QED BY <2>1, <2>7, <2>9, Zenon DEF d, Hands
<1> QED BY <1>1, <1>2, Zenon

\* Close finds the authority, and the program of a programdata, behind each other: without
\* an authority the program takes its place.
Second(k, q) == IF k # None THEN k ELSE q
Third(k, q) == IF k # None THEN q ELSE None

\* What a closing asks and does.
Empties(list, a, r, k, q) ==
  /\ Signing(list) = {k} \ {None} /\ Writable(list) = {a, r} \cup ({q} \ {None})
  /\ \A as, by, w :
       /\ RunOn(as, by, w, list).ok <=>
            /\ Holds(as[a], "ProgramData") => Third(k, q) \in w
            /\ CanClose(as, by, a, r, Second(k, q), Third(k, q))
            /\ Locked(as, AfterClose(as, a, r), w)
       /\ RunOn(as, by, w, list).ok => RunOn(as, by, w, list).as = AfterClose(as, a, r)

LEMMA CloseRuns ==
  ASSUME NEW a, NEW r, NEW k, NEW q
  PROVE  Empties(close_any(a, r, k, q), a, r, k, q)
<1> DEFINE m1 == New(a, FALSE)
           m2 == New(r, FALSE)
           m3 == NewReadonly(k, TRUE)
           m4 == New(q, FALSE)
           authority == IF k = None THEN << >> ELSE <<m3>>
           program == IF q = None THEN << >> ELSE <<m4>>
           metas == <<m1, m2>> \o authority \o program
           x == new_with_bincode("Close", << >>, metas)
<1>1. close_any(a, r, k, q) = <<x>>
  BY Zenon DEF close_any, SomeSigning
<1> HIDE DEF metas
<1>3. /\ m1.key = a /\ ~m1.signer /\ m1.writable
      /\ m2.key = r /\ ~m2.signer /\ m2.writable
      /\ m3.key = k /\ m3.signer /\ ~m3.writable
      /\ m4.key = q /\ ~m4.signer /\ m4.writable
  BY Flags, Zenon
<1> HIDE DEF m1, m2, m3, m4
<1>4. x.metas = metas
  BY Parts
<1>5. Operation(x) = "Close"
  BY Understood
<1> HIDE DEF x
<1>6. /\ At(x, 0) = a /\ At(x, 1) = r /\ At(x, 2) = Second(k, q) /\ At(x, 3) = Third(k, q)
      /\ ToSet(metas) = {m1, m2} \cup (IF k = None THEN {} ELSE {m3})
                           \cup (IF q = None THEN {} ELSE {m4})
  <2>1. CASE k # None /\ q # None
    <3>1. metas = <<m1, m2, m3, m4>>
      BY <2>1, Joined DEF metas
    <3>2. ToSet(metas) = {m1, m2, m3, m4}
      BY <3>1, ListOfFour
    <3>3. At(x, 0) = m1.key /\ At(x, 1) = m2.key /\ At(x, 2) = m3.key /\ At(x, 3) = m4.key
      BY <1>4, <3>1, PlacesOfFour
    <3> QED BY <1>3, <2>1, <3>2, <3>3 DEF Second, Third
  <2>2. CASE k # None /\ q = None
    <3>1. metas = <<m1, m2, m3>>
      BY <2>2, Joined DEF metas
    <3>2. ToSet(metas) = {m1, m2, m3}
      BY <3>1, ListOfThree
    <3>3. At(x, 0) = m1.key /\ At(x, 1) = m2.key /\ At(x, 2) = m3.key /\ At(x, 3) = None
      BY <1>4, <3>1, PlacesOfThree
    <3> QED BY <1>3, <2>2, <3>2, <3>3 DEF Second, Third
  <2>3. CASE k = None /\ q # None
    <3>1. metas = <<m1, m2, m4>>
      BY <2>3, Joined DEF metas
    <3>2. ToSet(metas) = {m1, m2, m4}
      BY <3>1, ListOfThree
    <3>3. At(x, 0) = m1.key /\ At(x, 1) = m2.key /\ At(x, 2) = m4.key /\ At(x, 3) = None
      BY <1>4, <3>1, PlacesOfThree
    <3> QED BY <1>3, <2>3, <3>2, <3>3 DEF Second, Third
  <2>4. CASE k = None /\ q = None
    <3>1. metas = <<m1, m2>>
      BY <2>4, Joined DEF metas
    <3>2. ToSet(metas) = {m1, m2}
      BY <3>1, ListOfTwo
    <3>3. At(x, 0) = m1.key /\ At(x, 1) = m2.key /\ At(x, 2) = None /\ At(x, 3) = None
      BY <1>4, <3>1, PlacesOfTwo
    <3> QED BY <1>3, <2>4, <3>2, <3>3 DEF Second, Third
  <2> QED BY <2>1, <2>2, <2>3, <2>4
<1>7. ASSUME NEW as, NEW by, NEW w
      PROVE  /\ RunOn(as, by, w, <<x>>).ok <=>
                   /\ Holds(as[a], "ProgramData") => Third(k, q) \in w
                   /\ CanClose(as, by, a, r, Second(k, q), Third(k, q))
                   /\ Locked(as, AfterClose(as, a, r), w)
             /\ RunOn(as, by, w, <<x>>).ok => RunOn(as, by, w, <<x>>).as = AfterClose(as, a, r)
  <2>1. Can(as, by, w, x) <=>
          /\ Holds(as[a], "ProgramData") => Third(k, q) \in w
          /\ CanClose(as, by, a, r, Second(k, q), Third(k, q))
    BY <1>5, <1>6, Checks
  <2>2. After(as, x) = AfterClose(as, a, r)
    BY <1>5, <1>6, Effects
  <2>3. /\ RunOn(as, by, w, <<x>>).ok <=> Can(as, by, w, x) /\ Locked(as, After(as, x), w)
        /\ RunOn(as, by, w, <<x>>).ok => RunOn(as, by, w, <<x>>).as = After(as, x)
    BY Runs
  <2> QED BY <2>1, <2>2, <2>3
<1>9. Signing(<<x>>) = {k} \ {None} /\ Writable(<<x>>) = {a, r} \cup ({q} \ {None})
  <2>1. /\ \A z : z \in Signing(<<x>>) <=> z = k /\ k # None
        /\ \A z : z \in Writable(<<x>>) <=> z \in {a, r} \/ (z = q /\ q # None)
    <3>1. \A m : m \in ToSet(x.metas) <=>
            m = m1 \/ m = m2 \/ (m = m3 /\ k # None) \/ (m = m4 /\ q # None)
      BY <1>4, <1>6
    <3> QED BY <1>3, <3>1, Flagged
  <2> QED BY <2>1
<1> QED BY <1>1, <1>7, <1>9, Zenon DEF Empties

\* The loader has no arm for the instructions with a second signature, or a longer program.
LEMMA UnsupportedRuns ==
  ASSUME NEW as, NEW by, NEW w, NEW p, NEW k, NEW new
  PROVE  /\ ~RunOn(as, by, w, set_buffer_authority_checked(p, k, new)).ok
         /\ ~RunOn(as, by, w, set_upgrade_authority_checked(p, k, new)).ok
         /\ ~RunOn(as, by, w, extend_program(p, k, new)).ok
<1>1. ASSUME NEW x, Operation(x) = "InvalidInstructionData" PROVE ~RunOn(as, by, w, <<x>>).ok
  BY <1>1, Checks, Runs
<1>2. ASSUME NEW fields, NEW metas
      PROVE  /\ ~RunOn(as, by, w, <<new_with_bincode("ExtendProgram", fields, metas)>>).ok
             /\ ~RunOn(as, by, w, <<new_with_bincode("SetAuthorityChecked", fields, metas)>>).ok
  BY <1>1, Understood
<1> QED BY <1>2, Zenon DEF set_buffer_authority_checked, set_upgrade_authority_checked,
                           extend_program

\* A transaction of two.
LEMMA RunsTwo ==
  ASSUME NEW x, NEW y, NEW as, NEW by, NEW w, NEW mid, Leaves(as, x, mid)
  PROVE  /\ RunOn(as, by, w, <<x, y>>).ok <=>
              /\ Can(as, by, w, x) /\ Locked(as, mid, w)
              /\ Can(mid, by, w, y) /\ Locked(mid, After(mid, y), w)
         /\ RunOn(as, by, w, <<x, y>>).ok => RunOn(as, by, w, <<x, y>>).as = After(mid, y)
<1>1. Executes(as, by, w, x) <=> Can(as, by, w, x) /\ Locked(as, mid, w)
  <2>1. Executes(as, by, w, x) <=> Can(as, by, w, x) /\ Locked(as, After(as, x), w)
    BY Zenon DEF Executes, Locked
  <2> QED BY <2>1 DEF Leaves
<1>2. Executes(mid, by, w, y) <=> Can(mid, by, w, y) /\ Locked(mid, After(mid, y), w)
  BY Zenon DEF Executes, Locked
<1>3. Both(as, by, w, x, y, mid)
  BY RunTwo, Zenon
<1> QED BY <1>1, <1>2, <1>3, Zenon DEF Both

\* The accounts a transaction of two signs and locks.
LEMMA FlaggedInTwo ==
  ASSUME NEW x, NEW y
  PROVE  /\ \A k : k \in Signing(<<x, y>>) <=>
              \E m \in ToSet(x.metas) \cup ToSet(y.metas) : m.signer /\ m.key = k
         /\ \A k : k \in Writable(<<x, y>>) <=>
              \E m \in ToSet(x.metas) \cup ToSet(y.metas) : m.writable /\ m.key = k
BY MetasOfTwo, Zenon DEF Signing, Writable

\* The instruction of the system program.
LEMMA Creates ==
  ASSUME NEW from, NEW to, NEW lamports, NEW space
  PROVE  LET x == create_account(from, to, lamports, space) IN
         /\ ToSet(x.metas) = {New(from, TRUE), New(to, TRUE)}
         /\ \A as, by, w :
              /\ Can(as, by, w, x) <=> CanCreateAccount(as, by, from, to, lamports)
              /\ After(as, x) = AfterCreateAccount(as, from, to, lamports, space)
<1> DEFINE args == [lamports |-> lamports, space |-> space]
           data == [fields |-> args]
           m1 == New(from, TRUE)
           m2 == New(to, TRUE)
           metas == <<m1, m2>>
           x == Instruction("system", data, metas)
<1>1. create_account(from, to, lamports, space) = x
  BY Zenon DEF create_account
<1>2. args.lamports = lamports /\ args.space = space
  BY Zenon
<1>3. data.fields = args
  BY Zenon
<1>4. m1.key = from /\ m2.key = to
  BY Flags, Zenon
<1> HIDE DEF args, m1, m2, data
<1>5. x.metas = metas /\ x.data = data /\ Operation(x) = "CreateAccount"
  BY DEF Instruction, Operation
<1> HIDE DEF x
<1>6. At(x, 0) = from /\ At(x, 1) = to
  <2>1. At(x, 0) = m1.key /\ At(x, 1) = m2.key
    BY <1>5, PlacesOfTwo
  <2> QED BY <1>4, <2>1
<1>7. x.data.fields.lamports = lamports /\ x.data.fields.space = space
  BY <1>2, <1>3, <1>5, Zenon
<1>8. ASSUME NEW as, NEW by, NEW w
      PROVE  /\ Can(as, by, w, x) <=> CanCreateAccount(as, by, from, to, lamports)
             /\ After(as, x) = AfterCreateAccount(as, from, to, lamports, space)
  <2>1. Can(as, by, w, x) <=>
          CanCreateAccount(as, by, At(x, 0), At(x, 1), x.data.fields.lamports)
    BY <1>5, Checks
  <2>2. After(as, x) = AfterCreateAccount(as, At(x, 0), At(x, 1), x.data.fields.lamports,
                                          x.data.fields.space)
    BY <1>5, Effects
  <2> QED BY <1>6, <1>7, <2>1, <2>2
<1>9. ToSet(x.metas) = {m1, m2}
  <2>1. ToSet(metas) = {m1, m2}
    BY ListOfTwo
  <2> QED BY <1>5, <2>1
<1> QED BY <1>1, <1>8, <1>9, Zenon DEF m1, m2

\* What making a buffer asks and does.
Makes(list, payer, b, k, n, size) ==
  /\ Signing(list) = {payer, b} /\ Writable(list) = {payer, b}
  /\ \A as, by, w, mid : mid = AfterCreateAccount(as, payer, b, n, size_of_buffer(size)) =>
       /\ RunOn(as, by, w, list).ok <=>
            /\ CanCreateAccount(as, by, payer, b, n) /\ Locked(as, mid, w)
            /\ CanInitializeBuffer(mid, b)
            /\ Locked(mid, AfterInitializeBuffer(mid, b, k), w)
       /\ RunOn(as, by, w, list).ok =>
            RunOn(as, by, w, list).as = AfterInitializeBuffer(mid, b, k)

LEMMA CreateRuns ==
  ASSUME NEW payer, NEW b, NEW k, k # None, NEW n, NEW size
  PROVE  Makes(create_buffer(payer, b, k, n, size), payer, b, k, n, size)
<1> DEFINE x == create_account(payer, b, n, size_of_buffer(size))
           m1 == New(b, FALSE)
           m2 == NewReadonly(k, FALSE)
           metas == <<m1, m2>>
           y == new_with_bincode("InitializeBuffer", << >>, metas)
<1>1. create_buffer(payer, b, k, n, size) = <<x, y>>
  BY Zenon DEF create_buffer
<1>2. PICK m3, m4 : /\ ToSet(x.metas) = {m3, m4}
                    /\ m3.key = payer /\ m3.signer /\ m3.writable
                    /\ m4.key = b /\ m4.signer /\ m4.writable
  <2>1. ToSet(x.metas) = {New(payer, TRUE), New(b, TRUE)}
    BY Creates, Zenon
  <2>2. /\ New(payer, TRUE).key = payer /\ New(payer, TRUE).signer /\ New(payer, TRUE).writable
        /\ New(b, TRUE).key = b /\ New(b, TRUE).signer /\ New(b, TRUE).writable
    BY Flags, Zenon
  <2> QED BY <2>1, <2>2, Zenon
<1>3. /\ m1.key = b /\ ~m1.signer /\ m1.writable
      /\ m2.key = k /\ ~m2.signer /\ ~m2.writable
  BY Flags, Zenon
<1> HIDE DEF m1, m2
<1>4. y.metas = metas
  BY Parts
<1>5. Operation(y) = "InitializeBuffer"
  BY Understood
<1> HIDE DEF y
<1>6. At(y, 0) = b /\ At(y, 1) = k
  <2>1. At(y, 0) = m1.key /\ At(y, 1) = m2.key
    BY <1>4, PlacesOfTwo
  <2> QED BY <1>3, <2>1
<1>7. ASSUME NEW as, NEW by, NEW w, NEW mid,
             mid = AfterCreateAccount(as, payer, b, n, size_of_buffer(size))
      PROVE  /\ RunOn(as, by, w, <<x, y>>).ok <=>
                   /\ CanCreateAccount(as, by, payer, b, n) /\ Locked(as, mid, w)
                   /\ CanInitializeBuffer(mid, b)
                   /\ Locked(mid, AfterInitializeBuffer(mid, b, k), w)
             /\ RunOn(as, by, w, <<x, y>>).ok =>
                   RunOn(as, by, w, <<x, y>>).as = AfterInitializeBuffer(mid, b, k)
  <2>1. /\ Can(as, by, w, x) <=> CanCreateAccount(as, by, payer, b, n)
        /\ After(as, x) = AfterCreateAccount(as, payer, b, n, size_of_buffer(size))
    BY Creates, Zenon
  <2> HIDE DEF x
  <2>2. Leaves(as, x, mid)
    BY <1>7, <2>1 DEF Leaves
  <2>3. Can(mid, by, w, y) <=> CanInitializeBuffer(mid, b)
    BY <1>5, <1>6, Checks
  <2>4. After(mid, y) = AfterInitializeBuffer(mid, b, k)
    BY <1>5, <1>6, Effects
  <2>5. /\ RunOn(as, by, w, <<x, y>>).ok <=>
              /\ Can(as, by, w, x) /\ Locked(as, mid, w)
              /\ Can(mid, by, w, y) /\ Locked(mid, After(mid, y), w)
        /\ RunOn(as, by, w, <<x, y>>).ok => RunOn(as, by, w, <<x, y>>).as = After(mid, y)
    BY <2>2, RunsTwo, Zenon
  <2> QED BY <2>1, <2>3, <2>4, <2>5
<1>8. ToSet(y.metas) = {m1, m2}
  <2>1. ToSet(metas) = {m1, m2}
    BY ListOfTwo
  <2> QED BY <1>4, <2>1
<1>9. Signing(<<x, y>>) = {payer, b} /\ Writable(<<x, y>>) = {payer, b}
  <2> HIDE DEF x
  <2>1. /\ \A z : z \in Signing(<<x, y>>) <=> z \in {payer, b}
        /\ \A z : z \in Writable(<<x, y>>) <=> z \in {payer, b}
    <3>1. \A m : m \in ToSet(x.metas) \cup ToSet(y.metas) <=> m \in {m1, m2, m3, m4}
      BY <1>2, <1>8
    <3> QED BY <1>2, <1>3, <3>1, FlaggedInTwo
  <2> QED BY <2>1
<1> QED BY <1>1, <1>7, <1>9, Zenon DEF Makes

\* What a deployment asks and does.
Installs(list, payer, p, b, k, n, size) ==
  /\ Signing(list) = {payer, p, k} /\ Writable(list) = {payer, p, Pda[p], b}
  /\ \A as, by, w, mid : mid = AfterCreateAccount(as, payer, p, n, ProgramLen) =>
       /\ RunOn(as, by, w, list).ok <=>
            /\ CanCreateAccount(as, by, payer, p, n) /\ Locked(as, mid, w)
            /\ CanDeploy(mid, by, payer, Pda[p], p, b, k, size)
            /\ Locked(mid, AfterDeploy(mid, payer, Pda[p], p, b, k, size, 0), w)
       /\ RunOn(as, by, w, list).ok =>
            RunOn(as, by, w, list).as = AfterDeploy(mid, payer, Pda[p], p, b, k, size, 0)

LEMMA DeployRuns ==
  ASSUME NEW payer, NEW p, NEW b, NEW k, NEW n, NEW size
  PROVE  Installs(deploy_with_max_program_len(payer, p, b, k, n, size), payer, p, b, k, n, size)
<1> DEFINE d == Pda[p]
           x == create_account(payer, p, n, ProgramLen)
           args == [max_data_len |-> size]
           m1 == New(payer, TRUE)
           m2 == New(d, FALSE)
           m3 == New(p, FALSE)
           m4 == New(b, FALSE)
           m5 == NewReadonly(rent, FALSE)
           m6 == NewReadonly(clock, FALSE)
           m7 == NewReadonly(system_program, FALSE)
           m8 == NewReadonly(k, TRUE)
           metas == <<m1, m2, m3, m4, m5, m6, m7, m8>>
           y == new_with_bincode("DeployWithMaxDataLen", args, metas)
<1>1. deploy_with_max_program_len(payer, p, b, k, n, size) = <<x, y>>
  BY Zenon DEF deploy_with_max_program_len
<1>2. PICK m9, m0 : /\ ToSet(x.metas) = {m9, m0}
                    /\ m9.key = payer /\ m9.signer /\ m9.writable
                    /\ m0.key = p /\ m0.signer /\ m0.writable
  <2>1. ToSet(x.metas) = {New(payer, TRUE), New(p, TRUE)}
    BY Creates, Zenon
  <2>2. /\ New(payer, TRUE).key = payer /\ New(payer, TRUE).signer /\ New(payer, TRUE).writable
        /\ New(p, TRUE).key = p /\ New(p, TRUE).signer /\ New(p, TRUE).writable
    BY Flags, Zenon
  <2> QED BY <2>1, <2>2, Zenon
<1> HIDE DEF d
<1>3. /\ m1.key = payer /\ m1.signer /\ m1.writable
      /\ m2.key = d /\ ~m2.signer /\ m2.writable
      /\ m3.key = p /\ ~m3.signer /\ m3.writable
      /\ m4.key = b /\ ~m4.signer /\ m4.writable
      /\ m5.key = rent /\ ~m5.signer /\ ~m5.writable
      /\ m6.key = clock /\ ~m6.signer /\ ~m6.writable
      /\ m7.key = system_program /\ ~m7.signer /\ ~m7.writable
      /\ m8.key = k /\ m8.signer /\ ~m8.writable
  BY Flags, Zenon
<1>4. args.max_data_len = size
  BY Zenon
<1> HIDE DEF m1, m2, m3, m4, m5, m6, m7, m8, args
<1>5. y.metas = metas /\ y.data.fields = args
  BY Parts
<1>6. Operation(y) = "DeployWithMaxDataLen"
  BY Understood
<1> HIDE DEF y
<1>7. ToSet(y.metas) = {m1, m2, m3, m4, m5, m6, m7, m8}
  <2>1. ToSet(metas) = {m1, m2, m3, m4, m5, m6, m7, m8}
    BY ListOfEight
  <2> QED BY <1>5, <2>1
<1>8. /\ At(y, 0) = payer /\ At(y, 1) = d /\ At(y, 2) = p /\ At(y, 3) = b
      /\ At(y, 4) = rent /\ At(y, 5) = clock /\ At(y, 7) = k
      /\ \E m \in ToSet(y.metas) : m.key = system_program
      /\ y.data.fields.max_data_len = size
  <2>1. /\ At(y, 0) = m1.key /\ At(y, 1) = m2.key /\ At(y, 2) = m3.key /\ At(y, 3) = m4.key
        /\ At(y, 4) = m5.key /\ At(y, 5) = m6.key /\ At(y, 7) = m8.key
    BY <1>5, PlacesOfEight
  <2>2. m7 \in ToSet(y.metas)
    BY <1>7
  <2> QED BY <1>3, <1>4, <1>5, <2>1, <2>2
<1>9. ASSUME NEW as, NEW by, NEW w, NEW mid,
             mid = AfterCreateAccount(as, payer, p, n, ProgramLen)
      PROVE  /\ RunOn(as, by, w, <<x, y>>).ok <=>
                   /\ CanCreateAccount(as, by, payer, p, n) /\ Locked(as, mid, w)
                   /\ CanDeploy(mid, by, payer, d, p, b, k, size)
                   /\ Locked(mid, AfterDeploy(mid, payer, d, p, b, k, size, 0), w)
             /\ RunOn(as, by, w, <<x, y>>).ok =>
                   RunOn(as, by, w, <<x, y>>).as = AfterDeploy(mid, payer, d, p, b, k, size, 0)
  <2>1. /\ Can(as, by, w, x) <=> CanCreateAccount(as, by, payer, p, n)
        /\ After(as, x) = AfterCreateAccount(as, payer, p, n, ProgramLen)
    BY Creates, Zenon
  <2> HIDE DEF x
  <2>2. Leaves(as, x, mid)
    BY <1>9, <2>1 DEF Leaves
  <2>3. Can(mid, by, w, y) <=> CanDeploy(mid, by, payer, d, p, b, k, size)
    BY <1>6, <1>8, Checks
  <2>4. After(mid, y) = AfterDeploy(mid, payer, d, p, b, k, size, 0)
    BY <1>6, <1>8, Effects
  <2>5. /\ RunOn(as, by, w, <<x, y>>).ok <=>
              /\ Can(as, by, w, x) /\ Locked(as, mid, w)
              /\ Can(mid, by, w, y) /\ Locked(mid, After(mid, y), w)
        /\ RunOn(as, by, w, <<x, y>>).ok => RunOn(as, by, w, <<x, y>>).as = After(mid, y)
    BY <2>2, RunsTwo, Zenon
  <2> QED BY <2>1, <2>3, <2>4, <2>5
<1>10. Signing(<<x, y>>) = {payer, p, k} /\ Writable(<<x, y>>) = {payer, p, d, b}
  <2> HIDE DEF x
  <2>1. /\ \A z : z \in Signing(<<x, y>>) <=> z \in {payer, p, k}
        /\ \A z : z \in Writable(<<x, y>>) <=> z \in {payer, p, d, b}
    <3>1. \A m : m \in ToSet(x.metas) \cup ToSet(y.metas)
                   <=> m \in {m1, m2, m3, m4, m5, m6, m7, m8, m9, m0}
      BY <1>2, <1>7
    <3> QED BY <1>2, <1>3, <3>1, FlaggedInTwo
  <2> QED BY <2>1
<1> QED BY <1>1, <1>9, <1>10, Zenon DEF Installs, d

-----------------------------------------------------------------------------
(* The instructions deploy.ts writes by hand                               *)

\* The same instruction runs alike.
LEMMA SameRuns ==
  ASSUME NEW hand, NEW built, hand = <<Last(built)>>
  PROVE  Alike(hand, built)
BY Zenon DEF Alike

LEMMA LastOf ==
  ASSUME NEW x, NEW y
  PROVE  Last(<<x>>) = x /\ Last(<<x, y>>) = y
BY DEF Last

\* deploy.ts numbers its instructions and orders their accounts as the library does, so
\* on any accounts, those just created for them included, they do the same when one
\* wallet is payer and authority.
THEOREM HandWritten == ClientSpec => []ScriptAgrees
<1>1. ASSUME NEW payer, NEW b, NEW n, NEW size
      PROVE  Alike(scriptInitialize(b, payer), create_buffer(payer, b, payer, n, size))
  <2> DEFINE metas == <<New(b, FALSE), NewReadonly(payer, FALSE)>>
             x == create_account(payer, b, n, size_of_buffer(size))
             y == new_with_bincode("InitializeBuffer", << >>, metas)
  <2>1. create_buffer(payer, b, payer, n, size) = <<x, y>>
    BY Zenon DEF create_buffer
  <2>2. scriptInitialize(b, payer) = <<y>>
    BY Wire, Zenon DEF scriptInitialize, ByHand, new_with_bincode
  <2> HIDE DEF x, y
  <2> QED BY <2>1, <2>2, SameRuns, LastOf
<1>2. ASSUME NEW payer, NEW b, NEW n, NEW c
      PROVE  Alike(scriptWrite(b, payer, n, c), write(b, payer, n, c))
  <2> DEFINE metas == <<New(b, FALSE), NewReadonly(payer, TRUE)>>
             y == new_with_bincode("Write", [offset |-> n, bytes |-> c], metas)
  <2>1. write(b, payer, n, c) = <<y>>
    BY Zenon DEF write
  <2>2. scriptWrite(b, payer, n, c) = <<y>>
    BY Wire, Zenon DEF scriptWrite, ByHand, new_with_bincode
  <2> HIDE DEF y
  <2> QED BY <2>1, <2>2, SameRuns, LastOf
<1>3. ASSUME NEW payer, NEW b, NEW p, NEW n, NEW size
      PROVE  Alike(scriptDeploy(payer, p, b, size),
                   deploy_with_max_program_len(payer, p, b, payer, n, size))
  <2> DEFINE metas == <<New(payer, TRUE), New(Pda[p], FALSE), New(p, FALSE), New(b, FALSE),
                        NewReadonly(rent, FALSE), NewReadonly(clock, FALSE),
                        NewReadonly(system_program, FALSE), NewReadonly(payer, TRUE)>>
             x == create_account(payer, p, n, ProgramLen)
             y == new_with_bincode("DeployWithMaxDataLen", [max_data_len |-> size], metas)
  <2>1. deploy_with_max_program_len(payer, p, b, payer, n, size) = <<x, y>>
    BY Zenon DEF deploy_with_max_program_len
  <2>2. scriptDeploy(payer, p, b, size) = <<y>>
    BY Wire, Zenon DEF scriptDeploy, ByHand, new_with_bincode
  <2> HIDE DEF x, y
  <2> QED BY <2>1, <2>2, SameRuns, LastOf
<1>4. ScriptAgrees
  BY <1>1, <1>2, <1>3, Zenon DEF ScriptAgrees
<1> QED BY <1>4, PTL

-----------------------------------------------------------------------------
(* The accounts the client leaves                                          *)

\* What the accounts of a client that creates every buffer with create_buffer look like
\* between transactions: nothing is left of an account without state, and a buffer is as
\* long as it was created for, with one of the client's authorities.
Made(account0, size) ==
  /\ account0.state.authority \in Authority \cup {None}
  /\ account0.state.tag = "Uninitialized" => account0.data = << >>
  /\ account0.state.tag = "Buffer" =>
       /\ Len(account0.data) = BufferMeta + size
       /\ Changeable(account0) /\ account0.state.authority \in Authority

ClientInv ==
  /\ ClientTypeOK
  /\ \A a \in Address : Made(acct[a], program_len[a])

\* The same of a map of accounts, before and after the empty ones are dropped.
Good(as, sizes0) == as \in Accounts /\ \A a \in Address : Made(as[a], sizes0[a])
Well(as, sizes0) ==
  as \in Accounts /\ \A a \in Address : as[a].lamports = 0 \/ Made(as[a], sizes0[a])

\* A balance says nothing of it.
LEMMA MadeWithBalance ==
  ASSUME NEW x \in Account, NEW n, NEW y, y = [x EXCEPT !.lamports = n], NEW size, Made(x, size)
  PROVE  Made(y, size)
<1>1. /\ y.state = x.state /\ y.data = x.data /\ y.owner = x.owner
      /\ y.executable = x.executable
  BY DEF Account
<1> QED BY <1>1 DEF Made, Changeable

\* What the states serialised by the loader record.
LEMMA Recorded ==
  /\ Uninitialized.tag = "Uninitialized" /\ Uninitialized.authority = None
  /\ \A k : BufferState(k).tag = "Buffer" /\ BufferState(k).authority = k
  /\ \A d : ProgramState(d).tag = "Program" /\ ProgramState(d).authority = None
  /\ \A n, k : ProgramDataState(n, k).tag = "ProgramData" /\ ProgramDataState(n, k).authority = k
BY DEF Uninitialized, BufferState, ProgramState, ProgramDataState

LEMMA AuthorityKeys ==
  /\ Authority \subseteq Key /\ Address \subseteq Key /\ None \notin Key
  /\ \A p \in Program : p \in Address /\ Pda[p] \in Address /\ Pda[p] # p /\ p # None
BY ClientAssumption, KeyAssumption, PdaAssumption

LEMMA NoAccountMade ==
  ASSUME NEW size PROVE Made(NoAccount, size)
BY EmptyAccount, Recorded DEF Made

LEMMA WriteLeaves ==
  ASSUME NEW as, NEW sizes0, Good(as, sizes0), NEW by, NEW b \in Address, NEW k,
         NEW n \in Nat, NEW c \in Seq(Byte), CanWrite(as, by, b, k, n, c)
  PROVE  Well(AfterWrite(as, b, n, c), sizes0)
<1> DEFINE data == Overwrite(as[b].data, BufferMeta + n, c)
           new == AfterWrite(as, b, n, c)
           x == as[b]
           y == [x EXCEPT !.data = data]
<1>1. as \in Accounts /\ x \in Account /\ x.data \in Seq(Cell)
  BY AccountFields DEF Good, Accounts
<1>2. new \in Accounts
  BY <1>1, WriteType
<1>3. Len(data) = Len(x.data)
  <2>1. c \in Seq(Cell) /\ BufferMeta + n \in Nat
    BY Sizes, SeqMonotonic DEF Cell
  <2> QED BY <1>1, <2>1, OverwriteType
<1>4. new[b] = y /\ \A a \in Address \ {b} : new[a] = as[a]
  BY <1>1 DEF AfterWrite, Accounts
<1>5. /\ y.state = x.state /\ y.data = data /\ y.owner = x.owner
      /\ y.executable = x.executable
  BY <1>1 DEF Account
<1>6. x.state.tag = "Buffer"
  BY DEF CanWrite, Holds
<1>7. Made(x, sizes0[b])
  BY DEF Good
<1> HIDE DEF data, new, x, y
<1>8. Made(y, sizes0[b])
  BY <1>3, <1>5, <1>6, <1>7 DEF Made, Changeable
<1> QED BY <1>2, <1>4, <1>8 DEF Well, Good, new

LEMMA SetAuthorityLeaves ==
  ASSUME NEW as, NEW sizes0, Good(as, sizes0), NEW by, NEW b \in Address, NEW k,
         NEW to \in Authority \cup {None}, CanSetAuthority(as, by, b, k, to)
  PROVE  Well(AfterSetAuthority(as, b, to), sizes0)
<1> DEFINE x == as[b]
           state == IF x.state.tag = "Buffer" THEN BufferState(to)
                    ELSE ProgramDataState(x.state.slot, to)
           y == SetState(x, state)
           new == AfterSetAuthority(as, b, to)
<1>1. as \in Accounts /\ x \in Account /\ x.state.slot \in Nat /\ to \in Key \cup {None}
  BY AccountFields, AuthorityKeys DEF Good, Accounts
<1>2. new \in Accounts
  BY <1>1, SetAuthorityEffect
<1>3. state \in State
  BY <1>1, StateType
<1>4. new[b] = y /\ \A a \in Address \ {b} : new[a] = as[a]
  BY <1>1 DEF AfterSetAuthority, Accounts
<1>5. /\ y.state = state /\ Len(y.data) = Len(x.data) /\ y.owner = x.owner
      /\ y.executable = x.executable
  <2> HIDE DEF state, x
  <2> QED BY <1>1, <1>3, SetStateType
<1>6. /\ x.state.tag = "Buffer" => to \in Authority
      /\ state.authority = to
      /\ state.tag # "Uninitialized" /\ (state.tag = "Buffer" <=> x.state.tag = "Buffer")
  BY Recorded DEF CanSetAuthority, Holds
<1>7. Made(x, sizes0[b])
  BY DEF Good
<1> HIDE DEF new, x, y, state
<1>8. Made(y, sizes0[b])
  BY <1>5, <1>6, <1>7 DEF Made, Changeable
<1> QED BY <1>2, <1>4, <1>8 DEF Well, Good, new

LEMMA CloseLeaves ==
  ASSUME NEW as, NEW sizes0, Good(as, sizes0), NEW by, NEW a \in Address, NEW r \in Address,
         NEW k, NEW p, CanClose(as, by, a, r, k, p)
  PROVE  Well(AfterClose(as, a, r), sizes0)
<1> DEFINE new == AfterClose(as, a, r)
<1>1. as \in Accounts /\ as[r] \in Account /\ Made(as[r], sizes0[r])
  BY DEF Good, Accounts
<1>2. new \in Accounts /\ Closed(as, new, a, r)
  BY <1>1, CloseEffect
<1> HIDE DEF new
<1>3. Made(new[r], sizes0[r])
  <2>1. new[r] = [as[r] EXCEPT !.lamports = as[r].lamports + as[a].lamports]
    BY <1>2 DEF Closed
  <2> QED BY <1>1, <2>1, MadeWithBalance, Zenon
<1>4. new[a].lamports = 0 /\ \A z \in Address \ {a, r} : new[z] = as[z]
  BY <1>2 DEF Closed
<1> QED BY <1>2, <1>3, <1>4 DEF Well, Good, new

LEMMA UpgradeLeaves ==
  ASSUME NEW as, NEW sizes0, Good(as, sizes0), NEW by, NEW d \in Address, NEW p \in Program,
         NEW b \in Address, NEW spill \in Address, NEW k \in Authority,
         CanUpgrade(as, by, d, p, b, spill, k)
  PROVE  Well(AfterUpgrade(as, d, b, spill, k, 0), sizes0)
<1> DEFINE new == AfterUpgrade(as, d, b, spill, k, 0)
<1>1. as \in Accounts /\ as[spill] \in Account /\ Made(as[spill], sizes0[spill]) /\ k \in Key
  BY AuthorityKeys DEF Good, Accounts
<1>2. new \in Accounts /\ Upgraded(as, new, d, b, spill, k, 0)
  BY <1>1, UpgradeEffect
<1>3. UpgradedProgramData(as, d, b, k, 0).state = ProgramDataState(0, k)
  <2>1. 0 \in Nat
    OBVIOUS
  <2> QED BY <1>1, <2>1, UpgradedProgramDataType, Zenon
<1> HIDE DEF new
<1>4. Made(new[spill], sizes0[spill])
  <2>1. new[spill] = [as[spill] EXCEPT !.lamports = as[spill].lamports + Surplus(as, d, b)]
    BY <1>2 DEF Upgraded
  <2> QED BY <1>1, <2>1, MadeWithBalance, Zenon
<1>5. Made(new[d], sizes0[d])
  <2>1. new[d].state = ProgramDataState(0, k)
    BY <1>2, <1>3 DEF Upgraded
  <2> QED BY <2>1, Recorded DEF Made
<1>6. new[b].lamports = 0 /\ \A z \in Address \ {spill, b, d} : new[z] = as[z]
  <2>1. as[b] \in Account
    BY <1>1 DEF Accounts
  <2> QED BY <1>2, <2>1 DEF Upgraded, Account
<1> QED BY <1>2, <1>4, <1>5, <1>6 DEF Well, Good, new

\* CreateAccount leaves an allocation, and only a balance less at the payer.
Allocates(as, mid, payer, b, n, space, sizes0) ==
  /\ mid \in Accounts /\ payer # b /\ mid[b] = Allocated(n, space)
  /\ mid[payer] = [as[payer] EXCEPT !.lamports = as[payer].lamports - n]
  /\ \A a \in Address \ {payer, b} : mid[a] = as[a]
  /\ \A a \in Address \ {b} : Made(mid[a], sizes0[a])

LEMMA CreateLeaves ==
  ASSUME NEW as, NEW sizes0, Good(as, sizes0), NEW by, NEW payer \in Address, NEW b \in Address,
         NEW n \in Nat, NEW space \in Nat, CanCreateAccount(as, by, payer, b, n), NEW mid,
         mid = AfterCreateAccount(as, payer, b, n, space)
  PROVE  Allocates(as, mid, payer, b, n, space, sizes0)
<1>1. as \in Accounts /\ as[payer] \in Account /\ Made(as[payer], sizes0[payer])
  BY DEF Good, Accounts
<1>2. mid \in Accounts
  BY <1>1, CreateAccountType
<1>3. payer # b
  BY DEF CanCreateAccount
<1>4. /\ mid[b] = Allocated(n, space)
      /\ mid[payer] = [as[payer] EXCEPT !.lamports = as[payer].lamports - n]
      /\ \A a \in Address \ {payer, b} : mid[a] = as[a]
  BY <1>1, <1>3 DEF AfterCreateAccount, Accounts
<1>5. Made(mid[payer], sizes0[payer])
  BY <1>1, <1>4, MadeWithBalance, Zenon
<1>6. \A a \in Address \ {b} : Made(mid[a], sizes0[a])
  BY <1>4, <1>5 DEF Good
<1> QED BY <1>2, <1>3, <1>4, <1>6 DEF Allocates

\* A buffer is created as long as asked.
LEMMA BufferLeaves ==
  ASSUME NEW as, NEW sizes0 \in [Address -> Nat], Good(as, sizes0), NEW by,
         NEW payer \in Address, NEW b \in Address, NEW k \in Authority, NEW n \in Nat,
         NEW size \in Nat, CanCreateAccount(as, by, payer, b, n), NEW mid,
         mid = AfterCreateAccount(as, payer, b, n, size_of_buffer(size))
  PROVE  Well(AfterInitializeBuffer(mid, b, k), [sizes0 EXCEPT ![b] = size])
<1> DEFINE space == size_of_buffer(size)
           x == mid[b]
           y == SetState(x, BufferState(k))
           new == AfterInitializeBuffer(mid, b, k)
           lens == [sizes0 EXCEPT ![b] = size]
<1>1. space \in Nat /\ space = BufferMeta + size /\ k \in Key
  BY Sizes, AuthorityKeys DEF size_of_buffer
<1>0. mid = AfterCreateAccount(as, payer, b, n, space)
  OBVIOUS
<1> HIDE DEF space
<1>2. /\ mid \in Accounts /\ x = Allocated(n, space)
      /\ \A a \in Address \ {b} : Made(mid[a], sizes0[a])
  <2>1. Allocates(as, mid, payer, b, n, space, sizes0)
    BY <1>0, <1>1, CreateLeaves, Zenon
  <2> QED BY <2>1 DEF Allocates
<1>3. x \in Account /\ Len(x.data) = space /\ x.owner = "loader" /\ ~x.executable
  <2>1. x \in Account /\ Len(x.data) = space
    BY <1>1, <1>2, AllocatedType
  <2>2. x.owner = "loader" /\ x.executable = FALSE
    BY <1>2 DEF Allocated, NoAccount
  <2> QED BY <2>1, <2>2
<1>4. new \in Accounts
  BY <1>1, <1>2, InitializeBufferType
<1>5. new[b] = y /\ \A a \in Address \ {b} : new[a] = mid[a]
  BY <1>2 DEF AfterInitializeBuffer, Accounts
<1>6. BufferState(k) \in State
  BY <1>1, StateType
<1> HIDE DEF x, new
<1>7. /\ y.state = BufferState(k) /\ Len(y.data) = space /\ y.owner = "loader"
      /\ ~y.executable
  BY <1>3, <1>6, SetStateType
<1> HIDE DEF y
<1>8. Made(y, size)
  BY <1>1, <1>7, Recorded DEF Made, Changeable
<1>9. lens[b] = size /\ \A a \in Address \ {b} : lens[a] = sizes0[a]
  OBVIOUS
<1> HIDE DEF lens
<1>10. \A a \in Address : Made(new[a], lens[a])
  BY <1>2, <1>5, <1>8, <1>9
<1> QED BY <1>4, <1>10 DEF Well, new, lens

\* The state of the programdata a deployment makes.
LEMMA DeployedState ==
  ASSUME NEW as \in Accounts, NEW b \in Address, NEW k \in Key, NEW size \in Nat
  PROVE  DeployedProgramData(as, b, k, size, 0).state = ProgramDataState(0, k)
<1>1. \A n \in Nat : DeployedProgramData(as, b, k, size, n).state = ProgramDataState(n, k)
  BY DeployedProgramDataType
<1> QED BY <1>1

\* A program is deployed from a buffer that is left empty.
LEMMA DeployLeaves ==
  ASSUME NEW as, NEW sizes0, Good(as, sizes0), NEW by, NEW payer \in Address,
         NEW p \in Program, NEW b \in Address, NEW k \in Authority, NEW n \in Nat,
         NEW size \in Nat, CanCreateAccount(as, by, payer, p, n), NEW mid,
         mid = AfterCreateAccount(as, payer, p, n, ProgramLen),
         CanDeploy(mid, by, payer, Pda[p], p, b, k, size)
  PROVE  Well(AfterDeploy(mid, payer, Pda[p], p, b, k, size, 0), sizes0)
<1> DEFINE d == Pda[p]
           new == AfterDeploy(mid, payer, d, p, b, k, size, 0)
<1>1. k \in Key /\ p \in Address /\ d \in Address /\ 0 \in Nat
  BY AuthorityKeys
<1>2. mid \in Accounts /\ \A a \in Address \ {p} : Made(mid[a], sizes0[a])
  <2>1. ProgramLen \in Nat
    BY Sizes
  <2>2. Allocates(as, mid, payer, p, n, ProgramLen, sizes0)
    BY <1>1, <2>1, CreateLeaves, Zenon
  <2> QED BY <2>2 DEF Allocates
<1>3. new \in Accounts /\ Deployed(mid, new, payer, d, p, b, k, size, 0)
  BY <1>1, <1>2, DeployEffect
<1>4. payer # p /\ payer # b /\ payer # d /\ b # d /\ b # p /\ d # p
  BY <1>1, <1>2, DeployAccounts, Zenon
<1>5. DeployedProgramData(mid, b, k, size, 0).state = ProgramDataState(0, k)
  BY <1>1, <1>2, DeployedState, Zenon
<1>6. SetState(mid[p], ProgramState(d)) \in Account
        /\ SetState(mid[p], ProgramState(d)).state = ProgramState(d)
  <2>1. mid[p] \in Account /\ ProgramState(d) \in State
    BY <1>1, <1>2, StateType DEF Accounts
  <2> QED BY <2>1, SetStateType
<1>7. mid[payer] \in Account /\ mid[b] \in Account
  BY <1>2 DEF Accounts
<1> HIDE DEF new, d
<1>8. Made(new[payer], sizes0[payer])
  <2>1. new[payer] = [mid[payer] EXCEPT !.lamports = PayerLeft(mid, payer, b, size)]
    BY <1>3 DEF Deployed
  <2>2. Made(mid[payer], sizes0[payer])
    BY <1>2, <1>4
  <2> QED BY <1>7, <2>1, <2>2, MadeWithBalance, Zenon
<1>9. Made(new[d], sizes0[d])
  <2>1. new[d].state = ProgramDataState(0, k)
    BY <1>3, <1>5 DEF Deployed
  <2> QED BY <2>1, Recorded DEF Made
<1>10. Made(new[p], sizes0[p])
  <2>1. new[p].state = ProgramState(d)
    BY <1>3, <1>6 DEF Deployed, Account
  <2> QED BY <2>1, Recorded DEF Made
<1>11. new[b].lamports = 0 /\ \A z \in Address \ {payer, b, d, p} : new[z] = mid[z]
  BY <1>3, <1>7 DEF Deployed, Account
<1>12. ASSUME NEW a \in Address PROVE new[a].lamports = 0 \/ Made(new[a], sizes0[a])
  BY <1>2, <1>8, <1>9, <1>10, <1>11
<1> QED BY <1>3, <1>12 DEF Well, new, d

\* Setting the state of a programdata leaves its program.
LEMMA SetStateContent ==
  ASSUME NEW x \in Account, NEW state \in State, state.tag = "ProgramData"
  PROVE  ProgramDataContent(SetState(x, state)) = ProgramDataContent(x)
<1> DEFINE n == Len(x.data)
           y == SetState(x, state)
<1>1. y \in Account /\ Len(y.data) = n /\ n \in Nat /\ ProgramDataMeta \in Nat
  BY SetStateType, AccountFields, Sizes
<1>2. \A m \in 1..n : m > ProgramDataMeta => y.data[m] = x.data[m]
  <2>1. StateLen(state.tag) = ProgramDataMeta
    BY DEF StateLen
  <2> QED BY <1>1, <2>1, SetStateCells
<1> HIDE DEF y
<1>3. CASE ProgramDataMeta <= n
  <2> DEFINE s == Content(x, ProgramDataMeta)
             t == Content(y, ProgramDataMeta)
  <2>1. /\ s \in Seq(Cell) /\ t \in Seq(Cell)
        /\ Len(s) = n - ProgramDataMeta /\ Len(t) = n - ProgramDataMeta
    BY <1>1, <1>3, ContentType
  <2>2. \A m \in 1 .. n - ProgramDataMeta : t[m] = s[m]
    <3> SUFFICES ASSUME NEW m \in 1 .. n - ProgramDataMeta PROVE t[m] = s[m]
      OBVIOUS
    <3>1. s[m] = x.data[ProgramDataMeta + m] /\ t[m] = y.data[ProgramDataMeta + m]
      BY <1>1, <1>3, ContentCells
    <3>2. ProgramDataMeta + m \in 1..n /\ ProgramDataMeta + m > ProgramDataMeta
      BY <1>1, <1>3
    <3> QED BY <1>2, <3>1, <3>2
  <2> HIDE DEF s, t
  <2>3. t = s
    BY <2>1, <2>2, SeqEqual
  <2> QED BY <2>3 DEF s, t, y, ProgramDataContent
<1>4. CASE ~(ProgramDataMeta <= n)
  <2>1. Content(x, ProgramDataMeta) = << >> /\ Content(y, ProgramDataMeta) = << >>
    BY <1>1, <1>4 DEF Content
  <2> QED BY <2>1 DEF y, ProgramDataContent
<1> QED BY <1>1, <1>3, <1>4

\* All but the last of one or two.
LEMMA FrontOf ==
  ASSUME NEW x, NEW y
  PROVE  Front(<<x>>) = << >> /\ Front(<<x, y>>) = <<x>>
<1> DEFINE S == {x, y}
           one == <<x>>
           two == <<x, y>>
<1>1. /\ one \in Seq(S) /\ Len(one) = 1 /\ two \in Seq(S) /\ Len(two) = 2
      /\ one[1] = x /\ two[1] = x
  OBVIOUS
<1>2. Front(one) = SubSeq(one, 1, 0) /\ Front(two) = SubSeq(two, 1, 1)
  <2> HIDE DEF one, two, S
  <2> QED BY <1>1 DEF Front
<1>3. SubSeq(one, 1, 0) = << >>
  <2> HIDE DEF one, S
  <2> QED BY <1>1
<1>4. SubSeq(two, 1, 1) = one
  <2>1. \A n \in 1..2 : two[n] \in S
    OBVIOUS
  <2> HIDE DEF one, two, S
  <2>2. \A n \in 1..1 : two[n] \in S
    BY <2>1
  <2>3. /\ SubSeq(two, 1, 1) \in Seq(S) /\ Len(SubSeq(two, 1, 1)) = 1
        /\ \A n \in 1..1 : SubSeq(two, 1, 1)[n] = two[n]
    BY <2>2, SubSeqProperties
  <2>4. \A n \in 1..1 : SubSeq(two, 1, 1)[n] = one[n]
    BY <1>1, <2>3
  <2> QED BY <1>1, <2>3, <2>4, SeqEqual
<1> QED BY <1>2, <1>3, <1>4

\* The number of the last instruction of a transaction, and what runs before it.
Alone(list, n) ==
  /\ Last(list).data.index = n
  /\ \A as, by, w : RunOn(as, by, w, Front(list)).as = as
Prepares(list, payer, p, n) ==
  \A as, by, w : RunOn(as, by, w, list).ok =>
    RunOn(as, by, w, Front(list)).as = AfterCreateAccount(as, payer, p, n, ProgramLen)

LEMMA OnlyOne ==
  ASSUME NEW variant, NEW fields, NEW metas, NEW n,
         serialize(variant, fields) = [index |-> n, fields |-> fields]
  PROVE  Alone(<<new_with_bincode(variant, fields, metas)>>, n)
<1> DEFINE x == new_with_bincode(variant, fields, metas)
<1>1. x.data = serialize(variant, fields)
  BY Zenon DEF new_with_bincode, Instruction
<1>2. x.data.index = n
  BY <1>1
<1> HIDE DEF x
<1>3. Last(<<x>>).data.index = n
  BY <1>2, LastOf
<1>4. ASSUME NEW as, NEW by, NEW w PROVE RunOn(as, by, w, Front(<<x>>)).as = as
  <2>1. Front(<<x>>) = << >>
    BY FrontOf
  <2>2. RunOn(as, by, w, << >>) = Going(as)
    BY NoSteps, Zenon DEF Going
  <2>3. RunOn(as, by, w, << >>).as = as
    BY <2>2, Fields, Zenon
  <2> QED BY <2>1, <2>3, Zenon
<1>5. Alone(<<x>>, n)
  BY <1>3, <1>4, Zenon DEF Alone
<1> QED BY <1>5 DEF x

\* The numbers of the instructions that go alone.
LEMMA Numbers ==
  /\ \A b, k, n, c : Alone(write(b, k, n, c), 1)
  /\ \A p, b, k, spill : Alone(upgrade(p, b, k, spill), 3)
  /\ \A b, k, new : Alone(set_buffer_authority(b, k, new), 4)
  /\ \A p, k, new : Alone(set_upgrade_authority(p, k, new), 4)
  /\ \A a, r, k, q : Alone(close_any(a, r, k, q), 5)
<1>1. ASSUME NEW fields, NEW metas
      PROVE  /\ Alone(<<new_with_bincode("Write", fields, metas)>>, 1)
             /\ Alone(<<new_with_bincode("Upgrade", fields, metas)>>, 3)
             /\ Alone(<<new_with_bincode("SetAuthority", fields, metas)>>, 4)
             /\ Alone(<<new_with_bincode("Close", fields, metas)>>, 5)
  BY Wire, OnlyOne
<1> QED BY <1>1, Zenon DEF write, upgrade, set_buffer_authority, set_upgrade_authority, close_any

LEMMA DeployPrepares ==
  ASSUME NEW payer, NEW p, NEW b, NEW k, NEW n, NEW size
  PROVE  Prepares(deploy_with_max_program_len(payer, p, b, k, n, size), payer, p, n)
<1> DEFINE x == create_account(payer, p, n, ProgramLen)
           metas == <<New(payer, TRUE), New(Pda[p], FALSE), New(p, FALSE), New(b, FALSE),
                      NewReadonly(rent, FALSE), NewReadonly(clock, FALSE),
                      NewReadonly(system_program, FALSE), NewReadonly(k, TRUE)>>
           y == new_with_bincode("DeployWithMaxDataLen", [max_data_len |-> size], metas)
<1>1. deploy_with_max_program_len(payer, p, b, k, n, size) = <<x, y>>
  BY Zenon DEF deploy_with_max_program_len
<1>2. \A as : After(as, x) = AfterCreateAccount(as, payer, p, n, ProgramLen)
  BY Creates, Zenon
<1> HIDE DEF x, y
<1>3. Front(<<x, y>>) = <<x>>
  BY FrontOf
<1>4. ASSUME NEW as, NEW by, NEW w, RunOn(as, by, w, <<x, y>>).ok
      PROVE  RunOn(as, by, w, <<x>>).as = After(as, x)
  <2>1. PICK mid : Leaves(as, x, mid)
    BY Zenon DEF Leaves
  <2>2. Both(as, by, w, x, y, mid)
    BY <2>1, RunTwo, Zenon
  <2>3. Executes(as, by, w, x)
    BY <1>4, <2>2, Zenon DEF Both
  <2> QED BY <2>3, RunOne, Zenon
<1> QED BY <1>1, <1>2, <1>3, <1>4, Zenon DEF Prepares

-----------------------------------------------------------------------------
(* What the client sends keeps its accounts in order                       *)

\* The transactions of the client, by the function that builds them.
Writing(list) ==
  \E b \in Address, k \in Authority, n \in Offsets, c \in Chunk :
    Fills(list, b, k, n, c) /\ Alone(list, 1)
Deploying(list) ==
  \E payer \in Address, p \in Program, b \in Address, k \in Authority, n \in Deposit,
     size \in ProgramLens :
    Installs(list, payer, p, b, k, n, size) /\ Prepares(list, payer, p, n)
Upgrading(list) ==
  \E p \in Program, b \in Address, k \in Authority, spill \in Address :
    Replaces(list, p, b, k, spill) /\ Alone(list, 3)
HandingOver(list) ==
  \E a \in Address, k \in Authority, new \in Authority \cup {None} :
    Hands(list, a, k, new) /\ Alone(list, 4)
Closing(list) ==
  \E a \in Address, r \in Address, k \in Authority \cup {None}, q \in Program \cup {None} :
    Empties(list, a, r, k, q) /\ Alone(list, 5)
Unsupported(list) == \A as, by, w : ~RunOn(as, by, w, list).ok

LEMMA Kinds ==
  ASSUME NEW list \in Built
  PROVE  \/ Writing(list) \/ Deploying(list) \/ Upgrading(list) \/ HandingOver(list)
         \/ Closing(list) \/ Unsupported(list)
<1>1. \/ list \in Writes \/ list \in Deploys \/ list \in Upgrades \/ list \in Sets
      \/ list \in SetsUpgrade \/ list \in ClosesAny \/ list \in ClosesOwn \/ list \in SetsChecked
      \/ list \in SetsUpgradeChecked \/ list \in Extends
  BY DEF Built
<1>2. list \in Writes => Writing(list)
  <2>1. \A b, k, n, c : Fills(write(b, k, n, c), b, k, n, c) /\ Alone(write(b, k, n, c), 1)
    BY WriteRuns, Numbers, Zenon
  <2> QED BY <2>1 DEF Writing, Writes
<1>3. list \in Deploys => Deploying(list)
  <2> DEFINE one(payer, p, b, k, n, size) ==
               deploy_with_max_program_len(payer, p, b, k, n, size)
  <2>1. \A payer, p, b, k, n, size :
          /\ Installs(one(payer, p, b, k, n, size), payer, p, b, k, n, size)
          /\ Prepares(one(payer, p, b, k, n, size), payer, p, n)
    BY DeployRuns, DeployPrepares, Zenon
  <2> QED BY <2>1 DEF Deploying, Deploys
<1>4. list \in Upgrades => Upgrading(list)
  <2>1. \A p, b, k, spill : /\ Replaces(upgrade(p, b, k, spill), p, b, k, spill)
                            /\ Alone(upgrade(p, b, k, spill), 3)
    BY UpgradeRuns, Numbers, Zenon
  <2> QED BY <2>1 DEF Upgrading, Upgrades
<1>5. list \in Sets \cup SetsUpgrade => HandingOver(list)
  <2>1. \A b, k, new : /\ Hands(set_buffer_authority(b, k, new), b, k, new)
                       /\ Alone(set_buffer_authority(b, k, new), 4)
    BY SetBufferRuns, Numbers, Zenon
  <2>2. \A p, k, new : /\ Hands(set_upgrade_authority(p, k, new), Pda[p], k, new)
                       /\ Alone(set_upgrade_authority(p, k, new), 4)
    BY SetUpgradeRuns, Numbers, Zenon
  <2> QED BY <2>1, <2>2, AuthorityKeys DEF HandingOver, Sets, SetsUpgrade
<1>6. list \in ClosesAny \cup ClosesOwn => Closing(list)
  <2>1. \A a, r, k, q : /\ Empties(close_any(a, r, k, q), a, r, k, q)
                        /\ Alone(close_any(a, r, k, q), 5)
    BY CloseRuns, Numbers, Zenon
  <2> QED BY <2>1 DEF Closing, close, ClosesAny, ClosesOwn
<1>7. list \in SetsChecked \cup SetsUpgradeChecked \cup Extends => Unsupported(list)
  <2>1. /\ \A p, k, new : Unsupported(set_buffer_authority_checked(p, k, new))
        /\ \A p, k, new : Unsupported(set_upgrade_authority_checked(p, k, new))
        /\ \A p, k, new : Unsupported(extend_program(p, k, new))
    BY UnsupportedRuns, Zenon DEF Unsupported
  <2> QED BY <2>1 DEF SetsChecked, SetsUpgradeChecked, Extends
<1> QED BY <1>1, <1>2, <1>3, <1>4, <1>5, <1>6, <1>7

\* The parameters of the client.
LEMMA Parameters ==
  /\ \A n \in Offsets : n \in Nat
  /\ \A n \in Deposit : n \in Nat
  /\ \A n \in ProgramLens : n \in Nat
  /\ \A n \in BufferLens : n \in Nat
  /\ \A c \in Chunk : c \in Seq(Byte)
BY ClientAssumption

\* Whatever a client builds leaves, if it goes through, accounts in order.
LEMMA BuiltLeaves ==
  ASSUME NEW as, NEW sizes0, Good(as, sizes0), NEW list \in Built, NEW by, NEW w,
         RunOn(as, by, w, list).ok
  PROVE  Well(RunOn(as, by, w, list).as, sizes0)
<1> DEFINE ends(new) == RunOn(as, by, w, list).as = new
<1>1. CASE Writing(list)
  <2>1. PICK b \in Address, k \in Authority, n \in Offsets, c \in Chunk : Fills(list, b, k, n, c)
    BY <1>1, Zenon DEF Writing
  <2>2. CanWrite(as, by, b, k, n, c) /\ ends(AfterWrite(as, b, n, c))
    BY <2>1, Zenon DEF Fills
  <2>3. n \in Nat /\ c \in Seq(Byte)
    BY Parameters
  <2>4. Well(AfterWrite(as, b, n, c), sizes0)
    BY <2>2, <2>3, WriteLeaves, Zenon
  <2> QED BY <2>2, <2>4, Zenon
<1>2. CASE Deploying(list)
  <2>1. PICK payer \in Address, p \in Program, b \in Address, k \in Authority, n \in Deposit,
             size \in ProgramLens : Installs(list, payer, p, b, k, n, size)
    BY <1>2, Zenon DEF Deploying
  <2>2. PICK mid : mid = AfterCreateAccount(as, payer, p, n, ProgramLen)
    OBVIOUS
  <2>3. /\ CanCreateAccount(as, by, payer, p, n)
        /\ CanDeploy(mid, by, payer, Pda[p], p, b, k, size)
        /\ ends(AfterDeploy(mid, payer, Pda[p], p, b, k, size, 0))
    BY <2>1, <2>2, Zenon DEF Installs
  <2>4. n \in Nat /\ size \in Nat
    BY Parameters
  <2>5. Well(AfterDeploy(mid, payer, Pda[p], p, b, k, size, 0), sizes0)
    BY <2>2, <2>3, <2>4, DeployLeaves, Zenon
  <2> QED BY <2>3, <2>5, Zenon
<1>3. CASE Upgrading(list)
  <2>1. PICK p \in Program, b \in Address, k \in Authority, spill \in Address :
             Replaces(list, p, b, k, spill)
    BY <1>3, Zenon DEF Upgrading
  <2>2. /\ CanUpgrade(as, by, Pda[p], p, b, spill, k)
        /\ ends(AfterUpgrade(as, Pda[p], b, spill, k, 0))
    BY <2>1, Zenon DEF Replaces
  <2>3. Pda[p] \in Address
    BY AuthorityKeys
  <2>4. Well(AfterUpgrade(as, Pda[p], b, spill, k, 0), sizes0)
    BY <2>2, <2>3, UpgradeLeaves, Zenon
  <2> QED BY <2>2, <2>4, Zenon
<1>4. CASE HandingOver(list)
  <2>1. PICK a \in Address, k \in Authority, new \in Authority \cup {None} :
             Hands(list, a, k, new)
    BY <1>4, Zenon DEF HandingOver
  <2>2. CanSetAuthority(as, by, a, k, new) /\ ends(AfterSetAuthority(as, a, new))
    BY <2>1, Zenon DEF Hands
  <2>3. Well(AfterSetAuthority(as, a, new), sizes0)
    BY <2>2, SetAuthorityLeaves, Zenon
  <2> QED BY <2>2, <2>3, Zenon
<1>5. CASE Closing(list)
  <2>1. PICK a \in Address, r \in Address, k \in Authority \cup {None},
             q \in Program \cup {None} : Empties(list, a, r, k, q)
    BY <1>5, Zenon DEF Closing
  <2>2. /\ CanClose(as, by, a, r, Second(k, q), Third(k, q))
        /\ ends(AfterClose(as, a, r))
    BY <2>1, Zenon DEF Empties
  <2>3. Well(AfterClose(as, a, r), sizes0)
    BY <2>2, CloseLeaves, Zenon
  <2> QED BY <2>2, <2>3, Zenon
<1>6. CASE Unsupported(list)
  BY <1>6, Zenon DEF Unsupported
<1> QED BY <1>1, <1>2, <1>3, <1>4, <1>5, <1>6, Kinds, Zenon

\* What is left when the empty accounts are dropped.
LEMMA PurgedInv ==
  ASSUME NEW new, NEW sizes0 \in [Address -> Nat], Well(new, sizes0), acct' = Purge(new),
         Created(sizes0)
  PROVE  ClientInv'
<1>1. acct' \in [Address -> Account]
  BY PurgeType DEF Well, Accounts
<1>2. program_len' \in [Address -> Nat]
  BY DEF Created
<1>3. ASSUME NEW a \in Address PROVE Made(acct'[a], program_len'[a])
  <2>1. CASE new[a].lamports = 0
    BY <2>1, NoAccountMade DEF Purge
  <2>2. CASE new[a].lamports # 0
    <3>1. acct'[a] = new[a] /\ Made(new[a], sizes0[a])
      BY <2>2 DEF Purge, Well
    <3>2. acct'[a].state.tag = "Buffer" => program_len'[a] = sizes0[a]
      BY DEF Created
    <3> QED BY <3>1, <3>2 DEF Made
  <2> QED BY <2>1, <2>2
<1> QED BY <1>1, <1>2, <1>3 DEF ClientInv, ClientTypeOK

\* The chain starts with balances only.
LEMMA InitClient == ClientInit => ClientInv
<1> SUFFICES ASSUME ClientInit PROVE ClientInv
  OBVIOUS
<1>1. ClientTypeOK
  BY ClientAssumption DEF ClientInit, ClientTypeOK
<1>2. ASSUME NEW a \in Address PROVE Made(acct[a], program_len[a])
  <2>1. acct[a] = [NoAccount EXCEPT !.lamports = Supply[a].lamports]
    BY ClientAssumption DEF ClientInit
  <2>2. NoAccount \in Account /\ Made(NoAccount, program_len[a])
    <3>1. 0 \in Nat
      OBVIOUS
    <3> QED BY <3>1, AllocatedType, NoAccountMade
  <2> QED BY <2>1, <2>2, MadeWithBalance, Zenon
<1> QED BY <1>1, <1>2 DEF ClientInv

\* Every step keeps the accounts in order.
LEMMA NextClient ==
  ASSUME ClientInv, [ClientNext]_clientVars
  PROVE  ClientInv'
<1>1. Good(acct, program_len) /\ program_len \in [Address -> Nat]
  BY DEF ClientInv, ClientTypeOK, Good, Accounts
<1>2. ASSUME NEW payer \in Address, NEW b \in Address, NEW k \in Authority, NEW n \in Deposit,
             NEW size \in BufferLens, CreateBuffer(payer, b, k, n, size)
      PROVE  ClientInv'
  <2> DEFINE list == create_buffer(payer, b, k, n, size)
             end == RunOn(acct, Signing(list), Writable(list), list)
             lens == [program_len EXCEPT ![b] = size]
  <2>1. end.ok /\ acct' = Purge(end.as) /\ Created(lens)
    BY <1>2, Zenon DEF CreateBuffer, Send, Run
  <2>2. PICK mid : mid = AfterCreateAccount(acct, payer, b, n, size_of_buffer(size))
    OBVIOUS
  <2>3. k # None /\ n \in Nat /\ size \in Nat
    BY AuthorityKeys, Parameters
  <2>4. /\ CanCreateAccount(acct, Signing(list), payer, b, n)
        /\ end.as = AfterInitializeBuffer(mid, b, k)
    <3>1. Makes(list, payer, b, k, n, size)
      BY <2>3, CreateRuns, Zenon
    <3> QED BY <2>1, <2>2, <3>1, Zenon DEF Makes
  <2> HIDE DEF list
  <2>5. Well(AfterInitializeBuffer(mid, b, k), lens)
    BY <1>1, <2>2, <2>3, <2>4, BufferLeaves, Zenon
  <2>6. Well(end.as, lens)
    BY <2>4, <2>5, Zenon
  <2>7. lens \in [Address -> Nat]
    BY <1>1, <2>3
  <2> HIDE DEF end, lens
  <2> QED BY <2>1, <2>6, <2>7, PurgedInv, Zenon
<1>3. ASSUME NEW list \in Built, Send(list), Created(program_len)
      PROVE  ClientInv'
  <2> DEFINE end == RunOn(acct, Signing(list), Writable(list), list)
  <2>1. end.ok /\ acct' = Purge(end.as)
    BY <1>3, Zenon DEF Send, Run
  <2>2. Well(end.as, program_len)
    BY <1>1, <2>1, BuiltLeaves, Zenon
  <2> HIDE DEF end
  <2> QED BY <1>1, <1>3, <2>1, <2>2, PurgedInv, Zenon
<1>4. CASE UNCHANGED clientVars
  BY <1>4 DEF clientVars, ClientInv, ClientTypeOK
<1> QED BY <1>2, <1>3, <1>4, Zenon DEF ClientNext

\* Every account of the client stays in order.
LEMMA ClientInvariant == ClientSpec => []ClientInv
BY InitClient, NextClient, PTL DEF ClientSpec

\* Accounts stay well formed whatever the client sends.
THEOREM ClientTypeCorrect == ClientSpec => []ClientTypeOK
BY ClientInvariant, PTL DEF ClientInv

\* A buffer made by create_buffer for a length holds a program of that length up to its
\* last cell and no longer one, whoever had its authority in between.
THEOREM BuffersHoldPrograms == ClientSpec => []BufferHoldsProgram
<1>1. ASSUME ClientInv, NEW b \in Address, Holds(acct[b], "Buffer"), NEW n \in Offsets,
             NEW c \in Chunk
      PROVE  Run(Key, Key, write(b, acct[b].state.authority, n, c)).ok
               <=> n + Len(c) <= program_len[b]
  <2> DEFINE k == acct[b].state.authority
  <2>1. /\ Len(acct[b].data) = BufferMeta + program_len[b] /\ Changeable(acct[b])
        /\ k \in Authority
    BY <1>1 DEF ClientInv, Made, Holds
  <2>2. Run(Key, Key, write(b, k, n, c)).ok <=>
          CanWrite(acct, Key, b, k, n, c) /\ Locked(acct, AfterWrite(acct, b, n, c), Key)
    <3>1. Fills(write(b, k, n, c), b, k, n, c)
      BY WriteRuns, Zenon
    <3> QED BY <3>1, Zenon DEF Fills, Run
  <2>3. Locked(acct, AfterWrite(acct, b, n, c), Key)
    BY AuthorityKeys DEF Locked
  <2>4. Authorised(acct[b].state, k, Key)
    BY <2>1, AuthorityKeys DEF Authorised
  <2>5. CanWrite(acct, Key, b, k, n, c) <=> Len(acct[b].data) >= BufferMeta + n + Len(c)
    BY <1>1, <2>1, <2>4 DEF CanWrite
  <2>6. BufferMeta \in Nat /\ n \in Nat /\ Len(c) \in Nat /\ program_len[b] \in Nat
    BY <1>1, Sizes, Parameters, LenProperties DEF ClientInv, ClientTypeOK
  <2> QED BY <2>1, <2>2, <2>3, <2>5, <2>6
<1>2. ClientInv => BufferHoldsProgram
  BY <1>1 DEF BufferHoldsProgram
<1> QED BY <1>2, ClientInvariant, PTL

-----------------------------------------------------------------------------
(* The predicates on instruction data                                      *)

\* What the predicates say of the change of one account, and a change they say nothing of.
Tells(was, is, data) ==
  /\ Holds(was, "ProgramData") /\ Holds(is, "ProgramData")
       /\ ProgramDataContent(is) # ProgramDataContent(was)
     => is_upgrade_instruction(data)
  /\ is.state.tag = was.state.tag /\ is.state.authority # was.state.authority
     => is_set_authority_instruction(data) \/ is_set_authority_checked_instruction(data)
  /\ is.state.tag = "Uninitialized" /\ was.state.tag # "Uninitialized"
     => is_close_instruction(data)

Quiet(was, is) == \A data : Tells(was, is, data)

\* Same state, and the same content or no programdata.
LEMMA SameQuiet ==
  ASSUME NEW x, NEW y, y.state = x.state, x.state.tag = "ProgramData" => y.data = x.data
  PROVE  Quiet(x, y)
BY DEF Quiet, Tells, Holds, ProgramDataContent, Content

LEMMA BalanceQuiet ==
  ASSUME NEW x \in Account, NEW n, NEW y, y = [x EXCEPT !.lamports = n]
  PROVE  Quiet(x, y)
<1>1. y.state = x.state /\ y.data = x.data
  BY DEF Account
<1> QED BY <1>1, SameQuiet

\* An account given its first state, or a program's.
LEMMA NewQuiet ==
  ASSUME NEW x, NEW y, x.state.tag = "Uninitialized",
         y.state.tag \in {"Program", "ProgramData"}
  PROVE  Quiet(x, y)
BY DEF Quiet, Tells, Holds

LEMMA WriteTells ==
  ASSUME NEW as \in Accounts, NEW by, NEW b \in Address, NEW k, NEW n, NEW c,
         CanWrite(as, by, b, k, n, c), NEW a \in Address
  PROVE  Quiet(as[a], AfterWrite(as, b, n, c)[a])
<1> DEFINE data == Overwrite(as[b].data, BufferMeta + n, c)
           new == AfterWrite(as, b, n, c)
<1>1. as[b] \in Account /\ as[b].state.tag = "Buffer"
  BY DEF Accounts, CanWrite, Holds
<1>2. new[b] = [as[b] EXCEPT !.data = data] /\ \A z \in Address \ {b} : new[z] = as[z]
  BY DEF AfterWrite, Accounts
<1> HIDE DEF data, new
<1>3. new[b].state = as[b].state
  BY <1>1, <1>2 DEF Account
<1>4. new[a].state = as[a].state /\ (as[a].state.tag = "ProgramData" => new[a].data = as[a].data)
  BY <1>1, <1>2, <1>3
<1> QED BY <1>4, SameQuiet DEF new

LEMMA SetAuthorityTells ==
  ASSUME NEW as \in Accounts, NEW by, NEW b \in Address, NEW k, NEW to \in Key \cup {None},
         CanSetAuthority(as, by, b, k, to), NEW a \in Address, NEW data, data.index = 4
  PROVE  Tells(as[a], AfterSetAuthority(as, b, to)[a], data)
<1> DEFINE x == as[b]
           state == IF x.state.tag = "Buffer" THEN BufferState(to)
                    ELSE ProgramDataState(x.state.slot, to)
           y == SetState(x, state)
           new == AfterSetAuthority(as, b, to)
<1>1. x \in Account /\ x.state.slot \in Nat
  BY AccountFields DEF Accounts
<1>2. state \in State
  BY <1>1, StateType
<1>3. new[b] = y /\ \A z \in Address \ {b} : new[z] = as[z]
  BY DEF AfterSetAuthority, Accounts
<1>4. y.state = state
  <2> HIDE DEF state, x
  <2> QED BY <1>1, <1>2, SetStateType
<1>5. state.tag = x.state.tag /\ state.tag # "Uninitialized"
  <2>1. x.state.tag \in {"Buffer", "ProgramData"}
    BY DEF CanSetAuthority, Holds
  <2>2. /\ BufferState(to).tag = "Buffer"
        /\ ProgramDataState(x.state.slot, to).tag = "ProgramData"
    BY Recorded, Zenon
  <2> QED BY <2>1, <2>2
<1> HIDE DEF state, x
<1>6. state.tag = "ProgramData" => ProgramDataContent(y) = ProgramDataContent(x)
  BY <1>1, <1>2, SetStateContent
<1> HIDE DEF y, new
<1>7. Tells(x, y, data)
  BY <1>4, <1>5, <1>6 DEF Tells, Holds, is_set_authority_instruction
<1>8. CASE a = b
  BY <1>3, <1>7, <1>8 DEF new, x
<1>9. CASE a # b
  BY <1>3, <1>9, SameQuiet DEF new, Quiet
<1> QED BY <1>8, <1>9

LEMMA CloseTells ==
  ASSUME NEW as \in Accounts, NEW by, NEW b \in Address, NEW r \in Address, NEW k, NEW p,
         as[b].state.tag # "Uninitialized",
         CanClose(as, by, b, r, k, p), NEW a \in Address, NEW data, data.index = 5
  PROVE  Tells(as[a], AfterClose(as, b, r)[a], data)
<1> DEFINE new == AfterClose(as, b, r)
<1>1. Closed(as, new, b, r) /\ as[r] \in Account
  BY CloseEffect DEF Accounts
<1> HIDE DEF new
<1>2. Tells(as[b], new[b], data)
  BY <1>1, Recorded DEF Closed, Tells, Holds, is_close_instruction
<1>3. Tells(as[r], new[r], data)
  <2>1. new[r] = [as[r] EXCEPT !.lamports = as[r].lamports + as[b].lamports]
    BY <1>1 DEF Closed
  <2>2. Quiet(as[r], new[r])
    BY <1>1, <2>1, BalanceQuiet, Zenon
  <2> QED BY <2>2 DEF Quiet
<1>4. CASE a \notin {b, r}
  <2>1. new[a] = as[a]
    BY <1>1, <1>4 DEF Closed
  <2>2. Quiet(as[a], new[a])
    BY <2>1, SameQuiet
  <2> QED BY <2>2 DEF new, Quiet
<1> QED BY <1>2, <1>3, <1>4 DEF new

LEMMA UpgradeTells ==
  ASSUME NEW as \in Accounts, NEW by, NEW d \in Address, NEW p \in Program, NEW b \in Address,
         NEW spill \in Address, NEW k \in Key, CanUpgrade(as, by, d, p, b, spill, k),
         NEW a \in Address, NEW data, data.index = 3
  PROVE  Tells(as[a], AfterUpgrade(as, d, b, spill, k, 0)[a], data)
<1> DEFINE new == AfterUpgrade(as, d, b, spill, k, 0)
<1>1. 0 \in Nat
  OBVIOUS
<1>2. Upgraded(as, new, d, b, spill, k, 0)
  BY <1>1, UpgradeEffect
<1>3. UpgradedProgramData(as, d, b, k, 0).state = ProgramDataState(0, k)
  BY <1>1, UpgradedProgramDataType, Zenon
<1> HIDE DEF new
<1>4. as[spill] \in Account /\ as[b] \in Account
  BY DEF Accounts
<1>5. Tells(as[d], new[d], data)
  <2>1. new[d].state = ProgramDataState(0, k)
    BY <1>2, <1>3 DEF Upgraded
  <2>2. as[d].state.authority = k
    BY DEF CanUpgrade, Upgradeable, Authorised
  <2>3. new[d].state.tag = "ProgramData" /\ new[d].state.authority = k
    BY <2>1 DEF ProgramDataState, Uninitialized
  <2> QED BY <2>2, <2>3 DEF Tells, is_upgrade_instruction
<1>6. Quiet(as[spill], new[spill])
  <2>1. new[spill] = [as[spill] EXCEPT !.lamports = as[spill].lamports + Surplus(as, d, b)]
    BY <1>2 DEF Upgraded
  <2> QED BY <1>4, <2>1, BalanceQuiet, Zenon
<1>7. Quiet(as[b], new[b])
  <2>1. new[b] = [as[b] EXCEPT !.lamports = 0]
    BY <1>2 DEF Upgraded
  <2> QED BY <1>4, <2>1, BalanceQuiet, Zenon
<1>8. CASE a \notin {spill, b, d}
  <2>1. new[a] = as[a]
    BY <1>2, <1>8 DEF Upgraded
  <2>2. Quiet(as[a], new[a])
    BY <2>1, SameQuiet
  <2> QED BY <2>2 DEF new, Quiet
<1> QED BY <1>5, <1>6, <1>7, <1>8 DEF new, Quiet

LEMMA DeployTells ==
  ASSUME NEW as \in Accounts, NEW by, NEW payer \in Address, NEW d \in Address,
         NEW p \in Program, NEW b \in Address, NEW k \in Key, NEW size \in Nat,
         CanDeploy(as, by, payer, d, p, b, k, size), NEW a \in Address
  PROVE  Quiet(as[a], AfterDeploy(as, payer, d, p, b, k, size, 0)[a])
<1> DEFINE new == AfterDeploy(as, payer, d, p, b, k, size, 0)
<1>1. 0 \in Nat /\ p \in Address
  BY PdaAssumption
<1>2. Deployed(as, new, payer, d, p, b, k, size, 0)
  BY <1>1, DeployEffect
<1>3. DeployedProgramData(as, b, k, size, 0).state = ProgramDataState(0, k)
  BY DeployedState, Zenon
<1>4. /\ SetState(as[p], ProgramState(d)) \in Account
      /\ SetState(as[p], ProgramState(d)).state = ProgramState(d)
  <2>1. as[p] \in Account /\ ProgramState(d) \in State
    BY <1>1, StateType DEF Accounts
  <2> QED BY <2>1, SetStateType
<1>5. as[payer] \in Account /\ as[b] \in Account
  BY DEF Accounts
<1>6. as[d].state.tag = "Uninitialized" /\ as[p].state.tag = "Uninitialized"
  BY EmptyAccount DEF CanDeploy, ProgramReady, Holds
<1> HIDE DEF new
<1>7. Quiet(as[payer], new[payer])
  <2>1. new[payer] = [as[payer] EXCEPT !.lamports = PayerLeft(as, payer, b, size)]
    BY <1>2 DEF Deployed
  <2> QED BY <1>5, <2>1, BalanceQuiet, Zenon
<1>8. Quiet(as[b], new[b])
  <2>1. new[b] = [as[b] EXCEPT !.lamports = 0]
    BY <1>2 DEF Deployed
  <2> QED BY <1>5, <2>1, BalanceQuiet, Zenon
<1>9. Quiet(as[d], new[d])
  <2>1. new[d].state = ProgramDataState(0, k)
    BY <1>2, <1>3 DEF Deployed
  <2>2. new[d].state.tag = "ProgramData"
    BY <2>1 DEF ProgramDataState, Uninitialized
  <2> QED BY <1>6, <2>2, NewQuiet
<1>10. Quiet(as[p], new[p])
  <2>1. new[p].state = ProgramState(d)
    BY <1>2, <1>4 DEF Deployed, Account
  <2>2. new[p].state.tag = "Program"
    BY <2>1, Recorded, Zenon
  <2> QED BY <1>6, <2>2, NewQuiet
<1>11. CASE a \notin {payer, b, d, p}
  <2>1. new[a] = as[a]
    BY <1>2, <1>11 DEF Deployed
  <2> QED BY <2>1, SameQuiet DEF new
<1> QED BY <1>7, <1>8, <1>9, <1>10, <1>11 DEF new

\* A buffer or a programdata is all there is to close.
LEMMA NothingLeft ==
  ASSUME ClientInv, NEW a \in Address, NEW r, NEW k, NEW p, NEW by, CanClose(acct, by, a, r, k, p)
  PROVE  acct[a].state.tag # "Uninitialized"
BY DEF ClientInv, Made, CanClose, Holds

\* The predicates tell what an instruction does from its first byte: one that installs
\* another program is an upgrade, one that hands an account over sets an authority, and one
\* that empties a state closes.
THEOREM PredicatesRight == ClientSpec => []PredicatesTell
<1>1. ASSUME ClientInv, NEW list \in Built, NEW a \in Address, Run(Signable, Key, list).ok
      PROVE  Tells(Run(Signable, Key, Front(list)).as[a], Run(Signable, Key, list).as[a],
                   Last(list).data)
  <2> DEFINE data == Last(list).data
             before == RunOn(acct, Signable, Key, Front(list)).as
             end == RunOn(acct, Signable, Key, list)
  <2>1. /\ acct \in Accounts /\ Good(acct, program_len) /\ end.ok
        /\ Run(Signable, Key, Front(list)).as = before /\ Run(Signable, Key, list) = end
    BY <1>1, Zenon DEF ClientInv, ClientTypeOK, Good, Accounts, Run
  <2>2. CASE Writing(list)
    <3>1. PICK b \in Address, k \in Authority, n \in Offsets, c \in Chunk :
                 Fills(list, b, k, n, c) /\ Alone(list, 1)
      BY <2>2, Zenon DEF Writing
    <3>2. CanWrite(acct, Signable, b, k, n, c) /\ end.as = AfterWrite(acct, b, n, c)
      BY <2>1, <3>1, Zenon DEF Fills
    <3>3. before = acct
      BY <3>1, Zenon DEF Alone
    <3>4. Quiet(acct[a], AfterWrite(acct, b, n, c)[a])
      BY <2>1, <3>2, WriteTells, Zenon
    <3> QED BY <2>1, <3>2, <3>3, <3>4, Zenon DEF Quiet
  <2>3. CASE Deploying(list)
    <3>1. PICK payer \in Address, p \in Program, b \in Address, k \in Authority, n \in Deposit,
               size \in ProgramLens :
                 Installs(list, payer, p, b, k, n, size) /\ Prepares(list, payer, p, n)
      BY <2>3, Zenon DEF Deploying
    <3>2. before = AfterCreateAccount(acct, payer, p, n, ProgramLen)
      BY <2>1, <3>1, Zenon DEF Prepares
    <3>3. /\ CanCreateAccount(acct, Signable, payer, p, n)
          /\ CanDeploy(before, Signable, payer, Pda[p], p, b, k, size)
          /\ end.as = AfterDeploy(before, payer, Pda[p], p, b, k, size, 0)
      BY <2>1, <3>1, <3>2, Zenon DEF Installs
    <3>4. /\ n \in Nat /\ size \in Nat /\ ProgramLen \in Nat /\ k \in Key /\ p \in Address
          /\ Pda[p] \in Address
      BY Parameters, Sizes, AuthorityKeys
    <3> HIDE DEF before
    <3>5. before \in Accounts
      <4>1. Allocates(acct, before, payer, p, n, ProgramLen, program_len)
        BY <2>1, <3>2, <3>3, <3>4, CreateLeaves, Zenon
      <4> QED BY <4>1, Zenon DEF Allocates
    <3>6. Quiet(before[a], AfterDeploy(before, payer, Pda[p], p, b, k, size, 0)[a])
      BY <3>3, <3>4, <3>5, DeployTells, Zenon
    <3> QED BY <2>1, <3>3, <3>6, Zenon DEF Quiet
  <2>4. CASE Upgrading(list)
    <3>1. PICK p \in Program, b \in Address, k \in Authority, spill \in Address :
               Replaces(list, p, b, k, spill) /\ Alone(list, 3)
      BY <2>4, Zenon DEF Upgrading
    <3>2. /\ CanUpgrade(acct, Signable, Pda[p], p, b, spill, k)
          /\ end.as = AfterUpgrade(acct, Pda[p], b, spill, k, 0)
      BY <2>1, <3>1, Zenon DEF Replaces
    <3>3. before = acct /\ data.index = 3
      BY <3>1, Zenon DEF Alone
    <3>4. Pda[p] \in Address /\ k \in Key
      BY AuthorityKeys
    <3> HIDE DEF data
    <3>5. Tells(acct[a], AfterUpgrade(acct, Pda[p], b, spill, k, 0)[a], data)
      BY <2>1, <3>2, <3>3, <3>4, UpgradeTells, Zenon
    <3> QED BY <2>1, <3>2, <3>3, <3>5, Zenon DEF data
  <2>5. CASE HandingOver(list)
    <3>1. PICK b \in Address, k \in Authority, new \in Authority \cup {None} :
               Hands(list, b, k, new) /\ Alone(list, 4)
      BY <2>5, Zenon DEF HandingOver
    <3>2. CanSetAuthority(acct, Signable, b, k, new) /\ end.as = AfterSetAuthority(acct, b, new)
      BY <2>1, <3>1, Zenon DEF Hands
    <3>3. before = acct /\ data.index = 4
      BY <3>1, Zenon DEF Alone
    <3>4. new \in Key \cup {None}
      BY AuthorityKeys
    <3> HIDE DEF data
    <3>5. Tells(acct[a], AfterSetAuthority(acct, b, new)[a], data)
      BY <2>1, <3>2, <3>3, <3>4, SetAuthorityTells, Zenon
    <3> QED BY <2>1, <3>2, <3>3, <3>5, Zenon DEF data
  <2>6. CASE Closing(list)
    <3>1. PICK b \in Address, r \in Address, k \in Authority \cup {None},
               q \in Program \cup {None} : Empties(list, b, r, k, q) /\ Alone(list, 5)
      BY <2>6, Zenon DEF Closing
    <3>2. /\ CanClose(acct, Signable, b, r, Second(k, q), Third(k, q))
          /\ end.as = AfterClose(acct, b, r)
      BY <2>1, <3>1, Zenon DEF Empties
    <3>3. before = acct /\ data.index = 5
      BY <3>1, Zenon DEF Alone
    <3>4. acct[b].state.tag # "Uninitialized"
      BY <1>1, <3>2, NothingLeft, Zenon
    <3> HIDE DEF data
    <3>5. Tells(acct[a], AfterClose(acct, b, r)[a], data)
      BY <2>1, <3>2, <3>3, <3>4, CloseTells, Zenon
    <3> QED BY <2>1, <3>2, <3>3, <3>5, Zenon DEF data
  <2>7. CASE Unsupported(list)
    BY <2>1, <2>7, Zenon DEF Unsupported
  <2> QED BY <2>2, <2>3, <2>4, <2>5, <2>6, <2>7, Kinds, Zenon
<1>2. ClientInv => PredicatesTell
  BY <1>1, Zenon DEF PredicatesTell, Tells
<1> QED BY <1>2, ClientInvariant, PTL

-----------------------------------------------------------------------------
(* The signatures and locks the account lists ask for                      *)

\* A check of an authority passes with its signature and not without.
LEMMA SignedBy ==
  ASSUME NEW state, NEW k, NEW by, Authorised(state, k, by)
  PROVE  k \in by /\ \A more : k \in more => Authorised(state, k, more)
BY DEF Authorised

LEMMA WriteSigned ==
  ASSUME NEW as, NEW by, NEW b, NEW k, NEW n, NEW c, CanWrite(as, by, b, k, n, c)
  PROVE  k \in by /\ \A more : k \in more => CanWrite(as, more, b, k, n, c)
BY SignedBy DEF CanWrite

LEMMA SetAuthoritySigned ==
  ASSUME NEW as, NEW by, NEW a, NEW k, NEW new, CanSetAuthority(as, by, a, k, new)
  PROVE  k \in by /\ \A more : k \in more => CanSetAuthority(as, more, a, k, new)
BY SignedBy DEF CanSetAuthority

LEMMA UpgradeSigned ==
  ASSUME NEW as, NEW by, NEW d, NEW p, NEW b, NEW spill, NEW k,
         CanUpgrade(as, by, d, p, b, spill, k)
  PROVE  k \in by /\ \A more : k \in more => CanUpgrade(as, more, d, p, b, spill, k)
BY SignedBy DEF CanUpgrade, BufferReady, Upgradeable

LEMMA DeploySigned ==
  ASSUME NEW as, NEW by, NEW payer, NEW d, NEW p, NEW b, NEW k, NEW size,
         CanDeploy(as, by, payer, d, p, b, k, size)
  PROVE  /\ k \in by
         /\ \A more : k \in more /\ payer \in more
              => CanDeploy(as, more, payer, d, p, b, k, size)
BY SignedBy DEF CanDeploy, BufferReady

LEMMA CreateSigned ==
  ASSUME NEW as, NEW by, NEW payer, NEW b, NEW n, CanCreateAccount(as, by, payer, b, n)
  PROVE  /\ payer \in by /\ b \in by
         /\ \A more : payer \in more /\ b \in more => CanCreateAccount(as, more, payer, b, n)
BY DEF CanCreateAccount

LEMMA CloseSigned ==
  ASSUME NEW as, NEW by, NEW a, NEW r, NEW k, NEW p, CanClose(as, by, a, r, k, p),
         as[a].state.tag # "Uninitialized"
  PROVE  /\ k \in by /\ as[a].state.authority = k
         /\ \A more : k \in more => CanClose(as, more, a, r, k, p)
BY SignedBy DEF CanClose, Holds, Authorised

\* Without any one of the signatures the account lists ask for, a transaction that
\* succeeds with them fails.
THEOREM NoSignatureTooMany == ClientSpec => []AsksNoMore
<1>1. ASSUME ClientInv, NEW list \in Built, NEW w, RunOn(acct, Signing(list), w, list).ok,
             NEW s \in Signing(list), RunOn(acct, Signing(list) \ {s}, w, list).ok
      PROVE  FALSE
  <2> DEFINE by == Signing(list) \ {s}
  <2>1. s \notin by
    OBVIOUS
  <2>2. RunOn(acct, by, w, list).ok
    BY <1>1, Zenon
  <2>3. s \in Signing(list)
    OBVIOUS
  <2> HIDE DEF by
  <2>4. CASE Writing(list)
    <3>1. PICK b \in Address, k \in Authority, n \in Offsets, c \in Chunk : Fills(list, b, k, n, c)
      BY <2>4, Zenon DEF Writing
    <3>2. CanWrite(acct, by, b, k, n, c) /\ Signing(list) = {k}
      BY <2>2, <3>1, Zenon DEF Fills
    <3>3. k \in by
      BY <3>2, WriteSigned, Zenon
    <3> QED BY <2>1, <2>3, <3>2, <3>3
  <2>5. CASE Deploying(list)
    <3>1. PICK payer \in Address, p \in Program, b \in Address, k \in Authority, n \in Deposit,
               size \in ProgramLens : Installs(list, payer, p, b, k, n, size)
      BY <2>5, Zenon DEF Deploying
    <3>2. PICK mid : mid = AfterCreateAccount(acct, payer, p, n, ProgramLen)
      OBVIOUS
    <3>3. /\ CanCreateAccount(acct, by, payer, p, n)
          /\ CanDeploy(mid, by, payer, Pda[p], p, b, k, size)
          /\ Signing(list) = {payer, p, k}
      BY <2>2, <3>1, <3>2, Zenon DEF Installs
    <3>4. payer \in by /\ p \in by
      BY <3>3, CreateSigned, Zenon
    <3>5. k \in by
      BY <3>3, DeploySigned, Zenon
    <3> QED BY <2>1, <2>3, <3>3, <3>4, <3>5
  <2>6. CASE Upgrading(list)
    <3>1. PICK p \in Program, b \in Address, k \in Authority, spill \in Address :
               Replaces(list, p, b, k, spill)
      BY <2>6, Zenon DEF Upgrading
    <3>2. CanUpgrade(acct, by, Pda[p], p, b, spill, k) /\ Signing(list) = {k}
      BY <2>2, <3>1, Zenon DEF Replaces
    <3>3. k \in by
      BY <3>2, UpgradeSigned, Zenon
    <3> QED BY <2>1, <2>3, <3>2, <3>3
  <2>7. CASE HandingOver(list)
    <3>1. PICK b \in Address, k \in Authority, new \in Authority \cup {None} :
               Hands(list, b, k, new)
      BY <2>7, Zenon DEF HandingOver
    <3>2. CanSetAuthority(acct, by, b, k, new) /\ Signing(list) = {k}
      BY <2>2, <3>1, Zenon DEF Hands
    <3>3. k \in by
      BY <3>2, SetAuthoritySigned, Zenon
    <3> QED BY <2>1, <2>3, <3>2, <3>3
  <2>8. CASE Closing(list)
    <3>1. PICK b \in Address, r \in Address, k \in Authority \cup {None},
               q \in Program \cup {None} : Empties(list, b, r, k, q)
      BY <2>8, Zenon DEF Closing
    <3>2. CanClose(acct, by, b, r, Second(k, q), Third(k, q)) /\ Signing(list) = {k} \ {None}
      BY <2>2, <3>1, Zenon DEF Empties
    <3>3. acct[b].state.tag # "Uninitialized"
      BY <1>1, <3>2, NothingLeft, Zenon
    <3>4. Second(k, q) \in by
      BY <3>2, <3>3, CloseSigned, Zenon
    <3> QED BY <2>1, <2>3, <3>2, <3>4 DEF Second
  <2>9. CASE Unsupported(list)
    BY <2>2, <2>9, Zenon DEF Unsupported
  <2> QED BY <2>4, <2>5, <2>6, <2>7, <2>8, <2>9, Kinds, Zenon
<1>2. ClientInv => AsksNoMore
  BY <1>1, Zenon DEF AsksNoMore, Run
<1> QED BY <1>2, ClientInvariant, PTL

\* An instruction changes no account but those it writes.
LEMMA WriteLocks ==
  ASSUME NEW as \in Accounts, NEW b, NEW n, NEW c
  PROVE  Locked(as, AfterWrite(as, b, n, c), {b})
BY DEF Locked, AfterWrite, Accounts

LEMMA SetAuthorityLocks ==
  ASSUME NEW as \in Accounts, NEW a, NEW new
  PROVE  Locked(as, AfterSetAuthority(as, a, new), {a})
BY DEF Locked, AfterSetAuthority, Accounts

LEMMA UpgradeLocks ==
  ASSUME NEW as \in Accounts, NEW d, NEW p, NEW b, NEW spill, NEW k
  PROVE  Locked(as, AfterUpgrade(as, d, b, spill, k, 0), {d, p, b, spill})
<1>1. \A a \in Address \ {d, b, spill} : AfterUpgrade(as, d, b, spill, k, 0)[a] = as[a]
  BY DEF AfterUpgrade, Accounts
<1> QED BY <1>1 DEF Locked

LEMMA CloseLocks ==
  ASSUME NEW as \in Accounts, NEW a, NEW r, NEW more
  PROVE  Locked(as, AfterClose(as, a, r), {a, r} \cup more)
<1>1. \A z \in Address \ {a, r} : AfterClose(as, a, r)[z] = as[z]
  BY DEF AfterClose, Accounts
<1> QED BY <1>1 DEF Locked

LEMMA CreateLocks ==
  ASSUME NEW as \in Accounts, NEW payer, NEW p, NEW n, NEW d, NEW b
  PROVE  Locked(as, AfterCreateAccount(as, payer, p, n, ProgramLen), {payer, p, d, b})
<1>1. \A a \in Address \ {payer, p} :
        AfterCreateAccount(as, payer, p, n, ProgramLen)[a] = as[a]
  BY DEF AfterCreateAccount, Accounts
<1> QED BY <1>1 DEF Locked

LEMMA DeployLocks ==
  ASSUME NEW as \in Accounts, NEW payer, NEW d, NEW p, NEW b, NEW k, NEW size
  PROVE  Locked(as, AfterDeploy(as, payer, d, p, b, k, size, 0), {payer, p, d, b})
<1>1. \A a \in Address \ {payer, p, d, b} :
        AfterDeploy(as, payer, d, p, b, k, size, 0)[a] = as[a]
  BY DEF AfterDeploy, Accounts
<1> QED BY <1>1 DEF Locked

\* What closes with every signature names its authority.
LEMMA ClosedByAuthority ==
  ASSUME ClientInv, Authority \cap Program = {}, NEW a \in Address, NEW r,
         NEW k \in Authority \cup {None}, NEW q \in Program \cup {None}, NEW by,
         CanClose(acct, by, a, r, Second(k, q), Third(k, q))
  PROVE  /\ k # None /\ Second(k, q) = k
         /\ \A more : k \in more => CanClose(acct, more, a, r, Second(k, q), Third(k, q))
<1> DEFINE second == Second(k, q)
           third == Third(k, q)
<1>0. CanClose(acct, by, a, r, second, third)
  OBVIOUS
<1> HIDE DEF second, third
<1>1. acct[a].state.tag # "Uninitialized"
  BY <1>0, NothingLeft, Zenon
<1>2. /\ acct[a].state.authority = second
      /\ \A more : second \in more => CanClose(acct, more, a, r, second, third)
  BY <1>0, <1>1, CloseSigned, Zenon
<1>3. acct[a].state.authority # None
  BY <1>0, <1>1 DEF CanClose, Holds, Authorised
<1>4. acct[a].state.authority \in Authority \cup {None}
  BY DEF ClientInv, Made
<1>5. k # None
  BY <1>2, <1>3, <1>4 DEF Second, second
<1>6. second = k
  BY <1>5 DEF Second, second
<1> QED BY <1>2, <1>5, <1>6 DEF second, third

\* The account lists ask for enough: a transaction that would succeed with every signature
\* and every account writable succeeds with those they flag.  Where no program is an
\* authority: close_any without an authority puts the program in its place, unsigned.
THEOREM AsksForEnough ==
  ASSUME Authority \cap Program = {}
  PROVE  ClientSpec => []AsksEnough
<1>1. ASSUME ClientInv, NEW list \in Built, RunOn(acct, Signable, Key, list).ok
      PROVE  RunOn(acct, Signing(list), Writable(list), list).ok
  <2> DEFINE by == Signing(list)
             w == Writable(list)
  <2>1. acct \in Accounts /\ Good(acct, program_len)
    BY <1>1 DEF ClientInv, ClientTypeOK, Good, Accounts
  <2>2. RunOn(acct, Signable, Key, list).ok
    BY <1>1, Zenon
  <2>3. by = Signing(list) /\ w = Writable(list)
    OBVIOUS
  <2> HIDE DEF by, w
  <2>4. CASE Writing(list)
    <3>1. PICK b \in Address, k \in Authority, n \in Offsets, c \in Chunk : Fills(list, b, k, n, c)
      BY <2>4, Zenon DEF Writing
    <3>2. CanWrite(acct, Signable, b, k, n, c) /\ by = {k} /\ w = {b}
      BY <2>2, <2>3, <3>1, Zenon DEF Fills
    <3>3. k \in by
      BY <3>2
    <3>4. CanWrite(acct, by, b, k, n, c)
      BY <3>2, <3>3, WriteSigned, Zenon
    <3>5. Locked(acct, AfterWrite(acct, b, n, c), w)
      BY <2>1, <3>2, WriteLocks, Zenon
    <3> QED BY <2>3, <3>1, <3>4, <3>5, Zenon DEF Fills
  <2>5. CASE Deploying(list)
    <3>1. PICK payer \in Address, p \in Program, b \in Address, k \in Authority, n \in Deposit,
               size \in ProgramLens : Installs(list, payer, p, b, k, n, size)
      BY <2>5, Zenon DEF Deploying
    <3>2. PICK mid : mid = AfterCreateAccount(acct, payer, p, n, ProgramLen)
      OBVIOUS
    <3>3. /\ CanCreateAccount(acct, Signable, payer, p, n)
          /\ CanDeploy(mid, Signable, payer, Pda[p], p, b, k, size)
          /\ by = {payer, p, k} /\ w = {payer, p, Pda[p], b}
      BY <2>2, <2>3, <3>1, <3>2, Zenon DEF Installs
    <3>4. payer \in by /\ p \in by /\ k \in by
      BY <3>3
    <3>5. CanCreateAccount(acct, by, payer, p, n)
      BY <3>3, <3>4, CreateSigned, Zenon
    <3>6. CanDeploy(mid, by, payer, Pda[p], p, b, k, size)
      BY <3>3, <3>4, DeploySigned, Zenon
    <3>7. Locked(acct, mid, w)
      BY <2>1, <3>2, <3>3, CreateLocks, Zenon
    <3>8. mid \in Accounts
      <4>1. n \in Nat /\ ProgramLen \in Nat /\ p \in Address
        BY Parameters, Sizes, AuthorityKeys
      <4>2. Allocates(acct, mid, payer, p, n, ProgramLen, program_len)
        BY <2>1, <3>2, <3>3, <4>1, CreateLeaves, Zenon
      <4> QED BY <4>2, Zenon DEF Allocates
    <3>9. Locked(mid, AfterDeploy(mid, payer, Pda[p], p, b, k, size, 0), w)
      BY <3>3, <3>8, DeployLocks, Zenon
    <3> QED BY <2>3, <3>1, <3>2, <3>5, <3>6, <3>7, <3>9, Zenon DEF Installs
  <2>6. CASE Upgrading(list)
    <3>1. PICK p \in Program, b \in Address, k \in Authority, spill \in Address :
               Replaces(list, p, b, k, spill)
      BY <2>6, Zenon DEF Upgrading
    <3>2. /\ CanUpgrade(acct, Signable, Pda[p], p, b, spill, k)
          /\ by = {k} /\ w = {Pda[p], p, b, spill}
      BY <2>2, <2>3, <3>1, Zenon DEF Replaces
    <3>3. k \in by /\ p \in w
      BY <3>2
    <3>4. CanUpgrade(acct, by, Pda[p], p, b, spill, k)
      BY <3>2, <3>3, UpgradeSigned, Zenon
    <3>5. Locked(acct, AfterUpgrade(acct, Pda[p], b, spill, k, 0), w)
      BY <2>1, <3>2, UpgradeLocks, Zenon
    <3> QED BY <2>3, <3>1, <3>3, <3>4, <3>5, Zenon DEF Replaces
  <2>7. CASE HandingOver(list)
    <3>1. PICK b \in Address, k \in Authority, new \in Authority \cup {None} :
               Hands(list, b, k, new)
      BY <2>7, Zenon DEF HandingOver
    <3>2. CanSetAuthority(acct, Signable, b, k, new) /\ by = {k} /\ w = {b}
      BY <2>2, <2>3, <3>1, Zenon DEF Hands
    <3>3. k \in by
      BY <3>2
    <3>4. CanSetAuthority(acct, by, b, k, new)
      BY <3>2, <3>3, SetAuthoritySigned, Zenon
    <3>5. Locked(acct, AfterSetAuthority(acct, b, new), w)
      BY <2>1, <3>2, SetAuthorityLocks, Zenon
    <3> QED BY <2>3, <3>1, <3>4, <3>5, Zenon DEF Hands
  <2>8. CASE Closing(list)
    <3>1. PICK a \in Address, r \in Address, k \in Authority \cup {None},
               q \in Program \cup {None} : Empties(list, a, r, k, q)
      BY <2>8, Zenon DEF Closing
    <3>2. /\ CanClose(acct, Signable, a, r, Second(k, q), Third(k, q))
          /\ Holds(acct[a], "ProgramData") => Third(k, q) \in Key
          /\ by = {k} \ {None} /\ w = {a, r} \cup ({q} \ {None})
      BY <2>2, <2>3, <3>1, Zenon DEF Empties
    <3>3. /\ k # None
          /\ \A more : k \in more => CanClose(acct, more, a, r, Second(k, q), Third(k, q))
      BY <1>1, <3>2, ClosedByAuthority, Zenon
    <3>4. k \in by
      BY <3>2, <3>3
    <3>5. Holds(acct[a], "ProgramData") => Third(k, q) \in w
      BY <3>2, <3>3, AuthorityKeys DEF Third
    <3>6. Locked(acct, AfterClose(acct, a, r), w)
      BY <2>1, <3>2, CloseLocks, Zenon
    <3> QED BY <2>3, <3>1, <3>3, <3>4, <3>5, <3>6, Zenon DEF Empties
  <2>9. CASE Unsupported(list)
    BY <2>2, <2>9, Zenon DEF Unsupported
  <2> QED BY <2>3, <2>4, <2>5, <2>6, <2>7, <2>8, <2>9, Kinds, Zenon
<1>2. ClientInv => AsksEnough
  BY <1>1, Zenon DEF AsksEnough, Run
<1> QED BY <1>2, ClientInvariant, PTL

-----------------------------------------------------------------------------
(* One call of sendTransaction                                             *)

\* What the call last saw, and where Fireblocks is, imply a broadcast; no request
\* is polled, and none is broadcast, before there is one.
BroadcastInv ==
  /\ broadcast \in BOOLEAN
  /\ status \in {"BROADCASTING", "CONFIRMING", "COMPLETED"} => broadcast
  /\ seen.status \in Accepted => broadcast
  /\ pc = "returned" => broadcast
  /\ status = "NONE" => ~broadcast /\ pc \in {"connect", "prepare", "sign", "threw"}
  /\ pc = "connect" => status = "NONE"
  /\ pc = "prepare" => status = "NONE"
  /\ pc = "sign" => status = "NONE"

\* Nothing was broadcast when the call begins.
LEMMA InitBroadcast == Init => BroadcastInv
<1> SUFFICES ASSUME Init PROVE BroadcastInv
  OBVIOUS
<1>1. broadcast = FALSE /\ status = "NONE" /\ pc = "connect" /\ seen.status = "NONE"
  BY DEF Init
<1>2. "NONE" \notin Accepted
  BY DEF Accepted
<1> QED BY <1>1, <1>2 DEF BroadcastInv

\* Every step keeps the invariant: Advance sets broadcast when it enters
\* BROADCASTING, and a poll only copies a status that is there.
LEMMA NextBroadcast == BroadcastInv /\ [Next]_vars => BroadcastInv'
<1> SUFFICES ASSUME BroadcastInv, [Next]_vars PROVE BroadcastInv'
  OBVIOUS
<1> USE DEF BroadcastInv
<1>1. CASE UNCHANGED vars
  BY <1>1 DEF vars, local, polling, fireblocks
<1>2. CASE Connect
  BY <1>2 DEF Connect, Goto, Throw, local, polling, fireblocks
<1>3. CASE Prepare
  BY <1>3 DEF Prepare, Goto, Throw, polling, fireblocks
<1>4. CASE Sign
  BY <1>4 DEF Sign, polling, fireblocks
<1>5. CASE Create
  BY <1>5 DEF Create, Goto, Throw, polling
<1>6. CASE FirstPoll
  BY <1>6 DEF FirstPoll, Polled, Goto, Throw, fireblocks, Accepted
<1>7. CASE Check
  BY <1>7 DEF Check, Goto, Throw, polling, fireblocks, Accepted
<1>8. CASE Poll
  BY <1>8 DEF Poll, Polled, Goto, Throw, fireblocks, Accepted
<1>9. CASE Advance
  BY <1>9, Zenon DEF Advance, polling
<1>10. CASE End
  BY <1>10, StatusAssumption DEF End, polling, Pending, failedStatuses, Final
<1>11. Done => UNCHANGED vars
  BY DEF Done
<1> QED BY <1>1, <1>2, <1>3, <1>4, <1>5, <1>6, <1>7, <1>8, <1>9, <1>10,
            <1>11 DEF Next, Call

\* The call begins with a request that is held and an outcome that is pending.
LEMMA InitSubmission == Init => Sub!Init
BY StatusAssumption
   DEF Init, Sub!Init, Outcome, Fate, Final, failedStatuses

\* Every step of the call and of Fireblocks is a step of Submission or a stutter.
LEMMA NextSubmission == BroadcastInv /\ [Next]_vars => [Sub!Next]_(Sub!vars)
<1> SUFFICES ASSUME BroadcastInv, [Next]_vars
             PROVE  Sub!Next \/ UNCHANGED <<Outcome, Fate>>
  BY DEF Sub!vars
<1> USE StatusAssumption
        DEF BroadcastInv, Outcome, Fate, Final, failedStatuses
<1>1. CASE UNCHANGED vars
  BY <1>1 DEF vars, local, polling, fireblocks
<1>2. CASE Connect
  BY <1>2 DEF Connect, Goto, Throw, fireblocks, Sub!Next, Sub!Throw
<1>3. CASE Prepare
  BY <1>3 DEF Prepare, Goto, Throw, fireblocks, Sub!Next, Sub!Throw
<1>4. CASE Sign
  BY <1>4 DEF Sign, fireblocks
<1>5. CASE Create
  BY <1>5 DEF Create, Goto, Throw, Sub!Next, Sub!Throw
<1>6. CASE FirstPoll
  BY <1>6 DEF FirstPoll, Polled, Goto, Throw, fireblocks, Sub!Next, Sub!Throw
<1>7. CASE Check
  BY <1>7 DEF Check, Goto, Throw, polling, fireblocks, Accepted, Sub!Next, Sub!Return,
              Sub!Throw
<1>8. CASE Poll
  BY <1>8 DEF Poll, Polled, Goto, Throw, fireblocks, Sub!Next, Sub!Throw
<1>9. CASE Advance
  BY <1>9 DEF Advance, Sub!Next, Sub!Broadcast
<1>10. CASE End
  BY <1>10 DEF End, Pending, Sub!Next, Sub!Die
<1>11. Done => UNCHANGED vars
  BY DEF Done
<1> QED BY <1>1, <1>2, <1>3, <1>4, <1>5, <1>6, <1>7, <1>8, <1>9, <1>10,
            <1>11 DEF Next, Call

\* sendTransaction implements Submission: it returns the hash only of a transaction
\* Fireblocks began to broadcast.
THEOREM ReturnsOnlyBroadcast == Spec => ImplementsSubmission
BY InitBroadcast, NextBroadcast, InitSubmission, NextSubmission, PTL
   DEF Spec, ImplementsSubmission, Sub!Spec
-----------------------------------------------------------------------------
(* Types, and failures the connection to Fireblocks may not cause          *)

\* The call starts well-typed.
LEMMA InitType == Init => TypeOK
<1> SUFFICES ASSUME Init PROVE TypeOK
  OBVIOUS
<1>1. /\ pc = "connect" /\ tx \in [blockhash : BOOLEAN, payer : {account, NoPayer}]
      /\ signers \in SignerLists /\ todo = signers /\ signed = {}
      /\ seen = [status |-> "NONE", hash |-> FALSE] /\ retries = 0 /\ misses = 0
      /\ status = "NONE" /\ hash = FALSE /\ broadcast = FALSE
  BY DEF Init
<1>2. todo \in Seq(PublicKey)
  BY <1>1, SignersAssumption
<1>3. 0 \in 0..MAX_RETRIES /\ 0 \in 0..MAX_RETRIES + 1
  BY RetryAssumption
<1>4. "NONE" \in Statuses
  BY DEF Statuses
<1> QED BY <1>1, <1>2, <1>3, <1>4 DEF TypeOK

\* Until the call throws, the polls that failed are those it swallowed; it throws
\* after a poll only for the reasons waitForSignature and its caller have.
RetryInv ==
  /\ TypeOK
  /\ pc # "threw" => misses = retries
  /\ pc \in {"connect", "prepare", "sign", "first"} => seen.status = "NONE"
  /\ NoFalseFailure

\* A call that was not made has nothing to give up.
LEMMA InitRetry == Init => RetryInv
<1> SUFFICES ASSUME Init PROVE RetryInv
  OBVIOUS
<1>1. pc = "connect" /\ seen.status = "NONE" /\ misses = retries
  BY DEF Init
<1> QED BY <1>1, InitType DEF RetryInv, NoFalseFailure

\* Every step keeps it: one case per action.
LEMMA NextRetry == RetryInv /\ [Next]_vars => RetryInv'
<1> SUFFICES ASSUME RetryInv, [Next]_vars PROVE RetryInv'
  OBVIOUS
<1> USE DEF RetryInv, TypeOK, NoFalseFailure
<1>1. CASE UNCHANGED vars
  BY <1>1 DEF vars, local, polling, fireblocks
<1>2. CASE Connect
  BY <1>2 DEF Connect, Goto, Throw, local, polling, fireblocks
<1>3. CASE Prepare
  <2>1. tx' \in [blockhash : BOOLEAN, payer : {account, NoPayer}]
    <3>1. tx' = tx \/ tx' = [blockhash |-> TRUE, payer |-> account]
      BY <1>3 DEF Prepare
    <3>2. [blockhash |-> TRUE, payer |-> account]
            \in [blockhash : BOOLEAN, payer : {account, NoPayer}]
      OBVIOUS
    <3> QED BY <3>1, <3>2
  <2>2. pc' \in {"sign", "threw"} /\ UNCHANGED <<signers, todo, signed, polling, fireblocks>>
    BY <1>3 DEF Prepare, Goto, Throw
  <2>3. seen.status = "NONE" /\ misses = retries
    BY <1>3 DEF Prepare
  <2> QED BY <2>1, <2>2, <2>3 DEF polling, fireblocks
<1>4. CASE Sign
  <2>1. Head(todo) \in PublicKey /\ Tail(todo) \in Seq(PublicKey) /\ << >> \in Seq(PublicKey)
    BY <1>4 DEF Sign
  <2> QED BY <1>4, <2>1 DEF Sign, polling, fireblocks
<1>5. CASE Create
  <2>1. "SUBMITTED" \in Statuses
    BY DEF Statuses
  <2> QED BY <1>5, <2>1 DEF Create, Goto, Throw, local, polling
<1>6. CASE FirstPoll
  BY <1>6 DEF FirstPoll, Polled, Goto, Throw, local, fireblocks
<1>7. CASE Check
  BY <1>7 DEF Check, Goto, Throw, local, polling, fireblocks
<1>8. CASE Poll
  <2>1. CASE Polled /\ UNCHANGED <<retries, misses>>
    BY <1>8, <2>1 DEF Poll, Polled, Goto, local, fireblocks
  <2>2. CASE GivesUp(retries) /\ Throw /\ UNCHANGED <<retries, seen>> /\ misses' = misses + 1
    <3>1. misses' > MAX_RETRIES /\ misses' \in 0..MAX_RETRIES + 1
      BY <1>8, <2>2, RetryAssumption DEF Poll, GivesUp
    <3> QED BY <1>8, <2>2, <3>1 DEF Poll, Goto, Throw, local, fireblocks
  <2>3. CASE /\ ~GivesUp(retries) /\ retries' = retries + 1 /\ UNCHANGED <<pc, seen>>
             /\ misses' = misses + 1
    <3>1. retries' \in 0..MAX_RETRIES /\ misses' \in 0..MAX_RETRIES + 1 /\ misses' = retries'
      BY <1>8, <2>3, RetryAssumption DEF Poll, GivesUp
    <3> QED BY <1>8, <2>3, <3>1 DEF Poll, local, fireblocks
  <2> QED BY <1>8, <2>1, <2>2, <2>3 DEF Poll
<1>9. CASE Advance
  <2>1. {"PENDING", "BROADCASTING", "CONFIRMING", "COMPLETED"} \subseteq Statuses
    BY DEF Statuses, Accepted
  <2> QED BY <1>9, <2>1 DEF Advance, local, polling
<1>10. CASE End
  <2>1. failedStatuses \cup UnlistedEnds \subseteq Statuses
    BY DEF Statuses
  <2> QED BY <1>10, <2>1 DEF End, local, polling
<1>11. CASE Done
  BY <1>11 DEF Done, vars, local, polling, fireblocks
<1> QED BY <1>1, <1>2, <1>3, <1>4, <1>5, <1>6, <1>7, <1>8, <1>9, <1>10,
            <1>11 DEF Next, Call

\* Whatever signers are passed and statuses come back, the call stays well-typed:
\* it never swallows more than MAX_RETRIES failed polls.
THEOREM AdapterTypeCorrect == Spec => []TypeOK
<1>1. RetryInv => TypeOK
  BY DEF RetryInv
<1> QED BY <1>1, InitRetry, NextRetry, PTL DEF Spec

\* However often polls fail, the call gives up on a transaction Fireblocks has not
\* reported failed only after more than MAX_RETRIES of them, or when Fireblocks
\* names no hash.
THEOREM FailuresAreReal == Spec => []NoFalseFailure
<1>1. RetryInv => NoFalseFailure
  BY DEF RetryInv
<1> QED BY <1>1, InitRetry, NextRetry, PTL DEF Spec
-----------------------------------------------------------------------------
(* The rounding of the buffer size                                         *)

\* Whatever the file, the buffer deploy.ts allocates is too small for it exactly
\* when its length is of one of four residues, and then by four bytes at most.
THEOREM BufferShortExactly ==
  ASSUME NEW n \in Nat
  PROVE  /\ bufferSize(n) \in Nat
         /\ bufferSize(n) < bufferMetadata + n <=> Short(n)
         /\ bufferMetadata + n <= bufferSize(n) + 4
<1> DEFINE r == (n + 33) % 1024
<1>1. r \in Int /\ 0 <= r /\ r < 1024
  BY SMTT(60)
<1>2. bufferSize(n) \in Nat
  BY SMTT(60) DEF bufferSize
<1>3. r = 0 => bufferSize(n) = n + 33
  BY SMTT(60) DEF bufferSize
<1>4. r # 0 => bufferSize(n) = n + 33 + 1024 - r
  BY SMTT(60) DEF bufferSize
<1>5. Short(n) <=> r \in {0, 1021, 1022, 1023}
  BY DEF Short
<1> HIDE DEF r
<1> QED BY <1>1, <1>2, <1>3, <1>4, <1>5 DEF bufferMetadata
-----------------------------------------------------------------------------
(* The loop over the chunks                                                *)

\* The chunks are 600 bytes, and as many as cover the file.
LEMMA Chunks ==
  /\ chunkSize = 600
  /\ \A n \in Nat : /\ totalChunks(n) \in Nat
                    /\ n <= 600 * totalChunks(n)
                    /\ 600 * totalChunks(n) < n + 600
<1>1. chunkSize = 600
  BY DEF chunkSize, Least
<1>2. ASSUME NEW n \in Nat
      PROVE  /\ totalChunks(n) \in Nat
             /\ n <= 600 * totalChunks(n)
             /\ 600 * totalChunks(n) < n + 600
  BY <1>1, SMTT(60) DEF totalChunks
<1> QED BY <1>1, <1>2

\* Where the loop is says what it covered and what it lost.
LoopInv ==
  /\ len \in Nat /\ i \in Nat /\ i <= totalChunks(len)
  /\ covered = Least(Offset(i), len)
  /\ \A c \in lost : c \in Nat /\ c < i /\ Refused(len, c)
  /\ \A c \in Nat : c < i /\ Refused(len, c) => c \in lost

\* The loop starts with nothing covered and nothing lost.
LEMMA InitLoop == SizesInit => LoopInv
<1> SUFFICES ASSUME SizesInit PROVE LoopInv
  OBVIOUS
<1>1. len \in Nat /\ i = 0 /\ covered = 0 /\ lost = {}
  BY LengthsAssumption DEF SizesInit
<1>2. i <= totalChunks(len) /\ covered = Least(Offset(i), len)
  BY <1>1, Chunks DEF Least, Offset
<1> QED BY <1>1, <1>2 DEF LoopInv

\* A chunk goes on where the one before ended.
LEMMA NextLoop == LoopInv /\ [SizesNext]_sizes => LoopInv'
<1> SUFFICES ASSUME LoopInv, [SizesNext]_sizes PROVE LoopInv'
  OBVIOUS
<1>1. CASE UNCHANGED sizes
  BY <1>1 DEF sizes, LoopInv
<1>2. CASE SizesNext
  <2>1. /\ len \in Nat /\ i \in Nat /\ len' = len /\ i' = i + 1
        /\ i + 1 <= totalChunks(len) /\ totalChunks(len) \in Nat
        /\ 600 * totalChunks(len) < len + 600
    BY <1>2, Chunks DEF LoopInv, SizesNext, WriteChunk
  <2>2. 600 * i < len
    BY <2>1
  <2>3. covered' = Least(Offset(i + 1), len)
    <3>1. covered = Least(Offset(i), len)
      BY DEF LoopInv
    <3>2. covered' = covered + (ChunkEnd(len, i) - Offset(i))
      BY <1>2 DEF SizesNext, WriteChunk
    <3> QED BY <2>1, <2>2, <3>1, <3>2, Chunks DEF Least, Offset, ChunkEnd
  <2>4. lost' = IF Refused(len, i) THEN lost \cup {i} ELSE lost
    BY <1>2 DEF SizesNext, WriteChunk
  <2>5. \A c \in lost' : c \in Nat /\ c < i + 1 /\ Refused(len, c)
    BY <2>1, <2>4 DEF LoopInv
  <2>6. \A c \in Nat : c < i + 1 /\ Refused(len, c) => c \in lost'
    <3> SUFFICES ASSUME NEW c \in Nat, c < i + 1, Refused(len, c) PROVE c \in lost'
      OBVIOUS
    <3>1. c = i \/ c < i
      BY <2>1
    <3>2. c < i => c \in lost
      BY DEF LoopInv
    <3> QED BY <2>4, <3>1, <3>2
  <2> QED BY <2>1, <2>3, <2>5, <2>6 DEF LoopInv
<1> QED BY <1>1, <1>2

\* For a file of any length the chunks cover it, in order, without gap or overlap.
THEOREM ChunksCover == SizesSpec => []Contiguous
<1>1. LoopInv => Contiguous
  <2> SUFFICES ASSUME LoopInv PROVE Contiguous
    OBVIOUS
  <2>1. /\ len \in Nat /\ i \in Nat /\ i <= totalChunks(len)
        /\ covered = Least(Offset(i), len)
    BY DEF LoopInv
  <2>2. /\ totalChunks(len) \in Nat /\ len <= 600 * totalChunks(len)
        /\ 600 * totalChunks(len) < len + 600 /\ chunkSize = 600
    BY <2>1, Chunks
  <2> QED BY <2>1, <2>2 DEF Contiguous, Least, Offset
<1> QED BY <1>1, InitLoop, NextLoop, PTL DEF SizesSpec

\* For a file of any length the loader refuses a chunk of it exactly when the
\* length is of one of the four residues.
THEOREM LostExactly == SizesSpec => []LostIffShort
<1>1. LoopInv => LostIffShort
  <2> SUFFICES ASSUME LoopInv, i = totalChunks(len), len > 0
               PROVE  lost # {} <=> Short(len)
    BY DEF LostIffShort
  <2>1. /\ len \in Nat /\ i \in Nat /\ totalChunks(len) = i /\ chunkSize = 600
        /\ len <= 600 * i /\ 600 * i < len + 600
    BY Chunks DEF LoopInv
  <2>2. bufferSize(len) < bufferMetadata + len <=> Short(len)
    BY <2>1, BufferShortExactly
  <2>3. bufferSize(len) \in Nat /\ bufferMetadata \in Nat
    BY <2>1, BufferShortExactly DEF bufferMetadata
  <2>4. i - 1 \in Nat /\ i - 1 < i
    BY <2>1
  <2>5. ChunkEnd(len, i - 1) = len
    BY <2>1 DEF ChunkEnd, Least, Offset
  <2>6. Refused(len, i - 1) <=> bufferSize(len) < bufferMetadata + len
    BY <2>1, <2>3, <2>5 DEF Refused
  <2>7. ASSUME NEW c \in Nat, Refused(len, c)
        PROVE  bufferSize(len) < bufferMetadata + len
    <3>1. ChunkEnd(len, c) \in Nat /\ ChunkEnd(len, c) <= len
      BY <2>1 DEF ChunkEnd, Least, Offset
    <3> QED BY <2>1, <2>3, <2>7, <3>1 DEF Refused
  <2>8. lost # {} => Short(len)
    BY <2>2, <2>7 DEF LoopInv
  <2>9. Short(len) => i - 1 \in lost
    BY <2>2, <2>4, <2>6 DEF LoopInv
  <2> QED BY <2>8, <2>9
<1> QED BY <1>1, InitLoop, NextLoop, PTL DEF SizesSpec

\* For a file of any length the four missing bytes cost it its last two chunks at
\* most: what is lost is never in front of them.
THEOREM LostAtTheEnd == SizesSpec => []LostOnlyAtTheEnd
<1>1. LoopInv => LostOnlyAtTheEnd
  <2> SUFFICES ASSUME LoopInv, NEW c \in lost PROVE c >= totalChunks(len) - 2
    BY DEF LostOnlyAtTheEnd
  <2>1. len \in Nat /\ c \in Nat /\ Refused(len, c)
    BY DEF LoopInv
  <2>2. /\ totalChunks(len) \in Nat /\ chunkSize = 600
        /\ 600 * totalChunks(len) < len + 600
    BY <2>1, Chunks
  <2>3. bufferSize(len) \in Nat /\ bufferMetadata + len <= bufferSize(len) + 4
    BY <2>1, BufferShortExactly
  <2>4. ChunkEnd(len, c) \in Nat /\ ChunkEnd(len, c) <= 600 * c + 600
    BY <2>1, <2>2 DEF ChunkEnd, Least, Offset
  <2>5. len <= 600 * c + 603
    BY <2>1, <2>3, <2>4 DEF Refused, bufferMetadata
  <2> QED BY <2>1, <2>2, <2>5
<1> QED BY <1>1, InitLoop, NextLoop, PTL DEF SizesSpec
=============================================================================
