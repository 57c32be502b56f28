---------------------------- MODULE Deploy_proofs ---------------------------
(***************************************************************************)
(* Theorems about scripts/deployment/deploy.ts, for any files, sizes,      *)
(* number of runs and transactions in flight, and whatever another party   *)
(* does in between.                                                        *)
(***************************************************************************)
EXTENDS Deploy, LoaderInstructions_proofs

-----------------------------------------------------------------------------
(* The invariant, by parts                                                 *)

Kind == {"createProgram", "createBuffer", "initBuffer", "write", "finalize"}

DeployTx == [kind : Kind, chunk : Nat, run : Nat]

InFlight == [of : DeployTx, fate : {"held", "broadcast"}]

Label == {"setup", "createProgram", "createBuffer", "initBuffer", "awaitInit",
          "write", "awaitWrite", "retry", "finalize", "done", "failed"}

Shape ==
  /\ acct \in Accounts
  /\ builds \in Rebuilds /\ run \in DOMAIN builds
  /\ requests \in Seq(InFlight)
  /\ pc \in Label /\ chunk \in Nat \ {0} /\ retries \in Nat
  /\ fate \in {None, "ok", "failed"} /\ late \in BOOLEAN /\ deployed \in Nat
  /\ taken \subseteq {program, buffer, programdata}

\* Before the first write.
Early == {"setup", "createProgram", "createBuffer", "initBuffer", "awaitInit"}

\* The chunks are written in order; the loop is left behind the last.
Loop ==
  /\ pc \in Early => chunk = 1
  /\ pc \in {"write", "awaitWrite", "retry"} => chunk <= totalChunks(run)
  /\ pc = "finalize" => chunk = totalChunks(run) + 1
  /\ chunk <= totalChunks(run) + 1
  /\ pc = "awaitWrite" => retries = 0
  /\ pc = "retry" => retries < maxRetries
  /\ retries <= maxRetries
  /\ pc \notin {"awaitInit", "awaitWrite", "done", "failed"} => fate = None

Histories ==
  \A x \in retried \cup refused : \E r \in 1..run : x \in {r} \X (1..totalChunks(r))

\* Every transaction in flight is of a run so far, of this one if none was late.
Flight ==
  \A id \in DOMAIN requests :
    LET tx == requests[id].of
    IN /\ tx.run \in 1..run
       /\ tx.kind = "write" => tx.chunk \in 1..totalChunks(tx.run)
       /\ ~late => tx.run = run

\* What the script waits for is the last it sent.
SentLast(tx) == requests # << >> /\ Last(requests) = [of |-> tx, fate |-> "broadcast"]

Waiting ==
  /\ pc = "awaitInit" /\ fate = None => SentLast(Tx("initBuffer", 0))
  /\ pc = "awaitWrite" /\ fate = None => SentLast(Tx("write", chunk))

-----------------------------------------------------------------------------
(* The accounts                                                            *)

Payer(as) == as[payer].owner = "system" /\ ~as[payer].executable

\* An account of the loader, funded and with data.
Funded(account) ==
  account.owner = "loader" /\ account.lamports > 0 /\ Len(account.data) > 0

\* An account created and not deployed: it answers to no one yet, to the payer, or to
\* the other party, if that took it.
Open(as, t, a) ==
  \/ as[a] = NoAccount
  \/ /\ Funded(as[a]) /\ ~as[a].executable
     /\ \/ as[a].state = Uninitialized
        \/ as[a].state = BufferState(payer)
        \/ as[a].state = BufferState(other) /\ a \in t

Final(as) ==
  Funded(as[program]) /\ as[program].executable /\ as[program].state = ProgramState(programdata)

Data(as, t) ==
  \/ as[programdata] = NoAccount
  \/ /\ Final(as) /\ Funded(as[programdata]) /\ ~as[programdata].executable
     /\ \/ as[programdata].state = ProgramDataState(0, payer)
        \/ as[programdata].state = ProgramDataState(0, other) /\ programdata \in t

\* What holds of the accounts whoever acts on them.
Holdings(as, t) ==
  Payer(as) /\ Open(as, t, buffer) /\ (Open(as, t, program) \/ Final(as)) /\ Data(as, t)

-----------------------------------------------------------------------------
(* What holds, too, while the script alone acts on them                     *)

\* Before it is a buffer there is nothing in it but zeros, and then zeros and cells of
\* the files.
Fresh(account) ==
  /\ Funded(account) /\ ~account.executable /\ account.state = Uninitialized
  /\ \A i \in 1..Len(account.data) : account.data[i] = Zero

Filled(account) ==
  /\ Funded(account) /\ ~account.executable /\ account.state = BufferState(payer)
  /\ Len(account.data) >= BufferMeta
  /\ \A i \in 1 .. Len(account.data) - BufferMeta :
       BufferContent(account)[i] = Zero \/ Has(BufferContent(account), i)

BufferShape ==
  /\ acct[buffer] = NoAccount \/ Fresh(acct[buffer]) \/ Filled(acct[buffer])
  /\ run = 1 /\ acct[buffer] # NoAccount => Len(acct[buffer].data) = bufferSize(1)

\* A program is deployed once: with its programdata, and for ever.
Undeployed ==
  /\ acct[programdata] = NoAccount
  /\ \/ acct[program] = NoAccount
     \/ /\ Funded(acct[program]) /\ ~acct[program].executable
        /\ acct[program].state = Uninitialized

Live ==
  /\ Funded(acct[program]) /\ acct[program].executable
  /\ acct[program].state = ProgramState(programdata)
  /\ Funded(acct[programdata]) /\ ~acct[programdata].executable
  /\ acct[programdata].state = ProgramDataState(0, payer)
  /\ deployed \in 1..run

ProgramShape == Undeployed \/ Live

-----------------------------------------------------------------------------
(* What was written                                                        *)

\* The cells of chunk c of run r are in content: those of that run, unless a
\* transaction was late.
Cells(r, c) == Offset(c) + 1 .. Offset(c) + Len(Slice(r, c))

There(content, r, c) ==
  \A i \in Cells(r, c) :
    /\ i \in DOMAIN content
    /\ content[i] = File(r)[i] \/ (late /\ Has(content, i))

IsBuffer == acct[buffer].state.tag = "Buffer"

Written(r, c) == IsBuffer /\ There(BufferContent(acct[buffer]), r, c)

Passed(r, c) == <<r, c>> \in retried \cup refused \/ Written(r, c)

\* Until the deployment, every chunk the script went on from is in the buffer, or
\* went through the retry loop, or was refused.
Progress ==
  Undeployed =>
    /\ \A c \in 1..chunk - 1 : Passed(run, c)
    /\ pc = "awaitWrite" /\ fate = "ok" => Written(run, chunk)
    /\ \A id \in DOMAIN requests : requests[id].of.kind = "finalize" =>
         LET r == requests[id].of.run IN \A c \in 1..totalChunks(r) : Passed(r, c)

\* In the first run a buffer is initialised once, before the first write: one that was
\* refused a chunk that fits is no buffer, and will not be one.
InitOnce ==
  run = 1 =>
    /\ pc \in Early => refused = {}
    /\ \A id \in DOMAIN requests : requests[id].of.kind = "initBuffer" =>
         /\ refused = {} /\ pc \in {"awaitInit", "failed"}
         /\ pc = "awaitInit" => fate = None /\ id = Len(requests)

Refusal ==
  run = 1 =>
    /\ \A c \in 1..totalChunks(1) : <<1, c>> \in refused /\ Fits(1, c) => ~IsBuffer
    /\ pc = "awaitWrite" /\ fate = "failed" /\ Fits(1, chunk) => ~IsBuffer

\* What was installed stays.
InstalledInv ==
  Live =>
    \A c \in 1..totalChunks(deployed) :
      \/ <<deployed, c>> \in retried
      \/ There(Installed, deployed, c)
      \/ <<deployed, c>> \in refused /\ (run > 1 \/ ~Fits(deployed, c))

DeployInv ==
  /\ Shape /\ Loop /\ Histories /\ Flight /\ Waiting /\ InitOnce
  /\ Holdings(acct, taken)
  /\ buffer \notin taken => BufferShape
  /\ taken = {} => ProgramShape /\ Progress /\ Refusal /\ InstalledInv

-----------------------------------------------------------------------------
(* The chunks of a file                                                    *)

\* Division rounds down.
LEMMA Division ==
  \A n \in Nat, k \in Nat \ {0} :
    /\ n \div k \in Nat
    /\ (n \div k) * k <= n /\ n < (n \div k) * k + k
OBVIOUS

\* Products of naturals, for the leaves that need one.
LEMMA Products ==
  \A i, j, k \in Nat : i * k \in Nat /\ (i <= j => i * k <= j * k) /\ (i + 1) * k = i * k + k
OBVIOUS

\* What a history deploys.
LEMMA Builds ==
  ASSUME NEW b \in Rebuilds, NEW r \in DOMAIN b
  PROVE  /\ r \in Nat \ {0} /\ r \in 1..Len(b) /\ Len(b) \in Nat
         /\ b[r].file \in Seq(Byte) /\ Len(b[r].file) \in Nat
         /\ b[r].bufferSize \in Nat \ {0}
<1> DEFINE Build == [file : Seq(Byte), bufferSize : Nat \ {0}]
<1>1. b \in Seq(Build)
  BY DeployAssumption
<1>2. /\ Len(b) \in Nat /\ DOMAIN b = 1..Len(b)
      /\ \A i \in 1..Len(b) : b[i] \in Build
  <2> HIDE DEF Build
  <2> QED BY <1>1, LenProperties, ElementOfSeq
<1>3. b[r] \in Build
  BY <1>2
<1>4. b[r].file \in Seq(Byte) /\ b[r].bufferSize \in Nat \ {0}
  BY <1>3
<1> QED BY <1>2, <1>4, LenProperties

\* Every chunk begins inside the file and ends there at the latest.
LEMMA Chunks ==
  ASSUME Shape, NEW r \in DOMAIN builds
  PROVE  /\ totalChunks(r) \in Nat
         /\ \A c \in 1..totalChunks(r) :
              /\ Offset(c) \in Nat /\ Offset(c) < Len(File(r))
              /\ c # totalChunks(r) => Offset(c) + chunkSize <= Len(File(r))
<1> DEFINE n == Len(File(r))
           t == totalChunks(r)
<1>1. n \in Nat /\ chunkSize \in Nat \ {0}
  BY Builds, DeployAssumption DEF Shape, File
<1> HIDE DEF n
<1>2. /\ t \in Nat
      /\ t * chunkSize <= n + chunkSize - 1
  <2>1. n + chunkSize - 1 \in Nat
    BY <1>1
  <2>2. t = (n + chunkSize - 1) \div chunkSize
    BY DEF totalChunks, n
  <2> QED BY <1>1, <2>1, <2>2, Division
<1> HIDE DEF t
<1>3. ASSUME NEW c \in 1..t
      PROVE  /\ Offset(c) \in Nat /\ Offset(c) < n
             /\ c # t => Offset(c) + chunkSize <= n
  <2> DEFINE o == (c - 1) * chunkSize
  <2>1. c - 1 \in Nat /\ c \in Nat
    BY <1>2
  <2>2. o \in Nat /\ c * chunkSize = o + chunkSize /\ c * chunkSize <= t * chunkSize
    <3>1. (c - 1) + 1 = c /\ c <= t
      BY <1>2
    <3> QED BY <1>1, <1>2, <2>1, <3>1, Products
  <2>3. c # t => (c + 1) * chunkSize <= t * chunkSize
    BY <1>1, <1>2, <2>1, Products
  <2>4. (c + 1) * chunkSize = c * chunkSize + chunkSize /\ c * chunkSize \in Nat
        /\ t * chunkSize \in Nat
    BY <1>1, <1>2, <2>1, Products
  <2> DEFINE x == c * chunkSize
             y == t * chunkSize
             z == (c + 1) * chunkSize
  <2> HIDE DEF o, x, y, z
  <2>5. /\ o \in Nat /\ x = o + chunkSize /\ x <= y /\ y <= n + chunkSize - 1
        /\ z = x + chunkSize /\ x \in Nat /\ y \in Nat /\ (c # t => z <= y)
    BY <1>2, <2>2, <2>3, <2>4 DEF o, x, y, z
  <2>6. o < n /\ (c # t => o + chunkSize <= n)
    BY <1>1, <2>5
  <2> QED BY <2>5, <2>6 DEF Offset, o
<1> QED BY <1>2, <1>3 DEF n, t

\* The bytes of a chunk are those of the file at its offset.
LEMMA SliceCells ==
  ASSUME Shape, NEW r \in DOMAIN builds, NEW c \in 1..totalChunks(r)
  PROVE  /\ Slice(r, c) \in Seq(Byte) /\ Len(Slice(r, c)) \in Nat
         /\ Offset(c) \in Nat
         /\ Cells(r, c) \subseteq DOMAIN File(r)
         /\ \A i \in Cells(r, c) :
              i - Offset(c) \in 1..Len(Slice(r, c)) /\ Slice(r, c)[i - Offset(c)] = File(r)[i]
<1> DEFINE f == File(r)
           o == Offset(c)
           e == IF c = totalChunks(r) THEN Len(f) ELSE o + chunkSize
<1>1. f \in Seq(Byte) /\ Len(f) \in Nat /\ chunkSize \in Nat \ {0}
  BY Builds, DeployAssumption DEF Shape, File
<1>2. /\ o \in Nat /\ o < Len(f)
      /\ c # totalChunks(r) => o + chunkSize <= Len(f)
  BY Chunks
<1>3. Slice(r, c) = SubSeq(f, o + 1, e)
  BY DEF Slice
<1> HIDE DEF f, o
<1>4. e \in Nat /\ o + 1 <= e /\ e <= Len(f)
  BY <1>1, <1>2
<1> HIDE DEF e
<1>5. DOMAIN f = 1..Len(f) /\ \A i \in 1..Len(f) : f[i] \in Byte
  BY <1>1, LenProperties, ElementOfSeq
<1>6. \A i \in o + 1 .. e : f[i] \in Byte
  BY <1>1, <1>2, <1>4, <1>5
<1>7. /\ SubSeq(f, o + 1, e) \in Seq(Byte)
      /\ Len(SubSeq(f, o + 1, e)) = e - o
      /\ \A i \in 1 .. e - o : SubSeq(f, o + 1, e)[i] = f[o + i]
  <2>1. o + 1 \in Int /\ e \in Int
    BY <1>2, <1>4
  <2>2. /\ SubSeq(f, o + 1, e) \in Seq(Byte)
        /\ Len(SubSeq(f, o + 1, e)) = IF o + 1 <= e THEN e - (o + 1) + 1 ELSE 0
        /\ \A i \in 1 .. e - (o + 1) + 1 : SubSeq(f, o + 1, e)[i] = f[(o + 1) + i - 1]
    BY <1>6, <2>1, SubSeqProperties
  <2>3. e - (o + 1) + 1 = e - o /\ \A i \in 1 .. e - o : (o + 1) + i - 1 = o + i
    BY <1>2, <1>4
  <2> QED BY <1>4, <2>2, <2>3
<1>8. Len(Slice(r, c)) = e - o /\ Slice(r, c) \in Seq(Byte) /\ Cells(r, c) = o + 1 .. e
  <2>1. o + (e - o) = e
    BY <1>2, <1>4
  <2> QED BY <1>3, <1>7, <2>1 DEF Cells, o
<1>9. ASSUME NEW i \in o + 1 .. e
      PROVE  i \in DOMAIN f /\ i - o \in 1 .. e - o /\ Slice(r, c)[i - o] = f[i]
  <2>1. i \in 1..Len(f) /\ i - o \in 1 .. e - o /\ o + (i - o) = i
    BY <1>1, <1>2, <1>4
  <2> QED BY <1>3, <1>5, <1>7, <2>1
<1> QED BY <1>2, <1>4, <1>8, <1>9 DEF f, o

-----------------------------------------------------------------------------
(* The transactions in flight                                              *)

\* The fields of a transaction in flight.
LEMMA FlightFields ==
  ASSUME Shape, NEW id \in DOMAIN requests
  PROVE  /\ Len(requests) \in Nat /\ DOMAIN requests = 1..Len(requests)
         /\ requests[id] \in InFlight /\ requests[id].of \in DeployTx
         /\ requests[id].of.kind \in Kind /\ requests[id].of.chunk \in Nat
         /\ requests[id].of.run \in Nat /\ requests[id].fate \in {"held", "broadcast"}
<1>1. /\ Len(requests) \in Nat /\ DOMAIN requests = 1..Len(requests)
      /\ requests[id] \in InFlight
  BY LenProperties, ElementOfSeq DEF Shape
<1>2. requests[id].of \in DeployTx /\ requests[id].fate \in {"held", "broadcast"}
  BY <1>1 DEF InFlight
<1> QED BY <1>1, <1>2 DEF DeployTx

\* One more is behind the others.
LEMMA Appended ==
  ASSUME Shape, NEW tx \in DeployTx, NEW as \in {"held", "broadcast"}, Submitted(tx, as)
  PROVE  /\ requests' \in Seq(InFlight)
         /\ Len(requests) \in Nat /\ Len(requests') = Len(requests) + 1
         /\ requests' # << >>
         /\ DOMAIN requests' = DOMAIN requests \cup {Len(requests) + 1}
         /\ \A id \in DOMAIN requests : requests'[id] = requests[id]
         /\ requests'[Len(requests) + 1] = [of |-> tx, fate |-> as]
<1> DEFINE e == [of |-> tx, fate |-> as]
<1>1. requests \in Seq(InFlight) /\ e \in InFlight /\ requests' = Append(requests, e)
  BY DEF Shape, InFlight, Submitted
<1> HIDE DEF e
<1>2. Len(requests) \in Nat /\ DOMAIN requests = 1..Len(requests)
  BY <1>1, LenProperties
<1>3. /\ requests' \in Seq(InFlight) /\ Len(requests') = Len(requests) + 1
      /\ requests' # << >>
      /\ \A id \in 1..Len(requests) : requests'[id] = requests[id]
      /\ requests'[Len(requests) + 1] = e
  BY <1>1, AppendProperties
<1>4. DOMAIN requests' = 1..Len(requests')
  BY <1>3, LenProperties
<1> QED BY <1>2, <1>3, <1>4 DEF e

\* A forgotten one leaves the others, the last of them the last.
LEMMA Forgotten ==
  ASSUME Shape, NEW id \in DOMAIN requests, Forget(id)
  PROVE  /\ requests' \in Seq(InFlight)
         /\ \A j \in DOMAIN requests' : \E i \in DOMAIN requests :
              /\ requests'[j] = requests[i]
              /\ i = Len(requests) => j = Len(requests') /\ id # Len(requests)
         /\ id # Len(requests) =>
              requests' # << >> /\ requests'[Len(requests')] = requests[Len(requests)]
<1> DEFINE n == Len(requests)
           S == InFlight
           front == SubSeq(requests, 1, id - 1)
           back == SubSeq(requests, id + 1, n)
<1>1. requests \in Seq(S) /\ n \in Nat /\ DOMAIN requests = 1..n /\ id \in 1..n
  BY FlightFields DEF Shape
<1>2. requests' = front \o back
  BY DEF Forget, RemoveAt
<1>3. \A i \in 1..n : requests[i] \in S
  BY <1>1, ElementOfSeq
<1> HIDE DEF S, n
<1>4. /\ front \in Seq(S) /\ Len(front) = id - 1
      /\ \A i \in 1 .. id - 1 : front[i] = requests[i]
  <2>1. 1 \in Int /\ id - 1 \in Int /\ \A i \in 1 .. id - 1 : requests[i] \in S
    BY <1>1, <1>3
  <2>2. /\ front \in Seq(S) /\ Len(front) = IF 1 <= id - 1 THEN id - 1 - 1 + 1 ELSE 0
        /\ \A i \in 1 .. id - 1 - 1 + 1 : front[i] = requests[1 + i - 1]
    BY <2>1, SubSeqProperties
  <2>3. (IF 1 <= id - 1 THEN id - 1 - 1 + 1 ELSE 0) = id - 1 /\ id - 1 - 1 + 1 = id - 1
        /\ \A i \in 1 .. id - 1 : 1 + i - 1 = i
    BY <1>1
  <2> QED BY <2>2, <2>3
<1>5. /\ back \in Seq(S) /\ Len(back) = n - id
      /\ \A i \in 1 .. n - id : back[i] = requests[id + i]
  <2>1. id + 1 \in Int /\ n \in Int /\ \A i \in id + 1 .. n : requests[i] \in S
    BY <1>1, <1>3
  <2>2. /\ back \in Seq(S)
        /\ Len(back) = IF id + 1 <= n THEN n - (id + 1) + 1 ELSE 0
        /\ \A i \in 1 .. n - (id + 1) + 1 : back[i] = requests[(id + 1) + i - 1]
    BY <2>1, SubSeqProperties
  <2>3. (IF id + 1 <= n THEN n - (id + 1) + 1 ELSE 0) = n - id
        /\ n - (id + 1) + 1 = n - id
        /\ \A i \in 1 .. n - id : (id + 1) + i - 1 = id + i
    BY <1>1
  <2> QED BY <2>2, <2>3
<1> HIDE DEF front, back
<1>6. /\ requests' \in Seq(S) /\ Len(requests') = (id - 1) + (n - id)
      /\ \A j \in 1 .. (id - 1) + (n - id) :
           requests'[j] = IF j <= id - 1 THEN front[j] ELSE back[j - (id - 1)]
  BY <1>2, <1>4, <1>5, ConcatProperties
<1>7. Len(requests') = n - 1 /\ DOMAIN requests' = 1 .. n - 1
  <2>1. (id - 1) + (n - id) = n - 1
    BY <1>1
  <2> QED BY <1>6, <2>1, LenProperties
<1>8. ASSUME NEW j \in 1 .. n - 1
      PROVE  \E i \in 1..n : /\ requests'[j] = requests[i]
                             /\ i = n <=> j = n - 1 /\ id # n
  <2>1. j \in 1 .. (id - 1) + (n - id)
    BY <1>1
  <2>2. CASE j <= id - 1
    <3>1. j \in 1 .. id - 1 /\ j \in 1..n /\ j # n /\ (j = n - 1 => id = n)
      BY <1>1, <2>2
    <3> QED BY <1>4, <1>6, <2>1, <2>2, <3>1
  <2>3. CASE ~(j <= id - 1)
    <3>1. /\ j - (id - 1) \in 1 .. n - id /\ id + (j - (id - 1)) = j + 1
          /\ j + 1 \in 1..n /\ (j + 1 = n <=> j = n - 1) /\ id # n
      BY <1>1, <2>3
    <3> QED BY <1>5, <1>6, <2>1, <2>3, <3>1
  <2> QED BY <2>2, <2>3
<1>9. ASSUME id # n
      PROVE  requests' # << >> /\ requests'[n - 1] = requests[n]
  <2>1. n - 1 \in 1 .. n - 1 /\ n - 1 # 0
    BY <1>1, <1>9
  <2>2. requests'[n - 1] = requests[n]
    BY <1>8, <1>9, <2>1
  <2> QED BY <1>7, <2>1, <2>2, EmptySeq
<1> QED BY <1>1, <1>6, <1>7, <1>8, <1>9 DEF n, S

\* One that Fireblocks sends after all is the same transaction.
LEMMA Broadcast ==
  ASSUME Shape, NEW id \in DOMAIN requests,
         requests' = [requests EXCEPT ![id].fate = "broadcast"]
  PROVE  /\ requests' \in Seq(InFlight) /\ Len(requests') = Len(requests)
         /\ DOMAIN requests' = DOMAIN requests
         /\ \A i \in DOMAIN requests : requests'[i].of = requests[i].of
         /\ \A i \in DOMAIN requests : i # id => requests'[i] = requests[i]
<1> DEFINE new == [requests[id] EXCEPT !.fate = "broadcast"]
           S == InFlight
<1>1. /\ requests \in Seq(S) /\ DOMAIN requests = 1..Len(requests)
      /\ requests[id] \in InFlight
  BY FlightFields DEF Shape
<1>2. new \in S /\ new.of = requests[id].of
  BY <1>1 DEF InFlight
<1>3. requests' = [requests EXCEPT ![id] = new]
  OBVIOUS
<1> HIDE DEF new, S
<1>4. id \in 1..Len(requests)
  BY <1>1
<1>5. /\ [requests EXCEPT ![id] = new] \in Seq(S)
      /\ Len([requests EXCEPT ![id] = new]) = Len(requests)
      /\ \A i \in 1..Len(requests) :
           [requests EXCEPT ![id] = new][i] = IF i = id THEN new ELSE requests[i]
  BY <1>1, <1>2, <1>4, ExceptSeq
<1>6. /\ requests' \in Seq(S) /\ Len(requests') = Len(requests)
      /\ \A i \in 1..Len(requests) : requests'[i] = IF i = id THEN new ELSE requests[i]
  BY <1>3, <1>5
<1>7. DOMAIN requests' = 1..Len(requests')
  BY <1>6, LenProperties
<1> QED BY <1>1, <1>2, <1>6, <1>7 DEF S

-----------------------------------------------------------------------------
(* What a step leaves as it was                                            *)

\* No step goes back to an earlier run or takes anything out of a history.
Grows ==
  /\ UNCHANGED builds /\ run' \in DOMAIN builds /\ run <= run'
  /\ (late => late') /\ retried \subseteq retried' /\ refused \subseteq refused'

\* The files of a history of runs are given.
LEMMA FilesStay ==
  ASSUME UNCHANGED builds
  PROVE  \A r, c : /\ File(r)' = File(r) /\ bufferSize(r)' = bufferSize(r)
                   /\ totalChunks(r)' = totalChunks(r)
                   /\ Slice(r, c)' = Slice(r, c) /\ Cells(r, c)' = Cells(r, c)
                   /\ Fits(r, c)' = Fits(r, c)
<1>1. \A r : File(r)' = File(r) /\ bufferSize(r)' = bufferSize(r)
  BY DEF File, bufferSize
<1>2. \A r : totalChunks(r)' = totalChunks(r)
  BY <1>1 DEF totalChunks
<1>3. \A r, c : Slice(r, c)' = Slice(r, c)
  BY <1>1, <1>2 DEF Slice
<1>4. \A r, c : Cells(r, c)' = Cells(r, c) /\ Fits(r, c)' = Fits(r, c)
  BY <1>1, <1>3 DEF Cells, Fits
<1> QED BY <1>1, <1>2, <1>3, <1>4

\* The run is a positive number.
LEMMA RunType ==
  ASSUME Shape
  PROVE  run \in Nat \ {0} /\ \A r \in 1..run : r \in DOMAIN builds
<1>1. builds \in Rebuilds /\ run \in DOMAIN builds
  BY DEF Shape
<1>2. run \in 1..Len(builds) /\ Len(builds) \in Nat
  BY <1>1, Builds
<1>3. DOMAIN builds = 1..Len(builds)
  BY <1>1, DeployAssumption, LenProperties
<1> QED BY <1>2, <1>3

\* A cell of a program is one of a program deployed so far in every later state.
LEMMA HasStays ==
  ASSUME Shape, Grows, run' \in Nat, NEW content, NEW i, Has(content, i)
  PROVE  Has(content, i)'
<1>1. PICK r \in 1..run : i \in DOMAIN content \cap DOMAIN File(r) /\ content[i] = File(r)[i]
  BY DEF Has
<1>2. r \in 1..run'
  BY RunType DEF Grows
<1>3. File(r)' = File(r)
  BY FilesStay DEF Grows
<1> QED BY <1>1, <1>2, <1>3 DEF Has

\* Chunks in a content stay in it.
LEMMA ThereStays ==
  ASSUME Shape, Grows, run' \in Nat, NEW content, NEW r, NEW c, There(content, r, c)
  PROVE  There(content, r, c)'
<1>1. Cells(r, c)' = Cells(r, c) /\ File(r)' = File(r) /\ (late => late')
  BY FilesStay DEF Grows
<1>2. ASSUME NEW i \in Cells(r, c)
      PROVE  i \in DOMAIN content /\ (content[i] = File(r)'[i] \/ (late' /\ Has(content, i)'))
  BY <1>1, HasStays DEF There
<1> QED BY <1>1, <1>2 DEF There

\* A buffer stays one of the kinds it may be.
LEMMA FilledStays ==
  ASSUME Shape, Grows, run' \in Nat, NEW account, Filled(account)
  PROVE  Filled(account)'
<1>1. ASSUME NEW i \in 1 .. Len(account.data) - BufferMeta
      PROVE  BufferContent(account)[i] = Zero \/ Has(BufferContent(account), i)'
  <2>1. BufferContent(account)[i] = Zero \/ Has(BufferContent(account), i)
    BY DEF Filled
  <2> QED BY <2>1, HasStays
<1>2. /\ Funded(account) /\ ~account.executable /\ account.state = BufferState(payer)
      /\ Len(account.data) >= BufferMeta
  BY DEF Filled
<1> QED BY <1>1, <1>2 DEF Filled, Funded

\* A step that leaves the buffer alone leaves what was written.
LEMMA BufferStays ==
  ASSUME Shape, Grows, run' \in Nat, BufferShape, acct'[buffer] = acct[buffer]
  PROVE  /\ BufferShape' /\ (IsBuffer' <=> IsBuffer)
         /\ \A r, c : Written(r, c) => Written(r, c)'
         /\ \A r, c : Passed(r, c) => Passed(r, c)'
<1>1. PICK account : account = acct[buffer]
  OBVIOUS
<1>2. account = acct'[buffer]
  BY <1>1
<1>3. BufferShape'
  <2>1. account = NoAccount \/ Fresh(account) \/ Filled(account)'
    BY <1>1, FilledStays DEF BufferShape
  <2>2. acct'[buffer] = NoAccount \/ Fresh(acct'[buffer]) \/ Filled(acct[buffer])'
    BY <1>2, <2>1
  <2>3. run' = 1 => run = 1
    BY RunType DEF Grows
  <2>4. bufferSize(1)' = bufferSize(1)
    BY FilesStay DEF Grows
  <2>5. run = 1 /\ account # NoAccount => Len(account.data) = bufferSize(1)
    BY <1>1 DEF BufferShape
  <2> QED BY <1>2, <2>2, <2>3, <2>4, <2>5 DEF BufferShape, Fresh, Funded
<1>4. IsBuffer' <=> IsBuffer
  BY DEF IsBuffer
<1>5. ASSUME NEW r, NEW c, Written(r, c)
      PROVE  Written(r, c)'
  <2>1. PICK content : content = BufferContent(acct[buffer])
    OBVIOUS
  <2>2. There(content, r, c)'
    BY <1>5, <2>1, ThereStays DEF Written
  <2>3. content = BufferContent(acct'[buffer])
    BY <2>1
  <2>4. There(BufferContent(acct[buffer]), r, c)'
    BY <2>2, <2>3
  <2> QED BY <1>4, <1>5, <2>4 DEF Written
<1>6. ASSUME NEW r, NEW c, Passed(r, c)
      PROVE  Passed(r, c)'
  BY <1>5, <1>6 DEF Passed, Grows
<1> QED BY <1>3, <1>4, <1>5, <1>6

\* A step that leaves the program alone leaves what was installed.
LEMMA ProgramStays ==
  ASSUME Shape, Grows, run' \in Nat, ProgramShape, InstalledInv,
         acct'[program] = acct[program], acct'[programdata] = acct[programdata],
         Live => deployed' = deployed
  PROVE  /\ (Live' <=> Live) /\ (Undeployed' <=> Undeployed)
         /\ ProgramShape' /\ InstalledInv'
<1>1. run <= run' /\ run \in Nat \ {0}
  BY RunType DEF Grows
<1>2. Undeployed' <=> Undeployed
  BY DEF Undeployed, Funded
<1>3. Live => Live' /\ deployed' = deployed
  BY <1>1 DEF Live, Funded
<1>4. Undeployed => ~Live /\ ~Live'
  BY DEF Undeployed, Live, Funded, NoAccount
<1>5. Live' <=> Live
  BY <1>3, <1>4 DEF ProgramShape
<1>6. ProgramShape'
  BY <1>2, <1>5 DEF ProgramShape
<1>7. ASSUME Live, NEW c \in 1..totalChunks(deployed)'
      PROVE  \/ (<<deployed, c>> \in retried)'
             \/ There(Installed, deployed, c)'
             \/ (<<deployed, c>> \in refused /\ (run > 1 \/ ~Fits(deployed, c)))'
  <2>1. PICK d : d = deployed
    OBVIOUS
  <2>2. d = deployed'
    BY <1>3, <1>7, <2>1
  <2>3. totalChunks(d)' = totalChunks(d) /\ Fits(d, c)' = Fits(d, c)
    BY FilesStay DEF Grows
  <2>4. c \in 1..totalChunks(d)
    <3>1. c \in 1..totalChunks(d)'
      BY <1>7, <2>2
    <3> QED BY <2>3, <3>1
  <2>5. \/ <<d, c>> \in retried
        \/ There(Installed, d, c)
        \/ <<d, c>> \in refused /\ (run > 1 \/ ~Fits(d, c))
    BY <1>7, <2>1, <2>4 DEF InstalledInv
  <2>6. There(Installed, d, c) => There(Installed, d, c)'
    <3>1. PICK content : content = Installed
      OBVIOUS
    <3>2. content = Installed'
      BY <3>1 DEF Installed
    <3>3. There(content, d, c) => There(content, d, c)'
      BY ThereStays
    <3> QED BY <3>1, <3>2, <3>3
  <2>7. run > 1 => run' > 1
    BY <1>1
  <2>8. \/ <<d, c>> \in retried'
        \/ There(Installed, d, c)'
        \/ <<d, c>> \in refused' /\ (run' > 1 \/ ~Fits(d, c)')
    BY <2>3, <2>5, <2>6, <2>7 DEF Grows
  <2> QED BY <2>2, <2>8
<1>8. InstalledInv'
  BY <1>5, <1>7 DEF InstalledInv
<1> QED BY <1>2, <1>5, <1>6, <1>8

-----------------------------------------------------------------------------
(* What a transaction leaves of the accounts                               *)

\* The accounts of a deployment are four, and the other party is another.
LEMMA Parties ==
  /\ {payer, program, buffer, programdata} \subseteq Address
  /\ payer # program /\ payer # buffer /\ payer # programdata
  /\ buffer # program /\ buffer # programdata /\ program # programdata
  /\ program \in Program /\ payer \in Key /\ payer # None
  /\ other \in Address /\ other \in Key /\ other # None
  /\ other \notin {payer, program, buffer, programdata}
<1>1. program # programdata
  BY DeployAssumption, PdaAssumption
<1>2. payer \in Key /\ payer # None /\ other \in Key /\ other # None
  BY DeployAssumption, KeyAssumption
<1> QED BY <1>1, <1>2, DeployAssumption

\* An account without lamports is gone, and the others stay.
LEMMA Purged ==
  ASSUME NEW as \in Accounts, NEW a \in Address
  PROVE  /\ as[a] = NoAccount \/ as[a].lamports > 0 => Purge(as)[a] = as[a]
         /\ as[a].lamports = 0 => Purge(as)[a] = NoAccount
<1>1. Purge(as)[a] = IF as[a].lamports = 0 THEN NoAccount ELSE as[a]
  BY DEF Purge
<1>2. as[a].lamports \in Nat
  BY AccountFields DEF Accounts
<1>3. as[a].lamports > 0 => as[a].lamports # 0
  <2>1. \A n \in Nat : n > 0 => n # 0
    OBVIOUS
  <2> QED BY <1>2, <2>1
<1> QED BY <1>1, <1>3

\* Whatever it pays, the payer is an account of the system program.
LEMMA PayerStays ==
  ASSUME NEW as \in Accounts, as[payer].owner = "system", ~as[payer].executable
  PROVE  Purge(as)[payer].owner = "system" /\ ~Purge(as)[payer].executable
<1>1. Purge(as)[payer] = NoAccount \/ Purge(as)[payer] = as[payer]
  BY Parties DEF Purge
<1> QED BY <1>1, EmptyAccount

\* An allocation is funded, uninitialized and zero.
LEMMA AllocatedShape ==
  ASSUME NEW n \in Nat \ {0}, NEW space \in Nat \ {0}
  PROVE  LET account == Allocated(n, space)
         IN /\ Funded(account) /\ ~account.executable /\ account.state = Uninitialized
            /\ Len(account.data) = space /\ \A i \in 1..space : account.data[i] = Zero
<1> DEFINE account == Allocated(n, space)
<1>1. /\ account.owner = "loader" /\ account.lamports = n /\ ~account.executable
      /\ account.state = Uninitialized /\ account.data = [i \in 1..space |-> Zero]
  BY DEF Allocated, NoAccount
<1>2. Len(account.data) = space
  BY AllocatedType
<1> HIDE DEF account
<1> QED BY <1>1, <1>2 DEF Funded, account

\* A new account of a deployment, paid for by the payer.
LEMMA Created ==
  ASSUME NEW as \in Accounts, NEW by, NEW to \in {program, buffer}, NEW space \in Nat \ {0},
         as[payer].owner = "system", ~as[payer].executable,
         CanCreateAccount(as, by, payer, to, Rent(space))
  PROVE  LET new == Purge(AfterCreateAccount(as, payer, to, Rent(space), space))
         IN /\ new \in Accounts
            /\ new[payer].owner = "system" /\ ~new[payer].executable
            /\ new[to] = Allocated(Rent(space), space) /\ Rent(space) \in Nat \ {0}
            /\ \A a \in {program, buffer, programdata} \ {to} :
                 as[a] = NoAccount \/ as[a].lamports > 0 => new[a] = as[a]
<1> DEFINE made == AfterCreateAccount(as, payer, to, Rent(space), space)
<1>1. Rent(space) \in Nat \ {0} /\ space \in Nat
  BY RentType
<1>2. made \in Accounts
  BY <1>1, Parties, CreateAccountType
<1>3. /\ made[payer] = [as[payer] EXCEPT !.lamports = as[payer].lamports - Rent(space)]
      /\ made[to] = Allocated(Rent(space), space)
      /\ \A a \in {program, buffer, programdata} \ {to} : made[a] = as[a]
  BY Parties DEF AfterCreateAccount, Accounts
<1>4. made[to].lamports > 0
  BY <1>1, <1>3, AllocatedShape DEF Funded
<1> HIDE DEF made
<1>5. Purge(made) \in Accounts /\ Purge(made)[to] = made[to]
  BY <1>2, <1>4, Parties, Purged, PurgeType
<1>6. Purge(made)[payer].owner = "system" /\ ~Purge(made)[payer].executable
  <2>1. as[payer] \in Account
    BY Parties DEF Accounts
  <2>2. made[payer].owner = "system" /\ ~made[payer].executable
    BY <1>3, <2>1 DEF Account
  <2> QED BY <1>2, <2>2, PayerStays
<1>7. \A a \in {program, buffer, programdata} \ {to} :
        as[a] = NoAccount \/ as[a].lamports > 0 => Purge(made)[a] = as[a]
  BY <1>2, <1>3, Parties, Purged
<1> QED BY <1>1, <1>3, <1>5, <1>6, <1>7 DEF made

\* A transaction on the buffer alone, which stays funded.
LEMMA OnlyBuffer ==
  ASSUME NEW as \in Accounts, NEW account \in Account, account.lamports > 0,
         as[payer].owner = "system", ~as[payer].executable
  PROVE  LET new == Purge([as EXCEPT ![buffer] = account])
         IN /\ new \in Accounts
            /\ new[payer].owner = "system" /\ ~new[payer].executable
            /\ new[buffer] = account
            /\ \A a \in {program, programdata} :
                 as[a] = NoAccount \/ as[a].lamports > 0 => new[a] = as[a]
<1> DEFINE made == [as EXCEPT ![buffer] = account]
<1>1. /\ made \in Accounts /\ made[buffer] = account
      /\ \A a \in {payer, program, programdata} : made[a] = as[a]
  BY Parties DEF Accounts
<1> HIDE DEF made
<1>2. Purge(made) \in Accounts /\ Purge(made)[buffer] = account
  BY <1>1, Parties, Purged, PurgeType
<1>3. Purge(made)[payer].owner = "system" /\ ~Purge(made)[payer].executable
  BY <1>1, PayerStays
<1>4. ASSUME NEW a \in {program, programdata}, as[a] = NoAccount \/ as[a].lamports > 0
      PROVE  Purge(made)[a] = as[a]
  <2>1. a \in Address /\ made[a] = as[a]
    BY <1>1, Parties
  <2> QED BY <1>1, <1>4, <2>1, Purged
<1> QED BY <1>2, <1>3, <1>4 DEF made

\* A content of zeros and cells of the files, by cells of the account.
LEMMA BufferCells ==
  ASSUME NEW account \in Account, Len(account.data) >= BufferMeta
  PROVE  LET n == Len(account.data) - BufferMeta
         IN /\ n \in Nat /\ BufferMeta \in Nat
            /\ BufferContent(account) \in Seq(Cell) /\ DOMAIN BufferContent(account) = 1..n
            /\ \A i \in 1..n : /\ BufferContent(account)[i] = account.data[BufferMeta + i]
                               /\ BufferMeta + i \in 1..Len(account.data)
                               /\ ~(BufferMeta + i <= BufferMeta)
<1> DEFINE n == Len(account.data) - BufferMeta
           content == BufferContent(account)
<1>1. Len(account.data) \in Nat /\ BufferMeta \in Nat
  BY AccountFields, Sizes
<1>2. BufferMeta <= Len(account.data) /\ n \in Nat
  BY <1>1
<1>3. content \in Seq(Cell) /\ Len(content) = n
  BY <1>1, <1>2, ContentType DEF BufferContent
<1>4. \A i \in 1..n : content[i] = account.data[BufferMeta + i]
  BY <1>1, <1>2, ContentCells DEF BufferContent
<1>5. \A i \in 1..n : BufferMeta + i \in 1..Len(account.data) /\ ~(BufferMeta + i <= BufferMeta)
  BY <1>1
<1>6. DOMAIN content = 1..n
  BY <1>3, DataDomain
<1> QED BY <1>1, <1>2, <1>3, <1>4, <1>5, <1>6

\* An initialised account is a buffer of zeros that answers to the payer.
LEMMA Initialized ==
  ASSUME NEW account \in Account, Fresh(account), Len(account.data) >= BufferMeta
  PROVE  LET new == SetState(account, BufferState(payer))
         IN /\ new \in Account /\ new.lamports > 0
            /\ Filled(new) /\ Len(new.data) = Len(account.data)
<1> DEFINE new == SetState(account, BufferState(payer))
<1>1. /\ BufferState(payer) \in State /\ BufferState(payer).tag = "Buffer"
      /\ StateLen("Buffer") = BufferMeta
  BY StateType, StateLens, Parties DEF BufferState, Uninitialized, Tag
<1>2. /\ new \in Account /\ Len(new.data) = Len(account.data)
      /\ new.state = BufferState(payer)
      /\ new.lamports = account.lamports /\ new.owner = account.owner
      /\ new.executable = account.executable
  BY <1>1, SetStateType
<1>3. \A i \in 1..Len(account.data) : i <= BufferMeta \/ new.data[i] = Zero
  BY <1>1, SetStateCells DEF Fresh
<1> HIDE DEF new
<1>4. \A i \in 1 .. Len(new.data) - BufferMeta : BufferContent(new)[i] = Zero
  BY <1>2, <1>3, BufferCells
<1>5. Funded(new) /\ ~new.executable /\ new.lamports > 0
  BY <1>2 DEF Fresh, Funded
<1> QED BY <1>2, <1>4, <1>5 DEF Filled, new

\* A write puts its bytes behind the metadata and leaves the rest of the account.
LEMMA Wrote ==
  ASSUME NEW account \in Account, account.lamports > 0, NEW o \in Nat,
         NEW bytes \in Seq(Byte), Len(account.data) >= BufferMeta + o + Len(bytes)
  PROVE  LET new == [account EXCEPT !.data = Overwrite(account.data, BufferMeta + o, bytes)]
         IN /\ new \in Account /\ new.lamports > 0
            /\ new = [account EXCEPT !.data = new.data] /\ Len(new.data) = Len(account.data)
            /\ DOMAIN BufferContent(new) = DOMAIN BufferContent(account)
            /\ o + 1 .. o + Len(bytes) \subseteq DOMAIN BufferContent(account)
            /\ \A i \in DOMAIN BufferContent(account) :
                 BufferContent(new)[i] = IF i \in o + 1 .. o + Len(bytes) THEN bytes[i - o]
                                         ELSE BufferContent(account)[i]
<1> DEFINE data == Overwrite(account.data, BufferMeta + o, bytes)
           new == [account EXCEPT !.data = data]
           l == Len(bytes)
           n == Len(account.data)
<1>1. /\ account.data \in Seq(Cell) /\ n \in Nat /\ BufferMeta \in Nat /\ l \in Nat
      /\ bytes \in Seq(Cell)
  BY AccountFields, Sizes, LenProperties, SeqMonotonic DEF Cell
<1>2. BufferMeta + o \in Nat /\ n >= BufferMeta /\ BufferMeta + o + l <= n
  BY <1>1
<1>3. /\ data \in Seq(Cell) /\ Len(data) = n
  BY <1>1, <1>2, OverwriteType
<1>4. \A x \in 1..n : data[x] = IF x \in BufferMeta + o + 1 .. BufferMeta + o + l
                                THEN bytes[x - (BufferMeta + o)] ELSE account.data[x]
  BY <1>1, DataDomain DEF Overwrite
<1> HIDE DEF data
<1>5. /\ new \in Account /\ new.data = data /\ new = [account EXCEPT !.data = new.data]
      /\ new.lamports > 0
  BY <1>1, <1>3, AccountUpdate DEF Account
<1> HIDE DEF new
<1>6. DOMAIN BufferContent(new) = 1 .. n - BufferMeta
      /\ DOMAIN BufferContent(account) = 1 .. n - BufferMeta
  BY <1>2, <1>3, <1>5, BufferCells
<1>7. o + 1 .. o + l \subseteq 1 .. n - BufferMeta
  BY <1>1, <1>2
<1>8. ASSUME NEW i \in 1 .. n - BufferMeta
      PROVE  BufferContent(new)[i] = IF i \in o + 1 .. o + l THEN bytes[i - o]
                                     ELSE BufferContent(account)[i]
  <2>1. /\ BufferContent(new)[i] = data[BufferMeta + i] /\ BufferMeta + i \in 1..n
        /\ BufferContent(account)[i] = account.data[BufferMeta + i]
    BY <1>2, <1>3, <1>5, BufferCells
  <2>2. /\ BufferMeta + i \in BufferMeta + o + 1 .. BufferMeta + o + l
             <=> i \in o + 1 .. o + l
        /\ (BufferMeta + i) - (BufferMeta + o) = i - o
    BY <1>1
  <2> QED BY <1>4, <2>1, <2>2
<1> QED BY <1>3, <1>5, <1>6, <1>7, <1>8 DEF new, data, l, n

\* A chunk that is written is there, and every chunk that was there still is: written
\* again, or overwritten by a late write of another run.
LEMMA ChunkWritten ==
  ASSUME Shape, NEW r \in 1..run, NEW c \in 1..totalChunks(r),
         NEW old, NEW new, DOMAIN new = DOMAIN old, Cells(r, c) \subseteq DOMAIN old,
         \A i \in DOMAIN old : new[i] = IF i \in Cells(r, c) THEN File(r)[i] ELSE old[i]
  PROVE  /\ \A i \in DOMAIN old : old[i] = Zero \/ Has(old, i) => new[i] = Zero \/ Has(new, i)
         /\ There(new, r, c)
         /\ \A s, d : (late \/ s = r) /\ There(old, s, d) => There(new, s, d)
<1>1. Cells(r, c) \subseteq DOMAIN File(r)
  BY RunType, SliceCells
<1>2. \A i \in Cells(r, c) : Has(new, i)
  BY <1>1 DEF Has
<1>3. \A i \in DOMAIN old : Has(old, i) => Has(new, i)
  <2> SUFFICES ASSUME NEW i \in DOMAIN old, Has(old, i), i \notin Cells(r, c)
               PROVE  Has(new, i)
    BY <1>2
  <2> QED BY DEF Has
<1>4. There(new, r, c)
  BY DEF There
<1>5. ASSUME NEW s, NEW d, late \/ s = r, There(old, s, d), NEW i \in Cells(s, d)
      PROVE  i \in DOMAIN new /\ (new[i] = File(s)[i] \/ (late /\ Has(new, i)))
  <2>1. i \in DOMAIN old /\ (old[i] = File(s)[i] \/ (late /\ Has(old, i)))
    BY <1>5 DEF There
  <2>2. CASE i \in Cells(r, c)
    BY <1>2, <1>5, <2>1, <2>2
  <2>3. CASE i \notin Cells(r, c)
    BY <1>3, <2>1, <2>3
  <2> QED BY <2>2, <2>3
<1>6. \A s, d : (late \/ s = r) /\ There(old, s, d) => There(new, s, d)
  BY <1>5 DEF There
<1> QED BY <1>2, <1>3, <1>4, <1>6

\* A deployment makes the program executable, with the buffer's content behind the
\* metadata of its programdata, and the buffer is gone.
FinalizedTo(as, new, t) ==
  /\ new \in Accounts
  /\ new[payer].owner = "system" /\ ~new[payer].executable
  /\ new[buffer] = NoAccount
  /\ Funded(new[program]) /\ new[program].executable
  /\ new[program].state = ProgramState(programdata)
  /\ Funded(new[programdata]) /\ ~new[programdata].executable
  /\ new[programdata].state = ProgramDataState(t, payer)
  /\ \A i \in DOMAIN BufferContent(as[buffer]) :
       /\ i \in DOMAIN ProgramDataContent(new[programdata])
       /\ ProgramDataContent(new[programdata])[i] = BufferContent(as[buffer])[i]

\* Such are the accounts a finalize leaves.
LEMMA Finalized ==
  ASSUME NEW as \in Accounts, NEW by, NEW maxLen \in Nat, NEW t \in Nat,
         CanDeploy(as, by, payer, programdata, program, buffer, payer, maxLen),
         as[payer].owner = "system", ~as[payer].executable, as[program].lamports > 0
  PROVE  FinalizedTo(as, Purge(AfterDeploy(as, payer, programdata, program, buffer, payer,
                                           maxLen, t)), t)
<1> DEFINE made == AfterDeploy(as, payer, programdata, program, buffer, payer, maxLen, t)
           pd == DeployedProgramData(as, buffer, payer, maxLen, t)
           code == BufferContent(as[buffer])
<1>1. /\ payer \in Address /\ program \in Program /\ buffer \in Address
      /\ programdata \in Address /\ payer \in Key
  BY Parties
<1>2. made \in Accounts /\ Deployed(as, made, payer, programdata, program, buffer, payer, maxLen, t)
  BY <1>1, DeployEffect
<1> HIDE DEF made
<1>3. /\ Purge(made) \in Accounts
      /\ Purge(made)[payer].owner = "system" /\ ~Purge(made)[payer].executable
  <2>1. as[payer] \in Account
    BY Parties DEF Accounts
  <2>2. made[payer] = [as[payer] EXCEPT !.lamports = PayerLeft(as, payer, buffer, maxLen)]
    BY <1>2 DEF Deployed
  <2>3. made[payer].owner = "system" /\ ~made[payer].executable
    BY <2>1, <2>2 DEF Account
  <2> QED BY <1>2, <2>3, PayerStays, PurgeType
<1>4. Purge(made)[buffer] = NoAccount
  <2>1. as[buffer] \in Account
    BY Parties DEF Accounts
  <2>2. made[buffer] = [as[buffer] EXCEPT !.lamports = 0]
    BY <1>2 DEF Deployed
  <2>3. made[buffer].lamports = 0
    BY <2>1, <2>2 DEF Account
  <2> QED BY <1>2, <2>3, Parties, Purged
<1>5. /\ Funded(made[program]) /\ made[program].executable
      /\ made[program].state = ProgramState(programdata)
  <2>1. as[program] \in Account /\ ProgramState(programdata) \in State
    BY Parties, StateType DEF Accounts
  <2>2. ProgramReady(as[program])
    BY DEF CanDeploy
  <2>3. as[program].owner = "loader" /\ Len(as[program].data) > 0
    <3>1. as[program].owner = "loader" /\ Len(as[program].data) >= ProgramLen
      BY <2>2 DEF ProgramReady, Changeable
    <3>2. Len(as[program].data) \in Nat
      BY <2>1, AccountFields
    <3>3. \A x, y \in Nat : x >= y /\ y # 0 => x > 0
      OBVIOUS
    <3> QED BY <3>1, <3>2, <3>3, Sizes
  <2> DEFINE set == SetState(as[program], ProgramState(programdata))
  <2>4. /\ set \in Account /\ Len(set.data) = Len(as[program].data)
        /\ set.state = ProgramState(programdata) /\ set.lamports = as[program].lamports
        /\ set.owner = as[program].owner
    BY <2>1, SetStateType
  <2> HIDE DEF set
  <2>5. made[program] = [set EXCEPT !.executable = TRUE]
    BY <1>2 DEF Deployed, set
  <2>6. /\ made[program].executable /\ made[program].data = set.data
        /\ made[program].lamports = set.lamports /\ made[program].owner = set.owner
        /\ made[program].state = set.state
    BY <2>4, <2>5 DEF Account
  <2> QED BY <2>3, <2>4, <2>6 DEF Funded
<1>6. /\ made[programdata] = pd /\ pd \in Account /\ pd.lamports > 0
      /\ pd.state = ProgramDataState(t, payer) /\ pd.owner = "loader" /\ ~pd.executable
  <2>1. pd \in Account
    BY <1>1, DeployedProgramDataType
  <2>2. pd.lamports = ProgramDataCost(maxLen)
    BY <1>1, DeployedProgramDataType
  <2>3. pd.state = ProgramDataState(t, payer)
    BY <1>1, DeployedProgramDataType, ZenonT(60)
  <2>4. pd.owner = "loader"
    BY <1>1, DeployedProgramDataType
  <2>5. ~pd.executable
    BY <1>1, DeployedProgramDataType
  <2>6. ProgramDataCost(maxLen) > 0
    <3>1. ProgramDataCost(maxLen) \in Nat \ {0}
      BY Parties, DeployAccounts
    <3> HIDE DEF pd
    <3> QED BY <3>1
  <2> QED BY <1>2, <2>1, <2>6, <2>5, <2>3, <2>4, <2>2 DEF Deployed
<1>7. /\ code \in Seq(Cell) /\ Len(code) \in Nat /\ maxLen >= Len(code)
      /\ DOMAIN code = 1..Len(code)
  <2>1. BufferReady(as[buffer], payer, by) /\ maxLen >= Len(code)
    BY DEF CanDeploy
  <2> QED BY <2>1, Parties, BufferCode, DataDomain
<1>8. HoldsCode(pd.data, code) /\ Len(pd.data) = ProgramDataMeta + maxLen
  BY <1>1, <1>7, DeployedCells
<1> HIDE DEF pd, code
<1>9. /\ Len(pd.data) > 0
      /\ \A i \in DOMAIN code : i \in DOMAIN ProgramDataContent(pd)
                                /\ ProgramDataContent(pd)[i] = code[i]
  <2> DEFINE n == Len(pd.data) - ProgramDataMeta
  <2>1. /\ n \in Nat /\ Len(code) <= n /\ Len(ProgramDataContent(pd)) = n
        /\ \A i \in 1..n : ProgramDataContent(pd)[i] = IF i <= Len(code) THEN code[i] ELSE Zero
    BY <1>6, <1>7, <1>8, CodeContent
  <2>2. ProgramDataContent(pd) \in Seq(Cell)
    BY <1>6, Sizes, ContentType DEF ProgramDataContent
  <2>3. DOMAIN ProgramDataContent(pd) = 1..n
    BY <2>1, <2>2, DataDomain
  <2>4. Len(pd.data) > 0
    BY <1>8, Sizes
  <2> HIDE DEF n
  <2>5. \A i \in 1..Len(code) : i \in 1..n /\ i <= Len(code)
    BY <1>7, <2>1
  <2> QED BY <1>7, <2>1, <2>3, <2>4, <2>5
<1>10. Purge(made)[program] = made[program] /\ Purge(made)[programdata] = pd
  BY <1>2, <1>5, <1>6, Parties, Purged DEF Funded
<1> QED BY <1>3, <1>4, <1>5, <1>6, <1>9, <1>10 DEF FinalizedTo, Funded, made, code

-----------------------------------------------------------------------------
(* What every step of the script leaves                                    *)

\* What holds of the accounts holds of as many, and of more taken ones.
LEMMA HoldingsStay ==
  ASSUME NEW as, NEW bs, NEW t, NEW u, Holdings(as, t), Payer(bs), t \subseteq u,
         \A a \in {program, buffer, programdata} : bs[a] = as[a]
  PROVE  Holdings(bs, u)
<1>1. bs[program] = as[program] /\ bs[buffer] = as[buffer] /\ bs[programdata] = as[programdata]
  OBVIOUS
<1>2. Open(bs, u, buffer)
  BY <1>1 DEF Holdings, Open
<1>3. Open(bs, u, program) \/ Final(bs)
  BY <1>1 DEF Holdings, Open, Final
<1>4. Data(bs, u)
  BY <1>1 DEF Holdings, Data, Final
<1> QED BY <1>2, <1>3, <1>4 DEF Holdings

\* A step of the script moves no account, so what holds of the accounts goes on.
LEMMA ChainStays ==
  ASSUME DeployInv, UNCHANGED chain, Grows, run' \in Nat
  PROVE  /\ Holdings(acct', taken') /\ taken' = taken
         /\ buffer \notin taken => BufferShape'
<1>1. /\ Shape /\ Holdings(acct, taken) /\ (buffer \notin taken => BufferShape)
      /\ acct' = acct /\ taken' = taken
  BY DEF DeployInv, chain
<1> QED BY <1>1, BufferStays

\* So does what the script did, as long as it acts alone.
LEMMA AloneStays ==
  ASSUME DeployInv, taken = {}, UNCHANGED chain, Grows, run' \in Nat
  PROVE  /\ ProgramShape' /\ InstalledInv'
         /\ (Undeployed' <=> Undeployed) /\ (IsBuffer' <=> IsBuffer)
         /\ \A r, c : Written(r, c) => Written(r, c)'
         /\ \A r, c : Passed(r, c) => Passed(r, c)'
<1>1. /\ Shape /\ BufferShape /\ ProgramShape /\ InstalledInv
      /\ acct' = acct /\ deployed' = deployed
  BY DEF DeployInv, chain
<1>2. /\ (IsBuffer' <=> IsBuffer)
      /\ \A r, c : Written(r, c) => Written(r, c)'
      /\ \A r, c : Passed(r, c) => Passed(r, c)'
  BY <1>1, BufferStays
<1>3. ProgramShape' /\ InstalledInv' /\ (Undeployed' <=> Undeployed)
  BY <1>1, ProgramStays
<1> QED BY <1>2, <1>3

\* In the first run there is an initialisation in flight only while the script waits
\* for it, or has failed on it.
LEMMA NoneInFlight ==
  ASSUME DeployInv, run = 1, pc # "failed", pc = "awaitInit" => fate # None
  PROVE  \A id \in DOMAIN requests : requests[id].of.kind # "initBuffer"
BY DEF DeployInv, InitOnce

\* A request puts its transaction behind those in flight, or nothing.
LEMMA Sending ==
  ASSUME Shape, Flight, UNCHANGED <<builds, run, late>>, NEW k \in Kind, NEW i \in Nat,
         k = "write" => i \in 1..totalChunks(run),
         Sent(Tx(k, i)) \/ ThrewForgetful(Tx(k, i))
  PROVE  /\ requests' \in Seq(InFlight) /\ Flight'
         /\ \A id \in DOMAIN requests' :
              \/ id \in DOMAIN requests /\ requests'[id] = requests[id]
              \/ requests'[id].of = Tx(k, i) /\ id = Len(requests')
         /\ Sent(Tx(k, i)) => SentLast(Tx(k, i))'
<1> DEFINE tx == Tx(k, i)
<1>1. tx \in DeployTx /\ tx.run = run /\ tx.kind = k /\ tx.chunk = i /\ run \in 1..run
  BY RunType DEF Tx, DeployTx
<1>2. tx' = tx
  BY DEF Tx
<1> HIDE DEF tx
<1>3. /\ requests' \in Seq(InFlight)
      /\ \A id \in DOMAIN requests' :
           \/ id \in DOMAIN requests /\ requests'[id] = requests[id]
           \/ requests'[id].of = tx /\ id = Len(requests')
      /\ Sent(tx) => requests' # << >> /\ requests'[Len(requests')] = [of |-> tx, fate |-> "broadcast"]
  <2>1. CASE requests' = requests
    <3>1. ~Sent(tx)
      <4> SUFFICES ASSUME Sent(tx)
                   PROVE  FALSE
        OBVIOUS
      <4>1. Len(requests') = Len(requests) + 1 /\ Len(requests) \in Nat
        BY <1>1, Appended DEF Sent
      <4> QED BY <2>1, <4>1
    <3> QED BY <2>1, <3>1 DEF Shape
  <2>2. ASSUME NEW as \in {"held", "broadcast"}, Submitted(tx, as)
        PROVE  /\ requests' \in Seq(InFlight) /\ requests' # << >>
               /\ \A id \in DOMAIN requests' :
                    \/ id \in DOMAIN requests /\ requests'[id] = requests[id]
                    \/ requests'[id].of = tx /\ id = Len(requests')
               /\ requests'[Len(requests')] = [of |-> tx, fate |-> as]
    <3>1. /\ requests' \in Seq(InFlight) /\ requests' # << >>
          /\ Len(requests') = Len(requests) + 1
          /\ DOMAIN requests' = DOMAIN requests \cup {Len(requests) + 1}
          /\ \A id \in DOMAIN requests : requests'[id] = requests[id]
          /\ requests'[Len(requests) + 1] = [of |-> tx, fate |-> as]
      BY <1>1, <2>2, Appended
    <3>2. requests'[Len(requests')] = [of |-> tx, fate |-> as]
      BY <3>1
    <3>3. requests'[Len(requests')].of = tx
      BY <3>2
    <3> QED BY <3>1, <3>2, <3>3
  <2>3. Sent(tx) => Submitted(tx, "broadcast")
    BY DEF Sent
  <2>4. requests' = requests \/ \E as \in {"held", "broadcast"} : Submitted(tx, as)
    BY <2>3 DEF ThrewForgetful, tx
  <2> QED BY <2>1, <2>2, <2>3, <2>4
<1>4. Flight'
  <2>1. \A r : totalChunks(r)' = totalChunks(r)
    BY FilesStay
  <2> SUFFICES ASSUME NEW id \in DOMAIN requests'
               PROVE  /\ requests'[id].of.run \in 1..run
                      /\ requests'[id].of.kind = "write" =>
                           requests'[id].of.chunk \in 1..totalChunks(requests'[id].of.run)
                      /\ ~late => requests'[id].of.run = run
    BY DEF Flight, totalChunks, File
  <2>2. CASE id \in DOMAIN requests /\ requests'[id] = requests[id]
    BY <2>2 DEF Flight
  <2>3. CASE requests'[id].of = tx
    BY <1>1, <2>3
  <2> QED BY <1>3, <2>2, <2>3
<1>5. Sent(tx) => SentLast(tx)'
  BY <1>2, <1>3 DEF SentLast, Last
<1> QED BY <1>3, <1>4, <1>5 DEF tx

\* What the script went on from is behind it, in a step of the script: it goes on from
\* a chunk it retried, or was refused, or that is in the buffer, and finalizes behind
\* the last.
LEMMA ProgressKept ==
  ASSUME DeployInv, taken = {}, Grows, run' \in Nat,
         Undeployed' => Undeployed,
         \A r, c : Written(r, c) => Written(r, c)',
         \A r, c : Passed(r, c) => Passed(r, c)',
         pc' = "awaitWrite" /\ fate' = "ok" =>
           pc = "awaitWrite" /\ fate = "ok" /\ run' = run /\ chunk' = chunk,
         Undeployed => \A c \in 1..chunk' - 1 :
           run' = run /\ (c \in 1..chunk - 1 \/ <<run, c>> \in retried' \cup refused'
                          \/ Written(run, c)),
         \A id \in DOMAIN requests' : requests'[id].of.kind = "finalize" =>
           \/ \E j \in DOMAIN requests : requests'[id].of = requests[j].of
           \/ requests'[id].of.run = run /\ chunk = totalChunks(run) + 1
  PROVE  Progress'
<1> SUFFICES ASSUME Undeployed'
             PROVE  /\ \A c \in 1..chunk' - 1 : Passed(run, c)'
                    /\ pc' = "awaitWrite" /\ fate' = "ok" => Written(run, chunk)'
                    /\ \A id \in DOMAIN requests' : requests'[id].of.kind = "finalize" =>
                         (\A c \in 1..totalChunks(requests[id].of.run) :
                            Passed(requests[id].of.run, c))'
  BY DEF Progress
<1>1. Undeployed
  OBVIOUS
<1>2. /\ \A c \in 1..chunk - 1 : Passed(run, c)
      /\ \A id \in DOMAIN requests : requests[id].of.kind = "finalize" =>
           \A c \in 1..totalChunks(requests[id].of.run) : Passed(requests[id].of.run, c)
  BY <1>1 DEF DeployInv, Progress
<1>3. \A r, c : Passed(r, c) => Passed(r, c)'
  OBVIOUS
<1>4. Shape /\ run \in Nat \ {0}
  BY RunType DEF DeployInv
<1>5. ASSUME NEW c \in 1..chunk' - 1
      PROVE  Passed(run, c)'
  <2>1. PICK r : r = run
    OBVIOUS
  <2>2. r = run'
    BY <1>1, <1>5, <2>1
  <2>3. Passed(r, c) \/ <<r, c>> \in retried' \cup refused'
    BY <1>1, <1>2, <1>5, <2>1 DEF Passed
  <2>4. Passed(r, c)'
    BY <1>3, <2>3 DEF Passed
  <2> QED BY <2>2, <2>4
<1>6. ASSUME NEW id \in DOMAIN requests', requests'[id].of.kind = "finalize",
             NEW c \in 1..totalChunks(requests[id].of.run)'
      PROVE  Passed(requests[id].of.run, c)'
  <2>1. PICK r : r = requests'[id].of.run
    OBVIOUS
  <2>2. totalChunks(r)' = totalChunks(r) /\ c \in 1..totalChunks(r)'
    BY <1>6, <2>1, FilesStay DEF Grows
  <2>3. CASE \E j \in DOMAIN requests : requests'[id].of = requests[j].of
    <3>1. PICK j \in DOMAIN requests : requests'[id].of = requests[j].of
      BY <2>3
    <3>2. Passed(r, c)
      BY <1>2, <1>6, <2>1, <2>2, <3>1
    <3> QED BY <1>3, <2>1, <3>2
  <2>4. CASE r = run /\ chunk = totalChunks(run) + 1
    <3>1. totalChunks(r) \in Nat
      BY <1>4, <2>4, Chunks DEF Shape
    <3>2. c \in 1..chunk - 1
      BY <1>6, <2>2, <2>4, <3>1
    <3> QED BY <1>2, <1>3, <2>1, <2>4, <3>2
  <2> QED BY <1>6, <2>1, <2>3, <2>4
<1>7. ASSUME pc' = "awaitWrite" /\ fate' = "ok"
      PROVE  Written(run, chunk)'
  <2>1. PICK r, c : r = run /\ c = chunk
    OBVIOUS
  <2>2. r = run' /\ c = chunk'
    BY <1>7, <2>1
  <2>3. Written(r, c)
    BY <1>1, <1>7, <2>1 DEF DeployInv, Progress
  <2>4. Written(r, c)'
    BY <2>3
  <2> QED BY <2>2, <2>4
<1> QED BY <1>5, <1>6, <1>7

\* A step of the script makes no buffer of what refused a chunk that fits.
LEMMA RefusalKept ==
  ASSUME DeployInv, taken = {}, Grows, run' \in Nat,
         IsBuffer' => IsBuffer,
         refused' = refused
           \/ (pc = "awaitWrite" /\ fate = "failed" /\ refused' = refused \cup {<<run, chunk>>}),
         pc' = "awaitWrite" /\ fate' = "failed" =>
           pc = "awaitWrite" /\ fate = "failed" /\ chunk' = chunk
  PROVE  Refusal'
<1> SUFFICES ASSUME run' = 1
             PROVE  /\ \A c \in 1..totalChunks(1)' :
                         <<1, c>> \in refused' /\ Fits(1, c)' => ~IsBuffer'
                    /\ pc' = "awaitWrite" /\ fate' = "failed" /\ Fits(1, chunk)' => ~IsBuffer'
  BY DEF Refusal
<1>1. run = 1
  BY RunType DEF Grows, DeployInv
<1>2. totalChunks(1)' = totalChunks(1) /\ \A c : Fits(1, c)' = Fits(1, c)
  BY FilesStay DEF Grows
<1>3. ASSUME NEW c \in 1..totalChunks(1)', <<1, c>> \in refused', Fits(1, c)'
      PROVE  ~IsBuffer'
  <2>1. ~IsBuffer
    BY <1>1, <1>2, <1>3 DEF DeployInv, Refusal
  <2> QED BY <2>1
<1>4. ASSUME pc' = "awaitWrite", fate' = "failed", Fits(1, chunk)'
      PROVE  ~IsBuffer'
  <2>1. PICK c : c = chunk
    OBVIOUS
  <2>2. c = chunk'
    BY <1>4, <2>1
  <2>3. Fits(1, c)
    BY <1>2, <1>4, <2>2
  <2>4. ~IsBuffer
    BY <1>1, <1>4, <2>1, <2>3 DEF DeployInv, Refusal
  <2> QED BY <2>4
<1> QED BY <1>3, <1>4

\* Nor does it send a second initialisation, unless it sends the first.
LEMMA InitOnceKept ==
  ASSUME DeployInv, run' = run, pc # "failed", pc = "awaitInit" => fate # None,
         pc' \in Early => pc \in Early /\ refused' = refused,
         \A id \in DOMAIN requests' : requests'[id].of.kind # "initBuffer"
           \/ \E j \in DOMAIN requests : requests'[id].of = requests[j].of
  PROVE  InitOnce'
<1> SUFFICES ASSUME run = 1
             PROVE  /\ pc' \in Early => refused' = {}
                    /\ \A id \in DOMAIN requests' : requests'[id].of.kind # "initBuffer"
  BY DEF InitOnce
<1>1. pc' \in Early => refused' = {}
  BY DEF DeployInv, InitOnce
<1>2. \A id \in DOMAIN requests' : requests'[id].of.kind # "initBuffer"
  BY NoneInFlight
<1> QED BY <1>1, <1>2

-----------------------------------------------------------------------------
(* The steps of the script                                                 *)

\* The numbers a step of the script compares.
LEMMA Numbers ==
  ASSUME DeployInv
  PROVE  /\ totalChunks(run) \in Nat /\ chunk \in Nat \ {0} /\ retries \in Nat
         /\ maxRetries \in Nat \ {0} /\ run \in Nat \ {0}
<1>1. Shape
  BY DEF DeployInv
<1> QED BY <1>1, Chunks, RunType, DeployAssumption DEF Shape

\* A step that sends nothing keeps what is said of the transactions in flight.
LEMMA FlightStays ==
  ASSUME Flight, UNCHANGED <<builds, run, late, requests>>
  PROVE  Flight'
<1>1. \A r : totalChunks(r)' = totalChunks(r)
  BY FilesStay
<1> QED BY <1>1 DEF Flight

\* The histories only name chunks of runs so far.
LEMMA HistoriesStay ==
  ASSUME DeployInv, UNCHANGED builds, run' \in Nat, run <= run',
         \A x \in (retried' \cup refused') \ (retried \cup refused) :
           x = <<run, chunk>> /\ chunk <= totalChunks(run)
  PROVE  Histories'
<1>1. \A r : totalChunks(r)' = totalChunks(r)
  BY FilesStay
<1>2. chunk \in Nat \ {0} /\ totalChunks(run) \in Nat /\ run \in Nat \ {0}
  BY Numbers
<1>3. ASSUME NEW x \in retried' \cup refused'
      PROVE  \E r \in 1..run' : x \in {r} \X (1..totalChunks(r))
  <2>1. CASE x \in retried \cup refused
    <3>1. PICK r \in 1..run : x \in {r} \X (1..totalChunks(r))
      BY <2>1 DEF DeployInv, Histories
    <3>2. r \in 1..run'
      BY <1>2
    <3> QED BY <3>1, <3>2
  <2>2. CASE x \notin retried \cup refused
    <3>1. x = <<run, chunk>> /\ chunk <= totalChunks(run)
      BY <1>3, <2>2
    <3>2. run \in 1..run' /\ chunk \in 1..totalChunks(run)
      BY <1>2, <3>1
    <3> QED BY <3>1, <3>2
  <2> QED BY <2>1, <2>2
<1> QED BY <1>1, <1>3 DEF Histories

\* What is left to show of a step of the script.
LEMMA ScriptStep ==
  ASSUME DeployInv, UNCHANGED <<builds, run, chain, late>>,
         retried \subseteq retried',
         refused' = refused
           \/ (pc = "awaitWrite" /\ fate = "failed" /\ refused' = refused \cup {<<run, chunk>>}),
         pc' = "awaitWrite" => fate' = None,
         taken = {} /\ Undeployed => \A c \in 1..chunk' - 1 :
           c \in 1..chunk - 1 \/ <<run, c>> \in retried' \cup refused' \/ Written(run, c),
         \A id \in DOMAIN requests' : requests'[id].of.kind = "finalize" =>
           \/ \E j \in DOMAIN requests : requests'[id].of = requests[j].of
           \/ requests'[id].of.run = run /\ chunk = totalChunks(run) + 1,
         Shape', Loop', Histories', Flight', Waiting', InitOnce'
  PROVE  DeployInv'
<1>1. run' \in Nat /\ run <= run' /\ run' \in DOMAIN builds
  BY Numbers DEF DeployInv, Shape
<1>2. refused \subseteq refused'
  OBVIOUS
<1>3. Grows
  BY <1>1, <1>2 DEF Grows
<1>4. Holdings(acct', taken') /\ taken' = taken /\ (buffer \notin taken => BufferShape')
  BY <1>1, <1>3, ChainStays
<1>5. pc' = "awaitWrite" => fate' # "ok" /\ fate' # "failed"
  BY DeployAssumption
<1>6. ASSUME taken = {}
      PROVE  ProgramShape' /\ InstalledInv' /\ Progress' /\ Refusal'
  <2>1. /\ ProgramShape' /\ InstalledInv'
        /\ (Undeployed' <=> Undeployed) /\ (IsBuffer' <=> IsBuffer)
        /\ \A r, c : Written(r, c) => Written(r, c)'
        /\ \A r, c : Passed(r, c) => Passed(r, c)'
    BY <1>1, <1>3, <1>6, AloneStays
  <2>2. Progress'
    BY <1>1, <1>3, <1>5, <1>6, <2>1, ProgressKept
  <2>3. Refusal'
    BY <1>1, <1>3, <1>5, <1>6, <2>1, RefusalKept
  <2> QED BY <2>1, <2>2, <2>3
<1> QED BY <1>4, <1>6 DEF DeployInv

\* Connecting and reading the file.
LEMMA SetupStep ==
  ASSUME DeployInv, Setup
  PROVE  DeployInv'
<1>1. /\ UNCHANGED <<builds, run, chain, requests, chunk, retries, fate, retried, refused, late>>
      /\ pc = "setup" /\ pc' \in {"createProgram", "failed"} /\ acct' = acct
      /\ deployed' = deployed /\ taken' = taken
  BY DEF Setup, history, chain
<1>2. totalChunks(run)' = totalChunks(run)
  BY <1>1, FilesStay
<1>3. Shape' /\ Loop' /\ Waiting'
  BY <1>1, <1>2 DEF DeployInv, Shape, Label, Loop, Waiting, Early
<1>4. Histories'
  BY <1>1, HistoriesStay, Numbers
<1>5. Flight'
  BY <1>1, FlightStays DEF DeployInv
<1>6. InitOnce'
  BY <1>1, InitOnceKept DEF Early
<1>7. pc' # "awaitWrite"
  BY <1>1
<1> QED BY <1>1, <1>3, <1>4, <1>5, <1>6, <1>7, ScriptStep

\* The initialisation landed.
LEMMA AwaitInitStep ==
  ASSUME DeployInv, AwaitInit
  PROVE  DeployInv'
<1>1. /\ UNCHANGED <<builds, run, chain, requests, chunk, retries, retried, refused, late>>
      /\ pc = "awaitInit" /\ fate # None /\ pc' = NextChunk(0) /\ fate' = None
      /\ acct' = acct /\ deployed' = deployed /\ taken' = taken
  BY DEF AwaitInit, history, chain, Landed, Goto
<1>2. totalChunks(run)' = totalChunks(run)
  BY <1>1, FilesStay
<1>3. /\ chunk = 1 /\ totalChunks(run) \in Nat
      /\ pc' = IF 0 < totalChunks(run) THEN "write" ELSE "finalize"
  BY <1>1, Numbers DEF DeployInv, Loop, Early, NextChunk
<1>4. Shape'
  BY <1>1, <1>3 DEF DeployInv, Shape, Label
<1>5. Loop'
  BY <1>1, <1>2, <1>3, Numbers DEF DeployInv, Loop, Early
<1>6. Waiting'
  BY <1>3 DEF Waiting
<1>7. Histories'
  BY <1>1, HistoriesStay, Numbers
<1>8. Flight'
  BY <1>1, FlightStays DEF DeployInv
<1>9. pc' # "awaitWrite" /\ pc' \notin Early
  BY <1>3 DEF Early
<1>10. InitOnce'
  BY <1>1, <1>9, InitOnceKept
<1> QED BY <1>1, <1>4, <1>5, <1>6, <1>7, <1>8, <1>9, <1>10, ScriptStep

\* An RPC call fails.
LEMMA FailStep ==
  ASSUME DeployInv, Fail
  PROVE  DeployInv'
<1>1. /\ UNCHANGED <<builds, run, chain, requests, chunk, retries, fate, retried, refused, late>>
      /\ pc \notin {"setup", "done", "failed", "awaitWrite", "retry"} /\ pc' = "failed"
      /\ acct' = acct /\ deployed' = deployed /\ taken' = taken
  BY DEF Fail, history, chain, Goto
<1>2. totalChunks(run)' = totalChunks(run)
  BY <1>1, FilesStay
<1>3. Shape' /\ Loop' /\ Waiting'
  BY <1>1, <1>2 DEF DeployInv, Shape, Label, Loop, Waiting, Early
<1>4. Histories'
  BY <1>1, HistoriesStay, Numbers
<1>5. Flight'
  BY <1>1, FlightStays DEF DeployInv
<1>6. InitOnce'
  BY <1>1 DEF DeployInv, InitOnce, Early
<1>7. pc' # "awaitWrite"
  BY <1>1
<1> QED BY <1>1, <1>3, <1>4, <1>5, <1>6, <1>7, ScriptStep

\* The write landed, taking effect or not, or the poll threw.
LEMMA AwaitWriteStep ==
  ASSUME DeployInv, AwaitWrite \/ PollFails
  PROVE  DeployInv'
<1>1. /\ UNCHANGED <<builds, run, chain, requests, retries, retried, late>>
      /\ pc = "awaitWrite" /\ fate' = None /\ acct' = acct /\ deployed' = deployed
      /\ taken' = taken
      /\ refused' = IF fate = "failed" THEN refused \cup {<<run, chunk>>} ELSE refused
  BY DEF AwaitWrite, PollFails, Leave, chain
<1>2. \/ fate # None /\ pc' = NextChunk(chunk) /\ chunk' = chunk + 1
      \/ pc' = "retry" /\ chunk' = chunk
  BY DEF AwaitWrite, PollFails, Landed, Continue, Goto
<1>3. totalChunks(run)' = totalChunks(run)
  BY <1>1, FilesStay
<1>4. /\ totalChunks(run) \in Nat /\ chunk \in Nat \ {0} /\ retries \in Nat
      /\ maxRetries \in Nat \ {0} /\ chunk <= totalChunks(run) /\ retries = 0
  BY <1>1, Numbers DEF DeployInv, Loop
<1>5. pc' \in {"write", "finalize", "retry"}
      /\ (pc' # "retry" => pc' = IF chunk < totalChunks(run) THEN "write" ELSE "finalize")
  BY <1>2 DEF NextChunk
<1>6. Shape'
  BY <1>1, <1>2, <1>4, <1>5 DEF DeployInv, Shape, Label
<1>7. Loop'
  <2>1. pc' = "retry" => chunk' = chunk
    BY <1>2, <1>5 DEF NextChunk
  <2>2. pc' # "retry" => chunk' = chunk + 1
    BY <1>2
  <2>3. chunk' \in {chunk, chunk + 1}
    BY <1>2
  <2> DEFINE n == totalChunks(run)
  <2>4. /\ pc' = "retry" => chunk' <= n
        /\ pc' = "write" => chunk' <= n
        /\ pc' = "finalize" => chunk' = n + 1
        /\ chunk' <= n + 1
    <3> HIDE DEF n
    <3>1. n \in Nat /\ chunk <= n /\ chunk \in Nat
      BY <1>4 DEF n
    <3>2. pc' # "retry" => pc' = IF chunk < n THEN "write" ELSE "finalize"
      BY <1>5 DEF n
    <3>3. chunk < n \/ chunk = n
      BY <3>1
    <3>4. CASE pc' = "retry"
      BY <2>1, <3>1, <3>4
    <3>5. CASE pc' # "retry"
      BY <2>2, <3>1, <3>2, <3>3, <3>5
    <3> QED BY <3>4, <3>5
  <2>5. retries' = 0 /\ 0 < maxRetries /\ 0 <= maxRetries
    BY <1>1, <1>4
  <2>6. fate' = None /\ pc' \notin Early /\ pc' \notin {"awaitWrite", "done", "failed"}
    BY <1>1, <1>5 DEF Early
  <2> QED BY <1>3, <1>5, <2>4, <2>5, <2>6 DEF Loop
<1>8. Waiting'
  BY <1>5 DEF Waiting
<1>9. Histories'
  BY <1>1, <1>4, HistoriesStay, Numbers
<1>10. Flight'
  BY <1>1, FlightStays DEF DeployInv
<1>11. pc' # "awaitWrite" /\ pc' \notin Early
  BY <1>5 DEF Early
<1>12. InitOnce'
  BY <1>1, <1>11, InitOnceKept
<1>13. ASSUME taken = {}, Undeployed, NEW c \in 1..chunk' - 1
       PROVE  c \in 1..chunk - 1 \/ <<run, c>> \in retried' \cup refused' \/ Written(run, c)
  <2>1. CASE pc' = "retry" /\ chunk' = chunk
    BY <1>13, <2>1
  <2>2. CASE fate # None /\ chunk' = chunk + 1
    <3>1. c \in 1..chunk - 1 \/ c = chunk
      BY <1>4, <1>13, <2>2
    <3>2. fate = "failed" => <<run, chunk>> \in refused'
      BY <1>1
    <3>3. fate = "ok" \/ fate = "failed"
      BY <2>2 DEF DeployInv, Shape
    <3> QED BY <1>1, <1>13, <3>1, <3>2, <3>3 DEF DeployInv, Progress
  <2> QED BY <1>2, <2>1, <2>2
<1> QED BY <1>1, <1>6, <1>7, <1>8, <1>9, <1>10, <1>11, <1>12, <1>13, ScriptStep

\* A request of the script: its transaction is the last in flight if it has a hash.
LEMMA Submitting ==
  ASSUME DeployInv, NEW from, NEW k \in Kind, NEW i \in Nat, NEW onHash, NEW onError,
         Submit(from, k, i, onHash, onError), UNCHANGED history,
         k = "write" => i \in 1..totalChunks(run), onHash # onError
  PROVE  /\ UNCHANGED <<builds, run, chain, fate, acct, deployed, taken, retried, refused, late>>
         /\ pc = from /\ pc' \in {onHash, onError}
         /\ requests' \in Seq(InFlight) /\ Flight'
         /\ \A id \in DOMAIN requests' :
              \/ id \in DOMAIN requests /\ requests'[id] = requests[id]
              \/ requests'[id].of = Tx(k, i) /\ id = Len(requests')
         /\ pc' = onHash => SentLast(Tx(k, i))'
<1>1. /\ UNCHANGED <<builds, run, chain, fate, acct, deployed, taken, retried, refused, late>>
      /\ pc = from
      /\ \/ Sent(Tx(k, i)) /\ pc' = onHash
         \/ ThrewForgetful(Tx(k, i)) /\ pc' = onError
  BY DEF Submit, Goto, chain, history
<1>2. Shape /\ Flight
  BY DEF DeployInv
<1>3. Sent(Tx(k, i)) \/ ThrewForgetful(Tx(k, i))
  BY <1>1
<1>4. /\ requests' \in Seq(InFlight) /\ Flight'
      /\ \A id \in DOMAIN requests' :
           \/ id \in DOMAIN requests /\ requests'[id] = requests[id]
           \/ requests'[id].of = Tx(k, i) /\ id = Len(requests')
      /\ Sent(Tx(k, i)) => SentLast(Tx(k, i))'
  BY <1>1, <1>2, <1>3, Sending
<1> QED BY <1>1, <1>4

\* The program's account is asked for.
LEMMA CreateProgramStep ==
  ASSUME DeployInv, CreateProgram
  PROVE  DeployInv'
<1>1. /\ Submit("createProgram", "createProgram", 0, "createBuffer", "failed")
      /\ UNCHANGED history /\ UNCHANGED <<chunk, retries>>
  BY DEF CreateProgram
<1>2. /\ UNCHANGED <<builds, run, chain, fate, acct, deployed, taken, retried, refused, late>>
      /\ pc = "createProgram" /\ pc' \in {"createBuffer", "failed"}
      /\ requests' \in Seq(InFlight) /\ Flight'
      /\ \A id \in DOMAIN requests' :
           \/ id \in DOMAIN requests /\ requests'[id] = requests[id]
           \/ requests'[id].of = Tx("createProgram", 0) /\ id = Len(requests')
  BY <1>1, Submitting DEF Kind
<1>3. totalChunks(run)' = totalChunks(run)
  BY <1>2, FilesStay
<1>4. Shape' /\ Loop' /\ Waiting'
  BY <1>1, <1>2, <1>3 DEF DeployInv, Shape, Label, Loop, Waiting, Early
<1>5. Histories'
  BY <1>2, HistoriesStay, Numbers
<1>6. \A id \in DOMAIN requests' :
        requests'[id].of.kind = "createProgram"
          \/ \E j \in DOMAIN requests : requests'[id].of = requests[j].of
  BY <1>2 DEF Tx
<1>7. InitOnce'
  <2>1. \A id \in DOMAIN requests' : requests'[id].of.kind # "initBuffer"
          \/ \E j \in DOMAIN requests : requests'[id].of = requests[j].of
    BY <1>6
  <2> QED BY <1>2, <2>1, InitOnceKept DEF Early
<1>8. /\ pc' # "awaitWrite"
      /\ \A id \in DOMAIN requests' : requests'[id].of.kind = "finalize" =>
           \E j \in DOMAIN requests : requests'[id].of = requests[j].of
  BY <1>2, <1>6
<1> QED BY <1>1, <1>2, <1>4, <1>5, <1>7, <1>8, ScriptStep

\* The buffer's account is asked for.
LEMMA CreateBufferStep ==
  ASSUME DeployInv, CreateBuffer
  PROVE  DeployInv'
<1>1. /\ Submit("createBuffer", "createBuffer", 0, "initBuffer", "failed")
      /\ UNCHANGED history /\ UNCHANGED <<chunk, retries>>
  BY DEF CreateBuffer
<1>2. /\ UNCHANGED <<builds, run, chain, fate, acct, deployed, taken, retried, refused, late>>
      /\ pc = "createBuffer" /\ pc' \in {"initBuffer", "failed"}
      /\ requests' \in Seq(InFlight) /\ Flight'
      /\ \A id \in DOMAIN requests' :
           \/ id \in DOMAIN requests /\ requests'[id] = requests[id]
           \/ requests'[id].of = Tx("createBuffer", 0) /\ id = Len(requests')
  BY <1>1, Submitting DEF Kind
<1>3. totalChunks(run)' = totalChunks(run)
  BY <1>2, FilesStay
<1>4. Shape' /\ Loop' /\ Waiting'
  BY <1>1, <1>2, <1>3 DEF DeployInv, Shape, Label, Loop, Waiting, Early
<1>5. Histories'
  BY <1>2, HistoriesStay, Numbers
<1>6. \A id \in DOMAIN requests' :
        requests'[id].of.kind = "createBuffer"
          \/ \E j \in DOMAIN requests : requests'[id].of = requests[j].of
  BY <1>2 DEF Tx
<1>7. InitOnce'
  <2>1. \A id \in DOMAIN requests' : requests'[id].of.kind # "initBuffer"
          \/ \E j \in DOMAIN requests : requests'[id].of = requests[j].of
    BY <1>6
  <2> QED BY <1>2, <2>1, InitOnceKept DEF Early
<1>8. /\ pc' # "awaitWrite"
      /\ \A id \in DOMAIN requests' : requests'[id].of.kind = "finalize" =>
           \E j \in DOMAIN requests : requests'[id].of = requests[j].of
  BY <1>2, <1>6
<1> QED BY <1>1, <1>2, <1>4, <1>5, <1>7, <1>8, ScriptStep

\* The buffer's initialisation is asked for: no other is in flight in the first run.
LEMMA InitializeBufferStep ==
  ASSUME DeployInv, InitializeBuffer
  PROVE  DeployInv'
<1>1. /\ Submit("initBuffer", "initBuffer", 0, "awaitInit", "failed")
      /\ UNCHANGED history /\ UNCHANGED <<chunk, retries>>
  BY DEF InitializeBuffer
<1>2. /\ UNCHANGED <<builds, run, chain, fate, acct, deployed, taken, retried, refused, late>>
      /\ pc = "initBuffer" /\ pc' \in {"awaitInit", "failed"}
      /\ requests' \in Seq(InFlight) /\ Flight'
      /\ \A id \in DOMAIN requests' :
           \/ id \in DOMAIN requests /\ requests'[id] = requests[id]
           \/ requests'[id].of = Tx("initBuffer", 0) /\ id = Len(requests')
      /\ pc' = "awaitInit" => SentLast(Tx("initBuffer", 0))'
  BY <1>1, Submitting DEF Kind
<1>3. totalChunks(run)' = totalChunks(run)
  BY <1>2, FilesStay
<1>4. Shape' /\ Loop'
  BY <1>1, <1>2, <1>3 DEF DeployInv, Shape, Label, Loop, Early
<1>5. Waiting'
  BY <1>2 DEF Waiting
<1>6. Histories'
  BY <1>2, HistoriesStay, Numbers
<1>7. \A id \in DOMAIN requests' :
        \/ requests'[id].of.kind = "initBuffer" /\ id = Len(requests')
        \/ \E j \in DOMAIN requests : requests'[id].of = requests[j].of
  BY <1>2 DEF Tx
<1>8. InitOnce'
  <2> SUFFICES ASSUME run = 1
               PROVE  /\ refused' = {} /\ pc' \in {"awaitInit", "failed"} /\ fate' = None
                      /\ \A id \in DOMAIN requests' :
                           requests'[id].of.kind = "initBuffer" => id = Len(requests')
    BY <1>2 DEF InitOnce
  <2>1. fate = None /\ refused = {}
    BY <1>2 DEF DeployInv, Loop, InitOnce, Early
  <2>2. \A j \in DOMAIN requests : requests[j].of.kind # "initBuffer"
    BY <1>2, NoneInFlight
  <2> QED BY <1>2, <1>7, <2>1, <2>2
<1>9. /\ pc' # "awaitWrite"
      /\ \A id \in DOMAIN requests' : requests'[id].of.kind = "finalize" =>
           \E j \in DOMAIN requests : requests'[id].of = requests[j].of
  BY <1>2, <1>7
<1> QED BY <1>1, <1>2, <1>4, <1>5, <1>6, <1>8, <1>9, ScriptStep

\* The deployment is asked for, behind the last chunk.
LEMMA FinalizeStep ==
  ASSUME DeployInv, Finalize
  PROVE  DeployInv'
<1>1. /\ Submit("finalize", "finalize", 0, "done", "failed")
      /\ UNCHANGED history /\ UNCHANGED <<chunk, retries>>
  BY DEF Finalize
<1>2. /\ UNCHANGED <<builds, run, chain, fate, acct, deployed, taken, retried, refused, late>>
      /\ pc = "finalize" /\ pc' \in {"done", "failed"}
      /\ requests' \in Seq(InFlight) /\ Flight'
      /\ \A id \in DOMAIN requests' :
           \/ id \in DOMAIN requests /\ requests'[id] = requests[id]
           \/ requests'[id].of = Tx("finalize", 0) /\ id = Len(requests')
  BY <1>1, Submitting DEF Kind
<1>3. totalChunks(run)' = totalChunks(run)
  BY <1>2, FilesStay
<1>4. Shape' /\ Loop' /\ Waiting'
  BY <1>1, <1>2, <1>3 DEF DeployInv, Shape, Label, Loop, Waiting, Early
<1>5. Histories'
  BY <1>2, HistoriesStay, Numbers
<1>6. \A id \in DOMAIN requests' :
        \/ requests'[id].of.kind = "finalize" /\ requests'[id].of.run = run
        \/ \E j \in DOMAIN requests : requests'[id].of = requests[j].of
  BY <1>2 DEF Tx
<1>7. InitOnce'
  <2>1. \A id \in DOMAIN requests' : requests'[id].of.kind # "initBuffer"
          \/ \E j \in DOMAIN requests : requests'[id].of = requests[j].of
    BY <1>6
  <2> QED BY <1>2, <2>1, InitOnceKept DEF Early
<1>8. /\ pc' # "awaitWrite" /\ chunk = totalChunks(run) + 1
      /\ \A id \in DOMAIN requests' : requests'[id].of.kind = "finalize" =>
           \/ \E j \in DOMAIN requests : requests'[id].of = requests[j].of
           \/ requests'[id].of.run = run
  BY <1>2, <1>6 DEF DeployInv, Loop
<1> QED BY <1>1, <1>2, <1>4, <1>5, <1>7, <1>8, ScriptStep

\* A chunk is asked for.
LEMMA WriteStep ==
  ASSUME DeployInv, Write
  PROVE  DeployInv'
<1>1. /\ Submit("write", "write", chunk, "awaitWrite", "retry")
      /\ UNCHANGED history /\ UNCHANGED chunk /\ retries' = 0
  BY DEF Write
<1>2. pc = "write" /\ chunk \in Nat /\ chunk \in 1..totalChunks(run) /\ fate = None
  <2>1. pc = "write"
    BY <1>1 DEF Submit
  <2>2. chunk <= totalChunks(run) /\ fate = None
    BY <2>1 DEF DeployInv, Loop
  <2> QED BY <2>1, <2>2, Numbers
<1>3. PICK n \in Nat : n = chunk
  BY <1>2
<1>4. /\ UNCHANGED <<builds, run, chain, fate, acct, deployed, taken, retried, refused, late>>
      /\ pc' \in {"awaitWrite", "retry"}
      /\ requests' \in Seq(InFlight) /\ Flight'
      /\ \A id \in DOMAIN requests' :
           \/ id \in DOMAIN requests /\ requests'[id] = requests[id]
           \/ requests'[id].of = Tx("write", n) /\ id = Len(requests')
      /\ pc' = "awaitWrite" => SentLast(Tx("write", n))'
  <2>1. Submit("write", "write", n, "awaitWrite", "retry") /\ n \in 1..totalChunks(run)
    BY <1>1, <1>2, <1>3
  <2> QED BY <1>1, <2>1, Submitting DEF Kind
<1>5. totalChunks(run)' = totalChunks(run)
  BY <1>4, FilesStay
<1>6. Shape' /\ Loop'
  <2>1. retries' \in Nat /\ retries' < maxRetries /\ retries' <= maxRetries
    BY <1>1, Numbers
  <2> QED BY <1>1, <1>2, <1>4, <1>5, <2>1 DEF DeployInv, Shape, Label, Loop, Early
<1>7. Waiting'
  <2>1. n = chunk'
    BY <1>1, <1>3
  <2> QED BY <1>4, <2>1 DEF Waiting
<1>8. Histories'
  BY <1>4, HistoriesStay, Numbers
<1>9. \A id \in DOMAIN requests' :
        requests'[id].of.kind = "write"
          \/ \E j \in DOMAIN requests : requests'[id].of = requests[j].of
  BY <1>4 DEF Tx
<1>10. InitOnce'
  <2>1. \A id \in DOMAIN requests' : requests'[id].of.kind # "initBuffer"
          \/ \E j \in DOMAIN requests : requests'[id].of = requests[j].of
    BY <1>9
  <2> QED BY <1>2, <1>4, <2>1, InitOnceKept DEF Early
<1>11. /\ fate' = None
      /\ \A id \in DOMAIN requests' : requests'[id].of.kind = "finalize" =>
           \E j \in DOMAIN requests : requests'[id].of = requests[j].of
  BY <1>2, <1>4, <1>9
<1> QED BY <1>1, <1>4, <1>6, <1>7, <1>8, <1>10, <1>11, ScriptStep

\* The chunk is asked for once more, and not waited for.
LEMMA RetryStep ==
  ASSUME DeployInv, Retry
  PROVE  DeployInv'
<1>1. /\ UNCHANGED <<builds, run, chain, fate, refused, late>> /\ pc = "retry"
      /\ acct' = acct /\ deployed' = deployed /\ taken' = taken
      /\ retried' = retried \cup {<<run, chunk>>}
      /\ Sent(Tx("write", chunk)) \/ ThrewForgetful(Tx("write", chunk))
      /\ \/ /\ pc' = NextChunk(chunk) /\ chunk' = chunk + 1 /\ retries' = retries
         \/ /\ retries' = retries + 1 /\ chunk' = chunk
            /\ pc' = IF retries' < maxRetries THEN "retry" ELSE "failed"
  BY DEF Retry, Continue, Goto, Retries, chain
<1> DEFINE n == totalChunks(run)
<1>2. /\ n \in Nat /\ chunk \in Nat \ {0} /\ retries \in Nat /\ maxRetries \in Nat \ {0}
      /\ chunk <= n /\ retries < maxRetries /\ fate = None
  BY <1>1, Numbers DEF DeployInv, Loop
<1>3. n' = n
  BY <1>1, FilesStay
<1>4. /\ requests' \in Seq(InFlight) /\ Flight'
      /\ \A id \in DOMAIN requests' :
           \/ id \in DOMAIN requests /\ requests'[id] = requests[id]
           \/ requests'[id].of = Tx("write", chunk)
  <2>1. Shape /\ Flight /\ chunk \in 1..totalChunks(run) /\ chunk \in Nat
    BY <1>2 DEF DeployInv
  <2>2. PICK i \in Nat : i = chunk
    BY <2>1
  <2>3. Sent(Tx("write", i)) \/ ThrewForgetful(Tx("write", i))
    BY <1>1, <2>2
  <2>4. /\ requests' \in Seq(InFlight) /\ Flight'
        /\ \A id \in DOMAIN requests' :
             \/ id \in DOMAIN requests /\ requests'[id] = requests[id]
             \/ requests'[id].of = Tx("write", i) /\ id = Len(requests')
    BY <1>1, <2>1, <2>2, <2>3, Sending DEF Kind
  <2> QED BY <2>2, <2>4
<1> HIDE DEF n
<1>5. /\ chunk' \in Nat \ {0} /\ chunk' <= n + 1 /\ retries' \in Nat /\ retries' <= maxRetries
      /\ pc' \in {"write", "finalize", "retry", "failed"}
      /\ pc' \in {"write", "retry"} => chunk' <= n
      /\ pc' = "finalize" => chunk' = n + 1
      /\ pc' = "retry" => retries' < maxRetries
  <2>1. CASE pc' = NextChunk(chunk) /\ chunk' = chunk + 1 /\ retries' = retries
    <3>1. pc' = IF chunk < n THEN "write" ELSE "finalize"
      BY <2>1 DEF NextChunk, n
    <3> QED BY <1>2, <2>1, <3>1
  <2>2. CASE /\ retries' = retries + 1 /\ chunk' = chunk
             /\ pc' = IF retries' < maxRetries THEN "retry" ELSE "failed"
    BY <1>2, <2>2
  <2> QED BY <1>1, <2>1, <2>2
<1>6. Shape'
  BY <1>1, <1>4, <1>5 DEF DeployInv, Shape, Label
<1>7. Loop'
  <2>1. pc' \notin Early /\ pc' # "awaitWrite" /\ fate' = None
    BY <1>1, <1>2, <1>5 DEF Early
  <2> QED BY <1>3, <1>5, <2>1 DEF Loop, n
<1>8. Waiting'
  BY <1>5 DEF Waiting
<1>9. Histories'
  BY <1>1, <1>2, HistoriesStay, Numbers DEF n
<1>10. \A id \in DOMAIN requests' :
         requests'[id].of.kind = "write"
           \/ \E j \in DOMAIN requests : requests'[id].of = requests[j].of
  BY <1>4 DEF Tx
<1>11. InitOnce'
  <2>1. \A id \in DOMAIN requests' : requests'[id].of.kind # "initBuffer"
          \/ \E j \in DOMAIN requests : requests'[id].of = requests[j].of
    BY <1>10
  <2> QED BY <1>1, <1>5, <2>1, InitOnceKept DEF Early
<1>12. /\ pc' # "awaitWrite"
       /\ \A id \in DOMAIN requests' : requests'[id].of.kind = "finalize" =>
            \E j \in DOMAIN requests : requests'[id].of = requests[j].of
  BY <1>5, <1>10
<1>13. \A c \in 1..chunk' - 1 : c \in 1..chunk - 1 \/ <<run, c>> \in retried' \cup refused'
  <2>1. chunk' \in {chunk, chunk + 1}
    BY <1>1
  <2>2. \A x \in Nat : \A c : /\ c \in 1..x - 1 => c \in 1..x - 1 \/ c = x
                             /\ c \in 1..(x + 1) - 1 => c \in 1..x - 1 \/ c = x
    OBVIOUS
  <2>3. \A c \in 1..chunk' - 1 : c \in 1..chunk - 1 \/ c = chunk
    BY <1>2, <2>1, <2>2
  <2> QED BY <1>1, <2>3
<1> QED BY <1>1, <1>6, <1>7, <1>4, <1>8, <1>9, <1>11, <1>12, <1>13, ScriptStep

\* The script is started once more: it meets what the runs before it left.
LEMMA RerunStep ==
  ASSUME DeployInv, Rerun
  PROVE  DeployInv'
<1>1. /\ UNCHANGED <<builds, chain, requests, retried, refused, acct, deployed, taken>>
      /\ run < Len(builds) /\ run' = run + 1 /\ pc' = "setup" /\ chunk' = 1 /\ retries' = 0
      /\ fate' = None /\ late' = (late \/ requests # << >>)
  BY DEF Rerun, Goto, chain
<1>2. Shape /\ Flight /\ run \in Nat \ {0} /\ maxRetries \in Nat \ {0}
  BY Numbers DEF DeployInv
<1>3. DOMAIN builds = 1..Len(builds) /\ Len(builds) \in Nat
  BY <1>2, DeployAssumption, LenProperties DEF Shape
<1>4. PICK r \in DOMAIN builds : r = run'
  BY <1>1, <1>2, <1>3
<1>5. r = run + 1 /\ r \in Nat /\ run' \in Nat /\ run <= run'
  BY <1>1, <1>2, <1>4
<1>6. Grows
  BY <1>1, <1>4, <1>5 DEF Grows
<1>7. totalChunks(r)' \in Nat /\ \A s : totalChunks(s)' = totalChunks(s)
  BY <1>1, <1>2, Chunks, FilesStay
<1>8. Shape'
  <2>1. late \in BOOLEAN
    BY <1>2 DEF Shape
  <2>2. late' \in BOOLEAN
    BY <1>1
  <2> QED BY <1>1, <1>2, <1>4, <2>2 DEF Shape, Label
<1>9. Loop'
  <2>1. 1 <= totalChunks(run)' + 1
    BY <1>4, <1>7
  <2> QED BY <1>1, <1>2, <2>1 DEF Loop
<1>10. Histories'
  BY <1>1, <1>5, HistoriesStay
<1>11. Flight'
  <2>1. \A id \in DOMAIN requests : /\ requests[id].of.run \in 1..run
                                    /\ requests[id].of.kind = "write" =>
                                         requests[id].of.chunk \in 1..totalChunks(requests[id].of.run)
    BY <1>2 DEF Flight
  <2>2. \A s \in 1..run : s \in 1..run'
    BY <1>2, <1>5
  <2>3. ~late' => DOMAIN requests' = {}
    <3>1. late' <=> late \/ requests # << >>
      BY <1>1, <1>2 DEF Shape
    <3> QED BY <1>1, <3>1
  <2> QED BY <1>1, <1>7, <2>1, <2>2, <2>3 DEF Flight
<1>12. Waiting'
  BY <1>1 DEF Waiting
<1>13. InitOnce'
  <2>1. run' # 1
    BY <1>1, <1>2
  <2> QED BY <2>1 DEF InitOnce
<1>14. ASSUME taken = {}
       PROVE  ProgramShape' /\ InstalledInv' /\ Progress' /\ Refusal'
  <2>1. /\ ProgramShape' /\ InstalledInv'
        /\ (Undeployed' <=> Undeployed) /\ (IsBuffer' <=> IsBuffer)
        /\ \A s, c : Written(s, c) => Written(s, c)'
        /\ \A s, c : Passed(s, c) => Passed(s, c)'
    BY <1>1, <1>5, <1>6, <1>14, AloneStays
  <2>2. (\A c \in 1..chunk' - 1 : FALSE) /\ pc' # "awaitWrite"
    BY <1>1
  <2>3. Progress'
    BY <1>1, <1>5, <1>6, <1>14, <2>1, <2>2, ProgressKept
  <2>4. Refusal'
    BY <1>1, <1>5, <1>6, <1>14, <2>1, <2>2, RefusalKept
  <2> QED BY <2>1, <2>3, <2>4
<1>15. Holdings(acct', taken') /\ taken' = taken /\ (buffer \notin taken => BufferShape')
  BY <1>1, <1>5, <1>6, ChainStays
<1> QED BY <1>8, <1>9, <1>10, <1>11, <1>12, <1>13, <1>14, <1>15 DEF DeployInv

\* Fireblocks decides a request that the script gave up on: it sends it or drops it.
LEMMA DecideStep ==
  ASSUME DeployInv, NEW id \in DOMAIN requests, DecideForgetful(id), UNCHANGED <<chain, script>>
  PROVE  DeployInv'
<1>1. UNCHANGED <<builds, run, chain, pc, chunk, retries, fate, retried, refused, late,
                  acct, deployed, taken>>
  BY DEF script, chain, history
<1>2. Shape /\ Flight /\ run \in Nat \ {0} /\ requests[id].fate = "held"
  BY Numbers DEF DeployInv, DecideForgetful
<1>3. \/ requests' = [requests EXCEPT ![id].fate = "broadcast"]
      \/ Forget(id)
  BY DEF DecideForgetful
<1>4. requests # << >> /\ Last(requests).fate = "broadcast" => id # Len(requests)
  BY <1>2, DeployAssumption DEF Last
<1>5. /\ requests' \in Seq(InFlight)
      /\ \A j \in DOMAIN requests' : \E i \in DOMAIN requests :
           /\ requests'[j].of = requests[i].of
           /\ i = Len(requests) => j = Len(requests')
      /\ id # Len(requests) /\ requests # << >> =>
           requests' # << >> /\ requests'[Len(requests')] = requests[Len(requests)]
  <2>1. CASE requests' = [requests EXCEPT ![id].fate = "broadcast"]
    <3>1. /\ requests' \in Seq(InFlight) /\ Len(requests') = Len(requests)
          /\ DOMAIN requests' = DOMAIN requests
          /\ \A i \in DOMAIN requests : requests'[i].of = requests[i].of
          /\ \A i \in DOMAIN requests : i # id => requests'[i] = requests[i]
      BY <1>2, <2>1, Broadcast
    <3>2. Len(requests) \in DOMAIN requests /\ requests' # << >>
      <4>1. Len(requests) \in Nat /\ DOMAIN requests = 1..Len(requests)
        BY <1>2, FlightFields
      <4>2. Len(requests) \in DOMAIN requests
        BY <4>1
      <4> QED BY <3>1, <4>2, EmptySeq
    <3> QED BY <3>1, <3>2
  <2>2. CASE Forget(id)
    <3>1. /\ requests' \in Seq(InFlight)
          /\ \A j \in DOMAIN requests' : \E i \in DOMAIN requests :
               /\ requests'[j] = requests[i]
               /\ i = Len(requests) => j = Len(requests') /\ id # Len(requests)
          /\ id # Len(requests) =>
               requests' # << >> /\ requests'[Len(requests')] = requests[Len(requests)]
      BY <1>2, <2>2, Forgotten
    <3> QED BY <3>1
  <2> QED BY <1>3, <2>1, <2>2
<1>6. totalChunks(run)' = totalChunks(run) /\ \A r : totalChunks(r)' = totalChunks(r)
  BY <1>1, FilesStay
<1>7. Shape' /\ Loop'
  BY <1>1, <1>5, <1>6 DEF DeployInv, Shape, Loop
<1>8. Histories'
  BY <1>1, <1>2, HistoriesStay
<1>9. Flight'
  BY <1>1, <1>2, <1>5, <1>6 DEF Flight
<1>10. Waiting'
  <2>1. ASSUME NEW tx, SentLast(tx)
        PROVE  requests' # << >> /\ Last(requests') = [of |-> tx, fate |-> "broadcast"]
    BY <1>4, <1>5, <2>1 DEF SentLast, Last
  <2>2. Tx("initBuffer", 0)' = Tx("initBuffer", 0) /\ Tx("write", chunk)' = Tx("write", chunk)
    BY <1>1 DEF Tx
  <2>3. /\ pc = "awaitInit" /\ fate = None => SentLast(Tx("initBuffer", 0))
        /\ pc = "awaitWrite" /\ fate = None => SentLast(Tx("write", chunk))
    BY DEF DeployInv, Waiting
  <2> QED BY <1>1, <2>1, <2>2, <2>3 DEF Waiting, SentLast
<1>11. InitOnce'
  BY <1>1, <1>5 DEF DeployInv, InitOnce
<1>12. Grows /\ run' \in Nat
  BY <1>1, <1>2 DEF Grows, Shape
<1>13. ASSUME taken = {}
       PROVE  ProgramShape' /\ InstalledInv' /\ Progress' /\ Refusal'
  <2>1. /\ ProgramShape' /\ InstalledInv'
        /\ (Undeployed' <=> Undeployed) /\ (IsBuffer' <=> IsBuffer)
        /\ \A r, c : Written(r, c) => Written(r, c)'
        /\ \A r, c : Passed(r, c) => Passed(r, c)'
    BY <1>1, <1>12, <1>13, AloneStays
  <2>2. \A c \in 1..chunk' - 1 : run' = run /\ c \in 1..chunk - 1
    BY <1>1
  <2>3. \A j \in DOMAIN requests' : \E i \in DOMAIN requests : requests'[j].of = requests[i].of
    BY <1>5
  <2>4. run' = run /\ chunk' = chunk /\ pc' = pc /\ fate' = fate
    BY <1>1
  <2>5. Progress'
    BY <1>1, <1>12, <1>13, <2>1, <2>2, <2>3, <2>4, ProgressKept
  <2>6. Refusal'
    BY <1>1, <1>12, <1>13, <2>1, RefusalKept
  <2> QED BY <2>1, <2>5, <2>6
<1>14. Holdings(acct', taken') /\ taken' = taken /\ (buffer \notin taken => BufferShape')
  BY <1>1, <1>12, ChainStays
<1> QED BY <1>7, <1>8, <1>9, <1>10, <1>11, <1>13, <1>14 DEF DeployInv

-----------------------------------------------------------------------------
(* A transaction lands                                                     *)

\* What became of the transaction the script waits for.
LEMMA Outcome ==
  ASSUME DeployInv, NEW id \in DOMAIN requests, Land(id)
  PROVE  /\ UNCHANGED <<builds, run, pc, chunk, retries, retried, refused, late, taken>>
         /\ fate' \in {None, "ok", "failed"} /\ Grows /\ run' \in Nat
         /\ acct' = IF Succeeds(requests[id].of) THEN Purge(Effect(requests[id].of)) ELSE acct
         /\ deployed' = IF Succeeds(requests[id].of) /\ requests[id].of.kind = "finalize"
                        THEN requests[id].of.run ELSE deployed
         /\ fate' # fate => /\ pc \in {"awaitInit", "awaitWrite"} /\ fate = None
                            /\ id = Len(requests)
                            /\ fate' = IF Succeeds(requests[id].of) THEN "ok" ELSE "failed"
         /\ fate' = None => fate = None /\ (id = Len(requests) => pc \notin {"awaitInit", "awaitWrite"})
<1>1. /\ UNCHANGED <<builds, run, pc, chunk, retries, retried, refused, late, taken>>
      /\ fate' = IF ~Awaited(id) THEN fate
                 ELSE IF Succeeds(requests[id].of) THEN "ok" ELSE "failed"
      /\ acct' = IF Succeeds(requests[id].of) THEN Purge(Effect(requests[id].of)) ELSE acct
      /\ deployed' = IF Succeeds(requests[id].of) /\ requests[id].of.kind = "finalize"
                     THEN requests[id].of.run ELSE deployed
  BY DEF Land, history
<1>2. Shape /\ run \in Nat \ {0} /\ fate \in {None, "ok", "failed"} /\ run \in DOMAIN builds
  BY Numbers DEF DeployInv, Shape
<1>3. Grows /\ run' \in Nat
  BY <1>1, <1>2 DEF Grows
<1>4. fate' = fate \/ (Awaited(id) /\ fate' = IF Succeeds(requests[id].of) THEN "ok" ELSE "failed")
  BY <1>1
<1>5. fate' = None => fate = None /\ ~Awaited(id)
  BY <1>1, DeployAssumption
<1> QED BY <1>1, <1>2, <1>3, <1>4, <1>5 DEF Awaited

\* The script and the other transactions are as they were.
LEMMA LandControl ==
  ASSUME DeployInv, NEW id \in DOMAIN requests, Land(id)
  PROVE  /\ Loop' /\ Histories' /\ Flight' /\ Waiting' /\ InitOnce'
         /\ acct' \in Accounts /\ deployed' \in Nat => Shape'
         /\ \A j \in DOMAIN requests' : \E i \in DOMAIN requests : requests'[j].of = requests[i].of
<1>1. /\ UNCHANGED <<builds, run, pc, chunk, retries, retried, refused, late, taken>>
      /\ fate' \in {None, "ok", "failed"}
      /\ fate' # fate => /\ pc \in {"awaitInit", "awaitWrite"} /\ fate = None
                         /\ id = Len(requests)
      /\ fate' = None => fate = None /\ (id = Len(requests) => pc \notin {"awaitInit", "awaitWrite"})
  BY Outcome
<1>2. Shape /\ Flight /\ run \in Nat \ {0}
  BY Numbers DEF DeployInv
<1>3. Forget(id)
  BY DEF Land, ExecutedForgetful
<1>4. /\ requests' \in Seq(InFlight)
      /\ \A j \in DOMAIN requests' : \E i \in DOMAIN requests :
           /\ requests'[j] = requests[i]
           /\ i = Len(requests) => j = Len(requests') /\ id # Len(requests)
      /\ id # Len(requests) =>
           requests' # << >> /\ requests'[Len(requests')] = requests[Len(requests)]
  BY <1>2, <1>3, Forgotten
<1>5. \A r : totalChunks(r)' = totalChunks(r)
  BY <1>1, FilesStay
<1>6. totalChunks(run)' = totalChunks(run)
  BY <1>1, <1>5
<1>7. acct' \in Accounts /\ deployed' \in Nat => Shape'
  BY <1>1, <1>4 DEF DeployInv, Shape
<1>8. Loop'
  BY <1>1, <1>6 DEF DeployInv, Loop
<1>9. Histories'
  BY <1>1, <1>2, HistoriesStay
<1>10. Flight'
  BY <1>1, <1>2, <1>4, <1>5 DEF Flight
<1>11. Waiting'
  <2>1. ASSUME NEW tx, SentLast(tx), id # Len(requests)
        PROVE  requests' # << >> /\ Last(requests') = [of |-> tx, fate |-> "broadcast"]
    BY <1>4, <2>1 DEF SentLast, Last
  <2>2. Tx("initBuffer", 0)' = Tx("initBuffer", 0) /\ Tx("write", chunk)' = Tx("write", chunk)
    BY <1>1 DEF Tx
  <2>3. /\ pc = "awaitInit" /\ fate = None => SentLast(Tx("initBuffer", 0))
        /\ pc = "awaitWrite" /\ fate = None => SentLast(Tx("write", chunk))
    BY DEF DeployInv, Waiting
  <2> QED BY <1>1, <2>1, <2>2, <2>3 DEF Waiting, SentLast
<1>12. InitOnce'
  <2> SUFFICES ASSUME run = 1
               PROVE  /\ pc \in Early => refused = {}
                      /\ \A j \in DOMAIN requests' : requests'[j].of.kind = "initBuffer" =>
                           /\ refused = {} /\ pc \in {"awaitInit", "failed"}
                           /\ pc = "awaitInit" => fate' = None /\ j = Len(requests')
    BY <1>1 DEF InitOnce
  <2>1. /\ pc \in Early => refused = {}
        /\ \A i \in DOMAIN requests : requests[i].of.kind = "initBuffer" =>
             /\ refused = {} /\ pc \in {"awaitInit", "failed"}
             /\ pc = "awaitInit" => fate = None /\ i = Len(requests)
    BY DEF DeployInv, InitOnce
  <2> QED BY <1>1, <1>4, <2>1
<1> QED BY <1>4, <1>7, <1>8, <1>9, <1>10, <1>11, <1>12

\* What is left to show of a transaction that lands.
LEMMA LandRest ==
  ASSUME DeployInv, NEW id \in DOMAIN requests, Land(id),
         acct' \in Accounts, deployed' \in Nat, Holdings(acct', taken),
         buffer \notin taken => BufferShape',
         taken = {} =>
           /\ ProgramShape' /\ InstalledInv' /\ Refusal'
           /\ Undeployed' =>
                /\ Undeployed
                /\ \A r \in 1..run : \A c :
                     (late \/ r = run) /\ Written(r, c) => Written(r, c)'
                /\ pc = "awaitWrite" /\ fate' # fate /\ fate' = "ok" => Written(run, chunk)'
  PROVE  DeployInv'
<1>1. /\ UNCHANGED <<builds, run, pc, chunk, retries, retried, refused, late, taken>>
      /\ Grows /\ run' \in Nat
  BY Outcome
<1>2. /\ Shape' /\ Loop' /\ Histories' /\ Flight' /\ Waiting' /\ InitOnce'
      /\ \A j \in DOMAIN requests' : \E i \in DOMAIN requests : requests'[j].of = requests[i].of
  BY LandControl
<1>3. ASSUME taken = {}
      PROVE  Progress'
  <2> SUFFICES ASSUME Undeployed'
               PROVE  /\ \A c \in 1..chunk' - 1 : Passed(run, c)'
                      /\ pc' = "awaitWrite" /\ fate' = "ok" => Written(run, chunk)'
                      /\ \A j \in DOMAIN requests' : requests'[j].of.kind = "finalize" =>
                           (\A c \in 1..totalChunks(requests[j].of.run) :
                              Passed(requests[j].of.run, c))'
    BY DEF Progress
  <2>1. /\ Undeployed /\ run \in 1..run
        /\ \A r \in 1..run : \A c : (late \/ r = run) /\ Written(r, c) => Written(r, c)'
        /\ pc = "awaitWrite" /\ fate' # fate /\ fate' = "ok" => Written(run, chunk)'
    BY <1>3, Numbers
  <2>2. \A r \in 1..run : \A c : (late \/ r = run) /\ Passed(r, c) => Passed(r, c)'
    BY <1>1, <2>1 DEF Passed
  <2>3. /\ \A c \in 1..chunk - 1 : Passed(run, c)
        /\ pc = "awaitWrite" /\ fate = "ok" => Written(run, chunk)
        /\ \A i \in DOMAIN requests : requests[i].of.kind = "finalize" =>
             \A c \in 1..totalChunks(requests[i].of.run) : Passed(requests[i].of.run, c)
    BY <1>3, <2>1 DEF DeployInv, Progress
  <2>4. ASSUME NEW c \in 1..chunk' - 1
        PROVE  Passed(run, c)'
    <3>1. PICK r : r = run
      OBVIOUS
    <3>2. r = run' /\ c \in 1..chunk - 1
      BY <1>1, <3>1
    <3>3. Passed(r, c)'
      BY <2>1, <2>2, <2>3, <3>1, <3>2
    <3> QED BY <3>2, <3>3
  <2>5. pc' = "awaitWrite" /\ fate' = "ok" => Written(run, chunk)'
    <3>1. PICK r, c : r = run /\ c = chunk
      OBVIOUS
    <3>2. r = run' /\ c = chunk'
      BY <1>1, <3>1
    <3>3. Written(r, c) => Written(r, c)'
      BY <2>1, <3>1
    <3> QED BY <1>1, <2>1, <2>3, <3>1, <3>2, <3>3
  <2>6. ASSUME NEW j \in DOMAIN requests', requests'[j].of.kind = "finalize",
               NEW c \in 1..totalChunks(requests[j].of.run)'
        PROVE  Passed(requests[j].of.run, c)'
    <3>1. PICK r : r = requests'[j].of.run
      OBVIOUS
    <3>2. totalChunks(r)' = totalChunks(r) /\ c \in 1..totalChunks(r)'
      BY <1>1, <2>6, <3>1, FilesStay
    <3>3. PICK i \in DOMAIN requests : requests'[j].of = requests[i].of
      BY <1>2
    <3>4. r \in 1..run /\ (late \/ r = run)
      BY <3>1, <3>3 DEF DeployInv, Flight
    <3>5. Passed(r, c)
      BY <2>3, <2>6, <3>1, <3>2, <3>3
    <3>6. Passed(r, c)'
      BY <2>2, <3>4, <3>5
    <3> QED BY <3>1, <3>6
  <2> QED BY <2>4, <2>5, <2>6
<1> QED BY <1>1, <1>2, <1>3 DEF DeployInv

\* The accounts a transaction meets: the payer's, and three that are funded or absent.
LEMMA Settled ==
  ASSUME DeployInv
  PROVE  /\ acct \in Accounts
         /\ acct[payer].owner = "system" /\ ~acct[payer].executable
         /\ \A a \in {program, buffer, programdata} :
              acct[a] = NoAccount \/ acct[a].lamports > 0
<1>1. acct \in Accounts /\ Holdings(acct, taken)
  BY DEF DeployInv, Shape
<1>2. \A a \in {program, buffer, programdata} : acct[a] = NoAccount \/ acct[a].lamports > 0
  BY <1>1 DEF Holdings, Open, Final, Data, Funded
<1> QED BY <1>1, <1>2 DEF Holdings, Payer

\* A buffer no one else took is the script's.
LEMMA BufferFilled ==
  ASSUME DeployInv, buffer \notin taken
  PROVE  BufferShape /\ (IsBuffer <=> Filled(acct[buffer]))
<1>1. BufferShape
  BY DEF DeployInv
<1>2. BufferState(payer).tag = "Buffer" /\ Uninitialized.tag = "Uninitialized"
  BY DEF BufferState, Uninitialized
<1>3. NoAccount.state = Uninitialized
  BY EmptyAccount
<1> QED BY <1>1, <1>2, <1>3 DEF BufferShape, IsBuffer, Fresh, Filled

\* A transaction that fails moves no account.  A write the script of the first run waited
\* for only fails where there is no buffer, or where the chunk does not fit.
LEMMA FailedLand ==
  ASSUME DeployInv, NEW id \in DOMAIN requests, Land(id), ~Succeeds(requests[id].of)
  PROVE  DeployInv'
<1>1. /\ UNCHANGED <<builds, run, pc, chunk, retries, retried, refused, late, taken>>
      /\ Grows /\ run' \in Nat /\ acct' = acct /\ deployed' = deployed
      /\ fate' # fate => /\ pc \in {"awaitInit", "awaitWrite"} /\ fate = None
                         /\ id = Len(requests) /\ fate' = "failed"
  BY Outcome
<1>2. acct' \in Accounts /\ deployed' \in Nat
  BY <1>1 DEF DeployInv, Shape
<1>3. UNCHANGED chain
  BY <1>1 DEF chain
<1>4. ASSUME taken = {}
      PROVE  /\ ProgramShape' /\ InstalledInv'
             /\ (Undeployed' <=> Undeployed) /\ (IsBuffer' <=> IsBuffer)
             /\ \A r, c : Written(r, c) => Written(r, c)'
  BY <1>1, <1>3, <1>4, AloneStays
<1>5. ASSUME taken = {}, run = 1, pc = "awaitWrite", fate' # fate, Fits(1, chunk)
      PROVE  ~IsBuffer
  <2> SUFFICES ASSUME IsBuffer
               PROVE  FALSE
    OBVIOUS
  <2>1. requests[id].of = Tx("write", chunk)
    BY <1>1, <1>5 DEF DeployInv, Waiting, SentLast, Last
  <2>2. /\ requests[id].of.kind = "write" /\ requests[id].of.chunk = chunk
        /\ requests[id].of.run = 1
    BY <1>5, <2>1 DEF Tx
  <2>3. ~CanWrite(acct, {payer}, buffer, payer, Offset(chunk), Slice(1, chunk))
    BY <2>2 DEF Succeeds
  <2>4. /\ Filled(acct[buffer]) /\ acct[buffer] # NoAccount /\ BufferShape
        /\ acct[buffer] \in Account
    BY <1>5, BufferFilled, Settled, EmptyAccount, Parties DEF Filled, Funded, Accounts
  <2>5. Len(acct[buffer].data) = bufferSize(1)
    BY <1>5, <2>4 DEF BufferShape
  <2>6. Holds(acct[buffer], "Buffer")
    <3>1. acct[buffer].data # << >>
      BY <2>4, EmptySeq DEF Filled, Funded
    <3> QED BY <3>1 DEF Holds, IsBuffer
  <2>7. Authorised(acct[buffer].state, payer, {payer})
    <3>1. BufferState(payer).authority = payer
      BY DEF BufferState, Uninitialized
    <3> QED BY <2>4, <3>1, Parties DEF Filled, Authorised
  <2>8. Len(acct[buffer].data) >= BufferMeta + Offset(chunk) + Len(Slice(1, chunk))
    <3>1. /\ BufferMeta \in Nat /\ Offset(chunk) \in Nat /\ Len(Slice(1, chunk)) \in Nat
          /\ bufferSize(1) \in Nat
      <4>1. Shape /\ run \in DOMAIN builds /\ chunk \in 1..totalChunks(1)
        BY <1>5, Numbers DEF DeployInv, Shape, Loop
      <4> QED BY <1>5, <4>1, Sizes, SliceCells, Builds DEF Shape, bufferSize
    <3>2. BufferMeta + Offset(chunk) + Len(Slice(1, chunk)) <= bufferSize(1)
      BY <1>5 DEF Fits
    <3> QED BY <2>5, <3>1, <3>2
  <2>9. Changeable(acct[buffer])
    BY <2>4 DEF Filled, Funded, Changeable
  <2> QED BY <2>3, <2>6, <2>7, <2>8, <2>9 DEF CanWrite
<1>6. ASSUME taken = {}
      PROVE  Refusal'
  <2> SUFFICES ASSUME run = 1
               PROVE  /\ \A c \in 1..totalChunks(1) :
                           <<1, c>> \in refused /\ Fits(1, c) => ~IsBuffer
                      /\ pc = "awaitWrite" /\ fate' = "failed" /\ Fits(1, chunk) => ~IsBuffer
    <3>1. totalChunks(1)' = totalChunks(1) /\ \A c : Fits(1, c)' = Fits(1, c)
      BY <1>1, FilesStay
    <3>2. PICK n : n = chunk
      OBVIOUS
    <3>3. Fits(1, chunk)' <=> Fits(1, n)'
      BY <1>1, <3>2
    <3> QED BY <1>1, <1>4, <1>6, <3>1, <3>2, <3>3 DEF Refusal
  <2> QED BY <1>5, <1>6 DEF DeployInv, Refusal
<1>7. Holdings(acct', taken) /\ (buffer \notin taken => BufferShape')
  BY <1>1, <1>3, ChainStays
<1> QED BY <1>1, <1>2, <1>4, <1>6, <1>7, LandRest

\* A transaction that took effect makes no buffer of what refused a chunk, unless it
\* initialises one.
LEMMA RefusalStays ==
  ASSUME DeployInv, taken = {}, NEW id \in DOMAIN requests, Land(id),
         Succeeds(requests[id].of), IsBuffer' => IsBuffer
  PROVE  Refusal'
<1>1. /\ UNCHANGED <<builds, run, pc, chunk, retries, retried, refused, late>>
      /\ fate' # fate => fate' = "ok"
  BY Outcome
<1>2. totalChunks(1)' = totalChunks(1) /\ \A c : Fits(1, c)' = Fits(1, c)
  BY <1>1, FilesStay
<1>3. PICK n : n = chunk
  OBVIOUS
<1>4. Fits(1, chunk)' <=> Fits(1, n)'
  BY <1>1, <1>3
<1>5. Refusal
  BY DEF DeployInv
<1> QED BY <1>1, <1>2, <1>3, <1>4, <1>5 DEF Refusal

\* The program's account is created: it is not deployed, and was not there.
LEMMA CreateProgramLand ==
  ASSUME DeployInv, NEW id \in DOMAIN requests, Land(id), Succeeds(requests[id].of),
         requests[id].of.kind = "createProgram"
  PROVE  DeployInv'
<1> DEFINE S == PROGRAM_ACCOUNT_SPACE
<1>1. /\ UNCHANGED <<builds, run, pc, chunk, retries, retried, refused, late>>
      /\ Grows /\ run' \in Nat /\ deployed' = deployed
      /\ fate' # fate => pc \in {"awaitInit", "awaitWrite"} /\ fate = None /\ id = Len(requests)
      /\ acct' = Purge(Effect(requests[id].of))
  BY Outcome
<1>2. /\ CanCreateAccount(acct, {payer, program}, payer, program, Rent(S))
      /\ acct' = Purge(AfterCreateAccount(acct, payer, program, Rent(S), S))
  BY <1>1 DEF Succeeds, Effect
<1>3. /\ acct \in Accounts /\ acct[payer].owner = "system" /\ ~acct[payer].executable
      /\ \A a \in {program, buffer, programdata} :
           acct[a] = NoAccount \/ acct[a].lamports > 0
      /\ S \in Nat \ {0}
  BY Settled, DeployAssumption
<1>4. /\ acct' \in Accounts
      /\ acct'[payer].owner = "system" /\ ~acct'[payer].executable
      /\ acct'[program] = Allocated(Rent(S), S) /\ Rent(S) \in Nat \ {0}
      /\ acct'[buffer] = acct[buffer] /\ acct'[programdata] = acct[programdata]
  <2>1. program \in {program, buffer} /\ buffer # program /\ programdata # program
    BY Parties
  <2>2. /\ acct' \in Accounts
        /\ acct'[payer].owner = "system" /\ ~acct'[payer].executable
        /\ acct'[program] = Allocated(Rent(S), S) /\ Rent(S) \in Nat \ {0}
        /\ \A a \in {program, buffer, programdata} \ {program} :
             acct[a] = NoAccount \/ acct[a].lamports > 0 => acct'[a] = acct[a]
    BY <1>2, <1>3, <2>1, Created
  <2> QED BY <1>3, <2>1, <2>2
<1>5. acct[program] = NoAccount
  BY <1>2 DEF CanCreateAccount
<1>6. /\ Funded(acct'[program]) /\ ~acct'[program].executable
      /\ acct'[program].state = Uninitialized
  BY <1>3, <1>4, AllocatedShape
<1>7. Holdings(acct', taken)
  <2>1. ~Final(acct)
    BY <1>5, EmptyAccount DEF Final
  <2> QED BY <1>4, <1>6, <2>1 DEF DeployInv, Holdings, Payer, Open, Data
<1>8. ASSUME taken = {}
      PROVE  Undeployed /\ ProgramShape' /\ InstalledInv'
  <2>1. Undeployed
    BY <1>5, <1>8, EmptyAccount DEF DeployInv, ProgramShape, Live, Funded
  <2>2. ProgramShape' /\ ~Live'
    BY <1>4, <1>6, <2>1 DEF ProgramShape, Undeployed, Live, Funded
  <2> QED BY <2>1, <2>2 DEF InstalledInv
<1>9. ASSUME buffer \notin taken
      PROVE  /\ BufferShape' /\ (IsBuffer' <=> IsBuffer)
             /\ \A r, c : Written(r, c) => Written(r, c)'
  BY <1>1, <1>4, <1>9, BufferStays DEF DeployInv
<1>10. taken = {} => Refusal'
  BY <1>9, RefusalStays
<1>11. ~(pc = "awaitWrite" /\ fate' # fate)
  BY <1>1 DEF DeployInv, Waiting, SentLast, Last, Tx
<1>12. deployed' \in Nat
  BY <1>1 DEF DeployInv, Shape
<1> QED BY <1>4, <1>7, <1>8, <1>9, <1>10, <1>11, <1>12, LandRest

\* The buffer's account is created, of the size of the run that asked for it.
LEMMA CreateBufferLand ==
  ASSUME DeployInv, NEW id \in DOMAIN requests, Land(id), Succeeds(requests[id].of),
         requests[id].of.kind = "createBuffer"
  PROVE  DeployInv'
<1>1. /\ UNCHANGED <<builds, run, pc, chunk, retries, retried, refused, late>>
      /\ Grows /\ run' \in Nat /\ deployed' = deployed
      /\ fate' # fate => pc \in {"awaitInit", "awaitWrite"} /\ fate = None /\ id = Len(requests)
      /\ acct' = Purge(Effect(requests[id].of))
  BY Outcome
<1>2. PICK r : r = requests[id].of.run
  OBVIOUS
<1> DEFINE S == bufferSize(r)
<1>3. /\ CanCreateAccount(acct, {payer, buffer}, payer, buffer, Rent(S))
      /\ acct' = Purge(AfterCreateAccount(acct, payer, buffer, Rent(S), S))
  BY <1>1, <1>2 DEF Succeeds, Effect
<1>4. /\ acct \in Accounts /\ acct[payer].owner = "system" /\ ~acct[payer].executable
      /\ \A a \in {program, buffer, programdata} :
           acct[a] = NoAccount \/ acct[a].lamports > 0
  BY Settled
<1>5. S \in Nat \ {0} /\ (run = 1 => r = 1)
  <2>1. Shape /\ r \in 1..run /\ run \in Nat
    BY <1>2, Numbers DEF DeployInv, Flight
  <2>2. r \in DOMAIN builds /\ builds \in Rebuilds
    BY <2>1, RunType DEF Shape
  <2> QED BY <2>1, <2>2, Builds DEF bufferSize
<1> HIDE DEF S
<1>6. /\ acct' \in Accounts
      /\ acct'[payer].owner = "system" /\ ~acct'[payer].executable
      /\ acct'[buffer] = Allocated(Rent(S), S) /\ Rent(S) \in Nat \ {0}
      /\ acct'[program] = acct[program] /\ acct'[programdata] = acct[programdata]
  <2>1. buffer \in {program, buffer} /\ buffer # program /\ programdata # buffer
    BY Parties
  <2>2. /\ acct' \in Accounts
        /\ acct'[payer].owner = "system" /\ ~acct'[payer].executable
        /\ acct'[buffer] = Allocated(Rent(S), S) /\ Rent(S) \in Nat \ {0}
        /\ \A a \in {program, buffer, programdata} \ {buffer} :
             acct[a] = NoAccount \/ acct[a].lamports > 0 => acct'[a] = acct[a]
    BY <1>3, <1>4, <1>5, <2>1, Created
  <2> QED BY <1>4, <2>1, <2>2
<1>7. Fresh(acct'[buffer]) /\ Len(acct'[buffer].data) = S
  BY <1>5, <1>6, AllocatedShape DEF Fresh
<1>8. ~IsBuffer /\ ~IsBuffer'
  <2>1. acct[buffer] = NoAccount
    BY <1>3 DEF CanCreateAccount
  <2> QED BY <1>7, <2>1, EmptyAccount DEF IsBuffer, Fresh
<1>9. BufferShape'
  <2>1. run = 1 => S = bufferSize(1)'
    BY <1>1, <1>5 DEF S, bufferSize
  <2> QED BY <1>1, <1>7, <2>1 DEF BufferShape, Fresh, Funded
<1>10. Holdings(acct', taken)
  BY <1>6, <1>7 DEF DeployInv, Holdings, Payer, Open, Final, Data, Fresh
<1>11. ASSUME taken = {}
       PROVE  ProgramShape' /\ InstalledInv' /\ (Undeployed' <=> Undeployed) /\ Refusal'
  BY <1>1, <1>6, <1>8, <1>11, ProgramStays, RefusalStays DEF DeployInv
<1>12. ~(pc = "awaitWrite" /\ fate' # fate)
  BY <1>1 DEF DeployInv, Waiting, SentLast, Last, Tx
<1>13. deployed' \in Nat
  BY <1>1 DEF DeployInv, Shape
<1>14. \A s, c : ~Written(s, c)
  BY <1>8 DEF Written
<1> QED BY <1>6, <1>9, <1>10, <1>11, <1>12, <1>13, <1>14, LandRest

\* The buffer is initialised: it was fresh, and no chunk had been refused.
LEMMA InitBufferLand ==
  ASSUME DeployInv, NEW id \in DOMAIN requests, Land(id), Succeeds(requests[id].of),
         requests[id].of.kind = "initBuffer"
  PROVE  DeployInv'
<1>1. /\ UNCHANGED <<builds, run, pc, chunk, retries, retried, refused, late>>
      /\ Grows /\ run' \in Nat /\ deployed' = deployed
      /\ fate' # fate => pc \in {"awaitInit", "awaitWrite"} /\ fate = None /\ id = Len(requests)
      /\ acct' = Purge(Effect(requests[id].of))
  BY Outcome
<1> DEFINE new == SetState(acct[buffer], BufferState(payer))
<1>2. /\ CanInitializeBuffer(acct, buffer)
      /\ acct' = Purge([acct EXCEPT ![buffer] = new])
  BY <1>1 DEF Succeeds, Effect, AfterInitializeBuffer, bufferAuthority
<1>3. /\ acct \in Accounts /\ acct[payer].owner = "system" /\ ~acct[payer].executable
      /\ \A a \in {program, buffer, programdata} :
           acct[a] = NoAccount \/ acct[a].lamports > 0
      /\ acct[buffer] \in Account
  BY Settled, Parties DEF Accounts
<1>4. /\ ~IsBuffer /\ Len(acct[buffer].data) >= BufferMeta
      /\ Funded(acct[buffer]) /\ ~acct[buffer].executable
      /\ buffer \notin taken => Fresh(acct[buffer])
  <2>1. /\ acct[buffer].data # << >> /\ acct[buffer].state.tag = "Uninitialized"
        /\ Len(acct[buffer].data) >= BufferMeta
    BY <1>2 DEF CanInitializeBuffer, Holds
  <2>2. ~IsBuffer
    BY <2>1 DEF IsBuffer
  <2>3. acct[buffer] # NoAccount
    BY <2>1, EmptyAccount
  <2> QED BY <2>1, <2>2, <2>3, BufferFilled DEF DeployInv, Holdings, Open, BufferShape
<1>5. /\ new \in Account /\ new.lamports > 0 /\ Funded(new) /\ ~new.executable
      /\ new.state = BufferState(payer) /\ Len(new.data) = Len(acct[buffer].data)
  <2>1. BufferState(payer) \in State
    BY StateType, Parties
  <2> QED BY <1>3, <1>4, <2>1, SetStateType DEF Funded
<1>6. buffer \notin taken => Filled(new)
  BY <1>3, <1>4, Initialized
<1> HIDE DEF new
<1>7. /\ acct' \in Accounts
      /\ acct'[payer].owner = "system" /\ ~acct'[payer].executable
      /\ acct'[buffer] = new
      /\ acct'[program] = acct[program] /\ acct'[programdata] = acct[programdata]
  BY <1>2, <1>3, <1>5, OnlyBuffer
<1>8. Holdings(acct', taken)
  BY <1>5, <1>7 DEF DeployInv, Holdings, Payer, Open, Final, Data
<1>9. ASSUME buffer \notin taken
      PROVE  BufferShape'
  <2>1. PICK account : account = new
    OBVIOUS
  <2>2. Filled(account)'
    BY <1>1, <1>6, <1>9, <2>1, FilledStays DEF DeployInv
  <2>3. Filled(acct[buffer])'
    BY <1>7, <2>1, <2>2
  <2>4. run = 1 => Len(acct[buffer].data) = bufferSize(1)
    BY <1>4, <1>9, EmptyAccount DEF DeployInv, BufferShape, Fresh, Funded
  <2>5. bufferSize(1)' = bufferSize(1)
    BY <1>1, FilesStay
  <2> QED BY <1>1, <1>5, <1>7, <2>3, <2>4, <2>5 DEF BufferShape
<1>10. ASSUME taken = {}
       PROVE  ProgramShape' /\ InstalledInv' /\ (Undeployed' <=> Undeployed)
  BY <1>1, <1>7, <1>10, ProgramStays DEF DeployInv
<1>11. taken = {} => Refusal'
  <2>1. run = 1 => refused = {} /\ pc # "awaitWrite"
    BY DEF DeployInv, InitOnce
  <2> QED BY <1>1, <2>1 DEF Refusal
<1>12. ~(pc = "awaitWrite" /\ fate' # fate)
  BY <1>1 DEF DeployInv, Waiting, SentLast, Last, Tx
<1>13. deployed' \in Nat
  BY <1>1 DEF DeployInv, Shape
<1>14. \A s, c : ~Written(s, c)
  BY <1>4 DEF Written
<1> QED BY <1>7, <1>8, <1>9, <1>10, <1>11, <1>12, <1>13, <1>14, LandRest

\* A write takes effect: its chunk is in the buffer, and what was there still is.
LEMMA WriteLand ==
  ASSUME DeployInv, NEW id \in DOMAIN requests, Land(id), Succeeds(requests[id].of),
         requests[id].of.kind = "write"
  PROVE  DeployInv'
<1>1. /\ UNCHANGED <<builds, run, pc, chunk, retries, retried, refused, late>>
      /\ Grows /\ run' \in Nat /\ deployed' = deployed
      /\ fate' # fate => pc \in {"awaitInit", "awaitWrite"} /\ fate = None /\ id = Len(requests)
      /\ acct' = Purge(Effect(requests[id].of))
  BY Outcome
<1>2. PICK r, c : r = requests[id].of.run /\ c = requests[id].of.chunk
  OBVIOUS
<1>3. /\ Shape /\ r \in 1..run /\ r \in DOMAIN builds /\ (late \/ r = run)
      /\ c \in 1..totalChunks(r)
  BY <1>2, RunType DEF DeployInv, Flight
<1> DEFINE o == Offset(c)
           bytes == Slice(r, c)
           account == acct[buffer]
           made == [account EXCEPT !.data = Overwrite(account.data, BufferMeta + o, bytes)]
<1>4. /\ CanWrite(acct, {payer}, buffer, payer, o, bytes)
      /\ acct' = Purge([acct EXCEPT ![buffer] = made])
  BY <1>1, <1>2 DEF Succeeds, Effect, AfterWrite
<1>5. /\ acct \in Accounts /\ acct[payer].owner = "system" /\ ~acct[payer].executable
      /\ \A a \in {program, buffer, programdata} :
           acct[a] = NoAccount \/ acct[a].lamports > 0
      /\ account \in Account
  BY Settled, Parties DEF Accounts
<1>6. /\ IsBuffer /\ Len(account.data) >= BufferMeta + o + Len(bytes)
      /\ Open(acct, taken, buffer) /\ account # NoAccount
      /\ buffer \notin taken => Filled(account)
  <2>1. /\ IsBuffer /\ Len(account.data) >= BufferMeta + o + Len(bytes)
        /\ account.data # << >>
    BY <1>4 DEF CanWrite, Holds, IsBuffer
  <2> QED BY <2>1, BufferFilled, EmptyAccount DEF DeployInv, Holdings
<1>7. /\ o \in Nat /\ bytes \in Seq(Byte) /\ Cells(r, c) = o + 1 .. o + Len(bytes)
      /\ \A i \in Cells(r, c) : bytes[i - o] = File(r)[i]
  BY <1>3, SliceCells DEF Cells
<1>8. account.lamports > 0
  BY <1>6 DEF Open, Funded
<1> HIDE DEF o, bytes
<1>9. /\ made \in Account /\ made.lamports > 0
      /\ made = [account EXCEPT !.data = made.data] /\ Len(made.data) = Len(account.data)
      /\ DOMAIN BufferContent(made) = DOMAIN BufferContent(account)
      /\ o + 1 .. o + Len(bytes) \subseteq DOMAIN BufferContent(account)
      /\ \A i \in DOMAIN BufferContent(account) :
           BufferContent(made)[i] = IF i \in o + 1 .. o + Len(bytes) THEN bytes[i - o]
                                    ELSE BufferContent(account)[i]
  BY <1>5, <1>6, <1>7, <1>8, Wrote
<1> HIDE DEF made
<1>10. /\ acct' \in Accounts
       /\ acct'[payer].owner = "system" /\ ~acct'[payer].executable
       /\ acct'[buffer] = made
       /\ acct'[program] = acct[program] /\ acct'[programdata] = acct[programdata]
  BY <1>4, <1>5, <1>9, OnlyBuffer
<1>11. PICK old, new : old = BufferContent(account) /\ new = BufferContent(made)
  OBVIOUS
<1>12. /\ \A i \in DOMAIN old : old[i] = Zero \/ Has(old, i) => new[i] = Zero \/ Has(new, i)
       /\ There(new, r, c)
       /\ \A s, d : (late \/ s = r) /\ There(old, s, d) => There(new, s, d)
  <2>1. DOMAIN new = DOMAIN old /\ Cells(r, c) \subseteq DOMAIN old
    BY <1>7, <1>9, <1>11
  <2>2. \A i \in DOMAIN old : new[i] = IF i \in Cells(r, c) THEN File(r)[i] ELSE old[i]
    BY <1>7, <1>9, <1>11
  <2> QED BY <1>3, <2>1, <2>2, ChunkWritten
<1>13. /\ made.owner = account.owner /\ made.executable = account.executable
       /\ made.state = account.state
  BY <1>5, <1>9 DEF Account
<1>14. Holdings(acct', taken)
  <2>1. Open(acct', taken, buffer)
    BY <1>6, <1>9, <1>10, <1>13 DEF Open, Funded
  <2> QED BY <1>10, <2>1 DEF DeployInv, Holdings, Payer, Open, Final, Data
<1>15. ASSUME buffer \notin taken
       PROVE  BufferShape' /\ IsBuffer'
  <2>1. Filled(made)
    <3>1. DOMAIN old = 1 .. Len(account.data) - BufferMeta
      BY <1>5, <1>6, <1>11, <1>15, BufferCells DEF Filled
    <3>2. \A i \in DOMAIN old : old[i] = Zero \/ Has(old, i)
      BY <1>6, <1>11, <1>15, <3>1 DEF Filled
    <3>3. \A i \in 1 .. Len(made.data) - BufferMeta :
            BufferContent(made)[i] = Zero \/ Has(BufferContent(made), i)
      BY <1>9, <1>11, <1>12, <3>1, <3>2
    <3> QED BY <1>6, <1>9, <1>13, <1>15, <3>3 DEF Filled, Funded
  <2>2. PICK x : x = made
    OBVIOUS
  <2>3. Filled(x)'
    BY <1>1, <1>3, <2>1, <2>2, FilledStays
  <2>4. Filled(acct[buffer])'
    BY <1>10, <2>2, <2>3
  <2>5. run = 1 => Len(acct[buffer].data) = bufferSize(1)
    BY <1>6, <1>15 DEF DeployInv, BufferShape
  <2>6. bufferSize(1)' = bufferSize(1)
    BY <1>1, FilesStay
  <2>7. BufferShape'
    BY <1>1, <1>9, <1>10, <2>4, <2>5, <2>6 DEF BufferShape
  <2> QED BY <1>6, <1>10, <1>13, <2>7 DEF IsBuffer
<1>16. ASSUME buffer \notin taken
       PROVE  \A s, d : There(new, s, d) => Written(s, d)'
  <2>1. new = BufferContent(acct'[buffer])
    BY <1>10, <1>11
  <2>2. \A s, d : There(new, s, d) => There(new, s, d)'
    BY <1>1, <1>3, ThereStays
  <2>3. \A s, d : There(new, s, d)' => There(BufferContent(acct[buffer]), s, d)'
    BY <2>1
  <2> QED BY <1>15, <1>16, <2>2, <2>3 DEF Written
<1>17. ASSUME buffer \notin taken
       PROVE  \A s \in 1..run : \A d : (late \/ s = run) /\ Written(s, d) => Written(s, d)'
  BY <1>3, <1>11, <1>12, <1>16, <1>17 DEF Written
<1>18. ASSUME buffer \notin taken, pc = "awaitWrite", fate' # fate
       PROVE  Written(run, chunk)'
  <2>1. requests[id].of = Tx("write", chunk)
    BY <1>1, <1>18 DEF DeployInv, Waiting, SentLast, Last
  <2>2. r = run' /\ c = chunk'
    BY <1>1, <1>2, <2>1 DEF Tx
  <2>3. Written(r, c)'
    BY <1>12, <1>16, <1>18
  <2> QED BY <2>2, <2>3
<1>19. ASSUME taken = {}
       PROVE  ProgramShape' /\ InstalledInv' /\ (Undeployed' <=> Undeployed) /\ Refusal'
  BY <1>1, <1>6, <1>10, <1>19, ProgramStays, RefusalStays DEF DeployInv
<1>20. deployed' \in Nat
  BY <1>1 DEF DeployInv, Shape
<1> QED BY <1>10, <1>14, <1>15, <1>17, <1>18, <1>19, <1>20, LandRest

\* The deployment takes effect: every chunk that had passed is installed.
LEMMA FinalizeLand ==
  ASSUME DeployInv, NEW id \in DOMAIN requests, Land(id), Succeeds(requests[id].of),
         requests[id].of.kind = "finalize"
  PROVE  DeployInv'
<1>1. /\ UNCHANGED <<builds, run, pc, chunk, retries, retried, refused, late>>
      /\ Grows /\ run' \in Nat
      /\ fate' # fate => pc \in {"awaitInit", "awaitWrite"} /\ fate = None /\ id = Len(requests)
      /\ acct' = Purge(Effect(requests[id].of)) /\ deployed' = requests[id].of.run
  BY Outcome
<1>2. PICK r, t \in Nat : r = requests[id].of.run /\ t = 0
  <2>1. requests[id].of.run \in Nat /\ 0 \in Nat
    BY FlightFields DEF DeployInv
  <2> QED BY <2>1
<1>3. /\ Shape /\ r \in 1..run /\ r \in DOMAIN builds /\ (run = 1 => r = 1) /\ run \in Nat
      /\ deployed' = r
  BY <1>1, <1>2, RunType DEF DeployInv, Flight
<1> DEFINE S == bufferSize(r)
<1>4. /\ CanDeploy(acct, {payer}, payer, programdata, program, buffer, payer, S)
      /\ acct' = Purge(AfterDeploy(acct, payer, programdata, program, buffer, payer, S, t))
  BY <1>1, <1>2 DEF Succeeds, Effect
<1>5. S \in Nat
  BY <1>3, Builds DEF Shape, bufferSize
<1> HIDE DEF S
<1>6. /\ acct \in Accounts /\ acct[payer].owner = "system" /\ ~acct[payer].executable
  BY Settled
<1>7. acct[program].lamports > 0 /\ (taken = {} => Undeployed)
  <2>1. acct[program].data # << >> /\ ~acct[program].executable
    BY <1>4 DEF CanDeploy, ProgramReady, Holds, Changeable
  <2>2. acct[program] # NoAccount /\ ~Live
    BY <2>1, EmptyAccount DEF Live
  <2> QED BY <2>2, Settled DEF DeployInv, ProgramShape
<1>8. IsBuffer
  BY <1>4 DEF CanDeploy, BufferReady, Holds, IsBuffer
<1>9. PICK code : code = BufferContent(acct[buffer])
  OBVIOUS
<1>10. /\ acct' \in Accounts
       /\ acct'[payer].owner = "system" /\ ~acct'[payer].executable
       /\ acct'[buffer] = NoAccount
       /\ Funded(acct'[program]) /\ acct'[program].executable
       /\ acct'[program].state = ProgramState(programdata)
       /\ Funded(acct'[programdata]) /\ ~acct'[programdata].executable
       /\ acct'[programdata].state = ProgramDataState(0, payer)
       /\ \A i \in DOMAIN code :
            /\ i \in DOMAIN ProgramDataContent(acct'[programdata])
            /\ ProgramDataContent(acct'[programdata])[i] = code[i]
  <2>1. acct[program].lamports > 0
    BY <1>7
  <2>2. FinalizedTo(acct, Purge(AfterDeploy(acct, payer, programdata, program, buffer,
                                            payer, S, t)), t)
    BY <1>4, <1>5, <1>6, <2>1, Finalized
  <2>3. FinalizedTo(acct, acct', 0)
    BY <1>2, <1>4, <2>2
  <2> QED BY <1>9, <2>3 DEF FinalizedTo
<1>11. Live' /\ ~Undeployed' /\ ProgramShape'
  BY <1>1, <1>3, <1>10 DEF Live, Undeployed, ProgramShape, Funded
<1>12. BufferShape' /\ ~IsBuffer'
  BY <1>10, EmptyAccount DEF BufferShape, IsBuffer
<1>13. PICK new : new = ProgramDataContent(acct'[programdata])
  OBVIOUS
<1>14. new = Installed'
  BY <1>13 DEF Installed
<1>15. \A d : There(code, r, d) => There(new, r, d)
  <2>1. \A i \in DOMAIN code : i \in DOMAIN new /\ new[i] = code[i]
    BY <1>10, <1>13
  <2>2. \A i : Has(code, i) => Has(new, i)
    BY <2>1 DEF Has
  <2>3. ASSUME NEW d, There(code, r, d), NEW i \in Cells(r, d)
        PROVE  i \in DOMAIN new /\ (new[i] = File(r)[i] \/ (late /\ Has(new, i)))
    <3>1. i \in DOMAIN code /\ (code[i] = File(r)[i] \/ (late /\ Has(code, i)))
      BY <2>3 DEF There
    <3> QED BY <2>1, <2>2, <3>1
  <2> QED BY <2>3 DEF There
<1>16. ASSUME taken = {}, NEW c \in 1..totalChunks(r)
       PROVE  \/ <<r, c>> \in retried
              \/ There(new, r, c)
              \/ <<r, c>> \in refused /\ (run > 1 \/ ~Fits(r, c))
  <2>1. Passed(r, c)
    BY <1>2, <1>7, <1>16 DEF DeployInv, Progress
  <2>2. There(code, r, c) => There(new, r, c)
    BY <1>15
  <2>3. <<r, c>> \in refused => run > 1 \/ ~Fits(r, c)
    <3>1. run = 1 => (<<1, c>> \in refused /\ Fits(1, c) => ~IsBuffer)
      BY <1>3, <1>16 DEF DeployInv, Refusal
    <3>2. run = 1 \/ run > 1
      BY <1>3
    <3> QED BY <1>3, <1>8, <3>1, <3>2
  <2> QED BY <1>9, <2>1, <2>2, <2>3 DEF Passed, Written
<1>17. ASSUME taken = {}
       PROVE  InstalledInv'
  <2>1. \A d : /\ totalChunks(r)' = totalChunks(r) /\ Fits(r, d)' = Fits(r, d)
               /\ There(new, r, d) => There(new, r, d)'
    BY <1>1, <1>3, FilesStay, ThereStays
  <2>2. r = deployed'
    BY <1>3
  <2>3. ASSUME NEW c \in 1..totalChunks(deployed)'
        PROVE  \/ (<<deployed, c>> \in retried)'
               \/ There(Installed, deployed, c)'
               \/ (<<deployed, c>> \in refused /\ (run > 1 \/ ~Fits(deployed, c)))'
    <3>1. c \in 1..totalChunks(r)'
      BY <2>2, <2>3
    <3>2. \/ <<r, c>> \in retried'
          \/ There(new, r, c)'
          \/ <<r, c>> \in refused' /\ (run' > 1 \/ ~Fits(r, c)')
      BY <1>1, <1>16, <1>17, <2>1, <3>1
    <3>3. There(new, r, c)' => There(Installed, deployed, c)'
      BY <1>14, <2>2
    <3> QED BY <2>2, <3>2, <3>3
  <2> QED BY <2>3 DEF InstalledInv
<1>18. Holdings(acct', taken)
  BY <1>10 DEF Holdings, Payer, Open, Final, Data
<1>19. taken = {} => Refusal'
  BY <1>12, RefusalStays
<1>20. deployed' \in Nat
  BY <1>3
<1> QED BY <1>10, <1>11, <1>12, <1>17, <1>18, <1>19, <1>20, LandRest

\* Whatever lands, it is one of these.
LEMMA LandStep ==
  ASSUME DeployInv, NEW id \in DOMAIN requests, Land(id)
  PROVE  DeployInv'
<1>1. requests[id].of.kind \in Kind
  BY FlightFields DEF DeployInv
<1> QED BY <1>1, FailedLand, CreateProgramLand, CreateBufferLand, InitBufferLand, WriteLand,
           FinalizeLand DEF Kind

-----------------------------------------------------------------------------
(* Another party acts                                                      *)

\* What the states the deployments write say.
LEMMA States ==
  /\ \A k : BufferState(k).tag = "Buffer" /\ BufferState(k).authority = k
  /\ \A d : ProgramState(d).tag = "Program" /\ ProgramState(d).programdata = d
  /\ \A k : /\ ProgramDataState(0, k).tag = "ProgramData"
            /\ ProgramDataState(0, k).authority = k /\ ProgramDataState(0, k).slot = 0
  /\ Uninitialized.tag = "Uninitialized"
BY DEF Uninitialized, BufferState, ProgramState, ProgramDataState

\* What is left to show of a step that only moves the accounts.
LEMMA OthersRest ==
  ASSUME DeployInv,
         UNCHANGED <<deployed, requests, builds, run, pc, chunk, retries, fate, history>>,
         acct' \in Accounts, taken \subseteq taken',
         taken' \subseteq {program, buffer, programdata},
         Holdings(acct', taken'), buffer \notin taken' => BufferShape',
         taken' = {} =>
           /\ ProgramShape' /\ InstalledInv'
           /\ Undeployed' => Undeployed
           /\ IsBuffer' => IsBuffer
           /\ \A r, c : Written(r, c) => Written(r, c)'
  PROVE  DeployInv'
<1>1. UNCHANGED <<builds, run, pc, chunk, retries, fate, retried, refused, late, deployed,
                  requests>>
  BY DEF history
<1>2. totalChunks(run)' = totalChunks(run) /\ run \in Nat /\ run' \in Nat /\ run <= run'
  BY <1>1, FilesStay, Numbers
<1>3. Grows
  BY <1>1, <1>2 DEF Grows, DeployInv, Shape
<1>4. Shape' /\ Loop' /\ Waiting'
  BY <1>1, <1>2 DEF DeployInv, Shape, Loop, Waiting, SentLast, Tx, Early
<1>5. Histories' /\ Flight'
  BY <1>1, <1>2, HistoriesStay, FlightStays DEF DeployInv
<1>6. InitOnce'
  BY <1>1 DEF DeployInv, InitOnce, Early
<1>7. ASSUME taken' = {}
      PROVE  ProgramShape' /\ InstalledInv' /\ Progress' /\ Refusal'
  <2>1. taken = {}
    BY <1>7
  <2>2. \A r, c : Passed(r, c) => Passed(r, c)'
    BY <1>1, <1>7 DEF Passed
  <2>3. Progress'
    BY <1>1, <1>2, <1>3, <1>7, <2>1, <2>2, ProgressKept
  <2>4. Refusal'
    BY <1>1, <1>2, <1>3, <1>7, <2>1, RefusalKept
  <2> QED BY <1>7, <2>3, <2>4
<1> QED BY <1>4, <1>5, <1>6, <1>7 DEF DeployInv

\* Its transactions leave the accounts they do not name, and the payer's.
LEMMA OthersLeft ==
  ASSUME DeployInv, NEW as \in Accounts, as[payer] = acct[payer], Others(as)
  PROVE  /\ UNCHANGED <<deployed, requests, builds, run, pc, chunk, retries, fate, history>>
         /\ Grows /\ run' \in Nat
         /\ acct' \in Accounts /\ Payer(acct')
         /\ \A a \in {program, buffer, programdata} :
              /\ as[a] = NoAccount \/ as[a].lamports > 0 => acct'[a] = as[a]
              /\ as[a].lamports = 0 => acct'[a] = NoAccount
<1>1. /\ UNCHANGED <<deployed, requests, builds, run, pc, chunk, retries, fate, history>>
      /\ acct' = [Purge(as) EXCEPT ![other] = NoAccount]
  BY DEF Others, script
<1>2. Purge(as) \in Accounts /\ NoAccount \in Account
  <2>1. 0 \in Nat
    OBVIOUS
  <2> QED BY <2>1, PurgeType, AllocatedType
<1>3. /\ acct' \in Accounts
      /\ \A a \in {payer, program, buffer, programdata} : acct'[a] = Purge(as)[a]
  BY <1>1, <1>2, Parties DEF Accounts
<1>4. Payer(acct')
  <2>1. as[payer].owner = "system" /\ ~as[payer].executable
    BY Settled
  <2> QED BY <1>3, <2>1, PayerStays DEF Payer
<1>5. Grows /\ run' \in Nat
  BY <1>1, Numbers DEF Grows, DeployInv, Shape, history
<1>6. ASSUME NEW a \in {program, buffer, programdata}
      PROVE  /\ as[a] = NoAccount \/ as[a].lamports > 0 => acct'[a] = as[a]
             /\ as[a].lamports = 0 => acct'[a] = NoAccount
  <2>1. a \in Address /\ acct'[a] = Purge(as)[a]
    BY <1>3, Parties
  <2> QED BY <2>1, Purged
<1> QED BY <1>1, <1>3, <1>4, <1>5, <1>6

\* An account it initialises is its own.
LEMMA OthersInitializeStep ==
  ASSUME DeployInv, NEW a \in {program, buffer}, OthersInitialize(a)
  PROVE  DeployInv'
<1> DEFINE new == SetState(acct[a], BufferState(other))
           as == [acct EXCEPT ![a] = new]
<1>1. /\ CanInitializeBuffer(acct, a) /\ Others(as) /\ taken' = taken \cup {a}
  BY DEF OthersInitialize, AfterInitializeBuffer
<1>2. /\ acct \in Accounts /\ a \in Address /\ acct[a] \in Account
      /\ \A x \in {program, buffer, programdata} :
           acct[x] = NoAccount \/ acct[x].lamports > 0
  BY Settled, Parties DEF Accounts
<1>3. /\ Funded(acct[a]) /\ ~acct[a].executable
  <2>1. acct[a].data # << >> /\ ~acct[a].executable
    BY <1>1 DEF CanInitializeBuffer, Holds, Changeable
  <2>2. acct[a] # NoAccount
    BY <2>1, EmptyAccount
  <2> QED BY <2>1, <2>2 DEF DeployInv, Holdings, Open, Final
<1>4. /\ new \in Account /\ Funded(new) /\ ~new.executable /\ new.state = BufferState(other)
  <2>1. BufferState(other) \in State
    BY StateType, Parties
  <2> QED BY <1>2, <1>3, <2>1, SetStateType DEF Funded
<1> HIDE DEF new
<1>5. /\ as \in Accounts /\ as[a] = new /\ as[payer] = acct[payer]
      /\ \A x \in {program, buffer, programdata} \ {a} : as[x] = acct[x]
  BY <1>2, <1>4, Parties DEF Accounts
<1> HIDE DEF as
<1>6. /\ UNCHANGED <<deployed, requests, builds, run, pc, chunk, retries, fate, history>>
      /\ Grows /\ run' \in Nat
      /\ acct' \in Accounts /\ Payer(acct')
      /\ \A x \in {program, buffer, programdata} :
           as[x] = NoAccount \/ as[x].lamports > 0 => acct'[x] = as[x]
  BY <1>1, <1>5, OthersLeft
<1>7. /\ acct'[a] = new
      /\ \A x \in {program, buffer, programdata} \ {a} : acct'[x] = acct[x]
  BY <1>2, <1>4, <1>5, <1>6 DEF Funded
<1>8. Holdings(acct', taken')
  <2>1. Open(acct', taken', a)
    BY <1>1, <1>4, <1>7 DEF Open
  <2>2. CASE a = buffer
    <3>1. acct'[program] = acct[program] /\ acct'[programdata] = acct[programdata]
      BY <1>7, <2>2, Parties
    <3> QED BY <1>1, <1>6, <2>1, <2>2, <3>1 DEF DeployInv, Holdings, Open, Final, Data
  <2>3. CASE a = program
    <3>1. acct'[buffer] = acct[buffer] /\ acct'[programdata] = acct[programdata]
      BY <1>7, <2>3, Parties
    <3>2. acct[programdata] = NoAccount
      BY <1>3, <2>3 DEF DeployInv, Holdings, Data, Final
    <3> QED BY <1>1, <1>6, <2>1, <2>3, <3>1, <3>2 DEF DeployInv, Holdings, Open, Data
  <2> QED BY <2>2, <2>3
<1>9. ASSUME buffer \notin taken'
      PROVE  BufferShape'
  <2>1. acct'[buffer] = acct[buffer] /\ buffer \notin taken
    BY <1>1, <1>7, <1>9
  <2> QED BY <1>6, <2>1, BufferStays DEF DeployInv
<1>10. taken' # {} /\ taken \subseteq taken' /\ taken' \subseteq {program, buffer, programdata}
  BY <1>1 DEF DeployInv, Shape
<1> QED BY <1>6, <1>8, <1>9, <1>10, OthersRest

\* What it may close is no one's, or its own; alone, the script loses no buffer to it.
LEMMA OthersCloseStep ==
  ASSUME DeployInv, NEW a \in {program, buffer, programdata}, OthersClose(a)
  PROVE  DeployInv'
<1> DEFINE as == AfterClose(acct, a, other)
<1>1. CanClose(acct, {other}, a, other, other, program) /\ Others(as) /\ taken' = taken
  BY DEF OthersClose
<1>2. /\ acct \in Accounts /\ a \in Address /\ other \in Address
      /\ \A x \in {program, buffer, programdata} :
           acct[x] = NoAccount \/ acct[x].lamports > 0
  BY Settled, Parties
<1>3. as \in Accounts /\ Closed(acct, as, a, other)
  BY <1>1, <1>2, CloseEffect
<1> HIDE DEF as
<1>4. /\ as[a].lamports = 0 /\ as[payer] = acct[payer]
      /\ \A x \in {program, buffer, programdata} \ {a} : as[x] = acct[x]
  BY <1>3, Parties DEF Closed
<1>5. /\ UNCHANGED <<deployed, requests, builds, run, pc, chunk, retries, fate, history>>
      /\ Grows /\ run' \in Nat
      /\ acct' \in Accounts /\ Payer(acct')
      /\ \A x \in {program, buffer, programdata} :
           /\ as[x] = NoAccount \/ as[x].lamports > 0 => acct'[x] = as[x]
           /\ as[x].lamports = 0 => acct'[x] = NoAccount
  BY <1>1, <1>3, <1>4, OthersLeft
<1>6. /\ acct'[a] = NoAccount
      /\ \A x \in {program, buffer, programdata} \ {a} : acct'[x] = acct[x]
  BY <1>2, <1>4, <1>5
<1>7. ~acct[a].executable
  BY <1>1 DEF CanClose, Changeable
<1>8. Holdings(acct', taken')
  <2>1. CASE a = buffer
    <3>1. acct'[program] = acct[program] /\ acct'[programdata] = acct[programdata]
      BY <1>6, <2>1, Parties
    <3> QED BY <1>1, <1>5, <1>6, <2>1, <3>1 DEF DeployInv, Holdings, Open, Final, Data
  <2>2. CASE a = program
    <3>1. acct'[buffer] = acct[buffer] /\ acct'[programdata] = acct[programdata]
      BY <1>6, <2>2, Parties
    <3>2. acct[programdata] = NoAccount
      BY <1>7, <2>2 DEF DeployInv, Holdings, Data, Final
    <3> QED BY <1>1, <1>5, <1>6, <2>2, <3>1, <3>2 DEF DeployInv, Holdings, Open, Data
  <2>3. CASE a = programdata
    <3>1. acct'[buffer] = acct[buffer] /\ acct'[program] = acct[program]
      BY <1>6, <2>3, Parties
    <3> QED BY <1>1, <1>5, <1>6, <2>3, <3>1 DEF DeployInv, Holdings, Open, Final, Data
  <2> QED BY <2>1, <2>2, <2>3
<1>9. ASSUME buffer \notin taken
      PROVE  BufferShape'
  <2>1. CASE a = buffer
    BY <1>6, <2>1 DEF BufferShape
  <2>2. CASE a # buffer
    BY <1>5, <1>6, <1>9, <2>2, BufferStays DEF DeployInv
  <2> QED BY <2>1, <2>2
<1>10. ASSUME taken = {}
       PROVE  /\ ProgramShape' /\ InstalledInv'
              /\ Undeployed' => Undeployed
              /\ IsBuffer' => IsBuffer
              /\ \A r, c : Written(r, c) => Written(r, c)'
  <2>1. Shape /\ BufferShape /\ ProgramShape /\ InstalledInv
    BY <1>10 DEF DeployInv
  <2>2. a # programdata /\ acct[a].state.tag # "Buffer"
    <3>1. acct[a].state.authority # other \/ acct[a].state.tag = "Uninitialized"
      <4>1. CASE a = programdata
        <5>1. Data(acct, taken)
          BY DEF DeployInv, Holdings
        <5> QED BY <1>10, <4>1, <5>1, Parties, States, EmptyAccount DEF Data
      <4>2. CASE a # programdata
        <5>1. Open(acct, taken, a)
          BY <1>7, <4>2 DEF DeployInv, Holdings, Final
        <5> QED BY <1>10, <5>1, Parties, States, EmptyAccount DEF Open
      <4> QED BY <4>1, <4>2
    <3>2. Holds(acct[a], "Uninitialized")
      BY <1>1, <3>1 DEF CanClose, Holds, Authorised
    <3>3. a = programdata => acct[a].state.tag # "Uninitialized" \/ acct[a].data = << >>
      BY States, EmptyAccount DEF DeployInv, Holdings, Data
    <3> QED BY <3>2, <3>3 DEF Holds
  <2>3. CASE a = buffer
    <3>1. acct'[program] = acct[program] /\ acct'[programdata] = acct[programdata]
      BY <1>6, <2>3, Parties
    <3>2. ProgramShape' /\ InstalledInv' /\ (Undeployed' <=> Undeployed)
      BY <1>5, <2>1, <3>1, ProgramStays
    <3>3. ~IsBuffer /\ ~IsBuffer'
      BY <1>6, <2>2, <2>3, EmptyAccount DEF IsBuffer
    <3> QED BY <3>2, <3>3 DEF Written
  <2>4. CASE a = program
    <3>1. acct'[buffer] = acct[buffer] /\ acct'[programdata] = acct[programdata]
      BY <1>6, <2>4, Parties
    <3>2. (IsBuffer' <=> IsBuffer) /\ \A r, c : Written(r, c) => Written(r, c)'
      BY <1>5, <2>1, <3>1, BufferStays
    <3>3. Undeployed /\ ~Live'
      BY <1>6, <1>7, <2>1, <2>4, EmptyAccount DEF ProgramShape, Live
    <3>4. Undeployed'
      BY <1>6, <2>4, <3>1, <3>3 DEF Undeployed
    <3> QED BY <3>2, <3>3, <3>4 DEF ProgramShape, InstalledInv
  <2> QED BY <2>2, <2>3, <2>4
<1>11. taken \subseteq taken' /\ taken' \subseteq {program, buffer, programdata}
  BY <1>1 DEF DeployInv, Shape
<1> QED BY <1>1, <1>3, <1>5, <1>8, <1>9, <1>10, <1>11, OthersRest

\* What it hands over is its own.
LEMMA OthersSetAuthorityStep ==
  ASSUME DeployInv, NEW a \in {program, buffer, programdata}, OthersSetAuthority(a)
  PROVE  DeployInv'
<1> DEFINE as == AfterSetAuthority(acct, a, payer)
<1>1. CanSetAuthority(acct, {other}, a, other, payer) /\ Others(as) /\ taken' = taken
  BY DEF OthersSetAuthority
<1>2. /\ acct \in Accounts /\ a \in Address /\ acct[a] \in Account /\ payer \in Key \cup {None}
      /\ \A x \in {program, buffer, programdata} :
           acct[x] = NoAccount \/ acct[x].lamports > 0
  BY Settled, Parties DEF Accounts
<1>3. /\ as \in Accounts
      /\ as[a].state = IF acct[a].state.tag = "Buffer" THEN BufferState(payer)
                       ELSE ProgramDataState(acct[a].state.slot, payer)
      /\ as[a].lamports = acct[a].lamports /\ as[a].owner = acct[a].owner
      /\ as[a].executable = acct[a].executable
      /\ \A x \in Address \ {a} : as[x] = acct[x]
  BY <1>2, SetAuthorityEffect
<1>4. /\ acct[a].data # << >> /\ ~acct[a].executable /\ acct[a].state.authority = other
      /\ acct[a].state.tag \in {"Buffer", "ProgramData"}
  BY <1>1 DEF CanSetAuthority, Holds, Authorised, Changeable
<1>5. acct[a] # NoAccount
  BY <1>4, EmptyAccount
<1>6. /\ Funded(acct[a]) /\ a \in taken
      /\ acct[a].state = IF a = programdata THEN ProgramDataState(0, other)
                         ELSE BufferState(other)
  <2>1. CASE a \in {program, buffer}
    <3>1. Open(acct, taken, a)
      BY <1>4, <2>1 DEF DeployInv, Holdings, Final
    <3> QED BY <1>4, <1>5, <2>1, <3>1, Parties, States DEF Open
  <2>2. CASE a = programdata
    <3>1. Data(acct, taken)
      BY DEF DeployInv, Holdings
    <3> QED BY <1>4, <1>5, <2>2, <3>1, Parties, States DEF Data
  <2> QED BY <2>1, <2>2
<1>7. as[a].state = IF a = programdata THEN ProgramDataState(0, payer) ELSE BufferState(payer)
  BY <1>3, <1>6, States
<1>8. Len(as[a].data) = Len(acct[a].data)
  <2> DEFINE s == IF acct[a].state.tag = "Buffer" THEN BufferState(payer)
                  ELSE ProgramDataState(acct[a].state.slot, payer)
  <2>1. s \in State
    BY <1>2, AccountFields, StateType
  <2>2. as[a] = SetState(acct[a], s)
    BY <1>2 DEF AfterSetAuthority, Accounts
  <2> HIDE DEF s, as
  <2> QED BY <1>2, <2>1, <2>2, SetStateType
<1> HIDE DEF as
<1>9. Funded(as[a]) /\ ~as[a].executable
  BY <1>3, <1>4, <1>6, <1>8 DEF Funded
<1>10. /\ UNCHANGED <<deployed, requests, builds, run, pc, chunk, retries, fate, history>>
       /\ Grows /\ run' \in Nat
       /\ acct' \in Accounts /\ Payer(acct')
       /\ \A x \in {program, buffer, programdata} :
            as[x] = NoAccount \/ as[x].lamports > 0 => acct'[x] = as[x]
  <2>1. as[payer] = acct[payer]
    BY <1>3, Parties
  <2> QED BY <1>1, <1>3, <2>1, OthersLeft
<1>11. /\ acct'[a] = as[a]
       /\ \A x \in {program, buffer, programdata} \ {a} : acct'[x] = acct[x]
  BY <1>2, <1>3, <1>9, <1>10, Parties DEF Funded
<1>12. Holdings(acct', taken')
  <2>1. CASE a = buffer
    <3>1. acct'[program] = acct[program] /\ acct'[programdata] = acct[programdata]
      BY <1>11, <2>1, Parties
    <3>2. Open(acct', taken', buffer)
      BY <1>7, <1>9, <1>11, <2>1, Parties DEF Open
    <3> QED BY <1>1, <1>10, <3>1, <3>2 DEF DeployInv, Holdings, Open, Final, Data
  <2>2. CASE a = program
    <3>1. acct'[buffer] = acct[buffer] /\ acct'[programdata] = acct[programdata]
      BY <1>11, <2>2, Parties
    <3>2. Open(acct', taken', program)
      BY <1>7, <1>9, <1>11, <2>2, Parties DEF Open
    <3>3. acct[programdata] = NoAccount
      BY <1>4, <2>2 DEF DeployInv, Holdings, Data, Final
    <3> QED BY <1>1, <1>10, <3>1, <3>2, <3>3 DEF DeployInv, Holdings, Open, Data
  <2>3. CASE a = programdata
    <3>1. acct'[buffer] = acct[buffer] /\ acct'[program] = acct[program]
      BY <1>11, <2>3, Parties
    <3>2. Data(acct', taken')
      BY <1>5, <1>7, <1>9, <1>11, <2>3, <3>1 DEF DeployInv, Holdings, Data, Final
    <3> QED BY <1>1, <1>10, <3>1, <3>2 DEF DeployInv, Holdings, Open, Final
  <2> QED BY <2>1, <2>2, <2>3
<1>13. ASSUME buffer \notin taken'
       PROVE  BufferShape'
  <2>1. acct'[buffer] = acct[buffer] /\ buffer \notin taken
    BY <1>1, <1>6, <1>11, <1>13
  <2> QED BY <1>10, <2>1, BufferStays DEF DeployInv
<1>14. taken' # {} /\ taken \subseteq taken' /\ taken' \subseteq {program, buffer, programdata}
  BY <1>1, <1>6 DEF DeployInv, Shape
<1> QED BY <1>10, <1>12, <1>13, <1>14, OthersRest

\* The programdata of its deployment is its own.
LEMMA OthersProgramDataShape ==
  /\ OthersProgramData \in Account /\ Funded(OthersProgramData)
  /\ ~OthersProgramData.executable
  /\ OthersProgramData.state = ProgramDataState(0, other)
<1> DEFINE n == ProgramDataMeta + 1
           cost == ProgramDataCost(1)
           fresh == Allocated(cost, n)
<1>1. n \in Nat \ {0} /\ cost \in Nat \ {0}
  BY Sizes, RentType DEF ProgramDataCost
<1>2. ProgramDataState(0, other) \in State
  BY StateType, Parties
<1>3. OthersProgramData = SetState(fresh, ProgramDataState(0, other))
  BY DEF OthersProgramData
<1> HIDE DEF n, cost
<1>4. /\ fresh \in Account /\ Len(fresh.data) = n
      /\ Funded(fresh) /\ ~fresh.executable
  BY <1>1, AllocatedType, AllocatedShape
<1> HIDE DEF fresh
<1> QED BY <1>1, <1>2, <1>3, <1>4, SetStateType DEF Funded

\* The program it deploys is for good.
LEMMA OthersDeployStep ==
  ASSUME DeployInv, OthersDeploy
  PROVE  DeployInv'
<1> DEFINE set == SetState(acct[program], ProgramState(programdata))
           new == [set EXCEPT !.executable = TRUE]
           as == [acct EXCEPT ![programdata] = OthersProgramData, ![program] = new]
<1>1. /\ ProgramReady(acct[program]) /\ Others(as)
      /\ taken' = taken \cup {program, programdata}
  BY Parties DEF OthersDeploy
<1>2. /\ acct \in Accounts /\ acct[program] \in Account
      /\ \A x \in {program, buffer, programdata} :
           acct[x] = NoAccount \/ acct[x].lamports > 0
  BY Settled, Parties DEF Accounts
<1>3. Funded(acct[program])
  <2>1. acct[program].data # << >>
    BY <1>1 DEF ProgramReady, Holds
  <2>2. acct[program] # NoAccount
    BY <2>1, EmptyAccount
  <2> QED BY <2>2 DEF DeployInv, Holdings, Open, Final
<1>4. /\ set \in Account /\ Funded(set) /\ set.state = ProgramState(programdata)
  <2>1. ProgramState(programdata) \in State
    BY StateType, Parties
  <2> QED BY <1>2, <1>3, <2>1, SetStateType DEF Funded
<1> HIDE DEF set
<1>5. /\ new \in Account /\ Funded(new) /\ new.executable
      /\ new.state = ProgramState(programdata)
  BY <1>4 DEF Account, Funded
<1> HIDE DEF new
<1>6. /\ as \in Accounts /\ as[program] = new /\ as[programdata] = OthersProgramData
      /\ as[buffer] = acct[buffer] /\ as[payer] = acct[payer]
  BY <1>2, <1>5, OthersProgramDataShape, Parties DEF Accounts
<1> HIDE DEF as
<1>7. /\ UNCHANGED <<deployed, requests, builds, run, pc, chunk, retries, fate, history>>
      /\ Grows /\ run' \in Nat
      /\ acct' \in Accounts /\ Payer(acct')
      /\ \A x \in {program, buffer, programdata} :
           as[x] = NoAccount \/ as[x].lamports > 0 => acct'[x] = as[x]
  BY <1>1, <1>6, OthersLeft
<1>8. /\ acct'[program] = new /\ acct'[programdata] = OthersProgramData
      /\ acct'[buffer] = acct[buffer]
  BY <1>2, <1>5, <1>6, <1>7, OthersProgramDataShape DEF Funded
<1>9. Holdings(acct', taken')
  <2>1. Final(acct')
    BY <1>5, <1>8 DEF Final
  <2>2. Data(acct', taken')
    BY <1>1, <1>8, <2>1, OthersProgramDataShape DEF Data
  <2>3. Open(acct', taken', buffer)
    BY <1>1, <1>8 DEF DeployInv, Holdings, Open
  <2> QED BY <1>7, <2>1, <2>2, <2>3 DEF Holdings
<1>10. ASSUME buffer \notin taken'
       PROVE  BufferShape'
  BY <1>1, <1>7, <1>8, <1>10, BufferStays DEF DeployInv
<1>11. taken' # {} /\ taken \subseteq taken' /\ taken' \subseteq {program, buffer, programdata}
  BY <1>1 DEF DeployInv, Shape
<1> QED BY <1>7, <1>9, <1>10, <1>11, OthersRest

\* Whatever it does, it is one of these.
LEMMA OtherPartyStep ==
  ASSUME DeployInv, OtherParty
  PROVE  DeployInv'
BY OthersInitializeStep, OthersCloseStep, OthersSetAuthorityStep, OthersDeployStep
   DEF OtherParty

-----------------------------------------------------------------------------
(* The invariant holds                                                     *)

\* Before the first run there is the payer, and nothing was sent.
LEMMA DeployInit == Init => DeployInv
<1> SUFFICES ASSUME Init PROVE DeployInv
  OBVIOUS
<1>1. /\ builds \in Rebuilds /\ run = 1 /\ requests = << >> /\ pc = "setup" /\ chunk = 1
      /\ retries = 0 /\ fate = None /\ retried = {} /\ refused = {} /\ late = FALSE
      /\ deployed = 0 /\ taken = {}
      /\ acct = [a \in Address |->
                   IF a = payer THEN [NoAccount EXCEPT !.lamports = Purse] ELSE NoAccount]
  BY DEF Init
<1>2. /\ acct[buffer] = NoAccount /\ acct[program] = NoAccount
      /\ acct[programdata] = NoAccount
      /\ acct[payer] = [NoAccount EXCEPT !.lamports = Purse]
  BY <1>1, Parties
<1>3. run \in DOMAIN builds
  <2>1. builds # << >> /\ \E S : builds \in Seq(S)
    BY <1>1, DeployAssumption
  <2>2. DOMAIN builds = 1..Len(builds) /\ Len(builds) \in Nat /\ Len(builds) # 0
    BY <2>1, LenProperties, EmptySeq
  <2> QED BY <1>1, <2>2
<1>4. acct \in Accounts
  <2>1. Purse \in Nat
    BY DeployAssumption
  <2>2. NoAccount \in Account
    BY <2>1, AllocatedType
  <2>3. [NoAccount EXCEPT !.lamports = Purse] \in Account
    BY <2>1, <2>2 DEF Account
  <2> DEFINE e == [NoAccount EXCEPT !.lamports = Purse]
  <2> HIDE DEF e
  <2>4. acct = [a \in Address |-> IF a = payer THEN e ELSE NoAccount]
    BY <1>1 DEF e
  <2>5. e \in Account
    BY <2>3 DEF e
  <2> QED BY <2>2, <2>4, <2>5 DEF Accounts
<1>5. Shape
  <2>1. requests \in Seq(InFlight)
    BY <1>1, EmptySeq
  <2>2. /\ builds \in Rebuilds /\ pc \in Label /\ chunk \in Nat \ {0} /\ retries \in Nat
        /\ fate \in {None, "ok", "failed"} /\ deployed \in Nat
    BY <1>1 DEF Label
  <2>3. late \in BOOLEAN
    BY <1>1
  <2>4. taken \subseteq {program, buffer, programdata}
    BY <1>1
  <2> QED BY <1>3, <1>4, <2>1, <2>2, <2>3, <2>4 DEF Shape
<1>6. Loop
  <2>1. totalChunks(run) \in Nat /\ maxRetries \in Nat
    BY <1>3, <1>5, Chunks, DeployAssumption
  <2> QED BY <1>1, <2>1 DEF Loop
<1>7. Histories /\ Flight /\ Waiting
  BY <1>1 DEF Histories, Flight, Waiting
<1>8. Holdings(acct, taken)
  BY <1>2 DEF Holdings, Payer, Open, Data, NoAccount
<1>9. BufferShape /\ ProgramShape /\ Undeployed /\ ~Live
  <2>1. ~NoAccount.executable
    BY DEF NoAccount
  <2> QED BY <1>2, <2>1 DEF BufferShape, ProgramShape, Undeployed, Live
<1>10. Progress /\ InitOnce /\ Refusal
  <2>1. \A c \in 1..chunk - 1 : FALSE
    BY <1>1
  <2> QED BY <1>1, <2>1 DEF Progress, InitOnce, Refusal
<1>11. InstalledInv
  BY <1>9 DEF InstalledInv
<1> QED BY <1>5, <1>6, <1>7, <1>8, <1>9, <1>10, <1>11 DEF DeployInv

\* A step that changes nothing.
LEMMA Stutter ==
  ASSUME DeployInv, UNCHANGED vars
  PROVE  DeployInv'
<1>1. UNCHANGED <<builds, run, acct, pc, chunk, retries, fate, history, deployed, taken,
                  requests, chain>>
  BY DEF vars, script, chain
<1>2. Grows /\ run' \in Nat /\ Shape
  BY <1>1, Numbers DEF Grows, DeployInv, Shape, history
<1>3. acct' \in Accounts /\ taken' \subseteq {program, buffer, programdata}
  BY <1>1, <1>2 DEF Shape
<1>4. Holdings(acct', taken') /\ (buffer \notin taken => BufferShape')
  BY <1>1, <1>2, ChainStays
<1>5. ASSUME taken = {}
      PROVE  /\ ProgramShape' /\ InstalledInv'
             /\ (Undeployed' <=> Undeployed) /\ (IsBuffer' <=> IsBuffer)
             /\ \A r, c : Written(r, c) => Written(r, c)'
  BY <1>1, <1>2, <1>5, AloneStays
<1> QED BY <1>1, <1>3, <1>4, <1>5, OthersRest

\* Every step keeps the invariant.
LEMMA DeployNext == DeployInv /\ [Next]_vars => DeployInv'
<1> SUFFICES ASSUME DeployInv, [Next]_vars PROVE DeployInv'
  OBVIOUS
<1>1. CASE Script \/ PollFails
  BY <1>1, SetupStep, CreateProgramStep, CreateBufferStep, InitializeBufferStep, AwaitInitStep,
     WriteStep, AwaitWriteStep, RetryStep, FinalizeStep DEF Script
<1>2. CASE Fail
  BY <1>2, FailStep
<1>3. CASE Rerun
  BY <1>3, RerunStep
<1>4. CASE Chain
  BY <1>4, LandStep DEF Chain
<1>5. CASE \E id \in DOMAIN requests : DecideForgetful(id) /\ UNCHANGED <<chain, script>>
  BY <1>5, DecideStep
<1>6. CASE OtherParty
  BY <1>6, OtherPartyStep
<1>7. CASE UNCHANGED vars
  BY <1>7, Stutter
<1> QED BY <1>1, <1>2, <1>3, <1>4, <1>5, <1>6, <1>7 DEF Next

\* The invariant holds of every behaviour.
LEMMA DeployHolds == Spec => []DeployInv
<1>1. Init => DeployInv
  BY DeployInit
<1>2. DeployInv /\ [Next]_vars => DeployInv'
  BY DeployNext
<1> QED BY <1>1, <1>2, PTL DEF Spec


-----------------------------------------------------------------------------
(* The theorems                                                            *)

\* For every history of runs: accounts and requests stay well formed, the script's
\* counters stay in their ranges, and what it remembers are chunks of runs so far.
THEOREM DeployTypeCorrect == Spec => []TypeOK
<1>1. ASSUME DeployInv PROVE TypeOK
  <2>1. /\ Shape /\ totalChunks(run) \in Nat /\ chunk \in Nat \ {0} /\ retries \in Nat
        /\ maxRetries \in Nat \ {0} /\ Loop
    BY <1>1, Numbers DEF DeployInv
  <2>2. acct \in [Address -> Account] /\ fate \in {None, "ok", "failed"} /\ run \in DOMAIN builds
    BY <2>1 DEF Shape, Accounts
  <2>3. \A id \in DOMAIN requests : requests[id].fate \in Fate
    BY <2>1, FlightFields DEF Fate
  <2>4. chunk \in 1..totalChunks(run) + 1 /\ retries \in 0..maxRetries
    BY <2>1 DEF Loop
  <2>5. retried \cup refused \subseteq UNION {{r} \X (1..totalChunks(r)) : r \in 1..run}
    BY <1>1 DEF DeployInv, Histories
  <2>6. taken \subseteq {program, buffer, programdata}
    BY <2>1 DEF Shape
  <2> QED BY <2>2, <2>3, <2>4, <2>5, <2>6 DEF TypeOK
<1> QED BY <1>1, DeployHolds, PTL

\* For every order in which the writes of any number of runs land: what a buffer that
\* no other party initialised holds are zeros, and cells of the files at their places.
THEOREM BufferKeepsFiles == Spec => []BufferIntact
<1>1. ASSUME DeployInv, buffer \notin taken, acct[buffer].state.tag = "Buffer",
             NEW i \in DOMAIN BufferContent(acct[buffer])
      PROVE  \/ BufferContent(acct[buffer])[i] = Zero
             \/ Has(BufferContent(acct[buffer]), i)
  <2>1. acct[buffer] = NoAccount \/ Fresh(acct[buffer]) \/ Filled(acct[buffer])
    BY <1>1 DEF DeployInv, BufferShape
  <2>2. acct[buffer].state # Uninitialized
    BY <1>1, EmptyAccount
  <2>3. Filled(acct[buffer])
    BY <2>1, <2>2, EmptyAccount DEF Fresh
  <2>4. acct[buffer] \in Account
    BY <1>1, Parties DEF DeployInv, Shape, Accounts
  <2>5. DOMAIN BufferContent(acct[buffer]) = 1 .. Len(acct[buffer].data) - BufferMeta
    BY <2>3, <2>4, BufferCells DEF Filled
  <2> QED BY <1>1, <2>3, <2>5 DEF Filled
<1>2. DeployInv => BufferIntact
  BY <1>1 DEF BufferIntact
<1> QED BY <1>2, DeployHolds, PTL


\* A chunk that is there has each cell of the program deployed, or one of another run.
LEMMA CellsThere ==
  ASSUME Shape, Live, NEW content, NEW c \in 1..totalChunks(deployed),
         There(content, deployed, c), NEW i \in Cells(deployed, c)
  PROVE  /\ content[i] = File(deployed)[i] \/ (late /\ Has(content, i))
         /\ Has(content, i)
<1>1. deployed \in 1..run /\ deployed \in DOMAIN builds
  BY RunType DEF Live
<1>2. i \in DOMAIN content /\ (content[i] = File(deployed)[i] \/ (late /\ Has(content, i)))
  BY DEF There
<1>3. i \in DOMAIN File(deployed)
  BY <1>1, SliceCells
<1> QED BY <1>1, <1>2, <1>3 DEF Has

\* An executable program is a deployed one.
LEMMA OnceLive ==
  ASSUME DeployInv, taken = {}, acct[program].executable
  PROVE  Shape /\ Live
<1>1. ~Undeployed
  BY EmptyAccount DEF Undeployed
<1> QED BY <1>1 DEF DeployInv, ProgramShape

\* For every number of retries and runs: a program that is executable has all the cells
\* of a chunk the retry loop did not resend, unless the write of that chunk was refused
\* after another run, or because the chunk does not fit the buffer.
THEOREM HolesExplained == Spec => []HoleOnlyByRetry
<1>1. ASSUME DeployInv, acct[program].executable, taken = {},
             NEW c \in 1..totalChunks(deployed),
             <<deployed, c>> \notin retried,
             ~(<<deployed, c>> \in refused /\ (run > 1 \/ ~Fits(deployed, c))),
             NEW i \in Offset(c) + 1 .. Offset(c) + Len(Slice(deployed, c))
      PROVE  Has(Installed, i)
  <2>1. Shape /\ Live
    BY <1>1, OnceLive DEF DeployInv
  <2>2. There(Installed, deployed, c)
    BY <1>1, <2>1 DEF DeployInv, InstalledInv
  <2> QED BY <2>1, <2>2, CellsThere DEF Cells
<1>2. DeployInv => HoleOnlyByRetry
  BY <1>1 DEF HoleOnlyByRetry
<1> QED BY <1>2, DeployHolds, PTL

\* For every number of runs: the chunks of an executable program that were neither
\* resent nor refused are those of the run that deployed it, but for cells of another
\* run, if one began while transactions were still undecided.
THEOREM MixturesExplained == Spec => []MixedOnlyByLate
<1>1. ASSUME DeployInv, acct[program].executable, taken = {},
             NEW c \in 1..totalChunks(deployed),
             <<deployed, c>> \notin retried \cup refused,
             NEW i \in Offset(c) + 1 .. Offset(c) + Len(Slice(deployed, c))
      PROVE  Installed[i] = File(deployed)[i] \/ (late /\ Has(Installed, i))
  <2>1. Shape /\ Live
    BY <1>1, OnceLive DEF DeployInv
  <2>2. There(Installed, deployed, c)
    BY <1>1, <2>1 DEF DeployInv, InstalledInv
  <2> QED BY <2>1, <2>2, CellsThere DEF Cells
<1>2. DeployInv => MixedOnlyByLate
  BY <1>1 DEF MixedOnlyByLate
<1> QED BY <1>2, DeployHolds, PTL

\* For every history of runs, stopped anywhere, and whatever another party does: the
\* payer's signature is all it takes to close each account the deployments left without
\* finishing, but for those the other party initialised, or deployed, itself.
THEOREM NothingLost == Spec => []Recoverable
<1>1. ASSUME DeployInv, NEW a \in {program, buffer, programdata},
             acct[a].lamports > 0, ~acct[a].executable, ~Lost(a)
      PROVE  CanClose(acct, {payer}, a, payer, payer, program)
  <2>1. /\ a # payer /\ ~acct[payer].executable /\ payer # None /\ other # payer
        /\ Holdings(acct, taken)
    <3>1. Holdings(acct, taken)
      BY <1>1 DEF DeployInv
    <3> QED BY <3>1, Parties DEF Holdings, Payer
  <2>2. acct[a] # NoAccount
    <3>1. 0 > 0 <=> FALSE
      OBVIOUS
    <3> QED BY <1>1, <3>1, EmptyAccount
  <2>3. Funded(acct[a]) => Changeable(acct[a]) /\ acct[a].data # << >>
    <3>1. \A s : Len(s) > 0 => s # << >>
      OBVIOUS
    <3> QED BY <1>1, <3>1 DEF Funded, Changeable
  <2>4. CASE a \in {program, buffer}
    <3>1. Open(acct, taken, a)
      BY <1>1, <2>1, <2>4 DEF Holdings, Final
    <3>2. Funded(acct[a]) /\ (acct[a].state = Uninitialized \/ acct[a].state = BufferState(payer))
      <4>1. acct[a].state = BufferState(other) => a \notin taken
        BY <1>1, <2>1, States DEF Lost
      <4> QED BY <2>2, <3>1, <4>1, <2>1, States DEF Open
    <3> QED BY <2>1, <2>3, <3>2, States DEF CanClose, Holds, Authorised
  <2>5. CASE a = programdata
    <3>1. /\ Final(acct) /\ Funded(acct[a])
          /\ acct[a].state = ProgramDataState(0, payer)
      <4>1. acct[a].state = ProgramDataState(0, other) => a \notin taken
        BY <1>1, <2>1, States DEF Lost
      <4> QED BY <2>1, <2>2, <2>5, <4>1 DEF Holdings, Data
    <3>2. LinksTo(acct[program], a)
      <4>1. \A s : Len(s) > 0 => s # << >>
        OBVIOUS
      <4> QED BY <2>5, <3>1, <4>1, States DEF Final, LinksTo, Holds, Funded
    <3> QED BY <2>1, <2>3, <3>1, <3>2, States DEF CanClose, Holds, Authorised
  <2> QED BY <2>4, <2>5
<1>2. DeployInv => Recoverable
  BY <1>1 DEF Recoverable
<1> QED BY <1>2, DeployHolds, PTL
=============================================================================
