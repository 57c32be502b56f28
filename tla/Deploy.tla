------------------------------- MODULE Deploy -------------------------------
(***************************************************************************)
(* scripts/deployment/deploy.ts: runs of deployProgram against the         *)
(* upgradeable loader.  The script submits a transaction at a time through *)
(* the Fireblocks adapter; they land later, in any order, and take effect  *)
(* or fail; the script waits for some of them.  It may be stopped and      *)
(* started again, with the program built anew: the keys of the accounts    *)
(* come from files, so the next run meets what the last one left.  And an  *)
(* account it created in one transaction to use it in a later one may be   *)
(* initialised, deployed at or closed by another party in between.         *)
(***************************************************************************)
EXTENDS LoaderInstructions, Requests

CONSTANTS
  payer, program, buffer, programdata,  \* the accounts of a deployment
  other,       \* another party: its key, and its account
  Rebuilds,    \* for each history: what each run deploys, the compiled program and
               \* the size of the buffer account and max_data_len
  chunkSize,   \* bytes of a Write
  PROGRAM_ACCOUNT_SPACE,
  maxRetries,
  Purse,       \* what the payer has
  MaxLate,     \* for each history, a bound on the transactions a run leaves to the next
               \* one undecided
  Contested    \* bound: the histories another party takes part in

ASSUME DeployAssumption ==
  /\ {payer, program, buffer, programdata} \subseteq Address
  /\ program \in Program /\ Pda[program] = programdata
  /\ buffer \notin {program, programdata} /\ payer \notin {program, buffer, programdata}
  /\ other \in Address \ {payer, program, buffer, programdata}
  /\ None \notin {"ok", "failed"}
  /\ \A versions \in Rebuilds :
       /\ versions \in Seq([file : Seq(Byte), bufferSize : Nat \ {0}]) /\ versions # << >>
  /\ {chunkSize, PROGRAM_ACCOUNT_SPACE, maxRetries} \subseteq Nat \ {0}
  /\ Purse \in Nat /\ MaxLate \in [Rebuilds -> Nat] /\ Contested \subseteq Rebuilds

VARIABLES
  builds,    \* what each run deploys
  run,       \* the run
  acct,      \* the accounts on the chain
  pc,        \* where the script is
  chunk,     \* the chunk it writes
  retries,   \* failed attempts of the retry loop
  fate,      \* what became of the transaction it waits for
  retried,   \* history: chunks that went through the retry loop, by run
  refused,   \* history: chunks whose write it waited for, and was refused, by run
  late,      \* history: a run began with transactions of another still in flight
  deployed,  \* history: the run whose deployment took effect, or 0
  taken      \* history: the accounts another party initialised, or deployed

history == <<retried, refused, late>>
script == <<builds, run, pc, chunk, retries, fate, history>>
chain == <<acct, deployed, taken>>
vars == <<chain, requests, script>>

File(r) == builds[r].file
bufferSize(r) == builds[r].bufferSize

totalChunks(r) == (Len(File(r)) + chunkSize - 1) \div chunkSize

Offset(i) == (i - 1) * chunkSize

SliceShifted(r, i) ==
  SubSeq(File(r), Offset(i) + 2,
         IF i = totalChunks(r) THEN Len(File(r)) ELSE Offset(i) + chunkSize + 1)

Slice(r, i) ==
  SubSeq(File(r), Offset(i) + 1,
         IF i = totalChunks(r) THEN Len(File(r)) ELSE Offset(i) + chunkSize)

Init ==
  /\ acct = [a \in Address |->
               IF a = payer THEN [NoAccount EXCEPT !.lamports = Purse] ELSE NoAccount]
  /\ builds \in Rebuilds /\ run = 1 /\ requests = << >>
  /\ pc = "setup" /\ chunk = 1 /\ retries = 0
  /\ fate = None /\ retried = {} /\ refused = {} /\ late = FALSE /\ deployed = 0
  /\ taken = {}

-----------------------------------------------------------------------------
(* Transactions on the chain                                               *)

\* The key InitializeBuffer is given as the buffer's authority.
programAsAuthority == program

bufferAuthority == payer

Tx(kind, i) == [kind |-> kind, chunk |-> i, run |-> run]

Succeeds(tx) ==
  CASE tx.kind = "createProgram" ->
         CanCreateAccount(acct, {payer, program}, payer, program,
                          Rent(PROGRAM_ACCOUNT_SPACE))
    [] tx.kind = "createBuffer" ->
         CanCreateAccount(acct, {payer, buffer}, payer, buffer, Rent(bufferSize(tx.run)))
    [] tx.kind = "initBuffer" -> CanInitializeBuffer(acct, buffer)
    [] tx.kind = "write" ->
         CanWrite(acct, {payer}, buffer, payer, Offset(tx.chunk), Slice(tx.run, tx.chunk))
    [] tx.kind = "finalize" ->
         CanDeploy(acct, {payer}, payer, programdata, program, buffer, payer,
                   bufferSize(tx.run))

Effect(tx) ==
  CASE tx.kind = "createProgram" ->
         AfterCreateAccount(acct, payer, program, Rent(PROGRAM_ACCOUNT_SPACE),
                            PROGRAM_ACCOUNT_SPACE)
    [] tx.kind = "createBuffer" ->
         AfterCreateAccount(acct, payer, buffer, Rent(bufferSize(tx.run)), bufferSize(tx.run))
    [] tx.kind = "initBuffer" -> AfterInitializeBuffer(acct, buffer, bufferAuthority)
    [] tx.kind = "write" ->
         AfterWrite(acct, buffer, Offset(tx.chunk), Slice(tx.run, tx.chunk))
    [] tx.kind = "finalize" ->
         AfterDeploy(acct, payer, programdata, program, buffer, payer,
                     bufferSize(tx.run), 0)

\* The script waits for the transaction it sent last, and asks for no other again:
\* what is executed, or never will be, is forgotten.
AwaitedAny(id) == pc \in {"awaitInit", "awaitWrite"} /\ fate = None

Awaited(id) == pc \in {"awaitInit", "awaitWrite"} /\ fate = None /\ id = Len(requests)

Land(id) ==
  LET tx == requests[id].of
  IN /\ ExecutedForgetful(id)
     /\ acct' = IF Succeeds(tx) THEN Purge(Effect(tx)) ELSE acct
     /\ deployed' = IF Succeeds(tx) /\ tx.kind = "finalize" THEN tx.run ELSE deployed
     /\ fate' = IF ~Awaited(id) THEN fate ELSE IF Succeeds(tx) THEN "ok" ELSE "failed"
     /\ UNCHANGED <<builds, run, pc, chunk, retries, history, taken>>

-----------------------------------------------------------------------------
(* Another party, in transactions of its own that land at any time.  What   *)
(* it is refunded it spends elsewhere, and what it pays comes from there.   *)

Others(as) ==
  /\ acct' = [Purge(as) EXCEPT ![other] = NoAccount]
  /\ UNCHANGED <<deployed, requests, script>>

\* InitializeBuffer asks for no signature.
OthersInitialize(a) ==
  /\ CanInitializeBuffer(acct, a)
  /\ Others(AfterInitializeBuffer(acct, a, other))
  /\ taken' = taken \cup {a}

\* Nor does Close of an account that was not initialised.
OthersClose(a) ==
  /\ CanClose(acct, {other}, a, other, other, program)
  /\ Others(AfterClose(acct, a, other))
  /\ UNCHANGED taken

\* It hands an account over.
OthersSetAuthority(a) ==
  /\ CanSetAuthority(acct, {other}, a, other, payer)
  /\ Others(AfterSetAuthority(acct, a, payer))
  /\ UNCHANGED taken

\* DeployWithMaxDataLen asks for no signature of the program account.  (It takes a
\* buffer from elsewhere; of the programdata only the shortest is made.)
OthersProgramData ==
  SetState(Allocated(ProgramDataCost(1), ProgramDataMeta + 1), ProgramDataState(0, other))

OthersDeploy ==
  /\ ProgramReady(acct[program]) /\ acct[programdata] = NoAccount
  /\ Others([acct EXCEPT
       ![programdata] = OthersProgramData,
       ![program] = [SetState(@, ProgramState(programdata)) EXCEPT !.executable = TRUE]])
  /\ taken' = taken \cup {program, programdata}

OtherParty ==
  /\ builds \in Contested
  /\ \/ \E a \in {program, buffer} : OthersInitialize(a)
     \/ \E a \in {program, buffer, programdata} : OthersClose(a) \/ OthersSetAuthority(a)
     \/ OthersDeploy

-----------------------------------------------------------------------------
(* The script                                                              *)

Goto(label) == pc' = label

\* A request, and the steps its hash and its error lead to.
Submit(from, kind, i, onHash, onError) ==
  /\ pc = from
  /\ \/ Sent(Tx(kind, i)) /\ Goto(onHash)
     \/ ThrewForgetful(Tx(kind, i)) /\ Goto(onError)
  /\ UNCHANGED <<builds, run, chain, fate>>

\* The connection, the file and the rent it asks for; without one of them it stops.
Setup ==
  /\ pc = "setup" /\ pc' \in {"createProgram", "failed"}
  /\ UNCHANGED <<builds, run, chain, requests, chunk, retries, fate, history>>

CreateProgram ==
  /\ Submit("createProgram", "createProgram", 0, "createBuffer", "failed")
  /\ UNCHANGED <<chunk, retries, history>>

CreateBuffer ==
  /\ Submit("createBuffer", "createBuffer", 0, "initBuffer", "failed")
  /\ UNCHANGED <<chunk, retries, history>>

InitializeBuffer ==
  /\ Submit("initBuffer", "initBuffer", 0, "awaitInit", "failed")
  /\ UNCHANGED <<chunk, retries, history>>

\* getTransaction knows a transaction that landed, whether it took effect or not.
LandedOk(f) == f = "ok"
Anything(f) == TRUE

Landed(f) == f # None

NextChunk(i) == IF i < totalChunks(run) THEN "write" ELSE "finalize"

AwaitInit ==
  /\ pc = "awaitInit" /\ Landed(fate)
  /\ Goto(NextChunk(0)) /\ fate' = None
  /\ UNCHANGED <<builds, run, chain, requests, chunk, retries, history>>

Write ==
  /\ Submit("write", "write", chunk, "awaitWrite", "retry")
  /\ retries' = 0
  /\ UNCHANGED <<chunk, history>>

\* On to the next chunk, or out of the loop.
Continue == Goto(NextChunk(chunk)) /\ chunk' = chunk + 1

\* What the script makes of the write it waited for, or no longer waits for.
Leave ==
  /\ refused' = IF fate = "failed" THEN refused \cup {<<run, chunk>>} ELSE refused
  /\ fate' = None
  /\ UNCHANGED <<builds, run, chain, requests, retries, retried, late>>

AwaitWrite == pc = "awaitWrite" /\ Landed(fate) /\ Continue /\ Leave

\* The poll is inside the try: an error in it goes to the retry loop, too.
PollFails == pc = "awaitWrite" /\ Goto("retry") /\ UNCHANGED chunk /\ Leave

RetriesOnceMore(n) == n <= maxRetries

Retries(n) == n < maxRetries

\* The retry loop: no wait for the landing of a transaction it resent.
Retry ==
  /\ pc = "retry"
  /\ retried' = retried \cup {<<run, chunk>>}
  /\ \/ Sent(Tx("write", chunk)) /\ Continue /\ UNCHANGED retries
     \/ /\ ThrewForgetful(Tx("write", chunk))
        /\ retries' = retries + 1
        /\ Goto(IF Retries(retries') THEN "retry" ELSE "failed")
        /\ UNCHANGED chunk
  /\ UNCHANGED <<builds, run, chain, fate, refused, late>>

Finalize ==
  /\ Submit("finalize", "finalize", 0, "done", "failed")
  /\ UNCHANGED <<chunk, retries, history>>

Ended == pc \in {"done", "failed"}

\* An RPC call outside the chunk's try fails: the outer catch ends the script.
Fail ==
  /\ pc \notin {"setup", "done", "failed", "awaitWrite", "retry"}
  /\ Goto("failed")
  /\ UNCHANGED <<builds, run, chain, requests, chunk, retries, fate, history>>

\* The script ended, or is stopped in a loop that goes on and on, and is started once
\* more.
Rerun ==
  /\ pc \in {"awaitInit", "awaitWrite", "done", "failed"} /\ run < Len(builds)
  /\ Len(requests) <= MaxLate[builds]
  /\ run' = run + 1 /\ Goto("setup")
  /\ chunk' = 1 /\ retries' = 0 /\ fate' = None
  /\ late' = (late \/ requests # << >>)
  /\ UNCHANGED <<builds, chain, requests, retried, refused>>

Script ==
  \/ Setup \/ CreateProgram \/ CreateBuffer \/ InitializeBuffer \/ AwaitInit
  \/ Write \/ AwaitWrite \/ Retry \/ Finalize

Chain == \E id \in DOMAIN requests : Land(id)

Next ==
  \/ Script \/ Fail \/ PollFails \/ Rerun \/ Chain \/ OtherParty
  \/ \E id \in DOMAIN requests : DecideForgetful(id) /\ UNCHANGED <<chain, script>>

\* The script runs on, and what was broadcast lands in the end.  Nothing makes a call
\* of the script fail, or another party act.
Spec == Init /\ [][Next]_vars /\ WF_vars(Script) /\ WF_vars(Chain)
-----------------------------------------------------------------------------
(* Properties                                                              *)

\* Whatever runs ask and the chain does, balances and contents stay well formed, and
\* the retry loop stops where it should.
TypeOK ==
  /\ acct \in [Address -> Account]
  /\ \A id \in DOMAIN requests : requests[id].fate \in Fate
  /\ fate \in {None, "ok", "failed"}
  /\ run \in DOMAIN builds /\ chunk \in 1..totalChunks(run) + 1 /\ retries \in 0..maxRetries
  /\ retried \cup refused \subseteq UNION {{r} \X (1..totalChunks(r)) : r \in 1..run}
  /\ taken \subseteq {program, buffer, programdata}

\* Cell i of content is that of the program a run so far deploys.
Has(content, i) ==
  \E r \in 1..run : i \in DOMAIN content \cap DOMAIN File(r) /\ content[i] = File(r)[i]

\* Reordered, late and repeated writes, of any run, leave in a buffer the script
\* initialised nothing but cells of the files at their places, and zeros.
BufferIntact ==
  buffer \notin taken /\ acct[buffer].state.tag = "Buffer" =>
    LET content == BufferContent(acct[buffer])
    IN \A i \in DOMAIN content : content[i] = Zero \/ Has(content, i)

Installed == ProgramDataContent(acct[programdata])

Fits(r, c) == BufferMeta + Offset(c) + Len(Slice(r, c)) <= bufferSize(r)

\* A program that became executable with a hole in it, where the image happens to
\* load without that chunk, has it at a chunk the retry loop resent and did not wait
\* for.  Every other chunk was in the buffer when the deployment landed; or the script
\* waited for a write that was refused: after another run, or because the chunk does
\* not fit the buffer of the run.  A first deployment survives no other refusal.
HoleOnlyByRetry ==
  acct[program].executable /\ taken = {} =>
    \A c \in 1..totalChunks(deployed) :
      \/ <<deployed, c>> \in retried
      \/ \A i \in Offset(c) + 1 .. Offset(c) + Len(Slice(deployed, c)) : Has(Installed, i)
      \/ <<deployed, c>> \in refused /\ (run > 1 \/ ~Fits(deployed, c))

\* A program that is not that of the run that deployed it, where that run wrote it,
\* waited, and was not refused, has cells of an earlier run, begun before all that
\* run's transactions were decided: nothing but such a late write mixes two programs.
MixedOnlyByLate ==
  acct[program].executable /\ taken = {} =>
    \A c \in 1..totalChunks(deployed) :
      \/ <<deployed, c>> \in retried \cup refused
      \/ \A i \in Offset(c) + 1 .. Offset(c) + Len(Slice(deployed, c)) :
            Installed[i] = File(deployed)[i] \/ (late /\ Has(Installed, i))

\* Wherever the script stops and whatever lands after it, the payer alone can
\* close, and be refunded, each account the deployments left without finishing; all
\* but one another party initialised before the script did, with an authority of its
\* choice, or made by a deployment of its own.  (The instructions' comments ask for
\* create and use in one transaction lest that happens.  deploy.ts takes three.)
Lost(a) == a \in taken /\ acct[a].state.authority # payer
Recoverable ==
  \A a \in {program, buffer, programdata} :
    (acct[a].lamports > 0 /\ ~acct[a].executable)
      => CanClose(acct, {payer}, a, payer, payer, program) \/ Lost(a)

\* Every run ends: with what it broadcast landing in the end, neither wait loop
\* runs for ever, whether the transaction waited for took effect or failed, and
\* though no poll of the chain ever fails.
ScriptEnds == []<>Ended

\* What the last log lines say: the deployment completed, and the program is there.
CompletedSuccessfully == pc = "done" => acct[program].executable
=============================================================================
