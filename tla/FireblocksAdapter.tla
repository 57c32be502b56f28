------------------------- MODULE FireblocksAdapter --------------------------
(***************************************************************************)
(* FireblocksConnectionAdapter: its creation, which learns the vault's key *)
(* from Fireblocks, and one call of sendTransaction: fill in the           *)
(* transaction, sign for the local signers, hand it to Fireblocks, poll    *)
(* until Fireblocks broadcasts or ends it.  Fireblocks, its approvers and  *)
(* the network between run beside the call.                                *)
(***************************************************************************)
EXTENDS Integers, Sequences, Functions

CONSTANTS
  PublicKey,     \* the keys of the wallets
  NoPayer,       \* the fee payer of a transaction that has none yet
  account,       \* the vault's key, which Fireblocks signs for
  SignerLists,   \* sequences of signers the callers pass
  MAX_RETRIES,
  UnlistedEnds   \* final statuses Fireblocks has and waitForSignature names not

ASSUME SignersAssumption ==
  account \in PublicKey /\ NoPayer \notin PublicKey /\ SignerLists \subseteq Seq(PublicKey)
ASSUME RetryAssumption == MAX_RETRIES \in Nat
ASSUME StatusAssumption ==
  UnlistedEnds \cap {"NONE", "SUBMITTED", "PENDING", "BROADCASTING", "CONFIRMING",
                    "COMPLETED"} = {}

VARIABLES
  pc,        \* where the call is
  tx,        \* has the transaction a recent blockhash, and who is its fee payer
  signers,   \* the signers argument
  todo,      \* signers the loop has left
  signed,    \* keys that signed locally
  seen,      \* the last response polled
  retries,   \* failed polls waitForSignature swallowed
  misses,    \* history: failed polls
  status,    \* Fireblocks: the request's status, "NONE" before there is one
  hash,      \* Fireblocks: it reports a txHash
  broadcast  \* history: Fireblocks began to broadcast

local == <<tx, signers, todo, signed>>
polling == <<seen, retries, misses>>
fireblocks == <<status, hash, broadcast>>
vars == <<pc, local, polling, fireblocks>>

failedStatuses == {"BLOCKED", "CANCELLED", "FAILED", "REJECTED"}

AcceptedOnApproval == {"COMPLETED", "BROADCASTING", "PENDING"}
AcceptedOnTheWay == {"BROADCASTING"}

Accepted == {"COMPLETED", "BROADCASTING"}

Final == failedStatuses \cup UnlistedEnds \cup {"COMPLETED"}

Ended == pc \in {"returned", "threw"}

Init ==
  /\ pc = "connect"
  /\ tx \in [blockhash : BOOLEAN, payer : {account, NoPayer}]
  /\ signers \in SignerLists /\ todo = signers /\ signed = {}
  /\ seen = [status |-> "NONE", hash |-> FALSE]
  /\ retries = 0 /\ misses = 0
  /\ status = "NONE" /\ hash = FALSE /\ broadcast = FALSE

Goto(label) == pc' = label
Throw == Goto("threw")

-----------------------------------------------------------------------------
(* The call                                                                *)

\* No secret key file, or a vault without an address: no adapter.
Connect ==
  /\ pc = "connect" /\ (Goto("prepare") \/ Throw)
  /\ UNCHANGED <<local, polling, fireblocks>>

\* A transaction without a blockhash gets one, and the vault as fee payer.
Prepare ==
  /\ pc = "prepare"
  /\ \/ tx.blockhash /\ Goto("sign") /\ UNCHANGED tx
     \/ ~tx.blockhash /\ Goto("sign") /\ tx' = [blockhash |-> TRUE, payer |-> account]
     \/ ~tx.blockhash /\ Throw /\ UNCHANGED tx   \* getLatestBlockhash failed
  /\ UNCHANGED <<signers, todo, signed, polling, fireblocks>>

\* The loop over the signers ends at the fee payer.
Sign ==
  /\ pc = "sign" /\ todo # << >>
  /\ \/ Head(todo) = account /\ todo' = << >> /\ UNCHANGED signed
     \/ /\ Head(todo) # account
        /\ todo' = Tail(todo) /\ signed' = signed \cup {Head(todo)}
  /\ UNCHANGED <<pc, tx, signers, polling, fireblocks>>

\* serialize needs a fee payer.  The request may fail on the way there, or be
\* made and its answer lost.
Create ==
  /\ pc = "sign" /\ todo = << >>
  /\ \/ Throw /\ UNCHANGED status
     \/ tx.payer # NoPayer /\ pc' \in {"first", "threw"} /\ status' = "SUBMITTED"
  /\ UNCHANGED <<local, polling, hash, broadcast>>

Polled == seen' = [status |-> status, hash |-> hash] /\ Goto("check")

\* The first poll is outside the try.
FirstPoll ==
  /\ pc = "first"
  /\ \/ Polled \/ (Throw /\ UNCHANGED seen)
  /\ UNCHANGED <<local, retries, misses, fireblocks>>

\* The loop's condition and body, and the caller's test of txHash.
Check ==
  /\ pc = "check"
  /\ \/ seen.status \in Accepted /\ seen.hash /\ Goto("returned")
     \/ seen.status \in Accepted /\ ~seen.hash /\ Throw
     \/ seen.status \in failedStatuses /\ Throw
     \/ seen.status \notin Accepted \cup failedStatuses /\ Goto("sleep")
  /\ UNCHANGED <<local, polling, fireblocks>>

GivesUpLate(n) == n > MAX_RETRIES
GivesUpAtOnce(n) == n > 0

GivesUp(n) == n >= MAX_RETRIES

Poll ==
  /\ pc = "sleep"
  /\ \/ Polled /\ UNCHANGED <<retries, misses>>
     \/ /\ misses' = misses + 1
        /\ IF GivesUp(retries) THEN Throw /\ UNCHANGED retries
           ELSE retries' = retries + 1 /\ UNCHANGED pc
        /\ UNCHANGED seen
  /\ UNCHANGED <<local, fireblocks>>

Call == Connect \/ Prepare \/ Sign \/ Create \/ FirstPoll \/ Check \/ Poll

-----------------------------------------------------------------------------
(* Fireblocks                                                              *)

Pending == status \notin Final \cup {"NONE"}

\* Queues, approvals and signing are one status, PENDING.  A hash may be known as
\* soon as the transaction is signed: the adapter tests it apart from the status.
Advance ==
  /\ \/ status = "SUBMITTED" /\ status' = "PENDING" /\ UNCHANGED <<hash, broadcast>>
     \/ /\ status = "PENDING" /\ status' = "BROADCASTING"
        /\ broadcast' = TRUE /\ UNCHANGED hash
     \/ /\ status \in {"PENDING", "BROADCASTING"} /\ ~hash /\ hash' = TRUE
        /\ UNCHANGED <<status, broadcast>>
     \/ /\ status = "BROADCASTING" /\ hash /\ status' = "CONFIRMING"
        /\ UNCHANGED <<hash, broadcast>>
     \/ status = "CONFIRMING" /\ status' = "COMPLETED" /\ UNCHANGED <<hash, broadcast>>
  /\ UNCHANGED <<pc, local, polling>>

\* A policy, an approver, the network or a deadline ends it.
End ==
  /\ Pending /\ status' \in failedStatuses \cup UnlistedEnds
  /\ UNCHANGED <<pc, local, polling, hash, broadcast>>

\* Nothing is left to do.
Done == Ended /\ ~Pending /\ UNCHANGED vars

Next == Call \/ Advance \/ End \/ Done

\* The call runs on, and Fireblocks decides every request in the end.
Spec == Init /\ [][Next]_vars /\ WF_vars(Call) /\ WF_vars(Advance)
-----------------------------------------------------------------------------
(* Properties                                                              *)

Statuses == failedStatuses \cup UnlistedEnds \cup Accepted
              \cup {"NONE", "SUBMITTED", "PENDING", "CONFIRMING"}

TypeOK ==
  /\ pc \in {"connect", "prepare", "sign", "first", "check", "sleep", "returned", "threw"}
  /\ tx \in [blockhash : BOOLEAN, payer : {account, NoPayer}]
  /\ signers \in SignerLists /\ todo \in Seq(PublicKey) /\ signed \subseteq PublicKey \ {account}
  /\ seen \in [status : Statuses, hash : BOOLEAN]
  /\ retries \in 0..MAX_RETRIES /\ misses \in 0..MAX_RETRIES + 1
  /\ status \in Statuses /\ hash \in BOOLEAN /\ broadcast \in BOOLEAN

\* Once a poll has answered, only MAX_RETRIES + 1 failed polls make the call give
\* up on a transaction Fireblocks has not reported failed, or broadcast without a
\* hash: a flaky connection to Fireblocks does not look like a failed transaction.
NoFalseFailure ==
  (pc = "threw" /\ seen.status # "NONE" /\ seen.status \notin failedStatuses)
    => misses > MAX_RETRIES \/ (seen.status \in Accepted /\ ~seen.hash)

\* Every call returns or throws, provided Fireblocks ends requests only with the
\* statuses the loop names.
Settles == <>Ended

Outcome ==
  CASE pc = "returned" -> "hash" [] pc = "threw" -> "error" [] OTHER -> "pending"

Fate ==
  CASE broadcast -> "broadcast"
    [] ~broadcast /\ (status \in Final \/ (pc = "threw" /\ status = "NONE")) -> "dead"
    [] OTHER -> "held"

Sub == INSTANCE Submission WITH outcome <- Outcome, fate <- Fate

\* A returned hash is that of a transaction Fireblocks began to broadcast, however
\* its status moves between two polls; deploy.ts relies on it and on nothing more.
ImplementsSubmission == Sub!Spec

\* When the transaction goes to Fireblocks, every signer passed but the fee payer,
\* which the log line says is skipped, has signed it.
EverySignerSigns ==
  pc \in {"first", "check", "sleep", "returned"} => Range(signers) \ {account} \subseteq signed
=============================================================================
