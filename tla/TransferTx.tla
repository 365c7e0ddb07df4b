----------------------------- MODULE TransferTx -----------------------------
(***************************************************************************)
(* transfer-service: handleTransfer around runTransferTx, the SERIALIZABLE *)
(* retry loop of db.SerializableTx, and the part of PostgreSQL they lean   *)
(* on (row locks, snapshots, the id sequence).  Each request is served by  *)
(* a goroutine of its own (Consumer.Run starts `go c.dispatch`), so        *)
(* requests interleave statement by statement.                             *)
(*                                                                         *)
(* The best-effort steps between the commit and the 200 reply (the Redis   *)
(* pipeline and the JetStream publish) cannot change the outcome of the    *)
(* request; module BalanceReadModel models what they do to the read model. *)
(***************************************************************************)
EXTENDS Integers, Sequences, FiniteSets, Sums

CONSTANTS Users,           \* ids of the rows of the users table
          Requests,        \* transfer requests (goroutines of the handler)
          Payloads,        \* request bodies, with the session's user
          InitialBalance,  \* users.balance before the first transfer
          MaxUserId,       \* largest value of the column users.id (BIGINT)
          MaxBalance,      \* largest value of the column users.balance (BIGINT)
          MaxAttempts,     \* maxSerializableRetries
          MaxConns,        \* connections of the pgx pool
          NoReq            \* "no request": the holder of a free row

(* sender is the id the session maps to and target the id the identifier   *)
(* resolves to: either may be an id outside Users (a session that outlived *)
(* the user's row, an identifier no row matches).  wellFormed is FALSE for *)
(* a body that does not parse or names no identifier at all.               *)
ASSUME TransferAssumption ==
  /\ Users \subseteq Nat
  /\ MaxBalance \in Nat
  /\ InitialBalance \in [Users -> 0..MaxBalance]
  /\ Payloads \subseteq [wellFormed: BOOLEAN, sender: Nat, target: Nat, amount: Int]
  /\ Payloads # {}
  /\ MaxAttempts \in Nat \ {0}
  /\ MaxConns \in Nat \ {0}
  /\ NoReq \notin Requests

(* users.id comes from a sequence that starts at 1. *)
ASSUME UserIdAssumption ==
  /\ MaxUserId \in Nat
  /\ Users \subseteq 1..MaxUserId

VARIABLES
  balance,    \* users.balance, committed
  transfers,  \* rows of the transfers table, in commit order
  notified,   \* number of notification rows of each user, committed
  lastId,     \* last value handed out by the sequence of transfers.id
  lockedBy,   \* holder of each users row's FOR UPDATE lock
  pc,         \* where each request's goroutine is
  payload,    \* what each request asks for
  attempt,    \* iteration of SerializableTx's loop, from 1
  missed,     \* rows committed by others since the open snapshot was taken
  read,       \* balances lockBothUsers returned
  written,    \* balances updateBalances wrote, visible only to its own tx
  res,        \* transferResult
  reply       \* HTTP status of the reply, 0 before it is sent

db    == <<balance, transfers, notified, lastId, lockedBy>>
local == <<pc, payload, attempt, missed, read, written, res, reply>>
vars  == <<balance, transfers, notified, lastId, lockedBy,
           pc, payload, attempt, missed, read, written, res, reply>>

-----------------------------------------------------------------------------
(* States of a request's goroutine. *)
TxStates == {"lock", "check", "update", "insert", "notify", "commit"}
PcStates == TxStates \cup {"idle", "begin", "backoff", "committed", "indoubt", "done"}

Rows    == [sender: Int, receiver: Int]
Results == [transferID: Nat, senderBalance: Int, receiverBalance: Int]
NoRows  == [sender |-> 0, receiver |-> 0]
NoResult == [transferID |-> 0, senderBalance |-> 0, receiverBalance |-> 0]

TransferRows == [id: Nat \ {0}, from: Users, to: Users, amount: Nat \ {0}, by: Requests]

(* Mutant: every unexpected error is reported as "please retry". *)
Status_AllRetryable ==
  [ invalidPayload |-> 400, errInsufficientFunds |-> 400, errSelfTransfer |-> 400,
    errReceiverNotFound |-> 404, serializationFailure |-> 503, otherError |-> 503 ]

(* Errors runTransferTx can return, and the status handleTransfer and the  *)
(* dispatcher turn each of them into.                                      *)
Status ==
  [ invalidPayload      |-> 400,
    errInsufficientFunds |-> 400,
    errSelfTransfer     |-> 400,
    errReceiverNotFound |-> 404,
    serializationFailure |-> 503,
    otherError          |-> 500 ]
Errors == DOMAIN Status

Sender(r)   == payload[r].sender
Receiver(r) == payload[r].target
Amount(r)   == payload[r].amount
InTx(r)     == pc[r] \in TxStates

(* The server has a COMMIT of r to execute, awaited by the handler or not. *)
AtCommit(r) == pc[r] \in {"commit", "indoubt"}

(* Rows of users the SELECT ... WHERE id IN (?, ?) matches. *)
Matching(r) == {Sender(r), Receiver(r)} \cap Users
Held(r)     == {u \in Users : lockedBy[u] = r}
Unlocked(r) == Matching(r) \ Held(r)

Init ==
  /\ balance = InitialBalance
  /\ transfers = <<>>
  /\ notified = [u \in Users |-> 0]
  /\ lastId = 0
  /\ lockedBy = [u \in Users |-> NoReq]
  /\ pc = [r \in Requests |-> "idle"]
  /\ payload \in [Requests -> Payloads]
  /\ attempt = [r \in Requests |-> 1]
  /\ missed = [r \in Requests |-> {}]
  /\ read = [r \in Requests |-> NoRows]
  /\ written = [r \in Requests |-> NoRows]
  /\ res = [r \in Requests |-> NoResult]
  /\ reply = [r \in Requests |-> 0]

-----------------------------------------------------------------------------
(* How a transaction ends without committing. *)

(* RunInTx rolls back: the row locks, the snapshot and the uncommitted     *)
(* writes go.  The sequence does not: an id taken is never given back.     *)
Unlock(r) == [u \in Users |-> IF lockedBy[u] = r THEN NoReq ELSE lockedBy[u]]

(* Mutant: the transaction is abandoned without releasing its row locks. *)
Rollback_KeepsLocks(r) ==
  /\ missed' = [missed EXCEPT ![r] = {}]
  /\ read' = [read EXCEPT ![r] = NoRows]
  /\ written' = [written EXCEPT ![r] = NoRows]
  /\ UNCHANGED <<lockedBy, balance, transfers, notified>>

Rollback(r) ==
  /\ lockedBy' = Unlock(r)
  /\ missed' = [missed EXCEPT ![r] = {}]
  /\ read' = [read EXCEPT ![r] = NoRows]
  /\ written' = [written EXCEPT ![r] = NoRows]
  /\ UNCHANGED <<balance, transfers, notified>>

(* The handler replies with the status of the error. *)
ReplyError(r, err) ==
  /\ pc' = [pc EXCEPT ![r] = "done"]
  /\ reply' = [reply EXCEPT ![r] = Status[err]]
  /\ UNCHANGED <<payload, attempt>>

(* An error that SerializableTx does not retry. *)
Fail(r, err) ==
  /\ Rollback(r)
  /\ ReplyError(r, err)
  /\ UNCHANGED <<lastId, res>>

(* Mutant: off by one, the loop runs once more than maxSerializableRetries. *)
FailSerialization_OneMore(r) ==
  /\ Rollback(r)
  /\ \/ /\ attempt[r] > MaxAttempts
        /\ ReplyError(r, "serializationFailure")
     \/ /\ attempt[r] <= MaxAttempts
        /\ pc' = [pc EXCEPT ![r] = "backoff"]
        /\ UNCHANGED <<payload, attempt, reply>>
  /\ UNCHANGED <<lastId, res>>

(* SQLSTATE 40001: SerializableTx sleeps and runs the closure again, unless *)
(* this was the last attempt.                                               *)
FailSerialization(r) ==
  /\ Rollback(r)
  /\ \/ /\ attempt[r] = MaxAttempts
        /\ ReplyError(r, "serializationFailure")
     \/ /\ attempt[r] < MaxAttempts
        /\ pc' = [pc EXCEPT ![r] = "backoff"]
        /\ UNCHANGED <<payload, attempt, reply>>
  /\ UNCHANGED <<lastId, res>>

-----------------------------------------------------------------------------
(* Mutant: the check "amount must be positive" is missing. *)
Accept_AnyAmount(r) ==
  /\ pc[r] = "idle"
  /\ payload[r].wellFormed
  /\ pc' = [pc EXCEPT ![r] = "begin"]
  /\ UNCHANGED <<db, payload, attempt, missed, read, written, res, reply>>

(* handleTransfer: parsing and validation, before any database work. *)
Accept(r) ==
  /\ pc[r] = "idle"
  /\ payload[r].wellFormed
  /\ Amount(r) > 0
  /\ pc' = [pc EXCEPT ![r] = "begin"]
  /\ UNCHANGED <<db, payload, attempt, missed, read, written, res, reply>>

Reject(r) ==
  /\ pc[r] = "idle"
  /\ ~payload[r].wellFormed \/ Amount(r) <= 0
  /\ ReplyError(r, "invalidPayload")
  /\ UNCHANGED <<db, missed, read, written, res>>

(* RunInTx takes a pool connection and opens the transaction; the closure's *)
(* first statement, resolveReceiver, takes the snapshot.                    *)
PoolHasRoom == Cardinality({r \in Requests : InTx(r)}) < MaxConns

Begin(r) ==
  /\ pc[r] = "begin"
  /\ PoolHasRoom

ResolveReceiver(r) ==
  /\ Begin(r)
  /\ Receiver(r) \in Users
  /\ Receiver(r) # Sender(r)
  /\ pc' = [pc EXCEPT ![r] = "lock"]
  /\ missed' = [missed EXCEPT ![r] = {}]
  /\ UNCHANGED <<db, payload, attempt, read, written, res, reply>>

ReceiverNotFound(r) ==
  /\ Begin(r)
  /\ Receiver(r) \notin Users
  /\ Fail(r, "errReceiverNotFound")

SelfTransfer(r) ==
  /\ Begin(r)
  /\ Receiver(r) \in Users
  /\ Receiver(r) = Sender(r)
  /\ Fail(r, "errSelfTransfer")

(* Mutant: the sender's row is locked first, whatever its id. *)
NextRow_SenderFirst(r) ==
  IF Sender(r) \in Unlocked(r) THEN Sender(r) ELSE CHOOSE u \in Unlocked(r) : TRUE

(* lockBothUsers: ORDER BY id FOR UPDATE locks the matching rows one by one, *)
(* lowest id first, waiting for a row another transaction holds.             *)
NextRow(r) == CHOOSE u \in Unlocked(r) : \A v \in Unlocked(r) : u <= v

LockRow(r) ==
  /\ pc[r] = "lock"
  /\ NextRow(r) \notin missed[r]
  /\ lockedBy[NextRow(r)] = NoReq
  /\ lockedBy' = [lockedBy EXCEPT ![NextRow(r)] = r]
  /\ Unlocked(r) # {NextRow(r)}
  /\ UNCHANGED <<balance, transfers, notified, lastId, local>>

(* Mutant: a plain SELECT, which does not wait for the other transaction. *)
LockLastRow_NoWait(r) ==
  /\ pc[r] = "lock"
  /\ NextRow(r) \notin missed[r]
  /\ Unlocked(r) = {NextRow(r)}
  /\ Sender(r) \in Users
  /\ read' = [read EXCEPT ![r] = [sender |-> balance[Sender(r)],
                                  receiver |-> balance[Receiver(r)]]]
  /\ pc' = [pc EXCEPT ![r] = "check"]
  /\ UNCHANGED <<db, payload, attempt, missed, written, res, reply>>

(* The last row is locked and the query returns.  *)
LockLastRow(r) ==
  /\ pc[r] = "lock"
  /\ NextRow(r) \notin missed[r]
  /\ lockedBy[NextRow(r)] = NoReq
  /\ Unlocked(r) = {NextRow(r)}
  /\ Sender(r) \in Users
  /\ lockedBy' = [lockedBy EXCEPT ![NextRow(r)] = r]
  /\ read' = [read EXCEPT ![r] = [sender |-> balance[Sender(r)],
                                  receiver |-> balance[Receiver(r)]]]
  /\ pc' = [pc EXCEPT ![r] = "check"]
  /\ UNCHANGED <<balance, transfers, notified, lastId,
                 payload, attempt, missed, written, res, reply>>

(* "expected 2 rows, got 1": the session's user has no row any more. *)
SenderRowMissing(r) ==
  /\ pc[r] = "lock"
  /\ NextRow(r) \notin missed[r]
  /\ lockedBy[NextRow(r)] = NoReq
  /\ Sender(r) \notin Users
  /\ Fail(r, "otherError")

(* The row was updated and committed after this snapshot was taken. *)
LockStaleRow(r) ==
  /\ pc[r] = "lock"
  /\ NextRow(r) \in missed[r]
  /\ FailSerialization(r)

CheckBalance(r) ==
  /\ pc[r] = "check"
  /\ read[r].sender >= Amount(r)
  /\ pc' = [pc EXCEPT ![r] = "update"]
  /\ UNCHANGED <<db, payload, attempt, missed, read, written, res, reply>>

InsufficientFunds(r) ==
  /\ pc[r] = "check"
  /\ read[r].sender < Amount(r)
  /\ Fail(r, "errInsufficientFunds")

(* Mutant: a credit that leaves the column's range is cut off. *)
CreditedBalance_Saturated(r) ==
  IF balance[Receiver(r)] + Amount(r) > MaxBalance THEN MaxBalance ELSE balance[Receiver(r)] + Amount(r)

(* Mutant: the credit wraps around instead of failing. *)
SchemaAllows_Unbounded(r) == balance[Sender(r)] - Amount(r) >= 0

(* updateBalances: the UPDATE computes from the rows, not from what was     *)
(* read.  A sender row whose guard "balance >= amount" fails matches no     *)
(* CASE arm: its balance becomes NULL and the NOT NULL constraint fails.  A *)
(* credit that leaves the column's range fails too ("out of range").        *)
DebitedBalance(r)  == balance[Sender(r)] - Amount(r)
CreditedBalance(r) == balance[Receiver(r)] + Amount(r)
SchemaAllows(r)    == DebitedBalance(r) >= 0 /\ CreditedBalance(r) <= MaxBalance

UpdateBalances(r) ==
  /\ pc[r] = "update"
  /\ IF SchemaAllows(r)
       THEN /\ written' = [written EXCEPT ![r] = [sender |-> DebitedBalance(r),
                                                  receiver |-> CreditedBalance(r)]]
            /\ pc' = [pc EXCEPT ![r] = "insert"]
            /\ UNCHANGED <<db, payload, attempt, missed, read, res, reply>>
       ELSE Fail(r, "otherError")

(* Mutant: a retry keeps the id its first attempt took. *)
InsertTransferRecord_KeepsId(r) ==
  /\ pc[r] = "insert"
  /\ lastId' = IF res[r].transferID = 0 THEN lastId + 1 ELSE lastId
  /\ res' = [res EXCEPT ![r].transferID = IF @ = 0 THEN lastId + 1 ELSE @]
  /\ pc' = [pc EXCEPT ![r] = "notify"]
  /\ UNCHANGED <<balance, transfers, notified, lockedBy,
                 payload, attempt, missed, read, written, reply>>

InsertTransferRecord(r) ==
  /\ pc[r] = "insert"
  /\ lastId' = lastId + 1
  /\ res' = [res EXCEPT ![r].transferID = lastId + 1]
  /\ pc' = [pc EXCEPT ![r] = "notify"]
  /\ UNCHANGED <<balance, transfers, notified, lockedBy,
                 payload, attempt, missed, read, written, reply>>

(* Mutant: the result captured by an earlier attempt is not overwritten. *)
InsertNotifications_StaleResult(r) ==
  /\ pc[r] = "notify"
  /\ IF res[r].senderBalance + res[r].receiverBalance = 0
       THEN res' = [res EXCEPT ![r].senderBalance = read[r].sender - Amount(r),
                               ![r].receiverBalance = read[r].receiver + Amount(r)]
       ELSE UNCHANGED res
  /\ pc' = [pc EXCEPT ![r] = "commit"]
  /\ UNCHANGED <<db, payload, attempt, missed, read, written, reply>>

(* Post-transaction balances are derived in Go from the rows read under     *)
(* lock; then both notification rows are inserted.                          *)
InsertNotifications(r) ==
  /\ pc[r] = "notify"
  /\ res' = [res EXCEPT ![r].senderBalance = read[r].sender - Amount(r),
                        ![r].receiverBalance = read[r].receiver + Amount(r)]
  /\ pc' = [pc EXCEPT ![r] = "commit"]
  /\ UNCHANGED <<db, payload, attempt, missed, read, written, reply>>

-----------------------------------------------------------------------------
(* COMMIT publishes the writes and releases the locks; every transaction    *)
(* whose snapshot is open has now missed an update of both rows.            *)
TransferRow(r) ==
  [id |-> res[r].transferID, from |-> Sender(r), to |-> Receiver(r),
   amount |-> Amount(r), by |-> r]

ApplyCommit(r) ==
  /\ balance' = [balance EXCEPT ![Sender(r)] = written[r].sender,
                                ![Receiver(r)] = written[r].receiver]
  /\ transfers' = Append(transfers, TransferRow(r))
  /\ notified' = [notified EXCEPT ![Sender(r)] = @ + 1, ![Receiver(r)] = @ + 1]
  /\ lockedBy' = Unlock(r)
  /\ missed' = [q \in Requests |-> IF q = r \/ ~InTx(q) THEN {}
                                   ELSE missed[q] \cup {Sender(r), Receiver(r)}]
  /\ read' = [read EXCEPT ![r] = NoRows]
  /\ written' = [written EXCEPT ![r] = NoRows]
  /\ UNCHANGED <<lastId, payload, attempt, res>>

Commit(r) ==
  /\ pc[r] = "commit"
  /\ ApplyCommit(r)
  /\ pc' = [pc EXCEPT ![r] = "committed"]
  /\ UNCHANGED reply

(* Mutant: a lost COMMIT answer is retried like a serialization failure. *)
CommitAnswerLost_Retried(r) ==
  /\ pc[r] = "commit"
  /\ attempt[r] < MaxAttempts
  /\ ApplyCommit(r)
  /\ pc' = [pc EXCEPT ![r] = "backoff"]
  /\ UNCHANGED reply

(* The server commits but the connection is lost before the answer arrives: *)
(* the driver returns an error that is not 40001, so the handler fails with *)
(* the transfer booked already ...                                          *)
CommitAnswerLost(r) ==
  /\ pc[r] = "commit"
  /\ ApplyCommit(r)
  /\ pc' = [pc EXCEPT ![r] = "done"]
  /\ reply' = [reply EXCEPT ![r] = Status["otherError"]]

(* ... or the connection breaks, or the context is cancelled, while COMMIT   *)
(* is on its way: RunInTx returns and the handler replies 500, its           *)
(* connection leaves the pool, and the server still has the transaction,     *)
(* with its locks, and a COMMIT to execute.                                  *)
CommitInDoubt(r) ==
  /\ pc[r] = "commit"
  /\ pc' = [pc EXCEPT ![r] = "indoubt"]
  /\ reply' = [reply EXCEPT ![r] = Status["otherError"]]
  /\ UNCHANGED <<db, payload, attempt, missed, read, written, res>>

(* The server executes it after the reply, or it never arrived, was         *)
(* cancelled or failed, and the server rolls the transaction back.          *)
LateCommit(r) ==
  /\ pc[r] = "indoubt"
  /\ ApplyCommit(r)
  /\ pc' = [pc EXCEPT ![r] = "done"]
  /\ UNCHANGED reply

LateRollback(r) ==
  /\ pc[r] = "indoubt"
  /\ Rollback(r)
  /\ pc' = [pc EXCEPT ![r] = "done"]
  /\ UNCHANGED <<lastId, payload, attempt, res, reply>>

(* After the best-effort post-commit tiers the handler replies 200. *)
ReplySuccess(r) ==
  /\ pc[r] = "committed"
  /\ pc' = [pc EXCEPT ![r] = "done"]
  /\ reply' = [reply EXCEPT ![r] = 200]
  /\ UNCHANGED <<db, payload, attempt, missed, read, written, res>>

-----------------------------------------------------------------------------
(* What the database does on its own. *)

(* PostgreSQL may abort a SERIALIZABLE transaction at any statement, and at *)
(* COMMIT, when it sees a dangerous read/write dependency.                  *)
SerializationFailure(r) ==
  /\ InTx(r)
  /\ FailSerialization(r)

(* Any other error: lost connection, statement_timeout while waiting for a  *)
(* lock, idle_in_transaction timeout, a cancelled context.  Without a       *)
(* COMMIT under way the server can only roll back, here when the handler    *)
(* replies.                                                                 *)
DatabaseError(r) ==
  /\ pc[r] = "begin" \/ InTx(r)
  /\ Fail(r, "otherError")

(* Mutant: the attempts are not counted, so the loop never gives up. *)
Retry_Uncounted(r) ==
  /\ pc[r] = "backoff"
  /\ pc' = [pc EXCEPT ![r] = "begin"]
  /\ UNCHANGED <<db, payload, attempt, missed, read, written, res, reply>>

(* SerializableTx: the backoff ends, or the context is cancelled first. *)
Retry(r) ==
  /\ pc[r] = "backoff"
  /\ attempt' = [attempt EXCEPT ![r] = @ + 1]
  /\ pc' = [pc EXCEPT ![r] = "begin"]
  /\ UNCHANGED <<db, payload, missed, read, written, res, reply>>

CancelBackoff(r) ==
  /\ pc[r] = "backoff"
  /\ ReplyError(r, "otherError")
  /\ UNCHANGED <<db, missed, read, written, res>>

-----------------------------------------------------------------------------
(* Steps the goroutine takes by itself, and steps the environment forces. *)
Step(r) ==
  \/ Accept(r) \/ Reject(r)
  \/ ResolveReceiver(r) \/ ReceiverNotFound(r) \/ SelfTransfer(r)
  \/ LockRow(r) \/ LockLastRow(r) \/ SenderRowMissing(r) \/ LockStaleRow(r)
  \/ CheckBalance(r) \/ InsufficientFunds(r)
  \/ UpdateBalances(r) \/ InsertTransferRecord(r) \/ InsertNotifications(r)
  \/ Commit(r) \/ ReplySuccess(r) \/ Retry(r)

Fault(r) ==
  \/ SerializationFailure(r) \/ DatabaseError(r)
  \/ CommitAnswerLost(r) \/ CommitInDoubt(r) \/ CancelBackoff(r)

(* What the server does with a transaction its client has given up. *)
Resolve(r) == LateCommit(r) \/ LateRollback(r)

(* Every request has been answered: nothing is left to do. *)
AllDone == /\ \A r \in Requests : pc[r] = "done"
           /\ UNCHANGED vars

Next == \/ \E r \in Requests : Step(r) \/ Fault(r) \/ Resolve(r)
        \/ AllDone

Spec == Init /\ [][Next]_vars

(* A runnable goroutine is eventually scheduled, a row lock that stays free *)
(* is eventually granted to its waiter, and so is a free pool connection.   *)
(* The server does not keep a transaction without a client for ever: COMMIT *)
(* ends, or statement_timeout and idle_in_transaction_session_timeout of    *)
(* the pool's sessions end the transaction.                                 *)
FairSpec == Spec /\ \A r \in Requests : WF_vars(Step(r)) /\ WF_vars(Resolve(r))

-----------------------------------------------------------------------------
(* Properties. *)

TypeOK ==
  /\ balance \in [Users -> Int]
  /\ transfers \in Seq(TransferRows)
  /\ notified \in [Users -> Nat]
  /\ lastId \in Nat
  /\ lockedBy \in [Users -> Requests \cup {NoReq}]
  /\ pc \in [Requests -> PcStates]
  /\ payload \in [Requests -> Payloads]
  /\ attempt \in [Requests -> 1..MaxAttempts]
  /\ missed \in [Requests -> SUBSET Nat]
  /\ read \in [Requests -> Rows]
  /\ written \in [Requests -> Rows]
  /\ res \in [Requests -> Results]
  /\ reply \in [Requests -> {0, 200} \cup {Status[e] : e \in Errors}]

(* States in which lockBothUsers has returned and the transaction is open. *)
LockedStates == (TxStates \ {"lock"}) \cup {"indoubt"}

(* What lockBothUsers returned is still the committed balance of both rows  *)
(* when the balance check, the UPDATE and the commit use it: no other       *)
(* request has changed either row in between.                               *)
ReadStillCurrent ==
  \A r \in Requests : pc[r] \in LockedStates =>
    read[r] = [sender |-> balance[Sender(r)], receiver |-> balance[Receiver(r)]]

(* r waits in lockBothUsers for a row that q has locked, or in RunInTx for  *)
(* one of the pool's connections, all of them taken, q's among them.        *)
WaitsForRow(r, q) ==
  /\ pc[r] = "lock"
  /\ NextRow(r) \notin missed[r]
  /\ lockedBy[NextRow(r)] = q
WaitsForConnection(r, q) == pc[r] = "begin" /\ ~PoolHasRoom /\ InTx(q)
WaitsFor(r, q) == WaitsForRow(r, q) \/ WaitsForConnection(r, q)

(* There are no requests all of which wait for one another, neither for     *)
(* rows ("canonical deadlock-prevention ordering") nor for connections nor  *)
(* for both: in any set of requests one waits for nobody in the set.        *)
DeadlockFree ==
  \A S \in SUBSET Requests :
    S # {} => \E r \in S : \A q \in S : ~WaitsFor(r, q)

(* A request is booked at most once, however often SerializableTx retried   *)
(* it: no two rows of the transfers table come from one request.            *)
BookedOnce ==
  \A i, j \in 1..Len(transfers) :
    transfers[i].by = transfers[j].by => i = j

Booked(r) == \E i \in 1..Len(transfers) : transfers[i].by = r

(* The reply tells the truth about the database: 200 only for a booked      *)
(* transfer, 400, 404 and 503 only when nothing was booked, so that a       *)
(* caller may retry after 503.  500 promises nothing.                       *)
ReplyTruthful ==
  \A r \in Requests :
    /\ reply[r] = 200 => Booked(r)
    /\ reply[r] \in {400, 404, 503} => ~Booked(r)

(* Along the history of one account transfer ids grow in commit order,      *)
(* although ids are taken before the commit and retries leave gaps.         *)
IdsFollowCommits ==
  \A i, j \in 1..Len(transfers) :
    /\ i < j
    /\ {transfers[i].from, transfers[i].to} \cap {transfers[j].from, transfers[j].to} # {}
    => transfers[i].id < transfers[j].id

(* Row locks never outlive their transaction: a row is locked only by a     *)
(* request that is inside its transaction, or whose COMMIT is in doubt, and *)
(* that transfers from or to it; past lockBothUsers it holds both its rows. *)
LocksOwned ==
  /\ \A u \in Users : lockedBy[u] # NoReq =>
        pc[lockedBy[u]] \in TxStates \cup {"indoubt"} /\ u \in Matching(lockedBy[u])
  /\ \A r \in Requests : pc[r] \in LockedStates =>
        /\ Sender(r) \in Users
        /\ Sender(r) # Receiver(r)
        /\ Held(r) = {Sender(r), Receiver(r)}

(* Requests that hold an id of the sequence not yet in the table. *)
HasId(r) == pc[r] \in {"notify", "commit", "indoubt"}

Touches(row, r) == {row.from, row.to} \cap {Sender(r), Receiver(r)} # {}

-----------------------------------------------------------------------------
(* The parts of the inductive invariant beyond the properties above. *)

(* Only positive amounts to an existing other user get past resolveReceiver, *)
(* and lockBothUsers holds only rows below the ones it still wants.          *)
LockOrder ==
  \A r \in Requests :
    /\ pc[r] \in TxStates \cup {"begin", "backoff", "indoubt"} => Amount(r) > 0
    /\ InTx(r) \/ pc[r] = "indoubt" => Receiver(r) \in Users /\ Receiver(r) # Sender(r)
    /\ pc[r] = "lock" =>
          /\ Unlocked(r) # {}
          /\ \A u \in Held(r), v \in Unlocked(r) : u < v

(* What each statement of the closure has established for the next one, and *)
(* SerializableTx for its next attempt.                                     *)
TxProgress ==
  \A r \in Requests :
    /\ pc[r] \in {"update", "insert", "notify", "commit", "indoubt"} => read[r].sender >= Amount(r)
    /\ pc[r] \in {"insert", "notify", "commit", "indoubt"} =>
          /\ written[r] = [sender |-> read[r].sender - Amount(r),
                           receiver |-> read[r].receiver + Amount(r)]
          /\ written[r].receiver <= MaxBalance
    /\ pc[r] = "commit" =>
          /\ res[r].senderBalance = written[r].sender
          /\ res[r].receiverBalance = written[r].receiver
    /\ pc[r] = "backoff" => attempt[r] < MaxAttempts

(* An id taken but not committed is new to the table, and larger than the   *)
(* ids of all transfers of the two accounts its holder has locked.          *)
IdsReserved ==
  /\ \A i \in 1..Len(transfers) : transfers[i].id <= lastId
  /\ \A r \in Requests : HasId(r) =>
        /\ res[r].transferID \in 1..lastId
        /\ \A i \in 1..Len(transfers) :
              /\ transfers[i].id # res[r].transferID
              /\ Touches(transfers[i], r) => transfers[i].id < res[r].transferID
        /\ \A q \in Requests : HasId(q) /\ q # r => res[q].transferID # res[r].transferID

(* A request is booked by its commit, and answered only at the end, or with *)
(* its commit in doubt.                                                     *)
BookedAtCommit ==
  \A r \in Requests :
    /\ pc[r] \notin {"committed", "done"} => ~Booked(r)
    /\ pc[r] = "committed" => Booked(r)
    /\ pc[r] \notin {"done", "indoubt"} => reply[r] = 0
    /\ pc[r] = "indoubt" => reply[r] = 500

(* No account is ever overdrawn and no credit overflows its column, however *)
(* transfers that debit and credit the same accounts interleave.            *)
BalancesInRange == \A u \in Users : balance[u] \in 0..MaxBalance

(* What a row of the transfers table says it did to an account, what all of *)
(* them did to it together, and which of them an account took part in.      *)
Effect(u, row) ==
  (IF row.to = u THEN row.amount ELSE 0) - (IF row.from = u THEN row.amount ELSE 0)
Statement(u) ==
  SumOf([i \in 1..Len(transfers) |-> Effect(u, transfers[i])], Len(transfers))
Touching(u) == {i \in 1..Len(transfers) : u \in {transfers[i].from, transfers[i].to}}

(* The three tables agree after every commit, rollback and retry: an        *)
(* account holds its opening balance plus what the transfers table says it  *)
(* received minus what it says it sent, and each user has one notification  *)
(* for each transfer they took part in.                                     *)
TablesAgree ==
  \A u \in Users :
    /\ balance[u] = InitialBalance[u] + Statement(u)
    /\ notified[u] = Cardinality(Touching(u))

(* What SELECT sum(balance) FROM users returns. *)
TotalOf(accounts) ==
  SumOf([u \in 1..MaxUserId |-> IF u \in Users THEN accounts[u] ELSE 0], MaxUserId)

(* No money appears and none is lost, whichever transfers are interleaved,  *)
(* retried, refused at the limit of a column or cut off at their COMMIT.    *)
MoneyConserved == TotalOf(balance) = TotalOf(InitialBalance)

(* The inductive invariant from which the theorems follow: no step of any   *)
(* request, failed, retried or committed, leaves it.                        *)
IInv ==
  /\ TypeOK
  /\ LocksOwned
  /\ LockOrder
  /\ ReadStillCurrent
  /\ TxProgress
  /\ BalancesInRange
  /\ IdsReserved
  /\ IdsFollowCommits
  /\ BookedOnce
  /\ BookedAtCommit
  /\ ReplyTruthful

-----------------------------------------------------------------------------
(* The balances computed in Go for the post-commit event are the balances   *)
(* the commit leaves in the database.                                       *)
EventMatchesCommit ==
  [][\A r \in Requests : pc[r] = "commit" /\ pc'[r] = "committed" =>
        /\ balance'[Sender(r)] = res[r].senderBalance
        /\ balance'[Receiver(r)] = res[r].receiverBalance]_vars

(* Stages a request has before it in the current attempt; a failure that is *)
(* retried skips the rest of them.                                          *)
StagesLeft ==
  [idle |-> 9, begin |-> 8, lock |-> 7, check |-> 6, update |-> 5, insert |-> 4,
   notify |-> 3, commit |-> 2, backoff |-> 1, committed |-> 1, indoubt |-> 1, done |-> 0]

(* r starts one of its remaining attempts, goes on within its attempt, or   *)
(* locks one more of its rows.                                              *)
Advances(r) ==
  \/ attempt'[r] > attempt[r]
  \/ attempt'[r] = attempt[r] /\ StagesLeft[pc'[r]] < StagesLeft[pc[r]]
  \/ /\ UNCHANGED <<attempt[r], pc[r]>>
     /\ Unlocked(r)' \subseteq Unlocked(r) /\ Unlocked(r)' # Unlocked(r)

(* Each step takes one request closer to its answer and no other one away   *)
(* from it: no transaction undoes another's progress, so that transfers     *)
(* cannot keep each other retrying (no livelock), and the number of steps a *)
(* request takes is bounded.                                                *)
StepsAreProgress ==
  [][\E r \in Requests :
       /\ Advances(r)
       /\ \A q \in Requests \ {r} : UNCHANGED <<attempt[q], pc[q], Unlocked(q)>>]_vars

(* Every request that arrives is eventually answered: retries are bounded   *)
(* and nobody waits for a row lock or for a pool connection for ever.       *)
EveryRequestAnswered ==
  \A r \in Requests : (pc[r] = "idle") ~> (reply[r] # 0)

(* The transaction machinery implements the one-step account book. *)
L == INSTANCE Ledger WITH log <- transfers
LedgerSpec == L!Spec

(* Towards its callers it keeps the contract of Booking: 400, 404 and 503,  *)
(* the status a caller may answer by trying again, are final, whatever was  *)
(* retried or cut off before them; only a 500 leaves a booking open, made   *)
(* before the reply or by a COMMIT that is still under way.                 *)
Contract == INSTANCE Booking WITH
  Calls <- Requests, Negative <- {400, 404, 503}, Unsure <- {500},
  booked <- [r \in Requests |-> Booked(r)], answer <- reply
BookingSpec == Contract!Spec
=============================================================================
