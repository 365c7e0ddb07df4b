-------------------------- MODULE TransferTxProofs --------------------------
(***************************************************************************)
(* Proofs that the transfer transaction keeps its promises for any number  *)
(* of users, requests, retries and connections.                            *)
(***************************************************************************)
EXTENDS TransferTx, SumTheorems, FiniteSetTheorems, TLAPS

(* Every error status is one of the four the handler sends. *)
LEMMA StatusValues ==
  /\ Errors = {"invalidPayload", "errInsufficientFunds", "errSelfTransfer",
               "errReceiverNotFound", "serializationFailure", "otherError"}
  /\ \A e \in Errors : Status[e] \in {400, 404, 500, 503}
  /\ Status["otherError"] = 500
BY DEF Errors, Status

(* Rows of the transfers table are well formed. *)
LEMMA LogRows ==
  ASSUME TypeOK
  PROVE  /\ Len(transfers) \in Nat
         /\ \A i \in 1..Len(transfers) : /\ transfers[i] \in TransferRows
                                         /\ transfers[i].id \in Nat
                                         /\ transfers[i].from \in Users
                                         /\ transfers[i].to \in Users
<1>1. \A i \in 1..Len(transfers) : transfers[i] \in TransferRows
  BY DEF TypeOK
<1>2. ASSUME NEW row \in TransferRows
      PROVE  row.id \in Nat /\ row.from \in Users /\ row.to \in Users
  BY DEF TransferRows
<1>3. QED
  BY <1>1, <1>2 DEF TypeOK

(* The row lockBothUsers wants next exists and is the lowest it still wants. *)
LEMMA NextRowIsLowest ==
  ASSUME TypeOK, NEW r \in Requests, Unlocked(r) # {}
  PROVE  /\ NextRow(r) \in Unlocked(r)
         /\ \A v \in Unlocked(r) : NextRow(r) <= v
<1>1. Sender(r) \in Nat /\ Receiver(r) \in Nat
  BY TransferAssumption DEF TypeOK, Sender, Receiver
<1>2. Unlocked(r) \subseteq {Sender(r), Receiver(r)}
  BY DEF Unlocked, Matching
<1>3. \E u \in Unlocked(r) : \A v \in Unlocked(r) : u <= v
  BY <1>1, <1>2
<1>4. QED
  BY <1>3 DEF NextRow

(* A rollback releases the locks of r and of nobody else. *)
LEMMA UnlockFrame ==
  ASSUME TypeOK, NEW r \in Requests, lockedBy' = Unlock(r), payload' = payload
  PROVE  /\ lockedBy' \in [Users -> Requests \cup {NoReq}]
         /\ Held(r)' = {}
         /\ \A q \in Requests : /\ Sender(q)' = Sender(q)
                                /\ Receiver(q)' = Receiver(q)
                                /\ Amount(q)' = Amount(q)
                                /\ Matching(q)' = Matching(q)
         /\ \A q \in Requests \ {r} : /\ Held(q)' = Held(q)
                                      /\ Unlocked(q)' = Unlocked(q)
<1>1. lockedBy' \in [Users -> Requests \cup {NoReq}]
  BY DEF TypeOK, Unlock
<1>2. \A q \in Requests : /\ Sender(q)' = Sender(q)
                          /\ Receiver(q)' = Receiver(q)
                          /\ Amount(q)' = Amount(q)
                          /\ Matching(q)' = Matching(q)
  BY DEF Sender, Receiver, Amount, Matching
<1>3. Held(r)' = {}
  BY TransferAssumption DEF Held, Unlock
<1>4. ASSUME NEW q \in Requests \ {r}
      PROVE  Held(q)' = Held(q)
  BY TransferAssumption DEF Held, Unlock
<1>5. QED
  BY <1>1, <1>2, <1>3, <1>4 DEF Unlocked

(* Rolling back and answering with an error leaves the invariant, wherever  *)
(* the transaction was.                                                     *)
LEMMA FailPreserves ==
  ASSUME IInv, NEW r \in Requests, NEW err \in Errors,
         pc[r] \in TxStates \cup {"begin", "indoubt"},
         Fail(r, err)
  PROVE  IInv'
<1> USE DEF IInv
<1> USE DEF Fail, Rollback, ReplyError
<1>0. /\ pc' = [pc EXCEPT ![r] = "done"]
      /\ pc'[r] = "done"
      /\ \A q \in Requests \ {r} : pc'[q] = pc[q]
  BY DEF TypeOK
<1>u. /\ lockedBy' \in [Users -> Requests \cup {NoReq}]
      /\ Held(r)' = {}
      /\ \A q \in Requests : /\ Sender(q)' = Sender(q)
                             /\ Receiver(q)' = Receiver(q)
                             /\ Amount(q)' = Amount(q)
                             /\ Matching(q)' = Matching(q)
      /\ \A q \in Requests \ {r} : /\ Held(q)' = Held(q)
                                   /\ Unlocked(q)' = Unlocked(q)
  BY UnlockFrame
<1>1. TypeOK'
  <2>1. reply' \in [Requests -> {0, 200} \cup {Status[e] : e \in Errors}]
    BY DEF TypeOK
  <2>2. NoRows \in Rows
    BY DEF NoRows, Rows
  <2>3. pc' \in [Requests -> PcStates]
    BY DEF TypeOK, PcStates
  <2>4. QED
    BY <1>u, <2>1, <2>2, <2>3 DEF TypeOK
<1>2. LocksOwned'
  <2>1. \A u \in Users : lockedBy'[u] # NoReq => lockedBy'[u] = lockedBy[u] /\ lockedBy[u] \in Requests \ {r}
    BY DEF Unlock, TypeOK
  <2>2. QED
    BY <1>0, <1>u, <2>1 DEF LocksOwned, TxStates, LockedStates, InTx
<1>3. LockOrder'
  BY <1>0, <1>u DEF LockOrder, TxStates, InTx
<1>4. ReadStillCurrent'
  BY <1>0, <1>u DEF ReadStillCurrent, TypeOK, TxStates, LockedStates
<1>5. TxProgress'
  BY <1>0, <1>u DEF TxProgress, TypeOK
<1>6. BalancesInRange'
  BY DEF BalancesInRange
<1>7. IdsReserved'
  BY <1>0, <1>u DEF IdsReserved, HasId, Touches
<1>8. IdsFollowCommits' /\ BookedOnce'
  BY DEF IdsFollowCommits, BookedOnce
<1>9. BookedAtCommit' /\ ReplyTruthful'
  <2>1. reply' = [reply EXCEPT ![r] = Status[err]] /\ Status[err] # 200
    BY StatusValues
  <2>2. ~Booked(r) /\ \A q \in Requests : Booked(q)' = Booked(q)
    BY DEF BookedAtCommit, Booked, TxStates
  <2>3. QED
    BY <1>0, <2>1, <2>2 DEF BookedAtCommit, ReplyTruthful, TypeOK
<1>10. QED
  BY <1>1, <1>2, <1>3, <1>4, <1>5, <1>6, <1>7, <1>8, <1>9

(* A late rollback is such a failure, whose answer was given before. *)
LEMMA LateRollbackFails ==
  ASSUME IInv, NEW r \in Requests, LateRollback(r)
  PROVE  Fail(r, "otherError")
<1>1. reply = [reply EXCEPT ![r] = Status["otherError"]]
  BY StatusValues DEF LateRollback, IInv, BookedAtCommit, TypeOK
<1> QED
  BY <1>1 DEF LateRollback, Fail, ReplyError

(* A serialization failure either ends the request with 503 or parks it     *)
(* between two attempts, holding nothing.                                   *)
LEMMA FailSerializationPreserves ==
  ASSUME IInv, NEW r \in Requests, pc[r] \in TxStates, FailSerialization(r)
  PROVE  IInv'
<1>a. CASE ReplyError(r, "serializationFailure")
  <2>1. Fail(r, "serializationFailure")
    BY <1>a DEF FailSerialization, Fail
  <2>2. QED
    BY <2>1, FailPreserves, StatusValues
<1>b. CASE /\ attempt[r] < MaxAttempts
           /\ pc' = [pc EXCEPT ![r] = "backoff"]
           /\ UNCHANGED <<payload, attempt, reply>>
  <2> USE DEF IInv, FailSerialization, Rollback
  <2>0. /\ pc'[r] = "backoff"
        /\ \A q \in Requests \ {r} : pc'[q] = pc[q]
    BY <1>b DEF TypeOK
  <2>u. /\ lockedBy' \in [Users -> Requests \cup {NoReq}]
        /\ \A q \in Requests : /\ Sender(q)' = Sender(q)
                               /\ Receiver(q)' = Receiver(q)
                               /\ Amount(q)' = Amount(q)
                               /\ Matching(q)' = Matching(q)
        /\ \A q \in Requests \ {r} : /\ Held(q)' = Held(q)
                                     /\ Unlocked(q)' = Unlocked(q)
    BY <1>b, UnlockFrame
  <2>1. TypeOK'
    BY <1>b, <2>u DEF TypeOK, PcStates, NoRows, Rows
  <2>2. LocksOwned'
    <3>1. \A u \in Users : lockedBy'[u] # NoReq =>
             lockedBy'[u] = lockedBy[u] /\ lockedBy[u] \in Requests \ {r}
      BY DEF Unlock, TypeOK
    <3>2. QED
      BY <2>0, <2>u, <3>1 DEF LocksOwned, TxStates, LockedStates, InTx
  <2>3. LockOrder'
    BY <2>0, <2>u DEF LockOrder, TxStates, InTx
  <2>4. ReadStillCurrent' /\ TxProgress' /\ BalancesInRange'
    BY <1>b, <2>0, <2>u
    DEF ReadStillCurrent, TxProgress, BalancesInRange, TypeOK, TxStates, LockedStates
  <2>5. IdsReserved' /\ IdsFollowCommits' /\ BookedOnce'
    BY <2>0, <2>u DEF IdsReserved, HasId, Touches, IdsFollowCommits, BookedOnce
  <2>6. BookedAtCommit' /\ ReplyTruthful'
    BY <1>b, <2>0 DEF BookedAtCommit, ReplyTruthful, Booked, TxStates
  <2>7. QED
    BY <2>1, <2>2, <2>3, <2>4, <2>5, <2>6
<1>c. QED
  BY <1>a, <1>b DEF FailSerialization

(* Answering a request that has no transaction open. *)
LEMMA ReplyErrorPreserves ==
  ASSUME IInv, NEW r \in Requests, NEW err \in Errors,
         pc[r] \in {"idle", "backoff"},
         ReplyError(r, err), UNCHANGED <<db, missed, read, written, res>>
  PROVE  IInv'
<1> USE DEF IInv, ReplyError, db
<1>0. /\ pc'[r] = "done"
      /\ \A q \in Requests \ {r} : pc'[q] = pc[q]
  BY DEF TypeOK
<1>u. \A q \in Requests : /\ Sender(q)' = Sender(q)
                          /\ Receiver(q)' = Receiver(q)
                          /\ Amount(q)' = Amount(q)
                          /\ Matching(q)' = Matching(q)
                          /\ Held(q)' = Held(q)
                          /\ Unlocked(q)' = Unlocked(q)
  BY DEF Sender, Receiver, Amount, Matching, Held, Unlocked
<1>1. TypeOK'
  BY DEF TypeOK, PcStates
<1>2. LocksOwned'
  BY <1>0, <1>u DEF LocksOwned, TypeOK, TxStates, LockedStates, InTx
<1>3. LockOrder'
  BY <1>0, <1>u DEF LockOrder, TxStates, InTx
<1>4. ReadStillCurrent' /\ TxProgress' /\ BalancesInRange'
  BY <1>0, <1>u DEF ReadStillCurrent, TxProgress, BalancesInRange, TxStates, LockedStates
<1>5. IdsReserved' /\ IdsFollowCommits' /\ BookedOnce'
  BY <1>0, <1>u DEF IdsReserved, HasId, Touches, IdsFollowCommits, BookedOnce
<1>6. BookedAtCommit' /\ ReplyTruthful'
  <2>1. reply' = [reply EXCEPT ![r] = Status[err]] /\ Status[err] # 200
    BY StatusValues
  <2>2. ~Booked(r) /\ \A q \in Requests : Booked(q)' = Booked(q)
    BY DEF BookedAtCommit, Booked
  <2>3. QED
    BY <1>0, <2>1, <2>2 DEF BookedAtCommit, ReplyTruthful, TypeOK
<1>7. QED
  BY <1>1, <1>2, <1>3, <1>4, <1>5, <1>6

(* The steps between statements that touch neither locks nor tables:        *)
(* accepting a request, starting the closure, the balance check, the retry  *)
(* and the final reply.                                                     *)
LEMMA LocalStepPreserves ==
  ASSUME IInv, NEW r \in Requests,
         \/ Accept(r) \/ ResolveReceiver(r) \/ CheckBalance(r)
         \/ Retry(r) \/ ReplySuccess(r)
  PROVE  IInv'
<1> USE DEF IInv
<1>a. /\ UNCHANGED <<db, payload, read, written, res>>
      /\ \/ pc[r] = "idle" /\ pc' = [pc EXCEPT ![r] = "begin"] /\ Amount(r) > 0
         \/ /\ pc[r] = "begin" /\ pc' = [pc EXCEPT ![r] = "lock"]
            /\ Receiver(r) \in Users /\ Receiver(r) # Sender(r)
         \/ /\ pc[r] = "check" /\ pc' = [pc EXCEPT ![r] = "update"]
            /\ read[r].sender >= Amount(r)
         \/ pc[r] = "backoff" /\ pc' = [pc EXCEPT ![r] = "begin"]
         \/ pc[r] = "committed" /\ pc' = [pc EXCEPT ![r] = "done"]
  BY DEF Accept, ResolveReceiver, Begin, CheckBalance, Retry, ReplySuccess
<1>0. /\ r \in Requests /\ pc \in [Requests -> PcStates]
      /\ \A q \in Requests \ {r} : pc'[q] = pc[q]
  BY <1>a DEF TypeOK
<1>u. \A q \in Requests : /\ Sender(q)' = Sender(q)
                          /\ Receiver(q)' = Receiver(q)
                          /\ Amount(q)' = Amount(q)
                          /\ Matching(q)' = Matching(q)
                          /\ Held(q)' = Held(q)
                          /\ Unlocked(q)' = Unlocked(q)
  BY <1>a DEF db, Sender, Receiver, Amount, Matching, Held, Unlocked
<1>1. TypeOK'
  <2>1. attempt' \in [Requests -> 1..MaxAttempts]
    <3>1. CASE Retry(r)
      <4>1. attempt[r] + 1 \in 1..MaxAttempts
        BY <3>1, TransferAssumption DEF Retry, TxProgress, TypeOK
      <4>2. QED
        BY <3>1, <4>1 DEF Retry, TypeOK
    <3>2. CASE attempt' = attempt
      BY <3>2 DEF TypeOK
    <3>3. QED
      BY <3>1, <3>2 DEF Accept, ResolveReceiver, CheckBalance, ReplySuccess
  <2>2. missed' \in [Requests -> SUBSET Nat]
    BY DEF TypeOK, Accept, ResolveReceiver, CheckBalance, Retry, ReplySuccess
  <2>3. reply' \in [Requests -> {0, 200} \cup {Status[e] : e \in Errors}]
    BY DEF TypeOK, Accept, ResolveReceiver, CheckBalance, Retry, ReplySuccess
  <2>4. pc' \in [Requests -> PcStates]
    BY <1>a, <1>0 DEF PcStates, TxStates
  <2>5. QED
    BY <1>a, <2>1, <2>2, <2>3, <2>4 DEF TypeOK, db
<1>2. LocksOwned'
  <2>1. /\ pc[r] \in TxStates => pc'[r] \in TxStates
        /\ pc[r] # "indoubt"
    BY <1>a, <1>0 DEF TxStates
  <2>2. pc'[r] \in LockedStates => pc[r] \in LockedStates
    BY <1>a, <1>0 DEF TxStates, LockedStates
  <2>3. lockedBy' = lockedBy /\ \A u \in Users : lockedBy[u] # NoReq => lockedBy[u] \in Requests
    BY <1>a DEF db, TypeOK
  <2>4. QED
    BY <1>0, <1>u, <2>1, <2>2, <2>3 DEF LocksOwned, InTx
<1>3. LockOrder'
  <2>1. ASSUME pc'[r] = "lock", pc[r] = "begin"
        PROVE  Held(r) = {} /\ Unlocked(r) # {}
    <3>1. Held(r) = {}
      BY <2>1, TransferAssumption DEF Held, LocksOwned, InTx, TxStates, TypeOK
    <3>2. Receiver(r) \in Unlocked(r)
      BY <1>a, <2>1, <3>1, <1>0 DEF Unlocked, Matching
    <3>3. QED
      BY <3>1, <3>2
  <2>2. QED
    BY <1>a, <1>0, <1>u, <2>1 DEF LockOrder, TxStates, InTx
<1>4. ReadStillCurrent'
  BY <1>a, <1>0, <1>u DEF ReadStillCurrent, db, TxStates, LockedStates
<1>5. TxProgress'
  <2>1. \A q \in Requests \ {r} : attempt'[q] = attempt[q]
    BY DEF TypeOK, Accept, ResolveReceiver, CheckBalance, Retry, ReplySuccess
  <2>2. pc'[r] # "backoff"
    BY <1>a, <1>0
  <2>3. QED
    BY <1>a, <1>0, <1>u, <2>1, <2>2 DEF TxProgress
<1>6. IdsReserved' /\ IdsFollowCommits' /\ BookedOnce' /\ BalancesInRange'
  BY <1>a, <1>0, <1>u
  DEF IdsReserved, HasId, Touches, IdsFollowCommits, BookedOnce, BalancesInRange, db
<1>7. BookedAtCommit' /\ ReplyTruthful'
  <2>1. \A q \in Requests : Booked(q)' = Booked(q)
    BY <1>a DEF Booked, db
  <2>2. \/ reply' = reply /\ pc'[r] \notin {"done", "indoubt"}
        \/ pc[r] = "committed" /\ reply' = [reply EXCEPT ![r] = 200] /\ pc'[r] = "done"
    BY <1>a, <1>0 DEF Accept, ResolveReceiver, CheckBalance, Retry, ReplySuccess
  <2>3. pc'[r] = "committed" => pc[r] = "committed"
    BY <1>a, <1>0
  <2>4. pc[r] = "committed" => pc'[r] = "done"
    BY <1>a, <1>0
  <2>5. pc[r] \notin {"done", "indoubt"} /\ reply \in [Requests -> {0, 200} \cup {Status[e] : e \in Errors}]
    BY <1>a DEF TypeOK
  <2>6. QED
    BY <1>0, <2>1, <2>2, <2>3, <2>4, <2>5 DEF BookedAtCommit, ReplyTruthful
<1>8. QED
  BY <1>1, <1>2, <1>3, <1>4, <1>5, <1>6, <1>7

(* Locking one more row. *)
LEMMA TakeLock ==
  ASSUME IInv, NEW r \in Requests, pc[r] = "lock", payload' = payload,
         lockedBy[NextRow(r)] = NoReq,
         lockedBy' = [lockedBy EXCEPT ![NextRow(r)] = r]
  PROVE  /\ NextRow(r) \in Unlocked(r) /\ NextRow(r) \in Users
         /\ lockedBy' \in [Users -> Requests \cup {NoReq}]
         /\ Held(r)' = Held(r) \cup {NextRow(r)}
         /\ Unlocked(r)' = Unlocked(r) \ {NextRow(r)}
         /\ \A v \in Unlocked(r)' : NextRow(r) < v
         /\ \A q \in Requests : /\ Sender(q)' = Sender(q)
                                /\ Receiver(q)' = Receiver(q)
                                /\ Amount(q)' = Amount(q)
                                /\ Matching(q)' = Matching(q)
         /\ \A q \in Requests \ {r} : /\ Held(q)' = Held(q)
                                      /\ Unlocked(q)' = Unlocked(q)
<1> USE DEF IInv
<1>1. Unlocked(r) # {}
  BY DEF LockOrder
<1>2. /\ NextRow(r) \in Unlocked(r)
      /\ \A v \in Unlocked(r) : NextRow(r) <= v
  BY <1>1, NextRowIsLowest
<1>3. NextRow(r) \in Users /\ Unlocked(r) \subseteq Users
  BY <1>2 DEF Unlocked, Matching
<1>4. \A q \in Requests : /\ Sender(q)' = Sender(q)
                          /\ Receiver(q)' = Receiver(q)
                          /\ Amount(q)' = Amount(q)
                          /\ Matching(q)' = Matching(q)
  BY DEF Sender, Receiver, Amount, Matching
<1>5. Held(r)' = Held(r) \cup {NextRow(r)}
  BY <1>3 DEF Held, TypeOK
<1>6. \A q \in Requests \ {r} : Held(q)' = Held(q)
  BY <1>3, TransferAssumption DEF Held, TypeOK
<1>7. Unlocked(r)' = Unlocked(r) \ {NextRow(r)}
  BY <1>4, <1>5 DEF Unlocked
<1>8. ASSUME NEW v \in Unlocked(r)'
      PROVE  NextRow(r) < v
  <2>1. v \in Unlocked(r) /\ v # NextRow(r)
    BY <1>7
  <2>2. v \in Nat /\ NextRow(r) \in Nat /\ NextRow(r) <= v
    BY <1>2, <1>3, <2>1, TransferAssumption
  <2>3. QED
    BY <2>1, <2>2
<1>9. lockedBy' \in [Users -> Requests \cup {NoReq}]
  BY DEF TypeOK
<1>10. QED
  BY <1>2, <1>3, <1>4, <1>5, <1>6, <1>7, <1>8, <1>9 DEF Unlocked

LEMMA LockRowPreserves ==
  ASSUME IInv, NEW r \in Requests, LockRow(r)
  PROVE  IInv'
<1> USE DEF IInv
<1>a. /\ pc[r] = "lock"
      /\ lockedBy[NextRow(r)] = NoReq
      /\ lockedBy' = [lockedBy EXCEPT ![NextRow(r)] = r]
      /\ Unlocked(r) # {NextRow(r)}
      /\ UNCHANGED <<balance, transfers, notified, lastId, pc, payload, attempt,
                     missed, read, written, res, reply>>
  BY DEF LockRow, local
<1>u. /\ NextRow(r) \in Unlocked(r) /\ NextRow(r) \in Users
      /\ lockedBy' \in [Users -> Requests \cup {NoReq}]
      /\ Held(r)' = Held(r) \cup {NextRow(r)}
      /\ Unlocked(r)' = Unlocked(r) \ {NextRow(r)}
      /\ \A v \in Unlocked(r)' : NextRow(r) < v
      /\ \A q \in Requests : /\ Sender(q)' = Sender(q)
                             /\ Receiver(q)' = Receiver(q)
                             /\ Amount(q)' = Amount(q)
                             /\ Matching(q)' = Matching(q)
      /\ \A q \in Requests \ {r} : /\ Held(q)' = Held(q)
                                   /\ Unlocked(q)' = Unlocked(q)
  BY <1>a, TakeLock
<1>1. TypeOK'
  BY <1>a, <1>u DEF TypeOK
<1>2. LocksOwned'
  <2>1. ASSUME NEW u \in Users, lockedBy'[u] # NoReq
        PROVE  (pc[lockedBy[u]] \in TxStates \cup {"indoubt"} /\ u \in Matching(lockedBy[u]))'
    <3>1. CASE u = NextRow(r)
      BY <1>a, <1>u, <3>1 DEF InTx, TxStates, Unlocked, TypeOK
    <3>2. CASE u # NextRow(r)
      BY <1>a, <1>u, <2>1, <3>2 DEF InTx, LocksOwned, TypeOK
    <3>3. QED
      BY <3>1, <3>2
  <2>2. QED
    BY <1>a, <1>u, <2>1 DEF LocksOwned, LockedStates
<1>3. LockOrder'
  <2>1. Unlocked(r)' # {}
    BY <1>a, <1>u
  <2>2. \A u \in Held(r)', v \in Unlocked(r)' : u < v
    BY <1>a, <1>u DEF LockOrder
  <2>3. QED
    BY <1>a, <1>u, <2>1, <2>2 DEF LockOrder, InTx
<1>4. ReadStillCurrent' /\ TxProgress' /\ BalancesInRange'
  BY <1>a, <1>u DEF ReadStillCurrent, TxProgress, BalancesInRange
<1>5. IdsReserved' /\ IdsFollowCommits' /\ BookedOnce'
  BY <1>a, <1>u DEF IdsReserved, HasId, Touches, IdsFollowCommits, BookedOnce
<1>6. BookedAtCommit' /\ ReplyTruthful'
  BY <1>a DEF BookedAtCommit, ReplyTruthful, Booked
<1>7. QED
  BY <1>1, <1>2, <1>3, <1>4, <1>5, <1>6

LEMMA LockLastRowPreserves ==
  ASSUME IInv, NEW r \in Requests, LockLastRow(r)
  PROVE  IInv'
<1> USE DEF IInv
<1>a. /\ pc[r] = "lock"
      /\ lockedBy[NextRow(r)] = NoReq
      /\ Unlocked(r) = {NextRow(r)}
      /\ Sender(r) \in Users
      /\ lockedBy' = [lockedBy EXCEPT ![NextRow(r)] = r]
      /\ read' = [read EXCEPT ![r] = [sender |-> balance[Sender(r)],
                                      receiver |-> balance[Receiver(r)]]]
      /\ pc' = [pc EXCEPT ![r] = "check"]
      /\ UNCHANGED <<balance, transfers, notified, lastId, payload, attempt,
                     missed, written, res, reply>>
  BY DEF LockLastRow
<1>0. /\ pc'[r] = "check"
      /\ \A q \in Requests \ {r} : pc'[q] = pc[q] /\ read'[q] = read[q]
  BY <1>a DEF TypeOK
<1>u. /\ NextRow(r) \in Unlocked(r) /\ NextRow(r) \in Users
      /\ lockedBy' \in [Users -> Requests \cup {NoReq}]
      /\ Held(r)' = Held(r) \cup {NextRow(r)}
      /\ Unlocked(r)' = Unlocked(r) \ {NextRow(r)}
      /\ \A q \in Requests : /\ Sender(q)' = Sender(q)
                             /\ Receiver(q)' = Receiver(q)
                             /\ Amount(q)' = Amount(q)
                             /\ Matching(q)' = Matching(q)
      /\ \A q \in Requests \ {r} : /\ Held(q)' = Held(q)
                                   /\ Unlocked(q)' = Unlocked(q)
  BY <1>a, TakeLock
<1>r. Receiver(r) \in Users /\ Receiver(r) # Sender(r) /\ Amount(r) > 0
  BY <1>a DEF LockOrder, InTx, TxStates
<1>1. TypeOK'
  <2>1. read' \in [Requests -> Rows]
    BY <1>a, <1>r DEF TypeOK, Rows
  <2>2. pc' \in [Requests -> PcStates]
    BY <1>a DEF TypeOK, PcStates, TxStates
  <2>3. QED
    BY <1>a, <1>u, <2>1, <2>2 DEF TypeOK
<1>2. LocksOwned'
  <2>1. ASSUME NEW u \in Users, lockedBy'[u] # NoReq
        PROVE  (pc[lockedBy[u]] \in TxStates \cup {"indoubt"} /\ u \in Matching(lockedBy[u]))'
    <3>1. CASE u = NextRow(r)
      BY <1>a, <1>0, <1>u, <3>1 DEF InTx, TxStates, Unlocked, TypeOK
    <3>2. CASE u # NextRow(r)
      BY <1>a, <1>0, <1>u, <2>1, <3>2 DEF InTx, TxStates, LocksOwned, TypeOK
    <3>3. QED
      BY <3>1, <3>2
  <2>2. Held(r)' = {Sender(r), Receiver(r)}
    <3>1. Matching(r) = {Sender(r), Receiver(r)}
      BY <1>a, <1>r DEF Matching
    <3>2. Held(r) \subseteq Matching(r)
      BY TransferAssumption DEF LocksOwned, Held
    <3>3. QED
      BY <1>a, <1>u, <3>1, <3>2 DEF Unlocked
  <2>3. QED
    BY <1>a, <1>0, <1>u, <1>r, <2>1, <2>2 DEF LocksOwned, LockedStates
<1>3. LockOrder'
  BY <1>0, <1>u, <1>r DEF LockOrder, InTx
<1>4. ReadStillCurrent'
  BY <1>a, <1>0, <1>u DEF ReadStillCurrent, TypeOK
<1>5. TxProgress' /\ BalancesInRange'
  BY <1>a, <1>0, <1>u DEF TxProgress, BalancesInRange
<1>6. IdsReserved' /\ IdsFollowCommits' /\ BookedOnce'
  BY <1>a, <1>0, <1>u DEF IdsReserved, HasId, Touches, IdsFollowCommits, BookedOnce
<1>7. BookedAtCommit' /\ ReplyTruthful'
  BY <1>a, <1>0 DEF BookedAtCommit, ReplyTruthful, Booked
<1>8. QED
  BY <1>1, <1>2, <1>3, <1>4, <1>5, <1>6, <1>7

(* The statements between lockBothUsers and COMMIT: they write only what    *)
(* their own transaction sees, and the sequence.                            *)
LEMMA StatementPreserves ==
  ASSUME IInv, NEW r \in Requests,
         \/ UpdateBalances(r) /\ SchemaAllows(r)
         \/ InsertTransferRecord(r)
         \/ InsertNotifications(r)
  PROVE  IInv'
<1> USE DEF IInv
<1>a. /\ UNCHANGED <<balance, transfers, notified, lockedBy, payload, attempt,
                     missed, read, reply>>
      /\ \/ /\ pc[r] = "update" /\ pc' = [pc EXCEPT ![r] = "insert"]
            /\ written' = [written EXCEPT ![r] = [sender |-> DebitedBalance(r),
                                                  receiver |-> CreditedBalance(r)]]
            /\ UNCHANGED <<lastId, res>>
         \/ /\ pc[r] = "insert" /\ pc' = [pc EXCEPT ![r] = "notify"]
            /\ lastId' = lastId + 1
            /\ res' = [res EXCEPT ![r].transferID = lastId + 1]
            /\ UNCHANGED written
         \/ /\ pc[r] = "notify" /\ pc' = [pc EXCEPT ![r] = "commit"]
            /\ res' = [res EXCEPT ![r].senderBalance = read[r].sender - Amount(r),
                                  ![r].receiverBalance = read[r].receiver + Amount(r)]
            /\ UNCHANGED <<lastId, written>>
  BY DEF UpdateBalances, InsertTransferRecord, InsertNotifications, db
<1>0. /\ pc[r] \in LockedStates /\ pc'[r] \in LockedStates
      /\ pc[r] \notin {"lock", "idle", "committed", "indoubt", "done"}
      /\ pc'[r] \notin {"lock", "backoff", "committed", "indoubt", "done"}
      /\ \A q \in Requests \ {r} : /\ pc'[q] = pc[q]
                                   /\ written'[q] = written[q]
                                   /\ res'[q] = res[q]
  BY <1>a DEF TypeOK, LockedStates, TxStates
<1>u. \A q \in Requests : /\ Sender(q)' = Sender(q)
                          /\ Receiver(q)' = Receiver(q)
                          /\ Amount(q)' = Amount(q)
                          /\ Matching(q)' = Matching(q)
                          /\ Held(q)' = Held(q)
                          /\ Unlocked(q)' = Unlocked(q)
  BY <1>a DEF Sender, Receiver, Amount, Matching, Held, Unlocked
<1>t. /\ Sender(r) \in Users /\ Receiver(r) \in Users
      /\ balance[Sender(r)] \in Int /\ balance[Receiver(r)] \in Int
      /\ Amount(r) \in Int /\ Amount(r) > 0
      /\ read[r] \in Rows /\ lastId \in Nat /\ res[r] \in Results
  <2>1. Amount(r) \in Int
    BY TransferAssumption DEF TypeOK, Amount
  <2>2. QED
    BY <1>0, <2>1 DEF LocksOwned, LockOrder, InTx, LockedStates, TypeOK
<1>1. TypeOK'
  <2>1. written' \in [Requests -> Rows]
    <3>1. DebitedBalance(r) \in Int /\ CreditedBalance(r) \in Int
      BY <1>t DEF DebitedBalance, CreditedBalance
    <3>2. [sender |-> DebitedBalance(r), receiver |-> CreditedBalance(r)] \in Rows
      BY <3>1 DEF Rows
    <3>3. QED
      BY <1>a, <3>2 DEF TypeOK
  <2>2. res' \in [Requests -> Results]
    <3>1. read[r].sender - Amount(r) \in Int /\ read[r].receiver + Amount(r) \in Int
      BY <1>t DEF Rows
    <3>2. [res[r] EXCEPT !.transferID = lastId + 1] \in Results
      BY <1>t DEF Results
    <3>3. [res[r] EXCEPT !.senderBalance = read[r].sender - Amount(r),
                         !.receiverBalance = read[r].receiver + Amount(r)] \in Results
      BY <1>t, <3>1 DEF Results
    <3>4. CASE res' = res
      BY <3>4 DEF TypeOK
    <3>5. CASE res' = [res EXCEPT ![r].transferID = lastId + 1]
      BY <3>2, <3>5 DEF TypeOK
    <3>6. CASE res' = [res EXCEPT ![r].senderBalance = read[r].sender - Amount(r),
                                  ![r].receiverBalance = read[r].receiver + Amount(r)]
      BY <3>3, <3>6 DEF TypeOK
    <3>7. QED
      BY <1>a, <3>4, <3>5, <3>6
  <2>3. pc' \in [Requests -> PcStates] /\ lastId' \in Nat
    <3>1. {"insert", "notify", "commit"} \subseteq PcStates
      BY DEF PcStates, TxStates
    <3>2. lastId' \in Nat
      BY <1>a, <1>t
    <3>3. QED
      BY <1>a, <3>1, <3>2 DEF TypeOK
  <2>4. QED
    BY <1>a, <2>1, <2>2, <2>3 DEF TypeOK
<1>2. LocksOwned'
  <2>1. \A u \in Users : lockedBy[u] # NoReq => lockedBy[u] \in Requests
    BY DEF TypeOK
  <2>2. QED
    BY <1>a, <1>0, <1>u, <2>1 DEF LocksOwned, InTx, LockedStates
<1>3. LockOrder'
  BY <1>0, <1>u, <1>t DEF LockOrder, InTx, LockedStates
<1>4. ReadStillCurrent' /\ BalancesInRange'
  BY <1>a, <1>0, <1>u DEF ReadStillCurrent, BalancesInRange
<1>5. TxProgress'
  <2>1. read[r].sender >= Amount(r) /\ read[r].sender \in Int /\ read[r].receiver \in Int
    BY <1>a, <1>t DEF TxProgress, Rows
  <2>2. read[r] = [sender |-> balance[Sender(r)], receiver |-> balance[Receiver(r)]]
    BY <1>0 DEF ReadStillCurrent
  <2>3. pc'[r] \in {"insert", "notify", "commit"} /\
        written'[r] = [sender |-> read[r].sender - Amount(r),
                       receiver |-> read[r].receiver + Amount(r)]
    BY <1>a, <1>0, <2>2 DEF TxProgress, TypeOK, DebitedBalance, CreditedBalance
  <2>4. pc'[r] = "commit" => /\ res'[r].senderBalance = written'[r].sender
                             /\ res'[r].receiverBalance = written'[r].receiver
    BY <1>a, <1>0, <1>t, <2>3 DEF TypeOK, Results
  <2>5. written'[r].receiver <= MaxBalance
    <3>1. CASE pc[r] = "update"
      BY <1>a, <1>t, <2>2, <2>3, <3>1 DEF UpdateBalances, SchemaAllows, CreditedBalance,
         InsertTransferRecord, InsertNotifications
    <3>2. CASE pc[r] \in {"insert", "notify"}
      BY <1>a, <3>2 DEF TxProgress
    <3>3. QED
      BY <1>a, <3>1, <3>2
  <2>6. QED
    BY <1>a, <1>0, <1>u, <2>1, <2>3, <2>4, <2>5 DEF TxProgress
<1>6. IdsReserved'
  <2>1. CASE lastId' = lastId
    <3>1. res'[r].transferID = res[r].transferID /\ (HasId(r)' => HasId(r))
      BY <1>a, <1>t, <2>1 DEF HasId, TypeOK, Results
    <3>2. QED
      BY <1>a, <1>0, <1>u, <2>1, <3>1 DEF IdsReserved, HasId, Touches
  <2>2. CASE lastId' = lastId + 1
    <3>1. res'[r].transferID = lastId + 1
      BY <1>a, <1>t, <2>2 DEF TypeOK, Results
    <3>2. \A i \in 1..Len(transfers) : transfers[i].id \in Nat
      BY LogRows
    <3>3. \A q \in Requests : res[q].transferID \in Nat
      BY DEF TypeOK, Results
    <3>4. QED
      BY <1>a, <1>0, <1>u, <1>t, <2>2, <3>1, <3>2, <3>3 DEF IdsReserved, HasId, Touches
  <2>3. QED
    BY <1>a, <2>1, <2>2
<1>7. IdsFollowCommits' /\ BookedOnce'
  BY <1>a DEF IdsFollowCommits, BookedOnce
<1>8. BookedAtCommit' /\ ReplyTruthful'
  BY <1>a, <1>0 DEF BookedAtCommit, ReplyTruthful, Booked
<1>9. QED
  BY <1>1, <1>2, <1>3, <1>4, <1>5, <1>6, <1>7, <1>8

(* What is known of a request at its COMMIT. *)
LEMMA CommitFacts ==
  ASSUME IInv, NEW r \in Requests, AtCommit(r)
  PROVE  /\ Sender(r) \in Users /\ Receiver(r) \in Users /\ Sender(r) # Receiver(r)
         /\ Amount(r) \in Nat \ {0}
         /\ balance[Sender(r)] \in Int /\ balance[Receiver(r)] \in Int
         /\ balance[Sender(r)] >= Amount(r)
         /\ written[r] = [sender |-> balance[Sender(r)] - Amount(r),
                          receiver |-> balance[Receiver(r)] + Amount(r)]
         /\ Held(r) = {Sender(r), Receiver(r)}
         /\ ~Booked(r)
         /\ TransferRow(r) \in TransferRows
<1> USE DEF IInv, AtCommit
<1>1. /\ Sender(r) \in Users /\ Receiver(r) \in Users /\ Sender(r) # Receiver(r)
      /\ Held(r) = {Sender(r), Receiver(r)}
  BY DEF LocksOwned, LockOrder, InTx, LockedStates, TxStates
<1>2. Amount(r) \in Nat \ {0}
  <2>1. Amount(r) \in Int
    BY TransferAssumption DEF TypeOK, Amount
  <2>2. Amount(r) > 0
    BY DEF LockOrder, TxStates
  <2>3. QED
    BY <2>1, <2>2
<1>3. read[r] = [sender |-> balance[Sender(r)], receiver |-> balance[Receiver(r)]]
  BY DEF ReadStillCurrent, LockedStates, TxStates
<1>4. /\ balance[Sender(r)] >= Amount(r)
      /\ written[r] = [sender |-> balance[Sender(r)] - Amount(r),
                       receiver |-> balance[Receiver(r)] + Amount(r)]
  BY <1>3 DEF TxProgress
<1>5. balance[Sender(r)] \in Int /\ balance[Receiver(r)] \in Int
  BY <1>1 DEF TypeOK
<1>6. ~Booked(r)
  BY DEF BookedAtCommit
<1>7. TransferRow(r) \in TransferRows
  <2>1. res[r].transferID \in Nat \ {0}
    BY DEF IdsReserved, HasId, TypeOK
  <2>2. QED
    BY <1>1, <1>2, <2>1 DEF TransferRow, TransferRows
<1>8. QED
  BY <1>1, <1>2, <1>4, <1>5, <1>6, <1>7

(* A commit changes two rows of users and adds one row to transfers. *)
LEMMA CommitEffect ==
  ASSUME IInv, NEW r \in Requests, AtCommit(r), ApplyCommit(r)
  PROVE  /\ balance' = [balance EXCEPT ![Sender(r)] = @ - Amount(r),
                                       ![Receiver(r)] = @ + Amount(r)]
         /\ balance'[Sender(r)] = balance[Sender(r)] - Amount(r)
         /\ balance'[Receiver(r)] = balance[Receiver(r)] + Amount(r)
         /\ \A u \in Users \ {Sender(r), Receiver(r)} : balance'[u] = balance[u]
         /\ Len(transfers') = Len(transfers) + 1
         /\ transfers'[Len(transfers) + 1] = TransferRow(r)
         /\ \A i \in 1..Len(transfers) : transfers'[i] = transfers[i]
         /\ \A q \in Requests : Booked(q)' <=> (Booked(q) \/ q = r)
<1>0. /\ Sender(r) \in Users /\ Receiver(r) \in Users /\ Sender(r) # Receiver(r)
      /\ written[r] = [sender |-> balance[Sender(r)] - Amount(r),
                       receiver |-> balance[Receiver(r)] + Amount(r)]
  BY CommitFacts
<1>1. /\ Sender(r) \in Users /\ Receiver(r) \in Users /\ Sender(r) # Receiver(r)
      /\ written[r].sender = balance[Sender(r)] - Amount(r)
      /\ written[r].receiver = balance[Receiver(r)] + Amount(r)
  BY <1>0
<1>2. balance' = [balance EXCEPT ![Sender(r)] = @ - Amount(r),
                                 ![Receiver(r)] = @ + Amount(r)]
  BY <1>1 DEF ApplyCommit, IInv, TypeOK
<1>3. /\ balance'[Sender(r)] = balance[Sender(r)] - Amount(r)
      /\ balance'[Receiver(r)] = balance[Receiver(r)] + Amount(r)
      /\ \A u \in Users \ {Sender(r), Receiver(r)} : balance'[u] = balance[u]
  BY <1>1, <1>2 DEF IInv, TypeOK
<1>4. /\ Len(transfers') = Len(transfers) + 1
      /\ transfers'[Len(transfers) + 1] = TransferRow(r)
      /\ \A i \in 1..Len(transfers) : transfers'[i] = transfers[i]
  BY CommitFacts DEF ApplyCommit, IInv, TypeOK
<1>5. ASSUME NEW q \in Requests
      PROVE  Booked(q)' <=> (Booked(q) \/ q = r)
  <2>1. Len(transfers) \in Nat /\ TransferRow(r).by = r
    BY LogRows DEF IInv, TransferRow
  <2>2. QED
    BY <1>4, <2>1 DEF Booked
<1>6. QED
  BY <1>2, <1>3, <1>4, <1>5

(* A commit leaves the invariant, whether or not its answer arrives, and    *)
(* before or after the reply.                                               *)
LEMMA CommitPreserves ==
  ASSUME IInv, NEW r \in Requests, Commit(r) \/ CommitAnswerLost(r) \/ LateCommit(r)
  PROVE  IInv'
<1> USE DEF IInv
<1>a. /\ AtCommit(r)
      /\ ApplyCommit(r)
      /\ \/ pc[r] = "commit" /\ pc' = [pc EXCEPT ![r] = "committed"] /\ reply' = reply
         \/ pc' = [pc EXCEPT ![r] = "done"] /\ reply' = [reply EXCEPT ![r] = 500]
  <2>1. CASE Commit(r) \/ CommitAnswerLost(r)
    BY <2>1, StatusValues DEF Commit, CommitAnswerLost, AtCommit
  <2>2. CASE LateCommit(r)
    <3>1. reply = [reply EXCEPT ![r] = 500]
      BY <2>2 DEF LateCommit, BookedAtCommit, TypeOK
    <3> QED
      BY <2>2, <3>1 DEF LateCommit, AtCommit
  <2> QED
    BY <2>1, <2>2
<1>b. /\ lockedBy' = Unlock(r)
      /\ read' = [read EXCEPT ![r] = NoRows]
      /\ written' = [written EXCEPT ![r] = NoRows]
      /\ UNCHANGED <<lastId, payload, attempt, res>>
  BY <1>a DEF ApplyCommit
<1>0. /\ pc'[r] \in {"committed", "done"}
      /\ \A q \in Requests \ {r} : /\ pc'[q] = pc[q]
                                   /\ read'[q] = read[q]
                                   /\ written'[q] = written[q]
                                   /\ reply'[q] = reply[q]
  BY <1>a, <1>b DEF TypeOK
<1>u. /\ lockedBy' \in [Users -> Requests \cup {NoReq}]
      /\ \A q \in Requests : /\ Sender(q)' = Sender(q)
                             /\ Receiver(q)' = Receiver(q)
                             /\ Amount(q)' = Amount(q)
                             /\ Matching(q)' = Matching(q)
      /\ \A q \in Requests \ {r} : /\ Held(q)' = Held(q)
                                   /\ Unlocked(q)' = Unlocked(q)
  BY <1>b, UnlockFrame
<1>f. /\ Sender(r) \in Users /\ Receiver(r) \in Users /\ Sender(r) # Receiver(r)
      /\ Amount(r) \in Nat \ {0}
      /\ balance[Sender(r)] \in Int /\ balance[Receiver(r)] \in Int
      /\ balance[Sender(r)] >= Amount(r)
      /\ Held(r) = {Sender(r), Receiver(r)}
      /\ ~Booked(r)
      /\ TransferRow(r) \in TransferRows
  BY <1>a, CommitFacts
<1>e. /\ balance' = [balance EXCEPT ![Sender(r)] = @ - Amount(r),
                                    ![Receiver(r)] = @ + Amount(r)]
      /\ balance'[Sender(r)] = balance[Sender(r)] - Amount(r)
      /\ balance'[Receiver(r)] = balance[Receiver(r)] + Amount(r)
      /\ \A u \in Users \ {Sender(r), Receiver(r)} : balance'[u] = balance[u]
      /\ Len(transfers') = Len(transfers) + 1
      /\ transfers'[Len(transfers) + 1] = TransferRow(r)
      /\ \A i \in 1..Len(transfers) : transfers'[i] = transfers[i]
      /\ \A q \in Requests : Booked(q)' <=> (Booked(q) \/ q = r)
  BY <1>a, CommitEffect
<1>l. /\ Len(transfers) \in Nat
      /\ \A i \in 1..Len(transfers) : transfers[i].id \in Nat
      /\ 1..Len(transfers') = (1..Len(transfers)) \cup {Len(transfers) + 1}
  BY <1>e, LogRows
<1>d. ASSUME NEW q \in Requests \ {r}, pc[q] \in LockedStates
      PROVE  /\ Sender(q) \in Users \ {Sender(r), Receiver(r)}
             /\ Receiver(q) \in Users \ {Sender(r), Receiver(r)}
  <2>1. Held(q) = {Sender(q), Receiver(q)}
    BY <1>d DEF LocksOwned
  <2>2. QED
    BY <1>f, <2>1 DEF Held
<1>1. TypeOK'
  <2>1. balance' \in [Users -> Int]
    BY <1>e, <1>f DEF TypeOK
  <2>2. transfers' \in Seq(TransferRows)
    BY <1>a, <1>f DEF TypeOK, ApplyCommit
  <2>3. notified' \in [Users -> Nat]
    BY <1>a, <1>f DEF TypeOK, ApplyCommit
  <2>4. missed' \in [Requests -> SUBSET Nat]
    <3>1. {Sender(r), Receiver(r)} \subseteq Nat
      BY <1>f, TransferAssumption
    <3>2. missed' = [q \in Requests |-> IF q = r \/ ~InTx(q) THEN {}
                                        ELSE missed[q] \cup {Sender(r), Receiver(r)}]
      BY <1>a DEF ApplyCommit
    <3>3. QED
      BY <3>1, <3>2 DEF TypeOK
  <2>5. pc' \in [Requests -> PcStates]
    BY <1>a DEF TypeOK, PcStates
  <2>6. reply' \in [Requests -> {0, 200} \cup {Status[e] : e \in Errors}]
    <3>1. 500 \in {Status[e] : e \in Errors}
      BY StatusValues
    <3>2. CASE reply' = reply
      BY <3>2 DEF TypeOK
    <3>3. CASE reply' = [reply EXCEPT ![r] = 500]
      BY <3>1, <3>3 DEF TypeOK
    <3>4. QED
      BY <1>a, <3>2, <3>3
  <2>7. read' \in [Requests -> Rows] /\ written' \in [Requests -> Rows]
    BY <1>b DEF TypeOK, NoRows, Rows
  <2>8. QED
    BY <1>b, <1>u, <2>1, <2>2, <2>3, <2>4, <2>5, <2>6, <2>7 DEF TypeOK
<1>2. LocksOwned'
  <2>1. \A u \in Users : lockedBy'[u] # NoReq =>
           lockedBy'[u] = lockedBy[u] /\ lockedBy[u] \in Requests \ {r}
    BY <1>b DEF Unlock, TypeOK
  <2>2. QED
    BY <1>0, <1>u, <2>1 DEF LocksOwned, TxStates, LockedStates, InTx
<1>3. LockOrder'
  BY <1>0, <1>u DEF LockOrder, TxStates, InTx
<1>4. ReadStillCurrent'
  BY <1>0, <1>u, <1>d, <1>e DEF ReadStillCurrent, LockedStates, TxStates
<1>5. TxProgress'
  BY <1>0, <1>b, <1>u DEF TxProgress
<1>6. BalancesInRange'
  <2>1. balance[Receiver(r)] + Amount(r) <= MaxBalance
    <3>1. written[r] = [sender |-> balance[Sender(r)] - Amount(r),
                        receiver |-> balance[Receiver(r)] + Amount(r)]
      BY <1>a, CommitFacts
    <3>2. written[r].receiver <= MaxBalance
      BY <1>a DEF TxProgress, AtCommit
    <3>3. QED
      BY <3>1, <3>2
  <2>2. balance'[Sender(r)] \in 0..MaxBalance /\ balance'[Receiver(r)] \in 0..MaxBalance
    <3>1. balance[Sender(r)] \in 0..MaxBalance /\ balance[Receiver(r)] \in 0..MaxBalance
      BY <1>f DEF BalancesInRange
    <3>2. MaxBalance \in Nat
      BY TransferAssumption
    <3>3. QED
      BY <1>e, <1>f, <2>1, <3>1, <3>2
  <2>3. QED
    BY <1>e, <2>2 DEF BalancesInRange
<1>7. IdsReserved'
  <2>1. HasId(r) /\ ~HasId(r)' /\ TransferRow(r).id = res[r].transferID
    BY <1>a, <1>0 DEF HasId, AtCommit, TransferRow
  <2>2. \A q \in Requests \ {r} : HasId(q) => ~Touches(TransferRow(r), q)
    BY <1>d DEF HasId, LockedStates, TxStates, Touches, TransferRow
  <2>3. \A i \in 1..Len(transfers') : transfers'[i].id <= lastId'
    BY <1>b, <1>e, <1>l, <2>1 DEF IdsReserved
  <2>4. ASSUME NEW q \in Requests, HasId(q)'
        PROVE  q # r /\ HasId(q)
    BY <1>0, <2>1, <2>4 DEF HasId
  <2>5. ASSUME NEW q \in Requests, HasId(q)', NEW i \in 1..Len(transfers')
        PROVE  (/\ transfers[i].id # res[q].transferID
                /\ Touches(transfers[i], q) => transfers[i].id < res[q].transferID)'
    <3>1. CASE i \in 1..Len(transfers)
      BY <1>b, <1>e, <1>u, <2>4, <2>5, <3>1 DEF IdsReserved, Touches
    <3>2. CASE i = Len(transfers) + 1
      <4>1. ~Touches(transfers[i], q)'
        BY <1>e, <1>u, <2>2, <2>4, <2>5, <3>2 DEF Touches
      <4>2. res[q].transferID # res[r].transferID
        BY <2>1, <2>4, <2>5 DEF IdsReserved
      <4>3. QED
        BY <1>b, <1>e, <2>1, <3>2, <4>1, <4>2
    <3>3. QED
      BY <1>l, <3>1, <3>2
  <2>6. QED
    BY <1>b, <2>3, <2>4, <2>5 DEF IdsReserved
<1>8. IdsFollowCommits'
  BY <1>a, <1>e, <1>l DEF IdsFollowCommits, IdsReserved, HasId, AtCommit, Touches, TransferRow
<1>9. BookedOnce'
  BY <1>e, <1>f, <1>l DEF BookedOnce, Booked, TransferRow
<1>10. BookedAtCommit' /\ ReplyTruthful'
  BY <1>a, <1>0, <1>e DEF BookedAtCommit, ReplyTruthful, TypeOK
<1>11. QED
  BY <1>1, <1>2, <1>3, <1>4, <1>5, <1>6, <1>7, <1>8, <1>9, <1>10

(* The handler gives up its COMMIT: the transaction stays open at the       *)
(* server, with its locks and its id.                                       *)
LEMMA InDoubtPreserves ==
  ASSUME IInv, NEW r \in Requests, CommitInDoubt(r)
  PROVE  IInv'
<1> USE DEF IInv
<1>a. /\ pc[r] = "commit"
      /\ pc' = [pc EXCEPT ![r] = "indoubt"]
      /\ reply' = [reply EXCEPT ![r] = 500]
      /\ UNCHANGED <<balance, transfers, notified, lastId, lockedBy, payload, attempt,
                     missed, read, written, res>>
  BY StatusValues DEF CommitInDoubt, db
<1>0. /\ pc'[r] = "indoubt" /\ reply'[r] = 500
      /\ \A q \in Requests \ {r} : pc'[q] = pc[q] /\ reply'[q] = reply[q]
  BY <1>a DEF TypeOK
<1>u. \A q \in Requests : /\ Sender(q)' = Sender(q)
                          /\ Receiver(q)' = Receiver(q)
                          /\ Amount(q)' = Amount(q)
                          /\ Matching(q)' = Matching(q)
                          /\ Held(q)' = Held(q)
                          /\ Unlocked(q)' = Unlocked(q)
  BY <1>a DEF Sender, Receiver, Amount, Matching, Held, Unlocked
<1>1. TypeOK'
  <2>1. 500 \in {Status[e] : e \in Errors} /\ "indoubt" \in PcStates
    BY StatusValues DEF PcStates
  <2> QED
    BY <1>a, <2>1 DEF TypeOK
<1>2. LocksOwned'
  <2>1. \A u \in Users : lockedBy[u] # NoReq => lockedBy[u] \in Requests
    BY DEF TypeOK
  <2> QED
    BY <1>a, <1>0, <1>u, <2>1 DEF LocksOwned, LockedStates, TxStates
<1>3. LockOrder'
  BY <1>a, <1>0, <1>u DEF LockOrder, InTx, TxStates
<1>4. ReadStillCurrent' /\ TxProgress' /\ BalancesInRange'
  BY <1>a, <1>0, <1>u
  DEF ReadStillCurrent, TxProgress, BalancesInRange, LockedStates, TxStates
<1>5. IdsReserved' /\ IdsFollowCommits' /\ BookedOnce'
  BY <1>a, <1>0, <1>u DEF IdsReserved, HasId, Touches, IdsFollowCommits, BookedOnce
<1>6. BookedAtCommit' /\ ReplyTruthful'
  BY <1>a, <1>0 DEF BookedAtCommit, ReplyTruthful, Booked
<1> QED
  BY <1>1, <1>2, <1>3, <1>4, <1>5, <1>6

-----------------------------------------------------------------------------
(* Initially nothing is locked, booked or answered. *)
LEMMA InitEstablishes == Init => IInv
<1> SUFFICES ASSUME Init PROVE IInv
  OBVIOUS
<1> USE DEF Init
<1>1. TypeOK
  <2>1. InitialBalance \in [Users -> Int] /\ 1 \in 1..MaxAttempts
    BY TransferAssumption
  <2>2. NoRows \in Rows /\ NoResult \in Results /\ "idle" \in PcStates
    BY DEF NoRows, Rows, NoResult, Results, PcStates
  <2>3. transfers \in Seq(TransferRows)
    OBVIOUS
  <2>4. QED
    BY <2>1, <2>2, <2>3 DEF TypeOK
<1>2. \A r \in Requests : pc[r] = "idle" /\ reply[r] = 0 /\ ~Booked(r)
  BY DEF Booked
<1>3. LocksOwned
  BY <1>2 DEF LocksOwned, LockedStates, TxStates
<1>4. LockOrder
  BY <1>2 DEF LockOrder, TxStates, InTx
<1>5. ReadStillCurrent /\ TxProgress
  BY <1>2 DEF ReadStillCurrent, TxProgress, LockedStates, TxStates
<1>6. IdsReserved /\ IdsFollowCommits /\ BookedOnce
  BY <1>2 DEF IdsReserved, IdsFollowCommits, BookedOnce, HasId
<1>7. BookedAtCommit /\ ReplyTruthful /\ BalancesInRange
  BY <1>2, TransferAssumption DEF BookedAtCommit, ReplyTruthful, BalancesInRange
<1>8. QED
  BY <1>1, <1>3, <1>4, <1>5, <1>6, <1>7 DEF IInv

(* Every step of every request, faults included, leaves the invariant. *)
LEMMA NextPreserves == IInv /\ [Next]_vars => IInv'
<1> SUFFICES ASSUME IInv, [Next]_vars PROVE IInv'
  OBVIOUS
<1>e. {"invalidPayload", "errInsufficientFunds", "errSelfTransfer",
       "errReceiverNotFound", "otherError"} \subseteq Errors
  BY StatusValues
<1>1. ASSUME NEW r \in Requests,
             \/ Accept(r) \/ ResolveReceiver(r) \/ CheckBalance(r)
             \/ Retry(r) \/ ReplySuccess(r)
      PROVE  IInv'
  BY <1>1, LocalStepPreserves
<1>2. ASSUME NEW r \in Requests, Reject(r)
      PROVE  IInv'
  BY <1>2, <1>e, ReplyErrorPreserves DEF Reject
<1>3. ASSUME NEW r \in Requests, CancelBackoff(r)
      PROVE  IInv'
  BY <1>3, <1>e, ReplyErrorPreserves DEF CancelBackoff
<1>4. ASSUME NEW r \in Requests,
             \/ ReceiverNotFound(r) \/ SelfTransfer(r) \/ SenderRowMissing(r)
             \/ InsufficientFunds(r) \/ DatabaseError(r)
             \/ UpdateBalances(r) /\ ~SchemaAllows(r)
      PROVE  IInv'
  <2>1. pc[r] \in TxStates \cup {"begin"}
    BY <1>4 DEF ReceiverNotFound, SelfTransfer, SenderRowMissing, InsufficientFunds,
                DatabaseError, UpdateBalances, Begin, InTx, TxStates
  <2>2. \E err \in Errors : Fail(r, err)
    BY <1>4, <1>e DEF ReceiverNotFound, SelfTransfer, SenderRowMissing,
                      InsufficientFunds, DatabaseError, UpdateBalances
  <2>3. QED
    BY <2>1, <2>2, FailPreserves
<1>5. ASSUME NEW r \in Requests, LockRow(r)
      PROVE  IInv'
  BY <1>5, LockRowPreserves
<1>6. ASSUME NEW r \in Requests, LockLastRow(r)
      PROVE  IInv'
  BY <1>6, LockLastRowPreserves
<1>7. ASSUME NEW r \in Requests, LockStaleRow(r) \/ SerializationFailure(r)
      PROVE  IInv'
  BY <1>7, FailSerializationPreserves DEF LockStaleRow, SerializationFailure, InTx, TxStates
<1>8. ASSUME NEW r \in Requests,
             \/ UpdateBalances(r) /\ SchemaAllows(r)
             \/ InsertTransferRecord(r)
             \/ InsertNotifications(r)
      PROVE  IInv'
  BY <1>8, StatementPreserves
<1>9. ASSUME NEW r \in Requests, Commit(r) \/ CommitAnswerLost(r) \/ LateCommit(r)
      PROVE  IInv'
  BY <1>9, CommitPreserves
<1>d. ASSUME NEW r \in Requests, CommitInDoubt(r)
      PROVE  IInv'
  BY <1>d, InDoubtPreserves
<1>l. ASSUME NEW r \in Requests, LateRollback(r)
      PROVE  IInv'
  BY <1>l, <1>e, LateRollbackFails, FailPreserves DEF LateRollback
<1>10. CASE UNCHANGED vars
  BY <1>10 DEF vars, IInv, TypeOK, LocksOwned, LockOrder, ReadStillCurrent, TxProgress,
     BalancesInRange, IdsReserved, IdsFollowCommits, BookedOnce, BookedAtCommit, ReplyTruthful,
     Booked, HasId, Touches, InTx, Sender, Receiver, Amount, Matching, Held, Unlocked
<1>11. QED
  BY <1>1, <1>2, <1>3, <1>4, <1>5, <1>6, <1>7, <1>8, <1>9, <1>d, <1>l, <1>10
  DEF Next, Step, Fault, Resolve, AllDone

(* The inductive invariant holds in every reachable state, for any number   *)
(* of users, requests, attempts and connections.                            *)
THEOREM Invariance == Spec => []IInv
BY InitEstablishes, NextPreserves, PTL DEF Spec

(* Type correctness of the transaction machinery. *)
THEOREM TypeCorrect == Spec => []TypeOK
<1>1. IInv => TypeOK
  BY DEF IInv
<1>2. QED
  BY <1>1, Invariance, PTL

(* The balance check of runTransferTx is never stale when it is used. *)
THEOREM NoStaleRead == Spec => []ReadStillCurrent
<1>1. IInv => ReadStillCurrent
  BY DEF IInv
<1>2. QED
  BY <1>1, Invariance, PTL

(* No transfer overdraws its sender or overflows its receiver's balance. *)
THEOREM NoOverdraft == Spec => []BalancesInRange
<1>1. IInv => BalancesInRange
  BY DEF IInv
<1>2. QED
  BY <1>1, Invariance, PTL

(* No retry books a request twice. *)
THEOREM AtMostOnce == Spec => []BookedOnce
<1>1. IInv => BookedOnce
  BY DEF IInv
<1>2. QED
  BY <1>1, Invariance, PTL

(* Replies never lie about what is in the database. *)
THEOREM TruthfulReplies == Spec => []ReplyTruthful
<1>1. IInv => ReplyTruthful
  BY DEF IInv
<1>2. QED
  BY <1>1, Invariance, PTL

(* Transfer ids grow along the history of each account. *)
THEOREM OrderedIds == Spec => []IdsFollowCommits
<1>1. IInv => IdsFollowCommits
  BY DEF IInv
<1>2. QED
  BY <1>1, Invariance, PTL

(* lockBothUsers locks in the order of the ids: a request that waits for a  *)
(* row of another one that waits wants a lower row than that one does.      *)
LEMMA WaitsUpwards ==
  ASSUME IInv, NEW r \in Requests, NEW q \in Requests, WaitsForRow(r, q)
  PROVE  /\ InTx(q) \/ pc[q] = "indoubt"
         /\ NextRow(r) \in Users
         /\ pc[q] = "lock" => NextRow(q) \in Users /\ NextRow(r) < NextRow(q)
<1> USE DEF IInv
<1>1. Unlocked(r) # {}
  BY DEF WaitsForRow, LockOrder
<1>2. NextRow(r) \in Unlocked(r)
  BY <1>1, NextRowIsLowest
<1>3. NextRow(r) \in Held(q) /\ NextRow(r) \in Users
  BY <1>2 DEF WaitsForRow, Unlocked, Matching, Held
<1>4. InTx(q) \/ pc[q] = "indoubt"
  BY <1>3, TransferAssumption DEF LocksOwned, Held, InTx
<1>5. ASSUME pc[q] = "lock"
      PROVE  NextRow(q) \in Users /\ NextRow(r) < NextRow(q)
  <2>1. NextRow(q) \in Unlocked(q)
    BY <1>5, NextRowIsLowest DEF LockOrder
  <2>2. QED
    BY <1>3, <1>5, <2>1 DEF LockOrder, Unlocked, Matching
<1>6. QED
  BY <1>3, <1>4, <1>5

(* Of requests that wait for rows one wants the highest: ids are bounded.   *)
LEMMA HighestWaiter ==
  ASSUME NEW S, S # {}, NEW row \in [S -> Users]
  PROVE  \E r \in S : \A q \in S : ~(row[r] < row[q])
<1> DEFINE Gap(r) == MaxUserId - row[r]
           T == {Gap(r) : r \in S}
<1>1. T \subseteq Nat /\ T # {} /\ \A r \in S : row[r] \in Int
  BY UserIdAssumption
<1>2. PICK m \in T : \A y \in T : ~(<<y, m>> \in OpToRel(<, Nat))
  <2> HIDE DEF T
  <2> QED
    BY <1>1, NatLessThanWellFounded, WFMin
<1>3. \A y \in T : ~(y < m)
  <2> HIDE DEF T
  <2> QED
    BY <1>1, <1>2 DEF OpToRel
<1>4. PICK r \in S : m = Gap(r)
  BY <1>2
<1>5. ASSUME NEW q \in S PROVE ~(row[r] < row[q])
  <2>1. ~(Gap(q) < Gap(r))
    BY <1>3, <1>4
  <2>2. row[q] \in Int /\ row[r] \in Int /\ MaxUserId \in Int
    BY <1>1, UserIdAssumption
  <2> QED
    BY <2>1, <2>2
<1> QED
  BY <1>5

(* runTransferTx waits for row locks and RunInTx for a connection of the    *)
(* pool: requests never all wait for one another.                           *)
THEOREM NoDeadlock == Spec => []DeadlockFree
<1>1. ASSUME IInv PROVE DeadlockFree
  <2> SUFFICES ASSUME NEW S \in SUBSET Requests, S # {},
                      \A r \in S : \E q \in S : WaitsFor(r, q)
               PROVE  FALSE
    BY DEF DeadlockFree
  <2> DEFINE W == {r \in S : \E q \in S : WaitsForRow(r, q)}
  <2>1. ASSUME NEW q \in S, InTx(q) \/ pc[q] = "indoubt" PROVE q \in W
    BY <2>1 DEF WaitsFor, WaitsForConnection, InTx, TxStates
  <2>2. W # {}
    BY <2>1 DEF WaitsFor, WaitsForConnection
  <2>3. [r \in W |-> NextRow(r)] \in [W -> Users]
    BY <1>1, WaitsUpwards
  <2>4. PICK r \in W : \A q \in W : ~(NextRow(r) < NextRow(q))
    <3> DEFINE row == [x \in W |-> NextRow(x)]
    <3>1. \E r \in W : \A q \in W : ~(row[r] < row[q])
      <4> HIDE DEF W, row
      <4> QED
        BY <2>2, <2>3, HighestWaiter DEF row
    <3> QED
      BY <3>1
  <2>5. PICK q \in S : WaitsForRow(r, q)
    BY <2>4
  <2>6. q \in W
    BY <1>1, <2>1, <2>4, <2>5, WaitsUpwards
  <2>7. pc[q] = "lock"
    BY <2>6 DEF WaitsForRow
  <2> QED
    BY <1>1, <2>4, <2>5, <2>6, <2>7, WaitsUpwards
<1>2. QED
  BY <1>1, Invariance, PTL

(* The balances of the post-commit event are the committed ones. *)
THEOREM EventsCarryCommittedBalances == Spec => EventMatchesCommit
<1> DEFINE Matches == \A r \in Requests : pc[r] = "commit" /\ pc'[r] = "committed" =>
                         /\ balance'[Sender(r)] = res[r].senderBalance
                         /\ balance'[Receiver(r)] = res[r].receiverBalance
<1>1. ASSUME IInv, [Next]_vars PROVE [Matches]_vars
  <2> SUFFICES ASSUME Next, NEW r \in Requests, pc[r] = "commit", pc'[r] = "committed"
               PROVE  /\ balance'[Sender(r)] = res[r].senderBalance
                      /\ balance'[Receiver(r)] = res[r].receiverBalance
    BY <1>1
  <2>1. pc \in [Requests -> PcStates]
    BY <1>1 DEF IInv, TypeOK
  <2>2. ApplyCommit(r)
    <3>1. PICK q \in Requests : Step(q) \/ Fault(q) \/ Resolve(q)
      BY DEF Next, AllDone, vars
    <3>2. QED
      BY <2>1, <3>1
      DEF Step, Fault, Resolve, Accept, Reject, ResolveReceiver, ReceiverNotFound, SelfTransfer,
          LockRow, LockLastRow, SenderRowMissing, LockStaleRow, CheckBalance,
          InsufficientFunds, UpdateBalances, InsertTransferRecord, InsertNotifications,
          Commit, CommitAnswerLost, CommitInDoubt, LateCommit,
      LateRollback, AtCommit, ReplySuccess, Retry, SerializationFailure,
          DatabaseError, CancelBackoff, Fail, FailSerialization, ReplyError, local
  <2>3. /\ balance'[Sender(r)] = balance[Sender(r)] - Amount(r)
        /\ balance'[Receiver(r)] = balance[Receiver(r)] + Amount(r)
    BY <1>1, <2>2, CommitEffect DEF AtCommit
  <2>4. written[r] = [sender |-> balance[Sender(r)] - Amount(r),
                      receiver |-> balance[Receiver(r)] + Amount(r)]
    BY <1>1, CommitFacts DEF AtCommit
  <2>5. /\ written[r].sender = balance[Sender(r)] - Amount(r)
        /\ written[r].receiver = balance[Receiver(r)] + Amount(r)
    BY <2>4
  <2>6. res[r].senderBalance = written[r].sender /\ res[r].receiverBalance = written[r].receiver
    BY <1>1 DEF IInv, TxProgress
  <2>7. QED
    BY <2>3, <2>5, <2>6
<1>2. QED
  BY <1>1, Invariance, PTL DEF Spec, EventMatchesCommit

(* The tables change at a COMMIT and at no other step. *)
LEMMA OnlyCommitsWrite ==
  ASSUME [Next]_vars
  PROVE  \/ \E r \in Requests : AtCommit(r) /\ ApplyCommit(r)
         \/ UNCHANGED <<balance, transfers, notified>>
<1>1. CASE UNCHANGED vars
  BY <1>1 DEF vars
<1>2. ASSUME NEW r \in Requests, Step(r) \/ Fault(r) \/ Resolve(r)
      PROVE  \/ AtCommit(r) /\ ApplyCommit(r)
             \/ UNCHANGED <<balance, transfers, notified>>
  BY <1>2
  DEF Step, Fault, Resolve, Accept, Reject, ResolveReceiver, ReceiverNotFound, SelfTransfer,
      LockRow, LockLastRow, SenderRowMissing, LockStaleRow, CheckBalance,
      InsufficientFunds, UpdateBalances, InsertTransferRecord, InsertNotifications,
      Commit, CommitAnswerLost, CommitInDoubt, LateCommit,
      LateRollback, AtCommit, ReplySuccess, Retry, SerializationFailure,
      DatabaseError, CancelBackoff, Fail, FailSerialization, Rollback, db
<1>3. QED
  BY <1>1, <1>2 DEF Next, AllDone

(* Every step that changes the tables books one transfer of the abstract    *)
(* account book; all other steps are invisible to it.                       *)
LEMMA StepBooks == IInv /\ [Next]_vars => [L!Next]_(L!vars)
<1> SUFFICES ASSUME IInv, [Next]_vars PROVE [L!Next]_(L!vars)
  OBVIOUS
<1>1. ASSUME NEW r \in Requests, AtCommit(r), ApplyCommit(r)
      PROVE  L!Next
  <2>1. /\ balance' = [balance EXCEPT ![Sender(r)] = @ - Amount(r),
                                      ![Receiver(r)] = @ + Amount(r)]
        /\ Len(transfers') = Len(transfers) + 1
        /\ transfers'[Len(transfers) + 1] = TransferRow(r)
    BY <1>1, CommitEffect
  <2>2. /\ Sender(r) # Receiver(r)
        /\ balance[Sender(r)] >= Amount(r)
        /\ ~Booked(r)
        /\ TransferRow(r) \in TransferRows
    BY <1>1, CommitFacts
  <2>3. TransferRow(r) \in L!Rows
    BY <2>2 DEF TransferRows, L!Rows
  <2>4. /\ TransferRow(r).from = Sender(r) /\ TransferRow(r).to = Receiver(r)
        /\ TransferRow(r).amount = Amount(r) /\ TransferRow(r).by = r
        /\ TransferRow(r).id = res[r].transferID
    BY DEF TransferRow
  <2>5. \A i \in 1..Len(transfers) :
           /\ transfers[i].by # r
           /\ transfers[i].id # res[r].transferID
           /\ L!Shares(transfers[i], TransferRow(r)) => transfers[i].id < res[r].transferID
    BY <1>1, <2>2, <2>4 DEF IInv, IdsReserved, HasId, AtCommit, Touches, L!Shares, Booked
  <2>6. transfers' = Append(transfers, TransferRow(r))
    BY <1>1 DEF ApplyCommit
  <2>7. L!Book(TransferRow(r))
    BY <2>1, <2>2, <2>4, <2>5, <2>6 DEF L!Book
  <2>8. Len(transfers) + 1 \in 1..Len(transfers')
    BY <2>1, LogRows DEF IInv
  <2>9. QED
    BY <2>1, <2>3, <2>7, <2>8 DEF L!Next
<1>2. CASE UNCHANGED <<balance, transfers>>
  BY <1>2 DEF L!vars
<1>3. QED
  BY <1>1, <1>2, OnlyCommitsWrite

(* The SERIALIZABLE transaction with row locks, retries and faults          *)
(* implements the account book in which a transfer is one step.             *)
THEOREM ImplementsLedger == Spec => LedgerSpec
<1>1. Init => L!Init
  BY DEF Init, L!Init
<1>2. QED
  BY <1>1, StepBooks, Invariance, PTL DEF Spec, LedgerSpec, L!Spec

(* lockBothUsers: a row lock is always held by an attempt that is still     *)
(* inside its transaction, or whose COMMIT the server has still to decide,  *)
(* so neither commit, rollback nor a lost connection leaves a lock behind.  *)
THEOREM LocksBelong == Spec => []LocksOwned
<1>1. IInv => LocksOwned
  BY DEF IInv
<1> QED
  BY <1>1, Invariance, PTL

-----------------------------------------------------------------------------
(* What a row did to an account is an integer, and the rows of the table    *)
(* have amounts.                                                            *)
LEMMA EffectInt ==
  ASSUME NEW u, NEW row \in TransferRows
  PROVE  Effect(u, row) \in Int
<1>1. row.amount \in Nat
  BY DEF TransferRows
<1> QED
  BY <1>1 DEF Effect

LEMMA StatementTerms ==
  ASSUME TypeOK, NEW u
  PROVE  [i \in 1..Len(transfers) |-> Effect(u, transfers[i])] \in [1..Len(transfers) -> Int]
BY LogRows, EffectInt

(* A COMMIT adds the effect of its row to an account's statement ... *)
LEMMA CommitStatement ==
  ASSUME IInv, NEW r \in Requests, AtCommit(r), ApplyCommit(r), NEW u \in Users
  PROVE  /\ Statement(u) \in Int
         /\ Statement(u)' = Statement(u) + Effect(u, TransferRow(r))
<1> DEFINE n == Len(transfers)
           old == [i \in 1..n |-> Effect(u, transfers[i])]
           new == [i \in 1..(n + 1) |-> Effect(u, transfers'[i])]
<1>1. /\ n \in Nat
      /\ Len(transfers') = n + 1
      /\ transfers'[n + 1] = TransferRow(r)
      /\ \A i \in 1..n : transfers'[i] = transfers[i]
  BY CommitEffect, LogRows DEF IInv
<1>2. TransferRow(r) \in TransferRows /\ \A i \in 1..n : transfers[i] \in TransferRows
  BY CommitFacts, LogRows DEF IInv
<1>3. \A i \in 1..(n + 1) : transfers'[i] \in TransferRows
  BY <1>1, <1>2
<1>4. old \in [1..n -> Int] /\ new \in [1..(n + 1) -> Int]
  BY <1>2, <1>3, EffectInt
<1>5. \A i \in 1..n : new[i] = old[i]
  BY <1>1
<1>6. new[n + 1] = Effect(u, TransferRow(r))
  BY <1>1
<1>7. Statement(u) = SumOf(old, n) /\ Statement(u)' = SumOf(new, n + 1)
  BY <1>1 DEF Statement, Effect
<1> HIDE DEF n, old, new
<1>8. SumOf(old, n) \in Int /\ SumOf(new, n + 1) = SumOf(old, n) + new[n + 1]
  BY <1>1, <1>4, <1>5, SumOfInt, SumOfNext
<1> QED
  BY <1>6, <1>7, <1>8

(* ... and a transfer to the history of its two accounts. *)
LEMMA CommitTouching ==
  ASSUME IInv, NEW r \in Requests, AtCommit(r), ApplyCommit(r), NEW u \in Users
  PROVE  Cardinality(Touching(u))' =
           IF u \in {Sender(r), Receiver(r)} THEN Cardinality(Touching(u)) + 1
                                             ELSE Cardinality(Touching(u))
<1> DEFINE n == Len(transfers)
<1>1. /\ n \in Nat
      /\ Len(transfers') = n + 1
      /\ transfers'[n + 1] = TransferRow(r)
      /\ \A i \in 1..n : transfers'[i] = transfers[i]
  BY CommitEffect, LogRows DEF IInv
<1>2. TransferRow(r).from = Sender(r) /\ TransferRow(r).to = Receiver(r)
  BY DEF TransferRow
<1>3. Touching(u)' = IF u \in {Sender(r), Receiver(r)} THEN Touching(u) \cup {n + 1}
                                                      ELSE Touching(u)
  BY <1>1, <1>2 DEF Touching
<1>4. Touching(u) \subseteq 1..n /\ n + 1 \notin Touching(u)
  BY <1>1 DEF Touching
<1>5. IsFiniteSet(Touching(u))
  <2>1. IsFiniteSet(1..n)
    BY <1>1, FS_Interval
  <2> HIDE DEF n
  <2> QED
    BY <1>4, <2>1, FS_Subset
<1>6. Cardinality(Touching(u) \cup {n + 1}) = Cardinality(Touching(u)) + 1
  BY <1>4, <1>5, FS_AddElement
<1> QED
  BY <1>3, <1>6

LEMMA TablesAgreeInit == Init => TablesAgree
<1> SUFFICES ASSUME Init, NEW u \in Users
             PROVE  /\ balance[u] = InitialBalance[u] + Statement(u)
                    /\ notified[u] = Cardinality(Touching(u))
  BY DEF TablesAgree
<1>1. Len(transfers) = 0 /\ balance[u] = InitialBalance[u] /\ notified[u] = 0
  BY DEF Init
<1>2. InitialBalance[u] \in Int
  BY TransferAssumption
<1>3. Statement(u) = 0
  <2> DEFINE none == [i \in 1..0 |-> Effect(u, transfers[i])]
  <2>1. none \in [1..0 -> Int]
    OBVIOUS
  <2>2. Statement(u) = SumOf(none, 0)
    BY <1>1 DEF Statement
  <2> HIDE DEF none
  <2> QED
    BY <2>1, <2>2, SumOfNone
<1>4. Touching(u) = {}
  BY <1>1 DEF Touching
<1> QED
  BY <1>1, <1>2, <1>3, <1>4, FS_EmptySet

LEMMA TablesAgreeStep == IInv /\ TablesAgree /\ [Next]_vars => TablesAgree'
<1> SUFFICES ASSUME IInv, TablesAgree, [Next]_vars, NEW u \in Users
             PROVE  (/\ balance[u] = InitialBalance[u] + Statement(u)
                     /\ notified[u] = Cardinality(Touching(u)))'
  BY DEF TablesAgree
<1>0. /\ balance[u] = InitialBalance[u] + Statement(u)
      /\ notified[u] = Cardinality(Touching(u))
      /\ InitialBalance[u] \in Int
  BY TransferAssumption DEF TablesAgree
<1>1. CASE UNCHANGED <<balance, transfers, notified>>
  BY <1>0, <1>1 DEF Statement, Touching
<1>2. ASSUME NEW r \in Requests, AtCommit(r), ApplyCommit(r)
      PROVE  (/\ balance[u] = InitialBalance[u] + Statement(u)
              /\ notified[u] = Cardinality(Touching(u)))'
  <2>1. /\ Sender(r) \in Users /\ Receiver(r) \in Users /\ Sender(r) # Receiver(r)
        /\ Amount(r) \in Nat
        /\ balance[u] \in Int
    BY <1>2, CommitFacts DEF IInv, TypeOK
  <2>2. Statement(u) \in Int /\ Statement(u)' = Statement(u) + Effect(u, TransferRow(r))
    BY <1>2, CommitStatement
  <2>3. Effect(u, TransferRow(r)) = (IF Receiver(r) = u THEN Amount(r) ELSE 0)
                                      - (IF Sender(r) = u THEN Amount(r) ELSE 0)
    BY DEF Effect, TransferRow
  <2>4. balance'[u] = balance[u] + Effect(u, TransferRow(r))
    <3>1. /\ balance'[Sender(r)] = balance[Sender(r)] - Amount(r)
          /\ balance'[Receiver(r)] = balance[Receiver(r)] + Amount(r)
          /\ u \notin {Sender(r), Receiver(r)} => balance'[u] = balance[u]
      BY <1>2, CommitEffect
    <3> QED
      BY <2>1, <2>3, <3>1
  <2>5. notified'[u] = IF u \in {Sender(r), Receiver(r)} THEN notified[u] + 1 ELSE notified[u]
    BY <1>2, <2>1 DEF ApplyCommit, IInv, TypeOK
  <2>6. Effect(u, TransferRow(r)) \in Int
    BY <2>1, <2>3
  <2>7. balance'[u] = InitialBalance[u] + Statement(u)'
    BY <1>0, <2>2, <2>4, <2>6
  <2>8. notified'[u] = Cardinality(Touching(u))'
    BY <1>0, <1>2, <2>5, CommitTouching
  <2> QED
    BY <2>7, <2>8
<1> QED
  BY <1>1, <1>2, OnlyCommitsWrite

(* insertTransferRecord, updateBalances and insertNotifications write three *)
(* tables in one transaction; whatever fails, is retried or interleaves,    *)
(* the balances are the sums of the transfers and nobody lacks a            *)
(* notification or has one too many.                                        *)
THEOREM TablesStayInStep == Spec => []TablesAgree
BY TablesAgreeInit, TablesAgreeStep, Invariance, PTL DEF Spec

-----------------------------------------------------------------------------
(* The total is the sum of its terms, and a debit with a credit of the same *)
(* amount leaves it.                                                        *)
LEMMA TransferKeepsTotal ==
  ASSUME NEW b \in [Users -> Int], NEW c \in [Users -> Int],
         NEW from \in Users, NEW to \in Users, from # to, NEW amount \in Int,
         c[from] = b[from] - amount, c[to] = b[to] + amount,
         \A u \in Users \ {from, to} : c[u] = b[u]
  PROVE  TotalOf(c) = TotalOf(b)
<1> DEFINE n == MaxUserId
           old   == [u \in 1..n |-> IF u \in Users THEN b[u] ELSE 0]
           new   == [u \in 1..n |-> IF u \in Users THEN c[u] ELSE 0]
           debit == [u \in 1..n |-> IF u = from THEN -amount ELSE 0]
           credit == [u \in 1..n |-> IF u = to THEN amount ELSE 0]
           move  == [u \in 1..n |-> debit[u] + credit[u]]
<1>1. n \in Nat /\ from \in 1..n /\ to \in 1..n
  BY UserIdAssumption
<1>2. /\ old \in [1..n -> Int] /\ new \in [1..n -> Int]
      /\ debit \in [1..n -> Int] /\ credit \in [1..n -> Int]
  OBVIOUS
<1>3. move \in [1..n -> Int]
  BY <1>2
<1>4. \A u \in 1..n : new[u] = old[u] + move[u]
  OBVIOUS
<1>5. SumOf(debit, n) = -amount /\ SumOf(credit, n) = amount
  <2>1. -amount \in Int
    OBVIOUS
  <2>2. SumOf([u \in 1..n |-> IF u = from THEN -amount ELSE 0], n) = -amount
    BY <1>1, <2>1, SumOfOne
  <2>3. SumOf([u \in 1..n |-> IF u = to THEN amount ELSE 0], n) = amount
    BY <1>1, SumOfOne
  <2> QED
    BY <2>2, <2>3
<1>6. TotalOf(b) = SumOf(old, n) /\ TotalOf(c) = SumOf(new, n)
  BY DEF TotalOf
<1>7. \A u \in 1..n : move[u] = debit[u] + credit[u]
  OBVIOUS
<1> HIDE DEF n, old, new, debit, credit, move
<1>8. SumOf(move, n) = SumOf(debit, n) + SumOf(credit, n)
  BY <1>1, <1>2, <1>3, <1>7, SumOfSum
<1>9. SumOf(new, n) = SumOf(old, n) + SumOf(move, n)
  BY <1>1, <1>2, <1>3, <1>4, SumOfSum
<1>10. SumOf(old, n) \in Int
  BY <1>1, <1>2, SumOfInt
<1> QED
  BY <1>5, <1>6, <1>8, <1>9, <1>10

(* updateBalances debits and credits rows that other transactions may debit *)
(* and credit too: still no commit, lost answer, rollback or retry changes  *)
(* what all accounts hold together.                                         *)
THEOREM TotalIsConstant == Spec => []MoneyConserved
<1>1. Init => MoneyConserved
  BY DEF Init, MoneyConserved
<1>2. IInv /\ IInv' /\ MoneyConserved /\ [Next]_vars => MoneyConserved'
  <2> SUFFICES ASSUME IInv, IInv', [Next]_vars PROVE TotalOf(balance)' = TotalOf(balance)
    BY DEF MoneyConserved, TotalOf
  <2>1. CASE UNCHANGED balance
    BY <2>1 DEF TotalOf
  <2>2. ASSUME NEW r \in Requests, AtCommit(r), ApplyCommit(r)
        PROVE  TotalOf(balance)' = TotalOf(balance)
    <3>1. balance \in [Users -> Int] /\ balance' \in [Users -> Int]
      BY DEF IInv, TypeOK
    <3>2. /\ Sender(r) \in Users /\ Receiver(r) \in Users /\ Sender(r) # Receiver(r)
          /\ Amount(r) \in Nat \ {0}
      BY <2>2, CommitFacts
    <3>3. /\ balance'[Sender(r)] = balance[Sender(r)] - Amount(r)
          /\ balance'[Receiver(r)] = balance[Receiver(r)] + Amount(r)
          /\ \A u \in Users \ {Sender(r), Receiver(r)} : balance'[u] = balance[u]
      BY <2>2, CommitEffect
    <3>4. Amount(r) \in Int
      BY <3>2
    <3>5. TotalOf(balance') = TotalOf(balance)
      BY <3>4, <3>1, <3>2, <3>3, TransferKeepsTotal
    <3> QED
      BY <3>5 DEF TotalOf
  <2> QED
    BY <2>1, <2>2, OnlyCommitsWrite
<1> QED
  BY <1>1, <1>2, Invariance, PTL DEF Spec

-----------------------------------------------------------------------------
(* What a step does to the request that takes it, and to the others. *)
LEMMA OneAdvances ==
  ASSUME IInv, NEW r \in Requests, Step(r) \/ Fault(r) \/ Resolve(r)
  PROVE  /\ Advances(r)
         /\ \A q \in Requests \ {r} : UNCHANGED <<attempt[q], pc[q], Unlocked(q)>>
<1> USE DEF IInv
<1>0. /\ pc \in [Requests -> PcStates] /\ attempt \in [Requests -> 1..MaxAttempts]
      /\ attempt[r] \in Nat
  BY TransferAssumption DEF TypeOK
<1>1. \A q \in Requests : Matching(q)' = Matching(q)
  <2>1. payload' = payload
    BY DEF Step, Fault, Resolve, Accept, Reject, ResolveReceiver, ReceiverNotFound, SelfTransfer,
      LockRow, LockLastRow, SenderRowMissing, LockStaleRow, CheckBalance,
      InsufficientFunds, UpdateBalances, InsertTransferRecord, InsertNotifications,
      Commit, CommitAnswerLost, CommitInDoubt, LateCommit,
      LateRollback, AtCommit, ReplySuccess, Retry, SerializationFailure, ApplyCommit,
      DatabaseError, CancelBackoff, Fail, FailSerialization, ReplyError, local
  <2> QED
    BY <2>1 DEF Matching, Sender, Receiver
<1>2. CASE LockRow(r)
  <2>1. NextRow(r) \in Unlocked(r)
    BY <1>2, NextRowIsLowest DEF LockRow, LockOrder
  <2>2. /\ lockedBy' = [lockedBy EXCEPT ![NextRow(r)] = r]
        /\ lockedBy[NextRow(r)] = NoReq
        /\ UNCHANGED <<attempt, pc>>
    BY <1>2 DEF LockRow, local
  <2>3. Held(r)' = Held(r) \cup {NextRow(r)}
    BY <2>1, <2>2 DEF Held, Unlocked, Matching, TypeOK
  <2>4. \A q \in Requests \ {r} : Held(q)' = Held(q)
    BY <2>1, <2>2, TransferAssumption DEF Held, Unlocked, Matching, TypeOK
  <2> QED
    BY <1>1, <2>1, <2>2, <2>3, <2>4 DEF Advances, Unlocked
<1>3. CASE ~LockRow(r)
  <2>1. /\ \A q \in Requests \ {r} : pc'[q] = pc[q] /\ attempt'[q] = attempt[q]
        /\ \/ attempt'[r] > attempt[r]
           \/ attempt'[r] = attempt[r] /\ StagesLeft[pc'[r]] < StagesLeft[pc[r]]
    <3>1. CASE Retry(r)
      BY <1>0, <3>1 DEF Retry
    <3>2. CASE ~Retry(r)
      <4>1. attempt' = attempt
        BY <1>3, <3>2 DEF Step, Fault, Resolve, Accept, Reject, ResolveReceiver, ReceiverNotFound,
          SelfTransfer, LockLastRow, SenderRowMissing, LockStaleRow, CheckBalance,
          InsufficientFunds, UpdateBalances, InsertTransferRecord, InsertNotifications,
          Commit, CommitAnswerLost, CommitInDoubt, LateCommit,
      LateRollback, AtCommit, ReplySuccess, SerializationFailure, ApplyCommit,
          DatabaseError, CancelBackoff, Fail, FailSerialization, ReplyError
      <4>2. PICK to \in PcStates : /\ pc' = [pc EXCEPT ![r] = to]
                                   /\ StagesLeft[to] < StagesLeft[pc[r]]
        BY <1>0, <1>3, <3>2 DEF Step, Fault, Resolve, Accept, Reject, ResolveReceiver, ReceiverNotFound,
          SelfTransfer, LockLastRow, SenderRowMissing, LockStaleRow, CheckBalance,
          InsufficientFunds, UpdateBalances, InsertTransferRecord, InsertNotifications,
          Commit, CommitAnswerLost, CommitInDoubt, LateCommit,
      LateRollback, AtCommit, ReplySuccess, SerializationFailure, Begin, InTx,
          DatabaseError, CancelBackoff, Fail, FailSerialization, ReplyError, StagesLeft,
          PcStates, TxStates
      <4> QED
        BY <1>0, <4>1, <4>2
    <3> QED
      BY <3>1, <3>2
  <2>2. ASSUME NEW q \in Requests \ {r} PROVE Held(q)' = Held(q)
    <3>1. CASE UNCHANGED lockedBy
      BY <3>1 DEF Held
    <3>2. CASE lockedBy' = Unlock(r)
      BY <3>2, TransferAssumption DEF Held, Unlock, TypeOK
    <3>3. CASE LockLastRow(r)
      <4>1. NextRow(r) \in Unlocked(r)
        BY <3>3, NextRowIsLowest DEF LockLastRow, LockOrder
      <4> QED
        BY <3>3, <4>1, TransferAssumption DEF LockLastRow, Held, Unlocked, Matching, TypeOK
    <3> QED
      BY <1>3, <3>1, <3>2, <3>3 DEF Step, Fault, Resolve, Accept, Reject, ResolveReceiver, ReceiverNotFound,
        SelfTransfer, SenderRowMissing, LockStaleRow, CheckBalance,
        InsufficientFunds, UpdateBalances, InsertTransferRecord, InsertNotifications,
        Commit, CommitAnswerLost, CommitInDoubt, LateCommit,
      LateRollback, AtCommit, ReplySuccess, Retry, SerializationFailure, ApplyCommit,
        DatabaseError, CancelBackoff, Fail, FailSerialization, Rollback, db
  <2> QED
    BY <1>1, <2>1, <2>2 DEF Advances, Unlocked
<1> QED
  BY <1>2, <1>3

(* SerializableTx, runTransferTx: with at most MaxAttempts attempts per      *)
(* request, transfers cannot keep each other retrying for ever.             *)
THEOREM NoLivelock == Spec => StepsAreProgress
<1> DEFINE Progress == \E r \in Requests :
             /\ Advances(r)
             /\ \A q \in Requests \ {r} : UNCHANGED <<attempt[q], pc[q], Unlocked(q)>>
<1>1. IInv /\ [Next]_vars => [Progress]_vars
  BY OneAdvances DEF Next, AllDone
<1>2. QED
  BY <1>1, Invariance, PTL DEF Spec, StepsAreProgress

-----------------------------------------------------------------------------
(* Apart from a COMMIT and the reply after it, a step leaves the request    *)
(* unbooked and either sends no reply or the status of an error.            *)
LEMMA ErrorReplies ==
  ASSUME IInv, NEW r \in Requests, Step(r) \/ Fault(r) \/ Resolve(r),
         ~Commit(r), ~CommitAnswerLost(r), ~ReplySuccess(r), ~Resolve(r)
  PROVE  /\ UNCHANGED transfers
         /\ pc[r] \notin {"committed", "indoubt", "done"}
         /\ \/ UNCHANGED reply
            \/ \E e \in Errors : reply' = [reply EXCEPT ![r] = Status[e]]
<1>1. UNCHANGED transfers /\ pc[r] \notin {"committed", "indoubt", "done"}
  BY DEF Step, Fault, Resolve, Accept, Reject, ResolveReceiver, ReceiverNotFound, SelfTransfer,
     LockRow, LockLastRow, SenderRowMissing, LockStaleRow, CheckBalance, InsufficientFunds,
     UpdateBalances, InsertTransferRecord, InsertNotifications, Retry, SerializationFailure,
     DatabaseError, CommitInDoubt, CancelBackoff, Fail, FailSerialization, Rollback, Begin, InTx,
     TxStates, db
<1>2. ASSUME NEW e \in Errors, ReplyError(r, e)
      PROVE  \E x \in Errors : reply' = [reply EXCEPT ![r] = Status[x]]
  BY <1>2 DEF ReplyError
<1>c. ASSUME CommitInDoubt(r)
      PROVE  \E x \in Errors : reply' = [reply EXCEPT ![r] = Status[x]]
  <2>1. "otherError" \in Errors
    BY StatusValues
  <2>2. reply' = [reply EXCEPT ![r] = Status["otherError"]]
    BY <1>c DEF CommitInDoubt
  <2> QED
    BY <2>1, <2>2
<1>3. UNCHANGED reply \/ CommitInDoubt(r) \/ \E e \in Errors : ReplyError(r, e)
  BY StatusValues DEF Step, Fault, Resolve, Accept, Reject, ResolveReceiver, ReceiverNotFound,
     SelfTransfer, LockRow, LockLastRow, SenderRowMissing, LockStaleRow, CheckBalance,
     InsufficientFunds, UpdateBalances, InsertTransferRecord, InsertNotifications, Retry,
     SerializationFailure, DatabaseError, CancelBackoff, Fail, FailSerialization, local
<1> QED
  BY <1>1, <1>2, <1>c, <1>3

(* A step books or answers one request, or none. *)
LEMMA StepKeepsContract ==
  ASSUME IInv, NEW r \in Requests, Step(r) \/ Fault(r) \/ Resolve(r), NEW q \in Requests
  PROVE  \/ Contract!Quiet(q) \/ Contract!Book(q)
         \/ Contract!Answer(q) \/ Contract!BookUnheard(q)
<1> DEFINE was == [x \in Requests |-> Booked(x)][q]
           is  == [x \in Requests |-> Booked(x)]'[q]
<1>0. /\ DOMAIN reply = Requests
      /\ pc[r] \notin {"committed", "indoubt", "done"} => ~Booked(r) /\ reply[r] = 0
      /\ pc[r] = "indoubt" => ~Booked(r) /\ reply[r] = 500
      /\ pc[r] = "committed" => Booked(r) /\ reply[r] = 0
      /\ was = Booked(q) /\ is = Booked(q)'
      /\ Booked(q) \in BOOLEAN /\ Booked(q)' \in BOOLEAN
  <2>1. reply \in [Requests -> {0, 200} \cup {Status[e] : e \in Errors}] /\ BookedAtCommit
    BY DEF IInv, TypeOK
  <2>2. DOMAIN reply = Requests
    BY <2>1
  <2>3. /\ pc[r] \notin {"committed", "indoubt", "done"} => ~Booked(r) /\ reply[r] = 0
        /\ pc[r] = "indoubt" => ~Booked(r) /\ reply[r] = 500
        /\ pc[r] = "committed" => Booked(r) /\ reply[r] = 0
    BY <2>1 DEF BookedAtCommit
  <2>4. was = Booked(q) /\ is = Booked(q)'
    OBVIOUS
  <2>5. Booked(q) \in BOOLEAN /\ Booked(q)' \in BOOLEAN
    BY DEF Booked
  <2> HIDE DEF was, is
  <2> QED
    BY <2>2, <2>3, <2>4, <2>5
<1> HIDE DEF was, is
<1>1. ASSUME AtCommit(r), ApplyCommit(r),
             UNCHANGED reply \/ (pc[r] = "commit" /\ reply' = [reply EXCEPT ![r] = 500])
      PROVE  \/ Contract!Quiet(q) \/ Contract!Book(q) \/ Contract!BookUnheard(q)
  <2>1. Booked(q)' <=> (Booked(q) \/ q = r)
    BY <1>1, CommitEffect
  <2> QED
    BY <1>0, <1>1, <2>1 DEF AtCommit, Contract!Quiet, Contract!Book, Contract!BookUnheard, was, is
<1>2. CASE Commit(r) \/ CommitAnswerLost(r) \/ LateCommit(r)
  BY <1>1, <1>2, StatusValues DEF Commit, CommitAnswerLost, LateCommit, AtCommit
<1>3. CASE LateRollback(r)
  <2>1. (Booked(q)' <=> Booked(q)) /\ UNCHANGED reply
    BY <1>3 DEF LateRollback, Rollback, Booked
  <2> QED
    BY <1>0, <2>1 DEF Contract!Quiet, was, is
<1>4. CASE ReplySuccess(r)
  <2>1. Booked(q)' <=> Booked(q)
    BY <1>4 DEF ReplySuccess, db, Booked
  <2> QED
    BY <1>0, <1>4, <2>1
    DEF ReplySuccess, Contract!Quiet, Contract!Answer, Contract!Answers, was, is
<1>5. CASE ~Commit(r) /\ ~CommitAnswerLost(r) /\ ~ReplySuccess(r) /\ ~Resolve(r)
  <2>1. /\ UNCHANGED transfers
        /\ pc[r] \notin {"committed", "indoubt", "done"}
        /\ \/ UNCHANGED reply
           \/ \E e \in Errors : reply' = [reply EXCEPT ![r] = Status[e]]
    BY <1>5, ErrorReplies
  <2>2. Booked(q)' <=> Booked(q)
    BY <2>1 DEF Booked
  <2>3. UNCHANGED reply \/ \E s \in {400, 404, 500, 503} : reply' = [reply EXCEPT ![r] = s]
    BY <2>1, StatusValues
  <2> QED
    BY <1>0, <2>1, <2>2, <2>3 DEF Contract!Quiet, Contract!Answer, Contract!Answers, was, is
<1> QED
  BY <1>2, <1>3, <1>4, <1>5 DEF Resolve

(* handleTransfer and SerializableTx keep the contract with the caller:     *)
(* however often a transfer is tried, refused or cut off, it is booked at   *)
(* most once and answered once; after a 400, a 404 or the 503 that asks for *)
(* another try it is never booked, and only a 500 may come before the       *)
(* booking, when the COMMIT was in doubt.                                   *)
THEOREM ImplementsBooking == Spec => BookingSpec
<1>1. Init => Contract!Init
  BY DEF Init, Contract!Init, Booked
<1>2. IInv /\ IInv' /\ [Next]_vars => [Contract!Next]_(Contract!vars)
  <2> SUFFICES ASSUME IInv, IInv', [Next]_vars
               PROVE  [Contract!Next]_(Contract!vars)
    OBVIOUS
  <2>1. CASE UNCHANGED vars
    BY <2>1 DEF vars, Contract!vars, Booked
  <2>2. CASE \E r \in Requests : Step(r) \/ Fault(r) \/ Resolve(r)
    <3>1. DOMAIN reply' = Requests /\ DOMAIN [x \in Requests |-> Booked(x)]' = Requests
      BY DEF IInv, TypeOK
    <3>2. \A q \in Requests : \/ Contract!Quiet(q) \/ Contract!Book(q)
                              \/ Contract!Answer(q) \/ Contract!BookUnheard(q)
      BY <2>2, StepKeepsContract
    <3> QED
      BY <3>1, <3>2 DEF Contract!Next
  <2> QED
    BY <2>1, <2>2 DEF Next, AllDone
<1>3. QED
  BY <1>1, <1>2, Invariance, PTL DEF Spec, BookingSpec, Contract!Spec
=============================================================================
