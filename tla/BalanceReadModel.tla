-------------------------- MODULE BalanceReadModel --------------------------
(***************************************************************************)
(* The balance read model: the Redis hash "balance" that account-service   *)
(* serves instead of PostgreSQL, and everything that writes it.            *)
(*                                                                         *)
(*  - transfer-service, after the commit: the Redis pipeline of            *)
(*    PublishTransferCompleted (Tier 2), then the JetStream publish        *)
(*    (Tier 3), both best effort;                                          *)
(*  - account-service's runBalanceProjection, a durable consumer of the    *)
(*    stream, run by every replica;                                        *)
(*  - account-service's handleBalance, which fills a missing field.        *)
(*                                                                         *)
(* A transfer commits in one step here, as module Ledger says and module   *)
(* TransferTxProofs proves of the real transaction; the event carries the  *)
(* committed balances (theorem EventsCarryCommittedBalances there).  The   *)
(* DEL commands of the pipeline concern the login cache and its PUBLISH    *)
(* commands the WebSocket feed, neither of which is read here.             *)
(***************************************************************************)
EXTENDS Integers, Sequences, FiniteSets, Sums

CONSTANTS Users,           \* accounts
          Requests,        \* transfer requests
          Readers,         \* balance requests
          Workers,         \* account-service replicas running the projection
          InitialBalance,  \* users.balance at the start
          InitialHash,     \* the hash at the start
          Amount,          \* the amount every transfer moves
          UseJetStream,    \* FALSE when NATS runs without -js
          Faults,          \* TRUE when Redis, NATS and processes may fail
          MaxInFlight,     \* bound: transfers between commit and reply
          MaxDeliver,      \* MaxDeliver of the durable consumer
          MaxWipes,        \* bound: losses of the Redis data
          MaxRestarts,     \* bound: crashes and restarts of account-service replicas
          Absent           \* a field the hash does not have

ASSUME ReadModelAssumption ==
  /\ Users \subseteq Nat
  /\ InitialBalance \in [Users -> Nat]
  /\ Absent \notin Nat
  /\ InitialHash \in [Users -> Nat \cup {Absent}]
  /\ \A u \in Users : InitialHash[u] \in {Absent, InitialBalance[u]}
  /\ Amount \in Nat \ {0}
  /\ UseJetStream \in BOOLEAN
  /\ Faults \in BOOLEAN
  /\ MaxDeliver \in Nat \ {0}
  /\ MaxWipes \in Nat
  /\ MaxRestarts \in Nat
  /\ MaxInFlight \in Nat \ {0}

VARIABLES
  balance, log,   \* the account book
  past,           \* every balance each account has had (history variable)
  hash,           \* Redis hash "balance"
  wipes,          \* Redis data losses so far
  pc, evt,        \* post-commit state of each transfer and its event
  stream,         \* BANKING_EVENTS: stored events, in stream order
  msg,            \* per stored event: state at the durable consumer
  deliveries,     \* per stored event: delivery attempts
  projection,     \* per replica: its runBalanceProjection goroutine
  restarts,       \* restarts of replicas so far
  worker,         \* per replica: the message its callback is processing
  projected,      \* stored events whose balances were written in full
  reader          \* per balance request: progress and value

bookVars == <<balance, log, past>>
procVars == <<projection, restarts>>
natsVars == <<stream, msg, deliveries, projection, restarts, worker, projected>>
vars == <<balance, log, past, hash, wipes, pc, evt, stream, msg, deliveries,
          projection, restarts, worker, projected, reader>>

Book == INSTANCE Ledger

-----------------------------------------------------------------------------
Events == [TransferID: Nat, SenderID: Users, SenderBalance: Nat,
           ReceiverID: Users, ReceiverBalance: Nat]

PcStates == {"idle", "hsetSender", "hsetReceiver", "publish", "replied", "crashed"}
MsgStates == {"new", "ready", "inflight", "acked", "dead"}
ProjectionStates == {"starting", "running", "off"}
Idle == [at |-> "idle", seq |-> 0]
NoRead == [at |-> "idle", user |-> 0, value |-> 0]

Init ==
  /\ balance = InitialBalance
  /\ log = <<>>
  /\ past = [u \in Users |-> {InitialBalance[u]}]
  /\ hash = InitialHash
  /\ wipes = 0
  /\ pc = [r \in Requests |-> "idle"]
  /\ evt = [r \in Requests |-> <<>>]
  /\ stream = <<>>
  /\ msg = <<>>
  /\ deliveries = <<>>
  /\ projection = [w \in Workers |-> "starting"]
  /\ restarts = 0
  /\ worker = [w \in Workers |-> Idle]
  /\ projected = {}
  /\ reader = [q \in Readers |-> NoRead]

-----------------------------------------------------------------------------
(* transfer-service. *)

InFlight == {r \in Requests : pc[r] \in {"hsetSender", "hsetReceiver", "publish"}}

(* Mutant: the balances of the event are swapped. *)
PostCommitEvent_Swapped(r, from, to) ==
  [TransferID |-> Len(log) + 1,
   SenderID |-> from, SenderBalance |-> balance[to] + Amount,
   ReceiverID |-> to, ReceiverBalance |-> balance[from] - Amount]

(* Mutant: the balances lockBothUsers read, before the transfer. *)
PostCommitEvent_PreTx(r, from, to) ==
  [TransferID |-> Len(log) + 1,
   SenderID |-> from, SenderBalance |-> balance[from],
   ReceiverID |-> to, ReceiverBalance |-> balance[to]]

PostCommitEvent(r, from, to) ==
  [TransferID |-> Len(log) + 1,
   SenderID |-> from, SenderBalance |-> balance[from] - Amount,
   ReceiverID |-> to, ReceiverBalance |-> balance[to] + Amount]

(* runTransferTx returned without error: the transfer is booked and the     *)
(* event is built.                                                          *)
Commit(r) ==
  /\ pc[r] = "idle"
  /\ Cardinality(InFlight) < MaxInFlight
  /\ \E from \in Users, to \in Users :
       /\ Book!Book([id |-> Len(log) + 1, from |-> from, to |-> to,
                     amount |-> Amount, by |-> r])
       /\ evt' = [evt EXCEPT ![r] = PostCommitEvent(r, from, to)]
  /\ past' = [u \in Users |-> past[u] \cup {balance'[u]}]
  /\ pc' = [pc EXCEPT ![r] = "hsetSender"]
  /\ UNCHANGED <<hash, wipes, natsVars, reader>>

(* PublishTransferCompleted: the commands of a plain pipeline, each of      *)
(* which other clients' commands may precede.                               *)
AfterPipeline == IF UseJetStream THEN "publish" ELSE "replied"

HsetSender(r) ==
  /\ pc[r] = "hsetSender"
  /\ hash' = [hash EXCEPT ![evt[r].SenderID] = evt[r].SenderBalance]
  /\ pc' = [pc EXCEPT ![r] = "hsetReceiver"]
  /\ UNCHANGED <<bookVars, wipes, evt, natsVars, reader>>

HsetReceiver(r) ==
  /\ pc[r] = "hsetReceiver"
  /\ hash' = [hash EXCEPT ![evt[r].ReceiverID] = evt[r].ReceiverBalance]
  /\ pc' = [pc EXCEPT ![r] = AfterPipeline]
  /\ UNCHANGED <<bookVars, wipes, evt, natsVars, reader>>

(* The pipeline fails before the next command; the error is only logged. *)
PipelineFails(r) ==
  /\ Faults
  /\ pc[r] \in {"hsetSender", "hsetReceiver"}
  /\ pc' = [pc EXCEPT ![r] = AfterPipeline]
  /\ UNCHANGED <<bookVars, hash, wipes, evt, natsVars, reader>>

(* The process dies (or its context is cancelled) before the reply. *)
HandlerCrashes(r) ==
  /\ Faults
  /\ r \in InFlight
  /\ pc' = [pc EXCEPT ![r] = "crashed"]
  /\ UNCHANGED <<bookVars, hash, wipes, evt, natsVars, reader>>

(* PublishTransferEvent.  The server stores an event unless its Nats-Msg-Id *)
(* is already there, and tells the durable consumer.                        *)
StoreEvent(e) ==
  IF \E i \in 1..Len(stream) : stream[i].TransferID = e.TransferID
    THEN UNCHANGED <<stream, msg, deliveries>>
    ELSE /\ stream' = Append(stream, e)
         /\ msg' = Append(msg, "new")
         /\ deliveries' = Append(deliveries, 0)

PublishEvent(r) ==
  /\ pc[r] = "publish"
  /\ StoreEvent(evt[r])
  /\ pc' = [pc EXCEPT ![r] = "replied"]
  /\ UNCHANGED <<bookVars, hash, wipes, evt, procVars, worker, projected, reader>>

(* Not stored, and only logged. *)
PublishFails(r) ==
  /\ Faults
  /\ pc[r] = "publish"
  /\ pc' = [pc EXCEPT ![r] = "replied"]
  /\ UNCHANGED <<bookVars, hash, wipes, evt, natsVars, reader>>

-----------------------------------------------------------------------------
(* The durable consumer "account-service-balance" and runBalanceProjection. *)

Stored == 1..Len(stream)

(* A replica's process comes up: InitStream finds the stream, and           *)
(* runBalanceProjection finds the durable consumer and starts consuming.    *)
ProjectionStarts(w) ==
  /\ UseJetStream
  /\ projection[w] = "starting"
  /\ projection' = [projection EXCEPT ![w] = "running"]
  /\ UNCHANGED <<bookVars, hash, wipes, pc, evt, stream, msg, deliveries, restarts,
                 worker, projected, reader>>

(* InitStream, NewBalanceConsumer or Consume fails: the error is logged and *)
(* the replica serves on without a projection, for as long as it lives.     *)
ProjectionFails(w) ==
  /\ Faults \/ ~UseJetStream
  /\ projection[w] = "starting"
  /\ projection' = [projection EXCEPT ![w] = "off"]
  /\ UNCHANGED <<bookVars, hash, wipes, pc, evt, stream, msg, deliveries, restarts,
                 worker, projected, reader>>

(* A message is delivered for the first time in stream order; one to be     *)
(* redelivered may come before or after newer ones.                         *)
Deliverable(i) ==
  \/ msg[i] = "ready"
  \/ msg[i] = "new" /\ \A j \in 1..(i - 1) : msg[j] # "new"

Deliver(w) ==
  /\ projection[w] = "running"
  /\ worker[w] = Idle
  /\ \E i \in Stored :
       /\ Deliverable(i)
       /\ msg' = [msg EXCEPT ![i] = "inflight"]
       /\ deliveries' = [deliveries EXCEPT ![i] = @ + 1]
       /\ worker' = [worker EXCEPT ![w] = [at |-> "hsetSender", seq |-> i]]
  /\ UNCHANGED <<bookVars, hash, wipes, pc, evt, stream, procVars, projected, reader>>

(* SetBalanceBatch: again a pipeline of two commands. *)
ProjectSender(w) ==
  LET e == stream[worker[w].seq] IN
  /\ worker[w].at = "hsetSender"
  /\ hash' = [hash EXCEPT ![e.SenderID] = e.SenderBalance]
  /\ worker' = [worker EXCEPT ![w].at = "hsetReceiver"]
  /\ UNCHANGED <<bookVars, wipes, pc, evt, stream, msg, deliveries, procVars, projected, reader>>

ProjectReceiver(w) ==
  LET e == stream[worker[w].seq] IN
  /\ worker[w].at = "hsetReceiver"
  /\ hash' = [hash EXCEPT ![e.ReceiverID] = e.ReceiverBalance]
  /\ projected' = projected \cup {worker[w].seq}
  /\ worker' = [worker EXCEPT ![w].at = "ack"]
  /\ UNCHANGED <<bookVars, wipes, pc, evt, stream, msg, deliveries, procVars, reader>>

(* Ack settles a message for good, whatever else is going on with it. *)
Ack(w) ==
  /\ worker[w].at = "ack"
  /\ msg' = [msg EXCEPT ![worker[w].seq] = "acked"]
  /\ worker' = [worker EXCEPT ![w] = Idle]
  /\ UNCHANGED <<bookVars, hash, wipes, pc, evt, stream, deliveries, procVars, projected, reader>>

(* Mutant: off by one, one delivery too many. *)
Undelivered_OneMore(i) == IF deliveries[i] <= MaxDeliver THEN "ready" ELSE "dead"

(* After MaxDeliver attempts a message is given up: it stays in the stream  *)
(* and is never delivered again.                                            *)
Undelivered(i) == IF deliveries[i] < MaxDeliver THEN "ready" ELSE "dead"

(* Mutant: a message whose projection failed is acknowledged all the same. *)
Nak_AsAck(w) ==
  /\ Faults
  /\ worker[w].at \in {"hsetSender", "hsetReceiver"}
  /\ msg' = [msg EXCEPT ![worker[w].seq] = "acked"]
  /\ worker' = [worker EXCEPT ![w] = Idle]
  /\ UNCHANGED <<bookVars, hash, wipes, pc, evt, stream, deliveries, procVars, projected, reader>>

(* SetBalanceBatch fails before its next command: NakWithDelay. *)
Nak(w) ==
  /\ Faults
  /\ worker[w].at \in {"hsetSender", "hsetReceiver"}
  /\ msg' = [msg EXCEPT ![worker[w].seq] =
               IF @ = "inflight" THEN Undelivered(worker[w].seq) ELSE @]
  /\ worker' = [worker EXCEPT ![w] = Idle]
  /\ UNCHANGED <<bookVars, hash, wipes, pc, evt, stream, deliveries, procVars, projected, reader>>

(* The replica crashes, forgets the message it was processing, if any, and  *)
(* is started again.                                                        *)
WorkerCrashes(w) ==
  /\ Faults
  /\ projection[w] # "starting"
  /\ restarts < MaxRestarts
  /\ restarts' = restarts + 1
  /\ projection' = [projection EXCEPT ![w] = "starting"]
  /\ worker' = [worker EXCEPT ![w] = Idle]
  /\ UNCHANGED <<bookVars, hash, wipes, pc, evt, stream, msg, deliveries, projected, reader>>

Processing(i) == \E w \in Workers : worker[w].seq = i

(* Mutant: the last delivery has no timer, so its message never settles. *)
AckWaitExpires_NotLast(i) ==
  /\ i \in Stored
  /\ msg[i] = "inflight"
  /\ deliveries[i] < MaxDeliver
  /\ msg' = [msg EXCEPT ![i] = Undelivered(i)]
  /\ UNCHANGED <<bookVars, hash, wipes, pc, evt, stream, deliveries, procVars, worker, projected, reader>>

(* AckWait expires: nobody answered, or somebody is slow to. *)
AckWaitExpires(i) ==
  /\ i \in Stored
  /\ msg[i] = "inflight"
  /\ Faults \/ ~Processing(i)
  /\ msg' = [msg EXCEPT ![i] = Undelivered(i)]
  /\ UNCHANGED <<bookVars, hash, wipes, pc, evt, stream, deliveries, procVars, worker, projected, reader>>

-----------------------------------------------------------------------------
(* account-service: handleBalance. *)
GetBalanceHit(q) ==
  /\ reader[q].at = "idle"
  /\ \E u \in Users :
       /\ hash[u] # Absent
       /\ reader' = [reader EXCEPT ![q] = [at |-> "replied", user |-> u, value |-> hash[u]]]
  /\ UNCHANGED <<bookVars, hash, wipes, pc, evt, natsVars>>

GetBalanceMiss(q) ==
  /\ reader[q].at = "idle"
  /\ \E u \in Users :
       /\ hash[u] = Absent
       /\ reader' = [reader EXCEPT ![q] = [at |-> "miss", user |-> u, value |-> 0]]
  /\ UNCHANGED <<bookVars, hash, wipes, pc, evt, natsVars>>

QueryBalanceFromDB(q) ==
  /\ reader[q].at = "miss"
  /\ reader' = [reader EXCEPT ![q].at = "fill", ![q].value = balance[reader[q].user]]
  /\ UNCHANGED <<bookVars, hash, wipes, pc, evt, natsVars>>

(* The error of SetBalance is ignored: the reply goes out either way. *)
SetBalance(q) ==
  /\ reader[q].at = "fill"
  /\ \/ hash' = [hash EXCEPT ![reader[q].user] = reader[q].value]
     \/ Faults /\ UNCHANGED hash
  /\ reader' = [reader EXCEPT ![q].at = "replied"]
  /\ UNCHANGED <<bookVars, wipes, pc, evt, natsVars>>

(* Redis loses its data (restart without persistence, eviction). *)
RedisWiped ==
  /\ wipes < MaxWipes
  /\ wipes' = wipes + 1
  /\ hash' = [u \in Users |-> Absent]
  /\ UNCHANGED <<bookVars, pc, evt, natsVars, reader>>

-----------------------------------------------------------------------------
HandlerStep(r) == HsetSender(r) \/ HsetReceiver(r) \/ PublishEvent(r)
WorkerStep(w)  ==
  ProjectionStarts(w) \/ Deliver(w) \/ ProjectSender(w) \/ ProjectReceiver(w) \/ Ack(w)
WorkerFault(w) == ProjectionFails(w) \/ Nak(w) \/ WorkerCrashes(w)
ReaderStep(q)  == GetBalanceHit(q) \/ GetBalanceMiss(q) \/ QueryBalanceFromDB(q) \/ SetBalance(q)

(* Nothing under way: every transfer answered, every event settled. *)
Quiescent ==
  /\ InFlight = {}
  /\ \A i \in Stored : msg[i] \in {"acked", "dead"}
  /\ \A w \in Workers : worker[w] = Idle
  /\ \A q \in Readers : reader[q].at \in {"idle", "replied"}

Next ==
  \/ \E r \in Requests : Commit(r) \/ HandlerStep(r) \/ PipelineFails(r)
                         \/ HandlerCrashes(r) \/ PublishFails(r)
  \/ \E w \in Workers : WorkerStep(w) \/ WorkerFault(w)
  \/ \E i \in Stored : AckWaitExpires(i)
  \/ \E q \in Readers : ReaderStep(q)
  \/ RedisWiped

Spec == Init /\ [][Next]_vars

(* A goroutine that can go on does: a projection that is starting starts or *)
(* fails, one that is running takes messages.  The server's redelivery      *)
(* timer fires.  Nothing obliges anyone to transfer, to ask for a balance,  *)
(* or to restart a replica whose projection is off.                         *)
FairSpec ==
  /\ Spec
  /\ \A r \in Requests : WF_vars(HandlerStep(r))
  /\ \A w \in Workers : WF_vars(WorkerStep(w))
  /\ \A i \in 1..Cardinality(Requests) : WF_vars(AckWaitExpires(i))
  /\ \A q \in Readers : WF_vars(QueryBalanceFromDB(q) \/ SetBalance(q))

-----------------------------------------------------------------------------
TypeOK ==
  /\ balance \in [Users -> Nat]
  /\ past \in [Users -> SUBSET Nat]
  /\ hash \in [Users -> Nat \cup {Absent}]
  /\ wipes \in 0..MaxWipes
  /\ pc \in [Requests -> PcStates]
  /\ \A r \in Requests : pc[r] # "idle" => evt[r] \in Events
  /\ stream \in Seq(Events)
  /\ msg \in Seq(MsgStates)
  /\ deliveries \in Seq(0..MaxDeliver)
  /\ Len(msg) = Len(stream) /\ Len(deliveries) = Len(stream)
  /\ projection \in [Workers -> ProjectionStates]
  /\ restarts \in 0..MaxRestarts
  /\ \A w \in Workers : \/ worker[w] = Idle
                        \/ /\ worker[w].at \in {"hsetSender", "hsetReceiver", "ack"}
                           /\ worker[w].seq \in Stored
  /\ projected \subseteq Stored
  /\ \A q \in Readers :
       /\ reader[q].at \in {"idle", "miss", "fill", "replied"}
       /\ reader[q].at # "idle" => reader[q].user \in Users

(* Whatever is lost, repeated or reordered, the read model only ever holds, *)
(* and handleBalance only ever answers with, balances the account really    *)
(* had: never one of a transfer that was rolled back, and never the other   *)
(* party's.                                                                 *)
HashGenuine ==
  /\ \A u \in Users : hash[u] # Absent => hash[u] \in past[u]
  /\ \A q \in Readers : reader[q].at = "replied" => reader[q].value \in past[reader[q].user]

GenuineEvent(e) ==
  /\ e \in Events
  /\ e.SenderBalance \in past[e.SenderID]
  /\ e.ReceiverBalance \in past[e.ReceiverID]

(* Inductive strengthening of HashGenuine: every copy of a balance on its   *)
(* way to the hash (in a handler, in the stream, in a balance request) is   *)
(* genuine, and replicas only process stored events.                        *)
GenuineInv ==
  /\ balance \in [Users -> Nat]
  /\ log \in Seq(Book!Rows)
  /\ past \in [Users -> SUBSET Nat]
  /\ hash \in [Users -> Nat \cup {Absent}]
  /\ pc \in [Requests -> PcStates]
  /\ evt \in [Requests -> Events \cup {<<>>}]
  /\ stream \in Seq(Events)
  /\ worker \in [Workers -> [at: {"idle", "hsetSender", "hsetReceiver", "ack"}, seq: Nat]]
  /\ reader \in [Readers -> [at: {"idle", "miss", "fill", "replied"}, user: Nat, value: Nat]]
  /\ \A u \in Users : balance[u] \in past[u]
  /\ \A r \in Requests : pc[r] \in {"hsetSender", "hsetReceiver", "publish"} => GenuineEvent(evt[r])
  /\ \A i \in Stored : GenuineEvent(stream[i])
  /\ \A w \in Workers : worker[w].at # "idle" => worker[w].seq \in Stored
  /\ \A q \in Readers : reader[q].at # "idle" =>
        /\ reader[q].user \in Users
        /\ reader[q].at = "fill" => reader[q].value \in past[reader[q].user]
  /\ HashGenuine

(* An event is settled as acknowledged only once both of its balances have  *)
(* been written, although a callback may fail or die half way through.      *)
AckedIsProjected ==
  \A i \in Stored : msg[i] = "acked" => i \in projected

(* The balance of an account after the first n booked transfers. *)
Effect(u, row) ==
  (IF row.to = u THEN row.amount ELSE 0) - (IF row.from = u THEN row.amount ELSE 0)
BalanceAfter(u, n) ==
  InitialBalance[u] + SumOf([i \in 1..n |-> Effect(u, log[i])], n)

RecordsTransfer(e) ==
  /\ e.TransferID \in 1..Len(log)
  /\ log[e.TransferID].from = e.SenderID /\ log[e.TransferID].to = e.ReceiverID
  /\ e.SenderBalance = BalanceAfter(e.SenderID, e.TransferID)
  /\ e.ReceiverBalance = BalanceAfter(e.ReceiverID, e.TransferID)

(* BANKING_EVENTS is a partial audit log: whatever handlers fail, overtake  *)
(* one another or crash, each stored event is the record of one transfer    *)
(* that was booked, with the balances the book shows right after it (not    *)
(* those before it, nor after a later one), and no transfer is stored       *)
(* twice.                                                                   *)
StreamIsHistory ==
  /\ \A i \in Stored : RecordsTransfer(stream[i])
  /\ \A i, j \in Stored : stream[i].TransferID = stream[j].TransferID => i = j

(* Every stored event is eventually projected and acknowledged, or given up *)
(* after MaxDeliver attempts, whichever replicas crash, fail at Redis or    *)
(* are slow, unless the projections of all replicas are off: one that is    *)
(* running is enough.                                                       *)
EventsSettle ==
  \A i \in 1..Cardinality(Requests) :
    (i \in Stored) ~> \/ i \in Stored /\ msg[i] \in {"acked", "dead"}
                     \/ \A w \in Workers : projection[w] = "off"

(* Once nothing is under way a field of the hash is the account's balance   *)
(* ("the only way it becomes stale is if transfer-service's post-commit     *)
(* pipeline fails").                                                        *)
HashFreshAtRest ==
  Quiescent => \A u \in Users : hash[u] \in {Absent, balance[u]}
=============================================================================
