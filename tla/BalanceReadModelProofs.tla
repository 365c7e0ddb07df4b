----------------------- MODULE BalanceReadModelProofs -----------------------
(***************************************************************************)
(* Proof that the balance read model only ever shows balances an account   *)
(* really had, for any number of accounts, transfers, replicas and         *)
(* failures.                                                               *)
(***************************************************************************)
EXTENDS BalanceReadModel, SumTheorems, TLAPS

USE DEF Stored

(* An account keeps every balance it has had. *)
LEMMA PastGrows ==
  ASSUME GenuineInv, NEW r \in Requests, Commit(r)
  PROVE  /\ \A u \in Users : past[u] \subseteq past'[u] /\ balance'[u] \in past'[u]
         /\ balance' \in [Users -> Nat]
         /\ log' \in Seq(Book!Rows)
         /\ past' \in [Users -> SUBSET Nat]
         /\ evt' \in [Requests -> Events \cup {<<>>}]
         /\ GenuineEvent(evt[r])'
         /\ \A q \in Requests \ {r} : evt'[q] = evt[q]
<1> USE DEF GenuineInv
<1>1. PICK from \in Users, to \in Users :
        /\ Book!Book([id |-> Len(log) + 1, from |-> from, to |-> to,
                      amount |-> Amount, by |-> r])
        /\ evt' = [evt EXCEPT ![r] = PostCommitEvent(r, from, to)]
  BY DEF Commit
<1>2. /\ from # to
      /\ balance[from] >= Amount
      /\ balance' = [balance EXCEPT ![from] = @ - Amount, ![to] = @ + Amount]
  BY <1>1 DEF Book!Book
<1>3. balance' \in [Users -> Nat]
  BY <1>2, ReadModelAssumption
<1>4. /\ balance'[from] = balance[from] - Amount
      /\ balance'[to] = balance[to] + Amount
  BY <1>2
<1>5. past' = [u \in Users |-> past[u] \cup {balance'[u]}]
  BY DEF Commit
<1>6. /\ \A u \in Users : past[u] \subseteq past'[u] /\ balance'[u] \in past'[u]
      /\ past' \in [Users -> SUBSET Nat]
  BY <1>3, <1>5
<1>7. /\ PostCommitEvent(r, from, to).SenderID = from
      /\ PostCommitEvent(r, from, to).SenderBalance = balance'[from]
      /\ PostCommitEvent(r, from, to).ReceiverID = to
      /\ PostCommitEvent(r, from, to).ReceiverBalance = balance'[to]
  BY <1>4 DEF PostCommitEvent
<1>8. PostCommitEvent(r, from, to) \in Events
  <2>1. Len(log) + 1 \in Nat
    OBVIOUS
  <2>2. QED
    BY <1>3, <1>4, <2>1 DEF PostCommitEvent, Events
<1>9. evt'[r] = PostCommitEvent(r, from, to)
  BY <1>1
<1>10. log' \in Seq(Book!Rows)
  <2>1. [id |-> Len(log) + 1, from |-> from, to |-> to, amount |-> Amount, by |-> r] \in Book!Rows
    BY ReadModelAssumption DEF Book!Rows
  <2>2. QED
    BY <1>1, <2>1 DEF Book!Book
<1>11. QED
  BY <1>1, <1>3, <1>6, <1>7, <1>8, <1>9, <1>10 DEF GenuineEvent

(* Steps that only write the hash, with a genuine value or by losing it. *)
LEMMA HashWrite ==
  ASSUME GenuineInv, NEW u \in Users, NEW b \in past[u],
         hash' = [hash EXCEPT ![u] = b], past' = past
  PROVE  /\ hash' \in [Users -> Nat \cup {Absent}]
         /\ \A v \in Users : hash'[v] # Absent => hash'[v] \in past'[v]
BY DEF GenuineInv, HashGenuine

(* A transfer commits and its handler starts the post-commit pipeline. *)
LEMMA CommitGenuine ==
  ASSUME GenuineInv, NEW r \in Requests, Commit(r)
  PROVE  GenuineInv'
<1> USE DEF GenuineInv
<1>1. /\ \A u \in Users : past[u] \subseteq past'[u] /\ balance'[u] \in past'[u]
      /\ balance' \in [Users -> Nat]
      /\ log' \in Seq(Book!Rows)
      /\ past' \in [Users -> SUBSET Nat]
      /\ evt' \in [Requests -> Events \cup {<<>>}]
      /\ GenuineEvent(evt[r])'
      /\ \A q \in Requests \ {r} : evt'[q] = evt[q]
  BY PastGrows
<1>2. /\ pc' = [pc EXCEPT ![r] = "hsetSender"]
      /\ UNCHANGED <<hash, stream, worker, reader>>
  BY DEF Commit, natsVars
<1>3. pc' \in [Requests -> PcStates]
  BY <1>2 DEF PcStates
<1>4. ASSUME NEW e, GenuineEvent(e)
      PROVE  GenuineEvent(e)'
  <2>1. e.SenderID \in Users /\ e.ReceiverID \in Users
    BY <1>4 DEF GenuineEvent, Events
  <2>2. QED
    BY <1>1, <1>4, <2>1 DEF GenuineEvent
<1>5. \A i \in 1..Len(stream') : GenuineEvent(stream[i])'
  BY <1>2, <1>4 DEF GenuineEvent
<1>6. \A q \in Requests : pc'[q] \in {"hsetSender", "hsetReceiver", "publish"} => GenuineEvent(evt[q])'
  BY <1>1, <1>2, <1>4 DEF GenuineEvent
<1>7. HashGenuine'
  BY <1>1, <1>2 DEF HashGenuine
<1>8. \A q \in Readers : reader'[q].at # "idle" =>
        /\ reader'[q].user \in Users
        /\ reader'[q].at = "fill" => reader'[q].value \in past'[reader'[q].user]
  BY <1>1, <1>2
<1>9. QED
  BY <1>1, <1>2, <1>3, <1>5, <1>6, <1>7, <1>8

(* The commands of the post-commit pipeline, and its failures. *)
LEMMA PipelineGenuine ==
  ASSUME GenuineInv, NEW r \in Requests,
         HsetSender(r) \/ HsetReceiver(r) \/ PipelineFails(r) \/ HandlerCrashes(r) \/ PublishFails(r)
  PROVE  GenuineInv'
<1> USE DEF GenuineInv
<1>1. /\ UNCHANGED <<balance, log, past, evt, stream, worker, reader>>
      /\ pc[r] \in {"hsetSender", "hsetReceiver", "publish"}
      /\ \E s \in {"hsetReceiver", AfterPipeline, "replied", "crashed"} : pc' = [pc EXCEPT ![r] = s]
  BY DEF HsetSender, HsetReceiver, PipelineFails, HandlerCrashes, PublishFails,
         InFlight, bookVars, natsVars
<1>2. pc' \in [Requests -> PcStates]
  BY <1>1 DEF PcStates, AfterPipeline
<1>3. /\ GenuineEvent(evt[r])
      /\ evt[r].SenderID \in Users /\ evt[r].SenderBalance \in past[evt[r].SenderID]
      /\ evt[r].ReceiverID \in Users /\ evt[r].ReceiverBalance \in past[evt[r].ReceiverID]
  BY <1>1 DEF GenuineEvent, Events
<1>4. /\ hash' \in [Users -> Nat \cup {Absent}]
      /\ \A v \in Users : hash'[v] # Absent => hash'[v] \in past'[v]
  <2>1. CASE HsetSender(r)
    BY <1>1, <1>3, <2>1, HashWrite DEF HsetSender
  <2>2. CASE HsetReceiver(r)
    BY <1>1, <1>3, <2>2, HashWrite DEF HsetReceiver
  <2>3. CASE hash' = hash
    BY <1>1, <2>3 DEF HashGenuine
  <2>4. QED
    BY <2>1, <2>2, <2>3 DEF PipelineFails, HandlerCrashes, PublishFails
<1>5. \A q \in Requests : pc'[q] \in {"hsetSender", "hsetReceiver", "publish"} =>
         GenuineEvent(evt[q])'
  BY <1>1, <1>3 DEF GenuineEvent
<1>6. QED
  BY <1>1, <1>2, <1>4, <1>5 DEF HashGenuine, GenuineEvent

(* The JetStream publish. *)
LEMMA PublishGenuine ==
  ASSUME GenuineInv, NEW r \in Requests, PublishEvent(r)
  PROVE  GenuineInv'
<1> USE DEF GenuineInv
<1>1. /\ UNCHANGED <<balance, log, past, hash, evt, worker, reader>>
      /\ pc[r] = "publish"
      /\ pc' = [pc EXCEPT ![r] = "replied"]
      /\ stream' = stream \/ stream' = Append(stream, evt[r])
  BY DEF PublishEvent, StoreEvent, bookVars
<1>2. pc' \in [Requests -> PcStates]
  BY <1>1 DEF PcStates
<1>3. GenuineEvent(evt[r]) /\ evt[r] \in Events
  BY <1>1 DEF GenuineEvent
<1>4. /\ stream' \in Seq(Events)
      /\ Len(stream) <= Len(stream')
      /\ \A i \in 1..Len(stream') : GenuineEvent(stream'[i])
  <2>1. CASE stream' = stream
    BY <2>1
  <2>2. CASE stream' = Append(stream, evt[r])
    <3>1. /\ stream' \in Seq(Events)
          /\ Len(stream') = Len(stream) + 1
          /\ stream'[Len(stream) + 1] = evt[r]
          /\ \A i \in 1..Len(stream) : stream'[i] = stream[i]
      BY <1>3, <2>2
    <3>2. Len(stream) \in Nat
      OBVIOUS
    <3>3. ASSUME NEW i \in 1..Len(stream')
          PROVE  GenuineEvent(stream'[i])
      <4>1. CASE i \in 1..Len(stream)
        BY <3>1, <4>1
      <4>2. CASE i = Len(stream) + 1
        BY <1>3, <3>1, <4>2
      <4>3. QED
        BY <3>1, <3>2, <4>1, <4>2
    <3>4. QED
      BY <3>1, <3>2, <3>3
  <2>3. QED
    BY <1>1, <2>1, <2>2
<1>5. \A i \in 1..Len(stream') : GenuineEvent(stream[i])'
  BY <1>1, <1>4 DEF GenuineEvent
<1>6. \A w \in Workers : worker'[w].at # "idle" => worker'[w].seq \in 1..Len(stream')
  BY <1>1, <1>4
<1>7. \A q \in Requests : pc'[q] \in {"hsetSender", "hsetReceiver", "publish"} =>
         GenuineEvent(evt[q])'
  BY <1>1 DEF GenuineEvent
<1>8. QED
  BY <1>1, <1>2, <1>4, <1>5, <1>6, <1>7 DEF HashGenuine

(* The projection's callback. *)
LEMMA WorkerGenuine ==
  ASSUME GenuineInv, NEW w \in Workers,
         WorkerStep(w) \/ WorkerFault(w)
  PROVE  GenuineInv'
<1> USE DEF GenuineInv
<1>1. UNCHANGED <<balance, log, past, pc, evt, stream, reader>>
  BY DEF WorkerStep, WorkerFault, ProjectionStarts, ProjectionFails, Deliver, ProjectSender,
         ProjectReceiver, Ack, Nak, WorkerCrashes, bookVars
<1>2. /\ worker' \in [Workers -> [at: {"idle", "hsetSender", "hsetReceiver", "ack"}, seq: Nat]]
      /\ \A v \in Workers : worker'[v].at # "idle" => worker'[v].seq \in Stored
  <2>1. CASE Deliver(w)
    <3>1. PICK i \in Stored : worker' = [worker EXCEPT ![w] = [at |-> "hsetSender", seq |-> i]]
      BY <2>1 DEF Deliver
    <3>2. QED
      BY <3>1
  <2>2. CASE worker' = [worker EXCEPT ![w] = Idle]
    BY <2>2 DEF Idle
  <2>3. CASE /\ worker[w].at # "idle"
             /\ \E s \in {"hsetReceiver", "ack"} : worker' = [worker EXCEPT ![w].at = s]
    <3>1. PICK s \in {"hsetReceiver", "ack"} : worker' = [worker EXCEPT ![w].at = s]
      BY <2>3
    <3>2. /\ worker'[w].seq = worker[w].seq
          /\ worker'[w] \in [at: {"idle", "hsetSender", "hsetReceiver", "ack"}, seq: Nat]
          /\ \A v \in Workers \ {w} : worker'[v] = worker[v]
      BY <3>1
    <3>3. worker' \in [Workers -> [at: {"idle", "hsetSender", "hsetReceiver", "ack"}, seq: Nat]]
      BY <3>1
    <3>4. QED
      BY <2>3, <3>2, <3>3
  <2>4. CASE worker' = worker
    BY <2>4
  <2>5. QED
    BY <2>1, <2>2, <2>3, <2>4
    DEF WorkerStep, WorkerFault, ProjectionStarts, ProjectionFails, ProjectSender,
        ProjectReceiver, Ack, Nak, WorkerCrashes
<1>3. /\ hash' \in [Users -> Nat \cup {Absent}]
      /\ \A v \in Users : hash'[v] # Absent => hash'[v] \in past'[v]
  <2>1. ASSUME worker[w].at # "idle"
        PROVE  LET e == stream[worker[w].seq]
               IN  /\ e.SenderID \in Users /\ e.SenderBalance \in past[e.SenderID]
                   /\ e.ReceiverID \in Users /\ e.ReceiverBalance \in past[e.ReceiverID]
    <3>1. GenuineEvent(stream[worker[w].seq])
      BY <2>1
    <3>2. QED
      BY <3>1 DEF GenuineEvent, Events
  <2>2. CASE ProjectSender(w)
    BY <1>1, <2>1, <2>2, HashWrite DEF ProjectSender
  <2>3. CASE ProjectReceiver(w)
    BY <1>1, <2>1, <2>3, HashWrite DEF ProjectReceiver
  <2>4. CASE hash' = hash
    BY <1>1, <2>4 DEF HashGenuine
  <2>5. QED
    BY <2>2, <2>3, <2>4 DEF WorkerStep, WorkerFault, ProjectionStarts, ProjectionFails,
                            Deliver, Ack, Nak, WorkerCrashes
<1>4. QED
  BY <1>1, <1>2, <1>3 DEF HashGenuine, GenuineEvent

(* handleBalance. *)
LEMMA ReaderGenuine ==
  ASSUME GenuineInv, NEW q \in Readers, ReaderStep(q)
  PROVE  GenuineInv'
<1> USE DEF GenuineInv
<1>1. UNCHANGED <<balance, log, past, pc, evt, stream, worker>>
  BY DEF ReaderStep, GetBalanceHit, GetBalanceMiss, QueryBalanceFromDB, SetBalance,
         bookVars, natsVars
<1> DEFINE Fine(rd) ==
      /\ rd \in [at: {"idle", "miss", "fill", "replied"}, user: Nat, value: Nat]
      /\ rd.at # "idle" => rd.user \in Users
      /\ rd.at \in {"fill", "replied"} => rd.value \in past[rd.user]
<1>2. PICK rd : reader' = [reader EXCEPT ![q] = rd] /\ Fine(rd)
  <2>1. CASE GetBalanceHit(q)
    <3>1. PICK u \in Users :
            /\ hash[u] # Absent
            /\ reader' = [reader EXCEPT ![q] = [at |-> "replied", user |-> u, value |-> hash[u]]]
      BY <2>1 DEF GetBalanceHit
    <3>2. Fine([at |-> "replied", user |-> u, value |-> hash[u]])
      BY <3>1, ReadModelAssumption DEF HashGenuine
    <3>3. QED
      BY <3>1, <3>2
  <2>2. CASE GetBalanceMiss(q)
    <3>1. PICK u \in Users :
            reader' = [reader EXCEPT ![q] = [at |-> "miss", user |-> u, value |-> 0]]
      BY <2>2 DEF GetBalanceMiss
    <3>2. Fine([at |-> "miss", user |-> u, value |-> 0])
      BY ReadModelAssumption
    <3>3. QED
      BY <3>1, <3>2
  <2>3. CASE QueryBalanceFromDB(q)
    <3>1. /\ reader[q].at = "miss" /\ reader[q].user \in Users
          /\ reader' = [reader EXCEPT ![q] = [@ EXCEPT !.at = "fill",
                                                       !.value = balance[reader[q].user]]]
      BY <2>3 DEF QueryBalanceFromDB
    <3>2. Fine([reader[q] EXCEPT !.at = "fill", !.value = balance[reader[q].user]])
      BY <3>1
    <3>3. QED
      BY <3>1, <3>2
  <2>4. CASE SetBalance(q)
    <3>1. /\ reader[q].at = "fill"
          /\ reader' = [reader EXCEPT ![q] = [@ EXCEPT !.at = "replied"]]
      BY <2>4 DEF SetBalance
    <3>2. Fine([reader[q] EXCEPT !.at = "replied"])
      BY <3>1
    <3>3. QED
      BY <3>1, <3>2
  <2>5. QED
    BY <2>1, <2>2, <2>3, <2>4 DEF ReaderStep
<1>3. /\ hash' \in [Users -> Nat \cup {Absent}]
      /\ \A v \in Users : hash'[v] # Absent => hash'[v] \in past'[v]
  <2>1. CASE SetBalance(q) /\ hash' # hash
    BY <1>1, <2>1, HashWrite DEF SetBalance
  <2>2. CASE hash' = hash
    BY <1>1, <2>2 DEF HashGenuine
  <2>3. QED
    BY <2>1, <2>2 DEF ReaderStep, GetBalanceHit, GetBalanceMiss, QueryBalanceFromDB
<1>4. /\ reader'[q] = rd
      /\ \A p \in Readers \ {q} : reader'[p] = reader[p]
      /\ reader' \in [Readers -> [at: {"idle", "miss", "fill", "replied"}, user: Nat, value: Nat]]
  BY <1>2
<1>5. QED
  BY <1>1, <1>2, <1>3, <1>4 DEF HashGenuine, GenuineEvent

(* GenuineInv holds at every step. *)
THEOREM GenuineInvariance == Spec => []GenuineInv
<1>1. Init => GenuineInv
  <2> SUFFICES ASSUME Init PROVE GenuineInv
    OBVIOUS
  <2> USE DEF Init, ReadModelAssumption
  <2>1. /\ Idle \in [at: {"idle", "hsetSender", "hsetReceiver", "ack"}, seq: Nat]
        /\ NoRead \in [at: {"idle", "miss", "fill", "replied"}, user: Nat, value: Nat]
        /\ "idle" \in PcStates
    BY DEF Idle, NoRead, PcStates
  <2>2. HashGenuine
    BY ReadModelAssumption DEF HashGenuine, NoRead
  <2>3. \A w \in Workers : worker[w].at = "idle"
    BY DEF Idle
  <2>4. \A q \in Readers : reader[q].at = "idle"
    BY DEF NoRead
  <2>5. /\ balance \in [Users -> Nat] /\ past \in [Users -> SUBSET Nat]
        /\ hash \in [Users -> Nat \cup {Absent}]
        /\ \A u \in Users : balance[u] \in past[u]
    BY ReadModelAssumption
  <2>6. QED
    BY <2>1, <2>2, <2>3, <2>4, <2>5 DEF GenuineInv
<1>2. GenuineInv /\ [Next]_vars => GenuineInv'
  <2> SUFFICES ASSUME GenuineInv, [Next]_vars PROVE GenuineInv'
    OBVIOUS
  <2>1. ASSUME NEW i \in Stored, AckWaitExpires(i)
        PROVE  GenuineInv'
    BY <2>1 DEF AckWaitExpires, bookVars, GenuineInv, HashGenuine, GenuineEvent
  <2>2. CASE RedisWiped
    BY <2>2 DEF RedisWiped, bookVars, natsVars, GenuineInv, HashGenuine, GenuineEvent
  <2>3. CASE UNCHANGED vars
    BY <2>3 DEF vars, GenuineInv, HashGenuine, GenuineEvent
  <2>4. QED
    BY <2>1, <2>2, <2>3, CommitGenuine, PipelineGenuine, PublishGenuine, WorkerGenuine,
       ReaderGenuine DEF Next, HandlerStep
<1>3. QED
  BY <1>1, <1>2, PTL DEF Spec

(* The read model and the answers of handleBalance only ever show balances  *)
(* the account really had.                                                  *)
THEOREM GenuineBalances == Spec => []HashGenuine
<1>1. GenuineInv => HashGenuine
  BY DEF GenuineInv
<1>2. QED
  BY <1>1, GenuineInvariance, PTL

-----------------------------------------------------------------------------
(***************************************************************************)
(* The durable consumer.  An event is counted as projected before it can   *)
(* be acknowledged: the replica about to acknowledge has written both      *)
(* fields, whatever other replicas do with the same event meanwhile.  And  *)
(* the counter of deliveries stays within MaxDeliver because an event that *)
(* may still be delivered has an attempt left.                             *)
(***************************************************************************)
DeliveryInv ==
  /\ wipes \in 0..MaxWipes
  /\ \A r \in Requests : pc[r] # "idle" => evt[r] \in Events
  /\ msg \in Seq(MsgStates)
  /\ deliveries \in Seq(0..MaxDeliver)
  /\ Len(msg) = Len(stream) /\ Len(deliveries) = Len(stream)
  /\ \A i \in Stored : msg[i] \in {"new", "ready"} => deliveries[i] < MaxDeliver
  /\ projected \subseteq Stored
  /\ AckedIsProjected
  /\ \A w \in Workers : worker[w].at = "idle" => worker[w] = Idle
  /\ \A w \in Workers : worker[w].at = "ack" => worker[w].seq \in projected

(* Changing the state of one stored event at the consumer. *)
LEMMA MsgUpdate ==
  ASSUME GenuineInv, DeliveryInv, NEW i \in Stored, NEW s \in MsgStates,
         msg' = [msg EXCEPT ![i] = s], UNCHANGED <<stream, deliveries, projected>>,
         s \in {"new", "ready"} => deliveries[i] < MaxDeliver,
         s = "acked" => i \in projected
  PROVE  /\ msg' \in Seq(MsgStates) /\ Len(msg') = Len(stream')
         /\ \A j \in 1..Len(stream') : msg'[j] \in {"new", "ready"} => deliveries'[j] < MaxDeliver
         /\ \A j \in 1..Len(stream') : msg'[j] = "acked" => j \in projected'
<1>1. i \in 1..Len(msg) /\ msg \in Seq(MsgStates)
  BY DEF DeliveryInv
<1>2. /\ msg' \in Seq(MsgStates) /\ Len(msg') = Len(msg)
      /\ \A j \in 1..Len(msg) : msg'[j] = IF j = i THEN s ELSE msg[j]
  BY <1>1
<1>3. QED
  BY <1>2 DEF DeliveryInv, AckedIsProjected

(* What Undelivered gives a message is a state it may be in. *)
LEMMA UndeliveredFits ==
  ASSUME GenuineInv, DeliveryInv, NEW i \in Stored
  PROVE  /\ Undelivered(i) \in MsgStates /\ Undelivered(i) # "acked"
         /\ Undelivered(i) \in {"new", "ready"} => deliveries[i] < MaxDeliver
BY DEF Undelivered, MsgStates

(* A new event is stored. *)
LEMMA PublishDelivery ==
  ASSUME GenuineInv, DeliveryInv, NEW r \in Requests, PublishEvent(r)
  PROVE  DeliveryInv'
<1> USE DEF DeliveryInv, AckedIsProjected
<1>1. /\ UNCHANGED <<wipes, evt, worker, projected>>
      /\ pc[r] = "publish" /\ pc' = [pc EXCEPT ![r] = "replied"]
      /\ evt[r] \in Events
  BY DEF PublishEvent
<1>2. \A q \in Requests : pc'[q] # "idle" => evt'[q] \in Events
  BY <1>1 DEF GenuineInv
<1>3. CASE UNCHANGED <<stream, msg, deliveries>>
  BY <1>1, <1>2, <1>3
<1>4. CASE /\ stream' = Append(stream, evt[r])
           /\ msg' = Append(msg, "new")
           /\ deliveries' = Append(deliveries, 0)
  <2>1. /\ stream \in Seq(Events) /\ msg \in Seq(MsgStates) /\ deliveries \in Seq(0..MaxDeliver)
        /\ "new" \in MsgStates /\ 0 \in 0..MaxDeliver /\ 0 < MaxDeliver
    BY ReadModelAssumption DEF GenuineInv, MsgStates
  <2>2. /\ Len(stream) \in Nat /\ Len(stream') = Len(stream) + 1
        /\ msg' \in Seq(MsgStates) /\ Len(msg') = Len(stream')
        /\ deliveries' \in Seq(0..MaxDeliver) /\ Len(deliveries') = Len(stream')
        /\ msg'[Len(stream) + 1] = "new" /\ deliveries'[Len(stream) + 1] = 0
        /\ \A i \in Stored : msg'[i] = msg[i] /\ deliveries'[i] = deliveries[i]
    BY <1>1, <1>4, <2>1
  <2>3. \A i \in 1..Len(stream') : i \in Stored \/ i = Len(stream) + 1
    BY <2>2
  <2>4. /\ \A i \in 1..Len(stream') : msg'[i] \in {"new", "ready"} => deliveries'[i] < MaxDeliver
        /\ \A i \in 1..Len(stream') : msg'[i] = "acked" => i \in projected'
    BY <1>1, <2>1, <2>2, <2>3
  <2>5. projected' \subseteq 1..Len(stream')
    BY <1>1, <2>2
  <2>6. QED
    BY <1>1, <1>2, <2>2, <2>4, <2>5
<1>5. QED
  BY <1>3, <1>4 DEF PublishEvent, StoreEvent

(* The projection's callback: delivery, its two writes, Ack, Nak, crash. *)
LEMMA WorkerDelivery ==
  ASSUME GenuineInv, DeliveryInv, NEW w \in Workers,
         WorkerStep(w) \/ WorkerFault(w)
  PROVE  DeliveryInv'
<1>1. UNCHANGED <<wipes, pc, evt, stream>>
  BY DEF WorkerStep, WorkerFault, ProjectionStarts, ProjectionFails, Deliver, ProjectSender,
         ProjectReceiver, Ack, Nak, WorkerCrashes
<1>2. worker \in [Workers -> [at: {"idle", "hsetSender", "hsetReceiver", "ack"}, seq: Nat]]
  BY DEF GenuineInv
<1>3. worker[w].at # "idle" => worker[w].seq \in Stored
  BY DEF GenuineInv
<1>4. CASE Deliver(w)
  <2>1. PICK i \in Stored :
          /\ Deliverable(i)
          /\ msg' = [msg EXCEPT ![i] = "inflight"]
          /\ deliveries' = [deliveries EXCEPT ![i] = @ + 1]
          /\ worker' = [worker EXCEPT ![w] = [at |-> "hsetSender", seq |-> i]]
    BY <1>4 DEF Deliver
  <2>2. projected' = projected
    BY <1>4 DEF Deliver
  <2>3. /\ msg[i] \in {"new", "ready"} /\ deliveries[i] < MaxDeliver
        /\ msg \in Seq(MsgStates) /\ i \in 1..Len(msg)
        /\ deliveries \in Seq(0..MaxDeliver) /\ i \in 1..Len(deliveries)
    BY <2>1 DEF Deliverable, DeliveryInv
  <2>4. /\ msg' \in Seq(MsgStates) /\ Len(msg') = Len(msg)
        /\ \A j \in 1..Len(msg) : msg'[j] = IF j = i THEN "inflight" ELSE msg[j]
    BY <2>1, <2>3 DEF MsgStates
  <2>5. deliveries[i] + 1 \in 0..MaxDeliver
    BY <2>3, ReadModelAssumption
  <2>6. /\ deliveries' \in Seq(0..MaxDeliver) /\ Len(deliveries') = Len(deliveries)
        /\ \A j \in 1..Len(deliveries) : j # i => deliveries'[j] = deliveries[j]
    BY <2>1, <2>3, <2>5
  <2>7. \A v \in Workers : worker'[v].at \in {"idle", "ack"} => worker'[v] = worker[v]
    BY <1>2, <2>1
  <2>8. QED
    BY <1>1, <2>2, <2>4, <2>6, <2>7 DEF DeliveryInv, AckedIsProjected
<1>5. CASE ProjectSender(w)
  <2>1. /\ worker[w].at = "hsetSender"
        /\ worker' = [worker EXCEPT ![w].at = "hsetReceiver"]
        /\ UNCHANGED <<msg, deliveries, projected>>
    BY <1>5 DEF ProjectSender
  <2>2. \A v \in Workers : worker'[v].at \in {"idle", "ack"} => worker'[v] = worker[v]
    BY <1>2, <2>1
  <2>3. QED
    BY <1>1, <2>1, <2>2 DEF DeliveryInv, AckedIsProjected
<1>6. CASE ProjectReceiver(w)
  <2>1. /\ worker[w].at = "hsetReceiver"
        /\ worker' = [worker EXCEPT ![w].at = "ack"]
        /\ projected' = projected \cup {worker[w].seq}
        /\ UNCHANGED <<msg, deliveries>>
    BY <1>6 DEF ProjectReceiver
  <2>2. /\ worker'[w].seq = worker[w].seq /\ worker'[w].at = "ack"
        /\ \A v \in Workers \ {w} : worker'[v] = worker[v]
    BY <1>2, <2>1
  <2>3. projected' \subseteq 1..Len(stream')
    BY <1>1, <1>3, <2>1 DEF DeliveryInv
  <2>4. QED
    BY <1>1, <2>1, <2>2, <2>3 DEF DeliveryInv, AckedIsProjected
<1>7. ASSUME worker' = [worker EXCEPT ![w] = Idle]
      PROVE  /\ \A v \in Workers : worker'[v].at = "idle" => worker'[v] = Idle
             /\ \A v \in Workers : worker'[v].at = "ack" => worker'[v].seq \in projected
  BY <1>2, <1>7 DEF DeliveryInv, Idle
<1>8. CASE Ack(w)
  <2>1. /\ worker[w].at = "ack" /\ worker[w].seq \in Stored
        /\ msg' = [msg EXCEPT ![worker[w].seq] = "acked"]
        /\ worker' = [worker EXCEPT ![w] = Idle]
        /\ UNCHANGED <<deliveries, projected>>
    BY <1>3, <1>8 DEF Ack
  <2>2. worker[w].seq \in projected /\ "acked" \in MsgStates
    BY <2>1 DEF DeliveryInv, MsgStates
  <2>3. QED
    BY <1>1, <1>7, <2>1, <2>2, MsgUpdate DEF DeliveryInv, AckedIsProjected
<1>9. CASE Nak(w)
  <2>1. /\ worker[w].seq \in Stored
        /\ msg' = [msg EXCEPT ![worker[w].seq] =
                      IF @ = "inflight" THEN Undelivered(worker[w].seq) ELSE @]
        /\ worker' = [worker EXCEPT ![w] = Idle]
        /\ UNCHANGED <<deliveries, projected>>
    BY <1>3, <1>9 DEF Nak
  <2> DEFINE i == worker[w].seq
             s == IF msg[i] = "inflight" THEN Undelivered(i) ELSE msg[i]
  <2>2. /\ s \in MsgStates
        /\ s \in {"new", "ready"} => deliveries[i] < MaxDeliver
        /\ s = "acked" => i \in projected
    BY <2>1, UndeliveredFits DEF DeliveryInv, AckedIsProjected
  <2>3. msg' = [msg EXCEPT ![i] = s]
    BY <2>1
  <2> HIDE DEF i, s
  <2>4. i \in Stored
    BY <2>1 DEF i
  <2>5. QED
    BY <1>1, <1>7, <2>1, <2>2, <2>3, <2>4, MsgUpdate DEF DeliveryInv, AckedIsProjected
<1>10. CASE WorkerCrashes(w)
  <2>1. /\ worker' = [worker EXCEPT ![w] = Idle]
        /\ UNCHANGED <<msg, deliveries, projected>>
    BY <1>10 DEF WorkerCrashes
  <2>2. QED
    BY <1>1, <1>7, <2>1 DEF DeliveryInv, AckedIsProjected
<1>11. CASE ProjectionStarts(w) \/ ProjectionFails(w)
  BY <1>1, <1>11 DEF ProjectionStarts, ProjectionFails, DeliveryInv, AckedIsProjected
<1>12. QED
  BY <1>4, <1>5, <1>6, <1>8, <1>9, <1>10, <1>11 DEF WorkerStep, WorkerFault

(* Every step keeps it. *)
LEMMA DeliveryStep ==
  ASSUME GenuineInv, DeliveryInv, [Next]_vars
  PROVE  DeliveryInv'
<1>1. ASSUME NEW r \in Requests, Commit(r)
      PROVE  DeliveryInv'
  <2>1. /\ evt' \in [Requests -> Events \cup {<<>>}] /\ GenuineEvent(evt[r])'
        /\ \A q \in Requests \ {r} : evt'[q] = evt[q]
    BY <1>1, PastGrows
  <2>2. /\ pc' = [pc EXCEPT ![r] = "hsetSender"]
        /\ UNCHANGED <<wipes, stream, msg, deliveries, worker, projected>>
    BY <1>1 DEF Commit, natsVars
  <2>3. \A q \in Requests : pc'[q] # "idle" => evt'[q] \in Events
    BY <2>1, <2>2 DEF GenuineInv, DeliveryInv, GenuineEvent
  <2>4. QED
    BY <2>2, <2>3 DEF DeliveryInv, AckedIsProjected
<1>2. ASSUME NEW r \in Requests,
             HsetSender(r) \/ HsetReceiver(r) \/ PipelineFails(r) \/ HandlerCrashes(r) \/ PublishFails(r)
      PROVE  DeliveryInv'
  <2>1. /\ pc[r] # "idle"
        /\ \E s : pc' = [pc EXCEPT ![r] = s]
        /\ UNCHANGED <<wipes, evt, stream, msg, deliveries, worker, projected>>
    BY <1>2 DEF HsetSender, HsetReceiver, PipelineFails, HandlerCrashes, PublishFails,
                InFlight, natsVars
  <2>2. \A q \in Requests : pc'[q] # "idle" => evt'[q] \in Events
    BY <2>1 DEF GenuineInv, DeliveryInv
  <2>3. QED
    BY <2>1, <2>2 DEF DeliveryInv, AckedIsProjected
<1>3. ASSUME NEW i \in Stored, AckWaitExpires(i)
      PROVE  DeliveryInv'
  <2>1. /\ msg' = [msg EXCEPT ![i] = Undelivered(i)]
        /\ UNCHANGED <<wipes, pc, evt, stream, deliveries, worker, projected>>
    BY <1>3 DEF AckWaitExpires
  <2>2. QED
    BY <2>1, UndeliveredFits, MsgUpdate DEF DeliveryInv, AckedIsProjected
<1>4. CASE RedisWiped
  BY <1>4, ReadModelAssumption DEF RedisWiped, natsVars, DeliveryInv, AckedIsProjected
<1>5. ASSUME NEW q \in Readers, ReaderStep(q)
      PROVE  DeliveryInv'
  BY <1>5 DEF ReaderStep, GetBalanceHit, GetBalanceMiss, QueryBalanceFromDB, SetBalance,
              natsVars, DeliveryInv, AckedIsProjected
<1>6. CASE UNCHANGED vars
  BY <1>6 DEF vars, DeliveryInv, AckedIsProjected
<1>7. QED
  BY <1>1, <1>2, <1>3, <1>4, <1>5, <1>6, PublishDelivery, WorkerDelivery DEF Next, HandlerStep

(* DeliveryInv holds at every step. *)
LEMMA DeliveryInvariance == Spec => []DeliveryInv
<1>1. Init => DeliveryInv
  BY ReadModelAssumption DEF Init, DeliveryInv, AckedIsProjected, Idle
<1>2. GenuineInv /\ DeliveryInv /\ [Next]_vars => DeliveryInv'
  BY DeliveryStep
<1>3. QED
  BY <1>1, <1>2, GenuineInvariance, PTL DEF Spec

(* An acknowledged event has been written to the hash in full, although     *)
(* events are redelivered while other replicas still process them.          *)
THEOREM AcknowledgedIsWritten == Spec => []AckedIsProjected
<1>1. DeliveryInv => AckedIsProjected
  BY DEF DeliveryInv
<1>2. QED
  BY <1>1, DeliveryInvariance, PTL

(* A replica's projection is starting, running or off, over any restarts. *)
ProcessInv ==
  /\ projection \in [Workers -> ProjectionStates]
  /\ restarts \in 0..MaxRestarts

LEMMA ProcessInvariance == Spec => []ProcessInv
<1> USE DEF ProcessInv
<1>1. Init => ProcessInv
  BY ReadModelAssumption DEF Init, ProjectionStates
<1>2. ProcessInv /\ [Next]_vars => ProcessInv'
  <2> SUFFICES ASSUME ProcessInv, [Next]_vars PROVE ProcessInv'
    OBVIOUS
  <2>1. CASE UNCHANGED procVars
    BY <2>1 DEF procVars
  <2>2. ASSUME NEW w \in Workers, ProjectionStarts(w) \/ ProjectionFails(w) \/ WorkerCrashes(w)
        PROVE  ProcessInv'
    BY <2>2, ReadModelAssumption
    DEF ProjectionStarts, ProjectionFails, WorkerCrashes, ProjectionStates
  <2>3. ASSUME NEW r \in Requests,
               Commit(r) \/ HandlerStep(r) \/ PipelineFails(r) \/ HandlerCrashes(r) \/ PublishFails(r)
        PROVE  UNCHANGED procVars
    BY <2>3 DEF Commit, HandlerStep, HsetSender, HsetReceiver, PublishEvent, PipelineFails,
                HandlerCrashes, PublishFails, natsVars, procVars
  <2>4. ASSUME NEW w \in Workers, Deliver(w) \/ ProjectSender(w) \/ ProjectReceiver(w) \/ Ack(w) \/ Nak(w)
        PROVE  UNCHANGED procVars
    BY <2>4 DEF Deliver, ProjectSender, ProjectReceiver, Ack, Nak
  <2>5. ASSUME NEW q \in Readers, ReaderStep(q)
        PROVE  UNCHANGED procVars
    BY <2>5 DEF ReaderStep, GetBalanceHit, GetBalanceMiss, QueryBalanceFromDB, SetBalance,
                natsVars, procVars
  <2>6. ASSUME NEW i \in Stored, AckWaitExpires(i)
        PROVE  UNCHANGED procVars
    BY <2>6 DEF AckWaitExpires
  <2>7. CASE RedisWiped \/ UNCHANGED vars
    BY <2>1, <2>7 DEF RedisWiped, natsVars, procVars, vars
  <2>8. QED
    BY <2>1, <2>2, <2>3, <2>4, <2>5, <2>6, <2>7 DEF Next, WorkerStep, WorkerFault
<1>3. QED
  BY <1>1, <1>2, PTL DEF Spec

(* Type correctness, with no event delivered more than MaxDeliver times. *)
THEOREM ReadModelTypes == Spec => []TypeOK
<1>1. ASSUME GenuineInv, DeliveryInv, ProcessInv
      PROVE  TypeOK
  <2>1. \A w \in Workers : \/ worker[w] = Idle
                          \/ /\ worker[w].at \in {"hsetSender", "hsetReceiver", "ack"}
                             /\ worker[w].seq \in Stored
    BY <1>1 DEF GenuineInv, DeliveryInv
  <2>2. QED
    BY <1>1, <2>1 DEF GenuineInv, DeliveryInv, ProcessInv, TypeOK
<1>2. QED
  BY <1>1, GenuineInvariance, DeliveryInvariance, ProcessInvariance, PTL

-----------------------------------------------------------------------------
(***************************************************************************)
(* The stream as an audit log.  What an event says of its transfer is      *)
(* fixed at the commit: rows are only added to the book, so the sum over   *)
(* its first rows never changes, whichever transfers are booked before the *)
(* event is published.                                                     *)
(***************************************************************************)
HistoryInv ==
  /\ \A u \in Users : balance[u] = BalanceAfter(u, Len(log))
  /\ \A r \in Requests :
       pc[r] \in {"hsetSender", "hsetReceiver", "publish"} => RecordsTransfer(evt[r])
  /\ StreamIsHistory

LEMMA LogRows ==
  ASSUME log \in Seq(Book!Rows)
  PROVE  Len(log) \in Nat /\ \A i \in 1..Len(log) : log[i] \in Book!Rows
OBVIOUS

LEMMA EffectInt ==
  ASSUME NEW u, NEW row \in Book!Rows
  PROVE  Effect(u, row) \in Int
<1>1. row.amount \in Nat
  BY DEF Book!Rows
<1> QED
  BY <1>1 DEF Effect

(* A row added to the book changes no earlier balance ... *)
LEMMA EarlierBalances ==
  ASSUME GenuineInv, NEW row, log' = Append(log, row), NEW u, NEW n \in 1..Len(log)
  PROVE  BalanceAfter(u, n)' = BalanceAfter(u, n)
<1>1. \A i \in 1..n : log'[i] = log[i]
  BY LogRows DEF GenuineInv
<1>2. [i \in 1..n |-> Effect(u, log'[i])] = [i \in 1..n |-> Effect(u, log[i])]
  BY <1>1
<1> QED
  BY <1>2 DEF BalanceAfter, Effect

(* ... and the balance after it is the one before it plus its effect. *)
LEMMA NextBalance ==
  ASSUME GenuineInv, NEW row \in Book!Rows, log' = Append(log, row), NEW u \in Users
  PROVE  BalanceAfter(u, Len(log))' = BalanceAfter(u, Len(log)) + Effect(u, row)
<1> DEFINE n == Len(log)
           old == [i \in 1..n |-> Effect(u, log[i])]
           new == [i \in 1..(n + 1) |-> Effect(u, log'[i])]
<1>1. /\ n \in Nat
      /\ Len(log') = n + 1
      /\ log'[n + 1] = row
      /\ \A i \in 1..n : log'[i] = log[i]
      /\ \A i \in 1..n : log[i] \in Book!Rows
  BY LogRows DEF GenuineInv
<1>2. \A i \in 1..(n + 1) : log'[i] \in Book!Rows
  BY <1>1
<1>3. old \in [1..n -> Int] /\ new \in [1..(n + 1) -> Int]
  BY <1>1, <1>2, EffectInt
<1>4. new[n + 1] = Effect(u, row) /\ \A i \in 1..n : new[i] = old[i]
  BY <1>1
<1>5. /\ BalanceAfter(u, Len(log)) = InitialBalance[u] + SumOf(old, n)
      /\ BalanceAfter(u, Len(log))' = InitialBalance[u] + SumOf(new, n + 1)
  BY <1>1 DEF BalanceAfter, Effect
<1>6. InitialBalance[u] \in Int /\ Effect(u, row) \in Int
  BY ReadModelAssumption, EffectInt
<1> HIDE DEF n, old, new
<1>7. SumOf(old, n) \in Int /\ SumOf(new, n + 1) = SumOf(old, n) + new[n + 1]
  BY <1>1, <1>3, <1>4, SumOfInt, SumOfNext
<1> QED
  BY <1>4, <1>5, <1>6, <1>7

(* What was recorded stays so. *)
LEMMA RecordsStay ==
  ASSUME GenuineInv, NEW row, log' = Append(log, row), NEW e, RecordsTransfer(e)
  PROVE  /\ e.TransferID \in 1..Len(log')
         /\ log'[e.TransferID].from = e.SenderID /\ log'[e.TransferID].to = e.ReceiverID
         /\ e.SenderBalance = BalanceAfter(e.SenderID, e.TransferID)'
         /\ e.ReceiverBalance = BalanceAfter(e.ReceiverID, e.TransferID)'
<1> DEFINE n == e.TransferID
<1>1. /\ n \in 1..Len(log)
      /\ log[n].from = e.SenderID /\ log[n].to = e.ReceiverID
      /\ e.SenderBalance = BalanceAfter(e.SenderID, n)
      /\ e.ReceiverBalance = BalanceAfter(e.ReceiverID, n)
  BY DEF RecordsTransfer
<1>2. n \in 1..Len(log') /\ log'[n] = log[n]
  BY <1>1, LogRows DEF GenuineInv
<1>3. /\ BalanceAfter(e.SenderID, n)' = BalanceAfter(e.SenderID, n)
      /\ BalanceAfter(e.ReceiverID, n)' = BalanceAfter(e.ReceiverID, n)
  BY <1>1, EarlierBalances
<1> QED
  BY <1>1, <1>2, <1>3

(* A COMMIT books its row and puts the balances of the book into the event. *)
LEMMA CommitRecords ==
  ASSUME GenuineInv, HistoryInv, NEW r \in Requests, Commit(r)
  PROVE  /\ \E row \in Book!Rows : log' = Append(log, row)
         /\ \A u \in Users : balance'[u] = BalanceAfter(u, Len(log))'
         /\ RecordsTransfer(evt[r])'
         /\ \A q \in Requests \ {r} : evt'[q] = evt[q]
<1>1. PICK from \in Users, to \in Users :
        /\ Book!Book([id |-> Len(log) + 1, from |-> from, to |-> to,
                      amount |-> Amount, by |-> r])
        /\ evt' = [evt EXCEPT ![r] = PostCommitEvent(r, from, to)]
  BY DEF Commit
<1> DEFINE row == [id |-> Len(log) + 1, from |-> from, to |-> to, amount |-> Amount, by |-> r]
<1>2. /\ from # to
      /\ balance' = [balance EXCEPT ![from] = @ - Amount, ![to] = @ + Amount]
      /\ log' = Append(log, row)
  BY <1>1 DEF Book!Book
<1>3. Len(log) \in Nat /\ Len(log') = Len(log) + 1 /\ log'[Len(log) + 1] = row
  BY <1>2, LogRows DEF GenuineInv
<1>4. row \in Book!Rows
  BY <1>3, ReadModelAssumption DEF Book!Rows
<1>5. ASSUME NEW u \in Users
      PROVE  balance'[u] = BalanceAfter(u, Len(log))'
  <2>1. balance[u] = BalanceAfter(u, Len(log)) /\ balance[u] \in Nat /\ Amount \in Nat
    BY ReadModelAssumption DEF HistoryInv, GenuineInv
  <2>2. Effect(u, row) = (IF to = u THEN Amount ELSE 0) - (IF from = u THEN Amount ELSE 0)
    BY DEF Effect
  <2> HIDE DEF row
  <2>3. balance'[u] = balance[u] + Effect(u, row)
    <3>1. balance'[u] = IF u = to THEN balance[u] + Amount
                        ELSE IF u = from THEN balance[u] - Amount ELSE balance[u]
      BY <1>2 DEF GenuineInv
    <3>2. from # to /\ balance[u] \in Int /\ Amount \in Int
      BY <1>2, <2>1
    <3> QED
      BY <2>2, <3>1, <3>2
  <2>4. BalanceAfter(u, Len(log))' = BalanceAfter(u, Len(log)) + Effect(u, row)
    BY <1>2, <1>4, NextBalance
  <2> QED
    BY <2>1, <2>3, <2>4
<1>6. evt'[r] = PostCommitEvent(r, from, to) /\ \A q \in Requests \ {r} : evt'[q] = evt[q]
  BY <1>1 DEF GenuineInv
<1>7. balance'[from] = balance[from] - Amount /\ balance'[to] = balance[to] + Amount
  BY <1>2 DEF GenuineInv
<1>8. /\ evt'[r].TransferID = Len(log')
      /\ evt'[r].SenderID = from /\ evt'[r].SenderBalance = balance'[from]
      /\ evt'[r].ReceiverID = to /\ evt'[r].ReceiverBalance = balance'[to]
  BY <1>3, <1>6, <1>7 DEF PostCommitEvent
<1>9. Len(log') \in 1..Len(log') /\ log'[Len(log')].from = from /\ log'[Len(log')].to = to
  BY <1>3
<1>10. /\ balance'[from] = BalanceAfter(from, Len(log))'
       /\ balance'[to] = BalanceAfter(to, Len(log))'
  BY <1>5
<1>11. RecordsTransfer(evt[r])'
  BY <1>8, <1>9, <1>10 DEF RecordsTransfer
<1> QED
  BY <1>2, <1>4, <1>5, <1>6, <1>11

LEMMA HistoryStep ==
  ASSUME GenuineInv, HistoryInv, [Next]_vars
  PROVE  HistoryInv'
<1>1. ASSUME NEW r \in Requests, Commit(r)
      PROVE  HistoryInv'
  <2>1. /\ \A u \in Users : balance'[u] = BalanceAfter(u, Len(log))'
        /\ RecordsTransfer(evt[r])'
        /\ \A q \in Requests \ {r} : evt'[q] = evt[q]
    BY <1>1, CommitRecords
  <2>2. PICK row \in Book!Rows : log' = Append(log, row)
    BY <1>1, CommitRecords
  <2>3. ASSUME NEW e, RecordsTransfer(e) PROVE RecordsTransfer(e)'
    BY <2>2, <2>3, RecordsStay DEF RecordsTransfer
  <2>4. pc' = [pc EXCEPT ![r] = "hsetSender"] /\ stream' = stream
    BY <1>1 DEF Commit, natsVars
  <2>5. \A q \in Requests : pc'[q] \in {"hsetSender", "hsetReceiver", "publish"} =>
           RecordsTransfer(evt[q])'
    BY <2>1, <2>3, <2>4 DEF HistoryInv, GenuineInv, RecordsTransfer
  <2>6. StreamIsHistory'
    BY <2>3, <2>4 DEF HistoryInv, StreamIsHistory, RecordsTransfer
  <2> QED
    BY <2>1, <2>5, <2>6 DEF HistoryInv
<1>2. ASSUME NEW r \in Requests, PublishEvent(r)
      PROVE  HistoryInv'
  <2>1. /\ UNCHANGED <<balance, log, evt>>
        /\ pc[r] = "publish"
        /\ pc' = [pc EXCEPT ![r] = "replied"]
        /\ \/ stream' = stream
           \/ /\ stream' = Append(stream, evt[r])
              /\ \A i \in Stored : stream[i].TransferID # evt[r].TransferID
    BY <1>2 DEF PublishEvent, StoreEvent, bookVars
  <2>2. ASSUME NEW e, RecordsTransfer(e) PROVE RecordsTransfer(e)'
    BY <2>1, <2>2 DEF RecordsTransfer, BalanceAfter
  <2>3. \A u \in Users : balance'[u] = BalanceAfter(u, Len(log))'
    BY <2>1 DEF HistoryInv, BalanceAfter
  <2>4. \A q \in Requests : pc'[q] \in {"hsetSender", "hsetReceiver", "publish"} =>
           RecordsTransfer(evt[q])'
    BY <2>1, <2>2 DEF HistoryInv, GenuineInv, RecordsTransfer
  <2>5. StreamIsHistory'
    <3>1. CASE stream' = stream
      BY <2>2, <3>1 DEF HistoryInv, StreamIsHistory, RecordsTransfer
    <3>2. CASE /\ stream' = Append(stream, evt[r])
               /\ \A i \in Stored : stream[i].TransferID # evt[r].TransferID
      <4>1. /\ Len(stream) \in Nat
            /\ Len(stream') = Len(stream) + 1
            /\ stream'[Len(stream) + 1] = evt[r]
            /\ \A i \in Stored : stream'[i] = stream[i]
        BY <3>2 DEF GenuineInv
      <4>2. RecordsTransfer(evt[r])
        BY <2>1 DEF HistoryInv
      <4>3. ASSUME NEW i \in Stored' PROVE i \in Stored \/ i = Len(stream) + 1
        BY <4>1
      <4>4. \A i \in Stored' : RecordsTransfer(stream'[i])
        BY <4>1, <4>2, <4>3 DEF HistoryInv, StreamIsHistory
      <4>5. \A i \in Stored' : RecordsTransfer(stream[i])'
        BY <2>2, <4>4 DEF RecordsTransfer
      <4>6. \A i, j \in Stored' : stream'[i].TransferID = stream'[j].TransferID => i = j
        BY <3>2, <4>1, <4>3 DEF HistoryInv, StreamIsHistory
      <4> QED
        BY <4>5, <4>6 DEF StreamIsHistory
    <3> QED
      BY <2>1, <3>1, <3>2
  <2> QED
    BY <2>3, <2>4, <2>5 DEF HistoryInv
<1>3. ASSUME UNCHANGED <<balance, log, evt, stream>>,
             \A q \in Requests : pc'[q] \in {"hsetSender", "hsetReceiver", "publish"} =>
               pc[q] \in {"hsetSender", "hsetReceiver", "publish"}
      PROVE  HistoryInv'
  <2>1. ASSUME NEW e, RecordsTransfer(e) PROVE RecordsTransfer(e)'
    BY <1>3, <2>1 DEF RecordsTransfer, BalanceAfter
  <2>2. \A u \in Users : balance'[u] = BalanceAfter(u, Len(log))'
    BY <1>3 DEF HistoryInv, BalanceAfter
  <2>3. \A q \in Requests : pc'[q] \in {"hsetSender", "hsetReceiver", "publish"} =>
           RecordsTransfer(evt[q])'
    BY <1>3, <2>1 DEF HistoryInv, RecordsTransfer
  <2>4. StreamIsHistory'
    BY <1>3, <2>1 DEF HistoryInv, StreamIsHistory, RecordsTransfer
  <2> QED
    BY <2>2, <2>3, <2>4 DEF HistoryInv
<1>4. ASSUME NEW r \in Requests,
             HsetSender(r) \/ HsetReceiver(r) \/ PipelineFails(r) \/ HandlerCrashes(r) \/ PublishFails(r)
      PROVE  HistoryInv'
  <2>1. /\ UNCHANGED <<balance, log, evt, stream>>
        /\ pc[r] \in {"hsetSender", "hsetReceiver", "publish"}
        /\ \E s : pc' = [pc EXCEPT ![r] = s]
    BY <1>4 DEF HsetSender, HsetReceiver, PipelineFails, HandlerCrashes, PublishFails,
                InFlight, bookVars, natsVars
  <2> QED
    BY <1>3, <2>1 DEF GenuineInv
<1>5. CASE UNCHANGED <<balance, log, evt, stream, pc>>
  BY <1>3, <1>5
<1>6. ASSUME NEW w \in Workers, WorkerStep(w) \/ WorkerFault(w)
      PROVE  HistoryInv'
  BY <1>5, <1>6 DEF WorkerStep, WorkerFault, ProjectionStarts, ProjectionFails, Deliver,
                    ProjectSender, ProjectReceiver, Ack, Nak, WorkerCrashes, bookVars
<1>7. ASSUME NEW q \in Readers, ReaderStep(q)
      PROVE  HistoryInv'
  BY <1>5, <1>7 DEF ReaderStep, GetBalanceHit, GetBalanceMiss, QueryBalanceFromDB, SetBalance,
                    bookVars, natsVars
<1>8. ASSUME NEW i \in Stored, AckWaitExpires(i)
      PROVE  HistoryInv'
  BY <1>5, <1>8 DEF AckWaitExpires, bookVars
<1>9. CASE RedisWiped \/ UNCHANGED vars
  BY <1>5, <1>9 DEF RedisWiped, bookVars, natsVars, vars
<1> QED
  BY <1>1, <1>2, <1>4, <1>6, <1>7, <1>8, <1>9 DEF Next, HandlerStep

LEMMA HistoryInit == Init => HistoryInv
<1> SUFFICES ASSUME Init PROVE HistoryInv
  OBVIOUS
<1>1. Len(log) = 0 /\ Len(stream) = 0 /\ \A r \in Requests : pc[r] = "idle"
  BY DEF Init
<1>2. ASSUME NEW u \in Users PROVE balance[u] = BalanceAfter(u, Len(log))
  <2> DEFINE none == [i \in 1..0 |-> Effect(u, log[i])]
  <2>1. none \in [1..0 -> Int]
    OBVIOUS
  <2>2. BalanceAfter(u, Len(log)) = InitialBalance[u] + SumOf(none, 0)
    BY <1>1 DEF BalanceAfter
  <2>3. balance[u] = InitialBalance[u] /\ InitialBalance[u] \in Int
    BY ReadModelAssumption DEF Init
  <2> HIDE DEF none
  <2>4. SumOf(none, 0) = 0
    BY <2>1, SumOfNone
  <2> QED
    BY <2>2, <2>3, <2>4
<1>3. StreamIsHistory
  BY <1>1 DEF StreamIsHistory
<1> QED
  BY <1>1, <1>2, <1>3 DEF HistoryInv

(* What PublishTransferEvent stores is a record of a booked transfer, with  *)
(* the balances the book shows right after it, once per transfer, whatever  *)
(* commits, fails or crashes between the COMMIT and the publish.            *)
THEOREM StreamIsAuditLog == Spec => []StreamIsHistory
<1>1. GenuineInv /\ HistoryInv /\ [Next]_vars => HistoryInv'
  BY HistoryStep
<1>2. HistoryInv => StreamIsHistory
  BY DEF HistoryInv
<1> QED
  BY <1>1, <1>2, HistoryInit, GenuineInvariance, PTL DEF Spec
=============================================================================
