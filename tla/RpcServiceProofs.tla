-------------------------- MODULE RpcServiceProofs --------------------------
(***************************************************************************)
(* What TLC checks of RpcService for one client and one replica, proved    *)
(* for any number of clients, tries, replicas and restarts.  A call's      *)
(* message is handed out at most once and its handler runs at most once;   *)
(* so it is enough to say, call by call, what the stages of gateway,       *)
(* message, reply and booking have to do with each other (CallOK), and     *)
(* then what a client's earlier calls were answered (InTurn).              *)
(***************************************************************************)
EXTENDS RpcService, TLAPS

(* A status is true of a booking, or says nothing of it. *)
Says(status, isBooked) ==
  /\ status = 200 => isBooked
  /\ status \in Refusals => ~isBooked

(* What a call has been answered while its message or its COMMIT may still  *)
(* be under way: nothing, that the handler failed, or that the gateway did  *)
(* or gave up.                                                              *)
Open == {0, 500, 502, 504}

CallOK(c) ==
  /\ gw[c] \in {"idle", "accepted"} => job[c] = "none"
  /\ gw[c] # "answered" => answer[c] = 0
  /\ job[c] = "none" => on[c] = {}
  /\ job[c] # "over" => box[c] = 0
  /\ job[c] \notin {"respond", "over"} => ~booked[c]
  /\ job[c] = "respond" => result[c] \in Statuses /\ Says(result[c], booked[c])
  /\ Says(box[c], booked[c])
  /\ answer[c] \notin Open => job[c] \in {"none", "over"}
  /\ Says(answer[c], booked[c])
  /\ c \in indoubt => /\ ~booked[c]
                      /\ job[c] = "over" \/ (job[c] = "respond" /\ result[c] = 500)
                      /\ box[c] \in {0, 500}
                      /\ answer[c] \in Open

CallInv == TypeOK /\ \A c \in Calls : CallOK(c)

(* Before a client calls again, each earlier call was answered, by a status  *)
(* in RetryOn.                                                               *)
InTurn ==
  \A k \in Clients : \A i, j \in 1..MaxTries :
    j < i /\ gw[<<k, i>>] # "idle" => gw[<<k, j>>] = "answered" /\ answer[<<k, j>>] \in RetryOn

-----------------------------------------------------------------------------
LEMMA CallInit == Init => CallInv /\ InTurn
BY RpcAssumption DEF Init, CallInv, TypeOK, CallOK, Says, InTurn, Calls, Answers, Statuses,
   Refusals

(* Such an answer says nothing of the booking. *)
LEMMA OpenFacts ==
  /\ 0 \in Open /\ 500 \in Open /\ 502 \in Open /\ 504 \in Open
  /\ \A a \in Open : a # 200 /\ a \notin Refusals
BY DEF Open, Refusals

(* A call that a step leaves alone. *)
LEMMA CallFrame ==
  ASSUME NEW d \in Calls, CallOK(d),
         UNCHANGED <<gw[d], answer[d], job[d], on[d], result[d], box[d], booked[d]>>,
         d \in indoubt' <=> d \in indoubt
  PROVE  CallOK(d)'
BY DEF CallOK

(* The steps of the gateway. *)
LEMMA AnswerKeeps ==
  ASSUME CallInv, NEW c \in Calls, NEW s \in Answers,
         gw[c] \in {"accepted", "waiting"}, Answer(c, s),
         s \notin Open => job[c] \in {"none", "over"} /\ c \notin indoubt,
         Says(s, booked[c])
  PROVE  CallInv'
<1>1. TypeOK'
  BY DEF Answer, CallInv, TypeOK, replicas, producer
<1>2. ASSUME NEW d \in Calls
      PROVE  CallOK(d)'
  <2>0. CallOK(d)
    BY DEF CallInv
  <2>1. CASE d = c
    <3>1. /\ gw'[c] = "answered" /\ answer'[c] = s
          /\ UNCHANGED <<job, on, result, box, booked, indoubt>>
      BY DEF Answer, CallInv, TypeOK
    <3>2. c \in indoubt => s \in Open
      OBVIOUS
    <3> QED
      BY <2>0, <2>1, <3>1, <3>2 DEF CallOK
  <2>2. CASE d # c
    <3>1. /\ UNCHANGED <<gw[d], answer[d], job[d], on[d], result[d], box[d], booked[d]>>
          /\ d \in indoubt' <=> d \in indoubt
      BY <2>2 DEF Answer, CallInv, TypeOK
    <3> QED
      BY <2>0, <3>1, CallFrame
  <2> QED
    BY <2>1, <2>2
<1> QED
  BY <1>1, <1>2 DEF CallInv

LEMMA GatewayKeeps ==
  ASSUME CallInv, NEW c \in Calls, Accept(c) \/ GatewayStep(c) \/ RequestFails(c)
  PROVE  CallInv'
<1>1. CASE Accept(c)
  <2>1. TypeOK'
    BY <1>1 DEF Accept, CallInv, TypeOK, replicas, producer
  <2>2. ASSUME NEW d \in Calls
        PROVE  CallOK(d)'
    <3>1. /\ gw[c] = "idle" /\ gw'[c] = "accepted"
          /\ d # c => gw'[d] = gw[d]
          /\ UNCHANGED <<answer, job, on, result, box, booked, indoubt>>
      BY <1>1 DEF Accept, CallInv, TypeOK
    <3>2. CallOK(d)
      BY DEF CallInv
    <3> QED
      BY <3>1, <3>2 DEF CallOK
  <2> QED
    BY <2>1, <2>2 DEF CallInv
<1>2. CASE Send(c)
  <2>1. TypeOK'
    BY <1>2 DEF Send, CallInv, TypeOK, replicas, producer
  <2>2. ASSUME NEW d \in Calls
        PROVE  CallOK(d)'
    <3>1. CASE d = c
      <4>1. /\ gw'[c] = "waiting" /\ job'[c] = "sent"
            /\ UNCHANGED <<on[c], answer[c], result[c], box[c], booked[c], indoubt>>
        BY <1>2 DEF Send, CallInv, TypeOK
      <4>2. CallOK(c)
        BY DEF CallInv
      <4>3. answer[c] \in Open
        BY <1>2, <4>2, OpenFacts DEF Send, CallOK
      <4> QED
        BY <1>2, <3>1, <4>1, <4>2, <4>3 DEF Send, CallOK, Says, Refusals
    <3>2. CASE d # c
      <4>1. /\ UNCHANGED <<gw[d], answer[d], job[d], on[d], result[d], box[d], booked[d]>>
            /\ d \in indoubt' <=> d \in indoubt
        BY <1>2, <3>2 DEF Send, CallInv, TypeOK
      <4>2. CallOK(d)
        BY DEF CallInv
      <4> QED
        BY <4>1, <4>2, CallFrame
    <3> QED
      BY <3>1, <3>2
  <2> QED
    BY <2>1, <2>2 DEF CallInv
<1>3. CASE BadBody(c)
  BY <1>3, AnswerKeeps DEF BadBody, CallInv, CallOK, Says, Answers
<1>4. CASE GiveUp(c)
  BY <1>4, AnswerKeeps, OpenFacts DEF GiveUp, TimeoutStatus, Says, Answers, Refusals
<1>5. CASE RequestFails(c)
  BY <1>5, AnswerKeeps, OpenFacts DEF RequestFails, Says, Answers, Refusals
<1>6. CASE Relay(c)
  <2>1. box[c] \in Statuses \cup {0} /\ CallOK(c)
    BY DEF CallInv, TypeOK
  <2>2. box[c] \in Answers
    BY <1>6, <2>1 DEF Relay, Answers
  <2>3. job[c] = "over" /\ (box[c] \notin Open => c \notin indoubt)
    BY <1>6, <2>1, OpenFacts DEF Relay, CallOK
  <2> QED
    BY <1>6, <2>1, <2>2, <2>3, AnswerKeeps DEF Relay, CallInv, CallOK
<1> QED
  BY <1>1, <1>2, <1>3, <1>4, <1>5, <1>6 DEF GatewayStep

-----------------------------------------------------------------------------
(* What a handler does between being given a call and having a status:      *)
(* other calls stay as they are, and the status is true of the booking, and *)
(* a 500 when the COMMIT was left in doubt.                                 *)
BookedIs(c, s, decided) ==
  /\ indoubt' \subseteq indoubt \cup {c} /\ indoubt \subseteq indoubt'
  /\ c \in indoubt' => c \in indoubt \/ (decided /\ s = 500 /\ ~booked'[c])
  /\ booked' \in [Calls -> BOOLEAN]
  /\ \A d \in Calls \ {c} : booked'[d] = booked[d]
  /\ decided => s \in Statuses /\ Says(s, booked'[c])
  /\ ~decided => ~booked'[c]

LEMMA StepKeeps ==
  ASSUME CallInv, NEW c \in Calls,
         NEW from \in {"pending", "spawned", "session", "tx"},
         NEW to \in {"spawned", "session", "tx", "respond", "over"},
         Step(c, from, to),
         NEW s \in Statuses \cup {0}, result' = [result EXCEPT ![c] = s],
         BookedIs(c, s, to = "respond")
  PROVE  CallInv'
<1>0. /\ indoubt' \subseteq indoubt \cup {c} /\ indoubt \subseteq indoubt'
      /\ booked' \in [Calls -> BOOLEAN]
      /\ \A d \in Calls \ {c} : booked'[d] = booked[d]
  BY DEF BookedIs
<1>1. TypeOK'
  <2>1. indoubt' \subseteq Calls /\ booked' \in [Calls -> BOOLEAN]
    <3>1. indoubt \subseteq Calls
      BY DEF CallInv, TypeOK
    <3> QED
      BY <1>0, <3>1
  <2>2. result' \in [Calls -> Statuses \cup {0}]
    BY DEF CallInv, TypeOK
  <2> QED
    BY <2>1, <2>2 DEF Step, CallInv, TypeOK, replicas, producer
<1>2. ASSUME NEW d \in Calls
      PROVE  CallOK(d)'
  <2>1. CASE d = c
    <3>1. box[c] = 0 /\ ~booked[c] /\ job[c] = from /\ c \notin indoubt
      BY DEF Step, CallInv, CallOK
    <3>2. answer[c] \in Open /\ answer[c] \notin Refusals /\ answer[c] # 200
      BY <3>1, OpenFacts DEF CallInv, CallOK
    <3>3. /\ job'[c] = to /\ result'[c] = s
          /\ gw'[c] = gw[c] /\ on'[c] = on[c] /\ answer'[c] = answer[c] /\ box'[c] = 0
      BY <3>1 DEF Step, CallInv, TypeOK
    <3>4. c \in indoubt' => to = "respond" /\ s = 500 /\ ~booked'[c]
      BY <3>1 DEF BookedIs
    <3>5. /\ to = "respond" => s \in Statuses /\ Says(s, booked'[c])
          /\ to # "respond" => ~booked'[c]
      BY DEF BookedIs
    <3>6. CallOK(c)
      BY DEF CallInv
    <3> QED
      BY <2>1, <3>1, <3>2, <3>3, <3>4, <3>5, <3>6 DEF CallOK, Says, Refusals
  <2>2. CASE d # c
    <3>1. /\ UNCHANGED <<gw[d], answer[d], job[d], on[d], result[d], box[d]>>
          /\ booked'[d] = booked[d] /\ (d \in indoubt' <=> d \in indoubt)
      BY <1>0, <2>2 DEF Step, CallInv, TypeOK
    <3>2. CallOK(d)
      BY DEF CallInv
    <3> QED
      BY <3>1, <3>2 DEF CallOK
  <2> QED
    BY <2>1, <2>2
<1> QED
  BY <1>1, <1>2 DEF CallInv

LEMMA UndecidedStepKeeps ==
  ASSUME CallInv, NEW c \in Calls,
         NEW from \in {"pending", "spawned", "session", "tx"},
         NEW to \in {"spawned", "session", "tx", "over"},
         Step(c, from, to), Undecided
  PROVE  CallInv'
<1>1. result[c] \in Statuses \cup {0} /\ result' = [result EXCEPT ![c] = result[c]]
  BY DEF Undecided, NotBooked, CallInv, TypeOK
<1>2. booked \in [Calls -> BOOLEAN] /\ booked' = booked /\ indoubt' = indoubt /\ ~booked[c]
  BY DEF Undecided, NotBooked, CallInv, TypeOK, CallOK, Step
<1>3. BookedIs(c, result[c], to = "respond")
  BY <1>2 DEF BookedIs
<1> QED
  BY <1>1, <1>3, StepKeeps

LEMMA DecidedStepKeeps ==
  ASSUME CallInv, NEW c \in Calls,
         NEW from \in {"session", "tx"}, Step(c, from, "respond"),
         NEW s \in Statuses, Decide(c, s), BookedIs(c, s, TRUE)
  PROVE  CallInv'
<1>1. BookedIs(c, s, "respond" = "respond")
  BY DEF BookedIs
<1>2. result' = [result EXCEPT ![c] = s]
  BY DEF Decide
<1> QED
  BY <1>1, <1>2, StepKeeps

(* The statuses a handler reports without having booked. *)
LEMMA NotBookedStepKeeps ==
  ASSUME CallInv, NEW c \in Calls,
         NEW from \in {"session", "tx"}, Step(c, from, "respond"),
         NEW s \in {400, 401, 404, 500, 503}, Decide(c, s), NotBooked
  PROVE  CallInv'
<1>1. booked \in [Calls -> BOOLEAN] /\ ~booked[c]
  BY DEF CallInv, TypeOK, CallOK, Step
<1>2. s \in Statuses /\ BookedIs(c, s, TRUE)
  BY <1>1 DEF NotBooked, BookedIs, Statuses, Refusals, Says
<1> QED
  BY <1>2, DecidedStepKeeps

LEMMA HandlerKeeps ==
  ASSUME CallInv, NEW c \in Calls, NEW r \in Replicas, HandlerStep(c, r)
  PROVE  CallInv'
<1>1. CASE Deliver(c, r)
  <2>1. TypeOK'
    BY <1>1 DEF Deliver, CallInv, TypeOK, replicas, producer
  <2>2. ASSUME NEW d \in Calls
        PROVE  CallOK(d)'
    <3>1. /\ job[c] = "sent"
          /\ job'[d] = (IF d = c THEN "pending" ELSE job[d])
          /\ d # c => on'[d] = on[d]
          /\ UNCHANGED <<gw, answer, result, box, booked, indoubt>>
      BY <1>1 DEF Deliver, CallInv, TypeOK
    <3>2. CallOK(d)
      BY DEF CallInv
    <3> QED
      BY <3>1, <3>2 DEF CallOK
  <2> QED
    BY <2>1, <2>2 DEF CallInv
<1>2. CASE Spawn(c, r) \/ DropOnShutdown(c, r) \/ Dispatch(c, r) \/ BeginTx(c, r)
  BY <1>2, UndecidedStepKeeps DEF Spawn, DropOnShutdown, Dispatch, BeginTx
<1>3. CASE Unauthorized(c, r)
  BY <1>3, NotBookedStepKeeps DEF Unauthorized
<1>4. CASE SessionError(c, r)
  BY <1>4, NotBookedStepKeeps DEF SessionError
<1>5. CASE Book(c, r)
  <2>1. booked \in [Calls -> BOOLEAN]
    BY DEF CallInv, TypeOK
  <2>2. 200 \in Statuses /\ BookedIs(c, 200, TRUE)
    BY <1>5, <2>1 DEF Book, BookedIs, Says, Statuses, Refusals
  <2> QED
    BY <1>5, <2>2, DecidedStepKeeps DEF Book
<1>6. CASE Refuse(c, r)
  <2>1. PICK s \in {400, 404, 503} : Decide(c, s)
    BY <1>6 DEF Refuse
  <2> QED
    BY <1>6, <2>1, NotBookedStepKeeps DEF Refuse
<1>7. CASE TxError(c, r)
  <2>1. booked \in [Calls -> BOOLEAN] /\ ~booked[c]
    BY <1>7 DEF TxError, Step, CallInv, CallOK, TypeOK
  <2>2. 500 \in Statuses /\ BookedIs(c, 500, TRUE)
    BY <1>7, <2>1 DEF TxError, BookedIs, Says, Statuses, Refusals
  <2> QED
    BY <1>7, <2>2, DecidedStepKeeps DEF TxError
<1>8. CASE Respond(c, r)
  <2>1. TypeOK'
    BY <1>8 DEF Respond, CallInv, TypeOK, replicas, producer
  <2>2. ASSUME NEW d \in Calls
        PROVE  CallOK(d)'
    <3>1. CASE d = c
      <4>1. /\ job'[c] = "over" /\ box'[c] = result[c]
            /\ UNCHANGED <<on[c], gw[c], answer[c], booked[c], indoubt>>
        BY <1>8 DEF Respond, CallInv, TypeOK
      <4>2. CallOK(c)
        BY DEF CallInv
      <4> QED
        BY <1>8, <3>1, <4>1, <4>2 DEF Respond, CallOK, Says, Refusals
    <3>2. CASE d # c
      <4>1. /\ UNCHANGED <<gw[d], answer[d], job[d], on[d], result[d], box[d], booked[d]>>
            /\ d \in indoubt' <=> d \in indoubt
        BY <1>8, <3>2 DEF Respond, CallInv, TypeOK
      <4>2. CallOK(d)
        BY DEF CallInv
      <4> QED
        BY <4>1, <4>2, CallFrame
    <3> QED
      BY <3>1, <3>2
  <2> QED
    BY <2>1, <2>2 DEF CallInv
<1> QED
  BY <1>1, <1>2, <1>3, <1>4, <1>5, <1>6, <1>7, <1>8 DEF HandlerStep

(* What PostgreSQL does to a COMMIT in doubt. *)
LEMMA ResolveKeeps ==
  ASSUME CallInv, NEW c \in Calls, Resolve(c)
  PROVE  CallInv'
<1>1. TypeOK'
  BY DEF Resolve, CallInv, TypeOK, replicas, producer
<1>2. ASSUME NEW d \in Calls
      PROVE  CallOK(d)'
  <2>0. CallOK(d) /\ UNCHANGED <<gw[d], answer[d], job[d], on[d], result[d], box[d]>>
    BY DEF Resolve, CallInv
  <2>1. CASE d = c
    <3>1. /\ c \in indoubt /\ c \notin indoubt'
          /\ ~booked[c] /\ box[c] \in {0, 500} /\ answer[c] \in Open
          /\ job[c] = "over" \/ (job[c] = "respond" /\ result[c] = 500)
      BY <2>0, <2>1 DEF Resolve, CallOK
    <3>2. answer[c] # 200 /\ answer[c] \notin Refusals
      BY <3>1, OpenFacts
    <3> QED
      BY <2>0, <2>1, <3>1, <3>2 DEF CallOK, Says, Refusals
  <2>2. CASE d # c
    <3>1. booked'[d] = booked[d] /\ (d \in indoubt' <=> d \in indoubt)
      BY <2>2 DEF Resolve, CallInv, TypeOK
    <3> QED
      BY <2>0, <3>1 DEF CallOK
  <2> QED
    BY <2>1, <2>2
<1> QED
  BY <1>1, <1>2 DEF CallInv

(* What NATS does to a message or a reply. *)
LEMMA NatsKeeps ==
  ASSUME CallInv, NEW c \in Calls, NoResponders(c) \/ Lose(c)
  PROVE  CallInv'
<1>1. CASE NoResponders(c)
  <2>1. TypeOK'
    <3>1. 503 \in Statuses
      BY DEF Statuses, Refusals
    <3> QED
      BY <1>1, <3>1 DEF NoResponders, CallInv, TypeOK, replicas, producer
  <2>2. ASSUME NEW d \in Calls
        PROVE  CallOK(d)'
    <3>1. CASE d = c
      <4>1. /\ job'[c] = "over" /\ box'[c] = 503
            /\ UNCHANGED <<on[c], gw[c], answer[c], booked[c], indoubt>>
        BY <1>1 DEF NoResponders, CallInv, TypeOK
      <4>2. CallOK(c)
        BY DEF CallInv
      <4> QED
        BY <1>1, <3>1, <4>1, <4>2 DEF NoResponders, CallOK, Says, Refusals
    <3>2. CASE d # c
      <4>1. /\ UNCHANGED <<gw[d], answer[d], job[d], on[d], result[d], box[d], booked[d]>>
            /\ d \in indoubt' <=> d \in indoubt
        BY <1>1, <3>2 DEF NoResponders, CallInv, TypeOK
      <4>2. CallOK(d)
        BY DEF CallInv
      <4> QED
        BY <4>1, <4>2, CallFrame
    <3> QED
      BY <3>1, <3>2
  <2> QED
    BY <2>1, <2>2 DEF CallInv
<1>2. CASE Lose(c)
  <2>1. TypeOK'
    BY <1>2 DEF Lose, CallInv, TypeOK, replicas, producer
  <2>2. ASSUME NEW d \in Calls
        PROVE  CallOK(d)'
    <3>1. /\ job'[d] = (IF d = c THEN "over" ELSE job[d])
          /\ d # c => result'[d] = result[d]
          /\ UNCHANGED <<on[d], gw[d], answer[d], box[d], booked[d], indoubt>>
      BY <1>2 DEF Lose, CallInv, TypeOK
    <3>2. CallOK(d) /\ job[c] \in {"sent", "respond"}
      BY <1>2 DEF CallInv, Lose
    <3> QED
      BY <3>1, <3>2 DEF CallOK
  <2> QED
    BY <2>1, <2>2 DEF CallInv
<1> QED
  BY <1>1, <1>2

-----------------------------------------------------------------------------
(* The end of a process takes its handlers along, wherever they are. *)
LEMMA GoneKeeps ==
  ASSUME CallInv, NEW r \in Replicas, NEW committing \in SUBSET InTx(r), Gone(r, committing)
  PROVE  CallInv'
<1>1. TypeOK'
  <2>1. committing \subseteq Calls
    BY DEF InTx, Jobs
  <2> QED
    BY <2>1 DEF Gone, CallInv, TypeOK, producer
<1>2. ASSUME NEW d \in Calls
      PROVE  CallOK(d)'
  <2>1. /\ job'[d] = (IF on[d] = {r} THEN "over" ELSE job[d])
        /\ result'[d] = (IF on[d] = {r} THEN 0 ELSE result[d])
        /\ d \in indoubt' <=> (d \in indoubt \/ d \in committing)
        /\ UNCHANGED <<on[d], gw[d], answer[d], box[d], booked[d]>>
    BY DEF Gone
  <2>2. d \in committing => on[d] = {r} /\ job[d] = "tx"
    BY DEF InTx, Jobs
  <2>3. CallOK(d) /\ booked[d] \in BOOLEAN
    BY DEF CallInv, TypeOK
  <2>4. d \in committing => /\ box[d] = 0 /\ answer[d] \in Open /\ ~booked[d]
                            /\ answer[d] # 200 /\ answer[d] \notin Refusals
    BY <2>2, <2>3, OpenFacts DEF CallOK
  <2>5. gw[d] \in {"idle", "accepted"} => on[d] # {r}
    BY <2>3 DEF CallOK
  <2> QED
    BY <2>1, <2>2, <2>3, <2>4, <2>5 DEF CallOK, Says, Refusals
<1> QED
  BY <1>1, <1>2 DEF CallInv

(* The other steps of processes, and stuttering, leave the calls alone. *)
LEMMA ProcessesKeep ==
  ASSUME CallInv, UNCHANGED calls, TypeOK'
  PROVE  CallInv'
<1>1. UNCHANGED <<gw, answer, job, on, result, box, booked, indoubt>>
  BY DEF calls
<1>2. ASSUME NEW d \in Calls
      PROVE  CallOK(d)'
  BY <1>1 DEF CallInv, CallOK
<1> QED
  BY <1>2 DEF CallInv

LEMMA RunnerKeeps ==
  ASSUME CallInv, NEW r \in Replicas,
         RunnerStep(r) \/ ConsumerFails(r) \/ ListenFails(r) \/ Signal(r) \/ Crash(r) \/ Restart(r)
  PROVE  CallInv'
<1>1. CASE ClosePool(r)
  <2>1. {} \in SUBSET InTx(r)
    OBVIOUS
  <2> QED
    BY <1>1, <2>1, GoneKeeps DEF ClosePool
<1>2. CASE Crash(r)
  BY <1>2, GoneKeeps DEF Crash
<1>3. CASE \/ ConsumerStarts(r) \/ ConsumerStops(r) \/ ConsumerFails(r)
           \/ ServerClosed(r) \/ ListenFails(r) \/ CloseRedis(r)
           \/ Signal(r) \/ CtxDone(r) \/ HttpDrained(r)
  <2>1. UNCHANGED calls
    BY <1>3 DEF ConsumerStarts, ConsumerStops, ConsumerFails, ServerClosed, ListenFails,
                CloseRedis, Signal, CtxDone, HttpDrained
  <2>2. TypeOK'
    <3>1. CASE ConsumerStarts(r)
      BY <3>1 DEF ConsumerStarts, CallInv, TypeOK, calls, producer
    <3>2. CASE ConsumerStops(r)
      BY <3>2 DEF ConsumerStops, CallInv, TypeOK, calls, producer
    <3>3. CASE ConsumerFails(r)
      BY <3>3 DEF ConsumerFails, CallInv, TypeOK, calls, producer
    <3>4. CASE ServerClosed(r)
      BY <3>4 DEF ServerClosed, CallInv, TypeOK, calls, producer
    <3>5. CASE CloseRedis(r)
      BY <3>5 DEF CloseRedis, CallInv, TypeOK, calls, producer
    <3>6. CASE ListenFails(r)
      BY <3>6 DEF ListenFails, CallInv, TypeOK, calls, producer
    <3>7. CASE HttpDrained(r)
      BY <3>7 DEF HttpDrained, CallInv, TypeOK, calls, producer
    <3>8. CASE Signal(r)
      BY <3>8 DEF Signal, CallInv, TypeOK, calls, producer
    <3> QED
      BY <1>3, <3>1, <3>2, <3>3, <3>4, <3>5, <3>6, <3>7, <3>8 DEF CtxDone
  <2> QED
    BY <2>1, <2>2, ProcessesKeep
<1>4. CASE Restart(r)
  <2>1. UNCHANGED calls
    BY <1>4 DEF Restart
  <2>2. starts' \in [Replicas -> 0..MaxStarts]
    <3>1. starts[r] \in 0..MaxStarts /\ starts[r] < MaxStarts /\ MaxStarts \in Nat
      BY <1>4, RpcAssumption DEF Restart, CallInv, TypeOK
    <3>2. starts[r] + 1 \in 0..MaxStarts
      BY <3>1
    <3> QED
      BY <1>4, <3>2 DEF Restart, CallInv, TypeOK
  <2>3. TypeOK'
    BY <1>4, <2>2 DEF Restart, CallInv, TypeOK, calls, producer
  <2> QED
    BY <2>1, <2>3, ProcessesKeep
<1> QED
  BY <1>1, <1>2, <1>3, <1>4 DEF RunnerStep

LEMMA ProducerKeeps ==
  ASSUME CallInv, ProducerStep \/ ProducerListenFails \/ ProducerSignal
  PROVE  CallInv'
<1>1. CASE \/ ProducerCtxDone \/ ProducerServerClosed \/ ProducerClose
           \/ ProducerListenFails \/ ProducerSignal
  <2>1. UNCHANGED calls
    BY <1>1 DEF ProducerCtxDone, ProducerServerClosed, ProducerClose, ProducerListenFails,
                ProducerSignal
  <2>2. TypeOK'
    <3>1. CASE ProducerSignal
      BY <3>1 DEF ProducerSignal, CallInv, TypeOK, calls, replicas
    <3>2. CASE ProducerServerClosed
      BY <3>2 DEF ProducerServerClosed, CallInv, TypeOK, calls, replicas
    <3>3. CASE ProducerClose
      BY <3>3 DEF ProducerClose, CallInv, TypeOK, calls, replicas
    <3>4. CASE ProducerListenFails
      BY <3>4 DEF ProducerListenFails, CallInv, TypeOK, calls, replicas
    <3> QED
      BY <1>1, <3>1, <3>2, <3>3, <3>4 DEF ProducerCtxDone
  <2> QED
    BY <2>1, <2>2, ProcessesKeep
<1>2. CASE ProducerExit
  <2>1. TypeOK'
    BY <1>2 DEF ProducerExit, CallInv, TypeOK, replicas
  <2>2. ASSUME NEW d \in Calls
        PROVE  CallOK(d)'
    <3>1. /\ gw'[d] = (IF gw[d] \in {"accepted", "waiting"} THEN "cut" ELSE gw[d])
          /\ UNCHANGED <<answer[d], job[d], on[d], result[d], box[d], booked[d], indoubt>>
      BY <1>2 DEF ProducerExit
    <3>2. CallOK(d)
      BY DEF CallInv
    <3> QED
      BY <3>1, <3>2 DEF CallOK
  <2> QED
    BY <2>1, <2>2 DEF CallInv
<1> QED
  BY <1>1, <1>2 DEF ProducerStep

LEMMA CallStep == CallInv /\ [Next]_vars => CallInv'
<1> SUFFICES ASSUME CallInv, [Next]_vars
             PROVE  CallInv'
  OBVIOUS
<1>1. CASE UNCHANGED vars
  <2>1. UNCHANGED calls /\ TypeOK'
    BY <1>1 DEF vars, calls, replicas, producer, CallInv, TypeOK
  <2> QED
    BY <2>1, ProcessesKeep
<1>2. CASE Next
  BY <1>2, GatewayKeeps, HandlerKeeps, NatsKeeps, ResolveKeeps, RunnerKeeps, ProducerKeeps DEF Next
<1> QED
  BY <1>1, <1>2

(* rpcClient.call, proxyHandler, dispatch, and the two mains: whatever fails *)
(* or stops when, the stages of a call go together.                          *)
THEOREM CallInvariance == Spec => []CallInv
BY CallInit, CallStep, PTL DEF Spec

(* Gateway, messages and processes stay well formed. *)
THEOREM RpcTypes == Spec => []TypeOK
<1>1. CallInv => TypeOK
  BY DEF CallInv
<1> QED
  BY <1>1, CallInvariance, PTL

(* proxyHandler relays or makes up a status; whichever replica or message    *)
(* was lost, 200 means booked, and 400, 401, 404 and 503 mean not booked and *)
(* never to be.                                                              *)
THEOREM StatusesAreTrue == Spec => []AnswersTruthful
<1>1. CallInv => AnswersTruthful
  BY DEF CallInv, CallOK, Says, AnswersTruthful
<1> QED
  BY <1>1, CallInvariance, PTL

-----------------------------------------------------------------------------
(* An answer is given once, and a call that was started never looks as if   *)
(* it had not been.                                                         *)
LEMMA Calling ==
  ASSUME CallInv, [Next]_vars, NEW c \in Calls
  PROVE  /\ gw[c] = "answered" => gw'[c] = "answered" /\ answer'[c] = answer[c]
         /\ gw[c] = "idle" /\ gw'[c] # "idle" => MayCall(c)
<1>1. CASE UNCHANGED <<gw, answer>>
  BY <1>1
<1>2. CASE ProducerExit
  BY <1>2 DEF ProducerExit
<1>3. ASSUME NEW d \in Calls, Accept(d) \/ GatewayStep(d) \/ RequestFails(d)
      PROVE  /\ gw[c] = "answered" => gw'[c] = "answered" /\ answer'[c] = answer[c]
             /\ gw[c] = "idle" /\ gw'[c] # "idle" => MayCall(c)
  <2>1. gw \in [Calls -> {"idle", "accepted", "waiting", "answered", "cut"}] /\ DOMAIN answer = Calls
    BY DEF CallInv, TypeOK
  <2> QED
    BY <1>3, <2>1 DEF Accept, GatewayStep, BadBody, GiveUp, Send, Relay, RequestFails, Answer
<1>4. UNCHANGED <<gw, answer>> \/ ProducerExit \/ \E d \in Calls :
       Accept(d) \/ GatewayStep(d) \/ RequestFails(d)
  <2>1. CASE UNCHANGED vars
    BY <2>1 DEF vars, calls
  <2>2. ASSUME NEW d \in Calls, NoResponders(d) \/ Lose(d) \/ Resolve(d)
        PROVE  UNCHANGED <<gw, answer>>
    BY <2>2 DEF NoResponders, Lose, Resolve
  <2>3. ASSUME NEW d \in Calls, NEW r \in Replicas, HandlerStep(d, r)
        PROVE  UNCHANGED <<gw, answer>>
    BY <2>3 DEF HandlerStep, Deliver, Spawn, DropOnShutdown, Dispatch, Unauthorized,
       SessionError, BeginTx, Book, Refuse, TxError, Respond, Step
  <2>4. ASSUME NEW r \in Replicas,
               \/ RunnerStep(r) \/ ConsumerFails(r) \/ ListenFails(r)
               \/ Signal(r) \/ Crash(r) \/ Restart(r)
        PROVE  UNCHANGED <<gw, answer>>
    BY <2>4 DEF RunnerStep, ConsumerFails, ListenFails, Signal, Crash, Restart, ConsumerStarts,
       ConsumerStops, CtxDone, ServerClosed, HttpDrained, CloseRedis, ClosePool, Gone, calls
  <2>5. CASE ProducerStep \/ ProducerListenFails \/ ProducerSignal
    BY <2>5 DEF ProducerStep, ProducerListenFails, ProducerSignal, ProducerCtxDone,
       ProducerServerClosed, ProducerClose, calls
  <2> QED
    BY <2>1, <2>2, <2>3, <2>4, <2>5 DEF Next
<1> QED
  BY <1>1, <1>2, <1>3, <1>4

LEMMA InTurnStep == CallInv /\ InTurn /\ [Next]_vars => InTurn'
<1> SUFFICES ASSUME CallInv, InTurn, [Next]_vars,
                    NEW k \in Clients, NEW i \in 1..MaxTries, NEW j \in 1..MaxTries,
                    j < i, gw'[<<k, i>>] # "idle"
             PROVE  gw'[<<k, j>>] = "answered" /\ answer'[<<k, j>>] \in RetryOn
  BY DEF InTurn
<1>1. <<k, i>> \in Calls /\ <<k, j>> \in Calls
  BY DEF Calls
<1>2. SUFFICES gw[<<k, j>>] = "answered" /\ answer[<<k, j>>] \in RetryOn
  BY <1>1, Calling
<1>3. CASE gw[<<k, i>>] # "idle"
  BY <1>3 DEF InTurn
<1>4. CASE gw[<<k, i>>] = "idle"
  <2>1. MayCall(<<k, i>>)
    BY <1>1, <1>4, Calling
  <2>2. i > 1 /\ i - 1 \in 1..MaxTries /\ j <= i - 1
    BY RpcAssumption
  <2>3. gw[<<k, i - 1>>] = "answered" /\ answer[<<k, i - 1>>] \in RetryOn
    BY <2>1, <2>2 DEF MayCall, Before
  <2>4. CASE j = i - 1
    BY <2>3, <2>4
  <2>5. CASE j < i - 1
    BY <2>2, <2>3, <2>5 DEF InTurn
  <2> QED
    BY <2>2, <2>4, <2>5, RpcAssumption
<1> QED
  BY <1>3, <1>4

(* A client that calls again only when the answer was a refusal, a bad body *)
(* or "no responders" has its transfer booked at most once; with 504 among  *)
(* the answers it retries on, TLC finds two.                                *)
THEOREM BookedAtMostOnce ==
  ASSUME RetryOn \subseteq Refusals
  PROVE  Spec => []BookedOncePerClient
<1>1. CallInv /\ InTurn => BookedOncePerClient
  <2> SUFFICES ASSUME CallInv, InTurn, NEW k \in Clients, NEW i \in 1..MaxTries,
                      NEW j \in 1..MaxTries, j < i, booked[<<k, i>>], booked[<<k, j>>]
               PROVE  FALSE
    BY RpcAssumption DEF BookedOncePerClient
  <2>1. CallOK(<<k, i>>) /\ CallOK(<<k, j>>)
    BY DEF CallInv, Calls
  <2>2. gw[<<k, i>>] # "idle"
    BY <2>1 DEF CallOK
  <2>3. answer[<<k, j>>] \in Refusals
    BY <2>2 DEF InTurn
  <2> QED
    BY <2>1, <2>3 DEF CallOK, Says
<1> QED
  BY <1>1, CallInit, CallStep, InTurnStep, PTL DEF Spec

-----------------------------------------------------------------------------
(* What the gateway sends is an answer of the contract, given once, and     *)
(* true of the booking.                                                     *)
LEMMA AnswerKeepsContract ==
  ASSUME CallInv, CallInv', NEW d \in Calls, NEW s, gw[d] \in {"accepted", "waiting"},
         s # 0, Answer(d, s), NEW c \in Calls
  PROVE  Contract!Quiet(c) \/ Contract!Answer(c)
<1>1. CallOK(c) /\ CallOK(c)' /\ DOMAIN answer = Calls
  BY DEF CallInv, TypeOK
<1>2. booked'[c] = booked[c]
  BY DEF Answer
<1>3. CASE c # d
  <2>1. answer'[c] = answer[c]
    BY <1>1, <1>3 DEF Answer
  <2> QED
    BY <1>2, <2>1 DEF Contract!Quiet
<1>4. CASE c = d
  <2>1. answer[c] = 0 /\ answer'[c] = s
    BY <1>1, <1>4 DEF Answer, CallOK
  <2>2. answer'[c] \in Contract!Answers
    <3>1. answer' \in [Calls -> Answers \cup {0}]
      BY DEF CallInv, TypeOK
    <3>2. answer'[c] \in Answers
      BY <2>1, <3>1
    <3>3. Answers \subseteq Contract!Answers
      BY DEF Answers, Statuses, Refusals, Contract!Answers
    <3> QED
      BY <3>2, <3>3
  <2>3. /\ answer'[c] = 200 => booked[c]
        /\ answer'[c] \in Refusals => ~booked[c]
    BY <1>1, <1>2 DEF CallOK, Says
  <2> QED
    BY <1>2, <2>1, <2>2, <2>3 DEF Contract!Answer
<1> QED
  BY <1>3, <1>4

(* A booking happens inside a handler's transaction or by a COMMIT in       *)
(* doubt, while the call has no answer or one that says nothing.            *)
LEMMA BookingKeepsContract ==
  ASSUME CallInv, CallInv', UNCHANGED answer, NEW c \in Calls,
         booked'[c] = booked[c] \/ job[c] = "tx" \/ c \in indoubt
  PROVE  Contract!Quiet(c) \/ Contract!Book(c)
<1>1. CallOK(c) /\ booked[c] \in BOOLEAN /\ booked'[c] \in BOOLEAN
  BY DEF CallInv, TypeOK
<1>2. CASE booked'[c] = booked[c]
  BY <1>2 DEF Contract!Quiet
<1>3. CASE booked'[c] # booked[c]
  <2>1. ~booked[c] /\ answer[c] \in Open
    BY <1>1, <1>3 DEF CallOK
  <2>2. booked'[c]
    BY <1>1, <1>3, <2>1
  <2> QED
    BY <2>1, <2>2 DEF Open, Contract!Book
<1> QED
  BY <1>2, <1>3

LEMMA StepKeepsContract ==
  ASSUME CallInv, CallInv', Next, NEW c \in Calls
  PROVE  Contract!Quiet(c) \/ Contract!Book(c) \/ Contract!Answer(c)
<1>0. gw \in [Calls -> {"idle", "accepted", "waiting", "answered", "cut"}]
  BY DEF CallInv, TypeOK
<1>1. CASE UNCHANGED <<answer, booked>>
  BY <1>1 DEF Contract!Quiet
<1>2. ASSUME NEW d \in Calls, GatewayStep(d) \/ RequestFails(d)
      PROVE  Contract!Quiet(c) \/ Contract!Answer(c)
  <2>1. CASE Send(d)
    BY <2>1 DEF Send, Contract!Quiet
  <2>2. CASE BadBody(d)
    BY <2>2, AnswerKeepsContract DEF BadBody
  <2>3. CASE GiveUp(d)
    BY <2>3, AnswerKeepsContract DEF GiveUp, TimeoutStatus
  <2>4. CASE Relay(d)
    BY <2>4, AnswerKeepsContract DEF Relay
  <2>5. CASE RequestFails(d)
    BY <2>5, AnswerKeepsContract DEF RequestFails
  <2> QED
    BY <1>2, <2>1, <2>2, <2>3, <2>4, <2>5 DEF GatewayStep
<1>3. ASSUME NEW d \in Calls, NEW r \in Replicas, HandlerStep(d, r)
      PROVE  Contract!Quiet(c) \/ Contract!Book(c)
  <2>1. UNCHANGED answer
    BY <1>3 DEF HandlerStep, Deliver, Spawn, DropOnShutdown, Dispatch, Unauthorized,
       SessionError, BeginTx, Book, Refuse, TxError, Respond, Step
  <2>2. UNCHANGED booked \/ Book(d, r)
    BY <1>3 DEF HandlerStep, Deliver, Spawn, DropOnShutdown, Dispatch, Unauthorized,
       SessionError, BeginTx, Refuse, TxError, Respond, Undecided, NotBooked
  <2>3. booked'[c] = booked[c] \/ job[c] = "tx"
    <3>1. CASE Book(d, r)
      <4>1. job[d] = "tx" /\ booked' = [booked EXCEPT ![d] = TRUE]
        BY <3>1 DEF Book, Step
      <4>2. DOMAIN booked = Calls
        BY DEF CallInv, TypeOK
      <4> QED
        BY <4>1, <4>2
    <3> QED
      BY <2>2, <3>1
  <2> QED
    BY <2>1, <2>3, BookingKeepsContract
<1>4. ASSUME NEW d \in Calls, Resolve(d)
      PROVE  Contract!Quiet(c) \/ Contract!Book(c)
  <2>1. DOMAIN booked = Calls
    BY DEF CallInv, TypeOK
  <2>2. UNCHANGED answer /\ (booked'[c] = booked[c] \/ c \in indoubt)
    BY <1>4, <2>1 DEF Resolve
  <2> QED
    BY <2>2, BookingKeepsContract
<1>5. ASSUME NEW r \in Replicas,
             \/ RunnerStep(r) \/ ConsumerFails(r) \/ ListenFails(r)
             \/ Signal(r) \/ Crash(r) \/ Restart(r)
      PROVE  UNCHANGED <<answer, booked>>
  BY <1>5 DEF RunnerStep, ConsumerFails, ListenFails, Signal, Restart, ConsumerStarts,
     ConsumerStops, CtxDone, ServerClosed, HttpDrained, CloseRedis, ClosePool, Crash, Gone, calls
<1>6. CASE ProducerStep \/ ProducerListenFails \/ ProducerSignal
  BY <1>1, <1>6 DEF ProducerStep, ProducerListenFails, ProducerSignal, ProducerCtxDone,
     ProducerServerClosed, ProducerClose, ProducerExit, calls
<1>7. ASSUME NEW d \in Calls, Accept(d) \/ NoResponders(d) \/ Lose(d)
      PROVE  UNCHANGED <<answer, booked>>
  BY <1>7 DEF Accept, NoResponders, Lose
<1> QED
  BY <1>1, <1>2, <1>3, <1>4, <1>5, <1>6, <1>7 DEF Next

(* proxyHandler, call, dispatch and SerializableTx together: through        *)
(* gateway, NATS, replica and transaction the client of the bank has the    *)
(* contract the transaction has towards its own caller.  A refusal is final *)
(* whatever is lost or stopped; a booking may still come after 500, 502 and *)
(* 504, and after no other answer.                                          *)
THEOREM GatewayImplementsBooking == Spec => BookingSpec
<1>1. Init => Contract!Init
  BY DEF Init, Contract!Init
<1>2. CallInv /\ CallInv' /\ [Next]_vars => [Contract!Next]_(Contract!vars)
  <2> SUFFICES ASSUME CallInv, CallInv', [Next]_vars
               PROVE  [Contract!Next]_(Contract!vars)
    OBVIOUS
  <2>1. CASE UNCHANGED vars
    BY <2>1 DEF vars, calls, Contract!vars
  <2>2. CASE Next
    <3>1. DOMAIN booked' = Calls /\ DOMAIN answer' = Calls
      BY DEF CallInv, TypeOK
    <3>2. \A c \in Calls : \/ Contract!Quiet(c) \/ Contract!Book(c)
                           \/ Contract!Answer(c) \/ Contract!BookUnheard(c)
      BY <2>2, StepKeepsContract
    <3> QED
      BY <3>1, <3>2 DEF Contract!Next
  <2> QED
    BY <2>1, <2>2
<1>3. QED
  BY <1>1, <1>2, CallInvariance, PTL DEF Spec, BookingSpec, Contract!Spec
=============================================================================
