----------------------------- MODULE RpcService -----------------------------
(***************************************************************************)
(* A request on its way from the HTTP gateway (producer) over NATS to a    *)
(* replica of a service and back, while the gateway and the replicas are   *)
(* started, fail, crash and are shut down.                                 *)
(*                                                                         *)
(* A client asks for one booking.  Its first call may be refused or fail;  *)
(* it calls again when the answer is one of RetryOn.  The gateway waits    *)
(* for a reply, but not for ever.  A replica is an errgroup of three       *)
(* goroutines (NATS consumer, HTTP server, signal handler) whose Wait is   *)
(* followed by the deferred closing of Redis and the pool; each request    *)
(* runs on a goroutine of its own that the group does not know of.  What   *)
(* the handler does is the subject of TransferTx: here it checks the       *)
(* session, books in one step or not at all or leaves its COMMIT in doubt, *)
(* and has a status to report.                                             *)
(***************************************************************************)
EXTENDS Naturals, FiniteSets

CONSTANTS Clients,        \* those who want something booked, once
          MaxTries,       \* how often a client calls
          RetryOn,        \* the answers after which it calls again
          Replicas,       \* of the service
          MaxStarts       \* how often a replica is started again

Calls == Clients \X (1..MaxTries)

(* What a handler answers without having booked, and what else it answers. *)
Refusals == {400, 401, 404, 503}
Statuses == Refusals \cup {200, 500}
(* What the gateway answers itself: bad body, failure, no responders, timeout. *)
Answers == Statuses \cup {400, 502, 503, 504}

ASSUME RpcAssumption ==
  /\ MaxTries \in Nat \ {0}
  /\ RetryOn \subseteq Answers
  /\ MaxStarts \in Nat

VARIABLES
  gw,       \* the gateway's side of a call: idle, accepted, waiting, answered, cut
  answer,   \* the HTTP status sent, 0 before
  job,      \* the message and its handler: none, sent, pending, spawned, session, tx, respond, over
  on,       \* the replicas the call was given to (none or one)
  result,   \* the status a handler is about to report, else 0
  box,      \* the reply in the gateway's inbox, 0 before
  booked,   \* whether the call was booked in PostgreSQL
  indoubt,  \* calls whose COMMIT nobody waits for and PostgreSQL has yet to decide
  cons,     \* Consumer.Run of a replica: starting, serving, returned
  http,     \* ListenAndServe of a replica: serving, closed, failed
  sig,      \* its signal goroutine: waiting, draining, returned
  err,      \* the first error of its group (ctx is done once there is one)
  main,     \* after Run: waiting, redis closed, exited
  starts,   \* how often it was started again
  psig, phttp, pctx, pconn, pmain   \* the same for the gateway's main

calls    == <<gw, answer, job, on, result, box, booked, indoubt>>
replicas == <<cons, http, sig, err, main, starts>>
producer == <<psig, phttp, pctx, pconn, pmain>>
vars     == <<calls, replicas, producer>>

Jobs(r)   == {c \in Calls : on[c] = {r}}
Alive(r)  == main[r] # "exited"
Subscribed == {r \in Replicas : cons[r] = "serving" /\ Alive(r)}

Init ==
  /\ gw = [c \in Calls |-> "idle"]
  /\ answer = [c \in Calls |-> 0]
  /\ job = [c \in Calls |-> "none"]
  /\ on = [c \in Calls |-> {}]
  /\ result = [c \in Calls |-> 0]
  /\ box = [c \in Calls |-> 0]
  /\ booked = [c \in Calls |-> FALSE]
  /\ indoubt = {}
  /\ cons = [r \in Replicas |-> "starting"]
  /\ http = [r \in Replicas |-> "serving"]
  /\ sig = [r \in Replicas |-> "waiting"]
  /\ err = [r \in Replicas |-> "none"]
  /\ main = [r \in Replicas |-> "waiting"]
  /\ starts = [r \in Replicas |-> 0]
  /\ psig = "waiting" /\ phttp = "serving" /\ pctx = "live" /\ pconn = "open" /\ pmain = "waiting"

-----------------------------------------------------------------------------
(* The gateway. *)

(* A client calls, or calls again after an answer it takes for a no. *)
Before(c)  == <<c[1], c[2] - 1>>
MayCall(c) == c[2] > 1 => gw[Before(c)] = "answered" /\ answer[Before(c)] \in RetryOn

Accept(c) ==
  /\ gw[c] = "idle" /\ MayCall(c)
  /\ phttp = "serving"
  /\ gw' = [gw EXCEPT ![c] = "accepted"]
  /\ UNCHANGED <<answer, job, on, result, box, booked, indoubt, replicas, producer>>

Answer(c, status) ==
  /\ gw' = [gw EXCEPT ![c] = "answered"]
  /\ answer' = [answer EXCEPT ![c] = status]
  /\ UNCHANGED <<job, on, result, box, booked, indoubt, replicas, producer>>

(* parsePayload refuses the body. *)
BadBody(c) == gw[c] = "accepted" /\ Answer(c, 400)

(* Mutants: a timeout is taken for a missing service; a status nobody       *)
(* knows; a call without a timeout of its own.                              *)
TimeoutStatus_Unavailable == 503
TimeoutStatus_Unknown == 499
GiveUp_BeforeSending(c) == gw[c] = "accepted" /\ Answer(c, 504)

(* The context is done before call publishes, or while it waits: the client *)
(* went away, or responseTimeout is over.                                   *)
TimeoutStatus == 504
GiveUp(c) == gw[c] \in {"accepted", "waiting"} /\ Answer(c, TimeoutStatus)

(* RequestMsgWithContext writes the message out or buffers it while the     *)
(* connection is being re-established ...                                   *)
Send(c) ==
  /\ gw[c] = "accepted" /\ pconn = "open"
  /\ gw' = [gw EXCEPT ![c] = "waiting"]
  /\ job' = [job EXCEPT ![c] = "sent"]
  /\ UNCHANGED <<answer, on, result, box, booked, indoubt, replicas, producer>>

(* ... and returns the reply, whose status is relayed, or the server's      *)
(* "no responders"; a reply after GiveUp finds nobody.                      *)
Relay(c) == gw[c] = "waiting" /\ box[c] # 0 /\ Answer(c, box[c])

(* The request cannot be encoded, the reply cannot be decoded, or the       *)
(* connection drains or reports an error of its own: bad gateway, whether   *)
(* the message was sent or not.                                             *)
RequestFails(c) == gw[c] \in {"accepted", "waiting"} /\ Answer(c, 502)

-----------------------------------------------------------------------------
(* NATS delivers at most once, to one subscriber of the queue group.        *)
Deliver(c, r) ==
  /\ job[c] = "sent" /\ r \in Subscribed
  /\ on' = [on EXCEPT ![c] = {r}]
  /\ job' = [job EXCEPT ![c] = "pending"]
  /\ UNCHANGED <<gw, answer, result, box, booked, indoubt, replicas, producer>>

(* A message or a reply is lost with a connection, or the message exceeds   *)
(* the subscription's pending limit (64 messages).                          *)
Lose(c) ==
  /\ job[c] \in {"sent", "respond"}
  /\ job' = [job EXCEPT ![c] = "over"]
  /\ result' = [result EXCEPT ![c] = 0]
  /\ UNCHANGED <<gw, answer, on, box, booked, indoubt, replicas, producer>>

NoResponders(c) ==
  /\ job[c] = "sent" /\ Subscribed = {}
  /\ job' = [job EXCEPT ![c] = "over"]
  /\ box' = [box EXCEPT ![c] = 503]
  /\ UNCHANGED <<gw, answer, on, result, booked, indoubt, replicas, producer>>

-----------------------------------------------------------------------------
(* A replica's side of a call. *)
Step(c, from, to) ==
  /\ job[c] = from
  /\ job' = [job EXCEPT ![c] = to]
  /\ UNCHANGED <<gw, answer, on, box, replicas, producer>>

Running(c, r) == on[c] = {r} /\ Alive(r)
Decide(c, status) == result' = [result EXCEPT ![c] = status]
NotBooked == UNCHANGED <<booked, indoubt>>
Undecided == UNCHANGED result /\ NotBooked

(* The endpoint's callback starts a goroutine, also while draining. *)
Spawn(c, r) == Running(c, r) /\ Step(c, "pending", "spawned") /\ Undecided

(* dispatch: dropped when the context is done, else the handler is called. *)
DropOnShutdown(c, r) ==
  Running(c, r) /\ err[r] # "none" /\ Step(c, "spawned", "over") /\ Undecided
Dispatch(c, r) ==
  Running(c, r) /\ err[r] = "none" /\ Step(c, "spawned", "session") /\ Undecided

(* RequireSession, then the transaction takes a connection: neither works   *)
(* once the context is done or Redis is closed.                             *)
Unauthorized(c, r) ==
  /\ Running(c, r) /\ main[r] = "waiting"
  /\ Step(c, "session", "respond") /\ Decide(c, 401) /\ NotBooked
SessionError(c, r) ==
  Running(c, r) /\ Step(c, "session", "respond") /\ Decide(c, 500) /\ NotBooked
BeginTx(c, r) ==
  /\ Running(c, r) /\ err[r] = "none"
  /\ Step(c, "session", "tx") /\ Undecided

Book(c, r) ==
  /\ Running(c, r) /\ Step(c, "tx", "respond") /\ Decide(c, 200)
  /\ booked' = [booked EXCEPT ![c] = TRUE]
  /\ UNCHANGED indoubt
Refuse(c, r) ==
  /\ Running(c, r) /\ Step(c, "tx", "respond")
  /\ \E s \in {400, 404, 503} : Decide(c, s)
  /\ NotBooked

(* Among the errors is a COMMIT cut short, by a broken connection or by the *)
(* context that ends with the consumer: the handler goes on to its 500      *)
(* while PostgreSQL commits, has committed, or rolls back.                  *)
TxError(c, r) ==
  /\ Running(c, r) /\ Step(c, "tx", "respond") /\ Decide(c, 500)
  /\ indoubt' \in {indoubt, indoubt \cup {c}}
  /\ UNCHANGED booked

(* PostgreSQL decides, before or after the 500, or after the process that   *)
(* asked for the COMMIT is gone.                                            *)
Resolve(c) ==
  /\ c \in indoubt
  /\ indoubt' = indoubt \ {c}
  /\ \E b \in BOOLEAN : booked' = [booked EXCEPT ![c] = b]
  /\ UNCHANGED <<gw, answer, job, on, result, box, replicas, producer>>

Respond(c, r) ==
  /\ Running(c, r) /\ job[c] = "respond"
  /\ job' = [job EXCEPT ![c] = "over"]
  /\ box' = [box EXCEPT ![c] = result[c]]
  /\ result' = [result EXCEPT ![c] = 0]
  /\ UNCHANGED <<gw, answer, on, booked, indoubt, replicas, producer>>

-----------------------------------------------------------------------------
(* A replica's process. *)
ConsumerStarts(r) ==
  /\ Alive(r) /\ cons[r] = "starting" /\ err[r] = "none"
  /\ cons' = [cons EXCEPT ![r] = "serving"]
  /\ UNCHANGED <<calls, http, sig, err, main, starts, producer>>

(* AddService or AddEndpoint fails, perhaps after the endpoint of these     *)
(* calls was added: Run returns nil, so the group lives on.                 *)
ConsumerFails(r) ==
  /\ Alive(r) /\ cons[r] # "returned"
  /\ cons' = [cons EXCEPT ![r] = "returned"]
  /\ UNCHANGED <<calls, http, sig, err, main, starts, producer>>

(* ctx.Done: svc.Stop unsubscribes; handlers in flight are not waited for. *)
ConsumerStops(r) ==
  /\ Alive(r) /\ cons[r] # "returned" /\ err[r] # "none"
  /\ cons' = [cons EXCEPT ![r] = "returned"]
  /\ UNCHANGED <<calls, http, sig, err, main, starts, producer>>

(* ListenAndServe returns a real error. *)
ListenFails(r) ==
  /\ Alive(r) /\ http[r] = "serving"
  /\ http' = [http EXCEPT ![r] = "failed"]
  /\ err' = [err EXCEPT ![r] = IF @ = "none" THEN "http" ELSE @]
  /\ UNCHANGED <<calls, cons, sig, main, starts, producer>>

(* SIGTERM, or the group was cancelled. *)
Signal(r) ==
  /\ Alive(r) /\ sig[r] = "waiting"
  /\ sig' = [sig EXCEPT ![r] = "draining"]
  /\ UNCHANGED <<calls, cons, http, err, main, starts, producer>>
CtxDone(r) == err[r] # "none" /\ Signal(r)

(* Shutdown closes the listeners, waits at most 10 s, and errShutdown       *)
(* cancels the group.                                                       *)
ServerClosed(r) ==
  /\ Alive(r) /\ sig[r] = "draining" /\ http[r] = "serving"
  /\ http' = [http EXCEPT ![r] = "closed"]
  /\ UNCHANGED <<calls, cons, sig, err, main, starts, producer>>
(* Mutant: the signal goroutine returns nil, so nothing cancels the group. *)
HttpDrained_Nil(r) ==
  /\ Alive(r) /\ sig[r] = "draining" /\ http[r] # "serving"
  /\ sig' = [sig EXCEPT ![r] = "returned"]
  /\ UNCHANGED <<calls, cons, http, err, main, starts, producer>>

HttpDrained(r) ==
  /\ Alive(r) /\ sig[r] = "draining" /\ http[r] # "serving"
  /\ sig' = [sig EXCEPT ![r] = "returned"]
  /\ err' = [err EXCEPT ![r] = IF @ = "none" THEN "shutdown" ELSE @]
  /\ UNCHANGED <<calls, cons, http, main, starts, producer>>

(* Wait returns and the cleanup of InitDeps closes Redis ... *)
CloseRedis(r) ==
  /\ main[r] = "waiting"
  /\ cons[r] = "returned" /\ http[r] # "serving" /\ sig[r] = "returned"
  /\ main' = [main EXCEPT ![r] = "redis closed"]
  /\ UNCHANGED <<calls, cons, http, sig, err, starts, producer>>

(* The process is gone, and with it every goroutine; of the transactions it *)
(* leaves behind, those in "committing" had sent their COMMIT.              *)
Gone(r, committing) ==
  /\ main' = [main EXCEPT ![r] = "exited"]
  /\ job' = [c \in Calls |-> IF on[c] = {r} THEN "over" ELSE job[c]]
  /\ result' = [c \in Calls |-> IF on[c] = {r} THEN 0 ELSE result[c]]
  /\ indoubt' = indoubt \cup committing
  /\ UNCHANGED <<gw, answer, on, box, booked, cons, http, sig, err, starts, producer>>
InTx(r) == {c \in Jobs(r) : job[c] = "tx"}

(* ... and then the pool, which waits for the connections in use. *)
ClosePool(r) == main[r] = "redis closed" /\ InTx(r) = {} /\ Gone(r, {})
Crash(r) == Alive(r) /\ \E committing \in SUBSET InTx(r) : Gone(r, committing)

Restart(r) ==
  /\ ~Alive(r) /\ starts[r] < MaxStarts
  /\ starts' = [starts EXCEPT ![r] = @ + 1]
  /\ cons' = [cons EXCEPT ![r] = "starting"]
  /\ http' = [http EXCEPT ![r] = "serving"]
  /\ sig' = [sig EXCEPT ![r] = "waiting"]
  /\ err' = [err EXCEPT ![r] = "none"]
  /\ main' = [main EXCEPT ![r] = "waiting"]
  /\ UNCHANGED <<calls, producer>>

-----------------------------------------------------------------------------
(* The gateway's main: the same group, but nothing returns an error except  *)
(* a server that fails.                                                     *)
ProducerListenFails ==
  /\ phttp = "serving"
  /\ phttp' = "failed" /\ pctx' = "done"
  /\ UNCHANGED <<calls, replicas, psig, pconn, pmain>>

ProducerSignal ==
  /\ psig = "waiting" /\ pmain = "waiting"
  /\ psig' = "draining"
  /\ UNCHANGED <<calls, replicas, phttp, pctx, pconn, pmain>>
ProducerCtxDone == pctx = "done" /\ ProducerSignal

ProducerServerClosed ==
  /\ psig = "draining" /\ phttp = "serving"
  /\ phttp' = "closed"
  /\ UNCHANGED <<calls, replicas, psig, pctx, pconn, pmain>>

(* Shutdown is over, or 10 s are: client.Close drains the connection and    *)
(* the goroutine returns nil.                                               *)
ProducerClose ==
  /\ psig = "draining" /\ phttp # "serving"
  /\ psig' = "returned" /\ pconn' = "drained"
  /\ UNCHANGED <<calls, replicas, phttp, pctx, pmain>>

(* Wait needs client.run too, which returns when the context is done. *)
ProducerExit ==
  /\ pmain = "waiting"
  /\ psig = "returned" /\ phttp # "serving" /\ pctx = "done"
  /\ pmain' = "exited"
  /\ gw' = [c \in Calls |-> IF gw[c] \in {"accepted", "waiting"} THEN "cut" ELSE gw[c]]
  /\ UNCHANGED <<answer, job, on, result, box, booked, indoubt, replicas, psig, phttp, pctx, pconn>>

-----------------------------------------------------------------------------
GatewayStep(c) ==
  BadBody(c) \/ GiveUp(c) \/ Send(c) \/ Relay(c)

HandlerStep(c, r) ==
  \/ Deliver(c, r) \/ Spawn(c, r) \/ DropOnShutdown(c, r) \/ Dispatch(c, r)
  \/ Unauthorized(c, r) \/ SessionError(c, r) \/ BeginTx(c, r)
  \/ Book(c, r) \/ Refuse(c, r) \/ TxError(c, r)
  \/ Respond(c, r)

RunnerStep(r) ==
  \/ ConsumerStarts(r) \/ ConsumerStops(r) \/ CtxDone(r)
  \/ ServerClosed(r) \/ HttpDrained(r) \/ CloseRedis(r) \/ ClosePool(r)

ProducerStep ==
  \/ ProducerCtxDone \/ ProducerServerClosed \/ ProducerClose \/ ProducerExit

Next ==
  \/ \E c \in Calls : \/ Accept(c) \/ GatewayStep(c) \/ RequestFails(c)
                      \/ NoResponders(c) \/ Lose(c) \/ Resolve(c)
                      \/ \E r \in Replicas : HandlerStep(c, r)
  \/ \E r \in Replicas : \/ RunnerStep(r) \/ ConsumerFails(r) \/ ListenFails(r)
                         \/ Signal(r) \/ Crash(r) \/ Restart(r)
  \/ ProducerStep \/ ProducerListenFails \/ ProducerSignal

Spec == Init /\ [][Next]_vars

(* Every goroutine that can go on does; statements end, at the latest by    *)
(* statement_timeout.  Clients, signals, failures and restarts owe nothing. *)
FairSpec ==
  /\ Spec
  /\ \A c \in Calls : WF_vars(GatewayStep(c))
  /\ \A c \in Calls, r \in Replicas : WF_vars(HandlerStep(c, r))
  /\ \A r \in Replicas : WF_vars(RunnerStep(r))
  /\ WF_vars(ProducerStep)

-----------------------------------------------------------------------------
TypeOK ==
  /\ gw \in [Calls -> {"idle", "accepted", "waiting", "answered", "cut"}]
  /\ answer \in [Calls -> Answers \cup {0}]
  /\ job \in [Calls -> {"none", "sent", "pending", "spawned", "session", "tx", "respond", "over"}]
  /\ on \in [Calls -> SUBSET Replicas]
  /\ result \in [Calls -> Statuses \cup {0}]
  /\ box \in [Calls -> Statuses \cup {0}]
  /\ booked \in [Calls -> BOOLEAN]
  /\ indoubt \subseteq Calls
  /\ cons \in [Replicas -> {"starting", "serving", "returned"}]
  /\ http \in [Replicas -> {"serving", "closed", "failed"}]
  /\ sig \in [Replicas -> {"waiting", "draining", "returned"}]
  /\ err \in [Replicas -> {"none", "shutdown", "http"}]
  /\ main \in [Replicas -> {"waiting", "redis closed", "exited"}]
  /\ starts \in [Replicas -> 0..MaxStarts]
  /\ psig \in {"waiting", "draining", "returned"}
  /\ phttp \in {"serving", "closed", "failed"}
  /\ pctx \in {"live", "done"}
  /\ pconn \in {"open", "drained"}
  /\ pmain \in {"waiting", "exited"}

(* What an answer says about the booking stays true for ever: 200 means     *)
(* booked; a refusal, by the handler or the gateway, means not booked, now    *)
(* and later, whatever happens to replica, message and reply on the way.    *)
(* (500, 502 and 504 say nothing.)                                          *)
AnswersTruthful ==
  \A c \in Calls :
    /\ answer[c] = 200 => booked[c]
    /\ answer[c] \in Refusals => ~booked[c]

(* A client that calls again only after such a refusal is booked once.      *)
BookedOncePerClient ==
  \A k \in Clients : \A i, j \in 1..MaxTries :
    booked[<<k, i>>] /\ booked[<<k, j>>] => i = j

(* What the HTTP client sees is the contract of Booking: a refusal is final *)
(* although messages, replies and COMMITs may still be under way when other *)
(* answers are given, and only after a 500, a 502 or a 504 may the booking  *)
(* still come.                                                              *)
Contract == INSTANCE Booking WITH
  Calls <- Calls, Negative <- Refusals, Unsure <- {500, 502, 504},
  booked <- booked, answer <- answer
BookingSpec == Contract!Spec

(* Every call the gateway accepted is answered, even when the message or    *)
(* the reply was lost, unless the gateway's process ends.                   *)
CallsAnswered ==
  \A c \in Calls : gw[c] \in {"accepted", "waiting"} ~> gw[c] \in {"answered", "cut"}

(* service.Runner.Run returns and the process ends after a signal and after *)
(* a failed HTTP server: the sentinel errShutdown cancels the group.        *)
RunnersStop ==
  \A r \in Replicas : sig[r] = "draining" \/ http[r] = "failed" ~> main[r] = "exited"

(* What the README of the gateway says of SIGTERM: HTTP requests drain, the *)
(* connection drains, the process exits.                                    *)
ProducerStops == psig = "draining" ~> pmain = "exited"
=============================================================================
