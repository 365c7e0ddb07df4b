------------------------------- MODULE WsFeed -------------------------------
(***************************************************************************)
(* The WebSocket endpoint of notification-service: the connections of one  *)
(* user, the presence key they share in Redis, and the way of a            *)
(* notification from the Redis channel to each of them.  (Keys and         *)
(* channels of different users have nothing in common.)                    *)
(*                                                                         *)
(* A connection is three goroutines: the handler, which pumps messages     *)
(* into the socket; the heartbeat, which refreshes the presence key; and   *)
(* the forwarder of Subscribe, between the subscription's own buffer and   *)
(* the channel the handler reads.  They share a context, wsCtx.  Time is   *)
(* counted in heartbeat intervals; messages are numbered in the order in   *)
(* which they are published.  "grace" and "lost" are history.              *)
(***************************************************************************)
EXTENDS Naturals, Sequences

CONSTANTS Conns,          \* connections, possible ones
          Listening,      \* those whose SUBSCRIBE Redis gets
          Hosts, HostOf,  \* processes of the service, and the one of each connection
          TTL,            \* lifetime of the presence key, in heartbeat intervals
          MaxMsgs,        \* messages published
          SubBuffer,      \* what the subscription buffers (100 and the socket)
          ChanSize        \* capacity of the channel of Subscribe (16)

ASSUME WsAssumption ==
  /\ HostOf \in [Conns -> Hosts]
  /\ TTL \in Nat \ {0} /\ MaxMsgs \in Nat
  /\ SubBuffer \in Nat /\ ChanSize \in Nat \ {0}

VARIABLES
  key,      \* intervals the presence key has left, 0 when it is not there
  sent,     \* number of messages published
  pump,     \* the handler: none, open, writing, closing, gone
  ctx,      \* whether wsCtx is live or done
  beat,     \* the heartbeat: none, due (or its SET on the way), idle, ended
  fwd,      \* the forwarder: none, waiting, holding, ended
  sub,      \* the subscription: none, active, closed
  buf, hand, ch, frame, out,   \* messages: in the subscription, forwarder, channel, pump; sent
  grace, lost   \* heartbeats that may still fail before the key is gone; messages missed

presence == <<key, beat, grace>>
feed     == <<sent, fwd, sub, buf, hand, ch, frame, out, lost>>
vars     == <<presence, feed, pump, ctx>>

Init ==
  /\ key = 0 /\ sent = 0
  /\ pump = [c \in Conns |-> "none"]
  /\ ctx = [c \in Conns |-> "live"]
  /\ beat = [c \in Conns |-> "none"]
  /\ fwd = [c \in Conns |-> "none"]
  /\ sub = [c \in Conns |-> "none"]
  /\ buf = [c \in Conns |-> <<>>]
  /\ hand = [c \in Conns |-> <<>>]
  /\ ch = [c \in Conns |-> <<>>]
  /\ frame = [c \in Conns |-> <<>>]
  /\ out = [c \in Conns |-> <<>>]
  /\ grace = [c \in Conns |-> 0]
  /\ lost = [c \in Conns |-> {}]

-----------------------------------------------------------------------------
(* The session is valid and the upgrade succeeds: SUBSCRIBE is sent and the *)
(* goroutines start.  (Any other request is refused and changes nothing.)   *)
Open(c) ==
  /\ pump[c] = "none"
  /\ pump' = [pump EXCEPT ![c] = "open"]
  /\ beat' = [beat EXCEPT ![c] = "due"]
  /\ fwd' = [fwd EXCEPT ![c] = "waiting"]
  /\ UNCHANGED <<key, grace, sent, sub, buf, hand, ch, frame, out, lost, ctx>>

(* CloseRead sees a close frame or an error. *)
PeerCloses(c) ==
  /\ pump[c] \in {"open", "writing"} /\ ctx[c] = "live"
  /\ ctx' = [ctx EXCEPT ![c] = "done"]
  /\ UNCHANGED <<presence, feed, pump>>

-----------------------------------------------------------------------------
(* Mutant: the key lives as long as one interval. *)
SetPresence_OneInterval(c) ==
  /\ beat[c] = "due"
  /\ key' = 1
  /\ beat' = [beat EXCEPT ![c] = "idle"]
  /\ grace' = [grace EXCEPT ![c] = TTL - 1]
  /\ UNCHANGED <<feed, pump, ctx>>

(* The heartbeat: the first SET at once, then one per tick.  Redis executes *)
(* it also when the context was cancelled after it was sent.                *)
SetPresence(c) ==
  /\ beat[c] = "due"
  /\ key' = TTL
  /\ beat' = [beat EXCEPT ![c] = "idle"]
  /\ grace' = [grace EXCEPT ![c] = TTL - 1]
  /\ UNCHANGED <<feed, pump, ctx>>

SetFails(c) ==
  /\ beat[c] = "due"
  /\ beat' = [beat EXCEPT ![c] = "idle"]
  /\ grace' = [grace EXCEPT ![c] = IF @ > 0 THEN @ - 1 ELSE 0]
  /\ UNCHANGED <<key, feed, pump, ctx>>

(* Mutant: the loop has no case for wsCtx.Done. *)
BeatEnds_NoCase(c) == FALSE

(* select prefers neither wsCtx.Done nor the ticker. *)
BeatEnds(c) ==
  /\ beat[c] \in {"idle", "due"} /\ ctx[c] = "done"
  /\ beat' = [beat EXCEPT ![c] = "ended"]
  /\ grace' = [grace EXCEPT ![c] = 0]
  /\ UNCHANGED <<key, feed, pump, ctx>>

(* An interval goes by: the key ages and the tickers fire.  A SET takes     *)
(* less than an interval.                                                   *)
Tick ==
  /\ \A c \in Conns : beat[c] # "due"
  /\ key' = IF key > 0 THEN key - 1 ELSE 0
  /\ beat' = [c \in Conns |-> IF beat[c] = "idle" THEN "due" ELSE beat[c]]
  /\ UNCHANGED <<grace, feed, pump, ctx>>

-----------------------------------------------------------------------------
(* Redis confirms the SUBSCRIBE; go-redis sends it again after its          *)
(* connection was lost.                                                     *)
Subscription(c, from, to) ==
  /\ sub[c] = from
  /\ sub' = [sub EXCEPT ![c] = to]
  /\ UNCHANGED <<presence, sent, fwd, buf, hand, ch, frame, out, lost, pump, ctx>>
Subscribed(c) ==
  c \in Listening /\ pump[c] \in {"open", "writing"} /\ Subscription(c, "none", "active")
SubscriptionLost(c) == Subscription(c, "active", "none")

(* transfer-service publishes; go-redis drops what its buffer cannot hold. *)
Publish ==
  /\ sent < MaxMsgs
  /\ sent' = sent + 1
  /\ LET live == {c \in Conns : sub[c] = "active"}
         room == {c \in live : Len(buf[c]) < SubBuffer}
     IN  /\ buf' = [c \in Conns |-> IF c \in room THEN Append(buf[c], sent') ELSE buf[c]]
         /\ lost' = [c \in Conns |-> IF c \in room THEN lost[c] ELSE lost[c] \cup {sent'}]
  /\ UNCHANGED <<presence, fwd, sub, hand, ch, frame, out, pump, ctx>>

(* for msg := range sub.Channel() ... *)
Take(c) ==
  /\ fwd[c] = "waiting" /\ buf[c] # <<>>
  /\ fwd' = [fwd EXCEPT ![c] = "holding"]
  /\ hand' = [hand EXCEPT ![c] = <<Head(buf[c])>>]
  /\ buf' = [buf EXCEPT ![c] = Tail(@)]
  /\ UNCHANGED <<presence, sent, sub, ch, frame, out, lost, pump, ctx>>

(* Mutant: a channel that never blocks. *)
Put_NoLimit(c) ==
  /\ fwd[c] = "holding"
  /\ fwd' = [fwd EXCEPT ![c] = "waiting"]
  /\ ch' = [ch EXCEPT ![c] = @ \o hand[c]]
  /\ hand' = [hand EXCEPT ![c] = <<>>]
  /\ UNCHANGED <<presence, sent, sub, buf, frame, out, lost, pump, ctx>>

(* ... case ch <- msg.Payload ... *)
Put(c) ==
  /\ fwd[c] = "holding" /\ Len(ch[c]) < ChanSize
  /\ fwd' = [fwd EXCEPT ![c] = "waiting"]
  /\ ch' = [ch EXCEPT ![c] = @ \o hand[c]]
  /\ hand' = [hand EXCEPT ![c] = <<>>]
  /\ UNCHANGED <<presence, sent, sub, buf, frame, out, lost, pump, ctx>>

(* Mutant: a plain send, without the case for ctx.Done. *)
FwdEnds_NoCtx(c) ==
  /\ fwd[c] = "waiting" /\ sub[c] = "closed" /\ buf[c] = <<>>
  /\ fwd' = [fwd EXCEPT ![c] = "ended"]
  /\ hand' = [hand EXCEPT ![c] = <<>>]
  /\ UNCHANGED <<presence, sent, sub, buf, ch, frame, out, lost, pump, ctx>>

(* ... case <-ctx.Done(), or the subscription is closed: ch is closed. *)
FwdEnds(c) ==
  /\ \/ fwd[c] = "holding" /\ ctx[c] = "done"
     \/ fwd[c] = "waiting" /\ sub[c] = "closed" /\ buf[c] = <<>>
  /\ fwd' = [fwd EXCEPT ![c] = "ended"]
  /\ hand' = [hand EXCEPT ![c] = <<>>]
  /\ UNCHANGED <<presence, sent, sub, buf, ch, frame, out, lost, pump, ctx>>

-----------------------------------------------------------------------------
(* The pump takes a message and writes it, as one frame. *)
Receive(c) ==
  /\ pump[c] = "open" /\ ch[c] # <<>>
  /\ pump' = [pump EXCEPT ![c] = "writing"]
  /\ frame' = [frame EXCEPT ![c] = <<Head(ch[c])>>]
  /\ ch' = [ch EXCEPT ![c] = Tail(@)]
  /\ UNCHANGED <<presence, sent, fwd, sub, buf, hand, out, lost, ctx>>
Written(c) ==
  /\ pump[c] = "writing"
  /\ pump' = [pump EXCEPT ![c] = "open"]
  /\ out' = [out EXCEPT ![c] = @ \o frame[c]]
  /\ frame' = [frame EXCEPT ![c] = <<>>]
  /\ UNCHANGED <<presence, sent, fwd, sub, buf, hand, ch, lost, ctx>>

(* The context is done, or the channel is closed and empty ... *)
Close(c) ==
  /\ pump' = [pump EXCEPT ![c] = "closing"]
  /\ UNCHANGED <<presence, feed, ctx>>
Disconnect(c) ==
  /\ \/ pump[c] \in {"open", "writing"} /\ ctx[c] = "done"
     \/ pump[c] = "open" /\ fwd[c] = "ended" /\ ch[c] = <<>>
  /\ Close(c)
(* Mutant: a message that could not be written is queued again. *)
WriteFails_Requeues(c) ==
  /\ pump[c] = "writing"
  /\ pump' = [pump EXCEPT ![c] = "open"]
  /\ ch' = [ch EXCEPT ![c] = @ \o frame[c]]
  /\ frame' = [frame EXCEPT ![c] = <<>>]
  /\ UNCHANGED <<presence, sent, fwd, sub, buf, hand, out, lost, ctx>>

(* ... or a write fails by itself. *)
WriteFails(c) == pump[c] = "writing" /\ Close(c)

(* SetPresence(false), whose error is ignored; then the deferred calls:     *)
(* the subscription is closed, the request's context is done.               *)
Return(c) ==
  /\ pump[c] = "closing"
  /\ pump' = [pump EXCEPT ![c] = "gone"]
  /\ ctx' = [ctx EXCEPT ![c] = "done"]
  /\ sub' = [sub EXCEPT ![c] = "closed"]
  /\ UNCHANGED <<sent, fwd, buf, hand, ch, frame, out, lost, beat>>
DelPresence(c) ==
  /\ Return(c)
  /\ key' = 0
  /\ grace' = [d \in Conns |-> 0]
DelFails(c) ==
  /\ Return(c)
  /\ UNCHANGED <<key, grace>>

(* The process ends.  Shutdown does not wait for hijacked connections, no   *)
(* DEL succeeds once Redis is closed, and a SET on its way may arrive.      *)
Ended(c) == pump[c] = "gone" /\ beat[c] = "ended" /\ fwd[c] = "ended"
Exit(h) ==
  LET dead == {c \in Conns : HostOf[c] = h /\ pump[c] # "none" /\ ~Ended(c)}
      Kill(f, to) == [c \in Conns |-> IF c \in dead THEN to ELSE f[c]]
  IN  /\ dead # {}
      /\ pump' = Kill(pump, "gone") /\ ctx' = Kill(ctx, "done")
      /\ beat' = Kill(beat, "ended") /\ fwd' = Kill(fwd, "ended") /\ sub' = Kill(sub, "closed")
      /\ buf' = Kill(buf, <<>>) /\ hand' = Kill(hand, <<>>) /\ ch' = Kill(ch, <<>>)
      /\ frame' = Kill(frame, <<>>)
      /\ key' \in {key} \cup {TTL : c \in {d \in dead : beat[d] = "due"}}
      /\ grace' = Kill(grace, 0)
      /\ UNCHANGED <<sent, out, lost>>

-----------------------------------------------------------------------------
BeatStep(c) == SetPresence(c) \/ SetFails(c) \/ BeatEnds(c)
FwdStep(c)  == Take(c) \/ Put(c) \/ FwdEnds(c)
PumpStep(c) == Receive(c) \/ Disconnect(c) \/ DelPresence(c) \/ DelFails(c)

Next ==
  \/ \E c \in Conns : \/ Open(c) \/ PeerCloses(c) \/ Subscribed(c) \/ SubscriptionLost(c)
                      \/ Written(c) \/ WriteFails(c)
                      \/ BeatStep(c) \/ FwdStep(c) \/ PumpStep(c)
  \/ \E h \in Hosts : Exit(h)
  \/ Tick \/ Publish

Spec == Init /\ [][Next]_vars

(* Goroutines that can go on do, a call to Redis ends, time goes by, and a  *)
(* select, which chooses at random, does not pass over a case for ever.     *)
(* Peers, publishers, the network and processes owe nothing: a write to a   *)
(* peer that does not read may block for ever.                              *)
FairSpec ==
  /\ Spec
  /\ \A c \in Conns : /\ WF_vars(BeatStep(c)) /\ SF_vars(BeatEnds(c))
                      /\ WF_vars(FwdStep(c)) /\ WF_vars(PumpStep(c))
  /\ WF_vars(Tick)

-----------------------------------------------------------------------------
Msgs == 1..MaxMsgs

TypeOK ==
  /\ key \in 0..TTL /\ sent \in 0..MaxMsgs
  /\ pump \in [Conns -> {"none", "open", "writing", "closing", "gone"}]
  /\ ctx \in [Conns -> {"live", "done"}]
  /\ beat \in [Conns -> {"none", "due", "idle", "ended"}]
  /\ fwd \in [Conns -> {"none", "waiting", "holding", "ended"}]
  /\ sub \in [Conns -> {"none", "active", "closed"}]
  /\ \A q \in {buf, hand, ch, frame, out} : q \in [Conns -> Seq(Nat)]
  /\ \A c \in Conns : /\ Len(buf[c]) <= SubBuffer /\ Len(ch[c]) <= ChanSize
                      /\ Len(hand[c]) <= 1 /\ Len(frame[c]) <= 1
  /\ grace \in [Conns -> 0..(TTL - 1)]
  /\ lost \in [Conns -> SUBSET Msgs]

(* A connected user is shown online: with a key that lives three heartbeat  *)
(* intervals, it takes two failed heartbeats in a row or the DEL of a       *)
(* sibling connection to make a user with a beating connection disappear.   *)
OnlineWhileBeating ==
  \A c \in Conns :
    beat[c] \in {"idle", "due"} /\ grace[c] > 0 => key > 0

(* A socket gets the messages in the order of their publication, each at    *)
(* most once, and skips only messages that were published while the         *)
(* subscription was down or its buffer full, never one that a goroutine of  *)
(* the connection had in hand.                                              *)
FramesInOrder ==
  \A c \in Conns : \A i \in 1..Len(out[c]) :
    LET last == IF i = 1 THEN 0 ELSE out[c][i - 1]
    IN  last < out[c][i] /\ (last + 1)..(out[c][i] - 1) \subseteq lost[c]

(* Once a connection's context is done its three goroutines end: no pump    *)
(* waits for a forwarder that waits for the pump, and none is leaked.       *)
GoroutinesEnd ==
  \A c \in Conns : ctx[c] = "done" ~> Ended(c)

(* When the last connection is gone the key goes too, although a heartbeat  *)
(* may refresh it after the DEL and a process may end without one.          *)
PresenceExpires ==
  (\A c \in Conns : pump[c] = "gone") ~> key = 0
=============================================================================
