---------------------------- MODULE WsFeedProofs ----------------------------
(***************************************************************************)
(* Types of WsFeed; that a user whose heartbeats arrive is online; and     *)
(* that a socket gets its messages in order, for any number of connections *)
(* and processes, any lifetime of the key and any size of the buffers.     *)
(* OnlineWhileBeating is not inductive: the key must outlive the           *)
(* heartbeats that may still fail, and by one interval more while the      *)
(* ticker has not fired (Lives).  Nor is FramesInOrder: all the messages   *)
(* of a connection, put end to end from the socket back to the             *)
(* subscription, are in order and miss only what the subscription missed   *)
(* (FlowInv).                                                              *)
(***************************************************************************)
EXTENDS WsFeed, SequenceTheorems, TLAPS

Lives(c) ==
  /\ pump[c] = "none" => beat[c] = "none"
  /\ beat[c] = "none" => grace[c] = 0
  /\ beat[c] = "idle" /\ grace[c] > 0 => key >= grace[c] + 1
  /\ beat[c] = "due" => key >= grace[c]

PresenceInv == TypeOK /\ \A c \in Conns : Lives(c)

-----------------------------------------------------------------------------
(* Types, component by component. *)
QueuesOK ==
  /\ buf \in [Conns -> Seq(Nat)] /\ hand \in [Conns -> Seq(Nat)]
  /\ ch \in [Conns -> Seq(Nat)] /\ frame \in [Conns -> Seq(Nat)]
  /\ out \in [Conns -> Seq(Nat)]
  /\ \A c \in Conns : /\ Len(buf[c]) <= SubBuffer /\ Len(ch[c]) <= ChanSize
                      /\ Len(hand[c]) <= 1 /\ Len(frame[c]) <= 1

StagesOK ==
  /\ pump \in [Conns -> {"none", "open", "writing", "closing", "gone"}]
  /\ ctx \in [Conns -> {"live", "done"}]
  /\ fwd \in [Conns -> {"none", "waiting", "holding", "ended"}]
  /\ sub \in [Conns -> {"none", "active", "closed"}]

ClockOK ==
  /\ key \in 0..TTL
  /\ beat \in [Conns -> {"none", "due", "idle", "ended"}]
  /\ grace \in [Conns -> 0..(TTL - 1)]

SentOK == sent \in 0..MaxMsgs /\ lost \in [Conns -> SUBSET Msgs]

LEMMA TypeParts == TypeOK <=> QueuesOK /\ StagesOK /\ ClockOK /\ SentOK
BY DEF TypeOK, QueuesOK, StagesOK, ClockOK, SentOK

LEMMA FeedInit == Init => PresenceInv
<1> SUFFICES ASSUME Init PROVE PresenceInv
  OBVIOUS
<1>1. QueuesOK
  BY WsAssumption DEF Init, QueuesOK
<1>2. StagesOK /\ ClockOK /\ SentOK
  BY WsAssumption DEF Init, StagesOK, ClockOK, SentOK
<1>3. \A c \in Conns : Lives(c)
  BY DEF Init, Lives
<1> QED
  BY <1>1, <1>2, <1>3, TypeParts DEF PresenceInv

-----------------------------------------------------------------------------
LEMMA QueuesStep ==
  ASSUME QueuesOK, SentOK, [Next]_vars
  PROVE  QueuesOK'
<1> USE WsAssumption
<1>1. CASE UNCHANGED <<buf, hand, ch, frame, out>>
  BY <1>1 DEF QueuesOK
<1>2. ASSUME NEW c \in Conns, Take(c)
      PROVE  QueuesOK'
  <2>1. /\ buf[c] \in Seq(Nat) /\ buf[c] # <<>> /\ Len(buf[c]) <= SubBuffer
    BY <1>2 DEF Take, QueuesOK
  <2>2. /\ Head(buf[c]) \in Nat /\ Tail(buf[c]) \in Seq(Nat)
        /\ Len(Tail(buf[c])) <= SubBuffer
    BY <2>1
  <2>3. <<Head(buf[c])>> \in Seq(Nat) /\ Len(<<Head(buf[c])>>) <= 1
    BY <2>2
  <2> QED
    BY <1>2, <2>2, <2>3 DEF Take, QueuesOK
<1>3. ASSUME NEW c \in Conns, Put(c)
      PROVE  QueuesOK'
  <2>1. /\ ch[c] \in Seq(Nat) /\ hand[c] \in Seq(Nat)
        /\ Len(ch[c]) < ChanSize /\ Len(hand[c]) <= 1
    BY <1>3 DEF Put, QueuesOK
  <2>2. ch[c] \o hand[c] \in Seq(Nat) /\ Len(ch[c] \o hand[c]) = Len(ch[c]) + Len(hand[c])
    BY <2>1, ConcatProperties
  <2>3. Len(ch[c] \o hand[c]) <= ChanSize
    <3> DEFINE m == Len(ch[c])
               n == Len(hand[c])
    <3>1. m \in Nat /\ n \in Nat /\ m < ChanSize /\ n <= 1 /\ ChanSize \in Nat
      BY <2>1, LenProperties
    <3> HIDE DEF m, n
    <3>2. m + n <= ChanSize
      BY <3>1
    <3> QED
      BY <2>2, <3>2 DEF m, n
  <2>4. /\ ch' = [ch EXCEPT ![c] = ch[c] \o hand[c]]
        /\ hand' = [hand EXCEPT ![c] = <<>>]
        /\ UNCHANGED <<buf, frame, out>>
    BY <1>3 DEF Put
  <2> QED
    BY <2>2, <2>3, <2>4 DEF QueuesOK
<1>4. ASSUME NEW c \in Conns, FwdEnds(c)
      PROVE  QueuesOK'
  BY <1>4 DEF FwdEnds, QueuesOK
<1>5. ASSUME NEW c \in Conns, Receive(c)
      PROVE  QueuesOK'
  <2>1. ch[c] \in Seq(Nat) /\ ch[c] # <<>> /\ Len(ch[c]) <= ChanSize
    BY <1>5 DEF Receive, QueuesOK
  <2>2. /\ Head(ch[c]) \in Nat /\ Tail(ch[c]) \in Seq(Nat)
        /\ Len(Tail(ch[c])) <= ChanSize
    BY <2>1
  <2>3. <<Head(ch[c])>> \in Seq(Nat) /\ Len(<<Head(ch[c])>>) <= 1
    BY <2>2
  <2> QED
    BY <1>5, <2>2, <2>3 DEF Receive, QueuesOK
<1>6. ASSUME NEW c \in Conns, Written(c)
      PROVE  QueuesOK'
  <2>1. out[c] \o frame[c] \in Seq(Nat)
    BY ConcatProperties DEF QueuesOK
  <2> QED
    BY <1>6, <2>1 DEF Written, QueuesOK
<1>7. ASSUME NEW h \in Hosts, Exit(h)
      PROVE  QueuesOK'
  BY <1>7 DEF Exit, QueuesOK
<1>8. CASE Publish
  <2>1. UNCHANGED <<hand, ch, frame, out>> /\ SentOK /\ sent' \in Nat
    BY <1>8 DEF Publish, SentOK
  <2>2. ASSUME NEW c \in Conns
        PROVE  buf'[c] \in Seq(Nat) /\ Len(buf'[c]) <= SubBuffer
    <3>1. buf[c] \in Seq(Nat) /\ Len(buf[c]) <= SubBuffer
      BY DEF QueuesOK
    <3>2. CASE Len(buf[c]) < SubBuffer /\ buf'[c] = Append(buf[c], sent')
      BY <2>1, <3>1, <3>2
    <3>3. CASE buf'[c] = buf[c]
      BY <3>1, <3>3
    <3> QED
      BY <1>8, <3>2, <3>3 DEF Publish
  <2>3. buf' = [c \in Conns |-> buf'[c]]
    BY <1>8 DEF Publish
  <2>4. buf' \in [Conns -> Seq(Nat)]
    BY <2>2, <2>3
  <2> QED
    BY <2>1, <2>2, <2>4 DEF QueuesOK
<1> QED
  <2>1. CASE UNCHANGED vars
    BY <1>1, <2>1 DEF vars, feed
  <2>2. CASE Tick
    BY <1>1, <2>2 DEF Tick, feed
  <2>3. ASSUME NEW c \in Conns,
               \/ Open(c) \/ PeerCloses(c) \/ Subscribed(c) \/ SubscriptionLost(c)
               \/ WriteFails(c) \/ BeatStep(c) \/ Disconnect(c) \/ DelPresence(c) \/ DelFails(c)
        PROVE  QueuesOK'
    BY <1>1, <2>3
    DEF Open, PeerCloses, Subscribed, SubscriptionLost, Subscription, WriteFails, Close,
        BeatStep, SetPresence, SetFails, BeatEnds, Disconnect, DelPresence, DelFails, Return,
        feed
  <2> QED
    BY <1>2, <1>3, <1>4, <1>5, <1>6, <1>7, <1>8, <2>1, <2>2, <2>3
    DEF Next, FwdStep, PumpStep

LEMMA StagesStep ==
  ASSUME StagesOK, [Next]_vars
  PROVE  StagesOK'
<1>1. CASE UNCHANGED <<pump, ctx, fwd, sub>>
  BY <1>1 DEF StagesOK
<1>2. ASSUME NEW c \in Conns, Open(c)
      PROVE  StagesOK'
  BY <1>2 DEF Open, StagesOK
<1>3. ASSUME NEW c \in Conns, PeerCloses(c) \/ Take(c) \/ Put(c) \/ FwdEnds(c)
      PROVE  StagesOK'
  BY <1>3 DEF PeerCloses, Take, Put, FwdEnds, StagesOK, feed
<1>4. ASSUME NEW c \in Conns, Subscribed(c) \/ SubscriptionLost(c)
      PROVE  StagesOK'
  BY <1>4 DEF Subscribed, SubscriptionLost, Subscription, StagesOK
<1>5. ASSUME NEW c \in Conns, Receive(c) \/ Written(c) \/ Close(c)
      PROVE  StagesOK'
  BY <1>5 DEF Receive, Written, Close, StagesOK, feed
<1>6. ASSUME NEW c \in Conns, Return(c)
      PROVE  StagesOK'
  BY <1>6 DEF Return, StagesOK
<1>7. ASSUME NEW h \in Hosts, Exit(h)
      PROVE  StagesOK'
  BY <1>7 DEF Exit, StagesOK
<1> QED
  <2>1. CASE UNCHANGED vars \/ Tick \/ Publish
    BY <1>1, <2>1 DEF vars, feed, Tick, Publish
  <2>2. ASSUME NEW c \in Conns, BeatStep(c)
        PROVE  StagesOK'
    BY <1>1, <2>2 DEF BeatStep, SetPresence, SetFails, BeatEnds, feed
  <2> QED
    BY <1>2, <1>3, <1>4, <1>5, <1>6, <1>7, <2>1, <2>2
    DEF Next, FwdStep, PumpStep, WriteFails, Disconnect, DelPresence, DelFails

LEMMA SentStep ==
  ASSUME SentOK, [Next]_vars
  PROVE  SentOK'
<1>1. CASE UNCHANGED <<sent, lost>>
  BY <1>1 DEF SentOK
<1>2. CASE Publish
  <2>1. sent' \in 0..MaxMsgs /\ sent' \in Msgs
    BY <1>2, WsAssumption DEF Publish, SentOK, Msgs
  <2> QED
    BY <1>2, <2>1 DEF Publish, SentOK
<1> QED
  <2>1. CASE UNCHANGED vars \/ Tick
    BY <1>1, <2>1 DEF vars, feed, Tick
  <2>2. ASSUME NEW h \in Hosts, Exit(h)
        PROVE  SentOK'
    BY <1>1, <2>2 DEF Exit
  <2>3. ASSUME NEW c \in Conns,
               \/ Open(c) \/ PeerCloses(c) \/ Subscribed(c) \/ SubscriptionLost(c)
               \/ Written(c) \/ WriteFails(c) \/ BeatStep(c) \/ FwdStep(c) \/ PumpStep(c)
        PROVE  SentOK'
    BY <1>1, <2>3
    DEF Open, PeerCloses, Subscribed, SubscriptionLost, Subscription, WriteFails, Close,
        BeatStep, SetPresence, SetFails, BeatEnds, PumpStep, Disconnect, DelPresence, DelFails,
        Return, Receive, Written, FwdStep, Take, Put, FwdEnds, feed
  <2> QED
    BY <1>2, <2>1, <2>2, <2>3 DEF Next

-----------------------------------------------------------------------------
(* The presence key, action by action. *)
Online == ClockOK /\ \A c \in Conns : Lives(c)

LEMMA BeatKeeps ==
  ASSUME Online, NEW c \in Conns, BeatStep(c)
  PROVE  Online'
<1> USE WsAssumption
<1>1. ASSUME NEW d \in Conns
      PROVE  grace[d] \in 0..(TTL - 1) /\ key \in 0..TTL /\ Lives(d)
  BY DEF Online, ClockOK
<1>2. CASE SetPresence(c)
  <2>1. ClockOK'
    BY <1>2 DEF SetPresence, Online, ClockOK
  <2>2. ASSUME NEW d \in Conns
        PROVE  Lives(d)'
    <3>1. /\ key' = TTL /\ pump' = pump
          /\ beat'[d] = (IF d = c THEN "idle" ELSE beat[d])
          /\ grace'[d] = (IF d = c THEN TTL - 1 ELSE grace[d])
      BY <1>2 DEF SetPresence, Online, ClockOK
    <3> QED
      BY <1>1, <1>2, <3>1 DEF Lives, SetPresence
  <2> QED
    BY <2>1, <2>2 DEF Online
<1>3. CASE SetFails(c)
  <2>1. (IF grace[c] > 0 THEN grace[c] - 1 ELSE 0) \in 0..(TTL - 1)
    BY <1>1
  <2>2. ClockOK'
    BY <1>3, <2>1 DEF SetFails, Online, ClockOK
  <2>3. ASSUME NEW d \in Conns
        PROVE  Lives(d)'
    <3>1. /\ key' = key /\ pump' = pump
          /\ beat'[d] = (IF d = c THEN "idle" ELSE beat[d])
          /\ grace'[d] = (IF d = c THEN (IF grace[c] > 0 THEN grace[c] - 1 ELSE 0) ELSE grace[d])
      BY <1>3 DEF SetFails, Online, ClockOK
    <3> QED
      BY <1>1, <1>3, <3>1 DEF Lives, SetFails
  <2> QED
    BY <2>2, <2>3 DEF Online
<1>4. CASE BeatEnds(c)
  <2>1. ClockOK'
    BY <1>4 DEF BeatEnds, Online, ClockOK
  <2>2. ASSUME NEW d \in Conns
        PROVE  Lives(d)'
    <3>1. /\ key' = key /\ pump' = pump
          /\ beat'[d] = (IF d = c THEN "ended" ELSE beat[d])
          /\ grace'[d] = (IF d = c THEN 0 ELSE grace[d])
      BY <1>4 DEF BeatEnds, Online, ClockOK
    <3> QED
      BY <1>1, <1>4, <3>1 DEF Lives, BeatEnds
  <2> QED
    BY <2>1, <2>2 DEF Online
<1> QED
  BY <1>2, <1>3, <1>4 DEF BeatStep

LEMMA TickKeeps ==
  ASSUME Online, Tick
  PROVE  Online'
<1>1. ClockOK'
  BY WsAssumption DEF Tick, Online, ClockOK
<1>2. ASSUME NEW d \in Conns
      PROVE  Lives(d)'
  <2>1. /\ key' = (IF key > 0 THEN key - 1 ELSE 0) /\ pump' = pump /\ grace'[d] = grace[d]
        /\ beat'[d] = (IF beat[d] = "idle" THEN "due" ELSE beat[d]) /\ beat[d] # "due"
    BY DEF Tick
  <2>2. grace[d] \in 0..(TTL - 1) /\ key \in 0..TTL /\ Lives(d) /\ TTL \in Nat
    BY WsAssumption DEF Online, ClockOK
  <2> QED
    BY <2>1, <2>2 DEF Lives
<1> QED
  BY <1>1, <1>2 DEF Online

LEMMA ExitKeeps ==
  ASSUME Online, NEW h \in Hosts, Exit(h)
  PROVE  Online'
<1> DEFINE dead == {c \in Conns : HostOf[c] = h /\ pump[c] # "none" /\ ~Ended(c)}
<1>1. /\ key' \in {key, TTL}
      /\ pump' = [c \in Conns |-> IF c \in dead THEN "gone" ELSE pump[c]]
      /\ beat' = [c \in Conns |-> IF c \in dead THEN "ended" ELSE beat[c]]
      /\ grace' = [c \in Conns |-> IF c \in dead THEN 0 ELSE grace[c]]
  BY DEF Exit
<1> HIDE DEF dead
<1>2. ClockOK'
  BY <1>1, WsAssumption DEF Online, ClockOK
<1>3. ASSUME NEW d \in Conns
      PROVE  Lives(d)'
  <2>1. grace[d] \in 0..(TTL - 1) /\ key \in 0..TTL /\ Lives(d) /\ TTL \in Nat
    BY WsAssumption DEF Online, ClockOK
  <2>2. CASE d \in dead
    BY <1>1, <2>1, <2>2 DEF Lives
  <2>3. CASE d \notin dead
    <3>1. UNCHANGED <<pump[d], beat[d], grace[d]>> /\ key' >= key
      BY <1>1, <2>1, <2>3
    <3> QED
      BY <1>1, <2>1, <3>1 DEF Lives
  <2> QED
    BY <2>2, <2>3
<1> QED
  BY <1>2, <1>3 DEF Online

LEMMA OnlineStep ==
  ASSUME Online, StagesOK, [Next]_vars
  PROVE  Online'
<1>1. CASE UNCHANGED <<presence, pump>>
  BY <1>1 DEF presence, Online, ClockOK, Lives
<1>2. ASSUME NEW c \in Conns, Open(c)
      PROVE  Online'
  <2>1. ClockOK'
    BY <1>2 DEF Open, Online, ClockOK
  <2>2. \A d \in Conns : Lives(d)'
    BY <1>2, WsAssumption DEF Open, Online, ClockOK, StagesOK, Lives
  <2> QED
    BY <2>1, <2>2 DEF Online
<1>3. ASSUME NEW c \in Conns, Receive(c) \/ Written(c) \/ WriteFails(c) \/ Disconnect(c)
      PROVE  Online'
  <2>1. UNCHANGED presence /\ \A d \in Conns : pump'[d] = "none" => pump[d] = "none"
    BY <1>3 DEF Receive, Written, WriteFails, Disconnect, Close, StagesOK
  <2> QED
    BY <2>1 DEF presence, Online, ClockOK, Lives
<1>4. ASSUME NEW c \in Conns, DelFails(c)
      PROVE  Online'
  <2>1. UNCHANGED presence /\ \A d \in Conns : pump'[d] = "none" => pump[d] = "none"
    BY <1>4 DEF DelFails, Return, StagesOK, presence
  <2> QED
    BY <2>1 DEF presence, Online, ClockOK, Lives
<1>5. ASSUME NEW c \in Conns, DelPresence(c)
      PROVE  Online'
  <2>1. /\ key' = 0 /\ grace' = [d \in Conns |-> 0] /\ beat' = beat
        /\ \A d \in Conns : pump'[d] = "none" => pump[d] = "none"
    BY <1>5 DEF DelPresence, Return, StagesOK
  <2> QED
    BY <2>1, WsAssumption DEF Online, ClockOK, Lives
<1> QED
  <2>1. CASE UNCHANGED vars \/ Publish
    BY <1>1, <2>1 DEF vars, Publish
  <2>2. ASSUME NEW c \in Conns,
               PeerCloses(c) \/ Subscribed(c) \/ SubscriptionLost(c) \/ FwdStep(c)
        PROVE  Online'
    BY <1>1, <2>2
    DEF PeerCloses, Subscribed, SubscriptionLost, Subscription, FwdStep, Take, Put, FwdEnds
  <2> QED
    BY <1>2, <1>3, <1>4, <1>5, <2>1, <2>2, BeatKeeps, TickKeeps, ExitKeeps DEF Next, PumpStep

LEMMA FeedStep == PresenceInv /\ [Next]_vars => PresenceInv'
<1> SUFFICES ASSUME PresenceInv, [Next]_vars
             PROVE  PresenceInv'
  OBVIOUS
<1>1. QueuesOK /\ StagesOK /\ SentOK /\ Online
  BY TypeParts DEF PresenceInv, Online
<1>2. QueuesOK' /\ StagesOK' /\ SentOK' /\ Online'
  BY <1>1, QueuesStep, StagesStep, SentStep, OnlineStep
<1>3. TypeOK'
  BY <1>2 DEF TypeOK, QueuesOK, StagesOK, ClockOK, SentOK, Online, Msgs
<1> QED
  BY <1>2, <1>3 DEF PresenceInv, Online

(* handleWebSocket, SetPresence, Subscribe: the handler, its goroutines and  *)
(* their buffers stay within their types and bounds.                         *)
THEOREM FeedTypes == Spec => []TypeOK
<1>1. PresenceInv => TypeOK
  BY DEF PresenceInv
<1> QED
  BY <1>1, FeedInit, FeedStep, PTL DEF Spec

(* The heartbeat of handleWebSocket: whoever else opens, closes or crashes,  *)
(* a connection keeps its user online until as many of its SETs in a row     *)
(* failed as the key lives intervals less one, or a sibling's DEL came.      *)
THEOREM BeatingIsOnline == Spec => []OnlineWhileBeating
<1>1. PresenceInv => OnlineWhileBeating
  BY WsAssumption DEF PresenceInv, Lives, OnlineWhileBeating, TypeOK
<1> QED
  BY <1>1, FeedInit, FeedStep, PTL DEF Spec

-----------------------------------------------------------------------------
(* The order of messages.  Goroutines only move messages along one line;     *)
(* what a connection has in hand, in line after what it wrote, is in order.  *)
InOrder(s, missed) ==
  \A i \in 1..Len(s) :
    LET last == IF i = 1 THEN 0 ELSE s[i - 1]
    IN  last < s[i] /\ (last + 1)..(s[i] - 1) \subseteq missed
LastOf(s) == IF Len(s) = 0 THEN 0 ELSE s[Len(s)]

LEMMA InOrderPrefix ==
  ASSUME NEW s \in Seq(Nat), NEW t \in Seq(Nat), NEW missed, InOrder(s \o t, missed)
  PROVE  InOrder(s, missed)
<1>1. Len(s) \in Nat /\ Len(t) \in Nat
  BY LenProperties
<1>2. Len(s \o t) = Len(s) + Len(t) /\ \A i \in 1..Len(s) : (s \o t)[i] = s[i]
  BY <1>1, ConcatProperties
<1> SUFFICES ASSUME NEW i \in 1..Len(s)
             PROVE  LET last == IF i = 1 THEN 0 ELSE s[i - 1]
                    IN  last < s[i] /\ (last + 1)..(s[i] - 1) \subseteq missed
  BY DEF InOrder
<1>3. i \in 1..Len(s \o t)
  BY <1>1, <1>2
<1>4. i # 1 => i - 1 \in 1..Len(s)
  BY <1>1
<1> QED
  BY <1>2, <1>3, <1>4 DEF InOrder

LEMMA InOrderAppend ==
  ASSUME NEW s \in Seq(Nat), NEW missed, InOrder(s, missed), NEW m \in Nat,
         LastOf(s) < m, (LastOf(s) + 1)..(m - 1) \subseteq missed
  PROVE  InOrder(s \o <<m>>, missed) /\ LastOf(s \o <<m>>) = m
<1> DEFINE t == Append(s, m)
<1>0. t = s \o <<m>>
  BY AppendIsConcat
<1>1. Len(s) \in Nat /\ Len(t) = Len(s) + 1
  BY LenProperties, AppendProperties
<1>2. (\A i \in 1..Len(s) : t[i] = s[i]) /\ t[Len(s) + 1] = m
  BY AppendProperties
<1> HIDE DEF t
<1>3. LastOf(t) = m
  BY <1>1, <1>2 DEF LastOf
<1>4. ASSUME NEW i \in 1..Len(t)
      PROVE  LET last == IF i = 1 THEN 0 ELSE t[i - 1]
             IN  last < t[i] /\ (last + 1)..(t[i] - 1) \subseteq missed
  <2>1. CASE i \in 1..Len(s)
    <3>1. i # 1 => i - 1 \in 1..Len(s)
      BY <1>1, <2>1
    <3> QED
      BY <1>2, <2>1, <3>1 DEF InOrder
  <2>2. CASE i = Len(s) + 1
    <3>1. (IF i = 1 THEN 0 ELSE t[i - 1]) = LastOf(s)
      <4>1. CASE Len(s) = 0
        BY <2>2, <4>1 DEF LastOf
      <4>2. CASE Len(s) # 0
        <5>1. i # 1 /\ i - 1 = Len(s) /\ Len(s) \in 1..Len(s)
          BY <1>1, <2>2, <4>2
        <5> QED
          BY <1>2, <4>2, <5>1 DEF LastOf
      <4> QED
        BY <4>1, <4>2
    <3> QED
      BY <1>2, <2>2, <3>1
  <2> QED
    BY <1>1, <2>1, <2>2
<1> QED
  BY <1>0, <1>3, <1>4 DEF InOrder

LEMMA HeadAndTail ==
  ASSUME NEW s \in Seq(Nat), s # <<>>
  PROVE  /\ <<Head(s)>> \in Seq(Nat) /\ Tail(s) \in Seq(Nat)
         /\ <<Head(s)>> \o Tail(s) = s
<1>1. Head(s) \in Nat /\ Tail(s) \in Seq(Nat) /\ Len(s) \in Nat \ {0}
  BY HeadTailProperties, EmptySeq
<1>2. SubSeq(s, 1, Len(s)) = <<s[1]>> \o SubSeq(s, 1 + 1, Len(s))
  <2>1. 1 \in 1..Len(s) /\ Len(s) \in 1..Len(s)
    BY <1>1
  <2> QED
    BY <2>1, SubSeqRecursiveFirst
<1>3. SubSeq(s, 1, Len(s)) = s /\ Tail(s) = SubSeq(s, 2, Len(s))
  BY SubSeqFull, TailIsSubSeq
<1>4. Head(s) = s[1] /\ 1 + 1 = 2
  BY <1>1
<1> QED
  BY <1>1, <1>2, <1>3, <1>4

(* Sequences of messages and their concatenation, of which only these facts *)
(* are used from here on.                                                   *)
Queues == Seq(Nat)
Cat(s, t) == s \o t

LEMMA Concats ==
  /\ <<>> \in Queues
  /\ \A s, t \in Queues : Cat(s, t) \in Queues
  /\ \A s \in Queues : Cat(s, <<>>) = s /\ Cat(<<>>, s) = s
  /\ \A s, t, u \in Queues : Cat(Cat(s, t), u) = Cat(s, Cat(t, u))
<1>1. ASSUME NEW s \in Seq(Nat), NEW t \in Seq(Nat), NEW u \in Seq(Nat)
      PROVE  (s \o t) \o u = s \o (t \o u)
  BY ConcatAssociative
<1>2. ASSUME NEW s \in Seq(Nat), NEW t \in Seq(Nat)
      PROVE  s \o t \in Seq(Nat)
  BY ConcatProperties
<1>3. ASSUME NEW s \in Seq(Nat)
      PROVE  s \o <<>> = s /\ <<>> \o s = s
  BY ConcatEmptySeq
<1> QED
  BY <1>1, <1>2, <1>3, EmptySeq, Zenon DEF Queues, Cat

LEMMA FirstOfQueue ==
  ASSUME NEW s \in Queues, s # <<>>
  PROVE  \E h, t \in Queues : h = <<Head(s)>> /\ t = Tail(s) /\ Cat(h, t) = s
BY HeadAndTail DEF Queues, Cat

LEMMA PrefixOfQueue ==
  ASSUME NEW s \in Queues, NEW t \in Queues, NEW missed, InOrder(Cat(s, t), missed)
  PROVE  InOrder(s, missed)
BY InOrderPrefix DEF Queues, Cat

LEMMA AppendToQueue ==
  ASSUME NEW s \in Queues, NEW m \in Nat
  PROVE  \E l \in Queues : l = <<m>> /\ Append(s, m) = Cat(s, l)
<1>1. <<m>> \in Queues
  BY DEF Queues
<1>2. Append(s, m) = Cat(s, <<m>>)
  BY AppendIsConcat DEF Queues, Cat
<1> QED
  BY <1>1, <1>2

(* What is written, being written, in the channel, in the forwarder's hand  *)
(* and in the subscription, as one line.                                    *)
Line(o, f, x, h, y) == Cat(o, Cat(f, Cat(x, Cat(h, y))))

LEMMA LineType ==
  ASSUME NEW o \in Queues, NEW f \in Queues, NEW x \in Queues, NEW h \in Queues, NEW y \in Queues
  PROVE  Line(o, f, x, h, y) \in Queues
BY Concats DEF Line

LEMMA LineReceive ==
  ASSUME NEW o \in Queues, NEW x \in Queues, x # <<>>, NEW h \in Queues, NEW y \in Queues
  PROVE  Line(o, <<Head(x)>>, Tail(x), h, y) = Line(o, <<>>, x, h, y)
<1>1. PICK p, q \in Queues : p = <<Head(x)>> /\ q = Tail(x) /\ Cat(p, q) = x
  BY FirstOfQueue
<1>2. PICK r \in Queues : r = Cat(h, y)
  BY Concats
<1>3. Cat(Cat(p, q), r) = Cat(p, Cat(q, r)) /\ Cat(x, r) \in Queues
  BY Concats
<1>4. Cat(<<>>, Cat(x, r)) = Cat(x, r)
  BY <1>3, Concats
<1> QED
  BY <1>1, <1>2, <1>3, <1>4 DEF Line

LEMMA LineWritten ==
  ASSUME NEW o \in Queues, NEW f \in Queues, NEW x \in Queues, NEW h \in Queues, NEW y \in Queues
  PROVE  Line(Cat(o, f), <<>>, x, h, y) = Line(o, f, x, h, y)
<1>1. PICK r \in Queues : r = Cat(x, Cat(h, y))
  BY Concats
<1>2. Cat(<<>>, r) = r /\ Cat(Cat(o, f), r) = Cat(o, Cat(f, r))
  BY Concats
<1> QED
  BY <1>1, <1>2 DEF Line

LEMMA LinePut ==
  ASSUME NEW x \in Queues, NEW h \in Queues, NEW y \in Queues, NEW o, NEW f
  PROVE  Line(o, f, Cat(x, h), <<>>, y) = Line(o, f, x, h, y)
<1>1. Cat(<<>>, y) = y /\ Cat(Cat(x, h), y) = Cat(x, Cat(h, y))
  BY Concats
<1> QED
  BY <1>1 DEF Line

LEMMA LineTake ==
  ASSUME NEW y \in Queues, y # <<>>, NEW o, NEW f, NEW x
  PROVE  Line(o, f, x, <<Head(y)>>, Tail(y)) = Line(o, f, x, <<>>, y)
<1>1. PICK p, q \in Queues : p = <<Head(y)>> /\ q = Tail(y) /\ Cat(p, q) = y
  BY FirstOfQueue
<1>2. Cat(<<>>, y) = y
  BY Concats
<1> QED
  BY <1>1, <1>2 DEF Line

LEMMA LineAppend ==
  ASSUME NEW o \in Queues, NEW f \in Queues, NEW x \in Queues, NEW h \in Queues,
         NEW y \in Queues, NEW m \in Nat
  PROVE  Line(o, f, x, h, Append(y, m)) = Cat(Line(o, f, x, h, y), <<m>>)
<1>1. PICK l \in Queues : l = <<m>> /\ Append(y, m) = Cat(y, l)
  BY AppendToQueue
<1>2. Cat(h, Cat(y, l)) = Cat(Cat(h, y), l) /\ Cat(h, y) \in Queues
  BY Concats
<1>3. Cat(x, Cat(Cat(h, y), l)) = Cat(Cat(x, Cat(h, y)), l) /\ Cat(x, Cat(h, y)) \in Queues
  BY <1>2, Concats
<1>4. /\ Cat(f, Cat(Cat(x, Cat(h, y)), l)) = Cat(Cat(f, Cat(x, Cat(h, y))), l)
      /\ Cat(f, Cat(x, Cat(h, y))) \in Queues
  BY <1>3, Concats
<1>5. Cat(o, Cat(Cat(f, Cat(x, Cat(h, y))), l)) = Cat(Cat(o, Cat(f, Cat(x, Cat(h, y)))), l)
  BY <1>4, Concats
<1> QED
  BY <1>1, <1>2, <1>3, <1>4, <1>5 DEF Line

(* Without its end, or cut after what was written, a line is still in order. *)
LEMMA LineCut ==
  ASSUME NEW o \in Queues, NEW f \in Queues, NEW x \in Queues, NEW h \in Queues,
         NEW y \in Queues, NEW missed, InOrder(Line(o, f, x, h, y), missed)
  PROVE  InOrder(o, missed) /\ InOrder(Line(o, f, x, <<>>, <<>>), missed)
<1>1. PICK r \in Queues : r = Cat(h, y)
  BY Concats
<1>2. /\ <<>> \in Queues /\ Cat(f, Cat(x, r)) \in Queues /\ Cat(f, x) \in Queues
      /\ Cat(o, Cat(f, x)) \in Queues
  BY Concats
<1>3. InOrder(o, missed)
  BY <1>1, <1>2, PrefixOfQueue DEF Line
<1>4. Line(o, f, x, <<>>, <<>>) = Cat(o, Cat(f, x))
  BY <1>2, Concats DEF Line
<1>5. Cat(f, Cat(x, r)) = Cat(Cat(f, x), r)
  BY Concats
<1>6. Cat(o, Cat(Cat(f, x), r)) = Cat(Cat(o, Cat(f, x)), r)
  BY <1>2, Concats
<1>7. InOrder(Cat(Cat(o, Cat(f, x)), r), missed)
  BY <1>1, <1>5, <1>6 DEF Line
<1> QED
  BY <1>2, <1>3, <1>4, <1>7, PrefixOfQueue

-----------------------------------------------------------------------------
(* The line of a connection; a forwarder that ended hands nothing on. *)
Flow(c) ==
  IF fwd[c] = "ended" THEN Line(out[c], frame[c], ch[c], <<>>, <<>>)
                      ELSE Line(out[c], frame[c], ch[c], hand[c], buf[c])

Hands(c) ==
  /\ pump[c] \in {"none", "open"} => frame[c] = <<>>
  /\ fwd[c] \in {"none", "waiting"} => hand[c] = <<>>
  /\ pump[c] = "none" => fwd[c] = "none"

Ordered(c) ==
  /\ InOrder(Flow(c), lost[c])
  /\ fwd[c] # "ended" => /\ LastOf(Flow(c)) \in 0..sent
                         /\ (LastOf(Flow(c)) + 1)..sent \subseteq lost[c]

QueuesAre(c) ==
  /\ out[c] \in Queues /\ frame[c] \in Queues /\ ch[c] \in Queues
  /\ hand[c] \in Queues /\ buf[c] \in Queues

FlowInv == TypeOK /\ \A c \in Conns : Hands(c) /\ Ordered(c)

LEMMA HaveQueues ==
  ASSUME TypeOK, NEW c \in Conns
  PROVE  QueuesAre(c)
BY TypeParts DEF QueuesOK, QueuesAre, Queues

LEMMA FlowInit == Init => FlowInv
<1> SUFFICES ASSUME Init PROVE FlowInv
  OBVIOUS
<1>1. TypeOK
  BY FeedInit DEF PresenceInv
<1>2. ASSUME NEW c \in Conns
      PROVE  Hands(c) /\ Ordered(c)
  <2>1. /\ out[c] = <<>> /\ frame[c] = <<>> /\ ch[c] = <<>> /\ hand[c] = <<>> /\ buf[c] = <<>>
        /\ fwd[c] = "none" /\ sent = 0
    BY DEF Init
  <2>2. Flow(c) = <<>>
    BY <2>1, Concats DEF Flow, Line
  <2>3. Ordered(c)
    BY <2>1, <2>2 DEF Ordered, InOrder, LastOf
  <2> QED
    BY <2>1, <2>3 DEF Hands
<1> QED
  BY <1>1, <1>2 DEF FlowInv

(* Moving messages along the line changes nothing. *)
LEMMA SameFlow ==
  ASSUME NEW c \in Conns, Ordered(c), Flow(c)' = Flow(c),
         fwd[c] = "ended" => fwd'[c] = "ended",
         sent' = sent, lost'[c] = lost[c]
  PROVE  Ordered(c)'
BY DEF Ordered

LEMMA StillFlow ==
  ASSUME NEW c \in Conns, Hands(c), Ordered(c),
         UNCHANGED <<out[c], frame[c], ch[c], hand[c], buf[c], fwd[c], sent, lost[c]>>,
         pump'[c] = pump[c] \/ pump'[c] \in {"closing", "gone"}
  PROVE  Hands(c)' /\ Ordered(c)'
<1>1. Flow(c)' = Flow(c)
  BY DEF Flow, Line
<1> QED
  BY <1>1, SameFlow DEF Hands

LEMMA ForwarderOrder ==
  ASSUME TypeOK, NEW c \in Conns, Hands(c), Ordered(c), FwdStep(c)
  PROVE  Hands(c)' /\ Ordered(c)'
<1>0. /\ DOMAIN fwd = Conns /\ DOMAIN hand = Conns /\ DOMAIN buf = Conns /\ DOMAIN ch = Conns
  BY DEF TypeOK
<1>q. QueuesAre(c)
  BY HaveQueues
<1>1. CASE Take(c)
  <2>1. /\ fwd[c] = "waiting" /\ buf[c] # <<>> /\ hand[c] = <<>>
        /\ fwd'[c] = "holding" /\ hand'[c] = <<Head(buf[c])>> /\ buf'[c] = Tail(buf[c])
        /\ UNCHANGED <<sent, ch, frame, out, lost, pump>>
    BY <1>0, <1>1 DEF Take, Hands
  <2>2. Flow(c)' = Flow(c)
    BY <1>q, <2>1, LineTake DEF Flow, QueuesAre
  <2> QED
    BY <2>1, <2>2, SameFlow DEF Hands
<1>2. CASE Put(c)
  <2>1. /\ fwd[c] = "holding" /\ fwd'[c] = "waiting"
        /\ hand'[c] = <<>> /\ ch'[c] = Cat(ch[c], hand[c])
        /\ UNCHANGED <<sent, buf, frame, out, lost, pump>>
    BY <1>0, <1>2 DEF Put, Cat
  <2>2. Flow(c)' = Flow(c)
    BY <1>q, <2>1, LinePut DEF Flow, QueuesAre
  <2> QED
    BY <2>1, <2>2, SameFlow DEF Hands
<1>3. CASE FwdEnds(c)
  <2>1. /\ fwd[c] # "ended" /\ fwd[c] # "none" /\ fwd'[c] = "ended"
        /\ UNCHANGED <<ch, frame, out, lost, pump>>
    BY <1>0, <1>3 DEF FwdEnds
  <2>2. InOrder(Line(out[c], frame[c], ch[c], <<>>, <<>>), lost[c])
    BY <1>q, <2>1, LineCut DEF Ordered, Flow, QueuesAre
  <2>3. Flow(c)' = Line(out[c], frame[c], ch[c], <<>>, <<>>)
    BY <2>1 DEF Flow
  <2> QED
    BY <2>1, <2>2, <2>3 DEF Ordered, Hands
<1> QED
  BY <1>1, <1>2, <1>3 DEF FwdStep

LEMMA PumpOrder ==
  ASSUME TypeOK, NEW c \in Conns, Hands(c), Ordered(c), Receive(c) \/ Written(c)
  PROVE  Hands(c)' /\ Ordered(c)'
<1>0. /\ DOMAIN pump = Conns /\ DOMAIN frame = Conns /\ DOMAIN ch = Conns /\ DOMAIN out = Conns
  BY DEF TypeOK
<1>q. QueuesAre(c) /\ <<>> \in Queues
  BY HaveQueues, Concats
<1>1. CASE Receive(c)
  <2>1. /\ pump[c] = "open" /\ ch[c] # <<>> /\ frame[c] = <<>>
        /\ pump'[c] = "writing" /\ frame'[c] = <<Head(ch[c])>> /\ ch'[c] = Tail(ch[c])
        /\ UNCHANGED <<sent, fwd, buf, hand, out, lost>>
    BY <1>0, <1>1 DEF Receive, Hands
  <2>2. Flow(c)' = Flow(c)
    BY <1>q, <2>1, LineReceive DEF Flow, QueuesAre
  <2> QED
    BY <2>1, <2>2, SameFlow DEF Hands
<1>2. CASE Written(c)
  <2>1. /\ pump'[c] = "open" /\ pump[c] = "writing"
        /\ frame'[c] = <<>> /\ out'[c] = Cat(out[c], frame[c])
        /\ UNCHANGED <<sent, fwd, buf, hand, ch, lost>>
    BY <1>0, <1>2 DEF Written, Cat
  <2>2. \A h, y \in Queues : Line(Cat(out[c], frame[c]), <<>>, ch[c], h, y)
                              = Line(out[c], frame[c], ch[c], h, y)
    BY <1>q, LineWritten DEF QueuesAre
  <2>3. Flow(c)' = Flow(c)
    BY <1>q, <2>1, <2>2 DEF Flow, QueuesAre
  <2> QED
    BY <2>1, <2>3, SameFlow DEF Hands
<1> QED
  BY <1>1, <1>2

LEMMA PublishOrder ==
  ASSUME TypeOK, NEW c \in Conns, Hands(c), Ordered(c), Publish
  PROVE  Hands(c)' /\ Ordered(c)'
<1>q. QueuesAre(c)
  BY HaveQueues
<1>1. /\ sent \in Nat /\ sent' = sent + 1
      /\ UNCHANGED <<fwd, hand, ch, frame, out, pump>>
  BY DEF Publish, TypeOK
<1>2. \/ buf'[c] = Append(buf[c], sent') /\ lost'[c] = lost[c]
      \/ buf'[c] = buf[c] /\ lost'[c] = lost[c] \cup {sent'}
  BY DEF Publish
<1>3. Hands(c)'
  BY <1>1 DEF Hands
<1>4. CASE fwd[c] = "ended"
  <2>1. Flow(c)' = Flow(c)
    BY <1>1, <1>4 DEF Flow
  <2>2. InOrder(Flow(c), lost'[c])
    BY <1>2 DEF Ordered, InOrder
  <2> QED
    BY <1>1, <1>3, <1>4, <2>1, <2>2 DEF Ordered
<1>5. CASE fwd[c] # "ended" /\ buf'[c] = Append(buf[c], sent') /\ lost'[c] = lost[c]
  <2>1. Flow(c)' = Cat(Flow(c), <<sent'>>)
    <3>1. sent' \in Nat
      BY <1>1
    <3> QED
      <4>0. PICK m \in Nat : m = sent'
        BY <3>1
      <4>1. Flow(c) = Line(out[c], frame[c], ch[c], hand[c], buf[c])
        BY <1>5 DEF Flow
      <4>2. Flow(c)' = Line(out[c], frame[c], ch[c], hand[c], Append(buf[c], m))
        BY <1>1, <1>5, <4>0 DEF Flow
      <4>3. \A o, f, x, h, y \in Queues :
              Line(o, f, x, h, Append(y, m)) = Cat(Line(o, f, x, h, y), <<m>>)
        BY LineAppend
      <4> QED
        BY <1>q, <4>0, <4>1, <4>2, <4>3 DEF QueuesAre
  <2>2. Flow(c) \in Seq(Nat)
    BY <1>q, <1>5, LineType DEF Flow, QueuesAre, Queues
  <2>3. LastOf(Flow(c)) < sent' /\ (LastOf(Flow(c)) + 1)..(sent' - 1) \subseteq lost[c] /\ sent' \in Nat
    BY <1>1, <1>5 DEF Ordered
  <2>4. InOrder(Flow(c)', lost[c]) /\ LastOf(Flow(c)') = sent'
    BY <2>1, <2>2, <2>3, InOrderAppend DEF Ordered, Cat
  <2>5. sent' \in 0..sent' /\ (sent' + 1)..sent' = {}
    BY <2>3
  <2> QED
    BY <1>3, <1>5, <2>4, <2>5 DEF Ordered, LastOf
<1>6. CASE fwd[c] # "ended" /\ buf'[c] = buf[c] /\ lost'[c] = lost[c] \cup {sent'}
  <2>1. Flow(c)' = Flow(c)
    BY <1>1, <1>6 DEF Flow
  <2>2. InOrder(Flow(c), lost'[c])
    BY <1>6 DEF Ordered, InOrder
  <2>3. LastOf(Flow(c)) \in 0..sent' /\ (LastOf(Flow(c)) + 1)..sent' \subseteq lost'[c]
    BY <1>1, <1>6 DEF Ordered
  <2>4. LastOf(Flow(c))' = LastOf(Flow(c))
    BY <2>1 DEF LastOf
  <2> QED
    BY <1>3, <2>1, <2>2, <2>3, <2>4 DEF Ordered
<1> QED
  BY <1>2, <1>4, <1>5, <1>6

LEMMA ExitOrder ==
  ASSUME TypeOK, NEW c \in Conns, Hands(c), Ordered(c), NEW h \in Hosts, Exit(h)
  PROVE  Hands(c)' /\ Ordered(c)'
<1> DEFINE dead == {d \in Conns : HostOf[d] = h /\ pump[d] # "none" /\ ~Ended(d)}
<1>1. CASE c \in dead
  <2>1. /\ pump'[c] = "gone" /\ fwd'[c] = "ended" /\ frame'[c] = <<>> /\ ch'[c] = <<>>
        /\ UNCHANGED <<out, lost>>
    BY <1>1 DEF Exit
  <2>2. QueuesAre(c) /\ <<>> \in Queues
    BY HaveQueues, Concats
  <2>3. InOrder(out[c], lost[c])
    BY <2>2, LineCut DEF Ordered, Flow, QueuesAre
  <2>4. Flow(c)' = out[c]
    BY <2>1, <2>2, Concats DEF Flow, Line, QueuesAre
  <2> QED
    BY <2>1, <2>3, <2>4 DEF Hands, Ordered
<1>2. CASE c \notin dead
  <2>1. UNCHANGED <<out[c], frame[c], ch[c], hand[c], buf[c], fwd[c], pump[c], sent, lost[c]>>
    BY <1>2 DEF Exit
  <2> QED
    BY <2>1, StillFlow
<1> QED
  BY <1>1, <1>2

LEMMA OrderStep == FlowInv /\ TypeOK' /\ [Next]_vars => FlowInv'
<1> SUFFICES ASSUME FlowInv, TypeOK', [Next]_vars, NEW c \in Conns
             PROVE  Hands(c)' /\ Ordered(c)'
  BY DEF FlowInv
<1>0. TypeOK /\ Hands(c) /\ Ordered(c)
  BY DEF FlowInv
<1>d. /\ DOMAIN pump = Conns /\ DOMAIN frame = Conns /\ DOMAIN ch = Conns /\ DOMAIN out = Conns
      /\ DOMAIN fwd = Conns /\ DOMAIN hand = Conns /\ DOMAIN buf = Conns
  BY <1>0 DEF TypeOK
<1> DEFINE Still == UNCHANGED <<out[c], frame[c], ch[c], hand[c], buf[c], fwd[c], sent, lost[c]>>
<1>1. CASE UNCHANGED vars \/ Tick
  <2>1. Still /\ UNCHANGED pump
    BY <1>1 DEF vars, feed, Tick
  <2> QED
    BY <1>0, <2>1, StillFlow
<1>2. ASSUME NEW d \in Conns, Open(d)
      PROVE  Hands(c)' /\ Ordered(c)'
  <2>1. UNCHANGED <<out, frame, ch, hand, buf, sent, lost>> /\ DOMAIN fwd = Conns /\ DOMAIN pump = Conns
    BY <1>0, <1>2 DEF Open, TypeOK
  <2>2. CASE d # c
    <3>1. Still /\ UNCHANGED pump[c]
      BY <1>2, <2>1, <2>2 DEF Open
    <3> QED
      BY <1>0, <3>1, StillFlow
  <2>3. CASE d = c
    <3>1. pump[c] = "none" /\ fwd[c] = "none" /\ pump'[c] = "open" /\ fwd'[c] = "waiting"
      BY <1>0, <1>2, <2>1, <2>3 DEF Open, Hands
    <3>2. Flow(c)' = Flow(c)
      BY <2>1, <3>1 DEF Flow
    <3> QED
      BY <1>0, <2>1, <3>1, <3>2, SameFlow DEF Hands
  <2> QED
    BY <2>2, <2>3
<1>3. ASSUME NEW d \in Conns,
             \/ PeerCloses(d) \/ Subscribed(d) \/ SubscriptionLost(d) \/ BeatStep(d)
             \/ WriteFails(d) \/ Disconnect(d) \/ DelPresence(d) \/ DelFails(d)
      PROVE  Hands(c)' /\ Ordered(c)'
  <2>1. UNCHANGED <<out, frame, ch, hand, buf, fwd, sent, lost>>
    BY <1>3 DEF PeerCloses, Subscribed, SubscriptionLost, Subscription, BeatStep, SetPresence,
       SetFails, BeatEnds, WriteFails, Disconnect, Close, DelPresence, DelFails, Return, feed
  <2>2. pump'[c] = pump[c] \/ pump'[c] \in {"closing", "gone"}
    <3>1. DOMAIN pump = Conns
      BY <1>0 DEF TypeOK
    <3>2. UNCHANGED pump \/ (\E p \in {"closing", "gone"} : pump' = [pump EXCEPT ![d] = p])
      BY <1>3 DEF PeerCloses, Subscribed, SubscriptionLost, Subscription, BeatStep, SetPresence,
         SetFails, BeatEnds, WriteFails, Disconnect, Close, DelPresence, DelFails, Return
    <3> QED
      BY <3>1, <3>2
  <2> QED
    BY <1>0, <2>1, <2>2, StillFlow
<1>4. ASSUME NEW d \in Conns, FwdStep(d) \/ Receive(d) \/ Written(d)
      PROVE  Hands(c)' /\ Ordered(c)'
  <2>1. CASE d = c
    BY <1>0, <1>4, <2>1, ForwarderOrder, PumpOrder
  <2>2. CASE d # c
    <3>1. CASE Receive(d) \/ Written(d)
      <4>1. Still /\ UNCHANGED pump[c]
        BY <1>d, <2>2, <3>1 DEF Receive, Written
      <4> QED
        BY <1>0, <4>1, StillFlow
    <3>2. CASE FwdStep(d)
      <4>1. Still /\ UNCHANGED pump[c]
        BY <1>d, <2>2, <3>2 DEF FwdStep, Take, Put, FwdEnds
      <4> QED
        BY <1>0, <4>1, StillFlow
    <3> QED
      BY <1>4, <3>1, <3>2
  <2> QED
    BY <2>1, <2>2
<1> QED
  BY <1>0, <1>1, <1>2, <1>3, <1>4, PublishOrder, ExitOrder DEF Next, PumpStep

(* Subscribe and the pump of handleWebSocket: whatever is dropped, when, and *)
(* whoever ends first, a socket gets messages in the order of publication,   *)
(* each once, and misses only those published while nothing took them.       *)
THEOREM SocketsGetMessagesInOrder == Spec => []FramesInOrder
<1>1. FlowInv => FramesInOrder
  <2> SUFFICES ASSUME FlowInv, NEW c \in Conns
               PROVE  InOrder(out[c], lost[c])
    BY DEF InOrder, FramesInOrder
  <2>1. QueuesAre(c) /\ Ordered(c) /\ <<>> \in Queues
    BY HaveQueues, Concats DEF FlowInv
  <2> QED
    BY <2>1, LineCut DEF Ordered, Flow, QueuesAre
<1> QED
  BY <1>1, FlowInit, OrderStep, FeedTypes, PTL DEF Spec
=============================================================================
