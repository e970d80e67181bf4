---------------------------- MODULE PubSubProofs ----------------------------
(***************************************************************************)
(* What holds of PUBLISH and SUBSCRIBE for any clients, channels, capacity *)
(* and room in the sockets.                                                *)
(***************************************************************************)
EXTENDS PubSub, TLAPS

USE PubSubAssumption

-----------------------------------------------------------------------------
(* Types.  The variables of the tasks, of the clients and of the history   *)
(* are taken in turn: few actions touch them all.                          *)

TaskTypes ==
  /\ pc \in [Clients -> {"idle", "wantread", "reply", "wantwrite", "ack"} \cup Loop]
  /\ chan \in [Clients -> Channels \cup {NoChannel}]
  /\ \A c \in Clients : pc[c] # "idle" => chan[c] \in Channels

TableTypes ==
  /\ table \subseteq Channels
  /\ sent \in [Channels -> Nat]
  /\ queue \in Seq(Clients)

ReceiverTypes ==
  /\ next \in [Clients -> Nat]
  /\ since \in [Clients -> Nat]
  /\ got \in [Clients -> Seq(Nat)]

ClientTypes ==
  /\ unread \in [Clients -> 0 .. Room]
  /\ typed \in [Clients -> Seq({"half", "rest", "line"})]
  /\ half \in [Clients -> BOOLEAN]
  /\ line \in [Clients -> BOOLEAN]
  /\ left \in [Clients -> BOOLEAN]

LEMMA TypesInParts == TypesOK <=> TaskTypes /\ TableTypes /\ ReceiverTypes /\ ClientTypes
  BY DEF TypesOK, TaskTypes, TableTypes, ReceiverTypes, ClientTypes

LEMMA AppendType ==
  ASSUME NEW S, NEW s \in Seq(S), NEW x \in S PROVE Append(s, x) \in Seq(S)
  OBVIOUS

LEMMA TaskTypesStep ==
  ASSUME TypesOK, NEW c \in Clients, TaskStep(c) \/ ClientStep(c)
  PROVE  TaskTypes'
<1> USE DEF TypesOK, TaskTypes, Loop, Goto, client, history
<1>1. ASSUME NEW ch \in Channels, AskPublish(c, ch) \/ AskSubscribe(c, ch) PROVE TaskTypes'
  <2>1. CASE AskPublish(c, ch)
    BY <2>1 DEF AskPublish
  <2>2. CASE AskSubscribe(c, ch)
    BY <2>2 DEF AskSubscribe
  <2> QED BY <1>1, <2>1, <2>2
<1>2. CASE Publish(c)
  BY <1>2 DEF Publish
<1>3. CASE Subscribe(c)
  BY <1>3 DEF Subscribe
<1>4. CASE Reply(c)
  BY <1>4 DEF Reply
<1>5. CASE Ack(c)
  BY <1>5 DEF Ack
<1>6. CASE Push(c)
  BY <1>6 DEF Push
<1>7. CASE Receive(c)
  BY <1>7 DEF Receive
<1>8. CASE Lag(c)
  BY <1>8 DEF Lag
<1>9. CASE Hear(c)
  <2>1. pc' \in {[pc EXCEPT ![c] = "bye"], pc} /\ chan' = chan
    BY <1>9 DEF Hear
  <2>2. pc[c] = "select" /\ chan[c] \in Channels
    BY <1>9 DEF Hear
  <2>3. CASE pc' = pc
    BY <2>1, <2>3
  <2>4. CASE pc' = [pc EXCEPT ![c] = "bye"]
    BY <2>1, <2>2, <2>4
  <2> QED BY <2>1, <2>3, <2>4
<1>10. CASE PushFails(c) \/ Bye(c) \/ Disconnect(c)
  <2>1. End(c)
    BY <1>10 DEF PushFails, Bye, Disconnect
  <2> QED BY <2>1 DEF End
<1>11. CASE ClientStep(c)
  BY <1>11 DEF ClientStep, Read, Leave, Type
<1> QED BY <1>1, <1>2, <1>3, <1>4, <1>5, <1>6, <1>7, <1>8, <1>9, <1>10, <1>11 DEF TaskStep

LEMMA TableTypesStep ==
  ASSUME TypesOK, NEW c \in Clients, TaskStep(c) \/ ClientStep(c)
  PROVE  TableTypes'
<1> USE DEF TypesOK, TableTypes
<1>1. ASSUME NEW ch \in Channels, AskPublish(c, ch) \/ AskSubscribe(c, ch) PROVE TableTypes'
  <2>1. queue' = Append(queue, c) /\ UNCHANGED <<table, sent>>
    BY <1>1 DEF AskPublish, AskSubscribe
  <2>2. Append(queue, c) \in Seq(Clients)
    OBVIOUS
  <2> QED BY <2>1, <2>2
<1>2. CASE Publish(c)
  <2>1. queue' \in Seq(Clients) /\ table' = table
    <3>1. queue # <<>> /\ queue' = Tail(queue) /\ table' = table
      BY <1>2 DEF Publish
    <3>2. queue \in Seq(Clients)
      OBVIOUS
    <3> QED BY <3>1, <3>2
  <2>2. chan[c] \in Channels
    BY <1>2 DEF Publish, Loop
  <2>3. sent' \in [Channels -> Nat]
    <3>1. sent' = sent \/ sent' = [sent EXCEPT ![chan[c]] = @ + 1]
      BY <1>2 DEF Publish
    <3>2. sent \in [Channels -> Nat]
      OBVIOUS
    <3>3. [sent EXCEPT ![chan[c]] = @ + 1] \in [Channels -> Nat]
      BY <2>2, <3>2
    <3> QED BY <3>1, <3>2, <3>3
  <2> QED BY <2>1, <2>3
<1>3. CASE Subscribe(c)
  <2>1. queue' \in Seq(Clients) /\ sent' = sent
    BY <1>3 DEF Subscribe
  <2>2. table' \subseteq Channels
    BY <1>3 DEF Subscribe, Loop
  <2> QED BY <2>1, <2>2
<1>4. CASE Reply(c) \/ Ack(c) \/ Push(c)
  BY <1>4 DEF Reply, Ack, Push
<1>5. CASE Receive(c) \/ Lag(c) \/ Hear(c)
  BY <1>5 DEF Receive, Lag, Hear
<1>6. CASE PushFails(c) \/ Bye(c) \/ Disconnect(c)
  BY <1>6 DEF PushFails, Bye, Disconnect, End
<1>7. CASE ClientStep(c)
  BY <1>7 DEF ClientStep, Read, Leave, Type
<1> QED BY <1>1, <1>2, <1>3, <1>4, <1>5, <1>6, <1>7 DEF TaskStep

LEMMA ReceiverTypesStep ==
  ASSUME TypesOK, NEW c \in Clients, TaskStep(c) \/ ClientStep(c)
  PROVE  ReceiverTypes'
<1> USE DEF TypesOK, ReceiverTypes, history
<1>1. ASSUME NEW ch \in Channels, AskPublish(c, ch) \/ AskSubscribe(c, ch) PROVE ReceiverTypes'
  BY <1>1 DEF AskPublish, AskSubscribe
<1>2. CASE Publish(c) \/ Reply(c) \/ Ack(c) \/ Hear(c)
  BY <1>2 DEF Publish, Reply, Ack, Hear
<1>3. CASE Subscribe(c)
  <2>1. sent[chan[c]] \in Nat
    BY <1>3 DEF Subscribe, Loop
  <2>2. <<>> \in Seq(Nat)
    OBVIOUS
  <2> QED BY <1>3, <2>1, <2>2 DEF Subscribe
<1>4. CASE Push(c)
  <2>1. next[c] \in Nat /\ got[c] \in Seq(Nat)
    BY DEF TypesOK
  <2>2. Append(got[c], next[c]) \in Seq(Nat)
    BY <2>1, AppendType
  <2> QED BY <1>4, <2>2 DEF Push
<1>5. CASE Receive(c)
  BY <1>5 DEF Receive
<1>6. CASE Lag(c)
  <2>1. sent[chan[c]] \in Nat /\ next[c] \in Nat
    BY <1>6 DEF Lag, Loop
  <2>2. sent[chan[c]] - Capacity \in Nat
    BY <1>6, <2>1 DEF Lag, Behind
  <2> QED BY <1>6, <2>2 DEF Lag
<1>7. CASE PushFails(c) \/ Bye(c) \/ Disconnect(c)
  <2>1. End(c)
    BY <1>7 DEF PushFails, Bye, Disconnect
  <2>2. <<>> \in Seq(Nat)
    OBVIOUS
  <2> QED BY <2>1, <2>2 DEF End
<1>8. CASE ClientStep(c)
  BY <1>8 DEF ClientStep, Read, Leave, Type
<1> QED BY <1>1, <1>2, <1>3, <1>4, <1>5, <1>6, <1>7, <1>8 DEF TaskStep

LEMMA ClientTypesStep ==
  ASSUME TypesOK, NEW c \in Clients, TaskStep(c) \/ ClientStep(c)
  PROVE  ClientTypes'
<1> USE DEF TypesOK, ClientTypes, client
<1>1. ASSUME NEW ch \in Channels, AskPublish(c, ch) \/ AskSubscribe(c, ch) PROVE ClientTypes'
  BY <1>1 DEF AskPublish, AskSubscribe
<1>2. CASE Publish(c) \/ Subscribe(c) \/ Receive(c) \/ Lag(c)
  BY <1>2 DEF Publish, Subscribe, Receive, Lag
<1>3. CASE Reply(c) \/ Ack(c) \/ Push(c)
  <2>1. Write(c) /\ line' = line
    BY <1>3 DEF Reply, Ack, Push
  <2>2. unread[c] < Room => unread[c] + 1 \in 0 .. Room
    OBVIOUS
  <2>3. unread' \in [Clients -> 0 .. Room]
    BY <2>1, <2>2 DEF Write
  <2> QED BY <2>1, <2>3 DEF Write
<1>4. CASE Hear(c)
  <2>1. typed[c] \in Seq({"half", "rest", "line"}) /\ typed[c] # <<>>
    BY <1>4 DEF Hear
  <2>2. Tail(typed[c]) \in Seq({"half", "rest", "line"})
    BY <2>1
  <2>3. typed' = [typed EXCEPT ![c] = Tail(@)] /\ UNCHANGED <<unread, half, left>>
    BY <1>4 DEF Hear
  <2>4. line' \in [Clients -> BOOLEAN]
    BY <1>4 DEF Hear
  <2> QED BY <2>2, <2>3, <2>4
<1>5. CASE PushFails(c) \/ Bye(c) \/ Disconnect(c)
  <2>1. End(c)
    BY <1>5 DEF PushFails, Bye, Disconnect
  <2>2. 0 \in 0 .. Room /\ <<>> \in Seq({"half", "rest", "line"})
    OBVIOUS
  <2> QED BY <2>1, <2>2 DEF End
<1>6. CASE Read(c)
  <2>1. unread[c] > 0 => unread[c] - 1 \in 0 .. Room
    OBVIOUS
  <2> QED BY <1>6, <2>1 DEF Read
<1>7. CASE Leave(c)
  BY <1>7 DEF Leave
<1>8. ASSUME NEW piece \in {"half", "rest", "line"}, Type(c, piece) PROVE ClientTypes'
  <2>1. typed' = [typed EXCEPT ![c] = <<piece>>] /\ UNCHANGED <<unread, line, left>>
    BY <1>8 DEF Type
  <2>2. half' \in [Clients -> BOOLEAN]
    BY <1>8 DEF Type
  <2>3. <<piece>> \in Seq({"half", "rest", "line"})
    OBVIOUS
  <2> QED BY <2>1, <2>2, <2>3
<1> QED BY <1>1, <1>2, <1>3, <1>4, <1>5, <1>6, <1>7, <1>8 DEF TaskStep, ClientStep

LEMMA TypesStep == TypesOK /\ [Next]_vars => TypesOK'
<1> SUFFICES ASSUME TypesOK, [Next]_vars PROVE TypesOK'
  OBVIOUS
<1>1. CASE UNCHANGED vars
  BY <1>1 DEF TypesOK, vars, client, history
<1>2. ASSUME NEW c \in Clients, TaskStep(c) \/ ClientStep(c) PROVE TypesOK'
  <2>1. TaskTypes' /\ TableTypes' /\ ReceiverTypes' /\ ClientTypes'
    BY <1>2, TaskTypesStep, TableTypesStep, ReceiverTypesStep, ClientTypesStep
  <2> QED BY <2>1 DEF TypesOK, TaskTypes, TableTypes, ReceiverTypes, ClientTypes
<1> QED BY <1>1, <1>2 DEF Next

-----------------------------------------------------------------------------
(* The queue of the lock.                                                  *)

Waits(c) == pc[c] \in {"wantread", "wantwrite"}

LEMMA QueueTail ==
  ASSUME NEW c \in Clients, queue \in Seq(Clients), QueueOK,
         queue # <<>>, c = Head(queue), queue' = Tail(queue),
         ~Waits(c)', \A d \in Clients \ {c} : Waits(d)' <=> Waits(d)
  PROVE  QueueOK'
<1>1. /\ Len(queue) \in Nat \ {0} /\ DOMAIN queue = 1 .. Len(queue)
      /\ DOMAIN queue' = 1 .. Len(queue) - 1
      /\ \A i \in DOMAIN queue' : i + 1 \in DOMAIN queue /\ queue'[i] = queue[i + 1]
  OBVIOUS
<1>2. 1 \in DOMAIN queue /\ queue[1] = c
  BY <1>1
<1>3. \A i, j \in DOMAIN queue' : queue'[i] = queue'[j] => i = j
  BY <1>1 DEF QueueOK
<1>4. ~\E i \in DOMAIN queue' : queue'[i] = c
  BY <1>1, <1>2 DEF QueueOK
<1>5. ASSUME NEW d \in Clients \ {c} PROVE Waits(d)' <=> \E i \in DOMAIN queue' : queue'[i] = d
  <2>1. Waits(d) <=> \E i \in DOMAIN queue : queue[i] = d
    BY DEF QueueOK, Waits
  <2>2. ASSUME NEW i \in DOMAIN queue, queue[i] = d PROVE i - 1 \in DOMAIN queue' /\ queue'[i - 1] = d
    BY <1>1, <1>2, <2>2
  <2> QED BY <1>1, <2>1, <2>2
<1> QED BY <1>3, <1>4, <1>5 DEF QueueOK, Waits

LEMMA QueueStep == TypesOK /\ QueueOK /\ [Next]_vars => QueueOK'
<1> SUFFICES ASSUME TypesOK, QueueOK, [Next]_vars PROVE QueueOK'
  OBVIOUS
<1>0. queue \in Seq(Clients) /\ pc \in [Clients -> {"idle", "wantread", "reply", "wantwrite", "ack"} \cup Loop]
  BY DEF TypesOK
<1>1. CASE UNCHANGED vars
  BY <1>1 DEF QueueOK, vars
<1>2. ASSUME queue' = queue, \A d \in Clients : Waits(d)' <=> Waits(d) PROVE QueueOK'
  BY <1>2 DEF QueueOK, Waits
<1>3. ASSUME NEW c \in Clients, TaskStep(c) \/ ClientStep(c) PROVE QueueOK'
  <2>1. ASSUME NEW ch \in Channels, AskPublish(c, ch) \/ AskSubscribe(c, ch) PROVE QueueOK'
    <3>1. queue' = Append(queue, c) /\ ~Waits(c) /\ Waits(c)'
      BY <1>0, <2>1 DEF AskPublish, AskSubscribe, Goto, Waits
    <3>2. \A d \in Clients \ {c} : Waits(d)' <=> Waits(d)
      BY <1>0, <2>1 DEF AskPublish, AskSubscribe, Goto, Waits
    <3>3. /\ Len(queue) \in Nat /\ DOMAIN queue = 1 .. Len(queue)
          /\ DOMAIN queue' = 1 .. Len(queue) + 1 /\ queue'[Len(queue) + 1] = c
          /\ \A i \in DOMAIN queue : queue'[i] = queue[i]
      BY <1>0, <3>1
    <3>4. \A i \in DOMAIN queue : queue[i] # c
      BY <3>1 DEF QueueOK, Waits
    <3>5. \A i, j \in DOMAIN queue' : queue'[i] = queue'[j] => i = j
      BY <3>3, <3>4 DEF QueueOK
    <3>6. ASSUME NEW d \in Clients \ {c} PROVE Waits(d)' <=> \E i \in DOMAIN queue' : queue'[i] = d
      <4>1. Waits(d) <=> \E i \in DOMAIN queue : queue[i] = d
        BY DEF QueueOK, Waits
      <4> QED BY <3>2, <3>3, <4>1
    <3>7. \E i \in DOMAIN queue' : queue'[i] = c
      BY <3>3
    <3> QED BY <3>1, <3>5, <3>6, <3>7 DEF QueueOK, Waits
  <2>2. CASE Publish(c) \/ Subscribe(c)
    <3>1. queue # <<>> /\ c = Head(queue) /\ queue' = Tail(queue)
      BY <2>2 DEF Publish, Subscribe
    <3>2. ~Waits(c)' /\ \A d \in Clients \ {c} : Waits(d)' <=> Waits(d)
      BY <1>0, <2>2 DEF Publish, Subscribe, Goto, Waits
    <3> QED BY <1>0, <3>1, <3>2, QueueTail
  <2>3. CASE Reply(c) \/ Ack(c) \/ Push(c)
    BY <1>0, <1>2, <2>3 DEF Reply, Ack, Push, Goto, Waits
  <2>4. CASE Receive(c) \/ Lag(c) \/ Hear(c)
    BY <1>0, <1>2, <2>4 DEF Receive, Lag, Hear, Goto, Waits
  <2>5. CASE PushFails(c) \/ Bye(c) \/ Disconnect(c)
    BY <1>0, <1>2, <2>5 DEF PushFails, Bye, Disconnect, End, Goto, Waits
  <2>6. CASE ClientStep(c)
    BY <1>2, <2>6 DEF ClientStep, Read, Leave, Type, Waits
  <2> QED BY <1>3, <2>1, <2>2, <2>3, <2>4, <2>5, <2>6 DEF TaskStep
<1> QED BY <1>1, <1>3 DEF Next

LEMMA TypesInit == Init => TypesOK /\ QueueOK
<1> SUFFICES ASSUME Init PROVE TypesOK /\ QueueOK
  OBVIOUS
<1>1. 0 \in 0 .. Room /\ <<>> \in Seq(Clients) /\ <<>> \in Seq(Nat) /\ <<>> \in Seq({"half", "rest", "line"})
  OBVIOUS
<1> QED BY <1>1 DEF Init, TypesOK, QueueOK, Loop

(***************************************************************************)
(* Every variable keeps its type, no socket holds more than its Room, and  *)
(* the tasks that wait for the table are those in the lock's queue, each   *)
(* once (pubsub.rs 20-45).                                                 *)
(***************************************************************************)
THEOREM TypeCorrect == Spec => []TypeOK
<1>1. Init => TypeOK
  BY TypesInit DEF TypeOK
<1>2. TypeOK /\ [Next]_vars => TypeOK'
  BY TypesStep, QueueStep DEF TypeOK
<1> QED BY <1>1, <1>2, PTL DEF Spec

-----------------------------------------------------------------------------
(* What a subscriber misses.  OnlyOverwrittenMissed is inductive with the  *)
(* types and with Fresh, which the abstract Quit and Join rely on.  A step *)
(* of one client changes nothing of another's but the messages sent.       *)

InHand(c) == IF pc[c] = "push" THEN 1 ELSE 0

Caught(c) ==
  Subscribed(c) =>
    /\ Heard(c) <= next[c] - InHand(c) /\ next[c] <= sent[chan[c]]
    /\ \A n \in Heard(c) + 1 .. next[c] - InHand(c) : n + Capacity <= sent[chan[c]]

Fresh(c) == ~Subscribed(c) => since[c] = 0 /\ got[c] = <<>>

IInv == TypesOK /\ \A c \in Clients : Caught(c) /\ Fresh(c)

LEMMA CaughtIsMissed == (\A c \in Clients : Caught(c)) <=> OnlyOverwrittenMissed
  BY DEF Caught, InHand, OnlyOverwrittenMissed

LEMMA Last ==
  ASSUME NEW s \in Seq(Nat), NEW n \in Nat
  PROVE  Append(s, n) # <<>> /\ Append(s, n)[Len(Append(s, n))] = n
  OBVIOUS

LEMMA HeardType == ASSUME TypesOK, NEW c \in Clients PROVE Heard(c) \in Nat
<1>1. got[c] \in Seq(Nat) /\ since[c] \in Nat
  BY DEF TypesOK
<1>2. got[c] # <<>> => got[c][Len(got[c])] \in Nat
  BY <1>1
<1> QED BY <1>1, <1>2 DEF Heard

LEMMA SentGrows ==
  ASSUME TypesOK, NEW c \in Clients, TaskStep(c) \/ ClientStep(c), NEW ch \in Channels
  PROVE  sent'[ch] \in Nat /\ sent[ch] <= sent'[ch]
<1>1. sent[ch] \in Nat /\ sent \in [Channels -> Nat]
  BY DEF TypesOK
<1>2. CASE sent' = sent
  BY <1>1, <1>2
<1>3. CASE Publish(c)
  <2>1. sent' = sent \/ sent' = [sent EXCEPT ![chan[c]] = @ + 1]
    BY <1>3 DEF Publish
  <2> QED BY <1>1, <2>1
<1>4. sent' = sent \/ Publish(c)
  BY DEF TaskStep, ClientStep, AskPublish, AskSubscribe, Reply, Subscribe, Ack, Receive, Lag,
         Push, PushFails, Hear, Bye, Disconnect, End, Read, Leave, Type
<1> QED BY <1>2, <1>3, <1>4

Still(d) ==
  /\ pc'[d] = pc[d] /\ chan'[d] = chan[d] /\ next'[d] = next[d]
  /\ since'[d] = since[d] /\ got'[d] = got[d]

LEMMA Frame ==
  ASSUME TypesOK, NEW c \in Clients, TaskStep(c) \/ ClientStep(c), NEW d \in Clients \ {c}
  PROVE  Still(d)
<1> USE DEF TypesOK, Goto, history, Still
<1>1. ASSUME NEW ch \in Channels, AskPublish(c, ch) PROVE Still(d)
  BY <1>1 DEF AskPublish
<1>2. ASSUME NEW ch \in Channels, AskSubscribe(c, ch) PROVE Still(d)
  BY <1>2 DEF AskSubscribe
<1>3. CASE Publish(c)
  BY <1>3 DEF Publish
<1>4. CASE Subscribe(c)
  BY <1>4 DEF Subscribe
<1>5. CASE Reply(c)
  BY <1>5 DEF Reply
<1>6. CASE Ack(c)
  BY <1>6 DEF Ack
<1>7. CASE Receive(c)
  BY <1>7 DEF Receive
<1>8. CASE Lag(c)
  BY <1>8 DEF Lag
<1>9. CASE Push(c)
  BY <1>9 DEF Push
<1>10. CASE Hear(c)
  BY <1>10 DEF Hear
<1>11. CASE PushFails(c) \/ Bye(c) \/ Disconnect(c)
  <2>1. End(c)
    BY <1>11 DEF PushFails, Bye, Disconnect
  <2> QED BY <2>1 DEF End
<1>12. CASE ClientStep(c)
  BY <1>12 DEF ClientStep, Read, Leave, Type
<1> QED BY <1>1, <1>2, <1>3, <1>4, <1>5, <1>6, <1>7, <1>8, <1>9, <1>10, <1>11, <1>12 DEF TaskStep

LEMMA OthersCaught ==
  ASSUME IInv, NEW c \in Clients, TaskStep(c) \/ ClientStep(c), NEW d \in Clients \ {c}
  PROVE  Caught(d)' /\ Fresh(d)'
<1>1. TypesOK /\ Caught(d) /\ Fresh(d)
  BY DEF IInv
<1>2. Still(d)
  BY <1>1, Frame
<1>3. Subscribed(d)' = Subscribed(d) /\ Heard(d)' = Heard(d) /\ InHand(d)' = InHand(d)
  BY <1>2 DEF Still, Subscribed, Heard, InHand
<1>4. CASE Subscribed(d)
  <2>1. chan[d] \in Channels
    BY <1>1, <1>4 DEF TypesOK, Subscribed, Loop
  <2>2. sent'[chan[d]] \in Nat /\ sent[chan[d]] \in Nat /\ sent[chan[d]] <= sent'[chan[d]]
    BY <1>1, <2>1, SentGrows DEF TypesOK
  <2>3. Heard(d) \in Nat /\ next[d] \in Nat /\ InHand(d) \in {0, 1} /\ Capacity \in Nat
    BY <1>1, HeardType, PubSubAssumption DEF TypesOK, InHand
  <2> QED BY <1>1, <1>2, <1>3, <1>4, <2>2, <2>3 DEF Still, Caught, Fresh
<1>5. CASE ~Subscribed(d)
  BY <1>1, <1>2, <1>3, <1>5 DEF Still, Caught, Fresh
<1> QED BY <1>4, <1>5

LEMMA OwnCaught ==
  ASSUME IInv, NEW c \in Clients, TaskStep(c) \/ ClientStep(c)
  PROVE  Caught(c)' /\ Fresh(c)'
<1>0. TypesOK /\ Caught(c) /\ Fresh(c)
  BY DEF IInv
<1>a. /\ pc[c] # "idle" => chan[c] \in Channels /\ sent[chan[c]] \in Nat
      /\ next[c] \in Nat /\ Heard(c) \in Nat /\ InHand(c) \in {0, 1} /\ Capacity \in Nat \ {0}
      /\ got[c] \in Seq(Nat)
  BY <1>0, HeardType, PubSubAssumption DEF TypesOK, InHand
<1>1. ASSUME ~Subscribed(c), ~Subscribed(c)', since'[c] = since[c], got'[c] = got[c]
      PROVE  Caught(c)' /\ Fresh(c)'
  BY <1>0, <1>1 DEF Caught, Fresh
<1>2. ASSUME NEW ch \in Channels, AskPublish(c, ch) PROVE Caught(c)' /\ Fresh(c)'
  BY <1>0, <1>1, <1>2 DEF AskPublish, TypesOK, Subscribed, Loop, Goto, history
<1>3. ASSUME NEW ch \in Channels, AskSubscribe(c, ch) PROVE Caught(c)' /\ Fresh(c)'
  BY <1>0, <1>1, <1>3 DEF AskSubscribe, TypesOK, Subscribed, Loop, Goto, history
<1>4. CASE Publish(c)
  BY <1>0, <1>1, <1>4 DEF Publish, TypesOK, Subscribed, Loop, Goto, history
<1>5. CASE Reply(c)
  BY <1>0, <1>1, <1>5 DEF Reply, TypesOK, Subscribed, Loop, Goto, history
<1>6. CASE Subscribe(c)
  <2>1. /\ pc'[c] = "ack" /\ chan' = chan /\ sent' = sent
        /\ next'[c] = sent[chan[c]] /\ since'[c] = sent[chan[c]] /\ got'[c] = <<>>
    BY <1>0, <1>6 DEF Subscribe, TypesOK, Goto
  <2>2. Subscribed(c)' /\ InHand(c)' = 0 /\ Heard(c)' = sent[chan[c]] /\ sent[chan[c]] \in Nat
    BY <1>a, <1>6, <2>1 DEF Subscribe, Subscribed, InHand, Heard
  <2> QED BY <2>1, <2>2 DEF Caught, Fresh
<1>7. CASE Ack(c)
  <2>1. /\ pc[c] = "ack" /\ pc'[c] = "select" /\ chan' = chan /\ sent' = sent
        /\ next' = next /\ since' = since /\ got' = got
    BY <1>0, <1>7 DEF Ack, TypesOK, Goto, history
  <2>2. Subscribed(c) /\ Subscribed(c)' /\ InHand(c) = 0 /\ InHand(c)' = 0 /\ Heard(c)' = Heard(c)
    BY <2>1 DEF Subscribed, Loop, InHand, Heard
  <2> QED BY <1>0, <2>1, <2>2 DEF Caught, Fresh
<1>8. CASE Receive(c)
  <2>1. /\ pc[c] = "select" /\ pc'[c] = "push" /\ chan' = chan /\ sent' = sent
        /\ next'[c] = next[c] + 1 /\ since' = since /\ got' = got /\ sent[chan[c]] - next[c] \in 1 .. Capacity
    BY <1>0, <1>8 DEF Receive, Behind, TypesOK, Goto, history
  <2>2. Subscribed(c) /\ Subscribed(c)' /\ InHand(c) = 0 /\ InHand(c)' = 1 /\ Heard(c)' = Heard(c)
    BY <2>1 DEF Subscribed, Loop, InHand, Heard
  <2> QED BY <1>0, <1>a, <2>1, <2>2 DEF Caught, Fresh
<1>9. CASE Lag(c)
  <2>1. /\ pc[c] = "select" /\ pc' = pc /\ chan' = chan /\ sent' = sent
        /\ next'[c] = sent[chan[c]] - Capacity /\ since' = since /\ got' = got
        /\ sent[chan[c]] - next[c] > Capacity
    BY <1>0, <1>9 DEF Lag, Behind, TypesOK, history
  <2>2. Subscribed(c) /\ Subscribed(c)' /\ InHand(c) = 0 /\ InHand(c)' = 0 /\ Heard(c)' = Heard(c)
    BY <2>1 DEF Subscribed, Loop, InHand, Heard
  <2> QED BY <1>0, <1>a, <2>1, <2>2 DEF Caught, Fresh
<1>10. CASE Push(c)
  <2>1. /\ pc[c] = "push" /\ pc'[c] = "select" /\ chan' = chan /\ sent' = sent
        /\ next' = next /\ since' = since /\ got'[c] = Append(got[c], next[c])
    BY <1>0, <1>10 DEF Push, TypesOK, Goto
  <2>2. Subscribed(c) /\ Subscribed(c)' /\ InHand(c)' = 0 /\ Heard(c)' = next[c]
    BY <1>a, <2>1, Last DEF Subscribed, Loop, InHand, Heard
  <2> QED BY <1>0, <1>a, <2>1, <2>2 DEF Caught, Fresh
<1>11. CASE PushFails(c) \/ Bye(c) \/ Disconnect(c)
  <2>1. End(c)
    BY <1>11 DEF PushFails, Bye, Disconnect
  <2>2. pc'[c] = "idle" /\ since'[c] = 0 /\ got'[c] = <<>>
    BY <1>0, <2>1 DEF End, TypesOK, Goto
  <2> QED BY <2>2 DEF Caught, Fresh, Subscribed, Loop
<1>12. CASE Hear(c)
  <2>1. /\ pc[c] = "select" /\ pc'[c] \in {"select", "bye"} /\ chan' = chan /\ sent' = sent
        /\ next' = next /\ since' = since /\ got' = got
    BY <1>0, <1>12 DEF Hear, TypesOK, Goto, history
  <2>2. Subscribed(c) /\ Subscribed(c)' /\ InHand(c) = 0 /\ InHand(c)' = 0 /\ Heard(c)' = Heard(c)
    BY <2>1 DEF Subscribed, Loop, InHand, Heard
  <2> QED BY <1>0, <2>1, <2>2 DEF Caught, Fresh
<1>13. CASE ClientStep(c)
  <2>1. UNCHANGED <<pc, chan, sent, next, since, got>>
    BY <1>13 DEF ClientStep, Read, Leave, Type, history
  <2>2. Subscribed(c)' = Subscribed(c) /\ InHand(c)' = InHand(c) /\ Heard(c)' = Heard(c)
    BY <2>1 DEF Subscribed, InHand, Heard
  <2> QED BY <1>0, <2>1, <2>2 DEF Caught, Fresh
<1> QED BY <1>2, <1>3, <1>4, <1>5, <1>6, <1>7, <1>8, <1>9, <1>10, <1>11, <1>12, <1>13 DEF TaskStep

LEMMA IInvInit == Init => IInv
<1> SUFFICES ASSUME Init PROVE \A c \in Clients : Caught(c) /\ Fresh(c)
  BY TypesInit DEF IInv
<1> QED BY DEF Init, Caught, Fresh, Subscribed, Loop

LEMMA IInvStep == IInv /\ [Next]_vars => IInv'
<1> SUFFICES ASSUME IInv, [Next]_vars PROVE IInv'
  OBVIOUS
<1>1. TypesOK'
  BY TypesStep DEF IInv
<1>2. CASE UNCHANGED vars
  BY <1>1, <1>2 DEF IInv, vars, history, Caught, Fresh, Subscribed, InHand, Heard
<1>3. ASSUME NEW c \in Clients, TaskStep(c) \/ ClientStep(c), NEW d \in Clients
      PROVE  Caught(d)' /\ Fresh(d)'
  <2>1. CASE d = c
    BY <1>3, <2>1, OwnCaught
  <2>2. CASE d # c
    BY <1>3, <2>2, OthersCaught
  <2> QED BY <2>1, <2>2
<1> QED BY <1>1, <1>2, <1>3 DEF IInv, Next

(***************************************************************************)
(* For any capacity, a subscriber misses no message but one that Capacity  *)
(* newer ones have overwritten, and never gets one out of turn             *)
(* (pubsub.rs 54-71).                                                      *)
(***************************************************************************)
THEOREM NothingElseMissed == Spec => []OnlyOverwrittenMissed
<1>1. IInv => OnlyOverwrittenMissed
  BY CaughtIsMissed DEF IInv
<1> QED BY <1>1, IInvInit, IInvStep, PTL DEF Spec

-----------------------------------------------------------------------------
(* Feed.  Publish to a channel that has receivers is Post, Subscribe is    *)
(* Join, Push is Hear, the end of a subscriber is Quit; nothing else       *)
(* changes the members, or what they have heard.                           *)

Member(c) == IF Subscribed(c) THEN chan[c] ELSE NoChannel

LEMMA MembersStep ==
  ASSUME TypesOK, NEW c \in Clients, TaskStep(c) \/ ClientStep(c)
  PROVE  Members' = [Members EXCEPT ![c] = Member(c)']
<1>1. \A d \in Clients \ {c} : Member(d)' = Member(d)
  BY Frame DEF Still, Member, Subscribed
<1>2. Members = [d \in Clients |-> Member(d)] /\ Members' = [d \in Clients |-> Member(d)']
  BY DEF Members, Member
<1> QED BY <1>1, <1>2

LEMMA IsMember ==
  ASSUME TypesOK, NEW c \in Clients
  PROVE  /\ Members[c] = Member(c)
         /\ Subscribed(c) => Members[c] = chan[c] /\ chan[c] \in Channels /\ chan[c] # NoChannel
         /\ ~Subscribed(c) => Members[c] = NoChannel
  BY PubSubAssumption DEF TypesOK, Members, Member, Subscribed, Loop

LEMMA Stutters ==
  ASSUME TypesOK, NEW c \in Clients, TaskStep(c) \/ ClientStep(c),
         Member(c)' = Member(c), sent' = sent, since' = since, got' = got
  PROVE  UNCHANGED Abstract!vars
<1>1. Members' = [Members EXCEPT ![c] = Members[c]]
  BY MembersStep, IsMember
<1>2. Members' = Members
  BY <1>1 DEF Members
<1> QED BY <1>2 DEF Abstract!vars

LEMMA EndIsQuit ==
  ASSUME IInv, NEW c \in Clients, TaskStep(c), End(c)
  PROVE  [Abstract!Next]_(Abstract!vars)
<1>0. TypesOK /\ Fresh(c) /\ since \in [Clients -> Nat] /\ got \in [Clients -> Seq(Nat)]
  BY DEF IInv, TypesOK
<1>1. /\ sent' = sent /\ ~Subscribed(c)' /\ Member(c)' = NoChannel
      /\ since' = [since EXCEPT ![c] = 0] /\ got' = [got EXCEPT ![c] = <<>>]
  BY <1>0 DEF End, TypesOK, Subscribed, Loop, Goto, Member
<1>2. Members' = [Members EXCEPT ![c] = NoChannel]
  BY <1>0, <1>1, MembersStep
<1>3. CASE Subscribed(c)
  <2>1. Abstract!Quit(c)
    BY <1>0, <1>1, <1>2, <1>3, IsMember DEF Abstract!Quit
  <2> QED BY <2>1 DEF Abstract!Next
<1>4. CASE ~Subscribed(c)
  <2>1. Member(c) = NoChannel /\ since' = since /\ got' = got
    BY <1>0, <1>1, <1>4 DEF Fresh, Member
  <2> QED BY <1>0, <1>1, <2>1, Stutters
<1> QED BY <1>3, <1>4

LEMMA PublishIsPost ==
  ASSUME IInv, NEW c \in Clients, TaskStep(c), Publish(c)
  PROVE  [Abstract!Next]_(Abstract!vars)
<1>0. TypesOK
  BY DEF IInv
<1>1. Member(c)' = Member(c) /\ since' = since /\ got' = got /\ chan[c] \in Channels
  BY <1>0 DEF Publish, TypesOK, Member, Subscribed, Loop, Goto, history
<1>2. CASE chan[c] \in table /\ Receivers(chan[c]) # {}
  <2>1. PICK ch \in Channels : ch = chan[c]
    BY <1>1
  <2>2. PICK d \in Clients : Subscribed(d) /\ chan[d] = ch
    BY <1>2, <2>1 DEF Receivers
  <2>3. sent' = [sent EXCEPT ![ch] = @ + 1]
    BY <1>2, <2>1 DEF Publish
  <2>4. Members' = [Members EXCEPT ![c] = Members[c]]
    BY <1>0, <1>1, MembersStep, IsMember
  <2>5. Members' = Members
    BY <2>4 DEF Members
  <2>6. Abstract!Post(ch)
    BY <1>0, <1>1, <2>2, <2>3, <2>5, IsMember DEF Abstract!Post
  <2> QED BY <2>6 DEF Abstract!Next
<1>3. CASE ~(chan[c] \in table /\ Receivers(chan[c]) # {})
  <2>1. sent' = sent
    BY <1>3 DEF Publish
  <2> QED BY <1>0, <1>1, <2>1, Stutters
<1> QED BY <1>2, <1>3

LEMMA SubscribeIsJoin ==
  ASSUME IInv, NEW c \in Clients, TaskStep(c), Subscribe(c)
  PROVE  Abstract!Next
<1>0. TypesOK
  BY DEF IInv
<1>1. PICK ch \in Channels : ch = chan[c]
  BY <1>0 DEF Subscribe, TypesOK
<1>2. /\ sent' = sent /\ ~Subscribed(c) /\ Member(c)' = ch
      /\ since' = [since EXCEPT ![c] = sent[ch]] /\ got' = [got EXCEPT ![c] = <<>>]
  BY <1>0, <1>1 DEF Subscribe, TypesOK, Subscribed, Loop, Goto, Member
<1>3. Members' = [Members EXCEPT ![c] = ch]
  BY <1>0, <1>2, MembersStep
<1>4. Abstract!Join(c, ch)
  BY <1>0, <1>2, <1>3, IsMember DEF Abstract!Join
<1> QED BY <1>4 DEF Abstract!Next

LEMMA PushIsHear ==
  ASSUME IInv, NEW c \in Clients, TaskStep(c), Push(c)
  PROVE  Abstract!Next
<1>0. TypesOK /\ Caught(c)
  BY DEF IInv
<1>1. /\ pc[c] = "push" /\ sent' = sent /\ since' = since /\ Member(c)' = Member(c)
      /\ got' = [got EXCEPT ![c] = Append(@, next[c])] /\ Subscribed(c) /\ InHand(c) = 1
  BY <1>0 DEF Push, TypesOK, Subscribed, Loop, Goto, Member, InHand
<1>2. Members' = [Members EXCEPT ![c] = Members[c]]
  BY <1>0, <1>1, MembersStep, IsMember
<1>3. Members' = Members
  BY <1>2 DEF Members
<1>4. PICK n \in Nat : n = next[c]
  BY <1>0 DEF TypesOK
<1>5. /\ Members[c] = chan[c] /\ Members[c] # NoChannel /\ sent[Members[c]] \in Nat
      /\ Heard(c) \in Nat /\ Abstract!Latest(c) = Heard(c)
  BY <1>0, <1>1, IsMember, HeardType DEF TypesOK, Abstract!Latest, Heard
<1>6. /\ n \in Heard(c) + 1 .. sent[Members[c]]
      /\ \A k \in Heard(c) + 1 .. n - 1 : k + Capacity <= sent[Members[c]]
  BY <1>0, <1>1, <1>4, <1>5 DEF Caught
<1>7. Abstract!Hear(c)
  BY <1>1, <1>3, <1>4, <1>5, <1>6 DEF Abstract!Hear
<1> QED BY <1>7 DEF Abstract!Next

LEMMA FeedStep == IInv /\ [Next]_vars => [Abstract!Next]_(Abstract!vars)
<1> SUFFICES ASSUME IInv, [Next]_vars PROVE [Abstract!Next]_(Abstract!vars)
  OBVIOUS
<1>0. TypesOK
  BY DEF IInv
<1>1. CASE UNCHANGED vars
  BY <1>1 DEF vars, history, Abstract!vars, Members, Subscribed
<1>2. ASSUME NEW c \in Clients, TaskStep(c) \/ ClientStep(c) PROVE [Abstract!Next]_(Abstract!vars)
  <2>1. ASSUME Subscribed(c)' = Subscribed(c), chan'[c] = chan[c] \/ ~Subscribed(c),
               sent' = sent, since' = since, got' = got
        PROVE  [Abstract!Next]_(Abstract!vars)
    BY <1>0, <1>2, <2>1, Stutters DEF Member
  <2>2. ASSUME NEW ch \in Channels, AskPublish(c, ch) \/ AskSubscribe(c, ch)
        PROVE  [Abstract!Next]_(Abstract!vars)
    BY <1>0, <2>1, <2>2 DEF AskPublish, AskSubscribe, TypesOK, Subscribed, Loop, Goto, history
  <2>3. CASE Reply(c) \/ Ack(c)
    BY <1>0, <2>1, <2>3 DEF Reply, Ack, TypesOK, Subscribed, Loop, Goto, history
  <2>4. CASE Receive(c) \/ Lag(c) \/ Hear(c)
    BY <1>0, <2>1, <2>4 DEF Receive, Lag, Hear, TypesOK, Subscribed, Loop, Goto, history
  <2>5. CASE ClientStep(c)
    BY <2>1, <2>5 DEF ClientStep, Read, Leave, Type, Subscribed, history
  <2>6. ASSUME TaskStep(c), PushFails(c) \/ Bye(c) \/ Disconnect(c)
        PROVE  [Abstract!Next]_(Abstract!vars)
    BY <2>6, EndIsQuit DEF PushFails, Bye, Disconnect
  <2> QED BY <1>2, <2>2, <2>3, <2>4, <2>5, <2>6, PublishIsPost, SubscribeIsJoin, PushIsHear DEF TaskStep
<1> QED BY <1>1, <1>2 DEF Next

LEMMA FeedInit == Init => Abstract!Init
  BY DEF Init, Abstract!Init, Members, Subscribed, Loop

(***************************************************************************)
(* The broadcasts, the table's lock and the loops of the subscribers       *)
(* implement Feed: see ImplementsFeed.                                     *)
(***************************************************************************)
THEOREM FeedImplemented == Spec => ImplementsFeed
<1> QED BY FeedInit, FeedStep, IInvInit, IInvStep, PTL DEF Spec, ImplementsFeed, Abstract!Spec
=============================================================================
