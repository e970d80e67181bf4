------------------------------- MODULE PubSub -------------------------------
(***************************************************************************)
(* PUBLISH, SUBSCRIBE and UNSUBSCRIBE (pubsub.rs): the table of channels   *)
(* behind a tokio RwLock, a broadcast of bounded capacity per channel, and *)
(* the loop of a subscriber, which select!s between the next message and   *)
(* the next line its client types.                                         *)
(*                                                                         *)
(* A message is its number in its channel.  A socket is the number of      *)
(* replies and messages its client has not read: when it is full,          *)
(* write_all waits.                                                        *)
(***************************************************************************)
EXTENDS Integers, Sequences, FiniteSets

CONSTANTS
  Clients,     \* connections
  Publishers,  \* those that send PUBLISH
  Subscribers, \* and those that send SUBSCRIBE
  Channels,
  Capacity,    \* messages a broadcast channel keeps
  Room,        \* what a socket takes before write_all waits
  Silent,      \* clients that do nothing more, not even read, once subscribed or
               \* while their PUBLISH is being answered
  MaxSent,     \* bound: messages per channel
  NoChannel

ASSUME PubSubAssumption ==
  /\ Capacity \in Nat \ {0} /\ Room \in Nat \ {0}
  /\ Publishers \subseteq Clients /\ Subscribers \subseteq Clients
  /\ Silent \subseteq Clients
  /\ NoChannel \notin Channels

VARIABLES
  table,    \* the channels that have a broadcast::Sender
  sent,     \* messages each broadcast has taken
  queue,    \* who waits for the lock of the table, first come, first served
  pc,       \* where each connection's task is
  chan,     \* the channel of its command
  next,     \* how far its receiver has got in the broadcast
  unread,   \* what its client has still to read from the socket
  typed,    \* what a subscriber's client has typed and the task not read
  half,     \* the client is half way through a line
  line,     \* read_line has the first half of an UNSUBSCRIBE
  left,     \* the client has closed the connection
  since,    \* history: messages sent when the client subscribed
  got       \* history: the messages written to it since

client  == <<unread, typed, half, left>>
history == <<since, got>>
vars    == <<table, sent, queue, pc, chan, next, line, client, history>>

Init ==
  /\ table = {}
  /\ sent = [ch \in Channels |-> 0]
  /\ queue = <<>>
  /\ pc = [c \in Clients |-> "idle"]
  /\ chan = [c \in Clients |-> NoChannel]
  /\ next = [c \in Clients |-> 0]
  /\ unread = [c \in Clients |-> 0]
  /\ typed = [c \in Clients |-> <<>>]
  /\ half = [c \in Clients |-> FALSE]
  /\ line = [c \in Clients |-> FALSE]
  /\ left = [c \in Clients |-> FALSE]
  /\ since = [c \in Clients |-> 0]
  /\ got = [c \in Clients |-> <<>>]

Goto(c, place) == pc' = [pc EXCEPT ![c] = place]

\* the task ends and the connection closes; the next one takes its place
End(c) ==
  /\ Goto(c, "idle")
  /\ chan' = [chan EXCEPT ![c] = NoChannel]
  /\ next' = [next EXCEPT ![c] = 0]
  /\ unread' = [unread EXCEPT ![c] = 0]
  /\ typed' = [typed EXCEPT ![c] = <<>>]
  /\ half' = [half EXCEPT ![c] = FALSE]
  /\ line' = [line EXCEPT ![c] = FALSE]
  /\ left' = [left EXCEPT ![c] = FALSE]
  /\ since' = [since EXCEPT ![c] = 0]
  /\ got' = [got EXCEPT ![c] = <<>>]
  /\ UNCHANGED <<table, sent, queue>>

\* Mutation: the write does not wait.
WriteAnyway(c) ==
  /\ unread' = [unread EXCEPT ![c] = IF left[c] THEN @ ELSE @ + 1]
  /\ UNCHANGED <<typed, half, left>>

\* write_all returns: there was room, or the client is not there any more
Write(c) ==
  /\ left[c] \/ unread[c] < Room
  /\ unread' = [unread EXCEPT ![c] = IF left[c] THEN @ ELSE @ + 1]
  /\ UNCHANGED <<typed, half, left>>

Loop == {"select", "push", "bye"}
Subscribed(c) == pc[c] \in Loop \cup {"ack"}
Receivers(ch) == {c \in Clients : Subscribed(c) /\ chan[c] = ch}

Heeds(c) == c \notin Silent \/ ~(Subscribed(c) \/ pc[c] = "reply")

Asking(ch) == {c \in Clients : pc[c] = "wantread" /\ chan[c] = ch}

-----------------------------------------------------------------------------
(* PUBLISH.                                                                *)

AskPublish(c, ch) ==
  /\ pc[c] = "idle" /\ c \in Publishers
  /\ sent[ch] + Cardinality(Asking(ch)) < MaxSent
  /\ Goto(c, "wantread")
  /\ chan' = [chan EXCEPT ![c] = ch]
  /\ queue' = Append(queue, c)
  /\ UNCHANGED <<table, sent, next, line, client, history>>

\* Mutation: a lock that lets readers past a waiting writer.
PublishOvertakes(c) ==
  /\ pc[c] = "wantread"
  /\ queue' = SelectSeq(queue, LAMBDA d : d # c)
  /\ sent' = IF chan[c] \in table /\ Receivers(chan[c]) # {}
             THEN [sent EXCEPT ![chan[c]] = @ + 1] ELSE sent
  /\ Goto(c, "reply")
  /\ UNCHANGED <<table, chan, next, line, client, history>>

\* pubsub.read().await returns; send() takes the message if it has a receiver
Publish(c) ==
  /\ queue # <<>> /\ c = Head(queue) /\ pc[c] = "wantread"
  /\ queue' = Tail(queue)
  /\ sent' = IF chan[c] \in table /\ Receivers(chan[c]) # {}
             THEN [sent EXCEPT ![chan[c]] = @ + 1] ELSE sent
  /\ Goto(c, "reply")
  /\ UNCHANGED <<table, chan, next, line, client, history>>

\* the guard lives until handle_publish has written its reply
ReadsTable(c) == pc[c] = "reply"

Reply(c) ==
  /\ pc[c] = "reply"
  /\ Write(c)
  /\ Goto(c, "idle")
  /\ chan' = [chan EXCEPT ![c] = NoChannel]
  /\ UNCHANGED <<table, sent, queue, next, line, history>>

-----------------------------------------------------------------------------
(* SUBSCRIBE.                                                              *)

AskSubscribe(c, ch) ==
  /\ pc[c] = "idle" /\ c \in Subscribers
  /\ Goto(c, "wantwrite")
  /\ chan' = [chan EXCEPT ![c] = ch]
  /\ queue' = Append(queue, c)
  /\ UNCHANGED <<table, sent, next, line, client, history>>

\* Mutation: the receiver starts with what the broadcast still holds.
SubscribeToOld(c) ==
  /\ queue # <<>> /\ c = Head(queue) /\ pc[c] = "wantwrite"
  /\ \A d \in Clients : ~ReadsTable(d)
  /\ queue' = Tail(queue)
  /\ table' = table \cup {chan[c]}
  /\ next' = [next EXCEPT ![c] = IF sent[chan[c]] > Capacity THEN sent[chan[c]] - Capacity ELSE 0]
  /\ Goto(c, "ack")
  /\ since' = [since EXCEPT ![c] = sent[chan[c]]]
  /\ got' = [got EXCEPT ![c] = <<>>]
  /\ UNCHANGED <<sent, chan, line, client>>

\* the write lock is held for the entry and sender.subscribe() only
Subscribe(c) ==
  /\ queue # <<>> /\ c = Head(queue) /\ pc[c] = "wantwrite"
  /\ \A d \in Clients : ~ReadsTable(d)
  /\ queue' = Tail(queue)
  /\ table' = table \cup {chan[c]}
  /\ next' = [next EXCEPT ![c] = sent[chan[c]]]
  /\ Goto(c, "ack")
  /\ since' = [since EXCEPT ![c] = sent[chan[c]]]
  /\ got' = [got EXCEPT ![c] = <<>>]
  /\ UNCHANGED <<sent, chan, line, client>>

Ack(c) ==
  /\ pc[c] = "ack"
  /\ Write(c)
  /\ Goto(c, "select")
  /\ UNCHANGED <<table, sent, queue, chan, next, line, history>>

\* both branches of select! end an iteration, and `line` with it
Behind(c) == sent[chan[c]] - next[c]

\* Mutation: half a line stops the messages.
ReceiveBetweenLines(c) ==
  /\ pc[c] = "select" /\ Behind(c) \in 1 .. Capacity /\ ~line[c]
  /\ next' = [next EXCEPT ![c] = @ + 1]
  /\ Goto(c, "push")
  /\ UNCHANGED <<table, sent, queue, chan, line, client, history>>

Receive(c) ==
  /\ pc[c] = "select" /\ Behind(c) \in 1 .. Capacity
  /\ next' = [next EXCEPT ![c] = @ + 1]
  /\ line' = [line EXCEPT ![c] = FALSE]
  /\ Goto(c, "push")
  /\ UNCHANGED <<table, sent, queue, chan, client, history>>

\* Mutation: a receiver that lags is moved to the end of the broadcast.
LagToEnd(c) ==
  /\ pc[c] = "select" /\ Behind(c) > Capacity
  /\ next' = [next EXCEPT ![c] = sent[chan[c]]]
  /\ line' = [line EXCEPT ![c] = FALSE]
  /\ UNCHANGED <<table, sent, queue, pc, chan, client, history>>

\* RecvError::Lagged: the receiver stands at the oldest message still kept
Lag(c) ==
  /\ pc[c] = "select" /\ Behind(c) > Capacity
  /\ next' = [next EXCEPT ![c] = sent[chan[c]] - Capacity]
  /\ line' = [line EXCEPT ![c] = FALSE]
  /\ UNCHANGED <<table, sent, queue, pc, chan, client, history>>

\* the payload is written, be it only to the kernel when the client has left
Push(c) ==
  /\ pc[c] = "push"
  /\ Write(c)
  /\ Goto(c, "select")
  /\ got' = [got EXCEPT ![c] = Append(@, next[c])]
  /\ UNCHANGED <<table, sent, queue, chan, next, line, since>>

\* write_all fails
PushFails(c) == pc[c] = "push" /\ left[c] /\ End(c)

-----------------------------------------------------------------------------
(* What a subscriber types.  read_line gives up the task between the two   *)
(* halves of a line that comes in two pieces, never within one.            *)

\* Mutation: UNSUBSCRIBE is read, and the loop goes on.
HearAndStay(c) ==
  /\ pc[c] = "select" /\ typed[c] # <<>>
  /\ typed' = [typed EXCEPT ![c] = Tail(@)]
  /\ line' = [line EXCEPT ![c] = (Head(typed[c]) = "half")]
  /\ UNCHANGED <<table, sent, queue, pc, chan, next, unread, half, left, history>>

Hear(c) ==
  /\ pc[c] = "select" /\ typed[c] # <<>>
  /\ typed' = [typed EXCEPT ![c] = Tail(@)]
  /\ line' = [line EXCEPT ![c] = (Head(typed[c]) = "half")]
  /\ IF Head(typed[c]) = "line" \/ (Head(typed[c]) = "rest" /\ line[c])
     THEN Goto(c, "bye") ELSE UNCHANGED pc
  /\ UNCHANGED <<table, sent, queue, chan, next, unread, half, left, history>>

\* the acknowledgement of UNSUBSCRIBE is written, the connection is closed
Bye(c) == pc[c] = "bye" /\ (left[c] \/ unread[c] < Room) /\ End(c)

\* read_line or read_resp answers Ok(0) or an error: the client has left, or
\* the line a subscriber has typed is not UTF-8.
Disconnect(c) ==
  /\ \/ pc[c] \in {"idle", "select"} /\ left[c]
     \/ pc[c] = "select" /\ Heeds(c)
  /\ End(c)

-----------------------------------------------------------------------------
(* The clients.                                                            *)

Read(c) ==
  /\ Heeds(c) /\ unread[c] > 0
  /\ unread' = [unread EXCEPT ![c] = @ - 1]
  /\ UNCHANGED <<table, sent, queue, pc, chan, next, line, typed, half, left, history>>

\* an UNSUBSCRIBE in one piece or two; one piece at a time is on its way
Type(c, piece) ==
  /\ ~left[c] /\ Heeds(c) /\ Subscribed(c) /\ typed[c] = <<>>
  /\ half[c] = (piece = "rest")
  /\ typed' = [typed EXCEPT ![c] = <<piece>>]
  /\ half' = [half EXCEPT ![c] = (piece = "half")]
  /\ UNCHANGED <<table, sent, queue, pc, chan, next, line, unread, left, history>>

\* What the client has not read by then is gone.  A task that waits for the
\* table notices nothing: as if the client had left when it gets the lock.
Leave(c) ==
  /\ ~left[c] /\ Heeds(c) /\ (pc[c] = "reply" \/ Subscribed(c))
  /\ left' = [left EXCEPT ![c] = TRUE]
  /\ unread' = [unread EXCEPT ![c] = 0]
  /\ half' = [half EXCEPT ![c] = FALSE]
  /\ UNCHANGED <<table, sent, queue, pc, chan, next, line, typed, history>>

-----------------------------------------------------------------------------

TaskStep(c) ==
  \/ \E ch \in Channels : AskPublish(c, ch) \/ AskSubscribe(c, ch)
  \/ Publish(c) \/ Reply(c) \/ Subscribe(c) \/ Ack(c)
  \/ Receive(c) \/ Lag(c) \/ Push(c) \/ PushFails(c) \/ Hear(c) \/ Bye(c) \/ Disconnect(c)

ClientStep(c) ==
  Read(c) \/ Leave(c) \/ \E piece \in {"half", "rest", "line"} : Type(c, piece)

Next == \E c \in Clients : TaskStep(c) \/ ClientStep(c)

Spec == Init /\ [][Next]_vars

(***************************************************************************)
(* Fairness.  Ready tasks are polled, and the lock goes to its waiters in  *)
(* turn: weak fairness.  select! polls its branches in a random order, so  *)
(* neither is passed over for ever: strong fairness.  A client reads its   *)
(* socket as long as it is not one of the Silent who has fallen silent.    *)
(***************************************************************************)
Step(c) == Publish(c) \/ Reply(c) \/ Subscribe(c) \/ Ack(c) \/ Push(c) \/ PushFails(c) \/ Bye(c)

TaskFairness(c) ==
  WF_vars(Step(c)) /\ SF_vars(Receive(c) \/ Lag(c)) /\ SF_vars(Hear(c) \/ (left[c] /\ Disconnect(c)))

ClientFairness(c) == WF_vars(Read(c))

FairSpec == Spec /\ \A c \in Clients : TaskFairness(c) /\ ClientFairness(c)

-----------------------------------------------------------------------------

TypesOK ==
  /\ table \subseteq Channels
  /\ sent \in [Channels -> Nat]
  /\ queue \in Seq(Clients)
  /\ pc \in [Clients -> {"idle", "wantread", "reply", "wantwrite", "ack"} \cup Loop]
  /\ chan \in [Clients -> Channels \cup {NoChannel}]
  /\ \A c \in Clients : pc[c] # "idle" => chan[c] \in Channels
  /\ next \in [Clients -> Nat]
  /\ unread \in [Clients -> 0 .. Room]
  /\ typed \in [Clients -> Seq({"half", "rest", "line"})]
  /\ half \in [Clients -> BOOLEAN]
  /\ line \in [Clients -> BOOLEAN]
  /\ left \in [Clients -> BOOLEAN]
  /\ since \in [Clients -> Nat]
  /\ got \in [Clients -> Seq(Nat)]

QueueOK ==
  /\ \A i, j \in DOMAIN queue : queue[i] = queue[j] => i = j
  /\ \A c \in Clients :
       pc[c] \in {"wantread", "wantwrite"} <=> \E i \in DOMAIN queue : queue[i] = c

(***************************************************************************)
(* The types and the room in a socket; and the lock's queue holds exactly  *)
(* the tasks that wait for the table, each once.                           *)
(***************************************************************************)
TypeOK == TypesOK /\ QueueOK

Heard(c) == IF got[c] = <<>> THEN since[c] ELSE got[c][Len(got[c])]

(***************************************************************************)
(* A subscriber's receiver is never ahead of the broadcast, and what it    *)
(* has passed over since the last message it wrote, the one in hand apart, *)
(* is no longer kept: Lagged, on which the loop goes on silently, is the   *)
(* only way to miss a message (pubsub.rs 54-71).                           *)
(***************************************************************************)
OnlyOverwrittenMissed ==
  \A c \in Clients : Subscribed(c) =>
    LET inHand == IF pc[c] = "push" THEN 1 ELSE 0
    IN /\ Heard(c) <= next[c] - inHand /\ next[c] <= sent[chan[c]]
       /\ \A n \in Heard(c) + 1 .. next[c] - inHand : n + Capacity <= sent[chan[c]]

(***************************************************************************)
(* Every step is one that Feed allows: members of a channel hear what is   *)
(* published after they joined, in order, once, and with no gaps but those *)
(* of a reader too slow for the channel's capacity.                        *)
(***************************************************************************)
Members == [c \in Clients |-> IF Subscribed(c) THEN chan[c] ELSE NoChannel]

Abstract == INSTANCE Feed
  WITH posted <- sent, member <- Members, joined <- since, heard <- got

ImplementsFeed == Abstract!Spec

\* d does not read, and its PUBLISH keeps the table locked with the reply unwritten
Stuck(d) == pc[d] = "reply" /\ ~Heeds(d) /\ unread[d] = Room

\* behind it waits a SUBSCRIBE, which c is, or which c has to let go first
Jammed(c) ==
  /\ \E d \in Clients : Stuck(d)
  /\ \E i, j \in DOMAIN queue : i <= j /\ pc[queue[i]] = "wantwrite" /\ queue[j] = c

(***************************************************************************)
(* Who asks for the table of channels gets it, unless a publisher that has *)
(* stopped reading holds it and a SUBSCRIBE is c's or ahead of c: other    *)
(* PUBLISHes pass such a publisher, and a subscriber who is stuck in       *)
(* write_all is in nobody's way: it holds no lock (pubsub.rs 19-42).       *)
(***************************************************************************)
TableServed ==
  \A c \in Clients :
    pc[c] \in {"wantread", "wantwrite"} ~> pc[c] \in {"reply", "ack"} \/ Jammed(c)

(***************************************************************************)
(* A subscriber that reads its socket is brought up to every message,      *)
(* whatever it types and whoever else does not read.                       *)
(***************************************************************************)
Delivered ==
  \A c \in Subscribers \ Silent : \A ch \in Channels : \A n \in 1 .. MaxSent :
    Subscribed(c) /\ chan[c] = ch /\ since[c] < n /\ n <= sent[ch]
      ~> ~Subscribed(c) \/ next[c] >= n

(***************************************************************************)
(* An UNSUBSCRIBE that comes in one piece ends the subscription of a       *)
(* client that reads, however many messages come meanwhile.  One in two    *)
(* pieces may be lost with `line`: see Hear (pubsub.rs 51, 74-88).         *)
(***************************************************************************)
UnsubscribeHeard ==
  \A c \in Subscribers \ Silent : Subscribed(c) /\ typed[c] = <<"line">> ~> ~Subscribed(c)
=============================================================================
