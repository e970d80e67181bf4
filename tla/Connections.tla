----------------------------- MODULE Connections -----------------------------
(***************************************************************************)
(* The accept loop, the registry of clients and the life of a connection's *)
(* task (server.rs): commands are read one at a time, told to the clients  *)
(* in MONITOR, refused or run, and answered through a buffer that the task *)
(* keeps.  The clients send ahead, stop reading, or leave, and an address  *)
(* may come back while the task of its last connection is still there.     *)
(*                                                                         *)
(* A command is known by its kind: "right" and "wrong" are AUTH with that  *)
(* password, "plain" is an arm that answers, "quiet" one that answers too  *)
(* but is told to nobody (MONITOR and a word more: an unknown command),    *)
(* "mute" one that does not answer (RPUSH on another kind of value),       *)
(* "fatal" ends the task in its arm (KEYS with no regular expression, a    *)
(* panic), "broken" before it is told to anyone (an empty line, a          *)
(* malformed array, a long word that cannot be cut at its 15th byte).      *)
(***************************************************************************)
EXTENDS Integers, Sequences, FiniteSets

CONSTANTS
  Addrs,        \* client addresses
  MaxId,        \* bound: connections accepted
  From,         \* the address each connection comes from
  Says,         \* what it may send: a set of sequences of commands
  RequirePass,  \* the server has a password
  Kept,         \* capacity of the broadcast to the MONITOR clients
  Room,         \* what a socket takes before write_all waits
  Silent        \* those whose client does not read once it is in MONITOR

Ids == 1 .. MaxId
Kinds == {"right", "wrong", "plain", "quiet", "mute", "fatal", "broken", "monitor"}
Nobody == 0

ASSUME ConnectionsAssumption ==
  /\ MaxId \in Nat
  /\ From \in [Ids -> Addrs]
  /\ Says \in [Ids -> SUBSET Seq(Kinds)]
  /\ RequirePass \in BOOLEAN
  /\ Kept \in Nat \ {0} /\ Room \in Nat \ {0}

VARIABLES
  accepted,    \* NEXT_CLIENT_ID, less one
  registry,    \* active_clients: the id under each address, or Nobody
  pc,          \* where its task is
  proven,      \* ConnectionState::Authenticated
  asked,       \* the commands it has read
  buffer,      \* write_buffer: number and verdict of each reply in it
  replies,     \* history: the replies written
  feed,        \* commands broadcast while somebody was in MONITOR
  joined,      \* where in the feed a MONITOR's receiver began,
  next,        \* how far it has got,
  transcript,  \* history: and what has been written of it
  unread,      \* what the client has still to read
  left,        \* the client is gone
  met          \* history: came when an older connection had its address

conns   == <<accepted, registry, met>>
talk    == <<proven, asked, buffer, replies>>
monitor == <<feed, joined, next, transcript>>
client  == <<unread, left>>
vars    == <<pc, conns, talk, monitor, client>>

Init ==
  /\ accepted = 0
  /\ registry = [a \in Addrs |-> Nobody]
  /\ pc = [i \in Ids |-> "none"]
  /\ proven = [i \in Ids |-> ~RequirePass]
  /\ asked = [i \in Ids |-> <<>>]
  /\ buffer = [i \in Ids |-> <<>>]
  /\ replies = [i \in Ids |-> <<>>]
  /\ feed = 0
  /\ joined = [i \in Ids |-> 0]
  /\ next = [i \in Ids |-> 0]
  /\ transcript = [i \in Ids |-> <<>>]
  /\ unread = [i \in Ids |-> 0]
  /\ left = [i \in Ids |-> FALSE]
  /\ met = {}

Goto(i, place) == pc' = [pc EXCEPT ![i] = place]

Alive(i) == pc[i] \notin {"none", "ended"}
Live == {i \in Ids : Alive(i)}
Receivers == {i \in Ids : pc[i] \in {"tail", "push"}}

\* what CLIENT LIST shows, and INFO counts
Listed == {registry[a] : a \in Addrs} \ {Nobody}

-----------------------------------------------------------------------------
(* The accept loop, and the guard that drops when a task ends.  An address *)
(* is free again when its client has gone, whatever the old task is at.    *)

Accept ==
  /\ accepted < MaxId
  /\ LET i == accepted + 1
         before == {j \in Live : From[j] = From[i]}
     IN /\ \A j \in before : left[j]
        /\ accepted' = i
        /\ registry' = [registry EXCEPT ![From[i]] = i]
        /\ Goto(i, "read")
        /\ met' = IF before = {} THEN met ELSE met \cup {i}
  /\ UNCHANGED <<talk, monitor, client>>

\* by break, return or panic
End(i) ==
  /\ Goto(i, "ended")
  /\ registry' = [registry EXCEPT ![From[i]] = Nobody]
  /\ UNCHANGED <<accepted, met, talk, monitor, client>>

-----------------------------------------------------------------------------
(* A turn of the loop.                                                     *)

Number(i) == Len(asked[i])

\* the client may send this next
Sends(i, kind) ==
  \E script \in Says[i] :
    Number(i) < Len(script) /\ SubSeq(script, 1, Number(i) + 1) = Append(asked[i], kind)

\* read_resp, and db.tx.send unless the first word is MONITOR.  What a client sent
\* before it left may still be read.
Receive(i, kind) ==
  /\ pc[i] = "read" /\ kind # "broken" /\ Sends(i, kind)
  /\ asked' = [asked EXCEPT ![i] = Append(@, kind)]
  /\ feed' = IF kind \notin {"monitor", "quiet"} /\ Receivers # {} THEN feed + 1 ELSE feed
  /\ Goto(i, "gate")
  /\ UNCHANGED <<conns, proven, buffer, replies, joined, next, transcript, client>>

\* Mutation: no words are an empty command, at the end of the stream too.
HangupAtBroken(i) == pc[i] = "read" /\ ~left[i] /\ Sends(i, "broken") /\ End(i)

\* nothing that can be told to the clients in MONITOR, or the end of the stream
Hangup(i) == pc[i] = "read" /\ (left[i] \/ Sends(i, "broken")) /\ End(i)

Kind(i) == asked[i][Number(i)]
Buffered(i, verdict) == buffer' = [buffer EXCEPT ![i] = Append(@, <<Number(i), verdict>>)]

\* the state is Unauthorized: AUTH or NOAUTH
Gate(i) ==
  /\ pc[i] = "gate" /\ ~proven[i]
  /\ proven' = [proven EXCEPT ![i] = (Kind(i) = "right")]
  /\ Buffered(i, IF Kind(i) = "right" THEN "done" ELSE "refused")
  /\ Goto(i, "write")
  /\ UNCHANGED <<conns, asked, replies, monitor, client>>

\* Mutation: the broadcast waits for the slowest MONITOR.
RunAfterMonitors(i) ==
  /\ pc[i] = "gate" /\ proven[i] /\ Kind(i) \in {"right", "wrong", "plain", "quiet", "monitor"}
  /\ \A j \in Receivers : next[j] = feed
  /\ Buffered(i, "done")
  /\ Goto(i, IF Kind(i) = "monitor" THEN "hello" ELSE "write")
  /\ UNCHANGED <<conns, proven, asked, replies, monitor, client>>

\* an arm that answers; AUTH says +OK to whatever it is given
Run(i) ==
  /\ pc[i] = "gate" /\ proven[i] /\ Kind(i) \in {"right", "wrong", "plain", "quiet", "monitor"}
  /\ Buffered(i, "done")
  /\ Goto(i, IF Kind(i) = "monitor" THEN "hello" ELSE "write")
  /\ UNCHANGED <<conns, proven, asked, replies, monitor, client>>

RunMute(i) ==
  /\ pc[i] = "gate" /\ proven[i] /\ Kind(i) = "mute"
  /\ Goto(i, "read")
  /\ UNCHANGED <<conns, talk, monitor, client>>

\* Mutation: the entry is removed after the loop; a return passes that by.
RunFatalUnlisted(i) ==
  /\ pc[i] = "gate" /\ proven[i] /\ Kind(i) = "fatal"
  /\ Goto(i, "ended")
  /\ UNCHANGED <<conns, talk, monitor, client>>

RunFatal(i) == pc[i] = "gate" /\ proven[i] /\ Kind(i) = "fatal" /\ End(i)

\* Mutation: the write does not wait.
WriteAnyway(i) ==
  /\ unread' = [unread EXCEPT ![i] = IF left[i] THEN @ ELSE @ + 1]
  /\ UNCHANGED left

\* write_all returns: there was room, or the client is not there any more
Write(i) ==
  /\ left[i] \/ unread[i] < Room
  /\ unread' = [unread EXCEPT ![i] = IF left[i] THEN @ ELSE @ + 1]
  /\ UNCHANGED left

\* Mutation: the buffer is not cleared.
RespondKeeping(i) ==
  /\ pc[i] = "write"
  /\ Write(i)
  /\ replies' = [replies EXCEPT ![i] = @ \o buffer[i]]
  /\ Goto(i, "read")
  /\ UNCHANGED <<conns, proven, asked, buffer, monitor>>

Respond(i) ==
  /\ pc[i] = "write"
  /\ Write(i)
  /\ replies' = [replies EXCEPT ![i] = @ \o buffer[i]]
  /\ buffer' = [buffer EXCEPT ![i] = <<>>]
  /\ Goto(i, "read")
  /\ UNCHANGED <<conns, proven, asked, monitor>>

-----------------------------------------------------------------------------
(* MONITOR.  The receiver is made after the +OK is written.                *)

Greet(i) ==
  /\ pc[i] = "hello"
  /\ Write(i)
  /\ replies' = [replies EXCEPT ![i] = @ \o buffer[i]]
  /\ buffer' = [buffer EXCEPT ![i] = <<>>]
  /\ Goto(i, "join")
  /\ UNCHANGED <<conns, proven, asked, monitor>>

\* Mutation: a MONITOR is no client any more.
JoinUnlisted(i) ==
  /\ pc[i] = "join"
  /\ registry' = [registry EXCEPT ![From[i]] = Nobody]
  /\ joined' = [joined EXCEPT ![i] = feed]
  /\ next' = [next EXCEPT ![i] = feed]
  /\ Goto(i, "tail")
  /\ UNCHANGED <<accepted, met, talk, feed, transcript, client>>

Join(i) ==
  /\ pc[i] = "join"
  /\ joined' = [joined EXCEPT ![i] = feed]
  /\ next' = [next EXCEPT ![i] = feed]
  /\ Goto(i, "tail")
  /\ UNCHANGED <<conns, talk, feed, transcript, client>>

Behind(i) == feed - next[i]

Relay(i) ==
  /\ pc[i] = "tail" /\ Behind(i) \in 1 .. Kept
  /\ next' = [next EXCEPT ![i] = @ + 1]
  /\ Goto(i, "push")
  /\ UNCHANGED <<conns, talk, feed, joined, transcript, client>>

Push(i) ==
  /\ pc[i] = "push"
  /\ Write(i)
  /\ transcript' = [transcript EXCEPT ![i] = Append(@, next[i])]
  /\ Goto(i, "tail")
  /\ UNCHANGED <<conns, talk, feed, joined, next>>

\* Mutation: a MONITOR that lags goes on, as a subscriber does.
LagOn(i) ==
  /\ pc[i] = "tail" /\ Behind(i) > Kept
  /\ next' = [next EXCEPT ![i] = feed - Kept]
  /\ UNCHANGED <<pc, conns, talk, feed, joined, transcript, client>>

\* RecvError::Lagged
Lag(i) == pc[i] = "tail" /\ Behind(i) > Kept /\ End(i)

WriteFails(i) == pc[i] \in {"hello", "push"} /\ left[i] /\ End(i)

-----------------------------------------------------------------------------
(* The clients.                                                            *)

Read(i) ==
  /\ i \notin Silent \/ i \notin Receivers
  /\ unread[i] > 0
  /\ unread' = [unread EXCEPT ![i] = @ - 1]
  /\ UNCHANGED <<pc, conns, talk, monitor, left>>

Leave(i) ==
  /\ Alive(i) /\ ~left[i]
  /\ left' = [left EXCEPT ![i] = TRUE]
  /\ unread' = [unread EXCEPT ![i] = 0]
  /\ UNCHANGED <<pc, conns, talk, monitor>>

-----------------------------------------------------------------------------

Goes(i) ==
  \/ Gate(i) \/ Run(i) \/ RunMute(i) \/ RunFatal(i) \/ Respond(i)
  \/ Greet(i) \/ Join(i) \/ Relay(i) \/ Push(i) \/ Lag(i) \/ WriteFails(i)

TaskStep(i) == Goes(i) \/ Hangup(i) \/ \E kind \in Kinds : Receive(i, kind)

Next == Accept \/ \E i \in Ids : TaskStep(i) \/ Read(i) \/ Leave(i)

Spec == Init /\ [][Next]_vars

(***************************************************************************)
(* Fairness.  A task that can go on is polled, the end of a stream is      *)
(* noticed by a task that reads, and a client that waits for a reply reads *)
(* its socket.  Whether a write to a client that has left fails is up to   *)
(* its kernel: nothing is assumed of it.                                   *)
(***************************************************************************)
Fairness(i) == WF_vars(Goes(i) \/ (left[i] /\ Hangup(i))) /\ WF_vars(Read(i))

FairSpec == Spec /\ \A i \in Ids : Fairness(i)

-----------------------------------------------------------------------------

Places == {"none", "read", "gate", "write", "hello", "join", "tail", "push", "ended"}
Verdicts == {"done", "refused"}

\* The types, and the room in a socket.
TypeOK ==
  /\ accepted \in 0 .. MaxId
  /\ registry \in [Addrs -> Ids \cup {Nobody}]
  /\ pc \in [Ids -> Places]
  /\ proven \in [Ids -> BOOLEAN]
  /\ asked \in [Ids -> Seq(Kinds)]
  /\ buffer \in [Ids -> Seq(Nat \X Verdicts)]
  /\ replies \in [Ids -> Seq(Nat \X Verdicts)]
  /\ feed \in Nat
  /\ joined \in [Ids -> Nat]
  /\ next \in [Ids -> Nat]
  /\ transcript \in [Ids -> Seq(Nat)]
  /\ unread \in [Ids -> 0 .. Room]
  /\ left \in [Ids -> BOOLEAN]
  /\ met \subseteq Ids

(***************************************************************************)
(* CLIENT LIST and INFO count no connection whose task has ended, however  *)
(* it ended and whoever has had its address since (server.rs 38-49).       *)
(***************************************************************************)
NoGhosts == Listed \subseteq Live

(***************************************************************************)
(* A connection that lives is listed unless its address was taken over: it *)
(* came when an older task still had the address, whose guard then removed *)
(* the new entry, or a newer one came and replaced its entry.              *)
(***************************************************************************)
OnlyReuseHides ==
  \A i \in Live \ Listed : i \in met \/ \E j \in met : j > i /\ From[j] = From[i]

(***************************************************************************)
(* The replies a client gets are those of its commands, in their order,    *)
(* each once, with none skipped but that of a mute arm; and a command is   *)
(* run if and only if the right password came on this very connection      *)
(* before it (server.rs 138-161, 1732-1736).                               *)
(***************************************************************************)
KnownBy(i, n) == ~RequirePass \/ \E m \in 1 .. n : asked[i][m] = "right"

Answered(i) == IF pc[i] \in {"gate", "write", "hello", "ended"} THEN Number(i) - 1 ELSE Number(i)

IsMute(i, n) == asked[i][n] = "mute" /\ KnownBy(i, n)
Reply(i, n)  == <<n, IF KnownBy(i, n) THEN "done" ELSE "refused">>

AnswersInOrder ==
  \A i \in Ids : pc[i] # "ended" =>
    /\ {replies[i][k] : k \in DOMAIN replies[i]}
         = {Reply(i, n) : n \in {n \in 1 .. Answered(i) : ~IsMute(i, n)}}
    /\ \A k, l \in DOMAIN replies[i] : k < l => replies[i][k][1] < replies[i][l][1]

(***************************************************************************)
(* What a MONITOR's client has been sent has no holes: it is everything    *)
(* that was broadcast since its receiver was made, up to some point.  One  *)
(* that cannot keep up is disconnected rather than told less (server.rs    *)
(* 1600-1618).                                                             *)
(***************************************************************************)
TranscriptWhole ==
  \A i \in Ids : transcript[i] = [k \in DOMAIN transcript[i] |-> joined[i] + k]

(***************************************************************************)
(* A client that reads gets its answer, or its connection is closed,       *)
(* although MONITOR clients that never read are behind and stay behind.    *)
(***************************************************************************)
EveryoneAnswered ==
  \A i \in Ids : pc[i] \in {"gate", "write", "hello"} ~> pc[i] \in {"read", "tail", "ended"}

(***************************************************************************)
(* A client that has left is not listed for ever, unless it is a MONITOR's *)
(* to which nothing is written: that task never looks at its socket, and   *)
(* nothing but a new command of somebody else's makes it notice.           *)
(***************************************************************************)
Forgotten ==
  \A i \in Ids : left[i] ~> pc[i] = "ended" \/ (pc[i] = "tail" /\ next[i] = feed)
=============================================================================
