-------------------------- MODULE AofPipelineProofs --------------------------
(***************************************************************************)
(* Proofs about AofPipeline, for any number of clients, keys and shards,   *)
(* any commands, and any capacities.                                       *)
(*                                                                         *)
(* The first half needs nothing of what a handler does to the database but *)
(* the line it sends, and when.  The second half rests on LogProofs, what  *)
(* the lines do: the file, the buffer and the channel are one durable log, *)
(* memory is what its lines say, the compactor's text says what lives in   *)
(* the shards it has read, the file keeps its order whatever compacts it,  *)
(* and the sweeper removes only what has expired.                          *)
(***************************************************************************)
EXTENDS AofPipeline, LogProofs

USE KeyspaceAssumption, PipelineAssumption

-----------------------------------------------------------------------------
(* Handlers send well formed lines.                                        *)

LEMMA ChangeLine ==
  ASSUME NEW d, NEW q \in Command, NEW b \in BOOLEAN, NEW r
  PROVE  Change(d, q, b, r).line \in LogLine
BY DEF Change, Line, LogLine

LEMMA AnswerLine ==
  ASSUME NEW d, NEW r
  PROVE  Answer(d, r).line = NoLine
BY DEF Answer

(***************************************************************************)
(* A handler sends nothing, or one line with a command of the model's      *)
(* vocabulary.                                                             *)
(***************************************************************************)
LEMMA ExecLine ==
  ASSUME NEW d, NEW q \in Command, NEW t
  PROVE  Exec(d, q, t).line \in LogLine \cup {NoLine}
<1>1. CASE q.op = "SET"
  <2>1. Exec(d, q, t) = DoSet(d, q)
    BY <1>1 DEF Exec
  <2> QED BY <2>1, ChangeLine DEF DoSet
<1>2. CASE q.op = "SETEX"
  <2>1. Exec(d, q, t) = DoSetEx(d, q, t)
    BY <1>2 DEF Exec
  <2> QED BY <2>1, ChangeLine, AnswerLine DEF DoSetEx
<1>3. CASE q.op = "GET"
  <2>1. Exec(d, q, t) = DoGet(d, q, t)
    BY <1>3 DEF Exec
  <2>2. Del(q.key) \in Command
    BY DEF Command, Del
  <2> QED BY <2>1, <2>2, ChangeLine, AnswerLine DEF DoGet
<1>4. CASE q.op = "DEL"
  <2>1. Exec(d, q, t) = DoDel(d, q)
    BY <1>4 DEF Exec
  <2> QED BY <2>1, ChangeLine, AnswerLine DEF DoDel
<1>5. CASE q.op = "INCR"
  <2>1. Exec(d, q, t) = DoIncr(d, q)
    BY <1>5 DEF Exec
  <2> QED BY <2>1, ChangeLine, AnswerLine DEF DoIncr
<1>6. CASE q.op \in {"LPUSH", "RPUSH"}
  <2>1. Exec(d, q, t) = DoPush(d, q)
    BY <1>6 DEF Exec
  <2> QED BY <2>1, ChangeLine, AnswerLine DEF DoPush
<1>7. CASE q.op \in {"LPOP", "RPOP"}
  <2>1. Exec(d, q, t) = DoPop(d, q)
    BY <1>7 DEF Exec
  <2> QED BY <2>1, ChangeLine, AnswerLine DEF DoPop
<1>8. CASE q.op = "LREM"
  <2>1. Exec(d, q, t) = DoLRem(d, q)
    BY <1>8 DEF Exec
  <2> QED BY <2>1, ChangeLine, AnswerLine DEF DoLRem
<1>9. CASE q.op = "LTRIM"
  <2>1. Exec(d, q, t) = DoLTrim(d, q)
    BY <1>9 DEF Exec
  <2> QED BY <2>1, ChangeLine, AnswerLine DEF DoLTrim
<1>10. CASE q.op = "HSET"
  <2>1. Exec(d, q, t) = DoHSet(d, q)
    BY <1>10 DEF Exec
  <2> QED BY <2>1, ChangeLine, AnswerLine DEF DoHSet
<1>11. CASE q.op = "SADD"
  <2>1. Exec(d, q, t) = DoSAdd(d, q)
    BY <1>11 DEF Exec
  <2> QED BY <2>1, ChangeLine, AnswerLine DEF DoSAdd
<1>12. CASE q.op = "RPOPLPUSH"
  <2>1. Exec(d, q, t) = DoRPopLPush(d, q)
    BY <1>12 DEF Exec
  <2> QED BY <2>1, ChangeLine, AnswerLine DEF DoRPopLPush
<1> QED BY <1>1, <1>2, <1>3, <1>4, <1>5, <1>6, <1>7, <1>8, <1>9, <1>10, <1>11, <1>12
        DEF Command

-----------------------------------------------------------------------------
(* Sequences of lines: what the steps of the writer do to their order.     *)

LEMMA TailElements ==
  ASSUME NEW S, NEW s \in Seq(S), s # <<>>
  PROVE  /\ Tail(s) \in Seq(S) /\ Len(Tail(s)) = Len(s) - 1 /\ Head(s) \in S
         /\ 1 \in DOMAIN s /\ Head(s) = s[1]
         /\ \A i \in DOMAIN Tail(s) : i + 1 \in DOMAIN s /\ Tail(s)[i] = s[i + 1]
OBVIOUS

LEMMA AppendElements ==
  ASSUME NEW S, NEW s \in Seq(S), NEW x \in S
  PROVE  /\ Append(s, x) \in Seq(S) /\ Len(Append(s, x)) = Len(s) + 1
         /\ \A i \in DOMAIN Append(s, x) :
              \/ i \in DOMAIN s /\ Append(s, x)[i] = s[i]
              \/ i = Len(s) + 1 /\ Append(s, x)[i] = x
OBVIOUS

LEMMA ConcatElements ==
  ASSUME NEW S, NEW s \in Seq(S), NEW t \in Seq(S)
  PROVE  /\ s \o t \in Seq(S)
         /\ \A i \in DOMAIN (s \o t) :
              \/ i \in DOMAIN s /\ (s \o t)[i] = s[i]
              \/ i > Len(s) /\ i - Len(s) \in DOMAIN t /\ (s \o t)[i] = t[i - Len(s)]
OBVIOUS

LEMMA PrefixElements ==
  ASSUME NEW S, NEW s \in Seq(S), NEW n \in 0 .. Len(s)
  PROVE  /\ SubSeq(s, 1, n) \in Seq(S)
         /\ \A i \in DOMAIN SubSeq(s, 1, n) :
              i \in DOMAIN s /\ SubSeq(s, 1, n)[i] = s[i]
OBVIOUS

LEMMA InOrderTail ==
  ASSUME NEW s \in Seq(StampedLine), s # <<>>, InOrder(s)
  PROVE  InOrder(Tail(s))
<1> DEFINE t == Tail(s)
<1>1. \A i \in DOMAIN t : i \in Nat /\ i + 1 \in DOMAIN s /\ t[i] = s[i + 1]
  BY TailElements
<1> HIDE DEF t
<1>2. \A i, j \in DOMAIN t : i < j => Fits(t[i], t[j])
  BY <1>1 DEF InOrder
<1> QED BY <1>2 DEF InOrder, t

LEMMA InOrderAppend ==
  ASSUME NEW s \in Seq(StampedLine), NEW x \in StampedLine, InOrder(s),
         \A i \in DOMAIN s : Fits(s[i], x)
  PROVE  InOrder(Append(s, x))
<1> DEFINE t == Append(s, x)
<1>1. \A i \in DOMAIN t : \/ i \in DOMAIN s /\ t[i] = s[i]
                          \/ i = Len(s) + 1 /\ t[i] = x
  BY AppendElements
<1>2. DOMAIN s = 1 .. Len(s) /\ Len(s) \in Nat
  OBVIOUS
<1> HIDE DEF t
<1>3. \A i, j \in DOMAIN t : i < j => Fits(t[i], t[j])
  BY <1>1, <1>2 DEF InOrder
<1> QED BY <1>3 DEF InOrder, t

LEMMA InOrderConcat ==
  ASSUME NEW s \in Seq(StampedLine), NEW t \in Seq(StampedLine),
         InOrder(s), InOrder(t), Before(s, t)
  PROVE  InOrder(s \o t)
<1> DEFINE u == s \o t
<1>1. \A i \in DOMAIN u :
        \/ i \in DOMAIN s /\ u[i] = s[i]
        \/ i > Len(s) /\ i - Len(s) \in DOMAIN t /\ u[i] = t[i - Len(s)]
  BY ConcatElements
<1>2. DOMAIN s = 1 .. Len(s) /\ Len(s) \in Nat /\ DOMAIN u \subseteq Nat
  BY ConcatElements
<1> HIDE DEF u
<1>3. ASSUME NEW i \in DOMAIN u, NEW j \in DOMAIN u, i < j
      PROVE  Fits(u[i], u[j])
  <2>1. CASE i \in DOMAIN s /\ u[i] = s[i] /\ j \in DOMAIN s /\ u[j] = s[j]
    BY <2>1, <1>3 DEF InOrder
  <2>2. CASE /\ i \in DOMAIN s /\ u[i] = s[i]
             /\ j > Len(s) /\ j - Len(s) \in DOMAIN t /\ u[j] = t[j - Len(s)]
    BY <2>2 DEF Before
  <2>3. CASE /\ i > Len(s) /\ i - Len(s) \in DOMAIN t /\ u[i] = t[i - Len(s)]
             /\ j > Len(s) /\ j - Len(s) \in DOMAIN t /\ u[j] = t[j - Len(s)]
    <3>1. i - Len(s) < j - Len(s)
      BY <1>2, <1>3
    <3> QED BY <2>3, <3>1 DEF InOrder
  <2>4. ~(i > Len(s) /\ j \in DOMAIN s)
    BY <1>2, <1>3
  <2> QED BY <1>1, <2>1, <2>2, <2>3, <2>4
<1> QED BY <1>3 DEF InOrder, u

LEMMA InOrderPrefix ==
  ASSUME NEW s \in Seq(StampedLine), NEW n \in 0 .. Len(s), InOrder(s)
  PROVE  InOrder(SubSeq(s, 1, n))
<1> DEFINE t == SubSeq(s, 1, n)
<1>1. \A i \in DOMAIN t : i \in DOMAIN s /\ t[i] = s[i]
  BY PrefixElements
<1> HIDE DEF t
<1> QED BY <1>1 DEF InOrder, t

-----------------------------------------------------------------------------
(* Type correctness of the whole system.                                   *)

LEMMA InitTypeOK ==
  ASSUME NEW h \in {"named", "closed"}, InitWith(h)
  PROVE  TypeOK
<1>1. ClientsOK
  BY DEF InitWith, ClientsOK
<1>2. WriterOK
  BY DEF InitWith, WriterOK
<1>3. SweepOK
  BY DEF InitWith, SweepOK, SweepIdle
<1>4. CompOK
  BY DEF InitWith, CompOK, CompIdle
<1> QED BY <1>1, <1>2, <1>3, <1>4 DEF TypeOK, InitWith

LEMMA HomeType ==
  ASSUME ClientsOK, NEW c \in Clients, pc[c] # "idle"
  PROVE  cmd[c] \in Command /\ Home(c) \in Shards
BY DEF ClientsOK, Home, Command

LEMMA OutcomeLine ==
  ASSUME ClientsOK, NEW c \in Clients, Locked(c), Outcome(c).line # NoLine,
         NEW n \in Nat
  PROVE  Stamp(Outcome(c).line, Home(c), n) \in StampedLine
<1>1. cmd[c] \in Command /\ Home(c) \in Shards
  BY HomeType DEF Locked
<1>2. Outcome(c).line \in LogLine
  BY <1>1, ExecLine DEF Outcome
<1> QED BY <1>1, <1>2 DEF Stamp, StampedLine, LogLine

LEMMA CountedType ==
  ASSUME ClientsOK, NEW S
  PROVE  Counted(S) \in [Shards -> Nat]
BY DEF ClientsOK, Counted

\* what a step of one task leaves as it was
LEMMA Frames ==
  /\ ClientsOK /\ UNCHANGED <<applied, guard, pc, cmd, asked, out>> => ClientsOK'
  /\ WriterOK /\ UNCHANGED <<chan, buffer, handle>> => WriterOK'
  /\ SweepOK /\ UNCHANGED sweep => SweepOK'
  /\ CompOK /\ UNCHANGED comp => CompOK'
BY DEF ClientsOK, WriterOK, SweepOK, CompOK

LEMMA ClientTypeOK ==
  ASSUME TypeOK, NEW c \in Clients, ClientStep(c)
  PROVE  TypeOK'
<1> USE DEF TypeOK
<1>1. ASSUME NEW q \in Commands, Request(c, q)
      PROVE  TypeOK'
  <2>1. ClientsOK'
    BY <1>1 DEF ClientsOK, Request, store
  <2> QED BY <1>1, <2>1, Frames DEF Request, writer
<1>2. CASE RunQuiet(c)
  <2>1. ClientsOK'
    BY <1>2 DEF ClientsOK, RunQuiet, Finish, store
  <2> QED BY <1>2, <2>1, Frames DEF RunQuiet, writer
<1>3. CASE RunLogged(c)
  <2>1. Home(c) \in Shards /\ applied[Home(c)] + 1 \in Nat
    BY <1>3, HomeType DEF RunLogged, Locked, ClientsOK
  <2>2. Stamp(Outcome(c).line, Home(c), applied[Home(c)] + 1) \in StampedLine
    BY <1>3, <2>1, OutcomeLine DEF RunLogged
  <2>3. Counted({Home(c)}) \in [Shards -> Nat]
    BY CountedType
  <2>4. ClientsOK'
    BY <1>3, <2>1, <2>2, <2>3 DEF ClientsOK, RunLogged, Locked
  <2> QED BY <1>3, <2>4, Frames DEF RunLogged, writer
<1>4. CASE RunMove(c)
  <2>1. Stamp(Outcome(c).line, Home(c), 0) \in StampedLine
    BY <1>4, OutcomeLine DEF RunMove
  <2>2. Counted(ShardsOf(cmd[c])) \in [Shards -> Nat]
    BY CountedType
  <2>3. ClientsOK'
    BY <1>4, <2>1, <2>2 DEF ClientsOK, RunMove, Locked
  <2> QED BY <1>4, <2>3, Frames DEF RunMove, writer
<1>5. CASE RunHang(c)
  <2>1. Home(c) \in Shards
    BY <1>5, HomeType DEF RunHang, Locked
  <2>2. Counted({Home(c)}) \in [Shards -> Nat]
    BY CountedType
  <2>3. ClientsOK'
    BY <1>5, <2>1, <2>2 DEF ClientsOK, RunHang, Locked
  <2> QED BY <1>5, <2>3, Frames DEF RunHang, writer
<1>6. CASE Send(c)
  <2>1. chan' \in Seq(StampedLine) /\ Len(chan') <= ChanCap
    <3>1. CASE UNCHANGED chan
      BY <3>1 DEF WriterOK
    <3>2. CASE Len(chan) < ChanCap /\ chan' = Append(chan, out[c])
      <4>1. out[c] \in StampedLine /\ chan \in Seq(StampedLine)
        BY <1>6 DEF ClientsOK, WriterOK, Send
      <4> QED BY <3>2, <4>1, AppendElements
    <3> QED BY <1>6, <3>1, <3>2 DEF Send
  <2>2. guard' \in [Shards -> Clients \cup {Free}]
    BY <1>6 DEF ClientsOK, Send
  <2>3. ClientsOK'
    BY <1>6, <2>2 DEF ClientsOK, Send, Finish, store
  <2>4. WriterOK'
    BY <1>6, <2>1 DEF WriterOK, Send
  <2> QED BY <1>6, <2>3, <2>4, Frames DEF Send
<1> QED BY <1>1, <1>2, <1>3, <1>4, <1>5, <1>6 DEF ClientStep

LEMMA WriterTypeOK ==
  ASSUME TypeOK, WriterRecv \/ WriterTick \/ FlushFails
  PROVE  TypeOK'
<1> USE DEF TypeOK
<1>1. CASE WriterRecv
  <2>1. chan' \in Seq(StampedLine) /\ Len(chan') <= ChanCap /\ Head(chan) \in StampedLine
    BY <1>1, TailElements DEF WriterOK, WriterRecv
  <2>2. buffer' \in Seq(StampedLine) /\ Len(buffer') < FlushAt
    <3>1. Append(buffer, Head(chan)) \in Seq(StampedLine)
      BY <2>1, AppendElements DEF WriterOK
    <3>2. Len(Append(buffer, Head(chan))) \in Nat
      BY <3>1
    <3>3. buffer' = <<>> \/ (buffer' = Append(buffer, Head(chan)) /\ ~(Len(buffer') >= FlushAt))
      BY <1>1 DEF WriterRecv
    <3>4. FlushAt \in Nat \ {0} /\ <<>> \in Seq(StampedLine) /\ Len(<<>>) = 0
      BY DEF PipelineAssumption
    <3>5. CASE buffer' = <<>>
      BY <3>4, <3>5
    <3>6. CASE buffer' = Append(buffer, Head(chan)) /\ ~(Len(buffer') >= FlushAt)
      BY <3>1, <3>2, <3>4, <3>6
    <3> QED BY <3>3, <3>5, <3>6
  <2>3. WriterOK'
    BY <1>1, <2>1, <2>2 DEF WriterOK, WriterRecv
  <2> QED BY <1>1, <2>3, Frames DEF WriterRecv, store, clients
<1>2. CASE WriterTick
  <2>1. WriterOK'
    BY <1>2 DEF WriterOK, WriterTick
  <2> QED BY <1>2, <2>1, Frames DEF WriterTick, store, clients
<1>3. CASE FlushFails
  <2>1. WriterOK'
    BY <1>3 DEF WriterOK, FlushFails
  <2> QED BY <1>3, <2>1, Frames DEF FlushFails, store, clients
<1> QED BY <1>1, <1>2, <1>3

LEMMA SweeperTypeOK ==
  ASSUME TypeOK, SweeperStep
  PROVE  TypeOK'
<1> USE DEF TypeOK
<1>1. CASE SweepStart
  <2>1. SweepOK'
    <3>1. sweep' = [pc |-> "scan", shard |-> 0, clock |-> now, keys |-> {}]
      BY <1>1 DEF SweepStart, SweepIdle
    <3> QED BY <3>1 DEF SweepOK, PipelineAssumption
  <2> QED BY <1>1, <2>1, Frames DEF SweepStart, store, clients, writer
<1>2. CASE SweepShard
  <2>1. applied' \in [Shards -> Nat]
    BY <1>2, CountedType DEF SweepShard, ClientsOK
  <2>2. Doomed(sweep.shard) \subseteq Keys
    BY DEF Doomed, KeysIn
  <2>3. SweepOK'
    <3>1. sweep.shard + 1 \in 0 .. NumShards
      BY <1>2 DEF SweepShard, SweepOK, PipelineAssumption
    <3> QED BY <1>2, <2>2, <3>1 DEF SweepShard, SweepOK
  <2>4. ClientsOK'
    BY <1>2, <2>1 DEF SweepShard, ClientsOK, clients
  <2> QED BY <1>2, <2>3, <2>4, Frames DEF SweepShard, clients, writer
<1>3. CASE SweepOpen
  <2>1. SweepOK'
    BY <1>3 DEF SweepOK, SweepOpen, SweepIdle
  <2> QED BY <1>3, <2>1, Frames DEF SweepOpen, store, clients, writer
<1>4. ASSUME NEW k \in Keys, SweepLog(k)
      PROVE  TypeOK'
  <2>1. SweepOK'
    BY <1>4 DEF SweepOK, SweepLog, SweepIdle
  <2> QED BY <1>4, <2>1, Frames DEF SweepLog, store, clients, writer
<1> QED BY <1>1, <1>2, <1>3, <1>4 DEF SweeperStep

LEMMA CompactorTypeOK ==
  ASSUME TypeOK, CompactorStep \/ CompactFails
  PROVE  TypeOK'
<1> USE DEF TypeOK
<1>1. CASE CompactStart
  <2>1. CompOK'
    <3>1. comp' = [pc |-> "scan", shard |-> 0, text |-> <<>>, seen |-> [s \in Shards |-> 0]]
      BY <1>1 DEF CompactStart, CompIdle
    <3> QED BY <3>1 DEF CompOK, PipelineAssumption
  <2> QED BY <1>1, <2>1, Frames DEF CompactStart, store, clients, writer
<1>2. CASE CompactShard
  <2>1. comp.shard \in Shards /\ applied[comp.shard] \in Nat
    BY <1>2 DEF CompactShard, CompOK, ClientsOK, Shards
  <2>2. comp.shard + 1 \in 0 .. NumShards
    BY <2>1 DEF Shards
  <2>3. CompOK'
    BY <1>2, <2>1, <2>2 DEF CompactShard, CompOK
  <2> QED BY <1>2, <2>3, Frames DEF CompactShard, store, clients, writer
<1>3. CASE CompactRename
  <2>1. CompOK'
    BY <1>3 DEF CompOK, CompactRename, CompIdle
  <2>2. SweepOK'
    BY <1>3 DEF SweepOK, CompactRename
  <2>3. WriterOK'
    BY <1>3 DEF WriterOK, CompactRename
  <2> QED BY <1>3, <2>1, <2>2, <2>3, Frames DEF CompactRename, store, clients
<1>4. CASE CompactFails
  <2>1. CompOK'
    BY <1>4 DEF CompOK, CompactFails, CompIdle
  <2> QED BY <1>4, <2>1, Frames DEF CompactFails, store, clients, writer
<1> QED BY <1>1, <1>2, <1>3, <1>4 DEF CompactorStep

LEMMA CrashTypeOK ==
  ASSUME TypeOK, NEW h \in {"named", "closed"}, Crash(h)
  PROVE  TypeOK'
<1> PICK n \in 0 .. Len(buffer) : Restart(n, h)
  BY DEF Crash
<1>1. ClientsOK'
  BY DEF ClientsOK, Restart, TypeOK
<1>2. WriterOK'
  BY DEF WriterOK, Restart
<1>3. SweepOK'
  BY DEF SweepOK, Restart, SweepIdle
<1>4. CompOK'
  BY DEF CompOK, Restart, CompIdle
<1> QED BY <1>1, <1>2, <1>3, <1>4 DEF TypeOK, Restart

LEMMA NextTypeOK ==
  ASSUME TypeOK, [Next]_vars
  PROVE  TypeOK'
<1>1. CASE Tick
  BY <1>1, Frames DEF TypeOK, Tick, store, clients, writer
<1>2. CASE UNCHANGED vars
  BY <1>2, Frames DEF TypeOK, vars, store, clients, writer
<1> QED BY <1>1, <1>2, ClientTypeOK, WriterTypeOK, SweeperTypeOK, CompactorTypeOK, CrashTypeOK
        DEF Next, Core

(***************************************************************************)
(* In every state of the whole system the variables have their types, and  *)
(* the channel and the buffer stay within their capacities.                *)
(***************************************************************************)
THEOREM TypeCorrect == Spec => []TypeOK
<1>1. Init \/ InitWith("closed") => TypeOK
  BY InitTypeOK DEF Init
<1>2. TypeOK /\ [Next]_vars => TypeOK'
  BY NextTypeOK
<1> QED BY <1>1, <1>2, PTL DEF Spec

-----------------------------------------------------------------------------
(***************************************************************************)
(* The order of the log.  What SendOrder and LogOrder rest on: a client    *)
(* that sends a stamped line still has the shard locked, so that its stamp *)
(* is the number of changes made to the shard; and no stamp is larger.     *)
(***************************************************************************)

SendersHold ==
  \A c \in Clients : pc[c] = "send" /\ out[c].at # 0 =>
    guard[out[c].shard] = c /\ out[c].at = applied[out[c].shard]

Bounded(lines) == \A i \in DOMAIN lines : lines[i].at <= applied[lines[i].shard]

InFlightInv ==
  /\ TypeOK
  /\ SendersHold
  /\ Bounded(buffer) /\ Bounded(chan)
  /\ SendOrder

\* changes are counted, never taken back
LEMMA BoundedKept ==
  ASSUME TypeOK, TypeOK', NEW lines \in Seq(StampedLine), Bounded(lines),
         \A s \in Shards : applied[s] <= applied'[s]
  PROVE  \A i \in DOMAIN lines : lines[i].at <= applied'[lines[i].shard]
<1> TAKE i \in DOMAIN lines
<1>1. lines[i].shard \in Shards /\ lines[i].at \in Nat
  <2>1. lines[i] \in StampedLine
    OBVIOUS
  <2> QED BY <2>1 DEF StampedLine
<1>2. applied[lines[i].shard] \in Nat /\ applied'[lines[i].shard] \in Nat
  BY <1>1 DEF TypeOK, ClientsOK
<1>3. lines[i].at <= applied[lines[i].shard]
  BY DEF Bounded
<1>4. applied[lines[i].shard] <= applied'[lines[i].shard]
  BY <1>1
<1> QED BY <1>1, <1>2, <1>3, <1>4

LEMMA CountedGrows ==
  ASSUME TypeOK, NEW S
  PROVE  \A s \in Shards : applied[s] <= Counted(S)[s] /\ (s \notin S => Counted(S)[s] = applied[s])
BY DEF TypeOK, ClientsOK, Counted

\* a step that changes shards nobody keeps locked leaves the senders alone
LEMMA SendersUndisturbed ==
  ASSUME TypeOK, SendersHold, NEW S \in SUBSET Shards,
         \A s \in S : guard[s] = Free,
         applied' = Counted(S),
         NEW c \in Clients, pc[c] = "send", out[c].at # 0
  PROVE  guard[out[c].shard] = c /\ out[c].at = applied'[out[c].shard]
<1>1. guard[out[c].shard] = c /\ out[c].at = applied[out[c].shard]
  BY DEF SendersHold
<1>2. out[c].shard \in Shards
  BY DEF TypeOK, ClientsOK, StampedLine
<1>3. out[c].shard \notin S
  BY <1>1 DEF PipelineAssumption
<1> QED BY <1>1, <1>2, <1>3, CountedGrows

LEMMA HomeOfCommand ==
  ASSUME NEW c \in Clients, NEW q \in Command, cmd[c] = q
  PROVE  Home(c) \in ShardsOf(cmd[c]) /\ ShardsOf(cmd[c]) \subseteq Shards
BY DEF Home, ShardsOf, KeysOf, Command, PipelineAssumption

(***************************************************************************)
(* A client's step keeps the senders' claim, the bound and the order.      *)
(***************************************************************************)
LEMMA RequestInFlight ==
  ASSUME InFlightInv, TypeOK', NEW c \in Clients,
         (\E q \in Commands : Request(c, q)) \/ RunQuiet(c)
  PROVE  InFlightInv'
<1>1. UNCHANGED <<applied, guard, out, buffer, chan>>
  BY DEF Request, RunQuiet, store, writer
<1>2. \A d \in Clients : pc'[d] = "send" => pc[d] = "send"
  BY DEF Request, RunQuiet, Finish, InFlightInv, TypeOK, ClientsOK
<1>3. SendersHold'
  BY <1>1, <1>2 DEF InFlightInv, SendersHold
<1>4. Bounded(buffer)' /\ Bounded(chan)' /\ SendOrder'
  BY <1>1 DEF InFlightInv, Bounded, SendOrder, InOrder, Before, Fits
<1> QED BY <1>3, <1>4 DEF InFlightInv

LEMMA RunInFlight ==
  ASSUME InFlightInv, TypeOK', NEW c \in Clients,
         RunLogged(c) \/ RunMove(c) \/ RunHang(c)
  PROVE  InFlightInv'
<1> DEFINE S == IF RunMove(c) THEN ShardsOf(cmd[c]) ELSE {Home(c)}
<1>1. cmd[c] \in Command /\ \A s \in ShardsOf(cmd[c]) : guard[s] = Free
  BY DEF RunLogged, RunMove, RunHang, Locked, InFlightInv, TypeOK, ClientsOK, PipelineAssumption
<1>2. S \subseteq Shards /\ \A s \in S : guard[s] = Free
  BY <1>1, HomeOfCommand
<1>3. applied' = Counted(S) /\ UNCHANGED <<buffer, chan>>
  BY DEF RunLogged, RunMove, RunHang, writer
<1> HIDE DEF S
<1>4. ASSUME NEW d \in Clients, d # c, pc'[d] = "send", out'[d].at # 0
      PROVE  guard'[out'[d].shard] = d /\ out'[d].at = applied'[out'[d].shard]
  <2>1. pc[d] = "send" /\ out'[d] = out[d]
    BY <1>4 DEF RunLogged, RunMove, RunHang, InFlightInv, TypeOK, ClientsOK
  <2>2. guard[out[d].shard] = d /\ out[d].at = applied'[out[d].shard]
    BY <1>2, <1>3, <1>4, <2>1, SendersUndisturbed DEF InFlightInv
  <2>3. out[d].shard \in Shards
    BY <1>4, <2>1 DEF InFlightInv, TypeOK, ClientsOK, StampedLine
  <2>4. guard[Home(c)] = Free
    BY <1>1, HomeOfCommand
  <2>5. guard'[out[d].shard] = guard[out[d].shard]
    BY <2>2, <2>3, <2>4 DEF RunLogged, RunMove, RunHang, InFlightInv, TypeOK, ClientsOK,
                            PipelineAssumption
  <2> QED BY <2>1, <2>2, <2>5
<1>5. ASSUME pc'[c] = "send", out'[c].at # 0
      PROVE  guard'[out'[c].shard] = c /\ out'[c].at = applied'[out'[c].shard]
  <2>1. Home(c) \in Shards
    BY <1>1, HomeOfCommand
  <2>2. ~RunHang(c)
    BY <1>5 DEF RunHang, InFlightInv, TypeOK, ClientsOK
  <2>3. ~RunMove(c)
    BY <1>5 DEF RunMove, Stamp, InFlightInv, TypeOK, ClientsOK
  <2>4. RunLogged(c)
    BY <2>2, <2>3
  <2>5. out'[c].shard = Home(c) /\ out'[c].at = applied[Home(c)] + 1
    BY <2>4 DEF RunLogged, Stamp, InFlightInv, TypeOK, ClientsOK
  <2>6. guard'[Home(c)] = c /\ applied'[Home(c)] = applied[Home(c)] + 1
    BY <2>1, <2>4 DEF RunLogged, Counted, InFlightInv, TypeOK, ClientsOK
  <2> QED BY <2>5, <2>6
<1>6. SendersHold'
  BY <1>4, <1>5 DEF SendersHold
<1>7. \A s \in Shards : applied[s] <= applied'[s]
  BY <1>3, CountedGrows DEF InFlightInv
<1>8. Bounded(buffer)' /\ Bounded(chan)'
  BY <1>3, <1>7, BoundedKept DEF InFlightInv, Bounded, TypeOK, WriterOK
<1>9. SendOrder'
  BY <1>3 DEF InFlightInv, SendOrder, InOrder, Before, Fits
<1> QED BY <1>6, <1>8, <1>9 DEF InFlightInv

\* the line that is sent carries the largest stamp of its shard, or none
LEMMA SentLineFits ==
  ASSUME InFlightInv, NEW c \in Clients, pc[c] = "send",
         NEW lines \in Seq(StampedLine), Bounded(lines)
  PROVE  /\ \A i \in DOMAIN lines : Fits(lines[i], out[c])
         /\ out[c] \in StampedLine /\ out[c].at <= applied[out[c].shard]
<1>1. out[c] \in StampedLine /\ applied[out[c].shard] \in Nat
  BY DEF InFlightInv, TypeOK, ClientsOK, StampedLine
<1>2. out[c].at # 0 => out[c].at = applied[out[c].shard]
  BY DEF InFlightInv, SendersHold
<1>3. \A i \in DOMAIN lines : Fits(lines[i], out[c])
  BY <1>2 DEF Fits, Bounded
<1> QED BY <1>1, <1>2, <1>3 DEF StampedLine

LEMMA SendInFlight ==
  ASSUME InFlightInv, TypeOK', NEW c \in Clients, Send(c)
  PROVE  InFlightInv'
<1>1. pc[c] = "send" /\ UNCHANGED <<applied, buffer>>
  BY DEF Send, store
<1>2. SendersHold'
  <2> SUFFICES ASSUME NEW d \in Clients, pc'[d] = "send", out'[d].at # 0
               PROVE  guard'[out'[d].shard] = d /\ out'[d].at = applied'[out'[d].shard]
    BY DEF SendersHold
  <2>1. d # c /\ pc[d] = "send" /\ out'[d] = out[d]
    BY DEF Send, Finish, InFlightInv, TypeOK, ClientsOK
  <2>2. guard[out[d].shard] = d /\ out[d].at = applied[out[d].shard]
    BY <2>1 DEF InFlightInv, SendersHold
  <2>3. out[d].shard \in Shards
    BY <2>1 DEF InFlightInv, TypeOK, ClientsOK, StampedLine
  <2> QED BY <1>1, <2>1, <2>2, <2>3 DEF Send
<1>3. Bounded(buffer)'
  BY <1>1 DEF InFlightInv, Bounded
<1>4. chan \in Seq(StampedLine) /\ buffer \in Seq(StampedLine)
  BY DEF InFlightInv, TypeOK, WriterOK
<1>5. CASE UNCHANGED chan
  BY <1>1, <1>2, <1>3, <1>5 DEF InFlightInv, Bounded, SendOrder, InOrder, Before, Fits
<1>6. CASE chan' = Append(chan, out[c])
  <2>1. /\ \A i \in DOMAIN chan : Fits(chan[i], out[c])
        /\ \A i \in DOMAIN buffer : Fits(buffer[i], out[c])
        /\ out[c] \in StampedLine /\ out[c].at <= applied[out[c].shard]
    BY <1>1, <1>4, SentLineFits DEF InFlightInv
  <2>2. \A i \in DOMAIN chan' : \/ i \in DOMAIN chan /\ chan'[i] = chan[i]
                                \/ chan'[i] = out[c]
    BY <1>4, <1>6, <2>1, AppendElements
  <2>3. Bounded(chan)'
    BY <1>1, <2>1, <2>2 DEF InFlightInv, Bounded
  <2>4. InOrder(chan)'
    <3>1. InOrder(Append(chan, out[c]))
      BY <1>4, <2>1, InOrderAppend DEF InFlightInv, SendOrder
    <3> QED BY <1>6, <3>1 DEF InOrder, Fits
  <2>5. Before(buffer, chan)'
    BY <1>1, <2>1, <2>2 DEF InFlightInv, SendOrder, Before, Fits
  <2>6. InOrder(buffer)'
    BY <1>1 DEF InFlightInv, SendOrder, InOrder, Fits
  <2> QED BY <1>2, <1>3, <2>3, <2>4, <2>5, <2>6 DEF InFlightInv, SendOrder
<1> QED BY <1>5, <1>6 DEF Send

LEMMA RecvInFlight ==
  ASSUME InFlightInv, TypeOK', WriterRecv
  PROVE  InFlightInv'
<1> DEFINE filled == Append(buffer, Head(chan))
<1>1. UNCHANGED <<applied, guard, pc, out>> /\ chan # <<>> /\ chan' = Tail(chan)
  BY DEF WriterRecv, store, clients
<1>2. chan \in Seq(StampedLine) /\ buffer \in Seq(StampedLine)
  BY DEF InFlightInv, TypeOK, WriterOK
<1>3. /\ Head(chan) \in StampedLine /\ 1 \in DOMAIN chan /\ Head(chan) = chan[1]
      /\ \A i \in DOMAIN Tail(chan) : /\ i \in Nat \ {0} /\ i + 1 \in DOMAIN chan
                                      /\ Tail(chan)[i] = chan[i + 1]
  BY <1>1, <1>2, TailElements
<1>4. \A i \in DOMAIN filled : \/ i \in DOMAIN buffer /\ filled[i] = buffer[i]
                               \/ filled[i] = chan[1]
  BY <1>2, <1>3, AppendElements
<1>5. InOrder(filled)
  <2>1. \A i \in DOMAIN buffer : Fits(buffer[i], Head(chan))
    BY <1>3 DEF InFlightInv, SendOrder, Before
  <2> QED BY <1>2, <1>3, <2>1, InOrderAppend DEF InFlightInv, SendOrder
<1>6. Before(filled, Tail(chan))
  <2>1. \A i \in DOMAIN buffer, j \in DOMAIN Tail(chan) : Fits(buffer[i], Tail(chan)[j])
    BY <1>3 DEF InFlightInv, SendOrder, Before
  <2>2. \A j \in DOMAIN Tail(chan) : Fits(chan[1], Tail(chan)[j])
    BY <1>3 DEF InFlightInv, SendOrder, InOrder
  <2> QED BY <1>4, <2>1, <2>2 DEF Before
<1>7. InOrder(Tail(chan))
  BY <1>1, <1>2, InOrderTail DEF InFlightInv, SendOrder
<1>8. \A i \in DOMAIN filled : filled[i].at <= applied[filled[i].shard]
  BY <1>3, <1>4 DEF InFlightInv, Bounded
<1>9. \A i \in DOMAIN Tail(chan) : Tail(chan)[i].at <= applied[Tail(chan)[i].shard]
  BY <1>3 DEF InFlightInv, Bounded
<1>10. buffer' = filled \/ buffer' = <<>>
  BY DEF WriterRecv
<1> HIDE DEF filled
<1>11. SendersHold'
  BY <1>1 DEF InFlightInv, SendersHold
<1>12. Bounded(chan)' /\ InOrder(chan)'
  BY <1>1, <1>7, <1>9 DEF Bounded, InOrder, Fits
<1>13. Bounded(buffer)' /\ InOrder(buffer)' /\ Before(buffer, chan)'
  <2>1. CASE buffer' = filled
    BY <1>1, <1>5, <1>6, <1>8, <2>1 DEF Bounded, InOrder, Before, Fits
  <2>2. CASE buffer' = <<>>
    BY <2>2 DEF Bounded, InOrder, Before
  <2> QED BY <1>10, <2>1, <2>2
<1> QED BY <1>11, <1>12, <1>13 DEF InFlightInv, SendOrder

\* the buffer is emptied, or everything in flight is lost
LEMMA EmptiedInFlight ==
  ASSUME InFlightInv, TypeOK', buffer' = <<>>, UNCHANGED applied,
         \/ UNCHANGED <<guard, pc, out, chan>>
         \/ chan' = <<>> /\ pc' = [c \in Clients |-> "idle"]
  PROVE  InFlightInv'
<1>1. SendersHold'
  BY DEF InFlightInv, SendersHold
<1>2. Bounded(buffer)' /\ InOrder(buffer)' /\ Before(buffer, chan)'
  BY DEF Bounded, InOrder, Before
<1>3. Bounded(chan)' /\ InOrder(chan)'
  <2>1. CASE UNCHANGED chan
    BY <2>1 DEF InFlightInv, Bounded, SendOrder, InOrder, Fits
  <2>2. CASE chan' = <<>>
    BY <2>2 DEF Bounded, InOrder
  <2> QED BY <2>1, <2>2
<1> QED BY <1>1, <1>2, <1>3 DEF InFlightInv, SendOrder

LEMMA SweepInFlight ==
  ASSUME InFlightInv, TypeOK', SweepShard
  PROVE  InFlightInv'
<1> DEFINE S == IF Doomed(sweep.shard) = {} THEN {} ELSE {sweep.shard}
<1>1. applied' = Counted(S) /\ UNCHANGED <<guard, pc, out, buffer, chan>>
  BY DEF SweepShard, Counted, clients, writer, InFlightInv, TypeOK, ClientsOK
<1>2. S \subseteq Shards /\ \A s \in S : guard[s] = Free
  BY DEF SweepShard, Shards, InFlightInv, TypeOK, SweepOK, PipelineAssumption
<1> HIDE DEF S
<1>3. SendersHold'
  BY <1>1, <1>2, SendersUndisturbed DEF InFlightInv, SendersHold
<1>4. Bounded(buffer)' /\ Bounded(chan)'
  BY <1>1, CountedGrows, BoundedKept DEF InFlightInv, Bounded, TypeOK, WriterOK
<1>5. SendOrder'
  BY <1>1 DEF InFlightInv, SendOrder, InOrder, Before, Fits
<1> QED BY <1>3, <1>4, <1>5 DEF InFlightInv

\* a step that touches neither the clients nor the writer's lines
LEMMA FrameInFlight ==
  ASSUME InFlightInv, TypeOK', UNCHANGED <<applied, guard, pc, out, buffer, chan>>
  PROVE  InFlightInv'
BY DEF InFlightInv, SendersHold, Bounded, SendOrder, InOrder, Before, Fits

LEMMA NextInFlight ==
  ASSUME InFlightInv, [Next]_vars
  PROVE  InFlightInv'
<1>1. TypeOK'
  BY NextTypeOK DEF InFlightInv
<1>2. ASSUME NEW c \in Clients, ClientStep(c)
      PROVE  InFlightInv'
  BY <1>1, <1>2, RequestInFlight, RunInFlight, SendInFlight DEF ClientStep
<1>3. CASE WriterRecv
  BY <1>1, <1>3, RecvInFlight
<1>4. CASE WriterTick \/ FlushFails
  BY <1>1, <1>4, EmptiedInFlight DEF WriterTick, FlushFails, store, clients
<1>5. ASSUME NEW h \in {"named", "closed"}, Crash(h)
      PROVE  InFlightInv'
  BY <1>1, <1>5, EmptiedInFlight DEF Crash, Restart
<1>6. CASE SweeperStep
  BY <1>1, <1>6, SweepInFlight, FrameInFlight
     DEF SweeperStep, SweepStart, SweepOpen, SweepLog, store, clients, writer
<1>7. CASE CompactorStep \/ CompactFails
  BY <1>1, <1>7, FrameInFlight
     DEF CompactorStep, CompactStart, CompactShard, CompactRename, CompactFails,
         store, clients, writer
<1>8. CASE Tick \/ UNCHANGED vars
  BY <1>1, <1>8, FrameInFlight DEF Tick, vars, store, clients, writer
<1> QED BY <1>2, <1>3, <1>4, <1>5, <1>6, <1>7, <1>8 DEF Next, Core

LEMMA InitInFlight ==
  ASSUME NEW h \in {"named", "closed"}, InitWith(h)
  PROVE  InFlightInv
<1>1. TypeOK
  BY InitTypeOK
<1>2. SendersHold
  BY DEF InitWith, SendersHold
<1>3. Bounded(buffer) /\ Bounded(chan) /\ SendOrder
  BY DEF InitWith, Bounded, SendOrder, InOrder, Before
<1> QED BY <1>1, <1>2, <1>3 DEF InFlightInv

(***************************************************************************)
(* In the whole system the lines that clients send with a shard locked     *)
(* pass the channel and the buffer in the order of the changes.            *)
(***************************************************************************)
THEOREM SendsInOrder == Spec => []SendOrder
<1>1. Init \/ InitWith("closed") => InFlightInv
  BY InitInFlight DEF Init
<1>2. InFlightInv /\ [Next]_vars => InFlightInv'
  BY NextInFlight
<1>3. InFlightInv => SendOrder
  BY DEF InFlightInv
<1> QED BY <1>1, <1>2, <1>3, PTL DEF Spec

-----------------------------------------------------------------------------
(***************************************************************************)
(* The order of the file, without the compactor: the writer's handle is    *)
(* then always on the named file, and nothing need be known of what the    *)
(* lines do; FileAlwaysInOrder, further on, has the whole system.          *)
(***************************************************************************)

FileInv ==
  /\ InFlightInv
  /\ handle = "named"
  /\ disk \in Seq(StampedLine) /\ Bounded(disk)
  /\ InOrder(disk) /\ Before(disk, buffer) /\ Before(disk, chan)

\* the writer's handle is not the named file
LooseFile ==
  /\ InFlightInv
  /\ handle \in {"orphan", "closed"}
  /\ disk \in Seq(StampedLine) /\ Bounded(disk) /\ InOrder(disk)

\* disk has been extended with lines that fit behind it
LEMMA ExtendedFile ==
  ASSUME FileInv, InFlightInv',
         NEW more \in Seq(StampedLine), disk' = disk \o more,
         InOrder(more), Before(disk, more),
         Bounded(more), UNCHANGED applied,
         Before(more, buffer'), Before(disk, buffer'),
         Before(more, chan'), Before(disk, chan')
  PROVE  /\ handle' = "named" => FileInv'
         /\ handle' = "closed" => LooseFile'
<1>1. disk' \in Seq(StampedLine) /\ InOrder(disk \o more)
  BY ConcatElements, InOrderConcat DEF FileInv
<1>2. \A i \in DOMAIN disk' :
        \/ i \in DOMAIN disk /\ disk'[i] = disk[i]
        \/ \E j \in DOMAIN more : disk'[i] = more[j]
  BY ConcatElements DEF FileInv
<1>3. Bounded(disk)'
  BY <1>2 DEF FileInv, Bounded
<1>4. InOrder(disk)'
  BY <1>1 DEF InOrder, Fits
<1>5. ASSUME NEW newer, Before(disk, newer), Before(more, newer)
      PROVE  \A i \in DOMAIN disk', j \in DOMAIN newer : Fits(disk'[i], newer[j])
  BY <1>2, <1>5 DEF Before
<1>6. Before(disk, buffer)' /\ Before(disk, chan)'
  <2>1. \A i \in DOMAIN disk', j \in DOMAIN buffer' : Fits(disk'[i], buffer'[j])
    BY <1>5
  <2>2. \A i \in DOMAIN disk', j \in DOMAIN chan' : Fits(disk'[i], chan'[j])
    BY <1>5
  <2> QED BY <2>1, <2>2 DEF Before, Fits
<1> QED BY <1>1, <1>3, <1>4, <1>6 DEF FileInv, LooseFile

LEMMA SameFile ==
  ASSUME FileInv, InFlightInv', UNCHANGED <<disk, handle>>,
         \A s \in Shards : applied[s] <= applied'[s],
         Before(disk, buffer'), Before(disk, chan')
  PROVE  FileInv'
<1>1. Bounded(disk)'
  BY BoundedKept DEF FileInv, InFlightInv, Bounded
<1>2. InOrder(disk)' /\ Before(disk, buffer)' /\ Before(disk, chan)'
  BY DEF FileInv, InOrder, Before, Fits
<1> QED BY <1>1, <1>2 DEF FileInv

LEMMA RequestFile ==
  ASSUME FileInv, InFlightInv', UNCHANGED <<disk, handle, buffer, chan>>,
         \A s \in Shards : applied[s] <= applied'[s]
  PROVE  FileInv'
BY SameFile DEF FileInv, Before, Fits

LEMMA ClientFile ==
  ASSUME FileInv, InFlightInv', NEW c \in Clients, ClientStep(c)
  PROVE  FileInv'
<1>1. CASE (\E q \in Commands : Request(c, q)) \/ RunQuiet(c)
  <2>1. UNCHANGED <<disk, handle, buffer, chan, applied>>
    BY <1>1 DEF Request, RunQuiet, store, writer
  <2> QED BY <2>1, RequestFile DEF FileInv, InFlightInv, TypeOK, ClientsOK
<1>2. CASE RunLogged(c) \/ RunMove(c) \/ RunHang(c)
  <2>1. UNCHANGED <<disk, handle, buffer, chan>>
    BY <1>2 DEF RunLogged, RunMove, RunHang, writer
  <2>2. \A s \in Shards : applied[s] <= applied'[s]
    BY <1>2, CountedGrows DEF RunLogged, RunMove, RunHang, FileInv, InFlightInv
  <2> QED BY <2>1, <2>2, RequestFile
<1>3. CASE Send(c)
  <2>1. pc[c] = "send" /\ UNCHANGED <<disk, handle, buffer, applied>>
    BY <1>3 DEF Send, store
  <2>2. chan' = Append(chan, out[c])
    BY <1>3 DEF Send, FileInv
  <2>3. /\ \A i \in DOMAIN disk : Fits(disk[i], out[c])
        /\ out[c] \in StampedLine
    BY <2>1, SentLineFits DEF FileInv
  <2>4. \A i \in DOMAIN chan' : \/ i \in DOMAIN chan /\ chan'[i] = chan[i]
                                \/ chan'[i] = out[c]
    BY <2>2, <2>3, AppendElements DEF FileInv, InFlightInv, TypeOK, WriterOK
  <2>5. Before(disk, chan')
    BY <2>3, <2>4 DEF FileInv, Before
  <2>6. Before(disk, buffer')
    BY <2>1 DEF FileInv
  <2>7. \A s \in Shards : applied[s] <= applied'[s]
    BY <2>1 DEF FileInv, InFlightInv, TypeOK, ClientsOK
  <2> QED BY <2>1, <2>5, <2>6, <2>7, SameFile
<1> QED BY <1>1, <1>2, <1>3 DEF ClientStep

LEMMA RecvFile ==
  ASSUME FileInv, InFlightInv', WriterRecv
  PROVE  FileInv'
<1> DEFINE filled == Append(buffer, Head(chan))
<1>1. UNCHANGED <<handle, applied>> /\ chan # <<>> /\ chan' = Tail(chan)
  BY DEF WriterRecv, store
<1>2. chan \in Seq(StampedLine) /\ buffer \in Seq(StampedLine)
  BY DEF FileInv, InFlightInv, TypeOK, WriterOK
<1>3. /\ Head(chan) \in StampedLine /\ 1 \in DOMAIN chan /\ Head(chan) = chan[1]
      /\ \A i \in DOMAIN Tail(chan) : /\ i \in Nat \ {0} /\ i + 1 \in DOMAIN chan
                                      /\ Tail(chan)[i] = chan[i + 1]
  BY <1>1, <1>2, TailElements
<1>4. /\ filled \in Seq(StampedLine)
      /\ \A i \in DOMAIN filled : \/ i \in DOMAIN buffer /\ filled[i] = buffer[i]
                                  \/ filled[i] = chan[1]
  BY <1>2, <1>3, AppendElements
<1>5. Before(disk, filled) /\ Before(disk, Tail(chan))
  BY <1>3, <1>4 DEF FileInv, Before
<1>6. InOrder(filled) /\ Bounded(filled) /\ Before(filled, Tail(chan))
  <2>1. \A i \in DOMAIN buffer : Fits(buffer[i], Head(chan))
    BY <1>3 DEF FileInv, InFlightInv, SendOrder, Before
  <2>2. InOrder(filled)
    BY <1>2, <1>3, <2>1, InOrderAppend DEF FileInv, InFlightInv, SendOrder
  <2>3. Bounded(filled)
    BY <1>3, <1>4 DEF FileInv, InFlightInv, Bounded
  <2>4. \A i \in DOMAIN buffer, j \in DOMAIN Tail(chan) : Fits(buffer[i], Tail(chan)[j])
    BY <1>3 DEF FileInv, InFlightInv, SendOrder, Before
  <2>5. \A j \in DOMAIN Tail(chan) : Fits(chan[1], Tail(chan)[j])
    BY <1>3 DEF FileInv, InFlightInv, SendOrder, InOrder
  <2>6. Before(filled, Tail(chan))
    BY <1>4, <2>4, <2>5 DEF Before
  <2> QED BY <2>2, <2>3, <2>6
<1> HIDE DEF filled
<1>7. CASE buffer' = filled /\ UNCHANGED disk
  <2>1. \A s \in Shards : applied[s] <= applied'[s]
    BY <1>1 DEF FileInv, InFlightInv, TypeOK, ClientsOK
  <2> QED BY <1>1, <1>5, <1>7, <2>1, SameFile
<1>8. CASE buffer' = <<>> /\ disk' = disk \o filled
  <2>1. Before(filled, buffer') /\ Before(disk, buffer')
    BY <1>8 DEF Before
  <2> QED BY <1>1, <1>4, <1>5, <1>6, <1>8, <2>1, ExtendedFile DEF FileInv
<1> QED BY <1>7, <1>8 DEF WriterRecv, Flushed, FileInv, filled

\* the first n lines of the buffer go to the file, and the buffer is emptied
LEMMA FlushFile ==
  ASSUME FileInv, InFlightInv', UNCHANGED applied,
         NEW n \in 0 .. Len(buffer), disk' = disk \o SubSeq(buffer, 1, n),
         buffer' = <<>>,
         chan' = <<>> \/ UNCHANGED chan
  PROVE  /\ handle' = "named" => FileInv'
         /\ handle' = "closed" => LooseFile'
<1> DEFINE more == SubSeq(buffer, 1, n)
<1>1. buffer \in Seq(StampedLine)
  BY DEF FileInv, InFlightInv, TypeOK, WriterOK
<1>2. more \in Seq(StampedLine) /\ \A i \in DOMAIN more : i \in DOMAIN buffer /\ more[i] = buffer[i]
  BY <1>1, PrefixElements
<1>3. InOrder(more)
  BY <1>1, InOrderPrefix DEF FileInv, InFlightInv, SendOrder
<1> HIDE DEF more
<1>4. Before(disk, more) /\ Bounded(more)
  BY <1>2 DEF FileInv, InFlightInv, Before, Bounded
<1>5. Before(more, chan) /\ Before(disk, chan)
  BY <1>2 DEF FileInv, InFlightInv, SendOrder, Before
<1>6. Before(more, chan') /\ Before(disk, chan')
  BY <1>5 DEF Before
<1>7. Before(more, buffer') /\ Before(disk, buffer')
  BY DEF Before
<1>8. disk' = disk \o more
  BY DEF more
<1> QED BY <1>2, <1>3, <1>4, <1>6, <1>7, <1>8, ExtendedFile

LEMMA WriterFile ==
  ASSUME FileInv, InFlightInv', WriterTick \/ FlushFails
  PROVE  FileInv'
<1>1. buffer \in Seq(StampedLine) /\ handle = "named" /\ Len(buffer) \in Nat
  BY DEF FileInv, InFlightInv, TypeOK, WriterOK
<1>2. CASE WriterTick
  <2>1. SubSeq(buffer, 1, Len(buffer)) = buffer
    BY <1>1
  <2>2. /\ disk' = disk \o buffer /\ buffer' = <<>>
        /\ UNCHANGED <<applied, handle, chan>>
    BY <1>1, <1>2 DEF WriterTick, Flushed, store
  <2> QED BY <1>1, <2>1, <2>2, FlushFile
<1>3. CASE FlushFails
  <2>1. buffer' = <<>> /\ UNCHANGED <<applied, handle, chan, disk>>
    BY <1>3 DEF FlushFails, store
  <2>2. Before(disk, buffer') /\ Before(disk, chan')
    BY <2>1 DEF FileInv, Before
  <2>3. \A s \in Shards : applied[s] <= applied'[s]
    BY <2>1 DEF FileInv, InFlightInv, TypeOK, ClientsOK
  <2> QED BY <2>1, <2>2, <2>3, SameFile
<1> QED BY <1>2, <1>3

\* the writer finds the file again at a restart, or none
LEMMA CrashFile ==
  ASSUME FileInv, InFlightInv', NEW h \in {"named", "closed"}, Crash(h)
  PROVE  IF h = "named" THEN FileInv' ELSE LooseFile'
<1>1. handle = "named"
  BY DEF FileInv
<1>2. PICK n \in 0 .. Len(buffer) : Restart(n, h)
  BY DEF Crash
<1>3. /\ disk' = disk \o SubSeq(buffer, 1, n) /\ buffer' = <<>> /\ chan' = <<>>
      /\ UNCHANGED applied /\ handle' = h
  BY <1>1, <1>2 DEF Restart, Flushed
<1> QED BY <1>3, FlushFile

LEMMA SweepFile ==
  ASSUME FileInv, InFlightInv', SweeperStep
  PROVE  FileInv'
<1>1. CASE SweepStart \/ SweepShard \/ SweepOpen
  <2>1. UNCHANGED <<disk, handle, buffer, chan>>
    BY <1>1 DEF SweepStart, SweepShard, SweepOpen, writer
  <2>2. \A s \in Shards : applied[s] <= applied'[s]
    <3>1. applied' = applied \/ \E S : applied' = Counted(S)
      BY <1>1 DEF SweepStart, SweepShard, SweepOpen, store
    <3>2. \A s \in Shards : applied[s] <= applied[s]
      BY DEF FileInv, InFlightInv, TypeOK, ClientsOK
    <3> QED BY <3>1, <3>2, CountedGrows DEF FileInv, InFlightInv
  <2> QED BY <2>1, <2>2, RequestFile
<1>2. ASSUME NEW k \in Keys, SweepLog(k)
      PROVE  FileInv'
  <2> DEFINE line == Stamp(Line(Del(k), FALSE), ShardOf[k], 0)
  <2>1. UNCHANGED <<applied, handle, buffer, chan>> /\ (disk' = Append(disk, line) \/ UNCHANGED disk)
    BY <1>2 DEF SweepLog, store, writer
  <2>2. line \in StampedLine /\ line.at = 0
    BY DEF Stamp, Line, Del, StampedLine, Command, PipelineAssumption
  <2> HIDE DEF line
  <2>3. applied[line.shard] \in Nat /\ \A s \in Shards : applied[s] <= applied'[s]
    <3>1. line.shard \in Shards
      BY <2>2 DEF StampedLine
    <3> QED BY <2>1, <3>1 DEF FileInv, InFlightInv, TypeOK, ClientsOK
  <2>4. CASE UNCHANGED disk
    BY <2>1, <2>3, <2>4, RequestFile
  <2>5. CASE disk' = Append(disk, line)
    <3> DEFINE more == <<line>>
    <3>1. more \in Seq(StampedLine) /\ DOMAIN more = {1} /\ more[1] = line
      BY <2>2
    <3>2. disk' = disk \o more
      BY <2>2, <2>5 DEF FileInv
    <3> HIDE DEF more
    <3>3. InOrder(more) /\ Bounded(more)
      BY <2>2, <2>3, <3>1 DEF InOrder, Bounded
    <3>4. /\ Before(disk, more)
          /\ Before(more, buffer') /\ Before(more, chan')
          /\ Before(disk, buffer') /\ Before(disk, chan')
      BY <2>1, <2>2, <3>1 DEF Before, Fits, FileInv
    <3> QED BY <2>1, <3>1, <3>2, <3>3, <3>4, ExtendedFile DEF FileInv
  <2> QED BY <2>1, <2>4, <2>5
<1> QED BY <1>1, <1>2 DEF SweeperStep

LEMMA UncompactedFile ==
  ASSUME FileInv, [UncompactedNext]_vars
  PROVE  FileInv'
<1>1. InFlightInv'
  BY NextInFlight DEF FileInv, UncompactedNext, Next
<1>2. CASE WriterRecv
  BY <1>1, <1>2, RecvFile
<1>3. CASE WriterTick \/ FlushFails \/ Crash("named")
  BY <1>1, <1>3, WriterFile, CrashFile
<1>4. CASE SweeperStep
  BY <1>1, <1>4, SweepFile
<1>5. ASSUME NEW c \in Clients, ClientStep(c)
      PROVE  FileInv'
  BY <1>1, <1>5, ClientFile
<1>6. CASE Tick \/ UNCHANGED vars
  <2>1. UNCHANGED <<disk, handle, buffer, chan, applied>>
    BY <1>6 DEF Tick, vars, store, writer
  <2>2. \A s \in Shards : applied[s] <= applied'[s]
    BY <2>1 DEF FileInv, InFlightInv, TypeOK, ClientsOK
  <2> QED BY <1>1, <2>1, <2>2, RequestFile
<1> QED BY <1>2, <1>3, <1>4, <1>5, <1>6 DEF UncompactedNext, Core

(***************************************************************************)
(* The file, too, has the lines of each shard in the order of the changes, *)
(* through flushes that fail, sweeps and crashes: replay never takes an    *)
(* older command for the newer one.                                        *)
(***************************************************************************)
THEOREM FileInOrder == UncompactedSpec => []LogOrder
<1>1. Init => FileInv
  <2> SUFFICES ASSUME Init PROVE FileInv
    OBVIOUS
  <2>1. InFlightInv
    BY InitInFlight DEF Init
  <2>2. handle = "named" /\ disk = <<>>
    BY DEF Init, InitWith
  <2>3. disk \in Seq(StampedLine) /\ Bounded(disk) /\ InOrder(disk)
        /\ Before(disk, buffer) /\ Before(disk, chan)
    BY <2>2 DEF Bounded, InOrder, Before
  <2> QED BY <2>1, <2>2, <2>3 DEF FileInv
<1>2. FileInv /\ [UncompactedNext]_vars => FileInv'
  BY UncompactedFile
<1>3. FileInv => LogOrder
  BY DEF FileInv, InFlightInv, LogOrder
<1> QED BY <1>1, <1>2, <1>3, PTL DEF UncompactedSpec, UncompactedNext

-----------------------------------------------------------------------------
(* The lines on their way to the file, and those in it, as one log.        *)

Log == disk \o InFlight

LEMMA Regrouped ==
  ASSUME NEW S, NEW a \in Seq(S), NEW b \in Seq(S), NEW c \in Seq(S)
  PROVE  /\ (a \o b) \o c = a \o (b \o c)
         /\ \A x \in S : (a \o <<x>>) \o c = a \o (<<x>> \o c)
         /\ \A x \in S : a \o Append(b, x) = Append(a \o b, x)
<1>1. (a \o b) \o c = a \o (b \o c)
  BY ConcatAssociative, SMTT(60)
<1>2. ASSUME NEW x \in S
      PROVE  /\ (a \o <<x>>) \o c = a \o (<<x>> \o c)
             /\ a \o Append(b, x) = Append(a \o b, x)
  <2>1. <<x>> \in Seq(S) /\ a \o b \in Seq(S)
    OBVIOUS
  <2>2. (a \o <<x>>) \o c = a \o (<<x>> \o c)
    BY <2>1, ConcatAssociative, SMTT(60)
  <2>3. a \o (b \o <<x>>) = (a \o b) \o <<x>>
    BY <2>1, ConcatAssociative, SMTT(60)
  <2>4. Append(b, x) = b \o <<x>>
    BY AppendIsConcat, Zenon
  <2>5. Append(a \o b, x) = (a \o b) \o <<x>>
    BY <2>1, AppendIsConcat, Zenon
  <2> QED BY <2>2, <2>3, <2>4, <2>5
<1> QED BY <1>1, <1>2

LEMMA LogParts ==
  ASSUME FileInv
  PROVE  /\ handle = "named"
         /\ disk \in Seq(StampedLine) /\ buffer \in Seq(StampedLine)
         /\ chan \in Seq(StampedLine)
         /\ InFlight \in Seq(StampedLine) /\ Log \in Seq(StampedLine)
         /\ Len(Log) = Len(disk) + Len(buffer) + Len(chan)
         /\ Len(disk) \in Nat /\ Len(buffer) \in Nat /\ Len(chan) \in Nat
<1>1. /\ handle = "named" /\ disk \in Seq(StampedLine)
      /\ buffer \in Seq(StampedLine) /\ chan \in Seq(StampedLine)
  BY DEF FileInv, InFlightInv, TypeOK, WriterOK
<1> QED BY <1>1, ConcatProperties, LenProperties DEF InFlight, Log

\* moving lines on towards the file leaves the log as it is
LEMMA MovedOn ==
  ASSUME FileInv, WriterRecv \/ WriterTick
  PROVE  Log' = Log /\ (disk' = disk \/ Len(disk') \in Len(disk) + 1 .. Len(Log))
<1>1. CASE WriterTick
  <2>1. disk' = disk \o buffer /\ InFlight' = <<>> \o chan /\ buffer # <<>>
    BY <1>1, LogParts DEF WriterTick, Flushed, InFlight
  <2>2. Log' = Log
    BY <2>1, LogParts, ConcatAssociative, ConcatProperties, ConcatEmptySeq DEF Log, InFlight
  <2>3. Len(disk') \in Len(disk) + 1 .. Len(Log)
    BY <2>1, LogParts, ConcatProperties
  <2> QED BY <2>2, <2>3
<1>2. CASE WriterRecv
  <2> DEFINE filled == Append(buffer, Head(chan))
  <2>1. /\ chan # <<>> /\ chan' = Tail(chan)
        /\ \/ buffer' = <<>> /\ disk' = disk \o filled
           \/ buffer' = filled /\ disk' = disk
    BY <1>2, LogParts DEF WriterRecv, Flushed
  <2>2. /\ Head(chan) \in StampedLine /\ Tail(chan) \in Seq(StampedLine)
        /\ filled \in Seq(StampedLine) /\ Len(filled) = Len(buffer) + 1
        /\ Len(Tail(chan)) = Len(chan) - 1
    BY <2>1, LogParts
  <2>3. filled \o Tail(chan) = buffer \o chan
    <3>1. chan = <<Head(chan)>> \o Tail(chan)
      BY <2>1, LogParts
    <3>2. filled = buffer \o <<Head(chan)>>
      BY <2>2, LogParts, AppendIsConcat
    <3>3. <<Head(chan)>> \in Seq(StampedLine)
      BY <2>2
    <3>4. (buffer \o <<Head(chan)>>) \o Tail(chan) = buffer \o (<<Head(chan)>> \o Tail(chan))
      <4> DEFINE S == StampedLine  h == Head(chan)  t == Tail(chan)
      <4>1. buffer \in Seq(S) /\ t \in Seq(S) /\ h \in S
        BY <2>2, LogParts
      <4> HIDE DEF S, h, t
      <4>2. (buffer \o <<h>>) \o t = buffer \o (<<h>> \o t)
        BY <4>1, Regrouped
      <4> QED BY <4>2 DEF h, t
    <3> HIDE DEF filled
    <3> QED BY <3>1, <3>2, <3>4
  <2> HIDE DEF filled
  <2>4. CASE buffer' = <<>> /\ disk' = disk \o filled
    <3>1. Log' = (disk \o filled) \o Tail(chan)
      BY <2>1, <2>2, <2>4, ConcatEmptySeq DEF Log, InFlight
    <3>2. Log' = Log
      <4>1. disk \in Seq(StampedLine)
        BY LogParts
      <4>2. (disk \o filled) \o Tail(chan) = disk \o (filled \o Tail(chan))
        <5> DEFINE S == StampedLine  t == Tail(chan)
        <5>1. disk \in Seq(S) /\ filled \in Seq(S) /\ t \in Seq(S)
          BY <2>2, <4>1
        <5> HIDE DEF S, t
        <5>2. (disk \o filled) \o t = disk \o (filled \o t)
          BY <5>1, Regrouped
        <5> QED BY <5>2 DEF t
      <4> QED BY <2>3, <3>1, <4>2 DEF Log, InFlight
    <3>3. Len(disk') = Len(disk) + Len(filled) /\ Len(chan) > 0
      <4>1. disk \in Seq(StampedLine) /\ chan \in Seq(StampedLine)
        BY LogParts
      <4>2. Len(disk \o filled) = Len(disk) + Len(filled)
        BY <2>2, <4>1, ConcatProperties, Zenon
      <4> QED BY <2>1, <2>4, <4>1, <4>2
    <3> QED BY <2>2, <3>2, <3>3, LogParts
  <2>5. CASE buffer' = filled /\ disk' = disk
    BY <2>1, <2>3, <2>5 DEF Log, InFlight
  <2> QED BY <2>1, <2>4, <2>5
<1> QED BY <1>1, <1>2

\* a line that is sent joins the end
LEMMA Joined ==
  ASSUME FileInv, NEW c \in Clients, Send(c)
  PROVE  out[c] \in StampedLine /\ Log' = Append(Log, out[c]) /\ disk' = disk
<1>1. /\ chan' = Append(chan, out[c]) /\ UNCHANGED <<disk, buffer>> /\ out[c] \in StampedLine
  BY LogParts DEF Send, FileInv, InFlightInv, TypeOK, ClientsOK
<1>2. Log' = disk \o (buffer \o Append(chan, out[c]))
  BY <1>1 DEF Log, InFlight
<1> DEFINE S == StampedLine  x == out[c]
<1>3. disk \in Seq(S) /\ buffer \in Seq(S) /\ chan \in Seq(S) /\ buffer \o chan \in Seq(S) /\ x \in S
  BY <1>1, LogParts DEF InFlight
<1> HIDE DEF S, x
<1>4. buffer \o Append(chan, x) = Append(buffer \o chan, x)
  BY <1>3, Regrouped
<1>5. disk \o Append(buffer \o chan, x) = Append(disk \o (buffer \o chan), x)
  BY <1>3, Regrouped
<1> QED BY <1>1, <1>2, <1>4, <1>5 DEF Log, InFlight, x

\* a crash cuts the log somewhere past the file
LEMMA Cut ==
  ASSUME FileInv, NEW n \in 0 .. Len(buffer), Restart(n, "named")
  PROVE  /\ Log' = disk' /\ disk' = SubSeq(Log, 1, Len(disk) + n) /\ disk' \in Seq(StampedLine)
         /\ Len(disk') = Len(disk) + n /\ Len(disk) + n \in Len(disk) .. Len(Log)
<1>1. disk' = disk \o SubSeq(buffer, 1, n) /\ buffer' = <<>> /\ chan' = <<>>
  BY LogParts DEF Restart, Flushed
<1>2. /\ SubSeq(buffer, 1, n) \in Seq(StampedLine) /\ Len(SubSeq(buffer, 1, n)) = n
      /\ \A i \in 1 .. n : SubSeq(buffer, 1, n)[i] = buffer[i]
  BY LogParts
<1>3. disk' \in Seq(StampedLine) /\ Len(disk') = Len(disk) + n
  <2> DEFINE more == SubSeq(buffer, 1, n)
  <2>1. more \in Seq(StampedLine) /\ Len(more) = n /\ disk \in Seq(StampedLine)
    BY <1>2, LogParts
  <2> HIDE DEF more
  <2>2. disk \o more \in Seq(StampedLine) /\ Len(disk \o more) = Len(disk) + Len(more)
    BY <2>1, ConcatProperties, Zenon
  <2> QED BY <1>1, <2>1, <2>2 DEF more
<1>4. Log' = disk'
  BY <1>1, <1>3, ConcatEmptySeq DEF Log, InFlight
<1>5. Len(disk) + n \in Len(disk) .. Len(Log)
  BY LogParts
<1>6. SubSeq(Log, 1, Len(disk) + n) \in Seq(StampedLine) /\ Len(SubSeq(Log, 1, Len(disk) + n)) = Len(disk) + n
  BY <1>5, LogParts
<1>7. \A i \in 1 .. Len(disk) + n : disk'[i] = SubSeq(Log, 1, Len(disk) + n)[i]
  <2> TAKE i \in 1 .. Len(disk) + n
  <2>1. SubSeq(Log, 1, Len(disk) + n)[i] = Log[i]
    BY <1>5, LogParts
  <2>2. Log[i] = IF i <= Len(disk) THEN disk[i] ELSE InFlight[i - Len(disk)]
    BY <1>5, LogParts, ConcatProperties DEF Log
  <2>3. disk'[i] = IF i <= Len(disk) THEN disk[i] ELSE SubSeq(buffer, 1, n)[i - Len(disk)]
    BY <1>1, <1>2, LogParts, ConcatProperties
  <2>4. CASE i <= Len(disk)
    BY <2>1, <2>2, <2>3, <2>4
  <2>5. CASE ~(i <= Len(disk))
    <3>1. i - Len(disk) \in 1 .. n /\ i - Len(disk) \in 1 .. Len(buffer)
      BY <2>5, LogParts
    <3>2. InFlight[i - Len(disk)] = buffer[i - Len(disk)]
      BY <3>1, LogParts, ConcatProperties DEF InFlight
    <3> QED BY <1>2, <2>1, <2>2, <2>3, <2>5, <3>1, <3>2
  <2> QED BY <2>4, <2>5
<1>8. disk' = SubSeq(Log, 1, Len(disk) + n)
  BY <1>3, <1>6, <1>7, SeqEqual
<1> QED BY <1>3, <1>4, <1>5, <1>8

\* nothing else touches the log
LEMMA LeftAlone ==
  ASSUME FileInv,
         \/ Tick \/ UNCHANGED vars
         \/ \E c \in Clients : \/ \E q \in Commands : Request(c, q)
                               \/ RunQuiet(c) \/ RunLogged(c) \/ RunMove(c) \/ RunHang(c)
  PROVE  Log' = Log /\ disk' = disk
BY DEF Log, InFlight, Tick, vars, Request, RunQuiet, RunLogged, RunMove, RunHang, writer

LEMMA DurableStep ==
  ASSUME FileInv, [Core \/ Crash("named")]_vars
  PROVE  [Durable!Next]_(Durable!vars)
<1>1. CASE WriterRecv \/ WriterTick
  BY <1>1, MovedOn DEF Durable!Next, Durable!Harden, Durable!vars, Log
<1>2. ASSUME NEW c \in Clients, Send(c) PROVE Durable!Next
  <2>1. out[c] \in StampedLine /\ Log' = Append(Log, out[c]) /\ disk' = disk
    BY <1>2, Joined
  <2>2. Len(Log') = Len(Log) + 1 /\ Durable!IsPrefix(Log, Log')
    <3>1. Log \in Seq(StampedLine) /\ Log' \in Seq(StampedLine)
      BY <2>1, LogParts
    <3>2. Len(Log') = Len(Log) + 1 /\ \A i \in 1 .. Len(Log) : Log'[i] = Log[i]
      BY <2>1, <3>1
    <3>3. SubSeq(Log, 1, Len(Log)) = SubSeq(Log', 1, Len(Log))
      BY <3>1, <3>2
    <3>4. Len(Log) <= Len(Log')
      BY <3>1, <3>2
    <3> QED BY <3>2, <3>3, <3>4 DEF Durable!IsPrefix
  <2>3. Durable!Accept
    BY <2>1, <2>2 DEF Durable!Accept, Log
  <2> QED BY <2>3 DEF Durable!Next
<1>3. ASSUME NEW n \in 0 .. Len(buffer), Restart(n, "named") PROVE Durable!Next
  BY <1>3, Cut DEF Durable!Next, Durable!Lose, Log
<1>4. CASE \/ Tick \/ UNCHANGED vars
           \/ \E c \in Clients : \/ \E q \in Commands : Request(c, q)
                                 \/ RunQuiet(c) \/ RunLogged(c) \/ RunMove(c) \/ RunHang(c)
  BY <1>4, LeftAlone DEF Durable!vars, Log
<1> QED BY <1>1, <1>2, <1>3, <1>4 DEF Core, ClientStep, Crash

LEMMA InitFile == Init => FileInv
<1> SUFFICES ASSUME Init PROVE FileInv
  OBVIOUS
<1>1. InFlightInv
  BY InitInFlight DEF Init
<1>2. handle = "named" /\ disk = <<>>
  BY DEF Init, InitWith
<1>3. /\ disk \in Seq(StampedLine) /\ Bounded(disk) /\ InOrder(disk)
      /\ Before(disk, buffer) /\ Before(disk, chan)
  BY <1>2 DEF Bounded, InOrder, Before
<1> QED BY <1>1, <1>2, <1>3 DEF FileInv

(***************************************************************************)
(* Without the sweeper and the compactor, file, buffer and channel are one *)
(* durable log: lines join its end, the file is its stable part, and a     *)
(* crash cuts it somewhere past the file.  Nothing is lost from its        *)
(* middle, reordered or written twice (main.rs 300-330).                   *)
(***************************************************************************)
THEOREM LogIsDurable == CrashSpec => ImplementsDurableLog
<1>1. Init => Durable!Init
  BY DEF Init, InitWith, Durable!Init, InFlight
<1>2. FileInv /\ [Core \/ Crash("named")]_vars => FileInv'
  BY UncompactedFile DEF UncompactedNext
<1>3. FileInv /\ [Core \/ Crash("named")]_vars => [Durable!Next]_(Durable!vars)
  BY DurableStep
<1> QED BY <1>1, <1>2, <1>3, InitFile, PTL DEF CrashSpec, ImplementsDurableLog, Durable!Spec

-----------------------------------------------------------------------------
(***************************************************************************)
(* Memory and the log.  A handler of one key keeps its shard locked from   *)
(* the change to the sending of the line, so that at most one change of a  *)
(* shard is ahead of the log.  The invariant goes shard by shard: one that *)
(* nobody is sending for is what the log says, and one that a client is    *)
(* sending for is what the log and the client's line say.                  *)
(***************************************************************************)

\* the lines of handlers of one key, stamped under the lock of its shard
ShardLine ==
  {l \in StampedLine : /\ Loggable(l.cmd) /\ l.at # 0
                       /\ \A k \in KeysOf(l.cmd) : ShardOf[k] = l.shard}

Sends(c, s) == pc[c] = "send" /\ out[c].shard = s

\* what replay makes of the log at instant u, seen from shard s
SaysShard(u, s) ==
  /\ (\A c \in Clients : ~Sends(c, s)) => Like(Replay(Log, u), db, KeysIn(s))
  /\ \A c \in Clients : Sends(c, s) =>
       \A x : Like(x, Replay(Log, u), KeysIn(s)) =>
                Like(ReplayLine(x, out[c], u), db, KeysIn(s))

LinesOK ==
  /\ IsDatabase(db)
  /\ Log \in Seq(ShardLine)
  /\ \A c \in Clients : pc[c] = "send" => out[c] \in ShardLine

MemoryInv ==
  /\ FileInv
  /\ LinesOK
  /\ \A u \in Nat, s \in Shards : SaysShard(u, s)

\* the commands of clients that replay_aof has an arm for, and that are
\* logged under the lock of their shard
Faithful == \A q \in Commands : Legible(q) /\ q.op \notin {"LTRIM", "RPOPLPUSH"}

LEMMA SendersApart ==
  ASSUME FileInv, LinesOK, NEW c \in Clients, NEW s \in Shards, Sends(c, s)
  PROVE  guard[s] = c /\ guard[s] # Free /\ \A d \in Clients : Sends(d, s) => d = c
<1>1. \A d \in Clients : Sends(d, s) => guard[s] = d
  BY DEF FileInv, InFlightInv, SendersHold, Sends, LinesOK, ShardLine
<1> QED BY <1>1

LEMMA LineApart ==
  ASSUME NEW line \in ShardLine, NEW s \in Shards, s # line.shard, NEW r, NEW u
  PROVE  /\ line.cmd \in Command
         /\ Like(ReplayLine(r, line, u), r, KeysIn(s)) /\ Like(r, ReplayLine(r, line, u), KeysIn(s))
<1>1. line.cmd \in Command /\ KeysIn(s) \cap KeysOf(line.cmd) = {}
  BY DEF ShardLine, Loggable, KeysIn
<1>2. SameBut(ReplayLine(r, line, u), r, KeysOf(line.cmd))
  BY <1>1, ReplayFrame
<1> QED BY <1>1, <1>2, LikeLike

\* what keeps log, database and senders keeps the invariant
LEMMA MemoryFrame ==
  ASSUME MemoryInv, FileInv', Log' = Log, db' = db,
         \A c \in Clients : (pc'[c] = "send" <=> pc[c] = "send") /\ out'[c] = out[c]
  PROVE  MemoryInv'
<1>1. LinesOK'
  BY DEF MemoryInv, LinesOK, IsDatabase
<1>2. ASSUME NEW u \in Nat, NEW s \in Shards PROVE SaysShard(u, s)'
  <2>1. SaysShard(u, s) /\ \A c \in Clients : Sends(c, s)' <=> Sends(c, s)
    BY DEF MemoryInv, Sends
  <2> QED BY <2>1 DEF SaysShard
<1> QED BY <1>1, <1>2 DEF MemoryInv

\* what a handler that sends a line does
LEMMA RunsCommand ==
  ASSUME Faithful, MemoryInv, NEW c \in Clients, Locked(c)
  PROVE  /\ cmd[c] \in Command /\ cmd[c].op \notin {"LTRIM", "RPOPLPUSH"} /\ Legible(cmd[c])
         /\ KeysOf(cmd[c]) = {cmd[c].key} /\ Home(c) \in Shards /\ guard[Home(c)] = Free
         /\ \E t \in Nat : Outcome(c) = Exec(db, cmd[c], t)
         /\ Outcome(c).reply # Hang
<1>1. /\ cmd[c] \in Commands /\ cmd[c] \in Command /\ Home(c) \in Shards
      /\ asked[c] \in Nat /\ now \in Nat
  BY HomeType DEF Locked, MemoryInv, FileInv, InFlightInv, TypeOK, ClientsOK
<1>2. cmd[c].op \notin {"LTRIM", "RPOPLPUSH"} /\ Legible(cmd[c]) /\ KeysOf(cmd[c]) = {cmd[c].key}
  BY <1>1 DEF Faithful, KeysOf
<1>3. guard[Home(c)] = Free
  BY <1>2 DEF Locked, Home, ShardsOf
<1>4. PICK t \in Nat : Outcome(c) = Exec(db, cmd[c], t)
  BY <1>1 DEF Outcome
<1>5. Exec(db, cmd[c], t).reply # Hang
  BY <1>1, <1>2, OnlyTrimHangs
<1> QED BY <1>1, <1>2, <1>3, <1>4, <1>5

LEMMA RunMemory ==
  ASSUME Faithful, MemoryInv, FileInv', NEW c \in Clients, RunLogged(c)
  PROVE  MemoryInv'
<1> DEFINE q == cmd[c]
           h == Home(c)
           line == Stamp(Sent(q), h, applied[h] + 1)
<1>1. /\ q \in Command /\ q.op \notin {"LTRIM", "RPOPLPUSH"} /\ Legible(q)
      /\ KeysOf(q) = {q.key} /\ h \in Shards /\ guard[h] = Free /\ h = ShardOf[q.key]
  BY RunsCommand DEF RunLogged, Home
<1>2. PICK t \in Nat : Outcome(c) = Exec(db, q, t)
  BY RunsCommand DEF RunLogged
<1>3. /\ Exec(db, q, t).line = Sent(q) /\ (q.op = "SETEX" => q.secs >= 0)
  <2>1. Exec(db, q, t).line # NoLine
    BY <1>2 DEF RunLogged
  <2> HIDE DEF q
  <2> QED BY <1>1, <2>1, Outcomes DEF Untold
<1>4. Sent(q) \in LogLine /\ Sent(q) # NoLine /\ Loggable(Sent(q).cmd)
  BY <1>1, <1>3, SentLine
<1>5. KeysOf(Sent(q).cmd) = {q.key}
  <2> HIDE DEF q
  <2> QED BY <1>1 DEF Sent, Line, Del, KeysOf
<1>6. /\ db' = Exec(db, q, t).db
      /\ pc' = [pc EXCEPT ![c] = "send"]
      /\ out' = [out EXCEPT ![c] = line]
      /\ Log' = Log
  BY <1>2, <1>3, LeftAlone DEF RunLogged, MemoryInv
<1>7. /\ DOMAIN pc = Clients /\ DOMAIN out = Clients /\ pc[c] = "wait"
      /\ applied[h] \in Nat
  <2>1. ClientsOK
    BY DEF MemoryInv, FileInv, InFlightInv, TypeOK
  <2> QED BY <1>1, <2>1 DEF ClientsOK, RunLogged, Locked
<1>8. /\ line \in ShardLine /\ line.shard = h
      /\ line.cmd = Sent(q).cmd /\ line.quoted = Sent(q).quoted
  BY <1>1, <1>4, <1>5, <1>7 DEF Stamp, ShardLine, StampedLine, LogLine
<1>9. /\ Did(db, q, t, db') /\ SameBut(db', db, {q.key})
      /\ IsDatabase(db')
  <2>1. Did(db, q, t, Exec(db, q, t).db) /\ IsDatabase(Exec(db, q, t).db)
    BY <1>1, <1>3, <1>4, SenderDid, ExecType DEF MemoryInv, LinesOK
  <2>2. db' = Exec(db, q, t).db
    BY <1>6
  <2> HIDE DEF q
  <2>3. SameBut(db', db, KeysOf(q))
    BY <1>1, <2>1, <2>2, DidFrame
  <2> QED BY <1>1, <2>1, <2>2, <2>3
<1> HIDE DEF q, line
<1>10. \A d \in Clients, s \in Shards : Sends(d, s)' <=> Sends(d, s) \/ (d = c /\ s = h)
  BY <1>6, <1>7, <1>8 DEF Sends
<1>11. \A d \in Clients : ~Sends(d, h) /\ out'[c] = line /\ (d # c => out'[d] = out[d])
  BY <1>1, <1>6, <1>7, SendersApart DEF MemoryInv
<1>12. LinesOK'
  BY <1>6, <1>7, <1>8, <1>9, <1>11 DEF LinesOK, MemoryInv
<1>13. ASSUME NEW u \in Nat, NEW s \in Shards PROVE SaysShard(u, s)'
  <2>1. SaysShard(u, s)
    BY DEF MemoryInv
  <2>2. CASE s = h
    <3>1. Like(Replay(Log, u), db, KeysIn(h))
      BY <1>11, <2>1, <2>2 DEF SaysShard
    <3>2. ASSUME NEW x, Like(x, Replay(Log, u), KeysIn(h))
          PROVE  Like(ReplayLine(x, line, u), db', KeysIn(h))
      <4>1. Like(x, db, KeysIn(h)) /\ KeysOf(q) \subseteq KeysIn(h)
        BY <1>1, <3>1, <3>2, LikeLike, CommandFields DEF KeysIn
      <4>2. Like(ReplayLine(x, Sent(q), u), Exec(db, q, t).db, KeysIn(h))
        BY <1>1, <1>3, <1>4, <4>1, HandlerReplays
      <4>3. ReplayLine(x, line, u) = ReplayLine(x, Sent(q), u)
        BY <1>8 DEF ReplayLine, ReadsBack, Bare, Written
      <4> QED BY <1>6, <4>2, <4>3
    <3>3. /\ Sends(c, s)' /\ \A d \in Clients : Sends(d, s)' => d = c
      BY <1>10, <1>11, <2>2
    <3> QED BY <1>6, <1>11, <2>2, <3>2, <3>3 DEF SaysShard
  <2>3. CASE s # h
    <3>1. \A d \in Clients : Sends(d, s)' <=> Sends(d, s)
      BY <1>10, <2>3
    <3>2. KeysIn(s) \cap {q.key} = {}
      BY <1>1, <2>3 DEF KeysIn
    <3>3. Like(db, db', KeysIn(s))
      BY <1>9, <3>2, LikeLike
    <3>4. \A d \in Clients : Sends(d, s) => out'[d] = out[d]
      BY <1>7, <1>11 DEF Sends
    <3>5. \A x : Like(x, db, KeysIn(s)) => Like(x, db', KeysIn(s))
      BY <3>3, LikeLike
    <3> QED BY <1>6, <2>1, <3>1, <3>4, <3>5 DEF SaysShard
  <2> QED BY <2>2, <2>3
<1> QED BY <1>12, <1>13 DEF MemoryInv

LEMMA SendMemory ==
  ASSUME MemoryInv, FileInv', NEW c \in Clients, Send(c)
  PROVE  MemoryInv'
<1> DEFINE line == out[c]
<1>1. /\ Log' = Append(Log, line) /\ db' = db /\ pc[c] = "send"
  BY Joined DEF Send, MemoryInv, store
<1>2. /\ line \in ShardLine /\ Log \in Seq(ShardLine) /\ line.shard \in Shards
      /\ \A d \in Clients : pc[d] = "send" => out[d] \in ShardLine
  <2>1. line \in ShardLine /\ Log \in Seq(ShardLine)
        /\ \A d \in Clients : pc[d] = "send" => out[d] \in ShardLine
    BY <1>1 DEF MemoryInv, LinesOK
  <2> HIDE DEF line
  <2> QED BY <2>1 DEF ShardLine, StampedLine
<1>3. /\ DOMAIN pc = Clients /\ DOMAIN out = Clients
      /\ pc' = [pc EXCEPT ![c] = "idle"] /\ out' = [out EXCEPT ![c] = NoLine]
  <2>1. ClientsOK
    BY DEF MemoryInv, FileInv, InFlightInv, TypeOK
  <2> QED BY <2>1 DEF ClientsOK, Send, Finish
<1>4. pc'[c] # "send" /\ \A d \in Clients : d # c => pc'[d] = pc[d] /\ out'[d] = out[d]
  BY <1>3
<1>5. \A d \in Clients, s \in Shards : Sends(d, s)' <=> Sends(d, s) /\ d # c
  BY <1>4 DEF Sends
<1>6. LinesOK'
  <2>1. Append(Log, line) \in Seq(ShardLine)
    BY <1>2
  <2> HIDE DEF line
  <2> QED BY <1>1, <1>2, <1>4, <2>1 DEF LinesOK, MemoryInv, IsDatabase
<1>7. Sends(c, line.shard)
  BY <1>1 DEF Sends
<1> HIDE DEF line
<1>8. ASSUME NEW u \in Nat, NEW s \in Shards PROVE SaysShard(u, s)'
  <2>1. SaysShard(u, s)
    BY DEF MemoryInv
  <2>2. Replay(Log', u) = ReplayLine(Replay(Log, u), line, u)
    BY <1>1, <1>2, ReplayOneMore
  <2>3. CASE s = line.shard
    <3>1. \A d \in Clients : ~Sends(d, s)'
      BY <1>2, <1>5, <1>7, <2>3, SendersApart DEF MemoryInv
    <3>2. Like(ReplayLine(Replay(Log, u), out[c], u), db, KeysIn(s))
      BY <1>7, <2>1, <2>3, LikeLike DEF SaysShard
    <3> QED BY <1>1, <2>2, <3>1, <3>2 DEF SaysShard, line
  <2>4. CASE s # line.shard
    <3>1. Like(Replay(Log', u), Replay(Log, u), KeysIn(s))
      BY <1>2, <2>2, <2>4, LineApart
    <3>2. \A d \in Clients : Sends(d, s)' <=> Sends(d, s)
      BY <1>5, <1>7, <2>4 DEF Sends, line
    <3>3. \A d \in Clients : Sends(d, s)' => out'[d] = out[d]
      BY <1>4, <1>5
    <3>4. \A x : Like(x, Replay(Log', u), KeysIn(s)) => Like(x, Replay(Log, u), KeysIn(s))
      BY <3>1, LikeLike
    <3>5. \A x : Like(Replay(Log, u), x, KeysIn(s)) => Like(Replay(Log', u), x, KeysIn(s))
      BY <3>1, LikeLike
    <3> QED BY <1>1, <2>1, <3>2, <3>3, <3>4, <3>5 DEF SaysShard
  <2> QED BY <2>3, <2>4
<1> QED BY <1>6, <1>8 DEF MemoryInv

LEMMA CrashMemory ==
  ASSUME MemoryInv, FileInv', NEW n \in 0 .. Len(buffer), Restart(n, "named")
  PROVE  MemoryInv'
<1>1. /\ Log' = disk' /\ disk' = SubSeq(Log, 1, Len(disk) + n)
      /\ Len(disk) + n \in Len(disk) .. Len(Log)
  BY Cut DEF MemoryInv
<1>2. db' = Replay(Log', now) /\ now \in Nat /\ \A c \in Clients : pc'[c] # "send"
  BY <1>1 DEF Restart, MemoryInv, FileInv, InFlightInv, TypeOK
<1>3. Log' \in Seq(ShardLine)
  <2>1. Log \in Seq(ShardLine) /\ Len(disk) + n \in 0 .. Len(Log)
    BY <1>1, LogParts DEF MemoryInv, LinesOK
  <2>2. SubSeq(Log, 1, Len(disk) + n) \in Seq(ShardLine)
    BY <2>1, PrefixElements
  <2> QED BY <1>1, <2>2
<1>4. \A line \in ShardLine : Loggable(line.cmd) /\ line.cmd \in Command
  BY DEF ShardLine, Loggable
<1>5. IsDatabase(db')
  BY <1>2, <1>3, <1>4, ReplayType
<1>6. LinesOK'
  BY <1>2, <1>3, <1>5 DEF LinesOK, IsDatabase
<1>7. ASSUME NEW u \in Nat, NEW s \in Shards PROVE SaysShard(u, s)'
  <2>1. Like(Replay(Log', u), db', Keys)
    BY <1>2, <1>3, <1>4, ReplayClocks
  <2>2. Like(Replay(Log', u), db', KeysIn(s))
    BY <2>1 DEF Like, KeysIn
  <2> QED BY <1>2, <2>2 DEF SaysShard, Sends
<1> QED BY <1>6, <1>7 DEF MemoryInv

LEMMA MemoryStep ==
  ASSUME Faithful, MemoryInv, [Core \/ Crash("named")]_vars
  PROVE  MemoryInv'
<1>1. FileInv'
  BY UncompactedFile DEF UncompactedNext, MemoryInv
<1>2. CASE WriterRecv \/ WriterTick
  <2>1. Log' = Log
    BY <1>2, MovedOn DEF MemoryInv
  <2>2. UNCHANGED <<db, pc, out>>
    BY <1>2 DEF WriterRecv, WriterTick, store, clients
  <2> QED BY <1>1, <2>1, <2>2, MemoryFrame
<1>3. CASE Tick \/ UNCHANGED vars
  <2>1. Log' = Log
    BY <1>3, LeftAlone DEF MemoryInv
  <2>2. UNCHANGED <<db, pc, out>>
    BY <1>3 DEF Tick, vars, store, clients
  <2> QED BY <1>1, <2>1, <2>2, MemoryFrame
<1>4. ASSUME NEW c \in Clients, ClientStep(c) PROVE MemoryInv'
  <2>1. CASE (\E q \in Commands : Request(c, q)) \/ RunQuiet(c)
    <3>1. Log' = Log
      BY <2>1, LeftAlone DEF MemoryInv
    <3>2. UNCHANGED <<db, out>> /\ (pc' = [pc EXCEPT ![c] = "wait"] \/ pc' = [pc EXCEPT ![c] = "idle"])
          /\ pc[c] # "send"
      BY <2>1 DEF Request, RunQuiet, Locked, Finish, store
    <3>3. DOMAIN pc = Clients
      BY DEF MemoryInv, FileInv, InFlightInv, TypeOK, ClientsOK
    <3>4. \A d \in Clients : pc'[d] = "send" <=> pc[d] = "send"
      BY <3>2, <3>3
    <3> QED BY <1>1, <3>1, <3>2, <3>4, MemoryFrame
  <2>2. CASE RunLogged(c)
    BY <1>1, <2>2, RunMemory
  <2>3. ~RunMove(c) /\ ~RunHang(c)
    BY RunsCommand DEF RunMove, RunHang
  <2>4. CASE Send(c)
    BY <1>1, <2>4, SendMemory
  <2> QED BY <1>4, <2>1, <2>2, <2>3, <2>4 DEF ClientStep
<1>5. CASE Crash("named")
  BY <1>1, <1>5, CrashMemory DEF Crash
<1> QED BY <1>2, <1>3, <1>4, <1>5 DEF Core

LEMMA InitMemory == Init => MemoryInv
<1> SUFFICES ASSUME Init PROVE MemoryInv
  OBVIOUS
<1>1. /\ db = EmptyDb /\ disk = <<>> /\ InFlight = <<>> \o <<>>
      /\ \A c \in Clients : pc[c] # "send"
  BY DEF Init, InitWith, InFlight
<1>2. Log = <<>>
  BY <1>1 DEF Log
<1>3. LinesOK
  BY <1>1, <1>2, EmptyType DEF LinesOK
<1>4. \A u, s : Like(Replay(Log, u), db, KeysIn(s))
  BY <1>1, <1>2, ReplayNothing, LikeLike
<1>5. \A u \in Nat, s \in Shards : SaysShard(u, s)
  BY <1>1, <1>4 DEF SaysShard, Sends
<1> QED BY <1>3, <1>5, InitFile DEF MemoryInv

-----------------------------------------------------------------------------
(* The lines still being sent come at the end, in some order of their      *)
(* clients: they are for different shards.                                 *)

Senders == {c \in Clients : pc[c] = "send"}

LEMMA SendersListed ==
  ASSUME FileInv, LinesOK
  PROVE  /\ Pending \in Seq(ShardLine)
         /\ \A i \in 1 .. Len(Pending) : \E c \in Senders : Pending[i] = out[c]
         /\ \A c \in Senders : \E i \in 1 .. Len(Pending) : Pending[i] = out[c]
         /\ \A i, j \in 1 .. Len(Pending) : Pending[i].shard = Pending[j].shard => i = j
<1>1. \A c \in Senders : out[c] \in ShardLine /\ out[c].shard \in Shards
  BY DEF LinesOK, Senders, ShardLine, StampedLine
<1>2. \A c, d \in Senders : out[c].shard = out[d].shard => c = d
  <2> SUFFICES ASSUME NEW c \in Senders, NEW d \in Senders, out[c].shard = out[d].shard
               PROVE  c = d
    OBVIOUS
  <2>1. Sends(c, out[c].shard) /\ Sends(d, out[c].shard) /\ out[c].shard \in Shards
    BY <1>1 DEF Sends, Senders
  <2> QED BY <2>1, SendersApart DEF Senders
<1>3. IsFiniteSet(Senders)
  <2> DEFINE f == [c \in Senders |-> out[c].shard]
  <2>1. f \in Injection(Senders, Shards)
    BY <1>1, <1>2 DEF Injection, IsInjective
  <2>2. IsFiniteSet(Shards)
    BY FS_Interval DEF Shards
  <2> QED BY <2>1, <2>2, FS_Injection
<1> DEFINE sq == SetToSeq(Senders)
           n  == Cardinality(Senders)
<1>4. /\ n \in Nat /\ sq \in [1 .. n -> Senders]
      /\ \A i, j \in 1 .. n : sq[i] = sq[j] => i = j
      /\ \A c \in Senders : \E i \in 1 .. n : sq[i] = c
  BY <1>3, SetListed
<1>5. Pending = [i \in 1 .. n |-> out[sq[i]]]
  <2>1. DOMAIN sq = 1 .. n
    BY <1>4
  <2> QED BY <2>1 DEF Pending, Senders
<1> HIDE DEF sq, n
<1>6. Pending \in Seq(ShardLine) /\ Len(Pending) = n
  BY <1>1, <1>4, <1>5
<1>7. \A i \in 1 .. n : sq[i] \in Senders /\ Pending[i] = out[sq[i]]
  BY <1>4, <1>5
<1> QED BY <1>2, <1>4, <1>6, <1>7

LEMMA PendingReplayed ==
  ASSUME MemoryInv, NEW u \in Nat, NEW m \in Nat, m <= Len(Pending), NEW s \in Shards
  PROVE  LET so == Replay(Log \o SubSeq(Pending, 1, m), u)
         IN IF \E i \in 1 .. m : Pending[i].shard = s THEN Like(so, db, KeysIn(s))
            ELSE Like(so, Replay(Log, u), KeysIn(s))
<1> DEFINE so(k) == Replay(Log \o SubSeq(Pending, 1, k), u)
           sent(k) == \E i \in 1 .. k : Pending[i].shard = s
           good(k) == IF sent(k) THEN Like(so(k), db, KeysIn(s))
                      ELSE Like(so(k), Replay(Log, u), KeysIn(s))
           N == {k \in Nat : k <= Len(Pending) => good(k)}
<1>1. /\ Pending \in Seq(ShardLine) /\ Log \in Seq(ShardLine) /\ Len(Pending) \in Nat
      /\ \A i \in 1 .. Len(Pending) : \E c \in Senders : Pending[i] = out[c]
      /\ \A i, j \in 1 .. Len(Pending) : Pending[i].shard = Pending[j].shard => i = j
  BY SendersListed DEF MemoryInv, LinesOK
<1>2. 0 \in N
  <2>1. SubSeq(Pending, 1, 0) = <<>>
    BY <1>1
  <2>2. so(0) = Replay(Log, u)
    BY <1>1, <2>1, ConcatEmptySeq
  <2>3. ~sent(0)
    OBVIOUS
  <2> HIDE DEF so, sent
  <2> QED BY <2>2, <2>3, LikeLike
<1>3. ASSUME NEW k \in Nat, k \in N PROVE k + 1 \in N
  <2>1. SUFFICES ASSUME k + 1 <= Len(Pending) PROVE good(k + 1)
    OBVIOUS
  <2> DEFINE x == Pending[k + 1]
             before == Log \o SubSeq(Pending, 1, k)
  <2>2. good(k)
    BY <1>1, <1>3, <2>1
  <2>3. /\ SubSeq(Pending, 1, k + 1) = Append(SubSeq(Pending, 1, k), x)
        /\ x \in ShardLine /\ SubSeq(Pending, 1, k) \in Seq(ShardLine)
    BY <1>1, <2>1
  <2>4. before \in Seq(ShardLine) /\ Log \o SubSeq(Pending, 1, k + 1) = Append(before, x)
    <3> DEFINE p == SubSeq(Pending, 1, k)
    <3> HIDE DEF p, x
    <3>1. p \in Seq(ShardLine) /\ x \in ShardLine
      BY <2>3 DEF p
    <3>2. Log \o Append(p, x) = Append(Log \o p, x)
      BY <1>1, <3>1, Regrouped
    <3>3. Log \o p \in Seq(ShardLine)
      BY <1>1, <3>1, ConcatProperties
    <3> QED BY <2>3, <3>2, <3>3 DEF p
  <2>5. so(k + 1) = ReplayLine(so(k), x, u)
    BY <2>3, <2>4, ReplayOneMore
  <2>6. sent(k + 1) <=> sent(k) \/ x.shard = s
    BY <2>1
  <2>7. x.shard = s => ~sent(k)
    BY <1>1, <2>1
  <2>8. PICK c \in Senders : x = out[c]
    BY <1>1, <2>1
  <2> HIDE DEF so, sent, x
  <2>9. CASE x.shard = s
    <3>1. Like(so(k), Replay(Log, u), KeysIn(s))
      BY <2>2, <2>7, <2>9
    <3>2. Like(ReplayLine(so(k), x, u), db, KeysIn(s))
      BY <2>8, <2>9, <3>1 DEF MemoryInv, SaysShard, Sends, Senders
    <3> QED BY <2>5, <2>6, <2>9, <3>2
  <2>10. CASE x.shard # s
    <3>1. Like(so(k + 1), so(k), KeysIn(s))
      BY <2>3, <2>5, <2>10, LineApart
    <3> QED BY <2>2, <2>6, <2>10, <3>1, LikeLike
  <2> QED BY <2>9, <2>10
<1>4. Nat \subseteq N
  <2> HIDE DEF N
  <2> QED BY <1>2, <1>3, NumbersByInduction
<1>5. good(m)
  BY <1>4
<1> QED BY <1>5

LEMMA MemoryGives ==
  ASSUME MemoryInv
  PROVE  MemoryIsTheLog
<1>1. /\ Pending \in Seq(ShardLine) /\ Log \in Seq(ShardLine) /\ Len(Pending) \in Nat
      /\ now \in Nat /\ IsDatabase(db)
  BY SendersListed DEF MemoryInv, LinesOK, FileInv, InFlightInv, TypeOK
<1>2. Recorded = Log \o SubSeq(Pending, 1, Len(Pending))
  <2>1. SubSeq(Pending, 1, Len(Pending)) = Pending
    BY <1>1
  <2> QED BY <2>1 DEF Recorded, Log
<1> DEFINE rebuilt == Replay(Recorded, now)
<1>3. IsDatabase(rebuilt)
  <2>1. Log \o Pending \in Seq(ShardLine)
    BY <1>1, ConcatProperties
  <2>2. \A line \in ShardLine : Loggable(line.cmd)
    BY DEF ShardLine
  <2> QED BY <1>1, <2>1, <2>2, ReplayType DEF Recorded, Log
<1>4. ASSUME NEW s \in Shards PROVE Like(rebuilt, db, KeysIn(s))
  <2> DEFINE sent == \E i \in 1 .. Len(Pending) : Pending[i].shard = s
  <2>1. IF sent THEN Like(rebuilt, db, KeysIn(s)) ELSE Like(rebuilt, Replay(Log, now), KeysIn(s))
    BY <1>1, <1>2, PendingReplayed
  <2>2. CASE ~sent
    <3>1. \A c \in Senders : \E i \in 1 .. Len(Pending) : Pending[i] = out[c]
      BY SendersListed DEF MemoryInv
    <3>2. \A c \in Senders : out[c].shard # s
      BY <2>2, <3>1
    <3>3. \A c \in Clients : ~Sends(c, s)
      BY <3>2 DEF Sends, Senders
    <3>4. Like(Replay(Log, now), db, KeysIn(s))
      BY <1>1, <3>3 DEF MemoryInv, SaysShard
    <3> QED BY <2>1, <2>2, <3>4, LikeLike
  <2> QED BY <2>1, <2>2
<1>5. Like(rebuilt, db, Keys)
  <2>1. \A k \in Keys : ShardOf[k] \in Shards /\ k \in KeysIn(ShardOf[k])
    BY DEF KeysIn
  <2> HIDE DEF rebuilt
  <2> QED BY <1>4, <2>1 DEF Like
<1>6. SameData(rebuilt, db) /\ SameLease(rebuilt, db)
  BY <1>1, <1>3, <1>5, SameDatabases
<1> QED BY <1>6 DEF MemoryIsTheLog

(***************************************************************************)
(* Memory is what the lines say, at every moment: the file, what is on its *)
(* way to it and what clients are still sending, replayed, give the        *)
(* database, crashes and restarts included.  It holds for every number of  *)
(* clients and shards and every set of commands but LTRIM, which           *)
(* replay_aof has no arm for, RPOPLPUSH, which is logged with its shards   *)
(* unlocked, and words that do not survive their line.                     *)
(***************************************************************************)
THEOREM MemoryCorrect ==
  ASSUME \A q \in Commands : Legible(q) /\ q.op \notin {"LTRIM", "RPOPLPUSH"}
  PROVE  CrashSpec => []MemoryIsTheLog
<1>1. MemoryInv /\ [Core \/ Crash("named")]_vars => MemoryInv'
  BY MemoryStep DEF Faithful
<1>2. MemoryInv => MemoryIsTheLog
  BY MemoryGives
<1> QED BY <1>1, <1>2, InitMemory, PTL DEF CrashSpec

-----------------------------------------------------------------------------
(***************************************************************************)
(* The whole system, the sweeper, the compactor and failures included.     *)
(* Replay reads the command and the quotes of a line and no stamp, and it  *)
(* gives entries to the keys of the lines only.                            *)
(***************************************************************************)

FileLine == {l \in StampedLine : Loggable(l.cmd)}

Unstamped(lines) == [i \in DOMAIN lines |-> Line(lines[i].cmd, lines[i].quoted)]

LEMMA UnstampedType ==
  ASSUME NEW lines \in Seq(FileLine)
  PROVE  Unstamped(lines) \in Seq(HandlerLine)
<1>1. \A l \in FileLine : Line(l.cmd, l.quoted) \in HandlerLine
  BY DEF FileLine, StampedLine, HandlerLine, LogLine, Line
<1> QED BY <1>1 DEF Unstamped

LEMMA ReplayUnstamped ==
  ASSUME NEW lines \in Seq(FileLine), NEW u
  PROVE  Replay(Unstamped(lines), u) = Replay(lines, u)
<1> DEFINE P == {s \in Seq(FileLine) : Replay(Unstamped(s), u) = Replay(s, u)}
<1>1. <<>> \in P
  <2>1. Unstamped(<<>>) = <<>>
    BY DEF Unstamped
  <2> QED BY <2>1
<1>2. ASSUME NEW s \in Seq(FileLine), NEW x \in FileLine, s \in P
      PROVE  Append(s, x) \in P
  <2> DEFINE y == Line(x.cmd, x.quoted)
  <2>1. y \in HandlerLine /\ Unstamped(s) \in Seq(HandlerLine)
    BY UnstampedType DEF FileLine, StampedLine, HandlerLine, LogLine, Line
  <2>2. Unstamped(Append(s, x)) = Append(Unstamped(s), y)
    BY DEF Unstamped
  <2>3. ReplayLine(Replay(s, u), y, u) = ReplayLine(Replay(s, u), x, u)
    BY DEF ReplayLine, ReadsBack, Bare, Written, Line
  <2> HIDE DEF y
  <2>4. Replay(Append(s, x), u) = ReplayLine(Replay(s, u), x, u)
    BY ReplayOneMore
  <2>5. Replay(Append(Unstamped(s), y), u) = ReplayLine(Replay(Unstamped(s), u), y, u)
    BY <2>1, ReplayOneMore
  <2>6. Append(s, x) \in Seq(FileLine)
    OBVIOUS
  <2> QED BY <1>2, <2>2, <2>3, <2>4, <2>5, <2>6
<1>3. Seq(FileLine) \subseteq P
  <2> HIDE DEF P
  <2> QED BY <1>1, <1>2, SequencesByInduction
<1> QED BY <1>3

LEMMA ReplayedKeys ==
  ASSUME NEW K, NEW S, \A line \in S : line.cmd \in Command /\ KeysOf(line.cmd) \subseteq K,
         NEW lines \in Seq(S), NEW u, NEW k, k \notin K
  PROVE  k \notin DOMAIN Replay(lines, u)
<1> DEFINE P == {s \in Seq(S) : k \notin DOMAIN Replay(s, u)}
<1>1. <<>> \in P
  BY ReplayNothing DEF EmptyDb
<1>2. ASSUME NEW s \in Seq(S), NEW x \in S, s \in P
      PROVE  Append(s, x) \in P
  <2>1. Replay(Append(s, x), u) = ReplayLine(Replay(s, u), x, u)
    BY ReplayOneMore
  <2>2. x.cmd \in Command /\ k \notin KeysOf(x.cmd)
    OBVIOUS
  <2>3. SameBut(ReplayLine(Replay(s, u), x, u), Replay(s, u), KeysOf(x.cmd))
    BY <2>2, ReplayFrame
  <2>4. k \notin DOMAIN Replay(Append(s, x), u)
    BY <1>2, <2>1, <2>2, <2>3 DEF SameBut
  <2>5. Append(s, x) \in Seq(S)
    OBVIOUS
  <2> QED BY <2>4, <2>5
<1>3. Seq(S) \subseteq P
  <2> HIDE DEF P
  <2> QED BY <1>1, <1>2, SequencesByInduction
<1> QED BY <1>3

\* the commands of clients that replay_aof reads back
Readable == \A q \in Commands : Legible(q)

\* every line in the file or on its way there is one that a handler or the
\* sweeper sends, and the database is one that the compactor can write out
LinesInv ==
  /\ TypeOK
  /\ Sound(db)
  /\ disk \in Seq(FileLine) /\ buffer \in Seq(FileLine) /\ chan \in Seq(FileLine)
  /\ \A c \in Clients : pc[c] = "send" => out[c] \in FileLine

LEMMA OutcomeSound ==
  ASSUME Readable, TypeOK, Sound(db), NEW c \in Clients, Locked(c)
  PROVE  /\ cmd[c] \in Command /\ Home(c) \in Shards /\ Home(c) \in ShardsOf(cmd[c])
         /\ cmd[c].op # "RPOPLPUSH" => ShardsOf(cmd[c]) = {Home(c)}
         /\ ShardsOf(cmd[c]) \subseteq Shards
         /\ KeysOf(cmd[c]) \subseteq Keys
         /\ Sound(Outcome(c).db)
         /\ SameBut(Outcome(c).db, db, KeysOf(cmd[c]))
         /\ Outcome(c).line # NoLine => Outcome(c).line \in HandlerLine
<1> DEFINE q == cmd[c]
<1>1. /\ q \in Commands /\ q \in Command /\ Home(c) \in Shards
      /\ asked[c] \in Nat /\ now \in Nat
  BY HomeType DEF Locked, TypeOK, ClientsOK
<1>2. PICK t \in Nat : Outcome(c) = Exec(db, q, t)
  BY <1>1 DEF Outcome
<1>3. /\ KeysOf(q) \subseteq Keys /\ q.key \in KeysOf(q)
      /\ q.op # "RPOPLPUSH" => KeysOf(q) = {q.key}
  BY <1>1, CommandFields DEF KeysOf
<1>4. Legible(q)
  BY <1>1 DEF Readable
<1> HIDE DEF q
<1>5. Sound(Exec(db, q, t).db)
  BY <1>1, <1>4, ExecSound
<1>6. SameBut(Exec(db, q, t).db, db, KeysOf(q))
  <2>1. CASE Exec(db, q, t).db = db
    BY <2>1 DEF SameBut
  <2>2. CASE Did(db, q, t, Exec(db, q, t).db)
    <3>1. PICK after : after = Exec(db, q, t).db
      OBVIOUS
    <3>2. Did(db, q, t, after)
      BY <2>2, <3>1
    <3>3. SameBut(after, db, KeysOf(q))
      BY <1>1, <3>2, DidFrame
    <3> QED BY <3>1, <3>3
  <2> QED BY <1>1, <2>1, <2>2, ExecDid DEF Sound
<1>7. Exec(db, q, t).line # NoLine => Exec(db, q, t).line \in HandlerLine
  <2> SUFFICES ASSUME Exec(db, q, t).line # NoLine PROVE Exec(db, q, t).line \in HandlerLine
    OBVIOUS
  <2>1. Exec(db, q, t).line = Sent(q) /\ (q.op = "SETEX" => q.secs >= 0)
    BY <1>1, Outcomes DEF Untold
  <2> QED BY <1>1, <2>1, SentLine DEF HandlerLine
<1>8. /\ Home(c) \in ShardsOf(q) /\ ShardsOf(q) \subseteq Shards
      /\ q.op # "RPOPLPUSH" => ShardsOf(q) = {Home(c)}
  BY <1>3 DEF ShardsOf, Home, q
<1> QED BY <1>1, <1>2, <1>3, <1>5, <1>6, <1>7, <1>8 DEF q

LEMMA StampedHandlerLine ==
  ASSUME NEW l \in HandlerLine, NEW s \in Shards, NEW n \in Nat
  PROVE  /\ Stamp(l, s, n) \in FileLine
         /\ Stamp(l, s, n).cmd = l.cmd /\ Stamp(l, s, n).quoted = l.quoted
         /\ Stamp(l, s, n).shard = s /\ Stamp(l, s, n).at = n
BY DEF Stamp, FileLine, StampedLine, HandlerLine, LogLine

LEMMA SweptLine ==
  ASSUME NEW k \in Keys
  PROVE  Line(Del(k), FALSE) \in HandlerLine
BY DEF Line, Del, HandlerLine, LogLine, Loggable, Command

\* what a step does to the lines on their way, client by client
LEMMA ClientLines ==
  ASSUME Readable, LinesInv, TypeOK', NEW c \in Clients, ClientStep(c)
  PROVE  LinesInv'
<1>1. /\ DOMAIN pc = Clients /\ DOMAIN out = Clients
      /\ chan \in Seq(FileLine) /\ applied \in [Shards -> Nat]
  BY DEF LinesInv, TypeOK, ClientsOK
<1>2. disk' = disk /\ buffer' = buffer
  BY DEF ClientStep, Request, RunQuiet, RunLogged, RunMove, RunHang, Send, writer
<1>3. CASE \/ \E q \in Commands : Request(c, q)
           \/ RunQuiet(c)
  <2>1. UNCHANGED <<db, out, chan>>
    BY <1>3 DEF Request, RunQuiet, store, writer
  <2>2. \A d \in Clients : pc'[d] = "send" => pc[d] = "send"
    BY <1>1, <1>3 DEF Request, RunQuiet, Finish
  <2> QED BY <1>2, <2>1, <2>2 DEF LinesInv, Sound, IsDatabase, OnlyStrings, Filled, WellMade
<1>4. CASE RunLogged(c) \/ RunMove(c)
  <2>1. Locked(c) /\ Outcome(c).line # NoLine /\ db' = Outcome(c).db /\ chan' = chan
    BY <1>4 DEF RunLogged, RunMove, writer
  <2>2. Sound(Outcome(c).db) /\ Outcome(c).line \in HandlerLine /\ Home(c) \in Shards
    BY <2>1, OutcomeSound DEF LinesInv
  <2>3. PICK n \in Nat : out' = [out EXCEPT ![c] = Stamp(Outcome(c).line, Home(c), n)]
    BY <1>1, <1>4, <2>2 DEF RunLogged, RunMove
  <2>4. Stamp(Outcome(c).line, Home(c), n) \in FileLine
    BY <2>2, StampedHandlerLine
  <2>5. \A d \in Clients : pc'[d] = "send" => out'[d] \in FileLine
    <3>1. pc' = [pc EXCEPT ![c] = "send"]
      BY <1>4 DEF RunLogged, RunMove
    <3> QED BY <1>1, <2>3, <2>4, <3>1 DEF LinesInv
  <2>6. Sound(db)'
    BY <2>1, <2>2 DEF Sound, IsDatabase, OnlyStrings, Filled, WellMade
  <2> QED BY <1>2, <2>1, <2>5, <2>6 DEF LinesInv
<1>5. CASE RunHang(c)
  <2>1. Locked(c) /\ db' = Outcome(c).db /\ out' = out /\ chan' = chan
    BY <1>5 DEF RunHang, writer
  <2>2. Sound(Outcome(c).db)
    BY <2>1, OutcomeSound DEF LinesInv
  <2>3. \A d \in Clients : pc'[d] = "send" => pc[d] = "send"
    BY <1>1, <1>5 DEF RunHang
  <2>4. Sound(db)'
    BY <2>1, <2>2 DEF Sound, IsDatabase, OnlyStrings, Filled, WellMade
  <2> QED BY <1>2, <2>1, <2>3, <2>4 DEF LinesInv
<1>6. CASE Send(c)
  <2>1. out[c] \in FileLine /\ db' = db
    BY <1>6 DEF Send, LinesInv, store
  <2>2. chan' \in Seq(FileLine)
    <3>1. chan' = chan \/ chan' = Append(chan, out[c])
      BY <1>6 DEF Send
    <3>2. Append(chan, out[c]) \in Seq(FileLine)
      BY <1>1, <2>1, AppendElements
    <3> QED BY <1>1, <3>1, <3>2
  <2>3. \A d \in Clients : pc'[d] = "send" => pc[d] = "send" /\ out'[d] = out[d]
    BY <1>1, <1>6 DEF Send, Finish
  <2> QED BY <1>2, <2>1, <2>2, <2>3 DEF LinesInv, Sound, IsDatabase, OnlyStrings, Filled, WellMade
<1> QED BY <1>3, <1>4, <1>5, <1>6 DEF ClientStep

LEMMA FlushedLines ==
  ASSUME LinesInv, NEW lines \in Seq(FileLine)
  PROVE  Flushed(lines) \in Seq(FileLine)
BY DEF LinesInv, Flushed

LEMMA WriterLines ==
  ASSUME LinesInv, TypeOK', WriterRecv \/ WriterTick \/ FlushFails
  PROVE  LinesInv'
<1>1. UNCHANGED <<db, pc, out>>
  BY DEF WriterRecv, WriterTick, FlushFails, store, clients
<1>2. disk' \in Seq(FileLine) /\ buffer' \in Seq(FileLine) /\ chan' \in Seq(FileLine)
  <2>1. CASE WriterRecv
    <3>1. Append(buffer, Head(chan)) \in Seq(FileLine) /\ Tail(chan) \in Seq(FileLine)
      BY <2>1 DEF WriterRecv, LinesInv
    <3>2. Flushed(Append(buffer, Head(chan))) \in Seq(FileLine)
      BY <3>1, FlushedLines
    <3>3. /\ chan' = Tail(chan)
          /\ \/ buffer' = <<>> /\ disk' = Flushed(Append(buffer, Head(chan)))
             \/ buffer' = Append(buffer, Head(chan)) /\ disk' = disk
      BY <2>1 DEF WriterRecv
    <3>4. disk \in Seq(FileLine)
      BY DEF LinesInv
    <3>5. <<>> \in Seq(FileLine)
      OBVIOUS
    <3>6. disk' \in Seq(FileLine)
      BY <3>2, <3>3, <3>4
    <3>7. buffer' \in Seq(FileLine)
      BY <3>1, <3>3, <3>5
    <3>8. chan' \in Seq(FileLine)
      BY <3>1, <3>3
    <3> QED BY <3>6, <3>7, <3>8
  <2>2. CASE WriterTick
    <3>1. Flushed(buffer) \in Seq(FileLine)
      BY FlushedLines DEF LinesInv
    <3> QED BY <2>2, <3>1 DEF WriterTick, LinesInv
  <2>3. CASE FlushFails
    BY <2>3 DEF FlushFails, LinesInv
  <2> QED BY <2>1, <2>2, <2>3
<1> QED BY <1>1, <1>2 DEF LinesInv, Sound, IsDatabase, OnlyStrings, Filled, WellMade

LEMMA SweeperLines ==
  ASSUME LinesInv, TypeOK', SweeperStep
  PROVE  LinesInv'
<1>1. UNCHANGED <<pc, out, buffer, chan>>
  BY DEF SweeperStep, SweepStart, SweepShard, SweepOpen, SweepLog, clients, writer
<1>2. Sound(db)'
  <2>1. PICK ks : db' = db \/ db' = Without(db, ks)
    BY DEF SweeperStep, SweepStart, SweepShard, SweepOpen, SweepLog, store
  <2>2. Sound(Without(db, ks))
    BY WithoutSound DEF LinesInv
  <2> QED BY <2>1, <2>2 DEF LinesInv, Sound, IsDatabase, OnlyStrings, Filled, WellMade
<1>3. disk' \in Seq(FileLine)
  <2>1. CASE \E k \in Keys : SweepLog(k)
    <3>1. PICK k \in Keys : disk' \in {disk, Append(disk, Stamp(Line(Del(k), FALSE), ShardOf[k], 0))}
      BY <2>1 DEF SweepLog
    <3>2. ShardOf[k] \in Shards
      BY DEF PipelineAssumption
    <3>3. Stamp(Line(Del(k), FALSE), ShardOf[k], 0) \in FileLine
      BY <3>2, SweptLine, StampedHandlerLine
    <3>4. disk \in Seq(FileLine)
      BY DEF LinesInv
    <3>5. Append(disk, Stamp(Line(Del(k), FALSE), ShardOf[k], 0)) \in Seq(FileLine)
      BY <3>3, <3>4, AppendElements
    <3> QED BY <3>1, <3>4, <3>5
  <2>2. CASE SweepStart \/ SweepShard \/ SweepOpen
    BY <2>2 DEF SweepStart, SweepShard, SweepOpen, LinesInv
  <2> QED BY <2>1, <2>2 DEF SweeperStep
<1> QED BY <1>1, <1>2, <1>3 DEF LinesInv

LEMMA CrashLines ==
  ASSUME LinesInv, TypeOK', NEW h, NEW n \in 0 .. Len(buffer), Restart(n, h)
  PROVE  LinesInv'
<1>1. SubSeq(buffer, 1, n) \in Seq(FileLine)
  BY PrefixElements DEF LinesInv
<1>2. disk' \in Seq(FileLine) /\ now \in Nat /\ \A c \in Clients : pc'[c] # "send"
  BY <1>1, FlushedLines DEF Restart, LinesInv, TypeOK
<1>3. Sound(Replay(disk', now))
  BY <1>2, ReplaySound DEF FileLine
<1>4. db' = Replay(disk', now)
  BY DEF Restart
<1>5. Sound(db)'
  BY <1>3, <1>4 DEF Sound, IsDatabase, OnlyStrings, Filled, WellMade
<1>6. buffer' = <<>> /\ chan' = <<>>
  BY DEF Restart
<1> QED BY <1>2, <1>5, <1>6 DEF LinesInv

-----------------------------------------------------------------------------
(***************************************************************************)
(* The compactor's text.  Its lines are about keys of the shards that have *)
(* been read, and for a shard that nobody changed since, they say what is  *)
(* in memory, whenever they are replayed.                                  *)
(***************************************************************************)

TextOK ==
  /\ comp.text \in Seq(FileLine)
  /\ \A s \in Shards : comp.seen[s] <= applied[s]
  /\ \A i \in 1 .. Len(comp.text) :
       /\ comp.text[i].shard < comp.shard
       /\ comp.text[i].at = comp.seen[comp.text[i].shard]
       /\ KeysOf(comp.text[i].cmd) \subseteq KeysIn(comp.text[i].shard)

\* r is what the text makes of shard s, when the shard is d and the time is t
SaysWhatLives(r, d, s, t) ==
  \A k \in KeysIn(s) :
    /\ k \in DOMAIN r => k \in DOMAIN d /\ Alike(r[k], d[k])
    /\ k \in DOMAIN d /\ k \notin DOMAIN r => Absent(d[k], t)

TextExact ==
  comp.pc = "scan" =>
    \A s \in Shards : s < comp.shard /\ comp.seen[s] = applied[s] =>
      \A u \in Nat : SaysWhatLives(Replay(comp.text, u), db, s, now)

WholeInv == LinesInv /\ TextOK /\ TextExact

\* a step of anyone else, which counts the shards whose keys it changes
LEMMA TextKept ==
  ASSUME TypeOK, TypeOK', Sound(db), TextOK, TextExact, comp' = comp, now <= now',
         NEW S \in SUBSET Shards, applied' = Counted(S),
         \A k \in Keys : ShardOf[k] \notin S =>
           /\ k \in DOMAIN db' <=> k \in DOMAIN db
           /\ k \in DOMAIN db => db'[k] = db[k]
  PROVE  TextOK' /\ TextExact'
<1>1. \A s \in Shards : /\ applied[s] \in Nat /\ comp.seen[s] \in Nat
                        /\ applied'[s] = IF s \in S THEN applied[s] + 1 ELSE applied[s]
  BY DEF Counted, TypeOK, ClientsOK, CompOK
<1>2. \A s \in Shards : comp.seen[s] <= applied'[s] /\ (s \in S => comp.seen[s] # applied'[s])
  BY <1>1 DEF TextOK
<1>3. TextOK'
  BY <1>2 DEF TextOK
<1>4. ASSUME comp.pc = "scan", NEW s \in Shards, s < comp.shard, comp.seen[s] = applied'[s],
             NEW u \in Nat
      PROVE  SaysWhatLives(Replay(comp.text, u), db', s, now')
  <2>1. s \notin S /\ comp.seen[s] = applied[s]
    BY <1>1, <1>2, <1>4
  <2>2. PICK r : r = Replay(comp.text, u)
    OBVIOUS
  <2>3. SaysWhatLives(r, db, s, now)
    BY <1>4, <2>1, <2>2 DEF TextExact
  <2>4. ASSUME NEW k \in KeysIn(s), k \in DOMAIN db', k \notin DOMAIN r
        PROVE  Absent(db'[k], now')
    <3>1. k \in DOMAIN db /\ db'[k] = db[k]
      BY <2>1, <2>4 DEF KeysIn
    <3>2. Absent(db[k], now) /\ db[k].exp \in Time
      BY <2>3, <2>4, <3>1, EntryAt, EntryFields DEF SaysWhatLives, Sound
    <3>3. now \in Nat /\ now' \in Nat
      BY DEF TypeOK
    <3> QED BY <3>1, <3>2, <3>3 DEF Absent, Time
  <2>5. \A k \in KeysIn(s) : k \in DOMAIN r => k \in DOMAIN db' /\ Alike(r[k], db'[k])
    BY <2>1, <2>3 DEF SaysWhatLives, KeysIn
  <2> QED BY <2>2, <2>4, <2>5 DEF SaysWhatLives
<1> QED BY <1>3, <1>4 DEF TextExact

LEMMA ClientText ==
  ASSUME Readable, WholeInv, TypeOK', NEW c \in Clients, ClientStep(c)
  PROVE  TextOK' /\ TextExact'
<1>1. comp' = comp /\ now' = now /\ now \in Nat
  BY DEF ClientStep, Request, RunQuiet, RunLogged, RunMove, RunHang, Send,
         WholeInv, LinesInv, TypeOK
<1>2. \E S \in SUBSET Shards :
        /\ applied' = Counted(S)
        /\ \A k \in Keys : ShardOf[k] \notin S =>
             /\ k \in DOMAIN db' <=> k \in DOMAIN db
             /\ k \in DOMAIN db => db'[k] = db[k]
  <2>1. CASE \/ \E q \in Commands : Request(c, q)
             \/ RunQuiet(c) \/ Send(c)
    <3>1. applied' = Counted({}) /\ db' = db
      BY <2>1 DEF Request, RunQuiet, Send, store, Counted, WholeInv, LinesInv, TypeOK, ClientsOK
    <3> QED BY <3>1
  <2>2. CASE RunLogged(c) \/ RunMove(c) \/ RunHang(c)
    <3>1. Locked(c) /\ db' = Outcome(c).db
      BY <2>2 DEF RunLogged, RunMove, RunHang
    <3>2. /\ cmd[c] \in Command /\ Home(c) \in Shards /\ ShardsOf(cmd[c]) \subseteq Shards
          /\ cmd[c].op # "RPOPLPUSH" => ShardsOf(cmd[c]) = {Home(c)}
          /\ SameBut(Outcome(c).db, db, KeysOf(cmd[c]))
      BY <3>1, OutcomeSound DEF WholeInv, LinesInv
    <3>3. Outcome(c).reply = Hang => cmd[c].op # "RPOPLPUSH"
      BY <3>2, OnlyTrimHangs DEF Outcome
    <3>4. applied' = Counted(ShardsOf(cmd[c]))
      BY <2>2, <3>2, <3>3 DEF RunLogged, RunMove, RunHang
    <3>5. \A k \in Keys : ShardOf[k] \notin ShardsOf(cmd[c]) => k \notin KeysOf(cmd[c])
      BY DEF ShardsOf
    <3> QED BY <3>1, <3>2, <3>4, <3>5 DEF SameBut
  <2> QED BY <2>1, <2>2 DEF ClientStep
<1> QED BY <1>1, <1>2, TextKept DEF WholeInv, LinesInv

LEMMA SweeperText ==
  ASSUME WholeInv, TypeOK', SweeperStep
  PROVE  TextOK' /\ TextExact'
<1>1. comp' = comp /\ now' = now /\ now \in Nat
  BY DEF SweeperStep, SweepStart, SweepShard, SweepOpen, SweepLog,
         WholeInv, LinesInv, TypeOK
<1>2. \E S \in SUBSET Shards :
        /\ applied' = Counted(S)
        /\ \A k \in Keys : ShardOf[k] \notin S =>
             /\ k \in DOMAIN db' <=> k \in DOMAIN db
             /\ k \in DOMAIN db => db'[k] = db[k]
  <2>1. applied = Counted({})
    BY DEF Counted, WholeInv, LinesInv, TypeOK, ClientsOK
  <2>2. CASE SweepShard
    <3>1. sweep.shard \in Shards
      BY <2>2 DEF SweepShard, Shards, WholeInv, LinesInv, TypeOK, SweepOK, PipelineAssumption
    <3>2. PICK ks : ks = Doomed(sweep.shard)
      OBVIOUS
    <3>3. db' = Without(db, ks) /\ \A k \in ks : ShardOf[k] = sweep.shard
      BY <2>2, <3>2 DEF SweepShard, Doomed, KeysIn
    <3>4. CASE ks = {}
      BY <2>1, <2>2, <3>2, <3>3, <3>4 DEF SweepShard, Without
    <3>5. CASE ks # {}
      <4>1. applied' = Counted({sweep.shard})
        BY <2>2, <3>2, <3>5 DEF SweepShard
      <4> QED BY <3>1, <3>3, <4>1 DEF Without
    <3> QED BY <3>4, <3>5
  <2>3. CASE UNCHANGED store
    BY <2>1, <2>3 DEF store
  <2> QED BY <2>2, <2>3 DEF SweeperStep, SweepStart, SweepOpen, SweepLog
<1> QED BY <1>1, <1>2, TextKept DEF WholeInv, LinesInv

\* the steps that leave the database alone, and the clock's
LEMMA QuietText ==
  ASSUME WholeInv, TypeOK', WriterRecv \/ WriterTick \/ FlushFails \/ Tick \/ UNCHANGED vars
  PROVE  TextOK' /\ TextExact'
<1>1. comp' = comp /\ UNCHANGED <<db, applied>> /\ now <= now'
  BY DEF WriterRecv, WriterTick, FlushFails, Tick, vars, store, WholeInv, LinesInv, TypeOK
<1>2. applied' = Counted({})
  BY <1>1 DEF Counted, WholeInv, LinesInv, TypeOK, ClientsOK
<1> QED BY <1>1, <1>2, TextKept DEF WholeInv, LinesInv

LEMMA NoText ==
  ASSUME TypeOK', comp' \in {CompIdle, [CompIdle EXCEPT !.pc = "scan"]}
  PROVE  TextOK' /\ TextExact'
<1>1. /\ comp'.text = <<>> /\ comp'.shard = 0 /\ \A s \in Shards : comp'.seen[s] = 0
  BY DEF CompIdle
<1>2. \A s \in Shards : applied'[s] \in Nat /\ ~(s < 0)
  BY DEF TypeOK, ClientsOK, Shards
<1>3. TextOK'
  BY <1>1, <1>2 DEF TextOK
<1> QED BY <1>1, <1>2, <1>3 DEF TextExact

LEMMA ListOf ==
  ASSUME NEW S, NEW n \in Nat, NEW f \in [1 .. n -> S]
  PROVE  f \in Seq(S) /\ Len(f) = n
OBVIOUS

\* w is a and then b
Joins(w, a, b) ==
  /\ Len(w) = Len(a) + Len(b) /\ Len(a) \in Nat /\ Len(b) \in Nat
  /\ \A i \in 1 .. Len(a) : w[i] = a[i]
  /\ \A i \in 1 .. Len(b) : w[Len(a) + i] = b[i]

LEMMA Joint ==
  ASSUME NEW S, NEW a \in Seq(S), NEW b \in Seq(S)
  PROVE  a \o b \in Seq(S) /\ Joins(a \o b, a, b)
BY DEF Joins

LEMMA StampedText ==
  ASSUME NEW p \in Seq(FileLine), NEW l \in Seq(HandlerLine), NEW s \in Shards,
         applied \in [Shards -> Nat]
  PROVE  /\ Stamped(l, s) \in Seq(FileLine) /\ p \o Stamped(l, s) \in Seq(FileLine)
         /\ Len(Stamped(l, s)) = Len(l) /\ Len(p) \in Nat /\ Len(l) \in Nat
         /\ \A i \in 1 .. Len(p) : (p \o Stamped(l, s))[i] = p[i]
         /\ \A i \in 1 .. Len(l) : (p \o Stamped(l, s))[Len(p) + i] = Stamp(l[i], s, applied[s])
         /\ Len(p \o Stamped(l, s)) = Len(p) + Len(l)
         /\ Unstamped(p \o Stamped(l, s)) = Unstamped(p) \o l
<1> DEFINE m == Stamped(l, s)
<1>1. \A i \in 1 .. Len(l) : /\ l[i] \in HandlerLine
                             /\ Stamp(l[i], s, applied[s]) \in FileLine
                             /\ Stamp(l[i], s, applied[s]).cmd = l[i].cmd
                             /\ Stamp(l[i], s, applied[s]).quoted = l[i].quoted
  BY StampedHandlerLine
<1>2. /\ m \in Seq(FileLine) /\ Len(m) = Len(l) /\ Len(l) \in Nat
      /\ \A i \in 1 .. Len(l) : m[i] = Stamp(l[i], s, applied[s])
  <2>1. DOMAIN l = 1 .. Len(l) /\ Len(l) \in Nat
    OBVIOUS
  <2>2. m \in [1 .. Len(l) -> FileLine]
    BY <1>1, <2>1 DEF Stamped
  <2>3. \A i \in 1 .. Len(l) : m[i] = Stamp(l[i], s, applied[s])
    BY <2>1 DEF Stamped
  <2> HIDE DEF m
  <2> QED BY <2>1, <2>2, <2>3, ListOf
<1> HIDE DEF m
<1>3. /\ p \o m \in Seq(FileLine) /\ Len(p) \in Nat /\ Len(p \o m) = Len(p) + Len(l)
      /\ \A i \in 1 .. Len(p) : (p \o m)[i] = p[i]
      /\ \A i \in 1 .. Len(l) : (p \o m)[Len(p) + i] = m[i]
  <2>1. p \o m \in Seq(FileLine) /\ Joins(p \o m, p, m)
    BY <1>2, Joint
  <2> QED BY <1>2, <2>1 DEF Joins
<1>4. Unstamped(p \o m) = Unstamped(p) \o l
  <2> DEFINE a == Unstamped(p \o m)  b == Unstamped(p)
  <2>1. /\ b \in Seq(HandlerLine) /\ Len(b) = Len(p)
        /\ \A i \in 1 .. Len(p) : b[i] = Line(p[i].cmd, p[i].quoted)
    BY UnstampedType DEF Unstamped
  <2>2. /\ a \in Seq(HandlerLine) /\ Len(a) = Len(p) + Len(l)
        /\ \A i \in 1 .. Len(p) + Len(l) : a[i] = Line((p \o m)[i].cmd, (p \o m)[i].quoted)
    <3> DEFINE w == p \o m
    <3>1. w \in Seq(FileLine) /\ Len(w) = Len(p) + Len(l) /\ DOMAIN w = 1 .. Len(w)
      BY <1>3
    <3> HIDE DEF w
    <3>2. Unstamped(w) \in Seq(HandlerLine)
      BY <3>1, UnstampedType
    <3>3. /\ DOMAIN Unstamped(w) = 1 .. Len(w)
          /\ \A i \in 1 .. Len(w) : Unstamped(w)[i] = Line(w[i].cmd, w[i].quoted)
      BY <3>1 DEF Unstamped
    <3>4. Len(Unstamped(w)) = Len(w)
      BY <3>2, <3>3
    <3> QED BY <3>1, <3>2, <3>3, <3>4 DEF w
  <2> HIDE DEF a, b
  <2>3. /\ b \o l \in Seq(HandlerLine) /\ Len(b \o l) = Len(p) + Len(l)
        /\ \A i \in 1 .. Len(p) : (b \o l)[i] = b[i]
        /\ \A i \in 1 .. Len(l) : (b \o l)[Len(p) + i] = l[i]
    <3>1. b \o l \in Seq(HandlerLine) /\ Joins(b \o l, b, l)
      BY <2>1, Joint
    <3> QED BY <2>1, <3>1 DEF Joins
  <2>4. ASSUME NEW i \in 1 .. Len(l) PROVE a[Len(p) + i] = l[i]
    <3>1. a[Len(p) + i] = Line(m[i].cmd, m[i].quoted)
      BY <1>2, <1>3, <2>2
    <3>2. m[i].cmd = l[i].cmd /\ m[i].quoted = l[i].quoted
      BY <1>1, <1>2
    <3>3. l[i] = Line(l[i].cmd, l[i].quoted)
      BY <1>1 DEF HandlerLine, LogLine, Line
    <3> QED BY <3>1, <3>2, <3>3
  <2>5. \A i \in 1 .. Len(p) : a[i] = (b \o l)[i]
    BY <1>2, <1>3, <2>1, <2>2, <2>3
  <2>6. \A i \in 1 .. Len(p) + Len(l) : a[i] = (b \o l)[i]
    <3> TAKE i \in 1 .. Len(p) + Len(l)
    <3>1. CASE i \in 1 .. Len(p)
      BY <2>5, <3>1
    <3>2. CASE i \notin 1 .. Len(p)
      <4>1. PICK j \in 1 .. Len(l) : i = Len(p) + j
        <5>1. i - Len(p) \in 1 .. Len(l) /\ i = Len(p) + (i - Len(p))
          BY <1>2, <1>3, <3>2
        <5> QED BY <5>1
      <4> QED BY <2>3, <2>4, <4>1
    <3> QED BY <3>1, <3>2
  <2>7. a = b \o l
    BY <2>2, <2>3, <2>6, SeqEqual
  <2> QED BY <2>7 DEF a, b
<1> QED BY <1>2, <1>3, <1>4 DEF m

\* the shard being read is added to the text, where nothing was about it
LEMMA ReadText ==
  ASSUME WholeInv, NEW s \in Shards, s = comp.shard, NEW l,
         l = Snapshot(db, KeysIn(s), now)
  PROVE  /\ l \in Seq(UNION {LinesAt(k) : k \in KeysIn(s) \cap DOMAIN db})
         /\ l \in Seq(HandlerLine)
         /\ \A u \in Nat :
              LET r == Replay(comp.text, u)
                  a == Replay(comp.text \o Stamped(l, s), u)
              IN /\ SameBut(a, r, KeysIn(s) \cap DOMAIN db)
                 /\ \A k \in KeysIn(s) : k \notin DOMAIN r
                 /\ \A k \in KeysIn(s) \cap DOMAIN db : RebuiltAt(a, db, k, now, u)
<1> DEFINE p == Unstamped(comp.text)
<1>1. /\ comp.text \in Seq(FileLine) /\ p \in Seq(HandlerLine) /\ now \in Nat /\ Sound(db)
      /\ applied \in [Shards -> Nat]
  BY UnstampedType DEF WholeInv, LinesInv, TextOK, TypeOK, ClientsOK
<1>2. ASSUME NEW u \in Nat, NEW k \in KeysIn(s)
      PROVE  k \notin DOMAIN Replay(comp.text, u)
  <2> DEFINE K == {j \in Keys : j \notin KeysIn(s)}
             S == {line \in FileLine : KeysOf(line.cmd) \subseteq K}
  <2>1. \A i \in 1 .. Len(comp.text) : comp.text[i] \in S
    <3> TAKE i \in 1 .. Len(comp.text)
    <3>1. comp.text[i] \in FileLine
      BY <1>1
    <3>3. /\ comp.text[i].shard < comp.shard
          /\ KeysOf(comp.text[i].cmd) \subseteq KeysIn(comp.text[i].shard)
      BY DEF WholeInv, TextOK
    <3>2. \A j \in KeysIn(comp.text[i].shard) : j \in Keys /\ j \notin KeysIn(s)
      BY <3>3 DEF KeysIn, Shards
    <3> QED BY <3>1, <3>2, <3>3
  <2>2. comp.text \in Seq(S)
    <3> DEFINE x == comp.text
    <3>1. x \in Seq(FileLine) /\ \A i \in 1 .. Len(x) : x[i] \in S
      BY <1>1, <2>1
    <3> HIDE DEF S, x
    <3>2. x \in [1 .. Len(x) -> S] /\ Len(x) \in Nat
      BY <3>1
    <3>3. x \in Seq(S)
      BY <3>2, ListOf
    <3> QED BY <3>3 DEF x
  <2>3. \A line \in S : line.cmd \in Command /\ KeysOf(line.cmd) \subseteq K
    BY DEF FileLine, StampedLine
  <2>4. k \notin K
    OBVIOUS
  <2> HIDE DEF S, K
  <2> QED BY <2>2, <2>3, <2>4, ReplayedKeys
<1>3. \A u \in Nat : Replay(p, u) = Replay(comp.text, u)
  BY <1>1, ReplayUnstamped
<1> HIDE DEF p
<1>4. ASSUME NEW u \in Nat
      PROVE  /\ l \in Seq(UNION {LinesAt(k) : k \in KeysIn(s) \cap DOMAIN db})
             /\ SameBut(Replay(p \o l, u), Replay(p, u), KeysIn(s) \cap DOMAIN db)
             /\ \A k \in KeysIn(s) \cap DOMAIN db : RebuiltAt(Replay(p \o l, u), db, k, now, u)
  <2> DEFINE ks == KeysIn(s)
  <2> HIDE DEF ks
  <2>1. \A k \in ks \cap DOMAIN db : k \notin DOMAIN Replay(p, u)
    BY <1>2, <1>3 DEF ks
  <2>2. /\ Snapshot(db, ks, now) \in Seq(UNION {LinesAt(k) : k \in ks \cap DOMAIN db})
        /\ SameBut(Replay(p \o Snapshot(db, ks, now), u), Replay(p, u), ks \cap DOMAIN db)
        /\ \A k \in ks \cap DOMAIN db :
             RebuiltAt(Replay(p \o Snapshot(db, ks, now), u), db, k, now, u)
    BY <1>1, <2>1, SnapshotReplays
  <2> QED BY <2>2 DEF ks
<1>5. l \in Seq(HandlerLine)
  <2>1. UNION {LinesAt(k) : k \in KeysIn(s) \cap DOMAIN db} \subseteq HandlerLine
    BY DEF LinesAt
  <2>2. l \in Seq(UNION {LinesAt(k) : k \in KeysIn(s) \cap DOMAIN db})
    BY <1>4
  <2> DEFINE L == UNION {LinesAt(k) : k \in KeysIn(s) \cap DOMAIN db}
  <2> HIDE DEF L
  <2>3. L \subseteq HandlerLine /\ l \in Seq(L)
    BY <2>1, <2>2 DEF L
  <2> QED BY <2>3
<1>6. ASSUME NEW u \in Nat
      PROVE  Replay(comp.text \o Stamped(l, s), u) = Replay(p \o l, u)
  <2> DEFINE w == comp.text \o Stamped(l, s)
  <2>1. w \in Seq(FileLine) /\ Unstamped(w) = p \o l
    BY <1>1, <1>5, StampedText DEF p
  <2> HIDE DEF w
  <2>2. Replay(w, u) = Replay(p \o l, u)
    BY <2>1, ReplayUnstamped
  <2> QED BY <2>2 DEF w
<1> QED BY <1>2, <1>3, <1>4, <1>5, <1>6

LEMMA CompactText ==
  ASSUME WholeInv, TypeOK', CompactShard
  PROVE  TextOK' /\ TextExact'
<1> DEFINE s == comp.shard
           l == Snapshot(db, KeysIn(s), now)
           w == comp.text \o Stamped(l, s)
<1>1. /\ s \in Shards /\ comp.pc = "scan" /\ applied \in [Shards -> Nat] /\ now \in Nat
      /\ DOMAIN comp.seen = Shards /\ comp.shard \in Nat /\ Sound(db)
      /\ comp.text \in Seq(FileLine)
  BY DEF CompactShard, WholeInv, LinesInv, TextOK, TypeOK, CompOK, ClientsOK, Shards
<1>2. /\ comp'.pc = "scan" /\ comp'.shard = s + 1 /\ comp'.text = w
      /\ comp'.seen = [comp.seen EXCEPT ![s] = applied[s]]
      /\ UNCHANGED <<db, applied, now>>
  <2>1. comp' = [comp EXCEPT !.shard = s + 1, !.text = w, !.seen = [comp.seen EXCEPT ![s] = applied[s]]]
    BY DEF CompactShard
  <2>2. comp \in [pc : {"idle", "scan"}, shard : 0 .. NumShards,
                  text : {comp.text}, seen : [Shards -> Nat]]
    BY DEF WholeInv, LinesInv, TypeOK, CompOK
  <2> HIDE DEF w
  <2> QED BY <1>1, <2>1, <2>2 DEF CompactShard, store
<1> HIDE DEF l
<1>3. /\ l \in Seq(UNION {LinesAt(k) : k \in KeysIn(s) \cap DOMAIN db})
      /\ l \in Seq(HandlerLine)
  BY <1>1, ReadText DEF l
<1>4. /\ w \in Seq(FileLine) /\ Len(w) = Len(comp.text) + Len(l)
      /\ Len(comp.text) \in Nat /\ Len(l) \in Nat
      /\ \A i \in 1 .. Len(comp.text) : w[i] = comp.text[i]
      /\ \A i \in 1 .. Len(l) : w[Len(comp.text) + i] = Stamp(l[i], s, applied[s])
  <2> DEFINE x == comp.text
  <2>1. x \in Seq(FileLine) /\ l \in Seq(HandlerLine) /\ s \in Shards
        /\ applied \in [Shards -> Nat]
    BY <1>1, <1>3
  <2> HIDE DEF x, s
  <2>2. /\ x \o Stamped(l, s) \in Seq(FileLine)
        /\ Len(x) \in Nat /\ Len(l) \in Nat
        /\ \A i \in 1 .. Len(x) : (x \o Stamped(l, s))[i] = x[i]
        /\ \A i \in 1 .. Len(l) : (x \o Stamped(l, s))[Len(x) + i] = Stamp(l[i], s, applied[s])
        /\ Len(x \o Stamped(l, s)) = Len(x) + Len(l)
    BY <2>1, StampedText
  <2> QED BY <2>2 DEF x
<1> HIDE DEF w
<1>5. ASSUME NEW i \in 1 .. Len(w)
      PROVE  /\ w[i].shard < s + 1
             /\ w[i].at = comp'.seen[w[i].shard]
             /\ KeysOf(w[i].cmd) \subseteq KeysIn(w[i].shard)
  <2>1. CASE i \in 1 .. Len(comp.text)
    <3>1. /\ w[i].shard < s /\ w[i].at = comp.seen[w[i].shard]
          /\ KeysOf(w[i].cmd) \subseteq KeysIn(w[i].shard) /\ w[i].shard \in Shards
      <4>1. w[i] \in FileLine /\ w[i] = comp.text[i]
        BY <1>4, <2>1
      <4> QED BY <2>1, <4>1 DEF WholeInv, TextOK, FileLine, StampedLine
    <3>2. w[i].shard # s /\ w[i].shard < s + 1
      BY <1>1, <3>1 DEF Shards
    <3> QED BY <1>1, <1>2, <3>1, <3>2
  <2>2. CASE i \notin 1 .. Len(comp.text)
    <3>1. PICK j \in 1 .. Len(l) : i = Len(comp.text) + j
      <4>1. i - Len(comp.text) \in 1 .. Len(l) /\ i = Len(comp.text) + (i - Len(comp.text))
        BY <1>4, <2>2
      <4> QED BY <4>1
    <3>2. l[j] \in HandlerLine /\ KeysOf(l[j].cmd) \subseteq KeysIn(s)
      <4> DEFINE L == UNION {LinesAt(k) : k \in KeysIn(s) \cap DOMAIN db}
      <4>1. \A x \in L : x \in HandlerLine /\ KeysOf(x.cmd) \subseteq KeysIn(s)
        BY DEF LinesAt
      <4> HIDE DEF L
      <4>2. l \in Seq(L)
        BY <1>3 DEF L
      <4>3. l[j] \in L
        BY <4>2
      <4> QED BY <4>1, <4>3
    <3>3. w[i].shard = s /\ w[i].at = applied[s] /\ w[i].cmd = l[j].cmd
      <4>1. applied[s] \in Nat
        BY <1>1
      <4> QED BY <1>1, <1>4, <3>1, <3>2, <4>1, StampedHandlerLine
    <3> QED BY <1>1, <1>2, <3>2, <3>3
  <2> QED BY <2>1, <2>2
<1>6. TextOK'
  <2>1. \A x \in Shards : comp'.seen[x] <= applied'[x]
    BY <1>1, <1>2 DEF WholeInv, TextOK
  <2> QED BY <1>2, <1>4, <1>5, <2>1 DEF TextOK
<1>7. ASSUME NEW x \in Shards, x < s + 1, comp'.seen[x] = applied[x], NEW u \in Nat
      PROVE  SaysWhatLives(Replay(w, u), db, x, now)
  <2> DEFINE r == Replay(comp.text, u)
             a == Replay(w, u)
  <2>1. /\ SameBut(a, r, KeysIn(s) \cap DOMAIN db)
        /\ \A k \in KeysIn(s) : k \notin DOMAIN r
        /\ \A k \in KeysIn(s) \cap DOMAIN db : RebuiltAt(a, db, k, now, u)
    BY <1>1, ReadText DEF l, w
  <2> HIDE DEF r, a
  <2>2. CASE x = s
    <3>1. ASSUME NEW k \in KeysIn(s), k \in DOMAIN a
          PROVE  k \in DOMAIN db /\ Alike(a[k], db[k])
      <4>1. k \in DOMAIN db
        BY <2>1, <3>1 DEF SameBut
      <4> QED BY <2>1, <3>1, <4>1 DEF RebuiltAt, Rebuilt
    <3>2. ASSUME NEW k \in KeysIn(s), k \in DOMAIN db, k \notin DOMAIN a
          PROVE  Absent(db[k], now)
      BY <2>1, <3>2 DEF RebuiltAt
    <3> QED BY <2>2, <3>1, <3>2 DEF SaysWhatLives, a
  <2>3. CASE x # s
    <3>1. x < s /\ comp.seen[x] = applied[x]
      BY <1>1, <1>2, <1>7, <2>3 DEF Shards
    <3>2. SaysWhatLives(r, db, x, now)
      BY <1>1, <3>1 DEF WholeInv, TextExact, r
    <3>3. \A k \in KeysIn(x) : k \notin KeysIn(s)
      BY <2>3 DEF KeysIn
    <3> QED BY <2>1, <3>2, <3>3 DEF SaysWhatLives, SameBut, a
  <2> QED BY <2>2, <2>3
<1>8. TextExact'
  <2>1. now' = now /\ db' = db
    BY <1>2
  <2> QED BY <1>2, <1>7, <2>1 DEF TextExact
<1> QED BY <1>6, <1>8

LEMMA CompactorWhole ==
  ASSUME WholeInv, TypeOK', CompactorStep \/ CompactFails
  PROVE  WholeInv'
<1>1. UNCHANGED <<db, pc, out, buffer, chan, applied, now>>
  BY DEF CompactorStep, CompactStart, CompactShard, CompactRename, CompactFails,
         store, clients, writer
<1>2. disk' \in Seq(FileLine)
  BY DEF CompactorStep, CompactStart, CompactShard, CompactRename, CompactFails,
         WholeInv, LinesInv, TextOK
<1>3. LinesInv'
  BY <1>1, <1>2 DEF WholeInv, LinesInv, Sound, IsDatabase, OnlyStrings, Filled, WellMade
<1>4. CASE CompactShard
  BY <1>3, <1>4, CompactText DEF WholeInv
<1>5. CASE CompactStart \/ CompactRename \/ CompactFails
  BY <1>3, <1>5, NoText DEF WholeInv, CompactStart, CompactRename, CompactFails
<1> QED BY <1>4, <1>5 DEF CompactorStep

LEMMA WholeStep ==
  ASSUME Readable, WholeInv, [Next]_vars
  PROVE  WholeInv'
<1>1. TypeOK'
  BY NextTypeOK DEF WholeInv, LinesInv
<1>2. ASSUME NEW c \in Clients, ClientStep(c) PROVE WholeInv'
  BY <1>1, <1>2, ClientLines, ClientText DEF WholeInv
<1>3. CASE WriterRecv \/ WriterTick \/ FlushFails
  BY <1>1, <1>3, WriterLines, QuietText DEF WholeInv
<1>4. CASE Tick \/ UNCHANGED vars
  <2>1. LinesInv'
    BY <1>1, <1>4 DEF Tick, vars, store, clients, writer, WholeInv, LinesInv,
                      Sound, IsDatabase, OnlyStrings, Filled, WellMade
  <2> QED BY <1>1, <1>4, <2>1, QuietText DEF WholeInv
<1>5. CASE SweeperStep
  BY <1>1, <1>5, SweeperLines, SweeperText DEF WholeInv
<1>6. CASE CompactorStep \/ CompactFails
  BY <1>1, <1>6, CompactorWhole
<1>7. ASSUME NEW h \in {"named", "closed"}, Crash(h) PROVE WholeInv'
  BY <1>1, <1>7, CrashLines, NoText DEF WholeInv, Crash, Restart
<1> QED BY <1>2, <1>3, <1>4, <1>5, <1>6, <1>7 DEF Next, Core

LEMMA InitWhole ==
  ASSUME NEW h \in {"named", "closed"}, InitWith(h)
  PROVE  WholeInv
<1>1. TypeOK
  BY InitTypeOK
<1>2. /\ db = EmptyDb /\ disk = <<>> /\ buffer = <<>> /\ chan = <<>>
      /\ \A c \in Clients : pc[c] # "send"
      /\ comp = CompIdle /\ \A s \in Shards : applied[s] = 0
  BY DEF InitWith
<1>3. LinesInv
  BY <1>1, <1>2, EmptySound DEF LinesInv
<1>4. TextOK /\ TextExact
  BY <1>2 DEF TextOK, TextExact, CompIdle
<1> QED BY <1>3, <1>4 DEF WholeInv

LEMMA WholeGives ==
  ASSUME WholeInv
  PROVE  ScannedShardsAreExact
<1> DEFINE r == Replay(comp.text, now)
           gone == EmptyLists(db) \cup {k \in Keys : Expired(db, k, now)}
<1>1. /\ now \in Nat /\ IsDatabase(db) /\ comp.text \in Seq(FileLine)
  BY DEF WholeInv, LinesInv, TextOK, TypeOK, Sound
<1>2. IsDatabase(r)
  <2>1. \A line \in FileLine : Loggable(line.cmd)
    BY DEF FileLine
  <2> QED BY <1>1, <2>1, ReplayType
<1> HIDE DEF r
<1>3. SUFFICES ASSUME NEW s \in Shards, Replayable(comp.text, now), comp.pc = "scan",
                      s < comp.shard, comp.seen[s] = applied[s]
               PROVE  LET made == KeysIn(s) \cap DOMAIN r
                          kept == KeysIn(s) \cap (DOMAIN db \ gone)
                      IN /\ kept \subseteq made /\ made \subseteq DOMAIN db
                         /\ \A k \in made : /\ DataOf(r[k]) = DataOf(db[k])
                                           /\ r[k].exp = Forever <=> db[k].exp = Forever
  BY DEF ScannedShardsAreExact, r
<1>4. SaysWhatLives(r, db, s, now)
  BY <1>1, <1>3 DEF WholeInv, TextExact, r
<1>5. ASSUME NEW k \in KeysIn(s), k \in DOMAIN db, k \notin gone
      PROVE  k \in DOMAIN r
  <2>1. k \in Keys /\ ~Absent(db[k], now)
    BY <1>5 DEF Absent, Expired, EmptyLists, Holds, KeysIn
  <2> QED BY <1>4, <1>5, <2>1 DEF SaysWhatLives
<1>6. ASSUME NEW k \in KeysIn(s), k \in DOMAIN r
      PROVE  /\ k \in DOMAIN db /\ DataOf(r[k]) = DataOf(db[k])
             /\ r[k].exp = Forever <=> db[k].exp = Forever
  <2>1. k \in DOMAIN db /\ Alike(r[k], db[k])
    BY <1>4, <1>6 DEF SaysWhatLives
  <2>2. r[k] \in Entry /\ db[k] \in Entry
    BY <1>1, <1>2, <1>6, <2>1, EntryAt
  <2> QED BY <2>1, <2>2, SameEntries
<1> QED BY <1>5, <1>6

(***************************************************************************)
(* What the compactor has read of a shard that nobody changed since is in  *)
(* its text, whatever clients, sweeper and crashes do meanwhile, for any   *)
(* number of shards and any commands whose words survive their line: less  *)
(* the expired keys and the empty lists, which it does not write, the      *)
(* lines rebuild every entry, whenever they are replayed (main.rs 255-283).*)
(***************************************************************************)
THEOREM ScansAreExact ==
  ASSUME \A q \in Commands : Legible(q)
  PROVE  Spec => []ScannedShardsAreExact
<1>1. Init \/ InitWith("closed") => WholeInv
  BY InitWhole DEF Init
<1>2. WholeInv /\ [Next]_vars => WholeInv'
  BY WholeStep DEF Readable
<1>3. WholeInv => ScannedShardsAreExact
  BY WholeGives
<1> QED BY <1>1, <1>2, <1>3, PTL DEF Spec

-----------------------------------------------------------------------------
(***************************************************************************)
(* The order of the file in the whole system.  A compaction ends the       *)
(* relation of the file to what is in flight, because the writer's handle  *)
(* stays on the old file; a restart that opens the file begins it again.   *)
(***************************************************************************)

\* all that the compactor wrote of a shard it read at one moment
LEMMA TextInOrder ==
  ASSUME TypeOK, TextOK
  PROVE  comp.text \in Seq(StampedLine) /\ Bounded(comp.text) /\ InOrder(comp.text)
<1> DEFINE w == comp.text
<1>1. w \in Seq(FileLine) /\ FileLine \subseteq StampedLine
  BY DEF TextOK, FileLine
<1>2. w \in Seq(StampedLine) /\ DOMAIN w = 1 .. Len(w)
  BY <1>1
<1>3. \A i \in DOMAIN w : /\ w[i].shard \in Shards /\ w[i].at = comp.seen[w[i].shard]
                          /\ w[i].at \in Nat /\ w[i].at <= applied[w[i].shard]
  <2> TAKE i \in DOMAIN w
  <2>1. w[i] \in StampedLine
    BY <1>2
  <2>2. w[i].shard \in Shards /\ w[i].at \in Nat
    BY <2>1 DEF StampedLine
  <2>3. w[i].at = comp.seen[w[i].shard]
    BY <1>2 DEF TextOK
  <2>4. comp.seen[w[i].shard] <= applied[w[i].shard]
    BY <2>2 DEF TextOK
  <2> QED BY <2>2, <2>3, <2>4
<1> HIDE DEF w
<1>4. InOrder(w)
  BY <1>3 DEF InOrder, Fits
<1>5. Bounded(w)
  BY <1>3 DEF Bounded
<1> QED BY <1>2, <1>4, <1>5 DEF w

\* a step that leaves the file alone, or appends a line without a stamp
LEMMA LooseKept ==
  ASSUME LooseFile, InFlightInv', handle' = handle,
         \A s \in Shards : applied[s] <= applied'[s],
         \/ disk' = disk
         \/ \E line \in StampedLine : line.at = 0 /\ disk' = Append(disk, line)
  PROVE  LooseFile'
<1>1. disk \in Seq(StampedLine) /\ Bounded(disk) /\ InOrder(disk)
  BY DEF LooseFile
<1>2. \A i \in DOMAIN disk : disk[i].at <= applied'[disk[i].shard]
  <2> TAKE i \in DOMAIN disk
  <2>1. disk[i] \in StampedLine /\ disk[i].at <= applied[disk[i].shard]
    BY <1>1 DEF Bounded
  <2>2. disk[i].shard \in Shards /\ disk[i].at \in Nat
    BY <2>1 DEF StampedLine
  <2>3. applied[disk[i].shard] \in Nat /\ applied'[disk[i].shard] \in Nat
    BY <2>2 DEF LooseFile, InFlightInv, TypeOK, ClientsOK
  <2>4. applied[disk[i].shard] <= applied'[disk[i].shard]
    BY <2>2
  <2> QED BY <2>1, <2>2, <2>3, <2>4
<1>3. CASE disk' = disk
  BY <1>1, <1>2, <1>3 DEF LooseFile, Bounded, InOrder, Fits
<1>4. ASSUME NEW line \in StampedLine, line.at = 0, disk' = Append(disk, line)
      PROVE  LooseFile'
  <2>1. /\ disk' \in Seq(StampedLine)
        /\ \A i \in DOMAIN disk' : \/ i \in DOMAIN disk /\ disk'[i] = disk[i]
                                   \/ disk'[i] = line
    BY <1>1, <1>4, AppendElements
  <2>2. 0 <= applied'[line.shard]
    BY <1>4 DEF StampedLine, InFlightInv, TypeOK, ClientsOK
  <2>3. Bounded(disk)'
    BY <1>2, <1>4, <2>1, <2>2 DEF Bounded
  <2>4. InOrder(disk)'
    <3>1. \A i \in DOMAIN disk : Fits(disk[i], line)
      BY <1>4 DEF Fits
    <3>2. InOrder(Append(disk, line))
      BY <1>1, <1>4, <3>1, InOrderAppend
    <3> QED BY <1>4, <3>2 DEF InOrder, Fits
  <2> QED BY <2>1, <2>3, <2>4 DEF LooseFile
<1> QED BY <1>3, <1>4

\* a restart finds the file again, or none
LEMMA LooseCrash ==
  ASSUME LooseFile, InFlightInv', NEW h \in {"named", "closed"}, Crash(h)
  PROVE  IF h = "named" THEN FileInv' ELSE LooseFile'
<1>1. PICK n \in 0 .. Len(buffer) : Restart(n, h)
  BY DEF Crash
<1>2. /\ disk' = disk /\ buffer' = <<>> /\ chan' = <<>> /\ handle' = h
      /\ UNCHANGED applied
  BY <1>1 DEF Restart, Flushed, LooseFile
<1>3. Before(disk, buffer)' /\ Before(disk, chan)'
  BY <1>2 DEF Before
<1> QED BY <1>2, <1>3 DEF FileInv, LooseFile, Bounded, InOrder, Fits

\* the writer writes elsewhere, or there is none
LEMMA LooseStep ==
  ASSUME LooseFile, [UncompactedNext]_vars
  PROVE  FileInv' \/ LooseFile'
<1>1. InFlightInv'
  BY NextInFlight DEF LooseFile, UncompactedNext, Next
<1>2. \A s \in Shards : applied[s] \in Nat
  BY DEF LooseFile, InFlightInv, TypeOK, ClientsOK
<1>3. CASE WriterRecv \/ WriterTick \/ FlushFails \/ Tick \/ UNCHANGED vars
  <2>1. UNCHANGED <<disk, handle, applied>>
    BY <1>3 DEF WriterRecv, WriterTick, FlushFails, Tick, vars, store, writer, Flushed, LooseFile
  <2>2. \A s \in Shards : applied[s] <= applied'[s]
    BY <1>2, <2>1
  <2> QED BY <1>1, <2>1, <2>2, LooseKept
<1>4. ASSUME NEW c \in Clients, ClientStep(c) PROVE LooseFile'
  <2>1. UNCHANGED <<disk, handle>>
    BY <1>4 DEF ClientStep, Request, RunQuiet, RunLogged, RunMove, RunHang, Send, writer
  <2>2. applied' = applied \/ \E S : applied' = Counted(S)
    BY <1>4 DEF ClientStep, Request, RunQuiet, RunLogged, RunMove, RunHang, Send, store
  <2>3. \A s \in Shards : applied[s] <= applied'[s]
    BY <1>2, <2>2, CountedGrows DEF LooseFile, InFlightInv
  <2> QED BY <1>1, <2>1, <2>3, LooseKept
<1>5. CASE SweepStart \/ SweepShard \/ SweepOpen
  <2>1. UNCHANGED <<disk, handle>>
    BY <1>5 DEF SweepStart, SweepShard, SweepOpen, writer
  <2>2. applied' = applied \/ \E S : applied' = Counted(S)
    BY <1>5 DEF SweepStart, SweepShard, SweepOpen, store
  <2>3. \A s \in Shards : applied[s] <= applied'[s]
    BY <1>2, <2>2, CountedGrows DEF LooseFile, InFlightInv
  <2> QED BY <1>1, <2>1, <2>3, LooseKept
<1>6. ASSUME NEW k \in Keys, SweepLog(k) PROVE LooseFile'
  <2> DEFINE line == Stamp(Line(Del(k), FALSE), ShardOf[k], 0)
  <2>1. UNCHANGED <<applied, handle>> /\ (disk' = Append(disk, line) \/ disk' = disk)
    BY <1>6 DEF SweepLog, store, writer
  <2>2. line \in StampedLine /\ line.at = 0
    BY DEF Stamp, Line, Del, StampedLine, Command, PipelineAssumption
  <2> HIDE DEF line
  <2>3. \A s \in Shards : applied[s] <= applied'[s]
    BY <1>2, <2>1
  <2> QED BY <1>1, <2>1, <2>2, <2>3, LooseKept
<1>7. CASE Crash("named")
  BY <1>1, <1>7, LooseCrash
<1> QED BY <1>3, <1>4, <1>5, <1>6, <1>7 DEF UncompactedNext, Core, SweeperStep

LEMMA CompactorFile ==
  ASSUME WholeInv, FileInv \/ LooseFile, CompactorStep \/ CompactFails
  PROVE  FileInv' \/ LooseFile'
<1>1. InFlightInv'
  BY NextInFlight DEF FileInv, LooseFile, Next
<1>2. UNCHANGED applied /\ \A s \in Shards : applied[s] <= applied'[s]
  BY DEF CompactorStep, CompactStart, CompactShard, CompactRename, CompactFails, store,
         WholeInv, LinesInv, TypeOK, ClientsOK
<1>3. CASE CompactStart \/ CompactShard \/ CompactFails
  <2>1. UNCHANGED <<disk, handle, buffer, chan>>
    BY <1>3 DEF CompactStart, CompactShard, CompactFails, writer
  <2> QED BY <1>1, <1>2, <2>1, RequestFile, LooseKept
<1>4. CASE CompactRename
  <2>1. disk' = comp.text /\ handle' \in {"orphan", "closed"}
    BY <1>4 DEF CompactRename, WholeInv, LinesInv, TypeOK, WriterOK
  <2>2. disk' \in Seq(StampedLine) /\ Bounded(comp.text) /\ InOrder(comp.text)
    BY <2>1, TextInOrder DEF WholeInv, LinesInv
  <2>3. Bounded(disk)' /\ InOrder(disk)'
    BY <1>2, <2>1, <2>2 DEF Bounded, InOrder, Fits
  <2> QED BY <1>1, <2>1, <2>2, <2>3 DEF LooseFile
<1> QED BY <1>3, <1>4 DEF CompactorStep

(***************************************************************************)
(* The file has the lines of each shard in the order of the changes, with  *)
(* clients, writer, sweeper and compactor at work, failures and restarts:  *)
(* replay never takes an older command for the newer one.                  *)
(***************************************************************************)
THEOREM FileAlwaysInOrder ==
  ASSUME \A q \in Commands : Legible(q)
  PROVE  Spec => []LogOrder
<1> DEFINE WholeOrder == WholeInv /\ (FileInv \/ LooseFile)
<1>1. ASSUME Init \/ InitWith("closed") PROVE WholeOrder
  <2>1. PICK h \in {"named", "closed"} : InitWith(h)
    BY <1>1 DEF Init
  <2>2. WholeInv /\ InFlightInv
    BY <2>1, InitWhole, InitInFlight
  <2>3. handle = h /\ disk = <<>>
    BY <2>1 DEF InitWith
  <2>4. disk \in Seq(StampedLine) /\ Bounded(disk) /\ InOrder(disk)
        /\ Before(disk, buffer) /\ Before(disk, chan)
    BY <2>3 DEF Bounded, InOrder, Before
  <2> QED BY <2>2, <2>3, <2>4 DEF FileInv, LooseFile
<1>2. ASSUME WholeOrder, [Next]_vars PROVE WholeOrder'
  <2>1. WholeInv'
    BY <1>2, WholeStep DEF Readable
  <2>2. CASE [UncompactedNext]_vars
    <3>1. FileInv' \/ LooseFile'
      BY <1>2, <2>2, UncompactedFile, LooseStep
    <3> QED BY <2>1, <3>1
  <2>3. CASE CompactorStep \/ CompactFails
    <3>1. FileInv' \/ LooseFile'
      BY <1>2, <2>3, CompactorFile
    <3> QED BY <2>1, <3>1
  <2>4. ASSUME NEW h \in {"named", "closed"}, Crash(h) PROVE WholeOrder'
    <3>1. InFlightInv'
      BY <1>2, <2>4, NextInFlight DEF FileInv, LooseFile
    <3>2. FileInv' \/ LooseFile'
      BY <1>2, <2>4, <3>1, CrashFile, LooseCrash
    <3> QED BY <2>1, <3>2
  <2> QED BY <1>2, <2>2, <2>3, <2>4 DEF Next, UncompactedNext
<1>3. WholeOrder => LogOrder
  BY DEF FileInv, LooseFile, InFlightInv, LogOrder
<1> QED BY <1>1, <1>2, <1>3, PTL DEF Spec

-----------------------------------------------------------------------------
(***************************************************************************)
(* What the sweeper removes.  Its clock may be old, never ahead.           *)
(***************************************************************************)

ClockBehind == sweep.clock <= now

LEMMA ClockStep ==
  ASSUME TypeOK, TypeOK', ClockBehind, [Next]_vars
  PROVE  ClockBehind'
<1>1. /\ now \in Nat /\ now' \in Nat /\ sweep.clock \in Nat /\ now <= now'
      /\ sweep \in [pc : {"idle", "scan", "log", "lost"}, shard : 0 .. NumShards,
                    clock : Nat, keys : SUBSET Keys]
  <2>1. now' = now \/ now' = now + 1
    BY DEF Next, Core, ClientStep, Request, RunQuiet, RunLogged, RunMove, RunHang, Send,
           WriterRecv, WriterTick, FlushFails, Tick, SweeperStep, SweepStart, SweepShard,
           SweepOpen, SweepLog, CompactorStep, CompactStart, CompactShard, CompactRename,
           CompactFails, Crash, Restart, vars
  <2> QED BY <2>1 DEF TypeOK, SweepOK
<1>2. sweep'.clock \in {sweep.clock, 0, now}
  <2>1. CASE SweeperStep
    <3>1. SweepIdle.clock = 0 /\ [SweepIdle EXCEPT !.pc = "scan", !.clock = now].clock = now
      BY DEF SweepIdle
    <3>2. CASE SweepStart
      BY <3>1, <3>2 DEF SweepStart
    <3>3. CASE SweepShard
      BY <1>1, <3>3 DEF SweepShard
    <3>4. CASE SweepOpen
      BY <1>1, <3>1, <3>4 DEF SweepOpen
    <3>5. CASE \E k \in Keys : SweepLog(k)
      BY <1>1, <3>1, <3>5 DEF SweepLog
    <3> QED BY <2>1, <3>2, <3>3, <3>4, <3>5 DEF SweeperStep
  <2>2. CASE CompactorStep \/ CompactFails
    BY <1>1, <2>2 DEF CompactorStep, CompactStart, CompactShard, CompactRename, CompactFails
  <2>3. CASE \E h \in {"named", "closed"} : Crash(h)
    BY <2>3 DEF Crash, Restart, SweepIdle
  <2>4. CASE Core \/ FlushFails \/ UNCHANGED vars
    BY <2>4 DEF Core, ClientStep, Request, RunQuiet, RunLogged, RunMove, RunHang, Send,
                WriterRecv, WriterTick, FlushFails, Tick, vars
  <2> QED BY <2>1, <2>2, <2>3, <2>4 DEF Next
<1> QED BY <1>1, <1>2 DEF ClockBehind

LEMMA SweptHadExpired ==
  ASSUME LinesInv, ClockBehind, SweepShard, NEW k \in DOMAIN db \ DOMAIN db'
  PROVE  Expired(db, k, now)
<1>1. db' = Without(db, Doomed(sweep.shard))
  BY DEF SweepShard
<1>2. k \in Doomed(sweep.shard)
  BY <1>1 DEF Without
<1>3. k \in DOMAIN db /\ db[k].exp # Forever /\ sweep.clock > db[k].exp
  BY <1>2 DEF Doomed, Expired
<1>4. db[k].exp \in Nat
  BY <1>3, EntryAt, EntryFields DEF LinesInv, Sound, Time
<1>5. now \in Nat /\ sweep.clock \in Nat /\ sweep.clock <= now
  BY DEF LinesInv, TypeOK, SweepOK, ClockBehind
<1> QED BY <1>3, <1>4, <1>5 DEF Expired

(***************************************************************************)
(* However long the sweeper waited for a shard, and whatever clients put   *)
(* under its keys meanwhile, it removes only what has expired, in the      *)
(* whole system (main.rs 206-227).                                         *)
(***************************************************************************)
THEOREM OnlyExpiredSwept ==
  ASSUME \A q \in Commands : Legible(q)
  PROVE  Spec => SweepsOnlyExpired
<1> DEFINE SweepInv == WholeInv /\ ClockBehind
<1>1. ASSUME Init \/ InitWith("closed") PROVE SweepInv
  <2>1. PICK h \in {"named", "closed"} : InitWith(h)
    BY <1>1 DEF Init
  <2>2. WholeInv
    BY <2>1, InitWhole
  <2>3. sweep = SweepIdle /\ now \in Nat
    BY <2>1, <2>2 DEF InitWith, WholeInv, LinesInv, TypeOK
  <2> QED BY <2>2, <2>3 DEF SweepIdle, ClockBehind
<1>2. ASSUME SweepInv, [Next]_vars PROVE SweepInv'
  <2>1. WholeInv'
    BY <1>2, WholeStep DEF Readable
  <2> QED BY <1>2, <2>1, ClockStep DEF WholeInv, LinesInv
<1>3. SweepInv => (SweepShard => \A k \in DOMAIN db \ DOMAIN db' : Expired(db, k, now))
  BY SweptHadExpired DEF WholeInv
<1> QED BY <1>1, <1>2, <1>3, PTL DEF Spec, SweepsOnlyExpired
=============================================================================
