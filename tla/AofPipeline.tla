----------------------------- MODULE AofPipeline -----------------------------
(***************************************************************************)
(* The store at work: client tasks that change a shard and then wait, with *)
(* the shard still locked, for room in the log channel; the writer task    *)
(* that batches lines into database.aof; the expiration sweeper and the    *)
(* compactor, which reach the same shards and the same file by another     *)
(* road; and a process that dies and replays the file.                     *)
(*                                                                         *)
(* A line carries a history stamp: the shard of its key and, when it was   *)
(* sent with that shard locked, the number of changes made to the shard so *)
(* far.  Lines sent without the lock have stamp 0.  No action reads one.   *)
(***************************************************************************)
EXTENDS Handlers, AofText

CONSTANTS
  Clients,     \* connection tasks
  NumShards,   \* shards of the database
  ShardOf,     \* calculate_shard_index, a function from keys
  Commands,    \* the commands clients may send
  ChanCap,     \* capacity of the log channel
  FlushAt,     \* lines that fill the writer's 64 KB buffer
  MaxApplied,  \* bound: changes per shard after which no command is sent
  MaxTime,     \* bound: last instant of the clock
  Free,        \* a shard nobody keeps locked
  NoCommand    \* a client that is reading its socket

Shards == 0 .. NumShards - 1

ASSUME PipelineAssumption ==
  /\ NumShards \in Nat \ {0}
  /\ ShardOf \in [Keys -> Shards]
  /\ ChanCap \in Nat \ {0} /\ FlushAt \in Nat \ {0}
  /\ Free \notin Clients
  /\ Commands \subseteq Command

VARIABLES
  now,      \* SystemTime::now()
  db,       \* the maps of all shards
  applied,  \* history: changes made to each shard
  guard,    \* who keeps the write lock of each shard across an await
  pc,       \* where each client's task is
  cmd,      \* the command it is working on
  asked,    \* the clock SETEX read before it waited for the lock
  out,      \* the line it is sending
  chan,     \* aof_tx / aof_rx
  buffer,   \* the writer's String
  disk,     \* the lines of the file named database.aof
  handle,   \* the file the writer holds open
  sweep,    \* the sweeper task
  comp      \* the compactor task

clients == <<guard, pc, cmd, asked, out>>
writer  == <<chan, buffer, handle>>
store   == <<db, applied>>
vars    == <<now, store, clients, writer, disk, sweep, comp>>

Stamp(line, s, n) ==
  [cmd |-> line.cmd, quoted |-> line.quoted, shard |-> s, at |-> n]

StampedLine == [cmd : Command, quoted : BOOLEAN, shard : Shards, at : Nat]

KeysIn(s)   == {k \in Keys : ShardOf[k] = s}
ShardsOf(q) == {ShardOf[k] : k \in KeysOf(q)}

SweepIdle == [pc |-> "idle", shard |-> 0, clock |-> 0, keys |-> {}]
CompIdle  == [pc |-> "idle", shard |-> 0, text |-> <<>>, seen |-> [s \in Shards |-> 0]]

\* handle is "named" while it is the file that bears the name database.aof,
\* "orphan" after a rename put another file there, and "closed" when open
\* failed, in which case the writer task ended and dropped its receiver
InitWith(h) ==
  /\ now = 0
  /\ db = EmptyDb
  /\ applied = [s \in Shards |-> 0]
  /\ guard = [s \in Shards |-> Free]
  /\ pc = [c \in Clients |-> "idle"]
  /\ cmd = [c \in Clients |-> NoCommand]
  /\ asked = [c \in Clients |-> 0]
  /\ out = [c \in Clients |-> NoLine]
  /\ chan = <<>>
  /\ buffer = <<>>
  /\ disk = <<>>
  /\ handle = h
  /\ sweep = SweepIdle
  /\ comp = CompIdle

Init == InitWith("named")

-----------------------------------------------------------------------------
(* A client's task.                                                        *)

\* a command is read and parsed; the task asks for the lock of its shards
Request(c, q) ==
  /\ pc[c] = "idle"
  /\ \A s \in Shards : applied[s] < MaxApplied
  /\ pc' = [pc EXCEPT ![c] = "wait"]
  /\ cmd' = [cmd EXCEPT ![c] = q]
  /\ asked' = [asked EXCEPT ![c] = IF q.op = "SETEX" THEN now ELSE 0]
  /\ UNCHANGED <<now, store, guard, out, writer, disk, sweep, comp>>

Locked(c) == pc[c] = "wait" /\ \A s \in ShardsOf(cmd[c]) : guard[s] = Free

Outcome(c) == Exec(db, cmd[c], IF cmd[c].op = "SETEX" THEN asked[c] ELSE now)

Home(c) == ShardOf[cmd[c].key]

Counted(S) == [s \in Shards |-> IF s \in S THEN applied[s] + 1 ELSE applied[s]]

Finish(c) ==
  /\ pc' = [pc EXCEPT ![c] = "idle"]
  /\ cmd' = [cmd EXCEPT ![c] = NoCommand]
  /\ asked' = [asked EXCEPT ![c] = 0]

\* nothing changed: the reply is written, or SETEX panics and the client is gone
RunQuiet(c) ==
  /\ Locked(c)
  /\ Outcome(c).line = NoLine /\ Outcome(c).reply # Hang
  /\ Finish(c)
  /\ UNCHANGED <<now, store, guard, out, writer, disk, sweep, comp>>

\* Mutation: the guard is dropped before the line is sent.
RunLoggedUnguarded(c) ==
  /\ Locked(c)
  /\ cmd[c].op # "RPOPLPUSH" /\ Outcome(c).line # NoLine
  /\ db' = Outcome(c).db
  /\ applied' = Counted({Home(c)})
  /\ out' = [out EXCEPT ![c] = Stamp(Outcome(c).line, Home(c), applied[Home(c)] + 1)]
  /\ pc' = [pc EXCEPT ![c] = "send"]
  /\ UNCHANGED <<now, guard, cmd, asked, writer, disk, sweep, comp>>

\* a handler of one key: it still owns the write guard when it sends the line
RunLogged(c) ==
  /\ Locked(c)
  /\ cmd[c].op # "RPOPLPUSH" /\ Outcome(c).line # NoLine
  /\ db' = Outcome(c).db
  /\ applied' = Counted({Home(c)})
  /\ guard' = [guard EXCEPT ![Home(c)] = c]
  /\ out' = [out EXCEPT ![c] = Stamp(Outcome(c).line, Home(c), applied[Home(c)] + 1)]
  /\ pc' = [pc EXCEPT ![c] = "send"]
  /\ UNCHANGED <<now, cmd, asked, writer, disk, sweep, comp>>

\* RPOPLPUSH: the guards die with the match arm, the line is sent after it
RunMove(c) ==
  /\ Locked(c)
  /\ cmd[c].op = "RPOPLPUSH" /\ Outcome(c).line # NoLine
  /\ db' = Outcome(c).db
  /\ applied' = Counted(ShardsOf(cmd[c]))
  /\ out' = [out EXCEPT ![c] = Stamp(Outcome(c).line, Home(c), 0)]
  /\ pc' = [pc EXCEPT ![c] = "send"]
  /\ UNCHANGED <<now, guard, cmd, asked, writer, disk, sweep, comp>>

\* LTRIM in its endless loop
RunHang(c) ==
  /\ Locked(c)
  /\ Outcome(c).reply = Hang
  /\ db' = Outcome(c).db
  /\ applied' = Counted({Home(c)})
  /\ guard' = [guard EXCEPT ![Home(c)] = c]
  /\ pc' = [pc EXCEPT ![c] = "hung"]
  /\ UNCHANGED <<now, cmd, asked, out, writer, disk, sweep, comp>>

\* Mutation: an unbounded channel.
SendUnbounded(c) ==
  /\ pc[c] = "send"
  /\ chan' = IF handle = "closed" THEN chan ELSE Append(chan, out[c])
  /\ guard' = [s \in Shards |-> IF guard[s] = c THEN Free ELSE guard[s]]
  /\ out' = [out EXCEPT ![c] = NoLine]
  /\ Finish(c)
  /\ UNCHANGED <<now, store, buffer, disk, handle, sweep, comp>>

\* Mutation: the guard outlives the handler.
SendKeepsGuard(c) ==
  /\ pc[c] = "send"
  /\ Len(chan) < ChanCap /\ chan' = Append(chan, out[c])
  /\ out' = [out EXCEPT ![c] = NoLine]
  /\ Finish(c)
  /\ UNCHANGED <<now, store, guard, buffer, disk, handle, sweep, comp>>

\* aof_tx.send(log).await returns: at once with an ignored error when there is
\* no receiver, else when there is room; the guard goes and the reply is sent
Send(c) ==
  /\ pc[c] = "send"
  /\ \/ handle = "closed" /\ UNCHANGED chan
     \/ handle # "closed" /\ Len(chan) < ChanCap /\ chan' = Append(chan, out[c])
  /\ guard' = [s \in Shards |-> IF guard[s] = c THEN Free ELSE guard[s]]
  /\ out' = [out EXCEPT ![c] = NoLine]
  /\ Finish(c)
  /\ UNCHANGED <<now, store, buffer, disk, handle, sweep, comp>>

ClientStep(c) ==
  \/ \E q \in Commands : Request(c, q)
  \/ RunQuiet(c) \/ RunLogged(c) \/ RunMove(c) \/ RunHang(c)
  \/ Send(c)

-----------------------------------------------------------------------------
(* The writer task.                                                        *)

\* what the named file holds once the writer has written lines to its handle
Flushed(lines) == IF handle = "named" THEN disk \o lines ELSE disk

WriterRecv ==
  /\ handle # "closed" /\ chan # <<>>
  /\ LET filled == Append(buffer, Head(chan))
     IN IF Len(filled) >= FlushAt THEN buffer' = <<>> /\ disk' = Flushed(filled)
                                  ELSE buffer' = filled /\ UNCHANGED disk
  /\ chan' = Tail(chan)
  /\ UNCHANGED <<now, store, clients, handle, sweep, comp>>

\* Mutation: the tick clears the buffer without writing it.
WriterTickClears ==
  /\ buffer # <<>>
  /\ buffer' = <<>>
  /\ UNCHANGED <<now, store, clients, chan, disk, handle, sweep, comp>>

\* flush_interval: write_all, sync_data, clear
WriterTick ==
  /\ buffer # <<>>
  /\ disk' = Flushed(buffer)
  /\ buffer' = <<>>
  /\ UNCHANGED <<now, store, clients, chan, handle, sweep, comp>>

\* the same with an error of write_all, which is ignored
FlushFails ==
  /\ buffer # <<>>
  /\ buffer' = <<>>
  /\ UNCHANGED <<now, store, clients, chan, disk, handle, sweep, comp>>

-----------------------------------------------------------------------------
(* The expiration sweeper.                                                 *)

SweepStart ==
  /\ sweep.pc = "idle"
  /\ sweep' = [SweepIdle EXCEPT !.pc = "scan", !.clock = now]
  /\ UNCHANGED <<now, store, clients, writer, disk, comp>>

\* Mutation: `>=` for `>`.
DoomedEarly(s) ==
  {k \in KeysIn(s) \cap DOMAIN db : db[k].exp # Forever /\ sweep.clock >= db[k].exp}

Doomed(s) == {k \in KeysIn(s) : Expired(db, k, sweep.clock)}

SweepShard ==
  /\ sweep.pc = "scan" /\ sweep.shard < NumShards
  /\ guard[sweep.shard] = Free
  /\ db' = Without(db, Doomed(sweep.shard))
  /\ applied' = IF Doomed(sweep.shard) = {} THEN applied ELSE Counted({sweep.shard})
  /\ sweep' = [sweep EXCEPT !.shard = @ + 1, !.keys = @ \cup Doomed(sweep.shard)]
  /\ UNCHANGED <<now, clients, writer, disk, comp>>

\* Mutation: a round that finds nothing ends the task.
SweepOpenOnce ==
  /\ sweep.pc = "scan" /\ sweep.shard = NumShards
  /\ sweep' = [sweep EXCEPT !.pc = IF sweep.keys = {} THEN "done" ELSE "log"]
  /\ UNCHANGED <<now, store, clients, writer, disk, comp>>

\* every shard is done: open database.aof by name, if there is a key to log.
\* With none, or when open fails, the round ends; removed keys stay unlogged.
SweepOpen ==
  /\ sweep.pc = "scan" /\ sweep.shard = NumShards
  /\ \/ sweep' = SweepIdle
     \/ sweep.keys # {} /\ sweep' = [sweep EXCEPT !.pc = "log"]
  /\ UNCHANGED <<now, store, clients, writer, disk, comp>>

\* "log": the file it opened still has the name; "lost": it was renamed over.
\* An error of write_all is ignored.
SweepLog(k) ==
  /\ sweep.pc \in {"log", "lost"} /\ k \in sweep.keys
  /\ \/ UNCHANGED disk
     \/ sweep.pc = "log" /\ disk' = Append(disk, Stamp(Line(Del(k), FALSE), ShardOf[k], 0))
  /\ sweep' = IF sweep.keys = {k} THEN SweepIdle ELSE [sweep EXCEPT !.keys = @ \ {k}]
  /\ UNCHANGED <<now, store, clients, writer, comp>>

SweeperStep == SweepStart \/ SweepShard \/ SweepOpen \/ \E k \in Keys : SweepLog(k)

-----------------------------------------------------------------------------
(* The compactor.                                                          *)

CompactStart ==
  /\ comp.pc = "idle"
  /\ comp' = [CompIdle EXCEPT !.pc = "scan"]
  /\ UNCHANGED <<now, store, clients, writer, disk, sweep>>

Stamped(lines, s) == [i \in DOMAIN lines |-> Stamp(lines[i], s, applied[s])]

\* one shard under its read lock
CompactShard ==
  LET s == comp.shard
  IN /\ comp.pc = "scan" /\ s < NumShards
     /\ guard[s] = Free
     /\ comp' = [comp EXCEPT !.shard = s + 1,
                             !.text = @ \o Stamped(Snapshot(db, KeysIn(s), now), s),
                             !.seen[s] = applied[s]]
     /\ UNCHANGED <<now, store, clients, writer, disk, sweep>>

\* the temporary file is written and takes the name; handles stay on the old one
CompactRename ==
  /\ comp.pc = "scan" /\ comp.shard = NumShards
  /\ disk' = comp.text
  /\ handle' = IF handle = "named" THEN "orphan" ELSE handle
  /\ sweep' = IF sweep.pc = "log" THEN [sweep EXCEPT !.pc = "lost"] ELSE sweep
  /\ comp' = CompIdle
  /\ UNCHANGED <<now, store, clients, chan, buffer>>

\* fs::write or fs::rename fails: nothing more happens until the next round
CompactFails ==
  /\ comp.pc = "scan" /\ comp.shard = NumShards
  /\ comp' = CompIdle
  /\ UNCHANGED <<now, store, clients, writer, disk, sweep>>

CompactorStep == CompactStart \/ CompactShard \/ CompactRename

-----------------------------------------------------------------------------

Tick ==
  /\ now < MaxTime
  /\ now' = now + 1
  /\ UNCHANGED <<store, clients, writer, disk, sweep, comp>>

\* Mutation: the writer's open truncates the file, after it has been replayed.
RestartTruncating(n, h) ==
  /\ n \in 0 .. Len(buffer)
  /\ Replayable(Flushed(SubSeq(buffer, 1, n)), now)
  /\ disk' = <<>>
  /\ db' = Replay(Flushed(SubSeq(buffer, 1, n)), now)
  /\ guard' = [s \in Shards |-> Free]
  /\ pc' = [c \in Clients |-> "idle"]
  /\ cmd' = [c \in Clients |-> NoCommand]
  /\ asked' = [c \in Clients |-> 0]
  /\ out' = [c \in Clients |-> NoLine]
  /\ chan' = <<>>
  /\ buffer' = <<>>
  /\ handle' = h
  /\ sweep' = SweepIdle
  /\ comp' = CompIdle
  /\ UNCHANGED <<now, applied>>

(***************************************************************************)
(* The process dies and is started again: a flush may have been under way, *)
(* so the first n buffered lines may have reached the file.  replay_aof    *)
(* runs before any task is spawned; where it panics the server does not    *)
(* start.  The writer opens the file anew: h is what its handle is then.   *)
(***************************************************************************)
Restart(n, h) ==
  /\ n \in 0 .. Len(buffer)
  /\ disk' = Flushed(SubSeq(buffer, 1, n))
  /\ Replayable(disk', now)
  /\ db' = Replay(disk', now)
  /\ guard' = [s \in Shards |-> Free]
  /\ pc' = [c \in Clients |-> "idle"]
  /\ cmd' = [c \in Clients |-> NoCommand]
  /\ asked' = [c \in Clients |-> 0]
  /\ out' = [c \in Clients |-> NoLine]
  /\ chan' = <<>>
  /\ buffer' = <<>>
  /\ handle' = h
  /\ sweep' = SweepIdle
  /\ comp' = CompIdle
  /\ UNCHANGED <<now, applied>>

Crash(h) == \E n \in 0 .. Len(buffer) : Restart(n, h)

Core == WriterRecv \/ WriterTick \/ Tick \/ \E c \in Clients : ClientStep(c)

Next == \/ Core \/ SweeperStep \/ CompactorStep \/ CompactFails \/ FlushFails
        \/ \E h \in {"named", "closed"} : Crash(h)

(***************************************************************************)
(* The specifications: the whole system, in which open may fail at every   *)
(* start; and the parts of it, in which the writer gets its file, that     *)
(* keep promises the whole does not.                                       *)
(***************************************************************************)
Spec       == (Init \/ InitWith("closed")) /\ [][Next]_vars
CrashSpec  == Init /\ [][Core \/ Crash("named")]_vars
SweepSpec  == Init /\ [][Core \/ SweeperStep]_vars
CompactSpec == Init /\ [][Core \/ CompactorStep]_vars
\* everything but the compactor
UncompactedNext == Core \/ SweeperStep \/ FlushFails \/ Crash("named")
UncompactedSpec == Init /\ [][UncompactedNext]_vars

(***************************************************************************)
(* Fairness.  The runtime polls every task that is ready: weak fairness of *)
(* the writer's two select branches and of the tasks' own steps.  Tokio's  *)
(* RwLock and the channel's semaphore are first come, first served, so one *)
(* who waits is not passed over for ever: strong fairness.                 *)
(***************************************************************************)
WriterFairness == WF_vars(WriterRecv) /\ WF_vars(WriterTick)

ClientFairness ==
  \A c \in Clients : /\ SF_vars(RunQuiet(c) \/ RunLogged(c) \/ RunMove(c) \/ RunHang(c))
                     /\ SF_vars(Send(c))

SweeperFairness == /\ WF_vars(SweepStart) /\ WF_vars(SweepOpen) /\ SF_vars(SweepShard)
                   /\ WF_vars(\E k \in Keys : SweepLog(k))

FairSweepSpec == SweepSpec /\ WriterFairness /\ ClientFairness /\ SweeperFairness /\ WF_vars(Tick)

-----------------------------------------------------------------------------

(***************************************************************************)
(* The types, and the capacities: what a crash can take from the clients   *)
(* that have their answer is at most a full channel and an almost full     *)
(* buffer.  (That the file and the databases are well formed is checked in *)
(* CommandLog.)                                                            *)
(***************************************************************************)
ClientsOK ==
  /\ applied \in [Shards -> Nat]
  /\ guard \in [Shards -> Clients \cup {Free}]
  /\ pc \in [Clients -> {"idle", "wait", "send", "hung"}]
  /\ cmd \in [Clients -> Commands \cup {NoCommand}]
  /\ \A c \in Clients : pc[c] # "idle" => cmd[c] \in Commands
  /\ asked \in [Clients -> Nat]
  /\ out \in [Clients -> StampedLine \cup {NoLine}]
  /\ \A c \in Clients : pc[c] = "send" => out[c] \in StampedLine

WriterOK ==
  /\ chan \in Seq(StampedLine) /\ Len(chan) <= ChanCap
  /\ buffer \in Seq(StampedLine) /\ Len(buffer) < FlushAt
  /\ handle \in {"named", "orphan", "closed"}

SweepOK ==
  sweep \in [pc : {"idle", "scan", "log", "lost"}, shard : 0 .. NumShards,
            clock : Nat, keys : SUBSET Keys]

CompOK ==
  comp \in [pc : {"idle", "scan"}, shard : 0 .. NumShards,
           text : {comp.text}, seen : [Shards -> Nat]]

TypeOK == now \in Nat /\ ClientsOK /\ WriterOK /\ SweepOK /\ CompOK

\* of two lines of a shard sent under its lock, l may come before m in the file
Fits(l, m) == l.shard = m.shard /\ l.at # 0 /\ m.at # 0 => l.at <= m.at

InOrder(lines)     == \A i, j \in DOMAIN lines : i < j => Fits(lines[i], lines[j])
Before(older, newer) ==
  \A i \in DOMAIN older, j \in DOMAIN newer : Fits(older[i], newer[j])

(***************************************************************************)
(* Lines that clients send with a shard locked go through the channel and  *)
(* the buffer in the order in which the shard was changed: every handler   *)
(* of one key sends before it lets the guard go (server.rs).               *)
(***************************************************************************)
SendOrder == InOrder(buffer) /\ InOrder(chan) /\ Before(buffer, chan)

(***************************************************************************)
(* They are in that order in the file too, whatever flushes, renames and   *)
(* restarts there have been, and those in flight fit behind them as long   *)
(* as the writer writes to the named file: replay never takes an older     *)
(* command for the newer one (main.rs 102-195, 300-330).                   *)
(***************************************************************************)
LogOrder ==
  /\ SendOrder
  /\ InOrder(disk)
  /\ handle = "named" => Before(disk, buffer) /\ Before(disk, chan)

InFlight == buffer \o chan

\* the lines of clients that have changed a shard and not yet sent the line
Pending ==
  LET senders == SetToSeq({c \in Clients : pc[c] = "send"})
  IN [i \in DOMAIN senders |-> out[senders[i]]]

Recorded == disk \o InFlight \o Pending

(***************************************************************************)
(* Memory is what the lines say: replaying the file, the buffer, the       *)
(* channel and the lines still being sent gives the database, whatever the *)
(* clients interleave, as long as replay_aof gets through them             *)
(* (README.md:197).                                                        *)
(***************************************************************************)
MemoryIsTheLog ==
  LET rebuilt == Replay(Recorded, now)
  IN Replayable(Recorded, now) => SameData(rebuilt, db) /\ SameLease(rebuilt, db)

(***************************************************************************)
(* When nothing is on its way, the file alone rebuilds the database        *)
(* (README.md:197; main.rs 102-195).  A list that has become empty is not  *)
(* told apart from one that is missing: popping from either answers nil.   *)
(***************************************************************************)
Quiet ==
  /\ InFlight = <<>> /\ \A c \in Clients : pc[c] = "idle"
  /\ sweep.pc = "idle" /\ comp.pc = "idle"

QuietDiskRebuilds ==
  Quiet /\ Replayable(disk, now) =>
    SameData(Without(Replay(disk, now), EmptyLists(Replay(disk, now))),
             Without(db, EmptyLists(db)))

(***************************************************************************)
(* A shard the compactor has read and that nobody changed since is         *)
(* represented in its text by lines that rebuild it, expiries included,    *)
(* less the expired keys and the empty lists, while commands go on in      *)
(* other shards (main.rs 255-283).                                         *)
(***************************************************************************)
ScannedShardsAreExact ==
  LET rebuilt == Replay(comp.text, now)
      gone    == EmptyLists(db) \cup {k \in Keys : Expired(db, k, now)}
  IN Replayable(comp.text, now) =>
       \A s \in Shards : comp.pc = "scan" /\ s < comp.shard /\ comp.seen[s] = applied[s] =>
         LET made == KeysIn(s) \cap DOMAIN rebuilt
             kept == KeysIn(s) \cap (DOMAIN db \ gone)
         IN /\ kept \subseteq made /\ made \subseteq DOMAIN db
            /\ \A k \in made : /\ DataOf(rebuilt[k]) = DataOf(db[k])
                              /\ rebuilt[k].exp = Forever <=> db[k].exp = Forever

(***************************************************************************)
(* The sweeper removes only what has expired, although it took its clock   *)
(* before it waited for any lock and SETEX may have put a new entry under  *)
(* the key since (main.rs 206-227).                                        *)
(***************************************************************************)
SweepsOnlyExpired ==
  [][SweepShard => \A k \in DOMAIN db \ DOMAIN db' : Expired(db, k, now)]_vars

(***************************************************************************)
(* Every command is answered, however full the channel and however many    *)
(* tasks want the shard.                                                   *)
(***************************************************************************)
EveryCommandAnswered == \A c \in Clients : pc[c] = "wait" ~> pc[c] = "idle"

(***************************************************************************)
(* The line of a change a client made reaches the file, although the       *)
(* buffer may never fill, and the sweeper appends to the file meanwhile    *)
(* (main.rs 308-323).                                                      *)
(***************************************************************************)
EveryChangeWritten ==
  \A s \in Shards : \A n \in 1 .. MaxApplied :
    (\E c \in Clients : pc[c] = "send" /\ out[c].shard = s /\ out[c].at = n)
      ~> \E i \in DOMAIN disk : disk[i].shard = s /\ disk[i].at = n

(***************************************************************************)
(* A key that has expired is removed although nobody reads it              *)
(* (index.html:870; README.md:218).                                        *)
(***************************************************************************)
ExpiredAreSwept == \A k \in Keys : Expired(db, k, now) ~> ~Expired(db, k, now)

(***************************************************************************)
(* The file, the buffer and the channel are one durable log: without the   *)
(* sweeper and the compactor, which write to the file past the writer,     *)
(* every step, a crash included, is a step of DurableLog.                  *)
(***************************************************************************)
Durable == INSTANCE DurableLog WITH log <- disk \o InFlight, stable <- Len(disk)

ImplementsDurableLog == Durable!Spec
=============================================================================
