----------------------------- MODULE CommandLog -----------------------------
(***************************************************************************)
(* One client at a time, a log that never fails: what the sequence of log  *)
(* lines a history of commands leaves behind is worth.  The concurrency,   *)
(* the buffers and the failures are in AofPipeline; what goes wrong here   *)
(* goes wrong without them.                                                *)
(***************************************************************************)
EXTENDS Handlers, AofText

CONSTANTS
  Commands,   \* the commands clients may send
  MaxLog,     \* bound: lines in the log
  MaxTime     \* bound: last instant of the clock

ASSUME CommandsAssumption == Commands \subseteq Command

VARIABLES
  db,     \* the shards' maps
  log,    \* the lines sent to the append-only file, in order
  now,    \* SystemTime::now()
  stuck   \* a handler is in an endless loop with its shard locked

vars == <<db, log, now, stuck>>

Init ==
  /\ db = EmptyDb
  /\ log = <<>>
  /\ now = 0
  /\ stuck = FALSE

\* a client's command, start to finish
Run(c) ==
  LET outcome == Exec(db, c, now)
  IN /\ ~stuck
     /\ Len(log) < MaxLog
     /\ db' = outcome.db
     /\ log' = IF outcome.line = NoLine THEN log ELSE Append(log, outcome.line)
     /\ stuck' = (outcome.reply = Hang)
     /\ UNCHANGED now

Tick ==
  /\ now < MaxTime
  /\ now' = now + 1
  /\ UNCHANGED <<db, log, stuck>>

Next == Tick \/ \E c \in Commands : Run(c)

Spec == Init /\ [][Next]_vars

-----------------------------------------------------------------------------

TypeOK ==
  /\ IsDatabase(db)
  /\ now \in Nat
  /\ stuck \in BOOLEAN
  /\ log \in Seq(LogLine)

(***************************************************************************)
(* Replaying the lines from nothing gives the entries the handlers left in *)
(* memory, with an expiry on the same keys: no handler changes the store   *)
(* behind the log's back, logs something replay_aof reads differently, or  *)
(* logs what it did not do (server.rs against main.rs 113-191).  A log     *)
(* with an LTRIM in it is left out: replay_aof has no arm for the line.    *)
(* So is a log that has grown too late to be replayed at all.              *)
(***************************************************************************)
ReplayRebuilds ==
  ~stuck /\ Replayable(log, now) /\ (\A i \in DOMAIN log : log[i].cmd.op # "LTRIM") =>
    LET rebuilt == Replay(log, now)
    IN SameData(rebuilt, db) /\ SameLease(rebuilt, db)

(***************************************************************************)
(* The file the compactor writes rebuilds what it saw, except for the keys *)
(* that had expired and the lists that were empty; what is left of an      *)
(* expiry is cut to whole seconds, so a key may be gone up to one second   *)
(* early and never stays longer (main.rs 255-283).                         *)
(***************************************************************************)
SnapshotRebuilds ==
  LET rebuilt == Replay(Snapshot(db, Keys, now), now)
      gone    == EmptyLists(db) \cup {k \in DOMAIN db : Expired(db, k, now)}
  IN /\ SameData(rebuilt, Without(db, gone))
     /\ SameLease(rebuilt, db)
     /\ \A k \in DOMAIN rebuilt : rebuilt[k].exp # Forever =>
          /\ rebuilt[k].exp <= db[k].exp
          /\ rebuilt[k].exp > db[k].exp - TicksPerSec

(***************************************************************************)
(* Only strings ever have an expiry: the compactor and the replay of lists,*)
(* hashes and sets have no place to put one, and the handlers that change  *)
(* an entry in place never meet one (main.rs 266-281).                     *)
(***************************************************************************)
OnlyStringsExpire ==
  \A k \in DOMAIN db : db[k].exp # Forever => "str" \in DOMAIN db[k]

\* how many times v is in the lists of d
Copies(d, v) ==
  LET at(k) == IF Holds(d, k, "list")
               THEN Cardinality({i \in DOMAIN d[k].list : d[k].list[i] = v}) ELSE 0
  IN FoldSet(LAMBDA k, n : n + at(k), 0, DOMAIN d)

(***************************************************************************)
(* RPOPLPUSH to a list, or to a key that is absent, moves an item: even    *)
(* from a list to itself, the lists together have as many copies of every  *)
(* value after the command as before it (server.rs 1018-1065;              *)
(* README.md:304, "a job is never lost between the pop and the push").     *)
(* Anywhere else it loses the item: see MoveItem.                          *)
(***************************************************************************)
MovesKeepItems ==
  [][\A c \in Commands :
       c.op = "RPOPLPUSH" /\ Accepts(db, c.dst, "list") /\ Run(c) =>
         \A v \in Val : Copies(db', v) = Copies(db, v)]_vars

(***************************************************************************)
(* LTRIM and LRANGE resolve negative and out-of-range indices apart from   *)
(* each other (server.rs 794-903), and agree: where LRANGE shows elements, *)
(* LTRIM leaves exactly those; where it shows none, LTRIM removes the key. *)
(* Each has one case in which it never comes back.  LTRIM loops over the   *)
(* list it has emptied when, and only when, both indices lie more than one *)
(* place before the head in their order; the comment at server.rs:785-787  *)
(* says that "the entire list is deleted" there.  LRANGE loops on a list   *)
(* that pops have left empty when, and only when, start is negative and    *)
(* stop is not; LTRIM removes the key of that list.                        *)
(***************************************************************************)
TrimKeepsRange ==
  [][\A c \in Commands :
       c.op = "LTRIM" /\ Run(c) /\ Holds(db, c.key, "list") =>
         LET list  == db[c.key].list
             shown == LRange(db, c.key, c.start, c.stop)
             left  == db'[c.key].list
         IN /\ stuck' <=> c.start <= c.stop /\ c.stop < -Len(list) - 1
            /\ stuck' => shown = Array(<<>>) /\ left = <<>>
            /\ shown = Hang <=> list = <<>> /\ c.start < 0 /\ c.stop >= 0
            /\ shown \in {Array(<<>>), Hang} /\ ~stuck' => c.key \notin DOMAIN db'
            /\ shown \notin {Array(<<>>), Hang} =>
                 Holds(db', c.key, "list") /\ Array(left) = shown]_vars

Number1(reply) == reply[1] = "int" /\ reply[2] = 1

\* EXISTS and TYPE know the key, as a key of that kind
Known(d, k, kind) == Exists(d, k) = Number(1) /\ Type(d, k) = {kind}

\* GET, MGET and STRLEN find the string v
Reads(d, k, v, t) ==
  /\ DoGet(d, Get(k), t).reply = Bulk(v)
  /\ MGet(d, k, k) = Array(<<Bulk(v), Bulk(v)>>)
  /\ Strlen(d, k) = <<"length", v>>
  /\ Known(d, k, "str")

\* what the reading arms answer at t, after command c was answered with `said`
ReadsAgree(before, after, c, said, t) ==
  LET k == c.key
      oneMore(count(_, _)) == count(after, k)[2] = count(before, k)[2] + 1
      refused == said \in {WrongType, NotInt, Silent, Panic}
  IN IF refused THEN after = before
     ELSE CASE c.op \in {"SET", "SETEX"} -> Reads(after, k, c.val, t)
       [] c.op = "INCR" -> Reads(after, k, said[2], t)
       [] c.op = "GET"  -> MGet(after, k, k)[2][1] = said
       [] c.op = "DEL"  -> /\ Exists(before, k) = said
                           /\ Exists(after, k) = Number(0) /\ Type(after, k) = {"none"}
       [] c.op = "LPUSH" ->
            /\ Llen(after, k) = said /\ Known(after, k, "list")
            /\ LRange(after, k, 0, 0) = Array(<<c.val>>)
       [] c.op = "RPUSH" ->
            /\ Llen(after, k) = said /\ Known(after, k, "list")
            /\ LRange(after, k, -1, -1) = Array(<<c.val>>)
       [] c.op = "LPOP" /\ said # Null ->
            /\ Array(<<said[2]>>) = LRange(before, k, 0, 0)
            /\ LRange(after, k, 0, -1) = LRange(before, k, 1, -1)
       [] c.op = "RPOP" /\ said # Null ->
            /\ Array(<<said[2]>>) = LRange(before, k, -1, -1)
            /\ LRange(after, k, 0, -1) = LRange(before, k, 0, -2)
       [] c.op = "LREM" /\ Number1(said) -> Llen(after, k)[2] = Llen(before, k)[2] - 1
       [] c.op = "HSET" ->
            /\ HGet(after, k, c.field) = Bulk(c.val) /\ Known(after, k, "hash")
            /\ HGetAll(after, k)[2][c.field] = c.val
            /\ HGet(before, k, c.field) = Null => oneMore(Hlen)
       [] c.op = "SADD" /\ Number1(said) ->
            /\ SMembers(after, k)[2] = SMembers(before, k)[2] \cup {c.val}
            /\ oneMore(Scard) /\ Known(after, k, "set")
            /\ c.val \in SInter(after, k, k)[2]
       [] c.op = "RPOPLPUSH" /\ said # Null /\ Accepts(before, c.dst, "list") ->
            LRange(after, c.dst, 0, 0) = Array(<<said[2]>>) /\ Known(after, c.dst, "list")
       [] OTHER -> TRUE

(***************************************************************************)
(* The arms that read agree with what the arms that write have answered: a *)
(* count, a popped item, a value or a member that a client was told of is  *)
(* what the next reader sees, under the kind the writer gave it, and a     *)
(* command that was refused has changed nothing (server.rs 239-1338).      *)
(***************************************************************************)
WritesAreRead ==
  [][\A c \in Commands :
       Run(c) /\ ~stuck' =>
         ReadsAgree(db, db', c, Exec(db, c, now).reply, now)]_<<db, log, stuck>>

(***************************************************************************)
(* TTL, PTTL, GET and the sweeper judge an expiry by tests of their own.   *)
(* While TTL promises seconds GET finds what MGET finds, PTTL promises no  *)
(* less than TTL, and when they say the key has gone GET says so one tick  *)
(* later at most (server.rs 325-385, 487).                                 *)
(***************************************************************************)
LeasesAgree ==
  \A k \in DOMAIN db : db[k].exp # Forever =>
    LET secs  == Ttl(db, k, now)[2]
        ticks == Pttl(db, k, now)[2]
        get(t) == DoGet(db, Get(k), t).reply
    IN /\ secs >= 0 => /\ get(now + secs * TicksPerSec) = MGet(db, k, k)[2][1]
                       /\ ticks >= secs * TicksPerSec
       /\ secs = -2 <=> ticks = -2
       /\ secs = -2 => get(now + 1) = Null
=============================================================================
