# TitanKV: formal models, checks and proofs

TitanKV is a key-value store in the manner of Redis: a tokio server whose
connections change a database of 64 shards, each behind its own lock, and send
one text line per change through a bounded channel to a task that appends it to
`database.aof`.  This directory models the store in TLA+, checks it with TLC and
proves part of it with TLAPS.  Source paths are relative to the repository
(`src/src/...` for the Rust code, `src/README.md` and `src/index.html` for the
documents); `PROJECT.json` maps every definition to the lines it translates.

## 1. The system

| Part | Code | State | Operations |
|---|---|---|---|
| Keyspace and handlers | `server.rs` 389-1380, `engine.rs` 50-107 | one `HashMap<key, Entry>` per shard; an entry is a string, list, hash or set with an optional `expires_at` | one match arm per command |
| Walks over all shards | `engine.rs` 165-203, `server.rs` 280-289, 1381-1487 | a cursor, a sum or a list of keys | KEYS, DBSIZE, INFO, SCAN |
| Shard locks | `engine.rs` 25-42, 110-162 | a tokio `RwLock` per shard | `read_shard`, `write_shard`, `read_multi_shards`, `write_multi_shards` |
| Log writer | `main.rs` 300-330 | `mpsc::channel(100_000)`, a 64 KB `String`, an open file | receive, flush when full, flush every second |
| Replay | `main.rs` 102-195, `protocol.rs` 64-182 | none | rebuild the shards from the file at start |
| Expiration sweeper | `main.rs` 200-240 | a clock reading, the keys it removed | every 10 s: scan each shard, then append `DEL` lines to the file itself |
| Compactor | `main.rs` 246-295 | the text of the new file | every 60 s: read each shard, write a temporary file, rename it over |
| Protocol | `protocol.rs` | none | `read_resp`, `tokenize`, `parse_command` |
| Publish/subscribe | `pubsub.rs` | table of broadcast channels of capacity 100 | publish, subscribe, the loop of a subscriber |
| MONITOR | `server.rs` 126-137, 1589-1619 | a broadcast channel of capacity 1024 | send each command, the loop of a monitor |
| Connections | `server.rs` 60-161, 1741-1779 | registry of clients, authentication | accept, AUTH, CLIENT LIST, the guard that removes an entry |
| Thread pool | `thread_pool.rs` | a queue of jobs behind a mutex | execute, shut down (no other file uses it) |
| Logger, configuration | `logger.rs`, `config.rs` | none | output, arguments |

How they interact:

* A connection task reads a command, locks the shards of its keys, changes them
  and **awaits room in the log channel with the write guard still in hand**; then
  it drops the guard and answers.  RPOPLPUSH is the exception: its guards end
  with a block, and its line is sent after them.
* The writer, the sweeper and the compactor all write to the file called
  `database.aof`, through **three handles**.  Only the first is behind the channel.
  The compactor puts another file under the name, and the writer's handle stays
  on the old one.
* The sweeper and the compactor take the lock of one shard after the other while
  clients go on with the rest.
* A connection task sends every command but MONITOR to the broadcast of the MONITOR
  clients before it looks at it, and its replies through a buffer of its own.  It
  is listed in a registry keyed by the client's address from its acceptance until
  a guard drops, however the task ends.
* PUBLISH and SUBSCRIBE share a table of channels behind one `RwLock`; a subscriber's
  task takes turns between messages and what its client types.
* Replay runs alone, before any task is spawned.  What it rebuilds depends on
  whether each handler's line says, to `parse_command`, what the handler did.

What is hard about it, and so what the properties are for: a change, its line and
its reply are three moments; the lines of two clients must reach the file in an
order that replays to what they did; a full channel stops a client that has a
shard locked; a crash cuts off an unknown tail; three writers share a file; two
locks are taken one after the other; and fourteen pairs of a handler and a replay
arm have to mean the same on a key of any kind, with indices, expiries and
values at their limits.  Broadcasts overwrite what a slow reader has not
read, clients stop reading or leave at any point, an address comes back before
the task of its last connection has ended, and commands that visit all shards
see each of them at another time.  `PROJECT.json` lists each hazard at its line with the
properties that watch it, the hazards no property covers yet included.

What makes each part correct:

* handlers and replay: the log rebuilds the memory; a move neither loses nor
  copies; LTRIM keeps what LRANGE shows; reads say what writes have answered;
* compactor: a snapshot rebuilds what was seen, never lengthening a lease;
* locks: exclusion, no circle of waiters, operations on two shards atomic;
* writer: order, nothing lost from the middle, bounded loss at a crash, everything
  written in the end;
* sweeper: removes only the expired, and in the end all of it;
* the file as text: what is written whole is read back, a torn line costs one more;
* walks: what is there all the time is listed, once, and counted;
* publish/subscribe: what is published is heard, in order, but for what a slow
  reader lets be overwritten; a subscriber that does not read stops nobody;
* connections: replies in the order of the commands, nothing run before the
  password, only the living listed, a MONITOR told everything or disconnected.

## 2. The modules

| Module | What it is |
|---|---|
| `Keyspace` | Values, entries, commands, log lines; the operations of a shard's map.  Pure operators. |
| `Handlers` | One operator per arm of `handle_connection`, from database and clock to new database, log line and reply. |
| `AofText` | What the file means: `Replay`, and `Snapshot`, what the compactor writes. |
| `CommandLog` | One client at a time and a log that never fails: `db`, `log`, `now`, and a flag for a handler that never returns. |
| `AofPipeline` | The concurrent system: clients, guards, channel, writer, file, sweeper, compactor, clock, crash and restart. |
| `DurableLog` | Abstract: a log that only grows at its end and of which a crash takes a tail. |
| `ShardLocks` | The lock queues and the operations that take one or two of them. |
| `AtomicGuards` | Abstract: a handler gets all its shards at one instant. |
| `LogBytes` | The file as characters: a line as it is formatted, written up to any character, split and tokenized again. |
| `Scans` | KEYS, DBSIZE, INFO and SCAN, a shard at a time, while keys come and go. |
| `PubSub` | The table of channels, its lock, the broadcasts, the subscribers' loops and their sockets. |
| `Feed` | Abstract: a channel that is heard from where one joined, in order, with gaps only where messages were overwritten. |
| `Connections` | Acceptance, registry, authentication, the turns of a connection's task, MONITOR. |
| `CommandLogProofs`, `AofPipelineProofs`, `ShardLocksProofs`, `PubSubProofs`, `ConnectionsProofs`, `ScansProofs`, `LogBytesProofs` | Theorems about the module of that name. |
| `LogProofs` | Lemmas about the data: handlers, `Replay` and `Snapshot`, on any database.  No state machine; `CommandLogProofs` and `AofPipelineProofs` rest on it. |
| `MCCommandLog`, `MCAofPipeline`, `MCShardLocks`, `MCConnections`, `MCScans`, `MCLogBytes` | What the runs give the constants: command sets, the placement of keys, symmetries. |

`CommandLog` and `AofPipeline` both extend `Handlers` and `AofText`, so the same
arms run sequentially in the one and interleaved in the other: what `CommandLog`
refutes is wrong in any interleaving, and what only `AofPipeline` refutes needs
the concurrency.

### State and actions of `AofPipeline`

| Variable | Code |
|---|---|
| `db` | `ShardedDb.shards`; `ShardOf` is `calculate_shard_index` |
| `guard` | who keeps a write guard across an await |
| `pc`, `cmd`, `asked`, `out` | a connection task: `idle` reads the socket, `wait` awaits its locks, `send` awaits the channel, `hung` is in an endless loop; the command; the clock SETEX read beforehand; the line |
| `chan`, `buffer`, `handle`, `disk` | channel, the writer's `String`, its file handle (`named`, `orphan` after a rename, `closed` when the open failed), the file named `database.aof` |
| `sweep`, `comp` | local variables of the two maintenance tasks |
| `now` | `SystemTime::now()` |
| `applied`, and `shard`, `at` of a line | history: number of changes to each shard; nothing reads them |

`Request`, then one of `RunQuiet`, `RunLogged`, `RunMove`, `RunHang`, then `Send`
is a turn of `handle_connection`'s loop.  The body of a handler runs from the last
lock it gets to its next await without a pause, so it is one action.
`WriterRecv` and `WriterTick` are the branches of the writer's `select!`.
`SweepStart/Shard/Open/Log` and `CompactStart/Shard/Rename/Fails` are the
maintenance tasks, one step per lock and per write.  `Restart` is a crash,
the replay and the new start.

### State and actions of `ShardLocks`

`phase`, `mode`, `need`, `plan` and `held` are where a task stands in
`read_shard`, `write_shard`, `read_multi_shards` or `write_multi_shards`, how it
locks, the shards it is after, those it has still to lock in order, and those
it has; `queue` is the semaphore of each shard's `RwLock`.  `Begin`, `Ask`,
`Grant`, `Finish` and `Drop` are the call, the await, the wake-up, the end of the
handler's body and the end of a guard.

`ShardLocks` covers what `AofPipeline` takes in one step: its refinement
`ImplementsAtomicGuards` is the licence for a command to lock all its shards at
once.  The order of the waiters and the deadlock found there are not repeated
in `AofPipeline`; its liveness results are for systems in which no MGET or SINTER
crosses an RPOPLPUSH (see `NoCircle`).

### State and actions of the others

`PubSub`: `pc` is the place of a connection's task (`wantread` and `wantwrite`
await the table, `ack`, `reply`, `push` and `bye` await the socket, `select` is
the loop), `next` its receiver, `typed`, `half` and `line` an UNSUBSCRIBE on its
way, `unread` the socket.  `Publish`, `Subscribe` are what happens under the lock; `Receive`,
`Lag`, `Push` the branch of the message, `Hear`, `Bye`, `Disconnect` that of the
line.  `Receive` resets `line`: `select!` drops the future that had half of it.

`Connections`: `registry` is `active_clients`, `proven` the `ConnectionState`,
`buffer` the `write_buffer`.  `Receive` is `read_resp` and the broadcast,
`Gate` the security gateway, `Run`, `RunMute`, `RunFatal` the arms by what becomes
of their reply, `Respond` the last step of a turn; `Greet`, `Join`, `Relay`, `Push`,
`Lag` are MONITOR; `End` is the return of the task and its guard.

`Scans`: `walk`, `pattern` and `from` are the command, `at` the loop's index or the
cursor, `listed` and `counted` its result.  `Collect`, `Count` and `Scan` hold the
lock of one shard; `Insert` and `Remove` are other clients.

`LogBytes`: `file` and `buffer` are sequences of characters; `Log` is `recv` and
`push_str`, `Write` a flush, `WriteStops` one that ends at any character.

### Abstractions

* Values are words or integers.  `Blank` words are those `tokenize` splits unless
  quoted; `Empty` ones it drops even when quoted.  Keys are plain.
* The clock counts ticks, `TicksPerSec` to the second.  The compactor
  reads the clock for every entry; here a shard is read at one instant.
  A `HashMap` is written out in one fixed order; the lines of a snapshot concern
  different keys, fields or members, so no reader can tell.
* A channel of 100,000 lines is a small `ChanCap`; 64 KB of buffer is a number
  of lines, `FlushAt`.
* A SETEX with negative seconds, or with more than take the clock past `LastInstant`,
  the last moment a `SystemTime` can hold, panics before it takes the lock.  The model lets it
  wait for the lock first; nobody can observe the difference.  The client's return
  to `idle` is a new connection.
* Where the build decides, it is the release build: INCR wraps, and LRANGE's count and
  loop do (a debug build panics in both).
* Every open and write of the writer, the sweeper and the compactor may fail.  The open
  of `replay_aof` is taken to succeed: without it, a start would begin with an
  empty store and an old file.  A line in the file from which replay would compute an
  instant past `LastInstant` makes it panic, and the server does not start: `Restart`
  asks that it is `Replayable`, and so do the properties that speak of a replay.
* `CrashSpec` and `UncompactedSpec`, which a few results are about, take the writer's open
  to succeed; in `Spec` it may fail at each start.
* A crash is the death of the process: what `write_all` handed to the system stays,
  and a flush under way may have got some of its lines there.  `AofPipeline` takes
  lines for atoms; a line torn in the middle is the subject of `LogBytes`.  Time that passes while the server is down is
  time that passed before the crash.
* Shards are locked by the write guard only where an await can happen under it.
* `LogBytes` knows letters of one and two bytes.  A word whose last character is a
  carriage return, which `lines` strips at the end of a line, is left out.
* A socket is the number of replies or messages its client has not read, up to
  `Room`; `write_all` waits when it is full, and to a client that has left it
  returns.  A client of `Silent` stops reading once it has subscribed, while its
  PUBLISH is being answered, or when it is in MONITOR: other clients read.  tokio's broadcast keeps 100 rounded up to
  128 messages; `Capacity` and `Kept` are any number.
* `PubSub`: each client sends one PUBLISH or SUBSCRIBE per connection, and the next
  connection takes its name.  A client that leaves while its task waits for the
  table is noticed after it; the model has it leave then.  A line that is not
  UTF-8 ends a subscription at any time (`Disconnect`).
* `Connections`: a command is a kind (AUTH with the right or a wrong password,
  answered, answered and told to no MONITOR, unanswered, fatal, broken, MONITOR), and each client goes through a
  script of them.  The address of each connection is fixed, and used again
  only after its last client has gone.  SUBSCRIBE is in `PubSub`.
* `Scans`: one walk at a time, because walks change nothing.  Values are left out;
  no command moves a key (RPOPLPUSH keeps an emptied source).  A client that
  scans sends back the cursor it got.

## 3. What is checked

Bounds are CONSTANTS of the modules (`MaxLog`, `MaxTime`, `MaxApplied`, the
capacities) and stand in guards.  Where a run turns deadlock checking off, it is
because such a bound stops the model, or because the code itself may
stop (a hung LTRIM, a circle of waiters, a publisher that does not read).

### Runs that pass

| Run | Question | Bounds |
|---|---|---|
| `CommandLog` | Does the log, and does the compactor's text, rebuild entries of every kind, leases, counters and quoted values, whatever kind of entry a command meets?  Does RPOPLPUSH neither lose nor copy, and LTRIM keep what LRANGE shows?  Do the arms that read agree with those that wrote? | 2 keys, 4 lines, clock to 3, last instant 5, 2 ticks per second, `MaxInt` 2; both indices of LTRIM from before the head to behind the tail; a history keeps to one of two sets of commands, one with values of all kinds, one with lists |
| `AofCore` | Are file, buffer, channel and lines being sent always the memory (so the file alone is, when nothing is in flight), and is the whole a log that grows at its end and loses only a tail? | 2 clients, 2 shards, channel 2, buffer 3, no command once a shard has 2 changes, clock to 2, which is the last instant, any number of crashes |
| `AofFull` | Everything at once (sweeper, compactor, flushes, opens and appends that fail, crashes, a hung LTRIM): capacities, order of the lines, exactness of the compactor's text | 3 clients, 2 shards, channel 1, buffer 2, no command once a shard has a change, clock to 1 |
| `AofSweep` | Does the sweeper remove only, and eventually all, that has expired?  Is every command answered, and every change written? | 2 clients, channel 1, buffer 2, clock to 2, SETEX, SET and GET, no crashes |
| `ShardLocks` | As long as two-key reads name the lower shard first: writers rise, nobody waits in a circle, two locks in turn are as good as two at once, everybody is served | 3 tasks, 2 shards, every operation |
| `LogBytes` | What does replay find in a file to which any write may have stopped at any character? | 4 records of 5 forms (blank, letter of two bytes, line end, quote in the value), buffer limit 9 characters |
| `Scans` | What do the walks list and count while keys come and go? | 3 keys on 3 shards, two on the last, none on the second; cursors to one past the end, and one that is no number; three sorts of pattern |
| `PubSub` | What may a subscriber miss, who waits for whom, is everything delivered and UNSUBSCRIBE heard? | 1 publisher, 1 subscriber, 1 client that is either and stops reading, 1 channel, capacity 1, 2 messages, sockets with room for 1 |
| `Connections` | Who is listed, in which order and whether commands are answered, what a MONITOR is told, who waits for it? | 3 connections, the third from the first's address, scripts of 1 to 3 commands, a password, capacity 1, room 1 |

Why the bounds are enough for the cases that matter.  With a channel of one line
and two clients a client waits on a full channel with its shard locked while the
other wants the same shard.  `MaxApplied` stops requests, not commands
under way: with three clients a shard sees three changes under a bound of one.  A buffer
of two or three is flushed full and by the tick.  Two ticks to the second give
leases with half a second left; a last instant within reach of the clock refuses
leases, and makes logs that are too late to be replayed; `MaxInt` of 2 lets INCR overflow within four
lines, over a value SET put there.  Three tasks and two shards contain every
pattern of two waiters behind a holder of one or two shards, and no operation
takes more than two.  LTRIM's indices take every branch of its clamps on
lists of up to three items.  A capacity of one with two messages makes a
receiver lag, a room of one makes a writer wait; three connections are the least
in which an address is used again while a third client is in between and two
MONITORs are behind.  Four records leave room for two tears with a whole
line after each.

Each property has a mutant in `PROJECT.json`: a plausible mistake in one mapped
definition (marked `Mutation:` where it stands, or another definition of the
module in its place) with which the property fails.

The passing runs also say where the promises hold.  `AofCore` leaves out
RPOPLPUSH, LTRIM, the sweeper and the compactor, and there the file rebuilds
the store; each of the four breaks that, as the next table and list show.
`CommandLog` compares log and memory only in histories without LTRIM, and gives
SET, SETEX and SADD no value with a blank.  In `PubSub` an UNSUBSCRIBE that comes in two
pieces may be lost, and the property speaks of those in one.

### Disagreements between the code and what is said of it

Each of these runs finds a counterexample by design; `PROJECT.json` quotes the
text it contradicts.

| Run | What the code does |
|---|---|
| `AofCompactLoses` | after a compaction the writer goes on writing to the file that lost its name |
| `AofMoveRace` | RPOPLPUSH logs after its guards: a later command can be logged first |
| `ShardLocksCrossed` | `read_multi_shards` locks the first key's shard first in both branches, so MGET and RPOPLPUSH can wait for each other for ever |

Further ones can be read off the definitions, which follow the code, and have no
run of their own:

* LTRIM is logged, but `replay_aof` has no arm for it: trimmed items are back after
  a restart (`DoLTrim`, `ReplayCommand`).
* `LTRIM k -4 -3` on a list of one never ends, with the shard locked, though the comment
  at `server.rs:785-787` says that "the entire list is deleted" (`DoLTrim` answers
  `Hang`; `TrimKeepsRange` says exactly when).
* `LRANGE k -1 0` on a list that pops have left empty casts -1 to `usize`: it never ends,
  with the shard locked for reading (`LRange` answers `Hang`; a debug build panics
  instead).
* A SETEX accepted close to the end of `SystemTime` keeps the server from starting again
  (`Replayable`).
* A publisher that does not read its replies keeps the table of channels locked: the next
  SUBSCRIBE waits, and every PUBLISH behind it (`Jammed`).
* MGET, EXISTS, TYPE and the other reading arms show an expired key until GET or the sweeper
  removes it (`MGet`, `Exists`, `Type`).
* A move that runs between the compactor's reading of its two shards is in the snapshot
  twice or not at all (`CompactShard`).
* SET, SETEX and SADD log their value without quotes, so a blank in it makes a
  line that replay drops (`DoSet`, `DoSetEx`, `DoSAdd`, `Replay`).
* RPOPLPUSH onto a key of another kind pops the item and drops it (`MoveItem`).
* RPUSH on a key of another kind sends no reply (`DoPush` answers `Silent`).
* INCR makes a key with an expiry permanent (`DoIncr`).
* The reply precedes the file by up to a second (`Send`, `WriterTick`).
* The sweeper's DEL overtakes a SETEX in the channel or the buffer (`SweepLog`), and is
  never written when the open fails (`SweepOpen`).
* SETEX takes the clock before it waits for its lock, so a lease may be short (`Outcome`).
* Replay starts the seconds of SETEX again (`Replay`).
* A line torn by a crash or a full disk and the line after it become one, which
  may be a command nobody gave; a tear inside a letter ends the replay there
  (`Replayed`).
* An UNSUBSCRIBE of which half has come when a message comes is lost (`Receive`).
* KEYS with a pattern that is no regular expression closes the connection with its
  error unsent (`RunFatal`, `RefuseKeys`); SCAN with such a pattern lists all keys (`Wanted`).
* A guard removes the entry of whoever has its address, so a client that came back
  quickly is not listed (`End`, `OnlyReuseHides`).
* A MONITOR whose client has left stays listed until some command is sent
  (`Forgotten` makes the exception).
* MONITOR acknowledges before it subscribes (`Greet`, `Join`).

### Fairness

Tokio polls every task that is ready: weak fairness of the writer's two branches
and of the steps the maintenance tasks take without waiting.  Its `RwLock` and
the channel's semaphore serve waiters in order, so nobody who keeps waiting is
overtaken for ever: in `AofPipeline`, where there are no queues, strong fairness
of getting the lock and of getting room; in `ShardLocks`, where the queues are
modelled, weak fairness is enough.  Clients are never obliged to send a command.
The clock is fair only where the property is about time going by (`AofSweep`).
No fairness is assumed of crashes, failures or the compactor.
In `PubSub` and `Connections` a client that waits for a reply reads its socket,
unless it is one of `Silent` (in `PubSub` also while it publishes); `select!` picks its branches at random, so each is
taken if it is ready again and again (strong fairness).  Nobody has to leave,
type, publish or send a command; a task learns of a client that left when
it reads, and no write to such a client has to fail.  In `ShardLocks`
and `Connections` a handler's body returns; one that does not (`Hang`) is `hung` in
`AofPipeline`, whose liveness run has none such.  LRANGE's loop is known to
`CommandLog` alone.

## 4. What is proved

Every type invariant and every safety property of the passing runs
is a theorem, and so are the three refinements.  The
theorems hold for every value of the constants that the assumptions of the modules
admit.  Three hypotheses go beyond those, because the code needs them:

* `Legible(q)` for all commands `q` of the system: the words of the line it sends come
  back from `tokenize` as they went in.  SET, SETEX and SADD send their value without
  quotes, so a value with a blank in it is not legible, and replay drops its line.  TLC
  evaluates `LegibleCommands` in `MCCommandLog`: the commands of that run, quoted blanks
  included, satisfy it.
* no LTRIM, for what replay makes of a log: `replay_aof` has no arm for it.  No
  RPOPLPUSH either, where lines are in flight: it sends its line after its guards.
* `RisingReads`, for `NoCircle`: two-key reads name the lower shard first.
  `ShardLocksCrossed` shows what happens otherwise.

`KeyspaceAssumption` says that keys, words and numbers are apart (`Words` and the
integers have nothing in common, `Forever` is no integer), `NoLineAssumption`
that no line is a line: in the code these are different types.  `LogBytesAssumption`
says that what is formatted is text, that is that no word ends within a letter: a
`String` is UTF-8.

### The data: `LogProofs`

`Replay` is a fold over a sequence and a snapshot is a concatenation of texts, so what
they compute has to be shown by induction.  The induction theorems of the library take
a predicate as a parameter, which the provers here cannot be given; stated with a *set*
they can be used: a set of numbers without a least element is empty (`LeastNumber`), so
a set with 0 and the successor of each of its members has all numbers
(`NumbersByInduction`), and a set with `<<>>` and what is appended to each of its
members has all sequences (`SequencesByInduction`).  `FoldExists` shows that the
fold's recursive function is what its definition says; `ReplayOneMore` follows, that one
more line is one more step.  On these rest:

* `ExecType`, `ReplayType`, `SentLine`: handlers and replay keep a database well formed;
  a handler sends nothing or the one line of its command.
* `HandlerReplays`: the line does to a replayed database what the handler did to memory,
  arm by arm, up to the instants of the expiries (`Like`).
* `Sound`, a database as handlers and replay leave one: its domain and its sets
  are finite, no hash or set is empty, only strings expire, its words survive a line.
  `ExecSound`, `ReplaySound`, `WithoutSound` keep it.
* `SnapshotReplays`: the text of a sound database, after any text that has none of its
  keys, rebuilds each key but the expired and the empty lists (`RebuiltAt`).  It is an
  induction over the keys, in whatever order they are written, and one
  over the items, fields or members of each (`OntoPuts`).

### `CommandLog`

* `TypeCorrect`: `Spec => []TypeOK`, from `ExecType`.
* `ReplayCorrect`: `Spec => []ReplayRebuilds`.  The run compares data and presence of a
  lease; the inductive invariant `LogInv` says that as long as no LTRIM is in the log
  memory is `Like` its replay at *every* instant, because time goes on after a line
  was sent.
* `SnapshotCorrect`: `Spec => []SnapshotRebuilds`, from the invariant `Sound(db)`.
* `StringsExpire`: `Spec => []OnlyStringsExpire`, and from it `LeasesCorrect`:
  `Spec => []LeasesAgree`.
* `TrimCorrect`: `Spec => TrimKeepsRange`, an action property: the clamps of LTRIM and
  of LRANGE compared case by case (`IndexCases`, `TrimAgrees`), for lists of any length and
  empty ones, with the exact case in which each never ends.
* `ReadersAgree`: `Spec => WritesAreRead`, arm by arm (`Agrees`).  A lease just given
  has not passed (`Settled`), so GET finds what SETEX was told.  The counts of HLEN and
  SCARD are those of finite sets only because a history fills the store one field and
  one member at a time: the invariant is `Finite`, which needs no hypothesis
  about words.
* `NothingLostNorCopied`: `Spec => MovesKeepItems`.  `Copies` folds over the keys in an
  order nobody knows.  `SumExists` says that the fold's equation has a solution,
  `InAnyOrder` that the key to begin with may be any, and `CopiesPut` follows: a list
  that is put changes the sum by what it has more than the list before.

### `AofPipeline`

Whatever the lines say, without hypotheses:

* `TypeCorrect`: `Spec => []TypeOK`.  With the types come the capacities:
  a crash can take from the clients at most a full channel and an almost full buffer.
* `SendsInOrder`: `Spec => []SendOrder`.  Lines sent with a shard locked go through
  channel and buffer in the order of the changes, with crashes, sweeps, compactions
  and a writer that never opened its file.
* `FileInOrder`: `UncompactedSpec => []LogOrder`.  Without the compactor
  the same holds of the file and of all that is on its way there.

The order is not inductive by itself: nothing in it stops a client from sending
an old line late.  The strengthening is `InFlightInv`.
`SendersHold` says that a client which is about to send a stamped line still owns
the guard of its shard and that its stamp is the shard's present count; `Bounded`
says that no line in channel or buffer has a stamp above the count of its
shard.  Together they make the line sent next fit behind all that went before,
and no other client can change the shard in between, because the guard is not
free.  `FileInv` adds the same bound for the file and its order relative to
buffer and channel.  `ExecLine`, on which both rest, says that every handler, on any database,
sends nothing or one well-formed line; the rest of what a handler does plays no
part.  The sequence lemmas (`InOrderAppend`, `InOrderConcat`, ...) say which
operations on sequences of lines keep the order.

What the lines do, from `LogProofs`:

* `LogIsDurable`: `CrashSpec => ImplementsDurableLog`.  The refinement maps file, buffer
  and channel to one log with the file as its stable part; receiving and flushing move
  lines on and leave the log as it is (`MovedOn`).
* `MemoryCorrect`: `CrashSpec => []MemoryIsTheLog`, for legible commands but LTRIM and
  RPOPLPUSH.  Lines still to be sent come from different clients in no order, so the
  invariant cannot speak of one sequence: `MemoryInv` says of every shard that the log,
  replayed at any instant and followed by the one line the owner of its guard is
  about to send (`SaysShard`), is `Like` memory on the keys of that shard.  That lines
  of different shards do not disturb each other (`DidFrame`, `ReplayFrame`) puts the
  shards together in the end.
* `ScansAreExact`: `Spec => []ScannedShardsAreExact`, the whole system with legible commands.
  `WholeInv` is the invariant: what is in file, buffer and channel is readable and the
  database sound (`LinesInv`), what the compactor wrote is about keys of shards it has
  read and stamped with the count it saw (`TextOK`), and for a shard whose count
  is still that one the text says what lives there, at any instant of replay (`TextExact`).
* `FileAlwaysInOrder`: `Spec => []LogOrder`, the whole system with legible commands.  After
  a rename the file is related to nothing in flight: `LooseFile` says what remains,
  `CompactorFile` leads there, and a restart back to `FileInv` if the writer's open succeeds
  (`CrashFile`, `LooseCrash`).
* `OnlyExpiredSwept`: `Spec => SweepsOnlyExpired`, because the sweeper's clock is never
  ahead (`ClockBehind`).

### Locks, broadcasts, connections, walks

`ShardLocksProofs`, for any tasks, any number of shards and any pairs of two-key
reads, from `ShardLocksAssumption`:

* `TypeCorrect`: `Spec => []TypeOK`, the types and how phases, plans and queues
  agree.  It is inductive as it stands, because it says of
  every queue that its tasks are waiting, want that shard next and stand in it
  once; without that a grant could serve a task that has gone.
* `Exclusion`: `Spec => []Mutex`, two holders of a shard are readers.  `Mutex` is
  inductive beside the types.
* `WritersRise`: `Spec => []OrderedWriters`, the strict order of locks that
  `src/README.md` promises, for writers.  That a writer holds less than it wants
  says nothing of what it will want next; the strengthening `OrderInv` adds
  `RisingPlans`, that the rest of its plan rises.
* `LocksAreAtomic`: `Spec => ImplementsAtomicGuards`.  The last grant of an operation is
  `Enter`, the end of its body is `Leave`, and no other step shows.  It rests on
  `Mutex` after the grant and on `TypeOK`, by which a task that works has locked
  all that it needs.
* `NoCircleEver`: `Spec => []NoCircle`, under `RisingReads`.  Two invariants:
  `AllRise`, every plan rises and every shard held is below those still wanted;
  `WaitersQueue`, who waits stands in the queue of the shard it wants next.  In a
  circle, among the tasks that wait for the highest shard any of them waits for,
  take the first in its queue: nobody in the circle holds that shard, because each
  wants something above all that it holds, and nobody in the circle stands before it.
* `OnlyCrossingCircles`: `Spec => []CirclesCross`, whatever the reads name (no run has it: those
  of `ShardLocks` and `ShardLocksCrossed` are its two sides).  In every circle
  there is a read that has the higher of its shards and wants the lower, somebody who
  climbs, and a writer.  `SomeoneGoesOn` is the same argument for any order of
  the shards: without a downward read the circle would rise, without a climber
  it would fall, and readers wait only for their turn.  The invariants are `OrderInv`,
  `WaitersQueue`, and `NoneTwice`, that no operation locks a shard twice.  So the promise of
  `src/README.md` for RPOPLPUSH does hold as long as nobody reads two shards downwards.

`PubSubProofs`, for any clients, channels, capacity and room, from
`PubSubAssumption`:

* `TypeCorrect`: `Spec => []TypeOK`, the types, and that the lock's queue holds those
  who wait for the table, each once.
* `NothingElseMissed`: `Spec => []OnlyOverwrittenMissed`.  The strengthening `IInv` adds
  `Fresh`, what holds of a receiver that is not subscribed, so that joining
  begins with nothing missed; publishing can only move the window of kept
  messages forward, which helps (`SentGrows`).
* `FeedImplemented`: `Spec => ImplementsFeed`.  `Publish` is `Post`, `Subscribe` is
  `Join`, `Push` is `Hear`, an end is `Quit`; the rest stutters.  That `Push` hears the
  next message, or one behind a gap of overwritten ones, is `IInv`.

`ConnectionsProofs`, for any addresses, connections, scripts, capacity and room,
from `ConnectionsAssumption`:

* `TypeCorrect`: `Spec => []TypeOK`.
* `OnlyTheLivingListed`: `Spec => []NoGhosts`, and `HiddenByReuse`:
  `Spec => []OnlyReuseHides`.  Both rest on `RInv`: an entry is under the address of
  its own connection and its connection lives (`Held`), connections are numbered as
  they come (`Numbered`), one that met an older task came later (`MetOlder`).
  Without `Held` a guard might remove the entry of another address, and nothing
  would follow for it.
* `RepliesInOrder`: `Spec => []AnswersInOrder`.  The invariant `AInv` says what a client has
  been told and what is in its task's buffer together: every command up to the one
  under way that is due an answer, once and in order, and whether the password was
  among them (`Faithful`).
* `NoHoles`: `Spec => []TranscriptWhole`.  `Follows` says where a receiver stands
  relative to what has been written: one command ahead while it writes.

`ScansProofs`, for any finite set of keys, shards, placement and pattern, from
`ScansAssumption`:

* `TypeCorrect`: `Spec => []TypeOK`.
* `ListedRight`: `Spec => []NothingLeftOut`, and `NoneListedTwice`: `Spec => []ListedOnce`.
  `ListsSoFar` says the same
  of the shards already read, and that nothing else is listed yet; `HistoryHolds`
  that what was there all the time is there, and what is there was there at some time.
* `CountedRight`: `Spec => []CountInBounds`.  `CountsSoFar` bounds the sum by the keys of
  the shards read; `OneMoreShard` adds a shard to both bounds.

### The file as text

`LogBytesProofs`, for any set of records of text, any buffer limit and any number of
tears, from `LogBytesAssumption`:

* `WholeIsReadBack`: `Spec => []ReadUpToTear`.
* `TearsCostOne`: `Spec => []OneLinePerTear`.

The argument has two halves.  The first is about the functions.  `lines`, `tokenize`
and `format!` are folds; each is the last of a sequence of states of which every state
follows from the one before (`FoldAlong`), so what is known of one state can be
carried along the text (`TokenStates`, `LineStates`, `WordStates`).  `TokenizeFinds` follows the
words of a record through its line, in quotes and out of them: tokenize undoes
format! for every plain record.  `LineFound` says that what stands between two line ends is
one of the lines, the one with as many line ends before it, and `ReplayReaches`
that the replay's loop gets there if nothing before is cut within a letter.

The second half is the invariant `BytesInv`.  It says where things are: every record
that was written whole stands in the file as it was formatted, begins behind a line
end or a tear, and overlaps no other; every half of a letter has its other
half, but at a tear; and the file ends in a line end or a tear.  The same holds of
the buffer, which has no tears.  Without the last clause the line written next would
not begin where a line begins.  A plain record that does not begin at a tear is then
a line of the file, and is read back (`UntouchedReadBack`).  One that is lost
begins directly behind a tear, and two of them behind different ones: that is an
injection of the lost records into the tears.

### What stays with TLC

* Liveness: the provers have no rule for fairness and ENABLED (`EveryCommandAnswered`,
  `EveryChangeWritten`, `ExpiredAreSwept`, `EveryoneServed`, `TableServed`, `Delivered`,
  `UnsubscribeHeard`, `EveryoneAnswered`, `Forgotten`).

## 5. What is not modelled, and what could follow

* The wire format.  `read_resp` is known by its outcome, words or none; replies by
  which command they answer.  Both are parsing and formatting.
* The thread pool: no other file uses it, so it has no part in what the
  server does.
* Logger, configuration, the choice of a runtime: no state to be right or
  wrong about.
* PING, CLIENT, MEMORY, unknown commands and the other arms with a fixed answer:
  they are the kinds `plain` and `quiet` of `Connections`.

What could follow: the wire format as another module over characters, with `read_resp`
reading from a socket in pieces, and the theorems of `LogBytes` about `tokenize` used there again.

## 6. Running it

    tlc -config AofCore.cfg MCAofPipeline       # each run: PROJECT.json, "runs"
    tlapm AofPipelineProofs.tla
    tlapm ShardLocksProofs.tla                  # and the other *Proofs modules
