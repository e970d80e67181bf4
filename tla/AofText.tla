------------------------------ MODULE AofText ------------------------------
(***************************************************************************)
(* What the append-only file means: replay_aof, which turns lines into a   *)
(* database, and the snapshot of start_aof_compactor, which turns a        *)
(* database into lines (main.rs).                                          *)
(***************************************************************************)
EXTENDS Keyspace

\* The words of a line that no quotes protect.  Keys are taken to be plain.
Bare(line) ==
  (IF "field" \in DOMAIN line.cmd THEN {line.cmd.field} ELSE {})
    \cup (IF "val" \in DOMAIN line.cmd /\ ~line.quoted THEN {line.cmd.val} ELSE {})

Written(line) ==
  Bare(line) \cup (IF "val" \in DOMAIN line.cmd THEN {line.cmd.val} ELSE {})

\* tokenize() gives parse_command() as many words as the handler wrote; with
\* any other number the arity guards answer Command::Unknown
ReadsBack(line) ==
  /\ \A w \in Bare(line) : w \notin Blank
  /\ \A w \in Written(line) : w \notin Empty

\* The line the handler of c sends, when it sends one.  Only some put quotes
\* round the value, and GET's line is the DEL of the key it found expired.
Sent(c) == IF c.op = "GET" THEN Line(Del(c.key), FALSE)
           ELSE IF c.op \in {"LPUSH", "RPUSH", "LREM", "HSET"} THEN Line(c, TRUE)
           ELSE Line(c, FALSE)

\* a command that replay_aof reads back from its line
Legible(c) == ReadsBack(Sent(c))

\* One line of replay_aof.  The clock is the one of the restart: SETEX starts
\* its seconds again, and INCR counts from 0 over anything but an integer.
ReplayCommand(db, c, now) ==
  LET k == c.key
  IN CASE c.op = "SET"   -> Put(db, k, String(c.val, Forever))
       [] c.op = "SETEX" -> Put(db, k, String(c.val, Deadline(c, now)))
       [] c.op = "DEL"   -> Without(db, {k})
       [] c.op = "INCR"  ->
            Put(db, k, String(Successor(IF IsNumber(db, k) THEN db[k].str ELSE 0),
                              Forever))
       [] c.op = "LPUSH" /\ Accepts(db, k, "list") -> PushFront(db, k, c.val)
       [] c.op = "RPUSH" /\ Accepts(db, k, "list") -> PushBack(db, k, c.val)
       [] c.op = "LPOP" /\ HasItem(db, k)          -> PopFront(db, k)
       [] c.op = "RPOP" /\ HasItem(db, k)          -> PopBack(db, k)
       [] c.op = "HSET" /\ Accepts(db, k, "hash")  -> PutField(db, k, c.field, c.val)
       [] c.op = "SADD" /\ Accepts(db, k, "set")   -> PutMember(db, k, c.val)
       [] c.op = "LREM" /\ Holds(db, k, "list") /\ Contains(db[k].list, c.val) ->
            DropFirst(db, k, c.val)
       [] c.op = "RPOPLPUSH" /\ HasItem(db, k)     -> MoveItem(db, k, c.dst)
       [] OTHER -> db      \* LTRIM has no arm: `_ => {}`

Replay(lines, now) ==
  LET step(db, line) == IF ReadsBack(line) THEN ReplayCommand(db, line.cmd, now)
                                           ELSE db
  IN FoldLeft(step, EmptyDb, lines)

\* Whether replay_aof comes to the end of the lines: at a SETEX whose seconds,
\* counted from the clock of the restart, overflow SystemTime the process dies.
Replayable(lines, now) ==
  \A i \in DOMAIN lines :
    ReadsBack(lines[i]) /\ lines[i].cmd.op = "SETEX" => InTime(lines[i].cmd, now)

-----------------------------------------------------------------------------
(* The compactor.  A HashMap or HashSet is written out in the order its    *)
(* iterator happens to give, which no reader of the lines can tell: they   *)
(* set different keys, fields or members.                                  *)

\* Mutation: an expired string is written out as if it had no expiry.
StringLinesLate(k, entry, now) ==
  IF entry.exp # Forever /\ entry.exp > now
  THEN <<Line(SetEx(k, (entry.exp - now) \div TicksPerSec, entry.str), TRUE)>>
  ELSE <<Line(Set(k, entry.str), TRUE)>>

StringLines(k, entry, now) ==
  IF entry.exp = Forever   THEN <<Line(Set(k, entry.str), TRUE)>>
  ELSE IF entry.exp >= now
  THEN <<Line(SetEx(k, (entry.exp - now) \div TicksPerSec, entry.str), TRUE)>>
  ELSE <<>>

\* Mutation: LPUSH from head to tail.
ListLinesHeadFirst(k, list) == [i \in DOMAIN list |-> Line(LPush(k, list[i]), TRUE)]

\* LPUSH from tail to head
ListLines(k, list) ==
  [i \in DOMAIN list |-> Line(LPush(k, Reverse(list)[i]), TRUE)]

SnapshotOf(db, k, now) ==
  LET entry == db[k]
      inAnyOrder(S, line(_)) ==
        LET members == SetToSeq(S) IN [i \in DOMAIN members |-> line(members[i])]
  IN CASE "str" \in DOMAIN entry  -> StringLines(k, entry, now)
       [] "list" \in DOMAIN entry -> ListLines(k, entry.list)
       [] "hash" \in DOMAIN entry ->
            inAnyOrder(DOMAIN entry.hash,
                       LAMBDA f : Line(HSet(k, f, entry.hash[f]), TRUE))
       [] "set" \in DOMAIN entry  ->
            inAnyOrder(entry.set, LAMBDA v : Line(SAdd(k, v), TRUE))

\* the lines of the keys in ks, as the compactor appends them for one shard
Snapshot(db, ks, now) ==
  LET present == SetToSeq(ks \cap DOMAIN db)
  IN FlattenSeq([i \in DOMAIN present |-> SnapshotOf(db, present[i], now)])

-----------------------------------------------------------------------------
(* What two databases have in common when the instants of expiry are left  *)
(* out, as they must be when one of them was rebuilt at another time.      *)

DataOf(entry) == [f \in DOMAIN entry \ {"exp"} |-> entry[f]]

SameData(d1, d2) ==
  /\ DOMAIN d1 = DOMAIN d2
  /\ \A k \in DOMAIN d1 : DataOf(d1[k]) = DataOf(d2[k])

\* an entry with an expiry in one has an expiry in the other
SameLease(d1, d2) ==
  \A k \in DOMAIN d1 \cap DOMAIN d2 : (d1[k].exp = Forever) <=> (d2[k].exp = Forever)

\* the keys whose list has been emptied by pops: the store keeps them
EmptyLists(db) == {k \in DOMAIN db : Holds(db, k, "list") /\ db[k].list = <<>>}
=============================================================================
