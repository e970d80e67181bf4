------------------------------ MODULE Keyspace ------------------------------
(***************************************************************************)
(* The data of the store and what each command does to it: the handlers of *)
(* server.rs, the replay of main.rs and the snapshot the compactor writes. *)
(* Everything here is an operator on a value; the modules that EXTEND this *)
(* one own the variables.                                                  *)
(*                                                                         *)
(* A database is a function from the keys present to entries.  An entry    *)
(* has the field str, list, hash or set (engine::DataType) and exp, the    *)
(* instant of expires_at or Forever.  Values are words, which do not parse *)
(* as integers, or integers, which stand for their decimal strings.        *)
(***************************************************************************)
EXTENDS Integers, Sequences, FiniteSets, SequencesExt

CONSTANTS
  Keys,         \* the keys of the store
  Words,        \* values and hash fields that are not decimal integers
  Blank,        \* the words tokenize() splits when they are not quoted
  Empty,        \* the words tokenize() drops even when they are quoted
  MaxInt,       \* i64::MAX of the model
  TicksPerSec,  \* clock ticks in the second SETEX and the compactor count in
  LastInstant,  \* the last instant a SystemTime can hold
  Forever,      \* expires_at = None
  NoLine        \* a handler that sends nothing to the log

ASSUME KeyspaceAssumption ==
  /\ Words \cap Int = {} /\ Blank \subseteq Words /\ Empty \subseteq Words
  /\ MaxInt \in Nat /\ TicksPerSec \in Nat \ {0} /\ LastInstant \in Nat
  /\ Forever \notin Int

MinInt == -MaxInt - 1
Val    == Words \cup (MinInt .. MaxInt)
Time   == Nat \cup {Forever}

Entry == [str : Val, exp : Time]
    \cup [list : Seq(Val), exp : Time]
    \cup [hash : UNION {[F -> Val] : F \in SUBSET Words}, exp : Time]
    \cup [set : SUBSET Val, exp : Time]

IsDatabase(db) == DOMAIN db \subseteq Keys /\ db \in [DOMAIN db -> Entry]

-----------------------------------------------------------------------------
(* The operations of a shard's HashMap.                                    *)

EmptyDb == [k \in {} |-> NoLine]

Put(db, k, entry) ==
  [x \in DOMAIN db \cup {k} |-> IF x = k THEN entry ELSE db[x]]

Without(db, ks) == [x \in DOMAIN db \ ks |-> db[x]]

Holds(db, k, kind)   == k \in DOMAIN db /\ kind \in DOMAIN db[k]
Accepts(db, k, kind) == k \in DOMAIN db => kind \in DOMAIN db[k]

Expiry(db, k) == IF k \in DOMAIN db THEN db[k].exp ELSE Forever

\* `now > expiration`, the test of GET and of the sweeper
Expired(db, k, now) == k \in DOMAIN db /\ db[k].exp # Forever /\ now > db[k].exp

String(v, t) == [str |-> v, exp |-> t]

\* the instant SETEX computes, and whether a SystemTime can hold it: the cast
\* `seconds as u64` makes a negative number one of the largest
Deadline(c, now)  == now + c.secs * TicksPerSec
InTime(c, now) == c.secs >= 0 /\ Deadline(c, now) <= LastInstant

\* entry(key).or_insert_with(empty list): the list to work on, and the entry
ListAt(db, k)     == IF k \in DOMAIN db THEN db[k].list ELSE <<>>
PutList(db, k, l) == Put(db, k, [list |-> l, exp |-> Expiry(db, k)])

PushFront(db, k, v) == PutList(db, k, <<v>> \o ListAt(db, k))
PushBack(db, k, v)  == PutList(db, k, Append(ListAt(db, k), v))
PopFront(db, k)     == PutList(db, k, Tail(db[k].list))
PopBack(db, k)      == PutList(db, k, Front(db[k].list))

HasItem(db, k) == Holds(db, k, "list") /\ db[k].list # <<>>

\* list.remove(position of the first v)
DropFirst(db, k, v) == PutList(db, k, RemoveFirst(db[k].list, v))

FieldsAt(db, k) == IF k \in DOMAIN db THEN db[k].hash ELSE [f \in {} |-> NoLine]
PutField(db, k, f, v) ==
  LET h == FieldsAt(db, k)
  IN Put(db, k, [hash |-> [x \in DOMAIN h \cup {f} |-> IF x = f THEN v ELSE h[x]],
                 exp  |-> Expiry(db, k)])

MembersAt(db, k) == IF k \in DOMAIN db THEN db[k].set ELSE {}
PutMember(db, k, v) ==
  Put(db, k, [set |-> MembersAt(db, k) \cup {v}, exp |-> Expiry(db, k)])

\* Mutation: the item is copied, never popped.
CopyItem(db, src, dst) ==
  IF Accepts(db, dst, "list") THEN PushFront(db, dst, Last(db[src].list)) ELSE db

\* the destination of RPOPLPUSH takes the item only when it is, or becomes, a
\* list; with any other kind there the popped item is dropped
MoveItem(db, src, dst) ==
  LET item   == Last(db[src].list)
      popped == PopBack(db, src)
  IN IF Accepts(popped, dst, "list") THEN PushFront(popped, dst, item) ELSE popped

\* current + 1 on an i64, in the release build
Successor(n) == IF n = MaxInt THEN MinInt ELSE n + 1

IsNumber(db, k) == k \in DOMAIN db /\ "str" \in DOMAIN db[k]
                                   /\ db[k].str \in MinInt .. MaxInt

-----------------------------------------------------------------------------
(* Commands are records; replies are tuples.  A handler's outcome is the   *)
(* database it leaves, the line it sends to the log, and its reply.        *)

Set(k, v)         == [op |-> "SET", key |-> k, val |-> v]
SetEx(k, secs, v) == [op |-> "SETEX", key |-> k, secs |-> secs, val |-> v]
Get(k)            == [op |-> "GET", key |-> k]
Del(k)            == [op |-> "DEL", key |-> k]
Incr(k)           == [op |-> "INCR", key |-> k]
LPush(k, v)       == [op |-> "LPUSH", key |-> k, val |-> v]
RPush(k, v)       == [op |-> "RPUSH", key |-> k, val |-> v]
LPop(k)           == [op |-> "LPOP", key |-> k]
RPop(k)           == [op |-> "RPOP", key |-> k]
LRem(k, v)        == [op |-> "LREM", key |-> k, val |-> v]
LTrim(k, a, b)    == [op |-> "LTRIM", key |-> k, start |-> a, stop |-> b]
HSet(k, f, v)     == [op |-> "HSET", key |-> k, field |-> f, val |-> v]
SAdd(k, v)        == [op |-> "SADD", key |-> k, val |-> v]
RPopLPush(s, d)   == [op |-> "RPOPLPUSH", key |-> s, dst |-> d]

Command ==
  [op : {"SET", "LPUSH", "RPUSH", "LREM", "SADD"}, key : Keys, val : Val]
    \cup [op : {"SETEX"}, key : Keys, secs : Int, val : Val]
    \cup [op : {"GET", "DEL", "INCR", "LPOP", "RPOP"}, key : Keys]
    \cup [op : {"LTRIM"}, key : Keys, start : Int, stop : Int]
    \cup [op : {"HSET"}, key : Keys, field : Words, val : Val]
    \cup [op : {"RPOPLPUSH"}, key : Keys, dst : Keys]

KeysOf(c) == IF c.op = "RPOPLPUSH" THEN {c.key, c.dst} ELSE {c.key}

\* a line of the log; quoted says whether the handler put "..." round the value
Line(c, quoted) == [cmd |-> c, quoted |-> quoted]

LogLine == [cmd : Command, quoted : BOOLEAN]

ASSUME NoLineAssumption == NoLine \notin LogLine

Ok        == <<"ok">>
Null      == <<"null">>
WrongType == <<"wrongtype">>
NotInt    == <<"notint">>
Silent    == <<"silent">>    \* nothing is written: the client waits for ever
Panic     == <<"panic">>     \* the task dies and the connection closes
Hang      == <<"hang">>      \* the handler never leaves its loop
Number(n) == <<"int", n>>
Bulk(v)   == <<"bulk", v>>
Array(s)  == <<"array", s>>

Answer(db, reply)          == [db |-> db, line |-> NoLine, reply |-> reply]
Change(db, c, quoted, reply) ==
  [db |-> db, line |-> Line(c, quoted), reply |-> reply]
=============================================================================
