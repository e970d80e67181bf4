------------------------------ MODULE Handlers ------------------------------
(***************************************************************************)
(* The arms of handle_connection's match (server.rs) that read or change   *)
(* the database: one operator per arm, from the database and the clock to  *)
(* the outcome of the arm.  What runs under which lock, and when the line  *)
(* reaches the log, is the business of AofPipeline.                        *)
(***************************************************************************)
EXTENDS Keyspace

DoSet(db, c) ==
  Change(Put(db, c.key, String(c.val, Forever)), c, FALSE, Ok)

\* Mutation: no overflow check on the seconds.
DoSetExUnchecked(db, c, now) ==
  Change(Put(db, c.key, String(c.val, Deadline(c, now))), c, FALSE, Ok)

\* the sum of the clock and the seconds panics when SystemTime overflows
DoSetEx(db, c, now) ==
  IF InTime(c, now)
  THEN Change(Put(db, c.key, String(c.val, Deadline(c, now))), c, FALSE, Ok)
  ELSE Answer(db, Panic)

\* Mutation: lazy expiry forgets to log the deletion.
DoGetUnlogged(db, c, now) ==
  IF c.key \notin DOMAIN db THEN Answer(db, Null)
  ELSE IF Expired(db, c.key, now) THEN Answer(Without(db, {c.key}), Null)
  ELSE Answer(db, IF Holds(db, c.key, "str") THEN Bulk(db[c.key].str) ELSE WrongType)

DoGet(db, c, now) ==
  CASE Expired(db, c.key, now) ->
         Change(Without(db, {c.key}), Del(c.key), FALSE, Null)
    [] c.key \notin DOMAIN db  -> Answer(db, Null)
    [] OTHER -> Answer(db, IF Holds(db, c.key, "str") THEN Bulk(db[c.key].str)
                                                      ELSE WrongType)

DoDel(db, c) ==
  IF c.key \in DOMAIN db
  THEN Change(Without(db, {c.key}), c, FALSE, Number(1))
  ELSE Answer(db, Number(0))

DoIncr(db, c) ==
  LET n == Successor(IF c.key \in DOMAIN db THEN db[c.key].str ELSE 0)
  IN CASE ~Accepts(db, c.key, "str") -> Answer(db, WrongType)
       [] Holds(db, c.key, "str") /\ ~IsNumber(db, c.key) -> Answer(db, NotInt)
       [] OTHER -> Change(Put(db, c.key, String(n, Forever)), c, FALSE, Number(n))

DoPush(db, c) ==
  IF Accepts(db, c.key, "list")
  THEN Change(IF c.op = "LPUSH" THEN PushFront(db, c.key, c.val)
                                ELSE PushBack(db, c.key, c.val),
              c, TRUE, Number(Len(ListAt(db, c.key)) + 1))
  ELSE Answer(db, IF c.op = "LPUSH" THEN WrongType ELSE Silent)

DoPop(db, c) ==
  CASE HasItem(db, c.key) /\ c.op = "LPOP" ->
         Change(PopFront(db, c.key), c, FALSE, Bulk(Head(db[c.key].list)))
    [] HasItem(db, c.key) /\ c.op = "RPOP" ->
         Change(PopBack(db, c.key), c, FALSE, Bulk(Last(db[c.key].list)))
    [] OTHER ->
         Answer(db, IF Accepts(db, c.key, "list") THEN Null ELSE WrongType)

DoLRem(db, c) ==
  IF Holds(db, c.key, "list") /\ Contains(db[c.key].list, c.val)
  THEN Change(DropFirst(db, c.key, c.val), c, TRUE, Number(1))
  ELSE Answer(db, Number(0))

\* an index of LTRIM or LRANGE, negative ones counted from the end
At(i, len)   == IF i < 0 THEN len + i ELSE i
AtLeast(a,b) == IF a > b THEN a ELSE b
AtMost(a, b) == IF a < b THEN a ELSE b

\* Mutation: the head is trimmed first, and stop counted from the new head.
KeptHeadFirst(list, s, e) ==
  LET rest == SubSeq(list, AtLeast(0, s) + 1, Len(list))
  IN SubSeq(rest, 1, AtMost(e, Len(rest) - 1) + 1)

\* what the two trimming loops leave, for clamped bounds s and e
Kept(list, s, e) ==
  SubSeq(list, AtLeast(0, s) + 1, AtMost(e, Len(list) - 1) + 1)

(***************************************************************************)
(* LTRIM.  The tail loop runs while len > e + 1: an e below -1 (a stop     *)
(* before the head, which the first test lets through when start is lower  *)
(* still) keeps it running on the empty list.                              *)
(***************************************************************************)
DoLTrim(db, c) ==
  LET list == ListAt(db, c.key)
      len  == Len(list)
      s    == At(c.start, len)
      e    == At(c.stop, len)
      kept == Kept(list, s, e)
      hold == Holds(db, c.key, "list")
      gone == s > e \/ s >= len      \* the first test: nothing is left
      hang == hold /\ ~gone /\ e < -1
  IN CASE c.key \notin DOMAIN db          -> Answer(db, Ok)
       [] ~Accepts(db, c.key, "list")     -> Answer(db, WrongType)
       [] hang                            -> Answer(PutList(db, c.key, <<>>), Hang)
       [] hold /\ ~hang /\ (gone \/ kept = <<>>) ->
            Change(Without(db, {c.key}), c, FALSE, Ok)
       [] OTHER -> Change(PutList(db, c.key, kept), c, FALSE, Ok)

\* Mutation: a field set on a string turns it into a hash, expiry and all.
DoHSetOver(db, c) ==
  Change(IF Accepts(db, c.key, "hash") THEN PutField(db, c.key, c.field, c.val)
         ELSE Put(db, c.key, [hash |-> [f \in {c.field} |-> c.val],
                              exp  |-> Expiry(db, c.key)]),
         c, TRUE, Ok)

DoHSet(db, c) ==
  IF Accepts(db, c.key, "hash")
  THEN Change(PutField(db, c.key, c.field, c.val), c, TRUE, Ok)
  ELSE Answer(db, WrongType)

DoSAdd(db, c) ==
  IF Accepts(db, c.key, "set") /\ c.val \notin MembersAt(db, c.key)
  THEN Change(PutMember(db, c.key, c.val), c, FALSE, Number(1))
  ELSE Answer(db, Number(0))

DoRPopLPush(db, c) ==
  IF HasItem(db, c.key)
  THEN Change(MoveItem(db, c.key, c.dst), c, FALSE, Bulk(Last(db[c.key].list)))
  ELSE Answer(db, Null)

Exec(db, c, now) ==
  CASE c.op = "SET"   -> DoSet(db, c)
    [] c.op = "SETEX" -> DoSetEx(db, c, now)
    [] c.op = "GET"   -> DoGet(db, c, now)
    [] c.op = "DEL"   -> DoDel(db, c)
    [] c.op = "INCR"  -> DoIncr(db, c)
    [] c.op \in {"LPUSH", "RPUSH"} -> DoPush(db, c)
    [] c.op \in {"LPOP", "RPOP"}   -> DoPop(db, c)
    [] c.op = "LREM"  -> DoLRem(db, c)
    [] c.op = "LTRIM" -> DoLTrim(db, c)
    [] c.op = "HSET"  -> DoHSet(db, c)
    [] c.op = "SADD"  -> DoSAdd(db, c)
    [] c.op = "RPOPLPUSH" -> DoRPopLPush(db, c)

-----------------------------------------------------------------------------
(* The arms that only read: what a client is told of the database.         *)
(* They tell nothing but the entry they find: only TTL and PTTL, like GET,  *)
(* look at its expiry.  A length of a string is abstract, an array of the  *)
(* members of a HashSet or HashMap is the set or the function itself.      *)

(***************************************************************************)
(* LRANGE.  A list that pops have emptied is let through by the test when  *)
(* start is negative and stop is not; its last index len - 1 is then -1,   *)
(* and `as usize` makes the loop run to usize::MAX with the shard locked   *)
(* for reading (after the count has overflowed: release build).            *)
(***************************************************************************)
LRange(db, k, start, stop) ==
  LET list == ListAt(db, k)
      len  == Len(list)
      s    == At(start, len)
      e    == At(stop, len)
      last == AtMost(e, len - 1)
      none == k \notin DOMAIN db \/ s > e \/ s >= len \/ e < 0
  IN IF ~Accepts(db, k, "list") THEN WrongType
     ELSE IF none               THEN Array(<<>>)
     ELSE IF last < 0           THEN Hang
     ELSE Array(SubSeq(list, AtLeast(0, s) + 1, last + 1))

\* an arm that answers for a key that is missing, for one kind, and WRONGTYPE
OfKind(db, k, kind, missing, answer(_)) ==
  CASE k \notin DOMAIN db   -> missing
    [] Holds(db, k, kind)   -> answer(db[k])
    [] OTHER                -> WrongType

Exists(db, k)   == Number(IF k \in DOMAIN db THEN 1 ELSE 0)
Type(db, k)     == IF k \in DOMAIN db THEN DOMAIN db[k] \ {"exp"} ELSE {"none"}
Strlen(db, k)   == OfKind(db, k, "str", Number(0), LAMBDA e : <<"length", e.str>>)
Llen(db, k)     == OfKind(db, k, "list", Number(0), LAMBDA e : Number(Len(e.list)))
Hlen(db, k)     == OfKind(db, k, "hash", Number(0),
                          LAMBDA e : Number(Cardinality(DOMAIN e.hash)))
Scard(db, k)    == OfKind(db, k, "set", Number(0), LAMBDA e : Number(Cardinality(e.set)))
HGet(db, k, f)  == OfKind(db, k, "hash", Null,
                          LAMBDA e : IF f \in DOMAIN e.hash THEN Bulk(e.hash[f]) ELSE Null)
HGetAll(db, k)  == OfKind(db, k, "hash", Array([f \in {} |-> Null]), LAMBDA e : Array(e.hash))
SMembers(db, k) == OfKind(db, k, "set", Array({}), LAMBDA e : Array(e.set))

\* whatever is no string is null to MGET, whatever is no set is empty to SINTER
MGet(db, k, j) ==
  LET one(x) == IF Holds(db, x, "str") THEN Bulk(db[x].str) ELSE Null
  IN Array(<<one(k), one(j)>>)

SInter(db, k, j) ==
  LET one(x) == IF Holds(db, x, "set") THEN db[x].set ELSE {}
  IN Array(one(k) \cap one(j))

\* Mutation: the seconds left are rounded up.
LeaseRoundedUp(db, k, now, unit) ==
  IF k \notin DOMAIN db         THEN Number(-2)
  ELSE IF db[k].exp = Forever   THEN Number(-1)
  ELSE IF now >= db[k].exp      THEN Number(-2)
  ELSE Number((db[k].exp - now + unit - 1) \div unit)

\* TTL in seconds, PTTL in ticks
Lease(db, k, now, unit) ==
  IF k \notin DOMAIN db         THEN Number(-2)
  ELSE IF db[k].exp = Forever   THEN Number(-1)
  ELSE IF now >= db[k].exp      THEN Number(-2)
  ELSE Number((db[k].exp - now) \div unit)

Ttl(db, k, now)  == Lease(db, k, now, TicksPerSec)
Pttl(db, k, now) == Lease(db, k, now, 1)
=============================================================================
