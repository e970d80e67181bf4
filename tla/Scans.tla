-------------------------------- MODULE Scans --------------------------------
(***************************************************************************)
(* The commands that go over all shards, one at a time: KEYS, DBSIZE (and  *)
(* INFO, which counts as DBSIZE does) and SCAN, which reads one shard per  *)
(* call and leaves the rest to a client that sends the cursor back.  They  *)
(* hold one shard's read lock at a time, so other clients add and remove   *)
(* keys in between (engine.rs, server.rs).                                 *)
(*                                                                         *)
(* One walk at a time is enough: walks change nothing and cannot meet.     *)
(* What the keys hold is left out, and with it the commands that change a  *)
(* value only (RPOPLPUSH keeps its source even when it takes the last      *)
(* item, so it adds a key at most).                                        *)
(***************************************************************************)
EXTENDS Integers, FiniteSets

CONSTANTS
  Keys,
  NumShards,  \* SHARD_COUNT
  Home,       \* the shard of each key
  Matching    \* the keys that match the pattern of a walk, if it is valid

Shards == 0 .. NumShards - 1

ASSUME ScansAssumption ==
  /\ IsFiniteSet(Keys)
  /\ NumShards \in Nat \ {0}
  /\ Home \in [Keys -> Shards]
  /\ Matching \subseteq Keys

Junk == -1                     \* stands for a cursor that is no number
Cursors == {Junk} \cup 0 .. NumShards + 1  \* with some that are too large
Patterns == {"any", "valid", "invalid"}

VARIABLES
  db,       \* the keys in the database
  walk,     \* the command that is walking, or how the last one ended
  pattern,  \* its pattern
  from,     \* the shard it began with
  at,       \* and the next one it reads
  listed,   \* how often it has each key
  counted,  \* how many keys it has counted
  always,   \* history: the keys there were all the time since it began
  ever      \* history: and those there were at some time

request == <<walk, pattern, from>>
result  == <<listed, counted>>
seen    == <<always, ever>>
vars    == <<db, request, at, result, seen>>

Walking == walk \in {"keys", "dbsize", "scan"}

Nothing == [k \in Keys |-> 0]

Init ==
  /\ db \in SUBSET Keys
  /\ walk = "none"
  /\ pattern = "any"
  /\ from = 0
  /\ at = 0
  /\ listed = Nothing
  /\ counted = 0
  /\ always = {}
  /\ ever = {}

-----------------------------------------------------------------------------
(* The other clients.                                                      *)

Become(keys) ==
  /\ db' = keys
  /\ always' = IF Walking THEN always \cap keys ELSE always
  /\ ever' = IF Walking THEN ever \cup keys ELSE ever
  /\ UNCHANGED <<request, at, result>>

\* entry(key).or_insert_with(..), map.insert
Insert(k) == k \notin db /\ Become(db \cup {k})

\* DEL, LTRIM to nothing, GET of an expired key and the sweeper
Remove(k) == k \in db /\ Become(db \ {k})

-----------------------------------------------------------------------------
(* A walk.                                                                 *)

Begin(command, p, shard) ==
  /\ ~Walking
  /\ walk' = command
  /\ pattern' = p
  /\ from' = shard
  /\ at' = shard
  /\ listed' = Nothing
  /\ counted' = 0
  /\ always' = db
  /\ ever' = db
  /\ UNCHANGED db

\* a pattern that is no regular expression is not noticed by SCAN, and ends
\* the connection in KEYS
Wanted(k) == pattern # "valid" \/ k \in Matching

KeysHere == {k \in db : Home[k] = at}

Listing(keys) == [k \in Keys |-> IF k \in keys THEN listed[k] + 1 ELSE listed[k]]

BeginKeys(p) == p # "invalid" /\ Begin("keys", p, 0)

RefuseKeys ==
  /\ ~Walking
  /\ walk' = "closed"
  /\ UNCHANGED <<db, pattern, from, at, result, seen>>

\* Mutation: a shard that is still growing is read once more.
CollectAgain ==
  /\ walk = "keys" /\ at < NumShards
  /\ listed' = Listing(KeysHere)
  /\ at' \in {at, at + 1}
  /\ UNCHANGED <<db, request, counted, seen>>

\* get_all_keys
Collect ==
  /\ walk = "keys" /\ at < NumShards
  /\ listed' = Listing(KeysHere)
  /\ at' = at + 1
  /\ UNCHANGED <<db, request, counted, seen>>

AnswerKeys ==
  /\ walk = "keys" /\ at = NumShards
  /\ listed' = [k \in Keys |-> IF Wanted(k) THEN listed[k] ELSE 0]
  /\ walk' = "listed"
  /\ UNCHANGED <<db, pattern, from, at, counted, seen>>

\* Mutation: a shard that is still growing is counted once more.
CountAgain ==
  /\ walk = "dbsize" /\ at < NumShards
  /\ counted' = counted + Cardinality(KeysHere)
  /\ at' \in {at, at + 1}
  /\ UNCHANGED <<db, request, listed, seen>>

Count ==
  /\ walk = "dbsize" /\ at < NumShards
  /\ counted' = counted + Cardinality(KeysHere)
  /\ at' = at + 1
  /\ UNCHANGED <<db, request, listed, seen>>

AnswerSize ==
  /\ walk = "dbsize" /\ at = NumShards
  /\ walk' = "counted"
  /\ UNCHANGED <<db, pattern, from, at, result, seen>>

\* a cursor that is no number is taken for 0
BeginScan(p, cursor) == Begin("scan", p, IF cursor = Junk THEN 0 ELSE cursor)

\* Mutation: the cursor goes back to 0 one shard early.
ScanShort ==
  /\ walk = "scan" /\ at < NumShards
  /\ listed' = Listing({k \in KeysHere : Wanted(k)})
  /\ at' = IF at >= NumShards - 2 THEN 0 ELSE at + 1
  /\ walk' = IF at' = 0 THEN "listed" ELSE walk
  /\ UNCHANGED <<db, pattern, from, counted, seen>>

\* one call of SCAN, and the client that goes on until the cursor is 0
Scan ==
  /\ walk = "scan" /\ at < NumShards
  /\ listed' = Listing({k \in KeysHere : Wanted(k)})
  /\ at' = IF at = NumShards - 1 THEN 0 ELSE at + 1
  /\ walk' = IF at' = 0 THEN "listed" ELSE walk
  /\ UNCHANGED <<db, pattern, from, counted, seen>>

ScanTooFar ==
  /\ walk = "scan" /\ at >= NumShards
  /\ at' = 0
  /\ walk' = "listed"
  /\ UNCHANGED <<db, pattern, from, result, seen>>

-----------------------------------------------------------------------------

WalkStep == Collect \/ AnswerKeys \/ Count \/ AnswerSize \/ Scan \/ ScanTooFar

ClientStep == \E k \in Keys : Insert(k) \/ Remove(k)

Ask ==
  \/ \E p \in Patterns : BeginKeys(p)
  \/ RefuseKeys
  \/ Begin("dbsize", "any", 0)
  \/ \E p \in Patterns : \E cursor \in Cursors : BeginScan(p, cursor)

Next == ClientStep \/ Ask \/ WalkStep

Spec == Init /\ [][Next]_vars

-----------------------------------------------------------------------------
(* Properties.                                                             *)

\* The variables have their types; a scan is at a shard that exists, except
\* in its first call, which has the client's own cursor (SCAN).
TypeOK ==
  /\ db \subseteq Keys
  /\ walk \in {"none", "keys", "dbsize", "scan", "listed", "counted", "closed"}
  /\ pattern \in Patterns
  /\ from \in 0 .. NumShards + 1
  /\ at \in 0 .. NumShards + 1
  /\ listed \in [Keys -> Nat]
  /\ counted \in Nat
  /\ always \subseteq Keys
  /\ ever \subseteq Keys
  /\ walk = "scan" => at < NumShards \/ at = from

\* Whatever other clients do meanwhile, KEYS and a scan followed to its end
\* list every key that was there from beginning to end, if its shard is not
\* before the cursor the scan began with (get_all_keys, SCAN).
NothingLeftOut ==
  walk = "listed" =>
    \A k \in always : Wanted(k) /\ Home[k] >= from => listed[k] > 0

\* And they list no key twice, not even one that is removed and added again,
\* and no key that was not there at any time (get_all_keys, SCAN).
ListedOnce ==
  walk = "listed" =>
    \A k \in Keys : listed[k] > 0 => listed[k] = 1 /\ k \in ever /\ Wanted(k)

\* DBSIZE may answer a number of keys there never was, but not fewer than
\* were there all the time nor more than were there at some time (DBSIZE, INFO).
CountInBounds ==
  walk = "counted" => counted \in Cardinality(always) .. Cardinality(ever)
=============================================================================
