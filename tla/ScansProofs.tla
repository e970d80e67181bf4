----------------------------- MODULE ScansProofs -----------------------------
(***************************************************************************)
(* What the walks answer, for any keys, any number of shards, any spread   *)
(* of the keys over them and any pattern.                                  *)
(***************************************************************************)
EXTENDS Scans, FiniteSetTheorems, TLAPS

USE ScansAssumption

\* A step of another client keeps the walk, a step of the walk keeps the keys.
LEMMA Steps ==
  ASSUME [Next]_vars
  PROVE  \/ UNCHANGED vars
         \/ \E keys \in SUBSET (db \cup Keys) : Become(keys)
         \/ RefuseKeys
         \/ \E p \in Patterns : Begin("keys", p, 0) \/ Begin("dbsize", "any", 0)
         \/ \E p \in Patterns : \E shard \in 0 .. NumShards + 1 : Begin("scan", p, shard)
         \/ WalkStep
<1>1. CASE ClientStep
  <2>1. PICK k \in Keys : Insert(k) \/ Remove(k)
    BY <1>1 DEF ClientStep
  <2>2. db \cup {k} \in SUBSET (db \cup Keys) /\ db \ {k} \in SUBSET (db \cup Keys)
    OBVIOUS
  <2> QED BY <2>1, <2>2 DEF Insert, Remove
<1>2. CASE Ask
  <2>1. ASSUME NEW p \in Patterns, BeginKeys(p) PROVE Begin("keys", p, 0)
    BY <2>1 DEF BeginKeys
  <2>2. "any" \in Patterns
    BY DEF Patterns
  <2>3. ASSUME NEW p \in Patterns, NEW cursor \in Cursors, BeginScan(p, cursor)
        PROVE  \E shard \in 0 .. NumShards + 1 : Begin("scan", p, shard)
    <3>1. (IF cursor = Junk THEN 0 ELSE cursor) \in 0 .. NumShards + 1
      BY DEF Cursors, Junk
    <3> QED BY <2>3, <3>1 DEF BeginScan
  <2> QED BY <1>2, <2>1, <2>2, <2>3 DEF Ask
<1> QED BY <1>1, <1>2 DEF Next

-----------------------------------------------------------------------------
(* Types.                                                                  *)

LEMMA ListingTypes ==
  ASSUME listed \in [Keys -> Nat], NEW S
  PROVE  Listing(S) \in [Keys -> Nat]
  BY DEF Listing

LEMMA KeysHereCounted ==
  ASSUME db \subseteq Keys
  PROVE  Cardinality(KeysHere) \in Nat /\ IsFiniteSet(KeysHere)
<1>1. KeysHere \in SUBSET Keys
  BY DEF KeysHere
<1> QED BY <1>1, FS_Subset, FS_CardinalityType

LEMMA TypeInit == ASSUME Init PROVE TypeOK
  BY DEF Init, TypeOK, Nothing, Patterns

LEMMA BeginTypes ==
  ASSUME TypeOK, NEW c \in {"keys", "dbsize", "scan"}, NEW p \in Patterns,
         NEW shard \in 0 .. NumShards + 1, Begin(c, p, shard)
  PROVE  TypeOK'
  BY DEF Begin, TypeOK, Nothing

LEMMA WalkTypes == ASSUME TypeOK, WalkStep PROVE TypeOK'
<1> USE DEF TypeOK, request, result, seen
<1>1. CASE Collect
  <2>1. listed' \in [Keys -> Nat]
    BY <1>1, ListingTypes DEF Collect
  <2> QED BY <1>1, <2>1 DEF Collect
<1>2. CASE AnswerKeys
  <2>1. listed' \in [Keys -> Nat]
    BY <1>2 DEF AnswerKeys
  <2> QED BY <1>2, <2>1 DEF AnswerKeys
<1>3. CASE Count
  <2>1. counted' \in Nat
    BY <1>3, KeysHereCounted DEF Count
  <2> QED BY <1>3, <2>1 DEF Count
<1>4. CASE AnswerSize
  BY <1>4 DEF AnswerSize
<1>5. CASE Scan
  <2>1. listed' \in [Keys -> Nat]
    BY <1>5, ListingTypes DEF Scan
  <2> QED BY <1>5, <2>1 DEF Scan
<1>6. CASE ScanTooFar
  BY <1>6 DEF ScanTooFar
<1> QED BY <1>1, <1>2, <1>3, <1>4, <1>5, <1>6 DEF WalkStep

LEMMA TypeStep == ASSUME TypeOK, [Next]_vars PROVE TypeOK'
<1>1. CASE UNCHANGED vars
  BY <1>1 DEF TypeOK, vars, request, result, seen
<1>2. ASSUME NEW keys \in SUBSET (db \cup Keys), Become(keys) PROVE TypeOK'
  BY <1>2 DEF TypeOK, Become, request, result
<1>3. CASE RefuseKeys
  BY <1>3 DEF RefuseKeys, TypeOK, result, seen
<1>4. ASSUME NEW p \in Patterns, Begin("keys", p, 0) \/ Begin("dbsize", "any", 0) PROVE TypeOK'
  <2>1. "any" \in Patterns /\ 0 \in 0 .. NumShards + 1
    BY DEF Patterns
  <2> QED BY <1>4, <2>1, BeginTypes
<1>5. ASSUME NEW p \in Patterns, NEW shard \in 0 .. NumShards + 1, Begin("scan", p, shard)
      PROVE  TypeOK'
  BY <1>5, BeginTypes
<1>6. CASE WalkStep
  BY <1>6, WalkTypes
<1> QED BY <1>1, <1>2, <1>3, <1>4, <1>5, <1>6, Steps

\* Cursors and counts stay in their ranges: a scan after its first call reads
\* a shard that exists (SCAN, scan_shard).
THEOREM TypeCorrect == Spec => []TypeOK
<1>1. Init => TypeOK
  BY TypeInit
<1>2. TypeOK /\ [Next]_vars => TypeOK'
  BY TypeStep
<1> QED BY <1>1, <1>2, PTL DEF Spec

-----------------------------------------------------------------------------
(* What a walk has listed or counted so far concerns the shards it has     *)
(* read, and its history what other clients did meanwhile.                 *)

HistoryHolds == Walking => always \subseteq db /\ db \subseteq ever

Lists == walk \in {"keys", "scan"}
Due(k) == walk = "scan" => Wanted(k)

ListsSoFar ==
  Lists => \A k \in Keys :
    /\ k \in always /\ Due(k) /\ from <= Home[k] /\ Home[k] < at => listed[k] > 0
    /\ listed[k] > 0 => listed[k] = 1 /\ Home[k] < at /\ k \in ever /\ Due(k)

KeysFromTheFirst ==
  /\ walk = "keys" => from = 0 /\ at <= NumShards
  /\ walk = "dbsize" => at <= NumShards

ReadSoFar(S) == {k \in S : Home[k] < at}

CountsSoFar ==
  walk = "dbsize" =>
    counted \in Cardinality(ReadSoFar(always)) .. Cardinality(ReadSoFar(ever))


LEMMA HistoryStep == ASSUME HistoryHolds, TypeOK, [Next]_vars PROVE HistoryHolds'
<1> USE DEF HistoryHolds, Walking
<1>1. CASE UNCHANGED vars
  BY <1>1 DEF vars, request, result, seen
<1>2. ASSUME NEW keys \in SUBSET (db \cup Keys), Become(keys) PROVE HistoryHolds'
  BY <1>2 DEF Become, request
<1>3. CASE RefuseKeys
  BY <1>3 DEF RefuseKeys
<1>4. ASSUME NEW p \in Patterns, Begin("keys", p, 0) \/ Begin("dbsize", "any", 0)
      PROVE  HistoryHolds'
  BY <1>4 DEF Begin
<1>5. ASSUME NEW p \in Patterns, NEW shard \in 0 .. NumShards + 1, Begin("scan", p, shard)
      PROVE  HistoryHolds'
  BY <1>5 DEF Begin
<1>6. CASE WalkStep
  BY <1>6 DEF WalkStep, Collect, AnswerKeys, Count, AnswerSize, Scan, ScanTooFar, request, seen
<1> QED BY <1>1, <1>2, <1>3, <1>4, <1>5, <1>6, Steps

LEMMA KeysFromTheFirstStep ==
  ASSUME KeysFromTheFirst, TypeOK, [Next]_vars PROVE KeysFromTheFirst'
<1> USE DEF KeysFromTheFirst
<1>1. CASE UNCHANGED vars
  BY <1>1 DEF vars, request
<1>2. ASSUME NEW keys \in SUBSET (db \cup Keys), Become(keys) PROVE KeysFromTheFirst'
  BY <1>2 DEF Become, request
<1>3. CASE RefuseKeys
  BY <1>3 DEF RefuseKeys
<1>4. ASSUME NEW p \in Patterns, Begin("keys", p, 0) \/ Begin("dbsize", "any", 0)
      PROVE  KeysFromTheFirst'
  BY <1>4 DEF Begin
<1>5. ASSUME NEW p \in Patterns, NEW shard \in 0 .. NumShards + 1, Begin("scan", p, shard)
      PROVE  KeysFromTheFirst'
  BY <1>5 DEF Begin
<1>6. CASE WalkStep
  BY <1>6 DEF WalkStep, Collect, AnswerKeys, Count, AnswerSize, Scan, ScanTooFar, request, TypeOK
<1> QED BY <1>1, <1>2, <1>3, <1>4, <1>5, <1>6, Steps

-----------------------------------------------------------------------------
(* KEYS and SCAN.                                                          *)

\* Reading one shard settles its keys and no others.
LEMMA OneShard ==
  ASSUME TypeOK, HistoryHolds, ListsSoFar, Lists, NEW k \in Keys, at < NumShards,
         listed' = Listing({q \in KeysHere : Due(q)})
  PROVE  /\ k \in always /\ Due(k) /\ from <= Home[k] /\ Home[k] <= at => listed'[k] > 0
         /\ listed'[k] > 0 => listed'[k] = 1 /\ Home[k] <= at /\ k \in ever /\ Due(k)
<1> USE DEF TypeOK, ListsSoFar
<1>1. Home[k] \in Int /\ at \in Int /\ from \in Int /\ listed[k] \in Nat
  BY DEF Shards
<1>2. always \subseteq db /\ db \subseteq ever
  BY DEF HistoryHolds, Lists, Walking
<1>3. listed'[k] = IF k \in db /\ Home[k] = at /\ Due(k) THEN listed[k] + 1 ELSE listed[k]
  BY DEF Listing, KeysHere
<1>4. CASE Home[k] = at
  <2>1. listed[k] = 0
    BY <1>1, <1>4
  <2> QED BY <1>2, <1>3, <1>4, <2>1
<1>5. CASE Home[k] # at
  BY <1>1, <1>3, <1>5
<1> QED BY <1>4, <1>5

ListParts == ListsSoFar /\ NothingLeftOut /\ ListedOnce

LEMMA CollectLists ==
  ASSUME TypeOK, HistoryHolds, ListParts, Collect PROVE ListParts'
<1> USE DEF ListParts, Lists, request, seen
<1>1. {q \in KeysHere : Due(q)} = KeysHere
  BY DEF Collect, Due
<1>2. /\ walk = "keys" /\ walk' = "keys" /\ at' = at + 1 /\ at < NumShards
      /\ UNCHANGED <<pattern, from, always, ever>>
      /\ listed' = Listing({q \in KeysHere : Due(q)})
  BY <1>1 DEF Collect
<1>3. ASSUME NEW k \in Keys
      PROVE  /\ k \in always' /\ Due(k)' /\ from' <= Home[k] /\ Home[k] < at' => listed'[k] > 0
             /\ listed'[k] > 0 => listed'[k] = 1 /\ Home[k] < at' /\ k \in ever' /\ Due(k)'
  <2>1. Home[k] \in Int /\ at \in Int /\ (Home[k] <= at <=> Home[k] < at')
    BY <1>2 DEF Shards, TypeOK
  <2>2. Due(k) /\ Due(k)'
    BY <1>2 DEF Due
  <2> QED BY <1>2, <2>1, <2>2, OneShard
<1>4. ListsSoFar'
  BY <1>3 DEF ListsSoFar
<1> QED BY <1>2, <1>4 DEF NothingLeftOut, ListedOnce

LEMMA ScanLists ==
  ASSUME TypeOK, HistoryHolds, ListParts, Scan PROVE ListParts'
<1> USE DEF ListParts, Lists, seen
<1>1. {q \in KeysHere : Due(q)} = {q \in KeysHere : Wanted(q)}
  BY DEF Scan, Due
<1>2. /\ walk = "scan" /\ at < NumShards /\ UNCHANGED <<pattern, from, always, ever>>
      /\ listed' = Listing({q \in KeysHere : Due(q)})
  BY <1>1 DEF Scan
<1>3. ASSUME NEW k \in Keys
      PROVE  /\ Home[k] \in Int /\ at \in Int /\ Home[k] < NumShards
             /\ (Wanted(k))' <=> Wanted(k)
             /\ Due(k) <=> Wanted(k)
             /\ (Due(k))' <=> (walk' = "scan" => Wanted(k))
             /\ k \in always /\ Due(k) /\ from <= Home[k] /\ Home[k] <= at => listed'[k] > 0
             /\ listed'[k] > 0 => listed'[k] = 1 /\ Home[k] <= at /\ k \in ever /\ Due(k)
  <2>1. Home[k] \in Int /\ at \in Int /\ Home[k] < NumShards
    BY DEF Shards, TypeOK
  <2>2. (Wanted(k))' <=> Wanted(k)
    BY <1>2 DEF Wanted
  <2>3. /\ Due(k) <=> Wanted(k)
        /\ (Due(k))' <=> (walk' = "scan" => Wanted(k))
    BY <1>2, <2>2 DEF Due
  <2> QED BY <1>2, <2>1, <2>2, <2>3, OneShard
<1>4. CASE at = NumShards - 1
  <2>1. walk' = "listed"
    BY <1>4 DEF Scan
  <2>2. \A k \in Keys : Home[k] <= at
    BY <1>3, <1>4
  <2>3. NothingLeftOut'
    BY <1>2, <1>3, <2>2 DEF NothingLeftOut, TypeOK
  <2>4. ListedOnce'
    BY <1>2, <1>3 DEF ListedOnce
  <2> QED BY <2>1, <2>3, <2>4 DEF ListsSoFar
<1>5. CASE at # NumShards - 1
  <2>1. at' = at + 1 /\ at' # 0 /\ walk' = "scan"
    BY <1>2, <1>5 DEF Scan, TypeOK
  <2>2. ListsSoFar'
    BY <1>2, <1>3, <2>1 DEF ListsSoFar
  <2> QED BY <2>1, <2>2 DEF NothingLeftOut, ListedOnce
<1> QED BY <1>4, <1>5

LEMMA AnswerLists ==
  ASSUME TypeOK, KeysFromTheFirst, ListParts, AnswerKeys \/ ScanTooFar PROVE ListParts'
<1> USE DEF ListParts, Lists, seen
<1>1. walk' = "listed" /\ UNCHANGED <<pattern, from, always, ever>>
  BY DEF AnswerKeys, ScanTooFar, result
<1>2. \A k \in Keys : Home[k] \in Int /\ 0 <= Home[k] /\ Home[k] < NumShards
  BY DEF Shards
<1>3. \A k \in Keys : (Wanted(k))' <=> Wanted(k)
  BY <1>1 DEF Wanted
<1>4. CASE AnswerKeys
  <2>1. /\ walk = "keys" /\ at = NumShards /\ from = 0
        /\ \A k \in Keys : Due(k) /\ listed'[k] = IF Wanted(k) THEN listed[k] ELSE 0
    BY <1>4 DEF AnswerKeys, KeysFromTheFirst, Due
  <2>2. NothingLeftOut'
    BY <1>1, <1>2, <1>3, <2>1 DEF NothingLeftOut, ListsSoFar, TypeOK
  <2>3. ListedOnce'
    BY <1>1, <1>3, <2>1 DEF ListedOnce, ListsSoFar
  <2> QED BY <1>1, <2>2, <2>3 DEF ListsSoFar
<1>5. CASE ScanTooFar
  <2>1. /\ walk = "scan" /\ at >= NumShards /\ from = at /\ listed' = listed
        /\ \A k \in Keys : Due(k) <=> Wanted(k)
    BY <1>5 DEF ScanTooFar, TypeOK, Due, result
  <2>2. NothingLeftOut'
    BY <1>1, <1>2, <2>1 DEF NothingLeftOut, TypeOK
  <2>3. ListedOnce'
    BY <1>1, <1>3, <2>1 DEF ListedOnce, ListsSoFar
  <2> QED BY <1>1, <2>2, <2>3 DEF ListsSoFar
<1> QED BY <1>4, <1>5

\* A walk that begins has listed nothing; other clients add to what was there
\* at some time and take from what was there always.
LEMMA BeginLists ==
  ASSUME ListParts, NEW c \in {"keys", "dbsize", "scan"}, NEW p, NEW shard \in Nat, Begin(c, p, shard)
  PROVE  ListParts'
<1>1. \A k \in Keys : listed'[k] = 0
  BY DEF Begin, Nothing
<1>2. \A k \in Keys : ~(from' <= Home[k] /\ Home[k] < at')
  BY DEF Begin, Shards
<1>3. ListsSoFar'
  BY <1>1, <1>2 DEF ListsSoFar
<1> QED BY <1>3 DEF ListParts, Begin, NothingLeftOut, ListedOnce

LEMMA BecomeLists ==
  ASSUME TypeOK, ListParts, NEW keys, Become(keys) PROVE ListParts'
<1> USE DEF Become, request, result, ListParts
<1>1. \A k : (Due(k))' <=> Due(k)
  BY DEF Due, Wanted
<1>2. \A k : (Wanted(k))' <=> Wanted(k)
  BY DEF Wanted
<1>3. ListsSoFar'
  BY <1>1 DEF ListsSoFar, Lists, Walking
<1>4. NothingLeftOut'
  BY <1>2 DEF NothingLeftOut, Walking
<1>5. ListedOnce'
  BY <1>2 DEF ListedOnce, Walking
<1> QED BY <1>3, <1>4, <1>5

LEMMA ListStep ==
  ASSUME TypeOK, HistoryHolds, KeysFromTheFirst, ListParts, [Next]_vars PROVE ListParts'
<1>1. CASE UNCHANGED vars \/ RefuseKeys
  <2>1. /\ \A k : (Due(k))' <=> (walk' = "scan" => Wanted(k))
        /\ \A k : (Wanted(k))' <=> Wanted(k)
        /\ UNCHANGED <<pattern, from, at, listed, always, ever>>
    BY <1>1 DEF Due, Wanted, vars, request, result, seen, RefuseKeys
  <2>2. ListsSoFar'
    BY <1>1, <2>1 DEF ListParts, ListsSoFar, Lists, Due, RefuseKeys, vars, request
  <2>3. NothingLeftOut' /\ ListedOnce'
    BY <1>1, <2>1 DEF ListParts, NothingLeftOut, ListedOnce, RefuseKeys, vars, request
  <2> QED BY <2>2, <2>3 DEF ListParts
<1>2. ASSUME NEW keys \in SUBSET (db \cup Keys), Become(keys) PROVE ListParts'
  BY <1>2, BecomeLists
<1>3. ASSUME NEW p \in Patterns, Begin("keys", p, 0) \/ Begin("dbsize", "any", 0)
      PROVE  ListParts'
  BY <1>3, BeginLists
<1>4. ASSUME NEW p \in Patterns, NEW shard \in 0 .. NumShards + 1, Begin("scan", p, shard)
      PROVE  ListParts'
  BY <1>4, BeginLists
<1>5. CASE Count \/ AnswerSize
  BY <1>5 DEF Count, AnswerSize, ListParts, ListsSoFar, Lists, NothingLeftOut, ListedOnce, request
<1>6. CASE WalkStep
  BY <1>5, <1>6, CollectLists, ScanLists, AnswerLists DEF WalkStep
<1> QED BY <1>1, <1>2, <1>3, <1>4, <1>6, Steps

ListInv == TypeOK /\ HistoryHolds /\ KeysFromTheFirst /\ ListParts

LEMMA ListsKept == Spec => []ListInv
<1>1. Init => ListInv
  <2>1. Init => ~Walking /\ walk = "none"
    BY DEF Init, Walking
  <2> QED BY <2>1, TypeInit DEF ListInv, HistoryHolds, KeysFromTheFirst, ListParts,
                                ListsSoFar, Lists, NothingLeftOut, ListedOnce
<1>2. ListInv /\ [Next]_vars => ListInv'
  BY TypeStep, HistoryStep, KeysFromTheFirstStep, ListStep DEF ListInv
<1> QED BY <1>1, <1>2, PTL DEF Spec

\* However the keys change meanwhile, KEYS and a scan followed to its end list
\* every key that is there all the time (get_all_keys, SCAN).
THEOREM ListedRight == Spec => []NothingLeftOut
<1>1. ListInv => NothingLeftOut
  BY DEF ListInv, ListParts
<1> QED BY <1>1, ListsKept, PTL

\* They list each key once, although it may go and come back meanwhile, and
\* only if it was there at some time (get_all_keys, SCAN).
THEOREM NoneListedTwice == Spec => []ListedOnce
<1>1. ListInv => ListedOnce
  BY DEF ListInv, ListParts
<1> QED BY <1>1, ListsKept, PTL

-----------------------------------------------------------------------------
(* DBSIZE.                                                                 *)

CountParts == CountsSoFar /\ CountInBounds

LEMMA SizesAreNumbers ==
  ASSUME NEW S \in SUBSET Keys PROVE IsFiniteSet(S) /\ Cardinality(S) \in Nat
  BY FS_Subset, FS_CardinalityType

LEMMA Smaller ==
  ASSUME NEW S \in SUBSET Keys, NEW T \in SUBSET S PROVE Cardinality(T) <= Cardinality(S)
  BY SizesAreNumbers, FS_Subset

\* The keys before the next shard are those read so far and those of this one.
LEMMA OneMoreShard ==
  ASSUME NEW S \in SUBSET Keys, at \in Int
  PROVE  Cardinality({k \in S : Home[k] < at + 1})
           = Cardinality(ReadSoFar(S)) + Cardinality({k \in S : Home[k] = at})
<1> DEFINE Here == {k \in S : Home[k] = at}
<1>1. \A k \in S : Home[k] \in Int
  BY DEF Shards
<1>2. {k \in S : Home[k] < at + 1} = ReadSoFar(S) \cup Here
  BY <1>1 DEF ReadSoFar
<1>3. ReadSoFar(S) \cap Here = {}
  BY <1>1 DEF ReadSoFar
<1>4. ReadSoFar(S) \in SUBSET Keys /\ Here \in SUBSET Keys
  BY DEF ReadSoFar
<1>5. /\ IsFiniteSet(ReadSoFar(S)) /\ Cardinality(ReadSoFar(S)) \in Nat
      /\ IsFiniteSet(Here) /\ Cardinality(Here) \in Nat
  BY <1>4, SizesAreNumbers
<1>6. Cardinality(ReadSoFar(S) \cup Here)
        = Cardinality(ReadSoFar(S)) + Cardinality(Here) - Cardinality(ReadSoFar(S) \cap Here)
  BY <1>5, FS_Union
<1>7. Cardinality(ReadSoFar(S) \cap Here) = 0
  BY <1>3, FS_EmptySet
<1> HIDE DEF Here
<1>8. Cardinality(ReadSoFar(S) \cup Here) = Cardinality(ReadSoFar(S)) + Cardinality(Here)
  BY <1>5, <1>6, <1>7
<1> QED BY <1>2, <1>8 DEF Here

LEMMA CountCounts == ASSUME TypeOK, HistoryHolds, CountParts, Count PROVE CountParts'
<1> DEFINE Here(S) == {k \in S : Home[k] = at}
<1>1. /\ walk = "dbsize" /\ walk' = "dbsize" /\ at' = at + 1
      /\ counted' = counted + Cardinality(Here(db)) /\ always' = always /\ ever' = ever
  BY DEF Count, request, seen, KeysHere
<1>2. /\ always \in SUBSET db /\ db \in SUBSET ever /\ ever \in SUBSET Keys
      /\ always \in SUBSET Keys /\ db \in SUBSET Keys /\ at \in Int /\ counted \in Int
  BY <1>1 DEF HistoryHolds, Walking, TypeOK
<1>3. /\ Cardinality(ReadSoFar(always)) \in Int /\ Cardinality(ReadSoFar(ever)) \in Int
      /\ Cardinality(Here(always)) \in Int /\ Cardinality(Here(ever)) \in Int
      /\ Cardinality(Here(db)) \in Int
  <2>1. /\ ReadSoFar(always) \in SUBSET Keys /\ ReadSoFar(ever) \in SUBSET Keys
        /\ Here(always) \in SUBSET Keys /\ Here(ever) \in SUBSET Keys /\ Here(db) \in SUBSET Keys
    BY <1>2 DEF ReadSoFar
  <2> QED BY <2>1, SizesAreNumbers
<1>4. /\ Cardinality(Here(always)) <= Cardinality(Here(db))
      /\ Cardinality(Here(db)) <= Cardinality(Here(ever))
  <2>1. /\ Here(always) \in SUBSET Here(db) /\ Here(db) \in SUBSET Here(ever)
        /\ Here(db) \in SUBSET Keys /\ Here(ever) \in SUBSET Keys
    BY <1>2
  <2> QED BY <2>1, Smaller
<1>5. /\ Cardinality(ReadSoFar(always)') = Cardinality(ReadSoFar(always)) + Cardinality(Here(always))
      /\ Cardinality(ReadSoFar(ever)') = Cardinality(ReadSoFar(ever)) + Cardinality(Here(ever))
  <2>1. /\ ReadSoFar(always)' = {k \in always : Home[k] < at + 1}
        /\ ReadSoFar(ever)' = {k \in ever : Home[k] < at + 1}
    BY <1>1 DEF ReadSoFar
  <2> QED BY <1>2, <2>1, OneMoreShard
<1>6. counted \in Cardinality(ReadSoFar(always)) .. Cardinality(ReadSoFar(ever))
  BY <1>1 DEF CountParts, CountsSoFar
<1>7. counted' \in Cardinality(ReadSoFar(always)') .. Cardinality(ReadSoFar(ever)')
  BY <1>1, <1>2, <1>3, <1>4, <1>5, <1>6
<1> QED BY <1>1, <1>7 DEF CountParts, CountsSoFar, CountInBounds

LEMMA BecomeCounts == ASSUME TypeOK, CountParts, NEW keys, keys \subseteq Keys, Become(keys)
                      PROVE  CountParts'
<1>1. CASE Walking
  <2>1. /\ walk' = walk /\ at' = at /\ counted' = counted
        /\ always' = always \cap keys /\ ever' = ever \cup keys
    BY <1>1 DEF Become, request, result
  <2>2. /\ ReadSoFar(always)' \in SUBSET ReadSoFar(always)
        /\ ReadSoFar(ever) \in SUBSET ReadSoFar(ever)'
        /\ ReadSoFar(always) \in SUBSET Keys /\ ReadSoFar(ever)' \in SUBSET Keys
        /\ ReadSoFar(always)' \in SUBSET Keys /\ ReadSoFar(ever) \in SUBSET Keys
    BY <2>1 DEF ReadSoFar, TypeOK
  <2>3. /\ Cardinality(ReadSoFar(always)') <= Cardinality(ReadSoFar(always))
        /\ Cardinality(ReadSoFar(ever)) <= Cardinality(ReadSoFar(ever)')
        /\ Cardinality(ReadSoFar(always)) \in Nat /\ Cardinality(ReadSoFar(ever)) \in Nat
        /\ Cardinality(ReadSoFar(always)') \in Nat /\ Cardinality(ReadSoFar(ever)') \in Nat
    BY <2>2, Smaller, SizesAreNumbers
  <2>4. CountsSoFar'
    BY <2>1, <2>3 DEF CountParts, CountsSoFar, TypeOK
  <2> QED BY <1>1, <2>1, <2>4 DEF CountParts, CountInBounds, Walking
<1>2. CASE ~Walking
  BY <1>2 DEF Walking, Become, request, result, CountParts, CountsSoFar, CountInBounds
<1> QED BY <1>1, <1>2

LEMMA BeginCounts ==
  ASSUME TypeOK, NEW c \in {"keys", "dbsize", "scan"}, NEW p, NEW shard \in Nat,
         c = "dbsize" => shard = 0, Begin(c, p, shard)
  PROVE  CountParts'
<1>1. walk' = c /\ at' = shard /\ counted' = 0 /\ always' = db /\ ever' = db
  BY DEF Begin
<1>2. CASE c = "dbsize"
  <2>1. \A k \in Keys : Home[k] \in Nat
    BY DEF Shards
  <2>2. ReadSoFar(always)' = {} /\ ReadSoFar(ever)' = {}
    BY <1>1, <1>2, <2>1 DEF ReadSoFar, TypeOK
  <2>3. Cardinality(ReadSoFar(always)') = 0 /\ Cardinality(ReadSoFar(ever)') = 0
    BY <2>2, FS_EmptySet
  <2> QED BY <1>1, <1>2, <2>3 DEF CountParts, CountsSoFar, CountInBounds
<1> QED BY <1>1, <1>2 DEF CountParts, CountsSoFar, CountInBounds

LEMMA AnswerCounts ==
  ASSUME TypeOK, CountParts, AnswerSize PROVE CountParts'
<1>1. /\ walk = "dbsize" /\ walk' = "counted" /\ at = NumShards
      /\ UNCHANGED <<counted, always, ever>>
  BY DEF AnswerSize, result, seen
<1>2. \A k \in Keys : Home[k] < NumShards
  BY DEF Shards
<1>3. ReadSoFar(always) = always /\ ReadSoFar(ever) = ever
  BY <1>1, <1>2 DEF ReadSoFar, TypeOK
<1> QED BY <1>1, <1>3 DEF CountParts, CountsSoFar, CountInBounds

LEMMA CountStep ==
  ASSUME TypeOK, HistoryHolds, CountParts, [Next]_vars PROVE CountParts'
<1>1. CASE UNCHANGED vars \/ RefuseKeys
  BY <1>1 DEF vars, request, result, seen, RefuseKeys, CountParts, CountsSoFar, CountInBounds,
              ReadSoFar
<1>2. ASSUME NEW keys \in SUBSET (db \cup Keys), Become(keys) PROVE CountParts'
  BY <1>2, BecomeCounts DEF TypeOK
<1>3. ASSUME NEW p \in Patterns, Begin("keys", p, 0) \/ Begin("dbsize", "any", 0)
      PROVE  CountParts'
  BY <1>3, BeginCounts
<1>4. ASSUME NEW p \in Patterns, NEW shard \in 0 .. NumShards + 1, Begin("scan", p, shard)
      PROVE  CountParts'
  BY <1>4, BeginCounts
<1>5. CASE Collect \/ AnswerKeys \/ Scan \/ ScanTooFar
  BY <1>5 DEF Collect, AnswerKeys, Scan, ScanTooFar, request, CountParts, CountsSoFar, CountInBounds
<1>6. CASE WalkStep
  BY <1>5, <1>6, CountCounts, AnswerCounts DEF WalkStep
<1> QED BY <1>1, <1>2, <1>3, <1>4, <1>6, Steps

CountInv == TypeOK /\ HistoryHolds /\ CountParts

\* DBSIZE and INFO count at least the keys that are there all the time and at
\* most those that are there at some time (DBSIZE).
THEOREM CountedRight == Spec => []CountInBounds
<1>1. Init => CountInv
  BY TypeInit DEF CountInv, Init, HistoryHolds, Walking, CountParts, CountsSoFar, CountInBounds
<1>2. CountInv /\ [Next]_vars => CountInv'
  BY TypeStep, HistoryStep, CountStep DEF CountInv
<1>3. CountInv => CountInBounds
  BY DEF CountInv, CountParts
<1> QED BY <1>1, <1>2, <1>3, PTL DEF Spec
=============================================================================
