------------------------------ MODULE LogProofs ------------------------------
(***************************************************************************)
(* Facts about the data of the store, for every value of the constants:    *)
(* what replay_aof makes of a log one line at a time, that handlers and    *)
(* replay keep a database well formed, and that a line of the log does to  *)
(* a replayed database what the handler that sent it did to the database   *)
(* in memory.  CommandLogProofs and AofPipelineProofs rest on them.        *)
(***************************************************************************)
EXTENDS Handlers, AofText, SequenceTheorems, FiniteSetTheorems, WellFoundedInduction, TLAPS

-----------------------------------------------------------------------------
(* Induction.  The library's theorem takes a predicate, here it is a set.  *)

LEMMA LeastNumber ==
  ASSUME NEW T \in SUBSET Nat, T # {}
  PROVE  \E n \in T : \A m \in T : n <= m
<1> DEFINE R == {ss \in Nat \X Nat : ss[1] < ss[2]}
<1>1. IsWellFoundedOn(R, Nat)
  <2>1. R = OpToRel(<, Nat)
    BY Zenon DEF OpToRel
  <2> QED BY <2>1, NatLessThanWellFounded, Zenon
<1> HIDE DEF R
<1>2. PICK n \in T : \A m \in T : <<m, n>> \notin R
  BY <1>1, WFMin
<1>3. \A m \in T : ~(m < n)
  BY <1>2 DEF R
<1> QED BY <1>3

LEMMA NumbersByInduction ==
  ASSUME NEW S, 0 \in S, \A n \in Nat : n \in S => n + 1 \in S
  PROVE  Nat \subseteq S
<1> DEFINE T == {n \in Nat : n \notin S}
<1>1. SUFFICES ASSUME T # {} PROVE FALSE
  OBVIOUS
<1>2. PICK n \in T : \A m \in T : n <= m
  BY <1>1, LeastNumber
<1>3. n # 0 /\ n - 1 \in Nat
  BY <1>2
<1>4. n - 1 \in S
  BY <1>2, <1>3
<1> QED BY <1>2, <1>3, <1>4

LEMMA LastAppended ==
  ASSUME NEW S, NEW s \in Seq(S), s # <<>>
  PROVE  /\ Front(s) \in Seq(S) /\ Last(s) \in S /\ s = Append(Front(s), Last(s))
         /\ Len(s) \in Nat \ {0} /\ Len(Front(s)) = Len(s) - 1
         /\ \A i \in 1 .. Len(s) - 1 : Front(s)[i] = s[i]
<1>1. Len(s) \in Nat \ {0}
  OBVIOUS
<1>2. Front(s) \in Seq(S) /\ Len(Front(s)) = Len(s) - 1 /\ Last(s) \in S
  <2>1. \A n \in 0 .. Len(s) : SubSeq(s, 1, n) \in Seq(S) /\ Len(SubSeq(s, 1, n)) = n
    OBVIOUS
  <2>2. Len(s) - 1 \in 0 .. Len(s)
    BY <1>1
  <2>3. Front(s) \in Seq(S) /\ Len(Front(s)) = Len(s) - 1
    BY <2>1, <2>2 DEF Front
  <2> QED BY <1>1, <2>3 DEF Last
<1>3. \A i \in 1 .. Len(s) - 1 : Front(s)[i] = s[i]
  BY <1>1 DEF Front
<1>4. s = Append(Front(s), Last(s))
  <2> DEFINE a == Append(Front(s), Last(s))
  <2>1. a \in Seq(S) /\ Len(a) = Len(s)
    BY <1>1, <1>2
  <2>2. \A i \in 1 .. Len(s) : a[i] = s[i]
    BY <1>1, <1>2, <1>3 DEF Last
  <2> QED BY <2>1, <2>2, SeqEqual
<1> QED BY <1>1, <1>2, <1>3, <1>4

LEMMA SequencesByInduction ==
  ASSUME NEW S, NEW P, <<>> \in P,
         \A s \in Seq(S), x \in S : s \in P => Append(s, x) \in P
  PROVE  Seq(S) \subseteq P
<1> DEFINE N == {n \in Nat : \A s \in Seq(S) : Len(s) = n => s \in P}
<1>1. 0 \in N
  <2>1. \A s \in Seq(S) : Len(s) = 0 => s = <<>>
    OBVIOUS
  <2> QED BY <2>1
<1>2. ASSUME NEW n \in Nat, n \in N PROVE n + 1 \in N
  <2>1. ASSUME NEW s \in Seq(S), Len(s) = n + 1 PROVE s \in P
    <3>1. s # <<>>
      BY <2>1
    <3>2. /\ Front(s) \in Seq(S) /\ Last(s) \in S
          /\ s = Append(Front(s), Last(s)) /\ Len(Front(s)) = n
      BY <2>1, <3>1, LastAppended
    <3>3. Front(s) \in P
      BY <1>2, <3>2
    <3> QED BY <3>2, <3>3
  <2> QED BY <1>2, <2>1
<1>3. Nat \subseteq N
  <2> HIDE DEF N
  <2> QED BY <1>1, <1>2, NumbersByInduction
<1>4. \A s \in Seq(S) : Len(s) \in N
  BY <1>3
<1> QED BY <1>4

\* a finite set as a sequence: everything in it is there, once
LEMMA SetListed ==
  ASSUME NEW S, IsFiniteSet(S)
  PROVE  /\ Cardinality(S) \in Nat
         /\ SetToSeq(S) \in [1 .. Cardinality(S) -> S] /\ SetToSeq(S) \in Seq(S)
         /\ Len(SetToSeq(S)) = Cardinality(S)
         /\ \A i, j \in 1 .. Cardinality(S) : SetToSeq(S)[i] = SetToSeq(S)[j] => i = j
         /\ \A x \in S : \E i \in 1 .. Cardinality(S) : SetToSeq(S)[i] = x
<1> DEFINE n == Cardinality(S)
           f == SetToSeq(S)
<1>1. n \in Nat /\ ExistsBijection(1 .. n, S)
  BY FS_CardinalityType
<1>2. \E g \in [1 .. n -> S] : IsInjective(g)
  BY <1>1 DEF ExistsBijection, Bijection, Injection
<1>3. f \in [1 .. n -> S] /\ IsInjective(f)
  BY <1>2 DEF SetToSeq
<1> HIDE DEF f
<1>4. IsFiniteSet(1 .. n) /\ Cardinality(1 .. n) = n
  BY <1>1, FS_Interval
<1>5. f \in Surjection(1 .. n, S)
  BY <1>3, <1>4, FS_Injection DEF Injection
<1>6. f \in Seq(S) /\ Len(f) = n
  BY <1>1, <1>3
<1> QED BY <1>1, <1>3, <1>5, <1>6 DEF f, IsInjective, Surjection

-----------------------------------------------------------------------------
(* A fold from the left takes the lines one at a time.                     *)

\* what replay_aof does with one line
ReplayLine(d, line, t) == IF ReadsBack(line) THEN ReplayCommand(d, line.cmd, t) ELSE d

\* the equation that FoldLeft solves to fold the lines at the indices of any
\* set of indices
FoldsTo(it, lines, S, t) ==
  it = [s \in SUBSET S |->
         IF s = {} THEN EmptyDb ELSE ReplayLine(it[s \ {Max(s)}], lines[Max(s)], t)]

LEMMA ReplayIsFold ==
  ASSUME NEW lines, NEW t
  PROVE  Replay(lines, t) = (CHOOSE it : FoldsTo(it, lines, DOMAIN lines, t))[DOMAIN lines]
BY Zenon DEF Replay, FoldLeft, MapThenFoldSet, FoldsTo, ReplayLine

LEMMA MaxOf ==
  ASSUME NEW n \in Nat, NEW s \in SUBSET (1 .. n + 1), n + 1 \in s
  PROVE  Max(s) = n + 1
<1>1. \A y \in s : n + 1 >= y
  OBVIOUS
<1>2. \A x \in s : (\A y \in s : x >= y) => x = n + 1
  OBVIOUS
<1> QED BY <1>1, <1>2 DEF Max

LEMMA MaxIn ==
  ASSUME NEW n \in Nat, NEW s \in SUBSET (1 .. n), s # {}
  PROVE  Max(s) \in s
<1> DEFINE T == {n - x : x \in s}
<1>1. T \in SUBSET Nat /\ T # {}
  <2>1. \A x \in s : n - x \in Nat
    OBVIOUS
  <2>2. PICK x \in s : TRUE
    OBVIOUS
  <2>3. n - x \in T
    OBVIOUS
  <2> QED BY <2>1, <2>3
<1>2. PICK m \in T : \A k \in T : m <= k
  BY <1>1, LeastNumber
<1>3. PICK x \in s : m = n - x
  BY <1>2
<1>4. ASSUME NEW y \in s PROVE x >= y
  <2>1. n - y \in T
    OBVIOUS
  <2>2. n - x <= n - y
    BY <1>2, <1>3, <2>1
  <2>3. x \in Int /\ y \in Int
    OBVIOUS
  <2> QED BY <2>2, <2>3
<1> QED BY <1>3, <1>4 DEF Max

\* the equation has a solution
LEMMA FoldExists ==
  ASSUME NEW lines, NEW t, NEW n \in Nat
  PROVE  \E it : FoldsTo(it, lines, 1 .. n, t)
<1> DEFINE N == {m \in Nat : \E it : FoldsTo(it, lines, 1 .. m, t)}
<1>1. 0 \in N
  <2> DEFINE it == [s \in SUBSET (1 .. 0) |-> EmptyDb]
  <2>1. \A s \in SUBSET (1 .. 0) : s = {}
    OBVIOUS
  <2>2. FoldsTo(it, lines, 1 .. 0, t)
    BY <2>1 DEF FoldsTo
  <2> QED BY <2>2
<1>2. ASSUME NEW m \in Nat, m \in N PROVE m + 1 \in N
  <2>1. PICK it : FoldsTo(it, lines, 1 .. m, t)
    BY <1>2
  <2> DEFINE up == [s \in SUBSET (1 .. m + 1) |->
                     IF m + 1 \in s THEN ReplayLine(it[s \ {m + 1}], lines[m + 1], t)
                                    ELSE it[s]]
  <2>2. ASSUME NEW s \in SUBSET (1 .. m + 1)
        PROVE  up[s] = IF s = {} THEN EmptyDb
                       ELSE ReplayLine(up[s \ {Max(s)}], lines[Max(s)], t)
    <3>1. CASE m + 1 \in s
      <4>1. Max(s) = m + 1
        BY <3>1, MaxOf
      <4>2. up[s \ {m + 1}] = it[s \ {m + 1}]
        OBVIOUS
      <4> QED BY <3>1, <4>1, <4>2
    <3>2. CASE m + 1 \notin s
      <4>1. s \in SUBSET (1 .. m)
        BY <3>2
      <4>2. up[s] = it[s] /\ up[s \ {Max(s)}] = it[s \ {Max(s)}]
        BY <3>2
      <4>3. it[s] = IF s = {} THEN EmptyDb
                    ELSE ReplayLine(it[s \ {Max(s)}], lines[Max(s)], t)
        BY <2>1, <4>1 DEF FoldsTo
      <4> QED BY <4>2, <4>3
    <3> QED BY <3>1, <3>2
  <2>3. FoldsTo(up, lines, 1 .. m + 1, t)
    BY <2>2 DEF FoldsTo
  <2> QED BY <2>3
<1>3. Nat \subseteq N
  <2> HIDE DEF N
  <2> QED BY <1>1, <1>2, NumbersByInduction
<1> QED BY <1>3

\* what it says of the first n + 1 indices
LEMMA FoldStep ==
  ASSUME NEW lines, NEW t, NEW S, NEW it, FoldsTo(it, lines, S, t),
         NEW n \in Nat, 1 .. n + 1 \in SUBSET S
  PROVE  it[1 .. n + 1] = ReplayLine(it[1 .. n], lines[n + 1], t)
<1> DEFINE s == 1 .. n + 1
<1>1. s # {} /\ s \ {n + 1} = 1 .. n /\ s \in SUBSET (1 .. n + 1) /\ n + 1 \in s
  OBVIOUS
<1>2. s \in SUBSET S
  OBVIOUS
<1> HIDE DEF s
<1>3. Max(s) = n + 1
  BY <1>1, MaxOf
<1>4. it[s] = IF s = {} THEN EmptyDb ELSE ReplayLine(it[s \ {Max(s)}], lines[Max(s)], t)
  BY <1>2 DEF FoldsTo
<1> QED BY <1>1, <1>3, <1>4 DEF s

\* of a solution only its values at the first n indices matter
FoldsAlong(it, lines, n, t) ==
  /\ it[1 .. 0] = EmptyDb
  /\ \A m \in Nat : m < n => it[1 .. m + 1] = ReplayLine(it[1 .. m], lines[m + 1], t)

LEMMA FoldAlong ==
  ASSUME NEW lines, NEW t, NEW n \in Nat, NEW it, FoldsTo(it, lines, 1 .. n, t)
  PROVE  FoldsAlong(it, lines, n, t)
<1>1. it[1 .. 0] = EmptyDb
  BY DEF FoldsTo
<1>2. ASSUME NEW m \in Nat, m < n
      PROVE  it[1 .. m + 1] = ReplayLine(it[1 .. m], lines[m + 1], t)
  <2>1. 1 .. m + 1 \in SUBSET (1 .. n)
    BY <1>2
  <2> QED BY <2>1, FoldStep
<1> QED BY <1>1, <1>2 DEF FoldsAlong

\* an empty log makes an empty database
LEMMA ReplayNothing ==
  ASSUME NEW t
  PROVE  Replay(<<>>, t) = EmptyDb
<1>1. DOMAIN <<>> = 1 .. 0 /\ 1 .. 0 = {}
  OBVIOUS
<1> DEFINE it == CHOOSE it : FoldsTo(it, <<>>, DOMAIN <<>>, t)
<1>2. FoldsTo(it, <<>>, 1 .. 0, t)
  <2>1. \E f : FoldsTo(f, <<>>, 1 .. 0, t)
    BY FoldExists
  <2> QED BY <1>1, <2>1
<1>3. it[1 .. 0] = EmptyDb
  <2> HIDE DEF it
  <2> QED BY <1>2 DEF FoldsTo
<1>4. Replay(<<>>, t) = it[DOMAIN <<>>]
  BY ReplayIsFold
<1> QED BY <1>1, <1>3, <1>4

\* one more line at the end of the log is one more line to replay
LEMMA ReplayOneMore ==
  ASSUME NEW S, NEW lines \in Seq(S), NEW line \in S, NEW t
  PROVE  Replay(Append(lines, line), t) = ReplayLine(Replay(lines, t), line, t)
<1> DEFINE more == Append(lines, line)
           n == Len(lines)
           f == CHOOSE it : FoldsTo(it, lines, DOMAIN lines, t)
           g == CHOOSE it : FoldsTo(it, more, DOMAIN more, t)
<1>1. /\ n \in Nat /\ DOMAIN lines = 1 .. n /\ DOMAIN more = 1 .. n + 1
      /\ more[n + 1] = line /\ \A i \in 1 .. n : lines[i] = more[i]
  OBVIOUS
<1> HIDE DEF n, more
<1>2. FoldsTo(f, lines, 1 .. n, t)
  <2>1. \E it : FoldsTo(it, lines, 1 .. n, t)
    BY <1>1, FoldExists
  <2> QED BY <1>1, <2>1
<1>3. FoldsTo(g, more, 1 .. n + 1, t)
  <2>1. n + 1 \in Nat
    BY <1>1
  <2>2. \E it : FoldsTo(it, more, 1 .. n + 1, t)
    BY <2>1, FoldExists
  <2> QED BY <1>1, <2>2
<1>4. Replay(lines, t) = f[1 .. n] /\ Replay(more, t) = g[1 .. n + 1]
  BY <1>1, ReplayIsFold
<1> HIDE DEF f, g
<1>5. FoldsAlong(f, lines, n, t)
  BY <1>1, <1>2, FoldAlong
<1>6. FoldsAlong(g, more, n + 1, t)
  <2>1. n + 1 \in Nat
    BY <1>1
  <2> QED BY <1>3, <2>1, FoldAlong
<1>7. f[1 .. n] = g[1 .. n]
  <2> DEFINE N == {m \in Nat : m <= n => f[1 .. m] = g[1 .. m]}
  <2>1. 0 \in N
    BY <1>5, <1>6 DEF FoldsAlong
  <2>2. ASSUME NEW m \in Nat, m \in N PROVE m + 1 \in N
    <3>1. SUFFICES ASSUME m + 1 <= n PROVE f[1 .. m + 1] = g[1 .. m + 1]
      OBVIOUS
    <3>2. f[1 .. m] = g[1 .. m]
      BY <2>2, <3>1, <1>1
    <3> HIDE DEF N
    <3>3. m < n /\ m < n + 1 /\ m + 1 \in 1 .. n
      BY <1>1, <3>1
    <3>4. f[1 .. m + 1] = ReplayLine(f[1 .. m], lines[m + 1], t)
      BY <1>5, <3>3 DEF FoldsAlong
    <3>5. g[1 .. m + 1] = ReplayLine(g[1 .. m], more[m + 1], t)
      BY <1>6, <3>3 DEF FoldsAlong
    <3> QED BY <1>1, <3>2, <3>3, <3>4, <3>5
  <2>3. Nat \subseteq N
    <3> HIDE DEF N
    <3> QED BY <2>1, <2>2, NumbersByInduction
  <2> QED BY <1>1, <2>3
<1>8. g[1 .. n + 1] = ReplayLine(g[1 .. n], line, t)
  <2>1. n < n + 1
    BY <1>1
  <2> QED BY <1>1, <1>6, <2>1 DEF FoldsAlong
<1> QED BY <1>4, <1>7, <1>8 DEF more

-----------------------------------------------------------------------------
(* Databases stay well formed.                                             *)

Kinds == {"str", "list", "hash", "set"}

LEMMA EntryFields ==
  ASSUME NEW e \in Entry
  PROVE  /\ \E kind \in Kinds : DOMAIN e = {kind, "exp"}
         /\ e.exp \in Time
         /\ "str" \in DOMAIN e => e.str \in Val
         /\ "list" \in DOMAIN e => e.list \in Seq(Val)
         /\ "hash" \in DOMAIN e => \E F \in SUBSET Words : e.hash \in [F -> Val]
         /\ "set" \in DOMAIN e => e.set \in SUBSET Val
<1>1. CASE e \in [str : Val, exp : Time]
  BY <1>1 DEF Kinds
<1>2. CASE e \in [list : Seq(Val), exp : Time]
  BY <1>2 DEF Kinds
<1>3. CASE e \in [hash : UNION {[F -> Val] : F \in SUBSET Words}, exp : Time]
  BY <1>3 DEF Kinds
<1>4. CASE e \in [set : SUBSET Val, exp : Time]
  BY <1>4 DEF Kinds
<1> QED BY <1>1, <1>2, <1>3, <1>4 DEF Entry

LEMMA Entries ==
  ASSUME NEW t \in Time
  PROVE  /\ \A v \in Val : String(v, t) \in Entry
         /\ \A l \in Seq(Val) : [list |-> l, exp |-> t] \in Entry
         /\ \A F \in SUBSET Words : \A h \in [F -> Val] : [hash |-> h, exp |-> t] \in Entry
         /\ \A m \in SUBSET Val : [set |-> m, exp |-> t] \in Entry
BY DEF Entry, String

LEMMA PutType ==
  ASSUME NEW d, IsDatabase(d), NEW k \in Keys, NEW e \in Entry
  PROVE  IsDatabase(Put(d, k, e))
BY DEF IsDatabase, Put

LEMMA WithoutType ==
  ASSUME NEW d, IsDatabase(d), NEW ks
  PROVE  IsDatabase(Without(d, ks))
BY DEF IsDatabase, Without

LEMMA EmptyType == IsDatabase(EmptyDb)
BY DEF IsDatabase, EmptyDb

LEMMA EntryAt ==
  ASSUME NEW d, IsDatabase(d), NEW k \in DOMAIN d
  PROVE  d[k] \in Entry
BY DEF IsDatabase

LEMMA ExpiryType ==
  ASSUME NEW d, IsDatabase(d), NEW k
  PROVE  Expiry(d, k) \in Time
BY EntryAt, EntryFields DEF Expiry, Time

LEMMA PutListType ==
  ASSUME NEW d, IsDatabase(d), NEW k \in Keys, NEW l \in Seq(Val)
  PROVE  IsDatabase(PutList(d, k, l))
BY ExpiryType, Entries, PutType DEF PutList

LEMMA ListAtType ==
  ASSUME NEW d, IsDatabase(d), NEW k, Accepts(d, k, "list")
  PROVE  ListAt(d, k) \in Seq(Val)
BY EntryAt, EntryFields DEF ListAt, Accepts

LEMMA ListType ==
  ASSUME NEW d, IsDatabase(d), NEW k, Holds(d, k, "list")
  PROVE  d[k].list \in Seq(Val)
BY EntryAt, EntryFields DEF Holds

LEMMA PushType ==
  ASSUME NEW d, IsDatabase(d), NEW k \in Keys, Accepts(d, k, "list"), NEW v \in Val
  PROVE  IsDatabase(PushFront(d, k, v)) /\ IsDatabase(PushBack(d, k, v))
<1>1. ListAt(d, k) \in Seq(Val)
  BY ListAtType
<1>2. <<v>> \o ListAt(d, k) \in Seq(Val) /\ Append(ListAt(d, k), v) \in Seq(Val)
  BY <1>1
<1> QED BY <1>2, PutListType DEF PushFront, PushBack

LEMMA PopType ==
  ASSUME NEW d, IsDatabase(d), NEW k \in Keys, HasItem(d, k)
  PROVE  /\ IsDatabase(PopFront(d, k)) /\ IsDatabase(PopBack(d, k))
         /\ Last(d[k].list) \in Val
<1>1. d[k].list \in Seq(Val) /\ d[k].list # <<>>
  BY ListType DEF HasItem
<1>2. Tail(d[k].list) \in Seq(Val)
  BY <1>1
<1>3. Front(d[k].list) \in Seq(Val) /\ Last(d[k].list) \in Val
  BY <1>1, LastAppended
<1> QED BY <1>2, <1>3, PutListType DEF PopFront, PopBack

\* removing the first of the elements that are v
LEMMA RemoveFirstType ==
  ASSUME NEW S, NEW s \in Seq(S), NEW v, Contains(s, v)
  PROVE  RemoveFirst(s, v) \in Seq(S)
<1> DEFINE I == {i \in 1 .. Len(s) : s[i] = v}
           m == Min(I)
<1>1. I \in SUBSET Nat /\ I # {}
  BY DEF Contains
<1>2. PICK x \in I : \A y \in I : x <= y
  BY <1>1, LeastNumber
<1>3. m \in I
  <2> HIDE DEF I
  <2> QED BY <1>2 DEF Min
<1>4. m \in 1 .. Len(s)
  BY <1>3
<1>5. RemoveFirst(s, v) = SubSeq(s, 1, m - 1) \o SubSeq(s, m + 1, Len(s))
  BY <1>1, Zenon DEF RemoveFirst, RemoveAt, SelectInSeq, Contains
<1> HIDE DEF m
<1>6. SubSeq(s, 1, m - 1) \in Seq(S)
  BY <1>4
<1>7. SubSeq(s, m + 1, Len(s)) \in Seq(S)
  BY <1>4
<1> QED BY <1>5, <1>6, <1>7

LEMMA DropFirstType ==
  ASSUME NEW d, IsDatabase(d), NEW k \in Keys, Holds(d, k, "list"),
         NEW v, Contains(d[k].list, v)
  PROVE  IsDatabase(DropFirst(d, k, v))
BY ListType, RemoveFirstType, PutListType DEF DropFirst

LEMMA MoveType ==
  ASSUME NEW d, IsDatabase(d), NEW k \in Keys, NEW j \in Keys, HasItem(d, k)
  PROVE  IsDatabase(MoveItem(d, k, j))
<1>1. IsDatabase(PopBack(d, k)) /\ Last(d[k].list) \in Val
  BY PopType
<1> QED BY <1>1, PushType DEF MoveItem

LEMMA PutFieldType ==
  ASSUME NEW d, IsDatabase(d), NEW k \in Keys, Accepts(d, k, "hash"),
         NEW f \in Words, NEW v \in Val
  PROVE  IsDatabase(PutField(d, k, f, v))
<1> DEFINE h == FieldsAt(d, k)
           g == [x \in DOMAIN h \cup {f} |-> IF x = f THEN v ELSE h[x]]
<1>1. \E F \in SUBSET Words : h \in [F -> Val]
  <2>1. CASE k \in DOMAIN d
    BY <2>1, EntryAt, EntryFields DEF FieldsAt, Accepts
  <2>2. CASE k \notin DOMAIN d
    <3>1. h \in [{} -> Val]
      BY <2>2 DEF FieldsAt
    <3> QED BY <3>1
  <2> QED BY <2>1, <2>2
<1>2. \E F \in SUBSET Words : g \in [F -> Val]
  <2>1. PICK F \in SUBSET Words : h \in [F -> Val]
    BY <1>1
  <2>2. g \in [F \cup {f} -> Val] /\ F \cup {f} \in SUBSET Words
    BY <2>1
  <2> QED BY <2>2
<1>3. [hash |-> g, exp |-> Expiry(d, k)] \in Entry
  BY <1>2, ExpiryType, Entries
<1> QED BY <1>3, PutType DEF PutField

LEMMA PutMemberType ==
  ASSUME NEW d, IsDatabase(d), NEW k \in Keys, Accepts(d, k, "set"), NEW v \in Val
  PROVE  IsDatabase(PutMember(d, k, v))
<1>1. MembersAt(d, k) \in SUBSET Val
  BY EntryAt, EntryFields DEF MembersAt, Accepts
<1>2. [set |-> MembersAt(d, k) \cup {v}, exp |-> Expiry(d, k)] \in Entry
  BY <1>1, ExpiryType, Entries
<1> QED BY <1>2, PutType DEF PutMember

LEMMA SuccessorType ==
  ASSUME NEW n \in MinInt .. MaxInt
  PROVE  Successor(n) \in Val
BY KeyspaceAssumption DEF Successor, MinInt, Val

LEMMA LaterType ==
  ASSUME NEW t \in Nat, NEW n \in Int, n >= 0
  PROVE  t + n * TicksPerSec \in Time
<1>1. n * TicksPerSec \in Nat
  BY KeyspaceAssumption
<1> QED BY <1>1 DEF Time

LEMMA CommandFields ==
  ASSUME NEW q \in Command
  PROVE  /\ q.key \in Keys
         /\ q.op \in {"SET", "LPUSH", "RPUSH", "LREM", "SADD", "SETEX", "HSET"} => q.val \in Val
         /\ q.op = "SETEX" => q.secs \in Int
         /\ q.op = "LTRIM" => q.start \in Int /\ q.stop \in Int
         /\ q.op = "HSET" => q.field \in Words
         /\ q.op = "RPOPLPUSH" => q.dst \in Keys
BY DEF Command

LEMMA KeptType ==
  ASSUME NEW S, NEW l \in Seq(S), NEW s \in Int, NEW e \in Int
  PROVE  Kept(l, s, e) \in Seq(S)
<1> DEFINE a == AtLeast(0, s) + 1
           b == AtMost(e, Len(l) - 1) + 1
<1>1. a \in Nat \ {0} /\ b \in Int /\ b <= Len(l)
  BY DEF AtLeast, AtMost
<1> HIDE DEF a, b
<1>2. SubSeq(l, a, b) \in Seq(S)
  BY <1>1
<1> QED BY <1>2 DEF Kept, a, b

\* which arm runs
LEMMA Dispatch ==
  ASSUME NEW d, NEW q, NEW t
  PROVE  /\ q.op = "SET"   => Exec(d, q, t) = DoSet(d, q)
         /\ q.op = "SETEX" => Exec(d, q, t) = DoSetEx(d, q, t)
         /\ q.op = "GET"   => Exec(d, q, t) = DoGet(d, q, t)
         /\ q.op = "DEL"   => Exec(d, q, t) = DoDel(d, q)
         /\ q.op = "INCR"  => Exec(d, q, t) = DoIncr(d, q)
         /\ q.op \in {"LPUSH", "RPUSH"} => Exec(d, q, t) = DoPush(d, q)
         /\ q.op \in {"LPOP", "RPOP"}   => Exec(d, q, t) = DoPop(d, q)
         /\ q.op = "LREM"  => Exec(d, q, t) = DoLRem(d, q)
         /\ q.op = "LTRIM" => Exec(d, q, t) = DoLTrim(d, q)
         /\ q.op = "HSET"  => Exec(d, q, t) = DoHSet(d, q)
         /\ q.op = "SADD"  => Exec(d, q, t) = DoSAdd(d, q)
         /\ q.op = "RPOPLPUSH" => Exec(d, q, t) = DoRPopLPush(d, q)
BY DEF Exec

\* the commands that are found in a log: SETEX has refused a negative time
Loggable(q) == q \in Command /\ (q.op = "SETEX" => q.secs >= 0)

(***************************************************************************)
(* And whatever line is replayed.                                          *)
(***************************************************************************)
LEMMA ReplayCommandType ==
  ASSUME NEW d, IsDatabase(d), NEW q, Loggable(q), NEW t \in Nat
  PROVE  IsDatabase(ReplayCommand(d, q, t))
<1>q. q \in Command
  BY DEF Loggable
<1> USE <1>q, CommandFields
<1>t. Forever \in Time
  BY DEF Time
<1> DEFINE k == q.key
           r == ReplayCommand(d, q, t)
<1>1. CASE q.op = "SET"
  <2>1. r = Put(d, k, String(q.val, Forever))
    BY <1>1 DEF ReplayCommand
  <2> QED BY <1>1, <1>t, <2>1, Entries, PutType
<1>2. CASE q.op = "SETEX"
  <2>1. r = Put(d, k, String(q.val, t + q.secs * TicksPerSec))
    BY <1>2 DEF ReplayCommand, Deadline
  <2>2. t + q.secs * TicksPerSec \in Time
    BY <1>2, LaterType DEF Loggable
  <2> QED BY <1>2, <2>1, <2>2, Entries, PutType
<1>3. CASE q.op = "DEL"
  BY <1>3, WithoutType DEF ReplayCommand
<1>4. CASE q.op = "INCR"
  <2> DEFINE n == Successor(IF IsNumber(d, k) THEN d[k].str ELSE 0)
  <2>1. r = Put(d, k, String(n, Forever))
    BY <1>4 DEF ReplayCommand
  <2>2. 0 \in MinInt .. MaxInt
    BY KeyspaceAssumption DEF MinInt
  <2>3. n \in Val
    BY <2>2, SuccessorType DEF IsNumber
  <2> QED BY <1>t, <2>1, <2>3, Entries, PutType
<1>5. CASE q.op \in {"LPUSH", "RPUSH"}
  <2>1. \/ r = d
        \/ Accepts(d, k, "list") /\ r \in {PushFront(d, k, q.val), PushBack(d, k, q.val)}
    BY <1>5 DEF ReplayCommand
  <2> QED BY <1>5, <2>1, PushType
<1>6. CASE q.op \in {"LPOP", "RPOP"}
  <2>1. \/ r = d
        \/ HasItem(d, k) /\ r \in {PopFront(d, k), PopBack(d, k)}
    BY <1>6 DEF ReplayCommand
  <2> QED BY <2>1, PopType
<1>7. CASE q.op = "HSET"
  <2>1. \/ r = d
        \/ Accepts(d, k, "hash") /\ r = PutField(d, k, q.field, q.val)
    BY <1>7 DEF ReplayCommand
  <2> QED BY <1>7, <2>1, PutFieldType
<1>8. CASE q.op = "SADD"
  <2>1. \/ r = d
        \/ Accepts(d, k, "set") /\ r = PutMember(d, k, q.val)
    BY <1>8 DEF ReplayCommand
  <2> QED BY <1>8, <2>1, PutMemberType
<1>9. CASE q.op = "LREM"
  <2>1. \/ r = d
        \/ /\ Holds(d, k, "list") /\ Contains(d[k].list, q.val)
           /\ r = DropFirst(d, k, q.val)
    BY <1>9 DEF ReplayCommand
  <2> QED BY <2>1, DropFirstType
<1>10. CASE q.op = "RPOPLPUSH"
  <2>1. \/ r = d
        \/ HasItem(d, k) /\ r = MoveItem(d, k, q.dst)
    BY <1>10 DEF ReplayCommand
  <2> QED BY <1>10, <2>1, MoveType
<1>11. CASE q.op \in {"GET", "LTRIM"}
  BY <1>11 DEF ReplayCommand
<1> QED BY <1>1, <1>2, <1>3, <1>4, <1>5, <1>6, <1>7, <1>8, <1>9, <1>10, <1>11 DEF Command

-----------------------------------------------------------------------------
(* What handlers send to the log.                                          *)

\* a handler sends nothing and changes nothing, unless it is an LTRIM that
\* never ends, or it sends the one line it has
Untold(d, q, o) ==
  o.line = NoLine /\ (q.op # "LTRIM" \/ o.reply # Hang => o.db = d)

LEMMA Outcomes ==
  ASSUME NEW d, NEW q \in Command, NEW t \in Nat
  PROVE  \/ Untold(d, q, Exec(d, q, t))
         \/ /\ Exec(d, q, t).line = Sent(q)
            /\ q.op = "SETEX" => q.secs >= 0
<1>1. CASE q.op = "SET"
  <2>1. Exec(d, q, t) = DoSet(d, q)
    BY <1>1, Dispatch
  <2>2. Untold(d, q, DoSet(d, q)) \/ DoSet(d, q).line = Line(q, FALSE)
    BY DEF DoSet, Untold, Answer, Change
  <2>3. Sent(q) = Line(q, FALSE)
    BY <1>1 DEF Sent
  <2> QED BY <1>1, <2>1, <2>2, <2>3
<1>2. CASE q.op = "SETEX"
  <2>1. Exec(d, q, t) = DoSetEx(d, q, t) /\ q.secs \in Int
    BY <1>2, Dispatch, CommandFields
  <2>2. \/ Untold(d, q, DoSetEx(d, q, t))
        \/ /\ DoSetEx(d, q, t).line = Line(q, FALSE)
           /\ q.secs >= 0
    <3>1. CASE ~InTime(q, t)
      BY <3>1 DEF DoSetEx, Untold, Answer, Change
    <3>2. CASE InTime(q, t)
      BY <2>1, <3>2 DEF DoSetEx, Change, InTime
    <3> QED BY <3>1, <3>2
  <2>3. Sent(q) = Line(q, FALSE)
    BY <1>2 DEF Sent
  <2> QED BY <1>2, <2>1, <2>2, <2>3
<1>3. CASE q.op = "GET"
  <2>1. Exec(d, q, t) = DoGet(d, q, t)
    BY <1>3, Dispatch
  <2>2. Untold(d, q, DoGet(d, q, t)) \/ DoGet(d, q, t).line = Line(Del(q.key), FALSE)
    BY DEF DoGet, Untold, Answer, Change, Expired
  <2>3. Sent(q) = Line(Del(q.key), FALSE)
    BY <1>3 DEF Sent
  <2> QED BY <1>3, <2>1, <2>2, <2>3
<1>4. CASE q.op = "DEL"
  <2>1. Exec(d, q, t) = DoDel(d, q)
    BY <1>4, Dispatch
  <2>2. Untold(d, q, DoDel(d, q)) \/ DoDel(d, q).line = Line(q, FALSE)
    BY DEF DoDel, Untold, Answer, Change
  <2>3. Sent(q) = Line(q, FALSE)
    BY <1>4 DEF Sent
  <2> QED BY <1>4, <2>1, <2>2, <2>3
<1>5. CASE q.op = "INCR"
  <2>1. Exec(d, q, t) = DoIncr(d, q)
    BY <1>5, Dispatch
  <2>2. Untold(d, q, DoIncr(d, q)) \/ DoIncr(d, q).line = Line(q, FALSE)
    BY DEF DoIncr, Untold, Answer, Change
  <2>3. Sent(q) = Line(q, FALSE)
    BY <1>5 DEF Sent
  <2> QED BY <1>5, <2>1, <2>2, <2>3
<1>6. CASE q.op \in {"LPUSH", "RPUSH"}
  <2>1. Exec(d, q, t) = DoPush(d, q)
    BY <1>6, Dispatch
  <2>2. Untold(d, q, DoPush(d, q)) \/ DoPush(d, q).line = Line(q, TRUE)
    BY DEF DoPush, Untold, Answer, Change
  <2>3. Sent(q) = Line(q, TRUE)
    BY <1>6 DEF Sent
  <2> QED BY <1>6, <2>1, <2>2, <2>3
<1>7. CASE q.op \in {"LPOP", "RPOP"}
  <2>1. Exec(d, q, t) = DoPop(d, q)
    BY <1>7, Dispatch
  <2>2. Untold(d, q, DoPop(d, q)) \/ DoPop(d, q).line = Line(q, FALSE)
    BY DEF DoPop, Untold, Answer, Change
  <2>3. Sent(q) = Line(q, FALSE)
    BY <1>7 DEF Sent
  <2> QED BY <1>7, <2>1, <2>2, <2>3
<1>8. CASE q.op = "LREM"
  <2>1. Exec(d, q, t) = DoLRem(d, q)
    BY <1>8, Dispatch
  <2>2. Untold(d, q, DoLRem(d, q)) \/ DoLRem(d, q).line = Line(q, TRUE)
    BY DEF DoLRem, Untold, Answer, Change
  <2>3. Sent(q) = Line(q, TRUE)
    BY <1>8 DEF Sent
  <2> QED BY <1>8, <2>1, <2>2, <2>3
<1>9. CASE q.op = "LTRIM"
  <2>1. Exec(d, q, t) = DoLTrim(d, q)
    BY <1>9, Dispatch
  <2>2. Untold(d, q, DoLTrim(d, q)) \/ DoLTrim(d, q).line = Line(q, FALSE)
    <3>1. CASE ~Holds(d, q.key, "list")
      BY <3>1 DEF DoLTrim, Untold, Answer, Change, Holds, Accepts
    <3>2. CASE Holds(d, q.key, "list")
      BY <1>9, <3>2 DEF DoLTrim, Untold, Answer, Change, Holds, Accepts
    <3> QED BY <3>1, <3>2
  <2>3. Sent(q) = Line(q, FALSE)
    BY <1>9 DEF Sent
  <2> QED BY <1>9, <2>1, <2>2, <2>3
<1>10. CASE q.op = "HSET"
  <2>1. Exec(d, q, t) = DoHSet(d, q)
    BY <1>10, Dispatch
  <2>2. Untold(d, q, DoHSet(d, q)) \/ DoHSet(d, q).line = Line(q, TRUE)
    BY DEF DoHSet, Untold, Answer, Change
  <2>3. Sent(q) = Line(q, TRUE)
    BY <1>10 DEF Sent
  <2> QED BY <1>10, <2>1, <2>2, <2>3
<1>11. CASE q.op = "SADD"
  <2>1. Exec(d, q, t) = DoSAdd(d, q)
    BY <1>11, Dispatch
  <2>2. Untold(d, q, DoSAdd(d, q)) \/ DoSAdd(d, q).line = Line(q, FALSE)
    BY DEF DoSAdd, Untold, Answer, Change
  <2>3. Sent(q) = Line(q, FALSE)
    BY <1>11 DEF Sent
  <2> QED BY <1>11, <2>1, <2>2, <2>3
<1>12. CASE q.op = "RPOPLPUSH"
  <2>1. Exec(d, q, t) = DoRPopLPush(d, q)
    BY <1>12, Dispatch
  <2>2. Untold(d, q, DoRPopLPush(d, q)) \/ DoRPopLPush(d, q).line = Line(q, FALSE)
    BY DEF DoRPopLPush, Untold, Answer, Change
  <2>3. Sent(q) = Line(q, FALSE)
    BY <1>12 DEF Sent
  <2> QED BY <1>12, <2>1, <2>2, <2>3
<1> QED BY <1>1, <1>2, <1>3, <1>4, <1>5, <1>6, <1>7, <1>8, <1>9, <1>10, <1>11, <1>12
        DEF Command

LEMMA OnlyTrimHangs ==
  ASSUME NEW d, NEW q \in Command, q.op # "LTRIM", NEW t
  PROVE  Exec(d, q, t).reply # Hang
<1> USE DEF Hang, Ok, Null, WrongType, NotInt, Silent, Panic, Number, Bulk, Answer, Change
<1>1. CASE q.op = "SET"
  <2>1. DoSet(d, q).reply # Hang
    BY DEF DoSet
  <2> QED BY <1>1, <2>1, Dispatch
<1>2. CASE q.op = "SETEX"
  <2>1. DoSetEx(d, q, t).reply # Hang
    BY DEF DoSetEx
  <2> QED BY <1>2, <2>1, Dispatch
<1>3. CASE q.op = "GET"
  <2>1. DoGet(d, q, t).reply # Hang
    BY DEF DoGet
  <2> QED BY <1>3, <2>1, Dispatch
<1>4. CASE q.op = "DEL"
  <2>1. DoDel(d, q).reply # Hang
    BY DEF DoDel
  <2> QED BY <1>4, <2>1, Dispatch
<1>5. CASE q.op = "INCR"
  <2>1. DoIncr(d, q).reply # Hang
    BY DEF DoIncr
  <2> QED BY <1>5, <2>1, Dispatch
<1>6. CASE q.op \in {"LPUSH", "RPUSH"}
  <2>1. DoPush(d, q).reply # Hang
    BY DEF DoPush
  <2> QED BY <1>6, <2>1, Dispatch
<1>7. CASE q.op \in {"LPOP", "RPOP"}
  <2>1. DoPop(d, q).reply # Hang
    BY <1>7 DEF DoPop
  <2> QED BY <1>7, <2>1, Dispatch
<1>8. CASE q.op = "LREM"
  <2>1. DoLRem(d, q).reply # Hang
    BY DEF DoLRem
  <2> QED BY <1>8, <2>1, Dispatch
<1>9. CASE q.op = "HSET"
  <2>1. DoHSet(d, q).reply # Hang
    BY DEF DoHSet
  <2> QED BY <1>9, <2>1, Dispatch
<1>10. CASE q.op = "SADD"
  <2>1. DoSAdd(d, q).reply # Hang
    BY DEF DoSAdd
  <2> QED BY <1>10, <2>1, Dispatch
<1>11. CASE q.op = "RPOPLPUSH"
  <2>1. DoRPopLPush(d, q).reply # Hang
    BY DEF DoRPopLPush
  <2> QED BY <1>11, <2>1, Dispatch
<1> QED BY <1>1, <1>2, <1>3, <1>4, <1>5, <1>6, <1>7, <1>8, <1>9, <1>10, <1>11 DEF Command

LEMMA SentLine ==
  ASSUME NEW q \in Command, q.op = "SETEX" => q.secs >= 0
  PROVE  /\ Sent(q) \in LogLine /\ Sent(q) # NoLine /\ Loggable(Sent(q).cmd)
         /\ KeysOf(Sent(q).cmd) \subseteq KeysOf(q)
         /\ Sent(q).cmd.op = "LTRIM" <=> q.op = "LTRIM"
<1>1. \A x \in Command : Line(x, TRUE) \in LogLine /\ Line(x, FALSE) \in LogLine
  BY DEF LogLine, Line
<1>2. \A x, b : Line(x, b).cmd = x
  BY DEF Line
<1>3. CASE q.op = "GET"
  <2>1. q.key \in Keys
    BY CommandFields
  <2>2. Del(q.key) \in Command /\ Del(q.key).op = "DEL" /\ Del(q.key).key = q.key
    BY <2>1 DEF Command, Del
  <2>3. Sent(q) = Line(Del(q.key), FALSE)
    BY <1>3 DEF Sent
  <2> QED BY <1>1, <1>2, <1>3, <2>2, <2>3, NoLineAssumption DEF Loggable, KeysOf
<1>4. CASE q.op # "GET"
  <2>1. Sent(q) \in {Line(q, TRUE), Line(q, FALSE)}
    BY <1>4 DEF Sent
  <2> QED BY <1>1, <1>2, <1>4, <2>1, NoLineAssumption DEF Loggable
<1> QED BY <1>3, <1>4

-----------------------------------------------------------------------------
(* Two databases that differ only in the instants of expiry.               *)

Alike(e, f) ==
  /\ DOMAIN e = DOMAIN f
  /\ "str"  \in DOMAIN f => e.str = f.str
  /\ "list" \in DOMAIN f => e.list = f.list
  /\ "hash" \in DOMAIN f => e.hash = f.hash
  /\ "set"  \in DOMAIN f => e.set = f.set
  /\ e.exp = Forever <=> f.exp = Forever

Like(r, d, K) ==
  \A k \in K : /\ k \in DOMAIN r <=> k \in DOMAIN d
               /\ k \in DOMAIN d => Alike(r[k], d[k])

LEMMA SameEntries ==
  ASSUME NEW e \in Entry, NEW f \in Entry, Alike(e, f)
  PROVE  DataOf(e) = DataOf(f) /\ (e.exp = Forever <=> f.exp = Forever)
<1>1. \A x \in DOMAIN f \ {"exp"} : e[x] = f[x]
  BY EntryFields DEF Alike, Kinds
<1> QED BY <1>1 DEF DataOf, Alike

LEMMA SameDatabases ==
  ASSUME NEW r, IsDatabase(r), NEW d, IsDatabase(d), Like(r, d, Keys)
  PROVE  SameData(r, d) /\ SameLease(r, d)
<1>1. DOMAIN r = DOMAIN d
  BY DEF IsDatabase, Like
<1>2. ASSUME NEW k \in DOMAIN d
      PROVE  DataOf(r[k]) = DataOf(d[k]) /\ (r[k].exp = Forever <=> d[k].exp = Forever)
  <2>1. Alike(r[k], d[k])
    BY DEF IsDatabase, Like
  <2> QED BY <1>1, <2>1, EntryAt, SameEntries
<1> QED BY <1>1, <1>2 DEF SameData, SameLease

LEMMA LikeTests ==
  ASSUME NEW r, NEW d, NEW K, Like(r, d, K), NEW k \in K
  PROVE  /\ \A kind : Holds(r, k, kind) <=> Holds(d, k, kind)
         /\ \A kind : Accepts(r, k, kind) <=> Accepts(d, k, kind)
         /\ Holds(d, k, "list") => r[k].list = d[k].list
         /\ Accepts(d, k, "list") => ListAt(r, k) = ListAt(d, k)
         /\ Accepts(d, k, "hash") => FieldsAt(r, k) = FieldsAt(d, k)
         /\ Accepts(d, k, "set") => MembersAt(r, k) = MembersAt(d, k)
         /\ Expiry(r, k) = Forever <=> Expiry(d, k) = Forever
<1>1. CASE k \in DOMAIN d
  <2>1. k \in DOMAIN r /\ Alike(r[k], d[k])
    BY <1>1 DEF Like
  <2> QED BY <1>1, <2>1 DEF Alike, Holds, Accepts, ListAt, FieldsAt, MembersAt, Expiry
<1>2. CASE k \notin DOMAIN d
  <2>1. k \notin DOMAIN r
    BY <1>2 DEF Like
  <2> QED BY <1>2, <2>1 DEF Holds, Accepts, ListAt, FieldsAt, MembersAt, Expiry
<1> QED BY <1>1, <1>2

LEMMA LikeStrings ==
  ASSUME NEW r, NEW d, NEW K, Like(r, d, K), NEW k \in K
  PROVE  /\ k \in DOMAIN r <=> k \in DOMAIN d
         /\ Holds(d, k, "str") => r[k].str = d[k].str
         /\ IsNumber(r, k) <=> IsNumber(d, k)
BY DEF Like, Alike, Holds, IsNumber

LEMMA LikePut ==
  ASSUME NEW r, NEW d, NEW K, Like(r, d, K), NEW k, NEW e, NEW f, Alike(e, f)
  PROVE  Like(Put(r, k, e), Put(d, k, f), K)
<1>1. DOMAIN Put(r, k, e) = DOMAIN r \cup {k} /\ DOMAIN Put(d, k, f) = DOMAIN d \cup {k}
  BY DEF Put
<1>2. \A x \in DOMAIN r \cup {k} : Put(r, k, e)[x] = IF x = k THEN e ELSE r[x]
  BY DEF Put
<1>3. \A x \in DOMAIN d \cup {k} : Put(d, k, f)[x] = IF x = k THEN f ELSE d[x]
  BY DEF Put
<1> QED BY <1>1, <1>2, <1>3 DEF Like

LEMMA LikeWithout ==
  ASSUME NEW r, NEW d, NEW K, Like(r, d, K), NEW ks
  PROVE  Like(Without(r, ks), Without(d, ks), K)
BY DEF Like, Without

LEMMA AlikeEntries ==
  ASSUME NEW x, NEW y, x = Forever <=> y = Forever
  PROVE  /\ \A v : Alike(String(v, x), String(v, y))
         /\ \A l : Alike([list |-> l, exp |-> x], [list |-> l, exp |-> y])
         /\ \A h : Alike([hash |-> h, exp |-> x], [hash |-> h, exp |-> y])
         /\ \A m : Alike([set |-> m, exp |-> x], [set |-> m, exp |-> y])
BY DEF Alike, String

LEMMA LikePutList ==
  ASSUME NEW r, NEW d, NEW K, Like(r, d, K), NEW k \in K, NEW l
  PROVE  Like(PutList(r, k, l), PutList(d, k, l), K)
<1>1. Expiry(r, k) = Forever <=> Expiry(d, k) = Forever
  BY LikeTests
<1> QED BY <1>1, AlikeEntries, LikePut DEF PutList

LEMMA LikePush ==
  ASSUME NEW r, NEW d, NEW K, Like(r, d, K), NEW k \in K, Accepts(d, k, "list"), NEW v
  PROVE  /\ Like(PushFront(r, k, v), PushFront(d, k, v), K)
         /\ Like(PushBack(r, k, v), PushBack(d, k, v), K)
BY LikeTests, LikePutList DEF PushFront, PushBack

LEMMA LikePop ==
  ASSUME NEW r, NEW d, NEW K, Like(r, d, K), NEW k \in K, HasItem(d, k)
  PROVE  /\ HasItem(r, k) /\ r[k].list = d[k].list
         /\ Like(PopFront(r, k), PopFront(d, k), K)
         /\ Like(PopBack(r, k), PopBack(d, k), K)
BY LikeTests, LikePutList DEF PopFront, PopBack, HasItem

LEMMA LikeMove ==
  ASSUME NEW r, NEW d, NEW K, Like(r, d, K), NEW k \in K, NEW j \in K, HasItem(d, k)
  PROVE  Like(MoveItem(r, k, j), MoveItem(d, k, j), K)
<1> DEFINE item == Last(d[k].list)
           p == PopBack(r, k)
           b == PopBack(d, k)
<1>1. Like(p, b, K) /\ Last(r[k].list) = item
  BY LikePop
<1> HIDE DEF p, b
<1>2. Accepts(p, j, "list") <=> Accepts(b, j, "list")
  BY <1>1, LikeTests
<1>3. Accepts(b, j, "list") => Like(PushFront(p, j, item), PushFront(b, j, item), K)
  BY <1>1, LikePush
<1>4. MoveItem(r, k, j) = IF Accepts(p, j, "list") THEN PushFront(p, j, item) ELSE p
  BY <1>1 DEF MoveItem, p
<1>5. MoveItem(d, k, j) = IF Accepts(b, j, "list") THEN PushFront(b, j, item) ELSE b
  BY DEF MoveItem, b
<1> QED BY <1>1, <1>2, <1>3, <1>4, <1>5

LEMMA LikePutField ==
  ASSUME NEW r, NEW d, NEW K, Like(r, d, K), NEW k \in K, Accepts(d, k, "hash"),
         NEW f, NEW v
  PROVE  Like(PutField(r, k, f, v), PutField(d, k, f, v), K)
<1>1. FieldsAt(r, k) = FieldsAt(d, k) /\ (Expiry(r, k) = Forever <=> Expiry(d, k) = Forever)
  BY LikeTests
<1> DEFINE h == FieldsAt(d, k)
           g == [x \in DOMAIN h \cup {f} |-> IF x = f THEN v ELSE h[x]]
<1>2. /\ PutField(r, k, f, v) = Put(r, k, [hash |-> g, exp |-> Expiry(r, k)])
      /\ PutField(d, k, f, v) = Put(d, k, [hash |-> g, exp |-> Expiry(d, k)])
  BY <1>1 DEF PutField
<1> HIDE DEF g
<1>3. Alike([hash |-> g, exp |-> Expiry(r, k)], [hash |-> g, exp |-> Expiry(d, k)])
  BY <1>1, AlikeEntries
<1> QED BY <1>2, <1>3, LikePut

LEMMA LikePutMember ==
  ASSUME NEW r, NEW d, NEW K, Like(r, d, K), NEW k \in K, Accepts(d, k, "set"), NEW v
  PROVE  Like(PutMember(r, k, v), PutMember(d, k, v), K)
<1>1. MembersAt(r, k) = MembersAt(d, k) /\ (Expiry(r, k) = Forever <=> Expiry(d, k) = Forever)
  BY LikeTests
<1> DEFINE m == MembersAt(d, k) \cup {v}
<1>2. /\ PutMember(r, k, v) = Put(r, k, [set |-> m, exp |-> Expiry(r, k)])
      /\ PutMember(d, k, v) = Put(d, k, [set |-> m, exp |-> Expiry(d, k)])
  BY <1>1 DEF PutMember
<1> HIDE DEF m
<1>3. Alike([set |-> m, exp |-> Expiry(r, k)], [set |-> m, exp |-> Expiry(d, k)])
  BY <1>1, AlikeEntries
<1> QED BY <1>2, <1>3, LikePut

\* which arm of replay_aof runs
LEMMA ReplayDispatch ==
  ASSUME NEW r, NEW q, NEW t
  PROVE  /\ q.op = "SET" => ReplayCommand(r, q, t) = Put(r, q.key, String(q.val, Forever))
         /\ q.op = "SETEX" => ReplayCommand(r, q, t)
              = Put(r, q.key, String(q.val, t + q.secs * TicksPerSec))
         /\ q.op = "DEL" => ReplayCommand(r, q, t) = Without(r, {q.key})
         /\ q.op = "INCR" => ReplayCommand(r, q, t)
              = Put(r, q.key, String(Successor(IF IsNumber(r, q.key) THEN r[q.key].str
                                                                     ELSE 0), Forever))
         /\ q.op = "LPUSH" /\ Accepts(r, q.key, "list") =>
              ReplayCommand(r, q, t) = PushFront(r, q.key, q.val)
         /\ q.op = "RPUSH" /\ Accepts(r, q.key, "list") =>
              ReplayCommand(r, q, t) = PushBack(r, q.key, q.val)
         /\ q.op = "LPOP" /\ HasItem(r, q.key) => ReplayCommand(r, q, t) = PopFront(r, q.key)
         /\ q.op = "RPOP" /\ HasItem(r, q.key) => ReplayCommand(r, q, t) = PopBack(r, q.key)
         /\ q.op = "HSET" /\ Accepts(r, q.key, "hash") =>
              ReplayCommand(r, q, t) = PutField(r, q.key, q.field, q.val)
         /\ q.op = "SADD" /\ Accepts(r, q.key, "set") =>
              ReplayCommand(r, q, t) = PutMember(r, q.key, q.val)
         /\ q.op = "LREM" /\ Holds(r, q.key, "list") /\ Contains(r[q.key].list, q.val) =>
              ReplayCommand(r, q, t) = DropFirst(r, q.key, q.val)
         /\ q.op = "RPOPLPUSH" /\ HasItem(r, q.key) =>
              ReplayCommand(r, q, t) = MoveItem(r, q.key, q.dst)
BY DEF ReplayCommand, Deadline

\* what a handler that sends a line has done
Did(d, q, t, after) ==
  /\ q.op = "SET"   => after = Put(d, q.key, String(q.val, Forever))
  /\ q.op = "SETEX" => after = Put(d, q.key, String(q.val, t + q.secs * TicksPerSec))
  /\ q.op \in {"GET", "DEL"} => after = Without(d, {q.key})
  /\ q.op = "INCR"  =>
       /\ q.key \in DOMAIN d => IsNumber(d, q.key)
       /\ after = Put(d, q.key, String(Successor(IF q.key \in DOMAIN d THEN d[q.key].str
                                                                      ELSE 0), Forever))
  /\ q.op = "LPUSH" => Accepts(d, q.key, "list") /\ after = PushFront(d, q.key, q.val)
  /\ q.op = "RPUSH" => Accepts(d, q.key, "list") /\ after = PushBack(d, q.key, q.val)
  /\ q.op = "LPOP"  => HasItem(d, q.key) /\ after = PopFront(d, q.key)
  /\ q.op = "RPOP"  => HasItem(d, q.key) /\ after = PopBack(d, q.key)
  /\ q.op = "LREM"  => /\ Holds(d, q.key, "list") /\ Contains(d[q.key].list, q.val)
                       /\ after = DropFirst(d, q.key, q.val)
  /\ q.op = "HSET"  => Accepts(d, q.key, "hash") /\ after = PutField(d, q.key, q.field, q.val)
  /\ q.op = "SADD"  => Accepts(d, q.key, "set") /\ after = PutMember(d, q.key, q.val)
  /\ q.op = "RPOPLPUSH" => HasItem(d, q.key) /\ after = MoveItem(d, q.key, q.dst)
  /\ q.op = "LTRIM" => \/ after = Without(d, {q.key})
                       \/ /\ Holds(d, q.key, "list")
                          /\ \E l \in Seq(Val) : /\ after = PutList(d, q.key, l)
                                                /\ \A S : d[q.key].list \in Seq(S) => l \in Seq(S)

\* an LTRIM changes the store even when it hangs
LEMMA TrimDid ==
  ASSUME NEW d, IsDatabase(d), NEW q \in Command, q.op = "LTRIM", NEW t \in Nat
  PROVE  Exec(d, q, t).db = d \/ Did(d, q, t, Exec(d, q, t).db)
<1> DEFINE list == ListAt(d, q.key)
           e    == At(q.stop, Len(list))
           kept == Kept(list, At(q.start, Len(list)), e)
<1>1. Exec(d, q, t) = DoLTrim(d, q)
  BY Dispatch
<1>2. \/ DoLTrim(d, q).db \in {d, Without(d, {q.key})}
      \/ /\ Holds(d, q.key, "list")
         /\ DoLTrim(d, q).db \in {PutList(d, q.key, <<>>), PutList(d, q.key, kept)}
  <2>1. CASE ~Holds(d, q.key, "list")
    BY <2>1 DEF DoLTrim, Answer, Change, Holds, Accepts
  <2>2. CASE Holds(d, q.key, "list")
    BY <2>2 DEF DoLTrim, Answer, Change, Holds, Accepts
  <2> QED BY <2>1, <2>2
<1>3. ASSUME Holds(d, q.key, "list"), NEW S, d[q.key].list \in Seq(S)
      PROVE  <<>> \in Seq(S) /\ kept \in Seq(S)
  <2>1. list \in Seq(S)
    BY <1>3 DEF Holds, ListAt
  <2>2. kept \in Seq(S)
    BY <2>1, CommandFields, KeptType DEF At
  <2> QED BY <2>2
<1>4. Holds(d, q.key, "list") => d[q.key].list \in Seq(Val)
  BY ListType
<1> HIDE DEF kept
<1> QED BY <1>1, <1>2, <1>3, <1>4 DEF Did

LEMMA SenderDid ==
  ASSUME NEW d, NEW q \in Command, q.op # "LTRIM", NEW t \in Nat, Exec(d, q, t).line # NoLine
  PROVE  Did(d, q, t, Exec(d, q, t).db)
<1>1. CASE q.op = "SET"
  <2>1. Exec(d, q, t) = DoSet(d, q)
    BY <1>1, Dispatch
  <2>2. DoSet(d, q).db = Put(d, q.key, String(q.val, Forever))
    BY DEF DoSet, Change
  <2> QED BY <1>1, <2>1, <2>2 DEF Did
<1>2. CASE q.op = "SETEX"
  <2>1. Exec(d, q, t) = DoSetEx(d, q, t)
    BY <1>2, Dispatch
  <2>2. \/ DoSetEx(d, q, t).line = NoLine
        \/ DoSetEx(d, q, t).db = Put(d, q.key, String(q.val, t + q.secs * TicksPerSec))
    BY DEF DoSetEx, Answer, Change, Deadline
  <2> QED BY <1>2, <2>1, <2>2 DEF Did
<1>3. CASE q.op = "GET"
  <2>1. Exec(d, q, t) = DoGet(d, q, t)
    BY <1>3, Dispatch
  <2>2. DoGet(d, q, t).line = NoLine \/ DoGet(d, q, t).db = Without(d, {q.key})
    BY DEF DoGet, Answer, Change, Expired
  <2> QED BY <1>3, <2>1, <2>2 DEF Did
<1>4. CASE q.op = "DEL"
  <2>1. Exec(d, q, t) = DoDel(d, q)
    BY <1>4, Dispatch
  <2>2. DoDel(d, q).line = NoLine \/ DoDel(d, q).db = Without(d, {q.key})
    BY DEF DoDel, Answer, Change
  <2> QED BY <1>4, <2>1, <2>2 DEF Did
<1>5. CASE q.op = "INCR"
  <2> DEFINE n == Successor(IF q.key \in DOMAIN d THEN d[q.key].str ELSE 0)
  <2>1. Exec(d, q, t) = DoIncr(d, q)
    BY <1>5, Dispatch
  <2>2. \/ DoIncr(d, q).line = NoLine
        \/ /\ q.key \in DOMAIN d => IsNumber(d, q.key)
           /\ DoIncr(d, q).db = Put(d, q.key, String(n, Forever))
    BY DEF DoIncr, Answer, Change, Holds, Accepts, IsNumber
  <2> QED BY <1>5, <2>1, <2>2 DEF Did
<1>6. CASE q.op = "LPUSH"
  <2>1. Exec(d, q, t) = DoPush(d, q)
    BY <1>6, Dispatch
  <2>2. \/ DoPush(d, q).line = NoLine
        \/ Accepts(d, q.key, "list") /\ DoPush(d, q).db = PushFront(d, q.key, q.val)
    BY <1>6 DEF DoPush, Answer, Change
  <2> QED BY <1>6, <2>1, <2>2 DEF Did
<1>7. CASE q.op = "RPUSH"
  <2>1. Exec(d, q, t) = DoPush(d, q)
    BY <1>7, Dispatch
  <2>2. \/ DoPush(d, q).line = NoLine
        \/ Accepts(d, q.key, "list") /\ DoPush(d, q).db = PushBack(d, q.key, q.val)
    BY <1>7 DEF DoPush, Answer, Change
  <2> QED BY <1>7, <2>1, <2>2 DEF Did
<1>8. CASE q.op = "LPOP"
  <2>1. Exec(d, q, t) = DoPop(d, q)
    BY <1>8, Dispatch
  <2>2. \/ DoPop(d, q).line = NoLine
        \/ HasItem(d, q.key) /\ DoPop(d, q).db = PopFront(d, q.key)
    BY <1>8 DEF DoPop, Answer, Change
  <2> QED BY <1>8, <2>1, <2>2 DEF Did
<1>9. CASE q.op = "RPOP"
  <2>1. Exec(d, q, t) = DoPop(d, q)
    BY <1>9, Dispatch
  <2>2. \/ DoPop(d, q).line = NoLine
        \/ HasItem(d, q.key) /\ DoPop(d, q).db = PopBack(d, q.key)
    BY <1>9 DEF DoPop, Answer, Change
  <2> QED BY <1>9, <2>1, <2>2 DEF Did
<1>10. CASE q.op = "LREM"
  <2>1. Exec(d, q, t) = DoLRem(d, q)
    BY <1>10, Dispatch
  <2>2. \/ DoLRem(d, q).line = NoLine
        \/ /\ Holds(d, q.key, "list") /\ Contains(d[q.key].list, q.val)
           /\ DoLRem(d, q).db = DropFirst(d, q.key, q.val)
    BY DEF DoLRem, Answer, Change
  <2> QED BY <1>10, <2>1, <2>2 DEF Did
<1>11. CASE q.op = "HSET"
  <2>1. Exec(d, q, t) = DoHSet(d, q)
    BY <1>11, Dispatch
  <2>2. \/ DoHSet(d, q).line = NoLine
        \/ /\ Accepts(d, q.key, "hash")
           /\ DoHSet(d, q).db = PutField(d, q.key, q.field, q.val)
    BY DEF DoHSet, Answer, Change
  <2> QED BY <1>11, <2>1, <2>2 DEF Did
<1>12. CASE q.op = "SADD"
  <2>1. Exec(d, q, t) = DoSAdd(d, q)
    BY <1>12, Dispatch
  <2>2. \/ DoSAdd(d, q).line = NoLine
        \/ Accepts(d, q.key, "set") /\ DoSAdd(d, q).db = PutMember(d, q.key, q.val)
    BY DEF DoSAdd, Answer, Change
  <2> QED BY <1>12, <2>1, <2>2 DEF Did
<1>13. CASE q.op = "RPOPLPUSH"
  <2>1. Exec(d, q, t) = DoRPopLPush(d, q)
    BY <1>13, Dispatch
  <2>2. \/ DoRPopLPush(d, q).line = NoLine
        \/ HasItem(d, q.key) /\ DoRPopLPush(d, q).db = MoveItem(d, q.key, q.dst)
    BY DEF DoRPopLPush, Answer, Change
  <2> QED BY <1>13, <2>1, <2>2 DEF Did
<1> QED BY <1>1, <1>2, <1>3, <1>4, <1>5, <1>6, <1>7, <1>8, <1>9, <1>10, <1>11, <1>12,
           <1>13 DEF Command

LEMMA ExecDid ==
  ASSUME NEW d, IsDatabase(d), NEW q \in Command, NEW t \in Nat
  PROVE  \/ Exec(d, q, t).db = d
         \/ Did(d, q, t, Exec(d, q, t).db) /\ (q.op = "SETEX" => q.secs >= 0)
<1>1. CASE q.op = "LTRIM"
  BY <1>1, TrimDid
<1>2. CASE q.op # "LTRIM" /\ Untold(d, q, Exec(d, q, t))
  BY <1>2 DEF Untold
<1>3. CASE /\ q.op # "LTRIM" /\ Exec(d, q, t).line = Sent(q)
           /\ q.op = "SETEX" => q.secs >= 0
  <2>1. Sent(q) # NoLine
    BY <1>3, SentLine
  <2> QED BY <1>3, <2>1, SenderDid
<1> QED BY <1>1, <1>2, <1>3, Outcomes

(***************************************************************************)
(* Whatever handler runs, the database stays well formed.                  *)
(***************************************************************************)
LEMMA ExecType ==
  ASSUME NEW d, IsDatabase(d), NEW q \in Command, NEW t \in Nat
  PROVE  IsDatabase(Exec(d, q, t).db)
<1>1. SUFFICES ASSUME NEW after, Did(d, q, t, after), q.op = "SETEX" => q.secs >= 0
               PROVE  IsDatabase(after)
  BY ExecDid
<1>t. Forever \in Time /\ 0 \in MinInt .. MaxInt
  BY KeyspaceAssumption DEF Time, MinInt
<1>2. CASE q.op = "SET"
  <2>1. after = Put(d, q.key, String(q.val, Forever))
    BY <1>1, <1>2 DEF Did
  <2> QED BY <1>2, <1>t, <2>1, CommandFields, Entries, PutType
<1>3. CASE q.op = "SETEX"
  <2>1. after = Put(d, q.key, String(q.val, t + q.secs * TicksPerSec))
    BY <1>1, <1>3 DEF Did
  <2>2. t + q.secs * TicksPerSec \in Time
    BY <1>1, <1>3, CommandFields, LaterType
  <2> QED BY <1>3, <2>1, <2>2, CommandFields, Entries, PutType
<1>4. CASE q.op \in {"GET", "DEL"}
  <2>1. after = Without(d, {q.key})
    BY <1>1, <1>4 DEF Did
  <2> QED BY <2>1, WithoutType
<1>5. CASE q.op = "INCR"
  <2> DEFINE n == Successor(IF q.key \in DOMAIN d THEN d[q.key].str ELSE 0)
  <2>1. /\ q.key \in DOMAIN d => IsNumber(d, q.key)
        /\ after = Put(d, q.key, String(n, Forever))
    BY <1>1, <1>5 DEF Did
  <2>2. n \in Val
    BY <1>t, <2>1, SuccessorType DEF IsNumber
  <2> HIDE DEF n
  <2> QED BY <1>t, <2>1, <2>2, CommandFields, Entries, PutType
<1>6. CASE q.op \in {"LPUSH", "RPUSH"}
  <2>1. /\ Accepts(d, q.key, "list")
        /\ after \in {PushFront(d, q.key, q.val), PushBack(d, q.key, q.val)}
    BY <1>1, <1>6 DEF Did
  <2> QED BY <1>6, <2>1, CommandFields, PushType
<1>7. CASE q.op \in {"LPOP", "RPOP"}
  <2>1. HasItem(d, q.key) /\ after \in {PopFront(d, q.key), PopBack(d, q.key)}
    BY <1>1, <1>7 DEF Did
  <2> QED BY <2>1, CommandFields, PopType
<1>8. CASE q.op = "LREM"
  <2>1. /\ Holds(d, q.key, "list") /\ Contains(d[q.key].list, q.val)
        /\ after = DropFirst(d, q.key, q.val)
    BY <1>1, <1>8 DEF Did
  <2> QED BY <2>1, CommandFields, DropFirstType
<1>9. CASE q.op = "LTRIM"
  <2>1. \/ after = Without(d, {q.key})
        \/ \E l \in Seq(Val) : after = PutList(d, q.key, l)
    BY <1>1, <1>9 DEF Did
  <2> QED BY <2>1, CommandFields, WithoutType, PutListType
<1>10. CASE q.op = "HSET"
  <2>1. Accepts(d, q.key, "hash") /\ after = PutField(d, q.key, q.field, q.val)
    BY <1>1, <1>10 DEF Did
  <2> QED BY <1>10, <2>1, CommandFields, PutFieldType
<1>11. CASE q.op = "SADD"
  <2>1. Accepts(d, q.key, "set") /\ after = PutMember(d, q.key, q.val)
    BY <1>1, <1>11 DEF Did
  <2> QED BY <1>11, <2>1, CommandFields, PutMemberType
<1>12. CASE q.op = "RPOPLPUSH"
  <2>1. HasItem(d, q.key) /\ after = MoveItem(d, q.key, q.dst)
    BY <1>1, <1>12 DEF Did
  <2> QED BY <1>12, <2>1, CommandFields, MoveType
<1> QED BY <1>2, <1>3, <1>4, <1>5, <1>6, <1>7, <1>8, <1>9, <1>10, <1>11, <1>12
        DEF Command

(***************************************************************************)
(* A line of the log does to a replayed database what the handler that     *)
(* sent it did to the database in memory, on any keys that include those   *)
(* of the command.  LTRIM has no arm in replay_aof.                        *)
(***************************************************************************)
LEMMA CommandReplays ==
  ASSUME NEW r, NEW d, NEW K, Like(r, d, K), NEW q \in Command, KeysOf(q) \subseteq K,
         NEW t \in Nat, NEW u \in Nat, q.op \notin {"LTRIM", "GET"},
         NEW after, Did(d, q, t, after)
  PROVE  Like(ReplayCommand(r, q, u), after, K)
<1>k. q.key \in K /\ (q.op = "RPOPLPUSH" => q.dst \in K)
  BY DEF KeysOf
<1>1. CASE q.op = "SET"
  <2>1. after = Put(d, q.key, String(q.val, Forever))
    BY <1>1 DEF Did
  <2>2. ReplayCommand(r, q, u) = Put(r, q.key, String(q.val, Forever))
    BY <1>1, ReplayDispatch
  <2>3. Alike(String(q.val, Forever), String(q.val, Forever))
    BY AlikeEntries
  <2> QED BY <2>1, <2>2, <2>3, LikePut
<1>2. CASE q.op = "SETEX"
  <2>1. after = Put(d, q.key, String(q.val, t + q.secs * TicksPerSec))
    BY <1>2 DEF Did
  <2>2. ReplayCommand(r, q, u) = Put(r, q.key, String(q.val, u + q.secs * TicksPerSec))
    BY <1>2, ReplayDispatch
  <2>3. t + q.secs * TicksPerSec # Forever /\ u + q.secs * TicksPerSec # Forever
    <3>1. q.secs \in Int
      BY <1>2, CommandFields
    <3>2. q.secs * TicksPerSec \in Int
      BY <3>1, KeyspaceAssumption
    <3>3. t + q.secs * TicksPerSec \in Int /\ u + q.secs * TicksPerSec \in Int
      BY <3>2
    <3> QED BY <3>3, KeyspaceAssumption
  <2>4. Alike(String(q.val, u + q.secs * TicksPerSec), String(q.val, t + q.secs * TicksPerSec))
    BY <2>3, AlikeEntries
  <2> QED BY <2>1, <2>2, <2>4, LikePut
<1>4. CASE q.op = "DEL"
  <2>1. after = Without(d, {q.key})
    BY <1>4 DEF Did
  <2>2. ReplayCommand(r, q, u) = Without(r, {q.key})
    BY <1>4, ReplayDispatch
  <2> QED BY <2>1, <2>2, LikeWithout
<1>5. CASE q.op = "INCR"
  <2> DEFINE n == Successor(IF q.key \in DOMAIN d THEN d[q.key].str ELSE 0)
  <2>1. /\ q.key \in DOMAIN d => IsNumber(d, q.key)
        /\ after = Put(d, q.key, String(n, Forever))
    BY <1>5 DEF Did
  <2>2. n = Successor(IF IsNumber(r, q.key) THEN r[q.key].str ELSE 0)
    BY <1>k, <2>1, LikeStrings DEF IsNumber, Holds
  <2> HIDE DEF n
  <2>3. ReplayCommand(r, q, u) = Put(r, q.key, String(n, Forever))
    BY <1>5, <2>2, ReplayDispatch
  <2>4. Alike(String(n, Forever), String(n, Forever))
    BY AlikeEntries
  <2> QED BY <2>1, <2>3, <2>4, LikePut
<1>6. CASE q.op = "LPUSH"
  <2>1. Accepts(d, q.key, "list") /\ after = PushFront(d, q.key, q.val)
    BY <1>6 DEF Did
  <2>2. Accepts(r, q.key, "list")
    BY <1>k, <2>1, LikeTests
  <2>3. ReplayCommand(r, q, u) = PushFront(r, q.key, q.val)
    BY <1>6, <2>2, ReplayDispatch
  <2> QED BY <1>k, <2>1, <2>3, LikePush
<1>7. CASE q.op = "RPUSH"
  <2>1. Accepts(d, q.key, "list") /\ after = PushBack(d, q.key, q.val)
    BY <1>7 DEF Did
  <2>2. Accepts(r, q.key, "list")
    BY <1>k, <2>1, LikeTests
  <2>3. ReplayCommand(r, q, u) = PushBack(r, q.key, q.val)
    BY <1>7, <2>2, ReplayDispatch
  <2> QED BY <1>k, <2>1, <2>3, LikePush
<1>8. CASE q.op = "LPOP"
  <2>1. HasItem(d, q.key) /\ after = PopFront(d, q.key)
    BY <1>8 DEF Did
  <2>2. HasItem(r, q.key) /\ Like(PopFront(r, q.key), PopFront(d, q.key), K)
    BY <1>k, <2>1, LikePop
  <2> QED BY <1>8, <2>1, <2>2, ReplayDispatch
<1>9. CASE q.op = "RPOP"
  <2>1. HasItem(d, q.key) /\ after = PopBack(d, q.key)
    BY <1>9 DEF Did
  <2>2. HasItem(r, q.key) /\ Like(PopBack(r, q.key), PopBack(d, q.key), K)
    BY <1>k, <2>1, LikePop
  <2> QED BY <1>9, <2>1, <2>2, ReplayDispatch
<1>10. CASE q.op = "LREM"
  <2>1. /\ Holds(d, q.key, "list") /\ Contains(d[q.key].list, q.val)
        /\ after = DropFirst(d, q.key, q.val)
    BY <1>10 DEF Did
  <2>2. Holds(r, q.key, "list") /\ r[q.key].list = d[q.key].list
    BY <1>k, <2>1, LikeTests
  <2>3. ReplayCommand(r, q, u) = DropFirst(r, q.key, q.val)
    BY <1>10, <2>1, <2>2, ReplayDispatch
  <2> QED BY <1>k, <2>1, <2>2, <2>3, LikePutList DEF DropFirst
<1>11. CASE q.op = "HSET"
  <2>1. Accepts(d, q.key, "hash") /\ after = PutField(d, q.key, q.field, q.val)
    BY <1>11 DEF Did
  <2>2. Accepts(r, q.key, "hash")
    BY <1>k, <2>1, LikeTests
  <2>3. ReplayCommand(r, q, u) = PutField(r, q.key, q.field, q.val)
    BY <1>11, <2>2, ReplayDispatch
  <2> QED BY <1>k, <2>1, <2>3, LikePutField
<1>12. CASE q.op = "SADD"
  <2>1. Accepts(d, q.key, "set") /\ after = PutMember(d, q.key, q.val)
    BY <1>12 DEF Did
  <2>2. Accepts(r, q.key, "set")
    BY <1>k, <2>1, LikeTests
  <2>3. ReplayCommand(r, q, u) = PutMember(r, q.key, q.val)
    BY <1>12, <2>2, ReplayDispatch
  <2> QED BY <1>k, <2>1, <2>3, LikePutMember
<1>13. CASE q.op = "RPOPLPUSH"
  <2>1. HasItem(d, q.key) /\ after = MoveItem(d, q.key, q.dst)
    BY <1>13 DEF Did
  <2>2. HasItem(r, q.key)
    BY <1>k, <2>1, LikePop
  <2>3. ReplayCommand(r, q, u) = MoveItem(r, q.key, q.dst)
    BY <1>13, <2>2, ReplayDispatch
  <2> QED BY <1>13, <1>k, <2>1, <2>3, LikeMove
<1> QED BY <1>1, <1>2, <1>4, <1>5, <1>6, <1>7, <1>8, <1>9, <1>10, <1>11, <1>12, <1>13
        DEF Command

LEMMA HandlerReplays ==
  ASSUME NEW r, NEW d, NEW K, Like(r, d, K), NEW q \in Command, KeysOf(q) \subseteq K,
         NEW t \in Nat, NEW u \in Nat, q.op # "LTRIM", Legible(q),
         Exec(d, q, t).line = Sent(q), Sent(q) # NoLine
  PROVE  Like(ReplayLine(r, Sent(q), u), Exec(d, q, t).db, K)
<1>1. Did(d, q, t, Exec(d, q, t).db)
  BY SenderDid
<1>2. ReplayLine(r, Sent(q), u) = ReplayCommand(r, Sent(q).cmd, u)
  BY DEF ReplayLine, Legible
<1>3. CASE q.op = "GET"
  <2>1. Exec(d, q, t).db = Without(d, {q.key})
    BY <1>1, <1>3 DEF Did
  <2>2. Sent(q).cmd = Del(q.key)
    BY <1>3 DEF Sent, Line
  <2>3. ReplayCommand(r, Del(q.key), u) = Without(r, {q.key})
    <3>1. PICK c : c = Del(q.key)
      OBVIOUS
    <3>2. c.op = "DEL" /\ c.key = q.key
      BY <3>1 DEF Del
    <3>3. ReplayCommand(r, c, u) = Without(r, {c.key})
      BY <3>2, ReplayDispatch
    <3> QED BY <3>1, <3>2, <3>3
  <2> QED BY <1>2, <2>1, <2>2, <2>3, LikeWithout
<1>4. CASE q.op # "GET"
  <2>1. Sent(q).cmd = q
    BY <1>4 DEF Sent, Line
  <2> QED BY <1>1, <1>2, <1>4, <2>1, CommandReplays
<1> QED BY <1>3, <1>4

\* the lines that handlers can leave in a log
HandlerLine == {line \in LogLine : Loggable(line.cmd)}

LEMMA ReplayLineType ==
  ASSUME NEW r, IsDatabase(r), NEW line, Loggable(line.cmd), NEW t \in Nat
  PROVE  IsDatabase(ReplayLine(r, line, t))
BY ReplayCommandType DEF ReplayLine

\* whatever the log, replay_aof makes a well formed database of it
LEMMA ReplayType ==
  ASSUME NEW S, \A line \in S : Loggable(line.cmd), NEW lines \in Seq(S), NEW t \in Nat
  PROVE  IsDatabase(Replay(lines, t))
<1> DEFINE P == {s \in Seq(S) : IsDatabase(Replay(s, t))}
<1>1. <<>> \in P
  BY ReplayNothing, EmptyType
<1>2. ASSUME NEW s \in Seq(S), NEW x \in S, s \in P
      PROVE  Append(s, x) \in P
  <2>1. Replay(Append(s, x), t) = ReplayLine(Replay(s, t), x, t)
    BY ReplayOneMore
  <2>2. IsDatabase(Replay(s, t))
    BY <1>2
  <2>3. IsDatabase(Replay(Append(s, x), t))
    BY <2>1, <2>2, ReplayLineType
  <2>4. Append(s, x) \in Seq(S)
    OBVIOUS
  <2> QED BY <2>3, <2>4
<1>3. Seq(S) \subseteq P
  <2> HIDE DEF P
  <2> QED BY <1>1, <1>2, SequencesByInduction
<1> QED BY <1>3

\* what a line does does not depend on the clock, but for instants of expiry
LEMMA ReplayAlike ==
  ASSUME NEW a, NEW b, NEW K, Like(a, b, K), Like(b, a, K), NEW q \in Command,
         KeysOf(q) \subseteq K, NEW u \in Nat, NEW v \in Nat
  PROVE  Like(ReplayCommand(a, q, u), ReplayCommand(b, q, v), K)
<1> DEFINE after == ReplayCommand(b, q, v)
<1>k. q.key \in K
  BY DEF KeysOf
<1>d. ASSUME Did(b, q, v, after), q.op \notin {"LTRIM", "GET"}
      PROVE  Like(ReplayCommand(a, q, u), after, K)
  BY <1>d, CommandReplays
<1>n. ASSUME after = b, ReplayCommand(a, q, u) = a
      PROVE  Like(ReplayCommand(a, q, u), after, K)
  BY <1>n
<1>1. CASE q.op \in {"SET", "SETEX", "DEL"}
  <2>1. Did(b, q, v, after)
    BY <1>1, ReplayDispatch DEF Did
  <2> QED BY <1>1, <1>d, <2>1
<1>2. CASE q.op = "INCR"
  <2> DEFINE n == Successor(IF IsNumber(b, q.key) THEN b[q.key].str ELSE 0)
  <2>1. n = Successor(IF IsNumber(a, q.key) THEN a[q.key].str ELSE 0)
    BY <1>k, LikeStrings DEF IsNumber, Holds
  <2>2. after = Put(b, q.key, String(n, Forever))
    BY <1>2, ReplayDispatch
  <2> HIDE DEF n
  <2>3. ReplayCommand(a, q, u) = Put(a, q.key, String(n, Forever))
    BY <1>2, <2>1, ReplayDispatch
  <2>4. Alike(String(n, Forever), String(n, Forever))
    BY AlikeEntries
  <2> QED BY <2>2, <2>3, <2>4, LikePut
<1>3. CASE q.op \in {"LPUSH", "RPUSH"}
  <2>1. CASE Accepts(b, q.key, "list")
    BY <1>3, <1>d, <2>1, ReplayDispatch DEF Did
  <2>2. CASE ~Accepts(b, q.key, "list")
    <3>1. ~Accepts(a, q.key, "list")
      BY <1>k, <2>2, LikeTests
    <3> QED BY <1>3, <1>n, <2>2, <3>1 DEF ReplayCommand
  <2> QED BY <2>1, <2>2
<1>4. CASE q.op \in {"LPOP", "RPOP", "RPOPLPUSH"}
  <2>1. CASE HasItem(b, q.key)
    BY <1>4, <1>d, <2>1, ReplayDispatch DEF Did
  <2>2. CASE ~HasItem(b, q.key)
    <3>1. ~HasItem(a, q.key)
      BY <1>k, <2>2, LikePop
    <3> QED BY <1>4, <1>n, <2>2, <3>1 DEF ReplayCommand
  <2> QED BY <2>1, <2>2
<1>5. CASE q.op = "LREM"
  <2> DEFINE there(d) == Holds(d, q.key, "list") /\ Contains(d[q.key].list, q.val)
  <2>1. CASE there(b)
    BY <1>5, <1>d, <2>1, ReplayDispatch DEF Did
  <2>2. CASE ~there(b)
    <3>1. ~there(a)
      BY <1>k, <2>2, LikeTests
    <3> QED BY <1>5, <1>n, <2>2, <3>1 DEF ReplayCommand
  <2> QED BY <2>1, <2>2
<1>6. CASE q.op = "HSET"
  <2>1. CASE Accepts(b, q.key, "hash")
    BY <1>6, <1>d, <2>1, ReplayDispatch DEF Did
  <2>2. CASE ~Accepts(b, q.key, "hash")
    <3>1. ~Accepts(a, q.key, "hash")
      BY <1>k, <2>2, LikeTests
    <3> QED BY <1>6, <1>n, <2>2, <3>1 DEF ReplayCommand
  <2> QED BY <2>1, <2>2
<1>7. CASE q.op = "SADD"
  <2>1. CASE Accepts(b, q.key, "set")
    BY <1>7, <1>d, <2>1, ReplayDispatch DEF Did
  <2>2. CASE ~Accepts(b, q.key, "set")
    <3>1. ~Accepts(a, q.key, "set")
      BY <1>k, <2>2, LikeTests
    <3> QED BY <1>7, <1>n, <2>2, <3>1 DEF ReplayCommand
  <2> QED BY <2>1, <2>2
<1>8. CASE q.op \in {"GET", "LTRIM"}
  BY <1>8, <1>n DEF ReplayCommand
<1>9. q.op \in {"SET", "SETEX", "DEL", "INCR", "LPUSH", "RPUSH", "LPOP", "RPOP", "RPOPLPUSH",
                "LREM", "HSET", "SADD", "GET", "LTRIM"}
  BY DEF Command
<1> QED BY <1>1, <1>2, <1>3, <1>4, <1>5, <1>6, <1>7, <1>8, <1>9

(***************************************************************************)
(* Replayed at two instants, a log gives two databases that differ only in *)
(* the instants at which their keys expire.                                *)
(***************************************************************************)
LEMMA ReplayClocks ==
  ASSUME NEW S, \A line \in S : line.cmd \in Command, NEW lines \in Seq(S),
         NEW u \in Nat, NEW v \in Nat
  PROVE  Like(Replay(lines, u), Replay(lines, v), Keys)
<1> DEFINE P == {s \in Seq(S) : /\ Like(Replay(s, u), Replay(s, v), Keys)
                                /\ Like(Replay(s, v), Replay(s, u), Keys)}
<1>1. <<>> \in P
  <2>1. Like(EmptyDb, EmptyDb, Keys)
    BY DEF Like, Alike
  <2> QED BY <2>1, ReplayNothing
<1>2. ASSUME NEW s \in Seq(S), NEW x \in S, s \in P
      PROVE  Append(s, x) \in P
  <2> DEFINE a == Replay(s, u)
             b == Replay(s, v)
  <2>1. Like(a, b, Keys) /\ Like(b, a, Keys)
    BY <1>2
  <2>2. Replay(Append(s, x), u) = ReplayLine(a, x, u) /\ Replay(Append(s, x), v) = ReplayLine(b, x, v)
    BY ReplayOneMore
  <2> HIDE DEF a, b
  <2>3. x.cmd \in Command /\ KeysOf(x.cmd) \subseteq Keys
    BY CommandFields DEF KeysOf
  <2>4. /\ Like(ReplayCommand(a, x.cmd, u), ReplayCommand(b, x.cmd, v), Keys)
        /\ Like(ReplayCommand(b, x.cmd, v), ReplayCommand(a, x.cmd, u), Keys)
    BY <2>1, <2>3, ReplayAlike
  <2>5. /\ Like(ReplayLine(a, x, u), ReplayLine(b, x, v), Keys)
        /\ Like(ReplayLine(b, x, v), ReplayLine(a, x, u), Keys)
    BY <2>1, <2>4 DEF ReplayLine
  <2>6. Append(s, x) \in Seq(S)
    OBVIOUS
  <2> QED BY <2>2, <2>5, <2>6
<1>3. Seq(S) \subseteq P
  <2> HIDE DEF P
  <2> QED BY <1>1, <1>2, SequencesByInduction
<1> QED BY <1>3

-----------------------------------------------------------------------------
(* A handler changes the keys of its command only, and gives an expiry to  *)
(* strings only.                                                           *)

\* a and b are the same at every key outside K
SameBut(a, b, K) ==
  \A k : k \notin K => /\ k \in DOMAIN a <=> k \in DOMAIN b
                       /\ k \in DOMAIN b => a[k] = b[k]

LEMMA PutFrame ==
  ASSUME NEW d, NEW k
  PROVE  /\ \A e : SameBut(Put(d, k, e), d, {k})
         /\ \A l : SameBut(PutList(d, k, l), d, {k})
         /\ SameBut(Without(d, {k}), d, {k})
<1>1. \A e : SameBut(Put(d, k, e), d, {k})
  BY DEF SameBut, Put
<1>2. SameBut(Without(d, {k}), d, {k})
  BY DEF SameBut, Without
<1> QED BY <1>1, <1>2 DEF PutList

LEMMA MoveFrame ==
  ASSUME NEW d, NEW k, NEW j
  PROVE  SameBut(MoveItem(d, k, j), d, {k, j})
<1> DEFINE p == PopBack(d, k)
<1>1. SameBut(p, d, {k})
  BY PutFrame DEF PopBack
<1> HIDE DEF p
<1>2. \A v : SameBut(PushFront(p, j, v), p, {j})
  BY PutFrame DEF PushFront
<1>3. MoveItem(d, k, j) = IF Accepts(p, j, "list") THEN PushFront(p, j, Last(d[k].list)) ELSE p
  BY DEF MoveItem, p
<1> QED BY <1>1, <1>2, <1>3 DEF SameBut

LEMMA DidFrame ==
  ASSUME NEW d, NEW q \in Command, NEW t, NEW after, Did(d, q, t, after)
  PROVE  SameBut(after, d, KeysOf(q))
<1> USE DEF KeysOf
<1>1. CASE q.op \in {"SET", "SETEX", "INCR"}
  <2>1. \E e : after = Put(d, q.key, e)
    BY <1>1 DEF Did
  <2> QED BY <1>1, <2>1, PutFrame
<1>2. CASE q.op \in {"GET", "DEL"}
  <2>1. after = Without(d, {q.key})
    BY <1>2 DEF Did
  <2> QED BY <1>2, <2>1, PutFrame
<1>3. CASE q.op \in {"LPUSH", "RPUSH", "LPOP", "RPOP", "LREM", "LTRIM"}
  <2>1. after = Without(d, {q.key}) \/ \E l : after = PutList(d, q.key, l)
    BY <1>3 DEF Did, PushFront, PushBack, PopFront, PopBack, DropFirst
  <2> QED BY <1>3, <2>1, PutFrame
<1>4. CASE q.op \in {"HSET", "SADD"}
  <2>1. \E e : after = Put(d, q.key, e)
    BY <1>4 DEF Did, PutField, PutMember
  <2> QED BY <1>4, <2>1, PutFrame
<1>5. CASE q.op = "RPOPLPUSH"
  <2>1. after = MoveItem(d, q.key, q.dst)
    BY <1>5 DEF Did
  <2> QED BY <1>5, <2>1, MoveFrame
<1> QED BY <1>1, <1>2, <1>3, <1>4, <1>5 DEF Command

\* a line of the log, too
LEMMA ReplayFrame ==
  ASSUME NEW r, NEW line, line.cmd \in Command, NEW u
  PROVE  SameBut(ReplayLine(r, line, u), r, KeysOf(line.cmd))
<1> DEFINE q == line.cmd
           after == ReplayCommand(r, q, u)
<1>0. SUFFICES SameBut(after, r, KeysOf(q))
  BY DEF ReplayLine, SameBut
<1> HIDE DEF q
<1>1. SameBut(r, r, KeysOf(q))
  BY DEF SameBut
<1>2. CASE q.op \in {"SET", "SETEX", "INCR", "HSET", "SADD"}
  <2>1. after = r \/ \E e : after = Put(r, q.key, e)
    BY <1>2 DEF ReplayCommand, PutField, PutMember
  <2> HIDE DEF after
  <2> QED BY <1>1, <1>2, <2>1, PutFrame DEF KeysOf
<1>3. CASE q.op = "DEL"
  <2>1. after = Without(r, {q.key})
    BY <1>3, ReplayDispatch
  <2> QED BY <1>3, <2>1, PutFrame DEF KeysOf
<1>4. CASE q.op \in {"LPUSH", "RPUSH", "LPOP", "RPOP", "LREM"}
  <2>1. after = r \/ \E l : after = PutList(r, q.key, l)
    BY <1>4 DEF ReplayCommand, PushFront, PushBack, PopFront, PopBack, DropFirst
  <2> HIDE DEF after
  <2> QED BY <1>1, <1>4, <2>1, PutFrame DEF KeysOf
<1>5. CASE q.op = "RPOPLPUSH"
  <2>1. after = r \/ after = MoveItem(r, q.key, q.dst)
    BY <1>5 DEF ReplayCommand
  <2> HIDE DEF after
  <2> QED BY <1>1, <1>5, <2>1, MoveFrame DEF KeysOf
<1>6. CASE q.op \in {"GET", "LTRIM"}
  <2>1. after = r
    BY <1>6 DEF ReplayCommand
  <2> QED BY <1>1, <2>1
<1>7. q.op \in {"SET", "SETEX", "INCR", "HSET", "SADD", "DEL", "LPUSH", "RPUSH", "LPOP",
                "RPOP", "LREM", "RPOPLPUSH", "GET", "LTRIM"}
  BY DEF Command, q
<1> QED BY <1>2, <1>3, <1>4, <1>5, <1>6, <1>7

LEMMA LikeLike ==
  ASSUME NEW a, NEW b, NEW K
  PROVE  /\ Like(a, a, K)
         /\ Like(a, b, K) => Like(b, a, K)
         /\ \A c : Like(a, b, K) /\ Like(b, c, K) => Like(a, c, K)
         /\ \A L : SameBut(a, b, L) /\ K \cap L = {} => Like(a, b, K)
<1>1. \A e, f : Alike(e, f) => Alike(f, e)
  BY DEF Alike
<1>2. \A e, f, g : Alike(e, f) /\ Alike(f, g) => Alike(e, g)
  BY DEF Alike
<1>3. \A e : Alike(e, e)
  BY DEF Alike
<1>4. Like(a, a, K)
  BY <1>3 DEF Like
<1>5. Like(a, b, K) => Like(b, a, K)
  BY <1>1 DEF Like
<1>6. \A c : Like(a, b, K) /\ Like(b, c, K) => Like(a, c, K)
  BY <1>2 DEF Like
<1>7. \A L : SameBut(a, b, L) /\ K \cap L = {} => Like(a, b, K)
  BY <1>3 DEF Like, SameBut
<1> QED BY <1>4, <1>5, <1>6, <1>7

OnlyStrings(d) == \A k \in DOMAIN d : d[k].exp # Forever => "str" \in DOMAIN d[k]

\* an entry that is no string has no expiry to keep
LEMMA NoExpiryToKeep ==
  ASSUME NEW d, IsDatabase(d), OnlyStrings(d), NEW k,
         NEW kind \in {"list", "hash", "set"}, Accepts(d, k, kind)
  PROVE  Expiry(d, k) = Forever
<1>1. CASE k \in DOMAIN d
  <2>1. "str" \notin DOMAIN d[k]
    BY <1>1, EntryAt, EntryFields DEF Accepts, Kinds
  <2> QED BY <1>1, <2>1 DEF OnlyStrings, Expiry
<1> QED BY <1>1 DEF Expiry

LEMMA OnlyStringsPut ==
  ASSUME NEW d, OnlyStrings(d), NEW k, NEW e, e.exp # Forever => "str" \in DOMAIN e
  PROVE  OnlyStrings(Put(d, k, e))
BY DEF OnlyStrings, Put

LEMMA OnlyStringsPutList ==
  ASSUME NEW d, IsDatabase(d), OnlyStrings(d), NEW k, Accepts(d, k, "list"), NEW l
  PROVE  OnlyStrings(PutList(d, k, l))
<1> DEFINE e == [list |-> l, exp |-> Expiry(d, k)]
<1>1. e.exp = Forever
  BY NoExpiryToKeep
<1> HIDE DEF e
<1>2. OnlyStrings(Put(d, k, e))
  BY <1>1, OnlyStringsPut
<1> QED BY <1>2 DEF PutList, e

LEMMA DidOnlyStrings ==
  ASSUME NEW d, IsDatabase(d), OnlyStrings(d), NEW q \in Command, NEW t,
         NEW after, Did(d, q, t, after)
  PROVE  OnlyStrings(after)
<1>1. CASE q.op \in {"SET", "SETEX", "INCR"}
  <2>1. \E v, x : after = Put(d, q.key, String(v, x))
    BY <1>1 DEF Did
  <2>2. \A v, x : "str" \in DOMAIN String(v, x)
    BY DEF String
  <2> QED BY <2>1, <2>2, OnlyStringsPut
<1>2. CASE q.op \in {"GET", "DEL"}
  <2>1. after = Without(d, {q.key})
    BY <1>2 DEF Did
  <2> QED BY <2>1 DEF OnlyStrings, Without
<1>3. CASE q.op \in {"LPUSH", "RPUSH", "LPOP", "RPOP", "LREM", "LTRIM"}
  <2>1. \/ after = Without(d, {q.key})
        \/ Accepts(d, q.key, "list") /\ \E l : after = PutList(d, q.key, l)
    BY <1>3 DEF Did, PushFront, PushBack, PopFront, PopBack, DropFirst, HasItem, Holds, Accepts
  <2>2. OnlyStrings(Without(d, {q.key}))
    BY DEF OnlyStrings, Without
  <2> QED BY <2>1, <2>2, OnlyStringsPutList
<1>4. CASE q.op = "HSET"
  <2>1. Accepts(d, q.key, "hash") /\ after = PutField(d, q.key, q.field, q.val)
    BY <1>4 DEF Did
  <2> DEFINE h == FieldsAt(d, q.key)
             g == [x \in DOMAIN h \cup {q.field} |-> IF x = q.field THEN q.val ELSE h[x]]
             e == [hash |-> g, exp |-> Expiry(d, q.key)]
  <2>2. after = Put(d, q.key, e)
    BY <2>1 DEF PutField
  <2>4. e.exp = Expiry(d, q.key)
    OBVIOUS
  <2> HIDE DEF e
  <2>3. Expiry(d, q.key) = Forever
    BY <2>1, NoExpiryToKeep
  <2> QED BY <2>2, <2>3, <2>4, OnlyStringsPut
<1>5. CASE q.op = "SADD"
  <2>1. Accepts(d, q.key, "set") /\ after = PutMember(d, q.key, q.val)
    BY <1>5 DEF Did
  <2>2. \E e : after = Put(d, q.key, e) /\ e.exp = Expiry(d, q.key)
    BY <2>1 DEF PutMember
  <2>3. Expiry(d, q.key) = Forever
    BY <2>1, NoExpiryToKeep
  <2> QED BY <2>2, <2>3, OnlyStringsPut
<1>6. CASE q.op = "RPOPLPUSH"
  <2> DEFINE p == PopBack(d, q.key)
  <2>1. HasItem(d, q.key) /\ after = MoveItem(d, q.key, q.dst)
    BY <1>6 DEF Did
  <2>2. IsDatabase(p) /\ OnlyStrings(p)
    BY <2>1, CommandFields, PopType, OnlyStringsPutList DEF PopBack, HasItem, Holds, Accepts
  <2> HIDE DEF p
  <2>3. \/ after = p
        \/ Accepts(p, q.dst, "list") /\ \E l : after = PutList(p, q.dst, l)
    BY <2>1 DEF MoveItem, PushFront, p
  <2> QED BY <2>2, <2>3, OnlyStringsPutList
<1> QED BY <1>1, <1>2, <1>3, <1>4, <1>5, <1>6 DEF Command

-----------------------------------------------------------------------------
(***************************************************************************)
(* What a store holds that was filled by commands which replay_aof reads   *)
(* back from their lines: finitely many keys, fields and members, no hash  *)
(* or set with nothing in it, and no word that tokenize() would drop or    *)
(* split.  Of such a store the compactor can write a text that rebuilds it.*)
(***************************************************************************)

PlainVal   == Val \ Empty
PlainField == Words \ (Blank \cup Empty)

WellMade(e) ==
  /\ "str"  \in DOMAIN e => e.str \in PlainVal
  /\ "list" \in DOMAIN e => e.list \in Seq(PlainVal)
  /\ "hash" \in DOMAIN e =>
       \E F \in SUBSET PlainField : IsFiniteSet(F) /\ F # {} /\ e.hash \in [F -> PlainVal]
  /\ "set"  \in DOMAIN e => e.set \in SUBSET PlainVal /\ IsFiniteSet(e.set) /\ e.set # {}

Filled(d) == IsFiniteSet(DOMAIN d) /\ \A k \in DOMAIN d : WellMade(d[k])

\* what replay_aof can read of a command
Spelt(q) ==
  /\ q.op \in {"SET", "LPUSH", "RPUSH", "SADD", "SETEX", "HSET"} => q.val \notin Empty
  /\ q.op = "HSET" => q.field \notin Blank \cup Empty

LEMMA ReadsSpelt ==
  ASSUME NEW line, line.cmd \in Command, ReadsBack(line)
  PROVE  Spelt(line.cmd)
<1> DEFINE q == line.cmd
<1>1. ASSUME "val" \in DOMAIN q PROVE q.val \notin Empty
  BY <1>1 DEF ReadsBack, Written
<1>2. ASSUME "field" \in DOMAIN q PROVE q.field \notin Blank \cup Empty
  BY <1>2 DEF ReadsBack, Written, Bare
<1>3. /\ q.op \in {"SET", "LPUSH", "RPUSH", "SADD", "SETEX", "HSET"} => "val" \in DOMAIN q
      /\ q.op = "HSET" => "field" \in DOMAIN q
  BY DEF Command
<1> QED BY <1>1, <1>2, <1>3 DEF Spelt

LEMMA LegibleSpelt ==
  ASSUME NEW q \in Command, Legible(q)
  PROVE  Spelt(q)
<1>1. CASE q.op = "GET"
  BY <1>1 DEF Spelt
<1>2. CASE q.op # "GET"
  <2>1. Sent(q).cmd = q
    BY <1>2 DEF Sent, Line
  <2> QED BY <2>1, ReadsSpelt DEF Legible
<1> QED BY <1>1, <1>2

LEMMA FilledPut ==
  ASSUME NEW d, Filled(d), NEW k, NEW e, WellMade(e)
  PROVE  Filled(Put(d, k, e))
<1>1. IsFiniteSet(DOMAIN d \cup {k})
  BY FS_AddElement DEF Filled
<1>2. DOMAIN Put(d, k, e) = DOMAIN d \cup {k}
  BY DEF Put
<1>3. \A x \in DOMAIN d \cup {k} : WellMade(Put(d, k, e)[x])
  BY DEF Put, Filled
<1> QED BY <1>1, <1>2, <1>3 DEF Filled

LEMMA FilledWithout ==
  ASSUME NEW d, Filled(d), NEW ks
  PROVE  Filled(Without(d, ks))
<1>1. IsFiniteSet(DOMAIN d \ ks)
  BY FS_Difference DEF Filled
<1>2. DOMAIN Without(d, ks) = DOMAIN d \ ks
  BY DEF Without
<1>3. \A x \in DOMAIN d \ ks : WellMade(Without(d, ks)[x])
  BY DEF Without, Filled
<1> QED BY <1>1, <1>2, <1>3 DEF Filled

LEMMA MadeOf ==
  ASSUME NEW t
  PROVE  /\ \A v \in PlainVal : WellMade(String(v, t))
         /\ \A l \in Seq(PlainVal) : WellMade([list |-> l, exp |-> t])
         /\ \A F \in SUBSET PlainField : \A h \in [F -> PlainVal] :
              IsFiniteSet(F) /\ F # {} => WellMade([hash |-> h, exp |-> t])
         /\ \A m \in SUBSET PlainVal :
              IsFiniteSet(m) /\ m # {} => WellMade([set |-> m, exp |-> t])
<1>1. \A v \in PlainVal : WellMade(String(v, t))
  BY DEF WellMade, String
<1>2. \A l \in Seq(PlainVal) : WellMade([list |-> l, exp |-> t])
  BY DEF WellMade
<1>3. ASSUME NEW F \in SUBSET PlainField, NEW h \in [F -> PlainVal], IsFiniteSet(F), F # {}
      PROVE  WellMade([hash |-> h, exp |-> t])
  <2> DEFINE e == [hash |-> h, exp |-> t]
  <2>1. DOMAIN e = {"hash", "exp"} /\ e.hash = h
    OBVIOUS
  <2> HIDE DEF e
  <2>2. WellMade(e)
    BY <1>3, <2>1 DEF WellMade
  <2> QED BY <2>2 DEF e
<1>4. ASSUME NEW m \in SUBSET PlainVal, IsFiniteSet(m), m # {}
      PROVE  WellMade([set |-> m, exp |-> t])
  BY <1>4 DEF WellMade
<1> QED BY <1>1, <1>2, <1>3, <1>4

LEMMA FilledPutList ==
  ASSUME NEW d, Filled(d), NEW k, NEW l \in Seq(PlainVal)
  PROVE  Filled(PutList(d, k, l))
BY MadeOf, FilledPut DEF PutList

LEMMA FilledLists ==
  ASSUME NEW d, Filled(d), NEW k
  PROVE  /\ Accepts(d, k, "list") => ListAt(d, k) \in Seq(PlainVal)
         /\ Holds(d, k, "list") => d[k].list \in Seq(PlainVal)
<1>1. Holds(d, k, "list") => d[k].list \in Seq(PlainVal)
  BY DEF Filled, WellMade, Holds
<1> QED BY <1>1 DEF Accepts, ListAt, Holds

LEMMA FilledPush ==
  ASSUME NEW d, Filled(d), NEW k, Accepts(d, k, "list"), NEW v \in PlainVal
  PROVE  Filled(PushFront(d, k, v)) /\ Filled(PushBack(d, k, v))
<1>1. ListAt(d, k) \in Seq(PlainVal)
  BY FilledLists
<1>2. <<v>> \o ListAt(d, k) \in Seq(PlainVal) /\ Append(ListAt(d, k), v) \in Seq(PlainVal)
  BY <1>1
<1> QED BY <1>2, FilledPutList DEF PushFront, PushBack

LEMMA FilledPop ==
  ASSUME NEW d, Filled(d), NEW k, HasItem(d, k)
  PROVE  /\ Filled(PopFront(d, k)) /\ Filled(PopBack(d, k))
         /\ Last(d[k].list) \in PlainVal
<1>1. d[k].list \in Seq(PlainVal) /\ d[k].list # <<>>
  BY FilledLists DEF HasItem
<1>2. Tail(d[k].list) \in Seq(PlainVal)
  BY <1>1
<1>3. Front(d[k].list) \in Seq(PlainVal) /\ Last(d[k].list) \in PlainVal
  BY <1>1, LastAppended
<1> QED BY <1>2, <1>3, FilledPutList DEF PopFront, PopBack

LEMMA FilledField ==
  ASSUME NEW d, Filled(d), NEW k, Accepts(d, k, "hash"), NEW f \in PlainField,
         NEW v \in PlainVal
  PROVE  Filled(PutField(d, k, f, v))
<1> DEFINE h == FieldsAt(d, k)
           g == [x \in DOMAIN h \cup {f} |-> IF x = f THEN v ELSE h[x]]
<1>1. PICK F \in SUBSET PlainField : IsFiniteSet(F) /\ h \in [F -> PlainVal]
  <2>1. CASE k \in DOMAIN d
    BY <2>1 DEF FieldsAt, Accepts, Filled, WellMade
  <2>2. CASE k \notin DOMAIN d
    <3>1. h \in [{} -> PlainVal] /\ IsFiniteSet({})
      BY <2>2, FS_EmptySet DEF FieldsAt
    <3> QED BY <3>1
  <2> QED BY <2>1, <2>2
<1> HIDE DEF h
<1>2. g \in [F \cup {f} -> PlainVal] /\ F \cup {f} \in SUBSET PlainField /\ F \cup {f} # {}
  BY <1>1
<1>3. IsFiniteSet(F \cup {f})
  BY <1>1, FS_AddElement
<1> HIDE DEF g
<1>4. WellMade([hash |-> g, exp |-> Expiry(d, k)])
  BY <1>2, <1>3, MadeOf
<1> QED BY <1>4, FilledPut DEF PutField, g, h

LEMMA FilledMember ==
  ASSUME NEW d, Filled(d), NEW k, Accepts(d, k, "set"), NEW v \in PlainVal
  PROVE  Filled(PutMember(d, k, v))
<1> DEFINE m == MembersAt(d, k)
<1>1. m \in SUBSET PlainVal /\ IsFiniteSet(m)
  <2>1. CASE k \in DOMAIN d
    BY <2>1 DEF MembersAt, Accepts, Filled, WellMade
  <2>2. CASE k \notin DOMAIN d
    BY <2>2, FS_EmptySet DEF MembersAt
  <2> QED BY <2>1, <2>2
<1> HIDE DEF m
<1>2. m \cup {v} \in SUBSET PlainVal /\ IsFiniteSet(m \cup {v}) /\ m \cup {v} # {}
  BY <1>1, FS_AddElement
<1>3. WellMade([set |-> m \cup {v}, exp |-> Expiry(d, k)])
  BY <1>2, MadeOf
<1> QED BY <1>3, FilledPut DEF PutMember, m

LEMMA PlainSuccessor ==
  ASSUME NEW n \in MinInt .. MaxInt
  PROVE  Successor(n) \in PlainVal
<1>1. Successor(n) \in Val /\ Successor(n) \in Int
  BY SuccessorType, KeyspaceAssumption DEF Successor, MinInt
<1> QED BY <1>1, KeyspaceAssumption DEF PlainVal

LEMMA DidFilled ==
  ASSUME NEW d, Filled(d), NEW q \in Command, Spelt(q), NEW t, NEW after, Did(d, q, t, after)
  PROVE  Filled(after)
<1>v. /\ q.op \in {"SET", "LPUSH", "RPUSH", "SADD", "SETEX", "HSET"} => q.val \in PlainVal
      /\ q.op = "HSET" => q.field \in PlainField
  BY CommandFields DEF Spelt, PlainVal, PlainField
<1>1. CASE q.op \in {"SET", "SETEX"}
  <2>1. \E x : after = Put(d, q.key, String(q.val, x))
    BY <1>1 DEF Did
  <2> QED BY <1>1, <1>v, <2>1, MadeOf, FilledPut
<1>2. CASE q.op \in {"GET", "DEL"}
  <2>1. after = Without(d, {q.key})
    BY <1>2 DEF Did
  <2> QED BY <2>1, FilledWithout
<1>3. CASE q.op = "INCR"
  <2> DEFINE n == Successor(IF q.key \in DOMAIN d THEN d[q.key].str ELSE 0)
  <2>1. /\ q.key \in DOMAIN d => IsNumber(d, q.key)
        /\ after = Put(d, q.key, String(n, Forever))
    BY <1>3 DEF Did
  <2>2. n \in PlainVal
    <3>1. 0 \in MinInt .. MaxInt
      BY KeyspaceAssumption DEF MinInt
    <3> QED BY <2>1, <3>1, PlainSuccessor DEF IsNumber
  <2> HIDE DEF n
  <2> QED BY <2>1, <2>2, MadeOf, FilledPut
<1>4. CASE q.op \in {"LPUSH", "RPUSH"}
  <2>1. /\ Accepts(d, q.key, "list")
        /\ after \in {PushFront(d, q.key, q.val), PushBack(d, q.key, q.val)}
    BY <1>4 DEF Did
  <2> QED BY <1>4, <1>v, <2>1, FilledPush
<1>5. CASE q.op \in {"LPOP", "RPOP"}
  <2>1. HasItem(d, q.key) /\ after \in {PopFront(d, q.key), PopBack(d, q.key)}
    BY <1>5 DEF Did
  <2> QED BY <2>1, FilledPop
<1>6. CASE q.op = "LREM"
  <2>1. /\ Holds(d, q.key, "list") /\ Contains(d[q.key].list, q.val)
        /\ after = PutList(d, q.key, RemoveFirst(d[q.key].list, q.val))
    BY <1>6 DEF Did, DropFirst
  <2>2. RemoveFirst(d[q.key].list, q.val) \in Seq(PlainVal)
    BY <2>1, FilledLists, RemoveFirstType
  <2> QED BY <2>1, <2>2, FilledPutList
<1>7. CASE q.op = "LTRIM"
  <2>1. \/ after = Without(d, {q.key})
        \/ /\ Holds(d, q.key, "list")
           /\ \E l : /\ after = PutList(d, q.key, l)
                     /\ \A S : d[q.key].list \in Seq(S) => l \in Seq(S)
    BY <1>7 DEF Did
  <2> QED BY <2>1, FilledWithout, FilledLists, FilledPutList
<1>8. CASE q.op = "HSET"
  <2>1. Accepts(d, q.key, "hash") /\ after = PutField(d, q.key, q.field, q.val)
    BY <1>8 DEF Did
  <2> QED BY <1>8, <1>v, <2>1, FilledField
<1>9. CASE q.op = "SADD"
  <2>1. Accepts(d, q.key, "set") /\ after = PutMember(d, q.key, q.val)
    BY <1>9 DEF Did
  <2> QED BY <1>9, <1>v, <2>1, FilledMember
<1>10. CASE q.op = "RPOPLPUSH"
  <2> DEFINE p == PopBack(d, q.key)
  <2>1. HasItem(d, q.key) /\ after = MoveItem(d, q.key, q.dst)
    BY <1>10 DEF Did
  <2>2. Filled(p) /\ Last(d[q.key].list) \in PlainVal
    BY <2>1, FilledPop
  <2> HIDE DEF p
  <2>3. after = IF Accepts(p, q.dst, "list") THEN PushFront(p, q.dst, Last(d[q.key].list)) ELSE p
    BY <2>1 DEF MoveItem, p
  <2> QED BY <2>2, <2>3, FilledPush
<1> QED BY <1>1, <1>2, <1>3, <1>4, <1>5, <1>6, <1>7, <1>8, <1>9, <1>10 DEF Command

\* what one line of replay_aof can do
LEMMA ReplayDid ==
  ASSUME NEW r, NEW q \in Command, NEW u
  PROVE  \/ ReplayCommand(r, q, u) = r
         \/ Did(r, q, u, ReplayCommand(r, q, u))
         \/ \E n \in MinInt .. MaxInt :
              ReplayCommand(r, q, u) = Put(r, q.key, String(Successor(n), Forever))
<1>1. CASE q.op \in {"SET", "SETEX", "DEL"}
  BY <1>1, ReplayDispatch DEF Did
<1>2. CASE q.op = "INCR"
  <2>1. 0 \in MinInt .. MaxInt
    BY KeyspaceAssumption DEF MinInt
  <2> DEFINE n == IF IsNumber(r, q.key) THEN r[q.key].str ELSE 0
  <2>2. n \in MinInt .. MaxInt
    BY <2>1 DEF IsNumber
  <2>3. ReplayCommand(r, q, u) = Put(r, q.key, String(Successor(n), Forever))
    BY <1>2, ReplayDispatch
  <2> HIDE DEF n
  <2> QED BY <2>2, <2>3
<1>3. CASE q.op = "LPUSH" \/ q.op = "RPUSH"
  <2>1. CASE Accepts(r, q.key, "list")
    BY <1>3, <2>1, ReplayDispatch DEF Did
  <2>2. CASE ~Accepts(r, q.key, "list")
    BY <1>3, <2>2 DEF ReplayCommand
  <2> QED BY <2>1, <2>2
<1>4. CASE q.op \in {"LPOP", "RPOP", "RPOPLPUSH"}
  <2>1. CASE HasItem(r, q.key)
    BY <1>4, <2>1, ReplayDispatch DEF Did
  <2>2. CASE ~HasItem(r, q.key)
    BY <1>4, <2>2 DEF ReplayCommand
  <2> QED BY <2>1, <2>2
<1>5. CASE q.op = "LREM"
  <2> DEFINE there == Holds(r, q.key, "list") /\ Contains(r[q.key].list, q.val)
  <2>1. CASE there
    BY <1>5, <2>1, ReplayDispatch DEF Did
  <2>2. CASE ~there
    BY <1>5, <2>2 DEF ReplayCommand
  <2> QED BY <2>1, <2>2
<1>6. CASE q.op = "HSET"
  <2>1. CASE Accepts(r, q.key, "hash")
    BY <1>6, <2>1, ReplayDispatch DEF Did
  <2>2. CASE ~Accepts(r, q.key, "hash")
    BY <1>6, <2>2 DEF ReplayCommand
  <2> QED BY <2>1, <2>2
<1>7. CASE q.op = "SADD"
  <2>1. CASE Accepts(r, q.key, "set")
    BY <1>7, <2>1, ReplayDispatch DEF Did
  <2>2. CASE ~Accepts(r, q.key, "set")
    BY <1>7, <2>2 DEF ReplayCommand
  <2> QED BY <2>1, <2>2
<1>8. CASE q.op \in {"GET", "LTRIM"}
  BY <1>8 DEF ReplayCommand
<1> QED BY <1>1, <1>2, <1>3, <1>4, <1>5, <1>6, <1>7, <1>8 DEF Command

LEMMA ReplayLineSound ==
  ASSUME NEW r, IsDatabase(r), OnlyStrings(r), Filled(r), NEW line, Loggable(line.cmd), NEW u
  PROVE  OnlyStrings(ReplayLine(r, line, u)) /\ Filled(ReplayLine(r, line, u))
<1> DEFINE q == line.cmd
           after == ReplayCommand(r, q, u)
<1>0. q \in Command
  BY DEF Loggable
<1>1. CASE ~ReadsBack(line)
  BY <1>1 DEF ReplayLine
<1>2. CASE ReadsBack(line)
  <2>1. ReplayLine(r, line, u) = after /\ Spelt(q)
    BY <1>0, <1>2, ReadsSpelt DEF ReplayLine
  <2> HIDE DEF q
  <2>2. CASE after = r
    BY <2>1, <2>2
  <2>3. CASE Did(r, q, u, after)
    <3> HIDE DEF after
    <3> QED BY <1>0, <2>1, <2>3, DidFilled, DidOnlyStrings
  <2>4. CASE \E n \in MinInt .. MaxInt : after = Put(r, q.key, String(Successor(n), Forever))
    <3>1. PICK n \in MinInt .. MaxInt : after = Put(r, q.key, String(Successor(n), Forever))
      BY <2>4
    <3>2. WellMade(String(Successor(n), Forever))
      BY PlainSuccessor, MadeOf
    <3>3. "str" \in DOMAIN String(Successor(n), Forever)
      BY DEF String
    <3> HIDE DEF after
    <3> QED BY <2>1, <3>1, <3>2, <3>3, FilledPut, OnlyStringsPut
  <2> QED BY <1>0, <2>2, <2>3, <2>4, ReplayDid
<1> QED BY <1>1, <1>2

Sound(d) == IsDatabase(d) /\ OnlyStrings(d) /\ Filled(d)

LEMMA EmptySound == Sound(EmptyDb)
BY EmptyType, FS_EmptySet DEF Sound, OnlyStrings, Filled, EmptyDb

\* whatever the log, what replay_aof makes of it can be written out again
LEMMA ReplaySound ==
  ASSUME NEW S, \A line \in S : Loggable(line.cmd), NEW lines \in Seq(S), NEW t \in Nat
  PROVE  Sound(Replay(lines, t))
<1> DEFINE P == {s \in Seq(S) : Sound(Replay(s, t))}
<1>1. <<>> \in P
  BY ReplayNothing, EmptySound
<1>2. ASSUME NEW s \in Seq(S), NEW x \in S, s \in P
      PROVE  Append(s, x) \in P
  <2>1. Replay(Append(s, x), t) = ReplayLine(Replay(s, t), x, t)
    BY ReplayOneMore
  <2>2. Sound(Replay(s, t)) /\ Loggable(x.cmd)
    BY <1>2
  <2>3. Sound(ReplayLine(Replay(s, t), x, t))
    BY <2>2, ReplayLineType, ReplayLineSound DEF Sound
  <2>4. Append(s, x) \in Seq(S)
    OBVIOUS
  <2> QED BY <2>1, <2>3, <2>4
<1>3. Seq(S) \subseteq P
  <2> HIDE DEF P
  <2> QED BY <1>1, <1>2, SequencesByInduction
<1> QED BY <1>3

\* and what handlers leave
LEMMA ExecSound ==
  ASSUME NEW d, Sound(d), NEW q \in Command, Legible(q), NEW t \in Nat
  PROVE  Sound(Exec(d, q, t).db)
<1>1. IsDatabase(Exec(d, q, t).db)
  BY ExecType DEF Sound
<1>2. CASE Exec(d, q, t).db = d
  BY <1>2
<1>3. CASE Did(d, q, t, Exec(d, q, t).db)
  <2>1. PICK after : after = Exec(d, q, t).db
    OBVIOUS
  <2>2. Did(d, q, t, after) /\ Spelt(q)
    BY <1>3, <2>1, LegibleSpelt
  <2>3. OnlyStrings(after) /\ Filled(after)
    BY <2>2, DidFilled, DidOnlyStrings DEF Sound
  <2> QED BY <1>1, <2>1, <2>3 DEF Sound
<1> QED BY <1>2, <1>3, ExecDid DEF Sound

LEMMA WithoutSound ==
  ASSUME NEW d, Sound(d), NEW ks
  PROVE  Sound(Without(d, ks))
<1>1. OnlyStrings(Without(d, ks))
  BY DEF Sound, OnlyStrings, Without
<1> QED BY <1>1, WithoutType, FilledWithout DEF Sound

-----------------------------------------------------------------------------
(* A text that is put together piece by piece.                             *)

\* f[i] is what the first i of the n texts make, one after the other
Piecewise(f, texts, n) ==
  f[0] = <<>> /\ \A i \in 1 .. n : f[i] = f[i - 1] \o texts[i]

LEMMA Gathered ==
  ASSUME NEW S, NEW seqs \in Seq(Seq(S)), NEW n \in Nat, n = Len(seqs)
  PROVE  \E f \in [0 .. n -> Seq(S)] : Piecewise(f, seqs, n)
<1> DEFINE N == {m \in Nat : m <= n => \E f \in [0 .. m -> Seq(S)] : Piecewise(f, seqs, m)}
<1>0. \A i \in 1 .. n : seqs[i] \in Seq(S)
  OBVIOUS
<1>1. 0 \in N
  <2> DEFINE f == [i \in 0 .. 0 |-> <<>>]
  <2>1. f \in [0 .. 0 -> Seq(S)] /\ Piecewise(f, seqs, 0)
    BY DEF Piecewise
  <2> QED BY <2>1
<1>2. ASSUME NEW m \in Nat, m \in N PROVE m + 1 \in N
  <2>1. SUFFICES ASSUME m + 1 <= n
                 PROVE  \E f \in [0 .. m + 1 -> Seq(S)] : Piecewise(f, seqs, m + 1)
    OBVIOUS
  <2>2. PICK f \in [0 .. m -> Seq(S)] : Piecewise(f, seqs, m)
    BY <1>2, <2>1
  <2> HIDE DEF N
  <2> DEFINE h == [i \in 0 .. m + 1 |-> IF i = m + 1 THEN f[m] \o seqs[m + 1] ELSE f[i]]
  <2>3. f[m] \o seqs[m + 1] \in Seq(S)
    <3>1. f[m] \in Seq(S) /\ seqs[m + 1] \in Seq(S)
      BY <1>0, <2>1
    <3> QED BY <3>1, ConcatProperties
  <2>4. h \in [0 .. m + 1 -> Seq(S)]
    BY <2>3
  <2>5. \A i \in 0 .. m : h[i] = f[i]
    OBVIOUS
  <2>6. h[m + 1] = f[m] \o seqs[m + 1]
    OBVIOUS
  <2> HIDE DEF h
  <2>7. h[0] = <<>>
    BY <2>2, <2>5 DEF Piecewise
  <2>8. ASSUME NEW i \in 1 .. m + 1 PROVE h[i] = h[i - 1] \o seqs[i]
    <3>1. CASE i = m + 1
      <4>1. i - 1 = m /\ h[i - 1] = f[m]
        BY <2>5, <3>1
      <4> QED BY <2>6, <3>1, <4>1
    <3>2. CASE i # m + 1
      <4>1. i \in 1 .. m /\ i \in 0 .. m /\ i - 1 \in 0 .. m
        BY <3>2
      <4>2. h[i] = f[i] /\ h[i - 1] = f[i - 1]
        BY <2>5, <4>1
      <4> QED BY <2>2, <4>1, <4>2 DEF Piecewise
    <3> QED BY <3>1, <3>2
  <2>9. Piecewise(h, seqs, m + 1)
    BY <2>7, <2>8 DEF Piecewise
  <2> QED BY <2>4, <2>9
<1> HIDE DEF N
<1>3. n \in N
  BY <1>1, <1>2, NumbersByInduction
<1> QED BY <1>3 DEF N

\* the equation that FlattenSeq solves
Flattens(h, seqs) ==
  h = [i \in 1 .. Len(seqs) |-> IF i = 1 THEN seqs[i] ELSE h[i - 1] \o seqs[i]]

LEMMA FlattenParts ==
  ASSUME NEW S, NEW seqs \in Seq(Seq(S)), NEW n \in Nat, n = Len(seqs)
  PROVE  \E f \in [0 .. n -> Seq(S)] : Piecewise(f, seqs, n) /\ FlattenSeq(seqs) = f[n]
<1> DEFINE h == CHOOSE h : Flattens(h, seqs)
<1>0. n \in Nat /\ \A i \in 1 .. n : seqs[i] \in Seq(S)
  OBVIOUS
<1>1. PICK f \in [0 .. n -> Seq(S)] : Piecewise(f, seqs, n)
  BY Gathered
<1>a. f[0] = <<>> /\ \A i \in 1 .. n : f[i] = f[i - 1] \o seqs[i]
  BY <1>1 DEF Piecewise
<1>2. CASE n = 0
  <2>1. seqs = <<>>
    <3> DEFINE T == Seq(S)
    <3>1. seqs \in Seq(T) /\ Len(seqs) = 0
      BY <1>2
    <3> HIDE DEF T
    <3> QED BY <3>1, EmptySeq
  <2>2. FlattenSeq(seqs) = seqs
    BY <2>1 DEF FlattenSeq
  <2> QED BY <1>1, <1>2, <1>a, <2>1, <2>2
<1>3. CASE n # 0
  <2>1. FlattenSeq(seqs) = h[n]
    BY <1>3, Zenon DEF FlattenSeq, Flattens
  <2> DEFINE g == [i \in 1 .. n |-> f[i]]
  <2>2. Flattens(g, seqs)
    <3>1. ASSUME NEW i \in 1 .. n
          PROVE  g[i] = IF i = 1 THEN seqs[i] ELSE g[i - 1] \o seqs[i]
      <4>1. CASE i = 1
        <5>1. seqs[1] \in Seq(S) /\ 1 \in 1 .. n /\ 1 - 1 = 0
          BY <1>0, <4>1
        <5>2. f[1] = <<>> \o seqs[1]
          BY <1>a, <5>1
        <5>3. <<>> \o seqs[1] = seqs[1]
          BY <5>1, ConcatEmptySeq
        <5> QED BY <4>1, <5>1, <5>2, <5>3
      <4>2. CASE i # 1
        <5>1. i - 1 \in 1 .. n
          BY <1>0, <4>2
        <5> QED BY <1>a, <4>2, <5>1
      <4> QED BY <4>1, <4>2
    <3> QED BY <3>1 DEF Flattens
  <2>3. Flattens(h, seqs)
    BY <2>2
  <2> HIDE DEF h
  <2>4. \A i \in 1 .. n : h[i] = IF i = 1 THEN seqs[i] ELSE h[i - 1] \o seqs[i]
    BY <2>3 DEF Flattens
  <2> DEFINE N == {m \in Nat : m \in 1 .. n => h[m] = f[m]}
  <2>5. 0 \in N
    OBVIOUS
  <2>6. ASSUME NEW m \in Nat, m \in N PROVE m + 1 \in N
    <3>1. SUFFICES ASSUME m + 1 \in 1 .. n PROVE h[m + 1] = f[m + 1]
      OBVIOUS
    <3>2. f[m + 1] = f[m] \o seqs[m + 1] /\ m + 1 - 1 = m
      <4>1. PICK j : j = m + 1
        OBVIOUS
      <4>2. j - 1 = m /\ j \in 1 .. n
        BY <3>1, <4>1
      <4>3. f[j] = f[j - 1] \o seqs[j]
        BY <1>a, <4>2
      <4> QED BY <4>1, <4>2, <4>3
    <3>3. CASE m = 0
      <4>1. h[1] = seqs[1] /\ seqs[1] \in Seq(S)
        BY <1>0, <2>4, <3>1, <3>3
      <4>2. f[1] = <<>> \o seqs[1]
        <5>1. f[0] = <<>> /\ 0 + 1 = 1
          BY <1>a
        <5>2. f[0 + 1] = f[0] \o seqs[0 + 1]
          BY <3>2, <3>3
        <5> QED BY <5>1, <5>2
      <4> QED BY <3>3, <4>1, <4>2, ConcatEmptySeq
    <3>4. CASE m # 0
      <4>1. m \in 1 .. n /\ m + 1 # 1
        BY <1>0, <3>1, <3>4
      <4>2. h[m] = f[m]
        BY <2>6, <4>1
      <4>3. h[m + 1] = h[m] \o seqs[m + 1]
        <5>1. PICK j : j = m + 1
          OBVIOUS
        <5>2. j - 1 = m /\ j \in 1 .. n /\ j # 1
          BY <3>1, <3>4, <5>1
        <5>3. h[j] = h[j - 1] \o seqs[j]
          BY <2>4, <5>2
        <5> QED BY <5>1, <5>2, <5>3
      <4> QED BY <3>2, <4>2, <4>3
    <3> QED BY <3>3, <3>4
  <2>7. h[n] = f[n]
    <3> HIDE DEF N
    <3>1. n \in N
      BY <1>0, <2>5, <2>6, NumbersByInduction
    <3> QED BY <1>0, <1>3, <3>1 DEF N
  <2> QED BY <1>1, <2>1, <2>7 DEF h
<1> QED BY <1>2, <1>3

\* g are the databases that the lines of l make of r, one after the other
Onto(g, r, l, u) == g[0] = r /\ \A i \in 1 .. Len(l) : g[i] = ReplayLine(g[i - 1], l[i], u)

\* more lines at the end are replayed onto what those before them made
LEMMA ReplayMore ==
  ASSUME NEW S, NEW p \in Seq(S), NEW l \in Seq(S), NEW u
  PROVE  \E g : Onto(g, Replay(p, u), l, u) /\ g[Len(l)] = Replay(p \o l, u)
<1> DEFINE n == Len(l)
           g == [i \in 0 .. n |-> Replay(p \o SubSeq(l, 1, i), u)]
<1>0. n \in Nat
  OBVIOUS
<1>1. g[0] = Replay(p, u)
  <2>1. SubSeq(l, 1, 0) = <<>> /\ p \o <<>> = p
    BY ConcatEmptySeq
  <2>2. g[0] = Replay(p \o SubSeq(l, 1, 0), u)
    BY <1>0
  <2> QED BY <2>1, <2>2, Zenon
<1>2. g[n] = Replay(p \o l, u)
  <2>1. SubSeq(l, 1, n) = l
    OBVIOUS
  <2>2. g[n] = Replay(p \o SubSeq(l, 1, n), u)
    BY <1>0
  <2> QED BY <2>1, <2>2, Zenon
<1>3. ASSUME NEW i \in 1 .. n PROVE g[i] = ReplayLine(g[i - 1], l[i], u)
  <2> DEFINE a == SubSeq(l, 1, i - 1)
  <2>1. a \in Seq(S) /\ l[i] \in S /\ SubSeq(l, 1, i) = Append(a, l[i])
    OBVIOUS
  <2>2. g[i] = Replay(p \o SubSeq(l, 1, i), u) /\ g[i - 1] = Replay(p \o a, u)
    BY <1>0
  <2> HIDE DEF a
  <2>3. p \o Append(a, l[i]) = Append(p \o a, l[i]) /\ p \o a \in Seq(S)
    BY <2>1
  <2>4. Replay(Append(p \o a, l[i]), u) = ReplayLine(Replay(p \o a, u), l[i], u)
    BY <2>1, <2>3, ReplayOneMore
  <2> HIDE DEF g
  <2> QED BY <2>1, <2>2, <2>3, <2>4, Zenon
<1> HIDE DEF g
<1> QED BY <1>1, <1>2, <1>3 DEF Onto

-----------------------------------------------------------------------------
(* The text of one key, as the compactor writes it.                        *)

\* the lines of a text that replay_aof reads, and that are about k
LinesAt(k) == {line \in HandlerLine : ReadsBack(line) /\ KeysOf(line.cmd) = {k}}

LEMMA TextLines ==
  ASSUME NEW k \in Keys
  PROVE  /\ \A v \in PlainVal : Line(Set(k, v), TRUE) \in LinesAt(k)
         /\ \A n \in Nat, v \in PlainVal : Line(SetEx(k, n, v), TRUE) \in LinesAt(k)
         /\ \A v \in PlainVal : Line(LPush(k, v), TRUE) \in LinesAt(k)
         /\ \A f \in PlainField, v \in PlainVal : Line(HSet(k, f, v), TRUE) \in LinesAt(k)
         /\ \A v \in PlainVal : Line(SAdd(k, v), TRUE) \in LinesAt(k)
<1> DEFINE Good(q) == /\ q \in Command /\ Loggable(q) /\ KeysOf(q) = {k}
                      /\ "val" \in DOMAIN q /\ q.val \in PlainVal
                      /\ "field" \in DOMAIN q => q.field \in PlainField
<1>1. ASSUME NEW q, Good(q) PROVE Line(q, TRUE) \in LinesAt(k)
  <2> DEFINE line == Line(q, TRUE)
  <2>1. line.cmd = q /\ line.quoted = TRUE /\ line \in LogLine
    BY <1>1 DEF Line, LogLine
  <2> HIDE DEF line
  <2>2. ReadsBack(line)
    <3>1. Bare(line) \subseteq PlainField
      BY <1>1, <2>1 DEF Bare
    <3>2. Written(line) \subseteq PlainField \cup PlainVal
      BY <1>1, <2>1, <3>1 DEF Written
    <3>3. \A w \in PlainField : w \notin Blank /\ w \notin Empty
      BY DEF PlainField
    <3>4. \A w \in PlainVal : w \notin Empty
      BY DEF PlainVal
    <3> QED BY <3>1, <3>2, <3>3, <3>4 DEF ReadsBack
  <2>3. line \in LogLine /\ Loggable(line.cmd) /\ KeysOf(line.cmd) = {k}
    BY <1>1, <2>1
  <2> QED BY <2>2, <2>3 DEF LinesAt, HandlerLine, line
<1> HIDE DEF Good
<1>2. ASSUME NEW v \in PlainVal
      PROVE  Good(Set(k, v)) /\ Good(LPush(k, v)) /\ Good(SAdd(k, v))
  <2>1. v \in Val
    BY DEF PlainVal
  <2>2. Good(Set(k, v))
    BY <2>1 DEF Good, Set, Command, Loggable, KeysOf
  <2>3. Good(LPush(k, v))
    BY <2>1 DEF Good, LPush, Command, Loggable, KeysOf
  <2>4. Good(SAdd(k, v))
    BY <2>1 DEF Good, SAdd, Command, Loggable, KeysOf
  <2> QED BY <2>2, <2>3, <2>4
<1>3. ASSUME NEW n \in Nat, NEW v \in PlainVal
      PROVE  Good(SetEx(k, n, v))
  <2>1. v \in Val
    BY DEF PlainVal
  <2>2. SetEx(k, n, v) \in Command
    BY <2>1 DEF SetEx, Command
  <2> QED BY <2>2 DEF Good, SetEx, Loggable, KeysOf
<1>4. ASSUME NEW f \in PlainField, NEW v \in PlainVal
      PROVE  Good(HSet(k, f, v))
  <2>1. v \in Val /\ f \in Words
    BY DEF PlainVal, PlainField
  <2>2. HSet(k, f, v) \in Command
    BY <2>1 DEF HSet, Command
  <2> QED BY <2>2 DEF Good, HSet, Loggable, KeysOf
<1> QED BY <1>1, <1>2, <1>3, <1>4

\* what replay_aof does with them
LEMMA TextEffects ==
  ASSUME NEW k \in Keys, NEW r, NEW u, NEW v \in PlainVal
  PROVE  /\ ReplayLine(r, Line(Set(k, v), TRUE), u) = Put(r, k, String(v, Forever))
         /\ \A n \in Nat : ReplayLine(r, Line(SetEx(k, n, v), TRUE), u)
              = Put(r, k, String(v, u + n * TicksPerSec))
         /\ Accepts(r, k, "list") =>
              ReplayLine(r, Line(LPush(k, v), TRUE), u) = PushFront(r, k, v)
         /\ \A f \in PlainField : Accepts(r, k, "hash") =>
              ReplayLine(r, Line(HSet(k, f, v), TRUE), u) = PutField(r, k, f, v)
         /\ Accepts(r, k, "set") =>
              ReplayLine(r, Line(SAdd(k, v), TRUE), u) = PutMember(r, k, v)
<1>1. \A q : Line(q, TRUE) \in LinesAt(k) =>
        ReplayLine(r, Line(q, TRUE), u) = ReplayCommand(r, q, u)
  BY DEF LinesAt, ReplayLine, Line
<1>2. ReplayCommand(r, Set(k, v), u) = Put(r, k, String(v, Forever))
  <2>1. PICK q : q = Set(k, v)
    OBVIOUS
  <2>2. q.op = "SET" /\ q.key = k /\ q.val = v
    BY <2>1 DEF Set
  <2>3. ReplayCommand(r, q, u) = Put(r, q.key, String(q.val, Forever))
    BY <2>2, ReplayDispatch
  <2> QED BY <2>1, <2>2, <2>3
<1>3. ASSUME NEW n \in Nat
      PROVE  ReplayCommand(r, SetEx(k, n, v), u) = Put(r, k, String(v, u + n * TicksPerSec))
  <2>1. PICK q : q = SetEx(k, n, v)
    OBVIOUS
  <2>2. q.op = "SETEX" /\ q.key = k /\ q.val = v /\ q.secs = n
    BY <2>1 DEF SetEx
  <2>3. ReplayCommand(r, q, u) = Put(r, q.key, String(q.val, u + q.secs * TicksPerSec))
    BY <2>2, ReplayDispatch
  <2> QED BY <2>1, <2>2, <2>3
<1>4. ASSUME Accepts(r, k, "list")
      PROVE  ReplayCommand(r, LPush(k, v), u) = PushFront(r, k, v)
  <2>1. PICK q : q = LPush(k, v)
    OBVIOUS
  <2>2. q.op = "LPUSH" /\ q.key = k /\ q.val = v
    BY <2>1 DEF LPush
  <2>3. ReplayCommand(r, q, u) = PushFront(r, q.key, q.val)
    BY <1>4, <2>2, ReplayDispatch
  <2> QED BY <2>1, <2>2, <2>3
<1>5. ASSUME NEW f, Accepts(r, k, "hash")
      PROVE  ReplayCommand(r, HSet(k, f, v), u) = PutField(r, k, f, v)
  <2>1. PICK q : q = HSet(k, f, v)
    OBVIOUS
  <2>2. q.op = "HSET" /\ q.key = k /\ q.val = v /\ q.field = f
    BY <2>1 DEF HSet
  <2>3. ReplayCommand(r, q, u) = PutField(r, q.key, q.field, q.val)
    BY <1>5, <2>2, ReplayDispatch
  <2> QED BY <2>1, <2>2, <2>3
<1>6. ASSUME Accepts(r, k, "set")
      PROVE  ReplayCommand(r, SAdd(k, v), u) = PutMember(r, k, v)
  <2>1. PICK q : q = SAdd(k, v)
    OBVIOUS
  <2>2. q.op = "SADD" /\ q.key = k /\ q.val = v
    BY <2>1 DEF SAdd
  <2>3. ReplayCommand(r, q, u) = PutMember(r, q.key, q.val)
    BY <1>6, <2>2, ReplayDispatch
  <2> QED BY <2>1, <2>2, <2>3
<1> QED BY <1>1, <1>2, <1>3, <1>4, <1>5, <1>6, TextLines

\* the line a rewriter writes for q
Emitted(q) == Line(q, TRUE)

\* n seconds from u
SecondsFrom(u, n) == u + n * TicksPerSec

LEMMA SetExEffect ==
  ASSUME NEW k \in Keys, NEW r, NEW u, NEW v \in PlainVal, NEW n \in Nat,
         NEW line, line = Emitted(SetEx(k, n, v))
  PROVE  ReplayLine(r, line, u) = Put(r, k, String(v, SecondsFrom(u, n)))
<1>1. PICK q : q = SetEx(k, n, v)
  OBVIOUS
<1>2. q.op = "SETEX" /\ q.key = k /\ q.val = v /\ q.secs = n
  BY <1>1 DEF SetEx
<1>3. line \in LinesAt(k) /\ line = Line(q, TRUE)
  BY <1>1, TextLines DEF Emitted
<1>4. ReplayLine(r, line, u) = ReplayCommand(r, q, u)
  BY <1>3 DEF LinesAt, ReplayLine, Line
<1>5. ReplayCommand(r, q, u) = Put(r, q.key, String(q.val, u + q.secs * TicksPerSec))
  BY <1>2, ReplayDispatch
<1> QED BY <1>2, <1>4, <1>5 DEF SecondsFrom

LEMMA PushEffect ==
  ASSUME NEW k \in Keys, NEW r, Accepts(r, k, "list"), NEW u, NEW v \in PlainVal,
         NEW line, line = Emitted(LPush(k, v))
  PROVE  ReplayLine(r, line, u) = PushFront(r, k, v)
BY TextEffects DEF Emitted

LEMMA FieldEffect ==
  ASSUME NEW k \in Keys, NEW r, Accepts(r, k, "hash"), NEW u, NEW v \in PlainVal,
         NEW f \in PlainField, NEW line, line = Emitted(HSet(k, f, v))
  PROVE  ReplayLine(r, line, u) = PutField(r, k, f, v)
BY TextEffects DEF Emitted

LEMMA MemberEffect ==
  ASSUME NEW k \in Keys, NEW r, Accepts(r, k, "set"), NEW u, NEW v \in PlainVal,
         NEW line, line = Emitted(SAdd(k, v))
  PROVE  ReplayLine(r, line, u) = PutMember(r, k, v)
BY TextEffects DEF Emitted

LEMMA PutPut ==
  ASSUME NEW r, NEW k, NEW e, NEW f
  PROVE  /\ Put(Put(r, k, e), k, f) = Put(r, k, f)
         /\ k \in DOMAIN Put(r, k, e) /\ Put(r, k, e)[k] = e
BY DEF Put

\* a key that has just been put
LEMMA JustPut ==
  ASSUME NEW p, NEW r, NEW k, NEW e, p = Put(r, k, e)
  PROVE  k \in DOMAIN p /\ p[k] = e
BY PutPut

\* the lines of l put the entries of E at k, each over the one before
PutsAlong(l, E, n, r, k, u) ==
  /\ ReplayLine(r, l[1], u) = Put(r, k, E[1])
  /\ \A i \in 1 .. n - 1 : ReplayLine(Put(r, k, E[i]), l[i + 1], u) = Put(r, k, E[i + 1])

LEMMA OntoPuts ==
  ASSUME NEW r, NEW k, NEW l, NEW u, NEW n \in Nat \ {0}, Len(l) = n,
         NEW g, Onto(g, r, l, u), NEW E, PutsAlong(l, E, n, r, k, u)
  PROVE  g[n] = Put(r, k, E[n])
<1> DEFINE N == {m \in Nat : m \in 1 .. n => g[m] = Put(r, k, E[m])}
<1>1. 0 \in N
  OBVIOUS
<1>2. ASSUME NEW m \in Nat, m \in N PROVE m + 1 \in N
  <2>1. PICK i : i = m + 1
    OBVIOUS
  <2>2. ASSUME i \in 1 .. n PROVE g[i] = Put(r, k, E[i])
    <3>1. i - 1 = m /\ g[i] = ReplayLine(g[i - 1], l[i], u)
      BY <2>1, <2>2 DEF Onto
    <3>2. CASE m = 0
      BY <2>1, <3>1, <3>2 DEF Onto, PutsAlong
    <3>3. CASE m # 0
      <4>1. m \in 1 .. n - 1 /\ m \in 1 .. n
        BY <2>1, <2>2, <3>3
      <4>2. g[m] = Put(r, k, E[m])
        BY <1>2, <4>1
      <4>3. ReplayLine(Put(r, k, E[m]), l[i], u) = Put(r, k, E[i])
        BY <2>1, <4>1 DEF PutsAlong
      <4> QED BY <3>1, <4>2, <4>3
    <3> QED BY <3>2, <3>3
  <2> QED BY <2>1, <2>2
<1> HIDE DEF N
<1>3. n \in N
  BY <1>1, <1>2, NumbersByInduction
<1> QED BY <1>3 DEF N

\* what is written for a hash and a set whose fields and members are listed as m
HashLines(k, h, m) == [i \in DOMAIN m |-> Line(HSet(k, m[i], h[m[i]]), TRUE)]
SetLines(k, m) == [i \in DOMAIN m |-> Line(SAdd(k, m[i]), TRUE)]

\* which text is written for which entry
LEMMA TextOfString ==
  ASSUME NEW d, NEW k \in DOMAIN d, NEW t, NEW e \in Entry, e = d[k], "str" \in DOMAIN e
  PROVE  SnapshotOf(d, k, t) = StringLines(k, e, t)
<1>1. DOMAIN e = {"str", "exp"}
  BY EntryFields DEF Kinds
<1> QED BY <1>1 DEF SnapshotOf

LEMMA TextOfList ==
  ASSUME NEW d, NEW k \in DOMAIN d, NEW t, NEW e \in Entry, e = d[k], "list" \in DOMAIN e
  PROVE  SnapshotOf(d, k, t) = ListLines(k, e.list)
<1>1. DOMAIN e = {"list", "exp"}
  BY EntryFields DEF Kinds
<1> QED BY <1>1 DEF SnapshotOf

LEMMA TextOfHash ==
  ASSUME NEW d, NEW k \in DOMAIN d, NEW t, NEW e \in Entry, e = d[k], "hash" \in DOMAIN e,
         NEW m, m = SetToSeq(DOMAIN e.hash)
  PROVE  SnapshotOf(d, k, t) = HashLines(k, e.hash, m)
<1>1. DOMAIN e = {"hash", "exp"}
  BY EntryFields DEF Kinds
<1> QED BY <1>1 DEF SnapshotOf, HashLines, SetLines

LEMMA TextOfSet ==
  ASSUME NEW d, NEW k \in DOMAIN d, NEW t, NEW e \in Entry, e = d[k], "set" \in DOMAIN e,
         NEW m, m = SetToSeq(e.set)
  PROVE  SnapshotOf(d, k, t) = SetLines(k, m)
<1>1. DOMAIN e = {"set", "exp"}
  BY EntryFields DEF Kinds
<1> QED BY <1>1 DEF SnapshotOf, HashLines, SetLines

(***************************************************************************)
(* What a text written at t makes of an entry when it is replayed at u: a  *)
(* string that was to live has whole seconds left, counted from u.         *)
(***************************************************************************)
Rebuilt(e, f, t, u) ==
  /\ Alike(e, f)
  /\ f.exp # Forever =>
       /\ f.exp >= t
       /\ e.exp = u + ((f.exp - t) \div TicksPerSec) * TicksPerSec

\* the entries of which it says nothing
Absent(f, t) ==
  \/ f.exp # Forever /\ t > f.exp
  \/ "list" \in DOMAIN f /\ f.list = <<>>

\* r becomes a: the entry f is rebuilt at k
Rewritten(a, r, k, f, t, u) ==
  IF Absent(f, t) THEN a = r ELSE \E e : Rebuilt(e, f, t, u) /\ a = Put(r, k, e)

Rewrites(l, r, k, f, t, u) ==
  /\ l \in Seq(LinesAt(k))
  /\ \A g : Onto(g, r, l, u) => Rewritten(g[Len(l)], r, k, f, t, u)

LEMMA StringText ==
  ASSUME NEW k \in Keys, NEW f \in Entry, WellMade(f), "str" \in DOMAIN f,
         NEW t \in Nat, NEW u \in Nat, NEW r
  PROVE  Rewrites(StringLines(k, f, t), r, k, f, t, u)
<1> DEFINE secs == (f.exp - t) \div TicksPerSec
           once == f.exp # Forever /\ f.exp >= t
<1>1. f.exp \in Time /\ f.str \in PlainVal /\ DOMAIN f = {"str", "exp"}
  BY EntryFields DEF WellMade, Kinds
<1>2. \A x : Len(<<x>>) = 1 /\ <<x>>[1] = x
  OBVIOUS
<1>3. ASSUME NEW line \in LinesAt(k), NEW e, Rebuilt(e, f, t, u), ~Absent(f, t),
             ReplayLine(r, line, u) = Put(r, k, e)
      PROVE  Rewrites(<<line>>, r, k, f, t, u)
  <2>1. <<line>> \in Seq(LinesAt(k))
    OBVIOUS
  <2>2. ASSUME NEW g, Onto(g, r, <<line>>, u)
        PROVE  g[1] = Put(r, k, e)
    <3>1. 1 \in 1 .. 1 /\ 1 - 1 = 0
      OBVIOUS
    <3> QED BY <1>2, <1>3, <2>2, <3>1 DEF Onto
  <2> QED BY <1>2, <1>3, <2>1, <2>2 DEF Rewrites, Rewritten
<1>4. CASE f.exp = Forever
  <2>1. Rebuilt(String(f.str, Forever), f, t, u) /\ ~Absent(f, t)
    BY <1>1, <1>4 DEF Rebuilt, Alike, String, Absent
  <2>2. StringLines(k, f, t) = <<Line(Set(k, f.str), TRUE)>>
    BY <1>4 DEF StringLines
  <2> QED BY <1>1, <1>3, <2>1, <2>2, TextLines, TextEffects
<1>5. CASE f.exp # Forever /\ f.exp >= t
  <2>1. f.exp \in Nat /\ secs \in Nat
    BY <1>1, <1>5, KeyspaceAssumption DEF Time
  <2>2. u + secs * TicksPerSec \in Nat
    BY <2>1, KeyspaceAssumption
  <2> DEFINE e == String(f.str, u + secs * TicksPerSec)
  <2>3. Rebuilt(e, f, t, u) /\ ~Absent(f, t)
    <3>1. e.exp = u + secs * TicksPerSec /\ e.str = f.str /\ DOMAIN e = {"str", "exp"}
      BY DEF String
    <3>2. e.exp # Forever
      BY <2>2, <3>1, KeyspaceAssumption
    <3> HIDE DEF e, secs
    <3>3. Alike(e, f)
      BY <1>1, <1>5, <3>1, <3>2 DEF Alike
    <3>4. ~Absent(f, t)
      BY <1>1, <1>5, <2>1 DEF Absent
    <3> QED BY <1>5, <3>1, <3>3, <3>4 DEF Rebuilt, secs
  <2>4. StringLines(k, f, t) = <<Line(SetEx(k, secs, f.str), TRUE)>>
    BY <1>5 DEF StringLines
  <2>5. ReplayLine(r, Line(SetEx(k, secs, f.str), TRUE), u) = Put(r, k, e)
    <3> DEFINE x == u + secs * TicksPerSec
               line == Line(SetEx(k, secs, f.str), TRUE)
    <3>1. secs \in Nat /\ f.str \in PlainVal /\ x = u + secs * TicksPerSec
          /\ line = Line(SetEx(k, secs, f.str), TRUE)
      BY <1>1, <2>1
    <3> HIDE DEF secs, x, line
    <3>2. PICK v \in PlainVal : v = f.str
      BY <3>1
    <3>3. line = Emitted(SetEx(k, secs, v))
      BY <3>1, <3>2 DEF Emitted
    <3>4. ReplayLine(r, line, u) = Put(r, k, String(v, SecondsFrom(u, secs)))
      <4>1. secs \in Nat
        BY <3>1
      <4> QED BY <3>3, <4>1, SetExEffect
    <3>5. SecondsFrom(u, secs) = x
      BY <3>1 DEF SecondsFrom
    <3> QED BY <3>2, <3>4, <3>5 DEF x, line
  <2>6. Line(SetEx(k, secs, f.str), TRUE) \in LinesAt(k)
    <3> HIDE DEF secs
    <3> QED BY <1>1, <2>1, TextLines
  <2> HIDE DEF e, secs
  <2> QED BY <1>3, <2>3, <2>4, <2>5, <2>6
<1>6. CASE f.exp # Forever /\ ~(f.exp >= t)
  <2>1. f.exp \in Nat /\ t > f.exp
    BY <1>1, <1>6 DEF Time
  <2>2. StringLines(k, f, t) = <<>> /\ Absent(f, t)
    BY <1>6, <2>1 DEF StringLines, Absent
  <2>3. <<>> \in Seq(LinesAt(k)) /\ Len(<<>>) = 0
    OBVIOUS
  <2> QED BY <2>2, <2>3 DEF Rewrites, Rewritten, Onto
<1> QED BY <1>4, <1>5, <1>6

\* a text that puts one entry after the other rewrites to the last one
LEMMA TextPuts ==
  ASSUME NEW k \in Keys, NEW f, NEW t \in Nat, NEW u \in Nat, NEW r,
         NEW n \in Nat \ {0}, NEW l \in [1 .. n -> LinesAt(k)], NEW E,
         PutsAlong(l, E, n, r, k, u), Rebuilt(E[n], f, t, u), ~Absent(f, t)
  PROVE  Rewrites(l, r, k, f, t, u)
<1>1. l \in Seq(LinesAt(k)) /\ Len(l) = n
  OBVIOUS
<1>2. ASSUME NEW g, Onto(g, r, l, u) PROVE g[n] = Put(r, k, E[n])
  BY <1>1, <1>2, OntoPuts
<1> QED BY <1>1, <1>2 DEF Rewrites, Rewritten

\* the piece from an index to itself
LEMMA LastOne ==
  ASSUME NEW S, NEW l \in Seq(S), NEW n \in 1 .. Len(l)
  PROVE  SubSeq(l, n, n) = <<l[n]>>
<1>1. n \in Int /\ l[n] \in S
  OBVIOUS
<1>2. \A i \in n .. n : l[i] \in S
  BY <1>1
<1>3. n - n + 1 = 1 /\ n + 1 - 1 = n /\ n <= n
  BY <1>1
<1>4. PICK g : g = SubSeq(l, n, n)
  OBVIOUS
<1>5. g \in Seq(S) /\ Len(g) = 1 /\ \A i \in 1 .. 1 : g[i] = l[n + i - 1]
  BY <1>1, <1>2, <1>3, <1>4, SubSeqProperties
<1>6. g[1] = l[n]
  BY <1>3, <1>5
<1>7. PICK x \in S : x = l[n]
  BY <1>1
<1>8. g = <<x>>
  BY <1>5, <1>6, <1>7
<1> QED BY <1>4, <1>7, <1>8

LEMMA ListText ==
  ASSUME NEW k \in Keys, NEW f \in Entry, WellMade(f), "list" \in DOMAIN f, f.exp = Forever,
         NEW t \in Nat, NEW u \in Nat, NEW r, k \notin DOMAIN r
  PROVE  Rewrites(ListLines(k, f.list), r, k, f, t, u)
<1> DEFINE l == f.list
           n == Len(f.list)
           out == ListLines(k, f.list)
           e(i) == [list |-> SubSeq(l, n - i + 1, n), exp |-> Forever]
           E == [i \in 1 .. n |-> e(i)]
<1>1. l \in Seq(PlainVal) /\ n \in Nat /\ DOMAIN f = {"list", "exp"}
  BY EntryFields DEF WellMade, Kinds
<1>2. out = [i \in 1 .. n |-> Line(LPush(k, l[n - i + 1]), TRUE)]
  <2>1. DOMAIN l = 1 .. n
    BY <1>1
  <2>2. Reverse(l) = [i \in 1 .. n |-> l[(n - i) + 1]]
    BY DEF Reverse
  <2>3. \A i \in 1 .. n : Reverse(l)[i] = l[n - i + 1]
    BY <2>2
  <2>4. out = [i \in 1 .. n |-> Line(LPush(k, Reverse(l)[i]), TRUE)]
    BY <2>1 DEF ListLines
  <2> HIDE DEF l, n
  <2> QED BY <2>3, <2>4
<1>3. CASE n = 0
  <2>1. out = <<>> /\ l = <<>>
    BY <1>1, <1>2, <1>3
  <2>2. <<>> \in Seq(LinesAt(k)) /\ Len(<<>>) = 0
    OBVIOUS
  <2>3. Absent(f, t)
    BY <1>1, <2>1 DEF Absent
  <2> QED BY <2>1, <2>2, <2>3 DEF Rewrites, Rewritten, Onto
<1>4. CASE n # 0
  <2>1. \A i \in 1 .. n : l[n - i + 1] \in PlainVal
    BY <1>1
  <2>2. out \in [1 .. n -> LinesAt(k)]
    BY <1>2, <2>1, TextLines
  <2>3. \A i \in 1 .. n : out[i] = Line(LPush(k, l[n - i + 1]), TRUE)
    BY <1>2
  <2>4. \A i \in 1 .. n : E[i] = e(i)
    OBVIOUS
  <2> HIDE DEF E, out
  <2>5. ReplayLine(r, out[1], u) = Put(r, k, E[1])
    <3>1. 1 \in 1 .. n /\ n - 1 + 1 = n
      BY <1>1, <1>4
    <3>2. out[1] = Line(LPush(k, l[n]), TRUE) /\ l[n] \in PlainVal
      BY <2>1, <2>3, <3>1
    <3>3. Accepts(r, k, "list") /\ ListAt(r, k) = <<>> /\ Expiry(r, k) = Forever
      BY DEF Accepts, ListAt, Expiry
    <3>4. ReplayLine(r, out[1], u) = PushFront(r, k, l[n])
      <4>1. PICK v \in PlainVal : v = l[n]
        BY <3>2
      <4>2. PICK line : line = out[1]
        OBVIOUS
      <4>3. line = Emitted(LPush(k, v))
        BY <3>2, <4>1, <4>2 DEF Emitted
      <4>4. ReplayLine(r, line, u) = PushFront(r, k, v)
        BY <3>3, <4>3, PushEffect
      <4> QED BY <4>1, <4>2, <4>4
    <3>5. SubSeq(l, n - 1 + 1, n) = <<l[n]>> \o <<>>
      <4>1. SubSeq(l, n, n) = <<l[n]>>
        BY <1>1, <1>4, LastOne
      <4>2. <<l[n]>> \o <<>> = <<l[n]>>
        BY <3>2
      <4> QED BY <3>1, <4>1, <4>2
    <3> QED BY <2>4, <3>1, <3>3, <3>4, <3>5 DEF PushFront, PutList
  <2>6. ASSUME NEW i \in 1 .. n - 1
        PROVE  ReplayLine(Put(r, k, E[i]), out[i + 1], u) = Put(r, k, E[i + 1])
    <3> DEFINE p == Put(r, k, E[i])
               rest == SubSeq(l, n - i + 1, n)
               v == l[n - i]
    <3>1. i + 1 \in 1 .. n /\ i \in 1 .. n /\ n - (i + 1) + 1 = n - i
      BY <1>1
    <3>2. out[i + 1] = Line(LPush(k, v), TRUE) /\ v \in PlainVal
      BY <2>1, <2>3, <3>1
    <3>3. k \in DOMAIN p /\ p[k] = e(i)
      <4>1. p = Put(r, k, E[i]) /\ E[i] = e(i)
        BY <2>4, <3>1
      <4> HIDE DEF p, e
      <4> QED BY <4>1, JustPut
    <3>4. Accepts(p, k, "list") /\ ListAt(p, k) = rest /\ Expiry(p, k) = Forever
      BY <3>3 DEF Accepts, ListAt, Expiry
    <3>5. <<v>> \o rest = SubSeq(l, n - i, n)
      <4>1. rest \in Seq(PlainVal) /\ Len(rest) = i /\ \A j \in 1 .. i : rest[j] = l[n - i + j]
        BY <1>1
      <4>2. SubSeq(l, n - i, n) \in Seq(PlainVal) /\ Len(SubSeq(l, n - i, n)) = i + 1
        BY <1>1
      <4>3. \A j \in 1 .. i + 1 : SubSeq(l, n - i, n)[j] = l[n - i + j - 1]
        BY <1>1
      <4> HIDE DEF rest, v
      <4>4. <<v>> \o rest \in Seq(PlainVal) /\ Len(<<v>> \o rest) = i + 1
        BY <3>2, <4>1
      <4>5. ASSUME NEW j \in 1 .. i + 1 PROVE (<<v>> \o rest)[j] = l[n - i + j - 1]
        <5>1. CASE j = 1
          <6>1. (<<v>> \o rest)[j] = v
            BY <3>2, <4>1, <5>1
          <6>2. n - i + j - 1 = n - i
            BY <1>1, <5>1
          <6> QED BY <6>1, <6>2 DEF v
        <5>2. CASE j # 1
          <6>1. (<<v>> \o rest)[j] = rest[j - 1] /\ j - 1 \in 1 .. i
            BY <3>2, <4>1, <5>2
          <6>2. n - i + (j - 1) = n - i + j - 1
            BY <1>1
          <6> QED BY <4>1, <6>1, <6>2
        <5> QED BY <5>1, <5>2
      <4> QED BY <4>2, <4>3, <4>4, <4>5, SeqEqual
    <3>6. ReplayLine(p, out[i + 1], u) = PushFront(p, k, v)
      <4> HIDE DEF p, v
      <4>1. out[i + 1] = Emitted(LPush(k, v))
        BY <3>2 DEF Emitted
      <4> QED BY <3>2, <3>4, <4>1, PushEffect
    <3>7. PushFront(p, k, v) = Put(p, k, [list |-> <<v>> \o rest, exp |-> Forever])
      <4> HIDE DEF p, v, rest
      <4> QED BY <3>4 DEF PushFront, PutList
    <3>8. E[i + 1] = [list |-> SubSeq(l, n - i, n), exp |-> Forever]
      BY <2>4, <3>1
    <3>9. \A x : Put(p, k, x) = Put(r, k, x)
      BY PutPut
    <3>10. p = Put(r, k, E[i])
      OBVIOUS
    <3> HIDE DEF p, v, rest
    <3> QED BY <3>5, <3>6, <3>7, <3>8, <3>9, <3>10
  <2>7. Rebuilt(E[n], f, t, u) /\ ~Absent(f, t)
    <3>1. SubSeq(l, n - n + 1, n) = l /\ l # <<>>
      BY <1>1, <1>4
    <3>2. E[n] = [list |-> l, exp |-> Forever]
      BY <1>1, <1>4, <2>4, <3>1
    <3> QED BY <1>1, <3>1, <3>2 DEF Rebuilt, Alike, Absent
  <2>8. PutsAlong(out, E, n, r, k, u)
    BY <2>5, <2>6 DEF PutsAlong
  <2>9. n \in Nat \ {0}
    BY <1>1, <1>4
  <2> HIDE DEF e, l, n
  <2>10. Rewrites(out, r, k, f, t, u)
    BY <2>2, <2>7, <2>8, <2>9, TextPuts
  <2> QED BY <2>10 DEF out, l
<1> QED BY <1>3, <1>4

\* the first i of what is listed, and the next one
LEMMA ListedSoFar ==
  ASSUME NEW n \in Nat, NEW S, NEW m \in [1 .. n -> S], NEW i \in 1 .. n - 1
  PROVE  {m[j] : j \in 1 .. i + 1} = {m[j] : j \in 1 .. i} \cup {m[i + 1]}
OBVIOUS

LEMMA HashText ==
  ASSUME NEW k \in Keys, NEW f \in Entry, WellMade(f), "hash" \in DOMAIN f, f.exp = Forever,
         NEW t \in Nat, NEW u \in Nat, NEW r, k \notin DOMAIN r,
         NEW m, m = SetToSeq(DOMAIN f.hash)
  PROVE  Rewrites(HashLines(k, f.hash, m), r, k, f, t, u)
<1> DEFINE h == f.hash
           so(i) == [x \in {m[j] : j \in 1 .. i} |-> h[x]]
           e(i) == [hash |-> so(i), exp |-> Forever]
<1>1. PICK F \in SUBSET PlainField : IsFiniteSet(F) /\ F # {} /\ h \in [F -> PlainVal]
  BY DEF WellMade
<1>2. DOMAIN f = {"hash", "exp"} /\ DOMAIN h = F
  BY <1>1, EntryFields DEF Kinds
<1>3. PICK n \in Nat : n = Cardinality(F)
  BY <1>1, SetListed
<1>4. m \in [1 .. n -> F] /\ \A x \in F : \E i \in 1 .. n : m[i] = x
  BY <1>1, <1>2, <1>3, SetListed
<1> DEFINE out == [i \in 1 .. n |-> Line(HSet(k, m[i], h[m[i]]), TRUE)]
           E == [i \in 1 .. n |-> e(i)]
<1>5. n # 0
  BY <1>1, <1>4
<1>6. \A i \in 1 .. n : m[i] \in PlainField /\ h[m[i]] \in PlainVal
  BY <1>1, <1>4
<1>7. out \in [1 .. n -> LinesAt(k)]
  BY <1>6, TextLines
<1>8. \A i \in 1 .. n : out[i] = Line(HSet(k, m[i], h[m[i]]), TRUE) /\ E[i] = e(i)
  OBVIOUS
<1>9. out = HashLines(k, f.hash, m)
  BY <1>4 DEF HashLines
<1> HIDE DEF E, out
<1>10. ReplayLine(r, out[1], u) = Put(r, k, E[1])
  <2>1. 1 \in 1 .. n
    BY <1>5
  <2> DEFINE x == m[1]
             none == [y \in {} |-> NoLine]
             one == [y \in DOMAIN none \cup {x} |-> IF y = x THEN h[x] ELSE none[y]]
  <2>2. Accepts(r, k, "hash") /\ FieldsAt(r, k) = none /\ Expiry(r, k) = Forever
    BY DEF Accepts, FieldsAt, Expiry
  <2>3. one = so(1)
    <3>1. {m[j] : j \in 1 .. 1} = {x}
      OBVIOUS
    <3> QED BY <3>1
  <2>4. out[1] = Line(HSet(k, x, h[x]), TRUE) /\ x \in PlainField /\ h[x] \in PlainVal
    BY <1>6, <1>8, <2>1
  <2> HIDE DEF x, none
  <2>5. ReplayLine(r, out[1], u) = PutField(r, k, x, h[x])
    <3>1. PICK v \in PlainVal : v = h[x]
      BY <2>4
    <3>2. PICK line : line = out[1]
      OBVIOUS
    <3>3. line = Emitted(HSet(k, x, v))
      BY <2>4, <3>1, <3>2 DEF Emitted
    <3>4. Accepts(r, k, "hash")
      BY <2>2
    <3>5. PICK y \in PlainField : y = x
      BY <2>4
    <3>6. line = Emitted(HSet(k, y, v))
      BY <3>3, <3>5
    <3>7. ReplayLine(r, line, u) = PutField(r, k, y, v)
      BY <3>4, <3>6, FieldEffect
    <3> QED BY <3>1, <3>2, <3>5, <3>7
  <2>6. PutField(r, k, x, h[x]) = Put(r, k, [hash |-> one, exp |-> Forever])
    BY <2>2 DEF PutField
  <2>7. E[1] = [hash |-> so(1), exp |-> Forever]
    BY <1>8, <2>1
  <2> HIDE DEF one, so
  <2> QED BY <2>3, <2>5, <2>6, <2>7
<1>11. ASSUME NEW i \in 1 .. n - 1
       PROVE  ReplayLine(Put(r, k, E[i]), out[i + 1], u) = Put(r, k, E[i + 1])
  <2>1. i \in 1 .. n /\ i + 1 \in 1 .. n
    OBVIOUS
  <2> DEFINE p == Put(r, k, E[i])
             x == m[i + 1]
             more == [y \in DOMAIN so(i) \cup {x} |-> IF y = x THEN h[x] ELSE so(i)[y]]
  <2>2. k \in DOMAIN p /\ p[k] = e(i)
    <3>1. p = Put(r, k, E[i]) /\ E[i] = e(i)
      BY <1>8, <2>1
    <3> HIDE DEF p, e
    <3> QED BY <3>1, JustPut
  <2>3. Accepts(p, k, "hash") /\ FieldsAt(p, k) = so(i) /\ Expiry(p, k) = Forever
    BY <2>2 DEF Accepts, FieldsAt, Expiry
  <2>4. more = so(i + 1)
    <3>1. {m[j] : j \in 1 .. i + 1} = {m[j] : j \in 1 .. i} \cup {x}
      BY <1>4, ListedSoFar
    <3> DEFINE D == {m[j] : j \in 1 .. i}
    <3> HIDE DEF x
    <3>2. more = [y \in D \cup {x} |-> h[y]]
      OBVIOUS
    <3> HIDE DEF more
    <3> QED BY <3>1, <3>2
  <2>5. out[i + 1] = Line(HSet(k, x, h[x]), TRUE) /\ x \in PlainField /\ h[x] \in PlainVal
    BY <1>6, <1>8, <2>1
  <2> HIDE DEF p, x
  <2>6. ReplayLine(p, out[i + 1], u) = PutField(p, k, x, h[x])
    <3>1. PICK v \in PlainVal : v = h[x]
      BY <2>5
    <3>2. PICK line : line = out[i + 1]
      OBVIOUS
    <3>3. line = Emitted(HSet(k, x, v))
      BY <2>5, <3>1, <3>2 DEF Emitted
    <3>4. Accepts(p, k, "hash")
      BY <2>3
    <3>5. PICK y \in PlainField : y = x
      BY <2>5
    <3>6. line = Emitted(HSet(k, y, v))
      BY <3>3, <3>5
    <3>7. ReplayLine(p, line, u) = PutField(p, k, y, v)
      BY <3>4, <3>6, FieldEffect
    <3> QED BY <3>1, <3>2, <3>5, <3>7
  <2>7. PutField(p, k, x, h[x]) = Put(p, k, [hash |-> more, exp |-> Forever])
    <3> HIDE DEF so, h
    <3> QED BY <2>3 DEF PutField
  <2>8. E[i + 1] = [hash |-> so(i + 1), exp |-> Forever]
    BY <1>8, <2>1
  <2>9. \A y : Put(p, k, y) = Put(r, k, y)
    BY PutPut DEF p
  <2> HIDE DEF more, so
  <2> QED BY <2>4, <2>6, <2>7, <2>8, <2>9 DEF p
<1>12. Rebuilt(E[n], f, t, u) /\ ~Absent(f, t)
  <2>1. {m[j] : j \in 1 .. n} = F
    BY <1>4
  <2>2. so(n) = h
    BY <1>1, <2>1
  <2>3. n \in 1 .. n
    BY <1>5
  <2>4. E[n] = [hash |-> h, exp |-> Forever]
    BY <1>8, <2>2, <2>3
  <2> HIDE DEF h
  <2>5. f.hash = h
    BY DEF h
  <2> QED BY <1>2, <2>4, <2>5 DEF Rebuilt, Alike, Absent
<1>13. n \in Nat \ {0}
  BY <1>5
<1> HIDE DEF h, so, e
<1>14. PutsAlong(out, E, n, r, k, u)
  BY <1>10, <1>11 DEF PutsAlong
<1>15. Rewrites(out, r, k, f, t, u)
  BY <1>7, <1>12, <1>13, <1>14, TextPuts
<1> QED BY <1>9, <1>15

LEMMA SetText ==
  ASSUME NEW k \in Keys, NEW f \in Entry, WellMade(f), "set" \in DOMAIN f, f.exp = Forever,
         NEW t \in Nat, NEW u \in Nat, NEW r, k \notin DOMAIN r,
         NEW m, m = SetToSeq(f.set)
  PROVE  Rewrites(SetLines(k, m), r, k, f, t, u)
<1> DEFINE F == f.set
           so(i) == {m[j] : j \in 1 .. i}
           e(i) == [set |-> so(i), exp |-> Forever]
<1>1. F \in SUBSET PlainVal /\ IsFiniteSet(F) /\ F # {} /\ DOMAIN f = {"set", "exp"}
  BY EntryFields DEF WellMade, Kinds
<1>2. PICK n \in Nat : n = Cardinality(F)
  BY <1>1, SetListed
<1>3. m \in [1 .. n -> F] /\ \A x \in F : \E i \in 1 .. n : m[i] = x
  BY <1>1, <1>2, SetListed
<1> DEFINE out == [i \in 1 .. n |-> Line(SAdd(k, m[i]), TRUE)]
           E == [i \in 1 .. n |-> e(i)]
<1>4. n # 0
  BY <1>1, <1>3
<1>5. \A i \in 1 .. n : m[i] \in PlainVal
  BY <1>1, <1>3
<1>6. out \in [1 .. n -> LinesAt(k)]
  BY <1>5, TextLines
<1>7. \A i \in 1 .. n : out[i] = Line(SAdd(k, m[i]), TRUE) /\ E[i] = e(i)
  OBVIOUS
<1>8. out = SetLines(k, m)
  BY <1>3 DEF SetLines
<1> HIDE DEF E, out
<1>9. ReplayLine(r, out[1], u) = Put(r, k, E[1])
  <2>1. 1 \in 1 .. n
    BY <1>4
  <2> DEFINE x == m[1]
  <2>2. Accepts(r, k, "set") /\ MembersAt(r, k) = {} /\ Expiry(r, k) = Forever
    BY DEF Accepts, MembersAt, Expiry
  <2>3. {} \cup {x} = so(1)
    OBVIOUS
  <2>4. out[1] = Line(SAdd(k, x), TRUE) /\ x \in PlainVal
    BY <1>5, <1>7, <2>1
  <2>5. E[1] = [set |-> so(1), exp |-> Forever]
    BY <1>7, <2>1
  <2> HIDE DEF x, so
  <2>6. ReplayLine(r, out[1], u) = PutMember(r, k, x)
    <3>1. out[1] = Emitted(SAdd(k, x))
      BY <2>4 DEF Emitted
    <3> QED BY <2>2, <2>4, <3>1, MemberEffect
  <2>7. PutMember(r, k, x) = Put(r, k, [set |-> {} \cup {x}, exp |-> Forever])
    BY <2>2 DEF PutMember
  <2> QED BY <2>3, <2>5, <2>6, <2>7
<1>10. ASSUME NEW i \in 1 .. n - 1
       PROVE  ReplayLine(Put(r, k, E[i]), out[i + 1], u) = Put(r, k, E[i + 1])
  <2>1. i \in 1 .. n /\ i + 1 \in 1 .. n
    OBVIOUS
  <2> DEFINE p == Put(r, k, E[i])
             x == m[i + 1]
  <2>2. k \in DOMAIN p /\ p[k] = e(i)
    <3>1. p = Put(r, k, E[i]) /\ E[i] = e(i)
      BY <1>7, <2>1
    <3> HIDE DEF p, e
    <3> QED BY <3>1, JustPut
  <2>3. Accepts(p, k, "set") /\ MembersAt(p, k) = so(i) /\ Expiry(p, k) = Forever
    BY <2>2 DEF Accepts, MembersAt, Expiry
  <2>4. so(i) \cup {x} = so(i + 1)
    BY <1>3, ListedSoFar
  <2>5. out[i + 1] = Line(SAdd(k, x), TRUE) /\ x \in PlainVal
    BY <1>5, <1>7, <2>1
  <2>6. E[i + 1] = [set |-> so(i + 1), exp |-> Forever]
    BY <1>7, <2>1
  <2> HIDE DEF p, x, so
  <2>7. ReplayLine(p, out[i + 1], u) = PutMember(p, k, x)
    <3>1. out[i + 1] = Emitted(SAdd(k, x))
      BY <2>5 DEF Emitted
    <3> QED BY <2>3, <2>5, <3>1, MemberEffect
  <2>8. PutMember(p, k, x) = Put(p, k, [set |-> so(i) \cup {x}, exp |-> Forever])
    BY <2>3 DEF PutMember
  <2>9. \A y : Put(p, k, y) = Put(r, k, y)
    BY PutPut DEF p
  <2> QED BY <2>4, <2>6, <2>7, <2>8, <2>9 DEF p
<1>11. Rebuilt(E[n], f, t, u) /\ ~Absent(f, t)
  <2>1. so(n) = F /\ n \in 1 .. n
    BY <1>3, <1>4
  <2>2. E[n] = [set |-> F, exp |-> Forever]
    BY <1>7, <2>1
  <2> HIDE DEF F
  <2>3. f.set = F
    BY DEF F
  <2> QED BY <1>1, <2>2, <2>3 DEF Rebuilt, Alike, Absent
<1>12. n \in Nat \ {0}
  BY <1>4
<1> HIDE DEF so, e, F
<1>13. PutsAlong(out, E, n, r, k, u)
  BY <1>9, <1>10 DEF PutsAlong
<1>14. Rewrites(out, r, k, f, t, u)
  BY <1>6, <1>11, <1>12, <1>13, TextPuts
<1> QED BY <1>8, <1>14

LEMMA KeyText ==
  ASSUME NEW d, Sound(d), NEW k \in DOMAIN d, NEW t \in Nat, NEW u \in Nat,
         NEW r, k \notin DOMAIN r
  PROVE  Rewrites(SnapshotOf(d, k, t), r, k, d[k], t, u)
<1>1. k \in Keys /\ d[k] \in Entry /\ WellMade(d[k])
  BY DEF Sound, IsDatabase, Filled
<1>2. "str" \in DOMAIN d[k] \/ d[k].exp = Forever
  BY DEF Sound, OnlyStrings
<1>3. PICK e \in Entry : e = d[k]
  BY <1>1
<1>4. WellMade(e)
  BY <1>1, <1>3
<1>5. "str" \in DOMAIN e \/ e.exp = Forever
  BY <1>2, <1>3
<1>6. \E kind \in Kinds : DOMAIN e = {kind, "exp"}
  BY EntryFields
<1>7. PICK text : text = SnapshotOf(d, k, t)
  OBVIOUS
<1>8. SUFFICES Rewrites(text, r, k, e, t, u)
  BY <1>3, <1>7
<1>9. CASE "str" \in DOMAIN e
  <2>1. text = StringLines(k, e, t)
    BY <1>3, <1>7, <1>9, TextOfString
  <2>2. Rewrites(StringLines(k, e, t), r, k, e, t, u)
    BY <1>1, <1>4, <1>9, StringText
  <2> QED BY <2>1, <2>2
<1>10. CASE "list" \in DOMAIN e
  <2>1. "str" \notin DOMAIN e
    BY <1>6, <1>10 DEF Kinds
  <2>2. text = ListLines(k, e.list)
    BY <1>3, <1>7, <1>10, TextOfList
  <2>3. Rewrites(ListLines(k, e.list), r, k, e, t, u)
    BY <1>1, <1>4, <1>5, <1>10, <2>1, ListText
  <2> QED BY <2>2, <2>3
<1>11. CASE "hash" \in DOMAIN e
  <2>1. "str" \notin DOMAIN e
    BY <1>6, <1>11 DEF Kinds
  <2>2. PICK m : m = SetToSeq(DOMAIN e.hash)
    OBVIOUS
  <2>3. text = HashLines(k, e.hash, m)
    BY <1>3, <1>7, <1>11, <2>2, TextOfHash
  <2>4. Rewrites(HashLines(k, e.hash, m), r, k, e, t, u)
    BY <1>1, <1>4, <1>5, <1>11, <2>1, <2>2, HashText
  <2> QED BY <2>3, <2>4
<1>12. CASE "set" \in DOMAIN e
  <2>1. "str" \notin DOMAIN e
    BY <1>6, <1>12 DEF Kinds
  <2>2. PICK m : m = SetToSeq(e.set)
    OBVIOUS
  <2>3. text = SetLines(k, m)
    BY <1>3, <1>7, <1>12, <2>2, TextOfSet
  <2>4. Rewrites(SetLines(k, m), r, k, e, t, u)
    BY <1>1, <1>4, <1>5, <1>12, <2>1, <2>2, SetText
  <2> QED BY <2>3, <2>4
<1> QED BY <1>6, <1>9, <1>10, <1>11, <1>12 DEF Kinds

\* a holds what a text of d written at t says of k when it is replayed at u
RebuiltAt(a, d, k, t, u) ==
  /\ k \in DOMAIN a <=> ~Absent(d[k], t)
  /\ k \in DOMAIN a => Rebuilt(a[k], d[k], t, u)

LEMMA RewrittenAt ==
  ASSUME NEW a, NEW r, NEW d, NEW k, k \notin DOMAIN r, NEW t, NEW u,
         Rewritten(a, r, k, d[k], t, u)
  PROVE  RebuiltAt(a, d, k, t, u) /\ SameBut(a, r, {k})
<1>1. CASE Absent(d[k], t)
  BY <1>1 DEF Rewritten, RebuiltAt, SameBut
<1>2. CASE ~Absent(d[k], t)
  <2>1. PICK e : Rebuilt(e, d[k], t, u) /\ a = Put(r, k, e)
    BY <1>2 DEF Rewritten
  <2>2. k \in DOMAIN a /\ a[k] = e
    BY <2>1, PutPut
  <2> QED BY <1>2, <2>1, <2>2, PutFrame DEF RebuiltAt
<1> QED BY <1>1, <1>2

\* sequences one after another
LEMMA OneAfterAnother ==
  ASSUME NEW S, NEW a \in Seq(S), NEW b \in Seq(S), NEW c \in Seq(S)
  PROVE  a \o (b \o c) = (a \o b) \o c /\ a \o b \in Seq(S)
OBVIOUS

(***************************************************************************)
(* The text of a set of keys, replayed after a text p that left none of    *)
(* them, rebuilds each of them and touches no other key.                   *)
(***************************************************************************)
LEMMA SnapshotReplays ==
  ASSUME NEW d, Sound(d), NEW ks, NEW t \in Nat, NEW u \in Nat,
         NEW p \in Seq(HandlerLine),
         \A k \in ks \cap DOMAIN d : k \notin DOMAIN Replay(p, u)
  PROVE  /\ Snapshot(d, ks, t) \in Seq(UNION {LinesAt(k) : k \in ks \cap DOMAIN d})
         /\ SameBut(Replay(p \o Snapshot(d, ks, t), u), Replay(p, u), ks \cap DOMAIN d)
         /\ \A k \in ks \cap DOMAIN d :
              RebuiltAt(Replay(p \o Snapshot(d, ks, t), u), d, k, t, u)
<1> DEFINE K == ks \cap DOMAIN d
           L == UNION {LinesAt(k) : k \in K}
<1>1. IsFiniteSet(K)
  BY FS_Subset DEF Sound, Filled
<1>2. PICK n \in Nat : n = Cardinality(K)
  BY <1>1, SetListed
<1>3. PICK s : s = SetToSeq(K)
  OBVIOUS
<1>4. /\ s \in [1 .. n -> K]
      /\ \A i, j \in 1 .. n : s[i] = s[j] => i = j
      /\ \A k \in K : \E i \in 1 .. n : s[i] = k
  BY <1>1, <1>2, <1>3, SetListed
<1>5. PICK texts : texts = [i \in 1 .. n |-> SnapshotOf(d, s[i], t)]
  OBVIOUS
<1>6. Snapshot(d, ks, t) = FlattenSeq(texts)
  <2>1. DOMAIN s = 1 .. n
    BY <1>4
  <2> QED BY <1>3, <1>5, <2>1 DEF Snapshot
<1>7. \A i \in 1 .. n : s[i] \in K /\ texts[i] = SnapshotOf(d, s[i], t)
  BY <1>4, <1>5
<1>8. ASSUME NEW i \in 1 .. n, NEW r, s[i] \notin DOMAIN r
      PROVE  Rewrites(texts[i], r, s[i], d[s[i]], t, u)
  <2>1. s[i] \in DOMAIN d
    BY <1>7
  <2> QED BY <1>7, <1>8, <2>1, KeyText
<1>9. \A i \in 1 .. n : texts[i] \in Seq(LinesAt(s[i])) /\ texts[i] \in Seq(L)
  <2> TAKE i \in 1 .. n
  <2>1. s[i] \notin DOMAIN EmptyDb
    BY DEF EmptyDb
  <2>2. texts[i] \in Seq(LinesAt(s[i]))
    BY <1>8, <2>1 DEF Rewrites
  <2>3. LinesAt(s[i]) \subseteq L
    BY <1>7
  <2> HIDE DEF L
  <2>4. texts[i] \in Seq(L)
    BY <2>2, <2>3
  <2> QED BY <2>2, <2>4
<1> HIDE DEF L
<1>10. texts \in Seq(Seq(L)) /\ Len(texts) = n
  BY <1>5, <1>9
<1>11. PICK f \in [0 .. n -> Seq(L)] : Piecewise(f, texts, n) /\ FlattenSeq(texts) = f[n]
  BY <1>10, FlattenParts
<1>12. L \subseteq HandlerLine
  BY DEF L, LinesAt
<1> DEFINE made(i) == Replay(p \o f[i], u)
           Good(i) == /\ SameBut(made(i), Replay(p, u), {s[j] : j \in 1 .. i})
                      /\ \A j \in 1 .. i : RebuiltAt(made(i), d, s[j], t, u)
           N == {i \in Nat : i <= n => Good(i)}
<1>13. 0 \in N
  <2>1. f[0] = <<>> /\ p \o <<>> = p
    BY <1>11, ConcatEmptySeq DEF Piecewise
  <2>2. made(0) = Replay(p, u)
    BY <2>1
  <2> HIDE DEF made
  <2> QED BY <2>2 DEF SameBut
<1>14. ASSUME NEW i \in Nat, i \in N PROVE i + 1 \in N
  <2>1. SUFFICES ASSUME i + 1 <= n PROVE Good(i + 1)
    OBVIOUS
  <2>2. Good(i)
    BY <1>14, <2>1
  <2> HIDE DEF N
  <2>3. PICK m : m = i + 1
    OBVIOUS
  <2>4. m \in 1 .. n /\ m - 1 = i /\ i \in 0 .. n
    BY <2>1, <2>3
  <2> DEFINE r == made(i)
             k == s[m]
  <2>5. f[m] = f[i] \o texts[m] /\ f[i] \in Seq(L) /\ texts[m] \in Seq(L)
    BY <1>9, <1>11, <2>4 DEF Piecewise
  <2>6. p \o f[i] \in Seq(HandlerLine) /\ texts[m] \in Seq(HandlerLine)
        /\ p \o f[m] = (p \o f[i]) \o texts[m]
    <3>1. f[i] \in Seq(HandlerLine) /\ texts[m] \in Seq(HandlerLine)
      BY <1>12, <2>5
    <3>2. PICK a \in Seq(HandlerLine) : a = f[i]
      BY <3>1
    <3>3. PICK b \in Seq(HandlerLine) : b = texts[m]
      BY <3>1
    <3>4. p \o (a \o b) = (p \o a) \o b /\ p \o a \in Seq(HandlerLine)
      BY OneAfterAnother
    <3> QED BY <2>5, <3>1, <3>2, <3>3, <3>4
  <2>7. PICK g : Onto(g, r, texts[m], u) /\ g[Len(texts[m])] = Replay((p \o f[i]) \o texts[m], u)
    <3>1. PICK a \in Seq(HandlerLine) : a = p \o f[i]
      BY <2>6
    <3>2. PICK b \in Seq(HandlerLine) : b = texts[m]
      BY <2>6
    <3>3. PICK g : Onto(g, Replay(a, u), b, u) /\ g[Len(b)] = Replay(a \o b, u)
      BY ReplayMore
    <3>4. r = Replay(a, u)
      BY <3>1
    <3> HIDE DEF r
    <3> QED BY <3>1, <3>2, <3>3, <3>4
  <2>8. g[Len(texts[m])] = made(m)
    BY <2>6, <2>7
  <2> HIDE DEF made, r
  <2>9. k \notin DOMAIN r
    <3>1. \A j \in 1 .. i : s[j] # k
      BY <1>4, <2>3, <2>4
    <3>2. k \in K /\ k \notin DOMAIN Replay(p, u)
      BY <1>7, <2>4
    <3> QED BY <2>2, <3>1, <3>2 DEF SameBut, r
  <2>10. Rewritten(made(m), r, k, d[k], t, u)
    <3>1. Rewrites(texts[m], r, k, d[k], t, u)
      BY <1>8, <2>4, <2>9
    <3> QED BY <2>7, <2>8, <3>1 DEF Rewrites
  <2>11. RebuiltAt(made(m), d, k, t, u) /\ SameBut(made(m), r, {k})
    BY <2>9, <2>10, RewrittenAt
  <2>12. SameBut(made(m), Replay(p, u), {s[j] : j \in 1 .. m})
    <3>1. \A x : x \notin {s[j] : j \in 1 .. m} => x # k /\ x \notin {s[j] : j \in 1 .. i}
      BY <2>3, <2>4
    <3> QED BY <2>2, <2>11, <3>1 DEF SameBut, r
  <2>13. ASSUME NEW j \in 1 .. m PROVE RebuiltAt(made(m), d, s[j], t, u)
    <3>1. CASE j = m
      BY <2>11, <3>1
    <3>2. CASE j # m
      <4>1. j \in 1 .. i /\ j \in 1 .. n
        BY <2>3, <2>4, <3>2
      <4>2. RebuiltAt(r, d, s[j], t, u) /\ s[j] # k
        BY <1>4, <2>2, <2>4, <3>2, <4>1 DEF r
      <4> QED BY <2>11, <4>2 DEF SameBut, RebuiltAt
    <3> QED BY <3>1, <3>2
  <2> QED BY <2>3, <2>12, <2>13
<1> HIDE DEF N
<1>15. n \in N
  BY <1>13, <1>14, NumbersByInduction
<1>16. made(n) = Replay(p \o Snapshot(d, ks, t), u)
  BY <1>6, <1>11
<1> HIDE DEF made
<1>17. Good(n) /\ {s[j] : j \in 1 .. n} = K
  BY <1>4, <1>15 DEF N
<1>18. Snapshot(d, ks, t) \in Seq(L)
  BY <1>6, <1>11
<1>19. \A k \in K : RebuiltAt(made(n), d, k, t, u)
  BY <1>4, <1>17
<1> QED BY <1>16, <1>17, <1>18, <1>19 DEF L
=============================================================================
