-------------------------- MODULE CommandLogProofs --------------------------
(***************************************************************************)
(* Theorems about CommandLog, for any commands and any bounds.             *)
(***************************************************************************)
EXTENDS CommandLog, LogProofs

-----------------------------------------------------------------------------
(* What a step of Run can be: nothing was sent and, unless the handler     *)
(* hangs, nothing changed; or the one line of the command was sent.        *)

LEMMA RunSends ==
  ASSUME TypeOK, NEW c \in Commands, Run(c)
  PROVE  /\ ~stuck /\ now' = now /\ db' = Exec(db, c, now).db
         /\ \/ log' = log /\ (~stuck' => db' = db)
            \/ /\ log' = Append(log, Sent(c)) /\ Exec(db, c, now).line = Sent(c)
               /\ Sent(c) # NoLine /\ Sent(c) \in LogLine
               /\ Loggable(Sent(c).cmd)
               /\ Sent(c).cmd.op = "LTRIM" <=> c.op = "LTRIM"
<1>1. c \in Command /\ now \in Nat
  BY CommandsAssumption DEF TypeOK
<1>2. CASE Untold(db, c, Exec(db, c, now))
  BY <1>2 DEF Run, Untold
<1>3. CASE /\ Exec(db, c, now).line = Sent(c)
           /\ c.op = "SETEX" => c.secs >= 0
  <2>1. /\ Sent(c) # NoLine /\ Sent(c) \in LogLine /\ Loggable(Sent(c).cmd)
        /\ Sent(c).cmd.op = "LTRIM" <=> c.op = "LTRIM"
    BY <1>1, <1>3, SentLine
  <2> QED BY <1>3, <2>1 DEF Run
<1> QED BY <1>1, <1>2, <1>3, Outcomes

LEMMA TypeInit == Init => TypeOK
<1> SUFFICES ASSUME Init PROVE TypeOK
  OBVIOUS
<1>1. IsDatabase(db)
  BY EmptyType DEF Init
<1>2. log \in Seq(LogLine)
  BY DEF Init
<1>3. now \in Nat
  BY DEF Init
<1>4. stuck \in BOOLEAN
  BY DEF Init
<1> QED BY <1>1, <1>2, <1>3, <1>4 DEF TypeOK

LEMMA TypeStep == TypeOK /\ [Next]_vars => TypeOK'
<1> SUFFICES ASSUME TypeOK, [Next]_vars PROVE TypeOK'
  OBVIOUS
<1>1. CASE Tick
  BY <1>1 DEF TypeOK, Tick
<1>2. ASSUME NEW c \in Commands, Run(c) PROVE TypeOK'
  <2>1. IsDatabase(db')
    <3>1. c \in Command /\ now \in Nat /\ IsDatabase(db)
      BY CommandsAssumption DEF TypeOK
    <3> QED BY <1>2, <3>1, ExecType DEF Run
  <2>2. log' \in Seq(LogLine)
    BY <1>2, RunSends DEF TypeOK
  <2>3. stuck' \in BOOLEAN /\ now' \in Nat
    BY <1>2 DEF Run, TypeOK
  <2> QED BY <2>1, <2>2, <2>3 DEF TypeOK
<1>3. CASE UNCHANGED vars
  BY <1>3 DEF TypeOK, vars
<1> QED BY <1>1, <1>2, <1>3 DEF Next

(***************************************************************************)
(* Whatever commands come in whatever order, the store and the log stay    *)
(* well formed.                                                            *)
(***************************************************************************)
THEOREM TypeCorrect == Spec => []TypeOK
BY TypeInit, TypeStep, PTL DEF Spec

-----------------------------------------------------------------------------
(* Replay of the log.                                                      *)

\* a log that replay_aof has an arm for every line of
NoTrims == \A i \in DOMAIN log : log[i].cmd.op # "LTRIM"

\* The lines are those of handlers and, replayed at whatever instant, they
\* make a database like the one in memory.  The clock of the replay must be
\* any: it goes on between the command and the restart.
LogInv ==
  /\ log \in Seq(HandlerLine)
  /\ ~stuck /\ NoTrims => \A u \in Nat : Like(Replay(log, u), db, Keys)

LEMMA LogStep ==
  ASSUME \A c \in Commands : Legible(c), TypeOK, LogInv, [Next]_vars
  PROVE  LogInv'
<1>1. CASE Tick
  BY <1>1 DEF Tick, LogInv, NoTrims
<1>2. CASE UNCHANGED vars
  BY <1>2 DEF vars, LogInv, NoTrims
<1>3. ASSUME NEW c \in Commands, Run(c) PROVE LogInv'
  <2>1. ~stuck /\ db' = Exec(db, c, now).db
    BY <1>3, RunSends
  <2>2. CASE log' = log /\ (~stuck' => db' = db)
    BY <2>1, <2>2 DEF LogInv, NoTrims
  <2>3. CASE /\ log' = Append(log, Sent(c)) /\ Exec(db, c, now).line = Sent(c)
             /\ Sent(c) # NoLine /\ Sent(c) \in LogLine
             /\ Loggable(Sent(c).cmd)
             /\ Sent(c).cmd.op = "LTRIM" <=> c.op = "LTRIM"
    <3>1. Sent(c) \in HandlerLine
      BY <2>3 DEF HandlerLine
    <3>2. log' \in Seq(HandlerLine)
      BY <2>3, <3>1 DEF LogInv
    <3>3. ASSUME NoTrims', NEW u \in Nat
          PROVE  Like(Replay(log, u)', db', Keys)
      <4>1. /\ \A i \in DOMAIN log : i \in DOMAIN log' /\ log'[i] = log[i]
            /\ Len(log) + 1 \in DOMAIN log' /\ log'[Len(log) + 1] = Sent(c)
        BY <2>3, <3>1 DEF LogInv
      <4>2. NoTrims /\ c.op # "LTRIM"
        BY <2>3, <3>3, <4>1 DEF NoTrims
      <4>3. Like(Replay(log, u), db, Keys)
        BY <2>1, <4>2 DEF LogInv
      <4>4. Replay(log', u) = ReplayLine(Replay(log, u), Sent(c), u)
        BY <2>3, <3>1, ReplayOneMore DEF LogInv
      <4>5. c \in Command /\ KeysOf(c) \subseteq Keys /\ now \in Nat
        BY CommandsAssumption, CommandFields DEF KeysOf, TypeOK
      <4>6. Like(ReplayLine(Replay(log, u), Sent(c), u), Exec(db, c, now).db, Keys)
        BY <2>3, <4>2, <4>3, <4>5, HandlerReplays
      <4> QED BY <2>1, <4>4, <4>6
    <3> QED BY <3>2, <3>3 DEF LogInv
  <2> QED BY <1>3, <2>2, <2>3, RunSends
<1> QED BY <1>1, <1>2, <1>3 DEF Next

LEMMA LogGives ==
  ASSUME TypeOK, LogInv
  PROVE  ReplayRebuilds
<1> SUFFICES ASSUME ~stuck, NoTrims
             PROVE  SameData(Replay(log, now), db) /\ SameLease(Replay(log, now), db)
  BY DEF ReplayRebuilds, NoTrims
<1>1. now \in Nat /\ IsDatabase(db)
  BY DEF TypeOK
<1>2. Like(Replay(log, now), db, Keys) /\ IsDatabase(Replay(log, now))
  BY <1>1, ReplayType DEF LogInv, HandlerLine
<1> QED BY <1>1, <1>2, SameDatabases

(***************************************************************************)
(* As long as no LTRIM has been logged, replaying the log gives the        *)
(* entries the handlers left in memory, with an expiry on the same keys,   *)
(* for every set of commands that replay_aof reads back from their lines.  *)
(***************************************************************************)
THEOREM ReplayCorrect ==
  ASSUME \A c \in Commands : Legible(c)
  PROVE  Spec => []ReplayRebuilds
<1>1. Init => TypeOK
  BY TypeInit
<1>2. Init => LogInv
  <2> SUFFICES ASSUME Init PROVE LogInv
    OBVIOUS
  <2>1. log \in Seq(HandlerLine)
    BY DEF Init
  <2>2. \A u : Replay(log, u) = db
    BY ReplayNothing DEF Init
  <2>3. Like(db, db, Keys)
    BY DEF Like, Alike
  <2> QED BY <2>1, <2>2, <2>3 DEF LogInv
<1>3. TypeOK /\ LogInv /\ [Next]_vars => LogInv'
  BY LogStep
<1>4. TypeOK /\ LogInv => ReplayRebuilds
  BY LogGives
<1> QED BY <1>1, <1>2, <1>3, <1>4, TypeStep, PTL DEF Spec

-----------------------------------------------------------------------------
(* Expiry.                                                                 *)

LEMMA ExpiryStep ==
  ASSUME TypeOK, OnlyStringsExpire, [Next]_vars
  PROVE  OnlyStringsExpire'
<1>1. ASSUME NEW c \in Commands, Run(c) PROVE OnlyStringsExpire'
  <2>1. c \in Command /\ now \in Nat /\ IsDatabase(db) /\ OnlyStrings(db)
    BY CommandsAssumption DEF TypeOK, OnlyStringsExpire, OnlyStrings
  <2>2. db' = db \/ Did(db, c, now, db')
    BY <1>1, <2>1, ExecDid DEF Run
  <2>3. OnlyStrings(db')
    BY <2>1, <2>2, DidOnlyStrings
  <2> QED BY <2>3 DEF OnlyStringsExpire, OnlyStrings
<1>2. CASE Tick
  BY <1>2 DEF Tick, OnlyStringsExpire
<1>3. CASE UNCHANGED vars
  BY <1>3 DEF vars, OnlyStringsExpire
<1> QED BY <1>1, <1>2, <1>3 DEF Next

(***************************************************************************)
(* Only strings ever have an expiry: the handlers that change a list, a    *)
(* hash or a set in place keep whatever expiry they find, and never find   *)
(* one.                                                                    *)
(***************************************************************************)
THEOREM StringsExpire == Spec => []OnlyStringsExpire
<1>1. Init => OnlyStringsExpire
  BY DEF Init, OnlyStringsExpire, EmptyDb
<1>2. TypeOK /\ OnlyStringsExpire /\ [Next]_vars => OnlyStringsExpire'
  BY ExpiryStep
<1> QED BY <1>1, <1>2, TypeInit, TypeStep, PTL DEF Spec

LEMMA WholeSeconds ==
  ASSUME NEW left \in Nat, NEW unit \in Nat \ {0}
  PROVE  left \div unit \in Nat /\ (left \div unit) * unit <= left
OBVIOUS

LEMMA LeaseGives ==
  ASSUME TypeOK, OnlyStringsExpire
  PROVE  LeasesAgree
<1> SUFFICES ASSUME NEW k \in DOMAIN db, db[k].exp # Forever
             PROVE  LET secs   == Ttl(db, k, now)[2]
                        ticks  == Pttl(db, k, now)[2]
                        get(t) == DoGet(db, Get(k), t).reply
                    IN /\ secs >= 0 => /\ get(now + secs * TicksPerSec) = MGet(db, k, k)[2][1]
                                       /\ ticks >= secs * TicksPerSec
                       /\ secs = -2 <=> ticks = -2
                       /\ secs = -2 => get(now + 1) = Null
  BY DEF LeasesAgree
<1> DEFINE exp == db[k].exp
<1>1. exp \in Nat /\ now \in Nat /\ "str" \in DOMAIN db[k]
  BY EntryAt, EntryFields DEF TypeOK, OnlyStringsExpire, Time
<1>2. \A t \in Nat : t > exp => DoGet(db, Get(k), t).reply = Null
  <2>1. ASSUME NEW t \in Nat, t > exp PROVE DoGet(db, Get(k), t).reply = Null
    <3>1. Expired(db, Get(k).key, t)
      BY <2>1 DEF Expired, Get
    <3> QED BY <3>1 DEF DoGet, Change, Expired
  <2> QED BY <2>1
<1>3. MGet(db, k, k)[2][1] = Bulk(db[k].str)
  BY <1>1 DEF MGet, Array, Holds
<1>4. \A t \in Nat : ~(t > exp) => DoGet(db, Get(k), t).reply = Bulk(db[k].str)
  <2>1. ASSUME NEW t \in Nat, ~(t > exp)
        PROVE  DoGet(db, Get(k), t).reply = Bulk(db[k].str)
    <3>1. ~Expired(db, k, t) /\ Holds(db, k, "str") /\ Get(k).key = k
      BY <1>1, <2>1 DEF Expired, Holds, Get
    <3> QED BY <3>1 DEF DoGet, Answer
  <2> QED BY <2>1
<1>5. CASE now >= exp
  <2>1. Ttl(db, k, now)[2] = -2 /\ Pttl(db, k, now)[2] = -2
    BY <1>5 DEF Ttl, Pttl, Lease, Number
  <2>2. now + 1 \in Nat /\ now + 1 > exp
    BY <1>1, <1>5
  <2> QED BY <1>2, <2>1, <2>2
<1>6. CASE ~(now >= exp)
  <2> DEFINE left == exp - now
             secs == left \div TicksPerSec
  <2>1. left \in Nat /\ secs \in Nat /\ secs * TicksPerSec <= left /\ left \div 1 = left
    BY <1>1, <1>6, KeyspaceAssumption, WholeSeconds
  <2>2. Ttl(db, k, now)[2] = secs /\ Pttl(db, k, now)[2] = left
    BY <1>6, <2>1 DEF Ttl, Pttl, Lease, Number
  <2>3. secs * TicksPerSec \in Nat
    BY <2>1, KeyspaceAssumption
  <2> HIDE DEF secs
  <2>4. now + secs * TicksPerSec \in Nat /\ ~(now + secs * TicksPerSec > exp)
    BY <1>1, <1>6, <2>1, <2>3
  <2>5. left # -2 /\ secs # -2 /\ left >= secs * TicksPerSec
    BY <2>1, <2>3
  <2> QED BY <1>3, <1>4, <2>2, <2>4, <2>5
<1> QED BY <1>5, <1>6

(***************************************************************************)
(* TTL, PTTL, GET and MGET agree on when a key goes, for every length of   *)
(* a second in ticks.                                                      *)
(***************************************************************************)
THEOREM LeasesCorrect == Spec => []LeasesAgree
<1>1. TypeOK /\ OnlyStringsExpire => LeasesAgree
  BY LeaseGives
<1> QED BY <1>1, TypeCorrect, StringsExpire, PTL

-----------------------------------------------------------------------------
(* LTRIM and LRANGE.                                                       *)

\* what TrimKeepsRange says of an LTRIM of this list, had it been answered so
TrimAgrees(q, list, shown, hung, after) ==
  LET left == after[q.key].list
  IN /\ hung <=> q.start <= q.stop /\ q.stop < -Len(list) - 1
     /\ hung => shown = Array(<<>>) /\ left = <<>>
     /\ shown = Hang <=> list = <<>> /\ q.start < 0 /\ q.stop >= 0
     /\ shown \in {Array(<<>>), Hang} /\ ~hung => q.key \notin DOMAIN after
     /\ shown \notin {Array(<<>>), Hang} =>
          Holds(after, q.key, "list") /\ Array(left) = shown

\* the indices for which LTRIM and LRANGE run past the head of an empty list
LEMMA IndexCases ==
  ASSUME NEW a \in Int, NEW b \in Int, NEW n \in Nat
  PROVE  LET s == At(a, n)
             e == At(b, n)
         IN /\ s \in Int /\ e \in Int
            /\ ~(s > e \/ s >= n) /\ e < -1 <=> a <= b /\ b < -n - 1
            /\ ~(s > e \/ s >= n) /\ ~(e < 0) /\ AtMost(e, n - 1) < 0
                 <=> n = 0 /\ a < 0 /\ b >= 0
<1>1. CASE a < 0 /\ b < 0
  BY <1>1 DEF At, AtMost
<1>2. CASE a < 0 /\ b >= 0
  BY <1>2 DEF At, AtMost
<1>3. CASE a >= 0 /\ b < 0
  BY <1>3 DEF At, AtMost
<1>4. CASE a >= 0 /\ b >= 0
  BY <1>4 DEF At, AtMost
<1> QED BY <1>1, <1>2, <1>3, <1>4

LEMMA TrimmedAsShown ==
  ASSUME NEW d, IsDatabase(d), NEW q \in Command, q.op = "LTRIM", Holds(d, q.key, "list"),
         NEW o, o = DoLTrim(d, q), NEW shown, shown = LRange(d, q.key, q.start, q.stop)
  PROVE  TrimAgrees(q, d[q.key].list, shown, o.reply = Hang, o.db)
<1> DEFINE k    == q.key
           list == ListAt(d, k)
           len  == Len(list)
           s    == At(q.start, len)
           e    == At(q.stop, len)
           last == AtMost(e, len - 1)
           kept == Kept(list, s, e)
           gone == s > e \/ s >= len
<1>1. /\ k \in DOMAIN d /\ Accepts(d, k, "list") /\ list \in Seq(Val)
      /\ list = d[k].list
  BY ListAtType DEF Holds, Accepts, ListAt
<1>2. /\ len \in Nat /\ s \in Int /\ e \in Int /\ (len = 0 <=> list = <<>>)
      /\ last = IF e < len - 1 THEN e ELSE len - 1
      /\ q.start \in Int /\ q.stop \in Int
  BY <1>1, CommandFields DEF At, AtMost
<1>3. shown = IF gone \/ e < 0 THEN Array(<<>>) ELSE IF last < 0 THEN Hang ELSE Array(kept)
  BY <1>1 DEF LRange, Kept
<1>4. /\ ~gone /\ e < -1 => o = Answer(PutList(d, k, <<>>), Hang)
      /\ gone \/ (~(e < -1) /\ kept = <<>>) => o = Change(Without(d, {k}), q, FALSE, Ok)
      /\ ~gone /\ ~(e < -1) /\ kept # <<>> => o = Change(PutList(d, k, kept), q, FALSE, Ok)
  BY <1>1 DEF DoLTrim
<1>5. last < 0 => kept = <<>>
  <2>1. ASSUME last < 0 PROVE kept = <<>>
    <3>1. \A a \in Nat \ {0}, b \in Int : b <= 0 => SubSeq(list, a, b) = <<>>
      BY <1>1
    <3>2. last + 1 \in Int /\ last + 1 <= 0
      BY <1>2, <2>1
    <3>3. AtLeast(0, s) + 1 \in Nat \ {0}
      BY <1>2 DEF AtLeast
    <3> QED BY <3>1, <3>2, <3>3 DEF Kept
  <2> QED BY <2>1
<1>6. ~gone /\ last >= 0 => kept # <<>>
  <2>1. ASSUME ~gone, last >= 0 PROVE kept # <<>>
    <3>1. PICK a : a = AtLeast(0, s) + 1
      OBVIOUS
    <3>2. a \in 1 .. len /\ last + 1 \in 1 .. len /\ a <= last + 1
      <4> HIDE DEF len, s, e, last
      <4> QED BY <1>2, <2>1, <3>1 DEF AtLeast
    <3>3. kept = SubSeq(list, a, last + 1)
      BY <3>1 DEF Kept
    <3> HIDE DEF kept, last
    <3>4. Len(kept) = (last + 1) - a + 1
      BY <1>1, <3>2, <3>3
    <3>5. Len(kept) # 0
      BY <3>2, <3>4
    <3> QED BY <3>5
  <2> QED BY <2>1
<1>7. Ok # Hang /\ Array(<<>>) # Hang /\ \A x : Array(x) # Hang
  BY DEF Ok, Hang, Array
<1>8. \A l : /\ Holds(PutList(d, k, l), k, "list") /\ PutList(d, k, l)[k].list = l
             /\ k \notin DOMAIN Without(d, {k})
  BY DEF Holds, PutList, Put, Without
<1>9. \A x, y : Array(x) = Array(y) => x = y
  BY DEF Array
<1>10. ~gone /\ e < -1 <=> q.start <= q.stop /\ q.stop < -len - 1
  BY <1>2, IndexCases
<1>11. ~gone /\ ~(e < 0) /\ last < 0 <=> list = <<>> /\ q.start < 0 /\ q.stop >= 0
  <2>1. ~gone /\ ~(e < 0) /\ last < 0 <=> len = 0 /\ q.start < 0 /\ q.stop >= 0
    <3> HIDE DEF len
    <3>1. q.start \in Int /\ q.stop \in Int /\ len \in Nat
      BY <1>2
    <3> QED BY <3>1, IndexCases, Zenon
  <2> HIDE DEF len, list, gone, last, e
  <2> QED BY <1>2, <2>1
<1> HIDE DEF list, len, s, e, last, kept, k, gone
<1> DEFINE Says ==
      /\ o.reply = Hang <=> ~gone /\ e < -1
      /\ o.reply = Hang => shown = Array(<<>>) /\ o.db[k].list = <<>>
      /\ shown = Hang <=> ~gone /\ ~(e < 0) /\ last < 0
      /\ shown \in {Array(<<>>), Hang} /\ o.reply # Hang => k \notin DOMAIN o.db
      /\ shown \notin {Array(<<>>), Hang} =>
           Holds(o.db, k, "list") /\ Array(o.db[k].list) = shown
<1>12. ASSUME gone PROVE Says
  <2>1. o.db = Without(d, {k}) /\ o.reply = Ok
    BY <1>4, <1>12 DEF Change
  <2> QED BY <1>3, <1>7, <1>8, <1>12, <2>1
<1>13. ASSUME ~gone /\ e < -1 PROVE Says
  <2>1. o.db = PutList(d, k, <<>>) /\ o.reply = Hang
    BY <1>4, <1>13 DEF Answer
  <2>2. e < 0
    BY <1>2, <1>13
  <2> QED BY <1>3, <1>7, <1>8, <1>13, <2>1, <2>2
<1>14. ASSUME ~gone /\ ~(e < -1) /\ last < 0 PROVE Says
  <2>1. o.db = Without(d, {k}) /\ o.reply = Ok
    BY <1>4, <1>5, <1>14 DEF Change
  <2> QED BY <1>3, <1>7, <1>8, <1>14, <2>1
<1>15. ASSUME ~gone /\ ~(e < -1) /\ ~(last < 0) PROVE Says
  <2>1. kept # <<>>
    BY <1>2, <1>6, <1>15
  <2>2. o.db = PutList(d, k, kept) /\ o.reply = Ok
    BY <1>4, <1>15, <2>1 DEF Change
  <2>3. ~(e < 0)
    BY <1>2, <1>15
  <2>4. shown = Array(kept) /\ shown # Array(<<>>) /\ shown # Hang
    BY <1>3, <1>7, <1>9, <1>15, <2>1, <2>3
  <2> QED BY <1>7, <1>8, <1>15, <2>2, <2>4
<1>16. Says
  <2> HIDE DEF Says
  <2> QED BY <1>12, <1>13, <1>14, <1>15
<1> QED BY <1>1, <1>10, <1>11, <1>16 DEF TrimAgrees, k, len

(***************************************************************************)
(* LTRIM leaves what LRANGE with the same indices showed, for all indices  *)
(* and lists of any length that a history of commands builds, empty ones   *)
(* included; and each of the two fails to come back in exactly one case:   *)
(* LTRIM when both indices, in their order, lie more than one place before *)
(* the head, LRANGE when the list is empty and only start is negative.     *)
(***************************************************************************)
THEOREM TrimCorrect == Spec => TrimKeepsRange
<1> DEFINE Kept1(c) ==
      c.op = "LTRIM" /\ Run(c) /\ Holds(db, c.key, "list") =>
         LET list  == db[c.key].list
             shown == LRange(db, c.key, c.start, c.stop)
             left  == db'[c.key].list
         IN /\ stuck' <=> c.start <= c.stop /\ c.stop < -Len(list) - 1
            /\ stuck' => shown = Array(<<>>) /\ left = <<>>
            /\ shown = Hang <=> list = <<>> /\ c.start < 0 /\ c.stop >= 0
            /\ shown \in {Array(<<>>), Hang} /\ ~stuck' => c.key \notin DOMAIN db'
            /\ shown \notin {Array(<<>>), Hang} =>
                 Holds(db', c.key, "list") /\ Array(left) = shown
<1>1. TypeOK => \A c \in Commands : Kept1(c)
  <2> SUFFICES ASSUME TypeOK, NEW c \in Commands, c.op = "LTRIM", Run(c),
                      Holds(db, c.key, "list")
               PROVE  Kept1(c)
    OBVIOUS
  <2> DEFINE o == DoLTrim(db, c)
             shown == LRange(db, c.key, c.start, c.stop)
  <2>1. c \in Command /\ IsDatabase(db)
    BY CommandsAssumption DEF TypeOK
  <2>2. db' = o.db /\ stuck' = (o.reply = Hang)
    BY Dispatch DEF Run
  <2>3. TrimAgrees(c, db[c.key].list, shown, o.reply = Hang, o.db)
    BY <2>1, TrimmedAsShown
  <2> HIDE DEF o
  <2> QED BY <2>2, <2>3 DEF TrimAgrees
<1>2. TypeOK => [\A c \in Commands : Kept1(c)]_vars
  BY <1>1
<1> QED BY <1>2, TypeCorrect, PTL DEF TrimKeepsRange

-----------------------------------------------------------------------------
(* The snapshot.                                                           *)

LEMMA SecondsLeft ==
  ASSUME NEW exp \in Nat, NEW t \in Nat, exp >= t, NEW unit \in Nat \ {0},
         NEW x, x = t + ((exp - t) \div unit) * unit
  PROVE  x <= exp /\ x > exp - unit
<1> DEFINE left == exp - t
           secs == left \div unit
<1>1. left \in Nat
  OBVIOUS
<1>2. secs \in Nat /\ secs * unit <= left /\ left < secs * unit + unit
  <2> HIDE DEF left
  <2> QED BY <1>1
<1>3. PICK y : y = secs * unit
  OBVIOUS
<1>4. y \in Nat
  <2> HIDE DEF secs
  <2> QED BY <1>2, <1>3
<1>5. x = t + y
  BY <1>3
<1> HIDE DEF secs
<1> QED BY <1>2, <1>3, <1>4, <1>5

LEMMA SnapshotGives ==
  ASSUME TypeOK, Sound(db)
  PROVE  SnapshotRebuilds
<1> DEFINE text == Snapshot(db, Keys, now)
           made == Replay(text, now)
           gone == EmptyLists(db) \cup {k \in DOMAIN db : Expired(db, k, now)}
           left == Without(db, gone)
<1>1. now \in Nat /\ IsDatabase(db) /\ Keys \cap DOMAIN db = DOMAIN db
  BY DEF TypeOK, IsDatabase
<1>2. <<>> \in Seq(HandlerLine) /\ \A k : k \notin DOMAIN Replay(<<>>, now)
  BY ReplayNothing DEF EmptyDb
<1>3. /\ text \in Seq(UNION {LinesAt(k) : k \in DOMAIN db})
      /\ SameBut(Replay(<<>> \o text, now), Replay(<<>>, now), DOMAIN db)
      /\ \A k \in DOMAIN db : RebuiltAt(Replay(<<>> \o text, now), db, k, now, now)
  <2> DEFINE ks == Keys
             p == <<>>
  <2>1. ks \cap DOMAIN db = DOMAIN db /\ p \in Seq(HandlerLine)
    BY <1>1, <1>2
  <2>2. \A k \in ks \cap DOMAIN db : k \notin DOMAIN Replay(p, now)
    BY <1>2
  <2> HIDE DEF ks, p, text
  <2>3. /\ Snapshot(db, ks, now) \in Seq(UNION {LinesAt(k) : k \in ks \cap DOMAIN db})
        /\ SameBut(Replay(p \o Snapshot(db, ks, now), now), Replay(p, now), ks \cap DOMAIN db)
        /\ \A k \in ks \cap DOMAIN db :
             RebuiltAt(Replay(p \o Snapshot(db, ks, now), now), db, k, now, now)
    BY <1>1, <2>1, <2>2, SnapshotReplays
  <2> QED BY <2>1, <2>3 DEF ks, p, text
<1>4. text \in Seq(HandlerLine) /\ <<>> \o text = text
  <2>1. UNION {LinesAt(k) : k \in DOMAIN db} \subseteq HandlerLine
    BY DEF LinesAt
  <2>2. text \in Seq(HandlerLine)
    BY <1>3, <2>1
  <2> QED BY <2>2, ConcatEmptySeq
<1>5. IsDatabase(made)
  BY <1>1, <1>4, ReplayType DEF HandlerLine
<1> HIDE DEF text
<1>6. DOMAIN made \subseteq DOMAIN db /\ \A k \in DOMAIN db : RebuiltAt(made, db, k, now, now)
  BY <1>2, <1>3, <1>4 DEF SameBut
<1> HIDE DEF made
<1>7. \A k \in DOMAIN db : k \in gone <=> Absent(db[k], now)
  BY DEF EmptyLists, Holds, Expired, Absent
<1>8. IsDatabase(left) /\ DOMAIN left = DOMAIN db \ gone /\ \A k \in DOMAIN left : left[k] = db[k]
  BY <1>1, WithoutType DEF Without
<1> HIDE DEF gone, left
<1>9. DOMAIN made = DOMAIN left
  BY <1>6, <1>7, <1>8 DEF RebuiltAt
<1>10. \A k \in DOMAIN made : k \in DOMAIN db /\ Rebuilt(made[k], db[k], now, now)
  BY <1>6 DEF RebuiltAt
<1>11. SameData(made, left)
  <2>1. ASSUME NEW k \in DOMAIN made PROVE DataOf(made[k]) = DataOf(left[k])
    <3>1. Alike(made[k], db[k]) /\ made[k] \in Entry /\ db[k] \in Entry /\ left[k] = db[k]
      BY <1>1, <1>5, <1>8, <1>9, <1>10, EntryAt DEF Rebuilt
    <3> QED BY <3>1, SameEntries
  <2> QED BY <1>9, <2>1 DEF SameData
<1>12. SameLease(made, db)
  BY <1>10 DEF SameLease, Rebuilt, Alike
<1>13. ASSUME NEW k \in DOMAIN made, made[k].exp # Forever
       PROVE  made[k].exp <= db[k].exp /\ made[k].exp > db[k].exp - TicksPerSec
  <2>1. db[k].exp # Forever /\ db[k].exp \in Time
    BY <1>1, <1>10, <1>13, EntryAt, EntryFields DEF Rebuilt, Alike
  <2>2. /\ db[k].exp \in Nat /\ db[k].exp >= now
        /\ made[k].exp = now + ((db[k].exp - now) \div TicksPerSec) * TicksPerSec
    BY <1>10, <2>1 DEF Rebuilt, Time
  <2> QED BY <1>1, <2>2, SecondsLeft, KeyspaceAssumption
<1> QED BY <1>11, <1>12, <1>13 DEF SnapshotRebuilds, made, text, left, gone

(***************************************************************************)
(* Whatever a history of legible commands leaves in the store, the file    *)
(* the compactor would write of it rebuilds it: every key but the expired  *)
(* ones and the empty lists, with what is left of an expiry cut to whole   *)
(* seconds, for every length of a second in ticks.                         *)
(***************************************************************************)
THEOREM SnapshotCorrect ==
  ASSUME \A c \in Commands : Legible(c)
  PROVE  Spec => []SnapshotRebuilds
<1> DEFINE Writable == Sound(db)
<1>1. Init => Writable
  BY EmptySound DEF Init
<1>2. TypeOK /\ Writable /\ [Next]_vars => Writable'
  <2> SUFFICES ASSUME TypeOK, Writable, [Next]_vars PROVE Writable'
    OBVIOUS
  <2>1. db' = db \/ \E c \in Commands : db' = Exec(db, c, now).db
    BY DEF Next, Tick, Run, vars
  <2>2. now \in Nat /\ \A c \in Commands : c \in Command
    BY CommandsAssumption DEF TypeOK
  <2>3. \A d : d = db' => Sound(d)
    BY <2>1, <2>2, ExecSound
  <2> QED BY <2>3 DEF Sound, IsDatabase, OnlyStrings, Filled, WellMade
<1>3. TypeOK /\ Writable => SnapshotRebuilds
  BY SnapshotGives
<1> HIDE DEF Writable
<1> QED BY <1>1, <1>2, <1>3, TypeInit, TypeStep, PTL DEF Spec

-----------------------------------------------------------------------------
(***************************************************************************)
(* The arms that count need finite sets, whatever the words in the store:  *)
(* a history fills it one key, field or member at a time.                  *)
(***************************************************************************)

FiniteParts(e) ==
  /\ "hash" \in DOMAIN e => IsFiniteSet(DOMAIN e.hash)
  /\ "set" \in DOMAIN e => IsFiniteSet(e.set)

Finite(d) == IsFiniteSet(DOMAIN d) /\ \A k \in DOMAIN d : FiniteParts(d[k])

LEMMA FinitePut ==
  ASSUME NEW d, Finite(d), NEW k, NEW e, FiniteParts(e)
  PROVE  Finite(Put(d, k, e))
<1>1. IsFiniteSet(DOMAIN d \cup {k})
  BY FS_AddElement DEF Finite
<1>2. DOMAIN Put(d, k, e) = DOMAIN d \cup {k}
  BY DEF Put
<1>3. \A x \in DOMAIN d \cup {k} : FiniteParts(Put(d, k, e)[x])
  BY DEF Put, Finite
<1> QED BY <1>1, <1>2, <1>3 DEF Finite

LEMMA FiniteWithout ==
  ASSUME NEW d, Finite(d), NEW ks
  PROVE  Finite(Without(d, ks))
<1>1. IsFiniteSet(DOMAIN d \ ks)
  BY FS_Difference DEF Finite
<1>2. DOMAIN Without(d, ks) = DOMAIN d \ ks
  BY DEF Without
<1>3. \A x \in DOMAIN d \ ks : FiniteParts(Without(d, ks)[x])
  BY DEF Without, Finite
<1> QED BY <1>1, <1>2, <1>3 DEF Finite

LEMMA FiniteValues ==
  ASSUME NEW d, Finite(d), NEW k, NEW t, NEW v
  PROVE  Finite(Put(d, k, String(v, t))) /\ Finite(PutList(d, k, v))
<1>1. FiniteParts(String(v, t)) /\ FiniteParts([list |-> v, exp |-> Expiry(d, k)])
  BY DEF FiniteParts, String
<1> QED BY <1>1, FinitePut DEF PutList

LEMMA FieldsFinite ==
  ASSUME NEW d, Finite(d), NEW k, Accepts(d, k, "hash")
  PROVE  IsFiniteSet(DOMAIN FieldsAt(d, k))
<1>1. CASE k \in DOMAIN d
  BY <1>1 DEF FieldsAt, Accepts, Finite, FiniteParts
<1>2. CASE k \notin DOMAIN d
  <2>1. DOMAIN FieldsAt(d, k) = {}
    BY <1>2 DEF FieldsAt
  <2> QED BY <2>1, FS_EmptySet
<1> QED BY <1>1, <1>2

LEMMA MembersFinite ==
  ASSUME NEW d, Finite(d), NEW k, Accepts(d, k, "set")
  PROVE  IsFiniteSet(MembersAt(d, k))
BY FS_EmptySet DEF MembersAt, Accepts, Finite, FiniteParts

LEMMA FiniteField ==
  ASSUME NEW d, Finite(d), NEW k, Accepts(d, k, "hash"), NEW f, NEW v
  PROVE  Finite(PutField(d, k, f, v))
<1> DEFINE h == FieldsAt(d, k)
           g == [x \in DOMAIN h \cup {f} |-> IF x = f THEN v ELSE h[x]]
           e == [hash |-> g, exp |-> Expiry(d, k)]
<1>1. IsFiniteSet(DOMAIN h \cup {f})
  BY FieldsFinite, FS_AddElement
<1>2. DOMAIN e = {"hash", "exp"} /\ e.hash = g /\ DOMAIN g = DOMAIN h \cup {f}
  OBVIOUS
<1> HIDE DEF h, g, e
<1>3. FiniteParts(e)
  BY <1>1, <1>2 DEF FiniteParts
<1> QED BY <1>3, FinitePut DEF PutField, e, g, h

LEMMA FiniteMember ==
  ASSUME NEW d, Finite(d), NEW k, Accepts(d, k, "set"), NEW v
  PROVE  Finite(PutMember(d, k, v))
<1> DEFINE m == MembersAt(d, k) \cup {v}
<1>1. IsFiniteSet(m)
  BY MembersFinite, FS_AddElement
<1> HIDE DEF m
<1>2. FiniteParts([set |-> m, exp |-> Expiry(d, k)])
  BY <1>1 DEF FiniteParts
<1> QED BY <1>2, FinitePut DEF PutMember, m

LEMMA DidFinite ==
  ASSUME NEW d, Finite(d), NEW q \in Command, NEW t, NEW after, Did(d, q, t, after)
  PROVE  Finite(after)
<1>1. CASE q.op \in {"SET", "SETEX", "INCR"}
  <2>1. \E v, x : after = Put(d, q.key, String(v, x))
    BY <1>1 DEF Did
  <2> QED BY <2>1, FiniteValues
<1>2. CASE q.op \in {"GET", "DEL"}
  <2>1. after = Without(d, {q.key})
    BY <1>2 DEF Did
  <2> QED BY <2>1, FiniteWithout
<1>3. CASE q.op \in {"LPUSH", "RPUSH", "LPOP", "RPOP", "LREM"}
  <2>1. \E l : after = PutList(d, q.key, l)
    BY <1>3 DEF Did, PushFront, PushBack, PopFront, PopBack, DropFirst
  <2> QED BY <2>1, FiniteValues
<1>4. CASE q.op = "LTRIM"
  <2>1. after = Without(d, {q.key}) \/ \E l : after = PutList(d, q.key, l)
    BY <1>4 DEF Did
  <2> QED BY <2>1, FiniteWithout, FiniteValues
<1>5. CASE q.op = "HSET"
  BY <1>5, FiniteField DEF Did
<1>6. CASE q.op = "SADD"
  BY <1>6, FiniteMember DEF Did
<1>7. CASE q.op = "RPOPLPUSH"
  <2> DEFINE p == PopBack(d, q.key)
  <2>1. Finite(p)
    BY FiniteValues DEF PopBack
  <2>2. after = MoveItem(d, q.key, q.dst)
    BY <1>7 DEF Did
  <2> HIDE DEF p
  <2>3. after = p \/ \E l : after = PutList(p, q.dst, l)
    BY <2>2 DEF MoveItem, PushFront, p
  <2> QED BY <2>1, <2>3, FiniteValues
<1> QED BY <1>1, <1>2, <1>3, <1>4, <1>5, <1>6, <1>7 DEF Command

LEMMA FiniteInit == Init => Finite(db)
BY FS_EmptySet DEF Init, EmptyDb, Finite

LEMMA FiniteStep == TypeOK /\ Finite(db) /\ [Next]_vars => Finite(db')
<1> SUFFICES ASSUME TypeOK, Finite(db), [Next]_vars PROVE Finite(db')
  OBVIOUS
<1>1. now \in Nat /\ IsDatabase(db) /\ \A c \in Commands : c \in Command
  BY CommandsAssumption DEF TypeOK
<1>2. db' = db \/ \E c \in Commands : db' = Exec(db, c, now).db
  BY DEF Next, Tick, Run, vars
<1>3. ASSUME NEW c \in Commands, db' = Exec(db, c, now).db PROVE Finite(db')
  <2>1. PICK after : after = Exec(db, c, now).db
    OBVIOUS
  <2>2. after = db \/ Did(db, c, now, after)
    BY <1>1, <2>1, ExecDid
  <2>3. Finite(after)
    BY <1>1, <2>2, DidFinite
  <2> QED BY <1>3, <2>1, <2>3
<1> QED BY <1>2, <1>3

-----------------------------------------------------------------------------
(* What readers see of what was written.                                   *)

Refusals == {WrongType, NotInt, Silent, Panic}

LEMMA RepliesApart ==
  /\ Ok \notin Refusals /\ Null \notin Refusals
  /\ \A x : Number(x) \notin Refusals /\ Bulk(x) \notin Refusals /\ Bulk(x) # Null
  /\ \A x : (Number1(Number(x)) <=> x = 1) /\ Number(x) # Null
  /\ \A x, y : (Number(x) = Number(y) <=> x = y) /\ (Bulk(x) = Bulk(y) <=> x = y)
  /\ \A x, y : Array(x) = Array(y) <=> x = y
  /\ \A x : Number(x)[2] = x /\ Bulk(x)[2] = x /\ Array(x)[2] = x
  /\ \A r \in Refusals : ~Number1(r)
BY DEF Refusals, Ok, Null, Number, Bulk, Array, WrongType, NotInt, Silent, Panic, Number1

\* ReadsAgree, one command at a time
Agrees(before, after, c, said) ==
  LET k == c.key
  IN /\ said \in Refusals => after = before
     /\ said \notin Refusals =>
        /\ c.op \in {"SET", "SETEX"} =>
             /\ MGet(after, k, k) = Array(<<Bulk(c.val), Bulk(c.val)>>)
             /\ Strlen(after, k) = <<"length", c.val>>
        /\ c.op = "INCR" => MGet(after, k, k)[2][1] = Bulk(said[2])
        /\ c.op = "GET"  => MGet(after, k, k)[2][1] = said
        /\ c.op = "DEL"  => Exists(before, k) = said /\ Type(after, k) = {"none"}
        /\ c.op = "LPUSH" => Llen(after, k) = said /\ LRange(after, k, 0, 0) = Array(<<c.val>>)
        /\ c.op = "RPUSH" => Llen(after, k) = said /\ LRange(after, k, -1, -1) = Array(<<c.val>>)
        /\ c.op = "LPOP" /\ said # Null =>
             /\ Array(<<said[2]>>) = LRange(before, k, 0, 0)
             /\ LRange(after, k, 0, -1) = LRange(before, k, 1, -1)
        /\ c.op = "RPOP" /\ said # Null =>
             /\ Array(<<said[2]>>) = LRange(before, k, -1, -1)
             /\ LRange(after, k, 0, -1) = LRange(before, k, 0, -2)
        /\ c.op = "LREM" /\ Number1(said) => Llen(after, k)[2] = Llen(before, k)[2] - 1
        /\ c.op = "HSET" =>
             /\ HGet(after, k, c.field) = Bulk(c.val)
             /\ HGetAll(after, k)[2][c.field] = c.val
             /\ HGet(before, k, c.field) = Null => Hlen(after, k)[2] = Hlen(before, k)[2] + 1
        /\ c.op = "SADD" /\ Number1(said) =>
             /\ SMembers(after, k)[2] = SMembers(before, k)[2] \cup {c.val}
             /\ Scard(after, k)[2] = Scard(before, k)[2] + 1
             /\ c.val \in SInter(after, k, k)[2]
        /\ c.op = "RPOPLPUSH" /\ said # Null /\ Accepts(before, c.dst, "list") =>
             LRange(after, c.dst, 0, 0) = Array(<<said[2]>>)

\* the rest of ReadsAgree: what GET, EXISTS and TYPE make of the entry
Settled(before, after, c, said, t) ==
  LET k == c.key
  IN said \notin Refusals =>
       /\ c.op \in {"SET", "SETEX"} => Reads(after, k, c.val, t)
       /\ c.op = "INCR" => Reads(after, k, said[2], t)
       /\ c.op = "DEL"  => Exists(after, k) = Number(0)
       /\ c.op \in {"LPUSH", "RPUSH"} => Known(after, k, "list")
       /\ c.op = "HSET" => Known(after, k, "hash")
       /\ c.op = "SADD" /\ Number1(said) => Known(after, k, "set")
       /\ c.op = "RPOPLPUSH" /\ said # Null /\ Accepts(before, c.dst, "list") =>
            Known(after, c.dst, "list")

LEMMA Agreement ==
  ASSUME NEW before, NEW after, NEW c, NEW said, NEW t, Agrees(before, after, c, said),
         Settled(before, after, c, said, t)
  PROVE  ReadsAgree(before, after, c, said, t)
<1>1. CASE said \in Refusals
  BY <1>1 DEF Agrees, ReadsAgree, Refusals
<1>2. CASE said \notin Refusals
  <2>1. CASE c.op \in {"SET", "SETEX", "INCR", "GET", "DEL"}
    BY <1>2, <2>1 DEF Agrees, Settled, ReadsAgree, Refusals
  <2>2. CASE c.op \in {"LPUSH", "RPUSH", "LPOP", "RPOP"}
    BY <1>2, <2>2 DEF Agrees, Settled, ReadsAgree, Refusals
  <2>3. CASE c.op \in {"LREM", "HSET", "SADD", "RPOPLPUSH"}
    BY <1>2, <2>3 DEF Agrees, Settled, ReadsAgree, Refusals
  <2>4. CASE c.op \notin {"SET", "SETEX", "INCR", "GET", "DEL", "LPUSH", "RPUSH", "LPOP",
                          "RPOP", "LREM", "HSET", "SADD", "RPOPLPUSH"}
    BY <1>2, <2>4 DEF ReadsAgree, Refusals
  <2> QED BY <2>1, <2>2, <2>3, <2>4
<1> QED BY <1>1, <1>2

LEMMA OneOf ==
  ASSUME NEW S, NEW l \in Seq(S), NEW i \in 1 .. Len(l)
  PROVE  SubSeq(l, i, i) = <<l[i]>>
<1>1. SubSeq(l, i, i) \in Seq(S) /\ Len(SubSeq(l, i, i)) = 1 /\ SubSeq(l, i, i)[1] = l[i]
  OBVIOUS
<1>2. <<l[i]>> \in Seq(S) /\ Len(<<l[i]>>) = 1 /\ <<l[i]>>[1] = l[i]
  OBVIOUS
<1>3. \A s, t \in Seq(S) : Len(s) = 1 /\ Len(t) = 1 /\ s[1] = t[1] => s = t
  <2>1. ASSUME NEW s \in Seq(S), NEW t \in Seq(S), Len(s) = 1, Len(t) = 1, s[1] = t[1]
        PROVE  s = t
    <3>1. \A j \in 1 .. Len(s) : s[j] = t[j]
      BY <2>1
    <3> QED BY <2>1, <3>1, SeqEqual
  <2> QED BY <2>1
<1> QED BY <1>1, <1>2, <1>3

LEMMA ListShown ==
  ASSUME NEW d, NEW k, NEW l \in Seq(Val), Holds(d, k, "list"), d[k].list = l
  PROVE  /\ Llen(d, k) = Number(Len(l))
         /\ LRange(d, k, 0, -1) = Array(l)
         /\ l # <<>> => /\ LRange(d, k, 0, 0) = Array(<<Head(l)>>)
                        /\ LRange(d, k, -1, -1) = Array(<<Last(l)>>)
                        /\ LRange(d, k, 1, -1) = Array(Tail(l))
                        /\ LRange(d, k, 0, -2) = Array(Front(l))
<1> DEFINE n == Len(l)
<1>1. n \in Nat /\ (n = 0 <=> l = <<>>)
  OBVIOUS
<1>2. Llen(d, k) = Number(n)
  BY DEF Llen, OfKind, Holds
<1>3. ASSUME NEW a \in Int, NEW b \in Int
      PROVE  LRange(d, k, a, b) =
               LET s == At(a, n)
                   e == At(b, n)
               IN IF s > e \/ s >= n \/ e < 0 THEN Array(<<>>)
                  ELSE IF n = 0 THEN Hang
                  ELSE Array(SubSeq(l, AtLeast(0, s) + 1, AtMost(e, n - 1) + 1))
  <2>1. /\ At(b, n) \in Int
        /\ ~(At(b, n) < 0) => (AtMost(At(b, n), n - 1) < 0 <=> n = 0)
    BY <1>1 DEF At, AtMost
  <2>2. LRange(d, k, a, b) =
          IF At(a, n) > At(b, n) \/ At(a, n) >= n \/ At(b, n) < 0 THEN Array(<<>>)
          ELSE IF AtMost(At(b, n), n - 1) < 0 THEN Hang
          ELSE Array(SubSeq(l, AtLeast(0, At(a, n)) + 1, AtMost(At(b, n), n - 1) + 1))
    BY DEF LRange, ListAt, Holds, Accepts
  <2> HIDE DEF n
  <2> QED BY <2>1, <2>2
<1> HIDE DEF n
<1>4. LRange(d, k, 0, -1) = Array(l)
  <2>1. At(0, n) = 0 /\ At(-1, n) = n - 1
    BY <1>1 DEF At
  <2>2. CASE n = 0
    BY <1>1, <1>3, <2>1, <2>2
  <2>3. CASE n # 0
    <3>1. LRange(d, k, 0, -1) = Array(SubSeq(l, AtLeast(0, 0) + 1, AtMost(n - 1, n - 1) + 1))
      BY <1>1, <1>3, <2>1, <2>3
    <3>2. AtLeast(0, 0) + 1 = 1 /\ AtMost(n - 1, n - 1) + 1 = n
      BY <1>1 DEF AtLeast, AtMost
    <3>3. SubSeq(l, 1, n) = l
      BY DEF n
    <3> QED BY <3>1, <3>2, <3>3
  <2> QED BY <2>2, <2>3
<1>5. ASSUME l # <<>> PROVE LRange(d, k, 0, 0) = Array(<<Head(l)>>)
  <2>1. At(0, n) = 0 /\ AtLeast(0, 0) + 1 = 1 /\ AtMost(0, n - 1) + 1 = 1
    BY <1>1, <1>5 DEF At, AtLeast, AtMost
  <2>2. LRange(d, k, 0, 0) = Array(SubSeq(l, 1, 1))
    BY <1>1, <1>3, <1>5, <2>1
  <2>3. SubSeq(l, 1, 1) = <<Head(l)>>
    <3>1. 1 \in 1 .. Len(l) /\ Head(l) = l[1]
      BY <1>5
    <3> QED BY <3>1, OneOf
  <2> QED BY <2>2, <2>3
<1>6. ASSUME l # <<>> PROVE LRange(d, k, -1, -1) = Array(<<Last(l)>>)
  <2>1. At(-1, n) = n - 1 /\ AtLeast(0, n - 1) + 1 = n /\ AtMost(n - 1, n - 1) + 1 = n
    BY <1>1, <1>6 DEF At, AtLeast, AtMost
  <2>2. LRange(d, k, -1, -1) = Array(SubSeq(l, n, n))
    BY <1>1, <1>3, <1>6, <2>1
  <2>3. SubSeq(l, n, n) = <<Last(l)>>
    <3>1. n \in 1 .. Len(l) /\ Last(l) = l[n]
      BY <1>6 DEF Last, n
    <3> QED BY <3>1, OneOf
  <2> QED BY <2>2, <2>3
<1>7. ASSUME l # <<>> PROVE LRange(d, k, 1, -1) = Array(Tail(l))
  <2>1. At(1, n) = 1 /\ At(-1, n) = n - 1 /\ AtLeast(0, 1) + 1 = 2
        /\ AtMost(n - 1, n - 1) + 1 = n
    BY <1>1, <1>7 DEF At, AtLeast, AtMost
  <2>2. CASE n = 1
    <3>1. LRange(d, k, 1, -1) = Array(<<>>)
      BY <1>1, <1>3, <2>1, <2>2
    <3>2. Tail(l) = <<>>
      <4>1. Tail(l) \in Seq(Val) /\ Len(Tail(l)) = 0
        BY <1>7, <2>2 DEF n
      <4>2. \A t \in Seq(Val) : Len(t) = 0 => t = <<>>
        OBVIOUS
      <4> QED BY <4>1, <4>2
    <3> QED BY <3>1, <3>2
  <2>3. CASE n # 1
    <3>1. LRange(d, k, 1, -1) = Array(SubSeq(l, 2, n))
      BY <1>1, <1>3, <1>7, <2>1, <2>3
    <3>2. SubSeq(l, 2, n) = Tail(l)
      BY <1>7 DEF n
    <3> QED BY <3>1, <3>2
  <2> QED BY <2>2, <2>3
<1>8. ASSUME l # <<>> PROVE LRange(d, k, 0, -2) = Array(Front(l))
  <2>1. At(0, n) = 0 /\ At(-2, n) = n - 2 /\ AtLeast(0, 0) + 1 = 1
        /\ (n # 1 => AtMost(n - 2, n - 1) + 1 = n - 1)
    BY <1>1, <1>8 DEF At, AtLeast, AtMost
  <2>2. CASE n = 1
    <3>1. LRange(d, k, 0, -2) = Array(<<>>)
      BY <1>1, <1>3, <2>1, <2>2
    <3>2. Front(l) = <<>>
      BY <2>2 DEF n, Front
    <3> QED BY <3>1, <3>2
  <2>3. CASE n # 1
    <3>1. LRange(d, k, 0, -2) = Array(SubSeq(l, 1, n - 1))
      BY <1>1, <1>3, <1>8, <2>1, <2>3
    <3> QED BY <3>1 DEF n, Front
  <2> QED BY <2>2, <2>3
<1> QED BY <1>2, <1>4, <1>5, <1>6, <1>7, <1>8 DEF n

\* what is put is what is found
LEMMA PutShown ==
  ASSUME NEW d, NEW k, NEW l
  PROVE  Holds(PutList(d, k, l), k, "list") /\ PutList(d, k, l)[k].list = l
BY DEF PutList, Put, Holds

\* removing the first v leaves one item less
LEMMA OneItemLess ==
  ASSUME NEW S, NEW s \in Seq(S), NEW v, Contains(s, v)
  PROVE  Len(RemoveFirst(s, v)) = Len(s) - 1
<1> DEFINE I == {i \in 1 .. Len(s) : s[i] = v}
           m == Min(I)
<1>1. I \in SUBSET Nat /\ I # {}
  BY DEF Contains
<1>2. PICK x \in I : \A y \in I : x <= y
  BY <1>1, LeastNumber
<1>3. m \in I
  <2> HIDE DEF I
  <2> QED BY <1>2 DEF Min
<1>4. m \in 1 .. Len(s)
  BY <1>3
<1>5. RemoveFirst(s, v) = SubSeq(s, 1, m - 1) \o SubSeq(s, m + 1, Len(s))
  BY <1>1, Zenon DEF RemoveFirst, RemoveAt, SelectInSeq, Contains
<1> HIDE DEF m
<1>6. SubSeq(s, 1, m - 1) \in Seq(S) /\ Len(SubSeq(s, 1, m - 1)) = m - 1
  BY <1>4
<1>7. SubSeq(s, m + 1, Len(s)) \in Seq(S) /\ Len(SubSeq(s, m + 1, Len(s))) = Len(s) - m
  <2>1. CASE m = Len(s)
    <3>1. SubSeq(s, m + 1, Len(s)) = <<>>
      BY <2>1
    <3> QED BY <2>1, <3>1
  <2>2. CASE m # Len(s)
    <3>1. m + 1 \in 1 .. Len(s)
      BY <1>4, <2>2
    <3>2. Len(SubSeq(s, m + 1, Len(s))) = Len(s) - (m + 1) + 1
      BY <3>1
    <3> QED BY <1>4, <3>1, <3>2
  <2> QED BY <2>1, <2>2
<1>8. \A a, b \in Seq(S) : Len(a \o b) = Len(a) + Len(b)
  OBVIOUS
<1>9. Len(RemoveFirst(s, v)) = (m - 1) + (Len(s) - m)
  BY <1>5, <1>6, <1>7, <1>8
<1> QED BY <1>4, <1>9

LEMMA StringShown ==
  ASSUME NEW d, NEW k, NEW v, Holds(d, k, "str"), d[k].str = v
  PROVE  /\ MGet(d, k, k) = Array(<<Bulk(v), Bulk(v)>>)
         /\ Strlen(d, k) = <<"length", v>>
BY DEF MGet, Strlen, OfKind, Holds

LEMMA StringPut ==
  ASSUME NEW d, NEW k, NEW v, NEW t
  PROVE  Holds(Put(d, k, String(v, t)), k, "str") /\ Put(d, k, String(v, t))[k].str = v
BY DEF Put, String, Holds

LEMMA SetRead ==
  ASSUME NEW d, NEW q \in Command, q.op \in {"SET", "SETEX"}, NEW t \in Nat
  PROVE  Agrees(d, Exec(d, q, t).db, q, Exec(d, q, t).reply)
<1> DEFINE o == Exec(d, q, t)
<1>1. \/ o.db = d /\ o.reply \in Refusals
      \/ /\ o.reply = Ok
         /\ \E x : o.db = Put(d, q.key, String(q.val, x))
  <2> DEFINE x == Deadline(q, t)
  <2>1. DoSet(d, q).reply = Ok /\ DoSet(d, q).db = Put(d, q.key, String(q.val, Forever))
    BY DEF DoSet, Change
  <2>2. \/ DoSetEx(d, q, t).db = d /\ DoSetEx(d, q, t).reply \in Refusals
        \/ /\ DoSetEx(d, q, t).reply = Ok
           /\ DoSetEx(d, q, t).db = Put(d, q.key, String(q.val, x))
    BY DEF DoSetEx, Answer, Change, Refusals
  <2>3. o \in {DoSet(d, q), DoSetEx(d, q, t)}
    BY Dispatch
  <2> HIDE DEF o, x
  <2> QED BY <2>1, <2>2, <2>3
<1>2. CASE o.db = d /\ o.reply \in Refusals
  BY <1>2 DEF Agrees
<1>3. ASSUME NEW x, o.reply = Ok, o.db = Put(d, q.key, String(q.val, x))
      PROVE  Agrees(d, o.db, q, o.reply)
  <2>1. /\ MGet(o.db, q.key, q.key) = Array(<<Bulk(q.val), Bulk(q.val)>>)
        /\ Strlen(o.db, q.key) = <<"length", q.val>>
    BY <1>3, StringPut, StringShown
  <2>2. o.reply \notin Refusals
    BY <1>3, RepliesApart
  <2> QED BY <2>1, <2>2 DEF Agrees
<1> QED BY <1>1, <1>2, <1>3

LEMMA IncrRead ==
  ASSUME NEW d, NEW q \in Command, q.op = "INCR", NEW t \in Nat
  PROVE  Agrees(d, Exec(d, q, t).db, q, Exec(d, q, t).reply)
<1> DEFINE o == Exec(d, q, t)
           n == Successor(IF q.key \in DOMAIN d THEN d[q.key].str ELSE 0)
<1>1. \/ o.db = d /\ o.reply \in Refusals
      \/ o.reply = Number(n) /\ o.db = Put(d, q.key, String(n, Forever))
  <2>1. \A r : r = DoIncr(d, q) =>
          \/ r.db = d /\ r.reply \in Refusals
          \/ r.reply = Number(n) /\ r.db = Put(d, q.key, String(n, Forever))
    BY DEF DoIncr, Answer, Change, Refusals
  <2>2. o = DoIncr(d, q)
    BY Dispatch
  <2> HIDE DEF o
  <2> QED BY <2>1, <2>2
<1> HIDE DEF o, n
<1>2. CASE o.db = d /\ o.reply \in Refusals
  BY <1>2 DEF Agrees, o
<1>3. CASE o.reply = Number(n) /\ o.db = Put(d, q.key, String(n, Forever))
  <2>1. MGet(o.db, q.key, q.key) = Array(<<Bulk(n), Bulk(n)>>)
    BY <1>3, StringPut, StringShown
  <2>2. MGet(o.db, q.key, q.key)[2][1] = Bulk(o.reply[2]) /\ o.reply \notin Refusals
    BY <1>3, <2>1, RepliesApart
  <2> QED BY <2>2 DEF Agrees, o
<1> QED BY <1>1, <1>2, <1>3 DEF o

LEMMA GetRead ==
  ASSUME NEW d, NEW q \in Command, q.op = "GET", NEW t \in Nat
  PROVE  Agrees(d, Exec(d, q, t).db, q, Exec(d, q, t).reply)
<1> DEFINE o == Exec(d, q, t)
<1>1. \/ o.db = d /\ o.reply \in Refusals
      \/ o.reply = Null /\ q.key \notin DOMAIN o.db
      \/ o.db = d /\ Holds(d, q.key, "str") /\ o.reply = Bulk(d[q.key].str)
  <2>1. \A r : r = DoGet(d, q, t) =>
          \/ r.db = d /\ r.reply \in Refusals
          \/ r.reply = Null /\ q.key \notin DOMAIN r.db
          \/ r.db = d /\ Holds(d, q.key, "str") /\ r.reply = Bulk(d[q.key].str)
    BY DEF DoGet, Answer, Change, Refusals, Expired, Without
  <2>2. o = DoGet(d, q, t)
    BY Dispatch
  <2> HIDE DEF o
  <2> QED BY <2>1, <2>2
<1> HIDE DEF o
<1>2. CASE o.db = d /\ o.reply \in Refusals
  BY <1>2 DEF Agrees, o
<1>3. CASE o.reply = Null /\ q.key \notin DOMAIN o.db
  <2>1. MGet(o.db, q.key, q.key) = Array(<<Null, Null>>)
    BY <1>3 DEF MGet, Holds
  <2>2. MGet(o.db, q.key, q.key)[2][1] = o.reply /\ o.reply \notin Refusals
    BY <1>3, <2>1, RepliesApart
  <2> QED BY <2>2 DEF Agrees, o
<1>4. CASE o.db = d /\ Holds(d, q.key, "str") /\ o.reply = Bulk(d[q.key].str)
  <2> DEFINE v == d[q.key].str
  <2>1. MGet(o.db, q.key, q.key) = Array(<<Bulk(v), Bulk(v)>>)
    BY <1>4, StringShown
  <2> HIDE DEF v
  <2>2. MGet(o.db, q.key, q.key)[2][1] = o.reply /\ o.reply \notin Refusals
    BY <1>4, <2>1, RepliesApart DEF v
  <2> QED BY <2>2 DEF Agrees, o
<1> QED BY <1>1, <1>2, <1>3, <1>4 DEF o

LEMMA DelRead ==
  ASSUME NEW d, NEW q \in Command, q.op = "DEL", NEW t \in Nat
  PROVE  Agrees(d, Exec(d, q, t).db, q, Exec(d, q, t).reply)
<1> DEFINE o == Exec(d, q, t)
<1>1. /\ o.reply = Number(IF q.key \in DOMAIN d THEN 1 ELSE 0)
      /\ q.key \notin DOMAIN o.db
  <2>1. \A r : r = DoDel(d, q) =>
          /\ r.reply = Number(IF q.key \in DOMAIN d THEN 1 ELSE 0)
          /\ q.key \notin DOMAIN r.db
    BY DEF DoDel, Answer, Change, Without
  <2>2. o = DoDel(d, q)
    BY Dispatch
  <2> HIDE DEF o
  <2> QED BY <2>1, <2>2
<1> HIDE DEF o
<1>2. Exists(d, q.key) = o.reply /\ Type(o.db, q.key) = {"none"} /\ o.reply \notin Refusals
  BY <1>1, RepliesApart DEF Exists, Type
<1> QED BY <1>2 DEF Agrees, o

LEMMA PushRead ==
  ASSUME NEW d, IsDatabase(d), NEW q \in Command, q.op \in {"LPUSH", "RPUSH"}, NEW t \in Nat
  PROVE  Agrees(d, Exec(d, q, t).db, q, Exec(d, q, t).reply)
<1> DEFINE o == Exec(d, q, t)
           l == ListAt(d, q.key)
           m == IF q.op = "LPUSH" THEN <<q.val>> \o l ELSE Append(l, q.val)
<1>1. \/ o.db = d /\ o.reply \in Refusals
      \/ /\ Accepts(d, q.key, "list")
         /\ o.db = PutList(d, q.key, m) /\ o.reply = Number(Len(l) + 1)
  <2>1. \A r : r = DoPush(d, q) =>
          \/ r.db = d /\ r.reply \in Refusals
          \/ /\ Accepts(d, q.key, "list")
             /\ r.db = PutList(d, q.key, m) /\ r.reply = Number(Len(l) + 1)
    BY DEF DoPush, Answer, Change, Refusals, PushFront, PushBack
  <2>2. o = DoPush(d, q)
    BY Dispatch
  <2> HIDE DEF o
  <2> QED BY <2>1, <2>2
<1>2. CASE o.db = d /\ o.reply \in Refusals
  BY <1>2 DEF Agrees
<1>3. ASSUME Accepts(d, q.key, "list"),
             o.db = PutList(d, q.key, m), o.reply = Number(Len(l) + 1)
      PROVE  Agrees(d, o.db, q, o.reply)
  <2>1. l \in Seq(Val) /\ q.val \in Val
    BY <1>3, ListAtType, CommandFields
  <2> HIDE DEF l
  <2>2. m \in Seq(Val) /\ Len(m) = Len(l) + 1 /\ m # <<>>
    BY <2>1
  <2>3. (q.op = "LPUSH" => Head(m) = q.val) /\ (q.op = "RPUSH" => Last(m) = q.val)
    BY <2>1 DEF Last
  <2> HIDE DEF m, o
  <2>4. /\ Llen(o.db, q.key) = o.reply
        /\ LRange(o.db, q.key, 0, 0) = Array(<<Head(m)>>)
        /\ LRange(o.db, q.key, -1, -1) = Array(<<Last(m)>>)
    BY <1>3, <2>2, PutShown, ListShown
  <2>5. o.reply \notin Refusals
    BY <1>3, RepliesApart
  <2> QED BY <2>3, <2>4, <2>5 DEF Agrees
<1> QED BY <1>1, <1>2, <1>3

LEMMA PopRead ==
  ASSUME NEW d, IsDatabase(d), NEW q \in Command, q.op \in {"LPOP", "RPOP"}, NEW t \in Nat
  PROVE  Agrees(d, Exec(d, q, t).db, q, Exec(d, q, t).reply)
<1> DEFINE o == Exec(d, q, t)
           l == d[q.key].list
<1>1. \/ o.db = d /\ o.reply \in Refusals
      \/ o.reply = Null
      \/ /\ q.op = "LPOP" /\ HasItem(d, q.key)
         /\ o.db = PutList(d, q.key, Tail(l)) /\ o.reply = Bulk(Head(l))
      \/ /\ q.op = "RPOP" /\ HasItem(d, q.key)
         /\ o.db = PutList(d, q.key, Front(l)) /\ o.reply = Bulk(Last(l))
  <2>1. \A r : r = DoPop(d, q) =>
          \/ r.db = d /\ r.reply \in Refusals
          \/ r.reply = Null
          \/ /\ q.op = "LPOP" /\ HasItem(d, q.key)
             /\ r.db = PutList(d, q.key, Tail(l)) /\ r.reply = Bulk(Head(l))
          \/ /\ q.op = "RPOP" /\ HasItem(d, q.key)
             /\ r.db = PutList(d, q.key, Front(l)) /\ r.reply = Bulk(Last(l))
    BY DEF DoPop, Answer, Change, Refusals, PopFront, PopBack
  <2>2. o = DoPop(d, q)
    BY Dispatch
  <2> HIDE DEF o
  <2> QED BY <2>1, <2>2
<1>2. CASE o.db = d /\ o.reply \in Refusals
  BY <1>2 DEF Agrees
<1>3. CASE o.reply = Null
  BY <1>3, RepliesApart DEF Agrees
<1>4. HasItem(d, q.key) => /\ Holds(d, q.key, "list") /\ l \in Seq(Val) /\ l # <<>>
                           /\ Tail(l) \in Seq(Val) /\ Front(l) \in Seq(Val)
  <2> SUFFICES ASSUME HasItem(d, q.key)
               PROVE  /\ Holds(d, q.key, "list") /\ l \in Seq(Val) /\ l # <<>>
                      /\ Tail(l) \in Seq(Val) /\ Front(l) \in Seq(Val)
    OBVIOUS
  <2>1. Holds(d, q.key, "list") /\ l \in Seq(Val) /\ l # <<>>
    BY ListType DEF HasItem
  <2> HIDE DEF l
  <2> QED BY <2>1, LastAppended
<1>5. ASSUME q.op = "LPOP", HasItem(d, q.key),
             o.db = PutList(d, q.key, Tail(l)), o.reply = Bulk(Head(l))
      PROVE  Agrees(d, o.db, q, o.reply)
  <2>1. LRange(d, q.key, 0, 0) = Array(<<Head(l)>>) /\ LRange(d, q.key, 1, -1) = Array(Tail(l))
    BY <1>4, <1>5, ListShown
  <2>2. LRange(o.db, q.key, 0, -1) = Array(Tail(l))
    <3>1. Holds(o.db, q.key, "list") /\ o.db[q.key].list = Tail(l)
      BY <1>5, PutShown
    <3>2. Tail(l) \in Seq(Val)
      BY <1>4, <1>5
    <3> HIDE DEF o, l
    <3> QED BY <3>1, <3>2, ListShown
  <2> HIDE DEF o, l
  <2>3. o.reply[2] = Head(l) /\ o.reply \notin Refusals
    BY <1>5, RepliesApart
  <2> QED BY <1>5, <2>1, <2>2, <2>3 DEF Agrees
<1>6. ASSUME q.op = "RPOP", HasItem(d, q.key),
             o.db = PutList(d, q.key, Front(l)), o.reply = Bulk(Last(l))
      PROVE  Agrees(d, o.db, q, o.reply)
  <2>1. LRange(d, q.key, -1, -1) = Array(<<Last(l)>>) /\ LRange(d, q.key, 0, -2) = Array(Front(l))
    BY <1>4, <1>6, ListShown
  <2>2. LRange(o.db, q.key, 0, -1) = Array(Front(l))
    <3>1. Holds(o.db, q.key, "list") /\ o.db[q.key].list = Front(l)
      BY <1>6, PutShown
    <3>2. Front(l) \in Seq(Val)
      BY <1>4, <1>6
    <3> HIDE DEF o, l
    <3> QED BY <3>1, <3>2, ListShown
  <2> HIDE DEF o, l
  <2>3. o.reply[2] = Last(l) /\ o.reply \notin Refusals
    BY <1>6, RepliesApart
  <2> QED BY <1>6, <2>1, <2>2, <2>3 DEF Agrees
<1> QED BY <1>1, <1>2, <1>3, <1>5, <1>6

LEMMA RemRead ==
  ASSUME NEW d, IsDatabase(d), NEW q \in Command, q.op = "LREM", NEW t \in Nat
  PROVE  Agrees(d, Exec(d, q, t).db, q, Exec(d, q, t).reply)
<1> DEFINE o == Exec(d, q, t)
           l == d[q.key].list
           m == RemoveFirst(l, q.val)
<1>1. \/ o.db = d /\ o.reply = Number(0)
      \/ /\ Holds(d, q.key, "list") /\ Contains(l, q.val)
         /\ o.db = PutList(d, q.key, m) /\ o.reply = Number(1)
  <2>1. \A r : r = DoLRem(d, q) =>
          \/ r.db = d /\ r.reply = Number(0)
          \/ /\ Holds(d, q.key, "list") /\ Contains(l, q.val)
             /\ r.db = PutList(d, q.key, m) /\ r.reply = Number(1)
    BY DEF DoLRem, Answer, Change, DropFirst
  <2>2. o = DoLRem(d, q)
    BY Dispatch
  <2> HIDE DEF o, m
  <2> QED BY <2>1, <2>2
<1> HIDE DEF o
<1>2. CASE o.db = d /\ o.reply = Number(0)
  <2>1. o.reply \notin Refusals /\ ~Number1(o.reply)
    BY <1>2, RepliesApart
  <2> QED BY <2>1 DEF Agrees, o
<1>3. ASSUME Holds(d, q.key, "list"), Contains(l, q.val),
             o.db = PutList(d, q.key, m), o.reply = Number(1)
      PROVE  Agrees(d, o.db, q, o.reply)
  <2>1. l \in Seq(Val)
    BY <1>3, ListType
  <2>2. m \in Seq(Val) /\ Len(m) = Len(l) - 1
    <3> HIDE DEF l
    <3> QED BY <1>3, <2>1, RemoveFirstType, OneItemLess
  <2>3. Llen(d, q.key) = Number(Len(l))
    BY <1>3, <2>1, ListShown
  <2> HIDE DEF l, m
  <2>4. Llen(o.db, q.key) = Number(Len(m))
    <3>1. Holds(o.db, q.key, "list") /\ o.db[q.key].list = m
      BY <1>3, PutShown
    <3> QED BY <2>2, <3>1, ListShown
  <2>5. Llen(o.db, q.key)[2] = Llen(d, q.key)[2] - 1 /\ o.reply \notin Refusals
    BY <1>3, <2>2, <2>3, <2>4, RepliesApart
  <2> QED BY <2>5 DEF Agrees
<1> QED BY <1>1, <1>2, <1>3 DEF o

LEMMA HashShown ==
  ASSUME NEW d, NEW k, NEW h, Holds(d, k, "hash"), d[k].hash = h
  PROVE  /\ Hlen(d, k) = Number(Cardinality(DOMAIN h))
         /\ HGetAll(d, k) = Array(h)
         /\ \A f : HGet(d, k, f) = IF f \in DOMAIN h THEN Bulk(h[f]) ELSE Null
BY DEF Hlen, HGetAll, HGet, OfKind, Holds

LEMMA NoHashShown ==
  ASSUME NEW d, NEW k, k \notin DOMAIN d
  PROVE  Hlen(d, k) = Number(0)
BY DEF Hlen, OfKind, Holds

LEMMA HSetRead ==
  ASSUME NEW d, Finite(d), NEW q \in Command, q.op = "HSET", NEW t \in Nat
  PROVE  Agrees(d, Exec(d, q, t).db, q, Exec(d, q, t).reply)
<1> DEFINE o == Exec(d, q, t)
           h == FieldsAt(d, q.key)
           g == [x \in DOMAIN h \cup {q.field} |-> IF x = q.field THEN q.val ELSE h[x]]
<1>1. \/ o.db = d /\ o.reply \in Refusals
      \/ /\ Accepts(d, q.key, "hash") /\ o.reply = Ok
         /\ o.db = PutField(d, q.key, q.field, q.val)
  <2>1. \A r : r = DoHSet(d, q) =>
          \/ r.db = d /\ r.reply \in Refusals
          \/ /\ Accepts(d, q.key, "hash") /\ r.reply = Ok
             /\ r.db = PutField(d, q.key, q.field, q.val)
    BY DEF DoHSet, Answer, Change, Refusals
  <2>2. o = DoHSet(d, q)
    BY Dispatch
  <2> HIDE DEF o
  <2> QED BY <2>1, <2>2
<1> HIDE DEF o
<1>2. CASE o.db = d /\ o.reply \in Refusals
  BY <1>2 DEF Agrees, o
<1>3. ASSUME Accepts(d, q.key, "hash"), o.reply = Ok,
             o.db = PutField(d, q.key, q.field, q.val)
      PROVE  Agrees(d, o.db, q, o.reply)
  <2>1. Holds(o.db, q.key, "hash") /\ o.db[q.key].hash = g
    BY <1>3 DEF PutField, Put, Holds
  <2>2. IsFiniteSet(DOMAIN h)
    BY <1>3, FieldsFinite
  <2>3. Hlen(d, q.key) = Number(Cardinality(DOMAIN h))
    <3>1. CASE q.key \in DOMAIN d
      BY <1>3, <3>1, HashShown DEF Accepts, Holds, FieldsAt
    <3>2. CASE q.key \notin DOMAIN d
      <4>1. DOMAIN h = {}
        BY <3>2 DEF FieldsAt
      <4> HIDE DEF h
      <4> QED BY <3>2, <4>1, NoHashShown, FS_EmptySet
    <3> QED BY <3>1, <3>2
  <2>4. ASSUME HGet(d, q.key, q.field) = Null PROVE q.field \notin DOMAIN h
    <3>1. CASE q.key \in DOMAIN d
      <4>1. HGet(d, q.key, q.field) = IF q.field \in DOMAIN h THEN Bulk(h[q.field]) ELSE Null
        BY <1>3, <3>1, HashShown DEF Accepts, Holds, FieldsAt
      <4> HIDE DEF h
      <4> QED BY <2>4, <4>1, RepliesApart
    <3>2. CASE q.key \notin DOMAIN d
      BY <3>2 DEF FieldsAt
    <3> QED BY <3>1, <3>2
  <2>5. DOMAIN g = DOMAIN h \cup {q.field} /\ g[q.field] = q.val
    OBVIOUS
  <2> HIDE DEF h, g
  <2>6. q.field \notin DOMAIN h => Cardinality(DOMAIN g) = Cardinality(DOMAIN h) + 1
    BY <2>2, <2>5, FS_AddElement
  <2>7. /\ HGet(o.db, q.key, q.field) = Bulk(q.val) /\ HGetAll(o.db, q.key) = Array(g)
        /\ Hlen(o.db, q.key) = Number(Cardinality(DOMAIN g))
    BY <2>1, <2>5, HashShown
  <2>8. /\ HGetAll(o.db, q.key)[2][q.field] = q.val
        /\ HGet(d, q.key, q.field) = Null => Hlen(o.db, q.key)[2] = Hlen(d, q.key)[2] + 1
        /\ o.reply \notin Refusals
    BY <1>3, <2>3, <2>4, <2>5, <2>6, <2>7, RepliesApart
  <2> QED BY <2>7, <2>8 DEF Agrees
<1> QED BY <1>1, <1>2, <1>3 DEF o

LEMMA SetShown ==
  ASSUME NEW d, NEW k, Accepts(d, k, "set")
  PROVE  /\ Scard(d, k) = Number(Cardinality(MembersAt(d, k)))
         /\ SMembers(d, k) = Array(MembersAt(d, k))
         /\ SInter(d, k, k) = Array(MembersAt(d, k))
<1>1. CASE k \in DOMAIN d
  BY <1>1 DEF Accepts, Scard, SMembers, SInter, OfKind, Holds, MembersAt
<1>2. CASE k \notin DOMAIN d
  BY <1>2, FS_EmptySet DEF Accepts, Scard, SMembers, SInter, OfKind, Holds, MembersAt
<1> QED BY <1>1, <1>2

LEMMA SAddRead ==
  ASSUME NEW d, Finite(d), NEW q \in Command, q.op = "SADD", NEW t \in Nat
  PROVE  Agrees(d, Exec(d, q, t).db, q, Exec(d, q, t).reply)
<1> DEFINE o == Exec(d, q, t)
           m == MembersAt(d, q.key)
<1>1. \/ o.db = d /\ o.reply = Number(0)
      \/ /\ Accepts(d, q.key, "set") /\ q.val \notin m /\ o.reply = Number(1)
         /\ o.db = PutMember(d, q.key, q.val)
  <2>1. \A r : r = DoSAdd(d, q) =>
          \/ r.db = d /\ r.reply = Number(0)
          \/ /\ Accepts(d, q.key, "set") /\ q.val \notin m /\ r.reply = Number(1)
             /\ r.db = PutMember(d, q.key, q.val)
    BY DEF DoSAdd, Answer, Change
  <2>2. o = DoSAdd(d, q)
    BY Dispatch
  <2> HIDE DEF o
  <2> QED BY <2>1, <2>2
<1> HIDE DEF o
<1>2. CASE o.db = d /\ o.reply = Number(0)
  <2>1. o.reply \notin Refusals /\ ~Number1(o.reply)
    BY <1>2, RepliesApart
  <2> QED BY <2>1 DEF Agrees, o
<1>3. ASSUME Accepts(d, q.key, "set"), q.val \notin m, o.reply = Number(1),
             o.db = PutMember(d, q.key, q.val)
      PROVE  Agrees(d, o.db, q, o.reply)
  <2>1. Accepts(o.db, q.key, "set") /\ MembersAt(o.db, q.key) = m \cup {q.val}
    BY <1>3 DEF PutMember, Put, Accepts, MembersAt
  <2>2. IsFiniteSet(m)
    BY <1>3, MembersFinite
  <2> HIDE DEF m
  <2>3. Cardinality(m \cup {q.val}) = Cardinality(m) + 1
    BY <1>3, <2>2, FS_AddElement
  <2>4. /\ Scard(d, q.key) = Number(Cardinality(m)) /\ SMembers(d, q.key) = Array(m)
    BY <1>3, SetShown DEF m
  <2>5. /\ Scard(o.db, q.key) = Number(Cardinality(m \cup {q.val}))
        /\ SMembers(o.db, q.key) = Array(m \cup {q.val})
        /\ SInter(o.db, q.key, q.key) = Array(m \cup {q.val})
    BY <2>1, SetShown
  <2>6. /\ SMembers(o.db, q.key)[2] = SMembers(d, q.key)[2] \cup {q.val}
        /\ Scard(o.db, q.key)[2] = Scard(d, q.key)[2] + 1
        /\ q.val \in SInter(o.db, q.key, q.key)[2]
        /\ o.reply \notin Refusals
    BY <1>3, <2>3, <2>4, <2>5, RepliesApart
  <2> QED BY <2>6 DEF Agrees
<1> QED BY <1>1, <1>2, <1>3 DEF o

LEMMA MoveRead ==
  ASSUME NEW d, IsDatabase(d), NEW q \in Command, q.op = "RPOPLPUSH", NEW t \in Nat
  PROVE  Agrees(d, Exec(d, q, t).db, q, Exec(d, q, t).reply)
<1> DEFINE o == Exec(d, q, t)
           item == Last(d[q.key].list)
           p == PopBack(d, q.key)
<1>1. \/ o.db = d /\ o.reply = Null
      \/ /\ HasItem(d, q.key) /\ o.db = MoveItem(d, q.key, q.dst)
         /\ o.reply = Bulk(item)
  <2>1. \A r : r = DoRPopLPush(d, q) =>
          \/ r.db = d /\ r.reply = Null
          \/ /\ HasItem(d, q.key) /\ r.db = MoveItem(d, q.key, q.dst)
             /\ r.reply = Bulk(item)
    BY DEF DoRPopLPush, Answer, Change
  <2>2. o = DoRPopLPush(d, q)
    BY Dispatch
  <2> HIDE DEF o, item
  <2> QED BY <2>1, <2>2
<1> HIDE DEF o
<1>2. CASE o.reply = Null
  BY <1>2, RepliesApart DEF Agrees, o
<1>3. ASSUME HasItem(d, q.key), o.db = MoveItem(d, q.key, q.dst), o.reply = Bulk(item),
             Accepts(d, q.dst, "list")
      PROVE  LRange(o.db, q.dst, 0, 0) = Array(<<o.reply[2]>>)
  <2>1. Accepts(p, q.dst, "list")
    BY <1>3 DEF p, PopBack, PutList, Put, Accepts
  <2>2. IsDatabase(p) /\ item \in Val
    BY <1>3, CommandFields, PopType
  <2> DEFINE l == ListAt(p, q.dst)
  <2>3. o.db = PutList(p, q.dst, <<item>> \o l)
    BY <1>3, <2>1 DEF MoveItem, PushFront
  <2>4. l \in Seq(Val)
    <3> HIDE DEF p
    <3> QED BY <2>1, <2>2, ListAtType
  <2> HIDE DEF p, l, item
  <2>5. /\ <<item>> \o l \in Seq(Val) /\ <<item>> \o l # <<>>
        /\ Head(<<item>> \o l) = item
    BY <2>2, <2>4
  <2> DEFINE m == <<item>> \o l
  <2> HIDE DEF m
  <2>6. LRange(o.db, q.dst, 0, 0) = Array(<<item>>)
    <3>1. Holds(o.db, q.dst, "list") /\ o.db[q.dst].list = m
      <4>1. o.db = PutList(p, q.dst, m)
        BY <2>3 DEF m
      <4> QED BY <4>1, PutShown
    <3>2. m \in Seq(Val) /\ m # <<>> /\ Head(m) = item
      BY <2>5 DEF m
    <3> QED BY <3>1, <3>2, ListShown
  <2> QED BY <1>3, <2>6, RepliesApart
<1>4. CASE /\ HasItem(d, q.key) /\ o.db = MoveItem(d, q.key, q.dst)
           /\ o.reply = Bulk(item)
  <2>1. o.reply \notin Refusals
    BY <1>4, RepliesApart
  <2> QED BY <1>3, <1>4, <2>1 DEF Agrees, o
<1> QED BY <1>1, <1>2, <1>4

LEMMA TrimRead ==
  ASSUME NEW d, NEW q \in Command, q.op = "LTRIM", NEW t \in Nat
  PROVE  Agrees(d, Exec(d, q, t).db, q, Exec(d, q, t).reply)
<1> DEFINE o == DoLTrim(d, q)
<1>1. o.reply \in Refusals => o.db = d
  BY DEF DoLTrim, Answer, Change, Refusals, Ok, Hang, WrongType, NotInt, Silent, Panic
<1>2. Exec(d, q, t) = o
  BY Dispatch
<1> HIDE DEF o
<1> QED BY <1>1, <1>2 DEF Agrees

\* EXISTS and TYPE know an entry by what is in it
LEMMA KnownPut ==
  ASSUME NEW d, NEW k, NEW v, NEW x
  PROVE  /\ Known(Put(d, k, String(v, x)), k, "str")
         /\ Known(PutList(d, k, v), k, "list")
         /\ \A f : Known(PutField(d, k, f, v), k, "hash")
         /\ Known(PutMember(d, k, v), k, "set")
<1>1. ASSUME NEW e, NEW kind, DOMAIN e = {kind, "exp"}, kind # "exp"
      PROVE  Known(Put(d, k, e), k, kind)
  <2>1. k \in DOMAIN Put(d, k, e) /\ Put(d, k, e)[k] = e
    BY DEF Put
  <2> QED BY <1>1, <2>1 DEF Known, Exists, Type
<1>2. Known(Put(d, k, String(v, x)), k, "str")
  BY <1>1 DEF String
<1>3. Known(PutList(d, k, v), k, "list")
  BY <1>1 DEF PutList
<1>4. ASSUME NEW f PROVE Known(PutField(d, k, f, v), k, "hash")
  BY <1>1 DEF PutField
<1>5. Known(PutMember(d, k, v), k, "set")
  BY <1>1 DEF PutMember
<1> QED BY <1>2, <1>3, <1>4, <1>5

\* a string that has not expired is what every reader of strings finds
LEMMA ReadsPut ==
  ASSUME NEW d, NEW k, NEW v, NEW x, NEW t, x # Forever => ~(t > x)
  PROVE  Reads(Put(d, k, String(v, x)), k, v, t)
<1> DEFINE p == Put(d, k, String(v, x))
<1>1. k \in DOMAIN p /\ p[k].exp = x /\ Holds(p, k, "str") /\ p[k].str = v
  BY StringPut DEF Put, String
<1> HIDE DEF p
<1>2. ~Expired(p, k, t)
  BY <1>1 DEF Expired
<1>3. Get(k).key = k
  BY DEF Get
<1>4. DoGet(p, Get(k), t).reply = Bulk(v)
  BY <1>1, <1>2, <1>3 DEF DoGet, Answer
<1> QED BY <1>1, <1>4, StringShown, KnownPut DEF Reads, p

LEMMA ExecSettled ==
  ASSUME NEW d, NEW q \in Command, NEW t \in Nat
  PROVE  Settled(d, Exec(d, q, t).db, q, Exec(d, q, t).reply, t)
<1> DEFINE o == Exec(d, q, t)
<1>1. ASSUME q.op = "SET" PROVE Reads(o.db, q.key, q.val, t)
  <2>1. o = DoSet(d, q)
    BY <1>1, Dispatch
  <2>2. o.db = Put(d, q.key, String(q.val, Forever))
    BY <2>1 DEF DoSet, Change
  <2> HIDE DEF o
  <2> QED BY <2>2, ReadsPut
<1>2. ASSUME q.op = "SETEX", o.reply \notin Refusals PROVE Reads(o.db, q.key, q.val, t)
  <2>1. o = DoSetEx(d, q, t)
    BY <1>2, Dispatch
  <2> HIDE DEF o
  <2>2. InTime(q, t) /\ o.db = Put(d, q.key, String(q.val, Deadline(q, t)))
    BY <1>2, <2>1 DEF DoSetEx, Change, Answer, Refusals
  <2>3. q.secs \in Nat
    BY <1>2, <2>2, CommandFields DEF InTime
  <2>4. q.secs * TicksPerSec \in Nat
    BY <2>3, KeyspaceAssumption
  <2>5. ~(t > Deadline(q, t))
    <3>1. PICK n \in Nat : n = q.secs * TicksPerSec
      BY <2>4
    <3>2. Deadline(q, t) = t + n
      BY <3>1 DEF Deadline
    <3> QED BY <3>2
  <2> QED BY <2>2, <2>5, ReadsPut
<1>3. ASSUME q.op = "INCR", o.reply \notin Refusals PROVE Reads(o.db, q.key, o.reply[2], t)
  <2> DEFINE n == Successor(IF q.key \in DOMAIN d THEN d[q.key].str ELSE 0)
  <2>1. \A r : r = DoIncr(d, q) /\ r.reply \notin Refusals =>
          r.reply = Number(n) /\ r.db = Put(d, q.key, String(n, Forever))
    BY DEF DoIncr, Answer, Change, Refusals
  <2>2. o = DoIncr(d, q)
    BY <1>3, Dispatch
  <2> HIDE DEF o, n
  <2>3. o.reply[2] = n /\ o.db = Put(d, q.key, String(n, Forever))
    BY <1>3, <2>1, <2>2, RepliesApart
  <2> QED BY <2>3, ReadsPut
<1>4. ASSUME q.op = "DEL" PROVE Exists(o.db, q.key) = Number(0)
  <2>1. \A r : r = DoDel(d, q) => q.key \notin DOMAIN r.db
    BY DEF DoDel, Answer, Change, Without
  <2>2. o = DoDel(d, q)
    BY <1>4, Dispatch
  <2> HIDE DEF o
  <2> QED BY <2>1, <2>2 DEF Exists
<1>5. ASSUME q.op \in {"LPUSH", "RPUSH"}, o.reply \notin Refusals PROVE Known(o.db, q.key, "list")
  <2>1. \A r : r = DoPush(d, q) /\ r.reply \notin Refusals => \E l : r.db = PutList(d, q.key, l)
    BY DEF DoPush, Answer, Change, Refusals, PushFront, PushBack
  <2>2. o = DoPush(d, q)
    BY <1>5, Dispatch
  <2> HIDE DEF o
  <2> QED BY <1>5, <2>1, <2>2, KnownPut
<1>6. ASSUME q.op = "HSET", o.reply \notin Refusals PROVE Known(o.db, q.key, "hash")
  <2>1. \A r : r = DoHSet(d, q) /\ r.reply \notin Refusals =>
          r.db = PutField(d, q.key, q.field, q.val)
    BY DEF DoHSet, Answer, Change, Refusals
  <2>2. o = DoHSet(d, q)
    BY <1>6, Dispatch
  <2> HIDE DEF o
  <2> QED BY <1>6, <2>1, <2>2, KnownPut
<1>7. ASSUME q.op = "SADD", Number1(o.reply) PROVE Known(o.db, q.key, "set")
  <2>1. \A r : r = DoSAdd(d, q) /\ Number1(r.reply) => r.db = PutMember(d, q.key, q.val)
    BY DEF DoSAdd, Answer, Change, Number1, Number
  <2>2. o = DoSAdd(d, q)
    BY <1>7, Dispatch
  <2> HIDE DEF o
  <2> QED BY <1>7, <2>1, <2>2, KnownPut
<1>8. ASSUME q.op = "RPOPLPUSH", o.reply # Null, Accepts(d, q.dst, "list")
      PROVE  Known(o.db, q.dst, "list")
  <2>1. \A r : r = DoRPopLPush(d, q) /\ r.reply # Null => r.db = MoveItem(d, q.key, q.dst)
    BY DEF DoRPopLPush, Answer, Change
  <2>2. o = DoRPopLPush(d, q)
    BY <1>8, Dispatch
  <2> HIDE DEF o
  <2>3. o.db = MoveItem(d, q.key, q.dst)
    BY <1>8, <2>1, <2>2
  <2>4. Accepts(PopBack(d, q.key), q.dst, "list")
    BY <1>8 DEF PopBack, PutList, Put, Accepts
  <2>5. \E l : o.db = PutList(PopBack(d, q.key), q.dst, l)
    BY <2>3, <2>4 DEF MoveItem, PushFront
  <2> QED BY <2>5, KnownPut
<1> HIDE DEF o
<1> QED BY <1>1, <1>2, <1>3, <1>4, <1>5, <1>6, <1>7, <1>8 DEF Settled, o

LEMMA ExecRead ==
  ASSUME NEW d, IsDatabase(d), Finite(d), NEW q \in Command, NEW t \in Nat
  PROVE  ReadsAgree(d, Exec(d, q, t).db, q, Exec(d, q, t).reply, t)
<1>1. Agrees(d, Exec(d, q, t).db, q, Exec(d, q, t).reply)
  <2>1. q.op \in {"SET", "SETEX", "GET", "DEL", "INCR", "LPUSH", "RPUSH", "LPOP", "RPOP",
                  "LREM", "LTRIM", "HSET", "SADD", "RPOPLPUSH"}
    BY DEF Command
  <2> QED BY <2>1, SetRead, GetRead, DelRead, IncrRead, PushRead, PopRead, RemRead, TrimRead,
             HSetRead, SAddRead, MoveRead
<1>2. Settled(d, Exec(d, q, t).db, q, Exec(d, q, t).reply, t)
  BY ExecSettled
<1> QED BY <1>1, <1>2, Agreement

(***************************************************************************)
(* After every command the arms that read say what the arm that wrote has  *)
(* answered: a value, a count, a popped item, a member, under the kind it  *)
(* was written as; and a command that was refused has changed nothing.     *)
(***************************************************************************)
THEOREM ReadersAgree == Spec => WritesAreRead
<1> DEFINE Told(c) == Run(c) /\ ~stuck' =>
                        ReadsAgree(db, db', c, Exec(db, c, now).reply, now)
<1>1. TypeOK /\ Finite(db) => \A c \in Commands : Told(c)
  <2> SUFFICES ASSUME TypeOK, Finite(db), NEW c \in Commands, Run(c)
               PROVE  ReadsAgree(db, db', c, Exec(db, c, now).reply, now)
    OBVIOUS
  <2>1. c \in Command /\ IsDatabase(db) /\ now \in Nat
    BY CommandsAssumption DEF TypeOK
  <2>2. db' = Exec(db, c, now).db
    BY DEF Run
  <2> QED BY <2>1, <2>2, ExecRead
<1>2. TypeOK /\ Finite(db) => [\A c \in Commands : Told(c)]_<<db, log, stuck>>
  BY <1>1
<1> DEFINE Finitely == Finite(db)
<1>3. Init => Finitely
  BY FiniteInit
<1>4. TypeOK /\ Finitely /\ [Next]_vars => Finitely'
  BY FiniteStep DEF Finite, FiniteParts
<1> QED BY <1>2, <1>3, <1>4, TypeCorrect, PTL DEF WritesAreRead, Spec

-----------------------------------------------------------------------------
(***************************************************************************)
(* How many copies of a value there are.  Copies folds over the keys in an *)
(* order nobody knows; the sum is the same in every order.                 *)
(***************************************************************************)

Times(l, v) == Cardinality({i \in DOMAIN l : l[i] = v})

CopiesAt(d, v, k) == IF Holds(d, k, "list") THEN Times(d[k].list, v) ELSE 0

Picked(s) == CHOOSE x \in s : TRUE

\* the equation FoldSet solves
SumsTo(it, d, v, S) ==
  it = [s \in SUBSET S |->
         IF s = {} THEN 0 ELSE it[s \ {Picked(s)}] + CopiesAt(d, v, Picked(s))]

LEMMA CopiesAreSum ==
  ASSUME NEW d, NEW v
  PROVE  Copies(d, v) = (CHOOSE it : SumsTo(it, d, v, DOMAIN d))[DOMAIN d]
BY Zenon DEF Copies, FoldSet, MapThenFoldSet, SumsTo, Picked, CopiesAt, Times

LEMMA SmallerSets ==
  ASSUME NEW S, IsFiniteSet(S)
  PROVE  /\ \A s \in SUBSET S : IsFiniteSet(s) /\ Cardinality(s) \in Nat
         /\ \A s \in SUBSET S : Cardinality(s) = 0 <=> s = {}
         /\ \A s \in SUBSET S : \A x \in s : Cardinality(s \ {x}) = Cardinality(s) - 1
<1>1. \A s \in SUBSET S : IsFiniteSet(s)
  BY FS_Subset
<1>2. ASSUME NEW s \in SUBSET S, NEW x \in s
      PROVE  Cardinality(s \ {x}) = Cardinality(s) - 1
  BY <1>1, FS_RemoveElement
<1> QED BY <1>1, <1>2, FS_CardinalityType, FS_EmptySet

LEMMA SumExists ==
  ASSUME NEW d, NEW v, NEW S, IsFiniteSet(S)
  PROVE  \E it : SumsTo(it, d, v, S)
<1> DEFINE Value(it, s) ==
             IF s = {} THEN 0 ELSE it[s \ {Picked(s)}] + CopiesAt(d, v, Picked(s))
           UpTo(it, n) == \A s \in SUBSET S : Cardinality(s) <= n => it[s] = Value(it, s)
           N == {n \in Nat : \E it : UpTo(it, n)}
<1>1. 0 \in N
  <2> DEFINE it == [s \in SUBSET S |-> 0]
  <2>1. ASSUME NEW s \in SUBSET S, Cardinality(s) <= 0 PROVE it[s] = Value(it, s)
    BY <2>1, SmallerSets
  <2> QED BY <2>1
<1>2. ASSUME NEW n \in Nat, n \in N PROVE n + 1 \in N
  <2>1. PICK it : UpTo(it, n)
    BY <1>2
  <2> DEFINE up == [s \in SUBSET S |-> Value(it, s)]
  <2>2. ASSUME NEW s \in SUBSET S, Cardinality(s) <= n + 1 PROVE up[s] = Value(up, s)
    <3>1. CASE s = {}
      BY <3>1
    <3>2. CASE s # {}
      <4> DEFINE r == s \ {Picked(s)}
      <4>1. Picked(s) \in s /\ r \in SUBSET S
        BY <3>2 DEF Picked
      <4>2. Cardinality(r) <= n
        BY <2>2, <4>1, SmallerSets
      <4>3. up[r] = it[r]
        BY <2>1, <4>1, <4>2
      <4> QED BY <3>2, <4>3
    <3> QED BY <3>1, <3>2
  <2>3. UpTo(up, n + 1)
    BY <2>2
  <2> HIDE DEF UpTo
  <2> QED BY <2>3
<1>3. Nat \subseteq N
  <2> HIDE DEF N
  <2> QED BY <1>1, <1>2, NumbersByInduction
<1>4. Cardinality(S) \in Nat /\ \A s \in SUBSET S : Cardinality(s) <= Cardinality(S)
  BY FS_Subset, FS_CardinalityType
<1>5. PICK it : UpTo(it, Cardinality(S))
  BY <1>3, <1>4
<1> DEFINE sum == [s \in SUBSET S |-> it[s]]
<1>6. \A s \in SUBSET S : sum[s] = Value(sum, s)
  <2> SUFFICES ASSUME NEW s \in SUBSET S PROVE sum[s] = Value(sum, s)
    OBVIOUS
  <2>1. it[s] = Value(it, s)
    BY <1>4, <1>5
  <2>2. s \ {Picked(s)} \in SUBSET S
    OBVIOUS
  <2> QED BY <2>1, <2>2
<1>7. SumsTo(sum, d, v, S)
  BY <1>6 DEF SumsTo
<1> QED BY <1>7

\* f[s] is the number of copies of v in the lists of s
Counts(f, d, v) ==
  \A s \in SUBSET DOMAIN d :
    /\ f[s] \in Nat
    /\ s = {} => f[s] = 0
    /\ \A x \in s : f[s] = f[s \ {x}] + CopiesAt(d, v, x)

LEMMA InAnyOrder ==
  ASSUME NEW d, NEW v, IsFiniteSet(DOMAIN d), \A k \in DOMAIN d : CopiesAt(d, v, k) \in Nat,
         NEW f, SumsTo(f, d, v, DOMAIN d)
  PROVE  Counts(f, d, v)
<1> DEFINE C(x) == CopiesAt(d, v, x)
           Right(s) == f[s] \in Nat /\ \A x \in s : f[s] = f[s \ {x}] + C(x)
           N == {n \in Nat : \A s \in SUBSET DOMAIN d : Cardinality(s) <= n => Right(s)}
<1>1. \A s \in SUBSET DOMAIN d :
        f[s] = IF s = {} THEN 0 ELSE f[s \ {Picked(s)}] + C(Picked(s))
  BY DEF SumsTo
<1>e. \A s \in SUBSET DOMAIN d : s = {} => Right(s)
  <2>1. {} \in SUBSET DOMAIN d /\ f[{}] = 0
    BY <1>1
  <2> QED BY <2>1
<1>2. 0 \in N
  <2>1. \A s \in SUBSET DOMAIN d : Cardinality(s) <= 0 => s = {}
    BY SmallerSets
  <2> HIDE DEF Right
  <2> QED BY <1>e, <2>1
<1>3. ASSUME NEW n \in Nat, n \in N PROVE n + 1 \in N
  <2> SUFFICES ASSUME NEW s \in SUBSET DOMAIN d, Cardinality(s) <= n + 1, s # {}
               PROVE  Right(s)
    <3> HIDE DEF Right
    <3> QED BY <1>e
  <2> DEFINE c == Picked(s)
             t == s \ {c}
  <2>1. c \in s
    BY DEF Picked
  <2>2. t \in SUBSET DOMAIN d /\ Cardinality(t) <= n
    BY <2>1, SmallerSets
  <2>3. Right(t)
    BY <1>3, <2>2
  <2>4. f[s] = f[t] + C(c) /\ C(c) \in Nat
    BY <1>1, <2>1
  <2>5. ASSUME NEW x \in s, x # c PROVE f[s] = f[s \ {x}] + C(x)
    <3> DEFINE u == s \ {x}
    <3>1. u \in SUBSET DOMAIN d /\ Cardinality(u) <= n /\ c \in u /\ x \in t
      BY <2>1, <2>5, SmallerSets
    <3>2. f[u] = f[u \ {c}] + C(c)
      BY <1>3, <3>1
    <3>3. f[t] = f[t \ {x}] + C(x)
      BY <2>3, <3>1
    <3>4. u \ {c} = t \ {x} /\ t \ {x} \in SUBSET DOMAIN d /\ Cardinality(t \ {x}) <= n
      BY <2>2, <3>1, SmallerSets
    <3>5. f[t \ {x}] \in Nat /\ C(x) \in Nat
      BY <1>3, <3>4
    <3> HIDE DEF C, u, t, c
    <3>6. f[s] = (f[t \ {x}] + C(x)) + C(c)
      BY <2>4, <3>3
    <3>7. f[u] = f[t \ {x}] + C(c)
      BY <3>2, <3>4
    <3>8. f[s] = f[u] + C(x)
      BY <2>4, <3>5, <3>6, <3>7
    <3> QED BY <3>8 DEF u
  <2>6. f[s] \in Nat
    <3>1. f[t] \in Nat
      BY <2>3
    <3> HIDE DEF C, c, t
    <3> QED BY <2>4, <3>1
  <2>7. f[s] = f[s \ {c}] + C(c)
    BY <2>4
  <2> HIDE DEF C, c, t
  <2> QED BY <2>5, <2>6, <2>7
<1>4. Nat \subseteq N
  <2> HIDE DEF N
  <2> QED BY <1>2, <1>3, NumbersByInduction
<1>5. \A s \in SUBSET DOMAIN d : Right(s)
  BY <1>4, SmallerSets
<1> QED BY <1>1, <1>5 DEF Counts

LEMMA TimesType ==
  ASSUME NEW S, NEW l \in Seq(S), NEW v
  PROVE  IsFiniteSet({i \in DOMAIN l : l[i] = v}) /\ Times(l, v) \in Nat
<1>1. DOMAIN l = 1 .. Len(l) /\ Len(l) \in Nat
  OBVIOUS
<1>2. IsFiniteSet(1 .. Len(l))
  BY <1>1, FS_Interval
<1>3. IsFiniteSet({i \in DOMAIN l : l[i] = v})
  BY <1>1, <1>2, FS_Subset
<1> QED BY <1>3, FS_CardinalityType DEF Times

LEMMA TimesBack ==
  ASSUME NEW S, NEW l \in Seq(S), NEW x \in S, NEW v
  PROVE  Times(Append(l, x), v) = Times(l, v) + (IF x = v THEN 1 ELSE 0)
<1> DEFINE n == Len(l)
           m == Append(l, x)
           A == {i \in DOMAIN l : l[i] = v}
           B == {i \in DOMAIN m : m[i] = v}
<1>1. /\ n \in Nat /\ DOMAIN l = 1 .. n /\ DOMAIN m = 1 .. n + 1
      /\ m[n + 1] = x /\ \A i \in 1 .. n : m[i] = l[i]
  OBVIOUS
<1> HIDE DEF n, m
<1>2. IsFiniteSet(A) /\ Cardinality(A) = Times(l, v) /\ Times(l, v) \in Nat
  BY TimesType DEF Times
<1>3. n + 1 \notin A /\ B = IF x = v THEN A \cup {n + 1} ELSE A
  BY <1>1
<1>4. Times(m, v) = Cardinality(B)
  BY DEF Times
<1> HIDE DEF A, B
<1>5. Cardinality(A \cup {n + 1}) = Cardinality(A) + 1
  BY <1>2, <1>3, FS_AddElement
<1> QED BY <1>2, <1>3, <1>4, <1>5 DEF m

LEMMA TimesFront ==
  ASSUME NEW S, NEW l \in Seq(S), NEW x \in S, NEW v
  PROVE  Times(<<x>> \o l, v) = Times(l, v) + (IF x = v THEN 1 ELSE 0)
<1> DEFINE n == Len(l)
           m == <<x>> \o l
           A == {i \in DOMAIN l : l[i] = v}
           B == {i \in DOMAIN m : m[i] = v}
           C == {i \in 2 .. n + 1 : m[i] = v}
           f == [i \in A |-> i + 1]
<1>1. /\ n \in Nat /\ DOMAIN l = 1 .. n /\ DOMAIN m = 1 .. n + 1
      /\ m[1] = x /\ \A i \in 1 .. n : m[i + 1] = l[i]
  OBVIOUS
<1> HIDE DEF n, m
<1>2. IsFiniteSet(A) /\ Cardinality(A) = Times(l, v) /\ Times(l, v) \in Nat
  BY TimesType DEF Times
<1>3. f \in Bijection(A, C)
  <2>1. f \in [A -> C]
    BY <1>1
  <2>2. \A i, j \in A : f[i] = f[j] => i = j
    BY <1>1
  <2>3. ASSUME NEW j \in C PROVE \E i \in A : f[i] = j
    <3>1. j - 1 \in 1 .. n /\ (j - 1) + 1 = j
      BY <1>1
    <3>2. j - 1 \in A /\ f[j - 1] = j
      BY <1>1, <3>1
    <3> QED BY <3>2
  <2> HIDE DEF A, C, f
  <2> QED BY <2>1, <2>2, <2>3 DEF Bijection, Injection, Surjection, IsInjective
<1>4. 1 \notin C /\ B = IF x = v THEN C \cup {1} ELSE C
  BY <1>1
<1>5. Times(m, v) = Cardinality(B)
  BY DEF Times
<1> HIDE DEF A, B, C, f
<1>6. IsFiniteSet(C) /\ Cardinality(C) = Cardinality(A)
  BY <1>2, <1>3, FS_Bijection DEF ExistsBijection
<1>7. Cardinality(C \cup {1}) = Cardinality(C) + 1
  BY <1>4, <1>6, FS_AddElement
<1> QED BY <1>2, <1>4, <1>5, <1>6, <1>7 DEF m

LEMMA CopiesAtType ==
  ASSUME NEW d, IsDatabase(d), NEW v, NEW k
  PROVE  CopiesAt(d, v, k) \in Nat
BY ListType, TimesType DEF CopiesAt

LEMMA Counted ==
  ASSUME NEW d, IsDatabase(d), IsFiniteSet(DOMAIN d), NEW v
  PROVE  \E f : Counts(f, d, v) /\ f[DOMAIN d] = Copies(d, v)
<1> DEFINE f == CHOOSE it : SumsTo(it, d, v, DOMAIN d)
<1>1. SumsTo(f, d, v, DOMAIN d)
  BY SumExists
<1>2. Copies(d, v) = f[DOMAIN d]
  BY CopiesAreSum
<1> HIDE DEF f
<1>3. Counts(f, d, v)
  BY <1>1, CopiesAtType, InAnyOrder
<1> QED BY <1>2, <1>3

\* where two databases have the same they count the same
LEMMA CountsAgree ==
  ASSUME NEW d, NEW e, NEW v, NEW f, NEW g, Counts(f, d, v), Counts(g, e, v),
         NEW R, R \in SUBSET DOMAIN d, R \in SUBSET DOMAIN e, IsFiniteSet(R),
         \A k \in R : CopiesAt(d, v, k) = CopiesAt(e, v, k)
  PROVE  f[R] = g[R]
<1> DEFINE N == {n \in Nat : \A s \in SUBSET R : Cardinality(s) = n => f[s] = g[s]}
<1>1. 0 \in N
  <2>1. ASSUME NEW s \in SUBSET R, Cardinality(s) = 0 PROVE f[s] = g[s]
    <3>1. s = {} /\ s \in SUBSET DOMAIN d /\ s \in SUBSET DOMAIN e
      BY <2>1, SmallerSets
    <3> QED BY <3>1 DEF Counts
  <2> QED BY <2>1
<1>2. ASSUME NEW n \in Nat, n \in N PROVE n + 1 \in N
  <2>1. ASSUME NEW s \in SUBSET R, Cardinality(s) = n + 1 PROVE f[s] = g[s]
    <3>1. s # {}
      BY <2>1, SmallerSets
    <3>2. PICK x \in s : TRUE
      BY <3>1
    <3>3. s \ {x} \in SUBSET R /\ Cardinality(s \ {x}) = n
      BY <2>1, SmallerSets
    <3>4. f[s \ {x}] = g[s \ {x}]
      BY <1>2, <3>3
    <3>5. f[s] = f[s \ {x}] + CopiesAt(d, v, x) /\ g[s] = g[s \ {x}] + CopiesAt(e, v, x)
      BY DEF Counts
    <3> QED BY <3>4, <3>5
  <2> QED BY <2>1
<1>3. Nat \subseteq N
  <2> HIDE DEF N
  <2> QED BY <1>1, <1>2, NumbersByInduction
<1>4. Cardinality(R) \in Nat
  BY FS_CardinalityType
<1> QED BY <1>3, <1>4

\* a list that is put changes the copies by what it has more than the old one
LEMMA CopiesPut ==
  ASSUME NEW d, IsDatabase(d), IsFiniteSet(DOMAIN d), NEW k \in Keys, NEW l \in Seq(Val),
         NEW v, Accepts(d, k, "list")
  PROVE  /\ Copies(d, v) \in Nat /\ Times(l, v) \in Nat /\ Times(ListAt(d, k), v) \in Nat
         /\ Copies(PutList(d, k, l), v) + Times(ListAt(d, k), v) = Copies(d, v) + Times(l, v)
<1> DEFINE e == PutList(d, k, l)
           R == DOMAIN d \ {k}
<1>1. IsDatabase(e) /\ DOMAIN e = DOMAIN d \cup {k}
  BY PutListType DEF PutList, Put
<1>2. /\ \A j \in R : CopiesAt(e, v, j) = CopiesAt(d, v, j)
      /\ CopiesAt(e, v, k) = Times(l, v)
  BY DEF CopiesAt, PutList, Put, Holds
<1>3. /\ k \in DOMAIN d => CopiesAt(d, v, k) = Times(ListAt(d, k), v)
      /\ k \notin DOMAIN d => Times(ListAt(d, k), v) = 0
  <2>1. ASSUME k \notin DOMAIN d PROVE Times(ListAt(d, k), v) = 0
    <3>1. ListAt(d, k) = <<>> /\ {i \in DOMAIN <<>> : <<>>[i] = v} = {}
      BY <2>1 DEF ListAt
    <3> QED BY <3>1, FS_EmptySet DEF Times
  <2> QED BY <2>1 DEF CopiesAt, Holds, Accepts, ListAt
<1>4. Times(l, v) \in Nat /\ Times(ListAt(d, k), v) \in Nat
  BY ListAtType, TimesType
<1> HIDE DEF e
<1>5. IsFiniteSet(DOMAIN e) /\ IsFiniteSet(R)
  BY <1>1, FS_AddElement, FS_RemoveElement
<1>6. PICK f : Counts(f, d, v) /\ f[DOMAIN d] = Copies(d, v)
  BY Counted
<1>7. PICK g : Counts(g, e, v) /\ g[DOMAIN e] = Copies(e, v)
  BY <1>1, <1>5, Counted
<1>8. f[R] = g[R]
  BY <1>1, <1>2, <1>5, <1>6, <1>7, CountsAgree
<1>9. R \in SUBSET DOMAIN d /\ DOMAIN e \ {k} = R /\ (k \notin DOMAIN d => R = DOMAIN d)
  BY <1>1
<1> HIDE DEF R
<1>10. Copies(e, v) = f[R] + Times(l, v)
  <2>1. g[DOMAIN e] = g[DOMAIN e \ {k}] + CopiesAt(e, v, k)
    BY <1>1, <1>7 DEF Counts
  <2> QED BY <1>2, <1>7, <1>8, <1>9, <2>1
<1>11. Copies(d, v) = f[R] + Times(ListAt(d, k), v) /\ f[R] \in Nat
  <2>1. f[R] \in Nat
    BY <1>6, <1>9 DEF Counts
  <2>2. CASE k \in DOMAIN d
    <3>1. f[DOMAIN d] = f[DOMAIN d \ {k}] + CopiesAt(d, v, k)
      BY <1>6, <2>2 DEF Counts
    <3> QED BY <1>3, <1>6, <2>1, <2>2, <3>1 DEF R
  <2>3. CASE k \notin DOMAIN d
    BY <1>3, <1>6, <1>9, <2>1, <2>3
  <2> QED BY <2>1, <2>2, <2>3
<1> QED BY <1>4, <1>10, <1>11 DEF e

\* what is popped at one list and pushed at another is neither lost nor doubled
LEMMA MoveKeeps ==
  ASSUME NEW d, IsDatabase(d), Finite(d), NEW j \in Keys, NEW k \in Keys, HasItem(d, j),
         Accepts(d, k, "list"), NEW v
  PROVE  Copies(MoveItem(d, j, k), v) = Copies(d, v)
<1> DEFINE l == d[j].list
           p == PopBack(d, j)
           x == Last(l)
           m == ListAt(p, k)
           one == IF x = v THEN 1 ELSE 0
<1>1. Holds(d, j, "list") /\ l \in Seq(Val) /\ l # <<>>
  BY ListType DEF HasItem
<1>2. ListAt(d, j) = l /\ Accepts(d, j, "list") /\ p = PutList(d, j, Front(l))
  BY <1>1 DEF ListAt, Holds, Accepts, PopBack
<1>3. IsDatabase(p) /\ Finite(p) /\ Accepts(p, k, "list")
  <2>1. Accepts(p, k, "list")
    BY DEF PopBack, PutList, Put, Accepts
  <2>2. Finite(p)
    BY FiniteValues DEF PopBack
  <2> QED BY <2>1, <2>2, PopType
<1> HIDE DEF l, p
<1>4. Front(l) \in Seq(Val) /\ x \in Val /\ l = Append(Front(l), x)
  BY <1>1, LastAppended
<1>5. MoveItem(d, j, k) = PutList(p, k, <<x>> \o m)
  BY <1>3 DEF MoveItem, PushFront, p, l
<1>6. m \in Seq(Val)
  BY <1>3, ListAtType
<1>7. <<x>> \o m \in Seq(Val)
  BY <1>4, <1>6
<1> HIDE DEF x, m
<1>8. Times(l, v) = Times(Front(l), v) + one
  <2>1. Times(Append(Front(l), x), v) = Times(Front(l), v) + one
    BY <1>4, TimesBack
  <2> QED BY <1>4, <2>1
<1>9. Times(<<x>> \o m, v) = Times(m, v) + one
  BY <1>4, <1>6, TimesFront
<1>10. /\ Copies(d, v) \in Nat /\ Times(Front(l), v) \in Nat
       /\ Copies(p, v) + Times(l, v) = Copies(d, v) + Times(Front(l), v)
  BY <1>2, <1>4, CopiesPut DEF Finite
<1>11. /\ Copies(p, v) \in Nat /\ Times(m, v) \in Nat
       /\ Copies(PutList(p, k, <<x>> \o m), v) + Times(m, v)
            = Copies(p, v) + Times(<<x>> \o m, v)
  <2>1. m = ListAt(p, k)
    BY DEF m
  <2> DEFINE more == <<x>> \o m
  <2> HIDE DEF more
  <2>2. more \in Seq(Val)
    BY <1>7 DEF more
  <2>3. /\ Copies(p, v) \in Nat /\ Times(m, v) \in Nat
        /\ Copies(PutList(p, k, more), v) + Times(m, v) = Copies(p, v) + Times(more, v)
    BY <1>3, <2>1, <2>2, CopiesPut DEF Finite
  <2> QED BY <2>3 DEF more
<1>12. one \in {0, 1}
  OBVIOUS
<1>13. Copies(PutList(p, k, <<x>> \o m), v) \in Nat
  <2>1. IsDatabase(PutList(p, k, <<x>> \o m)) /\ Finite(PutList(p, k, <<x>> \o m))
    BY <1>3, <1>7, PutListType, FiniteValues
  <2>2. Accepts(PutList(p, k, <<x>> \o m), k, "list")
    BY PutShown DEF Holds, Accepts
  <2> QED BY <1>7, <2>1, <2>2, CopiesPut DEF Finite
<1> HIDE DEF one
<1>14. Copies(p, v) + one = Copies(d, v)
  BY <1>8, <1>10, <1>11, <1>12
<1>15. Copies(PutList(p, k, <<x>> \o m), v) = Copies(p, v) + one
  BY <1>9, <1>11, <1>12, <1>13
<1> QED BY <1>5, <1>14, <1>15

(***************************************************************************)
(* RPOPLPUSH between lists, onto itself or onto an absent key, leaves as   *)
(* many copies of every value as there were, whatever else is in the store.*)
(***************************************************************************)
THEOREM NothingLostNorCopied == Spec => MovesKeepItems
<1> DEFINE Moved(c) == c.op = "RPOPLPUSH" /\ Accepts(db, c.dst, "list") /\ Run(c) =>
                         \A v \in Val : Copies(db', v) = Copies(db, v)
<1>1. TypeOK /\ Finite(db) => \A c \in Commands : Moved(c)
  <2> SUFFICES ASSUME TypeOK, Finite(db), NEW c \in Commands, c.op = "RPOPLPUSH",
                      Accepts(db, c.dst, "list"), Run(c), NEW v \in Val
               PROVE  Copies(db', v) = Copies(db, v)
    OBVIOUS
  <2>1. c \in Command /\ IsDatabase(db) /\ c.key \in Keys /\ c.dst \in Keys
    BY CommandsAssumption, CommandFields DEF TypeOK
  <2>2. db' = DoRPopLPush(db, c).db
    BY Dispatch DEF Run
  <2>3. CASE HasItem(db, c.key)
    <3>1. db' = MoveItem(db, c.key, c.dst)
      BY <2>2, <2>3 DEF DoRPopLPush, Change
    <3> QED BY <2>1, <2>3, <3>1, MoveKeeps
  <2>4. CASE ~HasItem(db, c.key)
    <3>1. db' = db
      BY <2>2, <2>4 DEF DoRPopLPush, Answer
    <3> QED BY <3>1
  <2> QED BY <2>3, <2>4
<1>2. TypeOK /\ Finite(db) => [\A c \in Commands : Moved(c)]_vars
  BY <1>1
<1> DEFINE Finitely == Finite(db)
<1>3. Init => Finitely
  BY FiniteInit
<1>4. TypeOK /\ Finitely /\ [Next]_vars => Finitely'
  BY FiniteStep DEF Finite, FiniteParts
<1> QED BY <1>2, <1>3, <1>4, TypeCorrect, PTL DEF MovesKeepItems, Spec
=============================================================================
