--------------------------- MODULE ShardLocksProofs ---------------------------
(***************************************************************************)
(* Proofs about ShardLocks, for any tasks and any number of shards: the    *)
(* types, exclusion, the rising order of writers, and that two locks taken *)
(* one after the other are as good as two taken at once.                   *)
(***************************************************************************)
EXTENDS ShardLocks, WellFoundedInduction, TLAPS

-----------------------------------------------------------------------------
(* Types and phases.                                                       *)

LEMMA InitTypeOK == Init => TypeOK
BY DEF Init, TypeOK, TypesOK, PhasesOK, QueuesOK, Modes

LEMMA Elements1 == ASSUME NEW x PROVE Elements(<<x>>) = {x}
BY DEF Elements

LEMMA Elements2 == ASSUME NEW x, NEW y PROVE Elements(<<x, y>>) = {x, y}
<1>1. DOMAIN <<x, y>> = {1, 2} /\ <<x, y>>[1] = x /\ <<x, y>>[2] = y
  OBVIOUS
<1> QED BY <1>1 DEF Elements

LEMMA ElementsOfTail ==
  ASSUME NEW p \in Seq(Shards), p # <<>>
  PROVE  Elements(p) = {Head(p)} \cup Elements(Tail(p))
<1>1. /\ 1 \in DOMAIN p /\ p[1] = Head(p)
      /\ \A i \in DOMAIN p : i = 1 \/ (i - 1 \in DOMAIN Tail(p) /\ p[i] = Tail(p)[i - 1])
      /\ \A i \in DOMAIN Tail(p) : i + 1 \in DOMAIN p /\ Tail(p)[i] = p[i + 1]
  OBVIOUS
<1>2. \A i \in DOMAIN p : p[i] \in {Head(p)} \cup Elements(Tail(p))
  BY <1>1 DEF Elements
<1>3. \A i \in DOMAIN Tail(p) : Tail(p)[i] \in Elements(p)
  BY <1>1 DEF Elements
<1>4. Head(p) \in Elements(p)
  BY <1>1 DEF Elements
<1>5. Elements(p) \subseteq {Head(p)} \cup Elements(Tail(p))
  BY <1>2 DEF Elements
<1>6. Elements(Tail(p)) \subseteq Elements(p)
  BY <1>3 DEF Elements
<1> QED BY <1>4, <1>5, <1>6

\* both orders name the shards that are needed, and only those
LEMMA OrderType ==
  ASSUME NEW a \in Shards, NEW b \in Shards
  PROVE  /\ ReadOrder(a, b) \in Seq(Shards) /\ ReadOrder(a, b) # <<>>
         /\ LockOrder(a, b) \in Seq(Shards) /\ LockOrder(a, b) # <<>>
         /\ Elements(ReadOrder(a, b)) = {a, b} /\ Elements(LockOrder(a, b)) = {a, b}
<1>1. /\ ReadOrder(a, b) \in Seq(Shards) /\ ReadOrder(a, b) # <<>>
      /\ LockOrder(a, b) \in Seq(Shards) /\ LockOrder(a, b) # <<>>
  BY DEF ReadOrder, LockOrder
<1>2. Elements(ReadOrder(a, b)) = {a, b} /\ Elements(LockOrder(a, b)) = {a, b}
  BY Elements1, Elements2 DEF ReadOrder, LockOrder
<1> QED BY <1>1, <1>2

LEMMA BeginTypeOK ==
  ASSUME TypeOK, NEW t \in Tasks, NEW a \in Shards, NEW b \in Shards, NEW m \in Modes,
         Begin(t, a, b, m)
  PROVE  TypeOK'
<1> USE DEF TypeOK
<1>1. /\ plan'[t] \in Seq(Shards) /\ plan'[t] # <<>>
      /\ phase[t] = "idle" /\ phase'[t] = "ask"
      /\ need'[t] = {a, b} /\ Elements(plan'[t]) = {a, b}
  <2>1. plan'[t] = ReadOrder(a, b) \/ plan'[t] = LockOrder(a, b)
    BY DEF Begin, TypesOK
  <2>2. phase[t] = "idle" /\ phase'[t] = "ask" /\ need'[t] = {a, b}
    BY DEF Begin, TypesOK
  <2> QED BY <2>1, <2>2, OrderType
<1>2. \A u \in Tasks : u # t =>
        phase'[u] = phase[u] /\ plan'[u] = plan[u] /\ need'[u] = need[u]
  BY DEF Begin, TypesOK
<1>3. held' = held /\ queue' = queue
  BY DEF Begin
<1>4. TypesOK'
  <2>1. need' \in [Tasks -> SUBSET Shards] /\ phase' \in [Tasks -> {"idle", "ask", "wait", "work", "drop"}]
        /\ mode' \in [Tasks -> Modes]
    BY DEF Begin, TypesOK
  <2>2. plan' \in [Tasks -> Seq(Shards)]
    BY <1>1 DEF Begin, TypesOK
  <2> QED BY <2>1, <2>2, <1>3 DEF TypesOK
<1>5. PhasesOK'
  BY <1>1, <1>2, <1>3 DEF PhasesOK
<1>6. QueuesOK'
  <2>1. \A s \in Shards : \A i \in DOMAIN queue[s] : queue[s][i] \in Tasks /\ queue[s][i] # t
    BY <1>1 DEF QueuesOK, TypesOK
  <2> QED BY <2>1, <1>2, <1>3 DEF QueuesOK
<1> QED BY <1>4, <1>5, <1>6

LEMMA AskTypeOK ==
  ASSUME TypeOK, NEW t \in Tasks, Ask(t)
  PROVE  TypeOK'
<1> DEFINE s == Head(plan[t])
<1> USE DEF TypeOK
<1>1. s \in Shards /\ queue[s] \in Seq(Tasks)
  BY DEF TypesOK, PhasesOK, Ask
<1>2. /\ phase[t] = "ask" /\ phase'[t] = "wait"
      /\ \A u \in Tasks : u # t => phase'[u] = phase[u]
      /\ mode' = mode /\ need' = need /\ plan' = plan /\ held' = held
  BY DEF TypesOK, Ask
<1>3. /\ queue'[s] = Append(queue[s], t)
      /\ \A r \in Shards : r # s => queue'[r] = queue[r]
  BY <1>1 DEF TypesOK, Ask
<1>4. TypesOK'
  BY <1>1 DEF TypesOK, Ask
<1>5. PhasesOK'
  BY <1>2 DEF PhasesOK
<1>6. \A r \in Shards : \A i \in DOMAIN queue[r] : queue[r][i] \in Tasks /\ queue[r][i] # t
  BY <1>2 DEF QueuesOK, TypesOK
<1> HIDE DEF s
<1>7. /\ DOMAIN queue'[s] = DOMAIN queue[s] \cup {Len(queue[s]) + 1}
      /\ \A j \in DOMAIN queue[s] : queue'[s][j] = queue[s][j]
      /\ queue'[s][Len(queue[s]) + 1] = t
  BY <1>1, <1>3
<1>8. Head(plan[t]) = s
  BY DEF s
<1>9. QueuesOK'
  <2> SUFFICES ASSUME NEW r \in Shards, NEW i \in DOMAIN queue'[r]
               PROVE  /\ phase'[queue'[r][i]] = "wait" /\ Head(plan[queue'[r][i]]) = r
                      /\ \A j \in DOMAIN queue'[r] : queue'[r][j] = queue'[r][i] => j = i
    BY <1>2 DEF QueuesOK
  <2>1. CASE r # s
    BY <2>1, <1>2, <1>3, <1>6 DEF QueuesOK
  <2>2. CASE r = s /\ i \in DOMAIN queue[s]
    BY <2>2, <1>1, <1>2, <1>6, <1>7 DEF QueuesOK
  <2>3. CASE r = s /\ i = Len(queue[s]) + 1
    BY <2>3, <1>1, <1>2, <1>6, <1>7, <1>8 DEF QueuesOK
  <2> QED BY <2>1, <2>2, <2>3, <1>7
<1> QED BY <1>4, <1>5, <1>9

\* the task that is served, and where it stands
LEMMA Served ==
  ASSUME TypeOK, NEW s \in Shards, Grant(s)
  PROVE  /\ Head(queue[s]) \in Tasks
         /\ phase[Head(queue[s])] = "wait"
         /\ plan[Head(queue[s])] \in Seq(Shards) /\ plan[Head(queue[s])] # <<>>
         /\ Head(plan[Head(queue[s])]) = s
<1> USE DEF TypeOK
<1>1. queue[s] \in Seq(Tasks) /\ queue[s] # <<>>
  BY DEF TypesOK, Grant
<1>2. 1 \in DOMAIN queue[s] /\ queue[s][1] = Head(queue[s]) /\ Head(queue[s]) \in Tasks
  BY <1>1
<1>3. phase[Head(queue[s])] = "wait" /\ Head(plan[Head(queue[s])]) = s
  BY <1>2 DEF QueuesOK
<1> QED BY <1>2, <1>3 DEF TypesOK, PhasesOK

LEMMA GrantTypeOK ==
  ASSUME TypeOK, NEW s \in Shards, Grant(s)
  PROVE  TypeOK'
<1> DEFINE t == Head(queue[s])
<1> USE DEF TypeOK
<1>1. /\ t \in Tasks /\ phase[t] = "wait" /\ Head(plan[t]) = s
      /\ plan[t] \in Seq(Shards) /\ plan[t] # <<>>
  BY Served
<1>2. /\ plan' = [plan EXCEPT ![t] = Tail(@)]
      /\ held' = [held EXCEPT ![t] = @ \cup {s}]
      /\ phase' = [phase EXCEPT ![t] = IF Tail(plan[t]) = <<>> THEN "work" ELSE "ask"]
      /\ queue' = [queue EXCEPT ![s] = Tail(@)]
      /\ mode' = mode /\ need' = need
  BY DEF Grant
<1>3. queue[s] \in Seq(Tasks) /\ queue[s] # <<>> /\ Tail(plan[t]) \in Seq(Shards)
  BY <1>1 DEF TypesOK, Grant
<1>4. 1 \in DOMAIN queue[s] /\ queue[s][1] = t
  BY <1>3
<1> HIDE DEF t
<1>5. TypesOK'
  BY <1>1, <1>2, <1>3 DEF TypesOK
<1>6. /\ \A u \in Tasks : u # t => phase'[u] = phase[u] /\ plan'[u] = plan[u] /\ held'[u] = held[u]
      /\ plan'[t] = Tail(plan[t]) /\ held'[t] = held[t] \cup {s}
      /\ phase'[t] = IF Tail(plan[t]) = <<>> THEN "work" ELSE "ask"
      /\ queue'[s] = Tail(queue[s])
      /\ \A r \in Shards : r # s => queue'[r] = queue[r]
  BY <1>1, <1>2 DEF TypesOK
<1>7. PhasesOK'
  <2>1. need[t] = held[t] \cup Elements(plan[t])
    BY <1>1 DEF PhasesOK
  <2>2. need'[t] = held'[t] \cup Elements(plan'[t])
    <3>1. Elements(plan[t]) = {s} \cup Elements(plan'[t])
      BY <1>1, <1>6, ElementsOfTail
    <3>2. need'[t] = need[t] /\ held'[t] = held[t] \cup {s}
      BY <1>2, <1>6
    <3> HIDE DEF PhasesOK
    <3> QED BY <2>1, <3>1, <3>2
  <2>3. ASSUME NEW u \in Tasks, u # t
        PROVE  /\ phase'[u] = "idle" => held'[u] = {}
               /\ phase'[u] \in {"ask", "wait"} <=> plan'[u] # <<>>
               /\ phase'[u] \in {"ask", "wait", "work"} =>
                    need'[u] = held'[u] \cup Elements(plan'[u])
    BY <2>3, <1>2, <1>6 DEF PhasesOK
  <2>4. /\ phase'[t] # "idle"
        /\ phase'[t] \in {"ask", "wait"} <=> plan'[t] # <<>>
    BY <1>6
  <2> QED BY <2>2, <2>3, <2>4 DEF PhasesOK
<1>8. \A r \in Shards : \A i \in DOMAIN queue[r] : queue[r][i] \in Tasks
  BY DEF TypesOK
<1>9. QueuesOK'
  <2> SUFFICES ASSUME NEW r \in Shards, NEW i \in DOMAIN queue'[r]
               PROVE  /\ phase'[queue'[r][i]] = "wait" /\ Head(plan'[queue'[r][i]]) = r
                      /\ \A j \in DOMAIN queue'[r] : queue'[r][j] = queue'[r][i] => j = i
    BY DEF QueuesOK
  <2>1. CASE r # s
    <3>1. /\ queue'[r] = queue[r] /\ queue[r][i] \in Tasks
          /\ phase[queue[r][i]] = "wait" /\ Head(plan[queue[r][i]]) = r
      BY <2>1, <1>6, <1>8 DEF QueuesOK
    <3>2. queue[r][i] # t
      BY <3>1, <2>1, <1>1
    <3> QED BY <3>1, <3>2, <1>6 DEF QueuesOK
  <2>2. CASE r = s
    <3>1. \A j \in DOMAIN queue'[s] : /\ j + 1 \in DOMAIN queue[s] /\ j \in Nat \ {0}
                                      /\ queue'[s][j] = queue[s][j + 1]
      BY <1>3, <1>6
    <3>2. i + 1 \in DOMAIN queue[s] /\ queue'[s][i] = queue[s][i + 1] /\ i \in Nat \ {0}
      BY <3>1, <2>2
    <3>3. /\ phase[queue[s][i + 1]] = "wait" /\ Head(plan[queue[s][i + 1]]) = s
          /\ \A j \in DOMAIN queue[s] : queue[s][j] = queue[s][i + 1] => j = i + 1
      BY <3>2 DEF QueuesOK
    <3>4. queue[s][i + 1] # t
      BY <1>4, <3>2, <3>3
    <3>5. \A j \in DOMAIN queue'[s] : queue'[s][j] = queue'[s][i] => j = i
      BY <3>1, <3>2, <3>3
    <3>6. queue[s][i + 1] \in Tasks
      BY <3>2, <1>8
    <3> QED BY <2>2, <3>2, <3>3, <3>4, <3>5, <3>6, <1>6
  <2> QED BY <2>1, <2>2
<1> QED BY <1>5, <1>7, <1>9

LEMMA FinishTypeOK ==
  ASSUME TypeOK, NEW t \in Tasks, Finish(t)
  PROVE  TypeOK'
<1> USE DEF TypeOK
<1>1. TypesOK' /\ PhasesOK'
  BY DEF TypesOK, PhasesOK, Finish
<1>2. QueuesOK'
  BY DEF TypesOK, QueuesOK, Finish
<1> QED BY <1>1, <1>2

LEMMA DropTypeOK ==
  ASSUME TypeOK, NEW t \in Tasks, NEW s \in Shards, Drop(t, s)
  PROVE  TypeOK'
<1> USE DEF TypeOK
<1>1. TypesOK'
  BY DEF TypesOK, Drop
<1>2. PhasesOK'
  <2>1. /\ phase[t] = "drop" /\ phase'[t] \in {"idle", "drop"}
        /\ phase'[t] = "idle" => held'[t] = {}
        /\ \A u \in Tasks : u # t => phase'[u] = phase[u] /\ held'[u] = held[u]
        /\ plan' = plan /\ need' = need
    BY DEF TypesOK, Drop
  <2>2. ASSUME NEW u \in Tasks, u # t
        PROVE  /\ phase'[u] = "idle" => held'[u] = {}
               /\ phase'[u] \in {"ask", "wait"} <=> plan'[u] # <<>>
               /\ phase'[u] \in {"ask", "wait", "work"} =>
                    need'[u] = held'[u] \cup Elements(plan'[u])
    BY <2>1, <2>2 DEF PhasesOK
  <2>3. /\ phase'[t] = "idle" => held'[t] = {}
        /\ phase'[t] \in {"ask", "wait"} <=> plan'[t] # <<>>
        /\ phase'[t] \notin {"ask", "wait", "work"}
    BY <2>1 DEF PhasesOK
  <2> QED BY <2>2, <2>3 DEF PhasesOK
<1>3. QueuesOK'
  <2>1. /\ phase[t] = "drop" /\ \A u \in Tasks : u # t => phase'[u] = phase[u]
        /\ plan' = plan /\ queue' = queue
    BY DEF TypesOK, Drop
  <2>2. \A r \in Shards : \A i \in DOMAIN queue[r] : queue[r][i] \in Tasks /\ queue[r][i] # t
    BY <2>1 DEF QueuesOK, TypesOK
  <2> QED BY <2>1, <2>2 DEF QueuesOK
<1> QED BY <1>1, <1>2, <1>3

LEMMA NextTypeOK ==
  ASSUME TypeOK, [Next]_vars
  PROVE  TypeOK'
<1>1. ASSUME NEW t \in Tasks, TaskStep(t) PROVE TypeOK'
  BY <1>1, BeginTypeOK, AskTypeOK, FinishTypeOK, DropTypeOK DEF TaskStep
<1>2. ASSUME NEW s \in Shards, Grant(s) PROVE TypeOK'
  BY <1>2, GrantTypeOK
<1>3. CASE UNCHANGED vars
  BY <1>3 DEF vars, TypeOK, TypesOK, PhasesOK, QueuesOK
<1> QED BY <1>1, <1>2, <1>3 DEF Next

(***************************************************************************)
(* The types, and how phases, plans and queues agree, whatever the tasks   *)
(* do (engine.rs 110-162).                                                 *)
(***************************************************************************)
THEOREM TypeCorrect == Spec => []TypeOK
<1> QED BY InitTypeOK, NextTypeOK, PTL DEF Spec

-----------------------------------------------------------------------------
(* Exclusion.  Mutex is inductive beside the types: a lock is granted only *)
(* to a task its holders are compatible with, and the mode of a task       *)
(* changes only while it holds nothing.                                    *)

Mutex ==
  \A t, u \in Tasks : t # u /\ held[t] \cap held[u] # {} =>
    mode[t] = "read" /\ mode[u] = "read"

LEMMA MutexKept ==
  ASSUME TypeOK, Mutex, [Next]_vars
  PROVE  Mutex'
<1> USE DEF TypeOK, TypesOK
<1>1. ASSUME NEW t \in Tasks, NEW a \in Shards, NEW b \in Shards, NEW m \in Modes,
             Begin(t, a, b, m)
      PROVE  Mutex'
  BY <1>1 DEF Mutex, Begin, PhasesOK
<1>2. ASSUME NEW s \in Shards, Grant(s)
      PROVE  Mutex'
  <2> DEFINE t == Head(queue[s])
  <2>1. t \in Tasks
    BY <1>2, Served
  <2>2. /\ mode' = mode /\ held'[t] = held[t] \cup {s}
        /\ \A u \in Tasks : u # t => held'[u] = held[u]
        /\ \A u \in Tasks : s \in held[u] => mode[t] = "read" /\ mode[u] = "read"
    BY <1>2, <2>1 DEF Grant, Compatible
  <2> HIDE DEF t
  <2> SUFFICES ASSUME NEW u \in Tasks, NEW v \in Tasks, u # v,
                      NEW r, r \in held'[u], r \in held'[v]
               PROVE  mode[u] = "read" /\ mode[v] = "read"
    BY <2>2 DEF Mutex
  <2>3. CASE r = s /\ u = t
    BY <2>2, <2>3
  <2>4. CASE r = s /\ v = t
    BY <2>2, <2>4
  <2>5. CASE ~(r = s /\ (u = t \/ v = t))
    <3>1. r \in held[u] /\ r \in held[v]
      BY <2>2, <2>5
    <3> QED BY <3>1 DEF Mutex
  <2> QED BY <2>3, <2>4, <2>5
<1>3. ASSUME NEW t \in Tasks, NEW s \in Shards, Drop(t, s)
      PROVE  Mutex'
  BY <1>3 DEF Mutex, Drop
<1>4. ASSUME NEW t \in Tasks, Ask(t) \/ Finish(t)
      PROVE  Mutex'
  BY <1>4 DEF Mutex, Ask, Finish
<1>5. CASE UNCHANGED vars
  BY <1>5 DEF Mutex, vars
<1> QED BY <1>1, <1>2, <1>3, <1>4, <1>5 DEF Next, TaskStep

(***************************************************************************)
(* Of two tasks that hold the same shard neither writes: read and write    *)
(* guards exclude each other as the handlers rely on (engine.rs 110-162).  *)
(***************************************************************************)
THEOREM Exclusion == Spec => []Mutex
<1>1. Init => Mutex
  BY DEF Init, Mutex
<1> QED BY <1>1, MutexKept, TypeCorrect, PTL DEF Spec

-----------------------------------------------------------------------------
(* The order of writers.  That a writer holds less than it wants says      *)
(* nothing of what it will want next; the plan has to rise as well.        *)

RisingPlans ==
  \A t \in Tasks : mode[t] = "write" =>
    \A i, j \in DOMAIN plan[t] : i < j => plan[t][i] < plan[t][j]

OrderInv == RisingPlans /\ OrderedWriters

LEMMA LockOrderRises ==
  ASSUME NEW a \in Shards, NEW b \in Shards
  PROVE  \A i, j \in DOMAIN LockOrder(a, b) : i < j => LockOrder(a, b)[i] < LockOrder(a, b)[j]
BY DEF LockOrder, Shards

LEMMA OrderKept ==
  ASSUME ShardLocksAssumption, TypeOK, OrderInv, [Next]_vars
  PROVE  OrderInv'
<1> USE DEF TypeOK, TypesOK
<1>1. ASSUME NEW t \in Tasks, NEW a \in Shards, NEW b \in Shards, NEW m \in Modes,
             Begin(t, a, b, m)
      PROVE  OrderInv'
  <2>1. /\ held' = held /\ held[t] = {} /\ mode'[t] = m
        /\ m = "write" => plan'[t] = LockOrder(a, b)
        /\ \A u \in Tasks : u # t => mode'[u] = mode[u] /\ plan'[u] = plan[u]
    BY <1>1 DEF Begin, PhasesOK
  <2>2. RisingPlans'
    BY <2>1, LockOrderRises DEF OrderInv, RisingPlans
  <2>3. OrderedWriters'
    BY <2>1 DEF OrderInv, OrderedWriters
  <2> QED BY <2>2, <2>3 DEF OrderInv
<1>2. ASSUME NEW s \in Shards, Grant(s)
      PROVE  OrderInv'
  <2> DEFINE t == Head(queue[s])
  <2>1. t \in Tasks /\ plan[t] \in Seq(Shards) /\ plan[t] # <<>> /\ Head(plan[t]) = s
    BY <1>2, Served
  <2>2. /\ mode' = mode /\ held'[t] = held[t] \cup {s} /\ plan'[t] = Tail(plan[t])
        /\ \A u \in Tasks : u # t => held'[u] = held[u] /\ plan'[u] = plan[u]
    BY <1>2, <2>1 DEF Grant
  <2> HIDE DEF t
  <2>3. /\ 1 \in DOMAIN plan[t] /\ plan[t][1] = s
        /\ \A i \in DOMAIN plan'[t] : /\ i \in Nat \ {0} /\ i + 1 \in DOMAIN plan[t]
                                      /\ plan'[t][i] = plan[t][i + 1]
    BY <2>1, <2>2
  <2>4. RisingPlans'
    <3> SUFFICES ASSUME NEW u \in Tasks, mode[u] = "write",
                        NEW i \in DOMAIN plan'[u], NEW j \in DOMAIN plan'[u], i < j
                 PROVE  plan'[u][i] < plan'[u][j]
      BY <2>2 DEF RisingPlans
    <3>1. CASE u # t
      BY <3>1, <2>2 DEF OrderInv, RisingPlans
    <3>2. CASE u = t
      <4>1. /\ i + 1 \in DOMAIN plan[t] /\ j + 1 \in DOMAIN plan[t] /\ i + 1 < j + 1
            /\ plan'[t][i] = plan[t][i + 1] /\ plan'[t][j] = plan[t][j + 1]
        BY <3>2, <2>3
      <4> QED BY <4>1, <3>2 DEF OrderInv, RisingPlans
    <3> QED BY <3>1, <3>2
  <2>5. OrderedWriters'
    <3> SUFFICES ASSUME NEW u \in Tasks, mode[u] = "write", NEW i \in DOMAIN plan'[u],
                        NEW r \in held'[u]
                 PROVE  r < plan'[u][i]
      BY <2>2 DEF OrderedWriters
    <3>1. CASE u # t
      BY <3>1, <2>2 DEF OrderInv, OrderedWriters
    <3>2. CASE u = t /\ r = s
      BY <3>2, <2>3 DEF OrderInv, RisingPlans
    <3>3. CASE u = t /\ r # s
      BY <3>3, <2>2, <2>3 DEF OrderInv, OrderedWriters
    <3> QED BY <3>1, <3>2, <3>3
  <2> QED BY <2>4, <2>5 DEF OrderInv
<1>3. ASSUME NEW t \in Tasks, NEW s \in Shards, Drop(t, s)
      PROVE  OrderInv'
  BY <1>3 DEF OrderInv, RisingPlans, OrderedWriters, Drop
<1>4. ASSUME NEW t \in Tasks, Ask(t) \/ Finish(t)
      PROVE  OrderInv'
  BY <1>4 DEF OrderInv, RisingPlans, OrderedWriters, Ask, Finish
<1>5. CASE UNCHANGED vars
  BY <1>5 DEF OrderInv, RisingPlans, OrderedWriters, vars
<1> QED BY <1>1, <1>2, <1>3, <1>4, <1>5 DEF Next, TaskStep

(***************************************************************************)
(* A writer never waits for a shard with a higher one in hand, which is    *)
(* what README.md:238 calls a strict lock ordering.                        *)
(***************************************************************************)
THEOREM WritersRise == Spec => []OrderedWriters
<1>1. Init => OrderInv
  BY DEF Init, OrderInv, RisingPlans, OrderedWriters
<1>2. OrderInv => OrderedWriters
  BY DEF OrderInv
<1> QED BY <1>1, <1>2, OrderKept, TypeCorrect, ShardLocksAssumption, PTL DEF Spec

-----------------------------------------------------------------------------
(* Two locks in turn are as good as two at once: the last grant is Enter,  *)
(* the end of the handler's body is Leave, and no other step shows.        *)

working ==
  [t \in Tasks |-> IF phase[t] = "work" THEN [on |-> need[t], mode |-> mode[t]]
                   ELSE [on |-> {}, mode |-> "none"]]

LEMMA Enters ==
  ASSUME NEW t \in Tasks, NEW S \in SUBSET Shards, NEW m \in {"read", "write"},
         working[t] = Atomic!Nothing,
         \A u \in Tasks : ~Atomic!Conflict([on |-> S, mode |-> m], working[u]),
         working' = [working EXCEPT ![t] = [on |-> S, mode |-> m]]
  PROVE  Atomic!Enter(t)
BY DEF Atomic!Enter, working

LEMMA GrantEnters ==
  ASSUME TypeOK, Mutex, TypeOK', Mutex', NEW s \in Shards, Grant(s)
  PROVE  Atomic!Next \/ working' = working
<1> USE DEF TypeOK, TypesOK
<1>1. PICK t \in Tasks : t = Head(queue[s]) /\ phase[t] = "wait"
  BY Served
<1>2. /\ mode' = mode /\ need' = need /\ need[t] \in SUBSET Shards
      /\ phase'[t] \in {"work", "ask"}
      /\ \A u \in Tasks : u # t => held'[u] = held[u] /\ phase'[u] = phase[u]
  BY <1>1 DEF Grant
<1>3. /\ working[t] = [on |-> {}, mode |-> "none"]
      /\ \A u \in Tasks : u # t => working'[u] = working[u]
  BY <1>1, <1>2 DEF working
<1>4. CASE phase'[t] = "ask"
  BY <1>1, <1>3, <1>4 DEF working
<1>5. CASE phase'[t] = "work"
  <2>0. \A u \in Tasks : phase'[u] = "work" => need[u] = held'[u]
    <3>1. \A u \in Tasks : phase'[u] = "work" =>
            plan'[u] = <<>> /\ need'[u] = held'[u] \cup Elements(plan'[u])
      BY DEF PhasesOK
    <3>2. Elements(<<>>) = {}
      BY DEF Elements
    <3> QED BY <3>1, <3>2, <1>2
  <2>1. working' = [working EXCEPT ![t] = [on |-> need[t], mode |-> mode[t]]]
    BY <1>1, <1>2, <1>3, <1>5 DEF working
  <2>2. mode[t] \in {"read", "write"} /\ working[t] = Atomic!Nothing
    BY <1>1, <1>3 DEF Modes, Atomic!Nothing
  <2>3. ASSUME NEW u \in Tasks
        PROVE  ~Atomic!Conflict([on |-> need[t], mode |-> mode[t]], working[u])
    <3>1. CASE phase[u] # "work"
      BY <3>1 DEF working, Atomic!Conflict
    <3>2. CASE phase[u] = "work"
      <4>1. u # t /\ phase'[u] = "work" /\ working[u] = [on |-> need[u], mode |-> mode[u]]
        BY <3>2, <1>1, <1>2 DEF working
      <4>2. need[t] = held'[t] /\ need[u] = held'[u]
        BY <4>1, <1>5, <2>0
      <4>3. need[t] \cap need[u] # {} => mode'[t] = "read" /\ mode'[u] = "read"
        BY <4>1, <4>2, <1>1 DEF Mutex
      <4> QED BY <4>1, <4>3, <1>2 DEF Atomic!Conflict
    <3> QED BY <3>1, <3>2
  <2>4. Atomic!Enter(t)
    BY <1>1, <1>2, <2>1, <2>2, <2>3, Enters
  <2> QED BY <1>1, <2>4 DEF Atomic!Next
<1> QED BY <1>2, <1>4, <1>5

LEMMA FinishLeaves ==
  ASSUME TypeOK, NEW t \in Tasks, Finish(t)
  PROVE  Atomic!Next
<1>1. working' = [working EXCEPT ![t] = [on |-> {}, mode |-> "none"]]
  BY DEF TypeOK, TypesOK, Finish, working
<1> QED BY <1>1 DEF Atomic!Next, Atomic!Leave, Atomic!Nothing, working

LEMMA OthersStutter ==
  ASSUME TypeOK, NEW t \in Tasks,
         \/ \E a, b \in Shards, m \in Modes : Begin(t, a, b, m)
         \/ Ask(t) \/ \E s \in Shards : Drop(t, s)
  PROVE  working' = working
BY DEF TypeOK, TypesOK, Begin, Ask, Drop, working

LEMMA StepRefines ==
  ASSUME TypeOK, Mutex, TypeOK', Mutex', [Next]_vars
  PROVE  Atomic!Next \/ working' = working
<1>1. ASSUME NEW t \in Tasks, TaskStep(t)
      PROVE  Atomic!Next \/ working' = working
  BY <1>1, FinishLeaves, OthersStutter DEF TaskStep
<1>2. CASE UNCHANGED vars
  BY <1>2 DEF vars, working
<1> QED BY <1>1, <1>2, GrantEnters DEF Next

(***************************************************************************)
(* The locking of engine.rs implements AtomicGuards: whatever a handler    *)
(* does between its last lock and its first unlock, nobody works on one of *)
(* its shards meanwhile in a way that would disturb it.                    *)
(***************************************************************************)
THEOREM LocksAreAtomic == Spec => ImplementsAtomicGuards
<1>1. Init => Atomic!Init
  BY DEF Init, Atomic!Init, Atomic!Nothing
<1>2. TypeOK /\ Mutex /\ TypeOK' /\ Mutex' /\ [Next]_vars => [Atomic!Next]_working
  BY StepRefines
<1> QED BY <1>1, <1>2, TypeCorrect, Exclusion, PTL
    DEF Spec, ImplementsAtomicGuards, Atomic!Spec, working


-----------------------------------------------------------------------------
(* No circle.  When the reads of two shards rise as the writes do, every   *)
(* plan rises, and a task waits for a shard above all that it holds.  Of   *)
(* some tasks that all wait, one waits for the highest shard any of them   *)
(* waits for, and is the first of them in its queue: nobody among them     *)
(* holds that shard, and nobody among them stands before it.               *)

RisingReads == \A p \in Reads : p[1] < p[2]

AllRise ==
  \A t \in Tasks :
    /\ \A i, j \in DOMAIN plan[t] : i < j => plan[t][i] < plan[t][j]
    /\ \A i \in DOMAIN plan[t] : \A s \in held[t] : s < plan[t][i]

\* who waits stands in the queue
WaitersQueue ==
  \A t \in Tasks : phase[t] = "wait" =>
    \E i \in DOMAIN queue[Head(plan[t])] : queue[Head(plan[t])][i] = t

LEMMA ReadOrderRises ==
  ASSUME RisingReads, NEW a \in Shards, NEW b \in Shards, a # b => <<a, b>> \in Reads
  PROVE  \A i, j \in DOMAIN ReadOrder(a, b) : i < j => ReadOrder(a, b)[i] < ReadOrder(a, b)[j]
<1>1. CASE a = b
  BY <1>1 DEF ReadOrder
<1>2. CASE a # b
  <2>1. a < b
    BY <1>2 DEF RisingReads
  <2> QED BY <1>2, <2>1 DEF ReadOrder
<1> QED BY <1>1, <1>2

LEMMA RiseKept ==
  ASSUME ShardLocksAssumption, RisingReads, TypeOK, AllRise, [Next]_vars
  PROVE  AllRise'
<1> USE DEF TypeOK, TypesOK
<1>1. ASSUME NEW t \in Tasks, NEW a \in Shards, NEW b \in Shards, NEW m \in Modes,
             Begin(t, a, b, m)
      PROVE  AllRise'
  <2>1. /\ held' = held /\ held[t] = {}
        /\ plan'[t] = IF m = "read" THEN ReadOrder(a, b) ELSE LockOrder(a, b)
        /\ m = "read" /\ a # b => <<a, b>> \in Reads
        /\ \A u \in Tasks : u # t => plan'[u] = plan[u]
    BY <1>1 DEF Begin, PhasesOK
  <2>2. \A i, j \in DOMAIN plan'[t] : i < j => plan'[t][i] < plan'[t][j]
    <3>1. CASE m = "read"
      BY <2>1, <3>1, ReadOrderRises
    <3>2. CASE m # "read"
      BY <2>1, <3>2, LockOrderRises
    <3> QED BY <3>1, <3>2
  <2> QED BY <2>1, <2>2 DEF AllRise
<1>2. ASSUME NEW s \in Shards, Grant(s)
      PROVE  AllRise'
  <2> DEFINE t == Head(queue[s])
  <2>1. t \in Tasks /\ plan[t] \in Seq(Shards) /\ plan[t] # <<>> /\ Head(plan[t]) = s
    BY <1>2, Served
  <2>2. /\ held'[t] = held[t] \cup {s} /\ plan'[t] = Tail(plan[t])
        /\ \A u \in Tasks : u # t => held'[u] = held[u] /\ plan'[u] = plan[u]
    BY <1>2, <2>1 DEF Grant
  <2> HIDE DEF t
  <2>3. /\ 1 \in DOMAIN plan[t] /\ plan[t][1] = s
        /\ \A i \in DOMAIN plan'[t] : /\ i \in Nat \ {0} /\ i + 1 \in DOMAIN plan[t]
                                      /\ plan'[t][i] = plan[t][i + 1]
    BY <2>1, <2>2
  <2>4. \A i, j \in DOMAIN plan'[t] : i < j => plan'[t][i] < plan'[t][j]
    <3> SUFFICES ASSUME NEW i \in DOMAIN plan'[t], NEW j \in DOMAIN plan'[t], i < j
                 PROVE  plan'[t][i] < plan'[t][j]
      OBVIOUS
    <3>1. /\ i + 1 \in DOMAIN plan[t] /\ j + 1 \in DOMAIN plan[t] /\ i + 1 < j + 1
          /\ plan'[t][i] = plan[t][i + 1] /\ plan'[t][j] = plan[t][j + 1]
      BY <2>3
    <3> QED BY <2>1, <3>1 DEF AllRise
  <2>5. \A i \in DOMAIN plan'[t] : \A r \in held'[t] : r < plan'[t][i]
    <3> SUFFICES ASSUME NEW i \in DOMAIN plan'[t], NEW r \in held'[t]
                 PROVE  r < plan'[t][i]
      OBVIOUS
    <3>1. i + 1 \in DOMAIN plan[t] /\ plan'[t][i] = plan[t][i + 1] /\ 1 < i + 1
      BY <2>3
    <3>2. CASE r = s
      BY <2>1, <2>3, <3>1, <3>2 DEF AllRise
    <3>3. CASE r \in held[t]
      BY <2>1, <3>1, <3>3 DEF AllRise
    <3> QED BY <2>2, <3>2, <3>3
  <2> QED BY <2>2, <2>4, <2>5 DEF AllRise
<1>3. ASSUME NEW t \in Tasks, NEW s \in Shards, Drop(t, s)
      PROVE  AllRise'
  BY <1>3 DEF AllRise, Drop
<1>4. ASSUME NEW t \in Tasks, Ask(t) \/ Finish(t)
      PROVE  AllRise'
  BY <1>4 DEF AllRise, Ask, Finish
<1>5. CASE UNCHANGED vars
  BY <1>5 DEF AllRise, vars
<1> QED BY <1>1, <1>2, <1>3, <1>4, <1>5 DEF Next, TaskStep

LEMMA WaitersKept ==
  ASSUME TypeOK, WaitersQueue, [Next]_vars
  PROVE  WaitersQueue'
<1> USE DEF TypeOK, TypesOK
<1>0. \A u \in Tasks : phase[u] = "wait" => plan[u] # <<>> /\ Head(plan[u]) \in Shards
  BY DEF PhasesOK
<1>1. ASSUME NEW t \in Tasks,
             \/ \E a, b \in Shards, m \in Modes : Begin(t, a, b, m)
             \/ Finish(t) \/ \E s \in Shards : Drop(t, s)
      PROVE  WaitersQueue'
  <2>1. /\ queue' = queue /\ phase'[t] # "wait"
        /\ \A u \in Tasks : u # t => phase'[u] = phase[u] /\ plan'[u] = plan[u]
    BY <1>1 DEF Begin, Finish, Drop
  <2> QED BY <2>1 DEF WaitersQueue
<1>2. ASSUME NEW t \in Tasks, Ask(t)
      PROVE  WaitersQueue'
  <2> DEFINE s == Head(plan[t])
  <2>1. s \in Shards /\ queue[s] \in Seq(Tasks)
    BY <1>2 DEF Ask, PhasesOK
  <2>2. /\ plan' = plan /\ \A u \in Tasks : u # t => phase'[u] = phase[u]
        /\ queue'[s] = Append(queue[s], t)
        /\ \A r \in Shards : r # s => queue'[r] = queue[r]
    BY <1>2, <2>1 DEF Ask
  <2> HIDE DEF s
  <2>3. /\ Len(queue[s]) + 1 \in DOMAIN queue'[s] /\ queue'[s][Len(queue[s]) + 1] = t
        /\ \A i \in DOMAIN queue[s] : i \in DOMAIN queue'[s] /\ queue'[s][i] = queue[s][i]
    BY <2>1, <2>2
  <2> SUFFICES ASSUME NEW u \in Tasks, phase'[u] = "wait"
               PROVE  \E i \in DOMAIN queue'[Head(plan[u])] : queue'[Head(plan[u])][i] = u
    BY <2>2 DEF WaitersQueue
  <2>4. CASE u = t
    BY <2>3, <2>4 DEF s
  <2>5. CASE u # t
    <3>1. phase[u] = "wait" /\ Head(plan[u]) \in Shards
      BY <1>0, <2>2, <2>5
    <3>2. PICK i \in DOMAIN queue[Head(plan[u])] : queue[Head(plan[u])][i] = u
      BY <3>1 DEF WaitersQueue
    <3>3. CASE Head(plan[u]) = s
      BY <2>3, <3>2, <3>3
    <3>4. CASE Head(plan[u]) # s
      BY <2>2, <3>1, <3>2, <3>4
    <3> QED BY <3>3, <3>4
  <2> QED BY <2>4, <2>5
<1>3. ASSUME NEW s \in Shards, Grant(s)
      PROVE  WaitersQueue'
  <2> DEFINE t == Head(queue[s])
  <2>1. t \in Tasks
    BY <1>3, Served
  <2>2. /\ phase'[t] # "wait" /\ queue'[s] = Tail(queue[s]) /\ queue[s] # <<>>
        /\ \A u \in Tasks : u # t => phase'[u] = phase[u] /\ plan'[u] = plan[u]
        /\ \A r \in Shards : r # s => queue'[r] = queue[r]
    BY <1>3, <2>1 DEF Grant
  <2>3. /\ queue[s][1] = t
        /\ \A i \in DOMAIN queue[s] : i # 1 => /\ i - 1 \in DOMAIN queue'[s]
                                               /\ queue'[s][i - 1] = queue[s][i]
    BY <2>2
  <2> HIDE DEF t
  <2> SUFFICES ASSUME NEW u \in Tasks, phase'[u] = "wait"
               PROVE  \E i \in DOMAIN queue'[Head(plan'[u])] : queue'[Head(plan'[u])][i] = u
    BY DEF WaitersQueue
  <2>4. u # t /\ phase[u] = "wait" /\ plan'[u] = plan[u] /\ Head(plan[u]) \in Shards
    BY <1>0, <2>2
  <2>5. PICK i \in DOMAIN queue[Head(plan[u])] : queue[Head(plan[u])][i] = u
    BY <2>4 DEF WaitersQueue
  <2>6. CASE Head(plan[u]) = s
    <3>1. i # 1
      BY <2>3, <2>4, <2>5, <2>6
    <3>2. i \in DOMAIN queue[s] /\ queue[s][i] = u
      BY <2>5, <2>6
    <3>3. i - 1 \in DOMAIN queue'[s] /\ queue'[s][i - 1] = u
      BY <2>3, <3>1, <3>2
    <3> QED BY <2>4, <2>6, <3>3
  <2>7. CASE Head(plan[u]) # s
    BY <2>2, <2>4, <2>5, <2>7
  <2> QED BY <2>6, <2>7
<1>4. CASE UNCHANGED vars
  BY <1>4 DEF WaitersQueue, vars
<1> QED BY <1>1, <1>2, <1>3, <1>4 DEF Next, TaskStep

LEMMA LeastOf ==
  ASSUME NEW S \in SUBSET Nat, S # {}
  PROVE  \E n \in S : \A m \in S : n <= m
<1> DEFINE R == OpToRel(<, Nat)
<1>1. PICK n \in S : \A m \in S : <<m, n>> \notin R
  BY NatLessThanWellFounded, WFMin
<1>2. \A m \in S : ~(m < n)
  BY <1>1 DEF OpToRel
<1> QED BY <1>2

\* where t stands in the queue of the shard it waits for
Place(t) == CHOOSE i \in DOMAIN queue[Head(plan[t])] : queue[Head(plan[t])][i] = t

\* Waiters that all wait for a higher place than what they are waited for has,
\* in any order of the shards, do not wait in a circle.
LEMMA SomeoneGoesOn ==
  ASSUME TypeOK, WaitersQueue, NEW T \in SUBSET Tasks, T # {},
         NEW n \in Nat, NEW rank \in [Shards -> 0 .. n],
         \A t \in T : phase[t] = "wait",
         \A t, u \in T :
           Head(plan[t]) \in held[u] /\ ~(mode[t] = "read" /\ mode[u] = "read") =>
             rank[Head(plan[t])] < rank[Head(plan[u])]
  PROVE  \E t \in T : \A u \in T : ~WaitsFor(t, u)
<1> USE DEF TypeOK, TypesOK
<1> DEFINE next(t) == Head(plan[t])
           high(t) == rank[next(t)]
<1>1. ASSUME NEW t \in T
      PROVE  /\ next(t) \in Shards /\ high(t) \in 0 .. n
             /\ Place(t) \in Nat
  <2>1. plan[t] \in Seq(Shards) /\ plan[t] # <<>> /\ t \in Tasks
    BY DEF PhasesOK
  <2>2. next(t) \in Shards
    BY <2>1
  <2>3. \E i \in DOMAIN queue[next(t)] : queue[next(t)][i] = t
    BY <2>1 DEF WaitersQueue
  <2>4. Place(t) \in DOMAIN queue[next(t)]
    BY <2>3 DEF Place
  <2>5. DOMAIN queue[next(t)] \subseteq Nat
    BY <2>2
  <2> QED BY <2>2, <2>4, <2>5
<1>2. ASSUME NEW t \in T, NEW u \in T,
             next(t) \in held[u], ~(mode[t] = "read" /\ mode[u] = "read")
      PROVE  high(t) < high(u)
  BY <1>2
<1> HIDE DEF high
<1>3. PICK first \in T : \A t \in T : high(t) <= high(first)
  <2> DEFINE below == {n - high(t) : t \in T}
  <2>1. below \in SUBSET Nat /\ below # {}
    BY <1>1
  <2>2. PICK m \in below : \A k \in below : m <= k
    BY <2>1, LeastOf
  <2>3. PICK t \in T : m = n - high(t)
    BY <2>2
  <2>4. ASSUME NEW u \in T PROVE high(u) <= high(t)
    <3>1. n - high(t) <= n - high(u)
      BY <2>2, <2>3
    <3> QED BY <1>1, <3>1
  <2> QED BY <2>4
<1> DEFINE there == {t \in T : next(t) = next(first)}
<1> HIDE DEF next
<1>4. PICK t \in there : \A u \in there : Place(t) <= Place(u)
  <2> DEFINE places == {Place(t) : t \in there}
  <2>1. places \in SUBSET Nat /\ places # {}
    BY <1>1
  <2>2. PICK m \in places : \A k \in places : m <= k
    BY <2>1, LeastOf
  <2> QED BY <2>2
<1>5. ASSUME NEW u \in T, WaitsFor(t, u) PROVE FALSE
  <2>1. t \in T /\ next(t) = next(first) /\ high(t) = high(first)
    BY <1>4 DEF high
  <2>2. CASE next(t) \in held[u] /\ ~(mode[t] = "read" /\ mode[u] = "read")
    <3>1. high(t) < high(u) /\ high(u) <= high(first)
      BY <1>2, <1>3, <2>1, <2>2
    <3> QED BY <1>1, <2>1, <3>1
  <2>3. CASE ~(next(t) \in held[u] /\ ~(mode[t] = "read" /\ mode[u] = "read"))
    <3>1. Head(plan[u]) = Head(plan[t]) /\ Place(u) < Place(t)
      BY <1>5, <2>3 DEF WaitsFor, Place, next
    <3>2. u \in there
      BY <2>1, <3>1 DEF next
    <3>3. Place(t) <= Place(u)
      BY <1>4, <3>2
    <3> QED BY <1>1, <2>1, <3>1, <3>3
  <2> QED BY <2>2, <2>3
<1> QED BY <1>4, <1>5

LEMMA NobodyInACircle ==
  ASSUME ShardLocksAssumption, TypeOK, AllRise, WaitersQueue
  PROVE  NoCircle
<1> SUFFICES ASSUME NEW T \in SUBSET Tasks, T # {}
             PROVE  \E t \in T : \A u \in T : ~WaitsFor(t, u)
  BY Zenon DEF NoCircle
<1> USE DEF TypeOK, TypesOK
<1>1. CASE \E t \in T : phase[t] # "wait"
  BY <1>1 DEF WaitsFor
<1>2. CASE \A t \in T : phase[t] = "wait"
  <2> DEFINE rank == [s \in Shards |-> s]
  <2>1. NumShards \in Nat /\ rank \in [Shards -> 0 .. NumShards]
    BY ShardLocksAssumption DEF Shards
  <2>2. ASSUME NEW t \in T, NEW u \in T, Head(plan[t]) \in held[u]
        PROVE  rank[Head(plan[t])] < rank[Head(plan[u])]
    <3>1. /\ plan[u] \in Seq(Shards) /\ plan[u] # <<>>
          /\ plan[t] \in Seq(Shards) /\ plan[t] # <<>>
      BY <1>2 DEF PhasesOK
    <3>2. /\ Head(plan[u]) \in Shards /\ Head(plan[t]) \in Shards
          /\ 1 \in DOMAIN plan[u] /\ plan[u][1] = Head(plan[u])
      BY <3>1
    <3>3. Head(plan[t]) < Head(plan[u])
      BY <2>2, <3>2 DEF AllRise
    <3> QED BY <3>2, <3>3
  <2> HIDE DEF rank
  <2> QED BY <1>2, <2>1, <2>2, SomeoneGoesOn
<1> QED BY <1>1, <1>2

(***************************************************************************)
(* No tasks ever wait for each other, if the keys of every MGET and SINTER *)
(* come in the order of their shards.  engine.rs:144 promises as much of   *)
(* any keys, and ShardLocksCrossed shows that it is not kept.              *)
(***************************************************************************)
THEOREM NoCircleEver ==
  ASSUME RisingReads
  PROVE  Spec => []NoCircle
<1>1. Init => AllRise /\ WaitersQueue
  BY DEF Init, AllRise, WaitersQueue
<1>2. TypeOK /\ AllRise /\ WaitersQueue /\ [Next]_vars => AllRise' /\ WaitersQueue'
  BY RiseKept, WaitersKept, ShardLocksAssumption
<1>3. TypeOK /\ AllRise /\ WaitersQueue => NoCircle
  BY NobodyInACircle, ShardLocksAssumption
<1> QED BY <1>1, <1>2, <1>3, TypeCorrect, PTL DEF Spec

-----------------------------------------------------------------------------
(* What a circle is made of, when the reads may name their shards as they  *)
(* like.  If nobody in it read downwards, everybody in it would wait for a *)
(* shard above all that it has; if nobody climbed, for one below; if all   *)
(* read, only for their turn.  In each case somebody would go on.          *)

Climbs(t) == \E s \in held[t] : s < Head(plan[t])
Falls(t)  == mode[t] = "read" /\ \E s \in held[t] : Head(plan[t]) < s

(***************************************************************************)
(* What a circle is made of, whatever pairs are read: an MGET or SINTER    *)
(* that has the higher of its shards and waits for the lower, one that     *)
(* has the lower and waits for the higher (or an RPOPLPUSH), and a writer. *)
(* So writers and single keys alone never wait in a circle, nor do reads   *)
(* alone (README.md:238; engine.rs 110-162).                               *)
(***************************************************************************)
CirclesCross ==
  \A T \in (SUBSET Tasks) \ {{}} :
    (\A t \in T : \E u \in T : WaitsFor(t, u)) =>
      /\ \E t \in T : Falls(t)
      /\ \E t \in T : Climbs(t)
      /\ \E t \in T : mode[t] = "write"

\* no operation locks a shard twice: a read that did would wait for itself behind
\* a writer that came in between
NoneTwice ==
  \A t \in Tasks :
    /\ \A i, j \in DOMAIN plan[t] : i < j => plan[t][i] # plan[t][j]
    /\ \A i \in DOMAIN plan[t] : plan[t][i] \notin held[t]

LEMMA NoneTwiceKept ==
  ASSUME TypeOK, NoneTwice, [Next]_vars
  PROVE  NoneTwice'
<1> USE DEF TypeOK, TypesOK
<1>1. ASSUME NEW t \in Tasks, NEW a \in Shards, NEW b \in Shards, NEW m \in Modes,
             Begin(t, a, b, m)
      PROVE  NoneTwice'
  <2>1. /\ held' = held /\ held[t] = {}
        /\ plan'[t] = IF m = "read" THEN ReadOrder(a, b) ELSE LockOrder(a, b)
        /\ \A u \in Tasks : u # t => plan'[u] = plan[u]
    BY <1>1 DEF Begin, PhasesOK
  <2>2. \/ plan'[t] = <<a>>
        \/ a # b /\ plan'[t] = <<a, b>>
        \/ a # b /\ plan'[t] = <<b, a>>
    BY <2>1 DEF ReadOrder, LockOrder
  <2>3. \A i, j \in DOMAIN plan'[t] : i < j => plan'[t][i] # plan'[t][j]
    <3>1. CASE plan'[t] = <<a>>
      BY <3>1
    <3>2. CASE a # b /\ plan'[t] = <<a, b>>
      BY <3>2
    <3>3. CASE a # b /\ plan'[t] = <<b, a>>
      BY <3>3
    <3> QED BY <2>2, <3>1, <3>2, <3>3
  <2>4. ASSUME NEW u \in Tasks
        PROVE  /\ \A i, j \in DOMAIN plan'[u] : i < j => plan'[u][i] # plan'[u][j]
               /\ \A i \in DOMAIN plan'[u] : plan'[u][i] \notin held'[u]
    <3>1. CASE u = t
      BY <2>1, <2>3, <3>1
    <3>2. CASE u # t
      BY <2>1, <3>2 DEF NoneTwice
    <3> QED BY <3>1, <3>2
  <2> QED BY <2>4 DEF NoneTwice
<1>2. ASSUME NEW s \in Shards, Grant(s)
      PROVE  NoneTwice'
  <2> DEFINE t == Head(queue[s])
  <2>1. t \in Tasks /\ plan[t] \in Seq(Shards) /\ plan[t] # <<>> /\ Head(plan[t]) = s
    BY <1>2, Served
  <2>2. /\ held'[t] = held[t] \cup {s} /\ plan'[t] = Tail(plan[t])
        /\ \A u \in Tasks : u # t => held'[u] = held[u] /\ plan'[u] = plan[u]
    BY <1>2, <2>1 DEF Grant
  <2> HIDE DEF t
  <2>3. /\ 1 \in DOMAIN plan[t] /\ plan[t][1] = s
        /\ \A i \in DOMAIN plan'[t] : /\ i \in Nat \ {0} /\ i + 1 \in DOMAIN plan[t]
                                      /\ plan'[t][i] = plan[t][i + 1]
    BY <2>1, <2>2
  <2>4. \A i, j \in DOMAIN plan'[t] : i < j => plan'[t][i] # plan'[t][j]
    <3> SUFFICES ASSUME NEW i \in DOMAIN plan'[t], NEW j \in DOMAIN plan'[t], i < j
                 PROVE  plan'[t][i] # plan'[t][j]
      OBVIOUS
    <3>1. /\ i + 1 \in DOMAIN plan[t] /\ j + 1 \in DOMAIN plan[t] /\ i + 1 < j + 1
          /\ plan'[t][i] = plan[t][i + 1] /\ plan'[t][j] = plan[t][j + 1]
      BY <2>3
    <3> QED BY <2>1, <3>1 DEF NoneTwice
  <2>5. \A i \in DOMAIN plan'[t] : plan'[t][i] \notin held'[t]
    <3> SUFFICES ASSUME NEW i \in DOMAIN plan'[t]
                 PROVE  plan'[t][i] \notin held[t] /\ plan'[t][i] # s
      BY <2>2
    <3>1. i + 1 \in DOMAIN plan[t] /\ plan'[t][i] = plan[t][i + 1] /\ 1 < i + 1
      BY <2>3
    <3>2. plan[t][i + 1] \notin held[t]
      BY <2>1, <3>1 DEF NoneTwice
    <3>3. plan[t][1] # plan[t][i + 1]
      BY <2>1, <2>3, <3>1 DEF NoneTwice
    <3> QED BY <2>3, <3>1, <3>2, <3>3
  <2>6. ASSUME NEW u \in Tasks
        PROVE  /\ \A i, j \in DOMAIN plan'[u] : i < j => plan'[u][i] # plan'[u][j]
               /\ \A i \in DOMAIN plan'[u] : plan'[u][i] \notin held'[u]
    <3>1. CASE u = t
      BY <2>4, <2>5, <3>1
    <3>2. CASE u # t
      BY <2>2, <3>2 DEF NoneTwice
    <3> QED BY <3>1, <3>2
  <2> QED BY <2>6 DEF NoneTwice
<1>3. ASSUME NEW t \in Tasks, NEW s \in Shards, Drop(t, s)
      PROVE  NoneTwice'
  BY <1>3 DEF NoneTwice, Drop
<1>4. ASSUME NEW t \in Tasks, Ask(t) \/ Finish(t)
      PROVE  NoneTwice'
  BY <1>4 DEF NoneTwice, Ask, Finish
<1>5. CASE UNCHANGED vars
  BY <1>5 DEF NoneTwice, vars
<1> QED BY <1>1, <1>2, <1>3, <1>4, <1>5 DEF Next, TaskStep

LEMMA CircleParts ==
  ASSUME ShardLocksAssumption, TypeOK, OrderInv, NoneTwice, WaitersQueue
  PROVE  CirclesCross
<1> SUFFICES ASSUME NEW T \in SUBSET Tasks, T # {},
                    \A t \in T : \E u \in T : WaitsFor(t, u)
             PROVE  /\ \E t \in T : Falls(t)
                    /\ \E t \in T : Climbs(t)
                    /\ \E t \in T : mode[t] = "write"
  BY Zenon DEF CirclesCross
<1> USE DEF TypeOK, TypesOK
<1>1. \A t \in T : phase[t] = "wait"
  BY DEF WaitsFor
<1>2. ~ \E t \in T : \A u \in T : ~WaitsFor(t, u)
  OBVIOUS
<1>3. ASSUME NEW t \in T
      PROVE  /\ Head(plan[t]) \in Shards /\ Head(plan[t]) \notin held[t]
             /\ held[t] \subseteq Shards
             /\ mode[t] = "write" => \A s \in held[t] : s < Head(plan[t])
  <2>1. plan[t] \in Seq(Shards) /\ plan[t] # <<>> /\ t \in Tasks
    BY <1>1 DEF PhasesOK
  <2>2. Head(plan[t]) \in Shards /\ 1 \in DOMAIN plan[t] /\ plan[t][1] = Head(plan[t])
    BY <2>1
  <2> QED BY <2>1, <2>2 DEF NoneTwice, OrderInv, OrderedWriters
<1>4. /\ NumShards \in Nat /\ Shards \subseteq 0 .. NumShards
      /\ \A r, s \in Shards : r # s => r < s \/ s < r
  BY ShardLocksAssumption DEF Shards
<1>5. \E t \in T : Falls(t)
  <2> SUFFICES ASSUME \A t \in T : ~Falls(t) PROVE FALSE
    OBVIOUS
  <2> DEFINE rank == [s \in Shards |-> s]
  <2>1. rank \in [Shards -> 0 .. NumShards]
    BY <1>4
  <2>2. ASSUME NEW t \in T, NEW u \in T, Head(plan[t]) \in held[u]
        PROVE  rank[Head(plan[t])] < rank[Head(plan[u])]
    <3>1. /\ Head(plan[t]) \in Shards /\ Head(plan[u]) \in Shards
          /\ Head(plan[t]) # Head(plan[u])
      BY <1>3, <2>2
    <3>2. Head(plan[t]) < Head(plan[u])
      <4>1. CASE mode[u] = "write"
        BY <1>3, <2>2, <4>1
      <4>2. CASE mode[u] = "read"
        <5>1. ~(Head(plan[u]) < Head(plan[t]))
          BY <2>2, <4>2 DEF Falls
        <5> QED BY <1>4, <3>1, <5>1
      <4> QED BY <4>1, <4>2 DEF Modes
    <3> QED BY <3>1, <3>2
  <2> HIDE DEF rank
  <2> QED BY <1>1, <1>2, <1>4, <2>1, <2>2, SomeoneGoesOn
<1>6. \E t \in T : Climbs(t)
  <2> SUFFICES ASSUME \A t \in T : ~Climbs(t) PROVE FALSE
    OBVIOUS
  <2> DEFINE rank == [s \in Shards |-> NumShards - s]
  <2>1. rank \in [Shards -> 0 .. NumShards]
    BY <1>4
  <2>2. ASSUME NEW t \in T, NEW u \in T, Head(plan[t]) \in held[u]
        PROVE  rank[Head(plan[t])] < rank[Head(plan[u])]
    <3> DEFINE x == Head(plan[t])
               y == Head(plan[u])
    <3>1. x \in Shards /\ y \in Shards /\ x # y
      BY <1>3, <2>2
    <3>2. ~(x < y)
      BY <2>2 DEF Climbs
    <3> HIDE DEF x, y
    <3>3. y < x
      BY <1>4, <3>1, <3>2
    <3>4. rank[x] = NumShards - x /\ rank[y] = NumShards - y
      BY <3>1
    <3>5. x \in Int /\ y \in Int /\ NumShards \in Int
      BY <3>1, ShardLocksAssumption DEF Shards
    <3> HIDE DEF rank
    <3>6. rank[x] < rank[y]
      BY <3>3, <3>4, <3>5
    <3> QED BY <3>6 DEF x, y
  <2> HIDE DEF rank
  <2> QED BY <1>1, <1>2, <1>4, <2>1, <2>2, SomeoneGoesOn
<1>7. \E t \in T : mode[t] = "write"
  <2> SUFFICES ASSUME \A t \in T : mode[t] = "read" PROVE FALSE
    BY DEF Modes
  <2> DEFINE rank == [s \in Shards |-> 0]
  <2>1. 0 \in Nat /\ rank \in [Shards -> 0 .. 0]
    OBVIOUS
  <2> HIDE DEF rank
  <2> QED BY <1>1, <1>2, <2>1, SomeoneGoesOn
<1> QED BY <1>5, <1>6, <1>7

(***************************************************************************)
(* Whatever pairs MGET and SINTER read: in every circle of waiters one of  *)
(* them reads downwards, somebody climbs and somebody writes.  So neither  *)
(* writers and commands of one key among themselves nor readers among      *)
(* themselves ever wait for ever (engine.rs 110-162).                      *)
(***************************************************************************)
THEOREM OnlyCrossingCircles == Spec => []CirclesCross
<1>1. Init => OrderInv /\ NoneTwice /\ WaitersQueue
  BY DEF Init, OrderInv, RisingPlans, OrderedWriters, NoneTwice, WaitersQueue
<1>2. TypeOK /\ OrderInv /\ NoneTwice /\ WaitersQueue /\ [Next]_vars
        => OrderInv' /\ NoneTwice' /\ WaitersQueue'
  BY OrderKept, NoneTwiceKept, WaitersKept, ShardLocksAssumption
<1>3. TypeOK /\ OrderInv /\ NoneTwice /\ WaitersQueue => CirclesCross
  BY CircleParts, ShardLocksAssumption
<1> QED BY <1>1, <1>2, <1>3, TypeCorrect, PTL DEF Spec
=============================================================================
