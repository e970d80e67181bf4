----------------------------- MODULE ShardLocks -----------------------------
(***************************************************************************)
(* How tasks get hold of shards (engine.rs): each shard is behind a tokio  *)
(* RwLock, which serves its waiters first come, first served, a reader     *)
(* behind a waiting writer included.  An operation on two keys waits for   *)
(* the second shard with the first in hand: RPOPLPUSH takes the lower one  *)
(* first, MGET and SINTER take them in the order of their arguments.       *)
(***************************************************************************)
EXTENDS Integers, Sequences

CONSTANTS
  Tasks,      \* connections, and the sweeper and compactor
  NumShards,  \* SHARD_COUNT
  Reads       \* the pairs of shards that MGET and SINTER are asked to read

Shards == 0 .. NumShards - 1

ASSUME ShardLocksAssumption ==
  /\ NumShards \in Nat \ {0}
  /\ Reads \subseteq Shards \X Shards

Modes  == {"read", "write"}

VARIABLES
  phase,   \* idle, ask (about to await a lock), wait, work, drop
  mode,    \* how the task's present operation locks
  need,    \* the shards it is to work on
  plan,    \* the shards it has still to lock, in order
  held,    \* the shards it has locked
  queue    \* the waiters of each shard's lock

vars == <<phase, mode, need, plan, held, queue>>

Init ==
  /\ phase = [t \in Tasks |-> "idle"]
  /\ mode = [t \in Tasks |-> "read"]
  /\ need = [t \in Tasks |-> {}]
  /\ plan = [t \in Tasks |-> <<>>]
  /\ held = [t \in Tasks |-> {}]
  /\ queue = [s \in Shards |-> <<>>]

\* read_multi_shards: both of its branches lock the first argument first
ReadOrder(a, b) == IF a = b THEN <<a>> ELSE <<a, b>>

\* write_multi_shards
LockOrder(a, b) == IF a = b THEN <<a>> ELSE IF a < b THEN <<a, b>> ELSE <<b, a>>

\* read_shard and write_shard (a = b), read_multi_shards, write_multi_shards;
\* a task that visits every shard begins anew for each
Begin(t, a, b, m) ==
  /\ phase[t] = "idle"
  /\ m = "read" /\ a # b => <<a, b>> \in Reads
  /\ phase' = [phase EXCEPT ![t] = "ask"]
  /\ mode' = [mode EXCEPT ![t] = m]
  /\ need' = [need EXCEPT ![t] = {a, b}]
  /\ plan' = [plan EXCEPT ![t] = IF m = "read" THEN ReadOrder(a, b) ELSE LockOrder(a, b)]
  /\ UNCHANGED <<held, queue>>

\* Mutation: a lock that serves the latest first.
AskFirst(t) ==
  /\ phase[t] = "ask"
  /\ phase' = [phase EXCEPT ![t] = "wait"]
  /\ queue' = [queue EXCEPT ![Head(plan[t])] = <<t>> \o @]
  /\ UNCHANGED <<mode, need, plan, held>>

\* Mutation: the first guard is dropped before the second lock is awaited.
AskEmptyHanded(t) ==
  /\ phase[t] = "ask"
  /\ phase' = [phase EXCEPT ![t] = "wait"]
  /\ queue' = [queue EXCEPT ![Head(plan[t])] = Append(@, t)]
  /\ held' = [held EXCEPT ![t] = {}]
  /\ UNCHANGED <<mode, need, plan>>

\* .read().await or .write().await joins the queue of the next shard
Ask(t) ==
  /\ phase[t] = "ask"
  /\ phase' = [phase EXCEPT ![t] = "wait"]
  /\ queue' = [queue EXCEPT ![Head(plan[t])] = Append(@, t)]
  /\ UNCHANGED <<mode, need, plan, held>>

Compatible(t, s) ==
  \A u \in Tasks : s \in held[u] => mode[t] = "read" /\ mode[u] = "read"

\* the lock of s goes to the first waiter
Grant(s) ==
  /\ queue[s] # <<>>
  /\ LET t == Head(queue[s])
     IN /\ Compatible(t, s)
        /\ held' = [held EXCEPT ![t] = @ \cup {s}]
        /\ plan' = [plan EXCEPT ![t] = Tail(@)]
        /\ phase' = [phase EXCEPT ![t] = IF Tail(plan[t]) = <<>> THEN "work" ELSE "ask"]
  /\ queue' = [queue EXCEPT ![s] = Tail(@)]
  /\ UNCHANGED <<mode, need>>

\* the handler's body is over
Finish(t) ==
  /\ phase[t] = "work"
  /\ phase' = [phase EXCEPT ![t] = "drop"]
  /\ UNCHANGED <<mode, need, plan, held, queue>>

\* Mutation: the second guard is never dropped.
DropOnlyOne(t, s) ==
  /\ phase[t] = "drop" /\ s \in held[t]
  /\ held' = [held EXCEPT ![t] = @ \ {s}]
  /\ phase' = [phase EXCEPT ![t] = "idle"]
  /\ UNCHANGED <<mode, need, plan, queue>>

\* one guard goes out of scope
Drop(t, s) ==
  /\ phase[t] = "drop" /\ s \in held[t]
  /\ held' = [held EXCEPT ![t] = @ \ {s}]
  /\ phase' = [phase EXCEPT ![t] = IF held[t] = {s} THEN "idle" ELSE "drop"]
  /\ UNCHANGED <<mode, need, plan, queue>>

TaskStep(t) ==
  \/ \E a, b \in Shards, m \in Modes : Begin(t, a, b, m)
  \/ Ask(t) \/ Finish(t) \/ \E s \in Shards : Drop(t, s)

Next == (\E t \in Tasks : TaskStep(t)) \/ \E s \in Shards : Grant(s)

Spec == Init /\ [][Next]_vars

\* the runtime polls ready tasks and hands free locks on; a handler returns
Fairness ==
  /\ \A t \in Tasks : WF_vars(Ask(t)) /\ WF_vars(Finish(t))
                        /\ WF_vars(\E s \in Shards : Drop(t, s))
  /\ \A s \in Shards : WF_vars(Grant(s))

FairSpec == Spec /\ Fairness

-----------------------------------------------------------------------------

TypesOK ==
  /\ phase \in [Tasks -> {"idle", "ask", "wait", "work", "drop"}]
  /\ mode \in [Tasks -> Modes]
  /\ need \in [Tasks -> SUBSET Shards]
  /\ plan \in [Tasks -> Seq(Shards)]
  /\ held \in [Tasks -> SUBSET Shards]
  /\ queue \in [Shards -> Seq(Tasks)]

Elements(p) == {p[i] : i \in DOMAIN p}

\* what a phase says of the locks: an idle task has none, one that asks or waits
\* wants another, and until it drops one a task has or wants all that it needs
PhasesOK ==
  \A t \in Tasks :
    /\ phase[t] = "idle" => held[t] = {}
    /\ phase[t] \in {"ask", "wait"} <=> plan[t] # <<>>
    /\ phase[t] \in {"ask", "wait", "work"} =>
         need[t] = held[t] \cup Elements(plan[t])

\* a waiting task stands in a queue once, that of the shard next on its plan
QueuesOK ==
  \A s \in Shards : \A i \in DOMAIN queue[s] :
    /\ phase[queue[s][i]] = "wait" /\ Head(plan[queue[s][i]]) = s
    /\ \A j \in DOMAIN queue[s] : queue[s][j] = queue[s][i] => j = i

(***************************************************************************)
(* The types, and how phases, plans and queues agree: a task that was in a *)
(* queue twice, or had its plan emptied while it waited, would be let in   *)
(* again after it had gone (engine.rs 110-162).                            *)
(***************************************************************************)
TypeOK == TypesOK /\ PhasesOK /\ QueuesOK

(***************************************************************************)
(* A writer that still has a shard to lock holds only lower ones, so that  *)
(* writers alone never wait in a circle (README.md:238; engine.rs 121-142).*)
(***************************************************************************)
OrderedWriters ==
  \A t \in Tasks : mode[t] = "write" =>
    \A i \in DOMAIN plan[t] : \A s \in held[t] : s < plan[t][i]

\* t cannot have the lock it waits for before u has let go of it
WaitsFor(t, u) ==
  /\ phase[t] = "wait"
  /\ LET s    == Head(plan[t])
         at(x) == CHOOSE i \in DOMAIN queue[s] : queue[s][i] = x
     IN \/ s \in held[u] /\ ~(mode[t] = "read" /\ mode[u] = "read")
        \/ /\ phase[u] = "wait" /\ u # t /\ Head(plan[u]) = s
           /\ at(u) < at(t)

(***************************************************************************)
(* No tasks wait for each other for ever (engine.rs:144, "Deadlock-safe    *)
(* multi-read locking using the same sorting pattern as                    *)
(* write_multi_shards").                                                   *)
(***************************************************************************)
NoCircle ==
  \A T \in (SUBSET Tasks) \ {{}} : \E t \in T : \A u \in T : ~WaitsFor(t, u)

(***************************************************************************)
(* Every operation gets all of its locks, whatever the others keep doing.  *)
(***************************************************************************)
EveryoneServed == \A t \in Tasks : phase[t] = "ask" ~> phase[t] = "work"

(***************************************************************************)
(* Taking two locks one after the other is as good as taking both at once: *)
(* from its last lock to its first unlock an operation has everything that *)
(* it needs to itself, or shares it with readers only.                     *)
(***************************************************************************)
Atomic == INSTANCE AtomicGuards
  WITH working <- [t \in Tasks |->
         IF phase[t] = "work" THEN [on |-> need[t], mode |-> mode[t]]
         ELSE [on |-> {}, mode |-> "none"]]

ImplementsAtomicGuards == Atomic!Spec
=============================================================================
