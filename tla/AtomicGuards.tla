---------------------------- MODULE AtomicGuards ----------------------------
(***************************************************************************)
(* What a handler relies on: it works on all of its shards from one        *)
(* instant on, and nobody who would disturb it works on one of them        *)
(* meanwhile.  AofPipeline takes the shards of a command in one step on    *)
(* the strength of this.                                                   *)
(***************************************************************************)
CONSTANTS Tasks, Shards

VARIABLE working   \* what each task works on: a set of shards and a mode

Nothing == [on |-> {}, mode |-> "none"]

Conflict(w, v) == w.on \cap v.on # {} /\ (w.mode = "write" \/ v.mode = "write")

Init == working = [t \in Tasks |-> Nothing]

Enter(t) ==
  /\ working[t] = Nothing
  /\ \E S \in SUBSET Shards, m \in {"read", "write"} :
       LET w == [on |-> S, mode |-> m]
       IN /\ \A u \in Tasks : ~Conflict(w, working[u])
          /\ working' = [working EXCEPT ![t] = w]

Leave(t) == working' = [working EXCEPT ![t] = Nothing]

Next == \E t \in Tasks : Enter(t) \/ Leave(t)

Spec == Init /\ [][Next]_working
=============================================================================
