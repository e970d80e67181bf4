---------------------------- MODULE MCCommandLog ----------------------------
(* Command sets for the runs of CommandLog. *)
EXTENDS CommandLog

CONSTANTS k1, k2, word, spaced

\* every kind of entry on the same two keys, leases, counters at their limit,
\* and values with blanks wherever the handler quotes them
ValueCommands ==
  {Set(k1, word), Set(k1, MaxInt), SetEx(k1, 1, word), SetEx(k2, 2, 0),
   SetEx(k2, -1, word), Get(k1), Get(k2), Del(k1), Incr(k1), Incr(k2),
   LPush(k1, spaced), LPush(k1, 0), RPush(k2, word), LPop(k1), RPop(k2),
   LRem(k1, spaced), RPopLPush(k1, k2), RPopLPush(k2, k1), RPopLPush(k1, k1),
   HSet(k1, word, spaced), HSet(k2, word, 0), SAdd(k1, word), SAdd(k2, word), SAdd(k2, 0)}

Ends == {-4, -3, -1, 0, 1}

\* moves each way and onto the same list, and LTRIM with indices before, at and
\* behind either end of lists of one, two and three
ListCommands ==
  {LPush(k1, word), RPush(k1, 0), RPush(k2, 1), Set(k2, word), LPop(k1), LRem(k1, word),
   RPopLPush(k1, k2), RPopLPush(k2, k1), RPopLPush(k1, k1)}
    \cup {LTrim(k1, a, b) : a \in Ends, b \in Ends}

AllCommands == ValueCommands \cup ListCommands

\* ReplayRebuilds is about commands whose lines replay_aof reads back
ASSUME LegibleCommands == \A c \in AllCommands : Legible(c)

(***************************************************************************)
(* A run of the model keeps to one of the two sets of commands, and only   *)
(* the one with leases in it lets the clock go.                            *)
(***************************************************************************)
VARIABLE workload

MCInit == Init /\ workload \in {ValueCommands, ListCommands}

MCNext == /\ \/ workload = ValueCommands /\ Tick
             \/ \E c \in workload : Run(c)
          /\ UNCHANGED workload

MCSpec == MCInit /\ [][MCNext]_<<vars, workload>>
=============================================================================
