---------------------------- MODULE MCAofPipeline ----------------------------
(* Two keys, each on a shard of its own, and the command sets of the runs. *)
EXTENDS AofPipeline

CONSTANTS k1, k2, word, other

MCShardOf == (k1 :> 0) @@ (k2 :> 1)

\* every kind of logged command but RPOPLPUSH and LTRIM
LoggedCommands ==
  {Set(k1, word), SetEx(k1, 1, other), Get(k1), Incr(k2), LPush(k2, word), LPop(k2), Del(k1)}

QueueCommands  == {RPush(k1, word), RPush(k2, other), RPopLPush(k1, k2), LPop(k2)}
AllCommands    == {SetEx(k1, 0, word), RPush(k2, word), RPopLPush(k2, k1), LTrim(k2, -4, -3)}
SetCommands    == {Set(k1, word), Set(k1, other), Incr(k2)}
LeaseCommands  == {SetEx(k1, 1, word), Set(k1, other), Get(k2)}
ClientSymmetry == Permutations(Clients)
=============================================================================
