-------------------------- MODULE ConnectionsProofs --------------------------
(***************************************************************************)
(* What holds of the registry and of MONITOR for any addresses, any number *)
(* of connections, whatever they send, and any capacity of the broadcast.  *)
(***************************************************************************)
EXTENDS Connections, TLAPS

USE ConnectionsAssumption

-----------------------------------------------------------------------------
(* Types, by the groups of variables that change together.                 *)

ConnTypes ==
  /\ accepted \in 0 .. MaxId
  /\ registry \in [Addrs -> Ids \cup {Nobody}]
  /\ pc \in [Ids -> Places]
  /\ met \subseteq Ids

TalkTypes ==
  /\ proven \in [Ids -> BOOLEAN]
  /\ asked \in [Ids -> Seq(Kinds)]
  /\ buffer \in [Ids -> Seq(Nat \X Verdicts)]
  /\ replies \in [Ids -> Seq(Nat \X Verdicts)]

MonitorTypes ==
  /\ feed \in Nat
  /\ joined \in [Ids -> Nat]
  /\ next \in [Ids -> Nat]
  /\ transcript \in [Ids -> Seq(Nat)]

ClientTypes ==
  /\ unread \in [Ids -> 0 .. Room]
  /\ left \in [Ids -> BOOLEAN]

LEMMA TypesInParts == TypeOK <=> ConnTypes /\ TalkTypes /\ MonitorTypes /\ ClientTypes
  BY DEF TypeOK, ConnTypes, TalkTypes, MonitorTypes, ClientTypes

ConnStep(i) == TaskStep(i) \/ Read(i) \/ Leave(i)

LEMMA EndTypes ==
  ASSUME ConnTypes, NEW i \in Ids, End(i) PROVE ConnTypes'
<1>1. From[i] \in Addrs /\ Nobody \in Ids \cup {Nobody} /\ "ended" \in Places
  BY DEF Places
<1>2. pc' = [pc EXCEPT ![i] = "ended"] /\ registry' = [registry EXCEPT ![From[i]] = Nobody]
  BY DEF End, Goto
<1>3. UNCHANGED <<accepted, met>>
  BY DEF End
<1> QED BY <1>1, <1>2, <1>3 DEF ConnTypes

Enter(i, place) == UNCHANGED conns /\ pc' = [pc EXCEPT ![i] = place]

\* A step leaves the registry and the places alone, or a task that lives ends
\* or goes to another place of its loop.
LEMMA Moves ==
  ASSUME NEW i \in Ids, ConnStep(i)
  PROVE  \/ UNCHANGED <<pc, conns>>
         \/ Alive(i) /\ End(i)
         \/ Alive(i) /\ \E place \in Places \ {"none", "ended"} : Enter(i, place)
<1> USE DEF Goto, Places, Alive, Enter
<1>1. ASSUME NEW kind \in Kinds, Receive(i, kind) PROVE Alive(i) /\ Enter(i, "gate")
  BY <1>1 DEF Receive
<1>2. CASE Gate(i) \/ RunMute(i) \/ Respond(i)
  BY <1>2 DEF Gate, RunMute, Respond
<1>3. CASE Run(i)
  BY <1>3 DEF Run
<1>4. CASE Greet(i) \/ Join(i) \/ Relay(i) \/ Push(i)
  BY <1>4 DEF Greet, Join, Relay, Push
<1>5. CASE Read(i) \/ Leave(i)
  BY <1>5 DEF Read, Leave
<1>6. CASE Hangup(i) \/ RunFatal(i) \/ Lag(i) \/ WriteFails(i)
  BY <1>6 DEF Hangup, RunFatal, Lag, WriteFails
<1> QED BY <1>1, <1>2, <1>3, <1>4, <1>5, <1>6 DEF ConnStep, TaskStep, Goes

LEMMA EndKeeps == ASSUME NEW i \in Ids, End(i) PROVE UNCHANGED <<accepted, met, talk, monitor, client>>
  BY DEF End

LEMMA ConnTypesStep ==
  ASSUME ConnTypes, NEW i \in Ids, ConnStep(i) PROVE ConnTypes'
<1>1. CASE End(i)
  BY <1>1, EndTypes
<1>2. CASE UNCHANGED <<pc, conns>>
  BY <1>2 DEF ConnTypes, conns
<1>3. ASSUME NEW place \in Places, Enter(i, place) PROVE ConnTypes'
  BY <1>3 DEF Enter, ConnTypes, conns
<1> QED BY <1>1, <1>2, <1>3, Moves

LEMMA AcceptTypes ==
  ASSUME TypeOK, Accept PROVE TypeOK'
<1>0. accepted + 1 \in Ids
  BY DEF Accept, TypeOK, Ids
<1>1. PICK i \in Ids : i = accepted + 1
  BY <1>0
<1>2. /\ accepted' = i /\ registry' = [registry EXCEPT ![From[i]] = i]
      /\ pc' = [pc EXCEPT ![i] = "read"] /\ met' \subseteq met \cup {i}
  BY <1>1 DEF Accept, Goto
<1>3. From[i] \in Addrs /\ "read" \in Places
  BY DEF Places
<1>4. ConnTypes'
  <2>1. registry' \in [Addrs -> Ids \cup {Nobody}] /\ pc' \in [Ids -> Places]
    BY <1>1, <1>2, <1>3 DEF TypeOK
  <2>2. met' \subseteq Ids
    BY <1>1, <1>2 DEF TypeOK
  <2>3. accepted' \in 0 .. MaxId
    BY <1>1, <1>2 DEF Ids
  <2> QED BY <2>1, <2>2, <2>3 DEF ConnTypes
<1>5. UNCHANGED <<talk, monitor, client>>
  BY DEF Accept
<1> QED BY <1>4, <1>5, TypesInParts DEF TypeOK, ConnTypes, talk, monitor, client

LEMMA AppendType ==
  ASSUME NEW S, NEW s \in Seq(S), NEW x \in S PROVE Append(s, x) \in Seq(S)
  OBVIOUS

LEMMA TalkTypesStep ==
  ASSUME TypeOK, NEW i \in Ids, ConnStep(i) PROVE TalkTypes'
<1>0. /\ TalkTypes /\ asked[i] \in Seq(Kinds) /\ buffer[i] \in Seq(Nat \X Verdicts)
      /\ replies[i] \in Seq(Nat \X Verdicts)
  BY TypesInParts DEF TalkTypes
<1>1. CASE UNCHANGED talk
  BY <1>0, <1>1 DEF TalkTypes, talk
<1>2. ASSUME NEW kind \in Kinds, Receive(i, kind) PROVE TalkTypes'
  <2>1. Append(asked[i], kind) \in Seq(Kinds)
    BY <1>0, AppendType
  <2> QED BY <1>0, <1>2, <2>1 DEF Receive, TalkTypes
<1>3. ASSUME NEW verdict \in Verdicts, Buffered(i, verdict) PROVE buffer' \in [Ids -> Seq(Nat \X Verdicts)]
  <2>1. <<Number(i), verdict>> \in Nat \X Verdicts
    BY <1>0 DEF Number
  <2>2. Append(buffer[i], <<Number(i), verdict>>) \in Seq(Nat \X Verdicts)
    BY <1>0, <2>1, AppendType
  <2> QED BY <1>0, <1>3, <2>2 DEF Buffered, TalkTypes
<1>4. CASE Gate(i) \/ Run(i)
  <2>1. PICK verdict \in Verdicts : Buffered(i, verdict)
    BY <1>4 DEF Gate, Run, Verdicts
  <2>2. buffer' \in [Ids -> Seq(Nat \X Verdicts)]
    BY <1>3, <2>1
  <2>3. proven' \in [Ids -> BOOLEAN] /\ UNCHANGED <<asked, replies>>
    BY <1>0, <1>4 DEF Gate, Run, TalkTypes
  <2> QED BY <1>0, <2>2, <2>3 DEF TalkTypes
<1>5. CASE Respond(i) \/ Greet(i)
  <2>1. replies[i] \o buffer[i] \in Seq(Nat \X Verdicts) /\ <<>> \in Seq(Nat \X Verdicts)
    BY <1>0
  <2>2. /\ replies' = [replies EXCEPT ![i] = @ \o buffer[i]]
        /\ buffer' = [buffer EXCEPT ![i] = <<>>] /\ UNCHANGED <<proven, asked>>
    BY <1>5 DEF Respond, Greet
  <2> QED BY <1>0, <2>1, <2>2 DEF TalkTypes
<1>6. CASE End(i)
  BY <1>1, <1>6, EndKeeps
<1> QED BY <1>1, <1>2, <1>4, <1>5, <1>6
        DEF ConnStep, TaskStep, Goes, Hangup, RunMute, RunFatal, Join, Relay, Push, Lag,
            WriteFails, Read, Leave

LEMMA MonitorTypesStep ==
  ASSUME TypeOK, NEW i \in Ids, ConnStep(i) PROVE MonitorTypes'
<1>0. MonitorTypes /\ next[i] \in Nat /\ transcript[i] \in Seq(Nat)
  BY TypesInParts DEF MonitorTypes
<1>1. CASE UNCHANGED monitor
  BY <1>0, <1>1 DEF MonitorTypes, monitor
<1>2. ASSUME NEW kind \in Kinds, Receive(i, kind) PROVE MonitorTypes'
  BY <1>0, <1>2 DEF Receive, MonitorTypes
<1>3. CASE Join(i)
  BY <1>0, <1>3 DEF Join, MonitorTypes
<1>4. CASE Relay(i)
  BY <1>0, <1>4 DEF Relay, MonitorTypes
<1>5. CASE Push(i)
  <2>1. Append(transcript[i], next[i]) \in Seq(Nat)
    BY <1>0, AppendType
  <2> QED BY <1>0, <1>5, <2>1 DEF Push, MonitorTypes
<1>6. CASE End(i)
  BY <1>1, <1>6, EndKeeps
<1> QED BY <1>1, <1>2, <1>3, <1>4, <1>5, <1>6
        DEF ConnStep, TaskStep, Goes, Hangup, Gate, Run, RunMute, RunFatal, Respond, Greet, Lag,
            WriteFails, Read, Leave

LEMMA ClientTypesStep ==
  ASSUME TypeOK, NEW i \in Ids, ConnStep(i) PROVE ClientTypes'
<1>0. ClientTypes /\ unread[i] \in 0 .. Room /\ Room \in Nat \ {0}
  BY TypesInParts DEF ClientTypes
<1>1. CASE UNCHANGED client
  BY <1>0, <1>1 DEF ClientTypes, client
<1>2. CASE Write(i)
  <2>1. unread[i] < Room => unread[i] + 1 \in 0 .. Room
    BY <1>0
  <2> QED BY <1>0, <1>2, <2>1 DEF Write, ClientTypes
<1>3. CASE Read(i)
  <2>1. unread[i] > 0 => unread[i] - 1 \in 0 .. Room
    BY <1>0
  <2> QED BY <1>0, <1>3, <2>1 DEF Read, ClientTypes
<1>4. CASE Leave(i)
  <2>1. 0 \in 0 .. Room
    BY <1>0
  <2> QED BY <1>0, <1>4, <2>1 DEF Leave, ClientTypes
<1>5. CASE End(i)
  BY <1>1, <1>5, EndKeeps
<1> QED BY <1>1, <1>2, <1>3, <1>4, <1>5
        DEF ConnStep, TaskStep, Goes, Hangup, Receive, Gate, Run, RunMute, RunFatal, Respond,
            Greet, Join, Relay, Push, Lag, WriteFails

LEMMA TypesStep == TypeOK /\ [Next]_vars => TypeOK'
<1> SUFFICES ASSUME TypeOK, [Next]_vars PROVE TypeOK'
  OBVIOUS
<1>1. CASE UNCHANGED vars
  BY <1>1 DEF TypeOK, vars, conns, talk, monitor, client
<1>2. CASE Accept
  BY <1>2, AcceptTypes
<1>3. ASSUME NEW i \in Ids, ConnStep(i) PROVE TypeOK'
  <2>1. ConnTypes' /\ TalkTypes' /\ MonitorTypes' /\ ClientTypes'
    BY <1>3, TypesInParts, ConnTypesStep, TalkTypesStep, MonitorTypesStep, ClientTypesStep
  <2> QED BY <2>1 DEF TypeOK, ConnTypes, TalkTypes, MonitorTypes, ClientTypes
<1> QED BY <1>1, <1>2, <1>3 DEF Next, ConnStep

LEMMA TypesInit == Init => TypeOK
<1> SUFFICES ASSUME Init PROVE TypeOK
  OBVIOUS
<1>1. 0 \in 0 .. Room /\ 0 \in 0 .. MaxId /\ "none" \in Places
  BY DEF Places
<1>2. <<>> \in Seq(Kinds) /\ <<>> \in Seq(Nat \X Verdicts) /\ <<>> \in Seq(Nat)
  OBVIOUS
<1> QED BY <1>1, <1>2 DEF Init, TypeOK

\* Every variable keeps its type, and no socket holds more than its Room.
THEOREM TypeCorrect == Spec => []TypeOK
<1> QED BY TypesInit, TypesStep, PTL DEF Spec

-----------------------------------------------------------------------------
(* The registry.  That a task is listed, or was hidden by another with its *)
(* address, is inductive only with the order in which they came: of two    *)
(* that live with one address the younger met the older, so the guard that *)
(* drops hides nobody but one that came after it, or was replaced by it.   *)

Held ==
  \A a \in Addrs : \A i \in Ids : registry[a] = i => Alive(i) /\ From[i] = a

Numbered == \A i \in Ids : pc[i] # "none" => i <= accepted

MetOlder == \A i, j \in Live : i < j /\ From[i] = From[j] => j \in met

Hidden(i) == i \in met \/ \E j \in met : j > i /\ From[j] = From[i]

ListedOrHidden == \A i \in Live : registry[From[i]] = i \/ Hidden(i)

RInv == ConnTypes /\ Held /\ Numbered /\ MetOlder /\ ListedOrHidden

LEMMA RegistryAccept ==
  ASSUME TypeOK, RInv, Accept PROVE RInv'
<1>0. accepted + 1 \in Ids
  BY DEF Accept, TypeOK, Ids
<1>1. PICK i \in Ids : i = accepted + 1
  BY <1>0
<1>2. /\ accepted' = i /\ registry' = [registry EXCEPT ![From[i]] = i]
      /\ pc' = [pc EXCEPT ![i] = "read"]
  BY <1>1 DEF Accept, Goto
<1>3. met' = IF {j \in Live : From[j] = From[i]} = {} THEN met ELSE met \cup {i}
  BY <1>1 DEF Accept
<1>4. ConnTypes'
  BY AcceptTypes DEF TypeOK, ConnTypes
<1>5. /\ registry \in [Addrs -> Ids \cup {Nobody}] /\ pc \in [Ids -> Places]
      /\ met \subseteq Ids /\ accepted \in Nat /\ From \in [Ids -> Addrs]
      /\ \A j \in Ids : j \in Nat
  BY DEF RInv, ConnTypes, Ids
<1>6. pc[i] = "none" /\ ~Alive(i) /\ Alive(i)' /\ \A j \in Live : j < i
  BY <1>1, <1>2, <1>5 DEF RInv, Numbered, Alive, Live
<1>7. \A j \in Ids \ {i} : pc'[j] = pc[j] /\ Alive(j)' = Alive(j)
  BY <1>2, <1>5 DEF Alive
<1>8. Held'
  <2> SUFFICES ASSUME NEW a \in Addrs, NEW k \in Ids, registry'[a] = k PROVE Alive(k)' /\ From[k] = a
    BY DEF Held
  <2>1. CASE a = From[i]
    BY <1>2, <1>5, <1>6, <2>1
  <2>2. CASE a # From[i]
    <3>1. registry[a] = k
      BY <1>2, <1>5, <2>2
    <3>2. Alive(k) /\ From[k] = a
      BY <3>1 DEF RInv, Held
    <3>3. k # i
      BY <2>2, <3>2
    <3> QED BY <1>7, <3>2, <3>3
  <2> QED BY <2>1, <2>2
<1>9. Numbered'
  BY <1>1, <1>2, <1>5, <1>7 DEF RInv, Numbered
<1>10. MetOlder'
  <2> SUFFICES ASSUME NEW j \in Ids, NEW k \in Ids, Alive(j)', Alive(k)', j < k, From[j] = From[k]
               PROVE  k \in met'
    BY DEF MetOlder, Live
  <2>1. CASE k = i
    <3>1. j \in Live
      BY <1>5, <1>7, <2>1 DEF Live
    <3> QED BY <1>3, <2>1, <3>1
  <2>2. CASE k # i
    <3>1. k \in Live /\ j # i
      BY <1>5, <1>6, <1>7, <2>2 DEF Live
    <3>2. j \in Live
      BY <1>7, <3>1 DEF Live
    <3> QED BY <1>3, <3>1, <3>2 DEF RInv, MetOlder
  <2> QED BY <2>1, <2>2
<1>11. ListedOrHidden'
  <2> SUFFICES ASSUME NEW k \in Ids, Alive(k)' PROVE registry'[From[k]] = k \/ Hidden(k)'
    BY DEF ListedOrHidden, Live
  <2>1. CASE k = i
    BY <1>2, <1>5, <2>1
  <2>2. CASE k # i /\ From[k] = From[i]
    <3>1. k \in Live /\ k < i
      BY <1>6, <1>7, <2>2 DEF Live
    <3>2. i \in met'
      BY <1>3, <2>2, <3>1
    <3> QED BY <2>2, <3>1, <3>2 DEF Hidden
  <2>3. CASE k # i /\ From[k] # From[i]
    <3>1. k \in Live /\ registry'[From[k]] = registry[From[k]]
      BY <1>2, <1>5, <1>7, <2>3 DEF Live
    <3>2. Hidden(k) => Hidden(k)'
      BY <1>3 DEF Hidden
    <3> QED BY <3>1, <3>2 DEF RInv, ListedOrHidden
  <2> QED BY <2>1, <2>2, <2>3
<1> QED BY <1>4, <1>8, <1>9, <1>10, <1>11 DEF RInv

LEMMA RegistryEnd ==
  ASSUME RInv, NEW i \in Ids, Alive(i), End(i) PROVE RInv'
<1>1. /\ pc' = [pc EXCEPT ![i] = "ended"] /\ registry' = [registry EXCEPT ![From[i]] = Nobody]
      /\ accepted' = accepted /\ met' = met
  BY DEF End, Goto
<1>2. ConnTypes'
  BY EndTypes DEF RInv
<1>3. /\ registry \in [Addrs -> Ids \cup {Nobody}] /\ pc \in [Ids -> Places]
      /\ From \in [Ids -> Addrs] /\ Nobody \notin Ids /\ \A j \in Ids : j \in Nat
  BY DEF RInv, ConnTypes, Ids, Nobody
<1>4. ~Alive(i)' /\ \A j \in Ids \ {i} : pc'[j] = pc[j] /\ Alive(j)' = Alive(j)
  BY <1>1, <1>3 DEF Alive
<1>5. Held'
  <2> SUFFICES ASSUME NEW a \in Addrs, NEW k \in Ids, registry'[a] = k PROVE Alive(k)' /\ From[k] = a
    BY DEF Held
  <2>1. a # From[i] /\ registry[a] = k
    BY <1>1, <1>3
  <2>2. Alive(k) /\ From[k] = a
    BY <2>1 DEF RInv, Held
  <2> QED BY <1>4, <2>1, <2>2
<1>6. Numbered'
  BY <1>1, <1>4, <1>3 DEF RInv, Numbered, Alive
<1>7. MetOlder'
  BY <1>1, <1>4 DEF RInv, MetOlder, Live
<1>8. ListedOrHidden'
  <2> SUFFICES ASSUME NEW k \in Ids, Alive(k)' PROVE registry'[From[k]] = k \/ Hidden(k)'
    BY DEF ListedOrHidden, Live
  <2>1. k \in Live /\ i \in Live /\ k # i /\ Hidden(k)' = Hidden(k)
    BY <1>1, <1>4 DEF Live, Hidden
  <2>2. CASE From[k] # From[i]
    <3>1. registry'[From[k]] = registry[From[k]]
      BY <1>1, <1>3, <2>2
    <3> QED BY <2>1, <3>1 DEF RInv, ListedOrHidden
  <2>3. CASE From[k] = From[i]
    <3>1. CASE i < k
      <4>1. k \in met
        BY <2>1, <2>3, <3>1 DEF RInv, MetOlder
      <4> QED BY <2>1, <4>1 DEF Hidden
    <3>2. CASE k < i
      <4>1. i \in met
        BY <2>1, <2>3, <3>2 DEF RInv, MetOlder
      <4> QED BY <2>1, <2>3, <3>2, <4>1 DEF Hidden
    <3> QED BY <1>3, <2>1, <3>1, <3>2
  <2> QED BY <2>2, <2>3
<1> QED BY <1>2, <1>5, <1>6, <1>7, <1>8 DEF RInv

LEMMA RegistryEnter ==
  ASSUME RInv, NEW i \in Ids, Alive(i), NEW place \in Places \ {"none", "ended"}, Enter(i, place)
  PROVE  RInv'
<1>1. UNCHANGED <<accepted, registry, met>> /\ pc' = [pc EXCEPT ![i] = place]
  BY DEF Enter, conns
<1>2. pc \in [Ids -> Places] /\ pc' \in [Ids -> Places]
  BY <1>1 DEF RInv, ConnTypes
<1>3. \A j \in Ids : Alive(j)' = Alive(j) /\ (pc'[j] = "none" <=> pc[j] = "none")
  BY <1>1, <1>2 DEF Alive
<1>4. ConnTypes' /\ registry \in [Addrs -> Ids \cup {Nobody}]
  BY <1>1, <1>2 DEF RInv, ConnTypes
<1>5. Held'
  BY <1>1, <1>3 DEF RInv, Held
<1>6. Numbered' /\ MetOlder' /\ ListedOrHidden'
  BY <1>1, <1>3 DEF RInv, Numbered, MetOlder, ListedOrHidden, Hidden, Live
<1> QED BY <1>4, <1>5, <1>6 DEF RInv

LEMMA RegistryStep == TypeOK /\ RInv /\ [Next]_vars => RInv'
<1> SUFFICES ASSUME TypeOK, RInv, [Next]_vars PROVE RInv'
  OBVIOUS
<1>1. CASE UNCHANGED <<pc, conns>>
  BY <1>1 DEF RInv, ConnTypes, Held, Numbered, MetOlder, ListedOrHidden, Hidden, Live, Alive, conns
<1>2. CASE UNCHANGED vars
  BY <1>1, <1>2 DEF vars
<1>3. CASE Accept
  BY <1>3, RegistryAccept
<1>4. ASSUME NEW i \in Ids, ConnStep(i) PROVE RInv'
  BY <1>1, <1>4, Moves, RegistryEnd, RegistryEnter
<1> QED BY <1>2, <1>3, <1>4 DEF Next, ConnStep

LEMMA RegistryInit == Init => RInv
<1> SUFFICES ASSUME Init PROVE RInv
  OBVIOUS
<1>1. Live = {} /\ \A i \in Ids : pc[i] = "none"
  BY DEF Init, Live, Alive
<1>2. ConnTypes
  BY TypesInit, TypesInParts
<1> QED BY <1>1, <1>2 DEF Init, RInv, Held, Numbered, MetOlder, ListedOrHidden, Ids, Nobody

(***************************************************************************)
(* However a task ends, its entry goes with it, and nobody whose task has  *)
(* ended is listed by CLIENT LIST (server.rs 38-53, 1758-1772).            *)
(***************************************************************************)
THEOREM OnlyTheLivingListed == Spec => []NoGhosts
<1>1. RInv => NoGhosts
  <2> SUFFICES ASSUME RInv, NEW a \in Addrs, registry[a] # Nobody PROVE registry[a] \in Live
    BY DEF NoGhosts, Listed
  <2>1. PICK i \in Ids : registry[a] = i
    BY DEF RInv, ConnTypes
  <2> QED BY <2>1 DEF RInv, Held, Live
<1> QED BY <1>1, TypesInit, TypesStep, RegistryInit, RegistryStep, PTL DEF Spec

(***************************************************************************)
(* Whoever lives and is not listed has, or had, an address in common with  *)
(* a connection that lived at the same time.                               *)
(***************************************************************************)
THEOREM HiddenByReuse == Spec => []OnlyReuseHides
<1>1. RInv => OnlyReuseHides
  <2> SUFFICES ASSUME RInv, NEW i \in Live \ Listed PROVE Hidden(i)
    BY DEF OnlyReuseHides, Hidden
  <2>1. registry[From[i]] # i
    BY DEF Listed, Live, Nobody, Ids
  <2> QED BY <2>1 DEF RInv, ListedOrHidden
<1> QED BY <1>1, TypesInit, TypesStep, RegistryInit, RegistryStep, PTL DEF Spec

-----------------------------------------------------------------------------
(* MONITOR.  A receiver stands behind what has been written of the feed,   *)
(* the message in hand apart; before there is one, nothing is written.     *)

Before == {"none", "read", "gate", "write", "hello", "join"}

Follows(i) ==
  /\ pc[i] \in Before => transcript[i] = <<>>
  /\ pc[i] = "tail" => next[i] = joined[i] + Len(transcript[i])
  /\ pc[i] = "push" => next[i] = joined[i] + Len(transcript[i]) + 1
  /\ transcript[i] = [k \in DOMAIN transcript[i] |-> joined[i] + k]

TInv == ConnTypes /\ MonitorTypes /\ \A i \in Ids : Follows(i)

LEMMA FollowsStill ==
  ASSUME NEW i \in Ids, Follows(i),
         pc'[i] = pc[i] \/ pc'[i] = "ended" \/ (pc[i] \in Before /\ pc'[i] \in Before),
         next'[i] = next[i], joined'[i] = joined[i], transcript'[i] = transcript[i]
  PROVE  Follows(i)'
  BY DEF Follows, Before

LEMMA FollowsAccept ==
  ASSUME TypeOK, RInv, TInv, Accept, NEW j \in Ids PROVE Follows(j)'
<1>0. accepted + 1 \in Ids
  BY DEF Accept, TypeOK, Ids
<1>1. PICK i \in Ids : i = accepted + 1 /\ pc' = [pc EXCEPT ![i] = "read"]
  BY <1>0 DEF Accept, Goto
<1>2. pc[i] = "none" /\ pc \in [Ids -> Places]
  BY <1>1 DEF RInv, Numbered, TInv, ConnTypes, Ids
<1>3. pc'[j] = pc[j] \/ (pc[j] \in Before /\ pc'[j] \in Before)
  BY <1>1, <1>2 DEF Before
<1>4. UNCHANGED <<next, joined, transcript>>
  BY DEF Accept, monitor
<1> QED BY <1>3, <1>4, FollowsStill DEF TInv

LEMMA FollowsOthers ==
  ASSUME TInv, NEW i \in Ids, ConnStep(i), NEW j \in Ids \ {i} PROVE Follows(j)'
<1>1. pc'[j] = pc[j]
  <2>1. pc' = pc \/ \E place \in Places : pc' = [pc EXCEPT ![i] = place]
    BY Moves DEF End, Enter, Goto, Places
  <2> QED BY <2>1 DEF TInv, ConnTypes
<1>2. next'[j] = next[j] /\ joined'[j] = joined[j] /\ transcript'[j] = transcript[j]
  <2>1. CASE UNCHANGED <<next, joined, transcript>>
    BY <2>1
  <2>2. CASE Join(i) \/ Relay(i) \/ Push(i)
    BY <2>2 DEF TInv, MonitorTypes, Join, Relay, Push
  <2> QED BY <2>1, <2>2
          DEF ConnStep, TaskStep, Goes, Hangup, Receive, Gate, Run, RunMute, RunFatal, Respond,
              Greet, Lag, WriteFails, Read, Leave, End, monitor
<1> QED BY <1>1, <1>2, FollowsStill DEF TInv

LEMMA Longer ==
  ASSUME NEW s \in Seq(Nat), NEW n \in Nat, s = [k \in DOMAIN s |-> n + k]
  PROVE  LET t == Append(s, n + Len(s) + 1)
         IN  Len(t) = Len(s) + 1 /\ t = [k \in DOMAIN t |-> n + k]
<1> DEFINE t == Append(s, n + Len(s) + 1)
<1>1. /\ Len(s) \in Nat /\ DOMAIN s = 1 .. Len(s)
      /\ t \in Seq(Nat) /\ Len(t) = Len(s) + 1 /\ DOMAIN t = 1 .. Len(s) + 1
  OBVIOUS
<1>2. ASSUME NEW k \in DOMAIN t PROVE t[k] = n + k
  BY <1>1, <1>2
<1>3. t = [k \in DOMAIN t |-> t[k]]
  BY <1>1
<1> QED BY <1>1, <1>2, <1>3

LEMMA FollowsOwn ==
  ASSUME TInv, NEW i \in Ids, ConnStep(i) PROVE Follows(i)'
<1>0. /\ Follows(i) /\ pc \in [Ids -> Places] /\ next[i] \in Nat /\ joined[i] \in Nat /\ feed \in Nat
      /\ transcript[i] \in Seq(Nat) /\ Len(transcript[i]) \in Nat
      /\ next \in [Ids -> Nat] /\ joined \in [Ids -> Nat] /\ transcript \in [Ids -> Seq(Nat)]
  BY DEF TInv, ConnTypes, MonitorTypes
<1>1. ASSUME pc'[i] = pc[i] \/ pc'[i] = "ended" \/ (pc[i] \in Before /\ pc'[i] \in Before),
             UNCHANGED <<next, joined, transcript>>
      PROVE  Follows(i)'
  BY <1>0, <1>1, FollowsStill
<1>2. ASSUME NEW kind \in Kinds, Receive(i, kind) PROVE Follows(i)'
  BY <1>0, <1>1, <1>2 DEF Receive, Goto, Before
<1>3. CASE Gate(i) \/ Run(i)
  BY <1>0, <1>1, <1>3 DEF Gate, Run, Goto, Before, monitor
<1>4. CASE RunMute(i) \/ Respond(i) \/ Greet(i)
  BY <1>0, <1>1, <1>4 DEF RunMute, Respond, Greet, Goto, Before, monitor
<1>5. CASE End(i)
  BY <1>0, <1>1, <1>5 DEF End, Goto, monitor
<1>6. CASE Read(i) \/ Leave(i)
  BY <1>0, <1>1, <1>6 DEF Read, Leave, monitor
<1>7. CASE Join(i)
  <2>1. /\ pc[i] = "join" /\ pc'[i] = "tail" /\ next'[i] = feed /\ joined'[i] = feed
        /\ transcript' = transcript /\ transcript[i] = <<>>
    BY <1>0, <1>7 DEF Join, Goto, Follows, Before
  <2>2. transcript'[i] = [k \in DOMAIN transcript'[i] |-> joined'[i] + k]
    BY <2>1
  <2> QED BY <1>0, <2>1, <2>2 DEF Follows, Before
<1>8. CASE Relay(i)
  <2>1. /\ pc[i] = "tail" /\ pc'[i] = "push" /\ next'[i] = next[i] + 1
        /\ joined' = joined /\ transcript' = transcript
    BY <1>0, <1>8 DEF Relay, Goto
  <2> QED BY <1>0, <2>1 DEF Follows, Before
<1>9. CASE Push(i)
  <2>1. /\ pc[i] = "push" /\ pc'[i] = "tail" /\ next' = next /\ joined' = joined
        /\ transcript'[i] = Append(transcript[i], next[i])
    BY <1>0, <1>9 DEF Push, Goto
  <2>2. next[i] = joined[i] + Len(transcript[i]) + 1
    BY <1>0, <2>1 DEF Follows
  <2>3. /\ Len(transcript'[i]) = Len(transcript[i]) + 1
        /\ transcript'[i] = [k \in DOMAIN transcript'[i] |-> joined[i] + k]
    <3>1. PICK s \in Seq(Nat), n \in Nat :
                /\ s = transcript[i] /\ n = joined[i] /\ s = [k \in DOMAIN s |-> n + k]
      BY <1>0 DEF Follows
    <3>2. PICK t : t = Append(s, n + Len(s) + 1)
      OBVIOUS
    <3>3. Len(t) = Len(s) + 1 /\ t = [k \in DOMAIN t |-> n + k]
      BY <3>1, <3>2, Longer
    <3>4. transcript'[i] = t
      BY <2>1, <2>2, <3>1, <3>2
    <3> QED BY <3>1, <3>3, <3>4
  <2> QED BY <1>0, <2>1, <2>2, <2>3 DEF Follows, Before
<1> QED BY <1>2, <1>3, <1>4, <1>5, <1>6, <1>7, <1>8, <1>9
        DEF ConnStep, TaskStep, Goes, Hangup, RunFatal, Lag, WriteFails

LEMMA TranscriptStep == TypeOK /\ RInv /\ TInv /\ [Next]_vars => TInv'
<1> SUFFICES ASSUME TypeOK, RInv, TInv, [Next]_vars PROVE TInv'
  OBVIOUS
<1>1. ConnTypes' /\ MonitorTypes'
  BY TypesStep DEF TypeOK, ConnTypes, MonitorTypes
<1>2. CASE UNCHANGED vars
  BY <1>1, <1>2, FollowsStill DEF vars, monitor, TInv
<1>3. CASE Accept
  BY <1>1, <1>3, FollowsAccept DEF TInv
<1>4. ASSUME NEW i \in Ids, ConnStep(i), NEW j \in Ids PROVE Follows(j)'
  BY <1>4, FollowsOwn, FollowsOthers
<1> QED BY <1>1, <1>2, <1>3, <1>4 DEF Next, ConnStep, TInv

LEMMA TranscriptInit == Init => TInv
<1> SUFFICES ASSUME Init PROVE TInv
  OBVIOUS
<1>1. ConnTypes /\ MonitorTypes
  BY TypesInit, TypesInParts
<1>2. \A i \in Ids : pc[i] = "none" /\ transcript[i] = <<>>
  BY DEF Init
<1>3. \A n \in Nat : <<>> = [k \in DOMAIN <<>> |-> n + k]
  OBVIOUS
<1> QED BY <1>1, <1>2, <1>3 DEF TInv, MonitorTypes, Follows

(***************************************************************************)
(* For any capacity of the broadcast, a MONITOR's client is sent all that  *)
(* is broadcast since it joined, up to some point, and nothing else.       *)
(***************************************************************************)
THEOREM NoHoles == Spec => []TranscriptWhole
<1>1. TInv => TranscriptWhole
  BY DEF TInv, Follows, TranscriptWhole
<1> QED BY <1>1, TypesInit, TypesStep, RegistryInit, RegistryStep, TranscriptInit, TranscriptStep,
           PTL DEF Spec

-----------------------------------------------------------------------------
(* The replies.  A client's commands are a, what it has been told is r.    *)

Known(a, n) == ~RequirePass \/ \E m \in 1 .. n : a[m] = "right"
Mute(a, n)  == a[n] = "mute" /\ Known(a, n)
ReplyTo(a, n) == <<n, IF Known(a, n) THEN "done" ELSE "refused">>
Due(a, m)   == {n \in 1 .. m : ~Mute(a, n)}

\* r answers those of the first m commands of a that get an answer
Answers(r, a, m) ==
  /\ {r[k] : k \in DOMAIN r} = {ReplyTo(a, n) : n \in Due(a, m)}
  /\ \A k, l \in DOMAIN r : k < l => r[k][1] < r[l][1]

LEMMA AnotherAsked ==
  ASSUME NEW a \in Seq(Kinds), NEW kind \in Kinds, NEW m \in 0 .. Len(a)
  PROVE  /\ Known(Append(a, kind), m) <=> Known(a, m)
         /\ \A r : Answers(r, a, m) => Answers(r, Append(a, kind), m)
<1> DEFINE b == Append(a, kind)
<1>1. \A n \in 1 .. m : b[n] = a[n]
  OBVIOUS
<1> HIDE DEF b
<1>2. \A n \in 0 .. m : Known(b, n) <=> Known(a, n)
  BY <1>1 DEF Known
<1>3. \A n \in 1 .. m : (Mute(b, n) <=> Mute(a, n)) /\ ReplyTo(b, n) = ReplyTo(a, n)
  BY <1>1, <1>2 DEF Mute, ReplyTo
<1>4. Due(b, m) = Due(a, m) /\ Due(a, m) \subseteq 1 .. m
  BY <1>3 DEF Due
<1>5. {ReplyTo(b, n) : n \in Due(b, m)} = {ReplyTo(a, n) : n \in Due(a, m)}
  BY <1>3, <1>4
<1>6. \A r : Answers(r, a, m) => Answers(r, b, m)
  BY <1>5 DEF Answers
<1>7. Known(b, m) <=> Known(a, m)
  BY <1>2
<1> QED BY <1>6, <1>7 DEF b

LEMMA AnotherAnswer ==
  ASSUME NEW r \in Seq(Nat \X Verdicts), NEW a, NEW m \in Nat, Answers(r, a, m)
  PROVE  /\ Mute(a, m + 1) => Answers(r, a, m + 1)
         /\ ~Mute(a, m + 1) => Answers(Append(r, ReplyTo(a, m + 1)), a, m + 1)
<1>1. Due(a, m + 1) = IF Mute(a, m + 1) THEN Due(a, m) ELSE Due(a, m) \cup {m + 1}
  BY DEF Due
<1>2. CASE Mute(a, m + 1)
  BY <1>1, <1>2 DEF Answers
<1>3. CASE ~Mute(a, m + 1)
  <2> DEFINE x == ReplyTo(a, m + 1)
             s == Append(r, x)
  <2>1. /\ Len(r) \in Nat /\ DOMAIN r = 1 .. Len(r) /\ DOMAIN s = 1 .. Len(r) + 1
        /\ \A k \in DOMAIN r : s[k] = r[k]
        /\ s[Len(r) + 1] = x
    OBVIOUS
  <2>2. x[1] = m + 1
    BY DEF ReplyTo
  <2>3. \A k \in DOMAIN r : r[k][1] \in 1 .. m
    <3>1. \A k \in DOMAIN r : \E n \in 1 .. m : r[k] = ReplyTo(a, n)
      BY DEF Answers, Due
    <3> QED BY <3>1 DEF ReplyTo
  <2> HIDE DEF s, x
  <2>4. {s[k] : k \in DOMAIN s} = {r[k] : k \in DOMAIN r} \cup {x}
    <3>1. ASSUME NEW k \in DOMAIN s PROVE s[k] \in {r[l] : l \in DOMAIN r} \cup {x}
      <4>1. k \in DOMAIN r \/ k = Len(r) + 1
        BY <2>1
      <4> QED BY <2>1, <4>1
    <3>2. ASSUME NEW k \in DOMAIN r PROVE r[k] \in {s[l] : l \in DOMAIN s}
      <4>1. k \in DOMAIN s /\ s[k] = r[k]
        BY <2>1
      <4> QED BY <4>1
    <3>3. x \in {s[l] : l \in DOMAIN s}
      <4>1. Len(r) + 1 \in DOMAIN s
        BY <2>1
      <4> QED BY <2>1, <4>1
    <3> QED BY <3>1, <3>2, <3>3
  <2>5. {ReplyTo(a, n) : n \in Due(a, m + 1)} = {ReplyTo(a, n) : n \in Due(a, m)} \cup {x}
    BY <1>1, <1>3 DEF x
  <2>6. ASSUME NEW k \in DOMAIN s, NEW l \in DOMAIN s, k < l PROVE s[k][1] < s[l][1]
    <3>1. k \in DOMAIN r /\ s[k] = r[k] /\ r[k][1] \in 1 .. m
      BY <2>1, <2>3, <2>6
    <3>2. CASE l \in DOMAIN r
      BY <2>1, <2>6, <3>1, <3>2 DEF Answers
    <3>3. CASE l \notin DOMAIN r
      <4>1. s[l][1] = m + 1
        BY <2>1, <2>2, <3>3
      <4> QED BY <3>1, <4>1
    <3> QED BY <3>2, <3>3
  <2>7. {s[k] : k \in DOMAIN s} = {ReplyTo(a, n) : n \in Due(a, m + 1)}
    BY <2>4, <2>5 DEF Answers
  <2> QED BY <1>3, <2>6, <2>7 DEF Answers, s, x
<1> QED BY <1>2, <1>3

(***************************************************************************)
(* What a task is at: the command it has read is not answered yet, or its  *)
(* answer is in the buffer, and the state of the connection is what its    *)
(* commands so far have made of it.                                        *)
(***************************************************************************)
Busy == {"write", "hello"}

Faithful(i) ==
  pc[i] # "ended" =>
    LET a == asked[i]
        n == Number(i)
        m == IF pc[i] \in {"gate"} \cup Busy THEN n - 1 ELSE n
    IN /\ pc[i] \in {"gate"} \cup Busy => n # 0
       /\ proven[i] <=> Known(a, IF pc[i] = "gate" THEN n - 1 ELSE n)
       /\ pc[i] \in Busy => ~Mute(a, n)
       /\ buffer[i] = IF pc[i] \in Busy THEN <<ReplyTo(a, n)>> ELSE <<>>
       /\ Answers(replies[i], a, m)

AInv == ConnTypes /\ TalkTypes /\ \A i \in Ids : Faithful(i)

LEMMA FaithfulStill ==
  ASSUME NEW i \in Ids, Faithful(i),
         \/ pc'[i] = pc[i] \/ pc'[i] = "ended"
         \/ pc[i] # "ended" /\ {pc[i], pc'[i]} \cap ({"gate"} \cup Busy) = {},
         asked'[i] = asked[i], proven'[i] = proven[i], buffer'[i] = buffer[i],
         replies'[i] = replies[i]
  PROVE  Faithful(i)'
  BY DEF Faithful, Number, Busy

LEMMA FaithfulAccept ==
  ASSUME TypeOK, RInv, AInv, Accept, NEW j \in Ids PROVE Faithful(j)'
<1>0. accepted + 1 \in Ids
  BY DEF Accept, TypeOK, Ids
<1>1. PICK i \in Ids : i = accepted + 1 /\ pc' = [pc EXCEPT ![i] = "read"]
  BY <1>0 DEF Accept, Goto
<1>2. pc[i] = "none" /\ pc \in [Ids -> Places]
  BY <1>1 DEF RInv, Numbered, AInv, ConnTypes, Ids
<1>3. pc'[j] = pc[j] \/ (pc[j] # "ended" /\ {pc[j], pc'[j]} \cap ({"gate"} \cup Busy) = {})
  BY <1>1, <1>2 DEF Busy
<1>4. UNCHANGED <<asked, proven, buffer, replies>>
  BY DEF Accept, talk
<1> QED BY <1>3, <1>4, FaithfulStill DEF AInv

LEMMA FaithfulOthers ==
  ASSUME AInv, NEW i \in Ids, ConnStep(i), NEW j \in Ids \ {i} PROVE Faithful(j)'
<1>1. pc'[j] = pc[j]
  <2>1. pc' = pc \/ \E place \in Places : pc' = [pc EXCEPT ![i] = place]
    BY Moves DEF End, Enter, Goto, Places
  <2> QED BY <2>1 DEF AInv, ConnTypes
<1>2. asked'[j] = asked[j] /\ proven'[j] = proven[j] /\ buffer'[j] = buffer[j]
      /\ replies'[j] = replies[j]
  <2>1. CASE UNCHANGED <<asked, proven, buffer, replies>>
    BY <2>1
  <2>2. CASE Gate(i) \/ Run(i) \/ Respond(i) \/ Greet(i)
    BY <2>2 DEF AInv, TalkTypes, Gate, Run, Respond, Greet, Buffered
  <2>3. ASSUME NEW kind \in Kinds, Receive(i, kind)
        PROVE  /\ asked'[j] = asked[j] /\ proven'[j] = proven[j] /\ buffer'[j] = buffer[j]
               /\ replies'[j] = replies[j]
    BY <2>3 DEF AInv, TalkTypes, Receive
  <2> QED BY <2>1, <2>2, <2>3
          DEF ConnStep, TaskStep, Goes, Hangup, RunMute, RunFatal, Join, Relay, Push, Lag,
              WriteFails, Read, Leave, End, talk
<1> QED BY <1>1, <1>2, FaithfulStill DEF AInv

LEMMA FaithfulOwn ==
  ASSUME AInv, NEW i \in Ids, ConnStep(i) PROVE Faithful(i)'
<1> DEFINE a == asked[i]
           r == replies[i]
           n == Number(i)
<1>0. /\ Faithful(i) /\ pc \in [Ids -> Places] /\ proven \in [Ids -> BOOLEAN]
      /\ a \in Seq(Kinds) /\ r \in Seq(Nat \X Verdicts) /\ n = Len(a) /\ n \in Nat
      /\ DOMAIN asked = Ids /\ DOMAIN buffer = Ids /\ DOMAIN replies = Ids
  BY DEF AInv, ConnTypes, TalkTypes, Number
<1>1. ASSUME pc'[i] = pc[i] \/ pc'[i] = "ended"
               \/ (pc[i] # "ended" /\ {pc[i], pc'[i]} \cap ({"gate"} \cup Busy) = {}),
             UNCHANGED <<asked, proven, buffer, replies>>
      PROVE  Faithful(i)'
  BY <1>0, <1>1, FaithfulStill
<1>2. ASSUME NEW kind \in Kinds, Receive(i, kind) PROVE Faithful(i)'
  <2> DEFINE b == Append(a, kind)
  <2>1. /\ pc[i] = "read" /\ pc'[i] = "gate" /\ asked'[i] = b
        /\ UNCHANGED <<proven, buffer, replies>>
    BY <1>0, <1>2 DEF Receive, Goto
  <2>2. /\ proven[i] <=> Known(a, n)
        /\ buffer[i] = <<>> /\ Answers(r, a, n)
    BY <1>0, <2>1 DEF Faithful, Busy
  <2>3. Len(b) = n + 1 /\ n \in 0 .. Len(a)
    BY <1>0
  <2>4. (Known(b, n) <=> Known(a, n)) /\ Answers(r, b, n)
    BY <1>0, <2>2, <2>3, AnotherAsked
  <2>5. Number(i)' = n + 1 /\ n + 1 # 0 /\ n + 1 - 1 = n
    BY <1>0, <2>1, <2>3 DEF Number
  <2>6. replies'[i] = r /\ buffer'[i] = <<>> /\ proven'[i] = proven[i] /\ pc'[i] = "gate"
        /\ asked'[i] = b
    BY <2>1, <2>2
  <2>7. proven'[i] <=> Known(b, n)
    BY <2>2, <2>4, <2>6
  <2>8. Number(i)' # 0 /\ Number(i)' - 1 = n /\ pc'[i] \notin Busy
    <3>1. pc'[i] \notin Busy
      BY <2>6 DEF Busy
    <3>2. Number(i)' # 0 /\ Number(i)' - 1 = n
      BY <1>0, <2>1, <2>3 DEF Number
    <3> QED BY <3>1, <3>2
  <2>9. Answers(replies'[i], asked'[i], Number(i)' - 1)
    BY <2>4, <2>6, <2>8
  <2>10. proven'[i] <=> Known(asked'[i], Number(i)' - 1)
    BY <2>6, <2>7, <2>8
  <2> HIDE DEF a, r, n, b
  <2> QED BY <2>6, <2>8, <2>9, <2>10 DEF Faithful
<1>3. CASE Gate(i) \/ Run(i)
  <2>1. /\ pc[i] = "gate" /\ pc'[i] \in Busy /\ UNCHANGED <<asked, replies>>
        /\ a[n] = Kind(i)
    BY <1>0, <1>3 DEF Gate, Run, Goto, Busy, Kind
  <2>2. /\ n # 0 /\ (proven[i] <=> Known(a, n - 1)) /\ buffer[i] = <<>>
        /\ Answers(r, a, n - 1)
    BY <1>0, <2>1 DEF Faithful, Busy
  <2>3. Known(a, n) <=> Known(a, n - 1) \/ a[n] = "right"
    <3>1. 1 .. n = 1 .. (n - 1) \cup {n}
      BY <1>0, <2>2
    <3> HIDE DEF a, r, n
    <3> QED BY <3>1 DEF Known
  <2>4. CASE Gate(i)
    <3>1. /\ ~proven[i] /\ proven'[i] = (a[n] = "right")
          /\ buffer'[i] = Append(<<>>, <<n, IF a[n] = "right" THEN "done" ELSE "refused">>)
      BY <1>0, <2>1, <2>2, <2>4 DEF Gate, Buffered
    <3>2. /\ Known(a, n) <=> a[n] = "right"
          /\ ~(Known(a, n) /\ a[n] = "mute")
      BY <2>2, <2>3, <3>1
    <3>3. pc'[i] # "gate" /\ asked'[i] = a /\ replies'[i] = r /\ Number(i)' = n
      BY <2>1 DEF Busy, Number
    <3> HIDE DEF a, r, n
    <3>4. buffer'[i] = <<ReplyTo(a, n)>>
      <4>1. CASE a[n] = "right"
        BY <3>1, <3>2, <4>1 DEF ReplyTo
      <4>2. CASE a[n] # "right"
        BY <3>1, <3>2, <4>2 DEF ReplyTo
      <4> QED BY <4>1, <4>2
    <3>5. proven'[i] <=> Known(a, n)
      BY <3>1, <3>2
    <3>6. ~Mute(a, n)
      BY <3>2 DEF Mute
    <3> QED BY <2>1, <2>2, <3>3, <3>4, <3>5, <3>6 DEF Faithful
  <2>5. CASE Run(i)
    <3>1. /\ proven[i] /\ proven' = proven /\ a[n] # "mute"
          /\ buffer'[i] = Append(<<>>, <<n, "done">>)
      BY <1>0, <2>1, <2>2, <2>5 DEF Run, Buffered
    <3>2. (proven'[i] <=> Known(a, n)) /\ ~Mute(a, n) /\ buffer'[i] = <<ReplyTo(a, n)>>
      BY <2>2, <2>3, <3>1 DEF Mute, ReplyTo
    <3>3. pc'[i] # "gate" /\ asked'[i] = a /\ replies'[i] = r /\ Number(i)' = n
      BY <2>1 DEF Busy, Number
    <3> HIDE DEF a, r, n
    <3> QED BY <2>1, <2>2, <3>2, <3>3 DEF Faithful
  <2> QED BY <1>3, <2>4, <2>5
<1>4. CASE RunMute(i)
  <2>1. /\ pc[i] = "gate" /\ pc'[i] = "read" /\ UNCHANGED <<asked, replies, proven, buffer>>
        /\ proven[i] /\ a[n] = "mute"
    BY <1>0, <1>4 DEF RunMute, Goto, Kind, talk
  <2>2. /\ n # 0 /\ (proven[i] <=> Known(a, n - 1)) /\ buffer[i] = <<>>
        /\ Answers(r, a, n - 1)
    BY <1>0, <2>1 DEF Faithful, Busy
  <2>3. Known(a, n)
    BY <1>0, <2>1, <2>2 DEF Known
  <2>4. Mute(a, n - 1 + 1) /\ n - 1 \in Nat /\ n - 1 + 1 = n
    BY <1>0, <2>1, <2>2, <2>3 DEF Mute
  <2>5. Answers(r, a, n)
    BY <1>0, <2>2, <2>4, AnotherAnswer
  <2>6. asked'[i] = a /\ replies'[i] = r /\ Number(i)' = n
    BY <2>1 DEF Number
  <2> HIDE DEF a, r, n
  <2> QED BY <2>1, <2>2, <2>3, <2>5, <2>6 DEF Faithful, Busy
<1>5. CASE Respond(i) \/ Greet(i)
  <2>1. /\ pc[i] \in Busy /\ pc'[i] \notin {"gate", "ended"} \cup Busy /\ UNCHANGED <<asked, proven>>
        /\ replies'[i] = r \o buffer[i] /\ buffer'[i] = <<>>
    BY <1>0, <1>5 DEF Respond, Greet, Goto, Busy
  <2>2. /\ n # 0 /\ (proven[i] <=> Known(a, n)) /\ buffer[i] = <<ReplyTo(a, n)>>
        /\ Answers(r, a, n - 1) /\ ~Mute(a, n)
    BY <1>0, <2>1 DEF Faithful, Busy
  <2>3. ~Mute(a, n - 1 + 1) /\ n - 1 \in Nat /\ n - 1 + 1 = n
    BY <1>0, <2>2
  <2>4. Answers(Append(r, ReplyTo(a, n)), a, n)
    BY <1>0, <2>2, <2>3, AnotherAnswer
  <2>5. ReplyTo(a, n) \in Nat \X Verdicts
    BY <1>0 DEF ReplyTo, Verdicts
  <2>6. replies'[i] = Append(r, ReplyTo(a, n))
    <3> DEFINE x == ReplyTo(a, n)
    <3> HIDE DEF x
    <3> QED BY <1>0, <2>1, <2>2, <2>5 DEF x
  <2>7. asked'[i] = a /\ Number(i)' = n
    BY <2>1 DEF Number
  <2> HIDE DEF a, r, n
  <2> QED BY <2>1, <2>2, <2>4, <2>6, <2>7 DEF Faithful, Busy
<1>6. CASE End(i)
  BY <1>0, <1>1, <1>6 DEF End, Goto, talk
<1>7. CASE Read(i) \/ Leave(i)
  BY <1>0, <1>1, <1>7 DEF Read, Leave, talk
<1>8. CASE Join(i) \/ Relay(i) \/ Push(i)
  BY <1>0, <1>1, <1>8 DEF Join, Relay, Push, Goto, Busy, talk
<1> QED BY <1>2, <1>3, <1>4, <1>5, <1>6, <1>7, <1>8
        DEF ConnStep, TaskStep, Goes, Hangup, RunFatal, Lag, WriteFails

LEMMA AnswersStep == TypeOK /\ RInv /\ AInv /\ [Next]_vars => AInv'
<1> SUFFICES ASSUME TypeOK, RInv, AInv, [Next]_vars PROVE AInv'
  OBVIOUS
<1>1. ConnTypes' /\ TalkTypes'
  BY TypesStep DEF TypeOK, ConnTypes, TalkTypes
<1>2. CASE UNCHANGED vars
  BY <1>1, <1>2, FaithfulStill DEF vars, talk, AInv
<1>3. CASE Accept
  BY <1>1, <1>3, FaithfulAccept DEF AInv
<1>4. ASSUME NEW i \in Ids, ConnStep(i), NEW j \in Ids PROVE Faithful(j)'
  BY <1>4, FaithfulOwn, FaithfulOthers
<1> QED BY <1>1, <1>2, <1>3, <1>4 DEF Next, ConnStep, AInv

LEMMA AnswersInit == Init => AInv
<1> SUFFICES ASSUME Init PROVE AInv
  OBVIOUS
<1>1. ConnTypes /\ TalkTypes
  BY TypesInit, TypesInParts
<1>2. ASSUME NEW i \in Ids PROVE Faithful(i)
  <2>1. /\ pc[i] = "none" /\ asked[i] = <<>> /\ proven[i] = ~RequirePass /\ buffer[i] = <<>>
        /\ replies[i] = <<>> /\ Number(i) = 0
    BY DEF Init, Number
  <2>2. \A a : Known(a, 0) <=> ~RequirePass
    BY DEF Known
  <2>3. \A a : Answers(<<>>, a, 0)
    BY DEF Answers, Due
  <2> QED BY <2>1, <2>2, <2>3 DEF Faithful, Busy
<1> QED BY <1>1, <1>2 DEF AInv

(***************************************************************************)
(* Whatever a client sends ahead, it is told of each of its commands once  *)
(* and in order, the mute ones apart, and a command is run only when the   *)
(* right password came on this connection before it.                       *)
(***************************************************************************)
THEOREM RepliesInOrder == Spec => []AnswersInOrder
<1>1. AInv => AnswersInOrder
  <2> SUFFICES ASSUME AInv, NEW i \in Ids, pc[i] # "ended"
               PROVE  /\ {replies[i][k] : k \in DOMAIN replies[i]}
                           = {Reply(i, n) : n \in {n \in 1 .. Answered(i) : ~IsMute(i, n)}}
                      /\ \A k, l \in DOMAIN replies[i] : k < l => replies[i][k][1] < replies[i][l][1]
    BY DEF AnswersInOrder
  <2>1. Answers(replies[i], asked[i], Answered(i))
    BY DEF AInv, Faithful, Answered, Number, Busy
  <2>2. \A n : Reply(i, n) = ReplyTo(asked[i], n) /\ (IsMute(i, n) <=> Mute(asked[i], n))
    BY DEF Reply, ReplyTo, IsMute, Mute, KnownBy, Known
  <2> QED BY <2>1, <2>2 DEF Answers, Due
<1> QED BY <1>1, TypesInit, TypesStep, RegistryInit, RegistryStep, AnswersInit, AnswersStep,
           PTL DEF Spec
=============================================================================
