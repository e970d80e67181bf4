-------------------------------- MODULE Feed --------------------------------
(***************************************************************************)
(* What PUBLISH and SUBSCRIBE promise.  A message goes to the clients that *)
(* are members of its channel; a member hears what is posted after it      *)
(* joined, in order and never twice, and misses a message only when        *)
(* Capacity newer ones have been posted before it came to hear it.         *)
(***************************************************************************)
EXTENDS Integers, Sequences

CONSTANTS Clients, Channels, Capacity, NoChannel

VARIABLES
  posted,   \* how many messages each channel has had
  member,   \* the channel each client is a member of, or NoChannel
  joined,   \* how many messages it had had by then
  heard     \* the messages a member has heard, by number

vars == <<posted, member, joined, heard>>

Init ==
  /\ posted = [ch \in Channels |-> 0]
  /\ member = [c \in Clients |-> NoChannel]
  /\ joined = [c \in Clients |-> 0]
  /\ heard = [c \in Clients |-> <<>>]

Post(ch) ==
  /\ \E c \in Clients : member[c] = ch
  /\ posted' = [posted EXCEPT ![ch] = @ + 1]
  /\ UNCHANGED <<member, joined, heard>>

Join(c, ch) ==
  /\ member[c] = NoChannel
  /\ member' = [member EXCEPT ![c] = ch]
  /\ joined' = [joined EXCEPT ![c] = posted[ch]]
  /\ heard' = [heard EXCEPT ![c] = <<>>]
  /\ UNCHANGED posted

\* the last message a member has heard, or the last before it joined
Latest(c) == IF heard[c] = <<>> THEN joined[c] ELSE heard[c][Len(heard[c])]

Hear(c) ==
  /\ member[c] # NoChannel
  /\ \E n \in Latest(c) + 1 .. posted[member[c]] :
       /\ \A m \in Latest(c) + 1 .. n - 1 : m + Capacity <= posted[member[c]]
       /\ heard' = [heard EXCEPT ![c] = Append(@, n)]
  /\ UNCHANGED <<posted, member, joined>>

Quit(c) ==
  /\ member[c] # NoChannel
  /\ member' = [member EXCEPT ![c] = NoChannel]
  /\ joined' = [joined EXCEPT ![c] = 0]
  /\ heard' = [heard EXCEPT ![c] = <<>>]
  /\ UNCHANGED posted

Next ==
  \/ \E ch \in Channels : Post(ch)
  \/ \E c \in Clients : Hear(c) \/ Quit(c) \/ \E ch \in Channels : Join(c, ch)

Spec == Init /\ [][Next]_vars
=============================================================================
