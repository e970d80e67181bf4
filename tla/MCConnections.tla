---------------------------- MODULE MCConnections ----------------------------
(* Who comes from where and says what in the run of Connections. *)
EXTENDS Connections

CONSTANTS a, b

\* the third connection takes the address of the first
MCFrom == <<a, b, a>>

\* two clients that ask for MONITOR, and one that goes through the other kinds
MCSays == <<
  {<<"right", "monitor">>},
  {<<"right", "mute", "plain">>, <<"wrong", "broken">>, <<"right", "fatal">>,
   <<"right", "quiet">>},
  {<<"right", "monitor">>}>>
=============================================================================
