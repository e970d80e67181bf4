----------------------------- MODULE MCLogBytes -----------------------------
(* Records for LogBytes, in short words: INCR k, LPUSH k "v" with a blank or *)
(* a letter of two bytes in v, and with values that cannot be read back.     *)
EXTENDS LogBytes

Incr  == [words |-> <<<<"I">>, <<"k">>>>, quoted |-> {}]
Push(val) == [words |-> <<<<"L">>, <<"k">>, val>>, quoted |-> {3}]

MCRecords == {Incr, Push(<<"a", Blank, "b">>), Push(<<Lead, Rest>>),
              Push(<<"a", LineEnd>>), Push(<<Quote>>)}
=============================================================================
