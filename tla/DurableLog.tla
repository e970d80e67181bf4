----------------------------- MODULE DurableLog -----------------------------
(***************************************************************************)
(* What an append-only file with a buffered writer promises.  Lines join   *)
(* the end of one log, in one order; a part of it that only grows is       *)
(* stable; a crash cuts the log somewhere past the stable part.  Nothing   *)
(* is ever lost from the middle, reordered or written twice.               *)
(***************************************************************************)
EXTENDS Naturals, Sequences, SequencesExt

VARIABLES
  log,     \* every line accepted and not lost, oldest first
  stable   \* how many of them no crash can take

vars == <<log, stable>>

Init == log = <<>> /\ stable = 0

\* a line is accepted
Accept ==
  /\ Len(log') = Len(log) + 1 /\ IsPrefix(log, log')
  /\ UNCHANGED stable

\* accepted lines become stable, oldest first
Harden ==
  /\ stable' \in stable + 1 .. Len(log)
  /\ UNCHANGED log

\* the lines after some point are lost; what is left is stable
Lose ==
  /\ stable' \in stable .. Len(log)
  /\ log' = SubSeq(log, 1, stable')

Next == Accept \/ Harden \/ Lose

Spec == Init /\ [][Next]_vars
=============================================================================
