------------------------------ MODULE AppendLog ------------------------------
(***************************************************************************)
(* What the lock-free list of 2sem/inf17/inf17-2 promises to a reader who  *)
(* knows nothing of pointers: a log that only grows at its end, to which   *)
(* every producer contributes its entries 0, 1, ..., PerProducer - 1 in    *)
(* that order and each exactly once, and which is emitted front to back    *)
(* once it is complete.                                                    *)
(***************************************************************************)
EXTENDS Naturals, Sequences, FiniteSets

CONSTANTS
  Producer,     \* the set of producers
  PerProducer   \* how many entries each of them contributes

VARIABLES
  log,  \* the entries <<producer, number>> appended so far, oldest first
  out   \* the entries emitted so far

vars == <<log, out>>

Contributed(p) == Cardinality({j \in DOMAIN log : log[j][1] = p})

Complete == \A p \in Producer : Contributed(p) = PerProducer

Init ==
  /\ log = <<>>
  /\ out = <<>>

Contribute(p) ==
  /\ Contributed(p) < PerProducer
  /\ log' = Append(log, <<p, Contributed(p)>>)
  /\ UNCHANGED out

Emit ==
  /\ Complete
  /\ Len(out) < Len(log)
  /\ out' = Append(out, log[Len(out) + 1])
  /\ UNCHANGED log

Next == (\E p \in Producer : Contribute(p)) \/ Emit

(***************************************************************************)
(* The log is eventually complete and eventually emitted; no producer is   *)
(* promised its turn before another (the list is lock-free, not            *)
(* wait-free).                                                             *)
(***************************************************************************)
Spec == Init /\ [][Next]_vars /\ WF_vars(Next)
=============================================================================
