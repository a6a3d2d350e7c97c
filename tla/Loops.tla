-------------------------------- MODULE Loops --------------------------------
(***************************************************************************)
(* Loops as functions: what the variables of a loop are after each of its  *)
(* n iterations, if they are `start' before it and iteration k turns s     *)
(* into Body[k][s]; and the numbers that loops over digits compute.        *)
(***************************************************************************)
EXTENDS Integers, Sequences

After(n, start, Body) ==
  LET State[k \in 0 .. n] == IF k = 0 THEN start ELSE Body[k][State[k - 1]]
  IN  State

Power(base, n) ==
  After(n, 1, [k \in 1 .. n |-> [power \in Nat |-> base * power]])[n]

Value(base, digits) ==
  LET n == Len(digits)
      Add == [k \in 1 .. n |-> [value \in Nat |-> base * value + digits[k]]]
  IN  After(n, 0, Add)[n]
=============================================================================
