----------------------------- MODULE ParallelSum -----------------------------
(***************************************************************************)
(* 2sem/inf16/inf16-1: each thread reads numbers from the common standard  *)
(* input into a sum of its own; main joins them one by one and adds up.    *)
(* scanf locks the stream, so that one call is one step.                   *)
(***************************************************************************)
EXTENDS Integers, Sequences

CONSTANTS
  THREADS_NUM,
  Inputs,     \* sequences of tokens: <<n>> is a number, <<>> is none
  Modulus     \* int wraps around at it

Thread == 0 .. THREADS_NUM - 1

VARIABLES
  given, input,    \* the whole input, and what is left of it
  at, tmp, sum,    \* of each thread
  i, global_sum    \* of main

vars == <<given, input, at, tmp, sum, i, global_sum>>

(* tmp is not initialised.                                                 *)
Init ==
  /\ given \in Inputs /\ input = given
  /\ at = [t \in Thread |-> "create"] /\ tmp \in [Thread -> {0, 1}]
  /\ sum = [t \in Thread |-> 0]
  /\ i = 0 /\ global_sum = 0

Create(t) ==
  /\ at[t] = "create" /\ \A u \in Thread : u < t => at[u] # "create"
  /\ at' = [at EXCEPT ![t] = "scan"]
  /\ UNCHANGED <<given, input, tmp, sum, i, global_sum>>

Scan(t) ==
  /\ at[t] = "scan" /\ input # <<>> /\ Head(input) # <<>>
  /\ tmp' = [tmp EXCEPT ![t] = Head(input)[1]]
  /\ input' = Tail(input)
  /\ at' = [at EXCEPT ![t] = "add"]
  /\ UNCHANGED <<given, sum, i, global_sum>>

(* What is not a number stays in the input, and 0 is not EOF.              *)
ScanFails(t) ==
  /\ at[t] = "scan" /\ input # <<>> /\ Head(input) = <<>>
  /\ at' = [at EXCEPT ![t] = "add"]
  /\ UNCHANGED <<given, input, tmp, sum, i, global_sum>>

Add(t) ==
  /\ at[t] = "add"
  /\ sum' = [sum EXCEPT ![t] = (@ + tmp[t]) % Modulus]
  /\ at' = [at EXCEPT ![t] = "scan"]
  /\ UNCHANGED <<given, input, tmp, i, global_sum>>

ScanEnds(t) ==
  /\ at[t] = "scan" /\ input = <<>>
  /\ at' = [at EXCEPT ![t] = "done"]
  /\ UNCHANGED <<given, input, tmp, sum, i, global_sum>>

(* Mutant: the sum is read without waiting for the thread.                 *)
TakeSum ==
  /\ i < THREADS_NUM /\ \A t \in Thread : at[t] # "create"
  /\ global_sum' = (global_sum + sum[i]) % Modulus /\ i' = i + 1
  /\ UNCHANGED <<given, input, at, tmp, sum>>

Join ==
  /\ i < THREADS_NUM /\ at[i] = "done"
  /\ \A t \in Thread : at[t] # "create"
  /\ global_sum' = (global_sum + sum[i]) % Modulus /\ i' = i + 1
  /\ UNCHANGED <<given, input, at, tmp, sum>>

ThreadStep(t) == Create(t) \/ Scan(t) \/ ScanFails(t) \/ Add(t) \/ ScanEnds(t)
Next == Join \/ \E t \in Thread : ThreadStep(t)

-----------------------------------------------------------------------------
(* The sum of the first k numbers of the input.                            *)
Total[k \in 0 .. Len(given)] ==
  IF k = 0 THEN 0 ELSE (Total[k - 1] + given[k][1]) % Modulus

AllNumbers == \A k \in DOMAIN given : given[k] # <<>>

(* If the input is numbers only, main prints their sum: every number is    *)
(* added by exactly one thread, and no sum is read before it is complete.  *)
SumIsTotal ==
  i = THREADS_NUM =>
    /\ AllNumbers
    /\ global_sum = Total[Len(given)]
=============================================================================
