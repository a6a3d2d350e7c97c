------------------------------ MODULE MutexRing ------------------------------
(***************************************************************************)
(* 2sem/inf17/inf17-0/prog.c: k threads in a ring; each of them N times    *)
(* adds 1 to its own element of an array, 1.01 to the right and 0.99 to    *)
(* the left one, under one mutex. An addition is a load and a store.       *)
(*                                                                         *)
(* Amounts are in hundredths; the rounding of doubles is not modelled.     *)
(***************************************************************************)
EXTENDS Integers

CONSTANTS
  N,  \* argv[1], iterations
  k   \* argv[2], threads

Thread == 0 .. k - 1
Nobody == -1

ASSUME SizeAssumption == N \in Nat /\ k \in Nat \ {0}

VARIABLES
  arr,     \* the array, in hundredths
  owner,   \* who has locked the mutex
  i,       \* the loop counter of each thread
  stage,   \* which of its three additions comes next, 4 after the last
  reg,     \* what each thread has loaded
  pc,      \* where each thread is
  mainPc,
  mainI    \* the counter of main's loops

threadVars == <<arr, owner, i, stage, reg>>
vars == <<threadVars, pc, mainPc, mainI>>

(* The % of C, which has the sign of its left operand.                     *)
CRemainder(a, b) == IF a >= 0 THEN a % b ELSE -((-a) % b)

Right(t) == CRemainder(t + 1, k)

Left(t) ==
  LET curr_num == CRemainder(t - 1, k)
  IN  IF curr_num < 0 THEN curr_num + k ELSE curr_num

(* The element a thread adds to, and what it adds.                         *)
Target(t) ==
  CASE stage[t] = 1 -> t
    [] stage[t] = 2 -> Right(t)
    [] stage[t] = 3 -> Left(t)

Amount(t) ==
  CASE stage[t] = 1 -> 100
    [] stage[t] = 2 -> 101
    [] stage[t] = 3 -> 99

Init ==
  /\ arr = [x \in Thread |-> 0]
  /\ owner = Nobody
  /\ i = [t \in Thread |-> 0]
  /\ stage = [t \in Thread |-> 1]
  /\ reg = [t \in Thread |-> 0]
  /\ pc = [t \in Thread |-> "unborn"]
  /\ mainPc = "create"
  /\ mainI = 0

-----------------------------------------------------------------------------
(* thread                                                                  *)

(* Mutant: the mutex is not waited for.                                    *)
Barge(t) ==
  /\ pc[t] = "loop"
  /\ i[t] < N
  /\ owner' = t
  /\ pc' = [pc EXCEPT ![t] = "load"]
  /\ UNCHANGED <<arr, i, stage, reg, mainPc, mainI>>

(* Mutant: the loop is i <= N.                                             *)
LockPastN(t) ==
  /\ pc[t] = "loop"
  /\ i[t] <= N
  /\ owner = Nobody
  /\ owner' = t
  /\ pc' = [pc EXCEPT ![t] = "load"]
  /\ UNCHANGED <<arr, i, stage, reg, mainPc, mainI>>

Lock(t) ==
  /\ pc[t] = "loop"
  /\ i[t] < N
  /\ owner = Nobody
  /\ owner' = t
  /\ pc' = [pc EXCEPT ![t] = "load"]
  /\ UNCHANGED <<arr, i, stage, reg, mainPc, mainI>>

(* Mutant: what has been loaded is never added.                            *)
LoadInPlace(t) ==
  /\ pc[t] = "load"
  /\ stage[t] <= 3
  /\ reg' = [reg EXCEPT ![t] = arr[Target(t)]]
  /\ UNCHANGED <<arr, owner, i, stage, pc, mainPc, mainI>>

Load(t) ==
  /\ pc[t] = "load"
  /\ stage[t] <= 3
  /\ reg' = [reg EXCEPT ![t] = arr[Target(t)]]
  /\ pc' = [pc EXCEPT ![t] = "store"]
  /\ UNCHANGED <<arr, owner, i, stage, mainPc, mainI>>

Store(t) ==
  /\ pc[t] = "store"
  /\ arr' = [arr EXCEPT ![Target(t)] = reg[t] + Amount(t)]
  /\ stage' = [stage EXCEPT ![t] = @ + 1]
  /\ pc' = [pc EXCEPT ![t] = "load"]
  /\ UNCHANGED <<owner, i, reg, mainPc, mainI>>

Unlock(t) ==
  /\ pc[t] = "load"
  /\ stage[t] = 4
  /\ owner' = Nobody
  /\ i' = [i EXCEPT ![t] = @ + 1]
  /\ stage' = [stage EXCEPT ![t] = 1]
  /\ pc' = [pc EXCEPT ![t] = "loop"]
  /\ UNCHANGED <<arr, reg, mainPc, mainI>>

Return(t) ==
  /\ pc[t] = "loop"
  /\ i[t] >= N
  /\ pc' = [pc EXCEPT ![t] = "exit"]
  /\ UNCHANGED <<threadVars, mainPc, mainI>>

ThreadStep(t) == Lock(t) \/ Load(t) \/ Store(t) \/ Unlock(t) \/ Return(t)

-----------------------------------------------------------------------------
(* main                                                                    *)

CreateThread ==
  /\ mainPc = "create"
  /\ mainI < k
  /\ pc' = [pc EXCEPT ![mainI] = "loop"]
  /\ mainI' = mainI + 1
  /\ UNCHANGED <<threadVars, mainPc>>

StartJoining ==
  /\ mainPc = "create"
  /\ mainI = k
  /\ mainPc' = "join"
  /\ mainI' = 0
  /\ UNCHANGED <<threadVars, pc>>

(* Mutant: main goes on without the thread having returned.                *)
DetachThread ==
  /\ mainPc = "join"
  /\ mainI < k
  /\ mainI' = mainI + 1
  /\ UNCHANGED <<threadVars, pc, mainPc>>

JoinThread ==
  /\ mainPc = "join"
  /\ mainI < k
  /\ pc[mainI] = "exit"
  /\ mainI' = mainI + 1
  /\ UNCHANGED <<threadVars, pc, mainPc>>

(* The array is printed, and the mutex is destroyed.                       *)
PrintArray ==
  /\ mainPc = "join"
  /\ mainI = k
  /\ mainPc' = "done"
  /\ UNCHANGED <<threadVars, pc, mainI>>

MainStep == CreateThread \/ StartJoining \/ JoinThread \/ PrintArray

Terminated == mainPc = "done" /\ UNCHANGED vars

Next == MainStep \/ (\E t \in Thread : ThreadStep(t)) \/ Terminated

(* Every thread that can go on does. The mutex need not be fair: whoever   *)
(* is passed over gets it when the others have done their N iterations.    *)
Spec ==
  /\ Init /\ [][Next]_vars
  /\ WF_vars(MainStep)
  /\ \A t \in Thread : WF_vars(ThreadStep(t))

-----------------------------------------------------------------------------
(* Properties                                                              *)

TypeOK ==
  /\ arr \in [Thread -> Int]
  /\ owner \in Thread \cup {Nobody}
  /\ i \in [Thread -> 0 .. N]
  /\ stage \in [Thread -> 1 .. 4]
  /\ reg \in [Thread -> Int]
  /\ pc \in [Thread -> {"unborn", "loop", "load", "store", "exit"}]
  /\ mainPc \in {"create", "join", "done"}
  /\ mainI \in 0 .. k

(* The ring, said without arithmetic modulo k.                             *)
Succ(x) == IF x = k - 1 THEN 0 ELSE x + 1
Pred(x) == IF x = 0 THEN k - 1 ELSE x - 1

(* How often t has made its addition number s.                             *)
Done(t, s) == i[t] + (IF stage[t] > s THEN 1 ELSE 0)

(***************************************************************************)
(* No addition is ever lost, whatever the interleaving, also when the two  *)
(* neighbours are the same element (k = 2) or the thread's own (k = 1):    *)
(* each element is the sum of what the three threads have added to it.     *)
(***************************************************************************)
NothingLost ==
  \A x \in Thread :
    arr[x] = 100 * Done(x, 1) + 101 * Done(Pred(x), 2) + 99 * Done(Succ(x), 3)

(***************************************************************************)
(* When main prints the array, every element is exactly 3 * N.             *)
(***************************************************************************)
PrintsThreeN == mainPc = "done" => \A x \in Thread : arr[x] = 300 * N

(* The program ends.                                                       *)
Terminates == <>(mainPc = "done")
=============================================================================
