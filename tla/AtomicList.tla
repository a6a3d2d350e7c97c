----------------------------- MODULE AtomicList ------------------------------
(***************************************************************************)
(* 2sem/inf17/inf17-2/prog.c: N threads append K items each to one singly  *)
(* linked list with compare-and-swap on the `next' pointer of what each    *)
(* thread believes to be the last item; main joins them, then prints and   *)
(* frees the list.                                                         *)
(*                                                                         *)
(* Every step below is one access to shared memory: the allocation of an   *)
(* item (private until it is linked), the CAS, and the separate read that  *)
(* moves a thread's cursor after a failed CAS.                             *)
(***************************************************************************)
EXTENDS Integers, Sequences, FiniteSets

CONSTANTS
  N,        \* argv[1], the number of threads
  K,        \* argv[2], the number of items per thread
  Sentinel, \* address of the item main allocates
  Null,     \* the null pointer
  Garbage   \* what the next member of a fresh malloc holds

Thread == 0 .. N - 1

(***************************************************************************)
(* malloc returns a fresh address for each item; it is named by the thread *)
(* that allocates it and the iteration it does so in.                      *)
(***************************************************************************)
Item == Thread \X (0 .. K - 1)
Address == Item \cup {Sentinel}

ASSUME SizeAssumption == N \in Nat \ {0} /\ K \in Nat
ASSUME AddressAssumption ==
  /\ {Sentinel, Null, Garbage} \cap Item = {}
  /\ Sentinel # Null /\ Sentinel # Garbage /\ Null # Garbage

VARIABLES
  next,     \* the `next' member of every item
  cursor,   \* arg->head of each thread
  count,    \* the loop counter i of each thread
  expected, \* null_item of each thread, the value its CAS compares with
  pc,       \* where each thread is
  mainPc,   \* where main is
  mainI,    \* the loop counter i of main
  head,     \* the variable head of main
  output    \* the items main printed, in order

vars == <<next, cursor, count, expected, pc, mainPc, mainI, head, output>>
threadVars == <<next, cursor, count, expected, pc>>
mainVars == <<mainPc, mainI, head, output>>

(* Mutant: the value does not depend on k.                                 *)
ValueWithoutStride(item) == item[1] + item[2]

(***************************************************************************)
(* value = k * thread_num + i; 64-bit, so it does not wrap for any K, N    *)
(* that fit the int variables they are read into.                          *)
(***************************************************************************)
ValueOf(item) == K * item[1] + item[2]

(* main frees exactly what it has printed, and right after printing it.    *)
Freed == {output[j] : j \in DOMAIN output}

Init ==
  /\ next = [a \in Address |-> IF a = Sentinel THEN Null ELSE Garbage]
  /\ cursor = [t \in Thread |-> Sentinel]
  /\ count = [t \in Thread |-> 0]
  /\ expected = [t \in Thread |-> Null]
  /\ pc = [t \in Thread |-> "unborn"]
  /\ mainPc = "create"
  /\ mainI = 0
  /\ head = Sentinel
  /\ output = <<>>

-----------------------------------------------------------------------------
(* thread_func                                                             *)

NewItem(t) == <<t, count[t]>>

(* The head of the for loop: another item, or return.                      *)
Allocate(t) ==
  /\ pc[t] = "loop"
  /\ count[t] < K
  /\ next' = [next EXCEPT ![NewItem(t)] = Null]
  /\ expected' = [expected EXCEPT ![t] = Null]
  /\ pc' = [pc EXCEPT ![t] = "cas"]
  /\ UNCHANGED <<cursor, count>>
  /\ UNCHANGED mainVars

Return(t) ==
  /\ pc[t] = "loop"
  /\ count[t] >= K
  /\ pc' = [pc EXCEPT ![t] = "exit"]
  /\ UNCHANGED <<next, cursor, count, expected>>
  /\ UNCHANGED mainVars

(* Mutant: the new item is stored whatever the pointer holds by now.       *)
StoreWithoutComparing(t) ==
  /\ pc[t] = "cas"
  /\ next' = [next EXCEPT ![cursor[t]] = NewItem(t)]
  /\ count' = [count EXCEPT ![t] = @ + 1]
  /\ pc' = [pc EXCEPT ![t] = "loop"]
  /\ UNCHANGED <<cursor, expected>>
  /\ UNCHANGED mainVars

(* atomic_compare_exchange_strong(&arg->head->next, &null_item, new_item)  *)
CasSucceeds(t) ==
  /\ pc[t] = "cas"
  /\ next[cursor[t]] = expected[t]
  /\ next' = [next EXCEPT ![cursor[t]] = NewItem(t)]
  /\ count' = [count EXCEPT ![t] = @ + 1]
  /\ pc' = [pc EXCEPT ![t] = "loop"]
  /\ UNCHANGED <<cursor, expected>>
  /\ UNCHANGED mainVars

(* A failed CAS leaves what it saw in null_item.                           *)
CasFails(t) ==
  /\ pc[t] = "cas"
  /\ next[cursor[t]] # expected[t]
  /\ expected' = [expected EXCEPT ![t] = next[cursor[t]]]
  /\ pc' = [pc EXCEPT ![t] = "advance"]
  /\ UNCHANGED <<next, cursor, count>>
  /\ UNCHANGED mainVars

(* Mutant: null_item keeps what the failed CAS saw.                        *)
AdvanceWithoutReset(t) ==
  /\ pc[t] = "advance"
  /\ cursor' = [cursor EXCEPT ![t] = next[cursor[t]]]
  /\ pc' = [pc EXCEPT ![t] = "cas"]
  /\ UNCHANGED <<next, count, expected>>
  /\ UNCHANGED mainVars

(* Mutant: the CAS is retried where it failed.                             *)
RetryInPlace(t) ==
  /\ pc[t] = "advance"
  /\ expected' = [expected EXCEPT ![t] = Null]
  /\ pc' = [pc EXCEPT ![t] = "cas"]
  /\ UNCHANGED <<next, cursor, count>>
  /\ UNCHANGED mainVars

(* arg->head = arg->head->next, a second read of the pointer.              *)
Advance(t) ==
  /\ pc[t] = "advance"
  /\ cursor' = [cursor EXCEPT ![t] = next[cursor[t]]]
  /\ expected' = [expected EXCEPT ![t] = Null]
  /\ pc' = [pc EXCEPT ![t] = "cas"]
  /\ UNCHANGED <<next, count>>
  /\ UNCHANGED mainVars

ThreadStep(t) ==
  \/ Allocate(t)
  \/ Return(t)
  \/ CasSucceeds(t)
  \/ CasFails(t)
  \/ Advance(t)

-----------------------------------------------------------------------------
(* main                                                                    *)

CreateThread ==
  /\ mainPc = "create"
  /\ mainI < N
  /\ pc' = [pc EXCEPT ![mainI] = "loop"]
  /\ mainI' = mainI + 1
  /\ UNCHANGED <<next, cursor, count, expected, mainPc, head, output>>

(* Mutant: the counter of the first loop is not reset for the second.      *)
StartJoiningAtN ==
  /\ mainPc = "create"
  /\ mainI = N
  /\ mainPc' = "join"
  /\ UNCHANGED threadVars
  /\ UNCHANGED <<mainI, head, output>>

StartJoining ==
  /\ mainPc = "create"
  /\ mainI = N
  /\ mainPc' = "join"
  /\ mainI' = 0
  /\ UNCHANGED threadVars
  /\ UNCHANGED <<head, output>>

(* Mutant: main goes on without the thread having returned.                *)
DetachThread ==
  /\ mainPc = "join"
  /\ mainI < N
  /\ mainI' = mainI + 1
  /\ UNCHANGED threadVars
  /\ UNCHANGED <<mainPc, head, output>>

JoinThread ==
  /\ mainPc = "join"
  /\ mainI < N
  /\ pc[mainI] = "exit"
  /\ mainI' = mainI + 1
  /\ UNCHANGED threadVars
  /\ UNCHANGED <<mainPc, head, output>>

(* head = head->next: the sentinel is skipped (and never freed).           *)
StartPrinting ==
  /\ mainPc = "join"
  /\ mainI = N
  /\ mainPc' = "print"
  /\ head' = next[head]
  /\ UNCHANGED threadVars
  /\ UNCHANGED <<mainI, output>>

(* Print head->value, step to head->next, free the item printed.           *)
PrintItem ==
  /\ mainPc = "print"
  /\ head # Null
  /\ output' = Append(output, head)
  /\ head' = next[head]
  /\ UNCHANGED threadVars
  /\ UNCHANGED <<mainPc, mainI>>

Finish ==
  /\ mainPc = "print"
  /\ head = Null
  /\ mainPc' = "done"
  /\ UNCHANGED threadVars
  /\ UNCHANGED <<mainI, head, output>>

MainStep ==
  \/ CreateThread
  \/ StartJoining
  \/ JoinThread
  \/ StartPrinting
  \/ PrintItem
  \/ Finish

(* The process is gone: the only state that stays as it is.                *)
Terminated == mainPc = "done" /\ UNCHANGED vars

Next == MainStep \/ (\E t \in Thread : ThreadStep(t)) \/ Terminated

(* The kernel schedules every runnable thread; sched_yield does not block. *)
Fairness ==
  /\ WF_vars(MainStep)
  /\ \A t \in Thread : WF_vars(ThreadStep(t))

Spec == Init /\ [][Next]_vars /\ Fairness

-----------------------------------------------------------------------------
(* Properties                                                              *)

TypeOK ==
  /\ next \in [Address -> Item \cup {Null, Garbage}]
  /\ cursor \in [Thread -> Address]
  /\ count \in [Thread -> 0 .. K]
  /\ expected \in [Thread -> Item \cup {Null}]
  /\ pc \in [Thread -> {"unborn", "loop", "cas", "advance", "exit"}]
  /\ mainPc \in {"create", "join", "print", "done"}
  /\ mainI \in 0 .. N
  /\ head \in Address \cup {Null}
  /\ output \in Seq(Item)

(* The items whose CAS has succeeded.                                      *)
Published == {item \in Item : item[2] < count[item[1]]}

(***************************************************************************)
(* c[0], ..., c[n] is the whole list: it starts at the sentinel, follows   *)
(* the next pointers to the only Null, and holds each published item once, *)
(* those of one thread in the order it made them.                          *)
(***************************************************************************)
Chain(n, c) ==
  /\ c[0] = Sentinel
  /\ \A j \in 0 .. n - 1 : next[c[j]] = c[j + 1]
  /\ next[c[n]] = Null
  /\ \A j, l \in 0 .. n : c[j] = c[l] => j = l
  /\ \A item \in Item : item \in Published <=> \E j \in 1 .. n : c[j] = item
  /\ \A j, l \in 1 .. n : c[j][1] = c[l][1] /\ j < l => c[j][2] < c[l][2]

(* The addresses met by following next from the sentinel, Null past the    *)
(* end; a list of more than N * K items would be a cycle.                  *)
Hops ==
  LET hop[j \in 0 .. N * K + 1] ==
        IF j = 0 THEN Sentinel
        ELSE IF hop[j - 1] = Null THEN Null ELSE next[hop[j - 1]]
  IN  hop

ListLength == Cardinality({j \in 1 .. N * K + 1 : Hops[j] # Null})

(* The list as a sequence of items, without the sentinel.                  *)
ListItems == LET hops == Hops IN [j \in 1 .. ListLength |-> hops[j]]

(***************************************************************************)
(* No insertion is ever lost, duplicated or put on a cycle, whatever the   *)
(* order of the CASes and of the stale cursors they start from.            *)
(***************************************************************************)
ListIntact == Chain(ListLength, Hops)

(***************************************************************************)
(* A thread that may still dereference its cursor never does so after main *)
(* has freed the item: main frees only after the last join.                *)
(***************************************************************************)
NoUseAfterFree ==
  \A t \in Thread : pc[t] # "exit" => cursor[t] \notin Freed

(***************************************************************************)
(* What the task asks for: when the program ends, each of the values       *)
(* 0 .. N*K - 1 has been printed exactly once.                             *)
(***************************************************************************)
PrintsEveryValueOnce ==
  mainPc = "done" =>
    \A v \in 0 .. N * K - 1 :
      \E j \in DOMAIN output :
        /\ ValueOf(output[j]) = v
        /\ \A l \in DOMAIN output : ValueOf(output[l]) = v => l = j

(***************************************************************************)
(* Seen through ListItems, the program is an append-only log that is       *)
(* emitted when complete: a stale cursor, a failed CAS or a re-read never  *)
(* shows, and each successful CAS appends one entry at the end.            *)
(***************************************************************************)
Log == INSTANCE AppendLog
  WITH Producer <- Thread, PerProducer <- K, log <- ListItems, out <- output

ImplementsAppendLog == Log!Spec

(***************************************************************************)
(* The program ends: a CAS can fail only as often as there are items to    *)
(* step over, so retrying is not a livelock.                               *)
(***************************************************************************)
Terminates == <>(mainPc = "done")
=============================================================================
