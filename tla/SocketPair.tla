------------------------------ MODULE SocketPair -----------------------------
(***************************************************************************)
(* 2sem/inf16/inf16-2: two threads pass a number to and fro over a pair of *)
(* sockets.  The one subtracts 3, the other adds 5; whoever gets 0 or more *)
(* than 100 prints it and closes both sockets.                             *)
(***************************************************************************)
EXTENDS Integers, Sequences

CONSTANTS Starts   \* numbers that argv[1] may hold

minus_three == 0   \* a thread and the socket it uses
plus_five == 1
Threads == {minus_three, plus_five}
Other(t) == 1 - t
Change(t) == IF t = minus_three THEN -3 ELSE 5
Final(n) == n = 0 \/ n > 100

VARIABLES
  at,       \* where each thread is
  num,      \* its number
  sock,     \* numbers that wait at each socket
  open,     \* the sockets that are not closed
  printed   \* <<thread, number>> of the last line

vars == <<at, num, sock, open, printed>>

Init ==
  /\ at = [t \in Threads |-> "read"] /\ num = [t \in Threads |-> 0]
  /\ \E n \in Starts :
       /\ sock = [t \in Threads |-> IF t = minus_three THEN <<n>> ELSE <<>>]
       /\ printed = <<plus_five, n>>
  /\ open = Threads

Read(t) ==
  /\ at[t] = "read" /\ t \in open /\ sock[t] # <<>>
  /\ num' = [num EXCEPT ![t] = Head(sock[t]) + Change(t)]
  /\ sock' = [sock EXCEPT ![t] = Tail(@)]
  /\ at' = [at EXCEPT ![t] = "print"]
  /\ UNCHANGED <<open, printed>>

(* Mutant: the thread does not stop at the last number.                    *)
ShowAndGoOn(t) ==
  /\ at[t] = "print"
  /\ printed' = <<t, num[t]>>
  /\ at' = [at EXCEPT ![t] = "write"]
  /\ UNCHANGED <<num, sock, open>>

(* The number is printed before the other thread can have it.              *)
Show(t) ==
  /\ at[t] = "print"
  /\ printed' = <<t, num[t]>>
  /\ at' = [at EXCEPT ![t] = IF Final(num[t]) THEN "close" ELSE "write"]
  /\ UNCHANGED <<num, sock, open>>

Write(t) ==
  /\ at[t] = "write"
  /\ sock' = [sock EXCEPT ![Other(t)] = Append(@, num[t])]
  /\ at' = [at EXCEPT ![t] = "read"]
  /\ UNCHANGED <<num, open, printed>>

(* Mutant: the thread returns without closing the sockets.                 *)
CloseNone(t) ==
  /\ at[t] = "close"
  /\ at' = [at EXCEPT ![t] = "done"]
  /\ UNCHANGED <<num, sock, open, printed>>

(* close(sock_pair[0]), then close(sock_pair[1])                           *)
Close(t) ==
  /\ at[t] = "close"
  /\ IF 0 \in open THEN open' = open \ {0} /\ UNCHANGED at
                   ELSE open' = {} /\ at' = [at EXCEPT ![t] = "done"]
  /\ UNCHANGED <<num, sock, printed>>

(* read returns 0, or -1: the other end is closed, or this one is.         *)
ReadFails(t) ==
  /\ at[t] = "read" /\ open # Threads
  /\ t \notin open \/ sock[t] = <<>>
  /\ at' = [at EXCEPT ![t] = "done"]
  /\ UNCHANGED <<num, sock, open, printed>>

Next ==
  \E t \in Threads : Read(t) \/ Show(t) \/ Write(t) \/ Close(t) \/ ReadFails(t)

-----------------------------------------------------------------------------
(* The lines alternate, each differs from the one before by what its       *)
(* thread adds, and nothing follows the last.                              *)
LinesFollow ==
  [][printed' # printed =>
       /\ printed'[1] = Other(printed[1])
       /\ printed'[2] = printed[2] + Change(printed'[1])
       /\ ~Final(printed[2]) \/ printed[2] \in Starts]_printed

(* Both threads end, the one that did not get the last number as well.     *)
BothEnd == <>(at = [t \in Threads |-> "done"])
=============================================================================
