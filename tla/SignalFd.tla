------------------------------- MODULE SignalFd ------------------------------
(***************************************************************************)
(* 1sem/inf11/inf11-0: real-time signals are read from a signalfd.  Signal *)
(* SIGRTMIN + x asks for the next line of file x, SIGRTMIN itself ends the *)
(* program.                                                                *)
(***************************************************************************)
EXTENDS Integers, FiniteSetsExt

CONSTANTS
  Lines,        \* how many lines each file has, a function on 1 .. N
  MaxPending    \* RLIMIT_SIGPENDING: beyond it a signal is not queued

Files == DOMAIN Lines
Stop == 0   \* SIGRTMIN

VARIABLES
  pc,
  requests,   \* how often each signal waits to be read
  next        \* lines of each file that have been read

vars == <<pc, requests, next>>

Init ==
  /\ pc = "block"
  /\ requests = [x \in {Stop} \cup Files |-> 0]
  /\ next = [x \in Files |-> 0]

Pending == {x \in DOMAIN requests : requests[x] > 0}

(* Until sigprocmask the default action of the signal ends the process,    *)
(* and nothing tells the sender when that is over.                         *)
Send(x) ==
  \/ pc = "block" /\ pc' = "killed" /\ UNCHANGED <<requests, next>>
  \/ /\ pc = "read" /\ requests[x] < MaxPending
     /\ requests' = [requests EXCEPT ![x] = @ + 1]
     /\ UNCHANGED <<pc, next>>

(* signalfd and sigprocmask, after the files have been opened              *)
Block ==
  /\ pc = "block"
  /\ pc' = "read"
  /\ UNCHANGED <<requests, next>>

(* A turn of the loop after read has returned x; at the end of a file      *)
(* getline reads nothing, and what is printed is not defined.              *)
Handle(x) ==
  /\ pc' = IF x = Stop THEN "done" ELSE "read"
  /\ next' = [y \in Files |-> IF y = x /\ next[x] < Lines[x]
                              THEN next[x] + 1 ELSE next[y]]

(* Mutant: the last signal first.                                          *)
ReadLargest ==
  /\ pc = "read" /\ Pending # {}
  /\ requests' = [requests EXCEPT ![Max(Pending)] = @ - 1]
  /\ Handle(Max(Pending))

(* read: the kernel gives the smallest number first.                       *)
ReadSignal ==
  /\ pc = "read" /\ Pending # {}
  /\ requests' = [requests EXCEPT ![Min(Pending)] = @ - 1]
  /\ Handle(Min(Pending))

Step == Block \/ ReadSignal

Next == Step \/ \E x \in {Stop} \cup Files : Send(x)

-----------------------------------------------------------------------------
(* Once SIGRTMIN is queued the program ends, however many requests for     *)
(* lines keep coming; they are overtaken.                                  *)
StopEnds == pc = "read" /\ requests[Stop] > 0 ~> pc = "done"
=============================================================================
