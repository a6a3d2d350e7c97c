------------------------------ MODULE EpollCount -----------------------------
(***************************************************************************)
(* 2sem/inf15/inf15-0: read_data_and_count reads N descriptors with one    *)
(* epoll until all have ended.  A pipe whose writer has gone and that is   *)
(* empty reports EPOLLHUP alone, a socket reports EPOLLIN as well, and a   *)
(* regular file cannot be added, so that it never reports anything.        *)
(***************************************************************************)
EXTENDS Integers, Functions, FiniteSets

CONSTANTS
  N,
  MaxWritten   \* bytes that each writer writes at most

Entry == 1 .. N

VARIABLES
  kind, written, unread, hungup,   \* of each input and its writer
  pc,
  pending,     \* entries of the batch, and whether EPOLLIN was reported
  count,       \* entries[i]->count
  open,        \* entries whose descriptor is open
  files_left, result

writers == <<kind, written, unread, hungup>>
vars == <<writers, pc, pending, count, open, files_left, result>>

Init ==
  /\ kind \in [Entry -> {"pipe", "socket", "file"}]
  /\ written = [f \in Entry |-> 0] /\ unread = written
  /\ hungup = [f \in Entry |-> FALSE]
  /\ pc = "wait" /\ pending = {} /\ count = written
  /\ open = Entry /\ files_left = N /\ result = 0

Put(f) ==
  /\ ~hungup[f] /\ written[f] < MaxWritten
  /\ written' = [written EXCEPT ![f] = @ + 1]
  /\ unread' = [unread EXCEPT ![f] = @ + 1]
  /\ UNCHANGED <<kind, hungup, pc, pending, count, open, files_left, result>>

HangUp(f) ==
  /\ ~hungup[f]
  /\ hungup' = [hungup EXCEPT ![f] = TRUE]
  /\ UNCHANGED <<kind, written, unread, pc, pending, count, open, files_left,
                 result>>

Ready ==
  {f \in open : kind[f] # "file" /\ (unread[f] > 0 \/ hungup[f])}
Reported(f) == [entry |-> f, in |-> unread[f] > 0 \/ kind[f] = "socket"]

Wait ==
  /\ pc = "wait" /\ files_left > 0 /\ Ready # {}
  /\ pending' = {Reported(f) : f \in Ready}
  /\ pc' = "batch"
  /\ UNCHANGED <<writers, count, open, files_left, result>>

(* Mutant: an input that ends is not counted down.                         *)
ReadOnly(f) ==
  /\ pc = "batch" /\ [entry |-> f, in |-> TRUE] \in pending
  /\ pending' = pending \ {[entry |-> f, in |-> TRUE]}
  /\ count' = [count EXCEPT ![f] = @ + unread[f]]
  /\ unread' = [unread EXCEPT ![f] = 0]
  /\ open' = IF hungup[f] THEN open \ {f} ELSE open
  /\ UNCHANGED <<kind, written, hungup, pc, files_left, result>>

(* EPOLLIN: read until the pipe is empty, or the end is reached.           *)
ReadAll(f) ==
  /\ pc = "batch" /\ [entry |-> f, in |-> TRUE] \in pending
  /\ pending' = pending \ {[entry |-> f, in |-> TRUE]}
  /\ count' = [count EXCEPT ![f] = @ + unread[f]]
  /\ unread' = [unread EXCEPT ![f] = 0]
  /\ IF hungup[f] THEN open' = open \ {f} /\ files_left' = files_left - 1
                  ELSE UNCHANGED <<open, files_left>>
  /\ UNCHANGED <<kind, written, hungup, pc, result>>

Total(n) == FoldFunction(+, 0, n)

(* Mutant: a writer that has gone counts as a failure, with or without     *)
(* EPOLLIN.                                                                *)
GiveUpOnHangUp(f) ==
  /\ pc = "batch" /\ \E b \in BOOLEAN : [entry |-> f, in |-> b] \in pending
  /\ hungup[f]
  /\ result' = Total(count) /\ open' = {} /\ pc' = "returned"
  /\ UNCHANGED <<writers, pending, count, files_left>>

(* EPOLLHUP alone: return at once, with what has been counted so far.      *)
GiveUp(f) ==
  /\ pc = "batch" /\ [entry |-> f, in |-> FALSE] \in pending
  /\ result' = Total(count) /\ open' = {} /\ pc' = "returned"
  /\ UNCHANGED <<writers, pending, count, files_left>>

EndBatch ==
  /\ pc = "batch" /\ pending = {}
  /\ pc' = "wait"
  /\ UNCHANGED <<writers, pending, count, open, files_left, result>>

Return ==
  /\ pc = "wait" /\ files_left = 0
  /\ result' = Total(count) /\ open' = {} /\ pc' = "returned"
  /\ UNCHANGED <<writers, pending, count, files_left>>

Step ==
  \/ Wait \/ EndBatch \/ Return
  \/ \E f \in Entry : ReadAll(f) \/ GiveUp(f)
Next == Step \/ \E f \in Entry : Put(f) \/ HangUp(f)

-----------------------------------------------------------------------------
(* The result is all that was written: always if no input is a pipe, else  *)
(* unless a pipe hung up that had nothing to read.                         *)
CountsEverything ==
  pc = "returned" =>
    \/ result = Total(written) /\ \A f \in Entry : hungup[f]
    \/ \E f \in Entry : kind[f] = "pipe" /\ hungup[f] /\ unread[f] = 0
         /\ files_left > 0

(* When every writer has gone, and no input is a regular file, the         *)
(* function returns.                                                       *)
CountReturns ==
  (\A f \in Entry : hungup[f] /\ kind[f] # "file") ~> pc = "returned"
=============================================================================
