---------------------------- MODULE SignalPingPong ---------------------------
(***************************************************************************)
(* 1sem/inf11/inf11-1: a process answers each number that comes with a     *)
(* SIGRTMIN with the next smaller one, until it receives 0.  Its peers do  *)
(* the same.  The handler leaves number and sender in two variables, and   *)
(* main sends the answer.  Peers send after sigaction has returned.        *)
(***************************************************************************)
EXTENDS Integers, Sequences

CONSTANTS
  Peers,
  Starts,   \* numbers a peer may begin with
  Patient   \* the peers that answer only when main is back in its loop

None == "none"   \* pid = 0

VARIABLES
  mainPc, pid, value, end,
  to_send,
  queue,      \* signals for this process: real-time signals are queued
  inbox,      \* signals for each peer
  peer,       \* "new", "playing" or "done"
  asked,      \* history: the last number each peer has sent
  forgotten   \* history: the handler has replaced an answer not yet sent,
              \* or has run between sigqueue and pid = 0

peerVars == <<inbox, peer, asked>>
vars == <<mainPc, pid, value, end, to_send, queue, peerVars, forgotten>>

Init ==
  /\ mainPc = "test" /\ pid = None /\ value = 0 /\ end = 0 /\ to_send = 0
  /\ queue = <<>> /\ inbox = [p \in Peers |-> <<>>]
  /\ peer = [p \in Peers |-> "new"] /\ asked = [p \in Peers |-> 0]
  /\ forgotten = FALSE

-----------------------------------------------------------------------------
(* The peers                                                               *)

Start(p) ==
  /\ peer[p] = "new"
  /\ \E n \in Starts :
       /\ asked' = [asked EXCEPT ![p] = n]
       /\ queue' = Append(queue, [from |-> p, n |-> n])
  /\ peer' = [peer EXCEPT ![p] = "playing"]
  /\ UNCHANGED <<mainPc, pid, value, end, to_send, inbox, forgotten>>

Answer(p) ==
  /\ inbox[p] # <<>>
  /\ p \in Patient => mainPc # "forget"
  /\ inbox' = [inbox EXCEPT ![p] = Tail(@)]
  /\ IF Head(inbox[p]) = 0
     THEN peer' = [peer EXCEPT ![p] = "done"] /\ UNCHANGED <<asked, queue>>
     ELSE /\ asked' = [asked EXCEPT ![p] = Head(inbox[p]) - 1]
          /\ queue' = Append(queue, [from |-> p, n |-> Head(inbox[p]) - 1])
          /\ UNCHANGED peer
  /\ UNCHANGED <<mainPc, pid, value, end, to_send, forgotten>>

-----------------------------------------------------------------------------
(* Mutant: the number is passed on as it came.                             *)
PassOn ==
  /\ queue # <<>> /\ mainPc # "done"
  /\ IF Head(queue).n = 0
     THEN end' = 1 /\ UNCHANGED <<pid, value, forgotten>>
     ELSE /\ pid' = Head(queue).from /\ value' = Head(queue).n
          /\ forgotten' = (forgotten \/ pid # None)
          /\ UNCHANGED end
  /\ queue' = Tail(queue)
  /\ UNCHANGED <<mainPc, to_send, peerVars>>

(* SIGRTMIN is blocked while its handler runs, so main sees all of it or   *)
(* nothing.                                                                *)
signal_handler ==
  /\ queue # <<>> /\ mainPc # "done"
  /\ IF Head(queue).n = 0
     THEN end' = 1 /\ UNCHANGED <<pid, value, forgotten>>
     ELSE /\ pid' = Head(queue).from /\ value' = Head(queue).n - 1
          /\ forgotten' = (forgotten \/ pid # None)
          /\ UNCHANGED end
  /\ queue' = Tail(queue)
  /\ UNCHANGED <<mainPc, to_send, peerVars>>

(* while (!end), twice, and if (!end): each test reads the variables again. *)
TestEnd ==
  /\ mainPc = "test"
  /\ mainPc' = IF end = 1 THEN "done" ELSE "wait"
  /\ UNCHANGED <<pid, value, end, to_send, queue, peerVars, forgotten>>

Wait ==
  /\ mainPc = "wait" /\ (pid # None \/ end = 1)
  /\ mainPc' = "check"
  /\ UNCHANGED <<pid, value, end, to_send, queue, peerVars, forgotten>>

Check ==
  /\ mainPc = "check"
  /\ mainPc' = IF end = 1 THEN "test" ELSE "load"
  /\ UNCHANGED <<pid, value, end, to_send, queue, peerVars, forgotten>>

LoadValue ==
  /\ mainPc = "load"
  /\ to_send' = value
  /\ mainPc' = "send"
  /\ UNCHANGED <<pid, value, end, queue, peerVars, forgotten>>

(* Mutant: 0 is not sent.                                                  *)
SendIfLarge ==
  /\ mainPc = "send"
  /\ inbox' = IF to_send > 0 THEN [inbox EXCEPT ![pid] = Append(@, to_send)]
                             ELSE inbox
  /\ mainPc' = "forget"
  /\ UNCHANGED <<pid, value, end, to_send, queue, peer, asked, forgotten>>

sigqueue ==
  /\ mainPc = "send"
  /\ inbox' = [inbox EXCEPT ![pid] = Append(@, to_send)]
  /\ mainPc' = "forget"
  /\ UNCHANGED <<pid, value, end, to_send, queue, peer, asked, forgotten>>

(* Mutant: pid is not cleared.                                             *)
Keep ==
  /\ mainPc = "forget"
  /\ mainPc' = "test"
  /\ UNCHANGED <<pid, value, end, to_send, queue, peerVars, forgotten>>

Forget ==
  /\ mainPc = "forget"
  /\ pid' = None
  /\ mainPc' = "test"
  /\ UNCHANGED <<value, end, to_send, queue, peerVars, forgotten>>

Step ==
  \/ signal_handler
  \/ TestEnd \/ Wait \/ Check \/ LoadValue \/ sigqueue \/ Forget
  \/ \E p \in Peers : Answer(p)

Next == Step \/ \E p \in Peers : Start(p)

-----------------------------------------------------------------------------
(* As long as no answer has been replaced or forgotten, a peer gets one    *)
(* answer at a time, and it is one less than the number that it sent last. *)
AnswersInTurn ==
  ~forgotten =>
    \A p \in Peers : inbox[p] \in {<<>>, <<asked[p] - 1>>}

(* A peer that has sent a number is answered until one of the two gets 0,  *)
(* unless an answer is replaced or forgotten, or 0 from another peer ends  *)
(* the program.                                                            *)
PlaysToZero ==
  \A p \in Peers :
    peer[p] = "playing" ~> peer[p] = "done" \/ mainPc = "done" \/ forgotten

(* With one peer only, and one that answers no sooner than main is back in *)
(* its loop, nothing is ever forgotten.                                    *)
PatientPeerIsHeard ==
  \A p \in Patient : (\A q \in Peers \ {p} : peer[q] = "new") => ~forgotten
=============================================================================
