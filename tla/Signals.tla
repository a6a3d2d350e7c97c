------------------------------- MODULE Signals -------------------------------
(***************************************************************************)
(* The signal programs of 1sem/inf10 and 1sem/inf11, one of them at a      *)
(* time: `signalled' says which, and the variables of the others keep      *)
(* their initial values.  No name is one of Streams, so that one module    *)
(* can be about both.                                                      *)
(***************************************************************************)
EXTENDS Integers, Sequences

CONSTANTS
  Number, MaxSent,            \* of SignalCounter
  Peers, Starts, Patient,     \* of SignalPingPong
  MaxPending                  \* of SignalFd, for files of two and one lines

ASSUME NumbersAssumption == Number \in Int /\ Starts \subseteq Int
ASSUME PeersAssumption == "none" \notin Peers

VARIABLES
  signalled,
  exercise, mainPc, frames, raised, value, end, shown, signals_sent, accepted,
  overtaken, playPc, pid, reply, stop, to_send, queue, mail, peer, last_asked, forgotten,
  fdPc, requests, next

Handlers == INSTANCE SignalCounter
  WITH program <- exercise, pending <- raised, sent <- signals_sent
PingPong == INSTANCE SignalPingPong
  WITH mainPc <- playPc, value <- reply, end <- stop, inbox <- mail,
       asked <- last_asked
Fd == INSTANCE SignalFd
  WITH pc <- fdPc, Lines <- <<2, 1>>

handlerVars ==
  <<exercise, mainPc, frames, raised, value, end, shown, signals_sent,
    accepted, overtaken>>
pingPongVars ==
  <<playPc, pid, reply, stop, to_send, queue, mail, peer, last_asked,
    forgotten>>
fdVars == <<fdPc, requests, next>>
signalsVars == <<signalled, handlerVars, pingPongVars, fdVars>>

SignalsInit ==
  /\ signalled \in {"handlers", "ping-pong", "signalfd"}
  /\ Handlers!Init /\ PingPong!Init /\ Fd!Init
  /\ signalled # "handlers" => exercise = "inf10-0"

HandlersNext ==
  signalled = "handlers" /\ Handlers!Next
    /\ UNCHANGED <<signalled, pingPongVars, fdVars>>

PingPongNext ==
  signalled = "ping-pong" /\ PingPong!Next
    /\ UNCHANGED <<signalled, handlerVars, fdVars>>

FdNext ==
  signalled = "signalfd" /\ Fd!Next
    /\ UNCHANGED <<signalled, handlerVars, pingPongVars>>

SignalsNext == HandlersNext \/ PingPongNext \/ FdNext

(* The kernel lets processes run and delivers signals; nobody has to send. *)
SignalsFairness ==
  /\ WF_signalsVars(HandlersNext /\ Handlers!Step)
  /\ WF_signalsVars(PingPongNext /\ PingPong!Step)
  /\ WF_signalsVars(FdNext /\ Fd!Step)

SignalsSpec ==
  SignalsInit /\ [][SignalsNext]_signalsVars /\ SignalsFairness

-----------------------------------------------------------------------------
(***************************************************************************)
(* inf10-0 counts every SIGINT that became pending in its loop, once; and  *)
(* the last line of inf10-1 shows its value, however its handlers nest, if *)
(* none of them changes the value while another one is inside its printf.  *)
(***************************************************************************)
CountersAreRight == Handlers!CountsAccepted /\ Handlers!LastLineIsValue

(***************************************************************************)
(* Unless an answer is forgotten, which does not happen to a peer that is  *)
(* not too fast, each peer of inf11-1 gets the next smaller number, once.  *)
(***************************************************************************)
TurnsAreKept == PingPong!AnswersInTurn /\ PingPong!PatientPeerIsHeard

(***************************************************************************)
(* SIGTERM ends inf10-0 always and inf10-1 once it is in its loop; the     *)
(* numbers of inf11-1 go down to 0 unless an answer is forgotten; SIGRTMIN *)
(* ends inf11-0 under any number of requests.                              *)
(***************************************************************************)
SignalsAreHeard == Handlers!TermEnds /\ PingPong!PlaysToZero /\ Fd!StopEnds
=============================================================================
