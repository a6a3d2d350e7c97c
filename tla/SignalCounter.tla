---------------------------- MODULE SignalCounter ----------------------------
(***************************************************************************)
(* 1sem/inf10: a handler and main share global variables.  inf10-0 counts  *)
(* SIGINTs until SIGTERM; inf10-1 reads a number, adds one to it on        *)
(* SIGUSR1, negates it on SIGUSR2, prints it each time, and ends on        *)
(* SIGTERM.  A sender learns the PID from the first line of the output.    *)
(***************************************************************************)
EXTENDS Integers, Sequences, SequencesExt

CONSTANTS
  Number,   \* what inf10-1 finds on its standard input
  MaxSent   \* bound: how often the sender sends each signal

Programs == {"inf10-0", "inf10-1"}

(* SIGINT or SIGUSR1, SIGUSR2, SIGTERM, in the order of their numbers.     *)
AllSignals == {"inc", "neg", "term"}
Handled(p) == {"inc", "term"} \cup IF p = "inf10-1" THEN {"neg"} ELSE {}

VARIABLES
  program, mainPc,
  frames,   \* handlers that have begun, the running one last
  pending,  \* a set: signals of one number coalesce
  value,    \* `counter' or `value'
  end,
  shown,    \* <<the last line printed since main took its input>>
  sent, accepted,  \* history: signals sent; SIGINTs that became pending
                   \* while main was in its loop and before any SIGTERM
  overtaken        \* history: the value has changed since a handler that
                   \* prints, or that printed last, has read it

vars == <<program, mainPc, frames, pending, value, end, shown, sent, accepted,
          overtaken>>
history == <<sent, accepted, overtaken>>

Init ==
  /\ program \in Programs
  /\ mainPc = "announce" /\ frames = <<>> /\ pending = {}
  /\ value = 0 /\ end = 0
  /\ shown = <<>>
  /\ sent = [s \in AllSignals |-> 0] /\ accepted = 0
  /\ overtaken = FALSE

-----------------------------------------------------------------------------
(* The kernel and the sender                                               *)

Send(s) ==
  /\ mainPc \notin {"announce", "done"} /\ s \in Handled(program)
  /\ sent[s] < MaxSent
  /\ pending' = pending \cup {s}
  /\ sent' = [sent EXCEPT ![s] = @ + 1]
  /\ accepted' = IF /\ s = "inc" /\ s \notin pending
                    /\ mainPc = "loop" /\ sent["term"] = 0
                 THEN accepted + 1 ELSE accepted
  /\ UNCHANGED <<program, mainPc, frames, value, end, shown, overtaken>>

(* Mutant: sa_flags = SA_NODEFER                                           *)
NothingBlocked(stack) == {}

(* sa_mask is empty and sa_flags is 0: a handler blocks its own signal.    *)
Blocked(stack) == {stack[i].signal : i \in DOMAIN stack}

(* Each signal that is not blocked gets a frame, on top of the earlier.    *)
Delivered(stack) ==
  LET Pushed(frs, s) ==
        IF s \in pending \ Blocked(stack)
        THEN Append(frs, [signal |-> s, at |-> "load", loaded |-> 0]) ELSE frs
  IN  Pushed(Pushed(Pushed(stack, "inc"), "neg"), "term")

(* A system call that sleeps is interrupted: then scanf reads nothing.     *)
Interrupt ==
  /\ mainPc # "done"
  /\ pending \ Blocked(frames) # {}
  /\ frames' = Delivered(frames)
  /\ pending' = pending \cap Blocked(frames)
  /\ \/ UNCHANGED mainPc
     \/ mainPc = "scan" /\ mainPc' = "clear"
  /\ UNCHANGED <<program, value, end, shown, history>>

-----------------------------------------------------------------------------
(* signal_handler                                                          *)

Running(signals, at) ==
  /\ frames # <<>>
  /\ Last(frames).signal \in signals /\ Last(frames).at = at

Goto(at) == frames' = Front(frames) \o <<[Last(frames) EXCEPT !.at = at]>>

(* ++value and value *= -1 are a load and a store.                         *)
Load ==
  /\ Running({"inc", "neg"}, "load")
  /\ frames' = Front(frames)
               \o <<[Last(frames) EXCEPT !.at = "store", !.loaded = value]>>
  /\ UNCHANGED <<program, mainPc, pending, value, end, shown, history>>

Store ==
  /\ Running({"inc", "neg"}, "store")
  /\ value' = IF Running({"inc"}, "store") THEN Last(frames).loaded + 1
                                           ELSE -Last(frames).loaded
  /\ Goto(IF program = "inf10-1" THEN "print" ELSE "return")
  /\ overtaken' = IF \E i \in DOMAIN frames : frames[i].at = "output"
                  THEN TRUE ELSE overtaken
  /\ UNCHANGED <<program, mainPc, pending, end, shown, sent, accepted>>

SetEnd ==
  /\ Running({"term"}, "load")
  /\ end' = 1
  /\ Goto("return")
  /\ UNCHANGED <<program, mainPc, pending, value, shown, history>>

(* Mutant: the line shows what this handler has computed.                  *)
ReadOwn ==
  /\ Running({"inc", "neg"}, "print")
  /\ frames' = Front(frames)
               \o <<[Last(frames) EXCEPT !.at = "output",
                       !.loaded = IF Running({"inc"}, "print")
                                    THEN Last(frames).loaded + 1
                                    ELSE -Last(frames).loaded]>>
  /\ overtaken' = IF \E i \in DOMAIN frames : frames[i].at = "output"
                  THEN overtaken ELSE FALSE
  /\ UNCHANGED <<program, mainPc, pending, value, end, shown, sent, accepted>>

(* printf is called with the value of this moment ...                      *)
ReadValue ==
  /\ Running({"inc", "neg"}, "print")
  /\ frames' = Front(frames)
               \o <<[Last(frames) EXCEPT !.at = "output", !.loaded = value]>>
  /\ overtaken' = IF \E i \in DOMAIN frames : frames[i].at = "output"
                  THEN overtaken ELSE FALSE
  /\ UNCHANGED <<program, mainPc, pending, value, end, shown, sent, accepted>>

(* ... and puts out the line later, perhaps after the line of a handler    *)
(* that has interrupted it.                                                *)
PrintLine ==
  /\ Running({"inc", "neg"}, "output")
  /\ shown' = <<Last(frames).loaded>>
  /\ Goto("return")
  /\ UNCHANGED <<program, mainPc, pending, value, end, history>>

(* What the handler has blocked is delivered before main or an outer       *)
(* handler goes on.                                                        *)
Return ==
  /\ Running({"inc", "neg", "term"}, "return")
  /\ frames' = Delivered(Front(frames))
  /\ pending' = pending \cap Blocked(Front(frames))
  /\ UNCHANGED <<program, mainPc, value, end, shown, history>>

-----------------------------------------------------------------------------
(* main, from the first line of output, after both calls of sigaction      *)

MainAt(at) == mainPc = at /\ frames = <<>>

Announce ==
  /\ MainAt("announce")
  /\ mainPc' = IF program = "inf10-1" THEN "scan" ELSE "clear"
  /\ UNCHANGED <<program, frames, pending, value, end, shown, history>>

Scan ==
  /\ MainAt("scan")
  /\ value' = Number /\ shown' = <<>>
  /\ mainPc' = "clear"
  /\ UNCHANGED <<program, frames, pending, end, history>>

(* Mutant: `end' is cleared at the top of each turn of the loop.           *)
ClearEachTurn ==
  /\ MainAt("clear") \/ MainAt("loop")
  /\ end' = 0
  /\ mainPc' = "loop"
  /\ UNCHANGED <<program, frames, pending, value, shown, history>>

(* counter = 0 in inf10-0, end = 0 in inf10-1                              *)
Clear ==
  /\ MainAt("clear")
  /\ \/ program = "inf10-0" /\ value' = 0 /\ UNCHANGED end
     \/ program = "inf10-1" /\ end' = 0 /\ UNCHANGED value
  /\ mainPc' = "loop"
  /\ UNCHANGED <<program, frames, pending, shown, history>>

(* while (!end), and printf after it in inf10-0                            *)
Leave ==
  /\ MainAt("loop") /\ end = 1
  /\ shown' = IF program = "inf10-0" THEN <<value>> ELSE shown
  /\ mainPc' = "done"
  /\ UNCHANGED <<program, frames, pending, value, end, history>>

Step ==
  \/ Interrupt \/ Load \/ Store \/ SetEnd \/ ReadValue \/ PrintLine
  \/ Return \/ Announce \/ Scan \/ Clear \/ Leave

Next == Step \/ \E s \in AllSignals : Send(s)

-----------------------------------------------------------------------------
(* inf10-0 prints at least the number of SIGINTs that became pending while *)
(* main was in its loop and no SIGTERM had been sent, in whatever order    *)
(* and depth the handlers ran, and at most the number sent.                *)
CountsAccepted ==
  mainPc = "done" /\ program = "inf10-0" =>
    shown[1] \in accepted .. sent["inc"]

(* Handlers interrupt each other, and a negation may be lost; but when     *)
(* none runs the last line that inf10-1 printed is its value, unless the   *)
(* value changed between its being read for that line and the output.      *)
LastLineIsValue ==
  MainAt("loop") /\ program = "inf10-1" /\ shown # <<>> /\ ~overtaken =>
    shown = <<value>>

(* A SIGTERM ends inf10-0 whenever it comes; it ends inf10-1 when it comes *)
(* after main has cleared `end'.                                           *)
TermEnds ==
  "term" \in pending /\ (program = "inf10-0" \/ mainPc = "loop")
    ~> mainPc = "done"
=============================================================================
