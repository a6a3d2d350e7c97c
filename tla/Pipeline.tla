------------------------------ MODULE Pipeline -------------------------------
(***************************************************************************)
(* 2sem/inf13: CMD1 | ... | CMDN with two non-blocking pipes.  The parent  *)
(* runs one command at a time and, when it has ended, carries its output   *)
(* from fds_in to fds_out, from where the next command reads.  inf13-3 and *)
(* inf13-4 are the same text; in inf13-1 a child whose execlp fails does   *)
(* not exit, but goes on with the loop as if it were the parent.           *)
(***************************************************************************)
EXTENDS Integers, Sequences, SequencesExt

CONSTANTS
  N,         \* argc - 1
  Input,     \* what the first command reads
  Capacity   \* of a pipe

(* "cat" copies, "twice" writes each item twice, "line" reads one item and *)
(* copies it, "tac" writes its items from the last to the first, and       *)
(* nothing unless it has seen the end of its input; "missing" cannot be    *)
(* executed.                                                               *)
Commands == {"cat", "twice", "line", "tac", "missing"}

Start(s, k) == SubSeq(s, 1, IF k < Len(s) THEN k ELSE Len(s))
Doubled(s) == [i \in 1 .. 2 * Len(s) |-> s[(i + 1) \div 2]]
Written(cmd, s) ==
  CASE cmd = "cat" -> s [] cmd = "twice" -> Doubled(s)
    [] cmd = "line" -> Start(s, 1) [] cmd = "tac" -> Reverse(s)
Unread(cmd, s) == IF cmd = "line" THEN SubSeq(s, 2, Len(s)) ELSE <<>>

(* The first command meets the end of the parent's standard input.  The    *)
(* writing end of fds_out stays open in the parent and in the command, so  *)
(* that for all others the last read fails with EAGAIN instead.            *)
Outcome(cmd, s, stage) ==
  IF stage > 1 /\ cmd = "tac" THEN <<>> ELSE Written(cmd, s)

(* What a write to a non-blocking pipe that holds `old' leaves in it.      *)
Filled(old, new) == Start(old \o new, Capacity)

VARIABLES
  version, argv,
  procs,      \* the parent and what it waits for, innermost last: the stage,
              \* where it is, and whether its output goes to fds_in
  fds_in, fds_out,
  output,     \* of the last command
  started,    \* history: how often each command was started
  damaged,    \* history: a fork failed, or a command left input behind that
              \* the next one finds
  cut         \* history: a pipe was full, or a command missed the end of its
              \* input

pipes == <<fds_in, fds_out, output>>
vars == <<version, argv, procs, pipes, started, damaged, cut>>

Init ==
  /\ version \in {"inf13-1", "inf13-3"} /\ argv \in [1 .. N -> Commands]
  /\ procs = <<[stage |-> 1, at |-> "fork", redirected |-> FALSE]>>
  /\ fds_in = <<>> /\ fds_out = <<>> /\ output = <<>>
  /\ started = [i \in 1 .. N |-> 0] /\ damaged = FALSE /\ cut = FALSE

Proc == Last(procs)
Moved(at) == Front(procs) \o <<[Proc EXCEPT !.at = at]>>
Piped == Proc.stage < N \/ Proc.redirected

Fork ==
  /\ procs # <<>> /\ Proc.at = "fork" /\ Proc.stage <= N
  /\ procs' = Moved("exec")
  /\ UNCHANGED <<version, argv, pipes, started, damaged, cut>>

(* fork returns -1: nothing runs, and wait returns at once.                *)
ForkFails ==
  /\ procs # <<>> /\ Proc.at = "fork" /\ Proc.stage <= N
  /\ procs' = Moved("shuttle")
  /\ damaged' = TRUE
  /\ UNCHANGED <<version, argv, pipes, started, cut>>

(* The command runs alone until it ends, and the parent's wait returns.    *)
Run ==
  /\ procs # <<>> /\ Proc.at = "exec" /\ argv[Proc.stage] # "missing"
  /\ LET cmd == argv[Proc.stage]
         stdin == IF Proc.stage = 1 THEN Input ELSE fds_out
         text == Outcome(cmd, stdin, Proc.stage)
     IN  /\ fds_in' = IF Piped THEN Filled(fds_in, text) ELSE fds_in
         /\ output' = IF Piped THEN output ELSE output \o text
         /\ fds_out' = IF Proc.stage = 1 THEN fds_out ELSE Unread(cmd, stdin)
         /\ damaged' = (damaged \/ (Proc.stage \in 2 .. N - 1 /\ fds_out' # <<>>))
         /\ cut' = \/ cut
                   \/ Piped /\ Len(fds_in \o text) > Capacity
                   \/ Proc.stage > 1 /\ cmd = "tac"
  /\ started' = [started EXCEPT ![Proc.stage] = @ + 1]
  /\ procs' = Moved("shuttle")
  /\ UNCHANGED <<version, argv>>

(* Mutant: no exit(1) after perror in any version.                         *)
NeverExit ==
  /\ procs # <<>> /\ Proc.at = "exec" /\ argv[Proc.stage] = "missing"
  /\ procs' = Append(Moved("wait"),
                     [stage |-> Proc.stage + 1, at |-> "fork",
                      redirected |-> Piped])
  /\ UNCHANGED <<version, argv, pipes, started, damaged, cut>>

(* execlp returns: exit(1), or one more process in the loop.               *)
ExecFails ==
  /\ procs # <<>> /\ Proc.at = "exec" /\ argv[Proc.stage] = "missing"
  /\ procs' = IF version = "inf13-3" THEN Moved("shuttle")
              ELSE Append(Moved("wait"),
                          [stage |-> Proc.stage + 1, at |-> "fork",
                           redirected |-> Piped])
  /\ UNCHANGED <<version, argv, pipes, started, damaged, cut>>

(* Mutant: one read only, of a buffer of one item.                         *)
ShuttleOnce ==
  /\ procs # <<>> /\ Proc.at = "shuttle"
  /\ procs' = Front(procs)
                \o <<[Proc EXCEPT !.stage = @ + 1, !.at = "fork"]>>
  /\ fds_out' = Filled(fds_out, Start(fds_in, 1))
  /\ fds_in' = SubSeq(fds_in, 2, Len(fds_in))
  /\ UNCHANGED <<version, argv, output, started, damaged, cut>>

(* Mutant: pipes without O_NONBLOCK, where the read after the last waits.   *)
ShuttleBlocks ==
  /\ procs # <<>> /\ Proc.at = "shuttle" /\ Proc.stage >= N
  /\ procs' = Front(procs)
                \o <<[Proc EXCEPT !.stage = @ + 1, !.at = "fork"]>>
  /\ UNCHANGED <<version, argv, pipes, started, damaged, cut>>

(* while ((tmp_size = read(...)) > 0) write(...), and the next turn        *)
Shuttle ==
  /\ procs # <<>> /\ Proc.at = "shuttle"
  /\ procs' = Front(procs)
                \o <<[Proc EXCEPT !.stage = @ + 1, !.at = "fork"]>>
  /\ IF Proc.stage < N
     THEN /\ fds_out' = Filled(fds_out, fds_in) /\ fds_in' = <<>>
          /\ cut' = (cut \/ Len(fds_out \o fds_in) > Capacity)
     ELSE UNCHANGED <<fds_in, fds_out, cut>>
  /\ UNCHANGED <<version, argv, output, started, damaged>>

(* The loop ends, and so does the process; who waited for it goes on.      *)
End ==
  /\ procs # <<>> /\ Proc.at = "fork" /\ Proc.stage > N
  /\ procs' = IF Len(procs) = 1 THEN <<>>
              ELSE LET rest == Front(procs)
                   IN  Front(rest) \o <<[Last(rest) EXCEPT !.at = "shuttle"]>>
  /\ UNCHANGED <<version, argv, pipes, started, damaged, cut>>

Next == Fork \/ ForkFails \/ Run \/ ExecFails \/ Shuttle \/ End

-----------------------------------------------------------------------------
Ended == procs = <<>>
AllExist == "missing" \notin ToSet(argv)

(* What the shell would get after the first k commands.                    *)
Composition[k \in 0 .. N] ==
  IF k = 0 THEN Input ELSE Written(argv[k], Composition[k - 1])

(* When every process could be made and no command left input for the     *)
(* next, the output is the shell's, or a beginning of it where a pipe was  *)
(* full or a command waited for the end of an input that never ends.       *)
OutputIsComposition ==
  Ended /\ AllExist /\ ~damaged =>
    /\ IsPrefix(output, Composition[N])
    /\ ~cut => output = Composition[N]

(* No command is started twice; in inf13-1 only if all can be executed.    *)
StartedOnce ==
  version = "inf13-3" \/ AllExist => \A i \in 1 .. N : started[i] <= 1

(* The parent ends, whatever fails.                                        *)
PipelineEnds == <>Ended
=============================================================================
