------------------------------ MODULE GccCounter -----------------------------
(***************************************************************************)
(* 2sem/inf13: the parent counts what its child writes into a pipe - bytes *)
(* in inf13-0, lines with errors and with warnings in inf13-2.  In both it *)
(* reads until the end, which comes when the last copy of fds[1] is closed *)
(* and the pipe is empty.  tmp_str of inf13-2 has 64 bits that nobody      *)
(* initialises, and %u stores 32 of them.                                  *)
(***************************************************************************)
EXTENDS Integers, Sequences, FiniteSets

CONSTANTS
  Lines,      \* lines of the program that gcc has something to say about
  Kinds,      \* "error:", "warning:", and others that are not counted
  MaxOutput,  \* messages
  Capacity    \* of the pipe

VARIABLES
  upper,                      \* whether tmp_str's other 32 bits are not zero
  output,                     \* history: what the child has written
  pipe,                       \* what of it is in the pipe
  child, pc,
  errors_num, warnings_num, last_str_error, last_str_warning,
  total_size                  \* of inf13-0, a message being one byte

counters == <<errors_num, warnings_num, last_str_error, last_str_warning,
              total_size>>
vars == <<upper, output, pipe, child, pc, counters>>

(* pc = "close": the parent has not closed fds[1] yet.                     *)
Init ==
  /\ upper \in BOOLEAN
  /\ output = <<>> /\ pipe = <<>> /\ child = "exec" /\ pc = "close"
  /\ errors_num = 0 /\ warnings_num = 0
  /\ last_str_error = -1 /\ last_str_warning = -1 /\ total_size = 0

(* gcc reports in the order of its passes, not in that of the lines.       *)
Report(l, k) ==
  /\ child = "exec" /\ Len(output) < MaxOutput /\ Len(pipe) < Capacity
  /\ output' = Append(output, [line |-> l, kind |-> k])
  /\ pipe' = Append(pipe, [line |-> l, kind |-> k])
  /\ UNCHANGED <<upper, child, pc, counters>>

(* The command ends, or execlp has failed and the child does.              *)
ChildEnds ==
  /\ child = "exec" /\ child' = "done"
  /\ UNCHANGED <<upper, output, pipe, pc, counters>>

(* Mutant: the parent keeps its copy of fds[1].                            *)
KeepOpen ==
  /\ pc = "close" /\ pc' = "keep"
  /\ UNCHANGED <<upper, output, pipe, child, counters>>

CloseFd ==
  /\ pc = "close" /\ pc' = "read"
  /\ UNCHANGED <<upper, output, pipe, child, counters>>

(* Mutant: every message counts.                                           *)
CountEach ==
  /\ pc \in {"read", "keep"} /\ pipe # <<>>
  /\ LET m == Head(pipe)
     IN  /\ errors_num' = errors_num + (IF m.kind = "error:" THEN 1 ELSE 0)
         /\ warnings_num' =
              warnings_num + (IF m.kind = "warning:" THEN 1 ELSE 0)
  /\ pipe' = Tail(pipe) /\ total_size' = total_size + 1
  /\ UNCHANGED <<upper, output, child, pc, last_str_error, last_str_warning>>

(* What tmp_str is when line l was scanned: with other bits than zero at   *)
(* the top it differs from every int that was assigned from it.            *)
Differs(l, last) == upper \/ l # last

Count ==
  /\ pc \in {"read", "keep"} /\ pipe # <<>>
  /\ LET m == Head(pipe)
         error == m.kind = "error:" /\ Differs(m.line, last_str_error)
         warning == m.kind = "warning:" /\ Differs(m.line, last_str_warning)
     IN  /\ errors_num' = errors_num + (IF error THEN 1 ELSE 0)
         /\ warnings_num' = warnings_num + (IF warning THEN 1 ELSE 0)
         /\ last_str_error' = IF error THEN m.line ELSE last_str_error
         /\ last_str_warning' = IF warning THEN m.line ELSE last_str_warning
  /\ pipe' = Tail(pipe) /\ total_size' = total_size + 1
  /\ UNCHANGED <<upper, output, child, pc>>

ShowCounts ==
  /\ pc = "read" /\ pipe = <<>> /\ child = "done"
  /\ pc' = "done"
  /\ UNCHANGED <<upper, output, pipe, child, counters>>

ParentStep == CloseFd \/ Count \/ ShowCounts
Next ==
  \/ ParentStep \/ ChildEnds
  \/ \E l \in Lines, k \in Kinds : Report(l, k)

-----------------------------------------------------------------------------
About(kind) == {n \in DOMAIN output : output[n].kind = kind}
LinesWith(kind) == {output[n].line : n \in About(kind)}

(* Messages about a line follow each other: no other line between them.    *)
Grouped(kind) ==
  \A m, n, o \in About(kind) :
    m < n /\ n < o /\ output[m].line = output[o].line
      => output[n].line = output[m].line

(* Every byte is counted.  With zeros at the top of tmp_str no line with   *)
(* errors or warnings is missed, and each counts once if the messages      *)
(* about it follow each other; else every message counts.                  *)
CountsLines ==
  pc = "done" =>
    /\ total_size = Len(output)
    /\ \A k \in {"error:", "warning:"} :
         LET num == IF k = "error:" THEN errors_num ELSE warnings_num
         IN  /\ num \in Cardinality(LinesWith(k)) .. Cardinality(About(k))
             /\ ~upper /\ Grouped(k) => num = Cardinality(LinesWith(k))
             /\ upper => num = Cardinality(About(k))

(* The parent sees the end of the pipe when the child has ended.           *)
CounterEnds == child = "done" ~> pc = "done"
=============================================================================
