------------------------------ MODULE Calculator -----------------------------
(***************************************************************************)
(* 1sem/inf12/inf12-1: the value of a C expression, by writing programm.c, *)
(* running gcc, a.out and rm.  The two files are what one call leaves to   *)
(* the next: programm.c is opened without O_TRUNC, a.out is never removed, *)
(* and no result of a child is looked at.                                  *)
(***************************************************************************)
EXTENDS Integers, Sequences

CONSTANTS
  Exprs,      \* expressions, each with one of the Lengths
  Invalid,    \* those that gcc rejects
  Long,       \* those that are longer than the others
  MaxCalls

VARIABLES
  pc, c, calls,
  source,     \* programm.c: <<>> if there is none, else the expression at
              \* its beginning and whether the end of a longer one follows
  binary,     \* a.out: <<>>, or the expression it evaluates
  printed,    \* expressions whose values this call has printed
  clean,      \* history: programm.c did not exist when this call began
  failed      \* history: a fork or exec of this call failed

vars == <<pc, c, calls, source, binary, printed, clean, failed>>

Init ==
  /\ pc = "idle" /\ c \in Exprs /\ calls = 0
  /\ source = <<>> /\ binary = <<>> /\ printed = <<>>
  /\ clean = TRUE /\ failed = FALSE

Call(e) ==
  /\ pc = "idle" /\ calls < MaxCalls
  /\ calls' = calls + 1 /\ c' = e /\ pc' = "write"
  /\ printed' = <<>> /\ failed' = FALSE /\ clean' = (source = <<>>)
  /\ UNCHANGED <<source, binary>>

(* The old text stays behind the new one where it is longer.               *)
WriteSource ==
  /\ pc = "write"
  /\ source' = <<[expr |-> c,
                  tail |-> /\ source # <<>> /\ c \notin Long
                           /\ source[1].expr \in Long \/ source[1].tail]>>
  /\ pc' = "gcc"
  /\ UNCHANGED <<c, calls, binary, printed, clean, failed>>

(* gcc leaves the old a.out alone when it reports an error.                *)
Gcc ==
  /\ pc = "gcc"
  /\ binary' = IF source[1].expr \in Invalid \/ source[1].tail THEN binary
               ELSE <<source[1].expr>>
  /\ pc' = "run"
  /\ UNCHANGED <<c, calls, source, printed, clean, failed>>

Run ==
  /\ pc = "run"
  /\ printed' = binary
  /\ pc' = "rm"
  /\ UNCHANGED <<c, calls, source, binary, clean, failed>>

(* Mutant: a child that fails to execute rm is not noticed, as the others. *)
RmFails ==
  /\ pc = "rm" /\ pc' = "idle"
  /\ UNCHANGED <<c, calls, source, binary, printed, clean, failed>>

Rm ==
  /\ pc = "rm" /\ source' = <<>> /\ pc' = "idle"
  /\ UNCHANGED <<c, calls, binary, printed, clean, failed>>

After == [gcc |-> "run", run |-> "rm", rm |-> "idle"]

(* fork or execlp fails: the next child is made all the same.              *)
ChildFails ==
  /\ pc \in DOMAIN After /\ pc' = After[pc] /\ failed' = TRUE
  /\ UNCHANGED <<c, calls, source, binary, printed, clean>>

(* The call is killed between two children.                                *)
Killed ==
  /\ pc # "idle" /\ pc' = "idle" /\ failed' = TRUE
  /\ UNCHANGED <<c, calls, source, binary, printed, clean>>

Next ==
  \/ \E e \in Exprs : Call(e)
  \/ WriteSource \/ Gcc \/ Run \/ Rm \/ ChildFails \/ Killed

-----------------------------------------------------------------------------
(* A call in which nothing failed, with an expression that is one, prints  *)
(* its value if it found no programm.c; and it never finds one if nothing  *)
(* failed before.                                                          *)
PrintsItsValue ==
  /\ pc = "idle" /\ calls > 0 /\ ~failed =>
       /\ source = <<>>
       /\ clean /\ c \notin Invalid => printed = <<c>>
=============================================================================
