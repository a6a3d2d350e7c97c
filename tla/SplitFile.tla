------------------------------ MODULE SplitFile ------------------------------
(***************************************************************************)
(* 1sem/inf07/inf07-0: digits to one file, the rest to another.  The       *)
(* output buffers are strings: a zero byte is written over by what follows *)
(* it.  Both are flushed in turn, and one variable has the result of both  *)
(* writes.  A file that is made here has no permission to write, so that a *)
(* second call cannot open it; one that can be opened is not truncated.    *)
(* Buffers and files hold the places of their characters in the input.     *)
(***************************************************************************)
EXTENDS Integers, Sequences, FiniteSets

CONSTANTS
  Inputs,    \* sequences of "digit", "other" and "zero"
  Full,      \* length at which a buffer is written: 999
  OldSizes   \* of files that are there already

VARIABLES
  input, denied, existing,  \* output files that may not be written, and how
                            \* long they are before
  pos, pc,
  buf, out,                 \* of output1 ("digit") and output2 ("other"): the
                            \* buffer, and what was written of it
  status,                   \* what the program returns
  lost                      \* history: a write that failed

vars == <<input, denied, existing, pos, pc, buf, out, status, lost>>

Output == {"digit", "other"}

Init ==
  /\ input \in Inputs /\ denied \in SUBSET Output
  /\ existing \in [Output -> OldSizes]
  /\ pos = 0 /\ pc = "open"
  /\ buf = [o \in Output |-> <<>>] /\ out = buf
  /\ status = 0 /\ lost = FALSE

Open ==
  /\ pc = "open"
  /\ IF denied = {} THEN pc' = "read" /\ UNCHANGED status
                    ELSE pc' = "done" /\ status' = 2
  /\ UNCHANGED <<input, denied, existing, pos, buf, out, lost>>

(* A file, in which 0 is a character that was there before: the first      *)
(* write is to its beginning.                                              *)
File(o) ==
  [n \in 1 .. IF Len(out[o]) < existing[o] THEN existing[o] ELSE Len(out[o])
     |-> IF n <= Len(out[o]) THEN out[o][n] ELSE 0]

(* A zero byte leaves the string as it is.                                 *)
Stored(k) ==
  [o \in Output |-> IF input[k] = o THEN Append(buf[o], k) ELSE buf[o]]

Store ==
  /\ pc = "read" /\ pos < Len(input)
  /\ pos' = pos + 1 /\ buf' = Stored(pos + 1)
  /\ pc' = "flush"
  /\ UNCHANGED <<input, denied, existing, out, status, lost>>

(* Writing the buffers of `due', of which those of `failing' fail.  Only   *)
(* the result of the last write is looked at.                              *)
Flush(due, failing) ==
  /\ out' = [o \in Output |->
               IF o \in due \ failing THEN out[o] \o buf[o] ELSE out[o]]
  /\ buf' = [o \in Output |-> IF o \in due THEN <<>> ELSE buf[o]]
  /\ lost' = (lost \/ failing # {})
  /\ LET seen == IF "other" \in due THEN "other" ELSE "digit"
     IN  status' = IF seen \in failing THEN 3 ELSE status

(* Mutant: the buffers are cleared, but not written, in the loop.          *)
ForgetFull ==
  /\ pc = "flush"
  /\ LET due == {o \in Output : Len(buf[o]) = Full}
     IN  buf' = [o \in Output |-> IF o \in due THEN <<>> ELSE buf[o]]
  /\ pc' = "read"
  /\ UNCHANGED <<input, denied, existing, pos, out, status, lost>>

FlushFull ==
  /\ pc = "flush"
  /\ LET due == {o \in Output : Len(buf[o]) = Full}
     IN  \E failing \in SUBSET due : Flush(due, failing)
  /\ pc' = IF status' = 3 THEN "done" ELSE "read"
  /\ UNCHANGED <<input, denied, existing, pos>>

FlushRest ==
  /\ pc = "read" /\ pos = Len(input)
  /\ LET due == {o \in Output : buf[o] # <<>>}
     IN  \E failing \in SUBSET due : Flush(due, failing)
  /\ pc' = "done"
  /\ UNCHANGED <<input, denied, existing, pos>>

(* read returns -1: the buffers are written, and the program returns 3.    *)
ReadFails ==
  /\ pc = "read"
  /\ out' = [o \in Output |-> out[o] \o buf[o]]
  /\ status' = 3 /\ pc' = "done"
  /\ UNCHANGED <<input, denied, existing, pos, buf, lost>>

Next == Open \/ Store \/ FlushFull \/ FlushRest \/ ReadFails

-----------------------------------------------------------------------------
Mine(o) == {k \in DOMAIN input : input[k] = o}

(* If the program returns 0 and no failure was hidden by a later success,  *)
(* each file has all of its characters in order, zero bytes aside, and     *)
(* what was there before only behind them, if it was longer.  A failure is *)
(* hidden only if it was output1's and output2 was written right after.    *)
SplitsInput ==
  pc = "done" /\ status = 0 =>
    \A o \in Output :
      ~lost \/ o = "other" =>
        LET text == File(o)
            size == Cardinality(Mine(o))
        IN  /\ Len(text) = (IF size < existing[o] THEN existing[o] ELSE size)
            /\ {text[n] : n \in 1 .. size} = Mine(o)
            /\ \A m, n \in 1 .. size : m < n => text[m] < text[n]
            /\ \A n \in size + 1 .. Len(text) : text[n] = 0
=============================================================================
