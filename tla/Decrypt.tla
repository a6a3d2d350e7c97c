------------------------------- MODULE Decrypt -------------------------------
(***************************************************************************)
(* 2sem/inf22/inf22-1: a header with the salt is read in pieces, then the  *)
(* rest is decrypted block by block, then the text is written in pieces.   *)
(* Where the next piece of the header goes is found with strlen, which     *)
(* stops at the first zero byte of the salt.  A call that returns -1 makes *)
(* need_to_read or need_to_write one greater, both being unsigned.         *)
(***************************************************************************)
EXTENDS Integers, Sequences, FiniteSetsExt

CONSTANTS
  HeaderLen,
  Bodies,     \* lengths of what follows the header
  buf_size,
  MaxErrors   \* how many calls return -1

VARIABLES
  file,            \* the header: a position that holds a zero byte, or 0
  left,            \* bytes of standard input that were not read
  body,
  pc,
  buf,             \* which byte of the header each place holds, 0 if none
  need_to_read,
  total_len,       \* decrypted
  need_to_write,
  written,         \* which byte of ans each byte of the output is
  readErrors, writeErrors

input == <<file, body>>
vars ==
  <<input, left, pc, buf, need_to_read, total_len, need_to_write, written,
    readErrors, writeErrors>>

(* The input may end within the header.                                    *)
Init ==
  /\ file \in 0 .. HeaderLen /\ body \in Bodies
  /\ left \in 0 .. HeaderLen - 1 \cup {HeaderLen + body}
  /\ pc = "header" /\ buf = [k \in 1 .. HeaderLen |-> 0]
  /\ need_to_read = HeaderLen
  /\ total_len = 0 /\ need_to_write = 0 /\ written = <<>>
  /\ readErrors = 0 /\ writeErrors = 0

(* strlen(buf): bytes before the first that is zero.                       *)
Length ==
  Min({k \in 1 .. HeaderLen : buf[k] \in {0, file}} \cup {HeaderLen + 1}) - 1

(* What was read before.                                                   *)
Before == HeaderLen + readErrors - need_to_read

(* Mutant: each piece is read to the beginning of the buffer.              *)
ReadToStart ==
  /\ pc = "header" /\ need_to_read > 0 /\ left > 0
  /\ \E n \in 1 .. Min({need_to_read, left}) :
       /\ buf' = [k \in 1 .. HeaderLen |->
                    IF k <= n THEN Before + k ELSE buf[k]]
       /\ need_to_read' = need_to_read - n /\ left' = left - n
  /\ UNCHANGED <<input, pc, total_len, need_to_write, written, readErrors,
                 writeErrors>>

(* At the end of the input read returns 0 for ever: no step.  What is read *)
(* beyond the header goes behind it.                                       *)
ReadHeader ==
  /\ pc = "header" /\ need_to_read > 0 /\ left > 0
  /\ \E n \in 1 .. Min({need_to_read, left}) :
       /\ buf' = [k \in 1 .. HeaderLen |->
                    IF k > Length /\ k <= Length + n
                    THEN Before + k - Length ELSE buf[k]]
       /\ need_to_read' = need_to_read - n /\ left' = left - n
  /\ UNCHANGED <<input, pc, total_len, need_to_write, written, readErrors,
                 writeErrors>>

ReadFails ==
  /\ pc = "header" /\ need_to_read > 0 /\ readErrors < MaxErrors
  /\ need_to_read' = need_to_read + 1 /\ readErrors' = readErrors + 1
  /\ UNCHANGED <<input, left, pc, buf, total_len, need_to_write, written,
                 writeErrors>>

DeriveKey ==
  /\ pc = "header" /\ need_to_read = 0
  /\ pc' = "decrypt"
  /\ UNCHANGED <<input, left, buf, need_to_read, total_len, need_to_write,
                 written, readErrors, writeErrors>>

(* A read that returns -1 decrypts nothing: no step.                       *)
Update ==
  /\ pc = "decrypt" /\ left > 0
  /\ \E n \in 1 .. Min({buf_size, left}) :
       left' = left - n /\ total_len' = total_len + n
  /\ UNCHANGED <<input, pc, buf, need_to_read, need_to_write, written,
                 readErrors, writeErrors>>

Final ==
  /\ pc = "decrypt" /\ left = 0
  /\ need_to_write' = total_len /\ pc' = "write"
  /\ UNCHANGED <<input, left, buf, need_to_read, total_len, written,
                 readErrors, writeErrors>>

(* len is what total_len has more than need_to_write: below 0 it points    *)
(* before ans.                                                             *)
Write ==
  /\ pc = "write" /\ need_to_write > 0
  /\ \E n \in 1 .. need_to_write :
       /\ need_to_write' = need_to_write - n
       /\ written' =
            written \o [k \in 1 .. n |-> total_len - need_to_write + k]
  /\ UNCHANGED <<input, left, pc, buf, need_to_read, total_len, readErrors,
                 writeErrors>>

(* The next write begins one byte further back.                            *)
WriteFails ==
  /\ pc = "write" /\ need_to_write > 0 /\ writeErrors < MaxErrors
  /\ need_to_write' = need_to_write + 1 /\ writeErrors' = writeErrors + 1
  /\ UNCHANGED <<input, left, pc, buf, need_to_read, total_len, written,
                 readErrors>>

Free ==
  /\ pc = "write" /\ need_to_write = 0
  /\ pc' = "done"
  /\ UNCHANGED <<input, left, buf, need_to_read, total_len, need_to_write,
                 written, readErrors, writeErrors>>

Next ==
  \/ ReadHeader \/ ReadFails \/ DeriveKey \/ Update \/ Final
  \/ Write \/ WriteFails \/ Free

-----------------------------------------------------------------------------
(* A program that ends has written every byte that it has decrypted, and  *)
(* each once and in order if no write has failed; these are all bytes of   *)
(* the body but those that failing reads of the header have taken; and the *)
(* salt is that of the file unless it has a zero byte.                     *)
DecryptsAll ==
  pc = "done" =>
    /\ total_len = body - readErrors
    /\ \A p \in 1 .. total_len : \E k \in DOMAIN written : written[k] = p
    /\ writeErrors = 0 => written = [k \in 1 .. total_len |-> k]
    /\ file = 0 => buf = [k \in 1 .. HeaderLen |-> k]
=============================================================================
