------------------------------ MODULE WordCount ------------------------------
(***************************************************************************)
(* 1sem/inf09/inf09-2: one child per word.  A child reads a block of the   *)
(* common standard input and takes one word of it; when it exits, what it  *)
(* has not used is given back if the input is a file, and lost if it is a  *)
(* pipe.                                                                   *)
(***************************************************************************)
EXTENDS Integers, FiniteSetsExt

CONSTANTS
  MAX_NUM_OF_WORDS,
  Texts,     \* numbers of words in the input
  Block      \* words that one read returns

VARIABLES
  seekable, total,
  words,         \* not read yet
  pc, i, count,
  status,        \* of the child: 0, 1, or -1 if a signal killed it
  disturbed      \* history: a fork failed or a child was killed

vars == <<seekable, total, words, pc, i, count, status, disturbed>>

Init ==
  /\ seekable \in BOOLEAN /\ total \in Texts /\ words = total
  /\ pc = "fork" /\ i = 0 /\ count = 0 /\ status = 0 /\ disturbed = FALSE

Fork ==
  /\ pc = "fork" /\ i < MAX_NUM_OF_WORDS
  /\ pc' = "child"
  /\ UNCHANGED <<seekable, total, words, i, count, status, disturbed>>

(* waitpid(-1) fails and leaves status 0, which reads as the last word.    *)
ForkFails ==
  /\ pc = "fork" /\ i < MAX_NUM_OF_WORDS
  /\ pc' = "wait" /\ status' = 0 /\ disturbed' = TRUE
  /\ UNCHANGED <<seekable, total, words, i, count>>

Taken == IF seekable THEN 1 ELSE Min({Block, words})

Child ==
  /\ pc = "child"
  /\ IF words = 0 THEN status' = 0 /\ UNCHANGED words
                  ELSE status' = 1 /\ words' = words - Taken
  /\ pc' = "wait"
  /\ UNCHANGED <<seekable, total, i, count, disturbed>>

(* Before it has read, or after: then nothing is given back.               *)
ChildKilled ==
  /\ pc = "child"
  /\ words' \in {words, words - Min({Block, words})}
  /\ status' = -1 /\ pc' = "wait" /\ disturbed' = TRUE
  /\ UNCHANGED <<seekable, total, i, count>>

(* Mutant: any end but 0 is counted as a word.                             *)
CountAny ==
  /\ pc = "wait"
  /\ pc' = IF status = 0 THEN "print" ELSE "fork"
  /\ i' = IF status = 0 THEN i ELSE i + 1
  /\ count' = IF status = 0 THEN count ELSE count + 1
  /\ UNCHANGED <<seekable, total, words, status, disturbed>>

Wait ==
  /\ pc = "wait"
  /\ pc' = IF status = 0 THEN "print" ELSE "fork"
  /\ i' = IF status = 0 THEN i ELSE i + 1
  /\ count' = IF status = 1 THEN count + 1 ELSE count
  /\ UNCHANGED <<seekable, total, words, status, disturbed>>

Full ==
  /\ pc = "fork" /\ i = MAX_NUM_OF_WORDS
  /\ pc' = "print"
  /\ UNCHANGED <<seekable, total, words, i, count, status, disturbed>>

Next == Fork \/ ForkFails \/ Child \/ ChildKilled \/ Wait \/ Full

-----------------------------------------------------------------------------
(* The words of a file are counted, as far as there are children for them; *)
(* of a pipe only one word per block is.  Whatever fails, no word is       *)
(* counted that is not there.                                              *)
CountsWords ==
  pc = "print" =>
    LET found == IF seekable THEN total ELSE (total + Block - 1) \div Block
    IN  /\ ~disturbed => count = Min({found, MAX_NUM_OF_WORDS})
        /\ count <= Min({total, MAX_NUM_OF_WORDS})
=============================================================================
