-------------------------------- MODULE Chain --------------------------------
(***************************************************************************)
(* A chain in which each link makes the next, waits for it, and then says  *)
(* something: processes in 1sem/inf09/inf09-0 (how many can there be?) and *)
(* inf09-1 (1 2 ... N), threads in 2sem/inf16/inf16-0 (the numbers of the  *)
(* input, the last one first).                                             *)
(***************************************************************************)
EXTENDS Integers, Sequences, SequencesExt

CONSTANTS
  Counts,   \* values of N, or numbers on the input
  Limits    \* how many processes the user may have

VARIABLES
  task, count, limit,
  links,    \* "run", "wait" or "done" for each link so far
  said

vars == <<task, count, limit, links, said>>

Init ==
  /\ task \in {"inf09-0", "inf09-1", "inf16-0"}
  /\ count \in Counts /\ limit \in Limits
  /\ links = <<"run">> /\ said = <<>>

Running == Last(links) = "run"

(* inf09-0 forks until it fails, the others while there is a number left.  *)
WantsMore == task = "inf09-0" \/ Len(links) <= count
MayFork == task = "inf16-0" \/ Len(links) < limit

(* What link i says: inf09-1 counts down, the input is 1, 2, ...           *)
Number(i) == IF task = "inf09-1" THEN count - i + 1 ELSE i

Spawn ==
  /\ Running /\ WantsMore /\ MayFork
  /\ links' = Append(Front(links), "wait") \o <<"run">>
  /\ UNCHANGED <<task, count, limit, said>>

(* Mutant: a fork that fails is tried again.                               *)
TryAgain ==
  /\ Running /\ WantsMore /\ ~MayFork
  /\ UNCHANGED <<task, count, limit, links, said>>

(* fork returns -1: inf09-0 says how many there are, inf09-1 its number.   *)
SpawnFails ==
  /\ Running /\ WantsMore /\ ~MayFork
  /\ links' = Append(Front(links), "done")
  /\ said' = Append(said, Number(Len(links)))
  /\ UNCHANGED <<task, count, limit>>

Stop ==
  /\ Running /\ ~WantsMore
  /\ links' = Append(Front(links), "done")
  /\ UNCHANGED <<task, count, limit, said>>

(* Mutant: no waitpid.                                                     *)
FinishAtOnce(i) ==
  /\ links[i] = "wait"
  /\ links' = [links EXCEPT ![i] = "done"]
  /\ said' = IF task = "inf09-0" THEN said ELSE Append(said, Number(i))
  /\ UNCHANGED <<task, count, limit>>

(* waitpid or pthread_join returns.                                        *)
Finish(i) ==
  /\ links[i] = "wait" /\ links[i + 1] = "done"
  /\ links' = [links EXCEPT ![i] = "done"]
  /\ said' = IF task = "inf09-0" THEN said ELSE Append(said, Number(i))
  /\ UNCHANGED <<task, count, limit>>

Next == Spawn \/ SpawnFails \/ Stop \/ \E i \in DOMAIN links : Finish(i)

-----------------------------------------------------------------------------
(* When the first link has ended: inf09-0 has said the number of processes *)
(* there could be, once; inf09-1 the numbers up to N, from 1 unless forks  *)
(* failed; inf16-0 the input backwards.                                    *)
SaysAll ==
  links[1] = "done" =>
    said = CASE task = "inf09-0" -> <<limit>>
             [] task = "inf09-1" ->
                  LET first == IF limit > count THEN 1 ELSE count - limit + 1
                  IN  [i \in 1 .. count - first + 1 |-> first + i - 1]
             [] task = "inf16-0" -> Reverse([i \in 1 .. count |-> i])

(* Nobody is left behind when the first link ends.                         *)
ChainEnds == <>(\A i \in DOMAIN links : links[i] = "done")
=============================================================================
