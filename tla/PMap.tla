-------------------------------- MODULE PMap ---------------------------------
(***************************************************************************)
(* 2sem/inf18/inf18-1/prog.c: pmap_process applies a function to an array  *)
(* in procnum forked workers that write to shared memory. Each posts a     *)
(* process-shared semaphore when its stride is done; the caller waits on   *)
(* the semaphore procnum times and only then collects the zombies.         *)
(*                                                                         *)
(* The code tests neither fork nor how a worker ended, so both may go      *)
(* wrong here when MayFail: fork returns -1, or func kills its worker.     *)
(***************************************************************************)
EXTENDS Integers, FiniteSets

CONSTANTS
  Procnum,  \* get_nprocs()
  Count,    \* the length of the array
  MayFail   \* whether fork may fail and workers may die

Worker == 0 .. Procnum - 1
Index == 0 .. Count - 1

ASSUME ProcnumAssumption == Procnum \in Nat \ {0}
ASSUME CountAssumption == Count \in Nat
ASSUME MayFailAssumption == MayFail \in BOOLEAN

(* What an anonymous mapping holds before it is written.                   *)
Zeroed == -1

VARIABLES
  out,         \* out[ind] = j when it holds func(in[j])
  procReady,   \* the value of the semaphore
  workers,     \* the array of pids: the worker's number, or -1 (fork failed)
  workerPc,    \* where each worker is
  ind,         \* each worker's loop counter
  callerPc,    \* where the caller is
  i            \* the caller's loop counter

vars == <<out, procReady, workers, workerPc, ind, callerPc, i>>
callerVars == <<workers, callerPc, i>>

Init ==
  /\ out = [x \in Index |-> Zeroed]
  /\ procReady = 0
  /\ workers = [w \in Worker |-> -1]
  /\ workerPc = [w \in Worker |-> "none"]
  /\ ind = [w \in Worker |-> w]
  /\ callerPc = "fork"
  /\ i = 0

-----------------------------------------------------------------------------
(* The workers                                                             *)

(* Mutant: the stride is one too long.                                     *)
ComputeWithLongStride(w) ==
  /\ workerPc[w] = "work"
  /\ ind[w] < Count
  /\ out' = [out EXCEPT ![ind[w]] = ind[w]]
  /\ ind' = [ind EXCEPT ![w] = @ + Procnum + 1]
  /\ UNCHANGED <<procReady, workerPc>>
  /\ UNCHANGED callerVars

(* Mutant: the loop does not move on.                                      *)
ComputeInPlace(w) ==
  /\ workerPc[w] = "work"
  /\ ind[w] < Count
  /\ out' = [out EXCEPT ![ind[w]] = ind[w]]
  /\ UNCHANGED <<procReady, workerPc, ind>>
  /\ UNCHANGED callerVars

(* out[ind] = func(in[ind]); ind += procnum.                               *)
Compute(w) ==
  /\ workerPc[w] = "work"
  /\ ind[w] < Count
  /\ out' = [out EXCEPT ![ind[w]] = ind[w]]
  /\ ind' = [ind EXCEPT ![w] = @ + Procnum]
  /\ UNCHANGED <<procReady, workerPc>>
  /\ UNCHANGED callerVars

(* Mutant: the worker posts once more on its way out.                      *)
PostTwice(w) ==
  /\ workerPc[w] = "work"
  /\ ind[w] >= Count
  /\ procReady' = procReady + 2
  /\ workerPc' = [workerPc EXCEPT ![w] = "posted"]
  /\ UNCHANGED <<out, ind>>
  /\ UNCHANGED callerVars

Post(w) ==
  /\ workerPc[w] = "work"
  /\ ind[w] >= Count
  /\ procReady' = procReady + 1
  /\ workerPc' = [workerPc EXCEPT ![w] = "posted"]
  /\ UNCHANGED <<out, ind>>
  /\ UNCHANGED callerVars

(* sem_close, which does nothing to an unnamed semaphore, and exit.        *)
Exit(w) ==
  /\ workerPc[w] = "posted"
  /\ workerPc' = [workerPc EXCEPT ![w] = "zombie"]
  /\ UNCHANGED <<out, procReady, ind>>
  /\ UNCHANGED callerVars

(* func, or anything else, kills the worker before it posts.               *)
Die(w) ==
  /\ MayFail
  /\ workerPc[w] = "work"
  /\ workerPc' = [workerPc EXCEPT ![w] = "killed"]
  /\ UNCHANGED <<out, procReady, ind>>
  /\ UNCHANGED callerVars

-----------------------------------------------------------------------------
(* The caller                                                              *)

(* The next turn of a for loop over 0, ..., procnum - 1, or the next loop. *)
EndTurn(nextPc) ==
  IF i + 1 < Procnum
    THEN /\ i' = i + 1
         /\ UNCHANGED callerPc
    ELSE /\ i' = 0
         /\ callerPc' = nextPc

Fork ==
  /\ callerPc = "fork"
  /\ workers' = [workers EXCEPT ![i] = i]
  /\ workerPc' = [workerPc EXCEPT ![i] = "work"]
  /\ EndTurn("wait")
  /\ UNCHANGED <<out, procReady, ind>>

ForkFails ==
  /\ MayFail
  /\ callerPc = "fork"
  /\ workers' = [workers EXCEPT ![i] = -1]
  /\ EndTurn("wait")
  /\ UNCHANGED <<out, procReady, ind, workerPc>>

(* Mutant: the wait gives up instead of blocking.                          *)
SemTryWait ==
  /\ callerPc = "wait"
  /\ procReady' = IF procReady > 0 THEN procReady - 1 ELSE 0
  /\ EndTurn("reap")
  /\ UNCHANGED <<out, workers, workerPc, ind>>

SemWait ==
  /\ callerPc = "wait"
  /\ procReady > 0
  /\ procReady' = procReady - 1
  /\ EndTurn("reap")
  /\ UNCHANGED <<out, workers, workerPc, ind>>

(* Mutant: waitpid with WNOHANG.                                           *)
ReapIfReady ==
  /\ callerPc = "reap"
  /\ workerPc' = [workerPc EXCEPT ![workers[i]] = IF @ = "zombie" THEN "reaped" ELSE @]
  /\ EndTurn("returned")
  /\ UNCHANGED <<out, procReady, ind, workers>>

(* waitpid(workers[i], NULL, 0); workers[i] is a pid here, as NoZombies    *)
(* says.                                                                   *)
Reap ==
  /\ callerPc = "reap"
  /\ workerPc[workers[i]] \in {"zombie", "killed"}
  /\ workerPc' = [workerPc EXCEPT ![workers[i]] = "reaped"]
  /\ EndTurn("returned")
  /\ UNCHANGED <<out, procReady, ind, workers>>

Returned == callerPc = "returned" /\ UNCHANGED vars

-----------------------------------------------------------------------------
WorkerStep(w) == Compute(w) \/ Post(w) \/ Exit(w)
CallerStep == Fork \/ SemWait \/ Reap

Next ==
  \/ CallerStep
  \/ ForkFails
  \/ \E w \in Worker : WorkerStep(w) \/ Die(w)
  \/ Returned

(* The kernel runs every process that is not blocked; nothing has to fail. *)
Fairness ==
  /\ WF_vars(CallerStep)
  /\ \A w \in Worker : WF_vars(WorkerStep(w))

Spec == Init /\ [][Next]_vars /\ Fairness

-----------------------------------------------------------------------------
(* Properties                                                              *)

TypeOK ==
  /\ out \in [Index -> Index \cup {Zeroed}]
  /\ procReady \in 0 .. Procnum
  /\ workers \in [Worker -> Worker \cup {-1}]
  /\ workerPc \in [Worker -> {"none", "work", "posted", "zombie", "killed",
                         "reaped"}]
  /\ ind \in [Worker -> Nat]
  /\ callerPc \in {"fork", "wait", "reap", "returned"}
  /\ i \in Worker

(***************************************************************************)
(* pmap_process never returns an array with a hole: a failed fork or a     *)
(* dead worker keeps it from returning at all, because the semaphore then  *)
(* never reaches procnum, even though waitpid alone would let it by.       *)
(***************************************************************************)
ResultComplete ==
  callerPc = "returned" => \A x \in Index : out[x] = x

(***************************************************************************)
(* Every process forked has been collected when pmap_process returns, the  *)
(* "cleanup of zombie processes" of the task, and no other: the -1 of a    *)
(* failed fork never gets to waitpid, where it would mean any child, one   *)
(* that the caller of pmap_process has forked itself included.             *)
(***************************************************************************)
NoZombies ==
  /\ callerPc = "returned" =>
       \A w \in Worker : workerPc[w] \in {"none", "reaped"}
  /\ callerPc = "reap" => workers[i] # -1

Failed ==
  \E w \in Worker :
    workerPc[w] = "killed" \/ (workerPc[w] = "none" /\ callerPc # "fork")

(***************************************************************************)
(* The posts and the waits are equally many: pmap_process returns unless a *)
(* fork failed or a worker was killed.                                     *)
(***************************************************************************)
Returns == <>(callerPc = "returned" \/ Failed)
=============================================================================
