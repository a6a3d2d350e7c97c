---------------------------- MODULE PrimeCondvar -----------------------------
(***************************************************************************)
(* 2sem/inf17/inf17-1/prog.c: a thread finds primes and hands them to main *)
(* one at a time; main prints N of them. Both use one condition variable,  *)
(* without a predicate, and one mutex, which the thread never locks: it    *)
(* calls pthread_cond_wait on a mutex it does not hold.                    *)
(*                                                                         *)
(* The last is undefined behaviour. With the mutex of glibc, which does    *)
(* not check its owner, the wait releases the mutex whoever holds it, here *)
(* main, and takes it on return: only a thread that is woken while main    *)
(* waits holds it from then on as it should.                               *)
(***************************************************************************)
EXTENDS Integers, Sequences

CONSTANTS
  N,         \* argv[3], how many primes main prints
  Totals,    \* how many primes there may be from A to B
  Spurious   \* the set of: pthread_cond_wait may return without a signal

ASSUME NAssumption == N \in Nat /\ Totals \subseteq Nat
ASSUME SpuriousAssumption == Spurious \subseteq BOOLEAN

(* The j-th prime; what matters is that it is neither 0 nor 1.             *)
Prime(j) == j + 1

VARIABLES
  mainPc, workerPc,
  locked,         \* whether the mutex is locked
  prime_num,      \* the variable both threads share
  prime_numbers,  \* main's counter
  total,          \* how many primes there are from A to B
  spurious,       \* whether waits may return without a signal
  found,          \* how many of them the thread has found
  handshake,      \* history: the thread has once taken the mutex back while
                  \* main was in its pthread_cond_wait
  printed

env == <<total, spurious>>
primesVars ==
  <<env, mainPc, workerPc, locked, prime_num, prime_numbers, found, handshake,
    printed>>

PrimesInit ==
  /\ mainPc = "create"
  /\ workerPc = "unborn"
  /\ locked = FALSE
  /\ prime_num = 0
  /\ prime_numbers = 0
  /\ total \in Totals
  /\ spurious \in Spurious
  /\ found = 0
  /\ handshake = FALSE
  /\ printed = <<>>

Running == mainPc # "done"

-----------------------------------------------------------------------------
(* main                                                                    *)

(* pthread_mutex_lock and pthread_create                                   *)
CreateThread ==
  /\ mainPc = "create"
  /\ locked' = TRUE
  /\ workerPc' = "search"
  /\ mainPc' = "test"
  /\ UNCHANGED <<env, prime_num, prime_numbers, found, handshake, printed>>

(* while (prime_numbers != N); past it, main returns and the process ends. *)
MainTest ==
  /\ mainPc = "test"
  /\ mainPc' = IF prime_numbers # N THEN "wait" ELSE "done"
  /\ UNCHANGED <<env, workerPc, locked, prime_num, prime_numbers, found,
                 handshake, printed>>

MainWait ==
  /\ mainPc = "wait"
  /\ locked' = FALSE
  /\ mainPc' = "waiting"
  /\ UNCHANGED <<env, workerPc, prime_num, prime_numbers, found, handshake,
                 printed>>

(* pthread_cond_wait returns when it has the mutex.                        *)
MainWake ==
  /\ mainPc = "woken"
  /\ ~locked
  /\ locked' = TRUE
  /\ mainPc' = "print"
  /\ UNCHANGED <<env, workerPc, prime_num, prime_numbers, found, handshake,
                 printed>>

PrintNumber ==
  /\ mainPc = "print"
  /\ printed' = Append(printed, prime_num)
  /\ prime_numbers' = prime_numbers + 1
  /\ mainPc' = "answer"
  /\ UNCHANGED <<env, workerPc, locked, prime_num, found, handshake>>

(* Mutant: main asks for one prime less than it counts.                    *)
AnswerEarly ==
  /\ mainPc = "answer"
  /\ prime_num' = IF prime_numbers + 1 >= N THEN 0 ELSE 1
  /\ mainPc' = "signal"
  /\ UNCHANGED <<env, workerPc, locked, prime_numbers, found, handshake,
                 printed>>

(* prime_num becomes main's answer: 0 to stop, 1 to go on.                 *)
Answer ==
  /\ mainPc = "answer"
  /\ prime_num' = IF prime_numbers = N THEN 0 ELSE 1
  /\ mainPc' = "signal"
  /\ UNCHANGED <<env, workerPc, locked, prime_numbers, found, handshake,
                 printed>>

(* A signal wakes the other thread if it is waiting, and is lost if not.   *)
MainSignal ==
  /\ mainPc = "signal"
  /\ workerPc' = IF workerPc = "waiting" THEN "woken" ELSE workerPc
  /\ mainPc' = "test"
  /\ UNCHANGED <<env, locked, prime_num, prime_numbers, found, handshake,
                 printed>>

-----------------------------------------------------------------------------
(* thread_func                                                             *)

(* Mutant: the search starts before A.                                     *)
FindFromBefore ==
  /\ workerPc = "search"
  /\ found < total
  /\ prime_num' = Prime(found)
  /\ found' = found + 1
  /\ workerPc' = "signal"
  /\ UNCHANGED <<env, mainPc, locked, prime_numbers, handshake, printed>>

(* The next prime of the range is stored for main.                         *)
Find ==
  /\ workerPc = "search"
  /\ found < total
  /\ prime_num' = Prime(found + 1)
  /\ found' = found + 1
  /\ workerPc' = "signal"
  /\ UNCHANGED <<env, mainPc, locked, prime_numbers, handshake, printed>>

SearchEnds ==
  /\ workerPc = "search"
  /\ found = total
  /\ workerPc' = "returned"
  /\ UNCHANGED <<env, mainPc, locked, prime_num, prime_numbers, found,
                 handshake, printed>>

WorkerSignal ==
  /\ workerPc = "signal"
  /\ mainPc' = IF mainPc = "waiting" THEN "woken" ELSE mainPc
  /\ workerPc' = "wait"
  /\ UNCHANGED <<env, locked, prime_num, prime_numbers, found, handshake,
                 printed>>

(* Mutant: the thread waits with the mutex locked.                         *)
WaitLocked ==
  /\ workerPc = "wait"
  /\ workerPc' = "waiting"
  /\ UNCHANGED <<env, mainPc, locked, prime_num, prime_numbers, found,
                 handshake, printed>>

(* Releases the mutex, main's or its own.                                  *)
WorkerWait ==
  /\ workerPc = "wait"
  /\ locked' = FALSE
  /\ workerPc' = "waiting"
  /\ UNCHANGED <<env, mainPc, prime_num, prime_numbers, found, handshake,
                 printed>>

(* Mutant: the thread goes on without taking the mutex.                    *)
WakeUnlocked ==
  /\ workerPc = "woken"
  /\ handshake' = (handshake \/ mainPc = "waiting")
  /\ workerPc' = "read"
  /\ UNCHANGED <<env, mainPc, locked, prime_num, prime_numbers, found,
                 printed>>

WorkerWake ==
  /\ workerPc = "woken"
  /\ ~locked
  /\ locked' = TRUE
  /\ handshake' = (handshake \/ mainPc = "waiting")
  /\ workerPc' = "read"
  /\ UNCHANGED <<env, mainPc, prime_num, prime_numbers, found, printed>>

WorkerRead ==
  /\ workerPc = "read"
  /\ workerPc' = IF prime_num = 0 THEN "returned" ELSE "search"
  /\ UNCHANGED <<env, mainPc, locked, prime_num, prime_numbers, found,
                 handshake, printed>>

-----------------------------------------------------------------------------
(* POSIX lets pthread_cond_wait return for no reason.                      *)
WakeSpuriously ==
  /\ spurious
  /\ \/ /\ mainPc = "waiting"
        /\ mainPc' = "woken"
        /\ UNCHANGED workerPc
     \/ /\ workerPc = "waiting"
        /\ workerPc' = "woken"
        /\ UNCHANGED mainPc
  /\ UNCHANGED <<env, locked, prime_num, prime_numbers, found, handshake,
                 printed>>

MainStep ==
  \/ CreateThread \/ MainTest \/ MainWait \/ MainWake \/ PrintNumber \/ Answer
  \/ MainSignal

WorkerStep ==
  /\ Running
  /\ \/ Find \/ SearchEnds \/ WorkerSignal \/ WorkerWait \/ WorkerWake
     \/ WorkerRead

PrimesNext == MainStep \/ WorkerStep \/ (Running /\ WakeSpuriously)

(* Both threads are scheduled; a spurious wake-up need not happen. Nobody  *)
(* competes for the mutex again and again, so weak fairness is enough.     *)
PrimesSpec ==
  /\ PrimesInit /\ [][PrimesNext]_primesVars
  /\ WF_primesVars(MainStep) /\ WF_primesVars(WorkerStep)

-----------------------------------------------------------------------------
(* Properties                                                              *)

PrimesTypeOK ==
  /\ mainPc \in {"create", "test", "wait", "waiting", "woken", "print",
                 "answer", "signal", "done"}
  /\ workerPc \in {"unborn", "search", "signal", "wait", "waiting", "woken",
                   "read", "returned"}
  /\ locked \in BOOLEAN
  /\ prime_num \in {0, 1} \cup {Prime(j) : j \in 1 .. total}
  /\ prime_numbers \in 0 .. N
  /\ total \in Totals /\ spurious \in Spurious
  /\ found \in 0 .. total
  /\ handshake \in BOOLEAN
  /\ printed \in Seq({0, 1} \cup {Prime(j) : j \in 1 .. total})

(***************************************************************************)
(* "The main thread prints each number it gets": the primes in order, none *)
(* missed, none twice, and never one of its own answers 0 and 1, provided  *)
(* that no wait returns without a signal.                                  *)
(***************************************************************************)
PrintsPrimesInOrder ==
  ~spurious => \A j \in DOMAIN printed : printed[j] = Prime(j)

(***************************************************************************)
(* With signals alone, once the thread has taken the mutex while main      *)
(* waited, the two take turns: the thread holds it whenever it stores a    *)
(* prime or reads an answer, and main is then inside pthread_cond_wait.    *)
(***************************************************************************)
ExclusiveAfterHandshake ==
  ~spurious /\ handshake /\ workerPc \in {"read", "search", "signal", "wait"} =>
    locked /\ mainPc \in {"waiting", "woken", "done"}

(***************************************************************************)
(* From there on no wake-up is lost: main prints N primes and ends, or     *)
(* prints all there are.                                                   *)
(***************************************************************************)
CompletesAfterHandshake ==
  (~spurious /\ handshake)
    ~> (mainPc = "done" \/ (total < N /\ Len(printed) = total))

(***************************************************************************)
(* The thread gives up searching only when main has printed its last       *)
(* number, even if it has been woken by nobody.                            *)
(***************************************************************************)
StopsOnlyWhenTold ==
  workerPc = "returned" => found = total \/ prime_numbers = N
=============================================================================
