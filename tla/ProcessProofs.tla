---------------------------- MODULE ProcessProofs ----------------------------
(***************************************************************************)
(* The safety of the programs that make processes and threads: of PMap,    *)
(* for every number of workers and every array, and of those of Processes, *)
(* one at a time, for every value of their constants.                      *)
(*                                                                         *)
(* In PMap the semaphore counts without saying who posted. The inductive   *)
(* invariant IInv supplies the missing set S of workers: it has as many    *)
(* members as there were posts, and all of them have finished their        *)
(* stride. When the caller has waited Procnum times S can only be the set  *)
(* of all workers.                                                         *)
(*                                                                         *)
(* Each program of Processes has an invariant of its own, over its own     *)
(* variables; a step of another program leaves all of these alone.         *)
(***************************************************************************)
EXTENDS PMap, Processes,
        FiniteSetTheorems, SequenceTheorems, WellFoundedInduction, TLAPS

-----------------------------------------------------------------------------
(* The map on processes of inf18-1                                         *)

(* How often the caller has been let through sem_wait.                     *)
Waited ==
  CASE callerPc = "fork" -> 0
    [] callerPc = "wait" -> i
    [] OTHER -> Procnum

(* Worker w has gone m times through its loop, writing what it should.     *)
StrideInv(w, m) ==
  /\ ind[w] = w + Procnum * m
  /\ \A q \in 0 .. m - 1 :
       w + Procnum * q \in Index => out[w + Procnum * q] = w + Procnum * q

(* S is a possible set of the workers that have posted.                    *)
PostInv(S) ==
  /\ Cardinality(S) = procReady + Waited
  /\ \A w \in S : ind[w] >= Count /\ workerPc[w] \in {"posted", "zombie", "reaped"}

CallerInv ==
  /\ \A w \in Worker : workers[w] \in {w, -1}
  /\ \A w \in Worker : workers[w] = -1 => workerPc[w] = "none"
  /\ callerPc = "fork" => \A w \in Worker : w >= i => workerPc[w] = "none"
  /\ callerPc = "reap" => \A w \in Worker : w < i => workerPc[w] = "reaped"
  /\ callerPc = "returned" => \A w \in Worker : workerPc[w] = "reaped"

IInv ==
  /\ TypeOK
  /\ \A w \in Worker : \E m \in Nat : StrideInv(w, m)
  /\ \E S \in SUBSET Worker : PostInv(S)
  /\ CallerInv

-----------------------------------------------------------------------------
LEMMA WorkerCardinality ==
  /\ IsFiniteSet(Worker)
  /\ Cardinality(Worker) = Procnum
  /\ \A S \in SUBSET Worker :
       /\ IsFiniteSet(S)
       /\ Cardinality(S) \in 0 .. Procnum
       /\ Cardinality(S) = Procnum => S = Worker
<1>1. IsFiniteSet(Worker) /\ Cardinality(Worker) = Procnum
  BY FS_Interval, ProcnumAssumption DEF Worker
<1>2. ASSUME NEW S \in SUBSET Worker
      PROVE  /\ IsFiniteSet(S)
             /\ Cardinality(S) \in 0 .. Procnum
             /\ Cardinality(S) = Procnum => S = Worker
  BY <1>1, FS_Subset, FS_CardinalityType, ProcnumAssumption
<1> QED
  BY <1>1, <1>2

(* Every index is met by one of the strides.                               *)
LEMMA StridesCover ==
  ASSUME NEW x \in Index
  PROVE  \E w \in Worker, q \in Nat : x = w + Procnum * q
<1>1. x \in Nat /\ Procnum \in Nat /\ Procnum > 0
  BY CountAssumption, ProcnumAssumption DEF Index
<1>2. x % Procnum \in Worker /\ x \div Procnum \in Int
      /\ x = (x % Procnum) + Procnum * (x \div Procnum)
  BY <1>1 DEF Worker
<1>3. x \div Procnum >= 0
  <2> SUFFICES ASSUME x \div Procnum <= -1 PROVE FALSE
    BY <1>2
  <2>1. Procnum * (x \div Procnum) <= -Procnum
    BY <1>1, <1>2
  <2> QED
    BY <1>1, <1>2, <2>1 DEF Worker
<1> QED
  BY <1>2, <1>3

LEMMA InitIInv == Init => IInv
<1> SUFFICES ASSUME Init PROVE IInv
  OBVIOUS
<1>1. TypeOK
  BY ProcnumAssumption, CountAssumption DEF Init, TypeOK, Worker, Index
<1>2. \A w \in Worker : StrideInv(w, 0)
  BY ProcnumAssumption DEF Init, StrideInv, Worker
<1>3. PostInv({})
  BY FS_EmptySet DEF Init, PostInv, Waited
<1>4. CallerInv
  BY DEF Init, CallerInv
<1> QED
  BY <1>1, <1>2, <1>3, <1>4 DEF IInv

-----------------------------------------------------------------------------
(* Steps that neither write to out nor move a worker's index.              *)
LEMMA StrideKept ==
  ASSUME \A w \in Worker : \E m \in Nat : StrideInv(w, m), UNCHANGED <<out, ind>>
  PROVE  \A w \in Worker : \E m \in Nat : StrideInv(w, m)'
BY DEF StrideInv

LEMMA WorkerIInv ==
  ASSUME IInv, NEW w \in Worker, WorkerStep(w) \/ Die(w)
  PROVE  IInv'
<1>1. TypeOK /\ CallerInv /\ Waited \in Nat
  BY ProcnumAssumption DEF IInv, TypeOK, Waited, Worker
<1>2. PICK S \in SUBSET Worker : PostInv(S)
  BY DEF IInv
<1>3. IsFiniteSet(S) /\ Cardinality(S) \in 0 .. Procnum
  BY WorkerCardinality
<1>4. CallerInv' /\ Waited' = Waited
  BY <1>1 DEF WorkerStep, Compute, Post, Exit, Die, callerVars, CallerInv, Waited, TypeOK
<1>5. CASE Compute(w)
  <2>1. PICK m \in Nat : StrideInv(w, m)
    BY DEF IInv
  <2>2. /\ ind[w] \in Nat
        /\ ind[w] \in Index
        /\ ind[w] = w + Procnum * m
        /\ ind[w] + Procnum = w + Procnum * (m + 1)
        /\ Procnum * m \in Nat
    BY <1>1, <1>5, <2>1, ProcnumAssumption, CountAssumption
    DEF Compute, StrideInv, TypeOK, Index, Worker
  <2>3. \A x \in Index : out'[x] = IF x = ind[w] THEN x ELSE out[x]
    BY <1>1, <1>5, <2>2 DEF Compute, TypeOK
  <2>4. TypeOK'
    BY <1>1, <1>5, <2>2, ProcnumAssumption DEF Compute, TypeOK, callerVars
  <2>5. ASSUME NEW v \in Worker
        PROVE  \E k \in Nat : StrideInv(v, k)'
    <3>1. CASE v = w
      <4>1. m + 1 \in Nat /\ \A q \in 0 .. (m + 1) - 1 : q \in 0 .. m - 1 \/ q = m
        OBVIOUS
      <4>2. ind'[w] = w + Procnum * (m + 1)
        BY <1>1, <1>5, <2>2 DEF Compute, TypeOK
      <4>3. \A q \in 0 .. (m + 1) - 1 :
              w + Procnum * q \in Index =>
                out'[w + Procnum * q] = w + Procnum * q
        BY <2>1, <2>2, <2>3, <4>1 DEF StrideInv
      <4>4. StrideInv(w, m + 1)'
        BY <4>2, <4>3 DEF StrideInv
      <4> QED
        BY <3>1, <4>1, <4>4
    <3>2. CASE v # w
      <4>1. PICK k \in Nat : StrideInv(v, k)
        BY DEF IInv
      <4>2. ind'[v] = ind[v]
        BY <1>1, <1>5, <3>2 DEF Compute, TypeOK
      <4>3. StrideInv(v, k)'
        BY <2>3, <4>1, <4>2 DEF StrideInv
      <4> QED
        BY <4>3
    <3> QED
      BY <3>1, <3>2
  <2>6. PostInv(S)'
    <3>1. w \notin S
      BY <1>2, <1>5 DEF Compute, PostInv
    <3> QED
      BY <1>1, <1>2, <1>4, <1>5, <3>1 DEF Compute, PostInv, TypeOK
  <2> QED
    BY <1>4, <2>4, <2>5, <2>6 DEF IInv
<1>6. CASE Post(w)
  <2>1. w \notin S
    BY <1>2, <1>6 DEF Post, PostInv
  <2>2. Cardinality(S \cup {w}) = Cardinality(S) + 1
    BY <1>3, <2>1, FS_AddElement
  <2>3. S \cup {w} \in SUBSET Worker
    OBVIOUS
  <2>4. procReady' = procReady + 1 /\ procReady \in Nat
    BY <1>1, <1>6 DEF Post, TypeOK
  <2>5. PostInv(S \cup {w})'
    <3>1. Cardinality(S \cup {w}) = procReady' + Waited'
      BY <1>1, <1>2, <1>4, <2>2, <2>4 DEF PostInv
    <3> QED
      BY <1>1, <1>2, <1>6, <3>1 DEF Post, PostInv, TypeOK
  <2>6. procReady' \in 0 .. Procnum
    <3>1. Cardinality(S \cup {w}) \in 0 .. Procnum
      BY <2>3, WorkerCardinality
    <3> QED
      BY <1>1, <1>2, <2>2, <2>4, <3>1, ProcnumAssumption DEF PostInv
  <2>7. TypeOK'
    BY <1>1, <1>6, <2>6 DEF Post, TypeOK, callerVars
  <2>8. \A v \in Worker : \E m \in Nat : StrideInv(v, m)'
    BY <1>6, StrideKept DEF Post, IInv
  <2> QED
    BY <1>4, <2>3, <2>5, <2>7, <2>8 DEF IInv
<1>7. CASE Exit(w) \/ Die(w)
  <2>1. TypeOK'
    BY <1>1, <1>7 DEF Exit, Die, TypeOK, callerVars
  <2>2. PostInv(S)'
    BY <1>1, <1>2, <1>4, <1>7 DEF Exit, Die, PostInv, TypeOK
  <2>3. \A v \in Worker : \E m \in Nat : StrideInv(v, m)'
    BY <1>7, StrideKept DEF Exit, Die, IInv
  <2> QED
    BY <1>4, <2>1, <2>2, <2>3 DEF IInv
<1> QED
  BY <1>5, <1>6, <1>7 DEF WorkerStep

LEMMA CallerIInv ==
  ASSUME IInv, CallerStep \/ ForkFails
  PROVE  IInv'
<1> USE ProcnumAssumption
<1>1. TypeOK /\ CallerInv
  BY DEF IInv
<1>2. PICK S \in SUBSET Worker : PostInv(S)
  BY DEF IInv
<1>3. IsFiniteSet(S) /\ Cardinality(S) \in 0 .. Procnum
  BY WorkerCardinality
<1>4. i \in 0 .. Procnum - 1 /\ procReady \in Nat
  BY <1>1 DEF TypeOK, Worker
<1>5. \A w \in Worker : \E m \in Nat : StrideInv(w, m)'
  BY StrideKept DEF IInv, CallerStep, Fork, SemWait, Reap, ForkFails
<1>6. CASE Fork \/ ForkFails
  <2>1. i' \in Worker /\ callerPc' \in {"fork", "wait"} /\ Waited = 0 /\ Waited' = 0
    BY <1>1, <1>4, <1>6 DEF Fork, ForkFails, EndTurn, Waited, Worker
  <2>2. TypeOK'
    BY <1>1, <1>6, <2>1 DEF Fork, ForkFails, TypeOK
  <2>3. PostInv(S)'
    <3>1. i \notin S
      BY <1>1, <1>2, <1>4, <1>6 DEF Fork, ForkFails, CallerInv, PostInv, TypeOK
    <3> QED
      BY <1>1, <1>2, <1>6, <2>1, <3>1 DEF Fork, ForkFails, PostInv, TypeOK
  <2>4. ASSUME NEW w \in Worker
        PROVE  /\ workers'[w] \in {w, -1}
               /\ workers'[w] = -1 => workerPc'[w] = "none"
               /\ w > i => workerPc'[w] = "none"
    BY <1>1, <1>4, <1>6 DEF Fork, ForkFails, CallerInv, TypeOK, Worker
  <2>5. callerPc' = "fork" => i' = i + 1
    BY <1>6 DEF Fork, ForkFails, EndTurn
  <2>6. CallerInv'
    BY <1>4, <2>1, <2>4, <2>5 DEF CallerInv, Worker
  <2> QED
    BY <1>5, <2>2, <2>3, <2>6 DEF IInv
<1>7. CASE SemWait
  <2>1. /\ i' \in Worker /\ callerPc' \in {"wait", "reap"}
        /\ procReady' \in 0 .. Procnum /\ procReady' = procReady - 1
        /\ callerPc' = "reap" => i' = 0
    BY <1>1, <1>4, <1>7 DEF SemWait, EndTurn, Worker, TypeOK
  <2>2. Waited' = Waited + 1 /\ Waited \in Nat
    BY <1>4, <1>7 DEF SemWait, EndTurn, Waited
  <2>3. TypeOK'
    BY <1>1, <1>7, <2>1 DEF SemWait, TypeOK
  <2>4. PostInv(S)'
    BY <1>2, <1>4, <1>7, <2>1, <2>2 DEF SemWait, PostInv
  <2>5. CallerInv'
    BY <1>1, <1>7, <2>1 DEF SemWait, CallerInv, Worker
  <2> QED
    BY <1>5, <2>3, <2>4, <2>5 DEF IInv
<1>8. CASE Reap
  <2>1. workers[i] = i
    <3>1. Cardinality(S) = Procnum
      BY <1>2, <1>3, <1>4, <1>8 DEF Reap, PostInv, Waited
    <3>2. i \in S /\ i \in Worker
      BY <1>1, <3>1, WorkerCardinality DEF TypeOK
    <3> QED
      BY <1>1, <1>2, <3>2 DEF PostInv, CallerInv
  <2>2. /\ i' \in Worker /\ callerPc' \in {"reap", "returned"}
        /\ Waited = Procnum /\ Waited' = Procnum
    BY <1>1, <1>4, <1>8 DEF Reap, EndTurn, Waited, Worker
  <2>3. TypeOK'
    BY <1>1, <1>8, <2>1, <2>2 DEF Reap, TypeOK
  <2>4. PostInv(S)'
    BY <1>1, <1>2, <1>8, <2>1, <2>2 DEF Reap, PostInv, TypeOK
  <2>5. \A w \in Worker : w <= i => workerPc'[w] = "reaped"
    BY <1>1, <1>4, <1>8, <2>1 DEF Reap, CallerInv, TypeOK, Worker
  <2>6. CallerInv'
    BY <1>1, <1>4, <1>8, <2>1, <2>5 DEF Reap, EndTurn, CallerInv, TypeOK, Worker
  <2> QED
    BY <1>5, <2>3, <2>4, <2>6 DEF IInv
<1> QED
  BY <1>6, <1>7, <1>8 DEF CallerStep

LEMMA NextIInv == IInv /\ [Next]_vars => IInv'
<1> SUFFICES ASSUME IInv, [Next]_vars PROVE IInv'
  OBVIOUS
<1>1. CASE UNCHANGED vars
  BY <1>1 DEF vars, IInv, TypeOK, StrideInv, PostInv, Waited, CallerInv
<1> QED
  BY <1>1, WorkerIInv, CallerIInv DEF Next, Returned

-----------------------------------------------------------------------------
(* Every variable keeps to its domain; the semaphore never exceeds the     *)
(* number of workers.                                                      *)
THEOREM TypeCorrect == Spec => []TypeOK
<1>1. IInv => TypeOK
  BY DEF IInv
<1> QED
  BY <1>1, InitIInv, NextIInv, PTL DEF Spec

(* The semaphore has been taken Procnum times, so everybody has posted.    *)
LEMMA AllPosted ==
  ASSUME IInv, callerPc \in {"reap", "returned"}
  PROVE  \A w \in Worker : ind[w] >= Count /\ workerPc[w] # "none"
<1>1. PICK S \in SUBSET Worker : PostInv(S)
  BY DEF IInv
<1>2. Cardinality(S) \in 0 .. Procnum /\ procReady \in Nat
  BY WorkerCardinality DEF IInv, TypeOK
<1>3. S = Worker
  BY <1>1, <1>2, WorkerCardinality, ProcnumAssumption DEF PostInv, Waited
<1> QED
  BY <1>1, <1>3 DEF PostInv

(* An array that is returned is complete, whatever failed.                 *)
THEOREM NoHoles == Spec => []ResultComplete
<1>1. IInv => ResultComplete
  <2> SUFFICES ASSUME IInv, callerPc = "returned", NEW x \in Index
               PROVE  out[x] = x
    BY DEF ResultComplete
  <2>1. PICK w \in Worker, q \in Nat : x = w + Procnum * q
    BY StridesCover
  <2>2. PICK m \in Nat : StrideInv(w, m)
    BY DEF IInv
  <2>3. w + Procnum * m >= Count /\ x < Count /\ x \in Int
    BY <2>2, AllPosted, CountAssumption DEF StrideInv, Index
  <2>4. q < m
    <3> SUFFICES ASSUME q >= m PROVE FALSE
      OBVIOUS
    <3>1. q - m \in Nat /\ Procnum * q = Procnum * m + Procnum * (q - m)
      BY ProcnumAssumption
    <3>2. Procnum * (q - m) \in Nat /\ Procnum * m \in Nat /\ Procnum * q \in Nat
      BY <3>1, ProcnumAssumption
    <3> QED
      BY <2>1, <2>3, <3>1, <3>2, CountAssumption DEF Worker
  <2> QED
    BY <2>1, <2>2, <2>4 DEF StrideInv
<1> QED
  BY <1>1, InitIInv, NextIInv, PTL DEF Spec

(* No zombie is left, and waitpid is only ever given the pid of a worker.  *)
THEOREM ChildrenCollected == Spec => []NoZombies
<1>1. IInv => (callerPc = "reap" => workers[i] # -1)
  BY AllPosted DEF IInv, CallerInv, TypeOK
<1>2. IInv => NoZombies
  BY <1>1 DEF IInv, CallerInv, NoZombies
<1> QED
  BY <1>1, <1>2, InitIInv, NextIInv, PTL DEF Spec

-----------------------------------------------------------------------------
(* The calculator of inf12-1                                               *)

(* While nothing fails, each step of a call has left what the next needs;  *)
(* a programm.c that was not there before has no end of another.           *)
CalcInv ==
  /\ calcPc \in {"idle", "write", "gcc", "run", "rm"}
  /\ ~failed /\ calls > 0 =>
       /\ calcPc = "idle" => source = <<>>
       /\ calcPc = "write" /\ clean => source = <<>>
       /\ calcPc = "gcc" => source # <<>> /\ source[1].expr = expr
       /\ calcPc = "gcc" /\ clean => ~source[1].tail
       /\ expr \notin Invalid /\ clean =>
            /\ calcPc = "run" => binary = <<expr>>
            /\ calcPc \in {"rm", "idle"} => values_printed = <<expr>>
  /\ calls \in Nat

LEMMA CalcStart == ProcessesInit => CalcInv
BY DEF ProcessesInit, Calc!Init, CalcInv

LEMMA CalcSteps == CalcInv /\ [ProcessesNext]_processesVars => CalcInv'
<1> SUFFICES ASSUME CalcInv, [ProcessesNext]_processesVars PROVE CalcInv'
  OBVIOUS
<1>1. CASE UNCHANGED calcVars
  BY <1>1 DEF calcVars, CalcInv
<1>2. ASSUME NEW e \in Exprs, Calc!Call(e) PROVE CalcInv'
  <2>1. calcPc' = "write" /\ calls' = calls + 1
    BY <1>2 DEF Calc!Call
  <2>2. clean' => source' = <<>>
    BY <1>2, Zenon DEF Calc!Call
  <2>3. calls \in Nat
    BY DEF CalcInv
  <2> QED
    BY <2>1, <2>2, <2>3 DEF CalcInv
<1>3. CASE Calc!WriteSource
  <2>1. source' # <<>> /\ source'[1].expr = expr
    BY <1>3 DEF Calc!WriteSource
  <2>2. source = <<>> => ~source'[1].tail
    BY <1>3 DEF Calc!WriteSource
  <2>3. /\ calcPc = "write" /\ calcPc' = "gcc"
        /\ UNCHANGED <<expr, calls, clean, failed>>
    BY <1>3 DEF Calc!WriteSource
  <2>4. calls \in Nat /\ (~failed /\ calls > 0 /\ clean => source = <<>>)
    BY <2>3 DEF CalcInv
  <2> QED
    BY <2>1, <2>2, <2>3, <2>4 DEF CalcInv
<1>4. CASE Calc!Gcc
  BY <1>4 DEF CalcInv, Calc!Gcc
<1>5. CASE Calc!Run \/ Calc!Rm
  BY <1>5 DEF CalcInv, Calc!Run, Calc!Rm
<1>6. CASE Calc!ChildFails \/ Calc!Killed
  BY <1>6 DEF CalcInv, Calc!ChildFails, Calc!Killed, Calc!After
<1>7. CASE Calc!Next
  BY <1>7, <1>2, <1>3, <1>4, <1>5, <1>6 DEF Calc!Next
<1> QED
  BY <1>1, <1>7
  DEF ProcessesNext, PipeNext, ChainNext, PairNext, SumNext, WordsNext,
      CalcNext, processesVars

LEMMA CalcIsRight == CalcInv => Calc!PrintsItsValue
BY DEF CalcInv, Calc!PrintsItsValue
-----------------------------------------------------------------------------
(* Division, and the word counter of inf09-2                               *)

LEMMA Quotient ==
  ASSUME NEW a \in Int, NEW m \in Nat \ {0}
  PROVE  /\ a \div m \in Int
         /\ a % m \in 0 .. m - 1
         /\ a = (m * (a \div m)) + (a % m)
OBVIOUS

LEMMA QuotientAtLeast ==
  ASSUME NEW a \in Int, NEW m \in Nat \ {0}, NEW q \in Int, m * q <= a
  PROVE  q <= a \div m
<1> DEFINE k == a \div m
<1> DEFINE r == a % m
<1>1. k \in Int /\ r \in 0 .. m - 1 /\ a = (m * k) + r
  BY Quotient
<1> HIDE DEF k, r
<1>2. SUFFICES ASSUME k < q PROVE FALSE
  BY <1>1 DEF k
<1>3. m * (q - k) >= m
  BY <1>1, <1>2
<1>4. m * (q - k) = (m * q) - (m * k)
  BY <1>1
<1> QED
  BY <1>1, <1>3, <1>4

LEMMA QuotientIs ==
  ASSUME NEW a \in Int, NEW m \in Nat \ {0}, NEW q \in Int,
         m * q <= a, a < m * (q + 1)
  PROVE  a \div m = q
<1> DEFINE k == a \div m
<1> DEFINE r == a % m
<1>1. k \in Int /\ r \in 0 .. m - 1 /\ a = (m * k) + r
  BY Quotient
<1>2. q <= k
  BY QuotientAtLeast
<1> HIDE DEF k, r
<1>3. SUFFICES ASSUME q < k PROVE FALSE
  BY <1>1, <1>2 DEF k
<1>4. m * (k - (q + 1)) >= 0
  BY <1>1, <1>3
<1>5. m * (k - (q + 1)) = (m * k) - (m * (q + 1))
  BY <1>1
<1> QED
  BY <1>1, <1>4, <1>5

LEMMA WordsLesser ==
  ASSUME NEW a \in Int, NEW b \in Int
  PROVE  Words!Min({a, b}) = IF a <= b THEN a ELSE b
BY DEF Words!Min

(* The word that the child in hand has taken, but main has not counted.    *)
Pending == IF wordPc = "wait" /\ word_status = 1 THEN 1 ELSE 0

WordsTyped ==
  /\ wordPc \in {"fork", "child", "wait", "print"}
  /\ total \in Nat /\ words \in 0 .. total
  /\ word \in 0 .. MAX_NUM_OF_WORDS /\ counted \in 0 .. word
  /\ word_status \in {-1, 0, 1}
  /\ wordPc \in {"child", "wait"} => word < MAX_NUM_OF_WORDS

(* Each word counted, and the one in hand, has been read.                  *)
ReadFirst == counted + Pending <= total - words

(* What the children have read when nothing failed: a word each from a     *)
(* file, a block each from a pipe, the last of them at least one word.     *)
BlockEach ==
  LET n == word + Pending
  IN  /\ counted = word
      /\ seekable => words = total - n
      /\ ~seekable => /\ words = total - (Block * n) \/ words = 0
                      /\ words >= total - (Block * n)
                      /\ n > 0 => Block * (n - 1) < total
      /\ wordPc = "wait" => word_status \in {0, 1}
      /\ wordPc = "wait" /\ word_status = 0 => words = 0
      /\ wordPc = "print" => words = 0 \/ word = MAX_NUM_OF_WORDS

WordsInv == WordsTyped /\ ReadFirst /\ (~disturbed => BlockEach)

LEMMA WordsStart == ProcessesInit => WordsInv
<1> SUFFICES ASSUME Words!Init PROVE WordsInv
  BY DEF ProcessesInit
<1> USE WordsAssumption
<1>1. WordsTyped /\ Pending = 0
  <2>1. total \in Nat
    BY DEF Words!Init
  <2> QED
    BY <2>1 DEF Words!Init, WordsTyped, Pending
<1>2. Block * 0 = 0
  OBVIOUS
<1>3. ReadFirst /\ BlockEach
  BY <1>1, <1>2 DEF Words!Init, ReadFirst, BlockEach, WordsTyped
<1> QED
  BY <1>1, <1>3 DEF WordsInv

LEMMA WordsSteps == WordsInv /\ [ProcessesNext]_processesVars => WordsInv'
<1> SUFFICES ASSUME WordsInv, [ProcessesNext]_processesVars PROVE WordsInv'
  OBVIOUS
<1> USE WordsAssumption
<1>1. CASE UNCHANGED wordVars
  <2>1. UNCHANGED Pending
    BY <1>1 DEF wordVars, Pending
  <2>2. WordsTyped' /\ ReadFirst'
    BY <1>1, <2>1 DEF wordVars, WordsInv, WordsTyped, ReadFirst
  <2>3. BlockEach => BlockEach'
    BY <1>1, <2>1 DEF wordVars, BlockEach
  <2>4. ~disturbed' => BlockEach'
    <3>1. ~disturbed => BlockEach
      BY DEF WordsInv
    <3> QED
      BY <1>1, <2>3, <3>1, Zenon DEF wordVars
  <2> QED
    BY <2>2, <2>4 DEF WordsInv
<1>2. CASE Words!Fork \/ Words!Full
  <2>1. Pending = 0 /\ Pending' = 0 /\ (disturbed' => disturbed)
        /\ (~disturbed' => ~disturbed)
    BY <1>2 DEF Words!Fork, Words!Full, Pending
  <2>2. WordsTyped' /\ ReadFirst'
    BY <1>2, <2>1
    DEF Words!Fork, Words!Full, WordsInv, WordsTyped, ReadFirst
  <2>3. BlockEach => BlockEach'
    BY <1>2, <2>1
    DEF Words!Fork, Words!Full, BlockEach, WordsInv, WordsTyped
  <2> QED
    BY <2>1, <2>2, <2>3 DEF WordsInv
<1>7. CASE Words!ForkFails
  BY <1>7
  DEF Words!ForkFails, WordsInv, WordsTyped, ReadFirst, Pending
<1>3. CASE Words!Child
  <2>1. words # 0 => /\ Words!Taken \in 1 .. words
                     /\ seekable => Words!Taken = 1
                     /\ ~seekable => Words!Taken = Block \/
                                       (Words!Taken = words /\ words < Block)
    BY WordsLesser DEF Words!Taken, WordsInv, WordsTyped
  <2> HIDE DEF Words!Taken
  <2>2. WordsTyped' /\ ReadFirst'
    BY <1>3, <2>1 DEF Words!Child, WordsInv, WordsTyped, ReadFirst, Pending
  <2>3. ASSUME ~disturbed' PROVE BlockEach'
    <3>1. BlockEach /\ Pending = 0 /\ ~disturbed
      BY <1>3, <2>3 DEF Words!Child, WordsInv, Pending
    <3>2. CASE words = 0
      BY <1>3, <3>1, <3>2
      DEF Words!Child, BlockEach, Pending, WordsInv, WordsTyped
    <3>3. CASE words # 0
      <4>1. Pending' = 1
        BY <1>3, <3>3 DEF Words!Child, Pending
      <4>2. Block * (word + 1) = (Block * word) + Block
        BY DEF WordsInv, WordsTyped
      <4>3. Block * word \in Int
        BY DEF WordsInv, WordsTyped
      <4> QED
        BY <1>3, <2>1, <3>1, <3>3, <4>1, <4>2, <4>3
        DEF Words!Child, BlockEach, WordsInv, WordsTyped
    <3> QED
      BY <3>2, <3>3
  <2> QED
    BY <2>2, <2>3 DEF WordsInv
<1>4. CASE Words!ChildKilled
  <2>1. Words!Min({Block, words}) \in 0 .. words
    BY WordsLesser DEF WordsInv, WordsTyped
  <2>2. words' \in 0 .. words
    <3> DEFINE m == Words!Min({Block, words})
    <3>1. m \in 0 .. words
      BY <2>1
    <3>2. words' \in {words, words - m}
      BY <1>4 DEF Words!ChildKilled
    <3> HIDE DEF m
    <3> QED
      BY <3>1, <3>2 DEF WordsInv, WordsTyped
  <2>3. disturbed' /\ Pending' = 0 /\ Pending = 0
    BY <1>4 DEF Words!ChildKilled, Pending
  <2>4. /\ wordPc = "child" /\ wordPc' = "wait"
        /\ word_status' = -1 /\ disturbed' = TRUE
        /\ UNCHANGED <<seekable, total, word, counted>>
    BY <1>4 DEF Words!ChildKilled
  <2>5. WordsTyped'
    BY <2>2, <2>4 DEF WordsInv, WordsTyped
  <2>6. ReadFirst'
    <3>1. PICK rest \in 0 .. words : words' = rest
      BY <2>2
    <3>2. counted + 0 <= total - words
      BY <2>3 DEF WordsInv, ReadFirst
    <3>3. counted + 0 <= total - rest
      BY <3>1, <3>2 DEF WordsInv, WordsTyped
    <3>4. counted' + Pending' <= total' - words'
      BY <2>3, <2>4, <3>1, <3>3
    <3> QED
      BY <3>4 DEF ReadFirst
  <2> QED
    BY <2>3, <2>5, <2>6 DEF WordsInv
<1>5. CASE Words!Wait
  <2>1. WordsTyped' /\ ReadFirst'
    BY <1>5 DEF Words!Wait, WordsInv, WordsTyped, ReadFirst, Pending
  <2>2. ASSUME ~disturbed' PROVE BlockEach'
    <3>1. BlockEach /\ ~disturbed
      BY <1>5, <2>2 DEF Words!Wait, WordsInv
    <3>2. Pending' = 0 /\ word' = word + Pending /\ counted' = word'
      BY <1>5, <3>1
      DEF Words!Wait, Pending, BlockEach, WordsInv, WordsTyped
    <3>3. word' + Pending' = word + Pending
      BY <3>2 DEF WordsInv, WordsTyped, Pending
    <3> QED
      BY <1>5, <3>1, <3>2, <3>3
      DEF Words!Wait, BlockEach, WordsInv, WordsTyped
  <2> QED
    BY <2>1, <2>2 DEF WordsInv
<1>6. CASE Words!Next
  BY <1>6, <1>2, <1>3, <1>4, <1>5, <1>7 DEF Words!Next
<1> QED
  BY <1>1, <1>6
  DEF ProcessesNext, PipeNext, ChainNext, PairNext, SumNext, WordsNext,
      CalcNext, processesVars

LEMMA WordsAreRight == WordsInv => Words!CountsWords
<1> DEFINE found ==
      IF seekable THEN total ELSE (total + Block - 1) \div Block
<1> SUFFICES ASSUME WordsInv, wordPc = "print"
             PROVE  /\ ~disturbed =>
                         counted = Words!Min({found, MAX_NUM_OF_WORDS})
                    /\ counted <= Words!Min({total, MAX_NUM_OF_WORDS})
  BY Zenon DEF Words!CountsWords
<1> HIDE DEF found
<1> USE WordsAssumption
<1>1. counted <= Words!Min({total, MAX_NUM_OF_WORDS})
  BY WordsLesser DEF WordsInv, WordsTyped, ReadFirst, Pending
<1>2. ASSUME ~disturbed
      PROVE  /\ found \in Int
             /\ counted = IF found <= MAX_NUM_OF_WORDS THEN found
                         ELSE MAX_NUM_OF_WORDS
  <2>1. BlockEach /\ WordsTyped /\ word + Pending = word
    BY <1>2 DEF WordsInv, WordsTyped, Pending
  <2>2. CASE seekable
    BY <2>1, <2>2 DEF BlockEach, WordsTyped, found
  <2>3. CASE ~seekable
    <3> DEFINE a == total + Block - 1
    <3>1. found = a \div Block
      BY <2>3 DEF found
    <3>2. a \in Int /\ found \in Int
      BY <2>1, <3>1, Quotient DEF WordsTyped
    <3>3. /\ Block * word \in Int
          /\ Block * (word + 1) = (Block * word) + Block
          /\ Block * (word - 1) = (Block * word) - Block
      BY <2>1 DEF WordsTyped
    <3>4. Block * word <= a
      <4>1. CASE word = 0
        BY <2>1, <4>1 DEF WordsTyped
      <4>2. CASE word > 0
        BY <2>1, <2>3, <3>3, <4>2 DEF WordsTyped, BlockEach
      <4> QED
        BY <2>1, <4>1, <4>2 DEF WordsTyped
    <3>5. words = 0 => a < Block * (word + 1)
      BY <2>1, <2>3, <3>3 DEF WordsTyped, BlockEach
    <3> HIDE DEF a
    <3>6. word <= found
      BY <2>1, <3>1, <3>2, <3>4, QuotientAtLeast DEF WordsTyped
    <3>7. words = 0 => found = word
      BY <2>1, <3>1, <3>2, <3>4, <3>5, QuotientIs DEF WordsTyped
    <3> QED
      BY <2>1, <3>2, <3>6, <3>7 DEF BlockEach, WordsTyped
  <2> QED
    BY <2>2, <2>3
<1> QED
  BY <1>1, <1>2, WordsLesser
-----------------------------------------------------------------------------
(* The threads of inf16-1                                                  *)

(* a and b differ by a multiple of the modulus of int.                     *)
Same(a, b) == \E q \in Int : a = b + (IntModulus * q)

LEMMA SameSelf ==
  ASSUME NEW a \in Int, NEW b \in Int, a = b PROVE Same(a, b)
<1>1. a = b + (IntModulus * 0)
  BY SumAssumption
<1> QED
  BY <1>1 DEF Same

LEMMA SameTurned ==
  ASSUME NEW a \in Int, NEW b \in Int, Same(a, b) PROVE Same(b, a)
<1>1. PICK q \in Int : a = b + (IntModulus * q)
  BY DEF Same
<1>2. IntModulus * (0 - q) = 0 - (IntModulus * q)
  BY SumAssumption
<1>3. b = a + (IntModulus * (0 - q))
  BY <1>1, <1>2, SumAssumption
<1> QED
  BY <1>3 DEF Same

LEMMA SameTwice ==
  ASSUME NEW a \in Int, NEW b \in Int, NEW c \in Int, Same(a, b), Same(b, c)
  PROVE  Same(a, c)
<1>1. PICK p \in Int : a = b + (IntModulus * p)
  BY DEF Same
<1>2. PICK q \in Int : b = c + (IntModulus * q)
  BY DEF Same
<1>3. IntModulus * (p + q) = (IntModulus * p) + (IntModulus * q)
  BY SumAssumption
<1>4. a = c + (IntModulus * (p + q))
  BY <1>1, <1>2, <1>3, SumAssumption
<1> QED
  BY <1>4 DEF Same

LEMMA SamePlus ==
  ASSUME NEW a \in Int, NEW b \in Int, NEW d \in Int, Same(a, b)
  PROVE  Same(a + d, b + d)
<1>1. PICK p \in Int : a = b + (IntModulus * p)
  BY DEF Same
<1>2. a + d = (b + d) + (IntModulus * p)
  BY <1>1, SumAssumption
<1> QED
  BY <1>2 DEF Same

LEMMA SameRemainder ==
  ASSUME NEW a \in Int
  PROVE  a % IntModulus \in 0 .. IntModulus - 1 /\ Same(a, a % IntModulus)
<1> DEFINE k == a \div IntModulus
<1> DEFINE r == a % IntModulus
<1>1. k \in Int /\ r \in 0 .. IntModulus - 1 /\ a = (IntModulus * k) + r
  BY Quotient, SumAssumption
<1> HIDE DEF k
<1>2. a = r + (IntModulus * k)
  <2> HIDE DEF r
  <2> QED
    BY <1>1, SumAssumption
<1> QED
  BY <1>1, <1>2 DEF Same

LEMMA SameSmall ==
  ASSUME NEW a \in 0 .. IntModulus - 1, NEW b \in 0 .. IntModulus - 1,
         Same(a, b)
  PROVE  a = b
<1> USE SumAssumption
<1>1. PICK q \in Int : a = b + (IntModulus * q)
  BY DEF Same
<1>2. q >= 1 => IntModulus * q >= IntModulus
  <2>1. q >= 1 => IntModulus * (q - 1) >= 0
    OBVIOUS
  <2>2. IntModulus * (q - 1) = (IntModulus * q) - IntModulus
    OBVIOUS
  <2>3. IntModulus * q \in Int
    OBVIOUS
  <2> QED
    BY <2>1, <2>2, <2>3
<1>3. q <= -1 => IntModulus * q <= -IntModulus
  <2>1. q <= -1 => IntModulus * (-1 - q) >= 0
    OBVIOUS
  <2>2. IntModulus * (-1 - q) = (0 - IntModulus) - (IntModulus * q)
    OBVIOUS
  <2>3. IntModulus * q \in Int
    OBVIOUS
  <2> QED
    BY <2>1, <2>2, <2>3
<1>4. q = 0 => IntModulus * q = 0
  OBVIOUS
<1>5. IntModulus * q \in Int
  OBVIOUS
<1> QED
  BY <1>1, <1>2, <1>3, <1>4, <1>5

(* What thread t has put into its sum, or is about to.                     *)
Owed(t) == sum[t] + (IF sumAt[t] = "add" THEN tmp[t] ELSE 0)

Consumed == Len(given) - Len(tokens)

(* s[t] is what the threads before t owe.                                  *)
SumsOwed(s) ==
  /\ s \in [0 .. THREADS_NUM -> Int]
  /\ s[0] = 0
  /\ \A t \in Sum!Thread : s[t + 1] = s[t] + Owed(t)

(* c[k] is what main should print if there were only k numbers.            *)
SumsRead(c, n) ==
  /\ c \in [0 .. n -> 0 .. IntModulus - 1]
  /\ c[0] = 0
  /\ \A k \in 1 .. n : c[k] = (c[k - 1] + given[k][1]) % IntModulus

SumTyped ==
  /\ given \in Seq(Seq(Int)) /\ tokens \in Seq(Seq(Int))
  /\ sumAt \in [Sum!Thread -> {"create", "scan", "add", "done"}]
  /\ tmp \in [Sum!Thread -> Int]
  /\ sum \in [Sum!Thread -> 0 .. IntModulus - 1]
  /\ joined \in 0 .. THREADS_NUM /\ global_sum \in 0 .. IntModulus - 1

(* What is left is the end of the input, and what was taken were numbers.  *)
TokensLeft ==
  /\ Len(tokens) <= Len(given)
  /\ \A k \in 1 .. Len(tokens) : tokens[k] = given[Consumed + k]
  /\ \A k \in 1 .. Consumed : given[k] # <<>>

(* A thread ends, and is joined, when nothing is left.                     *)
DoneIsEnd ==
  /\ \A t \in Sum!Thread : sumAt[t] = "done" => tokens = <<>>
  /\ \A t \in Sum!Thread : t < joined => sumAt[t] = "done"

(* What all threads owe is what was read, and what main has is what the    *)
(* threads owe that it has joined; but for multiples of the modulus.       *)
NothingLost ==
  Sum!AllNumbers =>
    \E c, s : /\ SumsRead(c, Consumed)
              /\ SumsOwed(s)
              /\ Same(s[THREADS_NUM], c[Consumed])
              /\ Same(s[joined], global_sum)

SumInv == SumTyped /\ TokensLeft /\ DoneIsEnd /\ NothingLost

LEMMA FirstOfNumber == ASSUME NEW q \in Seq(Int), q # <<>> PROVE q[1] \in Int
OBVIOUS

LEMMA SumStart == ProcessesInit => SumInv
<1> SUFFICES ASSUME ProcessesInit PROVE SumInv
  OBVIOUS
<1> USE SumAssumption
<1>1. /\ given \in Seq(Seq(Int)) /\ tokens = given
      /\ sumAt = [t \in Sum!Thread |-> "create"]
      /\ sum = [t \in Sum!Thread |-> 0]
      /\ joined = 0 /\ global_sum = 0
  BY DEF ProcessesInit, Sum!Init
<1>2. tmp \in [Sum!Thread -> Int]
  BY DEF ProcessesInit, Sum!Init
<1>3. SumTyped
  BY <1>1, <1>2 DEF SumTyped
<1>4. TokensLeft /\ DoneIsEnd /\ Consumed = 0
  BY <1>1 DEF TokensLeft, DoneIsEnd, Consumed, Sum!Thread
<1>5. NothingLost
  <2> DEFINE c == [k \in 0 .. 0 |-> 0]
  <2> DEFINE s == [k \in 0 .. THREADS_NUM |-> 0]
  <2>1. SumsRead(c, 0)
    BY DEF SumsRead
  <2>2. SumsOwed(s)
    BY <1>1 DEF SumsOwed, Owed, Sum!Thread
  <2>3. c[0] = 0 /\ s[THREADS_NUM] = 0 /\ s[0] = 0
    OBVIOUS
  <2> HIDE DEF c, s
  <2>5. Same(s[THREADS_NUM], c[Consumed]) /\ Same(s[joined], global_sum)
    BY <1>1, <1>4, <2>3, SameSelf
  <2>6. SumsRead(c, Consumed)
    BY <1>4, <2>1
  <2> QED
    BY <2>2, <2>5, <2>6, Zenon DEF NothingLost
<1> QED
  BY <1>3, <1>4, <1>5 DEF SumInv

(* One thread may owe another amount: so do all the threads together.      *)
LEMMA OwedChanges ==
  ASSUME NEW s, SumsOwed(s), NEW t \in Sum!Thread, NEW d \in Int,
         \A u \in Sum!Thread : u # t => Owed(u)' = Owed(u),
         Owed(t)' = Owed(t) + d, \A u \in Sum!Thread : Owed(u) \in Int
  PROVE  \E z : /\ SumsOwed(z)'
                /\ \A k \in 0 .. THREADS_NUM :
                     z[k] = IF k <= t THEN s[k] ELSE s[k] + d
<1> USE SumAssumption
<1> DEFINE z == [k \in 0 .. THREADS_NUM |-> IF k <= t THEN s[k] ELSE s[k] + d]
<1>1. z \in [0 .. THREADS_NUM -> Int] /\ z[0] = 0
  BY DEF SumsOwed, Sum!Thread
<1>2. ASSUME NEW u \in Sum!Thread PROVE z[u + 1] = z[u] + Owed(u)'
  <2>1. u \in 0 .. THREADS_NUM /\ u + 1 \in 0 .. THREADS_NUM
        /\ s[u + 1] = s[u] + Owed(u) /\ s[u] \in Int /\ s[u + 1] \in Int
    BY DEF SumsOwed, Sum!Thread
  <2>2. CASE u = t
    BY <2>1, <2>2 DEF Sum!Thread
  <2>3. CASE u # t
    <3>1. Owed(u)' = Owed(u)
      BY <2>3
    <3>2. (u <= t <=> u + 1 <= t) /\ u \in Int /\ t \in Int
      BY <2>3 DEF Sum!Thread
    <3> HIDE DEF z
    <3>3. z[u] = (IF u <= t THEN s[u] ELSE s[u] + d)
          /\ z[u + 1] = (IF u <= t THEN s[u + 1] ELSE s[u + 1] + d)
      BY <2>1, <3>2 DEF z
    <3> DEFINE a == s[u]
    <3> DEFINE b == s[u + 1]
    <3> DEFINE o == Owed(u)
    <3>4. b = a + o /\ a \in Int /\ b \in Int /\ o \in Int
      BY <2>1
    <3>5. z[u] = (IF u <= t THEN a ELSE a + d)
          /\ z[u + 1] = (IF u <= t THEN b ELSE b + d)
      BY <3>3
    <3> HIDE DEF a, b, o
    <3>6. z[u + 1] = z[u] + o
      BY <3>4, <3>5
    <3> QED
      BY <3>1, <3>6 DEF o
  <2> QED
    BY <2>2, <2>3
<1>3. SumsOwed(z)'
  BY <1>1, <1>2 DEF SumsOwed
<1> QED
  BY <1>3
LEMMA OwedTyped == SumTyped => \A u \in Sum!Thread : Owed(u) \in Int
BY SumAssumption DEF SumTyped, Owed

LEMMA PrimedSums ==
  ASSUME NEW s, SumsOwed(s), \A u \in Sum!Thread : Owed(u)' = Owed(u)
  PROVE  SumsOwed(s)'
BY Zenon DEF SumsOwed

LEMMA PrimedReads ==
  ASSUME NEW c, NEW n, SumsRead(c, n), given' = given
  PROVE  SumsRead(c, n)'
BY DEF SumsRead

(* Nobody has read or added anything.                                      *)
LEMMA NothingNew ==
  ASSUME NothingLost, \A u \in Sum!Thread : Owed(u)' = Owed(u),
         UNCHANGED <<given, tokens, joined, global_sum>>
  PROVE  NothingLost'
<1> SUFFICES ASSUME Sum!AllNumbers'
             PROVE  \E c, s :
                      /\ SumsRead(c, Consumed)'
                      /\ SumsOwed(s)'
                      /\ Same(s[THREADS_NUM], c[Consumed'])
                      /\ Same(s[joined'], global_sum')
  BY Zenon DEF NothingLost, Same
<1>1. Sum!AllNumbers /\ UNCHANGED Consumed
  BY DEF Sum!AllNumbers, Consumed
<1>2. PICK c, s : /\ SumsRead(c, Consumed)
                  /\ SumsOwed(s)
                  /\ Same(s[THREADS_NUM], c[Consumed])
                  /\ Same(s[joined], global_sum)
  BY <1>1, Zenon DEF NothingLost
<1>3. SumsOwed(s)' /\ SumsRead(c, Consumed)'
  BY <1>1, <1>2, PrimedSums, PrimedReads, Zenon
<1> QED
  BY <1>1, <1>2, <1>3, Zenon

LEMMA SumRests == ASSUME SumInv, UNCHANGED sumVars PROVE SumInv'
<1>1. UNCHANGED Consumed /\ \A u \in Sum!Thread : Owed(u)' = Owed(u)
  BY DEF sumVars, Consumed, Owed
<1>2. SumTyped' /\ TokensLeft' /\ DoneIsEnd'
  BY <1>1 DEF sumVars, SumInv, SumTyped, TokensLeft, DoneIsEnd
<1>3. NothingLost'
  BY <1>1, NothingNew DEF SumInv, sumVars
<1> QED
  BY <1>2, <1>3 DEF SumInv

LEMMA SumScans ==
  ASSUME SumInv, NEW t \in Sum!Thread, Sum!Scan(t) PROVE SumInv'
<1> USE SumAssumption
<1> DEFINE d == Head(tokens)[1]
<1>1. /\ sumAt[t] = "scan" /\ tokens # <<>> /\ Head(tokens) # <<>>
      /\ tmp' = [tmp EXCEPT ![t] = d] /\ tokens' = Tail(tokens)
      /\ sumAt' = [sumAt EXCEPT ![t] = "add"]
      /\ UNCHANGED <<given, sum, joined, global_sum>>
  BY DEF Sum!Scan
<1>2. Head(tokens) \in Seq(Int) /\ d \in Int
  <2>1. Head(tokens) \in Seq(Int)
    <3> DEFINE Numbers == Seq(Int)
    <3>1. tokens \in Seq(Numbers)
      BY DEF SumInv, SumTyped
    <3> HIDE DEF Numbers
    <3>2. Head(tokens) \in Numbers
      BY <1>1, <3>1
    <3> QED
      BY <3>2 DEF Numbers
  <2> QED
    BY <1>1, <2>1, FirstOfNumber
<1>3. tokens' \in Seq(Seq(Int)) /\ Len(tokens') = Len(tokens) - 1
      /\ Len(tokens) \in Nat \ {0} /\ Len(given) \in Nat
      /\ \A k \in 1 .. Len(tokens') : tokens'[k] = tokens[k + 1]
  <2> DEFINE Numbers == Seq(Int)
  <2>1. tokens \in Seq(Numbers) /\ given \in Seq(Numbers)
    BY DEF SumInv, SumTyped
  <2> HIDE DEF Numbers
  <2>2. /\ tokens' \in Seq(Numbers) /\ Len(tokens') = Len(tokens) - 1
        /\ Len(tokens) \in Nat \ {0} /\ Len(given) \in Nat
        /\ \A k \in 1 .. Len(tokens') : tokens'[k] = tokens[k + 1]
    BY <1>1, <2>1
  <2> QED
    BY <2>2 DEF Numbers
<1> HIDE DEF d
<1>4. SumTyped'
  BY <1>1, <1>2, <1>3 DEF SumInv, SumTyped
<1>5. Consumed' = Consumed + 1 /\ Consumed \in Nat
      /\ given[Consumed + 1] = Head(tokens)
      /\ given[Consumed + 1][1] = d
  BY <1>1, <1>3 DEF Consumed, SumInv, TokensLeft, d
<1>6. TokensLeft'
  <2>1. Len(tokens') <= Len(given')
    BY <1>1, <1>3 DEF SumInv, TokensLeft
  <2>2. ASSUME NEW k \in 1 .. Len(tokens')
        PROVE  tokens'[k] = given'[Consumed' + k]
    <3>1. k + 1 \in 1 .. Len(tokens) /\ tokens'[k] = tokens[k + 1]
      BY <1>3
    <3>2. tokens[k + 1] = given[Consumed + (k + 1)]
      BY <3>1 DEF SumInv, TokensLeft
    <3> QED
      BY <1>1, <1>5, <3>1, <3>2
  <2>3. ASSUME NEW k \in 1 .. Consumed' PROVE given'[k] # <<>>
    <3>1. k \in 1 .. Consumed \/ k = Consumed + 1
      BY <1>5
    <3>2. \A j \in 1 .. Consumed : given[j] # <<>>
      BY DEF SumInv, TokensLeft
    <3> QED
      BY <1>1, <1>5, <3>1, <3>2
  <2> QED
    BY <2>1, <2>2, <2>3 DEF TokensLeft
<1>7. DoneIsEnd' /\ joined <= t
  BY SMTT(60), <1>1 DEF SumInv, DoneIsEnd, SumTyped, Sum!Thread
<1>8. NothingLost'
  <2> SUFFICES ASSUME Sum!AllNumbers'
               PROVE  \E c, s :
                        /\ SumsRead(c, Consumed)'
                        /\ SumsOwed(s)'
                        /\ Same(s[THREADS_NUM], c[Consumed'])
                        /\ Same(s[joined'], global_sum')
    BY Zenon DEF NothingLost, Same
  <2> PICK n \in Nat : n = Consumed
    BY <1>5
  <2> PICK number \in Int : number = d
    BY <1>2
  <2>1. Sum!AllNumbers
    BY <1>1 DEF Sum!AllNumbers
  <2>2. PICK c, s : /\ SumsRead(c, n)
                    /\ SumsOwed(s)
                    /\ Same(s[THREADS_NUM], c[n])
                    /\ Same(s[joined], global_sum)
    BY <2>1, Zenon DEF NothingLost, SumInv
  <2>3. n \in Nat /\ Consumed' = n + 1
    BY <1>5
  <2>4. c[n] \in Int /\ c[n] + number \in Int
        /\ (c[n] + number) % IntModulus \in 0 .. IntModulus - 1
        /\ Same(c[n] + number, (c[n] + number) % IntModulus)
    <3>1. c[n] \in Int
      BY <2>2, <2>3 DEF SumsRead
    <3> DEFINE last == c[n]
    <3>2. last \in Int
      BY <3>1
    <3> HIDE DEF last
    <3>3. last + number \in Int
      BY <3>2
    <3>4. /\ (last + number) % IntModulus \in 0 .. IntModulus - 1
          /\ Same(last + number, (last + number) % IntModulus)
      BY <3>3, SameRemainder
    <3> QED
      BY <3>1, <3>3, <3>4 DEF last
  <2> PICK e : e = [k \in 0 .. n + 1 |->
                      IF k = n + 1 THEN (c[n] + number) % IntModulus ELSE c[k]]
    OBVIOUS
  <2>5. SumsRead(e, n + 1)'
    <3>1. e \in [0 .. n + 1 -> 0 .. IntModulus - 1] /\ e[0] = 0
      BY <2>2, <2>3, <2>4 DEF SumsRead
    <3>2. ASSUME NEW k \in 1 .. n + 1
          PROVE  e[k] = (e[k - 1] + given'[k][1]) % IntModulus
      <4>1. CASE k = n + 1
        <5>1. e[k] = (c[n] + number) % IntModulus /\ e[k - 1] = c[n]
          BY <2>3, <4>1
        <5> QED
          BY <1>1, <1>5, <4>1, <5>1
      <4>2. CASE k # n + 1
        <5>1. k \in 1 .. n /\ e[k] = c[k] /\ e[k - 1] = c[k - 1]
          BY <2>3, <4>2
        <5> QED
          BY <1>1, <2>2, <5>1 DEF SumsRead
      <4> QED
        BY <4>1, <4>2
    <3> QED
      BY <3>1, <3>2 DEF SumsRead
  <2>6. e[n + 1] = (c[n] + number) % IntModulus
    BY <2>3
  <2>7. /\ \A u \in Sum!Thread : u # t => Owed(u)' = Owed(u)
        /\ Owed(t)' = Owed(t) + number
    BY <1>1, <1>2 DEF Owed, SumInv, SumTyped
  <2>8. PICK z : /\ SumsOwed(z)'
                 /\ \A k \in 0 .. THREADS_NUM :
                      z[k] = IF k <= t THEN s[k] ELSE s[k] + number
    BY <1>2, <2>2, <2>7, OwedTyped, OwedChanges DEF SumInv
  <2>9. z[joined] = s[joined] /\ z[THREADS_NUM] = s[THREADS_NUM] + number
        /\ s[THREADS_NUM] \in Int
    BY <1>7, <2>2, <2>8 DEF SumInv, SumTyped, Sum!Thread, SumsOwed
  <2>10. Same(z[THREADS_NUM], e[n + 1])
    <3>1. Same(s[THREADS_NUM] + number, c[n] + number)
      BY <1>2, <2>2, <2>4, <2>9, SamePlus
    <3>2. s[THREADS_NUM] + number \in Int /\ c[n] + number \in Int
      BY <2>4, <2>9
    <3>3. Same(s[THREADS_NUM] + number, (c[n] + number) % IntModulus)
      BY SMTT(60), <2>4, <3>1, <3>2, SameTwice
    <3> QED
      BY <2>6, <2>9, <3>3
  <2>11. Same(z[joined'], global_sum')
    BY <1>1, <2>2, <2>9
  <2>12. SumsRead(e, Consumed)'
    BY <2>3, <2>5, Zenon
  <2>13. Same(z[THREADS_NUM], e[Consumed'])
    BY <2>3, <2>10, Zenon
  <2> QED
    BY <2>8, <2>11, <2>12, <2>13, Zenon
<1> QED
  BY <1>4, <1>6, <1>7, <1>8 DEF SumInv
LEMMA SumAdds ==
  ASSUME SumInv, NEW t \in Sum!Thread, Sum!Add(t) PROVE SumInv'
<1> USE SumAssumption
<1>1. /\ sumAt[t] = "add" /\ sumAt' = [sumAt EXCEPT ![t] = "scan"]
      /\ sum' = [sum EXCEPT ![t] = (@ + tmp[t]) % IntModulus]
      /\ UNCHANGED <<given, tokens, tmp, joined, global_sum>>
  BY DEF Sum!Add
<1>2. PICK x \in Int : x = sum[t] + tmp[t]
  BY DEF SumInv, SumTyped
<1>3. PICK r \in 0 .. IntModulus - 1 : r = x % IntModulus /\ Same(x, r)
  BY SameRemainder
<1>4. sum' = [sum EXCEPT ![t] = r]
  BY <1>1, <1>2, <1>3
<1>5. SumTyped' /\ TokensLeft'
  <2>1. TokensLeft'
    BY <1>1 DEF SumInv, TokensLeft, Consumed
  <2> QED
    BY <1>1, <1>4, <2>1 DEF SumInv, SumTyped
<1>6. DoneIsEnd' /\ joined <= t /\ Consumed' = Consumed
  <2>1. DoneIsEnd'
    BY <1>1 DEF SumInv, DoneIsEnd, SumTyped
  <2>2. joined <= t
    BY <1>1 DEF SumInv, DoneIsEnd, SumTyped, Sum!Thread
  <2>3. Consumed' = Consumed
    BY <1>1 DEF Consumed
  <2> QED
    BY <2>1, <2>2, <2>3
<1>7. NothingLost'
  <2> SUFFICES ASSUME Sum!AllNumbers'
               PROVE  \E c, s :
                        /\ SumsRead(c, Consumed)'
                        /\ SumsOwed(s)'
                        /\ Same(s[THREADS_NUM], c[Consumed'])
                        /\ Same(s[joined'], global_sum')
    BY Zenon DEF NothingLost, Same
  <2> PICK n : n = Consumed
    OBVIOUS
  <2>1. Sum!AllNumbers
    BY <1>1 DEF Sum!AllNumbers
  <2>2. PICK c, s : /\ SumsRead(c, n)
                    /\ SumsOwed(s)
                    /\ Same(s[THREADS_NUM], c[n])
                    /\ Same(s[joined], global_sum)
    BY <2>1, Zenon DEF NothingLost, SumInv
  <2> PICK d \in Int : d = r - x
    OBVIOUS
  <2>3. /\ \A u \in Sum!Thread : u # t => Owed(u)' = Owed(u)
        /\ Owed(t)' = Owed(t) + d
    <3>1. ASSUME NEW u \in Sum!Thread, u # t PROVE Owed(u)' = Owed(u)
      BY <1>1, <1>4, <3>1 DEF Owed, SumInv, SumTyped
    <3>2. Owed(t) = x /\ Owed(t)' = r + 0
      BY <1>1, <1>2, <1>4 DEF Owed, SumInv, SumTyped
    <3> QED
      BY <3>1, <3>2
  <2>4. PICK z : /\ SumsOwed(z)'
                 /\ \A k \in 0 .. THREADS_NUM :
                      z[k] = IF k <= t THEN s[k] ELSE s[k] + d
    BY <2>2, <2>3, OwedTyped, OwedChanges DEF SumInv
  <2>5. z[joined] = s[joined] /\ z[THREADS_NUM] = s[THREADS_NUM] + d
        /\ s[THREADS_NUM] \in Int
    BY <1>6, <2>2, <2>4 DEF SumInv, SumTyped, Sum!Thread, SumsOwed
  <2>6. c[n] \in Int
    <3>1. n \in Nat
      BY DEF SumInv, SumTyped, TokensLeft, Consumed
    <3> QED
      BY <2>2, <3>1 DEF SumsRead
  <2>7. Same(z[THREADS_NUM], c[n])
    <3>1. PICK w \in Int : w = s[THREADS_NUM]
      BY <2>5
    <3>2. Same(r, x)
      BY <1>3, SameTurned
    <3>3. Same(r + (w - x), x + (w - x))
      <4>1. w - x \in Int /\ r \in Int
        OBVIOUS
      <4> QED
        BY <3>2, <4>1, SamePlus
    <3>4. r + (w - x) = w + d /\ x + (w - x) = w
      OBVIOUS
    <3>5. Same(w + d, w)
      BY <3>3, <3>4
    <3>6. Same(w, c[n])
      BY <2>2, <3>1
    <3>7. Same(w + d, c[n])
      BY <2>6, <3>5, <3>6, SameTwice
    <3> QED
      BY <2>5, <3>1, <3>7
  <2>8. Same(z[joined'], global_sum')
    BY <1>1, <2>2, <2>5
  <2>9. SumsRead(c, n)'
    BY <1>1, <2>2, PrimedReads
  <2>10. Consumed' = n
    BY <1>6
  <2>11. SumsRead(c, Consumed)' /\ Same(z[THREADS_NUM], c[Consumed'])
    BY <2>7, <2>9, <2>10, Zenon
  <2> QED
    BY <2>4, <2>8, <2>11, Zenon
<1> QED
  BY <1>5, <1>6, <1>7 DEF SumInv

LEMMA SumJoins == ASSUME SumInv, Sum!Join PROVE SumInv'
<1> USE SumAssumption
<1>1. /\ joined < THREADS_NUM /\ sumAt[joined] = "done"
      /\ global_sum' = (global_sum + sum[joined]) % IntModulus
      /\ joined' = joined + 1
      /\ UNCHANGED <<given, tokens, sumAt, tmp, sum>>
  BY DEF Sum!Join
<1>2. PICK t \in Sum!Thread : t = joined /\ t + 1 = joined'
  BY <1>1 DEF SumInv, SumTyped, Sum!Thread
<1>3. PICK x \in Int, o \in Int :
        o = sum[t] /\ x = global_sum + o /\ global_sum \in Int
  BY DEF SumInv, SumTyped
<1>4. PICK r \in 0 .. IntModulus - 1 : r = x % IntModulus /\ Same(x, r)
  BY SameRemainder
<1>5. global_sum' = r
  BY <1>1, <1>2, <1>3, <1>4
<1>6. SumTyped' /\ TokensLeft'
  <2>1. TokensLeft'
    BY <1>1 DEF SumInv, TokensLeft, Consumed
  <2> QED
    BY SMTT(60), <1>1, <1>2, <1>5, <2>1 DEF SumInv, SumTyped
<1>7. DoneIsEnd' /\ Consumed' = Consumed
  BY <1>1 DEF SumInv, DoneIsEnd, SumTyped, Sum!Thread, Consumed
<1>8. \A u \in Sum!Thread : Owed(u)' = Owed(u)
  BY <1>1 DEF Owed
<1>9. NothingLost'
  <2> SUFFICES ASSUME Sum!AllNumbers'
               PROVE  \E c, s :
                        /\ SumsRead(c, Consumed)'
                        /\ SumsOwed(s)'
                        /\ Same(s[THREADS_NUM], c[Consumed'])
                        /\ Same(s[joined'], global_sum')
    BY Zenon DEF NothingLost, Same
  <2> PICK n : n = Consumed
    OBVIOUS
  <2>1. Sum!AllNumbers
    BY <1>1 DEF Sum!AllNumbers
  <2>2. PICK c, s : /\ SumsRead(c, n)
                    /\ SumsOwed(s)
                    /\ Same(s[THREADS_NUM], c[n])
                    /\ Same(s[joined], global_sum)
    BY <2>1, Zenon DEF NothingLost, SumInv
  <2>3. SumsRead(c, n)' /\ SumsOwed(s)' /\ Consumed' = n
    BY <1>1, <1>7, <1>8, <2>2, PrimedReads, PrimedSums
  <2>4. s[t] \in Int /\ s[t + 1] = s[t] + o
    <3>1. Owed(t) = o + 0 /\ t \in 0 .. THREADS_NUM
      BY <1>1, <1>2, <1>3 DEF Owed, Sum!Thread
    <3> QED
      BY <2>2, <3>1 DEF SumsOwed
  <2>5. Same(s[joined'], global_sum')
    <3>1. PICK w \in Int : w = s[t]
      BY <2>4
    <3>2. Same(w, global_sum)
      BY <1>2, <2>2, <3>1
    <3>3. Same(w + o, x)
      BY <1>3, <3>2, SamePlus
    <3>4. Same(w + o, r)
      BY <1>4, <3>3, SameTwice
    <3> QED
      BY <1>2, <1>5, <2>4, <3>1, <3>4
  <2>6. SumsRead(c, Consumed)' /\ Same(s[THREADS_NUM], c[Consumed'])
    BY <2>2, <2>3, Zenon
  <2> QED
    BY <2>3, <2>5, <2>6, Zenon
<1> QED
  BY <1>6, <1>7, <1>9 DEF SumInv

LEMMA SumSteps == SumInv /\ [ProcessesNext]_processesVars => SumInv'
<1> SUFFICES ASSUME SumInv, [ProcessesNext]_processesVars PROVE SumInv'
  OBVIOUS
<1> USE SumAssumption
<1>1. CASE UNCHANGED sumVars
  BY <1>1, SumRests
<1>2. ASSUME NEW t \in Sum!Thread, Sum!Create(t) \/ Sum!ScanEnds(t)
      PROVE  SumInv'
  <2>1. \A u \in Sum!Thread : Owed(u)' = Owed(u)
    BY <1>2 DEF Sum!Create, Sum!ScanEnds, Owed, SumInv, SumTyped
  <2>2. NothingLost'
    BY <1>2, <2>1, NothingNew DEF Sum!Create, Sum!ScanEnds, SumInv
  <2>3. SumTyped' /\ TokensLeft'
    BY <1>2
    DEF Sum!Create, Sum!ScanEnds, SumInv, SumTyped, TokensLeft, Consumed
  <2>4. DoneIsEnd'
    BY <1>2 DEF Sum!Create, Sum!ScanEnds, SumInv, DoneIsEnd, SumTyped
  <2> QED
    BY <2>2, <2>3, <2>4 DEF SumInv
<1>3. ASSUME NEW t \in Sum!Thread, Sum!ScanFails(t) PROVE SumInv'
  <2>1. SumTyped' /\ TokensLeft' /\ DoneIsEnd'
    BY <1>3
    DEF Sum!ScanFails, SumInv, SumTyped, TokensLeft, DoneIsEnd, Consumed
  <2>2. ~Sum!AllNumbers'
    <3>1. given' = given /\ tokens # <<>> /\ tokens[1] = <<>>
      BY <1>3 DEF Sum!ScanFails
    <3>2. 1 \in 1 .. Len(tokens) /\ Len(tokens) <= Len(given)
          /\ Len(tokens) \in Nat /\ Len(given) \in Nat
      BY SMTT(60), <3>1 DEF SumInv, SumTyped, TokensLeft
    <3>3. given[Consumed + 1] = <<>> /\ Consumed + 1 \in 1 .. Len(given)
      BY <3>1, <3>2 DEF SumInv, TokensLeft, Consumed
    <3> QED
      BY <3>1, <3>3 DEF Sum!AllNumbers, SumInv, SumTyped
  <2> QED
    BY <2>1, <2>2 DEF SumInv, NothingLost
<1>4. CASE Sum!Next
  BY <1>2, <1>3, <1>4, SumScans, SumAdds, SumJoins
  DEF Sum!Next, Sum!ThreadStep
<1> QED
  BY <1>1, <1>4
  DEF ProcessesNext, PipeNext, ChainNext, PairNext, SumNext, WordsNext,
      CalcNext, processesVars

LEMMA LeastOf ==
  ASSUME NEW S \in SUBSET Nat, S # {}
  PROVE  \E k \in S : \A j \in S : k <= j
<1>1. PICK k \in S : \A j \in S : ~(<<j, k>> \in OpToRel(<, Nat))
  BY NatLessThanWellFounded, WFMin
<1>2. \A x, y \in Nat : x < y => <<x, y>> \in OpToRel(<, Nat)
  BY DEF OpToRel
<1>3. \A j \in S : ~(j < k)
  BY <1>1, <1>2
<1> QED
  BY <1>3

(* Functions on 0 .. n that begin and go on alike are the same.            *)
LEMMA PrefixSumsAreTotal ==
  ASSUME NEW n \in Nat, n = Len(given), NEW c, SumsRead(c, n)
  PROVE  Sum!Total[n] = c[n]
<1> DEFINE D == 0 .. n
<1> DEFINE Body(f) ==
      [k \in D |-> IF k = 0 THEN 0
                   ELSE (f[k - 1] + given[k][1]) % IntModulus]
<1>1. c = Body(c)
  BY DEF SumsRead
<1>2. Sum!Total = CHOOSE f : f = Body(f)
  BY Zenon DEF Sum!Total
<1>3. Sum!Total = Body(Sum!Total)
  <2> HIDE DEF Body
  <2> QED
    BY <1>1, <1>2, Zenon
<1> PICK e : e = Sum!Total
  OBVIOUS
<1>4. \A k \in D : e[k] = IF k = 0 THEN 0
                          ELSE (e[k - 1] + given[k][1]) % IntModulus
  BY <1>3
<1>5. \A k \in D : c[k] = IF k = 0 THEN 0
                          ELSE (c[k - 1] + given[k][1]) % IntModulus
  BY DEF SumsRead
<1>6. SUFFICES ASSUME e[n] # c[n] PROVE FALSE
  OBVIOUS
<1> DEFINE Wrong == {k \in D : e[k] # c[k]}
<1>7. PICK k \in Wrong : \A j \in Wrong : k <= j
  <2>1. Wrong \subseteq Nat /\ n \in Wrong
    BY <1>6
  <2> HIDE DEF Wrong
  <2> QED
    BY <2>1, LeastOf
<1>8. k # 0 /\ k - 1 \in D /\ k - 1 \notin Wrong
  BY <1>4, <1>5, <1>7
<1>9. e[k - 1] = c[k - 1]
  BY <1>8
<1> QED
  BY <1>4, <1>5, <1>7, <1>8, <1>9

LEMMA SumIsRight == SumInv => Sum!SumIsTotal
<1> SUFFICES ASSUME SumInv, joined = THREADS_NUM
             PROVE  Sum!AllNumbers /\ global_sum = Sum!Total[Len(given)]
  BY DEF Sum!SumIsTotal
<1> USE SumAssumption
<1>1. tokens = <<>>
  BY DEF SumInv, DoneIsEnd, Sum!Thread
<1>2. PICK n \in Nat : n = Len(given) /\ Consumed = n
  BY <1>1 DEF SumInv, SumTyped, Consumed
<1>3. Sum!AllNumbers
  BY <1>2 DEF SumInv, SumTyped, TokensLeft, Sum!AllNumbers
<1>4. PICK c, s : /\ SumsRead(c, n)
                  /\ SumsOwed(s)
                  /\ Same(s[THREADS_NUM], c[n])
                  /\ Same(s[joined], global_sum)
  <2>1. NothingLost
    BY DEF SumInv
  <2> QED
    BY <1>2, <1>3, <2>1, Zenon DEF NothingLost
<1>5. /\ s[THREADS_NUM] \in Int /\ c[n] \in 0 .. IntModulus - 1
      /\ global_sum \in 0 .. IntModulus - 1
  <2>1. s[THREADS_NUM] \in Int
    BY <1>4 DEF SumsOwed
  <2>2. c[n] \in 0 .. IntModulus - 1
    BY <1>2, <1>4 DEF SumsRead
  <2> QED
    BY <2>1, <2>2 DEF SumInv, SumTyped
<1>6. global_sum = c[n]
  <2>1. PICK w \in Int : w = s[THREADS_NUM]
    BY <1>5
  <2>2. PICK a \in 0 .. IntModulus - 1 : a = c[n]
    BY <1>5
  <2>3. PICK b \in 0 .. IntModulus - 1 : b = global_sum
    BY <1>5
  <2>4. Same(w, a) /\ Same(w, b)
    BY <1>4, <2>1, <2>2, <2>3
  <2>5. a \in Int /\ b \in Int
    OBVIOUS
  <2>6. Same(b, w)
    BY <2>4, <2>5, SameTurned
  <2>7. Same(b, a)
    BY <2>4, <2>5, <2>6, SameTwice
  <2> QED
    BY <2>2, <2>3, <2>7, SameSmall
<1> QED
  BY <1>2, <1>3, <1>4, <1>6, PrefixSumsAreTotal
-----------------------------------------------------------------------------
(* The chains of inf09-0, inf09-1 and inf16-0                              *)

Places == {"run", "wait", "done"}

(* The first number that inf09-1 says.                                     *)
First == IF limit > chainCount THEN 1 ELSE chainCount - limit + 1

ChainTyped ==
  /\ task \in {"inf09-0", "inf09-1", "inf16-0"}
  /\ chainCount \in Nat /\ limit \in Nat \ {0}
  /\ links \in Seq(Places) /\ Len(links) >= 1
  /\ said \in Seq(Int)

(* There are no more links than processes, nor than numbers and one.       *)
LinksAllowed ==
  /\ task # "inf16-0" => Len(links) <= limit
  /\ task # "inf09-0" => Len(links) <= chainCount + 1

(* The last link runs, all others wait for the next, nobody spoke.         *)
GoesDown ==
  /\ \A l \in 1 .. Len(links) - 1 : links[l] = "wait"
  /\ links[Len(links)] = "run"
  /\ said = <<>>

(* The links from m on have ended, and have said what they had to say.     *)
CameBackTo(m) ==
  /\ \A l \in 1 .. Len(links) :
       links[l] = IF l < m THEN "wait" ELSE "done"
  /\ task = "inf09-0" => said = <<limit>>
  /\ task = "inf09-1" =>
       /\ Len(said) = chainCount - m + 2 - First
       /\ \A k \in 1 .. Len(said) : said[k] = First + k - 1
  /\ task = "inf16-0" =>
       /\ Len(said) = chainCount + 1 - m
       /\ \A k \in 1 .. Len(said) : said[k] = chainCount + 1 - k

ChainInv ==
  /\ ChainTyped /\ LinksAllowed
  /\ GoesDown \/ \E m \in 1 .. Len(links) : CameBackTo(m)

LEMMA FrontOf ==
  ASSUME NEW S, NEW q \in Seq(S), q # <<>>
  PROVE  /\ Links!Front(q) \in Seq(S) /\ Len(Links!Front(q)) = Len(q) - 1
         /\ \A k \in 1 .. Len(q) - 1 : Links!Front(q)[k] = q[k]
<1>1. Len(q) \in Nat \ {0} /\ DOMAIN q = 1 .. Len(q)
  BY EmptySeq, LenProperties
<1> QED
  BY <1>1, SubSeqProperties DEF Links!Front

LEMMA LastReplaced ==
  ASSUME NEW S, NEW q \in Seq(S), q # <<>>, NEW x \in S
  PROVE  LET r == Append(Links!Front(q), x)
         IN  /\ r \in Seq(S) /\ Len(r) = Len(q)
             /\ \A l \in 1 .. Len(q) - 1 : r[l] = q[l]
             /\ r[Len(q)] = x
<1> DEFINE f == Links!Front(q)
<1>1. /\ f \in Seq(S) /\ Len(f) = Len(q) - 1 /\ Len(q) \in Nat \ {0}
      /\ \A k \in 1 .. Len(q) - 1 : f[k] = q[k]
  BY FrontOf, EmptySeq, LenProperties
<1> HIDE DEF f
<1>2. /\ Append(f, x) \in Seq(S) /\ Len(Append(f, x)) = Len(q)
      /\ \A l \in 1 .. Len(q) - 1 : Append(f, x)[l] = q[l]
      /\ Append(f, x)[Len(q)] = x
  BY <1>1
<1> QED
  BY <1>2 DEF f

LEMMA LastLink ==
  ASSUME ChainTyped, NEW x \in Places
  PROVE  LET q == Append(Links!Front(links), x)
         IN  /\ q \in Seq(Places) /\ Len(q) = Len(links)
             /\ \A l \in 1 .. Len(links) - 1 : q[l] = links[l]
             /\ q[Len(links)] = x
<1>1. links \in Seq(Places) /\ links # <<>>
  BY DEF ChainTyped
<1> QED
  BY <1>1, LastReplaced

LEMMA OneLinkMore ==
  ASSUME NEW S, NEW q \in Seq(S), NEW x \in S
  PROVE  /\ q \o <<x>> \in Seq(S) /\ Len(q \o <<x>>) = Len(q) + 1
         /\ \A l \in 1 .. Len(q) : (q \o <<x>>)[l] = q[l]
         /\ (q \o <<x>>)[Len(q) + 1] = x
OBVIOUS

LEMMA OneMoreSaid ==
  ASSUME ChainTyped, NEW x \in Int
  PROVE  /\ Append(said, x) \in Seq(Int) /\ Len(Append(said, x)) = Len(said) + 1
         /\ \A k \in 1 .. Len(said) : Append(said, x)[k] = said[k]
         /\ Append(said, x)[Len(said) + 1] = x
BY DEF ChainTyped

LEMMA ChainStart == ProcessesInit => ChainInv
<1> SUFFICES ASSUME Links!Init PROVE ChainInv
  BY DEF ProcessesInit
<1> USE ChainAssumption
<1>1. ChainTyped
  BY DEF Links!Init, ChainTyped, Places
<1>2. LinksAllowed /\ GoesDown
  BY <1>1 DEF Links!Init, LinksAllowed, GoesDown, ChainTyped
<1> QED
  BY <1>1, <1>2 DEF ChainInv

LEMMA ChainSpawns == ASSUME ChainInv, Links!Spawn PROVE ChainInv'
<1> DEFINE L == Len(links)
<1> DEFINE q == Append(Links!Front(links), "wait")
<1>1. ChainTyped /\ L \in Nat \ {0} /\ links[L] = "run"
  BY DEF ChainInv, ChainTyped, Links!Spawn, Links!Running, Links!Last
<1>2. GoesDown
  BY <1>1 DEF ChainInv, CameBackTo
<1>3. /\ q \in Seq(Places) /\ Len(q) = L
      /\ \A l \in 1 .. L - 1 : q[l] = links[l]
      /\ q[L] = "wait"
  BY <1>1, LastLink DEF Places
<1>4. links' = q \o <<"run">> /\ UNCHANGED <<task, chainCount, limit, said>>
  BY DEF Links!Spawn
<1> HIDE DEF q
<1>5. /\ links' \in Seq(Places) /\ Len(links') = L + 1
      /\ \A l \in 1 .. L : links'[l] = q[l]
      /\ links'[L + 1] = "run"
  BY SMTT(60), <1>3, <1>4, OneLinkMore DEF Places
<1>6. ChainTyped'
  BY <1>1, <1>4, <1>5 DEF ChainTyped
<1>7. LinksAllowed'
  BY <1>1, <1>4, <1>5
  DEF LinksAllowed, ChainInv, ChainTyped, Links!Spawn, Links!WantsMore,
      Links!MayFork
<1>8. GoesDown'
  <2>1. ASSUME NEW l \in 1 .. L PROVE links'[l] = "wait"
    BY <1>1, <1>2, <1>3, <1>5 DEF GoesDown
  <2> QED
    BY <1>1, <1>2, <1>4, <1>5, <2>1 DEF GoesDown
<1> QED
  BY <1>6, <1>7, <1>8 DEF ChainInv

LEMMA ChainTurns ==
  ASSUME ChainInv, Links!SpawnFails \/ Links!Stop PROVE ChainInv'
<1> DEFINE L == Len(links)
<1>1. ChainTyped /\ L \in Nat \ {0} /\ links[L] = "run"
  BY DEF ChainInv, ChainTyped, Links!SpawnFails, Links!Stop, Links!Running,
         Links!Last
<1>2. GoesDown
  BY <1>1 DEF ChainInv, CameBackTo
<1>3. links' = Append(Links!Front(links), "done")
      /\ UNCHANGED <<task, chainCount, limit>>
  BY DEF Links!SpawnFails, Links!Stop
<1>4. /\ links' \in Seq(Places) /\ Len(links') = L
      /\ \A l \in 1 .. L - 1 : links'[l] = links[l]
      /\ links'[L] = "done"
  BY <1>1, <1>3, LastLink DEF Places
<1>5. LinksAllowed'
  BY <1>3, <1>4 DEF LinksAllowed, ChainInv
<1>6. \A l \in 1 .. Len(links') :
        links'[l] = IF l < L THEN "wait" ELSE "done"
  BY <1>1, <1>2, <1>4 DEF GoesDown
<1>7. CASE Links!Stop
  <2>1. said' = <<>> /\ task # "inf09-0" /\ L = chainCount + 1
    BY <1>1, <1>2, <1>7
    DEF Links!Stop, Links!WantsMore, GoesDown, ChainInv, ChainTyped,
        LinksAllowed
  <2>2. task = "inf09-1" => First = 1
    BY <1>1, <2>1 DEF First, ChainInv, LinksAllowed, ChainTyped
  <2>3. ChainTyped'
    BY <1>1, <1>3, <1>4, <2>1 DEF ChainTyped
  <2>4. CameBackTo(L)'
    <3>1. task = "inf09-1" => First' = 1
      BY <1>3, <2>2 DEF First
    <3>2. Len(said') = 0 /\ chainCount + 1 - L = 0 /\ chainCount - L + 2 - 1 = 0
      BY <1>1, <2>1 DEF ChainTyped
    <3>3. \A k \in 1 .. Len(said') : FALSE
      BY <3>2
    <3> QED
      BY <1>3, <1>4, <1>6, <2>1, <3>1, <3>2, <3>3 DEF CameBackTo
  <2> QED
    BY <1>1, <1>4, <1>5, <2>3, <2>4 DEF ChainInv
<1>8. CASE Links!SpawnFails
  <2>1. /\ said' = Append(said, Links!Number(L)) /\ said = <<>>
        /\ task # "inf16-0" /\ L = limit
        /\ task = "inf09-1" => L <= chainCount
    BY <1>1, <1>2, <1>8
    DEF Links!SpawnFails, Links!WantsMore, Links!MayFork, GoesDown, ChainInv,
        ChainTyped, LinksAllowed
  <2>2. Links!Number(L) \in Int /\ (task = "inf09-0" => Links!Number(L) = limit)
        /\ (task = "inf09-1" => Links!Number(L) = First)
    BY <1>1, <2>1 DEF Links!Number, ChainTyped, First
  <2>3. said' = <<Links!Number(L)>>
    BY <2>1
  <2>4. ChainTyped'
    BY <1>1, <1>3, <1>4, <2>2, <2>3 DEF ChainTyped
  <2>5. task = "inf09-1" => chainCount - L + 2 - First = 1
    BY <1>1, <2>1 DEF First, ChainTyped
  <2>6. First' = First
    BY <1>3 DEF First
  <2>7. CameBackTo(L)'
    BY <1>1, <1>3, <1>4, <1>6, <2>1, <2>2, <2>3, <2>5, <2>6
    DEF CameBackTo, ChainTyped
  <2> QED
    BY <1>1, <1>4, <1>5, <2>4, <2>7 DEF ChainInv
<1> QED
  BY <1>7, <1>8

LEMMA ChainReturns ==
  ASSUME ChainInv, NEW l \in DOMAIN links, Links!Finish(l) PROVE ChainInv'
<1> DEFINE L == Len(links)
<1>1. /\ links[l] = "wait" /\ links[l + 1] = "done"
      /\ links' = [links EXCEPT ![l] = "done"]
      /\ said' = IF task = "inf09-0" THEN said
                 ELSE Append(said, Links!Number(l))
      /\ UNCHANGED <<task, chainCount, limit>>
  BY DEF Links!Finish
<1>2. ChainTyped /\ LinksAllowed /\ L \in Nat \ {0} /\ l \in 1 .. L
  BY DEF ChainInv, ChainTyped
<1>3. l # L
  <2>1. CASE GoesDown
    BY <1>1, <1>2, <2>1 DEF GoesDown
  <2>2. CASE \E m \in 1 .. L : CameBackTo(m)
    BY <1>1, <1>2, <2>2 DEF CameBackTo
  <2> QED
    BY <2>1, <2>2 DEF ChainInv
<1>4. PICK m \in 1 .. L : CameBackTo(m)
  BY <1>1, <1>2, <1>3 DEF ChainInv, GoesDown
<1>5. m = l + 1
  BY SMTT(60), <1>1, <1>2, <1>3, <1>4 DEF CameBackTo
<1>6. links' \in Seq(Places) /\ Len(links') = L
      /\ \A k \in 1 .. L : links'[k] = IF k < l THEN "wait" ELSE "done"
  <2>1. links' \in Seq(Places) /\ Len(links') = L
        /\ \A k \in 1 .. L : links'[k] = IF k = l THEN "done" ELSE links[k]
    <3> DEFINE S == Places
    <3>1. links \in Seq(S) /\ "done" \in S
      BY <1>2 DEF ChainTyped, Places
    <3> HIDE DEF S
    <3>2. links' \in Seq(S) /\ Len(links') = L
          /\ \A k \in 1 .. L : links'[k] = IF k = l THEN "done" ELSE links[k]
      BY <1>1, <1>2, <3>1
    <3> QED
      BY <3>2 DEF S
  <2> QED
    BY <1>2, <1>4, <1>5, <2>1 DEF CameBackTo
<1>7. First' = First /\ First \in Int /\ Links!Number(l) \in Int
  BY <1>1, <1>2 DEF First, ChainTyped, Links!Number
<1>8. ChainTyped' /\ LinksAllowed'
  BY <1>1, <1>2, <1>6, <1>7, OneMoreSaid DEF ChainTyped, LinksAllowed
<1>9. CameBackTo(l)'
  <2>1. CASE task = "inf09-0"
    BY <1>1, <1>4, <1>6, <2>1 DEF CameBackTo
  <2>2. CASE task # "inf09-0"
    <3> DEFINE n == Len(said)
    <3>1. /\ Len(said') = n + 1 /\ n \in Nat
          /\ \A k \in 1 .. n : said'[k] = said[k]
          /\ said'[n + 1] = Links!Number(l)
      BY <1>1, <1>2, <1>7, <2>2, OneMoreSaid DEF ChainTyped
    <3> HIDE DEF n
    <3>2. CASE task = "inf09-1"
      <4>1. n = chainCount - l + 1 - First
            /\ \A k \in 1 .. n : said[k] = First + k - 1
        BY SMTT(60), <1>2, <1>4, <1>5, <1>7, <3>2 DEF CameBackTo, ChainTyped, n
      <4>2. Links!Number(l) = First + n
        BY SMTT(60), <1>2, <1>7, <3>2, <4>1 DEF Links!Number, ChainTyped
      <4>3. \A k \in 1 .. n + 1 : said'[k] = First + k - 1
        <5>1. ASSUME NEW k \in 1 .. n PROVE said'[k] = First + k - 1
          BY <3>1, <4>1
        <5>2. said'[n + 1] = First + (n + 1) - 1
          BY <1>7, <3>1, <4>2
        <5> QED
          BY <3>1, <5>1, <5>2
      <4>4. Len(said') = chainCount - l + 2 - First
        BY SMTT(60), <1>2, <1>7, <3>1, <4>1 DEF ChainTyped
      <4> QED
        BY <1>1, <1>6, <1>7, <3>1, <3>2, <4>3, <4>4 DEF CameBackTo
    <3>3. CASE task = "inf16-0"
      <4>1. n = chainCount - l /\ \A k \in 1 .. n : said[k] = chainCount + 1 - k
        BY <1>2, <1>4, <1>5, <3>3 DEF CameBackTo, ChainTyped, n
      <4>2. Links!Number(l) = chainCount + 1 - (n + 1)
        BY <1>2, <3>3, <4>1 DEF Links!Number, ChainTyped
      <4>3. \A k \in 1 .. n + 1 : said'[k] = chainCount + 1 - k
        <5>1. ASSUME NEW k \in 1 .. n PROVE said'[k] = chainCount + 1 - k
          BY <3>1, <4>1
        <5>2. said'[n + 1] = chainCount + 1 - (n + 1)
          BY <3>1, <4>2
        <5> QED
          BY <3>1, <5>1, <5>2
      <4>4. Len(said') = chainCount + 1 - l
        BY <1>2, <3>1, <4>1 DEF ChainTyped
      <4> QED
        BY <1>1, <1>6, <3>1, <3>3, <4>3, <4>4 DEF CameBackTo
    <3> QED
      BY <1>2, <2>2, <3>2, <3>3 DEF ChainTyped
  <2> QED
    BY <2>1, <2>2
<1> QED
  BY <1>2, <1>6, <1>8, <1>9 DEF ChainInv

LEMMA ChainSteps == ChainInv /\ [ProcessesNext]_processesVars => ChainInv'
<1> SUFFICES ASSUME ChainInv, [ProcessesNext]_processesVars PROVE ChainInv'
  OBVIOUS
<1>1. CASE UNCHANGED linkVars
  <2>1. UNCHANGED First
    BY <1>1 DEF linkVars, First
  <2>2. ChainTyped' /\ LinksAllowed'
    BY <1>1 DEF linkVars, ChainInv, ChainTyped, LinksAllowed
  <2>3. GoesDown => GoesDown'
    BY <1>1 DEF linkVars, GoesDown
  <2>4. \A m \in 1 .. Len(links) : CameBackTo(m) => CameBackTo(m)'
    BY <1>1, <2>1 DEF linkVars, CameBackTo
  <2>5. Len(links') = Len(links)
    BY <1>1 DEF linkVars
  <2> QED
    BY <2>2, <2>3, <2>4, <2>5 DEF ChainInv
<1>2. CASE Links!Next
  BY <1>2, ChainSpawns, ChainTurns, ChainReturns DEF Links!Next
<1> QED
  BY <1>1, <1>2
  DEF ProcessesNext, PipeNext, ChainNext, PairNext, SumNext, WordsNext,
      CalcNext, processesVars

LEMMA ChainIsRight == ChainInv => Links!SaysAll
<1> SUFFICES ASSUME ChainInv, links[1] = "done"
             PROVE  said = CASE task = "inf09-0" -> <<limit>>
                             [] task = "inf09-1" ->
                                  [l \in 1 .. chainCount - First + 1 |->
                                     First + l - 1]
                             [] task = "inf16-0" ->
                                  Links!Reverse([l \in 1 .. chainCount |-> l])
  BY Zenon DEF Links!SaysAll, First
<1>1. ChainTyped /\ Len(links) \in Nat \ {0}
  BY DEF ChainInv, ChainTyped
<1>2. CameBackTo(1)
  <2>1. ~GoesDown
    BY <1>1 DEF GoesDown
  <2>2. PICK m \in 1 .. Len(links) : CameBackTo(m)
    BY <2>1 DEF ChainInv
  <2>3. m = 1
    BY <1>1, <2>2 DEF CameBackTo
  <2> QED
    BY <2>2, <2>3
<1>3. said \in Seq(Int) /\ chainCount \in Nat /\ First \in Int
  BY <1>1 DEF ChainTyped, First
<1>4. ASSUME task = "inf09-1"
      PROVE  said = [l \in 1 .. chainCount - First + 1 |-> First + l - 1]
  <2>1. Len(said) = chainCount - First + 1
        /\ \A k \in 1 .. Len(said) : said[k] = First + k - 1
    BY <1>2, <1>3, <1>4 DEF CameBackTo
  <2> QED
    BY <1>3, <2>1
<1>5. ASSUME task = "inf16-0"
      PROVE  said = Links!Reverse([l \in 1 .. chainCount |-> l])
  <2> DEFINE q == [l \in 1 .. chainCount |-> l]
  <2>1. Len(said) = chainCount
        /\ \A k \in 1 .. Len(said) : said[k] = chainCount + 1 - k
    BY <1>2, <1>3, <1>5 DEF CameBackTo
  <2>2. q \in Seq(Int) /\ Len(q) = chainCount
    BY <1>3
  <2>3. Links!Reverse(q) = [l \in 1 .. chainCount |-> q[(chainCount - l) + 1]]
    <3> HIDE DEF q
    <3> QED
      BY <2>2 DEF Links!Reverse
  <2>4. said = [k \in 1 .. chainCount |-> chainCount + 1 - k]
    BY <1>3, <2>1
  <2>5. \A k \in 1 .. chainCount : q[(chainCount - k) + 1] = chainCount + 1 - k
    BY <1>3
  <2> HIDE DEF q
  <2>6. said = [k \in 1 .. chainCount |-> q[(chainCount - k) + 1]]
    BY <2>4, <2>5
  <2> QED
    BY <2>3, <2>6 DEF q
<1> QED
  BY <1>1, <1>2, <1>4, <1>5 DEF ChainTyped, CameBackTo
-----------------------------------------------------------------------------
(* The pipelines of inf13                                                  *)

(* c[j] is what the first j commands make of the input.                    *)
TextsUpTo(c, k) ==
  /\ DOMAIN c = 0 .. k
  /\ c[0] = PipeInput
  /\ \A j \in 1 .. k : c[j] = Pipe!Written(argv[j], c[j - 1])
  /\ \A j \in 0 .. k : c[j] \in Seq(Int)

Composes(k, text) == \E c : TextsUpTo(c, k) /\ c[k] = text

(* a is a beginning of b.                                                  *)
Pre(a, b) == Len(a) <= Len(b) /\ \A l \in 1 .. Len(a) : a[l] = b[l]

(* text is what is left of the work of the first k commands: all of it     *)
(* unless something was cut off.                                           *)
Begun(k, text) ==
  /\ text \in Seq(Int)
  /\ \E q \in Seq(Int) : Composes(k, q) /\ Pre(text, q)
Made(k, text) == Begun(k, text) /\ (~cut => Composes(k, text))

(* There is one process, at stage s.                                       *)
Alone(s, a) == procs = <<[stage |-> s, at |-> a, redirected |-> FALSE]>>

StartedUpTo(s, a) ==
  \A l \in 1 .. Stages :
    /\ started[l] \in 0 .. 1
    /\ l > s \/ (l = s /\ a # "shuttle") => started[l] = 0

(* Where the text is that the commands before stage s have made.           *)
TextsAt(s, a) ==
  /\ a # "shuttle" /\ s <= Stages =>
       /\ Made(s - 1, IF s = 1 THEN PipeInput ELSE fds_out)
       /\ fds_in = <<>> /\ pipe_output = <<>>
       /\ s = 1 => fds_out = <<>>
  /\ a = "shuttle" /\ s < Stages =>
       /\ Made(s, fds_in) /\ Len(fds_in) <= PipeSize
       /\ fds_out = <<>> /\ pipe_output = <<>>
  /\ s > Stages \/ (a = "shuttle" /\ s = Stages) =>
       Made(Stages, pipe_output)

Linear == version = "inf13-3" \/ Pipe!AllExist

Whole == Pipe!AllExist /\ ~damaged

PipeTyped ==
  /\ argv \in [1 .. Stages -> Pipe!Commands]
  /\ version \in {"inf13-1", "inf13-3"}
  /\ DOMAIN started = 1 .. Stages

AtStage(s, a) ==
  /\ Alone(s, a)
  /\ a # "fork" => s <= Stages
  /\ StartedUpTo(s, a)
  /\ Whole => TextsAt(s, a)

AtEnd ==
  /\ procs = <<>>
  /\ \A l \in 1 .. Stages : started[l] \in 0 .. 1
  /\ Whole => Made(Stages, pipe_output)

PipeInv ==
  /\ PipeTyped
  /\ Linear => \/ AtEnd
               \/ \E s \in 1 .. Stages + 1, a \in {"fork", "exec", "shuttle"} :
                    AtStage(s, a)

LEMMA StartOfAll ==
  ASSUME NEW q \in Seq(Int), Len(q) <= PipeSize
  PROVE  Pipe!Start(q, PipeSize) = q
<1>1. ~(PipeSize < Len(q))
  BY StagesAssumption
<1>2. Pipe!Start(q, PipeSize) = SubSeq(q, 1, Len(q))
  BY <1>1 DEF Pipe!Start
<1> QED
  BY <1>2

LEMMA FillsEmpty ==
  ASSUME NEW q \in Seq(Int), Len(<<>> \o q) <= PipeSize
  PROVE  Pipe!Filled(<<>>, q) = q
<1>1. <<>> \o q = q
  OBVIOUS
<1> QED
  BY <1>1, StartOfAll DEF Pipe!Filled

LEMMA WrittenIsText ==
  ASSUME NEW q \in Seq(Int), NEW cmd \in Pipe!Commands, cmd # "missing"
  PROVE  Pipe!Written(cmd, q) \in Seq(Int)
<1>1. Pipe!Start(q, 1) \in Seq(Int)
  BY DEF Pipe!Start
<1>2. Pipe!Doubled(q) \in Seq(Int)
  <2>1. Len(q) \in Nat
    OBVIOUS
  <2>2. ASSUME NEW l \in 1 .. 2 * Len(q) PROVE q[(l + 1) \div 2] \in Int
    BY <2>1
  <2>3. 2 * Len(q) \in Nat
    BY <2>1
  <2> QED
    BY <2>2, <2>3, SeqDef DEF Pipe!Doubled
<1>3. Pipe!Reverse(q) \in Seq(Int)
  <2>1. Len(q) \in Nat /\ \A l \in 1 .. Len(q) : q[l] \in Int
    OBVIOUS
  <2>2. ASSUME NEW l \in 1 .. Len(q) PROVE q[(Len(q) - l) + 1] \in Int
    <3>1. (Len(q) - l) + 1 \in 1 .. Len(q)
      BY <2>1
    <3> QED
      BY <2>1, <3>1
  <2> QED
    BY <2>1, <2>2, SeqDef DEF Pipe!Reverse
<1> QED
  BY <1>1, <1>2, <1>3 DEF Pipe!Written, Pipe!Commands

LEMMA StartIsBeginning ==
  ASSUME NEW q \in Seq(Int), NEW k \in Nat
  PROVE  /\ Pipe!Start(q, k) \in Seq(Int)
         /\ Len(Pipe!Start(q, k)) = IF k < Len(q) THEN k ELSE Len(q)
         /\ Pre(Pipe!Start(q, k), q)
<1> DEFINE m == IF k < Len(q) THEN k ELSE Len(q)
<1>1. m \in 0 .. Len(q)
  OBVIOUS
<1>2. Pipe!Start(q, k) = SubSeq(q, 1, m)
  BY DEF Pipe!Start
<1> HIDE DEF m
<1>3. /\ SubSeq(q, 1, m) \in Seq(Int) /\ Len(SubSeq(q, 1, m)) = m
      /\ \A l \in 1 .. m : SubSeq(q, 1, m)[l] = q[l]
  BY <1>1
<1>4. Pre(SubSeq(q, 1, m), q)
  BY <1>1, <1>3 DEF Pre
<1> QED
  BY <1>2, <1>3, <1>4 DEF m

LEMMA BeginsItself == ASSUME NEW q \in Seq(Int) PROVE Pre(q, q)
BY DEF Pre

LEMMA BeginningOfBeginning ==
  ASSUME NEW p \in Seq(Int), NEW q \in Seq(Int), NEW r \in Seq(Int),
         Pre(p, q), Pre(q, r)
  PROVE  Pre(p, r)
<1>1. Len(p) \in Nat /\ Len(q) \in Nat /\ Len(r) \in Nat
  OBVIOUS
<1>2. Len(p) <= Len(q) /\ \A l \in 1 .. Len(p) : p[l] = q[l]
  BY DEF Pre
<1>3. Len(q) <= Len(r) /\ \A l \in 1 .. Len(q) : q[l] = r[l]
  BY DEF Pre
<1>4. Len(p) <= Len(r)
  BY <1>1, <1>2, <1>3
<1>5. ASSUME NEW l \in 1 .. Len(p) PROVE p[l] = r[l]
  <2>1. l \in 1 .. Len(q)
    BY <1>1, <1>2
  <2> QED
    BY <1>2, <1>3, <2>1, Zenon
<1> QED
  BY <1>4, <1>5 DEF Pre

LEMMA LineBegins ==
  ASSUME NEW p \in Seq(Int), NEW q \in Seq(Int), Pre(p, q)
  PROVE  Pre(Pipe!Start(p, 1), Pipe!Start(q, 1))
<1> PICK x, y : x = Pipe!Start(p, 1) /\ y = Pipe!Start(q, 1)
  OBVIOUS
<1>1. /\ x \in Seq(Int) /\ Len(x) = IF 1 < Len(p) THEN 1 ELSE Len(p)
      /\ Pre(x, p)
  BY StartIsBeginning
<1>2. /\ y \in Seq(Int) /\ Len(y) = IF 1 < Len(q) THEN 1 ELSE Len(q)
      /\ Pre(y, q)
  BY StartIsBeginning
<1>3. Len(p) \in Nat /\ Len(q) \in Nat /\ Len(p) <= Len(q)
  BY DEF Pre
<1>4. Len(x) <= Len(y)
  BY <1>1, <1>2, <1>3
<1>5. ASSUME NEW l \in 1 .. Len(x) PROVE x[l] = y[l]
  <2>1. Len(x) \in Nat /\ Len(y) \in Nat
    BY <1>1, <1>2
  <2>2. l \in 1 .. Len(y) /\ l \in 1 .. Len(p)
    <3>1. Len(x) <= Len(p)
      BY <1>1 DEF Pre
    <3> QED
      BY <1>3, <1>4, <2>1, <3>1
  <2>3. x[l] = p[l]
    BY <1>1 DEF Pre
  <2>4. y[l] = q[l]
    BY <1>2, <2>2 DEF Pre
  <2>5. p[l] = q[l]
    BY <2>2 DEF Pre
  <2> QED
    BY <2>3, <2>4, <2>5
<1>6. Pre(x, y)
  BY <1>4, <1>5 DEF Pre
<1> QED
  BY <1>6

(* A command makes of a beginning of its input a beginning of its output.  *)
LEMMA OutcomeBegins ==
  ASSUME NEW cmd \in Pipe!Commands, cmd # "missing",
         NEW p \in Seq(Int), NEW q \in Seq(Int), Pre(p, q),
         NEW s \in Nat, s <= 1 => p = q
  PROVE  /\ Pipe!Outcome(cmd, p, s) \in Seq(Int)
         /\ Pre(Pipe!Outcome(cmd, p, s), Pipe!Written(cmd, q))
<1>1. Pipe!Written(cmd, p) \in Seq(Int) /\ Pipe!Written(cmd, q) \in Seq(Int)
  BY WrittenIsText
<1>2. CASE s > 1 /\ cmd = "tac"
  <2>1. Pipe!Outcome(cmd, p, s) = <<>>
    BY <1>2 DEF Pipe!Outcome
  <2>2. Pre(<<>>, Pipe!Written(cmd, q))
    <3> PICK w \in Seq(Int) : w = Pipe!Written(cmd, q)
      BY <1>1
    <3>1. Pre(<<>>, w)
      BY DEF Pre
    <3> QED
      BY <3>1
  <2> QED
    BY <2>1, <2>2
<1>3. CASE ~(s > 1 /\ cmd = "tac")
  <2>1. Pipe!Outcome(cmd, p, s) = Pipe!Written(cmd, p)
    BY <1>3 DEF Pipe!Outcome
  <2>2. Pre(Pipe!Written(cmd, p), Pipe!Written(cmd, q))
    <3>1. CASE p = q
      BY <1>1, <3>1, BeginsItself
    <3>2. CASE p # q /\ cmd = "cat"
      BY <3>2 DEF Pipe!Written
    <3>3. CASE p # q /\ cmd = "twice"
      <4>1. Pipe!Written(cmd, p) = Pipe!Doubled(p)
            /\ Pipe!Written(cmd, q) = Pipe!Doubled(q)
        BY <3>3 DEF Pipe!Written
      <4>2. /\ Len(p) \in Nat /\ Len(q) \in Nat /\ Len(p) <= Len(q)
            /\ \A l \in 1 .. Len(p) : p[l] = q[l]
        BY DEF Pre
      <4>3. Len(Pipe!Doubled(p)) = 2 * Len(p)
            /\ Len(Pipe!Doubled(q)) = 2 * Len(q)
        BY <4>2 DEF Pipe!Doubled
      <4>4. ASSUME NEW l \in 1 .. 2 * Len(p)
            PROVE  Pipe!Doubled(p)[l] = Pipe!Doubled(q)[l]
        <5>1. ((l + 1) \div 2) \in 1 .. Len(p) /\ l \in 1 .. 2 * Len(q)
          BY <4>2
        <5> QED
          BY <4>2, <5>1 DEF Pipe!Doubled
      <4> QED
        BY <4>1, <4>2, <4>3, <4>4 DEF Pre
    <3>4. CASE p # q /\ cmd = "line"
      <4>1. Pipe!Written(cmd, p) = Pipe!Start(p, 1)
            /\ Pipe!Written(cmd, q) = Pipe!Start(q, 1)
        BY <3>4 DEF Pipe!Written
      <4> QED
        BY <4>1, LineBegins
    <3>5. cmd = "tac" => p = q
      BY <1>3
    <3> QED
      BY <3>1, <3>2, <3>3, <3>4, <3>5 DEF Pipe!Commands
  <2> QED
    BY <1>1, <2>1, <2>2
<1> QED
  BY <1>2, <1>3

LEMMA ComposesNothing == Composes(0, PipeInput)
<1> DEFINE c == [j \in 0 .. 0 |-> PipeInput]
<1>1. TextsUpTo(c, 0) /\ c[0] = PipeInput
  BY StagesAssumption DEF TextsUpTo
<1> QED
  BY <1>1 DEF Composes

LEMMA ComposesNext ==
  ASSUME PipeTyped, Pipe!AllExist, NEW k \in 0 .. Stages - 1, NEW text,
         Composes(k, text)
  PROVE  /\ Pipe!Written(argv[k + 1], text) \in Seq(Int)
         /\ Composes(k + 1, Pipe!Written(argv[k + 1], text))
<1> USE StagesAssumption
<1> DEFINE more == Pipe!Written(argv[k + 1], text)
<1>1. PICK c : TextsUpTo(c, k) /\ c[k] = text
  BY DEF Composes
<1>2. k + 1 \in 1 .. Stages /\ text \in Seq(Int) /\ k \in Nat
  BY <1>1 DEF TextsUpTo
<1>3. argv[k + 1] \in Pipe!Commands /\ argv[k + 1] # "missing"
  BY <1>2 DEF PipeTyped, Pipe!AllExist, Pipe!ToSet
<1>4. more \in Seq(Int)
  BY <1>2, <1>3, WrittenIsText
<1> HIDE DEF more
<1> DEFINE e == [j \in 0 .. k + 1 |-> IF j = k + 1 THEN more ELSE c[j]]
<1>5. DOMAIN e = 0 .. k + 1 /\ e[0] = PipeInput /\ e[k + 1] = more
  BY <1>1, <1>2 DEF TextsUpTo
<1>6. ASSUME NEW j \in 0 .. k + 1 PROVE e[j] \in Seq(Int)
  BY <1>1, <1>2, <1>4 DEF TextsUpTo
<1>7. ASSUME NEW j \in 1 .. k + 1
      PROVE  e[j] = Pipe!Written(argv[j], e[j - 1])
  <2>1. e[j - 1] = c[j - 1]
    BY <1>2
  <2>2. CASE j = k + 1
    BY <1>1, <1>2, <2>1, <2>2 DEF more
  <2>3. CASE j # k + 1
    <3>1. j \in 1 .. k /\ e[j] = c[j]
      BY <1>2, <2>3
    <3> QED
      BY <1>1, <2>1, <3>1 DEF TextsUpTo
  <2> QED
    BY <2>2, <2>3
<1> HIDE DEF e
<1>8. TextsUpTo(e, k + 1)
  BY <1>5, <1>6, <1>7 DEF TextsUpTo
<1> QED
  BY <1>4, <1>5, <1>8, Zenon DEF Composes, more

LEMMA MadeNothing == Made(0, PipeInput)
<1>1. PipeInput \in Seq(Int)
  BY StagesAssumption
<1> QED
  BY <1>1, ComposesNothing, BeginsItself, Zenon DEF Made, Begun

LEMMA BegunNext ==
  ASSUME PipeTyped, Pipe!AllExist, NEW k \in 0 .. Stages - 1, NEW text,
         Begun(k, text), k = 0 => text = PipeInput
  PROVE  Begun(k + 1, Pipe!Outcome(argv[k + 1], text, k + 1))
<1> USE StagesAssumption
<1> DEFINE cmd == argv[k + 1]
<1>1. PICK q \in Seq(Int) : Composes(k, q) /\ Pre(text, q)
  BY DEF Begun
<1>2. text \in Seq(Int)
  BY DEF Begun
<1>3. k + 1 \in 1 .. Stages /\ k + 1 \in Nat
  OBVIOUS
<1>4. cmd \in Pipe!Commands /\ cmd # "missing"
  BY <1>3 DEF PipeTyped, Pipe!AllExist, Pipe!ToSet
<1>5. k = 0 => q = PipeInput
  BY <1>1 DEF Composes, TextsUpTo
<1>6. /\ Pipe!Written(cmd, q) \in Seq(Int)
      /\ Composes(k + 1, Pipe!Written(cmd, q))
  BY <1>1, ComposesNext
<1>7. k + 1 <= 1 => text = q
  BY <1>5
<1> HIDE DEF cmd
<1>8. /\ Pipe!Outcome(cmd, text, k + 1) \in Seq(Int)
      /\ Pre(Pipe!Outcome(cmd, text, k + 1), Pipe!Written(cmd, q))
  BY <1>1, <1>2, <1>3, <1>4, <1>7, OutcomeBegins
<1>9. Begun(k + 1, Pipe!Outcome(cmd, text, k + 1))
  BY <1>6, <1>8, Zenon DEF Begun
<1> QED
  BY <1>9 DEF cmd

(* A full pipe cuts, and leaves a beginning.                               *)
LEMMA BegunFills ==
  ASSUME NEW k, NEW text, Begun(k, text)
  PROVE  /\ Begun(k, Pipe!Filled(<<>>, text))
         /\ Len(Pipe!Filled(<<>>, text)) <= PipeSize
         /\ Len(text) <= PipeSize => Pipe!Filled(<<>>, text) = text
<1>1. text \in Seq(Int)
  BY DEF Begun
<1>2. PICK q \in Seq(Int) : Composes(k, q) /\ Pre(text, q)
  BY DEF Begun
<1>3. <<>> \o text = text
  BY <1>1
<1>4. Pipe!Filled(<<>>, text) = Pipe!Start(text, PipeSize)
  BY <1>3 DEF Pipe!Filled
<1>5. /\ Pipe!Start(text, PipeSize) \in Seq(Int)
      /\ Len(Pipe!Start(text, PipeSize)) =
           IF PipeSize < Len(text) THEN PipeSize ELSE Len(text)
      /\ Pre(Pipe!Start(text, PipeSize), text)
  BY <1>1, StagesAssumption, StartIsBeginning
<1>6. Pre(Pipe!Start(text, PipeSize), q)
  BY <1>1, <1>2, <1>5, BeginningOfBeginning
<1>7. Begun(k, Pipe!Start(text, PipeSize))
  BY <1>2, <1>5, <1>6, Zenon DEF Begun
<1>8. Len(Pipe!Start(text, PipeSize)) <= PipeSize
  BY <1>1, <1>5, StagesAssumption
<1>9. Len(text) <= PipeSize => Pipe!Start(text, PipeSize) = text
  BY <1>1, StartOfAll
<1> QED
  BY <1>4, <1>7, <1>8, <1>9

LEMMA CompositionIs ==
  ASSUME NEW text, Composes(Stages, text)
  PROVE  text = Pipe!Composition[Stages]
<1> USE StagesAssumption
<1> PICK c : TextsUpTo(c, Stages) /\ c[Stages] = text
  BY DEF Composes
<1> DEFINE D == 0 .. Stages
<1> DEFINE Body(f) ==
      [k \in D |-> IF k = 0 THEN PipeInput
                   ELSE Pipe!Written(argv[k], f[k - 1])]
<1> DEFINE e == [k \in D |-> c[k]]
<1>1. e = Body(e)
  <2>1. ASSUME NEW k \in D
        PROVE  e[k] = IF k = 0 THEN PipeInput
                      ELSE Pipe!Written(argv[k], e[k - 1])
    <3>1. CASE k = 0
      BY <3>1 DEF TextsUpTo
    <3>2. CASE k # 0
      <4>1. k \in 1 .. Stages /\ k - 1 \in D
        BY <3>2
      <4>2. e[k] = c[k] /\ e[k - 1] = c[k - 1]
        BY <4>1
      <4>3. c[k] = Pipe!Written(argv[k], c[k - 1])
        BY <4>1 DEF TextsUpTo
      <4> QED
        BY <3>2, <4>2, <4>3
    <3> QED
      BY <3>1, <3>2
  <2> QED
    BY <2>1, Zenon
<1>2. Pipe!Composition = CHOOSE f : f = Body(f)
  BY Zenon DEF Pipe!Composition
<1>3. Pipe!Composition = Body(Pipe!Composition)
  <2> HIDE DEF Body, e
  <2> QED
    BY <1>1, <1>2, Zenon
<1> PICK h : h = Pipe!Composition
  OBVIOUS
<1>4. \A k \in D : h[k] = IF k = 0 THEN PipeInput
                          ELSE Pipe!Written(argv[k], h[k - 1])
  BY <1>3
<1>5. \A k \in D : e[k] = IF k = 0 THEN PipeInput
                          ELSE Pipe!Written(argv[k], e[k - 1])
  <2> HIDE DEF e
  <2> QED
    BY <1>1
<1>6. e[Stages] = text
  OBVIOUS
<1> HIDE DEF e
<1>7. SUFFICES ASSUME h[Stages] # e[Stages] PROVE FALSE
  BY <1>6
<1> DEFINE Wrong == {k \in D : h[k] # e[k]}
<1>8. PICK k \in Wrong : \A j \in Wrong : k <= j
  <2>1. Wrong \subseteq Nat /\ Stages \in Wrong
    BY <1>7
  <2> HIDE DEF Wrong
  <2> QED
    BY <2>1, LeastOf
<1>9. k # 0 /\ k - 1 \in D /\ k - 1 \notin Wrong
  BY <1>4, <1>5, <1>8
<1>10. h[k - 1] = e[k - 1]
  BY <1>9
<1> QED
  BY <1>4, <1>5, <1>8, <1>9, <1>10

LEMMA PipeStart == ProcessesInit => PipeInv
<1> SUFFICES ASSUME Pipe!Init PROVE PipeInv
  BY DEF ProcessesInit
<1> USE StagesAssumption
<1>1. PipeTyped
  BY DEF Pipe!Init, PipeTyped
<1>2. Alone(1, "fork") /\ StartedUpTo(1, "fork")
  BY DEF Pipe!Init, Alone, StartedUpTo
<1>3. TextsAt(1, "fork")
  <2>1. fds_in = <<>> /\ fds_out = <<>> /\ pipe_output = <<>>
    BY DEF Pipe!Init
  <2>2. Made(1 - 1, PipeInput)
    BY MadeNothing
  <2> QED
    BY <2>1, <2>2 DEF TextsAt
<1>4. AtStage(1, "fork")
  BY <1>2, <1>3 DEF AtStage
<1> QED
  BY <1>1, <1>4 DEF PipeInv
LEMMA PlaceChanges ==
  ASSUME NEW s, NEW a, NEW b, NEW f, NEW p,
         p = [stage |-> s, at |-> a, redirected |-> f]
  PROVE  [p EXCEPT !.at = b] = [stage |-> s, at |-> b, redirected |-> f]
OBVIOUS

(* Of one process, Moved changes the place only.                           *)
LEMMA MovedAlone ==
  ASSUME NEW s, NEW a, NEW b, Alone(s, a), procs' = Pipe!Moved(b)
  PROVE  /\ procs # <<>> /\ Pipe!Proc.stage = s /\ Pipe!Proc.at = a
         /\ Pipe!Piped <=> s < Stages
         /\ Alone(s, b)'
<1> PICK no : no = FALSE
  OBVIOUS
<1> DEFINE p == [stage |-> s, at |-> a, redirected |-> no]
<1>1. procs = <<p>>
  BY Zenon DEF Alone
<1> HIDE DEF p
<1>2. Pipe!Proc = p /\ Pipe!Front(procs) = <<>> /\ procs # <<>>
  BY <1>1 DEF Pipe!Proc, Pipe!Last, Pipe!Front
<1>3. Pipe!Moved(b) = <<[p EXCEPT !.at = b]>>
  <2> DEFINE r == [p EXCEPT !.at = b]
  <2>1. Pipe!Moved(b) = <<>> \o <<r>>
    BY <1>2, Zenon DEF Pipe!Moved
  <2> HIDE DEF r
  <2>2. <<>> \o <<r>> = <<r>>
    OBVIOUS
  <2> QED
    BY <2>1, <2>2 DEF r
<1>4. [p EXCEPT !.at = b] = [stage |-> s, at |-> b, redirected |-> no]
  BY PlaceChanges DEF p
<1>5. Alone(s, b)'
  BY <1>3, <1>4, Zenon DEF Alone
<1> QED
  BY <1>2, <1>5 DEF p, Pipe!Piped

LEMMA OneProc ==
  ASSUME NEW s, NEW a, Alone(s, a)
  PROVE  /\ procs # <<>> /\ Pipe!Proc.stage = s /\ Pipe!Proc.at = a
         /\ Pipe!Proc = [stage |-> s, at |-> a, redirected |-> FALSE]
         /\ Pipe!Front(procs) = <<>> /\ Len(procs) = 1
<1> PICK no : no = FALSE
  OBVIOUS
<1> DEFINE p == [stage |-> s, at |-> a, redirected |-> no]
<1>1. procs = <<p>>
  BY Zenon DEF Alone
<1> HIDE DEF p
<1>2. /\ Pipe!Proc = p /\ Pipe!Front(procs) = <<>> /\ procs # <<>>
      /\ Len(procs) = 1
  BY <1>1 DEF Pipe!Proc, Pipe!Last, Pipe!Front
<1> QED
  BY <1>2 DEF p

(* The next turn of the loop.                                              *)
LEMMA TurnsAlone ==
  ASSUME NEW s, NEW a, Alone(s, a),
         procs' = Pipe!Front(procs)
                    \o <<[Pipe!Proc EXCEPT !.stage = @ + 1, !.at = "fork"]>>
  PROVE  Alone(s + 1, "fork")'
<1> PICK no : no = FALSE
  OBVIOUS
<1> DEFINE p == Pipe!Proc
<1> DEFINE q == [p EXCEPT !.stage = @ + 1]
<1> DEFINE r == [p EXCEPT !.stage = @ + 1, !.at = "fork"]
<1>1. p = [stage |-> s, at |-> a, redirected |-> no]
      /\ Pipe!Front(procs) = <<>>
  BY OneProc, Zenon
<1> HIDE DEF p
<1>2. r = [stage |-> s + 1, at |-> "fork", redirected |-> no]
  <2>1. q = [stage |-> s + 1, at |-> a, redirected |-> no]
    BY <1>1
  <2>2. r = [q EXCEPT !.at = "fork"]
    BY <1>1
  <2> HIDE DEF q, r
  <2> QED
    BY <2>1, <2>2, PlaceChanges
<1> HIDE DEF r
<1>3. procs' = <<>> \o <<r>>
  BY <1>1, Zenon DEF p, r
<1>4. <<>> \o <<r>> = <<r>>
  OBVIOUS
<1> QED
  BY <1>2, <1>3, <1>4, Zenon DEF Alone

LEMMA PrimedComposes ==
  ASSUME NEW k, NEW text, Composes(k, text), argv' = argv
  PROVE  Composes(k, text)'
<1>1. PICK c : TextsUpTo(c, k) /\ c[k] = text
  BY DEF Composes
<1>2. TextsUpTo(c, k)'
  BY <1>1, Zenon DEF TextsUpTo, Pipe!Written
<1> QED
  BY <1>1, <1>2 DEF Composes

LEMMA PrimedBegun ==
  ASSUME NEW k, NEW text, Begun(k, text), argv' = argv
  PROVE  Begun(k, text)'
<1>1. PICK q \in Seq(Int) : Composes(k, q) /\ Pre(text, q)
  BY DEF Begun
<1>2. Composes(k, q)' /\ Pre(text, q)'
  BY <1>1, PrimedComposes DEF Pre
<1> QED
  BY <1>1, <1>2, Zenon DEF Begun

LEMMA PrimedMade ==
  ASSUME NEW k, NEW text, Made(k, text), argv' = argv, ~cut' => ~cut
  PROVE  Made(k, text)'
BY PrimedBegun, PrimedComposes, Zenon DEF Made
(* What one process does at its stage                                      *)
LEMMA PipeForks ==
  ASSUME PipeTyped, NEW s \in 1 .. Stages + 1, NEW a, AtStage(s, a), Pipe!Fork
  PROVE  a = "fork" /\ AtStage(s, "exec")'
<1> USE StagesAssumption
<1>1. Alone(s, a) /\ procs' = Pipe!Moved("exec")
  BY DEF AtStage, Pipe!Fork
<1>2. Alone(s, "exec")' /\ Pipe!Proc.stage = s /\ Pipe!Proc.at = a
  BY <1>1, MovedAlone
<1>3. a = "fork" /\ s <= Stages
  BY <1>2 DEF Pipe!Fork
<1>4. UNCHANGED <<argv, fds_in, fds_out, pipe_output, started, damaged, cut>>
  BY DEF Pipe!Fork, Pipe!pipes
<1>5. StartedUpTo(s, "exec")'
  BY <1>3, <1>4 DEF AtStage, StartedUpTo
<1>6. ASSUME Whole' PROVE TextsAt(s, "exec")'
  <2>1. TextsAt(s, a)
    BY <1>4, <1>6 DEF AtStage, Whole, Pipe!AllExist
  <2>2. Made(s - 1, IF s = 1 THEN PipeInput ELSE fds_out)
        /\ fds_in = <<>> /\ pipe_output = <<>> /\ (s = 1 => fds_out = <<>>)
    BY <1>3, <2>1 DEF TextsAt
  <2> PICK t : t = IF s = 1 THEN PipeInput ELSE fds_out
    OBVIOUS
  <2>3. Made(s - 1, t)'
    <3>1. ~cut' => ~cut
      BY <1>4, Zenon
    <3> QED
      BY <1>4, <2>2, <3>1, PrimedMade
  <2>4. Made(s - 1, IF s = 1 THEN PipeInput ELSE fds_out)'
    BY <1>4, <2>3, Zenon
  <2> QED
    BY <1>3, <1>4, <2>2, <2>4 DEF TextsAt
<1> QED
  BY <1>2, <1>3, <1>5, <1>6 DEF AtStage

LEMMA PipeCannotFork ==
  ASSUME PipeTyped, NEW s \in 1 .. Stages + 1, NEW a, AtStage(s, a),
         Pipe!ForkFails
  PROVE  AtStage(s, "shuttle")'
<1> USE StagesAssumption
<1>1. Alone(s, a) /\ procs' = Pipe!Moved("shuttle")
  BY DEF AtStage, Pipe!ForkFails
<1>2. Alone(s, "shuttle")' /\ Pipe!Proc.stage = s /\ Pipe!Proc.at = a
  BY <1>1, MovedAlone
<1>3. a = "fork" /\ s <= Stages /\ damaged' = TRUE /\ started' = started
  BY <1>2 DEF Pipe!ForkFails
<1>4. StartedUpTo(s, "shuttle")'
  BY <1>3 DEF AtStage, StartedUpTo
<1>5. ~Whole'
  BY <1>3 DEF Whole
<1> QED
  BY <1>2, <1>3, <1>4, <1>5 DEF AtStage

LEMMA PipeRuns ==
  ASSUME PipeTyped, NEW s \in 1 .. Stages + 1, NEW a, AtStage(s, a), Pipe!Run
  PROVE  AtStage(s, "shuttle")'
<1> USE StagesAssumption
<1> DEFINE stdin == IF s = 1 THEN PipeInput ELSE fds_out
<1> DEFINE text == Pipe!Outcome(argv[s], stdin, s)
<1>1. Alone(s, a) /\ procs' = Pipe!Moved("shuttle")
  BY DEF AtStage, Pipe!Run
<1>2. /\ Alone(s, "shuttle")' /\ Pipe!Proc.stage = s /\ Pipe!Proc.at = a
      /\ Pipe!Piped <=> s < Stages
  BY <1>1, MovedAlone
<1>3. /\ a = "exec" /\ s <= Stages /\ argv[s] # "missing"
      /\ started' = [started EXCEPT ![s] = @ + 1]
      /\ UNCHANGED argv
  BY <1>2 DEF Pipe!Run, AtStage
<1>4. /\ fds_in' = IF s < Stages THEN Pipe!Filled(fds_in, text) ELSE fds_in
      /\ pipe_output' = IF s < Stages THEN pipe_output
                        ELSE pipe_output \o text
      /\ s = 1 => fds_out' = fds_out
      /\ ~damaged' => /\ ~damaged
                      /\ s \in 2 .. Stages - 1 => fds_out' = <<>>
      /\ ~cut' => /\ ~cut
                  /\ s < Stages => ~(Len(fds_in \o text) > PipeSize)
                  /\ ~(s > 1 /\ argv[s] = "tac")
  <2>1. /\ fds_in' = IF s < Stages THEN Pipe!Filled(fds_in, text) ELSE fds_in
        /\ pipe_output' = IF s < Stages THEN pipe_output
                          ELSE pipe_output \o text
    BY <1>2, Zenon DEF Pipe!Run
  <2>2. s = 1 => fds_out' = fds_out
    BY <1>2, Zenon DEF Pipe!Run
  <2>3. damaged' = \/ damaged
                   \/ s \in 2 .. Stages - 1 /\ fds_out' # <<>>
    BY <1>2, Zenon DEF Pipe!Run
  <2>4. cut' = \/ cut
               \/ s < Stages /\ Len(fds_in \o text) > PipeSize
               \/ s > 1 /\ argv[s] = "tac"
    BY <1>2, Zenon DEF Pipe!Run
  <2> HIDE DEF text
  <2> QED
    BY <2>1, <2>2, <2>3, <2>4, Zenon
<1>5. StartedUpTo(s, "shuttle")'
  BY <1>3 DEF AtStage, StartedUpTo, PipeTyped
<1>6. ASSUME Whole' PROVE TextsAt(s, "shuttle")'
  <2>1. Pipe!AllExist /\ ~damaged /\ ~damaged'
    BY <1>3, <1>4, <1>6 DEF Whole, Pipe!AllExist
  <2>2. /\ Made(s - 1, stdin)
        /\ fds_in = <<>> /\ pipe_output = <<>> /\ (s = 1 => fds_out = <<>>)
    BY <1>3, <2>1 DEF AtStage, TextsAt, Whole
  <2>3. Begun(s, text)
    <3>1. s - 1 \in 0 .. Stages - 1 /\ (s - 1) + 1 = s
      BY <1>3
    <3>2. s - 1 = 0 => stdin = PipeInput
      OBVIOUS
    <3> HIDE DEF stdin
    <3>3. Begun(s - 1, stdin)
      BY <2>2, Zenon DEF Made
    <3>4. Begun((s - 1) + 1,
                Pipe!Outcome(argv[(s - 1) + 1], stdin, (s - 1) + 1))
      BY <2>1, <3>1, <3>2, <3>3, BegunNext
    <3> QED
      BY <3>1, <3>4
  <2>4. ASSUME ~cut' PROVE Composes(s, text)
    <3>1. s - 1 \in 0 .. Stages - 1 /\ (s - 1) + 1 = s
      BY <1>3
    <3>2. Composes(s - 1, stdin)
      BY <1>4, <2>2, <2>4, Zenon DEF Made
    <3>3. Composes(s, Pipe!Written(argv[s], stdin))
      <4> HIDE DEF stdin
      <4> QED
        BY <2>1, <3>1, <3>2, ComposesNext
    <3>4. text = Pipe!Written(argv[s], stdin)
      BY <1>4, <2>4 DEF Pipe!Outcome
    <3> QED
      BY <3>3, <3>4
  <2> HIDE DEF text
  <2> PICK t : t = text
    OBVIOUS
  <2>5. /\ Begun(s, t)'
        /\ t \in Seq(Int)
    BY <1>3, <2>3, PrimedBegun DEF Begun
  <2>6. ~cut' => Composes(s, t)'
    BY <1>3, <2>4, PrimedComposes
  <2>7. CASE s < Stages
    <3> PICK f : f = Pipe!Filled(<<>>, t)
      OBVIOUS
    <3>1. /\ Begun(s, f) /\ Len(f) <= PipeSize
          /\ Len(t) <= PipeSize => f = t
      BY <2>3, BegunFills
    <3>2. fds_in' = f /\ pipe_output' = <<>>
      BY <1>4, <2>2, <2>7
    <3>3. fds_out' = <<>>
      BY <1>4, <2>1, <2>2, <2>7
    <3>4. ~cut' => f = t
      <4>1. <<>> \o t = t
        BY <2>5
      <4>2. ~cut' => ~(Len(t) > PipeSize)
        BY <1>4, <2>2, <2>7, <4>1, Zenon
      <4>3. Len(t) \in Nat
        BY <2>5
      <4> QED
        BY <3>1, <4>2, <4>3
    <3>5. Begun(s, f)'
      BY <1>3, <3>1, PrimedBegun
    <3>6. ~cut' => Composes(s, f)'
      BY <2>6, <3>4
    <3>7. Made(s, fds_in)'
      BY <3>2, <3>5, <3>6, Zenon DEF Made
    <3>8. (Len(fds_in) <= PipeSize)'
      BY <3>1, <3>2
    <3> QED
      BY <2>7, <3>2, <3>3, <3>7, <3>8 DEF TextsAt
  <2>8. CASE s = Stages
    <3>1. pipe_output' = <<>> \o t
      BY <1>4, <2>2, <2>8
    <3>2. pipe_output' = t
      BY <2>5, <3>1
    <3>3. Made(Stages, pipe_output)'
      BY <2>5, <2>6, <2>8, <3>2, Zenon DEF Made
    <3> QED
      BY <2>8, <3>3 DEF TextsAt
  <2> QED
    BY <1>3, <2>7, <2>8
<1> QED
  BY <1>2, <1>3, <1>5, <1>6 DEF AtStage

LEMMA PipeCannotExec ==
  ASSUME PipeTyped, Linear, NEW s \in 1 .. Stages + 1, NEW a, AtStage(s, a),
         Pipe!ExecFails
  PROVE  AtStage(s, "shuttle")'
<1> USE StagesAssumption
<1>1. Alone(s, a) /\ Pipe!Proc.stage = s /\ Pipe!Proc.at = a
  BY OneProc DEF AtStage
<1>2. a = "exec" /\ s <= Stages /\ argv[s] = "missing"
      /\ UNCHANGED <<argv, version, started>>
  BY <1>1 DEF Pipe!ExecFails, AtStage
<1>3. ~Pipe!AllExist
  BY <1>2 DEF Pipe!AllExist, Pipe!ToSet, PipeTyped
<1>4. procs' = Pipe!Moved("shuttle")
  BY <1>3 DEF Pipe!ExecFails, Linear
<1>5. Alone(s, "shuttle")'
  BY <1>1, <1>4, MovedAlone
<1>6. StartedUpTo(s, "shuttle")'
  BY <1>2 DEF AtStage, StartedUpTo
<1>7. ~Whole'
  BY <1>2, <1>3 DEF Whole, Pipe!AllExist
<1> QED
  BY <1>2, <1>5, <1>6, <1>7 DEF AtStage

LEMMA PipeCarries ==
  ASSUME PipeTyped, NEW s \in 1 .. Stages + 1, NEW a, AtStage(s, a),
         Pipe!Shuttle
  PROVE  s <= Stages /\ AtStage(s + 1, "fork")'
<1> USE StagesAssumption
<1>1. Alone(s, a) /\ Pipe!Proc.stage = s /\ Pipe!Proc.at = a
  BY OneProc DEF AtStage
<1>2. /\ a = "shuttle" /\ s <= Stages
      /\ UNCHANGED <<argv, version, started, pipe_output>>
      /\ procs' = Pipe!Front(procs)
                    \o <<[Pipe!Proc EXCEPT !.stage = @ + 1, !.at = "fork"]>>
  BY <1>1 DEF Pipe!Shuttle, AtStage
<1>3. Alone(s + 1, "fork")'
  BY <1>1, <1>2, TurnsAlone
<1>4. StartedUpTo(s + 1, "fork")'
  BY <1>2 DEF AtStage, StartedUpTo
<1>5. /\ s < Stages => /\ fds_out' = Pipe!Filled(fds_out, fds_in)
                       /\ fds_in' = <<>>
                       /\ cut' = (cut \/ Len(fds_out \o fds_in) > PipeSize)
      /\ ~(s < Stages) => UNCHANGED <<fds_in, fds_out, cut>>
      /\ UNCHANGED damaged
  BY <1>1, Zenon DEF Pipe!Shuttle
<1>6. (~damaged' => ~damaged) /\ (~cut' => ~cut)
  <2>1. CASE s < Stages
    BY <1>5, <2>1, Zenon
  <2>2. CASE ~(s < Stages)
    BY <1>5, <2>2
  <2> QED
    BY <2>1, <2>2
<1>7. ASSUME Whole' PROVE TextsAt(s + 1, "fork")'
  <2>1. TextsAt(s, "shuttle")
    BY <1>2, <1>6, <1>7 DEF AtStage, Whole, Pipe!AllExist
  <2>2. CASE s < Stages
    <3>1. /\ Made(s, fds_in) /\ Len(fds_in) <= PipeSize
          /\ fds_out = <<>> /\ pipe_output = <<>>
      BY <2>1, <2>2 DEF TextsAt
    <3> PICK t : t = fds_in
      OBVIOUS
    <3>2. Made(s, t)'
      BY <1>2, <1>6, <3>1, PrimedMade
    <3>3. Pipe!Filled(<<>>, t) = t
      BY <3>1, BegunFills DEF Made
    <3>4. fds_out' = t /\ fds_in' = <<>> /\ pipe_output' = <<>>
      BY <1>2, <1>5, <2>2, <3>1, <3>3
    <3>5. (s + 1) - 1 = s /\ s + 1 # 1 /\ s + 1 <= Stages
      BY <2>2
    <3>6. Made((s + 1) - 1, IF s + 1 = 1 THEN PipeInput ELSE fds_out)'
      BY <3>2, <3>4, <3>5, Zenon
    <3> QED
      BY <3>4, <3>5, <3>6 DEF TextsAt
  <2>3. CASE s = Stages
    <3>1. Made(Stages, pipe_output)
      BY <2>1, <2>3 DEF TextsAt
    <3> PICK t : t = pipe_output
      OBVIOUS
    <3>2. Made(Stages, t)'
      BY <1>2, <1>6, <3>1, PrimedMade
    <3>3. Made(Stages, pipe_output)'
      BY <1>2, <3>2, Zenon
    <3> QED
      BY <2>3, <3>3 DEF TextsAt
  <2> QED
    BY <1>2, <2>2, <2>3
<1> QED
  BY <1>2, <1>3, <1>4, <1>7 DEF AtStage

LEMMA PipeComesToEnd ==
  ASSUME PipeTyped, NEW s \in 1 .. Stages + 1, NEW a, AtStage(s, a), Pipe!End
  PROVE  AtEnd'
<1> USE StagesAssumption
<1>1. Alone(s, a) /\ Pipe!Proc.stage = s /\ Len(procs) = 1
  BY OneProc DEF AtStage
<1>2. /\ s > Stages /\ procs' = <<>>
      /\ UNCHANGED <<argv, pipe_output, started, damaged, cut>>
  BY <1>1 DEF Pipe!End, Pipe!pipes
<1>3. ASSUME Whole' PROVE Made(Stages, pipe_output)'
  <2>1. Made(Stages, pipe_output)
    BY <1>2, <1>3 DEF AtStage, TextsAt, Whole, Pipe!AllExist
  <2> PICK t : t = pipe_output
    OBVIOUS
  <2>2. Made(Stages, t)'
    <3>1. ~cut' => ~cut
      BY <1>2, Zenon
    <3> QED
      BY <1>2, <2>1, <3>1, PrimedMade
  <2> QED
    BY <1>2, <2>2, Zenon
<1>4. \A l \in 1 .. Stages : started'[l] \in 0 .. 1
  BY <1>2 DEF AtStage, StartedUpTo
<1> QED
  BY <1>2, <1>3, <1>4 DEF AtEnd

LEMMA PipeRests == ASSUME PipeInv, UNCHANGED pipeVars PROVE PipeInv'
<1>1. UNCHANGED <<version, argv, procs, fds_in, fds_out, pipe_output, started,
                  damaged, cut>>
  BY DEF pipeVars
<1>2. PipeTyped' /\ (Linear' => Linear) /\ (Whole' => Whole)
  <2>1. PipeTyped'
    BY <1>1 DEF PipeInv, PipeTyped
  <2>2. Linear' => Linear
    BY <1>1 DEF Linear, Pipe!AllExist
  <2>3. Whole' => Whole
    BY <1>1, Zenon DEF Whole, Pipe!AllExist
  <2> QED
    BY <2>1, <2>2, <2>3
<1>3. \A k, t : Made(k, t) => Made(k, t)'
  <2>1. ~cut' => ~cut
    BY <1>1, Zenon
  <2> QED
    BY <1>1, <2>1, PrimedMade
<1>4. AtEnd => AtEnd'
  <2> SUFFICES ASSUME AtEnd PROVE AtEnd'
    OBVIOUS
  <2>1. ASSUME Whole' PROVE Made(Stages, pipe_output)'
    <3> PICK t : t = pipe_output
      OBVIOUS
    <3>1. Made(Stages, t)'
      BY <1>2, <1>3, <2>1 DEF AtEnd
    <3> QED
      BY <1>1, <3>1, Zenon
  <2> QED
    BY <1>1, <2>1 DEF AtEnd
<1>5. ASSUME NEW s \in 1 .. Stages + 1, NEW a \in {"fork", "exec", "shuttle"},
             AtStage(s, a)
      PROVE  AtStage(s, a)'
  <2>1. Alone(s, a)' /\ StartedUpTo(s, a)'
    BY <1>1, <1>5 DEF AtStage, Alone, StartedUpTo
  <2>2. ASSUME Whole' PROVE TextsAt(s, a)'
    <3>1. TextsAt(s, a)
      BY <1>2, <1>5, <2>2 DEF AtStage
    <3> PICK l, o, p : l = fds_in /\ o = fds_out /\ p = pipe_output
      OBVIOUS
    <3> DEFINE q == IF s = 1 THEN PipeInput ELSE o
    <3>2. /\ a # "shuttle" /\ s <= Stages =>
               /\ Made(s - 1, q)
               /\ l = <<>> /\ p = <<>> /\ (s = 1 => o = <<>>)
          /\ a = "shuttle" /\ s < Stages =>
               Made(s, l) /\ Len(l) <= PipeSize /\ o = <<>> /\ p = <<>>
          /\ s > Stages \/ (a = "shuttle" /\ s = Stages) =>
               Made(Stages, p)
      BY <3>1, Zenon DEF TextsAt
    <3>3. /\ Made(s - 1, q) => Made(s - 1, q)'
          /\ Made(s, l) => Made(s, l)'
          /\ Made(Stages, p) => Made(Stages, p)'
      BY <1>3
    <3>4. fds_in' = l /\ fds_out' = o /\ pipe_output' = p
      BY <1>1
    <3> QED
      BY <3>2, <3>3, <3>4, Zenon DEF TextsAt
  <2> QED
    BY <1>5, <2>1, <2>2 DEF AtStage
<1> QED
  BY <1>2, <1>4, <1>5 DEF PipeInv

LEMMA PipeSteps == PipeInv /\ [ProcessesNext]_processesVars => PipeInv'
<1> SUFFICES ASSUME PipeInv, [ProcessesNext]_processesVars PROVE PipeInv'
  OBVIOUS
<1>1. CASE UNCHANGED pipeVars
  BY <1>1, PipeRests
<1>2. CASE Pipe!Next
  <2>1. UNCHANGED <<argv, version>> /\ procs # <<>>
    BY <1>2
    DEF Pipe!Next, Pipe!Fork, Pipe!ForkFails, Pipe!Run, Pipe!ExecFails,
        Pipe!Shuttle, Pipe!End
  <2>2. PipeTyped'
    <3>1. DOMAIN started' = 1 .. Stages
      <4>1. CASE Pipe!Run
        <5>1. PICK k : started' = [started EXCEPT ![k] = @ + 1]
          BY <4>1 DEF Pipe!Run
        <5> QED
          BY <5>1 DEF PipeInv, PipeTyped
      <4>2. CASE ~Pipe!Run
        <5>1. started' = started
          BY <1>2, <4>2
          DEF Pipe!Next, Pipe!Fork, Pipe!ForkFails, Pipe!ExecFails,
              Pipe!Shuttle, Pipe!End
        <5> QED
          BY <5>1 DEF PipeInv, PipeTyped
      <4> QED
        BY <4>1, <4>2
    <3> QED
      BY <2>1, <3>1 DEF PipeInv, PipeTyped
  <2>3. ASSUME Linear'
        PROVE  \/ AtEnd'
               \/ \E s \in 1 .. Stages + 1, a \in {"fork", "exec", "shuttle"} :
                    AtStage(s, a)'
    <3>1. Linear
      BY <2>1, <2>3 DEF Linear, Pipe!AllExist
    <3>2. PICK s \in 1 .. Stages + 1, a \in {"fork", "exec", "shuttle"} :
            AtStage(s, a)
      BY <2>1, <3>1 DEF PipeInv, AtEnd
    <3>3. PipeTyped
      BY DEF PipeInv
    <3>4. CASE Pipe!Fork
      BY <3>2, <3>3, <3>4, PipeForks
    <3>5. CASE Pipe!ForkFails
      BY <3>2, <3>3, <3>5, PipeCannotFork
    <3>6. CASE Pipe!Run
      BY <3>2, <3>3, <3>6, PipeRuns
    <3>7. CASE Pipe!ExecFails
      BY <3>1, <3>2, <3>3, <3>7, PipeCannotExec
    <3>8. CASE Pipe!Shuttle
      <4>1. s <= Stages /\ AtStage(s + 1, "fork")'
        BY <3>2, <3>3, <3>8, PipeCarries
      <4>2. s + 1 \in 1 .. Stages + 1
        BY <4>1, StagesAssumption
      <4> QED
        BY <4>1, <4>2
    <3>9. CASE Pipe!End
      BY <3>2, <3>3, <3>9, PipeComesToEnd
    <3> QED
      BY <1>2, <3>4, <3>5, <3>6, <3>7, <3>8, <3>9 DEF Pipe!Next
  <2> QED
    BY <2>2, <2>3 DEF PipeInv
<1> QED
  BY <1>1, <1>2
  DEF ProcessesNext, PipeNext, ChainNext, PairNext, SumNext, WordsNext,
      CalcNext, processesVars

LEMMA PipeIsRight == PipeInv => Pipe!OutputIsComposition /\ Pipe!StartedOnce
<1> SUFFICES ASSUME PipeInv
             PROVE  Pipe!OutputIsComposition /\ Pipe!StartedOnce
  OBVIOUS
<1>1. ASSUME procs = <<>>, Pipe!AllExist, ~damaged
      PROVE  /\ Pipe!IsPrefix(pipe_output, Pipe!Composition[Stages])
             /\ ~cut => pipe_output = Pipe!Composition[Stages]
  <2>1. AtEnd
    BY <1>1, OneProc DEF PipeInv, Linear, AtStage
  <2>2. Made(Stages, pipe_output)
    BY <1>1, <2>1 DEF AtEnd, Whole
  <2>3. PICK q \in Seq(Int) : Composes(Stages, q) /\ Pre(pipe_output, q)
    BY <2>2 DEF Made, Begun
  <2>4. q = Pipe!Composition[Stages]
    BY <2>3, CompositionIs
  <2>5. pipe_output \in Seq(Int)
    BY <2>2 DEF Made, Begun
  <2>6. Pipe!IsPrefix(pipe_output, q)
    <3> PICK p \in Seq(Int) : p = pipe_output
      BY <2>5
    <3>1. Len(p) \in 0 .. Len(q) /\ \A l \in 1 .. Len(p) : p[l] = q[l]
      BY <2>3 DEF Pre
    <3>2. SubSeq(p, 1, Len(p)) = SubSeq(q, 1, Len(p))
      BY <3>1
    <3> QED
      BY <3>1, <3>2 DEF Pipe!IsPrefix
  <2>7. ~cut => pipe_output = Pipe!Composition[Stages]
    BY <2>2, CompositionIs DEF Made
  <2> QED
    BY <2>4, <2>6, <2>7
<1>2. ASSUME Linear PROVE \A l \in 1 .. Stages : started[l] <= 1
  BY <1>2 DEF PipeInv, AtEnd, AtStage, StartedUpTo
<1> QED
  BY <1>1, <1>2, Zenon
  DEF Pipe!OutputIsComposition, Pipe!StartedOnce, Pipe!Ended, Linear
-----------------------------------------------------------------------------
(* The two threads of inf16-2                                              *)

(* The number n that u has printed last waits for the other thread, o; or  *)
(* o has taken it; or u has not sent it yet; or it was the last one.       *)
PairAt(u, o, n) ==
  /\ u \in {0, 1} /\ o = 1 - u /\ n \in Int
  /\ line = <<u, n>>
  /\ DOMAIN sockAt = {0, 1} /\ DOMAIN num = {0, 1} /\ DOMAIN sock = {0, 1}
  /\ sock[u] = <<>>
  /\ \/ /\ sock[o] = <<n>> /\ sockAt[u] = "read" /\ sockAt[o] = "read"
        /\ open_ends = {0, 1}
        /\ n \in FirstNumbers \/ ~Pair!Final(n)
     \/ /\ sock[o] = <<>> /\ sockAt[u] = "read" /\ sockAt[o] = "print"
        /\ num[o] = n + Pair!Change(o) /\ open_ends = {0, 1}
        /\ n \in FirstNumbers \/ ~Pair!Final(n)
     \/ /\ sock[o] = <<>> /\ sockAt[u] = "write" /\ sockAt[o] = "read"
        /\ num[u] = n /\ open_ends = {0, 1}
        /\ ~Pair!Final(n)
     \/ /\ sock[o] = <<>> /\ sockAt[u] \in {"close", "done"}
        /\ sockAt[o] \in {"read", "done"}

PairInv == \E u, o, n : PairAt(u, o, n)

LEMMA PairStart == ProcessesInit => PairInv
<1> SUFFICES ASSUME Pair!Init PROVE PairInv
  BY DEF ProcessesInit
<1> USE FirstAssumption DEF Pair!Threads, Pair!minus_three, Pair!plus_five
<1>1. PICK n \in FirstNumbers :
        /\ sock = [t \in {0, 1} |-> IF t = 0 THEN <<n>> ELSE <<>>]
        /\ line = <<1, n>>
  BY DEF Pair!Init
<1>2. /\ sockAt = [t \in {0, 1} |-> "read"] /\ num = [t \in {0, 1} |-> 0]
      /\ open_ends = {0, 1}
  BY DEF Pair!Init
<1>3. PairAt(1, 0, n)
  BY <1>1, <1>2 DEF PairAt
<1> QED
  BY <1>3 DEF PairInv

(* A line follows the one before, and only while a number goes round.      *)
LineFollows ==
  line' # line =>
    /\ line'[1] = Pair!Other(line[1])
    /\ line'[2] = line[2] + Pair!Change(line'[1])
    /\ ~Pair!Final(line[2]) \/ line[2] \in FirstNumbers

LEMMA PairSteps ==
  PairInv /\ [ProcessesNext]_processesVars => PairInv' /\ LineFollows
<1> SUFFICES ASSUME PairInv, [ProcessesNext]_processesVars
             PROVE  PairInv' /\ LineFollows
  OBVIOUS
<1> USE FirstAssumption
    DEF Pair!Threads, Pair!minus_three, Pair!plus_five, Pair!Other
<1>1. PICK u, o, n : PairAt(u, o, n)
  BY DEF PairInv
<1>2. CASE UNCHANGED pairVars
  <2>1. PairAt(u, o, n)'
    BY <1>1, <1>2 DEF pairVars, PairAt
  <2> QED
    BY <1>2, <2>1 DEF PairInv, LineFollows, pairVars
<1>3. \A t \in {0, 1} : t = u \/ t = o
  BY <1>1 DEF PairAt
<1>4. ASSUME NEW t \in {0, 1}, Pair!Read(t) PROVE PairInv' /\ LineFollows
  <2>1. /\ sockAt[t] = "read" /\ sock[t] # <<>>
        /\ num' = [num EXCEPT ![t] = Head(sock[t]) + Pair!Change(t)]
        /\ sock' = [sock EXCEPT ![t] = Tail(sock[t])]
        /\ sockAt' = [sockAt EXCEPT ![t] = "print"]
        /\ UNCHANGED <<open_ends, line>>
    BY <1>4 DEF Pair!Read
  <2>2. t = o /\ t # u /\ sock[o] = <<n>> /\ sockAt[u] = "read"
        /\ open_ends = {0, 1} /\ (n \in FirstNumbers \/ ~Pair!Final(n))
    BY <1>1, <1>3, <2>1 DEF PairAt
  <2>3. Head(<<n>>) = n /\ Tail(<<n>>) = <<>>
    OBVIOUS
  <2>4. PairAt(u, o, n)'
    BY <1>1, <2>1, <2>2, <2>3 DEF PairAt
  <2> QED
    BY <2>1, <2>4 DEF PairInv, LineFollows
<1>5. ASSUME NEW t \in {0, 1}, Pair!Show(t) PROVE PairInv' /\ LineFollows
  <2>1. /\ sockAt[t] = "print" /\ line' = <<t, num[t]>>
        /\ sockAt' = [sockAt EXCEPT ![t] = IF Pair!Final(num[t]) THEN "close"
                                           ELSE "write"]
        /\ UNCHANGED <<num, sock, open_ends>>
    BY <1>5 DEF Pair!Show
  <2>2. /\ t = o /\ t # u /\ sock[o] = <<>> /\ sockAt[u] = "read"
        /\ num[o] = n + Pair!Change(o) /\ open_ends = {0, 1}
        /\ n \in FirstNumbers \/ ~Pair!Final(n)
    BY <1>1, <1>3, <2>1 DEF PairAt
  <2>3. Pair!Change(o) \in Int
    BY DEF Pair!Change
  <2>4. PICK k \in Int : k = n + Pair!Change(o) /\ num[o] = k
    BY <1>1, <2>2, <2>3 DEF PairAt
  <2>5. PairAt(o, u, k)'
    BY <1>1, <2>1, <2>2, <2>4 DEF PairAt
  <2>6. LineFollows
    BY <1>1, <2>1, <2>2, <2>4 DEF PairAt, LineFollows
  <2> QED
    BY <2>5, <2>6 DEF PairInv
<1>6. ASSUME NEW t \in {0, 1}, Pair!Write(t) PROVE PairInv' /\ LineFollows
  <2>1. /\ sockAt[t] = "write"
        /\ sock' = [sock EXCEPT ![1 - t] = Append(sock[1 - t], num[t])]
        /\ sockAt' = [sockAt EXCEPT ![t] = "read"]
        /\ UNCHANGED <<num, open_ends, line>>
    BY <1>6 DEF Pair!Write
  <2>2. t = u /\ 1 - t = o /\ sock[o] = <<>> /\ sockAt[o] = "read"
        /\ num[u] = n /\ open_ends = {0, 1} /\ ~Pair!Final(n)
    BY <1>1, <1>3, <2>1 DEF PairAt
  <2>3. Append(<<>>, n) = <<n>>
    OBVIOUS
  <2>4. PairAt(u, o, n)'
    BY <1>1, <2>1, <2>2, <2>3 DEF PairAt
  <2> QED
    BY <2>1, <2>4 DEF PairInv, LineFollows
<1>7. ASSUME NEW t \in {0, 1}, Pair!Close(t) \/ Pair!ReadFails(t)
      PROVE  PairInv' /\ LineFollows
  <2>1. /\ sock[o] = <<>> /\ sockAt[u] \in {"close", "done"}
        /\ sockAt[o] \in {"read", "done"}
    BY <1>1, <1>3, <1>7 DEF PairAt, Pair!Close, Pair!ReadFails
  <2>2. /\ UNCHANGED <<num, sock, line>>
        /\ \/ UNCHANGED sockAt
           \/ sockAt' = [sockAt EXCEPT ![t] = "done"]
    BY <1>7 DEF Pair!Close, Pair!ReadFails
  <2>3. PairAt(u, o, n)'
    BY <1>1, <2>1, <2>2 DEF PairAt
  <2> QED
    BY <2>2, <2>3 DEF PairInv, LineFollows
<1>8. CASE Pair!Next
  BY <1>4, <1>5, <1>6, <1>7, <1>8 DEF Pair!Next
<1> QED
  BY <1>2, <1>8
  DEF ProcessesNext, PipeNext, ChainNext, PairNext, SumNext, WordsNext,
      CalcNext, processesVars
-----------------------------------------------------------------------------
(* Everything of Processes                                                 *)

(* What processes and threads compute together is what one would compute:  *)
(* nothing is lost or counted twice by a chain of inf09 or inf16-0, by the *)
(* threads of inf16-1, by the children of inf09-2 or a call of inf12-1.    *)
THEOREM ResultsStayWhole == ProcessesSpec => []ResultsAreWhole
<1> DEFINE Inv == ChainInv /\ SumInv /\ WordsInv /\ CalcInv
<1>1. ProcessesInit => Inv
  BY ChainStart, SumStart, WordsStart, CalcStart
<1>2. Inv /\ [ProcessesNext]_processesVars => Inv'
  BY ChainSteps, SumSteps, WordsSteps, CalcSteps
<1>3. Inv => ResultsAreWhole
  BY ChainIsRight, SumIsRight, WordsAreRight, CalcIsRight DEF ResultsAreWhole
<1> QED
  BY <1>1, <1>2, <1>3, PTL DEF ProcessesSpec

(* The output of a pipeline of inf13 in which no fork failed and nothing   *)
(* was left for the next command is what its commands make of the input    *)
(* one after the other, or a beginning of it if a pipe was full or a       *)
(* command waited for the end of its input, for any commands, number of    *)
(* stages, input and size of pipes.                                        *)
THEOREM PipelinesCompose == ProcessesSpec => []PipelineComposes
<1>1. PipeInv => PipelineComposes
  BY PipeIsRight DEF PipelineComposes
<1> QED
  BY <1>1, PipeStart, PipeSteps, PTL DEF ProcessesSpec

(* The threads of inf16-2 print in turns, each from the other's number,    *)
(* whatever the first number is, and nothing after the last line.          *)
THEOREM LinesAlwaysFollow == ProcessesSpec => Pair!LinesFollow
<1>1. PairInv /\ [ProcessesNext]_processesVars =>
        [/\ line'[1] = Pair!Other(line[1])
         /\ line'[2] = line[2] + Pair!Change(line'[1])
         /\ ~Pair!Final(line[2]) \/ line[2] \in FirstNumbers]_line
  BY PairSteps DEF LineFollows
<1>2. [][/\ line'[1] = Pair!Other(line[1])
         /\ line'[2] = line[2] + Pair!Change(line'[1])
         /\ ~Pair!Final(line[2]) \/ line[2] \in FirstNumbers]_line
      => Pair!LinesFollow
  BY PTL DEF Pair!LinesFollow
<1> QED
  BY <1>1, <1>2, PairStart, PairSteps, PTL DEF ProcessesSpec
=============================================================================
