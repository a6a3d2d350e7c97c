--------------------------- MODULE MutexRingProofs ---------------------------
(***************************************************************************)
(* Proofs about MutexRing, for every N and every k > 0: the additions of   *)
(* all threads arrive, and what main prints is 3 * N for each element.     *)
(***************************************************************************)
EXTENDS MutexRing, TLAPS

(* Remainders of what is at most k.                                        *)
LEMMA SmallRemainder ==
  ASSUME NEW a \in Nat, NEW b \in Nat \ {0}, a <= b
  PROVE  a % b = IF a = b THEN 0 ELSE a
<1>1. CASE a < b
  BY <1>1, Z3
<1>2. CASE a = b
  BY <1>2, Z3
<1> QED  BY <1>1, <1>2

(* The index arithmetic of the thread, negative remainder included, is the *)
(* ring's.                                                                 *)
LEMMA RightIsSucc ==
  ASSUME NEW t \in Thread
  PROVE  Right(t) = Succ(t) /\ Right(t) \in Thread
<1>1. t + 1 \in Nat /\ t + 1 <= k /\ k \in Nat \ {0}
  BY SizeAssumption DEF Thread
<1>2. (t + 1) % k = IF t + 1 = k THEN 0 ELSE t + 1
  BY <1>1, SmallRemainder
<1> QED  BY <1>1, <1>2, SizeAssumption DEF Right, CRemainder, Succ, Thread

LEMMA LeftIsPred ==
  ASSUME NEW t \in Thread
  PROVE  Left(t) = Pred(t) /\ Left(t) \in Thread
<1>1. CASE t = 0
  <2>1. 1 % k = IF k = 1 THEN 0 ELSE 1
    BY SizeAssumption, SmallRemainder
  <2>2. CRemainder(t - 1, k) = -(1 % k)
    BY <1>1 DEF CRemainder
  <2> QED  BY <1>1, <2>1, <2>2, SizeAssumption DEF Left, Pred, Thread
<1>2. CASE t # 0
  <2>1. t - 1 \in Nat /\ t - 1 < k /\ k \in Nat \ {0}
    BY <1>2, SizeAssumption DEF Thread
  <2>2. (t - 1) % k = t - 1
    BY <2>1, SmallRemainder
  <2> QED  BY <1>2, <2>1, <2>2, SizeAssumption DEF Left, CRemainder, Pred, Thread
<1> QED  BY <1>1, <1>2

LEMMA Neighbours ==
  ASSUME NEW x \in Thread
  PROVE  /\ Succ(x) \in Thread /\ Pred(x) \in Thread
         /\ \A t \in Thread : (Succ(x) = t) <=> (x = Pred(t))
         /\ \A t \in Thread : (Pred(x) = t) <=> (x = Succ(t))
BY SizeAssumption DEF Succ, Pred, Thread

-----------------------------------------------------------------------------
(* The inductive invariant                                                 *)

(* The lock is held exactly by the thread that is inside.                  *)
Holding == \A t \in Thread : pc[t] \in {"load", "store"} <=> owner = t

(* What a thread has loaded is still what the element holds.               *)
Fresh == \A t \in Thread :
  pc[t] = "store" => stage[t] <= 3 /\ reg[t] = arr[Target(t)]

(* Outside the critical section an iteration is complete.                  *)
WholeIterations == \A t \in Thread :
  /\ pc[t] \in {"unborn", "loop", "exit"} => stage[t] = 1
  /\ pc[t] \in {"load", "store"} => i[t] < N
  /\ pc[t] = "exit" => i[t] = N

Joined ==
  /\ mainPc = "create" => \A t \in Thread : t >= mainI => pc[t] = "unborn"
  /\ mainPc = "join" => \A t \in Thread : t < mainI => pc[t] = "exit"
  /\ mainPc = "done" => \A t \in Thread : pc[t] = "exit"

IInv == TypeOK /\ Holding /\ Fresh /\ WholeIterations /\ Joined /\ NothingLost

LEMMA InitImpliesIInv == Init => IInv
<1> SUFFICES ASSUME Init
             PROVE  IInv
  OBVIOUS
<1>1. TypeOK
  BY SizeAssumption DEF Init, TypeOK, Thread
<1>2. Holding /\ Fresh /\ WholeIterations /\ Joined
  BY DEF Init, Holding, Fresh, WholeIterations, Joined, Thread, Nobody
<1>3. NothingLost
  BY Neighbours DEF Init, NothingLost, Done
<1> QED  BY <1>1, <1>2, <1>3 DEF IInv

(* The element a thread adds to is one of the ring's, and what it adds to  *)
(* it is what the element's sum then lacks.                                *)
LEMMA TargetIsElement ==
  ASSUME TypeOK, NEW t \in Thread, stage[t] <= 3
  PROVE  /\ Target(t) \in Thread
         /\ Amount(t) \in Int
         /\ stage[t] = 1 => Target(t) = t /\ Amount(t) = 100
         /\ stage[t] = 2 => Target(t) = Succ(t) /\ Amount(t) = 101
         /\ stage[t] = 3 => Target(t) = Pred(t) /\ Amount(t) = 99
<1>1. stage[t] \in {1, 2, 3}
  BY DEF TypeOK
<1> QED  BY <1>1, RightIsSucc, LeftIsPred DEF Target, Amount

(* An addition under the lock keeps every sum complete.                    *)
LEMMA StoreKeepsIInv ==
  ASSUME IInv, NEW t \in Thread, Store(t)
  PROVE  IInv'
<1> USE DEF IInv
<1>1. stage[t] \in {1, 2, 3} /\ reg[t] = arr[Target(t)]
  BY DEF Store, Fresh, TypeOK
<1>2. /\ Target(t) \in Thread
      /\ Amount(t) \in Int
      /\ stage[t] = 1 => Target(t) = t /\ Amount(t) = 100
      /\ stage[t] = 2 => Target(t) = Succ(t) /\ Amount(t) = 101
      /\ stage[t] = 3 => Target(t) = Pred(t) /\ Amount(t) = 99
  BY <1>1, TargetIsElement
<1>3. TypeOK'
  BY <1>1, <1>2 DEF Store, TypeOK
<1>4. Holding' /\ Joined'
  BY DEF Store, Holding, Joined, TypeOK
<1>5. Fresh'
  BY DEF Store, Fresh, Holding, TypeOK
<1>6. WholeIterations'
  BY DEF Store, WholeIterations, TypeOK
<1>7. NothingLost'
  <2> SUFFICES ASSUME NEW x \in Thread
               PROVE  (arr[x] = 100 * Done(x, 1) + 101 * Done(Pred(x), 2)
                                + 99 * Done(Succ(x), 3))'
    BY DEF NothingLost
  <2>1. arr[x] = 100 * Done(x, 1) + 101 * Done(Pred(x), 2) + 99 * Done(Succ(x), 3)
    BY DEF NothingLost
  <2>2. arr'[x] = arr[x] + (IF x = Target(t) THEN Amount(t) ELSE 0)
    BY <1>1, <1>2 DEF Store, TypeOK
  <2>3. \A u \in Thread, s \in 1 .. 3 :
          /\ Done(u, s) \in Int
          /\ Done(u, s)' = Done(u, s) + (IF u = t /\ s = stage[t] THEN 1 ELSE 0)
    BY <1>1 DEF Store, TypeOK, Done
  <2>4. /\ Succ(x) \in Thread /\ Pred(x) \in Thread
        /\ (Succ(x) = t) <=> (x = Pred(t))
        /\ (Pred(x) = t) <=> (x = Succ(t))
    BY Neighbours
  <2>5. /\ Done(x, 1)' = Done(x, 1) + (IF x = t /\ 1 = stage[t] THEN 1 ELSE 0)
        /\ Done(Pred(x), 2)' = Done(Pred(x), 2)
                                 + (IF Pred(x) = t /\ 2 = stage[t] THEN 1 ELSE 0)
        /\ Done(Succ(x), 3)' = Done(Succ(x), 3)
                                 + (IF Succ(x) = t /\ 3 = stage[t] THEN 1 ELSE 0)
        /\ Done(x, 1) \in Int /\ Done(Pred(x), 2) \in Int /\ Done(Succ(x), 3) \in Int
    BY <2>3, <2>4
  <2>6. CASE stage[t] = 1
    BY <1>2, <2>1, <2>2, <2>4, <2>5, <2>6
  <2>7. CASE stage[t] = 2
    BY <1>2, <2>1, <2>2, <2>4, <2>5, <2>7
  <2>8. CASE stage[t] = 3
    BY <1>2, <2>1, <2>2, <2>4, <2>5, <2>8
  <2> QED  BY <1>1, <2>6, <2>7, <2>8
<1> QED  BY <1>3, <1>4, <1>5, <1>6, <1>7

(* Steps that leave the sums alone.                                        *)
LEMMA SumsUntouched ==
  ASSUME NothingLost, arr' = arr, \A u \in Thread, s \in 1 .. 3 : Done(u, s)' = Done(u, s)
  PROVE  NothingLost'
BY Neighbours DEF NothingLost

LEMMA StepKeepsIInv == IInv /\ [Next]_vars => IInv'
<1> SUFFICES ASSUME IInv, [Next]_vars
             PROVE  IInv'
  OBVIOUS
<1> USE DEF IInv
<1>1. ASSUME NEW t \in Thread, Lock(t)
      PROVE  IInv'
  <2>1. TypeOK' /\ WholeIterations' /\ Joined'
    BY <1>1 DEF Lock, TypeOK, WholeIterations, Joined
  <2>2. Holding'
    BY <1>1 DEF Lock, TypeOK, Holding, Nobody, Thread
  <2>3. Fresh'
    BY <1>1 DEF Lock, TypeOK, Fresh, Target
  <2>4. NothingLost'
    BY <1>1, SumsUntouched DEF Lock, Done
  <2> QED  BY <2>1, <2>2, <2>3, <2>4
<1>2. ASSUME NEW t \in Thread, Load(t)
      PROVE  IInv'
  <2>1. Target(t) \in Thread
    BY <1>2, TargetIsElement DEF Load
  <2>2. TypeOK' /\ Holding' /\ WholeIterations' /\ Joined'
    BY <1>2, <2>1 DEF Load, TypeOK, Holding, WholeIterations, Joined
  <2>3. Fresh'
    BY <1>2, <2>1 DEF Load, TypeOK, Fresh, Target
  <2>4. NothingLost'
    BY <1>2, SumsUntouched DEF Load, Done
  <2> QED  BY <2>2, <2>3, <2>4
<1>3. ASSUME NEW t \in Thread, Store(t)
      PROVE  IInv'
  BY <1>3, StoreKeepsIInv
<1>4. ASSUME NEW t \in Thread, Unlock(t)
      PROVE  IInv'
  <2>1. i[t] + 1 \in 0 .. N
    BY <1>4, SizeAssumption DEF Unlock, TypeOK, WholeIterations
  <2>2. TypeOK' /\ WholeIterations' /\ Joined'
    BY <1>4, <2>1 DEF Unlock, TypeOK, WholeIterations, Joined
  <2>3. Holding'
    BY <1>4 DEF Unlock, TypeOK, Holding, Nobody, Thread
  <2>4. Fresh'
    BY <1>4 DEF Unlock, TypeOK, Fresh, Target
  <2>5. \A u \in Thread, s \in 1 .. 3 : Done(u, s)' = Done(u, s)
    BY <1>4 DEF Unlock, TypeOK, Done
  <2>6. NothingLost'
    BY <1>4, <2>5, SumsUntouched DEF Unlock
  <2> QED  BY <2>2, <2>3, <2>4, <2>6
<1>5. ASSUME NEW t \in Thread, Return(t)
      PROVE  IInv'
  <2>1. i[t] = N
    BY <1>5, SizeAssumption DEF Return, TypeOK
  <2>2. TypeOK' /\ Holding' /\ Joined'
    BY <1>5 DEF Return, threadVars, TypeOK, Holding, Joined
  <2>3. WholeIterations'
    BY <1>5, <2>1 DEF Return, threadVars, TypeOK, WholeIterations
  <2>4. Fresh'
    BY <1>5 DEF Return, threadVars, TypeOK, Fresh, Target
  <2>5. NothingLost'
    BY <1>5, SumsUntouched DEF Return, threadVars, Done
  <2> QED  BY <2>2, <2>3, <2>4, <2>5
<1>6. CASE CreateThread
  <2>1. mainI \in Thread /\ mainI + 1 \in 0 .. k
    BY <1>6, SizeAssumption DEF CreateThread, TypeOK, Thread
  <2>2. pc[mainI] = "unborn"
    BY <1>6, <2>1, SizeAssumption DEF CreateThread, Joined, Thread
  <2>3. TypeOK' /\ Holding' /\ WholeIterations' /\ Joined'
    BY <1>6, <2>1, <2>2
    DEF CreateThread, threadVars, TypeOK, Holding, WholeIterations, Joined
  <2>4. Fresh'
    BY <1>6 DEF CreateThread, threadVars, TypeOK, Fresh, Target
  <2>5. NothingLost'
    BY <1>6, SumsUntouched DEF CreateThread, threadVars, Done
  <2> QED  BY <2>3, <2>4, <2>5
<1>7. CASE StartJoining
  <2>1. TypeOK' /\ Holding' /\ WholeIterations' /\ Joined'
    BY <1>7, SizeAssumption
    DEF StartJoining, threadVars, TypeOK, Holding, WholeIterations, Joined, Thread
  <2>2. Fresh'
    BY <1>7 DEF StartJoining, threadVars, Fresh, Target
  <2>3. NothingLost'
    BY <1>7, SumsUntouched DEF StartJoining, threadVars, Done
  <2> QED  BY <2>1, <2>2, <2>3
<1>8. CASE JoinThread
  <2>1. TypeOK' /\ Holding' /\ WholeIterations' /\ Joined'
    BY <1>8, SizeAssumption
    DEF JoinThread, threadVars, TypeOK, Holding, WholeIterations, Joined, Thread
  <2>2. Fresh'
    BY <1>8 DEF JoinThread, threadVars, Fresh, Target
  <2>3. NothingLost'
    BY <1>8, SumsUntouched DEF JoinThread, threadVars, Done
  <2> QED  BY <2>1, <2>2, <2>3
<1>9. CASE PrintArray
  <2>1. TypeOK' /\ Holding' /\ WholeIterations' /\ Joined'
    BY <1>9, SizeAssumption
    DEF PrintArray, threadVars, TypeOK, Holding, WholeIterations, Joined, Thread
  <2>2. Fresh'
    BY <1>9 DEF PrintArray, threadVars, Fresh, Target
  <2>3. NothingLost'
    BY <1>9, SumsUntouched DEF PrintArray, threadVars, Done
  <2> QED  BY <2>1, <2>2, <2>3
<1>10. CASE UNCHANGED vars
  <2>1. TypeOK' /\ Holding' /\ WholeIterations' /\ Joined'
    BY <1>10 DEF vars, threadVars, TypeOK, Holding, WholeIterations, Joined
  <2>2. Fresh'
    BY <1>10 DEF vars, threadVars, Fresh, Target
  <2>3. NothingLost'
    BY <1>10, SumsUntouched DEF vars, threadVars, Done
  <2> QED  BY <2>1, <2>2, <2>3
<1> QED
  BY <1>1, <1>2, <1>3, <1>4, <1>5, <1>6, <1>7, <1>8, <1>9, <1>10
  DEF Next, MainStep, ThreadStep, Terminated

LEMMA Invariance == Spec => []IInv
<1>1. Init => IInv
  BY InitImpliesIInv
<1>2. IInv /\ [Next]_vars => IInv'
  BY StepKeepsIInv
<1> QED  BY <1>1, <1>2, PTL DEF Spec

-----------------------------------------------------------------------------
(* The theorems                                                            *)

(* Every variable keeps its type: in particular no thread takes more than  *)
(* N turns and the mutex is held by one thread at most.                    *)
THEOREM TypeCorrect == Spec => []TypeOK
<1>1. IInv => TypeOK
  BY DEF IInv
<1> QED  BY <1>1, Invariance, PTL

(* The load and the store of += are never interleaved with another's: at   *)
(* any moment an element is the sum of all that was added to it.           *)
THEOREM NoLostUpdate == Spec => []NothingLost
<1>1. IInv => NothingLost
  BY DEF IInv
<1> QED  BY <1>1, Invariance, PTL

(* What main prints is 3 * N for every element, for rings of every size,   *)
(* those where neighbours coincide included.                               *)
THEOREM ResultIsThreeN == Spec => []PrintsThreeN
<1>1. IInv => PrintsThreeN
  <2> SUFFICES ASSUME IInv, mainPc = "done", NEW x \in Thread
               PROVE  arr[x] = 300 * N
    BY DEF PrintsThreeN
  <2>1. \A t \in Thread : i[t] = N /\ stage[t] = 1
    BY DEF IInv, Joined, WholeIterations
  <2>2. Succ(x) \in Thread /\ Pred(x) \in Thread
    BY Neighbours
  <2>3. Done(x, 1) = N /\ Done(Pred(x), 2) = N /\ Done(Succ(x), 3) = N
    BY <2>1, <2>2, SizeAssumption DEF Done
  <2>4. arr[x] = 100 * N + 101 * N + 99 * N
    BY <2>3 DEF IInv, NothingLost
  <2> QED  BY <2>4, SizeAssumption
<1> QED  BY <1>1, Invariance, PTL
=============================================================================
