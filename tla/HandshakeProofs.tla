--------------------------- MODULE HandshakeProofs ---------------------------
(***************************************************************************)
(* The safety of the two programs in which one side asks and the other     *)
(* answers through shared memory: PrimeCondvar, with a condition variable, *)
(* and ShmRpc, with two semaphores.                                        *)
(***************************************************************************)
EXTENDS PrimeCondvar, ShmRpc, SequenceTheorems, TLAPS

-----------------------------------------------------------------------------
(***************************************************************************)
(* PrimeCondvar, for any number of primes asked for and found.             *)
(*                                                                         *)
(* Without spurious wake-ups the two threads answer each other: a thread   *)
(* that has been woken finds the other at, or past, the statement where it *)
(* waits. That alone fixes how far the search is ahead of what is printed  *)
(* (OrderInv), even when a wake-up is lost, since then nobody moves. After *)
(* a handshake the pairs of statements go round in a circle (TurnInv).     *)
(***************************************************************************)
Values == {0, 1} \cup {Prime(j) : j \in 1 .. total}

(* What main prints and has printed, and that prime_num = 0 is its last    *)
(* word.                                                                   *)
CountInv ==
  /\ mainPc = "create" <=> workerPc = "unborn"
  /\ mainPc = "create" => ~handshake
  /\ Len(printed) = prime_numbers
  /\ mainPc \in {"create", "test", "answer", "signal"} => prime_numbers <= N
  /\ mainPc \in {"wait", "waiting", "woken", "print"} => prime_numbers < N
  /\ workerPc \in {"signal", "wait", "waiting", "woken", "read"} => found > 0
  /\ found > 0 /\ prime_num = 0 => prime_numbers = N
  /\ workerPc = "returned" => found = total \/ prime_numbers = N

(* How far the thread is ahead of main.                                    *)
OrderInv ==
  ~spurious =>
    /\ PrintsPrimesInOrder
    /\ mainPc \in {"woken", "print"} =>
         /\ workerPc \in {"wait", "waiting"}
         /\ prime_num = Prime(found) /\ found = prime_numbers + 1
    /\ mainPc \in {"answer", "signal"} =>
         workerPc \in {"wait", "waiting"} /\ found = prime_numbers
    /\ workerPc = "signal" =>
         prime_num = Prime(found) /\ found = prime_numbers + 1
    /\ workerPc \in {"unborn", "search", "woken", "read"} =>
         found = prime_numbers

(* After a handshake.                                                      *)
TurnInv ==
  ~spurious /\ handshake =>
    \/ workerPc = "woken" /\ mainPc = "done"
    \/ workerPc = "returned" /\ mainPc = "waiting"
    \/ workerPc \in {"read", "search", "signal"} /\ locked /\ mainPc = "waiting"
    \/ workerPc = "wait" /\ locked /\ mainPc = "woken"
    \/ workerPc = "waiting" /\ ~locked /\ mainPc = "woken"
    \/ workerPc = "waiting" /\ locked /\ mainPc \in {"print", "answer", "signal"}
    \/ workerPc = "woken" /\ locked /\ mainPc \in {"test", "wait"}
    \/ workerPc = "woken" /\ ~locked /\ mainPc = "waiting"

PrimesInv == PrimesTypeOK /\ CountInv /\ OrderInv /\ TurnInv
-----------------------------------------------------------------------------
LEMMA Constants ==
  /\ N \in Nat
  /\ \A n \in Totals : n \in Nat
  /\ Spurious \subseteq BOOLEAN
  BY NAssumption, SpuriousAssumption

LEMMA PrimesInitInv == PrimesInit => PrimesInv
<1> SUFFICES ASSUME PrimesInit PROVE PrimesInv
  OBVIOUS
<1>1. /\ 0 \in 0 .. N /\ 0 \in 0 .. total
      /\ <<>> \in Seq(Values) /\ Len(<<>>) = 0 /\ DOMAIN <<>> = {}
  BY Constants DEF PrimesInit
<1>2. PrimesTypeOK
  BY <1>1 DEF PrimesInit, PrimesTypeOK, Values
<1>3. CountInv
  BY <1>1, Constants DEF PrimesInit, CountInv
<1>4. OrderInv /\ TurnInv
  BY <1>1 DEF PrimesInit, OrderInv, TurnInv, PrintsPrimesInOrder
<1> QED
  BY <1>2, <1>3, <1>4 DEF PrimesInv

(* What one number more does to what has been printed.                     *)
LEMMA PrintFact ==
  ASSUME PrimesTypeOK, PrintNumber
  PROVE  /\ printed' \in Seq(Values)
         /\ Len(printed) \in Nat
         /\ Len(printed') = Len(printed) + 1
         /\ \A j \in DOMAIN printed' : j \in 1 .. Len(printed) + 1
         /\ \A j \in 1 .. Len(printed) :
              j \in DOMAIN printed /\ printed'[j] = printed[j]
         /\ printed'[Len(printed) + 1] = prime_num
<1>1. printed \in Seq(Values) /\ prime_num \in Values
  BY DEF PrimesTypeOK, Values
<1> QED
  BY <1>1, AppendProperties DEF PrintNumber

(* Types are kept.                                                         *)
LEMMA TypeStep ==
  ASSUME PrimesTypeOK, CountInv, [PrimesNext]_primesVars
  PROVE  PrimesTypeOK'
<1> USE Constants DEF PrimesTypeOK, env
<1>1. CASE CreateThread
  BY <1>1 DEF CreateThread
<1>2. CASE MainTest
  BY <1>2 DEF MainTest
<1>3. CASE MainWait
  BY <1>3 DEF MainWait
<1>4. CASE MainWake
  BY <1>4 DEF MainWake
<1>5. CASE PrintNumber
  <2>1. printed' \in Seq(Values)
    BY <1>5, PrintFact
  <2>2. prime_numbers + 1 \in 0 .. N
    BY <1>5 DEF PrintNumber, CountInv
  <2> QED
    BY <1>5, <2>1, <2>2 DEF PrintNumber, Values
<1>6. CASE Answer
  BY <1>6 DEF Answer
<1>7. CASE MainSignal
  BY <1>7 DEF MainSignal
<1>8. CASE Find
  <2>1. found + 1 \in 0 .. total /\ found + 1 \in 1 .. total
    BY <1>8 DEF Find
  <2> QED
    BY <1>8, <2>1 DEF Find
<1>9. CASE SearchEnds
  BY <1>9 DEF SearchEnds
<1>10. CASE WorkerSignal
  BY <1>10 DEF WorkerSignal
<1>11. CASE WorkerWait
  BY <1>11 DEF WorkerWait
<1>12. CASE WorkerWake
  BY <1>12 DEF WorkerWake
<1>13. CASE WorkerRead
  BY <1>13 DEF WorkerRead
<1>14. CASE WakeSpuriously
  BY <1>14 DEF WakeSpuriously
<1>15. CASE UNCHANGED primesVars
  BY <1>15 DEF primesVars
<1> QED
  BY <1>1, <1>2, <1>3, <1>4, <1>5, <1>6, <1>7, <1>8, <1>9,
     <1>10, <1>11, <1>12, <1>13, <1>14, <1>15
     DEF PrimesNext, MainStep, WorkerStep

(* What is counted.                                                        *)
LEMMA CountStep ==
  ASSUME PrimesTypeOK, CountInv, [PrimesNext]_primesVars
  PROVE  CountInv'
<1> USE Constants DEF PrimesTypeOK, CountInv, env, Prime
<1>1. CASE CreateThread
  BY <1>1 DEF CreateThread
<1>2. CASE MainTest
  BY <1>2 DEF MainTest
<1>3. CASE MainWait
  BY <1>3 DEF MainWait
<1>4. CASE MainWake
  BY <1>4 DEF MainWake
<1>5. CASE PrintNumber
  <2>1. Len(printed') = Len(printed) + 1
    BY <1>5, PrintFact
  <2> QED
    BY <1>5, <2>1 DEF PrintNumber
<1>6. CASE Answer
  BY <1>6 DEF Answer
<1>7. CASE MainSignal
  BY <1>7 DEF MainSignal
<1>8. CASE Find
  <2>1. found + 1 > 0 /\ prime_num' # 0
    BY <1>8 DEF Find
  <2> QED
    BY <1>8, <2>1 DEF Find
<1>9. CASE SearchEnds
  BY <1>9 DEF SearchEnds
<1>10. CASE WorkerSignal
  BY <1>10 DEF WorkerSignal
<1>11. CASE WorkerWait
  BY <1>11 DEF WorkerWait
<1>12. CASE WorkerWake
  BY <1>12 DEF WorkerWake
<1>13. CASE WorkerRead
  BY <1>13 DEF WorkerRead
<1>14. CASE WakeSpuriously
  BY <1>14 DEF WakeSpuriously
<1>15. CASE UNCHANGED primesVars
  BY <1>15 DEF primesVars
<1> QED
  BY <1>1, <1>2, <1>3, <1>4, <1>5, <1>6, <1>7, <1>8, <1>9,
     <1>10, <1>11, <1>12, <1>13, <1>14, <1>15
     DEF PrimesNext, MainStep, WorkerStep

(* How far the search is ahead.                                            *)
LEMMA OrderStep ==
  ASSUME PrimesTypeOK, CountInv, OrderInv, [PrimesNext]_primesVars
  PROVE  OrderInv'
<1> USE Constants DEF PrimesTypeOK, CountInv, OrderInv, PrintsPrimesInOrder, env
<1>1. CASE CreateThread
  BY <1>1 DEF CreateThread
<1>2. CASE MainTest
  BY <1>2 DEF MainTest
<1>3. CASE MainWait
  BY <1>3 DEF MainWait
<1>4. CASE MainWake
  BY <1>4 DEF MainWake
<1>5. CASE PrintNumber
  <2>1. /\ Len(printed) \in Nat
        /\ \A j \in DOMAIN printed' : j \in 1 .. Len(printed) + 1
        /\ \A j \in 1 .. Len(printed) :
             j \in DOMAIN printed /\ printed'[j] = printed[j]
        /\ printed'[Len(printed) + 1] = prime_num
    BY <1>5, PrintFact
  <2>2. ASSUME ~spurious, NEW j \in DOMAIN printed'
        PROVE  printed'[j] = Prime(j)
    <3>1. CASE j \in 1 .. Len(printed)
      BY <2>1, <2>2, <3>1
    <3>2. CASE j = Len(printed) + 1
      BY <1>5, <2>1, <2>2, <3>2 DEF PrintNumber
    <3> QED
      BY <2>1, <3>1, <3>2
  <2> QED
    BY <1>5, <2>2 DEF PrintNumber
<1>6. CASE Answer
  BY <1>6 DEF Answer
<1>7. CASE MainSignal
  BY <1>7 DEF MainSignal
<1>8. CASE Find
  BY <1>8 DEF Find
<1>9. CASE SearchEnds
  BY <1>9 DEF SearchEnds
<1>10. CASE WorkerSignal
  BY <1>10 DEF WorkerSignal
<1>11. CASE WorkerWait
  BY <1>11 DEF WorkerWait
<1>12. CASE WorkerWake
  BY <1>12 DEF WorkerWake
<1>13. CASE WorkerRead
  BY <1>13 DEF WorkerRead
<1>14. CASE WakeSpuriously
  BY <1>14 DEF WakeSpuriously
<1>15. CASE UNCHANGED primesVars
  BY <1>15 DEF primesVars
<1> QED
  BY <1>1, <1>2, <1>3, <1>4, <1>5, <1>6, <1>7, <1>8, <1>9,
     <1>10, <1>11, <1>12, <1>13, <1>14, <1>15
     DEF PrimesNext, MainStep, WorkerStep

(* The circle is not left.                                                 *)
LEMMA TurnStep ==
  ASSUME PrimesTypeOK, CountInv, OrderInv, TurnInv, [PrimesNext]_primesVars
  PROVE  TurnInv'
<1> USE DEF PrimesTypeOK, CountInv, OrderInv, TurnInv, env
<1>1. CASE CreateThread
  BY <1>1 DEF CreateThread
<1>2. CASE MainTest
  BY <1>2 DEF MainTest
<1>3. CASE MainWait
  BY <1>3 DEF MainWait
<1>4. CASE MainWake
  BY <1>4 DEF MainWake
<1>5. CASE PrintNumber
  BY <1>5 DEF PrintNumber
<1>6. CASE Answer
  BY <1>6 DEF Answer
<1>7. CASE MainSignal
  BY <1>7 DEF MainSignal
<1>8. CASE Find
  BY <1>8 DEF Find
<1>9. CASE SearchEnds
  BY <1>9 DEF SearchEnds
<1>10. CASE WorkerSignal
  BY <1>10 DEF WorkerSignal
<1>11. CASE WorkerWait
  BY <1>11 DEF WorkerWait
<1>12. CASE Running /\ WorkerWake
  BY <1>12 DEF Running, WorkerWake
<1>13. CASE WorkerRead
  BY <1>13 DEF WorkerRead
<1>14. CASE WakeSpuriously
  BY <1>14 DEF WakeSpuriously
<1>15. CASE UNCHANGED primesVars
  BY <1>15 DEF primesVars
<1> QED
  BY <1>1, <1>2, <1>3, <1>4, <1>5, <1>6, <1>7, <1>8, <1>9,
     <1>10, <1>11, <1>12, <1>13, <1>14, <1>15
     DEF PrimesNext, MainStep, WorkerStep

LEMMA PrimesNextInv == PrimesInv /\ [PrimesNext]_primesVars => PrimesInv'
  BY TypeStep, CountStep, OrderStep, TurnStep DEF PrimesInv

LEMMA Inductive == PrimesSpec => []PrimesInv
  BY PrimesInitInv, PrimesNextInv, PTL DEF PrimesSpec

(* The types; what is printed is a prime or one of main's answers.         *)
THEOREM PrimesTypeCorrect == PrimesSpec => []PrimesTypeOK
<1>1. PrimesInv => PrimesTypeOK
  BY DEF PrimesInv
<1> QED
  BY <1>1, Inductive, PTL

(***************************************************************************)
(* If no wait returns without a signal, main prints the primes in order    *)
(* and none of its own answers, although the thread stores them and main   *)
(* answers in one variable and the mutex protects neither at first.        *)
(***************************************************************************)
THEOREM PrimesInOrder == PrimesSpec => []PrintsPrimesInOrder
<1>1. PrimesInv => PrintsPrimesInOrder
  BY DEF PrimesInv, OrderInv, PrintsPrimesInOrder
<1> QED
  BY <1>1, Inductive, PTL

(***************************************************************************)
(* Once the thread has taken the mutex while main waited, the mutex does   *)
(* what the code wants of it: the thread holds it, and main is inside      *)
(* pthread_cond_wait, whenever the thread uses prime_num.                  *)
(***************************************************************************)
THEOREM TakesTurns == PrimesSpec => []ExclusiveAfterHandshake
<1>1. PrimesInv => ExclusiveAfterHandshake
  BY DEF PrimesInv, PrimesTypeOK, TurnInv, ExclusiveAfterHandshake
<1> QED
  BY <1>1, Inductive, PTL

(***************************************************************************)
(* With spurious wake-ups too the thread stops only when it has found all  *)
(* primes or main has printed its last number: it never takes a stale      *)
(* value for the answer 0.                                                 *)
(***************************************************************************)
THEOREM StopsWhenTold == PrimesSpec => []StopsOnlyWhenTold
<1>1. PrimesInv => StopsOnlyWhenTold
  BY DEF PrimesInv, CountInv, StopsOnlyWhenTold
<1> QED
  BY <1>1, Inductive, PTL

-----------------------------------------------------------------------------
(***************************************************************************)
(* ShmRpc, for loops of any length, any library, any contents of           *)
(* uninitialised memory and any names of segments.                         *)
(*                                                                         *)
(* The two semaphores and the server's pc are one token: once a semaphore  *)
(* is made, at most one of "a request is posted", "the server works on it" *)
(* and "a response is posted" holds, and none of them unless the client is *)
(* in its sem_wait. A client that starts early keeps that, unless it gets  *)
(* through a sem_wait on what the memory held before: what it posts before *)
(* the server makes the semaphores is wiped, token and all.                *)
(*                                                                         *)
(* For a client that waits for the name the contents of the segment follow *)
(* the token, which makes the two programs an implementation of Rpc.       *)
(***************************************************************************)
RequestMade == serverPc \notin {"create", "truncate", "copy", "initRequest"}
ResponseMade == RequestMade /\ serverPc # "initResponse"
Announcing == ~ResponseMade \/ serverPc = "announce"
Working == serverPc \in {"lookup", "post"}
Waiting == clientPc \in {"wait", "asleep"}

(* Where the token is, for every place the client may be at.               *)
TokenInv ==
  ~deceived =>
    /\ ~Waiting /\ clientPc # "exited" =>
         /\ RequestMade => request_ready = 0
         /\ ResponseMade => response_ready = 0
         /\ Announcing \/ serverPc = "wait"
    /\ Waiting /\ RequestMade =>
         /\ request_ready \in 0 .. 1
         /\ request_ready = 1 => Announcing \/ serverPc = "wait"
    /\ Waiting /\ ResponseMade =>
         /\ response_ready \in 0 .. 1
         /\ response_ready = 1 => request_ready = 0 /\ serverPc = "wait"
         /\ Working => request_ready = 0 /\ response_ready = 0
    /\ clientPc = "exited" => ResponseMade /\ response_ready = 0 /\ ~Working
    /\ clientPc \in {"last", "exited"} => func_name = Empty

(* The server is through with its set-up once it has answered a call.      *)
CallInv ==
  /\ ~deceived /\ (call > 1 \/ clientPc = "show") => ~Announcing
  /\ clientPc \in {"name", "post", "wait", "asleep", "show"} =>
       call <= Len(Calls)
  /\ clientPc \in {"empty", "last", "exited"} => call = Len(Calls) + 1
  /\ clientPc \in {"open", "crashed"} => call = 1
  /\ serverPc \in {"create", "truncate"} =>
       segment # "sized" /\ clientPc \in {"open", "crashed"}

(* A request that the server has not yet worked on, and a result that the  *)
(* client has not yet seen.                                                *)
Requested == (announced /\ request_ready = 1) \/ serverPc = "lookup"
Answered == (announced /\ response_ready = 1) \/ serverPc = "post"

(* What a client that waited for the name finds in the segment.            *)
PatientInv ==
  patient =>
    /\ ~deceived
    /\ announced => ~Announcing
    /\ clientPc # "open" => announced
    /\ clientPc # "asleep"
    /\ Announcing \/ clientPc \in {"open", "crashed"} \/ clientName = ServerName
    /\ clientPc = "open" /\ serverPc \notin {"create", "truncate"} =>
         segment = "sized" /\ (Announcing \/ serverPc = "wait")
    /\ clientPc = "crashed" => clientName # ServerName
    /\ clientPc \in {"name", "post"} \/ Requested =>
         clientPc = "exited" \/ value = Calls[call].value
    /\ clientPc = "post" \/ Requested =>
         clientPc = "exited" \/ func_name = Calls[call].name
    /\ clientPc = "show" \/ Answered => result = Result(Calls[call])
    /\ Len(shown) = call - 1

CallsInv == TypeOK /\ TokenInv /\ CallInv /\ PatientInv

-----------------------------------------------------------------------------
(* The list of calls has a positive length and natural arguments.          *)
LEMMA CallsFact ==
  /\ Calls \in Seq([name : {Sqr, X2}, value : Nat])
  /\ Len(Calls) \in Nat /\ Len(Calls) > 0
  /\ \A j \in 1 .. Len(Calls) :
       Calls[j].name \in {Sqr, X2} /\ Calls[j].value \in Nat
<1>1. 2 * PerFunction \in Nat /\ 2 * PerFunction > 0
  BY PerFunctionAssumption
<1>2. \A j \in 1 .. 2 * PerFunction :
        Calls[j] \in [name : {Sqr, X2}, value : Nat]
  BY <1>1, PerFunctionAssumption DEF Calls
<1>3. DOMAIN Calls = 1 .. 2 * PerFunction
  BY DEF Calls
<1>4. Calls \in [1 .. 2 * PerFunction -> [name : {Sqr, X2}, value : Nat]]
  BY <1>2, <1>3 DEF Calls
<1>5. ASSUME NEW n \in Nat, NEW S, NEW f \in [1 .. n -> S]
      PROVE  f \in Seq(S) /\ Len(f) = n
  OBVIOUS
<1>6. Calls \in Seq([name : {Sqr, X2}, value : Nat])
      /\ Len(Calls) = 2 * PerFunction
  BY <1>1, <1>4, <1>5
<1> QED
  BY <1>1, <1>2, <1>6

LEMMA FuncFact ==
  ASSUME NEW name, NEW x \in Nat
  PROVE  Func(name, x) \in Nat
<1>1. x * x \in Nat
  BY SMT
<1> QED
  BY <1>1 DEF Func

LEMMA CallsInitInv == Init => CallsInv
<1> SUFFICES ASSUME Init PROVE CallsInv
  OBVIOUS
<1>1. TypeOK
  <2>1. 1 \in 1 .. Len(Calls) + 1 /\ <<>> \in Seq(Nat)
    BY CallsFact
  <2> QED
    BY <2>1 DEF Init, TypeOK
<1>2. TokenInv /\ CallInv
  BY CallsFact DEF Init, TokenInv, CallInv, Announcing, Working, Waiting,
       RequestMade, ResponseMade
<1>3. PatientInv
  BY DEF Init, PatientInv, Announcing, RequestMade, ResponseMade,
       Requested, Answered
<1> QED
  BY <1>1, <1>2, <1>3 DEF CallsInv

LEMMA CallsNextInv == CallsInv /\ [Next]_vars => CallsInv'
<1> SUFFICES ASSUME CallsInv, [Next]_vars PROVE CallsInv'
  OBVIOUS
<1> USE CallsFact DEF CallsInv, TypeOK, TokenInv, CallInv, PatientInv, Announcing,
        Working, Waiting, RequestMade, ResponseMade, Requested, Answered,
        segmentVars, setUp
<1>1. CASE CreateSegment
  BY <1>1 DEF CreateSegment
<1>2. CASE Truncate
  BY <1>2 DEF Truncate
<1>3. CASE CopyStructure
  BY <1>3, LeftoversAssumption DEF CopyStructure
<1>19. CASE InitRequest
  BY <1>19 DEF InitRequest
<1>20. CASE InitResponse
  BY <1>20 DEF InitResponse
<1>4. CASE Announce
  BY <1>4 DEF Announce
<1>5. CASE WaitRequest
  BY <1>5 DEF WaitRequest
<1>6. CASE Evaluate
  BY <1>6, FuncFact DEF Evaluate, Result
<1>7. CASE LookupFails
  BY <1>7 DEF LookupFails
<1>8. CASE PostResponse
  <2>1. TypeOK'
    BY <1>8 DEF PostResponse, Result
  <2>2. TokenInv'
    BY <1>8 DEF PostResponse, Result
  <2>3. CallInv'
    BY <1>8 DEF PostResponse, Result
  <2>4. PatientInv'
    BY <1>8 DEF PostResponse, Result
  <2> QED
    BY <2>1, <2>2, <2>3, <2>4
<1>9. CASE Clean
  BY <1>9 DEF Clean
<1>10. CASE OpenSegment
  BY <1>10 DEF OpenSegment
<1>11. CASE SetValue
  BY <1>11 DEF SetValue
<1>12. CASE SetName
  BY <1>12 DEF SetName
<1>13. CASE ClientPost
  <2>1. TypeOK'
    BY <1>13 DEF ClientPost
  <2>2. TokenInv'
    BY <1>13 DEF ClientPost
  <2>3. CallInv'
    BY <1>13 DEF ClientPost
  <2>4. PatientInv'
    BY <1>13 DEF ClientPost
  <2> QED
    BY <2>1, <2>2, <2>3, <2>4
<1>14. CASE WaitResponse
  <2>1. ~deceived' => ~deceived /\ ResponseMade
    BY <1>14, Zenon DEF WaitResponse
  <2>2. /\ clientPc = "wait" /\ clientPc' = "show" /\ response_ready > 0
        /\ response_ready' = response_ready - 1
        /\ UNCHANGED <<setUp, serverPc, segment, request_ready, func_name,
                       value, result, announced, call, shown>>
    BY <1>14, Zenon DEF WaitResponse
  <2>3. TypeOK'
    BY <1>14 DEF WaitResponse
  <2>4. TokenInv'
    BY <2>1, <2>2
  <2>5. CallInv'
    BY <2>1, <2>2
  <2>6. PatientInv'
    BY <1>14 DEF WaitResponse, Result
  <2> QED
    BY <2>3, <2>4, <2>5, <2>6
<1>15. CASE Show
  BY <1>15 DEF Show, Result
<1>16. CASE SetEmptyName
  BY <1>16 DEF SetEmptyName
<1>17. CASE LastPost
  BY <1>17 DEF LastPost
<1>18. CASE UNCHANGED vars
  BY <1>18 DEF vars
<1> QED
  BY <1>1, <1>2, <1>3, <1>4, <1>5, <1>6, <1>7, <1>8, <1>9, <1>10, <1>11, <1>12, <1>13, <1>14, <1>15, <1>16, <1>17, <1>18,
     <1>19, <1>20
     DEF Next, ServerStep, ClientStep

-----------------------------------------------------------------------------
(* Every variable keeps its type, whatever uninitialised memory holds.     *)
THEOREM CallsTypeCorrect == Spec => []TypeOK
<1>1. CallsInv => TypeOK
  BY DEF CallsInv
<1> QED
  BY <1>1, CallsInitInv, CallsNextInv, PTL DEF Spec

(***************************************************************************)
(* While the server reads a request and writes its result the client is in *)
(* its sem_wait with no response waiting, also a client that started too   *)
(* early or uses names the library has not, as long as it has not got      *)
(* through a sem_wait on uninitialised memory.                             *)
(***************************************************************************)
THEOREM Exclusive == Spec => []TakeTurns
<1>1. CallsInv => TakeTurns
  BY DEF CallsInv, TypeOK, TokenInv, TakeTurns, Announcing, Working, Waiting,
     RequestMade, ResponseMade
<1> QED
  BY <1>1, CallsInitInv, CallsNextInv, PTL DEF Spec

-----------------------------------------------------------------------------
(* The initial states of the two programs are initial states of Rpc.       *)
LEMMA InitRefines == Init => Protocol!Init
  BY CallsFact DEF Init, Protocol!Init, Sound

(* Each of their steps is a call, the end, a break-off, or no step of Rpc. *)
LEMMA NextRefines == CallsInv /\ [Next]_vars => [Protocol!Next]_(Protocol!vars)
<1> SUFFICES ASSUME CallsInv, [Next]_vars PROVE [Protocol!Next]_(Protocol!vars)
  OBVIOUS
<1> DEFINE phase ==
      IF ~patient \/ clientPc = "crashed" \/ serverPc = "failed" THEN "broken"
      ELSE IF clientPc = "exited" /\ serverPc = "exited" THEN "over"
      ELSE "going"
<1> DEFINE results == IF patient THEN shown ELSE <<>>
<1>1. SUFFICES \/ UNCHANGED <<Sound, results, phase>>
               \/ /\ UNCHANGED Sound
                  /\ \/ /\ phase = "going" /\ phase' = phase
                        /\ Len(results) < Len(Calls)
                        /\ results' =
                             Append(results, Result(Calls[Len(results) + 1]))
                     \/ /\ phase = "going" /\ phase' = "over"
                        /\ Len(results) = Len(Calls) /\ results' = results
                     \/ /\ phase = "going" /\ phase' = "broken"
                        /\ ~Sound /\ results' = results
  BY DEF Protocol!Next, Protocol!Call, Protocol!End, Protocol!Break,
         Protocol!vars
<1> USE CallsFact DEF CallsInv, TypeOK, TokenInv, CallInv, PatientInv, Announcing,
        Working, Waiting, RequestMade, ResponseMade, Requested, Answered,
        segmentVars, setUp, Sound
<1>2. CASE CreateSegment
  BY <1>2 DEF CreateSegment
<1>3. CASE Truncate
  BY <1>3 DEF Truncate
<1>4. CASE CopyStructure
  BY <1>4 DEF CopyStructure
<1>20. CASE InitRequest
  BY <1>20 DEF InitRequest
<1>21. CASE InitResponse
  BY <1>21 DEF InitResponse
<1>5. CASE Announce
  BY <1>5 DEF Announce
<1>6. CASE WaitRequest
  BY <1>6 DEF WaitRequest
<1>7. CASE Evaluate
  BY <1>7 DEF Evaluate
<1>8. CASE PostResponse
  BY <1>8 DEF PostResponse
<1>9. CASE SetValue
  BY <1>9 DEF SetValue
<1>10. CASE SetName
  BY <1>10 DEF SetName
<1>11. CASE ClientPost
  BY <1>11 DEF ClientPost
<1>12. CASE WaitResponse
  BY <1>12 DEF WaitResponse
<1>13. CASE SetEmptyName
  BY <1>13 DEF SetEmptyName
<1>14. CASE LastPost
  BY <1>14 DEF LastPost
<1>15. CASE LookupFails
  BY <1>15 DEF LookupFails
<1>16. CASE Clean
  BY <1>16 DEF Clean
<1>17. CASE OpenSegment
  BY <1>17 DEF OpenSegment
<1>18. CASE Show
  BY <1>18 DEF Show
<1>19. CASE UNCHANGED vars
  BY <1>19 DEF vars
<1> QED
  BY <1>2, <1>3, <1>4, <1>5, <1>6, <1>7, <1>8, <1>9, <1>10, <1>11, <1>12, <1>13,
     <1>14, <1>15, <1>16, <1>17, <1>18, <1>19, <1>20, <1>21
     DEF Next, ServerStep, ClientStep

(***************************************************************************)
(* Two programs, started in any order by anybody, whose steps seen from a  *)
(* client that waits for the name are those of a sequence of plain calls:  *)
(* the safety of the refinement ImplementsRpc.                             *)
(***************************************************************************)
THEOREM StepsOfRpc == Spec => Protocol!Init /\ [][Protocol!Next]_(Protocol!vars)
  BY CallsInitInv, CallsNextInv, InitRefines, NextRefines, PTL DEF Spec
=============================================================================
