------------------------------- MODULE ShmRpc --------------------------------
(***************************************************************************)
(* 2sem/inf19/inf19-1: server.c makes the functions of a library callable  *)
(* through a POSIX shared memory segment with two semaphores; client.c     *)
(* calls `sqr' and then `x2' on 0, 1, ... and ends with an empty name.     *)
(* lib.c is the library both are tried with.                               *)
(***************************************************************************)
EXTENDS Integers, Sequences

CONSTANTS
  PerFunction,  \* the bound 5 of the client's two loops
  Libraries,    \* what argv[1] may be: sets of names that dlsym finds
  Leftovers,    \* numbers that uninitialised memory may hold (a bound)
  ServerName,   \* the name of the segment that the server creates
  ClientNames   \* what the client may open: client.c has another name,
                \* the task wants the one the server prints

Sqr == "sqr"
X2 == "x2"
Empty == ""       \* the name that ends the interaction
Garbage == "?"    \* any other name that uninitialised memory may hold

ASSUME PerFunctionAssumption == PerFunction \in Nat \ {0}
ASSUME LeftoversAssumption == Leftovers \subseteq Nat
ASSUME LibrariesAssumption == \A lib \in Libraries : lib \subseteq {Sqr, X2}

(* lib.c                                                                   *)
Func(name, x) == IF name = Sqr THEN x * x ELSE 2 * x

(* The calls that the two loops of client.c make.                          *)
Calls ==
  [j \in 1 .. 2 * PerFunction |->
     IF j <= PerFunction THEN [name |-> Sqr, value |-> j - 1]
                         ELSE [name |-> X2, value |-> j - PerFunction - 1]]

Result(call) == Func(call.name, call.value)

VARIABLES
  library, clientName,   \* one of Libraries, one of ClientNames
  patient,        \* whether the client is started when the name is printed
  serverPc, clientPc,
  segment,        \* "none", "empty" (no length yet) or "sized"
  request_ready, response_ready,   \* the values of the semaphores
  func_name, value, result,        \* the other members of shared_data_t
  announced,      \* the name is on the server's standard output
  call,           \* the client's current call
  shown,          \* the results that the client has printed
  deceived        \* (history) a sem_wait of the client has returned before
                  \* the server had made that semaphore

segmentVars == <<request_ready, response_ready, func_name, value, result>>
setUp == <<library, clientName, patient>>
vars == <<setUp, serverPc, clientPc, segment, segmentVars, announced, call,
          shown, deceived>>

Init ==
  /\ library \in Libraries /\ clientName \in ClientNames /\ patient \in BOOLEAN
  /\ serverPc = "create" /\ clientPc = "open"
  /\ segment = "none"
  /\ request_ready = 0 /\ response_ready = 0
  /\ func_name = Empty /\ value = 0 /\ result = 0
  /\ announced = FALSE
  /\ call = 1
  /\ shown = <<>> /\ deceived = FALSE

-----------------------------------------------------------------------------
(* server.c                                                                *)

(* shm_open, after dlopen has succeeded                                    *)
CreateSegment ==
  /\ serverPc = "create"
  /\ segment' = "empty"
  /\ serverPc' = "truncate"
  /\ UNCHANGED <<setUp, clientPc, segmentVars, announced, call, shown, deceived>>

(* ftruncate and mmap                                                      *)
Truncate ==
  /\ serverPc = "truncate"
  /\ segment' = "sized"
  /\ serverPc' = "copy"
  /\ UNCHANGED <<setUp, clientPc, segmentVars, announced, call, shown, deceived>>

(* *data = new_data: every member, also the two semaphores, gets what the  *)
(* uninitialised structure holds.                                          *)
CopyStructure ==
  /\ serverPc = "copy"
  /\ request_ready' \in Leftovers /\ response_ready' \in Leftovers
  /\ func_name' \in {Sqr, X2, Empty, Garbage}
  /\ value' \in Leftovers /\ result' \in Leftovers
  /\ serverPc' = "initRequest"
  /\ UNCHANGED <<setUp, clientPc, segment, announced, call, shown, deceived>>

InitRequest ==
  /\ serverPc = "initRequest"
  /\ request_ready' = 0
  /\ serverPc' = "initResponse"
  /\ UNCHANGED <<setUp, clientPc, segment, response_ready, func_name, value,
                 result, announced, call, shown, deceived>>

(* sem_init also forgets who sleeps on the semaphore: such a client is not *)
(* woken by any later sem_post.                                            *)
InitResponse ==
  /\ serverPc = "initResponse"
  /\ response_ready' = 0
  /\ \/ UNCHANGED clientPc
     \/ clientPc = "wait" /\ clientPc' = "asleep"
  /\ serverPc' = "announce"
  /\ UNCHANGED <<setUp, segment, request_ready, func_name, value, result,
                 announced, call, shown, deceived>>

(* printf and fflush                                                       *)
Announce ==
  /\ serverPc = "announce"
  /\ announced' = TRUE
  /\ serverPc' = "wait"
  /\ UNCHANGED <<setUp, clientPc, segment, segmentVars, call, shown, deceived>>

(* Mutant: the server does not wait for a request.                         *)
WaitForNothing ==
  /\ serverPc = "wait"
  /\ serverPc' = IF func_name = Empty THEN "clean" ELSE "lookup"
  /\ UNCHANGED <<setUp, clientPc, segment, segmentVars, announced, call,
                 shown, deceived>>

(* sem_wait(&data->request_ready), and the test of func_name               *)
WaitRequest ==
  /\ serverPc = "wait"
  /\ request_ready > 0
  /\ request_ready' = request_ready - 1
  /\ serverPc' = IF func_name = Empty THEN "clean" ELSE "lookup"
  /\ UNCHANGED <<setUp, clientPc, segment, response_ready, func_name, value,
                 result, announced, call, shown, deceived>>

(* dlsym and the call                                                      *)
Evaluate ==
  /\ serverPc = "lookup"
  /\ func_name \in library
  /\ result' = Func(func_name, value)
  /\ serverPc' = "post"
  /\ UNCHANGED <<setUp, clientPc, segment, request_ready, response_ready,
                 func_name, value, announced, call, shown, deceived>>

(* dlsym finds no such function: the server returns at once.               *)
LookupFails ==
  /\ serverPc = "lookup"
  /\ func_name \notin library
  /\ serverPc' = "failed"
  /\ UNCHANGED <<setUp, clientPc, segment, segmentVars, announced, call,
                 shown, deceived>>

PostResponse ==
  /\ serverPc = "post"
  /\ response_ready' = response_ready + 1
  /\ serverPc' = "wait"
  /\ UNCHANGED <<setUp, clientPc, segment, request_ready, func_name, value,
                 result, announced, call, shown, deceived>>

(* munmap and shm_unlink; a client that is attached keeps its memory.      *)
Clean ==
  /\ serverPc = "clean"
  /\ segment' = "none"
  /\ serverPc' = "exited"
  /\ UNCHANGED <<setUp, clientPc, segmentVars, announced, call, shown, deceived>>

ServerStep ==
  \/ CreateSegment \/ Truncate \/ CopyStructure \/ InitRequest
  \/ InitResponse \/ Announce \/ WaitRequest \/ Evaluate
  \/ LookupFails \/ PostResponse \/ Clean

-----------------------------------------------------------------------------
(* client.c                                                                *)

(* shm_open, mmap and the first access: without a segment of that name, or *)
(* with one that has no length yet, the access kills the client.           *)
OpenSegment ==
  /\ clientPc = "open"
  /\ patient => announced
  /\ clientPc' = IF clientName = ServerName /\ segment = "sized"
                   THEN "value" ELSE "crashed"
  /\ UNCHANGED <<setUp, serverPc, segment, segmentVars, announced, call,
                 shown, deceived>>

(* data->value = i; past the two loops the name is emptied.                *)
SetValue ==
  /\ clientPc = "value"
  /\ IF call <= Len(Calls)
       THEN value' = Calls[call].value /\ clientPc' = "name"
       ELSE clientPc' = "empty" /\ UNCHANGED value
  /\ UNCHANGED <<setUp, serverPc, segment, request_ready, response_ready,
                 func_name, result, announced, call, shown, deceived>>

SetName ==
  /\ clientPc = "name"
  /\ func_name' = Calls[call].name
  /\ clientPc' = "post"
  /\ UNCHANGED <<setUp, serverPc, segment, request_ready, response_ready,
                 value, result, announced, call, shown, deceived>>

ClientPost ==
  /\ clientPc = "post"
  /\ request_ready' = request_ready + 1
  /\ clientPc' = "wait"
  /\ UNCHANGED <<setUp, serverPc, segment, response_ready, func_name, value,
                 result, announced, call, shown, deceived>>

(* Mutant: the client does not wait for the response.                      *)
ClientGoesOn ==
  /\ clientPc = "wait"
  /\ clientPc' = "show"
  /\ UNCHANGED <<setUp, serverPc, segment, segmentVars, announced, call,
                 shown, deceived>>

WaitResponse ==
  /\ clientPc = "wait"
  /\ response_ready > 0
  /\ response_ready' = response_ready - 1
  /\ clientPc' = "show"
  /\ deceived' = (deceived \/ serverPc \in {"copy", "initRequest", "initResponse"})
  /\ UNCHANGED <<setUp, serverPc, segment, request_ready, func_name, value,
                 result, announced, call, shown>>

Show ==
  /\ clientPc = "show"
  /\ shown' = Append(shown, result)
  /\ call' = call + 1
  /\ clientPc' = "value"
  /\ UNCHANGED <<setUp, serverPc, segment, segmentVars, announced, deceived>>

SetEmptyName ==
  /\ clientPc = "empty"
  /\ func_name' = Empty
  /\ clientPc' = "last"
  /\ UNCHANGED <<setUp, serverPc, segment, request_ready, response_ready,
                 value, result, announced, call, shown, deceived>>

LastPost ==
  /\ clientPc = "last"
  /\ request_ready' = request_ready + 1
  /\ clientPc' = "exited"
  /\ UNCHANGED <<setUp, serverPc, segment, response_ready, func_name, value,
                 result, announced, call, shown, deceived>>

ClientStep ==
  \/ OpenSegment \/ SetValue \/ SetName \/ ClientPost \/ WaitResponse
  \/ Show \/ SetEmptyName \/ LastPost

-----------------------------------------------------------------------------
Next == ServerStep \/ ClientStep

(* Both processes are scheduled, and somebody starts the client.           *)
Spec == Init /\ [][Next]_vars /\ WF_vars(ServerStep) /\ WF_vars(ClientStep)

-----------------------------------------------------------------------------
(* Properties                                                              *)

TypeOK ==
  /\ library \in Libraries /\ clientName \in ClientNames /\ patient \in BOOLEAN
  /\ serverPc \in {"create", "truncate", "copy", "initRequest",
                   "initResponse", "announce", "wait", "lookup", "post",
                   "clean", "failed", "exited"}
  /\ clientPc \in {"open", "value", "name", "post", "wait", "asleep", "show",
                   "empty", "last", "crashed", "exited"}
  /\ segment \in {"none", "empty", "sized"}
  /\ request_ready \in Nat /\ response_ready \in Nat
  /\ func_name \in {Sqr, X2, Empty, Garbage}
  /\ value \in Nat /\ result \in Nat
  /\ announced \in BOOLEAN
  /\ call \in 1 .. Len(Calls) + 1
  /\ shown \in Seq(Nat)
  /\ deceived \in BOOLEAN

(***************************************************************************)
(* The two never touch the members of the segment at the same time: while  *)
(* the server reads the request and writes the result the client is in its *)
(* sem_wait, with no response waiting for it. That holds for a client that *)
(* starts at any time, also between the three statements that initialise   *)
(* the segment, unless it gets through a sem_wait on what uninitialised    *)
(* memory left there: such a client may stay a request ahead of the server *)
(* for ever.                                                               *)
(***************************************************************************)
TakeTurns ==
  ~deceived /\ serverPc \in {"lookup", "post"} =>
    clientPc \in {"wait", "asleep"} /\ response_ready = 0

(***************************************************************************)
(* Seen from a client that waits for the name to be printed, the segment   *)
(* and its semaphores are a function call; and once the client has read    *)
(* the last result the server ends too. Only a missing function, or a      *)
(* client that opens another name, breaks that off, and not before the     *)
(* results up to there are right.                                          *)
(***************************************************************************)
Sound == patient /\ clientName = ServerName /\ library = {Sqr, X2}

Protocol == INSTANCE Rpc
  WITH sound <- Sound,
       results <- IF patient THEN shown ELSE <<>>,
       state <- IF ~patient \/ clientPc = "crashed" \/ serverPc = "failed"
                  THEN "broken"
                ELSE IF clientPc = "exited" /\ serverPc = "exited" THEN "over"
                ELSE "going"

ImplementsRpc == Protocol!Spec
=============================================================================
