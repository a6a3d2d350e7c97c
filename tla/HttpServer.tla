----------------------------- MODULE HttpServer ------------------------------
(***************************************************************************)
(* 2sem/inf14/inf14-1/prog.c: a server that answers one HTTP request after *)
(* another and is told to stop by a signal. The handler of the signal      *)
(* exits at once if the flags in_loop and accepting say that no request is *)
(* in hand, and only sets `end' otherwise; it can run between any two      *)
(* statements of main, and it interrupts a system call that is blocked     *)
(* (sa_flags is 0, so nothing is restarted).                               *)
(*                                                                         *)
(* The clients and the kernel are external: a client connects, sends its   *)
(* request line, sends the rest up to the empty line, reads what it is     *)
(* sent, and may hang up. A response is the sequence of what the server    *)
(* passed to write: a status, Length, and the numbers of the blocks.       *)
(***************************************************************************)
EXTENDS Integers, Sequences, FiniteSets

CONSTANTS
  Client,
  None,        \* no client
  Requests,    \* what clients may ask for, a subset of AllRequests
  Blocks,      \* how many buffers of 4096 bytes the file fills
  Capacity,    \* how many writes a client's socket holds before it blocks
  MaxFiles,    \* how many descriptors the process may have beside the
               \* listening socket and the standard streams
  MaxSignals,  \* how many signals are sent
  MayHangUp    \* whether clients may close their end

AllRequests == {"readable", "unreadable", "missing", "malformed"}
Status == {200, 403, 404}
Length == 0        \* stands for the Content-Length line in a response

ASSUME ClientAssumption == IsFiniteSet(Client) /\ None \notin Client
ASSUME RequestsAssumption == Requests \subseteq AllRequests
ASSUME SizeAssumption ==
  /\ Blocks \in 0 .. 199
  /\ Capacity \in Nat /\ Capacity >= 2
  /\ MaxFiles \in Nat \ {0}
  /\ MaxSignals \in Nat

VARIABLES
  in_loop, end, accepting, \* the three flags of the program
  pc,          \* the statement of main that is next
  conn,        \* the client whose socket is in cl_sock_fd
  open,        \* the clients whose socket the server has open
  block,       \* the next block of the file
  interrupted, \* the blocked system call has been interrupted
  signals,     \* how many signals have been sent
  late,        \* history: how many connections were accepted with end set
  queue,       \* the listen queue
  asks,        \* what each client asks for
  sent,        \* 0: nothing, 1: the request line, 2: up to the empty line
  left,        \* the clients that have hung up
  stream,      \* what has been written to each client
  taken        \* how many of these writes the client has read

flags == <<in_loop, end, accepting>>
history == <<signals, late>>
clientVars == <<queue, sent, left, taken>>
vars == <<flags, pc, conn, open, block, interrupted, history, clientVars,
          asks, stream>>

Init ==
  /\ in_loop = FALSE /\ end = FALSE /\ accepting = FALSE
  /\ pc = "setup"
  /\ conn = None
  /\ open = {}
  /\ block = 1
  /\ interrupted = FALSE
  /\ signals = 0 /\ late = 0
  /\ queue = <<>>
  /\ asks \in [Client -> Requests]
  /\ sent = [c \in Client |-> 0]
  /\ left = {}
  /\ stream = [c \in Client |-> <<>>]
  /\ taken = [c \in Client |-> 0]

Gone == pc \in {"exited", "killed"}

-----------------------------------------------------------------------------
(* Clients                                                                 *)

Queued(c) == \E j \in DOMAIN queue : queue[j] = c
Connected(c) == Queued(c) \/ c \in open

(* Only a client that has never connected does: one connection each.       *)
Connect(c) ==
  /\ pc # "setup" /\ ~Gone
  /\ ~Connected(c) /\ sent[c] = 0 /\ stream[c] = <<>> /\ c \notin left
  /\ queue' = Append(queue, c)
  /\ UNCHANGED <<flags, pc, conn, open, block, interrupted, history,
                 asks, sent, left, stream, taken>>

Send(c) ==
  /\ Connected(c) /\ ~Gone /\ c \notin left
  /\ sent[c] < 2
  /\ sent' = [sent EXCEPT ![c] = @ + 1]
  /\ UNCHANGED <<flags, pc, conn, open, block, interrupted, history,
                 queue, asks, left, stream, taken>>

Read(c) ==
  /\ c \notin left
  /\ taken[c] < Len(stream[c])
  /\ taken' = [taken EXCEPT ![c] = @ + 1]
  /\ UNCHANGED <<flags, pc, conn, open, block, interrupted, history,
                 queue, asks, sent, left, stream>>

HangUp(c) ==
  /\ MayHangUp
  /\ Connected(c) /\ ~Gone /\ c \notin left
  /\ left' = left \cup {c}
  /\ UNCHANGED <<flags, pc, conn, open, block, interrupted, history,
                 queue, asks, sent, stream, taken>>

-----------------------------------------------------------------------------
(* signal_handler                                                          *)

BufferFull(c) == Len(stream[c]) - taken[c] >= Capacity

(* main sleeps in fscanf or in a write of the file.                        *)
Blocked ==
  \/ pc = "scan" /\ sent[conn] = 0 /\ conn \notin left
  \/ pc = "body" /\ block <= Blocks /\ BufferFull(conn) /\ conn \notin left

Signal ==
  /\ signals < MaxSignals
  /\ ~Gone
  /\ signals' = signals + 1
  /\ end' = TRUE
  /\ pc' = IF ~in_loop \/ accepting THEN "exited" ELSE pc
  /\ interrupted' = (interrupted \/ Blocked)
  /\ UNCHANGED <<in_loop, accepting, conn, open, block, late, clientVars,
                 asks, stream>>

-----------------------------------------------------------------------------
(* main                                                                    *)

(* Where every turn of the loop starts again; cl_sock_fd goes out of scope.*)
Continue ==
  /\ pc' = "check"
  /\ conn' = None

(* listen has succeeded; in_loop = 1.                                      *)
EnterLoop ==
  /\ pc = "setup"
  /\ in_loop' = TRUE
  /\ pc' = "check"
  /\ UNCHANGED <<end, accepting, conn, open, block, interrupted, history,
                 clientVars, asks, stream>>

(* Mutant: the loop never looks at end.                                    *)
LoopForever ==
  /\ pc = "check"
  /\ pc' = "arm"
  /\ UNCHANGED <<flags, conn, open, block, interrupted, history, clientVars,
                 asks, stream>>

(* while (!end)                                                            *)
CheckEnd ==
  /\ pc = "check"
  /\ pc' = IF end THEN "exited" ELSE "arm"
  /\ UNCHANGED <<flags, conn, open, block, interrupted, history, clientVars,
                 asks, stream>>

(* accepting = 1                                                           *)
Arm ==
  /\ pc = "arm"
  /\ accepting' = TRUE
  /\ pc' = "accept"
  /\ UNCHANGED <<in_loop, end, conn, open, block, interrupted, history,
                 clientVars, asks, stream>>

(* accept takes the oldest connection, when there is one and a descriptor. *)
Accept ==
  /\ pc = "accept"
  /\ Cardinality(open) < MaxFiles
  /\ queue # <<>>
  /\ conn' = Head(queue)
  /\ open' = open \cup {Head(queue)}
  /\ queue' = Tail(queue)
  /\ late' = IF end THEN late + 1 ELSE late
  /\ pc' = "disarm"
  /\ UNCHANGED <<flags, block, interrupted, signals, asks, sent, left,
                 stream, taken>>

(* accept returns EMFILE, without waiting for a connection.                *)
AcceptFails ==
  /\ pc = "accept"
  /\ Cardinality(open) >= MaxFiles
  /\ pc' = "disarm"
  /\ UNCHANGED <<flags, conn, open, block, interrupted, history, clientVars,
                 asks, stream>>

(* accepting = 0, and the test of cl_sock_fd.                              *)
Disarm ==
  /\ pc = "disarm"
  /\ accepting' = FALSE
  /\ pc' = IF conn = None THEN "check" ELSE "scan"
  /\ UNCHANGED <<in_loop, end, conn, open, block, interrupted, history,
                 clientVars, asks, stream>>

(* fscanf has the request line: it does not wait for the empty line.       *)
Scan ==
  /\ pc = "scan" /\ ~interrupted
  /\ sent[conn] > 0 /\ asks[conn] # "malformed"
  /\ pc' = "look"
  /\ UNCHANGED <<flags, conn, open, block, interrupted, history, clientVars,
                 asks, stream>>

(* fscanf returns 0 for what is no request, and EOF when the client hung   *)
(* up or a signal came. The socket stays open.                             *)
ScanFails ==
  /\ pc = "scan"
  /\ \/ interrupted
     \/ sent[conn] > 0 /\ asks[conn] = "malformed"
     \/ sent[conn] = 0 /\ conn \in left
  /\ interrupted' = FALSE
  /\ Continue
  /\ UNCHANGED <<flags, open, block, history, clientVars, asks, stream>>

Write(item) == stream' = [stream EXCEPT ![conn] = Append(@, item)]

(* access or fopen fails: one line is sent, and the socket stays open.     *)
Refuse(status) ==
  /\ Write(status)
  /\ Continue
  /\ UNCHANGED <<flags, open, block, interrupted, history, clientVars, asks>>

NotFound == pc = "look" /\ asks[conn] = "missing" /\ Refuse(404)
Forbidden == pc = "look" /\ asks[conn] = "unreadable" /\ Refuse(403)

(* The file is there and readable, but fopen has no descriptor left.       *)
CannotOpen ==
  /\ pc = "look"
  /\ asks[conn] = "readable"
  /\ Cardinality(open) >= MaxFiles
  /\ Refuse(404)

Ok ==
  /\ pc = "look"
  /\ asks[conn] = "readable"
  /\ Cardinality(open) < MaxFiles
  /\ Write(200)
  /\ pc' = "size"
  /\ UNCHANGED <<flags, conn, open, block, interrupted, history, clientVars,
                 asks>>

(* Content-Length, the empty line, and rewind.                             *)
WriteSize ==
  /\ pc = "size"
  /\ Write(Length)
  /\ block' = 1
  /\ pc' = "body"
  /\ UNCHANGED <<flags, conn, open, interrupted, history, clientVars, asks>>

(* Mutant: the end of the file is not written.                             *)
WriteAllButLast ==
  /\ pc = "body" /\ ~interrupted
  /\ block <= Blocks
  /\ ~BufferFull(conn) \/ conn \in left
  /\ IF block < Blocks THEN Write(block) ELSE UNCHANGED stream
  /\ block' = block + 1
  /\ UNCHANGED <<flags, pc, conn, open, interrupted, history, clientVars, asks>>

WriteBlock ==
  /\ pc = "body" /\ ~interrupted
  /\ block <= Blocks
  /\ ~BufferFull(conn) \/ conn \in left
  /\ Write(block)
  /\ block' = block + 1
  /\ UNCHANGED <<flags, pc, conn, open, interrupted, history, clientVars, asks>>

(* write returns -1 or less than it was given, and the rest of the block   *)
(* is not written again.                                                   *)
LoseBlock ==
  /\ pc = "body" /\ interrupted
  /\ interrupted' = FALSE
  /\ block' = block + 1
  /\ UNCHANGED <<flags, pc, conn, open, history, clientVars, asks, stream>>

(* fclose closes the socket; shutdown and close then find it closed.       *)
Close ==
  /\ pc = "body" /\ ~interrupted
  /\ block > Blocks
  /\ open' = open \ {conn}
  /\ Continue
  /\ UNCHANGED <<flags, block, interrupted, history, clientVars, asks, stream>>

(* SIGPIPE: a write to a client whose reset has arrived.                   *)
BrokenPipe ==
  /\ pc \in {"look", "size", "body"} /\ ~interrupted
  /\ pc = "body" => block <= Blocks
  /\ conn \in left
  /\ pc' = "killed"
  /\ UNCHANGED <<flags, conn, open, block, interrupted, history, clientVars,
                 asks, stream>>

MainStep ==
  \/ EnterLoop \/ CheckEnd \/ Arm \/ Accept \/ AcceptFails \/ Disarm
  \/ Scan \/ ScanFails \/ NotFound \/ Forbidden \/ CannotOpen
  \/ Ok \/ WriteSize \/ WriteBlock \/ LoseBlock \/ Close

ClientStep(c) == Connect(c) \/ Send(c) \/ Read(c) \/ HangUp(c)

(* A server with no client left waits in accept for ever.                  *)
Idle == (Gone \/ pc = "accept" \/ Blocked) /\ UNCHANGED vars

Next == MainStep \/ Signal \/ BrokenPipe \/ (\E c \in Client : ClientStep(c)) \/ Idle

(***************************************************************************)
(* The server is scheduled. Of the clients it is assumed only that one who *)
(* has connected goes on to send its request and to read its answer; none  *)
(* has to connect, and no signal has to be sent.                           *)
(***************************************************************************)
Fairness ==
  /\ WF_vars(MainStep)
  /\ \A c \in Client : WF_vars(Send(c)) /\ WF_vars(Read(c))

Spec == Init /\ [][Next]_vars /\ Fairness

-----------------------------------------------------------------------------
(* Properties                                                              *)

TypeOK ==
  /\ in_loop \in BOOLEAN /\ end \in BOOLEAN /\ accepting \in BOOLEAN
  /\ pc \in {"setup", "check", "arm", "accept", "disarm", "scan", "look",
             "size", "body", "exited", "killed"}
  /\ conn \in Client \cup {None}
  /\ pc \in {"scan", "look", "size", "body"} => conn \in open
  /\ open \in SUBSET Client
  /\ block \in 1 .. Blocks + 1
  /\ interrupted \in BOOLEAN
  /\ interrupted => pc \in {"scan", "body"}
  /\ signals \in 0 .. MaxSignals
  /\ late \in Nat
  /\ queue \in Seq(Client)
  /\ asks \in [Client -> Requests]
  /\ sent \in [Client -> 0 .. 2]
  /\ left \in SUBSET Client
  /\ stream \in [Client -> Seq(Status \cup {Length} \cup (1 .. Blocks))]
  /\ taken \in [Client -> Nat]
  /\ \A c \in Client : taken[c] <= Len(stream[c])

(* What the task wants c to be sent.                                       *)
Answer(c) ==
  CASE asks[c] = "readable" ->
         <<200, Length>> \o [b \in 1 .. Blocks |-> b]
    [] asks[c] = "unreadable" -> <<403>>
    [] asks[c] = "missing" -> <<404>>
    [] asks[c] = "malformed" -> <<>>

(***************************************************************************)
(* However the signals fall, at most one connection is accepted once one   *)
(* of them has been handled.                                               *)
(***************************************************************************)
AtMostOneLate == late <= 1

(***************************************************************************)
(* Until a signal is handled, whoever has been let go by the server and    *)
(* has not hung up was sent exactly its answer, nothing lost or repeated;  *)
(* only a server that has leaked its last descriptor says "not found" of a *)
(* file that is there.                                                     *)
(***************************************************************************)
AnsweredInFull ==
  \A c \in Client :
    ~end /\ sent[c] > 0 /\ ~Queued(c) /\ c # conn /\ c \notin left =>
      \/ stream[c] = Answer(c)
      \/ /\ asks[c] = "readable" /\ stream[c] = <<404>>
         /\ Cardinality(open) = MaxFiles

(***************************************************************************)
(* A signal that is handled while a connection is in hand does end the     *)
(* server: it finishes or gives up that connection and takes no other.     *)
(***************************************************************************)
BusySignalEnds == (end /\ conn # None /\ late = 0) ~> Gone

(***************************************************************************)
(* "After SIGTERM or SIGINT the server must finish processing the current  *)
(* connection, if there is one": no accepted connection is abandoned.      *)
(***************************************************************************)
FinishesAccepted == pc = "exited" => conn = None
=============================================================================
