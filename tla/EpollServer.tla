----------------------------- MODULE EpollServer -----------------------------
(***************************************************************************)
(* 2sem/inf15/inf15-1/prog.c: a single-threaded server that sends back, in *)
(* upper case, whatever its clients send. It sleeps in epoll_wait, handles *)
(* the whole batch of events it returns, and looks at the flag `end' that  *)
(* the handler of SIGTERM sets once per batch.                             *)
(*                                                                         *)
(* Clients and kernel are external. A client sends the pieces 1, 2, ... of *)
(* its text and may hang up; a socket is readable while it holds a piece   *)
(* or the end of the stream, and takes Capacity pieces the client has not  *)
(* read before a non-blocking write to it fails. Descriptors are reused.   *)
(***************************************************************************)
EXTENDS Integers, Sequences, FiniteSets

CONSTANTS
  Client,
  None,           \* no client
  MaxConnections, \* MAX_CONNECTIONS
  MaxFd,          \* how many clients the descriptor table has room for
  MaxSend,        \* how many pieces a client sends
  Capacity,       \* how many pieces an unread socket takes
  MaySignal,      \* whether SIGTERM is sent
  MayHangUp       \* whether clients may close their end

Fd == 1 .. MaxFd
Listen == "listen"   \* the event of the listening socket

ASSUME ClientAssumption ==
  IsFiniteSet(Client) /\ None \notin Client /\ Listen \notin Client
ASSUME SizeAssumption ==
  {MaxConnections, MaxFd, MaxSend, Capacity} \subseteq Nat \ {0}

VARIABLES
  end,        \* the flag set by the handler
  pc,         \* the statement of main that is next
  pending,    \* the events of this batch that are not handled yet
  conn,       \* the array conn[0 .. conn_num - 1]; a data_t is named by the
              \* client it was made for
  fd, closed, \* the members of each data_t; fd is 0 before it is made
  table,      \* the descriptor table: whose socket a descriptor is
  backlog,    \* the listen queue
  refused,    \* the clients that were told "Maximum number of connections!"
  sent,       \* how many pieces each client has sent
  left,       \* the clients that have hung up
  inbox,      \* what the server has not read yet
  echoed,     \* what the server has written to each client
  taken       \* how many of these pieces the client has read

serverVars == <<end, pc, pending, conn, fd, closed, table, refused>>
clientVars == <<sent, left, taken>>
vars == <<serverVars, backlog, clientVars, inbox, echoed>>

Init ==
  /\ end = FALSE
  /\ pc = "check"
  /\ pending = {}
  /\ conn = <<>>
  /\ fd = [c \in Client |-> 0]
  /\ closed = [c \in Client |-> FALSE]
  /\ table = [f \in Fd |-> None]
  /\ backlog = <<>>
  /\ refused = {}
  /\ sent = [c \in Client |-> 0]
  /\ left = {}
  /\ inbox = [c \in Client |-> <<>>]
  /\ echoed = [c \in Client |-> <<>>]
  /\ taken = [c \in Client |-> 0]

Gone == pc \in {"exited", "killed"}

-----------------------------------------------------------------------------
(* Clients                                                                 *)

Queued(c) == \E j \in DOMAIN backlog : backlog[j] = c
Open(c) == \E f \in Fd : table[f] = c
Connected(c) == Queued(c) \/ Open(c)

(* Each client connects once.                                              *)
Connect(c) ==
  /\ ~Gone /\ fd[c] = 0 /\ ~Queued(c)
  /\ backlog' = Append(backlog, c)
  /\ UNCHANGED <<serverVars, clientVars, inbox, echoed>>

Send(c) ==
  /\ Connected(c) /\ c \notin left
  /\ sent[c] < MaxSend
  /\ sent' = [sent EXCEPT ![c] = @ + 1]
  /\ inbox' = [inbox EXCEPT ![c] = Append(@, sent[c] + 1)]
  /\ UNCHANGED <<serverVars, backlog, left, taken, echoed>>

Read(c) ==
  /\ taken[c] < Len(echoed[c])
  /\ taken' = [taken EXCEPT ![c] = @ + 1]
  /\ UNCHANGED <<serverVars, backlog, sent, left, inbox, echoed>>

HangUp(c) ==
  /\ MayHangUp
  /\ Connected(c) /\ c \notin left
  /\ left' = left \cup {c}
  /\ UNCHANGED <<serverVars, backlog, sent, taken, inbox, echoed>>

-----------------------------------------------------------------------------
(* main                                                                    *)

(* What epoll reports: closing a descriptor takes it out of the set.       *)
Ready ==
  {c \in Client : Open(c) /\ (inbox[c] # <<>> \/ c \in left)}
    \cup (IF backlog # <<>> THEN {Listen} ELSE {})

(* The handler sets end; epoll_wait returns -1, and the batch is empty, if *)
(* the signal finds it asleep.                                             *)
Signal ==
  /\ MaySignal /\ ~end /\ ~Gone
  /\ end' = TRUE
  /\ pc' = IF pc = "wait" /\ Ready = {} THEN "check" ELSE pc
  /\ UNCHANGED <<pending, conn, fd, closed, table, refused, backlog,
                 clientVars, inbox, echoed>>

(* while (!end)                                                            *)
CheckEnd ==
  /\ pc = "check"
  /\ pc' = IF end THEN "close" ELSE "enter"
  /\ UNCHANGED <<end, pending, conn, fd, closed, table, refused, backlog,
                 clientVars, inbox, echoed>>

(* main goes from the test of end into the system call.                    *)
EnterWait ==
  /\ pc = "enter"
  /\ pc' = "wait"
  /\ UNCHANGED <<end, pending, conn, fd, closed, table, refused, backlog,
                 clientVars, inbox, echoed>>

(* MAX_EVENTS is larger than any batch.                                    *)
WaitReturns ==
  /\ pc = "wait"
  /\ Ready # {}
  /\ pending' = Ready
  /\ pc' = "batch"
  /\ UNCHANGED <<end, conn, fd, closed, table, refused, backlog,
                 clientVars, inbox, echoed>>

FreeFd == {f \in Fd : table[f] = None}

(* The lowest free descriptor.                                             *)
NewFd == CHOOSE f \in FreeFd : \A g \in FreeFd : f <= g

(* Mutant: the array is written past its end.                              *)
AcceptPastEnd ==
  /\ pc = "batch" /\ Listen \in pending
  /\ FreeFd # {}
  /\ LET c == Head(backlog) IN
       /\ fd' = [fd EXCEPT ![c] = NewFd]
       /\ table' = [table EXCEPT ![NewFd] = c]
       /\ conn' = Append(conn, c)
  /\ backlog' = Tail(backlog)
  /\ pending' = pending \ {Listen}
  /\ UNCHANGED <<end, pc, closed, refused, clientVars, inbox, echoed>>

(* process_lstn_sock and create_event_data, with room in conn.             *)
AcceptClient ==
  /\ pc = "batch" /\ Listen \in pending
  /\ FreeFd # {}
  /\ Len(conn) < MaxConnections
  /\ LET c == Head(backlog) IN
       /\ fd' = [fd EXCEPT ![c] = NewFd]
       /\ table' = [table EXCEPT ![NewFd] = c]
       /\ conn' = Append(conn, c)
  /\ backlog' = Tail(backlog)
  /\ pending' = pending \ {Listen}
  /\ UNCHANGED <<end, pc, closed, refused, clientVars, inbox, echoed>>

(* The same without room: the connection is accepted and closed again, and *)
(* its data_t is left alone.                                               *)
RefuseClient ==
  /\ pc = "batch" /\ Listen \in pending
  /\ FreeFd # {}
  /\ Len(conn) = MaxConnections
  /\ LET c == Head(backlog) IN
       /\ fd' = [fd EXCEPT ![c] = NewFd]
       /\ refused' = refused \cup {c}
  /\ backlog' = Tail(backlog)
  /\ pending' = pending \ {Listen}
  /\ UNCHANGED <<end, pc, conn, closed, table, clientVars, inbox, echoed>>

(* accept returns EMFILE; the connection stays in the queue.               *)
AcceptFails ==
  /\ pc = "batch" /\ Listen \in pending
  /\ FreeFd = {}
  /\ pending' = pending \ {Listen}
  /\ UNCHANGED <<end, pc, conn, fd, closed, table, refused, backlog,
                 clientVars, inbox, echoed>>

Room(p) == IF p \in left THEN 0 ELSE Capacity - (Len(echoed[p]) - taken[p])

(* Mutant: after a partial write everything is kept for the next time.     *)
EchoAgain(c) ==
  /\ pc = "batch" /\ c \in pending
  /\ LET p == table[fd[c]]
         fits == IF Room(p) < Len(inbox[p]) THEN Room(p) ELSE Len(inbox[p])
     IN  /\ inbox[p] # <<>>
         /\ echoed' = [echoed EXCEPT ![p] = @ \o SubSeq(inbox[p], 1, fits)]
         /\ inbox' = [inbox EXCEPT ![p] = IF fits < Len(@) THEN @ ELSE <<>>]
  /\ pending' = pending \ {c}
  /\ UNCHANGED <<end, pc, conn, fd, closed, table, refused, backlog, clientVars>>

(* Mutant: the last piece that was read is not written.                    *)
EchoAllButLast(c) ==
  /\ pc = "batch" /\ c \in pending
  /\ LET p == table[fd[c]]
         fits == IF Room(p) < Len(inbox[p]) THEN Room(p) ELSE Len(inbox[p])
     IN  /\ inbox[p] # <<>>
         /\ echoed' = [echoed EXCEPT ![p] = @ \o SubSeq(inbox[p], 1, fits - 1)]
         /\ inbox' = [inbox EXCEPT ![p] = <<>>]
  /\ pending' = pending \ {c}
  /\ UNCHANGED <<end, pc, conn, fd, closed, table, refused, backlog, clientVars>>

(* process_clnt: what is there is read and sent back, in upper case, as    *)
(* far as the socket takes it; write_all then gives up and the rest is     *)
(* forgotten.                                                              *)
Echo(c) ==
  /\ pc = "batch" /\ c \in pending
  /\ LET p == table[fd[c]]
         fits == IF Room(p) < Len(inbox[p]) THEN Room(p) ELSE Len(inbox[p])
     IN  /\ inbox[p] # <<>>
         /\ echoed' = [echoed EXCEPT ![p] = @ \o SubSeq(inbox[p], 1, fits)]
         /\ inbox' = [inbox EXCEPT ![p] = <<>>]
  /\ pending' = pending \ {c}
  /\ UNCHANGED <<end, pc, conn, fd, closed, table, refused, backlog, clientVars>>

(* Mutant: the flag of the data_t is forgotten.                            *)
CloseUnmarked(c) ==
  /\ pc = "batch" /\ c \in pending
  /\ inbox[table[fd[c]]] = <<>>
  /\ table' = [table EXCEPT ![fd[c]] = None]
  /\ pending' = pending \ {c}
  /\ UNCHANGED <<end, pc, conn, fd, closed, refused, backlog, clientVars,
                 inbox, echoed>>

(* process_clnt when read returns 0.                                       *)
CloseClient(c) ==
  /\ pc = "batch" /\ c \in pending
  /\ inbox[table[fd[c]]] = <<>>
  /\ table' = [table EXCEPT ![fd[c]] = None]
  /\ closed' = [closed EXCEPT ![c] = TRUE]
  /\ pending' = pending \ {c}
  /\ UNCHANGED <<end, pc, conn, fd, refused, backlog, clientVars, inbox, echoed>>

(* SIGPIPE: a write to a client whose reset has arrived. If nothing else   *)
(* has, read reports the reset with -1, which becomes the length to write. *)
BrokenPipe(c) ==
  /\ pc = "batch" /\ c \in pending /\ c \in left
  /\ pc' = "killed"
  /\ UNCHANGED <<end, pending, conn, fd, closed, table, refused, backlog,
                 clientVars, inbox, echoed>>

(* Mutant: main goes back to epoll_wait without looking at end.            *)
EndBatchAsleep ==
  /\ pc = "batch" /\ pending = {}
  /\ pc' = "enter"
  /\ UNCHANGED <<end, pending, conn, fd, closed, table, refused, backlog,
                 clientVars, inbox, echoed>>

EndBatch ==
  /\ pc = "batch" /\ pending = {}
  /\ pc' = "check"
  /\ UNCHANGED <<end, pending, conn, fd, closed, table, refused, backlog,
                 clientVars, inbox, echoed>>

(* Mutant: the loop stops one short.                                       *)
ToCloseButLast ==
  {fd[conn[j]] : j \in {k \in 1 .. Len(conn) - 1 : ~closed[conn[k]]}}

ToClose == {fd[conn[j]] : j \in {k \in DOMAIN conn : ~closed[conn[k]]}}

(* The connections that are not marked closed are shut down and closed.    *)
CloseAll ==
  /\ pc = "close"
  /\ table' = [f \in Fd |-> IF f \in ToClose THEN None ELSE table[f]]
  /\ pc' = "exited"
  /\ UNCHANGED <<end, pending, conn, fd, closed, refused, backlog,
                 clientVars, inbox, echoed>>

HandleEvent ==
  \/ AcceptClient \/ RefuseClient \/ AcceptFails
  \/ \E c \in Client : Echo(c) \/ CloseClient(c)

MainStep ==
  \/ CheckEnd \/ EnterWait \/ WaitReturns \/ HandleEvent \/ EndBatch
  \/ CloseAll

ClientStep(c) == Connect(c) \/ Send(c) \/ Read(c) \/ HangUp(c)

Next ==
  \/ MainStep
  \/ Signal
  \/ \E c \in Client : BrokenPipe(c) \/ ClientStep(c)

(* The server is scheduled; nobody has to connect, send or read.           *)
Spec == Init /\ [][Next]_vars /\ WF_vars(MainStep)

-----------------------------------------------------------------------------
(* Properties                                                              *)

TypeOK ==
  /\ end \in BOOLEAN
  /\ pc \in {"check", "enter", "wait", "batch", "close", "exited", "killed"}
  /\ pending \subseteq Client \cup {Listen}
  /\ pending # {} => pc \in {"batch", "killed"}
  /\ conn \in Seq(Client) /\ Len(conn) <= MaxConnections
  /\ fd \in [Client -> Fd \cup {0}]
  /\ closed \in [Client -> BOOLEAN]
  /\ table \in [Fd -> Client \cup {None}]
  /\ backlog \in Seq(Client)
  /\ refused \subseteq Client
  /\ sent \in [Client -> 0 .. MaxSend]
  /\ left \subseteq Client
  /\ inbox \in [Client -> Seq(1 .. MaxSend)]
  /\ echoed \in [Client -> Seq(1 .. MaxSend)]
  /\ taken \in [Client -> 0 .. MaxSend]

(***************************************************************************)
(* A data_t that is not marked closed owns its descriptor: although the    *)
(* kernel hands the number of a closed one out again, neither an event nor *)
(* the loop that closes everything ever touches the socket of another.     *)
(***************************************************************************)
DescriptorIsOwn ==
  /\ \A c \in pending \ {Listen} : table[fd[c]] = c
  /\ pc # "exited" =>
       \A j \in DOMAIN conn : ~closed[conn[j]] => table[fd[conn[j]]] = conn[j]

(***************************************************************************)
(* The array of connections is never written past its end, and however     *)
(* many clients were refused or have gone, when the server exits it has    *)
(* closed each connection that it ever accepted.                           *)
(***************************************************************************)
ClosesEverything ==
  /\ Len(conn) <= MaxConnections
  /\ pc = "exited" => \A f \in Fd : table[f] = None

(***************************************************************************)
(* Whatever the batches and the full sockets do, a client gets pieces of   *)
(* its own text in the order it sent them, none of them twice.             *)
(***************************************************************************)
EchoInOrder ==
  \A c \in Client :
    \A j, k \in DOMAIN echoed[c] : j < k => echoed[c][j] < echoed[c][k]

(***************************************************************************)
(* SIGTERM ends the server wherever it finds it but between the test of    *)
(* end and epoll_wait.                                                     *)
(***************************************************************************)
SignalOutsideWindowEnds == (end /\ pc \notin {"enter", "wait"}) ~> Gone

(***************************************************************************)
(* However the batches fall, what a client sends over an accepted          *)
(* connection comes back, all of it, unless it hangs up or its socket is   *)
(* full before that.                                                       *)
(***************************************************************************)
EveryPieceReturns ==
  \A c \in Client :
    (Open(c) /\ Len(echoed[c]) + Len(inbox[c]) = sent[c])
      ~> (Len(echoed[c]) = sent[c] \/ Room(c) = 0 \/ end \/ Gone)
=============================================================================
