-------------------------- MODULE EpollServerProofs --------------------------
(***************************************************************************)
(* The safety of EpollServer for any numbers of clients, descriptors and   *)
(* pieces, and any size of the array and of the sockets.                   *)
(*                                                                         *)
(* A data_t keeps the number of its descriptor after the descriptor has    *)
(* been closed and given to somebody else; the events of a batch and the   *)
(* last loop name data_t's. What makes them safe is that a number in the   *)
(* table leads back to the data_t that is not marked closed (TableInv),    *)
(* and that a client is in the listen queue or has a number, never both    *)
(* (QueueInv). The order of the pieces needs what has been read and what   *)
(* has not: together they are an increasing part of what was sent.         *)
(***************************************************************************)
EXTENDS EpollServer, FiniteSetTheorems, SequenceTheorems,
        WellFoundedInduction, TLAPS

(* Who is in the queue is there once and has had no descriptor.            *)
QueueInv ==
  /\ \A j, k \in DOMAIN backlog : backlog[j] = backlog[k] => j = k
  /\ \A j \in DOMAIN backlog : fd[backlog[j]] = 0
  /\ Listen \in pending => backlog # <<>>

(* A descriptor and a data_t that is not closed lead to each other.        *)
TableInv ==
  /\ \A c \in Client : fd[c] = 0 => ~closed[c]
  /\ \A f \in Fd : table[f] # None =>
       /\ fd[table[f]] = f
       /\ ~closed[table[f]]
       /\ \E j \in DOMAIN conn : conn[j] = table[f]
  /\ \A j \in DOMAIN conn :
       /\ fd[conn[j]] \in Fd
       /\ pc # "exited" /\ ~closed[conn[j]] => table[fd[conn[j]]] = conn[j]
  /\ \A c \in pending \ {Listen} : fd[c] \in Fd /\ table[fd[c]] = c
  /\ pc = "exited" => \A f \in Fd : table[f] = None

(* The pieces of a client that were written and not read, in this order,   *)
(* are increasing.                                                         *)
Increasing(s) == \A j, k \in DOMAIN s : j < k => s[j] < s[k]

Ordered(s, t, m) ==
  /\ Increasing(s) /\ Increasing(t)
  /\ \A j \in DOMAIN s, k \in DOMAIN t : s[j] < t[k]
  /\ \A k \in DOMAIN t : t[k] <= m
  /\ \A k \in DOMAIN s : s[k] <= m
  /\ Len(s) + Len(t) <= m

PieceInv ==
  \A c \in Client :
    /\ Ordered(echoed[c], inbox[c], sent[c])
    /\ taken[c] <= Len(echoed[c])

IInv == TypeOK /\ QueueInv /\ TableInv /\ PieceInv
-----------------------------------------------------------------------------
LEMMA Constants ==
  /\ None \notin Client /\ Listen \notin Client
  /\ MaxConnections \in Nat /\ MaxFd \in Nat /\ MaxSend \in Nat
  /\ Capacity \in Nat
  /\ \A f \in Fd : f \in Nat /\ f # 0
  BY ClientAssumption, SizeAssumption DEF Fd

(* There is a lowest free descriptor.                                      *)
LEMMA NewFdFact ==
  ASSUME FreeFd # {}
  PROVE  NewFd \in Fd /\ table[NewFd] = None
<1>1. FreeFd \subseteq Nat
  BY Constants DEF FreeFd
<1>2. \E f \in FreeFd : \A g \in FreeFd : ~(<<g, f>> \in OpToRel(<, Nat))
  BY <1>1, NatLessThanWellFounded, WFMin
<1>3. \E f \in FreeFd : \A g \in FreeFd : f <= g
  <2>1. \A x, y \in Nat : x < y => <<x, y>> \in OpToRel(<, Nat)
    BY DEF OpToRel
  <2>2. \A x, y \in Nat : ~(x < y) => y <= x
    OBVIOUS
  <2> QED
    BY <1>1, <1>2, <2>1, <2>2
<1>4. NewFd \in FreeFd
  BY <1>3 DEF NewFd
<1> QED
  BY <1>4 DEF FreeFd

(* The oldest connection.                                                  *)
LEMMA HeadFact ==
  ASSUME TypeOK, QueueInv, Listen \in pending
  PROVE  /\ Head(backlog) \in Client /\ fd[Head(backlog)] = 0
         /\ 1 \in DOMAIN backlog /\ Head(backlog) = backlog[1]
         /\ Tail(backlog) \in Seq(Client)
         /\ \A j \in DOMAIN Tail(backlog) :
              /\ j \in Nat /\ j + 1 \in DOMAIN backlog /\ j + 1 # 1
              /\ Tail(backlog)[j] = backlog[j + 1]
<1>1. backlog \in Seq(Client) /\ backlog # <<>>
  BY DEF TypeOK, QueueInv
<1>2. /\ Head(backlog) \in Client
      /\ 1 \in DOMAIN backlog /\ Head(backlog) = backlog[1]
  BY <1>1
<1>3. /\ Tail(backlog) \in Seq(Client)
      /\ \A j \in DOMAIN Tail(backlog) :
           /\ j \in Nat /\ j + 1 \in DOMAIN backlog /\ j + 1 # 1
           /\ Tail(backlog)[j] = backlog[j + 1]
  BY <1>1
<1> QED
  BY <1>2, <1>3 DEF QueueInv

(* conn grows at its end.                                                  *)
LEMMA ConnFact ==
  ASSUME TypeOK, NEW c \in Client
  PROVE  /\ Append(conn, c) \in Seq(Client)
         /\ Len(Append(conn, c)) = Len(conn) + 1
         /\ \A j \in DOMAIN conn :
              j \in DOMAIN Append(conn, c) /\ Append(conn, c)[j] = conn[j]
         /\ \A j \in DOMAIN Append(conn, c) :
              \/ j \in DOMAIN conn /\ Append(conn, c)[j] = conn[j]
              \/ Append(conn, c)[j] = c
         /\ \E j \in DOMAIN Append(conn, c) : Append(conn, c)[j] = c
<1>1. conn \in Seq(Client)
  BY DEF TypeOK
<1> QED
  BY <1>1, AppendProperties

(* What is read of a client is written to the same client, a beginning of  *)
(* it, and the rest is forgotten.                                          *)
LEMMA EchoFact ==
  ASSUME TypeOK, TableInv, NEW c \in Client, Echo(c)
  PROVE  \E n \in 0 .. Len(inbox[c]) :
           /\ echoed' = [echoed EXCEPT ![c] = @ \o SubSeq(inbox[c], 1, n)]
           /\ inbox' = [inbox EXCEPT ![c] = <<>>]
<1>1. table[fd[c]] = c
  BY Constants DEF Echo, TableInv
<1> DEFINE m == Len(inbox[c])
           fits == IF Room(c) < m THEN Room(c) ELSE m
<1>2. m \in Nat /\ Room(c) \in Int
  BY Constants DEF TypeOK, Room
<1>3. /\ echoed' = [echoed EXCEPT ![c] = @ \o SubSeq(inbox[c], 1, fits)]
      /\ inbox' = [inbox EXCEPT ![c] = <<>>]
  BY <1>1 DEF Echo
<1>4. fits \in Int /\ fits <= m
  BY <1>2
<1> HIDE DEF fits
<1>5. \E n \in 0 .. m : SubSeq(inbox[c], 1, fits) = SubSeq(inbox[c], 1, n)
  <2>1. CASE fits >= 0
    <3>1. fits \in 0 .. m
      BY <1>2, <1>4, <2>1
    <3> QED
      BY <3>1
  <2>2. CASE fits < 0
    <3>1. /\ SubSeq(inbox[c], 1, fits) = <<>>
          /\ SubSeq(inbox[c], 1, 0) = <<>>
      BY <1>4, <2>2, SubSeqEmpty
    <3>2. 0 \in 0 .. m
      BY <1>2
    <3> QED
      BY <3>1, <3>2
  <2> QED
    BY <1>4, <2>1, <2>2
<1> QED
  BY <1>3, <1>5

LEMMA JoinFact ==
  ASSUME NEW S, NEW s \in Seq(S), NEW t \in Seq(S), NEW n \in 0 .. Len(t)
  PROVE  /\ s \o SubSeq(t, 1, n) \in Seq(S)
         /\ Len(s \o SubSeq(t, 1, n)) = Len(s) + n
         /\ \A j \in 1 .. Len(s) + n : (s \o SubSeq(t, 1, n))[j] =
              IF j <= Len(s) THEN s[j] ELSE t[j - Len(s)]
<1>1. \A j \in 1 .. n : t[j] \in S
  OBVIOUS
<1>2. /\ SubSeq(t, 1, n) \in Seq(S)
      /\ Len(SubSeq(t, 1, n)) = n
      /\ \A j \in 1 .. n : SubSeq(t, 1, n)[j] = t[j]
  BY <1>1, SubSeqProperties
<1> QED
  BY <1>2, ConcatProperties

LEMMA InitIInv == Init => IInv
<1> SUFFICES ASSUME Init PROVE IInv
  OBVIOUS
<1>1. /\ <<>> \in Seq(Client) /\ <<>> \in Seq(1 .. MaxSend)
      /\ Len(<<>>) = 0 /\ DOMAIN <<>> = {}
  OBVIOUS
<1>2. TypeOK
  <2>1. 0 \in 0 .. MaxSend /\ Len(conn) <= MaxConnections
    BY <1>1, Constants DEF Init
  <2>2. /\ inbox \in [Client -> Seq(1 .. MaxSend)]
        /\ echoed \in [Client -> Seq(1 .. MaxSend)]
        /\ taken \in [Client -> 0 .. MaxSend]
        /\ sent \in [Client -> 0 .. MaxSend]
    BY <1>1, <2>1 DEF Init
  <2>3. /\ fd \in [Client -> Fd \cup {0}]
        /\ closed \in [Client -> BOOLEAN]
        /\ table \in [Fd -> Client \cup {None}]
    BY DEF Init
  <2> QED
    BY <1>1, <2>1, <2>2, <2>3 DEF Init, TypeOK
<1>3. QueueInv
  BY <1>1 DEF Init, QueueInv
<1>4. TableInv
  BY <1>1 DEF Init, TableInv
<1>5. PieceInv
  BY <1>1 DEF Init, PieceInv, Ordered, Increasing
<1> QED
  BY <1>2, <1>3, <1>4, <1>5 DEF IInv

(* Types are kept.                                                         *)
LEMMA TypeStep ==
  ASSUME TypeOK, QueueInv, TableInv, PieceInv, [Next]_vars
  PROVE  TypeOK'
<1> USE Constants DEF TypeOK, clientVars, serverVars
<1>1. CASE CheckEnd
  BY <1>1 DEF CheckEnd
<1>2. CASE EnterWait
  BY <1>2 DEF EnterWait
<1>3. CASE WaitReturns
  BY <1>3 DEF WaitReturns, Ready
<1>4. CASE AcceptClient
  <2>1. /\ Head(backlog) \in Client /\ Tail(backlog) \in Seq(Client)
        /\ NewFd \in Fd
    BY <1>4, HeadFact, NewFdFact DEF AcceptClient
  <2>2. conn' \in Seq(Client) /\ Len(conn') <= MaxConnections
    BY <1>4, <2>1, ConnFact DEF AcceptClient
  <2> QED
    BY <1>4, <2>1, <2>2 DEF AcceptClient
<1>5. CASE RefuseClient
  <2>1. /\ Head(backlog) \in Client /\ Tail(backlog) \in Seq(Client)
        /\ NewFd \in Fd
    BY <1>5, HeadFact, NewFdFact DEF RefuseClient
  <2> QED
    BY <1>5, <2>1 DEF RefuseClient
<1>6. CASE AcceptFails
  BY <1>6 DEF AcceptFails
<1>7. CASE EndBatch
  BY <1>7 DEF EndBatch
<1>8. CASE CloseAll
  BY <1>8 DEF CloseAll
<1>9. CASE Signal
  BY <1>9 DEF Signal
<1>10. CASE UNCHANGED vars
  BY <1>10 DEF vars
<1>11. ASSUME NEW c \in Client, Echo(c) PROVE TypeOK'
  <2>1. PICK n \in 0 .. Len(inbox[c]) :
          /\ echoed' = [echoed EXCEPT ![c] = @ \o SubSeq(inbox[c], 1, n)]
          /\ inbox' = [inbox EXCEPT ![c] = <<>>]
    BY <1>11, EchoFact
  <2>2. echoed[c] \o SubSeq(inbox[c], 1, n) \in Seq(1 .. MaxSend)
    BY JoinFact
  <2>3. <<>> \in Seq(1 .. MaxSend)
    OBVIOUS
  <2>4. /\ echoed' \in [Client -> Seq(1 .. MaxSend)]
        /\ inbox' \in [Client -> Seq(1 .. MaxSend)]
    BY <2>1, <2>2, <2>3
  <2>5. /\ UNCHANGED <<end, pc, conn, fd, closed, table, refused, backlog,
                       clientVars>>
        /\ pending' = pending \ {c}
    BY <1>11 DEF Echo
  <2> QED
    BY <2>4, <2>5
<1>12. ASSUME NEW c \in Client, CloseClient(c) PROVE TypeOK'
  BY <1>12 DEF CloseClient
<1>13. ASSUME NEW c \in Client, BrokenPipe(c) PROVE TypeOK'
  BY <1>13 DEF BrokenPipe
<1>14. ASSUME NEW c \in Client, Connect(c) PROVE TypeOK'
  <2>1. Append(backlog, c) \in Seq(Client)
    BY AppendProperties
  <2> QED
    BY <1>14, <2>1 DEF Connect
<1>15. ASSUME NEW c \in Client, Send(c) PROVE TypeOK'
  <2>1. sent[c] + 1 \in 1 .. MaxSend
    BY <1>15 DEF Send
  <2>2. Append(inbox[c], sent[c] + 1) \in Seq(1 .. MaxSend)
    BY <2>1, AppendProperties
  <2> QED
    BY <1>15, <2>1, <2>2 DEF Send
<1>16. ASSUME NEW c \in Client, Read(c) PROVE TypeOK'
  <2>1. taken[c] + 1 \in 0 .. MaxSend
    BY <1>16 DEF Read, PieceInv, Ordered
  <2> QED
    BY <1>16, <2>1 DEF Read
<1>17. ASSUME NEW c \in Client, HangUp(c) PROVE TypeOK'
  BY <1>17 DEF HangUp
<1> QED
  BY <1>1, <1>2, <1>3, <1>4, <1>5, <1>6, <1>7, <1>8, <1>9,
     <1>10, <1>11, <1>12, <1>13, <1>14, <1>15, <1>16, <1>17
     DEF Next, MainStep, HandleEvent, ClientStep

LEMMA LastOrBefore ==
  ASSUME NEW n \in Nat, NEW j \in 1 .. n + 1
  PROVE  j \in 1 .. n \/ j = n + 1
OBVIOUS

(* The listen queue.                                                       *)
LEMMA QueueStep ==
  ASSUME TypeOK, QueueInv, [Next]_vars
  PROVE  QueueInv'
<1> USE Constants DEF TypeOK, QueueInv, clientVars, serverVars
<1>1. CASE CheckEnd
  BY <1>1 DEF CheckEnd
<1>2. CASE EnterWait
  BY <1>2 DEF EnterWait
<1>3. CASE WaitReturns
  BY <1>3 DEF WaitReturns, Ready
<1>4. CASE AcceptClient
  <2>1. /\ Head(backlog) = backlog[1] /\ 1 \in DOMAIN backlog
        /\ \A j \in DOMAIN Tail(backlog) :
             /\ j \in Nat /\ j + 1 \in DOMAIN backlog /\ j + 1 # 1
             /\ Tail(backlog)[j] = backlog[j + 1]
    BY <1>4, HeadFact DEF AcceptClient
  <2>2. /\ backlog' = Tail(backlog) /\ Listen \notin pending'
        /\ \A d \in Client : d # Head(backlog) => fd'[d] = fd[d]
    BY <1>4 DEF AcceptClient
  <2>3. \A j, k \in DOMAIN backlog' : backlog'[j] = backlog'[k] => j = k
    <3> SUFFICES ASSUME NEW j \in DOMAIN backlog', NEW k \in DOMAIN backlog',
                        backlog'[j] = backlog'[k]
                 PROVE  j = k
      OBVIOUS
    <3>1. j + 1 = k + 1 /\ j \in Nat /\ k \in Nat
      BY <2>1, <2>2
    <3> QED
      BY <3>1
  <2>4. \A j \in DOMAIN backlog :
          j # 1 => backlog[j] # Head(backlog) /\ backlog[j] \in Client
    BY <2>1
  <2>5. \A j \in DOMAIN backlog' : fd'[backlog'[j]] = 0
    <3> SUFFICES ASSUME NEW j \in DOMAIN backlog'
                 PROVE  fd'[backlog'[j]] = 0
      OBVIOUS
    <3>1. j + 1 \in DOMAIN backlog /\ j + 1 # 1 /\ backlog'[j] = backlog[j + 1]
      BY <2>1, <2>2
    <3>2. backlog[j + 1] # Head(backlog) /\ backlog[j + 1] \in Client
      BY <2>4, <3>1
    <3> QED
      BY <2>2, <3>1, <3>2
  <2> QED
    BY <2>2, <2>3, <2>5
<1>5. CASE RefuseClient
  <2>1. /\ Head(backlog) = backlog[1] /\ 1 \in DOMAIN backlog
        /\ \A j \in DOMAIN Tail(backlog) :
             /\ j \in Nat /\ j + 1 \in DOMAIN backlog /\ j + 1 # 1
             /\ Tail(backlog)[j] = backlog[j + 1]
    BY <1>5, HeadFact DEF RefuseClient
  <2>2. /\ backlog' = Tail(backlog) /\ Listen \notin pending'
        /\ \A d \in Client : d # Head(backlog) => fd'[d] = fd[d]
    BY <1>5 DEF RefuseClient
  <2>3. \A j, k \in DOMAIN backlog' : backlog'[j] = backlog'[k] => j = k
    <3> SUFFICES ASSUME NEW j \in DOMAIN backlog', NEW k \in DOMAIN backlog',
                        backlog'[j] = backlog'[k]
                 PROVE  j = k
      OBVIOUS
    <3>1. j + 1 = k + 1 /\ j \in Nat /\ k \in Nat
      BY <2>1, <2>2
    <3> QED
      BY <3>1
  <2>4. \A j \in DOMAIN backlog :
          j # 1 => backlog[j] # Head(backlog) /\ backlog[j] \in Client
    BY <2>1
  <2>5. \A j \in DOMAIN backlog' : fd'[backlog'[j]] = 0
    <3> SUFFICES ASSUME NEW j \in DOMAIN backlog'
                 PROVE  fd'[backlog'[j]] = 0
      OBVIOUS
    <3>1. j + 1 \in DOMAIN backlog /\ j + 1 # 1 /\ backlog'[j] = backlog[j + 1]
      BY <2>1, <2>2
    <3>2. backlog[j + 1] # Head(backlog) /\ backlog[j + 1] \in Client
      BY <2>4, <3>1
    <3> QED
      BY <2>2, <3>1, <3>2
  <2> QED
    BY <2>2, <2>3, <2>5
<1>6. CASE AcceptFails
  BY <1>6 DEF AcceptFails
<1>7. CASE EndBatch
  BY <1>7 DEF EndBatch
<1>8. CASE CloseAll
  BY <1>8 DEF CloseAll
<1>9. CASE Signal
  BY <1>9 DEF Signal
<1>10. CASE UNCHANGED vars
  BY <1>10 DEF vars
<1>11. ASSUME NEW c \in Client, Echo(c) PROVE QueueInv'
  BY <1>11 DEF Echo
<1>12. ASSUME NEW c \in Client, CloseClient(c) PROVE QueueInv'
  BY <1>12 DEF CloseClient
<1>13. ASSUME NEW c \in Client, BrokenPipe(c) PROVE QueueInv'
  BY <1>13 DEF BrokenPipe
<1>14. ASSUME NEW c \in Client, Connect(c) PROVE QueueInv'
  <2>1. /\ Len(backlog) \in Nat
        /\ \A j \in DOMAIN backlog' : j \in 1 .. Len(backlog) + 1
        /\ \A j \in 1 .. Len(backlog) :
             j \in DOMAIN backlog /\ backlog'[j] = backlog[j]
        /\ backlog'[Len(backlog) + 1] = c
        /\ Len(backlog') = Len(backlog) + 1
    BY <1>14, AppendProperties DEF Connect
  <2>2. \A j \in DOMAIN backlog : backlog[j] # c
    BY <1>14 DEF Connect, Queued
  <2>3. \A j, k \in DOMAIN backlog' : backlog'[j] = backlog'[k] => j = k
    <3> SUFFICES ASSUME NEW j \in DOMAIN backlog', NEW k \in DOMAIN backlog',
                        backlog'[j] = backlog'[k]
                 PROVE  j = k
      OBVIOUS
    <3>1. CASE j \in 1 .. Len(backlog) /\ k \in 1 .. Len(backlog)
      BY <2>1, <3>1
    <3>2. CASE j = Len(backlog) + 1 /\ k \in 1 .. Len(backlog)
      BY <2>1, <2>2, <3>2
    <3>3. CASE k = Len(backlog) + 1 /\ j \in 1 .. Len(backlog)
      BY <2>1, <2>2, <3>3
    <3>4. /\ Len(backlog) \in Nat
          /\ j \in 1 .. Len(backlog) + 1 /\ k \in 1 .. Len(backlog) + 1
      BY <2>1, Zenon
    <3>5. /\ j \in 1 .. Len(backlog) \/ j = Len(backlog) + 1
          /\ k \in 1 .. Len(backlog) \/ k = Len(backlog) + 1
      BY <3>4, LastOrBefore, Zenon
    <3> QED
      BY <3>1, <3>2, <3>3, <3>5, Zenon
  <2>4. \A j \in DOMAIN backlog' : fd'[backlog'[j]] = 0
    BY <1>14, <2>1 DEF Connect
  <2>5. backlog' # <<>>
    BY <2>1
  <2> QED
    BY <2>3, <2>4, <2>5
<1>15. ASSUME NEW c \in Client, Send(c) PROVE QueueInv'
  BY <1>15 DEF Send
<1>16. ASSUME NEW c \in Client, Read(c) PROVE QueueInv'
  BY <1>16 DEF Read
<1>17. ASSUME NEW c \in Client, HangUp(c) PROVE QueueInv'
  BY <1>17 DEF HangUp
<1> QED
  BY <1>1, <1>2, <1>3, <1>4, <1>5, <1>6, <1>7, <1>8, <1>9,
     <1>10, <1>11, <1>12, <1>13, <1>14, <1>15, <1>16, <1>17
     DEF Next, MainStep, HandleEvent, ClientStep

(* A client without a descriptor is nowhere in the server's tables.        *)
LEMMA NewcomerFact ==
  ASSUME TypeOK, TableInv, NEW c \in Client, fd[c] = 0
  PROVE  /\ \A f \in Fd : table[f] # c
         /\ \A j \in DOMAIN conn : conn[j] # c /\ conn[j] \in Client
         /\ c \notin pending
         /\ ~closed[c]
<1>1. 0 \notin Fd /\ c # None /\ c # Listen
  BY Constants
<1>2. ASSUME NEW f \in Fd PROVE table[f] # c
  <2>1. table[f] # None => fd[table[f]] = f
    BY DEF TableInv
  <2> QED
    BY <1>1, <2>1, Zenon
<1>3. ASSUME NEW j \in DOMAIN conn PROVE conn[j] # c /\ conn[j] \in Client
  <2>1. fd[conn[j]] \in Fd
    BY Zenon DEF TableInv
  <2>2. conn[j] \in Client
    BY DEF TypeOK
  <2> QED
    BY <1>1, <2>1, <2>2, Zenon
<1>4. c \notin pending
  <2>1. c \in pending \ {Listen} => fd[c] \in Fd
    BY Zenon DEF TableInv
  <2> QED
    BY <1>1, <2>1, Zenon
<1>5. ~closed[c]
  BY Zenon DEF TableInv
<1> QED
  BY <1>2, <1>3, <1>4, <1>5, Zenon

(* Descriptors and data_t's.                                               *)
LEMMA TableStep ==
  ASSUME TypeOK, QueueInv, TableInv, [Next]_vars
  PROVE  TableInv'
<1> USE Constants DEF TypeOK, TableInv, clientVars, serverVars
<1>1. CASE CheckEnd
  BY <1>1 DEF CheckEnd
<1>2. CASE EnterWait
  BY <1>2 DEF EnterWait
<1>3. CASE WaitReturns
  <2>1. \A c \in pending' \ {Listen} : c \in Client /\ \E f \in Fd : table[f] = c
    BY <1>3 DEF WaitReturns, Ready, Open
  <2>2. \A c \in pending' \ {Listen} : fd[c] \in Fd /\ table[fd[c]] = c
    BY <2>1
  <2> QED
    BY <1>3, <2>2 DEF WaitReturns
<1>4. CASE AcceptClient
  <2> DEFINE c == Head(backlog)
  <2>1. c \in Client /\ fd[c] = 0 /\ NewFd \in Fd /\ table[NewFd] = None
    BY <1>4, HeadFact, NewFdFact DEF AcceptClient
  <2>2. /\ \A f \in Fd : table[f] # c
        /\ \A j \in DOMAIN conn : conn[j] # c /\ conn[j] \in Client
        /\ c \notin pending
        /\ ~closed[c]
    BY <2>1, NewcomerFact
  <2>3. /\ conn' = Append(conn, c)
        /\ fd' = [fd EXCEPT ![c] = NewFd]
        /\ table' = [table EXCEPT ![NewFd] = c]
        /\ pending' = pending \ {Listen}
        /\ UNCHANGED <<pc, closed>> /\ pc = "batch"
    BY <1>4 DEF AcceptClient
  <2> HIDE DEF c
  <2>4. /\ \A j \in DOMAIN conn : j \in DOMAIN conn' /\ conn'[j] = conn[j]
        /\ \A j \in DOMAIN conn' :
             conn'[j] = c \/ (j \in DOMAIN conn /\ conn'[j] = conn[j])
        /\ \E j \in DOMAIN conn' : conn'[j] = c
    <3>1. /\ \A j \in DOMAIN conn :
               j \in DOMAIN Append(conn, c) /\ Append(conn, c)[j] = conn[j]
          /\ \A j \in DOMAIN Append(conn, c) :
               \/ j \in DOMAIN conn /\ Append(conn, c)[j] = conn[j]
               \/ Append(conn, c)[j] = c
          /\ \E j \in DOMAIN Append(conn, c) : Append(conn, c)[j] = c
      BY <2>1, ConnFact
    <3> QED
      BY <2>3, <3>1
  <2>5. \A d \in Client : fd'[d] = 0 => ~closed'[d]
    BY <2>1, <2>3
  <2>6. \A f \in Fd : table'[f] # None =>
          /\ fd'[table'[f]] = f
          /\ ~closed'[table'[f]]
          /\ \E j \in DOMAIN conn' : conn'[j] = table'[f]
    <3> SUFFICES ASSUME NEW f \in Fd, table'[f] # None
                 PROVE  /\ fd'[table'[f]] = f
                        /\ ~closed'[table'[f]]
                        /\ \E j \in DOMAIN conn' : conn'[j] = table'[f]
      OBVIOUS
    <3>1. CASE f = NewFd
      BY <2>1, <2>2, <2>3, <2>4, <3>1
    <3>2. CASE f # NewFd
      <4>1. table'[f] = table[f] /\ table[f] # c /\ table[f] \in Client
        BY <2>2, <2>3, <3>2
      <4>2. /\ fd'[table'[f]] = f
            /\ ~closed'[table'[f]]
        BY <2>3, <4>1
      <4>3. \E j \in DOMAIN conn : conn[j] = table'[f]
        BY <4>1
      <4> QED
        BY <2>4, <4>2, <4>3
    <3> QED
      BY <3>1, <3>2
  <2>7. \A j \in DOMAIN conn' :
          fd'[conn'[j]] \in Fd
            /\ (~closed'[conn'[j]] => table'[fd'[conn'[j]]] = conn'[j])
    <3> SUFFICES ASSUME NEW j \in DOMAIN conn'
                 PROVE  fd'[conn'[j]] \in Fd
                          /\ (~closed'[conn'[j]]
                                => table'[fd'[conn'[j]]] = conn'[j])
      OBVIOUS
    <3>1. CASE conn'[j] = c
      BY <2>1, <2>3, <3>1
    <3>2. CASE conn'[j] # c
      <4>1. j \in DOMAIN conn /\ conn'[j] = conn[j] /\ conn[j] \in Client
        BY <2>2, <2>4, <3>2
      <4>2. fd'[conn'[j]] = fd[conn[j]] /\ fd[conn[j]] \in Fd
        BY <2>2, <2>3, <4>1
      <4>3. ~closed[conn[j]] => fd[conn[j]] # NewFd
        BY <2>1, <2>3, <4>1
      <4> QED
        BY <2>3, <4>1, <4>2, <4>3
    <3> QED
      BY <3>1, <3>2
  <2>8. \A d \in pending' \ {Listen} : fd'[d] \in Fd /\ table'[fd'[d]] = d
    BY <2>1, <2>2, <2>3
  <2> QED
    BY <2>3, <2>5, <2>6, <2>7, <2>8
<1>5. CASE RefuseClient
  <2>1. /\ Head(backlog) \in Client /\ fd[Head(backlog)] = 0
        /\ NewFd \in Fd
    BY <1>5, HeadFact, NewFdFact DEF RefuseClient
  <2>2. /\ \A f \in Fd : table[f] # Head(backlog)
        /\ \A j \in DOMAIN conn : conn[j] # Head(backlog) /\ conn[j] \in Client
        /\ Head(backlog) \notin pending
    BY <2>1
  <2>3. /\ \A c \in Client : c # Head(backlog) => fd'[c] = fd[c]
        /\ fd'[Head(backlog)] = NewFd
        /\ pending' = pending \ {Listen}
        /\ UNCHANGED <<pc, conn, closed, table>> /\ pc = "batch"
    BY <1>5, <2>1 DEF RefuseClient
  <2>4. \A c \in Client : fd'[c] = 0 => ~closed'[c]
    BY <2>1, <2>3
  <2>5. \A f \in Fd : table'[f] # None =>
          /\ fd'[table'[f]] = f
          /\ ~closed'[table'[f]]
          /\ \E j \in DOMAIN conn' : conn'[j] = table'[f]
    BY <2>2, <2>3
  <2>6. \A j \in DOMAIN conn' :
          fd'[conn'[j]] \in Fd
            /\ (~closed'[conn'[j]] => table'[fd'[conn'[j]]] = conn'[j])
    BY <2>2, <2>3
  <2>7. \A c \in pending' \ {Listen} : fd'[c] \in Fd /\ table'[fd'[c]] = c
    BY <2>2, <2>3
  <2> QED
    BY <2>3, <2>4, <2>5, <2>6, <2>7
<1>6. CASE AcceptFails
  BY <1>6 DEF AcceptFails
<1>7. CASE EndBatch
  BY <1>7 DEF EndBatch
<1>8. CASE CloseAll
  <2>1. \A f \in Fd : table[f] # None => f \in ToClose
    BY DEF ToClose
  <2>2. \A f \in Fd : table'[f] = None
    BY <1>8, <2>1 DEF CloseAll
  <2>3. pending' = {}
    BY <1>8 DEF CloseAll
  <2> QED
    BY <1>8, <2>2, <2>3 DEF CloseAll
<1>9. CASE Signal
  BY <1>9 DEF Signal
<1>10. CASE UNCHANGED vars
  BY <1>10 DEF vars
<1>11. ASSUME NEW c \in Client, Echo(c) PROVE TableInv'
  BY <1>11 DEF Echo
<1>12. ASSUME NEW c \in Client, CloseClient(c) PROVE TableInv'
  <2>1. /\ fd[c] \in Fd /\ table[fd[c]] = c
        /\ \A f \in Fd : table[f] = c => f = fd[c]
    BY <1>12 DEF CloseClient
  <2>2. /\ table' = [table EXCEPT ![fd[c]] = None]
        /\ closed' = [closed EXCEPT ![c] = TRUE]
        /\ pending' = pending \ {c}
        /\ UNCHANGED <<pc, conn, fd>> /\ pc = "batch"
    BY <1>12 DEF CloseClient
  <2>3. \A d \in Client : fd'[d] = 0 => ~closed'[d]
    BY <2>1, <2>2
  <2>4. \A f \in Fd : table'[f] # None =>
          /\ fd'[table'[f]] = f
          /\ ~closed'[table'[f]]
          /\ \E j \in DOMAIN conn' : conn'[j] = table'[f]
    BY <2>1, <2>2
  <2>5. \A j \in DOMAIN conn' :
          fd'[conn'[j]] \in Fd
            /\ (~closed'[conn'[j]] => table'[fd'[conn'[j]]] = conn'[j])
    <3> SUFFICES ASSUME NEW j \in DOMAIN conn
                 PROVE  fd[conn[j]] \in Fd
                          /\ (~closed'[conn[j]] => table'[fd[conn[j]]] = conn[j])
      BY <2>2
    <3>1. conn[j] \in Client /\ fd[conn[j]] \in Fd
      OBVIOUS
    <3>2. CASE conn[j] = c
      BY <2>2, <3>1, <3>2
    <3>3. CASE conn[j] # c
      BY <2>1, <2>2, <3>1, <3>3
    <3> QED
      BY <3>2, <3>3
  <2>6. \A d \in pending' \ {Listen} : fd'[d] \in Fd /\ table'[fd'[d]] = d
    BY <2>1, <2>2
  <2> QED
    BY <2>2, <2>3, <2>4, <2>5, <2>6
<1>13. ASSUME NEW c \in Client, BrokenPipe(c) PROVE TableInv'
  BY <1>13 DEF BrokenPipe
<1>14. ASSUME NEW c \in Client, Connect(c) PROVE TableInv'
  BY <1>14 DEF Connect
<1>15. ASSUME NEW c \in Client, Send(c) PROVE TableInv'
  BY <1>15 DEF Send
<1>16. ASSUME NEW c \in Client, Read(c) PROVE TableInv'
  BY <1>16 DEF Read
<1>17. ASSUME NEW c \in Client, HangUp(c) PROVE TableInv'
  BY <1>17 DEF HangUp
<1> QED
  BY <1>1, <1>2, <1>3, <1>4, <1>5, <1>6, <1>7, <1>8, <1>9,
     <1>10, <1>11, <1>12, <1>13, <1>14, <1>15, <1>16, <1>17
     DEF Next, MainStep, HandleEvent, ClientStep

(* The pieces of one client, when some of what was read is written ...     *)
LEMMA EchoOrdered ==
  ASSUME NEW S \in SUBSET Nat, NEW s \in Seq(S), NEW t \in Seq(S),
         NEW m \in Nat, NEW n \in 0 .. Len(t), Ordered(s, t, m)
  PROVE  /\ Ordered(s \o SubSeq(t, 1, n), <<>>, m)
         /\ Len(s) <= Len(s \o SubSeq(t, 1, n))
<1> DEFINE u == s \o SubSeq(t, 1, n)
<1>1. /\ u \in Seq(S) /\ Len(u) = Len(s) + n
      /\ \A j \in 1 .. Len(s) + n :
           u[j] = IF j <= Len(s) THEN s[j] ELSE t[j - Len(s)]
  BY JoinFact
<1>2. /\ Len(s) \in Nat /\ Len(t) \in Nat /\ n \in Nat /\ n <= Len(t)
      /\ DOMAIN s = 1 .. Len(s) /\ DOMAIN t = 1 .. Len(t)
  OBVIOUS
<1> HIDE DEF u
<1>3. DOMAIN u = 1 .. Len(s) + n
  BY <1>1
<1>4. \A j \in DOMAIN u :
        /\ j <= Len(s) => j \in DOMAIN s /\ u[j] = s[j]
        /\ ~(j <= Len(s)) =>
             j - Len(s) \in DOMAIN t /\ u[j] = t[j - Len(s)]
  BY <1>1, <1>2, <1>3
<1>5. Increasing(u)
  <2> SUFFICES ASSUME NEW j \in DOMAIN u, NEW k \in DOMAIN u, j < k
               PROVE  u[j] < u[k]
    BY DEF Increasing
  <2>1. j \in Nat /\ k \in Nat /\ j - Len(s) < k - Len(s)
    BY <1>2, <1>3
  <2>2. CASE k <= Len(s)
    <3>1. j <= Len(s)
      BY <1>2, <2>1, <2>2
    <3> QED
      BY <1>4, <2>2, <3>1 DEF Ordered, Increasing
  <2>3. CASE j <= Len(s) /\ ~(k <= Len(s))
    BY <1>4, <2>3 DEF Ordered
  <2>4. CASE ~(j <= Len(s))
    <3>1. ~(k <= Len(s))
      BY <1>2, <2>1, <2>4
    <3> QED
      BY <1>4, <2>1, <2>4, <3>1 DEF Ordered, Increasing
  <2> QED
    BY <2>2, <2>3, <2>4
<1>6. \A k \in DOMAIN u : u[k] <= m
  BY <1>4 DEF Ordered
<1>7. Len(u) <= m /\ Len(s) <= Len(u)
  BY <1>1, <1>2 DEF Ordered
<1>8. DOMAIN <<>> = {} /\ Len(u) + Len(<<>>) = Len(u)
  BY <1>1, <1>2
<1>9. Ordered(u, <<>>, m)
  BY <1>5, <1>6, <1>7, <1>8 DEF Ordered, Increasing
<1> QED
  BY <1>7, <1>9 DEF u

(* ... and when the client sends one more.                                 *)
LEMMA SendOrdered ==
  ASSUME NEW S \in SUBSET Nat, NEW s \in Seq(S), NEW t \in Seq(S),
         NEW m \in Nat, m + 1 \in S, Ordered(s, t, m)
  PROVE  Ordered(s, Append(t, m + 1), m + 1)
<1> DEFINE u == Append(t, m + 1)
<1>1. /\ u \in Seq(S) /\ Len(u) = Len(t) + 1
      /\ \A j \in 1 .. Len(t) : u[j] = t[j]
      /\ u[Len(t) + 1] = m + 1
  BY AppendProperties
<1>2. /\ Len(s) \in Nat /\ Len(t) \in Nat
      /\ DOMAIN s = 1 .. Len(s) /\ DOMAIN t = 1 .. Len(t)
      /\ \A j \in DOMAIN s : s[j] \in Nat
      /\ \A j \in DOMAIN t : t[j] \in Nat
  <2>1. \A j \in DOMAIN s : s[j] \in S
    OBVIOUS
  <2>2. \A j \in DOMAIN t : t[j] \in S
    OBVIOUS
  <2>3. \A x \in S : x \in Nat
    OBVIOUS
  <2>4. /\ Len(s) \in Nat /\ Len(t) \in Nat
        /\ DOMAIN s = 1 .. Len(s) /\ DOMAIN t = 1 .. Len(t)
    OBVIOUS
  <2> QED
    BY <2>1, <2>2, <2>3, <2>4, Zenon
<1> HIDE DEF u
<1>3. DOMAIN u = 1 .. Len(t) + 1
  BY <1>1
<1>4. \A j \in DOMAIN u :
        /\ j \in Nat
        /\ j <= Len(t) => j \in DOMAIN t /\ u[j] = t[j]
        /\ ~(j <= Len(t)) => j = Len(t) + 1 /\ u[j] = m + 1
  BY <1>1, <1>2, <1>3
<1>5. Increasing(u)
  <2> SUFFICES ASSUME NEW j \in DOMAIN u, NEW k \in DOMAIN u, j < k
               PROVE  u[j] < u[k]
    BY DEF Increasing
  <2>1. j \in Nat /\ k \in Nat /\ j <= Len(t)
    BY <1>2, <1>3
  <2>2. CASE k <= Len(t)
    BY <1>4, <2>1, <2>2 DEF Ordered, Increasing
  <2>3. CASE ~(k <= Len(t))
    <3>1. j \in DOMAIN t /\ u[j] = t[j] /\ u[k] = m + 1
      BY <1>4, <2>1, <2>3
    <3>2. t[j] \in Nat /\ t[j] <= m
      BY <1>2, <3>1 DEF Ordered
    <3> QED
      BY <3>1, <3>2
  <2> QED
    BY <2>2, <2>3
<1>6. \A k \in DOMAIN u : u[k] <= m + 1
  <2> SUFFICES ASSUME NEW k \in DOMAIN u PROVE u[k] <= m + 1
    OBVIOUS
  <2>1. CASE k <= Len(t)
    <3>1. t[k] \in Nat /\ t[k] <= m /\ u[k] = t[k]
      BY <1>2, <1>4, <2>1 DEF Ordered
    <3> QED
      BY <3>1
  <2>2. CASE ~(k <= Len(t))
    BY <1>4, <2>2
  <2> QED
    BY <2>1, <2>2
<1>7. \A k \in DOMAIN s : s[k] <= m + 1
  BY <1>2 DEF Ordered
<1>8. \A j \in DOMAIN s, k \in DOMAIN u : s[j] < u[k]
  <2> SUFFICES ASSUME NEW j \in DOMAIN s, NEW k \in DOMAIN u
               PROVE  s[j] < u[k]
    OBVIOUS
  <2>1. CASE k <= Len(t)
    BY <1>4, <2>1 DEF Ordered
  <2>2. CASE ~(k <= Len(t))
    <3>1. s[j] \in Nat /\ s[j] <= m /\ u[k] = m + 1
      BY <1>2, <1>4, <2>2 DEF Ordered
    <3> QED
      BY <3>1
  <2> QED
    BY <2>1, <2>2
<1>9. Len(s) + Len(u) <= m + 1
  BY <1>1, <1>2 DEF Ordered
<1>10. Ordered(s, u, m + 1)
  BY <1>5, <1>6, <1>7, <1>8, <1>9 DEF Ordered
<1> QED
  BY <1>10 DEF u

(* The pieces of every client.                                             *)
LEMMA PieceStep ==
  ASSUME TypeOK, TableInv, PieceInv, [Next]_vars
  PROVE  PieceInv'
<1> USE DEF PieceInv, clientVars, serverVars
<1>1. CASE CheckEnd
  BY <1>1 DEF CheckEnd
<1>2. CASE EnterWait
  BY <1>2 DEF EnterWait
<1>3. CASE WaitReturns
  BY <1>3 DEF WaitReturns
<1>4. CASE AcceptClient
  BY <1>4 DEF AcceptClient
<1>5. CASE RefuseClient
  BY <1>5 DEF RefuseClient
<1>6. CASE AcceptFails
  BY <1>6 DEF AcceptFails
<1>7. CASE EndBatch
  BY <1>7 DEF EndBatch
<1>8. CASE CloseAll
  BY <1>8 DEF CloseAll
<1>9. CASE Signal
  BY <1>9 DEF Signal
<1>10. CASE UNCHANGED vars
  BY <1>10 DEF vars
<1>11. ASSUME NEW c \in Client, Echo(c) PROVE PieceInv'
  <2>1. PICK n \in 0 .. Len(inbox[c]) :
          /\ echoed' = [echoed EXCEPT ![c] = @ \o SubSeq(inbox[c], 1, n)]
          /\ inbox' = [inbox EXCEPT ![c] = <<>>]
    BY <1>11, EchoFact
  <2>2. /\ echoed[c] \in Seq(1 .. MaxSend) /\ inbox[c] \in Seq(1 .. MaxSend)
        /\ sent[c] \in Nat /\ taken[c] \in Nat /\ Len(echoed[c]) \in Nat
        /\ Len(echoed[c] \o SubSeq(inbox[c], 1, n)) \in Nat
    BY Constants, JoinFact DEF TypeOK
  <2>3. Ordered(echoed[c], inbox[c], sent[c]) /\ taken[c] <= Len(echoed[c])
    OBVIOUS
  <2>4. /\ Ordered(echoed[c] \o SubSeq(inbox[c], 1, n), <<>>, sent[c])
        /\ Len(echoed[c]) <= Len(echoed[c] \o SubSeq(inbox[c], 1, n))
    <3>1. 1 .. MaxSend \in SUBSET Nat
      OBVIOUS
    <3> QED
      BY <2>2, <2>3, <3>1, EchoOrdered
  <2>5. UNCHANGED <<sent, taken>>
    BY <1>11 DEF Echo
  <2>6. /\ echoed'[c] = echoed[c] \o SubSeq(inbox[c], 1, n)
        /\ inbox'[c] = <<>>
        /\ \A d \in Client : d # c => echoed'[d] = echoed[d]
                                     /\ inbox'[d] = inbox[d]
    BY <2>1 DEF TypeOK
  <2>7. Ordered(echoed'[c], inbox'[c], sent'[c])
    BY <2>4, <2>5, <2>6
  <2>8. taken[c] <= Len(echoed[c] \o SubSeq(inbox[c], 1, n))
    <3>1. \A i, j, k \in Nat : i <= j /\ j <= k => i <= k
      OBVIOUS
    <3> QED
      BY <2>2, <2>3, <2>4, <3>1, Zenon
  <2> QED
    BY <2>5, <2>6, <2>7, <2>8
<1>12. ASSUME NEW c \in Client, CloseClient(c) PROVE PieceInv'
  BY <1>12 DEF CloseClient
<1>13. ASSUME NEW c \in Client, BrokenPipe(c) PROVE PieceInv'
  BY <1>13 DEF BrokenPipe
<1>14. ASSUME NEW c \in Client, Connect(c) PROVE PieceInv'
  BY <1>14 DEF Connect
<1>15. ASSUME NEW c \in Client, Send(c) PROVE PieceInv'
  <2>1. /\ echoed[c] \in Seq(1 .. MaxSend) /\ inbox[c] \in Seq(1 .. MaxSend)
        /\ sent[c] \in Nat /\ sent[c] + 1 \in 1 .. MaxSend
    BY <1>15, Constants DEF TypeOK, Send
  <2>2. Ordered(echoed[c], inbox[c], sent[c])
    OBVIOUS
  <2>3. Ordered(echoed[c], Append(inbox[c], sent[c] + 1), sent[c] + 1)
    <3>1. 1 .. MaxSend \in SUBSET Nat
      OBVIOUS
    <3> QED
      BY <2>1, <2>2, <3>1, SendOrdered
  <2>4. /\ UNCHANGED <<echoed, taken>>
        /\ inbox'[c] = Append(inbox[c], sent[c] + 1)
        /\ sent'[c] = sent[c] + 1
        /\ \A d \in Client : d # c => inbox'[d] = inbox[d]
                                     /\ sent'[d] = sent[d]
    BY <1>15 DEF TypeOK, Send
  <2>5. Ordered(echoed'[c], inbox'[c], sent'[c])
    BY <2>3, <2>4
  <2> QED
    BY <2>4, <2>5
<1>16. ASSUME NEW c \in Client, Read(c) PROVE PieceInv'
  <2>1. UNCHANGED <<echoed, inbox, sent>>
    BY <1>16 DEF Read
  <2>2. ASSUME NEW d \in Client PROVE taken'[d] <= Len(echoed[d])
    BY <1>16, Constants DEF Read, TypeOK
  <2> QED
    BY <2>1, <2>2
<1>17. ASSUME NEW c \in Client, HangUp(c) PROVE PieceInv'
  BY <1>17 DEF HangUp
<1> QED
  BY <1>1, <1>2, <1>3, <1>4, <1>5, <1>6, <1>7, <1>8, <1>9,
     <1>10, <1>11, <1>12, <1>13, <1>14, <1>15, <1>16, <1>17
     DEF Next, MainStep, HandleEvent, ClientStep

LEMMA NextIInv == IInv /\ [Next]_vars => IInv'
  BY TypeStep, QueueStep, TableStep, PieceStep DEF IInv

LEMMA Inductive == Spec => []IInv
  BY InitIInv, NextIInv, PTL DEF Spec

(* The types; a descriptor is one the table has room for.                  *)
THEOREM TypeCorrect == Spec => []TypeOK
<1>1. IInv => TypeOK
  BY DEF IInv
<1> QED
  BY <1>1, Inductive, PTL

(***************************************************************************)
(* For any number of clients and descriptors: the number in a data_t that  *)
(* has an event in hand, or is not marked closed, is that client's own,    *)
(* although the kernel gives the numbers of closed sockets out again.      *)
(***************************************************************************)
THEOREM OwnDescriptors == Spec => []DescriptorIsOwn
<1>1. IInv => DescriptorIsOwn
  BY DEF IInv, TableInv, DescriptorIsOwn
<1> QED
  BY <1>1, Inductive, PTL

(***************************************************************************)
(* The array is never written past its end, and the server exits with      *)
(* every socket it accepted closed.                                        *)
(***************************************************************************)
THEOREM AllClosed == Spec => []ClosesEverything
<1>1. IInv => ClosesEverything
  BY DEF IInv, TypeOK, TableInv, ClosesEverything
<1> QED
  BY <1>1, Inductive, PTL

(***************************************************************************)
(* Every client gets pieces of its own text, in order and none twice,      *)
(* however many it sends and however little its socket takes.              *)
(***************************************************************************)
THEOREM InOrder == Spec => []EchoInOrder
<1>1. IInv => EchoInOrder
  BY DEF IInv, PieceInv, Ordered, Increasing, EchoInOrder
<1> QED
  BY <1>1, Inductive, PTL
=============================================================================
