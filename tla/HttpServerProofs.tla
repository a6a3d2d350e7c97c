-------------------------- MODULE HttpServerProofs ---------------------------
(***************************************************************************)
(* The safety of HttpServer for any clients, requests, sizes and numbers   *)
(* of signals.                                                             *)
(*                                                                         *)
(* That at most one connection is late is not inductive: a late connection *)
(* must be followed by a test of end before the next accept. That answers  *)
(* are whole needs, for each place main may be at, how much of the answer  *)
(* to the client in hand has been written; and for the clients that have   *)
(* been let go with their socket left open, that they had sent a request:  *)
(* otherwise one could still come that nobody answers.                     *)
(***************************************************************************)
EXTENDS HttpServer, FiniteSetTheorems, SequenceTheorems, TLAPS

Item == Status \cup {Length} \cup (1 .. Blocks)

(* What has been sent of a file when its first n blocks are written.       *)
Prefix(n) == <<200, Length>> \o [b \in 1 .. n |-> b]

TypeInv ==
  /\ TypeOK
  /\ conn # None => conn \in open

(* Where main can be when the flags and the signals are what they are.     *)
ControlInv ==
  /\ pc \notin {"setup", "exited", "killed"} => in_loop
  /\ accepting => pc \in {"accept", "disarm", "exited"}
  /\ ~end => ~interrupted
  /\ pc \in {"setup", "check", "arm", "accept"} => conn = None
  /\ interrupted /\ pc = "body" => block <= Blocks

LateInv ==
  /\ late <= 1
  /\ late = 1 => end /\ pc \notin {"setup", "arm", "accept"}

(* A client waits in the queue once, before everything else.               *)
QueueInv ==
  /\ \A j, k \in DOMAIN queue : queue[j] = queue[k] => j = k
  /\ \A j \in DOMAIN queue : queue[j] \notin open /\ stream[queue[j]] = <<>>
  /\ Cardinality(open) <= MaxFiles

(* What the client in hand has been sent.                                  *)
InHand ==
  /\ pc \in {"disarm", "scan", "look"} => stream[conn] = <<>>
  /\ pc \in {"look", "size", "body"} => sent[conn] > 0
  /\ pc = "look" => asks[conn] # "malformed"
  /\ pc = "size" => asks[conn] = "readable" /\ stream[conn] = <<200>>
  /\ pc = "body" => asks[conn] = "readable" /\ stream[conn] = Prefix(block - 1)

(* What those have been sent that were let go.                             *)
LetGo(c) ==
  /\ c \in open => sent[c] > 0
  /\ sent[c] > 0 =>
       \/ stream[c] = Answer(c)
       \/ /\ asks[c] = "readable" /\ stream[c] = <<404>>
          /\ Cardinality(open) = MaxFiles /\ conn = None

AnswerInv ==
  ~end =>
    /\ conn # None => InHand
    /\ \A c \in Client : ~Queued(c) /\ c # conn /\ c \notin left => LetGo(c)

IInv == TypeInv /\ ControlInv /\ LateInv /\ QueueInv /\ AnswerInv

-----------------------------------------------------------------------------
LEMMA Constants ==
  /\ Blocks \in Nat
  /\ Capacity \in Nat
  /\ MaxFiles \in Nat /\ MaxFiles > 0
  /\ MaxSignals \in Nat
  /\ {200, 403, 404, Length} \subseteq Item
  /\ \A n \in 1 .. Blocks : n \in Item
  BY SizeAssumption DEF Item, Status

LEMMA OpenFact ==
  ASSUME TypeInv
  PROVE  /\ IsFiniteSet(open) /\ Cardinality(open) \in Nat
         /\ \A c \in Client :
              /\ Cardinality(open \cup {c}) <= Cardinality(open) + 1
              /\ Cardinality(open \ {c}) <= Cardinality(open)
              /\ Cardinality(open \cup {c}) \in Nat
              /\ Cardinality(open \ {c}) \in Nat
<1>1. IsFiniteSet(open)
  BY FS_Subset, ClientAssumption DEF TypeInv, TypeOK
<1>2. Cardinality(open) \in Nat
  BY <1>1, FS_CardinalityType
<1>3. ASSUME NEW c \in Client
      PROVE  /\ Cardinality(open \cup {c}) <= Cardinality(open) + 1
             /\ Cardinality(open \cup {c}) \in Nat
  <2>1. /\ IsFiniteSet(open \cup {c})
        /\ Cardinality(open \cup {c})
             = IF c \in open THEN Cardinality(open) ELSE Cardinality(open) + 1
    BY <1>1, FS_AddElement
  <2> QED
    BY <1>2, <2>1
<1>4. ASSUME NEW c \in Client
      PROVE  /\ Cardinality(open \ {c}) <= Cardinality(open)
             /\ Cardinality(open \ {c}) \in Nat
  <2>1. /\ IsFiniteSet(open \ {c})
        /\ Cardinality(open \ {c})
             = IF c \in open THEN Cardinality(open) - 1 ELSE Cardinality(open)
    BY <1>1, FS_RemoveElement
  <2>2. Cardinality(open \ {c}) \in Nat
    BY <2>1, FS_CardinalityType
  <2> QED
    BY <1>2, <2>1, <2>2
<1> QED
  BY <1>1, <1>2, <1>3, <1>4

(* The file after the Content-Length, block by block.                      *)
LEMMA PrefixFact ==
  /\ Prefix(0) = <<200, Length>>
  /\ \A n \in Nat : Append(Prefix(n), n + 1) = Prefix(n + 1)
  /\ \A n \in Nat : Len(Prefix(n)) = n + 2
  /\ \A c \in Client : asks[c] = "readable" => Answer(c) = Prefix(Blocks)
<1>1. ASSUME NEW n \in Nat
      PROVE  /\ Prefix(n) \in Seq(Nat) /\ Len(Prefix(n)) = n + 2
             /\ \A j \in 1 .. n + 2 :
                  Prefix(n)[j] = IF j = 1 THEN 200 ELSE j - 2
  <2>1. <<200, Length>> \in Seq(Nat) /\ Len(<<200, Length>>) = 2
        /\ <<200, Length>>[1] = 200 /\ <<200, Length>>[2] = 0
    BY DEF Length
  <2>2. [b \in 1 .. n |-> b] \in Seq(Nat) /\ Len([b \in 1 .. n |-> b]) = n
    OBVIOUS
  <2> HIDE DEF Length
  <2> QED
    BY <2>1, <2>2, ConcatProperties DEF Prefix
<1>2. Prefix(0) = <<200, Length>>
  <2>1. <<200, Length>> \in Seq(Nat) /\ Len(<<200, Length>>) = 2
        /\ <<200, Length>>[1] = 200 /\ <<200, Length>>[2] = 0
    BY DEF Length
  <2>2. /\ Prefix(0) \in Seq(Nat) /\ Len(Prefix(0)) = 2
        /\ \A j \in 1 .. 2 : Prefix(0)[j] = IF j = 1 THEN 200 ELSE j - 2
    <3>1. 0 \in Nat /\ 0 + 2 = 2
      OBVIOUS
    <3> HIDE DEF Prefix
    <3>2. \A n \in Nat :
            /\ Prefix(n) \in Seq(Nat) /\ Len(Prefix(n)) = n + 2
            /\ \A j \in 1 .. n + 2 :
                 Prefix(n)[j] = IF j = 1 THEN 200 ELSE j - 2
      BY <1>1
    <3> QED
      BY <3>1, <3>2, Zenon
  <2>3. Len(Prefix(0)) = Len(<<200, Length>>)
    BY <2>1, <2>2
  <2>4. \A j \in 1 .. Len(Prefix(0)) : Prefix(0)[j] = <<200, Length>>[j]
    BY <2>1, <2>2
  <2> QED
    BY <2>1, <2>2, <2>3, <2>4, SeqEqual
<1>3. ASSUME NEW n \in Nat
      PROVE  Append(Prefix(n), n + 1) = Prefix(n + 1)
  <2>1. Append(Prefix(n), n + 1) \in Seq(Nat)
        /\ Len(Append(Prefix(n), n + 1)) = n + 3
        /\ \A j \in 1 .. n + 2 : Append(Prefix(n), n + 1)[j] = Prefix(n)[j]
        /\ Append(Prefix(n), n + 1)[n + 3] = n + 1
    BY <1>1, AppendProperties
  <2>2. Prefix(n + 1) \in Seq(Nat) /\ Len(Prefix(n + 1)) = n + 3
        /\ \A j \in 1 .. n + 3 :
             Prefix(n + 1)[j] = IF j = 1 THEN 200 ELSE j - 2
    BY <1>1
  <2>3. Len(Append(Prefix(n), n + 1)) = Len(Prefix(n + 1))
    BY <2>1, <2>2
  <2>4. ASSUME NEW j \in 1 .. Len(Append(Prefix(n), n + 1))
        PROVE  Append(Prefix(n), n + 1)[j] = Prefix(n + 1)[j]
    <3>1. CASE j \in 1 .. n + 2
      BY <1>1, <2>1, <2>2, <3>1
    <3>2. CASE j = n + 3
      BY <2>1, <2>2, <3>2
    <3> QED
      BY <2>1, <3>1, <3>2
  <2> QED
    BY <2>1, <2>2, <2>3, <2>4, SeqEqual
<1> QED
  BY <1>1, <1>2, <1>3 DEF Answer, Prefix

LEMMA InitIInv == Init => IInv
<1> SUFFICES ASSUME Init PROVE IInv
  OBVIOUS
<1>1. TypeInv
  <2>1. 1 \in 1 .. Blocks + 1 /\ 0 \in 0 .. MaxSignals /\ 0 \in 0 .. 2
    BY Constants
  <2>2. <<>> \in Seq(Client) /\ Len(<<>>) = 0
        /\ <<>> \in Seq(Status \cup {Length} \cup (1 .. Blocks))
    OBVIOUS
  <2>3. sent \in [Client -> 0 .. 2] /\ taken \in [Client -> Nat]
        /\ stream \in [Client -> Seq(Status \cup {Length} \cup (1 .. Blocks))]
        /\ \A c \in Client : taken[c] <= Len(stream[c])
    BY <2>1, <2>2 DEF Init
  <2>4. TypeOK
    BY <2>1, <2>2, <2>3 DEF Init, TypeOK
  <2> QED
    BY <2>4 DEF Init, TypeInv
<1>2. ControlInv /\ LateInv
  BY DEF Init, ControlInv, LateInv
<1>3. QueueInv
  BY Constants, FS_EmptySet DEF Init, QueueInv
<1>4. AnswerInv
  BY DEF Init, AnswerInv, LetGo
<1> QED
  BY <1>1, <1>2, <1>3, <1>4 DEF IInv

(* A write appends to the stream of the client in hand.                    *)
LEMMA WriteFact ==
  ASSUME TypeInv, conn \in Client, NEW item \in Item, Write(item)
  PROVE  /\ stream' \in [Client -> Seq(Item)]
         /\ stream'[conn] = Append(stream[conn], item)
         /\ \A c \in Client : c # conn => stream'[c] = stream[c]
         /\ \A c \in Client : taken[c] <= Len(stream'[c])
<1>1. stream[conn] \in Seq(Item) /\ taken[conn] \in Nat
      /\ Len(stream[conn]) \in Nat /\ taken[conn] <= Len(stream[conn])
  BY DEF TypeInv, TypeOK, Item
<1>2. Append(stream[conn], item) \in Seq(Item)
      /\ Len(Append(stream[conn], item)) = Len(stream[conn]) + 1
  BY <1>1, AppendProperties
<1> QED
  BY <1>1, <1>2 DEF TypeInv, TypeOK, Item, Write

LEMMA SendFact ==
  ASSUME TypeInv, NEW c \in Client, Send(c)
  PROVE  sent[c] + 1 \in 0 .. 2
<1>1. sent[c] \in 0 .. 2 /\ sent[c] < 2
  BY DEF Send, TypeInv, TypeOK
<1> QED
  BY <1>1

(* accept moves the head of the queue to the open sockets.                 *)
LEMMA AcceptFact ==
  ASSUME TypeInv, Accept
  PROVE  /\ Head(queue) = queue[1] /\ 1 \in DOMAIN queue
         /\ Head(queue) \in Client
         /\ Tail(queue) \in Seq(Client)
         /\ \A j \in DOMAIN Tail(queue) :
              /\ j \in Nat /\ j + 1 \in DOMAIN queue /\ j + 1 # 1
              /\ Tail(queue)[j] = queue[j + 1]
         /\ Cardinality(open \cup {Head(queue)}) <= MaxFiles
<1>1. queue \in Seq(Client) /\ queue # <<>> /\ Cardinality(open) < MaxFiles
  BY DEF Accept, TypeInv, TypeOK
<1>2. /\ Head(queue) = queue[1] /\ 1 \in DOMAIN queue
      /\ Head(queue) \in Client
  BY <1>1
<1>3. /\ Tail(queue) \in Seq(Client)
      /\ \A j \in DOMAIN Tail(queue) :
           /\ j \in Nat /\ j + 1 \in DOMAIN queue /\ j + 1 # 1
           /\ Tail(queue)[j] = queue[j + 1]
  BY <1>1
<1>4. Cardinality(open \cup {Head(queue)}) <= MaxFiles
  <2>1. /\ Cardinality(open) \in Nat
        /\ Cardinality(open \cup {Head(queue)}) <= Cardinality(open) + 1
        /\ Cardinality(open \cup {Head(queue)}) \in Nat
    BY <1>2, OpenFact
  <2> QED
    BY <1>1, <2>1, Constants
<1> QED
  BY <1>2, <1>3, <1>4

LEMMA CloseFact ==
  ASSUME TypeInv, Cardinality(open) <= MaxFiles, conn \in Client
  PROVE  Cardinality(open \ {conn}) <= MaxFiles
  BY OpenFact, Constants

(* Types are kept.                                                         *)
LEMMA TypeStep ==
  ASSUME TypeInv, ControlInv, [Next]_vars
  PROVE  TypeInv'
<1> USE Constants, ClientAssumption DEF TypeInv, TypeOK, ControlInv, flags, history, clientVars, Gone, Item
<1>1. CASE EnterLoop
  BY <1>1 DEF EnterLoop
<1>2. CASE CheckEnd
  BY <1>2 DEF CheckEnd
<1>3. CASE Arm
  BY <1>3 DEF Arm
<1>4. CASE Accept
  <2>1. Head(queue) \in Client /\ Tail(queue) \in Seq(Client)
    BY <1>4, HeadTailProperties DEF Accept
  <2> QED
    BY <1>4, <2>1, ClientAssumption DEF Accept
<1>5. CASE AcceptFails
  BY <1>5 DEF AcceptFails
<1>6. CASE Disarm
  BY <1>6 DEF Disarm
<1>7. CASE Scan
  BY <1>7 DEF Scan
<1>8. CASE ScanFails
  BY <1>8 DEF ScanFails, Continue
<1>9. CASE NotFound
  <2>1. conn \in Client /\ 404 \in Item /\ Write(404)
    BY <1>9, Constants DEF NotFound, Refuse, Continue
  <2> QED
    BY <1>9, <2>1, WriteFact DEF NotFound, Refuse, Continue
<1>10. CASE Forbidden
  <2>1. conn \in Client /\ 403 \in Item /\ Write(403)
    BY <1>10, Constants DEF Forbidden, Refuse, Continue
  <2> QED
    BY <1>10, <2>1, WriteFact DEF Forbidden, Refuse, Continue
<1>11. CASE CannotOpen
  <2>1. conn \in Client /\ 404 \in Item /\ Write(404)
    BY <1>11, Constants DEF CannotOpen, Refuse, Continue
  <2> QED
    BY <1>11, <2>1, WriteFact DEF CannotOpen, Refuse, Continue
<1>12. CASE Ok
  <2>1. conn \in Client /\ 200 \in Item /\ Write(200)
    BY <1>12, Constants DEF Ok
  <2> QED
    BY <1>12, <2>1, WriteFact DEF Ok
<1>13. CASE WriteSize
  <2>1. conn \in Client /\ Length \in Item /\ Write(Length)
    BY <1>13, Constants DEF WriteSize
  <2> QED
    BY <1>13, <2>1, WriteFact DEF WriteSize
<1>14. CASE WriteBlock
  <2>1. conn \in Client /\ block \in Item /\ Write(block)
    BY <1>14, Constants DEF WriteBlock
  <2> QED
    BY <1>14, <2>1, WriteFact, Constants DEF WriteBlock
<1>15. CASE LoseBlock
  <2>1. block + 1 \in 1 .. Blocks + 1
    BY <1>15 DEF LoseBlock
  <2> QED
    BY <1>15, <2>1 DEF LoseBlock
<1>16. CASE Close
  BY <1>16 DEF Close, Continue
<1>17. CASE Signal
  BY <1>17 DEF Signal, Blocked
<1>18. CASE BrokenPipe
  BY <1>18 DEF BrokenPipe
<1>19. CASE Idle
  BY <1>19 DEF Idle, vars
<1>20. ASSUME NEW c \in Client, Connect(c) PROVE TypeInv'
  <2>1. Append(queue, c) \in Seq(Client)
    BY AppendProperties
  <2> QED
    BY <1>20, <2>1 DEF Connect
<1>21. ASSUME NEW c \in Client, Send(c) PROVE TypeInv'
  <2>1. sent[c] + 1 \in 0 .. 2
    BY <1>21, SendFact
  <2> QED
    BY <1>21, <2>1 DEF Send
<1>22. ASSUME NEW c \in Client, Read(c) PROVE TypeInv'
  BY <1>22 DEF Read
<1>23. ASSUME NEW c \in Client, HangUp(c) PROVE TypeInv'
  BY <1>23 DEF HangUp
<1>24. CASE UNCHANGED vars
  BY <1>24 DEF vars
<1> QED
  BY <1>1, <1>2, <1>3, <1>4, <1>5, <1>6, <1>7, <1>8, <1>9, <1>10, <1>11, <1>12,
     <1>13, <1>14, <1>15, <1>16, <1>17, <1>18, <1>19, <1>20, <1>21, <1>22, <1>23, <1>24
     DEF Next, MainStep, ClientStep

(* The flags. *)
LEMMA ControlStep ==
  ASSUME TypeInv, ControlInv, [Next]_vars
  PROVE  ControlInv'
<1> USE Constants DEF TypeInv, TypeOK, ControlInv, flags, history, clientVars, Gone
<1>1. CASE EnterLoop
  BY <1>1 DEF EnterLoop
<1>2. CASE CheckEnd
  BY <1>2 DEF CheckEnd
<1>3. CASE Arm
  BY <1>3 DEF Arm
<1>4. CASE Accept
  BY <1>4 DEF Accept
<1>5. CASE AcceptFails
  BY <1>5 DEF AcceptFails
<1>6. CASE Disarm
  BY <1>6 DEF Disarm
<1>7. CASE Scan
  BY <1>7 DEF Scan
<1>8. CASE ScanFails
  BY <1>8 DEF ScanFails, Continue
<1>9. CASE NotFound
  BY <1>9 DEF NotFound, Refuse, Continue, Write
<1>10. CASE Forbidden
  BY <1>10 DEF Forbidden, Refuse, Continue, Write
<1>11. CASE CannotOpen
  BY <1>11 DEF CannotOpen, Refuse, Continue, Write
<1>12. CASE Ok
  BY <1>12 DEF Ok, Write
<1>13. CASE WriteSize
  BY <1>13 DEF WriteSize, Write
<1>14. CASE WriteBlock
  BY <1>14 DEF WriteBlock, Write
<1>15. CASE LoseBlock
  BY <1>15 DEF LoseBlock
<1>16. CASE Close
  BY <1>16 DEF Close, Continue
<1>17. CASE Signal
  BY <1>17 DEF Signal, Blocked
<1>18. CASE BrokenPipe
  BY <1>18 DEF BrokenPipe
<1>19. CASE Idle
  BY <1>19 DEF Idle, vars
<1>20. ASSUME NEW c \in Client, Connect(c) PROVE ControlInv'
  BY <1>20 DEF Connect, Connected, Queued
<1>21. ASSUME NEW c \in Client, Send(c) PROVE ControlInv'
  BY <1>21 DEF Send, Connected
<1>22. ASSUME NEW c \in Client, Read(c) PROVE ControlInv'
  BY <1>22 DEF Read
<1>23. ASSUME NEW c \in Client, HangUp(c) PROVE ControlInv'
  BY <1>23 DEF HangUp
<1>24. CASE UNCHANGED vars
  BY <1>24 DEF vars
<1> QED
  BY <1>1, <1>2, <1>3, <1>4, <1>5, <1>6, <1>7, <1>8, <1>9, <1>10, <1>11, <1>12,
     <1>13, <1>14, <1>15, <1>16, <1>17, <1>18, <1>19, <1>20, <1>21, <1>22, <1>23, <1>24
     DEF Next, MainStep, ClientStep

(* Between a late accept and the next there is a test of end.              *)
LEMMA LateStep ==
  ASSUME TypeInv, ControlInv, LateInv, [Next]_vars
  PROVE  LateInv'
<1> USE DEF TypeInv, TypeOK, ControlInv, LateInv, flags, history, clientVars, Gone
<1>1. CASE EnterLoop
  BY <1>1 DEF EnterLoop
<1>2. CASE CheckEnd
  BY <1>2 DEF CheckEnd
<1>3. CASE Arm
  BY <1>3 DEF Arm
<1>4. CASE Accept
  BY <1>4 DEF Accept
<1>5. CASE AcceptFails
  BY <1>5 DEF AcceptFails
<1>6. CASE Disarm
  BY <1>6 DEF Disarm
<1>7. CASE Scan
  BY <1>7 DEF Scan
<1>8. CASE ScanFails
  BY <1>8 DEF ScanFails, Continue
<1>9. CASE NotFound
  BY <1>9 DEF NotFound, Refuse, Continue, Write
<1>10. CASE Forbidden
  BY <1>10 DEF Forbidden, Refuse, Continue, Write
<1>11. CASE CannotOpen
  BY <1>11 DEF CannotOpen, Refuse, Continue, Write
<1>12. CASE Ok
  BY <1>12 DEF Ok, Write
<1>13. CASE WriteSize
  BY <1>13 DEF WriteSize, Write
<1>14. CASE WriteBlock
  BY <1>14 DEF WriteBlock, Write
<1>15. CASE LoseBlock
  BY <1>15 DEF LoseBlock
<1>16. CASE Close
  BY <1>16 DEF Close, Continue
<1>17. CASE Signal
  BY <1>17 DEF Signal, Blocked
<1>18. CASE BrokenPipe
  BY <1>18 DEF BrokenPipe
<1>19. CASE Idle
  BY <1>19 DEF Idle, vars
<1>20. ASSUME NEW c \in Client, Connect(c) PROVE LateInv'
  BY <1>20 DEF Connect, Connected, Queued
<1>21. ASSUME NEW c \in Client, Send(c) PROVE LateInv'
  BY <1>21 DEF Send, Connected
<1>22. ASSUME NEW c \in Client, Read(c) PROVE LateInv'
  BY <1>22 DEF Read
<1>23. ASSUME NEW c \in Client, HangUp(c) PROVE LateInv'
  BY <1>23 DEF HangUp
<1>24. CASE UNCHANGED vars
  BY <1>24 DEF vars
<1> QED
  BY <1>1, <1>2, <1>3, <1>4, <1>5, <1>6, <1>7, <1>8, <1>9, <1>10, <1>11, <1>12,
     <1>13, <1>14, <1>15, <1>16, <1>17, <1>18, <1>19, <1>20, <1>21, <1>22, <1>23, <1>24
     DEF Next, MainStep, ClientStep

LEMMA LastOrBefore ==
  ASSUME NEW n \in Nat, NEW j \in 1 .. n + 1
  PROVE  j \in 1 .. n \/ j = n + 1
OBVIOUS

(* Who is in the queue is there once and has been sent nothing.            *)
LEMMA QueueStep ==
  ASSUME TypeInv, QueueInv, [Next]_vars
  PROVE  QueueInv'
<1> USE Constants, ClientAssumption DEF TypeInv, TypeOK, QueueInv, flags, history, clientVars
<1>1. CASE EnterLoop
  BY <1>1 DEF EnterLoop
<1>2. CASE CheckEnd
  BY <1>2 DEF CheckEnd
<1>3. CASE Arm
  BY <1>3 DEF Arm
<1>4. CASE Accept
  <2>1. /\ Head(queue) = queue[1] /\ 1 \in DOMAIN queue
        /\ \A j \in DOMAIN Tail(queue) :
             /\ j \in Nat /\ j + 1 \in DOMAIN queue /\ j + 1 # 1
             /\ Tail(queue)[j] = queue[j + 1]
        /\ Cardinality(open \cup {Head(queue)}) <= MaxFiles
    BY <1>4, AcceptFact
  <2>2. Head(queue) \in Client /\ open' = open \cup {Head(queue)}
    BY <1>4, <2>1 DEF Accept
  <2>3. Cardinality(open') <= MaxFiles
    BY <2>1, <2>2
  <2>4. \A j \in DOMAIN queue' : queue'[j] \notin open' /\ stream'[queue'[j]] = <<>>
    BY <1>4, <2>1, <2>2 DEF Accept
  <2>5. \A j, k \in DOMAIN queue' : queue'[j] = queue'[k] => j = k
    <3> SUFFICES ASSUME NEW j \in DOMAIN queue', NEW k \in DOMAIN queue',
                        queue'[j] = queue'[k]
                 PROVE  j = k
      OBVIOUS
    <3>1. j + 1 = k + 1
      BY <1>4, <2>1 DEF Accept
    <3>2. j \in Nat /\ k \in Nat
      BY <1>4, <2>1 DEF Accept
    <3> QED
      BY <3>1, <3>2
  <2> QED
    BY <2>3, <2>4, <2>5
<1>5. CASE AcceptFails
  BY <1>5 DEF AcceptFails
<1>6. CASE Disarm
  BY <1>6 DEF Disarm
<1>7. CASE Scan
  BY <1>7 DEF Scan
<1>8. CASE ScanFails
  BY <1>8 DEF ScanFails, Continue
<1>9. CASE NotFound
  BY <1>9 DEF NotFound, Refuse, Continue, Write
<1>10. CASE Forbidden
  BY <1>10 DEF Forbidden, Refuse, Continue, Write
<1>11. CASE CannotOpen
  BY <1>11 DEF CannotOpen, Refuse, Continue, Write
<1>12. CASE Ok
  BY <1>12 DEF Ok, Write
<1>13. CASE WriteSize
  BY <1>13 DEF WriteSize, Write
<1>14. CASE WriteBlock
  BY <1>14 DEF WriteBlock, Write
<1>15. CASE LoseBlock
  BY <1>15 DEF LoseBlock
<1>16. CASE Close
  <2>1. conn \in Client /\ open' = open \ {conn}
    BY <1>16 DEF Close
  <2>2. Cardinality(open') <= MaxFiles
    BY <2>1, CloseFact
  <2> QED
    BY <1>16, <2>1, <2>2 DEF Close
<1>17. CASE Signal
  BY <1>17 DEF Signal, Blocked
<1>18. CASE BrokenPipe
  BY <1>18 DEF BrokenPipe
<1>19. CASE Idle
  BY <1>19 DEF Idle, vars
<1>20. ASSUME NEW c \in Client, Connect(c) PROVE QueueInv'
  <2>1. /\ Len(queue) \in Nat /\ DOMAIN queue = 1 .. Len(queue)
        /\ \A j \in DOMAIN queue' : j \in 1 .. Len(queue) + 1
        /\ \A j \in 1 .. Len(queue) : j \in DOMAIN queue /\ queue'[j] = queue[j]
        /\ queue'[Len(queue) + 1] = c
    BY <1>20, AppendProperties DEF Connect
  <2>2. \A j \in DOMAIN queue : queue[j] # c
    BY <1>20 DEF Connect, Connected, Queued
  <2> QED
    <3>1. \A j, k \in DOMAIN queue' : queue'[j] = queue'[k] => j = k
      <4> SUFFICES ASSUME NEW j \in DOMAIN queue', NEW k \in DOMAIN queue',
                          queue'[j] = queue'[k]
                   PROVE  j = k
        OBVIOUS
      <4>1. CASE j \in 1 .. Len(queue) /\ k \in 1 .. Len(queue)
        BY <2>1, <4>1
      <4>2. CASE j = Len(queue) + 1 /\ k \in 1 .. Len(queue)
        BY <2>1, <2>2, <4>2
      <4>3. CASE k = Len(queue) + 1 /\ j \in 1 .. Len(queue)
        BY <2>1, <2>2, <4>3
      <4>4. /\ Len(queue) \in Nat
            /\ j \in 1 .. Len(queue) + 1 /\ k \in 1 .. Len(queue) + 1
        BY <2>1, Zenon
      <4>5. /\ j \in 1 .. Len(queue) \/ j = Len(queue) + 1
            /\ k \in 1 .. Len(queue) \/ k = Len(queue) + 1
        BY <4>4, LastOrBefore, Zenon
      <4>6. CASE j = Len(queue) + 1 /\ k = Len(queue) + 1
        BY <4>6, Zenon
      <4> QED
        BY <4>1, <4>2, <4>3, <4>5, <4>6, Zenon
    <3>2. \A j \in DOMAIN queue' :
            queue'[j] \notin open' /\ stream'[queue'[j]] = <<>>
      BY <1>20, <2>1 DEF Connect, Connected
    <3> QED
      BY <1>20, <3>1, <3>2 DEF Connect
<1>21. ASSUME NEW c \in Client, Send(c) PROVE QueueInv'
  BY <1>21 DEF Send, Connected, Queued
<1>22. ASSUME NEW c \in Client, Read(c) PROVE QueueInv'
  BY <1>22 DEF Read
<1>23. ASSUME NEW c \in Client, HangUp(c) PROVE QueueInv'
  BY <1>23 DEF HangUp
<1>24. CASE UNCHANGED vars
  BY <1>24 DEF vars
<1> QED
  BY <1>1, <1>2, <1>3, <1>4, <1>5, <1>6, <1>7, <1>8, <1>9, <1>10, <1>11, <1>12,
     <1>13, <1>14, <1>15, <1>16, <1>17, <1>18, <1>19, <1>20, <1>21, <1>22, <1>23, <1>24
     DEF Next, MainStep, ClientStep

-----------------------------------------------------------------------------
(* Three ways to keep AnswerInv: the client in hand stays the same, ...    *)
LEMMA KeepConn ==
  ASSUME AnswerInv, UNCHANGED <<end, conn, open, asks, sent, left, queue>>,
         \A c \in Client : c # conn => stream'[c] = stream[c],
         ~end /\ conn # None => InHand'
  PROVE  AnswerInv'
<1>1. \A c \in Client : Answer(c)' = Answer(c) /\ (Queued(c)' <=> Queued(c))
  BY DEF Answer, Queued
<1>2. \A c \in Client : LetGo(c) /\ c # conn => LetGo(c)'
  BY <1>1 DEF LetGo
<1> QED
  BY <1>1, <1>2 DEF AnswerInv

(* ... it is let go, ...                                                   *)
LEMMA Dismiss ==
  ASSUME AnswerInv, conn \in Client, conn' = None, open' \subseteq open,
         UNCHANGED <<end, asks, sent, left, queue>>,
         \A c \in Client : c # conn => stream'[c] = stream[c],
         \A c \in Client : c = conn /\ ~end /\ c \notin left => LetGo(c)'
  PROVE  AnswerInv'
<1>1. \A c \in Client : Answer(c)' = Answer(c) /\ (Queued(c)' <=> Queued(c))
  BY DEF Answer, Queued
<1>2. conn # None
  BY ClientAssumption
<1>3. \A c \in Client : LetGo(c) /\ c # conn => LetGo(c)'
  BY <1>1, <1>2 DEF LetGo
<1> QED
  BY <1>1, <1>2, <1>3 DEF AnswerInv

(* ... or the head of the queue is taken in hand.                          *)
LEMMA TakeConn ==
  ASSUME TypeInv, ControlInv, QueueInv, AnswerInv, Accept
  PROVE  AnswerInv'
<1>1. /\ Head(queue) = queue[1] /\ 1 \in DOMAIN queue
      /\ \A j \in DOMAIN Tail(queue) :
           /\ j \in Nat /\ j + 1 \in DOMAIN queue /\ j + 1 # 1
           /\ Tail(queue)[j] = queue[j + 1]
  BY AcceptFact
<1>2. \A j \in DOMAIN queue :
        j = 1 \/ (j - 1 \in DOMAIN Tail(queue)
                  /\ queue[j] = Tail(queue)[j - 1])
  <2>1. queue \in Seq(Client) /\ queue # <<>>
    BY DEF Accept, TypeInv, TypeOK
  <2> QED
    BY <2>1
<1>3. \A c \in Client : Answer(c)' = Answer(c)
  BY DEF Answer, Accept
<1>4. \A c \in Client : c # conn' => (Queued(c)' <=> Queued(c))
  BY <1>1, <1>2 DEF Queued, Accept
<1>5. /\ conn = None /\ Cardinality(open) # MaxFiles /\ pc' = "disarm"
      /\ conn' = Head(queue) /\ open' = open \cup {Head(queue)}
      /\ UNCHANGED <<end, asks, sent, left, stream>>
  BY Constants, OpenFact DEF Accept, ControlInv, flags
<1>6. \A c \in Client : LetGo(c) /\ c # conn' => LetGo(c)'
  BY <1>3, <1>5 DEF LetGo
<1>7. InHand'
  BY <1>1, <1>5 DEF InHand, QueueInv
<1> QED
  BY <1>4, <1>5, <1>6, <1>7, ClientAssumption DEF AnswerInv

(* What is written to a client that is refused.                            *)
LEMMA RefuseFact ==
  ASSUME TypeInv, conn \in Client, stream[conn] = <<>>,
         NEW status \in Item, Refuse(status)
  PROVE  /\ stream'[conn] = <<status>>
         /\ \A c \in Client : c # conn => stream'[c] = stream[c]
         /\ conn' = None
         /\ UNCHANGED <<end, open, asks, sent, left, queue>>
<1>1. Write(status)
  BY DEF Refuse
<1>2. Append(<<>>, status) = <<status>>
  OBVIOUS
<1> QED
  BY <1>1, <1>2, WriteFact DEF Refuse, Continue, flags, clientVars

(***************************************************************************)
(* Until a signal is handled every answer is written from its beginning to *)
(* its end.                                                                *)
(***************************************************************************)
LEMMA AnswerStep ==
  ASSUME IInv, [Next]_vars
  PROVE  AnswerInv'
<1> USE DEF IInv
<1> DEFINE same == UNCHANGED <<end, conn, open, asks, sent, left, queue>>
<1>1. ASSUME \/ EnterLoop \/ CheckEnd \/ Arm \/ AcceptFails \/ Disarm \/ Scan
             \/ BrokenPipe \/ Idle \/ (\E c \in Client : Read(c))
             \/ UNCHANGED vars
      PROVE  AnswerInv'
  <2>1. same /\ UNCHANGED stream
    BY <1>1 DEF EnterLoop, CheckEnd, Arm, AcceptFails, Disarm, Scan, BrokenPipe,
                Idle, Read, vars, flags, clientVars
  <2>2. ASSUME ~end, conn # None PROVE InHand'
    <3>1. InHand
      BY <2>2 DEF AnswerInv
    <3>2. CASE Scan
      BY <2>1, <3>1, <3>2 DEF Scan, InHand
    <3>3. CASE Disarm
      BY <2>1, <3>1, <3>3 DEF Disarm, InHand
    <3>4. CASE EnterLoop \/ CheckEnd \/ Arm \/ AcceptFails
      BY <2>2, <3>4 DEF EnterLoop, CheckEnd, Arm, AcceptFails, ControlInv
    <3>5. CASE BrokenPipe
      BY <3>5 DEF BrokenPipe, InHand
    <3>6. CASE Idle \/ (\E c \in Client : Read(c)) \/ UNCHANGED vars
      <4>1. UNCHANGED <<pc, block>>
        BY <3>6 DEF Idle, Read, vars
      <4>2. Prefix(block - 1)' = Prefix(block - 1)
        BY <4>1 DEF Prefix, Length
      <4> QED
        BY <2>1, <3>1, <4>1, <4>2 DEF InHand
    <3> QED
      BY <1>1, <3>2, <3>3, <3>4, <3>5, <3>6
  <2> QED
    BY <2>1, <2>2, KeepConn
<1>2. CASE Accept
  BY <1>2, TakeConn
<1>3. CASE ScanFails
  <2>1. conn \in Client /\ conn # None
    BY <1>3, ClientAssumption DEF ScanFails, TypeInv, TypeOK
  <2>2. conn' = None /\ UNCHANGED <<end, open, asks, sent, left, queue, stream>>
    BY <1>3 DEF ScanFails, Continue, flags, clientVars
  <2>3. ASSUME NEW c \in Client, c = conn, ~end, c \notin left PROVE LetGo(c)'
    <3>1. sent[c] > 0 /\ asks[c] = "malformed"
      BY <1>3, <2>3 DEF ScanFails, ControlInv
    <3>2. stream[c] = <<>>
      BY <1>3, <2>1, <2>3 DEF ScanFails, AnswerInv, InHand
    <3>3. stream[c] = Answer(c)
      BY <3>1, <3>2 DEF Answer
    <3>4. Answer(c)' = Answer(c)
      BY <2>2 DEF Answer
    <3> QED
      BY <2>2, <3>1, <3>3, <3>4 DEF LetGo
  <2> QED
    BY <2>1, <2>2, <2>3, Dismiss
<1>4. ASSUME NotFound \/ Forbidden \/ CannotOpen
      PROVE  AnswerInv'
  <2>1. pc = "look" /\ conn \in Client /\ conn # None
    BY <1>4, ClientAssumption
       DEF NotFound, Forbidden, CannotOpen, TypeInv, TypeOK
  <2>2. CASE end
    BY <1>4, <2>2 DEF NotFound, Forbidden, CannotOpen, Refuse, flags, AnswerInv
  <2>3. CASE ~end
    <3>1. stream[conn] = <<>> /\ sent[conn] > 0
      BY <2>1, <2>3 DEF AnswerInv, InHand
    <3>2. PICK status \in Item :
            /\ Refuse(status)
            /\ \/ asks[conn] = "missing" /\ status = 404
               \/ asks[conn] = "unreadable" /\ status = 403
               \/ /\ asks[conn] = "readable" /\ status = 404
                  /\ Cardinality(open) >= MaxFiles
      BY <1>4, Constants DEF NotFound, Forbidden, CannotOpen
    <3>3. /\ stream'[conn] = <<status>>
          /\ \A c \in Client : c # conn => stream'[c] = stream[c]
          /\ conn' = None
          /\ UNCHANGED <<end, open, asks, sent, left, queue>>
      BY <2>1, <3>1, <3>2, RefuseFact
    <3>4. Cardinality(open) >= MaxFiles => Cardinality(open) = MaxFiles
      BY OpenFact, Constants DEF QueueInv
    <3>5. ASSUME NEW c \in Client, c = conn PROVE LetGo(c)'
      <4>1. Answer(c)' = Answer(c)
        BY <3>3 DEF Answer
      <4>2. \/ <<status>> = Answer(c)
            \/ /\ asks[c] = "readable" /\ status = 404
               /\ Cardinality(open) >= MaxFiles
        BY <3>2, <3>5 DEF Answer
      <4> QED
        BY <3>1, <3>3, <3>4, <3>5, <4>1, <4>2 DEF LetGo
    <3> QED
      BY <2>1, <3>3, <3>5, Dismiss
  <2> QED
    BY <2>2, <2>3
<1>5. CASE Ok
  <2>1. conn \in Client /\ Write(200) /\ pc = "look" /\ pc' = "size" /\ same
        /\ asks[conn] = "readable"
    BY <1>5 DEF Ok, flags, clientVars, TypeInv, TypeOK
  <2>2. /\ stream'[conn] = Append(stream[conn], 200)
        /\ \A c \in Client : c # conn => stream'[c] = stream[c]
    BY <2>1, WriteFact, Constants
  <2>3. ASSUME ~end, conn # None PROVE InHand'
    <3>1. stream[conn] = <<>> /\ sent[conn] > 0
      BY <2>1, <2>3 DEF AnswerInv, InHand
    <3>2. stream'[conn] = <<200>>
      BY <2>2, <3>1
    <3> QED
      BY <2>1, <3>1, <3>2 DEF InHand
  <2> QED
    BY <2>1, <2>2, <2>3, KeepConn
<1>6. CASE WriteSize
  <2>1. conn \in Client /\ Write(Length) /\ pc = "size" /\ pc' = "body" /\ same
        /\ block' = 1
    BY <1>6 DEF WriteSize, flags, clientVars, TypeInv, TypeOK
  <2>2. /\ stream'[conn] = Append(stream[conn], Length)
        /\ \A c \in Client : c # conn => stream'[c] = stream[c]
    BY <2>1, WriteFact, Constants
  <2>3. ASSUME ~end, conn # None PROVE InHand'
    <3>1. stream[conn] = <<200>> /\ sent[conn] > 0 /\ asks[conn] = "readable"
      BY <2>1, <2>3 DEF AnswerInv, InHand
    <3>2. stream'[conn] = Prefix(0)
      <4>1. Append(<<200>>, Length) = <<200, Length>>
        <5>1. <<200>> \in Seq(Nat) /\ Len(<<200>>) = 1 /\ <<200>>[1] = 200
              /\ Length \in Nat
          BY DEF Length
        <5>2. /\ Append(<<200>>, Length) \in Seq(Nat)
              /\ Len(Append(<<200>>, Length)) = 2
              /\ Append(<<200>>, Length)[1] = 200
              /\ Append(<<200>>, Length)[2] = Length
          BY <5>1, AppendProperties
        <5>3. /\ <<200, Length>> \in Seq(Nat) /\ Len(<<200, Length>>) = 2
              /\ <<200, Length>>[1] = 200 /\ <<200, Length>>[2] = Length
          BY <5>1
        <5>4. \A j \in 1 .. Len(Append(<<200>>, Length)) :
                Append(<<200>>, Length)[j] = <<200, Length>>[j]
          BY <5>2, <5>3
        <5> QED
          BY <5>2, <5>3, <5>4, SeqEqual
      <4> QED
        BY <2>2, <3>1, <4>1, PrefixFact
    <3>3. Prefix(block - 1)' = Prefix(0)
      BY <2>1 DEF Prefix, Length
    <3> QED
      BY <2>1, <3>1, <3>2, <3>3 DEF InHand
  <2> QED
    BY <2>1, <2>2, <2>3, KeepConn
<1>7. CASE WriteBlock
  <2>1. conn \in Client /\ Write(block) /\ pc = "body" /\ pc' = "body" /\ same
        /\ block' = block + 1 /\ block \in Item /\ block - 1 \in Nat
        /\ block \in Nat
    BY <1>7, Constants DEF WriteBlock, flags, clientVars, TypeInv, TypeOK
  <2>2. /\ stream'[conn] = Append(stream[conn], block)
        /\ \A c \in Client : c # conn => stream'[c] = stream[c]
    BY <2>1, WriteFact
  <2>3. ASSUME ~end, conn # None PROVE InHand'
    <3>1. /\ stream[conn] = Prefix(block - 1)
          /\ sent[conn] > 0 /\ asks[conn] = "readable"
      BY <2>1, <2>3 DEF AnswerInv, InHand
    <3>2. (block - 1) + 1 = block /\ block' - 1 = block
      BY <2>1
    <3>3. Append(Prefix(block - 1), block) = Prefix(block)
      <4> HIDE DEF Prefix
      <4> QED
        BY <2>1, <3>2, PrefixFact
    <3>4. Prefix(block - 1)' = Prefix(block)
      BY <3>2 DEF Prefix, Length
    <3> QED
      BY <2>1, <2>2, <3>1, <3>3, <3>4 DEF InHand
  <2> QED
    BY <2>1, <2>2, <2>3, KeepConn
<1>8. CASE Close
  <2>1. conn \in Client /\ conn # None /\ pc = "body"
        /\ block - 1 = Blocks /\ open' = open \ {conn} /\ conn' = None
        /\ UNCHANGED <<end, asks, sent, left, queue, stream>>
    BY <1>8, ClientAssumption, Constants
       DEF Close, Continue, flags, clientVars, TypeInv, TypeOK
  <2>2. ASSUME NEW c \in Client, c = conn, ~end, c \notin left PROVE LetGo(c)'
    <3>1. stream[c] = Prefix(Blocks) /\ asks[c] = "readable"
      BY <2>1, <2>2 DEF AnswerInv, InHand
    <3>2. Answer(c) = Prefix(Blocks)
      BY <3>1, PrefixFact
    <3>3. Answer(c)' = Answer(c)
      BY <2>1 DEF Answer
    <3> QED
      BY <2>1, <2>2, <3>1, <3>2, <3>3 DEF LetGo
  <2> QED
    BY <2>1, <2>2, Dismiss
<1>9. CASE Signal \/ LoseBlock
  BY <1>9 DEF Signal, LoseBlock, ControlInv, flags, AnswerInv
<1>10. ASSUME NEW d \in Client, Connect(d) \/ Send(d) \/ HangUp(d)
       PROVE  AnswerInv'
  <2>1. /\ UNCHANGED <<end, conn, open, asks, stream, pc, block>>
        /\ left \subseteq left' /\ conn \in Client \cup {None}
    BY <1>10 DEF Connect, Send, HangUp, flags, TypeInv, TypeOK
  <2>2. /\ \A c \in Client : sent[c] > 0 => sent'[c] > 0
        /\ \A c \in Client : c # d => sent'[c] = sent[c]
        /\ sent'[d] # sent[d] => Connected(d)
    <3>1. sent \in [Client -> 0 .. 2]
      BY DEF TypeInv, TypeOK
    <3> QED
      BY <1>10, <3>1 DEF Connect, Send, HangUp
  <2>3. \A c \in Client : Queued(c) => Queued(c)'
    <3>1. queue \in Seq(Client)
      BY DEF TypeInv, TypeOK
    <3>2. \A j \in DOMAIN queue : j \in DOMAIN queue' /\ queue'[j] = queue[j]
      BY <1>10, <3>1 DEF Connect, Send, HangUp
    <3> QED
      BY <3>2 DEF Queued
  <2>4. \A c \in Client : Answer(c)' = Answer(c)
    BY <2>1 DEF Answer
  <2>5. ASSUME ~end, conn # None PROVE InHand'
    <3>1. InHand /\ conn \in Client
      BY <2>1, <2>5 DEF AnswerInv
    <3>2. Prefix(block - 1)' = Prefix(block - 1)
      BY <2>1 DEF Prefix, Length
    <3> QED
      BY <2>1, <2>2, <3>1, <3>2 DEF InHand
  <2>6. ASSUME NEW c \in Client, ~end, ~Queued(c)', c # conn, c \notin left'
        PROVE  LetGo(c)'
    <3>1. LetGo(c) /\ ~Queued(c)
      BY <2>1, <2>3, <2>6 DEF AnswerInv
    <3>2. (sent'[c] > 0) <=> (sent[c] > 0)
      BY <2>2, <3>1 DEF LetGo, Connected
    <3> QED
      BY <2>1, <2>4, <3>1, <3>2 DEF LetGo
  <2> QED
    BY <2>1, <2>5, <2>6 DEF AnswerInv
<1> QED
  BY <1>1, <1>2, <1>3, <1>4, <1>5, <1>6, <1>7, <1>8, <1>9, <1>10
     DEF Next, MainStep, ClientStep

LEMMA NextIInv == IInv /\ [Next]_vars => IInv'
  BY TypeStep, ControlStep, LateStep, QueueStep, AnswerStep DEF IInv

LEMMA Inductive == Spec => []IInv
  BY InitIInv, NextIInv, PTL DEF Spec

(* The types; interrupted system calls are those main can sleep in.        *)
THEOREM TypeCorrect == Spec => []TypeOK
<1>1. IInv => TypeOK
  BY DEF IInv, TypeInv
<1> QED
  BY <1>1, Inductive, PTL

(***************************************************************************)
(* However many signals come and wherever the handler interrupts main, at  *)
(* most one connection is accepted after `end' has been set.               *)
(***************************************************************************)
THEOREM OneLate == Spec => []AtMostOneLate
<1>1. IInv => AtMostOneLate
  BY DEF IInv, LateInv, AtMostOneLate
<1> QED
  BY <1>1, Inductive, PTL

(***************************************************************************)
(* For files of any size and any number of clients: whoever the server has *)
(* let go before a signal was sent exactly its answer, except for files    *)
(* that are not found once every descriptor is used up.                    *)
(***************************************************************************)
THEOREM Answered == Spec => []AnsweredInFull
<1>1. IInv => AnsweredInFull
  BY DEF IInv, AnswerInv, LetGo, AnsweredInFull
<1> QED
  BY <1>1, Inductive, PTL
=============================================================================
