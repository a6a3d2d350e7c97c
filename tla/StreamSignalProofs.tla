------------------------- MODULE StreamSignalProofs -------------------------
(***************************************************************************)
(* The safety of the programs that Streams and Signals run one at a time,  *)
(* for every value of their constants.                                     *)
(*                                                                         *)
(* Each program has an inductive invariant of its own, over its own        *)
(* variables; a step of another program leaves all of these alone.         *)
(***************************************************************************)
EXTENDS Streams, Signals,
        FiniteSetTheorems, SequenceTheorems, WellFoundedInduction, TLAPS

-----------------------------------------------------------------------------
(* azattius_server.c                                                       *)

ServerTypeOK ==
  /\ serverPc \in {"test", "wait", "got", "batch", "write", "exit", "killed"}
  /\ now_processed \in BOOLEAN
  /\ held \in Nat
  /\ client \in Clients \cup {"listener"}
  /\ sent \in [Clients -> Nat]
  /\ inbox \in [Clients -> Nat]
  /\ back \in [Clients -> Nat]
  /\ dropped \in Nat

(* What the server has read from c and not tried to write yet.             *)
HeldFrom(c) == IF client = c THEN held ELSE 0

(* A read piece is in the hands of the server only while now_processed     *)
(* keeps the handler from exiting; all others are answered or dropped.     *)
ServerInv ==
  /\ ServerTypeOK
  /\ serverPc \in {"batch", "write"} => now_processed
  /\ serverPc \notin {"write", "killed"} => held = 0
  /\ serverPc = "write" => client \in Clients
  /\ \A c \in Clients :
       /\ back[c] + HeldFrom(c) + inbox[c] <= sent[c]
       /\ dropped = 0 => back[c] + HeldFrom(c) + inbox[c] = sent[c]

LEMMA ServerInit == Init => ServerInv
<1>1. Init => Server!Init
  BY DEF Init
<1>2. ASSUME Server!Init PROVE ServerInv
  <2>1. ServerTypeOK
    BY <1>2 DEF Server!Init, Server!listener, ServerTypeOK
  <2>2. \A c \in Clients : sent[c] = 0 /\ inbox[c] = 0 /\ back[c] = 0
    BY <1>2 DEF Server!Init
  <2>3. serverPc = "test" /\ held = 0 
    BY <1>2 DEF Server!Init
  <2> QED
    BY <2>1, <2>2, <2>3 DEF ServerInv, HeldFrom
<1> QED
  BY <1>1, <1>2

(* The steps that neither read from a client nor write to one.             *)
LEMMA ServerQuietStep ==
  ASSUME ServerInv,
         \/ Server!handle_sig \/ Server!Test \/ Server!Wait \/ Server!Protect
         \/ Server!BrokenPipe \/ Server!EndBatch
         \/ \E c \in Clients :
              Server!Accept(c) \/ Server!CloseClient(c) \/ Server!Connect(c)
                \/ Server!HangUp(c)
  PROVE  ServerInv'
BY DEF ServerInv, ServerTypeOK, HeldFrom, Server!handle_sig, Server!Running,
       Server!Test, Server!Wait, Server!Protect, Server!BrokenPipe,
       Server!EndBatch, Server!Accept, Server!CloseClient, Server!Connect,
       Server!HangUp, Server!server, Server!peers

LEMMA ServerSend ==
  ASSUME ServerInv, NEW c \in Clients, Server!Send(c)
  PROVE  ServerInv'
BY DEF ServerInv, ServerTypeOK, HeldFrom, Server!Send, Server!server

LEMMA ServerTake ==
  ASSUME ServerInv, NEW c \in Clients, Server!Take(c)
  PROVE  ServerInv'
BY DEF ServerInv, ServerTypeOK, HeldFrom, Server!Take

LEMMA ServerWrite ==
  ASSUME ServerInv, Server!Write
  PROVE  ServerInv'
BY DEF ServerInv, ServerTypeOK, HeldFrom, Server!Write

LEMMA ServerStep == ServerInv /\ [Next]_vars => ServerInv'
<1> SUFFICES ASSUME ServerInv, [Next]_vars PROVE ServerInv'
  OBVIOUS
<1>1. CASE Server!Next
  BY <1>1, ServerQuietStep, ServerSend, ServerTake, ServerWrite
  DEF Server!Next, Server!Step
<1>2. CASE UNCHANGED serverVars
  BY <1>2 DEF serverVars, ServerInv, ServerTypeOK, HeldFrom
<1> QED
  BY <1>1, <1>2
  DEF Next, CountNext, ServerNext, HttpNext, QueryNext, DecryptNext, GccNext,
      SplitNext, vars

(* A signal does not make azattius_server.c exit with text in hand.        *)
THEOREM ServerAnswersBeforeExit == Spec => []AnsweredBeforeExit
<1>1. ServerInv => AnsweredBeforeExit
  BY DEF ServerInv, ServerTypeOK, HeldFrom, AnsweredBeforeExit,
         Server!AnsweredBeforeExit
<1> QED
  BY <1>1, ServerInit, ServerStep, PTL DEF Spec

(* The handler leaves the server running only while a batch is worked on,  *)
(* so that it never sleeps, or has a new batch, after a signal.            *)
SignalIsSeen ==
  /\ sig_sent => serverPc \notin {"wait", "got"}
  /\ now_processed => serverPc \notin {"test", "wait", "got"}

LEMMA SignalSeenStep == SignalIsSeen /\ [Next]_vars => SignalIsSeen'
<1> SUFFICES ASSUME SignalIsSeen, [Next]_vars PROVE SignalIsSeen'
  OBVIOUS
<1>1. CASE Server!Next
  BY <1>1
  DEF SignalIsSeen, Server!Next, Server!Step, Server!handle_sig, Server!Running,
      Server!Test, Server!Wait, Server!Protect, Server!Write,
      Server!BrokenPipe, Server!EndBatch, Server!Accept, Server!Take,
      Server!CloseClient, Server!Connect, Server!Send, Server!HangUp,
      Server!server, Server!peers
<1>2. CASE UNCHANGED serverVars
  BY <1>2 DEF serverVars, SignalIsSeen
<1> QED
  BY <1>1, <1>2
  DEF Next, CountNext, ServerNext, HttpNext, QueryNext, DecryptNext, GccNext,
      SplitNext, vars

(* After a signal azattius_server.c begins no further batch of events.     *)
THEOREM NoBatchBegins == Spec => Server!NoBatchAfterSignal
<1>1. Init => SignalIsSeen
  BY DEF Init, Server!Init, SignalIsSeen
<1>2. ASSUME SignalIsSeen, [Next]_vars
      PROVE  [sig_sent => events' \subseteq events]_<<events, serverPc>>
  <2>1. CASE Server!Next
    BY <1>2, <2>1
    DEF SignalIsSeen, Server!Next, Server!Step, Server!handle_sig,
        Server!Test, Server!Wait, Server!Protect, Server!Write,
        Server!BrokenPipe, Server!EndBatch, Server!Accept, Server!Take,
        Server!CloseClient, Server!Connect, Server!Send, Server!HangUp,
        Server!server, Server!peers
  <2>2. CASE UNCHANGED serverVars
    BY <2>2 DEF serverVars
  <2> QED
    BY <1>2, <2>1, <2>2
    DEF Next, CountNext, ServerNext, HttpNext, QueryNext, DecryptNext, GccNext,
        SplitNext, vars
<1>3. SignalIsSeen /\ [Next]_vars
        => [sig_sent => events' \subseteq events]_<<events, serverPc>>
  BY <1>2
<1> QED
  BY <1>1, <1>3, SignalSeenStep, PTL DEF Spec, Server!NoBatchAfterSignal

-----------------------------------------------------------------------------
(* inf15-0                                                                 *)

CounterTypeOK ==
  /\ kind \in [1 .. N -> {"pipe", "socket", "file"}]
  /\ written \in [1 .. N -> Nat]
  /\ unread \in [1 .. N -> Nat]
  /\ hungup \in [1 .. N -> BOOLEAN]
  /\ count \in [1 .. N -> Nat]
  /\ pending \in SUBSET [entry : 1 .. N, in : BOOLEAN]
  /\ open \in SUBSET (1 .. N)

(* While the function runs, files_left counts the open descriptors, an     *)
(* input that was closed is exhausted, a batch names open inputs once, and *)
(* EPOLLHUP alone was reported only for a pipe that has nothing left.      *)
CounterRuns ==
  /\ files_left = Cardinality(open)
  /\ \A f \in 1 .. N :
       /\ count[f] + unread[f] = written[f]
       /\ f \notin open => hungup[f] /\ unread[f] = 0
  /\ \A e \in pending :
       /\ e.entry \in open
       /\ ~e.in => /\ kind[e.entry] = "pipe"
                   /\ hungup[e.entry] /\ unread[e.entry] = 0
  /\ \A d, e \in pending : d.entry = e.entry => d = e

CounterInv ==
  /\ CounterTypeOK
  /\ countPc # "returned" => CounterRuns
  /\ Counter!CountsEverything

LEMMA CounterInit == Init => CounterInv
<1>1. Init => Counter!Init
  BY DEF Init
<1>2. ASSUME Counter!Init PROVE CounterInv
  <2>1. CounterTypeOK
    BY <1>2 DEF Counter!Init, Counter!Entry, CounterTypeOK
  <2>2. countPc # "returned" /\ open = 1 .. N /\ files_left = N /\ pending = {}
    BY <1>2 DEF Counter!Init, Counter!Entry
  <2>3. Cardinality(open) = N
    BY <2>2, FS_Interval, CountAssumption
  <2>4. \A f \in 1 .. N : count[f] = 0 /\ unread[f] = 0 /\ written[f] = 0
    BY <1>2 DEF Counter!Init, Counter!Entry
  <2> QED
    BY <2>1, <2>2, <2>3, <2>4
    DEF CounterInv, CounterRuns, Counter!CountsEverything
<1> QED
  BY <1>1, <1>2

LEMMA CounterFinite == CounterTypeOK => IsFiniteSet(open)
<1>1. IsFiniteSet(1 .. N)
  BY FS_Interval, CountAssumption
<1> QED
  BY <1>1, FS_Subset DEF CounterTypeOK

LEMMA CounterPut ==
  ASSUME CounterInv, NEW f \in 1 .. N, Counter!Put(f)
  PROVE  CounterInv'
<1>1. CounterTypeOK'
  BY DEF CounterInv, CounterTypeOK, Counter!Put
<1>2. countPc' # "returned" => CounterRuns'
  <2> SUFFICES ASSUME countPc # "returned" PROVE CounterRuns'
    BY DEF Counter!Put
  <2>1. CounterTypeOK /\ CounterRuns
    BY DEF CounterInv
  <2>2. \A g \in 1 .. N :
          /\ count'[g] + unread'[g] = written'[g]
          /\ hungup'[g] = hungup[g]
          /\ hungup[g] => unread'[g] = unread[g]
    BY <2>1 DEF CounterTypeOK, CounterRuns, Counter!Put
  <2> QED
    BY <2>1, <2>2 DEF CounterTypeOK, CounterRuns, Counter!Put
<1>3. Counter!CountsEverything'
  BY DEF CounterInv, CounterTypeOK, Counter!CountsEverything, Counter!Put,
         Counter!Entry
<1> QED
  BY <1>1, <1>2, <1>3 DEF CounterInv

LEMMA CounterHangUp ==
  ASSUME CounterInv, NEW f \in 1 .. N, Counter!HangUp(f)
  PROVE  CounterInv'
<1>1. CounterTypeOK'
  BY DEF CounterInv, CounterTypeOK, Counter!HangUp
<1>2. countPc' # "returned" => CounterRuns'
  <2> SUFFICES ASSUME countPc # "returned" PROVE CounterRuns'
    BY DEF Counter!HangUp
  <2>1. CounterTypeOK /\ CounterRuns
    BY DEF CounterInv
  <2>2. \A g \in 1 .. N : hungup[g] => hungup'[g]
    BY <2>1 DEF CounterTypeOK, Counter!HangUp
  <2> QED
    BY <2>1, <2>2 DEF CounterTypeOK, CounterRuns, Counter!HangUp
<1>3. Counter!CountsEverything'
  BY DEF CounterInv, CounterTypeOK, Counter!CountsEverything, Counter!HangUp,
         Counter!Entry
<1> QED
  BY <1>1, <1>2, <1>3 DEF CounterInv

LEMMA CounterWait ==
  ASSUME CounterInv, Counter!Wait
  PROVE  CounterInv'
<1>1. CounterTypeOK /\ CounterRuns
  BY DEF CounterInv, Counter!Wait
<1>2. \A e \in pending' :
        \E f \in open :
          /\ kind[f] # "file" /\ (unread[f] > 0 \/ hungup[f])
          /\ e = [entry |-> f, in |-> unread[f] > 0 \/ kind[f] = "socket"]
  BY DEF Counter!Wait, Counter!Ready, Counter!Reported
<1>3. ASSUME NEW e \in pending'
      PROVE
        /\ e \in [entry : 1 .. N, in : BOOLEAN]
        /\ e.entry \in open
        /\ e.in = (unread[e.entry] > 0 \/ kind[e.entry] = "socket")
        /\ kind[e.entry] # "file"
        /\ unread[e.entry] > 0 \/ hungup[e.entry]
  <2>1. PICK f \in open :
          /\ kind[f] # "file" /\ (unread[f] > 0 \/ hungup[f])
          /\ e = [entry |-> f, in |-> unread[f] > 0 \/ kind[f] = "socket"]
    BY <1>2
  <2>2. f \in 1 .. N
    BY <1>1 DEF CounterTypeOK
  <2>3. (unread[f] > 0 \/ kind[f] = "socket") \in BOOLEAN
    OBVIOUS
  <2>4. e.entry = f /\ e.in = (unread[f] > 0 \/ kind[f] = "socket")
    BY <2>1, Zenon
  <2> QED
    BY <2>1, <2>2, <2>3, <2>4, Zenon
<1>4. \A d, e \in pending' : d.entry = e.entry => d = e
  BY <1>3
<1>5. CounterTypeOK'
  BY <1>1, <1>3 DEF CounterTypeOK, Counter!Wait, Counter!writers
<1>6. \A e \in pending' :
        ~e.in => /\ kind[e.entry] = "pipe"
                 /\ hungup[e.entry] /\ unread[e.entry] = 0
  BY <1>1, <1>3 DEF CounterTypeOK
<1>7. CounterRuns'
  BY <1>1, <1>3, <1>4, <1>6 DEF CounterRuns, Counter!Wait, Counter!writers
<1>8. countPc' # "returned"
  BY DEF Counter!Wait
<1> QED
  BY <1>5, <1>7, <1>8 DEF CounterInv, Counter!CountsEverything

LEMMA CounterReadAll ==
  ASSUME CounterInv, NEW f \in 1 .. N, Counter!ReadAll(f)
  PROVE  CounterInv'
<1> DEFINE e == [entry |-> f, in |-> TRUE]
<1>1. CounterTypeOK /\ CounterRuns
  BY DEF CounterInv, Counter!ReadAll
<1>2. e \in pending /\ f \in open /\ pending' = pending \ {e}
  BY <1>1 DEF CounterRuns, Counter!ReadAll
<1>3. \A d \in pending' : d \in pending /\ d.entry # f
  BY <1>1, <1>2 DEF CounterRuns
<1>4. files_left' = Cardinality(open')
  <2>1. IsFiniteSet(open)
    BY <1>1, CounterFinite
  <2>2. Cardinality(open \ {f}) = Cardinality(open) - 1
    BY <1>2, <2>1, FS_RemoveElement
  <2> QED
    BY <1>1, <2>2 DEF CounterRuns, Counter!ReadAll
<1>5. CounterTypeOK'
  <2>1. open' \in SUBSET (1 .. N) /\ pending' \in SUBSET pending
    BY <1>1 DEF CounterTypeOK, Counter!ReadAll
  <2>2. count' \in [1 .. N -> Nat] /\ unread' \in [1 .. N -> Nat]
    BY <1>1 DEF CounterTypeOK, Counter!ReadAll
  <2> QED
    BY <1>1, <2>1, <2>2 DEF CounterTypeOK, Counter!ReadAll
<1>6. \A g \in 1 .. N :
        /\ count'[g] + unread'[g] = written'[g]
        /\ g \notin open' => hungup'[g] /\ unread'[g] = 0
  BY <1>1 DEF CounterTypeOK, CounterRuns, Counter!ReadAll
<1>7. \A d \in pending' :
        /\ d.entry \in open'
        /\ ~d.in => /\ kind'[d.entry] = "pipe"
                    /\ hungup'[d.entry] /\ unread'[d.entry] = 0
  BY <1>1, <1>3 DEF CounterTypeOK, CounterRuns, Counter!ReadAll
<1>8. CounterRuns'
  BY <1>1, <1>3, <1>4, <1>6, <1>7 DEF CounterRuns
<1>9. countPc' # "returned"
  BY DEF Counter!ReadAll
<1> QED
  BY <1>5, <1>8, <1>9 DEF CounterInv, Counter!CountsEverything

(* EPOLLHUP alone ends the function, with a pipe that had nothing left.    *)
LEMMA CounterGiveUp ==
  ASSUME CounterInv, NEW f \in 1 .. N, Counter!GiveUp(f)
  PROVE  CounterInv'
<1>1. CounterTypeOK /\ CounterRuns
  BY DEF CounterInv, Counter!GiveUp
<1>2. /\ f \in open /\ kind[f] = "pipe" /\ hungup[f] /\ unread[f] = 0
  BY <1>1 DEF CounterRuns, Counter!GiveUp
<1>3. files_left > 0
  <2>1. IsFiniteSet(open)
    BY <1>1, CounterFinite
  <2>2. Cardinality(open) # 0 /\ Cardinality(open) \in Nat
    BY <1>2, <2>1, FS_EmptySet, FS_CardinalityType
  <2> QED
    BY <1>1, <2>2 DEF CounterRuns
<1>4. CounterTypeOK'
  BY <1>1 DEF CounterTypeOK, Counter!GiveUp, Counter!writers
<1>5. Counter!CountsEverything'
  BY <1>2, <1>3
  DEF Counter!CountsEverything, Counter!GiveUp, Counter!writers, Counter!Entry
<1>6. countPc' = "returned"
  BY DEF Counter!GiveUp
<1> QED
  BY <1>4, <1>5, <1>6 DEF CounterInv

(* No descriptor is left: every input is exhausted and counted.            *)
LEMMA CounterReturn ==
  ASSUME CounterInv, Counter!Return
  PROVE  CounterInv'
<1>1. CounterTypeOK /\ CounterRuns /\ files_left = 0
  BY DEF CounterInv, Counter!Return
<1>2. open = {}
  <2>1. IsFiniteSet(open)
    BY <1>1, CounterFinite
  <2> QED
    BY <1>1, <2>1, FS_EmptySet DEF CounterRuns
<1>3. \A f \in 1 .. N : hungup[f] /\ count[f] = written[f]
  BY <1>1, <1>2 DEF CounterRuns, CounterTypeOK
<1>4. count = written
  <2>1. /\ count = [f \in 1 .. N |-> count[f]]
        /\ written = [f \in 1 .. N |-> written[f]]
    BY <1>1 DEF CounterTypeOK
  <2>2. \A f \in 1 .. N : count[f] = written[f]
    BY <1>3
  <2> QED
    BY <2>1, <2>2
<1>5. written' = written /\ hungup' = hungup /\ result' = Counter!Total(written)
  BY <1>4 DEF Counter!Return, Counter!writers
<1>6. Counter!Total(written)' = Counter!Total(written)
  BY <1>5
<1>7. Counter!CountsEverything'
  BY <1>3, <1>5, <1>6 DEF Counter!CountsEverything, Counter!Entry
<1>8. CounterTypeOK' /\ countPc' = "returned"
  BY <1>1 DEF CounterTypeOK, Counter!Return, Counter!writers
<1> QED
  BY <1>7, <1>8 DEF CounterInv

LEMMA CounterStep == CounterInv /\ [Next]_vars => CounterInv'
<1> SUFFICES ASSUME CounterInv, [Next]_vars PROVE CounterInv'
  OBVIOUS
<1>1. CASE Counter!EndBatch
  <2>1. CounterTypeOK' /\ CounterRuns' /\ countPc' # "returned"
    BY <1>1
    DEF CounterInv, CounterTypeOK, CounterRuns, Counter!EndBatch,
        Counter!writers
  <2> QED
    BY <2>1 DEF CounterInv, Counter!CountsEverything
<1>2. CASE Counter!Next
  BY <1>1, <1>2, CounterPut, CounterHangUp, CounterWait, CounterReadAll,
     CounterGiveUp, CounterReturn
  DEF Counter!Next, Counter!Step, Counter!Entry
<1>3. CASE UNCHANGED counterVars
  BY <1>3
  DEF counterVars, CounterInv, CounterTypeOK, CounterRuns,
      Counter!CountsEverything, Counter!Entry
<1> QED
  BY <1>2, <1>3
  DEF Next, CountNext, ServerNext, HttpNext, QueryNext, DecryptNext, GccNext,
      SplitNext, vars
-----------------------------------------------------------------------------
(* The numbers to n, which are what is sent of a file in order.            *)
Numbers(n) == [k \in 1 .. n |-> k]
Has(s, p) == \E k \in DOMAIN s : s[k] = p

LEMMA JoinedHas ==
  ASSUME NEW s \in Seq(Int), NEW t \in Seq(Int), NEW p
  PROVE  /\ Has(s, p) => Has(s \o t, p)
         /\ Has(t, p) => Has(s \o t, p)
<1>1. /\ s \o t \in Seq(Int) /\ Len(s \o t) = Len(s) + Len(t)
      /\ \A k \in 1 .. Len(s) + Len(t) :
           (s \o t)[k] = IF k <= Len(s) THEN s[k] ELSE t[k - Len(s)]
  BY ConcatProperties
<1>2. Len(s) \in Nat /\ Len(t) \in Nat
  OBVIOUS
<1> DEFINE u == s \o t
<1>3. DOMAIN s = 1 .. Len(s) /\ DOMAIN t = 1 .. Len(t)
        /\ DOMAIN u = 1 .. Len(s) + Len(t)
  BY <1>1
<1>4. /\ \A k \in 1 .. Len(s) : u[k] = s[k]
      /\ \A k \in 1 .. Len(t) : u[Len(s) + k] = t[k]
  BY <1>1, <1>2
<1> HIDE DEF u
<1>5. ASSUME NEW k \in DOMAIN s, s[k] = p PROVE Has(u, p)
  <2>1. k \in DOMAIN u /\ u[k] = p
    BY <1>2, <1>3, <1>4, <1>5
  <2> QED
    BY <2>1 DEF Has
<1>6. ASSUME NEW k \in DOMAIN t, t[k] = p PROVE Has(u, p)
  <2>1. Len(s) + k \in DOMAIN u /\ u[Len(s) + k] = p
    BY <1>2, <1>3, <1>4, <1>6
  <2> QED
    BY <2>1 DEF Has
<1>7. Has(s, p) => Has(u, p)
  BY <1>5 DEF Has
<1>8. Has(t, p) => Has(u, p)
  BY <1>6 DEF Has
<1> QED
  BY <1>7, <1>8 DEF u

LEMMA CountingOn ==
  ASSUME NEW m \in Nat, NEW n \in Nat
  PROVE  Numbers(m) \o [k \in 1 .. n |-> m + k] = Numbers(m + n)
<1> DEFINE s == Numbers(m)
           t == [k \in 1 .. n |-> m + k]
<1>1. /\ s \in Seq(Nat) /\ Len(s) = m /\ \A k \in 1 .. m : s[k] = k
      /\ t \in Seq(Nat) /\ Len(t) = n /\ \A k \in 1 .. n : t[k] = m + k
  BY DEF Numbers
<1>2. /\ Numbers(m + n) \in Seq(Nat) /\ Len(Numbers(m + n)) = m + n
      /\ \A k \in 1 .. m + n : Numbers(m + n)[k] = k
  BY DEF Numbers
<1> HIDE DEF s, t
<1>3. /\ s \o t \in Seq(Nat) /\ Len(s \o t) = m + n
      /\ \A k \in 1 .. m + n :
           (s \o t)[k] = IF k <= m THEN s[k] ELSE t[k - m]
  BY <1>1, ConcatProperties
<1>4. \A k \in 1 .. m + n : (s \o t)[k] = k
  BY <1>1, <1>3
<1>5. s \o t = Numbers(m + n)
  BY <1>2, <1>3, <1>4, SeqEqual
<1> QED
  BY <1>5 DEF s, t
-----------------------------------------------------------------------------
(* The clients of inf21                                                    *)

HttpTypeOK ==
  /\ body \in Seq(BOOLEAN) /\ Len(body) < Modulus
  /\ answered \in 0 .. Header + Len(body)
  /\ got \in 0 .. answered

(* What has been read of a body that is text has been printed, and         *)
(* Content-Length says how much there is still to come.                    *)
HttpInv ==
  /\ HttpTypeOK
  /\ httpPc \in {"body", "done"} /\ Http!AllText /\ ~garbled =>
       /\ got >= Header
       /\ printed = SubSeq(body, 1, got - Header)
       /\ content_length = Len(body) - (got - Header)
  /\ httpPc = "done" => content_length = 0

UploadTypeOK ==
  /\ file_size \in Nat /\ file_size < Modulus /\ actual \in Nat
  /\ position \in 0 .. actual /\ block \in 0 .. position
  /\ total_bytes \in Nat /\ tmp_bytes \in Int /\ uploaded \in Seq(Int)
  /\ readErrors \in Nat /\ sendErrors \in Nat

(* The bytes of the file that may be missing are among the last tmp_bytes  *)
(* that were read, and in the block.                                       *)
SentBefore ==
  \A p \in 1 .. position :
    p <= position - tmp_bytes \/ p <= position - block => Has(uploaded, p)

SentInOrder ==
  sendErrors = 0 =>
    /\ tmp_bytes <= block
    /\ tmp_bytes > 0 => uploaded = Numbers(position - tmp_bytes)
    /\ tmp_bytes <= 0 => uploaded = Numbers(position)

(* total_bytes is what was read, less one for each read that failed; below *)
(* zero it is not less than the size.                                      *)
Counted ==
  \/ readErrors <= position /\ total_bytes = position - readErrors
  \/ readErrors > position /\ total_bytes >= file_size

UploadInv ==
  /\ UploadTypeOK /\ SentBefore /\ SentInOrder
  /\ httpPc = "request" => position = 0 /\ readErrors = 0
  /\ httpPc = "upload" => Counted
  /\ method = "POST" /\ httpPc \in {"head", "body", "done"} =>
       tmp_bytes <= 0 /\ (position >= file_size \/ readErrors > position)

LEMMA SmallestOf ==
  ASSUME NEW m \in Int, NEW n \in Int
  PROVE  /\ Http!Min({m, n}) \in Int
         /\ Http!Min({m, n}) = m \/ Http!Min({m, n}) = n
         /\ Http!Min({m, n}) <= m /\ Http!Min({m, n}) <= n
<1>1. \E x \in {m, n} : \A y \in {m, n} : x <= y
  OBVIOUS
<1> QED
  BY <1>1 DEF Http!Min

(* Text without a zero byte is printed as it is.                           *)
LEMMA TextIsWhole ==
  ASSUME NEW s \in Seq(BOOLEAN), \A k \in DOMAIN s : s[k]
  PROVE  Http!Text(s) = s
<1>1. {k \in DOMAIN s : ~s[k]} \cup {Len(s) + 1} = {Len(s) + 1}
  OBVIOUS
<1>2. Http!Min({Len(s) + 1}) = Len(s) + 1
  <2>1. Http!Min({Len(s) + 1}) \in {Len(s) + 1}
    BY DEF Http!Min
  <2> QED
    BY <2>1
<1> DEFINE first == Http!Min({k \in DOMAIN s : ~s[k]} \cup {Len(s) + 1})
<1>3. first = Len(s) + 1
  BY <1>1, <1>2
<1>4. Http!Text(s) = SubSeq(s, 1, first - 1)
  BY DEF Http!Text
<1> HIDE DEF first
<1>5. Http!Text(s) = SubSeq(s, 1, Len(s))
  BY <1>3, <1>4
<1> QED
  BY <1>5, SubSeqFull

(* A part of a text is a text.                                             *)
LEMMA PartOfText ==
  ASSUME HttpTypeOK, Http!AllText, NEW a \in 1 .. Len(body) + 1,
         NEW b \in a - 1 .. Len(body)
  PROVE  /\ Http!Text(SubSeq(body, a, b)) = SubSeq(body, a, b)
         /\ Len(SubSeq(body, a, b)) = b - a + 1
         /\ SubSeq(body, a, b) \in Seq(BOOLEAN)
<1>1. body \in Seq(BOOLEAN) /\ Len(body) \in Nat
  BY DEF HttpTypeOK
<1>2. \A k \in a .. b : body[k] \in BOOLEAN /\ body[k]
  BY <1>1 DEF Http!AllText
<1>3. /\ SubSeq(body, a, b) \in Seq(BOOLEAN)
      /\ Len(SubSeq(body, a, b)) = b - a + 1
      /\ \A k \in 1 .. b - a + 1 : SubSeq(body, a, b)[k] = body[a + k - 1]
  BY <1>2, SubSeqProperties
<1>4. ASSUME NEW k \in DOMAIN SubSeq(body, a, b) PROVE SubSeq(body, a, b)[k]
  <2>1. DOMAIN SubSeq(body, a, b) = 1 .. b - a + 1
    BY <1>3
  <2>2. k \in 1 .. b - a + 1 /\ a \in Int /\ b \in Int
    BY <1>1, <2>1
  <2>3. a + k - 1 \in a .. b
    BY <2>2
  <2>4. body[a + k - 1]
    BY <1>2, <2>3, Zenon
  <2>5. SubSeq(body, a, b)[k] = body[a + k - 1]
    BY <1>3, <2>2, Zenon
  <2> QED
    BY <2>4, <2>5, Zenon
<1> QED
  BY <1>3, <1>4, TextIsWhole

LEMMA SmallModulus ==
  ASSUME NEW x \in Nat, x < Modulus
  PROVE  x % Modulus = x
<1>1. Modulus \in Nat /\ Modulus > 0
  BY HttpAssumption
<1>2. PICK q \in Int, m \in 0 .. Modulus - 1 :
        x = Modulus * q + m /\ m = x % Modulus
  <2>1. /\ x \div Modulus \in Int /\ x % Modulus \in 0 .. Modulus - 1
        /\ x = Modulus * (x \div Modulus) + (x % Modulus)
    BY <1>1
  <2> QED
    BY <2>1
<1>3. q < 1
  <2> SUFFICES ASSUME q >= 1 PROVE FALSE
    BY <1>2
  <2>1. Modulus * q >= Modulus
    BY <1>1
  <2> QED
    BY <1>1, <1>2, <2>1
<1>4. q > -1
  <2> SUFFICES ASSUME q <= -1 PROVE FALSE
    BY <1>2
  <2>1. Modulus * q <= -Modulus
    BY <1>1
  <2> QED
    BY <1>1, <1>2, <2>1
<1>5. q = 0
  BY <1>3, <1>4
<1> QED
  BY <1>1, <1>2, <1>5

LEMMA HttpInit == Init => HttpInv /\ UploadInv
<1>1. Init => Http!Init
  BY DEF Init
<1>2. ASSUME Http!Init PROVE HttpInv
  <2>1. body \in Seq(BOOLEAN) /\ Len(body) < Modulus
    BY <1>2, HttpAssumption DEF Http!Init
  <2>2. HttpTypeOK
    BY <1>2, <2>1, HttpAssumption DEF Http!Init, HttpTypeOK
  <2> QED
    BY <1>2, <2>2 DEF Http!Init, HttpInv
<1>3. ASSUME Http!Init PROVE UploadInv
  <2>1. UploadTypeOK
    BY <1>3, HttpAssumption DEF Http!Init, UploadTypeOK
  <2>2. uploaded = Numbers(position)
    <3>1. \A k : k \notin 1 .. 0
      OBVIOUS
    <3>2. Numbers(0) = <<>>
      BY <3>1 DEF Numbers
    <3> QED
      BY <1>3, <3>2 DEF Http!Init
  <2>3. SentBefore /\ SentInOrder
    BY <1>3, <2>2 DEF Http!Init, SentBefore, SentInOrder
  <2> QED
    BY <1>3, <2>1, <2>3 DEF Http!Init, UploadInv
<1> QED
  BY <1>1, <1>2, <1>3

(* The request and the upload do not touch the answer.                     *)
LEMMA HttpUploadStep ==
  ASSUME HttpInv,
         \/ Http!SendRequest \/ Http!RequestSent \/ Http!ReadFile
         \/ Http!FileFails \/ Http!SendBlock \/ Http!SendFails \/ Http!Uploaded
  PROVE  HttpInv'
<1>1. /\ UNCHANGED <<body, answered, got>>
      /\ httpPc' \in {"request", "upload", "head"}
  BY DEF Http!SendRequest, Http!RequestSent, Http!ReadFile, Http!FileFails,
         Http!SendBlock, Http!SendFails, Http!Uploaded, Http!Reading,
         Http!input, Http!answer
<1> QED
  BY <1>1 DEF HttpInv, HttpTypeOK

(* A block is read.                                                        *)
LEMMA UploadRead ==
  ASSUME UploadInv, Http!ReadFile
  PROVE  UploadInv'
<1>1. /\ UploadTypeOK /\ httpPc = "upload" /\ tmp_bytes <= 0
      /\ total_bytes < file_size /\ position < actual
  BY DEF UploadInv, Http!ReadFile, Http!Reading
<1>2. /\ block' = Http!Min({HttpBuffer, actual - position})
      /\ tmp_bytes' = block' /\ position' = position + block'
      /\ total_bytes' = total_bytes + block'
      /\ UNCHANGED <<method, actual, file_size, httpPc, uploaded, readErrors,
                     sendErrors>>
  BY DEF Http!ReadFile, Http!input
<1>3. block' \in Nat /\ block' <= actual - position
  <2>1. HttpBuffer \in Nat /\ actual - position \in Nat
    BY <1>1, HttpAssumption DEF UploadTypeOK
  <2>2. /\ \/ Http!Min({HttpBuffer, actual - position}) = HttpBuffer
           \/ Http!Min({HttpBuffer, actual - position}) = actual - position
        /\ Http!Min({HttpBuffer, actual - position}) <= actual - position
    <3>1. HttpBuffer \in Int /\ actual - position \in Int
      BY <2>1
    <3> QED
      BY <3>1, SmallestOf, Zenon
  <2> QED
    BY <1>2, <2>1, <2>2
<1>4. UploadTypeOK'
  BY <1>1, <1>2, <1>3 DEF UploadTypeOK
<1>5. \A p \in 1 .. position : Has(uploaded, p)
  BY <1>1 DEF UploadInv, SentBefore, UploadTypeOK
<1>6. SentBefore'
  <2> SUFFICES ASSUME NEW p \in 1 .. position',
                      \/ p <= position' - tmp_bytes' \/ p <= position' - block'
               PROVE  Has(uploaded', p)
    BY DEF SentBefore
  <2>1. p \in 1 .. position
    BY <1>1, <1>2, <1>3 DEF UploadTypeOK
  <2> QED
    BY <1>2, <1>5, <2>1
<1>7. SentInOrder'
  <2> SUFFICES ASSUME sendErrors = 0
               PROVE  /\ tmp_bytes' <= block'
                      /\ uploaded = Numbers(position' - tmp_bytes')
                      /\ tmp_bytes' <= 0 => position' - tmp_bytes' = position'
    BY <1>2 DEF SentInOrder
  <2>1. uploaded = Numbers(position)
    BY <1>1 DEF UploadInv, SentInOrder
  <2>2. position' - tmp_bytes' = position
    BY <1>1, <1>2, <1>3 DEF UploadTypeOK
  <2>3. tmp_bytes' <= block' /\ (tmp_bytes' <= 0 => tmp_bytes' = 0)
    BY <1>2, <1>3
  <2>4. tmp_bytes' <= 0 => position' - tmp_bytes' = position'
    BY <1>1, <1>2, <1>3, <2>3 DEF UploadTypeOK
  <2> QED
    BY <2>1, <2>2, <2>3, <2>4
<1>8. Counted'
  <2>1. readErrors <= position /\ total_bytes = position - readErrors
    BY <1>1 DEF UploadInv, Counted, UploadTypeOK
  <2> QED
    BY <1>1, <1>2, <1>3, <2>1 DEF Counted, UploadTypeOK
<1> QED
  BY <1>1, <1>2, <1>4, <1>6, <1>7, <1>8 DEF UploadInv

(* A read fails: what was to be sent has been.                             *)
LEMMA UploadReadFails ==
  ASSUME UploadInv, Http!FileFails
  PROVE  UploadInv'
<1>1. /\ UploadTypeOK /\ httpPc = "upload" /\ tmp_bytes <= 0
      /\ total_bytes < file_size
  BY DEF UploadInv, Http!FileFails, Http!Reading
<1>2. /\ tmp_bytes' = -1 /\ readErrors' = readErrors + 1
      /\ total_bytes' = IF total_bytes = 0 THEN Modulus - 1
                                           ELSE total_bytes - 1
      /\ UNCHANGED <<method, actual, file_size, httpPc, position, block,
                     uploaded, sendErrors>>
  BY DEF Http!FileFails, Http!input
<1>3. UploadTypeOK'
  BY <1>1, <1>2, HttpAssumption DEF UploadTypeOK
<1>4. SentBefore' /\ SentInOrder'
  <2>1. /\ \A p \in 1 .. position : Has(uploaded, p)
        /\ sendErrors = 0 => uploaded = Numbers(position)
    BY <1>1 DEF UploadInv, SentBefore, SentInOrder, UploadTypeOK
  <2>2. tmp_bytes' <= block' /\ tmp_bytes' <= 0 /\ ~(tmp_bytes' > 0)
    BY <1>1, <1>2 DEF UploadTypeOK
  <2> QED
    BY <1>2, <2>1, <2>2 DEF SentBefore, SentInOrder
<1>5. Counted'
  <2>1. readErrors <= position /\ total_bytes = position - readErrors
    BY <1>1 DEF UploadInv, Counted, UploadTypeOK
  <2> QED
    BY <1>1, <1>2, <2>1, HttpAssumption DEF Counted, UploadTypeOK
<1> QED
  BY <1>1, <1>2, <1>3, <1>4, <1>5 DEF UploadInv

(* A part of the block is sent, or bytes before it.                        *)
LEMMA UploadSend ==
  ASSUME UploadInv, Http!SendBlock
  PROVE  UploadInv'
<1>1. UploadTypeOK /\ httpPc = "upload" /\ tmp_bytes > 0
  BY DEF UploadInv, Http!SendBlock
<1>2. PICK n \in 1 .. tmp_bytes :
        tmp_bytes' = tmp_bytes - n /\ uploaded' = uploaded \o Http!Sent(n)
  BY DEF Http!SendBlock
<1>3. UNCHANGED <<method, actual, file_size, httpPc, total_bytes, position,
                  block, readErrors, sendErrors>>
  BY DEF Http!SendBlock, Http!input
<1>4. n \in Nat /\ n >= 1 /\ n <= tmp_bytes
  BY <1>1 DEF UploadTypeOK
<1>5. /\ Http!Sent(n) \in Seq(Int) /\ DOMAIN Http!Sent(n) = 1 .. n
      /\ \A k \in 1 .. n :
           tmp_bytes - k < block =>
             Http!Sent(n)[k] = position - tmp_bytes + k
  BY <1>1, <1>4 DEF Http!Sent, UploadTypeOK
<1>6. UploadTypeOK'
  <2>1. uploaded' \in Seq(Int)
    BY <1>1, <1>2, <1>5, ConcatProperties DEF UploadTypeOK
  <2> QED
    BY <1>1, <1>2, <1>3, <1>4, <2>1 DEF UploadTypeOK
<1>7. SentBefore'
  <2> SUFFICES ASSUME NEW p \in 1 .. position,
                      \/ p <= position - (tmp_bytes - n)
                      \/ p <= position - block
               PROVE  Has(uploaded', p)
    BY <1>2, <1>3 DEF SentBefore
  <2>1. CASE p <= position - tmp_bytes \/ p <= position - block
    <3>1. Has(uploaded, p)
      BY <2>1 DEF UploadInv, SentBefore
    <3> QED
      BY <1>1, <1>2, <1>5, <3>1, JoinedHas DEF UploadTypeOK
  <2>2. CASE p > position - tmp_bytes /\ p > position - block
    <3>1. p - position + tmp_bytes \in 1 .. n
            /\ tmp_bytes - (p - position + tmp_bytes) < block
            /\ position - tmp_bytes + (p - position + tmp_bytes) = p
      BY <1>1, <1>4, <2>2 DEF UploadTypeOK
    <3>2. Http!Sent(n)[p - position + tmp_bytes] = p
      BY <1>5, <3>1
    <3>3. Has(Http!Sent(n), p)
      BY <1>5, <3>1, <3>2 DEF Has
    <3> QED
      BY <1>1, <1>2, <1>5, <3>3, JoinedHas DEF UploadTypeOK
  <2> QED
    BY <1>1, <2>1, <2>2 DEF UploadTypeOK
<1>8. SentInOrder'
  <2> SUFFICES ASSUME sendErrors = 0
               PROVE  /\ tmp_bytes' <= block
                      /\ tmp_bytes' > 0 =>
                           uploaded' = Numbers(position - tmp_bytes')
                      /\ tmp_bytes' <= 0 => uploaded' = Numbers(position)
    BY <1>3 DEF SentInOrder
  <2>1. tmp_bytes <= block /\ uploaded = Numbers(position - tmp_bytes)
    BY <1>1 DEF UploadInv, SentInOrder
  <2>2. position - tmp_bytes \in Nat
          /\ position - tmp_bytes' = position - tmp_bytes + n
    BY <1>1, <1>2, <1>4, <2>1 DEF UploadTypeOK
  <2>3. Http!Sent(n) = [k \in 1 .. n |-> position - tmp_bytes + k]
    <3>1. \A k \in 1 .. n : tmp_bytes - k < block
      BY <1>1, <1>4, <2>1 DEF UploadTypeOK
    <3> QED
      BY <3>1 DEF Http!Sent
  <2>4. uploaded' = Numbers(position - tmp_bytes')
    <3> DEFINE m == position - tmp_bytes
    <3>1. m \in Nat
      BY <2>2
    <3>2. Numbers(m) \o [k \in 1 .. n |-> m + k] = Numbers(m + n)
      <4> HIDE DEF m
      <4> QED
        BY <1>4, <3>1, CountingOn
    <3> QED
      BY <1>2, <2>1, <2>2, <2>3, <3>2
  <2>5. tmp_bytes' <= block /\ (tmp_bytes' <= 0 => position - tmp_bytes' = position)
    BY <1>1, <1>2, <1>4, <2>1 DEF UploadTypeOK
  <2> QED
    BY <2>4, <2>5
<1>9. Counted' = Counted
  BY <1>3 DEF Counted
<1> QED
  BY <1>1, <1>3, <1>6, <1>7, <1>8, <1>9 DEF UploadInv

LEMMA UploadStep == UploadInv /\ [Next]_vars => UploadInv'
<1> SUFFICES ASSUME UploadInv, [Next]_vars PROVE UploadInv'
  OBVIOUS
<1>1. CASE Http!SendFails
  <2>1. /\ UploadTypeOK /\ httpPc = "upload" /\ httpPc' = httpPc
        /\ tmp_bytes' = tmp_bytes + 1 /\ sendErrors' = sendErrors + 1
        /\ UNCHANGED <<method, actual, file_size, total_bytes, position, block,
                       uploaded, readErrors>>
    BY <1>1 DEF UploadInv, Http!SendFails, Http!input
  <2>2. UploadTypeOK' /\ sendErrors' # 0
    BY <2>1 DEF UploadTypeOK
  <2>3. ASSUME NEW p \in 1 .. position, p <= position - (tmp_bytes + 1)
        PROVE  p <= position - tmp_bytes
    BY <2>1, <2>3 DEF UploadTypeOK
  <2>4. SentBefore'
    BY <2>1, <2>3 DEF UploadInv, SentBefore
  <2> QED
    BY <2>1, <2>2, <2>4 DEF UploadInv, SentInOrder, Counted
<1>2. CASE Http!SendRequest \/ Http!RequestSent
  <2>1. /\ httpPc = "request" /\ position = 0 /\ readErrors = 0 /\ UploadTypeOK
        /\ total_bytes' \in Nat
    BY <1>2 DEF UploadInv, UploadTypeOK, Http!SendRequest, Http!RequestSent
  <2>2. UNCHANGED <<method, actual, file_size, position, block, tmp_bytes,
                    uploaded, readErrors, sendErrors>>
    BY <1>2 DEF Http!SendRequest, Http!RequestSent, Http!input, Http!upload
  <2>3. /\ httpPc' \in {"request", "head", "upload"}
        /\ httpPc' = "upload" => total_bytes' = 0
        /\ httpPc' = "head" => method = "GET"
    BY <1>2, <2>1 DEF Http!SendRequest, Http!RequestSent
  <2>4. UploadTypeOK' /\ SentBefore' /\ SentInOrder'
    BY <2>1, <2>2 DEF UploadInv, UploadTypeOK, SentBefore, SentInOrder
  <2> QED
    BY <2>1, <2>2, <2>3, <2>4 DEF UploadInv, Counted
<1>3. CASE Http!Uploaded
  <2>1. /\ httpPc = "upload" /\ tmp_bytes <= 0 /\ total_bytes >= file_size
        /\ httpPc' = "head" /\ UploadTypeOK /\ Counted
    BY <1>3 DEF UploadInv, Http!Uploaded
  <2>2. UNCHANGED <<method, actual, file_size, total_bytes, position, block,
                    tmp_bytes, uploaded, readErrors, sendErrors>>
    BY <1>3 DEF Http!Uploaded, Http!input, Http!upload
  <2>3. position >= file_size \/ readErrors > position
    BY <2>1 DEF Counted, UploadTypeOK
  <2> QED
    BY <2>1, <2>2, <2>3
    DEF UploadInv, UploadTypeOK, SentBefore, SentInOrder
<1>4. CASE \/ Http!Parse \/ Http!ParseFails \/ Http!ReadFails \/ Http!ReadBody
           \/ Http!Finish \/ Http!ServerSends \/ Http!ServerCloses
           \/ Http!SocketFails
  <2>1. UNCHANGED <<method, actual, file_size, total_bytes, position, block,
                    tmp_bytes, uploaded, readErrors, sendErrors>>
    BY <1>4
    DEF Http!Parse, Http!ParseFails, Http!ReadFails, Http!ReadBody, Http!Finish,
        Http!ServerSends, Http!ServerCloses, Http!SocketFails, Http!input,
        Http!upload
  <2>2. \/ httpPc' = httpPc
        \/ httpPc \in {"head", "body"} /\ httpPc' \in {"body", "done"}
        \/ httpPc' \in {"failed", "crashed"}
    BY <1>4
    DEF Http!Parse, Http!ParseFails, Http!ReadFails, Http!ReadBody, Http!Finish,
        Http!ServerSends, Http!ServerCloses, Http!SocketFails
  <2>3. UploadTypeOK' /\ SentBefore' /\ SentInOrder' /\ (Counted' <=> Counted)
    BY <2>1
    DEF UploadInv, UploadTypeOK, SentBefore, SentInOrder, Counted
  <2> QED
    BY <2>1, <2>2, <2>3 DEF UploadInv
<1>5. CASE Http!Next
  BY <1>1, <1>2, <1>3, <1>4, <1>5, UploadRead, UploadReadFails, UploadSend
  DEF Http!Next, Http!Step
<1>6. CASE UNCHANGED httpVars
  BY <1>6
  DEF httpVars, UploadInv, UploadTypeOK, SentBefore, SentInOrder, Counted
<1> QED
  BY <1>5, <1>6
  DEF Next, CountNext, ServerNext, HttpNext, QueryNext, DecryptNext, GccNext,
      SplitNext, vars

(* The header, and the part of the body that came with it.                 *)
LEMMA HttpParse ==
  ASSUME HttpInv, Http!Parse
  PROVE  HttpInv'
<1>1. HttpTypeOK /\ httpPc = "head" /\ httpPc' = "body"
  BY DEF HttpInv, Http!Parse
<1>2. PICK n \in Header .. Http!Min({Http!unread, HttpBuffer}),
           g \in 0 .. Garbage :
        LET ans == Http!Text(SubSeq(body, 1, n - Header))
        IN  /\ got' = n
            /\ printed' = ans \o [k \in 1 .. g |-> TRUE]
            /\ content_length' = (Len(body) - (Len(ans) + g)) % Modulus
            /\ garbled' = (g > 0)
  BY DEF Http!Parse
<1>3. Http!unread \in Nat /\ Http!unread <= answered
  BY <1>1 DEF HttpTypeOK, Http!unread
<1>4. n \in Nat /\ n >= Header /\ n <= answered
  <2>0. Http!unread \in Int /\ HttpBuffer \in Int
    BY <1>3, HttpAssumption
  <2>1. /\ Http!Min({Http!unread, HttpBuffer}) \in Int
        /\ Http!Min({Http!unread, HttpBuffer}) <= Http!unread
    BY <2>0, SmallestOf, Zenon
  <2> QED
    BY <1>1, <1>3, <2>1, HttpAssumption DEF HttpTypeOK
<1>5. HttpTypeOK'
  BY <1>1, <1>2, <1>4 DEF HttpTypeOK, Http!Parse, Http!input
<1>6. ASSUME Http!AllText, ~garbled'
      PROVE  /\ printed' = SubSeq(body, 1, got' - Header)
             /\ content_length' = Len(body) - (got' - Header)
  <2>1. g = 0
    <3>1. ~(g > 0)
      <4>1. garbled' = (g > 0)
        BY <1>2
      <4> QED
        BY <1>6, <4>1
    <3>2. g \in Nat
      BY HttpAssumption
    <3> QED
      BY <3>1, <3>2
  <2>2. n - Header \in 0 .. Len(body) /\ Len(body) \in Nat
    BY <1>1, <1>4, HttpAssumption DEF HttpTypeOK
  <2> DEFINE ans == SubSeq(body, 1, n - Header)
  <2>3. /\ Http!Text(ans) = ans
        /\ Len(ans) = n - Header
        /\ ans \in Seq(BOOLEAN)
    BY <1>1, <1>6, <2>2, PartOfText
  <2> HIDE DEF ans
  <2>4. /\ printed' = ans \o <<>>
        /\ content_length' = (Len(body) - Len(ans)) % Modulus
    <3>1. [k \in 1 .. 0 |-> TRUE] = <<>>
      OBVIOUS
    <3>2. /\ printed' = Http!Text(ans) \o [k \in 1 .. 0 |-> TRUE]
          /\ content_length' = (Len(body) - (Len(Http!Text(ans)) + 0)) % Modulus
      BY <1>2, <2>1 DEF ans
    <3> QED
      BY <2>2, <2>3, <3>1, <3>2
  <2>5. Len(body) - Len(ans) \in Nat /\ Len(body) - Len(ans) < Modulus
    BY <1>1, <2>2, <2>3, HttpAssumption DEF HttpTypeOK
  <2>6. content_length' = Len(body) - (n - Header)
    BY <2>3, <2>4, <2>5, SmallModulus
  <2>7. printed' = ans
    BY <2>3, <2>4
  <2> QED
    BY <1>2, <2>6, <2>7 DEF ans
<1>7. Http!AllText' = Http!AllText
  BY DEF Http!Parse, Http!input, Http!AllText
<1> QED
  BY <1>1, <1>2, <1>4, <1>5, <1>6, <1>7
  DEF HttpInv, Http!Parse, Http!input

(* A piece of the body.                                                    *)
LEMMA HttpReadBody ==
  ASSUME HttpInv, Http!ReadBody
  PROVE  HttpInv'
<1>1. HttpTypeOK /\ httpPc = "body" /\ httpPc' = "body"
  BY DEF HttpInv, Http!ReadBody
<1>2. PICK n \in 1 .. Http!Min({Http!unread, HttpBuffer}) :
        /\ got' = got + n
        /\ printed' = printed \o Http!Text(Http!Received(n))
        /\ content_length' = (content_length - n) % Modulus
  BY DEF Http!ReadBody
<1>3. n \in Nat /\ n <= answered - got
  <2>1. Http!unread \in Int /\ HttpBuffer \in Int
    BY <1>1, HttpAssumption DEF HttpTypeOK, Http!unread
  <2>2. /\ Http!Min({Http!unread, HttpBuffer}) \in Int
        /\ Http!Min({Http!unread, HttpBuffer}) <= Http!unread
    BY <2>1, SmallestOf, Zenon
  <2> QED
    BY <2>1, <2>2 DEF Http!unread
<1>4. HttpTypeOK'
  BY <1>1, <1>2, <1>3 DEF HttpTypeOK, Http!ReadBody, Http!input
<1>5. ASSUME Http!AllText, ~garbled
      PROVE  /\ got' >= Header
             /\ printed' = SubSeq(body, 1, got' - Header)
             /\ content_length' = Len(body) - (got' - Header)
  <2>1. /\ got >= Header
        /\ printed = SubSeq(body, 1, got - Header)
        /\ content_length = Len(body) - (got - Header)
    BY <1>1, <1>5 DEF HttpInv
  <2> DEFINE a == got - Header
             b == got - Header + n
  <2>2. a \in Nat /\ a <= b /\ b <= Len(body) /\ Len(body) \in Nat
    BY <1>1, <1>3, <2>1, HttpAssumption DEF HttpTypeOK
  <2>3. Http!Received(n) = SubSeq(body, a + 1, b)
    BY DEF Http!Received
  <2>. /\ a + 1 \in 1 .. Len(body) + 1 /\ b \in (a + 1) - 1 .. Len(body)
       /\ a \in 1 - 1 .. Len(body) /\ b \in a .. Len(body)
       /\ 1 \in 1 .. Len(body) + 1
    BY <2>2 DEF a, b
  <2>. body \in Seq(BOOLEAN)
    BY <1>1 DEF HttpTypeOK
  <2> HIDE DEF a, b
  <2>4. Http!Text(SubSeq(body, a + 1, b)) = SubSeq(body, a + 1, b)
    BY <1>1, <1>5, PartOfText
  <2>5. SubSeq(body, 1, a) \o SubSeq(body, a + 1, b) = SubSeq(body, 1, b)
    BY ConcatAdjacentSubSeq
  <2> USE DEF a, b
  <2>6. printed' = SubSeq(body, 1, b)
    BY <1>2, <2>1, <2>3, <2>4, <2>5
  <2>7. content_length - n = Len(body) - b
    BY <1>3, <2>1, <2>2
  <2>8. Len(body) - b \in Nat /\ Len(body) - b < Modulus
    BY <1>1, <2>2, HttpAssumption DEF HttpTypeOK
  <2>9. content_length' = Len(body) - b
    BY <1>2, <2>7, <2>8, SmallModulus
  <2>10. got' - Header = b /\ got' >= Header
    BY <1>1, <1>2, <1>3, <2>1, HttpAssumption DEF HttpTypeOK
  <2> QED
    BY <2>6, <2>9, <2>10
<1>6. Http!AllText' = Http!AllText
  BY DEF Http!ReadBody, Http!input, Http!AllText
<1> QED
  BY <1>1, <1>4, <1>5, <1>6 DEF HttpInv, Http!ReadBody, Http!input

LEMMA HttpStep == HttpInv /\ [Next]_vars => HttpInv'
<1> SUFFICES ASSUME HttpInv, [Next]_vars PROVE HttpInv'
  OBVIOUS
<1>1. CASE Http!ParseFails \/ Http!ReadFails \/ Http!SocketFails
  <2>1. httpPc' \in {"crashed", "failed"}
    BY <1>1 DEF Http!ParseFails, Http!ReadFails, Http!SocketFails
  <2>2. got' \in 0 .. answered
    <3>1. CASE Http!ParseFails
      <4>1. Http!unread \in Nat /\ Http!unread <= answered /\ answered \in Nat
        BY HttpAssumption DEF HttpInv, HttpTypeOK, Http!unread
      <4>2. Header - 1 \in Int
        BY HttpAssumption
      <4>3. /\ Http!Min({Http!unread, Header - 1}) \in Int
            /\ Http!Min({Http!unread, Header - 1}) <= Http!unread
        BY <4>1, <4>2, SmallestOf
      <4> QED
        BY <3>1, <4>1, <4>3 DEF Http!ParseFails
    <3>2. CASE Http!ReadFails \/ Http!SocketFails
      BY <3>2
      DEF HttpInv, HttpTypeOK, Http!ReadFails, Http!SocketFails, Http!answer
    <3> QED
      BY <1>1, <3>1, <3>2
  <2>3. HttpTypeOK'
    BY <1>1, <2>2
    DEF HttpInv, HttpTypeOK, Http!ParseFails, Http!ReadFails,
        Http!SocketFails, Http!input, Http!answer
  <2> QED
    BY <2>1, <2>3 DEF HttpInv
<1>2. CASE Http!Finish
  <2>1. HttpTypeOK' /\ Http!AllText' = Http!AllText
    BY <1>2 DEF HttpInv, HttpTypeOK, Http!Finish, Http!input, Http!AllText
  <2> QED
    BY <1>2, <2>1 DEF HttpInv, Http!Finish, Http!input
<1>3. CASE Http!ServerSends \/ Http!ServerCloses
  <2>1. Header + Len(body) \in Nat /\ HttpTypeOK
    BY HttpAssumption DEF HttpInv, HttpTypeOK
  <2>2. answered' \in 0 .. Header + Len(body) /\ answered' >= answered
    BY <1>3, <2>1
    DEF HttpTypeOK, Http!ServerSends, Http!ServerCloses, Http!Answer
  <2>3. UNCHANGED <<body, httpPc, got, content_length, printed, garbled>>
    BY <1>3 DEF Http!ServerSends, Http!ServerCloses, Http!input
  <2>4. HttpTypeOK'
    <3>1. got' \in 0 .. answered'
      BY <2>1, <2>2, <2>3 DEF HttpTypeOK
    <3> QED
      BY <2>1, <2>2, <2>3, <3>1 DEF HttpTypeOK
  <2>5. Http!AllText' = Http!AllText
    BY <2>3 DEF Http!AllText
  <2> QED
    BY <2>3, <2>4, <2>5 DEF HttpInv
<1>4. CASE Http!Next
  BY <1>1, <1>2, <1>3, <1>4, HttpUploadStep, HttpParse, HttpReadBody
  DEF Http!Next, Http!Step
<1>5. CASE UNCHANGED httpVars
  BY <1>5 DEF httpVars, HttpInv, HttpTypeOK, Http!AllText
<1> QED
  BY <1>4, <1>5
  DEF Next, CountNext, ServerNext, HttpNext, QueryNext, DecryptNext, GccNext,
      SplitNext, vars

LEMMA HttpResult ==
  HttpInv /\ UploadInv => Http!PrintsBody /\ Http!UploadsFile
<1> SUFFICES ASSUME HttpInv, UploadInv PROVE Http!PrintsBody /\ Http!UploadsFile
  OBVIOUS
<1>1. ASSUME httpPc = "done", Http!AllText, ~garbled PROVE printed = body
  <2>1. /\ printed = SubSeq(body, 1, got - Header)
        /\ 0 = Len(body) - (got - Header)
    BY <1>1 DEF HttpInv
  <2>2. got - Header = Len(body)
    BY <2>1, HttpAssumption DEF HttpInv, HttpTypeOK
  <2> QED
    BY <2>1, <2>2, SubSeqFull DEF HttpInv, HttpTypeOK
<1>2. ASSUME method = "POST", httpPc \in {"head", "body", "done"}
      PROVE  /\ \A p \in 1 .. position : Has(uploaded, p)
             /\ sendErrors = 0 => uploaded = Numbers(position)
             /\ position >= file_size \/ readErrors > position
  <2>1. tmp_bytes <= 0 /\ (position >= file_size \/ readErrors > position)
    BY <1>2 DEF UploadInv
  <2> QED
    BY <2>1 DEF UploadInv, SentBefore, SentInOrder, UploadTypeOK
<1> QED
  BY <1>1, <1>2 DEF Http!PrintsBody, Http!UploadsFile, Has, Numbers
-----------------------------------------------------------------------------
(* The clients of inf14 and inf20                                          *)

QueryTypeOK ==
  /\ i \in Nat \ {0} /\ asked \in 0 .. i - 1
  /\ lines \in Seq(Seq(Nat))
  /\ \A k \in DOMAIN lines :
       /\ lines[k][1] \in 0 .. asked
       /\ lines[k][1] = lines[k][2]

Quiet == onTheWay = {} /\ cut = 0 /\ arrived = <<>>

(* The answer to the last question is awaited, half here, or here; or the  *)
(* question was none, and nobody answers.                                  *)
Awaited ==
  \/ asked # 0 /\ onTheWay = {asked} /\ cut = 0 /\ arrived = <<>>
  \/ asked # 0 /\ onTheWay = {asked} /\ cut = asked /\ arrived = <<asked>>
  \/ asked # 0 /\ onTheWay = {} /\ cut = 0 /\ arrived = <<asked, asked>>
  \/ asked = 0 /\ Quiet

LinesRise ==
  \A k, m \in DOMAIN lines :
    k < m => \/ lines[k][1] < lines[m][1]
             \/ program = "azatiuss" /\ lines[k][1] = lines[m][1]

QueryClean ==
  /\ QueryTypeOK /\ LinesRise
  /\ queryPc \in {"scan", "done"} => Quiet
  /\ queryPc = "scan" /\ lines # <<>> => lines[Len(lines)][1] = asked
  /\ queryPc = "recv" =>
       /\ Awaited
       /\ program = "azatiuss" \/ \A k \in DOMAIN lines : lines[k][1] < asked

QueryInv == ~faulty => QueryClean

LEMMA QueryInit == Init => QueryInv
<1>1. Init => Query!Init
  BY DEF Init
<1>2. ASSUME Query!Init PROVE QueryClean
  BY <1>2 DEF Query!Init, QueryClean, QueryTypeOK, LinesRise, Quiet
<1> QED
  BY <1>1, <1>2 DEF QueryInv

LEMMA QueryAsk ==
  ASSUME QueryClean, Query!Ask
  PROVE  QueryClean'
<1>1. /\ i' = i + 1 /\ i \in Nat \ {0} /\ asked \in 0 .. i - 1
      /\ queryPc = "scan" /\ queryPc' = "recv"
      /\ onTheWay' = {asked'} \ {0}
      /\ UNCHANGED <<program, cut, arrived, lines, faulty>>
  BY DEF QueryClean, QueryTypeOK, Quiet, Query!Ask
<1>2. \/ asked' = i
      \/ asked' = asked /\ program = "azatiuss"
  BY DEF Query!Ask
<1>3. asked' \in 0 .. i' - 1 /\ asked <= asked'
  BY <1>1, <1>2
<1>4. QueryTypeOK'
  BY <1>1, <1>3 DEF QueryClean, QueryTypeOK
<1>5. Awaited'
  <2>1. cut' = 0 /\ arrived' = <<>>
    BY <1>1 DEF QueryClean, Quiet
  <2> QED
    BY <1>1, <1>3, <2>1 DEF Awaited, Quiet
<1>6. program = "azatiuss" \/ \A k \in DOMAIN lines : lines[k][1] < asked'
  BY <1>1, <1>2 DEF QueryClean, QueryTypeOK
<1> QED
  BY <1>1, <1>4, <1>5, <1>6 DEF QueryClean, LinesRise

LEMMA TwoHalves ==
  ASSUME NEW a \in Nat
  PROVE  /\ <<a>> \o <<a>> = <<a, a>>
         /\ SubSeq(<<a, a>>, 1, 2) = <<a, a>>
         /\ SubSeq(<<a, a>>, 3, 2) = <<>>
<1>1. <<a>> \in Seq(Nat) /\ <<a, a>> \in Seq(Nat)
  OBVIOUS
<1>2. Len(<<a>>) = 1 /\ Len(<<a, a>>) = 2
  OBVIOUS
<1>3. <<a>> \o <<a>> = <<a, a>>
  <2> DEFINE s == <<a>>
             t == <<a>> \o <<a>>
  <2>1. s[1] = a /\ <<a, a>>[1] = a /\ <<a, a>>[2] = a
    OBVIOUS
  <2>2. /\ t \in Seq(Nat) /\ Len(t) = Len(s) + Len(s)
        /\ \A k \in 1 .. Len(s) + Len(s) :
             t[k] = IF k <= Len(s) THEN s[k] ELSE s[k - Len(s)]
    BY <1>1, ConcatProperties
  <2> HIDE DEF s, t
  <2>3. Len(s) = 1
    BY <1>2 DEF s
  <2>4. Len(t) = 2 /\ t[1] = a /\ t[2] = a
    BY <2>1, <2>2, <2>3
  <2>5. \A k \in 1 .. Len(t) : t[k] = <<a, a>>[k]
    <3>1. 1 .. Len(t) = {1, 2}
      BY <2>4
    <3> QED
      BY <2>1, <2>4, <3>1
  <2>6. t = <<a, a>>
    BY <1>1, <1>2, <2>2, <2>4, <2>5, SeqEqual
  <2> QED
    BY <2>6 DEF t
<1>4. SubSeq(<<a, a>>, 1, 2) = <<a, a>>
  <2>1. SubSeq(<<a, a>>, 1, Len(<<a, a>>)) = <<a, a>>
    BY <1>1, SubSeqFull
  <2> QED
    BY <1>2, <2>1
<1>5. SubSeq(<<a, a>>, 3, 2) = <<>>
  BY SubSeqEmpty
<1> QED
  BY <1>3, <1>4, <1>5

LEMMA QueryRecv ==
  ASSUME QueryClean, Query!Recv
  PROVE  QueryClean'
<1>1. /\ queryPc = "recv" /\ queryPc' = "scan" /\ Len(arrived) >= 2
      /\ UNCHANGED <<program, i, asked, onTheWay, cut, faulty>>
  BY DEF Query!Recv
<1>2. asked \in Nat /\ i \in Nat \ {0} /\ lines \in Seq(Seq(Nat))
  BY DEF QueryClean, QueryTypeOK
<1>3. arrived = <<asked, asked>> /\ onTheWay = {} /\ cut = 0
  BY <1>1 DEF QueryClean, Awaited, Quiet
<1>4. /\ SubSeq(<<asked, asked>>, 1, 2) = <<asked, asked>>
      /\ SubSeq(<<asked, asked>>, 3, 2) = <<>>
  BY <1>2, TwoHalves
<1>5. lines' = Append(lines, <<asked, asked>>) /\ arrived' = <<>>
  BY <1>3, <1>4 DEF Query!Recv
<1>6. /\ DOMAIN lines' = 1 .. Len(lines) + 1 /\ DOMAIN lines = 1 .. Len(lines)
      /\ Len(lines) \in Nat /\ Len(lines') = Len(lines) + 1
      /\ \A k \in DOMAIN lines : lines'[k] = lines[k]
      /\ lines'[Len(lines) + 1] = <<asked, asked>>
      /\ lines' \in Seq(Seq(Nat))
  BY <1>2, <1>5
<1>7. QueryTypeOK'
  <2>1. ASSUME NEW k \in DOMAIN lines'
        PROVE  lines'[k][1] \in 0 .. asked /\ lines'[k][1] = lines'[k][2]
    <3>1. CASE k \in DOMAIN lines
      BY <1>6, <3>1 DEF QueryClean, QueryTypeOK
    <3>2. CASE k = Len(lines) + 1
      BY <1>2, <1>6, <3>2
    <3> QED
      BY <1>6, <2>1, <3>1, <3>2
  <2> QED
    BY <1>1, <1>2, <1>6, <2>1 DEF QueryClean, QueryTypeOK
<1>8. LinesRise'
  <2> SUFFICES ASSUME NEW k \in DOMAIN lines', NEW m \in DOMAIN lines', k < m
               PROVE  \/ lines'[k][1] < lines'[m][1]
                      \/ program = "azatiuss" /\ lines'[k][1] = lines'[m][1]
    BY <1>1 DEF LinesRise
  <2>1. k \in DOMAIN lines /\ lines'[k] = lines[k]
    BY <1>6
  <2>2. CASE m \in DOMAIN lines
    BY SMTT(60), <1>6, <2>1, <2>2 DEF QueryClean, LinesRise
  <2>3. CASE m = Len(lines) + 1
    <3>1. lines'[m][1] = asked
      BY <1>6, <2>3
    <3>2. lines[k][1] \in 0 .. asked
      BY <2>1 DEF QueryClean, QueryTypeOK
    <3>3. program = "azatiuss" \/ lines[k][1] < asked
      BY <1>1, <2>1 DEF QueryClean
    <3> QED
      BY <1>2, <2>1, <3>1, <3>2, <3>3
  <2> QED
    BY <1>6, <2>2, <2>3
<1>9. Quiet'
  BY <1>1, <1>3, <1>5 DEF Quiet
<1>10. lines'[Len(lines')][1] = asked
  BY <1>6
<1> QED
  BY <1>1, <1>7, <1>8, <1>9, <1>10 DEF QueryClean

(* An answer arrives, or half of one.                                      *)
LEMMA QueryDeliver ==
  ASSUME QueryClean, NEW q \in onTheWay,
         Query!Deliver(q) \/ Query!DeliverHalf(q)
  PROVE  QueryClean'
<1>1. UNCHANGED <<program, i, queryPc, asked, lines, faulty>>
  BY DEF Query!Deliver, Query!DeliverHalf
<1>2. /\ queryPc = "recv" \/ queryPc \notin {"scan", "done"}
      /\ QueryTypeOK /\ asked \in Nat
  BY DEF QueryClean, Quiet, QueryTypeOK
<1>3. queryPc = "recv" => Awaited'
  <2> SUFFICES ASSUME queryPc = "recv" PROVE Awaited'
    OBVIOUS
  <2>1. Awaited /\ q = asked /\ asked # 0 /\ onTheWay = {asked}
    BY DEF QueryClean, Awaited, Quiet
  <2>2. \/ cut = 0 /\ arrived = <<>>
        \/ cut = asked /\ arrived = <<asked>>
    BY <2>1 DEF Awaited, Quiet
  <2>3. CASE Query!Deliver(q)
    <3>1. onTheWay' = {} /\ cut' = 0
      BY <2>1, <2>3 DEF Query!Deliver
    <3>2. arrived' = <<asked, asked>>
      <4>1. CASE cut = 0 /\ arrived = <<>>
        <5>1. arrived' = <<>> \o <<asked, asked>>
          BY <2>1, <2>3, <4>1 DEF Query!Deliver
        <5> QED
          BY <1>2, <5>1
      <4>2. CASE cut = asked /\ arrived = <<asked>>
        <5>1. arrived' = <<asked>> \o <<asked>>
          BY <2>1, <2>3, <4>2 DEF Query!Deliver
        <5> QED
          BY <1>2, <5>1, TwoHalves
      <4> QED
        BY <2>2, <4>1, <4>2
    <3> QED
      BY <1>1, <2>1, <3>1, <3>2 DEF Awaited
  <2>4. CASE Query!DeliverHalf(q)
    <3>1. cut = 0 /\ cut' = asked /\ arrived = <<>> /\ onTheWay' = onTheWay
      BY <2>1, <2>2, <2>4 DEF Query!DeliverHalf
    <3>2. arrived' = <<asked>>
      BY <1>2, <2>1, <2>4, <3>1 DEF Query!DeliverHalf
    <3> QED
      BY <1>1, <2>1, <3>1, <3>2 DEF Awaited
  <2> QED
    BY <2>3, <2>4
<1> QED
  BY <1>1, <1>2, <1>3 DEF QueryClean, QueryTypeOK, LinesRise

LEMMA QueryStep == QueryInv /\ [Next]_vars => QueryInv'
<1> SUFFICES ASSUME QueryInv, [Next]_vars PROVE QueryInv'
  OBVIOUS
<1>1. CASE faulty'
  BY <1>1 DEF QueryInv
<1>2. CASE ~faulty /\ Query!Next /\ ~faulty'
  <2>1. QueryClean
    BY <1>2 DEF QueryInv
  <2>2. CASE Query!Skip \/ Query!End
    <3>1. /\ queryPc = "scan" /\ queryPc' \in {"scan", "done"}
          /\ i' \in {i, i + 1}
          /\ UNCHANGED <<program, asked, onTheWay, cut, arrived, lines>>
      BY <2>2 DEF Query!Skip, Query!End
    <3>2. QueryTypeOK'
      <4>1. i' \in Nat \ {0} /\ asked' \in 0 .. i' - 1
        <5>1. i \in Nat \ {0} /\ asked \in 0 .. i - 1 /\ asked' = asked
          BY <2>1, <3>1 DEF QueryClean, QueryTypeOK
        <5>2. i' = i \/ i' = i + 1
          BY <3>1
        <5> QED
          BY <5>1, <5>2
      <4> QED
        BY <2>1, <3>1, <4>1 DEF QueryClean, QueryTypeOK
    <3> QED
      BY <2>1, <3>1, <3>2 DEF QueryInv, QueryClean, LinesRise, Quiet
  <2>3. CASE Query!RecvHalf \/ Query!Fail \/ \E q \in onTheWay : Query!Lose(q)
    BY <1>2, <2>3 DEF Query!RecvHalf, Query!Fail, Query!Lose
  <2>4. CASE \E q \in 0 .. i - 1 : Query!Stray(q)
    BY <1>2, <2>4 DEF Query!Stray
  <2>5. CASE \E q \in onTheWay : Query!Deliver(q) \/ Query!DeliverHalf(q)
    BY <2>1, <2>5, QueryDeliver DEF QueryInv
  <2> QED
    BY <1>2, <2>1, <2>2, <2>3, <2>4, <2>5, QueryAsk, QueryRecv
    DEF Query!Next, Query!Step, QueryInv
<1>3. CASE faulty /\ Query!Next
  BY <1>3
  DEF QueryInv, Query!Next, Query!Step, Query!Ask, Query!Skip, Query!End,
      Query!Recv, Query!RecvHalf, Query!Fail, Query!Deliver, Query!DeliverHalf,
      Query!Lose, Query!Stray
<1>4. CASE UNCHANGED queryVars
  BY <1>4
  DEF queryVars, QueryInv, QueryClean, QueryTypeOK, LinesRise, Quiet, Awaited
<1> QED
  BY <1>1, <1>2, <1>3, <1>4
  DEF Next, CountNext, ServerNext, HttpNext, QueryNext, DecryptNext, GccNext,
      SplitNext, vars

LEMMA QueryResult == QueryInv => Query!AnswersMatch
  BY DEF QueryInv, QueryClean, QueryTypeOK, LinesRise, Query!AnswersMatch
-----------------------------------------------------------------------------
(* The decryption of inf22-1                                               *)

CipherTypeOK ==
  /\ file \in Nat /\ length \in Nat /\ left \in Nat
  /\ headerErrors \in Nat /\ writeErrors \in Nat
  /\ need_to_read \in 0 .. HeaderLen + headerErrors
  /\ total_len \in Nat /\ need_to_write \in Nat /\ decrypted \in Seq(Int)

(* What has been read of a header without a zero byte is where it belongs. *)
HeaderSoFar ==
  [k \in 1 .. HeaderLen |-> IF k <= Cipher!Before THEN k ELSE 0]

(* The bytes that may be missing are the last need_to_write.               *)
WrittenBefore ==
  \A p \in 1 .. total_len :
    p <= total_len - need_to_write => Has(decrypted, p)

WrittenInOrder ==
  writeErrors = 0 =>
    /\ need_to_write <= total_len
    /\ decrypted = Numbers(total_len - need_to_write)

(* The rest of the input is read, decrypted and written, unless the input  *)
(* ends within the header; a read that failed takes a byte of the rest.    *)
CipherInv ==
  /\ CipherTypeOK
  /\ decryptPc \in {"header", "decrypt", "write", "done"}
  /\ file = 0 => buf = HeaderSoFar
  /\ decryptPc # "header" => need_to_read = 0
  /\ decryptPc = "header" =>
       /\ \/ left + headerErrors = length + need_to_read
          \/ left + headerErrors < need_to_read
       /\ total_len = 0
  /\ decryptPc \in {"header", "decrypt"} => decrypted = <<>>
  /\ decryptPc = "decrypt" => left + total_len + headerErrors = length
  /\ decryptPc \in {"write", "done"} =>
       total_len + headerErrors = length /\ WrittenBefore /\ WrittenInOrder
  /\ decryptPc = "done" => need_to_write = 0

LEMMA NoNumbers == Numbers(0) = <<>>
<1>1. \A k : k \notin 1 .. 0
  OBVIOUS
<1> QED
  BY <1>1 DEF Numbers

LEMMA CipherInit == Init => CipherInv
<1>1. Init => Cipher!Init
  BY DEF Init
<1>2. ASSUME Cipher!Init PROVE CipherInv
  <2>1. CipherTypeOK
    <3>1. file \in Nat /\ length \in Nat
      BY <1>2, DecryptAssumption DEF Cipher!Init
    <3>2. left \in Nat
      BY <1>2, <3>1, DecryptAssumption DEF Cipher!Init
    <3>3. need_to_read \in 0 .. HeaderLen + headerErrors
      BY <1>2, DecryptAssumption DEF Cipher!Init
    <3> QED
      BY <1>2, <3>1, <3>2, <3>3 DEF Cipher!Init, CipherTypeOK
  <2>2. \/ left + headerErrors = length + need_to_read
        \/ left + headerErrors < need_to_read
    BY <1>2, <2>1, DecryptAssumption DEF Cipher!Init, CipherTypeOK
  <2>3. buf = HeaderSoFar
    <3>1. \A k \in 1 .. HeaderLen : ~(k <= Cipher!Before)
      BY <1>2, DecryptAssumption DEF Cipher!Init, Cipher!Before
    <3> QED
      BY <1>2, <3>1 DEF Cipher!Init, HeaderSoFar
  <2> QED
    BY <1>2, <2>1, <2>2, <2>3 DEF Cipher!Init, CipherInv
<1> QED
  BY <1>1, <1>2

(* strlen finds the end of what was read, or that of the header.           *)
LEMMA HeaderEnd ==
  ASSUME CipherInv, file = 0
  PROVE  /\ Cipher!Before <= HeaderLen => Cipher!Length = Cipher!Before
         /\ Cipher!Before > HeaderLen => Cipher!Length = HeaderLen
<1> DEFINE got0 == IF Cipher!Before <= HeaderLen THEN Cipher!Before
                                                 ELSE HeaderLen
           places == {k \in 1 .. HeaderLen : buf[k] \in {0, file}}
                       \cup {HeaderLen + 1}
<1>1. HeaderLen \in Nat /\ got0 \in 0 .. HeaderLen
  BY DecryptAssumption DEF CipherInv, CipherTypeOK, Cipher!Before
<1>2. \A k \in 1 .. HeaderLen : buf[k] = IF k <= got0 THEN k ELSE 0
  <2>1. Cipher!Before \in Nat
    BY DecryptAssumption DEF CipherInv, CipherTypeOK, Cipher!Before
  <2> QED
    BY <1>1, <2>1 DEF CipherInv, HeaderSoFar
<1>3. /\ Cipher!Before <= HeaderLen => got0 = Cipher!Before
      /\ Cipher!Before > HeaderLen => got0 = HeaderLen
  <2>1. Cipher!Before \in Nat
    BY DecryptAssumption DEF CipherInv, CipherTypeOK, Cipher!Before
  <2> QED
    BY <1>1, <2>1
<1> HIDE DEF got0
<1>4. places = got0 + 1 .. HeaderLen + 1
  BY <1>1, <1>2
<1>5. got0 + 1 \in places /\ \A k \in places : got0 + 1 <= k
  BY <1>1, <1>4
<1>6. \A x \in places : (\A y \in places : x <= y) => x = got0 + 1
  BY <1>1, <1>4
<1> DEFINE first == Cipher!Min(places)
<1> HIDE DEF places
<1>7. first = got0 + 1
  BY <1>5, <1>6 DEF Cipher!Min
<1>8. Cipher!Length = first - 1
  BY DEF Cipher!Length, places
<1> HIDE DEF first
<1>9. Cipher!Length = got0
  BY <1>1, <1>7, <1>8
<1> QED
  BY <1>3, <1>9

LEMMA SmallerOf ==
  ASSUME NEW m \in Int, NEW n \in Int
  PROVE  /\ Cipher!Min({m, n}) \in Int
         /\ Cipher!Min({m, n}) <= m /\ Cipher!Min({m, n}) <= n
<1>1. \E x \in {m, n} : \A y \in {m, n} : x <= y
  OBVIOUS
<1> QED
  BY <1>1 DEF Cipher!Min

LEMMA CipherReadHeader ==
  ASSUME CipherInv, Cipher!ReadHeader
  PROVE  CipherInv'
<1>1. /\ HeaderLen \in Nat /\ headerErrors \in Nat /\ left \in Nat
      /\ need_to_read \in 0 .. HeaderLen + headerErrors
  BY DecryptAssumption DEF CipherInv, CipherTypeOK
<1> DEFINE before == Cipher!Before
<1>2. PICK n \in 1 .. Cipher!Min({need_to_read, left}) :
        /\ buf' = [k \in 1 .. HeaderLen |->
                     IF k > Cipher!Length /\ k <= Cipher!Length + n
                     THEN before + k - Cipher!Length ELSE buf[k]]
        /\ need_to_read' = need_to_read - n /\ left' = left - n
  BY DEF Cipher!ReadHeader
<1>3. n \in Nat /\ n <= need_to_read /\ n <= left
  <2>1. need_to_read \in Int /\ left \in Int
    BY <1>1
  <2>2. /\ Cipher!Min({need_to_read, left}) \in Int
        /\ Cipher!Min({need_to_read, left}) <= need_to_read
        /\ Cipher!Min({need_to_read, left}) <= left
    BY <2>1, SmallerOf, Zenon
  <2> QED
    BY <1>1, <2>2
<1>4. need_to_read' \in 0 .. HeaderLen + headerErrors /\ left' \in Nat
  BY <1>1, <1>2, <1>3
<1>5. UNCHANGED <<file, length, decryptPc, total_len, need_to_write, decrypted,
                  headerErrors, writeErrors>>
        /\ decryptPc = "header"
  BY DEF Cipher!ReadHeader, Cipher!input
<1>6. CipherTypeOK'
  BY <1>4, <1>5 DEF CipherInv, CipherTypeOK
<1>7. \/ left' + headerErrors = length + need_to_read'
      \/ left' + headerErrors < need_to_read'
  <2>1. \/ left + headerErrors = length + need_to_read
        \/ left + headerErrors < need_to_read
    BY <1>5 DEF CipherInv
  <2>2. length \in Nat
    BY DEF CipherInv, CipherTypeOK
  <2> QED
    BY <1>1, <1>2, <1>3, <2>1, <2>2
<1>8. file = 0 => buf' = HeaderSoFar'
  <2> SUFFICES ASSUME file = 0 PROVE buf' = HeaderSoFar'
    OBVIOUS
  <2>1. before \in Nat /\ Cipher!Before' = before + n
    BY <1>1, <1>2, <1>3, <1>5 DEF Cipher!Before
  <2>2. \A k \in 1 .. HeaderLen : buf[k] = IF k <= before THEN k ELSE 0
    BY DEF CipherInv, HeaderSoFar
  <2>3. ASSUME NEW k \in 1 .. HeaderLen
        PROVE  buf'[k] = IF k <= before + n THEN k ELSE 0
    <3>1. buf'[k] = IF k > Cipher!Length /\ k <= Cipher!Length + n
                    THEN before + k - Cipher!Length ELSE buf[k]
      BY <1>2
    <3>2. buf[k] = IF k <= before THEN k ELSE 0
      BY <2>2
    <3>3. CASE before <= HeaderLen
      <4>1. Cipher!Length = before
        BY <3>3, HeaderEnd
      <4> HIDE DEF before
      <4> QED
        BY <1>1, <1>3, <2>1, <3>1, <3>2, <4>1
    <3>4. CASE before > HeaderLen
      <4>1. Cipher!Length = HeaderLen
        BY <3>4, HeaderEnd
      <4> HIDE DEF before
      <4> QED
        BY <1>1, <1>3, <2>1, <3>1, <3>2, <3>4, <4>1
    <3> QED
      BY <1>1, <2>1, <3>3, <3>4
  <2>4. buf' = [k \in 1 .. HeaderLen |-> buf'[k]]
    BY <1>2
  <2>5. HeaderSoFar' = [k \in 1 .. HeaderLen |->
                          IF k <= before + n THEN k ELSE 0]
    BY <2>1 DEF HeaderSoFar
  <2> QED
    BY <2>3, <2>4, <2>5
<1> QED
  BY <1>5, <1>6, <1>7, <1>8 DEF CipherInv

LEMMA CipherReadFails ==
  ASSUME CipherInv, Cipher!ReadFails
  PROVE  CipherInv'
<1>1. /\ decryptPc = "header"
      /\ need_to_read' = need_to_read + 1 /\ headerErrors' = headerErrors + 1
      /\ UNCHANGED <<file, length, left, decryptPc, buf, total_len,
                     need_to_write, decrypted, writeErrors>>
  BY DEF Cipher!ReadFails, Cipher!input
<1>2. CipherTypeOK /\ HeaderLen \in Nat
  BY DecryptAssumption DEF CipherInv
<1>3. CipherTypeOK'
  BY <1>1, <1>2 DEF CipherTypeOK
<1>4. \/ left' + headerErrors' = length' + need_to_read'
      \/ left' + headerErrors' < need_to_read'
  BY <1>1, <1>2 DEF CipherInv, CipherTypeOK
<1>5. HeaderSoFar' = HeaderSoFar
  <2>1. Cipher!Before' = Cipher!Before
    BY <1>1, <1>2 DEF Cipher!Before, CipherTypeOK
  <2> QED
    BY <2>1 DEF HeaderSoFar
<1> QED
  BY <1>1, <1>3, <1>4, <1>5 DEF CipherInv

(* A part is written, which begins where the last one ended, or before.    *)
LEMMA CipherWrite ==
  ASSUME CipherInv, Cipher!Write
  PROVE  CipherInv'
<1>1. PICK n \in 1 .. need_to_write :
        /\ need_to_write' = need_to_write - n
        /\ decrypted' =
             decrypted \o [k \in 1 .. n |-> total_len - need_to_write + k]
  BY DEF Cipher!Write
<1>2. /\ decryptPc = "write" /\ CipherTypeOK
      /\ UNCHANGED <<file, length, left, buf, need_to_read, total_len,
                     decryptPc, headerErrors, writeErrors>>
  BY DEF CipherInv, Cipher!Write, Cipher!input
<1>3. n \in Nat /\ n >= 1 /\ n <= need_to_write
  BY <1>2 DEF CipherTypeOK
<1> DEFINE m == total_len - need_to_write
           t == [k \in 1 .. n |-> m + k]
<1>4. m \in Int /\ total_len - need_to_write' = m + n
  BY <1>1, <1>2, <1>3 DEF CipherTypeOK
<1>5. t \in Seq(Int) /\ DOMAIN t = 1 .. n /\ \A k \in 1 .. n : t[k] = m + k
  <2> HIDE DEF m
  <2> QED
    BY <1>3, <1>4
<1>6. decrypted' = decrypted \o t /\ decrypted \in Seq(Int)
  BY <1>1, <1>2 DEF CipherTypeOK
<1>7. CipherTypeOK'
  <2>1. decrypted' \in Seq(Int)
    <3> HIDE DEF t
    <3> QED
      BY <1>5, <1>6, ConcatProperties
  <2>2. need_to_write' \in Nat
    BY <1>1, <1>2, <1>3 DEF CipherTypeOK
  <2> QED
    BY <1>2, <2>1, <2>2 DEF CipherTypeOK
<1>8. WrittenBefore'
  <2> SUFFICES ASSUME NEW p \in 1 .. total_len, p <= m + n
               PROVE  Has(decrypted', p)
    BY <1>2, <1>4 DEF WrittenBefore
  <2>1. CASE p <= m
    <3>1. Has(decrypted, p)
      BY <1>2, <2>1 DEF CipherInv, WrittenBefore
    <3> HIDE DEF t
    <3> QED
      BY <1>5, <1>6, <3>1, JoinedHas
  <2>2. CASE p > m
    <3>1. p - m \in 1 .. n /\ m + (p - m) = p
      <4> HIDE DEF m
      <4> QED
        BY <1>3, <1>4, <2>2
    <3> HIDE DEF t
    <3>2. Has(t, p)
      BY <1>5, <3>1 DEF Has
    <3> QED
      BY <1>5, <1>6, <3>2, JoinedHas
  <2> HIDE DEF m
  <2> QED
    BY <1>2, <1>4, <2>1, <2>2 DEF CipherTypeOK
<1>9. WrittenInOrder'
  <2> SUFFICES ASSUME writeErrors = 0
               PROVE  /\ need_to_write' <= total_len
                      /\ decrypted' = Numbers(m + n)
    BY <1>2, <1>4 DEF WrittenInOrder
  <2>1. need_to_write <= total_len /\ decrypted = Numbers(m)
    BY <1>2 DEF CipherInv, WrittenInOrder
  <2>2. m \in Nat /\ need_to_write' <= total_len
    BY <1>1, <1>2, <1>3, <2>1 DEF CipherTypeOK
  <2> HIDE DEF m
  <2>3. Numbers(m) \o [k \in 1 .. n |-> m + k] = Numbers(m + n)
    BY <1>3, <2>2, CountingOn
  <2> QED
    BY <1>6, <2>1, <2>2, <2>3
<1>10. HeaderSoFar' = HeaderSoFar
  BY <1>2 DEF HeaderSoFar, Cipher!Before
<1> QED
  BY <1>2, <1>7, <1>8, <1>9, <1>10 DEF CipherInv

LEMMA CipherStep == CipherInv /\ [Next]_vars => CipherInv'
<1> SUFFICES ASSUME CipherInv, [Next]_vars PROVE CipherInv'
  OBVIOUS
<1>1. CASE Cipher!DeriveKey \/ Cipher!Final \/ Cipher!Free
  <2>1. /\ CipherTypeOK' /\ HeaderSoFar' = HeaderSoFar /\ buf' = buf
        /\ UNCHANGED <<file, length, decrypted, total_len, headerErrors,
                       writeErrors>>
    BY <1>1
    DEF CipherInv, CipherTypeOK, HeaderSoFar, Cipher!Before, Cipher!DeriveKey,
        Cipher!Final, Cipher!Free, Cipher!input
  <2>2. CASE Cipher!DeriveKey
    <3>1. decryptPc = "header" /\ decryptPc' = "decrypt" /\ need_to_read = 0
            /\ UNCHANGED <<left, need_to_read>>
      BY <2>2 DEF Cipher!DeriveKey
    <3>2. left + total_len + headerErrors = length /\ decrypted = <<>>
      BY <3>1 DEF CipherInv, CipherTypeOK
    <3> QED
      BY <2>1, <3>1, <3>2 DEF CipherInv
  <2>3. CASE Cipher!Final
    <3>1. decryptPc = "decrypt" /\ decryptPc' = "write" /\ left = 0
            /\ need_to_write' = total_len /\ UNCHANGED need_to_read
      BY <2>3 DEF Cipher!Final
    <3>2. total_len + headerErrors = length /\ total_len \in Nat
            /\ decrypted = <<>>
      BY <3>1 DEF CipherInv, CipherTypeOK
    <3>3. total_len' - need_to_write' = 0 /\ need_to_write' <= total_len'
      BY <2>1, <3>1, <3>2
    <3>4. WrittenBefore' /\ WrittenInOrder'
      BY <2>1, <3>2, <3>3, NoNumbers DEF WrittenBefore, WrittenInOrder
    <3> QED
      BY <2>1, <3>1, <3>2, <3>4 DEF CipherInv
  <2>4. CASE Cipher!Free
    <3>1. decryptPc = "write" /\ decryptPc' = "done" /\ need_to_write = 0
            /\ UNCHANGED <<need_to_read, need_to_write>>
      BY <2>4 DEF Cipher!Free
    <3>2. WrittenBefore' /\ WrittenInOrder'
      BY <2>1, <3>1 DEF CipherInv, WrittenBefore, WrittenInOrder
    <3> QED
      BY <2>1, <3>1, <3>2 DEF CipherInv
  <2> QED
    BY <1>1, <2>2, <2>3, <2>4
<1>2. CASE Cipher!Update
  <2>1. PICK n \in 1 .. Cipher!Min({DecryptBuffer, left}) :
          left' = left - n /\ total_len' = total_len + n
    BY <1>2 DEF Cipher!Update
  <2>2. n \in Nat /\ n <= left
    <3>1. DecryptBuffer \in Int /\ left \in Int
      BY DecryptAssumption DEF CipherInv, CipherTypeOK
    <3>2. /\ Cipher!Min({DecryptBuffer, left}) \in Int
          /\ Cipher!Min({DecryptBuffer, left}) <= left
      BY <3>1, SmallerOf, Zenon
    <3> QED
      BY <3>1, <3>2
  <2>3. /\ UNCHANGED <<file, length, buf, need_to_read, need_to_write,
                       decrypted, decryptPc, headerErrors, writeErrors>>
        /\ decryptPc = "decrypt"
    BY <1>2 DEF Cipher!Update, Cipher!input
  <2>4. CipherTypeOK' /\ left' + total_len' = left + total_len
    BY <2>1, <2>2, <2>3 DEF CipherInv, CipherTypeOK
  <2> QED
    BY <2>3, <2>4 DEF CipherInv, HeaderSoFar, Cipher!Before
<1>3. CASE Cipher!WriteFails
  <2>1. /\ decryptPc = "write" /\ CipherTypeOK
        /\ need_to_write' = need_to_write + 1 /\ writeErrors' = writeErrors + 1
        /\ UNCHANGED <<file, length, left, buf, need_to_read, total_len,
                       decrypted, decryptPc, headerErrors>>
    BY <1>3 DEF CipherInv, Cipher!WriteFails, Cipher!input
  <2>2. CipherTypeOK' /\ writeErrors' # 0
    BY <2>1 DEF CipherTypeOK
  <2>3. \A p \in 1 .. total_len :
          p <= total_len - need_to_write' => p <= total_len - need_to_write
    BY <2>1 DEF CipherTypeOK
  <2>4. WrittenBefore' /\ WrittenInOrder'
    BY <2>1, <2>2, <2>3 DEF CipherInv, WrittenBefore, WrittenInOrder
  <2>5. HeaderSoFar' = HeaderSoFar
    BY <2>1 DEF HeaderSoFar, Cipher!Before
  <2> QED
    BY <2>1, <2>2, <2>4, <2>5 DEF CipherInv
<1>4. CASE UNCHANGED cipherVars
  BY <1>4
  DEF cipherVars, CipherInv, CipherTypeOK, HeaderSoFar, Cipher!Before,
      WrittenBefore, WrittenInOrder
<1>5. CASE Cipher!Next
  BY <1>1, <1>2, <1>3, <1>5, CipherReadHeader, CipherReadFails, CipherWrite
  DEF Cipher!Next
<1> QED
  BY <1>4, <1>5
  DEF Next, CountNext, ServerNext, HttpNext, QueryNext, DecryptNext, GccNext,
      SplitNext, vars

LEMMA CipherResult == CipherInv => Cipher!DecryptsAll
<1> SUFFICES ASSUME CipherInv, decryptPc = "done"
             PROVE  /\ total_len = length - headerErrors
                    /\ \A p \in 1 .. total_len : Has(decrypted, p)
                    /\ writeErrors = 0 => decrypted = Numbers(total_len)
                    /\ file = 0 => buf = [k \in 1 .. HeaderLen |-> k]
  BY DEF Cipher!DecryptsAll, Has, Numbers
<1>1. CipherTypeOK /\ need_to_read = 0 /\ need_to_write = 0
  BY DEF CipherInv
<1>2. total_len = length - headerErrors
  BY <1>1 DEF CipherInv, CipherTypeOK
<1>3. total_len - need_to_write = total_len
  BY <1>1 DEF CipherTypeOK
<1>4. /\ \A p \in 1 .. total_len : Has(decrypted, p)
      /\ writeErrors = 0 => decrypted = Numbers(total_len)
  BY <1>3 DEF CipherInv, WrittenBefore, WrittenInOrder
<1>5. \A k \in 1 .. HeaderLen : k <= Cipher!Before
  BY <1>1, DecryptAssumption DEF CipherTypeOK, Cipher!Before
<1> QED
  BY <1>2, <1>4, <1>5 DEF CipherInv, HeaderSoFar
-----------------------------------------------------------------------------
(* The counters of inf13                                                   *)

(* Among the first t messages of o: those of a kind, their lines, and      *)
(* whether those about a line follow each other.                           *)
OfKind(o, knd, t) == {n \in 1 .. t : o[n].kind = knd}
LinesSeen(o, knd, t) == {o[n].line : n \in OfKind(o, knd, t)}
GroupedUpTo(o, knd, t) ==
  \A m, n, p \in OfKind(o, knd, t) :
    m < n /\ n < p /\ o[m].line = o[p].line => o[n].line = o[m].line

IsLastOfKind(o, knd, t, n) ==
  n \in OfKind(o, knd, t) /\ \A m \in OfKind(o, knd, t) : m <= n

(* No line is missed, no message counts twice nor a line if its messages   *)
(* are grouped, and the last one is remembered.                            *)
CountedUpTo(o, knd, t, cnt, last) ==
  /\ cnt \in Nat
  /\ cnt <= Cardinality(OfKind(o, knd, t))
  /\ IsFiniteSet(LinesSeen(o, knd, t))
  /\ cnt >= Cardinality(LinesSeen(o, knd, t))
  /\ GroupedUpTo(o, knd, t) => cnt = Cardinality(LinesSeen(o, knd, t))
  /\ \/ last = -1 /\ OfKind(o, knd, t) = {}
     \/ \E n \in 1 .. t : IsLastOfKind(o, knd, t, n) /\ last = o[n].line

(* With other bits than zero at the top of tmp_str, each message counts.   *)
EachCounted(o, knd, t, cnt) == cnt = Cardinality(OfKind(o, knd, t))

LEMMA KindIsFinite ==
  ASSUME NEW o, NEW knd, NEW t \in Nat
  PROVE  IsFiniteSet(OfKind(o, knd, t)) /\ Cardinality(OfKind(o, knd, t)) \in Nat
<1>1. IsFiniteSet(1 .. t)
  <2>1. 1 \in Int /\ t \in Int
    OBVIOUS
  <2> QED
    BY <2>1, FS_Interval
<1>2. OfKind(o, knd, t) \in SUBSET (1 .. t)
  BY DEF OfKind
<1>3. IsFiniteSet(OfKind(o, knd, t))
  BY <1>1, <1>2, FS_Subset
<1> QED
  BY <1>3, FS_CardinalityType

LEMMA KindGrows ==
  ASSUME NEW o, NEW knd, NEW t \in Nat
  PROVE  /\ o[t + 1].kind # knd => OfKind(o, knd, t + 1) = OfKind(o, knd, t)
         /\ o[t + 1].kind = knd =>
              /\ OfKind(o, knd, t + 1) = OfKind(o, knd, t) \cup {t + 1}
              /\ Cardinality(OfKind(o, knd, t + 1)) =
                   Cardinality(OfKind(o, knd, t)) + 1
<1>1. 1 .. t + 1 = (1 .. t) \cup {t + 1} /\ t + 1 \notin 1 .. t
  OBVIOUS
<1>2. o[t + 1].kind # knd => OfKind(o, knd, t + 1) = OfKind(o, knd, t)
  BY <1>1 DEF OfKind
<1>3. o[t + 1].kind = knd =>
        OfKind(o, knd, t + 1) = OfKind(o, knd, t) \cup {t + 1}
  BY <1>1 DEF OfKind
<1>4. t + 1 \notin OfKind(o, knd, t)
  BY <1>1 DEF OfKind
<1>5. Cardinality(OfKind(o, knd, t) \cup {t + 1}) =
        Cardinality(OfKind(o, knd, t)) + 1
  <2> DEFINE S == OfKind(o, knd, t)
  <2>1. IsFiniteSet(S)
    BY KindIsFinite
  <2> HIDE DEF S
  <2>2. Cardinality(S \cup {t + 1}) =
          IF t + 1 \in S THEN Cardinality(S) ELSE Cardinality(S) + 1
    BY <2>1, FS_AddElement, Zenon
  <2> QED
    BY <1>4, <2>2 DEF S
<1> QED
  BY <1>2, <1>3, <1>5

(* There are no more lines than messages.                                  *)
LEMMA FewerLines ==
  ASSUME NEW o, NEW knd, NEW t \in Nat
  PROVE  /\ IsFiniteSet(LinesSeen(o, knd, t))
         /\ Cardinality(LinesSeen(o, knd, t)) <= Cardinality(OfKind(o, knd, t))
<1> DEFINE S == OfKind(o, knd, t)
           T == LinesSeen(o, knd, t)
           f == [n \in S |-> o[n].line]
<1>1. IsFiniteSet(S)
  BY KindIsFinite
<1>2. f \in [S -> T] /\ \A l \in T : \E n \in S : f[n] = l
  BY DEF LinesSeen
<1>3. f \in Surjection(S, T)
  <2> HIDE DEF S, T, f
  <2> QED
    BY <1>2 DEF Surjection
<1> HIDE DEF S, T, f
<1>4. IsFiniteSet(T) /\ Cardinality(T) <= Cardinality(S)
  BY <1>1, <1>3, FS_Surjection
<1> QED
  BY <1>4 DEF S, T

LEMMA EachMessage ==
  ASSUME NEW o, NEW knd, NEW t \in Nat, NEW cnt, EachCounted(o, knd, t, cnt)
  PROVE  EachCounted(o, knd, t + 1,
                     cnt + (IF o[t + 1].kind = knd THEN 1 ELSE 0))
<1>1. Cardinality(OfKind(o, knd, t)) \in Nat
  BY KindIsFinite
<1> QED
  BY <1>1, KindGrows DEF EachCounted

LEMMA MessagePassedBy ==
  ASSUME NEW o, NEW knd, NEW t \in Nat, NEW cnt, NEW last,
         CountedUpTo(o, knd, t, cnt, last), o[t + 1].kind # knd
  PROVE  CountedUpTo(o, knd, t + 1, cnt, last)
<1>1. OfKind(o, knd, t + 1) = OfKind(o, knd, t)
  <2>1. 1 .. t + 1 = (1 .. t) \cup {t + 1}
    OBVIOUS
  <2> QED
    BY <2>1 DEF OfKind
<1>2. /\ LinesSeen(o, knd, t + 1) = LinesSeen(o, knd, t)
      /\ GroupedUpTo(o, knd, t + 1) <=> GroupedUpTo(o, knd, t)
  BY <1>1 DEF LinesSeen, GroupedUpTo
<1>3. ASSUME NEW n \in 1 .. t, IsLastOfKind(o, knd, t, n)
      PROVE  n \in 1 .. t + 1 /\ IsLastOfKind(o, knd, t + 1, n)
  BY <1>1, <1>3 DEF IsLastOfKind
<1> QED
  BY <1>1, <1>2, <1>3 DEF CountedUpTo

LEMMA MessageCounted ==
  ASSUME NEW o, NEW knd, NEW t \in Nat, NEW cnt, NEW last,
         CountedUpTo(o, knd, t, cnt, last),
         o[t + 1].kind = knd, o[t + 1].line # last
  PROVE  CountedUpTo(o, knd, t + 1, cnt + 1, o[t + 1].line)
<1> DEFINE S == LinesSeen(o, knd, t)
           x == o[t + 1].line
<1>1. OfKind(o, knd, t + 1) = OfKind(o, knd, t) \cup {t + 1}
  <2>1. 1 .. t + 1 = (1 .. t) \cup {t + 1}
    OBVIOUS
  <2> QED
    BY <2>1 DEF OfKind
<1>2. LinesSeen(o, knd, t + 1) = S \cup {x}
  BY <1>1 DEF LinesSeen
<1>3. IsFiniteSet(S) /\ cnt \in Nat /\ Cardinality(S) \in Nat
        /\ cnt >= Cardinality(S)
  BY FS_CardinalityType DEF CountedUpTo
<1>4. /\ IsFiniteSet(S \cup {x})
      /\ Cardinality(S \cup {x}) = IF x \in S THEN Cardinality(S)
                                             ELSE Cardinality(S) + 1
  <2> HIDE DEF S, x
  <2> QED
    BY <1>3, FS_AddElement
<1>5. ASSUME GroupedUpTo(o, knd, t + 1)
      PROVE  cnt = Cardinality(S) /\ x \notin S
  <2>1. GroupedUpTo(o, knd, t)
    BY <1>1, <1>5 DEF GroupedUpTo
  <2>2. x \notin S
    <3> SUFFICES ASSUME NEW m \in OfKind(o, knd, t), o[m].line = x
                 PROVE  FALSE
      BY DEF LinesSeen
    <3>1. PICK n \in 1 .. t : IsLastOfKind(o, knd, t, n) /\ last = o[n].line
      BY DEF CountedUpTo
    <3>2. m \in 1 .. t /\ m <= n /\ m # n
      BY <3>1 DEF IsLastOfKind, OfKind
    <3>3. m < n /\ n < t + 1
      BY <3>2
    <3>4. n \in OfKind(o, knd, t + 1) /\ m \in OfKind(o, knd, t + 1)
            /\ t + 1 \in OfKind(o, knd, t + 1)
      BY <1>1, <3>1 DEF IsLastOfKind
    <3>5. o[n].line = o[m].line
      BY <1>5, <3>3, <3>4 DEF GroupedUpTo
    <3> QED
      BY <3>1, <3>5
  <2> QED
    BY <2>1, <2>2 DEF CountedUpTo
<1>6. IsLastOfKind(o, knd, t + 1, t + 1) /\ t + 1 \in 1 .. t + 1
  BY <1>1 DEF IsLastOfKind, OfKind
<1>8. cnt + 1 <= Cardinality(OfKind(o, knd, t + 1))
  <2>1. /\ cnt <= Cardinality(OfKind(o, knd, t))
        /\ Cardinality(OfKind(o, knd, t)) \in Nat
    BY KindIsFinite DEF CountedUpTo
  <2>2. Cardinality(OfKind(o, knd, t + 1)) = Cardinality(OfKind(o, knd, t)) + 1
    BY KindGrows
  <2> QED
    BY <1>3, <2>1, <2>2
<1>7. /\ cnt + 1 \in Nat
      /\ cnt + 1 >= Cardinality(S \cup {x})
      /\ GroupedUpTo(o, knd, t + 1) => cnt + 1 = Cardinality(S \cup {x})
  <2> HIDE DEF S, x
  <2> QED
    BY <1>3, <1>4, <1>5
<1> QED
  BY <1>2, <1>4, <1>6, <1>7, <1>8 DEF CountedUpTo

LEMMA MessageRepeated ==
  ASSUME NEW o, NEW knd, NEW t \in Nat, NEW cnt, NEW last,
         CountedUpTo(o, knd, t, cnt, last), last # -1,
         o[t + 1].kind = knd, o[t + 1].line = last
  PROVE  CountedUpTo(o, knd, t + 1, cnt, last)
<1>1. OfKind(o, knd, t + 1) = OfKind(o, knd, t) \cup {t + 1}
  <2>1. 1 .. t + 1 = (1 .. t) \cup {t + 1}
    OBVIOUS
  <2> QED
    BY <2>1 DEF OfKind
<1>2. PICK n \in OfKind(o, knd, t) : last = o[n].line
  BY DEF CountedUpTo, IsLastOfKind
<1>3. LinesSeen(o, knd, t + 1) = LinesSeen(o, knd, t)
  BY <1>1, <1>2 DEF LinesSeen
<1>4. GroupedUpTo(o, knd, t + 1) => GroupedUpTo(o, knd, t)
  BY <1>1 DEF GroupedUpTo
<1>5. IsLastOfKind(o, knd, t + 1, t + 1) /\ t + 1 \in 1 .. t + 1
  BY <1>1 DEF IsLastOfKind, OfKind
<1>6. cnt <= Cardinality(OfKind(o, knd, t + 1))
  <2>1. /\ cnt \in Nat /\ cnt <= Cardinality(OfKind(o, knd, t))
        /\ Cardinality(OfKind(o, knd, t)) \in Nat
    BY KindIsFinite DEF CountedUpTo
  <2>2. Cardinality(OfKind(o, knd, t + 1)) = Cardinality(OfKind(o, knd, t)) + 1
    BY KindGrows
  <2> QED
    BY <2>1, <2>2
<1> QED
  BY <1>3, <1>4, <1>5, <1>6 DEF CountedUpTo

(* What is written later does not matter.                                  *)
LEMMA SamePrefix ==
  ASSUME NEW o, NEW o2, NEW knd, NEW t \in Nat, NEW cnt, NEW last,
         CountedUpTo(o, knd, t, cnt, last),
         \A n \in 1 .. t : o2[n] = o[n]
  PROVE  CountedUpTo(o2, knd, t, cnt, last)
<1>1. OfKind(o2, knd, t) = OfKind(o, knd, t)
  BY DEF OfKind
<1>2. LinesSeen(o2, knd, t) = LinesSeen(o, knd, t)
  BY <1>1 DEF LinesSeen, OfKind
<1>3. GroupedUpTo(o2, knd, t) => GroupedUpTo(o, knd, t)
  BY <1>1 DEF GroupedUpTo, OfKind
<1>4. ASSUME NEW n \in 1 .. t, IsLastOfKind(o, knd, t, n), last = o[n].line
      PROVE  IsLastOfKind(o2, knd, t, n) /\ last = o2[n].line
  BY <1>1, <1>4 DEF IsLastOfKind
<1> QED
  BY <1>1, <1>2, <1>3, <1>4 DEF CountedUpTo

Message == [line : Lines, kind : Kinds]

GccTypeOK ==
  /\ output \in Seq(Message) /\ pipe \in Seq(Message)
  /\ total_size \in Nat

(* The pipe has what was written and not counted yet.                      *)
GccInv ==
  /\ GccTypeOK
  /\ total_size + Len(pipe) = Len(output)
  /\ \A n \in 1 .. Len(pipe) : pipe[n] = output[total_size + n]
  /\ ~upper =>
       /\ CountedUpTo(output, "error:", total_size, errors_num, last_str_error)
       /\ CountedUpTo(output, "warning:", total_size, warnings_num,
                      last_str_warning)
  /\ upper =>
       /\ EachCounted(output, "error:", total_size, errors_num)
       /\ EachCounted(output, "warning:", total_size, warnings_num)
  /\ gccPc = "done" => child = "done" /\ pipe = <<>>

LEMMA GccInit == Init => GccInv
<1>1. Init => Gcc!Init
  BY DEF Init
<1>2. ASSUME NEW knd
      PROVE  CountedUpTo(<<>>, knd, 0, 0, -1) /\ EachCounted(<<>>, knd, 0, 0)
  <2>1. OfKind(<<>>, knd, 0) = {} /\ LinesSeen(<<>>, knd, 0) = {}
    BY DEF OfKind, LinesSeen
  <2>2. /\ IsFiniteSet(LinesSeen(<<>>, knd, 0))
        /\ Cardinality(LinesSeen(<<>>, knd, 0)) = 0
        /\ Cardinality(OfKind(<<>>, knd, 0)) = 0
    BY <2>1, FS_EmptySet
  <2>3. EachCounted(<<>>, knd, 0, 0)
    BY <2>2 DEF EachCounted
  <2>4. CountedUpTo(<<>>, knd, 0, 0, -1)
    <3>1. 0 \in Nat /\ 0 <= 0 /\ 0 >= 0
      OBVIOUS
    <3> QED
      BY <2>1, <2>2, <3>1, Zenon DEF CountedUpTo
  <2> QED
    BY <2>3, <2>4
<1>3. ASSUME Gcc!Init PROVE GccInv
  <2>1. GccTypeOK /\ total_size = 0 /\ Len(pipe) = 0 /\ Len(output) = 0
    BY <1>3 DEF Gcc!Init, GccTypeOK
  <2> QED
    BY <1>2, <1>3, <2>1 DEF Gcc!Init, GccInv
<1> QED
  BY <1>1, <1>3

LEMMA GccReport ==
  ASSUME GccInv, NEW l \in Lines, NEW k \in Kinds, Gcc!Report(l, k)
  PROVE  GccInv'
<1> DEFINE m == [line |-> l, kind |-> k]
<1>1. /\ child = "exec"
      /\ output' = Append(output, m) /\ pipe' = Append(pipe, m)
      /\ UNCHANGED <<upper, child, gccPc, errors_num, warnings_num,
                     last_str_error, last_str_warning, total_size>>
  BY DEF Gcc!Report, Gcc!counters
<1>2. m \in Message
  BY DEF Message
<1> HIDE DEF m
<1>3. output \in Seq(Message) /\ pipe \in Seq(Message) /\ total_size \in Nat
  BY DEF GccInv, GccTypeOK
<1>4. /\ output' \in Seq(Message) /\ Len(output') = Len(output) + 1
      /\ \A n \in 1 .. Len(output) : output'[n] = output[n]
      /\ output'[Len(output) + 1] = m
  BY <1>1, <1>2, <1>3, AppendProperties
<1>5. /\ pipe' \in Seq(Message) /\ Len(pipe') = Len(pipe) + 1
      /\ \A n \in 1 .. Len(pipe) : pipe'[n] = pipe[n]
      /\ pipe'[Len(pipe) + 1] = m
  BY <1>1, <1>2, <1>3, AppendProperties
<1>6. /\ Len(pipe) \in Nat /\ Len(output) \in Nat
      /\ total_size + Len(pipe) = Len(output)
  BY <1>3 DEF GccInv
<1>7. \A n \in 1 .. Len(pipe') : pipe'[n] = output'[total_size + n]
  <2> SUFFICES ASSUME NEW n \in 1 .. Len(pipe')
               PROVE  pipe'[n] = output'[total_size + n]
    OBVIOUS
  <2>1. CASE n \in 1 .. Len(pipe)
    <3>1. total_size + n \in 1 .. Len(output)
      BY <1>3, <1>6, <2>1
    <3> QED
      BY <1>4, <1>5, <2>1, <3>1 DEF GccInv
  <2>2. CASE n = Len(pipe) + 1
    <3>1. total_size + n = Len(output) + 1
      BY <1>3, <1>6, <2>2
    <3> QED
      BY <1>4, <1>5, <2>2, <3>1
  <2> QED
    BY <1>5, <1>6, <2>1, <2>2
<1>8. \A n \in 1 .. total_size : output'[n] = output[n]
  <2>1. \A n \in 1 .. total_size : n \in 1 .. Len(output)
    BY <1>3, <1>6
  <2> QED
    BY <1>4, <2>1
<1>9. ~upper =>
        /\ CountedUpTo(output', "error:", total_size, errors_num, last_str_error)
        /\ CountedUpTo(output', "warning:", total_size, warnings_num,
                       last_str_warning)
  BY <1>3, <1>8, SamePrefix DEF GccInv
<1>13. upper =>
         /\ EachCounted(output', "error:", total_size, errors_num)
         /\ EachCounted(output', "warning:", total_size, warnings_num)
  <2>1. ASSUME NEW knd
        PROVE  OfKind(output', knd, total_size) = OfKind(output, knd, total_size)
    BY <1>8 DEF OfKind
  <2> QED
    BY <2>1 DEF GccInv, EachCounted
<1>10. total_size + Len(pipe') = Len(output')
  BY <1>3, <1>4, <1>5, <1>6
<1>11. gccPc' # "done"
  BY <1>1 DEF GccInv
<1>12. GccTypeOK'
  BY <1>1, <1>3, <1>4, <1>5 DEF GccTypeOK
<1> QED
  BY <1>1, <1>7, <1>9, <1>10, <1>11, <1>12, <1>13 DEF GccInv

LEMMA GccCount ==
  ASSUME GccInv, Gcc!Count
  PROVE  GccInv'
<1> DEFINE m == output[total_size + 1]
           error ==
             m.kind = "error:" /\ Gcc!Differs(m.line, last_str_error)
           warning ==
             m.kind = "warning:" /\ Gcc!Differs(m.line, last_str_warning)
<1>1. /\ output \in Seq(Message) /\ pipe \in Seq(Message) /\ pipe # <<>>
      /\ total_size \in Nat /\ Len(pipe) \in Nat /\ Len(output) \in Nat
      /\ total_size + Len(pipe) = Len(output)
  BY DEF GccInv, GccTypeOK, Gcc!Count
<1>2. /\ Tail(pipe) \in Seq(Message) /\ Len(Tail(pipe)) = Len(pipe) - 1
      /\ \A n \in 1 .. Len(Tail(pipe)) : Tail(pipe)[n] = pipe[n + 1]
      /\ Head(pipe) = pipe[1] /\ Len(pipe) >= 1
  BY <1>1, HeadTailProperties
<1>3. Head(pipe) = m
  BY <1>2 DEF GccInv
<1>4. m.line # -1
  <2>1. m \in Message
    BY <1>1, <1>2
  <2> QED
    BY <2>1, GccAssumption DEF Message
<1>5. /\ errors_num' = errors_num + (IF error THEN 1 ELSE 0)
      /\ warnings_num' = warnings_num + (IF warning THEN 1 ELSE 0)
      /\ last_str_error' = IF error THEN m.line ELSE last_str_error
      /\ last_str_warning' = IF warning THEN m.line ELSE last_str_warning
  BY <1>3 DEF Gcc!Count
<1>6. /\ pipe' = Tail(pipe) /\ total_size' = total_size + 1
      /\ UNCHANGED <<upper, output, child, gccPc>> /\ gccPc # "done"
  BY DEF Gcc!Count
<1>7. ASSUME ~upper
      PROVE  CountedUpTo(output, "error:", total_size + 1, errors_num',
                         last_str_error')
  <2>1. CountedUpTo(output, "error:", total_size, errors_num, last_str_error)
          /\ errors_num \in Nat
    BY <1>7 DEF GccInv, CountedUpTo
  <2>2. CASE error
    <3>1. m.kind = "error:" /\ m.line # last_str_error
      BY <1>7, <2>2 DEF Gcc!Differs
    <3>2. errors_num' = errors_num + 1 /\ last_str_error' = m.line
      BY <1>5, <2>2
    <3> QED
      BY <1>1, <2>1, <3>1, <3>2, MessageCounted
  <2>3. CASE m.kind # "error:"
    <3>1. errors_num' = errors_num /\ last_str_error' = last_str_error
      BY <1>5, <2>1, <2>3
    <3> QED
      BY <1>1, <2>1, <2>3, <3>1, MessagePassedBy
  <2>4. CASE m.kind = "error:" /\ m.line = last_str_error
    <3>1. errors_num' = errors_num /\ last_str_error' = last_str_error
      BY <1>5, <1>7, <2>1, <2>4 DEF Gcc!Differs
    <3> QED
      BY <1>1, <1>4, <2>1, <2>4, <3>1, MessageRepeated
  <2> QED
    BY <1>7, <2>2, <2>3, <2>4 DEF Gcc!Differs
<1>8. ASSUME ~upper
      PROVE  CountedUpTo(output, "warning:", total_size + 1, warnings_num',
                         last_str_warning')
  <2>1. CountedUpTo(output, "warning:", total_size, warnings_num,
                    last_str_warning)
          /\ warnings_num \in Nat
    BY <1>8 DEF GccInv, CountedUpTo
  <2>2. CASE warning
    <3>1. m.kind = "warning:" /\ m.line # last_str_warning
      BY <1>8, <2>2 DEF Gcc!Differs
    <3>2. warnings_num' = warnings_num + 1 /\ last_str_warning' = m.line
      BY <1>5, <2>2
    <3> QED
      BY <1>1, <2>1, <3>1, <3>2, MessageCounted
  <2>3. CASE m.kind # "warning:"
    <3>1. warnings_num' = warnings_num /\ last_str_warning' = last_str_warning
      BY <1>5, <2>1, <2>3
    <3> QED
      BY <1>1, <2>1, <2>3, <3>1, MessagePassedBy
  <2>4. CASE m.kind = "warning:" /\ m.line = last_str_warning
    <3>1. warnings_num' = warnings_num /\ last_str_warning' = last_str_warning
      BY <1>5, <1>8, <2>1, <2>4 DEF Gcc!Differs
    <3> QED
      BY <1>1, <1>4, <2>1, <2>4, <3>1, MessageRepeated
  <2> QED
    BY <1>8, <2>2, <2>3, <2>4 DEF Gcc!Differs
<1>9. \A n \in 1 .. Len(pipe') : pipe'[n] = output'[total_size' + n]
  <2> SUFFICES ASSUME NEW n \in 1 .. Len(pipe')
               PROVE  pipe'[n] = output'[total_size' + n]
    OBVIOUS
  <2>1. n + 1 \in 1 .. Len(pipe) /\ pipe'[n] = pipe[n + 1]
    BY <1>1, <1>2, <1>6
  <2>2. pipe[n + 1] = output[total_size + (n + 1)]
    BY <2>1 DEF GccInv
  <2>3. total_size + (n + 1) = total_size' + n
    BY <1>1, <1>6
  <2> QED
    BY <1>6, <2>1, <2>2, <2>3
<1>10. GccTypeOK' /\ total_size' + Len(pipe') = Len(output')
  BY <1>1, <1>2, <1>6 DEF GccTypeOK
<1>11. ASSUME upper
       PROVE  /\ EachCounted(output, "error:", total_size + 1, errors_num')
              /\ EachCounted(output, "warning:", total_size + 1, warnings_num')
  <2>1. /\ errors_num' = errors_num + (IF m.kind = "error:" THEN 1 ELSE 0)
        /\ warnings_num' = warnings_num + (IF m.kind = "warning:" THEN 1 ELSE 0)
    BY <1>5, <1>11 DEF Gcc!Differs
  <2>2. /\ EachCounted(output, "error:", total_size, errors_num)
        /\ EachCounted(output, "warning:", total_size, warnings_num)
    BY <1>11 DEF GccInv
  <2> QED
    BY <1>1, <2>1, <2>2, EachMessage
<1> QED
  BY <1>6, <1>7, <1>8, <1>9, <1>10, <1>11 DEF GccInv

LEMMA GccStep == GccInv /\ [Next]_vars => GccInv'
<1> SUFFICES ASSUME GccInv, [Next]_vars PROVE GccInv'
  OBVIOUS
<1>1. CASE Gcc!CloseFd \/ Gcc!ShowCounts \/ Gcc!ChildEnds
  <2>1. /\ UNCHANGED <<upper, output, pipe, errors_num, warnings_num,
                       last_str_error, last_str_warning, total_size>>
        /\ gccPc' = "done" => child' = "done" /\ pipe' = <<>>
    BY <1>1
    DEF GccInv, Gcc!CloseFd, Gcc!ShowCounts, Gcc!ChildEnds, Gcc!counters
  <2> QED
    BY <2>1 DEF GccInv, GccTypeOK
<1>2. CASE \E l \in Lines, k \in Kinds : Gcc!Report(l, k)
  BY <1>2, GccReport
<1>3. CASE Gcc!Next
  BY <1>1, <1>2, <1>3, GccCount DEF Gcc!Next, Gcc!ParentStep
<1>4. CASE UNCHANGED gccVars
  BY <1>4 DEF gccVars, GccInv, GccTypeOK
<1> QED
  BY <1>3, <1>4
  DEF Next, CountNext, ServerNext, HttpNext, QueryNext, DecryptNext, GccNext,
      SplitNext, vars

LEMMA GccResult == GccInv => Gcc!CountsLines
<1> SUFFICES ASSUME GccInv, gccPc = "done" PROVE Gcc!CountsLines
  BY DEF Gcc!CountsLines
<1>1. DOMAIN output = 1 .. total_size /\ total_size = Len(output)
  <2>1. /\ output \in Seq(Message) /\ total_size \in Nat /\ Len(pipe) = 0
        /\ total_size + Len(pipe) = Len(output)
    BY DEF GccInv, GccTypeOK
  <2> QED
    BY <2>1
<1>2. ASSUME NEW knd
      PROVE  /\ Gcc!About(knd) = OfKind(output, knd, total_size)
             /\ Gcc!LinesWith(knd) = LinesSeen(output, knd, total_size)
             /\ Gcc!Grouped(knd) <=> GroupedUpTo(output, knd, total_size)
  BY <1>1
  DEF Gcc!About, Gcc!LinesWith, Gcc!Grouped, OfKind, LinesSeen, GroupedUpTo
<1>3. ASSUME NEW S PROVE Gcc!Cardinality(S) = Cardinality(S)
  BY DEF Gcc!Cardinality, Cardinality
<1>4. ASSUME NEW knd, NEW cnt, NEW last,
             ~upper => CountedUpTo(output, knd, total_size, cnt, last),
             upper => EachCounted(output, knd, total_size, cnt)
      PROVE  /\ cnt \in Cardinality(Gcc!LinesWith(knd)) ..
                         Cardinality(Gcc!About(knd))
             /\ ~upper /\ Gcc!Grouped(knd) =>
                  cnt = Cardinality(Gcc!LinesWith(knd))
             /\ upper => cnt = Cardinality(Gcc!About(knd))
  <2>1. total_size \in Nat
    BY DEF GccInv, GccTypeOK
  <2> DEFINE few == Cardinality(LinesSeen(output, knd, total_size))
             many == Cardinality(OfKind(output, knd, total_size))
  <2>2. many \in Nat /\ few <= many
    BY <2>1, KindIsFinite, FewerLines
  <2>3. few \in Nat
    <3>1. IsFiniteSet(LinesSeen(output, knd, total_size))
      BY <2>1, FewerLines
    <3> QED
      BY <3>1, FS_CardinalityType
  <2>4. upper => cnt = many
    BY <1>4 DEF EachCounted
  <2>5. ~upper =>
          /\ cnt \in Nat /\ few <= cnt /\ cnt <= many
          /\ GroupedUpTo(output, knd, total_size) => cnt = few
    BY <1>4 DEF CountedUpTo
  <2>6. few = Cardinality(Gcc!LinesWith(knd)) /\ many = Cardinality(Gcc!About(knd))
    BY <1>2
  <2> HIDE DEF few, many
  <2>7. cnt \in few .. many
    BY <2>2, <2>3, <2>4, <2>5
  <2> QED
    BY <1>2, <2>4, <2>5, <2>6, <2>7
<1>5. /\ ~upper => /\ CountedUpTo(output, "error:", total_size, errors_num,
                                  last_str_error)
                   /\ CountedUpTo(output, "warning:", total_size, warnings_num,
                                  last_str_warning)
      /\ upper => /\ EachCounted(output, "error:", total_size, errors_num)
                  /\ EachCounted(output, "warning:", total_size, warnings_num)
  BY DEF GccInv
<1> QED
  BY <1>1, <1>3, <1>4, <1>5 DEF Gcc!CountsLines
-----------------------------------------------------------------------------
(* The splitting of inf07-0                                                *)

Output == {"digit", "other"}

SplitTypeOK ==
  /\ input \in Seq({"digit", "other", "zero"}) /\ pos \in 0 .. Len(input)
  /\ buffers \in [Output -> Seq(Nat)] /\ out \in [Output -> Seq(Nat)]
  /\ existing \in [Output -> Nat] /\ lost \in BOOLEAN

(* s has the characters for o of the first p of the input, in order.       *)
Sorted(inp, s, o, p) ==
  /\ {s[n] : n \in 1 .. Len(s)} = {k \in 1 .. p : inp[k] = o}
  /\ \A m, n \in 1 .. Len(s) : m < n => s[m] < s[n]

(* What was read is in the file or in the buffer.                          *)
SplitInv ==
  /\ SplitTypeOK
  /\ status = 0 =>
       \A o \in Output :
         ~lost \/ o = "other" => Sorted(input, out[o] \o buffers[o], o, pos)
  /\ splitPc = "done" /\ status = 0 =>
       pos = Len(input) /\ \A o \in Output : buffers[o] = <<>>

LEMMA SplitInit == Init => SplitInv
<1>1. Init => Split!Init
  BY DEF Init
<1>2. ASSUME Split!Init PROVE SplitInv
  <2>1. SplitTypeOK
    <3>1. input \in Seq({"digit", "other", "zero"})
      BY <1>2, SplitAssumption DEF Split!Init
    <3>2. pos = 0 /\ Len(input) \in Nat
      BY <1>2, <3>1 DEF Split!Init
    <3>3. buffers = [o \in Output |-> <<>>] /\ out = [o \in Output |-> <<>>]
            /\ <<>> \in Seq(Nat)
      BY <1>2 DEF Split!Init, Split!Output, Output
    <3>4. /\ pos \in 0 .. Len(input)
          /\ buffers \in [Output -> Seq(Nat)] /\ out \in [Output -> Seq(Nat)]
      BY <3>2, <3>3
    <3>5. lost \in BOOLEAN /\ existing \in [Output -> Nat]
      BY <1>2, SplitAssumption DEF Split!Init, Split!Output, Output
    <3> QED
      BY <3>1, <3>4, <3>5 DEF SplitTypeOK
  <2>2. ASSUME NEW o \in Output
        PROVE  Sorted(input, out[o] \o buffers[o], o, pos)
    <3>1. out[o] = <<>> /\ buffers[o] = <<>> /\ pos = 0
      BY <1>2 DEF Split!Init, Split!Output, Output
    <3>2. <<>> \o <<>> = <<>> /\ Len(<<>>) = 0
      OBVIOUS
    <3> QED
      BY <3>1, <3>2 DEF Sorted
  <2> QED
    BY <1>2, <2>1, <2>2 DEF Split!Init, SplitInv
<1> QED
  BY <1>1, <1>2

(* The next character is behind all others.                                *)
LEMMA OneMore ==
  ASSUME NEW s \in Seq(Nat), NEW o, NEW p \in Nat, Sorted(input, s, o, p)
  PROVE  /\ input[p + 1] = o => Sorted(input, Append(s, p + 1), o, p + 1)
         /\ input[p + 1] # o => Sorted(input, s, o, p + 1)
<1>1. 1 .. p + 1 = (1 .. p) \cup {p + 1} /\ Len(s) \in Nat
  OBVIOUS
<1>2. ASSUME input[p + 1] = o PROVE Sorted(input, Append(s, p + 1), o, p + 1)
  <2> DEFINE t == Append(s, p + 1)
  <2>1. /\ Len(t) = Len(s) + 1 /\ t[Len(s) + 1] = p + 1
        /\ \A n \in 1 .. Len(s) : t[n] = s[n]
    OBVIOUS
  <2> HIDE DEF t
  <2>2. 1 .. Len(t) = (1 .. Len(s)) \cup {Len(s) + 1}
    BY <1>1, <2>1
  <2>3. {t[n] : n \in 1 .. Len(t)} = {s[n] : n \in 1 .. Len(s)} \cup {p + 1}
    BY SMTT(60), <2>1, <2>2
  <2>4. {k \in 1 .. p + 1 : input[k] = o} =
          {k \in 1 .. p : input[k] = o} \cup {p + 1}
    BY <1>1, <1>2
  <2>5. {t[n] : n \in 1 .. Len(t)} = {k \in 1 .. p + 1 : input[k] = o}
    BY <2>3, <2>4 DEF Sorted
  <2>6. ASSUME NEW n \in 1 .. Len(s) PROVE s[n] \in Nat /\ s[n] < p + 1
    <3>1. s[n] \in {k \in 1 .. p : input[k] = o}
      BY DEF Sorted
    <3> QED
      BY <3>1
  <2>7. ASSUME NEW m \in 1 .. Len(t), NEW n \in 1 .. Len(t), m < n
        PROVE  t[m] < t[n]
    <3>1. m \in 1 .. Len(s)
      BY <1>1, <2>1, <2>7
    <3>2. CASE n \in 1 .. Len(s)
      BY <2>1, <2>7, <3>1, <3>2 DEF Sorted
    <3>3. CASE n = Len(s) + 1
      BY <2>1, <2>6, <3>1, <3>3
    <3> QED
      BY <2>2, <3>2, <3>3
  <2>8. Sorted(input, t, o, p + 1)
    BY <2>5, <2>7 DEF Sorted
  <2> QED
    BY <2>8 DEF t
<1>3. ASSUME input[p + 1] # o PROVE Sorted(input, s, o, p + 1)
  <2>1. {k \in 1 .. p + 1 : input[k] = o} = {k \in 1 .. p : input[k] = o}
    BY <1>1, <1>3
  <2> QED
    BY <2>1 DEF Sorted
<1> QED
  BY <1>2, <1>3

LEMMA AppendToLast ==
  ASSUME NEW s \in Seq(Nat), NEW t \in Seq(Nat), NEW k \in Nat
  PROVE  Append(s \o t, k) = s \o Append(t, k)
<1>1. <<k>> \in Seq(Nat) /\ s \o t \in Seq(Nat)
  OBVIOUS
<1>2. Append(t, k) = t \o <<k>>
  BY AppendIsConcat
<1>3. Append(s \o t, k) = (s \o t) \o <<k>>
  BY <1>1, AppendIsConcat, Zenon
<1>4. (s \o t) \o <<k>> = s \o (t \o <<k>>)
  <2> DEFINE u == <<k>>
  <2>1. u \in Seq(Nat)
    BY <1>1
  <2> HIDE DEF u
  <2>2. (s \o t) \o u = s \o (t \o u)
    BY SMTT(60), <2>1, ConcatAssociative
  <2> QED
    BY <2>2 DEF u
<1> QED
  BY <1>2, <1>3, <1>4

LEMMA SplitStore ==
  ASSUME SplitInv, Split!Store
  PROVE  SplitInv'
<1>1. SplitTypeOK /\ pos < Len(input) /\ pos' = pos + 1 /\ splitPc' = "flush"
        /\ UNCHANGED <<input, existing, out, status, lost>>
  BY DEF SplitInv, Split!Store
<1>2. pos \in Nat /\ Len(input) \in Nat
  BY <1>1 DEF SplitTypeOK
<1>3. buffers' =
        [o \in Output |-> IF input[pos + 1] = o THEN Append(buffers[o], pos + 1)
                                                ELSE buffers[o]]
  BY DEF Split!Store, Split!Stored, Split!Output, Output
<1>4. \A o \in Output : buffers[o] \in Seq(Nat) /\ out[o] \in Seq(Nat)
  BY <1>1 DEF SplitTypeOK
<1>5. SplitTypeOK'
  <2>1. pos' \in 0 .. Len(input)
    BY <1>1, <1>2
  <2>2. \A o \in Output :
          (IF input[pos + 1] = o THEN Append(buffers[o], pos + 1)
                                 ELSE buffers[o]) \in Seq(Nat)
    BY <1>2, <1>4
  <2>3. buffers' \in [Output -> Seq(Nat)]
    BY <1>3, <2>2
  <2> QED
    BY <1>1, <2>1, <2>3 DEF SplitTypeOK
<1>6. ASSUME status = 0, NEW o \in Output, ~lost \/ o = "other"
      PROVE  Sorted(input, out[o] \o buffers'[o], o, pos + 1)
  <2>1. Sorted(input, out[o] \o buffers[o], o, pos)
    BY <1>6 DEF SplitInv
  <2>2. out[o] \o buffers[o] \in Seq(Nat)
    BY <1>4
  <2>3. CASE input[pos + 1] = o
    <3>1. buffers'[o] = Append(buffers[o], pos + 1)
      BY <1>3, <2>3
    <3>2. Append(out[o] \o buffers[o], pos + 1)
            = out[o] \o Append(buffers[o], pos + 1)
      <4>1. pos + 1 \in Nat
        BY <1>2
      <4> QED
        BY <1>4, <4>1, AppendToLast
    <3>3. Sorted(input, Append(out[o] \o buffers[o], pos + 1), o, pos + 1)
      BY <1>2, <2>1, <2>2, <2>3, OneMore
    <3> QED
      BY <3>1, <3>2, <3>3
  <2>4. CASE input[pos + 1] # o
    <3>1. buffers'[o] = buffers[o]
      BY <1>3, <2>4
    <3> QED
      BY <1>2, <2>1, <2>2, <2>4, <3>1, OneMore
  <2> QED
    BY <2>3, <2>4
<1> QED
  BY <1>1, <1>5, <1>6 DEF SplitInv

(* A buffer is written or kept, unless a failure shows.                    *)
LEMMA FlushKeeps ==
  ASSUME SplitInv, NEW due \in SUBSET Output, NEW failing \in SUBSET due,
         Split!Flush(due, failing), UNCHANGED <<input, existing, pos>>
  PROVE  /\ SplitTypeOK'
         /\ status' = 0 =>
              \A o \in Output :
                ~lost' \/ o = "other" =>
                 Sorted(input, out'[o] \o buffers'[o], o, pos)
         /\ \A o \in Output :
              buffers'[o] = IF o \in due THEN <<>> ELSE buffers[o]
         /\ status' = 0 => status = 0
<1>1. /\ out' = [o \in Output |-> IF o \in due \ failing
                                  THEN out[o] \o buffers[o] ELSE out[o]]
      /\ buffers' = [o \in Output |-> IF o \in due THEN <<>> ELSE buffers[o]]
      /\ lost' = (lost \/ failing # {})
  BY DEF Split!Flush, Split!Output, Output
<1>2. /\ status' = 0 => status = 0
      /\ "other" \in failing => status' = 3
  BY DEF Split!Flush
<1>3. \A o \in Output : buffers[o] \in Seq(Nat) /\ out[o] \in Seq(Nat)
  BY DEF SplitInv, SplitTypeOK
<1>4. SplitTypeOK'
  <2>1. \A o \in Output : out[o] \o buffers[o] \in Seq(Nat) /\ <<>> \in Seq(Nat)
    BY <1>3
  <2>2. out' \in [Output -> Seq(Nat)] /\ buffers' \in [Output -> Seq(Nat)]
    BY <1>1, <1>3, <2>1
  <2>3. lost' \in BOOLEAN
    BY <1>1
  <2> QED
    BY <2>2, <2>3 DEF SplitInv, SplitTypeOK
<1>5. ASSUME status' = 0, NEW o \in Output, ~lost' \/ o = "other"
      PROVE  Sorted(input, out'[o] \o buffers'[o], o, pos)
  <2>1. o \notin failing /\ (~lost \/ o = "other")
    <3>1. CASE o = "other"
      <4>1. "other" \notin failing
        BY <1>2, <1>5
      <4> QED
        BY <3>1, <4>1
    <3>2. CASE ~lost'
      <4>1. failing = {} /\ ~lost
        BY <1>1, <3>2
      <4> QED
        BY <4>1
    <3> QED
      BY <1>5, <3>1, <3>2
  <2>2. Sorted(input, out[o] \o buffers[o], o, pos)
    BY <1>2, <1>5, <2>1 DEF SplitInv
  <2>3. CASE o \in due
    <3>1. out'[o] = out[o] \o buffers[o] /\ buffers'[o] = <<>>
      BY <1>1, <2>1, <2>3
    <3>2. (out[o] \o buffers[o]) \o <<>> = out[o] \o buffers[o]
      <4>1. out[o] \o buffers[o] \in Seq(Nat)
        BY <1>3
      <4> QED
        BY <4>1, ConcatEmptySeq
    <3> QED
      BY <2>2, <3>1, <3>2
  <2>4. CASE o \notin due
    BY <1>1, <2>2, <2>4
  <2> QED
    BY <2>3, <2>4
<1> QED
  BY <1>1, <1>2, <1>4, <1>5

LEMMA SplitFlush ==
  ASSUME SplitInv, Split!FlushFull \/ Split!FlushRest
  PROVE  SplitInv'
<1>1. CASE Split!FlushFull
  <2> DEFINE due == {o \in Output : Len(buffers[o]) = Full}
  <2>1. PICK failing \in SUBSET due : Split!Flush(due, failing)
    BY <1>1 DEF Split!FlushFull, Split!Output, Output
  <2>2. UNCHANGED <<input, existing, pos>>
          /\ (splitPc' = "done" => status' = 3)
    BY <1>1 DEF Split!FlushFull
  <2>3. due \in SUBSET Output
    OBVIOUS
  <2> HIDE DEF due
  <2>4. /\ SplitTypeOK'
        /\ status' = 0 =>
             \A o \in Output :
               ~lost' \/ o = "other" =>
                 Sorted(input, out'[o] \o buffers'[o], o, pos)
    BY <2>1, <2>2, <2>3, FlushKeeps
  <2> QED
    BY <2>2, <2>4 DEF SplitInv
<1>2. CASE Split!FlushRest
  <2> DEFINE due == {o \in Output : buffers[o] # <<>>}
  <2>1. PICK failing \in SUBSET due : Split!Flush(due, failing)
    BY <1>2 DEF Split!FlushRest, Split!Output, Output
  <2>2. UNCHANGED <<input, existing, pos>> /\ pos = Len(input)
    BY <1>2 DEF Split!FlushRest
  <2>3. due \in SUBSET Output
    OBVIOUS
  <2>4. \A o \in Output : o \notin due => buffers[o] = <<>>
    OBVIOUS
  <2> HIDE DEF due
  <2>5. /\ SplitTypeOK'
        /\ status' = 0 =>
             \A o \in Output :
               ~lost' \/ o = "other" =>
                 Sorted(input, out'[o] \o buffers'[o], o, pos)
        /\ \A o \in Output :
             buffers'[o] = IF o \in due THEN <<>> ELSE buffers[o]
    BY <2>1, <2>2, <2>3, FlushKeeps
  <2>6. \A o \in Output : buffers'[o] = <<>>
    BY <2>4, <2>5
  <2> QED
    BY <2>2, <2>5, <2>6 DEF SplitInv
<1> QED
  BY <1>1, <1>2

LEMMA SplitStep == SplitInv /\ [Next]_vars => SplitInv'
<1> SUFFICES ASSUME SplitInv, [Next]_vars PROVE SplitInv'
  OBVIOUS
<1>1. CASE Split!Open
  <2>1. UNCHANGED <<input, existing, pos, buffers, out, lost>>
          /\ \/ splitPc' = "read" /\ status' = status
             \/ status' = 2
    BY <1>1 DEF Split!Open
  <2>2. SplitTypeOK'
    BY <2>1 DEF SplitInv, SplitTypeOK
  <2> QED
    BY <2>1, <2>2 DEF SplitInv
<1>2. CASE Split!ReadFails
  <2>1. out' = [o \in Output |-> out[o] \o buffers[o]] /\ status' = 3
          /\ UNCHANGED <<input, existing, pos, buffers, lost>>
    BY <1>2 DEF Split!ReadFails, Split!Output, Output
  <2>2. \A o \in Output : out[o] \o buffers[o] \in Seq(Nat)
    BY DEF SplitInv, SplitTypeOK
  <2>3. SplitTypeOK'
    BY <2>1, <2>2 DEF SplitInv, SplitTypeOK
  <2> QED
    BY <2>1, <2>3 DEF SplitInv
<1>3. CASE Split!Next
  BY <1>1, <1>2, <1>3, SplitStore, SplitFlush DEF Split!Next
<1>4. CASE UNCHANGED splitVars
  BY <1>4 DEF splitVars, SplitInv, SplitTypeOK, Sorted
<1> QED
  BY <1>3, <1>4
  DEF Next, CountNext, ServerNext, HttpNext, QueryNext, DecryptNext, GccNext,
      SplitNext, vars

(* A sequence that grows has as many elements as places.                   *)
LEMMA AsLongAsMany ==
  ASSUME NEW s \in Seq(Nat), \A m, n \in 1 .. Len(s) : m < n => s[m] < s[n]
  PROVE  Cardinality({s[n] : n \in 1 .. Len(s)}) = Len(s)
<1> DEFINE D == 1 .. Len(s)
           T == {s[n] : n \in D}
<1>1. Len(s) \in Nat /\ \A n \in D : s[n] \in Nat
  OBVIOUS
<1>2. IsFiniteSet(D) /\ Cardinality(D) = Len(s)
  <2>1. 1 \in Int /\ Len(s) \in Int
    BY <1>1
  <2>2. IsFiniteSet(1 .. Len(s))
          /\ Cardinality(1 .. Len(s)) = IF 1 > Len(s) THEN 0 ELSE Len(s) - 1 + 1
    BY <2>1, FS_Interval
  <2> QED
    BY <1>1, <2>2
<1> DEFINE f == [n \in D |-> s[n]]
<1>3. f \in [D -> T] /\ \A t \in T : \E n \in D : f[n] = t
  OBVIOUS
<1>4. \A m, n \in D : f[m] = f[n] => m = n
  <2> SUFFICES ASSUME NEW m \in D, NEW n \in D, m # n PROVE s[m] # s[n]
    OBVIOUS
  <2>1. m < n \/ n < m
    BY <1>1
  <2> QED
    BY <1>1, <2>1
<1> HIDE DEF D, T, f
<1>5. f \in Bijection(D, T)
  BY <1>3, <1>4 DEF Bijection, Injection, Surjection, IsInjective
<1>6. ExistsBijection(D, T)
  BY <1>5 DEF ExistsBijection
<1>7. Cardinality(T) = Cardinality(D)
  BY <1>2, <1>6, FS_Bijection
<1> QED
  BY <1>2, <1>7 DEF D, T

(* What is in a file of what was written to it, and behind that.           *)
LEMMA FileHas ==
  ASSUME NEW o \in Output, SplitTypeOK
  PROVE  LET text == Split!File(o)
             size == Len(out[o])
         IN  /\ Len(text) = IF size < existing[o] THEN existing[o] ELSE size
             /\ \A n \in 1 .. size : text[n] = out[o][n]
             /\ \A n \in size + 1 .. Len(text) : text[n] = 0
<1> DEFINE size == Len(out[o])
           long == IF size < existing[o] THEN existing[o] ELSE size
           text == [n \in 1 .. long |-> IF n <= size THEN out[o][n] ELSE 0]
<1>1. out[o] \in Seq(Nat) /\ size \in Nat /\ existing[o] \in Nat
  BY DEF SplitTypeOK
<1>2. long \in Nat /\ size <= long
  BY <1>1
<1>3. Split!File(o) = text
  BY DEF Split!File
<1>4. Len(text) = long
  <2> HIDE DEF long, size
  <2> QED
    BY <1>2
<1>5. /\ \A n \in 1 .. size : text[n] = out[o][n]
      /\ \A n \in size + 1 .. long : text[n] = 0
  <2> HIDE DEF long, size
  <2> QED
    BY <1>1, <1>2 DEF size
<1> HIDE DEF text
<1>6. /\ Len(Split!File(o)) = long
      /\ \A n \in 1 .. size : Split!File(o)[n] = out[o][n]
      /\ \A n \in size + 1 .. Len(Split!File(o)) : Split!File(o)[n] = 0
  BY <1>3, <1>4, <1>5
<1> QED
  BY <1>6

LEMMA SplitResult == SplitInv => Split!SplitsInput
<1> SUFFICES ASSUME SplitInv, splitPc = "done", status = 0, NEW o \in Output,
                    ~lost \/ o = "other"
             PROVE  LET text == Split!File(o)
                        size == Split!Cardinality(Split!Mine(o))
                    IN  /\ Len(text) = (IF size < existing[o] THEN existing[o]
                                                              ELSE size)
                        /\ {text[n] : n \in 1 .. size} = Split!Mine(o)
                        /\ \A m, n \in 1 .. size : m < n => text[m] < text[n]
                        /\ \A n \in size + 1 .. Len(text) : text[n] = 0
  BY DEF Split!SplitsInput, Split!Output, Output
<1> DEFINE text == Split!File(o)
           size == Len(out[o])
<1>1. out[o] \in Seq(Nat) /\ buffers[o] = <<>> /\ pos = Len(input)
        /\ input \in Seq({"digit", "other", "zero"}) /\ SplitTypeOK
  BY DEF SplitInv, SplitTypeOK
<1>2. out[o] \o <<>> = out[o]
  BY <1>1, ConcatEmptySeq
<1>3. Sorted(input, out[o], o, Len(input))
  BY <1>1, <1>2 DEF SplitInv
<1>4. DOMAIN input = 1 .. Len(input)
  BY <1>1
<1>5. {out[o][n] : n \in 1 .. size} = Split!Mine(o)
  BY <1>3, <1>4 DEF Sorted, Split!Mine
<1>6. \A m, n \in 1 .. size : m < n => out[o][m] < out[o][n]
  BY <1>3 DEF Sorted
<1>7. Cardinality({out[o][n] : n \in 1 .. size}) = size
  BY <1>1, <1>6, AsLongAsMany
<1>8. Split!Cardinality(Split!Mine(o)) = size
  <2>1. ASSUME NEW S PROVE Split!Cardinality(S) = Cardinality(S)
    BY DEF Split!Cardinality, Cardinality
  <2> QED
    BY <1>5, <1>7, <2>1
<1>9. /\ Len(text) = IF size < existing[o] THEN existing[o] ELSE size
      /\ \A n \in 1 .. size : text[n] = out[o][n]
      /\ \A n \in size + 1 .. Len(text) : text[n] = 0
  BY <1>1, FileHas
<1> HIDE DEF text, size
<1>10. {text[n] : n \in 1 .. size} = {out[o][n] : n \in 1 .. size}
  BY <1>9
<1>11. \A m, n \in 1 .. size : m < n => text[m] < text[n]
  BY <1>6, <1>9
<1>12. {text[n] : n \in 1 .. size} = Split!Mine(o)
  BY <1>5, <1>10
<1> QED
  BY <1>8, <1>9, <1>11, <1>12 DEF text
-----------------------------------------------------------------------------
StreamsInv ==
  /\ CounterInv /\ HttpInv /\ UploadInv /\ QueryInv /\ CipherInv /\ GccInv
  /\ SplitInv

(* However a stream is cut into pieces and whichever writer is late: the   *)
(* counter of inf15-0 returns the number of bytes, the clients of inf21    *)
(* print the body and send the file, the lines of inf14-0 and inf20 answer *)
(* their own questions, inf22-1 writes what it read, inf13-0 and inf13-2   *)
(* count every byte and every line with a message, and inf07-0 sends each  *)
(* character to its file, in order.  Reads, sends and writes may fail any  *)
(* number of times, files change their size and be there already, and      *)
(* tmp_str hold what it likes: StreamsAreWhole says what is left then.     *)
THEOREM StreamsStayWhole == Spec => []StreamsAreWhole
<1>1. Init => StreamsInv
  BY CounterInit, HttpInit, QueryInit, CipherInit, GccInit, SplitInit
  DEF StreamsInv
<1>2. StreamsInv /\ [Next]_vars => StreamsInv'
  BY CounterStep, HttpStep, QueryStep, UploadStep, CipherStep, GccStep, SplitStep
  DEF StreamsInv
<1>3. StreamsInv => StreamsAreWhole
  BY HttpResult, QueryResult, CipherResult, GccResult, SplitResult
  DEF StreamsInv, CounterInv, StreamsAreWhole
<1> QED
  BY <1>1, <1>2, <1>3, PTL DEF Spec
-----------------------------------------------------------------------------
(* The ping-pong of inf11-1                                                *)

(* The answer to p's last number is in p's queue.                          *)
Mailed(p) == mail[p] = <<last_asked[p] - 1>>

(* p's last number is in the hands of main.                                *)
InHand(p) == pid = p /\ playPc # "forget"

(* p's last number is in the queue of signals.                             *)
Queued(p) == \E k \in DOMAIN queue : queue[k].from = p

QueueTyped == queue \in Seq([from : Peers, n : Int])

PlayTyped ==
  /\ pid \in Peers \cup {"none"}
  /\ reply \in Int /\ to_send \in Int
  /\ DOMAIN peer = Peers /\ last_asked \in [Peers -> Int]
  /\ mail \in [Peers -> Seq(Int)] /\ QueueTyped

(* The last number of a peer is in the queue of signals, or in the hands   *)
(* of main, or answered, and only in one of these places.                  *)
OnePlace ==
  /\ \A p \in Peers : mail[p] = <<>> \/ Mailed(p)
  /\ \A k \in DOMAIN queue :
       /\ queue[k].n = last_asked[queue[k].from]
       /\ mail[queue[k].from] = <<>>
       /\ ~InHand(queue[k].from)
  /\ \A k, m \in DOMAIN queue : queue[k].from = queue[m].from => k = m
  /\ \A p \in Peers : InHand(p) => mail[p] = <<>> /\ reply = last_asked[p] - 1
  /\ playPc = "send" => to_send = reply

(* Nothing is anywhere of a peer that has not begun.                       *)
NewIsQuiet ==
  \A p \in Peers :
    peer[p] = "new" => mail[p] = <<>> /\ pid # p /\ ~Queued(p)

(* main answers somebody.                                                  *)
MainHasPeer ==
  /\ playPc = "check" => pid # "none" \/ stop = 1
  /\ playPc \in {"load", "send", "forget"} => pid # "none"

(* A patient peer that plays alone does not send while main forgets it.    *)
PatientWaits ==
  \A p \in Patient :
    (\A q \in Peers \ {p} : peer[q] = "new") =>
      ~forgotten /\ (playPc = "forget" => ~Queued(p))

PlayInv ==
  /\ PlayTyped /\ NewIsQuiet /\ MainHasPeer
  /\ ~forgotten => OnePlace
  /\ PatientWaits

LEMMA Elements ==
  ASSUME NEW S, NEW q \in Seq(S) PROVE \A k \in DOMAIN q : q[k] \in S
BY ElementOfSeq, LenProperties

LEMMA Senders ==
  ASSUME NEW S, NEW q \in Seq([from : Peers, n : S])
  PROVE  \A k \in DOMAIN q : q[k].from \in Peers
<1> DEFINE E == [from : Peers, n : S]
<1>1. \A e \in E : e.from \in Peers
  OBVIOUS
<1> HIDE DEF E
<1>2. q \in Seq(E)
  BY DEF E
<1> QED
  BY <1>1, <1>2, Elements

LEMMA PlayStart == SignalsInit => PlayInv
<1> SUFFICES ASSUME SignalsInit PROVE PlayInv
  OBVIOUS
<1>1. PlayTyped
  <2>1. queue = <<>> /\ queue \in Seq([from : Peers, n : Int])
    BY DEF SignalsInit, PingPong!Init
  <2>2. /\ last_asked \in [Peers -> Int] /\ mail \in [Peers -> Seq(Int)]
        /\ reply \in Int /\ to_send \in Int
    BY DEF SignalsInit, PingPong!Init
  <2> QED
    BY <2>1, <2>2
    DEF SignalsInit, PingPong!Init, PingPong!None, PlayTyped, QueueTyped
<1>2. OnePlace /\ NewIsQuiet
  BY PeersAssumption
  DEF SignalsInit, PingPong!Init, PingPong!None, OnePlace, NewIsQuiet,
      Mailed, InHand, Queued
<1>3. MainHasPeer /\ PatientWaits
  BY DEF SignalsInit, PingPong!Init, MainHasPeer, PatientWaits
<1> QED
  BY <1>1, <1>2, <1>3 DEF PlayInv

(* The handler: the first signal of the queue goes into the hands of main, *)
(* which are empty, or an answer is forgotten, or the game is over.        *)
LEMMA PlayHandler == PlayInv /\ PingPong!signal_handler => PlayInv'
<1> SUFFICES ASSUME PlayInv, PingPong!signal_handler PROVE PlayInv'
  OBVIOUS
<1> USE DEF PlayInv
<1>q. /\ queue \in Seq([from : Peers, n : Int]) /\ queue # <<>>
      /\ queue' = Tail(queue)
  BY DEF PlayTyped, QueueTyped, PingPong!signal_handler
<1>t. /\ queue' \in Seq([from : Peers, n : Int])
      /\ Len(queue') = Len(queue) - 1 /\ Len(queue) \in Nat \ {0}
      /\ DOMAIN queue = 1 .. Len(queue) /\ DOMAIN queue' = 1 .. Len(queue')
      /\ \A k \in DOMAIN queue' : queue'[k] = queue[k + 1]
      /\ Head(queue) = queue[1] /\ queue[1] \in [from : Peers, n : Int]
  <2> DEFINE E == [from : Peers, n : Int]
             q == queue
  <2>0. q \in Seq(E) /\ q # <<>>
    BY <1>q
  <2> HIDE DEF E, q
  <2>1. /\ Tail(q) \in Seq(E) /\ Len(Tail(q)) = Len(q) - 1
        /\ \A k \in 1 .. Len(Tail(q)) : Tail(q)[k] = q[k + 1]
    BY <2>0, HeadTailProperties
  <2>2. Len(q) \in Nat \ {0} /\ DOMAIN q = 1 .. Len(q)
    BY <2>0, EmptySeq
  <2>3. DOMAIN Tail(q) = 1 .. Len(Tail(q))
    BY <2>1
  <2>4. Head(q) = q[1] /\ q[1] \in E
    BY <2>0, <2>2
  <2> QED
    BY <1>q, <2>1, <2>2, <2>3, <2>4 DEF E, q
<1>s. /\ \A k \in DOMAIN queue' : k + 1 \in DOMAIN queue /\ k + 1 # 1
      /\ 1 \in DOMAIN queue
  BY <1>t
<1>u. UNCHANGED <<mail, last_asked, peer, playPc, to_send>>
  BY DEF PingPong!signal_handler, PingPong!peerVars
<1>h. \/ stop' = 1 /\ UNCHANGED <<pid, reply, forgotten>>
      \/ /\ pid' = queue[1].from /\ reply' = queue[1].n - 1
         /\ forgotten' = (forgotten \/ pid # "none")
         /\ UNCHANGED stop
  BY <1>t DEF PingPong!signal_handler, PingPong!None
<1>f. ~forgotten' =>
        ~forgotten /\ (pid = "none" \/ UNCHANGED <<pid, reply>>)
  BY <1>h, Zenon
<1>1. PlayTyped'
  BY SMTT(60), <1>t, <1>h, <1>u DEF PlayTyped, QueueTyped
<1>m. MainHasPeer'
  BY <1>h, <1>u, <1>t, PeersAssumption DEF MainHasPeer
<1>n. NewIsQuiet'
  <2> SUFFICES ASSUME NEW p \in Peers, peer[p] = "new"
               PROVE  mail[p] = <<>> /\ pid' # p /\ ~Queued(p)'
    BY <1>u DEF NewIsQuiet
  <2>1. mail[p] = <<>> /\ pid # p /\ ~Queued(p)
    BY DEF NewIsQuiet
  <2> QED
    BY <2>1, <1>s, <1>h, <1>t DEF Queued
<1>2. ASSUME ~forgotten'
      PROVE  OnePlace'
  <2>1. ~forgotten /\ OnePlace
    BY <1>2, <1>f, Zenon
  <2>o. OnePlace'
    <3>1. \A r \in Peers :
            InHand(r)' =>
              \/ InHand(r) /\ reply' = reply
              \/ r = queue[1].from /\ reply' = queue[1].n - 1
      BY <1>h, <1>u DEF InHand
    <3>2. \A r \in Peers : mail'[r] = <<>> \/ Mailed(r)'
      BY <2>1, <1>u DEF OnePlace, Mailed
    <3>3. \A k, m \in DOMAIN queue' : queue'[k].from = queue'[m].from => k = m
      <4> SUFFICES ASSUME NEW k \in DOMAIN queue', NEW m \in DOMAIN queue',
                          queue[k + 1].from = queue[m + 1].from
                   PROVE  k = m
        BY <1>t
      <4>1. k + 1 = m + 1
        BY <1>s, <2>1 DEF OnePlace
      <4> QED
        BY <4>1, <1>t
    <3>4. \A r \in Peers :
            InHand(r)' => mail'[r] = <<>> /\ reply' = last_asked'[r] - 1
      BY <3>1, <2>1, <1>s, <1>u DEF OnePlace
    <3>5. ASSUME NEW k \in DOMAIN queue'
          PROVE  /\ queue'[k].n = last_asked'[queue'[k].from]
                 /\ mail'[queue'[k].from] = <<>>
                 /\ ~(pid' = queue'[k].from /\ playPc' # "forget")
      <4>1. /\ queue'[k] = queue[k + 1] /\ k + 1 \in DOMAIN queue
            /\ k + 1 # 1
        BY <1>t, <1>s
      <4>5. queue'[k].from \in Peers
        BY <1>t, Senders
      <4>2. queue[k + 1].from # queue[1].from
        BY <4>1, <1>s, <2>1 DEF OnePlace
      <4>3. ~InHand(queue[k + 1].from)
        BY <4>1, <2>1 DEF OnePlace
      <4>4. ~(pid' = queue'[k].from /\ playPc' # "forget")
        BY <4>1, <4>2, <4>3, <4>5, <3>1 DEF InHand
      <4> QED
        BY <4>1, <4>4, <2>1, <1>u DEF OnePlace
    <3>6. playPc' = "send" => to_send' = reply'
      BY <1>u, <1>f, <1>2, <2>1, PeersAssumption DEF OnePlace, MainHasPeer
    <3> QED
      BY <3>2, <3>3, <3>4, <3>5, <3>6 DEF OnePlace, Mailed, InHand
  <2> QED
    BY <2>o
<1>3. PatientWaits'
  <2> SUFFICES ASSUME NEW p \in Patient,
                      \A q \in Peers \ {p} : peer[q] = "new"
               PROVE  /\ ~forgotten'
                      /\ playPc' = "forget" => ~Queued(p)'
    BY <1>u DEF PatientWaits
  <2>1. ~forgotten /\ (playPc = "forget" => ~Queued(p))
    BY DEF PatientWaits
  <2>2. ~Queued(p) => ~Queued(p)'
    BY <1>s, <1>t DEF Queued
  <2>3. OnePlace /\ NewIsQuiet
    BY <2>1
  <2>4. queue[1].from = p
    BY <1>t, <1>s DEF NewIsQuiet, Queued
  <2>5. playPc # "forget"
    BY <2>1, <2>4, <1>s DEF Queued
  <2>6. pid = "none"
    BY <2>3, <2>4, <2>5, <1>s DEF OnePlace, NewIsQuiet, InHand, PlayTyped
  <2>7. ~forgotten'
    BY <1>h, <2>1, <2>6, Zenon
  <2> QED
    BY <2>1, <2>2, <2>7, <1>u
<1> QED
  BY <1>1, <1>m, <1>n, <1>2, <1>3

LEMMA Appended ==
  ASSUME NEW S, NEW q \in Seq(S), NEW e \in S, NEW r, r = Append(q, e)
  PROVE  /\ r \in Seq(S) /\ Len(q) \in Nat
         /\ DOMAIN q = 1 .. Len(q) /\ DOMAIN r = 1 .. Len(q) + 1
         /\ r[Len(q) + 1] = e
         /\ \A k \in DOMAIN q : k \in DOMAIN r /\ k # Len(q) + 1 /\ r[k] = q[k]
         /\ \A k \in DOMAIN r : k \in DOMAIN q \/ k = Len(q) + 1
BY AppendProperties, LenProperties

(* A peer sends a number: then it is in the queue and nowhere else.        *)
LEMMA PlayAsks ==
  ASSUME PlayInv, NEW p \in Peers, NEW m \in Int,
         queue' = Append(queue, [from |-> p, n |-> m]),
         last_asked' = [last_asked EXCEPT ![p] = m],
         mail' \in [Peers -> Seq(Int)],
         \A r \in Peers \ {p} : mail'[r] = mail[r] /\ peer'[r] = peer[r],
         DOMAIN peer' = Peers, peer'[p] # "new",
         UNCHANGED <<pid, playPc, reply, stop, to_send, forgotten>>,
         ~forgotten => mail'[p] = <<>> /\ ~Queued(p) /\ ~InHand(p)
  PROVE  /\ PlayTyped' /\ NewIsQuiet' /\ MainHasPeer'
         /\ ~forgotten' => OnePlace'
<1> USE DEF PlayInv
<1> DEFINE E == [from : Peers, n : Int]
           e == [from |-> p, n |-> m]
           new == Len(queue) + 1
<1>e. e \in E /\ e.from = p /\ e.n = m
  OBVIOUS
<1>q. queue \in Seq(E)
  BY DEF PlayTyped, QueueTyped
<1>1. /\ queue' \in Seq(E) /\ Len(queue) \in Nat
      /\ queue'[new] = e
      /\ \A k \in DOMAIN queue :
           k \in DOMAIN queue' /\ k # new /\ queue'[k] = queue[k]
      /\ \A k \in DOMAIN queue' : k \in DOMAIN queue \/ k = new
  <2> HIDE DEF E, e
  <2>1. queue' = Append(queue, e)
    BY DEF e
  <2> QED
    BY <2>1, <1>e, <1>q, Appended
<1>l. /\ last_asked'[p] = m /\ last_asked' \in [Peers -> Int]
      /\ \A r \in Peers \ {p} : last_asked'[r] = last_asked[r]
  BY DEF PlayTyped
<1>2. PlayTyped'
  BY <1>1, <1>l DEF PlayTyped, QueueTyped
<1>f. \A k \in DOMAIN queue : queue[k].from \in Peers
  BY <1>q, Senders DEF E
<1>m. MainHasPeer'
  BY DEF MainHasPeer
<1> HIDE DEF E, e, new
<1>n. NewIsQuiet'
  <2> SUFFICES ASSUME NEW r \in Peers, peer'[r] = "new"
               PROVE  mail'[r] = <<>> /\ pid' # r /\ ~Queued(r)'
    BY DEF NewIsQuiet
  <2>1. r # p /\ peer[r] = "new"
    OBVIOUS
  <2>2. mail'[r] = <<>> /\ pid' # r /\ \A k \in DOMAIN queue : queue[k].from # r
    BY <2>1 DEF NewIsQuiet, Queued
  <2>3. \A k \in DOMAIN queue' : queue'[k].from # r
    BY <2>1, <2>2, <1>1, <1>e
  <2> QED
    BY <2>2, <2>3 DEF Queued
<1>3. ASSUME ~forgotten'
      PROVE  OnePlace'
  <2>1. /\ ~forgotten /\ OnePlace
        /\ mail'[p] = <<>> /\ ~Queued(p) /\ ~InHand(p)
    BY <1>3
  <2>q. \A k \in DOMAIN queue : queue[k].from # p
    BY <2>1 DEF Queued
  <2>o. OnePlace'
    <3>1. \A r \in Peers : mail'[r] = <<>> \/ Mailed(r)'
      BY ZenonT(60), <2>1, <1>l DEF OnePlace, Mailed
    <3>2. \A r \in Peers :
            InHand(r)' => mail'[r] = <<>> /\ reply' = last_asked'[r] - 1
      BY <2>1, <1>l DEF OnePlace, InHand
    <3>3. \A k, j \in DOMAIN queue' : queue'[k].from = queue'[j].from => k = j
      BY <1>1, <1>e, <2>q, <2>1 DEF OnePlace
    <3>4. ASSUME NEW k \in DOMAIN queue'
          PROVE  /\ queue'[k].n = last_asked'[queue'[k].from]
                 /\ mail'[queue'[k].from] = <<>>
                 /\ ~(pid' = queue'[k].from /\ playPc' # "forget")
      <4>1. CASE k = new
        <5>1. queue'[k].from = p /\ queue'[k].n = m
          BY <4>1, <1>1, <1>e
        <5> QED
          BY <5>1, <1>l, <2>1 DEF InHand
      <4>2. CASE k \in DOMAIN queue
        <5>1. queue'[k] = queue[k] /\ queue[k].from \in Peers \ {p}
          BY <4>2, <1>1, <1>f, <2>q
        <5>2. /\ last_asked'[queue[k].from] = last_asked[queue[k].from]
              /\ mail'[queue[k].from] = mail[queue[k].from]
          BY <5>1, <1>l
        <5>3. /\ queue[k].n = last_asked[queue[k].from]
              /\ mail[queue[k].from] = <<>>
              /\ ~(pid = queue[k].from /\ playPc # "forget")
          BY <4>2, <2>1 DEF OnePlace, InHand
        <5> QED
          BY <5>1, <5>2, <5>3
      <4> QED
        BY <4>1, <4>2, <1>1
    <3> QED
      BY <3>1, <3>2, <3>3, <3>4, <2>1 DEF OnePlace, Mailed, InHand
  <2> QED
    BY <2>o
<1> QED
  BY <1>2, <1>m, <1>n, <1>3

LEMMA PlayBegin ==
  ASSUME PlayInv, NEW p \in Peers, PingPong!Start(p)
  PROVE  PlayInv'
<1> USE DEF PlayInv
<1>1. PICK m \in Starts :
        /\ last_asked' = [last_asked EXCEPT ![p] = m]
        /\ queue' = Append(queue, [from |-> p, n |-> m])
  BY DEF PingPong!Start
<1>2. /\ m \in Int /\ peer[p] = "new"
      /\ peer' = [peer EXCEPT ![p] = "playing"]
      /\ UNCHANGED <<playPc, pid, reply, stop, to_send, mail, forgotten>>
  BY NumbersAssumption DEF PingPong!Start
<1>3. ~forgotten => mail[p] = <<>> /\ pid # p /\ ~Queued(p)
  BY <1>2 DEF NewIsQuiet
<1>4. /\ PlayTyped' /\ NewIsQuiet' /\ MainHasPeer'
      /\ ~forgotten' => OnePlace'
  <2>1. /\ mail' \in [Peers -> Seq(Int)] /\ DOMAIN peer' = Peers
        /\ \A r \in Peers \ {p} : mail'[r] = mail[r] /\ peer'[r] = peer[r]
        /\ peer'[p] # "new"
    BY <1>2 DEF PlayTyped
  <2>2. ~forgotten => mail'[p] = <<>> /\ ~Queued(p) /\ ~InHand(p)
    BY <1>2, <1>3 DEF InHand
  <2> QED
    BY <1>1, <1>2, <2>1, <2>2, PlayAsks
<1>5. PatientWaits'
  <2> SUFFICES ASSUME NEW r \in Patient,
                      \A q \in Peers \ {r} : peer'[q] = "new"
               PROVE  /\ ~forgotten'
                      /\ playPc' = "forget" => ~Queued(r)'
    BY DEF PatientWaits
  <2>1. r = p /\ \A q \in Peers : peer[q] = "new"
    BY <1>2 DEF PlayTyped
  <2>2. ~forgotten
    BY <2>1 DEF PatientWaits
  <2>3. pid = "none"
    BY <2>1 DEF NewIsQuiet, PlayTyped
  <2>4. playPc # "forget"
    BY <2>3 DEF MainHasPeer
  <2> QED
    BY <1>2, <2>2, <2>4
<1> QED
  BY <1>4, <1>5

LEMMA PlayAnswer ==
  ASSUME PlayInv, NEW p \in Peers, PingPong!Answer(p)
  PROVE  PlayInv'
<1> USE DEF PlayInv
<1>1. /\ mail[p] # <<>> /\ mail' = [mail EXCEPT ![p] = Tail(mail[p])]
      /\ p \in Patient => playPc # "forget"
      /\ UNCHANGED <<playPc, pid, reply, stop, to_send, forgotten>>
  BY DEF PingPong!Answer
<1>2. /\ mail' \in [Peers -> Seq(Int)] /\ mail'[p] = Tail(mail[p])
      /\ Head(mail[p]) \in Int
      /\ \A r \in Peers \ {p} : mail'[r] = mail[r]
  <2>1. mail[p] \in Seq(Int) /\ mail \in [Peers -> Seq(Int)]
    BY DEF PlayTyped
  <2>2. Tail(mail[p]) \in Seq(Int) /\ Head(mail[p]) \in Int
    BY <1>1, <2>1, HeadTailProperties
  <2> QED
    BY <1>1, <2>1, <2>2
<1>3. ASSUME ~forgotten
      PROVE  OnePlace /\ mail'[p] = <<>> /\ ~Queued(p) /\ ~InHand(p)
  <2>1. OnePlace
    BY <1>3
  <2>2. Mailed(p)
    BY <2>1, <1>1 DEF OnePlace
  <2>3. mail'[p] = <<>>
    BY <1>2, <2>2 DEF Mailed
  <2> QED
    BY <2>1, <2>3, <1>1 DEF OnePlace, Queued
<1>n. peer[p] # "new"
  BY <1>1 DEF NewIsQuiet
<1>4. /\ PlayTyped' /\ NewIsQuiet' /\ MainHasPeer'
      /\ ~forgotten' => OnePlace'
  <2>1. CASE Head(mail[p]) = 0
    <3>1. /\ peer' = [peer EXCEPT ![p] = "done"]
          /\ UNCHANGED <<last_asked, queue>>
      BY <2>1 DEF PingPong!Answer
    <3>2. PlayTyped'
      BY <3>1, <1>1, <1>2 DEF PlayTyped, QueueTyped
    <3>3. MainHasPeer'
      BY <1>1 DEF MainHasPeer
    <3>4. NewIsQuiet'
      <4> SUFFICES ASSUME NEW r \in Peers, peer'[r] = "new"
                   PROVE  mail'[r] = <<>> /\ pid' # r /\ ~Queued(r)'
        BY DEF NewIsQuiet
      <4>1. r # p /\ peer[r] = "new"
        BY <3>1 DEF PlayTyped
      <4> QED
        BY <4>1, <3>1, <1>1, <1>2 DEF NewIsQuiet, Queued
    <3>5. ASSUME ~forgotten'
          PROVE  OnePlace'
      <4>1. OnePlace /\ mail'[p] = <<>> /\ ~Queued(p) /\ ~InHand(p)
        BY <3>5, <1>1, <1>3
      <4>2. \A k \in DOMAIN queue : queue[k].from \in Peers \ {p}
        BY <4>1, Senders DEF PlayTyped, QueueTyped, Queued
      <4> QED
        BY <4>1, <4>2, <3>1, <1>1, <1>2 DEF OnePlace, InHand, Mailed
    <3> QED
      BY <3>2, <3>3, <3>4, <3>5
  <2>2. CASE Head(mail[p]) # 0
    <3>1. /\ last_asked' = [last_asked EXCEPT ![p] = Head(mail[p]) - 1]
          /\ queue' = Append(queue, [from |-> p, n |-> Head(mail[p]) - 1])
          /\ UNCHANGED peer
      BY <2>2 DEF PingPong!Answer
    <3>2. /\ DOMAIN peer' = Peers /\ peer'[p] # "new"
          /\ Head(mail[p]) - 1 \in Int
          /\ \A r \in Peers \ {p} : mail'[r] = mail[r] /\ peer'[r] = peer[r]
      BY <1>n, <3>1, <1>2 DEF PlayTyped
    <3>3. ~forgotten => mail'[p] = <<>> /\ ~Queued(p) /\ ~InHand(p)
      BY <1>3
    <3> QED
      BY <3>1, <3>2, <3>3, <1>1, <1>2, PlayAsks
  <2> QED
    BY <2>1, <2>2
<1>5. PatientWaits'
  <2> SUFFICES ASSUME NEW r \in Patient,
                      \A q \in Peers \ {r} : peer'[q] = "new"
               PROVE  /\ ~forgotten'
                      /\ playPc' = "forget" => ~Queued(r)'
    BY DEF PatientWaits
  <2>1. peer'[p] # "new" /\ \A q \in Peers \ {p} : peer'[q] = peer[q]
    BY <1>n DEF PingPong!Answer, PlayTyped
  <2>2. r = p
    BY <2>1
  <2>3. \A q \in Peers \ {r} : peer[q] = "new"
    BY <2>1, <2>2
  <2>4. ~forgotten
    BY <2>3 DEF PatientWaits
  <2> QED
    BY <2>2, <2>4, <1>1
<1> QED
  BY <1>4, <1>5
(* main: it takes the number that the handler has left, and sends it.      *)
LEMMA PlayMain ==
  ASSUME PlayInv,
         \/ PingPong!TestEnd \/ PingPong!Wait \/ PingPong!Check
         \/ PingPong!LoadValue \/ PingPong!Forget
  PROVE  PlayInv'
<1> USE DEF PlayInv
<1>1. UNCHANGED <<reply, stop, queue, mail, peer, last_asked, forgotten>>
  BY DEF PingPong!TestEnd, PingPong!Wait, PingPong!Check,
         PingPong!LoadValue, PingPong!Forget, PingPong!peerVars
<1>2. \/ /\ pid' = pid /\ (InHand(pid)' => InHand(pid))
         /\ playPc' # "forget" /\ playPc # "forget"
      \/ pid' = "none" /\ playPc = "forget" /\ playPc' = "test"
  BY DEF PingPong!TestEnd, PingPong!Wait, PingPong!Check, InHand,
         PingPong!LoadValue, PingPong!Forget, PingPong!None
<1>3. to_send' \in {to_send, reply} /\ (playPc' = "send" => to_send' = reply)
  BY DEF PingPong!TestEnd, PingPong!Wait, PingPong!Check,
         PingPong!LoadValue, PingPong!Forget
<1>4. PlayTyped'
  BY <1>1, <1>2, <1>3 DEF PlayTyped, QueueTyped
<1>5. NewIsQuiet'
  BY <1>1, <1>2, PeersAssumption DEF NewIsQuiet, Queued
<1>6. MainHasPeer'
  BY DEF MainHasPeer, PingPong!TestEnd, PingPong!Wait, PingPong!Check,
         PingPong!LoadValue, PingPong!Forget, PingPong!None
<1>7. ASSUME ~forgotten' PROVE OnePlace'
  <2>1. OnePlace
    BY <1>1, <1>7
  <2>2. \A r \in Peers : InHand(r)' => InHand(r)
    BY <1>2, PeersAssumption DEF InHand
  <2>3. \A k \in DOMAIN queue : queue[k].from \in Peers
    BY Senders DEF PlayTyped, QueueTyped
  <2>4. ASSUME NEW k \in DOMAIN queue
        PROVE  ~(pid' = queue[k].from /\ playPc' # "forget")
    BY <2>1, <2>2, <2>3 DEF OnePlace, InHand
  <2>5. \A r \in Peers :
          InHand(r)' => mail'[r] = <<>> /\ reply' = last_asked'[r] - 1
    BY <1>1, <2>1, <2>2 DEF OnePlace
  <2> QED
    BY <1>1, <1>3, <2>1, <2>4, <2>5 DEF OnePlace, InHand, Mailed
<1>8. PatientWaits'
  BY <1>1, <1>2 DEF PatientWaits, Queued
<1> QED
  BY <1>4, <1>5, <1>6, <1>7, <1>8

LEMMA PlaySend == PlayInv /\ PingPong!sigqueue => PlayInv'
<1> SUFFICES ASSUME PlayInv, PingPong!sigqueue PROVE PlayInv'
  OBVIOUS
<1> USE DEF PlayInv
<1>1. /\ playPc = "send" /\ playPc' = "forget"
      /\ mail' = [mail EXCEPT ![pid] = Append(@, to_send)]
      /\ UNCHANGED <<pid, reply, stop, to_send, queue, peer, last_asked,
                     forgotten>>
  BY DEF PingPong!sigqueue
<1>2. pid \in Peers
  BY <1>1 DEF MainHasPeer, PlayTyped
<1>3. /\ mail' \in [Peers -> Seq(Int)]
      /\ mail'[pid] = Append(mail[pid], to_send)
      /\ \A r \in Peers \ {pid} : mail'[r] = mail[r]
  BY <1>1, <1>2 DEF PlayTyped
<1>4. PlayTyped'
  BY <1>1, <1>3 DEF PlayTyped, QueueTyped
<1>5. NewIsQuiet' /\ MainHasPeer'
  BY <1>1, <1>2, <1>3 DEF NewIsQuiet, MainHasPeer, Queued
<1>6. ASSUME ~forgotten'
      PROVE  OnePlace' /\ ~Queued(pid)
  <2>1. OnePlace /\ InHand(pid)
    BY <1>1, <1>6 DEF InHand
  <2>2. to_send = last_asked[pid] - 1 /\ mail[pid] = <<>>
    BY <2>1, <1>1, <1>2 DEF OnePlace
  <2>3. mail'[pid] = <<last_asked[pid] - 1>>
    BY <2>2, <1>3
  <2>4. ~Queued(pid)
    BY <2>1 DEF OnePlace, Queued
  <2>5. \A k \in DOMAIN queue : queue[k].from \in Peers \ {pid}
    BY <2>4, Senders DEF PlayTyped, QueueTyped, Queued
  <2>6. \A r \in Peers : mail'[r] = <<>> \/ Mailed(r)'
    BY <2>1, <2>3, <1>1, <1>3 DEF OnePlace, Mailed
  <2> QED
    BY <2>1, <2>4, <2>5, <2>6, <1>1, <1>3 DEF OnePlace, InHand
<1>7. PatientWaits'
  <2> SUFFICES ASSUME NEW p \in Patient,
                      \A q \in Peers \ {p} : peer[q] = "new"
               PROVE  ~forgotten /\ ~Queued(p)
    BY <1>1 DEF PatientWaits, Queued
  <2>1. ~forgotten
    BY DEF PatientWaits
  <2>2. pid = p
    BY <1>2 DEF NewIsQuiet
  <2> QED
    BY <2>1, <2>2, <1>1, <1>6
<1> QED
  BY <1>4, <1>5, <1>6, <1>7

LEMMA PlaySteps == PlayInv /\ [SignalsNext]_signalsVars => PlayInv'
<1> SUFFICES ASSUME PlayInv, [SignalsNext]_signalsVars PROVE PlayInv'
  OBVIOUS
<1>1. CASE UNCHANGED pingPongVars
  BY <1>1
  DEF pingPongVars, PlayInv, PlayTyped, QueueTyped, NewIsQuiet, MainHasPeer,
      OnePlace, PatientWaits, Mailed, InHand, Queued
<1>2. CASE PingPong!Next
  BY <1>2, PlayHandler, PlayBegin, PlayAnswer, PlayMain, PlaySend
  DEF PingPong!Next, PingPong!Step
<1> QED
  BY <1>1, <1>2
  DEF SignalsNext, HandlersNext, PingPongNext, FdNext, signalsVars

(* Until an answer of inf11-1 is forgotten each peer has at most one       *)
(* answer waiting, the number after the one that it sent last; and a       *)
(* patient peer that plays alone is never forgotten: for every set of      *)
(* peers, whatever they begin with.                                        *)
THEOREM TurnsStayKept == SignalsSpec => []TurnsAreKept
<1>1. PlayInv => TurnsAreKept
  BY DEF PlayInv, PatientWaits, OnePlace, Mailed, TurnsAreKept,
         PingPong!AnswersInTurn, PingPong!PatientPeerIsHeard
<1> QED
  BY <1>1, PlayStart, PlaySteps, PTL DEF SignalsSpec

-----------------------------------------------------------------------------
(* The counters of inf10                                                   *)

Frames ==
  [signal : {"inc", "neg", "term"},
   at : {"load", "store", "print", "output", "return"}, loaded : Int]

CountersTyped ==
  /\ exercise \in {"inf10-0", "inf10-1"} /\ frames \in Seq(Frames)
  /\ raised \subseteq {"inc", "neg", "term"} /\ value \in Int
  /\ signals_sent \in [{"inc", "neg", "term"} -> Nat] /\ accepted \in Nat

(* A handler blocks its own signal.                                        *)
OneFrameEach ==
  \A k, j \in DOMAIN frames : frames[k].signal = frames[j].signal => k = j

(* The handler of SIGINT runs, and has not yet stored its result.          *)
CountsIn(q) ==
  \E k \in DOMAIN q : q[k].signal = "inc" /\ q[k].at \in {"load", "store"}

Counting == CountsIn(frames)

One(b) == IF b THEN 1 ELSE 0

(* A SIGINT of inf10-0 waits, or its handler runs, or it is counted.       *)
CountedOnce ==
  /\ value >= 0
  /\ \A k \in DOMAIN frames :
       frames[k].signal = "inc" /\ frames[k].at = "store" =>
         frames[k].loaded = value
  /\ value + One(Counting) + One("inc" \in raised) <= signals_sent["inc"]
  /\ accepted <= value + One(Counting) + One("inc" \in raised)

(* inf10-0 has the handlers of SIGINT and SIGTERM.                         *)
NoNegation ==
  /\ mainPc # "scan" /\ "neg" \notin raised
  /\ \A k \in DOMAIN frames : frames[k].signal # "neg"

(* After SIGTERM has been handled, a SIGINT that counts and still waits is *)
(* blocked by its handler, and so delivered before main goes on.           *)
EndIsLate ==
  /\ end = 1 =>
       /\ signals_sent["term"] > 0
       /\ accepted <= value + One(Counting)
                      + One("inc" \in raised /\ frames # <<>>)
  /\ "term" \in raised => signals_sent["term"] > 0
  /\ \A k \in DOMAIN frames :
       frames[k].signal = "term" => signals_sent["term"] > 0

MainCounts ==
  /\ mainPc \notin {"loop", "done"} => accepted = 0
  /\ mainPc = "done" => frames = <<>> /\ end = 1 /\ shown = <<value>>

SigintInv ==
  exercise = "inf10-0" => NoNegation /\ CountedOnce /\ EndIsLate /\ MainCounts

(* In inf10-1, unless it is overtaken, a handler that prints has read the  *)
(* value, and a value that is not shown has a handler about to show it.    *)
ShownInv ==
  exercise = "inf10-1" /\ ~overtaken =>
    /\ \A k \in DOMAIN frames :
         frames[k].at = "output" => frames[k].loaded = value
    /\ \/ shown = <<>>
       \/ shown = <<value>>
       \/ \E k \in DOMAIN frames : frames[k].at \in {"print", "output"}

HandlersInv == CountersTyped /\ OneFrameEach /\ SigintInv /\ ShownInv

(* r is q with f for its last element.                                     *)
GoesOn(q, f, r) == r = Handlers!Front(q) \o <<f>>

(* What the stack of handlers becomes when the last one goes on, and when  *)
(* it returns.                                                             *)
LEMMA LastGoesOn ==
  ASSUME NEW S, NEW q \in Seq(S), q # <<>>, NEW f \in S,
         NEW r, GoesOn(q, f, r)
  PROVE  /\ r \in Seq(S) /\ Len(q) \in DOMAIN q /\ DOMAIN r = DOMAIN q
         /\ Handlers!Last(q) = q[Len(q)] /\ r[Len(q)] = f /\ r # <<>>
         /\ \A k \in DOMAIN q \ {Len(q)} : r[k] = q[k]
<1>a. PICK one : one = <<f>>
  OBVIOUS
<1>b. PICK g : g = SubSeq(q, 1, Len(q) - 1)
  OBVIOUS
<1>c. PICK p : p = g \o one
  OBVIOUS
<1>d. r = p
  BY <1>a, <1>b, <1>c, Zenon DEF GoesOn, Handlers!Front
<1>0. one \in Seq(S) /\ Len(one) = 1 /\ one[1] = f
  BY <1>a
<1>1. Len(q) \in Nat \ {0} /\ DOMAIN q = 1 .. Len(q)
  BY EmptySeq, LenProperties
<1>2. /\ g \in Seq(S) /\ Len(g) = Len(q) - 1
      /\ \A k \in 1 .. Len(q) - 1 : g[k] = q[k]
  BY <1>1, <1>b, SubSeqProperties
<1>4. /\ p \in Seq(S) /\ Len(p) = Len(g) + Len(one)
      /\ \A k \in 1 .. Len(g) + Len(one) :
           p[k] = IF k <= Len(g) THEN g[k] ELSE one[k - Len(g)]
  BY <1>0, <1>2, <1>c, ConcatProperties
<1>5. Len(p) = Len(q) /\ DOMAIN p = 1 .. Len(q)
  BY <1>0, <1>1, <1>2, <1>4, LenProperties
<1>6. \A k \in 1 .. Len(q) : p[k] = IF k < Len(q) THEN q[k] ELSE f
  BY <1>0, <1>1, <1>2, <1>4
<1>7. /\ Len(q) \in DOMAIN q /\ DOMAIN p = DOMAIN q
      /\ p[Len(q)] = f /\ p # <<>>
      /\ \A k \in DOMAIN q \ {Len(q)} : p[k] = q[k]
  BY <1>1, <1>4, <1>5, <1>6
<1> QED
  BY <1>d, <1>4, <1>7, Zenon DEF Handlers!Last

LEMMA LastLeaves ==
  ASSUME NEW S, NEW q \in Seq(S), q # <<>>
  PROVE  /\ Handlers!Front(q) \in Seq(S) /\ Len(q) \in DOMAIN q
         /\ Handlers!Last(q) = q[Len(q)]
         /\ DOMAIN Handlers!Front(q) = DOMAIN q \ {Len(q)}
         /\ \A k \in DOMAIN q \ {Len(q)} : Handlers!Front(q)[k] = q[k]
<1>1. Len(q) \in Nat \ {0} /\ DOMAIN q = 1 .. Len(q)
  BY EmptySeq, LenProperties
<1>2. /\ Handlers!Front(q) \in Seq(S) /\ Len(Handlers!Front(q)) = Len(q) - 1
      /\ \A k \in 1 .. Len(q) - 1 : Handlers!Front(q)[k] = q[k]
  BY <1>1, SubSeqProperties DEF Handlers!Front
<1> DEFINE g == Handlers!Front(q)
<1> HIDE DEF g
<1>3. g \in Seq(S) /\ DOMAIN g = 1 .. Len(q) - 1
  BY <1>2, LenProperties DEF g
<1>4. DOMAIN q \ {Len(q)} = 1 .. Len(q) - 1
  BY <1>1
<1> QED
  BY <1>1, <1>2, <1>3, <1>4 DEF Handlers!Last, g

(* `long' is `short' with a new frame for each signal of `new' on top.     *)
Extends(short, long, new) ==
  /\ long \in Seq(Frames) /\ DOMAIN short \subseteq DOMAIN long
  /\ \A k \in DOMAIN short : long[k] = short[k]
  /\ \A k \in DOMAIN long \ DOMAIN short :
       long[k].at = "load" /\ long[k].signal \in new
  /\ \A s \in new : \E k \in DOMAIN long \ DOMAIN short : long[k].signal = s
  /\ \A k, j \in DOMAIN long \ DOMAIN short :
       long[k].signal = long[j].signal => k = j

LEMMA ExtendsOne ==
  ASSUME NEW s \in {"inc", "neg", "term"}, NEW wanted, NEW short, NEW long,
         NEW new, Extends(short, long, new), s \notin new, NEW longer,
         longer = IF s \in wanted
                  THEN Append(long, [signal |-> s, at |-> "load", loaded |-> 0])
                  ELSE long
  PROVE  Extends(short, longer, new \cup ({s} \cap wanted))
<1>1. CASE s \notin wanted
  <2>1. longer = long /\ new \cup ({s} \cap wanted) = new
    BY <1>1
  <2> QED
    BY <2>1
<1>2. CASE s \in wanted
  <2> DEFINE f == [signal |-> s, at |-> "load", loaded |-> 0]
             n == Len(long) + 1
  <2>1. f \in Frames /\ f.at = "load" /\ f.signal = s
    BY DEF Frames
  <2>2. long \in Seq(Frames) /\ longer = Append(long, f)
    BY <1>2 DEF Extends
  <2> HIDE DEF f
  <2>3. /\ longer \in Seq(Frames) /\ DOMAIN longer = DOMAIN long \cup {n}
        /\ n \notin DOMAIN long /\ longer[n] = f
        /\ \A k \in DOMAIN long : longer[k] = long[k]
    BY <2>1, <2>2, AppendProperties, LenProperties
  <2> HIDE DEF n
  <2>4. DOMAIN longer \ DOMAIN short = (DOMAIN long \ DOMAIN short) \cup {n}
    BY <2>3 DEF Extends
  <2>5. new \cup ({s} \cap wanted) = new \cup {s}
    BY <1>2
  <2>6. /\ DOMAIN short \subseteq DOMAIN longer
        /\ \A k \in DOMAIN short : longer[k] = short[k]
    BY <2>3 DEF Extends
  <2>7. \A k \in DOMAIN longer \ DOMAIN short :
          longer[k].at = "load" /\ longer[k].signal \in new \cup {s}
    BY <2>1, <2>3, <2>4 DEF Extends
  <2>8. \A t \in new \cup {s} :
          \E k \in DOMAIN longer \ DOMAIN short : longer[k].signal = t
    BY <2>1, <2>3, <2>4 DEF Extends
  <2>9. \A k, j \in DOMAIN longer \ DOMAIN short :
          longer[k].signal = longer[j].signal => k = j
    BY <2>1, <2>3, <2>4 DEF Extends
  <2> QED
    BY <2>3, <2>5, <2>6, <2>7, <2>8, <2>9 DEF Extends
<1> QED
  BY <1>1, <1>2

LEMMA DeliveredExtends ==
  ASSUME NEW stack \in Seq(Frames), raised \subseteq {"inc", "neg", "term"}
  PROVE  Extends(stack, Handlers!Delivered(stack),
                 raised \ Handlers!Blocked(stack))
<1> DEFINE W == raised \ Handlers!Blocked(stack)
           F(s) == [signal |-> s, at |-> "load", loaded |-> 0]
           a == IF "inc" \in W THEN Append(stack, F("inc")) ELSE stack
           b == IF "neg" \in W THEN Append(a, F("neg")) ELSE a
           c == IF "term" \in W THEN Append(b, F("term")) ELSE b
<1>1. Handlers!Delivered(stack) = c
  BY DEF Handlers!Delivered
<1>2. Extends(stack, stack, {})
  BY DEF Extends
<1> DEFINE new1 == {} \cup ({"inc"} \cap W)
           new2 == new1 \cup ({"neg"} \cap W)
           new3 == new2 \cup ({"term"} \cap W)
<1>3. "inc" \notin {} /\ "neg" \notin new1 /\ "term" \notin new2
  OBVIOUS
<1>4. new3 = W
  OBVIOUS
<1> HIDE DEF W
<1>5. Extends(stack, a, new1)
  BY <1>2, <1>3, ExtendsOne
<1> HIDE DEF a, new1
<1>6. Extends(stack, b, new2)
  BY <1>5, <1>3, ExtendsOne
<1> HIDE DEF b, new2
<1>7. Extends(stack, c, new3)
  BY <1>6, <1>3, ExtendsOne
<1> QED
  BY <1>1, <1>4, <1>7 DEF W

LEMMA CountersStart == SignalsInit => HandlersInv
<1> SUFFICES ASSUME SignalsInit PROVE HandlersInv
  OBVIOUS
<1>1. /\ exercise \in {"inf10-0", "inf10-1"} /\ mainPc = "announce"
      /\ frames = <<>> /\ raised = {} /\ value = 0 /\ end = 0 /\ shown = <<>>
      /\ signals_sent = [s \in {"inc", "neg", "term"} |-> 0] /\ accepted = 0
  BY DEF SignalsInit, Handlers!Init, Handlers!Programs, Handlers!AllSignals
<1>2. frames \in Seq(Frames)
  BY <1>1
<1>3. ~Counting
  BY <1>1 DEF Counting, CountsIn
<1>4. value + One(Counting) + One("inc" \in raised) = 0
  BY <1>1, <1>3 DEF One
<1>5. CountersTyped /\ OneFrameEach /\ ShownInv
  BY <1>1, <1>2 DEF CountersTyped, OneFrameEach, ShownInv
<1>6. NoNegation /\ CountedOnce /\ EndIsLate /\ MainCounts
  BY <1>1, <1>4 DEF NoNegation, CountedOnce, EndIsLate, MainCounts
<1> QED
  BY <1>5, <1>6 DEF HandlersInv, SigintInv

LEMMA OneIsBit == \A b : One(b) \in {0, 1}
BY DEF One

(* The handler on top of the stack takes a step, and becomes f.            *)
LEMMA TopGoesOn ==
  ASSUME frames \in Seq(Frames), frames # <<>>, NEW f \in Frames,
         GoesOn(frames, f, frames')
  PROVE  /\ frames' \in Seq(Frames) /\ frames' # <<>>
         /\ Len(frames) \in DOMAIN frames
         /\ DOMAIN frames' = DOMAIN frames /\ frames'[Len(frames)] = f
         /\ \A k \in DOMAIN frames \ {Len(frames)} : frames'[k] = frames[k]
BY LastGoesOn

LEMMA Top ==
  ASSUME frames \in Seq(Frames), frames # <<>>
  PROVE  /\ Len(frames) \in DOMAIN frames
         /\ Handlers!Last(frames) = frames[Len(frames)]
         /\ frames[Len(frames)] \in Frames
BY LastLeaves, Elements

LEMMA CountersLoad == HandlersInv /\ Handlers!Load => HandlersInv'
<1> SUFFICES ASSUME HandlersInv, Handlers!Load PROVE HandlersInv'
  OBVIOUS
<1> USE DEF HandlersInv
<1> DEFINE n == Len(frames)
           f == [frames[n] EXCEPT !.at = "store", !.loaded = value]
<1>0. frames \in Seq(Frames) /\ frames # <<>> /\ value \in Int
  BY DEF CountersTyped, Handlers!Load, Handlers!Running
<1>1. /\ n \in DOMAIN frames /\ frames[n] \in Frames
      /\ frames[n].signal \in {"inc", "neg"} /\ frames[n].at = "load"
  BY <1>0, Top DEF Handlers!Load, Handlers!Running
<1>2. GoesOn(frames, f, frames')
  BY <1>0, Top, Zenon DEF Handlers!Load, GoesOn
<1>3. /\ f \in Frames /\ f.signal = frames[n].signal /\ f.at = "store"
      /\ f.loaded = value
  BY <1>0, <1>1 DEF Frames
<1> HIDE DEF f
<1>4. /\ frames' \in Seq(Frames) /\ frames' # <<>>
      /\ DOMAIN frames' = DOMAIN frames /\ frames'[n] = f
      /\ \A k \in DOMAIN frames \ {n} : frames'[k] = frames[k]
  BY <1>0, <1>2, <1>3, TopGoesOn, Zenon
<1> HIDE DEF n
<1>5. UNCHANGED <<exercise, mainPc, raised, value, end, shown, signals_sent,
                  accepted, overtaken>>
  BY DEF Handlers!Load, Handlers!history
<1>6. \A k \in DOMAIN frames :
        /\ frames'[k].signal = frames[k].signal
        /\ frames[k].at \in {"print", "output"} => frames'[k] = frames[k]
  BY <1>1, <1>3, <1>4
<1>7. One(Counting)' = One(Counting)
  BY <1>1, <1>3, <1>4 DEF Counting, CountsIn, One
<1>8. CountersTyped' /\ OneFrameEach' /\ ShownInv'
  <2>1. CountersTyped' /\ OneFrameEach'
    BY <1>4, <1>5, <1>6 DEF CountersTyped, OneFrameEach
  <2>2. ShownInv'
    BY <1>1, <1>3, <1>4, <1>5 DEF ShownInv
  <2> QED
    BY <2>1, <2>2
<1>9. ASSUME exercise = "inf10-0"
      PROVE  NoNegation' /\ CountedOnce' /\ EndIsLate' /\ MainCounts'
  <2>1. NoNegation /\ CountedOnce /\ EndIsLate /\ MainCounts
    BY <1>9 DEF SigintInv
  <2>2. NoNegation' /\ EndIsLate' /\ MainCounts'
    BY <2>1, <1>0, <1>4, <1>5, <1>6, <1>7 DEF NoNegation, EndIsLate, MainCounts
  <2>3. CountedOnce'
    BY <2>1, <1>3, <1>4, <1>5, <1>7 DEF CountedOnce
  <2> QED
    BY <2>2, <2>3
<1> QED
  BY <1>5, <1>8, <1>9 DEF SigintInv

(* What all steps of a handler before its return have in common.           *)
LEMMA TopMoves ==
  ASSUME CountersTyped, frames # <<>>,
         NEW at \in {"load", "store", "print", "output", "return"},
         NEW loaded \in Int,
         GoesOn(frames, [frames[Len(frames)] EXCEPT !.at = at,
                                                    !.loaded = loaded], frames')
  PROVE  LET n == Len(frames) IN
         /\ frames' \in Seq(Frames) /\ frames' # <<>> /\ n \in DOMAIN frames
         /\ DOMAIN frames' = DOMAIN frames
         /\ \A k \in DOMAIN frames : frames'[k].signal = frames[k].signal
         /\ frames'[n].at = at /\ frames'[n].loaded = loaded
         /\ \A k \in DOMAIN frames \ {n} : frames'[k] = frames[k]
<1> DEFINE n == Len(frames)
           f == [frames[n] EXCEPT !.at = at, !.loaded = loaded]
<1>0. frames \in Seq(Frames) /\ frames[n] \in Frames
  BY Top DEF CountersTyped
<1>1. /\ f \in Frames /\ f.signal = frames[n].signal /\ f.at = at
      /\ f.loaded = loaded
  BY <1>0 DEF Frames
<1> HIDE DEF f
<1>2. GoesOn(frames, f, frames')
  BY DEF f
<1>3. /\ frames' \in Seq(Frames) /\ frames' # <<>> /\ n \in DOMAIN frames
      /\ DOMAIN frames' = DOMAIN frames /\ frames'[n] = f
      /\ \A k \in DOMAIN frames \ {n} : frames'[k] = frames[k]
  BY <1>0, <1>1, <1>2, TopGoesOn
<1> QED
  BY <1>1, <1>3

LEMMA TopGoto ==
  ASSUME CountersTyped, frames # <<>>,
         NEW at \in {"load", "store", "print", "output", "return"},
         Handlers!Goto(at)
  PROVE  LET n == Len(frames) IN
         /\ frames' \in Seq(Frames) /\ frames' # <<>> /\ n \in DOMAIN frames
         /\ DOMAIN frames' = DOMAIN frames
         /\ \A k \in DOMAIN frames : frames'[k].signal = frames[k].signal
         /\ frames'[n].at = at
         /\ \A k \in DOMAIN frames \ {n} : frames'[k] = frames[k]
<1> DEFINE n == Len(frames)
           l == frames[n].loaded
<1>1. frames \in Seq(Frames) /\ frames[n] \in Frames /\ l \in Int
  BY Top DEF CountersTyped, Frames
<1>2. Handlers!Last(frames) = frames[n]
  BY <1>1, Top
<1>3. [frames[n] EXCEPT !.at = at] = [frames[n] EXCEPT !.at = at, !.loaded = l]
  BY <1>1 DEF Frames
<1>4. GoesOn(frames, [frames[n] EXCEPT !.at = at, !.loaded = l], frames')
  BY <1>2, <1>3, Zenon DEF Handlers!Goto, GoesOn
<1> HIDE DEF n, l
<1> QED
  BY <1>1, <1>4, TopMoves DEF n

LEMMA CountersStore == HandlersInv /\ Handlers!Store => HandlersInv'
<1> SUFFICES ASSUME HandlersInv, Handlers!Store PROVE HandlersInv'
  OBVIOUS
<1> USE DEF HandlersInv
<1> DEFINE n == Len(frames)
           at == IF exercise = "inf10-1" THEN "print" ELSE "return"
<1>0. frames \in Seq(Frames) /\ frames # <<>> /\ value \in Int
  BY DEF CountersTyped, Handlers!Store, Handlers!Running
<1>1. /\ n \in DOMAIN frames /\ frames[n] \in Frames
      /\ Handlers!Last(frames) = frames[n]
      /\ frames[n].signal \in {"inc", "neg"} /\ frames[n].at = "store"
  BY <1>0, Top DEF Handlers!Store, Handlers!Running
<1>2. at \in {"load", "store", "print", "output", "return"} /\ Handlers!Goto(at)
  BY DEF Handlers!Store
<1>3. /\ frames' \in Seq(Frames) /\ frames' # <<>>
      /\ DOMAIN frames' = DOMAIN frames /\ frames'[n].at = at
      /\ \A k \in DOMAIN frames : frames'[k].signal = frames[k].signal
      /\ \A k \in DOMAIN frames \ {n} : frames'[k] = frames[k]
  <2> HIDE DEF at
  <2> QED
    BY <1>0, <1>2, TopGoto
<1>4. /\ value' \in Int
      /\ frames[n].signal = "inc" => value' = frames[n].loaded + 1
  <2>1. frames[n].loaded \in Int
    BY <1>1 DEF Frames
  <2> QED
    BY <2>1, <1>1 DEF Handlers!Store, Handlers!Running
<1> HIDE DEF n
<1>5. /\ UNCHANGED <<exercise, mainPc, raised, end, shown, signals_sent, accepted>>
      /\ ~overtaken' => \A k \in DOMAIN frames : frames[k].at # "output"
  BY DEF Handlers!Store
<1>6. CountersTyped' /\ OneFrameEach'
  BY <1>3, <1>4, <1>5 DEF CountersTyped, OneFrameEach
<1>7. ShownInv'
  BY <1>1, <1>3, <1>5 DEF ShownInv
<1>8. ASSUME exercise = "inf10-0"
      PROVE  NoNegation' /\ CountedOnce' /\ EndIsLate' /\ MainCounts'
  <2>1. NoNegation /\ CountedOnce /\ EndIsLate /\ MainCounts
    BY <1>8 DEF SigintInv
  <2>2. frames[n].signal = "inc" /\ value' = value + 1 /\ at = "return"
    BY <2>1, <1>1, <1>4, <1>8 DEF NoNegation, CountedOnce
  <2>3. \A k \in DOMAIN frames' : frames'[k].signal = "inc" => k = n
    BY <2>2, <1>1, <1>3 DEF OneFrameEach
  <2>4. Counting /\ ~Counting'
    BY <2>2, <2>3, <1>1, <1>3 DEF Counting, CountsIn
  <2>5. One(Counting) = 1 /\ One(Counting)' = 0
    BY <2>4 DEF One
  <2>6. NoNegation' /\ MainCounts'
    BY <2>1, <1>0, <1>3, <1>5 DEF NoNegation, MainCounts
  <2>7. EndIsLate'
    BY <2>1, <2>2, <2>5, <1>0, <1>3, <1>5 DEF EndIsLate
  <2>8. CountedOnce'
    BY <2>1, <2>2, <2>3, <2>5, <1>0, <1>3, <1>5 DEF CountedOnce
  <2> QED
    BY <2>6, <2>7, <2>8
<1> QED
  BY <1>5, <1>6, <1>7, <1>8 DEF SigintInv

(* A step of a handler after its store, up to its return: only the line    *)
(* that is shown changes, and the end.                                     *)
LEMMA CountersFinish ==
  ASSUME HandlersInv, Handlers!SetEnd \/ Handlers!PrintLine
  PROVE  HandlersInv'
<1> USE DEF HandlersInv
<1> DEFINE n == Len(frames)
<1>0. frames \in Seq(Frames) /\ frames # <<>>
  BY DEF CountersTyped, Handlers!SetEnd, Handlers!PrintLine, Handlers!Running
<1>1. /\ n \in DOMAIN frames /\ Handlers!Goto("return")
      /\ Handlers!Last(frames) = frames[n]
      /\ \/ /\ frames[n].signal = "term" /\ frames[n].at = "load" /\ end' = 1
            /\ UNCHANGED shown
         \/ /\ frames[n].signal \in {"inc", "neg"} /\ frames[n].at = "output"
            /\ shown' = <<frames[n].loaded>> /\ UNCHANGED end
  BY <1>0, Top DEF Handlers!SetEnd, Handlers!PrintLine, Handlers!Running
<1>2. /\ frames' \in Seq(Frames) /\ frames' # <<>>
      /\ DOMAIN frames' = DOMAIN frames /\ frames'[n].at = "return"
      /\ \A k \in DOMAIN frames : frames'[k].signal = frames[k].signal
      /\ \A k \in DOMAIN frames \ {n} : frames'[k] = frames[k]
  BY <1>0, <1>1, TopGoto
<1> HIDE DEF n
<1>3. UNCHANGED <<exercise, mainPc, raised, value, signals_sent, accepted,
                  overtaken>>
  BY DEF Handlers!SetEnd, Handlers!PrintLine, Handlers!history
<1>4. CountersTyped' /\ OneFrameEach'
  BY <1>2, <1>3 DEF CountersTyped, OneFrameEach
<1>5. ShownInv'
  BY <1>1, <1>2, <1>3 DEF ShownInv
<1>6. One(Counting)' = One(Counting)
  BY <1>1, <1>2 DEF Counting, CountsIn, One
<1>7. ASSUME exercise = "inf10-0"
      PROVE  NoNegation' /\ CountedOnce' /\ EndIsLate' /\ MainCounts'
  <2>1. NoNegation /\ CountedOnce /\ EndIsLate /\ MainCounts
    BY <1>7 DEF SigintInv
  <2>2. NoNegation' /\ MainCounts'
    BY <2>1, <1>0, <1>2, <1>3 DEF NoNegation, MainCounts
  <2>3. CountedOnce'
    BY <2>1, <1>2, <1>3, <1>6 DEF CountedOnce
  <2>4. EndIsLate'
    <3>1. One("inc" \in raised /\ frames' # <<>>) = One("inc" \in raised)
      BY <1>2 DEF One
    <3> QED
      BY <2>1, <1>0, <1>1, <1>2, <1>3, <1>6, <3>1 DEF EndIsLate, CountedOnce
  <2> QED
    BY <2>2, <2>3, <2>4
<1> QED
  BY <1>3, <1>4, <1>5, <1>7 DEF SigintInv

(* A handler reads the value for its line: every handler that prints has   *)
(* read this one then, unless one of them has been overtaken.              *)
LEMMA CountersRead == HandlersInv /\ Handlers!ReadValue => HandlersInv'
<1> SUFFICES ASSUME HandlersInv, Handlers!ReadValue PROVE HandlersInv'
  OBVIOUS
<1> USE DEF HandlersInv
<1> DEFINE n == Len(frames)
           f == [frames[n] EXCEPT !.at = "output", !.loaded = value]
<1>0. frames \in Seq(Frames) /\ frames # <<>> /\ value \in Int
  BY DEF CountersTyped, Handlers!ReadValue, Handlers!Running
<1>1. n \in DOMAIN frames /\ frames[n] \in Frames /\ frames[n].at = "print"
  BY <1>0, Top DEF Handlers!ReadValue, Handlers!Running
<1>2. GoesOn(frames, f, frames')
  BY <1>0, Top, Zenon DEF Handlers!ReadValue, GoesOn
<1>3. /\ f \in Frames /\ f.signal = frames[n].signal /\ f.at = "output"
      /\ f.loaded = value
  BY <1>0, <1>1 DEF Frames
<1> HIDE DEF f
<1>4. /\ frames' \in Seq(Frames) /\ frames' # <<>>
      /\ DOMAIN frames' = DOMAIN frames /\ frames'[n] = f
      /\ \A k \in DOMAIN frames \ {n} : frames'[k] = frames[k]
  BY <1>0, <1>2, <1>3, TopGoesOn, Zenon
<1> HIDE DEF n
<1>5. /\ UNCHANGED <<exercise, mainPc, raised, value, end, shown, signals_sent,
                     accepted>>
      /\ ~overtaken' =>
           ~overtaken \/ \A k \in DOMAIN frames : frames[k].at # "output"
  BY DEF Handlers!ReadValue
<1>6. \A k \in DOMAIN frames : frames'[k].signal = frames[k].signal
  BY <1>1, <1>3, <1>4
<1>7. One(Counting)' = One(Counting)
  BY <1>1, <1>3, <1>4 DEF Counting, CountsIn, One
<1>8. CountersTyped' /\ OneFrameEach' /\ ShownInv'
  BY <1>1, <1>3, <1>4, <1>5, <1>6 DEF CountersTyped, OneFrameEach, ShownInv
<1>9. ASSUME exercise = "inf10-0"
      PROVE  NoNegation' /\ CountedOnce' /\ EndIsLate' /\ MainCounts'
  <2>1. NoNegation /\ CountedOnce /\ EndIsLate /\ MainCounts
    BY <1>9 DEF SigintInv
  <2>2. NoNegation' /\ EndIsLate' /\ MainCounts'
    BY <2>1, <1>0, <1>4, <1>5, <1>6, <1>7 DEF NoNegation, EndIsLate, MainCounts
  <2>3. CountedOnce'
    BY <2>1, <1>3, <1>4, <1>5, <1>7 DEF CountedOnce
  <2> QED
    BY <2>2, <2>3
<1> QED
  BY <1>5, <1>8, <1>9 DEF SigintInv

(* Signals are delivered on top of a stack of handlers: then the signal of *)
(* each handler differs still, and a SIGINT that waited runs or waits.     *)
LEMMA Deliver ==
  ASSUME NEW stack \in Seq(Frames), raised \subseteq {"inc", "neg", "term"},
         \A k, j \in DOMAIN stack : stack[k].signal = stack[j].signal => k = j,
         frames' = Handlers!Delivered(stack),
         raised' = raised \cap Handlers!Blocked(stack)
  PROVE  /\ frames' \in Seq(Frames) /\ raised' \subseteq raised
         /\ OneFrameEach'
         /\ \A k \in DOMAIN stack :
              k \in DOMAIN frames' /\ frames'[k] = stack[k]
         /\ \A k \in DOMAIN frames' \ DOMAIN stack :
              frames'[k].at = "load" /\ frames'[k].signal \in raised
         /\ One(Counting)' + One("inc" \in raised)'
              = One(CountsIn(stack)) + One("inc" \in raised)
         /\ One(Counting)' >= One(CountsIn(stack))
         /\ frames' = <<>> => stack = <<>> /\ raised = {}
<1> DEFINE new == raised \ Handlers!Blocked(stack)
<1>1. /\ frames' \in Seq(Frames)
      /\ \A k \in DOMAIN stack : k \in DOMAIN frames' /\ frames'[k] = stack[k]
      /\ \A k \in DOMAIN frames' \ DOMAIN stack :
           frames'[k].at = "load" /\ frames'[k].signal \in new
      /\ \A s \in new :
           \E k \in DOMAIN frames' \ DOMAIN stack : frames'[k].signal = s
      /\ \A k, j \in DOMAIN frames' \ DOMAIN stack :
           frames'[k].signal = frames'[j].signal => k = j
  <2>1. Extends(stack, frames', new)
    BY DeliveredExtends
  <2> HIDE DEF new
  <2> QED
    BY <2>1 DEF Extends
<1>2. \A k \in DOMAIN stack : stack[k].signal \notin new
  BY DEF Handlers!Blocked
<1>3. new \subseteq raised /\ raised' = raised \ new
  BY DEF Handlers!Blocked
<1>4. stack = <<>> => new = raised
  BY DEF Handlers!Blocked
<1> HIDE DEF new
<1>5. OneFrameEach'
  BY <1>1, <1>2 DEF OneFrameEach
<1>6. /\ One(Counting)' + One("inc" \in raised)'
           = One(CountsIn(stack)) + One("inc" \in raised)
      /\ One(Counting)' >= One(CountsIn(stack))
  <2>1. CASE "inc" \in new
    <3>1. ~CountsIn(stack)
      BY <1>2, <2>1 DEF CountsIn
    <3>2. Counting'
      BY <1>1, <2>1 DEF Counting, CountsIn
    <3>3. "inc" \in raised /\ "inc" \notin raised'
      BY <1>3, <2>1
    <3> QED
      BY <3>1, <3>2, <3>3 DEF One
  <2>2. CASE "inc" \notin new
    <3>1. Counting' <=> CountsIn(stack)
      BY <1>1, <2>2 DEF Counting, CountsIn
    <3>2. "inc" \in raised' <=> "inc" \in raised
      BY <1>3, <2>2
    <3> QED
      BY <3>1, <3>2 DEF One
  <2> QED
    BY <2>1, <2>2
<1>7. ASSUME frames' = <<>> PROVE stack = <<>> /\ raised = {}
  <2>1. DOMAIN frames' = {}
    BY <1>7
  <2>2. DOMAIN stack = {} /\ new = {}
    BY <1>1, <2>1
  <2>3. stack = <<>>
    BY <2>2, EmptySeq, LenProperties
  <2> QED
    BY <1>4, <2>2, <2>3
<1>8. \A k \in DOMAIN frames' \ DOMAIN stack :
        frames'[k].at = "load" /\ frames'[k].signal \in raised
  BY <1>1, <1>3
<1>9. raised' \subseteq raised
  BY <1>3
<1> QED
  BY <1>1, <1>5, <1>6, <1>7, <1>8, <1>9, Zenon

LEMMA CountersInterrupt == HandlersInv /\ Handlers!Interrupt => HandlersInv'
<1> SUFFICES ASSUME HandlersInv, Handlers!Interrupt PROVE HandlersInv'
  OBVIOUS
<1> USE DEF HandlersInv
<1>1. /\ mainPc # "done" /\ mainPc' \in {mainPc, "clear"}
      /\ mainPc' # mainPc => mainPc = "scan"
      /\ UNCHANGED <<exercise, value, end, shown, signals_sent, accepted,
                  overtaken>>
  BY DEF Handlers!Interrupt, Handlers!history
<1>2. /\ frames \in Seq(Frames) /\ raised' \subseteq raised
      /\ frames' \in Seq(Frames) /\ OneFrameEach'
      /\ \A k \in DOMAIN frames : k \in DOMAIN frames' /\ frames'[k] = frames[k]
      /\ \A k \in DOMAIN frames' \ DOMAIN frames :
           frames'[k].at = "load" /\ frames'[k].signal \in raised
      /\ One(Counting)' + One("inc" \in raised)'
           = One(Counting) + One("inc" \in raised)
      /\ One(Counting)' >= One(Counting)
      /\ frames' = <<>> => frames = <<>> /\ raised = {}
  BY Deliver DEF Handlers!Interrupt, CountersTyped, OneFrameEach, Counting
<1>3. frames' # <<>>
  BY <1>2 DEF Handlers!Interrupt
<1>4. CountersTyped' /\ ShownInv'
  BY <1>1, <1>2 DEF CountersTyped, ShownInv
<1>5. ASSUME exercise = "inf10-0"
      PROVE  NoNegation' /\ CountedOnce' /\ EndIsLate' /\ MainCounts'
  <2>1. NoNegation /\ CountedOnce /\ EndIsLate /\ MainCounts
    BY <1>5 DEF SigintInv
  <2>2. NoNegation' /\ MainCounts'
    BY <2>1, <1>1, <1>2 DEF NoNegation, MainCounts
  <2>b. /\ One(Counting) \in Int /\ One("inc" \in raised) \in Int
        /\ One(Counting)' \in Int /\ One("inc" \in raised)' \in Int
        /\ value \in Int /\ accepted \in Int /\ signals_sent["inc"] \in Int
    BY OneIsBit DEF One, CountersTyped
  <2>3. CountedOnce'
    <3>1. /\ value + One(Counting)' + One("inc" \in raised)'
               <= signals_sent["inc"]
          /\ accepted <= value + One(Counting)' + One("inc" \in raised)'
      BY SMTT(60), <2>1, <2>b, <1>2 DEF CountedOnce
    <3>2. \A k \in DOMAIN frames' :
            frames'[k].signal = "inc" /\ frames'[k].at = "store" =>
              frames'[k].loaded = value
      BY <2>1, <1>2 DEF CountedOnce
    <3> QED
      BY <2>1, <1>1, <3>1, <3>2 DEF CountedOnce
  <2>4. EndIsLate'
    <3>1. /\ One("inc" \in raised /\ frames # <<>>) <= One("inc" \in raised)
          /\ One("inc" \in raised /\ frames # <<>>) \in Int
          /\ One("inc" \in raised /\ frames # <<>>)' = One("inc" \in raised)'
      BY <1>3 DEF One
    <3>2. /\ "term" \in raised' => signals_sent'["term"] > 0
          /\ \A k \in DOMAIN frames' :
               frames'[k].signal = "term" => signals_sent'["term"] > 0
      BY <2>1, <1>1, <1>2 DEF EndIsLate
    <3>3. end' = 1 =>
            /\ signals_sent'["term"] > 0
            /\ accepted' <= value' + One(Counting)'
                            + One("inc" \in raised /\ frames # <<>>)'
      BY <2>1, <2>b, <1>1, <1>2, <3>1 DEF EndIsLate
    <3> QED
      BY <3>2, <3>3 DEF EndIsLate
  <2> QED
    BY <2>2, <2>3, <2>4
<1> QED
  BY <1>1, <1>2, <1>4, <1>5 DEF SigintInv

LEMMA CountersReturn == HandlersInv /\ Handlers!Return => HandlersInv'
<1> SUFFICES ASSUME HandlersInv, Handlers!Return PROVE HandlersInv'
  OBVIOUS
<1> USE DEF HandlersInv
<1> DEFINE n == Len(frames)
           stack == Handlers!Front(frames)
<1>1. UNCHANGED <<exercise, mainPc, value, end, shown, signals_sent, accepted,
                  overtaken>>
  BY DEF Handlers!Return, Handlers!history
<1>0. frames \in Seq(Frames) /\ frames # <<>>
  BY DEF CountersTyped, Handlers!Return, Handlers!Running
<1>a. /\ n \in DOMAIN frames /\ frames[n].at = "return"
      /\ stack \in Seq(Frames) /\ DOMAIN stack = DOMAIN frames \ {n}
      /\ \A k \in DOMAIN frames \ {n} : stack[k] = frames[k]
  BY <1>0, LastLeaves DEF Handlers!Return, Handlers!Running
<1>b. /\ frames' = Handlers!Delivered(stack)
      /\ raised' = raised \cap Handlers!Blocked(stack)
  BY DEF Handlers!Return
<1> HIDE DEF n, stack
<1>c. \A k, j \in DOMAIN stack : stack[k].signal = stack[j].signal => k = j
  BY <1>a DEF OneFrameEach
<1>d. One(CountsIn(stack)) = One(Counting)
  BY <1>a DEF Counting, CountsIn, One
<1>2. /\ raised' \subseteq raised
      /\ frames' \in Seq(Frames) /\ OneFrameEach'
      /\ \A k \in DOMAIN stack : k \in DOMAIN frames' /\ frames'[k] = frames[k]
      /\ \A k \in DOMAIN frames' \ DOMAIN stack :
           frames'[k].at = "load" /\ frames'[k].signal \in raised
      /\ One(Counting)' + One("inc" \in raised)'
           = One(Counting) + One("inc" \in raised)
      /\ One(Counting)' >= One(Counting)
      /\ frames' = <<>> => raised = {}
  BY <1>a, <1>b, <1>c, <1>d, Deliver DEF CountersTyped
<1>3. CountersTyped' /\ ShownInv'
  <2>1. CountersTyped'
    BY <1>1, <1>2 DEF CountersTyped
  <2>2. \A k \in DOMAIN frames' :
          frames'[k].at # "load" => k \in DOMAIN frames /\ frames'[k] = frames[k]
    BY <1>2, <1>a
  <2>3. \A k \in DOMAIN frames :
          frames[k].at # "return" => k \in DOMAIN frames' /\ frames'[k] = frames[k]
    BY <1>2, <1>a
  <2>4. ShownInv'
    BY <1>1, <2>2, <2>3 DEF ShownInv
  <2> QED
    BY <2>1, <2>4
<1>5. ASSUME exercise = "inf10-0"
      PROVE  NoNegation' /\ CountedOnce' /\ EndIsLate' /\ MainCounts'
  <2>1. NoNegation /\ CountedOnce /\ EndIsLate /\ MainCounts
    BY <1>5 DEF SigintInv
  <2>2. NoNegation' /\ MainCounts'
    BY <2>1, <1>0, <1>1, <1>2, <1>a DEF NoNegation, MainCounts
  <2>b. /\ One(Counting) \in Int /\ One("inc" \in raised) \in Int
        /\ One(Counting)' \in Int /\ One("inc" \in raised)' \in Int
        /\ value \in Int /\ accepted \in Int /\ signals_sent["inc"] \in Int
    BY OneIsBit DEF One, CountersTyped
  <2>3. CountedOnce'
    <3>1. /\ value + One(Counting)' + One("inc" \in raised)'
               <= signals_sent["inc"]
          /\ accepted <= value + One(Counting)' + One("inc" \in raised)'
      BY <2>1, <2>b, <1>2 DEF CountedOnce
    <3>2. \A k \in DOMAIN frames' :
            frames'[k].signal = "inc" /\ frames'[k].at = "store" =>
              frames'[k].loaded = value
      BY <2>1, <1>2, <1>a DEF CountedOnce
    <3> QED
      BY <2>1, <1>1, <3>1, <3>2 DEF CountedOnce
  <2>4. EndIsLate'
    <3>1. One("inc" \in raised /\ frames # <<>>) = One("inc" \in raised)
      BY <1>0 DEF One
    <3>2. One("inc" \in raised /\ frames # <<>>)' = One("inc" \in raised)'
      <4>1. CASE frames' # <<>>
        BY <4>1 DEF One
      <4>2. CASE frames' = <<>>
        <5>1. "inc" \notin raised'
          BY <4>2, <1>2
        <5> QED
          BY <5>1, <4>2 DEF One
      <4> QED
        BY <4>1, <4>2
    <3>3. /\ "term" \in raised' => signals_sent'["term"] > 0
          /\ \A k \in DOMAIN frames' :
               frames'[k].signal = "term" => signals_sent'["term"] > 0
      BY <2>1, <1>1, <1>2, <1>a DEF EndIsLate
    <3>4. end' = 1 =>
            /\ signals_sent'["term"] > 0
            /\ accepted' <= value' + One(Counting)'
                            + One("inc" \in raised /\ frames # <<>>)'
      BY <2>1, <2>b, <1>1, <1>2, <3>1, <3>2 DEF EndIsLate
    <3> QED
      BY <3>3, <3>4 DEF EndIsLate
  <2> QED
    BY <2>2, <2>3, <2>4
<1> QED
  BY <1>1, <1>2, <1>3, <1>5 DEF SigintInv

LEMMA CountersSend ==
  ASSUME HandlersInv, NEW s \in {"inc", "neg", "term"}, Handlers!Send(s)
  PROVE  HandlersInv'
<1> USE DEF HandlersInv
<1>1. /\ mainPc # "done" /\ s \in Handlers!Handled(exercise)
      /\ raised' = raised \cup {s}
      /\ signals_sent' = [signals_sent EXCEPT ![s] = @ + 1]
      /\ accepted' = IF /\ s = "inc" /\ s \notin raised
                        /\ mainPc = "loop" /\ signals_sent["term"] = 0
                     THEN accepted + 1 ELSE accepted
      /\ UNCHANGED <<exercise, mainPc, frames, value, end, shown, overtaken>>
  BY DEF Handlers!Send
<1>2. /\ signals_sent' \in [{"inc", "neg", "term"} -> Nat]
      /\ signals_sent'[s] = signals_sent[s] + 1
      /\ \A t \in {"inc", "neg", "term"} : signals_sent'[t] >= signals_sent[t]
  BY <1>1 DEF CountersTyped
<1>3. accepted' \in Nat
  BY <1>1 DEF CountersTyped
<1>4. CountersTyped' /\ OneFrameEach' /\ ShownInv'
  BY <1>1, <1>2, <1>3 DEF CountersTyped, OneFrameEach, ShownInv
<1>5. One(Counting)' = One(Counting)
  BY <1>1 DEF Counting, CountsIn, One
<1>6. ASSUME exercise = "inf10-0"
      PROVE  NoNegation' /\ CountedOnce' /\ EndIsLate' /\ MainCounts'
  <2>1. NoNegation /\ CountedOnce /\ EndIsLate /\ MainCounts
    BY <1>6 DEF SigintInv
  <2>2. s # "neg"
    BY <1>1, <1>6 DEF Handlers!Handled
  <2>3. NoNegation' /\ MainCounts'
    BY <2>1, <2>2, <1>1 DEF NoNegation, MainCounts
  <2>b. /\ One(Counting) \in {0, 1}
        /\ value \in Int /\ accepted \in Nat /\ signals_sent["inc"] \in Nat
        /\ signals_sent'["inc"] \in Nat /\ signals_sent["term"] \in Nat
    BY <1>2, OneIsBit DEF CountersTyped
  <2>4. CountedOnce'
    <3>1. CASE s = "inc"
      <4>1. "inc" \in raised' /\ signals_sent'["inc"] = signals_sent["inc"] + 1
        BY <1>1, <1>2, <3>1
      <4>2. CASE "inc" \in raised
        <5>1. accepted' = accepted
          BY <1>1, <3>1, <4>2
        <5> QED
          BY <2>1, <2>b, <1>1, <1>5, <4>1, <4>2, <5>1 DEF CountedOnce, One
      <4>3. CASE "inc" \notin raised
        <5>1. accepted' <= accepted + 1
          BY <1>1, <2>b
        <5> QED
          BY <2>1, <2>b, <1>1, <1>3, <1>5, <4>1, <4>3, <5>1
          DEF CountedOnce, One
      <4> QED
        BY <4>2, <4>3
    <3>2. CASE s # "inc"
      <4>1. /\ signals_sent'["inc"] >= signals_sent["inc"]
            /\ accepted' = accepted /\ ("inc" \in raised' <=> "inc" \in raised)
        BY <1>1, <1>2, <3>2
      <4> QED
        BY <2>1, <2>b, <1>1, <1>5, <4>1 DEF CountedOnce, One
    <3> QED
      BY <3>1, <3>2
  <2>5. EndIsLate'
    <3>1. signals_sent["term"] > 0 \/ s = "term" => signals_sent'["term"] > 0
      BY <1>2, <2>b
    <3>2. "term" \in raised' => signals_sent'["term"] > 0
      BY <2>1, <1>1, <3>1 DEF EndIsLate
    <3>3. \A k \in DOMAIN frames' :
            frames'[k].signal = "term" => signals_sent'["term"] > 0
      BY <2>1, <1>1, <3>1 DEF EndIsLate
    <3>4. ASSUME end' = 1
          PROVE  /\ signals_sent'["term"] > 0
                 /\ accepted' <= value' + One(Counting)'
                                 + One("inc" \in raised /\ frames # <<>>)'
      <4>1. /\ signals_sent["term"] > 0
            /\ accepted <= value + One(Counting)
                           + One("inc" \in raised /\ frames # <<>>)
        BY <2>1, <3>4, <1>1 DEF EndIsLate
      <4>2. accepted' = accepted
        BY <4>1, <1>1, <2>b
      <4>3. /\ One("inc" \in raised /\ frames # <<>>)
                 <= One("inc" \in raised /\ frames # <<>>)'
            /\ One("inc" \in raised /\ frames # <<>>) \in Int
            /\ One("inc" \in raised /\ frames # <<>>)' \in Int
        BY <1>1 DEF One
      <4> QED
        BY <4>1, <4>2, <4>3, <3>1, <2>b, <1>1, <1>5
    <3> QED
      BY <3>2, <3>3, <3>4 DEF EndIsLate
  <2> QED
    BY <2>3, <2>4, <2>5
<1> QED
  BY <1>1, <1>4, <1>6 DEF SigintInv

LEMMA CountersMain ==
  ASSUME HandlersInv,
         \/ Handlers!Announce \/ Handlers!Scan \/ Handlers!Clear
         \/ Handlers!Leave
  PROVE  HandlersInv'
<1> USE DEF HandlersInv
<1>1. /\ frames = <<>> /\ mainPc # "done"
      /\ UNCHANGED <<exercise, frames, raised, signals_sent, accepted,
                  overtaken>>
  BY DEF Handlers!Announce, Handlers!Scan, Handlers!Clear, Handlers!Leave,
         Handlers!MainAt, Handlers!history
<1>2. \/ Handlers!Announce /\ UNCHANGED <<value, end, shown>>
      \/ Handlers!Scan /\ value' \in Int /\ shown' = <<>>
      \/ Handlers!Clear /\ exercise = "inf10-0" /\ value' = 0
         /\ UNCHANGED <<end, shown>>
      \/ Handlers!Clear /\ exercise = "inf10-1" /\ UNCHANGED <<value, shown>>
      \/ Handlers!Leave /\ UNCHANGED <<value, end>>
  BY NumbersAssumption
  DEF Handlers!Announce, Handlers!Scan, Handlers!Clear, Handlers!Leave
<1>3. CountersTyped'
  BY <1>1, <1>2 DEF CountersTyped
<1>4. OneFrameEach'
  BY <1>1 DEF OneFrameEach
<1>5. ShownInv'
  <2>1. exercise = "inf10-1" => shown' = <<>> \/ UNCHANGED <<value, shown>>
    BY <1>2 DEF Handlers!Leave
  <2> QED
    BY <2>1, <1>1 DEF ShownInv
<1>6. ~Counting /\ ~Counting'
  BY <1>1 DEF Counting, CountsIn
<1>7. ASSUME exercise = "inf10-0"
      PROVE  NoNegation' /\ CountedOnce' /\ EndIsLate' /\ MainCounts'
  <2>1. NoNegation /\ CountedOnce /\ EndIsLate /\ MainCounts
    BY <1>7 DEF SigintInv
  <2>b. /\ One("inc" \in raised) \in {0, 1}
        /\ value \in Int /\ accepted \in Nat /\ signals_sent["inc"] \in Nat
    BY OneIsBit DEF CountersTyped
  <2>2. CASE Handlers!Announce
    <3>1. mainPc = "announce" /\ mainPc' = "clear"
          /\ UNCHANGED <<value, end, shown>>
      BY <2>2, <1>7 DEF Handlers!Announce, Handlers!MainAt
    <3> QED
      BY <2>1, <3>1, <1>1, <1>6
      DEF NoNegation, CountedOnce, EndIsLate, MainCounts, One
  <2>3. CASE Handlers!Scan
    BY <2>1, <2>3 DEF NoNegation, Handlers!Scan, Handlers!MainAt
  <2>4. CASE Handlers!Clear
    <3>1. /\ mainPc = "clear" /\ mainPc' = "loop" /\ value' = 0
          /\ UNCHANGED <<end, shown>>
      BY <2>4, <1>7 DEF Handlers!Clear, Handlers!MainAt
    <3>2. accepted = 0
      BY <2>1, <3>1 DEF MainCounts
    <3>3. NoNegation' /\ MainCounts'
      BY <2>1, <3>1, <1>1 DEF NoNegation, MainCounts
    <3>4. CountedOnce'
      BY <2>1, <2>b, <3>1, <3>2, <1>1, <1>6 DEF CountedOnce, One
    <3>5. EndIsLate'
      BY <2>1, <2>b, <3>1, <3>2, <1>1, <1>6 DEF EndIsLate, One
    <3> QED
      BY <3>3, <3>4, <3>5
  <2>5. CASE Handlers!Leave
    <3>1. /\ mainPc = "loop" /\ mainPc' = "done" /\ shown' = <<value>>
          /\ end = 1 /\ UNCHANGED <<value, end>>
      BY <2>5, <1>7 DEF Handlers!Leave, Handlers!MainAt
    <3> QED
      BY <2>1, <3>1, <1>1, <1>6
      DEF NoNegation, CountedOnce, EndIsLate, MainCounts, One
  <2> QED
    BY <2>2, <2>3, <2>4, <2>5, <1>2
<1> QED
  BY <1>1, <1>3, <1>4, <1>5, <1>7 DEF SigintInv

LEMMA CountersSteps ==
  HandlersInv /\ [SignalsNext]_signalsVars => HandlersInv'
<1> SUFFICES ASSUME HandlersInv, [SignalsNext]_signalsVars PROVE HandlersInv'
  OBVIOUS
<1>1. CASE UNCHANGED handlerVars
  BY <1>1
  DEF handlerVars, HandlersInv, CountersTyped, OneFrameEach, SigintInv,
      ShownInv, NoNegation, CountedOnce, EndIsLate, MainCounts, Counting
<1>2. CASE Handlers!Next
  BY <1>2, CountersLoad, CountersStore, CountersFinish, CountersRead,
     CountersInterrupt, CountersReturn, CountersSend, CountersMain
  DEF Handlers!Next, Handlers!Step, Handlers!AllSignals
<1> QED
  BY <1>1, <1>2
  DEF SignalsNext, HandlersNext, PingPongNext, FdNext, signalsVars

(* inf10-0 prints a number from the SIGINTs that became pending in its     *)
(* loop before any SIGTERM to the SIGINTs sent, however its handlers nest  *)
(* and whenever they are interrupted; and the last line of inf10-1 shows   *)
(* its value when no handler runs, unless one of them changed the value    *)
(* while another one was inside its printf.                                *)
THEOREM CountersStayRight == SignalsSpec => []CountersAreRight
<1>1. HandlersInv => CountersAreRight
  <2> SUFFICES ASSUME HandlersInv PROVE CountersAreRight
    OBVIOUS
  <2>1. ASSUME mainPc = "done", exercise = "inf10-0"
        PROVE  shown[1] \in accepted .. signals_sent["inc"]
    <3>1. CountedOnce /\ EndIsLate /\ MainCounts
      BY <2>1 DEF HandlersInv, SigintInv
    <3>2. frames = <<>> /\ end = 1 /\ shown = <<value>>
      BY <2>1, <3>1 DEF MainCounts
    <3>3. One(Counting) = 0 /\ One("inc" \in raised /\ frames # <<>>) = 0
      BY <3>2 DEF One, Counting, CountsIn
    <3>4. One("inc" \in raised) \in {0, 1}
      BY OneIsBit
    <3>5. value \in Int /\ accepted \in Nat /\ signals_sent["inc"] \in Nat
      BY DEF HandlersInv, CountersTyped
    <3>6. accepted <= value /\ value <= signals_sent["inc"]
      BY <3>1, <3>2, <3>3, <3>4, <3>5 DEF CountedOnce, EndIsLate
    <3> QED
      BY <3>2, <3>5, <3>6
  <2>2. ASSUME frames = <<>>, exercise = "inf10-1", shown # <<>>, ~overtaken
        PROVE  shown = <<value>>
    BY <2>2 DEF HandlersInv, ShownInv
  <2> QED
    BY <2>1, <2>2 DEF CountersAreRight, Handlers!CountsAccepted,
                      Handlers!LastLineIsValue, Handlers!MainAt
<1> QED
  BY <1>1, CountersStart, CountersSteps, PTL DEF SignalsSpec
=============================================================================
