------------------------------- MODULE Streams -------------------------------
(***************************************************************************)
(* The programs of 1sem/inf07-0 and 2sem/inf13, inf14, inf15, inf20, inf21 *)
(* and inf22 that read from a pipe, a file or a socket until it ends, one  *)
(* of them at a time: `running' says which, and the variables of the       *)
(* others keep their initial values.                                       *)
(***************************************************************************)
EXTENDS Integers, Sequences

CONSTANTS
  N, MaxWritten,                              \* of EpollCount
  Clients, MaxPieces, MaxSignals,             \* of VariantServer
  Request, Header, HttpBuffer, HttpBodies, Garbage, MaxFile,
  Modulus, MaxErrors,                         \* of HttpClient
  Questions, MaxArrived,                      \* of QueryClient
  HeaderLen, BodyLengths, DecryptBuffer,      \* of Decrypt, with MaxErrors
  Lines, Kinds, MaxOutput, Capacity,          \* of GccCounter
  SplitInputs, Full, OldSizes                 \* of SplitFile

ASSUME CountAssumption == N \in Nat

(* uint64_t can hold the length of the body, and size_t that of the file.  *)
ASSUME HttpAssumption ==
  /\ Request \in Nat /\ Header \in Nat /\ HttpBuffer \in Nat
  /\ Garbage \in Nat /\ MaxFile \in Nat /\ Modulus \in Nat
  /\ MaxFile < Modulus /\ MaxErrors \in Nat
  /\ \A b \in HttpBodies : b \in Seq(BOOLEAN) /\ Len(b) < Modulus

ASSUME QueryAssumption == Questions \in Nat /\ MaxArrived \in Nat

ASSUME DecryptAssumption ==
  /\ HeaderLen \in Nat /\ DecryptBuffer \in Nat
  /\ BodyLengths \subseteq Nat /\ BodyLengths # {}

(* gcc numbers the lines from 1, so that -1 is none of them.               *)
ASSUME GccAssumption == Lines \subseteq Nat

ASSUME SplitAssumption ==
  /\ Full \in Nat /\ OldSizes \subseteq Nat /\ 0 \in OldSizes
  /\ \A s \in SplitInputs : s \in Seq({"digit", "other", "zero"})

VARIABLES
  running,
  kind, written, unread, hungup, countPc, pending, count, open, files_left,
  result,
  serverPc, sig_sent, now_processed, events, held, client, state, sent, inbox,
  back, dropped, signals,
  method, body, actual, file_size, httpPc, total_bytes, position, block,
  tmp_bytes, uploaded, readErrors, sendErrors,
  answered, got, closed, content_length, printed, garbled,
  program, valid, i, queryPc, asked, onTheWay, cut, arrived, lines, faulty,
  file, left, length, decryptPc, buf, need_to_read, total_len, need_to_write,
  decrypted, headerErrors, writeErrors,
  upper, output, pipe, child, gccPc, errors_num, warnings_num, last_str_error,
  last_str_warning, total_size,
  input, denied, existing, pos, splitPc, buffers, out, status, lost

Counter == INSTANCE EpollCount WITH pc <- countPc
Server == INSTANCE VariantServer WITH pc <- serverPc
Http == INSTANCE HttpClient
  WITH pc <- httpPc, buf_size <- HttpBuffer,
       Bodies <- HttpBodies
Query == INSTANCE QueryClient
  WITH pc <- queryPc, pending <- onTheWay, printed <- lines
Cipher == INSTANCE Decrypt
  WITH pc <- decryptPc, body <- length, written <- decrypted,
       readErrors <- headerErrors,
       Bodies <- BodyLengths, buf_size <- DecryptBuffer
Gcc == INSTANCE GccCounter WITH pc <- gccPc
Split == INSTANCE SplitFile
  WITH pc <- splitPc, buf <- buffers,
       Inputs <- SplitInputs

counterVars == <<kind, written, unread, hungup, countPc, pending, count, open,
                 files_left, result>>
serverVars == <<serverPc, sig_sent, now_processed, events, held, client, state,
                sent, inbox, back, dropped, signals>>
httpVars == <<method, body, actual, file_size, httpPc, total_bytes, position,
              block, tmp_bytes, uploaded, readErrors, sendErrors,
              answered, got, closed, content_length, printed, garbled>>
queryVars == <<program, valid, i, queryPc, asked, onTheWay, cut, arrived,
               lines, faulty>>
cipherVars == <<file, left, length, decryptPc, buf, need_to_read, total_len,
                need_to_write, decrypted, headerErrors, writeErrors>>
gccVars == <<upper, output, pipe, child, gccPc, errors_num, warnings_num,
             last_str_error, last_str_warning, total_size>>
splitVars == <<input, denied, existing, pos, splitPc, buffers, out, status, lost>>
vars == <<running, counterVars, serverVars, httpVars, queryVars, cipherVars,
          gccVars, splitVars>>

Init ==
  /\ running \in {"count", "server", "http", "query", "decrypt", "gcc",
                  "split"}
  /\ running # "count" => kind = [f \in 1 .. N |-> "pipe"]
  /\ running # "http" =>
       /\ method = "GET" /\ file_size = 0 /\ actual = 0
       /\ body = CHOOSE b \in HttpBodies : TRUE
  /\ running # "query" =>
       program = "inf14-0" /\ valid = [k \in 1 .. Questions |-> TRUE]
  /\ running # "decrypt" =>
       file = 0 /\ left = 0 /\ length = CHOOSE n \in BodyLengths : TRUE
  /\ running # "gcc" => upper = FALSE
  /\ running # "split" =>
       /\ denied = {} /\ existing = [o \in {"digit", "other"} |-> 0]
       /\ input = CHOOSE s \in SplitInputs : TRUE
  /\ Counter!Init /\ Server!Init /\ Http!Init /\ Query!Init /\ Cipher!Init
  /\ Gcc!Init /\ Split!Init

CountNext ==
  running = "count" /\ Counter!Next
    /\ UNCHANGED <<running, serverVars, httpVars, queryVars, cipherVars,
                   gccVars, splitVars>>

ServerNext ==
  running = "server" /\ Server!Next
    /\ UNCHANGED <<running, counterVars, httpVars, queryVars, cipherVars,
                   gccVars, splitVars>>

HttpNext ==
  running = "http" /\ Http!Next
    /\ UNCHANGED <<running, counterVars, serverVars, queryVars, cipherVars,
                   gccVars, splitVars>>

QueryNext ==
  running = "query" /\ Query!Next
    /\ UNCHANGED <<running, counterVars, serverVars, httpVars, cipherVars,
                   gccVars, splitVars>>

DecryptNext ==
  running = "decrypt" /\ Cipher!Next
    /\ UNCHANGED <<running, counterVars, serverVars, httpVars, queryVars,
                   gccVars, splitVars>>

GccNext ==
  running = "gcc" /\ Gcc!Next
    /\ UNCHANGED <<running, counterVars, serverVars, httpVars, queryVars,
                   cipherVars, splitVars>>

SplitNext ==
  running = "split" /\ Split!Next
    /\ UNCHANGED <<running, counterVars, serverVars, httpVars, queryVars,
                   cipherVars, gccVars>>

Next ==
  \/ CountNext \/ ServerNext \/ HttpNext \/ QueryNext \/ DecryptNext
  \/ GccNext \/ SplitNext

(* The kernel runs every program that can run; servers answer what they    *)
(* are asked.  Nobody has to write, hang up, send signals or fail.         *)
Fairness ==
  /\ WF_vars(CountNext /\ Counter!Step)
  /\ WF_vars(ServerNext /\ Server!Step)
  /\ WF_vars(HttpNext /\ Http!Step)
  /\ WF_vars(QueryNext /\ Query!Step)
  /\ WF_vars(GccNext /\ Gcc!ParentStep)

Spec == Init /\ [][Next]_vars /\ Fairness

-----------------------------------------------------------------------------
(***************************************************************************)
(* Whatever the pieces are in which it comes, all of a stream is used once *)
(* and for what it is: inf15-0 counts it, the clients of inf21 print the   *)
(* body and send the file, each line of inf14-0 and inf20 answers its own  *)
(* question, inf22-1 decrypts it with the salt of the file, inf13-0 and    *)
(* inf13-2 count bytes and lines, and inf07-0 sends each character to its  *)
(* file.  What a failing read or write, tmp_str's other half or an old     *)
(* file may change in that is said by each of these.                       *)
(***************************************************************************)
StreamsAreWhole ==
  /\ Counter!CountsEverything
  /\ Http!PrintsBody /\ Http!UploadsFile
  /\ Query!AnswersMatch
  /\ Cipher!DecryptsAll
  /\ Gcc!CountsLines
  /\ Split!SplitsInput

(* A signal does not make azattius_server.c exit with text in hand.        *)
AnsweredBeforeExit == Server!AnsweredBeforeExit

(* SIGTERM ends azattius_server.c whenever it comes: no batch is begun     *)
(* after it, and no window is left in which the server sleeps on.          *)
SignalEndsServer == Server!NoBatchAfterSignal /\ Server!SigtermEnds

(***************************************************************************)
(* A program gets to the end of its streams: inf15-0 returns when its      *)
(* inputs, none a regular file, have ended; the clients of inf21 unless    *)
(* something was cut or counted wrongly; those of inf14-0 and inf20 get    *)
(* through their questions; the parents of inf13-0 and inf13-2 see the end *)
(* of the pipe.                                                            *)
(***************************************************************************)
StreamsEnd ==
  /\ Counter!CountReturns
  /\ running = "http" => Http!ClientEnds
  /\ running = "query" => Query!QueriesEnd
  /\ Gcc!CounterEnds
=============================================================================
