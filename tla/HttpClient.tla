----------------------------- MODULE HttpClient ------------------------------
(***************************************************************************)
(* 2sem/inf21: a GET (inf21-0) or a POST of a file (inf21-1), and a loop   *)
(* that reads what Content-Length has promised.  The parsing is done on    *)
(* whatever the first read returns.  The buffer of inf21-0 is not          *)
(* initialised, and its text goes on after what was read.  The upload      *)
(* takes the result of each read and send for a number of bytes, -1 too.   *)
(***************************************************************************)
EXTENDS Integers, Sequences, FiniteSetsExt

CONSTANTS
  Request,   \* length of the request, in pieces
  Header,    \* length of the header of the answer
  buf_size,
  Bodies,    \* sequences of TRUE (a character) and FALSE (a zero byte)
  Garbage,   \* how much text there may be in the buffer after the answer
  MaxFile,   \* size of the file
  MaxErrors, \* how many reads, and sends, of the upload return -1
  Modulus    \* of uint64_t

VARIABLES
  method, body, actual,   \* actual: the file's size when it is read
  file_size, pc,
  total_bytes,            \* sent of the request, then read of the file
  position, block,        \* in the file, and the size of the last block
  tmp_bytes,              \* what of it is to be sent
  uploaded,               \* which byte of the file each one sent is, or 0
  readErrors, sendErrors,
  answered, got, closed,  \* what the server has sent, what was read of it
  content_length,
  printed,                \* the characters on standard output
  garbled                 \* history: text was printed that was not received

input == <<method, body, actual, file_size>>
upload == <<position, block, tmp_bytes, uploaded, readErrors, sendErrors>>
answer == <<answered, got, closed, content_length, printed, garbled>>
vars == <<input, pc, total_bytes, upload, answer>>

Init ==
  /\ method \in {"GET", "POST"} /\ body \in Bodies
  /\ file_size \in 0 .. MaxFile /\ actual \in 0 .. MaxFile
  /\ pc = "request" /\ total_bytes = 0
  /\ position = 0 /\ block = 0 /\ tmp_bytes = 0 /\ uploaded = <<>>
  /\ readErrors = 0 /\ sendErrors = 0
  /\ answered = 0 /\ got = 0 /\ closed = FALSE
  /\ content_length = 0 /\ printed = <<>> /\ garbled = FALSE

unread == answered - got
Answer == Header + Len(body)

SendRequest ==
  /\ pc = "request" /\ total_bytes < Request
  /\ \E n \in 1 .. Request - total_bytes : total_bytes' = total_bytes + n
  /\ UNCHANGED <<input, pc, upload, answer>>

RequestSent ==
  /\ pc = "request" /\ total_bytes = Request
  /\ pc' = IF method = "GET" THEN "head" ELSE "upload"
  /\ total_bytes' = 0
  /\ UNCHANGED <<input, upload, answer>>

Reading == pc = "upload" /\ tmp_bytes <= 0 /\ total_bytes < file_size

(* At the end of a file that has become shorter, or of which a read has    *)
(* failed, read returns 0 for ever: no step.                               *)
ReadFile ==
  /\ Reading /\ position < actual
  /\ block' = Min({buf_size, actual - position}) /\ tmp_bytes' = block'
  /\ position' = position + block' /\ total_bytes' = total_bytes + block'
  /\ UNCHANGED <<input, pc, uploaded, readErrors, sendErrors, answer>>

(* total_bytes is unsigned: 0 becomes its greatest value.                  *)
FileFails ==
  /\ Reading /\ readErrors < MaxErrors
  /\ tmp_bytes' = -1
  /\ total_bytes' = IF total_bytes = 0 THEN Modulus - 1 ELSE total_bytes - 1
  /\ readErrors' = readErrors + 1
  /\ UNCHANGED <<input, pc, position, block, uploaded, sendErrors, answer>>

(* The first n of the tmp_bytes at the end of the block, or from before it. *)
Sent(n) ==
  [k \in 1 .. n |-> IF tmp_bytes - k < block THEN position - tmp_bytes + k
                    ELSE 0]

(* Mutant: a partial send counts as the whole block.                       *)
SendOnce ==
  /\ pc = "upload" /\ tmp_bytes > 0
  /\ \E n \in 1 .. tmp_bytes : uploaded' = uploaded \o Sent(n)
  /\ tmp_bytes' = 0
  /\ UNCHANGED <<input, pc, total_bytes, position, block, readErrors,
                 sendErrors, answer>>

SendBlock ==
  /\ pc = "upload" /\ tmp_bytes > 0
  /\ \E n \in 1 .. tmp_bytes :
       tmp_bytes' = tmp_bytes - n /\ uploaded' = uploaded \o Sent(n)
  /\ UNCHANGED <<input, pc, total_bytes, position, block, readErrors,
                 sendErrors, answer>>

(* tmp_bytes -= -1; curr += -1                                             *)
SendFails ==
  /\ pc = "upload" /\ tmp_bytes > 0 /\ sendErrors < MaxErrors
  /\ tmp_bytes' = tmp_bytes + 1 /\ sendErrors' = sendErrors + 1
  /\ UNCHANGED <<input, pc, total_bytes, position, block, uploaded, readErrors,
                 answer>>

Uploaded ==
  /\ pc = "upload" /\ tmp_bytes <= 0 /\ total_bytes >= file_size
  /\ pc' = "head"
  /\ UNCHANGED <<input, total_bytes, upload, answer>>

(* The text at the beginning of s, as printf("%s") and strlen see it.      *)
Text(s) ==
  LET zeros == {k \in DOMAIN s : ~s[k]}
  IN  SubSeq(s, 1, Min(zeros \cup {Len(s) + 1}) - 1)
Received(n) == SubSeq(body, got - Header + 1, got - Header + n)

(* Mutant: what came with the header is not counted.                       *)
ParseAndForget ==
  /\ pc = "head" /\ unread >= Header
  /\ \E n \in Header .. Min({unread, buf_size}) :
       LET ans == Text(SubSeq(body, 1, n - Header))
       IN  /\ got' = n /\ printed' = ans
           /\ content_length' = Len(body)
  /\ pc' = "body"
  /\ UNCHANGED <<input, total_bytes, upload, answered, closed,
                 garbled>>

(* The header ends in what was read.                                       *)
Parse ==
  /\ pc = "head" /\ unread >= Header
  /\ \E n \in Header .. Min({unread, buf_size}), g \in 0 .. Garbage :
       LET ans == Text(SubSeq(body, 1, n - Header))
           zero == Len(ans) < n - Header
       IN  /\ (method = "POST" \/ zero) => g = 0
           /\ got' = n
           /\ printed' = ans \o [k \in 1 .. g |-> TRUE]
           /\ content_length' = (Len(body) - (Len(ans) + g)) % Modulus
           /\ garbled' = (g > 0)
  /\ pc' = "body"
  /\ UNCHANGED <<input, total_bytes, upload, answered, closed>>

(* It does not: strstr returns a null pointer, to which 16 or 4 is added.  *)
ParseFails ==
  /\ pc = "head" /\ unread > 0 /\ Header > 1
  /\ got' \in 1 .. Min({unread, Header - 1}) /\ pc' = "crashed"
  /\ UNCHANGED <<input, total_bytes, upload, answered, closed,
                 content_length, printed, garbled>>

ReadFails ==
  /\ pc = "head" /\ unread = 0 /\ closed
  /\ pc' = "failed"
  /\ UNCHANGED <<input, total_bytes, upload, answered, got,
                 closed, content_length, printed, garbled>>

(* Mutant: one read for the rest of the body.                              *)
ReadBodyOnce ==
  /\ pc = "body" /\ content_length > 0 /\ unread > 0
  /\ \E n \in 1 .. Min({unread, buf_size}) :
       got' = got + n /\ printed' = printed \o Text(Received(n))
  /\ content_length' = 0
  /\ UNCHANGED <<input, pc, total_bytes, upload, answered, closed,
                 garbled>>

(* At the end of the stream read returns 0, again and again: no step.      *)
ReadBody ==
  /\ pc = "body" /\ content_length > 0 /\ unread > 0
  /\ \E n \in 1 .. Min({unread, buf_size}) :
       /\ got' = got + n
       /\ printed' = printed \o Text(Received(n))
       /\ content_length' = (content_length - n) % Modulus
  /\ UNCHANGED <<input, pc, total_bytes, upload, answered, closed,
                 garbled>>

Finish ==
  /\ pc = "body" /\ content_length = 0
  /\ pc' = "done"
  /\ UNCHANGED <<input, total_bytes, upload, answered, got,
                 closed, content_length, printed, garbled>>

(* The server answers when it has the request, bit by bit; it may close    *)
(* before it has sent everything.                                          *)
ServerSends ==
  /\ pc \notin {"request", "upload"} /\ ~closed /\ answered < Answer
  /\ answered' \in answered + 1 .. Answer
  /\ UNCHANGED <<input, pc, total_bytes, upload, got, closed,
                 content_length, printed, garbled>>

ServerCloses ==
  /\ pc \notin {"request", "upload"} /\ ~closed
  /\ closed' = TRUE
  /\ UNCHANGED <<input, pc, total_bytes, upload, answered, got,
                 content_length, printed, garbled>>

(* A call on the socket returns -1, or sends to a connection that is gone, *)
(* and SIGPIPE ends the client.                                            *)
SocketFails ==
  /\ \/ pc \in {"request", "head"}
     \/ pc = "upload" /\ tmp_bytes > 0
     \/ pc = "body" /\ content_length > 0
  /\ pc' = "failed"
  /\ UNCHANGED <<input, total_bytes, upload, answer>>

Step ==
  \/ SendRequest \/ RequestSent \/ ReadFile \/ SendBlock \/ Uploaded
  \/ Parse \/ ParseFails \/ ReadFails \/ ReadBody \/ Finish \/ ServerSends
Next == Step \/ FileFails \/ SendFails \/ ServerCloses \/ SocketFails

-----------------------------------------------------------------------------
AllText == \A k \in DOMAIN body : body[k]

(* A client that ends has printed the body, if it is text and nothing in   *)
(* the buffer was taken for a part of it: in inf21-1, always.              *)
PrintsBody ==
  pc = "done" /\ AllText /\ ~garbled => printed = body

(* The answer is awaited when every byte that was read has been sent, each *)
(* once and in order if no send has failed; and when as much was read as   *)
(* Content-Length says, unless more reads failed than bytes were read.     *)
UploadsFile ==
  method = "POST" /\ pc \in {"head", "body", "done"} =>
    /\ \A p \in 1 .. position : \E k \in DOMAIN uploaded : uploaded[k] = p
    /\ sendErrors = 0 => uploaded = [k \in 1 .. position |-> k]
    /\ position >= file_size \/ readErrors > position

(* The client ends, unless the file or the answer was cut, the body has a  *)
(* zero byte, or text in the buffer was counted; every read of the file    *)
(* that fails makes the file one byte too short.                           *)
ClientEnds ==
  <>(\/ pc \in {"done", "failed", "crashed"}
     \/ closed /\ answered < Answer
     \/ method = "POST" /\ actual < file_size + readErrors
     \/ ~AllText \/ garbled)
=============================================================================
