----------------------------- MODULE QueryClient -----------------------------
(***************************************************************************)
(* Clients that ask one question at a time and take whatever arrives next  *)
(* for its answer: 2sem/inf14/inf14-0 (numbers over TCP), inf20-0 (ARP)    *)
(* and inf20-1 (DNS over UDP).  The second versions of the last two,       *)
(* azatiuss and azzatiuss, do not look at the results of their calls.      *)
(***************************************************************************)
EXTENDS Integers, Sequences

CONSTANTS
  Questions,   \* how many there are
  MaxArrived   \* answers that wait to be received

VARIABLES
  program,
  valid,      \* whether each question is an address, a number, or a name
  i, pc,
  asked,      \* the question in the request, 0 before the first
  pending,    \* questions on their way, or being answered
  cut,        \* the answer whose first half has arrived, or 0
  arrived,    \* halves of answers, in order
  printed,    \* two halves per line, 0 for what is no answer
  faulty      \* history: something was lost, sent twice, or not for us, or
              \* read returned half a number

vars == <<program, valid, i, pc, asked, pending, cut, arrived,
          printed, faulty>>

Init ==
  /\ program \in {"inf14-0", "inf20-0", "azatiuss", "inf20-1",
                  "azzatiuss"}
  /\ valid \in [1 .. Questions -> BOOLEAN]
  /\ program \in {"inf20-1", "azzatiuss"} => \A q \in DOMAIN valid : valid[q]
  /\ i = 1 /\ pc = "scan" /\ asked = 0
  /\ pending = {} /\ cut = 0 /\ arrived = <<>> /\ printed = <<>>
  /\ faulty = FALSE

Tcp == program = "inf14-0"
Careless == program \in {"azatiuss", "azzatiuss"}
MayAsk == valid[i] \/ program = "azatiuss"

(* azatiuss_prog.c ignores inet_aton's error and asks the last one again.  *)
Ask ==
  /\ pc = "scan" /\ i <= Questions /\ MayAsk
  /\ asked' = IF program = "azatiuss" /\ ~valid[i] THEN asked ELSE i
  /\ pending' = (pending \cup {asked'}) \ {0}
  /\ i' = i + 1 /\ pc' = "recv"
  /\ UNCHANGED <<program, valid, cut, arrived, printed, faulty>>

(* Mutant: no `continue' after a bad address.                              *)
ReceiveAnyway ==
  /\ pc = "scan" /\ i <= Questions /\ ~MayAsk
  /\ i' = i + 1 /\ pc' = "recv"
  /\ UNCHANGED <<program, valid, cut, asked, pending, arrived, printed,
                 faulty>>

(* inf20-0 goes on after a bad address, scanf of inf14-0 stops at it.      *)
Skip ==
  /\ pc = "scan" /\ i <= Questions /\ ~MayAsk
  /\ IF Tcp THEN pc' = "done" /\ UNCHANGED i ELSE i' = i + 1 /\ UNCHANGED pc
  /\ UNCHANGED <<program, valid, cut, asked, pending, arrived, printed,
                 faulty>>

End ==
  /\ pc = "scan" /\ i > Questions
  /\ pc' = "done"
  /\ UNCHANGED <<program, valid, cut, i, asked, pending, arrived, printed,
                 faulty>>

(* Mutant: the next question does not wait for the answer to this one.     *)
RecvNow ==
  /\ pc = "recv"
  /\ IF arrived = <<>> THEN UNCHANGED <<arrived, printed>>
     ELSE /\ Len(arrived) >= 2
          /\ printed' = Append(printed, SubSeq(arrived, 1, 2))
          /\ arrived' = SubSeq(arrived, 3, Len(arrived))
  /\ pc' = "scan"
  /\ UNCHANGED <<program, valid, cut, i, asked, pending, faulty>>

Recv ==
  /\ pc = "recv" /\ Len(arrived) >= 2
  /\ printed' = Append(printed, SubSeq(arrived, 1, 2))
  /\ arrived' = SubSeq(arrived, 3, Len(arrived))
  /\ pc' = "scan"
  /\ UNCHANGED <<program, valid, cut, i, asked, pending, faulty>>

(* One half: the other half of the line is still the number sent.          *)
RecvHalf ==
  /\ pc = "recv" /\ Tcp /\ arrived # <<>>
  /\ printed' = Append(printed, <<Head(arrived), 0>>)
  /\ arrived' = Tail(arrived)
  /\ pc' = "scan" /\ faulty' = TRUE
  /\ UNCHANGED <<program, valid, cut, i, asked, pending>>

(* The server closes the connection, or a call fails.  Who does not look   *)
(* prints what happens to be in the response, or before it, and goes on;   *)
(* a question that could not be sent is as good as lost.                   *)
Fail ==
  /\ pc = "recv" /\ faulty' = TRUE
  /\ IF Careless THEN pc' = "scan" /\ printed' = Append(printed, <<0, 0>>)
                 ELSE pc' = "done" /\ UNCHANGED printed
  /\ UNCHANGED <<program, valid, cut, i, asked, pending, arrived>>

Deliver(q) ==
  /\ cut \in {0, q}
  /\ Len(arrived) + (IF cut = q THEN 1 ELSE 2) <= 2 * MaxArrived
  /\ pending' = pending \ {q} /\ cut' = 0
  /\ arrived' = arrived \o IF cut = q THEN <<q>> ELSE <<q, q>>
  /\ UNCHANGED <<program, valid, i, pc, asked, printed, faulty>>

Lose(q) ==
  /\ ~Tcp /\ pending' = pending \ {q} /\ faulty' = TRUE
  /\ UNCHANGED <<program, valid, cut, i, pc, asked, arrived, printed>>

(* An answer that comes again, or (0) a packet that answers nothing.       *)
Stray(q) ==
  /\ ~Tcp /\ Len(arrived) + 2 <= 2 * MaxArrived
  /\ arrived' = arrived \o <<q, q>> /\ faulty' = TRUE
  /\ UNCHANGED <<program, valid, cut, i, pc, asked, pending, printed>>

(* The first half of a number arrives before the second.                   *)
DeliverHalf(q) ==
  /\ Tcp /\ cut = 0 /\ Len(arrived) + 2 <= 2 * MaxArrived
  /\ arrived' = Append(arrived, q) /\ cut' = q
  /\ UNCHANGED <<program, valid, i, pc, asked, pending, printed, faulty>>

Step == Ask \/ Skip \/ End \/ Recv \/ \E q \in pending : Deliver(q)
Next ==
  \/ Step \/ RecvHalf \/ Fail
  \/ \E q \in pending : Lose(q) \/ DeliverHalf(q)
  \/ \E q \in 0 .. i - 1 : Stray(q)

-----------------------------------------------------------------------------
(* As long as nothing was lost, repeated, foreign or cut, each line is the *)
(* answer to its own question, though no answer says which it is for.      *)
AnswersMatch ==
  ~faulty =>
    /\ \A k \in DOMAIN printed : printed[k][1] = printed[k][2]
    /\ pc = "scan" /\ printed # <<>> => printed[Len(printed)][1] = asked
    /\ \A k, m \in DOMAIN printed :
         k < m => \/ printed[k][1] < printed[m][1]
                  \/ /\ program = "azatiuss"
                     /\ printed[k][1] = printed[m][1]

(* Then the client gets through all its questions, but for azatiuss_prog.c *)
(* with a bad address at the beginning, to which nobody answers.           *)
QueriesEnd ==
  <>(pc = "done" \/ faulty \/ (program = "azatiuss" /\ ~valid[1]))
=============================================================================
