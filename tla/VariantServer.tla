---------------------------- MODULE VariantServer ----------------------------
(***************************************************************************)
(* 2sem/inf15/inf15-1/azattius_server.c: the upper-case server once more,  *)
(* with a handler that exits at once unless a batch of events is being     *)
(* processed.                                                              *)
(***************************************************************************)
EXTENDS Integers

CONSTANTS
  Clients,
  MaxPieces,   \* that a client sends
  MaxSignals

VARIABLES
  pc, sig_sent, now_processed,
  events,      \* the rest of the batch: clients, or the listening socket
  held,        \* what a read has returned and is not written yet
  client,      \* the client it is from
  state,       \* "new", "queued", "open", "gone" (hung up) or "closed"
  sent, inbox, \* pieces each client has sent, and those not read yet
  back,        \* pieces each client has got back
  dropped,     \* history: pieces that a full socket did not take
  signals

server == <<sig_sent, now_processed, events, held, client>>
peers == <<state, sent, inbox, back, dropped>>
vars == <<pc, server, peers, signals>>

listener == "listener"

Init ==
  /\ pc = "test" /\ sig_sent = FALSE /\ now_processed = FALSE
  /\ events = {} /\ held = 0 /\ client = listener
  /\ state = [c \in Clients |-> "new"]
  /\ sent = [c \in Clients |-> 0] /\ inbox = sent /\ back = sent
  /\ dropped = 0 /\ signals = 0

Running == pc \notin {"exit", "killed"}

(* handle_sig runs between any two steps.                                  *)
handle_sig ==
  /\ Running /\ signals < MaxSignals
  /\ signals' = signals + 1 /\ sig_sent' = TRUE
  /\ pc' = IF now_processed THEN pc ELSE "exit"
  /\ UNCHANGED <<now_processed, events, held, client, peers>>

(* Mutant: after a signal the server waits for its clients to hang up.     *)
TestClients ==
  /\ pc = "test"
  /\ sig_sent => \A c \in Clients : state[c] # "open"
  /\ pc' = IF sig_sent THEN "exit" ELSE "wait"
  /\ UNCHANGED <<server, peers, signals>>

Test ==
  /\ pc = "test"
  /\ pc' = IF sig_sent THEN "exit" ELSE "wait"
  /\ UNCHANGED <<server, peers, signals>>

Ready ==
  {c \in Clients : \/ state[c] = "open" /\ inbox[c] > 0
                   \/ state[c] = "gone"}
    \cup IF \E c \in Clients : state[c] = "queued" THEN {listener} ELSE {}

Wait ==
  /\ pc = "wait" /\ Ready # {}
  /\ events' = Ready /\ pc' = "got"
  /\ UNCHANGED <<sig_sent, now_processed, held, client, peers, signals>>

(* Mutant: now_processed = 1 is forgotten.                                 *)
Unprotected ==
  /\ pc = "got" /\ pc' = "batch"
  /\ UNCHANGED <<server, peers, signals>>

Protect ==
  /\ pc = "got" /\ pc' = "batch" /\ now_processed' = TRUE
  /\ UNCHANGED <<sig_sent, events, held, client, peers, signals>>

Accept(c) ==
  /\ pc = "batch" /\ listener \in events /\ state[c] = "queued"
  /\ events' = events \ {listener}
  /\ state' = [state EXCEPT ![c] = "open"]
  /\ UNCHANGED <<pc, sig_sent, now_processed, held, client, sent, inbox, back,
                 dropped, signals>>

Take(c) ==
  /\ pc = "batch" /\ c \in events /\ inbox[c] > 0
  /\ held' = inbox[c] /\ client' = c /\ inbox' = [inbox EXCEPT ![c] = 0]
  /\ events' = events \ {c} /\ pc' = "write"
  /\ UNCHANGED <<sig_sent, now_processed, state, sent, back, dropped, signals>>

CloseClient(c) ==
  /\ pc = "batch" /\ c \in events /\ inbox[c] = 0
  /\ state' = [state EXCEPT ![c] = "closed"] /\ events' = events \ {c}
  /\ UNCHANGED <<pc, sig_sent, now_processed, held, client, sent, inbox, back,
                 dropped, signals>>

(* The socket takes some of it, and nobody asks how much.                  *)
Write ==
  /\ pc = "write"
  /\ \E n \in 0 .. held :
       /\ back' = [back EXCEPT ![client] = @ + n]
       /\ dropped' = dropped + (held - n)
  /\ held' = 0 /\ pc' = "batch"
  /\ UNCHANGED <<sig_sent, now_processed, events, client, state, sent, inbox,
                 signals>>

(* SIGPIPE: the client has closed its socket before the write. If read     *)
(* reports that with -1, it becomes the length to write.                   *)
BrokenPipe ==
  /\ \/ pc = "write" /\ state[client] = "gone"
     \/ /\ pc = "batch"
        /\ \E c \in events \cap Clients : state[c] = "gone" /\ inbox[c] = 0
  /\ pc' = "killed"
  /\ UNCHANGED <<server, peers, signals>>

(* Mutant: a signal during a batch is forgotten at its end.                *)
ForgetSignal ==
  /\ pc = "batch" /\ events = {}
  /\ now_processed' = FALSE /\ pc' = "wait"
  /\ UNCHANGED <<sig_sent, events, held, client, peers, signals>>

EndBatch ==
  /\ pc = "batch" /\ events = {}
  /\ now_processed' = FALSE /\ pc' = "test"
  /\ UNCHANGED <<sig_sent, events, held, client, peers, signals>>

Connect(c) ==
  /\ Running /\ state[c] = "new"
  /\ state' = [state EXCEPT ![c] = "queued"]
  /\ UNCHANGED <<pc, server, sent, inbox, back, dropped, signals>>

Send(c) ==
  /\ state[c] = "open" /\ sent[c] < MaxPieces
  /\ sent' = [sent EXCEPT ![c] = @ + 1]
  /\ inbox' = [inbox EXCEPT ![c] = @ + 1]
  /\ UNCHANGED <<pc, server, state, back, dropped, signals>>

HangUp(c) ==
  /\ state[c] = "open" /\ state' = [state EXCEPT ![c] = "gone"]
  /\ UNCHANGED <<pc, server, sent, inbox, back, dropped, signals>>

Step ==
  \/ Test \/ Wait \/ Protect \/ Write \/ BrokenPipe \/ EndBatch
  \/ \E c \in Clients : Accept(c) \/ Take(c) \/ CloseClient(c)
Next ==
  \/ Step \/ handle_sig
  \/ \E c \in Clients : Connect(c) \/ Send(c) \/ HangUp(c)

-----------------------------------------------------------------------------
(* A signal never makes the server exit with text in hand: whatever was    *)
(* read has been answered, as far as the client's socket took it.          *)
AnsweredBeforeExit ==
  pc = "exit" =>
    held = 0 /\ \A c \in Clients :
      back[c] <= sent[c] - inbox[c]
        /\ (dropped = 0 => back[c] = sent[c] - inbox[c])

(* After a signal no further batch is begun.                               *)
NoBatchAfterSignal == [][sig_sent => events' \subseteq events]_<<events, pc>>

(* Unlike in inf15-1/prog.c, SIGTERM ends the server whenever it comes.    *)
SigtermEnds == sig_sent ~> ~Running
=============================================================================
