--------------------------------- MODULE Rpc ---------------------------------
(***************************************************************************)
(* What the two programs of 2sem/inf19/inf19-1 promise together: a client  *)
(* that has a list of calls to make gets the result of each, in order, as  *)
(* if it had called the functions itself, and then both end. An unsound    *)
(* set-up may be broken from the start or break off later, but until it    *)
(* does it gives no wrong result.                                          *)
(***************************************************************************)
EXTENDS Naturals, Sequences

CONSTANTS
  Calls,      \* the calls to make, a sequence
  Result(_)   \* what a call returns

VARIABLES
  sound,      \* whether the set-up allows every call
  results,    \* the results obtained so far
  state       \* "going", "over" or "broken"

vars == <<sound, results, state>>

Init ==
  /\ sound \in BOOLEAN
  /\ results = <<>>
  /\ state \in (IF sound THEN {"going"} ELSE {"going", "broken"})

Call ==
  /\ state = "going"
  /\ Len(results) < Len(Calls)
  /\ results' = Append(results, Result(Calls[Len(results) + 1]))
  /\ UNCHANGED <<sound, state>>

End ==
  /\ state = "going"
  /\ Len(results) = Len(Calls)
  /\ state' = "over"
  /\ UNCHANGED <<sound, results>>

Break ==
  /\ ~sound
  /\ state = "going"
  /\ state' = "broken"
  /\ UNCHANGED <<sound, results>>

Next == Call \/ End \/ Break

Spec == Init /\ [][Next]_vars /\ WF_vars(Next)
=============================================================================
