-------------------------- MODULE AtomicListProofs ---------------------------
(***************************************************************************)
(* The safety of AtomicList for every number of threads and items.         *)
(*                                                                         *)
(* The inductive invariant says that the list is a chain c[0], ..., c[n]   *)
(* (Chain, in AtomicList), that every cursor is on it however stale, and   *)
(* that what main has printed is a prefix of it.                           *)
(***************************************************************************)
EXTENDS AtomicList, FiniteSetTheorems, SequenceTheorems, TLAPS

(* What holds of the threads while the list is the chain c.                *)
ThreadInv(n, c) ==
  \A t \in Thread :
    /\ \E j \in 0 .. n : cursor[t] = c[j]
    /\ pc[t] \in {"cas", "advance"} =>
         /\ count[t] < K
         /\ next[NewItem(t)] = Null
    /\ pc[t] = "cas" => expected[t] = Null
    /\ pc[t] = "advance" => next[cursor[t]] # Null
    /\ pc[t] = "exit" => count[t] = K

(* What holds of main while the list is the chain c.                       *)
MainInv(n, c) ==
  /\ mainPc \in {"create", "join"} => head = Sentinel /\ output = <<>>
  /\ mainPc = "join" => \A t \in Thread : t < mainI => pc[t] = "exit"
  /\ mainPc \in {"print", "done"} =>
       /\ \A t \in Thread : pc[t] = "exit"
       /\ Len(output) <= n
       /\ \A j \in 1 .. Len(output) : output[j] = c[j]
       /\ head = IF Len(output) < n THEN c[Len(output) + 1] ELSE Null
  /\ mainPc = "done" => head = Null

ListInv(n, c) == Chain(n, c) /\ ThreadInv(n, c) /\ MainInv(n, c)

IInv ==
  /\ TypeOK
  /\ \E n \in Nat : \E c \in [0 .. n -> Address] : ListInv(n, c)

-----------------------------------------------------------------------------
(* Each item of the chain past the sentinel is a published item.           *)
LEMMA ChainItems ==
  ASSUME NEW n \in Nat, NEW c \in [0 .. n -> Address], Chain(n, c)
  PROVE  \A j \in 1 .. n : c[j] \in Item
BY AddressAssumption DEF Chain, Address

LEMMA InitIInv == Init => IInv
<1> SUFFICES ASSUME Init PROVE IInv
  OBVIOUS
<1>1. TypeOK
  BY SizeAssumption, AddressAssumption
  DEF Init, TypeOK, Address, Thread, Item
<1> DEFINE c == [j \in 0 .. 0 |-> Sentinel]
<1>2. c \in [0 .. 0 -> Address]
  BY DEF Address
<1>3. Published = {}
  BY SizeAssumption DEF Init, Published, Item, Thread
<1>4. Chain(0, c)
  BY <1>3, SizeAssumption DEF Init, Chain, Address
<1>5. ThreadInv(0, c) /\ MainInv(0, c)
  BY DEF Init, ThreadInv, MainInv
<1> QED
  BY <1>1, <1>2, <1>4, <1>5 DEF IInv, ListInv

-----------------------------------------------------------------------------
(* Steps that link nothing: the chain is the one it was.                   *)

(* A step of thread t that keeps the list, the other threads and main.     *)
LEMMA ThreadStepIInv ==
  ASSUME TypeOK, NEW n \in Nat, NEW c \in [0 .. n -> Address], ListInv(n, c),
         NEW t \in Thread,
         Allocate(t) \/ Return(t) \/ CasFails(t) \/ Advance(t)
  PROVE  TypeOK' /\ ListInv(n, c)'
<1> USE DEF Address
<1>2. TypeOK /\ Chain(n, c) /\ ThreadInv(n, c) /\ MainInv(n, c)
  BY DEF ListInv
<1>3. \A j \in 1 .. n : c[j] \in Item
  BY <1>2, ChainItems
<1>4. ASSUME NEW j \in 0 .. n, cursor[t] = c[j]
      PROVE  \/ j = n /\ next[cursor[t]] = Null
             \/ j < n /\ j + 1 \in 1 .. n /\ next[cursor[t]] = c[j + 1]
  BY <1>2, <1>4 DEF Chain
<1>5. CASE Allocate(t)
  <2>1. NewItem(t) \in Item /\ NewItem(t) \notin Published
    BY <1>2, <1>5, SizeAssumption DEF Allocate, TypeOK, NewItem, Published, Item, Thread
  <2>2. \A j \in 0 .. n : c[j] # NewItem(t)
    BY <1>2, <2>1, AddressAssumption DEF Chain
  <2>3. \A a \in Address : next'[a] = IF a = NewItem(t) THEN Null ELSE next[a]
    BY <1>2, <1>5 DEF Allocate, TypeOK
  <2>4. TypeOK'
    BY <1>2, <1>5, <2>1 DEF Allocate, TypeOK, mainVars
  <2>5. \A j \in 0 .. n : next'[c[j]] = next[c[j]]
    BY <2>2, <2>3
  <2>6. Chain(n, c)'
    <3>1. Published' = Published
      BY <1>5 DEF Allocate, Published
    <3> QED
      BY <1>2, <2>5, <3>1 DEF Chain
  <2>7. ThreadInv(n, c)'
    <3> SUFFICES ASSUME NEW u \in Thread
                 PROVE  /\ \E j \in 0 .. n : cursor'[u] = c[j]
                        /\ pc'[u] \in {"cas", "advance"} =>
                             /\ count'[u] < K
                             /\ next'[NewItem(u)'] = Null
                        /\ pc'[u] = "cas" => expected'[u] = Null
                        /\ pc'[u] = "advance" => next'[cursor'[u]] # Null
                        /\ pc'[u] = "exit" => count'[u] = K
      BY DEF ThreadInv
    <3>1. cursor' = cursor /\ count' = count /\ NewItem(u)' = NewItem(u)
      BY <1>5 DEF Allocate, NewItem
    <3>2. PICK j \in 0 .. n : cursor[u] = c[j]
      BY <1>2 DEF ThreadInv
    <3>3. next'[cursor[u]] = next[cursor[u]]
      BY <2>5, <3>2
    <3>4. CASE u = t
      BY <1>2, <1>5, <2>1, <2>3, <3>1, <3>2, <3>4 DEF Allocate, TypeOK
    <3>5. CASE u # t
      <4>1. pc'[u] = pc[u] /\ expected'[u] = expected[u]
        BY <1>2, <1>5, <3>5 DEF Allocate, TypeOK
      <4>2. pc[u] \in {"cas", "advance"} => next'[NewItem(u)] = Null
        <5> SUFFICES ASSUME pc[u] \in {"cas", "advance"}
                     PROVE  next'[NewItem(u)] = Null
          OBVIOUS
        <5>1. NewItem(u) \in Address /\ next[NewItem(u)] = Null
          BY <1>2, SizeAssumption DEF ThreadInv, TypeOK, NewItem, Item
        <5> QED
          BY <2>3, <5>1
      <4> QED
        BY <1>2, <3>1, <3>2, <3>3, <4>1, <4>2 DEF ThreadInv
    <3> QED
      BY <3>4, <3>5
  <2>8. MainInv(n, c)'
    BY <1>2, <1>5 DEF Allocate, mainVars, MainInv, TypeOK
  <2> QED
    BY <2>4, <2>6, <2>7, <2>8 DEF ListInv
<1>6. CASE Return(t)
  <2>1. TypeOK'
    BY <1>2, <1>6 DEF Return, TypeOK, mainVars
  <2>2. Chain(n, c)'
    BY <1>2, <1>6 DEF Return, Chain, Published
  <2>3. count[t] = K
    BY <1>2, <1>6, SizeAssumption DEF Return, TypeOK
  <2>4. ThreadInv(n, c)'
    BY <1>2, <1>6, <2>3 DEF Return, ThreadInv, NewItem, TypeOK
  <2>5. MainInv(n, c)'
    BY <1>2, <1>6 DEF Return, mainVars, MainInv, TypeOK
  <2> QED
    BY <2>1, <2>2, <2>4, <2>5 DEF ListInv
<1>7. CASE CasFails(t)
  <2>1. PICK j \in 0 .. n : cursor[t] = c[j]
    BY <1>2 DEF ThreadInv
  <2>2. expected[t] = Null /\ next[cursor[t]] # Null
    BY <1>2, <1>7 DEF CasFails, ThreadInv
  <2>3. next[cursor[t]] \in Item
    BY <1>3, <1>4, <2>1, <2>2
  <2>4. TypeOK'
    BY <1>2, <1>7, <2>3 DEF CasFails, TypeOK, mainVars
  <2>5. Chain(n, c)'
    BY <1>2, <1>7 DEF CasFails, Chain, Published
  <2>6. ThreadInv(n, c)'
    BY <1>2, <1>7, <2>2 DEF CasFails, ThreadInv, NewItem, TypeOK
  <2>7. MainInv(n, c)'
    BY <1>2, <1>7 DEF CasFails, mainVars, MainInv, TypeOK
  <2> QED
    BY <2>4, <2>5, <2>6, <2>7 DEF ListInv
<1>8. CASE Advance(t)
  <2>1. PICK j \in 0 .. n : cursor[t] = c[j]
    BY <1>2 DEF ThreadInv
  <2>2. j + 1 \in 1 .. n /\ next[cursor[t]] = c[j + 1]
    BY <1>2, <1>4, <1>8, <2>1 DEF Advance, ThreadInv
  <2>3. TypeOK'
    BY <1>2, <1>3, <1>8, <2>2 DEF Advance, TypeOK, mainVars
  <2>4. Chain(n, c)'
    BY <1>2, <1>8 DEF Advance, Chain, Published
  <2>5. ThreadInv(n, c)'
    BY <1>2, <1>8, <2>2 DEF Advance, ThreadInv, NewItem, TypeOK
  <2>6. MainInv(n, c)'
    BY <1>2, <1>8 DEF Advance, mainVars, MainInv, TypeOK
  <2> QED
    BY <2>3, <2>4, <2>5, <2>6 DEF ListInv
<1> QED
  BY <1>5, <1>6, <1>7, <1>8

-----------------------------------------------------------------------------
(* A successful CAS: the cursor was on the last item after all, because    *)
(* only that one has no successor, and the chain grows by the new item.    *)
LEMMA CasSucceedsIInv ==
  ASSUME TypeOK, NEW n \in Nat, NEW c \in [0 .. n -> Address], ListInv(n, c),
         NEW t \in Thread, CasSucceeds(t)
  PROVE  /\ TypeOK'
         /\ \E d \in [0 .. n + 1 -> Address] :
              /\ ListInv(n + 1, d)'
              /\ d[n + 1] = NewItem(t)
              /\ \A j \in 0 .. n : d[j] = c[j]
<1> PICK new : new = NewItem(t)
  OBVIOUS
<1> DEFINE d == [j \in 0 .. n + 1 |-> IF j = n + 1 THEN new ELSE c[j]]
<1> USE DEF Address
<1>1. Chain(n, c) /\ ThreadInv(n, c) /\ MainInv(n, c)
  BY DEF ListInv
<1>2. \A j \in 1 .. n : c[j] \in Item
  BY <1>1, ChainItems
<1>3. count[t] < K /\ next[NewItem(t)] = Null /\ expected[t] = Null
  BY <1>1 DEF CasSucceeds, ThreadInv
<1>4. /\ NewItem(t) \in Item
      /\ NewItem(t) \notin Published
      /\ NewItem(t)[1] = t
      /\ NewItem(t)[2] = count[t]
  BY <1>3, SizeAssumption DEF TypeOK, NewItem, Published, Item
<1>5. \A j \in 0 .. n : c[j] # NewItem(t)
  BY <1>1, <1>4, AddressAssumption DEF Chain
<1>6. cursor[t] = c[n]
  <2>1. PICK j \in 0 .. n : cursor[t] = c[j]
    BY <1>1 DEF ThreadInv
  <2>2. next[c[j]] = Null
    BY <1>3, <2>1 DEF CasSucceeds
  <2>3. ASSUME j # n PROVE FALSE
    <3>1. j \in 0 .. n - 1 /\ j + 1 \in 1 .. n
      BY <2>3
    <3>2. next[c[j]] = c[j + 1] /\ c[j + 1] \in Item
      BY <1>1, <1>2, <3>1 DEF Chain
    <3> QED
      BY <2>2, <3>2, AddressAssumption
  <2> QED
    BY <2>1, <2>3
<1>7. d \in [0 .. n + 1 -> Address] /\ n + 1 \in Nat
  BY <1>4
<1>8. /\ d[n + 1] = NewItem(t)
      /\ \A j \in 0 .. n : d[j] = c[j]
  OBVIOUS
<1>9. \A a \in Address : next'[a] = IF a = c[n] THEN NewItem(t) ELSE next[a]
  BY <1>6 DEF CasSucceeds, TypeOK
<1>10. next'[NewItem(t)] = Null
  BY <1>3, <1>4, <1>5, <1>9
<1>11. Published' = Published \cup {NewItem(t)}
  <2>1. \A u \in Thread : count'[u] = IF u = t THEN count[t] + 1 ELSE count[u]
    BY DEF CasSucceeds, TypeOK
  <2>2. ASSUME NEW item \in Item
        PROVE  item[2] < count'[item[1]] <=>
                 item[2] < count[item[1]] \/ item = NewItem(t)
    <3>1. item[1] \in Thread /\ item[2] \in Nat /\ item = <<item[1], item[2]>>
      BY SizeAssumption DEF Item
    <3>2. count[item[1]] \in Nat /\ count[t] \in Nat
      BY <3>1, SizeAssumption DEF TypeOK
    <3>3. item = NewItem(t) <=> item[1] = t /\ item[2] = count[t]
      BY <3>1, <1>4 DEF NewItem
    <3> QED
      BY <2>1, <3>1, <3>2, <3>3
  <2> QED
    BY <1>4, <2>2 DEF Published
<1>12. TypeOK'
  BY <1>3, <1>4, SizeAssumption DEF CasSucceeds, TypeOK, mainVars
<1>13. Chain(n + 1, d)'
  <2>1. d[0] = Sentinel
    BY <1>1, <1>8 DEF Chain
  <2>2. \A j \in 0 .. n : next'[d[j]] = d[j + 1]
    <3> SUFFICES ASSUME NEW j \in 0 .. n PROVE next'[d[j]] = d[j + 1]
      OBVIOUS
    <3>1. CASE j = n
      BY <1>8, <1>9, <3>1
    <3>2. CASE j # n
      <4>1. j \in 0 .. n - 1 /\ j + 1 \in 0 .. n
        BY <3>2
      <4>2. next[c[j]] = c[j + 1] /\ c[j] # c[n]
        BY <1>1, <4>1 DEF Chain
      <4> QED
        BY <1>8, <1>9, <4>1, <4>2
    <3> QED
      BY <3>1, <3>2
  <2>3. next'[d[n + 1]] = Null
    BY <1>8, <1>10
  <2>4. \A j, l \in 0 .. n + 1 : d[j] = d[l] => j = l
    BY <1>1, <1>5, <1>8 DEF Chain
  <2>5. \A item \in Item :
          item \in Published' <=> \E j \in 1 .. n + 1 : d[j] = item
    <3> SUFFICES ASSUME NEW item \in Item
                 PROVE  item \in Published' <=> \E j \in 1 .. n + 1 : d[j] = item
      OBVIOUS
    <3>1. item \in Published <=> \E j \in 1 .. n : c[j] = item
      BY <1>1 DEF Chain
    <3>2. (\E j \in 1 .. n + 1 : d[j] = item) <=>
            (\E j \in 1 .. n : c[j] = item) \/ item = NewItem(t)
      BY <1>8
    <3> QED
      BY <1>11, <3>1, <3>2
  <2>6. \A j, l \in 1 .. n + 1 :
          d[j][1] = d[l][1] /\ j < l => d[j][2] < d[l][2]
    <3> SUFFICES ASSUME NEW j \in 1 .. n + 1, NEW l \in 1 .. n + 1,
                        d[j][1] = d[l][1], j < l
                 PROVE  d[j][2] < d[l][2]
      OBVIOUS
    <3>1. j \in 1 .. n /\ d[j] = c[j] /\ c[j] \in Item
      BY <1>2, <1>8
    <3>2. CASE l = n + 1
      <4>1. c[j] \in Published
        BY <1>1, <3>1 DEF Chain
      <4>2. c[j][2] < count[t]
        BY <1>4, <1>8, <3>1, <3>2, <4>1 DEF Published
      <4> QED
        BY <1>4, <1>8, <3>1, <3>2, <4>2
    <3>3. CASE l # n + 1
      BY <1>1, <1>8, <3>1, <3>3 DEF Chain
    <3> QED
      BY <3>2, <3>3
  <2>7. (n + 1) - 1 = n
    OBVIOUS
  <2> HIDE DEF d
  <2> QED
    BY <2>1, <2>2, <2>3, <2>4, <2>5, <2>6, <2>7 DEF Chain
<1>14. ThreadInv(n + 1, d)'
  <2> SUFFICES ASSUME NEW u \in Thread
               PROVE  /\ \E j \in 0 .. n + 1 : cursor'[u] = d[j]
                      /\ pc'[u] \in {"cas", "advance"} =>
                           /\ count'[u] < K
                           /\ next'[NewItem(u)'] = Null
                      /\ pc'[u] = "cas" => expected'[u] = Null
                      /\ pc'[u] = "advance" => next'[cursor'[u]] # Null
                      /\ pc'[u] = "exit" => count'[u] = K
    BY DEF ThreadInv
  <2>1. \E j \in 0 .. n + 1 : cursor'[u] = d[j]
    BY <1>1, <1>8 DEF CasSucceeds, ThreadInv
  <2>2. CASE u = t
    BY <2>1, <2>2 DEF CasSucceeds, TypeOK
  <2>3. CASE u # t
    <3>1. /\ pc'[u] = pc[u] /\ expected'[u] = expected[u]
          /\ count'[u] = count[u] /\ cursor'[u] = cursor[u]
          /\ NewItem(u)' = NewItem(u)
      BY <2>3 DEF CasSucceeds, TypeOK, NewItem
    <3>2. ASSUME pc[u] \in {"cas", "advance"}
          PROVE  next'[NewItem(u)] = Null
      <4>1. count[u] < K /\ next[NewItem(u)] = Null
        BY <1>1, <3>2 DEF ThreadInv
      <4>2. NewItem(u) \in Item /\ NewItem(u) \notin Published
        BY <4>1, SizeAssumption DEF TypeOK, NewItem, Published, Item
      <4>3. NewItem(u) # c[n]
        BY <1>1, <4>2, AddressAssumption DEF Chain
      <4> QED
        BY <1>9, <4>1, <4>2, <4>3
    <3>3. ASSUME pc[u] = "advance"
          PROVE  next'[cursor[u]] # Null
      BY <1>1, <1>4, <1>9, <3>3, AddressAssumption DEF ThreadInv, TypeOK
    <3> QED
      BY <1>1, <2>1, <3>1, <3>2, <3>3 DEF ThreadInv
  <2> QED
    BY <2>2, <2>3
<1>15. MainInv(n + 1, d)'
  BY <1>1 DEF CasSucceeds, mainVars, MainInv, TypeOK
<1> QED
  BY <1>7, <1>8, <1>12, <1>13, <1>14, <1>15 DEF ListInv

-----------------------------------------------------------------------------
(* A step of main keeps the list; only the frees shorten what is readable. *)
LEMMA MainStepIInv ==
  ASSUME TypeOK, NEW n \in Nat, NEW c \in [0 .. n -> Address], ListInv(n, c),
         MainStep
  PROVE  TypeOK' /\ ListInv(n, c)'
<1> USE DEF Address, mainVars, threadVars
<1>1. Chain(n, c) /\ ThreadInv(n, c) /\ MainInv(n, c)
  BY DEF ListInv
<1>2. \A j \in 1 .. n : c[j] \in Item
  BY <1>1, ChainItems
<1>3. ASSUME UNCHANGED <<next, count>>
      PROVE  Chain(n, c)'
  BY <1>1, <1>3 DEF Chain, Published
<1>4. ASSUME UNCHANGED threadVars
      PROVE  ThreadInv(n, c)'
  BY <1>1, <1>4 DEF ThreadInv, NewItem
<1>5. CASE CreateThread
  <2>1. mainI \in Thread
    BY <1>5, SizeAssumption DEF CreateThread, TypeOK, Thread
  <2>2. TypeOK'
    BY <1>5, <2>1, SizeAssumption DEF CreateThread, TypeOK
  <2>3. ThreadInv(n, c)'
    BY <1>1, <1>5 DEF CreateThread, ThreadInv, NewItem, TypeOK
  <2>4. MainInv(n, c)'
    BY <1>1, <1>5 DEF CreateThread, MainInv
  <2>5. Chain(n, c)'
    BY <1>3, <1>5 DEF CreateThread
  <2> QED
    BY <2>2, <2>3, <2>4, <2>5 DEF ListInv
<1>6. CASE StartJoining
  <2>1. TypeOK' /\ MainInv(n, c)'
    BY <1>1, <1>6, SizeAssumption DEF StartJoining, TypeOK, MainInv, Thread
  <2> QED
    BY <1>3, <1>4, <1>6, <2>1 DEF StartJoining, ListInv
<1>7. CASE JoinThread
  <2>1. TypeOK'
    BY <1>7, SizeAssumption DEF JoinThread, TypeOK
  <2>2. \A t \in Thread : t < mainI + 1 => t < mainI \/ t = mainI
    BY DEF Thread, TypeOK
  <2>3. MainInv(n, c)'
    BY <1>1, <1>7, <2>2 DEF JoinThread, MainInv
  <2> QED
    BY <1>3, <1>4, <1>7, <2>1, <2>3 DEF JoinThread, ListInv
<1>8. CASE StartPrinting
  <2>1. head = Sentinel /\ output = <<>> /\ Len(output) = 0
    BY <1>1, <1>8 DEF StartPrinting, MainInv
  <2>2. next[Sentinel] = IF 0 < n THEN c[1] ELSE Null
    BY <1>1 DEF Chain
  <2>3. \A t \in Thread : pc[t] = "exit"
    BY <1>1, <1>8, SizeAssumption DEF StartPrinting, MainInv, Thread
  <2>4. TypeOK'
    BY <1>2, <1>8, <2>1, <2>2 DEF StartPrinting, TypeOK
  <2>5. MainInv(n, c)'
    BY <1>8, <2>1, <2>2, <2>3 DEF StartPrinting, MainInv
  <2> QED
    BY <1>3, <1>4, <1>8, <2>4, <2>5 DEF StartPrinting, ListInv
<1>9. CASE PrintItem
  <2>1. /\ \A t \in Thread : pc[t] = "exit"
        /\ Len(output) \in Nat
        /\ Len(output) < n
        /\ \A j \in 1 .. Len(output) : output[j] = c[j]
        /\ head = c[Len(output) + 1]
    BY <1>1, <1>9 DEF PrintItem, MainInv, TypeOK
  <2>2. head \in Item
    BY <1>2, <2>1
  <2>3. /\ output' \in Seq(Item)
        /\ Len(output') = Len(output) + 1
        /\ \A j \in 1 .. Len(output') :
             output'[j] = IF j = Len(output) + 1 THEN head ELSE output[j]
    BY <1>9, <2>2 DEF PrintItem, TypeOK
  <2>4. next[head] = IF Len(output) + 1 < n THEN c[Len(output) + 2] ELSE Null
    <3>1. CASE Len(output) + 1 < n
      <4>1. Len(output) + 1 \in 0 .. n - 1
        BY <2>1, <3>1
      <4>2. next[c[Len(output) + 1]] = c[(Len(output) + 1) + 1]
        BY <1>1, <4>1 DEF Chain
      <4> QED
        BY <2>1, <3>1, <4>2
    <3>2. CASE Len(output) + 1 = n
      BY <1>1, <2>1, <3>2 DEF Chain
    <3> QED
      BY <2>1, <3>1, <3>2
  <2>5. next[head] \in Address \cup {Null}
    BY <1>2, <2>1, <2>4
  <2>6. TypeOK'
    BY <1>9, <2>3, <2>5 DEF PrintItem, TypeOK
  <2>7. MainInv(n, c)'
    BY <1>9, <2>1, <2>3, <2>4 DEF PrintItem, MainInv
  <2> QED
    BY <1>3, <1>4, <1>9, <2>6, <2>7 DEF PrintItem, ListInv
<1>10. CASE Finish
  <2>1. TypeOK' /\ MainInv(n, c)'
    BY <1>1, <1>10 DEF Finish, TypeOK, MainInv
  <2> QED
    BY <1>3, <1>4, <1>10, <2>1 DEF Finish, ListInv
<1> QED
  BY <1>5, <1>6, <1>7, <1>8, <1>9, <1>10 DEF MainStep

LEMMA NextIInv == IInv /\ [Next]_vars => IInv'
<1> SUFFICES ASSUME IInv, [Next]_vars PROVE IInv'
  OBVIOUS
<1>1. TypeOK
  BY DEF IInv
<1>2. PICK n \in Nat : \E c \in [0 .. n -> Address] : ListInv(n, c)
  BY DEF IInv
<1>3. PICK c \in [0 .. n -> Address] : ListInv(n, c)
  BY <1>2
<1>4. CASE MainStep
  BY <1>1, <1>3, <1>4, MainStepIInv DEF IInv
<1>5. ASSUME NEW t \in Thread, ThreadStep(t) PROVE IInv'
  <2>1. CASE CasSucceeds(t)
    <3>1. TypeOK' /\ \E d \in [0 .. n + 1 -> Address] : ListInv(n + 1, d)'
      BY <1>1, <1>3, <2>1, CasSucceedsIInv
    <3>2. n + 1 \in Nat
      OBVIOUS
    <3> QED
      BY <3>1, <3>2 DEF IInv
  <2>2. CASE Allocate(t) \/ Return(t) \/ CasFails(t) \/ Advance(t)
    <3>1. TypeOK' /\ ListInv(n, c)'
      BY <1>1, <1>3, <2>2, ThreadStepIInv
    <3> QED
      BY <3>1 DEF IInv
  <2> QED
    BY <1>5, <2>1, <2>2 DEF ThreadStep
<1>6. CASE UNCHANGED vars
  <2>1. TypeOK' /\ Chain(n, c)' /\ ThreadInv(n, c)' /\ MainInv(n, c)'
    BY <1>1, <1>3, <1>6
    DEF vars, TypeOK, ListInv, Chain, Published, ThreadInv, NewItem, MainInv
  <2> QED
    BY <2>1 DEF IInv, ListInv
<1> QED
  BY <1>4, <1>5, <1>6 DEF Next, Terminated

-----------------------------------------------------------------------------
(* Whatever the schedule, every variable keeps to its domain: no cursor,   *)
(* pointer or null_item ever holds uninitialised memory.                   *)
THEOREM TypeCorrect == Spec => []TypeOK
<1>1. IInv => TypeOK
  BY DEF IInv
<1> QED
  BY <1>1, InitIInv, NextIInv, PTL DEF Spec

(* The list in existence form: at every moment the next pointers link the  *)
(* sentinel and each item whose CAS has succeeded, once, and end in NULL.  *)
THEOREM ListIsChain ==
  Spec => [](\E n \in Nat : \E c \in [0 .. n -> Address] : Chain(n, c))
<1>1. IInv => \E n \in Nat : \E c \in [0 .. n -> Address] : Chain(n, c)
  BY DEF IInv, ListInv
<1> QED
  BY <1>1, InitIInv, NextIInv, PTL DEF Spec

(* main has freed nothing while a thread may still follow its cursor.      *)
THEOREM NoThreadReadsFreed == Spec => []NoUseAfterFree
<1>1. IInv => NoUseAfterFree
  <2> SUFFICES ASSUME IInv, NEW t \in Thread, pc[t] # "exit"
               PROVE  cursor[t] \notin Freed
    BY DEF NoUseAfterFree
  <2>1. PICK n \in Nat : \E c \in [0 .. n -> Address] : ListInv(n, c)
    BY DEF IInv
  <2>2. PICK c \in [0 .. n -> Address] : ListInv(n, c)
    BY <2>1
  <2>3. output = <<>>
    BY <2>2 DEF ListInv, MainInv, IInv, TypeOK
  <2> QED
    BY <2>3 DEF Freed
<1> QED
  BY <1>1, InitIInv, NextIInv, PTL DEF Spec

(* k * thread_num + i numbers the items without a clash or a gap.          *)
LEMMA ValueIsUnique ==
  ASSUME NEW a \in Item, NEW b \in Item, ValueOf(a) = ValueOf(b)
  PROVE  a = b
<1>1. /\ a[1] \in Nat /\ b[1] \in Nat /\ a[2] \in 0 .. K - 1 /\ b[2] \in 0 .. K - 1
      /\ a = <<a[1], a[2]>> /\ b = <<b[1], b[2]>>
  BY SizeAssumption DEF Item, Thread
<1>2. ASSUME NEW x \in Nat, NEW y \in Nat, x < y
      PROVE  K * x + K <= K * y
  <2>1. PICK z \in Nat : y = x + 1 + z
    <3>1. y - x - 1 \in Nat /\ y = x + 1 + (y - x - 1)
      BY <1>2
    <3> QED
      BY <3>1
  <2>2. K * y = K * x + K + K * z /\ K * z \in Nat
    BY <2>1, SizeAssumption
  <2> QED
    BY <2>2, SizeAssumption
<1>3. a[1] = b[1]
  <2>1. /\ K * a[1] \in Nat /\ K * b[1] \in Nat
        /\ K * a[1] + a[2] = K * b[1] + b[2]
    BY <1>1, SizeAssumption DEF ValueOf
  <2>2. ~(a[1] < b[1])
    BY <1>1, <1>2, <2>1, SizeAssumption
  <2>3. ~(b[1] < a[1])
    BY <1>1, <1>2, <2>1, SizeAssumption
  <2> QED
    BY <1>1, <2>2, <2>3
<1> QED
  BY <1>1, <1>3, SizeAssumption DEF ValueOf

LEMMA ValueIsTaken ==
  ASSUME NEW v \in 0 .. N * K - 1
  PROVE  \E item \in Item : ValueOf(item) = v
<1>1. K \in Nat /\ N \in Nat /\ v \in Nat /\ v < N * K
  BY SizeAssumption
<1>2. K > 0
  BY <1>1
<1>3. PICK q \in Int, r \in 0 .. K - 1 : v = K * q + r
  <2>1. v \div K \in Int /\ v % K \in 0 .. K - 1 /\ v = K * (v \div K) + (v % K)
    BY <1>1, <1>2
  <2> QED
    BY <2>1
<1>4. q >= 0
  <2> SUFFICES ASSUME q <= -1 PROVE FALSE
    OBVIOUS
  <2>1. K * q <= -K
    BY <1>1, <1>2
  <2> QED
    BY <1>1, <1>3, <2>1
<1>5. q < N
  <2> SUFFICES ASSUME q >= N PROVE FALSE
    BY <1>1
  <2>1. PICK z \in Nat : q = N + z
    <3>1. q - N \in Nat /\ q = N + (q - N)
      BY <1>1
    <3> QED
      BY <3>1
  <2>2. K * q = N * K + K * z /\ K * z \in Nat /\ N * K \in Nat
    BY <1>1, <2>1
  <2> QED
    BY <1>1, <1>3, <2>2
<1>6. <<q, r>> \in Item
  BY <1>1, <1>3, <1>4, <1>5 DEF Item, Thread
<1>7. ValueOf(<<q, r>>) = v
  BY <1>3 DEF ValueOf
<1> QED
  BY <1>6, <1>7

(* When the program ends it has printed 0, ..., N*K - 1, each value once.  *)
THEOREM OutputIsComplete == Spec => []PrintsEveryValueOnce
<1>1. IInv => PrintsEveryValueOnce
  <2> SUFFICES ASSUME IInv, mainPc = "done", NEW v \in 0 .. N * K - 1
               PROVE  \E j \in DOMAIN output :
                        /\ ValueOf(output[j]) = v
                        /\ \A l \in DOMAIN output :
                             ValueOf(output[l]) = v => l = j
    BY DEF PrintsEveryValueOnce
  <2>1. PICK n \in Nat : \E c \in [0 .. n -> Address] : ListInv(n, c)
    BY DEF IInv
  <2>2. PICK c \in [0 .. n -> Address] : ListInv(n, c)
    BY <2>1
  <2>3. Chain(n, c) /\ ThreadInv(n, c) /\ MainInv(n, c)
    BY <2>2 DEF ListInv
  <2>4. \A j \in 1 .. n : c[j] \in Item
    BY <2>3, ChainItems
  <2>5. \A t \in Thread : count[t] = K
    BY <2>3 DEF ThreadInv, MainInv
  <2>6. Published = Item
    BY <2>5, SizeAssumption DEF Published, Item
  <2>7. Len(output) \in Nat /\ DOMAIN output = 1 .. Len(output)
    BY DEF IInv, TypeOK
  <2>8. Len(output) = n
    <3>1. Len(output) <= n /\ (Len(output) < n => Null = c[Len(output) + 1])
      BY <2>3 DEF MainInv
    <3>2. ASSUME Len(output) < n PROVE FALSE
      BY <2>4, <2>7, <3>1, <3>2, AddressAssumption
    <3>3. Len(output) \in Nat /\ ~(Len(output) < n)
      BY <2>7, <3>2
    <3> QED
      BY <3>1, <3>3
  <2>9. \A j \in 1 .. n : output[j] = c[j]
    BY <2>3, <2>8 DEF MainInv
  <2>10. PICK item \in Item : ValueOf(item) = v
    BY ValueIsTaken
  <2>11. PICK j \in 1 .. n : c[j] = item
    BY <2>3, <2>6 DEF Chain
  <2>12. ASSUME NEW l \in 1 .. n, ValueOf(output[l]) = v
         PROVE  l = j
    <3>1. c[l] = item
      BY <2>4, <2>9, <2>10, <2>12, ValueIsUnique
    <3> QED
      BY <2>3, <2>11, <3>1 DEF Chain
  <2> QED
    BY <2>7, <2>8, <2>9, <2>10, <2>11, <2>12
<1> QED
  BY <1>1, InitIInv, NextIInv, PTL DEF Spec

-----------------------------------------------------------------------------
(* The list as the program's own walk from the sentinel sees it.           *)

LEMMA ItemCount == IsFiniteSet(Item) /\ Cardinality(Item) = N * K
<1>1. IsFiniteSet(Thread) /\ Cardinality(Thread) = N
  BY FS_Interval, SizeAssumption DEF Thread
<1>2. IsFiniteSet(0 .. K - 1) /\ Cardinality(0 .. K - 1) = K
  BY FS_Interval, SizeAssumption
<1> QED
  BY <1>1, <1>2, FS_Product DEF Item

(* A list of more than N * K items would hold one of them twice.           *)
LEMMA ChainIsShort ==
  ASSUME NEW n \in Nat, NEW c \in [0 .. n -> Address], Chain(n, c)
  PROVE  n <= N * K
<1> DEFINE f == [j \in 1 .. n |-> c[j]]
<1>1. f \in [1 .. n -> Item]
  BY ChainItems
<1>2. \A j, l \in 1 .. n : f[j] = f[l] => j = l
  BY DEF Chain
<1>3. f \in Injection(1 .. n, Item)
  BY <1>1, <1>2 DEF Injection, IsInjective
<1>4. Cardinality(1 .. n) <= Cardinality(Item)
  BY <1>3, FS_Injection, ItemCount
<1>5. Cardinality(1 .. n) = n
  BY FS_Interval
<1> QED
  BY <1>4, <1>5, ItemCount

(* What one hop from a finds, given the hops before it.                    *)
HopsOf(g) ==
  [j \in 0 .. N * K + 1 |->
     IF j = 0 THEN Sentinel
     ELSE IF g[j - 1] = Null THEN Null ELSE next[g[j - 1]]]

(* Two functions with the equation of Hops agree: there is no least index  *)
(* at which they differ.                                                   *)
LEMMA HopsAreUnique ==
  ASSUME NEW g, NEW h, g = HopsOf(g), h = HopsOf(h)
  PROVE  g = h
<1> DEFINE Differ == {j \in 0 .. N * K + 1 : g[j] # h[j]}
<1>0. N * K \in Nat
  BY SizeAssumption
<1>1. \A j \in 0 .. N * K + 1 :
        /\ g[j] = IF j = 0 THEN Sentinel
                  ELSE IF g[j - 1] = Null THEN Null ELSE next[g[j - 1]]
        /\ h[j] = IF j = 0 THEN Sentinel
                  ELSE IF h[j - 1] = Null THEN Null ELSE next[h[j - 1]]
  BY DEF HopsOf
<1>2. /\ g = [j \in 0 .. N * K + 1 |-> g[j]]
      /\ h = [j \in 0 .. N * K + 1 |-> h[j]]
  BY DEF HopsOf
<1>3. ASSUME Differ # {} PROVE FALSE
  <2>1. Differ \subseteq Nat
    OBVIOUS
  <2>2. PICK j \in Differ : \A l \in Differ : ~(<<l, j>> \in OpToRel(<, Nat))
    BY <1>3, <2>1, NatLessThanWellFounded, WFMin
  <2>3. \A l \in 0 .. N * K + 1 : l < j => g[l] = h[l]
    <3>1. \A x, y \in Nat : x < y => <<x, y>> \in OpToRel(<, Nat)
      BY DEF OpToRel
    <3> QED
      BY <2>1, <2>2, <3>1
  <2>4. j = 0 \/ (j - 1 \in 0 .. N * K + 1 /\ j - 1 < j)
    BY <1>0
  <2>5. g[j] = h[j]
    BY <1>1, <2>3, <2>4
  <2> QED
    BY <2>5
<1> QED
  BY <1>2, <1>3

LEMMA HopsFollowChain ==
  ASSUME NEW n \in Nat, NEW c \in [0 .. n -> Address], Chain(n, c)
  PROVE  Hops = [j \in 0 .. N * K + 1 |-> IF j <= n THEN c[j] ELSE Null]
<1> DEFINE h == [j \in 0 .. N * K + 1 |-> IF j <= n THEN c[j] ELSE Null]
<1>1. n <= N * K /\ N * K \in Nat
  BY ChainIsShort, SizeAssumption
<1>2. h = HopsOf(h)
  <2> SUFFICES ASSUME NEW j \in 0 .. N * K + 1 PROVE h[j] = HopsOf(h)[j]
    BY DEF HopsOf
  <2>1. CASE j = 0
    BY <2>1 DEF HopsOf, Chain
  <2>2. CASE j \in 1 .. n
    <3>1. j - 1 \in 0 .. n - 1 /\ j - 1 \in 0 .. N * K + 1 /\ j # 0
      BY <1>1, <2>2
    <3>2. next[c[j - 1]] = c[j] /\ h[j - 1] = c[j - 1]
      BY <3>1 DEF Chain
    <3>3. c[j - 1] # Null
      BY <3>1, AddressAssumption DEF Address
    <3> QED
      BY <2>2, <3>1, <3>2, <3>3 DEF HopsOf
  <2>3. CASE j = n + 1
    <3>1. j - 1 = n /\ h[j - 1] = c[n] /\ h[j] = Null /\ j # 0
      BY <1>1, <2>3
    <3>2. next[c[n]] = Null
      BY DEF Chain
    <3> QED
      BY <3>1, <3>2 DEF HopsOf
  <2>4. CASE j > n + 1
    <3>1. j - 1 \in 0 .. N * K + 1 /\ j # 0 /\ ~(j - 1 <= n) /\ ~(j <= n)
      BY <1>1, <2>4
    <3>2. h[j - 1] = Null /\ h[j] = Null
      BY <3>1
    <3> QED
      BY <3>1, <3>2 DEF HopsOf
  <2> QED
    BY <1>1, <2>1, <2>2, <2>3, <2>4
<1> HIDE DEF h
<1>3. Hops = CHOOSE g : g = HopsOf(g)
  BY DEF Hops, HopsOf
<1>4. Hops = HopsOf(Hops)
  BY <1>2, <1>3
<1>5. Hops = h
  BY <1>2, <1>4, HopsAreUnique
<1> QED
  BY <1>5 DEF h

LEMMA WalkSeesChain ==
  ASSUME NEW n \in Nat, NEW c \in [0 .. n -> Address], Chain(n, c)
  PROVE  /\ ListLength = n
         /\ \A j \in 0 .. n : Hops[j] = c[j]
         /\ ListItems = [j \in 1 .. n |-> c[j]]
<1>1. n <= N * K /\ N * K \in Nat
  BY ChainIsShort, SizeAssumption
<1>2. Hops = [j \in 0 .. N * K + 1 |-> IF j <= n THEN c[j] ELSE Null]
  BY HopsFollowChain
<1>3. \A j \in 0 .. n : c[j] # Null
  BY AddressAssumption DEF Address
<1>4. {j \in 1 .. N * K + 1 : Hops[j] # Null} = 1 .. n
  BY <1>1, <1>2, <1>3
<1>5. ListLength = n
  <2>1. Cardinality(1 .. n) = n
    BY FS_Interval
  <2> QED
    BY <1>4, <2>1 DEF ListLength
<1>6. \A j \in 0 .. n : Hops[j] = c[j]
  BY <1>1, <1>2
<1> QED
  BY <1>5, <1>6 DEF ListItems

(* The same as a formula of the state, for use in the next state.          *)
LEMMA WalkAfterStep ==
  (\A n \in Nat : \A c \in [0 .. n -> Address] :
     Chain(n, c) => ListItems = [j \in 1 .. n |-> c[j]])'
<1>1. \A n \in Nat : \A c \in [0 .. n -> Address] :
        Chain(n, c) => ListItems = [j \in 1 .. n |-> c[j]]
  BY WalkSeesChain
<1> QED
  BY <1>1, PTL

(* No insertion is lost, duplicated or put on a cycle.                     *)
THEOREM NoInsertionIsLost == Spec => []ListIntact
<1>1. IInv => ListIntact
  <2> SUFFICES ASSUME IInv PROVE ListIntact
    OBVIOUS
  <2>1. PICK n \in Nat : \E c \in [0 .. n -> Address] : ListInv(n, c)
    BY DEF IInv
  <2>2. PICK c \in [0 .. n -> Address] : Chain(n, c)
    BY <2>1 DEF ListInv
  <2>3. ListLength = n /\ \A j \in 0 .. n : Hops[j] = c[j]
    BY <2>2, WalkSeesChain
  <2>4. Chain(n, Hops)
    BY <2>2, <2>3 DEF Chain
  <2> QED
    BY <2>3, <2>4 DEF ListIntact
<1> QED
  BY <1>1, InitIInv, NextIInv, PTL DEF Spec

-----------------------------------------------------------------------------
(* The list implements the append-only log, step by step.                  *)

(* What a thread has contributed is what its loop counter says.            *)
LEMMA ContributedIsCount ==
  ASSUME TypeOK, NEW n \in Nat, NEW c \in [0 .. n -> Address], Chain(n, c),
         NEW t \in Thread
  PROVE  Log!Contributed(t) = count[t]
<1> DEFINE S == {j \in 1 .. n : c[j][1] = t}
           f == [j \in S |-> c[j][2]]
<1>1. ListItems = [j \in 1 .. n |-> c[j]]
  BY WalkSeesChain
<1>2. Log!Contributed(t) = Cardinality(S)
  <2>1. {j \in DOMAIN ListItems : ListItems[j][1] = t} = S
    BY <1>1
  <2> QED
    BY <2>1 DEF Log!Contributed, Log!Cardinality, Cardinality
<1>3. \A j \in 1 .. n : c[j] \in Item
  BY ChainItems
<1>4. count[t] \in 0 .. K /\ K \in Nat
  BY SizeAssumption DEF TypeOK
<1>5. ASSUME NEW j \in S
      PROVE  c[j] = <<t, c[j][2]>> /\ c[j][2] \in 0 .. count[t] - 1
  <2>1. c[j] \in Item /\ c[j] \in Published /\ c[j][1] = t
    BY <1>3 DEF Chain
  <2> QED
    BY <1>4, <2>1 DEF Item, Published
<1>6. \A j, l \in S : f[j] = f[l] => j = l
  BY <1>5 DEF Chain
<1>7. ASSUME NEW i \in 0 .. count[t] - 1
      PROVE  \E j \in S : f[j] = i
  <2>1. <<t, i>> \in Item /\ <<t, i>> \in Published
    BY <1>4 DEF Item, Published
  <2>2. PICK j \in 1 .. n : c[j] = <<t, i>>
    BY <2>1 DEF Chain
  <2> QED
    BY <2>2
<1>8. f \in [S -> 0 .. count[t] - 1]
  BY <1>5
<1> HIDE DEF S
<1>9. ExistsBijection(S, 0 .. count[t] - 1)
  <2>1. f \in Injection(S, 0 .. count[t] - 1)
    BY <1>6, <1>8, Zenon DEF Injection, IsInjective
  <2>2. f \in Surjection(S, 0 .. count[t] - 1)
    BY <1>7, <1>8, Zenon DEF Surjection
  <2> QED
    BY <2>1, <2>2, Zenon DEF ExistsBijection, Bijection
<1>10. IsFiniteSet(S)
  <2>1. IsFiniteSet(1 .. n) /\ S \in SUBSET (1 .. n)
    BY FS_Interval DEF S
  <2> QED
    BY <2>1, FS_Subset
<1>11. Cardinality(0 .. count[t] - 1) = Cardinality(S)
  BY <1>9, <1>10, FS_Bijection
<1>12. Cardinality(0 .. count[t] - 1) = count[t]
  <2>1. 0 \in Int /\ count[t] - 1 \in Int /\ (0 > count[t] - 1 => count[t] = 0)
    BY <1>4
  <2>2. Cardinality(0 .. count[t] - 1) =
          IF 0 > count[t] - 1 THEN 0 ELSE (count[t] - 1) - 0 + 1
    BY <2>1, FS_Interval
  <2> QED
    BY <1>4, <2>1, <2>2
<1> QED
  BY <1>2, <1>11, <1>12

LEMMA InitOfLog == Init => Log!Init
<1> SUFFICES ASSUME Init PROVE ListItems = <<>>
  BY DEF Init, Log!Init
<1> DEFINE c == [j \in 0 .. 0 |-> Sentinel]
<1>1. c \in [0 .. 0 -> Address]
  BY DEF Address
<1>2. Published = {}
  BY SizeAssumption DEF Init, Published, Item, Thread
<1>3. Chain(0, c)
  BY <1>2, SizeAssumption DEF Init, Chain, Address
<1>4. ListItems = [j \in 1 .. 0 |-> c[j]]
  BY <1>1, <1>3, WalkSeesChain
<1> QED
  BY <1>4

(* A step that keeps the chain and the output is invisible in the log.     *)
LEMMA ChainKeptIsStutter ==
  ASSUME NEW n \in Nat, NEW c \in [0 .. n -> Address],
         Chain(n, c), Chain(n, c)', output' = output
  PROVE  UNCHANGED Log!vars
<1>1. ListItems = [j \in 1 .. n |-> c[j]]
  BY WalkSeesChain
<1>2. ListItems' = [j \in 1 .. n |-> c[j]]
  BY WalkAfterStep
<1> QED
  BY <1>1, <1>2 DEF Log!vars

(* The successful CAS is the one step that contributes.                    *)
LEMMA CasContributes ==
  ASSUME TypeOK, NEW n \in Nat, NEW c \in [0 .. n -> Address], ListInv(n, c),
         NEW t \in Thread, CasSucceeds(t)
  PROVE  Log!Contribute(t)
<1>1. Chain(n, c) /\ ThreadInv(n, c)
  BY DEF ListInv
<1>2. PICK d \in [0 .. n + 1 -> Address] :
        /\ ListInv(n + 1, d)'
        /\ d[n + 1] = NewItem(t)
        /\ \A j \in 0 .. n : d[j] = c[j]
  BY CasSucceedsIInv
<1>3. ListItems = [j \in 1 .. n |-> c[j]]
  BY <1>1, WalkSeesChain
<1>4. Chain(n + 1, d)' /\ n + 1 \in Nat
  BY <1>2 DEF ListInv
<1>5. ListItems' = [j \in 1 .. n + 1 |-> d[j]]
  BY <1>4, WalkAfterStep
<1>6. Log!Contributed(t) = count[t]
  BY <1>1, ContributedIsCount
<1>7. count[t] < K
  BY <1>1 DEF CasSucceeds, ThreadInv
<1>8. ListItems' = Append(ListItems, NewItem(t))
  <2>1. ListItems \in Seq(Address)
    BY <1>3
  <2>2. Append(ListItems, NewItem(t)) =
          [j \in 1 .. n + 1 |-> IF j = n + 1 THEN NewItem(t) ELSE c[j]]
    BY <1>3, <2>1
  <2> QED
    BY <1>2, <1>5, <2>2
<1>9. output' = output
  BY DEF CasSucceeds, mainVars
<1> QED
  BY <1>6, <1>7, <1>8, <1>9 DEF Log!Contribute, NewItem

(* Printing an item emits the next entry of a complete log.                *)
LEMMA PrintEmits ==
  ASSUME TypeOK, NEW n \in Nat, NEW c \in [0 .. n -> Address], ListInv(n, c),
         PrintItem
  PROVE  Log!Emit
<1>1. Chain(n, c) /\ ThreadInv(n, c) /\ MainInv(n, c)
  BY DEF ListInv
<1>2. ListInv(n, c)'
  BY MainStepIInv DEF MainStep
<1>3. ListItems = [j \in 1 .. n |-> c[j]] /\ Len(ListItems) = n
  BY <1>1, WalkSeesChain
<1>4. Chain(n, c)'
  BY <1>2 DEF ListInv
<1>5. ListItems' = [j \in 1 .. n |-> c[j]]
  BY <1>4, WalkAfterStep
<1>6. ASSUME NEW t \in Thread PROVE Log!Contributed(t) = K
  BY <1>1, ContributedIsCount DEF ThreadInv, MainInv, PrintItem
<1>7. Len(output) \in Nat /\ Len(output) < n /\ head = c[Len(output) + 1]
  BY <1>1 DEF MainInv, PrintItem, TypeOK
<1>8. output' = Append(output, ListItems[Len(output) + 1])
  BY <1>3, <1>7 DEF PrintItem
<1> QED
  BY <1>3, <1>5, <1>6, <1>7, <1>8 DEF Log!Emit, Log!Complete

LEMMA StepOfLog == IInv /\ [Next]_vars => [Log!Next]_(Log!vars)
<1> SUFFICES ASSUME IInv, [Next]_vars
             PROVE  Log!Next \/ UNCHANGED Log!vars
  OBVIOUS
<1>1. TypeOK
  BY DEF IInv
<1>2. PICK n \in Nat : \E c \in [0 .. n -> Address] : ListInv(n, c)
  BY DEF IInv
<1>3. PICK c \in [0 .. n -> Address] : ListInv(n, c)
  BY <1>2
<1>4. Chain(n, c)
  BY <1>3 DEF ListInv
<1>5. ASSUME NEW t \in Thread, ThreadStep(t)
      PROVE  Log!Next \/ UNCHANGED Log!vars
  <2>1. CASE CasSucceeds(t)
    BY <1>1, <1>3, <2>1, CasContributes DEF Log!Next
  <2>2. CASE Allocate(t) \/ Return(t) \/ CasFails(t) \/ Advance(t)
    <3>1. Chain(n, c)'
      BY <1>1, <1>3, <2>2, ThreadStepIInv DEF ListInv
    <3>2. output' = output
      BY <2>2 DEF Allocate, Return, CasFails, Advance, mainVars
    <3> QED
      BY <1>4, <3>1, <3>2, ChainKeptIsStutter
  <2> QED
    BY <1>5, <2>1, <2>2 DEF ThreadStep
<1>6. CASE MainStep
  <2>1. CASE PrintItem
    BY <1>1, <1>3, <2>1, PrintEmits DEF Log!Next
  <2>2. CASE ~PrintItem
    <3>1. Chain(n, c)'
      BY <1>1, <1>3, <1>6, MainStepIInv DEF ListInv
    <3>2. output' = output
      BY <1>6, <2>2
      DEF MainStep, CreateThread, StartJoining, JoinThread, StartPrinting, Finish
    <3> QED
      BY <1>4, <3>1, <3>2, ChainKeptIsStutter
  <2> QED
    BY <2>1, <2>2
<1>7. CASE UNCHANGED vars
  <2>1. Chain(n, c)' /\ output' = output
    BY <1>4, <1>7 DEF vars, Chain, Published
  <2> QED
    BY <1>4, <2>1, ChainKeptIsStutter
<1> QED
  BY <1>5, <1>6, <1>7 DEF Next, Terminated

(* Seen as ListItems, the list starts empty, and every step of the program *)
(* contributes one entry of one thread at the end of the log, emits the    *)
(* next entry of the complete log, or leaves it as it is: the safety part  *)
(* of ImplementsAppendLog.                                                 *)
THEOREM StepsOfAppendLog == Spec => Log!Init /\ [][Log!Next]_(Log!vars)
<1> QED
  BY InitOfLog, InitIInv, NextIInv, StepOfLog, PTL DEF Spec
=============================================================================
