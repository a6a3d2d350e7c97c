--------------------------- MODULE AlgorithmProofs ---------------------------
(***************************************************************************)
(* What the functions of TextAlgorithms and DataAlgorithms compute, for    *)
(* inputs of any length and numbers of any width. Each of their loops has  *)
(* an invariant, of its state and the number of iterations so far; it      *)
(* holds at the beginning and after an iteration if before, so the set of  *)
(* the numbers of iterations after which it holds contains every one up to *)
(* the last by Induction.                                                  *)
(***************************************************************************)
EXTENDS Algorithms, FiniteSetTheorems, SequenceTheorems,
        WellFoundedInduction, TLAPS

-----------------------------------------------------------------------------
(***************************************************************************)
(* Induction over the numbers up to n, as a set that contains 0 and with   *)
(* every number below n the next one; and what it says of loops and of the *)
(* powers and numbers that are defined by loops.                           *)
(***************************************************************************)
LEMMA LeastOf ==
  ASSUME NEW S \in SUBSET Nat, S # {}
  PROVE  \E k \in S : \A j \in S : k <= j
<1>1. PICK k \in S : \A j \in S : ~(<<j, k>> \in OpToRel(<, Nat))
  BY NatLessThanWellFounded, WFMin
<1>2. \A x, y \in Nat : x < y => <<x, y>> \in OpToRel(<, Nat)
  BY DEF OpToRel
<1>3. \A j \in S : ~(j < k)
  BY <1>1, <1>2
<1> QED
  BY <1>3

(* A set that holds 0, and with each number below n the next one.          *)
LEMMA Induction ==
  ASSUME NEW n \in Nat, NEW H, 0 \in H,
         \A k \in 0 .. n - 1 : k \in H => k + 1 \in H
  PROVE  \A k \in 0 .. n : k \in H
<1> SUFFICES ASSUME (0 .. n) \ H # {} PROVE FALSE
  OBVIOUS
<1> DEFINE W == (0 .. n) \ H
<1>1. PICK k \in W : \A j \in W : k <= j
  <2>1. W \subseteq Nat /\ W # {}
    OBVIOUS
  <2> HIDE DEF W
  <2> QED
    BY <2>1, LeastOf
<1>2. k # 0 /\ k - 1 \in 0 .. n - 1
  BY <1>1
<1>3. k - 1 \in H
  BY <1>1, <1>2
<1>4. (k - 1) + 1 \in H
  BY <1>2, <1>3
<1> QED
  BY <1>1, <1>2, <1>4

Closed(n, S, Body) == \A k \in 1 .. n : \A s \in S : Body[k][s] \in S
IsLoop(f, n, start, Body) ==
  f[0] = start /\ \A k \in 1 .. n : f[k] = Body[k][f[k - 1]]

LEMMA LoopExists ==
  ASSUME NEW n \in Nat, NEW S, NEW a \in S, NEW F, Closed(n, S, F)
  PROVE  \E f \in [0 .. n -> S] : IsLoop(f, n, a, F)
<1> USE DEF Closed, IsLoop
<1> DEFINE States(m) ==
      {f \in [0 .. m -> S] :
         f[0] = a /\ \A k \in 1 .. m : f[k] = F[k][f[k - 1]]}
<1> DEFINE H == {m \in 0 .. n : States(m) # {}}
<1>1. 0 \in H
  <2>1. [k \in 0 .. 0 |-> a] \in States(0)
    OBVIOUS
  <2> QED
    BY <2>1
<1>2. ASSUME NEW m \in 0 .. n - 1, m \in H PROVE m + 1 \in H
  <2>1. PICK f \in States(m) : TRUE
    BY <1>2
  <2>2. F[m + 1][f[m]] \in S
    OBVIOUS
  <2> DEFINE g == [k \in 0 .. m + 1 |->
                     IF k = m + 1 THEN F[m + 1][f[m]] ELSE f[k]]
  <2>3. g \in [0 .. m + 1 -> S] /\ g[0] = a
    BY <2>1, <2>2
  <2>4. ASSUME NEW k \in 1 .. m + 1 PROVE g[k] = F[k][g[k - 1]]
    <3>1. CASE k = m + 1
      <4>1. g[m + 1] = F[m + 1][f[m]] /\ g[m] = f[m] /\ k - 1 = m
        BY <3>1
      <4> QED
        BY <3>1, <4>1
    <3>2. CASE k # m + 1
      <4>1. k \in 1 .. m /\ k - 1 \in 0 .. m /\ k - 1 # m + 1
        BY <3>2
      <4>2. f[k] = F[k][f[k - 1]]
        BY <2>1, <4>1
      <4> QED
        BY <3>2, <4>1, <4>2
    <3> QED
      BY <3>1, <3>2
  <2>5. g \in States(m + 1)
    BY <2>3, <2>4
  <2> HIDE DEF States
  <2> QED
    BY <2>5
<1> HIDE DEF H
<1>3. \A m \in 0 .. n - 1 : m \in H => m + 1 \in H
  BY <1>2
<1>4. \A m \in 0 .. n : m \in H
  BY <1>1, <1>3, Induction, Zenon
<1>5. n \in H
  BY <1>4
<1>6. States(n) # {}
  BY <1>5 DEF H
<1>7. PICK f : f \in States(n)
  BY <1>6
<1> QED
  BY <1>6

LEMMA Loop ==
  ASSUME NEW n \in Nat, NEW S, NEW a \in S, NEW F, Closed(n, S, F)
  PROVE  After(n, a, F) \in [0 .. n -> S] /\ IsLoop(After(n, a, F), n, a, F)
<1> DEFINE Body(f) == [k \in 0 .. n |-> IF k = 0 THEN a ELSE F[k][f[k - 1]]]
<1>1. PICK f \in [0 .. n -> S] : IsLoop(f, n, a, F)
  BY LoopExists, Zenon
<1> USE DEF Closed, IsLoop
<1>2. f = Body(f)
  BY <1>1
<1>3. After(n, a, F) = CHOOSE g : g = Body(g)
  BY Zenon DEF After
<1>4. After(n, a, F) = Body(After(n, a, F))
  <2> HIDE DEF Body
  <2> QED
    BY <1>2, <1>3, Zenon
<1> PICK e : e = After(n, a, F)
  OBVIOUS
<1>5. e = Body(e)
  BY <1>4
<1>6. e[0] = a /\ \A k \in 1 .. n : e[k] = F[k][e[k - 1]]
  <2>1. \A k \in 0 .. n : e[k] = IF k = 0 THEN a ELSE F[k][e[k - 1]]
    BY <1>5
  <2> QED
    BY <2>1
<1> DEFINE H == {k \in 0 .. n : e[k] \in S}
<1>7. \A k \in 0 .. n : k \in H
  <2>1. 0 \in H
    BY <1>6
  <2>2. ASSUME NEW k \in 0 .. n - 1, k \in H PROVE k + 1 \in H
    <3>1. e[k + 1] = F[k + 1][e[k]]
      BY <1>6
    <3> QED
      BY <2>2, <3>1
  <2> HIDE DEF H
  <2> QED
    BY <2>1, <2>2, Induction
<1>8. e \in [0 .. n -> S]
  BY <1>5, <1>7
<1> QED
  BY <1>6, <1>8

(* What two loops of the same beginning have in common.                    *)
LEMMA SameLoop ==
  ASSUME NEW n \in Nat, NEW m \in 0 .. n, NEW a, NEW F, NEW G, NEW f, NEW g,
         IsLoop(f, n, a, F), IsLoop(g, m, a, G), \A k \in 1 .. m : F[k] = G[k]
  PROVE  \A k \in 0 .. m : f[k] = g[k]
<1> USE DEF IsLoop
<1> DEFINE H == {k \in 0 .. m : f[k] = g[k]}
<1>5. 0 \in H
  OBVIOUS
<1>6. ASSUME NEW k \in 0 .. m - 1, k \in H PROVE k + 1 \in H
  <2>1. k + 1 \in 1 .. m /\ k + 1 \in 1 .. n /\ (k + 1) - 1 = k /\ f[k] = g[k]
    BY <1>6
  <2>2. f[k + 1] = F[k + 1][f[k]] /\ g[k + 1] = G[k + 1][g[k]]
    BY <2>1
  <2> QED
    BY <2>1, <2>2
<1>7. \A k \in 0 .. m - 1 : k \in H => k + 1 \in H
  BY <1>6
<1> HIDE DEF H
<1>8. \A k \in 0 .. m : k \in H
  <2>1. m \in Nat
    OBVIOUS
  <2> QED
    BY <1>5, <1>7, <2>1, Induction, Zenon
<1> QED
  BY <1>8 DEF H

(* One iteration more.                                                     *)
LEMMA LoopGrows ==
  ASSUME NEW n \in Nat, NEW S, NEW a \in S,
         NEW F, Closed(n + 1, S, F), NEW G, Closed(n, S, G),
         \A k \in 1 .. n : F[k] = G[k]
  PROVE  /\ After(n, a, G)[n] \in S
         /\ After(n + 1, a, F)[n + 1] = F[n + 1][After(n, a, G)[n]]
<1>1. /\ n + 1 \in Nat /\ n \in 0 .. n + 1 /\ n \in 0 .. n
      /\ n + 1 \in 1 .. n + 1 /\ (n + 1) - 1 = n
  OBVIOUS
<1>2. PICK f : f = After(n + 1, a, F)
  OBVIOUS
<1>3. PICK g : g = After(n, a, G)
  OBVIOUS
<1>4. IsLoop(f, n + 1, a, F)
  BY <1>1, <1>2, Loop, Zenon
<1>5. g \in [0 .. n -> S] /\ IsLoop(g, n, a, G)
  BY <1>3, Loop, Zenon
<1>6. \A k \in 0 .. n : f[k] = g[k]
  BY <1>1, <1>4, <1>5, SameLoop
<1>7. f[n + 1] = F[n + 1][f[n]]
  BY <1>1, <1>4 DEF IsLoop
<1> QED
  BY <1>1, <1>2, <1>3, <1>5, <1>6, <1>7

LEMMA LoopBegins ==
  ASSUME NEW S, NEW a \in S, NEW F, Closed(0, S, F)
  PROVE  After(0, a, F)[0] = a
<1>1. IsLoop(After(0, a, F), 0, a, F)
  BY 0 \in Nat, Loop, Zenon
<1> QED
  BY <1>1 DEF IsLoop
(* Powers.                                                                 *)
LEMMA PowerLaw ==
  ASSUME NEW b \in Nat, NEW n \in Nat
  PROVE  /\ Power(b, n) \in Nat
         /\ Power(b, 0) = 1
         /\ Power(b, n + 1) = b * Power(b, n)
<1> DEFINE F(m) == [k \in 1 .. m |-> [power \in Nat |-> b * power]]
<1> DEFINE f(m) == After(m, 1, F(m))
<1>1. \A m \in Nat : Closed(m, Nat, F(m))
  BY DEF Closed
<1>2. \A m : Power(b, m) = f(m)[m]
  BY Zenon DEF Power
<1>3. \A k \in 1 .. n : F(n + 1)[k] = F(n)[k]
  OBVIOUS
<1>4. \A power \in Nat : F(n + 1)[n + 1][power] = b * power
  OBVIOUS
<1> HIDE DEF F
<1>5. \A m \in Nat : f(m) \in [0 .. m -> Nat] /\ IsLoop(f(m), m, 1, F(m))
  <2>1. 1 \in Nat
    OBVIOUS
  <2> QED
    BY <1>1, <2>1, Loop, Zenon
<1>6. n + 1 \in Nat /\ n \in 0 .. n + 1 /\ n \in 0 .. n /\ 1 \in Nat
  OBVIOUS
<1>7. f(n + 1)[n] = f(n)[n]
  <2>1. IsLoop(f(n + 1), n + 1, 1, F(n + 1)) /\ IsLoop(f(n), n, 1, F(n))
    BY <1>5, <1>6, Zenon
  <2> HIDE DEF f
  <2>2. \A k \in 0 .. n : f(n + 1)[k] = f(n)[k]
    BY <1>3, <1>6, <2>1, SameLoop
  <2> QED
    BY <1>6, <2>2
<1> HIDE DEF f
<1>8. f(0)[0] = 1 /\ f(n + 1)[n + 1] = F(n + 1)[n + 1][f(n + 1)[n]]
  <2>1. IsLoop(f(0), 0, 1, F(0)) /\ IsLoop(f(n + 1), n + 1, 1, F(n + 1))
    BY <1>5
  <2> QED
    BY <2>1 DEF IsLoop
<1>9. f(n)[n] \in Nat
  BY <1>5
<1> QED
  BY <1>2, <1>4, <1>7, <1>8, <1>9

(* Quotient and remainder.                                                 *)
LEMMA DivMod ==
  ASSUME NEW d \in Nat, NEW q \in Int, NEW r \in Nat, r < d
  PROVE  (d * q + r) \div d = q /\ (d * q + r) % d = r
<1>1. PICK a \in Int : a = d * q + r
  OBVIOUS
<1>2. PICK p \in Int : p = a \div d
  OBVIOUS
<1>3. PICK s \in Int : s = a % d
  OBVIOUS
<1>4. a = d * p + s /\ 0 <= s /\ s < d
  BY <1>2, <1>3
<1>5. p = q
  <2>1. CASE p > q
    <3>1. d * (p - q) >= d
      BY <2>1
    <3>2. d * (p - q) = r - s
      BY <1>1, <1>4
    <3> QED
      BY <1>4, <3>1, <3>2
  <2>2. CASE p < q
    <3>1. d * (q - p) >= d
      BY <2>2
    <3>2. d * (q - p) = s - r
      BY <1>1, <1>4
    <3> QED
      BY <1>4, <3>1, <3>2
  <2> QED
    BY <2>1, <2>2
<1> QED
  BY <1>1, <1>2, <1>3, <1>4, <1>5

LEMMA Divided ==
  ASSUME NEW d \in Nat, d > 0, NEW a \in Nat
  PROVE  /\ a \div d \in Nat /\ a % d \in Nat /\ a % d < d
         /\ a = d * (a \div d) + (a % d)
OBVIOUS

LEMMA PowerType ==
  ASSUME NEW b \in Nat, NEW n \in Nat
  PROVE  Power(b, n) \in Nat
  BY PowerLaw

LEMMA PowerPositive ==
  ASSUME NEW b \in Nat, b > 0, NEW n \in Nat
  PROVE  Power(b, n) \in Nat /\ Power(b, n) > 0
<1> DEFINE H == {k \in 0 .. n : Power(b, k) > 0}
<1>1. 0 \in H
  <2>1. Power(b, 0) = 1
    BY PowerLaw
  <2> QED
    BY <2>1
<1>2. ASSUME NEW k \in 0 .. n - 1, k \in H PROVE k + 1 \in H
  <2>1. PICK p \in Nat : p = Power(b, k)
    BY PowerLaw
  <2>2. Power(b, k + 1) = b * p
    BY <2>1, PowerLaw
  <2>3. p > 0
    BY <1>2, <2>1
  <2>4. b * p > 0
    BY <2>3
  <2> QED
    BY <2>2, <2>4
<1>3. \A k \in 0 .. n - 1 : k \in H => k + 1 \in H
  BY <1>2
<1> HIDE DEF H
<1>4. \A k \in 0 .. n : k \in H
  BY <1>1, <1>3, Induction, Zenon
<1> QED
  BY <1>4, PowerLaw DEF H

LEMMA PowerSum ==
  ASSUME NEW b \in Nat, NEW m \in Nat, NEW n \in Nat
  PROVE  Power(b, m + n) = Power(b, m) * Power(b, n)
<1>1. PICK q \in Nat : q = Power(b, m)
  BY PowerLaw
<1> DEFINE H == {k \in 0 .. n : Power(b, m + k) = q * Power(b, k)}
<1>2. 0 \in H
  <2>1. Power(b, 0) = 1 /\ m + 0 = m
    BY PowerLaw
  <2> QED
    BY <1>1, <2>1
<1>3. ASSUME NEW k \in 0 .. n - 1, k \in H PROVE k + 1 \in H
  <2>1. PICK p \in Nat : p = Power(b, k)
    BY PowerLaw
  <2>2. Power(b, k + 1) = b * p
    BY <2>1, PowerLaw
  <2>3. Power(b, m + k) = q * p
    BY <1>3, <2>1
  <2>4. m + k \in Nat /\ m + (k + 1) = (m + k) + 1
    OBVIOUS
  <2>5. Power(b, (m + k) + 1) = b * (q * p)
    BY <2>3, <2>4, PowerLaw
  <2>6. b * (q * p) = q * (b * p)
    OBVIOUS
  <2> QED
    BY <2>2, <2>4, <2>5, <2>6
<1>4. \A k \in 0 .. n - 1 : k \in H => k + 1 \in H
  BY <1>3
<1> HIDE DEF H
<1>5. \A k \in 0 .. n : k \in H
  BY <1>2, <1>4, Induction, Zenon
<1> QED
  BY <1>1, <1>5 DEF H

LEMMA PowerGrows ==
  ASSUME NEW b \in Nat, b > 0, NEW n \in Nat, NEW m \in 0 .. n
  PROVE  Power(b, m) <= Power(b, n)
<1>1. PICK d \in Nat : n = m + d
  BY n - m \in Nat
<1>2. PICK p \in Nat : p = Power(b, m)
  BY PowerLaw
<1>3. PICK q \in Nat : q = Power(b, d) /\ q > 0
  BY PowerPositive
<1>4. Power(b, n) = p * q
  BY <1>1, <1>2, <1>3, PowerSum
<1>5. p * q >= p
  BY <1>3
<1> QED
  BY <1>2, <1>4, <1>5

(* A number with n digits to the base b, as the loop over them grows it.   *)
LEMMA ValueGrows ==
  ASSUME NEW b \in Nat, NEW d \in Seq(Nat)
  PROVE  \E v \in [0 .. Len(d) -> Nat] :
           /\ v[0] = 0
           /\ \A k \in 1 .. Len(d) : v[k] = b * v[k - 1] + d[k]
           /\ Value(b, d) = v[Len(d)]
<1>1. PICK n \in Nat : n = Len(d)
  OBVIOUS
<1> DEFINE F == [k \in 1 .. n |-> [value \in Nat |-> b * value + d[k]]]
<1>2. \A k \in 1 .. n : \A value \in Nat : F[k][value] = b * value + d[k]
  OBVIOUS
<1>3. Closed(n, Nat, F)
  BY <1>1, <1>2 DEF Closed
<1>4. Value(b, d) = After(n, 0, F)[n]
  BY <1>1, Zenon DEF Value
<1> HIDE DEF F
<1>5. PICK v \in [0 .. n -> Nat] : v = After(n, 0, F) /\ IsLoop(v, n, 0, F)
  <2>1. 0 \in Nat
    OBVIOUS
  <2> QED
    BY <1>3, <2>1, Loop, Zenon
<1>6. v[0] = 0 /\ \A k \in 1 .. n : v[k] = b * v[k - 1] + d[k]
  <2>1. v[0] = 0 /\ \A k \in 1 .. n : v[k] = F[k][v[k - 1]]
    BY <1>5 DEF IsLoop
  <2>2. ASSUME NEW k \in 1 .. n PROVE v[k] = b * v[k - 1] + d[k]
    <3>1. v[k - 1] \in Nat
      OBVIOUS
    <3> QED
      BY <1>2, <2>1, <3>1
  <2> QED
    BY <2>1, <2>2
<1> QED
  BY <1>1, <1>4, <1>5, <1>6

(* Beginnings of a sequence.                                               *)
LEMMA Prefixes ==
  ASSUME NEW S, NEW s \in Seq(S)
  PROVE  /\ SubSeq(s, 1, 0) = <<>>
         /\ SubSeq(s, 1, Len(s)) = s
         /\ \A k \in 0 .. Len(s) :
              SubSeq(s, 1, k) \in Seq(S) /\ Len(SubSeq(s, 1, k)) = k
         /\ \A k \in 0 .. Len(s) - 1 :
              /\ s[k + 1] \in S
              /\ SubSeq(s, 1, k + 1) = Append(SubSeq(s, 1, k), s[k + 1])
<1>1. SubSeq(s, 1, 0) = <<>> /\ SubSeq(s, 1, Len(s)) = s
  OBVIOUS
<1>2. ASSUME NEW k \in 0 .. Len(s)
      PROVE  SubSeq(s, 1, k) \in Seq(S) /\ Len(SubSeq(s, 1, k)) = k
  BY SubSeqProperties
<1>3. ASSUME NEW k \in 0 .. Len(s) - 1
      PROVE  /\ s[k + 1] \in S
             /\ SubSeq(s, 1, k + 1) = Append(SubSeq(s, 1, k), s[k + 1])
  OBVIOUS
<1> QED
  BY <1>1, <1>2, <1>3

-----------------------------------------------------------------------------
(***************************************************************************)
(* Parts of sequences, and bits as numbers.                                *)
(***************************************************************************)
(* A part of a sequence.                                                   *)
IsPart(x, s, k, n) == Len(x) = n /\ \A i \in 1 .. n : x[i] = s[k + i]

LEMMA PartOf ==
  ASSUME NEW S, NEW s \in Seq(S), NEW k \in Nat, NEW n \in Nat, k + n <= Len(s)
  PROVE  /\ SubSeq(s, k + 1, k + n) \in Seq(S)
         /\ IsPart(SubSeq(s, k + 1, k + n), s, k, n)
<1>1. k + 1 \in Int /\ k + n \in Int /\ \A i \in k + 1 .. k + n : s[i] \in S
  OBVIOUS
<1>2. /\ SubSeq(s, k + 1, k + n) \in Seq(S)
      /\ Len(SubSeq(s, k + 1, k + n))
           = IF k + 1 <= k + n THEN (k + n) - (k + 1) + 1 ELSE 0
      /\ \A i \in 1 .. (k + n) - (k + 1) + 1 :
            SubSeq(s, k + 1, k + n)[i] = s[(k + 1) + i - 1]
  BY <1>1, SubSeqProperties
<1>3. (k + n) - (k + 1) + 1 = n /\ \A i \in Int : (k + 1) + i - 1 = k + i
  OBVIOUS
<1> QED
  BY <1>2, <1>3 DEF IsPart

LEMMA BeginningOf ==
  ASSUME NEW S, NEW s \in Seq(S), NEW n \in Nat, n <= Len(s)
  PROVE  /\ SubSeq(s, 1, n) \in Seq(S)
         /\ Len(SubSeq(s, 1, n)) = n
         /\ \A i \in 1 .. n : SubSeq(s, 1, n)[i] = s[i]
<1>1. 0 \in Nat /\ 0 + n <= Len(s) /\ 0 + 1 = 1 /\ 0 + n = n
  OBVIOUS
<1>2. /\ SubSeq(s, 0 + 1, 0 + n) \in Seq(S)
      /\ IsPart(SubSeq(s, 0 + 1, 0 + n), s, 0, n)
  BY <1>1, PartOf, Zenon
<1>3. \A i \in 1 .. n : 0 + i = i
  OBVIOUS
<1> QED
  BY <1>1, <1>2, <1>3 DEF IsPart

(* The number that bits are, as a loop grows it.                           *)
Grows(v, s, n) ==
  /\ v \in [0 .. n -> Nat] /\ v[0] = 0 /\ v[n] = Value(2, s)
  /\ \A k \in 0 .. n - 1 : v[k + 1] = 2 * v[k] + s[k + 1]

LEMMA BitsGrow ==
  ASSUME NEW s \in Seq(Nat), NEW n \in Nat, n = Len(s)
  PROVE  \E v : Grows(v, s, n)
<1>1. PICK v \in [0 .. n -> Nat] :
        /\ v[0] = 0
        /\ \A k \in 1 .. n : v[k] = 2 * v[k - 1] + s[k]
        /\ Value(2, s) = v[n]
  BY ValueGrows
<1>2. ASSUME NEW k \in 0 .. n - 1 PROVE v[k + 1] = 2 * v[k] + s[k + 1]
  <2>1. k + 1 \in 1 .. n /\ (k + 1) - 1 = k
    OBVIOUS
  <2> QED
    BY <1>1, <2>1
<1>3. Grows(v, s, n)
  BY <1>1, <1>2 DEF Grows
<1> QED
  BY <1>3

(* Bits and the number that they are.                                      *)
LEMMA BitsValue ==
  ASSUME NEW s \in Seq(0 .. 1), NEW n \in Nat, n = Len(s)
  PROVE  /\ Value(2, s) \in Nat /\ Value(2, s) < Power(2, n)
         /\ Value(2, s) = 0 <=> \A k \in 1 .. n : s[k] = 0
         /\ Value(2, s) = Power(2, n) - 1 <=> \A k \in 1 .. n : s[k] = 1
<1>1. s \in Seq(Nat) /\ \A k \in 1 .. n : s[k] \in 0 .. 1
  OBVIOUS
<1>2. PICK v \in [0 .. n -> Nat] :
        /\ v[0] = 0 /\ v[n] = Value(2, s)
        /\ \A k \in 0 .. n - 1 : v[k + 1] = 2 * v[k] + s[k + 1]
  BY <1>1, BitsGrow DEF Grows
<1>9. \A i \in Nat : Power(2, i) \in Nat
  BY PowerType
<1> DEFINE Zeros(k) == \A i \in 1 .. k : s[i] = 0
           Ones(k) == \A i \in 1 .. k : s[i] = 1
           H == {k \in 0 .. n : /\ v[k] < Power(2, k)
                                /\ v[k] = 0 <=> Zeros(k)
                                /\ v[k] = Power(2, k) - 1 <=> Ones(k)}
<1>3. 0 \in H
  <2>1. Power(2, 0) = 1
    BY PowerLaw
  <2> QED
    BY <1>2, <2>1
<1>4. ASSUME NEW k \in 0 .. n - 1, k \in H PROVE k + 1 \in H
  <2>1. PICK x \in Nat, p \in Nat, d \in 0 .. 1 :
          x = v[k] /\ p = Power(2, k) /\ d = s[k + 1]
    <3>1. PICK p : p = Power(2, k) /\ p \in Nat
      BY <1>9, k \in Nat, Zenon
    <3>2. v[k] \in Nat /\ s[k + 1] \in 0 .. 1
      BY <1>1
    <3> QED
      BY <3>1, <3>2
  <2>2. v[k + 1] = 2 * x + d /\ Power(2, k + 1) = 2 * p
    BY <1>2, <2>1, PowerLaw
  <2>3. x < p /\ (x = 0 <=> Zeros(k)) /\ (x = p - 1 <=> Ones(k))
    BY <1>4, <2>1
  <2>4. /\ Zeros(k + 1) <=> Zeros(k) /\ d = 0
        /\ Ones(k + 1) <=> Ones(k) /\ d = 1
    <3>1. \A i : i \in 1 .. k + 1 <=> i \in 1 .. k \/ i = k + 1
      OBVIOUS
    <3> QED
      BY <2>1, <3>1, Zenon
  <2> HIDE DEF Zeros, Ones
  <2>5. /\ 2 * x + d < 2 * p
        /\ 2 * x + d = 0 <=> x = 0 /\ d = 0
        /\ 2 * x + d = 2 * p - 1 <=> x = p - 1 /\ d = 1
    BY <2>3
  <2> QED
    BY <2>2, <2>3, <2>4, <2>5
<1>5. \A k \in 0 .. n - 1 : k \in H => k + 1 \in H
  BY <1>4
<1>6. n \in H
  <2>1. n \in 0 .. n
    OBVIOUS
  <2> HIDE DEF H
  <2> QED
    BY <1>3, <1>5, <2>1, Induction, Zenon
<1> QED
  BY <1>2, <1>6

LEMMA ValueSplit ==
  ASSUME NEW s \in Seq(Nat), NEW k \in Nat, NEW n \in Nat, Len(s) = k + n
  PROVE  Value(2, s) = Value(2, SubSeq(s, 1, k)) * Power(2, n)
                         + Value(2, SubSeq(s, k + 1, k + n))
<1>1. PICK x \in Seq(Nat) : /\ x = SubSeq(s, 1, k) /\ Len(x) = k
                            /\ \A i \in 1 .. k : x[i] = s[i]
  <2>1. /\ SubSeq(s, 1, k) \in Seq(Nat) /\ Len(SubSeq(s, 1, k)) = k
        /\ \A i \in 1 .. k : SubSeq(s, 1, k)[i] = s[i]
    BY k <= Len(s), BeginningOf, Zenon
  <2> QED
    BY <2>1, Zenon
<1>2. PICK y \in Seq(Nat) : /\ y = SubSeq(s, k + 1, k + n) /\ Len(y) = n
                            /\ \A i \in 1 .. n : y[i] = s[k + i]
  <2>1. /\ SubSeq(s, k + 1, k + n) \in Seq(Nat)
        /\ IsPart(SubSeq(s, k + 1, k + n), s, k, n)
    BY k + n <= Len(s), PartOf, Zenon
  <2> QED
    BY <2>1, Zenon DEF IsPart
<1>3. PICK v : Grows(v, s, k + n)
  BY k + n \in Nat, BitsGrow
<1>4. PICK u : Grows(u, x, k)
  BY <1>1, BitsGrow
<1>5. PICK t : Grows(t, y, n)
  BY <1>2, BitsGrow
<1> USE DEF Grows
<1>9. \A i \in Nat : Power(2, i) \in Nat
  BY PowerType
<1> DEFINE G == {i \in 0 .. k : u[i] = v[i]}
<1>6. k \in G
  <2>1. 0 \in G
    BY <1>3, <1>4
  <2>2. ASSUME NEW i \in 0 .. k - 1, i \in G PROVE i + 1 \in G
    <3>1. i \in 0 .. k + n - 1 /\ u[i] = v[i] /\ i + 1 \in 1 .. k
      BY <2>2
    <3>2. u[i + 1] = 2 * u[i] + x[i + 1] /\ v[i + 1] = 2 * v[i] + s[i + 1]
      BY <1>3, <1>4, <3>1
    <3> QED
      BY <1>1, <3>1, <3>2
  <2>3. \A i \in 0 .. k - 1 : i \in G => i + 1 \in G
    BY <2>2
  <2>4. k \in 0 .. k
    OBVIOUS
  <2> HIDE DEF G
  <2> QED
    BY <2>1, <2>3, <2>4, Induction, Zenon
<1>7. PICK a \in Nat : a = v[k] /\ a = u[k]
  <2>1. v[k] \in Nat
    BY <1>3, k \in 0 .. k + n
  <2> QED
    BY <1>6, <2>1
<1> DEFINE H == {i \in 0 .. n : v[k + i] = a * Power(2, i) + t[i]}
<1>8. n \in H
  <2>1. 0 \in H
    <3>1. Power(2, 0) = 1 /\ k + 0 = k /\ a * 1 + 0 = a
      BY PowerLaw
    <3>2. t[0] = 0 /\ 0 \in 0 .. n
      BY <1>5
    <3> QED
      BY <1>7, <3>1, <3>2
  <2>2. ASSUME NEW i \in 0 .. n - 1, i \in H PROVE i + 1 \in H
    <3>1. PICK p \in Nat, z \in Nat, d \in Nat :
            p = Power(2, i) /\ z = t[i] /\ d = y[i + 1]
      <4>1. PICK p : p = Power(2, i) /\ p \in Nat
        BY <1>9, i \in Nat, Zenon
      <4>2. t[i] \in Nat /\ y[i + 1] \in Nat
        <5>1. i \in 0 .. n /\ i + 1 \in 1 .. n
          OBVIOUS
        <5>2. t[i] \in Nat
          BY <1>5, <5>1
        <5> QED
          BY <1>2, <5>1, <5>2
      <4> QED
        BY <4>1, <4>2
    <3>2. Power(2, i + 1) = 2 * p /\ t[i + 1] = 2 * z + d
      BY <1>5, <3>1, PowerLaw
    <3>3. v[k + i] = a * p + z
      BY <2>2, <3>1
    <3>4. v[k + (i + 1)] = 2 * (a * p + z) + d
      <4>1. k + i \in 0 .. k + n - 1 /\ k + (i + 1) = (k + i) + 1
        OBVIOUS
      <4>2. s[k + (i + 1)] = d
        BY <1>2, <3>1
      <4> QED
        BY <1>3, <3>3, <4>1, <4>2
    <3>5. 2 * (a * p + z) + d = a * (2 * p) + (2 * z + d)
      OBVIOUS
    <3> QED
      BY <3>2, <3>4, <3>5
  <2>3. \A i \in 0 .. n - 1 : i \in H => i + 1 \in H
    BY <2>2
  <2>4. n \in 0 .. n
    OBVIOUS
  <2> HIDE DEF H
  <2> QED
    BY <2>1, <2>3, <2>4, Induction, Zenon
<1> QED
  BY <1>1, <1>2, <1>3, <1>4, <1>5, <1>7, <1>8

LEMMA FirstBit ==
  ASSUME NEW s \in Seq(0 .. 1), NEW n \in Nat, Len(s) = 1 + n
  PROVE  /\ Value(2, s) = s[1] * Power(2, n) + Value(2, SubSeq(s, 2, 1 + n))
         /\ s[1] \in 0 .. 1 /\ SubSeq(s, 2, 1 + n) \in Seq(0 .. 1)
         /\ Len(SubSeq(s, 2, 1 + n)) = n
<1>4. s \in Seq(Nat) /\ 1 \in Nat
  OBVIOUS
<1>1. PICK x \in Seq(Nat) : x = SubSeq(s, 1, 1) /\ Len(x) = 1 /\ x[1] = s[1]
  <2>1. 1 <= Len(s) /\ 1 \in 1 .. 1
    OBVIOUS
  <2>2. /\ SubSeq(s, 1, 1) \in Seq(Nat) /\ Len(SubSeq(s, 1, 1)) = 1
        /\ \A i \in 1 .. 1 : SubSeq(s, 1, 1)[i] = s[i]
    BY <1>4, <2>1, BeginningOf, Zenon
  <2> QED
    BY <2>1, <2>2, Zenon
<1>2. PICK v : Grows(v, x, 1)
  BY <1>1, <1>4, BitsGrow
<1>3. v[1] = s[1] /\ s[1] \in 0 .. 1
  <2>1. v[0] = 0 /\ v[0 + 1] = 2 * v[0] + x[0 + 1]
    BY <1>2, 0 \in 0 .. 1 - 1 DEF Grows
  <2> QED
    BY <1>1, <2>1
<1>5. Value(2, s) = Value(2, SubSeq(s, 1, 1)) * Power(2, n)
                      + Value(2, SubSeq(s, 1 + 1, 1 + n))
  BY <1>4, ValueSplit, Zenon
<1>6. SubSeq(s, 2, 1 + n) \in Seq(0 .. 1) /\ Len(SubSeq(s, 2, 1 + n)) = n
  <2>1. 1 + 1 = 2 /\ 1 + n <= Len(s)
    OBVIOUS
  <2> QED
    BY <1>4, <2>1, PartOf DEF IsPart
<1> QED
  BY <1>1, <1>2, <1>3, <1>5, <1>6 DEF Grows

-----------------------------------------------------------------------------
(***************************************************************************)
(* Minima and maxima, and the two programs that are little else.           *)
(***************************************************************************)
(* The least and the largest element of a set.                             *)
LEMMA MinIs ==
  ASSUME NEW S \in SUBSET Int, NEW m \in S, \A x \in S : m <= x
  PROVE  Min(S) = m
<1> DEFINE P(x) == x \in S /\ \A y \in S : x <= y
<1>1. Min(S) = CHOOSE x : P(x)
  BY Zenon DEF Min
<1>2. P(m)
  OBVIOUS
<1>3. PICK y : y = Min(S)
  OBVIOUS
<1>4. P(y)
  BY <1>1, <1>2, <1>3, Zenon
<1>5. y = m
  BY <1>4
<1> QED
  BY <1>3, <1>5

LEMMA MaxIs ==
  ASSUME NEW S \in SUBSET Int, NEW m \in S, \A x \in S : m >= x
  PROVE  Max(S) = m
<1> DEFINE P(x) == x \in S /\ \A y \in S : x >= y
<1>1. Max(S) = CHOOSE x : P(x)
  BY Zenon DEF Max
<1>2. P(m)
  OBVIOUS
<1>3. PICK y : y = Max(S)
  OBVIOUS
<1>4. P(y)
  BY <1>1, <1>2, <1>3, Zenon
<1>5. y = m
  BY <1>4
<1> QED
  BY <1>3, <1>5

LEMMA MaxOfTwo ==
  ASSUME NEW a \in Int, NEW b \in Int
  PROVE  Max({a, b}) = IF a >= b THEN a ELSE b
<1> DEFINE S == {a, b}
<1>1. PICK m \in Int : m = IF a >= b THEN a ELSE b
  OBVIOUS
<1>2. S \in SUBSET Int /\ m \in S /\ \A x \in S : m >= x
  BY <1>1
<1>3. Max(S) = m
  <2> HIDE DEF S
  <2> QED
    BY <1>2, MaxIs
<1> QED
  BY <1>1, <1>3

(* inf01-2: comparing the sum with its operands finds every overflow, for  *)
(* integers of any width.                                                  *)
THEOREM SatsumIsMin ==
  ASSUME NEW w \in Nat,
         NEW x \in 0 .. Power(2, w) - 1, NEW y \in 0 .. Power(2, w) - 1
  PROVE  satsum(x, y, w) = Min({x + y, Power(2, w) - 1})
<1>1. PICK m \in Nat : m = Power(2, w) /\ m > 0
  BY PowerPositive
<1>2. x \in 0 .. m - 1 /\ y \in 0 .. m - 1
  BY <1>1
<1>3. CASE x + y < m
  <2>1. (x + y) % m = x + y
    BY <1>2, <1>3
  <2>2. Min({x + y, m - 1}) = x + y
    BY <1>2, <1>3, MinIs
  <2> QED
    BY <1>1, <1>2, <2>1, <2>2 DEF satsum
<1>4. CASE x + y >= m
  <2>1. (x + y) % m = x + y - m
    <3>1. PICK r \in Nat : r = x + y - m /\ r < m
      BY <1>2, <1>4
    <3>2. (m * 1 + r) % m = r
      BY <1>1, <3>1, DivMod
    <3>3. m * 1 + r = x + y
      BY <1>2, <3>1
    <3> QED
      BY <3>1, <3>2, <3>3
  <2>2. Min({x + y, m - 1}) = m - 1
    BY <1>2, <1>4, MinIs
  <2> QED
    BY <1>1, <1>2, <1>4, <2>1, <2>2 DEF satsum
<1> QED
  BY <1>2, <1>3, <1>4
(* Another digit.                                                          *)
LEMMA DigitAppended ==
  ASSUME NEW p \in Nat, NEW y \in Nat, NEW d \in 0 .. 15,
         p <= y, y < 16 * p
  PROVE  16 * p <= 16 * y + d /\ 16 * y + d < 16 * (16 * p)
OBVIOUS

(* Bounds of bounds.                                                       *)
LEMMA Between ==
  ASSUME NEW low, NEW high, NEW lower \in Int, NEW upper \in Int, NEW y \in Int,
         low = lower, high = upper,
         NEW a \in Int, NEW b \in Int,
         lower <= a, a <= y, y < b, b <= upper
  PROVE  y < high /\ y >= low
OBVIOUS

(* inf01-3: half of what ans counts is the number of bytes that the number *)
(* fits into and no smaller one does, for any hexadecimal digits, leading  *)
(* zeros and a number of only zeros included.                              *)
THEOREM MinBytesSuffice ==
  ASSUME NEW digits \in Seq(0 .. 15)
  PROVE  LET bytes == min_bytes(digits)
         IN  /\ bytes \in Nat \ {0}
             /\ Value(16, digits) < Power(256, bytes)
             /\ bytes = 1 \/ Value(16, digits) >= Power(256, bytes - 1)
<1>1. PICK n \in Nat : n = Len(digits)
  OBVIOUS
<1>2. digits \in Seq(Nat) /\ \A k \in 1 .. n : digits[k] \in 0 .. 15
  BY <1>1
<1>3. PICK v \in [0 .. n -> Nat] :
        /\ v[0] = 0
        /\ \A k \in 1 .. n : v[k] = 16 * v[k - 1] + digits[k]
        /\ Value(16, digits) = v[n]
  BY <1>1, <1>2, ValueGrows
<1> DEFINE F == [k \in 1 .. n |-> [ans \in Nat |-> count_digit(ans, digits[k])]]
<1>4. PICK a \in [0 .. n -> Nat] : a = After(n, 0, F) /\ IsLoop(a, n, 0, F)
  <2>1. \A k \in 1 .. n :
          [ans \in Nat |-> count_digit(ans, digits[k])] \in [Nat -> Nat]
    BY DEF count_digit
  <2>2. Closed(n, Nat, F) /\ 0 \in Nat
    BY <2>1 DEF Closed
  <2> HIDE DEF F
  <2> QED
    BY <2>2, Loop, Zenon
<1>5. a[0] = 0 /\ \A k \in 1 .. n : a[k] = count_digit(a[k - 1], digits[k])
  <2>1. \A k \in 1 .. n : k - 1 \in 0 .. n /\ a[k - 1] \in Nat
    OBVIOUS
  <2> QED
    BY <1>4, <2>1 DEF IsLoop
<1>6. min_bytes(digits) = Max({1, a[n] \div 2})
  BY <1>1, <1>4, Zenon DEF min_bytes
<1> HIDE DEF F
<1> DEFINE Good(ans, value) ==
      \/ ans = 0 /\ value = 0
      \/ ans >= 2 /\ Power(16, ans - 2) <= value /\ value < Power(16, ans - 1)
<1> DEFINE H == {k \in 0 .. n : Good(a[k], v[k])}
<1>7. 0 \in H
  BY <1>3, <1>5
<1>8. ASSUME NEW k \in 0 .. n - 1, k \in H PROVE k + 1 \in H
  <2>1. PICK x \in Nat : x = a[k]
    OBVIOUS
  <2>2. PICK y \in Nat : y = v[k]
    OBVIOUS
  <2>3. PICK d \in 0 .. 15 : d = digits[k + 1]
    BY <1>2
  <2>4. a[k + 1] = count_digit(x, d) /\ v[k + 1] = 16 * y + d
    <3>1. k + 1 \in 1 .. n /\ (k + 1) - 1 = k
      OBVIOUS
    <3> QED
      BY <1>3, <1>5, <2>1, <2>2, <2>3, <3>1
  <2>5. Good(x, y)
    BY <1>8, <2>1, <2>2
  <2>6. CASE x = 0 /\ d = 0
    <3>1. y = 0
      BY <2>5, <2>6
    <3> QED
      BY <2>4, <2>6, <3>1 DEF count_digit
  <2>7. CASE x = 0 /\ d # 0
    <3>1. y = 0
      BY <2>5, <2>7
    <3>2. Power(16, 0) = 1 /\ Power(16, 1) = 16
      <4>1. Power(16, 0) = 1 /\ Power(16, 0 + 1) = 16 * Power(16, 0)
        BY PowerLaw
      <4> QED
        BY <4>1
    <3>3. a[k + 1] = 2 /\ v[k + 1] = d
      BY <2>4, <2>7, <3>1 DEF count_digit
    <3>4. Good(2, d)
      BY <2>7, <3>2
    <3> QED
      BY <3>3, <3>4
  <2>8. CASE x # 0
    <3>1. x >= 2 /\ Power(16, x - 2) <= y /\ y < Power(16, x - 1)
      BY <2>5, <2>8
    <3>2. PICK p \in Nat : p = Power(16, x - 2)
      BY <3>1, x - 2 \in Nat, PowerLaw
    <3>3. Power(16, x - 1) = 16 * p
      BY <3>1, <3>2, x - 2 \in Nat, x - 1 = (x - 2) + 1, PowerLaw
    <3>4. Power(16, x) = 16 * (16 * p)
      BY <3>1, <3>3, x - 1 \in Nat, x = (x - 1) + 1, PowerLaw
    <3>5. a[k + 1] = x + 1
      BY <2>4, <2>8 DEF count_digit
    <3>6. 16 * p <= 16 * y + d /\ 16 * y + d < 16 * (16 * p)
      <4>1. p <= y /\ y < 16 * p
        BY <3>1, <3>2, <3>3, Zenon
      <4> QED
        BY <4>1, DigitAppended, Zenon
    <3>7. (x + 1) - 2 = x - 1 /\ (x + 1) - 1 = x
      OBVIOUS
    <3>8. Good(x + 1, 16 * y + d)
      BY <3>1, <3>3, <3>4, <3>6, <3>7
    <3> HIDE DEF Good
    <3>9. Good(a[k + 1], v[k + 1])
      BY <2>4, <3>5, <3>8
    <3> QED
      BY <3>9
  <2> QED
    BY <2>6, <2>7, <2>8
<1>9. \A k \in 0 .. n - 1 : k \in H => k + 1 \in H
  BY <1>8
<1>10. Good(a[n], v[n])
  <2> HIDE DEF H
  <2>1. \A k \in 0 .. n : k \in H
    BY <1>7, <1>9, Induction, Zenon
  <2> QED
    BY <2>1 DEF H
<1>11. PICK x \in Nat : x = a[n]
  OBVIOUS
<1>12. PICK y \in Nat : y = v[n]
  OBVIOUS
<1>13. \A m \in Nat : Power(256, m) = Power(16, m + m)
  <2>1. SUFFICES ASSUME NEW m \in Nat PROVE Power(256, m) = Power(16, m + m)
    OBVIOUS
  <2> DEFINE G == {k \in 0 .. m : Power(256, k) = Power(16, k + k)}
  <2>2. 0 \in G
    BY PowerLaw
  <2>3. ASSUME NEW k \in 0 .. m - 1, k \in G PROVE k + 1 \in G
    <3>1. PICK p \in Nat : p = Power(256, k) /\ p = Power(16, k + k)
      BY <2>3, PowerLaw
    <3>2. Power(256, k + 1) = 256 * p
      BY <3>1, PowerLaw
    <3>3. Power(16, (k + k) + 1) = 16 * p
      BY <3>1, k + k \in Nat, PowerLaw
    <3>4. Power(16, ((k + k) + 1) + 1) = 16 * (16 * p)
      BY <3>3, (k + k) + 1 \in Nat, PowerLaw
    <3>5. ((k + k) + 1) + 1 = (k + 1) + (k + 1) /\ 16 * (16 * p) = 256 * p
      OBVIOUS
    <3> QED
      BY <3>2, <3>4, <3>5
  <2>4. \A k \in 0 .. m - 1 : k \in G => k + 1 \in G
    BY <2>3
  <2> HIDE DEF G
  <2>5. \A k \in 0 .. m : k \in G
    BY <2>2, <2>4, Induction, Zenon
  <2> QED
    BY <2>5 DEF G
<1>14. CASE x \div 2 <= 1
  <2>1. min_bytes(digits) = 1
    <3>1. PICK m \in Nat : m = x \div 2 /\ m <= 1
      BY <1>11, <1>14
    <3>2. Max({1, m}) = IF 1 >= m THEN 1 ELSE m
      BY 1 \in Int, m \in Int, MaxOfTwo, Zenon
    <3> QED
      BY <1>6, <1>11, <3>1, <3>2, SMTT(30)
  <2>2. Power(256, 1) = 256
    BY 1 = 0 + 1, PowerLaw
  <2>3. y < 256
    <3>1. CASE x = 0
      BY <1>10, <1>11, <1>12, <3>1
    <3>2. CASE x # 0
      <4>1. x \in {2, 3} /\ y < Power(16, x - 1)
        BY <1>10, <1>11, <1>12, <1>14, <3>2
      <4>2. Power(16, x - 1) <= Power(16, 2)
        BY <4>1, x - 1 \in 0 .. 2, PowerGrows
      <4>3. Power(16, 2) = Power(256, 1)
        BY <1>13, 2 = 1 + 1
      <4>4. Power(16, x - 1) \in Nat
        BY <4>1, x - 1 \in Nat, PowerLaw
      <4> QED
        BY <2>2, <4>1, <4>2, <4>3, <4>4
    <3> QED
      BY <3>1, <3>2
  <2> QED
    BY <1>3, <1>12, <2>1, <2>2, <2>3
<1>15. CASE x \div 2 > 1
  <2>1. PICK m \in Nat : m = x \div 2
    BY <1>11
  <2>2. min_bytes(digits) = m
    <3>1. Max({1, m}) = m
      BY <1>15, <2>1, MaxOfTwo
    <3> QED
      BY <1>6, <1>11, <2>1, <3>1
  <2>3. m > 1 /\ (x = m + m \/ x = m + m + 1)
    BY <1>15, <2>1
  <2>4. Power(16, x - 2) <= y /\ y < Power(16, x - 1)
    BY <1>10, <1>11, <1>12, <2>3
  <2>5. Power(16, x - 1) <= Power(16, m + m)
    BY <2>3, x - 1 \in 0 .. m + m, PowerGrows
  <2>6. Power(16, (m - 1) + (m - 1)) <= Power(16, x - 2)
    BY <2>3, x - 2 \in Nat, (m - 1) + (m - 1) \in 0 .. x - 2, PowerGrows
  <2>7. Power(256, m) = Power(16, m + m)
    BY <1>13
  <2>8. Power(256, m - 1) = Power(16, (m - 1) + (m - 1))
    BY <1>13, <2>3
  <2>9. /\ Power(16, x - 1) \in Nat /\ Power(16, x - 2) \in Nat
        /\ Power(256, m) \in Nat /\ Power(256, m - 1) \in Nat
    <3>1. x - 1 \in Nat /\ x - 2 \in Nat /\ m - 1 \in Nat
      BY <2>3
    <3>2. \A b, k \in Nat : Power(b, k) \in Nat
      BY PowerType
    <3> QED
      BY <3>1, <3>2, 16 \in Nat, 256 \in Nat, Zenon
  <2>10. y < Power(256, m) /\ y >= Power(256, m - 1)
    <3>1. PICK low, high, lower, upper, below, above :
            /\ low = Power(256, m - 1) /\ high = Power(256, m)
            /\ lower = Power(16, (m - 1) + (m - 1)) /\ upper = Power(16, m + m)
            /\ below = Power(16, x - 2) /\ above = Power(16, x - 1)
      OBVIOUS
    <3>2. /\ low = lower /\ high = upper
          /\ lower <= below /\ below <= y /\ y < above /\ above <= upper
      BY <2>4, <2>5, <2>6, <2>7, <2>8, <3>1, Zenon
    <3>3. below \in Nat /\ above \in Nat /\ lower \in Nat /\ upper \in Nat
      BY <2>7, <2>8, <2>9, <3>1, Zenon
    <3>4. /\ below \in Int /\ above \in Int /\ lower \in Int /\ upper \in Int
          /\ y \in Int
      BY <3>3
    <3>5. y < high /\ y >= low
      BY <3>2, <3>4, Between, Zenon
    <3> QED
      BY <3>1, <3>5, Zenon
  <2> QED
    BY <1>3, <1>12, <2>2, <2>3, <2>10
<1> QED
  BY <1>11, <1>14, <1>15

-----------------------------------------------------------------------------
(***************************************************************************)
(* inf01-1. The bits are a number in which sign, exponent and mantissa are *)
(* fields, and the shifts and masks cut these out.                         *)
(***************************************************************************)
LEMMA BitsAreNumbers == \A s \in Seq(0 .. 1) : s \in Seq(Nat)
OBVIOUS

(* A sign s, an exponent x below p and a mantissa of a first bit c and r   *)
(* below h, in one number.                                                 *)
Fields(p, h, s, x, c, r, man, y, v, w) ==
  /\ p \in Nat /\ p > 0 /\ h \in Nat /\ h > 0 /\ s \in 0 .. 1
  /\ x \in Nat /\ x < p /\ c \in 0 .. 1 /\ r \in Nat /\ r < h
  /\ man \in Nat /\ man = c * h + r /\ y \in Nat /\ y = x * (2 * h) + man
  /\ v \in Nat /\ v = s * (p * (2 * h)) + y
  /\ w \in Nat /\ w = 2 * (p * (2 * h))

FieldsFound(p, h, s, x, c, man, y, v, w) ==
  /\ v \div (p * (2 * h)) = s
  /\ (v * 2) % w = 2 * y /\ (2 * y) \div (2 * (2 * h)) = x
  /\ (v * (2 * p)) % w = man * (2 * p)
  /\ (man * (2 * p)) \div (p * (2 * h)) = c
  /\ y = 0 <=> x = 0 /\ man = 0
  /\ man * (2 * p) = 0 <=> man = 0

LEMMA BitFields ==
  ASSUME NEW p, NEW h, NEW s, NEW x, NEW c, NEW r, NEW man, NEW y, NEW v, NEW w,
         Fields(p, h, s, x, c, r, man, y, v, w)
  PROVE  FieldsFound(p, h, s, x, c, man, y, v, w)
<1> USE DEF Fields
<1>1. man < 2 * h
  OBVIOUS
<1>2. PICK z \in Nat : z = p * (2 * h) /\ z > 0
  OBVIOUS
<1>3. y < z
  <2>1. x * (2 * h) <= (p - 1) * (2 * h)
    OBVIOUS
  <2>2. (p - 1) * (2 * h) = z - 2 * h
    BY <1>2
  <2> QED
    BY <1>1, <1>2, <2>1, <2>2
<1>10. v \div (p * (2 * h)) = s
  <2>1. v = z * s + y
    BY <1>2
  <2> QED
    BY <1>2, <1>3, <2>1, DivMod
<1>4. (v * 2) % w = 2 * y
  <2>1. v * 2 = w * s + 2 * y /\ 2 * y < w
    BY <1>2, <1>3
  <2> QED
    BY <2>1, DivMod
<1>5. (2 * y) \div (2 * (2 * h)) = x
  <2>1. 2 * y = (2 * (2 * h)) * x + 2 * man /\ 2 * man < 2 * (2 * h)
    BY <1>1
  <2> QED
    BY <2>1, DivMod
<1>6. (v * (2 * p)) % w = man * (2 * p)
  <2>1. v * (2 * p) = w * (s * p + x) + man * (2 * p)
    <3>1. (s * (p * (2 * h))) * (2 * p) = w * (s * p)
      OBVIOUS
    <3>2. (x * (2 * h)) * (2 * p) = w * x
      OBVIOUS
    <3>3. v * (2 * p) = (s * (p * (2 * h))) * (2 * p)
                          + (x * (2 * h)) * (2 * p) + man * (2 * p)
      OBVIOUS
    <3>4. w * (s * p + x) = w * (s * p) + w * x
      OBVIOUS
    <3> QED
      BY <3>1, <3>2, <3>3, <3>4
  <2>2. man * (2 * p) < w
    <3>1. man * (2 * p) < (2 * h) * (2 * p)
      BY <1>1
    <3>2. (2 * h) * (2 * p) = w
      OBVIOUS
    <3> QED
      BY <3>1, <3>2
  <2>3. PICK q \in Int, t \in Nat : q = s * p + x /\ t = man * (2 * p)
    OBVIOUS
  <2>4. v * (2 * p) = w * q + t /\ t < w
    BY <2>1, <2>2, <2>3
  <2>6. t < w
    BY <2>4
  <2>5. (w * q + t) % w = t
    BY <2>6, DivMod
  <2> QED
    BY <2>3, <2>4, <2>5
<1>7. (man * (2 * p)) \div (p * (2 * h)) = c
  <2>1. man * (2 * p) = (p * (2 * h)) * c + r * (2 * p)
    <3>1. (c * h) * (2 * p) = (p * (2 * h)) * c
      OBVIOUS
    <3>2. man * (2 * p) = (c * h) * (2 * p) + r * (2 * p)
      OBVIOUS
    <3> QED
      BY <3>1, <3>2
  <2>2. r * (2 * p) < p * (2 * h)
    <3>1. r * (2 * p) < h * (2 * p)
      OBVIOUS
    <3>2. h * (2 * p) = p * (2 * h)
      OBVIOUS
    <3> QED
      BY <3>1, <3>2
  <2>3. r * (2 * p) \in Nat /\ p * (2 * h) \in Nat
    OBVIOUS
  <2> QED
    BY <2>1, <2>2, <2>3, DivMod
<1>8. y = 0 <=> x = 0 /\ man = 0
  <2>1. x > 0 => x * (2 * h) > 0
    OBVIOUS
  <2>2. x * (2 * h) >= 0 /\ (x = 0 => x * (2 * h) = 0)
    OBVIOUS
  <2> QED
    BY <2>1, <2>2
<1>9. man * (2 * p) = 0 <=> man = 0
  <2>1. man > 0 => man * (2 * p) > 0
    OBVIOUS
  <2>2. man = 0 => man * (2 * p) = 0
    OBVIOUS
  <2> QED
    BY <2>1, <2>2
<1> QED
  BY <1>4, <1>5, <1>6, <1>7, <1>8, <1>9, <1>10, Zenon DEF FieldsFound

(* The two ways to tell the classes apart.                                 *)
Tested(x, man, c, last, result) ==
  IF x = 0 /\ man = 0 THEN result.zero
  ELSE IF x = last
  THEN IF man = 0 THEN result.inf
       ELSE IF c # 0 THEN "QuietNaN" ELSE "SignalingNaN"
  ELSE IF x = 0 THEN result.denormal ELSE result.regular

Listed(s, x, man, c, last) ==
  CASE x = last /\ man = 0 -> IF s = 0 THEN "PlusInf" ELSE "MinusInf"
    [] x = last /\ man # 0 /\ c = 1 -> "QuietNaN"
    [] x = last /\ man # 0 /\ c = 0 -> "SignalingNaN"
    [] x = 0 /\ man = 0 -> IF s = 0 THEN "PlusZero" ELSE "MinusZero"
    [] x = 0 /\ man # 0 -> IF s = 0 THEN "PlusDenormal" ELSE "MinusDenormal"
    [] OTHER -> IF s = 0 THEN "PlusRegular" ELSE "MinusRegular"

LEMMA SameClass ==
  ASSUME NEW s, NEW x, NEW man, NEW c, NEW last,
         x = 0 => x # last, c = 0 \/ c = 1
  PROVE  /\ s = 0 => Tested(x, man, c, last, Plus) = Listed(s, x, man, c, last)
         /\ s # 0 => Tested(x, man, c, last, Minus) = Listed(s, x, man, c, last)
<1>1. CASE man = 0
  BY <1>1 DEF Tested, Listed, Plus, Minus
<1>2. CASE man # 0 /\ x = last
  BY <1>2 DEF Tested, Listed, Plus, Minus
<1>3. CASE man # 0 /\ x # last
  BY <1>3 DEF Tested, Listed, Plus, Minus
<1> QED
  BY <1>1, <1>2, <1>3

(* inf01-1: of its ten classes classify gives the one that IEEE 754 does   *)
(* to the bits, the sign first, for any numbers of bits of exponent and    *)
(* mantissa.                                                               *)
THEOREM NumbersAreClassified ==
  ASSUME NEW e \in Nat \ {0}, NEW m \in Nat \ {0},
         NEW bits \in Seq(0 .. 1), Len(bits) = 1 + e + m
  PROVE  classify(Value(2, bits), e, m)
           = ClassOf(bits[1], SubSeq(bits, 2, 1 + e),
                     SubSeq(bits, 2 + e, Len(bits)))
<1>1. PICK exp \in Seq(0 .. 1), mant \in Seq(0 .. 1), rest \in Seq(0 .. 1) :
        /\ exp = SubSeq(bits, 2, 1 + e) /\ Len(exp) = e
        /\ mant = SubSeq(bits, 2 + e, Len(bits)) /\ Len(mant) = m
        /\ rest = SubSeq(bits, 2, 1 + (e + m)) /\ Len(rest) = e + m
        /\ exp = SubSeq(rest, 1, e) /\ mant = SubSeq(rest, e + 1, e + m)
  <2>1. \A k \in Nat, n \in Nat : k + n <= Len(bits) =>
          /\ SubSeq(bits, k + 1, k + n) \in Seq(0 .. 1)
          /\ IsPart(SubSeq(bits, k + 1, k + n), bits, k, n)
    BY PartOf, Zenon
  <2>2. PICK exp : /\ exp = SubSeq(bits, 2, 1 + e) /\ exp \in Seq(0 .. 1)
                   /\ IsPart(exp, bits, 1, e)
    <3>1. 1 \in Nat /\ e \in Nat /\ 1 + e <= Len(bits) /\ 1 + 1 = 2
      OBVIOUS
    <3> QED
      BY <2>1, <3>1, Zenon
  <2>3. PICK mant : /\ mant = SubSeq(bits, 2 + e, Len(bits))
                    /\ mant \in Seq(0 .. 1) /\ IsPart(mant, bits, 1 + e, m)
    <3>1. /\ 1 + e \in Nat /\ m \in Nat /\ (1 + e) + m <= Len(bits)
          /\ (1 + e) + 1 = 2 + e /\ (1 + e) + m = Len(bits)
      OBVIOUS
    <3> QED
      BY <2>1, <3>1, Zenon
  <2>4. PICK rest : /\ rest = SubSeq(bits, 2, 1 + (e + m))
                    /\ rest \in Seq(0 .. 1) /\ IsPart(rest, bits, 1, e + m)
    <3>1. 1 \in Nat /\ e + m \in Nat /\ 1 + (e + m) <= Len(bits) /\ 1 + 1 = 2
      OBVIOUS
    <3> QED
      BY <2>1, <3>1, Zenon
  <2>5. PICK x : /\ x = SubSeq(rest, 1, e) /\ x \in Seq(0 .. 1) /\ Len(x) = e
                 /\ \A i \in 1 .. e : x[i] = rest[i]
    <3>1. e \in Nat /\ e <= Len(rest)
      BY <2>4 DEF IsPart
    <3>2. /\ SubSeq(rest, 1, e) \in Seq(0 .. 1) /\ Len(SubSeq(rest, 1, e)) = e
          /\ \A i \in 1 .. e : SubSeq(rest, 1, e)[i] = rest[i]
      BY <2>4, <3>1, BeginningOf, Zenon
    <3> QED
      BY <3>2, Zenon
  <2>6. PICK y : /\ y = SubSeq(rest, e + 1, e + m) /\ y \in Seq(0 .. 1)
                 /\ IsPart(y, rest, e, m)
    <3>1. e \in Nat /\ m \in Nat /\ e + m <= Len(rest)
      BY <2>4 DEF IsPart
    <3> QED
      BY <2>4, <3>1, PartOf, Zenon
  <2>7. x = exp
    <3>1. Len(x) = Len(exp) /\ \A i \in 1 .. Len(x) : x[i] = exp[i]
      BY <2>2, <2>4, <2>5 DEF IsPart
    <3> QED
      BY <2>2, <2>5, <3>1, SeqEqual
  <2>8. y = mant
    <3>1. Len(y) = m /\ Len(mant) = m
      BY <2>3, <2>6 DEF IsPart
    <3>2. ASSUME NEW i \in 1 .. m PROVE y[i] = mant[i]
      <4>1. y[i] = rest[e + i] /\ e + i \in 1 .. e + m
        <5>1. e + i \in 1 .. e + m
          OBVIOUS
        <5> QED
          BY <2>6, <5>1, Zenon DEF IsPart
      <4>2. rest[e + i] = bits[1 + (e + i)] /\ mant[i] = bits[(1 + e) + i]
        BY <2>3, <2>4, <4>1, Zenon DEF IsPart
      <4>3. 1 + (e + i) = (1 + e) + i
        OBVIOUS
      <4> QED
        BY <4>1, <4>2, <4>3
    <3> QED
      BY <2>3, <2>6, <3>1, <3>2, SeqEqual
  <2> QED
    BY <2>2, <2>3, <2>4, <2>5, <2>6, <2>7, <2>8 DEF IsPart
<1>2. PICK p \in Nat, h \in Nat, g \in Nat :
        /\ p = Power(2, e) /\ h = Power(2, m - 1) /\ p = 2 * g /\ p > 0 /\ h > 0
        /\ Power(2, m) = 2 * h /\ Power(2, e + m) = p * (2 * h)
        /\ Power(2, 1 + e + m) = 2 * (p * (2 * h))
        /\ Power(2, 1) = 2 /\ Power(2, e + 1) = 2 * p
        /\ Power(2, (1 + e + m) - e) = 2 * (2 * h)
        /\ Power(2, (1 + e + m) - 1) = p * (2 * h)
  <2>1. \A k \in Nat : /\ Power(2, k) \in Nat /\ Power(2, k) > 0
                       /\ Power(2, k + 1) = 2 * Power(2, k)
    <3>1. 2 \in Nat /\ 2 > 0
      OBVIOUS
    <3> QED
      BY <3>1, PowerLaw, PowerPositive, Zenon
  <2>2. PICK p, h, g : /\ p = Power(2, e) /\ h = Power(2, m - 1)
                       /\ g = Power(2, e - 1)
    OBVIOUS
  <2>3. /\ p \in Nat /\ p > 0 /\ h \in Nat /\ h > 0 /\ g \in Nat
        /\ Power(2, (e - 1) + 1) = 2 * g /\ Power(2, (m - 1) + 1) = 2 * h
        /\ Power(2, e + 1) = 2 * p
    <3>1. e \in Nat /\ m - 1 \in Nat /\ e - 1 \in Nat
      OBVIOUS
    <3> QED
      BY <2>1, <2>2, <3>1, Zenon
  <2>4. (e - 1) + 1 = e /\ (m - 1) + 1 = m
    OBVIOUS
  <2>5. p = 2 * g /\ Power(2, m) = 2 * h
    BY <2>2, <2>3, <2>4
  <2>6. Power(2, e + m) = p * (2 * h)
    <3>1. Power(2, e + m) = Power(2, e) * Power(2, m)
      BY PowerSum
    <3> QED
      BY <2>2, <2>5, <3>1
  <2>7. Power(2, (e + m) + 1) = 2 * (p * (2 * h))
    <3>1. Power(2, (e + m) + 1) = 2 * Power(2, e + m)
      BY <2>1, e + m \in Nat
    <3> QED
      BY <2>6, <3>1
  <2>8. Power(2, m + 1) = 2 * (2 * h)
    <3>1. Power(2, m + 1) = 2 * Power(2, m)
      BY <2>1
    <3> QED
      BY <2>5, <3>1
  <2>9. Power(2, 1) = 2
    <3>1. Power(2, 0 + 1) = 2 * Power(2, 0) /\ Power(2, 0) = 1
      BY PowerLaw
    <3> QED
      BY <3>1, 0 + 1 = 1
  <2>10. /\ (e + m) + 1 = 1 + e + m /\ (1 + e + m) - e = m + 1
         /\ (1 + e + m) - 1 = e + m
    OBVIOUS
  <2> QED
    BY <2>2, <2>3, <2>5, <2>6, <2>7, <2>8, <2>9, <2>10
<1>3. PICK c \in 0 .. 1, r \in Nat :
        /\ c = mant[1] /\ Value(2, mant) = c * h + r /\ r < h
  <2>1. m - 1 \in Nat /\ Len(mant) = 1 + (m - 1)
    BY <1>1
  <2>2. /\ Value(2, mant) = mant[1] * Power(2, m - 1)
                              + Value(2, SubSeq(mant, 2, 1 + (m - 1)))
        /\ mant[1] \in 0 .. 1
        /\ SubSeq(mant, 2, 1 + (m - 1)) \in Seq(0 .. 1)
        /\ Len(SubSeq(mant, 2, 1 + (m - 1))) = m - 1
    BY <2>1, FirstBit
  <2>3. PICK t \in Seq(0 .. 1) : t = SubSeq(mant, 2, 1 + (m - 1)) /\ Len(t) = m - 1
    BY <2>2
  <2>4. Value(2, t) \in Nat /\ Value(2, t) < Power(2, m - 1)
    BY <2>1, <2>3, BitsValue
  <2> QED
    BY <1>2, <2>2, <2>3, <2>4
<1>4. PICK man \in Nat : /\ man = Value(2, mant)
                         /\ man = 0 <=> \A k \in 1 .. m : mant[k] = 0
  BY <1>1, BitsValue
<1>5. PICK x \in Nat : /\ x = Value(2, exp) /\ x < p
                       /\ x = 0 <=> \A k \in 1 .. e : exp[k] = 0
                       /\ x = p - 1 <=> \A k \in 1 .. e : exp[k] = 1
  <2>1. e \in Nat /\ e = Len(exp)
    BY <1>1
  <2>2. /\ Value(2, exp) \in Nat /\ Value(2, exp) < Power(2, e)
        /\ Value(2, exp) = 0 <=> \A k \in 1 .. e : exp[k] = 0
        /\ Value(2, exp) = Power(2, e) - 1 <=> \A k \in 1 .. e : exp[k] = 1
    BY <2>1, BitsValue, Zenon
  <2> QED
    BY <1>2, <2>2, Zenon
<1>6. PICK y \in Nat : y = Value(2, rest) /\ y = x * (2 * h) + man
  <2>1. rest \in Seq(Nat) /\ Len(rest) = e + m /\ e \in Nat /\ m \in Nat
    BY <1>1, BitsAreNumbers
  <2>2. Value(2, rest) = Value(2, SubSeq(rest, 1, e)) * Power(2, m)
                           + Value(2, SubSeq(rest, e + 1, e + m))
    BY <2>1, ValueSplit, Zenon
  <2>3. x * (2 * h) + man \in Nat
    OBVIOUS
  <2> QED
    BY <1>1, <1>2, <1>4, <1>5, <2>2, <2>3
<1>7. PICK s \in 0 .. 1, v \in Nat :
        /\ s = bits[1] /\ v = Value(2, bits)
        /\ v = s * (p * (2 * h)) + y
  <2>1. e + m \in Nat /\ Len(bits) = 1 + (e + m)
    OBVIOUS
  <2>2. /\ Value(2, bits) = bits[1] * Power(2, e + m)
                              + Value(2, SubSeq(bits, 2, 1 + (e + m)))
        /\ bits[1] \in 0 .. 1
    BY <2>1, FirstBit
  <2>3. PICK s \in 0 .. 1 : s = bits[1]
    BY <2>2
  <2>4. s * (p * (2 * h)) + y \in Nat
    OBVIOUS
  <2> QED
    BY <1>1, <1>2, <1>6, <2>2, <2>3, <2>4
<1>8. PICK w \in Nat : w = 2 * (p * (2 * h))
  OBVIOUS
<1>9. /\ v \div (p * (2 * h)) = s
      /\ (v * 2) % w = 2 * y /\ (2 * y) \div (2 * (2 * h)) = x
      /\ (v * (2 * p)) % w = man * (2 * p)
      /\ (man * (2 * p)) \div (p * (2 * h)) = c
      /\ y = 0 <=> x = 0 /\ man = 0
      /\ man * (2 * p) = 0 <=> man = 0
  <2>1. Fields(p, h, s, x, c, r, man, y, v, w)
    BY <1>2, <1>3, <1>4, <1>5, <1>6, <1>7, <1>8 DEF Fields
  <2>2. FieldsFound(p, h, s, x, c, man, y, v, w)
    BY <2>1, BitFields
  <2> QED
    BY <2>2, Zenon DEF FieldsFound
<1>10. /\ shr(v, e + m) = s
       /\ shl(v, 1, 1 + e + m) = 2 * y
       /\ shr(shl(v, 1, 1 + e + m), (1 + e + m) - e) = x
       /\ shl(v, e + 1, 1 + e + m) = man * (2 * p)
       /\ shr(shl(v, e + 1, 1 + e + m), (1 + e + m) - 1) = c
  BY <1>2, <1>8, <1>9 DEF shl, shr
<1>11. \A result :
         branch(v, e, m, result) = Tested(x, man, c, p - 1, result)
  <2>1. 2 * y = 0 <=> x = 0 /\ man = 0
    BY <1>9
  <2>2. man * (2 * p) = 0 <=> man = 0
    BY <1>9
  <2>3. Power(2, e) - 1 = p - 1
    BY <1>2
  <2> QED
    BY <1>10, <2>1, <2>2, <2>3, Zenon DEF branch, Tested
<1>12. /\ (\A k \in DOMAIN exp : exp[k] = 1) <=> x = p - 1
       /\ (\A k \in DOMAIN exp : exp[k] = 0) <=> x = 0
       /\ (\A k \in DOMAIN mant : mant[k] = 0) <=> man = 0
  <2>1. DOMAIN exp = 1 .. e /\ DOMAIN mant = 1 .. m
    BY <1>1
  <2> QED
    BY <1>4, <1>5, <2>1, Zenon
<1>13. ClassOf(s, exp, mant) = Listed(s, x, man, c, p - 1)
  BY <1>3, <1>12, Zenon DEF ClassOf, Listed
<1>14. (x = 0 => x # p - 1) /\ (c = 0 \/ c = 1)
  <2>1. p # 1
    <3>1. p = 2 * g
      BY <1>2
    <3> QED
      BY <3>1
  <2> QED
    BY <2>1
<1>15. classify(v, e, m) = ClassOf(s, exp, mant)
  <2>1. CASE s = 0
    <3>1. classify(v, e, m) = branch(v, e, m, Plus)
      BY <1>10, <2>1, Zenon DEF classify
    <3> QED
      BY <1>11, <1>13, <1>14, <2>1, <3>1, SameClass, Zenon
  <2>2. CASE s # 0
    <3>1. classify(v, e, m) = branch(v, e, m, Minus)
      BY <1>10, <2>2, Zenon DEF classify
    <3> QED
      BY <1>11, <1>13, <1>14, <2>2, <3>1, SameClass, Zenon
  <2> QED
    BY <2>1, <2>2
<1> QED
  BY <1>1, <1>7, <1>15

-----------------------------------------------------------------------------
(***************************************************************************)
(* inf01-4. After k symbols the loop has what came Before the next one,    *)
(* since the last symbol that is no letter; where the order lets an        *)
(* operator take it, that is the set read last, and every letter is in the *)
(* answer as Member says.                                                  *)
(***************************************************************************)
LEMMA GreatestOf ==
  ASSUME NEW n \in Nat, NEW S \in SUBSET (0 .. n), S # {}
  PROVE  \E k \in S : \A j \in S : j <= k
<1> DEFINE D == {n - j : j \in S}
<1>1. D \in SUBSET Nat /\ D # {} /\ \A j \in S : n - j \in D
  <2>1. \A j \in S : n - j \in Nat
    OBVIOUS
  <2> QED
    BY <2>1, Zenon
<1>2. \A d \in D : \E j \in S : d = n - j
  OBVIOUS
<1> HIDE DEF D
<1>3. PICK d \in D : \A e \in D : d <= e
  BY <1>1, LeastOf
<1>4. PICK k \in S : d = n - k
  BY <1>2
<1>5. ASSUME NEW j \in S PROVE j <= k
  <2>1. d <= n - j
    BY <1>1, <1>3
  <2> QED
    BY <1>4, <2>1
<1> QED
  BY <1>5

(* What is read since the last symbol that is no letter, and the same one  *)
(* symbol more.                                                            *)
Before(symbols, n) ==
  LET ends == {k \in 1 .. n - 1 : symbols[k] \notin Letters}
  IN  {symbols[k] : k \in Max(ends \cup {0}) + 1 .. n - 1}

LEMMA BeforeGrows ==
  ASSUME NEW symbols, NEW k \in Nat \ {0}
  PROVE  /\ Before(symbols, 1) = {}
         /\ Before(symbols, k + 1)
              = IF symbols[k] \in Letters THEN Before(symbols, k) \cup {symbols[k]}
                ELSE {}
<1> DEFINE Ends(n) == {j \in 1 .. n - 1 : symbols[j] \notin Letters} \cup {0}
           Last(n) == Max(Ends(n))
<1>1. \A n : Before(symbols, n) = {symbols[j] : j \in Last(n) + 1 .. n - 1}
  BY DEF Before
<1>2. ASSUME NEW n \in Nat \ {0}, NEW m \in Ends(n), \A j \in Ends(n) : m >= j
      PROVE  Last(n) = m
  <2>1. Ends(n) \in SUBSET Int
    OBVIOUS
  <2> HIDE DEF Ends
  <2> QED
    BY <1>2, <2>1, MaxIs
<1>3. Before(symbols, 1) = {}
  <2>1. Last(1) = 0
    BY <1>2
  <2> QED
    BY <1>1, <2>1
<1>4. PICK m \in 0 .. k - 1 : m \in Ends(k) /\ \A j \in Ends(k) : m >= j
  <2>1. Ends(k) \in SUBSET (0 .. k - 1) /\ Ends(k) # {} /\ k - 1 \in Nat
    OBVIOUS
  <2> HIDE DEF Ends
  <2> QED
    BY <2>1, GreatestOf
<1>5. Last(k) = m
  BY <1>2, <1>4
<1> HIDE DEF Last
<1>6. Before(symbols, k) = {symbols[j] : j \in m + 1 .. k - 1}
  BY <1>1, <1>5
<1>7. CASE symbols[k] \in Letters
  <2>1. Ends(k + 1) = Ends(k)
    BY <1>7
  <2>2. Last(k + 1) = m
    <3> HIDE DEF Ends
    <3> QED
      BY <1>2, <1>4, <2>1
  <2>3. Before(symbols, k + 1) = {symbols[j] : j \in m + 1 .. k}
    BY <1>1, <2>2
  <2>4. m + 1 .. k = (m + 1 .. k - 1) \cup {k}
    OBVIOUS
  <2> QED
    BY <1>3, <1>6, <1>7, <2>3, <2>4
<1>8. CASE symbols[k] \notin Letters
  <2>1. k \in Ends(k + 1) /\ \A j \in Ends(k + 1) : k >= j
    BY <1>8
  <2>2. Last(k + 1) = k
    BY <1>2, <2>1
  <2> QED
    BY <1>1, <1>3, <1>8, <2>2
<1> QED
  BY <1>7, <1>8

(* After a set it is the set read last, as it is before the first one.     *)
LEMMA LastSetIs ==
  ASSUME NEW symbols, NEW n \in Nat \ {0},
         \/ n > 1 /\ symbols[n - 1] \in Letters
         \/ \A k \in 1 .. n - 1 : symbols[k] \notin Letters
  PROVE  LastSet(symbols, n) = Before(symbols, n)
<1> DEFINE letters == {k \in 1 .. n - 1 : symbols[k] \in Letters}
           others(m) == {k \in 1 .. m : symbols[k] \notin Letters}
<1>1. ASSUME NEW m \in Nat, Max(letters \cup {0}) = m
      PROVE  LastSet(symbols, n)
               = {symbols[k] : k \in Max(others(m) \cup {0}) + 1 .. m}
  BY <1>1, Zenon DEF LastSet
<1>2. letters \cup {0} \in SUBSET Int
  OBVIOUS
<1>3. CASE n > 1 /\ symbols[n - 1] \in Letters
  <2>1. /\ n - 1 \in Nat /\ n - 1 \in letters \cup {0}
        /\ \A k \in letters \cup {0} : n - 1 >= k
    BY <1>3
  <2> HIDE DEF letters
  <2>2. Max(letters \cup {0}) = n - 1
    BY <1>2, <2>1, MaxIs
  <2> QED
    BY <1>1, <2>1, <2>2, Zenon DEF Before
<1>4. CASE \A k \in 1 .. n - 1 : symbols[k] \notin Letters
  <2>1. letters \cup {0} = {0}
    BY <1>4
  <2> HIDE DEF letters
  <2>2. Max(letters \cup {0}) = 0
    BY <1>2, <2>1, MaxIs
  <2>3. others(0) \cup {0} = {0} /\ {0} \in SUBSET Int
    OBVIOUS
  <2>4. Max(others(0) \cup {0}) = 0
    <3> HIDE DEF others
    <3> QED
      BY <2>3, MaxIs
  <2>5. LastSet(symbols, n) = {}
    <3>1. LastSet(symbols, n) = {symbols[k] : k \in 0 + 1 .. 0}
      BY <1>1, <2>2, <2>4
    <3> QED
      BY <3>1
  <2>6. Before(symbols, n) = {}
    <3>1. CASE n = 1
      BY <3>1, BeforeGrows
    <3>2. CASE n # 1
      <4>1. /\ n - 1 \in Nat \ {0} /\ (n - 1) + 1 = n
            /\ symbols[n - 1] \notin Letters
        BY <1>4, <3>2
      <4> QED
        BY <4>1, BeforeGrows
    <3> QED
      BY <3>1, <3>2
  <2> QED
    BY <2>5, <2>6
<1> QED
  BY <1>3, <1>4

LEMMA AppliedByElement ==
  ASSUME NEW op, NEW x \in SUBSET Letters, NEW y \in SUBSET Letters,
         NEW letter \in Letters
  PROVE  /\ Applied(op, x, y) \in SUBSET Letters
         /\ letter \in Applied(op, x, y)
              <=> Held(op, letter \in x, letter \in y)
<1>1. CASE op = "&"
  <2>1. /\ Applied(op, x, y) = x \cap y
        /\ Held(op, letter \in x, letter \in y) <=> letter \in x /\ letter \in y
    BY <1>1, SMT DEF Applied, Held
  <2> QED
    BY <2>1, Zenon
<1>2. CASE op = "|"
  <2>1. /\ Applied(op, x, y) = x \cup y
        /\ Held(op, letter \in x, letter \in y) <=> letter \in x \/ letter \in y
    BY <1>2, SMT DEF Applied, Held
  <2> QED
    BY <2>1, Zenon
<1>3. CASE op = "^"
  <2>1. /\ Applied(op, x, y) = (x \cup y) \ (x \cap y)
        /\ Held(op, letter \in x, letter \in y)
             <=> ~(letter \in x <=> letter \in y)
    BY <1>3, SMT DEF Applied, Held
  <2> QED
    BY <2>1, Zenon
<1>4. CASE op = "~"
  <2>1. /\ Applied(op, x, y) = Letters \ x
        /\ Held(op, letter \in x, letter \in y) <=> ~(letter \in x)
    BY <1>4, SMT DEF Applied, Held
  <2> QED
    BY <2>1, Zenon
<1>5. CASE op \notin {"&", "|", "^", "~"}
  <2>1. /\ Applied(op, x, y) = x
        /\ Held(op, letter \in x, letter \in y) <=> letter \in x
    BY <1>5, SMT DEF Applied, Held
  <2> QED
    BY <2>1
<1> QED
  BY <1>1, <1>2, <1>3, <1>4, <1>5

(* inf01-4: for any sequence of symbols in which each operator of two sets *)
(* comes right after one, the resulting set consists of the letters that   *)
(* the operators, letter by letter, say are in it, from the set read last. *)
THEOREM SetsAreByElement ==
  ASSUME NEW symbols, Len(symbols) \in Nat, Letters \cap Operators = {},
         DOMAIN symbols = 1 .. Len(symbols), InOrder(symbols)
  PROVE  calculate(symbols) = {letter \in Letters : Member(letter, symbols)}
<1>1. PICK n \in Nat : n = Len(symbols)
  OBVIOUS
<1> DEFINE F == [k \in 1 .. n |-> [s \in SetsRead |-> read_symbol(s, symbols[k])]]
           empty == [answer |-> {}, current |-> {}]
<1>2. ASSUME NEW s \in SetsRead, NEW symbol
      PROVE  /\ read_symbol(s, symbol) \in SetsRead
             /\ read_symbol(s, symbol).current
                  = IF symbol \in Letters THEN s.current \cup {symbol} ELSE {}
             /\ read_symbol(s, symbol).answer
                  = IF symbol \in Letters THEN s.answer
                    ELSE Applied(symbol, s.answer, s.current)
  <2>1. s.answer \in SUBSET Letters /\ s.current \in SUBSET Letters
    BY DEF SetsRead
  <2>2. Applied(symbol, s.answer, s.current) \in SUBSET Letters
    <3>1. CASE Letters = {}
      BY <2>1, <3>1 DEF Applied
    <3>2. CASE Letters # {}
      BY <2>1, <3>2, AppliedByElement
    <3> QED
      BY <3>1, <3>2
  <2>3. CASE symbol \in Letters
    BY <2>1, <2>3 DEF read_symbol, SetsRead
  <2>4. CASE symbol \notin Letters
    BY <2>2, <2>4 DEF read_symbol, SetsRead
  <2> QED
    BY <2>3, <2>4
<1>3. PICK f \in [0 .. n -> SetsRead] :
        /\ f[0].answer = {} /\ f[0].current = {}
        /\ \A k \in 1 .. n : f[k] = read_symbol(f[k - 1], symbols[k])
        /\ calculate(symbols) = f[n].answer
  <2>1. calculate(symbols) = After(n, empty, F)[n].answer
    BY <1>1, Zenon DEF calculate
  <2>2. Closed(n, SetsRead, F) /\ empty \in SetsRead
    BY <1>2 DEF Closed, SetsRead
  <2>6. empty.answer = {} /\ empty.current = {}
    OBVIOUS
  <2>3. \A k \in 1 .. n : \A s \in SetsRead : F[k][s] = read_symbol(s, symbols[k])
    OBVIOUS
  <2> HIDE DEF F, empty
  <2>4. PICK f \in [0 .. n -> SetsRead] :
          f = After(n, empty, F) /\ IsLoop(f, n, empty, F)
    BY <2>2, Loop, Zenon
  <2>5. ASSUME NEW k \in 1 .. n
        PROVE  f[k] = read_symbol(f[k - 1], symbols[k])
    <3>1. f[k] = F[k][f[k - 1]] /\ f[k - 1] \in SetsRead
      BY <2>4 DEF IsLoop
    <3> QED
      BY <2>3, <3>1
  <2> QED
    BY <2>1, <2>4, <2>5, <2>6 DEF IsLoop
<1> HIDE DEF F, empty
(* The current set is what is read since the last symbol of another kind.  *)
<1> DEFINE C == {k \in 0 .. n : f[k].current = Before(symbols, k + 1)}
<1>4. \A k \in 0 .. n : k \in C
  <2>1. 0 \in C
    <3>1. 1 \in Nat \ {0} /\ 0 + 1 = 1 /\ 0 \in 0 .. n
      OBVIOUS
    <3>2. Before(symbols, 1) = {}
      BY <3>1, BeforeGrows, Zenon
    <3>3. f[0].current = Before(symbols, 0 + 1)
      BY <1>3, <3>1, <3>2
    <3> QED
      BY <3>1, <3>3
  <2>2. ASSUME NEW k \in 0 .. n - 1, k \in C PROVE k + 1 \in C
    <3>1. k + 1 \in 1 .. n /\ (k + 1) - 1 = k /\ f[k] \in SetsRead
      OBVIOUS
    <3>2. f[k + 1].current = IF symbols[k + 1] \in Letters
                             THEN f[k].current \cup {symbols[k + 1]} ELSE {}
      <4>1. f[k + 1] = read_symbol(f[k], symbols[k + 1])
        BY <1>3, <3>1
      <4> QED
        BY <1>2, <3>1, <4>1
    <3>3. Before(symbols, (k + 1) + 1)
            = IF symbols[k + 1] \in Letters
              THEN Before(symbols, k + 1) \cup {symbols[k + 1]} ELSE {}
      BY <3>1, k + 1 \in Nat \ {0}, BeforeGrows
    <3> QED
      BY <2>2, <3>2, <3>3
  <2>3. \A k \in 0 .. n - 1 : k \in C => k + 1 \in C
    BY <2>2
  <2> HIDE DEF C
  <2> QED
    BY <2>1, <2>3, Induction, Zenon
<1>5. ASSUME NEW letter \in Letters
      PROVE  letter \in calculate(symbols) <=> Member(letter, symbols)
  <2> DEFINE G == [k \in 1 .. n |-> [x \in BOOLEAN |->
                     Held(symbols[k], x, letter \in LastSet(symbols, k))]]
  <2>1. Member(letter, symbols) = After(n, FALSE, G)[n]
    BY <1>1, Zenon DEF Member
  <2>2. \A k \in 1 .. n : \A x \in BOOLEAN :
          /\ G[k][x] = Held(symbols[k], x, letter \in LastSet(symbols, k))
          /\ G[k][x] \in BOOLEAN
    BY DEF Held
  <2>3. Closed(n, BOOLEAN, G) /\ FALSE \in BOOLEAN
    BY <2>2 DEF Closed
  <2> HIDE DEF G
  <2>4. PICK g \in [0 .. n -> BOOLEAN] :
          g = After(n, FALSE, G) /\ IsLoop(g, n, FALSE, G)
    BY <2>3, Loop, Zenon
  <2> DEFINE H == {k \in 0 .. n : letter \in f[k].answer <=> g[k]}
  <2>5. 0 \in H
    <3>1. g[0] = FALSE /\ letter \notin f[0].answer
      BY <1>3, <2>4 DEF IsLoop
    <3>2. 0 \in 0 .. n
      OBVIOUS
    <3> QED
      BY <3>1, <3>2, Zenon
  <2>6. ASSUME NEW k \in 0 .. n - 1, k \in H PROVE k + 1 \in H
    <3>1. /\ k + 1 \in 1 .. n /\ (k + 1) - 1 = k /\ k \in 0 .. n
          /\ f[k] \in SetsRead /\ g[k] \in BOOLEAN
      OBVIOUS
    <3>2. PICK y : y = Before(symbols, k + 1)
      OBVIOUS
    <3>3. f[k].current = y
      BY <1>4, <3>1, <3>2
    <3>4. g[k + 1] = Held(symbols[k + 1], g[k], letter \in y)
      <4>1. g[k + 1]
              = Held(symbols[k + 1], g[k], letter \in LastSet(symbols, k + 1))
        BY <2>2, <2>4, <3>1 DEF IsLoop
      <4>2. CASE symbols[k + 1] \in Operators \ {"~"}
        <5>1. k + 1 \in DOMAIN symbols /\ k + 1 \in Nat \ {0}
          BY <1>1, <3>1
        <5>2. LastSet(symbols, k + 1) = y
          BY <3>2, <4>2, <5>1, LastSetIs, Zenon DEF InOrder
        <5> QED
          BY <4>1, <5>2
      <4>3. CASE symbols[k + 1] \notin Operators \ {"~"}
        BY <4>1, <4>3, <3>1 DEF Held, Operators
      <4> QED
        BY <4>2, <4>3
    <3>5. f[k + 1].answer = IF symbols[k + 1] \in Letters THEN f[k].answer
                            ELSE Applied(symbols[k + 1], f[k].answer, y)
      <4>1. f[k + 1] = read_symbol(f[k], symbols[k + 1])
        BY <1>3, <3>1
      <4> QED
        BY <1>2, <3>1, <3>3, <4>1
    <3>6. f[k].answer \in SUBSET Letters /\ y \in SUBSET Letters
      BY <3>1, <3>3 DEF SetsRead
    <3>7. (letter \in f[k].answer) = g[k]
      BY <2>6, <3>1
    <3>8. CASE symbols[k + 1] \in Letters
      <4>1. Held(symbols[k + 1], g[k], letter \in y) = g[k]
        BY <3>8 DEF Held, Operators
      <4> QED
        BY <2>6, <3>4, <3>5, <3>8, <4>1
    <3>9. CASE symbols[k + 1] \notin Letters
      <4>1. letter \in Applied(symbols[k + 1], f[k].answer, y)
              <=> Held(symbols[k + 1], letter \in f[k].answer, letter \in y)
        BY <3>6, AppliedByElement
      <4>2. letter \in Applied(symbols[k + 1], f[k].answer, y)
              <=> Held(symbols[k + 1], g[k], letter \in y)
        BY <3>7, <4>1, Zenon
      <4> QED
        BY <3>4, <3>5, <3>9, <4>2
    <3> QED
      BY <3>8, <3>9
  <2>7. \A k \in 0 .. n - 1 : k \in H => k + 1 \in H
    BY <2>6
  <2>8. letter \in f[n].answer <=> g[n]
    <3> HIDE DEF H
    <3>1. \A k \in 0 .. n : k \in H
      BY <2>5, <2>7, Induction, Zenon
    <3> QED
      BY <3>1 DEF H
  <2> QED
    BY <1>3, <2>1, <2>4, <2>8
<1>6. calculate(symbols) \in SUBSET Letters
  BY <1>3 DEF SetsRead
<1> QED
  BY <1>5, <1>6

-----------------------------------------------------------------------------
(***************************************************************************)
(* inf01-5. A symbol in UTF-8 takes the loop from a state in which it      *)
(* expects nothing to another, with one symbol more, a stray byte takes it *)
(* to the error, and a misjudged symbol leaves it to expect a byte.        *)
(***************************************************************************)
LEMMA ByteKinds ==
  /\ \A byte \in 128 .. 191 : Continues(byte)
  /\ \A byte \in 0 .. 127 \cup 192 .. 255 : ~Continues(byte)
  /\ \A byte \in Nat : byte < 256 => byte \in Bytes
<1>1. SUFFICES ASSUME NEW byte \in Nat
               PROVE  byte \div 64 = 2 <=> byte \in 128 .. 191
  BY DEF Continues, Bytes
<1>2. PICK q \in Nat, r \in Nat : q = byte \div 64 /\ r = byte % 64 /\ r < 64
  BY 64 > 0, Divided
<1>3. byte = 64 * q + r
  BY <1>2
<1> QED
  BY <1>2, <1>3

LEMMA CountingFields ==
  ASSUME NEW e, NEW a, NEW m
  PROVE  /\ Counting(e, a, m).expecting = e
         /\ Counting(e, a, m).ascii = a
         /\ Counting(e, a, m).not_ascii = m
         /\ ~Counting(e, a, m).error
         /\ e \in Nat /\ a \in Nat /\ m \in Nat =>
              Counting(e, a, m) \in SymbolsRead
BY DEF Counting, SymbolsRead

LEMMA StoppedFields ==
  ASSUME NEW e, NEW a, NEW m
  PROVE  /\ Stopped(e, a, m).error
         /\ e \in Nat /\ a \in Nat /\ m \in Nat =>
              Stopped(e, a, m) \in SymbolsRead
BY DEF Stopped, SymbolsRead

LEMMA CountByteType ==
  ASSUME NEW s \in SymbolsRead, NEW byte \in Bytes
  PROVE  count_byte(s, byte) \in SymbolsRead
<1>1. PICK e \in Nat, a \in Nat, m \in Nat :
        e = s.expecting /\ a = s.ascii /\ m = s.not_ascii
  BY DEF SymbolsRead
<1>2. /\ expected(byte) \in Nat /\ a + 1 \in Nat /\ m + 1 \in Nat /\ 0 \in Nat
      /\ TRUE \in BOOLEAN /\ FALSE \in BOOLEAN
  BY DEF expected
<1>3. /\ Stopped(e, a, m) \in SymbolsRead
      /\ e > 1 => Counting(e - 1, a, m) \in SymbolsRead
      /\ Counting(0, a, m + 1) \in SymbolsRead
      /\ Counting(0, a + 1, m) \in SymbolsRead
      /\ Counting(expected(byte), a, m) \in SymbolsRead
  <2>1. e > 1 => e - 1 \in Nat
    OBVIOUS
  <2> QED
    BY <1>2, <2>1, CountingFields, StoppedFields, Zenon
<1> QED
  BY <1>1, <1>3 DEF count_byte

(* What a byte is counted as.                                              *)
LEMMA CountOne ==
  ASSUME NEW a \in Nat, NEW m \in Nat, NEW byte \in Bytes
  PROVE  /\ byte \in 128 .. 191 =>
              count_byte(Counting(0, a, m), byte) = Stopped(0, a, m)
         /\ byte < 128 =>
              count_byte(Counting(0, a, m), byte) = Counting(0, a + 1, m)
         /\ byte >= 192 =>
              count_byte(Counting(0, a, m), byte) = Counting(expected(byte), a, m)
<1>1. PICK s : s = Counting(0, a, m)
  OBVIOUS
<1>2. s.expecting = 0 /\ s.ascii = a /\ s.not_ascii = m /\ ~s.error
  BY <1>1 DEF Counting
<1>3. Continues(byte) <=> byte \in 128 .. 191
  BY ByteKinds DEF Bytes
<1>4. ~(0 > 0) /\ ~(0 > 1) /\ 0 # 1
  OBVIOUS
<1>5. /\ byte \in 128 .. 191 => count_byte(s, byte) = Stopped(0, a, m)
      /\ byte \notin 128 .. 191 /\ byte < 128 =>
           count_byte(s, byte) = Counting(0, a + 1, m)
      /\ byte \notin 128 .. 191 /\ ~(byte < 128) =>
           count_byte(s, byte) = Counting(expected(byte), a, m)
  BY <1>2, <1>3, <1>4, Zenon DEF count_byte
<1>6. /\ byte < 128 => byte \notin 128 .. 191
      /\ byte >= 192 => byte \notin 128 .. 191 /\ ~(byte < 128)
  BY DEF Bytes
<1> QED
  BY <1>1, <1>5, <1>6, Zenon

CountedRest(e, a, m) ==
  IF e = 1 THEN Counting(0, a, m + 1) ELSE Counting(e - 1, a, m)

LEMMA CountRest ==
  ASSUME NEW e \in Nat, e > 0, NEW a \in Nat, NEW m \in Nat,
         NEW byte, Continues(byte)
  PROVE  count_byte(Counting(e, a, m), byte) = CountedRest(e, a, m)
<1>1. PICK s : s = Counting(e, a, m)
  OBVIOUS
<1>2. s.expecting = e /\ s.ascii = a /\ s.not_ascii = m /\ ~s.error
  BY <1>1 DEF Counting
<1>3. Continues(byte) /\ e > 0 /\ (e > 1 <=> e # 1)
  OBVIOUS
<1> QED
  BY <1>1, <1>2, <1>3, Zenon DEF count_byte, CountedRest

(* One byte more.                                                          *)
LEMMA CountAppend ==
  ASSUME NEW b \in Seq(Bytes), NEW x \in Bytes
  PROVE  /\ count_symbols(b) \in SymbolsRead
         /\ count_symbols(<<>>) = NothingRead
         /\ count_symbols(Append(b, x)) = count_byte(count_symbols(b), x)
<1>1. PICK n \in Nat : n = Len(b)
  OBVIOUS
<1>2. PICK t : t = Append(b, x)
  OBVIOUS
<1>3. /\ Len(t) = n + 1 /\ t[n + 1] = x
      /\ \A k \in 1 .. n : t[k] = b[k] /\ b[k] \in Bytes
      /\ Len(<<>>) = 0
  BY <1>1, <1>2
<1> DEFINE Count(y) == [s \in SymbolsRead |-> count_byte(s, y)]
           F(r) == [k \in 1 .. Len(r) |-> Count(r[k])]
<1>4. /\ \A y \in Bytes : Count(y) \in [SymbolsRead -> SymbolsRead]
      /\ \A s \in SymbolsRead : Count(x)[s] = count_byte(s, x)
  BY CountByteType
<1>5. \A r : count_symbols(r) = After(Len(r), NothingRead, F(r))[Len(r)]
  BY Zenon DEF count_symbols
<1> HIDE DEF Count
<1>6. /\ Closed(n + 1, SymbolsRead, F(t)) /\ Closed(n, SymbolsRead, F(b))
      /\ Closed(0, SymbolsRead, F(<<>>)) /\ NothingRead \in SymbolsRead
  <2>1. NothingRead \in SymbolsRead
    BY CountingFields DEF NothingRead
  <2> QED
    BY <1>1, <1>3, <1>4, <2>1 DEF Closed
<1>7. F(t)[n + 1] = Count(x) /\ \A k \in 1 .. n : F(t)[k] = F(b)[k]
  BY <1>1, <1>3
<1>8. /\ After(n, NothingRead, F(b))[n] \in SymbolsRead
      /\ After(n + 1, NothingRead, F(t))[n + 1]
           = F(t)[n + 1][After(n, NothingRead, F(b))[n]]
  <2>1. PICK g, h : g = F(t) /\ h = F(b)
    OBVIOUS
  <2> HIDE DEF F
  <2>2. /\ Closed(n + 1, SymbolsRead, g) /\ Closed(n, SymbolsRead, h)
        /\ \A k \in 1 .. n : g[k] = h[k]
    BY <1>6, <1>7, <2>1
  <2>3. NothingRead \in SymbolsRead
    BY <1>6
  <2>4. /\ After(n, NothingRead, h)[n] \in SymbolsRead
        /\ After(n + 1, NothingRead, g)[n + 1]
             = g[n + 1][After(n, NothingRead, h)[n]]
    BY <2>2, <2>3, LoopGrows
  <2> QED
    BY <2>1, <2>4
<1> HIDE DEF F
<1>9. After(0, NothingRead, F(<<>>))[0] = NothingRead
  BY <1>6, LoopBegins, Zenon
<1> QED
  BY <1>1, <1>2, <1>3, <1>4, <1>5, <1>7, <1>8, <1>9

LEMMA CountNothing == count_symbols(<<>>) = Counting(0, 0, 0)
<1>1. <<>> \in Seq(Bytes) /\ 0 \in Bytes
  BY DEF Bytes
<1> QED
  BY <1>1, CountAppend, Zenon DEF NothingRead

(* The bytes of one symbol more, one after the other.                      *)
Counts(S, b, char, n) ==
  /\ S[0] = count_symbols(b)
  /\ S[n] = count_symbols(b \o char)
  /\ \A k \in 0 .. n - 1 : S[k + 1] = count_byte(S[k], char[k + 1])

LEMMA CountParts ==
  ASSUME NEW b \in Seq(Bytes), NEW char \in Seq(Bytes),
         NEW n \in Nat, n = Len(char)
  PROVE  \E S : Counts(S, b, char, n)
<1> DEFINE Part(k) == b \o SubSeq(char, 1, k)
           S == [k \in 0 .. n |-> count_symbols(Part(k))]
<1>2. Part(0) = b /\ Part(n) = b \o char
  BY Prefixes
<1>3. ASSUME NEW k \in 0 .. n - 1
      PROVE  /\ Part(k) \in Seq(Bytes) /\ char[k + 1] \in Bytes
             /\ Part(k + 1) = Append(Part(k), char[k + 1])
  <2>1. /\ SubSeq(char, 1, k) \in Seq(Bytes)
        /\ SubSeq(char, 1, k + 1) = Append(SubSeq(char, 1, k), char[k + 1])
        /\ char[k + 1] \in Bytes
    BY Prefixes
  <2>2. PICK p \in Seq(Bytes) : p = SubSeq(char, 1, k)
    BY <2>1
  <2>3. b \o Append(p, char[k + 1]) = Append(b \o p, char[k + 1])
    BY <2>1
  <2> QED
    BY <2>1, <2>2, <2>3
<1> HIDE DEF Part
<1>4. ASSUME NEW k \in 0 .. n - 1
      PROVE  S[k + 1] = count_byte(S[k], char[k + 1])
  <2>1. S[k] = count_symbols(Part(k)) /\ S[k + 1] = count_symbols(Part(k + 1))
    OBVIOUS
  <2> HIDE DEF S
  <2>2. count_symbols(Part(k + 1)) = count_byte(count_symbols(Part(k)), char[k + 1])
    BY <1>3, CountAppend
  <2> QED
    BY <2>1, <2>2
<1>5. S[0] = count_symbols(b) /\ S[n] = count_symbols(b \o char)
  <2>1. 0 \in 0 .. n /\ n \in 0 .. n
    OBVIOUS
  <2>2. S[0] = count_symbols(Part(0)) /\ S[n] = count_symbols(Part(n))
    BY <2>1
  <2> HIDE DEF S
  <2> QED
    BY <1>2, <2>2
<1> HIDE DEF S
<1>6. Counts(S, b, char, n)
  BY <1>4, <1>5 DEF Counts
<1> QED
  BY <1>6

LEMMA CountAfterError ==
  ASSUME NEW b \in Seq(Bytes), NEW char \in Seq(Bytes),
         NEW e \in Nat, NEW a \in Nat, NEW m \in Nat,
         count_symbols(b) = Stopped(e, a, m)
  PROVE  count_symbols(b \o char) = Stopped(e, a, m)
<1>1. PICK n \in Nat : n = Len(char)
  OBVIOUS
<1> DEFINE Step(S, k) == S[k + 1] = count_byte(S[k], char[k + 1])
<1>2. PICK S : /\ S[0] = count_symbols(b)
               /\ S[n] = count_symbols(b \o char)
               /\ \A k \in 0 .. n - 1 : Step(S, k)
  <2>1. PICK S : Counts(S, b, char, n)
    BY <1>1, CountParts, Zenon
  <2> QED
    BY <2>1, Zenon DEF Counts
<1> DEFINE H == {k \in 0 .. n : S[k] = Stopped(e, a, m)}
<1>3. 0 \in H
  BY <1>2
<1>4. ASSUME NEW k \in 0 .. n - 1, k \in H PROVE k + 1 \in H
  <2>1. S[k + 1] = count_byte(Stopped(e, a, m), char[k + 1])
    BY <1>2, <1>4
  <2>2. char[k + 1] \in Bytes /\ 0 \in Nat
    BY <1>1
  <2>3. S[k + 1] = Stopped(e, a, m)
    BY <2>1, StoppedFields, Zenon DEF count_byte
  <2> QED
    BY <2>3
<1>5. \A k \in 0 .. n - 1 : k \in H => k + 1 \in H
  BY <1>4
<1> HIDE DEF H
<1>6. \A k \in 0 .. n : k \in H
  BY <1>3, <1>5, Induction, Zenon
<1> QED
  BY <1>2, <1>6 DEF H

LEMMA CountStray ==
  ASSUME NEW b \in Seq(Bytes), NEW char \in Stray,
         NEW a \in Nat, NEW m \in Nat, count_symbols(b) = Counting(0, a, m)
  PROVE  count_symbols(b \o char) = Stopped(0, a, m)
<1>1. PICK byte \in 128 .. 191 : char = <<byte>>
  BY DEF Stray
<1>2. byte \in Bytes
  BY DEF Bytes
<1>3. b \o char = Append(b, byte)
  BY <1>1, <1>2
<1>4. count_symbols(b \o char) = count_byte(Counting(0, a, m), byte)
  BY <1>2, <1>3, CountAppend
<1> QED
  BY <1>2, <1>4, CountOne

(* Bytes that a symbol begins with, and how many follow.                   *)
FirstByte(c) == c \in Nat /\ c \in Bytes /\ (c < 128 \/ c >= 192)

LEMMA SymbolBegins ==
  ASSUME NEW c \in 0 .. 127 \cup 192 .. 247, c \notin {223, 239}
  PROVE  /\ FirstByte(c) /\ LengthBy(c) > 0
         /\ c >= 128 => LengthBy(c) > 1 /\ expected(c) = LengthBy(c) - 1
         /\ c < 128 => LengthBy(c) = 1
BY DEF LengthBy, expected, FirstByte, Bytes

CountedSymbol(char, a, m) ==
  IF Len(char) = 1 THEN Counting(0, a + 1, m) ELSE Counting(0, a, m + 1)

LEMMA CountSymbol ==
  ASSUME NEW b \in Seq(Bytes), NEW char \in Seq(Bytes), IsUtf8(char),
         char[1] \notin {223, 239},
         NEW a \in Nat, NEW m \in Nat, count_symbols(b) = Counting(0, a, m)
  PROVE  count_symbols(b \o char) = CountedSymbol(char, a, m)
<1>2. PICK n \in Nat : n = Len(char)
  OBVIOUS
<1> DEFINE Step(S, k) == S[k + 1] = count_byte(S[k], char[k + 1])
<1>3. PICK S : /\ S[0] = count_symbols(b)
               /\ S[n] = count_symbols(b \o char)
               /\ \A k \in 0 .. n - 1 : Step(S, k)
  <2>1. PICK S : Counts(S, b, char, n)
    BY <1>2, CountParts
  <2> QED
    BY <2>1, Zenon DEF Counts
<1>4. PICK c \in Nat : c = char[1] /\ c \in Bytes /\ (c < 128 \/ c >= 192)
  <2>1. FirstByte(char[1])
    BY SymbolBegins, Zenon DEF IsUtf8
  <2> QED
    BY <2>1, Zenon DEF FirstByte
<1>5. /\ n = LengthBy(c) /\ \A k \in 2 .. n : char[k] \in 128 .. 191
      /\ n > 0
  <2>1. n = LengthBy(c)
    <3>1. Len(char) = LengthBy(char[1])
      BY DEF IsUtf8
    <3> QED
      BY <1>2, <1>4, <3>1
  <2>2. \A k \in 2 .. n : char[k] \in 128 .. 191
    BY <1>2, Zenon DEF IsUtf8
  <2>3. LengthBy(char[1]) > 0
    BY SymbolBegins, Zenon DEF IsUtf8
  <2> QED
    BY <1>4, <2>1, <2>2, <2>3
<1>6. (c >= 128 => n > 1 /\ expected(c) = n - 1) /\ (c < 128 => n = 1)
  <2>1. /\ char[1] >= 128 => /\ LengthBy(char[1]) > 1
                             /\ expected(char[1]) = LengthBy(char[1]) - 1
        /\ char[1] < 128 => LengthBy(char[1]) = 1
    BY SymbolBegins, Zenon DEF IsUtf8
  <2> QED
    BY <1>4, <1>5, <2>1
<1>7. S[1] = count_byte(Counting(0, a, m), c)
  <2>1. 0 \in 0 .. n - 1 /\ 0 + 1 = 1
    BY <1>5
  <2>2. Step(S, 0)
    BY <1>3, <2>1, Zenon
  <2> QED
    BY <1>3, <1>4, <2>1, <2>2
<1>8. CASE c < 128
  <2>1. n = 1
    BY <1>6, <1>8
  <2>2. S[1] = Counting(0, a + 1, m)
    BY <1>4, <1>7, <1>8, CountOne
  <2> QED
    BY <1>2, <1>3, <2>1, <2>2 DEF CountedSymbol
<1>9. CASE c >= 128
  <2>1. n > 1 /\ expected(c) = n - 1
    BY <1>6, <1>9
  <2>2. S[1] = Counting(n - 1, a, m)
    <3>1. c >= 192
      BY <1>4, <1>9
    <3> QED
      BY <1>4, <1>7, <2>1, <3>1, CountOne
  <2> DEFINE H == {k \in 0 .. n - 1 :
                     S[k + 1] = IF k + 1 < n THEN Counting(n - (k + 1), a, m)
                                ELSE Counting(0, a, m + 1)}
  <2>3. 0 \in H
    BY <2>1, <2>2
  <2>4. ASSUME NEW k \in 0 .. (n - 1) - 1, k \in H PROVE k + 1 \in H
    <3>1. PICK e \in Nat : e = n - (k + 1) /\ e > 0
      OBVIOUS
    <3>2. S[k + 1] = Counting(e, a, m)
      BY <2>4, <3>1
    <3>3. PICK d \in 128 .. 191 : d = char[(k + 1) + 1]
      BY <1>5, (k + 1) + 1 \in 2 .. n
    <3>4. S[(k + 1) + 1] = count_byte(Counting(e, a, m), d)
      BY <1>3, <3>2, <3>3, k + 1 \in 0 .. n - 1
    <3>5. S[(k + 1) + 1] = IF e = 1 THEN Counting(0, a, m + 1)
                           ELSE Counting(e - 1, a, m)
      <4>1. Continues(d) /\ e > 0
        BY <3>1, ByteKinds
      <4>2. count_byte(Counting(e, a, m), d) = CountedRest(e, a, m)
        BY <4>1, CountRest
      <4> QED
        BY <3>4, <4>2, Zenon DEF CountedRest
    <3>6. CASE e = 1
      BY <3>1, <3>5, <3>6
    <3>7. CASE e # 1
      <4>1. (k + 1) + 1 < n /\ n - ((k + 1) + 1) = e - 1
        BY <3>1, <3>7
      <4> QED
        BY <3>5, <3>7, <4>1
    <3> QED
      BY <3>6, <3>7
  <2>5. \A k \in 0 .. (n - 1) - 1 : k \in H => k + 1 \in H
    BY <2>4
  <2>6. S[n] = Counting(0, a, m + 1)
    <3>1. n - 1 \in Nat
      BY <2>1
    <3>2. n - 1 \in H
      <4> HIDE DEF H
      <4>1. \A k \in 0 .. n - 1 : k \in H
        BY <2>3, <2>5, <3>1, Induction, Zenon
      <4> QED
        BY <3>1, <4>1
    <3>3. (n - 1) + 1 = n
      OBVIOUS
    <3> QED
      BY <3>2, <3>3
  <2> QED
    BY <1>2, <1>3, <2>1, <2>6, n # 1 DEF CountedSymbol
<1> QED
  BY <1>4, <1>8, <1>9

(* A symbol whose first byte is misjudged leaves the program waiting for a *)
(* byte more ...                                                           *)
LEMMA MisjudgedBegins ==
  ASSUME NEW c \in Misjudged
  PROVE  /\ c \in Bytes /\ c >= 192 /\ ~(c < 128)
         /\ \/ LengthBy(c) = 2 /\ expected(c) = 2
            \/ LengthBy(c) = 3 /\ expected(c) = 3
BY DEF LengthBy, expected, Misjudged, Bytes

LEMMA CountMisjudged ==
  ASSUME NEW b \in Seq(Bytes), NEW char \in Seq(Bytes), IsUtf8(char),
         char[1] \in Misjudged,
         NEW a \in Nat, NEW m \in Nat, count_symbols(b) = Counting(0, a, m)
  PROVE  count_symbols(b \o char) = Counting(1, a, m)
<1>1. PICK n \in Nat : n = Len(char)
  OBVIOUS
<1>2. PICK c : /\ c = char[1] /\ c \in Bytes /\ c >= 192
               /\ \/ n = 2 /\ expected(c) = 2
                  \/ n = 3 /\ expected(c) = 3
  <2>1. n = LengthBy(char[1])
    BY <1>1, Zenon DEF IsUtf8
  <2> QED
    BY <2>1, MisjudgedBegins
<1>3. PICK S : /\ S[0] = count_symbols(b)
               /\ S[n] = count_symbols(b \o char)
               /\ \A k \in 0 .. n - 1 :
                    S[k + 1] = count_byte(S[k], char[k + 1])
  <2>1. PICK S : Counts(S, b, char, n)
    BY <1>1, CountParts, Zenon
  <2> QED
    BY <2>1, Zenon DEF Counts
<1>4. \A k \in 2 .. n : Continues(char[k])
  <2>1. \A k \in 2 .. n : char[k] \in 128 .. 191
    BY <1>1, Zenon DEF IsUtf8
  <2> QED
    BY <2>1, ByteKinds, Zenon
<1>5. \A e \in Nat : e > 1 =>
        \A byte : Continues(byte) =>
          count_byte(Counting(e, a, m), byte) = Counting(e - 1, a, m)
  <2> TAKE e \in Nat
  <2> HAVE e > 1
  <2>1. ASSUME NEW byte, Continues(byte)
        PROVE  count_byte(Counting(e, a, m), byte) = CountedRest(e, a, m)
    BY <2>1, CountRest
  <2> QED
    BY <2>1 DEF CountedRest
<1>6. S[1] = Counting(expected(c), a, m)
  <2>1. 0 \in 0 .. n - 1 /\ 0 + 1 = 1
    BY <1>2
  <2>2. S[1] = count_byte(Counting(0, a, m), c)
    BY <1>2, <1>3, <2>1
  <2> QED
    BY <1>2, <2>2, CountOne
<1>7. CASE n = 2 /\ expected(c) = 2
  <2>1. S[2] = count_byte(S[1], char[2])
    BY <1>3, <1>7
  <2> QED
    BY <1>3, <1>4, <1>5, <1>6, <1>7, <2>1
<1>8. CASE n = 3 /\ expected(c) = 3
  <2>1. S[2] = count_byte(S[1], char[2]) /\ S[3] = count_byte(S[2], char[3])
    BY <1>3, <1>8
  <2>2. S[2] = Counting(2, a, m)
    BY <1>4, <1>5, <1>6, <1>8, <2>1
  <2> QED
    BY <1>3, <1>4, <1>5, <1>8, <2>1, <2>2
<1> QED
  BY <1>2, <1>7, <1>8

(* ... and the next symbol is an error.                                    *)
LEMMA CountBroken ==
  ASSUME NEW b \in Seq(Bytes), NEW char \in Seq(Bytes), IsUtf8(char),
         NEW a \in Nat, NEW m \in Nat, count_symbols(b) = Counting(1, a, m)
  PROVE  count_symbols(b \o char) = Stopped(1, a, m)
<1>1. PICK n \in Nat : n = Len(char) /\ n > 0
  BY EmptySeq, LenProperties DEF IsUtf8
<1>2. PICK S : /\ S[0] = count_symbols(b)
               /\ S[n] = count_symbols(b \o char)
               /\ \A k \in 0 .. n - 1 :
                    S[k + 1] = count_byte(S[k], char[k + 1])
  <2>1. PICK S : Counts(S, b, char, n)
    BY <1>1, CountParts, Zenon
  <2> QED
    BY <2>1, Zenon DEF Counts
<1>3. ~Continues(char[1])
  <2>1. char[1] \in 0 .. 127 \cup 192 .. 247
    BY Zenon DEF IsUtf8
  <2>2. char[1] \in 0 .. 127 \cup 192 .. 255
    BY <2>1
  <2> QED
    BY <2>2, ByteKinds, Zenon
<1> DEFINE H == {k \in 0 .. n - 1 : S[k + 1] = Stopped(1, a, m)}
<1>4. 0 \in H
  <2>1. S[1] = count_byte(Counting(1, a, m), char[1])
    <3>1. 0 \in 0 .. n - 1 /\ 0 + 1 = 1
      BY <1>1
    <3> QED
      BY <1>2, <3>1
  <2>2. PICK s : s = Counting(1, a, m)
    OBVIOUS
  <2>3. s.expecting = 1 /\ s.ascii = a /\ s.not_ascii = m /\ ~s.error
    BY <2>2 DEF Counting
  <2>4. 1 > 0
    OBVIOUS
  <2>5. count_byte(s, char[1]) = Stopped(1, a, m)
    BY <1>3, <2>3, <2>4, Zenon DEF count_byte
  <2> QED
    BY <1>1, <2>1, <2>2, <2>5
<1>5. ASSUME NEW k \in 0 .. (n - 1) - 1, k \in H PROVE k + 1 \in H
  <2>1. S[(k + 1) + 1] = count_byte(Stopped(1, a, m), char[(k + 1) + 1])
    BY <1>2, <1>5, k + 1 \in 0 .. n - 1
  <2>2. S[(k + 1) + 1] = Stopped(1, a, m)
    BY <2>1, StoppedFields, Zenon DEF count_byte
  <2> QED
    BY <2>2
<1>6. \A k \in 0 .. (n - 1) - 1 : k \in H => k + 1 \in H
  BY <1>5
<1>7. n - 1 \in H
  <2> HIDE DEF H
  <2>1. n - 1 \in Nat
    BY <1>1
  <2>2. \A k \in 0 .. n - 1 : k \in H
    BY <1>4, <1>6, <2>1, Induction, Zenon
  <2> QED
    BY <2>1, <2>2
<1> QED
  BY <1>1, <1>2, <1>7

(* How many of the first symbols have one byte.                            *)
Ascii(chars, k) == Cardinality({i \in 1 .. k : Len(chars[i]) = 1})

LEMMA AsciiGrows ==
  ASSUME NEW chars, NEW k \in Nat
  PROVE  /\ Ascii(chars, 0) = 0
         /\ Ascii(chars, k) \in Nat /\ k - Ascii(chars, k) \in Nat
         /\ Ascii(chars, k + 1) = IF Len(chars[k + 1]) = 1
                                  THEN Ascii(chars, k) + 1
                                  ELSE Ascii(chars, k)
<1> DEFINE A(i) == {j \in 1 .. i : Len(chars[j]) = 1}
<1>1. Ascii(chars, 0) = 0
  <2>1. A(0) = {}
    OBVIOUS
  <2> QED
    BY <2>1, FS_EmptySet DEF Ascii
<1>2. IsFiniteSet(1 .. k) /\ Cardinality(1 .. k) = k
  BY FS_Interval
<1>3. /\ IsFiniteSet(A(k)) /\ Cardinality(A(k)) \in Nat
      /\ Cardinality(A(k)) <= k
  <2>1. A(k) \subseteq 1 .. k
    OBVIOUS
  <2> HIDE DEF A
  <2> QED
    BY <1>2, <2>1, FS_Subset, FS_CardinalityType
<1>4. k + 1 \notin A(k)
  OBVIOUS
<1> PICK x \in Nat : x = Cardinality(A(k))
  BY <1>3
<1>7. Ascii(chars, k) = x /\ Ascii(chars, k + 1) = Cardinality(A(k + 1))
  BY Zenon DEF Ascii
<1>5. CASE Len(chars[k + 1]) = 1
  <2>1. A(k + 1) = A(k) \cup {k + 1}
    BY <1>5
  <2> HIDE DEF A
  <2>2. Cardinality(A(k + 1)) = Cardinality(A(k)) + 1
    BY <1>3, <1>4, <2>1, FS_AddElement
  <2> QED
    BY <1>1, <1>3, <1>5, <1>7, <2>2
<1>6. CASE Len(chars[k + 1]) # 1
  <2>1. A(k + 1) = A(k)
    BY <1>6
  <2> HIDE DEF A
  <2> QED
    BY <1>1, <1>3, <1>6, <1>7, <2>1
<1> QED
  BY <1>5, <1>6

Proper(char) == IsUtf8(char) /\ char[1] \notin {223, 239}
AsciiOfNext(char, k, x, y) ==
  k - x \in Nat /\ y = IF Len(char) = 1 THEN x + 1 ELSE x

(* One symbol more, of which x or y before it and after it have one byte.   *)
LEMMA CountNext ==
  ASSUME NEW b \in Seq(Bytes), NEW char \in Seq(Bytes), Proper(char),
         NEW k \in Nat, NEW x \in Nat, NEW y \in Nat, AsciiOfNext(char, k, x, y),
         count_symbols(b) = Counting(0, x, k - x)
  PROVE  count_symbols(b \o char) = Counting(0, y, (k + 1) - y)
<1>1. PICK m \in Nat : m = k - x
  BY DEF AsciiOfNext
<1>2. count_symbols(b \o char) = CountedSymbol(char, x, m)
  BY <1>1, CountSymbol DEF Proper
<1>3. IF Len(char) = 1 THEN y = x + 1 /\ (k + 1) - y = m
      ELSE y = x /\ (k + 1) - y = m + 1
  BY <1>1 DEF AsciiOfNext
<1> QED
  BY <1>2, <1>3 DEF CountedSymbol

(* The beginning of a text without stray bytes.                            *)
LEMMA FirstOf ==
  ASSUME NEW n \in Nat, NEW stray \in SUBSET (1 .. n)
  PROVE  \E v \in 0 .. n : /\ Min(stray \cup {n + 1}) = v + 1
                           /\ \A k \in 1 .. v : k \notin stray
                           /\ v < n => v + 1 \in stray
                           /\ v = n <=> stray = {}
<1> DEFINE T == stray \cup {n + 1}
<1>1. T \in SUBSET Nat /\ T \in SUBSET Int /\ T # {}
  OBVIOUS
<1>2. PICK t \in T : \A x \in T : t <= x
  <2> HIDE DEF T
  <2> QED
    BY <1>1, LeastOf, Zenon
<1>3. Min(T) = t
  <2> HIDE DEF T
  <2> QED
    BY <1>1, <1>2, MinIs, Zenon
<1>4. PICK v \in 0 .. n : t = v + 1
  BY <1>2
<1>5. /\ \A k \in 1 .. v : k \notin stray
      /\ v < n => v + 1 \in stray
      /\ v = n <=> stray = {}
  BY <1>2, <1>4
<1> QED
  BY <1>3, <1>4, <1>5

(* Symbols and stray bytes.                                                *)
IsText(chars, n) ==
  \A k \in 1 .. n : /\ chars[k] \in Seq(Bytes)
                    /\ chars[k] \in Stray \/ IsUtf8(chars[k])

(* They are joined one after the other.                                    *)
Joins(j, chars, k) ==
  /\ j[k] \in Seq(Bytes) /\ chars[k + 1] \in Seq(Bytes)
  /\ j[k + 1] = j[k] \o chars[k + 1]

LEMMA JoinedOneByOne ==
  ASSUME NEW chars, NEW n \in Nat, n = Len(chars), IsText(chars, n)
  PROVE  \E j : /\ \A k \in 0 .. n - 1 : Joins(j, chars, k)
                /\ j[0] = <<>> /\ j[n] = Joined(chars)
                /\ \A k \in 0 .. n : j[k] \in Seq(Bytes)
<1> DEFINE S == Seq(Bytes)
           F == [k \in 1 .. n |-> [bytes \in S |-> bytes \o chars[k]]]
<1>1. Joined(chars) = After(n, <<>>, F)[n]
  BY Zenon DEF Joined
<1>2. Closed(n, S, F) /\ <<>> \in S
  BY DEF Closed, IsText
<1>3. \A k \in 1 .. n : \A s \in S : F[k][s] = s \o chars[k]
  OBVIOUS
<1> HIDE DEF S, F
<1>4. PICK j \in [0 .. n -> S] : j = After(n, <<>>, F) /\ IsLoop(j, n, <<>>, F)
  BY <1>2, Loop, Zenon
<1>5. ASSUME NEW k \in 0 .. n - 1 PROVE Joins(j, chars, k)
  <2>1. k + 1 \in 1 .. n /\ (k + 1) - 1 = k /\ j[k] \in S
    OBVIOUS
  <2>2. j[k + 1] = j[k] \o chars[k + 1]
    <3>1. j[k + 1] = F[k + 1][j[k]]
      BY <1>4, <2>1 DEF IsLoop
    <3> QED
      BY <1>3, <2>1, <3>1, Zenon
  <2> QED
    BY <2>1, <2>2 DEF Joins, IsText, S
<1>6. \A k \in 0 .. n : j[k] \in Seq(Bytes)
  BY DEF S
<1> QED
  BY <1>1, <1>4, <1>5, <1>6 DEF IsLoop

(* Without stray bytes up to v, all the symbols are counted.               *)
LEMMA ValidAreCounted ==
  ASSUME NEW chars, NEW n \in Nat, IsText(chars, n), NEW v \in 0 .. n,
         \A k \in 1 .. v : chars[k] \notin Stray /\ chars[k][1] \notin {223, 239},
         NEW j, j[0] = <<>>, \A k \in 0 .. n - 1 : Joins(j, chars, k)
  PROVE  count_symbols(j[v]) = Counting(0, Ascii(chars, v), v - Ascii(chars, v))
<1> DEFINE Counted(k) ==
      count_symbols(j[k]) = Counting(0, Ascii(chars, k), k - Ascii(chars, k))
           H == {k \in 0 .. v : Counted(k)}
<1>1. 0 \in H
  <2>1. count_symbols(j[0]) = Counting(0, 0, 0)
    BY CountNothing
  <2>2. 0 \in 0 .. v /\ 0 \in Nat /\ 0 - 0 = 0
    OBVIOUS
  <2>3. Ascii(chars, 0) = 0
    BY <2>2, AsciiGrows, Zenon
  <2> QED
    BY <2>1, <2>2, <2>3
<1>2. ASSUME NEW k \in 0 .. v - 1, k \in H PROVE k + 1 \in H
  <2>1. k \in Nat /\ k + 1 \in 0 .. v /\ k + 1 \in 1 .. v /\ k + 1 \in 1 .. n
        /\ k \in 0 .. n - 1
    OBVIOUS
  <2>2. Joins(j, chars, k)
    BY <2>1
  <2>3. PICK b \in Seq(Bytes), char \in Seq(Bytes) :
          b = j[k] /\ char = chars[k + 1] /\ j[k + 1] = b \o char
    BY <2>2, Zenon DEF Joins
  <2>4. Proper(char)
    <3>1. /\ chars[k + 1] \notin Stray /\ chars[k + 1][1] \notin {223, 239}
          /\ chars[k + 1] \in Stray \/ IsUtf8(chars[k + 1])
      BY <2>1, Zenon DEF IsText
    <3> QED
      BY <2>3, <3>1, Zenon DEF Proper
  <2>5. PICK x \in Nat : x = Ascii(chars, k) /\ k - x \in Nat
    BY <2>1, AsciiGrows
  <2>6. PICK y \in Nat : y = Ascii(chars, k + 1)
    BY <2>1, k + 1 \in Nat, AsciiGrows
  <2>7. AsciiOfNext(char, k, x, y)
    <3>1. Ascii(chars, k + 1) = IF Len(chars[k + 1]) = 1
                                THEN Ascii(chars, k) + 1 ELSE Ascii(chars, k)
      BY <2>1, AsciiGrows
    <3> QED
      BY <2>3, <2>5, <2>6, <3>1 DEF AsciiOfNext
  <2>8. count_symbols(b) = Counting(0, x, k - x)
    BY <1>2, <2>3, <2>5
  <2>9. count_symbols(b \o char) = Counting(0, y, (k + 1) - y)
    BY k \in Nat, <2>4, <2>7, <2>8, CountNext, SMTT(60)
  <2>10. Counted(k + 1)
    BY <2>3, <2>6, <2>9, Zenon
  <2> QED
    BY <2>1, <2>10
<1>3. \A k \in 0 .. v - 1 : k \in H => k + 1 \in H
  BY <1>2
<1>4. v \in Nat /\ v \in 0 .. v
  OBVIOUS
<1>5. v \in H
  <2> HIDE DEF H
  <2> QED
    BY <1>1, <1>3, <1>4, Induction, Zenon
<1> QED
  BY <1>5

(* After an error, nothing is.                                             *)
AllJoin(j, chars, n) == \A k \in 0 .. n - 1 : Joins(j, chars, k)

StoppedAt(j, k, e, x, m) == count_symbols(j[k]) = Stopped(e, x, m)

LEMMA NothingCounted ==
  ASSUME NEW chars, NEW n \in Nat, NEW v \in 0 .. n, NEW j,
         AllJoin(j, chars, n),
         NEW e \in Nat, NEW x \in Nat, NEW m \in Nat,
         StoppedAt(j, v, e, x, m)
  PROVE  StoppedAt(j, n, e, x, m)
<1>1. PICK r \in Nat : n = v + r
  <2>1. n - v \in Nat /\ n = v + (n - v)
    OBVIOUS
  <2> QED
    BY <2>1
<1> DEFINE G == {k \in 0 .. r : count_symbols(j[v + k]) = Stopped(e, x, m)}
<1>2. 0 \in G
  <2>1. v + 0 = v /\ 0 \in 0 .. r
    OBVIOUS
  <2> QED
    BY <2>1 DEF StoppedAt
<1>3. ASSUME NEW k \in 0 .. r - 1, k \in G PROVE k + 1 \in G
  <2>1. PICK i \in 0 .. n - 1 : i = v + k
    BY <1>1
  <2>2. i + 1 = v + (k + 1) /\ k + 1 \in 0 .. r
    BY <2>1
  <2>3. PICK b \in Seq(Bytes), char \in Seq(Bytes) :
          b = j[i] /\ char = chars[i + 1] /\ j[i + 1] = b \o char
    BY Zenon DEF AllJoin, Joins
  <2>4. count_symbols(b) = Stopped(e, x, m)
    BY <1>3, <2>1, <2>3
  <2>5. count_symbols(b \o char) = Stopped(e, x, m)
    BY <2>4, CountAfterError, SMTT(60)
  <2>6. count_symbols(j[v + (k + 1)]) = Stopped(e, x, m)
    BY <2>2, <2>3, <2>5
  <2> QED
    BY <2>2, <2>6
<1>4. \A k \in 0 .. r - 1 : k \in G => k + 1 \in G
  BY <1>3
<1>5. r \in 0 .. r
  OBVIOUS
<1>6. r \in G
  <2> HIDE DEF G
  <2> QED
    BY <1>2, <1>4, <1>5, Induction, Zenon
<1> QED
  BY <1>1, <1>6 DEF StoppedAt

(* inf01-5: in any text of symbols, with stray bytes or without, those     *)
(* before the first stray byte are counted; or those before the first that *)
(* begins with 0xDF or 0xEF, whose comparison in the code is off by one,   *)
(* and the next one is taken for an error.                                 *)
THEOREM SymbolsAreCounted ==
  ASSUME NEW chars \in Seq(Seq(Bytes)),
         \A k \in 1 .. Len(chars) : chars[k] \in Stray \/ IsUtf8(chars[k])
  PROVE  CountsEach(chars)
<1>1. PICK n \in Nat : n = Len(chars) /\ DOMAIN chars = 1 .. n
  OBVIOUS
<1>2. IsText(chars, n)
  BY <1>1 DEF IsText
<1> DEFINE ends == {k \in 1 .. n : \/ chars[k] \in Stray
                                   \/ chars[k][1] \in Misjudged}
<1>3. PICK v \in 0 .. n : /\ Min(ends \cup {n + 1}) = v + 1
                          /\ \A k \in 1 .. v : k \notin ends
                          /\ v < n => v + 1 \in ends
  <2>1. ends \in SUBSET (1 .. n)
    OBVIOUS
  <2> HIDE DEF ends
  <2> QED
    BY <2>1, FirstOf
<1>4. PICK j : /\ \A k \in 0 .. n - 1 : Joins(j, chars, k)
               /\ j[0] = <<>> /\ j[n] = Joined(chars)
  BY <1>1, <1>2, JoinedOneByOne, Zenon
<1>5. \A k \in 1 .. v : chars[k] \notin Stray /\ chars[k][1] \notin {223, 239}
  BY <1>3 DEF Misjudged
<1>6. PICK x \in Nat, m \in Nat : x = Ascii(chars, v) /\ m = v - x
  BY AsciiGrows
<1>7. count_symbols(j[v]) = Counting(0, x, m)
  <2>1. count_symbols(j[v])
          = Counting(0, Ascii(chars, v), v - Ascii(chars, v))
    BY <1>2, <1>4, <1>5, ValidAreCounted, Zenon
  <2> QED
    BY <1>6, <2>1
<1>8. v = n => count_symbols(j[n]) = Counting(0, x, m)
  BY <1>7
<1>9. ASSUME v < n
      PROVE  \E b \in Seq(Bytes), char \in Seq(Bytes) :
               /\ b = j[v] /\ char = chars[v + 1] /\ j[v + 1] = b \o char
               /\ \/ char \in Stray
                  \/ IsUtf8(char) /\ char[1] \in Misjudged
  <2>1. v \in 0 .. n - 1 /\ v + 1 \in 1 .. n
    BY <1>9
  <2>2. \/ chars[v + 1] \in Stray
        \/ IsUtf8(chars[v + 1]) /\ chars[v + 1][1] \in Misjudged
    BY <1>3, <1>9, <2>1, <1>2 DEF IsText
  <2> QED
    BY <1>4, <2>1, <2>2, Zenon DEF Joins
<1>15. \A w \in 0 .. n, e \in Nat :
         count_symbols(j[w]) = Stopped(e, x, m) =>
           count_symbols(j[n]) = Stopped(e, x, m)
  <2>1. AllJoin(j, chars, n)
    BY <1>4, Zenon DEF AllJoin
  <2>2. ASSUME NEW w \in 0 .. n, NEW e \in Nat,
               count_symbols(j[w]) = Stopped(e, x, m)
        PROVE  count_symbols(j[n]) = Stopped(e, x, m)
    <3>1. StoppedAt(j, w, e, x, m)
      BY <2>2, Zenon DEF StoppedAt
    <3>2. StoppedAt(j, n, e, x, m)
      BY <2>1, <3>1, NothingCounted, Zenon
    <3> QED
      BY <3>2, Zenon DEF StoppedAt
  <2> QED
    BY <2>2, Zenon
<1>10. ASSUME v < n, chars[v + 1] \in Stray
       PROVE  count_symbols(j[n]) = Stopped(0, x, m)
  <2>1. PICK b \in Seq(Bytes), char \in Stray :
          b = j[v] /\ j[v + 1] = b \o char
    BY <1>9, <1>10, Zenon
  <2>2. count_symbols(j[v + 1]) = Stopped(0, x, m)
    BY <1>7, <2>1, CountStray, SMTT(60)
  <2>3. v + 1 \in 0 .. n /\ 0 \in Nat
    BY <1>10
  <2> QED
    BY <1>15, <2>2, <2>3, Zenon
<1>11. ASSUME v < n, chars[v + 1] \notin Stray
       PROVE  count_symbols(j[v + 1]) = Counting(1, x, m)
  <2>1. PICK b \in Seq(Bytes), char \in Seq(Bytes) :
          /\ b = j[v] /\ j[v + 1] = b \o char
          /\ IsUtf8(char) /\ char[1] \in Misjudged
    BY <1>9, <1>11, Zenon
  <2> QED
    BY <1>7, <2>1, CountMisjudged, SMTT(60)
<1>12. ASSUME v + 1 < n, chars[v + 1] \notin Stray,
              chars[(v + 1) + 1] \notin Stray
       PROVE  count_symbols(j[n]) = Stopped(1, x, m)
  <2>1. v < n /\ v + 1 \in 0 .. n - 1 /\ (v + 1) + 1 \in 1 .. n
        /\ (v + 1) + 1 \in 0 .. n /\ 1 \in Nat
    BY <1>12
  <2>2. PICK b \in Seq(Bytes), char \in Seq(Bytes) :
          /\ b = j[v + 1] /\ char = chars[(v + 1) + 1]
          /\ j[(v + 1) + 1] = b \o char
    BY <1>4, <2>1, Zenon DEF Joins
  <2>3. IsUtf8(char)
    BY <1>2, <1>12, <2>1, <2>2, Zenon DEF IsText
  <2>4. count_symbols(b) = Counting(1, x, m)
    BY <1>11, <1>12, <2>1, <2>2, Zenon
  <2>5. count_symbols(j[(v + 1) + 1]) = Stopped(1, x, m)
    BY <2>2, <2>3, <2>4, CountBroken, SMTT(60)
  <2> QED
    BY <1>15, <2>1, <2>5, Zenon
<1>13. CountsUpTo(chars, v)
  <2>1. v + 1 = n => v < n
    OBVIOUS
  <2>2. /\ v = n => count_symbols(j[n]) = Counting(0, x, m)
        /\ v < n /\ chars[v + 1] \in Stray =>
             count_symbols(j[n]) = Stopped(0, x, m)
        /\ v + 1 = n /\ chars[v + 1] \notin Stray =>
             count_symbols(j[n]) = Counting(1, x, m)
        /\ v + 1 < n /\ chars[v + 1] \notin Stray
             /\ chars[(v + 1) + 1] \notin Stray =>
             count_symbols(j[n]) = Stopped(1, x, m)
    BY <1>8, <1>10, <1>11, <1>12, <2>1, Zenon
  <2> QED
    BY <1>1, <1>4, <1>6, <2>2, Zenon DEF CountsUpTo, Ascii
<1>14. (v + 1) - 1 = v
  OBVIOUS
<1> QED
  BY <1>1, <1>3, <1>13, <1>14, Zenon DEF CountsEach

-----------------------------------------------------------------------------
(***************************************************************************)
(* inf08-0. Before its k-th search the program has printed, in their       *)
(* order, all occurrences before tmp; and tmp is at least k.               *)
(***************************************************************************)
LEMMA MinOf ==
  ASSUME NEW S, \A x \in S : x \in Nat, S # {}
  PROVE  Min(S) \in S /\ \A x \in S : Min(S) <= x
<1>1. S \in SUBSET Nat
  OBVIOUS
<1>2. S \in SUBSET Int
  OBVIOUS
<1>3. PICK m \in S : \A x \in S : m <= x
  BY <1>1, LeastOf, Zenon
<1>4. Min(S) = m
  BY <1>2, <1>3, MinIs, Zenon
<1> QED
  BY <1>3, <1>4

LEMMA OfSearch ==
  ASSUME NEW t, NEW q
  PROVE  /\ Searching(t, q).tmp = t /\ Searching(t, q).printed = q
         /\ Searching(t, q).searching
         /\ Ended(t, q).tmp = t /\ Ended(t, q).printed = q
         /\ ~Ended(t, q).searching
         /\ t \in Nat /\ q \in Seq(Nat) => /\ Searching(t, q) \in Searches
                                           /\ Ended(t, q) \in Searches
BY DEF Searches, Searching, Ended

(* A number behind an increasing sequence.                                 *)
Elements(q) == {q[k] : k \in DOMAIN q}
Increasing(q) == \A k \in 1 .. Len(q) - 1 : q[k] < q[k + 1]

LEMMA GrowsUp ==
  ASSUME NEW q \in Seq(Nat), Increasing(q), NEW x \in Nat,
         \A y \in Elements(q) : y < x
  PROVE  /\ Append(q, x) \in Seq(Nat) /\ Increasing(Append(q, x))
         /\ Elements(Append(q, x)) = Elements(q) \cup {x}
<1>1. PICK n \in Nat : n = Len(q) /\ DOMAIN q = 1 .. n
  OBVIOUS
<1>2. PICK r : r = Append(q, x) /\ r \in Seq(Nat)
  BY AppendProperties, Zenon
<1>3. /\ Len(r) = n + 1 /\ DOMAIN r = 1 .. n + 1 /\ r[n + 1] = x
      /\ \A k \in 1 .. n : r[k] = q[k] /\ q[k] \in Nat
  BY <1>1, <1>2
<1>4. Elements(r) = Elements(q) \cup {x}
  BY <1>1, <1>3 DEF Elements
<1>5. ASSUME NEW k \in 1 .. (n + 1) - 1 PROVE r[k] < r[k + 1]
  <2>1. CASE k = n
    <3>1. q[n] \in Elements(q)
      BY <1>1, <2>1 DEF Elements
    <3> QED
      BY <1>3, <2>1, <3>1
  <2>2. CASE k # n
    <3>1. k \in 1 .. n - 1 /\ k + 1 \in 1 .. n
      BY <2>2
    <3>2. q[k] < q[k + 1]
      BY <1>1, <3>1 DEF Increasing
    <3> QED
      BY <1>3, <3>1, <3>2
  <2> QED
    BY <2>1, <2>2
<1> QED
  BY <1>2, <1>3, <1>4, <1>5 DEF Increasing

(* What the k-th search begins with: everything before tmp is printed, and *)
(* what is not printed will be, or tmp is at least k.                      *)
Searched(s, k, places) ==
  /\ s.tmp \in Nat /\ s.printed \in Seq(Nat) /\ Increasing(s.printed)
  /\ Elements(s.printed) = {p \in places : p < s.tmp}
  /\ s.searching => k <= s.tmp
  /\ ~s.searching => \A p \in places : p < s.tmp

LEMMA SearchOn ==
  ASSUME NEW file, NEW str, NEW L \in Nat, NEW n \in Nat, n > 0,
         L = Len(file), n = Len(str), NEW s, NEW k \in Nat,
         Searched(s, k, memmem(file, 0, str))
  PROVE  Searched(search(s, file, str), k + 1, memmem(file, 0, str))
<1>1. PICK P : P = memmem(file, 0, str)
  OBVIOUS
<1>6. \A p \in P : p \in Nat /\ p < L
  BY <1>1 DEF memmem
<1>2. PICK t \in Nat : t = s.tmp
  BY DEF Searched
<1>3. memmem(file, t, str) = {p \in P : t <= p}
  BY <1>1 DEF memmem
<1> DEFINE T == {p \in P : t <= p}
<1>4. CASE s.searching /\ T # {}
  <2>1. PICK m \in T : m = Min(T) /\ \A x \in T : m <= x
    <3>1. \A x \in T : x \in Nat
      BY <1>6
    <3> HIDE DEF T
    <3> QED
      BY <1>4, <3>1, MinOf, Zenon
  <2>3. search(s, file, str)
          = IF m + 1 < L THEN Searching(m + 1, Append(s.printed, m))
            ELSE Ended(m + 1, Append(s.printed, m))
    BY <1>2, <1>3, <1>4, <2>1, Zenon DEF search, next_search
  <2>4. PICK z : z = search(s, file, str)
    OBVIOUS
  <2>5. /\ z.tmp = m + 1 /\ (z.searching <=> m + 1 < L)
        /\ z.printed = Append(s.printed, m)
    BY <2>3, <2>4 DEF Searching, Ended
  <2>6. m \in Nat /\ m \in P /\ t <= m /\ \A x \in P : x < m <=> x < t
    <3>1. m \in P /\ t <= m /\ m \in Nat
      BY <1>6
    <3>2. ASSUME NEW x \in P PROVE x < m <=> x < t
      <4>1. x \in Nat
        BY <1>6
      <4>2. t <= x => m <= x
        BY <2>1
      <4> QED
        BY <3>1, <4>1, <4>2
    <3> QED
      BY <3>1, <3>2
  <2>7. \A y \in Elements(s.printed) : y < m
    BY <1>1, <1>2, <2>6 DEF Searched
  <2>8. /\ z.printed \in Seq(Nat) /\ Increasing(z.printed)
        /\ Elements(z.printed) = Elements(s.printed) \cup {m}
    <3>1. s.printed \in Seq(Nat) /\ Increasing(s.printed)
      BY DEF Searched
    <3> QED
      BY <2>5, <2>6, <2>7, <3>1, GrowsUp
  <2>9. Elements(z.printed) = {p \in P : p < m + 1}
    <3>1. Elements(s.printed) = {p \in P : p < t}
      BY <1>1, <1>2 DEF Searched
    <3>2. {p \in P : p < t} \cup {m} = {p \in P : p < m + 1}
      <4>1. \A x \in P : x < m + 1 <=> (x < t \/ x = m)
        <5>1. \A x \in P : x < m + 1 <=> (x < m \/ x = m)
          BY <1>6, <2>6
        <5> QED
          BY <2>6, <5>1, Zenon
      <4> QED
        BY <2>6, <4>1
    <3> QED
      BY <2>8, <3>1, <3>2
  <2>10. k + 1 <= m + 1
    BY <1>2, <1>4, <2>6 DEF Searched
  <2>11. m + 1 >= L => \A p \in P : p < m + 1
    BY <1>6, <2>6
  <2>12. ~z.searching => \A p \in P : p < z.tmp
    BY <2>5, <2>6, <2>11
  <2>13. Searched(z, k + 1, P)
    BY <2>5, <2>6, <2>8, <2>9, <2>10, <2>12 DEF Searched
  <2> QED
    BY <1>1, <2>4, <2>13
<1>5. CASE ~(s.searching /\ T # {})
  <2>1. search(s, file, str)
          = Ended(s.tmp, s.printed)
    BY <1>2, <1>3, <1>5, Zenon DEF search
  <2>2. PICK z : z = search(s, file, str)
    OBVIOUS
  <2>3. z.tmp = t /\ ~z.searching /\ z.printed = s.printed
    BY <1>2, <2>1, <2>2 DEF Ended
  <2>4. \A p \in P : p < t
    <3>1. CASE s.searching
      BY <1>5, <1>6, <3>1
    <3>2. CASE ~s.searching
      BY <1>1, <1>2, <3>2, Zenon DEF Searched
    <3> QED
      BY <3>1, <3>2, Zenon
  <2>5. /\ s.printed \in Seq(Nat) /\ Increasing(s.printed)
        /\ Elements(s.printed) = {p \in P : p < t}
    BY <1>1, <1>2 DEF Searched
  <2>6. Searched(z, k + 1, P)
    BY <2>3, <2>4, <2>5, Zenon DEF Searched
  <2> QED
    BY <1>1, <2>2, <2>6
<1> QED
  BY <1>4, <1>5

(* inf08-0: in any file every occurrence of any string is printed once, in *)
(* increasing order, also where it overlaps the one before and at the very *)
(* end of the file.                                                        *)
THEOREM OccurrencesAreFound ==
  ASSUME NEW file, Len(file) \in Nat, NEW str, Len(str) \in Nat \ {0}
  PROVE  FindsAll(file, str)
<1>1. PICK L \in Nat, n \in Nat : L = Len(file) /\ n = Len(str) /\ n > 0
  OBVIOUS
<1>2. PICK P : P = memmem(file, 0, str)
  OBVIOUS
<1>15. \A p \in P : p \in Nat /\ p < L
  BY <1>1, <1>2 DEF memmem
<1> DEFINE F == [k \in 1 .. L + 1 |-> [s \in Searches |-> search(s, file, str)]]
           start == Searching(0, <<>>)
<1>3. occurrences(file, str) = After(L + 1, start, F)[L + 1].printed
  BY <1>1, Zenon DEF occurrences
<1>4. start \in Searches /\ start.printed = <<>> /\ start.tmp = 0 /\ start.searching
  BY <<>> \in Seq(Nat) DEF Searching, Searches
<1>5. Closed(L + 1, Searches, F)
  <2>1. ASSUME NEW s \in Searches PROVE search(s, file, str) \in Searches
    <3>1. PICK T : T = memmem(file, s.tmp, str)
      OBVIOUS
    <3>5. s.tmp \in Nat /\ s.printed \in Seq(Nat)
      BY DEF Searches
    <3>6. \A p \in T : p \in Nat
      BY <1>1, <3>1, <3>5 DEF memmem
    <3>2. T # {} => Min(T) \in Nat
      BY <3>6, MinOf, Zenon
    <3>3. CASE s.searching /\ T # {}
      <4>1. PICK m \in Nat : m = Min(T)
        BY <3>2, <3>3
      <4>2. search(s, file, str)
              = IF m + 1 < L THEN Searching(m + 1, Append(s.printed, m))
            ELSE Ended(m + 1, Append(s.printed, m))
        BY <1>1, <3>1, <3>3, <4>1, Zenon DEF search, next_search
      <4>3. /\ m + 1 \in Nat /\ Append(s.printed, m) \in Seq(Nat)
        BY <3>5
      <4> QED
        BY <4>2, <4>3 DEF Searching, Ended, Searches
    <3>4. CASE ~(s.searching /\ T # {})
      <4>1. search(s, file, str)
              = Ended(s.tmp, s.printed)
        BY <3>1, <3>4, Zenon DEF search
      <4> QED
        BY <3>5, <4>1, OfSearch
    <3> QED
      BY <3>3, <3>4
  <2> QED
    BY <2>1 DEF Closed
<1>6. \A k \in 1 .. L + 1 : \A s \in Searches : F[k][s] = search(s, file, str)
  OBVIOUS
<1> HIDE DEF F, start
<1>7. PICK f \in [0 .. L + 1 -> Searches] :
        f = After(L + 1, start, F) /\ IsLoop(f, L + 1, start, F)
  BY <1>4, <1>5, L + 1 \in Nat, Loop, Zenon
<1> DEFINE H == {k \in 0 .. L + 1 : Searched(f[k], k, P)}
<1>8. 0 \in H
  <2>1. f[0] = start /\ 0 \in 0 .. L + 1
    BY <1>7 DEF IsLoop
  <2>2. Elements(<<>>) = {} /\ Increasing(<<>>) /\ <<>> \in Seq(Nat)
    BY DEF Elements, Increasing
  <2>3. {p \in P : p < 0} = {}
    BY <1>15
  <2>4. 0 \in Nat /\ 0 <= 0
    OBVIOUS
  <2>5. Searched(start, 0, P)
    BY <1>4, <2>2, <2>3, <2>4, Zenon DEF Searched
  <2> QED
    BY <2>1, <2>5
<1>9. ASSUME NEW k \in 0 .. (L + 1) - 1, k \in H PROVE k + 1 \in H
  <2>1. k + 1 \in 1 .. L + 1 /\ (k + 1) - 1 = k /\ k \in Nat /\ f[k] \in Searches
    OBVIOUS
  <2>2. f[k + 1] = search(f[k], file, str)
    <3>1. f[k + 1] = F[k + 1][f[k]]
      BY <1>7, <2>1 DEF IsLoop
    <3> QED
      BY <1>6, <2>1, <3>1
  <2>3. Searched(f[k], k, memmem(file, 0, str))
    BY <1>2, <1>9
  <2>4. Searched(search(f[k], file, str), k + 1, memmem(file, 0, str))
    BY <1>1, <2>1, <2>3, SearchOn
  <2> QED
    BY <1>2, <2>1, <2>2, <2>4
<1>10. \A k \in 0 .. (L + 1) - 1 : k \in H => k + 1 \in H
  BY <1>9
<1>11. L + 1 \in H
  <2>1. L + 1 \in Nat /\ L + 1 \in 0 .. L + 1
    OBVIOUS
  <2> HIDE DEF H
  <2> QED
    BY <1>8, <1>10, <2>1, Induction, Zenon
<1>12. PICK q, t : q = f[L + 1].printed /\ t = f[L + 1].tmp /\ t \in Nat
  BY <1>11 DEF Searched
<1>13. Elements(q) = P /\ Increasing(q)
  <2>1. \A p \in P : p < t
    <3>1. f[L + 1].searching => L + 1 <= t
      BY <1>11, <1>12, Zenon DEF Searched
    <3>2. ~f[L + 1].searching => \A p \in P : p < t
      BY <1>11, <1>12, Zenon DEF Searched
    <3>3. L + 1 <= t => \A p \in P : p < t
      BY <1>12, <1>15
    <3> QED
      BY <3>1, <3>2, <3>3, Zenon
  <2>2. Elements(q) = {p \in P : p < t} /\ Increasing(q)
    BY <1>11, <1>12, Zenon DEF Searched
  <2> QED
    BY <2>1, <2>2
<1>14. occurrences(file, str) = q
  BY <1>3, <1>7, <1>12
<1> QED
  BY <1>1, <1>2, <1>13, <1>14 DEF FindsAll, memmem, Elements, Increasing

-----------------------------------------------------------------------------
(***************************************************************************)
(* inf20-1. A query, up to the border between two labels, is the name with *)
(* every dot, and the beginning, replaced by a length.                     *)
(***************************************************************************)
IsJoin(r, q, l, m, n) ==
  /\ r = q \o l /\ r \in Seq(Nat) /\ Len(r) = m + n
  /\ \A k \in 1 .. m : r[k] = q[k]
  /\ \A i \in 1 .. n : r[m + i] = l[i]

LEMMA JoinOf ==
  ASSUME NEW q \in Seq(Nat), NEW l \in Seq(Nat), NEW m \in Nat, m = Len(q),
         NEW n \in Nat, n = Len(l)
  PROVE  IsJoin(q \o l, q, l, m, n)
<1>1. /\ q \o l \in Seq(Nat) /\ Len(q \o l) = Len(q) + Len(l)
      /\ \A i \in 1 .. Len(q) + Len(l) :
            (q \o l)[i] = IF i <= Len(q) THEN q[i] ELSE l[i - Len(q)]
  BY ConcatProperties
<1>2. PICK r : r = q \o l
  OBVIOUS
<1>3. ASSUME NEW i \in 1 .. n PROVE r[m + i] = l[i]
  <2>1. m + i \in 1 .. m + n /\ ~(m + i <= m) /\ (m + i) - m = i
    OBVIOUS
  <2> QED
    BY <1>1, <1>2, <2>1
<1> QED
  BY <1>1, <1>2, <1>3 DEF IsJoin

(* Where labels end: at the next dot or behind the name.                   *)
IsEnd(domain, L, p, e) ==
  /\ e \in p + 1 .. L + 1 /\ \A k \in p + 1 .. e - 1 : domain[k] # Dot
  /\ e <= L => domain[e] = Dot

LEMMA LabelEnds ==
  ASSUME NEW domain, NEW L \in Nat, L = Len(domain), NEW p \in 0 .. L
  PROVE  EndOfLabel(domain, p) \in Nat /\ IsEnd(domain, L, p, EndOfLabel(domain, p))
<1> DEFINE T == {k \in p + 1 .. L : domain[k] = Dot} \cup {L + 1}
<1>1. EndOfLabel(domain, p) = Min(T)
  BY DEF EndOfLabel
<1>2. Min(T) \in T /\ \A x \in T : Min(T) <= x
  <2>1. (\A x \in T : x \in Nat) /\ T # {}
    OBVIOUS
  <2> HIDE DEF T
  <2> QED
    BY <2>1, MinOf, Zenon
<1>3. PICK e : e = Min(T)
  OBVIOUS
<1>4. e \in p + 1 .. L + 1 /\ (e <= L => domain[e] = Dot)
  BY <1>2, <1>3
<1>5. ASSUME NEW k \in p + 1 .. e - 1 PROVE domain[k] # Dot
  <2>1. k \in p + 1 .. L /\ ~(e <= k)
    BY <1>4
  <2>2. k \notin T
    BY <1>2, <1>3, <2>1
  <2> QED
    BY <2>1, <2>2
<1> QED
  BY <1>1, <1>3, <1>4, <1>5 DEF IsEnd

LEMMA OneNumber ==
  ASSUME NEW n \in Nat
  PROVE  <<n>> \in Seq(Nat) /\ Len(<<n>>) = 1 /\ <<n>>[1] = n
OBVIOUS

LEMMA SmallMod ==
  ASSUME NEW n \in Nat, n < 256
  PROVE  n % 256 = n
OBVIOUS

(* A label and its length.                                                 *)
IsLabel(l, domain, p, e) ==
  /\ l \in Seq(Nat) /\ Len(l) = e - p /\ l[1] = (e - p) - 1
  /\ \A i \in 2 .. e - p : l[i] = domain[(p + i) - 1]

LEMMA LabelsAre ==
  ASSUME NEW domain \in Seq(Nat), NEW L \in Nat, L = Len(domain), L < 256,
         NEW p \in 0 .. L, NEW e \in Nat, e = EndOfLabel(domain, p)
  PROVE  /\ Label(domain, p) = WholeLabel(domain, p)
         /\ IsLabel(WholeLabel(domain, p), domain, p, e)
<1>1. e \in p + 1 .. L + 1
  BY LabelEnds DEF IsEnd
<1>2. PICK n \in Nat : n = (e - p) - 1 /\ n < 256
  BY <1>1
<1>3. n % 256 = n
  BY <1>2, SmallMod, Zenon
<1>4. (e - p) - 1 = n /\ e - p - 1 = n
  BY <1>2
<1>5. Label(domain, p) = <<n>> \o SubSeq(domain, p + 1, p + n)
  BY <1>3, <1>4, Zenon DEF Label
<1>6. WholeLabel(domain, p) = <<n>> \o SubSeq(domain, p + 1, p + n)
  BY <1>3, <1>4, Zenon DEF WholeLabel
<1>7. PICK x \in Seq(Nat) : /\ x = SubSeq(domain, p + 1, p + n) /\ Len(x) = n
                            /\ \A i \in 1 .. n : x[i] = domain[p + i]
  <2>1. p \in Nat /\ p + n <= Len(domain)
    BY <1>1, <1>2
  <2>2. /\ SubSeq(domain, p + 1, p + n) \in Seq(Nat)
        /\ IsPart(SubSeq(domain, p + 1, p + n), domain, p, n)
    BY <2>1, PartOf, Zenon
  <2> QED
    BY <2>2, Zenon DEF IsPart
<1>8. PICK l : /\ l = <<n>> \o x /\ l \in Seq(Nat) /\ Len(l) = 1 + n
               /\ l[1] = n /\ \A i \in 2 .. 1 + n : l[i] = x[i - 1]
  <2>1. PICK y : y = <<n>> /\ y \in Seq(Nat) /\ Len(y) = 1 /\ y[1] = n
    BY OneNumber, Zenon
  <2>2. IsJoin(y \o x, y, x, 1, n)
    BY <1>7, <2>1, 1 \in Nat, JoinOf, Zenon
  <2>3. PICK l : /\ l = y \o x /\ l \in Seq(Nat) /\ Len(l) = 1 + n
                 /\ l[1] = y[1] /\ \A i \in 1 .. n : l[1 + i] = x[i]
    BY <2>2, 1 \in 1 .. 1, Zenon DEF IsJoin
  <2>4. ASSUME NEW i \in 2 .. 1 + n PROVE l[i] = x[i - 1]
    <3>1. i - 1 \in 1 .. n /\ 1 + (i - 1) = i
      OBVIOUS
    <3> QED
      BY <2>3, <3>1
  <2> QED
    BY <2>1, <2>3, <2>4
<1>9. ASSUME NEW i \in 2 .. e - p PROVE l[i] = domain[(p + i) - 1]
  <2>1. i \in 2 .. 1 + n /\ i - 1 \in 1 .. n /\ p + (i - 1) = (p + i) - 1
    BY <1>2
  <2> QED
    BY <1>7, <1>8, <2>1
<1>10. e - p = 1 + n
  BY <1>2
<1>11. IsLabel(l, domain, p, e)
  BY <1>2, <1>8, <1>9, <1>10 DEF IsLabel
<1> QED
  BY <1>5, <1>6, <1>7, <1>8, <1>11

(* The bytes of a query, up to a border between two labels.                *)
Code(domain, k) ==
  IF k = 1 \/ domain[k - 1] = Dot THEN EndOfLabel(domain, k - 1) - k
  ELSE domain[k - 1]

Coded(q, domain, p) ==
  q \in Seq(Nat) /\ Len(q) = p /\ \A k \in 1 .. p : q[k] = Code(domain, k)

Border(domain, L, p) == p \in 0 .. L + 1 /\ (p = 0 \/ p = L + 1 \/ domain[p] = Dot)

LEMMA CodeGrows ==
  ASSUME NEW domain \in Seq(Nat), NEW L \in Nat, L = Len(domain), L < 256,
         NEW p \in 0 .. L, NEW e, e = EndOfLabel(domain, p), NEW q,
         Border(domain, L, p), Coded(q, domain, p)
  PROVE  /\ e \in p + 1 .. L + 1 /\ Border(domain, L, e)
         /\ Coded(q \o Label(domain, p), domain, e)
         /\ Label(domain, p) = WholeLabel(domain, p)
<1>1. /\ e \in p + 1 .. L + 1 /\ e \in Nat /\ (e <= L => domain[e] = Dot)
      /\ \A k \in p + 1 .. e - 1 : domain[k] # Dot
  BY LabelEnds DEF IsEnd
<1>2. Border(domain, L, e)
  BY <1>1 DEF Border
<1>3. /\ Label(domain, p) = WholeLabel(domain, p)
      /\ IsLabel(WholeLabel(domain, p), domain, p, e)
  BY <1>1, LabelsAre, Zenon
<1>4. PICK l : /\ l = Label(domain, p) /\ l \in Seq(Nat) /\ Len(l) = e - p
               /\ l[1] = (e - p) - 1
               /\ \A i \in 2 .. e - p : l[i] = domain[(p + i) - 1]
  BY <1>3, Zenon DEF IsLabel
<1>5. q \in Seq(Nat) /\ Len(q) = p /\ \A k \in 1 .. p : q[k] = Code(domain, k)
  BY DEF Coded
<1>6. PICK r : /\ r = q \o l /\ r \in Seq(Nat) /\ Len(r) = p + (e - p)
               /\ \A k \in 1 .. p : r[k] = q[k]
               /\ \A i \in 1 .. e - p : r[p + i] = l[i]
  <2>1. e - p \in Nat /\ p \in Nat
    BY <1>1
  <2>2. IsJoin(q \o l, q, l, p, e - p)
    BY <1>4, <1>5, <2>1, JoinOf, Zenon
  <2> QED
    BY <2>2, Zenon DEF IsJoin
<1>7. ASSUME NEW k \in 1 .. e PROVE r[k] = Code(domain, k)
  <2>1. CASE k <= p
    BY <1>5, <1>6, <2>1
  <2>2. CASE k = p + 1
    <3>1. r[p + 1] = l[1]
      BY <1>1, <1>6, 1 \in 1 .. e - p
    <3>2. k - 1 = p /\ (k = 1 \/ domain[k - 1] = Dot)
      BY <2>2 DEF Border
    <3>3. Code(domain, k) = e - k
      BY <3>2 DEF Code
    <3> QED
      BY <1>1, <1>4, <2>2, <3>1, <3>3
  <2>3. CASE k > p + 1
    <3>1. PICK i \in 2 .. e - p : k = p + i
      <4>1. k - p \in 2 .. e - p /\ k = p + (k - p)
        BY <1>1, <2>3
      <4> QED
        BY <4>1
    <3>2. r[k] = domain[k - 1]
      BY <1>4, <1>6, <3>1, i \in 1 .. e - p
    <3>3. k - 1 \in p + 1 .. e - 1 /\ k # 1
      BY <1>1, <2>3
    <3>4. Code(domain, k) = domain[k - 1]
      BY <1>1, <3>3, Zenon DEF Code
    <3> QED
      BY <3>2, <3>4
  <2> QED
    BY <2>1, <2>2, <2>3
<1>8. Len(r) = e
  BY <1>1, <1>6
<1>9. Coded(r, domain, e)
  BY <1>6, <1>7, <1>8 DEF Coded
<1> QED
  BY <1>1, <1>2, <1>3, <1>4, <1>6, <1>9

-----------------------------------------------------------------------------
(***************************************************************************)
(* inf20-1. Both loops go from border to border, so that after as many     *)
(* iterations as the name has bytes there is nothing left but the last     *)
(* label, or nothing at all.                                               *)
(***************************************************************************)
(* What the loops over labels have read and written.                       *)
Cuts(domain, L) ==
  {s \in Packed : Border(domain, L, s.prev) /\ Coded(s.query, domain, s.prev)}

LEMMA WalkOn ==
  ASSUME NEW domain \in Seq(Nat), NEW L \in Nat, L = Len(domain), L < 256,
         NEW s \in Cuts(domain, L), s.prev # L + 1
  PROVE  LET e == EndOfLabel(domain, s.prev)
             l == Label(domain, s.prev)
         IN  /\ s.prev \in 0 .. L /\ e \in s.prev + 1 .. L + 1
             /\ l = WholeLabel(domain, s.prev)
             /\ [prev |-> e, query |-> s.query \o l] \in Cuts(domain, L)
<1>1. PICK p, q, e, l : /\ p = s.prev /\ q = s.query
                        /\ e = EndOfLabel(domain, p) /\ l = Label(domain, p)
  OBVIOUS
<1>2. Border(domain, L, p) /\ Coded(q, domain, p)
  BY <1>1 DEF Cuts
<1>3. p \in 0 .. L
  <2>1. p \in 0 .. L + 1 /\ p # L + 1
    BY <1>1, <1>2 DEF Border
  <2> QED
    BY <2>1
<1>4. /\ e \in p + 1 .. L + 1 /\ Border(domain, L, e)
      /\ Coded(q \o Label(domain, p), domain, e)
      /\ Label(domain, p) = WholeLabel(domain, p)
  BY <1>1, <1>2, <1>3, CodeGrows, Zenon
<1>5. PICK r : r = q \o l
  OBVIOUS
<1>6. Coded(r, domain, e) /\ r \in Seq(Nat)
  BY <1>1, <1>4, <1>5, Zenon DEF Coded
<1>7. PICK t : t = [prev |-> e, query |-> r]
  OBVIOUS
<1>8. t.prev = e /\ t.query = r /\ e \in Nat
  BY <1>3, <1>4, <1>7
<1>9. t \in Packed
  BY <1>6, <1>7, <1>8 DEF Packed
<1>10. t \in Cuts(domain, L)
  BY <1>4, <1>6, <1>8, <1>9, Zenon DEF Cuts
<1> QED
  BY <1>1, <1>3, <1>4, <1>5, <1>7, <1>10, Zenon

LEMMA WalkStarts ==
  ASSUME NEW domain, NEW L \in Nat
  PROVE  /\ NothingPacked \in Cuts(domain, L)
         /\ NothingPacked.prev = 0
<1>1. <<>> \in Seq(Nat) /\ Len(<<>>) = 0 /\ 0 \in 0 .. L + 1 /\ 1 .. 0 = {}
  OBVIOUS
<1>2. NothingPacked.prev = 0 /\ NothingPacked.query = <<>>
  BY DEF NothingPacked
<1>3. NothingPacked \in Packed
  BY <1>1 DEF NothingPacked, Packed
<1>4. Border(domain, L, 0)
  BY <1>1, Zenon DEF Border
<1>5. Coded(<<>>, domain, 0)
  BY <1>1, Zenon DEF Coded
<1> QED
  BY <1>2, <1>3, <1>4, <1>5, Zenon DEF Cuts

(* The whole name, coded by the one loop and by the other.                 *)
LEMMA PackCodes ==
  ASSUME NEW domain \in Seq(Nat), NEW L \in Nat, L = Len(domain), L < 256
  PROVE  \E q : /\ Coded(q, domain, L + 1)
                /\ pack_domain_to_query(domain)
                     = q \o <<0>> \o <<0, 1, 0, 1>>
<1> DEFINE S == Cuts(domain, L)
           F == [k \in 1 .. L + 1 |-> [s \in Packed |-> pack_label(s, domain)]]
           a == NothingPacked
<1>1. pack_domain_to_query(domain)
        = After(L + 1, a, F)[L + 1].query \o <<0>> \o <<0, 1, 0, 1>>
  BY Zenon DEF pack_domain_to_query
<1>2. \A k \in 1 .. L + 1 : \A s \in S : F[k][s] = pack_label(s, domain)
  <2>1. S \subseteq Packed
    BY DEF Cuts
  <2> QED
    BY <2>1
<1>3. a \in S /\ a.prev = 0
  BY WalkStarts, Zenon
<1>4. ASSUME NEW s \in S
      PROVE  /\ pack_label(s, domain) \in S
             /\ \A k \in Nat : k <= s.prev \/ s.prev = L + 1 =>
                  \/ k + 1 <= pack_label(s, domain).prev
                  \/ pack_label(s, domain).prev = L + 1
  <2>1. CASE s.prev = L + 1
    <3>1. pack_label(s, domain) = s
      BY <2>1, Zenon DEF pack_label
    <3> QED
      BY <2>1, <3>1, Zenon
  <2>2. CASE s.prev # L + 1
    <3>1. PICK e, l : e = EndOfLabel(domain, s.prev) /\ l = Label(domain, s.prev)
      OBVIOUS
    <3>2. pack_label(s, domain) = [prev |-> e, query |-> s.query \o l]
      BY <2>2, <3>1, Zenon DEF pack_label
    <3>3. /\ s.prev \in 0 .. L /\ e \in s.prev + 1 .. L + 1
          /\ [prev |-> e, query |-> s.query \o l] \in S
      BY <2>2, <3>1, WalkOn, Zenon
    <3>4. PICK t : t = pack_label(s, domain)
      OBVIOUS
    <3>5. t.prev = e /\ t \in S
      BY <3>2, <3>3, <3>4
    <3>6. \A k \in Nat : k <= s.prev => k + 1 <= e
      BY <3>3
    <3> QED
      BY <2>2, <3>4, <3>5, <3>6, Zenon
  <2> QED
    BY <2>1, <2>2, Zenon
<1>5. Closed(L + 1, S, F)
  BY <1>2, <1>4 DEF Closed
<1> HIDE DEF F, a, S
<1>6. PICK f \in [0 .. L + 1 -> S] :
        f = After(L + 1, a, F) /\ IsLoop(f, L + 1, a, F)
  BY <1>3, <1>5, L + 1 \in Nat, Loop, Zenon
<1> DEFINE H == {k \in 0 .. L + 1 : k <= f[k].prev \/ f[k].prev = L + 1}
<1>7. 0 \in H
  <2>1. f[0] = a /\ 0 \in 0 .. L + 1
    BY <1>6 DEF IsLoop
  <2> QED
    BY <1>3, <2>1
<1>8. ASSUME NEW k \in 0 .. (L + 1) - 1, k \in H PROVE k + 1 \in H
  <2>1. k + 1 \in 1 .. L + 1 /\ (k + 1) - 1 = k /\ k \in Nat /\ f[k] \in S
    OBVIOUS
  <2>2. f[k + 1] = pack_label(f[k], domain)
    <3>1. f[k + 1] = F[k + 1][f[k]]
      BY <1>6, <2>1 DEF IsLoop
    <3> QED
      BY <1>2, <2>1, <3>1
  <2>3. k <= f[k].prev \/ f[k].prev = L + 1
    BY <1>8
  <2>4. k + 1 <= f[k + 1].prev \/ f[k + 1].prev = L + 1
    BY <1>4, <2>1, <2>2, <2>3, Zenon
  <2> QED
    BY <2>1, <2>4
<1>9. \A k \in 0 .. (L + 1) - 1 : k \in H => k + 1 \in H
  BY <1>8
<1>10. L + 1 \in H
  <2>1. L + 1 \in Nat /\ L + 1 \in 0 .. L + 1
    OBVIOUS
  <2> HIDE DEF H
  <2> QED
    BY <1>7, <1>9, <2>1, Induction, Zenon
<1>11. PICK t \in S : t = f[L + 1]
  BY L + 1 \in 0 .. L + 1
<1>12. Border(domain, L, t.prev) /\ Coded(t.query, domain, t.prev)
  BY <1>11 DEF S, Cuts
<1>13. t.prev = L + 1
  <2>1. L + 1 <= t.prev \/ t.prev = L + 1
    BY <1>10, <1>11
  <2> QED
    BY <1>12, <2>1 DEF Border
<1> QED
  BY <1>1, <1>6, <1>11, <1>12, <1>13, Zenon

LEMMA ParseCodes ==
  ASSUME NEW domain \in Seq(Nat), NEW L \in Nat, L = Len(domain), L < 256
  PROVE  \E q : /\ Coded(q, domain, L + 1)
                /\ parse(domain)
                     = q \o [k \in 1 .. 5 |-> IF k - 1 \in {2, 4} THEN 1 ELSE 0]
<1> DEFINE S == {s \in Cuts(domain, L) : s.prev <= L}
           F == [k \in 1 .. L + 1 |-> [s \in Packed |-> parse_label(s, domain)]]
           a == NothingPacked
           T(s) == EndOfLabel(domain, s.prev) = L + 1
<1>1. parse(domain)
        = After(L + 1, a, F)[L + 1].query
            \o WholeLabel(domain, After(L + 1, a, F)[L + 1].prev)
            \o [k \in 1 .. 5 |-> IF k - 1 \in {2, 4} THEN 1 ELSE 0]
  BY Zenon DEF parse
<1>2. \A k \in 1 .. L + 1 : \A s \in S : F[k][s] = parse_label(s, domain)
  <2>1. S \subseteq Packed
    BY DEF Cuts
  <2> QED
    BY <2>1
<1>3. a \in S /\ a.prev = 0
  BY WalkStarts
<1>14. \A s \in S : s \in Cuts(domain, L) /\ s.prev # L + 1
  BY DEF Cuts, Packed
<1>4. ASSUME NEW s \in S
      PROVE  /\ parse_label(s, domain) \in S
             /\ \A k \in Nat : k <= s.prev \/ T(s) =>
                  \/ k + 1 <= parse_label(s, domain).prev
                  \/ T(parse_label(s, domain))
  <2>1. CASE T(s)
    <3>1. parse_label(s, domain) = s
      BY <2>1, Zenon DEF parse_label
    <3> QED
      BY <2>1, <3>1, Zenon
  <2>2. CASE ~T(s)
    <3>1. PICK e, l : e = EndOfLabel(domain, s.prev) /\ l = Label(domain, s.prev)
      OBVIOUS
    <3>3. /\ s.prev \in 0 .. L /\ e \in s.prev + 1 .. L + 1
          /\ l = WholeLabel(domain, s.prev)
          /\ [prev |-> e, query |-> s.query \o l] \in Cuts(domain, L)
      BY <1>14, <3>1, WalkOn, Zenon
    <3>2. parse_label(s, domain) = [prev |-> e, query |-> s.query \o l]
      BY <2>2, <3>1, <3>3, Zenon DEF parse_label
    <3>4. PICK t : t = parse_label(s, domain)
      OBVIOUS
    <3>7. e <= L
      BY <2>2, <3>1, <3>3
    <3>5. t.prev = e /\ t \in S
      BY <3>2, <3>3, <3>4, <3>7
    <3>6. \A k \in Nat : k <= s.prev => k + 1 <= e
      BY <3>3
    <3> QED
      BY <2>2, <3>4, <3>5, <3>6, Zenon
  <2> QED
    BY <2>1, <2>2, Zenon
<1>5. Closed(L + 1, S, F)
  BY <1>2, <1>4 DEF Closed
<1> HIDE DEF F, a, S, T
<1>6. PICK f \in [0 .. L + 1 -> S] :
        f = After(L + 1, a, F) /\ IsLoop(f, L + 1, a, F)
  BY <1>3, <1>5, L + 1 \in Nat, Loop, Zenon
<1> DEFINE H == {k \in 0 .. L + 1 : k <= f[k].prev \/ T(f[k])}
<1>7. 0 \in H
  <2>1. f[0] = a /\ 0 \in 0 .. L + 1
    BY <1>6 DEF IsLoop
  <2> QED
    BY <1>3, <2>1
<1>8. ASSUME NEW k \in 0 .. (L + 1) - 1, k \in H PROVE k + 1 \in H
  <2>1. k + 1 \in 1 .. L + 1 /\ (k + 1) - 1 = k /\ k \in Nat /\ f[k] \in S
    OBVIOUS
  <2>2. f[k + 1] = parse_label(f[k], domain)
    <3>1. f[k + 1] = F[k + 1][f[k]]
      BY <1>6, <2>1 DEF IsLoop
    <3> QED
      BY <1>2, <2>1, <3>1
  <2>3. k <= f[k].prev \/ T(f[k])
    BY <1>8
  <2>4. k + 1 <= f[k + 1].prev \/ T(f[k + 1])
    BY <1>4, <2>1, <2>2, <2>3, Zenon
  <2> QED
    BY <2>1, <2>4
<1>9. \A k \in 0 .. (L + 1) - 1 : k \in H => k + 1 \in H
  BY <1>8
<1>10. L + 1 \in H
  <2>1. L + 1 \in Nat /\ L + 1 \in 0 .. L + 1
    OBVIOUS
  <2> HIDE DEF H
  <2> QED
    BY <1>7, <1>9, <2>1, Induction, Zenon
<1>11. PICK t \in S : t = f[L + 1]
  BY L + 1 \in 0 .. L + 1
<1>12. PICK e, l : e = EndOfLabel(domain, t.prev) /\ l = Label(domain, t.prev)
  OBVIOUS
<1>13. /\ t.prev \in 0 .. L /\ e \in t.prev + 1 .. L + 1
       /\ l = WholeLabel(domain, t.prev)
       /\ [prev |-> e, query |-> t.query \o l] \in Cuts(domain, L)
  BY <1>11, <1>12, <1>14, WalkOn, Zenon
<1>15. e = L + 1
  <2>1. L + 1 <= t.prev \/ e = L + 1
    BY <1>10, <1>11, <1>12 DEF T
  <2> QED
    BY <1>13, <2>1
<1>16. PICK q : q = t.query \o l
  OBVIOUS
<1>17. Coded(q, domain, e)
  <2>1. PICK w : w = [prev |-> e, query |-> q]
    OBVIOUS
  <2>2. w.prev = e /\ w.query = q /\ w \in Cuts(domain, L)
    BY <1>13, <1>16, <2>1
  <2> QED
    BY <2>2, Zenon DEF Cuts
<1> QED
  BY <1>1, <1>6, <1>11, <1>13, <1>15, <1>16, <1>17, Zenon

LEMMA SameRest ==
  [k \in 1 .. 5 |-> IF k - 1 \in {2, 4} THEN 1 ELSE 0] = <<0, 0, 1, 0, 1>>
OBVIOUS

LEMMA OneCode ==
  ASSUME NEW domain, NEW n \in Nat, NEW q, NEW r,
         Coded(q, domain, n), Coded(r, domain, n)
  PROVE  q = r
<1>1. /\ q \in Seq(Nat) /\ r \in Seq(Nat) /\ Len(q) = n /\ Len(r) = n
      /\ \A k \in 1 .. n : q[k] = r[k]
  BY Zenon DEF Coded
<1> QED
  BY <1>1, SeqEqual, Zenon

IsFour(y) == /\ y \in Seq(Nat) /\ Len(y) = 4
             /\ y[1] = 0 /\ y[2] = 1 /\ y[3] = 0 /\ y[4] = 1
IsFive(z) == /\ z \in Seq(Nat) /\ Len(z) = 5
             /\ z[1] = 0 /\ z[2] = 0 /\ z[3] = 1 /\ z[4] = 0 /\ z[5] = 1

LEMMA FourNumbers == IsFour(<<0, 1, 0, 1>>)
BY DEF IsFour

LEMMA FiveNumbers == IsFive(<<0, 0, 1, 0, 1>>)
BY DEF IsFive

LEMMA FiveJoined ==
  ASSUME NEW r, NEW x, NEW y, IsJoin(r, x, y, 1, 4), IsFour(y), x[1] = 0
  PROVE  IsFive(r)
<1>1. /\ r \in Seq(Nat) /\ Len(r) = 1 + 4 /\ r[1] = x[1]
      /\ \A i \in 1 .. 4 : r[1 + i] = y[i]
  BY 1 \in 1 .. 1, Zenon DEF IsJoin
<1>2. r[2] = y[1] /\ r[3] = y[2] /\ r[4] = y[3] /\ r[5] = y[4]
  <2>1. r[1 + 1] = y[1]
    BY <1>1, 1 \in 1 .. 4, Zenon
  <2>2. r[1 + 2] = y[2]
    BY <1>1, 2 \in 1 .. 4, Zenon
  <2>3. r[1 + 3] = y[3]
    BY <1>1, 3 \in 1 .. 4, Zenon
  <2>4. r[1 + 4] = y[4]
    BY <1>1, 4 \in 1 .. 4, Zenon
  <2>5. 1 + 1 = 2 /\ 1 + 2 = 3 /\ 1 + 3 = 4 /\ 1 + 4 = 5
    OBVIOUS
  <2> QED
    BY <2>1, <2>2, <2>3, <2>4, <2>5, Zenon
<1>3. 1 + 4 = 5
  OBVIOUS
<1> QED
  BY <1>1, <1>2, <1>3, Zenon DEF IsFour, IsFive

LEMMA FiveSame ==
  ASSUME NEW r, NEW z, IsFive(r), IsFive(z)
  PROVE  r = z
<1>1. r \in Seq(Nat) /\ z \in Seq(Nat) /\ Len(r) = 5 /\ Len(z) = 5
  BY DEF IsFive
<1>2. ASSUME NEW k \in 1 .. 5 PROVE r[k] = z[k]
  <2>1. k = 1 \/ k = 2 \/ k = 3 \/ k = 4 \/ k = 5
    OBVIOUS
  <2> QED
    BY <2>1, Zenon DEF IsFive
<1> QED
  BY <1>1, <1>2, SeqEqual, Zenon

LEMMA RestParts ==
  <<0>> \o <<0, 1, 0, 1>> = <<0, 0, 1, 0, 1>>
<1>1. <<0>> \in Seq(Nat) /\ Len(<<0>>) = 1 /\ <<0>>[1] = 0
  BY 0 \in Nat, OneNumber, Zenon
<1>2. <<0, 1, 0, 1>> \in Seq(Nat) /\ Len(<<0, 1, 0, 1>>) = 4
  BY FourNumbers, Zenon DEF IsFour
<1>3. IsJoin(<<0>> \o <<0, 1, 0, 1>>, <<0>>, <<0, 1, 0, 1>>, 1, 4)
  BY <1>1, <1>2, 1 \in Nat, 4 \in Nat, JoinOf, Zenon
<1> QED
  BY <1>1, <1>3, FourNumbers, FiveNumbers, FiveJoined, FiveSame, Zenon

LEMMA Associates ==
  ASSUME NEW q \in Seq(Nat), NEW x \in Seq(Nat), NEW y \in Seq(Nat)
  PROVE  (q \o x) \o y = q \o (x \o y)
<1>1. PICK l \in Nat, m \in Nat, n \in Nat :
        l = Len(q) /\ m = Len(x) /\ n = Len(y)
  BY LenProperties, Zenon
<1>2. PICK a : a = q \o x /\ IsJoin(a, q, x, l, m)
  BY <1>1, JoinOf, Zenon
<1>3. PICK b : b = x \o y /\ IsJoin(b, x, y, m, n)
  BY <1>1, JoinOf, Zenon
<1>4. a \in Seq(Nat) /\ Len(a) = l + m /\ b \in Seq(Nat) /\ Len(b) = m + n
  BY <1>2, <1>3, Zenon DEF IsJoin
<1>5. l + m \in Nat /\ m + n \in Nat /\ (l + m) + n = l + (m + n)
  OBVIOUS
<1>6. PICK c : c = a \o y /\ IsJoin(c, a, y, l + m, n)
  BY <1>1, <1>4, <1>5, JoinOf, Zenon
<1>7. PICK d : d = q \o b /\ IsJoin(d, q, b, l, m + n)
  BY <1>1, <1>4, <1>5, JoinOf, Zenon
<1>8. ASSUME NEW i \in 1 .. l + (m + n) PROVE c[i] = d[i]
  <2>1. CASE i <= l
    <3>1. i \in 1 .. l /\ i \in 1 .. l + m
      BY <2>1
    <3> QED
      BY <1>2, <1>6, <1>7, <3>1, Zenon DEF IsJoin
  <2>2. CASE i > l /\ i <= l + m
    <3>1. PICK j \in 1 .. m : i = l + j
      BY <2>2, i - l \in 1 .. m
    <3>2. l + j \in 1 .. l + m /\ j \in 1 .. m + n
      OBVIOUS
    <3>3. c[l + j] = x[j] /\ d[l + j] = x[j]
      BY <1>2, <1>3, <1>6, <1>7, <3>2, Zenon DEF IsJoin
    <3> QED
      BY <3>1, <3>3
  <2>3. CASE i > l + m
    <3>1. PICK j \in 1 .. n : i = (l + m) + j
      BY <2>3, i - (l + m) \in 1 .. n
    <3>2. m + j \in 1 .. m + n /\ (l + m) + j = l + (m + j)
      OBVIOUS
    <3>3. c[(l + m) + j] = y[j] /\ d[l + (m + j)] = y[j]
      BY <1>3, <1>6, <1>7, <3>2, Zenon DEF IsJoin
    <3> QED
      BY <3>1, <3>2, <3>3, Zenon
  <2> QED
    BY <2>1, <2>2, <2>3
<1>9. /\ c \in Seq(Nat) /\ d \in Seq(Nat)
      /\ Len(c) = l + (m + n) /\ Len(d) = l + (m + n)
  BY <1>5, <1>6, <1>7, Zenon DEF IsJoin
<1>10. c = d
  BY <1>8, <1>9, SeqEqual, Zenon
<1> QED
  BY <1>2, <1>3, <1>6, <1>7, <1>10, Zenon

LEMMA Rests ==
  ASSUME NEW q \in Seq(Nat)
  PROVE  q \o <<0>> \o <<0, 1, 0, 1>> = q \o <<0, 0, 1, 0, 1>>
<1>1. <<0>> \in Seq(Nat)
  BY 0 \in Nat, OneNumber, Zenon
<1>2. <<0, 1, 0, 1>> \in Seq(Nat)
  BY FourNumbers, Zenon DEF IsFour
<1>3. (q \o <<0>>) \o <<0, 1, 0, 1>> = q \o (<<0>> \o <<0, 1, 0, 1>>)
  BY <1>1, <1>2, Associates, Zenon
<1> QED
  BY <1>3, RestParts, Zenon

(* inf20-1: the two versions of the program write the same query.          *)
LEMMA SameQueries ==
  ASSUME NEW domain \in Seq(Nat), NEW L \in Nat, L = Len(domain), L < 256
  PROVE  /\ parse(domain) = pack_domain_to_query(domain)
         /\ \E q : /\ Coded(q, domain, L + 1)
                   /\ pack_domain_to_query(domain) = q \o <<0, 0, 1, 0, 1>>
<1>1. PICK q : /\ Coded(q, domain, L + 1)
               /\ pack_domain_to_query(domain) = q \o <<0>> \o <<0, 1, 0, 1>>
  BY PackCodes, Zenon
<1>2. PICK r : /\ Coded(r, domain, L + 1)
               /\ parse(domain)
                    = r \o [k \in 1 .. 5 |-> IF k - 1 \in {2, 4} THEN 1 ELSE 0]
  BY ParseCodes, Zenon
<1>3. q = r
  BY <1>1, <1>2, L + 1 \in Nat, OneCode, Zenon
<1>4. q \in Seq(Nat)
  BY <1>1, Zenon DEF Coded
<1> QED
  BY <1>1, <1>2, <1>3, <1>4, Rests, SameRest, Zenon

-----------------------------------------------------------------------------
(***************************************************************************)
(* inf20-1. The lengths lead from border to border as well, over a part of *)
(* the query that names what the part of the name does.                    *)
(***************************************************************************)
(* A query for a name, and as much of the name as has been read from it.   *)
Asked(Q, domain, L) ==
  /\ Q \in Seq(Nat) /\ Len(Q) = L + 6 /\ Q[L + 2] = 0
  /\ \A k \in 1 .. L + 1 : Q[k] = Code(domain, k)

Named(name, domain, m) ==
  name \in Seq(Nat) /\ Len(name) = m /\ \A i \in 1 .. m : name[i] = domain[i]

LEMMA QueryAsks ==
  ASSUME NEW domain, NEW L \in Nat, NEW q, Coded(q, domain, L + 1)
  PROVE  Asked(q \o <<0, 0, 1, 0, 1>>, domain, L)
<1>1. PICK z : z = <<0, 0, 1, 0, 1>> /\ IsFive(z)
  BY FiveNumbers, Zenon
<1>2. z \in Seq(Nat) /\ Len(z) = 5 /\ z[1] = 0
  BY <1>1, Zenon DEF IsFive
<1>3. /\ q \in Seq(Nat) /\ Len(q) = L + 1
      /\ \A k \in 1 .. L + 1 : q[k] = Code(domain, k)
  BY Zenon DEF Coded
<1>4. IsJoin(q \o z, q, z, L + 1, 5)
  BY <1>2, <1>3, L + 1 \in Nat, 5 \in Nat, JoinOf, Zenon
<1>5. PICK r : /\ r = q \o z /\ r \in Seq(Nat) /\ Len(r) = (L + 1) + 5
               /\ \A k \in 1 .. L + 1 : r[k] = q[k]
               /\ r[(L + 1) + 1] = z[1]
  BY <1>4, 1 \in 1 .. 5, Zenon DEF IsJoin
<1>6. (L + 1) + 5 = L + 6 /\ (L + 1) + 1 = L + 2
  OBVIOUS
<1>7. Asked(r, domain, L)
  BY <1>2, <1>3, <1>5, <1>6, Zenon DEF Asked
<1> QED
  BY <1>1, <1>5, <1>7, Zenon

(* A proper name has no empty label.                                       *)
LEMMA LabelsHaveLength ==
  ASSUME NEW domain \in Seq(Nat), NEW L \in Nat, L = Len(domain),
         ProperName(domain), NEW p \in 0 .. L, Border(domain, L, p),
         NEW e, e = EndOfLabel(domain, p)
  PROVE  e \in p + 2 .. L + 1
<1>1. e \in p + 1 .. L + 1 /\ (e <= L => domain[e] = Dot)
  BY LabelEnds DEF IsEnd
<1>2. /\ L > 0 /\ domain[1] # Dot /\ domain[L] # Dot
      /\ \A k \in 1 .. L - 1 : domain[k] # Dot \/ domain[k + 1] # Dot
  <2>1. domain # <<>> => L > 0
    OBVIOUS
  <2> QED
    BY <2>1, Zenon DEF ProperName
<1>3. p = 0 \/ domain[p] = Dot
  <2>1. p # L + 1
    OBVIOUS
  <2> QED
    BY <2>1, Zenon DEF Border
<1>4. e # p + 1
  <2> SUFFICES ASSUME e = p + 1 PROVE FALSE
    OBVIOUS
  <2>1. CASE p = 0
    BY <1>1, <1>2, <2>1
  <2>2. CASE p = L
    BY <1>2, <1>3, <2>2
  <2>3. CASE p \in 1 .. L - 1
    <3>1. domain[p + 1] = Dot /\ domain[p] = Dot
      BY <1>1, <1>3, <2>3
    <3> QED
      BY <1>2, <2>3, <3>1
  <2> QED
    BY <2>1, <2>2, <2>3
<1> QED
  BY <1>1, <1>4

(* The label that begins after p, in the query and in the name.            *)
IsRead(Q, domain, p, n) ==
  /\ n \in Nat /\ n > 0 /\ Q[p + 1] = n
  /\ SubSeq(Q, (p + 1) + 1, (p + 1) + n) \in Seq(Nat)
  /\ IsPart(SubSeq(Q, (p + 1) + 1, (p + 1) + n), domain, p, n)

LEMMA LabelRead ==
  ASSUME NEW domain \in Seq(Nat), NEW L \in Nat, L = Len(domain),
         NEW Q, Asked(Q, domain, L), NEW p \in 0 .. L, Border(domain, L, p),
         NEW e, e = EndOfLabel(domain, p), e \in p + 2 .. L + 1
  PROVE  IsRead(Q, domain, p, (e - p) - 1)
<1>1. PICK n \in Nat : n = (e - p) - 1 /\ n > 0 /\ p + n = e - 1
  OBVIOUS
<1>2. /\ Q \in Seq(Nat) /\ Len(Q) = L + 6
      /\ \A k \in 1 .. L + 1 : Q[k] = Code(domain, k)
  BY Zenon DEF Asked
<1>3. Q[p + 1] = n
  <2>1. (p + 1) - 1 = p /\ p + 1 \in 1 .. L + 1
    OBVIOUS
  <2>2. p + 1 = 1 \/ domain[(p + 1) - 1] = Dot
    <3>1. p # L + 1
      OBVIOUS
    <3> QED
      BY <2>1, <3>1 DEF Border
  <2>3. Code(domain, p + 1) = e - (p + 1)
    BY <2>1, <2>2, Zenon DEF Code
  <2>4. Q[p + 1] = e - (p + 1)
    BY <1>2, <2>1, <2>3, Zenon
  <2> QED
    BY <1>1, <2>4
<1>4. PICK x : /\ x = SubSeq(Q, (p + 1) + 1, (p + 1) + n) /\ x \in Seq(Nat)
               /\ Len(x) = n /\ \A i \in 1 .. n : x[i] = Q[(p + 1) + i]
  <2>1. p + 1 \in Nat /\ (p + 1) + n <= Len(Q)
    BY <1>1, <1>2
  <2>2. /\ SubSeq(Q, (p + 1) + 1, (p + 1) + n) \in Seq(Nat)
        /\ IsPart(SubSeq(Q, (p + 1) + 1, (p + 1) + n), Q, p + 1, n)
    BY <1>2, <2>1, PartOf, Zenon
  <2> QED
    BY <2>2, Zenon DEF IsPart
<1>5. \A k \in p + 1 .. e - 1 : domain[k] # Dot
  BY LabelEnds DEF IsEnd
<1>6. ASSUME NEW i \in 1 .. n PROVE x[i] = domain[p + i]
  <2>1. PICK k \in p + 2 .. e : k = (p + 1) + i /\ k - 1 = p + i
    <3>1. /\ (p + 1) + i \in p + 2 .. e
          /\ ((p + 1) + i) - 1 = p + i
      BY <1>1
    <3> QED
      BY <3>1
  <2>2. k \in 1 .. L + 1 /\ k # 1 /\ k - 1 \in p + 1 .. e - 1
    OBVIOUS
  <2>3. Code(domain, k) = domain[k - 1]
    BY <1>5, <2>2, Zenon DEF Code
  <2> QED
    BY <1>2, <1>4, <2>1, <2>2, <2>3
<1>7. IsPart(x, domain, p, n)
  BY <1>4, <1>6 DEF IsPart
<1> QED
  BY <1>1, <1>3, <1>4, <1>7, Zenon DEF IsRead

(* A label more of the name.                                               *)
LEMMA NameGrows ==
  ASSUME NEW domain, NEW p \in Nat, NEW n \in Nat, NEW x \in Seq(Nat),
         IsPart(x, domain, p, n), NEW name, NEW dot,
         Named(name, domain, IF p = 0 THEN 0 ELSE p - 1),
         p = 0 \/ domain[p] = Dot,
         dot = IF p = 0 THEN <<>> ELSE <<Dot>>
  PROVE  Named(name \o dot \o x, domain, p + n)
<1>1. Len(x) = n /\ \A i \in 1 .. n : x[i] = domain[p + i]
  BY DEF IsPart
<1>2. Named(name \o dot, domain, p)
  <2>1. CASE p = 0
    <3>1. name \in Seq(Nat) /\ Len(name) = 0 /\ dot = <<>>
      BY <2>1 DEF Named
    <3>2. name \o dot = name
      BY <3>1, ConcatEmptySeq
    <3> QED
      BY <2>1, <3>2
  <2>2. CASE p # 0
    <3>1. PICK m \in Nat : m = p - 1 /\ p = m + 1
      BY <2>2
    <3>2. Named(name, domain, m) /\ domain[p] = Dot
      BY <2>2, <3>1
    <3>3. dot = <<Dot>>
      BY <2>2
    <3>4. dot \in Seq(Nat) /\ Len(dot) = 1 /\ dot[1] = Dot
      <4>1. Dot \in Nat
        BY DEF Dot
      <4> QED
        BY <3>3, <4>1, OneNumber, Zenon
    <3>5. /\ name \in Seq(Nat) /\ Len(name) = m
          /\ \A i \in 1 .. m : name[i] = domain[i]
      BY <3>2, Zenon DEF Named
    <3>6. IsJoin(name \o dot, name, dot, m, 1)
      BY <3>4, <3>5, 1 \in Nat, JoinOf, Zenon
    <3>7. PICK r : /\ r = name \o dot /\ r \in Seq(Nat) /\ Len(r) = m + 1
                   /\ \A i \in 1 .. m : r[i] = name[i]
                   /\ r[m + 1] = dot[1]
      BY <3>6, 1 \in 1 .. 1, Zenon DEF IsJoin
    <3>8. ASSUME NEW i \in 1 .. p PROVE r[i] = domain[i]
      <4>1. i \in 1 .. m \/ i = p
        BY <3>1
      <4> QED
        BY <3>1, <3>2, <3>4, <3>5, <3>7, <4>1, Zenon
    <3>9. Named(r, domain, p)
      BY <3>1, <3>7, <3>8, Zenon DEF Named
    <3> QED
      BY <3>7, <3>9, Zenon
  <2> QED
    BY <2>1, <2>2, Zenon
<1>3. PICK y : /\ y = name \o dot /\ y \in Seq(Nat) /\ Len(y) = p
               /\ \A i \in 1 .. p : y[i] = domain[i]
  BY <1>2, Zenon DEF Named
<1>4. IsJoin(y \o x, y, x, p, n)
  BY <1>1, <1>3, JoinOf, Zenon
<1>5. PICK r : /\ r = y \o x /\ r \in Seq(Nat) /\ Len(r) = p + n
               /\ \A i \in 1 .. p : r[i] = y[i]
               /\ \A i \in 1 .. n : r[p + i] = x[i]
  BY <1>4, Zenon DEF IsJoin
<1>6. ASSUME NEW i \in 1 .. p + n PROVE r[i] = domain[i]
  <2>1. CASE i \in 1 .. p
    BY <1>3, <1>5, <2>1, Zenon
  <2>2. CASE ~(i \in 1 .. p)
    <3>1. i - p \in 1 .. n /\ p + (i - p) = i
      BY <2>2
    <3>2. r[p + (i - p)] = x[i - p] /\ x[i - p] = domain[p + (i - p)]
      BY <1>1, <1>5, <3>1, Zenon
    <3> QED
      BY <3>1, <3>2
  <2> QED
    BY <2>1, <2>2, Zenon
<1>7. Named(r, domain, p + n)
  BY <1>5, <1>6, Zenon DEF Named
<1> QED
  BY <1>3, <1>5, <1>7, Zenon

(* How far a query has been read.                                          *)
Reads(domain, L) ==
  {s \in [at : Nat, name : Seq(Nat)] :
     /\ s.at \in 1 .. L + 2 /\ Border(domain, L, s.at - 1)
     /\ Named(s.name, domain, IF s.at - 1 = 0 THEN 0 ELSE (s.at - 1) - 1)}

LEMMA ReadsOn ==
  ASSUME NEW domain \in Seq(Nat), NEW L \in Nat, L = Len(domain),
         ProperName(domain), NEW Q, Asked(Q, domain, L),
         NEW s \in Reads(domain, L)
  PROVE  /\ Unpack(s, Q) \in Reads(domain, L)
         /\ \A k \in Nat : k < s.at \/ s.at = L + 2 =>
              k + 1 < Unpack(s, Q).at \/ Unpack(s, Q).at = L + 2
<1>1. PICK p \in 0 .. L + 1 : s.at = p + 1 /\ s.at - 1 = p
  <2>1. s.at \in 1 .. L + 2
    BY DEF Reads
  <2>2. s.at - 1 \in 0 .. L + 1 /\ s.at = (s.at - 1) + 1
    BY <2>1
  <2> QED
    BY <2>2
<1>2. /\ s \in [at : Nat, name : Seq(Nat)] /\ Border(domain, L, p)
      /\ Named(s.name, domain, IF p = 0 THEN 0 ELSE p - 1)
  BY <1>1, Zenon DEF Reads
<1>3. CASE p = L + 1
  <2>1. s.at = L + 2 /\ Q[s.at] = 0
    BY <1>1, <1>3 DEF Asked
  <2>2. Unpack(s, Q) = s
    BY <2>1, Zenon DEF Unpack
  <2> QED
    BY <2>1, <2>2, Zenon
<1>4. CASE p \in 0 .. L
  <2>1. PICK e : e = EndOfLabel(domain, p)
    OBVIOUS
  <2>2. e \in p + 2 .. L + 1
    BY <1>2, <1>4, <2>1, LabelsHaveLength, Zenon
  <2>3. PICK n \in Nat :
          /\ n = (e - p) - 1 /\ n > 0 /\ Q[p + 1] = n
          /\ SubSeq(Q, (p + 1) + 1, (p + 1) + n) \in Seq(Nat)
          /\ IsPart(SubSeq(Q, (p + 1) + 1, (p + 1) + n), domain, p, n)
    <3>1. IsRead(Q, domain, p, (e - p) - 1)
      BY <1>2, <1>4, <2>1, <2>2, LabelRead, Zenon
    <3> QED
      BY <3>1, Zenon DEF IsRead
  <2>4. PICK x : x = SubSeq(Q, (p + 1) + 1, (p + 1) + n)
    OBVIOUS
  <2>5. PICK dot : dot = IF p = 0 THEN <<>> ELSE <<Dot>>
    OBVIOUS
  <2>6. PICK r : r = s.name \o dot \o x
    OBVIOUS
  <2>7. p \in Nat /\ (p = 0 \/ domain[p] = Dot)
    <3>1. p \in Nat /\ p # L + 1
      BY <1>4
    <3> QED
      BY <1>2, <3>1, Zenon DEF Border
  <2>8. Named(r, domain, p + n)
    BY <1>2, <2>3, <2>4, <2>5, <2>6, <2>7, NameGrows, Zenon
  <2>9. PICK t : t = Unpack(s, Q)
    OBVIOUS
  <2>10. t = [at |-> (p + 1) + n + 1, name |-> r]
    <3>1. n # 0 /\ (s.at = 1 <=> p = 0)
      BY <1>1, <2>3
    <3>2. dot = IF s.at = 1 THEN <<>> ELSE <<Dot>>
      BY <2>5, <3>1, Zenon
    <3> QED
      BY <1>1, <2>3, <2>4, <2>6, <2>9, <3>1, <3>2, Zenon DEF Unpack
  <2>11. t.at = e + 1 /\ t.name = r /\ t.at - 1 = e /\ e # 0 /\ e - 1 = p + n
    BY <2>2, <2>3, <2>10
  <2>12. Border(domain, L, e)
    <3>1. e <= L => domain[e] = Dot
      BY <1>4, <2>1, LabelEnds, Zenon DEF IsEnd
    <3>2. e \in 0 .. L + 1 /\ (e = L + 1 \/ e <= L)
      BY <2>2, <1>4
    <3> QED
      BY <3>1, <3>2, Zenon DEF Border
  <2>13. t \in [at : Nat, name : Seq(Nat)] /\ t.at \in 1 .. L + 2
    <3>1. r \in Seq(Nat)
      BY <2>8, Zenon DEF Named
    <3>2. (p + 1) + n + 1 \in Nat /\ e + 1 \in 1 .. L + 2
      BY <1>4, <2>2
    <3> QED
      BY <2>10, <2>11, <3>1, <3>2
  <2>14. t \in Reads(domain, L)
    BY <2>8, <2>11, <2>12, <2>13, Zenon DEF Reads
  <2>15. \A k \in Nat : k < s.at => k + 1 < t.at
    BY <1>1, <1>4, <2>2, <2>11
  <2>16. s.at # L + 2
    BY <1>1, <1>4
  <2> QED
    BY <2>9, <2>14, <2>15, <2>16, Zenon
<1> QED
  BY <1>3, <1>4

(* inf20-1: read by the lengths of its labels, the query for a proper name *)
(* is that name.                                                           *)
LEMMA QueryNames ==
  ASSUME NEW domain \in Seq(Nat), NEW L \in Nat, L = Len(domain),
         NEW Q, Asked(Q, domain, L)
  PROVE  Names(Q, domain)
<1> SUFFICES ASSUME ProperName(domain) PROVE Unpacked(Q) = domain
  BY DEF Names
<1> DEFINE n == L + 6
           S == Reads(domain, L)
           F == [k \in 1 .. n |-> [s \in [at : Nat, name : Seq(Nat)] |->
                   Unpack(s, Q)]]
           a == [at |-> 1, name |-> <<>>]
<1>1. Unpacked(Q) = After(n, a, F)[n].name
  <2>1. Len(Q) = n
    BY Zenon DEF Asked
  <2> QED
    BY <2>1, Zenon DEF Unpacked
<1>2. \A k \in 1 .. n : \A s \in S : F[k][s] = Unpack(s, Q)
  <2>1. S \subseteq [at : Nat, name : Seq(Nat)]
    BY DEF Reads
  <2> HIDE DEF S
  <2> QED
    BY <2>1
<1>3. a \in S /\ a.at = 1
  <2>1. a.at = 1 /\ a.name = <<>> /\ a \in [at : Nat, name : Seq(Nat)]
    BY <<>> \in Seq(Nat)
  <2>2. 1 - 1 = 0 /\ 0 \in 0 .. L + 1 /\ 1 \in 1 .. L + 2
    OBVIOUS
  <2>3. Border(domain, L, 0)
    BY <2>2, Zenon DEF Border
  <2>4. Named(<<>>, domain, 0)
    BY <<>> \in Seq(Nat), Len(<<>>) = 0, 1 .. 0 = {} DEF Named
  <2> HIDE DEF a
  <2> QED
    BY <2>1, <2>2, <2>3, <2>4, Zenon DEF Reads
<1>4. \A s \in S : Unpack(s, Q) \in S
  BY ReadsOn, Zenon
<1>5. Closed(n, S, F)
  BY <1>2, <1>4 DEF Closed
<1>15. n \in Nat
  OBVIOUS
<1> HIDE DEF F, a, S
<1>6. PICK f \in [0 .. n -> S] : f = After(n, a, F) /\ IsLoop(f, n, a, F)
  BY <1>3, <1>5, <1>15, Loop, Zenon
<1> DEFINE H == {k \in 0 .. n : k < f[k].at \/ f[k].at = L + 2}
<1>7. 0 \in H
  <2>1. f[0] = a /\ 0 \in 0 .. n
    BY <1>6 DEF IsLoop
  <2> QED
    BY <1>3, <2>1
<1>8. ASSUME NEW k \in 0 .. n - 1, k \in H PROVE k + 1 \in H
  <2>1. k + 1 \in 1 .. n /\ (k + 1) - 1 = k /\ k \in Nat /\ f[k] \in S
    OBVIOUS
  <2>2. f[k + 1] = Unpack(f[k], Q)
    <3>1. f[k + 1] = F[k + 1][f[k]]
      BY <1>6, <2>1 DEF IsLoop
    <3> QED
      BY <1>2, <2>1, <3>1
  <2>3. k < f[k].at \/ f[k].at = L + 2
    BY <1>8
  <2>4. k + 1 < f[k + 1].at \/ f[k + 1].at = L + 2
    <3>1. k < f[k].at \/ f[k].at = L + 2 =>
            k + 1 < Unpack(f[k], Q).at \/ Unpack(f[k], Q).at = L + 2
      BY <2>1, ReadsOn, Zenon DEF S
    <3> QED
      BY <2>2, <2>3, <3>1, Zenon
  <2> QED
    BY <2>1, <2>4
<1>9. \A k \in 0 .. n - 1 : k \in H => k + 1 \in H
  BY <1>8
<1>10. n \in H
  <2>1. n \in 0 .. n
    OBVIOUS
  <2> HIDE DEF H, n
  <2> QED
    BY <1>7, <1>9, <1>15, <2>1, Induction, Zenon
<1>11. PICK t \in S : t = f[n]
  BY n \in 0 .. n
<1>12. /\ t.at \in 1 .. L + 2
       /\ Named(t.name, domain, IF t.at - 1 = 0 THEN 0 ELSE (t.at - 1) - 1)
  BY <1>11, Zenon DEF S, Reads
<1>13. t.at = L + 2
  <2>1. n < t.at \/ t.at = L + 2
    BY <1>10, <1>11
  <2> QED
    BY <1>12, <2>1
<1>14. Named(t.name, domain, L)
  <2>1. t.at - 1 # 0 /\ (t.at - 1) - 1 = L
    BY <1>13
  <2> QED
    BY <1>12, <2>1, Zenon
<1>16. t.name = domain
  <2>1. /\ t.name \in Seq(Nat) /\ Len(t.name) = Len(domain)
        /\ \A i \in 1 .. Len(t.name) : t.name[i] = domain[i]
    BY <1>14, Zenon DEF Named
  <2> QED
    BY <2>1, SeqEqual, Zenon
<1> QED
  BY <1>1, <1>6, <1>11, <1>16, Zenon

(* inf20-1: for any name of less than 256 bytes the two versions write the *)
(* same query, also for names with empty labels, and for a proper name it  *)
(* is read back as that name.                                              *)
THEOREM QueriesNameHosts ==
  ASSUME NEW domain \in Seq(Nat), Len(domain) < 256
  PROVE  /\ parse(domain) = pack_domain_to_query(domain)
         /\ Names(pack_domain_to_query(domain), domain)
<1>1. PICK L \in Nat : L = Len(domain) /\ L < 256
  OBVIOUS
<1>2. parse(domain) = pack_domain_to_query(domain)
  BY <1>1, SameQueries, Zenon
<1>3. PICK q : /\ Coded(q, domain, L + 1)
               /\ pack_domain_to_query(domain) = q \o <<0, 0, 1, 0, 1>>
  BY <1>1, SameQueries, Zenon
<1>4. Asked(q \o <<0, 0, 1, 0, 1>>, domain, L)
  BY <1>3, QueryAsks, Zenon
<1> QED
  BY <1>1, <1>2, <1>3, <1>4, QueryNames, Zenon

-----------------------------------------------------------------------------
(***************************************************************************)
(* inf05/advanced-2. The integers of the last pixel are divided as the     *)
(* vectors are, and no quotient exceeds a byte.                            *)
(***************************************************************************)
LEMMA DivBound ==
  ASSUME NEW d \in Nat, d > 0, NEW a \in Nat, NEW q \in Nat, a <= d * q
  PROVE  a \div d \in 0 .. q
<1>1. PICK p \in Nat : p = a \div d
  BY Divided
<1>2. d * p <= a
  BY <1>1, Divided
<1>3. CASE p > q
  <2>1. d * (p - q) >= d
    BY <1>3
  <2> QED
    BY <1>2, <2>1
<1> QED
  BY <1>1, <1>3

(* The bytes of a pixel.                                                   *)
PixelsTo(top) == [alpha : 0 .. top, colour : 0 .. top]

LEMMA BlendInRange ==
  ASSUME NEW top \in Nat, top > 0,
         NEW p1 \in PixelsTo(top), NEW p2 \in PixelsTo(top)
  PROVE  /\ BlendOfPair(p1, p2, top) \in PixelsTo(top)
         /\ p1.alpha > 0 \/ p2.alpha > 0 =>
              BlendOfLast(p1, p2, top) = BlendOfPair(p1, p2, top)
<1>1. PICK a1 \in 0 .. top, c1 \in 0 .. top :
        a1 = p1.alpha /\ c1 = p1.colour
  BY DEF PixelsTo
<1>2. PICK a2 \in 0 .. top, c2 \in 0 .. top :
        a2 = p2.alpha /\ c2 = p2.colour
  BY DEF PixelsTo
<1>3. PICK u \in Nat : u = a1 * (top - a2)
  <2>1. top - a2 \in Nat
    OBVIOUS
  <2> QED
    BY <2>1
<1>4. PICK t \in Nat : t = top * a2
  OBVIOUS
<1>5. PICK w \in Nat : w = t + u
  BY <1>3, <1>4
<1>6. w = Weight(p1, p2, top)
  BY <1>1, <1>2, <1>3, <1>4, <1>5 DEF Weight
<1>7. u <= top * (top - a2) /\ w <= top * top
  <2>1. PICK b \in Nat : b = top - a2
    OBVIOUS
  <2>2. a1 * b <= top * b
    OBVIOUS
  <2>3. top * b = top * top - top * a2
    BY <2>1
  <2> QED
    BY <1>3, <1>4, <1>5, <2>1, <2>2, <2>3
<1>8. w \div top \in 0 .. top
  BY <1>7, DivBound
<1>9. PICK s \in Nat : s = Colours(p1, p2, top) /\ s <= w * top
  <2>1. Colours(p1, p2, top) = top * c2 * a2 + c1 * a1 * (top - a2)
    BY <1>1, <1>2 DEF Colours
  <2>2. top * c2 * a2 = c2 * t
    BY <1>4
  <2>3. c1 * a1 * (top - a2) = c1 * u
    BY <1>3
  <2>4. c2 * t \in Nat /\ c2 * t <= top * t
    OBVIOUS
  <2>5. c1 * u \in Nat /\ c1 * u <= top * u
    OBVIOUS
  <2>6. w * top = top * t + top * u
    BY <1>5
  <2> QED
    BY <2>1, <2>2, <2>3, <2>4, <2>5, <2>6
<1>10. w # 0 => s \div w \in 0 .. top
  BY <1>9, DivBound
<1>11. BlendOfPair(p1, p2, top) \in PixelsTo(top)
  BY <1>6, <1>8, <1>9, <1>10 DEF BlendOfPair, PixelsTo
<1>12. ASSUME a1 > 0 \/ a2 > 0
       PROVE  BlendOfLast(p1, p2, top) = BlendOfPair(p1, p2, top)
  <2>1. w # 0
    <3>1. CASE a2 > 0
      <4>1. top * a2 > 0
        BY <3>1
      <4> QED
        BY <1>4, <1>5, <4>1
    <3>2. CASE a2 = 0 /\ a1 > 0
      <4>1. a1 * top > 0
        BY <3>2
      <4> QED
        BY <1>3, <1>5, <3>2, <4>1
    <3> QED
      BY <1>12, <3>1, <3>2
  <2>2. u = top * a1 - a1 * a2
    BY <1>3
  <2>3. a2 + (u \div top) = w \div top
    <3>1. PICK q \in Nat, r \in Nat : q = u \div top /\ r = u % top /\ r < top
      BY Divided
    <3>2. u = top * q + r
      BY <3>1, Divided
    <3>3. w = top * (a2 + q) + r
      BY <1>4, <1>5, <3>2
    <3>4. (top * (a2 + q) + r) \div top = a2 + q
      BY <3>1, DivMod
    <3> QED
      BY <3>1, <3>3, <3>4
  <2> QED
    BY <1>1, <1>2, <1>6, <2>1, <2>2, <2>3 DEF BlendOfLast, BlendOfPair
<1> QED
  BY <1>1, <1>2, <1>11, <1>12

(* inf05/advanced-2: pixels are blended in the same way in the vectors and *)
(* behind them, and stay within their bytes, for images of any length; the *)
(* hypothesis excludes only the division of the last pixel by 0.           *)
THEOREM BlendIsUniform ==
  ASSUME NEW top \in Nat, top > 0,
         NEW image1 \in Seq(PixelsTo(top)), NEW image2 \in Seq(PixelsTo(top)),
         Len(image2) = Len(image1),
         Len(image1) % 2 = 1 => \/ image1[Len(image1)].alpha > 0
                                \/ image2[Len(image1)].alpha > 0
  PROVE  /\ DOMAIN blend(image1, image2, top) = DOMAIN image1
         /\ \A k \in DOMAIN image1 :
              /\ blend(image1, image2, top)[k]
                   = BlendOfPair(image1[k], image2[k], top)
              /\ blend(image1, image2, top)[k] \in PixelsTo(top)
<1> PICK image3 : image3 = blend(image1, image2, top)
  OBVIOUS
<1>1. DOMAIN image3 = DOMAIN image1
  BY DEF blend
<1>2. ASSUME NEW k \in DOMAIN image1
      PROVE  image3[k] = BlendOfPair(image1[k], image2[k], top)
             /\ image3[k] \in PixelsTo(top)
  <2>1. image1[k] \in PixelsTo(top) /\ image2[k] \in PixelsTo(top)
    OBVIOUS
  <2>2. BlendOfPair(image1[k], image2[k], top) \in PixelsTo(top)
    BY <2>1, BlendInRange
  <2>3. CASE k = Len(image1) /\ k % 2 = 1
    <3>1. BlendOfLast(image1[k], image2[k], top)
            = BlendOfPair(image1[k], image2[k], top)
      BY <2>1, <2>3, BlendInRange
    <3>2. image3[k] = BlendOfLast(image1[k], image2[k], top)
      BY <2>3 DEF blend
    <3> QED
      BY <2>2, <3>1, <3>2
  <2>4. CASE ~(k = Len(image1) /\ k % 2 = 1)
    <3>1. image3[k] = BlendOfPair(image1[k], image2[k], top)
      BY <2>4 DEF blend
    <3> QED
      BY <2>2, <3>1
  <2> QED
    BY <2>3, <2>4
<1> QED
  BY <1>1, <1>2

-----------------------------------------------------------------------------
(***************************************************************************)
(* inf07-3. What is reported of a list of files grows file by file, by     *)
(* those that are opened, may be executed and do not pass; and what        *)
(* passes, if a buffer or a directory does not help it, can be executed.   *)
(***************************************************************************)
(* How many of the first files can be opened.                              *)
Opened(files, k) == Cardinality({j \in 1 .. k : files[j].opens})

LEMMA OpenedGrows ==
  ASSUME NEW files, NEW k \in Nat
  PROVE  /\ Opened(files, 0) = 0 /\ Opened(files, k) \in Nat
         /\ files[k + 1].opens => Opened(files, k + 1) = Opened(files, k) + 1
         /\ ~files[k + 1].opens => Opened(files, k + 1) = Opened(files, k)
<1> DEFINE A(i) == {j \in 1 .. i : files[j].opens}
<1>1. Opened(files, 0) = 0
  <2>1. A(0) = {}
    OBVIOUS
  <2> QED
    BY <2>1, FS_EmptySet DEF Opened
<1>2. IsFiniteSet(1 .. k)
  BY FS_Interval
<1>3. IsFiniteSet(A(k)) /\ Cardinality(A(k)) \in Nat
  <2>1. A(k) \subseteq 1 .. k
    OBVIOUS
  <2> HIDE DEF A
  <2> QED
    BY <1>2, <2>1, FS_Subset, FS_CardinalityType
<1>4. k + 1 \notin A(k)
  OBVIOUS
<1>5. Opened(files, k) = Cardinality(A(k))
      /\ Opened(files, k + 1) = Cardinality(A(k + 1))
  BY Zenon DEF Opened
<1>6. CASE files[k + 1].opens
  <2>1. A(k + 1) = A(k) \cup {k + 1}
    <3>1. 1 .. k + 1 = (1 .. k) \cup {k + 1}
      OBVIOUS
    <3> QED
      BY <1>6, <3>1, Zenon
  <2> HIDE DEF A
  <2>2. Cardinality(A(k + 1)) = Cardinality(A(k)) + 1
    BY <1>3, <1>4, <2>1, FS_AddElement
  <2> QED
    BY <1>1, <1>3, <1>5, <1>6, <2>2, Zenon
<1>7. CASE ~files[k + 1].opens
  <2>1. A(k + 1) = A(k)
    <3>1. 1 .. k + 1 = (1 .. k) \cup {k + 1}
      OBVIOUS
    <3> QED
      BY <1>7, <3>1, Zenon
  <2> HIDE DEF A
  <2> QED
    BY <1>1, <1>3, <1>5, <1>7, <2>1, Zenon
<1> QED
  BY <1>6, <1>7, Zenon

(* What there is after the first k files.                                  *)
Bad(file) == file.executable /\ rejected(file)
Reports(files, k, limit) ==
  Opened(files, k - 1) < limit /\ files[k].opens /\ Bad(files[k])

Found(files, k, limit) == {j \in 1 .. k : Reports(files, j, limit)}

Reporting(s, files, k, limit) ==
  /\ s.opened = IF Opened(files, k) < limit THEN Opened(files, k) ELSE limit
  /\ s.reported \in Seq(Nat) /\ Increasing(s.reported)
  /\ Elements(s.reported) = Found(files, k, limit)

LEMMA FoundGrows ==
  ASSUME NEW files, NEW k \in Nat, NEW limit
  PROVE  /\ Found(files, 0, limit) = {}
         /\ \A j \in Found(files, k, limit) : j < k + 1
         /\ Reports(files, k + 1, limit) =>
              Found(files, k + 1, limit) = Found(files, k, limit) \cup {k + 1}
         /\ ~Reports(files, k + 1, limit) =>
              Found(files, k + 1, limit) = Found(files, k, limit)
<1>1. /\ 1 .. k + 1 = (1 .. k) \cup {k + 1}
      /\ 1 .. 0 = {} /\ \A j \in 1 .. k : j < k + 1
  OBVIOUS
<1>2. \A n, j : j \in Found(files, n, limit) <=>
                  j \in 1 .. n /\ Reports(files, j, limit)
  BY Zenon DEF Found
<1>3. \A j : j \in Found(files, k + 1, limit) <=>
               \/ j = k + 1 /\ Reports(files, j, limit)
               \/ j \in Found(files, k, limit)
  <2>1. \A j : j \in 1 .. k + 1 <=> j \in 1 .. k \/ j = k + 1
    BY <1>1, Zenon
  <2> QED
    BY <1>2, <2>1, Zenon
<1>4. /\ Reports(files, k + 1, limit) =>
           Found(files, k + 1, limit) = Found(files, k, limit) \cup {k + 1}
      /\ ~Reports(files, k + 1, limit) =>
           Found(files, k + 1, limit) = Found(files, k, limit)
  BY <1>3, Zenon
<1>5. Found(files, 0, limit) = {}
  BY <1>1, <1>2, Zenon
<1>6. \A j \in Found(files, k, limit) : j < k + 1
  BY <1>1, <1>2, Zenon
<1> QED
  BY <1>4, <1>5, <1>6, Zenon

(* One file more.                                                          *)
Skips(s, file, limit) == s.opened = limit \/ ~file.opens

LEMMA CheckSkips ==
  ASSUME NEW s, NEW k, NEW file, NEW limit, Skips(s, file, limit)
  PROVE  check_file(s, k, file, limit) = s
BY Zenon DEF check_file, Skips

LEMMA CheckOpens ==
  ASSUME NEW s \in Checks, NEW k \in Nat, NEW file, NEW limit,
         ~Skips(s, file, limit)
  PROVE  /\ check_file(s, k, file, limit) \in Checks
         /\ check_file(s, k, file, limit).opened = s.opened + 1
         /\ Bad(file) => check_file(s, k, file, limit).reported
                           = Append(s.reported, k)
         /\ ~Bad(file) => check_file(s, k, file, limit).reported = s.reported
<1>1. /\ s.opened \in Nat /\ s.opened + 1 \in Nat
      /\ s.reported \in Seq(Nat) /\ Append(s.reported, k) \in Seq(Nat)
  <2>1. s.opened \in Nat /\ s.reported \in Seq(Nat)
    BY DEF Checks
  <2> QED
    BY <2>1, AppendProperties
<1>2. \A m \in Nat : \A r \in Seq(Nat) :
        /\ Checked(m, r) \in Checks
        /\ Checked(m, r).opened = m /\ Checked(m, r).reported = r
  BY DEF Checked, Checks
<1>3. PICK r : r = IF file.executable /\ rejected(file)
                   THEN Append(s.reported, k) ELSE s.reported
  OBVIOUS
<1>4. /\ Bad(file) => r = Append(s.reported, k)
      /\ ~Bad(file) => r = s.reported
  BY <1>3, Zenon DEF Bad
<1>5. r \in Seq(Nat)
  BY <1>1, <1>3, Zenon
<1>6. check_file(s, k, file, limit) = Checked(s.opened + 1, r)
  BY <1>3, Zenon DEF check_file, Skips
<1>7. /\ check_file(s, k, file, limit) \in Checks
      /\ check_file(s, k, file, limit).opened = s.opened + 1
      /\ check_file(s, k, file, limit).reported = r
  <2>1. /\ Checked(s.opened + 1, r) \in Checks
        /\ Checked(s.opened + 1, r).opened = s.opened + 1
        /\ Checked(s.opened + 1, r).reported = r
    BY <1>1, <1>2, <1>5
  <2> QED
    BY <1>6, <2>1, Zenon
<1> QED
  BY <1>4, <1>7, Zenon

LEMMA ReportingGrows ==
  ASSUME NEW files, NEW limit \in Nat, NEW k \in Nat, NEW s \in Checks,
         Reporting(s, files, k, limit)
  PROVE  Reporting(check_file(s, k + 1, files[k + 1], limit),
                   files, k + 1, limit)
<1>1. PICK n \in Nat : n = Opened(files, k)
  BY OpenedGrows, Zenon
<1>2. PICK m, file : m = Opened(files, k + 1) /\ file = files[k + 1]
  OBVIOUS
<1>3. (file.opens => m = n + 1) /\ (~file.opens => m = n)
  BY <1>1, <1>2, OpenedGrows, Zenon
<1>4. PICK found, more : /\ found = Found(files, k, limit)
                         /\ more = Found(files, k + 1, limit)
  OBVIOUS
<1>5. /\ s.opened = IF n < limit THEN n ELSE limit
      /\ s.reported \in Seq(Nat) /\ Increasing(s.reported)
      /\ Elements(s.reported) = found
  BY <1>1, <1>4, Zenon DEF Reporting
<1>6. Reports(files, k + 1, limit) <=> n < limit /\ file.opens /\ Bad(file)
  <2>1. (k + 1) - 1 = k
    OBVIOUS
  <2> QED
    BY <1>1, <1>2, <2>1, Zenon DEF Reports
<1>7. /\ Reports(files, k + 1, limit) => more = found \cup {k + 1}
      /\ ~Reports(files, k + 1, limit) => more = found
      /\ \A j \in found : j < k + 1
  <2>1. /\ Reports(files, k + 1, limit) => Found(files, k + 1, limit)
                                           = Found(files, k, limit) \cup {k + 1}
        /\ ~Reports(files, k + 1, limit) => Found(files, k + 1, limit)
                                            = Found(files, k, limit)
    BY FoundGrows
  <2>2. \A j \in Found(files, k, limit) : j < k + 1
    BY FoundGrows, Zenon
  <2> QED
    BY <1>4, <2>1, <2>2, Zenon
<1>8. k + 1 \in Nat
  OBVIOUS
<1>9. PICK next : next = check_file(s, k + 1, file, limit)
  OBVIOUS
<1> SUFFICES /\ next.opened = IF m < limit THEN m ELSE limit
             /\ next.reported \in Seq(Nat) /\ Increasing(next.reported)
             /\ Elements(next.reported) = more
  BY <1>2, <1>4, <1>9, Zenon DEF Reporting
<1>10. CASE Skips(s, file, limit)
  <2>1. next = s
    BY <1>9, <1>10, CheckSkips, Zenon
  <2>2. s.opened = limit \/ ~file.opens
    BY <1>10, Zenon DEF Skips
  <2>3. /\ ~(n < limit /\ file.opens)
        /\ s.opened = IF m < limit THEN m ELSE limit
    <3>1. CASE s.opened # limit
      BY <1>3, <1>5, <2>2, <3>1
    <3>2. CASE s.opened = limit
      <4>1. ~(n < limit)
        BY <1>5, <3>2
      <4>2. ~(m < limit)
        BY <1>3, <4>1
      <4> QED
        BY <3>2, <4>1, <4>2, Zenon
    <3> QED
      BY <3>1, <3>2, Zenon
  <2>4. more = found
    BY <1>6, <1>7, <2>3, Zenon
  <2> QED
    BY <1>5, <2>1, <2>3, <2>4, Zenon
<1>11. CASE ~Skips(s, file, limit)
  <2>1. /\ next.opened = s.opened + 1
        /\ Bad(file) => next.reported = Append(s.reported, k + 1)
        /\ ~Bad(file) => next.reported = s.reported
    <3>1. PICK place \in Nat : place = k + 1
      BY <1>8
    <3>2. next = check_file(s, place, file, limit)
      BY <1>9, <3>1, Zenon
    <3>3. next.opened = s.opened + 1
      BY <1>11, <3>2, CheckOpens
    <3>4. Bad(file) => next.reported = Append(s.reported, place)
      BY <1>11, <3>2, CheckOpens
    <3>5. ~Bad(file) => next.reported = s.reported
      BY <1>11, <3>2, CheckOpens
    <3> QED
      BY <3>1, <3>3, <3>4, <3>5, Zenon
  <2>2. s.opened # limit /\ file.opens
    BY <1>11, Zenon DEF Skips
  <2>3. n < limit
    BY <1>5, <2>2
  <2>4. next.opened = IF m < limit THEN m ELSE limit
    <3>1. m = n + 1 /\ s.opened = n
      BY <1>3, <1>5, <2>2, <2>3, Zenon
    <3> QED
      BY <2>1, <2>3, <3>1
  <2>5. CASE Bad(file)
    <3>1. more = found \cup {k + 1}
      BY <1>6, <1>7, <2>2, <2>3, <2>5, Zenon
    <3>2. /\ Append(s.reported, k + 1) \in Seq(Nat)
          /\ Increasing(Append(s.reported, k + 1))
          /\ Elements(Append(s.reported, k + 1)) = Elements(s.reported) \cup {k + 1}
      BY <1>5, <1>7, <1>8, GrowsUp, Zenon
    <3> QED
      BY <1>5, <2>1, <2>4, <2>5, <3>1, <3>2, Zenon
  <2>6. CASE ~Bad(file)
    <3>1. more = found
      BY <1>6, <1>7, <2>6, Zenon
    <3> QED
      BY <1>5, <2>1, <2>4, <2>6, <3>1, Zenon
  <2> QED
    BY <2>5, <2>6, Zenon
<1> QED
  BY <1>10, <1>11, Zenon

(* After all of them.                                                      *)
LEMMA FindsFound ==
  ASSUME NEW files, Len(files) \in Nat, NEW limit \in Nat
  PROVE  /\ find_invalid(files, limit) \in Seq(Nat)
         /\ Increasing(find_invalid(files, limit))
         /\ Elements(find_invalid(files, limit)) = Found(files, Len(files), limit)
<1>1. PICK n \in Nat : n = Len(files)
  OBVIOUS
<1> DEFINE F == [k \in 1 .. n |-> [s \in Checks |->
                   check_file(s, k, files[k], limit)]]
<1>2. find_invalid(files, limit)
        = After(n, Checked(0, <<>>), F)[n].reported
  BY <1>1, Zenon DEF find_invalid
<1>3. Checked(0, <<>>) \in Checks
  BY DEF Checked, Checks
<1>4. Closed(n, Checks, F)
  <2>1. ASSUME NEW k \in 1 .. n, NEW s \in Checks
        PROVE  check_file(s, k, files[k], limit) \in Checks
    <3>1. k \in Nat
      OBVIOUS
    <3> PICK file : file = files[k]
      OBVIOUS
    <3>2. check_file(s, k, file, limit) \in Checks
      <4>1. CASE Skips(s, file, limit)
        BY <4>1, CheckSkips
      <4>2. CASE ~Skips(s, file, limit)
        BY <3>1, <4>2, CheckOpens
      <4> QED
        BY <4>1, <4>2, Zenon
    <3> QED
      BY <3>2, Zenon
  <2> QED
    BY <2>1, Zenon DEF Closed
<1>5. \A k \in 1 .. n : \A s \in Checks :
        F[k][s] = check_file(s, k, files[k], limit)
  OBVIOUS
<1> HIDE DEF F
<1>6. PICK f \in [0 .. n -> Checks] :
        f = After(n, Checked(0, <<>>), F) /\ IsLoop(f, n, Checked(0, <<>>), F)
  BY <1>3, <1>4, Loop, Zenon
<1> DEFINE H == {k \in 0 .. n : Reporting(f[k], files, k, limit)}
<1>7. 0 \in H
  <2>1. /\ Checked(0, <<>>).opened = 0 /\ Checked(0, <<>>).reported = <<>>
    BY DEF Checked
  <2>2. f[0] = Checked(0, <<>>)
    BY <1>6, Zenon DEF IsLoop
  <2>3. /\ <<>> \in Seq(Nat) /\ Increasing(<<>>) /\ Elements(<<>>) = {}
    BY DEF Increasing, Elements
  <2>4. Opened(files, 0) = 0 /\ Found(files, 0, limit) = {}
    BY 0 \in Nat, OpenedGrows, FoundGrows, Zenon
  <2>5. 0 = IF 0 < limit THEN 0 ELSE limit
    OBVIOUS
  <2>6. Reporting(f[0], files, 0, limit)
    BY <2>1, <2>2, <2>3, <2>4, <2>5, Zenon DEF Reporting
  <2> QED
    BY <2>6
<1>8. ASSUME NEW k \in 0 .. n - 1, k \in H PROVE k + 1 \in H
  <2>1. /\ k \in Nat /\ k \in 0 .. n /\ k + 1 \in 1 .. n /\ k + 1 \in 0 .. n
        /\ (k + 1) - 1 = k
    OBVIOUS
  <2>2. f[k] \in Checks
    BY <2>1, Zenon
  <2>3. f[k + 1] = check_file(f[k], k + 1, files[k + 1], limit)
    <3>1. f[k + 1] = F[k + 1][f[k]]
      BY <1>6, <2>1, Zenon DEF IsLoop
    <3> QED
      BY <1>5, <2>1, <2>2, <3>1, Zenon
  <2>4. Reporting(f[k], files, k, limit)
    BY <1>8, Zenon
  <2>5. Reporting(f[k + 1], files, k + 1, limit)
    BY <2>1, <2>2, <2>3, <2>4, ReportingGrows, Zenon
  <2> QED
    BY <2>1, <2>5
<1>9. \A k \in 0 .. n - 1 : k \in H => k + 1 \in H
  BY <1>8
<1> HIDE DEF H
<1>10. n \in H
  <2>1. \A k \in 0 .. n : k \in H
    BY <1>7, <1>9, Induction, Zenon
  <2> QED
    BY <2>1
<1>11. Reporting(f[n], files, n, limit)
  BY <1>10, Zenon DEF H
<1> QED
  BY <1>1, <1>2, <1>6, <1>11, Zenon DEF Reporting

(* What is said of a file.                                                 *)
Verdict(file) == file.opens /\ Agreed(file) => (Bad(file) <=> Invalid(file))

LEMMA Types ==
  ASSUME NEW file \in AnyFile
  PROVE  /\ file.opens \in BOOLEAN /\ file.executable \in BOOLEAN
         /\ file.readable \in BOOLEAN
         /\ file.content \in Seq(Parts) /\ file.behind \in Seq(Parts)
BY DEF AnyFile

LEMMA WithBuffer ==
  ASSUME NEW S, NEW content \in Seq(S), NEW behind \in Seq(S), content # <<>>
  PROVE  /\ Len(content) \in Nat /\ Len(content) > 0
         /\ Len(content \o behind) >= Len(content)
         /\ \A k \in 1 .. Len(content) : (content \o behind)[k] = content[k]
BY EmptySeq, LenProperties, ConcatProperties

LEMMA RestWithBuffer ==
  ASSUME NEW S, NEW content \in Seq(S), NEW behind \in Seq(S),
         content # <<>>
  PROVE  /\ Len(Tail(content) \o behind) >= Len(content) - 1
         /\ \A k \in 1 .. Len(content) - 1 :
              (Tail(content) \o behind)[k] = content[k + 1]
<1>1. /\ Tail(content) \in Seq(S) /\ Len(Tail(content)) = Len(content) - 1
      /\ \A k \in 1 .. Len(Tail(content)) : Tail(content)[k] = content[k + 1]
      /\ Len(content) \in Nat
  BY HeadTailProperties, LenProperties
<1> PICK rest \in Seq(S) : rest = Tail(content)
  BY <1>1
<1>2. Len(rest \o behind) = Len(rest) + Len(behind) /\ Len(behind) \in Nat
  BY ConcatProperties, LenProperties
<1>3. \A k \in 1 .. Len(rest) : (rest \o behind)[k] = rest[k]
  BY ConcatProperties
<1> QED
  BY <1>1, <1>2, <1>3

(* What is not reported of a script or an ELF file, if not by its buffer,  *)
(* can be executed.                                                        *)
LEMMA InvalidIsBad ==
  ASSUME NEW file \in AnyFile, Invalid(file), ~MayMiss(file)
  PROVE  Bad(file)
<1>1. PICK content \in Seq(Parts), behind \in Seq(Parts) :
        content = file.content /\ behind = file.behind
  BY Types
<1>2. SUFFICES ASSUME ~rejected(file) PROVE CanRun(content)
  BY <1>1, Zenon DEF Invalid, Bad
<1>3. /\ ~TooShort(content)
      /\ content[1] = "#!" => Interpreter(Tail(content) \o behind)
      /\ content[1] # "#!" => Elf(content \o behind)
  BY <1>1, <1>2, Zenon DEF rejected
<1>4. /\ Len(content) = 1 => content[1] \notin {"#!", "7fE"}
      /\ Len(content) > 1 /\ content[1] = "#!" => content[2] # "dir"
  BY <1>1 DEF MayMiss
<1>5. content # <<>>
  BY <1>3, Zenon DEF TooShort
<1>6. PICK m \in Nat : m = Len(content) /\ m > 0
  BY <1>5, WithBuffer
<1>7. CASE content[1] = "#!"
  <2>1. PICK line : line = Tail(content) \o behind
    OBVIOUS
  <2>2. /\ line[1] \in {"sh", "dir"} /\ (Len(line) > 1 => line[2] = "eol")
    BY <1>3, <1>7, <2>1, Zenon DEF Interpreter
  <2>3. m > 1
    BY <1>4, <1>6, <1>7
  <2>4. /\ Len(line) >= m - 1 /\ \A k \in 1 .. m - 1 : line[k] = content[k + 1]
    BY <1>5, <1>6, <2>1, RestWithBuffer
  <2>5. line[1] = content[2]
    BY <2>3, <2>4
  <2>6. content[2] = "sh"
    BY <1>4, <1>6, <1>7, <2>2, <2>3, <2>5
  <2>7. 2 < m => content[3] = "eol"
    <3>1. ASSUME 2 < m PROVE line[2] = content[3] /\ Len(line) > 1
      <4>1. 2 \in 1 .. m - 1 /\ 2 + 1 = 3
        BY <3>1
      <4>2. line[2] = content[3]
        BY <2>4, <4>1, Zenon
      <4>3. Len(line) > 1
        <5>1. Len(line) \in Nat
          BY <1>1, <1>5, <2>1, HeadTailProperties, ConcatProperties,
             LenProperties
        <5> QED
          BY <2>4, <3>1, <5>1
      <4> QED
        BY <4>2, <4>3
    <3> QED
      BY <2>2, <3>1
  <2>8. /\ 2 \in 2 .. m /\ \A j \in 2 .. 2 - 1 : content[j] = "space"
        /\ 2 < m => content[2 + 1] \in {"space", "eol"}
    BY <2>3, <2>7
  <2> QED
    BY <1>5, <1>6, <1>7, <2>6, <2>8, Zenon DEF CanRun
<1>8. CASE content[1] # "#!"
  <2>1. PICK bytes : bytes = content \o behind
    OBVIOUS
  <2>2. bytes[1] = "7fE" /\ bytes[2] = "LF"
    BY <1>3, <1>8, <2>1, Zenon DEF Elf
  <2>3. \A k \in 1 .. m : bytes[k] = content[k]
    BY <1>5, <1>6, <2>1, WithBuffer
  <2>4. content[1] = "7fE"
    BY <1>6, <2>2, <2>3
  <2>5. m > 1
    BY <1>4, <1>6, <2>4
  <2>6. content[2] = "LF"
    BY <2>2, <2>3, <2>5
  <2> QED
    BY <1>6, <2>4, <2>5, <2>6, Zenon DEF CanRun, Elf
<1> QED
  BY <1>7, <1>8, Zenon

LEMMA BadIsInvalid ==
  ASSUME NEW file \in AnyFile, ~Invalid(file), ~MayAlarm(file)
  PROVE  ~Bad(file)
<1>1. PICK content \in Seq(Parts), behind \in Seq(Parts) :
        content = file.content /\ behind = file.behind
  BY Types
<1>2. SUFFICES ASSUME CanRun(content) PROVE ~rejected(file)
  BY <1>1, Zenon DEF Invalid, Bad
<1>3. /\ file.readable
      /\ content # <<>> /\ content[1] = "#!" =>
           /\ \E k \in DOMAIN content : content[k] = "eol"
           /\ \A k \in DOMAIN content : content[k] = "space" =>
                \E j \in 1 .. k - 1 : content[j] = "eol"
  BY <1>1, Zenon DEF MayAlarm
<1>4. PICK m \in Nat : m = Len(content) /\ DOMAIN content = 1 .. m
  BY <1>1
<1>5. CASE Elf(content)
  <2>1. m > 1 /\ content[1] = "7fE" /\ content[2] = "LF" /\ content # <<>>
    <3>1. m > 1 /\ content[1] = "7fE" /\ content[2] = "LF"
      BY <1>4, <1>5, Zenon DEF Elf
    <3> QED
      BY <1>4, <3>1
  <2>2. PICK bytes : bytes = content \o behind
    OBVIOUS
  <2>3. Len(bytes) \in Nat /\ Len(bytes) >= m
        /\ \A k \in 1 .. m : bytes[k] = content[k]
    <3>1. Len(bytes) \in Nat
      BY <2>2, ConcatProperties, LenProperties, Zenon
    <3>2. Len(bytes) >= m /\ \A k \in 1 .. m : bytes[k] = content[k]
      BY <1>4, <2>1, <2>2, WithBuffer
    <3> QED
      BY <3>1, <3>2
  <2>4. Len(bytes) > 1 /\ bytes[1] = "7fE" /\ bytes[2] = "LF"
    BY <2>1, <2>3
  <2>5. Elf(bytes)
    BY <2>4, Zenon DEF Elf
  <2>6. content[1] # "#!" /\ ~TooShort(content)
    BY <1>4, <2>1 DEF TooShort
  <2> QED
    BY <1>1, <1>3, <2>2, <2>5, <2>6, Zenon DEF rejected
<1>6. CASE ~Elf(content)
  <2>1. PICK k \in 2 .. m :
          /\ content # <<>> /\ content[1] = "#!" /\ content[k] = "sh"
          /\ \A j \in 2 .. k - 1 : content[j] = "space"
          /\ k < m => content[k + 1] \in {"space", "eol"}
    BY <1>2, <1>4, <1>6, Zenon DEF CanRun
  <2>2. PICK e \in 1 .. m : content[e] = "eol"
    BY <1>3, <1>4, <2>1, Zenon
  <2>3. \A n \in 1 .. m : content[n] = "space" =>
          \E j \in 1 .. n - 1 : content[j] = "eol"
    BY <1>3, <1>4, <2>1, Zenon
  <2>4. k = 2
    <3>1. ASSUME k # 2 PROVE FALSE
      <4>1. content[2] = "space" /\ 2 \in 1 .. m
        BY <2>1, <3>1
      <4>2. PICK j \in 1 .. 2 - 1 : content[j] = "eol"
        BY <2>3, <4>1, Zenon
      <4>3. j = 1
        OBVIOUS
      <4> QED
        BY <2>1, <4>2, <4>3
    <3> QED
      BY <3>1
  <2>5. m > 2
    <3>1. e # 1 /\ e # 2
      BY <2>1, <2>2, <2>4
    <3> QED
      BY <3>1
  <2>6. content[3] = "eol"
    <3>1. content[3] \in {"space", "eol"}
      BY <2>1, <2>4, <2>5
    <3>2. ASSUME content[3] = "space" PROVE FALSE
      <4>1. 3 \in 1 .. m
        BY <2>5
      <4>2. PICK j \in 1 .. 3 - 1 : content[j] = "eol"
        BY <2>3, <3>2, <4>1, Zenon
      <4>3. j = 1 \/ j = 2
        OBVIOUS
      <4> QED
        BY <2>1, <2>4, <4>2, <4>3
    <3> QED
      BY <3>1, <3>2
  <2>7. PICK line : line = Tail(content) \o behind
    OBVIOUS
  <2>8. /\ Len(line) >= m - 1 /\ \A n \in 1 .. m - 1 : line[n] = content[n + 1]
    BY <1>4, <2>1, <2>7, RestWithBuffer
  <2>9. line[1] = "sh" /\ line[2] = "eol"
    <3>1. line[1] = content[2] /\ line[2] = content[3]
      BY <2>5, <2>8
    <3> QED
      BY <2>1, <2>4, <2>6, <3>1
  <2>10. line # <<>>
    <3>1. Len(line) # 0
      BY <2>5, <2>8
    <3> QED
      BY <3>1
  <2>11. Interpreter(line)
    BY <2>9, <2>10 DEF Interpreter
  <2>12. ~TooShort(content)
    BY <1>4, <2>1, <2>5 DEF TooShort
  <2> QED
    BY <1>1, <1>3, <2>1, <2>7, <2>11, <2>12, Zenon DEF rejected
<1> QED
  BY <1>5, <1>6, Zenon

LEMMA VerdictIsRight == ASSUME NEW file \in AnyFile PROVE Verdict(file)
<1> SUFFICES ASSUME file.opens, Agreed(file) PROVE Bad(file) <=> Invalid(file)
  BY Zenon DEF Verdict
<1>1. CASE Invalid(file)
  BY <1>1, InvalidIsBad, Zenon DEF Agreed
<1>2. CASE ~Invalid(file)
  BY <1>2, BadIsInvalid, Zenon DEF Agreed
<1> QED
  BY <1>1, <1>2, Zenon

(* inf07-3: of any list of files, whatever they consist of, and with any   *)
(* limit of descriptors, the executable ones that cannot be executed are   *)
(* reported in their order, and no others, but for those that MayMiss and  *)
(* MayAlarm name and those behind the limit.                               *)
THEOREM InvalidAreFound ==
  ASSUME NEW files \in Seq(AnyFile), NEW limit \in Nat
  PROVE  FindsInvalid(files, limit)
<1>1. PICK n \in Nat : n = Len(files) /\ DOMAIN files = 1 .. n
  BY LenProperties
<1>2. PICK reported \in Seq(Nat) : reported = find_invalid(files, limit)
  BY <1>1, FindsFound, Zenon
<1>3. Increasing(reported) /\ Elements(reported) = Found(files, n, limit)
  BY <1>1, <1>2, FindsFound, Zenon
<1>4. \A k \in 1 .. n : files[k] \in AnyFile
  BY <1>1, ElementOfSeq, Zenon
<1>5. \A k : k \in Reached(files, limit) <=>
              k \in 1 .. n /\ Opened(files, k - 1) < limit
  BY <1>1, Zenon DEF Reached, Opened
<1>6. \A k : k \in Elements(reported) <=>
              /\ k \in Reached(files, limit) /\ files[k].opens
              /\ Bad(files[k])
  BY <1>3, <1>5, Zenon DEF Found, Reports
<1>7. Elements(reported) = {reported[k] : k \in DOMAIN reported}
  BY Zenon DEF Elements
<1> DEFINE agreed == {k \in Reached(files, limit) : Agreed(files[k])}
<1>8. ASSUME NEW k \in agreed
      PROVE  k \in Elements(reported) <=> Invalid(files[k])
  <2>1. /\ k \in Reached(files, limit) /\ Agreed(files[k])
        /\ files[k] \in AnyFile
    BY <1>4, <1>5, <1>8, Zenon
  <2>2. Verdict(files[k])
    BY <2>1, VerdictIsRight, Zenon
  <2>3. CASE files[k].opens
    BY <1>6, <2>1, <2>2, <2>3, Zenon DEF Verdict
  <2>4. CASE ~files[k].opens
    <3>1. MayMiss(files[k])
      BY <2>4, Zenon DEF MayMiss
    <3>2. ~Invalid(files[k])
      BY <2>1, <3>1, Zenon DEF Agreed
    <3> QED
      BY <1>6, <2>4, <3>2, Zenon
  <2> QED
    BY <2>3, <2>4, Zenon
<1>9. Elements(reported) \subseteq Reached(files, limit)
  BY <1>6, Zenon
<1>10. Elements(reported) \cap agreed = {k \in agreed : Invalid(files[k])}
  <2> HIDE DEF agreed
  <2> QED
    BY <1>8, Zenon
<1>11. \A k \in 1 .. Len(reported) - 1 : reported[k] < reported[k + 1]
  BY <1>3, Zenon DEF Increasing
<1> QED
  BY <1>2, <1>7, <1>9, <1>10, <1>11, Zenon DEF FindsInvalid

-----------------------------------------------------------------------------
(***************************************************************************)
(* inf05-3. After any number of steps the sum is that of the first k       *)
(* products.                                                               *)
(***************************************************************************)
(* The sum of the elements of a vector, by horizontal additions.           *)
LEMMA EightIsSum ==
  ASSUME NEW s \in [1 .. 8 -> Int]
  PROVE  eight(s) = s[1] + s[2] + s[3] + s[4] + s[5] + s[6] + s[7] + s[8]
<1>1. \A r \in [1 .. 8 -> Int] :
        /\ hadd(r)[1] = r[1] + r[2] /\ hadd(r)[2] = r[3] + r[4]
        /\ hadd(r)[5] = r[5] + r[6] /\ hadd(r)[6] = r[7] + r[8]
  <2>1. /\ (1 - 1) % 2 = 0 /\ (2 - 1) % 2 = 1
        /\ (5 - 1) % 2 = 0 /\ (6 - 1) % 2 = 1
    OBVIOUS
  <2>2. SUFFICES ASSUME NEW r \in [1 .. 8 -> Int]
                 PROVE /\ hadd(r)[1] = r[1] + r[2] /\ hadd(r)[2] = r[3] + r[4]
                       /\ hadd(r)[5] = r[5] + r[6] /\ hadd(r)[6] = r[7] + r[8]
    OBVIOUS
  <2> QED
    BY <2>1 DEF hadd
<1>2. \A r \in [1 .. 8 -> Int] : hadd(r) \in [1 .. 8 -> Int]
  <2>1. SUFFICES ASSUME NEW r \in [1 .. 8 -> Int], NEW k \in 1 .. 8
                 PROVE  LET half == IF k <= 4 THEN 0 ELSE 4
                            n == half + 2 * ((k - 1) % 2) + 1
                        IN  r[n] + r[n + 1] \in Int
    BY DEF hadd
  <2>2. (k - 1) % 2 \in {0, 1}
    OBVIOUS
  <2> QED
    BY <2>2
<1>3. PICK h \in [1 .. 8 -> Int] : h = hadd(s)
  BY <1>2
<1>4. eight(s) = hadd(h)[1] + hadd(h)[5]
  BY <1>3 DEF eight
<1>5. /\ h[1] = s[1] + s[2] /\ h[2] = s[3] + s[4]
      /\ h[5] = s[5] + s[6] /\ h[6] = s[7] + s[8]
  BY <1>1, <1>3
<1>6. hadd(h)[1] = h[1] + h[2] /\ hadd(h)[5] = h[5] + h[6]
  BY <1>1
<1> QED
  BY <1>4, <1>5, <1>6

(* Numbers that grow by those of a vector.                                 *)
LEMMA FourSteps ==
  ASSUME NEW p, NEW k \in Nat, NEW q \in [1 .. 4 -> Int],
         \A l \in 1 .. 4 : p[k + l] = p[(k + l) - 1] + q[l],
         \A l \in 0 .. 4 : p[k + l] \in Int
  PROVE  p[k + 4] = p[k] + four(q)
<1>1. PICK q1 \in Int, q2 \in Int, q3 \in Int, q4 \in Int :
        q1 = q[1] /\ q2 = q[2] /\ q3 = q[3] /\ q4 = q[4]
  OBVIOUS
<1>2. PICK a0 \in Int, a1 \in Int, a2 \in Int, a3 \in Int, a4 \in Int :
        /\ a0 = p[k + 0] /\ a1 = p[k + 1] /\ a2 = p[k + 2]
        /\ a3 = p[k + 3] /\ a4 = p[k + 4]
  <2>1. 0 \in 0 .. 4 /\ 1 \in 0 .. 4 /\ 2 \in 0 .. 4 /\ 3 \in 0 .. 4 /\ 4 \in 0 .. 4
    OBVIOUS
  <2> QED
    BY <2>1, Zenon
<1>3. a1 = a0 + q1 /\ a2 = a1 + q2 /\ a3 = a2 + q3 /\ a4 = a3 + q4
  <2>1. /\ (k + 1) - 1 = k + 0 /\ (k + 2) - 1 = k + 1
        /\ (k + 3) - 1 = k + 2 /\ (k + 4) - 1 = k + 3
    OBVIOUS
  <2> QED
    BY <1>1, <1>2, <2>1
<1>4. four(q) = q1 + q2 + q3 + q4
  BY <1>1 DEF four
<1>5. k + 0 = k
  OBVIOUS
<1>6. a4 = a0 + (q1 + q2 + q3 + q4)
  BY <1>3
<1> QED
  BY <1>2, <1>4, <1>5, <1>6

LEMMA EightSteps ==
  ASSUME NEW p, NEW k \in Nat, NEW q \in [1 .. 8 -> Int],
         \A l \in 1 .. 8 : p[k + l] = p[(k + l) - 1] + q[l],
         \A l \in 0 .. 8 : p[k + l] \in Int
  PROVE  p[k + 8] = p[k] + eight(q)
<1> DEFINE low == [l \in 1 .. 4 |-> q[l]]
           high == [l \in 1 .. 4 |-> q[4 + l]]
<1>1. /\ low \in [1 .. 4 -> Int] /\ high \in [1 .. 4 -> Int]
      /\ low[1] = q[1] /\ low[2] = q[2] /\ low[3] = q[3] /\ low[4] = q[4]
      /\ high[1] = q[5] /\ high[2] = q[6] /\ high[3] = q[7] /\ high[4] = q[8]
  OBVIOUS
<1>2. /\ \A l \in 1 .. 4 : p[k + l] = p[(k + l) - 1] + low[l]
      /\ \A l \in 0 .. 4 : p[k + l] \in Int
  OBVIOUS
<1>3. /\ \A l \in 1 .. 4 : p[(k + 4) + l] = p[((k + 4) + l) - 1] + high[l]
      /\ \A l \in 0 .. 4 : p[(k + 4) + l] \in Int
  <2>1. ASSUME NEW l \in 1 .. 4
        PROVE  p[(k + 4) + l] = p[((k + 4) + l) - 1] + high[l]
    <3>1. 4 + l \in 1 .. 8 /\ k + (4 + l) = (k + 4) + l
      OBVIOUS
    <3> QED
      BY <3>1
  <2>2. ASSUME NEW l \in 0 .. 4 PROVE p[(k + 4) + l] \in Int
    <3>1. 4 + l \in 0 .. 8 /\ k + (4 + l) = (k + 4) + l
      OBVIOUS
    <3> QED
      BY <3>1
  <2> QED
    BY <2>1, <2>2
<1>4. PICK q1 \in Int, q2 \in Int, q3 \in Int, q4 \in Int :
        q1 = q[1] /\ q2 = q[2] /\ q3 = q[3] /\ q4 = q[4]
  OBVIOUS
<1>5. PICK q5 \in Int, q6 \in Int, q7 \in Int, q8 \in Int :
        q5 = q[5] /\ q6 = q[6] /\ q7 = q[7] /\ q8 = q[8]
  OBVIOUS
<1>6. four(low) = q1 + q2 + q3 + q4 /\ four(high) = q5 + q6 + q7 + q8
  BY <1>1, <1>4, <1>5 DEF four
<1>7. eight(q) = q1 + q2 + q3 + q4 + q5 + q6 + q7 + q8
  <2>1. eight(q) = q[1] + q[2] + q[3] + q[4] + q[5] + q[6] + q[7] + q[8]
    BY EightIsSum
  <2> QED
    BY <1>4, <1>5, <2>1
<1> HIDE DEF low, high
<1>8. p[k + 4] = p[k] + four(low)
  BY <1>1, <1>2, FourSteps
<1>9. p[(k + 4) + 4] = p[k + 4] + four(high)
  <2>1. k + 4 \in Nat
    OBVIOUS
  <2> QED
    BY <1>1, <1>3, <2>1, FourSteps
<1>10. PICK a \in Int, b \in Int : a = p[k] /\ b = p[k + 4]
  <2>1. k + 0 = k /\ p[k + 0] \in Int /\ p[k + 4] \in Int
    OBVIOUS
  <2> QED
    BY <2>1
<1>11. p[k + 8] = b + (q5 + q6 + q7 + q8) /\ b = a + (q1 + q2 + q3 + q4)
  <2>1. (k + 4) + 4 = k + 8
    OBVIOUS
  <2> QED
    BY <1>6, <1>8, <1>9, <1>10, <2>1
<1> QED
  BY <1>7, <1>10, <1>11

(* inf05-3: steps of 8, 4 and 1 add every product once, for vectors of any *)
(* length.                                                                 *)
THEOREM ProductsAddUp ==
  ASSUME NEW A \in Seq(Int), NEW B \in Seq(Int), Len(A) = Len(B)
  PROVE  dot_product(A, B) = Product(A, B)
<1>1. PICK n \in Nat : n = Len(A)
  OBVIOUS
<1>2. \A k \in 1 .. n : A[k] \in Int /\ B[k] \in Int /\ A[k] * B[k] \in Int
  BY <1>1
<1> DEFINE F == [k \in 1 .. n |-> [s \in Products |-> add_products(s, A, B)]]
           G == [k \in 1 .. n |-> [sum \in Int |-> sum + A[k] * B[k]]]
           zero == [k |-> 0, ans |-> 0]
<1>3. /\ dot_product(A, B) = After(n, zero, F)[n].ans
      /\ Product(A, B) = After(n, 0, G)[n]
  BY <1>1, Zenon DEF dot_product, Product
<1>4. PICK p \in [0 .. n -> Int] :
        /\ p = After(n, 0, G)
        /\ p[0] = 0 /\ \A k \in 1 .. n : p[k] = p[k - 1] + A[k] * B[k]
  <2>1. Closed(n, Int, G) /\ 0 \in Int
    BY <1>2 DEF Closed
  <2>2. \A k \in 1 .. n : \A sum \in Int : G[k][sum] = sum + A[k] * B[k]
    OBVIOUS
  <2> HIDE DEF G
  <2>3. PICK p \in [0 .. n -> Int] : p = After(n, 0, G) /\ IsLoop(p, n, 0, G)
    BY <2>1, Loop, Zenon
  <2>4. ASSUME NEW k \in 1 .. n PROVE p[k] = p[k - 1] + A[k] * B[k]
    <3>1. p[k] = G[k][p[k - 1]] /\ p[k - 1] \in Int
      BY <2>3 DEF IsLoop
    <3> QED
      BY <2>2, <3>1
  <2> QED
    BY <2>3, <2>4 DEF IsLoop
<1> HIDE DEF G
(* m products from place k on are the difference of two sums.              *)
<1> DEFINE Q(k, m) == [l \in 1 .. m |-> A[k + l] * B[k + l]]
<1>5. ASSUME NEW k \in 0 .. n, NEW m \in 1 .. 8, k + m <= n
      PROVE  \E q \in [1 .. m -> Int] :
               /\ q = Q(k, m)
               /\ \A l \in 1 .. m : p[k + l] = p[(k + l) - 1] + q[l]
               /\ \A l \in 0 .. m : p[k + l] \in Int
  <2>1. \A l \in 1 .. m : k + l \in 1 .. n
    BY <1>5
  <2>2. \A l \in 0 .. m : k + l \in 0 .. n
    BY <1>5
  <2>3. /\ Q(k, m) \in [1 .. m -> Int]
        /\ \A l \in 1 .. m : p[k + l] = p[(k + l) - 1] + Q(k, m)[l]
    BY <1>2, <1>4, <2>1
  <2> HIDE DEF Q
  <2> QED
    BY <2>2, <2>3
<1>6. ASSUME NEW s \in Products, s.k <= n, s.ans = p[s.k]
      PROVE  \E j \in 0 .. n : /\ j > s.k \/ j = n
                               /\ add_products(s, A, B) = [k |-> j, ans |-> p[j]]
  <2>1. PICK k \in 0 .. n : k = s.k
    BY <1>6 DEF Products
  <2>2. s = [k |-> k, ans |-> p[k]]
    BY <1>6, <2>1 DEF Products
  <2> HIDE DEF Q
  <2>3. CASE k + 8 <= n
    <3>1. PICK q \in [1 .. 8 -> Int] :
            /\ q = Q(k, 8)
            /\ \A l \in 1 .. 8 : p[k + l] = p[(k + l) - 1] + q[l]
            /\ \A l \in 0 .. 8 : p[k + l] \in Int
      BY <1>5, <2>3
    <3>2. /\ \A l \in 1 .. 8 : p[k + l] = p[(k + l) - 1] + q[l]
          /\ \A l \in 0 .. 8 : p[k + l] \in Int
      BY <3>1
    <3>3. p[k + 8] = p[k] + eight(q)
      BY k \in Nat, <3>2, EightSteps, Zenon
    <3>4. add_products(s, A, B) = [k |-> k + 8, ans |-> p[k] + eight(q)]
      BY <1>1, <2>2, <2>3, <3>1 DEF add_products, Q
    <3>5. PICK j \in 0 .. n : j = k + 8 /\ j > s.k
      <4>1. k + 8 \in 0 .. n /\ k + 8 > k
        BY <2>3
      <4> QED
        BY <2>1, <4>1, Zenon
    <3>6. add_products(s, A, B) = [k |-> j, ans |-> p[j]]
      BY <3>3, <3>4, <3>5
    <3> QED
      BY <3>5, <3>6, Zenon
  <2>4. CASE k + 8 > n /\ k + 4 <= n
    <3>1. PICK q \in [1 .. 4 -> Int] :
            /\ q = Q(k, 4)
            /\ \A l \in 1 .. 4 : p[k + l] = p[(k + l) - 1] + q[l]
            /\ \A l \in 0 .. 4 : p[k + l] \in Int
      BY <1>5, <2>4
    <3>2. /\ \A l \in 1 .. 4 : p[k + l] = p[(k + l) - 1] + q[l]
          /\ \A l \in 0 .. 4 : p[k + l] \in Int
      BY <3>1
    <3>3. p[k + 4] = p[k] + four(q)
      BY k \in Nat, <3>2, FourSteps, Zenon
    <3>4. add_products(s, A, B) = [k |-> k + 4, ans |-> p[k] + four(q)]
      BY <1>1, <2>2, <2>4, <3>1 DEF add_products, Q
    <3>5. PICK j \in 0 .. n : j = k + 4 /\ j > s.k
      <4>1. k + 4 \in 0 .. n /\ k + 4 > k
        BY <2>4
      <4> QED
        BY <2>1, <4>1, Zenon
    <3>6. add_products(s, A, B) = [k |-> j, ans |-> p[j]]
      BY <3>3, <3>4, <3>5
    <3> QED
      BY <3>5, <3>6, Zenon
  <2>5. CASE k + 4 > n /\ k < n
    <3>1. PICK q \in [1 .. 1 -> Int] :
            /\ q = Q(k, 1)
            /\ \A l \in 1 .. 1 : p[k + l] = p[(k + l) - 1] + q[l]
      BY <1>5, <2>5
    <3>2. p[k + 1] = p[k] + q[1]
      BY <3>1
    <3>3. add_products(s, A, B) = [k |-> k + 1, ans |-> p[k] + q[1]]
      BY <1>1, <2>2, <2>5, <3>1 DEF add_products, Q
    <3>4. add_products(s, A, B) = [k |-> k + 1, ans |-> p[k + 1]]
      BY <3>2, <3>3
    <3> QED
      BY <2>1, <2>5, <3>4
  <2>6. CASE k = n
    <3>1. add_products(s, A, B) = s
      BY <1>1, <2>2, <2>6 DEF add_products
    <3> QED
      BY <2>2, <2>6, <3>1
  <2> QED
    BY <2>3, <2>4, <2>5, <2>6
<1> HIDE DEF Q
<1> DEFINE T == {s \in Products : s.k <= n /\ s.ans = p[s.k]}
<1>7. Closed(n, T, F) /\ zero \in T
  <2>1. ASSUME NEW k \in 1 .. n, NEW s \in T PROVE F[k][s] \in T
    <3>1. F[k][s] = add_products(s, A, B)
      OBVIOUS
    <3>2. PICK j \in 0 .. n : add_products(s, A, B) = [k |-> j, ans |-> p[j]]
      BY <1>6
    <3>3. [k |-> j, ans |-> p[j]] \in T
      BY DEF Products
    <3> QED
      BY <3>1, <3>2, <3>3
  <2>2. zero \in T
    BY <1>4 DEF Products
  <2> HIDE DEF F, T
  <2> QED
    BY <2>1, <2>2 DEF Closed
<1>8. \A k \in 1 .. n : \A s \in T : F[k][s] = add_products(s, A, B)
  OBVIOUS
<1>9. \A s \in T : /\ s \in Products /\ s.k \in 0 .. n /\ s.ans = p[s.k]
                   /\ add_products(s, A, B).k > s.k
                        \/ add_products(s, A, B).k = n
  <2>1. \A s \in T : s \in Products /\ s.k \in 0 .. n /\ s.ans = p[s.k]
    BY DEF Products
  <2>3. SUFFICES ASSUME NEW s \in T
                 PROVE  add_products(s, A, B).k > s.k
                          \/ add_products(s, A, B).k = n
    BY <2>1
  <2>2. PICK j \in 0 .. n : /\ j > s.k \/ j = n
                            /\ add_products(s, A, B) = [k |-> j, ans |-> p[j]]
    BY <1>6
  <2> QED
    BY <2>2
<1>10. zero.k = 0
  OBVIOUS
<1> HIDE DEF F, T, zero
<1>11. PICK f \in [0 .. n -> T] : f = After(n, zero, F) /\ IsLoop(f, n, zero, F)
  BY <1>7, Loop, Zenon
<1> DEFINE H == {t \in 0 .. n : f[t].k >= t}
<1>12. 0 \in H
  BY <1>10, <1>11 DEF IsLoop
<1>13. ASSUME NEW t \in 0 .. n - 1, t \in H PROVE t + 1 \in H
  <2>1. t + 1 \in 1 .. n /\ (t + 1) - 1 = t /\ f[t] \in T /\ f[t + 1] \in T
    OBVIOUS
  <2>2. f[t + 1] = add_products(f[t], A, B)
    BY <1>8, <1>11, <2>1 DEF IsLoop
  <2>3. f[t + 1].k > f[t].k \/ f[t + 1].k = n
    BY <1>9, <2>1, <2>2
  <2>4. f[t].k \in 0 .. n /\ f[t + 1].k \in 0 .. n /\ f[t].k >= t
    BY <1>9, <1>13, <2>1
  <2> QED
    BY <2>3, <2>4
<1>14. \A t \in 0 .. n - 1 : t \in H => t + 1 \in H
  BY <1>13
<1>15. n \in H
  <2> HIDE DEF H
  <2>1. \A t \in 0 .. n : t \in H
    BY <1>12, <1>14, Induction, Zenon
  <2> QED
    BY <2>1
<1>16. f[n].ans = p[n]
  <2>1. f[n] \in T
    OBVIOUS
  <2> QED
    BY <1>9, <1>15, <2>1
<1> QED
  BY <1>3, <1>4, <1>11, <1>16

-----------------------------------------------------------------------------
(***************************************************************************)
(* inf07-1, inf08-1. The places printed so far are linked by pointers, and *)
(* the next one is where the program goes; the programs take the same      *)
(* steps as long as their readings of a pointer agree, and the mapped one  *)
(* prints no less where they part.                                         *)
(***************************************************************************)
(* Where a program that prints a list is after some of its items.          *)
Followed(s, file, k) ==
  LET n == Len(s.printed)
  IN  /\ n <= k
      /\ n = 0 => s = FirstItem /\ k = 0
      /\ n > 0 => /\ s.printed[1] = 0
                  /\ s.ptr = Pointer(file, s.printed[n])
                  /\ \A j \in 1 .. n - 1 :
                       /\ s.printed[j + 1] = Pointer(file, s.printed[j])
                       /\ s.printed[j + 1] # 0
                  /\ IF s.going THEN n = k /\ s.ptr # 0
                     ELSE s.ptr = 0 \/ ~Inside(file, s.ptr)

LEMMA PointerType ==
  ASSUME NEW file \in Seq(Nat), NEW p \in Nat
  PROVE  Pointer(file, p) \in Nat
<1>1. CASE p + 1 < Len(file)
  <2>1. (p + 1) + 1 \in 1 .. Len(file)
    BY <1>1
  <2>2. file[(p + 1) + 1] \in Nat
    BY <2>1
  <2> QED
    BY <1>1, <2>2 DEF Pointer, Inside, Word
<1>2. CASE ~(p + 1 < Len(file))
  BY <1>2 DEF Pointer, Inside
<1> QED
  BY <1>1, <1>2

LEMMA WalksOn ==
  ASSUME NEW file \in Seq(Nat), NEW s \in Walks
  PROVE  walk_posix(s, file) \in Walks
<1>1. Pointer(file, s.ptr) \in Nat
  BY PointerType DEF Walks
<1> QED
  BY <1>1 DEF walk_posix, Halted, GoTo, Walks

LEMMA WalkFollows ==
  ASSUME NEW file \in Seq(Nat), file # <<>>, NEW k \in Nat, NEW s \in Walks,
         Followed(s, file, k)
  PROVE  Followed(walk_posix(s, file), file, k + 1)
<1>1. PICK n \in Nat : n = Len(s.printed)
  BY DEF Walks
<1>2. PICK t : t = walk_posix(s, file)
  OBVIOUS
<1>3. s.ptr \in Nat /\ s.going \in BOOLEAN /\ s.printed \in Seq(Nat)
  BY DEF Walks
<1>4. CASE ~s.going
  <2>1. t = Halted(s)
    BY <1>2, <1>4 DEF walk_posix
  <2>2. t.printed = s.printed /\ t.ptr = s.ptr /\ t.going = FALSE
    BY <2>1 DEF Halted
  <2>3. n # 0
    BY <1>1, <1>4 DEF Followed, FirstItem
  <2> QED
    BY <1>1, <1>2, <1>4, <2>2, <2>3 DEF Followed
<1>5. CASE s.going /\ ~Inside(file, s.ptr)
  <2>1. t = Halted(s)
    BY <1>2, <1>5 DEF walk_posix
  <2>2. t.printed = s.printed /\ t.ptr = s.ptr /\ t.going = FALSE
    BY <2>1 DEF Halted
  <2>3. n # 0
    <3>1. CASE n = 0
      <4>1. s.ptr = 0 /\ Len(file) > 0
        BY <1>1, <3>1 DEF Followed, FirstItem
      <4> QED
        BY <1>5, <4>1 DEF Inside
    <3> QED
      BY <3>1
  <2> QED
    BY <1>1, <1>2, <1>5, <2>2, <2>3 DEF Followed
<1>6. CASE s.going /\ Inside(file, s.ptr)
  <2>1. PICK next \in Nat : next = Pointer(file, s.ptr)
    BY <1>3, PointerType
  <2>2. t = GoTo(s, next, next)
    BY <1>2, <1>6, <2>1 DEF walk_posix
  <2>3. t.ptr = next /\ t.going = (next # 0)
        /\ t.printed = Append(s.printed, s.ptr)
    BY <2>2 DEF GoTo
  <2>4. /\ Len(t.printed) = n + 1 /\ t.printed[n + 1] = s.ptr
        /\ \A j \in 1 .. n : t.printed[j] = s.printed[j]
    BY <1>1, <1>3, <2>3
  <2>5. n = k
    BY <1>1, <1>6 DEF Followed
  <2>6. CASE n = 0
    <3>1. s.ptr = 0
      BY <1>1, <2>6 DEF Followed, FirstItem
    <3>2. /\ t.printed[1] = 0 /\ Len(t.printed) = 1
          /\ t.ptr = Pointer(file, t.printed[1])
      BY <2>1, <2>3, <2>4, <2>6, <3>1
    <3>3. IF t.going THEN 1 = k + 1 /\ t.ptr # 0
          ELSE t.ptr = 0 \/ ~Inside(file, t.ptr)
      <4>1. 1 = k + 1
        BY <2>5, <2>6
      <4> QED
        BY <2>3, <4>1
    <3>4. 1 <= k + 1 /\ 1 # 0 /\ 1 > 0 /\ 1 .. 1 - 1 = {}
      OBVIOUS
    <3>5. Followed(t, file, k + 1)
      BY <3>2, <3>3, <3>4, Zenon DEF Followed
    <3> QED
      BY <1>2, <3>5
  <2>7. CASE n > 0
    <3>1. /\ s.printed[1] = 0 /\ s.ptr = Pointer(file, s.printed[n]) /\ s.ptr # 0
          /\ \A j \in 1 .. n - 1 :
               /\ s.printed[j + 1] = Pointer(file, s.printed[j])
               /\ s.printed[j + 1] # 0
      BY <1>1, <1>6, <2>7 DEF Followed
    <3>2. ASSUME NEW j \in 1 .. n
          PROVE  /\ t.printed[j + 1] = Pointer(file, t.printed[j])
                 /\ t.printed[j + 1] # 0
      <4>1. CASE j = n
        BY <2>4, <3>1, <4>1
      <4>2. CASE j # n
        <5>1. j \in 1 .. n - 1 /\ j + 1 \in 1 .. n
          BY <4>2
        <5> QED
          BY <2>4, <3>1, <5>1
      <4> QED
        BY <4>1, <4>2
    <3>3. t.printed[1] = 0
      <4>1. 1 \in 1 .. n
        BY <2>7
      <4> QED
        BY <2>4, <3>1, <4>1
    <3>4. /\ n + 1 <= k + 1 /\ n + 1 # 0 /\ n + 1 > 0 /\ n + 1 = k + 1
          /\ (n + 1) - 1 = n
      BY <2>5
    <3>5. IF t.going THEN n + 1 = k + 1 /\ t.ptr # 0
          ELSE t.ptr = 0 \/ ~Inside(file, t.ptr)
      BY <2>3, <3>4
    <3>6. t.ptr = Pointer(file, t.printed[n + 1])
      BY <2>1, <2>3, <2>4
    <3>7. Followed(t, file, k + 1)
      BY <2>4, <3>2, <3>3, <3>4, <3>5, <3>6, Zenon DEF Followed
    <3> QED
      BY <1>2, <3>7
  <2> QED
    BY <2>6, <2>7
<1> QED
  BY <1>4, <1>5, <1>6, <1>3

(* The loop that prints a list from its beginning.                         *)
LEMMA PosixLoop ==
  ASSUME NEW file \in Seq(Nat), NEW steps \in Nat
  PROVE  \E f \in [0 .. steps -> Walks] :
           /\ f[0] = FirstItem
           /\ \A k \in 1 .. steps : f[k] = walk_posix(f[k - 1], file)
           /\ print_list_posix(file, steps) = f[steps].printed
<1> DEFINE F == [k \in 1 .. steps |-> [s \in Walks |-> walk_posix(s, file)]]
<1>1. Closed(steps, Walks, F) /\ FirstItem \in Walks
  BY WalksOn DEF Closed, FirstItem, Walks
<1>2. \A k \in 1 .. steps : \A s \in Walks : F[k][s] = walk_posix(s, file)
  OBVIOUS
<1>3. print_list_posix(file, steps) = After(steps, FirstItem, F)[steps].printed
  BY Zenon DEF print_list_posix
<1> HIDE DEF F
<1>4. PICK f \in [0 .. steps -> Walks] :
        f = After(steps, FirstItem, F) /\ IsLoop(f, steps, FirstItem, F)
  BY <1>1, Loop, Zenon
<1>5. ASSUME NEW k \in 1 .. steps PROVE f[k] = walk_posix(f[k - 1], file)
  <2>1. f[k] = F[k][f[k - 1]] /\ f[k - 1] \in Walks
    BY <1>4 DEF IsLoop
  <2> QED
    BY <1>2, <2>1
<1> QED
  BY <1>3, <1>4, <1>5 DEF IsLoop

(* inf07-1: in any file of words, well-formed or not, the program prints   *)
(* the items that its pointers lead through and stops only at a 0, behind  *)
(* the end, or after more steps than there are words, in a circle.         *)
THEOREM PosixFollows ==
  ASSUME NEW file \in Seq(Nat), file # <<>>
  PROVE  Follows(print_list_posix(file, Len(file) + 1), file)
<1>1. PICK n \in Nat : n = Len(file) + 1 /\ n > 0
  OBVIOUS
<1>2. PICK f \in [0 .. n -> Walks] :
        /\ f[0] = FirstItem
        /\ \A k \in 1 .. n : f[k] = walk_posix(f[k - 1], file)
        /\ print_list_posix(file, n) = f[n].printed
  BY PosixLoop
<1> DEFINE H == {k \in 0 .. n : Followed(f[k], file, k)}
<1>3. 0 \in H
  <2>1. Len(f[0].printed) = 0
    BY <1>2 DEF FirstItem
  <2> QED
    BY <1>2, <2>1 DEF Followed
<1>4. ASSUME NEW k \in 0 .. n - 1, k \in H PROVE k + 1 \in H
  <2>1. k + 1 \in 1 .. n /\ (k + 1) - 1 = k /\ f[k] \in Walks
    OBVIOUS
  <2>2. f[k + 1] = walk_posix(f[k], file)
    BY <1>2, <2>1
  <2>3. Followed(walk_posix(f[k], file), file, k + 1)
    BY <1>4, <2>1, WalkFollows
  <2> QED
    BY <2>2, <2>3
<1>5. \A k \in 0 .. n - 1 : k \in H => k + 1 \in H
  BY <1>4
<1>6. Followed(f[n], file, n)
  <2> HIDE DEF H
  <2>1. \A k \in 0 .. n : k \in H
    BY <1>3, <1>5, Induction, Zenon
  <2> QED
    BY <2>1 DEF H
<1>7. PICK s \in Walks : s = f[n]
  OBVIOUS
<1>8. PICK m \in Nat : m = Len(s.printed)
  BY DEF Walks
<1>9. m # 0
  BY <1>1, <1>6, <1>7, <1>8 DEF Followed
<1>10. m <= Len(file) => ~s.going
  BY <1>1, <1>6, <1>7, <1>8, <1>9 DEF Followed
<1> QED
  BY <1>1, <1>2, <1>6, <1>7, <1>8, <1>9, <1>10 DEF Followed, Follows

(* The mapped version has gone on where the other one has stopped, behind  *)
(* the last word of a page.                                                *)
Parted(s, t, file, page) ==
  /\ ~t.going /\ t.printed # <<>>
  /\ Len(file) % page = 0 /\ t.printed[Len(t.printed)] = Len(file) - 1
  /\ Begins(s.printed, t.printed)

Mapped(behind) == behind = <<>> \/ \E word \in Nat : behind = <<word>>

LEMMA BehindIs ==
  ASSUME NEW file \in Seq(Nat), NEW page, NEW behind, Mapped(behind),
         NEW p \in Nat
  PROVE  \/ Behind(file, p, page, behind) = <<>>
         \/ /\ Behind(file, p, page, behind)[1] \in Nat
            /\ Behind(file, p, page, behind) # <<>>
<1>1. Pointer(file, p) \in Nat
  BY PointerType
<1>2. CASE p + 1 = Len(file) /\ Len(file) % page = 0
  BY <1>2 DEF Behind, Mapped
<1>3. CASE ~(p + 1 = Len(file) /\ Len(file) % page = 0)
  BY <1>1, <1>3 DEF Behind
<1> QED
  BY <1>2, <1>3

LEMMA MmapWalks ==
  ASSUME NEW file \in Seq(Nat), NEW page, NEW behind, Mapped(behind),
         NEW minus_one, NEW s \in Walks
  PROVE  /\ walk_mmap(s, file, minus_one, page, behind) \in Walks
         /\ \/ walk_mmap(s, file, minus_one, page, behind).printed = s.printed
            \/ walk_mmap(s, file, minus_one, page, behind).printed
                 = Append(s.printed, s.ptr)
<1>1. PICK r : r = Behind(file, s.ptr, page, behind)
  OBVIOUS
<1>2. s.ptr \in Nat /\ s.next \in Nat /\ s.printed \in Seq(Nat)
  BY DEF Walks
<1>3. r = <<>> \/ (r[1] \in Nat /\ r # <<>>)
  BY <1>1, <1>2, BehindIs
<1>4. \/ walk_mmap(s, file, minus_one, page, behind) = Halted(s)
      \/ walk_mmap(s, file, minus_one, page, behind) = Died(s)
      \/ /\ r[1] \in Nat
         /\ \/ walk_mmap(s, file, minus_one, page, behind) = GoTo(s, r[1], 0)
            \/ walk_mmap(s, file, minus_one, page, behind)
                 = GoTo(s, r[1], r[1])
  BY <1>1, <1>3, Zenon DEF walk_mmap
<1>5. Halted(s) \in Walks /\ Halted(s).printed = s.printed
  BY <1>2 DEF Halted, Walks
<1>6. Died(s) \in Walks /\ Died(s).printed = Append(s.printed, s.ptr)
  BY <1>2 DEF Died, Walks
<1>7. \A q \in Nat, next \in Nat :
        /\ GoTo(s, q, next) \in Walks
        /\ GoTo(s, q, next).printed = Append(s.printed, s.ptr)
  BY <1>2 DEF GoTo, Walks
<1>8. 0 \in Nat
  OBVIOUS
<1> QED
  BY <1>4, <1>5, <1>6, <1>7, <1>8, Zenon

LEMMA BeginsSelf ==
  ASSUME NEW s \in Seq(Nat)
  PROVE  Begins(s, s)
BY DEF Begins

LEMMA BeginsLonger ==
  ASSUME NEW s \in Seq(Nat), NEW t \in Seq(Nat), Begins(s, t), NEW x \in Nat
  PROVE  Begins(Append(s, x), t)
BY DEF Begins

LEMMA AppendLast ==
  ASSUME NEW s \in Seq(Nat), NEW x \in Nat
  PROVE  /\ Append(s, x) \in Seq(Nat) /\ Append(s, x) # <<>>
         /\ Append(s, x)[Len(Append(s, x))] = x
<1>1. /\ Append(s, x) \in Seq(Nat) /\ Append(s, x) # <<>>
      /\ Len(Append(s, x)) = Len(s) + 1 /\ Append(s, x)[Len(s) + 1] = x
  BY AppendProperties, Zenon
<1> QED
  BY <1>1, Zenon

(* One step of both, from the same state and after they have parted.       *)
LEMMA MmapSteps ==
  ASSUME NEW file \in Seq(Nat), NEW page, NEW behind, Mapped(behind),
         NEW minus_one \in Nat \ {0},
         \A k \in DOMAIN file : file[k] # minus_one, NEW s \in Walks
  PROVE  \/ walk_mmap(s, file, minus_one, page, behind) = walk_posix(s, file)
         \/ Parted(walk_mmap(s, file, minus_one, page, behind),
                   walk_posix(s, file), file, page)
<1>1. PICK p \in Nat : p = s.ptr
  BY DEF Walks
<1>2. s.printed \in Seq(Nat)
  BY DEF Walks
<1>3. CASE ~s.going \/ ~Inside(file, s.ptr)
  BY <1>3, Zenon DEF walk_mmap, walk_posix
<1>4. CASE /\ s.going /\ Inside(file, s.ptr)
           /\ p + 1 = Len(file) /\ Len(file) % page = 0
  <2>1. Pointer(file, s.ptr) = 0
    BY <1>1, <1>4 DEF Pointer, Inside
  <2>2. walk_posix(s, file) = GoTo(s, 0, 0)
    BY <1>4, <2>1, Zenon DEF walk_posix
  <2>3. PICK t : t = walk_posix(s, file)
    OBVIOUS
  <2>9. t.printed = Append(s.printed, p) /\ t.going = (0 # 0)
    BY <1>1, <2>2, <2>3 DEF GoTo
  <2>4. ~t.going /\ t.printed = Append(s.printed, p)
    BY <2>9, Zenon
  <2>5. t.printed \in Seq(Nat) /\ t.printed # <<>>
        /\ t.printed[Len(t.printed)] = p
    <3>1. PICK x \in Seq(Nat) : x = s.printed
      BY <1>2
    <3>2. /\ Append(x, p) \in Seq(Nat) /\ Append(x, p) # <<>>
          /\ Append(x, p)[Len(Append(x, p))] = p
      BY AppendLast, Zenon
    <3> QED
      BY <2>9, <3>1, <3>2, Zenon
  <2>6. walk_mmap(s, file, minus_one, page, behind).printed = t.printed
    <3>1. PICK r : r = Behind(file, s.ptr, page, behind)
      OBVIOUS
    <3>2. \/ walk_mmap(s, file, minus_one, page, behind) = Died(s)
          \/ walk_mmap(s, file, minus_one, page, behind) = GoTo(s, r[1], 0)
          \/ walk_mmap(s, file, minus_one, page, behind)
               = GoTo(s, r[1], r[1])
      BY <1>4, <3>1, Zenon DEF walk_mmap
    <3>3. /\ Died(s).printed = Append(s.printed, s.ptr)
          /\ \A q, next : GoTo(s, q, next).printed = Append(s.printed, s.ptr)
      BY DEF Died, GoTo
    <3> QED
      BY <1>1, <2>4, <3>2, <3>3, Zenon
  <2>7. Begins(t.printed, t.printed)
    BY <2>5, BeginsSelf, Zenon
  <2>8. p = Len(file) - 1
    BY <1>4
  <2> QED
    BY <1>4, <2>3, <2>4, <2>5, <2>6, <2>7, <2>8, Zenon DEF Parted
<1>5. CASE /\ s.going /\ Inside(file, s.ptr)
           /\ ~(p + 1 = Len(file) /\ Len(file) % page = 0)
  <2>1. Pointer(file, s.ptr) # minus_one
    <3>2. CASE p + 1 < Len(file)
      <4>1. (p + 1) + 1 \in DOMAIN file
        BY <3>2
      <4> QED
        BY <1>1, <3>2, <4>1 DEF Pointer, Inside, Word
    <3>3. CASE ~(p + 1 < Len(file))
      BY <1>1, <3>3 DEF Pointer, Inside
    <3> QED
      BY <3>2, <3>3
  <2>2. PICK next : next = Pointer(file, s.ptr)
    OBVIOUS
  <2>3. Behind(file, s.ptr, page, behind) = <<next>>
    BY <1>1, <1>5, <2>2, Zenon DEF Behind
  <2>4. <<next>> # <<>> /\ <<next>>[1] = next
    OBVIOUS
  <2>5. walk_mmap(s, file, minus_one, page, behind) = GoTo(s, next, next)
    BY <1>5, <2>1, <2>2, <2>3, <2>4, Zenon DEF walk_mmap
  <2>6. walk_posix(s, file) = GoTo(s, next, next)
    BY <1>5, <2>2, Zenon DEF walk_posix
  <2> QED
    BY <2>5, <2>6
<1> QED
  BY <1>3, <1>4, <1>5

LEMMA PartedStays ==
  ASSUME NEW file \in Seq(Nat), NEW page, NEW behind, Mapped(behind),
         NEW minus_one, NEW s \in Walks, NEW t \in Walks,
         Parted(s, t, file, page)
  PROVE  Parted(walk_mmap(s, file, minus_one, page, behind),
                walk_posix(t, file), file, page)
<1>1. walk_posix(t, file) = Halted(t)
  BY Zenon DEF walk_posix, Parted
<1>2. Halted(t).printed = t.printed /\ ~Halted(t).going
  BY DEF Halted
<1>3. s.printed \in Seq(Nat) /\ t.printed \in Seq(Nat) /\ s.ptr \in Nat
  BY DEF Walks
<1>4. /\ Begins(s.printed, t.printed)
      /\ Begins(Append(s.printed, s.ptr), t.printed)
  BY <1>3, BeginsLonger, Zenon DEF Parted
<1>5. Begins(walk_mmap(s, file, minus_one, page, behind).printed, t.printed)
  BY <1>4, MmapWalks, Zenon
<1> QED
  BY <1>1, <1>2, <1>5, Zenon DEF Parted

(* inf08-1: in a file without the pointer -1, which the program takes for  *)
(* its own mark of the beginning, it prints what the program with read     *)
(* does; only where half an item ends the file and a page does it print    *)
(* more, if anything.                                                      *)
THEOREM MmapAgrees ==
  ASSUME NEW file \in Seq(Nat), NEW steps \in Nat, NEW minus_one \in Nat \ {0},
         NEW page \in Nat \ {0}, NEW behind,
         behind = <<>> \/ \E word \in Nat : behind = <<word>>,
         \A k \in DOMAIN file : file[k] # minus_one
  PROVE  AgreesMapped(file, steps, minus_one, page, behind)
<1>1. Mapped(behind)
  BY Zenon DEF Mapped
<1> DEFINE F == [k \in 1 .. steps |-> [s \in Walks |->
                   walk_mmap(s, file, minus_one, page, behind)]]
<1>2. Closed(steps, Walks, F) /\ FirstItem \in Walks
  <2>1. \A s \in Walks :
          walk_mmap(s, file, minus_one, page, behind) \in Walks
    BY <1>1, MmapWalks, Zenon
  <2>2. Closed(steps, Walks, F)
    BY <2>1, Zenon DEF Closed
  <2>3. FirstItem \in Walks
    BY DEF FirstItem, Walks
  <2> QED
    BY <2>2, <2>3
<1>3. \A k \in 1 .. steps : \A s \in Walks :
        F[k][s] = walk_mmap(s, file, minus_one, page, behind)
  OBVIOUS
<1>4. print_list_mmap(file, steps, minus_one, page, behind)
        = After(steps, FirstItem, F)[steps].printed
  BY Zenon DEF print_list_mmap
<1> HIDE DEF F
<1>5. PICK f \in [0 .. steps -> Walks] :
        f = After(steps, FirstItem, F) /\ IsLoop(f, steps, FirstItem, F)
  BY <1>2, Loop, Zenon
<1>6. PICK g \in [0 .. steps -> Walks] :
        /\ g[0] = FirstItem
        /\ \A k \in 1 .. steps : g[k] = walk_posix(g[k - 1], file)
        /\ print_list_posix(file, steps) = g[steps].printed
  BY PosixLoop
<1> DEFINE Related(k) == f[k] = g[k] \/ Parted(f[k], g[k], file, page)
           H == {k \in 0 .. steps : Related(k)}
<1>7. 0 \in H
  BY <1>5, <1>6 DEF IsLoop
<1>8. ASSUME NEW k \in 0 .. steps - 1, k \in H PROVE k + 1 \in H
  <2>1. /\ k + 1 \in 1 .. steps /\ (k + 1) - 1 = k /\ k + 1 \in 0 .. steps
        /\ f[k] \in Walks /\ g[k] \in Walks
    OBVIOUS
  <2>2. f[k + 1] = walk_mmap(f[k], file, minus_one, page, behind)
    BY <1>3, <1>5, <2>1 DEF IsLoop
  <2>3. g[k + 1] = walk_posix(g[k], file)
    BY <1>6, <2>1
  <2>4. CASE f[k] = g[k]
    <3>1. \/ walk_mmap(f[k], file, minus_one, page, behind)
               = walk_posix(f[k], file)
          \/ Parted(walk_mmap(f[k], file, minus_one, page, behind),
                    walk_posix(f[k], file), file, page)
      BY <1>1, <2>1, MmapSteps, Zenon
    <3>2. Related(k + 1)
      BY <2>2, <2>3, <2>4, <3>1, Zenon
    <3> QED
      BY <2>1, <3>2, Zenon
  <2>5. CASE Parted(f[k], g[k], file, page)
    <3>1. Parted(walk_mmap(f[k], file, minus_one, page, behind),
                 walk_posix(g[k], file), file, page)
      BY <1>1, <2>1, <2>5, PartedStays, Zenon
    <3>2. Related(k + 1)
      BY <2>2, <2>3, <3>1, Zenon
    <3> QED
      BY <2>1, <3>2, Zenon
  <2> QED
    BY <1>8, <2>4, <2>5
<1>9. \A k \in 0 .. steps - 1 : k \in H => k + 1 \in H
  BY <1>8
<1>10. Related(steps)
  <2>1. steps \in 0 .. steps
    OBVIOUS
  <2>2. steps \in H
    <3> HIDE DEF H
    <3> QED
      BY <1>7, <1>9, <2>1, Induction, Zenon
  <2> QED
    BY <2>2
<1>11. PICK x, y : x = f[steps].printed /\ y = g[steps].printed
  OBVIOUS
<1>12. y \in Seq(Nat)
  <2>1. g[steps] \in Walks
    OBVIOUS
  <2> QED
    BY <1>11, <2>1 DEF Walks
<1>13. IF Len(file) % page = 0 /\ y[Len(y)] = Len(file) - 1
       THEN Begins(x, y) ELSE x = y
  <2>1. CASE f[steps] = g[steps]
    <3>1. x = y /\ Begins(y, y)
      BY <1>11, <1>12, <2>1, BeginsSelf, Zenon
    <3> QED
      BY <3>1, Zenon
  <2>2. CASE Parted(f[steps], g[steps], file, page)
    BY <1>11, <2>2, Zenon DEF Parted
  <2> QED
    BY <1>10, <2>1, <2>2, Zenon
<1> QED
  BY <1>4, <1>5, <1>6, <1>11, <1>13, Zenon DEF AgreesMapped

(* The programs are at the same place of their files.                      *)
Together(s, t) ==
  s.ptr = t.ptr /\ s.going = t.going /\ s.printed = t.printed

LEMMA ReadOnIs ==
  ASSUME NEW file \in Seq(Nat), NEW half \in Nat
  PROVE  /\ ReadOn(file, half) \in Seq(Nat)
         /\ Len(ReadOn(file, half)) = Len(file)
         /\ \A k \in 1 .. Len(file) :
              ReadOn(file, half)[k]
                = IF k % 2 = 0 /\ file[k] >= half THEN k ELSE file[k]
<1>1. PICK n \in Nat : n = Len(file) /\ DOMAIN file = 1 .. n
  OBVIOUS
<1> DEFINE r == [k \in 1 .. n |->
                   IF k % 2 = 0 /\ file[k] >= half THEN k ELSE file[k]]
<1>2. ReadOn(file, half) = r
  BY <1>1, Zenon DEF ReadOn
<1>3. \A k \in 1 .. n : r[k] \in Nat
  <2>1. \A k \in 1 .. n : file[k] \in Nat /\ k \in Nat
    BY <1>1
  <2> QED
    BY <2>1, Zenon
<1>4. r \in [1 .. n -> Nat]
  BY <1>3, Zenon
<1>5. r \in Seq(Nat) /\ Len(r) = n
  <2> HIDE DEF r
  <2> QED
    BY <1>4
<1> QED
  BY <1>1, <1>2, <1>5

LEMMA WinapiSteps ==
  ASSUME NEW file \in Seq(Nat), NEW half \in Nat \ {0}, WholeItems(file, half),
         NEW s \in Walks, s.ptr % 2 = 0, NEW t \in Walks, Together(s, t)
  PROVE  /\ walk_winapi(s, file, half) \in Walks
         /\ walk_winapi(s, file, half).ptr % 2 = 0
         /\ Together(walk_winapi(s, file, half),
                     walk_posix(t, ReadOn(file, half)))
<1>1. PICK p \in Nat, L \in Nat : p = s.ptr /\ p % 2 = 0 /\ L = Len(file)
  BY DEF Walks
<1>2. L % 2 = 0
  BY <1>1 DEF WholeItems
<1>3. PICK R : R = ReadOn(file, half)
  OBVIOUS
<1>4. Len(R) = L /\ \A k \in 1 .. L :
        R[k] = IF k % 2 = 0 /\ file[k] >= half THEN k ELSE file[k]
  BY <1>1, <1>3, ReadOnIs
<1>5. /\ s.ptr \in Nat /\ s.next \in Nat /\ s.printed \in Seq(Nat)
      /\ t.ptr = p /\ t.going = s.going /\ t.printed = s.printed
  BY <1>1 DEF Together, Walks
<1>6. CASE s.going /\ p < L
  <2>1. p + 1 < L /\ ((p + 1) + 1) % 2 = 0 /\ (p + 2) % 2 = 0
    BY <1>1, <1>2, <1>6
  <2>2. PICK k \in 1 .. L : k = (p + 1) + 1 /\ k = p + 2 /\ k % 2 = 0
    BY <2>1
  <2>3. PICK q \in Nat : q = file[k] /\ (q < half => q % 2 = 0)
    <3>1. k \in DOMAIN file /\ file[k] \in Nat
      BY <1>1, <2>2
    <3>2. file[k] < half => file[k] % 2 = 0
      BY <2>2, <3>1, Zenon DEF WholeItems
    <3> QED
      BY <3>1, <3>2, Zenon
  <2>4. walk_winapi(s, file, half) = GoTo(s, q, IF q >= half THEN k ELSE q)
    <3>1. Inside(file, s.ptr) /\ Inside(file, s.ptr + 1)
      BY <1>1, <1>6, <2>1 DEF Inside
    <3>2. Word(file, s.ptr + 1) = q /\ s.ptr + 2 = k
      BY <1>1, <2>2, <2>3 DEF Word
    <3> QED
      BY <1>6, <3>1, <3>2, Zenon DEF walk_winapi
  <2>5. PICK r \in Nat : /\ r = IF q >= half THEN k ELSE q
                         /\ r = R[k] /\ r % 2 = 0
                         /\ r # 0 <=> q # 0
    <3>1. R[k] = IF q >= half THEN k ELSE q
      BY <1>4, <2>2, <2>3
    <3> QED
      BY <2>2, <2>3, <3>1
  <2>6. walk_posix(t, R) = GoTo(t, r, r)
    <3>1. Inside(R, t.ptr) /\ Inside(R, t.ptr + 1)
      BY <1>4, <1>5, <1>6, <2>1 DEF Inside
    <3>2. Pointer(R, t.ptr) = r
      BY <1>5, <2>2, <2>5, <3>1 DEF Pointer, Word
    <3> QED
      BY <1>5, <1>6, <3>1, <3>2, Zenon DEF walk_posix
  <2>7. GoTo(s, q, r) \in Walks /\ GoTo(s, q, r).ptr = r
    BY <1>5 DEF GoTo, Walks
  <2>8. Together(GoTo(s, q, r), GoTo(t, r, r))
    BY <1>5, <2>5 DEF GoTo, Together
  <2> QED
    BY <1>3, <2>4, <2>5, <2>6, <2>7, <2>8
<1>7. CASE ~(s.going /\ p < L)
  <2>1. walk_winapi(s, file, half) = Halted(s)
    BY <1>1, <1>7 DEF walk_winapi, Inside
  <2>2. walk_posix(t, R) = Halted(t)
    BY <1>4, <1>5, <1>7 DEF walk_posix, Inside
  <2>3. Halted(s) \in Walks /\ Halted(s).ptr = p
    BY <1>1, <1>5 DEF Halted, Walks
  <2>4. Together(Halted(s), Halted(t))
    BY <1>1, <1>5 DEF Halted, Together
  <2> QED
    BY <1>1, <1>3, <2>1, <2>2, <2>3, <2>4
<1> QED
  BY <1>6, <1>7

(* inf07-1 with WINAPI: in a file of whole items it prints what the        *)
(* program with read does, if every pointer that is negative as an offset  *)
(* led to the next item instead.                                           *)
THEOREM WinapiAgrees ==
  ASSUME NEW file \in Seq(Nat), NEW steps \in Nat, NEW half \in Nat \ {0},
         WholeItems(file, half)
  PROVE  print_list_winapi(file, steps, half)
           = print_list_posix(ReadOn(file, half), steps)
<1> DEFINE T == {s \in Walks : s.ptr % 2 = 0}
           F == [k \in 1 .. steps |-> [s \in Walks |->
                   walk_winapi(s, file, half)]]
<1>1. PICK R \in Seq(Nat) : R = ReadOn(file, half)
  BY ReadOnIs
<1>2. ASSUME NEW s \in T, NEW t \in Walks, Together(s, t)
      PROVE  /\ walk_winapi(s, file, half) \in T
             /\ Together(walk_winapi(s, file, half), walk_posix(t, R))
  <2>1. s \in Walks /\ s.ptr % 2 = 0
    OBVIOUS
  <2>2. /\ walk_winapi(s, file, half) \in Walks
        /\ walk_winapi(s, file, half).ptr % 2 = 0
        /\ Together(walk_winapi(s, file, half),
                    walk_posix(t, ReadOn(file, half)))
    BY <1>2, <2>1, WinapiSteps, Zenon
  <2> QED
    BY <1>1, <2>2
<1>3. \A s : Together(s, s)
  BY DEF Together
<1>4. /\ \A k \in 1 .. steps : \A s \in T : F[k][s] = walk_winapi(s, file, half)
      /\ FirstItem \in T
  BY DEF FirstItem, Walks
<1>5. print_list_winapi(file, steps, half)
        = After(steps, FirstItem, F)[steps].printed
  BY Zenon DEF print_list_winapi
<1>6. T \subseteq Walks
  OBVIOUS
<1>7. Closed(steps, T, F)
  <2> HIDE DEF T, F
  <2> QED
    BY <1>2, <1>3, <1>4, <1>6 DEF Closed
<1> HIDE DEF F, T
<1>8. PICK f \in [0 .. steps -> T] :
        f = After(steps, FirstItem, F) /\ IsLoop(f, steps, FirstItem, F)
  BY <1>4, <1>7, Loop, Zenon
<1>9. PICK g \in [0 .. steps -> Walks] :
        /\ g[0] = FirstItem
        /\ \A k \in 1 .. steps : g[k] = walk_posix(g[k - 1], R)
        /\ print_list_posix(R, steps) = g[steps].printed
  BY PosixLoop
<1> DEFINE H == {k \in 0 .. steps : Together(f[k], g[k])}
<1>10. 0 \in H
  BY <1>3, <1>8, <1>9 DEF IsLoop
<1>11. ASSUME NEW k \in 0 .. steps - 1, k \in H PROVE k + 1 \in H
  <2>1. /\ k + 1 \in 1 .. steps /\ (k + 1) - 1 = k /\ f[k] \in T
        /\ g[k] \in Walks /\ Together(f[k], g[k]) /\ k + 1 \in 0 .. steps
    BY <1>11
  <2>2. f[k + 1] = walk_winapi(f[k], file, half)
    BY <1>4, <1>8, <2>1 DEF IsLoop
  <2>3. g[k + 1] = walk_posix(g[k], R)
    BY <1>9, <2>1
  <2>4. Together(f[k + 1], g[k + 1])
    BY <1>2, <2>1, <2>2, <2>3
  <2> QED
    BY <2>1, <2>4
<1>12. \A k \in 0 .. steps - 1 : k \in H => k + 1 \in H
  BY <1>11
<1>13. steps \in H
  <2> HIDE DEF H
  <2>1. \A k \in 0 .. steps : k \in H
    BY <1>10, <1>12, Induction, Zenon
  <2> QED
    BY <2>1
<1>14. f[steps].printed = g[steps].printed
  BY <1>13 DEF Together
<1> QED
  BY <1>1, <1>5, <1>8, <1>9, <1>14

-----------------------------------------------------------------------------
(***************************************************************************)
(* inf08-2. The number is divided until it is 0; and where the cells are.  *)
(***************************************************************************)
(* inf08-2: get_len is the number of decimal digits of any positive        *)
(* number.                                                                 *)
THEOREM LenCountsDigits ==
  ASSUME NEW num \in Nat, num > 0
  PROVE  /\ get_len(num) \in Nat \ {0}
         /\ Power(10, get_len(num) - 1) <= num
         /\ num < Power(10, get_len(num))
<1> DEFINE S == [ans : Nat, num : Nat]
           Step(s) == IF s.num = 0 THEN s
                      ELSE [ans |-> s.ans + 1, num |-> s.num \div 10]
           F == [k \in 1 .. num |-> [s \in S |-> Step(s)]]
           start == [ans |-> 0, num |-> num]
           Fits(m, a) ==
             IF m > 0 THEN m * Power(10, a) <= num /\ num < (m + 1) * Power(10, a)
             ELSE a > 0 /\ Power(10, a - 1) <= num /\ num < Power(10, a)
           T == {s \in S : Fits(s.num, s.ans)}
<1>1. get_len(num) = After(num, start, F)[num].ans
  BY Zenon DEF get_len
<1>2. ASSUME NEW m \in Nat, NEW a \in Nat, m > 0, Fits(m, a)
      PROVE  m \div 10 \in Nat /\ m \div 10 < m /\ Fits(m \div 10, a + 1)
  <2>1. PICK q \in Nat : q = m \div 10
    BY <1>2
  <2>2. PICK r \in 0 .. 9 : m = 10 * q + r
    BY <2>1
  <2>3. PICK p \in Nat : p = Power(10, a) /\ p > 0
    BY 10 \in Nat, 10 > 0, PowerPositive
  <2>4. PICK t \in Nat : t = Power(10, a + 1) /\ t = 10 * p
    BY <2>3, 10 \in Nat, PowerLaw
  <2>5. m * p <= num /\ num < (m + 1) * p
    BY <1>2, <2>3
  <2>6. q < m
    BY <1>2, <2>2
  <2>7. CASE q > 0
    <3>1. q * (10 * p) <= m * p
      <4>1. m * p = q * (10 * p) + r * p
        BY <2>2
      <4>2. r * p >= 0
        OBVIOUS
      <4> QED
        BY <4>1, <4>2
    <3>2. (m + 1) * p <= (q + 1) * (10 * p)
      <4>1. PICK d \in Nat : d = 9 - r
        OBVIOUS
      <4>2. (q + 1) * (10 * p) = (m + 1) * p + d * p
        BY <2>2, <4>1
      <4>3. d * p >= 0
        OBVIOUS
      <4> QED
        BY <4>2, <4>3
    <3>3. q * t <= num /\ num < (q + 1) * t
      BY <2>4, <2>5, <3>1, <3>2
    <3> QED
      BY <2>1, <2>4, <2>6, <2>7, <3>3
  <2>8. CASE q = 0
    <3>1. p <= m * p
      BY <1>2
    <3>2. (m + 1) * p <= 10 * p
      BY <2>2, <2>8
    <3>3. p <= num /\ num < t
      BY <2>4, <2>5, <3>1, <3>2
    <3>4. (a + 1) - 1 = a /\ a + 1 > 0
      OBVIOUS
    <3> QED
      BY <2>1, <2>3, <2>4, <2>6, <2>8, <3>3, <3>4
  <2> QED
    BY <2>7, <2>8
<1>3. start \in T
  <2>1. Power(10, 0) = 1
    BY 10 \in Nat, PowerLaw
  <2> QED
    BY <2>1
<1>4. \A k \in 1 .. num : \A s \in T : F[k][s] = Step(s)
  OBVIOUS
<1> HIDE DEF Fits
<1>5. ASSUME NEW s \in T
      PROVE  Step(s) \in T /\ (s.num > 0 => Step(s).num < s.num)
  <2>1. s.num \in Nat /\ s.ans \in Nat /\ Fits(s.num, s.ans)
    OBVIOUS
  <2>2. CASE s.num = 0
    BY <2>2
  <2>3. CASE s.num > 0
    <3>1. /\ s.num \div 10 \in Nat /\ s.num \div 10 < s.num
          /\ Fits(s.num \div 10, s.ans + 1)
      BY <1>2, <2>1, <2>3
    <3>2. Step(s) = [ans |-> s.ans + 1, num |-> s.num \div 10]
      BY <2>3
    <3> QED
      BY <2>1, <3>1, <3>2
  <2> QED
    BY <2>1, <2>2, <2>3
<1>6. Closed(num, T, F)
  <2> HIDE DEF T, F, Step
  <2> QED
    BY <1>4, <1>5 DEF Closed
<1>7. \A s \in T : s.num \in Nat /\ s.ans \in Nat /\ Fits(s.num, s.ans)
  OBVIOUS
<1>8. start.num = num
  OBVIOUS
<1> HIDE DEF T, F, Step, start
<1>9. PICK f \in [0 .. num -> T] :
        f = After(num, start, F) /\ IsLoop(f, num, start, F)
  BY <1>3, <1>6, Loop, Zenon
<1> DEFINE H == {k \in 0 .. num : f[k].num = 0 \/ f[k].num + k <= num}
<1>10. 0 \in H
  <2>1. f[0].num = num
    BY <1>8, <1>9 DEF IsLoop
  <2> QED
    BY <2>1
<1>11. ASSUME NEW k \in 0 .. num - 1, k \in H PROVE k + 1 \in H
  <2>1. k + 1 \in 1 .. num /\ (k + 1) - 1 = k /\ f[k] \in T /\ f[k + 1] \in T
    OBVIOUS
  <2>2. f[k + 1] = Step(f[k])
    BY <1>4, <1>9, <2>1 DEF IsLoop
  <2>3. CASE f[k].num = 0
    <3>1. f[k + 1] = f[k]
      BY <2>2, <2>3 DEF Step
    <3> QED
      BY <2>3, <3>1
  <2>4. CASE f[k].num # 0
    <3>1. PICK x \in Nat, y \in Nat : x = f[k].num /\ y = f[k + 1].num
      BY <1>7, <2>1
    <3>2. x > 0 /\ x + k <= num
      BY <1>11, <2>4, <3>1
    <3>3. y < x
      BY <1>5, <2>1, <2>2, <3>1, <3>2
    <3>4. y + (k + 1) <= num
      BY <3>2, <3>3
    <3> QED
      BY <2>1, <3>1, <3>4
  <2> QED
    BY <2>3, <2>4
<1>12. \A k \in 0 .. num - 1 : k \in H => k + 1 \in H
  BY <1>11
<1>13. f[num].num = 0 \/ f[num].num + num <= num
  <2> HIDE DEF H
  <2>1. \A k \in 0 .. num : k \in H
    BY <1>10, <1>12, Induction, Zenon
  <2> QED
    BY <2>1 DEF H
<1>14. PICK x \in Nat, a \in Nat :
         x = f[num].num /\ a = f[num].ans /\ Fits(x, a)
  BY <1>7
<1>15. x = 0
  BY <1>13, <1>14
<1> QED
  BY <1>1, <1>9, <1>14, <1>15 DEF Fits

(* A number in a system of two places.                                     *)
LEMMA TwoPlaces ==
  ASSUME NEW M \in Nat, NEW i \in Int, NEW j \in Int,
         NEW r \in Nat, r < M, NEW q \in Nat, q < M, M * i + r = M * j + q
  PROVE  i = j /\ r = q
<1>1. (M * i + r) \div M = i /\ (M * i + r) % M = r
  BY DivMod
<1>2. (M * j + q) \div M = j /\ (M * j + q) % M = q
  BY DivMod
<1> QED
  BY <1>1, <1>2

(* inf08-2: the cells and the ends of lines fill the file without a gap or *)
(* an overlap, for any size and any width of a cell.                       *)
THEOREM CellsArePlaced ==
  ASSUME NEW N \in Nat, NEW W \in Nat \ {0}
  PROVE  FillsFile(N, W)
<1>1. PICK R \in Nat : R = N * W
  OBVIOUS
<1>2. PICK M \in Nat : M = R + 1
  OBVIOUS
<1> DEFINE square == (0 .. N - 1) \X (0 .. N - 1)
           Cell(c) == cell_begin(c[1], c[2], N, W)
                        .. cell_begin(c[1], c[2], N, W) + W - 1
           ends == {cell_begin(i, N, N, W) : i \in 0 .. N - 1}
(* A place in a cell is its line, its column and what is before it there.  *)
<1>3. ASSUME NEW i \in 0 .. N - 1, NEW j \in 0 .. N - 1, NEW q \in 0 .. W - 1
      PROVE  W * j + q \in 0 .. R - 1
  <2>1. W * j <= W * (N - 1)
    OBVIOUS
  <2>2. W * (N - 1) = R - W
    BY <1>1
  <2>3. W * j >= 0 /\ W * j \in Int
    OBVIOUS
  <2> QED
    BY <2>1, <2>2, <2>3
<1>4. \A i, j \in Nat : cell_begin(i, j, N, W) = M * i + W * j
  BY <1>1, <1>2 DEF cell_begin
<1>5. ASSUME NEW c \in square, NEW x \in Cell(c)
      PROVE  \E i \in 0 .. N - 1, j \in 0 .. N - 1, q \in 0 .. W - 1 :
               c = <<i, j>> /\ x = M * i + (W * j + q)
  <2>1. PICK i \in 0 .. N - 1, j \in 0 .. N - 1 : c = <<i, j>>
    OBVIOUS
  <2>2. PICK b \in Int : b = M * i + W * j
    OBVIOUS
  <2>3. x \in b .. b + W - 1
    BY <1>4, <2>1, <2>2
  <2>4. PICK q \in 0 .. W - 1 : q = x - b
    BY <2>3
  <2>5. x = M * i + (W * j + q)
    BY <2>2, <2>3, <2>4
  <2> QED
    BY <2>1, <2>5
<1>6. ASSUME NEW i \in 0 .. N - 1, NEW j \in 0 .. N - 1, NEW q \in 0 .. W - 1
      PROVE  M * i + (W * j + q) \in Cell(<<i, j>>)
  <2>1. PICK b \in Int : b = M * i + W * j
    OBVIOUS
  <2>2. b + q \in b .. b + W - 1
    OBVIOUS
  <2>3. M * i + (W * j + q) = b + q
    BY <2>1
  <2>4. cell_begin(i, j, N, W) = b
    BY <1>4, <2>1
  <2> QED
    BY <2>2, <2>3, <2>4
<1>7. PICK L \in Nat : L = file_length(N, W) /\ L = M * N
  <2>1. N * N * W + N = (N * W + 1) * N
    OBVIOUS
  <2> QED
    BY <1>1, <1>2, <2>1 DEF file_length
<1>8. \A i \in 0 .. N - 1 : cell_begin(i, N, N, W) = M * i + R
  BY <1>1, <1>4
<1> HIDE DEF Cell
<1>9. ASSUME NEW c \in square, NEW x \in Cell(c)
      PROVE  x \in (0 .. L - 1) \ ends
  <2>1. PICK i \in 0 .. N - 1, j \in 0 .. N - 1, q \in 0 .. W - 1 :
          c = <<i, j>> /\ x = M * i + (W * j + q)
    BY <1>5
  <2>2. PICK r \in 0 .. R - 1 : r = W * j + q
    BY <1>3
  <2>3. x \in 0 .. L - 1
    <3>1. M * i <= M * (N - 1) /\ M * i >= 0
      OBVIOUS
    <3>2. M * (N - 1) = L - M
      BY <1>7
    <3> QED
      BY <1>2, <2>1, <2>2, <3>1, <3>2
  <2>4. ASSUME NEW e \in 0 .. N - 1, x = M * e + R PROVE FALSE
    <3>1. r \in Nat /\ r < M /\ R < M /\ M * i + r = M * e + R /\ r # R
      BY <1>2, <2>1, <2>2, <2>4
    <3> QED
      BY <3>1, TwoPlaces
  <2> QED
    BY <1>8, <2>3, <2>4
<1>10. ASSUME NEW x \in (0 .. L - 1) \ ends
       PROVE  \E c \in square : x \in Cell(c)
  <2>1. PICK i \in Nat, r \in Nat : x = M * i + r /\ r < M
    <3>1. x \in Nat /\ M > 0
      BY <1>2
    <3> QED
      BY <3>1, Divided
  <2>2. i \in 0 .. N - 1
    <3>1. CASE i >= N
      <4>1. M * i >= M * N
        BY <3>1
      <4> QED
        BY <1>7, <2>1, <4>1
    <3> QED
      BY <3>1
  <2>3. r # R
    BY <1>8, <2>1, <2>2
  <2>4. PICK j \in Nat, q \in Nat : r = W * j + q /\ q < W
    <3>1. W \in Nat /\ W > 0
      OBVIOUS
    <3> QED
      BY <3>1, Divided
  <2>5. j \in 0 .. N - 1
    <3>1. CASE j >= N
      <4>1. W * j >= W * N
        BY <3>1
      <4>2. W * N = R
        BY <1>1
      <4> QED
        BY <1>2, <2>1, <2>3, <2>4, <4>1, <4>2
    <3> QED
      BY <3>1
  <2>6. q \in 0 .. W - 1
    BY <2>4
  <2>7. M * i + (W * j + q) \in Cell(<<i, j>>)
    BY <1>6, <2>2, <2>5, <2>6
  <2> QED
    BY <2>1, <2>2, <2>4, <2>5, <2>7
<1>11. ASSUME NEW c \in square, NEW d \in square,
              NEW x \in Cell(c), x \in Cell(d)
       PROVE  c = d
  <2>1. PICK i \in 0 .. N - 1, j \in 0 .. N - 1, q \in 0 .. W - 1 :
          c = <<i, j>> /\ x = M * i + (W * j + q)
    BY <1>5
  <2>2. PICK k \in 0 .. N - 1, l \in 0 .. N - 1, p \in 0 .. W - 1 :
          d = <<k, l>> /\ x = M * k + (W * l + p)
    BY <1>5, <1>11
  <2>3. PICK r \in 0 .. R - 1 : r = W * j + q
    BY <1>3
  <2>4. PICK t \in 0 .. R - 1 : t = W * l + p
    BY <1>3
  <2>5. i = k /\ r = t
    <3>1. r < M /\ t < M /\ r \in Nat /\ t \in Nat /\ M * i + r = M * k + t
      BY <1>2, <2>1, <2>2, <2>3, <2>4
    <3> QED
      BY <3>1, TwoPlaces
  <2>6. j = l
    <3>1. q \in Nat /\ p \in Nat /\ q < W /\ p < W /\ W * j + q = W * l + p
      BY <2>3, <2>4, <2>5
    <3> QED
      BY <3>1, TwoPlaces
  <2> QED
    BY <2>1, <2>2, <2>5, <2>6
<1> HIDE DEF square, ends
<1>12. UNION {Cell(c) : c \in square} = (0 .. L - 1) \ ends
  BY <1>9, <1>10
<1>13. \A c, d \in square : c # d => Cell(c) \cap Cell(d) = {}
  BY <1>11
<1> QED
  BY <1>7, <1>12, <1>13, Zenon DEF FillsFile, square, ends, Cell

-----------------------------------------------------------------------------
(***************************************************************************)
(* inf08-2. A number's cell is found ring by ring: on the ring from x to t *)
(* = N - 1 - x there are the numbers from FirstOnRing(x, t) on, first to   *)
(* the right and down, then to the left and up, and the next ring goes on  *)
(* beside its last one.                                                    *)
(***************************************************************************)
(* The first number on the ring that begins at place x of the diagonal and *)
(* ends at place t.                                                        *)
FirstOnRing(x, t) == 1 + 4 * x * (t + 1)
OnRing(i, j, x, t, N) ==
  /\ x \in Nat /\ t \in Nat /\ x + t = N - 1 /\ x <= t
  /\ i \in x .. t /\ j \in x .. t
  /\ i = x \/ j = x \/ i = t \/ j = t
InSquare(i, j, N) == i \in 0 .. N - 1 /\ j \in 0 .. N - 1

(* The number there, as offset on the ring. *)
RingValue(i, j, x, t) ==
  IF i <= j THEN FirstOnRing(x, t) + (i - x) + (j - x)
  ELSE FirstOnRing(x, t) + 4 * (t - x) - (i - x) - (j - x)

LEMMA RingNumber ==
  ASSUME NEW N \in Nat, NEW x, NEW t, NEW i, NEW j, OnRing(i, j, x, t, N)
  PROVE  get_number(i, j, N) = RingValue(i, j, x, t)
<1>1. /\ x \in Nat /\ t \in Nat /\ x + t = N - 1 /\ x <= t
      /\ i \in x .. t /\ j \in x .. t
  BY DEF OnRing
<1>2. Min({i, j, N - 1 - i, N - 1 - j}) = x
  <2> DEFINE S == {i, j, N - 1 - i, N - 1 - j}
  <2>1. x \in S /\ S \in SUBSET Int /\ \A y \in S : x <= y
    BY <1>1 DEF OnRing
  <2> HIDE DEF S
  <2>2. Min(S) = x
    BY <2>1, MinIs
  <2> QED
    BY <2>2 DEF S
<1>3. N - x = t + 1 /\ N - x - 1 = t
  BY <1>1
<1>4. PICK b \in Int : b = 4 * x * (t + 1)
  BY <1>1
<1>5. 4 * (x + 1) * t = b + 4 * (t - x)
  BY <1>1, <1>4
<1>6. FirstOnRing(x, t) = 1 + b
  BY <1>4 DEF FirstOnRing
<1>7. CASE i <= j
  <2>1. get_number(i, j, N) = 1 + 4 * x * (N - x) + (i - x) + (j - x)
    BY <1>2, <1>7 DEF get_number
  <2> QED
    BY <1>1, <1>3, <1>4, <1>6, <1>7, <2>1 DEF RingValue
<1>8. CASE ~(i <= j)
  <2>1. get_number(i, j, N)
          = 4 * (x + 1) * (N - x - 1) - (i - x) - (j - 1 - x)
    BY <1>2, <1>8 DEF get_number
  <2>2. get_number(i, j, N) = 4 * (x + 1) * t - (i - x) - (j - 1 - x)
    BY <1>3, <2>1
  <2>3. get_number(i, j, N) = b + 4 * (t - x) - (i - x) - (j - 1 - x)
    BY <1>1, <1>5, <2>2
  <2> QED
    BY <1>1, <1>6, <1>8, <2>3 DEF RingValue
<1> QED
  BY <1>1, <1>7, <1>8

LEMMA RingOf ==
  ASSUME NEW N \in Nat, NEW i \in 0 .. N - 1, NEW j \in 0 .. N - 1
  PROVE  \E x, t : OnRing(i, j, x, t, N)
<1> DEFINE Fits(x, t) == /\ x + t = N - 1 /\ x <= t /\ x <= i /\ i <= t
                         /\ x <= j /\ j <= t
                         /\ (i = x \/ j = x \/ i = t \/ j = t)
<1>1. \E x, t \in Nat : Fits(x, t)
  <2>1. \/ Fits(i, N - 1 - i) \/ Fits(j, N - 1 - j)
        \/ Fits(N - 1 - i, i) \/ Fits(N - 1 - j, j)
    OBVIOUS
  <2>2. i \in Nat /\ j \in Nat /\ N - 1 - i \in Nat /\ N - 1 - j \in Nat
    OBVIOUS
  <2> HIDE DEF Fits
  <2> QED
    BY <2>1, <2>2, Zenon
<1>2. PICK x \in Nat, t \in Nat : Fits(x, t)
  BY <1>1
<1>3. OnRing(i, j, x, t, N)
  BY <1>2 DEF OnRing
<1> QED
  BY <1>3

LEMMA NextRing ==
  ASSUME NEW x \in Nat, NEW t \in Nat
  PROVE  /\ FirstOnRing(x, t) \in Nat \ {0}
         /\ FirstOnRing(x + 1, t - 1) = FirstOnRing(x, t) + 4 * (t - x)
         /\ FirstOnRing(x - 1, t + 1) = FirstOnRing(x, t) - 4 * (t - x + 2)
<1>1. x * (t + 1) \in Nat
  OBVIOUS
<1> QED
  BY <1>1 DEF FirstOnRing

LEMMA RingsInside ==
  ASSUME NEW x \in Nat, NEW t \in Nat
  PROVE  (x + t + 1) * (x + t + 1)
           = FirstOnRing(x, t) + (t - x + 1) * (t - x + 1) - 1
BY DEF FirstOnRing

(* From a cell of number n on: the next one is at k1, l1 and the one after *)
(* it is straight on, at k2, l2, if that is free, else at k3, l3.          *)
GoesOn(n, k1, l1, k2, l2, k3, l3, N) ==
  /\ InSquare(k1, l1, N) /\ get_number(k1, l1, N) = n + 1
  /\ n + 1 < N * N =>
       IF InSquare(k2, l2, N) /\ get_number(k2, l2, N) > n + 1
       THEN get_number(k2, l2, N) = n + 2
       ELSE InSquare(k3, l3, N) /\ get_number(k3, l3, N) = n + 2

(* From each cell but the last one, the next number is beside it, and the  *)
(* one after it straight on, or to the right.                              *)
LEMMA SpiralStep ==
  ASSUME NEW N \in Nat, NEW i \in 0 .. N - 1, NEW j \in 0 .. N - 1,
         NEW n, n = get_number(i, j, N), n < N * N
  PROVE  \E d \in Int, e \in Int :
           /\ i = 0 /\ j = 0 => d = 0 /\ e = 1
           /\ GoesOn(n, i + d, j + e, i + d + d, j + e + e,
                     i + d + e, j + e - d, N)
<1> DEFINE G(k, l) == get_number(k, l, N)
           In(k, l) == InSquare(k, l, N)
           Goes(k1, l1, k2, l2, k3, l3) ==
             GoesOn(n, k1, l1, k2, l2, k3, l3, N)
<1>1. PICK x \in Nat, t \in Nat :
        x + t = N - 1 /\ x <= t /\ OnRing(i, j, x, t, N)
  <2>1. PICK x, t : OnRing(i, j, x, t, N)
    BY RingOf
  <2> QED
    BY <2>1 DEF OnRing
<1>2. i \in x .. t /\ j \in x .. t /\ (i = x \/ j = x \/ i = t \/ j = t)
  BY <1>1 DEF OnRing
<1>3. PICK b \in Nat \ {0} : b = FirstOnRing(x, t)
  BY NextRing
<1>4. ASSUME NEW k \in x .. t, NEW l \in x .. t, k = x \/ l = x \/ k = t \/ l = t
      PROVE  /\ k <= l => G(k, l) = b + (k - x) + (l - x)
             /\ k > l => G(k, l) = b + 4 * (t - x) - (k - x) - (l - x)
  <2>1. OnRing(k, l, x, t, N)
    BY <1>1, <1>4 DEF OnRing
  <2>2. G(k, l) = RingValue(k, l, x, t)
    BY <2>1, RingNumber
  <2> QED
    BY <1>3, <2>2 DEF RingValue
(* Inside the ring.                                                        *)
<1>5. ASSUME x + 1 <= t - 1
      PROVE  /\ G(x + 1, x + 1) = b + 4 * (t - x)
             /\ x + 2 <= t - 1 => G(x + 1, x + 2) = b + 4 * (t - x) + 1
  <2>1. PICK y \in Nat, s \in Nat : y = x + 1 /\ s = t - 1
    BY <1>5
  <2>2. y + s = N - 1 /\ y <= s
    BY <1>1, <1>5, <2>1
  <2>3. PICK c \in Nat : c = FirstOnRing(y, s) /\ c = b + 4 * (t - x)
    <3>1. FirstOnRing(x + 1, t - 1) = b + 4 * (t - x)
      BY <1>3, NextRing
    <3>2. b + 4 * (t - x) \in Nat
      BY <1>1
    <3> QED
      BY <2>1, <3>1, <3>2
  <2>4. OnRing(y, y, y, s, N) /\ (y + 1 <= s => OnRing(y, y + 1, y, s, N))
    BY <2>2 DEF OnRing
  <2>6. G(y, y) = RingValue(y, y, y, s)
    BY <2>4, RingNumber
  <2>7. y + 1 <= s => G(y, y + 1) = RingValue(y, y + 1, y, s)
    BY <2>4, RingNumber
  <2>8. RingValue(y, y, y, s) = c /\ RingValue(y, y + 1, y, s) = c + 1
    BY <2>3 DEF RingValue
  <2> HIDE DEF G
  <2>9. x + 2 = y + 1 /\ x + 1 = y
    BY <2>1
  <2> QED
    BY <2>1, <2>3, <2>6, <2>7, <2>8, <2>9
(* Outside.                                                                *)
<1>6. ASSUME NEW k \in x - 1 .. t + 1, NEW l \in x - 1 .. t + 1, x > 0,
             k = x - 1 \/ l = x - 1 \/ k = t + 1 \/ l = t + 1
      PROVE  G(k, l) \in Int /\ G(k, l) < b
  <2>1. PICK y \in Nat, s \in Nat : y = x - 1 /\ s = t + 1
    BY <1>6
  <2>2. y + s = N - 1 /\ y <= s
    BY <1>1, <1>6, <2>1
  <2>3. PICK c \in Nat : c = FirstOnRing(y, s) /\ c = b - 4 * (t - x + 2)
    <3>1. FirstOnRing(x - 1, t + 1) = b - 4 * (t - x + 2)
      BY <1>3, NextRing
    <3>2. FirstOnRing(y, s) \in Nat
      BY NextRing
    <3> QED
      BY <2>1, <3>1, <3>2
  <2>4. OnRing(k, l, y, s, N)
    BY <1>6, <2>1, <2>2 DEF OnRing
  <2>5. G(k, l) = RingValue(k, l, y, s)
    BY <2>4, RingNumber
  <2>6. PICK g \in Int : g = IF k <= l THEN c + (k - y) + (l - y)
                             ELSE c + 4 * (s - y) - (k - y) - (l - y)
    <3>1. PICK u \in Int, v \in Int :
            /\ u = c + (k - y) + (l - y)
            /\ v = c + 4 * (s - y) - (k - y) - (l - y)
      OBVIOUS
    <3>2. PICK g \in Int : g = IF k <= l THEN u ELSE v
      OBVIOUS
    <3> QED
      BY <3>1, <3>2
  <2>7. g < b
    BY <1>1, <1>6, <2>1, <2>3, <2>6
  <2>8. g = RingValue(k, l, y, s)
    BY <2>3, <2>6 DEF RingValue
  <2> QED
    BY <2>5, <2>7, <2>8
<1>7. N * N = b + (t - x + 1) * (t - x + 1) - 1
  BY <1>1, <1>3, N = x + t + 1, RingsInside
<1>8. n = G(i, j) /\ n + 1 \in Int /\ n \in Int
  BY <1>2, <1>4
<1>9. x < t
  <2>1. CASE x = t
    <3>1. G(x, x) = b + (x - x) + (x - x)
      BY <1>4, <2>1
    <3>2. N * N = b
      BY <1>7, <2>1
    <3> QED
      BY <1>2, <1>8, <2>1, <3>1, <3>2
  <2> QED
    BY <1>1, <2>1
<1>10. (t = x + 1 => N * N = b + 3) /\ (t = x + 2 => N * N = b + 8)
  <2>1. ASSUME t = x + 1 PROVE (t - x + 1) * (t - x + 1) = 4
    BY <2>1
  <2>2. ASSUME t = x + 2 PROVE (t - x + 1) * (t - x + 1) = 9
    BY <2>2
  <2> QED
    BY <1>7, <2>1, <2>2
<1>11. \A k, l \in Int : In(k, l)
         <=> 0 <= k /\ k <= x + t /\ 0 <= l /\ l <= x + t
  BY <1>1 DEF InSquare
<1>straight.
      ASSUME NEW k1, NEW l1, NEW k2, NEW l2, NEW k3, NEW l3,
             In(k1, l1), G(k1, l1) = n + 1,
             n + 1 < N * N => In(k2, l2) /\ G(k2, l2) = n + 2
      PROVE  Goes(k1, l1, k2, l2, k3, l3)
  <2>1. n + 2 > n + 1
    BY <1>8
  <2> QED
    BY <1>straight, <2>1 DEF GoesOn
<1>right.
      ASSUME NEW k1, NEW l1, NEW k2, NEW l2, NEW k3, NEW l3,
             In(k1, l1), G(k1, l1) = n + 1,
             n + 1 < N * N =>
               /\ In(k2, l2) => G(k2, l2) \in Int /\ G(k2, l2) < n + 1
               /\ In(k3, l3) /\ G(k3, l3) = n + 2
      PROVE  Goes(k1, l1, k2, l2, k3, l3)
  <2>1. In(k2, l2) /\ n + 1 < N * N => ~(G(k2, l2) > n + 1)
    BY <1>8, <1>right
  <2> QED
    BY <1>right, <2>1, Zenon DEF GoesOn
<1> HIDE DEF G, In, Goes
<1>12. CASE i = x /\ j < t
  <2>1. Goes(x, j + 1, x, j + 2, x + 1, j + 1)
    <3>1. n = b + (j - x) /\ G(x, j + 1) = n + 1 /\ In(x, j + 1)
      <4>1. G(x, j) = b + (j - x) /\ G(x, j + 1) = b + (j + 1 - x)
        BY <1>2, <1>4, <1>12
      <4> QED
        BY <1>2, <1>8, <1>11, <1>12, <4>1
    <3>2. CASE j + 1 < t
      <4>1. G(x, j + 2) = n + 2 /\ In(x, j + 2)
        BY <1>2, <1>4, <1>11, <3>1, <3>2
      <4> QED
        BY <3>1, <4>1, <1>straight
    <3>3. CASE j + 1 = t
      <4>1. G(x + 1, j + 1) = n + 2 /\ In(x + 1, j + 1)
        BY <1>2, <1>4, <1>9, <1>11, <3>1, <3>3
      <4>2. In(x, j + 2) => G(x, j + 2) \in Int /\ G(x, j + 2) < n + 1
        BY <1>2, <1>6, <1>9, <1>11, <3>1, <3>3
      <4> QED
        BY <3>1, <4>1, <4>2, <1>right
    <3> QED
      BY <1>2, <1>12, <3>2, <3>3
  <2>2. /\ i + 0 = x /\ i + 0 + 0 = x /\ i + 0 + 1 = x + 1
        /\ j + 1 + 1 = j + 2 /\ j + 1 - 0 = j + 1
    BY <1>2, <1>12
  <2> QED
    BY <2>1, <2>2, 0 \in Int, 1 \in Int, Zenon DEF Goes
<1>13. CASE j = t /\ i < t
  <2>1. Goes(i + 1, t, i + 2, t, i + 1, t - 1)
    <3>1. n = b + (i - x) + (t - x) /\ G(i + 1, t) = n + 1 /\ In(i + 1, t)
      <4>1. G(i, t) = b + (i - x) + (t - x)
        BY <1>2, <1>4, <1>13
      <4>2. G(i + 1, t) = b + (i + 1 - x) + (t - x)
        BY <1>2, <1>4, <1>13
      <4> QED
        BY <1>2, <1>8, <1>11, <1>13, <4>1, <4>2
    <3>2. CASE i + 1 < t
      <4>1. G(i + 2, t) = n + 2 /\ In(i + 2, t)
        BY <1>2, <1>4, <1>11, <3>1, <3>2
      <4> QED
        BY <3>1, <4>1, <1>straight
    <3>3. CASE i + 1 = t
      <4>1. G(i + 1, t - 1) = n + 2 /\ In(i + 1, t - 1)
        BY <1>2, <1>4, <1>9, <1>11, <3>1, <3>3
      <4>2. In(i + 2, t) => G(i + 2, t) \in Int /\ G(i + 2, t) < n + 1
        BY <1>2, <1>6, <1>9, <1>11, <3>1, <3>3
      <4> QED
        BY <3>1, <4>1, <4>2, <1>right
    <3> QED
      BY <1>2, <1>13, <3>2, <3>3
  <2>2. /\ j + 0 = t /\ j + 0 + 0 = t /\ i + 1 + 1 = i + 2
        /\ i + 1 + 0 = i + 1 /\ j + 0 - 1 = t - 1 /\ j # 0
    BY <1>2, <1>9, <1>13
  <2> QED
    BY <2>1, <2>2, 0 \in Int, 1 \in Int, Zenon DEF Goes
<1>14. CASE i = t /\ j > x
  <2>1. Goes(t, j - 1, t, j - 2, t - 1, j - 1)
    <3>1. /\ n = b + 3 * (t - x) - (j - x)
          /\ G(t, j - 1) = n + 1 /\ In(t, j - 1)
      <4>1. G(t, j) = b + 4 * (t - x) - (t - x) - (j - x)
        BY <1>2, <1>4, <1>14
      <4>2. G(t, j - 1) = b + 4 * (t - x) - (t - x) - (j - 1 - x)
        BY <1>2, <1>4, <1>14
      <4> QED
        BY <1>2, <1>8, <1>11, <1>14, <4>1, <4>2
    <3>2. CASE j - 1 > x
      <4>1. G(t, j - 2) = n + 2 /\ In(t, j - 2)
        BY <1>2, <1>4, <1>11, <3>1, <3>2
      <4> QED
        BY <3>1, <4>1, <1>straight
    <3>3. CASE j - 1 = x
      <4>1. n + 1 < N * N => G(t - 1, j - 1) = n + 2 /\ In(t - 1, j - 1)
        <5>1. CASE t = x + 1
          BY <1>10, <3>1, <3>3, <5>1
        <5>2. CASE t # x + 1
          BY <1>2, <1>4, <1>9, <1>11, <3>1, <3>3, <5>2
        <5> QED
          BY <5>1, <5>2
      <4>2. In(t, j - 2) => G(t, j - 2) \in Int /\ G(t, j - 2) < n + 1
        BY <1>2, <1>6, <1>9, <1>11, <3>1, <3>3
      <4> QED
        BY <3>1, <4>1, <4>2, <1>right
    <3> QED
      BY <1>2, <1>14, <3>2, <3>3
  <2>2. /\ i + 0 = t /\ i + 0 + 0 = t /\ j + -1 = j - 1 /\ j + -1 + -1 = j - 2
        /\ i + 0 + -1 = t - 1 /\ j + -1 - 0 = j - 1 /\ j # 0
    BY <1>2, <1>14
  <2> QED
    BY <2>1, <2>2, 0 \in Int, -1 \in Int, Zenon DEF Goes
<1>15. CASE j = x /\ i > x + 1
  <2>1. Goes(i - 1, x, i - 2, x, i - 1, x + 1)
    <3>1. /\ n = b + 4 * (t - x) - (i - x)
          /\ G(i - 1, x) = n + 1 /\ In(i - 1, x)
      <4>1. G(i, x) = b + 4 * (t - x) - (i - x) - (x - x)
        BY <1>2, <1>4, <1>15
      <4>2. G(i - 1, x) = b + 4 * (t - x) - (i - 1 - x) - (x - x)
        BY <1>2, <1>4, <1>15
      <4> QED
        BY <1>2, <1>8, <1>11, <1>15, <4>1, <4>2
    <3>2. CASE i - 1 > x + 1
      <4>1. G(i - 2, x) = n + 2 /\ In(i - 2, x)
        BY <1>2, <1>4, <1>11, <3>1, <3>2
      <4> QED
        BY <3>1, <4>1, <1>straight
    <3>3. CASE i - 1 = x + 1
      <4>1. G(i - 1, x + 1) = n + 2 /\ In(i - 1, x + 1)
        BY <1>2, <1>5, <1>11, <3>1, <3>3
      <4>2. G(i - 2, x) \in Int /\ G(i - 2, x) < n + 1
        <5>1. G(x, x) = b + (x - x) + (x - x)
          BY <1>4, <1>9
        <5> QED
          BY <1>2, <1>9, <3>1, <3>3, <5>1
      <4> QED
        BY <3>1, <4>1, <4>2, <1>right
    <3> QED
      BY <1>2, <1>15, <3>2, <3>3
  <2>2. /\ i + -1 = i - 1 /\ i + -1 + -1 = i - 2 /\ j + 0 = x /\ j + 0 + 0 = x
        /\ i + -1 + 0 = i - 1 /\ j + 0 - -1 = x + 1 /\ i # 0
    BY <1>2, <1>15
  <2> QED
    BY <2>1, <2>2, 0 \in Int, -1 \in Int, Zenon DEF Goes
<1>16. CASE j = x /\ i = x + 1
  <2>1. n = b + 4 * (t - x) - 1
    <3>1. G(i, x) = b + 4 * (t - x) - (i - x) - (x - x)
      BY <1>2, <1>4, <1>16
    <3> QED
      BY <1>2, <1>8, <1>16, <3>1
  <2>2. t > x + 1
    BY <1>9, <1>10, <2>1
  <2>3. Goes(i, x + 1, i, x + 2, i + 1, x + 1)
    <3>1. G(i, x + 1) = n + 1 /\ In(i, x + 1)
      BY <1>2, <1>5, <1>11, <1>16, <2>1, <2>2
    <3>2. n + 1 < N * N => G(i, x + 2) = n + 2 /\ In(i, x + 2)
      <4>1. CASE t = x + 2
        BY <1>10, <2>1, <4>1
      <4>2. CASE t # x + 2
        BY <1>2, <1>5, <1>11, <1>16, <2>1, <2>2, <4>2
      <4> QED
        BY <4>1, <4>2
    <3> QED
      BY <3>1, <3>2, <1>straight
  <2>4. /\ i + 0 = i /\ i + 0 + 0 = i /\ i + 0 + 1 = i + 1
        /\ j + 1 = x + 1 /\ j + 1 + 1 = x + 2 /\ j + 1 - 0 = x + 1
    BY <1>2, <1>16
  <2> QED
    BY <2>3, <2>4, 0 \in Int, 1 \in Int, Zenon DEF Goes
<1>17. \/ i = x /\ j < t
       \/ j = t /\ i < t
       \/ i = t /\ j > x
       \/ j = x /\ i > x + 1
       \/ j = x /\ i = x + 1
  BY <1>2, <1>9
<1> QED
  BY <1>12, <1>13, <1>14, <1>15, <1>16, <1>17

LEMMA SpiralRange ==
  ASSUME NEW N \in Nat, NEW i \in 0 .. N - 1, NEW j \in 0 .. N - 1
  PROVE  get_number(i, j, N) \in 1 .. N * N
<1>1. PICK x \in Nat, t \in Nat :
        x + t = N - 1 /\ x <= t /\ OnRing(i, j, x, t, N)
  <2>1. PICK x, t : OnRing(i, j, x, t, N)
    BY RingOf
  <2> QED
    BY <2>1 DEF OnRing
<1>2. i \in x .. t /\ j \in x .. t /\ (i = x \/ j = x \/ i = t \/ j = t)
  BY <1>1 DEF OnRing
<1>3. PICK b \in Nat \ {0} : b = FirstOnRing(x, t)
  BY NextRing
<1>4. get_number(i, j, N) = RingValue(i, j, x, t)
  BY <1>1, RingNumber
<1>5. N * N = b + (t - x + 1) * (t - x + 1) - 1
  BY <1>1, <1>3, N = x + t + 1, RingsInside
<1>6. PICK s \in Nat : s = t - x
  BY <1>1
<1>7. (s + 1) * (s + 1) = s * s + 2 * s + 1 /\ s * s >= 0
      /\ (s = 0 \/ s * s + 1 >= 2 * s)
  <2>1. (s - 1) * (s - 1) >= 0 /\ (s - 1) * (s - 1) = s * s - 2 * s + 1
    OBVIOUS
  <2> QED
    BY <2>1
<1>8. PICK q \in Nat : q = N * N /\ q = b + (s + 1) * (s + 1) - 1
  BY <1>5, <1>6
<1>9. q >= b + 2 * s /\ (s > 0 => q >= b + 4 * s - 1)
  BY <1>7, <1>8
<1>10. CASE i <= j
  <2>1. RingValue(i, j, x, t) = b + (i - x) + (j - x)
    BY <1>3, <1>10 DEF RingValue
  <2> QED
    BY <1>2, <1>4, <1>6, <1>8, <1>9, <2>1
<1>11. CASE i > j
  <2>1. RingValue(i, j, x, t) = b + 4 * (t - x) - (i - x) - (j - x)
    BY <1>3, <1>11 DEF RingValue
  <2>2. s > 0 /\ (i - x) + (j - x) >= 1 /\ (i - x) + (j - x) <= 2 * s
    BY <1>2, <1>6, <1>11
  <2> QED
    BY <1>2, <1>4, <1>6, <1>8, <1>9, <2>1, <2>2
<1> QED
  BY <1>10, <1>11

(* inf08-2: get_number numbers the cells of a square of any size from 1 to *)
(* N * N along a spiral: each number is beside the one before it, straight *)
(* on or, where the square ends or a cell is taken, to the right.          *)
THEOREM SpiralIsTurned ==
  ASSUME NEW N \in Nat, N > 0
  PROVE  Turns(N)
<1> DEFINE square == (0 .. N - 1) \X (0 .. N - 1)
           Number(c) == get_number(c[1], c[2], N)
           At(n) == CHOOSE c \in square : Number(c) = n
           Way(n) == <<At(n + 1)[1] - At(n)[1], At(n + 1)[2] - At(n)[2]>>
           Ahead(n, d) == <<At(n)[1] + d[1], At(n)[2] + d[2]>>
           Free(c, n) == c \in square /\ Number(c) > n
<1>1. PICK m \in Nat : m = N * N
  OBVIOUS
<1>2. /\ \A c \in square : \E i, j \in 0 .. N - 1 : c = <<i, j>>
      /\ \A i, j : InSquare(i, j, N) <=> <<i, j>> \in square
      /\ \A i, j : Number(<<i, j>>) = get_number(i, j, N)
  BY DEF InSquare
<1>3. \A c \in square : Number(c) \in 1 .. m
  BY <1>1, SpiralRange
<1>4. <<0, 0>> \in square /\ Number(<<0, 0>>) = 1
  <2>1. OnRing(0, 0, 0, N - 1, N)
    BY DEF OnRing
  <2>2. get_number(0, 0, N) = RingValue(0, 0, 0, N - 1)
    BY <2>1, RingNumber
  <2> QED
    BY <2>2 DEF RingValue, FirstOnRing
(* From one cell to the next.                                              *)
<1>5. ASSUME NEW n \in 1 .. m - 1, NEW c \in square, Number(c) = n
      PROVE  \E d, e \in Int :
               /\ <<c[1] + d, c[2] + e>> \in square
               /\ Number(<<c[1] + d, c[2] + e>>) = n + 1
               /\ c = <<0, 0>> => d = 0 /\ e = 1
               /\ n + 1 < m =>
                    LET straight == <<c[1] + d + d, c[2] + e + e>>
                        right == <<c[1] + d + e, c[2] + e - d>>
                    IN  IF straight \in square /\ Number(straight) > n + 1
                        THEN Number(straight) = n + 2
                        ELSE right \in square /\ Number(right) = n + 2
  <2>1. PICK i \in 0 .. N - 1, j \in 0 .. N - 1 : c = <<i, j>>
    BY <1>2
  <2>2. n = get_number(i, j, N) /\ n < N * N
    BY <1>1, <1>5, <2>1
  <2>3. PICK d \in Int, e \in Int :
          /\ i = 0 /\ j = 0 => d = 0 /\ e = 1
          /\ GoesOn(n, i + d, j + e, i + d + d, j + e + e,
                    i + d + e, j + e - d, N)
    BY <2>2, SpiralStep
  <2>4. /\ <<i + d, j + e>> \in square /\ Number(<<i + d, j + e>>) = n + 1
        /\ n + 1 < m =>
             IF <<i + d + d, j + e + e>> \in square
                  /\ Number(<<i + d + d, j + e + e>>) > n + 1
             THEN Number(<<i + d + d, j + e + e>>) = n + 2
             ELSE /\ <<i + d + e, j + e - d>> \in square
                  /\ Number(<<i + d + e, j + e - d>>) = n + 2
    <3> HIDE DEF Number, square
    <3> QED
      BY <1>1, <1>2, <2>3 DEF GoesOn
  <2>5. c = <<0, 0>> => d = 0 /\ e = 1
    BY <2>1, <2>3
  <2>6. c[1] = i /\ c[2] = j
    BY <2>1
  <2> HIDE DEF Number, square
  <2> QED
    BY <2>4, <2>5, <2>6, Zenon
(* All numbers are somewhere ...                                           *)
<1>6. ASSUME NEW n \in 1 .. m PROVE \E c \in square : Number(c) = n
  <2> DEFINE H == {k \in 0 .. m - 1 : \E c \in square : Number(c) = k + 1}
  <2>1. m - 1 \in Nat
    OBVIOUS
  <2>2. 0 \in H
    BY <1>4, <2>1
  <2>3. ASSUME NEW k \in 0 .. (m - 1) - 1, k \in H PROVE k + 1 \in H
    <3>1. PICK c \in square : Number(c) = k + 1
      BY <2>3
    <3>2. k + 1 \in 1 .. m - 1
      OBVIOUS
    <3>3. \E e \in square : Number(e) = (k + 1) + 1
      <4> HIDE DEF Number, square
      <4> QED
        BY <1>5, <3>1, <3>2
    <3> QED
      BY <2>1, <3>3
  <2>4. \A k \in 0 .. (m - 1) - 1 : k \in H => k + 1 \in H
    BY <2>3
  <2> HIDE DEF H, Number, square
  <2>5. \A k \in 0 .. m - 1 : k \in H
    BY <2>1, <2>2, <2>4, Induction, Zenon
  <2>6. n - 1 \in H /\ (n - 1) + 1 = n
    BY <2>5
  <2> QED
    BY <2>6 DEF H
(* ... and nowhere else.                                                   *)
<1>7. ASSUME NEW c \in square, NEW d \in square, Number(c) = Number(d)
      PROVE  c = d
  <2> DEFINE f == [e \in square |-> Number(e)]
  <2>1. f \in Surjection(square, 1 .. m)
    <3> HIDE DEF Number, square
    <3> QED
      BY <1>3, <1>6 DEF Surjection
  <2>2. IsFiniteSet(square) /\ Cardinality(square) = Cardinality(1 .. m)
    <3>1. IsFiniteSet(0 .. N - 1) /\ Cardinality(0 .. N - 1) = N
      BY FS_Interval
    <3>2. Cardinality(1 .. m) = m
      BY FS_Interval
    <3>3. /\ IsFiniteSet(square)
          /\ Cardinality(square)
               = Cardinality(0 .. N - 1) * Cardinality(0 .. N - 1)
      BY <3>1, FS_Product
    <3> QED
      BY <1>1, <3>1, <3>2, <3>3
  <2>3. f \in Injection(square, 1 .. m)
    <3> HIDE DEF f, square
    <3> QED
      BY <2>1, <2>2, FS_SurjSameCardinalityImpliesInj
  <2>4. f[c] = f[d]
    <3> HIDE DEF Number, square
    <3> QED
      BY <1>7
  <2> HIDE DEF f
  <2>5. \A a, b \in square : f[a] = f[b] => a = b
    BY <2>3 DEF Injection, IsInjective
  <2> QED
    BY <2>4, <2>5, Zenon
<1>8. ASSUME NEW n \in 1 .. m
      PROVE  /\ At(n) \in square /\ Number(At(n)) = n
             /\ \A c \in square : Number(c) = n => c = At(n)
  <2> HIDE DEF Number, square
  <2> QED
    BY <1>6, <1>7
<1>9. {Number(c) : c \in square} = 1 .. N * N
  <2> HIDE DEF Number, square
  <2> QED
    BY <1>1, <1>3, <1>6
<1> DEFINE From(n, d, e) ==
      /\ At(n + 1) = <<At(n)[1] + d, At(n)[2] + e>>
      /\ At(n) = <<0, 0>> => d = 0 /\ e = 1
      /\ n + 1 < m =>
           IF Free(<<At(n)[1] + d + d, At(n)[2] + e + e>>, n + 1)
           THEN At(n + 2) = <<At(n)[1] + d + d, At(n)[2] + e + e>>
           ELSE At(n + 2) = <<At(n)[1] + d + e, At(n)[2] + e - d>>
<1>10. ASSUME NEW n \in 1 .. m - 1
       PROVE  \E d, e \in Int : From(n, d, e)
  <2>1. n \in 1 .. m /\ n + 1 \in 1 .. m /\ (n + 1 < m => n + 2 \in 1 .. m)
    OBVIOUS
  <2> HIDE DEF Number, square
  <2>2. At(n) \in square /\ Number(At(n)) = n
    BY <1>8, <2>1
  <2>3. /\ \A c \in square : Number(c) = n + 1 => At(n + 1) = c
        /\ n + 1 < m => \A c \in square : Number(c) = n + 2 => At(n + 2) = c
    BY <1>8, <2>1
  <2>4. PICK c \in square : c = At(n)
    BY <2>2
  <2>5. PICK d \in Int, e \in Int :
          /\ <<c[1] + d, c[2] + e>> \in square
          /\ Number(<<c[1] + d, c[2] + e>>) = n + 1
          /\ c = <<0, 0>> => d = 0 /\ e = 1
          /\ n + 1 < m =>
               LET straight == <<c[1] + d + d, c[2] + e + e>>
                   right == <<c[1] + d + e, c[2] + e - d>>
               IN  IF straight \in square /\ Number(straight) > n + 1
                   THEN Number(straight) = n + 2
                   ELSE right \in square /\ Number(right) = n + 2
    BY <1>5, <2>2, <2>4
  <2>6. At(n + 1) = <<c[1] + d, c[2] + e>>
    BY <2>3, <2>5
  <2>7. n + 1 < m =>
          IF Free(<<c[1] + d + d, c[2] + e + e>>, n + 1)
          THEN At(n + 2) = <<c[1] + d + d, c[2] + e + e>>
          ELSE At(n + 2) = <<c[1] + d + e, c[2] + e - d>>
    BY <2>3, <2>5
  <2> HIDE DEF At, Free
  <2>8. From(n, d, e)
    BY <2>4, <2>5, <2>6, <2>7
  <2> HIDE DEF From
  <2> QED
    BY <2>8
<1>11. ASSUME NEW n \in 1 .. m - 1, NEW d \in Int, NEW e \in Int, From(n, d, e)
       PROVE  /\ Way(n) = <<d, e>>
              /\ n + 1 < m =>
                   Way(n + 1) = IF Free(Ahead(n + 1, Way(n)), n + 1)
                                THEN Way(n) ELSE Right(Way(n))
  <2>1. PICK i \in 0 .. N - 1, j \in 0 .. N - 1 : At(n) = <<i, j>>
    <3>1. At(n) \in square
      BY <1>8
    <3> HIDE DEF At
    <3> QED
      BY <3>1
  <2> HIDE DEF At, Number, square
  <2>2. At(n + 1) = <<i + d, j + e>>
    BY <1>11, <2>1
  <2>3. Way(n) = <<d, e>>
    BY <2>1, <2>2
  <2>4. Right(Way(n)) = <<e, -d>>
    BY <2>3 DEF Right
  <2>5. Ahead(n + 1, Way(n)) = <<i + d + d, j + e + e>>
    BY <2>2, <2>3
  <2>6. n + 1 < m =>
          IF Free(<<i + d + d, j + e + e>>, n + 1)
          THEN At(n + 2) = <<i + d + d, j + e + e>>
          ELSE At(n + 2) = <<i + d + e, j + e - d>>
    BY <1>11, <2>1
  <2>7. (n + 1) + 1 = n + 2
    OBVIOUS
  <2>8. At(n + 2) = <<i + d + d, j + e + e>> => Way(n + 1) = <<d, e>>
    BY <2>2, <2>7
  <2>9. At(n + 2) = <<i + d + e, j + e - d>> => Way(n + 1) = <<e, -d>>
    BY <2>2, <2>7
  <2> HIDE DEF Way, Free, Ahead
  <2> QED
    BY <2>3, <2>4, <2>5, <2>6, <2>8, <2>9
<1>12. At(1) = <<0, 0>> /\ (N > 1 => Way(1) = <<0, 1>>)
  <2>1. 1 \in 1 .. m
    BY <1>1
  <2>2. At(1) = <<0, 0>>
    BY <1>4, <1>8, <2>1
  <2>3. ASSUME N > 1 PROVE Way(1) = <<0, 1>>
    <3>1. 1 \in 1 .. m - 1
      BY <1>1, <2>3
    <3> HIDE DEF At, Way, Number, square
    <3>2. PICK d \in Int, e \in Int : From(1, d, e)
      BY <1>10, <3>1
    <3> QED
      BY <1>11, <2>2, <3>1, <3>2
  <2> QED
    BY <2>2, <2>3
<1>13. ASSUME NEW n \in 2 .. N * N - 1
       PROVE  Way(n) = IF Free(Ahead(n, Way(n - 1)), n) THEN Way(n - 1)
                       ELSE Right(Way(n - 1))
  <2>1. PICK k \in 1 .. m - 1 : k = n - 1 /\ n = k + 1 /\ k + 1 < m
    BY <1>1
  <2> HIDE DEF At, Way, Number, square, Free, Ahead
  <2>2. PICK d \in Int, e \in Int : From(k, d, e)
    BY <1>10
  <2> HIDE DEF From
  <2> QED
    BY <1>11, <2>1, <2>2
<1> HIDE DEF Right
<1> QED
  BY <1>9, <1>12, <1>13, Zenon DEF Turns

-----------------------------------------------------------------------------
(***************************************************************************)
(* The inputs that are built.                                              *)
(***************************************************************************)
TypeOK ==
  /\ program \in DOMAIN Symbols /\ input \in Seq(Symbols[program])
  /\ Len(input) <= Most[program]

LEMMA SeqTypes ==
  ASSUME NEW S, NEW s \in Seq(S), NEW x \in S
  PROVE  Append(s, x) \in Seq(S) /\ Len(Append(s, x)) = Len(s) + 1
BY AppendProperties

(* Inputs are of the symbols of their program, and not too long.           *)
THEOREM TypeCorrect == Spec => []TypeOK
<1>1. Init => TypeOK
  <2> SUFFICES ASSUME Init PROVE TypeOK
    OBVIOUS
  <2>1. program \in DOMAIN Symbols /\ input = <<>>
    BY Zenon DEF Init
  <2>2. Most[program] \in Nat
    BY <2>1, MostAssumption, Zenon
  <2>3. <<>> \in Seq(Symbols[program]) /\ Len(<<>>) = 0
    BY EmptySeq, Zenon
  <2>4. Len(<<>>) <= Most[program]
    BY <2>2, <2>3
  <2> QED
    BY <2>1, <2>3, <2>4, Zenon DEF TypeOK
<1>2. TypeOK /\ [Next]_vars => TypeOK'
  <2> SUFFICES ASSUME TypeOK, [Next]_vars PROVE TypeOK'
    OBVIOUS
  <2>1. CASE Next
    <3>1. PICK symbol \in Symbols[program] : Grow(symbol)
      BY <2>1, Zenon DEF Next
    <3>2. /\ Len(input) < Most[program] /\ program' = program
          /\ input' = Append(input, symbol)
      BY <3>1, Zenon DEF Grow
    <3>3. /\ program \in DOMAIN Symbols /\ input \in Seq(Symbols[program])
          /\ Most[program] \in Nat
      BY MostAssumption, Zenon DEF TypeOK
    <3>4. /\ input' \in Seq(Symbols[program])
          /\ Len(input') = Len(input) + 1
      BY <3>2, <3>3, SeqTypes, Zenon
    <3>5. Len(input') <= Most[program]
      <4>1. PICK m \in Nat : m = Most[program]
        BY <3>3
      <4>2. PICK l \in Nat : l = Len(input)
        BY <3>3, LenProperties, Zenon
      <4> QED
        BY <3>2, <3>4, <4>1, <4>2
    <3>6. Symbols' = Symbols
      BY Zenon
    <3> QED
      BY <3>2, <3>3, <3>4, <3>5, <3>6, Zenon DEF TypeOK
  <2>2. CASE UNCHANGED vars
    BY <2>2, Zenon DEF vars, TypeOK
  <2> QED
    BY <2>1, <2>2
<1> QED
  BY <1>1, <1>2, PTL DEF Spec

LEMMA InputIs ==
  ASSUME TypeOK
  PROVE  /\ Len(input) \in Nat
         /\ program = "satsum" => input \in Seq(0 .. Power(2, Width) - 1)
         /\ program = "classify" => input \in Seq(0 .. 1)
         /\ program = "bytes" => input \in Seq(Digits)
         /\ program = "utf8" => input \in Seq(Chars)
         /\ program = "dns" => input \in Seq(NameBytes) /\ Len(input) <= Most.dns
         /\ program = "list" => input \in Seq(0 .. MinusOne)
         /\ program = "vector" => input \in Seq(Components)
         /\ program = "blend" => input \in Seq([under : Pixels, over : Pixels])
         /\ program = "check" => input \in Seq(Files)
<1>1. input \in Seq(Symbols[program]) /\ Len(input) <= Most[program]
  BY Zenon DEF TypeOK
<1>2. Len(input) \in Nat
  BY <1>1, LenProperties, Zenon
<1>3. /\ Symbols.satsum = 0 .. Power(2, Width) - 1 /\ Symbols.classify = 0 .. 1
      /\ Symbols.bytes = Digits /\ Symbols.utf8 = Chars
      /\ Symbols.dns = NameBytes /\ Symbols.list = 0 .. MinusOne
      /\ Symbols.vector = Components
      /\ Symbols.blend = [under : Pixels, over : Pixels]
      /\ Symbols.check = Files
  BY DEF Symbols
<1> QED
  BY <1>1, <1>2, <1>3, Zenon

-----------------------------------------------------------------------------
(***************************************************************************)
(* Each part of TextIsRight and DataIsRight, for any input of its program. *)
(***************************************************************************)
(* Every part of the two properties, of any input.                         *)
LEMMA SumPart == ASSUME TypeOK PROVE SumSaturates
<1> SUFFICES ASSUME program = "satsum", Len(input) = 2
             PROVE  satsum(input[1], input[2], Width)
                      = Min({input[1] + input[2], Power(2, Width) - 1})
  BY Zenon DEF SumSaturates
<1>1. PICK m : m = 0 .. Power(2, Width) - 1
  OBVIOUS
<1>2. input \in Seq(m)
  BY <1>1, InputIs, Zenon
<1>3. input[1] \in m /\ input[2] \in m
  <2>1. 1 \in 1 .. Len(input) /\ 2 \in 1 .. Len(input)
    OBVIOUS
  <2> QED
    BY <1>2, <2>1, ElementOfSeq, Zenon
<1>4. Width \in Nat
  BY NumberAssumption
<1> QED
  BY <1>1, <1>3, <1>4, SatsumIsMin, Zenon

LEMMA ClassPart == ASSUME TypeOK PROVE ClassifiesNumbers
<1> SUFFICES ASSUME program = "classify", Len(input) = 1 + Exponent + Mantissa
             PROVE  classify(Value(2, input), Exponent, Mantissa)
                      = ClassOf(input[1], SubSeq(input, 2, 1 + Exponent),
                                SubSeq(input, 2 + Exponent, Len(input)))
  BY Zenon DEF ClassifiesNumbers
<1>1. input \in Seq(0 .. 1)
  BY InputIs, Zenon
<1>2. Exponent \in Nat \ {0} /\ Mantissa \in Nat \ {0}
  BY NumberAssumption, Zenon
<1> QED
  BY <1>1, <1>2, NumbersAreClassified, Zenon

LEMMA BytesPart == ASSUME TypeOK PROVE BytesSuffice
<1> SUFFICES ASSUME program = "bytes"
             PROVE  LET value == Value(16, input)
                        bytes == min_bytes(input)
                    IN  /\ value < Power(256, bytes)
                        /\ bytes = 1 \/ value >= Power(256, bytes - 1)
  BY Zenon DEF BytesSuffice
<1>1. input \in Seq(Digits)
  BY InputIs, Zenon
<1>2. Digits \subseteq 0 .. 15
  BY AlphabetAssumption, Zenon
<1>3. input \in Seq(0 .. 15)
  BY <1>1, <1>2, SeqMonotonic, Zenon
<1> QED
  BY <1>3, MinBytesSuffice, Zenon

LEMMA SetsPart == ASSUME TypeOK PROVE SetsByElement
<1>1. Len(input) \in Nat /\ DOMAIN input = 1 .. Len(input)
  <2>1. input \in Seq(Symbols[program])
    BY Zenon DEF TypeOK
  <2> QED
    BY <2>1, LenProperties, Zenon
<1>2. Letters \cap Operators = {}
  BY AlphabetAssumption
<1> QED
  BY <1>1, <1>2, SetsAreByElement, Zenon DEF SetsByElement

LEMMA SymbolsPart == ASSUME TypeOK PROVE CountsSymbols
<1> SUFFICES ASSUME program = "utf8" PROVE CountsEach(input)
  BY Zenon DEF CountsSymbols
<1>1. input \in Seq(Chars)
  BY InputIs, Zenon
<1>2. \A char \in Chars : char \in Stray \/ IsUtf8(char)
  BY AlphabetAssumption, Zenon
<1>3. \A k \in 1 .. Len(input) : input[k] \in Stray \/ IsUtf8(input[k])
  BY <1>1, <1>2, ElementOfSeq, Zenon
<1>4. Chars \subseteq Seq(Bytes)
  <2>1. ASSUME NEW char \in Stray PROVE char \in Seq(Bytes)
    <3>1. PICK byte \in 128 .. 191 : char = <<byte>>
      BY Zenon DEF Stray
    <3>2. byte \in Bytes
      BY DEF Bytes
    <3> HIDE DEF Bytes
    <3>3. <<byte>> \in Seq(Bytes)
      BY <3>2
    <3> QED
      BY <3>1, <3>3, Zenon
  <2>2. \A char : IsUtf8(char) => char \in Seq(Bytes)
    BY Zenon DEF IsUtf8
  <2> QED
    BY <1>2, <2>1, <2>2, Zenon
<1>5. input \in Seq(Seq(Bytes))
  BY <1>1, <1>4, SeqMonotonic, Zenon
<1> QED
  BY <1>3, <1>5, SymbolsAreCounted, Zenon

LEMMA PartLengths ==
  ASSUME NEW S, NEW s \in Seq(S), NEW n \in Nat, n <= Len(s)
  PROVE  /\ Len(SubSeq(s, n + 1, Len(s))) \in Nat
         /\ Len(SubSeq(s, 1, n)) = n
<1>1. Len(SubSeq(s, 1, n)) = n
  BY BeginningOf, Zenon
<1>2. PICK m \in Nat : n + m = Len(s)
  <2>1. Len(s) \in Nat /\ Len(s) - n \in Nat /\ n + (Len(s) - n) = Len(s)
    BY LenProperties
  <2> QED
    BY <2>1, Zenon
<1>3. n + m <= Len(s)
  BY <1>2
<1>4. IsPart(SubSeq(s, n + 1, n + m), s, n, m)
  BY <1>3, PartOf, Zenon
<1> QED
  BY <1>1, <1>2, <1>4, Zenon DEF IsPart

LEMMA Thirds ==
  ASSUME NEW n \in Nat
  PROVE  n \div 3 \in Nat /\ n \div 3 <= n
OBVIOUS

LEMMA FindsPart == ASSUME TypeOK PROVE FindsOccurrences
<1> SUFFICES ASSUME program = "memmem", Len(input) \div 3 > 0
             PROVE  LET n == Len(input) \div 3
                    IN  FindsAll(SubSeq(input, n + 1, Len(input)),
                                 SubSeq(input, 1, n))
  BY Zenon DEF FindsOccurrences
<1>1. input \in Seq(Symbols[program]) /\ Len(input) \in Nat
  BY InputIs, Zenon DEF TypeOK
<1>2. PICK n \in Nat : n = Len(input) \div 3 /\ n > 0 /\ n <= Len(input)
  BY <1>1, Thirds, Zenon
<1>3. PICK file : file = SubSeq(input, n + 1, Len(input)) /\ Len(file) \in Nat
  BY <1>1, <1>2, PartLengths, Zenon
<1>4. PICK str : str = SubSeq(input, 1, n) /\ Len(str) = n
  BY <1>1, <1>2, PartLengths, Zenon
<1>5. Len(str) \in Nat \ {0}
  BY <1>2, <1>4
<1>6. FindsAll(file, str)
  BY <1>3, <1>5, OccurrencesAreFound, Zenon
<1> QED
  BY <1>2, <1>3, <1>4, <1>6, Zenon

LEMMA NamesPart == ASSUME TypeOK PROVE QueryNamesHost
<1> SUFFICES ASSUME program = "dns"
             PROVE  /\ parse(input) = pack_domain_to_query(input)
                    /\ Names(pack_domain_to_query(input), input)
  BY Zenon DEF QueryNamesHost
<1>1. input \in Seq(NameBytes) /\ Len(input) <= Most.dns /\ Len(input) \in Nat
  BY InputIs, Zenon
<1>2. NameBytes \subseteq Nat
  <2>1. NameBytes \subseteq 1 .. 255
    BY AlphabetAssumption, Zenon
  <2> QED
    BY <2>1
<1>3. input \in Seq(Nat)
  BY <1>1, <1>2, SeqMonotonic, Zenon
<1>4. Len(input) < 256
  <2>1. Most.dns \in Nat /\ Most.dns < 256
    <3>1. "dns" \in DOMAIN Symbols
      BY DEF Symbols
    <3> QED
      BY <3>1, MostAssumption
  <2> QED
    BY <1>1, <2>1
<1> QED
  BY <1>3, <1>4, QueriesNameHosts, Zenon

LEMMA ListsPart == ASSUME TypeOK PROVE ListsAreFollowed
<1> SUFFICES
      ASSUME program = "list", input # <<>>
      PROVE  LET steps == Len(input) + 1
             IN  /\ Follows(print_list_posix(input, steps), input)
                 /\ (\A k \in DOMAIN input : input[k] # MinusOne) =>
                      \A behind \in {<<>>} \cup {<<word>> : word \in 0 .. MinusOne} :
                        AgreesMapped(input, steps, MinusOne, Page, behind)
                 /\ WholeItems(input, Half) =>
                      print_list_winapi(input, steps, Half)
                        = print_list_posix(ReadOn(input, Half), steps)
  BY Zenon DEF ListsAreFollowed
<1>1. input \in Seq(0 .. MinusOne) /\ Len(input) \in Nat
  BY InputIs, Zenon
<1>2. MinusOne \in Nat \ {0}
  <2>1. "list" \in DOMAIN Symbols
    BY DEF Symbols
  <2>2. Most.list \in Nat
    BY <2>1, MostAssumption, Zenon
  <2> QED
    BY <2>2 DEF MinusOne
<1>3. input \in Seq(Nat)
  <2>1. 0 .. MinusOne \subseteq Nat
    BY <1>2
  <2> QED
    BY <1>1, <2>1, SeqMonotonic, Zenon
<1>4. PICK steps \in Nat : steps = Len(input) + 1
  BY <1>1
<1>5. Follows(print_list_posix(input, steps), input)
  BY <1>3, <1>4, PosixFollows, Zenon
<1>6. ASSUME \A k \in DOMAIN input : input[k] # MinusOne,
             NEW behind \in {<<>>} \cup {<<word>> : word \in 0 .. MinusOne}
      PROVE  AgreesMapped(input, steps, MinusOne, Page, behind)
  <2>1. behind = <<>> \/ \E word \in Nat : behind = <<word>>
    <3>1. 0 .. MinusOne \subseteq Nat
      BY <1>2
    <3> QED
      BY <3>1, Zenon
  <2>2. Page \in Nat \ {0}
    BY LimitAssumption, Zenon
  <2> QED
    BY <1>2, <1>3, <1>6, <2>1, <2>2, MmapAgrees, Zenon
<1>7. ASSUME WholeItems(input, Half)
      PROVE  print_list_winapi(input, steps, Half)
               = print_list_posix(ReadOn(input, Half), steps)
  <2>1. Half \in Nat \ {0}
    BY LimitAssumption, Zenon
  <2> QED
    BY <1>3, <1>7, <2>1, WinapiAgrees, Zenon
<1> QED
  BY <1>4, <1>5, <1>6, <1>7, Zenon

LEMMA NotEmpty ==
  ASSUME NEW S, NEW s \in Seq(S), s # <<>>
  PROVE  Len(s) \in Nat /\ Len(s) > 0
BY EmptySeq, LenProperties

LEMMA SpiralPart == ASSUME TypeOK PROVE SpiralTurns
<1> SUFFICES ASSUME input # <<>> PROVE Turns(Len(input))
  BY Zenon DEF SpiralTurns
<1>1. input \in Seq(Symbols[program])
  BY Zenon DEF TypeOK
<1>2. Len(input) \in Nat /\ Len(input) > 0
  BY <1>1, NotEmpty, Zenon
<1> QED
  BY <1>2, SpiralIsTurned, Zenon

LEMMA CellsPart == ASSUME TypeOK PROVE CellsFillFile
<1> SUFFICES ASSUME input # <<>>
             PROVE  LET N == Len(input)
                        W == get_len(N * N)
                    IN  /\ FillsFile(N, W)
                        /\ Power(10, W - 1) <= N * N /\ N * N < Power(10, W)
  BY Zenon DEF CellsFillFile
<1>1. input \in Seq(Symbols[program])
  BY Zenon DEF TypeOK
<1>2. PICK N \in Nat : N = Len(input) /\ N > 0
  BY <1>1, NotEmpty, Zenon
<1>3. PICK num \in Nat : num = N * N /\ num > 0
  <2>1. N * N \in Nat /\ N * N > 0
    BY <1>2
  <2> QED
    BY <2>1, Zenon
<1>4. /\ get_len(num) \in Nat \ {0}
      /\ Power(10, get_len(num) - 1) <= num
      /\ num < Power(10, get_len(num))
  BY <1>3, LenCountsDigits, Zenon
<1>5. FillsFile(N, get_len(num))
  BY <1>4, CellsArePlaced, Zenon
<1> QED
  BY <1>2, <1>3, <1>4, <1>5, Zenon

LEMMA ReportsPart == ASSUME TypeOK PROVE ReportsInvalid
<1> SUFFICES ASSUME program = "check" PROVE FindsInvalid(input, Descriptors)
  BY Zenon DEF ReportsInvalid
<1>1. input \in Seq(AnyFile)
  <2>1. input \in Seq(Files)
    BY InputIs, Zenon
  <2>2. Files \subseteq AnyFile
    BY AlphabetAssumption, Zenon
  <2> QED
    BY <2>1, <2>2, SeqMonotonic, Zenon
<1>2. Descriptors \in Nat
  BY LimitAssumption, Zenon
<1> QED
  BY <1>1, <1>2, InvalidAreFound, Zenon

LEMMA Squares ==
  ASSUME NEW A \in Seq(Int), NEW n \in Nat, n = Len(A)
  PROVE  /\ [k \in DOMAIN A |-> k * k] \in Seq(Int)
         /\ Len([k \in DOMAIN A |-> k * k]) = n
OBVIOUS

LEMMA ProductPart == ASSUME TypeOK PROVE ProductIsWhole
<1> DEFINE B == [k \in DOMAIN input |-> k * k]
<1> SUFFICES ASSUME program = "vector"
             PROVE  dot_product(input, B) = Product(input, B)
  BY Zenon DEF ProductIsWhole
<1>1. input \in Seq(Int) /\ Len(input) \in Nat
  <2>1. input \in Seq(Components) /\ Len(input) \in Nat
    BY InputIs, Zenon
  <2>2. Components \subseteq Int
    BY AlphabetAssumption, Zenon
  <2> QED
    BY <2>1, <2>2, SeqMonotonic, Zenon
<1>2. B \in Seq(Int) /\ Len(B) = Len(input)
  BY <1>1, Squares, Zenon
<1> HIDE DEF B
<1> QED
  BY <1>1, <1>2, ProductsAddUp, Zenon

LEMMA Images ==
  ASSUME NEW pairs \in Seq([under : Pixels, over : Pixels]),
         NEW n \in Nat, n = Len(pairs), NEW top \in Nat,
         Alphas \subseteq 0 .. top, Shades \subseteq 0 .. top
  PROVE  /\ [k \in DOMAIN pairs |-> pairs[k].under] \in Seq(PixelsTo(top))
         /\ [k \in DOMAIN pairs |-> pairs[k].over] \in Seq(PixelsTo(top))
         /\ Len([k \in DOMAIN pairs |-> pairs[k].under]) = n
         /\ Len([k \in DOMAIN pairs |-> pairs[k].over]) = n
<1>1. DOMAIN pairs = 1 .. n
  OBVIOUS
<1>2. Pixels \subseteq PixelsTo(top)
  BY DEF Pixels, PixelsTo
<1>3. \A k \in 1 .. n : /\ pairs[k].under \in PixelsTo(top)
                        /\ pairs[k].over \in PixelsTo(top)
  <2>1. \A k \in 1 .. n : pairs[k] \in [under : Pixels, over : Pixels]
    BY ElementOfSeq, Zenon
  <2> QED
    BY <1>2, <2>1
<1> HIDE DEF Pixels, PixelsTo
<1> QED
  BY <1>1, <1>3

LEMMA BlendPart == ASSUME TypeOK PROVE BlendsEveryPixel
<1> DEFINE image1 == [k \in DOMAIN input |-> input[k].under]
           image2 == [k \in DOMAIN input |-> input[k].over]
<1> PICK image3 : image3 = blend(image1, image2, Opaque)
  OBVIOUS
<1> SUFFICES
      ASSUME program = "blend",
             LET n == Len(input)
             IN  n % 2 = 1 => \/ input[n].under.alpha > 0
                              \/ input[n].over.alpha > 0
      PROVE  /\ DOMAIN image3 = DOMAIN input
             /\ \A k \in DOMAIN input :
                  /\ image3[k] = BlendOfPair(image1[k], image2[k], Opaque)
                  /\ image3[k].alpha \in 0 .. Opaque
                  /\ image3[k].colour \in 0 .. Opaque
  BY Zenon DEF BlendsEveryPixel
<1>1. input \in Seq([under : Pixels, over : Pixels]) /\ Len(input) \in Nat
  BY InputIs, Zenon
<1>2. /\ Opaque \in Nat /\ Opaque > 0
      /\ Alphas \subseteq 0 .. Opaque /\ Shades \subseteq 0 .. Opaque
  <2>1. Opaque \in Nat \ {0}
    BY LimitAssumption, Zenon
  <2>2. Alphas \subseteq 0 .. Opaque /\ Shades \subseteq 0 .. Opaque
    BY AlphabetAssumption, Zenon
  <2> QED
    BY <2>1, <2>2
<1>3. /\ image1 \in Seq(PixelsTo(Opaque)) /\ image2 \in Seq(PixelsTo(Opaque))
      /\ Len(image1) = Len(input) /\ Len(image2) = Len(input)
  BY <1>1, <1>2, Images, Zenon
<1>4. PICK n \in Nat : n = Len(input)
  BY <1>1
<1>5. DOMAIN input = 1 .. n /\ DOMAIN image1 = DOMAIN input
  BY <1>1, <1>4
<1>6. n % 2 = 1 => image1[n].alpha > 0 \/ image2[n].alpha > 0
  <2>1. n % 2 = 1 => n \in DOMAIN input
    BY <1>5
  <2> QED
    BY <1>4, <2>1, Zenon
<1> HIDE DEF image1, image2
<1>7. /\ DOMAIN image3 = DOMAIN image1
      /\ \A k \in DOMAIN image1 :
           /\ image3[k] = BlendOfPair(image1[k], image2[k], Opaque)
           /\ image3[k] \in PixelsTo(Opaque)
  BY <1>2, <1>3, <1>4, <1>6, BlendIsUniform, Zenon
<1>8. \A pixel \in PixelsTo(Opaque) :
        pixel.alpha \in 0 .. Opaque /\ pixel.colour \in 0 .. Opaque
  BY DEF PixelsTo
<1> QED
  BY <1>5, <1>7, <1>8, Zenon

(* inf01, inf08-0, inf20-1: what the programs compute from integers and    *)
(* text is right, for inputs of any length and numbers of any width.       *)
THEOREM TextCorrect == Spec => []TextIsRight
<1>1. TypeOK => TextIsRight
  BY SumPart, ClassPart, BytesPart, SetsPart, SymbolsPart, FindsPart,
     NamesPart, Zenon DEF TextIsRight
<1> QED
  BY <1>1, TypeCorrect, PTL

(* inf05, inf07, inf08: what the programs read from files and arrays, and  *)
(* where they put it, is right at every boundary, however long they are.   *)
THEOREM DataCorrect == Spec => []DataIsRight
<1>1. TypeOK => DataIsRight
  BY ListsPart, SpiralPart, CellsPart, ReportsPart, ProductPart, BlendPart,
     Zenon DEF DataIsRight
<1> QED
  BY <1>1, TypeCorrect, PTL
=============================================================================
