--------------------------- MODULE TextAlgorithms ----------------------------
(***************************************************************************)
(* The programs of 1sem/inf01, inf08-0 and 2sem/inf20-1 that compute       *)
(* something from their input alone, as functions of it; numbers have      *)
(* their width.                                                            *)
(***************************************************************************)
EXTENDS Loops, FiniteSetsExt

CONSTANT Letters  \* that inf01-4 makes sets of; 62 in the program

(***************************************************************************)
(* inf01-2: an addition that stays at the largest number.                  *)
(***************************************************************************)
(* Mutant: only a sum of 0 is taken for an overflow.                       *)
satsum_zero(x, y, w) ==
  LET sum == (x + y) % Power(2, w)
  IN  IF sum = 0 /\ x > 0 THEN Power(2, w) - 1 ELSE sum

satsum(x, y, w) ==
  LET sum == (x + y) % Power(2, w)
  IN  IF sum < x \/ sum < y THEN Power(2, w) - 1 ELSE sum

(***************************************************************************)
(* inf01-1: the class of a floating-point number with a sign, e bits of    *)
(* exponent and m of mantissa, by shifting its bits; 11 and 52 in the      *)
(* program.                                                                *)
(***************************************************************************)
shl(v, n, w) == (v * Power(2, n)) % Power(2, w)
shr(v, n) == v \div Power(2, n)

(* The results of the two branches of classify, for either sign.           *)
Plus ==
  [zero |-> "PlusZero", inf |-> "PlusInf", denormal |-> "PlusDenormal",
   regular |-> "PlusRegular"]
Minus ==
  [zero |-> "MinusZero", inf |-> "MinusInf", denormal |-> "MinusDenormal",
   regular |-> "MinusRegular"]

branch(v, e, m, result) ==
  LET w == 1 + e + m
      exponent == shr(shl(v, 1, w), w - e)
      mantissa == shl(v, e + 1, w)
  IN  IF shl(v, 1, w) = 0 THEN result.zero
      ELSE IF exponent = Power(2, e) - 1
      THEN IF mantissa = 0 THEN result.inf
           ELSE IF shr(mantissa, w - 1) # 0 THEN "QuietNaN" ELSE "SignalingNaN"
      ELSE IF exponent = 0 THEN result.denormal ELSE result.regular

(* Mutant: the sign is looked for one bit below its place.                 *)
classify_shifted(v, e, m) ==
  IF shr(v, e + m - 1) # 0 THEN branch(v, e, m, Minus)
  ELSE branch(v, e, m, Plus)

classify(v, e, m) ==
  IF shr(v, e + m) # 0 THEN branch(v, e, m, Minus) ELSE branch(v, e, m, Plus)

(***************************************************************************)
(* inf01-3: bytes that a hexadecimal number needs, from its digits.  ans   *)
(* counts the digits from the first that is not 0, and that one twice.     *)
(***************************************************************************)
(* Mutant: the first digit counts once.                                    *)
count_once(ans, digit) == IF ans = 0 /\ digit = 0 THEN 0 ELSE ans + 1

count_digit(ans, digit) ==
  IF ans > 0 THEN ans + 1 ELSE IF digit = 0 THEN 0 ELSE 2

min_bytes(digits) ==
  LET n == Len(digits)
      Count == [k \in 1 .. n |-> [ans \in Nat |-> count_digit(ans, digits[k])]]
  IN  Max({1, After(n, 0, Count)[n] \div 2})

(***************************************************************************)
(* inf01-4: sets in reverse Polish notation.  Whatever is no letter ends   *)
(* the current set, also if it is no operator.                             *)
(***************************************************************************)
Operators == {"&", "|", "^", "~"}

Applied(op, answer, current) ==
  CASE op = "&" -> answer \cap current
    [] op = "|" -> answer \cup current
    [] op = "^" -> (answer \cup current) \ (answer \cap current)
    [] op = "~" -> Letters \ answer
    [] OTHER -> answer

SetsRead == [answer : SUBSET Letters, current : SUBSET Letters]

(* Mutant: an operator does not end the current set.                       *)
read_on(s, symbol) ==
  IF symbol \in Letters THEN [s EXCEPT !.current = @ \cup {symbol}]
  ELSE [s EXCEPT !.answer = Applied(symbol, @, s.current)]

read_symbol(s, symbol) ==
  IF symbol \in Letters
  THEN [answer |-> s.answer, current |-> s.current \cup {symbol}]
  ELSE [answer |-> Applied(symbol, s.answer, s.current), current |-> {}]

calculate(symbols) ==
  LET n == Len(symbols)
      Read == [k \in 1 .. n |-> [s \in SetsRead |-> read_symbol(s, symbols[k])]]
  IN  After(n, [answer |-> {}, current |-> {}], Read)[n].answer

(***************************************************************************)
(* inf01-5: symbols in UTF-8.  0xDF and 0xEF begin sequences of two and    *)
(* three bytes, but are compared with < and counted with the longer ones.  *)
(***************************************************************************)
(* Mutant: all symbols that are not ASCII have two bytes.                  *)
expected_one(byte) == 1

expected(byte) ==
  IF byte < 223 THEN 1 ELSE IF byte < 239 THEN 2 ELSE 3

SymbolsRead ==
  [expecting : Nat, ascii : Nat, not_ascii : Nat, error : BOOLEAN]

Counting(expecting, ascii, not_ascii) ==
  [expecting |-> expecting, ascii |-> ascii, not_ascii |-> not_ascii,
   error |-> FALSE]
Stopped(expecting, ascii, not_ascii) ==
  [expecting |-> expecting, ascii |-> ascii, not_ascii |-> not_ascii,
   error |-> TRUE]

NothingRead == Counting(0, 0, 0)

Continues(byte) == byte \div 64 = 2

count_byte(s, byte) ==
  IF s.error THEN s
  ELSE IF ~(Continues(byte) <=> s.expecting > 0)
  THEN Stopped(s.expecting, s.ascii, s.not_ascii)
  ELSE IF s.expecting > 1
  THEN Counting(s.expecting - 1, s.ascii, s.not_ascii)
  ELSE IF s.expecting = 1 THEN Counting(0, s.ascii, s.not_ascii + 1)
  ELSE IF byte < 128 THEN Counting(0, s.ascii + 1, s.not_ascii)
  ELSE Counting(expected(byte), s.ascii, s.not_ascii)

count_symbols(bytes) ==
  LET n == Len(bytes)
      Count == [k \in 1 .. n |-> [s \in SymbolsRead |->
                  count_byte(s, bytes[k])]]
  IN  After(n, NothingRead, Count)[n]

(***************************************************************************)
(* inf08-0: every occurrence of a string in a file.  memmem gives the      *)
(* first at or after a place; the next search begins one byte later, if    *)
(* that is in the file.                                                    *)
(***************************************************************************)
memmem(file, from, str) ==
  {p \in from .. Len(file) - Len(str) :
     SubSeq(file, p + 1, p + Len(str)) = str}

Searches == [tmp : Nat, searching : BOOLEAN, printed : Seq(Nat)]
Searching(tmp, printed) ==
  [tmp |-> tmp, searching |-> TRUE, printed |-> printed]
Ended(tmp, printed) == [tmp |-> tmp, searching |-> FALSE, printed |-> printed]

(* Mutant: the next search begins after the occurrence.                    *)
after_string(place, str) == place + Len(str)

next_search(place, str) == place + 1

search(s, file, str) ==
  LET places == memmem(file, s.tmp, str)
      next == next_search(Min(places), str)
      printed == Append(s.printed, Min(places))
  IN  IF ~s.searching \/ places = {} THEN Ended(s.tmp, s.printed)
      ELSE IF next < Len(file) THEN Searching(next, printed)
      ELSE Ended(next, printed)

occurrences(file, str) ==
  LET n == Len(file) + 1
      Search == [k \in 1 .. n |-> [s \in Searches |-> search(s, file, str)]]
  IN  After(n, Searching(0, <<>>), Search)[n].printed

(***************************************************************************)
(* inf20-1: a name in a DNS query, each label after its length, in two     *)
(* versions.  prog.c takes the last label in the loop like the others and  *)
(* ends with a label of length 0 and type and class; azzatiuss_prog.c      *)
(* takes it after the loop and leaves the zeros of memset in place. Lengths*)
(* are bytes.                                                              *)
(***************************************************************************)
Dot == 46

(* Where the label ends that begins after prev.                            *)
EndOfLabel(domain, prev) ==
  Min({k \in prev + 1 .. Len(domain) : domain[k] = Dot} \cup {Len(domain) + 1})

(* Mutant: the length of a label includes its dot.                         *)
label_with_dot(domain, prev) ==
  LET curr == EndOfLabel(domain, prev)
  IN  <<curr - prev>> \o SubSeq(domain, prev + 1, curr - 1)

(* A label and its length, with as much of it as the length says.          *)
Label(domain, prev) ==
  LET len == (EndOfLabel(domain, prev) - prev - 1) % 256
  IN  <<len>> \o SubSeq(domain, prev + 1, prev + len)

(* A label and its length, with all of it.                                 *)
WholeLabel(domain, prev) ==
  LET len == EndOfLabel(domain, prev) - prev - 1
  IN  <<len % 256>> \o SubSeq(domain, prev + 1, prev + len)

Packed == [prev : Nat, query : Seq(Nat)]
NothingPacked == [prev |-> 0, query |-> <<>>]

pack_label(s, domain) ==
  IF s.prev = Len(domain) + 1 THEN s
  ELSE [prev |-> EndOfLabel(domain, s.prev),
        query |-> s.query \o Label(domain, s.prev)]

pack_domain_to_query(domain) ==
  LET n == Len(domain) + 1
      Pack == [k \in 1 .. n |-> [s \in Packed |-> pack_label(s, domain)]]
  IN  After(n, NothingPacked, Pack)[n].query \o <<0>> \o <<0, 1, 0, 1>>

parse_label(s, domain) ==
  IF EndOfLabel(domain, s.prev) = Len(domain) + 1 THEN s
  ELSE [prev |-> EndOfLabel(domain, s.prev),
        query |-> s.query \o WholeLabel(domain, s.prev)]

(* len = pos + 5, and two of the five bytes are set.                       *)
parse(domain) ==
  LET n == Len(domain) + 1
      Parse == [k \in 1 .. n |-> [s \in Packed |-> parse_label(s, domain)]]
      last == After(n, NothingPacked, Parse)[n]
      rest == [k \in 1 .. 5 |-> IF k - 1 \in {2, 4} THEN 1 ELSE 0]
  IN  last.query \o WholeLabel(domain, last.prev) \o rest
=============================================================================
