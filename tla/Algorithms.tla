----------------------------- MODULE Algorithms ------------------------------
(***************************************************************************)
(* The functions of TextAlgorithms and DataAlgorithms on all inputs of a   *)
(* bounded length. An input is built symbol by symbol, and in every state  *)
(* the result for what there is so far is compared with what it should be. *)
(***************************************************************************)
EXTENDS TextAlgorithms, DataAlgorithms

CONSTANTS
  Most,       \* symbols of an input, for each program
  Width,      \* of an integer, 16 in inf01-2
  Exponent,   \* of a floating-point number, 11 in inf01-1
  Mantissa,   \* and 52
  Digits,     \* hexadecimal digits of a number
  Chars,      \* sequences of bytes in a text, symbols in UTF-8 or stray ones
  TextBytes,  \* bytes of a file in which a string is looked for
  NameBytes,  \* bytes of a domain name
  Components, \* of vectors
  Opaque,     \* the largest byte, 255
  Alphas,     \* of the pixels of an image
  Shades,     \* of their colours
  Half,       \* the least pointer that is negative as an offset, 2^31
  Page,       \* words of a page of memory
  Files,      \* that are checked
  Descriptors \* that a process may open

VARIABLES program, input

vars == <<program, input>>

(* A sequence of bytes is a symbol in UTF-8 if the first byte says how many*)
(* there are and the others begin with 10 in binary, as stray bytes do.    *)
Bytes == 0 .. 255
Stray == {<<byte>> : byte \in 128 .. 191}

LengthBy(byte) ==
  IF byte < 128 THEN 1
  ELSE IF byte < 224 THEN 2 ELSE IF byte < 240 THEN 3 ELSE 4

IsUtf8(char) ==
  /\ char \in Seq(Bytes) /\ char # <<>>
  /\ char[1] \in 0 .. 127 \cup 192 .. 247
  /\ Len(char) = LengthBy(char[1])
  /\ \A k \in 2 .. Len(char) : char[k] \in 128 .. 191

(* What an input consists of, and where a list points with -1.             *)
MinusOne == Most.list + 1
Pixels == [alpha : Alphas, colour : Shades]

Symbols ==
  [satsum |-> 0 .. Power(2, Width) - 1, classify |-> 0 .. 1,
   bytes |-> Digits, sets |-> Letters \cup Operators \cup {" "},
   utf8 |-> Chars, memmem |-> TextBytes, dns |-> NameBytes,
   list |-> 0 .. MinusOne, spiral |-> {1}, vector |-> Components,
   blend |-> [under : Pixels, over : Pixels], check |-> Files]

(* A name is shorter than 256 bytes, as in the program's buffer of 200.    *)
ASSUME MostAssumption ==
  Most \in [DOMAIN Symbols -> Nat] /\ Most.dns < 256
ASSUME NumberAssumption ==
  Width \in Nat \ {0} /\ Exponent \in Nat \ {0} /\ Mantissa \in Nat \ {0}
ASSUME AlphabetAssumption ==
  /\ Digits \subseteq 0 .. 15
  /\ Letters \cap (Operators \cup {" "}) = {}
  /\ \A char \in Chars : char \in Stray \/ IsUtf8(char)
  /\ NameBytes \subseteq 1 .. 255
  /\ Components \subseteq Int
  /\ Alphas \subseteq 0 .. Opaque /\ Shades \subseteq 0 .. Opaque
  /\ \A file \in Files : file \in AnyFile
ASSUME LimitAssumption ==
  /\ Opaque \in Nat \ {0} /\ Descriptors \in Nat
  /\ Half \in Nat \ {0} /\ Page \in Nat \ {0}

Init == program \in DOMAIN Symbols /\ input = <<>>

Grow(symbol) ==
  /\ Len(input) < Most[program]
  /\ input' = Append(input, symbol)
  /\ UNCHANGED program

Next == \E symbol \in Symbols[program] : Grow(symbol)

Spec == Init /\ [][Next]_vars

-----------------------------------------------------------------------------
(* inf01-2: the sum, or the largest number if the sum is larger.           *)
SumSaturates ==
  program = "satsum" /\ Len(input) = 2 =>
    satsum(input[1], input[2], Width)
      = Min({input[1] + input[2], Power(2, Width) - 1})

(* inf01-1: the class is that of IEEE 754, from the bits in their order:   *)
(* sign, exponent, mantissa; only NaNs are the same with either sign.      *)
ClassOf(sign, exponent, mantissa) ==
  LET ones == \A k \in DOMAIN exponent : exponent[k] = 1
      zeros == \A k \in DOMAIN exponent : exponent[k] = 0
      none == \A k \in DOMAIN mantissa : mantissa[k] = 0
      Signed(plus, minus) == IF sign = 0 THEN plus ELSE minus
  IN  CASE ones /\ none -> Signed("PlusInf", "MinusInf")
        [] ones /\ ~none /\ mantissa[1] = 1 -> "QuietNaN"
        [] ones /\ ~none /\ mantissa[1] = 0 -> "SignalingNaN"
        [] zeros /\ none -> Signed("PlusZero", "MinusZero")
        [] zeros /\ ~none -> Signed("PlusDenormal", "MinusDenormal")
        [] OTHER -> Signed("PlusRegular", "MinusRegular")

ClassifiesNumbers ==
  program = "classify" /\ Len(input) = 1 + Exponent + Mantissa =>
    classify(Value(2, input), Exponent, Mantissa)
      = ClassOf(input[1], SubSeq(input, 2, 1 + Exponent),
                SubSeq(input, 2 + Exponent, Len(input)))

(* inf01-3: the number fits into its bytes, and not into fewer.            *)
BytesSuffice ==
  program = "bytes" =>
    LET value == Value(16, input)
        bytes == min_bytes(input)
    IN  /\ value < Power(256, bytes)
        /\ bytes = 1 \/ value >= Power(256, bytes - 1)

(* inf01-4: every letter is in the result or not independently of the      *)
(* others, by what the operators say of it when they are applied to the    *)
(* result and the set read last, as the text of the task has it.  The      *)
(* program forgets that set at every symbol that is no letter, so that     *)
(* "ab~&" gives nothing where the text says {a, b}; the property is about  *)
(* sequences in which each operator of two sets comes right after one.     *)
LastSet(symbols, n) ==
  LET last == Max({k \in 1 .. n - 1 : symbols[k] \in Letters} \cup {0})
      others == {k \in 1 .. last : symbols[k] \notin Letters}
  IN  {symbols[k] : k \in Max(others \cup {0}) + 1 .. last}

InOrder(symbols) ==
  \A n \in DOMAIN symbols : symbols[n] \in Operators \ {"~"} =>
    \/ n > 1 /\ symbols[n - 1] \in Letters
    \/ \A k \in 1 .. n - 1 : symbols[k] \notin Letters

Held(operator, x, y) ==
  CASE operator = "&" -> x /\ y
    [] operator = "|" -> x \/ y
    [] operator = "^" -> ~(x <=> y)
    [] operator = "~" -> ~x
    [] OTHER -> x

Member(letter, symbols) ==
  LET n == Len(symbols)
      Operate == [k \in 1 .. n |-> [x \in BOOLEAN |->
                    Held(symbols[k], x, letter \in LastSet(symbols, k))]]
  IN  After(n, FALSE, Operate)[n]

SetsByElement ==
  program = "sets" /\ InOrder(input) =>
    calculate(input) = {letter \in Letters : Member(letter, input)}

(* inf01-5: symbols up to the first stray byte are counted, and it is      *)
(* reported.  A symbol that begins with 0xDF or 0xEF is thought to go on   *)
(* for a byte more: it is not counted, and the next one is taken for an    *)
(* error in its place, or nothing is if it is the last.                    *)
Joined(chars) ==
  LET n == Len(chars)
      Join == [k \in 1 .. n |-> [bytes \in Seq(Bytes) |-> bytes \o chars[k]]]
  IN  After(n, <<>>, Join)[n]

Misjudged == {223, 239}

CountsUpTo(chars, valid) ==
  LET n == Len(chars)
      ascii == Cardinality({k \in 1 .. valid : Len(chars[k]) = 1})
      next == valid + 1
      counted == count_symbols(Joined(chars))
  IN  /\ valid = n => counted = Counting(0, ascii, valid - ascii)
      /\ valid < n /\ chars[next] \in Stray =>
           counted = Stopped(0, ascii, valid - ascii)
      /\ next = n /\ chars[next] \notin Stray =>
           counted = Counting(1, ascii, valid - ascii)
      /\ next < n /\ chars[next] \notin Stray /\ chars[next + 1] \notin Stray =>
           counted = Stopped(1, ascii, valid - ascii)

CountsEach(chars) ==
  LET ends == {k \in DOMAIN chars :
                 chars[k] \in Stray \/ chars[k][1] \in Misjudged}
  IN  CountsUpTo(chars, Min(ends \cup {Len(chars) + 1}) - 1)

CountsSymbols == program = "utf8" => CountsEach(input)

(* inf08-0: all the places where the string is, overlapping or not; the    *)
(* first third of the input is the string.                                 *)
FindsAll(file, str) ==
  LET printed == occurrences(file, str)
  IN  /\ {printed[k] : k \in DOMAIN printed}
           = {p \in 0 .. Len(file) - Len(str) :
                SubSeq(file, p + 1, p + Len(str)) = str}
      /\ \A k \in 1 .. Len(printed) - 1 : printed[k] < printed[k + 1]

FindsOccurrences ==
  program = "memmem" =>
    LET n == Len(input) \div 3
    IN  n > 0 => FindsAll(SubSeq(input, n + 1, Len(input)), SubSeq(input, 1, n))

(* inf20-1: read by the lengths of its labels, a query names the host that *)
(* was asked for, and the two versions write the same one.                 *)
Unpack(s, query) ==
  LET len == query[s.at]
      dot == IF s.at = 1 THEN <<>> ELSE <<Dot>>
  IN  IF len = 0 THEN s
      ELSE [at |-> s.at + len + 1,
            name |-> s.name \o dot \o SubSeq(query, s.at + 1, s.at + len)]

Unpacked(query) ==
  LET n == Len(query)
      Read == [k \in 1 .. n |-> [s \in [at : Nat, name : Seq(Nat)] |->
                 Unpack(s, query)]]
  IN  After(n, [at |-> 1, name |-> <<>>], Read)[n].name

ProperName(name) ==
  /\ name # <<>> /\ name[1] # Dot /\ name[Len(name)] # Dot
  /\ \A k \in 1 .. Len(name) - 1 : name[k] # Dot \/ name[k + 1] # Dot

Names(query, host) == ProperName(host) => Unpacked(query) = host

QueryNamesHost ==
  program = "dns" =>
    /\ parse(input) = pack_domain_to_query(input)
    /\ Names(pack_domain_to_query(input), input)

(* inf07-1, inf08-1: the places printed are those that the pointers lead   *)
(* through, from the beginning to a 0 or out of the file.  In a file       *)
(* without a pointer -1 the mapped version prints the same ones, and then  *)
(* others only if the last item lacks its pointer at the end of a page.    *)
(* The version with WINAPI, on files of whole items, prints those of the   *)
(* file in which each negative pointer leads to the item behind it.        *)
Follows(places, file) ==
  LET last == Pointer(file, places[Len(places)])
  IN  /\ places[1] = 0
      /\ \A k \in 1 .. Len(places) - 1 :
           places[k + 1] = Pointer(file, places[k]) /\ places[k + 1] # 0
      /\ Len(places) <= Len(file) => ~Inside(file, last) \/ last = 0

Begins(whole, part) ==
  Len(part) <= Len(whole) /\ \A k \in DOMAIN part : whole[k] = part[k]

AgreesMapped(file, steps, minus_one, page, behind) ==
  LET posix == print_list_posix(file, steps)
      mmap == print_list_mmap(file, steps, minus_one, page, behind)
  IN  IF Len(file) % page = 0 /\ posix[Len(posix)] = Len(file) - 1
      THEN Begins(mmap, posix) ELSE mmap = posix

WholeItems(file, half) ==
  /\ Len(file) % 2 = 0
  /\ \A k \in DOMAIN file : k % 2 = 0 /\ file[k] < half => file[k] % 2 = 0

ReadOn(file, half) ==
  [k \in DOMAIN file |->
     IF k % 2 = 0 /\ file[k] >= half THEN k ELSE file[k]]

ListsAreFollowed ==
  program = "list" /\ input # <<>> =>
    LET steps == Len(input) + 1
    IN  /\ Follows(print_list_posix(input, steps), input)
        /\ (\A k \in DOMAIN input : input[k] # MinusOne) =>
             \A behind \in {<<>>} \cup {<<word>> : word \in 0 .. MinusOne} :
               AgreesMapped(input, steps, MinusOne, Page, behind)
        /\ WholeItems(input, Half) =>
             print_list_winapi(input, steps, Half)
               = print_list_posix(ReadOn(input, Half), steps)

(* inf08-2: each number from 1 to N * N is in one cell, the next one beside*)
(* it, straight on or, where that is outside or taken, to the right; and   *)
(* the cells and ends of lines fill the file.                              *)
Right(d) == <<d[2], -d[1]>>

Turns(N) ==
  LET square == (0 .. N - 1) \X (0 .. N - 1)
      Number(c) == get_number(c[1], c[2], N)
      At(n) == CHOOSE c \in square : Number(c) = n
      Way(n) == <<At(n + 1)[1] - At(n)[1], At(n + 1)[2] - At(n)[2]>>
      Ahead(n, d) == <<At(n)[1] + d[1], At(n)[2] + d[2]>>
      Free(c, n) == c \in square /\ Number(c) > n
  IN  /\ {Number(c) : c \in square} = 1 .. N * N
      /\ At(1) = <<0, 0>> /\ (N > 1 => Way(1) = <<0, 1>>)
      /\ \A n \in 2 .. N * N - 1 :
           Way(n) = IF Free(Ahead(n, Way(n - 1)), n) THEN Way(n - 1)
                    ELSE Right(Way(n - 1))

SpiralTurns == program = "spiral" /\ input # <<>> => Turns(Len(input))

FillsFile(N, W) ==
  LET square == (0 .. N - 1) \X (0 .. N - 1)
      Cell(c) == cell_begin(c[1], c[2], N, W)
                   .. cell_begin(c[1], c[2], N, W) + W - 1
      ends == {cell_begin(i, N, N, W) : i \in 0 .. N - 1}
  IN  /\ UNION {Cell(c) : c \in square} = (0 .. file_length(N, W) - 1) \ ends
      /\ \A c, d \in square : c # d => Cell(c) \cap Cell(d) = {}

CellsFillFile ==
  program = "spiral" /\ input # <<>> =>
    LET N == Len(input)
        W == get_len(N * N)
    IN  /\ FillsFile(N, W)
        /\ Power(10, W - 1) <= N * N /\ N * N < Power(10, W)

(* inf07-3: as long as there are descriptors, the executable files that    *)
(* cannot be executed are reported, a directory among them: what begins    *)
(* neither with #! and the path of an interpreter, up to a space or the    *)
(* end of the line, nor like an ELF file.  But some of them may be missed, *)
(* and other files may be reported; the program is right about the rest.   *)
CanRun(content) ==
  \/ Elf(content)
  \/ /\ content # <<>> /\ content[1] = "#!"
     /\ \E k \in 2 .. Len(content) :
          /\ content[k] = "sh"
          /\ \A j \in 2 .. k - 1 : content[j] = "space"
          /\ k < Len(content) => content[k + 1] \in {"space", "eol"}

Invalid(file) == file.executable /\ ~CanRun(file.content)

(* It cannot be opened; a buffer completes its content; or its interpreter *)
(* is a directory.                                                         *)
MayMiss(file) ==
  \/ ~file.opens
  \/ Len(file.content) = 1 /\ file.content[1] \in {"#!", "7fE"}
  \/ /\ Len(file.content) > 1
     /\ file.content[1] = "#!" /\ file.content[2] = "dir"

(* It cannot be read; no line ends in it, so that the name goes on in the  *)
(* buffer; or there is a space before the interpreter or an argument after.*)
MayAlarm(file) ==
  LET content == file.content
  IN  \/ ~file.readable
      \/ /\ content # <<>> /\ content[1] = "#!"
         /\ \/ \A k \in DOMAIN content : content[k] # "eol"
            \/ \E k \in DOMAIN content :
                 /\ content[k] = "space"
                 /\ \A j \in 1 .. k - 1 : content[j] # "eol"

Agreed(file) == IF Invalid(file) THEN ~MayMiss(file) ELSE ~MayAlarm(file)

Reached(files, limit) ==
  {k \in DOMAIN files :
     Cardinality({j \in 1 .. k - 1 : files[j].opens}) < limit}

FindsInvalid(files, limit) ==
  LET reported == find_invalid(files, limit)
      places == {reported[n] : n \in DOMAIN reported}
      agreed == {k \in Reached(files, limit) : Agreed(files[k])}
  IN  /\ places \subseteq Reached(files, limit)
      /\ places \cap agreed = {k \in agreed : Invalid(files[k])}
      /\ \A n \in 1 .. Len(reported) - 1 : reported[n] < reported[n + 1]

ReportsInvalid == program = "check" => FindsInvalid(input, Descriptors)

(* inf05-3: steps of any size add up to the same product.                  *)
Product(A, B) ==
  LET n == Len(A)
      Add == [k \in 1 .. n |-> [sum \in Int |-> sum + A[k] * B[k]]]
  IN  After(n, 0, Add)[n]

ProductIsWhole ==
  program = "vector" =>
    LET B == [k \in DOMAIN input |-> k * k]
    IN  dot_product(input, B) = Product(input, B)

(* inf05/advanced-2: every pixel is blended in the same way, wherever it   *)
(* is, and stays within a byte; only a transparent last one cannot be.     *)
BlendsEveryPixel ==
  program = "blend" =>
    LET image1 == [k \in DOMAIN input |-> input[k].under]
        image2 == [k \in DOMAIN input |-> input[k].over]
        n == Len(input)
        divides ==
          n % 2 = 1 => input[n].under.alpha > 0 \/ input[n].over.alpha > 0
        image3 == blend(image1, image2, Opaque)
    IN  divides =>
          /\ DOMAIN image3 = DOMAIN input
          /\ \A k \in DOMAIN input :
               /\ image3[k] = BlendOfPair(image1[k], image2[k], Opaque)
               /\ image3[k].alpha \in 0 .. Opaque
               /\ image3[k].colour \in 0 .. Opaque

-----------------------------------------------------------------------------
(***************************************************************************)
(* What the exercises inf01, inf08-0 and the queries of inf20-1 compute    *)
(* from integers and text is what its definition says.                     *)
(***************************************************************************)
TextIsRight ==
  /\ SumSaturates
  /\ ClassifiesNumbers
  /\ BytesSuffice
  /\ SetsByElement
  /\ CountsSymbols
  /\ FindsOccurrences
  /\ QueryNamesHost

(***************************************************************************)
(* What inf05, inf07 and inf08 read from files and arrays, and where they  *)
(* put it, is right at every boundary of items, lines, files and vectors.  *)
(***************************************************************************)
DataIsRight ==
  /\ ListsAreFollowed
  /\ SpiralTurns
  /\ CellsFillFile
  /\ ReportsInvalid
  /\ ProductIsWhole
  /\ BlendsEveryPixel
=============================================================================
