--------------------------- MODULE DataAlgorithms ----------------------------
(***************************************************************************)
(* The programs of 1sem/inf05, inf07 and inf08 that compute something from *)
(* files, as functions of their content.                                   *)
(***************************************************************************)
EXTENDS Loops, FiniteSetsExt

(***************************************************************************)
(* inf07-1, its WINAPI version, and inf08-1: a list in a file.  Places and *)
(* pointers are in words: the item at p has its value at p and its pointer *)
(* at p + 1.  A program has printed the items at `printed', has read the   *)
(* pointer `next', and goes on at `ptr' as long as it is `going'.          *)
(***************************************************************************)
Word(file, p) == file[p + 1]
Inside(file, p) == p < Len(file)

Walks == [ptr : Nat, next : Nat, going : BOOLEAN, printed : Seq(Nat)]
FirstItem == [ptr |-> 0, next |-> 0, going |-> TRUE, printed |-> <<>>]

Halted(s) ==
  [ptr |-> s.ptr, next |-> s.next, going |-> FALSE, printed |-> s.printed]

(* Prints the item and goes to the next one.                               *)
GoTo(s, next, ptr) ==
  [ptr |-> ptr, next |-> next, going |-> next # 0,
   printed |-> Append(s.printed, s.ptr)]

(* A pointer that cannot be read is 0 ...                                  *)
Pointer(file, p) == IF Inside(file, p + 1) THEN Word(file, p + 1) ELSE 0

walk_posix(s, file) ==
  IF ~s.going \/ ~Inside(file, s.ptr) THEN Halted(s)
  ELSE GoTo(s, Pointer(file, s.ptr), Pointer(file, s.ptr))

print_list_posix(file, steps) ==
  LET Walk == [k \in 1 .. steps |-> [s \in Walks |-> walk_posix(s, file)]]
  IN  After(steps, FirstItem, Walk)[steps].printed

(* Mutant: the offset is taken for unsigned.                               *)
walk_unsigned(s, file, half) ==
  LET next == IF Inside(file, s.ptr + 1) THEN Word(file, s.ptr + 1) ELSE s.next
  IN  IF ~s.going \/ ~Inside(file, s.ptr) THEN Halted(s)
      ELSE GoTo(s, next, next)

(* ... or the one before.  A pointer of 2^31 or more, which is `half', is  *)
(* negative to SetFilePointer: it fails, and the program reads on after    *)
(* what it has read.                                                       *)
walk_winapi(s, file, half) ==
  LET whole == Inside(file, s.ptr + 1)
      next == IF whole THEN Word(file, s.ptr + 1) ELSE s.next
      after == s.ptr + (IF whole THEN 2 ELSE 1)
  IN  IF ~s.going \/ ~Inside(file, s.ptr) THEN Halted(s)
      ELSE GoTo(s, next, IF next >= half THEN after ELSE next)

print_list_winapi(file, steps, half) ==
  LET Walk == [k \in 1 .. steps |-> [s \in Walks |->
                 walk_winapi(s, file, half)]]
  IN  After(steps, FirstItem, Walk)[steps].printed

(* In the mapped file the pointer -1 is the first item.  Behind the end of *)
(* the file there are zeros up to the end of a page; behind that there is  *)
(* a word of whatever is mapped there, or nothing, and the program dies    *)
(* when it reads the pointer, the value being printed.                     *)
Behind(file, p, page, behind) ==
  IF p + 1 = Len(file) /\ Len(file) % page = 0 THEN behind
  ELSE <<Pointer(file, p)>>

Died(s) ==
  [ptr |-> s.ptr, next |-> s.next, going |-> FALSE,
   printed |-> Append(s.printed, s.ptr)]

(* Mutant: the place right after the file is thought to be in it.          *)
walk_past(s, file, minus_one, page, behind) ==
  LET next == Pointer(file, s.ptr)
  IN  IF ~s.going \/ s.ptr > Len(file) THEN Halted(s)
      ELSE GoTo(s, next, IF next = minus_one THEN 0 ELSE next)

walk_mmap(s, file, minus_one, page, behind) ==
  LET read == Behind(file, s.ptr, page, behind)
  IN  IF ~s.going \/ ~Inside(file, s.ptr) THEN Halted(s)
      ELSE IF read = <<>> THEN Died(s)
      ELSE GoTo(s, read[1], IF read[1] = minus_one THEN 0 ELSE read[1])

print_list_mmap(file, steps, minus_one, page, behind) ==
  LET Walk == [k \in 1 .. steps |-> [s \in Walks |->
                 walk_mmap(s, file, minus_one, page, behind)]]
  IN  After(steps, FirstItem, Walk)[steps].printed

(***************************************************************************)
(* inf08-2: the number at row i and column j of a spiral of N by N, and    *)
(* where its cell of W characters begins in the file.                      *)
(***************************************************************************)
(* Mutant: cells on the diagonal belong to the second half.                *)
get_number_strict(i, j, N) ==
  LET x == Min({i, j, N - 1 - i, N - 1 - j})
  IN  IF i < j THEN 1 + 4 * x * (N - x) + (i - x) + (j - x)
      ELSE 4 * (x + 1) * (N - x - 1) - (i - x) - (j - 1 - x)

get_number(i, j, N) ==
  LET x == Min({i, j, N - 1 - i, N - 1 - j})
  IN  IF i <= j THEN 1 + 4 * x * (N - x) + (i - x) + (j - x)
      ELSE 4 * (x + 1) * (N - x - 1) - (i - x) - (j - 1 - x)

get_len(num) ==
  LET Divide == [k \in 1 .. num |-> [s \in [ans : Nat, num : Nat] |->
                   IF s.num = 0 THEN s
                   ELSE [ans |-> s.ans + 1, num |-> s.num \div 10]]]
  IN  After(num, [ans |-> 0, num |-> num], Divide)[num].ans

(* Mutant: the end of a line is forgotten.                                 *)
cell_begin_joined(i, j, N, W) == N * W * i + j * W

cell_begin(i, j, N, W) == (N * W + 1) * i + j * W
file_length(N, W) == N * N * W + N

(***************************************************************************)
(* inf07-3: which executable files cannot be executed, by their places in  *)
(* the input.  The content of a file is a sequence of parts: "sh" is the   *)
(* path of an executable file, "dir" that of a directory; 7fE and LF make  *)
(* the beginning of an ELF file.  A directory cannot be read.  `behind' is *)
(* what the program's buffers, which it never clears, hold behind what it  *)
(* has read of the file.  No file is closed; after `limit' of them none    *)
(* can be opened.                                                          *)
(***************************************************************************)
OneByte == {"x", "space", "eol"}
Parts == OneByte \cup {"#!", "7fE", "LF", "sh", "dir", "none"}
AnyFile ==
  [opens : BOOLEAN, executable : BOOLEAN, readable : BOOLEAN,
   content : Seq(Parts), behind : Seq(Parts)]

TooShort(content) ==
  \/ content = <<>>
  \/ Len(content) = 1 /\ content[1] \in OneByte

(* What there is up to the end of the line is the path of something that   *)
(* stat says is executable, a directory included.                          *)
Interpreter(line) ==
  /\ line # <<>> /\ line[1] \in {"sh", "dir"}
  /\ Len(line) > 1 => line[2] = "eol"

Elf(bytes) == Len(bytes) > 1 /\ bytes[1] = "7fE" /\ bytes[2] = "LF"

rejected(file) ==
  \/ TooShort(file.content)
  \/ ~file.readable
  \/ /\ file.content[1] = "#!"
     /\ ~Interpreter(Tail(file.content) \o file.behind)
  \/ /\ file.content[1] # "#!"
     /\ ~Elf(file.content \o file.behind)

Checks == [opened : Nat, reported : Seq(Nat)]
Checked(opened, reported) == [opened |-> opened, reported |-> reported]

(* Mutant: the permission is not looked at.                                *)
check_any(s, k, file, limit) ==
  IF s.opened = limit \/ ~file.opens THEN s
  ELSE Checked(s.opened + 1,
               IF rejected(file) THEN Append(s.reported, k) ELSE s.reported)

check_file(s, k, file, limit) ==
  IF s.opened = limit \/ ~file.opens THEN s
  ELSE Checked(s.opened + 1,
               IF file.executable /\ rejected(file)
               THEN Append(s.reported, k) ELSE s.reported)

find_invalid(files, limit) ==
  LET n == Len(files)
      Check == [k \in 1 .. n |-> [s \in Checks |->
                  check_file(s, k, files[k], limit)]]
  IN  After(n, Checked(0, <<>>), Check)[n].reported

(***************************************************************************)
(* inf05-3: a dot product in steps of 8, 4 and 1 elements.                 *)
(***************************************************************************)
(* _mm256_hadd_ps(s, s) adds neighbours within each half.                  *)
hadd(s) ==
  [k \in 1 .. 8 |-> LET half == IF k <= 4 THEN 0 ELSE 4
                        n == half + 2 * ((k - 1) % 2) + 1
                    IN  s[n] + s[n + 1]]

(* Mutant: one horizontal addition is forgotten.                           *)
eight_once(s) == hadd(s)[1] + hadd(s)[5]

eight(s) == hadd(hadd(s))[1] + hadd(hadd(s))[5]

(* _mm_dp_ps.                                                              *)
four(s) == s[1] + s[2] + s[3] + s[4]

Products == [k : Nat, ans : Int]

add_products(s, A, B) ==
  LET left == Len(A) - s.k
      Product(m) == [l \in 1 .. m |-> A[s.k + l] * B[s.k + l]]
  IN  IF left >= 8 THEN [k |-> s.k + 8, ans |-> s.ans + eight(Product(8))]
      ELSE IF left >= 4 THEN [k |-> s.k + 4, ans |-> s.ans + four(Product(4))]
      ELSE IF left > 0 THEN [k |-> s.k + 1, ans |-> s.ans + Product(1)[1]]
      ELSE s

dot_product(A, B) ==
  LET n == Len(A)
      Add == [k \in 1 .. n |-> [s \in Products |-> add_products(s, A, B)]]
  IN  After(n, [k |-> 0, ans |-> 0], Add)[n].ans

(***************************************************************************)
(* inf05/advanced-2: image2 over image1.  Two pixels at a time by vectors, *)
(* a last one by integers, where a denominator of 0 ends the program; in   *)
(* the vectors it gives NaN, which as a byte is 0 on x86.  top is 255.     *)
(***************************************************************************)
Weight(p1, p2, top) == top * p2.alpha + p1.alpha * (top - p2.alpha)
Colours(p1, p2, top) ==
  top * p2.colour * p2.alpha + p1.colour * p1.alpha * (top - p2.alpha)

BlendOfPair(p1, p2, top) ==
  LET w == Weight(p1, p2, top)
  IN  [alpha |-> w \div top,
       colour |-> IF w = 0 THEN 0 ELSE Colours(p1, p2, top) \div w]

BlendOfLast(p1, p2, top) ==
  [alpha |-> p2.alpha + (top * p1.alpha - p1.alpha * p2.alpha) \div top,
   colour |-> Colours(p1, p2, top) \div Weight(p1, p2, top)]

(* Mutant: pixels are taken in pairs only.                                 *)
blend_pairs(image1, image2, top) ==
  [k \in 1 .. 2 * (Len(image1) \div 2) |->
     BlendOfPair(image1[k], image2[k], top)]

blend(image1, image2, top) ==
  [k \in DOMAIN image1 |->
     IF k = Len(image1) /\ k % 2 = 1
     THEN BlendOfLast(image1[k], image2[k], top)
     ELSE BlendOfPair(image1[k], image2[k], top)]
=============================================================================
