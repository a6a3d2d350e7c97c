---------------------------- MODULE MCAlgorithms -----------------------------
(***************************************************************************)
(* How long the inputs of Algorithms are, and what they consist of.        *)
(***************************************************************************)
EXTENDS Algorithms

MCMost ==
  [satsum |-> 2, classify |-> 1 + Exponent + Mantissa, bytes |-> 6,
   sets |-> 4, utf8 |-> 4, memmem |-> 6, dns |-> 6, list |-> 6,
   spiral |-> 7, vector |-> 13, blend |-> 3, check |-> 3]

(* Of every length a first byte can announce, and those on the borders of  *)
(* the code's comparisons.                                                 *)
MCChars ==
  {<<65>>, <<195, 169>>, <<223, 128>>, <<224, 160, 128>>,
   <<239, 128, 128>>, <<240, 144, 128, 128>>, <<128>>}

MCComponents == {-2, 3}

(* Contents of executable files, others, and what a buffer may add.        *)
Executable(content, behind) ==
  [opens |-> TRUE, executable |-> TRUE, readable |-> TRUE,
   content |-> content, behind |-> behind]

Elves == <<"7fE", "LF">>
Script == <<"#!", "sh", "eol">>

MCFiles ==
  {Executable(content, <<>>) : content \in
     {<<>>, <<"x">>, <<"x", "x">>, Elves, <<"7fE">>, <<"7fE", "x">>,
      Script, <<"#!", "sh">>, <<"#!", "eol">>, <<"#!", "none", "eol">>,
      <<"#!", "dir", "eol">>, <<"#!", "sh", "x", "eol">>,
      <<"#!", "space", "sh", "eol">>, <<"#!", "space", "none", "eol">>,
      <<"#!", "sh", "space", "x", "eol">>}}
  \cup {Executable(<<"7fE">>, <<"LF">>), Executable(<<"#!">>, <<"sh">>),
        Executable(<<"#!", "sh">>, <<"x">>)}
  \cup {[Executable(content, <<>>) EXCEPT !.executable = FALSE] :
           content \in {Script, <<"x", "x">>}}
  \cup {[Executable(content, <<>>) EXCEPT !.readable = FALSE] :
           content \in {<<>>, Elves}}
  \cup {[Executable(content, <<>>) EXCEPT !.opens = FALSE] :
           content \in {Script, <<"x", "x">>}}
=============================================================================
