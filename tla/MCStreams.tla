------------------------------ MODULE MCStreams ------------------------------
(***************************************************************************)
(* Streams with the texts that TLC tries: a page of three characters, one  *)
(* with a zero byte in it and an empty one for the clients of inf21, and   *)
(* two files for inf07-0, of which the second fills the buffer of `other'  *)
(* and ends in a zero byte.                                                *)
(***************************************************************************)
EXTENDS Streams

MCHttpBodies == {<<TRUE, TRUE, TRUE>>, <<TRUE, FALSE, TRUE>>, <<>>}

MCSplitInputs ==
  {<<"digit", "zero", "digit", "other", "digit">>,
   <<"other", "other", "digit", "other", "zero">>}
=============================================================================
