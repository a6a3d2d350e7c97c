----------------------------- MODULE MCProcesses -----------------------------
(***************************************************************************)
(* Processes with the texts that TLC tries: two items for the pipeline of  *)
(* inf13; and for the threads of inf16-1 three numbers, of which one is    *)
(* negative, one number before what is none, and nothing.                  *)
(***************************************************************************)
EXTENDS Processes

MCPipeInput == <<1, 2>>

MCSumInputs == {<< <<1>>, <<-2>>, <<4>> >>, << <<3>>, <<>> >>, <<>>}
=============================================================================
