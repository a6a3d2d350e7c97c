------------------------------ MODULE Processes ------------------------------
(***************************************************************************)
(* The programs of 1sem/inf09, inf12 and 2sem/inf13, inf16 that make       *)
(* processes, pipes and threads, one of them at a time: `launched' says    *)
(* which, and the variables of the others keep their initial values.  No   *)
(* name is one of PMap, so that one module can be about both.              *)
(***************************************************************************)
EXTENDS Integers, Sequences

CONSTANTS
  Stages, PipeInput, PipeSize,             \* of Pipeline
  Counts, Limits,                          \* of Chain
  FirstNumbers,                            \* of SocketPair
  THREADS_NUM, IntModulus, SumInputs,      \* of ParallelSum
  MAX_NUM_OF_WORDS, Texts, Block,          \* of WordCount
  Exprs, Invalid, Long, MaxCalls           \* of Calculator

(* At least one command is given; items are as good as numbers.            *)
ASSUME StagesAssumption ==
  Stages \in Nat \ {0} /\ PipeInput \in Seq(Int) /\ PipeSize \in Nat

(* The user may have at least the process that begins.                     *)
ASSUME ChainAssumption == Counts \subseteq Nat /\ Limits \subseteq Nat \ {0}

ASSUME FirstAssumption == FirstNumbers \subseteq Int

ASSUME SumAssumption ==
  /\ THREADS_NUM \in Nat \ {0} /\ IntModulus \in Nat \ {0}
  /\ SumInputs \subseteq Seq(Seq(Int))

ASSUME WordsAssumption ==
  /\ MAX_NUM_OF_WORDS \in Nat /\ Texts \subseteq Nat /\ Block \in Nat \ {0}

VARIABLES
  launched,
  version, argv, procs, fds_in, fds_out, pipe_output, started, damaged, cut,
  task, chainCount, limit, links, said,
  sockAt, num, sock, open_ends, line,
  given, tokens, sumAt, tmp, sum, joined, global_sum,
  seekable, total, words, wordPc, word, counted, word_status, disturbed,
  calcPc, expr, calls, source, binary, values_printed, clean, failed

Pipe == INSTANCE Pipeline
  WITH N <- Stages, Input <- PipeInput, Capacity <- PipeSize,
       output <- pipe_output
Links == INSTANCE Chain WITH count <- chainCount
Pair == INSTANCE SocketPair
  WITH Starts <- FirstNumbers, at <- sockAt, open <- open_ends,
       printed <- line
Sum == INSTANCE ParallelSum
  WITH Inputs <- SumInputs, Modulus <- IntModulus, input <- tokens,
       at <- sumAt, i <- joined
Words == INSTANCE WordCount
  WITH pc <- wordPc, i <- word, count <- counted, status <- word_status
Calc == INSTANCE Calculator
  WITH pc <- calcPc, c <- expr, printed <- values_printed

pipeVars ==
  <<version, argv, procs, fds_in, fds_out, pipe_output, started, damaged,
    cut>>
linkVars == <<task, chainCount, limit, links, said>>
pairVars == <<sockAt, num, sock, open_ends, line>>
sumVars == <<given, tokens, sumAt, tmp, sum, joined, global_sum>>
wordVars ==
  <<seekable, total, words, wordPc, word, counted, word_status, disturbed>>
calcVars ==
  <<calcPc, expr, calls, source, binary, values_printed, clean, failed>>
processesVars ==
  <<launched, pipeVars, linkVars, pairVars, sumVars, wordVars, calcVars>>

ProcessesInit ==
  /\ launched \in {"pipe", "chain", "pair", "sum", "words", "calc"}
  /\ launched # "pipe" =>
       version = "inf13-1" /\ argv = [k \in 1 .. Stages |-> "cat"]
  /\ launched # "chain" =>
       /\ task = "inf09-0"
       /\ chainCount = CHOOSE n \in Counts : TRUE
       /\ limit = CHOOSE n \in Limits : TRUE
  /\ launched # "sum" =>
       /\ given = CHOOSE g \in SumInputs : TRUE
       /\ tmp = [t \in Sum!Thread |-> 0]
  /\ launched # "words" =>
       seekable = TRUE /\ total = CHOOSE n \in Texts : TRUE
  /\ launched # "calc" => expr = CHOOSE e \in Exprs : TRUE
  /\ launched # "pair" => line = <<1, CHOOSE n \in FirstNumbers : TRUE>>
  /\ Pipe!Init /\ Links!Init /\ Pair!Init /\ Sum!Init /\ Words!Init
  /\ Calc!Init

PipeNext ==
  launched = "pipe" /\ Pipe!Next
    /\ UNCHANGED <<launched, linkVars, pairVars, sumVars, wordVars, calcVars>>

ChainNext ==
  launched = "chain" /\ Links!Next
    /\ UNCHANGED <<launched, pipeVars, pairVars, sumVars, wordVars, calcVars>>

PairNext ==
  launched = "pair" /\ Pair!Next
    /\ UNCHANGED <<launched, pipeVars, linkVars, sumVars, wordVars, calcVars>>

SumNext ==
  launched = "sum" /\ Sum!Next
    /\ UNCHANGED <<launched, pipeVars, linkVars, pairVars, wordVars, calcVars>>

WordsNext ==
  launched = "words" /\ Words!Next
    /\ UNCHANGED <<launched, pipeVars, linkVars, pairVars, sumVars, calcVars>>

CalcNext ==
  launched = "calc" /\ Calc!Next
    /\ UNCHANGED <<launched, pipeVars, linkVars, pairVars, sumVars, wordVars>>

ProcessesNext ==
  PipeNext \/ ChainNext \/ PairNext \/ SumNext \/ WordsNext \/ CalcNext

(* The kernel runs every process and thread that can run.                  *)
ProcessesFairness ==
  /\ WF_processesVars(PipeNext)
  /\ WF_processesVars(ChainNext)
  /\ WF_processesVars(PairNext)

ProcessesSpec ==
  ProcessesInit /\ [][ProcessesNext]_processesVars /\ ProcessesFairness

-----------------------------------------------------------------------------
(***************************************************************************)
(* A pipeline of inf13 whose commands were all started gives what its      *)
(* commands give one after the other, or, where a pipe was full or a       *)
(* command insisted on the end of its input, a beginning of that; and what *)
(* cannot be executed runs no other command a second time, but in inf13-1. *)
(***************************************************************************)
PipelineComposes == Pipe!OutputIsComposition /\ Pipe!StartedOnce

(***************************************************************************)
(* What several processes or threads compute is what one would: a chain of *)
(* inf09 or inf16-0 says everything in order, the threads of inf16-1 add   *)
(* each number once, the children of inf09-2 count each word once, and a   *)
(* call of inf12-1 prints the value of its own expression.                 *)
(***************************************************************************)
ResultsAreWhole ==
  /\ Links!SaysAll
  /\ Sum!SumIsTotal
  /\ Words!CountsWords
  /\ Calc!PrintsItsValue

(***************************************************************************)
(* The two threads of inf16-2 take turns and both end; a pipeline ends,    *)
(* whatever fails, and a chain leaves nobody behind.                       *)
(***************************************************************************)
AllProceed ==
  /\ Pair!LinesFollow
  /\ launched = "pair" => Pair!BothEnd
  /\ launched = "pipe" => Pipe!PipelineEnds
  /\ launched = "chain" => Links!ChainEnds
=============================================================================
