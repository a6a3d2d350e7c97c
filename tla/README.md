# caos-solutions in TLA+

The repository holds some fifty small programs, one per directory, each beside
the text of the exercise it solves (a file without extension, in Russian). They
share no code. What they have in common is their subject: threads, processes,
signals, sockets, shared memory, files. This project models nearly all of them,
checks the models with TLC, and proves with TLAPS every safety property that a
passing run checks, for every value of the parameters.

## The system and its parts

| part | state | operations | who interacts, and what is hard |
|---|---|---|---|
| lock-free list, `2sem/inf17/inf17-2` | the `next` pointers, a cursor `arg->head` per thread | insert by CAS; join, print, free | N threads and main over shared pointers; stale cursors, a failed CAS, freeing what others point to |
| mutex ring, `2sem/inf17/inf17-0` | an array, a mutex | `+=` on three elements | k threads; `+=` is a load and a store; `%` of a negative number; neighbours that coincide |
| prime generator, `2sem/inf17/inf17-1` | one number, a mutex, a condition variable | find and signal; wait, print, answer | two threads; lost and spurious wake-ups; a wait on a mutex that is not held |
| map on processes, `2sem/inf18/inf18-1` | a shared array, a shared semaphore | fork, compute a stride, post; wait, reap | the caller and its children; failing forks, dying children |
| function server, `2sem/inf19/inf19-1` | a named segment with two semaphores | request, evaluate, respond, end | two processes started independently; uninitialised memory; an unknown function |
| HTTP file server, `2sem/inf14/inf14-1` | three flags, open descriptors | accept, parse, look up, answer, close; signal handler | clients, the kernel, and a handler that runs between any two statements; leaks; broken connections |
| epoll server, `2sem/inf15/inf15-1/prog.c` | flag, array of connections, descriptor table | batch of events: accept, echo, close; final close | clients, the kernel, a handler; batches against reused descriptors, full sockets, a full array |
| its variant, `azattius_server.c` | two flags | the same, without an array | a handler that exits at once or leaves it to the loop; text in hand |
| signal counters, `1sem/inf10` | counters set by handlers | count, add one, negate, print, end | handlers against main and each other; pending signals coalesce; what is cleared after it can be set |
| signal ping-pong, `1sem/inf11/inf11-1` | a number and the sender's pid | answer the next smaller number | processes that do the same; `pid = 0` after the answer has gone out |
| lines by signalfd, `1sem/inf11/inf11-0` | open files | print the next line of a file | real-time signals and their order, the limit of queued ones |
| chains, `1sem/inf09/inf09-0`, `inf09-1`, `2sem/inf16/inf16-0` | one counter per process or thread | make the next, wait for it, print | order of output, failing forks, number of processes |
| word counter, `1sem/inf09/inf09-2` | a count | fork, read a word, wait | children that share an input and buffer it |
| calculator, `1sem/inf12/inf12-1` | two files | write a program, run gcc, run it, remove it | what one call leaves to the next; failing children |
| pipelines, `2sem/inf13/inf13-1`, `-3`, `-4` | two non-blocking pipes | fork, exec, wait, carry over | who closes which end, leftover input, what does not fit, a failing exec |
| counters of a child's output, `2sem/inf13/inf13-0`, `inf13-2` | a pipe, counts | read to the end, count | the end of a pipe whose ends several processes hold |
| parallel sum, `2sem/inf16/inf16-1` | one sum per thread | read and add; join and add | threads on one input; overflow; input that is not a number |
| socket pair, `2sem/inf16/inf16-2` | two sockets | read, change, print or pass on | closing under a sleeping reader |
| epoll counter, `2sem/inf15/inf15-0` | entries, files left | read a batch, count, close | hang-ups without data, files that epoll refuses |
| HTTP clients, `2sem/inf21/inf21-0`, `inf21-1` | a buffer, what remains | send, receive | pieces, unsigned wrap-around, text beyond what was read |
| TCP, ARP, DNS clients, `2sem/inf14/inf14-0`, `inf20` | one socket | ask, take what arrives | loss, repetition, strangers' packets |
| decryption, `2sem/inf22/inf22-1` | header, buffers | read, decrypt, write | pieces, zero bytes in a binary header |
| file splitter, `1sem/inf07/inf07-0` | two buffers | sort characters, flush | one result for two writes, files that exist |
| algorithms on numbers and text, `1sem/inf01`, `inf08-0` | - | saturating sum, classes of doubles, UTF-8 lengths, sets, counts, substrings | boundaries of widths and encodings |
| algorithms on files, `1sem/inf05`, `inf07`, `inf08` | - | lists in files, spiral, executables, matrices, images | boundaries, ends of files, vector remainders |
| assembly, `1sem/inf02`-`inf06` | registers, arrays | sorts, series, line reversal | boundaries, rounding |
| programs of a few calls | - | one library or system call | - |

What makes each part correct:

- list: no insertion lost, duplicated or on a cycle; nothing freed is used; every value printed once;
- ring: no addition lost; `3 * N` printed for every element;
- primes: primes in order, no answer mistaken for a prime, N of them, then the end;
- map: a complete array or none; no zombie; `waitpid` only for own children;
- function server: a call through the segment is a call; no simultaneous access; no segment left behind;
- HTTP server: everyone gets exactly its answer; a signal lets the current connection finish and no other begin, and ends the server;
- epoll servers: the text comes back complete and in order; a descriptor is used only by its owner; a signal ends the server, but not with text in hand, and closes everything;
- signal programs: each signal that became pending has its effect once; the last line shows the value; every number is answered once, and the game ends;
- processes: what several say or compute is what one would; failures end a program and are not taken for results; nobody stays behind;
- streams: whatever the pieces, each byte is used once and for what it is, and the program gets to the end;
- algorithms: the result is that of a definition without the code's bit tricks, index formulas and loops.

## Modules

| module | models | specification it implements |
|---|---|---|
| `AtomicList` | `inf17-2/prog.c` | `AppendLog`: a log that grows at its end and is emitted when complete |
| `MutexRing` | `inf17-0/prog.c` | - |
| `PrimeCondvar` | `inf17-1/prog.c` | - |
| `PMap` | `inf18-1/prog.c` | - |
| `ShmRpc` | `inf19-1/server.c`, `client.c`, `lib.c`, composed | `Rpc`: a sequence of plain calls |
| `HttpServer` | `inf14-1/prog.c` with its clients | - |
| `EpollServer` | `inf15-1/prog.c` with its clients | - |
| `SignalCounter`, `SignalPingPong`, `SignalFd` | `inf10-0` and `inf10-1`; `inf11-1`; `inf11-0` | - |
| `Pipeline`, `Chain`, `SocketPair`, `ParallelSum`, `WordCount`, `Calculator` | `inf13-1`, `-3`, `-4`; `inf09-0`, `inf09-1`, `inf16-0`; `inf16-2`; `inf16-1`; `inf09-2`; `inf12-1` | the definition of the same computation in one process, inside each module |
| `EpollCount`, `VariantServer`, `HttpClient`, `QueryClient`, `Decrypt`, `GccCounter`, `SplitFile` | `inf15-0`; `azattius_server.c`; `inf21-0` and `-1`; `inf14-0`, `inf20-0`, `inf20-1`; `inf22-1`; `inf13-0` and `-2`; `inf07-0` | - |
| `Signals`, `Processes`, `Streams` | the programs of the three rows above, one at a time | - |
| `Loops` | loops as functions: the state after each iteration; powers and values of digits | - |
| `TextAlgorithms`, `DataAlgorithms` | operators: `inf01`, `inf08-0`, names of `inf20-1`; `inf05-3`, `inf05/advanced-2`, `inf07-1`, `inf07-3`, `inf08-1`, `inf08-2` | reference definitions in `Algorithms` |
| `Algorithms` | builds every input of the two within given bounds, symbol by symbol | - |
| `MCProcesses`, `MCStreams`, `MCAlgorithms` | the texts, numbers, files and bounds with which TLC runs `Processes`, `Streams` and `Algorithms` | - |
| `AtomicListProofs`, `MutexRingProofs`, `HttpServerProofs`, `EpollServerProofs` | proofs about the module of that name | - |
| `HandshakeProofs` | proofs about `PrimeCondvar` and `ShmRpc`, the two handshakes | - |
| `ProcessProofs` | proofs about `PMap` and the programs of `Processes` | - |
| `StreamSignalProofs` | proofs about the programs of `Streams` and `Signals` | - |
| `AlgorithmProofs` | proofs about `TextAlgorithms`, `DataAlgorithms` and `Algorithms` | - |

The programs of `Signals`, `Processes` and `Streams` do not interact with each
other. The three modules are sums: an initial choice, `running`, says which
program it is (`launched` in `Processes`, `signalled` in `Signals`), and the
others keep their initial values. So each of them is one
specification with one set of properties, and the state space is the union of
those of its programs, not their product. The variables of the three have
different names, and so have their definitions (`Spec`, `SignalsSpec`,
`ProcessesSpec`, and `PrimesSpec` of `PrimeCondvar`), so that one proof module
can extend several of them.

Every action is the code between two points at which another actor can
interfere: an access to shared memory, a system call, a statement between which
a handler may run. A variable `pc` (`mainPc`, `workerPc`, ...) says which
statement is next; the other variables have the names of the code. Definitions
whose comment begins with "Mutant" are not part of the model: each is a wrong
version of the definition after it, and the property named with it in
`PROJECT.json` fails when it is put in its place.

Correspondence, module by module:

- `AtomicList`. An item is named by the thread and the iteration that allocate
  it (addresses of `malloc` are only ever compared). `Allocate` is lines 20-24,
  `CasSucceeds` and `CasFails` line 25, `Advance` lines 28-29: a second read of
  `next`, after the one of the CAS. `sched_yield` changes nothing.
  `PrintItem` is one turn of lines 61-66, with the `free`.
- `MutexRing`. `Load` and `Store` are the two halves of each `+=`; `stage` says
  which of the three. Amounts are in hundredths, so that 1, 1.01 and 0.99 are
  integers; the rounding of doubles is not modelled. `CRemainder` is the `%` of C.
- `PrimeCondvar`. Each call of a condition variable is its own steps: release
  and sleep, be woken, take the mutex again. The thread calls
  `pthread_cond_wait` without the mutex, which POSIX leaves undefined; the model
  does what glibc's default mutex does, which is not to check its owner. Which
  numbers are prime is left out: `found` counts them.
- `PMap`. `ForkFails` and `Die` are the outcomes that the code does not test.
  `workers[i]` is the pid; that it is a real one when `waitpid` gets it is a
  part of `NoZombies`.
- `ShmRpc`. Each statement on the segment is a step of its own, the three that
  initialise it (server.c:40-42) included: `CopyStructure` copies an uninitialised
  structure over all members, the two semaphores too, which get any of the values
  that matter (`Leftovers`), `InitRequest` and `InitResponse` are the two
  `sem_init`. A client that started early may have posted, got through a `sem_wait`
  (`deceived`) or gone to sleep by then; who sleeps on a semaphore that is made anew
  is not woken by any later post (`asleep`). The library, the name the client opens
  and whether it waits for the name to be printed are chosen in `Init`. `client.c`
  in the repository opens another name than the one `server.c` creates (client.c:22,
  server.c:29) and faults; the model has that client and the one the exercise
  describes.
- `HttpServer`. The handler, `Signal`, may run at every `pc`, and interrupts
  `fscanf` and the `write` of the file if they sleep, because `sa_flags` is 0. A
  response is the sequence of what was passed to `write`. Paths that continue
  without closing the socket leave it in `open`. A `fopen` that fails for want of
  a descriptor is `CannotOpen`.
- `EpollServer`. `WaitReturns` takes everything that is ready as one batch;
  `Echo`, `CloseClient` and the accepts handle its events in any order. `table`
  is the kernel's descriptor table, which gives the lowest free number, so that
  numbers are reused. A reset that `read` reports with -1 ends as one that `write`
  finds, with `SIGPIPE` (`BrokenPipe`), as -1 becomes the length to write. A
  socket takes `Capacity` unread pieces; what does not fit is forgotten, as
  `write_all` does.
- `SignalCounter`. `frames` is the stack of handlers that have begun, as those
  of different signals interrupt each other; an increment is a load and a store,
  and so is a negation, and `printf` gets its argument (`ReadValue`) before it puts
  out the line (`PrintLine`). `overtaken` remembers that the value has changed
  between the two. `pending` is a set, because equal signals coalesce.
  `Send` is the sender, who knows the PID only after it has been printed.
- `SignalPingPong`. The handler is one step (it is not interrupted by its own
  signal) and can come between any two accesses of main to `pid`, `value` and
  `end`. Peers are the same program, seen from outside; a patient one answers only
  when main is back in its loop.
- `SignalFd`. `requests` counts what is queued per signal; the kernel gives the
  lowest number first, so that SIGRTMIN overtakes the rest.
- `Pipeline`. `procs` is a sequence of processes because in `inf13-1` a child
  whose `execlp` fails goes on as a second parent. A command is a function of
  what it can read (`Written`), and runs alone, as the parent waits for it. Only the
  first command meets the end of its input: the writing end of `fds_out` stays open
  in the parent and in the command, so that the last read of all others fails with
  `EAGAIN`. `Outcome` says what that makes of a command; "tac", which needs all of
  its input before it writes, stands for those that give up.
- `Chain`. Three programs with the same control; `limit` is how many processes
  there may be.
- `SocketPair`. Each `read` and `write` is a step; a closed socket ends both.
- `ParallelSum`. One `scanf` is a step, as it locks the stream; `tmp` is
  uninitialised at first and keeps its value when `scanf` fails.
- `WordCount`. A block of `Block` words is buffered by the child that reads it;
  the rest goes back at exit if the input can be repositioned.
- `Calculator`. The state is what is left in the two files; any child may fail,
  and the call may be killed between two of them.
- `EpollCount`. Writers write and hang up; what epoll reports of an input depends
  on its `kind`.
- `VariantServer`. `now_processed` and `sig_sent` are the flags of the handler;
  `Signal` runs at every `pc`.
- `HttpClient`. What was received is a length, and what the buffer holds after
  it may be read as text too; `content_length` is modulo `Modulus`. In the upload
  the file may be shorter or longer than `stat` said, and a `read` or a `send` that
  returns -1 is taken for a number of bytes (`FileFails`, `SendFails`): the unsigned
  `total_bytes` goes back or wraps around, the place in the block goes back, perhaps
  before its beginning.
- `QueryClient`. Each answer is two halves, so that it may be cut; the network
  loses, repeats and delivers what is for others. Any call may fail: three of the
  programs end, `azatiuss` and `azzatiuss` print what they have and go on.
- `Decrypt`. `buf` says which byte of the header each place holds. A `read` of the
  header or a `write` that returns -1 makes what remains one greater.
- `GccCounter`. A message is a line number and a kind; the pipe ends when both
  copies of the writing end are closed. `upper` says whether the half of `tmp_str`
  that `%u` does not store happens to hold something: then no line is the last one.
- `SplitFile`. `status` is the one variable that has the results of both writes.
  An output that exists is opened if it may be written (`denied` are those that may
  not), and keeps what is beyond the new text (`existing`, `File`).
  The buffers and the files hold places of the input, so that two equal characters
  that change places are two different results.
- `TextAlgorithms`, `DataAlgorithms`. The variables of a loop are a number or a
  record, one turn of the loop is an operator (`count_digit`, `read_symbol`,
  `count_byte`, `search`, `pack_label`, `walk_posix`, `check_file`, `add_products`),
  and `After` of `Loops` gives the variables after each turn. A turn behind the
  end of the loop changes nothing, so that the number of turns need only be large
  enough. A walk through a list, which may be a circle, gets its number of turns as
  a parameter. Integers have their width, as a parameter. A number of `inf01-1` is
  its bits, with the sign first, and has ten classes. The lists of `inf07-1` and
  `inf08-1` are files of words. Behind the end the version with `mmap` finds zeros up
  to the end of a page, and then another mapping's word or its death; the one with
  WINAPI gives `SetFilePointer` a signed offset, so that it reads on where a pointer
  is `Half` (2^31) or more. A file of `inf07-3` is whether it opens, may be executed
  and can be read, its content as a sequence of parts, and what the program's
  buffers, never cleared, hold behind that; `rejected` is the chain of its checks.
  `Algorithms` states what each should give, by another definition.

External, modelled from how the code uses them: clients (`Connect`, `Send`,
`Read`, `HangUp`), the listen queue, the descriptor table, socket and pipe
buffers, spurious wake-ups, pending signals and their senders, writers of pipes,
the commands of a pipeline, gcc, networks and the servers behind them.

## Runs

Passing runs:

| run | instance | what it shows |
|---|---|---|
| `atomic_list` | 2 threads, 3 items each | the list is a chain with every published item (`ListIntact`), `NoUseAfterFree`, `PrintsEveryValueOnce`, refinement of `AppendLog`, termination |
| `mutex_ring` | N = 2, k = 3 | `NothingLost`, `PrintsThreeN`, termination |
| `pmap` | 3 workers, 5 elements, anything may fail | `ResultComplete`, `NoZombies`, and `Returns` unless something failed |
| `http_server` | 2 clients, 4 kinds of request, 2 signals, 2 descriptors | `AnsweredInFull`, `AtMostOneLate`, `BusySignalEnds` |
| `epoll_server` | 3 clients, 1 client descriptor, array of 2, 2 pieces, sockets of 1 | `DescriptorIsOwn`, `ClosesEverything` (which also bounds the array), `EchoInOrder`, `SignalOutsideWindowEnds`, `EveryPieceReturns` |
| `prime_condvar` | 3 primes wanted of 2, 3 or 5, with and without spurious wake-ups | `PrintsPrimesInOrder`, `ExclusiveAfterHandshake`, `CompletesAfterHandshake`, `StopsOnlyWhenTold` |
| `shm_rpc` | 10 calls, two libraries, two names, patient or not | `TakeTurns`, refinement of `Rpc` |
| `signals` | each signal twice, two peers, two requests | `CountersAreRight`, `TurnsAreKept`, `SignalsAreHeard` |
| `processes` (`MCProcesses`) | 3 commands, chains of 4, 3 threads, 5 words, 3 calls | `PipelineComposes`, `ResultsAreWhole`, `AllProceed` |
| `streams` (`MCStreams`) | 3 inputs, 2 clients, answers and files of a few pieces, up to 2 failing calls of a kind | `StreamsAreWhole`, `AnsweredBeforeExit`, `SignalEndsServer`, `StreamsEnd` |
| `algorithms` (`MCAlgorithms`) | inputs of up to 13 symbols | `TextIsRight`, `DataIsRight` |

A property of the last four runs is the conjunction of one property per program:

| property | conjuncts |
|---|---|
| `CountersAreRight` | `CountsAccepted` (`inf10-0` counts at least the SIGINTs that became pending in its loop, and no more than were sent), `LastLineIsValue` (`inf10-1`) |
| `TurnsAreKept` | `AnswersInTurn`, `PatientPeerIsHeard` (`inf11-1`) |
| `SignalsAreHeard` | `TermEnds`, `PlaysToZero`, `StopEnds` |
| `PipelineComposes` | `OutputIsComposition`, `StartedOnce` |
| `ResultsAreWhole` | `SaysAll` (chains), `SumIsTotal`, `CountsWords`, `PrintsItsValue` (calculator) |
| `AllProceed` | `LinesFollow` and `BothEnd` (socket pair), `PipelineEnds`, `ChainEnds` |
| `StreamsAreWhole` | `CountsEverything` (`inf15-0`), `PrintsBody`, `UploadsFile`, `AnswersMatch`, `DecryptsAll`, `CountsLines`, `SplitsInput` |
| `SignalEndsServer` | `NoBatchAfterSignal`, `SigtermEnds` (`azattius_server.c`) |
| `StreamsEnd` | `CountReturns`, `ClientEnds`, `QueriesEnd`, `CounterEnds` |
| `TextIsRight` | `SumSaturates`, `ClassifiesNumbers`, `BytesSuffice`, `SetsByElement`, `CountsSymbols`, `FindsOccurrences`, `QueryNamesHost` |
| `DataIsRight` | `ListsAreFollowed`, `SpiralTurns`, `CellsFillFile`, `ReportsInvalid`, `ProductIsWhole`, `BlendsEveryPixel` |

One run finds what a text of the repository denies: in `http_finishes_accepted`
a signal between the return of `accept` and `accepting = 0`
(`inf14-1/prog.c:76-77`) makes the handler exit with a connection in hand.

The models show further behaviours that differ from the exercises, without a
run of their own. The properties above name them as their exceptions, so that
they hold whatever else happens.

- `inf14-1`: every 404 and 403 leaks a descriptor (lines 101-108), and when none
  is left the answer is 404 for a file that exists (110-113); a signal between
  `while (!end)` and `accepting = 1` (74-75) leaves the server asleep until the
  next client; a signal that interrupts `fscanf` is taken for a malformed
  request (86); a write of the file that is interrupted leaves a gap (129); the
  answer does not wait for the empty line (86); `SIGPIPE` ends the server, and
  `inf15-1` too.
- `inf15-1`: `conn_num` is never decremented (164), so that clients are refused
  although others have gone; a signal just before `epoll_wait` (151-152) is not
  seen until the next event; `write_all` drops what a full socket does not take
  (37-40), and so does `azattius_server.c`.
- `inf15-0`: one pipe that hangs up without data ends the count of all (84); a
  regular file, which epoll does not accept, is waited for for ever.
- `inf17-1`: a signal before main waits is lost, and both threads wait for ever
  (30, 66); a spurious wake-up makes main print 0, 1 or a prime twice (66).
- `inf19-1`: an unknown function ends the server without `shm_unlink`
  (`server.c:52-55`); a client that starts before the segment is initialised
  (40-42) may fault, lose its request, wait for ever or, if the uninitialised
  structure lets it through a `sem_wait`, run a call ahead of the server and take
  the result of one call for that of the next.
- `inf10-0`: SIGINTs before `counter = 0` (41) are lost; `inf10-1`: a SIGTERM
  before `end = 0` (52) is lost; a handler between the load of `value` for `printf`
  and its output (23-24) prints the newer value first, and the older one stays last.
- `inf11-1`: an answer that is handled between `sigqueue` and `pid = 0` (48) is
  forgotten, and everyone waits for ever.
- `inf13-1`: a child whose `execlp` fails runs the rest of the pipeline a second
  time (30); in all three what a pipe does not hold is lost, what a
  command leaves unread the next one reads, and a command that wants the end of its
  input, as `sort` does, gets an error in its place from the second stage on, as the
  parent and the command itself hold the writing end (`inf13-3`: 14-24). The task
  `pipe-connect-n-processes` asks for what the shell would give.
- `inf09-2`: a fork that fails is taken for the last word (19); with a pipe as
  input, words buffered by a child are lost.
- `inf12-1`: after an expression that gcc rejects the `a.out` of the call before
  is run; `programm.c` keeps the end of a longer text if it was not removed (32).
- `inf13-2`: whether each line counts once depends on 32 bits that nobody
  initialises (31, 43-52).
- `inf20`, `inf14-0`: one lost or repeated answer shifts all lines after it; the
  second versions of ARP and DNS print something also if nothing was received.
- `inf21-0`: text after the answer in the uninitialised buffer is printed and
  counted (101), so that `content_length` wraps around; `inf21-1` goes on for
  ever when the file has become shorter; a `read` of -1 at its beginning ends the
  upload with nothing sent (104-105), and a `send` of -1 sends a byte again (108-110).
- `inf22-1`: a zero byte in the salt moves the next piece of the header (25); a
  `read` of -1 makes the header take a byte of the body, a `write` of -1 (69-71)
  writes a byte again, or one from before the text.
- `inf07-0`: the failure of the first write is hidden by the second (61); a zero
  byte is overwritten; a second call cannot open the files the first has created,
  and the end of an older, longer file stays behind the new text (13-17).
- `inf07-3`: no file is closed (22), so that nothing is reported when descriptors
  have run out. What cannot be read, a directory included, is reported; so are a
  script with a space before its interpreter or an argument after it (41), and one
  without an end of line where the buffer holds something else behind its name. A
  directory passes for an interpreter, and a file of one or two bytes may be
  completed by what an earlier one left in the buffer.
- `inf07-1`, Windows: a pointer of 2^31 or more leads to the item behind (26).
  `inf08-1` takes the pointer -1 for the first item (37), and dies, or reads what is
  mapped next, where an item without a pointer ends the file and a page (47).
- `inf05/advanced-2` divides by zero where the last pixel of an odd number is
  transparent in both images; `inf01-5` takes 0xDF and 0xEF for the beginning of
  longer sequences (24); `inf01-4` forgets a set at every symbol that is no letter
  (31), so that "ab~&" gives nothing where `bitset-calc`, which speaks of the last
  set read, makes it a and b.

### Bounds

- `AtomicList`: with two threads one cursor lags behind by up to three items of
  the other, so a CAS fails repeatedly and is retried from the middle. All
  numbers of threads and items are covered by the proofs.
- `MutexRing`: three threads have three different neighbours and all indices
  wrap. k = 1 and k = 2, where neighbours coincide, are covered by the proofs.
- `PMap`: five elements for three workers are an uneven number of strides; a
  fork or a worker can fail first, in the middle and last.
- `HttpServer`: two clients, as the server handles one at a time and the other
  waits; a file of two blocks and sockets of two writes, so that the writes of
  the file block; two signals, as the second may find the state the first left.
  `MaxFiles = 2` is reached by leaks, so that `accept` and `fopen` fail.
- `EpollServer`: one client descriptor makes every reuse that can happen happen;
  the third client meets a full array; two pieces overflow a socket of one.
- `PrimeCondvar`: fewer, exactly as many, and more primes than wanted.
- `ShmRpc`: `PerFunction = 5` is the number in the code; `Leftovers` of 0 and 1 are
  what a `sem_wait` tells apart, but for semaphores that let several through.
- `Signals`: of two signals of one number the second coalesces with the first,
  interrupts what the first has interrupted or comes after it; with two peers, one
  patient and one not, answers replace each other, and from 3 or 4 the numbers
  go down past the window twice. Files of two lines and one: one ends before the other.
- `Processes`: of three commands the second both reads from and writes to a
  pipe; `PipeSize = 4` is exceeded by "twice" after "twice" of two items. Chains
  are empty, single and longer than two, below and above the `Limits`. `Starts`
  hold numbers from which 0 is reached by either thread, numbers on both sides of
  100, and one beyond. `Modulus = 4` makes the sum of three numbers wrap around.
  Texts are shorter than, as long as and longer than `MAX_NUM_OF_WORDS`, with
  blocks of two, so that the last one is full or not. `SumInputs` are three numbers,
  one of them negative, for three threads, one number before what is none, and
  nothing. Three calls: the second finds what the first left, the third what a
  failed one left.
- `Streams`: with three inputs, one ends, one hangs up and one still writes.
  Buffers of two and three are smaller than what goes through them and do not
  divide it; `Modulus = 8` is reached by a content length below 0. `HttpBodies` are a
  page, a page with a zero byte and an empty one; of the two `SplitInputs` one fills
  the buffer of the other characters. `MaxErrors = 2` failing calls take the place in
  a block back beyond its beginning, and more reads may fail than the file has
  bytes; `OldSizes` are none, and longer than some of what is written.
- `Algorithms`: `Width = 4`, three bits of exponent and of mantissa have all
  the classes and carries of the wider ones; 13 elements are vectors of 8 and
  of 4 and one left over; a list of three items in six words has every cycle
  and every pointer past the end. Symbols in UTF-8 have every length and begin
  with the bytes on the borders of the code's comparisons. `Page = 3` makes files
  that end with a page in the middle of an item, and others that do not; `Half = 6`
  is less than -1 and more than every place in the file. `Files` have every prefix
  of a script and of an ELF file, and stale buffers that complete them; of three
  files the last meets `Descriptors = 2`. The proofs cover all other bounds.

No state constraint is used anywhere: the bounds are parameters of the
programs or of their environment.

`CHECK_DEADLOCK FALSE` stands where the system may really stop: `pmap_process`
whose worker was killed, the two threads that wait for each other, a client
whose server has gone, an exited server, a program of the last four runs that
has ended. The other models have an explicit stuttering step for the process that
has ended or sleeps.

### Fairness

The kernel schedules every process and thread that can run: weak fairness of
each thread's next step (`MainStep`, `ThreadStep(t)`, ...). Nothing fails by
fairness: forks, deaths, signals, hang-ups and spurious wake-ups are never
forced, and clients need not connect. `HttpServer` also assumes that a connected
client sends its request and reads its answer; without that the server, which
has no time-outs, is stuck with it. Neither mutexes nor CAS need strong
fairness: whoever is passed over gets its turn when the others have done their
finitely many iterations.

In the sums each program's own steps are fair (`Step`, or the whole of its `Next`
where it has no environment), under the condition that it is the one that runs.
Servers answer what they are asked, if nothing is lost; nobody is forced to
write, to hang up, to send a signal or to fail.

## Proofs

All theorems hold for every value of the constants that the `ASSUME`s of the modules
allow: `N, K` natural and `N > 0` (list), `N` natural and `k > 0` (ring), `Procnum >
0` and any `Count` (map), `PerFunction > 0` and libraries of known functions
(segment), finite sets of clients and positive bounds (servers), any `N` and any set
of `Totals` (primes). For the programs of the sums, in the order of their modules:
first numbers are integers and "none", which stands for no peer, is not one of the
peers (`Signals`); a pipeline has at least one command, there is at least one
thread, an `int` has at least one value, a block at least one word, and the user may
have at least the process that begins (`Processes`); the length of a body can be
held by the integer that counts it, gcc numbers lines from 0 on, and there is a file
to decrypt (`Streams`). Everything else is any natural number, any finite sequence
or any set, the empty one included. Each proof module has, for every program, one
invariant, a conjunction of named parts, proved inductive by one lemma per part or
per group of actions.

**AtomicListProofs.** `TypeCorrect`, `ListIsChain`, `NoThreadReadsFreed`,
`OutputIsComplete`. That the next pointers form a chain is not inductive by itself,
as an insertion starts from a cursor: the invariant `IInv` says that there is a
sequence of addresses from the sentinel to the only `Null` which holds each
published item once, each thread's in order, that every cursor is on it, and that
what main has printed is a prefix of it. A successful CAS extends the sequence by
one, since only its last address has a `Null` to compare equal with. Cursors stay
valid because main frees only after the last join. `NoInsertionIsLost` is
`ListIntact`, which walks the pointers: `Hops[j]`, where j hops lead, is a recursive
function, and it is what the chain says, as there is no least j at which they differ
(`HopsAreUnique`, by `WFMin` of WellFoundedInduction). `StepsOfAppendLog`: with the
same chain every successful CAS is the log's append, every `PrintItem` its emission
of the next value, and all else leaves the log alone. So the safety part of the
refinement holds for any number of threads.

**MutexRingProofs.** `TypeCorrect`, `NoLostUpdate`, `ResultIsThreeN`. The invariant
adds to `NothingLost` that the threads between lock and unlock are exactly the owner
(`Holding`), that what a thread has loaded is still what the element holds
(`Fresh`), and that outside the lock iterations are whole (`WholeIterations`).
`RightIsSucc` and `LeftIsPred` say that the index arithmetic of the code, with C's
remainder, is the ring's for every k.

**HttpServerProofs.** `TypeCorrect`, `OneLate`, `Answered`. `ControlInv` says where
main can be when the flags are what they are; `LateInv` that a connection accepted
after a signal is followed by a test of `end` before the next `accept`; `QueueInv`
that a client waits in the queue once, before everything else; `AnswerInv` what the
client in hand has been sent, as far as `pc` says (`InHand`), and those that were
let go (`LetGo`): their answer, after they had sent a request, as otherwise one
could still come that nobody answers.

**EpollServerProofs.** `TypeCorrect`, `OwnDescriptors`, `AllClosed`, `InOrder`. The
flag of a `data_t` is what makes reuse of descriptors safe: `TableInv` says that a
number in the kernel's table leads back to the one `data_t` that is not marked
closed, so that the marked ones may hold any number. `QueueInv`: a client is in the
listen queue once, and then it has never had a descriptor. `PieceInv`: the pieces
that were echoed, followed by those not yet read, are increasing.

**HandshakeProofs.** Of the prime generator `PrimesTypeCorrect`, `PrimesInOrder`,
`TakesTurns`, `StopsWhenTold`, from the invariant `PrimesInv`. After the first
handshake the two program counters can stand only at certain pairs of statements,
which follow each other in a circle (`TurnInv`). Without spurious wake-ups a thread
that has been woken finds the other at, or past, the statement where it waits, which
fixes how far the search is ahead of what is printed (`OrderInv`), even before a
handshake and when a wake-up is lost, as then nobody moves. `CountInv` says when
`prime_num = 0` is main's last word.

Of the function server `CallsTypeCorrect`, `Exclusive`, `StepsOfRpc`, from the
invariant `CallsInv`. The two semaphores and the server's `pc` are one token: of "a
request is posted", "the server works on it" and "a response is posted" at most one
holds, and none unless the client is in its `sem_wait` (`TokenInv`). That is so also
for a client that comes between the statements of the set-up, whose post may be
wiped out by the next of them, until a `sem_wait` on a semaphore that has not been
made returns (`deceived`): then there may be two tokens for ever. For a client that
waits for the name the contents of the segment follow the token (`PatientInv`).
`StepsOfRpc`: under the refinement mapping of `ShmRpc` every step is one of `Rpc` or
leaves its variables alone; a client that does not wait is mapped to a sequence of
calls that has broken off.

**StreamSignalProofs.** One section per program. The last step is the same in all:
the program's steps preserve its invariant, the others leave its variables alone, so
the invariant holds in the sum, and with it the conjunct about this program.

*Streams*: `ServerAnswersBeforeExit`, `NoBatchBegins`, `StreamsStayWhole`. For the
variant server `ServerInv` says that `now_processed` covers every statement at which
there is text in hand, and that what a client sent is what came back, what is in
hand and what is unread, unless something was dropped; `SignalIsSeen` that after a
signal it is neither at `epoll_wait` nor just behind it, as the handler lets it live
only within a batch. `CounterInv`: per input, what was counted and what is unread is
what was written, a batch names each open input at most once, and `EPOLLHUP` alone
is reported only for a pipe with nothing left. `HttpInv`: what was read of the body
has been printed, and `content_length` is the rest of it; `UploadInv`: what has left
the file has been sent or is among the last `tmp_bytes` of the block, whatever calls
return -1, and in order as long as no send does. `QueryInv`: as long as nothing is
lost, repeated or foreign, what is on its way or has arrived is the answer to the
question asked last (`Awaited`), whole or in halves, and when the next is asked
there is none. `CipherInv`: without a zero byte in it the header stands where it
belongs as far as it was read; what follows it, but for a byte per failing read, is
decrypted, and written up to where `need_to_write` says, once if no write fails.
`GccInv`: the pipe holds the end of the output, and the counters the lines up to
there, or the messages if `tmp_str` has other bits at its top. `SplitInv`: file and
buffer together are the places of the input's characters of their class, in order,
up to where it has been read.

*Signals*: `TurnsStayKept`, `CountersStayRight`. `PlayInv` of the ping-pong says
that, until an answer is forgotten, a peer's last number is in one place only
(`OnePlace`: in the queue of signals, in the hands of main or answered), that a peer
that has not begun is nowhere (`NewIsQuiet`), that main never answers nobody
(`MainHasPeer`), and that of a patient peer that plays alone no signal waits while
main is between `sigqueue` and `pid = 0` (`PatientWaits`). `HandlersInv` is about
the stack of handlers: a signal has one frame at most, since its handler blocks it
(`OneFrameEach`); an accepted SIGINT is counted, pending, or in a handler that has
not stored yet, and what that one has loaded is still the value (`SigintInv`), which
is why an increment loses nothing though it is two accesses; and, unless the value
has changed behind the back of a handler that prints, what such a handler has read
is the value, and if the last line does not show the value, a handler is about to
print (`ShownInv`).

**ProcessProofs.** Of `PMap` `TypeCorrect`, `NoHoles`, `ChildrenCollected`. The
invariant counts: the posts of the workers that have finished their stride are the
semaphore's value plus the waits done. When `Procnum` waits are done there were
`Procnum` posts, so every worker was forked and finished, and strides cover the
array.

Of `Processes`, with one section per program: `ResultsStayWhole`,
`PipelinesCompose`, `LinesAlwaysFollow`.

- Calculator (`CalcInv`): what the next child finds in the two files, per `pc`.
- Word counter (`WordsInv`): children have read whole blocks; that their number
  comes out as the number of words needs the lemmas on division.
- Parallel sum (`SumInv`): `NothingLost` says that what all threads owe (their sums,
  and the number each has read and not added) is, but for multiples of the modulus,
  what was read, and `global_sum` what the joined ones owe. Both are prefix sums
  whose existence the invariant states, one function over the threads and one over
  the numbers; the latter is then `Total`. Lemmas on congruence (`Same`) stand for
  the `%` at every addition.
- Chains (`ChainInv`): either the last link runs, all others wait and nobody has
  spoken (`GoesDown`), or the links from some m on have ended and said what they had
  to say (`CameBackTo(m)`).
- Pipelines (`PipeInv`): where no child goes on with the loop (`inf13-3`, or all
  commands exist) there is one process, at some stage, and the pipe that the stage
  reads or has written holds what the commands so far make of the input, or a
  beginning of it, and all of it as long as no pipe was full and no command missed
  the end of its input. A beginning is enough because every command makes a
  beginning of its output of a beginning of its input, but those that wait for the
  end, which write nothing. `Composes` says this by the existence of the texts, one
  per stage, and `Composition` has the same values, as there is no least stage at
  which they differ.
- Socket pair (`PairInv`): the number printed last waits for the other thread, or
  the other has taken and changed it, or it has not been sent yet, or it was the
  last. `LinesAlwaysFollow` is an action property, the safety part of `AllProceed`.

**AlgorithmProofs.** `TextCorrect` and `DataCorrect`: in every state of `Algorithms`
every program has computed what the other definition gives, for inputs of any
length, numbers of any width and files of any size. `Most`, the bounds of the
lengths, are any natural numbers, but a domain name has less than 256 bytes: the
program reads it into a buffer of 200, and the length of a label is one byte. Digits
are hexadecimal, letters are not operators, the parts of a text are symbols of UTF-8
or stray bytes, a byte of a name is not 0, colours are at most `Opaque`, and a page
has at least one word. The input is of the right type (`TypeCorrect`), and the rest
are theorems about the functions alone, which do not need the bounds:

- `Loop` says that the variables of a loop stay in their set if every turn keeps
  them there, and that each turn makes the next state. What holds after every turn
  is proved through the set of the turns after which it holds: a set that has 0 and
  every successor up to n has every number up to n (`Induction`), as there is no
  least one outside, by the order on natural numbers of `WellFoundedInduction`. So
  no theorem needs an operator as its parameter;
- `SatsumIsMin`, `NumbersAreClassified`, `MinBytesSuffice`: numbers of any width. A
  number is its sign, exponent and mantissa times powers of two (`ValueSplit`), and
  shifts are division and remainder by those (`BitFields`), so that each branch, for
  either sign, tests what the reference tests bit by bit. `min_bytes` counts
  hexadecimal digits from the first that is not 0; the value lies between the powers
  of 16 that the count gives;
- `SetsAreByElement`: the invariant is about one letter. The set read last, of which
  the task speaks, is the one in the program's variable at every operator that uses
  it, if such an operator comes right after the set (`InOrder`);
- `SymbolsAreCounted`: after each symbol the counters are those of the symbols so
  far and nothing is expected (`ValidAreCounted`); after a stray byte nothing
  changes (`NothingCounted`). After a symbol that begins with 0xDF or 0xEF, whose
  comparison in the code is off by one, one more byte is expected, and the next
  symbol ends the count;
- `OccurrencesAreFound`: what has been printed are all occurrences before the place
  where the next search begins, in order;
- `QueriesNameHosts`: up to a border between two labels the query is the name with
  every dot, and the beginning, replaced by a length (`Coded`), whichever of the two
  loops wrote it. A reader goes from border to border too, and has the name up to
  there (`Reads`); behind the last one it finds a 0;
- `PosixFollows`, `MmapAgrees`, `WinapiAgrees`: the places printed so far are linked
  by pointers, and the next one is where the program goes (`Followed`). The programs
  take the same steps as long as their readings of a pointer agree. Without the
  pointer -1 the one with mmap has no other way, up to an item that lacks its
  pointer at the end of a page: there they part (`Parted`), and what it prints
  begins with what the other one does. In a file of whole items the version for
  Windows can read every pointer, and does what the other would in the file where
  each negative pointer is the place behind it (`ReadOn`);
- `InvalidAreFound`: the checks of the program are compared with what makes a file
  executable (`CanRun`), part by part; that they agree on all files but those that
  `MayMiss` and `MayAlarm` name is the lemma on one file. The loop goes on until the
  descriptors have run out;
- `SpiralIsTurned`: on each ring from x to t the numbers are those from
  `FirstOnRing(x, t)` on, first to the right and down, then to the left and up, and
  the next ring goes on beside its last one (`RingNumber`, `NextRing`). `SpiralStep`
  goes through the sides and corners of a ring and says where the next number is,
  and the one after it, and which cells ahead are used or outside. That every number
  has one cell follows by going from each number to the next;
- `CellsArePlaced`, `LenCountsDigits`: division by the length of a line and of a
  cell finds the cell of every byte; a number divided by 10 has one digit less;
- `ProductsAddUp`: the sum so far is the product of the vectors' beginnings, which
  is extended by eight, four or one element;
- `BlendIsUniform`: the integer formula of the last pixel is that of the vectors, as
  a quotient by `top` of a multiple of `top` and a rest; both stay within a byte.

Only model-checked:

- termination and the other liveness properties (`Terminates`, `Returns`,
  `BusySignalEnds`, `SignalOutsideWindowEnds`, `EveryPieceReturns`,
  `CompletesAfterHandshake`, `SignalsAreHeard`, `StreamsEnd`, and of `AllProceed`
  all but `LinesFollow`), and so the fairness part of both refinements: fairness is
  beyond the prover;
- of `SignalEndsServer` (the variant server) the conjunct `SigtermEnds`, which is
  liveness; the other one, `NoBatchAfterSignal`, is the theorem `NoBatchBegins`;
- that the ends of the programs' loops are reached (a walk through a list that is a
  circle has no end), and `http_finishes_accepted`, a run with a counterexample.

## Not modelled

- Failures the code has no path for in the modelled programs: `malloc`,
  `pthread_create`, `mmap` and the set-up of sockets succeed.
- Texts: headers, paths, `toupper`, formats, messages of gcc. The 403 and 404
  answers without `Content-Length` are one item of a response.
- Writes of `inf07-0` that take a part only. Files of `inf07-1` and `inf08-1` whose
  length, and pointers that, are no multiples of 4 bytes. The second `ReadFile` of
  the Windows version has no place for a count, which older versions of Windows
  refuse; the model is of those that do not.
- Whether what `inf08-1` has printed is still in a buffer when it dies. Named pipes
  and devices among the files of `inf07-3`, and names of 4096 bytes.
- The arithmetic of `is_prime` and of doubles, and rounding in the vector
  programs, which are exact here; the cipher of `inf22-1`; padding, permissions
  and names in files; the fields of ARP and DNS packets other than the name.
- An empty line for `inf12-1`; stack sizes in `inf16-1`, which the code sets and
  does not use.
- Programs of a few calls (`inf01-0`, `inf07-2`, `inf07-4`, `inf12-0`, `inf18-0`,
  `inf19-0`, `inf21-2`, `inf22-0`): nothing is shared, and no two pieces of state are
  related.
- Assembly (`1sem/inf02`-`inf06`): single functions without a program around
  them; in the floating-point ones only rounding could go wrong.
- `2sem/inf18/inf18-2` is an empty program and `inf19-2` an exercise without one.

## Plan

What could be added:

- The index arithmetic of `inf05-3` and `advanced-2` beyond a row or an image: how
  matrices are stored, and rows that are padded.
