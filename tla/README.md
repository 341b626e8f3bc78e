# A TLA+ verification of HPC_Communication

The repository is a collection of programs of an operating systems, networks and
compilers course. They share no code across directories, and so this project has one
family of modules for each of them: a module that models the program, a module that
instantiates it for TLC, and, where there is something to prove, a module of proofs
checked by TLAPS.

Contents:

1. [Inventory](#1-inventory) – components, state, operations, interactions, hard behaviours
2. [Modules](#2-modules) – which module models what, and how its state corresponds to the code
3. [Runs](#3-runs) – what is checked, the bounds, why they are enough
4. [Fairness and deadlock](#4-fairness-and-deadlock)
5. [Theorems](#5-theorems) – what is proved, from what, by which invariant
6. [Only model-checked](#6-only-model-checked)
7. [Findings](#7-findings)
8. [Abstractions and what is left out](#8-abstractions-and-what-is-left-out)
9. [Plan](#9-plan)

To check: `tlc -config X.cfg M` for a row of the table in section 3, `tlapm M.tla` for the
eight `*Proofs` modules.

## 1. Inventory

### CPU scheduling functions (`src/CacheQueue`)

| | |
|---|---|
| state | two processes, each with a first CPU burst, an I/O burst and a second CPU burst (`x,y,z`), `state1/2`, `cpuLeft1/2`, `ioLeft1/2`, the time `i`, `rr`'s `qleft`, and two output strings `s1, s2` with a character for each unit of time |
| operations | `fcfs`, `sjf`, `psjf`, `rr`: one loop each, copied and edited by hand; `display` evaluates the strings |
| interaction | `runall.c` allocates buffers of `6*MAX_INDEX` bytes, and calls all functions for all burst lengths |
| hard | what the phases of one loop body do to each other: a completed burst, a quantum that expires, I/O that completes and a dispatch happen in the same unit of time, and each sees what the ones before it have just written |
| correct if | one processor is shared without loss, each policy is kept, nothing is written outside the strings and what they say is consistent |

### Threaded make (`src/CPUSchedulingProject/assign4`)

| | |
|---|---|
| state | main's loop, one thread per file, the processes forked for `gcc -c` and for the linker, the static `count` and `i` of `makelib.c` and `countlock` |
| operations | `main` of `makethread.c` and `makethreadreturn(1).c`, `threadcompile`, `threadcompilereturn`, `compile`, `getcount`, `getvalue` |
| interaction | threads share `count`, `i` and the children of the process: `r_wait(&status)` collects any child |
| hard | threads collect each other's `gcc`; a shared counter; a child that cannot `exec` returns into a copy of its thread |
| correct if | nobody waits for a child that does not exist, the count is right, the linker starts after all compiles, main ends |

### Compile server (`src/CPUSchedulingProject/assign5/compileserver.c`)

| | |
|---|---|
| state | the connections, the descriptors that each process holds, the parent's place in its loop, a child for each connection and a grandchild that becomes `gcc` |
| operations | accept, fork, close, reap; read, compile, answer, close; exec |
| interaction | bytes to and from clients; exit statuses between processes |
| hard | inherited descriptors; every fault of `fork`, `malloc`, `exec`; a grandchild that runs on in the child's code; clients that never send or go away |
| correct if | each connection gets one verdict, the right one; nobody waits for ever; nobody is kept from being accepted |

### Network compile client (`src/CPUSchedulingProject/assign5/networkcompile.c`)

| | |
|---|---|
| state | main's loop, `flag`, one `conn_para` for all threads, one thread per file, what each returns |
| operations | `main`, `threadconnect`, forking the linker |
| interaction | with its own threads through `conn_para` and the joined pointers, with the server through connections |
| hard | one parameter block overwritten while threads start; NULL results; the end of a connection taken for a byte |
| correct if | it links only when every file was compiled, sends the files it was given, and ends |

### Threaded sort (`src/MultiThreadSortInC`)

| | |
|---|---|
| state | two half arrays, the whole array, indices, three threads |
| operations | `main`, `SortingThread` (an exchange sort), `MergeTwoItems` |
| hard | no lock: only the joins order the merge after the sorts; indices that count down to -1; an empty first half |
| correct if | what is printed is sorted and a permutation of the arguments, and main returns |

### Serial make (`makeserial.c` of assign3, assign4 and assign5)

| | |
|---|---|
| state | the loop over the files, the child that runs `gcc` |
| operations | `main`, `compile` |
| hard | a child whose `exec` failed returns into `main` and ends with 0, which counts as compiled |
| correct if | it goes on past no failure, links last, and ends |

### Restart library (`assign5/restart.c`; `readline.c` of assign3 and assign4)

| | |
|---|---|
| state | the call in progress: its function, buffer, size and deadline; the descriptor's bytes and its other end; the clock |
| operations | `r_read`, `readline`, `readblock`, `readwriteblock`, `r_write`, `add2currenttime`, `gettimeout`, `waitfdtimed`, `readtimed`, the `r_*` repeats of `close`, `dup2`, `open`, `wait`, `waitpid`; `copyfile` and `readwrite` (in Relay) |
| interaction | every program of assign5 reads and writes through it |
| hard | partial reads and writes, signals in the middle of them, an end of the stream in the middle of a line or block, deadlines in seconds and microseconds |
| correct if | each call takes a whole piece or fails, what is copied is what was read, and a timed call gives up at its deadline |

### UICI and the relays (`assign5/uici.c`, `copy2files.c`, the `client*.c`, `server*.c`, `reflect*.c`)

| | |
|---|---|
| state | the stream of a connection, in both directions and full or not; which descriptor a program reads, and what it holds |
| operations | `u_connect` (also when a signal ends it), `u_accept`, `copyfile`, `copy2files`, the mains of all clients and servers |
| interaction | a client and a server on the two ends of a connection, each with a user |
| hard | a relay blocks in `write` and does not read meanwhile; the end of one direction ends both; a descriptor that was never connected; a message that comes back in parts while it is still being sent |
| correct if | bytes arrive once and in order, the two programs never both wait to write, what ends one ends the other |

### tl13 compiler (`src/tl13/src`)

| | |
|---|---|
| state | the syntax tree; `block.instructions`, the register and block counters; `reg`, `offset` and the MIPS text; at run time the MIPS machine |
| operations | the scanner (`next`), the recursive-descent parser (`getAst`), `typeChecking` of each class, `program_iloc`, `mips` |
| interaction | `Parser.getAst` calls type checking, `program_iloc` and `mips` one after the other, whatever the type checker has said |
| hard | a scanner that decides by the class of the next character, comments among the tokens, damaged texts; stack slots assigned by two variables that must move together; jumps and branches that are inserted behind the fact; a branch that tests a register left over from the instruction before |
| correct if | a text is turned into its own tree or rejected, and the program that comes out does what the source means |

### Components that are not modelled, or in part

| component | status | why |
|---|---|---|
| first steps of make (assign1_2) | not modelled | prints or runs one command; superseded by makeserial |
| UICI name resolution (`uiciname.c`) | not modelled | a pure function of the host's tables |
| UICI examples (`u_*.c`) | not modelled | earlier versions or fragments of functions of `uici.c` that nothing calls |
| ChatTool | not modelled | an unfinished program: `register` stores into a `ci` that nothing creates, and the client looks up a name the server does not bind, so no client gets past its first call and no state but the initial one is reached |
| MapReduce jobs | not modelled | a pure function of a sorted stream |
| compile server, network client | partly | a path travels as one message, and its directory part is left out |
| relays | partly | one connection at a time; `read_and_write` and `hasvoice` of `client_audio.c` have no caller |

`PROJECT.json` lists what is hard to test in this code, each at its line ("hazards"), with the
properties that cover it.

## 2. Modules

```
CpuScheduler   <-- implements -- PsLibrary     <-- PsLibraryProofs
                                 MakeThread    <-- MakeThreadProofs
CompileService <-- implements -- CompileServer <-- CompileServerProofs
                                      ^                    ^
                                 NetworkCompile <-- NetworkCompileProofs
                                 ThreadSort    <-- ThreadSortProofs
ReadService    <-- implements -- Restart       <-- RestartProofs
                                 Relay         <-- RelayProofs
IlocMachine    <-- implements -- Tl13Mips      <-- Tl13MipsProofs
                                      ^
 Tl13Scanner, Tl13Parser,        Tl13Compiler (+ Tl13Iloc, Tl13Source, Tl13Text)
 Tl13Types, Tl13Word
```

`MC*` modules only give values to constants.

### CpuScheduler, PsLibrary

**CpuScheduler** is the abstract specification: two processes, each with a CPU burst, an I/O burst
and a second CPU burst, share one processor that is never idle while one of them could use it. Which
of two runnable processes gets it is left open. A step is a unit of time.

**PsLibrary** is one specification of the four functions; `alg` says which one runs. The loop body
is divided into the phases that its comment (`pslibrary.c:13`) names, and `pc` walks through them:
`burst` (`StartIO`, `Exit`, `BurstGoesOn`, `Return`), `quantum1`/`quantum2` (`QuantumExpires`, only
`rr`), `io1`/`io2` (`IOComplete`, with `psjf`'s preemption), `dispatch` (`Dispatch`, `NoDispatch`)
and `append` (`AppendChars`). Where the copies of the loop differ an operator has the difference:
`TerminatorOf`, `Preempts`, `Preferred`, `AfterBurst`. The strings are functions from the written
cells to characters, so that a store past the end is visible. `qleft`, which `rr` does not
initialise, starts with any of two values, one that the tests at lines 270 and 277 would take for an expired
quantum and one that it would not.

Between two `AppendChars` nothing changes for the abstract processor; `AppendChars` is its unit of
time (`CpuSpec`, with `firstLeft`, `ioLeft`, `lastLeft` for what is left of the bursts).

### MakeThread

Threads and their files are `1 .. NFiles`; `child[t]` is the process that `compile()` forks in
thread `t`, with `child[Linker]` for the linker. `kind` is the program: `makethread` counts, and
`makethreadreturn(1)` reads `i` after each join; `"serial"` is `makeserial`, whose main calls
`compile()` for one file after the other (`CallCompile`, `CompileReturns`, `CompileReturns0`) and leaves its loop at the first 0
(`Compiled`). `count++` is a load and a store (`Load`, `Store`).
`Collect` takes any zombie child, as `wait(2)` does, so `status` goes to whichever thread comes
first. A child that cannot `exec` returns 0 from `compile()` in a process that is a copy with one
thread, and exits with status 0 (`ExecFails`). When main returns, all threads are killed and the
children live on (`Exit`).

### CompileService, CompileServer

**CompileService** promises each connection at most one verdict, never taken back: "0" only when
`gcc` has made the object file, "1" only when it has not and never will.

**CompileServer** has the parent (`spc`: `Accept`, `Fork`/`ForkFails`, `ParentCloses`, `Reap`), the
child of each connection (`cpc`: `NoMemory`, `ChildReads`, `ChildReadsEnd`, `ForkGcc`,
`CompileFails`, `ChildWaits`, `ChildWrites`, `ChildCloses`) and the grandchild (`gpc`: `ExecGcc`,
`GccEnds`, `ExecFails`, `CopyWrites`). `reply[c]` is every byte written to connection `c`, by
whichever process: the copy that could not `exec` writes one, then the child another.
`Closed(c)` is computed from the processes that still hold the descriptor. The clients are
anything: `AnyClient` connects, may send one name and may leave at any time. The service's
`answer` is the first byte of the reply.

### NetworkCompile

EXTENDS CompileServer and replaces its arbitrary clients by `networkcompile.c`. `conn_para` is one
variable: `SetSlot` writes it, `ReadSlot(t)` reads it when thread `t` comes to run. `ThreadReads`
returns what `atoi(flag)` may return: `flag` is a byte without a terminator, so a "0" may be
followed by a digit, and at the end of the connection nothing is known (`FlagValues`). `Join`
dereferences the pointer, and main crashes if it is NULL.

### ThreadSort

The loops of `SortingThread` are `Compare` (a turn of the inner loop) and `NextRow`; the three
loops of `MergeTwoItems` are `MergeFirst` and `MergeSecond`, whose guards say which element a
turn of whichever of the loops stores. Arrays are functions on `0 .. n-1` as in C.

### ReadService, Restart

**Restart** is a process that calls one function of `restart.c` (`fn`) again and again on one descriptor.
`Call` begins a call, with any of `Sizes` and, for the timed functions, any of `Seconds`; `Wait`,
`SelectReady`, `SelectTimesOut`, `WaitExpires` are the loop of `waitfdtimed`, where `Remaining` and
`Expired` are `gettimeout` and `add2currenttime` computes the deadline; `Read` takes any part of the bytes that are there and up to what is `Asked`
for, and `Taken` says what each function does with what it now has; `Write` is a turn of `r_write`'s loop.
`Interrupted` is `EINTR`, anywhere. The other end sends any part (`Send`), closes, or breaks the
connection. `r_close` stands for all functions that only repeat a call.

**ReadService** is what the reading functions promise, as if each call took its bytes at once: the next
whole line, block or part of the stream; or the end; or a failure, and then the loss of less than a
piece (of a block that could not be written, the whole block).

### Relay

Two programs on the two ends of a connection. A program is a record: from which descriptors it copies
to which (`copyfile` has one direction, `copy2files` two), whether its server forks, or that it is
`reflectclient`, which sends a message and then waits for it to come back. `chan[s]` holds at most
`K` bytes. `Select` is `select` and its two tests, with `pending` for the descriptors that it reported
and that were not looked at yet; `TakeComm`, `TakeStdin` are the read of `readwrite`, `WriteComm`,
`WriteOut` any part of its write. An end (`StdinEnds`, `CommEnds`, `WriteFails`) has the reason as the
value of `pc`, one of `Endings`. `ConnectInterrupted` leaves `u_connect` to its wait; where the connection
then cannot be made (`ConnectGoesOn`), `u_connect` returns a descriptor all the same (`conn = "refused"`).
Unread bytes at a close may reset the connection and lose what is on its way (`WriteLost`).

### The modules of tl13

* **Tl13Word**: words, `Half` of them negative, and the results of an operator. What division gives for negative
  operands is left open (a set of results), division by 0 traps.
* **IlocMachine**, abstract: an ILOC program run an instruction at a time on registers.
* **Tl13Mips**: `mips()`, an action for each branch of its loop (`EmitLoadI` ... `EmitCbr`, `EmitEnd`), with
  `reg` and `offset` as in the code, then the machine that runs the emitted lines (`LoadWord`,
  `Operate`, `Branch`, ...). A source that `reg` does not hold is read at slot 0, as the code does.
  The memory holds any word of `Garbage` when the program starts. Refinement: an ILOC register is
  the word at its slot.
* **Tl13Types**: `typeChecking` of each class, with what it returns, prints or throws: `Prints` says whether a message is
  printed for a statement or for one nested in it, though an `if` and a `while` forget what their statements return;
  `NumberType` is the test of a number's range.
* **Tl13Iloc**: `program_iloc`, as recursive operators. The instructions that the code inserts later at
  a label it searches for are put where they end up.
* **Tl13Source**: the reference: the typing rules stated by the compiler's messages, and what a
  program means (an interpreter). It is not derived from the code generator.
* **Tl13Text**: the tokens of a tree, and a text as tokens with gaps of blanks, new lines and comments between them,
  filled in several layouts. `Lost` says which tokens a comment takes with it, `Plain` and `LessParentheses` which
  texts differ only in parentheses and in what closes them. It is the reference for the two modules below.
* **Tl13Scanner**: a Scanner is a record (what is left of the file, the next character and its class, the token, the
  lexeme, the lists); each method is a function from a Scanner to the Scanner that it leaves.
* **Tl13Parser**: the recursive descent, one operator for each method of `Parser.java`. They call each other
  through `parse[method, token]`, a recursive function that `program_` ties together; a method returns the
  token where it stops and the tree, or `Fails`.
* **Tl13Compiler**: the whole compiler: `Scan`, `Parse`, `TypeChecking`, `ProgramIloc`, then
  `Mips` and `RunMips`. A complaint does not stop the translation, as in the code.

## 3. Runs

| run | module, configuration | expected | what it shows |
|---|---|---|---|
| scheduling | MCPsLibrary, `.cfg` | pass | all four functions share the processor, keep their policy, write strings that tell the schedule (of `fcfs`: `s1`) and implement CpuScheduler |
| fcfs_strings | MCPsLibrary, `Fcfs.cfg` | violation | `fcfs` does not terminate `s2` |
| threaded_make | MCMakeThread | pass | both threaded makes and the serial one: waits find children, the count is right, the linker runs alone, the serial make stops at a failure, main ends |
| compile_server | MCCompileServer | pass | against any clients and every fault: true answers, no descriptor kept, everyone accepted, CompileService implemented |
| network_compile | MCNetworkCompile | pass | client and server together: links on verdicts only, no earlier file's parameters, the client ends |
| shared_parameters | MCNetworkCompile, `Slot.cfg` | violation | a thread may send a later thread's file |
| verdict_returned | MCNetworkCompile, `Verdict.cfg` | violation | a thread may return 0 for a file that was not compiled, or NULL |
| threaded_sort | MCThreadSort | pass | sorted, a permutation, the merge safe, and it returns |
| tl13_compiler | MCTl13Compiler | pass | from characters to machine: tokens and trees are the ones that were written down, mistakes of type are reported, the program implements its ILOC, computes its meaning and halts when it should |
| comments | MCTl13Compiler, `MCTl13Comments.cfg` | violation | a closed `$` comment may be read as program |
| relay | MCRelay | pass | seven pairs of client and server: bytes in order, nobody waits for ever, what is typed is delivered |
| restart | MCRestart | pass | every function of `restart.c`: ReadService implemented, deadlines kept, blocks copied, every call returns |

Properties are stated, with the behaviour they are about, in the modules. The most telling are:

* `BurstsAccounted`: recorded plus remaining time always make up the bursts asked for;
  `EnoughSpace`: the last terminator fits although the six bursts alone would fill the buffer;
  `FollowsPolicy`, the policies: of two ready processes `fcfs` takes the one that was ready first, and P1 when both became
  ready together (`FirstReadyChosen`), `sjf` the one with the shorter burst (`ShorterJobChosen`), and both let it end
  (`NonPreemptive`); `psjf` runs the one with less left in every unit of time (`ShortestRemainingRuns`); `rr` gives a
  whole quantum (`QuantumIsWhole`) and not more (`WaitsAtMostQuantum`). They are said of what the strings record;
  `SharesProcessor`: exclusion and no idle unit.
* `EveryWaiterHasAChild`: as many uncollected children as waiting threads, whoever collects whom.
* `SerialStopsAtFailure`: nothing is compiled or linked behind a file that failed.
* `AnswersWithVerdict` and `ServesCompiles`: right although two processes write to a connection and
  one of them exits with the wrong status.
* `LinkNeedsVerdicts`: main never links over a compile that was answered with a failure, whatever
  `atoi` makes of the byte.
* `MergeSafe`: the joins are enough, the three indices agree.
* `NotBothWaitToWrite`: two relays that write with a call that blocks never both stand before a full
  connection. It rests on a read of one descriptor before each write, on reading the connection first, and on a
  block that fits.
* `PeersEnd`, `Delivers`: what ends one side ends the other, and what was typed before arrives.
* `Implements` (ReadService), `OnTime`: whole pieces in whatever parts they come, deadlines whatever signals come.
* `FindsTokens`: as long as every `$` comment begins with a character of its own, the tokens written are the tokens found,
  but for those that a comment takes with it, and the scanner hangs exactly on a comment that is not closed. What it
  excepts is the disagreement that `CommentsAreLeftOut` shows: that any closed comment clear of the tokens is left out.
* `ParsesTree`: a tree that is written down is found again (`FindsTree`; one with an `else`, or with a character first
  behind `writeInt`, `if` or `while`, is refused), and an accepted text is the text of its tree, but for parentheses that
  are not needed and for the token before a closing one (`AcceptsOnlyItsText`).
* `ChecksTypes`: no message for a well-typed program, and one, or an exception, for any other at any depth, but for the
  other operand of a product with an integer and a statement that lacks its expression.
* `SlotsRight`, `ImplementsIloc`, `ComputesMeaning`: the translation steps preserve behaviour.

A property that joins several (`SharesProcessor`, `FollowsPolicy`, `StringsTellSchedule`,
`AnswersWithVerdict`, `MergeSafe`, `ParsesTree`, `SlotsRight`, `Delivers`, `OnTime`,
`EveryCallReturns`) names them; its parts are stated in the module one by one. The type invariants
(`TypeOK`, `ServerTypeOK`) are theorems, except that of Tl13, where none is stated.

### Bounds

| constant | value | why this is enough |
|---|---|---|
| `MaxIndex` | 3 | all 729 combinations of burst lengths: equal, shorter and longer in every position, so that bursts and I/O of the two processes end together, in either order, and while the other one is in any state |
| `Quanta` | {1, 2} | shorter than, equal to and longer than a burst; a quantum that expires as a burst ends |
| `NFiles` | 3 | two threads may swap their children while a third increments; more only repeats it (the safety properties are proved for every number) |
| `NConn` | 2 | one connection served while another waits, is accepted or reaped; two threads share `conn_para` (the safety properties are proved for every number) |
| `Faults`, `ClientFaults` | all | in the passing runs every fault may happen at every place; in a violation run only those that the finding needs |
| `Values`, `MaxArgs` | -1..1, 5 | all arrays of one to five numbers: an empty first half, halves of 2 and 3, equal numbers within and between halves |
| `Half` | 8 | words -8..7: sums and products wrap; `Inputs` has negative numbers; 7 and 8 are the numbers that the checker finds out of range and that Java cannot parse |
| `MaxOut` | 6 | what a program may write; no program whose meaning ends within `Fuel` writes more, as `Halts` shows |
| `Fuel` | 40 | the steps of a meaning; a program that needs more is one that "goes on", of which nothing is claimed |
| `Garbage` | {5} | memory that is not 0 |
| `Sources` | 772 texts | all operators; an `if` and a `while` inside each other, last or followed by a statement, with and without `else`; Euclid's algorithm of `test input/euclid.tl13`; mistakes of each kind, by themselves and nested; nine programs in every layout, some with comments that touch a token; two programs with one token left out, doubled or exchanged, at every place; every token before a closing parenthesis; comments of each shape, closed or not, between tokens and at the end. `Programs` is the ILOC of the trees that are well typed |
| `Inputs` | 5 | both orders of two numbers, 0, a negative one, and too little input |
| `K`, `BLKSIZE`, `BUFSIZE` (relay) | 2, 2, 5 | a block just fits into the connection, which two blocks fill and overfill; the message needs several blocks and is longer than one direction holds |
| `Pairs`, `Stdins` | 7 pairs, inputs of 0, 3 or 5 bytes, ended or not | each kind of program with each it suits; more on the way than the connection and both buffers hold |
| `Streams`, `Sizes` | 3, {1, 2, 3} | no bytes; lines that fit a buffer, just do not, and a line or block that the end cuts off |
| `Seconds`, `MILLION` | 3, 3 | a second has three fractions: borrows and carries, a fraction rounded up to a second |
| `MaxCalls`, `MaxSignals` | 2, 2 | a second call finds what a first one left; a signal after a signal |

## 4. Fairness and deadlock

* **PsLibrary** is a sequential loop: `WF_vars(Next)`.
* **MakeThread**, **ThreadSort**: weak fairness for main, for each thread and for each process. The kernel schedules every runnable
  thread and `gcc` terminates. Each thread takes
  `countlock` at most once and holds it for a few instructions, so that it is free for good in the end and weak
  fairness is enough.
* **CompileServer**: weak fairness of the parent, of each child (`ChildProgress`) and of each
  grandchild. A failing `malloc` (`NoMemory`) is left out of the fairness: a child that waits for a
  name must not be saved by a fault. Clients are not fair: `EveryoneIsAccepted` holds with clients that never send.
* **NetworkCompile**: the server's fairness and weak fairness of main, of the linker and of each thread.
* **Relay**: weak fairness of each process. Nobody has to type: a terminal that has not ended may be silent,
  and what is to be typed is there when it is asked for.
* **Restart**: weak fairness of the process and of the clock. The other end is not fair: `EveryCallReturns` is
  about the timed calls, and about the others once the other end has closed or failed.
* **Tl13**: weak fairness of the translation and of the machine. `Halts` is about a program whose
  translation has begun; the front end has no fairness, as a comment that is not closed is read for ever.

`CHECK_DEADLOCK FALSE` is stated where the program really stops: a function has returned, main has
ended, a program has exited or waits for input that is never typed, the server waits for a connection when none will be
made, a process calls no more, both relays have ended or nobody types any more.

## 5. Theorems

The proofs are for every value of the constants under the assumptions named in the modules:
`MaxIndex`, `NFiles`, `NConn`, `MaxArgs` are positive integers; `Algorithms` and `Kinds` are subsets of the
programs; `Quanta` holds positive integers, `Values` integers; `Half` is at least 2;
`ProgramsAssumption` for Tl13Mips: an ILOC program assigns the register of a `loadI` or of an
operation once, and reads none before an instruction that assigns one has taken a slot for it; a `cbr` follows the
instruction that computes its condition and names a register that nothing assigns; there is a label
for every jump. `ValuesAssumption`: what is typed and what memory holds are words. `SizesAssumption` and
`PairsAssumption` for Relay: a block fits into a connection, a program whose peer does not read does not write,
and `reflectclient` meets `reflectserver` with a message that the connection can hold; `SizesAssumption`
and `TimeAssumption` for Restart: a call asks for at least one byte, and a time has a fraction of
at most a second. TLC evaluates all of them; for `ProgramsAssumption` that means that the ILOC of
each program, generated by the modelled `program_iloc`, satisfies it.

| module | theorems | inductive invariant, and why it is needed |
|---|---|---|
| PsLibraryProofs | TypeCorrect, MutualExclusionHolds, ShortestRemaining, SpaceIsEnough, DoneStaysDone, NeverIdle, BurstAccounting, NoPreemption, RoundRobinFair, FirstReady, ShorterJob, QuantumNotCutShort, ProcessorIsShared, PolicyIsFollowed, StringsAreTheSchedule, ImplementsCpu | `IInv`: types and mutual exclusion with `CountersMatchState` (a WAITING or DONE process has no CPU time left, which is why `psjf`'s test by counters alone is sound) and `CpuGiven`. `SpaceInv` adds `TimeBound` (time passed plus time to come is at most the bursts asked for, and strictly less when both ran at once); `TraceInv` adds what the strings hold beyond `i`. `QuantumInv` relates `qleft` to the characters recorded since the processor was handed over; `WholeInv` adds that who runs has run without a gap for the part of the quantum that is used up. `ChoiceInv` says of `fcfs` and `sjf` that a process that is ready has all of its next burst left (which burst that is can be read from its string: `WaitedInv`) and that one that was just dispatched beside a ready one had the right to be: what `Preferred` compares is then what the strings show later. `Recorded`, `LastRan`, `NeverBoth` and `OneBlock` say of the strings at every moment what display reads at the end: a letter for each unit until the process is done, then one end behind an `R`, and the I/O so far as one block. The slip of `fcfs` (P2's terminator goes into P1's buffer) leaves P1's string right, because it is stored at or behind its end |
| MakeThreadProofs | TypeCorrect, WaitersHaveChildren, LinkerRunsAlone, CountIsRight, ZeroIsASuccess, SerialStops, NobodyIsStuck, StepsRunOut | `IInv`: `Progress` says what threads have done by each point of main. Children are collected by anybody, so the argument counts: sets of waiters and of uncollected children grow and shrink together. `CountInv`: `count` plus the increments still owed is the number of successes collected. `SerialInv`: at most one call of the serial make is under way, every call that it has passed has succeeded, and the next is the least that was not begun. `ZeroInv`: a thread that has gone on after its wait, a 0 in the `i` that all threads share once they have begun, and a 0 that main has read each mean that a collected child has succeeded. `Underway`: until main has returned no thread is killed, and one that is joined was created. What is left is counted by `MainLeft`, `ThreadLeft` and `ChildLeft` |
| CompileServerProofs | ServerTypeCorrect, FirstByteHolds, NeverHangsUp, PathIsAnswered, HoldsNone, ServerImplementsService, NobodyIsForgotten, ServerStepsRunOut | `SInv`: `Account(c)` says what has been written and compiled for a connection in each state of its child and grandchild; `InHand` what the parent holds. A client that has sent or gone has the end of its connection, a busy parent, or a child or grandchild that can step; what is left of each connection, client and process is a number, and only an accepted connection gives the parent more |
| NetworkCompileProofs | TypeCorrect, LinksOnVerdicts, NeverAnEarlierSlot, NetworkImplementsService, NobodyIsStuck, StepsRunOut | a client step is a step of the clients that CompileServer allows, so `SInv` carries over. `Slots` and `Returned` add that `conn_para` only grows and that a returned 0 belongs to a connection of which nothing but a success will be heard. `Connected` says what each thread has done to its connection, so that a thread that reads has one and has sent its path; the steps left are those of the client and those of CompileServerProofs |
| ThreadSortProofs | TypeCorrect, MergesSorted, StaysInArray, MergeIsSafe, OutputSorted, OutputComplete, NobodyIsStuck, StepsRunOut | `Sorting(t)`: the cells below `si` are in place and not greater than the rest, cell `si` is the least compared so far; `Joins`; `Merging`: what has been stored is sorted and not less than what is left. `NInv` counts occurrences: an exchange keeps them (`TallySwaps`), and during the merge each integer is stored as often as it was passed in the two halves (`StoredGrows`, `HalvesCount`). `Started`: main joins only threads that it has created. What a sorting thread has left is ordered: `SorterLeft`, then `RowsLeft`, then `TurnsLeft` of the row |
| Tl13MipsProofs | SlotsAgree, NoneIsRead0, SlotsAreRight, MipsImplementsIloc, ProgramsStayInside | `NextSlotIsFree`: `offset` is -4 times the length of `reg`, which each branch of `mips()` keeps on its own; `RegIsTaken`: `reg` holds exactly the registers that an instruction translated so far takes. A `cbr` names a register that no one assigns, so `reg` may hold duplicates and the argument is about first occurrences. `EmittedLines`: the lines of an instruction are those of its slots for good. `MInv` says what the registers of the machine hold before each line (`AtLine`): operands, a result among those that the operator may give (`AluIsRight`), the condition that `bne` finds in `$t0` because no line between has changed it. One lemma for each kind of instruction: its lines are stutters but for one, which is the ILOC step. `Within` keeps the translation inside the program; `ExecutesLine` says of each kind of line that the machine has a step for it |
| RelayProofs | TypesHold, NoMutualWait, NothingTaken, KeepsOrder, NobodyIsStuck | `IInv`: `TypeOK`, `Starting` (who has not connected holds nothing), `Shape` (what each program holds at each point, and where it is going) and `Refused`. `FInv` adds `Crossing` (when both relays are about to send, what one of them has and what is on its way fit into the connection, because the last to begin has read the connection just before) and `Reflecting` (the message of `reflectclient`, in its five places, is whole). `OInv` adds `Ordered`: what is written, held and on its way, one behind the other, is a beginning of what was to be sent, and with what is still to be taken it is all of it as long as both processes are there (`Straight`; `Around` for the message that goes to the server and back). A step moves bytes from the front of one place to the end of the place before it (`Moved`, `Far`, `SentOn`, `SentBack`). `AllPromised`: what `select` has promised is still there when it is read, as nobody but the process reads its descriptors |
| RestartProofs | TypeCorrect, SleepsToDeadline, NeverEarly, TimeIsKept, BlocksCopied, ReadsImplemented, CallsRunOut | `TInv`: the deadline is a normalised time, and what `select` is told to wait for is the rest of it, with the lemmas `CarriedTime` and `RemainingTime` on carry and borrow; it is kept by any number of signals. `RInv`: `TypeOK` and `RoomToRead` (a read asks for no more than the buffer has left). `CInv`: what `readwriteblock` has written and has yet to write is what it has read. `SInv` relates the buffer of a call under way to the front of what ReadService still has: nothing is taken there until the piece is whole, so that a `Read` is a stutter or the whole call. `CallInv`: a timed call reads only what is there. `Left` is a vector of seven numbers, the most important first: what the other end may still do, the calls, the bytes unread and unwritten, the time, the signals, the steps of the call |

`ImplementsCpu`, `ServerImplementsService`, `MipsImplementsIloc` and `ReadsImplemented` are the refinements: initial states map to
initial states and every step to a step or a stutter. `ImplementsCpu` is the safety part of `CpuSpec`;
CompileService, IlocMachine and ReadService have no fairness, so that there the whole of `ServesCompiles`,
`ImplementsIloc` and `Implements` is proved. `MipsImplementsIloc` holds for every word size: the wrapping of `addu`, `subu` and
`mul` is that of the ILOC operators, `divu` and `rem` agree with them where nothing is negative.

### What the liveness properties rest on

Liveness itself is TLC's, but the two facts that it rests on are safety properties, which are
proved where they hold:

* *Somebody can go on.* `NobodyIsStuck` (four modules), `NobodyIsForgotten`, `NeverHangs` in
  `CallsRunOut` and `ProgramsStayInside` say that where the code waits, what it waits for can
  happen. They are about guards: the provers know nothing of ENABLED, so that the guard of each action is
  written out (`MainCan`, `ThreadCan` and their like). TLC has compared these with the ENABLED of the
  fair actions in all states of the bounds of section 3.
* *The steps run out.* `StepsRunOut` (three modules), `ServerStepsRunOut` and `CallsRunOut` say that
  every step lowers what somebody has left, and none raises it, or only what is counted as less
  important: no loop, and no retry after a signal, can go round without end. The server itself goes on for ever; there only
  an accepted connection gives the parent more to do.

What is not proved is the step from these to the end of the program, that is that fairness
makes the step happen that can, and that a loop whose data run out (tl13, Relay) ends.

## 6. Only model-checked

* Liveness under fairness (`MainEnds`, `EveryoneIsAccepted`, `ClientEnds`, `Returns`, `Halts`, `PeersEnd`, `Delivers`,
  `EveryCallReturns`, and the liveness part of `CpuSpec`), which is out of this prover's reach. Of `MainEnds`, `Returns`,
  `EveryoneIsAccepted`, `ClientEnds` and `EveryCallReturns` both parts named above are theorems; of
  `PeersEnd` and `Halts` the first: a relay and a program go on as long as they have input, or loop. Nothing of `Delivers` but its order
  (`KeepsOrder`) is.
* `ComputesMeaning`, `ChecksTypes`, `FindsTokens`, `ParsesTree`: induction over syntax trees and texts
  is out of the prover's reach, and some of their modules have recursive operators.

## 7. Findings

| where | what the code does | what the repository says |
|---|---|---|
| `CacheQueue/pslibrary.c:48` | `fcfs` stores P2's terminator into `s1` | the line's comment: terminate the string; `sjf`, `psjf` and `rr` use `s2` |
| `assign5/networkcompile.c:134` | all threads share one `conn_para`, which main overwrites | comment at line 26: sends the named file |
| `assign5/networkcompile.c:71` | the end of the connection is taken for a byte, and may count as 0; on failure the thread returns NULL (lines 54, 68, 73), which main dereferences | comment at line 28: returns a pointer to a number that is 0 if successful |
| `tl13/src/Scanner.java:325` | the character behind the `$` of a comment is passed over whatever it is: after `$$` all up to the next `$` is comment, and a comment that begins with a blank or a new line is scanned as program (line 39 skips the blank and forgets that a comment was begun) | `tl13/README.txt:7`: comments from a `$` to a `$` are complete; line 16: no bug |

The passing runs are about the code as it is, these defects included. `StringsTellSchedule`
names `fcfs` as an exception; `LinkNeedsVerdicts` allows for a connection that is
cut off, `ClientEnds` counts a crash as an end, and `FindsTokens` is about `$` comments that begin with a character of
their own.

One disagreement more has no run of its own, because a passing property states it as an exception: `Term_ast.java:16`
joins the tests of the operands with `||`, so that `int * char` is accepted without a message, although the message at
line 21 says that the operands of all operators must be integers. Without the first part of `Overlooked`, `ChecksTypes` is
violated by it.

Other behaviour that the models show, about which the repository says nothing that could be quoted against it:

* tl13: no program with an `else` is ever accepted, as the token itself is not passed over
  (`Parser.java:167`); nor one with a character as the first token behind `writeInt`, `if` or `while`; an expression in
  parentheses has to be written `(E;)`, and the token before the `)` is not looked at (`Parser.java:281`): `(E)` is not
  accepted, but `(E do)` and `(A = B =)` are; a factor may be missing (`X := 2 * ;` means
  2 * 2); a `writeInt`, `if` or `while` may lack its expression, which `program_iloc` then throws at.
  A comment that directly follows a token loses the token, and so does one at the beginning of the next line, unless the
  token is a character; the scanner reads for ever when a comment is not closed (`Scanner.java:126`). A number is
  checked against the range of the integers, but not as the right operand of a product whose left one is an integer
  (`Factor_ast.java:16`).
* Serial make: a child whose `exec` failed counts as compiled, so the linker may miss its object file.
* Relays: `server2` and its like end when their own terminal ends (`copy2files.c`), whatever the connection still brings.
  `u_connect` that a signal interrupts returns a descriptor also where the connection then fails (`uici.c:140`);
  a relay in both directions then ends before it takes anything from its user (`UnconnectedTakesNothing`), a `copyfile` client
  after it has taken a block.
* restart: `r_write` returns -1 after a part has been written; a line that is longer than the buffer is lost as far as it was read.

## 8. Abstractions and what is left out

* All hosts are one; a path travels as one message (a path that arrives in pieces is a hazard that is
  listed and not modelled); the directory part of a path and `chdir` are left out: a request is the
  file it names. SIGPIPE is ignored, as `uici.c` arranges. Signals arrive in Restart, and in `u_connect` in Relay.
  `gettimeofday` and the `select` behind it are one step of Restart (`restart.c:216` and 218): time that passes between the
  two, by which the code would wait longer, is left out.
* The arguments of the linker, the output of all programs, `atoi` of arguments and `malloc` failures before anything
  has happened are left out.
* The compile programs' `gcc` makes an object file or exits with status 1. The linker runs to its
  end; nobody asks for its status. A child that has ended is collected or stays a zombie; the table of processes has no limit.
* MakeThread, NetworkCompile: the names of the object files are made with `malloc(strlen(name) + 1)` and then get `.o`
  (`makeserial.c:27` in assign3, assign4 and assign5, `makethread.c:27`, `networkcompile.c:108`; assign3's `makelib.c:11` does the same with `.c`): two bytes past the
  block, which is undefined. What is modelled is the outcome where nothing else lies there. assign3's `makeserial` also frees an
  array that it has not allocated; what is modelled is the same loop in assign4 and assign5. `makethreadreturn.c` uses `ilock`, whose declaration is a comment, and does
  not compile as it is: it is `makethreadreturn(1).c` without the read of `i`. `makelib(2).c` is a
  second version of `makelib.c` with the same steps, and with the `getvalue` that `makethreadreturn(1).c`
  calls; `clearcount` has no caller.
* Relay: one connection at a time: the children of `serverp2` that share a terminal are left out, and so are
  programs of which one writes what the other never reads (`PairsAssumption`). A reset may lose what is on its way.
* Restart: a size of 0, a descriptor beyond `FD_SETSIZE`, a function that changes between calls, and another process that reads
  the same descriptor between `select` and `read` (the read would then block) are left out.
* tl13: boolean declarations and the literals `true` and `false` (which `mips()` gives to the assembler as the text, as in
  `li $t0,false`; the modules have 0 and 1 there, and no program of `Sources` that is translated has one), `$` comments that begin
  with a blank, a new line or a `$` ahead of all tokens, numbers beyond the integers where
  the checker does not come to them (`A * 99999999999`), the newline printed
  after a number, the pictures of the syntax tree and of the control flow graph, and what `mips()` still prints for a
  program whose translation has thrown are left out. Letters and digits of names and numbers are a small alphabet; a word that is a
  keyword is one character. `div` is `divu` and `mod` is `rem` (`Program_ast.java:712`): what they give for negative operands is
  said nowhere, and the abstract models leave it open.
* Files that end in `~` are editor backups.

## 9. Plan

Every safety property that a run checks is a theorem, but for those of the tl13 texts and trees (section 6). What is left, in this order:

1. **A path in pieces**: CompileServer on a byte stream as Relay has it, so that `compileserver.c:76` can be checked.
2. **Several children of `serverp2`** on one terminal.
