# ParaFinder: a TLA+ verification of the loop data-dependence profilers

ParaFinder finds the data dependences of a loop at run time. LLVM passes
(`src/lib/Transforms/DDA`) insert calls before the loads and stores of the
profiled loop and at its entry, the end of its iterations and its exits; a
runtime library (`src/runtime/libddaprofile`) records the accesses and reports
flow (true), anti and output dependences, loop-independent (LI, within an
iteration) and loop-carried (LC, with the least distance in iterations). The
rest of the repository is a vendored LLVM 3.2 tree.

## 1. Inventory

| Part | State | Operations | Hard |
|---|---|---|---|
| **Light-shadow runtime** `LDDLightShadowRT.cpp` (default build: `CMakeLists.txt` has every `add_definitions` commented out) | per 8-byte word a `Trace`: present tables (first reads and last writes of the iteration), precede tables (of the earlier iterations), byte masks, `RWIter`; `ShdwPageSet` and the page cache `CacheBuf`; `LSDepInfo` per sink PC, `LDDLSResultMin/Max` | `__checkLoadLShadow`, `__checkStoreLShadow`, `__addPresentToPrecedeTrace`, output | long legal sequences: lists and masks are reset at different times, the first two iterations are not analysed, pages cached against a set that is cleared, accesses that cross words and pages |
| **Loop control** inserted by `LDDLightShadow.cpp` | `LDDProfLoopID`, `LDDProfLoopIter`, `LDDTLoopFunc` | entry, `for.inc`, exits | target loops called inside the profiled loop, second executions |
| **Address streams** (parallel build, `LDDParallelAnalysis.cpp/.h`) | per process a ring of buffers in shared memory, a full flag per buffer, the process' and the reader's positions | `GenerateAddrStream`, `__init_proc`, `ReInitPipelineState`, `LDDPACancelPipeline`; `parreadlida` | two processes without a lock, full ring, reuse of buffers |
| **Analysis pipeline** (parallel build) | tokens, present tables (`PresIsFull`), the map from iterations to tables, `FinishedLoopIter`, `LSOutputLCDepFinish` | `ReadLIDAFilter` with its `parreadlida` tasks, `LCDAFilter`, `OutputLCDepFilter` | three threads, out-of-order iterations, spins inside a batch, cancelling |
| **Parallel LIDA/LCDA** (parallel build) | per word a `Trace` with one present table per process and buffer, precede tables; the addresses to analyse | `parlida`, `parcheck`, `doLIDA...`, `doLCDA...` | `Trace`s allocated by tasks without a lock, tables used again by later iterations, analyses in another order than the accesses |
| **Process control** (`__to_prof`, fork and join) | owner of an iteration | external library FTP | |
| **Hash runtime** `LDDHashRT.cpp` and its pass `LDDHash.cpp` | hash of addresses, two last iterations per instruction; the flag of the loop being profiled | `__loadcheck`, `__storecheck`, `__outputdependence`; entries, iterations, exits | a table never emptied, recursion into the loop, exceptions |
| **Complete-shadow runtime** `LDDCompleteShadowRT.cpp` | pending and history maps per word | checks, `addpendingtohistory` | values carried over between words |
| Shadow memory, red-black tree, interval set, timer | | | |

The program's loads and stores call the light-shadow runtime directly (default
build), or `GenerateAddrStream` puts them into the process' stream (parallel
build); `ReadLIDAFilter` reads one buffer of every process per token and finds
the loop-independent dependences, `LCDAFilter` the loop-carried ones, in loop
order; `OutputLCDepFilter` merges, and signals the master at the end.

What makes them correct: reported dependences are those of the program, none is
lost between an access and its analysis, every access gets through the streams
once and with its iteration, tables and buffers are never used by two sides at
a time, and whoever waits is served. `PROJECT.json` lists the places where this
could go wrong ("hazards") with the properties that would show it.

## 2. Modules

| Module | Models | Uses |
|---|---|---|
| `ShadowWord` | one word's `Trace` and the operations on it, as operators | |
| `LightShadow` | the serial profiler: words, pages, loop control; the invariants | `ShadowWord` |
| `LightShadowHistory` | the same, with the history of the program's accesses and what it implies | `LightShadow` |
| `LightShadowProps` | reported dependences against the history | `LightShadowHistory` |
| `DepRange` | slots of dependences by the PC of the sink, their bounds, the output | |
| `StreamQueue` | **abstract**: a bounded queue that can be closed | |
| `AddrStream`, `AddrStreamProps` | the ring between the master and `parreadlida`; its properties and its refinement mapping to `StreamQueue` | `StreamQueue` |
| `OrderedAnalysis` | **abstract**: iterations that come in any order, analysed in theirs, and the signal at the end | |
| `Pipeline`, `PipelineProps` | processes, three stages, tables, cancelling; the streams as queues; the properties and the refinement mapping to `OrderedAnalysis` | `OrderedAnalysis` |
| `ParallelTrace`, `ParallelTraceProps` | one word in the parallel build: allocation, loop-independent checks, present tables by iteration, loop-carried analysis; its dependences against the program's | |
| `ReadTasks` | the tasks of a batch as TBB's threads run them, nested, with the buffer number they share | |
| `HashTrace`, `HashTraceProps` | the hash profiler with the loop control of its pass; its dependences against the history | |
| `LightShadowProofs`, `LightShadowHistoryProofs`, `AddrStreamProofs`, `DepRangeProofs`, `HashTraceProofs`, `ParallelTraceProofs`, `PipelineProofs`, `ReadTasksProofs` | theorems and their proofs | |
| `MCLightShadow`, `MCAddrStream`, `MCParallelTrace`, `MCHashTrace` | what TLC needs besides: symmetry, sets of accesses, owners | |

Definitions have the names of the source where they have one. `PROJECT.json`
("map") gives the lines of each.

### Light shadow

The instrumented program is the environment: any load or store of any
instrumented instruction at any address, in any order, between the actions of
the loop control. One action is one whole runtime call. A mask is a set of
bytes; a linked list is a set of nodes, because new nodes go to the head and
nodes of one iteration have disjoint masks. Where the order is visible (nodes
left over from an earlier iteration, `age` > 0) the model is nondeterministic
over it, as it is over the distance 0 that makes the fold of `Dist[1]` forget.
`CacheBuf[9] = 0`, one past the array, leaves it open whether `CacheBufNum` is
overwritten. `__addPresentToPrecedeTrace` is one action: it runs to its end in
the only thread.

The loads in the header of a loop (`for.cond`) come before `LDDProfLoopIter`
changes and belong to the iteration before; the model sees them as accesses of
that iteration, which is how the runtime sees them.

### Dependence slots

`AppAddrToShadow` of an instruction's PC is its slot. The loop-independent
checks allocate the slot before they look for a dependence (`CheckLID`), the
loop-carried analysis after it has found one (`ReportLCD`). `Output` is the
loop of `__outputLSResultWithSinkPCAsKey`.

### Address streams

The parallel build is the one `CMakeLists.txt:16` documents: `_DDA_PA`,
`_DDA_DEFAULT`, `_DDA_PP`, `_DDA_DEFAULT_PP_PARLIDA`, `_FTP`. (The variants
without `_DDA_PP` and with `_GAS_SHADOW` do not build with the present sources.)
The process is the master, the only one to call `ReInitPipelineState` and
`LDDPACancelPipeline`. Writing the contents of a buffer and setting its flag is
one step, which is right for x86, where stores become visible in order; the
spin is a step of its own (`NextBufferFree`). `parreadlida` begins to read,
frees, and labels its token in separate steps. The contents of the shared
memory at the start are arbitrary (`Garbage`). `accesses` and `tokens` are
history variables.

Assumptions: the spins really re-read their flag (`atomic_t` is not volatile,
so that the compiler is trusted with it), and a `parreadlida` task keeps its own
`ThrLRStreamNum`, which `ReadTasks` shows to be an assumption indeed.
`CancelPipeline` requires that the loop has been entered once; the code would
follow a NULL pointer otherwise.

`StreamQueue` is what the ring is for. The mapping (`Queue` in
`AddrStreamProps`) takes the buffers from the reader's position up to the process'
own (`NumUnread` of them), without the one that cancels, as the queue, and the
tokens as what has been received.

### Pipeline

The stages are serial filters in threads of their own. A batch of
`ReadLIDAFilter` is one `parreadlida` per process; each is a sequence of actions
(`ReadEnd`, then `TableFree` after its spin), so that the tasks of a batch and
`LCDAFilter` interleave. The present tables are abstracted to which iteration
was last put into them. `owner` is chosen initially, since `__to_prof` is the
decision of an external library. `ReInitPipelineState` sends iteration 0, whose
table nobody frees: `ExitIter`. `NullCrash` is the access through
`ProcNextLidep` after another task has set it to NULL.

The mapping to `OrderedAnalysis` (`Analysis` in `PipelineProps`): `sent` are the
iterations whose owner has gone past them, `done` is `FinishedLoopIter`,
`finished` is `LSOutputLCDepFinish`, and `ownFirst` are the iterations of the
master before the first of another process, which are known from the start. The
master may be signalled with iterations of others still waiting; those of its own
that wait for nobody have been analysed by then.

### Read tasks

`ThrLRStreamNum`, the buffer a `parreadlida` task reads, is a variable of the
thread. A task waits for the nested `parallel_for` of its buffer, and TBB lets the
thread of a waiting task run any other that is ready, on top of it: `stack` has
the waiting tasks of a thread. `BeginTask` goes up to the nested `parallel_for`,
`EndTask` from its end. A task that finds its buffer empty has changed
`ThrLRStreamNum` all the same. Publishing a buffer is one step, as the steps of
`AddrStream` and those of its reading (`LabelToken`) are another question;
present tables and cancelling are in `Pipeline`. `disturbed` are the processes
one of whose tasks went on with another's number: what happens to their
streams, and that it stays with them, is the question of this module.

### Parallel trace

`ParallelTrace` is what `parcheck` and the two analyses do to one word. Where
`Pipeline` has the order of buffers and tables, this module has their contents.
The list of a table is a sequence, since the order of the nodes decides what is
found (`FirstCovering`). `AddrInnerOffset` is taken after the offset has been
masked off (3436), so that every access covers the word from byte 0: an access
is an instruction with a length. `AddrIndex` is always 0 (3431), so that one of
the eight tasks of `parlida` does all the checks of a buffer, in their order; the
tasks that meet in a word are those of different processes.

The allocation of the `Trace` is three steps (`SeeNull`, `Publish`, `Fill`), with
the tasks of other processes in between: two may allocate, and what one has
noted is lost (`torn`), or one follows the pointer before the tables are there
(`Crash`). A present table is used by every `PRESNUM`-th iteration of a process;
nothing but the loop-carried analysis empties it. `by` is the iteration whose
input an iteration was analysed with.

### Hash profiler

A node is an address in the chain of a bucket, and keeps two iterations per
instruction. The key of the bucket depends on the length of the access (392), so
that an address accessed with two lengths may have two nodes, and the
dependences between the two are missed: the properties speak of the accesses to
one node. `frames` are the
active calls; profiled loops are entered in them, also from within themselves,
and `DDAProfilingFlag` decides who counts. `Unwind` leaves a loop through an
exception: its exit code is not on that edge. The table is taken to be zero at
the start, which `malloc` does not promise (75), and loop numbers to be unique,
which the pass keeps in a file. `liPairs` and `accesses` are the history.

## 3. Runs

| Run | Properties | Shows |
|---|---|---|
| `ls_nested` | `TypeOK`, `CacheInv`, `ReachInv`, `LCSound`, `LIOutSound` | with target loops inside the profiled one, no page is lost between an access and its analysis; every loop-carried dependence, and every loop-independent output dependence, that is reported is real |
| `ls_deps` | `LiveInv`, `LITrueExact`, `LIAntiComplete`, `LastWriteKept`, `LCComplete` | loop-independent flow dependences are exact; no anti dependence of a first read is lost; from iteration 3 on no loop-carried dependence between last writes and first reads is lost; no byte has two readers or writers |
| `range` | `TypeOK`, `RangeInv`, `OutputExact` | what the bounds are, and exactly which dependences they keep from the output |
| `as_ring` | `TypeOK`, `RingInv`, `StoredDelivered`, `QueueSpec`, `WriterServed` | the ring implements the queue, delivers every stored access once, in order and with its iteration, and a waiting process is served |
| `pp_pipeline` | `TypeOK`, `TablesApart`, `Conserved`, `InOrder`, `OrderedSpec`, `AloneSignalled`, `SentIsAnalysed` | no table is used by two stages, no iteration lost or repeated, all in order: the pipeline implements `OrderedAnalysis`, the final signal included; with one process at work the analyses have their own input and the signal comes |
| `read_tasks` | `BufferHeld`, `Isolated`, `Served` | with nested tasks in two threads: a buffer stays its task's own as long as it is analysed; a process none of whose tasks was disturbed has its stream read in order and is served, whatever happens to the others |
| `par_trace` | `TypeOK`, `AnalysisSeesTrace`, `LIDExact`, `LCDSound`, `LCDComplete` | loop-independent flow dependences are exact in iterations whose table was empty, but for writes that are shorter than one before them; loop-carried ones are between instructions that used the tables, at the distance of the inputs; the analysis never meets a `Trace` that is not filled in |
| `hash` | `TypeOK`, `FlagInv`, `LatestKept`, `LCComplete`, `LCSound`, `LIExact`, `OutputComplete` | with recursion, exceptions and two executions, the two iterations kept per instruction suffice for all nearest loop-carried dependences; what is reported is of the program; what the output may lose |

Four runs check a sentence of the source that the code does not keep
("findings" in `PROJECT.json` quotes them):

| Run | What happens |
|---|---|
| `ls_reentry` | the second execution of a loop takes accesses of the first for its own |
| `pp_stuck` | the last table is filled while what frees one is in the same batch: everyone waits |
| `par_unreleased` | a word that an iteration writes first is not analysed, and its table is freed full |
| `rt_finish` | a task that was nested in another changes the number of the buffer that one frees and labels its token with |

Further disagreements the models show and no run is kept for:

* light shadow: two writes of a word that the iteration has not read give no
  output dependence ("Look for Loop independent output dependences.",
  `LDDLightShadowRT.cpp:2446`; `LIOutSound` states one direction only); an access at the end of a page whose second page is not recorded
  ("ShadowAddr won't cross Virtual pages.", `LDDLightShadowRT.cpp:929`;
  `CrossesPage`); distances that never occurred, from accesses of iterations 1
  and 2 (`LCSound` states what remains true); nodes of iteration 1 beside those
  of iteration 2, "at most one write/read pc" notwithstanding (`LiveInv`); last
  writes lost to a nested target loop (`LastWriteKept` with
  `NestedTargets = TRUE`);
* slots: a program with one sink, whose minimum stays above the maximum, so that
  nothing is printed (`OutputExact` says exactly what is hidden);
* streams: the access that finds its buffer full is stored nowhere (`stored` in
  `StoredDelivered`); the iteration of a token read after its buffer was freed
  (`label` in `tokens`); `PtrItems` in buffer 0 at the second execution;
* pipeline: an iteration that had to wait is analysed with the addresses and the
  number of another ("Addrs-scope to do LCDA.", `LDDParallelAnalysis.cpp:273`;
  `input` in `InOrder`, and what comes of it in `LCDSound`); the accesses since
  the last `for.inc` sent as iteration 0; the final signal while other processes
  have buffers unread (`Finish` of `OrderedAnalysis` says what is certain then);
* parallel trace: a write of part of an earlier one's bytes is not noted ("The
  write operation is last, so it must be inserted here.",
  `LDDParallelAnalysis.cpp:2832`; `Shadowed` in `LIDExact`);
* hash: distances below one, and loop-independent dependences that are none, in
  the second execution (`LCSound`, `LIExact` state what remains true);
  loop-independent dependences are never printed (`#if 0`, `LDDHashRT.cpp:476`).

### Bounds

* `ls_nested`: three words on two pages and a cache of one entry make pages
  evict each other, and accesses of one and two words cross words and pages;
  four iterations are two that are analysed, besides the two that are not; three
  accesses are a source, a sink and one to disturb them. `CacheInv` and
  `ReachInv` are proved for all sizes, `LCSound` and `LIOutSound` for one execution
  of any length.
* `ls_deps`: words of two bytes give every kind of overlap of two masks (none,
  part, all); five iterations give distances 1 and 2. Instructions are
  interchangeable, hence the symmetry: nothing compares two of them except for
  equality, and no property is a temporal one. All five properties are proved for
  all sizes, too; the run is what shows that their cases do happen, and what the
  mutants are tried on.
* `range`: four slots, one with two instructions, in every order.
* `as_ring`: three buffers of two accesses wrap around within four iterations,
  get full, and overflow; one execution of the loop, because the iteration
  numbers restart at the next. All its safety properties are proved for any number.
* `pp_pipeline`: two processes and three tables each (24 / 8 in the build),
  every way to share three iterations, four tables needed by a process that
  owns all: tables are used again. Two tokens are enough for two stages to work
  at once; the third only lengthens the queues.

* `read_tasks`: two processes with two buffers each and three to publish, so that
  slots are used again; two threads, so that tasks are nested and concurrent.
* `par_trace`: two processes with two tables each, four iterations shared in the
  ways that use a table again (`MCOwners`); a read and two writes of different
  lengths, four accesses in all: a source, a sink, one that leaves something
  behind in the table and one to disturb them. All five properties are proved for
  all sizes, too; the run is what shows that their cases do happen, and what the
  mutants are tried on.
* `hash`: three iterations of a loop entered twice, also from within itself; an
  address in two buckets; three accesses, one more than the iterations kept.

All counters are bounded by constants named in the modules (`MaxAccess`,
`MaxIter`, `MaxSessions`, `MaxOwned`, `MaxOverflow`, `NumIters`). Deadlock is not
checked: all programs end, and a profiled one may stop anywhere. What must not
stop is stated as a liveness property.

### Fairness

`AddrStream`: the reader, a task of TBB's, and the spin of the process, which is
running. Nothing is assumed of the program: it may stop making accesses.
`Pipeline`: every process goes on with its iterations, and TBB runs a stage that
has a token to work on, which it must for the pipeline to make progress at all.
Nothing is assumed of the joins or of the program's exit.
`ReadTasks`: `ReadLIDAFilter` starts a batch when there is a buffer, and TBB's
threads run what is ready; nothing is assumed of the program.

## 4. Proofs

All statements hold for every value of the constants under the named
assumptions (`WordBytesAssumption`, `LightShadowAssumption`,
`AddrStreamAssumption`, `DepRangeAssumption`, `HashTraceAssumption`,
`ParallelTraceAssumption`, `PipelineAssumption`, `ReadTasksAssumption`), which say
no more than that sizes are positive and constants have their types: of an
instruction, that its access is a load or a store of one to eight bytes.

* **`LightShadowProofs`**: `TypeCorrect`, `CacheCorrect`, `OneLiveNode`,
  `AnalysisReaches`. The four invariants are proved together, as one inductive
  invariant: `ReachInv` needs `CacheInv`, because an access to a cached page does
  not insert it, and `LiveInv` needs the types of the masks. The first
  lemmas say what each operation on a word preserves; one lemma per
  action lifts it to all words. That an access stays within the words
  (`TouchedWords`) is a fact about division, proved from `DivMod` and
  `DivUnique`.
* **`LightShadowHistoryProofs`**: `TrueExact`, `OutSound`, `AntiComplete`,
  `LastWriteCorrect`, `CarriedSound`, `CarriedComplete`, for every set of
  instructions, size of word and page, number of words, length of the cache and
  number of iterations and accesses. They assume that no access has bytes in a
  third word (`AccessFits`) and that the loop is executed once (`MaxSessions =< 1`:
  the run `ls_reentry` shows why). All but `OutSound` and `CarriedSound` assume
  that no target loop is nested (`~ NestedTargets`: its analysis takes first reads
  and last writes away in the middle of an iteration), and `CarriedComplete`
  that no access has its words on two pages (`AccessOnePage`), which aligned
  ones never have.
  - What is reported within an iteration rests on `NowInv`, which ties the present
    tables to the history byte by byte (`ByteInv`): a byte is in the global write
    mask iff it has been written in this iteration, a node of age 0 that covers
    it belongs to its last writer or first reader, and a node left over never
    hides one. `RecordStep` and `HereStep` say what a new access changes in the
    history, `ReadByte` and `WriteByte` that the tables follow.
  - What is reported across iterations rests on `CarryInv`: every node stands for
    an access that covers its bytes (`TraceFrom`), of the node's own iteration or
    of one that was not analysed, and left-over nodes exist only where there are
    no sources yet. For completeness, `FreshInv` says that all sources are
    older than the iteration being recorded, so that no distance 0 makes the fold
    forget (`DistInv`, `FoldPositive`), and `KeptInv` that every last write and first read
    of an analysed iteration is still named by a source, no older than itself.
* **`AddrStreamProofs`**: `TypeCorrect`, `RingCorrect`, `NoSharedBuffer`. `RingInv`
  is not inductive by itself: a cancelled stream must still be known to hold a
  cancelling buffer at the process' position (`CancelInv`), or the reader could
  walk past it, and the item index must be known to be 1 after a change of
  buffer (`ItemInv`), or an item could be written outside. `FillOne`, `FillLast`
  and `FreeHead` do the arithmetic of the ring once. `Refinement`: for one execution of
  the loop (`MaxSessions =< 1`) the ring implements `StreamQueue`, whatever the
  numbers and sizes of its buffers. Its invariant `QInv` adds what a reader
  relies on: items go into the process' own buffer (`OwnBufferInv`), no full
  buffer cancels but the one the process has cancelled with (`FlagInv`), the
  reader's copies are those of its buffer (`CopyInv`), and a token that is still
  to be labelled exists (`TokenInv`). One lemma per kind of step says which step of the
  queue it is, or that it stutters. A second execution is beyond it, because
  `EnterLoop` writes the header of buffer 0 wherever the process is. `Delivery`
  (`StoredDelivered`, also for one execution) rests on the refinement: what has been
  received followed by what is in the queue (`Published`) is left as it is by the
  reader (`HeadMoves`), and grows by the accesses of the process' buffer when
  that is published (`PublicationSends`). Both sides of `StoredDelivered` are
  flattened sequences, and grow at their end only: `FlattenAppend` says so of
  the recursive function in `FlattenSeq`, by induction over a set of numbers.
* **`ReadTasksProofs`**: `TypeCorrect`, `HeldCorrect`, `IsolationCorrect`, for every
  number of processes, threads, buffers and depth of nesting. The invariant says
  that a process has at most one task, pending or on a stack (`OneTask`), and none
  outside a batch (`BatchInv`), that the n-th buffer of an undisturbed process is
  full in its slot until its token is there (`StreamInv`), and that a task of
  such a process has the slot of its next token (`TaskInv`). `ModSucc` is the
  arithmetic of the slots.
* **`DepRangeProofs`**: `TypeCorrect`, `RangeCorrect`, `OutputCorrect`.
  `OutputExact` follows from `RangeInv` at the step of the output, and nothing
  changes after it.
* **`HashTraceProofs`**: `TypeCorrect`, `FlagCorrect`, `LatestCorrect`,
  `Complete`, `Sound`, `Independent`, `Output`: all properties of the run `hash`.
  The inductive invariant is their conjunction with `HistoryInv`, which says
  that the history knows only iterations up to the present one: without it a
  new access could be older than one it is compared with, and "the last two" of
  `LatestKept` would not be what `Added` keeps. `LCComplete` follows at each
  access from `LatestKept`: the nearest earlier access is among the two kept.
* **`PipelineProofs`**: `TypeCorrect`, `TablesKeptApart`, `AnalysedInOrder`,
  `IterationsConserved`, `Implements`, `MasterFinishes`, for every number of processes, tables, tokens and
  iterations and every way to share them. None of the properties is inductive.
  The invariant (`IInv`) follows the iterations of one process through the five
  places they can be in: stream, batch, queue, `LCDAFilter`'s token, its map.
  What is in a place was sent by its owner (`Owned`), what was sent is in a place
  (`Covered`), what is in a later place is an earlier iteration (`Ordered`; so
  none is in two places), streams and queues are sorted (`Sorted`), and what is
  on its way holds its table, which is full of it (`Tables`). `AnalysisInv` adds
  that the map has no gap below the iteration analysed last. One lemma per
  action; `MessageAppend`, `MessageTail`, `QueueAppend`, `QueueTail` say once what
  a queue operation does to membership and order, and `Unmoved` covers the
  actions that take no iteration elsewhere.

  `Implements` is the refinement of `OrderedAnalysis`. Sending and analysing are
  `Owned` and `AnalysisInv`: what LCDAFilter has noted has been sent, and what it is
  about to analyse is next. The final signal needs a second invariant (`FInv`),
  which follows the message that cancels. It is the master's last, sent when all
  iterations have been (`CancelLast`). Where it or the input made of it is, none
  of the master's iterations is in a stage before (`BatchClosed`, `QueueClosed`,
  `HandClosed`, `SignalClosed`), and `Stopped` says the same of a reader that
  has read it: by `Covered` they are then all noted. An iteration that is noted
  and next is being analysed (`NoneWaits`), with an input of its own process or of
  an earlier iteration's (`HandOwned`); so if one of the master's is still not
  analysed, one of another process comes before it (`FinishedHolds`,
  and `MasterFinishes` in terms of the history).

* **`ParallelTraceProofs`**: `TypeCorrect`, `TraceSeen`, `LIDCorrect`,
  `LCDCorrect`, `LCDFound`: all properties of the run `par_trace`, for every number
  of processes, tables, iterations and accesses, every set of instructions and
  every way to share the iterations. None of them is inductive; `TypeOK`
  alone is not, because an iteration may meet what another has left in its
  table. The invariant (`Inv`) has four layers.
  - Who uses what: a process reads its own iterations, each into the table it
    has by its number (`Owning`), what is handed over is an iteration that has ended,
    with its table (`Items`, `Results`, `Handed`, `Running`), iterations are analysed in
    order, with inputs that are not later (`Analyses`), and two of them that
    are not analysed yet have different tables (`Tables`). `Index` counts the
    iterations of a process; `ModNext` and `IndexNext` are its arithmetic.
  - The allocation: while there is no Trace, or a raw one, only tasks that are
    still allocating have accesses outside `torn` (`Made`). The first access that
    is listed for the analysis has found a Trace (`Tells`), and no task that has
    not may come after it, so that the Trace is settled once LCDAFilter is told of
    the word (`Told`): `TraceSeen`.
  - The present tables: `Matches` ties the table of an iteration that found it
    empty to the accesses of the iteration, byte by byte (`Faithful`). A byte is
    in the write mask iff it has been written, in a node only if its
    instruction was the last to write it, and in a node of its last writer unless
    that write was shorter than an earlier one. What `updatePresentWTrace` does to a list of any length
    is `OverwriteWalksOn` for a step and `WalkedWalks` for the whole walk, over disjoint
    nodes; `MatchesNext` is what a new access does to both sides. `Finds`
    and `Exacts` lift it to the dependences found: `LIDCorrect`.
  - The precede tables: a table holds nodes of instructions that have used it,
    from whatever iteration (`Holds`), and so do the dependences (`Carries`): `LCDCorrect`.
    For completeness, an iteration that was analysed with its own input, from
    a table it had found empty, has its first read and last write in the
    precede tables, with its own number or a later one (`Precedes`,
    `Completes`): `LCDFound`.

  The walk and `Joined` are recursive functions. That they are what their
  recursion says is `WalkExists` and `Recursion`, from the least number of a set
  (`LeastNumber`); induction along them is over a set of numbers (`Induction`), not over an
  operator.

Every invariant the passing runs check is a theorem, and so are the two refinements.
Only model-checked are the liveness properties (`WriterServed`, `AloneSignalled`,
`SentIsAnalysed`, `Served`), which are beyond this prover.

## 5. Not modelled

* **Complete-shadow runtime** (`LDDCompleteShadowRT.cpp`). What it computes is
  mostly undefined: the flags of a new `RWTraceInfo` and the iteration it
  compares with (608) are read before they are set, map nodes are erased while
  the loop goes on from them, and a first read that crosses a word dereferences
  the null slot it has tested the address of. A model would have to let every
  such value be anything, and no property of the dependences would be left.
* **Other builds of the parallel analysis**: `_FOUR_STAGES` (`ReadFilter` and
  `LIDAFilter` apart) and `_DDA_GAS_SHADOW` (310-2593 of
  `LDDParallelAnalysis.cpp`) are alternatives, by the preprocessor, to the build
  that is modelled.
* **Red-black tree**: only `RBTreeInit` is called; **interval set and tree**:
  containers of a library.
* **Platform and statistics** (`LDDShadowCommonRT.cpp`, `TimerProfilingRuntime.cpp`,
  `rdtscc.h`): mapping memory, reading `/proc` and the clock.
* **How the passes rewrite IR**: only the order of the calls they insert is
  modelled, by the modules of the runtime that receives them.
* **FTP library** (fork, join, distribution of iterations): not in the repository,
  modelled by the choices it leaves.
* In the modelled parts: stack-variable checks (the same calls with another
  address); accesses longer than 16 bytes; text and data on one shadow page.

The repository is a whole tree of LLVM, Clang and their test suite, some two
million lines; ParaFinder itself is `src/runtime/libddaprofile` and
`src/lib/Transforms/DDA`, of which a fifth of the lines are in the interval
containers and in `atomic.h`, and more in alternative builds. The models cover
the runtime's logic, which is a very small part of the tree.

## 6. Plan

Next: the four-stage build of the pipeline, as a second implementation of
`OrderedAnalysis`, with the theorems of `PipelineProofs` for it.
