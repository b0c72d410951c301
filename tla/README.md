# A TLA+ development of cldm

cldm is a unit test and mocking framework for C. A test binary links
`libcldm_main.a`, which provides `main`, and preloads `libcldm.so`, which holds
the framework and a wrapper for every mocked function. `main` finds the tests in
the symbol table of its own binary, runs them on one thread or on several, prints
a line per test and a summary, and returns 1 if a test failed.

This directory models the parts of it that decide whether those results can be
trusted: which tests a command line selects, how they are distributed, run,
reported and counted, what becomes of their output, on which calls a mock answers,
and the data structures this rests on. TLC checks the models
on small instances, and TLAPS proves their safety for every number of threads, tests,
keys, libraries and arguments, but for the tree and the automaton.

## The parts of the system

| part | sources | state | operations |
|---|---|---|---|
| parallel runner | `cldm_parallel.c` | slices, records, barrier, `early_abort` | collect and distribute, run a slice, reduce, join, clean up |
| test execution | `cldm_test.c` | per thread: log, current test, print buffer; shared: `io_lock`, `io_index` | init, run, assert, print, flush, reduce, summarise, free |
| sequential runner | `cldm_sequential.c` | none of its own | the same on one thread |
| thread ids | `cldm_thread.c` | pthread ids, number of jobs | id of the caller |
| mocks | `cldm_mock.h`, `cldm_mock.c` | per function and thread: count and action; per thread: disabled flag; global context flag | arm, call, enable, disable |
| symbol cache | `cldm_dl.c` | library handles; per thread: entries and a hash table over them | map libraries, look up the next definition, mark as resolved, free |
| hash table | `cldm_hash.c` | slots, in the struct or on the heap | insert, find, remove, clear, free |
| red-black tree | `cldm_rbtree.c` | nodes with links, threads and colors | insert, find, remove, clear, walk in order |
| collection | `cldm_collect.c`, `cldm_testrec.c` | tree of records, table of identifiers, marks in `argv` | collect all, collect by identifier, collect auxiliary procedures |
| arguments | `cldm_argp.c`, `cldm_dfa.c` | automaton of option names, parsed arguments | parse |
| stream capture | `cldm_io.c` | replaced streams and descriptors | capture, dump, restore |
| ELF reader | `cldm_elf.c`, `cldm_elfdump.c` | the mapped image | look up a symbol, read DT_NEEDED |
| byte sequences | `cldm_byteseq.c`, `asm/` | none | copy, compare, scan |
| no-return support | `cldm_jmpstack.c`, `cldm_noreturn.h` | stack of jump buffers | push, pop |
| entry point | `main/cldm_main.c` | none | calls all of the above |

How they interact. `main` disables all mocks, maps the libraries, parses the
arguments, captures the streams and calls one of the runners. A runner collects
the tests, enables the mocks of its thread around the global setup, each test and
the global teardown, and leaves everything a test does to `cldm_test.c`. Test
code calls the wrappers, which either perform the armed action or disable the
mocks and call the real function, found through the symbol cache of the thread,
which keeps its names in a hash table. Assertions find the log to count in by the
id of the calling thread.

What is hard in it:

* the threads share the logs, the slices and the report; three barrier waits, one
  mutex and one rwlock order the accesses, and the rest is a matter of which
  thread touches which array element when;
* the counters are added up by a parallel reduction that assumes nothing about the
  number of threads;
* a failure on one thread must stop the others soon, but leave none of them
  waiting at a barrier;
* failing allocations, collections and thread creations are handled in some places
  and not in others;
* mocks have to be seen by tests only, while tests, mocks and real functions call
  each other;
* a wrapper recognises that it has found itself only by being called again;
* the caches and buffers grow, and each of them has a different idea of when;
* `argv` is partitioned, pointed into and written to by three parts in turn;
* a tree is rebalanced on the way down, with threads in place of missing children;
* capturing takes six calls, any of which may fail, on files all processes share;
* `main` has one cleanup for all of its error paths.

`PROJECT.json` lists these hazards one by one, at the line where they bite, with
the properties that cover them.

What makes each part correct:

* runners: every test is run once, between setup and teardown, printed once with
  its verdict, and counted in the exit status; no data race; the run ends;
* mocks: the promised number of calls is answered, on the threads meant, to tests and
  to cldm's assertions within them, never to the runner or a real function;
* symbol cache: a wrapper reaches the first real definition, and everything opened
  is closed;
* hash table: it is a set; red-black tree: it is an ordered set, and balanced;
* collection: the records the identifiers name, neither more nor fewer, and an error for
  an identifier that names nothing;
* arguments: options, their values and identifiers are told apart in any order;
* capture: what the tests wrote is shown, and no file or closed stream is left over;
* `main`: the exit status is 0 only if what was asked for was done, and the process ends.

## Modules

| module | is | extends or instantiates |
|---|---|---|
| `TestRunner` | what a run promises, on however many threads | |
| `ParallelRun` | the parallel runner with the test execution | instance of `TestRunner` |
| `SequentialRun` | the sequential runner with the test execution, assertion by assertion | instance of `TestRunner` |
| `ParallelProofs` | proof: all safety of the parallel run and its refinement of `TestRunner` | extends `ParallelRun`, TLAPS |
| `SequentialProofs` | proof: all invariants of the sequential runner and its refinement | extends `SequentialRun`, TLAPS |
| `MockBook` | what mocks promise | |
| `MockCalls` | arming, wrappers, enabling and disabling | instance of `MockBook` |
| `MockProofs` | proof: hidden mocks, exclusive arming, the refinement of `MockBook` | extends `MockCalls`, TLAPS |
| `SymbolCache` | the symbol cache and library handles | |
| `SymbolProofs` | proof: the first definition is found, everything is released | extends `SymbolCache`, TLAPS |
| `KeySet` | what the hash table promises | |
| `HashTable` | the hash table | instance of `KeySet` |
| `HashProofs` | proof: the hash table is a set, keeps room and leaks nothing | extends `HashTable`, TLAPS |
| `OrderedSet` | what the red-black tree promises | |
| `RbTree` | the red-black tree | instance of `OrderedSet` |
| `MainThread` | the point the main thread is at, and its failing calls | |
| `ArgParse` | command line and automaton | extends `MainThread` |
| `ElfImage` | the executable's file | extends `MainThread` |
| `Collect` | the collection of the tests | extends `ArgParse`, `ElfImage` |
| `Selection` | from the command line to the tests to run | extends `Collect` |
| `CollectProofs` | lemmas: what parsing and collecting keep | extends `Collect`, TLAPS |
| `SelectionProofs` | proof: the tests are those asked for, which identifiers are refused | extends `Selection`, `CollectProofs` |
| `Capture` | the captured streams and their files | extends `MainThread` |
| `Program` | `main` | extends `Collect`, `Capture` |
| `ProgramProofs` | proof: the exit status, streams and files of `main` | extends `Program`, `CollectProofs` |
| `MCParallelRun`, `MCMockCalls`, `MCSymbolCache`, `MCHashTable`, `MCRbTree`, `MCSelection`, `MCProgram` | constants for TLC | extend their module |

Definitions whose comment starts with "Slip" are variants of the one below them,
with a mistake that could have been made there. They take no part in the models;
exchanged for the original they show that a property notices the mistake.

### ParallelRun

`pc[t]` is the statement thread `t` executes next, thread 0 being the caller of
`cldm_parallel_run`, 1 the one that collects. A step is what a thread does between
two points at which another thread can interfere: a barrier, a lock operation, or
an access to a log, a slice or `early_abort`. A test with its setup and teardown is
two steps, beginning and body, so that bodies of different threads overlap; the
body picks one of `Outcomes` for how many assertions it makes, how many fail and
how many of their messages find room. `pthread_create` starts the thread in one
step and stores its id in the next, so that `cldm_thread_id` may answer 0 for a
thread that is already running. The barrier is one step that moves all threads.

The lock `io_lock` is a set of holders, so that a model without locking can be
written down; `fail_lock` is not a variable because each critical section is a
single access and a single step. Data that only properties look at (`runs`,
`setups`, `teardowns`, `failedOn`, `reported`, `acc`, `snap`) is marked as history
and appears in no guard. `acc[l]` is the set of threads whose counts log `l`
includes.

`Faults` names the library calls that may fail: initialising the barrier or the
rwlock, creating a thread, the collection, and allocating the records or a log.

### SequentialRun

The same functions of `cldm_test.c`, at a finer grain: one step per assertion, the
capacity of the log and its growth. `fail_fast` is chosen initially.

### MockCalls

A thread's `stack` says whose code is running: the runner's (no frame), a block
surrounded by `cldm_mock_enable`, a function that a mock invokes, cldm itself in an
assertion or a warning, or the real function. Each frame keeps the flag the C macros
save. Any code may call a mocked function at any time. `WHEN_CALLED` is a loop over
contexts, one step per context, with the bounds computed at its head from the
global context flag. The four macros that generate wrappers differ in the actions
they know; `Shape` says which of them made a function. What a mock returns or
assigns is left out. The runner's part is reduced to the points where it enables
mocks: the barrier, the loop over the tests and the join are those of ParallelRun.

cldm's own code within a test runs with the mocks enabled. `cldm_assert_streq` compares
by `strcmp` or `strncmp` whether it passes or not (`cldm_test.c:266`), the record of a
failed assertion calls `realloc` and `snprintf` (`cldm_test.c:74,89`), and a wrapper that
has to fit a value of another size prints a warning (`cldm_mock.h:264`). A test that mocks
one of these functions thereby changes what its own assertions do, and their calls are
counted as its own. `MockBook` has a role for such code, "framework", and says so: the
book answers it like the test, and only the runner and the real functions are sure to get
the real function. The comment on the first statement of `main`, "Prevent mocks from
interfering with internals" (`main/cldm_main.c:15`), says more than that.

Left out are the warning of an `assign` between two rounds of `WHEN_CALLED`
(`cldm_mock.h:595`) and tests that call `cldm_mock_disable_all` themselves.

### SymbolCache

One thread, as each has a cache of its own. A library either does not have a
symbol, really defines it, or hands out the wrapper again; every such assignment is
an initial state. `stack` holds the wrappers that are calling. The growth of the
cache is modelled as it is, with a hash table that afterwards contains one name.
The entries' hash table itself is a set of names, which is what `HashTable` shows
it to be for users who never remove, and this one does not.

### HashTable

Slots hold a key, are empty or vacated. Hash values are any function from keys to
`HashValues`. An operation is a step, with the probing as an operator. `use` records
what callers have done: the table is only promised to be a set (`KeySet`) until
something is inserted after a removal, because an insertion reuses vacated slots in
front of the key it is inserting, and growing takes vacated slots for keys. The
model goes on beyond that point, and reaches the duplicate, the crash and the
endless search; nothing in cldm removes keys.

### RbTree

Memory is a function from nodes to their two links, two thread flags and color; the
sentinel and the two nodes that insertion and removal put on the stack, above the
root, are nodes too. An operation is a step; the descents are recursive operators,
the rotations and the two rebalancing procedures operators on memories. `drained`
records that something was removed: from then on the tree is promised to answer
searches and removals only, because a removal leaves threads behind that lead to the
wrong node. A walk may then miss keys or not end, and an insertion may hang its node
under one that is gone. cldm only inserts and walks, while `cldm_rbtree.h` declares
the operations without such a limit; walks and insertions after a removal are left
out by a guard.

### ArgParse, ElfImage, Collect, Selection

A string is a sequence of chunks, where a chunk is a run of characters that no option
splits, so that `--verbose` and `--version` share a chunk, `--capture` is the
beginning of `--capture-none`, and a group of short options has a chunk per letter.
The automaton is built option by option out of such chunks. `argv` is chosen one
string at a time, when the parser reads it. Each handler is an operator on the parser
context; a value that is still to come is `pending`. The partition yields the numbers
of the positional arguments, which the collection hashes, matches and marks.

An image is what `cldm_elf.c` reads of the executable: kind, sections, symbols,
strings, segment addresses and where the loader put it. An executable that is
loaded where it was linked to has base address 0, which `cldm_map_elf` takes for an
error; `main` then returns 1 without a message.

A mark replaces the byte that ends a string by a 1, and since the strings of `argv`
follow each other, the string then runs on into the next one. `marked` has the numbers
of the strings whose end is gone and `End` finds the end `strlen` finds. The tree and
the hash table of the collection are sets, as `RbTree` and `HashTable` justify.

At the end each identifier is searched for a byte below 2, and is refused if that is the
null byte. The comparison is one of signed chars (`cldm_byteseq.c:57`, and `vpcmpgtb` in
the AVX2 version), so that the search also stops at any byte from 0x80 on. An identifier
with such a byte, say a file name in UTF-8, passes even if it names nothing: its test is
silently not run. `Low` is the set of the chunks with such bytes, `StopsWithin` says that
an identifier has one, and `JudgedIfDisjoint` promises a refusal for the others. In the
last three bytes of a page the AVX2 version compares the other way round; what that does
to an identifier depends on its address and is outside the model.

The set of tests is right whatever the marks (`SelectionExact`); the judgement of the
identifiers is right under the premises of `JudgedIfDisjoint` only. Without them the
model, as the code, shows two effects. A record is looked up by its file first and by
its name only if the file is not asked for, so `a.c foo`, with `foo` in `a.c`,
leaves `foo` unmarked and is refused as naming nothing. And a file with two tests is
marked twice: the second mark ends up behind the string after it, so that an unknown
identifier there is accepted, or the name of the redirect file, if it comes there, runs
on. The usage text says that the list "may contain both file and test names, in any
order" (`cldm_argp.c:85`). A hash table that cannot grow makes an identifier look
like a duplicate, which exempts it from the check; the properties ask for exact results
only if no call has failed.

### Capture, Program

For each stream: the replacement `cldm_stdout` or `cldm_stderr`, where the descriptor
leads, which file has the name under `/tmp` (ours or that of another process), and
the files' contents in pieces as `fgets` will return them. A replacement that is
closed and not forgotten is "closed"; using it sets `misused`, after which the
process may crash at any step.

`Program` is `main`: `at` is the call it is at. `MainThread` lets any call into the C
library fail, up to `MaxFailures` in a run. The steps of `ArgParse`, `ElfImage`,
`Collect` and `Capture` are composed by leaving each other's variables alone. Between
collection and dump stands a runner reduced to its promise in `TestRunner`: it runs
tests in any order, each passes or fails, and the summary gives the status. Its
failures are those the detailed models have: a sequential runner without a log returns,
a parallel one without a barrier or lock returns, and later ones crash or hang. There is
one exception, `NoLogs`. A thread that cannot allocate its log returns behind the first
barrier, and the others then wait for it at the second; but if no thread can, all of them
have returned, and the runner joins them and prints the summary of no tests. `main` then
returns 0 (`cldm_parallel.c:50`). `StatusHonest` names this case as the one in which status
0 says nothing of the tests. A log that cannot grow (`logs = "full"`) ends the tests of
its thread, or the sequential run, after a test that has failed. When
identifiers are refused and there are several jobs, the parallel runner goes on to call
the global teardown it has not collected, and crashes. `OtherProcess` is another cldm
that opens, fills or removes the files at any moment.

## Runs

Passing:

| run | instance | shows |
|---|---|---|
| `parallel` | 3 threads, 5 tests, buffers of one entry, bodies that pass, fail, or fail without room for the message, and every library call allowed to fail | race freedom, bounds, the reduction, bracketing by setup and teardown, each test once, none skipped, exclusive printing, complete report, the right exit status whenever there is one |
| `parallel_fail_fast` | 3 threads, 5 tests, buffers of two, `--fail-fast` | at most one more test per thread after the abort, refinement of `TestRunner`, termination |
| `sequential` | 3 tests of up to 3 assertions, a log with room for two messages, with and without `--fail-fast`, failing allocations | the log never overflows and loses messages only with the run's end, counts, report, fail-fast, refinement of `TestRunner`, termination |
| `mocks` | 2 threads with a test each, calls 3 deep, one function | mocks are hidden from the runner and from real functions, but not from cldm's assertions and warnings in a test, contexts are filled while nobody looks, refinement of `MockBook` |
| `symbol_cache` | 4 symbols, one with too long a name, 3 libraries for 2 handles, a cache that outgrows its array twice | the first definition is reached, a wrapper advances, everything is released |
| `hash_table` | 4 keys, 3 hash values, two growths, failing allocations | refinement of `KeySet`, room for the search to stop, no leak |
| `rbtree` | 7 nodes, two of them with the same key | balance after every sequence of operations, refinement of `OrderedSet` |
| `selection` | up to 3 arguments out of 22 kinds, 3 tests in 2 files, one failing allocation | the automaton knows the options and nothing else, positional arguments are told from switches and values, the tests collected are those asked for, identifiers that name nothing are refused unless they have a byte from 0x80 on |
| `program` | 8 kinds of executable, up to 2 arguments out of 7 kinds, 2 tests, one failing call anywhere, one step of another process | the exit status is 0 only for information, for collected tests that have all run and passed, or for a parallel run without a single log, files under `/tmp` are removed, closed streams are not used, captured output is shown, the process ends |

Disagreements between the code and what the repository says of it; each run ends
in a violation, explained under "findings" in `PROJECT.json`:

| run | shows |
|---|---|
| `parallel_full_house` | with 32 jobs, the documented maximum, the reduction reads 32 logs behind the end of `testlogs` |
| `parallel_messages` | the summary prints failure messages from logs the workers have freed |
| `symbol_lost` | when the cache grows during a call, the symbol being called is lost and `cldm_dlresolve` ends the program |

In `parallel` a failed collection ends in the call of a null global teardown and a
log that cannot be allocated leaves the other threads at the second barrier, unless there
are none left. That run checks safety only, and these are ends that its properties allow;
`Program` takes the first two as the outcomes "crashed" and "hung", and has `NoLogs` for
the third.

### Bounds

Three threads are the fewest for which thread 0, the collecting thread and a pure
worker are all there, the job count is no power of two, and the reduction takes
two rounds and reads a log that belongs to no thread. Five tests on three threads
give slices of different lengths and, with `--fail-fast`, leave tests to be
skipped. Buffers of one and two entries are full after one and two
tests instead of the many the code has, so that the printing of a full buffer and
the flush of a rest both happen. `MaxThreads` is 4 instead of 32. A log for two
messages grows with the second. Hash values 2, 6 and 10 collide differently in each
of the capacities 3, 7 and 17. Four symbols fill a cache of two, then of four. Two
threads are enough for the mocks, as a context belongs to its own thread or is
written by another one; calls three deep nest a real function in a mocked one in a
test.

Seven nodes give trees of three levels, with every case of both rebalancing
procedures. Three arguments are the fewest that hold an option, its value and an
identifier in every order, or two identifiers and a switch between them; the four
argument slots of `MaxParams` also count the program's name, and one `argv` too long
is an initial state. The automaton outgrows its states and edges with deltas of 8
and 6. The `program` run takes fewer kinds of argument and more kinds of executable:
an identifier, an unknown one, one with a non-ASCII letter, several jobs, a redirect with
`--fail-fast`, help, and capturing a single stream. One failing call reaches every error
path of `main`, since none of them needs two; that no thread gets its log counts as one.
One step of another process can empty, extend or remove a file at each point. One piece of output per stream is enough to lose it.

`MaxDepth`, `MaxTests`, `MaxAsserts`, `MaxCapacity`, `MixedCapacity`, `MaxFailures`,
`MaxPieces` and `MaxOthers` are the bounds of the models, all in guards.

Symmetry is used over the keys of the hash table and over the symbols with fitting
names, where only safety is checked.

### Fairness

`parallel_fail_fast` and `sequential` assume that every
thread that can take a step takes one eventually, which is what the scheduler
gives, that the barrier releases its waiters once they are all there, and that test
bodies return. Fairness is weak, and separate for each thread. No fairness is
needed for `io_lock`: a thread that waits for it is continuously enabled from the
moment when no other thread wants it any more, and all others want it finitely
often. `program` assumes weak fairness of the steps of `main` as a whole, one thread
that keeps running; tests that print and other processes are under no fairness.
Nothing is assumed about calls that fail: `Exits` promises nothing once one has. Without
one it excuses a single crash, that of a parallel run whose collection has failed.

Deadlock is checked everywhere but in `parallel`, where a failing call may
really stop the run. Ended runs stutter.

## Proofs

The theorems hold for every value of the constants that satisfies the assumptions
named `...Assumption` in the modules of the models, and for every set of failing
calls. Unless the table says more they have no other hypotheses.

| module | theorem | says |
|---|---|---|
| `ParallelProofs` | `PhasesHold` | the inductive invariant `Typed /\ PhaseInv` |
| | `RaceFreedom` | `Spec => []RaceFree` |
| | `InBounds` | `Jobs < MaxThreads => (Spec => []LogAccessInBounds)` |
| | `SlicesHold` | the inductive invariant with `SliceInv` and `Entries` |
| | `TypeCorrect` | `Spec => []TypeOK` |
| | `RunOnce` | `Spec => []NoTestTwice` |
| | `RunHolds` | the inductive invariant `RunInv` |
| | `PrintsAlone` | `Spec => []PrintingExclusive` |
| | `Bracketed` | `Spec => []TestsBracketed` |
| | `StopsPromptly` | `Spec => []FailFastPrompt` |
| | `CountedOnce` | `Jobs < MaxThreads => (Spec => []EachThreadCountedOnce)` |
| | `ExitStatus` | `Jobs < MaxThreads => (Spec => []VerdictCorrect)` |
| | `ReportHolds` | the inductive invariant `ReportInv` |
| | `NoneSkipped` | `Spec => []NothingSkipped` |
| | `ReportIsComplete` | `Spec => []ReportComplete` |
| | `RunnerImplemented` | `Jobs < MaxThreads /\ "init" \notin Faults => (Spec => ImplementsRunner)` |
| `SequentialProofs` | `SeqHolds` | the inductive invariant `SeqInv` |
| | `MessagesFit`, `FailedCounted`, `NoMessageLost`, `StopsAtFailure`, `ReportIsComplete` | `Spec => []P` for `MessagesInBounds`, `FailedTestsExact`, `MessagesKept`, `FailFastStops`, `ReportComplete` |
| | `RunnerImplemented` | `Spec => ImplementsRunner` |
| `MockProofs` | `MockHolds` | the inductive invariant `MockInv` |
| | `MocksHidden`, `ArmedAlone` | `Spec => []P` for `HiddenFromOthers`, `ArmingExclusive` |
| | `BookKept` | `Spec => ImplementsMockBook` |
| `HashProofs` | `HashHolds` | the inductive invariant `HashInv` |
| | `SearchesStop`, `BlocksFreed` | `Spec => []P` for `RoomToStop`, `NoLeak` |
| | `SetImplemented` | `Spec => ImplementsKeySet` |
| `SymbolProofs` | `BooksHold` | the inductive invariant `Books` |
| | `Releases` | `Spec => []AllReleased` |
| | `LookupsHold` | the inductive invariant `Books /\ Lookups`, if `Recursion = FALSE` |
| | `WrappersAdvance`, `FindsFirst` | `Spec => []P` for `WrapperAdvances`, `FirstDefiner`, if `Recursion = FALSE` |
| `SelectionProofs` | `Exactness`, `Judgement` | `Spec => []P` for `SelectionExact`, `JudgedIfDisjoint` |
| `ProgramProofs` | `Honesty`, `ClosedStreams`, `FilesRemoved`, `CaptureIsShown` | `Spec => []P` for `StatusHonest`, `NoClosedStream`, `TempFilesRemoved`, `CapturedShown` |

Three hypotheses go beyond the assumptions, and all are needed. `Jobs < MaxThreads`
excludes the one job count for which the reduction reads logs behind `testlogs`,
which the run `parallel_full_house` shows. `"init" \notin Faults` excludes a log
that cannot be initialised: its thread returns without running its slice, while
`TestRunner` lets tests be left out only if one has failed. `ReportComplete` and
`NothingSkipped` are stated so that they hold with such failures too. `Recursion = FALSE` says that no
mocked function calls itself by way of its wrapper: while its entry is unresolved, a
second call of it is not told from one that has come back to the wrapper, and the
search goes on behind the library that defines it.

Most assumptions only give the constants their types. Three say something of the
outside. `GrowthAssumption` is discussed with the hash table. `ImageAssumption` is
about the executables: the name of every test record is in `.strtab` once, and if
the loader has given all records an address, then there is memory at these
addresses only and no two names lead to the same record. The linker sees to that,
because each record is a global variable of its own, `cldm_testrec_` and the test's
name (`cldm_test.h:32`). `MappedAssumption` says of the images of `Selection` that their
base address is not 0, as `main` gives up on one before it comes to the command line;
`Program` has such images, and the proofs about it do without this assumption.

### The parallel run

None of the properties is inductive, since each depends on where all the other
threads are. `PhaseInv` says this: the run is in one of five phases (before the
first release of the barrier, given up, running tests, in the rounds of the
reduction, ending), and each phase confines each thread to a few labels. In the
rounds all threads have the same stride. It is inductive together with `Typed`, the
types without any bound that depends on the distribution. To keep its proof
readable, lemma `Moves` first reduces every action to one of a dozen moves of the
control state, and the proof takes these moves phase by phase.

Race freedom then follows by cases: statements that write a log write the thread's
own (lemma `WritesOwn`, for which all ids must have been stored before the first
test), and whoever reads a log of another thread, in the reduction or the summary,
does so while no one writes it (lemma `ReadsQuiet`): in a round with stride `i`
threads below `i` write their own logs and read logs from `i` on. `InBounds` needs
that the stride is at most the job count rounded down to a power of two, and that
this lies below `MaxThreads` unless they are equal (lemma `StrideInside`).

`SliceInv` fixes what the distribution hands out: slice `i` starts at
`StartOf(i)`, in closed form, slices are adjacent and end with the last test
(lemmas about division), threads begin tests only inside their slices and a test
has been run only if its thread has begun it. `Entries` adds that running, buffered
and printed tests exist. Together they give the bounds in `TypeOK` and that no test
runs twice.

`RunInv` adds what each phase has established. `Locked`: who is at which statement
holds `io_lock`, alone. `Prepared`, `TornDown` and `Untouched`: what has been set
up, torn down, and not yet touched. `Working`: the test a thread is in is the last
one it has begun of its slice. `Stopping`: a thread that returns to its loop after
`early_abort` has started no test since. `Added` is the invariant of the reduction:
in the round with stride `m` log `t` includes the threads `t` modulo `2 * m` before
its thread has added the log `m` places on, and those `t` modulo `m` afterwards. At
the end log 0 includes all threads. `VerdictCorrect` needs in addition that a log
counts a failed test only if one of the threads it includes has run one (`Counted`).

`ReportInv` follows each test to the report. `Covered`, `RanBegun` and `Through`
tie the tests run to how far each thread is in its slice, which at the joins gives
`NothingSkipped`. `Placed` says that a test that was run is being run, or is in one
print buffer, or has been printed, and never two of these; `Tallied` that the index
printed is their number; `Judged` that each verdict is the one its
assertions gave; `Blamed` that whatever stops a loop early is a failed test.
The refinement needs `Advanced`, which relates what the callers of the run see to
where its threads are. It maps the global procedures to `SetUp` and `TearDown`, the
return of a test's body to `RunTest`, the summary to `Report`; every other action is
a stutter or gives up before the first test.

### The sequential run

`SeqInv` has the same shape on one thread and at the grain of assertions. `Placed`
says what each place in the run implies, `Judged` what the verdict on the last test
means for the loop, `Buffered` that the tests that have returned are printed or still
in the buffer, with their verdicts, and `Logged` what the log counts and what of its
buffer is used. The invariants of the runs are conjuncts of it.

### Mocks

`Typed` and `PhaseInv` say where each thread may be: in a global procedure only one
of them, in tests all of them, with calls nested as a list of frames. `Visible` is
`HiddenFromOthers` strengthened by what each frame has saved (`Nested`), so that
each return restores the flag the call found, and by what may run outside of tests
and global procedures (`Closed`). `ContextOpen` says when the global context is in
force, which is what decides on the extent of a loop over contexts, and `Looping`
how far such loops may go. `BookKept` takes a loop that has filled some of its
contexts for one that has filled them all, so that the first step of the loop is the
abstract one and the others are stutters. A frame of the framework maps to its role, under
which the abstract step lets the mock answer, and its end to a change of role.

### The hash table

Keys, hash values and the static capacity are arbitrary. The one assumption that is
more than a range is `GrowthAssumption`: `cldm_ht_sizeup` finds a larger size. The
loop in the code has no limit, and Bertrand's postulate says that a limit of a bit
more than twice the smallest candidate is enough; TLC evaluates the assumption for
the capacities of its run, the prover takes it for all.

`Round` says that probing meets every slot once in a round, which is all the proofs
use of the arithmetic. A table is `Sound` if no key is stored twice and no slot
between a key and its home slot is empty. On a sound table with an empty slot
`cldm_ht_probe` finds exactly the keys that are there (`Finds`), and storing a key,
vacating a slot and rehashing keep tables sound (`PutStores`, `VacateKeeps`,
`RehashKeeps`). `Rehash` is a recursive function; that it is defined (`LoopsExist`)
and what it computes is proved by induction, as the least slot at which the claim
fails, which exists by `LeastExists`. The counts of entries and of used slots give
the room: the table expands before the entries pass half of the slots, and removals
use up none as long as insertions do not follow them. `Counted` holds for all
callers, and is what lets `Store` assume that the search for a free slot ends.

### The symbol cache

`Books` counts: from each place in the program follows how often each handle has been
closed (`Closed`), and a block is there only once the static array is outgrown
(`Block`).

`Lookups` relates the entries to the wrappers that are running. An entry says where
the last search for its symbol ended, with no real definition before it
(`Searched`), and an unresolved one is that of the innermost wrapper for its symbol
(`Innermost`): that makes the next search start behind the library that has called.
The hard part is the growth, which keeps the first entry only, and on leaving the
static array under a name that is none. So `Placed` allows the first entry to be found
by such a name. Its symbol may be called again, get a second entry, and come back
under its real name when the cache grows once more; `Single` says that as long as the
first entry is unresolved no second one is found for its symbol. `Chains` says that a
wrapper that found itself has called nothing but itself. That no other wrapper calls a
symbol again which is being called is what `Recursion = FALSE` gives.

### The command line and the collection

`CollectProofs` has the steps that `Selection` and `Program` share. `ArgInv`: the
parameters are distinct positions in `argv`, in order, whatever options stand in
between; `InOrderLists` and `Partitioned` say that partitioning keeps that.
`CollectInv` follows the search: after `next` strings of `.strtab` the tree has the
records seen so far that are asked for (`Chosen(Seen(next))`), where what is asked for
is decided by the table of identifiers, and each parameter has its text in there
(`Entered`) unless a call has failed. At the end all names have been seen, so that
the tree is `Wanted`. A mark does not disturb the search, since the table keeps the
identifiers with the lengths they were hashed with.

`MarksInv` is about the marks. While the identifiers are hashed, those marked are the
ones not in the table; during the search those in the table are marked exactly if a
record that was seen has used them. If identifiers share no test and none has two, each
is marked once at most, and then `OwnEnd` says that the mark stays in its own string.
So at the end the ones not marked are those that name nothing, and of these the ones
that are `Checked`, without a byte that stops the search, make the collection fail.

### main

`Steps` sorts the steps of `Program` by what they leave alone: most do not touch the
streams, six work on one stream, two print, and the rest are tests or other processes.
The proofs about streams and files then have four cases instead of one per action. `StatusInv`
holds status 1 until the runner has given its judgement, which nothing after it
changes (`JudgedStays`). `Logless` is the case in which no thread has a log: no test has
been run, and none will be. `ClosedInv` says that a replacement is closed only after a
failed capture. `FilesInv` says when a stream has a file: after its capture, and after
its restoration only if the removal failed. `ShownInv` is `Untouched` before the
capture of a stream, and then `Kept`: its file has what was written, and once dumped
that is what has been shown. With no failing call and no other process nothing
else writes to the file.

### Only model-checked

* `RedBlack` and `ImplementsOrderedSet`: the descents in `RbTree` are recursive operators,
  and what they compute is an induction over the depth of the tree.
* `DfaExact` and `PositionalsExact`: each compares the parser with a recursive reading
  of all the arguments or options, which is an induction over their number.
* `Termination` and `Exits`: liveness.
* The three violations, which need an instance each.

## Not modelled

* The list of needed libraries is an input of `SymbolCache`; how `cldm_elf.c` reads it,
  and the section headers and string tables, out of mapped bytes is left out, and so is
  `cldm_elfdump.c`, which prints them.
* The byte sequence functions work on memory, most of them in assembly. The models take
  what they are named for; the comparison in C that is built without AVX2 does not do it
  (`cldm_byteseq.c:50`).
* The jump stack cannot be reached, as the macro that uses it does not compile.
* The macro library and the configuration program run before the program exists.
* `cldm_uniq`, `cldm_stable_partition` and `cldm_clp232` are called by tests of cldm only;
  `cldm_ndigits` pads output.
* The layout of the usage text, of the report and of messages.
* Threads that a test creates itself, functions left by `longjmp`, assertions in the
  global setup, and the explicit list of libraries of `cldm_dlmap_explicit`.

## Plan

All components that decide on results are modelled, and every safety property of a
passing run is proved but the four named above. What would be next:

1. `RbTree` with its descents as recursive functions on bounded paths, so that the order
   of the tree, if not its balance, can be stated step by step and proved;
2. `PositionalsExact`, as an invariant of the parser that names the pending option
   instead of reading the arguments again;
3. `cldm_elf.c` below the level of sections, where the symbols come from.
