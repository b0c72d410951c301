---------------------------- MODULE ParallelRun ----------------------------
(***************************************************************************)
(* The concurrent test runner of cldm: cldm_parallel.c together with the   *)
(* per-thread logs, the buffered progress report and the summary of        *)
(* cldm_test.c it drives.                                                  *)
(*                                                                         *)
(* Thread 0 is the caller of cldm_parallel_run.  It spawns thread 1, which *)
(* collects the tests, distributes them and runs the global setup, and the *)
(* pure workers 2..Jobs-1.  All of them then execute cldm_thread_run:      *)
(* a barrier, the thread's slice of the tests, a barrier, a parallel       *)
(* reduction of the counters into log 0 with a barrier after each round.   *)
(* Thread 0 finally joins the others, runs the global teardown and prints  *)
(* the summary that gives the exit status.                                 *)
(*                                                                         *)
(* The pc of a thread names the statement it is about to execute; two      *)
(* threads can touch shared data at the same time exactly when both are    *)
(* about to do so.                                                         *)
(***************************************************************************)
EXTENDS Integers, Sequences, FiniteSets

CONSTANTS
    Jobs,        \* cldm_jobs: the threads of the run, the caller included
    MaxThreads,  \* CLDM_MAX_THREADS: the length of the per-thread arrays
    NTests,      \* the number of tests the collection yields
    BufferSize,  \* CLDM_TESTBUFFER_SIZE
    FailFast,    \* args->fail_fast
    Outcomes,    \* what a test body may do, see OutcomeType
    Faults       \* the library calls that may fail in this run

Threads == 0..(Jobs - 1)
Logs    == 0..(MaxThreads - 1)
Tests   == 0..(NTests - 1)

\* A test body makes total assertions, failed of them fail, and the messages
\* of logged of these find room in the log (the others hit a failing realloc).
OutcomeType == [total : Nat, failed : Nat, logged : Nat]

FaultNames == {"barrier", "rwlock", "spawn", "collect", "records", "init"}

\* The powers of two a job count can be rounded down to.
Powers == {1, 2, 4, 8, 16, 32}

ASSUME ThreadsAssumption == MaxThreads \in Powers \ {1}
\* The range check at the head of cldm_parallel_run.
ASSUME JobsAssumption    == Jobs \in 2..MaxThreads
ASSUME TestsAssumption   == NTests \in Nat
ASSUME BufferAssumption  == BufferSize \in Nat \ {0}
ASSUME FlagAssumption    == FailFast \in BOOLEAN
ASSUME OutcomeAssumption ==
    /\ Outcomes \subseteq OutcomeType
    /\ \A o \in Outcomes : o.logged <= o.failed /\ o.failed <= o.total
ASSUME FaultsAssumption  == Faults \subseteq FaultNames

\* Slips: rounding up, and starting one halving too late.
flp232_ceil(x) == CHOOSE p \in Powers : x <= p /\ p < 2 * x
flp232_half(x) == (CHOOSE p \in Powers : p <= x /\ x < 2 * p) \div 2

\* cldm_flp232 on the job counts: the largest power of two not above x.
flp232(x) == CHOOSE p \in Powers : p <= x /\ x < 2 * p

VARIABLES
    pc,          \* thread -> the statement it executes next
    spawned,     \* how many pthread_create calls stored their cldm_threads id
    ok,          \* thread -> init_successful
    begun,       \* thread -> tests of its slice it has begun (i, or i + 1)
    stride,      \* thread -> i of the reduction loop
    thread_ntests, thread_startidx,  \* the slices
    dist,        \* i and startidx of the distribution loop
    records,     \* is the array of test records allocated
    auxprocs,    \* have the auxiliary procedures been collected
    early_abort,
    log,         \* testlogs
    current,     \* current_tests
    buffer,      \* buffered_tests
    io_init,     \* is the mutex io_lock initialised
    io_lock,     \* the threads holding io_lock
    io_index, io_total,
    status,      \* exit status, -1 while the run goes on
    \* History, read by no guard: how often each test and the global
    \* procedures were run, which tests failed on which thread, the lines
    \* printed, whose counts a log includes, begun when early_abort was set.
    runs, setups, teardowns, failedOn, reported, acc, snap

runVars  == <<begun, current, runs, failedOn>>
distVars == <<thread_ntests, thread_startidx, dist, records, auxprocs>>
ioVars   == <<buffer, io_init, io_lock, io_index, reported>>
vars == <<pc, spawned, ok, begun, stride, thread_ntests, thread_startidx,
          dist, records, auxprocs, early_abort, log, current, buffer, io_init,
          io_lock, io_index, io_total, status, runs, setups, teardowns,
          failedOn, reported, acc, snap>>

-----------------------------------------------------------------------------
ZeroLog == [failed_tests |-> 0, failed_assertions |-> 0,
            total_assertions |-> 0, size |-> 0, mem |-> "null"]

\* What the memory behind the array may hold, were it read as a log.
Garbage == {ZeroLog, [ZeroLog EXCEPT !.failed_tests = 1]}

NoTest == [test |-> -1, pass |-> FALSE, fatal |-> FALSE]

Goto(t, label) == pc' = [pc EXCEPT ![t] = label]

\* cldm_thread_id: the index whose stored pthread id is the caller's, or 0.
cldm_thread_id(t) == IF t \in 1..spawned THEN t ELSE 0

Init ==
    /\ pc = [t \in Threads |-> IF t = 0 THEN "start" ELSE "off"]
    /\ spawned = 0
    /\ ok = [t \in Threads |-> FALSE]
    /\ begun = [t \in Threads |-> 0]
    /\ stride = [t \in Threads |-> 0]
    /\ thread_ntests = [t \in Threads |-> 0]
    /\ thread_startidx = [t \in Threads |-> 0]
    /\ dist = [i |-> 0, startidx |-> 0]
    /\ records = FALSE
    /\ auxprocs = FALSE
    /\ early_abort = FALSE
    /\ log = [t \in Logs |-> ZeroLog]
    /\ current = [t \in Threads |-> NoTest]
    /\ buffer = [t \in Threads |-> <<>>]
    /\ io_init = FALSE
    /\ io_lock = {}
    /\ io_index = 0
    /\ io_total = 0
    /\ status = -1
    /\ runs = [k \in Tests |-> 0]
    /\ setups = 0
    /\ teardowns = 0
    /\ failedOn = [t \in Threads |-> {}]
    /\ reported = {}
    /\ acc = [t \in Logs |-> IF t \in Threads THEN {t} ELSE {}]
    /\ snap = [t \in Threads |-> 0]

-----------------------------------------------------------------------------
(* Thread 0: cldm_parallel_run up to its own cldm_thread_run.              *)

\* Initialise the barrier and the rwlock, returning 1 when one fails.
StartUp ==
    /\ pc[0] = "start"
    /\ \/ Goto(0, "spawn") /\ UNCHANGED status
       \/ /\ {"barrier", "rwlock"} \cap Faults # {}
          /\ Goto(0, "returned")
          /\ status' = 1
    /\ UNCHANGED <<spawned, ok, stride, runVars, distVars, ioVars, early_abort,
                   log, io_total, setups, teardowns, acc, snap>>

\* pthread_create starts thread spawned + 1, before it stores the id.
Spawn ==
    /\ pc[0] = "spawn"
    /\ LET k == spawned + 1
       IN  pc' = [pc EXCEPT ![0] = "create",
                            ![k] = IF k = 1 THEN "collect" ELSE "init"]
    /\ UNCHANGED <<spawned, ok, stride, runVars, distVars, ioVars, early_abort,
                   log, io_total, status, setups, teardowns, acc, snap>>

\* pthread_create returns, cldm_threads[spawned] holds the new thread's id.
SpawnReturn ==
    /\ pc[0] = "create"
    /\ spawned' = spawned + 1
    /\ Goto(0, IF spawned' = Jobs - 1 THEN "init" ELSE "spawn")
    /\ UNCHANGED <<ok, stride, runVars, distVars, ioVars, early_abort, log,
                   io_total, status, setups, teardowns, acc, snap>>

\* pthread_create fails: cldm_rtassert leaves the process with exit(2).
SpawnFail ==
    /\ pc[0] = "spawn"
    /\ "spawn" \in Faults
    /\ pc' = [t \in Threads |-> IF t = 0 THEN "exited" ELSE "off"]
    /\ status' = 2
    /\ UNCHANGED <<spawned, ok, stride, runVars, distVars, ioVars, early_abort,
                   log, io_total, setups, teardowns, acc, snap>>

-----------------------------------------------------------------------------
(* Thread 1: cldm_parallel_collect_and_run.                                *)

\* Collect and register the tests, or empty every slice when that fails.
Collect ==
    /\ pc[1] = "collect"
    /\ \/ /\ io_total' = NTests
          /\ Goto(1, "records")
          /\ UNCHANGED thread_ntests
       \/ /\ "collect" \in Faults
          /\ thread_ntests' = [t \in Threads |-> 0]
          /\ Goto(1, "init")
          /\ UNCHANGED io_total
    /\ UNCHANGED <<spawned, ok, stride, runVars, thread_startidx, dist, records,
                   auxprocs, ioVars, early_abort, log, status, setups,
                   teardowns, acc, snap>>

\* Allocate the record array and copy the collected records into it.
AllocRecords ==
    /\ pc[1] = "records"
    /\ \/ records' = TRUE /\ Goto(1, "distribute")
       \/ "records" \in Faults /\ Goto(1, "init") /\ UNCHANGED records
    /\ UNCHANGED <<spawned, ok, stride, runVars, thread_ntests, thread_startidx,
                   dist, auxprocs, ioVars, early_abort, log, io_total, status,
                   setups, teardowns, acc, snap>>

\* Slips: the remainder given to everyone, and to no one.
ShareCeil(i)  == NTests \div Jobs + 1
ShareFloor(i) == NTests \div Jobs

\* The number of tests thread i is given.
Share(i) == NTests \div Jobs + (IF i < NTests % Jobs THEN 1 ELSE 0)

\* Slip: startidx is not advanced.
DistributeSameStart ==
    /\ pc[1] = "distribute"
    /\ \/ /\ dist.i < Jobs
          /\ thread_ntests' = [thread_ntests EXCEPT ![dist.i] = Share(dist.i)]
          /\ thread_startidx' = [thread_startidx EXCEPT ![dist.i] = dist.startidx]
          /\ dist' = [dist EXCEPT !.i = @ + 1]
          /\ UNCHANGED <<pc, auxprocs>>
       \/ /\ dist.i >= Jobs
          /\ auxprocs' = TRUE
          /\ Goto(1, "setup")
          /\ UNCHANGED <<thread_ntests, thread_startidx, dist>>
    /\ UNCHANGED <<spawned, ok, stride, runVars, records, ioVars, early_abort,
                   log, io_total, status, setups, teardowns, acc, snap>>

\* One iteration of the distribution loop; past it, the auxiliary procedures
\* are collected.
Distribute ==
    /\ pc[1] = "distribute"
    /\ \/ /\ dist.i < Jobs
          /\ thread_ntests' = [thread_ntests EXCEPT ![dist.i] = Share(dist.i)]
          /\ thread_startidx' = [thread_startidx EXCEPT ![dist.i] = dist.startidx]
          /\ dist' = [i |-> dist.i + 1, startidx |-> dist.startidx + Share(dist.i)]
          /\ UNCHANGED <<pc, auxprocs>>
       \/ /\ dist.i >= Jobs
          /\ auxprocs' = TRUE
          /\ Goto(1, "setup")
          /\ UNCHANGED <<thread_ntests, thread_startidx, dist>>
    /\ UNCHANGED <<spawned, ok, stride, runVars, records, ioVars, early_abort,
                   log, io_total, status, setups, teardowns, acc, snap>>

\* The global setup, while the other threads are held by the first barrier.
GlobalSetup ==
    /\ pc[1] = "setup"
    /\ setups' = setups + 1
    /\ Goto(1, "init")
    /\ UNCHANGED <<spawned, ok, stride, runVars, distVars, ioVars, early_abort,
                   log, io_total, status, teardowns, acc, snap>>

-----------------------------------------------------------------------------
(* Every thread: cldm_thread_run.                                          *)

\* Slip: no barrier between the initialisation and the tests.
TestInitNoBarrier(t) ==
    /\ pc[t] = "init"
    /\ ok' = [ok EXCEPT ![t] = TRUE]
    /\ log' = [log EXCEPT ![t] = [ZeroLog EXCEPT !.mem = "live"]]
    /\ io_init' = (io_init \/ t = 0)
    /\ buffer' = [buffer EXCEPT ![t] = <<>>]
    /\ Goto(t, "loop")
    /\ UNCHANGED <<spawned, stride, runVars, distVars, io_lock, io_index,
                   reported, early_abort, io_total, status, setups, teardowns,
                   acc, snap>>

\* cldm_test_init: a fresh log; thread 0 also initialises io_lock.  A failing
\* malloc leaves no buffer, a failing mutex initialisation leaves one.
TestInit(t) ==
    /\ pc[t] = "init"
    /\ \/ /\ ok' = [ok EXCEPT ![t] = TRUE]
          /\ log' = [log EXCEPT ![t] = [ZeroLog EXCEPT !.mem = "live"]]
          /\ io_init' = (io_init \/ t = 0)
       \/ /\ "init" \in Faults
          /\ ok' = [ok EXCEPT ![t] = FALSE]
          /\ \E m \in IF t = 0 THEN {"null", "live"} ELSE {"null"} :
                log' = [log EXCEPT ![t] = [ZeroLog EXCEPT !.mem = m]]
          /\ UNCHANGED io_init
    /\ buffer' = [buffer EXCEPT ![t] = <<>>]
    /\ Goto(t, "setupBarrier")
    /\ UNCHANGED <<spawned, stride, runVars, distVars, io_lock, io_index,
                   reported, early_abort, io_total, status, setups, teardowns,
                   acc, snap>>

\* The three places of cldm_thread_run that wait on the barrier.
Barriers == {"setupBarrier", "runBarrier", "reduceBarrier"}

\* Where a thread released from the barrier goes on.
Released(t) ==
    CASE pc[t] = "setupBarrier" /\ ok[t]            -> "loop"
      [] pc[t] = "setupBarrier" /\ ~ok[t] /\ t = 0  -> "join"
      [] pc[t] = "setupBarrier" /\ ~ok[t] /\ t # 0  -> "done"
      [] OTHER                                      -> "reduce"

\* The reduction loop's variable after the barrier: initialised behind the
\* second one, halved behind each one inside the loop.
Halved(t) ==
    CASE pc[t] = "runBarrier"    -> flp232(Jobs)
      [] pc[t] = "reduceBarrier" -> stride[t] \div 2
      [] OTHER                   -> stride[t]

\* pthread_barrier_wait returns once all Jobs threads have arrived.
BarrierRelease ==
    /\ \A t \in Threads : pc[t] \in Barriers
    /\ pc' = [t \in Threads |-> Released(t)]
    /\ stride' = [t \in Threads |-> Halved(t)]
    /\ UNCHANGED <<spawned, ok, runVars, distVars, ioVars, early_abort, log,
                   io_total, status, setups, teardowns, acc, snap>>

\* The head of the test loop and, if a test is left, of cldm_test_run.
BeginTest(t) ==
    /\ pc[t] = "loop"
    /\ begun[t] < thread_ntests[t]
    /\ LET k == thread_startidx[t] + begun[t]
       IN  /\ current' = [current EXCEPT
                              ![t] = [test |-> k, pass |-> TRUE, fatal |-> FALSE]]
           /\ runs' = [runs EXCEPT ![k] = @ + 1]
    /\ begun' = [begun EXCEPT ![t] = @ + 1]
    /\ Goto(t, "body")
    /\ UNCHANGED <<spawned, ok, stride, failedOn, distVars, ioVars, early_abort,
                   log, io_total, status, setups, teardowns, acc, snap>>

\* Slip: the results still buffered are not flushed.
LoopDoneNoFlush(t) ==
    /\ pc[t] = "loop"
    /\ begun[t] >= thread_ntests[t]
    /\ Goto(t, "runBarrier")
    /\ UNCHANGED <<spawned, ok, stride, runVars, distVars, ioVars, early_abort,
                   log, io_total, status, setups, teardowns, acc, snap>>

LoopDone(t) ==
    /\ pc[t] = "loop"
    /\ begun[t] >= thread_ntests[t]
    /\ Goto(t, "flush")
    /\ UNCHANGED <<spawned, ok, stride, runVars, distVars, ioVars, early_abort,
                   log, io_total, status, setups, teardowns, acc, snap>>

\* The body of the test with its setups and teardowns.  Its assertions count
\* in the log cldm_thread_id selects; the first failure of a test counts it.
TestBody(t) ==
    /\ pc[t] = "body"
    /\ \E o \in Outcomes :
         LET l == cldm_thread_id(t)
         IN  /\ log' = [log EXCEPT
                    ![l].failed_tests =
                        IF o.failed > 0 /\ current[l].pass THEN @ + 1 ELSE @,
                    ![l].failed_assertions = @ + o.failed,
                    ![l].total_assertions = @ + o.total,
                    ![l].size = @ + o.logged]
             /\ current' = [current EXCEPT
                    ![l].pass = @ /\ o.failed = 0,
                    ![l].fatal = @ \/ o.logged < o.failed]
             /\ failedOn' = [failedOn EXCEPT
                    ![t] = IF o.failed > 0 THEN @ \cup {current[t].test} ELSE @]
    /\ Goto(t, "schedule")
    /\ UNCHANGED <<spawned, ok, begun, stride, runs, distVars, ioVars,
                   early_abort, io_total, status, setups, teardowns, acc, snap>>

Entry(t) == <<current[t].test, current[t].pass>>

\* cldm_test_schedule_print: buffer the result, printing a full buffer first.
SchedulePrint(t) ==
    /\ pc[t] = "schedule"
    /\ \/ /\ Len(buffer[t]) >= BufferSize
          /\ Goto(t, "full")
          /\ UNCHANGED buffer
       \/ /\ Len(buffer[t]) < BufferSize
          /\ buffer' = [buffer EXCEPT ![t] = Append(@, Entry(t))]
          /\ Goto(t, "check")
    /\ UNCHANGED <<spawned, ok, stride, runVars, distVars, io_init, io_lock,
                   io_index, reported, early_abort, log, io_total, status,
                   setups, teardowns, acc, snap>>

\* Slip: the mutex is not taken.
AcquireIoUnlocked(t) ==
    /\ pc[t] \in {"full", "flush"}
    /\ io_lock' = io_lock \cup {t}
    /\ Goto(t, IF pc[t] = "full" THEN "printFull" ELSE "printFlush")
    /\ UNCHANGED <<spawned, ok, stride, runVars, distVars, buffer, io_init,
                   io_index, reported, early_abort, log, io_total, status,
                   setups, teardowns, acc, snap>>

\* cldm_test_print, called to empty a full buffer or by cldm_test_flush:
\* lock, print and count every buffered result, unlock.
AcquireIo(t) ==
    /\ pc[t] \in {"full", "flush"}
    /\ io_lock = {}
    /\ io_lock' = {t}
    /\ Goto(t, IF pc[t] = "full" THEN "printFull" ELSE "printFlush")
    /\ UNCHANGED <<spawned, ok, stride, runVars, distVars, buffer, io_init,
                   io_index, reported, early_abort, log, io_total, status,
                   setups, teardowns, acc, snap>>

PrintBuffer(t) ==
    /\ pc[t] \in {"printFull", "printFlush"}
    /\ io_index' = io_index + Len(buffer[t])
    /\ reported' = reported \cup {buffer[t][i] : i \in 1..Len(buffer[t])}
    /\ Goto(t, IF pc[t] = "printFull" THEN "releaseFull" ELSE "releaseFlush")
    /\ UNCHANGED <<spawned, ok, stride, runVars, distVars, buffer, io_init,
                   io_lock, early_abort, log, io_total, status, setups,
                   teardowns, acc, snap>>

\* Back in schedule_print, which empties the buffer and stores the current
\* test, or back from cldm_test_flush at the second barrier.
ReleaseIo(t) ==
    /\ pc[t] \in {"releaseFull", "releaseFlush"}
    /\ io_lock' = io_lock \ {t}
    /\ \/ /\ pc[t] = "releaseFull"
          /\ buffer' = [buffer EXCEPT ![t] = <<Entry(t)>>]
          /\ Goto(t, "check")
       \/ /\ pc[t] = "releaseFlush"
          /\ Goto(t, "runBarrier")
          /\ UNCHANGED buffer
    /\ UNCHANGED <<spawned, ok, stride, runVars, distVars, io_init, io_index,
                   reported, early_abort, log, io_total, status, setups,
                   teardowns, acc, snap>>

\* The result of cldm_test_run.
Succeeded(t) == ~current[t].fatal /\ (~FailFast \/ current[t].pass)

\* Whether cldm_test_run succeeded decides how the loop goes on.
CheckResult(t) ==
    /\ pc[t] = "check"
    /\ Goto(t, CASE Succeeded(t) /\ ~FailFast  -> "loop"
                 [] Succeeded(t) /\ FailFast   -> "poll"
                 [] ~Succeeded(t) /\ FailFast  -> "signal"
                 [] ~Succeeded(t) /\ ~FailFast -> "flush")
    /\ UNCHANGED <<spawned, ok, stride, runVars, distVars, ioVars, early_abort,
                   log, io_total, status, setups, teardowns, acc, snap>>

\* early_abort = true under the write lock, and leave the loop.
SignalAbort(t) ==
    /\ pc[t] = "signal"
    /\ early_abort' = TRUE
    /\ snap' = IF early_abort THEN snap ELSE begun
    /\ Goto(t, "flush")
    /\ UNCHANGED <<spawned, ok, stride, runVars, distVars, ioVars, log,
                   io_total, status, setups, teardowns, acc>>

\* Slips: the flag is read and ignored, or polled again instead of leaving the
\* loop.
PollAbortIgnored(t) ==
    /\ pc[t] = "poll"
    /\ Goto(t, "loop")
    /\ UNCHANGED <<spawned, ok, stride, runVars, distVars, ioVars, early_abort,
                   log, io_total, status, setups, teardowns, acc, snap>>

PollAbortSpin(t) ==
    /\ pc[t] = "poll"
    /\ Goto(t, IF early_abort THEN "poll" ELSE "loop")
    /\ UNCHANGED <<spawned, ok, stride, runVars, distVars, ioVars, early_abort,
                   log, io_total, status, setups, teardowns, acc, snap>>

\* abort = early_abort under the read lock, and leave the loop if it is set.
PollAbort(t) ==
    /\ pc[t] = "poll"
    /\ Goto(t, IF early_abort THEN "flush" ELSE "loop")
    /\ UNCHANGED <<spawned, ok, stride, runVars, distVars, ioVars, early_abort,
                   log, io_total, status, setups, teardowns, acc, snap>>

\* The head of the reduction loop.
ReduceLoop(t) ==
    /\ pc[t] = "reduce"
    /\ \/ stride[t] # 0 /\ t < stride[t] /\ Goto(t, "reducing")
       \/ stride[t] # 0 /\ t >= stride[t] /\ Goto(t, "reduceBarrier")
       \/ stride[t] = 0 /\ t # 0 /\ Goto(t, "free")
       \/ stride[t] = 0 /\ t = 0 /\ Goto(t, "join")
    /\ UNCHANGED <<spawned, ok, stride, runVars, distVars, ioVars, early_abort,
                   log, io_total, status, setups, teardowns, acc, snap>>

\* Slips: no barrier between two rounds, and failed_tests left out.
ReduceNoBarrier(t) ==
    /\ pc[t] = "reducing"
    /\ LET j == t + stride[t]
       IN  /\ log' = [log EXCEPT
                    ![t].failed_tests = @ + log[j].failed_tests,
                    ![t].failed_assertions = @ + log[j].failed_assertions,
                    ![t].total_assertions = @ + log[j].total_assertions]
           /\ acc' = [acc EXCEPT ![t] = @ \cup acc[j]]
    /\ stride' = [stride EXCEPT ![t] = @ \div 2]
    /\ Goto(t, "reduce")
    /\ UNCHANGED <<spawned, ok, runVars, distVars, ioVars, early_abort,
                   io_total, status, setups, teardowns, snap>>

ReduceNoFailedTests(t) ==
    /\ pc[t] = "reducing"
    /\ LET j == t + stride[t]
       IN  /\ log' = [log EXCEPT
                    ![t].failed_assertions = @ + log[j].failed_assertions,
                    ![t].total_assertions = @ + log[j].total_assertions]
           /\ acc' = [acc EXCEPT ![t] = @ \cup acc[j]]
    /\ Goto(t, "reduceBarrier")
    /\ UNCHANGED <<spawned, ok, stride, runVars, distVars, ioVars, early_abort,
                   io_total, status, setups, teardowns, snap>>

\* cldm_test_reduce: add the counters of the log at the given offset.
Reduce(t) ==
    /\ pc[t] = "reducing"
    /\ LET j == t + stride[t]
       IN  /\ \E other \in IF j \in Logs THEN {log[j]} ELSE Garbage :
                log' = [log EXCEPT
                    ![t].failed_tests = @ + other.failed_tests,
                    ![t].failed_assertions = @ + other.failed_assertions,
                    ![t].total_assertions = @ + other.total_assertions]
           /\ acc' = [acc EXCEPT ![t] = @ \cup (IF j \in Logs THEN acc[j] ELSE {})]
    /\ Goto(t, "reduceBarrier")
    /\ UNCHANGED <<spawned, ok, stride, runVars, distVars, ioVars, early_abort,
                   io_total, status, setups, teardowns, snap>>

\* cldm_test_free on a thread other than the master.
FreeLog(t) ==
    /\ pc[t] = "free"
    /\ log' = [log EXCEPT ![t].mem = "freed"]
    /\ Goto(t, "done")
    /\ UNCHANGED <<spawned, ok, stride, runVars, distVars, ioVars, early_abort,
                   io_total, status, setups, teardowns, acc, snap>>

-----------------------------------------------------------------------------
(* Thread 0: the rest of cldm_parallel_run.                                *)

\* The joins, in order, end when every other thread has returned.
Join ==
    /\ pc[0] = "join"
    /\ \A t \in Threads \ {0} : pc[t] = "done"
    /\ Goto(0, "teardown")
    /\ UNCHANGED <<spawned, ok, stride, runVars, distVars, ioVars, early_abort,
                   log, io_total, status, setups, teardowns, acc, snap>>

\* The global teardown; auxprocs is all null when it was never collected.
GlobalTeardown ==
    /\ pc[0] = "teardown"
    /\ \/ /\ auxprocs
          /\ teardowns' = teardowns + 1
          /\ Goto(0, "summary")
       \/ /\ ~auxprocs
          /\ Goto(0, "crashed")
          /\ UNCHANGED teardowns
    /\ UNCHANGED <<spawned, ok, stride, runVars, distVars, ioVars, early_abort,
                   log, io_total, status, setups, acc, snap>>

\* Slip: a single failed test is overlooked.
SummaryOffByOne ==
    /\ pc[0] = "summary"
    /\ status' = IF log[0].failed_tests > 1 THEN 1 ELSE 0
    /\ Goto(0, "cleanup")
    /\ UNCHANGED <<spawned, ok, stride, runVars, distVars, ioVars, early_abort,
                   log, io_total, setups, teardowns, acc, snap>>

\* cldm_test_summary: the counters of log 0 decide the exit status.
Summary ==
    /\ pc[0] = "summary"
    /\ status' = IF log[0].failed_tests > 0 THEN 1 ELSE 0
    /\ Goto(0, "cleanup")
    /\ UNCHANGED <<spawned, ok, stride, runVars, distVars, ioVars, early_abort,
                   log, io_total, setups, teardowns, acc, snap>>

\* cldm_test_free(0), free(records), destroy the locks and return.
CleanUp ==
    /\ pc[0] = "cleanup"
    /\ log' = [log EXCEPT ![0].mem = "freed"]
    /\ io_init' = FALSE
    /\ records' = FALSE
    /\ Goto(0, "returned")
    /\ UNCHANGED <<spawned, ok, stride, runVars, thread_ntests, thread_startidx,
                   dist, auxprocs, buffer, io_lock, io_index, reported,
                   early_abort, io_total, status, setups, teardowns, acc, snap>>

-----------------------------------------------------------------------------
Terminal == {"returned", "exited", "crashed"}

Finished == pc[0] \in Terminal /\ UNCHANGED vars

RunStep(t) ==
    \/ TestInit(t) \/ BeginTest(t) \/ LoopDone(t) \/ TestBody(t)
    \/ SchedulePrint(t) \/ AcquireIo(t) \/ PrintBuffer(t) \/ ReleaseIo(t)
    \/ CheckResult(t) \/ SignalAbort(t) \/ PollAbort(t)
    \/ ReduceLoop(t) \/ Reduce(t) \/ FreeLog(t)

MasterStep ==
    \/ StartUp \/ Spawn \/ SpawnReturn \/ SpawnFail
    \/ Join \/ GlobalTeardown \/ Summary \/ CleanUp

CollectStep == Collect \/ AllocRecords \/ Distribute \/ GlobalSetup

Next ==
    \/ MasterStep
    \/ CollectStep
    \/ BarrierRelease
    \/ \E t \in Threads : RunStep(t)
    \/ Finished

Spec == Init /\ [][Next]_vars

\* The scheduler runs every thread that can run, the barrier lets its waiters
\* go, and test bodies return.
Fairness ==
    /\ WF_vars(MasterStep)
    /\ WF_vars(CollectStep)
    /\ WF_vars(BarrierRelease)
    /\ \A t \in Threads : WF_vars(RunStep(t))

FairSpec == Spec /\ Fairness
-----------------------------------------------------------------------------
(* Correctness.                                                            *)

\* Where thread 0 is once its own cldm_thread_run has returned.
MasterTail == {"join", "teardown", "summary", "cleanup"}

\* Some thread's last test met a failing realloc, which ends its loop.
SomeFatal == \E t \in Threads : current[t].fatal

Failed == UNION {failedOn[t] : t \in Threads}

Labels ==
    {"off", "start", "spawn", "create", "collect", "records", "distribute",
     "setup", "init", "setupBarrier", "loop", "body", "schedule", "full",
     "printFull", "releaseFull", "check", "signal", "poll", "flush",
     "printFlush", "releaseFlush", "runBarrier", "reduce", "reducing",
     "reduceBarrier", "free", "done", "join", "teardown", "summary", "cleanup",
     "returned", "exited", "crashed"}

LogType == [failed_tests : Nat, failed_assertions : Nat,
            total_assertions : Nat, size : Nat, mem : {"null", "live", "freed"}]

\* Every variable holds a value of its type: the slices stay inside the
\* record array, the current test of a thread is a test or none.
TypeOK ==
    /\ pc \in [Threads -> Labels]
    /\ spawned \in 0..(Jobs - 1)
    /\ ok \in [Threads -> BOOLEAN]
    /\ begun \in [Threads -> Nat]
    /\ stride \in [Threads -> Powers \cup {0}]
    /\ thread_ntests \in [Threads -> 0..NTests]
    /\ thread_startidx \in [Threads -> 0..NTests]
    /\ dist \in [i : 0..Jobs, startidx : 0..NTests]
    /\ records \in BOOLEAN
    /\ auxprocs \in BOOLEAN
    /\ early_abort \in BOOLEAN
    /\ log \in [Logs -> LogType]
    /\ current \in [Threads -> [test : Tests \cup {-1}, pass : BOOLEAN,
                                fatal : BOOLEAN]]
    /\ buffer \in [Threads -> Seq(Tests \X BOOLEAN)]
    /\ io_init \in BOOLEAN
    /\ io_lock \in SUBSET Threads
    /\ io_index \in Nat
    /\ io_total \in {0, NTests}
    /\ status \in {-1, 0, 1, 2}
    /\ runs \in [Tests -> Nat]
    /\ setups \in Nat
    /\ teardowns \in Nat
    /\ failedOn \in [Threads -> SUBSET Tests]
    /\ reported \in SUBSET (Tests \X BOOLEAN)
    /\ acc \in [Logs -> SUBSET Threads]
    /\ snap \in [Threads -> Nat]

\* The logs the statement thread t is about to execute writes, and reads.
LogWrites(t) ==
    CASE pc[t] \in {"init", "reducing", "free", "cleanup"} -> {t}
      [] pc[t] = "body"                                    -> {cldm_thread_id(t)}
      [] OTHER                                             -> {}

LogReads(t) ==
    CASE pc[t] = "reducing" -> {t + stride[t]}
      [] pc[t] = "summary"  -> Threads
      [] OTHER              -> {}

\* The logs are shared without a lock: no thread may write one that another
\* thread is reading or writing, neither in the tests nor in the reduction
\* nor in the summary.
RaceFree ==
    \A t, u \in Threads :
        t # u => LogWrites(t) \cap (LogWrites(u) \cup LogReads(u)) = {}

\* The reduction reads only logs that exist: thread id + i stays below
\* CLDM_MAX_THREADS even where it is not the log of a running thread.
LogAccessInBounds ==
    \A t \in Threads : pc[t] = "reducing" => t + stride[t] \in Logs

\* The two logs added in a round never include the counts of one thread
\* twice, and log 0 ends up with the counts of every thread.
EachThreadCountedOnce ==
    /\ \A t \in Threads :
          pc[t] = "reducing" => acc[t] \cap acc[t + stride[t]] = {}
    /\ pc[0] \in MasterTail /\ ok[0] => acc[0] = Threads

\* A test body runs only after the global setup and before the global
\* teardown, with the records and its thread's log allocated, and its
\* assertions are counted in the log of the thread that runs it.
TestsBracketed ==
    \A t \in Threads : pc[t] = "body" =>
        /\ setups = 1 /\ teardowns = 0
        /\ records
        /\ log[t].mem = "live"
        /\ cldm_thread_id(t) = t

\* The slices overlap nowhere: no test is ever started twice.
NoTestTwice == \A k \in Tests : runs[k] <= 1

\* The slices leave no gap: unless a failure cut the run short, every test
\* has been run when the master, with a log of its own, goes on to the joins.
NothingSkipped ==
    pc[0] \in MasterTail /\ records /\ ok[0] =>
        early_abort \/ SomeFatal \/ \A k \in Tests : runs[k] = 1

\* Results are printed by one thread at a time, which holds io_lock; thread 0
\* has initialised it, unless that thread's own initialisation failed.
PrintingExclusive ==
    \A t \in Threads : pc[t] \in {"printFull", "printFlush"} =>
        io_lock = {t} /\ (ok[0] => io_init)

\* When the threads have flushed their buffers, every test that was run has
\* been printed once, with its true verdict, and io_index counted it once.
ReportComplete ==
    pc[0] \in MasterTail \cup {"reduce", "reducing", "reduceBarrier"} /\ ok[0] =>
        /\ reported = {<<k, k \notin Failed>> : k \in {k \in Tests : runs[k] > 0}}
        /\ io_index = Cardinality(reported)

\* The exit status the summary computes from log 0 is 1 exactly when some
\* test failed on some thread.
VerdictCorrect ==
    pc[0] \in {"cleanup", "returned"} /\ teardowns = 1 =>
        (status = 1 <=> \E t \in Threads : failedOn[t] # {})

\* After one thread has raised early_abort, any other thread starts at most
\* one more test.
FailFastPrompt ==
    early_abort => \A t \in Threads : begun[t] <= snap[t] + 1

\* The summary prints the messages of every log that holds one, so none of
\* those buffers may have been freed.
SummaryReadsLive ==
    pc[0] = "summary" /\ log[0].failed_tests > 0 =>
        \A t \in Threads : log[t].size > 0 => log[t].mem = "live"

\* The phase of the run, and the tests whose bodies have returned, as the
\* abstract TestRunner sees them.
Phase == IF status # -1 THEN "over"
         ELSE IF teardowns > 0 THEN "down"
         ELSE IF setups > 0 THEN "running" ELSE "idle"

Executed == {k \in Tests : /\ runs[k] > 0
                           /\ \A t \in Threads :
                                 pc[t] = "body" => current[t].test # k}

Runner == INSTANCE TestRunner WITH
    phase    <- Phase,
    executed <- Executed,
    failing  <- Failed,
    verdict  <- CASE status = -1 -> "none"
                  [] status = 0  -> "success"
                  [] OTHER       -> "failure"

\* The parallel run keeps the promises of TestRunner.
ImplementsRunner == Runner!RunnerSpec

\* The run comes to an end: no thread is left waiting at a barrier, for the
\* io_lock or for a thread to join.
Termination == <>(pc[0] \in Terminal)
=============================================================================
