--------------------------- MODULE ParallelProofs ---------------------------
(***************************************************************************)
(* The parallel runner, for every number of threads, tests and outcomes.   *)
(* First the types, how the barrier keeps the threads in step, and how the *)
(* tests are shared out: at any moment the run is in exactly one of five   *)
(* phases, each of which confines every thread to a few labels.  Then what *)
(* a run does with its tests, and last what it leaves behind.              *)
(***************************************************************************)
EXTENDS ParallelRun, FiniteSetTheorems, TLAPS

-----------------------------------------------------------------------------
(* The rounding of the job count and the halving of the stride.            *)

\* cldm_flp232 yields a power of two that is at most the job count and more
\* than half of it.
LEMMA RoundDown ==
    /\ flp232(Jobs) \in Powers
    /\ flp232(Jobs) <= Jobs
    /\ Jobs < 2 * flp232(Jobs)
<1>1. Jobs \in 2..32
  BY ThreadsAssumption, JobsAssumption DEF Powers
<1>2. \E p \in Powers : p <= Jobs /\ Jobs < 2 * p
  <2>1. \/ 2 <= Jobs /\ Jobs < 4
        \/ 4 <= Jobs /\ Jobs < 8
        \/ 8 <= Jobs /\ Jobs < 16
        \/ 16 <= Jobs /\ Jobs < 32
        \/ 32 <= Jobs /\ Jobs < 64
    BY <1>1
  <2> QED
    BY <2>1 DEF Powers
<1> QED
  BY <1>2 DEF flp232

\* Halving a power of two gives the next smaller one, and 1 gives 0.
LEMMA Halving ==
    /\ \A s \in Powers \ {1} : s \div 2 \in Powers /\ s = 2 * (s \div 2)
    /\ 1 \div 2 = 0
    /\ 0 \div 2 = 0
  BY DEF Powers

-----------------------------------------------------------------------------
(* Types, first without the bounds that depend on the distribution.        *)

CurrentType == [test : Int, pass : BOOLEAN, fatal : BOOLEAN]

Typed ==
    /\ pc \in [Threads -> Labels]
    /\ spawned \in Nat
    /\ ok \in [Threads -> BOOLEAN]
    /\ begun \in [Threads -> Nat]
    /\ stride \in [Threads -> Powers \cup {0}]
    /\ thread_ntests \in [Threads -> Nat]
    /\ thread_startidx \in [Threads -> Nat]
    /\ dist \in [i : Nat, startidx : Nat]
    /\ records \in BOOLEAN
    /\ auxprocs \in BOOLEAN
    /\ early_abort \in BOOLEAN
    /\ log \in [Logs -> LogType]
    /\ current \in [Threads -> CurrentType]
    /\ buffer \in [Threads -> Seq(Int \X BOOLEAN)]
    /\ io_init \in BOOLEAN
    /\ io_lock \in SUBSET Threads
    /\ io_index \in Nat
    /\ io_total \in {0, NTests}
    /\ status \in {-1, 0, 1, 2}
    /\ runs \in [Tests -> Nat]
    /\ setups \in Nat
    /\ teardowns \in Nat
    /\ acc \in [Logs -> SUBSET Threads]
    /\ snap \in [Threads -> Nat]

\* There are at least two threads, and their numbers index the logs.
LEMMA ThreadFacts ==
    /\ Jobs \in Nat /\ MaxThreads \in Nat /\ 2 <= Jobs /\ Jobs <= MaxThreads
    /\ 0 \in Threads /\ 1 \in Threads
    /\ Threads \subseteq Logs
    /\ Threads \subseteq Nat /\ Logs \subseteq Nat
  BY ThreadsAssumption, JobsAssumption DEF Powers, Threads, Logs

\* A thread is given a number of tests.
LEMMA ShareType == \A i \in Nat : Share(i) \in Nat
<1> TAKE i \in Nat
<1>1. NTests \div Jobs \in Nat /\ NTests % Jobs \in Nat
  BY ThreadFacts, TestsAssumption
<1>2. (IF i < NTests % Jobs THEN 1 ELSE 0) \in Nat
  OBVIOUS
<1> QED
  BY <1>1, <1>2 DEF Share

(* The updates of the logs, the current tests and the buffers keep types.  *)

\* cldm_thread_id yields a thread of the run.
LEMMA OwnId == \A t \in Threads : cldm_thread_id(t) \in Threads
  BY ThreadFacts DEF cldm_thread_id

\* Zeroing a log, as cldm_test_init does, keeps the type of the logs.
LEMMA LogReset ==
    ASSUME log \in [Logs -> LogType], NEW t \in Threads,
           NEW m \in {"null", "live"},
           log' = [log EXCEPT ![t] = [ZeroLog EXCEPT !.mem = m]]
    PROVE  log' \in [Logs -> LogType]
  BY ThreadFacts DEF LogType, ZeroLog

\* Freeing a log keeps the type of the logs.
LEMMA LogFree ==
    ASSUME log \in [Logs -> LogType], NEW t \in Threads,
           log' = [log EXCEPT ![t].mem = "freed"]
    PROVE  log' \in [Logs -> LogType]
  BY ThreadFacts DEF LogType

\* Adding one log to another, as cldm_test_reduce does, keeps the type.
LEMMA LogAdd ==
    ASSUME log \in [Logs -> LogType], NEW t \in Threads, NEW other \in LogType,
           log' = [log EXCEPT
               ![t].failed_tests = @ + other.failed_tests,
               ![t].failed_assertions = @ + other.failed_assertions,
               ![t].total_assertions = @ + other.total_assertions]
    PROVE  log' \in [Logs -> LogType]
  BY ThreadFacts DEF LogType

\* Counting a test body in a log keeps the type.
LEMMA LogCount ==
    ASSUME log \in [Logs -> LogType], NEW l \in Threads, NEW o \in Outcomes,
           log' = [log EXCEPT
               ![l].failed_tests =
                   IF o.failed > 0 /\ current[l].pass THEN @ + 1 ELSE @,
               ![l].failed_assertions = @ + o.failed,
               ![l].total_assertions = @ + o.total,
               ![l].size = @ + o.logged]
    PROVE  log' \in [Logs -> LogType]
  BY ThreadFacts, OutcomeAssumption DEF LogType, OutcomeType

\* Recording the outcome of the running test keeps its type.
LEMMA CurrentCount ==
    ASSUME current \in [Threads -> CurrentType], NEW l \in Threads,
           NEW o \in Outcomes,
           current' = [current EXCEPT ![l].pass = @ /\ o.failed = 0,
                                      ![l].fatal = @ \/ o.logged < o.failed]
    PROVE  current' \in [Threads -> CurrentType]
<1> DEFINE r == [current[l] EXCEPT !.pass = @ /\ o.failed = 0,
                                  !.fatal = @ \/ o.logged < o.failed]
<1>1. current[l] \in CurrentType
  OBVIOUS
<1>2. r \in CurrentType
  BY <1>1 DEF CurrentType
<1>3. current' = [current EXCEPT ![l] = r]
  OBVIOUS
<1> HIDE DEF r
<1> QED
  BY <1>2, <1>3

\* Starting a test keeps the type of the running tests.
LEMMA CurrentFresh ==
    ASSUME current \in [Threads -> CurrentType], NEW t \in Threads, NEW k \in Nat,
           current' = [current EXCEPT
               ![t] = [test |-> k, pass |-> TRUE, fatal |-> FALSE]]
    PROVE  current' \in [Threads -> CurrentType]
  BY DEF CurrentType

\* What is appended to a print buffer is a buffer entry.
LEMMA EntryType ==
    ASSUME current \in [Threads -> CurrentType], NEW t \in Threads
    PROVE  Entry(t) \in Int \X BOOLEAN
  BY DEF Entry, CurrentType

\* Appending to one print buffer keeps the type of the buffers.
LEMMA BufferAppend ==
    ASSUME buffer \in [Threads -> Seq(Int \X BOOLEAN)],
           current \in [Threads -> CurrentType], NEW t \in Threads,
           buffer' = [buffer EXCEPT ![t] = Append(@, Entry(t))]
    PROVE  buffer' \in [Threads -> Seq(Int \X BOOLEAN)]
<1>1. Entry(t) \in Int \X BOOLEAN
  BY EntryType
<1> QED
  BY <1>1

\* Restarting one print buffer keeps the type of the buffers.
LEMMA BufferRestart ==
    ASSUME buffer \in [Threads -> Seq(Int \X BOOLEAN)],
           current \in [Threads -> CurrentType], NEW t \in Threads,
           buffer' = [buffer EXCEPT ![t] = <<Entry(t)>>]
    PROVE  buffer' \in [Threads -> Seq(Int \X BOOLEAN)]
<1>1. Entry(t) \in Int \X BOOLEAN
  BY EntryType
<1> QED
  BY <1>1

\* The types hold initially.
LEMMA TypedInit == Init => Typed
<1> SUFFICES ASSUME Init PROVE Typed
  OBVIOUS
<1>1. pc \in [Threads -> Labels] /\ stride \in [Threads -> Powers \cup {0}]
  BY DEF Init, Labels
<1>2. log \in [Logs -> LogType] /\ current \in [Threads -> CurrentType]
  BY DEF Init, ZeroLog, NoTest, LogType, CurrentType
<1>3. /\ ok \in [Threads -> BOOLEAN]
      /\ buffer \in [Threads -> Seq(Int \X BOOLEAN)]
      /\ acc \in [Logs -> SUBSET Threads]
  BY DEF Init
<1>4. /\ spawned \in Nat /\ io_index \in Nat /\ setups \in Nat /\ teardowns \in Nat
      /\ begun \in [Threads -> Nat] /\ snap \in [Threads -> Nat]
      /\ thread_ntests \in [Threads -> Nat]
      /\ thread_startidx \in [Threads -> Nat]
      /\ runs \in [Tests -> Nat]
      /\ dist \in [i : Nat, startidx : Nat]
  BY DEF Init
<1>5. /\ records \in BOOLEAN /\ auxprocs \in BOOLEAN /\ early_abort \in BOOLEAN
      /\ io_init \in BOOLEAN /\ io_lock \in SUBSET Threads
      /\ io_total \in {0, NTests} /\ status \in {-1, 0, 1, 2}
  BY DEF Init
<1> QED
  BY <1>1, <1>2, <1>3, <1>4, <1>5 DEF Typed

\* Every step keeps the types.
LEMMA TypedNext == Typed /\ [Next]_vars => Typed'
<1> SUFFICES ASSUME Typed, [Next]_vars PROVE Typed'
  OBVIOUS
<1>a. pc \in [Threads -> Labels]
  BY DEF Typed
<1>b. /\ spawned \in Nat /\ setups \in Nat /\ teardowns \in Nat
      /\ io_index \in Nat /\ io_total \in {0, NTests} /\ status \in {-1, 0, 1, 2}
  BY DEF Typed
<1>c. ok \in [Threads -> BOOLEAN]
  BY DEF Typed
<1>d. begun \in [Threads -> Nat] /\ snap \in [Threads -> Nat] /\ runs \in [Tests -> Nat]
  BY DEF Typed
<1>e. stride \in [Threads -> Powers \cup {0}]
  BY DEF Typed
<1>f. /\ thread_ntests \in [Threads -> Nat] /\ thread_startidx \in [Threads -> Nat]
      /\ dist \in [i : Nat, startidx : Nat]
  BY DEF Typed
<1>g. records \in BOOLEAN /\ auxprocs \in BOOLEAN /\ early_abort \in BOOLEAN /\ io_init \in BOOLEAN
  BY DEF Typed
<1>h. log \in [Logs -> LogType]
  BY DEF Typed
<1>i. current \in [Threads -> CurrentType]
  BY DEF Typed
<1>j. buffer \in [Threads -> Seq(Int \X BOOLEAN)]
  BY DEF Typed
<1>k. io_lock \in SUBSET Threads
  BY DEF Typed
<1>l. acc \in [Logs -> SUBSET Threads]
  BY DEF Typed
<1>1. ASSUME StartUp PROVE Typed'
  <2>1. pc' \in [Threads -> Labels]
    BY <1>1, <1>a, ThreadFacts DEF StartUp, Goto, Labels
  <2>2. status' \in {-1, 0, 1, 2}
    BY <1>1, <1>b, ThreadFacts DEF StartUp
  <2> QED
    BY <1>1, <2>1, <2>2 DEF Typed, StartUp, runVars, distVars, ioVars
<1>2. ASSUME Spawn PROVE Typed'
  <2>1. pc' \in [Threads -> Labels]
    BY <1>2, <1>a, ThreadFacts DEF Spawn, Goto, Labels
  <2> QED
    BY <1>2, <2>1 DEF Typed, Spawn, runVars, distVars, ioVars
<1>3. ASSUME SpawnReturn PROVE Typed'
  <2>1. pc' \in [Threads -> Labels]
    BY <1>3, <1>a, ThreadFacts DEF SpawnReturn, Goto, Labels
  <2>2. spawned' \in Nat
    BY <1>3, <1>b, ThreadFacts DEF SpawnReturn
  <2> QED
    BY <1>3, <2>1, <2>2 DEF Typed, SpawnReturn, runVars, distVars, ioVars
<1>4. ASSUME SpawnFail PROVE Typed'
  <2>1. pc' \in [Threads -> Labels]
    BY <1>4, <1>a, ThreadFacts DEF SpawnFail, Goto, Labels
  <2>2. status' \in {-1, 0, 1, 2}
    BY <1>4, <1>b, ThreadFacts DEF SpawnFail
  <2> QED
    BY <1>4, <2>1, <2>2 DEF Typed, SpawnFail, runVars, distVars, ioVars
<1>5. ASSUME Collect PROVE Typed'
  <2>1. pc' \in [Threads -> Labels]
    BY <1>5, <1>a, ThreadFacts DEF Collect, Goto, Labels
  <2>2. thread_ntests' \in [Threads -> Nat]
    BY <1>5, <1>f, ThreadFacts DEF Collect
  <2>3. io_total' \in {0, NTests}
    BY <1>5, <1>b, ThreadFacts DEF Collect
  <2> QED
    BY <1>5, <2>1, <2>2, <2>3 DEF Typed, Collect, runVars, distVars, ioVars
<1>6. ASSUME AllocRecords PROVE Typed'
  <2>1. pc' \in [Threads -> Labels]
    BY <1>6, <1>a, ThreadFacts DEF AllocRecords, Goto, Labels
  <2>2. records' \in BOOLEAN
    BY <1>6, <1>g, ThreadFacts DEF AllocRecords
  <2> QED
    BY <1>6, <2>1, <2>2 DEF Typed, AllocRecords, runVars, distVars, ioVars
<1>7. ASSUME Distribute PROVE Typed'
  <2>1. pc' \in [Threads -> Labels]
    BY <1>7, <1>a, ThreadFacts DEF Distribute, Goto, Labels
  <2>2. thread_ntests' \in [Threads -> Nat]
    BY <1>7, <1>f, ThreadFacts, ShareType DEF Distribute
  <2>3. thread_startidx' \in [Threads -> Nat]
    BY <1>7, <1>f, ThreadFacts DEF Distribute
  <2>4. dist' \in [i : Nat, startidx : Nat]
    BY <1>7, <1>f, ThreadFacts, ShareType DEF Distribute
  <2>5. auxprocs' \in BOOLEAN
    BY <1>7, <1>g, ThreadFacts DEF Distribute
  <2> QED
    BY <1>7, <2>1, <2>2, <2>3, <2>4, <2>5 DEF Typed, Distribute, runVars, distVars, ioVars
<1>8. ASSUME GlobalSetup PROVE Typed'
  <2>1. pc' \in [Threads -> Labels]
    BY <1>8, <1>a, ThreadFacts DEF GlobalSetup, Goto, Labels
  <2>2. setups' \in Nat
    BY <1>8, <1>b, ThreadFacts DEF GlobalSetup
  <2> QED
    BY <1>8, <2>1, <2>2 DEF Typed, GlobalSetup, runVars, distVars, ioVars
<1>9. ASSUME BarrierRelease PROVE Typed'
  <2>1. pc' \in [Threads -> Labels]
    BY <1>9, <1>a, ThreadFacts DEF BarrierRelease, Goto, Labels, Released
  <2>2. stride' \in [Threads -> Powers \cup {0}]
    BY <1>9, <1>e, ThreadFacts, RoundDown, Halving DEF BarrierRelease, Halved
  <2> QED
    BY <1>9, <2>1, <2>2 DEF Typed, BarrierRelease, runVars, distVars, ioVars
<1>10. ASSUME NEW t \in Threads, TestInit(t) PROVE Typed'
  <2>1. pc' \in [Threads -> Labels]
    BY <1>10, <1>a, ThreadFacts DEF TestInit, Goto, Labels
  <2>2. ok' \in [Threads -> BOOLEAN]
    BY <1>10, <1>c, ThreadFacts DEF TestInit
  <2>3. log' \in [Logs -> LogType]
    BY <1>10, <1>h, ThreadFacts, LogReset DEF TestInit
  <2>4. io_init' \in BOOLEAN
    BY <1>10, <1>g, ThreadFacts DEF TestInit
  <2>5. buffer' \in [Threads -> Seq(Int \X BOOLEAN)]
    BY <1>10, <1>j, ThreadFacts DEF TestInit
  <2> QED
    BY <1>10, <2>1, <2>2, <2>3, <2>4, <2>5 DEF Typed, TestInit, runVars, distVars, ioVars
<1>11. ASSUME NEW t \in Threads, BeginTest(t) PROVE Typed'
  <2>1. pc' \in [Threads -> Labels]
    BY <1>11, <1>a, ThreadFacts DEF BeginTest, Goto, Labels
  <2>2. begun' \in [Threads -> Nat]
    BY <1>11, <1>d, ThreadFacts DEF BeginTest
  <2>3. current' \in [Threads -> CurrentType]
    <3>1. thread_startidx[t] + begun[t] \in Nat
      BY <1>d, <1>f
    <3> QED
      BY <1>11, <1>i, <3>1, CurrentFresh DEF BeginTest
  <2>4. runs' \in [Tests -> Nat]
    <3> DEFINE k == thread_startidx[t] + begun[t]
    <3>1. runs' = [runs EXCEPT ![k] = runs[k] + 1]
      BY <1>11 DEF BeginTest
    <3> HIDE DEF k
    <3>2. \A x \in Tests : runs[x] + 1 \in Nat
      BY <1>d
    <3> QED
      BY <1>d, <3>1, <3>2
  <2> QED
    BY <1>11, <2>1, <2>2, <2>3, <2>4 DEF Typed, BeginTest, runVars, distVars, ioVars
<1>12. ASSUME NEW t \in Threads, LoopDone(t) PROVE Typed'
  <2>1. pc' \in [Threads -> Labels]
    BY <1>12, <1>a, ThreadFacts DEF LoopDone, Goto, Labels
  <2> QED
    BY <1>12, <2>1 DEF Typed, LoopDone, runVars, distVars, ioVars
<1>13. ASSUME NEW t \in Threads, TestBody(t) PROVE Typed'
  <2>1. pc' \in [Threads -> Labels]
    BY <1>13, <1>a, ThreadFacts DEF TestBody, Goto, Labels
  <2>2. log' \in [Logs -> LogType]
    BY <1>13, <1>h, ThreadFacts, LogCount, OwnId DEF TestBody
  <2>3. current' \in [Threads -> CurrentType]
    BY <1>13, <1>i, ThreadFacts, CurrentCount, OwnId DEF TestBody
  <2> QED
    BY <1>13, <2>1, <2>2, <2>3 DEF Typed, TestBody, runVars, distVars, ioVars
<1>14. ASSUME NEW t \in Threads, SchedulePrint(t) PROVE Typed'
  <2>1. pc' \in [Threads -> Labels]
    BY <1>14, <1>a, ThreadFacts DEF SchedulePrint, Goto, Labels
  <2>2. buffer' \in [Threads -> Seq(Int \X BOOLEAN)]
    BY <1>14, <1>j, <1>i, ThreadFacts, BufferAppend DEF SchedulePrint
  <2> QED
    BY <1>14, <2>1, <2>2 DEF Typed, SchedulePrint, runVars, distVars, ioVars
<1>15. ASSUME NEW t \in Threads, AcquireIo(t) PROVE Typed'
  <2>1. pc' \in [Threads -> Labels]
    BY <1>15, <1>a, ThreadFacts DEF AcquireIo, Goto, Labels
  <2>2. io_lock' \in SUBSET Threads
    BY <1>15, <1>k, ThreadFacts DEF AcquireIo
  <2> QED
    BY <1>15, <2>1, <2>2 DEF Typed, AcquireIo, runVars, distVars, ioVars
<1>16. ASSUME NEW t \in Threads, PrintBuffer(t) PROVE Typed'
  <2>1. pc' \in [Threads -> Labels]
    BY <1>16, <1>a, ThreadFacts DEF PrintBuffer, Goto, Labels
  <2>2. io_index' \in Nat
    BY <1>16, <1>b, <1>j, ThreadFacts DEF PrintBuffer
  <2> QED
    BY <1>16, <2>1, <2>2 DEF Typed, PrintBuffer, runVars, distVars, ioVars
<1>17. ASSUME NEW t \in Threads, ReleaseIo(t) PROVE Typed'
  <2>1. pc' \in [Threads -> Labels]
    BY <1>17, <1>a, ThreadFacts DEF ReleaseIo, Goto, Labels
  <2>2. io_lock' \in SUBSET Threads
    BY <1>17, <1>k, ThreadFacts DEF ReleaseIo
  <2>3. buffer' \in [Threads -> Seq(Int \X BOOLEAN)]
    BY <1>17, <1>j, <1>i, ThreadFacts, BufferRestart DEF ReleaseIo
  <2> QED
    BY <1>17, <2>1, <2>2, <2>3 DEF Typed, ReleaseIo, runVars, distVars, ioVars
<1>18. ASSUME NEW t \in Threads, CheckResult(t) PROVE Typed'
  <2>1. pc' \in [Threads -> Labels]
    BY <1>18, <1>a, ThreadFacts, FlagAssumption DEF CheckResult, Goto, Labels, Succeeded
  <2> QED
    BY <1>18, <2>1 DEF Typed, CheckResult, runVars, distVars, ioVars
<1>19. ASSUME NEW t \in Threads, SignalAbort(t) PROVE Typed'
  <2>1. pc' \in [Threads -> Labels]
    BY <1>19, <1>a, ThreadFacts DEF SignalAbort, Goto, Labels
  <2>2. early_abort' \in BOOLEAN
    BY <1>19, <1>g, ThreadFacts DEF SignalAbort
  <2>3. snap' \in [Threads -> Nat]
    BY <1>19, <1>d, ThreadFacts DEF SignalAbort
  <2> QED
    BY <1>19, <2>1, <2>2, <2>3 DEF Typed, SignalAbort, runVars, distVars, ioVars
<1>20. ASSUME NEW t \in Threads, PollAbort(t) PROVE Typed'
  <2>1. pc' \in [Threads -> Labels]
    BY <1>20, <1>a, ThreadFacts DEF PollAbort, Goto, Labels
  <2> QED
    BY <1>20, <2>1 DEF Typed, PollAbort, runVars, distVars, ioVars
<1>21. ASSUME NEW t \in Threads, ReduceLoop(t) PROVE Typed'
  <2>1. pc' \in [Threads -> Labels]
    BY <1>21, <1>a, <1>e, ThreadFacts DEF ReduceLoop, Goto, Labels
  <2> QED
    BY <1>21, <2>1 DEF Typed, ReduceLoop, runVars, distVars, ioVars
<1>22. ASSUME NEW t \in Threads, Reduce(t) PROVE Typed'
  <2>1. pc' \in [Threads -> Labels]
    BY <1>22, <1>a, ThreadFacts DEF Reduce, Goto, Labels
  <2>2. log' \in [Logs -> LogType]
    <3>1. Garbage \subseteq LogType
      BY DEF Garbage, ZeroLog, LogType
    <3>2. PICK other \in LogType :
             log' = [log EXCEPT
                 ![t].failed_tests = @ + other.failed_tests,
                 ![t].failed_assertions = @ + other.failed_assertions,
                 ![t].total_assertions = @ + other.total_assertions]
      BY <1>22, <1>h, <3>1 DEF Reduce
    <3> QED
      BY <1>h, <3>2, LogAdd
  <2>3. acc' \in [Logs -> SUBSET Threads]
    BY <1>22, <1>l, ThreadFacts DEF Reduce
  <2> QED
    BY <1>22, <2>1, <2>2, <2>3 DEF Typed, Reduce, runVars, distVars, ioVars
<1>23. ASSUME NEW t \in Threads, FreeLog(t) PROVE Typed'
  <2>1. pc' \in [Threads -> Labels]
    BY <1>23, <1>a, ThreadFacts DEF FreeLog, Goto, Labels
  <2>2. log' \in [Logs -> LogType]
    BY <1>23, <1>h, ThreadFacts, LogFree DEF FreeLog
  <2> QED
    BY <1>23, <2>1, <2>2 DEF Typed, FreeLog, runVars, distVars, ioVars
<1>24. ASSUME Join PROVE Typed'
  <2>1. pc' \in [Threads -> Labels]
    BY <1>24, <1>a, ThreadFacts DEF Join, Goto, Labels
  <2> QED
    BY <1>24, <2>1 DEF Typed, Join, runVars, distVars, ioVars
<1>25. ASSUME GlobalTeardown PROVE Typed'
  <2>1. pc' \in [Threads -> Labels]
    BY <1>25, <1>a, ThreadFacts DEF GlobalTeardown, Goto, Labels
  <2>2. teardowns' \in Nat
    BY <1>25, <1>b, ThreadFacts DEF GlobalTeardown
  <2> QED
    BY <1>25, <2>1, <2>2 DEF Typed, GlobalTeardown, runVars, distVars, ioVars
<1>26. ASSUME Summary PROVE Typed'
  <2>1. pc' \in [Threads -> Labels]
    BY <1>26, <1>a, ThreadFacts DEF Summary, Goto, Labels
  <2>2. status' \in {-1, 0, 1, 2}
    BY <1>26, <1>b, ThreadFacts DEF Summary
  <2> QED
    BY <1>26, <2>1, <2>2 DEF Typed, Summary, runVars, distVars, ioVars
<1>27. ASSUME CleanUp PROVE Typed'
  <2>1. pc' \in [Threads -> Labels]
    BY <1>27, <1>a, ThreadFacts DEF CleanUp, Goto, Labels
  <2>2. records' \in BOOLEAN
    BY <1>27, <1>g, ThreadFacts DEF CleanUp
  <2>3. log' \in [Logs -> LogType]
    BY <1>27, <1>h, ThreadFacts, LogFree DEF CleanUp
  <2>4. io_init' \in BOOLEAN
    BY <1>27, <1>g, ThreadFacts DEF CleanUp
  <2> QED
    BY <1>27, <2>1, <2>2, <2>3, <2>4 DEF Typed, CleanUp, runVars, distVars, ioVars
<1>28. CASE UNCHANGED vars
  BY <1>28 DEF Typed, vars
<1> QED
  BY <1>1, <1>2, <1>3, <1>4, <1>5, <1>6, <1>7, <1>8, <1>9, <1>10, <1>11,
     <1>12, <1>13, <1>14, <1>15, <1>16, <1>17, <1>18, <1>19, <1>20, <1>21,
     <1>22, <1>23, <1>24, <1>25, <1>26, <1>27, <1>28
  DEF Next, MasterStep, CollectStep, RunStep, Finished

-----------------------------------------------------------------------------
(* Phases.                                                                 *)

Run == {"loop", "body", "schedule", "full", "printFull", "releaseFull", "check",
        "signal", "poll", "flush", "printFlush", "releaseFlush", "runBarrier"}

Rounds == {"reduce", "reducing", "reduceBarrier"}

\* Thread 0 after its last barrier: behind the joins or not yet.
Closing == {"teardown", "summary", "cleanup", "returned", "crashed"}

EarlyLabels(t) ==
    IF t = 0 THEN {"start", "spawn", "create", "init", "setupBarrier"}
    ELSE IF t = 1 THEN {"off", "collect", "records", "distribute", "setup",
                        "init", "setupBarrier"}
    ELSE {"off", "init", "setupBarrier"}

\* Before the first release of the barrier.
Early ==
    /\ \A t \in Threads : pc[t] \in EarlyLabels(t)
    /\ pc[0] \in {"start", "spawn", "create"} => spawned < Jobs - 1
    /\ pc[0] = "start" => spawned = 0
    /\ pc[0] \in {"start", "spawn"} =>
          \A t \in Threads : t > spawned => pc[t] = "off"
    /\ pc[0] = "create" =>
          \A t \in Threads : t > spawned + 1 => pc[t] = "off"
    /\ pc[0] \in {"init", "setupBarrier"} => spawned = Jobs - 1
    /\ teardowns = 0

\* The locks or a thread could not be created.
Abandoned ==
    /\ pc[0] \in {"returned", "exited"}
    /\ \A t \in Threads : t # 0 => pc[t] = "off"
    /\ teardowns = 0

\* Between the first and the second release; a thread whose log could not be
\* initialised has left, which holds the others at the second barrier.
Running ==
    /\ spawned = Jobs - 1
    /\ \A t \in Threads : ok[t] => pc[t] \in Run
    /\ \A t \in Threads : ~ok[t] =>
          pc[t] \in IF t = 0 THEN {"join"} \cup Closing ELSE {"done"}
    /\ pc[0] \in Closing => \A t \in Threads : ~ok[t]

\* The rounds of the reduction: all threads are in the same round.
Reducing ==
    /\ spawned = Jobs - 1
    /\ stride[0] # 0
    /\ stride[0] <= flp232(Jobs)
    /\ \A t \in Threads : /\ ok[t]
                          /\ pc[t] \in Rounds
                          /\ stride[t] = stride[0]
                          /\ pc[t] = "reducing" => t < stride[0]

\* After the last release.
Ending ==
    /\ spawned = Jobs - 1
    /\ \A t \in Threads :
          /\ ok[t]
          /\ stride[t] = 0
          /\ pc[t] \in IF t = 0 THEN {"reduce", "join"} \cup Closing
                                ELSE {"reduce", "free", "done"}
    /\ pc[0] \in Closing => \A t \in Threads : t # 0 => pc[t] = "done"

PhaseInv == Early \/ Abandoned \/ Running \/ Reducing \/ Ending

-----------------------------------------------------------------------------
(* What a step does to the control state.                                  *)

RunMove(t) ==
    /\ pc[t] \in Run
    /\ \E x \in Run : pc' = [pc EXCEPT ![t] = x]
    /\ UNCHANGED <<spawned, ok, stride, setups, teardowns>>

InitMove(t) ==
    /\ pc[t] = "init"
    /\ pc' = [pc EXCEPT ![t] = "setupBarrier"]
    /\ UNCHANGED <<spawned, stride, setups, teardowns>>

CollectMove ==
    /\ pc[1] \in {"collect", "records", "distribute", "setup"}
    /\ \E x \in {"records", "distribute", "setup", "init"} :
          /\ pc' = [pc EXCEPT ![1] = x]
          /\ pc[1] = "setup" => x = "init"
    /\ UNCHANGED <<spawned, ok, stride, teardowns>>

TailMove ==
    /\ pc[0] \in Closing \ {"returned"}
    /\ \E x \in Closing : pc' = [pc EXCEPT ![0] = x]
    /\ UNCHANGED <<spawned, ok, stride>>

\* Every step is one of these moves of the control state.
LEMMA Moves ==
    ASSUME Typed, [Next]_vars
    PROVE  \/ StartUp \/ Spawn \/ SpawnReturn \/ SpawnFail \/ Join
           \/ BarrierRelease \/ CollectMove \/ TailMove
           \/ \E t \in Threads : \/ RunMove(t) \/ InitMove(t)
                                 \/ ReduceLoop(t) \/ Reduce(t) \/ FreeLog(t)
           \/ UNCHANGED <<pc, spawned, ok, stride, setups, teardowns>>
<1>1. CollectStep => CollectMove
  <2>1. Collect => CollectMove
    BY DEF Collect, Goto, CollectMove
  <2>2. AllocRecords => CollectMove
    BY DEF AllocRecords, Goto, CollectMove
  <2>3. ASSUME Distribute PROVE CollectMove
    <3>1. pc \in [Threads -> Labels]
      BY DEF Typed
    <3>2. CASE pc' = pc
      <4>1. pc' = [pc EXCEPT ![1] = "distribute"]
        BY <2>3, <3>1, <3>2, ThreadFacts DEF Distribute
      <4> QED
        BY <2>3, <4>1 DEF Distribute, CollectMove
    <3>3. CASE pc' = [pc EXCEPT ![1] = "setup"]
      BY <2>3, <3>3 DEF Distribute, CollectMove
    <3> QED
      BY <2>3, <3>2, <3>3 DEF Distribute, Goto
  <2>4. GlobalSetup => CollectMove
    BY DEF GlobalSetup, Goto, CollectMove
  <2> QED
    BY <2>1, <2>2, <2>3, <2>4 DEF CollectStep
<1>2. ASSUME NEW t \in Threads, RunStep(t)
      PROVE  RunMove(t) \/ InitMove(t) \/ ReduceLoop(t) \/ Reduce(t) \/ FreeLog(t)
  <2>1. TestInit(t) => InitMove(t)
    BY DEF TestInit, InitMove, Goto
  <2>2. BeginTest(t) => RunMove(t)
    BY DEF BeginTest, RunMove, Run, Goto
  <2>3. LoopDone(t) => RunMove(t)
    BY DEF LoopDone, RunMove, Run, Goto
  <2>4. TestBody(t) => RunMove(t)
    BY DEF TestBody, RunMove, Run, Goto
  <2>5. SchedulePrint(t) => RunMove(t)
    BY DEF SchedulePrint, RunMove, Run, Goto
  <2>6. AcquireIo(t) => RunMove(t)
    BY DEF AcquireIo, RunMove, Run, Goto
  <2>7. PrintBuffer(t) => RunMove(t)
    BY DEF PrintBuffer, RunMove, Run, Goto
  <2>8. ReleaseIo(t) => RunMove(t)
    BY DEF ReleaseIo, RunMove, Run, Goto
  <2>9. CheckResult(t) => RunMove(t)
    BY FlagAssumption DEF CheckResult, Succeeded, RunMove, Run, Goto
  <2>10. SignalAbort(t) => RunMove(t)
    BY DEF SignalAbort, RunMove, Run, Goto
  <2>11. PollAbort(t) => RunMove(t)
    BY DEF PollAbort, RunMove, Run, Goto
  <2> QED
    BY <1>2, <2>1, <2>2, <2>3, <2>4, <2>5, <2>6, <2>7, <2>8, <2>9, <2>10, <2>11
    DEF RunStep
<1>3. MasterStep => \/ StartUp \/ Spawn \/ SpawnReturn \/ SpawnFail \/ Join
                    \/ TailMove
  <2>1. GlobalTeardown => TailMove
    BY DEF GlobalTeardown, TailMove, Closing, Goto
  <2>2. Summary => TailMove
    BY DEF Summary, TailMove, Closing, Goto
  <2>3. CleanUp => TailMove
    BY DEF CleanUp, TailMove, Closing, Goto
  <2> QED
    BY <2>1, <2>2, <2>3 DEF MasterStep
<1> QED
  BY <1>1, <1>2, <1>3 DEF Next, Finished, vars

-----------------------------------------------------------------------------
\* The phases hold initially.
LEMMA PhaseInit == Init => PhaseInv
<1> SUFFICES ASSUME Init PROVE Early
  BY DEF PhaseInv
<1>1. pc[0] = "start" /\ spawned = 0
  BY ThreadFacts DEF Init
<1>2. \A t \in Threads : t # 0 => pc[t] = "off"
  BY DEF Init
<1> QED
  BY <1>1, <1>2, ThreadFacts DEF Early, EarlyLabels, Init

\* What the label of one thread says about the phase.
LEMMA WhichPhase ==
    ASSUME Typed, PhaseInv, NEW t \in Threads
    PROVE  /\ pc[t] \in Run => Running /\ ok[t]
           /\ pc[t] \in Rounds => \/ Reducing
                                  \/ Ending /\ pc[t] = "reduce" /\ stride[t] = 0
           /\ pc[t] = "free" => Ending /\ t # 0
           /\ pc[t] \in {"init", "setupBarrier"} => Early
           /\ t # 0 /\ pc[t] = "done" => (Running /\ ~ok[t]) \/ Ending
  BY ThreadFacts DEF Typed, PhaseInv, Early, EarlyLabels, Abandoned, Running,
     Reducing, Ending, Run, Rounds, Closing

\* What the label of the master says about the phase.
LEMMA MasterPhase ==
    ASSUME Typed, PhaseInv
    PROVE  /\ pc[0] \in {"start", "spawn", "create"} => Early
           /\ pc[0] = "join" => (Running /\ ~ok[0]) \/ Ending
           /\ pc[0] \in Closing => Abandoned \/ (Running /\ ~ok[0]) \/ Ending
           /\ pc[1] \in {"collect", "records", "distribute", "setup"} => Early
<1>1. CASE Early
  <2>1. pc[0] \in EarlyLabels(0)
    BY <1>1, ThreadFacts DEF Early
  <2>2. pc[0] \notin {"join"} \cup Closing
    BY <2>1 DEF EarlyLabels, Closing
  <2> QED
    BY <1>1, <2>2
<1>2. CASE Abandoned
  <2>1. pc[0] \in {"returned", "exited"} /\ pc[1] = "off"
    BY <1>2, ThreadFacts DEF Abandoned
  <2> QED
    BY <1>2, <2>1
<1>3. CASE Running
  <2>1. ok[0] => pc[0] \in Run
    BY <1>3, ThreadFacts DEF Running
  <2>2. ~ok[0] => pc[0] \in {"join"} \cup Closing
    BY <1>3, ThreadFacts DEF Running
  <2>3. pc[1] \in Run \cup {"done"}
    BY <1>3, ThreadFacts DEF Running
  <2> QED
    BY <1>3, <2>1, <2>2, <2>3 DEF Run, Closing
<1>4. CASE Reducing
  <2>1. pc[0] \in Rounds /\ pc[1] \in Rounds
    BY <1>4, ThreadFacts DEF Reducing
  <2> QED
    BY <2>1 DEF Rounds, Closing
<1>5. CASE Ending
  <2>1. /\ pc[0] \in {"reduce", "join"} \cup Closing
        /\ pc[1] \in {"reduce", "free", "done"}
    BY <1>5, ThreadFacts DEF Ending
  <2> QED
    BY <1>5, <2>1 DEF Closing
<1> QED
  BY <1>1, <1>2, <1>3, <1>4, <1>5 DEF PhaseInv

\* The thread that is created next has not been created yet.
LEMMA NextThread ==
    ASSUME Typed, Early, pc[0] = "spawn"
    PROVE  spawned + 1 \in Threads /\ spawned + 1 # 0 /\ pc[spawned + 1] = "off"
<1>1. spawned \in Nat /\ Jobs \in Nat
  BY ThreadFacts DEF Typed
<1>2. spawned < Jobs - 1 /\ \A t \in Threads : t > spawned => pc[t] = "off"
  BY DEF Early
<1>3. spawned + 1 \in Threads /\ spawned + 1 # 0
  BY <1>1, <1>2 DEF Threads
<1> QED
  BY <1>1, <1>2, <1>3

\* Every step keeps the phases.
LEMMA PhaseNext == Typed /\ PhaseInv /\ [Next]_vars => PhaseInv'
<1> SUFFICES ASSUME Typed, PhaseInv, [Next]_vars PROVE PhaseInv'
  OBVIOUS
<1>a. /\ pc \in [Threads -> Labels]
      /\ stride \in [Threads -> Powers \cup {0}]
      /\ ok \in [Threads -> BOOLEAN]
      /\ spawned \in Nat
  BY DEF Typed
<1>b. /\ pc' \in [Threads -> Labels]
      /\ stride' \in [Threads -> Powers \cup {0}]
      /\ ok' \in [Threads -> BOOLEAN]
  BY TypedNext DEF Typed
<1>1. CASE StartUp
  <2>1. Early /\ pc[0] = "start"
    BY <1>1, MasterPhase DEF StartUp
  <2>2. spawned' = spawned /\ teardowns' = teardowns
    BY <1>1 DEF StartUp
  <2>3. CASE pc' = [pc EXCEPT ![0] = "spawn"]
    <3>1. Early'
      BY <1>a, <2>1, <2>2, <2>3, ThreadFacts DEF Early, EarlyLabels
    <3> QED
      BY <3>1 DEF PhaseInv
  <2>4. CASE pc' = [pc EXCEPT ![0] = "returned"]
    <3>1. Abandoned'
      BY <1>a, <2>1, <2>2, <2>4, ThreadFacts DEF Early, Abandoned
    <3> QED
      BY <3>1 DEF PhaseInv
  <2> QED
    BY <1>1, <2>3, <2>4 DEF StartUp, Goto
<1>2. CASE Spawn
  <2>1. Early /\ pc[0] = "spawn"
    BY <1>2, MasterPhase DEF Spawn
  <2>2. spawned + 1 \in Threads /\ spawned + 1 # 0
    BY <1>a, <2>1, NextThread
  <2>3. pc' = [pc EXCEPT ![0] = "create",
                         ![spawned + 1] = IF spawned + 1 = 1 THEN "collect" ELSE "init"]
    BY <1>2 DEF Spawn
  <2>4. spawned' = spawned /\ teardowns' = teardowns
    BY <1>2 DEF Spawn
  <2>5. Early'
    BY <1>a, <2>1, <2>2, <2>3, <2>4, ThreadFacts DEF Early, EarlyLabels
  <2> QED
    BY <2>5 DEF PhaseInv
<1>3. CASE SpawnReturn
  <2>1. Early /\ pc[0] = "create"
    BY <1>3, MasterPhase DEF SpawnReturn
  <2>2. spawned' = spawned + 1 /\ teardowns' = teardowns
    BY <1>3 DEF SpawnReturn
  <2>3. pc' = [pc EXCEPT ![0] = IF spawned' = Jobs - 1 THEN "init" ELSE "spawn"]
    BY <1>3 DEF SpawnReturn, Goto
  <2>4. Early'
    BY <1>a, <2>1, <2>2, <2>3, ThreadFacts DEF Early, EarlyLabels
  <2> QED
    BY <2>4 DEF PhaseInv
<1>4. CASE SpawnFail
  <2>1. Early /\ teardowns' = teardowns
    BY <1>4, MasterPhase DEF SpawnFail
  <2>2. Abandoned'
    BY <1>4, <2>1, ThreadFacts DEF SpawnFail, Early, Abandoned
  <2> QED
    BY <2>2 DEF PhaseInv
<1>5. CASE CollectMove
  <2>1. Early
    BY <1>5, MasterPhase DEF CollectMove
  <2>2. PICK x \in {"records", "distribute", "setup", "init"} :
               pc' = [pc EXCEPT ![1] = x]
    BY <1>5 DEF CollectMove
  <2>3. pc[1] # "off" /\ spawned' = spawned /\ teardowns' = teardowns
    BY <1>5 DEF CollectMove
  <2>4. \A t \in Threads : pc'[t] \in EarlyLabels(t)
    BY <1>a, <2>1, <2>2, ThreadFacts DEF Early, EarlyLabels
  <2>5. pc'[0] = pc[0]
    BY <1>a, <2>2, ThreadFacts
  <2>6. \A t \in Threads : pc[t] = "off" => pc'[t] = "off"
    BY <1>a, <2>2, <2>3, ThreadFacts
  <2>7. Early'
    BY <2>1, <2>3, <2>4, <2>5, <2>6 DEF Early
  <2> QED
    BY <2>7 DEF PhaseInv
<1>6. CASE BarrierRelease
  <2>1. /\ \A t \in Threads : pc[t] \in Barriers
        /\ pc' = [t \in Threads |-> Released(t)]
        /\ stride' = [t \in Threads |-> Halved(t)]
        /\ spawned' = spawned /\ ok' = ok
    BY <1>6 DEF BarrierRelease
  <2>2. CASE Early
    <3>1. \A t \in Threads : pc[t] = "setupBarrier"
      BY <2>1, <2>2 DEF Early, EarlyLabels, Barriers
    <3>2. spawned = Jobs - 1
      BY <2>2, <3>1, ThreadFacts DEF Early
    <3>3. \A t \in Threads : pc'[t] = IF ok[t] THEN "loop"
                                      ELSE IF t = 0 THEN "join" ELSE "done"
      BY <1>a, <2>1, <3>1 DEF Released
    <3>4. Running'
      BY <2>1, <3>2, <3>3, ThreadFacts DEF Running, Run, Closing
    <3> QED
      BY <3>4 DEF PhaseInv
  <2>3. CASE Abandoned
    BY <2>1, <2>3, ThreadFacts DEF Abandoned, Barriers
  <2>4. CASE Running
    <3>1. \A t \in Threads : ok[t] /\ pc[t] = "runBarrier"
      BY <2>1, <2>4 DEF Running, Run, Barriers, Closing
    <3>2. \A t \in Threads : pc'[t] = "reduce" /\ stride'[t] = flp232(Jobs)
      BY <2>1, <3>1 DEF Released, Halved
    <3>3. flp232(Jobs) # 0 /\ flp232(Jobs) <= flp232(Jobs)
      BY RoundDown DEF Powers
    <3>4. Reducing'
      BY <2>1, <2>4, <3>1, <3>2, <3>3, ThreadFacts DEF Running, Reducing, Rounds
    <3> QED
      BY <3>4 DEF PhaseInv
  <2>5. CASE Reducing
    <3>1. \A t \in Threads : ok[t] /\ pc[t] = "reduceBarrier"
      BY <2>1, <2>5 DEF Reducing, Rounds, Barriers
    <3>2. \A t \in Threads : pc'[t] = "reduce" /\ stride'[t] = stride[t] \div 2
      BY <2>1, <3>1 DEF Released, Halved
    <3>3. \A t \in Threads : stride'[t] = stride'[0]
      BY <2>5, <3>2, ThreadFacts DEF Reducing
    <3>4. stride[0] \in Powers /\ stride[0] <= flp232(Jobs)
      BY <1>a, <2>5, ThreadFacts DEF Reducing
    <3>5. stride'[0] = stride[0] \div 2
      BY <3>2, ThreadFacts
    <3>6. stride'[0] <= flp232(Jobs)
      BY <3>4, <3>5, Halving, RoundDown DEF Powers
    <3>7. CASE stride'[0] = 0
      <4>1. Ending'
        BY <2>1, <2>5, <3>1, <3>2, <3>3, <3>7, ThreadFacts DEF Reducing, Ending, Closing
      <4> QED
        BY <4>1 DEF PhaseInv
    <3>8. CASE stride'[0] # 0
      <4>1. Reducing'
        BY <2>1, <2>5, <3>1, <3>2, <3>3, <3>6, <3>8 DEF Reducing, Rounds
      <4> QED
        BY <4>1 DEF PhaseInv
    <3> QED
      BY <3>7, <3>8
  <2>6. CASE Ending
    BY <2>1, <2>6, ThreadFacts DEF Ending, Barriers, Closing
  <2> QED
    BY <2>2, <2>3, <2>4, <2>5, <2>6 DEF PhaseInv
<1>7. ASSUME NEW t \in Threads, RunMove(t) PROVE PhaseInv'
  <2>1. Running /\ ok[t]
    BY <1>7, WhichPhase DEF RunMove
  <2>2. PICK x \in Run : pc' = [pc EXCEPT ![t] = x]
    BY <1>7 DEF RunMove
  <2>3. spawned' = spawned /\ ok' = ok
    BY <1>7 DEF RunMove
  <2>4. t = 0 => pc'[0] \notin Closing
    BY <1>a, <2>2, ThreadFacts DEF Run, Closing
  <2>5. t # 0 => pc'[0] = pc[0]
    BY <1>a, <2>2, ThreadFacts
  <2>6. Running'
    BY <1>a, <2>1, <2>2, <2>3, <2>4, <2>5 DEF Running
  <2> QED
    BY <2>6 DEF PhaseInv
<1>8. ASSUME NEW t \in Threads, InitMove(t) PROVE PhaseInv'
  <2>1. Early /\ pc[t] = "init"
    BY <1>8, WhichPhase DEF InitMove
  <2>2. pc' = [pc EXCEPT ![t] = "setupBarrier"] /\ spawned' = spawned /\ teardowns' = teardowns
    BY <1>8 DEF InitMove
  <2>3. \A u \in Threads : pc'[u] \in EarlyLabels(u)
    BY <1>a, <2>1, <2>2 DEF Early, EarlyLabels
  <2>4. \/ pc'[0] = pc[0]
        \/ pc[0] = "init" /\ pc'[0] = "setupBarrier"
    BY <1>a, <2>1, <2>2, ThreadFacts
  <2>5. \A u \in Threads : pc[u] = "off" => pc'[u] = "off"
    BY <1>a, <2>1, <2>2
  <2>6. Early'
    BY <2>1, <2>2, <2>3, <2>4, <2>5 DEF Early
  <2> QED
    BY <2>6 DEF PhaseInv
<1>9. ASSUME NEW t \in Threads, ReduceLoop(t) PROVE PhaseInv'
  <2>1. stride[t] \in Nat /\ t \in Nat
    BY <1>a, ThreadFacts DEF Powers
  <2>2. pc[t] = "reduce" /\ spawned' = spawned /\ ok' = ok /\ stride' = stride
    BY <1>9 DEF ReduceLoop
  <2>3. CASE Reducing
    <3>1. stride[t] # 0 /\ stride[t] = stride[0]
      BY <2>3 DEF Reducing
    <3>2. \/ t < stride[t] /\ pc' = [pc EXCEPT ![t] = "reducing"]
          \/ t >= stride[t] /\ pc' = [pc EXCEPT ![t] = "reduceBarrier"]
      BY <1>9, <2>1, <3>1 DEF ReduceLoop, Goto
    <3>3. Reducing'
      BY <1>a, <2>2, <2>3, <3>1, <3>2, ThreadFacts DEF Reducing, Rounds
    <3> QED
      BY <3>3 DEF PhaseInv
  <2>4. CASE Ending
    <3>1. stride[t] = 0
      BY <2>4 DEF Ending
    <3>2. \/ t # 0 /\ pc' = [pc EXCEPT ![t] = "free"]
          \/ t = 0 /\ pc' = [pc EXCEPT ![t] = "join"]
      BY <1>9, <2>1, <3>1 DEF ReduceLoop, Goto
    <3>3. pc[0] \notin Closing \/ t = 0
      BY <2>2, <2>4 DEF Ending
    <3>4. pc'[0] \notin Closing
      BY <1>a, <2>4, <3>2, <3>3, ThreadFacts DEF Closing
    <3>5. Ending'
      BY <1>a, <2>2, <2>4, <3>2, <3>4, ThreadFacts DEF Ending
    <3> QED
      BY <3>5 DEF PhaseInv
  <2> QED
    BY <2>2, <2>3, <2>4, WhichPhase DEF Rounds
<1>10. ASSUME NEW t \in Threads, Reduce(t) PROVE PhaseInv'
  <2>1. Reducing
    BY <1>10, WhichPhase DEF Reduce, Rounds
  <2>2. /\ pc' = [pc EXCEPT ![t] = "reduceBarrier"]
        /\ spawned' = spawned /\ ok' = ok /\ stride' = stride
    BY <1>10 DEF Reduce, Goto
  <2>3. Reducing'
    BY <1>a, <2>1, <2>2, ThreadFacts DEF Reducing, Rounds
  <2> QED
    BY <2>3 DEF PhaseInv
<1>11. ASSUME NEW t \in Threads, FreeLog(t) PROVE PhaseInv'
  <2>1. Ending /\ t # 0
    BY <1>11, WhichPhase DEF FreeLog
  <2>2. /\ pc' = [pc EXCEPT ![t] = "done"]
        /\ spawned' = spawned /\ ok' = ok /\ stride' = stride
    BY <1>11 DEF FreeLog, Goto
  <2>3. Ending'
    BY <1>a, <2>1, <2>2, ThreadFacts DEF Ending
  <2> QED
    BY <2>3 DEF PhaseInv
<1>12. CASE Join
  <2>1. /\ pc[0] = "join" /\ pc' = [pc EXCEPT ![0] = "teardown"]
        /\ \A t \in Threads \ {0} : pc[t] = "done"
        /\ spawned' = spawned /\ ok' = ok /\ stride' = stride
    BY <1>12 DEF Join, Goto
  <2>2. CASE Running /\ ~ok[0]
    <3>1. \A t \in Threads : ~ok[t]
      BY <2>1, <2>2 DEF Running, Run
    <3>2. pc'[0] = "teardown" /\ \A t \in Threads : t # 0 => pc'[t] = "done"
      BY <1>a, <2>1, ThreadFacts
    <3>3. Running'
      BY <2>1, <2>2, <3>1, <3>2 DEF Running, Closing
    <3> QED
      BY <3>3 DEF PhaseInv
  <2>3. CASE Ending
    <3>1. Ending'
      BY <1>a, <2>1, <2>3, ThreadFacts DEF Ending, Closing
    <3> QED
      BY <3>1 DEF PhaseInv
  <2> QED
    BY <2>1, <2>2, <2>3, MasterPhase
<1>13. CASE TailMove
  <2>1. PICK x \in Closing : pc' = [pc EXCEPT ![0] = x]
    BY <1>13 DEF TailMove
  <2>2. pc[0] \in Closing /\ spawned' = spawned /\ ok' = ok /\ stride' = stride
    BY <1>13 DEF TailMove
  <2>3. ~Abandoned
    BY <1>13 DEF TailMove, Abandoned, Closing
  <2>4. CASE Running /\ ~ok[0]
    <3>1. Running'
      BY <1>a, <2>1, <2>2, <2>4, ThreadFacts DEF Running
    <3> QED
      BY <3>1 DEF PhaseInv
  <2>5. CASE Ending
    <3>1. Ending'
      BY <1>a, <2>1, <2>2, <2>5, ThreadFacts DEF Ending
    <3> QED
      BY <3>1 DEF PhaseInv
  <2> QED
    BY <2>2, <2>3, <2>4, <2>5, MasterPhase
<1>14. CASE UNCHANGED <<pc, spawned, ok, stride, setups, teardowns>>
  BY <1>14 DEF PhaseInv, Early, Abandoned, Running, Reducing, Ending
<1> QED
  BY <1>1, <1>2, <1>3, <1>4, <1>5, <1>6, <1>7, <1>8, <1>9, <1>10, <1>11, <1>12,
     <1>13, <1>14, Moves

\* The types and the phases hold in every reachable state.
THEOREM PhasesHold == Spec => [](Typed /\ PhaseInv)
<1>1. Init => Typed /\ PhaseInv
  BY TypedInit, PhaseInit
<1>2. Typed /\ PhaseInv /\ [Next]_vars => (Typed /\ PhaseInv)'
  BY TypedNext, PhaseNext
<1> QED
  BY <1>1, <1>2, PTL DEF Spec

-----------------------------------------------------------------------------
(* The logs are shared safely.                                             *)

\* A statement that writes a log writes the log of its own thread.
LEMMA WritesOwn ==
    ASSUME Typed, PhaseInv, NEW t \in Threads
    PROVE  LogWrites(t) \subseteq {t}
<1>1. CASE pc[t] = "body"
  <2>1. spawned = Jobs - 1
    BY <1>1, WhichPhase DEF Run, Running
  <2>2. cldm_thread_id(t) = t
    BY <2>1, ThreadFacts DEF cldm_thread_id, Threads
  <2> QED
    BY <1>1, <2>2 DEF LogWrites
<1>2. CASE pc[t] # "body"
  BY <1>2 DEF LogWrites
<1> QED
  BY <1>1, <1>2

\* While a thread reads another thread's log, nobody writes that log.
LEMMA ReadsQuiet ==
    ASSUME Typed, PhaseInv, NEW t \in Threads, NEW u \in Threads, t # u
    PROVE  LogWrites(t) \cap LogReads(u) = {}
<1>1. CASE pc[u] = "reducing"
  <2>1. Reducing
    BY <1>1, WhichPhase DEF Rounds
  <2>2. u < stride[0] /\ stride[u] = stride[0] /\ LogReads(u) = {u + stride[0]}
    BY <1>1, <2>1 DEF Reducing, LogReads
  <2>3. stride[0] \in Nat /\ t \in Nat /\ u \in Nat
    <3>1. stride \in [Threads -> Powers \cup {0}]
      BY DEF Typed
    <3> QED
      BY <3>1, ThreadFacts DEF Powers, Threads
  <2>4. pc[t] \in Rounds /\ (pc[t] = "reducing" => t < stride[0])
    BY <2>1 DEF Reducing
  <2>5. CASE pc[t] = "reducing"
    <3>1. t # u + stride[0]
      BY <2>2, <2>3, <2>4, <2>5
    <3> QED
      BY <2>2, <3>1, WritesOwn
  <2>6. CASE pc[t] # "reducing"
    <3>1. LogWrites(t) = {}
      BY <2>4, <2>6 DEF LogWrites, Rounds
    <3> QED
      BY <3>1
  <2> QED
    BY <2>5, <2>6
<1>2. CASE pc[u] = "summary"
  <2>1. u = 0
    <3>1. CASE u # 0
      BY <1>2, <3>1, ThreadFacts DEF PhaseInv, Early, EarlyLabels, Abandoned,
         Running, Reducing, Ending, Run, Rounds
    <3> QED
      BY <3>1
  <2>2. pc[t] = "done"
    BY <1>2, <2>1, ThreadFacts DEF PhaseInv, Early, EarlyLabels, Abandoned,
       Running, Reducing, Ending, Run, Rounds, Closing
  <2> QED
    BY <2>2 DEF LogWrites
<1>3. CASE pc[u] \notin {"reducing", "summary"}
  BY <1>3 DEF LogReads
<1> QED
  BY <1>1, <1>2, <1>3

\* No two threads ever conflict on a test log: the tests write only their own
\* thread's log, the reduction reads only logs that are not written in the
\* same round, and the summary runs alone.
THEOREM RaceFreedom == Spec => []RaceFree
<1>1. Typed /\ PhaseInv => RaceFree
  <2> SUFFICES ASSUME Typed, PhaseInv, NEW t \in Threads, NEW u \in Threads, t # u
               PROVE  LogWrites(t) \cap (LogWrites(u) \cup LogReads(u)) = {}
    BY DEF RaceFree
  <2>1. LogWrites(t) \subseteq {t} /\ LogWrites(u) \subseteq {u}
    BY WritesOwn
  <2>2. LogWrites(t) \cap LogReads(u) = {}
    BY ReadsQuiet
  <2> QED
    BY <2>1, <2>2
<1> QED
  BY <1>1, PhasesHold, PTL

\* With fewer jobs than CLDM_MAX_THREADS the stride is at most half of it.
LEMMA StrideInside ==
    ASSUME Jobs < MaxThreads, Typed, PhaseInv
    PROVE  LogAccessInBounds
<1>1. flp232(Jobs) \in Nat /\ 2 * flp232(Jobs) <= MaxThreads
  <2>1. flp232(Jobs) \in Powers /\ flp232(Jobs) <= Jobs /\ MaxThreads \in Powers
    BY RoundDown, ThreadsAssumption
  <2> QED
    BY <2>1, ThreadFacts DEF Powers
<1> SUFFICES ASSUME NEW t \in Threads, pc[t] = "reducing"
             PROVE  t + stride[t] \in Logs
  BY DEF LogAccessInBounds
<1>2. Reducing
  BY WhichPhase DEF Rounds
<1>3. t < stride[t] /\ stride[t] <= flp232(Jobs)
  BY <1>2, ThreadFacts DEF Reducing
<1>4. stride[t] \in Nat /\ t \in Nat
  <2>1. stride \in [Threads -> Powers \cup {0}]
    BY DEF Typed
  <2> QED
    BY <2>1, ThreadFacts DEF Powers, Threads
<1> QED
  BY <1>1, <1>3, <1>4, ThreadFacts DEF Logs

\* With fewer jobs than CLDM_MAX_THREADS the reduction stays inside testlogs,
\* although it reads logs that belong to no thread of the run.
THEOREM InBounds == Jobs < MaxThreads => (Spec => []LogAccessInBounds)
<1> SUFFICES ASSUME Jobs < MaxThreads PROVE Spec => []LogAccessInBounds
  OBVIOUS
<1>1. Typed /\ PhaseInv => LogAccessInBounds
  BY StrideInside
<1> QED
  BY <1>1, PhasesHold, PTL

-----------------------------------------------------------------------------
(***************************************************************************)
(* The distribution of the tests: thread t is given the tests from         *)
(* StartOf(t) up to StartOf(t + 1), so the slices are disjoint and lie     *)
(* inside the array of records.  This gives the bounds of the type         *)
(* invariant, and that no test is run twice.                               *)
(***************************************************************************)

Quotient  == NTests \div Jobs
Remainder == NTests % Jobs

\* The first test of slice i; slice Jobs would start behind the last test.
StartOf(i) == i * Quotient + (IF i < Remainder THEN i ELSE Remainder)

\* Dividing the tests by the jobs.
LEMMA Division ==
    /\ Quotient \in Nat /\ Remainder \in Nat
    /\ Remainder < Jobs
    /\ NTests = Jobs * Quotient + Remainder
<1>1. NTests \in Nat /\ Jobs \in Nat /\ Jobs > 0
  BY ThreadFacts, TestsAssumption
<1> QED
  BY <1>1 DEF Quotient, Remainder

\* A slice ends where the next one starts.
LEMMA NextStart ==
    ASSUME NEW i \in Nat
    PROVE  StartOf(i) \in Nat /\ StartOf(i + 1) = StartOf(i) + Share(i)
<1>1. Quotient \in Nat /\ Remainder \in Nat
  BY Division
<1>2. i * Quotient \in Nat /\ (i + 1) * Quotient = i * Quotient + Quotient
  BY <1>1
<1>3. Share(i) = Quotient + (IF i < Remainder THEN 1 ELSE 0)
  BY DEF Share, Quotient, Remainder
<1> QED
  BY <1>1, <1>2, <1>3 DEF StartOf

\* Later slices start later.
LEMMA StartsOrdered ==
    ASSUME NEW i \in Nat, NEW j \in Nat, i <= j
    PROVE  StartOf(i) <= StartOf(j)
<1>1. Quotient \in Nat /\ Remainder \in Nat
  BY Division
<1>2. /\ i * Quotient \in Nat /\ j * Quotient \in Nat
      /\ i * Quotient <= j * Quotient
  BY <1>1
<1> QED
  BY <1>1, <1>2 DEF StartOf

\* The slices cover the tests.
LEMMA Ends == StartOf(0) = 0 /\ StartOf(Jobs) = NTests
<1>1. Quotient \in Nat /\ Remainder \in Nat /\ Remainder < Jobs
  BY Division
<1>2. StartOf(0) = 0
  BY <1>1 DEF StartOf
<1>3. StartOf(Jobs) = Jobs * Quotient + Remainder
  BY <1>1, ThreadFacts DEF StartOf
<1> QED
  BY <1>2, <1>3, Division

\* A slice lies inside the tests.
LEMMA SliceInside ==
    ASSUME NEW t \in Threads
    PROVE  /\ StartOf(t) \in Nat /\ Share(t) \in Nat
           /\ StartOf(t) + Share(t) <= NTests
<1>1. t \in Nat /\ t + 1 \in Nat /\ t + 1 <= Jobs /\ Jobs \in Nat
  BY ThreadFacts DEF Threads
<1>2. StartOf(t + 1) <= StartOf(Jobs)
  BY <1>1, StartsOrdered
<1>3. StartOf(t) \in Nat /\ StartOf(t + 1) = StartOf(t) + Share(t)
  BY <1>1, NextStart
<1>4. Share(t) \in Nat
  BY <1>1, ShareType
<1> QED
  BY <1>2, <1>3, <1>4, Ends

-----------------------------------------------------------------------------
(* The inductive invariant.                                                *)

\* No thread can have passed the first barrier.
Fresh == \/ pc[0] \in {"start", "spawn", "create"}
         \/ pc[1] \in {"collect", "records", "distribute"}

\* How far the distribution has got, and what it has handed out.
Sliced ==
    /\ dist.i \in 0..Jobs
    /\ dist.startidx = StartOf(dist.i)
    /\ \A t \in Threads :
          /\ thread_ntests[t] \in {0, Share(t)}
          /\ thread_startidx[t] \in {0, StartOf(t)}
          /\ thread_ntests[t] # 0 => thread_startidx[t] = StartOf(t)

\* How far the threads have got in their slices.
Progress ==
    /\ \A t \in Threads : begun[t] <= thread_ntests[t]
    /\ Fresh => \A t \in Threads : begun[t] = 0

\* A test is run at most once, and only as one of those its thread has begun.
RanOnce ==
    \A k \in Tests :
        /\ runs[k] <= 1
        /\ runs[k] = 1 => \E t \in Threads :
              /\ thread_startidx[t] <= k
              /\ k < thread_startidx[t] + begun[t]

SliceInv == Sliced /\ Progress /\ RanOnce

\* Fresh is never regained.
LEMMA StaysStale == Typed /\ PhaseInv /\ [Next]_vars => (Fresh' => Fresh)
<1> SUFFICES ASSUME Typed, PhaseInv, [Next]_vars, Fresh' PROVE Fresh
  OBVIOUS
<1>a. pc \in [Threads -> Labels]
  BY DEF Typed
<1>1. CASE StartUp \/ Spawn \/ SpawnReturn
  BY <1>1 DEF StartUp, Spawn, SpawnReturn, Fresh
<1>2. CASE SpawnFail
  BY <1>2, ThreadFacts DEF SpawnFail, Fresh
<1>3. CASE Join \/ TailMove
  BY <1>3, <1>a, ThreadFacts DEF Join, Goto, TailMove, Closing, Fresh
<1>4. CASE BarrierRelease
  <2>1. pc'[0] \in {"loop", "join", "done", "reduce"}
    BY <1>4, ThreadFacts DEF BarrierRelease, Released
  <2>2. pc'[1] \in {"loop", "join", "done", "reduce"}
    BY <1>4, ThreadFacts DEF BarrierRelease, Released
  <2> QED
    BY <2>1, <2>2 DEF Fresh
<1>5. CASE CollectMove
  <2>1. CASE pc[1] = "setup"
    <3>1. pc' = [pc EXCEPT ![1] = "init"]
      BY <1>5, <2>1 DEF CollectMove
    <3> QED
      BY <3>1, <1>a, ThreadFacts DEF Fresh
  <2>2. CASE pc[1] # "setup"
    BY <1>5, <2>2 DEF CollectMove, Fresh
  <2> QED
    BY <2>1, <2>2
<1>6. ASSUME NEW t \in Threads, RunMove(t) PROVE Fresh
  BY <1>6, <1>a, ThreadFacts DEF RunMove, Run, Fresh
<1>7. ASSUME NEW t \in Threads, InitMove(t) PROVE Fresh
  BY <1>7, <1>a, ThreadFacts DEF InitMove, Fresh
<1>8. ASSUME NEW t \in Threads, ReduceLoop(t) \/ Reduce(t) \/ FreeLog(t) PROVE Fresh
  BY <1>8, <1>a, ThreadFacts DEF ReduceLoop, Reduce, FreeLog, Goto, Fresh
<1>9. CASE UNCHANGED pc
  BY <1>9 DEF Fresh
<1> QED
  BY <1>1, <1>2, <1>3, <1>4, <1>5, <1>6, <1>7, <1>8, <1>9, Moves

\* Only four kinds of step matter to the slices.
LEMMA SliceMoves ==
    ASSUME [Next]_vars
    PROVE  \/ Collect \/ Distribute
           \/ \E t \in Threads : BeginTest(t)
           \/ UNCHANGED <<thread_ntests, thread_startidx, dist, begun, runs>>
<1>1. MasterStep =>
          UNCHANGED <<thread_ntests, thread_startidx, dist, begun, runs>>
  BY DEF MasterStep, StartUp, Spawn, SpawnReturn, SpawnFail, Join,
     GlobalTeardown, Summary, CleanUp, runVars, distVars
<1>2. AllocRecords \/ GlobalSetup \/ BarrierRelease =>
          UNCHANGED <<thread_ntests, thread_startidx, dist, begun, runs>>
  BY DEF AllocRecords, GlobalSetup, BarrierRelease, runVars, distVars
<1>3. ASSUME NEW t \in Threads, RunStep(t)
      PROVE  \/ BeginTest(t)
             \/ UNCHANGED <<thread_ntests, thread_startidx, dist, begun, runs>>
  BY <1>3 DEF RunStep, TestInit, LoopDone, TestBody, SchedulePrint, AcquireIo,
     PrintBuffer, ReleaseIo, CheckResult, SignalAbort, PollAbort, ReduceLoop,
     Reduce, FreeLog, runVars, distVars
<1> QED
  BY <1>1, <1>2, <1>3 DEF Next, CollectStep, Finished, vars

\* The slices are right initially: nothing has been distributed.
LEMMA SliceInit == Init => SliceInv
<1> SUFFICES ASSUME Init PROVE SliceInv
  OBVIOUS
<1>1. Sliced
  BY Ends, ThreadFacts DEF Init, Sliced
<1>2. Progress
  BY DEF Init, Progress
<1>3. RanOnce
  BY DEF Init, RanOnce
<1> QED
  BY <1>1, <1>2, <1>3 DEF SliceInv

\* A begun test belongs to its thread's slice and to no other.
LEMMA SlicesApart ==
    ASSUME Typed, Sliced, Progress, NEW t \in Threads, NEW u \in Threads, t # u,
           thread_ntests[t] # 0, thread_ntests[u] # 0
    PROVE  \/ thread_startidx[t] + thread_ntests[t] <= thread_startidx[u]
           \/ thread_startidx[u] + thread_ntests[u] <= thread_startidx[t]
<1>1. /\ thread_ntests[t] = Share(t) /\ thread_startidx[t] = StartOf(t)
      /\ thread_ntests[u] = Share(u) /\ thread_startidx[u] = StartOf(u)
  BY DEF Sliced
<1>2. t \in Nat /\ u \in Nat /\ (t + 1 <= u \/ u + 1 <= t)
  BY ThreadFacts
<1>3. /\ StartOf(t + 1) = StartOf(t) + Share(t)
      /\ StartOf(u + 1) = StartOf(u) + Share(u)
  BY <1>2, NextStart
<1>4. CASE t + 1 <= u
  BY <1>1, <1>2, <1>3, <1>4, StartsOrdered
<1>5. CASE u + 1 <= t
  BY <1>1, <1>2, <1>3, <1>5, StartsOrdered
<1> QED
  BY <1>2, <1>4, <1>5

\* Every step keeps the slices.
LEMMA SliceNext == Typed /\ PhaseInv /\ SliceInv /\ [Next]_vars => SliceInv'
<1> SUFFICES ASSUME Typed, PhaseInv, Sliced, Progress, RanOnce, [Next]_vars
             PROVE  Sliced' /\ Progress' /\ RanOnce'
  BY DEF SliceInv
<1>a. /\ thread_ntests \in [Threads -> Nat] /\ thread_startidx \in [Threads -> Nat]
      /\ dist \in [i : Nat, startidx : Nat]
      /\ begun \in [Threads -> Nat] /\ runs \in [Tests -> Nat]
  BY DEF Typed
<1>b. Fresh' => Fresh
  BY StaysStale
<1>1. CASE UNCHANGED <<thread_ntests, thread_startidx, dist, begun, runs>>
  <2>1. Sliced'
    BY <1>1 DEF Sliced
  <2>2. Progress'
    BY <1>1, <1>b DEF Progress
  <2>3. RanOnce'
    BY <1>1 DEF RanOnce
  <2> QED
    BY <2>1, <2>2, <2>3
<1>c. ASSUME Fresh, UNCHANGED <<begun, runs>>, thread_ntests' \in [Threads -> Nat]
      PROVE  Progress' /\ RanOnce'
  <2>1. \A t \in Threads : begun[t] = 0 /\ begun'[t] = 0 /\ thread_ntests'[t] \in Nat
    BY <1>c DEF Progress
  <2>2. ASSUME NEW k \in Tests, runs[k] = 1 PROVE FALSE
    <3>1. PICK t \in Threads : thread_startidx[t] <= k /\ k < thread_startidx[t] + begun[t]
      BY <2>2 DEF RanOnce
    <3>2. begun[t] = 0 /\ thread_startidx[t] \in Nat /\ k \in Int
      BY <1>a, <2>1, TestsAssumption DEF Tests
    <3> QED
      BY <3>1, <3>2
  <2>3. RanOnce'
    BY <1>c, <2>2 DEF RanOnce
  <2>4. Progress'
    BY <2>1 DEF Progress
  <2> QED
    BY <2>3, <2>4
<1>2. CASE Collect
  <2>1. Fresh /\ UNCHANGED <<begun, runs, thread_startidx, dist>>
    BY <1>2 DEF Collect, Fresh, runVars
  <2>2. thread_ntests' = thread_ntests \/ thread_ntests' = [t \in Threads |-> 0]
    BY <1>2 DEF Collect
  <2>3. Sliced'
    BY <2>1, <2>2 DEF Sliced
  <2>4. thread_ntests' \in [Threads -> Nat]
    BY <1>a, <2>2
  <2> QED
    BY <1>c, <2>1, <2>3, <2>4
<1>3. CASE Distribute
  <2>1. Fresh /\ UNCHANGED <<begun, runs>>
    BY <1>3 DEF Distribute, Fresh, runVars
  <2>2. CASE UNCHANGED <<thread_ntests, thread_startidx, dist>>
    <3>1. Sliced'
      BY <2>2 DEF Sliced
    <3> QED
      BY <1>a, <1>c, <2>1, <2>2, <3>1
  <2>3. CASE dist.i < Jobs
    <3> DEFINE i == dist.i
    <3>a. i \in Nat
      BY <1>a
    <3>1. i \in Threads /\ i \in Nat /\ i + 1 \in 0..Jobs
      BY <2>3, <3>a, ThreadFacts DEF Threads
    <3>2. /\ thread_ntests' = [thread_ntests EXCEPT ![i] = Share(i)]
          /\ thread_startidx' = [thread_startidx EXCEPT ![i] = dist.startidx]
          /\ dist' = [i |-> i + 1, startidx |-> dist.startidx + Share(i)]
      BY <1>3, <1>a, <2>3, ThreadFacts DEF Distribute
    <3>3. dist.startidx = StartOf(i) /\ Share(i) \in Nat
      BY <3>1, ShareType DEF Sliced
    <3>4. dist'.i = i + 1 /\ dist'.startidx = StartOf(i + 1)
      BY <3>1, <3>2, <3>3, NextStart
    <3> HIDE DEF i
    <3>5. \A t \in Threads :
            /\ thread_ntests'[t] = IF t = i THEN Share(i) ELSE thread_ntests[t]
            /\ thread_startidx'[t] = IF t = i THEN StartOf(i) ELSE thread_startidx[t]
      BY <1>a, <3>1, <3>2, <3>3
    <3>6. Sliced'
      BY <3>1, <3>4, <3>5 DEF Sliced
    <3>7. thread_ntests' \in [Threads -> Nat]
      BY <1>a, <3>2, <3>3
    <3> QED
      BY <1>c, <2>1, <3>6, <3>7
  <2> QED
    BY <1>3, <2>2, <2>3 DEF Distribute
<1>4. ASSUME NEW t \in Threads, BeginTest(t) PROVE Sliced' /\ Progress' /\ RanOnce'
  <2> DEFINE k == thread_startidx[t] + begun[t]
  <2>1. /\ pc[t] = "loop" /\ begun[t] < thread_ntests[t]
        /\ runs' = [runs EXCEPT ![k] = @ + 1]
        /\ begun' = [begun EXCEPT ![t] = @ + 1]
        /\ UNCHANGED <<thread_ntests, thread_startidx, dist>>
    BY <1>4 DEF BeginTest, distVars
  <2>2. Sliced'
    BY <2>1 DEF Sliced
  <2>3. ~Fresh'
    <3>1. Running
      BY <2>1, WhichPhase DEF Run
    <3>2. pc[0] \notin {"start", "spawn", "create"}
      BY <3>1, ThreadFacts DEF Running, Run, Closing
    <3>3. pc[1] \notin {"collect", "records", "distribute"}
      BY <3>1, ThreadFacts DEF Running, Run, Closing
    <3> QED
      BY <1>b, <3>2, <3>3 DEF Fresh
  <2>4. Progress'
    BY <1>a, <2>1, <2>3 DEF Progress
  <2>5. k \in Nat /\ begun[t] \in Nat /\ thread_startidx[t] \in Nat
    BY <1>a
  <2>6. ASSUME k \in Tests, runs[k] = 1 PROVE FALSE
    <3>1. PICK u \in Threads : thread_startidx[u] <= k /\ k < thread_startidx[u] + begun[u]
      BY <2>6 DEF RanOnce
    <3>2. u # t
      BY <3>1, <2>5
    <3>3. begun[u] <= thread_ntests[u] /\ begun[u] \in Nat
          /\ thread_ntests[u] \in Nat /\ thread_startidx[u] \in Nat /\ thread_ntests[t] \in Nat
      BY <1>a DEF Progress
    <3>4. \/ thread_startidx[t] + thread_ntests[t] <= thread_startidx[u]
          \/ thread_startidx[u] + thread_ntests[u] <= thread_startidx[t]
      <4>1. thread_ntests[t] # 0 /\ thread_ntests[u] # 0
        BY <2>1, <2>5, <3>1, <3>3
      <4> QED
        BY <3>2, <4>1, SlicesApart
    <3> QED
      BY <2>1, <2>5, <3>1, <3>3, <3>4
  <2> HIDE DEF k
  <2>7. k = thread_startidx[t] + begun[t]
    BY DEF k
  <2>8. ASSUME NEW j \in Tests
        PROVE  /\ runs'[j] <= 1
               /\ runs'[j] = 1 => \E u \in Threads :
                     /\ thread_startidx'[u] <= j
                     /\ j < thread_startidx'[u] + begun'[u]
    <3>1. CASE j = k
      <4>1. runs[k] = 0
        BY <1>a, <2>6, <3>1 DEF RanOnce
      <4>2. runs'[j] = 1
        BY <1>a, <2>1, <3>1, <4>1
      <4>3. thread_startidx'[t] <= j /\ j < thread_startidx'[t] + begun'[t]
        BY <1>a, <2>1, <2>5, <2>7, <3>1
      <4> QED
        BY <4>2, <4>3
    <3>2. CASE j # k
      <4>1. runs'[j] = runs[j]
        BY <1>a, <2>1, <3>2
      <4>2. \A u \in Threads : begun'[u] >= begun[u] /\ thread_startidx'[u] = thread_startidx[u]
        BY <1>a, <2>1
      <4>3. runs[j] <= 1
        BY DEF RanOnce
      <4>4. ASSUME runs[j] = 1
            PROVE  \E u \in Threads : /\ thread_startidx'[u] <= j
                                      /\ j < thread_startidx'[u] + begun'[u]
        <5>1. PICK u \in Threads : thread_startidx[u] <= j /\ j < thread_startidx[u] + begun[u]
          BY <4>4 DEF RanOnce
        <5>2. begun'[u] \in Nat /\ begun[u] \in Nat /\ thread_startidx[u] \in Nat /\ j \in Int
          BY <1>a, <2>1, TestsAssumption DEF Tests
        <5> QED
          BY <4>2, <5>1, <5>2
      <4> QED
        BY <4>1, <4>3, <4>4
    <3> QED
      BY <3>1, <3>2
  <2>9. RanOnce'
    BY <2>8 DEF RanOnce
  <2> QED
    BY <2>2, <2>4, <2>9
<1> QED
  BY <1>1, <1>2, <1>3, <1>4, SliceMoves

-----------------------------------------------------------------------------
(* What is printed and counted are tests of the run.                       *)

\* Where a thread has a current test that is not yet buffered.
InTest == {"body", "schedule", "full", "printFull", "releaseFull"}

Entries ==
    /\ spawned <= Jobs - 1
    /\ \A t \in Threads : current[t].test \in Tests \cup {-1}
    /\ \A t \in Threads : pc[t] \in InTest => current[t].test \in Tests
    /\ buffer \in [Threads -> Seq(Tests \X BOOLEAN)]
    /\ failedOn \in [Threads -> SUBSET Tests]
    /\ reported \in SUBSET (Tests \X BOOLEAN)

\* The other steps neither touch the results nor enter a test.
Quiet ==
    /\ UNCHANGED <<spawned, current, buffer, failedOn, reported>>
    /\ \A t \in Threads : pc'[t] \in InTest => pc[t] \in InTest

\* Apart from six actions, no step touches the running tests or the results.
LEMMA QuietSteps ==
    ASSUME Typed, [Next]_vars
    PROVE  \/ SpawnReturn
           \/ \E t \in Threads : \/ TestInit(t) \/ BeginTest(t) \/ TestBody(t)
                                 \/ SchedulePrint(t) \/ PrintBuffer(t)
                                 \/ ReleaseIo(t)
           \/ Quiet
<1>a. pc \in [Threads -> Labels]
  BY DEF Typed
<1>1. StartUp \/ Join \/ GlobalTeardown \/ Summary \/ CleanUp => Quiet
  BY <1>a, ThreadFacts DEF StartUp, Join, GlobalTeardown, Summary, CleanUp,
     Goto, Quiet, InTest, runVars, ioVars
<1>2. Spawn => Quiet
  BY <1>a, ThreadFacts DEF Spawn, Quiet, InTest, runVars, ioVars
<1>3. SpawnFail => Quiet
  BY DEF SpawnFail, Quiet, InTest, runVars, ioVars
<1>4. CollectStep => Quiet
  BY <1>a, ThreadFacts DEF CollectStep, Collect, AllocRecords, Distribute,
     GlobalSetup, Goto, Quiet, InTest, runVars, ioVars
<1>5. BarrierRelease => Quiet
  BY DEF BarrierRelease, Released, Quiet, InTest, runVars, ioVars
<1>6. ASSUME NEW t \in Threads,
             \/ LoopDone(t) \/ AcquireIo(t) \/ SignalAbort(t)
             \/ PollAbort(t) \/ ReduceLoop(t) \/ Reduce(t) \/ FreeLog(t)
      PROVE  Quiet
  BY <1>6, <1>a DEF LoopDone, AcquireIo, SignalAbort, PollAbort,
     ReduceLoop, Reduce, FreeLog, Goto, Quiet, InTest, runVars, ioVars
<1>7. ASSUME NEW t \in Threads, CheckResult(t) PROVE Quiet
  BY <1>7, <1>a, FlagAssumption
     DEF CheckResult, Succeeded, Goto, Quiet, InTest, runVars, ioVars
<1>8. UNCHANGED vars => Quiet
  BY DEF vars, Quiet
<1> QED
  BY <1>1, <1>2, <1>3, <1>4, <1>5, <1>6, <1>7, <1>8
     DEF Next, MasterStep, RunStep, Finished

\* There is nothing to print initially.
LEMMA EntriesInit == Init => Entries
  BY ThreadFacts DEF Init, Entries, InTest, NoTest

\* A thread begins tests of the run only.
LEMMA BegunInside ==
    ASSUME Typed, SliceInv, NEW t \in Threads, begun[t] < thread_ntests[t]
    PROVE  thread_startidx[t] + begun[t] \in Tests
<1>1. /\ thread_ntests[t] \in Nat /\ thread_startidx[t] \in Nat /\ begun[t] \in Nat
  BY DEF Typed
<1>2. thread_ntests[t] = Share(t) /\ thread_startidx[t] = StartOf(t)
  BY <1>1 DEF SliceInv, Sliced
<1>3. StartOf(t) + Share(t) <= NTests /\ NTests \in Nat
  BY SliceInside, TestsAssumption
<1> QED
  BY <1>1, <1>2, <1>3 DEF Tests

\* Appending to, or restarting, one thread's buffer keeps its type.
LEMMA BufferStep ==
    ASSUME NEW S, NEW f \in [Threads -> Seq(S)], NEW t \in Threads, NEW e \in S
    PROVE  /\ [f EXCEPT ![t] = Append(@, e)] \in [Threads -> Seq(S)]
           /\ [f EXCEPT ![t] = <<e>>] \in [Threads -> Seq(S)]
  OBVIOUS

\* Every step keeps the entries tests of the run.
LEMMA EntriesNext ==
    Typed /\ PhaseInv /\ SliceInv /\ Entries /\ [Next]_vars => Entries'
<1> SUFFICES ASSUME Typed, PhaseInv, SliceInv, Entries, [Next]_vars
             PROVE  Entries'
  OBVIOUS
<1>a. /\ pc \in [Threads -> Labels]
      /\ current \in [Threads -> CurrentType]
      /\ spawned \in Nat
  BY DEF Typed
<1>b. /\ \A t \in Threads : current[t].test \in Tests \cup {-1}
      /\ \A t \in Threads : pc[t] \in InTest => current[t].test \in Tests
      /\ buffer \in [Threads -> Seq(Tests \X BOOLEAN)]
      /\ failedOn \in [Threads -> SUBSET Tests]
      /\ reported \in SUBSET (Tests \X BOOLEAN)
      /\ spawned <= Jobs - 1
  BY DEF Entries
<1>c. \A t \in Threads : pc[t] \in InTest => Entry(t) \in Tests \X BOOLEAN
  BY <1>a, <1>b DEF Entry, CurrentType
<1>1. CASE Quiet
  BY <1>1, <1>b DEF Entries, Quiet
<1>2. CASE SpawnReturn
  <2>1. spawned' = spawned + 1 /\ spawned < Jobs - 1
    BY <1>2, MasterPhase DEF SpawnReturn, Early
  <2>2. spawned' <= Jobs - 1
    BY <1>a, <2>1, ThreadFacts
  <2>3. \A t \in Threads : pc'[t] \in InTest => pc[t] \in InTest
    BY <1>2, <1>a, ThreadFacts DEF SpawnReturn, Goto, InTest
  <2>4. UNCHANGED <<current, buffer, failedOn, reported>>
    BY <1>2 DEF SpawnReturn, runVars, ioVars
  <2> QED
    BY <1>b, <2>2, <2>3, <2>4 DEF Entries
<1>3. ASSUME NEW t \in Threads, TestInit(t) PROVE Entries'
  <2>1. \A u \in Threads : pc'[u] \in InTest => pc[u] \in InTest
    BY <1>3, <1>a DEF TestInit, Goto, InTest
  <2>2. buffer' \in [Threads -> Seq(Tests \X BOOLEAN)]
    BY <1>3, <1>b DEF TestInit
  <2>3. UNCHANGED <<spawned, current, failedOn, reported>>
    BY <1>3 DEF TestInit, runVars
  <2> QED
    BY <1>b, <2>1, <2>2, <2>3 DEF Entries
<1>4. ASSUME NEW t \in Threads, BeginTest(t) PROVE Entries'
  <2> DEFINE k == thread_startidx[t] + begun[t]
  <2>1. k \in Tests
    BY <1>4, BegunInside DEF BeginTest
  <2>2. current' = [current EXCEPT ![t] = [test |-> k, pass |-> TRUE, fatal |-> FALSE]]
    BY <1>4 DEF BeginTest
  <2> HIDE DEF k
  <2>3. \A u \in Threads : current'[u].test = IF u = t THEN k ELSE current[u].test
    BY <1>a, <2>2
  <2>4. pc' = [pc EXCEPT ![t] = "body"]
    BY <1>4 DEF BeginTest, Goto
  <2>5. UNCHANGED <<spawned, buffer, failedOn, reported>>
    BY <1>4 DEF BeginTest, ioVars
  <2>6. \A u \in Threads : pc'[u] \in InTest => current'[u].test \in Tests
    BY <1>a, <1>b, <2>1, <2>3, <2>4
  <2>7. \A u \in Threads : current'[u].test \in Tests \cup {-1}
    BY <1>b, <2>1, <2>3
  <2> QED
    BY <1>b, <2>5, <2>6, <2>7 DEF Entries
<1>5. ASSUME NEW t \in Threads, TestBody(t) PROVE Entries'
  <2> DEFINE l == cldm_thread_id(t)
  <2>1. PICK o \in Outcomes :
          /\ current' = [current EXCEPT
                 ![l].pass = @ /\ o.failed = 0,
                 ![l].fatal = @ \/ o.logged < o.failed]
          /\ failedOn' = [failedOn EXCEPT
                 ![t] = IF o.failed > 0 THEN @ \cup {current[t].test} ELSE @]
    BY <1>5 DEF TestBody
  <2>2. pc[t] = "body" /\ pc' = [pc EXCEPT ![t] = "schedule"]
        /\ UNCHANGED <<spawned, buffer, reported>>
    BY <1>5 DEF TestBody, Goto, ioVars
  <2>3. l \in Threads
    BY OwnId
  <2> HIDE DEF l
  <2>4. \A u \in Threads : current'[u].test = current[u].test
    BY <1>a, <2>1, <2>3 DEF CurrentType
  <2>5. current[t].test \in Tests
    BY <1>b, <2>2 DEF InTest
  <2>6. failedOn' \in [Threads -> SUBSET Tests]
    BY <1>b, <2>1, <2>5
  <2>7. \A u \in Threads : pc'[u] \in InTest => pc[u] \in InTest
    BY <1>a, <2>2 DEF InTest
  <2> QED
    BY <1>b, <2>2, <2>4, <2>6, <2>7 DEF Entries
<1>6. ASSUME NEW t \in Threads, SchedulePrint(t) PROVE Entries'
  <2>1. \A u \in Threads : pc'[u] \in InTest => pc[u] \in InTest
    BY <1>6, <1>a DEF SchedulePrint, Goto, InTest
  <2>2. Entry(t) \in Tests \X BOOLEAN
    BY <1>6, <1>c DEF SchedulePrint, InTest
  <2>3. buffer' = buffer \/ buffer' = [buffer EXCEPT ![t] = Append(@, Entry(t))]
    BY <1>6 DEF SchedulePrint
  <2>4. [buffer EXCEPT ![t] = Append(@, Entry(t))] \in [Threads -> Seq(Tests \X BOOLEAN)]
    <3> DEFINE S == Tests \X BOOLEAN
               e == Entry(t)
    <3>1. buffer \in [Threads -> Seq(S)] /\ e \in S
      BY <1>b, <2>2
    <3> HIDE DEF S, e
    <3>2. [buffer EXCEPT ![t] = Append(@, e)] \in [Threads -> Seq(S)]
      BY <3>1, BufferStep
    <3> QED
      BY <3>2 DEF S, e
  <2>5. UNCHANGED <<spawned, current, failedOn, reported>>
    BY <1>6 DEF SchedulePrint, runVars
  <2> QED
    BY <1>b, <2>1, <2>3, <2>4, <2>5 DEF Entries
<1>7. ASSUME NEW t \in Threads, PrintBuffer(t) PROVE Entries'
  <2>1. \A u \in Threads : pc'[u] \in InTest => pc[u] \in InTest
    BY <1>7, <1>a DEF PrintBuffer, Goto, InTest
  <2>2. \A i \in 1..Len(buffer[t]) : buffer[t][i] \in Tests \X BOOLEAN
    BY <1>b
  <2>3. reported' \in SUBSET (Tests \X BOOLEAN)
    BY <1>7, <1>b, <2>2 DEF PrintBuffer
  <2>4. UNCHANGED <<spawned, current, failedOn, buffer>>
    BY <1>7 DEF PrintBuffer, runVars
  <2> QED
    BY <1>b, <2>1, <2>3, <2>4 DEF Entries
<1>8. ASSUME NEW t \in Threads, ReleaseIo(t) PROVE Entries'
  <2>1. \A u \in Threads : pc'[u] \in InTest => pc[u] \in InTest
    BY <1>8, <1>a DEF ReleaseIo, Goto, InTest
  <2>2. buffer' = buffer
        \/ (Entry(t) \in Tests \X BOOLEAN /\ buffer' = [buffer EXCEPT ![t] = <<Entry(t)>>])
    BY <1>8, <1>c DEF ReleaseIo, InTest
  <2>3. ASSUME Entry(t) \in Tests \X BOOLEAN
        PROVE  [buffer EXCEPT ![t] = <<Entry(t)>>] \in [Threads -> Seq(Tests \X BOOLEAN)]
    <3> DEFINE S == Tests \X BOOLEAN
               e == Entry(t)
    <3>1. buffer \in [Threads -> Seq(S)] /\ e \in S
      BY <1>b, <2>3
    <3> HIDE DEF S, e
    <3>2. [buffer EXCEPT ![t] = <<e>>] \in [Threads -> Seq(S)]
      BY <3>1, BufferStep
    <3> QED
      BY <3>2 DEF S, e
  <2>4. UNCHANGED <<spawned, current, failedOn, reported>>
    BY <1>8 DEF ReleaseIo, runVars
  <2> QED
    BY <1>b, <2>1, <2>2, <2>3, <2>4 DEF Entries
<1> QED
  BY <1>1, <1>2, <1>3, <1>4, <1>5, <1>6, <1>7, <1>8, QuietSteps

-----------------------------------------------------------------------------
\* The slices, the results and the phases keep their invariants together.
THEOREM SlicesHold == Spec => [](Typed /\ PhaseInv /\ SliceInv /\ Entries)
<1>1. Init => Typed /\ PhaseInv /\ SliceInv /\ Entries
  BY TypedInit, PhaseInit, SliceInit, EntriesInit
<1>2. Typed /\ PhaseInv /\ SliceInv /\ Entries /\ [Next]_vars
      => (Typed /\ PhaseInv /\ SliceInv /\ Entries)'
  BY TypedNext, PhaseNext, SliceNext, EntriesNext
<1> QED
  BY <1>1, <1>2, PTL DEF Spec

\* However many tests and threads there are, every slice, current test and
\* printed result of cldm_parallel.c is one of the collected tests.
THEOREM TypeCorrect == Spec => []TypeOK
<1>1. Typed /\ SliceInv /\ Entries => TypeOK
  <2> SUFFICES ASSUME Typed, SliceInv, Entries PROVE TypeOK
    OBVIOUS
  <2>1. ASSUME NEW i \in 0..Jobs PROVE StartOf(i) \in 0..NTests
    <3>1. i \in Nat /\ i <= Jobs /\ Jobs \in Nat
      BY ThreadFacts
    <3>2. StartOf(i) \in Nat /\ StartOf(i) <= NTests
      BY <3>1, NextStart, StartsOrdered, Ends
    <3> QED
      BY <3>2, TestsAssumption
  <2>2. dist \in [i : 0..Jobs, startidx : 0..NTests]
    <3>1. dist \in [i : Nat, startidx : Nat] /\ dist.i \in 0..Jobs
          /\ dist.startidx = StartOf(dist.i)
      BY DEF Typed, SliceInv, Sliced
    <3> QED
      BY <2>1, <3>1
  <2>3. thread_ntests \in [Threads -> 0..NTests]
    <3>1. thread_ntests \in [Threads -> Nat]
      BY DEF Typed
    <3>2. ASSUME NEW t \in Threads PROVE thread_ntests[t] \in 0..NTests
      <4>1. thread_ntests[t] \in {0, Share(t)}
        BY DEF SliceInv, Sliced
      <4>2. Share(t) \in 0..NTests
        BY SliceInside, TestsAssumption
      <4> QED
        BY <4>1, <4>2, TestsAssumption
    <3> QED
      BY <3>1, <3>2
  <2>4. thread_startidx \in [Threads -> 0..NTests]
    <3>1. thread_startidx \in [Threads -> Nat]
      BY DEF Typed
    <3>2. ASSUME NEW t \in Threads PROVE thread_startidx[t] \in 0..NTests
      <4>1. thread_startidx[t] \in {0, StartOf(t)}
        BY DEF SliceInv, Sliced
      <4>2. t \in 0..Jobs
        BY ThreadFacts DEF Threads
      <4> QED
        BY <2>1, <4>1, <4>2, TestsAssumption
    <3> QED
      BY <3>1, <3>2
  <2>5. current \in [Threads -> [test : Tests \cup {-1}, pass : BOOLEAN, fatal : BOOLEAN]]
    <3>1. current \in [Threads -> CurrentType]
          /\ \A t \in Threads : current[t].test \in Tests \cup {-1}
      BY DEF Typed, Entries
    <3> QED
      BY <3>1 DEF CurrentType
  <2>6. spawned \in 0..(Jobs - 1)
    <3>1. spawned \in Nat /\ spawned <= Jobs - 1
      BY DEF Typed, Entries
    <3> QED
      BY <3>1, ThreadFacts
  <2>7. /\ buffer \in [Threads -> Seq(Tests \X BOOLEAN)]
        /\ failedOn \in [Threads -> SUBSET Tests]
        /\ reported \in SUBSET (Tests \X BOOLEAN)
    BY DEF Entries
  <2> QED
    BY <2>2, <2>3, <2>4, <2>5, <2>6, <2>7 DEF Typed, TypeOK
<1> QED
  BY <1>1, SlicesHold, PTL

\* The slices of cldm_parallel_collect_and_run overlap nowhere, whatever the
\* numbers of tests and threads: no test is started twice.
THEOREM RunOnce == Spec => []NoTestTwice
<1>1. SliceInv => NoTestTwice
  BY DEF SliceInv, RanOnce, NoTestTwice
<1> QED
  BY <1>1, SlicesHold, PTL

-----------------------------------------------------------------------------
(***************************************************************************)
(* What a run does with its tests: they are bracketed by the global        *)
(* procedures, stop soon after a failure if they are to, print under the   *)
(* lock, and their counts reach the exit status.                           *)
(***************************************************************************)

Printing == {"printFull", "printFlush", "releaseFull", "releaseFlush"}

\* io_lock is held by the thread that prints, and usable.
Locked ==
    /\ \A t \in Threads : pc[t] \in Printing => io_lock = {t}
    /\ ok[0] /\ pc[0] # "returned" => io_init

\* Thread 1 before it has run the global setup.
Preparing == {"off", "collect", "records", "distribute", "setup"}

\* The tests are handed out only with the records, and before the setup.
Prepared ==
    /\ pc[0] # "exited" /\ pc[1] \in Preparing => setups = 0
    /\ pc[0] # "exited" /\ pc[1] \in {"off", "collect", "records"} =>
          \A t \in Threads : thread_ntests[t] = 0
    /\ pc[1] \in {"distribute", "setup"} => records
    /\ pc[1] \notin Preparing =>
          \/ \A t \in Threads : thread_ntests[t] = 0
          \/ setups = 1 /\ (records \/ pc[0] = "returned")

\* The global teardown and the release of the logs come last.
TornDown ==
    /\ pc[0] \notin {"summary", "cleanup", "returned"} => teardowns = 0
    /\ \A t \in Threads :
          ok[t] /\ pc[t] \notin {"done", "returned"} => log[t].mem = "live"

\* No test has been run before the first release of the barrier.
Untouched ==
    /\ Early => ~early_abort /\ \A t \in Threads : failedOn[t] = {}
    /\ \A t \in Threads : ~ok[t] => failedOn[t] = {}
    /\ \A t \in Threads : pc[t] = "body" => current[t].pass

\* The test a thread is in is the last one it has begun of its slice.
Working ==
    \A t \in Threads : pc[t] \in InTest =>
        /\ begun[t] > 0
        /\ current[t].test = thread_startidx[t] + begun[t] - 1

\* A thread that begins a test after early_abort leaves its loop behind it.
Stopping ==
    early_abort =>
        /\ FailFast
        /\ \A t \in Threads : begun[t] <= snap[t] + 1
        /\ \A t \in Threads : pc[t] = "loop" => begun[t] <= snap[t]

FlagOnly == \A t \in Threads : pc[t] = "signal" => FailFast

\* The threads whose counts log t is to hold when the logs from m on have
\* been added to the ones below.
Group(m, t) == {u \in Threads : u % m = t}

Added ==
    /\ Early \/ Running =>
          \A t \in Logs : acc[t] = IF t \in Threads THEN {t} ELSE {}
    /\ Reducing =>
          \A t \in Logs : t < 2 * stride[0] =>
              acc[t] = IF t < stride[0] /\ pc[t] = "reduceBarrier"
                       THEN Group(stride[0], t) ELSE Group(2 * stride[0], t)
    /\ Ending => acc[0] = Threads

Counted ==
    \A t \in Logs : log[t].failed_tests > 0 <=> \E u \in acc[t] : failedOn[u] # {}

-----------------------------------------------------------------------------
(* The order of the phases.                                                *)

\* The first phase is never entered again.
LEMMA EarlyBack == Typed /\ PhaseInv /\ [Next]_vars => (Early' => Early)
<1> SUFFICES ASSUME Typed, PhaseInv, [Next]_vars, Early' PROVE Early
  OBVIOUS
<1>a. pc \in [Threads -> Labels]
  BY DEF Typed
<1>b. /\ \A t \in Threads : pc'[t] \in EarlyLabels(t)
      /\ pc'[0] \in {"start", "spawn", "create", "init", "setupBarrier"}
  BY ThreadFacts DEF Early, EarlyLabels
<1>1. CASE StartUp \/ Spawn \/ SpawnReturn
  BY <1>1, MasterPhase DEF StartUp, Spawn, SpawnReturn
<1>2. CASE SpawnFail
  BY <1>2, <1>b, ThreadFacts DEF SpawnFail
<1>3. CASE Join
  BY <1>3, <1>a, <1>b, ThreadFacts DEF Join, Goto
<1>4. CASE BarrierRelease
  BY <1>4, <1>b, ThreadFacts DEF BarrierRelease, Released
<1>5. CASE CollectMove
  BY <1>5, MasterPhase DEF CollectMove
<1>6. CASE TailMove
  BY <1>6, <1>a, <1>b, ThreadFacts DEF TailMove, Closing
<1>7. ASSUME NEW t \in Threads, RunMove(t) PROVE Early
  BY <1>7, <1>a, <1>b DEF RunMove, Run, EarlyLabels
<1>8. ASSUME NEW t \in Threads, InitMove(t) PROVE Early
  BY <1>8, WhichPhase DEF InitMove
<1>9. ASSUME NEW t \in Threads, ReduceLoop(t) \/ Reduce(t) \/ FreeLog(t) PROVE Early
  BY <1>9, <1>a, <1>b DEF ReduceLoop, Reduce, FreeLog, Goto, EarlyLabels
<1>10. CASE UNCHANGED <<pc, spawned, ok, stride, setups, teardowns>>
  BY <1>10 DEF Early
<1> QED
  BY <1>1, <1>2, <1>3, <1>4, <1>5, <1>6, <1>7, <1>8, <1>9, <1>10, Moves

-----------------------------------------------------------------------------
(* The printing of the results.                                            *)

\* The lock is free initially.
LEMMA LockedInit == Init => Locked
  BY ThreadFacts DEF Init, Locked, Printing

\* Every step keeps the lock with the printing thread.
LEMMA LockedNext == Typed /\ PhaseInv /\ Locked /\ [Next]_vars => Locked'
<1> SUFFICES ASSUME Typed, PhaseInv, Locked, [Next]_vars PROVE Locked'
  OBVIOUS
<1>a. pc \in [Threads -> Labels] /\ ok \in [Threads -> BOOLEAN]
  BY DEF Typed
<1> DEFINE Same == /\ UNCHANGED <<io_lock, io_init, ok>>
                   /\ \A t \in Threads : pc'[t] \in Printing => pc[t] \in Printing
                   /\ pc[0] = "returned" => pc'[0] = "returned"
<1>1. CASE Same
  BY <1>1 DEF Locked
<1>2. StartUp \/ Join \/ GlobalTeardown \/ Summary => Same
  BY <1>a, ThreadFacts DEF StartUp, Join, GlobalTeardown, Summary, Goto, ioVars, Printing
<1>3. Spawn \/ SpawnReturn => Same
  BY <1>a, ThreadFacts DEF Spawn, SpawnReturn, Goto, ioVars, Printing
<1>4. SpawnFail => Same
  BY ThreadFacts DEF SpawnFail, ioVars, Printing
<1>5. CollectStep => Same
  BY <1>a, ThreadFacts DEF CollectStep, Collect, AllocRecords, Distribute,
     GlobalSetup, Goto, ioVars, Printing
<1>6. BarrierRelease => Same
  BY ThreadFacts DEF BarrierRelease, Released, Barriers, ioVars, Printing
<1>7. ASSUME NEW t \in Threads,
             \/ BeginTest(t) \/ LoopDone(t) \/ TestBody(t) \/ SchedulePrint(t)
             \/ PrintBuffer(t) \/ SignalAbort(t) \/ PollAbort(t)
             \/ ReduceLoop(t) \/ Reduce(t) \/ FreeLog(t)
      PROVE  Same
  BY <1>7, <1>a, ThreadFacts DEF BeginTest, LoopDone, TestBody, SchedulePrint,
     PrintBuffer, SignalAbort, PollAbort, ReduceLoop, Reduce, FreeLog, Goto,
     ioVars, Printing
<1>8. ASSUME NEW t \in Threads, CheckResult(t) PROVE Same
  BY <1>8, <1>a, FlagAssumption, ThreadFacts
     DEF CheckResult, Succeeded, Goto, ioVars, Printing
<1>9. UNCHANGED vars => Same
  BY DEF vars
<1> HIDE DEF Same
<1>10. ASSUME NEW t \in Threads, TestInit(t) PROVE Locked'
  <2>1. /\ io_lock' = io_lock /\ pc' = [pc EXCEPT ![t] = "setupBarrier"]
        /\ \/ ok' = [ok EXCEPT ![t] = TRUE] /\ io_init' = (io_init \/ t = 0)
           \/ ok' = [ok EXCEPT ![t] = FALSE] /\ io_init' = io_init
    BY <1>10 DEF TestInit, Goto
  <2>2. \A u \in Threads : pc'[u] \in Printing => pc[u] \in Printing
    BY <1>a, <2>1 DEF Printing
  <2>3. pc[0] # "returned"
    <3>1. Early
      BY <1>10, WhichPhase DEF TestInit
    <3> QED
      BY <3>1, ThreadFacts DEF Early, EarlyLabels
  <2>4. ok'[0] => io_init'
    BY <1>a, <2>1, <2>3, ThreadFacts DEF Locked
  <2> QED
    BY <2>1, <2>2, <2>4 DEF Locked
<1>11. ASSUME NEW t \in Threads, AcquireIo(t) PROVE Locked'
  <2>1. /\ io_lock = {} /\ io_lock' = {t} /\ UNCHANGED <<ok, io_init>>
        /\ pc[t] \in {"full", "flush"}
        /\ \E x \in Printing : pc' = [pc EXCEPT ![t] = x]
    BY <1>11 DEF AcquireIo, Goto, Printing
  <2>2. \A u \in Threads : pc'[u] \in Printing => u = t
    BY <1>a, <2>1 DEF Locked
  <2>3. pc[0] = "returned" => pc'[0] = "returned"
    BY <1>a, <2>1, ThreadFacts
  <2> QED
    BY <2>1, <2>2, <2>3 DEF Locked
<1>12. ASSUME NEW t \in Threads, ReleaseIo(t) PROVE Locked'
  <2>1. /\ pc[t] \in Printing /\ UNCHANGED <<ok, io_init>>
        /\ \E x \in {"check", "runBarrier"} : pc' = [pc EXCEPT ![t] = x]
    BY <1>12 DEF ReleaseIo, Goto, Printing
  <2>2. \A u \in Threads : pc'[u] \in Printing => u # t /\ pc[u] \in Printing
    BY <1>a, <2>1 DEF Printing
  <2>3. \A u \in Threads : pc'[u] \notin Printing
    BY <2>1, <2>2 DEF Locked
  <2>4. pc[0] = "returned" => pc'[0] = "returned"
    BY <1>a, <2>1, ThreadFacts DEF Printing
  <2> QED
    BY <2>1, <2>3, <2>4 DEF Locked
<1>13. CASE CleanUp
  <2>1. io_lock' = io_lock /\ pc' = [pc EXCEPT ![0] = "returned"]
    BY <1>13 DEF CleanUp, Goto
  <2> QED
    BY <1>a, <2>1, ThreadFacts DEF Locked, Printing
<1> QED
  BY <1>1, <1>2, <1>3, <1>4, <1>5, <1>6, <1>7, <1>8, <1>9, <1>10, <1>11, <1>12, <1>13
     DEF Next, MasterStep, RunStep, Finished

-----------------------------------------------------------------------------
(* The global procedures around the tests.                                 *)

\* Nothing has been handed out initially.
LEMMA PreparedInit == Init => Prepared
  BY ThreadFacts DEF Init, Prepared, Preparing

\* Every step keeps the setup before the tests.
LEMMA PreparedNext == Typed /\ PhaseInv /\ Prepared /\ [Next]_vars => Prepared'
<1> SUFFICES ASSUME Typed, PhaseInv, Prepared, [Next]_vars PROVE Prepared'
  OBVIOUS
<1>a. /\ pc \in [Threads -> Labels]
      /\ thread_ntests \in [Threads -> Nat]
      /\ setups \in Nat
  BY DEF Typed
<1>b. pc[1] \in {"collect", "records", "distribute", "setup"} =>
         pc[0] \notin {"exited", "returned"}
  <2>1. Early => pc[0] \notin {"exited", "returned"}
    BY ThreadFacts DEF Early, EarlyLabels
  <2> QED
    BY <2>1, MasterPhase
<1> DEFINE Same ==
       /\ UNCHANGED <<setups, thread_ntests, records>>
       /\ pc[0] = "exited" => pc'[0] = "exited"
       /\ pc[0] = "returned" => pc'[0] = "returned"
       /\ pc'[1] = pc[1] \/ (pc[1] \notin Preparing /\ pc'[1] \notin Preparing)
<1>1. CASE Same
  BY <1>1 DEF Prepared, Preparing
<1>2. StartUp \/ SpawnReturn \/ Join \/ GlobalTeardown \/ Summary => Same
  BY <1>a, ThreadFacts DEF StartUp, SpawnReturn, Join, GlobalTeardown, Summary,
     Goto, distVars
<1>3. BarrierRelease => Same
  BY ThreadFacts DEF BarrierRelease, Released, Barriers, distVars, Preparing
<1>4. ASSUME NEW t \in Threads,
             \/ TestInit(t) \/ BeginTest(t) \/ LoopDone(t) \/ TestBody(t)
             \/ SchedulePrint(t) \/ AcquireIo(t) \/ PrintBuffer(t) \/ ReleaseIo(t)
             \/ SignalAbort(t) \/ PollAbort(t)
             \/ ReduceLoop(t) \/ Reduce(t) \/ FreeLog(t)
      PROVE  Same
  BY <1>4, <1>a, ThreadFacts DEF TestInit, BeginTest, LoopDone, TestBody,
     SchedulePrint, AcquireIo, PrintBuffer, ReleaseIo, SignalAbort, PollAbort,
     ReduceLoop, Reduce, FreeLog, Goto, distVars, Preparing
<1>5. ASSUME NEW t \in Threads, CheckResult(t) PROVE Same
  BY <1>5, <1>a, FlagAssumption, ThreadFacts
     DEF CheckResult, Succeeded, Goto, distVars, Preparing
<1>6. UNCHANGED vars => Same
  BY DEF vars
<1> HIDE DEF Same
<1>7. CASE Spawn
  <2>1. Early /\ pc[0] = "spawn"
    BY <1>7, MasterPhase DEF Spawn
  <2>2. spawned + 1 \in Threads /\ spawned + 1 # 0 /\ pc[spawned + 1] = "off"
    BY <2>1, NextThread
  <2>3. /\ pc' = [pc EXCEPT ![0] = "create",
                            ![spawned + 1] = IF spawned + 1 = 1 THEN "collect" ELSE "init"]
        /\ UNCHANGED <<setups, thread_ntests, records>>
    BY <1>7 DEF Spawn, distVars
  <2>4. pc'[0] = "create"
        /\ (pc'[1] = pc[1] \/ (pc[1] = "off" /\ pc'[1] = "collect"))
    BY <1>a, <2>2, <2>3, ThreadFacts
  <2> QED
    BY <2>1, <2>3, <2>4 DEF Prepared, Preparing
<1>8. CASE SpawnFail
  <2>1. pc'[0] = "exited" /\ pc'[1] = "off"
    BY <1>8, ThreadFacts DEF SpawnFail
  <2> QED
    BY <2>1 DEF Prepared, Preparing
<1>9. CASE Collect
  <2>1. /\ pc[1] = "collect" /\ UNCHANGED <<setups, records>>
        /\ \E x \in {"records", "init"} : pc' = [pc EXCEPT ![1] = x]
        /\ thread_ntests' \in {thread_ntests, [t \in Threads |-> 0]}
    BY <1>9 DEF Collect, Goto
  <2>2. pc[0] # "exited" /\ pc'[0] = pc[0] /\ pc'[1] \in {"records", "init"}
    BY <1>a, <1>b, <2>1, ThreadFacts
  <2>3. setups = 0 /\ \A t \in Threads : thread_ntests'[t] = 0
    BY <2>1, <2>2 DEF Prepared, Preparing
  <2> QED
    BY <2>1, <2>2, <2>3 DEF Prepared, Preparing
<1>10. CASE AllocRecords
  <2>1. /\ pc[1] = "records" /\ UNCHANGED <<setups, thread_ntests>>
        /\ \/ records' = TRUE /\ pc' = [pc EXCEPT ![1] = "distribute"]
           \/ records' = records /\ pc' = [pc EXCEPT ![1] = "init"]
    BY <1>10 DEF AllocRecords, Goto
  <2>2. /\ pc[0] # "exited" /\ pc'[0] = pc[0]
        /\ \/ pc'[1] = "distribute" /\ records'
           \/ pc'[1] = "init"
    BY <1>a, <1>b, <2>1, ThreadFacts
  <2>3. setups = 0 /\ \A t \in Threads : thread_ntests[t] = 0
    BY <2>1, <2>2 DEF Prepared, Preparing
  <2> QED
    BY <2>1, <2>2, <2>3 DEF Prepared, Preparing
<1>11. CASE Distribute
  <2>1. /\ pc[1] = "distribute" /\ UNCHANGED <<setups, records>>
        /\ pc' = pc \/ pc' = [pc EXCEPT ![1] = "setup"]
    BY <1>11 DEF Distribute, Goto
  <2>2. pc[0] # "exited" /\ pc'[0] = pc[0] /\ pc'[1] \in {"distribute", "setup"}
    BY <1>a, <1>b, <2>1, ThreadFacts
  <2>3. setups = 0 /\ records
    BY <2>1, <2>2 DEF Prepared, Preparing
  <2> QED
    BY <2>1, <2>2, <2>3 DEF Prepared, Preparing
<1>12. CASE GlobalSetup
  <2>1. /\ pc[1] = "setup" /\ setups' = setups + 1 /\ records' = records
        /\ pc' = [pc EXCEPT ![1] = "init"]
    BY <1>12 DEF GlobalSetup, Goto, distVars
  <2>2. pc[0] # "exited" /\ pc'[0] = pc[0] /\ pc'[1] = "init"
    BY <1>a, <1>b, <2>1, ThreadFacts
  <2>3. setups = 0 /\ records
    BY <2>1, <2>2 DEF Prepared, Preparing
  <2> QED
    BY <2>1, <2>2, <2>3 DEF Prepared, Preparing
<1>13. CASE CleanUp
  <2>1. /\ pc[0] = "cleanup" /\ pc' = [pc EXCEPT ![0] = "returned"]
        /\ UNCHANGED <<setups, thread_ntests>>
    BY <1>13 DEF CleanUp, Goto
  <2>2. pc'[0] = "returned" /\ pc'[1] = pc[1]
    BY <1>a, <2>1, ThreadFacts
  <2>3. pc[1] \notin Preparing
    <3>1. (Running /\ ~ok[0]) \/ Ending
      BY <2>1, MasterPhase DEF Closing, Abandoned
    <3> QED
      BY <3>1, ThreadFacts DEF Running, Ending, Run, Preparing
  <2> QED
    BY <2>1, <2>2, <2>3 DEF Prepared, Preparing
<1> QED
  BY <1>1, <1>2, <1>3, <1>4, <1>5, <1>6, <1>7, <1>8, <1>9, <1>10, <1>11, <1>12, <1>13
     DEF Next, MasterStep, CollectStep, RunStep, Finished

\* Counting a test and adding two logs leave their buffers where they are.
LEMMA BuffersStay ==
    ASSUME Typed, NEW t \in Threads, TestBody(t) \/ Reduce(t)
    PROVE  \A u \in Logs : log'[u].mem = log[u].mem
<1>a. log \in [Logs -> LogType]
  BY DEF Typed
<1>1. CASE TestBody(t)
  <2> DEFINE l == cldm_thread_id(t)
  <2>1. PICK o \in Outcomes :
          log' = [log EXCEPT
                    ![l].failed_tests =
                        IF o.failed > 0 /\ current[l].pass THEN @ + 1 ELSE @,
                    ![l].failed_assertions = @ + o.failed,
                    ![l].total_assertions = @ + o.total,
                    ![l].size = @ + o.logged]
    BY <1>1 DEF TestBody
  <2>2. l \in Logs
    BY OwnId, ThreadFacts
  <2> HIDE DEF l
  <2> QED
    BY <1>a, <2>1, <2>2 DEF LogType
<1>2. CASE Reduce(t)
  <2>1. \E other :
          log' = [log EXCEPT
                    ![t].failed_tests = @ + other.failed_tests,
                    ![t].failed_assertions = @ + other.failed_assertions,
                    ![t].total_assertions = @ + other.total_assertions]
    BY <1>2 DEF Reduce
  <2> QED
    BY <1>a, <2>1, ThreadFacts DEF LogType
<1> QED
  BY <1>1, <1>2

\* There is no log initially.
LEMMA TornDownInit == Init => TornDown
  BY ThreadFacts DEF Init, TornDown

\* Every step keeps the teardown and the release of the logs last.
LEMMA TornDownNext == Typed /\ PhaseInv /\ TornDown /\ [Next]_vars => TornDown'
<1> SUFFICES ASSUME Typed, PhaseInv, TornDown, [Next]_vars PROVE TornDown'
  OBVIOUS
<1>a. /\ pc \in [Threads -> Labels] /\ ok \in [Threads -> BOOLEAN]
      /\ log \in [Logs -> LogType]
  BY DEF Typed
<1> DEFINE Same ==
       /\ UNCHANGED <<teardowns, ok>>
       /\ \A t \in Threads : log'[t].mem = log[t].mem
       /\ \A t \in Threads : pc[t] \in {"done", "returned"} => pc'[t] \in {"done", "returned"}
       /\ pc[0] \in {"summary", "cleanup", "returned"} =>
             pc'[0] \in {"summary", "cleanup", "returned"}
<1>1. CASE Same
  BY <1>1 DEF TornDown
<1>2. StartUp \/ SpawnReturn \/ Join \/ Summary => Same
  BY <1>a, ThreadFacts DEF StartUp, SpawnReturn, Join, Summary, Goto
<1>3. CollectStep => Same
  BY <1>a, ThreadFacts DEF CollectStep, Collect, AllocRecords, Distribute,
     GlobalSetup, Goto
<1>4. BarrierRelease => Same
  BY ThreadFacts DEF BarrierRelease, Released, Barriers
<1>5. ASSUME NEW t \in Threads,
             \/ BeginTest(t) \/ LoopDone(t)
             \/ SchedulePrint(t) \/ AcquireIo(t) \/ PrintBuffer(t) \/ ReleaseIo(t)
             \/ SignalAbort(t) \/ PollAbort(t) \/ ReduceLoop(t)
      PROVE  Same
  BY <1>5, <1>a, ThreadFacts DEF BeginTest, LoopDone, SchedulePrint, AcquireIo,
     PrintBuffer, ReleaseIo, SignalAbort, PollAbort, ReduceLoop, Goto
<1>6. ASSUME NEW t \in Threads, TestBody(t) \/ Reduce(t) PROVE Same
  <2>1. \A u \in Threads : log'[u].mem = log[u].mem
    BY <1>6, BuffersStay, ThreadFacts
  <2>2. /\ pc[t] \in {"body", "reducing"} /\ UNCHANGED <<teardowns, ok>>
        /\ \E x \in {"schedule", "reduceBarrier"} : pc' = [pc EXCEPT ![t] = x]
    BY <1>6 DEF TestBody, Reduce, Goto
  <2> QED
    BY <1>a, <2>1, <2>2, ThreadFacts
<1>7. ASSUME NEW t \in Threads, CheckResult(t) PROVE Same
  BY <1>7, <1>a, FlagAssumption, ThreadFacts DEF CheckResult, Succeeded, Goto
<1>8. UNCHANGED vars => Same
  BY DEF vars
<1> HIDE DEF Same
<1>9. CASE Spawn
  <2>1. Early /\ pc[0] = "spawn"
    BY <1>9, MasterPhase DEF Spawn
  <2>2. spawned + 1 \in Threads /\ spawned + 1 # 0 /\ pc[spawned + 1] = "off"
    BY <2>1, NextThread
  <2>3. /\ pc' = [pc EXCEPT ![0] = "create",
                            ![spawned + 1] = IF spawned + 1 = 1 THEN "collect" ELSE "init"]
        /\ UNCHANGED <<teardowns, ok, log>>
    BY <1>9 DEF Spawn
  <2> QED
    BY <1>a, <2>1, <2>2, <2>3, ThreadFacts DEF TornDown
<1>10. CASE SpawnFail
  <2>1. Early /\ pc[0] = "spawn"
    BY <1>10, MasterPhase DEF SpawnFail
  <2>2. \A t \in Threads : pc[t] \notin {"done", "returned"}
    BY <2>1 DEF Early, EarlyLabels
  <2>3. UNCHANGED <<teardowns, ok, log>>
    BY <1>10 DEF SpawnFail
  <2> QED
    BY <2>1, <2>2, <2>3 DEF TornDown
<1>11. ASSUME NEW t \in Threads, TestInit(t) PROVE TornDown'
  <2>1. /\ pc[t] = "init" /\ pc' = [pc EXCEPT ![t] = "setupBarrier"]
        /\ teardowns' = teardowns
        /\ \/ /\ ok' = [ok EXCEPT ![t] = TRUE]
              /\ log' = [log EXCEPT ![t] = [ZeroLog EXCEPT !.mem = "live"]]
           \/ /\ ok' = [ok EXCEPT ![t] = FALSE]
              /\ \E m : log' = [log EXCEPT ![t] = [ZeroLog EXCEPT !.mem = m]]
    BY <1>11 DEF TestInit, Goto
  <2>2. \A u \in Threads : u # t => log'[u] = log[u] /\ ok'[u] = ok[u] /\ pc'[u] = pc[u]
    BY <1>a, <2>1, ThreadFacts
  <2>3. ok'[t] => log'[t].mem = "live"
    BY <1>a, <2>1, ThreadFacts DEF ZeroLog
  <2> QED
    BY <1>a, <2>1, <2>2, <2>3, ThreadFacts DEF TornDown
<1>12. ASSUME NEW t \in Threads, FreeLog(t) PROVE TornDown'
  <2>1. /\ pc[t] = "free" /\ pc' = [pc EXCEPT ![t] = "done"]
        /\ log' = [log EXCEPT ![t].mem = "freed"] /\ UNCHANGED <<teardowns, ok>>
    BY <1>12 DEF FreeLog, Goto
  <2>2. t # 0
    BY <2>1, WhichPhase
  <2>3. \A u \in Threads : u # t => log'[u] = log[u] /\ pc'[u] = pc[u]
    BY <1>a, <2>1, ThreadFacts
  <2> QED
    BY <1>a, <2>1, <2>2, <2>3, ThreadFacts DEF TornDown
<1>13. CASE GlobalTeardown
  <2>1. /\ pc[0] = "teardown" /\ UNCHANGED <<ok, log>>
        /\ \/ pc' = [pc EXCEPT ![0] = "summary"]
           \/ pc' = [pc EXCEPT ![0] = "crashed"] /\ teardowns' = teardowns
    BY <1>13 DEF GlobalTeardown, Goto
  <2> QED
    BY <1>a, <2>1, ThreadFacts DEF TornDown
<1>14. CASE CleanUp
  <2>1. /\ pc' = [pc EXCEPT ![0] = "returned"] /\ ok' = ok
        /\ log' = [log EXCEPT ![0].mem = "freed"]
    BY <1>14 DEF CleanUp, Goto
  <2>2. \A u \in Threads : u # 0 => log'[u] = log[u] /\ pc'[u] = pc[u]
    BY <1>a, <2>1, ThreadFacts
  <2> QED
    BY <1>a, <2>1, <2>2, ThreadFacts DEF TornDown
<1> QED
  BY <1>1, <1>2, <1>3, <1>4, <1>5, <1>6, <1>7, <1>8, <1>9, <1>10, <1>11, <1>12,
     <1>13, <1>14 DEF Next, MasterStep, RunStep, Finished

-----------------------------------------------------------------------------
(* The tests before the barrier and after early_abort.                     *)

\* No test has failed initially.
LEMMA UntouchedInit == Init => Untouched
  BY DEF Init, Untouched

\* A test counts in the log of its own thread.
LEMMA OwnLog ==
    ASSUME Typed, PhaseInv, NEW t \in Threads, pc[t] = "body"
    PROVE  cldm_thread_id(t) = t /\ ok[t] /\ Running /\ ~Early
<1>1. Running /\ ok[t]
  BY WhichPhase DEF Run
<1>2. ~Early
  BY DEF Early, EarlyLabels
<1> QED
  BY <1>1, <1>2, ThreadFacts DEF Running, cldm_thread_id, Threads

\* Every step keeps the threads that have run no test without a failure.
LEMMA UntouchedNext ==
    Typed /\ PhaseInv /\ Entries /\ Untouched /\ [Next]_vars => Untouched'
<1> SUFFICES ASSUME Typed, PhaseInv, Entries, Untouched, [Next]_vars PROVE Untouched'
  OBVIOUS
<1>a. /\ pc \in [Threads -> Labels] /\ ok \in [Threads -> BOOLEAN]
      /\ current \in [Threads -> CurrentType]
      /\ failedOn \in [Threads -> SUBSET Tests]
  BY DEF Typed, Entries
<1>b. Early' => Early
  BY EarlyBack
<1> DEFINE Same ==
       /\ UNCHANGED <<early_abort, failedOn, ok, current>>
       /\ \A t \in Threads : pc'[t] = "body" => pc[t] = "body"
<1>1. CASE Same
  BY <1>1, <1>b DEF Untouched
<1>2. StartUp \/ SpawnReturn \/ Join \/ GlobalTeardown \/ Summary \/ CleanUp => Same
  BY <1>a, ThreadFacts DEF StartUp, SpawnReturn, Join, GlobalTeardown, Summary,
     CleanUp, Goto, runVars
<1>3. Spawn \/ SpawnFail => Same
  BY <1>a, ThreadFacts DEF Spawn, SpawnFail, runVars
<1>4. CollectStep => Same
  BY <1>a, ThreadFacts DEF CollectStep, Collect, AllocRecords, Distribute,
     GlobalSetup, Goto, runVars
<1>5. BarrierRelease => Same
  BY ThreadFacts DEF BarrierRelease, Released, runVars
<1>6. ASSUME NEW t \in Threads,
             \/ LoopDone(t) \/ SchedulePrint(t) \/ AcquireIo(t) \/ PrintBuffer(t)
             \/ ReleaseIo(t) \/ PollAbort(t) \/ ReduceLoop(t) \/ Reduce(t) \/ FreeLog(t)
      PROVE  Same
  BY <1>6, <1>a DEF LoopDone, SchedulePrint, AcquireIo, PrintBuffer, ReleaseIo,
     PollAbort, ReduceLoop, Reduce, FreeLog, Goto, runVars
<1>7. ASSUME NEW t \in Threads, CheckResult(t) PROVE Same
  BY <1>7, <1>a, FlagAssumption DEF CheckResult, Succeeded, Goto, runVars
<1>8. UNCHANGED vars => Same
  BY DEF vars
<1> HIDE DEF Same
<1>9. ASSUME NEW t \in Threads, TestInit(t) PROVE Untouched'
  <2>1. Early /\ UNCHANGED <<early_abort, failedOn, current>>
        /\ pc' = [pc EXCEPT ![t] = "setupBarrier"]
    BY <1>9, WhichPhase DEF TestInit, Goto, runVars
  <2> QED
    BY <1>a, <2>1 DEF Untouched
<1>10. ASSUME NEW t \in Threads, BeginTest(t) PROVE Untouched'
  <2>1. /\ UNCHANGED <<early_abort, failedOn, ok>>
        /\ pc' = [pc EXCEPT ![t] = "body"]
        /\ \E k : current' = [current EXCEPT
                                 ![t] = [test |-> k, pass |-> TRUE, fatal |-> FALSE]]
    BY <1>10 DEF BeginTest, Goto
  <2>2. \A u \in Threads : pc'[u] = "body" => current'[u].pass
    BY <1>a, <2>1 DEF Untouched
  <2> QED
    BY <1>b, <2>1, <2>2 DEF Untouched
<1>11. ASSUME NEW t \in Threads, TestBody(t) PROVE Untouched'
  <2>1. cldm_thread_id(t) = t /\ ok[t] /\ ~Early
    BY <1>11, OwnLog DEF TestBody
  <2>2. PICK o \in Outcomes :
          /\ current' = [current EXCEPT
                 ![t].pass = @ /\ o.failed = 0,
                 ![t].fatal = @ \/ o.logged < o.failed]
          /\ failedOn' = [failedOn EXCEPT
                 ![t] = IF o.failed > 0 THEN @ \cup {current[t].test} ELSE @]
    BY <1>11, <2>1 DEF TestBody
  <2>3. pc' = [pc EXCEPT ![t] = "schedule"] /\ UNCHANGED <<early_abort, ok>>
    BY <1>11 DEF TestBody, Goto
  <2>4. \A u \in Threads : u # t => current'[u] = current[u]
    BY <1>a, <2>2
  <2>5. \A u \in Threads : pc'[u] = "body" => current'[u].pass
    BY <1>a, <2>3, <2>4 DEF Untouched
  <2>6. \A u \in Threads : ~ok[u] => u # t /\ failedOn[u] = {}
    BY <2>1 DEF Untouched
  <2>7. \A u \in Threads : ~ok[u] => failedOn'[u] = {}
    BY <1>a, <2>2, <2>6
  <2> QED
    BY <1>b, <2>1, <2>3, <2>5, <2>7 DEF Untouched
<1>12. ASSUME NEW t \in Threads, SignalAbort(t) PROVE Untouched'
  <2>1. /\ pc[t] = "signal" /\ pc' = [pc EXCEPT ![t] = "flush"]
        /\ UNCHANGED <<failedOn, ok, current>>
    BY <1>12 DEF SignalAbort, Goto, runVars
  <2>2. ~Early
    BY <2>1 DEF Early, EarlyLabels
  <2> QED
    BY <1>a, <1>b, <2>1, <2>2 DEF Untouched
<1> QED
  BY <1>1, <1>2, <1>3, <1>4, <1>5, <1>6, <1>7, <1>8, <1>9, <1>10, <1>11, <1>12
     DEF Next, MasterStep, RunStep, Finished

\* There is no reason to stop initially.
LEMMA StoppingInit == Init => Stopping /\ FlagOnly
  BY DEF Init, Stopping, FlagOnly

\* Every step keeps the threads stopping after early_abort.
LEMMA StoppingNext ==
    Typed /\ PhaseInv /\ Untouched /\ Stopping /\ FlagOnly /\ [Next]_vars
      => Stopping' /\ FlagOnly'
<1> SUFFICES ASSUME Typed, PhaseInv, Untouched, Stopping, FlagOnly, [Next]_vars
             PROVE  Stopping' /\ FlagOnly'
  OBVIOUS
<1>a. /\ pc \in [Threads -> Labels] /\ early_abort \in BOOLEAN
      /\ begun \in [Threads -> Nat] /\ snap \in [Threads -> Nat]
  BY DEF Typed
<1> DEFINE Same ==
       /\ UNCHANGED <<early_abort, begun, snap>>
       /\ \A t \in Threads : pc'[t] = "loop" => pc[t] = "loop"
       /\ \A t \in Threads : pc'[t] = "signal" => pc[t] = "signal"
<1>1. CASE Same
  BY <1>1 DEF Stopping, FlagOnly
<1>2. StartUp \/ SpawnReturn \/ Join \/ GlobalTeardown \/ Summary \/ CleanUp => Same
  BY <1>a, ThreadFacts DEF StartUp, SpawnReturn, Join, GlobalTeardown, Summary,
     CleanUp, Goto, runVars
<1>3. Spawn \/ SpawnFail => Same
  BY <1>a, ThreadFacts DEF Spawn, SpawnFail, runVars
<1>4. CollectStep => Same
  BY <1>a, ThreadFacts DEF CollectStep, Collect, AllocRecords, Distribute,
     GlobalSetup, Goto, runVars
<1>5. ASSUME NEW t \in Threads,
             \/ TestInit(t) \/ LoopDone(t) \/ TestBody(t) \/ SchedulePrint(t)
             \/ AcquireIo(t) \/ PrintBuffer(t) \/ ReleaseIo(t)
             \/ ReduceLoop(t) \/ Reduce(t) \/ FreeLog(t)
      PROVE  Same
  BY <1>5, <1>a DEF TestInit, LoopDone, TestBody, SchedulePrint, AcquireIo,
     PrintBuffer, ReleaseIo, ReduceLoop, Reduce, FreeLog, Goto, runVars
<1>6. UNCHANGED vars => Same
  BY DEF vars
<1> HIDE DEF Same
<1>7. CASE BarrierRelease
  <2>1. /\ UNCHANGED <<early_abort, begun, snap>>
        /\ pc' = [t \in Threads |-> Released(t)]
        /\ \A t \in Threads : pc[t] \in Barriers
    BY <1>7 DEF BarrierRelease, runVars
  <2>2. CASE \E t \in Threads : pc[t] = "setupBarrier"
    <3>1. ~early_abort
      BY <2>2, WhichPhase DEF Untouched
    <3>2. \A t \in Threads : pc'[t] # "signal"
      BY <2>1 DEF Released
    <3> QED
      BY <2>1, <3>1, <3>2 DEF Stopping, FlagOnly
  <2>3. CASE \A t \in Threads : pc[t] # "setupBarrier"
    <3>1. \A t \in Threads : pc'[t] = "reduce"
      BY <2>1, <2>3 DEF Released
    <3> QED
      BY <2>1, <3>1 DEF Stopping, FlagOnly
  <2> QED
    BY <2>2, <2>3
<1>8. ASSUME NEW t \in Threads, BeginTest(t) PROVE Stopping' /\ FlagOnly'
  <2>1. /\ UNCHANGED <<early_abort, snap>> /\ pc[t] = "loop"
        /\ pc' = [pc EXCEPT ![t] = "body"]
        /\ begun' = [begun EXCEPT ![t] = @ + 1]
    BY <1>8 DEF BeginTest, Goto
  <2>2. FlagOnly'
    BY <1>a, <2>1 DEF FlagOnly
  <2>3. Stopping'
    BY <1>a, <2>1 DEF Stopping
  <2> QED
    BY <2>2, <2>3
<1>9. ASSUME NEW t \in Threads, CheckResult(t) PROVE Stopping' /\ FlagOnly'
  <2>1. UNCHANGED <<early_abort, begun, snap>>
    BY <1>9 DEF CheckResult, runVars
  <2>2. \/ ~FailFast /\ pc' = [pc EXCEPT ![t] = "loop"]
        \/ FailFast /\ pc' = [pc EXCEPT ![t] = "poll"]
        \/ FailFast /\ pc' = [pc EXCEPT ![t] = "signal"]
        \/ pc' = [pc EXCEPT ![t] = "flush"]
    BY <1>9, FlagAssumption DEF CheckResult, Succeeded, Goto
  <2> QED
    BY <1>a, <2>1, <2>2 DEF Stopping, FlagOnly
<1>10. ASSUME NEW t \in Threads, SignalAbort(t) PROVE Stopping' /\ FlagOnly'
  <2>1. /\ FailFast /\ pc' = [pc EXCEPT ![t] = "flush"] /\ begun' = begun
        /\ snap' = IF early_abort THEN snap ELSE begun
    BY <1>10 DEF SignalAbort, FlagOnly, Goto, runVars
  <2>2. \A u \in Threads : /\ pc'[u] = "loop" => pc[u] = "loop"
                           /\ pc'[u] = "signal" => pc[u] = "signal"
    BY <1>a, <2>1
  <2>3. CASE early_abort
    BY <2>1, <2>2, <2>3 DEF Stopping, FlagOnly
  <2>4. CASE ~early_abort
    <3>1. \A u \in Threads : begun'[u] = snap'[u] /\ begun'[u] \in Nat
      BY <1>a, <2>1, <2>4
    <3> QED
      BY <2>1, <2>2, <3>1 DEF Stopping, FlagOnly
  <2> QED
    BY <2>3, <2>4
<1>11. ASSUME NEW t \in Threads, PollAbort(t) PROVE Stopping' /\ FlagOnly'
  <2>1. UNCHANGED <<early_abort, begun, snap>>
        /\ pc' = [pc EXCEPT ![t] = IF early_abort THEN "flush" ELSE "loop"]
    BY <1>11 DEF PollAbort, Goto, runVars
  <2> QED
    BY <1>a, <2>1 DEF Stopping, FlagOnly
<1> QED
  BY <1>1, <1>2, <1>3, <1>4, <1>5, <1>6, <1>7, <1>8, <1>9, <1>10, <1>11
     DEF Next, MasterStep, RunStep, Finished

-----------------------------------------------------------------------------
(* The tests in progress.                                                  *)

\* No thread is in a test initially.
LEMMA WorkingInit == Init => Working
  BY DEF Init, Working, InTest

\* Every step keeps the tests in progress the last ones begun.
LEMMA WorkingNext == Typed /\ PhaseInv /\ Working /\ [Next]_vars => Working'
<1> SUFFICES ASSUME Typed, PhaseInv, Working, [Next]_vars PROVE Working'
  OBVIOUS
<1>a. /\ pc \in [Threads -> Labels]
      /\ current \in [Threads -> CurrentType]
      /\ begun \in [Threads -> Nat]
      /\ thread_startidx \in [Threads -> Nat]
  BY DEF Typed
<1> DEFINE Same ==
       /\ UNCHANGED <<begun, thread_startidx>>
       /\ \A t \in Threads : current'[t].test = current[t].test
       /\ \A t \in Threads : pc'[t] \in InTest => pc[t] \in InTest
<1>1. CASE Same
  BY <1>1 DEF Working
<1>2. StartUp \/ SpawnReturn \/ Join \/ GlobalTeardown \/ Summary \/ CleanUp => Same
  BY <1>a, ThreadFacts DEF StartUp, SpawnReturn, Join, GlobalTeardown, Summary,
     CleanUp, Goto, InTest, runVars, distVars
<1>3. Spawn \/ SpawnFail => Same
  BY <1>a, ThreadFacts DEF Spawn, SpawnFail, InTest, runVars, distVars
<1>4. Collect \/ AllocRecords \/ GlobalSetup => Same
  BY <1>a, ThreadFacts DEF Collect, AllocRecords, GlobalSetup, Goto, InTest, runVars, distVars
<1>5. BarrierRelease => Same
  BY ThreadFacts DEF BarrierRelease, Released, InTest, runVars, distVars
<1>6. ASSUME NEW t \in Threads,
             \/ TestInit(t) \/ LoopDone(t) \/ SchedulePrint(t) \/ AcquireIo(t)
             \/ PrintBuffer(t) \/ ReleaseIo(t) \/ SignalAbort(t) \/ PollAbort(t)
             \/ ReduceLoop(t) \/ Reduce(t) \/ FreeLog(t)
      PROVE  Same
  BY <1>6, <1>a DEF TestInit, LoopDone, SchedulePrint, AcquireIo, PrintBuffer,
     ReleaseIo, SignalAbort, PollAbort, ReduceLoop, Reduce, FreeLog, Goto, InTest,
     runVars, distVars
<1>7. ASSUME NEW t \in Threads, CheckResult(t) PROVE Same
  BY <1>7, <1>a, FlagAssumption DEF CheckResult, Succeeded, Goto, InTest, runVars, distVars
<1>8. ASSUME NEW t \in Threads, TestBody(t) PROVE Same
  <2>1. cldm_thread_id(t) = t
    BY <1>8, OwnLog DEF TestBody
  <2>2. /\ UNCHANGED <<begun, thread_startidx>> /\ pc[t] = "body"
        /\ pc' = [pc EXCEPT ![t] = "schedule"]
        /\ \E o \in Outcomes : current' = [current EXCEPT
                 ![t].pass = @ /\ o.failed = 0,
                 ![t].fatal = @ \/ o.logged < o.failed]
    BY <1>8, <2>1, ZenonT(40) DEF TestBody, Goto, distVars
  <2>3. \A u \in Threads : current'[u].test = current[u].test
    <3> SUFFICES ASSUME NEW u \in Threads PROVE current'[u].test = current[u].test
      OBVIOUS
    <3>1. PICK o \in Outcomes : current' = [current EXCEPT
                 ![t].pass = @ /\ o.failed = 0,
                 ![t].fatal = @ \/ o.logged < o.failed]
      BY <2>2
    <3>2. current \in [Threads -> CurrentType]
      BY <1>a
    <3>3. CASE u # t
      BY <3>1, <3>2, <3>3
    <3>4. CASE u = t
      BY <3>1, <3>2, <3>4 DEF CurrentType
    <3> QED
      BY <3>3, <3>4
  <2> QED
    BY <1>a, <2>2, <2>3 DEF InTest
<1>9. UNCHANGED vars => Same
  BY DEF vars
<1> HIDE DEF Same
<1>10. CASE Distribute
  <2>1. Early /\ (pc' = pc \/ pc' = [pc EXCEPT ![1] = "setup"])
    BY <1>10, MasterPhase DEF Distribute, Goto
  <2>2. \A t \in Threads : pc[t] \notin InTest
    BY <2>1 DEF Early, EarlyLabels, InTest
  <2>3. \A t \in Threads : pc'[t] \notin InTest
    BY <1>a, <2>1, <2>2, ThreadFacts DEF InTest
  <2> QED
    BY <2>3 DEF Working
<1>11. ASSUME NEW t \in Threads, BeginTest(t) PROVE Working'
  <2>1. /\ thread_startidx' = thread_startidx
        /\ begun' = [begun EXCEPT ![t] = @ + 1]
        /\ pc' = [pc EXCEPT ![t] = "body"]
        /\ current' = [current EXCEPT ![t] =
              [test |-> thread_startidx[t] + begun[t], pass |-> TRUE, fatal |-> FALSE]]
    BY <1>11 DEF BeginTest, Goto, distVars
  <2>2. \A u \in Threads : u # t => /\ pc'[u] = pc[u] /\ begun'[u] = begun[u]
                                   /\ current'[u] = current[u]
    BY <1>a, <2>1
  <2>3. begun'[t] > 0 /\ current'[t].test = thread_startidx[t] + begun'[t] - 1
    BY <1>a, <2>1
  <2> QED
    BY <2>1, <2>2, <2>3 DEF Working
<1> QED
  BY <1>1, <1>2, <1>3, <1>4, <1>5, <1>6, <1>7, <1>8, <1>9, <1>10, <1>11
     DEF Next, MasterStep, CollectStep, RunStep, Finished

-----------------------------------------------------------------------------
(* The reduction.                                                          *)

\* Adding the log at offset s joins the groups of the two logs.
LEMMA GroupsJoin ==
    ASSUME NEW s \in Powers, NEW t \in Nat, t < s
    PROVE  /\ Group(s, t) = Group(2 * s, t) \cup Group(2 * s, t + s)
           /\ Group(2 * s, t) \cap Group(2 * s, t + s) = {}
<1>1. ASSUME NEW u \in Nat
      PROVE  u % s = t <=> (u % (2 * s) = t \/ u % (2 * s) = t + s)
  <2>1. CASE s = 1
    BY <2>1
  <2>2. CASE s = 2
    BY <2>2
  <2>3. CASE s = 4
    BY <2>3
  <2>4. CASE s = 8
    BY <2>4
  <2>5. CASE s = 16
    BY <2>5
  <2>6. CASE s = 32
    BY <2>6
  <2> QED
    BY <2>1, <2>2, <2>3, <2>4, <2>5, <2>6 DEF Powers
<1>2. s \in Nat /\ s # 0 /\ t # t + s
  BY DEF Powers
<1>3. ASSUME NEW u \in Threads
      PROVE  /\ u \in Group(s, t) <=> (u \in Group(2 * s, t) \/ u \in Group(2 * s, t + s))
             /\ ~(u \in Group(2 * s, t) /\ u \in Group(2 * s, t + s))
  BY <1>1, <1>2, ThreadFacts DEF Group
<1>4. \A m, v : Group(m, v) \subseteq Threads
  BY DEF Group
<1> QED
  BY <1>3, <1>4

\* Before the first round every log holds the counts of its own thread.
LEMMA GroupsStart ==
    ASSUME NEW t \in Nat, t < 2 * flp232(Jobs)
    PROVE  Group(2 * flp232(Jobs), t) = IF t \in Threads THEN {t} ELSE {}
<1> DEFINE m == 2 * flp232(Jobs)
<1>1. m \in Nat /\ m > 0 /\ Jobs < m
  BY RoundDown DEF Powers
<1> HIDE DEF m
<1>2. ASSUME NEW u \in Threads PROVE u % m = u
  <2>1. u \in Nat /\ u < m
    BY <1>1, ThreadFacts DEF Threads
  <2> QED
    BY <1>1, <2>1
<1>3. Group(m, t) = {u \in Threads : u = t}
  BY <1>2 DEF Group
<1> QED
  BY <1>3 DEF m

\* After the last round log 0 holds them all.
LEMMA GroupsEnd == Group(1, 0) = Threads
<1>1. \A u \in Threads : u % 1 = 0
  BY ThreadFacts
<1> QED
  BY <1>1 DEF Group

\* Only the reduction changes whose counts a log holds.
LEMMA AccMoves ==
    ASSUME [Next]_vars
    PROVE  acc' = acc \/ \E t \in Threads : Reduce(t)
<1>1. MasterStep \/ CollectStep \/ BarrierRelease => acc' = acc
  BY DEF MasterStep, StartUp, Spawn, SpawnReturn, SpawnFail, Join, GlobalTeardown,
     Summary, CleanUp, CollectStep, Collect, AllocRecords, Distribute, GlobalSetup,
     BarrierRelease
<1>2. ASSUME NEW t \in Threads, RunStep(t) PROVE acc' = acc \/ Reduce(t)
  BY <1>2 DEF RunStep, TestInit, BeginTest, LoopDone, TestBody, SchedulePrint,
     AcquireIo, PrintBuffer, ReleaseIo, CheckResult, SignalAbort, PollAbort,
     ReduceLoop, FreeLog
<1> QED
  BY <1>1, <1>2 DEF Next, Finished, vars

\* Every log holds its own thread's counts initially.
LEMMA AddedInit == Init => Added
<1> SUFFICES ASSUME Init PROVE Added
  OBVIOUS
<1>1. pc[0] = "start" /\ pc[1] = "off"
  BY ThreadFacts DEF Init
<1>2. ~Reducing /\ ~Ending
  BY <1>1, ThreadFacts DEF Reducing, Ending, Rounds, Closing
<1> QED
  BY <1>2 DEF Init, Added

\* What one addition does to the groups.
LEMMA AddedReduce ==
    ASSUME Typed, PhaseInv, Added, NEW t \in Threads, Reduce(t)
    PROVE  Added'
<1>a. /\ pc \in [Threads -> Labels] /\ stride \in [Threads -> Powers \cup {0}]
      /\ acc \in [Logs -> SUBSET Threads]
  BY DEF Typed
<1>1. Reducing
  BY WhichPhase DEF Reduce, Rounds
<1> DEFINE s == stride[0]
           j == t + s
<1>2. /\ s \in Powers /\ s \in Nat /\ t \in Nat /\ t < s /\ stride[t] = s
      /\ pc[t] = "reducing"
  <2>1. s # 0 /\ stride[t] = s /\ pc[t] = "reducing" /\ t < s
    BY <1>1 DEF Reducing, Reduce
  <2>2. s \in Powers \cup {0}
    BY <1>a, ThreadFacts
  <2> QED
    BY <2>1, <2>2, ThreadFacts DEF Powers
<1>3. /\ pc' = [pc EXCEPT ![t] = "reduceBarrier"]
      /\ UNCHANGED <<ok, stride>>
      /\ acc' = [acc EXCEPT ![t] = @ \cup (IF j \in Logs THEN acc[j] ELSE {})]
  BY <1>2 DEF Reduce, Goto
<1>4. ~Early' /\ ~Running' /\ ~Ending'
  <2>1. pc'[t] = "reduceBarrier" /\ ok'[t] /\ stride'[0] # 0
    BY <1>a, <1>1, <1>2, <1>3, ThreadFacts DEF Reducing, Powers
  <2> QED
    BY <2>1, ThreadFacts DEF Early, EarlyLabels, Running, Run, Ending
<1>5. Group(s, t) = Group(2 * s, t) \cup Group(2 * s, j)
  BY <1>2, GroupsJoin
<1>6. acc[t] = Group(2 * s, t)
  BY <1>1, <1>2, ThreadFacts DEF Added
<1>7. (IF j \in Logs THEN acc[j] ELSE {}) = Group(2 * s, j)
  <2>1. CASE j \in Logs
    BY <1>1, <1>2, <2>1 DEF Added
  <2>2. CASE j \notin Logs
    <3>1. j >= Jobs /\ j < 2 * s /\ j \in Nat
      BY <1>2, <2>2, ThreadFacts DEF Logs
    <3>2. ASSUME NEW u \in Threads PROVE u % (2 * s) # j
      <4>1. u \in Nat /\ u < Jobs /\ 2 * s \in Nat /\ 2 * s > 0 /\ Jobs \in Nat
        BY <1>2, ThreadFacts DEF Threads
      <4>2. u % (2 * s) < Jobs /\ u % (2 * s) \in Nat
        BY <3>1, <4>1
      <4> QED
        BY <3>1, <4>1, <4>2
    <3>3. Group(2 * s, j) = {}
      BY <3>2 DEF Group
    <3> QED
      BY <2>2, <3>3
  <2> QED
    BY <2>1, <2>2
<1> HIDE DEF s, j
<1>8. acc'[t] = Group(s, t)
  BY <1>a, <1>3, <1>5, <1>6, <1>7, ThreadFacts
<1>9. \A u \in Logs : u # t => acc'[u] = acc[u] /\ (u \in Threads => pc'[u] = pc[u])
  BY <1>a, <1>3
<1>10. pc'[t] = "reduceBarrier" /\ stride'[0] = s
  BY <1>a, <1>3 DEF s
<1>11. \A u \in Logs : u < 2 * s =>
          acc'[u] = IF u < s /\ pc'[u] = "reduceBarrier"
                    THEN Group(s, u) ELSE Group(2 * s, u)
  <2>1. \A u \in Nat : u < s => u \in Threads
    <3>1. s <= flp232(Jobs)
      BY <1>1 DEF Reducing, s
    <3> QED
      BY <1>2, <3>1, RoundDown, ThreadFacts DEF Threads, Powers
  <2> SUFFICES ASSUME NEW u \in Logs, u < 2 * s
               PROVE  acc'[u] = IF u < s /\ pc'[u] = "reduceBarrier"
                                THEN Group(s, u) ELSE Group(2 * s, u)
    OBVIOUS
  <2>2. CASE u = t
    BY <1>2, <1>8, <1>10, <2>2
  <2>3. CASE u # t
    <3>1. acc[u] = IF u < s /\ pc[u] = "reduceBarrier"
                   THEN Group(s, u) ELSE Group(2 * s, u)
      BY <1>1 DEF Added, s
    <3>2. u < s => pc'[u] = pc[u]
      BY <1>9, <2>1, <2>3, ThreadFacts
    <3> QED
      BY <1>9, <2>3, <3>1, <3>2
  <2> QED
    BY <2>2, <2>3
<1> QED
  BY <1>4, <1>10, <1>11 DEF Added

\* What the barrier does to the groups: a round ends, the next one begins.
LEMMA AddedRelease ==
    ASSUME Typed, PhaseInv, Added, BarrierRelease
    PROVE  Added'
<1>a. stride \in [Threads -> Powers \cup {0}]
  BY DEF Typed
<1>1. /\ \A t \in Threads : pc[t] \in Barriers
      /\ pc' = [t \in Threads |-> Released(t)]
      /\ stride' = [t \in Threads |-> Halved(t)]
      /\ UNCHANGED <<ok, acc>>
  BY DEF BarrierRelease
<1>2. CASE Early
  <2>1. \A t \in Threads : pc[t] = "setupBarrier"
    BY <1>1, <1>2 DEF Early, EarlyLabels, Barriers
  <2>2. \A t \in Threads : pc'[t] = IF ok[t] THEN "loop"
                                    ELSE IF t = 0 THEN "join" ELSE "done"
    BY <1>1, <2>1 DEF Released, Typed
  <2>3. ~Reducing' /\ ~Ending'
    BY <1>1, <2>2, ThreadFacts DEF Reducing, Ending, Rounds, Closing
  <2> QED
    BY <1>1, <1>2, <2>3 DEF Added
<1>3. CASE Abandoned
  BY <1>1, <1>3, ThreadFacts DEF Abandoned, Barriers
<1>4. CASE Running
  <2>1. \A t \in Threads : pc[t] = "runBarrier"
    BY <1>1, <1>4 DEF Running, Run, Barriers, Closing
  <2>2. \A t \in Threads : pc'[t] = "reduce" /\ stride'[t] = flp232(Jobs)
    BY <1>1, <2>1 DEF Released, Halved
  <2>3. flp232(Jobs) # 0
    BY RoundDown DEF Powers
  <2>4. ~Early' /\ ~Running' /\ ~Ending' /\ stride'[0] = flp232(Jobs)
    BY <1>1, <1>4, <2>2, <2>3, ThreadFacts
       DEF Early, EarlyLabels, Running, Run, Closing, Ending
  <2>5. ASSUME NEW t \in Logs, t < 2 * stride'[0]
        PROVE  /\ acc'[t] = Group(2 * stride'[0], t)
               /\ ~(t < stride'[0] /\ pc'[t] = "reduceBarrier")
    <3>1. acc[t] = IF t \in Threads THEN {t} ELSE {}
      BY <1>4 DEF Added
    <3>2. acc'[t] = Group(2 * stride'[0], t)
      BY <1>1, <2>4, <2>5, <3>1, GroupsStart, ThreadFacts
    <3>3. t < stride'[0] => t \in Threads
      <4>1. t \in Nat /\ flp232(Jobs) \in Nat /\ flp232(Jobs) <= Jobs /\ Jobs \in Nat
        BY RoundDown, ThreadFacts DEF Powers
      <4> QED
        BY <2>4, <4>1 DEF Threads
    <3> QED
      BY <2>2, <3>2, <3>3
  <2> QED
    BY <2>4, <2>5 DEF Added
<1>5. CASE Reducing
  <2> DEFINE s == stride[0]
  <2>1. \A t \in Threads : ok[t] /\ pc[t] = "reduceBarrier"
    BY <1>1, <1>5 DEF Reducing, Rounds, Barriers
  <2>2. \A t \in Threads : pc'[t] = "reduce" /\ stride'[t] = s \div 2
    BY <1>1, <1>5, <2>1 DEF Released, Halved, Reducing
  <2>3. s \in Powers /\ s <= flp232(Jobs)
    BY <1>a, <1>5, ThreadFacts DEF Reducing
  <2>4. ~Early' /\ ~Running' /\ stride'[0] = s \div 2
    BY <1>1, <2>1, <2>2, ThreadFacts DEF Early, EarlyLabels, Running, Run
  <2> HIDE DEF s
  <2>5. ASSUME NEW t \in Logs, t < s
        PROVE  acc'[t] = Group(s, t) /\ pc'[t] = "reduce"
    <3>1. t \in Threads /\ s \in Nat /\ t \in Nat
      <4>1. t \in Nat /\ flp232(Jobs) \in Nat /\ flp232(Jobs) <= Jobs /\ Jobs \in Nat
            /\ s \in Nat
        BY <2>3, RoundDown, ThreadFacts DEF Powers
      <4> QED
        BY <2>3, <2>5, <4>1 DEF Threads
    <3>2. acc[t] = Group(s, t)
      BY <1>5, <2>1, <2>5, <3>1 DEF Added, s
    <3> QED
      BY <1>1, <2>2, <3>1, <3>2
  <2>6. CASE s = 1
    <3>1. stride'[0] = 0
      BY <2>4, <2>6, Halving
    <3>2. acc'[0] = Threads
      BY <2>5, <2>6, GroupsEnd, ThreadFacts
    <3>3. ~Reducing'
      BY <3>1 DEF Reducing
    <3> QED
      BY <2>4, <3>2, <3>3 DEF Added
  <2>7. CASE s # 1
    <3>1. s = 2 * stride'[0] /\ stride'[0] # 0
      BY <2>3, <2>4, <2>7, Halving DEF Powers
    <3>2. ~Ending'
      BY <3>1, ThreadFacts DEF Ending
    <3> QED
      BY <2>4, <2>5, <3>1, <3>2 DEF Added
  <2> QED
    BY <2>6, <2>7
<1>6. CASE Ending
  BY <1>1, <1>6, ThreadFacts DEF Ending, Barriers, Closing
<1> QED
  BY <1>2, <1>3, <1>4, <1>5, <1>6 DEF PhaseInv

\* Every step keeps the groups.
LEMMA AddedNext == Typed /\ PhaseInv /\ Added /\ [Next]_vars => Added'
<1> SUFFICES ASSUME Typed, PhaseInv, Added, [Next]_vars PROVE Added'
  OBVIOUS
<1>a. /\ pc \in [Threads -> Labels] /\ stride \in [Threads -> Powers \cup {0}]
      /\ ok \in [Threads -> BOOLEAN]
  BY DEF Typed
<1>1. ASSUME NEW t \in Threads, Reduce(t) PROVE Added'
  BY <1>1, AddedReduce
<1>2. CASE BarrierRelease
  BY <1>2, AddedRelease
<1>b. acc' = acc \/ \E t \in Threads : Reduce(t)
  BY AccMoves
<1>3. ASSUME acc' = acc, Early, pc'[1] \notin {"reduce", "reducing", "reduceBarrier", "free", "done"}
      PROVE  Added'
  <2>1. ~Reducing' /\ ~Ending'
    BY <1>3, ThreadFacts DEF Reducing, Ending, Rounds
  <2> QED
    BY <1>3, <2>1 DEF Added
<1>4. CASE acc' = acc /\ (StartUp \/ SpawnReturn)
  <2>1. Early /\ pc'[1] = pc[1]
    BY <1>4, <1>a, MasterPhase, ThreadFacts DEF StartUp, SpawnReturn, Goto
  <2> QED
    BY <1>3, <1>4, <2>1, ThreadFacts DEF Early, EarlyLabels
<1>5. CASE acc' = acc /\ Spawn
  <2>1. Early
    BY <1>5, MasterPhase DEF Spawn
  <2>2. pc'[1] \in {pc[1], "collect", "init"}
    BY <1>5, <1>a, ThreadFacts DEF Spawn
  <2> QED
    BY <1>3, <1>5, <2>1, <2>2, ThreadFacts DEF Early, EarlyLabels
<1>6. CASE acc' = acc /\ SpawnFail
  <2>1. Early /\ pc'[1] = "off"
    BY <1>6, MasterPhase, ThreadFacts DEF SpawnFail
  <2> QED
    BY <1>3, <1>6, <2>1
<1>7. CASE acc' = acc /\ CollectMove
  <2>1. Early /\ pc'[1] \in {"records", "distribute", "setup", "init"}
    BY <1>7, <1>a, MasterPhase, ThreadFacts DEF CollectMove
  <2> QED
    BY <1>3, <1>7, <2>1
<1>8. ASSUME NEW t \in Threads, acc' = acc, InitMove(t) PROVE Added'
  <2>1. Early /\ pc'[1] \in {pc[1], "setupBarrier"}
    BY <1>8, <1>a, WhichPhase, ThreadFacts DEF InitMove
  <2> QED
    BY <1>3, <1>8, <2>1, ThreadFacts DEF Early, EarlyLabels
<1>9. ASSUME NEW t \in Threads, acc' = acc, RunMove(t) PROVE Added'
  <2>1. Running
    BY <1>9, WhichPhase DEF RunMove
  <2>2. pc'[t] \in Run
    BY <1>9, <1>a DEF RunMove
  <2>3. ~Reducing' /\ ~Ending'
    BY <2>2 DEF Reducing, Ending, Rounds, Run, Closing
  <2> QED
    BY <1>9, <2>1, <2>3 DEF Added
<1>10. CASE acc' = acc /\ (Join \/ TailMove)
  <2>1. /\ pc[0] \in {"join"} \cup Closing /\ pc'[0] \in Closing
        /\ UNCHANGED <<ok, stride>>
    BY <1>10, <1>a, ThreadFacts DEF Join, Goto, TailMove, Closing
  <2>2. ~Abandoned
    BY <1>10 DEF Join, TailMove, Abandoned, Closing
  <2>3. ~Reducing' /\ ~Early'
    BY <2>1, ThreadFacts DEF Reducing, Rounds, Closing, Early, EarlyLabels
  <2>4. CASE Running /\ ~ok[0]
    <3>1. ~Ending'
      BY <2>1, <2>4, ThreadFacts DEF Ending
    <3> QED
      BY <1>10, <2>3, <2>4, <3>1 DEF Added
  <2>5. CASE Ending
    <3>1. ~Running'
      BY <2>1, <2>5, ThreadFacts DEF Ending, Running, Run, Closing
    <3> QED
      BY <1>10, <2>3, <2>5, <3>1 DEF Added
  <2> QED
    BY <2>1, <2>2, <2>4, <2>5, MasterPhase
<1>11. ASSUME NEW t \in Threads, acc' = acc, ReduceLoop(t) PROVE Added'
  <2>1. /\ pc[t] = "reduce" /\ UNCHANGED <<ok, stride>>
        /\ \/ t < stride[t] /\ pc' = [pc EXCEPT ![t] = "reducing"]
           \/ t >= stride[t] /\ stride[t] # 0 /\ pc' = [pc EXCEPT ![t] = "reduceBarrier"]
           \/ stride[t] = 0 /\ t # 0 /\ pc' = [pc EXCEPT ![t] = "free"]
           \/ stride[t] = 0 /\ t = 0 /\ pc' = [pc EXCEPT ![t] = "join"]
    BY <1>11 DEF ReduceLoop, Goto
  <2>2. pc'[t] \in {"reducing", "reduceBarrier", "free", "join"}
    BY <1>a, <2>1
  <2>3. ok[t]
    BY <2>1, WhichPhase DEF Rounds, Reducing, Ending
  <2>4. ~Early' /\ ~Running'
    BY <2>1, <2>2, <2>3 DEF Early, EarlyLabels, Running, Run
  <2>5. CASE Reducing
    <3>1. ~Ending'
      BY <2>1, <2>5, ThreadFacts DEF Reducing, Ending
    <3>2. stride[t] = stride[0] /\ stride[0] # 0 /\ stride[0] \in Nat /\ t \in Nat
      BY <1>a, <2>5, ThreadFacts DEF Reducing, Powers
    <3>3. \A u \in Threads : u < stride[0] =>
             (pc'[u] = "reduceBarrier" <=> pc[u] = "reduceBarrier")
      BY <1>a, <2>1, <3>2
    <3>4. \A u \in Nat : u < stride[0] => u \in Threads
      <4>1. stride[0] <= flp232(Jobs)
        BY <2>5 DEF Reducing
      <4> QED
        BY <3>2, <4>1, RoundDown, ThreadFacts DEF Threads, Powers
    <3>5. \A u \in Logs : u < stride[0] =>
             (pc'[u] = "reduceBarrier" <=> pc[u] = "reduceBarrier")
      BY <3>3, <3>4, ThreadFacts
    <3> QED
      BY <1>11, <2>1, <2>4, <2>5, <3>1, <3>5 DEF Added
  <2>6. CASE Ending
    <3>1. ~Reducing'
      BY <2>1, <2>6, ThreadFacts DEF Reducing, Ending
    <3> QED
      BY <1>11, <2>4, <2>6, <3>1 DEF Added
  <2> QED
    BY <2>1, <2>5, <2>6, WhichPhase DEF Rounds
<1>12. ASSUME NEW t \in Threads, acc' = acc, FreeLog(t) PROVE Added'
  <2>1. pc[t] = "free" /\ UNCHANGED <<ok, stride>> /\ pc' = [pc EXCEPT ![t] = "done"]
    BY <1>12 DEF FreeLog, Goto
  <2>2. Ending /\ t # 0
    BY <2>1, WhichPhase
  <2>3. pc'[t] = "done" /\ ok'[t] /\ stride'[0] = 0
    BY <1>a, <2>1, <2>2, ThreadFacts DEF Ending
  <2>4. ~Early' /\ ~Running' /\ ~Reducing'
    BY <2>2, <2>3 DEF Early, EarlyLabels, Running, Run, Reducing
  <2> QED
    BY <1>12, <2>2, <2>4 DEF Added
<1>13. CASE acc' = acc /\ UNCHANGED <<pc, spawned, ok, stride, setups, teardowns>>
  BY <1>13 DEF Added, Early, Running, Reducing, Ending
<1> QED
  BY <1>1, <1>2, <1>b, <1>4, <1>5, <1>6, <1>7, <1>8, <1>9, <1>10, <1>11, <1>12,
     <1>13, Moves

-----------------------------------------------------------------------------
(* The counts and the exit status.                                         *)

\* Nothing has been counted initially.
LEMMA CountedInit == Init => Counted
  BY DEF Init, Counted, ZeroLog

\* Only three actions count failed tests.
LEMMA CountMoves ==
    ASSUME Typed, [Next]_vars
    PROVE  \/ \E t \in Threads : TestInit(t) \/ TestBody(t) \/ Reduce(t)
           \/ /\ \A t \in Logs : log'[t].failed_tests = log[t].failed_tests
              /\ UNCHANGED <<acc, failedOn>>
<1>a. log \in [Logs -> LogType]
  BY DEF Typed
<1> DEFINE Same == /\ \A t \in Logs : log'[t].failed_tests = log[t].failed_tests
                   /\ UNCHANGED <<acc, failedOn>>
<1>1. CleanUp => Same
  BY <1>a, ThreadFacts DEF CleanUp, runVars, LogType
<1>2. StartUp \/ Spawn \/ SpawnReturn \/ SpawnFail \/ Join => Same
  BY DEF StartUp, Spawn, SpawnReturn, SpawnFail, Join, runVars
<1>3. GlobalTeardown \/ Summary \/ CollectStep \/ BarrierRelease => Same
  BY DEF GlobalTeardown, Summary, CollectStep, Collect, AllocRecords, Distribute,
     GlobalSetup, BarrierRelease, runVars
<1>4. ASSUME NEW t \in Threads, FreeLog(t) PROVE Same
  BY <1>4, <1>a, ThreadFacts DEF FreeLog, runVars, LogType
<1>5. ASSUME NEW t \in Threads,
             \/ BeginTest(t) \/ LoopDone(t) \/ SchedulePrint(t) \/ AcquireIo(t)
             \/ PrintBuffer(t) \/ ReleaseIo(t) \/ CheckResult(t) \/ SignalAbort(t)
             \/ PollAbort(t) \/ ReduceLoop(t)
      PROVE  Same
  BY <1>5 DEF BeginTest, LoopDone, SchedulePrint, AcquireIo, PrintBuffer,
     ReleaseIo, CheckResult, SignalAbort, PollAbort, ReduceLoop, runVars
<1>6. UNCHANGED vars => Same
  BY DEF vars
<1>7. CASE Same
  BY <1>7
<1> HIDE DEF Same
<1> QED
  BY <1>1, <1>2, <1>3, <1>4, <1>5, <1>6, <1>7 DEF Next, MasterStep, RunStep, Finished

\* Every step keeps the counts, as long as the reduction stays in bounds.
LEMMA CountedNext ==
    ASSUME Jobs < MaxThreads, Typed, PhaseInv, Entries, Untouched, Added, Counted,
           LogAccessInBounds, [Next]_vars
    PROVE  Counted'
<1>a. /\ log \in [Logs -> LogType] /\ acc \in [Logs -> SUBSET Threads]
      /\ failedOn \in [Threads -> SUBSET Tests]
      /\ current \in [Threads -> CurrentType]
  BY DEF Typed, Entries
<1>b. \A t \in Logs : log[t].failed_tests \in Nat
  BY <1>a DEF LogType
<1>1. CASE /\ \A t \in Logs : log'[t].failed_tests = log[t].failed_tests
           /\ UNCHANGED <<acc, failedOn>>
  BY <1>1 DEF Counted
<1>2. ASSUME NEW t \in Threads, TestInit(t) PROVE Counted'
  <2>1. Early /\ UNCHANGED <<acc, failedOn>>
    BY <1>2, WhichPhase DEF TestInit, runVars
  <2>2. \A u \in Logs : log'[u].failed_tests = IF u = t THEN 0 ELSE log[u].failed_tests
    <3>1. \E m : log' = [log EXCEPT ![t] = [ZeroLog EXCEPT !.mem = m]]
      BY <1>2 DEF TestInit
    <3> QED
      BY <1>a, <3>1, ThreadFacts DEF ZeroLog
  <2>3. \A u \in Threads : failedOn[u] = {}
    BY <2>1 DEF Untouched
  <2>4. \A u \in acc[t] : failedOn[u] = {}
    BY <1>a, <2>3, ThreadFacts
  <2> QED
    BY <2>1, <2>2, <2>4 DEF Counted
<1>3. ASSUME NEW t \in Threads, TestBody(t) PROVE Counted'
  <2>1. /\ cldm_thread_id(t) = t /\ Running /\ current[t].pass
    BY <1>3, OwnLog DEF TestBody, Untouched
  <2>2. PICK o \in Outcomes :
          /\ log' = [log EXCEPT
                    ![t].failed_tests =
                        IF o.failed > 0 /\ current[t].pass THEN @ + 1 ELSE @,
                    ![t].failed_assertions = @ + o.failed,
                    ![t].total_assertions = @ + o.total,
                    ![t].size = @ + o.logged]
          /\ failedOn' = [failedOn EXCEPT
                 ![t] = IF o.failed > 0 THEN @ \cup {current[t].test} ELSE @]
    BY <1>3, <2>1 DEF TestBody
  <2>3. acc' = acc
    BY <1>3 DEF TestBody
  <2>4. \A u \in Logs : acc[u] = IF u \in Threads THEN {u} ELSE {}
    BY <2>1 DEF Added
  <2>5. ASSUME NEW u \in Logs
        PROVE  log'[u].failed_tests > 0 <=> \E v \in acc'[u] : failedOn'[v] # {}
    <3>1. CASE u # t
      <4>1. log'[u] = log[u]
        BY <1>a, <2>2, <3>1
      <4>2. \A v \in acc[u] : failedOn'[v] = failedOn[v]
        BY <1>a, <2>2, <2>4, <3>1
      <4> QED
        BY <2>3, <4>1, <4>2 DEF Counted
    <3>2. CASE u = t
      <4>1. log'[t].failed_tests = IF o.failed > 0 THEN log[t].failed_tests + 1
                                   ELSE log[t].failed_tests
        BY <1>a, <2>1, <2>2, ThreadFacts DEF LogType
      <4>2. o.failed \in Nat
        BY OutcomeAssumption DEF OutcomeType
      <4>3. acc'[t] = {t}
        BY <2>3, <2>4, ThreadFacts
      <4>4. log[t].failed_tests > 0 <=> failedOn[t] # {}
        BY <2>3, <4>3, ThreadFacts DEF Counted
      <4>5. CASE o.failed > 0
        <5>1. failedOn'[t] # {}
          BY <1>a, <2>2, <4>5
        <5>2. log'[t].failed_tests > 0
          BY <1>b, <4>1, <4>5, ThreadFacts
        <5> QED
          BY <3>2, <4>3, <5>1, <5>2
      <4>6. CASE ~(o.failed > 0)
        <5>1. failedOn'[t] = failedOn[t]
          BY <1>a, <2>2, <4>6
        <5> QED
          BY <3>2, <4>1, <4>3, <4>4, <4>6, <5>1
      <4> QED
        BY <4>5, <4>6
    <3> QED
      BY <3>1, <3>2
  <2> QED
    BY <2>5 DEF Counted
<1>4. ASSUME NEW t \in Threads, Reduce(t) PROVE Counted'
  <2> DEFINE j == t + stride[t]
  <2>1. j \in Logs
    BY <1>4 DEF Reduce, LogAccessInBounds
  <2>2. /\ log' = [log EXCEPT
                    ![t].failed_tests = @ + log[j].failed_tests,
                    ![t].failed_assertions = @ + log[j].failed_assertions,
                    ![t].total_assertions = @ + log[j].total_assertions]
        /\ acc' = [acc EXCEPT ![t] = @ \cup acc[j]]
        /\ failedOn' = failedOn
    BY <1>4, <2>1 DEF Reduce, runVars
  <2> HIDE DEF j
  <2>3. \A u \in Logs : u # t => log'[u] = log[u] /\ acc'[u] = acc[u]
    BY <1>a, <2>2
  <2>4. /\ log'[t].failed_tests = log[t].failed_tests + log[j].failed_tests
        /\ acc'[t] = acc[t] \cup acc[j]
    BY <1>a, <2>2, ThreadFacts DEF LogType
  <2>5. log'[t].failed_tests > 0 <=> log[t].failed_tests > 0 \/ log[j].failed_tests > 0
    BY <1>b, <2>1, <2>4, ThreadFacts
  <2>6. log'[t].failed_tests > 0 <=> \E v \in acc'[t] : failedOn'[v] # {}
    BY <2>1, <2>2, <2>4, <2>5, ThreadFacts DEF Counted
  <2> QED
    BY <2>2, <2>3, <2>6 DEF Counted
<1> QED
  BY <1>1, <1>2, <1>3, <1>4, CountMoves

\* What log 0 holds when the summary reads it.
LEMMA SummaryReads ==
    ASSUME Typed, PhaseInv, Untouched, Added, Counted, pc[0] = "summary"
    PROVE  log[0].failed_tests > 0 <=> \E t \in Threads : failedOn[t] # {}
<1>1. CASE Running
  <2>1. \A t \in Threads : ~ok[t]
    BY <1>1 DEF Running, Closing
  <2>2. \A t \in Threads : failedOn[t] = {}
    BY <2>1 DEF Untouched
  <2>3. acc[0] = {0}
    BY <1>1, ThreadFacts DEF Added
  <2> QED
    BY <2>2, <2>3, ThreadFacts DEF Counted
<1>2. CASE Ending
  <2>1. acc[0] = Threads
    BY <1>2 DEF Added
  <2> QED
    BY <2>1, ThreadFacts DEF Counted
<1>3. Running \/ Ending
  <2>1. ~Abandoned
    BY DEF Abandoned
  <2> QED
    BY <2>1, MasterPhase DEF Closing
<1> QED
  BY <1>1, <1>2, <1>3

\* No test has been run when the run starts.
LEMMA VerdictInit == Init => VerdictCorrect
  BY ThreadFacts DEF Init, VerdictCorrect

\* Every step keeps the exit status in agreement with the failed tests.
LEMMA VerdictNext ==
    ASSUME Typed, PhaseInv, Untouched, Added, Counted, VerdictCorrect, [Next]_vars
    PROVE  VerdictCorrect'
<1>a. pc \in [Threads -> Labels]
  BY DEF Typed
<1> DEFINE Over == {"cleanup", "returned"}
           Same == /\ UNCHANGED <<status, failedOn, teardowns>>
                   /\ pc'[0] \in Over => pc[0] \in Over
<1>1. CASE Same
  BY <1>1 DEF VerdictCorrect
<1>2. Spawn \/ SpawnReturn \/ Join \/ CleanUp => Same
  BY <1>a, ThreadFacts DEF Spawn, SpawnReturn, Join, CleanUp, Goto, runVars
<1>3. CollectStep => Same
  BY <1>a, ThreadFacts DEF CollectStep, Collect, AllocRecords, Distribute,
     GlobalSetup, Goto, runVars
<1>4. BarrierRelease => Same
  BY ThreadFacts DEF BarrierRelease, Released, runVars
<1>5. ASSUME NEW t \in Threads,
             \/ TestInit(t) \/ BeginTest(t) \/ LoopDone(t) \/ SchedulePrint(t)
             \/ AcquireIo(t) \/ PrintBuffer(t) \/ ReleaseIo(t) \/ SignalAbort(t)
             \/ PollAbort(t) \/ ReduceLoop(t) \/ Reduce(t) \/ FreeLog(t)
      PROVE  Same
  BY <1>5, <1>a, ThreadFacts DEF TestInit, BeginTest, LoopDone, SchedulePrint,
     AcquireIo, PrintBuffer, ReleaseIo, SignalAbort, PollAbort, ReduceLoop, Reduce,
     FreeLog, Goto, runVars
<1>6. ASSUME NEW t \in Threads, CheckResult(t) PROVE Same
  BY <1>6, <1>a, FlagAssumption, ThreadFacts DEF CheckResult, Succeeded, Goto, runVars
<1>7. UNCHANGED vars => Same
  BY DEF vars
<1> HIDE DEF Same
<1>8. CASE StartUp
  <2>1. teardowns' = 0
    BY <1>8, MasterPhase DEF StartUp, Early
  <2> QED
    BY <2>1 DEF VerdictCorrect
<1>9. CASE SpawnFail \/ GlobalTeardown
  <2>1. pc'[0] \notin Over
    BY <1>9, <1>a, ThreadFacts DEF SpawnFail, GlobalTeardown, Goto
  <2> QED
    BY <2>1 DEF VerdictCorrect
<1>10. CASE Summary
  <2>1. log[0].failed_tests > 0 <=> \E t \in Threads : failedOn[t] # {}
    BY <1>10, SummaryReads DEF Summary
  <2>2. failedOn' = failedOn /\ status' = IF log[0].failed_tests > 0 THEN 1 ELSE 0
    BY <1>10 DEF Summary, runVars
  <2> QED
    BY <2>1, <2>2 DEF VerdictCorrect
<1>11. ASSUME NEW t \in Threads, TestBody(t) PROVE VerdictCorrect'
  <2>1. Running /\ ok[t] /\ pc' = [pc EXCEPT ![t] = "schedule"]
    BY <1>11, OwnLog DEF TestBody, Goto
  <2>2. pc[0] \notin Over
    BY <2>1 DEF Running, Closing
  <2>3. pc'[0] \notin Over
    BY <1>a, <2>1, <2>2, ThreadFacts
  <2> QED
    BY <2>3 DEF VerdictCorrect
<1> QED
  BY <1>1, <1>2, <1>3, <1>4, <1>5, <1>6, <1>7, <1>8, <1>9, <1>10, <1>11
     DEF Next, MasterStep, RunStep, Finished

-----------------------------------------------------------------------------
(* The theorems.                                                           *)

\* The invariants that hold for every number of jobs.
RunInv == /\ Typed /\ PhaseInv /\ SliceInv /\ Entries
          /\ Locked /\ Prepared /\ TornDown /\ Untouched /\ Working
          /\ Stopping /\ FlagOnly /\ Added

\* They hold in every reachable state.
THEOREM RunHolds == Spec => []RunInv
<1>1. Init => RunInv
  BY TypedInit, PhaseInit, SliceInit, EntriesInit, LockedInit, PreparedInit,
     TornDownInit, UntouchedInit, WorkingInit, StoppingInit, AddedInit DEF RunInv
<1>2. RunInv /\ [Next]_vars => RunInv'
  BY TypedNext, PhaseNext, SliceNext, EntriesNext, LockedNext, PreparedNext,
     TornDownNext, UntouchedNext, WorkingNext, StoppingNext, AddedNext DEF RunInv
<1> QED
  BY <1>1, <1>2, PTL DEF Spec

\* Results are printed by one thread at a time, which holds the initialised
\* io_lock of cldm_test.c, however many threads run.
THEOREM PrintsAlone == Spec => []PrintingExclusive
<1>1. RunInv => PrintingExclusive
  <2> SUFFICES ASSUME RunInv, NEW t \in Threads, pc[t] \in {"printFull", "printFlush"}
               PROVE  io_lock = {t} /\ (ok[0] => io_init)
    BY DEF PrintingExclusive
  <2>1. Running /\ ok[t]
    BY WhichPhase DEF RunInv, Run
  <2>2. pc[0] # "returned"
    BY <2>1 DEF Running, Closing
  <2> QED
    BY <2>2 DEF RunInv, Locked, Printing
<1> QED
  BY <1>1, RunHolds, PTL

\* The invariants put every test body between the global procedures.
LEMMA InBrackets == RunInv => TestsBracketed
<1> SUFFICES ASSUME RunInv, NEW t \in Threads, pc[t] = "body"
             PROVE  /\ setups = 1 /\ teardowns = 0 /\ records
                    /\ log[t].mem = "live" /\ cldm_thread_id(t) = t
  BY DEF TestsBracketed
<1>1. Running /\ ok[t] /\ cldm_thread_id(t) = t
  BY OwnLog DEF RunInv
<1>2. pc[0] \notin Closing
  BY <1>1 DEF Running
<1>3. teardowns = 0 /\ log[t].mem = "live"
  BY <1>1, <1>2 DEF RunInv, TornDown, Closing
<1>4. pc[1] \notin Preparing
  BY <1>1, ThreadFacts DEF Running, Run, Preparing
<1>5. thread_ntests[t] # 0
  <2>1. begun[t] \in Nat /\ thread_ntests[t] \in Nat
    BY DEF RunInv, Typed
  <2>2. begun[t] > 0 /\ begun[t] <= thread_ntests[t]
    BY DEF RunInv, Working, InTest, SliceInv, Progress
  <2> QED
    BY <2>1, <2>2
<1>6. setups = 1 /\ records
  BY <1>2, <1>4, <1>5 DEF RunInv, Prepared, Closing
<1> QED
  BY <1>1, <1>3, <1>6

\* Every test body runs between the global setup and the global teardown,
\* with the records and the log of its own thread, which counts it.
THEOREM Bracketed == Spec => []TestsBracketed
  BY InBrackets, RunHolds, PTL

\* With --fail-fast, no thread starts more than one test after another one
\* has raised early_abort, however the threads interleave.
THEOREM StopsPromptly == Spec => []FailFastPrompt
<1>1. RunInv => FailFastPrompt
  BY DEF RunInv, Stopping, FailFastPrompt
<1> QED
  BY <1>1, RunHolds, PTL

\* With fewer jobs than CLDM_MAX_THREADS, whether a power of two or not, the
\* reduction adds the counts of every thread to log 0, and none twice.
THEOREM CountedOnce == Jobs < MaxThreads => (Spec => []EachThreadCountedOnce)
<1> SUFFICES ASSUME Jobs < MaxThreads PROVE Spec => []EachThreadCountedOnce
  OBVIOUS
<1>1. RunInv => EachThreadCountedOnce
  <2> SUFFICES ASSUME RunInv PROVE EachThreadCountedOnce
    OBVIOUS
  <2>1. Typed /\ PhaseInv /\ Added
    BY DEF RunInv
  <2>2. ASSUME NEW t \in Threads, pc[t] = "reducing"
        PROVE  acc[t] \cap acc[t + stride[t]] = {}
    <3> DEFINE s == stride[0]
    <3>1. Reducing
      BY <2>1, <2>2, WhichPhase DEF Rounds
    <3>2. t < s /\ stride[t] = s /\ s # 0
      BY <2>2, <3>1 DEF Reducing
    <3>3. s \in Powers /\ s \in Nat /\ t \in Nat
      <4>1. stride \in [Threads -> Powers \cup {0}]
        BY <2>1 DEF Typed
      <4>2. s \in Powers
        BY <3>2, <4>1, ThreadFacts
      <4> QED
        BY <4>2, ThreadFacts DEF Powers
    <3>4. t \in Logs /\ t + s \in Logs
      BY <2>1, <2>2, <3>2, StrideInside, ThreadFacts DEF LogAccessInBounds
    <3>5. acc[t] = Group(2 * s, t)
      BY <2>1, <2>2, <3>1, <3>2, <3>3, <3>4 DEF Added
    <3>6. acc[t + s] = Group(2 * s, t + s)
      <4>1. t + s < 2 * s /\ ~(t + s < s)
        BY <3>2, <3>3
      <4> QED
        BY <2>1, <3>1, <3>4, <4>1 DEF Added
    <3> HIDE DEF s
    <3> QED
      BY <3>2, <3>3, <3>5, <3>6, GroupsJoin
  <2>3. ASSUME pc[0] \in MasterTail, ok[0] PROVE acc[0] = Threads
    <3>1. pc[0] \in {"join"} \cup Closing /\ ~Abandoned
      BY <2>3 DEF MasterTail, Closing, Abandoned
    <3>2. Ending
      BY <2>1, <2>3, <3>1, MasterPhase
    <3> QED
      BY <2>1, <3>2 DEF Added
  <2> QED
    BY <2>2, <2>3 DEF EachThreadCountedOnce
<1> QED
  BY <1>1, RunHolds, PTL

\* With fewer jobs than CLDM_MAX_THREADS, the exit status of a run that got
\* as far as the global teardown is 1 exactly when a test failed on a thread.
THEOREM ExitStatus == Jobs < MaxThreads => (Spec => []VerdictCorrect)
<1> SUFFICES ASSUME Jobs < MaxThreads PROVE Spec => []VerdictCorrect
  OBVIOUS
<1>1. Init => Counted /\ VerdictCorrect
  BY CountedInit, VerdictInit
<1>2. RunInv /\ Counted /\ VerdictCorrect /\ [Next]_vars => Counted' /\ VerdictCorrect'
  BY CountedNext, VerdictNext, StrideInside DEF RunInv
<1> QED
  BY <1>1, <1>2, RunHolds, PTL DEF Spec

-----------------------------------------------------------------------------
(***************************************************************************)
(* What the run leaves behind: no test is skipped, every result is printed *)
(* once with its verdict, and the run as a whole implements TestRunner.    *)
(***************************************************************************)

-----------------------------------------------------------------------------
(* The invariants.                                                         *)

\* What the distribution has handed out covers the tests up to startidx.
Covered ==
    /\ \A k \in Nat : k < dist.startidx =>
          \E t \in Threads : /\ t < dist.i
                             /\ thread_startidx[t] <= k
                             /\ k < thread_startidx[t] + thread_ntests[t]
    /\ pc[0] # "exited" /\ pc[1] \in {"off", "collect", "records"} =>
          ~records /\ ~auxprocs /\ dist.i = 0 /\ dist.startidx = 0
    /\ pc[0] # "exited" /\ pc[1] = "distribute" => ~auxprocs
    /\ pc[1] \notin {"off", "collect", "records", "distribute"} /\ records =>
          dist.i = Jobs

\* A thread has run the tests of its slice that it has begun.
RanBegun ==
    \A t \in Threads, k \in Tests :
        thread_startidx[t] <= k /\ k < thread_startidx[t] + begun[t] => runs[k] # 0

\* Behind the test loop, for a thread that was in it.
Past(t) ==
    \/ pc[t] \in {"flush", "printFlush", "releaseFlush", "runBarrier", "reduce",
                  "reducing", "reduceBarrier", "free"}
    \/ ok[t] /\ pc[t] \in {"done", "join", "teardown", "summary", "cleanup"}

\* A thread leaves the loop at the end of its slice or because of a failure.
Through ==
    \A t \in Threads : Past(t) =>
        begun[t] = thread_ntests[t] \/ early_abort \/ current[t].fatal

\* Where the results in a thread's buffer are still to be printed.
Holding == {"loop", "body", "schedule", "full", "printFull", "check", "signal",
            "poll", "flush", "printFlush"}

\* The result of test k is still to come on thread t (place 0), or is in
\* place i of its buffer.
Held(t, i, k) ==
    \/ i = 0 /\ pc[t] \in InTest /\ current[t].test = k
    \/ i \in 1..Len(buffer[t]) /\ pc[t] \in Holding /\ buffer[t][i][1] = k

Pending(k) == \E t \in Threads, i \in Nat : Held(t, i, k)

Shown(k) == \E v \in BOOLEAN : <<k, v>> \in reported

\* A thread enters its loop with an empty buffer.
Blank == \A t \in Threads : pc[t] = "setupBarrier" => buffer[t] = <<>>

\* Every test that was begun is in exactly one place or printed.
Placed ==
    \A k \in Tests :
        /\ \A t, u \in Threads, i, j \in Nat :
              Held(t, i, k) /\ Held(u, j, k) => t = u /\ i = j
        /\ ~(Pending(k) /\ Shown(k))
        /\ runs[k] # 0 <=> Pending(k) \/ Shown(k)

HasFailed(k) == \E t \in Threads : k \in failedOn[t]

\* The results in the buffers and on the terminal are the verdicts.
Judged ==
    /\ \A k \in Tests : HasFailed(k) => runs[k] # 0
    /\ \A t \in Threads : pc[t] = "body" => ~HasFailed(current[t].test)
    /\ \A t \in Threads : pc[t] \in InTest \ {"body"} =>
          (current[t].pass <=> ~HasFailed(current[t].test))
    /\ \A t \in Threads : pc[t] \in Holding =>
          \A i \in 1..Len(buffer[t]) : buffer[t][i][2] <=> ~HasFailed(buffer[t][i][1])
    /\ \A k \in Tests, v \in BOOLEAN : <<k, v>> \in reported => (v <=> ~HasFailed(k))

Tallied == IsFiniteSet(reported) /\ io_index = Cardinality(reported)

\* Whatever stops the loops is a failed test.
Blamed ==
    /\ \A t \in Threads : current[t].fatal => failedOn[t] # {}
    /\ \A t \in Threads :
          pc[t] \in (InTest \ {"body"}) \cup {"check", "signal"} /\ ~current[t].pass =>
              failedOn[t] # {}
    /\ \A t \in Threads : pc[t] = "signal" => failedOn[t] # {}
    /\ early_abort => \E t \in Threads : failedOn[t] # {}

\* How far the run has got, as its callers see it.
Advanced ==
    /\ status = -1 <=> pc[0] \notin {"cleanup", "returned", "exited"}
    /\ pc[0] = "summary" => teardowns = 1
    /\ auxprocs /\ pc[0] # "exited" => (setups = 1 \/ pc[1] = "setup")
    /\ auxprocs => records \/ pc[0] = "returned"
    /\ setups <= 1

Left == {"done", "join", "teardown", "summary", "cleanup"}

\* Unless cldm_test_init may fail, a thread leaves only by way of the tests.
AllReady ==
    "init" \notin Faults =>
        \A t \in Threads : pc[t] \in Left \cup {"setupBarrier"} => ok[t]

-----------------------------------------------------------------------------
(* No test is skipped.                                                     *)

\* Nothing has been handed out initially.
LEMMA CoveredInit == Init => Covered
<1> SUFFICES ASSUME Init PROVE Covered
  OBVIOUS
<1>1. pc[1] = "off" /\ dist.i = 0 /\ dist.startidx = 0
  BY ThreadFacts DEF Init
<1> QED
  BY <1>1 DEF Init, Covered

\* One round of the distribution covers the tests up to the new startidx.
LEMMA CoverStep ==
    ASSUME Typed, SliceInv, Covered, dist.i < Jobs,
           thread_ntests' = [thread_ntests EXCEPT ![dist.i] = Share(dist.i)],
           thread_startidx' = [thread_startidx EXCEPT ![dist.i] = dist.startidx],
           dist' = [i |-> dist.i + 1, startidx |-> dist.startidx + Share(dist.i)],
           NEW k \in Nat, k < dist'.startidx
    PROVE  \E t \in Threads : /\ t < dist'.i
                              /\ thread_startidx'[t] <= k
                              /\ k < thread_startidx'[t] + thread_ntests'[t]
<1> DEFINE d == dist.i
<1>1. d \in Nat /\ d \in Threads /\ dist.startidx \in Nat /\ Share(d) \in Nat
  <2>1. dist \in [i : Nat, startidx : Nat] /\ d < Jobs
    BY DEF Typed
  <2> QED
    BY <2>1, ThreadFacts, ShareType DEF Threads
<1>2. /\ thread_ntests \in [Threads -> Nat] /\ thread_startidx \in [Threads -> Nat]
      /\ dist'.i = d + 1 /\ dist'.startidx = dist.startidx + Share(d)
  BY DEF Typed
<1>3. CASE k < dist.startidx
  <2>1. PICK t \in Threads : /\ t < d
                             /\ thread_startidx[t] <= k
                             /\ k < thread_startidx[t] + thread_ntests[t]
    BY <1>3 DEF Covered
  <2>2. t # d /\ t < d + 1
    BY <1>1, <2>1, ThreadFacts
  <2>3. thread_startidx'[t] = thread_startidx[t] /\ thread_ntests'[t] = thread_ntests[t]
    BY <1>2, <2>2
  <2> QED
    BY <1>2, <2>1, <2>2, <2>3
<1>4. CASE ~(k < dist.startidx)
  <2>1. thread_startidx'[d] = dist.startidx /\ thread_ntests'[d] = Share(d)
    BY <1>1, <1>2
  <2>2. /\ d < dist'.i /\ thread_startidx'[d] <= k
        /\ k < thread_startidx'[d] + thread_ntests'[d]
    BY <1>1, <1>2, <1>4, <2>1
  <2> QED
    BY <1>1, <2>2
<1> QED
  BY <1>3, <1>4

\* Every step keeps the tests covered.
LEMMA CoveredNext ==
    Typed /\ PhaseInv /\ SliceInv /\ Covered /\ [Next]_vars => Covered'
<1> SUFFICES ASSUME Typed, PhaseInv, SliceInv, Covered, [Next]_vars PROVE Covered'
  OBVIOUS
<1>a. /\ pc \in [Threads -> Labels] /\ dist \in [i : Nat, startidx : Nat]
      /\ dist.i \in 0..Jobs
  BY DEF Typed, SliceInv, Sliced
<1>b. pc[1] \in {"collect", "records", "distribute", "setup"} => pc[0] # "exited"
  <2>1. Early => pc[0] # "exited"
    BY ThreadFacts DEF Early, EarlyLabels
  <2> QED
    BY <2>1, MasterPhase
<1> DEFINE Start == {"off", "collect", "records", "distribute"}
           Same ==
             /\ UNCHANGED <<dist, thread_ntests, thread_startidx, records, auxprocs>>
             /\ pc[0] = "exited" => pc'[0] = "exited"
             /\ pc'[1] = pc[1] \/ (pc[1] \notin Start /\ pc'[1] \notin Start)
<1>1. CASE Same
  BY <1>1 DEF Covered
<1>2. StartUp \/ SpawnReturn \/ Join \/ GlobalTeardown \/ Summary => Same
  BY <1>a, ThreadFacts DEF StartUp, SpawnReturn, Join, GlobalTeardown, Summary,
     Goto, distVars
<1>3. BarrierRelease \/ GlobalSetup => Same
  BY <1>a, ThreadFacts DEF BarrierRelease, Released, Barriers, GlobalSetup, Goto, distVars
<1>4. ASSUME NEW t \in Threads,
             \/ TestInit(t) \/ BeginTest(t) \/ LoopDone(t) \/ TestBody(t)
             \/ SchedulePrint(t) \/ AcquireIo(t) \/ PrintBuffer(t) \/ ReleaseIo(t)
             \/ SignalAbort(t) \/ PollAbort(t)
             \/ ReduceLoop(t) \/ Reduce(t) \/ FreeLog(t)
      PROVE  Same
  BY <1>4, <1>a, ThreadFacts DEF TestInit, BeginTest, LoopDone, TestBody,
     SchedulePrint, AcquireIo, PrintBuffer, ReleaseIo, SignalAbort, PollAbort,
     ReduceLoop, Reduce, FreeLog, Goto, distVars
<1>5. ASSUME NEW t \in Threads, CheckResult(t) PROVE Same
  BY <1>5, <1>a, FlagAssumption, ThreadFacts
     DEF CheckResult, Succeeded, Goto, distVars
<1>6. UNCHANGED vars => Same
  BY DEF vars
<1> HIDE DEF Same
<1>7. CASE Spawn
  <2>1. Early /\ pc[0] = "spawn"
    BY <1>7, MasterPhase DEF Spawn
  <2>2. spawned + 1 \in Threads /\ spawned + 1 # 0 /\ pc[spawned + 1] = "off"
    BY <2>1, NextThread
  <2>3. /\ pc' = [pc EXCEPT ![0] = "create",
                            ![spawned + 1] = IF spawned + 1 = 1 THEN "collect" ELSE "init"]
        /\ UNCHANGED <<dist, thread_ntests, thread_startidx, records, auxprocs>>
    BY <1>7 DEF Spawn, distVars
  <2>4. pc'[0] = "create"
        /\ (pc'[1] = pc[1] \/ (pc[1] = "off" /\ pc'[1] = "collect"))
    BY <1>a, <2>2, <2>3, ThreadFacts
  <2> QED
    BY <2>1, <2>3, <2>4 DEF Covered
<1>8. CASE SpawnFail
  <2>1. /\ pc'[0] = "exited" /\ pc'[1] = "off"
        /\ UNCHANGED <<dist, thread_ntests, thread_startidx>>
    BY <1>8, ThreadFacts DEF SpawnFail, distVars
  <2> QED
    BY <2>1 DEF Covered
<1>9. CASE Collect
  <2>1. /\ pc[1] = "collect" /\ UNCHANGED <<dist, thread_startidx, records, auxprocs>>
        /\ \E x \in {"records", "init"} : pc' = [pc EXCEPT ![1] = x]
    BY <1>9 DEF Collect, Goto
  <2>2. ~records /\ ~auxprocs /\ dist.i = 0 /\ dist.startidx = 0
    BY <1>b, <2>1 DEF Covered
  <2>3. pc'[1] \in {"records", "init"}
    BY <1>a, <2>1, ThreadFacts
  <2> QED
    BY <2>1, <2>2, <2>3 DEF Covered
<1>10. CASE AllocRecords
  <2>1. /\ pc[1] = "records" /\ UNCHANGED <<dist, thread_ntests, thread_startidx, auxprocs>>
        /\ \/ records' = TRUE /\ pc' = [pc EXCEPT ![1] = "distribute"]
           \/ records' = records /\ pc' = [pc EXCEPT ![1] = "init"]
    BY <1>10 DEF AllocRecords, Goto
  <2>2. ~records /\ ~auxprocs /\ dist.i = 0 /\ dist.startidx = 0
    BY <1>b, <2>1 DEF Covered
  <2>3. pc'[1] = "distribute" \/ (pc'[1] = "init" /\ ~records')
    BY <1>a, <2>1, <2>2, ThreadFacts
  <2> QED
    BY <2>1, <2>2, <2>3 DEF Covered
<1>11. CASE Distribute
  <2>1. pc[1] = "distribute" /\ records' = records
    BY <1>11 DEF Distribute
  <2>2. CASE dist.i < Jobs
    <3>1. /\ thread_ntests' = [thread_ntests EXCEPT ![dist.i] = Share(dist.i)]
          /\ thread_startidx' = [thread_startidx EXCEPT ![dist.i] = dist.startidx]
          /\ dist' = [i |-> dist.i + 1, startidx |-> dist.startidx + Share(dist.i)]
          /\ UNCHANGED <<pc, auxprocs>>
      BY <1>11, <1>a, <2>2, ThreadFacts DEF Distribute
    <3>2. \A k \in Nat : k < dist'.startidx =>
            \E t \in Threads : /\ t < dist'.i
                               /\ thread_startidx'[t] <= k
                               /\ k < thread_startidx'[t] + thread_ntests'[t]
      BY <2>2, <3>1, CoverStep
    <3> QED
      BY <2>1, <3>1, <3>2 DEF Covered
  <2>3. CASE ~(dist.i < Jobs)
    <3>1. /\ pc' = [pc EXCEPT ![1] = "setup"]
          /\ UNCHANGED <<dist, thread_ntests, thread_startidx>>
      BY <1>11, <2>3 DEF Distribute, Goto
    <3>2. dist.i = Jobs /\ pc'[1] = "setup"
      BY <1>a, <2>3, <3>1, ThreadFacts
    <3> QED
      BY <3>1, <3>2 DEF Covered
  <2> QED
    BY <2>2, <2>3
<1>12. CASE CleanUp
  <2>1. /\ pc' = [pc EXCEPT ![0] = "returned"] /\ ~records' /\ pc[0] = "cleanup"
        /\ UNCHANGED <<dist, thread_ntests, thread_startidx, auxprocs>>
    BY <1>12 DEF CleanUp, Goto
  <2>2. pc'[1] = pc[1] /\ pc'[0] = "returned"
    BY <1>a, <2>1, ThreadFacts
  <2> QED
    BY <2>1, <2>2 DEF Covered
<1> QED
  BY <1>1, <1>2, <1>3, <1>4, <1>5, <1>6, <1>7, <1>8, <1>9, <1>10, <1>11, <1>12
     DEF Next, MasterStep, CollectStep, RunStep, Finished

\* No test has been begun initially.
LEMMA RanBegunInit == Init => RanBegun
<1> SUFFICES ASSUME Init, NEW t \in Threads, NEW k \in Tests
             PROVE  ~(thread_startidx[t] <= k /\ k < thread_startidx[t] + begun[t])
  BY DEF RanBegun
<1>1. thread_startidx[t] = 0 /\ begun[t] = 0 /\ k \in Nat
  BY TestsAssumption DEF Init, Tests
<1> QED
  BY <1>1

\* Every step counts the tests it begins.
LEMMA RanBegunNext ==
    Typed /\ PhaseInv /\ SliceInv /\ RanBegun /\ [Next]_vars => RanBegun'
<1> SUFFICES ASSUME Typed, PhaseInv, SliceInv, RanBegun, [Next]_vars PROVE RanBegun'
  OBVIOUS
<1>a. /\ begun \in [Threads -> Nat] /\ thread_startidx \in [Threads -> Nat]
      /\ runs \in [Tests -> Nat]
  BY DEF Typed
<1>b. Tests \subseteq Nat
  BY TestsAssumption DEF Tests
<1>1. CASE UNCHANGED <<begun, runs, thread_startidx>>
  BY <1>1 DEF RanBegun
<1>2. ASSUME NEW t \in Threads, BeginTest(t) PROVE RanBegun'
  <2> DEFINE k == thread_startidx[t] + begun[t]
  <2>1. /\ begun' = [begun EXCEPT ![t] = @ + 1]
        /\ runs' = [runs EXCEPT ![k] = @ + 1]
        /\ thread_startidx' = thread_startidx
        /\ k \in Nat
    BY <1>2, <1>a DEF BeginTest, distVars
  <2>2. \A j \in Tests : runs[j] # 0 \/ j = k => runs'[j] # 0
    BY <1>a, <2>1
  <2>3. ASSUME NEW u \in Threads, NEW j \in Tests,
               thread_startidx'[u] <= j, j < thread_startidx'[u] + begun'[u]
        PROVE  runs'[j] # 0
    <3>1. CASE u # t
      BY <1>a, <2>1, <2>2, <2>3, <3>1 DEF RanBegun
    <3>2. CASE u = t
      <4>1. begun'[t] = begun[t] + 1
        BY <1>a, <2>1
      <4>2. j = k \/ j < k
        BY <1>a, <1>b, <2>1, <2>3, <3>2, <4>1
      <4> QED
        BY <1>a, <2>1, <2>2, <2>3, <3>2, <4>2 DEF RanBegun
    <3> QED
      BY <3>1, <3>2
  <2> QED
    BY <2>3 DEF RanBegun
<1>3. CASE Distribute
  <2>1. Fresh /\ UNCHANGED <<begun, runs>>
    BY <1>3 DEF Distribute, Fresh, runVars
  <2>2. \A t \in Threads : begun'[t] = 0
    BY <2>1 DEF SliceInv, Progress
  <2>3. thread_startidx' \in [Threads -> Nat]
    BY TypedNext DEF Typed
  <2> QED
    BY <1>b, <2>2, <2>3 DEF RanBegun
<1>4. CASE Collect
  BY <1>1, <1>4 DEF Collect, runVars
<1> QED
  BY <1>1, <1>2, <1>3, <1>4, SliceMoves

\* No thread has been through its loop initially.
LEMMA ThroughInit == Init => Through
  BY DEF Init, Through, Past

\* Every step keeps the threads behind their loops through their slices.
LEMMA ThroughNext ==
    Typed /\ PhaseInv /\ SliceInv /\ Through /\ [Next]_vars => Through'
<1> SUFFICES ASSUME Typed, PhaseInv, SliceInv, Through, [Next]_vars PROVE Through'
  OBVIOUS
<1>a. /\ pc \in [Threads -> Labels] /\ ok \in [Threads -> BOOLEAN]
      /\ current \in [Threads -> CurrentType]
      /\ begun \in [Threads -> Nat] /\ thread_ntests \in [Threads -> Nat]
      /\ early_abort \in BOOLEAN
  BY DEF Typed
<1> DEFINE Kept(t) == /\ begun'[t] = begun[t] /\ thread_ntests'[t] = thread_ntests[t]
                      /\ current'[t] = current[t]
           Same == /\ early_abort => early_abort'
                   /\ \A t \in Threads : Past(t)' => Past(t) /\ Kept(t)
<1>1. CASE Same
  BY <1>1 DEF Through
<1>2. StartUp \/ SpawnReturn \/ Join \/ GlobalTeardown \/ Summary \/ CleanUp => Same
  BY <1>a, ThreadFacts DEF StartUp, SpawnReturn, Join, GlobalTeardown, Summary,
     CleanUp, Goto, Past, runVars, distVars
<1>3. Spawn \/ SpawnFail => Same
  BY <1>a, ThreadFacts DEF Spawn, SpawnFail, Past, runVars, distVars
<1>4. BarrierRelease => Same
  BY DEF BarrierRelease, Released, Barriers, Past, runVars, distVars
<1>5. ASSUME NEW t \in Threads,
             \/ TestInit(t) \/ SchedulePrint(t) \/ AcquireIo(t) \/ PrintBuffer(t)
             \/ ReleaseIo(t) \/ ReduceLoop(t) \/ Reduce(t) \/ FreeLog(t)
      PROVE  Same
  <2>1. TestInit(t) \/ SchedulePrint(t) \/ AcquireIo(t) \/ PrintBuffer(t) \/ ReleaseIo(t)
        => Same
    BY <1>a DEF TestInit, SchedulePrint, AcquireIo, PrintBuffer, ReleaseIo, Goto, Past,
       runVars, distVars
  <2>2. ReduceLoop(t) \/ Reduce(t) \/ FreeLog(t) => Same
    <3>1. ReduceLoop(t) \/ Reduce(t) \/ FreeLog(t) =>
            /\ pc[t] \in {"reduce", "reducing", "free"}
            /\ \E x \in Labels : pc' = [pc EXCEPT ![t] = x]
            /\ UNCHANGED <<ok, begun, thread_ntests, current, early_abort>>
      BY DEF ReduceLoop, Reduce, FreeLog, Goto, Labels, runVars, distVars
    <3> QED
      BY <1>a, <3>1 DEF Past
  <2> QED
    BY <1>5, <2>1, <2>2
<1>6. ASSUME NEW t \in Threads, BeginTest(t) PROVE Same
  <2>1. /\ pc' = [pc EXCEPT ![t] = "body"] /\ UNCHANGED <<ok, early_abort, thread_ntests>>
        /\ begun' = [begun EXCEPT ![t] = @ + 1]
        /\ \E c : current' = [current EXCEPT ![t] = c]
    BY <1>6 DEF BeginTest, Goto, distVars
  <2> QED
    BY <1>a, <2>1 DEF Past
<1>7. ASSUME NEW t \in Threads, TestBody(t) PROVE Same
  <2>1. cldm_thread_id(t) = t
    BY <1>7, OwnLog DEF TestBody
  <2>2. /\ pc' = [pc EXCEPT ![t] = "schedule"]
        /\ UNCHANGED <<ok, early_abort, thread_ntests, begun>>
        /\ \E o \in Outcomes : current' = [current EXCEPT
                 ![t].pass = @ /\ o.failed = 0,
                 ![t].fatal = @ \/ o.logged < o.failed]
    BY <1>7, <2>1, ZenonT(40) DEF TestBody, Goto, distVars
  <2>3. \A u \in Threads : u # t => current'[u] = current[u]
    BY <1>a, <2>2
  <2> QED
    BY <1>a, <2>2, <2>3 DEF Past
<1>8. CollectStep => Same
  <2> SUFFICES ASSUME CollectStep PROVE Same
    OBVIOUS
  <2>1. Early
    BY MasterPhase DEF CollectStep, Collect, AllocRecords, Distribute, GlobalSetup
  <2>2. /\ UNCHANGED <<early_abort, ok>>
        /\ pc' = pc \/ \E x \in {"records", "distribute", "setup", "init"} :
                           pc' = [pc EXCEPT ![1] = x]
    BY DEF CollectStep, Collect, AllocRecords, Distribute, GlobalSetup, Goto
  <2>3. \A t \in Threads : ~Past(t)'
    BY <1>a, <2>1, <2>2, ThreadFacts DEF Early, EarlyLabels, Past
  <2> QED
    BY <2>2, <2>3
<1>9. UNCHANGED vars => Same
  BY DEF vars, Past
<1> HIDE DEF Same
<1>10. ASSUME NEW t \in Threads, LoopDone(t) PROVE Through'
  <2>1. /\ begun[t] >= thread_ntests[t] /\ pc' = [pc EXCEPT ![t] = "flush"]
        /\ UNCHANGED <<ok, begun, thread_ntests, current, early_abort>>
    BY <1>10 DEF LoopDone, Goto, runVars, distVars
  <2>2. begun[t] = thread_ntests[t]
    BY <1>a, <2>1 DEF SliceInv, Progress
  <2>3. \A u \in Threads : u # t /\ Past(u)' => Past(u)
    BY <1>a, <2>1 DEF Past
  <2> QED
    BY <2>1, <2>2, <2>3 DEF Through
<1>11. ASSUME NEW t \in Threads, CheckResult(t) PROVE Through'
  <2>1. /\ UNCHANGED <<ok, begun, thread_ntests, current, early_abort>>
        /\ \/ \E x \in {"loop", "poll", "signal"} : pc' = [pc EXCEPT ![t] = x]
           \/ current[t].fatal /\ pc' = [pc EXCEPT ![t] = "flush"]
    BY <1>11, FlagAssumption DEF CheckResult, Succeeded, Goto, runVars, distVars
  <2>2. \A u \in Threads : Past(u)' => Past(u) \/ (u = t /\ current[t].fatal)
    BY <1>a, <2>1 DEF Past
  <2> QED
    BY <2>1, <2>2 DEF Through
<1>12. ASSUME NEW t \in Threads, SignalAbort(t) \/ PollAbort(t) PROVE Through'
  <2>1. /\ UNCHANGED <<ok, begun, thread_ntests, current>>
        /\ early_abort' = early_abort \/ early_abort'
        /\ \/ early_abort' /\ pc' = [pc EXCEPT ![t] = "flush"]
           \/ early_abort' = early_abort /\ pc' = [pc EXCEPT ![t] = "loop"]
    BY <1>12 DEF SignalAbort, PollAbort, Goto, runVars, distVars
  <2>2. \A u \in Threads : Past(u)' => Past(u) \/ early_abort'
    BY <1>a, <2>1 DEF Past
  <2> QED
    BY <2>1, <2>2 DEF Through
<1> QED
  BY <1>1, <1>2, <1>3, <1>4, <1>5, <1>6, <1>7, <1>8, <1>9, <1>10, <1>11, <1>12
     DEF Next, MasterStep, RunStep, Finished

\* When every thread is through, every test has been run.
LEMMA AllRun ==
    ASSUME Typed, SliceInv, Covered, RanBegun, records,
           pc[1] \notin {"off", "collect", "records", "distribute"},
           \A t \in Threads : begun[t] = thread_ntests[t]
    PROVE  \A k \in Tests : runs[k] = 1
<1> TAKE k \in Tests
<1>1. k \in Nat /\ k < NTests
  BY TestsAssumption DEF Tests
<1>2. dist.startidx = NTests
  BY Ends DEF Covered, SliceInv, Sliced
<1>3. PICK t \in Threads : /\ thread_startidx[t] <= k
                           /\ k < thread_startidx[t] + thread_ntests[t]
  BY <1>1, <1>2 DEF Covered
<1>4. runs[k] # 0
  BY <1>3 DEF RanBegun
<1>5. runs[k] \in Nat /\ runs[k] <= 1
  BY DEF Typed, SliceInv, RanOnce
<1> QED
  BY <1>4, <1>5

\* The last phases, and what has happened by then.
LEMMA Settled ==
    ASSUME Typed, PhaseInv, pc[0] \in MasterTail \cup Rounds, ok[0]
    PROVE  Reducing \/ Ending
<1>1. CASE pc[0] \in MasterTail
  <2>1. pc[0] \in {"join"} \cup Closing /\ ~Abandoned
    BY <1>1 DEF MasterTail, Closing, Abandoned
  <2> QED
    BY <2>1, MasterPhase
<1>2. CASE pc[0] \in Rounds
  BY <1>2, WhichPhase, ThreadFacts
<1> QED
  BY <1>1, <1>2

\* At the joins, unless a failure has cut the run short, all tests were run.
LEMMA NoneLeft ==
    ASSUME Typed, PhaseInv, SliceInv, Covered, RanBegun, Through, Ending, records,
           pc[0] \in MasterTail
    PROVE  early_abort \/ SomeFatal \/ \A k \in Tests : runs[k] = 1
<1>1. \A t \in Threads : Past(t)
  BY ThreadFacts DEF Ending, Past, MasterTail, Closing
<1>2. pc[1] \notin {"off", "collect", "records", "distribute"}
  BY ThreadFacts DEF Ending
<1>3. CASE \A t \in Threads : begun[t] = thread_ntests[t]
  BY <1>2, <1>3, AllRun
<1>4. CASE \E t \in Threads : begun[t] # thread_ntests[t]
  BY <1>1, <1>4 DEF Through, SomeFatal
<1> QED
  BY <1>3, <1>4

-----------------------------------------------------------------------------
(* Where the results are.                                                  *)

\* No thread is at the barrier initially.
LEMMA BlankInit == Init => Blank
  BY DEF Init, Blank

\* Every step keeps the buffers empty until the loop.
LEMMA BlankNext == Typed /\ PhaseInv /\ Blank /\ [Next]_vars => Blank'
<1> SUFFICES ASSUME Typed, PhaseInv, Blank, [Next]_vars PROVE Blank'
  OBVIOUS
<1>a. pc \in [Threads -> Labels] /\ buffer \in [Threads -> Seq(Int \X BOOLEAN)]
  BY DEF Typed
<1> DEFINE Same == /\ buffer' = buffer
                   /\ \A t \in Threads : pc'[t] = "setupBarrier" => pc[t] = "setupBarrier"
<1>1. CASE Same
  BY <1>1 DEF Blank
<1>2. StartUp \/ SpawnReturn \/ Join \/ GlobalTeardown \/ Summary \/ CleanUp => Same
  BY <1>a, ThreadFacts DEF StartUp, SpawnReturn, Join, GlobalTeardown, Summary,
     CleanUp, Goto, ioVars
<1>3. Spawn \/ SpawnFail => Same
  BY <1>a, ThreadFacts DEF Spawn, SpawnFail, ioVars
<1>4. CollectStep => Same
  BY <1>a, ThreadFacts DEF CollectStep, Collect, AllocRecords, Distribute,
     GlobalSetup, Goto, ioVars
<1>5. BarrierRelease => Same
  BY DEF BarrierRelease, Released, ioVars
<1>6. ASSUME NEW t \in Threads,
             \/ BeginTest(t) \/ LoopDone(t) \/ TestBody(t) \/ AcquireIo(t)
             \/ PrintBuffer(t) \/ SignalAbort(t) \/ PollAbort(t)
             \/ ReduceLoop(t) \/ Reduce(t) \/ FreeLog(t)
      PROVE  Same
  BY <1>6, <1>a DEF BeginTest, LoopDone, TestBody, AcquireIo, PrintBuffer,
     SignalAbort, PollAbort, ReduceLoop, Reduce, FreeLog, Goto, ioVars
<1>7. ASSUME NEW t \in Threads, CheckResult(t) PROVE Same
  BY <1>7, <1>a, FlagAssumption DEF CheckResult, Succeeded, Goto, ioVars
<1>8. UNCHANGED vars => Same
  BY DEF vars
<1> HIDE DEF Same
<1>9. ASSUME NEW t \in Threads, TestInit(t) \/ SchedulePrint(t) \/ ReleaseIo(t)
      PROVE  Blank'
  <2>1. /\ \E b : buffer' = [buffer EXCEPT ![t] = b]
        /\ \/ buffer' = [buffer EXCEPT ![t] = <<>>]
           \/ \E x \in Run : pc' = [pc EXCEPT ![t] = x]
        /\ \E x : pc' = [pc EXCEPT ![t] = x]
    <3>1. buffer' = buffer => buffer' = [buffer EXCEPT ![t] = buffer[t]]
      BY <1>a
    <3>2. TestInit(t) => /\ buffer' = [buffer EXCEPT ![t] = <<>>]
                         /\ pc' = [pc EXCEPT ![t] = "setupBarrier"]
      BY DEF TestInit, Goto
    <3>3. SchedulePrint(t) \/ ReleaseIo(t) =>
            /\ \E b : buffer' = [buffer EXCEPT ![t] = b]
            /\ \E x \in Run : pc' = [pc EXCEPT ![t] = x]
      BY <3>1 DEF SchedulePrint, ReleaseIo, Goto, Run
    <3> QED
      BY <1>9, <3>2, <3>3
  <2>2. \A u \in Threads : u # t => buffer'[u] = buffer[u] /\ pc'[u] = pc[u]
    BY <1>a, <2>1
  <2>3. pc'[t] = "setupBarrier" => buffer'[t] = <<>>
    BY <1>a, <2>1 DEF Run
  <2> QED
    BY <2>2, <2>3 DEF Blank
<1> QED
  BY <1>1, <1>2, <1>3, <1>4, <1>5, <1>6, <1>7, <1>8, <1>9
     DEF Next, MasterStep, RunStep, Finished

\* A step that moves no result.
HeldStays ==
    /\ \A t \in Threads, i \in Nat, k \in Tests : Held(t, i, k)' <=> Held(t, i, k)
    /\ UNCHANGED <<runs, reported>>

\* A step that moves the result thread t is about to give to place n.
Stored(t, n) ==
    /\ n \in Nat \ {0}
    /\ \A k \in Tests :
          /\ Held(t, n, k)' <=> Held(t, 0, k)
          /\ ~Held(t, 0, k)' /\ ~Held(t, n, k)
          /\ \A i \in Nat \ {0, n} : Held(t, i, k)' <=> Held(t, i, k)
          /\ \A u \in Threads \ {t}, i \in Nat : Held(u, i, k)' <=> Held(u, i, k)
    /\ UNCHANGED <<runs, reported>>

\* Storing a result appends it to the buffer or starts the buffer anew.
LEMMA StoreStep ==
    ASSUME Typed, Entries, NEW t \in Threads, SchedulePrint(t) \/ ReleaseIo(t)
    PROVE  HeldStays \/ \E n \in Nat : Stored(t, n)
<1>a. /\ pc \in [Threads -> Labels]
      /\ buffer \in [Threads -> Seq(Tests \X BOOLEAN)]
  BY DEF Typed, Entries
<1>b. UNCHANGED <<runs, reported, current>>
  BY DEF SchedulePrint, ReleaseIo, runVars
<1>c. buffer[t] \in Seq(Tests \X BOOLEAN) /\ Len(buffer[t]) \in Nat
  BY <1>a
<1>1. CASE pc[t] = "schedule" /\ pc' = [pc EXCEPT ![t] = "full"] /\ buffer' = buffer
  BY <1>1, <1>a, <1>b DEF HeldStays, Held, InTest, Holding
<1>2. CASE /\ pc[t] = "releaseFlush" /\ pc' = [pc EXCEPT ![t] = "runBarrier"]
           /\ buffer' = buffer
  BY <1>2, <1>a, <1>b DEF HeldStays, Held, InTest, Holding
<1>3. CASE /\ pc[t] = "schedule" /\ pc' = [pc EXCEPT ![t] = "check"]
           /\ buffer' = [buffer EXCEPT ![t] = Append(@, Entry(t))]
  <2> DEFINE b == buffer[t]
             e == Entry(t)
  <2>n. PICK n \in Nat : n = Len(buffer[t]) + 1
    BY <1>c
  <2>1. buffer'[t] = Append(b, e) /\ pc'[t] = "check"
    BY <1>3, <1>a
  <2>2. /\ Len(buffer'[t]) = n
        /\ buffer'[t][n] = e
        /\ \A i \in 1..Len(b) : buffer'[t][i] = b[i]
    BY <1>c, <2>1, <2>n
  <2>3. e[1] = current[t].test
    BY DEF Entry
  <2> HIDE DEF e
  <2>4. \A u \in Threads \ {t} : buffer'[u] = buffer[u] /\ pc'[u] = pc[u]
    BY <1>3, <1>a
  <2>5. \A i \in Nat \ {0, n} : i \in 1..n <=> i \in 1..Len(b)
    BY <1>c, <2>n
  <2>6. n \in Nat \ {0} /\ n \in 1..n /\ n \notin 1..Len(b)
    BY <1>c, <2>n
  <2>7. ASSUME NEW k \in Tests
        PROVE  /\ Held(t, n, k)' <=> Held(t, 0, k)
               /\ ~Held(t, 0, k)' /\ ~Held(t, n, k)
    BY <1>3, <2>1, <2>2, <2>3, <2>6 DEF Held, InTest, Holding
  <2>8. ASSUME NEW k \in Tests, NEW i \in Nat \ {0, n}
        PROVE  Held(t, i, k)' <=> Held(t, i, k)
    BY <1>3, <2>1, <2>2, <2>5 DEF Held, InTest, Holding
  <2>9. ASSUME NEW k \in Tests, NEW u \in Threads \ {t}, NEW i \in Nat
        PROVE  Held(u, i, k)' <=> Held(u, i, k)
    BY <1>b, <2>4 DEF Held
  <2>10. Stored(t, n)
    BY <1>b, <2>6, <2>7, <2>8, <2>9 DEF Stored
  <2> QED
    BY <2>6, <2>10
<1>4. CASE /\ pc[t] = "releaseFull" /\ pc' = [pc EXCEPT ![t] = "check"]
           /\ buffer' = [buffer EXCEPT ![t] = <<Entry(t)>>]
  <2> DEFINE e == Entry(t)
  <2>1. buffer'[t] = <<e>> /\ pc'[t] = "check"
    BY <1>4, <1>a
  <2>2. e[1] = current[t].test
    BY DEF Entry
  <2> HIDE DEF e
  <2>3. Len(buffer'[t]) = 1 /\ buffer'[t][1] = e
    BY <2>1
  <2>4. \A u \in Threads \ {t} : buffer'[u] = buffer[u] /\ pc'[u] = pc[u]
    BY <1>4, <1>a
  <2>7. ASSUME NEW k \in Tests
        PROVE  /\ Held(t, 1, k)' <=> Held(t, 0, k)
               /\ ~Held(t, 0, k)' /\ ~Held(t, 1, k)
               /\ \A i \in Nat \ {0, 1} : Held(t, i, k)' <=> Held(t, i, k)
    BY <1>4, <2>1, <2>2, <2>3 DEF Held, InTest, Holding
  <2>8. ASSUME NEW k \in Tests, NEW u \in Threads \ {t}, NEW i \in Nat
        PROVE  Held(u, i, k)' <=> Held(u, i, k)
    BY <1>b, <2>4 DEF Held
  <2>9. Stored(t, 1)
    BY <1>b, <2>7, <2>8 DEF Stored
  <2> QED
    BY <2>9
<1> QED
  BY <1>1, <1>2, <1>3, <1>4 DEF SchedulePrint, ReleaseIo, Goto

\* Apart from four actions, no step moves a result.
LEMMA HeldMoves ==
    ASSUME Typed, PhaseInv, Blank, [Next]_vars
    PROVE  \/ \E t \in Threads : \/ BeginTest(t) \/ SchedulePrint(t)
                                 \/ PrintBuffer(t) \/ ReleaseIo(t)
           \/ HeldStays
<1>a. /\ pc \in [Threads -> Labels]
      /\ current \in [Threads -> CurrentType]
      /\ buffer \in [Threads -> Seq(Int \X BOOLEAN)]
  BY DEF Typed
<1> DEFINE Same ==
       /\ UNCHANGED <<runs, reported, buffer>>
       /\ \A t \in Threads : /\ current'[t].test = current[t].test
                             /\ pc'[t] \in InTest <=> pc[t] \in InTest
                             /\ pc'[t] \in Holding <=> pc[t] \in Holding
<1>1. CASE Same
  BY <1>1 DEF HeldStays, Held
<1>2. StartUp \/ SpawnReturn \/ Join \/ GlobalTeardown \/ Summary \/ CleanUp => Same
  BY <1>a, ThreadFacts DEF StartUp, SpawnReturn, Join, GlobalTeardown, Summary,
     CleanUp, Goto, InTest, Holding, runVars, ioVars
<1>3. CollectStep => Same
  BY <1>a, ThreadFacts DEF CollectStep, Collect, AllocRecords, Distribute,
     GlobalSetup, Goto, InTest, Holding, runVars, ioVars
<1>4. ASSUME NEW t \in Threads,
             \/ LoopDone(t) \/ AcquireIo(t) \/ SignalAbort(t) \/ PollAbort(t)
             \/ ReduceLoop(t) \/ Reduce(t) \/ FreeLog(t)
      PROVE  Same
  BY <1>4, <1>a DEF LoopDone, AcquireIo, SignalAbort, PollAbort, ReduceLoop, Reduce,
     FreeLog, Goto, InTest, Holding, runVars, ioVars
<1>5. ASSUME NEW t \in Threads, CheckResult(t) PROVE Same
  BY <1>5, <1>a, FlagAssumption
     DEF CheckResult, Succeeded, Goto, InTest, Holding, runVars, ioVars
<1>6. ASSUME NEW t \in Threads, TestBody(t) PROVE Same
  <2>1. cldm_thread_id(t) = t
    BY <1>6, OwnLog DEF TestBody
  <2>2. /\ pc[t] = "body" /\ pc' = [pc EXCEPT ![t] = "schedule"]
        /\ UNCHANGED <<runs, reported, buffer>>
        /\ \E o \in Outcomes : current' = [current EXCEPT
                 ![t].pass = @ /\ o.failed = 0,
                 ![t].fatal = @ \/ o.logged < o.failed]
    BY <1>6, <2>1 DEF TestBody, Goto, ioVars
  <2>3. \A u \in Threads : current'[u].test = current[u].test
    BY <1>a, <2>2 DEF CurrentType
  <2> QED
    BY <1>a, <2>2, <2>3 DEF InTest, Holding
<1>7. UNCHANGED vars => Same
  BY DEF vars
<1> HIDE DEF Same
<1>8. CASE Spawn \/ SpawnFail
  <2>1. Early /\ UNCHANGED <<runs, reported>>
    BY <1>8, MasterPhase DEF Spawn, SpawnFail, runVars, ioVars
  <2>2. \A t \in Threads : pc[t] \notin InTest \cup Holding
    BY <2>1 DEF Early, EarlyLabels, InTest, Holding
  <2>3. \A t \in Threads : pc'[t] \notin InTest \cup Holding
    BY <1>8, <1>a, <2>2, ThreadFacts DEF Spawn, SpawnFail, InTest, Holding
  <2> QED
    BY <2>1, <2>2, <2>3 DEF HeldStays, Held
<1>9. CASE BarrierRelease
  <2>1. /\ \A t \in Threads : pc[t] \in Barriers
        /\ pc' = [t \in Threads |-> Released(t)]
        /\ UNCHANGED <<runs, reported, buffer>>
    BY <1>9 DEF BarrierRelease, runVars, ioVars
  <2>2. \A t \in Threads : pc[t] \notin InTest \cup Holding
    BY <2>1 DEF Barriers, InTest, Holding
  <2>3. \A t \in Threads :
           /\ pc'[t] \notin InTest
           /\ pc'[t] \in Holding => pc[t] = "setupBarrier"
    BY <2>1 DEF Barriers, Released, InTest, Holding
  <2>4. \A t \in Threads, i \in Nat : pc'[t] \in Holding => i \notin 1..Len(buffer'[t])
    BY <2>1, <2>3 DEF Blank
  <2> QED
    BY <2>1, <2>2, <2>3, <2>4 DEF HeldStays, Held
<1>10. ASSUME NEW t \in Threads, TestInit(t) PROVE HeldStays
  <2>1. /\ pc[t] = "init" /\ pc' = [pc EXCEPT ![t] = "setupBarrier"]
        /\ buffer' = [buffer EXCEPT ![t] = <<>>]
        /\ UNCHANGED <<runs, reported, current>>
    BY <1>10 DEF TestInit, Goto, runVars
  <2>2. \A u \in Threads : u # t => pc'[u] = pc[u] /\ buffer'[u] = buffer[u]
    BY <1>a, <2>1
  <2>3. pc[t] \notin InTest \cup Holding /\ pc'[t] \notin InTest \cup Holding
    BY <1>a, <2>1 DEF InTest, Holding
  <2> QED
    BY <2>1, <2>2, <2>3 DEF HeldStays, Held
<1> QED
  BY <1>1, <1>2, <1>3, <1>4, <1>5, <1>6, <1>7, <1>8, <1>9, <1>10
     DEF Next, MasterStep, RunStep, Finished

\* There are no results initially.
LEMMA PlacedInit == Init => Placed
<1> SUFFICES ASSUME Init, NEW k \in Tests PROVE ~Pending(k) /\ ~Shown(k) /\ runs[k] = 0
  BY DEF Placed, Pending
<1>1. \A t \in Threads : pc[t] \notin InTest \cup Holding
  BY DEF Init, InTest, Holding
<1> QED
  BY <1>1 DEF Init, Pending, Held, Shown

\* The test a thread begins has not been begun before.
LEMMA FirstRun ==
    ASSUME Typed, PhaseInv, SliceInv, [Next]_vars, NEW t \in Threads, BeginTest(t)
    PROVE  /\ thread_startidx[t] + begun[t] \in Tests
           /\ runs[thread_startidx[t] + begun[t]] = 0
           /\ runs' = [runs EXCEPT ![thread_startidx[t] + begun[t]] = 1]
<1> DEFINE k == thread_startidx[t] + begun[t]
<1>1. k \in Tests
  BY BegunInside DEF BeginTest
<1>2. runs' = [runs EXCEPT ![k] = @ + 1]
  BY DEF BeginTest
<1>3. runs \in [Tests -> Nat]
  BY DEF Typed
<1>4. runs'[k] <= 1
  <2>1. SliceInv'
    BY SliceNext
  <2> QED
    BY <1>1, <2>1 DEF SliceInv, RanOnce
<1> HIDE DEF k
<1>5. runs[k] = 0
  BY <1>1, <1>2, <1>3, <1>4
<1> QED
  BY <1>1, <1>2, <1>5 DEF k

\* Storing a result keeps it in one place.
LEMMA PlacedStore ==
    ASSUME Placed, NEW t \in Threads, NEW n \in Nat, Stored(t, n)
    PROVE  Placed'
<1> SUFFICES ASSUME NEW k \in Tests
             PROVE  /\ \A v, u \in Threads, i, j \in Nat :
                          Held(v, i, k)' /\ Held(u, j, k)' => v = u /\ i = j
                    /\ ~(Pending(k)' /\ Shown(k)')
                    /\ runs'[k] # 0 <=> Pending(k)' \/ Shown(k)'
  BY DEF Placed
<1> DEFINE Back(u, i) == IF u = t /\ i = n THEN 0 ELSE i
<1>1. ASSUME NEW u \in Threads, NEW i \in Nat, Held(u, i, k)'
      PROVE  Held(u, Back(u, i), k) /\ Back(u, i) \in Nat /\ ~(u = t /\ i = 0)
  BY <1>1 DEF Stored
<1>2. ASSUME NEW v \in Threads, NEW u \in Threads, NEW i \in Nat, NEW j \in Nat,
             Held(v, i, k)', Held(u, j, k)'
      PROVE  v = u /\ i = j
  <2>1. v = u /\ Back(v, i) = Back(u, j)
    BY <1>1, <1>2 DEF Placed
  <2>2. ~(v = t /\ i = 0) /\ ~(u = t /\ j = 0)
    BY <1>1, <1>2
  <2> QED
    BY <2>1, <2>2
<1>3. Pending(k)' <=> Pending(k)
  <2>1. ASSUME NEW u \in Threads, NEW i \in Nat, Held(u, i, k)
        PROVE  \E j \in Nat : Held(u, j, k)'
    <3>1. CASE u = t /\ i = 0
      BY <2>1, <3>1 DEF Stored
    <3>2. CASE ~(u = t /\ i = 0)
      <4>1. ~(u = t /\ i = n)
        BY <2>1 DEF Stored
      <4> QED
        BY <2>1, <3>2, <4>1 DEF Stored
    <3> QED
      BY <3>1, <3>2
  <2> QED
    BY <1>1, <2>1 DEF Pending
<1>4. Shown(k)' <=> Shown(k)
  BY DEF Stored, Shown
<1> QED
  BY <1>2, <1>3, <1>4 DEF Placed, Stored

\* Every step keeps each begun test in one place or printed.
LEMMA PlacedNext ==
    ASSUME Typed, PhaseInv, SliceInv, Entries, Blank, Placed, [Next]_vars
    PROVE  Placed'
<1>a. /\ pc \in [Threads -> Labels]
      /\ current \in [Threads -> CurrentType]
      /\ buffer \in [Threads -> Seq(Tests \X BOOLEAN)]
      /\ runs \in [Tests -> Nat]
  BY DEF Typed, Entries
<1>1. CASE HeldStays
  BY <1>1 DEF HeldStays, Placed, Pending, Shown
<1>2. ASSUME NEW t \in Threads, SchedulePrint(t) \/ ReleaseIo(t) PROVE Placed'
  BY <1>1, <1>2, StoreStep, PlacedStore
<1>3. ASSUME NEW t \in Threads, BeginTest(t) PROVE Placed'
  <2>1. PICK b \in Tests : b = thread_startidx[t] + begun[t]
    BY <1>3, FirstRun
  <2>2. runs[b] = 0 /\ runs' = [runs EXCEPT ![b] = 1]
    BY <1>3, <2>1, FirstRun
  <2>3. /\ pc[t] = "loop" /\ pc' = [pc EXCEPT ![t] = "body"]
        /\ current' = [current EXCEPT ![t] = [test |-> b, pass |-> TRUE, fatal |-> FALSE]]
        /\ UNCHANGED <<buffer, reported>>
    BY <1>3, <2>1 DEF BeginTest, Goto, ioVars
  <2>4. \A u \in Threads : u # t => pc'[u] = pc[u] /\ current'[u] = current[u]
    BY <1>a, <2>3
  <2>5. pc'[t] = "body" /\ current'[t].test = b
    BY <1>a, <2>3
  <2>6. ASSUME NEW u \in Threads, NEW i \in Nat, NEW k \in Tests
        PROVE  Held(u, i, k)' <=> Held(u, i, k) \/ (u = t /\ i = 0 /\ k = b)
    BY <2>3, <2>4, <2>5 DEF Held, InTest, Holding
  <2>7. ~Pending(b) /\ ~Shown(b)
    BY <2>2 DEF Placed
  <2>8. ASSUME NEW k \in Tests
        PROVE  /\ \A v, u \in Threads, i, j \in Nat :
                     Held(v, i, k)' /\ Held(u, j, k)' => v = u /\ i = j
               /\ ~(Pending(k)' /\ Shown(k)')
               /\ runs'[k] # 0 <=> Pending(k)' \/ Shown(k)'
    <3>1. Shown(k)' <=> Shown(k)
      BY <2>3 DEF Shown
    <3>2. CASE k # b
      <4>1. \A u \in Threads, i \in Nat : Held(u, i, k)' <=> Held(u, i, k)
        BY <2>6, <3>2
      <4>2. (Pending(k)' <=> Pending(k)) /\ runs'[k] = runs[k]
        BY <1>a, <2>2, <3>2, <4>1 DEF Pending
      <4> QED
        BY <3>1, <4>1, <4>2 DEF Placed
    <3>3. CASE k = b
      <4>1. \A u \in Threads, i \in Nat : Held(u, i, k)' <=> u = t /\ i = 0
        BY <2>6, <2>7, <3>3 DEF Pending
      <4>2. Pending(k)' /\ runs'[k] # 0
        BY <1>a, <2>2, <3>3, <4>1 DEF Pending
      <4> QED
        BY <2>7, <3>1, <3>3, <4>1, <4>2
    <3> QED
      BY <3>2, <3>3
  <2> QED
    BY <2>8 DEF Placed
<1>4. ASSUME NEW t \in Threads, PrintBuffer(t) PROVE Placed'
  <2>1. /\ pc[t] \in {"printFull", "printFlush"}
        /\ pc' = [pc EXCEPT ![t] = IF pc[t] = "printFull" THEN "releaseFull"
                                   ELSE "releaseFlush"]
        /\ reported' = reported \cup {buffer[t][i] : i \in 1..Len(buffer[t])}
        /\ UNCHANGED <<buffer, current, runs>>
    BY <1>4 DEF PrintBuffer, Goto, runVars
  <2>2. \A u \in Threads : u # t => pc'[u] = pc[u]
    BY <1>a, <2>1
  <2>3. /\ pc'[t] = IF pc[t] = "printFull" THEN "releaseFull" ELSE "releaseFlush"
    BY <1>a, <2>1
  <2>4. ASSUME NEW u \in Threads, NEW i \in Nat, NEW k \in Tests
        PROVE  Held(u, i, k)' <=> Held(u, i, k) /\ (u # t \/ i = 0)
    BY <2>1, <2>2, <2>3 DEF Held, InTest, Holding
  <2>5. ASSUME NEW k \in Tests
        PROVE  Shown(k)' <=> Shown(k) \/ \E i \in Nat : i # 0 /\ Held(t, i, k)
    <3>1. \A i \in Nat : i # 0 => (Held(t, i, k) <=> i \in 1..Len(buffer[t]) /\ buffer[t][i][1] = k)
      BY <2>1 DEF Held, Holding
    <3>2. ASSUME NEW i \in 1..Len(buffer[t])
          PROVE  /\ buffer[t][i][2] \in BOOLEAN
                 /\ buffer[t][i] = <<buffer[t][i][1], buffer[t][i][2]>>
      <4>1. buffer[t][i] \in Tests \X BOOLEAN
        BY <1>a
      <4> QED
        BY <4>1
    <3>3. (\E v \in BOOLEAN : \E i \in 1..Len(buffer[t]) : <<k, v>> = buffer[t][i])
          <=> \E i \in 1..Len(buffer[t]) : buffer[t][i][1] = k
      BY <3>2
    <3>4. Shown(k)' <=> Shown(k) \/ \E v \in BOOLEAN : \E i \in 1..Len(buffer[t]) :
                                         <<k, v>> = buffer[t][i]
      BY <2>1 DEF Shown
    <3>5. (\E i \in 1..Len(buffer[t]) : buffer[t][i][1] = k)
          <=> \E i \in Nat : i # 0 /\ Held(t, i, k)
      BY <3>1
    <3> QED
      BY <3>3, <3>4, <3>5
  <2>6. ASSUME NEW k \in Tests
        PROVE  /\ \A v, u \in Threads, i, j \in Nat :
                     Held(v, i, k)' /\ Held(u, j, k)' => v = u /\ i = j
               /\ ~(Pending(k)' /\ Shown(k)')
               /\ runs'[k] # 0 <=> Pending(k)' \/ Shown(k)'
    <3>1. \A v, u \in Threads, i, j \in Nat :
             Held(v, i, k)' /\ Held(u, j, k)' => v = u /\ i = j
      BY <2>4 DEF Placed
    <3>2. ~(Pending(k)' /\ Shown(k)')
      <4> SUFFICES ASSUME NEW u \in Threads, NEW j \in Nat, Held(u, j, k)', Shown(k)'
                   PROVE  FALSE
        BY DEF Pending
      <4>1. Held(u, j, k) /\ (u # t \/ j = 0) /\ ~Shown(k)
        BY <2>4 DEF Placed, Pending
      <4>2. PICK i \in Nat : i # 0 /\ Held(t, i, k)
        BY <2>5, <4>1
      <4>3. u = t /\ i = j
        BY <4>1, <4>2 DEF Placed
      <4> QED
        BY <4>1, <4>2, <4>3
    <3>3. Pending(k)' \/ Shown(k)' <=> Pending(k) \/ Shown(k)
      <4>1. Pending(k)' => Pending(k)
        BY <2>4 DEF Pending
      <4>2. Shown(k)' => Pending(k) \/ Shown(k)
        BY <2>5 DEF Pending
      <4>3. Shown(k) => Shown(k)'
        BY <2>5
      <4>4. Pending(k) => Pending(k)' \/ Shown(k)'
        BY <2>4, <2>5 DEF Pending
      <4> QED
        BY <4>1, <4>2, <4>3, <4>4
    <3> QED
      BY <2>1, <3>1, <3>2, <3>3 DEF Placed
  <2> QED
    BY <2>6 DEF Placed
<1> QED
  BY <1>1, <1>2, <1>3, <1>4, HeldMoves

-----------------------------------------------------------------------------
(* What is printed.                                                        *)

\* A sequence without repetitions has as many elements as places.
LEMMA DistinctCount ==
    ASSUME NEW S, NEW b \in Seq(S),
           \A i, j \in 1..Len(b) : b[i] = b[j] => i = j
    PROVE  /\ IsFiniteSet({b[i] : i \in 1..Len(b)})
           /\ Cardinality({b[i] : i \in 1..Len(b)}) = Len(b)
<1> DEFINE n == Len(b)
           T == {b[i] : i \in 1..n}
           f == [i \in 1..n |-> b[i]]
<1>1. n \in Nat
  OBVIOUS
<1>2. f \in Bijection(1..n, T)
  <2>1. f \in [1..n -> T]
    OBVIOUS
  <2>2. \A i, j \in 1..n : f[i] = f[j] => i = j
    OBVIOUS
  <2>3. \A x \in T : \E i \in 1..n : f[i] = x
    OBVIOUS
  <2> HIDE DEF f, T
  <2> QED
    BY <2>1, <2>2, <2>3 DEF Bijection, Injection, Surjection, IsInjective
<1>3. ExistsBijection(1..n, T)
  BY <1>2 DEF ExistsBijection
<1> HIDE DEF T, n
<1> QED
  BY <1>1, <1>3, FS_CountingElements, FS_NatBijection DEF T, n

\* Nothing is printed initially.
LEMMA TalliedInit == Init => Tallied
  BY FS_EmptySet DEF Init, Tallied

\* Every step counts what it prints.
LEMMA TalliedNext ==
    ASSUME Typed, Entries, Placed, Tallied, [Next]_vars
    PROVE  Tallied'
<1>1. CASE UNCHANGED <<io_index, reported>>
  BY <1>1 DEF Tallied
<1>2. ASSUME NEW t \in Threads, PrintBuffer(t) PROVE Tallied'
  <2> DEFINE b == buffer[t]
             T == {b[i] : i \in 1..Len(b)}
  <2>1. /\ io_index' = io_index + Len(b) /\ reported' = reported \cup T
        /\ pc[t] \in Holding
    BY <1>2 DEF PrintBuffer, Holding
  <2>2. b \in Seq(Tests \X BOOLEAN)
    BY DEF Entries
  <2>3. ASSUME NEW i \in 1..Len(b)
        PROVE  /\ b[i] \in Tests \X BOOLEAN /\ i \in Nat
               /\ b[i][1] \in Tests /\ Held(t, i, b[i][1])
    <3>1. b[i] \in Tests \X BOOLEAN
      BY <2>2, <2>3
    <3>2. b[i][1] \in Tests
      BY <3>1
    <3> QED
      BY <2>1, <2>3, <3>1, <3>2 DEF Held
  <2>4. ASSUME NEW i \in 1..Len(b), NEW j \in 1..Len(b), b[i] = b[j] PROVE i = j
    <3>1. Held(t, i, b[i][1]) /\ Held(t, j, b[i][1]) /\ b[i][1] \in Tests
          /\ i \in Nat /\ j \in Nat
      BY <2>3, <2>4
    <3> QED
      BY <3>1 DEF Placed
  <2>5. ASSUME NEW i \in 1..Len(b) PROVE b[i] \notin reported
    <3>1. ~Shown(b[i][1])
      BY <2>3 DEF Placed, Pending
    <3>2. b[i] = <<b[i][1], b[i][2]>> /\ b[i][2] \in BOOLEAN
      BY <2>3
    <3> QED
      BY <3>1, <3>2 DEF Shown
  <2>6. IsFiniteSet(T) /\ Cardinality(T) = Len(b)
    BY <2>2, <2>4, DistinctCount
  <2>7. reported \cap T = {}
    BY <2>5
  <2>8. Cardinality(reported) \in Nat /\ Len(b) \in Nat
    BY <2>2, FS_CardinalityType DEF Tallied
  <2> HIDE DEF T
  <2>9. /\ IsFiniteSet(reported \cup T)
        /\ Cardinality(reported \cup T) = Cardinality(reported) + Cardinality(T)
                                          - Cardinality(reported \cap T)
    BY <2>6, FS_Union DEF Tallied
  <2>10. Cardinality(reported \cup T) = Cardinality(reported) + Len(b)
    <3>1. Cardinality(reported \cap T) = 0
      BY <2>7, FS_EmptySet
    <3> QED
      BY <2>6, <2>8, <2>9, <3>1
  <2> QED
    BY <2>1, <2>9, <2>10 DEF Tallied
<1>3. MasterStep \/ CollectStep \/ BarrierRelease => UNCHANGED <<io_index, reported>>
  BY DEF MasterStep, StartUp, Spawn, SpawnReturn, SpawnFail, Join, GlobalTeardown,
     Summary, CleanUp, CollectStep, Collect, AllocRecords, Distribute, GlobalSetup,
     BarrierRelease, ioVars
<1>4. ASSUME NEW t \in Threads, RunStep(t)
      PROVE  UNCHANGED <<io_index, reported>> \/ PrintBuffer(t)
  BY <1>4 DEF RunStep, TestInit, BeginTest, LoopDone, TestBody, SchedulePrint,
     AcquireIo, ReleaseIo, CheckResult, SignalAbort, PollAbort, ReduceLoop, Reduce,
     FreeLog, ioVars
<1> QED
  BY <1>1, <1>2, <1>3, <1>4 DEF Next, Finished, vars

\* No test has been judged initially.
LEMMA JudgedInit == Init => Judged
<1> SUFFICES ASSUME Init PROVE Judged
  OBVIOUS
<1>1. \A t \in Threads : pc[t] \notin InTest \cup Holding
  BY DEF Init, InTest, Holding
<1>2. \A k : ~HasFailed(k)
  BY DEF Init, HasFailed
<1> QED
  BY <1>1, <1>2 DEF Init, Judged, InTest

\* Every step keeps the results in agreement with the failed tests.
LEMMA JudgedNext ==
    ASSUME Typed, PhaseInv, SliceInv, Entries, Blank, Placed, Untouched, Judged,
           [Next]_vars
    PROVE  Judged'
<1>a. /\ pc \in [Threads -> Labels]
      /\ current \in [Threads -> CurrentType]
      /\ buffer \in [Threads -> Seq(Tests \X BOOLEAN)]
      /\ failedOn \in [Threads -> SUBSET Tests]
      /\ runs \in [Tests -> Nat]
  BY DEF Typed, Entries
<1>b. ASSUME failedOn' = failedOn PROVE \A k : HasFailed(k)' <=> HasFailed(k)
  BY <1>b DEF HasFailed
<1> DEFINE Same ==
       /\ UNCHANGED <<current, buffer, failedOn, reported, runs>>
       /\ \A t \in Threads : /\ pc'[t] = "body" => pc[t] = "body"
                             /\ pc'[t] \in InTest \ {"body"} => pc[t] \in InTest \ {"body"}
                             /\ pc'[t] \in Holding => \/ pc[t] \in Holding
                                                      \/ buffer[t] = <<>>
<1>1. CASE Same
  <2>1. \A k : HasFailed(k)' <=> HasFailed(k)
    BY <1>1, <1>b
  <2>2. /\ \A k \in Tests : HasFailed(k)' => runs'[k] # 0
        /\ \A k \in Tests, v \in BOOLEAN : <<k, v>> \in reported' => (v <=> ~HasFailed(k)')
    BY <1>1, <2>1 DEF Judged
  <2>3. ASSUME NEW t \in Threads
        PROVE  /\ pc'[t] = "body" => ~HasFailed(current[t].test)'
               /\ pc'[t] \in InTest \ {"body"} =>
                    (current[t].pass <=> ~HasFailed(current[t].test))
               /\ pc'[t] \in Holding => \A i \in 1..Len(buffer[t]) :
                    buffer[t][i][2] <=> ~HasFailed(buffer[t][i][1])
    BY <1>1, <2>1 DEF Judged
  <2> QED
    BY <1>1, <2>1, <2>2, <2>3 DEF Judged
<1>2. StartUp \/ SpawnReturn \/ Join \/ GlobalTeardown \/ Summary \/ CleanUp => Same
  BY <1>a, ThreadFacts DEF StartUp, SpawnReturn, Join, GlobalTeardown, Summary,
     CleanUp, Goto, InTest, Holding, runVars, ioVars
<1>3. Spawn \/ SpawnFail => Same
  BY <1>a, ThreadFacts DEF Spawn, SpawnFail, InTest, Holding, runVars, ioVars
<1>4. CollectStep => Same
  BY <1>a, ThreadFacts DEF CollectStep, Collect, AllocRecords, Distribute,
     GlobalSetup, Goto, InTest, Holding, runVars, ioVars
<1>5. BarrierRelease => Same
  BY DEF BarrierRelease, Released, Barriers, Blank, InTest, Holding, runVars, ioVars
<1>6. ASSUME NEW t \in Threads,
             \/ LoopDone(t) \/ AcquireIo(t) \/ SignalAbort(t) \/ PollAbort(t)
             \/ ReduceLoop(t) \/ Reduce(t) \/ FreeLog(t)
      PROVE  Same
  BY <1>6, <1>a DEF LoopDone, AcquireIo, SignalAbort, PollAbort, ReduceLoop, Reduce,
     FreeLog, Goto, InTest, Holding, runVars, ioVars
<1>7. ASSUME NEW t \in Threads, CheckResult(t) PROVE Same
  BY <1>7, <1>a, FlagAssumption
     DEF CheckResult, Succeeded, Goto, InTest, Holding, runVars, ioVars
<1>8. UNCHANGED vars => Same
  BY DEF vars
<1> HIDE DEF Same
<1>9. ASSUME NEW t \in Threads, TestInit(t) PROVE Judged'
  <2>1. /\ pc' = [pc EXCEPT ![t] = "setupBarrier"]
        /\ buffer' = [buffer EXCEPT ![t] = <<>>]
        /\ UNCHANGED <<runs, reported, current, failedOn>>
    BY <1>9 DEF TestInit, Goto, runVars
  <2>2. \A k : HasFailed(k)' <=> HasFailed(k)
    BY <1>b, <2>1
  <2>3. \A u \in Threads : u # t => pc'[u] = pc[u] /\ buffer'[u] = buffer[u]
    BY <1>a, <2>1
  <2>4. pc'[t] \notin InTest \cup Holding
    BY <1>a, <2>1 DEF InTest, Holding
  <2> QED
    BY <2>1, <2>2, <2>3, <2>4 DEF Judged, InTest
<1>10. ASSUME NEW t \in Threads, BeginTest(t) PROVE Judged'
  <2>1. PICK b \in Tests : b = thread_startidx[t] + begun[t]
    BY <1>10, FirstRun
  <2>2. runs[b] = 0 /\ runs' = [runs EXCEPT ![b] = 1]
    BY <1>10, <2>1, FirstRun
  <2>3. /\ pc[t] = "loop" /\ pc' = [pc EXCEPT ![t] = "body"]
        /\ current' = [current EXCEPT ![t] = [test |-> b, pass |-> TRUE, fatal |-> FALSE]]
        /\ UNCHANGED <<buffer, reported, failedOn>>
    BY <1>10, <2>1 DEF BeginTest, Goto, ioVars
  <2>4. \A u \in Threads : u # t => pc'[u] = pc[u] /\ current'[u] = current[u]
    BY <1>a, <2>3
  <2>5. pc'[t] = "body" /\ current'[t].test = b
    BY <1>a, <2>3
  <2>6. \A k : HasFailed(k)' <=> HasFailed(k)
    BY <1>b, <2>3
  <2>7. ~HasFailed(b) /\ \A k \in Tests : runs[k] # 0 => runs'[k] # 0
    BY <1>a, <2>2 DEF Judged
  <2> QED
    BY <2>3, <2>4, <2>5, <2>6, <2>7 DEF Judged, InTest, Holding
<1>11. ASSUME NEW t \in Threads, TestBody(t) PROVE Judged'
  <2>1. cldm_thread_id(t) = t /\ pc[t] = "body" /\ current[t].pass
    BY <1>11, OwnLog DEF TestBody, Untouched
  <2>2. PICK o \in Outcomes :
          /\ current' = [current EXCEPT
                 ![t].pass = @ /\ o.failed = 0,
                 ![t].fatal = @ \/ o.logged < o.failed]
          /\ failedOn' = [failedOn EXCEPT
                 ![t] = IF o.failed > 0 THEN @ \cup {current[t].test} ELSE @]
    BY <1>11, <2>1 DEF TestBody
  <2>3. /\ pc' = [pc EXCEPT ![t] = "schedule"]
        /\ UNCHANGED <<buffer, reported, runs>>
    BY <1>11 DEF TestBody, Goto, ioVars
  <2>4. PICK b \in Tests : b = current[t].test
    BY <2>1 DEF Entries, InTest
  <2>5. o.failed \in Nat
    BY OutcomeAssumption DEF OutcomeType
  <2>6. \A k : HasFailed(k)' <=> HasFailed(k) \/ (k = b /\ o.failed > 0)
    BY <1>a, <2>2, <2>4 DEF HasFailed
  <2>7. /\ current'[t].test = b /\ (current'[t].pass <=> o.failed = 0)
        /\ \A u \in Threads : u # t => current'[u] = current[u] /\ pc'[u] = pc[u]
        /\ pc'[t] = "schedule"
    BY <1>a, <2>1, <2>2, <2>3, <2>4 DEF CurrentType
  <2>8. Held(t, 0, b) /\ Pending(b)
    BY <2>1, <2>4 DEF Held, Pending, InTest
  <2>9. runs[b] # 0 /\ ~Shown(b) /\ ~HasFailed(b)
    BY <2>1, <2>4, <2>8 DEF Placed, Judged
  <2>10. ASSUME NEW u \in Threads, u # t, pc[u] \in InTest PROVE current[u].test # b
    BY <2>8, <2>10 DEF Placed, Held
  <2>11. ASSUME NEW u \in Threads, pc[u] \in Holding, NEW i \in 1..Len(buffer[u])
         PROVE  buffer[u][i][1] # b
    <3>1. i \in Nat /\ i # 0
      BY <1>a
    <3> QED
      BY <2>8, <2>11, <3>1 DEF Placed, Held
  <2>12. \A k \in Tests, v \in BOOLEAN : <<k, v>> \in reported => k # b
    BY <2>9 DEF Shown
  <2>13. \A k \in Tests : HasFailed(k)' => runs'[k] # 0
    BY <2>3, <2>6, <2>9 DEF Judged
  <2>14. \A k \in Tests, v \in BOOLEAN : <<k, v>> \in reported' => (v <=> ~HasFailed(k)')
    BY <2>3, <2>6, <2>12 DEF Judged
  <2>15. ASSUME NEW u \in Threads, pc'[u] \in Holding, NEW i \in 1..Len(buffer'[u])
         PROVE  buffer'[u][i][2] <=> ~HasFailed(buffer[u][i][1])'
    <3>1. pc[u] \in Holding
      BY <2>1, <2>7, <2>15 DEF Holding
    <3> QED
      BY <2>3, <2>6, <2>11, <2>15, <3>1 DEF Judged
  <2>16. ASSUME NEW u \in Threads
         PROVE  /\ pc'[u] = "body" => ~HasFailed(current[u].test)'
                /\ pc'[u] \in InTest \ {"body"} =>
                     (current'[u].pass <=> ~HasFailed(current[u].test)')
    <3>1. CASE u = t
      BY <2>5, <2>6, <2>7, <2>9, <3>1
    <3>2. CASE u # t
      BY <2>6, <2>7, <2>10, <3>2 DEF Judged, InTest
    <3> QED
      BY <3>1, <3>2
  <2> QED
    BY <2>13, <2>14, <2>15, <2>16 DEF Judged
<1>12. ASSUME NEW t \in Threads, SchedulePrint(t) \/ ReleaseIo(t) PROVE Judged'
  <2>1. /\ UNCHANGED <<current, failedOn, reported, runs>>
        /\ \/ pc[t] = "schedule" /\ pc' = [pc EXCEPT ![t] = "full"] /\ buffer' = buffer
           \/ /\ pc[t] = "releaseFlush" /\ pc' = [pc EXCEPT ![t] = "runBarrier"]
              /\ buffer' = buffer
           \/ /\ pc[t] \in {"schedule", "releaseFull"}
              /\ pc' = [pc EXCEPT ![t] = "check"]
              /\ \/ /\ pc[t] = "schedule"
                    /\ buffer' = [buffer EXCEPT ![t] = Append(@, Entry(t))]
                 \/ buffer' = [buffer EXCEPT ![t] = <<Entry(t)>>]
    BY <1>12 DEF SchedulePrint, ReleaseIo, Goto, runVars
  <2>2. \A k : HasFailed(k)' <=> HasFailed(k)
    BY <1>b, <2>1
  <2>3. \A u \in Threads : u # t => pc'[u] = pc[u] /\ buffer'[u] = buffer[u]
    BY <1>a, <2>1
  <2>4. /\ pc[t] \in {"schedule", "releaseFull", "releaseFlush"}
        /\ pc'[t] \in {"full", "runBarrier", "check"}
        /\ pc'[t] = "full" => pc[t] = "schedule"
    BY <1>a, <2>1
  <2>5. ASSUME NEW i \in 1..Len(buffer'[t]), pc'[t] \in Holding
        PROVE  buffer'[t][i][2] <=> ~HasFailed(buffer'[t][i][1])
    <3>1. CASE pc[t] = "schedule" /\ buffer' = buffer
      BY <2>5, <3>1 DEF Judged, Holding
    <3>2. Entry(t) = <<current[t].test, current[t].pass>>
      BY DEF Entry
    <3>3. pc[t] \in {"schedule", "releaseFull"} =>
             (Entry(t)[2] <=> ~HasFailed(Entry(t)[1]))
      BY <3>2 DEF Judged, InTest
    <3>4. CASE pc[t] = "schedule" /\ buffer' = [buffer EXCEPT ![t] = Append(@, Entry(t))]
      <4>1. buffer'[t] = Append(buffer[t], Entry(t)) /\ buffer[t] \in Seq(Tests \X BOOLEAN)
        BY <1>a, <3>4
      <4>2. buffer'[t][i] = Entry(t) \/ (i \in 1..Len(buffer[t]) /\ buffer'[t][i] = buffer[t][i])
        BY <2>5, <4>1
      <4> QED
        BY <3>3, <3>4, <4>2 DEF Judged, Holding
    <3>5. CASE pc[t] \in {"schedule", "releaseFull"} /\ buffer' = [buffer EXCEPT ![t] = <<Entry(t)>>]
      <4>1. buffer'[t] = <<Entry(t)>>
        BY <1>a, <3>5
      <4>2. buffer'[t][i] = Entry(t)
        BY <2>5, <4>1
      <4> QED
        BY <3>3, <3>5, <4>2
    <3>6. pc[t] # "releaseFlush" \/ pc'[t] \notin Holding
      BY <1>a, <2>1 DEF Holding
    <3> QED
      BY <2>1, <2>5, <3>1, <3>4, <3>5, <3>6
  <2>6. \A u \in Threads : pc'[u] \in Holding =>
           \A i \in 1..Len(buffer'[u]) : buffer'[u][i][2] <=> ~HasFailed(buffer[u][i][1])'
    BY <2>2, <2>3, <2>5 DEF Judged
  <2>7. \A u \in Threads :
           /\ pc'[u] = "body" => pc[u] = "body"
           /\ pc'[u] \in InTest \ {"body"} => pc[u] \in InTest \ {"body"}
    BY <2>3, <2>4 DEF InTest
  <2> QED
    BY <2>1, <2>2, <2>6, <2>7 DEF Judged
<1>13. ASSUME NEW t \in Threads, PrintBuffer(t) PROVE Judged'
  <2>1. /\ pc[t] \in {"printFull", "printFlush"}
        /\ pc' = [pc EXCEPT ![t] = IF pc[t] = "printFull" THEN "releaseFull"
                                   ELSE "releaseFlush"]
        /\ reported' = reported \cup {buffer[t][i] : i \in 1..Len(buffer[t])}
        /\ UNCHANGED <<buffer, current, runs, failedOn>>
    BY <1>13 DEF PrintBuffer, Goto, runVars
  <2>2. \A k : HasFailed(k)' <=> HasFailed(k)
    BY <1>b, <2>1
  <2>3. \A u \in Threads :
           /\ pc'[u] = "body" => pc[u] = "body"
           /\ pc'[u] \in InTest \ {"body"} => pc[u] \in InTest \ {"body"}
           /\ pc'[u] \in Holding => pc[u] \in Holding
    BY <1>a, <2>1 DEF InTest, Holding
  <2>4. ASSUME NEW k \in Tests, NEW v \in BOOLEAN, <<k, v>> \in reported'
        PROVE  v <=> ~HasFailed(k)
    <3>1. CASE <<k, v>> \in reported
      BY <3>1 DEF Judged
    <3>2. CASE \E i \in 1..Len(buffer[t]) : buffer[t][i] = <<k, v>>
      <4>1. PICK i \in 1..Len(buffer[t]) : buffer[t][i] = <<k, v>>
        BY <3>2
      <4>2. buffer[t][i][1] = k /\ buffer[t][i][2] = v
        BY <4>1
      <4>3. buffer[t][i][2] <=> ~HasFailed(buffer[t][i][1])
        BY <2>1 DEF Judged, Holding
      <4> QED
        BY <4>2, <4>3
    <3> QED
      BY <2>1, <2>4, <3>1, <3>2
  <2> QED
    BY <2>1, <2>2, <2>3, <2>4 DEF Judged
<1> QED
  BY <1>1, <1>2, <1>3, <1>4, <1>5, <1>6, <1>7, <1>8, <1>9, <1>10, <1>11, <1>12, <1>13
     DEF Next, MasterStep, RunStep, Finished

-----------------------------------------------------------------------------
(* What ends a loop early.                                                 *)

\* Nothing has failed initially.
LEMMA BlamedInit == Init => Blamed
  BY DEF Init, Blamed, NoTest, InTest

\* Every step that ends a loop early has a failed test behind it.
LEMMA BlamedNext ==
    ASSUME Typed, PhaseInv, Entries, Untouched, Blamed, [Next]_vars
    PROVE  Blamed'
<1>a. /\ pc \in [Threads -> Labels]
      /\ current \in [Threads -> CurrentType]
      /\ failedOn \in [Threads -> SUBSET Tests]
  BY DEF Typed, Entries
<1> DEFINE Tested == (InTest \ {"body"}) \cup {"check", "signal"}
           Same ==
             /\ UNCHANGED <<current, failedOn, early_abort>>
             /\ \A t \in Threads : /\ pc'[t] \in Tested => pc[t] \in Tested
                                   /\ pc'[t] = "signal" => pc[t] = "signal"
<1>1. CASE Same
  BY <1>1 DEF Blamed
<1>2. StartUp \/ SpawnReturn \/ Join \/ GlobalTeardown \/ Summary \/ CleanUp => Same
  BY <1>a, ThreadFacts DEF StartUp, SpawnReturn, Join, GlobalTeardown, Summary,
     CleanUp, Goto, InTest, runVars
<1>3. Spawn \/ SpawnFail => Same
  BY <1>a, ThreadFacts DEF Spawn, SpawnFail, InTest, runVars
<1>4. CollectStep => Same
  BY <1>a, ThreadFacts DEF CollectStep, Collect, AllocRecords, Distribute,
     GlobalSetup, Goto, InTest, runVars
<1>5. BarrierRelease => Same
  BY DEF BarrierRelease, Released, InTest, runVars
<1>6. ASSUME NEW t \in Threads,
             \/ TestInit(t) \/ LoopDone(t) \/ SchedulePrint(t) \/ AcquireIo(t)
             \/ PrintBuffer(t) \/ ReleaseIo(t) \/ PollAbort(t)
             \/ ReduceLoop(t) \/ Reduce(t) \/ FreeLog(t)
      PROVE  Same
  BY <1>6, <1>a DEF TestInit, LoopDone, SchedulePrint, AcquireIo, PrintBuffer,
     ReleaseIo, PollAbort, ReduceLoop, Reduce, FreeLog, Goto, InTest, runVars
<1>7. UNCHANGED vars => Same
  BY DEF vars
<1> HIDE DEF Same
<1>8. ASSUME NEW t \in Threads, BeginTest(t) PROVE Blamed'
  <2>1. /\ pc' = [pc EXCEPT ![t] = "body"]
        /\ current' = [current EXCEPT ![t] = [test |-> thread_startidx[t] + begun[t],
                                             pass |-> TRUE, fatal |-> FALSE]]
        /\ UNCHANGED <<failedOn, early_abort>>
    BY <1>8 DEF BeginTest, Goto
  <2>2. /\ pc'[t] = "body" /\ ~current'[t].fatal
        /\ \A u \in Threads : u # t => pc'[u] = pc[u] /\ current'[u] = current[u]
    BY <1>a, <2>1
  <2> QED
    BY <2>1, <2>2 DEF Blamed
<1>9. ASSUME NEW t \in Threads, TestBody(t) PROVE Blamed'
  <2>1. cldm_thread_id(t) = t /\ pc[t] = "body" /\ current[t].pass
    BY <1>9, OwnLog DEF TestBody, Untouched
  <2>2. PICK o \in Outcomes :
          /\ current' = [current EXCEPT
                 ![t].pass = @ /\ o.failed = 0,
                 ![t].fatal = @ \/ o.logged < o.failed]
          /\ failedOn' = [failedOn EXCEPT
                 ![t] = IF o.failed > 0 THEN @ \cup {current[t].test} ELSE @]
    BY <1>9, <2>1 DEF TestBody
  <2>3. pc' = [pc EXCEPT ![t] = "schedule"] /\ UNCHANGED early_abort
    BY <1>9 DEF TestBody, Goto
  <2>4. o.failed \in Nat /\ o.logged \in Nat
    BY OutcomeAssumption DEF OutcomeType
  <2>5. /\ \A u \in Threads : u # t => /\ pc'[u] = pc[u] /\ current'[u] = current[u]
                                      /\ failedOn'[u] = failedOn[u]
        /\ pc'[t] = "schedule"
    BY <1>a, <2>2, <2>3
  <2>6. /\ current'[t].pass <=> o.failed = 0
        /\ current'[t].fatal <=> current[t].fatal \/ o.logged < o.failed
    BY <1>a, <2>1, <2>2 DEF CurrentType
  <2>7. /\ o.failed > 0 => failedOn'[t] # {}
        /\ failedOn[t] # {} => failedOn'[t] # {}
    BY <1>a, <2>2
  <2>8. /\ current'[t].fatal => failedOn'[t] # {}
        /\ ~current'[t].pass => failedOn'[t] # {}
    BY <2>4, <2>6, <2>7 DEF Blamed
  <2>9. early_abort' => \E u \in Threads : failedOn'[u] # {}
    BY <2>3, <2>5, <2>7 DEF Blamed
  <2> QED
    BY <2>5, <2>8, <2>9 DEF Blamed
<1>10. ASSUME NEW t \in Threads, CheckResult(t) PROVE Blamed'
  <2>1. UNCHANGED <<current, failedOn, early_abort>> /\ pc[t] = "check"
    BY <1>10 DEF CheckResult, runVars
  <2>2. /\ pc'[t] \in {"loop", "poll", "signal", "flush"}
        /\ pc'[t] = "signal" => ~Succeeded(t)
        /\ \A u \in Threads : u # t => pc'[u] = pc[u]
    BY <1>10, <1>a, FlagAssumption DEF CheckResult, Succeeded, Goto
  <2>3. pc'[t] = "signal" => failedOn[t] # {}
    BY <2>1, <2>2 DEF Succeeded, Blamed
  <2> QED
    BY <2>1, <2>2, <2>3 DEF Blamed, InTest
<1>11. ASSUME NEW t \in Threads, SignalAbort(t) PROVE Blamed'
  <2>1. /\ UNCHANGED <<current, failedOn>> /\ pc[t] = "signal"
        /\ pc' = [pc EXCEPT ![t] = "flush"]
    BY <1>11 DEF SignalAbort, Goto, runVars
  <2>2. pc'[t] = "flush" /\ \A u \in Threads : u # t => pc'[u] = pc[u]
    BY <1>a, <2>1
  <2>3. failedOn[t] # {}
    BY <2>1 DEF Blamed
  <2> QED
    BY <2>1, <2>2, <2>3 DEF Blamed, InTest
<1> QED
  BY <1>1, <1>2, <1>3, <1>4, <1>5, <1>6, <1>7, <1>8, <1>9, <1>10, <1>11
     DEF Next, MasterStep, RunStep, Finished

-----------------------------------------------------------------------------
(* How far the run has got.                                                *)

\* The run starts with nothing done.
LEMMA AdvancedInit == Init => Advanced
  BY ThreadFacts DEF Init, Advanced

\* Every step keeps the status, the setup and the teardown in order.
LEMMA AdvancedNext ==
    ASSUME Typed, PhaseInv, Prepared, TornDown, Advanced, [Next]_vars
    PROVE  Advanced'
<1>a. pc \in [Threads -> Labels] /\ setups \in Nat /\ teardowns \in Nat
  BY DEF Typed
<1>b. pc[1] \in {"collect", "records", "distribute", "setup"} => pc[0] \notin {"exited", "returned"}
  <2>1. Early => pc[0] \notin {"exited", "returned"}
    BY ThreadFacts DEF Early, EarlyLabels
  <2> QED
    BY <2>1, MasterPhase
<1> DEFINE Over == {"cleanup", "returned", "exited"}
           Same ==
             /\ UNCHANGED <<status, auxprocs, records, setups, teardowns>>
             /\ pc'[0] \in Over <=> pc[0] \in Over
             /\ pc'[0] = "summary" => pc[0] = "summary"
             /\ pc[0] = "exited" => pc'[0] = "exited"
             /\ pc[0] = "returned" => pc'[0] = "returned"
             /\ pc[1] = "setup" => pc'[1] = "setup"
<1>1. CASE Same
  BY <1>1 DEF Advanced
<1>2. SpawnReturn \/ Join => Same
  BY <1>a, ThreadFacts DEF SpawnReturn, Join, Goto, distVars
<1>3. BarrierRelease => Same
  BY <1>a, ThreadFacts DEF BarrierRelease, Released, Barriers, distVars
<1>4. ASSUME NEW t \in Threads,
             \/ TestInit(t) \/ BeginTest(t) \/ LoopDone(t) \/ TestBody(t)
             \/ SchedulePrint(t) \/ AcquireIo(t) \/ PrintBuffer(t) \/ ReleaseIo(t)
             \/ SignalAbort(t) \/ PollAbort(t)
             \/ ReduceLoop(t) \/ Reduce(t) \/ FreeLog(t)
      PROVE  Same
  BY <1>4, <1>a, ThreadFacts DEF TestInit, BeginTest, LoopDone, TestBody,
     SchedulePrint, AcquireIo, PrintBuffer, ReleaseIo, SignalAbort, PollAbort,
     ReduceLoop, Reduce, FreeLog, Goto, distVars
<1>5. ASSUME NEW t \in Threads, CheckResult(t) PROVE Same
  BY <1>5, <1>a, FlagAssumption, ThreadFacts
     DEF CheckResult, Succeeded, Goto, distVars
<1>6. UNCHANGED vars => Same
  BY DEF vars
<1>7. Collect => Same
  BY <1>a, ThreadFacts DEF Collect, Goto
<1>8. Spawn => Same
  <2> SUFFICES ASSUME Spawn PROVE Same
    OBVIOUS
  <2>1. Early /\ pc[0] = "spawn"
    BY MasterPhase DEF Spawn
  <2>2. spawned + 1 \in Threads /\ spawned + 1 # 0 /\ pc[spawned + 1] = "off"
    BY <2>1, NextThread
  <2>3. /\ pc' = [pc EXCEPT ![0] = "create",
                            ![spawned + 1] = IF spawned + 1 = 1 THEN "collect" ELSE "init"]
        /\ UNCHANGED <<status, auxprocs, records, setups, teardowns>>
    BY DEF Spawn, distVars
  <2> QED
    BY <1>a, <2>1, <2>2, <2>3, ThreadFacts
<1> HIDE DEF Same
<1>9. CASE StartUp
  BY <1>9, <1>a, ThreadFacts DEF StartUp, Goto, distVars, Advanced
<1>10. CASE SpawnFail
  BY <1>10, <1>a, ThreadFacts DEF SpawnFail, distVars, Advanced
<1>11. CASE AllocRecords
  BY <1>11, <1>a, <1>b, ThreadFacts DEF AllocRecords, Goto, Advanced
<1>12. CASE Distribute
  BY <1>12, <1>a, <1>b, ThreadFacts DEF Distribute, Goto, Advanced, Prepared
<1>13. CASE GlobalSetup
  <2>1. setups = 0
    BY <1>13, <1>b DEF GlobalSetup, Prepared, Preparing
  <2> QED
    BY <1>13, <1>a, <2>1, ThreadFacts DEF GlobalSetup, Goto, distVars, Advanced
<1>14. CASE GlobalTeardown
  <2>1. teardowns = 0
    BY <1>14 DEF GlobalTeardown, TornDown
  <2> QED
    BY <1>14, <1>a, <2>1, ThreadFacts DEF GlobalTeardown, Goto, distVars, Advanced
<1>15. CASE Summary
  BY <1>15, <1>a, ThreadFacts DEF Summary, Goto, distVars, Advanced
<1>16. CASE CleanUp
  BY <1>16, <1>a, ThreadFacts DEF CleanUp, Goto, Advanced
<1> QED
  BY <1>1, <1>2, <1>3, <1>4, <1>5, <1>6, <1>7, <1>8, <1>9, <1>10, <1>11, <1>12,
     <1>13, <1>14, <1>15, <1>16 DEF Next, MasterStep, CollectStep, RunStep, Finished

\* No thread has left initially.
LEMMA AllReadyInit == Init => AllReady
  BY ThreadFacts DEF Init, AllReady, Left

\* Every step keeps the threads that leave initialised.
LEMMA AllReadyNext == Typed /\ PhaseInv /\ AllReady /\ [Next]_vars => AllReady'
<1> SUFFICES ASSUME Typed, PhaseInv, AllReady, [Next]_vars, "init" \notin Faults
             PROVE  \A t \in Threads : pc'[t] \in Left \cup {"setupBarrier"} => ok'[t]
  BY DEF AllReady
<1>a. pc \in [Threads -> Labels] /\ ok \in [Threads -> BOOLEAN]
  BY DEF Typed
<1> DEFINE Same == /\ ok' = ok
                   /\ \A t \in Threads : pc'[t] \in Left \cup {"setupBarrier"} =>
                          pc[t] \in Left \cup {"setupBarrier"} \/ ok[t]
<1>1. Same => \A t \in Threads : pc'[t] \in Left \cup {"setupBarrier"} => ok'[t]
  BY DEF AllReady
<1>2. StartUp \/ SpawnReturn \/ Join \/ GlobalTeardown \/ Summary \/ CleanUp => Same
  BY <1>a, ThreadFacts DEF StartUp, SpawnReturn, Join, GlobalTeardown, Summary,
     CleanUp, Goto, Left
<1>3. Spawn \/ SpawnFail => Same
  BY <1>a, ThreadFacts DEF Spawn, SpawnFail, Left
<1>4. CollectStep => Same
  BY <1>a, ThreadFacts DEF CollectStep, Collect, AllocRecords, Distribute,
     GlobalSetup, Goto, Left
<1>5. BarrierRelease => Same
  BY <1>a DEF BarrierRelease, Released, Barriers, Left
<1>6. ASSUME NEW t \in Threads,
             \/ BeginTest(t) \/ LoopDone(t) \/ TestBody(t) \/ SchedulePrint(t)
             \/ AcquireIo(t) \/ PrintBuffer(t) \/ ReleaseIo(t)
             \/ SignalAbort(t) \/ PollAbort(t) \/ Reduce(t)
      PROVE  Same
  BY <1>6, <1>a DEF BeginTest, LoopDone, TestBody, SchedulePrint, AcquireIo,
     PrintBuffer, ReleaseIo, SignalAbort, PollAbort, Reduce, Goto, Left
<1>7. ASSUME NEW t \in Threads, CheckResult(t) PROVE Same
  BY <1>7, <1>a, FlagAssumption DEF CheckResult, Succeeded, Goto, Left
<1>8. ASSUME NEW t \in Threads, ReduceLoop(t) \/ FreeLog(t) PROVE Same
  <2>1. Reducing \/ Ending
    BY <1>8, WhichPhase DEF ReduceLoop, FreeLog, Rounds
  <2>2. ok[t]
    BY <2>1 DEF Reducing, Ending
  <2> QED
    BY <1>8, <1>a, <2>2 DEF ReduceLoop, FreeLog, Goto
<1>9. ASSUME NEW t \in Threads, TestInit(t)
      PROVE  \A u \in Threads : pc'[u] \in Left \cup {"setupBarrier"} => ok'[u]
  <2>1. pc' = [pc EXCEPT ![t] = "setupBarrier"] /\ ok' = [ok EXCEPT ![t] = TRUE]
    BY <1>9 DEF TestInit, Goto
  <2> QED
    BY <1>a, <2>1 DEF AllReady
<1>10. UNCHANGED vars => Same
  BY DEF vars
<1> HIDE DEF Same
<1> QED
  BY <1>1, <1>2, <1>3, <1>4, <1>5, <1>6, <1>7, <1>8, <1>9, <1>10
     DEF Next, MasterStep, RunStep, Finished

-----------------------------------------------------------------------------
(* The theorems.                                                           *)

ReportInv == /\ RunInv
             /\ Covered /\ RanBegun /\ Through
             /\ Blank /\ Placed /\ Tallied /\ Judged
             /\ Blamed /\ Advanced /\ AllReady

\* The invariants of the report hold in every initial state.
LEMMA ReportInit == Init => ReportInv
<1>1. Init => RunInv
  BY TypedInit, PhaseInit, SliceInit, EntriesInit, LockedInit, PreparedInit,
     TornDownInit, UntouchedInit, WorkingInit, StoppingInit, AddedInit DEF RunInv
<1> QED
  BY <1>1, CoveredInit, RanBegunInit, ThroughInit, BlankInit, PlacedInit,
     TalliedInit, JudgedInit, BlamedInit, AdvancedInit, AllReadyInit DEF ReportInv

\* Every step keeps them.
LEMMA ReportNext == RunInv' /\ ReportInv /\ [Next]_vars => ReportInv'
<1> SUFFICES ASSUME RunInv', ReportInv, [Next]_vars PROVE ReportInv'
  OBVIOUS
<1>1. /\ Typed /\ PhaseInv /\ SliceInv /\ Entries /\ Prepared /\ TornDown /\ Untouched
      /\ Covered /\ RanBegun /\ Through /\ Blank /\ Placed /\ Tallied /\ Judged
      /\ Blamed /\ Advanced /\ AllReady
  BY DEF ReportInv, RunInv
<1>2. Covered' /\ RanBegun' /\ Through' /\ Blank'
  BY <1>1, CoveredNext, RanBegunNext, ThroughNext, BlankNext
<1>3. Placed' /\ Tallied' /\ Judged'
  BY <1>1, PlacedNext, TalliedNext, JudgedNext
<1>4. Blamed' /\ Advanced' /\ AllReady'
  BY <1>1, BlamedNext, AdvancedNext, AllReadyNext
<1> QED
  BY <1>2, <1>3, <1>4 DEF ReportInv

\* The invariants of the report hold in every reachable state.
THEOREM ReportHolds == Spec => []ReportInv
<1> QED
  BY ReportInit, ReportNext, RunHolds, PTL DEF Spec

\* The distribution leaves no test out: unless a failure cut the loops short,
\* every collected test has been run when the master reaches the joins of
\* cldm_parallel_run, for every number of tests and jobs.
THEOREM NoneSkipped == Spec => []NothingSkipped
<1>1. ReportInv => NothingSkipped
  <2> SUFFICES ASSUME ReportInv, pc[0] \in MasterTail, records, ok[0]
               PROVE  early_abort \/ SomeFatal \/ \A k \in Tests : runs[k] = 1
    BY DEF NothingSkipped
  <2>1. Typed /\ PhaseInv /\ SliceInv /\ Covered /\ RanBegun /\ Through
    BY DEF ReportInv, RunInv
  <2>2. Reducing \/ Ending
    BY <2>1, Settled
  <2>3. ~Reducing
    BY ThreadFacts DEF Reducing, Rounds, MasterTail
  <2> QED
    BY <2>1, <2>2, <2>3, NoneLeft
<1> QED
  BY <1>1, ReportHolds, PTL

\* Once the buffers have been flushed, every test that was run has been
\* printed once with its true verdict, and io_index counts the lines.
THEOREM ReportIsComplete == Spec => []ReportComplete
<1>1. ReportInv => ReportComplete
  <2> SUFFICES ASSUME ReportInv, pc[0] \in MasterTail \cup Rounds, ok[0]
               PROVE  /\ reported = {<<k, k \notin Failed>> :
                                         k \in {k \in Tests : runs[k] > 0}}
                      /\ io_index = Cardinality(reported)
    BY DEF ReportComplete, Rounds
  <2>1. Typed /\ PhaseInv /\ Entries /\ Placed /\ Judged /\ Tallied
    BY DEF ReportInv, RunInv
  <2>2. Reducing \/ Ending
    BY <2>1, Settled
  <2>3. \A t \in Threads : pc[t] \notin InTest \cup Holding
    BY <2>2 DEF Reducing, Ending, Rounds, Closing, InTest, Holding
  <2>4. \A k \in Tests : ~Pending(k)
    BY <2>3 DEF Pending, Held
  <2>5. \A k \in Tests : runs[k] > 0 <=> Shown(k)
    <3>1. \A k \in Tests : runs[k] # 0 <=> Shown(k)
      BY <2>1, <2>4 DEF Placed
    <3>2. \A k \in Tests : runs[k] \in Nat
      BY <2>1 DEF Typed
    <3> QED
      BY <3>1, <3>2
  <2>6. \A k : k \in Failed <=> HasFailed(k)
    BY DEF Failed, HasFailed
  <2>7. \A k \in Tests, v \in BOOLEAN : <<k, v>> \in reported => v = (k \notin Failed)
    BY <2>1, <2>6 DEF Judged
  <2>8. ASSUME NEW e \in reported
        PROVE  \E k \in {k \in Tests : runs[k] > 0} : e = <<k, k \notin Failed>>
    <3>1. PICK k \in Tests, v \in BOOLEAN : e = <<k, v>>
      BY <2>1 DEF Entries
    <3>2. Shown(k)
      BY <3>1 DEF Shown
    <3>3. v = (k \notin Failed)
      BY <2>7, <3>1
    <3> QED
      BY <2>5, <3>1, <3>2, <3>3
  <2>9. ASSUME NEW k \in Tests, runs[k] > 0
        PROVE  <<k, k \notin Failed>> \in reported
    <3>1. PICK v \in BOOLEAN : <<k, v>> \in reported
      BY <2>5, <2>9 DEF Shown
    <3>2. v = (k \notin Failed)
      BY <2>7, <3>1
    <3> QED
      BY <3>1, <3>2
  <2>10. reported = {<<k, k \notin Failed>> : k \in {k \in Tests : runs[k] > 0}}
    BY <2>8, <2>9
  <2> QED
    BY <2>1, <2>10 DEF Tallied
<1> QED
  BY <1>1, ReportHolds, PTL

-----------------------------------------------------------------------------
(* The parallel run implements TestRunner.                                 *)

\* A step that leaves the verdicts and the counters alone, and in which no
\* thread enters or leaves a test body, is not seen by TestRunner.
LEMMA Unseen ==
    ASSUME UNCHANGED <<runs, current, failedOn, status, setups, teardowns>>,
           \A t \in Threads : pc'[t] = "body" <=> pc[t] = "body"
    PROVE  UNCHANGED Runner!runnerVars
<1>1. Executed' = Executed
  BY DEF Executed
<1> QED
  BY <1>1 DEF Runner!runnerVars, Phase, Failed

\* No test has been run while the threads are being spawned.
LEMMA NothingRun ==
    ASSUME Typed, SliceInv, pc[0] \in {"start", "spawn"}
    PROVE  \A k \in Tests : runs[k] = 0
<1> SUFFICES ASSUME NEW k \in Tests PROVE runs[k] = 0
  OBVIOUS
<1>1. \A t \in Threads : begun[t] = 0
  BY DEF Fresh, SliceInv, Progress
<1>2. k \in Nat /\ runs[k] \in Nat /\ \A t \in Threads : thread_startidx[t] \in Nat
  BY TestsAssumption DEF Typed, Tests
<1>3. runs[k] # 1
  BY <1>1, <1>2 DEF SliceInv, RanOnce
<1> QED
  BY <1>2, <1>3 DEF SliceInv, RanOnce

\* An initial state of the parallel run is one of TestRunner.
LEMMA RunnerInit == Init => Runner!RunnerInit
<1> SUFFICES ASSUME Init PROVE Runner!RunnerInit
  OBVIOUS
<1>1. Executed = {} /\ Failed = {}
  BY DEF Init, Executed, Failed
<1> QED
  BY <1>1 DEF Init, Runner!RunnerInit, Phase

\* A test body that returns is the step that runs its test.
LEMMA BodyRuns ==
    ASSUME ReportInv, [Next]_vars, NEW t \in Threads, TestBody(t)
    PROVE  Runner!RunnerNext
<1>a. /\ Typed /\ PhaseInv /\ SliceInv /\ Entries /\ Untouched
      /\ Placed /\ Advanced /\ RunInv
  BY DEF ReportInv, RunInv
<1>b. /\ pc \in [Threads -> Labels]
      /\ current \in [Threads -> CurrentType]
      /\ failedOn \in [Threads -> SUBSET Tests]
      /\ runs \in [Tests -> Nat]
  BY <1>a DEF Typed, Entries
<1>1. /\ cldm_thread_id(t) = t /\ pc[t] = "body"
      /\ setups = 1 /\ teardowns = 0 /\ Running /\ ok[t]
  BY <1>a, OwnLog, InBrackets DEF TestBody, TestsBracketed
<1>2. PICK o \in Outcomes :
        /\ current' = [current EXCEPT
               ![t].pass = @ /\ o.failed = 0,
               ![t].fatal = @ \/ o.logged < o.failed]
        /\ failedOn' = [failedOn EXCEPT
               ![t] = IF o.failed > 0 THEN @ \cup {current[t].test} ELSE @]
  BY <1>1 DEF TestBody
<1>3. /\ pc' = [pc EXCEPT ![t] = "schedule"]
      /\ UNCHANGED <<runs, status, setups, teardowns>>
  BY DEF TestBody, Goto
<1>4. PICK b \in Tests : b = current[t].test
  BY <1>a, <1>1 DEF Entries, InTest
<1>5. /\ \A u \in Threads : current'[u].test = current[u].test
      /\ \A u \in Threads : u # t => pc'[u] = pc[u]
      /\ pc'[t] = "schedule"
  BY <1>b, <1>2, <1>3 DEF CurrentType
<1>6. Held(t, 0, b) /\ Pending(b)
  BY <1>1, <1>4 DEF Held, Pending, InTest
<1>7. ASSUME NEW u \in Threads, u # t, pc[u] = "body" PROVE current[u].test # b
  BY <1>a, <1>6, <1>7 DEF Placed, Held, InTest
<1>8. runs[b] > 0
  BY <1>a, <1>b, <1>6 DEF Placed
<1>9. b \notin Executed /\ Executed' = Executed \cup {b}
  BY <1>1, <1>3, <1>4, <1>5, <1>7, <1>8 DEF Executed
<1>10. Failed' \in {Failed, Failed \cup {b}}
  <2>1. \A u \in Threads : u # t => failedOn'[u] = failedOn[u]
    BY <1>b, <1>2
  <2>2. CASE failedOn'[t] = failedOn[t]
    BY <2>1, <2>2 DEF Failed
  <2>3. CASE failedOn'[t] = failedOn[t] \cup {b}
    BY <2>1, <2>3 DEF Failed
  <2> QED
    BY <1>b, <1>2, <1>4, <2>2, <2>3
<1>11. status = -1
  BY <1>a, <1>1, ThreadFacts DEF Running, Run, Closing, Advanced
<1>12. Phase = "running" /\ Phase' = "running"
  BY <1>1, <1>3, <1>11 DEF Phase
<1>13. Runner!RunTest(b)
  BY <1>3, <1>9, <1>10, <1>12 DEF Runner!RunTest
<1> QED
  BY <1>13 DEF Runner!RunnerNext

\* At the global teardown every test has been run or one has failed.
LEMMA TeardownAllowed ==
    ASSUME ReportInv, "init" \notin Faults, pc[0] = "teardown", auxprocs
    PROVE  /\ Phase = "running" /\ status = -1 /\ teardowns = 0
           /\ Executed = Tests \/ Failed # {}
<1>a. /\ Typed /\ PhaseInv /\ SliceInv /\ TornDown /\ Covered /\ RanBegun
      /\ Through /\ Blamed /\ Advanced /\ AllReady
  BY DEF ReportInv, RunInv
<1>1. ok[0]
  BY <1>a, ThreadFacts DEF AllReady, Left
<1>2. Reducing \/ Ending
  BY <1>a, <1>1, Settled DEF MasterTail
<1>3. Ending
  BY <1>2, ThreadFacts DEF Reducing, Rounds
<1>4. pc[1] # "setup" /\ \A t \in Threads : pc[t] # "body"
  BY <1>3, ThreadFacts DEF Ending, Closing
<1>5. setups = 1 /\ records /\ status = -1 /\ teardowns = 0
  BY <1>a, <1>4 DEF Advanced, TornDown
<1>6. early_abort \/ SomeFatal \/ \A k \in Tests : runs[k] = 1
  BY <1>a, <1>3, <1>5, NoneLeft DEF MasterTail
<1>7. early_abort \/ SomeFatal => Failed # {}
  BY <1>a DEF Blamed, SomeFatal, Failed
<1>8. (\A k \in Tests : runs[k] = 1) => Executed = Tests
  BY <1>4 DEF Executed
<1> QED
  BY <1>5, <1>6, <1>7, <1>8 DEF Phase

\* Unless cldm_test_init may fail, every step of the parallel run is a step
\* of TestRunner, or none.
LEMMA RunnerStep ==
    ASSUME ReportInv, Counted, "init" \notin Faults, [Next]_vars
    PROVE  [Runner!RunnerNext]_Runner!runnerVars
<1> SUFFICES Runner!RunnerNext \/ UNCHANGED Runner!runnerVars
  OBVIOUS
<1>a. /\ Typed /\ PhaseInv /\ SliceInv /\ Prepared /\ TornDown /\ Untouched
      /\ Added /\ Advanced /\ Judged
  BY DEF ReportInv, RunInv
<1>b. /\ pc \in [Threads -> Labels] /\ setups \in Nat /\ teardowns \in Nat
      /\ runs \in [Tests -> Nat] /\ current \in [Threads -> CurrentType]
  BY <1>a DEF Typed
<1> DEFINE Same ==
       /\ UNCHANGED <<runs, current, failedOn, status, setups, teardowns>>
       /\ \A t \in Threads : pc'[t] = "body" <=> pc[t] = "body"
<1>1. Same => UNCHANGED Runner!runnerVars
  BY Unseen
<1>2. SpawnReturn \/ Join \/ CleanUp => Same
  BY <1>b, ThreadFacts DEF SpawnReturn, Join, CleanUp, Goto, runVars
<1>3. Spawn => Same
  <2> SUFFICES ASSUME Spawn PROVE Same
    OBVIOUS
  <2>1. Early /\ pc[0] = "spawn"
    BY <1>a, MasterPhase DEF Spawn
  <2>2. spawned + 1 \in Threads /\ spawned + 1 # 0 /\ pc[spawned + 1] = "off"
    BY <1>a, <2>1, NextThread
  <2>3. /\ pc' = [pc EXCEPT ![0] = "create",
                            ![spawned + 1] = IF spawned + 1 = 1 THEN "collect" ELSE "init"]
        /\ UNCHANGED <<runs, current, failedOn, status, setups, teardowns>>
    BY DEF Spawn, runVars
  <2> QED
    BY <1>b, <2>1, <2>2, <2>3
<1>4. Collect \/ AllocRecords \/ Distribute => Same
  BY <1>b, ThreadFacts DEF Collect, AllocRecords, Distribute, Goto, runVars
<1>5. BarrierRelease => Same
  BY DEF BarrierRelease, Released, Barriers, runVars
<1>6. ASSUME NEW t \in Threads,
             \/ TestInit(t) \/ LoopDone(t) \/ SchedulePrint(t) \/ AcquireIo(t)
             \/ PrintBuffer(t) \/ ReleaseIo(t) \/ SignalAbort(t) \/ PollAbort(t)
             \/ ReduceLoop(t) \/ Reduce(t) \/ FreeLog(t)
      PROVE  Same
  BY <1>6, <1>b DEF TestInit, LoopDone, SchedulePrint, AcquireIo, PrintBuffer,
     ReleaseIo, SignalAbort, PollAbort, ReduceLoop, Reduce, FreeLog, Goto, runVars
<1>7. ASSUME NEW t \in Threads, CheckResult(t) PROVE Same
  BY <1>7, <1>b, FlagAssumption DEF CheckResult, Succeeded, Goto, runVars
<1>8. UNCHANGED vars => Same
  BY DEF vars
<1> HIDE DEF Same
<1>9. CASE StartUp \/ SpawnFail
  <2>1. /\ UNCHANGED <<runs, current, failedOn, setups, teardowns>>
        /\ status' \in {status, 1, 2} /\ pc[0] \in {"start", "spawn"}
        /\ \A t \in Threads : pc'[t] # "body"
    <3>1. CASE StartUp
      <4>1. pc[0] = "start" /\ Early
        BY <1>a, <3>1, MasterPhase DEF StartUp
      <4>2. \A t \in Threads : pc[t] # "body"
        BY <4>1 DEF Early, EarlyLabels
      <4> QED
        BY <1>b, <3>1, <4>2, ThreadFacts DEF StartUp, Goto, runVars
    <3>2. CASE SpawnFail
      BY <1>b, <3>2 DEF SpawnFail, runVars
    <3> QED
      BY <1>9, <3>1, <3>2
  <2>2. status = -1 /\ teardowns = 0
    BY <1>a, <2>1 DEF Advanced, TornDown
  <2>3. \A k \in Tests : runs[k] = 0
    BY <1>a, <2>1, NothingRun
  <2>4. Executed = {} /\ Executed' = {} /\ Failed' = Failed
    BY <2>1, <2>3 DEF Executed, Failed
  <2>5. CASE status' = status
    BY <2>1, <2>4, <2>5 DEF Runner!runnerVars, Phase
  <2>6. CASE status' \in {1, 2}
    <3>1. Phase \in {"idle", "running"} /\ Phase' = "over"
      BY <1>b, <2>2, <2>6 DEF Phase
    <3>2. Runner!GiveUp
      BY <2>4, <2>6, <3>1 DEF Runner!GiveUp
    <3> QED
      BY <3>2 DEF Runner!RunnerNext
  <2> QED
    BY <2>1, <2>5, <2>6
<1>10. CASE GlobalSetup
  <2>1. /\ UNCHANGED <<runs, current, failedOn, status, teardowns>>
        /\ setups' = setups + 1 /\ pc[1] = "setup"
        /\ \A t \in Threads : pc'[t] = "body" <=> pc[t] = "body"
    BY <1>b, <1>10, ThreadFacts DEF GlobalSetup, Goto, runVars
  <2>2. Early
    BY <1>a, <2>1, MasterPhase
  <2>3. pc[0] \in {"start", "spawn", "create", "init", "setupBarrier"}
    BY <2>2, ThreadFacts DEF Early, EarlyLabels
  <2>4. setups = 0 /\ teardowns = 0 /\ status = -1
    BY <1>a, <2>1, <2>3 DEF Prepared, Preparing, TornDown, Advanced
  <2>5. Executed' = Executed /\ Failed' = Failed
    BY <2>1 DEF Executed, Failed
  <2>6. Phase = "idle" /\ Phase' = "running"
    BY <2>1, <2>4 DEF Phase
  <2>7. Runner!SetUp
    BY <2>1, <2>5, <2>6 DEF Runner!SetUp
  <2> QED
    BY <2>7 DEF Runner!RunnerNext
<1>11. ASSUME NEW t \in Threads, BeginTest(t) PROVE UNCHANGED Runner!runnerVars
  <2>1. PICK b \in Tests : b = thread_startidx[t] + begun[t]
    BY <1>a, <1>11, FirstRun
  <2>2. runs[b] = 0 /\ runs' = [runs EXCEPT ![b] = 1]
    BY <1>a, <1>11, <2>1, FirstRun
  <2>3. /\ pc[t] = "loop" /\ pc' = [pc EXCEPT ![t] = "body"]
        /\ current' = [current EXCEPT ![t] = [test |-> b, pass |-> TRUE, fatal |-> FALSE]]
        /\ UNCHANGED <<failedOn, status, setups, teardowns>>
    BY <1>11, <2>1 DEF BeginTest, Goto
  <2>4. \A u \in Threads : u # t => pc'[u] = pc[u] /\ current'[u] = current[u]
    BY <1>b, <2>3
  <2>5. pc'[t] = "body" /\ current'[t].test = b
    BY <1>b, <2>3
  <2>6. \A k \in Tests : k # b => runs'[k] = runs[k]
    BY <1>b, <2>2
  <2>7. b \notin Executed /\ b \notin Executed'
    BY <2>2, <2>5 DEF Executed
  <2>8. \A k \in Tests : k # b => (k \in Executed' <=> k \in Executed)
    BY <2>3, <2>4, <2>5, <2>6 DEF Executed
  <2>9. Executed' = Executed
    <3>1. Executed \subseteq Tests /\ Executed' \subseteq Tests
      BY DEF Executed
    <3> QED
      BY <2>7, <2>8, <3>1
  <2> QED
    BY <2>3, <2>9 DEF Runner!runnerVars, Phase, Failed
<1>12. CASE GlobalTeardown
  <2>1. /\ UNCHANGED <<runs, current, failedOn, status, setups>> /\ pc[0] = "teardown"
        /\ \/ auxprocs /\ teardowns' = teardowns + 1
           \/ teardowns' = teardowns
        /\ \A t \in Threads : pc'[t] = "body" <=> pc[t] = "body"
    BY <1>b, <1>12, ThreadFacts DEF GlobalTeardown, Goto, runVars
  <2>2. CASE teardowns' = teardowns
    BY <2>1, <2>2, Unseen
  <2>3. CASE auxprocs /\ teardowns' = teardowns + 1
    <3>1. /\ Phase = "running" /\ status = -1 /\ teardowns = 0
          /\ Executed = Tests \/ Failed # {}
      BY <2>1, <2>3, TeardownAllowed
    <3>2. Executed' = Executed /\ Failed' = Failed
      BY <2>1 DEF Executed, Failed
    <3>3. Phase' = "down"
      BY <2>1, <2>3, <3>1 DEF Phase
    <3>4. Runner!TearDown
      BY <2>1, <3>1, <3>2, <3>3 DEF Runner!TearDown
    <3> QED
      BY <3>4 DEF Runner!RunnerNext
  <2> QED
    BY <2>1, <2>2, <2>3
<1>13. CASE Summary
  <2>1. /\ UNCHANGED <<runs, current, failedOn, setups, teardowns>>
        /\ pc[0] = "summary"
        /\ status' = IF log[0].failed_tests > 0 THEN 1 ELSE 0
        /\ \A t \in Threads : pc'[t] = "body" <=> pc[t] = "body"
    BY <1>b, <1>13, ThreadFacts DEF Summary, Goto, runVars
  <2>2. status = -1 /\ teardowns = 1
    BY <1>a, <2>1 DEF Advanced
  <2>3. log[0].failed_tests > 0 <=> Failed # {}
    <3>1. log[0].failed_tests > 0 <=> \E t \in Threads : failedOn[t] # {}
      BY <1>a, <2>1, SummaryReads
    <3> QED
      BY <3>1 DEF Failed
  <2>4. Executed' = Executed /\ Failed' = Failed
    BY <2>1 DEF Executed, Failed
  <2>5. Phase = "down" /\ Phase' = "over"
    BY <2>1, <2>2 DEF Phase
  <2>6. Runner!Report
    BY <2>1, <2>2, <2>3, <2>4, <2>5 DEF Runner!Report
  <2> QED
    BY <2>6 DEF Runner!RunnerNext
<1>14. ASSUME NEW t \in Threads, TestBody(t) PROVE Runner!RunnerNext
  BY <1>14, BodyRuns
<1> QED
  BY <1>1, <1>2, <1>3, <1>4, <1>5, <1>6, <1>7, <1>8, <1>9, <1>10, <1>11, <1>12,
     <1>13, <1>14 DEF Next, MasterStep, CollectStep, RunStep, Finished

\* With fewer jobs than CLDM_MAX_THREADS and logs that can be allocated, the
\* parallel runner promises what the sequential one does: each test is run at
\* most once between the global procedures, none is left out unless one has
\* failed, and the exit status says whether one failed.
THEOREM RunnerImplemented ==
    Jobs < MaxThreads /\ "init" \notin Faults => (Spec => ImplementsRunner)
<1> SUFFICES ASSUME Jobs < MaxThreads, "init" \notin Faults
             PROVE  Spec => ImplementsRunner
  OBVIOUS
<1>1. Init => Counted
  BY CountedInit
<1>2. RunInv /\ Counted /\ [Next]_vars => Counted'
  BY CountedNext, StrideInside DEF RunInv
<1>3. ReportInv /\ Counted /\ [Next]_vars => [Runner!RunnerNext]_Runner!runnerVars
  BY RunnerStep
<1> QED
  BY <1>1, <1>2, <1>3, RunnerInit, RunHolds, ReportHolds, PTL
     DEF Spec, ImplementsRunner, Runner!RunnerSpec

=============================================================================
