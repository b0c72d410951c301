--------------------------- MODULE SequentialRun ---------------------------
(***************************************************************************)
(* The single-threaded test runner, cldm_sequential.c, with the log of     *)
(* cldm_test.c at the grain of one assertion: the growth of the message    *)
(* buffer, the counters, the buffered progress report and the summary.     *)
(* With one job the mutex operations are dummies (cldm_thread_init), so    *)
(* no lock appears here.                                                   *)
(***************************************************************************)
EXTENDS Integers, Sequences, FiniteSets

CONSTANTS
    NTests,      \* the number of tests the collection yields
    BufferSize,  \* CLDM_TESTBUFFER_SIZE
    InitialCap,  \* CLDM_LOG_INITIAL_CAP
    MaxAsserts,  \* bound: assertions made by one test
    Faults       \* the calls that may fail: "collect", "malloc", "realloc"

Tests == 0..(NTests - 1)

ASSUME TestsAssumption  == NTests \in Nat
ASSUME BufferAssumption == BufferSize \in Nat \ {0}
\* ensure_capacity keeps one slot free and doubles, so it needs room for two.
ASSUME CapAssumption    == InitialCap \in Nat \ {0, 1}
ASSUME AssertAssumption == MaxAsserts \in Nat
ASSUME FaultsAssumption == Faults \subseteq {"collect", "malloc", "realloc"}

VARIABLES
    fail_fast, \* args->fail_fast, fixed from the start
    pc,        \* the statement executed next
    iter,      \* tests begun so far; test iter - 1 is the current one
    log,       \* testlogs[0]
    current,   \* current_tests[0]
    buffer,    \* buffered_tests[0]
    io_index, io_total,
    status,    \* exit status, -1 while the run goes on
    asserts,   \* assertions made by the current test, at most MaxAsserts
    \* History: runs of the global procedures, failed tests, printed lines.
    setups, teardowns, failed, reported

vars == <<fail_fast, pc, iter, log, current, buffer, io_index, io_total, status,
          asserts, setups, teardowns, failed, reported>>

Goto(label) == pc' = label

Init ==
    /\ fail_fast \in BOOLEAN
    /\ pc = "collect"
    /\ iter = 0
    /\ log = [failed_tests |-> 0, failed_assertions |-> 0,
              total_assertions |-> 0, size |-> 0, capacity |-> 0, mem |-> "null"]
    /\ current = [pass |-> FALSE, fatal |-> FALSE]
    /\ buffer = <<>>
    /\ io_index = 0
    /\ io_total = 0
    /\ status = -1
    /\ asserts = 0
    /\ setups = 0
    /\ teardowns = 0
    /\ failed = {}
    /\ reported = {}

-----------------------------------------------------------------------------
\* Collect the tests and register them, or return 1.
Collect ==
    /\ pc = "collect"
    /\ \/ io_total' = NTests /\ Goto("init") /\ UNCHANGED status
       \/ /\ "collect" \in Faults
          /\ status' = 1 /\ Goto("returned") /\ UNCHANGED io_total
    /\ UNCHANGED <<fail_fast, iter, log, current, buffer, io_index, asserts,
                   setups, teardowns, failed, reported>>

\* cldm_test_init(0): a fresh log, or return 1 when malloc fails.
TestInit ==
    /\ pc = "init"
    /\ \E m \in {"live"} \cup (IF "malloc" \in Faults THEN {"null"} ELSE {}) :
          /\ log' = [failed_tests |-> 0, failed_assertions |-> 0,
                     total_assertions |-> 0, size |-> 0,
                     capacity |-> InitialCap, mem |-> m]
          /\ status' = IF m = "live" THEN status ELSE 1
          /\ Goto(IF m = "live" THEN "setup" ELSE "returned")
    /\ buffer' = <<>>
    /\ UNCHANGED <<fail_fast, iter, current, io_index, io_total, asserts,
                   setups, teardowns, failed, reported>>

GlobalSetup ==
    /\ pc = "setup"
    /\ setups' = setups + 1
    /\ Goto("loop")
    /\ UNCHANGED <<fail_fast, iter, log, current, buffer, io_index, io_total,
                   status, asserts, teardowns, failed, reported>>

\* The next test of the tree in order: the head of cldm_test_run.
BeginTest ==
    /\ pc = "loop"
    /\ iter < NTests
    /\ iter' = iter + 1
    /\ current' = [pass |-> TRUE, fatal |-> FALSE]
    /\ asserts' = 0
    /\ Goto("body")
    /\ UNCHANGED <<fail_fast, log, buffer, io_index, io_total, status, setups,
                   teardowns, failed, reported>>

\* Slip: the iteration does not get past the last node of the tree.
LoopDoneStuck == pc = "loop" /\ iter >= NTests /\ UNCHANGED vars

LoopDone ==
    /\ pc = "loop"
    /\ iter >= NTests
    /\ Goto("teardown")
    /\ UNCHANGED <<fail_fast, iter, log, current, buffer, io_index, io_total,
                   status, asserts, setups, teardowns, failed, reported>>

-----------------------------------------------------------------------------
(* The assertions of the test body.                                        *)

AssertPass ==
    /\ pc = "body"
    /\ asserts < MaxAsserts
    /\ asserts' = asserts + 1
    /\ log' = [log EXCEPT !.total_assertions = @ + 1]
    /\ UNCHANGED <<fail_fast, pc, iter, current, buffer, io_index, io_total,
                   status, setups, teardowns, failed, reported>>

\* Slip: the buffer may be filled to its last slot before it grows.
HasRoomExact == log.size < log.capacity + 1

\* cldm_test_ensure_capacity: is there room without growing, and the
\* capacity after a successful call.
HasRoom  == log.size + 1 < log.capacity
Grown    == IF HasRoom THEN log.capacity ELSE 2 * log.capacity

\* Slip: every failed assertion counts a failed test.
RecordedEach == [log EXCEPT !.total_assertions = @ + 1,
                            !.failed_assertions = @ + 1,
                            !.failed_tests = @ + 1]

\* The counters every failed assertion updates (record_failed_assertion).
Recorded == [log EXCEPT !.total_assertions = @ + 1,
                        !.failed_assertions = @ + 1,
                        !.failed_tests = IF current.pass THEN @ + 1 ELSE @]

AssertFail ==
    /\ pc = "body"
    /\ asserts < MaxAsserts
    /\ asserts' = asserts + 1
    /\ failed' = failed \cup {iter - 1}
    /\ \/ /\ log' = [Recorded EXCEPT !.capacity = Grown, !.size = @ + 1]
          /\ current' = [current EXCEPT !.pass = FALSE]
       \/ /\ ~HasRoom
          /\ "realloc" \in Faults
          /\ log' = Recorded
          /\ current' = [pass |-> FALSE, fatal |-> TRUE]
    /\ UNCHANGED <<fail_fast, pc, iter, buffer, io_index, io_total, status,
                   setups, teardowns, reported>>

-----------------------------------------------------------------------------
\* cldm_test_print prints and counts every buffered result.
Printed == {buffer[i] : i \in 1..Len(buffer)}

\* Slips: a full buffer is discarded, a fatal error is not noticed, and
\* fail_fast is not looked at.
EndTestDrop ==
    /\ pc = "body"
    /\ buffer' = Append(IF Len(buffer) >= BufferSize THEN <<>> ELSE buffer,
                        <<iter - 1, current.pass>>)
    /\ Goto(IF ~current.fatal /\ (~fail_fast \/ current.pass)
            THEN "loop" ELSE "teardown")
    /\ UNCHANGED <<fail_fast, iter, log, current, io_index, io_total, status,
                   asserts, setups, teardowns, failed, reported>>

EndTestNoFatal ==
    /\ pc = "body"
    /\ buffer' = Append(buffer, <<iter - 1, current.pass>>)
    /\ Goto(IF ~fail_fast \/ current.pass THEN "loop" ELSE "teardown")
    /\ UNCHANGED <<fail_fast, iter, log, current, io_index, io_total, status,
                   asserts, setups, teardowns, failed, reported>>

EndTestGoOn ==
    /\ pc = "body"
    /\ buffer' = Append(buffer, <<iter - 1, current.pass>>)
    /\ Goto(IF ~current.fatal THEN "loop" ELSE "teardown")
    /\ UNCHANGED <<fail_fast, iter, log, current, io_index, io_total, status,
                   asserts, setups, teardowns, failed, reported>>

\* The end of cldm_test_run: buffer the result, printing a full buffer first,
\* and tell the loop whether to go on.
EndTest ==
    /\ pc = "body"
    /\ LET full == Len(buffer) >= BufferSize
       IN  /\ io_index' = IF full THEN io_index + Len(buffer) ELSE io_index
           /\ reported' = IF full THEN reported \cup Printed ELSE reported
           /\ buffer' = Append(IF full THEN <<>> ELSE buffer,
                               <<iter - 1, current.pass>>)
    /\ Goto(IF ~current.fatal /\ (~fail_fast \/ current.pass)
            THEN "loop" ELSE "teardown")
    /\ UNCHANGED <<fail_fast, iter, log, current, io_total, status, asserts,
                   setups, teardowns, failed>>

GlobalTeardown ==
    /\ pc = "teardown"
    /\ teardowns' = teardowns + 1
    /\ Goto("flush")
    /\ UNCHANGED <<fail_fast, iter, log, current, buffer, io_index, io_total,
                   status, asserts, setups, failed, reported>>

\* cldm_test_flush leaves the buffer as it is.
Flush ==
    /\ pc = "flush"
    /\ io_index' = io_index + Len(buffer)
    /\ reported' = reported \cup Printed
    /\ Goto("summary")
    /\ UNCHANGED <<fail_fast, iter, log, current, buffer, io_total, status,
                   asserts, setups, teardowns, failed>>

\* Slip: a single failed test is overlooked.
SummaryOffByOne ==
    /\ pc = "summary"
    /\ status' = IF log.failed_tests > 1 THEN 1 ELSE 0
    /\ log' = [log EXCEPT !.mem = "freed"]
    /\ Goto("returned")
    /\ UNCHANGED <<fail_fast, iter, current, buffer, io_index, io_total,
                   asserts, setups, teardowns, failed, reported>>

\* cldm_test_summary, cldm_test_free(0) and return.
Summary ==
    /\ pc = "summary"
    /\ status' = IF log.failed_tests > 0 THEN 1 ELSE 0
    /\ log' = [log EXCEPT !.mem = "freed"]
    /\ Goto("returned")
    /\ UNCHANGED <<fail_fast, iter, current, buffer, io_index, io_total,
                   asserts, setups, teardowns, failed, reported>>

Finished == pc = "returned" /\ UNCHANGED vars

Next ==
    \/ Collect \/ TestInit \/ GlobalSetup \/ BeginTest \/ LoopDone
    \/ AssertPass \/ AssertFail \/ EndTest
    \/ GlobalTeardown \/ Flush \/ Summary \/ Finished

Spec == Init /\ [][Next]_vars

\* The one thread runs, and a test body makes finitely many assertions.
FairSpec == Spec /\ WF_vars(Next)

-----------------------------------------------------------------------------
(* Correctness.                                                            *)

\* Every message written so far lies inside the buffer, after any number of
\* growths and failed growths.
MessagesInBounds == log.mem = "live" => log.size < log.capacity

\* However many of its assertions fail, a test counts once as failed.
FailedTestsExact == log.failed_tests = Cardinality(failed)

\* No failure message is lost unless the log could not grow, and then the
\* run ends with the test that lost it.
MessagesKept ==
    log.size # log.failed_assertions =>
        current.fatal /\ pc \notin {"loop", "collect", "init", "setup"}

\* With fail-fast only the last test begun can have failed.
FailFastStops == fail_fast => failed \subseteq {iter - 1}

\* Whatever ended the loop, each test begun has been printed once, with its
\* true verdict, when the summary is printed.
ReportComplete ==
    pc = "summary" =>
        /\ reported = {<<k, k \notin failed>> : k \in 0..(iter - 1)}
        /\ io_index = iter

Phase == IF status # -1 THEN "over"
         ELSE IF teardowns > 0 THEN "down"
         ELSE IF setups > 0 THEN "running" ELSE "idle"

\* A test counts as executed, and failed, once its body has returned.
Executed == 0..(iter - 1) \ (IF pc = "body" THEN {iter - 1} ELSE {})

Runner == INSTANCE TestRunner WITH
    phase    <- Phase,
    executed <- Executed,
    failing  <- failed \cap Executed,
    verdict  <- CASE status = -1 -> "none"
                  [] status = 0  -> "success"
                  [] OTHER       -> "failure"

\* The sequential run keeps the promises of TestRunner.
ImplementsRunner == Runner!RunnerSpec

\* The run ends with an exit status.
Termination == <>(status # -1)
=============================================================================
