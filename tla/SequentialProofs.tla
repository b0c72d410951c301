-------------------------- MODULE SequentialProofs --------------------------
(***************************************************************************)
(* The safety properties of the sequential runner, for every number of     *)
(* tests and assertions, every buffer size and every initial capacity of   *)
(* the log, and that it implements TestRunner.                             *)
(***************************************************************************)
EXTENDS SequentialRun, FiniteSetTheorems, TLAPS

Before == {"collect", "init", "setup"}
After  == {"flush", "summary"}
Places == Before \cup {"loop", "body", "teardown"} \cup After \cup {"returned"}

LogType == [failed_tests : Nat, failed_assertions : Nat, total_assertions : Nat,
            size : Nat, capacity : Nat, mem : {"null", "live", "freed"}]

Typed ==
    /\ fail_fast \in BOOLEAN
    /\ pc \in Places
    /\ iter \in 0..NTests
    /\ log \in LogType
    /\ current \in [pass : BOOLEAN, fatal : BOOLEAN]
    /\ buffer \in Seq(Tests \X BOOLEAN)
    /\ io_index \in Nat
    /\ asserts \in Nat
    /\ setups \in Nat
    /\ teardowns \in Nat
    /\ failed \in SUBSET (0..(iter - 1))

\* What the place of the thread says about the phase of the run.
Placed ==
    /\ pc \in Before => /\ iter = 0 /\ buffer = <<>> /\ reported = {} /\ io_index = 0
                        /\ setups = 0
    /\ pc \in {"loop", "body", "teardown"} \cup After => setups = 1
    /\ pc \in Before \cup {"loop", "body", "teardown"} => teardowns = 0
    /\ pc \in After => teardowns = 1
    /\ status \in IF pc = "returned" THEN {0, 1} ELSE {-1}
    /\ pc \in {"collect", "init"} => log.size = 0 /\ log.failed_assertions = 0
    /\ pc = "body" => iter > 0

\* The verdict on the last test begun, and what it means for the loop.
Judged ==
    /\ iter > 0 => (current.pass <=> iter - 1 \notin failed)
    /\ current.fatal => ~current.pass
    /\ pc = "loop" /\ iter > 0 => ~current.fatal /\ (fail_fast => current.pass)
    /\ pc = "teardown" \/ pc \in After => iter = NTests \/ failed # {}

\* How many tests have returned; these are printed or still buffered.
Returned == IF pc = "body" THEN iter - 1 ELSE iter

Verdicts(n) == {<<k, k \notin failed>> : k \in 0..(n - 1)}

Buffered ==
    pc \notin {"summary", "returned"} =>
        /\ reported \cup Printed = Verdicts(Returned)
        /\ io_index + Len(buffer) = Returned

-----------------------------------------------------------------------------
(* What the actions do to the buffer and the log.                          *)

\* The current test is one of the tests, so its result can be buffered.
LEMMA EntryType ==
    ASSUME Typed, Placed, pc = "body"
    PROVE  iter - 1 \in 0..(NTests - 1) /\ <<iter - 1, current.pass>> \in Tests \X BOOLEAN
<1>1. iter \in Nat /\ iter > 0 /\ iter <= NTests /\ NTests \in Nat
  BY TestsAssumption DEF Typed, Placed
<1>2. current.pass \in BOOLEAN
  BY DEF Typed
<1> QED
  BY <1>1, <1>2 DEF Tests

\* Setting one counter of a log changes nothing else in it.
LEMMA SetField ==
    ASSUME NEW r \in LogType, NEW n \in Nat
    PROVE  /\ [r EXCEPT !.total_assertions = n] =
                 [failed_tests |-> r.failed_tests,
                  failed_assertions |-> r.failed_assertions, total_assertions |-> n,
                  size |-> r.size, capacity |-> r.capacity, mem |-> r.mem]
           /\ [r EXCEPT !.failed_assertions = n] =
                 [failed_tests |-> r.failed_tests, failed_assertions |-> n,
                  total_assertions |-> r.total_assertions,
                  size |-> r.size, capacity |-> r.capacity, mem |-> r.mem]
           /\ [r EXCEPT !.failed_tests = n] =
                 [failed_tests |-> n, failed_assertions |-> r.failed_assertions,
                  total_assertions |-> r.total_assertions,
                  size |-> r.size, capacity |-> r.capacity, mem |-> r.mem]
           /\ [r EXCEPT !.capacity = n] =
                 [failed_tests |-> r.failed_tests,
                  failed_assertions |-> r.failed_assertions,
                  total_assertions |-> r.total_assertions,
                  size |-> r.size, capacity |-> n, mem |-> r.mem]
           /\ [r EXCEPT !.size = n] =
                 [failed_tests |-> r.failed_tests,
                  failed_assertions |-> r.failed_assertions,
                  total_assertions |-> r.total_assertions,
                  size |-> n, capacity |-> r.capacity, mem |-> r.mem]
  BY DEF LogType

\* The fields of a log have their types.
LEMMA LogFields ==
    ASSUME NEW r \in LogType
    PROVE  /\ r.failed_tests \in Nat /\ r.failed_assertions \in Nat
           /\ r.total_assertions \in Nat /\ r.size \in Nat /\ r.capacity \in Nat
  BY DEF LogType

\* What a failed assertion does to the log, before its message is written.
LEMMA RecordedFields ==
    ASSUME log \in LogType
    PROVE  /\ Recorded \in LogType
           /\ Recorded.failed_assertions = log.failed_assertions + 1
           /\ Recorded.failed_tests =
                 IF current.pass THEN log.failed_tests + 1 ELSE log.failed_tests
           /\ Recorded.size = log.size
           /\ Recorded.capacity = log.capacity
           /\ Recorded.mem = log.mem
<1> DEFINE n == IF current.pass THEN log.failed_tests + 1 ELSE log.failed_tests
           r1 == [log EXCEPT !.total_assertions = log.total_assertions + 1]
           r2 == [r1 EXCEPT !.failed_assertions = log.failed_assertions + 1]
           r3 == [r2 EXCEPT !.failed_tests = n]
<1>1. n \in Nat /\ log.total_assertions + 1 \in Nat /\ log.failed_assertions + 1 \in Nat
  BY LogFields
<1>2. Recorded = r3
  BY DEF Recorded
<1> HIDE DEF n, r1, r2, r3
<1>3. /\ r1 \in LogType /\ r1.failed_tests = log.failed_tests
      /\ r1.size = log.size /\ r1.capacity = log.capacity /\ r1.mem = log.mem
  BY <1>1, SetField DEF r1, LogType
<1>4. /\ r2 \in LogType /\ r2.failed_assertions = log.failed_assertions + 1
      /\ r2.size = log.size /\ r2.capacity = log.capacity /\ r2.mem = log.mem
  BY <1>1, <1>3, SetField DEF r2, LogType
<1>5. /\ r3 \in LogType /\ r3.failed_assertions = log.failed_assertions + 1
      /\ r3.failed_tests = n
      /\ r3.size = log.size /\ r3.capacity = log.capacity /\ r3.mem = log.mem
  BY <1>1, <1>4, SetField DEF r3, LogType
<1> QED
  BY <1>2, <1>5 DEF n

\* Writing the message of a failed assertion behind the others.
LEMMA LoggedFields ==
    ASSUME log \in LogType,
           log' = [Recorded EXCEPT !.capacity = Grown, !.size = @ + 1]
    PROVE  /\ log' \in LogType
           /\ log'.failed_assertions = log.failed_assertions + 1
           /\ log'.failed_tests =
                 IF current.pass THEN log.failed_tests + 1 ELSE log.failed_tests
           /\ log'.size = log.size + 1
           /\ log'.capacity = Grown
           /\ log'.mem = log.mem
<1> DEFINE r == Recorded
           r1 == [r EXCEPT !.capacity = Grown]
           r2 == [r1 EXCEPT !.size = r.size + 1]
<1>1. log' = r2
  OBVIOUS
<1>2. /\ r \in LogType
      /\ r.failed_assertions = log.failed_assertions + 1
      /\ r.failed_tests =
            IF current.pass THEN log.failed_tests + 1 ELSE log.failed_tests
      /\ r.size = log.size
      /\ r.mem = log.mem
  BY RecordedFields
<1> HIDE DEF r, r1, r2
<1>3. Grown \in Nat /\ r.size + 1 \in Nat
  BY <1>2, LogFields DEF Grown
<1>4. /\ r1 \in LogType /\ r1.failed_assertions = r.failed_assertions
      /\ r1.failed_tests = r.failed_tests
      /\ r1.size = r.size /\ r1.capacity = Grown /\ r1.mem = r.mem
  BY <1>2, <1>3, SetField DEF r1, LogType
<1>5. /\ r2 \in LogType /\ r2.failed_assertions = r.failed_assertions
      /\ r2.failed_tests = r.failed_tests
      /\ r2.size = r.size + 1 /\ r2.capacity = Grown /\ r2.mem = r.mem
  BY <1>3, <1>4, SetField DEF r2, LogType
<1> QED
  BY <1>1, <1>2, <1>5

\* What a failed assertion does to the log: its message is written, or the
\* log could not grow and the test is over.
LEMMA FailFields ==
    ASSUME Typed, AssertFail
    PROVE  /\ log' \in LogType
           /\ log'.failed_assertions = log.failed_assertions + 1
           /\ log'.failed_tests =
                 IF current.pass THEN log.failed_tests + 1 ELSE log.failed_tests
           /\ log'.mem = log.mem
           /\ \/ log'.size = log.size + 1 /\ log'.capacity = Grown
              \/ log'.size = log.size /\ log'.capacity = log.capacity /\ current'.fatal
           /\ current' \in [pass : BOOLEAN, fatal : BOOLEAN]
           /\ current'.pass = FALSE
           /\ current.fatal => current'.fatal
<1>1. log \in LogType /\ current \in [pass : BOOLEAN, fatal : BOOLEAN]
  BY DEF Typed
<1>2. CASE /\ log' = [Recorded EXCEPT !.capacity = Grown, !.size = @ + 1]
           /\ current' = [current EXCEPT !.pass = FALSE]
  <2>1. /\ current' \in [pass : BOOLEAN, fatal : BOOLEAN]
        /\ current'.pass = FALSE /\ current'.fatal = current.fatal
    BY <1>1, <1>2
  <2> QED
    BY <1>1, <1>2, <2>1, LoggedFields
<1>3. CASE log' = Recorded /\ current' = [pass |-> FALSE, fatal |-> TRUE]
  <2>1. /\ current' \in [pass : BOOLEAN, fatal : BOOLEAN]
        /\ current'.pass = FALSE /\ current'.fatal
    BY <1>3
  <2> QED
    BY <1>1, <1>3, <2>1, RecordedFields
<1> QED
  BY <1>2, <1>3 DEF AssertFail

\* The types hold initially.
LEMMA TypedInit == Init => Typed
  BY TestsAssumption DEF Init, Typed, Places, Before, LogType

\* Every step keeps the types.
LEMMA TypedNext == Typed /\ Placed /\ [Next]_vars => Typed'
<1> SUFFICES ASSUME Typed, Placed, [Next]_vars PROVE Typed'
  OBVIOUS
<1> USE TestsAssumption
<1>1. CASE Collect
  BY <1>1 DEF Collect, Goto, Typed, Places, Before
<1>2. CASE TestInit
  <2>1. log' \in LogType
    BY <1>2, CapAssumption DEF TestInit, LogType
  <2> QED
    BY <1>2, <2>1 DEF TestInit, Goto, Typed, Places, Before
<1>3. CASE GlobalSetup
  BY <1>3 DEF GlobalSetup, Goto, Typed, Places
<1>4. CASE BeginTest
  <2>1. iter' \in 0..NTests /\ failed' \in SUBSET (0..(iter' - 1))
    BY <1>4 DEF BeginTest, Typed
  <2> QED
    BY <1>4, <2>1 DEF BeginTest, Goto, Typed, Places
<1>5. CASE LoopDone
  BY <1>5 DEF LoopDone, Goto, Typed, Places
<1>6. CASE AssertPass
  <2>1. log' \in LogType
    <3>1. log \in LogType /\ log.total_assertions + 1 \in Nat
      BY LogFields DEF Typed
    <3>2. log' = [log EXCEPT !.total_assertions = log.total_assertions + 1]
      BY <1>6 DEF AssertPass
    <3> QED
      BY <3>1, <3>2, SetField DEF LogType
  <2> QED
    BY <1>6, <2>1 DEF AssertPass, Typed
<1>7. CASE AssertFail
  <2>1. log' \in LogType /\ current' \in [pass : BOOLEAN, fatal : BOOLEAN]
    BY <1>7, FailFields
  <2>2. iter - 1 \in 0..(iter - 1)
    BY <1>7 DEF AssertFail, Typed, Placed
  <2> QED
    BY <1>7, <2>1, <2>2 DEF AssertFail, Typed
<1>8. CASE EndTest
  <2>1. <<iter - 1, current.pass>> \in Tests \X BOOLEAN
    BY <1>8, EntryType DEF EndTest
  <2>2. buffer' \in Seq(Tests \X BOOLEAN)
    BY <1>8, <2>1 DEF EndTest, Typed
  <2>3. io_index' \in Nat
    BY <1>8 DEF EndTest, Typed
  <2> QED
    BY <1>8, <2>2, <2>3 DEF EndTest, Goto, Typed, Places
<1>9. CASE GlobalTeardown
  BY <1>9 DEF GlobalTeardown, Goto, Typed, Places, After
<1>10. CASE Flush
  BY <1>10 DEF Flush, Goto, Typed, Places, After
<1>11. CASE Summary
  <2>1. log' \in LogType
    BY <1>11 DEF Summary, Typed, LogType
  <2> QED
    BY <1>11, <2>1 DEF Summary, Goto, Typed, Places
<1>12. CASE UNCHANGED vars
  BY <1>12 DEF vars, Typed
<1> QED
  BY <1>1, <1>2, <1>3, <1>4, <1>5, <1>6, <1>7, <1>8, <1>9, <1>10, <1>11, <1>12
     DEF Next, Finished

\* The phases hold initially.
LEMMA PlacedInit == Init => Placed
  BY DEF Init, Placed, Before, After

\* Every step keeps the phases.
LEMMA PlacedNext == Typed /\ Placed /\ [Next]_vars => Placed'
<1> SUFFICES ASSUME Typed, Placed, [Next]_vars PROVE Placed'
  OBVIOUS
<1> USE DEF Placed, Before, After
<1>1. CASE Collect
  BY <1>1 DEF Collect, Goto
<1>2. CASE TestInit
  BY <1>2 DEF TestInit, Goto
<1>3. CASE GlobalSetup
  BY <1>3 DEF GlobalSetup, Goto
<1>4. CASE BeginTest
  BY <1>4 DEF BeginTest, Goto, Typed
<1>5. CASE LoopDone
  BY <1>5 DEF LoopDone, Goto
<1>6. CASE AssertPass \/ AssertFail
  BY <1>6 DEF AssertPass, AssertFail
<1>7. CASE EndTest
  BY <1>7 DEF EndTest, Goto
<1>8. CASE GlobalTeardown
  BY <1>8 DEF GlobalTeardown, Goto
<1>9. CASE Flush
  BY <1>9 DEF Flush, Goto
<1>10. CASE Summary
  BY <1>10 DEF Summary, Goto
<1>11. CASE UNCHANGED vars
  BY <1>11 DEF vars
<1> QED
  BY <1>1, <1>2, <1>3, <1>4, <1>5, <1>6, <1>7, <1>8, <1>9, <1>10, <1>11
     DEF Next, Finished

-----------------------------------------------------------------------------
(* The verdict on the current test.                                        *)

\* No test has begun initially.
LEMMA JudgedInit == Init => Judged
  BY DEF Init, Judged, After

\* Every step keeps the verdict.
LEMMA JudgedNext == Typed /\ Placed /\ Judged /\ [Next]_vars => Judged'
<1> SUFFICES ASSUME Typed, Placed, Judged, [Next]_vars PROVE Judged'
  OBVIOUS
<1>a. /\ iter \in Nat /\ iter <= NTests /\ NTests \in Nat
      /\ failed \in SUBSET (0..(iter - 1))
      /\ current \in [pass : BOOLEAN, fatal : BOOLEAN]
      /\ fail_fast \in BOOLEAN
  BY TestsAssumption DEF Typed
<1>1. CASE Collect \/ TestInit \/ GlobalSetup
  BY <1>1 DEF Collect, TestInit, GlobalSetup, Goto, Judged, Placed, Before, After
<1>2. CASE BeginTest
  <2>1. /\ iter' = iter + 1 /\ current' = [pass |-> TRUE, fatal |-> FALSE]
        /\ pc' = "body" /\ failed' = failed
    BY <1>2 DEF BeginTest, Goto
  <2>2. iter' - 1 \notin failed'
    BY <1>a, <2>1
  <2> QED
    BY <2>1, <2>2 DEF Judged, After
<1>3. CASE LoopDone
  BY <1>3, <1>a DEF LoopDone, Goto, Judged, After
<1>4. CASE AssertPass
  BY <1>4 DEF AssertPass, Judged
<1>5. CASE AssertFail
  <2>1. /\ pc' = "body" /\ iter' = iter /\ failed' = failed \cup {iter - 1}
        /\ current'.pass = FALSE
    BY <1>5, <1>a DEF AssertFail
  <2> QED
    BY <2>1 DEF Judged, After
<1>6. CASE EndTest
  <2>1. /\ pc = "body" /\ UNCHANGED <<iter, current, failed, fail_fast>>
        /\ pc' = IF ~current.fatal /\ (~fail_fast \/ current.pass)
                 THEN "loop" ELSE "teardown"
    BY <1>6 DEF EndTest, Goto
  <2>2. iter > 0
    BY <2>1 DEF Placed
  <2>3. ~current.pass => failed # {}
    BY <2>2 DEF Judged
  <2> QED
    BY <1>a, <2>1, <2>3 DEF Judged, After
<1>7. CASE GlobalTeardown \/ Flush \/ Summary
  BY <1>7 DEF GlobalTeardown, Flush, Summary, Goto, Judged, After
<1>8. CASE UNCHANGED vars
  BY <1>8 DEF vars, Judged
<1> QED
  BY <1>1, <1>2, <1>3, <1>4, <1>5, <1>6, <1>7, <1>8 DEF Next, Finished

-----------------------------------------------------------------------------
(* The report.                                                             *)

\* The entries of a sequence after one more has been appended.
LEMMA Appended ==
    ASSUME NEW S, NEW s \in Seq(S), NEW e \in S
    PROVE  /\ Len(Append(s, e)) = Len(s) + 1
           /\ {Append(s, e)[i] : i \in 1..Len(Append(s, e))}
                 = {s[i] : i \in 1..Len(s)} \cup {e}
<1>1. /\ Len(Append(s, e)) = Len(s) + 1 /\ Len(s) \in Nat
      /\ \A i \in 1..Len(s) : Append(s, e)[i] = s[i]
      /\ Append(s, e)[Len(s) + 1] = e
  OBVIOUS
<1>2. 1..(Len(s) + 1) = 1..Len(s) \cup {Len(s) + 1}
  BY <1>1
<1> QED
  BY <1>1, <1>2

\* Nothing has been printed initially.
LEMMA BufferedInit == Init => Buffered /\ ReportComplete
<1> SUFFICES ASSUME Init PROVE Buffered /\ ReportComplete
  OBVIOUS
<1>1. /\ reported = {} /\ buffer = <<>> /\ io_index = 0 /\ Returned = 0
      /\ pc = "collect"
  BY DEF Init, Returned
<1>2. Printed = {} /\ Verdicts(0) = {} /\ Len(buffer) = 0
  BY <1>1 DEF Printed, Verdicts
<1> QED
  BY <1>1, <1>2 DEF Buffered, ReportComplete

\* The result of the test that ends is the last of the verdicts.
LEMMA LastVerdict ==
    ASSUME Typed, Placed, Judged, pc = "body"
    PROVE  Verdicts(iter) = Verdicts(iter - 1) \cup {<<iter - 1, current.pass>>}
<1>1. iter \in Nat /\ iter > 0 /\ current.pass \in BOOLEAN
  BY DEF Typed, Placed
<1>2. current.pass = (iter - 1 \notin failed)
  BY <1>1 DEF Judged
<1>3. 0..(iter - 1) = 0..(iter - 1 - 1) \cup {iter - 1}
  BY <1>1
<1> QED
  BY <1>2, <1>3 DEF Verdicts

\* Every step keeps the report.
LEMMA BufferedNext ==
    Typed /\ Placed /\ Judged /\ Buffered /\ ReportComplete /\ [Next]_vars
      => Buffered' /\ ReportComplete'
<1> SUFFICES ASSUME Typed, Placed, Judged, Buffered, ReportComplete, [Next]_vars
             PROVE  Buffered' /\ ReportComplete'
  OBVIOUS
<1>a. /\ iter \in Nat /\ io_index \in Nat /\ buffer \in Seq(Tests \X BOOLEAN)
      /\ Len(buffer) \in Nat
  BY DEF Typed
<1>1. CASE Collect \/ GlobalSetup \/ LoopDone \/ AssertPass \/ GlobalTeardown
  <2>1. /\ UNCHANGED <<iter, buffer, io_index, reported, failed>>
        /\ pc \notin {"summary", "returned"} /\ pc' # "summary"
        /\ pc = "body" <=> pc' = "body"
    BY <1>1 DEF Collect, GlobalSetup, LoopDone, AssertPass, GlobalTeardown, Goto
  <2>2. Returned' = Returned /\ Printed' = Printed /\ Verdicts(Returned)' = Verdicts(Returned)
    BY <2>1 DEF Returned, Printed, Verdicts
  <2> QED
    BY <2>1, <2>2 DEF Buffered, ReportComplete
<1>2. CASE TestInit
  <2>1. /\ UNCHANGED <<iter, io_index, reported, failed>> /\ buffer' = <<>>
        /\ pc = "init" /\ pc' \in {"setup", "returned"}
    BY <1>2 DEF TestInit, Goto
  <2>2. buffer' = buffer
    BY <2>1 DEF Placed, Before
  <2>3. Returned' = Returned /\ Printed' = Printed /\ Verdicts(Returned)' = Verdicts(Returned)
    BY <2>1, <2>2 DEF Returned, Printed, Verdicts
  <2> QED
    BY <2>1, <2>2, <2>3 DEF Buffered, ReportComplete
<1>3. CASE BeginTest
  <2>1. /\ UNCHANGED <<buffer, io_index, reported, failed>> /\ iter' = iter + 1
        /\ pc = "loop" /\ pc' = "body"
    BY <1>3 DEF BeginTest, Goto
  <2>2. Returned' = Returned /\ Printed' = Printed
    BY <1>a, <2>1 DEF Returned, Printed
  <2>3. Verdicts(Returned)' = Verdicts(Returned)
    BY <2>1, <2>2 DEF Verdicts
  <2> QED
    BY <2>1, <2>2, <2>3 DEF Buffered, ReportComplete
<1>4. CASE AssertFail
  <2>1. /\ UNCHANGED <<pc, iter, buffer, io_index, reported>> /\ pc = "body"
        /\ failed' = failed \cup {iter - 1}
    BY <1>4 DEF AssertFail
  <2>2. Returned' = Returned /\ Printed' = Printed /\ Returned = iter - 1
    BY <2>1 DEF Returned, Printed
  <2>3. \A k \in 0..(iter - 1 - 1) : (k \notin failed') = (k \notin failed)
    BY <1>a, <2>1
  <2>4. Verdicts(Returned)' = Verdicts(Returned)
    BY <2>2, <2>3 DEF Verdicts
  <2> QED
    BY <2>1, <2>2, <2>4 DEF Buffered, ReportComplete
<1>5. CASE EndTest
  <2> DEFINE e == <<iter - 1, current.pass>>
             kept == IF Len(buffer) >= BufferSize THEN <<>> ELSE buffer
  <2>1. e \in Tests \X BOOLEAN
    BY <1>5, EntryType DEF EndTest
  <2>2. /\ pc = "body" /\ pc' \in {"loop", "teardown"}
        /\ UNCHANGED <<iter, failed>>
        /\ buffer' = Append(kept, e)
        /\ io_index' = IF Len(buffer) >= BufferSize
                       THEN io_index + Len(buffer) ELSE io_index
        /\ reported' = IF Len(buffer) >= BufferSize
                       THEN reported \cup Printed ELSE reported
    BY <1>5 DEF EndTest, Goto
  <2>3. kept \in Seq(Tests \X BOOLEAN) /\ Len(kept) \in Nat
    BY <1>a
  <2>4. Verdicts(iter) = Verdicts(iter - 1) \cup {e}
    BY <2>2, LastVerdict
  <2>5. Returned = iter - 1 /\ Returned' = iter /\ Verdicts(Returned)' = Verdicts(iter)
    BY <2>2 DEF Returned, Verdicts
  <2>6. reported \cup Printed = Verdicts(iter - 1) /\ io_index + Len(buffer) = iter - 1
    BY <2>2, <2>5 DEF Buffered
  <2>7. /\ reported' \cup {kept[i] : i \in 1..Len(kept)} = reported \cup Printed
        /\ io_index' + Len(kept) = io_index + Len(buffer)
    BY <1>a, <2>2 DEF Printed
  <2> HIDE DEF e, kept
  <2>8. /\ Len(buffer') = Len(kept) + 1
        /\ Printed' = {kept[i] : i \in 1..Len(kept)} \cup {e}
    <3>1. /\ Len(Append(kept, e)) = Len(kept) + 1
          /\ {Append(kept, e)[i] : i \in 1..Len(Append(kept, e))}
                = {kept[i] : i \in 1..Len(kept)} \cup {e}
      <4> DEFINE S == Tests \X BOOLEAN
      <4>1. kept \in Seq(S) /\ e \in S
        BY <2>1, <2>3
      <4> HIDE DEF S
      <4> QED
        BY <4>1, Appended
    <3> QED
      BY <2>2, <3>1 DEF Printed
  <2>9. reported' \cup Printed' = Verdicts(Returned)'
    BY <2>4, <2>5, <2>6, <2>7, <2>8
  <2>10. io_index' \in Nat
    BY <1>a, <2>2
  <2>11. io_index' + Len(buffer') = Returned'
    <3>1. io_index' + Len(kept) = iter - 1 /\ Returned' = iter
      BY <2>5, <2>6, <2>7
    <3>2. io_index' + (Len(kept) + 1) = iter
      BY <1>a, <2>3, <2>10, <3>1
    <3> QED
      BY <2>8, <3>1, <3>2
  <2> QED
    BY <2>2, <2>9, <2>11 DEF Buffered, ReportComplete
<1>6. CASE Flush
  <2>1. /\ pc = "flush" /\ pc' = "summary" /\ UNCHANGED <<iter, failed>>
        /\ io_index' = io_index + Len(buffer)
        /\ reported' = reported \cup Printed
    BY <1>6 DEF Flush, Goto
  <2>2. reported' = Verdicts(iter) /\ io_index' = iter
    BY <2>1 DEF Buffered, Returned
  <2> QED
    BY <2>1, <2>2 DEF Buffered, ReportComplete, Verdicts
<1>7. CASE Summary
  BY <1>7 DEF Summary, Goto, Buffered, ReportComplete
<1>8. CASE UNCHANGED vars
  BY <1>8 DEF vars, Buffered, ReportComplete, Returned, Printed, Verdicts
<1> QED
  BY <1>1, <1>2, <1>3, <1>4, <1>5, <1>6, <1>7, <1>8 DEF Next, Finished

-----------------------------------------------------------------------------
(* The log.                                                                *)

\* The counters of the log, the messages and the loop agree.
Logged == MessagesInBounds /\ FailedTestsExact /\ MessagesKept /\ FailFastStops

\* The log is empty initially.
LEMMA LoggedInit == Init => Logged
<1> SUFFICES ASSUME Init PROVE Logged
  OBVIOUS
<1>1. Cardinality({}) = 0
  BY FS_EmptySet
<1>2. /\ log.mem = "null" /\ log.failed_tests = 0 /\ log.size = log.failed_assertions
      /\ failed = {}
  BY DEF Init
<1> QED
  BY <1>1, <1>2
     DEF Logged, MessagesInBounds, FailedTestsExact, MessagesKept, FailFastStops

\* Counting one more failed test.
LEMMA CountFailed ==
    ASSUME Typed
    PROVE  /\ Cardinality(failed) \in Nat
           /\ iter - 1 \notin failed =>
                 Cardinality(failed \cup {iter - 1}) = Cardinality(failed) + 1
<1>1. IsFiniteSet(0..(iter - 1)) /\ failed \subseteq 0..(iter - 1)
  BY FS_Interval DEF Typed
<1>2. IsFiniteSet(failed)
  BY <1>1, FS_Subset
<1> QED
  BY <1>2, FS_CardinalityType, FS_AddElement

\* Every step keeps the log.
LEMMA LoggedNext == Typed /\ Placed /\ Judged /\ Logged /\ [Next]_vars => Logged'
<1> SUFFICES ASSUME Typed, Placed, Judged, Logged, [Next]_vars PROVE Logged'
  OBVIOUS
<1>a. /\ log \in LogType /\ iter \in Nat /\ fail_fast \in BOOLEAN
      /\ failed \in SUBSET (0..(iter - 1))
      /\ current \in [pass : BOOLEAN, fatal : BOOLEAN]
  BY DEF Typed
<1>b. /\ MessagesInBounds /\ FailedTestsExact /\ MessagesKept /\ FailFastStops
  BY DEF Logged
<1>c. /\ log.failed_tests \in Nat /\ log.failed_assertions \in Nat
      /\ log.size \in Nat /\ log.capacity \in Nat
  BY <1>a, LogFields
<1>1. CASE Collect \/ GlobalSetup \/ LoopDone \/ GlobalTeardown \/ Flush
  BY <1>1, <1>b DEF Collect, GlobalSetup, LoopDone, GlobalTeardown, Flush, Goto,
     Logged, MessagesInBounds, FailedTestsExact, MessagesKept, FailFastStops
<1>2. CASE TestInit
  <2>1. /\ log'.failed_tests = 0 /\ log'.failed_assertions = 0 /\ log'.size = 0
        /\ log'.capacity = InitialCap
        /\ UNCHANGED <<failed, iter, fail_fast>> /\ pc = "init"
    BY <1>2 DEF TestInit
  <2>2. failed = {}
    BY <1>a, <2>1 DEF Placed, Before
  <2>3. Cardinality(failed) = 0
    BY <2>2, FS_EmptySet
  <2> QED
    BY <2>1, <2>2, <2>3, CapAssumption
       DEF Logged, MessagesInBounds, FailedTestsExact, MessagesKept, FailFastStops
<1>3. CASE BeginTest
  <2>1. /\ pc = "loop" /\ UNCHANGED <<log, failed, fail_fast>> /\ iter' = iter + 1
    BY <1>3 DEF BeginTest
  <2>2. log.size = log.failed_assertions
    BY <1>b, <2>1 DEF MessagesKept
  <2>3. ASSUME fail_fast PROVE failed = {}
    <3>1. failed \subseteq {iter - 1}
      BY <1>b, <2>3 DEF FailFastStops
    <3>2. iter > 0 => iter - 1 \notin failed
      BY <2>1, <2>3 DEF Judged
    <3> QED
      BY <1>a, <3>1, <3>2
  <2> QED
    BY <1>b, <2>1, <2>2, <2>3
       DEF Logged, MessagesInBounds, FailedTestsExact, MessagesKept, FailFastStops
<1>4. CASE AssertPass
  <2>1. /\ log'.failed_tests = log.failed_tests /\ log'.mem = log.mem
        /\ log'.failed_assertions = log.failed_assertions
        /\ log'.size = log.size /\ log'.capacity = log.capacity
    <3>1. log.total_assertions + 1 \in Nat
      BY <1>a, LogFields
    <3>2. log' = [log EXCEPT !.total_assertions = log.total_assertions + 1]
      BY <1>4 DEF AssertPass
    <3> QED
      BY <1>a, <3>1, <3>2, SetField
  <2>2. UNCHANGED <<pc, current, failed, iter, fail_fast>>
    BY <1>4 DEF AssertPass
  <2> QED
    BY <1>b, <2>1, <2>2
       DEF Logged, MessagesInBounds, FailedTestsExact, MessagesKept, FailFastStops
<1>5. CASE AssertFail
  <2>1. /\ pc = "body" /\ UNCHANGED <<pc, iter, fail_fast>>
        /\ failed' = failed \cup {iter - 1}
    BY <1>5 DEF AssertFail
  <2>2. /\ log'.failed_assertions = log.failed_assertions + 1
        /\ log'.failed_tests =
              IF current.pass THEN log.failed_tests + 1 ELSE log.failed_tests
        /\ log'.mem = log.mem
        /\ \/ log'.size = log.size + 1 /\ log'.capacity = Grown
           \/ log'.size = log.size /\ log'.capacity = log.capacity /\ current'.fatal
        /\ current.fatal => current'.fatal
    BY <1>5, FailFields
  <2>3. MessagesInBounds'
    BY <1>b, <1>c, <2>2 DEF MessagesInBounds, Grown, HasRoom
  <2>4. FailedTestsExact'
    <3>1. current.pass <=> iter - 1 \notin failed
      BY <2>1 DEF Placed, Judged
    <3>2. CASE current.pass
      BY <1>b, <2>1, <2>2, <3>1, <3>2, CountFailed DEF FailedTestsExact
    <3>3. CASE ~current.pass
      <4>1. failed' = failed
        BY <2>1, <3>1, <3>3
      <4> QED
        BY <1>b, <2>2, <3>3, <4>1 DEF FailedTestsExact
    <3> QED
      BY <3>2, <3>3
  <2>5. MessagesKept'
    BY <1>b, <1>c, <2>1, <2>2 DEF MessagesKept
  <2>6. FailFastStops'
    BY <1>b, <2>1 DEF FailFastStops
  <2> QED
    BY <2>3, <2>4, <2>5, <2>6 DEF Logged
<1>6. CASE EndTest
  BY <1>6, <1>b DEF EndTest, Goto, Logged, MessagesInBounds, FailedTestsExact,
     MessagesKept, FailFastStops
<1>7. CASE Summary
  <2>1. /\ log'.mem = "freed" /\ log'.failed_tests = log.failed_tests
        /\ log'.failed_assertions = log.failed_assertions /\ log'.size = log.size
    BY <1>7, <1>a DEF Summary, LogType
  <2>2. pc = "summary" /\ pc' = "returned" /\ UNCHANGED <<current, failed, iter, fail_fast>>
    BY <1>7 DEF Summary, Goto
  <2> QED
    BY <1>b, <2>1, <2>2
       DEF Logged, MessagesInBounds, FailedTestsExact, MessagesKept, FailFastStops
<1>8. CASE UNCHANGED vars
  BY <1>8, <1>b DEF vars, Logged, MessagesInBounds, FailedTestsExact,
     MessagesKept, FailFastStops
<1> QED
  BY <1>1, <1>2, <1>3, <1>4, <1>5, <1>6, <1>7, <1>8 DEF Next, Finished

-----------------------------------------------------------------------------
\* The parts hold together in every reachable state.
SeqInv == Typed /\ Placed /\ Judged /\ Buffered /\ ReportComplete /\ Logged

\* Every step keeps the invariant.
LEMMA SeqNext == SeqInv /\ [Next]_vars => SeqInv'
  BY TypedNext, PlacedNext, JudgedNext, BufferedNext, LoggedNext DEF SeqInv

\* The inductive invariant holds in every reachable state.
THEOREM SeqHolds == Spec => []SeqInv
<1>1. Init => SeqInv
  BY TypedInit, PlacedInit, JudgedInit, BufferedInit, LoggedInit DEF SeqInv
<1> QED
  BY <1>1, SeqNext, PTL DEF Spec

\* The messages written by record_failed_assertion stay inside the buffer of
\* the log, whatever its initial capacity and however often it has grown or
\* failed to grow.
THEOREM MessagesFit == Spec => []MessagesInBounds
<1>1. SeqInv => MessagesInBounds
  BY DEF SeqInv, Logged
<1> QED
  BY <1>1, SeqHolds, PTL

\* The number of failed tests the summary prints is the number of tests of
\* which at least one assertion failed.
THEOREM FailedCounted == Spec => []FailedTestsExact
<1>1. SeqInv => FailedTestsExact
  BY DEF SeqInv, Logged
<1> QED
  BY <1>1, SeqHolds, PTL

\* A message is lost only by a failing realloc, and then no further test runs.
THEOREM NoMessageLost == Spec => []MessagesKept
<1>1. SeqInv => MessagesKept
  BY DEF SeqInv, Logged
<1> QED
  BY <1>1, SeqHolds, PTL

\* With fail-fast no test is begun after one that failed.
THEOREM StopsAtFailure == Spec => []FailFastStops
<1>1. SeqInv => FailFastStops
  BY DEF SeqInv, Logged
<1> QED
  BY <1>1, SeqHolds, PTL

\* For every number of tests and size of the report buffer, each test begun
\* has been printed once with its verdict when the summary is printed.
THEOREM ReportIsComplete == Spec => []ReportComplete
<1>1. SeqInv => ReportComplete
  BY DEF SeqInv
<1> QED
  BY <1>1, SeqHolds, PTL

-----------------------------------------------------------------------------
(* The sequential runner implements TestRunner.                            *)

\* The tests whose bodies have returned are those before the current one.
LEMMA ExecutedTests ==
    ASSUME Typed, Placed
    PROVE  Executed = 0..(Returned - 1)
<1>1. iter \in Nat /\ (pc = "body" => iter > 0)
  BY DEF Typed, Placed
<1> QED
  BY <1>1 DEF Executed, Returned

\* A step that neither ends a test nor changes the phase is not seen.
LEMMA Unseen ==
    ASSUME Executed' = Executed, (failed \cap Executed)' = failed \cap Executed,
           UNCHANGED <<status, teardowns, setups>>
    PROVE  UNCHANGED Runner!runnerVars
  BY DEF Runner!runnerVars, Phase

\* An initial state of the runner is one of TestRunner.
LEMMA RunnerInit == Init => Runner!RunnerInit
<1> SUFFICES ASSUME Init PROVE Runner!RunnerInit
  OBVIOUS
<1>1. Executed = {}
  BY DEF Init, Executed
<1> QED
  BY <1>1 DEF Init, Runner!RunnerInit, Phase

\* Every step of the runner is a step of TestRunner, or none.
LEMMA RunnerStep ==
    SeqInv /\ [Next]_vars => [Runner!RunnerNext]_Runner!runnerVars
<1> SUFFICES ASSUME SeqInv, [Next]_vars
             PROVE  Runner!RunnerNext \/ UNCHANGED Runner!runnerVars
  OBVIOUS
<1>a. Typed /\ Placed /\ Judged /\ FailedTestsExact
  BY DEF SeqInv, Logged
<1>b. Typed' /\ Placed'
  BY SeqNext DEF SeqInv
<1>c. Executed = 0..(Returned - 1) /\ Executed' = 0..(Returned' - 1)
  <2>1. Executed = 0..(Returned - 1)
    BY <1>a, ExecutedTests
  <2>2. iter' \in Nat /\ (pc' = "body" => iter' > 0)
    BY <1>b DEF Typed, Placed
  <2> QED
    BY <2>1, <2>2 DEF Executed, Returned
<1>d. iter \in Nat /\ failed \in SUBSET (0..(iter - 1))
  BY <1>a DEF Typed
<1>1. CASE Collect \/ TestInit
  <2>1. /\ UNCHANGED <<iter, failed, setups, teardowns>>
        /\ pc \in Before /\ pc' # "body"
        /\ status' \in {status, 1}
    BY <1>1 DEF Collect, TestInit, Goto, Before
  <2>2. iter = 0 /\ setups = 0 /\ teardowns = 0 /\ status = -1
    BY <1>a, <2>1 DEF Placed, Before
  <2>3. Executed = {} /\ Executed' = {}
    BY <1>c, <2>1, <2>2 DEF Returned, Before
  <2>4. CASE status' = status
    BY <2>1, <2>3, <2>4, Unseen
  <2>5. CASE status' = 1
    <3>1. Phase = "idle" /\ Phase' = "over"
      BY <2>1, <2>2, <2>5 DEF Phase
    <3>2. Runner!GiveUp
      BY <2>1, <2>2, <2>3, <2>5, <3>1 DEF Runner!GiveUp
    <3> QED
      BY <3>2 DEF Runner!RunnerNext
  <2> QED
    BY <2>1, <2>4, <2>5
<1>2. CASE GlobalSetup
  <2>1. /\ UNCHANGED <<iter, failed, status, teardowns>> /\ setups' = setups + 1
        /\ pc = "setup" /\ pc' = "loop"
    BY <1>2 DEF GlobalSetup, Goto
  <2>2. Executed' = Executed
    BY <1>c, <2>1 DEF Returned
  <2>3. Phase = "idle" /\ Phase' = "running"
    BY <1>a, <2>1 DEF Placed, Phase, Before
  <2>4. Runner!SetUp
    BY <2>1, <2>2, <2>3 DEF Runner!SetUp
  <2> QED
    BY <2>4 DEF Runner!RunnerNext
<1>3. CASE BeginTest \/ LoopDone \/ AssertPass \/ AssertFail \/ Flush
  <2>1. /\ UNCHANGED <<status, teardowns, setups>>
        /\ Returned' = Returned
        /\ failed' = failed \/ (pc = "body" /\ failed' = failed \cup {iter - 1})
    BY <1>3, <1>d DEF BeginTest, LoopDone, AssertPass, AssertFail, Flush, Goto, Returned
  <2>2. Executed' = Executed
    BY <1>c, <2>1
  <2>3. failed' \cap Executed = failed \cap Executed
    BY <1>c, <1>d, <2>1 DEF Returned
  <2> QED
    BY <2>1, <2>2, <2>3, Unseen
<1>4. CASE EndTest
  <2> DEFINE k == iter - 1
  <2>1. /\ pc = "body" /\ pc' # "body"
        /\ UNCHANGED <<iter, failed, status, setups, teardowns>>
    BY <1>4 DEF EndTest, Goto
  <2>2. k \in Tests
    BY <1>a, <2>1, EntryType DEF Tests
  <2>3. k \notin Executed /\ Executed' = Executed \cup {k}
    BY <1>a, <1>c, <1>d, <2>1 DEF Returned, Placed
  <2>4. Phase = "running" /\ Phase' = "running" /\ status = -1
    BY <1>a, <2>1 DEF Placed, Phase
  <2>5. failed \cap Executed' \in {failed \cap Executed, (failed \cap Executed) \cup {k}}
    BY <2>3
  <2>6. Runner!RunTest(k)
    BY <2>1, <2>3, <2>4, <2>5 DEF Runner!RunTest
  <2> QED
    BY <2>2, <2>6 DEF Runner!RunnerNext
<1>5. CASE GlobalTeardown
  <2>1. /\ UNCHANGED <<iter, failed, status, setups>> /\ teardowns' = teardowns + 1
        /\ pc = "teardown" /\ pc' = "flush"
    BY <1>5 DEF GlobalTeardown, Goto
  <2>2. Executed = 0..(iter - 1) /\ Executed' = Executed
    BY <1>c, <2>1 DEF Returned
  <2>3. Executed = Tests \/ failed \cap Executed # {}
    BY <1>a, <1>d, <2>1, <2>2 DEF Judged, Tests
  <2>4. Phase = "running" /\ Phase' = "down"
    BY <1>a, <2>1 DEF Placed, Phase
  <2>5. Runner!TearDown
    BY <2>1, <2>2, <2>3, <2>4 DEF Runner!TearDown
  <2> QED
    BY <2>5 DEF Runner!RunnerNext
<1>6. CASE Summary
  <2>1. /\ UNCHANGED <<iter, failed, setups, teardowns>>
        /\ status' = IF log.failed_tests > 0 THEN 1 ELSE 0
        /\ pc = "summary" /\ pc' = "returned"
    BY <1>6 DEF Summary, Goto
  <2>2. Executed = 0..(iter - 1) /\ Executed' = Executed
    BY <1>c, <2>1 DEF Returned
  <2>3. failed \cap Executed = failed
    BY <1>d, <2>2
  <2>4. log.failed_tests > 0 <=> failed # {}
    <3>1. IsFiniteSet(failed)
      <4>1. IsFiniteSet(0..(iter - 1))
        BY <1>d, FS_Interval
      <4> QED
        BY <1>d, <4>1, FS_Subset
    <3>2. Cardinality(failed) \in Nat /\ (Cardinality(failed) = 0 <=> failed = {})
      BY <3>1, FS_CardinalityType, FS_EmptySet
    <3> QED
      BY <1>a, <3>2 DEF FailedTestsExact
  <2>5. Phase = "down" /\ Phase' = "over"
    BY <1>a, <2>1 DEF Placed, Phase, After
  <2>6. Runner!Report
    BY <2>1, <2>2, <2>3, <2>4, <2>5 DEF Runner!Report
  <2> QED
    BY <2>6 DEF Runner!RunnerNext
<1>7. CASE UNCHANGED vars
  BY <1>7, Unseen DEF vars, Executed
<1> QED
  BY <1>1, <1>2, <1>3, <1>4, <1>5, <1>6, <1>7 DEF Next, Finished

\* For every number of tests and every buffer, cldm_sequential.c runs each
\* test once between the global procedures, leaves none out unless one has
\* failed, and its exit status says whether one failed.
THEOREM RunnerImplemented == Spec => ImplementsRunner
<1> QED
  BY RunnerInit, RunnerStep, SeqHolds, PTL DEF Spec, ImplementsRunner, Runner!RunnerSpec
=============================================================================
