------------------------------ MODULE Program ------------------------------
(***************************************************************************)
(* main, from start to exit: the libraries and the executable's file, the  *)
(* command line, the capture of the standard streams, the collection, a    *)
(* runner, and the cleanup on every path.  The runner is the abstract one  *)
(* of TestRunner; SequentialRun and ParallelRun have the real ones.        *)
(***************************************************************************)
EXTENDS Collect, Capture

VARIABLES
    status,   \* the exit status
    ran,      \* the tests that have been run
    failing,  \* those of them that failed
    logs      \* the message logs: "ok", "full" if one could not grow, "none" if
              \* no thread could allocate its own

runVars == <<status, ran, failing, logs>>
vars    == <<mainVars, argVars, elfVars, collectVars, captureVars, runVars>>

Terminal == {"exit", "crashed", "hung"}

Init ==
    /\ at = "start"
    /\ failures = 0
    /\ ArgInit
    /\ ElfInit
    /\ CollectInit
    /\ CaptureInit
    /\ status = 1
    /\ ran = {}
    /\ failing = {}
    /\ logs = "ok"

-----------------------------------------------------------------------------
(* Before the runner.                                                      *)

\* The mocks are disabled and the C library opened.
Prepare ==
    /\ at = "start"
    /\ \/ Succeeds /\ Goto("map")
       \/ Fails /\ Goto("unprepared")
    /\ UNCHANGED <<argVars, elfVars, collectVars, captureVars, runVars>>

\* The two returns before there is anything to clean up.
LeaveUnprepared ==
    /\ at = "unprepared"
    /\ Goto("exit")
    /\ UNCHANGED <<failures, argVars, elfVars, collectVars, captureVars, runVars>>

\* The libraries the executable needs are opened.  After an error the cleanup
\* reads args.capture, which has not been set yet.
DlmapNeeded ==
    /\ at = "needed"
    /\ \/ Succeeds /\ Goto("argp") /\ UNCHANGED ctx
       \/ /\ Fails
          /\ Goto("dlfree")
          /\ \E any \in SUBSET Streams : ctx' = [ctx EXCEPT !.args.capture = any]
    /\ UNCHANGED <<argc, argv, dfa, added, posflags, posparams>>
    /\ UNCHANGED <<elfVars, collectVars, captureVars, runVars>>

\* What follows the parsing: only a correct command line, on a 64-bit
\* executable, that asks for neither help nor version leads to a run.
Decide ==
    /\ at \in {"refused", "parsed"}
    /\ LET informs == at = "parsed" /\ (ctx.args.help \/ ctx.args.version)
           starts  == at = "parsed" /\ ~informs /\ IsElf64(image) /\ IsExecutable(image)
       IN  /\ status' = IF informs THEN 0 ELSE status
           /\ Goto(IF starts THEN "capture_out" ELSE "dlfree")
    /\ UNCHANGED <<failures, argVars, elfVars, collectVars, captureVars, ran, failing, logs>>

\* The steps that are taken for the captured streams only, stdout first: step
\* is the one for stream s.
ForStream(place, s, step, then) ==
    /\ at = place
    /\ Goto(then)
    /\ IF s \in ctx.args.capture THEN step ELSE UNCHANGED <<failures, captureVars>>
    /\ UNCHANGED <<argVars, elfVars, collectVars, runVars>>

\* cldm_io_capture_stream.
CaptureOut == ForStream("capture_out", "out", CaptureStream("out"), "capture_err")
CaptureErr == ForStream("capture_err", "err", CaptureStream("err"), "collect")

-----------------------------------------------------------------------------
(* The runner.                                                             *)

\* The collection has failed.  The sequential runner returns; the parallel
\* one goes on to call a global teardown that it has not looked up.
Uncollected ==
    /\ at = "uncollected"
    /\ Goto(IF ctx.args.jobs = 1 THEN "dump" ELSE "crashed")
    /\ Message("err")
    /\ UNCHANGED <<repl, fd, path, content, written, shown, broken, kept, others>>
    /\ UNCHANGED <<failures, argVars, elfVars, collectVars, runVars>>

\* A call of the runner fails: the sequential one cannot set up its log, the
\* parallel one its barrier or lock.  Once its threads have been started, it is
\* a call of the main thread, of the collection, or the logs of some of the
\* threads, and ends in an abort, in the teardown above, or with the others
\* waiting for ever.
RunnerFails ==
    /\ Fails
    /\ \/ at = "execute" /\ ran = {} /\ ctx.args.jobs = 1 /\ Goto("dump")
       \/ at = "collect" /\ ctx.args.jobs > 1 /\ Goto("dump")
       \/ /\ at = "execute" /\ ran = {} /\ logs = "ok" /\ ctx.args.jobs > 1
          /\ at' \in {"crashed", "hung"}
    /\ UNCHANGED <<argVars, elfVars, collectVars, captureVars, runVars>>

\* None of the parallel runner's threads can allocate its log, which counts as
\* one failing call: all of them return behind the first barrier, where nobody
\* is left to wait, and the run goes on to its summary.
NoLogs ==
    /\ at = "execute" /\ ran = {} /\ logs = "ok" /\ ctx.args.jobs > 1
    /\ Fails
    /\ logs' = "none"
    /\ UNCHANGED <<at, argVars, elfVars, collectVars, captureVars, status, ran, failing>>

\* With --fail-fast the sequential runner stops at once, the others soon.  A
\* test that fails may find that the log cannot grow, which ends the sequential
\* run, and a parallel one on its thread.
RunTest(r) ==
    /\ at = "execute"
    /\ logs # "none"
    /\ ctx.args.jobs = 1 => logs = "ok" /\ (ctx.args.fail_fast => failing = {})
    /\ r \in tree \ ran
    /\ ran' = ran \cup {r}
    /\ \/ failing' \in {failing, failing \cup {r}} /\ Succeeds /\ UNCHANGED logs
       \/ failing' = failing \cup {r} /\ Fails /\ logs' = "full"
    /\ UNCHANGED <<at, argVars, elfVars, collectVars, captureVars, status>>

\* A test that is running writes something.
Write(s, piece) ==
    /\ at = "execute"
    /\ ran # {}
    /\ TestWrites(s, piece)
    /\ UNCHANGED <<mainVars, argVars, elfVars, collectVars, runVars>>

\* Slip: a single failing test is forgiven.
ExitStatus_lenient == IF \E x, y \in failing : x # y THEN 1 ELSE 0

\* cldm_test_summary.
ExitStatus == IF failing = {} THEN 0 ELSE 1

\* The results have gone to stdout; the summary of a failure goes to stderr.
Summary ==
    /\ at = "execute"
    /\ ran = tree \/ (ctx.args.fail_fast /\ failing # {}) \/ logs # "ok"
    /\ status' = ExitStatus
    /\ misused' = (misused \/ repl["out"] = "closed" \/ (failing # {} /\ repl["err"] = "closed"))
    /\ Goto("dump")
    /\ UNCHANGED <<repl, fd, path, content, written, shown, broken, kept, others>>
    /\ UNCHANGED <<failures, argVars, elfVars, collectVars, ran, failing, logs>>

-----------------------------------------------------------------------------
(* After the runner.                                                       *)

\* cldm_io_capture_dump: a redirect file that cannot be opened ends it.
Dump ==
    /\ at = "dump"
    /\ \/ Succeeds /\ Goto("dump_out") /\ UNCHANGED misused
       \/ ctx.args.redirect # 0 /\ Fails /\ Goto("dlfree") /\ Message("err")
    /\ UNCHANGED <<repl, fd, path, content, written, shown, broken, kept, others>>
    /\ UNCHANGED <<argVars, elfVars, collectVars, runVars>>

DumpTo(s) == DumpStream(s, ctx.args.redirect # 0)
DumpOut == ForStream("dump_out", "out", DumpTo("out"), "dump_err")
DumpErr == ForStream("dump_err", "err", DumpTo("err"), "dlfree")

\* The epilogue: the libraries are closed, the file is unmapped and the
\* streams are restored.
Dlfree ==
    /\ at = "dlfree"
    /\ Goto("unmap")
    /\ UNCHANGED <<failures, argVars, elfVars, collectVars, captureVars, runVars>>

RestoreOut == ForStream("restore", "out", RestoreStream("out"), "restore_err")
RestoreErr == ForStream("restore_err", "err", RestoreStream("err"), "exit")

\* Using a stream that is closed may end the process at any later point.
Crash ==
    /\ misused
    /\ at \notin Terminal
    /\ Goto("crashed")
    /\ UNCHANGED <<failures, argVars, elfVars, collectVars, captureVars, runVars>>

-----------------------------------------------------------------------------
MainNext ==
    \/ Prepare \/ LeaveUnprepared \/ DlmapNeeded \/ Decide \/ CaptureOut \/ CaptureErr
    \/ MapElf /\ UNCHANGED <<argVars, collectVars, captureVars, runVars>>
    \/ ArgNext /\ UNCHANGED <<elfVars, collectVars, captureVars, runVars>>
    \/ CollectNext /\ UNCHANGED <<argVars, elfVars, captureVars, runVars>>
    \/ Uncollected \/ RunnerFails \/ NoLogs \/ (\E r \in tree : RunTest(r)) \/ Summary
    \/ Dump \/ DumpOut \/ DumpErr \/ Dlfree
    \/ UnmapElf /\ UNCHANGED <<argVars, collectVars, captureVars, runVars>>
    \/ RestoreOut \/ RestoreErr \/ Crash

Finished == at \in Terminal /\ UNCHANGED vars

Next ==
    \/ MainNext
    \/ \E s \in Streams, piece \in Pieces : Write(s, piece)
    \/ /\ \E s \in Streams : OtherProcess(s)
       /\ UNCHANGED <<mainVars, argVars, elfVars, collectVars, runVars>>
    \/ Finished

Spec == Init /\ [][Next]_vars /\ WF_vars(MainNext)

-----------------------------------------------------------------------------
(* Correctness.                                                            *)

\* An exit status of 0 means that only information was asked for, or that all
\* the tests collected were run and none failed, or that no test was run since
\* not one thread of a parallel run could allocate its log: there the status
\* says nothing.  If no call fails, the tests collected are those asked for.
\* Once a test has run, the status is 1 if and only if one has failed.
StatusHonest ==
    at = "exit" =>
        /\ \/ status = 1
           \/ ctx.args.help \/ ctx.args.version
           \/ ran = tree /\ failing = {} /\ (failures = 0 => tree = Wanted)
           \/ ran = {} /\ logs = "none" /\ ctx.args.jobs > 1
        /\ ran # {} => (status = 1 <=> failing # {})

\* No path to the exit leaves a file under /tmp behind, unless it could not
\* be removed or another process has put it there.
TempFilesRemoved ==
    at = "exit" /\ others = 0 => \A s \in Streams : path[s] # "none" => s \in kept

\* A stream that was closed is used again only if capturing one had failed,
\* which cldm_io_capture_stream prints and then ignores.
NoClosedStream == misused => broken # {}

\* What the tests write to a captured stream is shown once they are over, as
\* long as it is made of lines that fit the buffer and no other cldm runs.
CapturedShown ==
    at = "dlfree" /\ ran # {} /\ failures = 0 /\ others = 0 =>
        \A s \in Streams :
            s \in ctx.args.capture /\ (\A i \in DOMAIN written[s] : written[s][i] = "line")
                => shown[s] = written[s]

\* If no call fails, the process ends by itself, and not in a crash unless the
\* collection of a parallel run has failed.  Nothing is said of a run in which
\* a call fails: its threads may wait for each other for ever.
Exits == <>(\/ at = "exit" \/ failures > 0
            \/ at = "uncollected" /\ ctx.args.jobs > 1)
=============================================================================
