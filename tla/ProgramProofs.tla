---------------------------- MODULE ProgramProofs ----------------------------
(***************************************************************************)
(* main, for any command line, any executable, any number of failing calls *)
(* and any output of the tests: the exit status is honest, no stream is    *)
(* used after it was closed unless its capture had failed, what was        *)
(* captured is shown, and no temporary file is left behind.                *)
(***************************************************************************)
EXTENDS Program, CollectProofs

-----------------------------------------------------------------------------
(* The steps by what they leave alone.                                     *)

\* A step that does not touch the standard streams, by where it is and where
\* it goes.  Before the capture it may set ctx.
QuietStep ==
    /\ UNCHANGED captureVars
    /\ failures' \in {failures, failures + 1}
    /\ \/ at' = at
       \/ at = "start" /\ at' \in {"map", "unprepared"}
       \/ at = "map" /\ at' \in {"unprepared", "needed"}
       \/ at = "unprepared" /\ at' = "exit"
       \/ at = "needed" /\ at' \in {"argp", "dlfree"}
       \/ at \in {"argp", "options"} /\ at' \in {"options", "refused", "parsed"}
       \/ at \in {"refused", "parsed"} /\ at' \in {"capture_out", "dlfree"}
       \/ /\ at \in {"collect", "idents", "records", "collected"}
          /\ at' \in {"idents", "records", "collected", "uncollected", "execute"}
       \/ at \in {"collect", "execute"} /\ at' \in {"dump", "crashed", "hung"}
                                        /\ failures' = failures + 1
       \/ at = "dlfree" /\ at' = "unmap"
       \/ at = "unmap" /\ at' = "restore"
       \/ at \notin Terminal /\ at' = "crashed"
    /\ ctx' = ctx \/ at \in {"needed", "argp", "options"}
    /\ ran' = ran \/ (at = "execute" /\ at' = "execute")

\* A step for one of the streams.
StreamStep ==
    \/ CaptureOut \/ CaptureErr \/ DumpOut \/ DumpErr \/ RestoreOut \/ RestoreErr

\* A step with a message of cldm's own.
MessageStep == Uncollected \/ Summary \/ Dump

\* A step of the tests or of another process.
OutsideStep ==
    \/ \E s \in Streams, piece \in Pieces : Write(s, piece)
    \/ /\ \E s \in Streams : OtherProcess(s)
       /\ UNCHANGED <<mainVars, argVars, elfVars, collectVars, runVars>>

\* There are no other steps.
LEMMA Steps == [Next]_vars => QuietStep \/ StreamStep \/ MessageStep \/ OutsideStep
<1> SUFFICES ASSUME [Next]_vars PROVE QuietStep \/ StreamStep \/ MessageStep \/ OutsideStep
  OBVIOUS
<1>1. CASE Prepare
  BY <1>1 DEF Prepare, QuietStep, Goto, Succeeds, Fails, argVars, runVars
<1>2. CASE LeaveUnprepared
  BY <1>2 DEF LeaveUnprepared, QuietStep, Goto, argVars, runVars
<1>3. CASE DlmapNeeded
  BY <1>3 DEF DlmapNeeded, QuietStep, Goto, Succeeds, Fails, runVars
<1>4. CASE Decide
  BY <1>4 DEF Decide, QuietStep, Goto, argVars
<1>5. CASE MapElf /\ UNCHANGED <<argVars, collectVars, captureVars, runVars>>
  BY <1>5 DEF MapElf, QuietStep, Goto, Succeeds, Fails, argVars, runVars
<1>6. CASE ArgNext /\ UNCHANGED <<elfVars, collectVars, captureVars, runVars>>
  <2>1. /\ at \in {"argp", "options"} /\ at' \in {"options", "refused", "parsed"}
        /\ failures' \in {failures, failures + 1}
    BY <1>6 DEF ArgNext, ParseBegin, AddOption, ReadArgument, ParseEnd, Goto, Succeeds, Fails
  <2> QED
    BY <1>6, <2>1 DEF QuietStep, runVars
<1>7. CASE CollectNext /\ UNCHANGED <<argVars, elfVars, captureVars, runVars>>
  <2>1. /\ at \in {"collect", "idents", "records", "collected"}
        /\ at' \in {"idents", "records", "collected", "uncollected", "execute"}
        /\ failures' \in {failures, failures + 1}
    BY <1>7 DEF CollectNext, CollectBegin, HashIdent, HashedAll, MatchRecord, CheckIdents,
                CollectAux, Goto, Succeeds, Fails
  <2> QED
    BY <1>7, <2>1 DEF QuietStep, argVars, runVars
<1>8. CASE RunnerFails \/ NoLogs
  BY <1>8 DEF RunnerFails, NoLogs, QuietStep, Goto, Fails, argVars, runVars
<1>9. CASE \E r \in tree : RunTest(r)
  BY <1>9 DEF RunTest, QuietStep, Succeeds, Fails, argVars
<1>10. CASE Dlfree
  BY <1>10 DEF Dlfree, QuietStep, Goto, argVars, runVars
<1>11. CASE UnmapElf /\ UNCHANGED <<argVars, collectVars, captureVars, runVars>>
  BY <1>11 DEF UnmapElf, QuietStep, Goto, Succeeds, Fails, argVars, runVars
<1>12. CASE Crash
  BY <1>12 DEF Crash, QuietStep, Goto, argVars, runVars
<1>13. CASE Finished \/ UNCHANGED vars
  BY <1>13 DEF Finished, QuietStep, vars, mainVars, argVars, runVars
<1> QED
  BY <1>1, <1>2, <1>3, <1>4, <1>5, <1>6, <1>7, <1>8, <1>9, <1>10, <1>11, <1>12, <1>13
     DEF Next, MainNext, StreamStep, MessageStep, OutsideStep
-----------------------------------------------------------------------------
(* The command line and the collection.                                    *)

Selected ==
    /\ ArgInv
    /\ CollectInv
    /\ failures \in Nat

\* They are as they should be before main has begun.
LEMMA SelectedInit == Init => Selected
<1> SUFFICES ASSUME Init PROVE Selected
  OBVIOUS
<1>1. /\ at = "start" /\ failures = 0 /\ image \in Images
      /\ next = 1 /\ table = {} /\ marked = {} /\ tree = {}
  BY DEF Init, ElfInit, CollectInit
<1>2. ArgInv
  BY ArgsBegin DEF Init
<1>3. CollectInv
  BY <1>1 DEF CollectInv, Mapped, Early
<1> QED
  BY <1>1, <1>2, <1>3 DEF Selected

\* The rest of main leaves them alone, and reaches the places of the
\* collection only from the ones before it.
LEMMA SelectedElsewhere ==
    ASSUME Selected,
           UNCHANGED <<argc, argv, posflags, posparams, image, collectVars>>,
           failures' \in {failures, failures + 1},
           at' \in Early => at \in Early,
           at' \in {"idents", "records", "collected", "execute"} => at' = at,
           at' \in Mapped => at \in Mapped \/ BaseAddr(image) # 0
    PROVE  Selected'
<1>1. ArgInv /\ CollectInv /\ failures \in Nat /\ failures' \in Nat
  BY DEF Selected
<1>2. failures' = 0 => failures = 0
  BY <1>1
<1>3. UNCHANGED <<next, table, marked, tree>>
  BY DEF collectVars
<1>4. ArgInv'
  BY <1>1 DEF ArgInv, Positions
<1>5. Seen(next)' = Seen(next) /\ Chosen(Seen(next))' = Chosen(Seen(next))
  BY <1>3 DEF Chosen, Seen, IsAsked, Names, Record
<1>6. Wanted' = Wanted
  BY DEF Wanted, Asked, AllRecords, NamedBy
<1>7. CollectInv'
  BY <1>1, <1>2, <1>3, <1>5, <1>6 DEF CollectInv, Entered
<1> QED
  BY <1>1, <1>4, <1>7 DEF Selected

\* Every step keeps them.
LEMMA SelectedNext == Selected /\ [Next]_vars => Selected'
<1> SUFFICES ASSUME Selected, [Next]_vars PROVE Selected'
  OBVIOUS
<1>1. ArgInv /\ CollectInv /\ failures \in Nat
  BY DEF Selected
<1>2. CASE ArgNext /\ UNCHANGED <<elfVars, collectVars, captureVars, runVars>>
  BY <1>1, <1>2, ParseStep DEF Selected
<1>3. CASE CollectNext /\ UNCHANGED <<argVars, elfVars, captureVars, runVars>>
  <2>1. ArgInv'
    BY <1>1, <1>3 DEF ArgInv, Positions, argVars
  <2> QED
    BY <1>1, <1>3, <2>1, CollectStep DEF Selected
<1>4. CASE MapElf /\ UNCHANGED <<argVars, collectVars, captureVars, runVars>>
  <2>1. /\ at = "map" /\ at' \in {"unprepared", "needed"}
        /\ at' = "needed" => BaseAddr(image) # 0
        /\ failures' \in {failures, failures + 1}
        /\ UNCHANGED <<argc, argv, posflags, posparams, image, collectVars>>
    BY <1>4 DEF MapElf, Goto, Succeeds, Fails, argVars
  <2> QED
    BY <2>1, SelectedElsewhere DEF Early, Mapped
<1> DEFINE Elsewhere ==
        /\ UNCHANGED <<argc, argv, posflags, posparams, image, collectVars>>
        /\ failures' \in {failures, failures + 1}
        /\ at' \in Early => at \in Early
        /\ at' \in {"idents", "records", "collected", "execute"} => at' = at
        /\ at' \in Mapped => at \in Mapped
<1>5. Elsewhere => Selected'
  BY SelectedElsewhere
<1>6. Prepare \/ LeaveUnprepared \/ DlmapNeeded \/ Decide \/ Dlfree \/ Crash => Elsewhere
  BY DEF Prepare, LeaveUnprepared, DlmapNeeded, Decide, Dlfree, Crash, Goto, Succeeds, Fails,
         Early, Mapped, argVars, elfVars
<1>7. Uncollected \/ RunnerFails \/ NoLogs \/ (\E r \in tree : RunTest(r)) \/ Summary \/ Dump
          => Elsewhere
  BY DEF Uncollected, RunnerFails, NoLogs, RunTest, Summary, Dump, Goto, Succeeds, Fails,
         Early, Mapped, mainVars, argVars, elfVars
<1>8. StreamStep => Elsewhere
  <2>1. ASSUME NEW place \in {"capture_out", "capture_err", "dump_out", "dump_err",
                              "restore", "restore_err"},
               NEW then \in {"capture_err", "collect", "dump_err", "dlfree",
                             "restore_err", "exit"},
               at = place, at' = then,
               then \in Early => place \in Early,
               failures' \in {failures, failures + 1},
               UNCHANGED <<argVars, elfVars, collectVars, runVars>>
        PROVE  Elsewhere
    BY <2>1 DEF Early, Mapped, argVars, elfVars
  <2>2. CaptureOut \/ CaptureErr => Elsewhere
    BY <2>1 DEF CaptureOut, CaptureErr, ForStream, CaptureStream, Goto, Succeeds, Fails, Early
  <2>3. DumpOut \/ DumpErr => Elsewhere
    BY <2>1 DEF DumpOut, DumpErr, DumpTo, ForStream, DumpStream, Goto, Succeeds, Fails, Early
  <2>4. RestoreOut \/ RestoreErr => Elsewhere
    BY <2>1 DEF RestoreOut, RestoreErr, ForStream, RestoreStream, Goto, Succeeds, Fails, Early
  <2> QED
    BY <2>2, <2>3, <2>4 DEF StreamStep
<1>9. CASE UnmapElf /\ UNCHANGED <<argVars, collectVars, captureVars, runVars>>
  <2>1. Elsewhere
    BY <1>9 DEF UnmapElf, Goto, Succeeds, Fails, Early, Mapped, argVars
  <2> QED
    BY <1>5, <2>1
<1>10. OutsideStep \/ Finished \/ UNCHANGED vars => Elsewhere
  BY DEF OutsideStep, Write, Finished, vars, mainVars, argVars, elfVars, collectVars
<1> HIDE DEF Elsewhere
<1> QED
  BY <1>2, <1>3, <1>4, <1>5, <1>6, <1>7, <1>8, <1>9, <1>10
     DEF Next, MainNext, StreamStep, OutsideStep
-----------------------------------------------------------------------------
(* The exit status.                                                        *)

Before == {"start", "map", "unprepared", "needed", "argp", "options", "refused", "parsed",
           "capture_out", "capture_err", "collect", "idents", "records", "collected",
           "uncollected"}
Later  == {"dump", "dump_out", "dump_err", "dlfree", "unmap", "restore", "restore_err", "exit"}

\* No thread of a parallel run has a log, and none runs a test.
Logless == logs = "none" /\ ran = {} /\ failing = {} /\ ctx.args.jobs > 1

\* How main gets past the runner: it never came to one or that one gave up,
\* there was only information to be given, or there is a summary, of tests or
\* of none since no thread had a log.
Judged ==
    \/ status = 1 /\ ran = {} /\ failing = {}
    \/ (ctx.args.help \/ ctx.args.version) /\ ran = {} /\ failing = {}
    \/ /\ ran = tree \/ failing # {}
       /\ status = ExitStatus
       /\ failures = 0 => tree = Wanted
    \/ Logless

StatusInv ==
    /\ at \in Before => status = 1 /\ ran = {} /\ failing = {} /\ logs = "ok"
    /\ at = "execute" =>
          /\ status = 1 /\ failing \subseteq ran
          /\ \/ logs = "ok"
             \/ logs = "full" /\ failing # {}
             \/ Logless
    /\ at \in Later => Judged
    /\ at \in Before \cup Later \cup {"execute", "crashed", "hung"}

\* It holds in the beginning.
LEMMA StatusInit == Init => StatusInv
  BY DEF Init, StatusInv, Before, Later

\* What has been judged stays so as long as no test runs.
LEMMA JudgedStays ==
    ASSUME Selected, Judged, UNCHANGED <<argVars, elfVars, collectVars, runVars>>,
           failures' \in {failures, failures + 1}
    PROVE  Judged'
<1>1. failures' = 0 => failures = 0
  BY DEF Selected
<1>2. Wanted' = Wanted
  BY DEF Wanted, Asked, AllRecords, NamedBy, argVars, elfVars
<1>3. UNCHANGED <<status, ran, failing, logs, tree, ctx>> /\ ExitStatus' = ExitStatus
  BY DEF ExitStatus, argVars, runVars, collectVars
<1> QED
  BY <1>1, <1>2, <1>3 DEF Judged, Logless

\* The steps at the places after the runner.
LEMMA StatusLater ==
    ASSUME Selected, StatusInv, at \in Later, at' \in Later \cup {"crashed"},
           UNCHANGED <<argVars, elfVars, collectVars, runVars>>,
           failures' \in {failures, failures + 1}
    PROVE  StatusInv'
<1>1. Judged'
  BY JudgedStays DEF StatusInv
<1>2. at' \notin Before /\ at' # "execute"
  BY DEF Before, Later
<1> QED
  BY <1>1, <1>2 DEF StatusInv

\* The steps at the places before the runner.
LEMMA StatusBefore ==
    ASSUME StatusInv, at \in Before,
           at' \in Before \cup {"execute", "dump", "dlfree", "exit", "crashed", "hung"},
           UNCHANGED <<ran, failing, logs>>,
           status' = status \/ (at' = "dlfree" /\ (ctx'.args.help \/ ctx'.args.version))
    PROVE  StatusInv'
<1>1. status = 1 /\ ran = {} /\ failing = {} /\ logs = "ok"
  BY DEF StatusInv
<1>2. at' # "dlfree" => status' = 1
  BY <1>1
<1>3. at' \in Later => Judged'
  BY <1>1 DEF Judged
<1> QED
  BY <1>1, <1>2, <1>3 DEF StatusInv, Before, Later

\* Every step keeps it.
LEMMA StatusNext == Selected /\ StatusInv /\ [Next]_vars => StatusInv'
<1> SUFFICES ASSUME Selected, StatusInv, [Next]_vars PROVE StatusInv'
  OBVIOUS
<1>1. Prepare \/ LeaveUnprepared \/ DlmapNeeded => StatusInv'
  <2>1. Prepare \/ LeaveUnprepared \/ DlmapNeeded =>
            /\ at \in Before /\ at' \in Before \cup {"dlfree", "exit"}
            /\ UNCHANGED <<status, ran, failing, logs>>
    BY DEF Prepare, LeaveUnprepared, DlmapNeeded, Goto, Before, runVars
  <2> QED
    BY <2>1, StatusBefore
<1>2. CASE Decide
  <2>1. /\ at \in Before /\ at' \in {"capture_out", "dlfree"} /\ UNCHANGED <<ran, failing, logs, ctx>>
        /\ status' = status \/ (at' = "dlfree" /\ (ctx.args.help \/ ctx.args.version))
    BY <1>2 DEF Decide, Goto, Before, argVars
  <2> QED
    BY <2>1, StatusBefore DEF Before
<1>3. CASE MapElf /\ UNCHANGED <<argVars, collectVars, captureVars, runVars>>
  <2>1. /\ at \in Before /\ at' \in Before /\ UNCHANGED <<status, ran, failing, logs>>
    BY <1>3 DEF MapElf, Goto, Before, runVars
  <2> QED
    BY <2>1, StatusBefore
<1>4. CASE ArgNext /\ UNCHANGED <<elfVars, collectVars, captureVars, runVars>>
  <2>1. /\ at \in Before /\ at' \in Before /\ UNCHANGED <<status, ran, failing, logs>>
    BY <1>4 DEF ArgNext, ParseBegin, AddOption, ReadArgument, ParseEnd, Goto, Before, runVars
  <2> QED
    BY <2>1, StatusBefore
<1>5. CASE CollectNext /\ UNCHANGED <<argVars, elfVars, captureVars, runVars>>
  <2>1. /\ at \in Before /\ at' \in Before \cup {"execute"} /\ UNCHANGED <<status, ran, failing, logs>>
    BY <1>5 DEF CollectNext, CollectBegin, HashIdent, HashedAll, MatchRecord, CheckIdents,
                CollectAux, Goto, Before, runVars
  <2> QED
    BY <2>1, StatusBefore
<1>6. CASE Uncollected
  <2>1. at \in Before /\ at' \in {"dump", "crashed"} /\ UNCHANGED <<status, ran, failing, logs>>
    BY <1>6 DEF Uncollected, Goto, Before, runVars
  <2> QED
    BY <2>1, StatusBefore
<1>7. CASE RunnerFails
  <2>1. UNCHANGED <<status, ran, failing, logs>>
    BY <1>7 DEF RunnerFails, runVars
  <2>2. CASE at = "collect"
    BY <1>7, <2>1, <2>2, StatusBefore DEF RunnerFails, Goto, Before
  <2>3. CASE at = "execute"
    <3>1. ran = {} /\ failing = {} /\ status = 1 /\ at' \in {"dump", "crashed", "hung"}
      BY <1>7, <2>3 DEF RunnerFails, Goto, StatusInv
    <3> QED
      BY <2>1, <3>1 DEF StatusInv, Judged, Before, Later
  <2> QED
    BY <1>7, <2>2, <2>3 DEF RunnerFails
<1>8. CASE \E r \in tree : RunTest(r)
  <2>1. /\ at = "execute" /\ at' = "execute" /\ status' = status
        /\ \E r \in tree :
              /\ ran' = ran \cup {r}
              /\ \/ failing' \in {failing, failing \cup {r}} /\ logs' = logs
                 \/ failing' = failing \cup {r} /\ logs' = "full"
        /\ logs # "none"
    BY <1>8 DEF RunTest
  <2> QED
    BY <2>1 DEF StatusInv, Logless, Before, Later
<1>9. CASE Summary
  <2>1. /\ at = "execute" /\ at' = "dump" /\ status' = ExitStatus
        /\ ran = tree \/ failing # {} \/ Logless
        /\ UNCHANGED <<failures, argVars, elfVars, collectVars, ran, failing, logs>>
    BY <1>9 DEF Summary, Goto, StatusInv
  <2>2. failures = 0 => tree = Wanted
    BY <2>1 DEF Selected, CollectInv
  <2>3. Wanted' = Wanted /\ ExitStatus' = ExitStatus /\ tree' = tree
    BY <2>1 DEF Wanted, Asked, AllRecords, NamedBy, ExitStatus, argVars, elfVars, collectVars
  <2> QED
    BY <2>1, <2>2, <2>3 DEF StatusInv, Judged, Logless, Before, Later, argVars
<1>10. CASE Dump \/ Dlfree
  <2>1. /\ at \in Later /\ at' \in Later /\ failures' \in {failures, failures + 1}
        /\ UNCHANGED <<argVars, elfVars, collectVars, runVars>>
    BY <1>10 DEF Dump, Dlfree, Goto, Succeeds, Fails, Later
  <2> QED
    BY <2>1, StatusLater
<1>11. CASE UnmapElf /\ UNCHANGED <<argVars, collectVars, captureVars, runVars>>
  <2>1. /\ at = "unmap" /\ at' = "restore" /\ failures' \in {failures, failures + 1}
        /\ UNCHANGED <<argVars, image, collectVars, runVars>>
    BY <1>11 DEF UnmapElf, Goto, Succeeds, Fails
  <2>2. Judged
    BY <2>1 DEF StatusInv, Later
  <2>3. failures' = 0 => failures = 0
    BY <2>1 DEF Selected
  <2>4. Wanted' = Wanted /\ ExitStatus' = ExitStatus
        /\ UNCHANGED <<status, ran, failing, logs, tree, ctx>>
    BY <2>1 DEF Wanted, Asked, AllRecords, NamedBy, ExitStatus, argVars, collectVars, runVars
  <2>5. Judged'
    BY <2>2, <2>3, <2>4 DEF Judged, Logless
  <2> QED
    BY <2>1, <2>5 DEF StatusInv, Before, Later
<1>12. CASE StreamStep
  <2>1. /\ UNCHANGED <<argVars, elfVars, collectVars, runVars>>
        /\ failures' \in {failures, failures + 1}
    BY <1>12 DEF StreamStep, CaptureOut, CaptureErr, DumpOut, DumpErr, DumpTo, RestoreOut,
                 RestoreErr, ForStream, CaptureStream, DumpStream, RestoreStream, Succeeds, Fails
  <2>2. \/ at \in Before /\ at' \in Before
        \/ at \in Later /\ at' \in Later
    BY <1>12 DEF StreamStep, CaptureOut, CaptureErr, DumpOut, DumpErr, RestoreOut,
                 RestoreErr, ForStream, Goto, Before, Later
  <2> QED
    BY <2>1, <2>2, StatusBefore, StatusLater DEF runVars
<1>13. CASE Crash
  <2>1. at' = "crashed"
    BY <1>13 DEF Crash, Goto
  <2> QED
    BY <2>1 DEF StatusInv, Before, Later
<1>14. CASE OutsideStep \/ Finished \/ UNCHANGED vars
  <2>1. UNCHANGED <<mainVars, argVars, elfVars, collectVars, runVars>>
    BY <1>14 DEF OutsideStep, Write, Finished, vars
  <2>2. UNCHANGED <<at, failures, ctx, status, ran, failing, logs>>
    BY <2>1 DEF mainVars, argVars, runVars
  <2>3. Judged => Judged'
    BY <2>1, <2>2, JudgedStays
  <2> QED
    BY <2>2, <2>3 DEF StatusInv, Logless
<1>15. CASE NoLogs
  <2>1. /\ at = "execute" /\ at' = "execute" /\ ran = {} /\ ctx.args.jobs > 1
        /\ UNCHANGED <<status, ran, failing, ctx>> /\ logs' = "none"
    BY <1>15 DEF NoLogs, argVars
  <2> QED
    BY <2>1 DEF StatusInv, Logless, Before, Later
<1> QED
  BY <1>1, <1>2, <1>3, <1>4, <1>5, <1>6, <1>7, <1>8, <1>9, <1>10, <1>11, <1>12, <1>13, <1>14,
     <1>15 DEF Next, MainNext, StreamStep, OutsideStep

\* For any command line and whichever calls fail, the exit status is 0 only for
\* information, if every test collected has been run and none has failed, or if
\* no test was run since no thread of a parallel run could allocate its log; and
\* after a test it is 1 if and only if one has failed.
THEOREM Honesty == Spec => []StatusHonest
<1>1. StatusInv => StatusHonest
  BY DEF StatusInv, StatusHonest, Judged, Logless, Later, ExitStatus
<1> QED
  BY <1>1, SelectedInit, SelectedNext, StatusInit, StatusNext, PTL DEF Spec
-----------------------------------------------------------------------------
(* The streams that are closed.                                            *)

\* A replacement is left closed only where a capture has failed.
ClosedInv ==
    /\ repl \in [Streams -> {"null", "open", "closed"}]
    /\ (\E s \in Streams : repl[s] = "closed") => broken # {}
    /\ misused => broken # {}

\* It holds in the beginning.
LEMMA ClosedInit == Init => ClosedInv
  BY DEF Init, CaptureInit, ClosedInv

\* Capturing a stream.
LEMMA ClosedCapture ==
    ASSUME ClosedInv, failures \in Nat, NEW s \in Streams, CaptureStream(s)
    PROVE  ClosedInv'
<1>1. repl' \in [Streams -> {"null", "open", "closed"}]
  BY DEF ClosedInv, CaptureStream, Replacement
<1>2. broken' = IF failures' = failures THEN broken ELSE broken \cup {s}
  BY DEF CaptureStream
<1>3. \/ failures' = failures + 1
      \/ failures' = failures /\ repl' = [repl EXCEPT ![s] = "open"]
  BY DEF CaptureStream, Succeeds, Fails, Replacement
<1>4. misused' = (misused \/ (broken' # broken /\ repl'["err"] = "closed"))
  BY DEF CaptureStream
<1>5. CASE failures' = failures + 1
  <2>1. broken' = broken \cup {s}
    BY <1>2, <1>5
  <2> QED
    BY <1>1, <2>1 DEF ClosedInv
<1>6. CASE failures' = failures /\ repl' = [repl EXCEPT ![s] = "open"]
  <2>1. broken' = broken
    BY <1>2, <1>6
  <2>2. \A x \in Streams : repl'[x] = "closed" => repl[x] = "closed"
    BY <1>6 DEF ClosedInv
  <2>3. misused' => misused
    BY <1>4, <2>1
  <2> QED
    BY <1>1, <2>1, <2>2, <2>3 DEF ClosedInv
<1> QED
  BY <1>3, <1>5, <1>6

\* Every step keeps it.
LEMMA ClosedNext == Selected /\ ClosedInv /\ [Next]_vars => ClosedInv'
<1> SUFFICES ASSUME Selected, ClosedInv, [Next]_vars PROVE ClosedInv'
  OBVIOUS
<1> DEFINE Careful ==
        /\ repl' = repl /\ broken' = broken
        /\ misused' => misused \/ \E s \in Streams : repl[s] = "closed"
<1>1. Careful => ClosedInv'
  BY DEF ClosedInv
<1>2. QuietStep => Careful
  BY DEF QuietStep, captureVars
<1>3. MessageStep => Careful
  <2>1. \A s \in Streams : Message(s) =>
            (misused' => misused \/ \E x \in Streams : repl[x] = "closed")
    BY DEF Message
  <2>2. Uncollected => Careful
    BY <2>1 DEF Uncollected, Streams
  <2>3. Summary => Careful
    BY DEF Summary, Streams
  <2>4. Dump => Careful
    BY <2>1 DEF Dump, Streams
  <2> QED
    BY <2>2, <2>3, <2>4 DEF MessageStep
<1>4. OutsideStep => Careful
  BY DEF OutsideStep, Write, TestWrites, OtherProcess
<1>5. UNCHANGED <<failures, captureVars>> => Careful
  BY DEF captureVars
<1>6. \A s \in Streams : \A redirected : DumpStream(s, redirected) => Careful
  BY DEF DumpStream, Message, Streams
<1>7. CASE StreamStep
  <2>1. CASE CaptureOut \/ CaptureErr
    BY <1>1, <1>5, <2>1, ClosedCapture DEF CaptureOut, CaptureErr, ForStream, Selected, Streams
  <2>2. CASE DumpOut \/ DumpErr
    <3>1. Careful
      BY <1>5, <1>6, <2>2 DEF DumpOut, DumpErr, DumpTo, ForStream, Streams
    <3> QED
      BY <1>1, <3>1
  <2>3. ASSUME NEW s \in Streams, RestoreStream(s) PROVE ClosedInv'
    <3>1. /\ repl' = [repl EXCEPT ![s] = "null"] /\ broken' = broken
          /\ misused' => misused \/ \E x \in Streams : repl[x] = "closed"
      BY <2>3 DEF RestoreStream, Streams
    <3> QED
      BY <3>1 DEF ClosedInv
  <2>4. CASE RestoreOut \/ RestoreErr
    BY <1>1, <1>5, <2>3, <2>4 DEF RestoreOut, RestoreErr, ForStream, Streams
  <2> QED
    BY <1>7, <2>1, <2>2, <2>4 DEF StreamStep
<1> QED
  BY <1>1, <1>2, <1>3, <1>4, <1>7, Steps

\* A stream that was closed is written to, or closed again, only if capturing
\* one had failed.
THEOREM ClosedStreams == Spec => []NoClosedStream
<1>1. ClosedInv => NoClosedStream
  BY DEF ClosedInv, NoClosedStream
<1> QED
  BY <1>1, SelectedInit, SelectedNext, ClosedInit, ClosedNext, PTL DEF Spec

-----------------------------------------------------------------------------
(* The temporary files.                                                    *)

\* The places before a stream is captured, and those after it was restored.
Uncaptured(s) == {"start", "map", "unprepared", "needed", "argp", "options", "refused",
                  "parsed", "capture_out"}
                 \cup (IF s = "err" THEN {"capture_err"} ELSE {})
Restored(s)   == {"exit"} \cup (IF s = "out" THEN {"restore_err"} ELSE {})

\* A file is there only for a stream that was captured, and after the stream
\* was restored only if it could not be removed.
HasFile(s) ==
    path[s] # "none" =>
        /\ at \notin Uncaptured(s)
        /\ s \in ctx.args.capture
        /\ at \in Restored(s) => s \in kept

FilesInv ==
    /\ others \in Nat
    /\ path \in [Streams -> {"none"} \cup Files]
    /\ others = 0 => \A s \in Streams : HasFile(s)

\* It holds in the beginning.
LEMMA FilesInit == Init => FilesInv
  BY DEF Init, CaptureInit, FilesInv, HasFile
\* Steps that leave the files where they are.
LEMMA FilesStay ==
    ASSUME FilesInv, UNCHANGED <<path, others>>, kept \subseteq kept',
           NEW s \in Streams, others = 0,
           at \notin Uncaptured(s) => ctx' = ctx /\ at' \notin Uncaptured(s),
           at' \in Restored(s) => at \in Restored(s) \cup Uncaptured(s)
    PROVE  HasFile(s)'
<1>1. SUFFICES ASSUME path'[s] # "none"
               PROVE  /\ at' \notin Uncaptured(s)
                      /\ s \in ctx'.args.capture
                      /\ at' \in Restored(s) => s \in kept'
  BY DEF HasFile, Uncaptured, Restored
<1>2. /\ at \notin Uncaptured(s) /\ s \in ctx.args.capture
      /\ at \in Restored(s) => s \in kept
  BY <1>1 DEF FilesInv, HasFile
<1> QED
  BY <1>2

\* Every step keeps it.
LEMMA FilesNext == FilesInv /\ [Next]_vars => FilesInv'
<1> SUFFICES ASSUME FilesInv, [Next]_vars PROVE FilesInv'
  OBVIOUS
<1> USE DEF Streams
<1>1. CASE QuietStep
  <2>1. UNCHANGED <<path, others, kept>>
    BY <1>1 DEF QuietStep, captureVars
  <2>2. ASSUME NEW s \in Streams, others = 0 PROVE HasFile(s)'
    <3>1. at \notin Uncaptured(s) => ctx' = ctx /\ at' \notin Uncaptured(s)
      BY <1>1 DEF QuietStep, Uncaptured, Terminal
    <3>2. at' \in Restored(s) => at \in Restored(s) \cup Uncaptured(s)
      BY <1>1 DEF QuietStep, Uncaptured, Restored
    <3> QED
      BY <2>1, <2>2, <3>1, <3>2, FilesStay
  <2> QED
    BY <2>1, <2>2 DEF FilesInv
<1>2. CASE MessageStep \/ DumpOut \/ DumpErr
  <2>1. /\ UNCHANGED <<path, others, kept, ctx>>
        /\ at \in {"uncollected", "execute", "dump", "dump_out", "dump_err"}
        /\ at' \in {"dump", "crashed", "dump_out", "dlfree", "dump_err"}
    BY <1>2 DEF MessageStep, Uncollected, Summary, Dump, DumpOut, DumpErr, DumpTo, ForStream,
                DumpStream, Goto, argVars, captureVars
  <2>2. ASSUME NEW s \in Streams, others = 0 PROVE HasFile(s)'
    <3>1. at' \notin Uncaptured(s) /\ at' \notin Restored(s)
      BY <2>1 DEF Uncaptured, Restored
    <3> QED
      BY <2>1, <2>2, <3>1, FilesStay
  <2> QED
    BY <2>1, <2>2 DEF FilesInv
<1>3. ASSUME NEW s \in Streams, NEW then, others' = others,
             ForStream(IF s = "out" THEN "capture_out" ELSE "capture_err", s, CaptureStream(s), then),
             then = IF s = "out" THEN "capture_err" ELSE "collect"
      PROVE  FilesInv'
  <2>1. /\ at = (IF s = "out" THEN "capture_out" ELSE "capture_err") /\ at' = then
        /\ ctx' = ctx /\ kept' = kept
        /\ s \in ctx.args.capture \/ path' = path
    BY <1>3 DEF ForStream, CaptureStream, Goto, argVars, captureVars
  <2>2. path' = path \/ path' = [path EXCEPT ![s] = Named(s, "mine")]
    BY <1>3 DEF ForStream, CaptureStream, OpenForWriting, captureVars
  <2>3. Named(s, "mine") \in {"none"} \cup Files
    BY DEF FilesInv, Named, Files
  <2>4. path' \in [Streams -> {"none"} \cup Files] /\ \A t \in Streams \ {s} : path'[t] = path[t]
    BY <2>2, <2>3 DEF FilesInv
  <2>5. ASSUME others = 0, NEW t \in Streams PROVE HasFile(t)'
    <3>1. CASE t = s
      <4>1. at' \notin Uncaptured(s) /\ at' \notin Restored(s) /\ at \in Uncaptured(s)
        BY <1>3, <2>1 DEF Uncaptured, Restored
      <4>2. path[s] = "none"
        BY <2>5, <4>1 DEF FilesInv, HasFile
      <4> QED
        BY <2>1, <3>1, <4>1, <4>2 DEF HasFile, Uncaptured, Restored
    <3>2. CASE t # s
      <4>1. path'[t] = path[t] /\ at' \notin Restored(t)
        BY <1>3, <2>1, <2>4, <3>2 DEF Restored
      <4>2. at' \in Uncaptured(t) => at \in Uncaptured(t)
        BY <1>3, <2>1, <3>2 DEF Uncaptured
      <4> QED
        BY <2>1, <2>5, <4>1, <4>2 DEF FilesInv, HasFile, Uncaptured, Restored
    <3> QED
      BY <3>1, <3>2
  <2> QED
    BY <1>3, <2>4, <2>5 DEF FilesInv
<1>4. ASSUME NEW s \in Streams, NEW then, others' = others,
             ForStream(IF s = "out" THEN "restore" ELSE "restore_err", s, RestoreStream(s), then),
             then = IF s = "out" THEN "restore_err" ELSE "exit"
      PROVE  FilesInv'
  <2>1. /\ at = (IF s = "out" THEN "restore" ELSE "restore_err") /\ at' = then
        /\ ctx' = ctx /\ kept \subseteq kept'
        /\ s \notin ctx.args.capture => path' = path
        /\ s \in ctx.args.capture => path'[s] = "none" \/ s \in kept'
        /\ path' = path \/ path' = [path EXCEPT ![s] = "none"]
    BY <1>4 DEF ForStream, RestoreStream, Removes, Goto, argVars, captureVars, FilesInv
  <2>2. path' \in [Streams -> {"none"} \cup Files] /\ \A t \in Streams \ {s} : path'[t] = path[t]
    BY <2>1 DEF FilesInv
  <2>3. ASSUME others = 0, NEW t \in Streams PROVE HasFile(t)'
    <3>1. at' \notin Uncaptured(t)
      BY <1>4, <2>1 DEF Uncaptured
    <3>2. path'[t] # "none" => path[t] # "none"
      BY <2>1, <2>2 DEF FilesInv
    <3>3. path'[t] # "none" => t \in ctx.args.capture /\ (at \in Restored(t) => t \in kept)
      BY <2>3, <3>2 DEF FilesInv, HasFile
    <3>4. CASE t = s
      BY <2>1, <3>1, <3>3, <3>4 DEF HasFile, Uncaptured, Restored
    <3>5. CASE t # s
      <4>1. at' \in Restored(t) => at \in Restored(t)
        BY <1>4, <2>1, <3>5 DEF Restored
      <4> QED
        BY <2>1, <3>1, <3>3, <4>1 DEF HasFile, Uncaptured, Restored
    <3> QED
      BY <3>4, <3>5
  <2> QED
    BY <1>4, <2>2, <2>3 DEF FilesInv
<1>5. CASE CaptureOut \/ CaptureErr \/ RestoreOut \/ RestoreErr
  <2>1. others' = others
    BY <1>5 DEF CaptureOut, CaptureErr, RestoreOut, RestoreErr, ForStream, CaptureStream,
                RestoreStream, captureVars
  <2>2. "out" \in Streams /\ "err" \in Streams
    OBVIOUS
  <2>3. CaptureOut => FilesInv'
    BY <1>3, <2>1, <2>2 DEF CaptureOut
  <2>4. CaptureErr => FilesInv'
    BY <1>3, <2>1, <2>2 DEF CaptureErr
  <2>5. RestoreOut => FilesInv'
    BY <1>4, <2>1, <2>2 DEF RestoreOut
  <2>6. RestoreErr => FilesInv'
    BY <1>4, <2>1, <2>2 DEF RestoreErr
  <2> QED
    BY <1>5, <2>3, <2>4, <2>5, <2>6
<1>6. CASE \E s \in Streams, piece \in Pieces : Write(s, piece)
  <2>1. UNCHANGED <<at, ctx, path, kept, others>>
    BY <1>6 DEF Write, TestWrites, mainVars, argVars
  <2> QED
    BY <2>1 DEF FilesInv, HasFile
<1>7. CASE \E s \in Streams : OtherProcess(s)
  <2>1. PICK s \in Streams : OtherProcess(s)
    BY <1>7
  <2>2. others' = others + 1
    BY <2>1 DEF OtherProcess
  <2>3. Named(s, "theirs") \in {"none"} \cup Files
    BY DEF FilesInv, Named, Files
  <2>4. \/ path' = path
        \/ path' = [path EXCEPT ![s] = Named(s, "theirs")]
        \/ path' = [path EXCEPT ![s] = "none"]
    BY <2>1 DEF OtherProcess, OpenForWriting
  <2>5. path' \in [Streams -> {"none"} \cup Files]
    BY <2>3, <2>4 DEF FilesInv
  <2> QED
    BY <2>2, <2>5 DEF FilesInv
<1> QED
  BY <1>1, <1>2, <1>5, <1>6, <1>7, Steps DEF StreamStep, OutsideStep

\* Unless another process has touched it, the file of a stream is gone when
\* the process exits, on every path there, or could not be removed.
THEOREM FilesRemoved == Spec => []TempFilesRemoved
<1>1. FilesInv => TempFilesRemoved
  BY DEF FilesInv, HasFile, Restored, TempFilesRemoved
<1> QED
  BY <1>1, FilesInit, FilesNext, PTL DEF Spec
-----------------------------------------------------------------------------
(* The output that is captured.                                            *)

\* The places between the capture of a stream and the moment it is shown, and
\* those from there to the cleanup.
Capturing(s) == {"collect", "idents", "records", "collected", "uncollected", "execute",
                 "dump", "dump_out"}
                \cup (IF s = "out" THEN {"capture_err"} ELSE {"dump_err"})
Dumping(s)   == {"dlfree"} \cup (IF s = "out" THEN {"dump_err"} ELSE {})

\* Before its capture nothing has happened to the stream.
Untouched(s) == at \in Uncaptured(s) => path[s] = "none" /\ written[s] = << >> /\ shown[s] = << >>

\* From then on its own file has what the tests write, and in the end that is
\* what is shown.
Kept(s) ==
    /\ at \in Capturing(s) =>
          /\ path[s] = "mine" /\ fd[s] = "mine"
          /\ content[s]["mine"] = written[s]
          /\ shown[s] = << >>
    /\ at \in Dumping(s) /\ (at = "dlfree" => ran # {}) => shown[s] = Dumped(written[s])

\* What can be read from the files, and what is shown of it.
Foreign == Pieces \cup {"foreign"}
Output  == Foreign \cup {"cut"}

OutputTypes ==
    /\ others \in Nat
    /\ path \in [Streams -> {"none"} \cup Files]
    /\ fd \in [Streams -> {"tty"} \cup Files]
    /\ written \in [Streams -> Seq(Pieces)]
    /\ shown \in [Streams -> Seq(Output)]
    /\ content \in [Streams -> [Files -> Seq(Foreign)]]

ShownInv ==
    failures = 0 /\ others = 0 =>
        \A s \in Streams : Untouched(s) /\ (s \in ctx.args.capture => Kept(s))

\* They hold in the beginning.
LEMMA ShownInit == Init => OutputTypes /\ ShownInv
<1> SUFFICES ASSUME Init PROVE OutputTypes /\ ShownInv
  OBVIOUS
<1>1. \A S : << >> \in Seq(S)
  OBVIOUS
<1>2. /\ at = "start" /\ others = 0
      /\ path = [s \in Streams |-> "none"] /\ fd = [s \in Streams |-> "tty"]
      /\ content = [s \in Streams |-> [f \in Files |-> << >>]]
      /\ written = [s \in Streams |-> << >>] /\ shown = [s \in Streams |-> << >>]
  BY DEF Init, CaptureInit
<1>3. \A s \in Streams : Untouched(s) /\ Kept(s)
  BY <1>2 DEF Untouched, Kept, Capturing, Dumping
<1>4. OutputTypes
  BY <1>1, <1>2 DEF OutputTypes
<1> QED
  BY <1>3, <1>4 DEF ShownInv

\* A file is written from the beginning.
LEMMA OpenTyped ==
    ASSUME OutputTypes, NEW s \in Streams, NEW new \in Files, OpenForWriting(s, new)
    PROVE  /\ path' \in [Streams -> {"none"} \cup Files]
           /\ content' \in [Streams -> [Files -> Seq(Foreign)]]
<1>1. Named(s, new) \in Files
  BY DEF OutputTypes, Named
<1>2. << >> \in Seq(Foreign)
  OBVIOUS
<1>3. path' = [path EXCEPT ![s] = Named(s, new)]
  BY DEF OpenForWriting
<1>4. content' = [content EXCEPT ![s] = [content[s] EXCEPT ![Named(s, new)] = << >>]]
  BY DEF OpenForWriting, OutputTypes
<1>5. [content[s] EXCEPT ![Named(s, new)] = << >>] \in [Files -> Seq(Foreign)]
  BY <1>2 DEF OutputTypes
<1> QED
  BY <1>1, <1>3, <1>4, <1>5 DEF OutputTypes

\* What is shown of a file.
LEMMA DumpedTyped ==
    ASSUME NEW c \in Seq(Foreign)
    PROVE  Dumped(c) \in Seq(Output)
<1>1. Len(c) \in Nat /\ DOMAIN c = 1..Len(c) /\ \A i \in DOMAIN c : c[i] \in Foreign
  OBVIOUS
<1>2. \A i \in 1..Len(c) : (IF c[i] = "part" THEN "cut" ELSE c[i]) \in Output
  BY <1>1 DEF Output
<1>3. Dumped(c) \in [1..Len(c) -> Output]
  BY <1>1, <1>2 DEF Dumped
<1> QED
  BY <1>1, <1>3

\* One more piece in a file.
LEMMA AppendTyped ==
    ASSUME OutputTypes, NEW s \in Streams, NEW f \in Files, NEW piece \in Foreign,
           content' = [content EXCEPT ![s][f] = Append(@, piece)]
    PROVE  content' \in [Streams -> [Files -> Seq(Foreign)]]
<1>1. content[s] \in [Files -> Seq(Foreign)] /\ content[s][f] \in Seq(Foreign)
  BY DEF OutputTypes
<1>2. Append(content[s][f], piece) \in Seq(Foreign)
  BY <1>1, AppendProperties
<1>3. content' = [content EXCEPT ![s] = [content[s] EXCEPT ![f] = Append(content[s][f], piece)]]
  OBVIOUS
<1>4. [content[s] EXCEPT ![f] = Append(content[s][f], piece)] \in [Files -> Seq(Foreign)]
  BY <1>1, <1>2
<1> QED
  BY <1>3, <1>4 DEF OutputTypes

\* Every step keeps the types.
LEMMA TypesNext == OutputTypes /\ [Next]_vars => OutputTypes'
<1> SUFFICES ASSUME OutputTypes, [Next]_vars PROVE OutputTypes'
  OBVIOUS
<1> USE DEF Streams
<1>1. UNCHANGED <<path, fd, written, shown, content, others>> => OutputTypes'
  BY DEF OutputTypes
<1>2. CASE QuietStep \/ MessageStep
  BY <1>1, <1>2 DEF QuietStep, MessageStep, Uncollected, Summary, Dump, captureVars
<1>3. ASSUME NEW s \in Streams, CaptureStream(s) PROVE OutputTypes'
  <2>1. UNCHANGED <<written, shown, others>>
    BY <1>3 DEF CaptureStream
  <2>2. UNCHANGED <<path, content>> \/ OpenForWriting(s, "mine")
    BY <1>3 DEF CaptureStream
  <2>3. /\ path' \in [Streams -> {"none"} \cup Files]
        /\ content' \in [Streams -> [Files -> Seq(Foreign)]]
    BY <2>2, OpenTyped DEF OutputTypes, Files
  <2>4. Named(s, "mine") \in Files
    BY DEF OutputTypes, Named, Files
  <2>5. fd' = fd \/ fd' = [fd EXCEPT ![s] = Named(s, "mine")]
    BY <1>3 DEF CaptureStream
  <2>6. fd' \in [Streams -> {"tty"} \cup Files]
    BY <2>4, <2>5 DEF OutputTypes
  <2> QED
    BY <2>1, <2>3, <2>6 DEF OutputTypes
<1>4. ASSUME NEW s \in Streams, NEW redirected, DumpStream(s, redirected) PROVE OutputTypes'
  <2>1. UNCHANGED <<path, fd, content, written, others>>
    BY <1>4 DEF DumpStream
  <2>2. \/ shown' = shown
        \/ path[s] # "none" /\ shown' = [shown EXCEPT ![s] = Dumped(content[s][path[s]])]
    BY <1>4 DEF DumpStream
  <2>3. path[s] # "none" => content[s][path[s]] \in Seq(Foreign)
    BY DEF OutputTypes
  <2>4. shown' \in [Streams -> Seq(Output)]
    BY <2>2, <2>3, DumpedTyped DEF OutputTypes
  <2> QED
    BY <2>1, <2>4 DEF OutputTypes
<1>5. ASSUME NEW s \in Streams, RestoreStream(s) PROVE OutputTypes'
  <2>1. UNCHANGED <<fd, content, written, shown, others>>
    BY <1>5 DEF RestoreStream
  <2>2. path' = path \/ path' = [path EXCEPT ![s] = "none"]
    BY <1>5 DEF RestoreStream
  <2> QED
    BY <2>1, <2>2 DEF OutputTypes
<1>6. CASE StreamStep
  <2>1. UNCHANGED captureVars => OutputTypes'
    BY <1>1 DEF captureVars
  <2> QED
    BY <1>3, <1>4, <1>5, <1>6, <2>1
       DEF StreamStep, CaptureOut, CaptureErr, DumpOut, DumpErr, DumpTo, RestoreOut, RestoreErr,
           ForStream
<1>7. ASSUME NEW s \in Streams, NEW piece \in Pieces, Write(s, piece) PROVE OutputTypes'
  <2>1. /\ UNCHANGED <<path, fd, shown, others>>
        /\ written' = [written EXCEPT ![s] = Append(@, piece)]
        /\ \/ content' = content
           \/ fd[s] # "tty" /\ content' = [content EXCEPT ![s][fd[s]] = Append(@, piece)]
    BY <1>7 DEF Write, TestWrites
  <2>2. Append(written[s], piece) \in Seq(Pieces)
    BY AppendProperties DEF OutputTypes
  <2>3. written' \in [Streams -> Seq(Pieces)]
    BY <2>1, <2>2 DEF OutputTypes
  <2>4. fd[s] # "tty" => fd[s] \in Files
    BY DEF OutputTypes
  <2>5. piece \in Foreign
    BY DEF Foreign
  <2>6. content' \in [Streams -> [Files -> Seq(Foreign)]]
    BY <2>1, <2>4, <2>5, AppendTyped DEF OutputTypes
  <2> QED
    BY <2>1, <2>3, <2>6 DEF OutputTypes
<1>8. ASSUME NEW s \in Streams, OtherProcess(s) PROVE OutputTypes'
  <2>1. UNCHANGED <<fd, written, shown>> /\ others' \in Nat
    BY <1>8 DEF OtherProcess, OutputTypes
  <2>2. CASE OpenForWriting(s, "theirs")
    BY <2>1, <2>2, OpenTyped DEF OutputTypes, Files
  <2>3. CASE /\ path[s] # "none" /\ path' = path
             /\ content' = [content EXCEPT ![s][path[s]] = Append(@, "foreign")]
    <3>1. path[s] \in Files /\ "foreign" \in Foreign
      BY <2>3 DEF OutputTypes, Foreign
    <3> QED
      BY <2>1, <2>3, <3>1, AppendTyped DEF OutputTypes
  <2>4. CASE path' = [path EXCEPT ![s] = "none"] /\ content' = content
    BY <2>1, <2>4 DEF OutputTypes
  <2> QED
    BY <1>8, <2>2, <2>3, <2>4 DEF OtherProcess
<1> QED
  BY <1>2, <1>6, <1>7, <1>8, Steps DEF OutsideStep
\* A stream that a step leaves alone, at places that mean the same for it.
LEMMA ShownStays ==
    ASSUME ShownInv, NEW s \in Streams, failures = 0, others = 0,
           path'[s] = path[s], fd'[s] = fd[s], content'[s] = content[s],
           written'[s] = written[s], shown'[s] = shown[s],
           at' \in Uncaptured(s) => at \in Uncaptured(s),
           at' \in Capturing(s) => at \in Capturing(s),
           ctx' = ctx \/ at' \notin Capturing(s) \cup Dumping(s),
           at' \in Dumping(s) =>
               \/ at \in Dumping(s) /\ (at = "dlfree" => at' = "dlfree" /\ ran' = ran)
               \/ at' = "dlfree" /\ ran' = {}
    PROVE  Untouched(s)' /\ (s \in ctx'.args.capture => Kept(s)')
<1>1. Untouched(s) /\ (s \in ctx.args.capture => Kept(s))
  BY DEF ShownInv
<1>2. Untouched(s)'
  BY <1>1 DEF Untouched, Uncaptured
<1>3. ASSUME s \in ctx'.args.capture PROVE Kept(s)'
  <2>1. ASSUME at' \in Capturing(s)
        PROVE  /\ path'[s] = "mine" /\ fd'[s] = "mine"
               /\ content'[s]["mine"] = written'[s]
               /\ shown'[s] = << >>
    BY <1>1, <1>3, <2>1 DEF Kept
  <2>2. ASSUME at' \in Dumping(s), at' = "dlfree" => ran' # {}
        PROVE  shown'[s] = Dumped(written'[s])
    <3>1. /\ at \in Dumping(s) /\ ctx' = ctx
          /\ at = "dlfree" => at' = "dlfree" /\ ran' = ran
      BY <2>2
    <3>2. at = "dlfree" => ran # {}
      BY <2>2, <3>1
    <3> QED
      BY <1>1, <1>3, <3>1, <3>2 DEF Kept
  <2> QED
    BY <2>1, <2>2 DEF Kept, Capturing, Dumping
<1> QED
  BY <1>2, <1>3
\* Every step keeps it.
LEMMA ShownNext ==
    Selected /\ StatusInv /\ OutputTypes /\ ShownInv /\ [Next]_vars => ShownInv'
<1> SUFFICES ASSUME Selected, StatusInv, OutputTypes, ShownInv, [Next]_vars,
                    failures' = 0, others' = 0
             PROVE  \A s \in Streams : Untouched(s)' /\ (s \in ctx'.args.capture => Kept(s)')
  BY DEF ShownInv
<1> USE DEF Streams
<1>1. failures \in Nat /\ others \in Nat
  BY DEF Selected, OutputTypes
<1>2. QuietStep \/ StreamStep \/ MessageStep \/ OutsideStep
  BY Steps
<1>3. CASE QuietStep
  <2>1. failures = 0 /\ failures' = failures
    BY <1>1, <1>3 DEF QuietStep
  <2>2. UNCHANGED <<path, fd, content, written, shown, others>>
    BY <1>3 DEF QuietStep, captureVars
  <2>3. ASSUME NEW s \in Streams
        PROVE  Untouched(s)' /\ (s \in ctx'.args.capture => Kept(s)')
    <3>1. at' \in Uncaptured(s) => at \in Uncaptured(s)
      BY <1>3 DEF QuietStep, Uncaptured
    <3>2. at' \in Capturing(s) => at \in Capturing(s)
      BY <1>1, <1>3, <2>1 DEF QuietStep, Capturing
    <3>3. ctx' = ctx \/ at' \notin Capturing(s) \cup Dumping(s) \/ (at = "needed" /\ at' = "dlfree")
      BY <1>3, <2>1 DEF QuietStep, Capturing, Dumping, Terminal
    <3>4. at' \in Dumping(s) =>
              \/ at' = at /\ ran' = ran
              \/ at \in {"needed", "refused", "parsed"} /\ at' = "dlfree" /\ ran' = {}
      BY <1>3, <1>1, <2>1 DEF QuietStep, Dumping, StatusInv, Before
    <3>5. CASE at = "needed" /\ at' = "dlfree"
      <4>1. ran' = {}
        BY <3>4, <3>5 DEF Dumping
      <4> QED
        BY <3>5, <4>1 DEF Untouched, Kept, Uncaptured, Capturing, Dumping
    <3>6. CASE ~(at = "needed" /\ at' = "dlfree")
      <4>1. ctx' = ctx \/ at' \notin Capturing(s) \cup Dumping(s)
        BY <3>3, <3>6
      <4>2. at' \in Dumping(s) =>
              \/ at \in Dumping(s) /\ (at = "dlfree" => at' = "dlfree" /\ ran' = ran)
              \/ at' = "dlfree" /\ ran' = {}
        BY <3>4
      <4> QED
        BY <1>1, <2>1, <2>2, <3>1, <3>2, <4>1, <4>2, ShownStays
    <3> QED
      BY <3>5, <3>6
  <2> QED
    BY <2>3
<1>4. CASE MessageStep
  <2>1. /\ UNCHANGED <<ctx, path, fd, content, written, shown, others>>
        /\ \/ failures' = failures
           \/ failures' = failures + 1
        /\ \/ at \in {"uncollected", "execute"} /\ at' \in {"dump", "crashed"}
           \/ at = "dump" /\ at' = "dump_out"
           \/ at = "dump" /\ failures' = failures + 1
    BY <1>4 DEF MessageStep, Uncollected, Summary, Dump, Goto, Succeeds, Fails, argVars
  <2>2. failures = 0 /\ failures' = failures
    BY <1>1, <2>1
  <2>3. ASSUME NEW s \in Streams
        PROVE  Untouched(s)' /\ (s \in ctx'.args.capture => Kept(s)')
    <3>1. at' \notin Uncaptured(s) \cup Dumping(s) /\ at \in Capturing(s)
      BY <1>1, <2>1, <2>2 DEF Uncaptured, Capturing, Dumping
    <3> QED
      BY <2>1, <2>2, <3>1, ShownStays
  <2> QED
    BY <2>3
<1>5. CASE OutsideStep
  <2>1. PICK s \in Streams, piece \in Pieces : Write(s, piece)
    BY <1>1, <1>5 DEF OutsideStep, OtherProcess
  <2>2. /\ at = "execute" /\ UNCHANGED <<at, failures, ctx, path, fd, shown, others>>
        /\ written' = [written EXCEPT ![s] = Append(@, piece)]
        /\ content' = IF fd[s] = "tty" THEN content
                      ELSE [content EXCEPT ![s][fd[s]] = Append(@, piece)]
    BY <2>1 DEF Write, TestWrites, mainVars, argVars
  <2>3. ASSUME NEW t \in Streams
        PROVE  Untouched(t)' /\ (t \in ctx'.args.capture => Kept(t)')
    <3>1. at \in Capturing(t) /\ at \notin Uncaptured(t) \cup Dumping(t)
      BY <2>2 DEF Capturing, Uncaptured, Dumping
    <3>2. CASE t # s
      <4>1. written'[t] = written[t] /\ content'[t] = content[t]
        BY <2>2, <3>2 DEF OutputTypes
      <4> QED
        BY <1>1, <2>2, <3>1, <4>1, ShownStays
    <3>3. CASE t = s
      <4>1. Untouched(t)'
        BY <2>2, <3>1 DEF Untouched, Uncaptured
      <4>2. ASSUME t \in ctx'.args.capture PROVE Kept(t)'
        <5>1. /\ path[t] = "mine" /\ fd[t] = "mine" /\ shown[t] = << >>
              /\ content[t]["mine"] = written[t]
          BY <2>2, <3>1, <4>2 DEF ShownInv, Kept
        <5>2. written'[t] = Append(written[t], piece)
          BY <2>2, <3>3 DEF OutputTypes
        <5>3. content'[t]["mine"] = Append(content[t]["mine"], piece)
          BY <2>2, <3>3, <5>1 DEF OutputTypes, Files
        <5> QED
          BY <2>2, <3>1, <5>1, <5>2, <5>3 DEF Kept, Capturing, Dumping
      <4> QED
        BY <4>1, <4>2
    <3> QED
      BY <3>2, <3>3
  <2> QED
    BY <2>3
<1>6. ASSUME NEW s \in Streams, NEW then,
             ForStream(IF s = "out" THEN "capture_out" ELSE "capture_err", s, CaptureStream(s), then),
             then = IF s = "out" THEN "capture_err" ELSE "collect",
             NEW t \in Streams
      PROVE  Untouched(t)' /\ (t \in ctx'.args.capture => Kept(t)')
  <2>1. /\ at = (IF s = "out" THEN "capture_out" ELSE "capture_err") /\ at' = then
        /\ ctx' = ctx
        /\ s \in ctx.args.capture => CaptureStream(s)
        /\ s \notin ctx.args.capture => UNCHANGED <<failures, captureVars>>
    BY <1>6 DEF ForStream, Goto, argVars
  <2>2. /\ written' = written /\ shown' = shown /\ others' = others
        /\ failures' \in {failures, failures + 1}
    BY <2>1 DEF CaptureStream, Succeeds, Fails, captureVars
  <2>3. failures = 0 /\ failures' = failures /\ others = 0
    BY <1>1, <2>2
  <2>4. s \in ctx.args.capture =>
            /\ path' = [path EXCEPT ![s] = Named(s, "mine")]
            /\ content' = [content EXCEPT ![s][Named(s, "mine")] = << >>]
            /\ fd' = [fd EXCEPT ![s] = Named(s, "mine")]
    BY <2>1, <2>3 DEF CaptureStream, Fails, OpenForWriting
  <2>5. s \notin ctx.args.capture => UNCHANGED <<path, content, fd>>
    BY <2>1 DEF captureVars
  <2>6. /\ at' \notin Dumping(t)
        /\ at' \in Uncaptured(t) => at \in Uncaptured(t)
    BY <1>6, <2>1 DEF Uncaptured, Dumping
  <2>7. CASE t # s
    <3>1. at' \in Capturing(t) => at \in Capturing(t)
      BY <1>6, <2>1, <2>7 DEF Capturing
    <3>2. path'[t] = path[t] /\ fd'[t] = fd[t] /\ content'[t] = content[t]
      BY <2>4, <2>5, <2>7 DEF OutputTypes
    <3> QED
      BY <2>1, <2>2, <2>3, <2>6, <3>1, <3>2, ShownStays
  <2>8. CASE t = s
    <3>1. at \in Uncaptured(t) /\ at' \notin Uncaptured(t)
      BY <1>6, <2>1, <2>8 DEF Uncaptured
    <3>2. path[t] = "none" /\ written[t] = << >> /\ shown[t] = << >>
      BY <2>3, <3>1 DEF ShownInv, Untouched
    <3>3. Untouched(t)'
      BY <3>1 DEF Untouched, Uncaptured
    <3>4. ASSUME t \in ctx'.args.capture PROVE Kept(t)'
      <4>1. Named(s, "mine") = "mine" /\ "mine" \in Files
        BY <2>8, <3>2 DEF Named, Files
      <4>2. /\ path' = [path EXCEPT ![s] = "mine"]
            /\ content' = [content EXCEPT ![s]["mine"] = << >>]
            /\ fd' = [fd EXCEPT ![s] = "mine"]
        BY <2>1, <2>4, <2>8, <3>4, <4>1
      <4>3. path'[s] = "mine" /\ fd'[s] = "mine" /\ content'[s]["mine"] = << >>
        BY <4>1, <4>2 DEF OutputTypes
      <4> QED
        BY <2>2, <2>6, <2>8, <3>2, <4>3 DEF Kept, Capturing, Dumping
    <3> QED
      BY <3>3, <3>4
  <2> QED
    BY <2>7, <2>8
<1>7. ASSUME NEW s \in Streams, NEW then,
             ForStream(IF s = "out" THEN "dump_out" ELSE "dump_err", s, DumpTo(s), then),
             then = IF s = "out" THEN "dump_err" ELSE "dlfree",
             NEW t \in Streams
      PROVE  Untouched(t)' /\ (t \in ctx'.args.capture => Kept(t)')
  <2>1. /\ at = (IF s = "out" THEN "dump_out" ELSE "dump_err") /\ at' = then
        /\ ctx' = ctx /\ ran' = ran
        /\ s \in ctx.args.capture => DumpTo(s)
        /\ s \notin ctx.args.capture => UNCHANGED <<failures, captureVars>>
    BY <1>7 DEF ForStream, Goto, argVars, runVars
  <2>2. /\ UNCHANGED <<path, fd, content, written, others>>
        /\ failures' \in {failures, failures + 1}
    BY <2>1 DEF DumpTo, DumpStream, Succeeds, Fails, captureVars
  <2>3. failures = 0 /\ failures' = failures /\ others = 0
    BY <1>1, <2>2
  <2>4. CASE t # s
    <3>1. shown' = shown \/ shown' = [shown EXCEPT ![s] = Dumped(content[s][path[s]])]
      BY <2>1 DEF DumpTo, DumpStream, captureVars
    <3>2. shown'[t] = shown[t]
      BY <2>4, <3>1 DEF OutputTypes
    <3>3. /\ at' \in Uncaptured(t) => at \in Uncaptured(t)
          /\ at' \in Capturing(t) => at \in Capturing(t)
          /\ at' \in Dumping(t) => at \in Dumping(t) /\ at # "dlfree"
      BY <1>7, <2>1, <2>4 DEF Uncaptured, Capturing, Dumping
    <3> QED
      BY <2>1, <2>2, <2>3, <3>2, <3>3, ShownStays
  <2>5. CASE t = s
    <3>1. at \in Capturing(t) /\ at' \notin Uncaptured(t) \cup Capturing(t)
      BY <1>7, <2>1, <2>5 DEF Uncaptured, Capturing
    <3>2. Untouched(t)'
      BY <3>1 DEF Untouched, Uncaptured
    <3>3. ASSUME t \in ctx'.args.capture PROVE Kept(t)'
      <4>1. /\ path[s] = "mine" /\ shown[s] = << >> /\ content[s]["mine"] = written[s]
        BY <2>1, <2>3, <2>5, <3>1, <3>3 DEF ShownInv, Kept
      <4>2. IF written[s] # << >> THEN shown' = [shown EXCEPT ![s] = Dumped(written[s])]
            ELSE shown' = shown
        BY <2>1, <2>3, <2>5, <3>3, <4>1 DEF DumpTo, DumpStream, Fails, Shows
      <4>3. Dumped(<< >>) = << >>
        BY DEF Dumped
      <4>4. shown'[s] = Dumped(written[s])
        BY <4>1, <4>2, <4>3 DEF OutputTypes
      <4> QED
        BY <2>2, <2>5, <3>1, <4>4 DEF Kept, Capturing, Dumping
    <3> QED
      BY <3>2, <3>3
  <2> QED
    BY <2>4, <2>5
<1>8. CASE RestoreOut \/ RestoreErr
  <2>1. at' \in {"restore_err", "exit"}
    BY <1>8 DEF RestoreOut, RestoreErr, ForStream, Goto
  <2> QED
    BY <2>1 DEF Untouched, Kept, Uncaptured, Capturing, Dumping
<1>9. CASE StreamStep
  <2>1. CaptureOut =>
            \A t \in Streams : Untouched(t)' /\ (t \in ctx'.args.capture => Kept(t)')
    BY <1>6 DEF CaptureOut
  <2>2. CaptureErr =>
            \A t \in Streams : Untouched(t)' /\ (t \in ctx'.args.capture => Kept(t)')
    BY <1>6 DEF CaptureErr
  <2>3. DumpOut =>
            \A t \in Streams : Untouched(t)' /\ (t \in ctx'.args.capture => Kept(t)')
    BY <1>7 DEF DumpOut
  <2>4. DumpErr =>
            \A t \in Streams : Untouched(t)' /\ (t \in ctx'.args.capture => Kept(t)')
    BY <1>7 DEF DumpErr
  <2> QED
    BY <1>8, <1>9, <2>1, <2>2, <2>3, <2>4 DEF StreamStep
<1> QED
  BY <1>2, <1>3, <1>4, <1>5, <1>9

\* If no call fails and no other process interferes, what the tests have
\* written to a captured stream in whole lines is shown, all of it and in order.
THEOREM CaptureIsShown == Spec => []CapturedShown
<1>1. OutputTypes /\ ShownInv => CapturedShown
  <2> SUFFICES ASSUME OutputTypes, ShownInv,
                      at = "dlfree", ran # {}, failures = 0, others = 0,
                      NEW s \in Streams, s \in ctx.args.capture,
                      \A i \in DOMAIN written[s] : written[s][i] = "line"
               PROVE  shown[s] = written[s]
    BY DEF CapturedShown
  <2>1. shown[s] = Dumped(written[s])
    BY DEF ShownInv, Kept, Dumping
  <2>2. written[s] \in Seq(Pieces)
    BY DEF OutputTypes
  <2>3. Dumped(written[s]) = written[s]
    BY <2>2 DEF Dumped
  <2> QED
    BY <2>1, <2>3
<1> QED
  BY <1>1, SelectedInit, SelectedNext, StatusInit, StatusNext, ShownInit, ShownNext, TypesNext,
     PTL DEF Spec

=============================================================================
