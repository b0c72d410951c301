----------------------------- MODULE TestRunner -----------------------------
(***************************************************************************)
(* What a run of a cldm test binary promises, however it is executed:      *)
(* every test runs at most once and between the global setup and the       *)
(* global teardown, none is left out unless one has failed, and the exit   *)
(* status says whether one failed.  A run may also give up before its      *)
(* first test.  SequentialRun and ParallelRun implement it.                *)
(***************************************************************************)
EXTENDS FiniteSets

CONSTANT Tests

VARIABLES phase,      \* "idle", "running", "down" or "over"
          executed,   \* the tests that have been run
          failing,    \* those of them that failed
          verdict     \* "none", "success" or "failure"

runnerVars == <<phase, executed, failing, verdict>>

RunnerInit ==
    /\ phase = "idle"
    /\ executed = {}
    /\ failing = {}
    /\ verdict = "none"

SetUp ==
    /\ phase = "idle"
    /\ phase' = "running"
    /\ UNCHANGED <<executed, failing, verdict>>

RunTest(k) ==
    /\ phase = "running"
    /\ k \notin executed
    /\ executed' = executed \cup {k}
    /\ failing' \in {failing, failing \cup {k}}
    /\ UNCHANGED <<phase, verdict>>

TearDown ==
    /\ phase = "running"
    /\ executed = Tests \/ failing # {}
    /\ phase' = "down"
    /\ UNCHANGED <<executed, failing, verdict>>

Report ==
    /\ phase = "down"
    /\ phase' = "over"
    /\ verdict' = IF failing = {} THEN "success" ELSE "failure"
    /\ UNCHANGED <<executed, failing>>

\* A thread, a lock or memory could not be had, or no test be collected.
GiveUp ==
    /\ phase \in {"idle", "running"}
    /\ executed = {}
    /\ phase' = "over"
    /\ verdict' = "failure"
    /\ UNCHANGED <<executed, failing>>

RunnerNext == SetUp \/ (\E k \in Tests : RunTest(k)) \/ TearDown \/ Report \/ GiveUp

RunnerSpec == RunnerInit /\ [][RunnerNext]_runnerVars
=============================================================================
