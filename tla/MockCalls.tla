----------------------------- MODULE MockCalls ------------------------------
(***************************************************************************)
(* The mocks of cldm_mock.h, and where the runners let them be seen.       *)
(*                                                                         *)
(* Every mocked function has a context per thread, which WHEN_CALLED       *)
(* fills and the wrapper uses up.  cldm_mock_force_disable hides the mocks *)
(* of a thread: everywhere at first, not in the global setup, the tests    *)
(* and the global teardown, and again while a wrapper calls the real       *)
(* function.  In the global setup and teardown WHEN_CALLED fills the       *)
(* contexts of all threads.                                                *)
(*                                                                         *)
(* What a thread is doing is its stack: without a frame the runner, else   *)
(* the code of the last frame, "block" (what cldm_mock_enable surrounds),  *)
(* "invoked" (a function the mock calls), "framework" (cldm within a test: *)
(* an assertion, or a warning of a wrapper) or "real" (the function that   *)
(* is mocked).                                                             *)
(*                                                                         *)
(* ParallelRun shows how the runner gets from one test to the next, and    *)
(* SymbolCache how the wrapper finds the real function.                    *)
(***************************************************************************)
EXTENDS Integers, Sequences, SequencesExt

CONSTANTS
    Jobs,       \* cldm_jobs, 1 in a sequential run
    Shape,      \* mocked function -> which of the four macros made its wrapper
    Counts,     \* the invocations WHEN_CALLED may ask for
    Actions,    \* the actions it may ask for
    MaxDepth,   \* bound: frames on a stack
    MaxTests    \* bound: tests a thread runs

CLDM_MOCK_INFINITE == -1

mockop == {"invoke", "return", "increment", "return_param", "return_pointee",
           "assign", "assign_param"}

\* The actions with a case in the wrapper of a procedure or a function, without
\* or with parameters.
ProcedureNullary  == {"invoke", "return", "assign"}
FunctionNullary   == {"invoke", "return", "increment", "assign"}
ProcedureVariadic == {"invoke", "return", "assign", "assign_param"}
FunctionVariadic  == mockop

Shapes == {ProcedureNullary, FunctionNullary, ProcedureVariadic, FunctionVariadic}

ASSUME MockJobsAssumption == Jobs \in Nat \ {0}
ASSUME ShapeAssumption    == \A f \in DOMAIN Shape : Shape[f] \in Shapes
ASSUME CountsAssumption   == Counts \subseteq Int
ASSUME ActionsAssumption  == Actions \subseteq mockop
ASSUME MocksAssumption    == MaxDepth \in Nat /\ MaxTests \in Nat

Threads == 0..(Jobs - 1)
Funcs   == DOMAIN Shape

\* The thread that runs the global setup.
Collector == IF Jobs = 1 THEN 0 ELSE 1

VARIABLES
    pc,              \* thread -> where it is in its run
    tests,           \* thread -> the tests it has begun
    force_disable,   \* cldm_mock_force_disable
    global_context,  \* cldm_mock_global_context
    ctx,             \* function and thread -> invocations and op of its context
    arming,          \* thread -> the loop of a WHEN_CALLED it is in
    stack,           \* thread -> frames, the running code last
    exited,          \* has a cldm_rtassert ended the process
    answer           \* history: the last call and who answered it

vars == <<pc, tests, force_disable, global_context, ctx, arming, stack, exited,
          answer>>

NotArming == [func |-> {}, count |-> 0, op |-> "invoke", next |-> 0, max |-> 0]

Init ==
    /\ pc = [t \in Threads |-> IF t = 0 THEN "main" ELSE "off"]
    /\ tests = [t \in Threads |-> 0]
    /\ force_disable = [t \in Threads |-> FALSE]
    /\ global_context = FALSE
    /\ ctx = [f \in Funcs |-> [t \in Threads |-> [invocations |-> 0, op |-> "invoke"]]]
    /\ arming = [t \in Threads |-> NotArming]
    /\ stack = [t \in Threads |-> << >>]
    /\ exited = FALSE
    /\ answer = [thread |-> -1, func |-> {}, by |-> "none"]

Goto(t, label) == pc' = [pc EXCEPT ![t] = label]

-----------------------------------------------------------------------------
(* Frames.                                                                 *)

Running(t) == IF stack[t] = << >> THEN "runner" ELSE Last(stack[t]).code

Push(t, code) ==
    stack' = [stack EXCEPT ![t] = Append(@, [code |-> code, saved |-> force_disable[t]])]

Pop(t) == stack' = [stack EXCEPT ![t] = Front(@)]

\* cldm_mock_enable and cldm_mock_disable set the flag and remember what it was.
Hide(t, flag) == force_disable' = [force_disable EXCEPT ![t] = flag]

\* Slip: mocks are enabled at the end, whatever the flag was before.
Restore_always(t) == force_disable' = [force_disable EXCEPT ![t] = FALSE]

Restore(t) == force_disable' = [force_disable EXCEPT ![t] = Last(stack[t]).saved]

-----------------------------------------------------------------------------
(* The runners, as far as the mocks are concerned.                         *)

\* The first statement of main; then the other threads are started.
cldm_mock_disable_all ==
    /\ pc[0] = "main"
    /\ force_disable' = [t \in Threads |-> TRUE]
    /\ pc' = [t \in Threads |-> IF t = Collector THEN "collect" ELSE "init"]
    /\ UNCHANGED <<tests, global_context, ctx, arming, stack, exited, answer>>

\* cldm_mock_global around cldm_mock_enable: the global setup or teardown.
EnterGlobal(t, from, to) ==
    /\ pc[t] = from /\ stack[t] = << >>
    /\ global_context' = TRUE
    /\ Push(t, "block") /\ Hide(t, FALSE)
    /\ Goto(t, to)
    /\ UNCHANGED <<tests, ctx, arming, exited, answer>>

\* A block ends when the code in it has returned.
Returned(t) == Len(stack[t]) = 1 /\ Running(t) = "block" /\ arming[t] = NotArming

\* Slip: the global context stays open.
LeaveGlobal_open(t, from, to) ==
    /\ pc[t] = from /\ Returned(t)
    /\ Pop(t) /\ Restore(t)
    /\ Goto(t, to)
    /\ UNCHANGED <<tests, global_context, ctx, arming, exited, answer>>

\* The global context is closed again; it never nests, so that the value it
\* had before was FALSE.
LeaveGlobal(t, from, to) ==
    /\ pc[t] = from /\ Returned(t)
    /\ global_context' = FALSE
    /\ Pop(t) /\ Restore(t)
    /\ Goto(t, to)
    /\ UNCHANGED <<tests, ctx, arming, exited, answer>>

GlobalSetup    == EnterGlobal(Collector, "collect", "setup")
GlobalSetupEnd == LeaveGlobal(Collector, "setup", "ready")

\* A thread other than the collector has initialised its log.
Ready(t) ==
    /\ pc[t] = "init" /\ stack[t] = << >>
    /\ Goto(t, "ready")
    /\ UNCHANGED <<tests, force_disable, global_context, ctx, arming, stack, exited, answer>>

Barrier ==
    /\ \A t \in Threads : pc[t] = "ready" /\ stack[t] = << >>
    /\ pc' = [t \in Threads |-> "loop"]
    /\ UNCHANGED <<tests, force_disable, global_context, ctx, arming, stack, exited, answer>>

\* cldm_test_run enables the mocks for a test with its setup and teardown.
BeginTest(t) ==
    /\ pc[t] = "loop" /\ stack[t] = << >> /\ tests[t] < MaxTests
    /\ tests' = [tests EXCEPT ![t] = @ + 1]
    /\ Push(t, "block") /\ Hide(t, FALSE)
    /\ Goto(t, "test")
    /\ UNCHANGED <<global_context, ctx, arming, exited, answer>>

EndTest(t) ==
    /\ pc[t] = "test" /\ Returned(t)
    /\ Pop(t) /\ Restore(t)
    /\ Goto(t, "loop")
    /\ UNCHANGED <<tests, global_context, ctx, arming, exited, answer>>

\* The thread has no more tests, and reports and reduces.
LoopDone(t) ==
    /\ pc[t] = "loop" /\ stack[t] = << >>
    /\ Goto(t, "done")
    /\ UNCHANGED <<tests, force_disable, global_context, ctx, arming, stack, exited, answer>>

\* The master has joined the other threads.
GlobalTeardown ==
    /\ \A t \in Threads : pc[t] = "done" /\ stack[t] = << >>
    /\ EnterGlobal(0, "done", "teardown")

GlobalTeardownEnd == LeaveGlobal(0, "teardown", "over")

RunnerStep ==
    \/ cldm_mock_disable_all
    \/ GlobalSetup \/ GlobalSetupEnd \/ Barrier
    \/ GlobalTeardown \/ GlobalTeardownEnd
    \/ \E t \in Threads : Ready(t) \/ BeginTest(t) \/ EndTest(t) \/ LoopDone(t)

-----------------------------------------------------------------------------
(* WHEN_CALLED ... SHOULD.                                                 *)

\* Where the author of the tests may write code.
Scripted(t) == Running(t) \in {"block", "invoked"} /\ arming[t] = NotArming

lower_bound(t) == IF global_context THEN 0 ELSE t
upper_bound(t) == IF global_context THEN Jobs ELSE t + 1

\* The head of the loop over the contexts.
WhenCalled(t) ==
    /\ Scripted(t)
    /\ \E f \in Funcs, n \in Counts, o \in Actions :
          arming' = [arming EXCEPT ![t] =
              [func |-> f, count |-> n, op |-> o,
               next |-> lower_bound(t), max |-> upper_bound(t)]]
    /\ UNCHANGED <<pc, tests, force_disable, global_context, ctx, stack, exited, answer>>

\* One round: the action is stored, then, unless the assertion fails, the count.
Should(t) ==
    /\ arming[t] # NotArming
    /\ LET a     == arming[t]
           valid == a.count >= 0 \/ a.count = CLDM_MOCK_INFINITE
       IN  /\ ctx' = [ctx EXCEPT ![a.func][a.next] =
                         [invocations |-> IF valid THEN a.count ELSE @.invocations,
                          op |-> a.op]]
           /\ exited' = ~valid
           /\ arming' = [arming EXCEPT ![t] =
                            IF ~valid THEN a
                            ELSE IF a.next + 1 = a.max THEN NotArming
                            ELSE [a EXCEPT !.next = @ + 1]]
    /\ UNCHANGED <<pc, tests, force_disable, global_context, stack, answer>>

-----------------------------------------------------------------------------
(* The wrappers.                                                           *)

\* Any code may call a mocked function, as long as its thread exists.
MayCall(t) ==
    /\ pc[t] \notin {"main", "off"}
    /\ pc[0] \in {"teardown", "over"} => t = 0
    /\ arming[t] = NotArming
    /\ Len(stack[t]) < MaxDepth

Mocked(t, f) == ~force_disable[t] /\ ctx[f][t].invocations # 0

Answer(t, f, who) == answer' = [thread |-> t, func |-> f, by |-> who]

\* Slip: mocks armed for ever are counted down too.
CountDown_all(n) == n - 1

CountDown(n) == IF n # CLDM_MOCK_INFINITE THEN n - 1 ELSE n

\* The actions that name a parameter, and end the program if there is none
\* with that number.
Indexed == {"return_param", "return_pointee", "assign_param"}

\* The actions that warn of a value that does not fit, while the mocks are
\* enabled.
Warning == {"increment", "return_param", "assign_param"}

\* The first half of a wrapper: the mock acts.
CallMock(t, f) ==
    /\ MayCall(t) /\ Mocked(t, f)
    /\ ctx' = [ctx EXCEPT ![f][t].invocations = CountDown(@)]
    /\ Answer(t, f, "mock")
    /\ LET op == ctx[f][t].op
       IN  \/ /\ op = "invoke"
              /\ Push(t, "invoked")
              /\ UNCHANGED exited
           \/ /\ op \in Shape[f] \ {"invoke"}
              /\ UNCHANGED <<stack, exited>>
           \/ /\ op \in Shape[f] \cap Warning
              /\ Push(t, "framework")
              /\ UNCHANGED exited
           \/ /\ op \in (mockop \ Shape[f]) \cup Indexed
              /\ exited' = TRUE
              /\ UNCHANGED stack
    /\ UNCHANGED <<pc, tests, force_disable, global_context, arming>>

\* The second half: with mocks disabled, the real function is called.
CallReal(t, f) ==
    /\ MayCall(t) /\ ~Mocked(t, f)
    /\ Answer(t, f, "real")
    /\ Push(t, "real") /\ Hide(t, TRUE)
    /\ UNCHANGED <<pc, tests, global_context, ctx, arming, exited>>

\* A called function returns.
Return(t) ==
    /\ Running(t) \in {"real", "invoked", "framework"}
    /\ arming[t] = NotArming
    /\ IF Running(t) = "real" THEN Restore(t) ELSE UNCHANGED force_disable
    /\ Pop(t)
    /\ UNCHANGED <<pc, tests, global_context, ctx, arming, exited, answer>>

\* An assertion, with the mocks enabled: the one on strings compares them by
\* strcmp or strncmp, and the record of a failed one needs memory and a
\* formatted message.
Assertion(t) ==
    /\ Scripted(t) /\ Len(stack[t]) < MaxDepth
    /\ Push(t, "framework")
    /\ UNCHANGED <<pc, tests, force_disable, global_context, ctx, arming, exited, answer>>

CodeStep(t) ==
    \/ WhenCalled(t) \/ Should(t) \/ Assertion(t) \/ Return(t)
    \/ \E f \in Funcs : CallMock(t, f) \/ CallReal(t, f)

Finished == (exited \/ pc[0] = "over") /\ UNCHANGED vars

Next ==
    \/ ~exited /\ RunnerStep
    \/ ~exited /\ \E t \in Threads : CodeStep(t)
    \/ Finished

Spec == Init /\ [][Next]_vars

-----------------------------------------------------------------------------
(* Correctness.                                                            *)

\* From the start of main on, the mocks of a thread are hidden exactly while
\* it runs code of the runner or of a real function, however the calls nest.
\* An assertion and the warning of a wrapper run with the mocks visible.
HiddenFromOthers ==
    pc[0] # "main" =>
        \A t \in Threads : force_disable[t] <=> Running(t) \in {"runner", "real"}

\* A thread that fills the context of another one does so while the wrappers
\* of that other thread cannot look at it.
ArmingExclusive ==
    \A t, u \in Threads :
        arming[t] # NotArming /\ u # t /\ u \in arming[t].next..(arming[t].max - 1) =>
            force_disable[u] /\ arming[u] = NotArming

\* What a thread still has to mock, the rest of a running loop included.
Due(t, f) ==
    LET loops == {u \in Threads : /\ arming[u] # NotArming /\ arming[u].func = f
                                  /\ t \in arming[u].next..(arming[u].max - 1)}
    IN  IF loops = {} THEN ctx[f][t].invocations
                      ELSE arming[CHOOSE u \in loops : TRUE].count

Book == INSTANCE MockBook WITH
    due  <- [t \in Threads |-> [f \in Funcs |-> Due(t, f)]],
    role <- [t \in Threads |->
               CASE Running(t) \in {"block", "invoked"} -> "user"
                 [] Running(t) = "framework"           -> "framework"
                 [] OTHER                              -> "internal"]

\* The mocks do what MockBook says: they answer as many calls as were asked
\* for, on the threads they were asked for, to tests and to the assertions and
\* warnings of cldm within them, never to the runner or a real function.
ImplementsMockBook == Book!BookSpec
=============================================================================
