----------------------------- MODULE MockProofs -----------------------------
(***************************************************************************)
(* The mocks of MockCalls are hidden from the runner and from the real     *)
(* functions however the calls nest, no thread fills a context that        *)
(* another one may read, and the mocks implement MockBook: for any number  *)
(* of threads and tests, any depth of calls and any mocked functions.      *)
(***************************************************************************)
EXTENDS MockCalls, SequenceTheorems, TLAPS

-----------------------------------------------------------------------------
(* The inductive invariant.                                                *)

Labels == {"main", "off", "collect", "setup", "init", "ready", "loop", "test",
           "done", "teardown", "over"}

Frame == [code : {"block", "invoked", "framework", "real"}, saved : BOOLEAN]

Context == [invocations : Int, op : mockop]

Loop == [func : Funcs, count : Counts, op : Actions, next : Nat, max : Nat]

Typed ==
    /\ pc \in [Threads -> Labels]
    /\ force_disable \in [Threads -> BOOLEAN]
    /\ global_context \in BOOLEAN
    /\ ctx \in [Funcs -> [Threads -> Context]]
    /\ arming \in [Threads -> Loop \cup {NotArming}]
    /\ stack \in [Threads -> Seq(Frame)]

\* Before the threads are started, while the collector prepares the run,
\* while the tests run, and behind the joins.
Starting ==
    /\ pc[0] = "main"
    /\ \A t \in Threads : t # 0 => pc[t] = "off"
    /\ \A t \in Threads : stack[t] = << >>

Preparing ==
    \A t \in Threads :
        pc[t] \in IF t = Collector THEN {"collect", "setup", "ready"}
                  ELSE {"init", "ready"}

Testing == \A t \in Threads : pc[t] \in {"loop", "test", "done"}

Closing ==
    /\ pc[0] \in {"teardown", "over"}
    /\ \A t \in Threads : t # 0 => pc[t] = "done"

PhaseInv == Starting \/ Preparing \/ Testing \/ Closing

\* The global context is open exactly in the global setup and teardown.
ContextOpen == global_context <=> pc[Collector] = "setup" \/ pc[0] = "teardown"

Hidden(t) == Running(t) \in {"runner", "real"}

\* A frame has saved the flag of the code below it, and only code that sees
\* the mocks calls a function by way of a mock, or the framework.
Nested ==
    \A t \in Threads : \A i \in 1..Len(stack[t]) :
        /\ stack[t][i].saved <=> (i = 1 \/ stack[t][i - 1].code = "real")
        /\ stack[t][i].code \in {"invoked", "framework"} => ~stack[t][i].saved

\* Outside of the blocks that enable the mocks, only real functions run.
Open == {"setup", "test", "teardown"}

Closed ==
    \A t \in Threads : pc[t] \notin Open =>
        \A i \in 1..Len(stack[t]) : stack[t][i].code = "real"

\* A loop over contexts belongs to code of a test, or of a global procedure.
Looping ==
    \A t \in Threads : arming[t] # NotArming =>
        /\ Running(t) \in {"block", "invoked"}
        /\ arming[t].next < arming[t].max
        /\ arming[t].max <= Jobs
        /\ pc[t] = "test" => arming[t].next = t /\ arming[t].max = t + 1

Visible == HiddenFromOthers /\ Nested /\ Closed

MockInv == Typed /\ PhaseInv /\ ContextOpen /\ Visible /\ Looping

-----------------------------------------------------------------------------
(* Frames.                                                                 *)

\* There is a thread 0, and the collector is one of the threads.
LEMMA ThreadFacts ==
    /\ Jobs \in Nat /\ Jobs >= 1
    /\ 0 \in Threads /\ Collector \in Threads
    /\ Threads \subseteq Nat
    /\ \A n \in Nat : n < Jobs => n \in Threads
    /\ \A t \in Threads : t < Jobs
  BY MockJobsAssumption DEF Threads, Collector

\* What Append does to the frames of a thread.
LEMMA OnTop ==
    ASSUME NEW s \in Seq(Frame), NEW r \in Frame
    PROVE  /\ Append(s, r) \in Seq(Frame) /\ Append(s, r) # << >>
           /\ Len(s) \in Nat /\ Len(Append(s, r)) = Len(s) + 1
           /\ \A i \in 1..Len(s) : Append(s, r)[i] = s[i]
           /\ Append(s, r)[Len(s) + 1] = r
  OBVIOUS

\* What Front does to them, and what Last finds.
LEMMA TakenOff ==
    ASSUME NEW s \in Seq(Frame), s # << >>
    PROVE  /\ Front(s) \in Seq(Frame)
           /\ Len(s) \in Nat /\ Len(s) > 0 /\ Len(Front(s)) = Len(s) - 1
           /\ \A i \in 1..(Len(s) - 1) : Front(s)[i] = s[i]
           /\ Last(s) = s[Len(s)] /\ Last(s) \in Frame
           /\ Len(s) = 1 <=> Front(s) = << >>
<1>1. Len(s) \in Nat /\ Len(s) > 0
  OBVIOUS
<1>2. PICK n \in Nat : n = Len(s) - 1
  BY <1>1
<1>3. n \in Int /\ 1 \in Int /\ \A i \in 1..n : s[i] \in Frame
  BY <1>1, <1>2
<1>4. /\ SubSeq(s, 1, n) \in Seq(Frame)
      /\ Len(SubSeq(s, 1, n)) = IF 1 <= n THEN n - 1 + 1 ELSE 0
      /\ \A i \in 1..(n - 1 + 1) : SubSeq(s, 1, n)[i] = s[1 + i - 1]
  BY <1>3, SubSeqProperties
<1>5. /\ n - 1 + 1 = n /\ (IF 1 <= n THEN n - 1 + 1 ELSE 0) = n
      /\ \A i \in 1..n : 1 + i - 1 = i
  OBVIOUS
<1>6. /\ SubSeq(s, 1, n) \in Seq(Frame) /\ Len(SubSeq(s, 1, n)) = n
      /\ \A i \in 1..n : SubSeq(s, 1, n)[i] = s[i]
  BY <1>4, <1>5, Zenon
<1>7. /\ Front(s) \in Seq(Frame) /\ Len(Front(s)) = Len(s) - 1
      /\ \A i \in 1..(Len(s) - 1) : Front(s)[i] = s[i]
  BY <1>2, <1>6, Zenon DEF Front
<1>8. Last(s) = s[Len(s)] /\ Last(s) \in Frame
  BY <1>1 DEF Last
<1>9. Len(s) = 1 <=> Front(s) = << >>
  BY <1>1, <1>7
<1> QED
  BY <1>1, <1>7, <1>8, <1>9

\* The running code is the code of a frame.
LEMMA CodeType ==
    ASSUME Typed, NEW t \in Threads
    PROVE  /\ Running(t) \in {"runner", "block", "invoked", "framework", "real"}
           /\ Running(t) = "runner" <=> stack[t] = << >>
<1>1. stack[t] \in Seq(Frame)
  BY DEF Typed
<1>2. stack[t] # << >> => Last(stack[t]) \in Frame
  BY <1>1, TakenOff
<1> QED
  BY <1>2 DEF Running, Frame

\* A frame goes on top of a stack.
LEMMA PushType ==
    ASSUME Typed, NEW t \in Threads, NEW c \in {"block", "invoked", "framework", "real"},
           Push(t, c)
    PROVE  stack' \in [Threads -> Seq(Frame)]
<1>1. /\ stack \in [Threads -> Seq(Frame)] /\ force_disable[t] \in BOOLEAN
      /\ [code |-> c, saved |-> force_disable[t]] \in Frame
  BY DEF Typed, Frame
<1> QED
  BY <1>1, OnTop DEF Push

\* Calling code of a kind from code that sees or does not see the mocks.
LEMMA PushEffect ==
    ASSUME Typed, NEW t \in Threads, NEW c \in {"block", "invoked", "framework", "real"},
           Push(t, c), c \in {"invoked", "framework"} => ~force_disable[t]
    PROVE  /\ stack' \in [Threads -> Seq(Frame)]
           /\ stack'[t] = Append(stack[t], [code |-> c, saved |-> force_disable[t]])
           /\ \A u \in Threads : u # t => stack'[u] = stack[u] /\ Running(u)' = Running(u)
           /\ Running(t)' = c
           /\ Nested /\ (force_disable[t] <=> Hidden(t)) => Nested'
<1> DEFINE r == [code |-> c, saved |-> force_disable[t]]
           s == stack[t]
           n == Len(s)
<1>1. /\ stack \in [Threads -> Seq(Frame)] /\ s \in Seq(Frame)
      /\ force_disable[t] \in BOOLEAN /\ r \in Frame
  BY DEF Typed, Frame
<1>2. /\ stack' = [stack EXCEPT ![t] = Append(s, r)]
      /\ stack'[t] = Append(s, r)
  BY <1>1 DEF Push
<1>3. /\ Append(s, r) \in Seq(Frame) /\ Append(s, r) # << >>
      /\ n \in Nat /\ Len(Append(s, r)) = n + 1
      /\ \A i \in 1..n : Append(s, r)[i] = s[i]
      /\ Append(s, r)[n + 1] = r
  BY <1>1, OnTop
<1>4. stack' \in [Threads -> Seq(Frame)]
  BY <1>1, <1>2, <1>3
<1>5. \A u \in Threads : u # t => stack'[u] = stack[u] /\ Running(u)' = Running(u)
  BY <1>1, <1>2 DEF Running
<1>6. Running(t)' = c
  BY <1>2, <1>3 DEF Running, Last
<1>7. ASSUME Nested, force_disable[t] <=> Hidden(t) PROVE Nested'
  <2>1. ASSUME NEW i \in 1..(n + 1)
        PROVE  /\ Append(s, r)[i].saved <=> (i = 1 \/ Append(s, r)[i - 1].code = "real")
               /\ Append(s, r)[i].code \in {"invoked", "framework"} => ~Append(s, r)[i].saved
    <3>1. CASE i \in 1..n
      <4>1. Append(s, r)[i] = s[i] /\ (i = 1 \/ i - 1 \in 1..n)
        BY <1>3, <3>1
      <4>2. i = 1 \/ Append(s, r)[i - 1] = s[i - 1]
        BY <1>3, <4>1
      <4> QED
        BY <1>7, <3>1, <4>1, <4>2 DEF Nested
    <3>2. CASE i = n + 1
      <4>1. Append(s, r)[i].saved = force_disable[t] /\ Append(s, r)[i].code = c
        BY <1>3, <3>2
      <4>2. CASE n = 0
        <5>1. s = << >>
          BY <1>1, <4>2
        <5> QED
          BY <1>7, <3>2, <4>1, <4>2, <5>1 DEF Hidden, Running
      <4>3. CASE n # 0
        <5>1. s # << >> /\ i - 1 = n /\ n \in 1..n /\ i # 1
          BY <1>1, <1>3, <3>2, <4>3
        <5>2. Append(s, r)[i - 1] = Last(s) /\ Running(t) = Last(s).code
          BY <1>3, <5>1 DEF Running, Last
        <5>3. Last(s) \in Frame
          BY <1>1, <5>1, TakenOff
        <5> QED
          BY <1>7, <4>1, <5>1, <5>2, <5>3 DEF Hidden, Frame
      <4> QED
        BY <4>2, <4>3
    <3> QED
      BY <1>3, <3>1, <3>2
  <2>2. \A i \in 1..Len(stack'[t]) :
           /\ stack'[t][i].saved <=> (i = 1 \/ stack'[t][i - 1].code = "real")
           /\ stack'[t][i].code \in {"invoked", "framework"} => ~stack'[t][i].saved
    BY <1>2, <1>3, <2>1
  <2> QED
    BY <1>5, <1>7, <2>2 DEF Nested
<1> QED
  BY <1>2, <1>4, <1>5, <1>6, <1>7

\* Returning restores what the caller may see.
LEMMA PopEffect ==
    ASSUME Typed, Nested, NEW t \in Threads, stack[t] # << >>, Pop(t)
    PROVE  /\ stack' \in [Threads -> Seq(Frame)]
           /\ \A u \in Threads : u # t => stack'[u] = stack[u] /\ Running(u)' = Running(u)
           /\ Len(stack[t]) = 1 => stack'[t] = << >>
           /\ \A i \in 1..Len(stack'[t]) : i \in 1..Len(stack[t]) /\ stack'[t][i] = stack[t][i]
           /\ Last(stack[t]).saved \in BOOLEAN
           /\ Last(stack[t]).saved <=> Hidden(t)'
           /\ Running(t) \in {"invoked", "framework"} => ~Hidden(t)'
           /\ Nested'
<1> DEFINE s == stack[t]
           n == Len(s)
<1>1. stack \in [Threads -> Seq(Frame)] /\ s \in Seq(Frame)
  BY DEF Typed
<1>2. stack' = [stack EXCEPT ![t] = Front(s)] /\ stack'[t] = Front(s)
  BY <1>1 DEF Pop
<1>3. /\ Front(s) \in Seq(Frame)
      /\ n \in Nat /\ n > 0 /\ Len(Front(s)) = n - 1
      /\ \A i \in 1..(n - 1) : Front(s)[i] = s[i]
      /\ Last(s) = s[n] /\ Last(s) \in Frame
      /\ n = 1 <=> Front(s) = << >>
  BY <1>1, TakenOff
<1>4. stack' \in [Threads -> Seq(Frame)]
  BY <1>1, <1>2, <1>3
<1>5. \A u \in Threads : u # t => stack'[u] = stack[u] /\ Running(u)' = Running(u)
  BY <1>1, <1>2 DEF Running
<1>6. \A i \in 1..Len(stack'[t]) : i \in 1..n /\ stack'[t][i] = s[i]
  BY <1>2, <1>3
<1>7. Last(s).saved <=> (n = 1 \/ s[n - 1].code = "real")
  BY <1>3 DEF Nested
<1>8. Last(s).saved <=> Hidden(t)'
  <2>1. CASE n = 1
    BY <1>2, <1>3, <1>7, <2>1 DEF Hidden, Running
  <2>2. CASE n # 1
    <3>1. Front(s) # << >> /\ n - 1 \in 1..(n - 1) /\ Front(s)[n - 1] = s[n - 1]
      BY <1>3, <2>2
    <3>2. Last(Front(s)) = s[n - 1] /\ s[n - 1] \in Frame
      <4>1. Last(Front(s)) = Front(s)[n - 1]
        BY <1>3 DEF Last
      <4> QED
        BY <1>1, <1>3, <3>1, <4>1, TakenOff
    <3>3. Running(t)' = s[n - 1].code
      BY <1>2, <3>1, <3>2 DEF Running
    <3> QED
      BY <1>7, <2>2, <3>2, <3>3 DEF Hidden, Frame
  <2> QED
    BY <2>1, <2>2
<1>a. Running(t) \in {"invoked", "framework"} => ~Hidden(t)'
  BY <1>3, <1>8 DEF Running, Nested
<1>9. Nested'
  <2>1. ASSUME NEW i \in 1..Len(stack'[t])
        PROVE  /\ stack'[t][i].saved <=> (i = 1 \/ stack'[t][i - 1].code = "real")
               /\ stack'[t][i].code \in {"invoked", "framework"} => ~stack'[t][i].saved
    <3>1. i \in 1..n /\ stack'[t][i] = s[i] /\ (i = 1 \/ stack'[t][i - 1] = s[i - 1])
      BY <1>2, <1>3, <1>6, <2>1
    <3> QED
      BY <3>1 DEF Nested
  <2> QED
    BY <1>5, <2>1 DEF Nested
<1> QED
  BY <1>2, <1>3, <1>4, <1>5, <1>6, <1>8, <1>9, <1>a DEF Frame

-----------------------------------------------------------------------------
(* The phases of the run.                                                  *)

\* A thread that does anything has been started.
LEMMA Started ==
    ASSUME Typed, PhaseInv, NEW t \in Threads,
           pc[t] \notin {"main", "off"} \/ stack[t] # << >>
    PROVE  pc[0] # "main" /\ ~Starting
<1>1. ~Starting
  BY DEF Starting
<1>2. 0 \in Threads
  BY ThreadFacts
<1> QED
  BY <1>1, <1>2 DEF PhaseInv, Preparing, Testing, Closing

\* The phase that goes with the label of a thread.
LEMMA WhichPhase ==
    ASSUME Typed, PhaseInv, NEW t \in Threads
    PROVE  /\ pc[t] = "main" => Starting /\ t = 0
           /\ pc[t] \in {"collect", "setup"} => Preparing /\ t = Collector
           /\ pc[t] \in {"init", "ready"} => Preparing
           /\ pc[t] = "init" => t # Collector
           /\ pc[t] \in {"loop", "test"} => Testing
           /\ pc[t] = "teardown" => Closing /\ t = 0
  BY ThreadFacts DEF PhaseInv, Starting, Preparing, Testing, Closing

\* The phases exclude each other where the global context is concerned.
LEMMA NotGlobal ==
    /\ Starting => pc[Collector] # "setup" /\ pc[0] # "teardown"
    /\ Preparing => pc[0] # "teardown"
    /\ Testing => pc[Collector] # "setup" /\ pc[0] # "teardown"
  BY ThreadFacts DEF Starting, Preparing, Testing

\* The run starts in its first phase.
LEMMA PhaseInit == Init => PhaseInv /\ ContextOpen
<1> SUFFICES ASSUME Init PROVE PhaseInv /\ ContextOpen
  OBVIOUS
<1>1. Starting
  BY ThreadFacts DEF Init, Starting
<1> QED
  BY <1>1, NotGlobal DEF Init, PhaseInv, ContextOpen

\* Calls and mocks change nothing the phases depend on.
LEMMA CodeKeeps ==
    ASSUME Typed, PhaseInv, NEW t \in Threads, CodeStep(t)
    PROVE  UNCHANGED <<pc, global_context>> /\ (Starting => stack' = stack)
<1>1. UNCHANGED <<pc, global_context>>
  BY DEF CodeStep, WhenCalled, Should, Assertion, Return, CallMock, CallReal
<1>2. ASSUME Starting PROVE stack' = stack
  <2>1. Running(t) = "runner" /\ pc[t] \in {"main", "off"}
    BY <1>2 DEF Starting, Running
  <2> QED
    BY <2>1 DEF CodeStep, WhenCalled, Should, Assertion, Return, CallMock, CallReal,
       Scripted, MayCall
<1> QED
  BY <1>1, <1>2

\* Every step keeps the phases, and the global context with them.
LEMMA PhaseNext ==
    ASSUME Typed, PhaseInv, ContextOpen, [Next]_vars
    PROVE  PhaseInv' /\ ContextOpen'
<1>a. pc \in [Threads -> Labels]
  BY DEF Typed
<1> DEFINE Same == UNCHANGED <<pc, global_context>> /\ (Starting => stack' = stack)
<1>1. CASE Same
  BY <1>1 DEF PhaseInv, ContextOpen, Starting, Preparing, Testing, Closing
<1>2. ASSUME NEW t \in Threads, CodeStep(t) PROVE Same
  BY <1>2, CodeKeeps
<1>3. UNCHANGED vars => Same
  BY DEF vars
<1> HIDE DEF Same
<1>4. CASE cldm_mock_disable_all
  <2>1. Starting
    BY <1>4, WhichPhase, ThreadFacts DEF cldm_mock_disable_all
  <2>2. Preparing'
    BY <1>4 DEF cldm_mock_disable_all, Preparing
  <2>3. pc'[Collector] # "setup"
    BY <1>4, ThreadFacts DEF cldm_mock_disable_all
  <2>4. ~global_context'
    BY <1>4, <2>1, NotGlobal DEF cldm_mock_disable_all, ContextOpen
  <2>5. pc'[0] # "teardown"
    BY <1>4, ThreadFacts DEF cldm_mock_disable_all
  <2> QED
    BY <2>2, <2>3, <2>4, <2>5 DEF PhaseInv, ContextOpen
<1>5. CASE GlobalSetup
  <2>1. /\ pc[Collector] = "collect" /\ pc' = [pc EXCEPT ![Collector] = "setup"]
        /\ global_context' = TRUE
    BY <1>5 DEF GlobalSetup, EnterGlobal, Goto
  <2>2. Preparing
    BY <2>1, WhichPhase, ThreadFacts
  <2>3. Preparing' /\ pc'[Collector] = "setup"
    BY <1>a, <2>1, <2>2, ThreadFacts DEF Preparing
  <2> QED
    BY <2>1, <2>3 DEF PhaseInv, ContextOpen
<1>6. CASE GlobalSetupEnd
  <2>1. /\ pc[Collector] = "setup" /\ pc' = [pc EXCEPT ![Collector] = "ready"]
        /\ global_context' = FALSE
    BY <1>6 DEF GlobalSetupEnd, LeaveGlobal, Goto
  <2>2. Preparing
    BY <2>1, WhichPhase, ThreadFacts
  <2>3. Preparing' /\ pc'[Collector] = "ready"
    BY <1>a, <2>1, <2>2, ThreadFacts DEF Preparing
  <2>4. pc'[0] # "teardown"
    BY <2>3, ThreadFacts DEF Preparing
  <2> QED
    BY <2>1, <2>3, <2>4 DEF PhaseInv, ContextOpen
<1>7. ASSUME NEW t \in Threads, Ready(t) PROVE PhaseInv' /\ ContextOpen'
  <2>1. /\ pc[t] = "init" /\ pc' = [pc EXCEPT ![t] = "ready"]
        /\ UNCHANGED global_context
    BY <1>7 DEF Ready, Goto
  <2>2. Preparing /\ t # Collector
    BY <2>1, WhichPhase
  <2>3. Preparing' /\ pc'[Collector] = pc[Collector]
    BY <1>a, <2>1, <2>2, ThreadFacts DEF Preparing
  <2>4. pc[0] # "teardown" /\ pc'[0] # "teardown"
    BY <2>2, <2>3, ThreadFacts DEF Preparing
  <2> QED
    BY <2>1, <2>3, <2>4 DEF PhaseInv, ContextOpen
<1>8. CASE Barrier
  <2>1. /\ \A t \in Threads : pc[t] = "ready" /\ pc'[t] = "loop"
        /\ UNCHANGED global_context
    BY <1>8 DEF Barrier
  <2> QED
    BY <2>1, ThreadFacts DEF PhaseInv, ContextOpen, Testing
<1>9. ASSUME NEW t \in Threads, BeginTest(t) \/ EndTest(t) \/ LoopDone(t)
      PROVE  PhaseInv' /\ ContextOpen'
  <2>1. /\ pc[t] \in {"loop", "test"} /\ UNCHANGED global_context
        /\ \E x \in {"loop", "test", "done"} : pc' = [pc EXCEPT ![t] = x]
    BY <1>9 DEF BeginTest, EndTest, LoopDone, Goto
  <2>2. Testing
    BY <2>1, WhichPhase
  <2>3. Testing'
    BY <1>a, <2>1, <2>2 DEF Testing
  <2>4. pc'[Collector] # "setup" /\ pc'[0] # "teardown"
    BY <2>3, ThreadFacts DEF Testing
  <2> QED
    BY <2>1, <2>2, <2>3, <2>4, NotGlobal DEF PhaseInv, ContextOpen
<1>10. CASE GlobalTeardown
  <2>1. /\ \A t \in Threads : pc[t] = "done"
        /\ pc' = [pc EXCEPT ![0] = "teardown"] /\ global_context' = TRUE
    BY <1>10 DEF GlobalTeardown, EnterGlobal, Goto
  <2>2. Closing' /\ pc'[0] = "teardown"
    BY <1>a, <2>1, ThreadFacts DEF Closing
  <2> QED
    BY <2>1, <2>2 DEF PhaseInv, ContextOpen
<1>11. CASE GlobalTeardownEnd
  <2>1. /\ pc[0] = "teardown" /\ pc' = [pc EXCEPT ![0] = "over"]
        /\ global_context' = FALSE
    BY <1>11 DEF GlobalTeardownEnd, LeaveGlobal, Goto
  <2>2. Closing
    BY <2>1, WhichPhase, ThreadFacts
  <2>3. Closing' /\ pc'[0] = "over"
    BY <1>a, <2>1, <2>2, ThreadFacts DEF Closing
  <2>4. pc'[Collector] # "setup"
    BY <2>3, ThreadFacts DEF Closing
  <2> QED
    BY <2>1, <2>3, <2>4 DEF PhaseInv, ContextOpen
<1> QED
  BY <1>1, <1>2, <1>3, <1>4, <1>5, <1>6, <1>7, <1>8, <1>9, <1>10, <1>11
     DEF Next, RunnerStep, Finished

-----------------------------------------------------------------------------
(* Who sees the mocks.                                                     *)

\* No code runs initially.
LEMMA VisibleInit == Init => Visible
<1> SUFFICES ASSUME Init PROVE Visible
  OBVIOUS
<1>1. pc[0] = "main" /\ \A t \in Threads : stack[t] = << >>
  BY ThreadFacts DEF Init
<1> QED
  BY <1>1 DEF Visible, HiddenFromOthers, Nested, Closed

\* Code of a test's author runs only in a block that enables the mocks.
LEMMA UserOpen ==
    ASSUME Typed, Closed, NEW t \in Threads, ~Hidden(t)
    PROVE  pc[t] \in Open
<1>1. stack[t] # << >> /\ Last(stack[t]).code # "real"
  BY DEF Hidden, Running
<1>2. /\ stack[t] \in Seq(Frame) /\ Len(stack[t]) \in 1..Len(stack[t])
      /\ Last(stack[t]) = stack[t][Len(stack[t])]
  <2>1. stack[t] \in Seq(Frame)
    BY DEF Typed
  <2> QED
    BY <1>1, <2>1, TakenOff
<1> QED
  BY <1>1, <1>2 DEF Closed

\* A block is entered from the runner.
LEMMA OpenBlock ==
    ASSUME Typed, PhaseInv, Visible, NEW t \in Threads, NEW to \in Open,
           pc[t] \notin {"main", "off"}, stack[t] = << >>,
           Push(t, "block"), Hide(t, FALSE), Goto(t, to)
    PROVE  Visible'
<1>a. pc \in [Threads -> Labels] /\ force_disable \in [Threads -> BOOLEAN]
  BY DEF Typed
<1>1. pc[0] # "main" /\ \A u \in Threads : force_disable[u] <=> Hidden(u)
  BY Started DEF Visible, HiddenFromOthers, Hidden
<1>2. /\ \A u \in Threads : u # t => stack'[u] = stack[u] /\ Running(u)' = Running(u)
      /\ Running(t)' = "block" /\ Nested'
  BY <1>1, PushEffect DEF Visible
<1>3. /\ \A u \in Threads : u # t => pc'[u] = pc[u] /\ force_disable'[u] = force_disable[u]
      /\ pc'[t] = to /\ ~force_disable'[t]
  BY <1>a DEF Hide, Goto
<1>4. HiddenFromOthers'
  BY <1>1, <1>2, <1>3 DEF HiddenFromOthers, Hidden
<1>5. Closed'
  BY <1>2, <1>3 DEF Visible, Closed
<1> QED
  BY <1>2, <1>4, <1>5 DEF Visible

\* Leaving it restores the flag of the runner.
LEMMA CloseBlock ==
    ASSUME Typed, PhaseInv, Visible, NEW t \in Threads, NEW to \in Labels \ {"main"},
           pc[t] \notin {"main", "off"}, Returned(t), Pop(t), Restore(t), Goto(t, to)
    PROVE  Visible'
<1>a. pc \in [Threads -> Labels] /\ force_disable \in [Threads -> BOOLEAN]
  BY DEF Typed
<1>1. pc[0] # "main" /\ \A u \in Threads : force_disable[u] <=> Hidden(u)
  BY Started DEF Visible, HiddenFromOthers, Hidden
<1>2. Len(stack[t]) = 1 /\ stack[t] # << >>
  BY DEF Returned
<1>3. /\ \A u \in Threads : u # t => stack'[u] = stack[u] /\ Running(u)' = Running(u)
      /\ stack'[t] = << >> /\ (Last(stack[t]).saved <=> Hidden(t)') /\ Nested'
      /\ Last(stack[t]).saved \in BOOLEAN
  BY <1>2, PopEffect DEF Visible
<1>4. /\ \A u \in Threads : u # t => pc'[u] = pc[u] /\ force_disable'[u] = force_disable[u]
      /\ force_disable'[t] <=> Hidden(t)'
  BY <1>a, <1>3 DEF Restore, Goto
<1>5. HiddenFromOthers'
  BY <1>1, <1>3, <1>4 DEF HiddenFromOthers, Hidden
<1>6. Closed'
  BY <1>3, <1>4 DEF Visible, Closed
<1> QED
  BY <1>3, <1>5, <1>6 DEF Visible

\* A call of the real function hides the mocks, and a call by way of a mock
\* or of an assertion does not.
LEMMA CallsVisible ==
    ASSUME Typed, PhaseInv, Visible, NEW t \in Threads, pc' = pc,
           pc[t] \notin {"main", "off"} \/ stack[t] # << >>,
           \/ Push(t, "real") /\ Hide(t, TRUE)
           \/ /\ Push(t, "invoked") \/ Push(t, "framework")
              /\ ~force_disable[t] /\ UNCHANGED force_disable
    PROVE  Visible'
<1>a. force_disable \in [Threads -> BOOLEAN] /\ stack \in [Threads -> Seq(Frame)]
  BY DEF Typed
<1>1. pc[0] # "main" /\ \A u \in Threads : force_disable[u] <=> Hidden(u)
  BY Started DEF Visible, HiddenFromOthers, Hidden
<1>2. CASE Push(t, "real") /\ Hide(t, TRUE)
  <2>1. /\ \A u \in Threads : u # t => stack'[u] = stack[u] /\ Running(u)' = Running(u)
        /\ stack'[t] = Append(stack[t], [code |-> "real", saved |-> force_disable[t]])
        /\ Running(t)' = "real" /\ Nested'
    BY <1>1, <1>2, PushEffect DEF Visible
  <2>2. /\ \A u \in Threads : u # t => force_disable'[u] = force_disable[u]
        /\ force_disable'[t]
    BY <1>a, <1>2 DEF Hide
  <2>3. HiddenFromOthers'
    BY <1>1, <2>1, <2>2 DEF HiddenFromOthers, Hidden
  <2>4. ASSUME pc[t] \notin Open, NEW i \in 1..Len(stack'[t])
        PROVE  stack'[t][i].code = "real"
    <3> DEFINE r == [code |-> "real", saved |-> force_disable[t]]
    <3>1. r \in Frame /\ stack[t] \in Seq(Frame)
      BY <1>a DEF Frame
    <3>2. /\ Len(stack[t]) \in Nat /\ Len(stack'[t]) = Len(stack[t]) + 1
          /\ \A j \in 1..Len(stack[t]) : stack'[t][j] = stack[t][j]
          /\ stack'[t][Len(stack[t]) + 1] = r
      BY <2>1, <3>1, OnTop
    <3>3. i \in 1..Len(stack[t]) \/ i = Len(stack[t]) + 1
      BY <3>2
    <3> QED
      BY <2>4, <3>2, <3>3 DEF Visible, Closed
  <2>5. Closed'
    BY <2>1, <2>4 DEF Visible, Closed
  <2> QED
    BY <2>1, <2>3, <2>5 DEF Visible
<1>3. ASSUME NEW c \in {"invoked", "framework"}, Push(t, c), ~force_disable[t],
             UNCHANGED force_disable
      PROVE  Visible'
  <2>1. /\ \A u \in Threads : u # t => stack'[u] = stack[u] /\ Running(u)' = Running(u)
        /\ Running(t)' = c /\ Nested'
    BY <1>1, <1>3, PushEffect DEF Visible
  <2>2. HiddenFromOthers'
    BY <1>1, <1>3, <2>1 DEF HiddenFromOthers, Hidden
  <2>3. pc[t] \in Open
    BY <1>1, <1>3, UserOpen DEF Visible
  <2>4. Closed'
    BY <2>1, <2>3 DEF Visible, Closed
  <2> QED
    BY <2>1, <2>2, <2>4 DEF Visible
<1> QED
  BY <1>2, <1>3

\* Every step keeps the mocks from the runner and the real functions.
LEMMA VisibleNext ==
    ASSUME Typed, PhaseInv, Visible, [Next]_vars
    PROVE  Visible'
<1>a. pc \in [Threads -> Labels] /\ force_disable \in [Threads -> BOOLEAN]
  BY DEF Typed
<1> DEFINE Same ==
       /\ UNCHANGED <<stack, force_disable>>
       /\ pc'[0] # "main" => pc[0] # "main"
       /\ \A t \in Threads : pc'[t] \notin Open => pc[t] \notin Open
<1>1. CASE Same
  BY <1>1 DEF Visible, HiddenFromOthers, Nested, Closed, Running
<1>2. ASSUME NEW t \in Threads, WhenCalled(t) \/ Should(t) PROVE Same
  BY <1>2 DEF WhenCalled, Should
<1>3. ASSUME NEW t \in Threads, Ready(t) \/ LoopDone(t) PROVE Same
  <2>1. pc[0] # "main" /\ pc[t] \notin Open
    BY <1>3, Started DEF Ready, LoopDone, Open
  <2> QED
    BY <1>3, <1>a, <2>1 DEF Ready, LoopDone, Goto, Open
<1>4. Barrier => Same
  BY ThreadFacts DEF Barrier, Open
<1>5. UNCHANGED vars => Same
  BY DEF vars
<1> HIDE DEF Same
<1>6. CASE cldm_mock_disable_all
  <2>1. /\ Starting /\ UNCHANGED stack
        /\ \A t \in Threads : force_disable'[t]
    BY <1>6, WhichPhase, ThreadFacts DEF cldm_mock_disable_all
  <2>2. \A t \in Threads : stack'[t] = << >>
    BY <2>1 DEF Starting
  <2> QED
    BY <2>1, <2>2 DEF Visible, HiddenFromOthers, Nested, Closed, Running
<1>7. CASE GlobalSetup \/ GlobalTeardown
  <2>1. PICK t \in Threads, to \in Open :
           /\ pc[t] \notin {"main", "off"} /\ stack[t] = << >>
           /\ Push(t, "block") /\ Hide(t, FALSE) /\ Goto(t, to)
    BY <1>7, ThreadFacts DEF GlobalSetup, GlobalTeardown, EnterGlobal, Open
  <2> QED
    BY <2>1, OpenBlock
<1>8. ASSUME NEW t \in Threads, BeginTest(t) PROVE Visible'
  <2>1. "test" \in Open
    BY DEF Open
  <2> QED
    BY <1>8, <2>1, OpenBlock DEF BeginTest
<1>9. CASE GlobalSetupEnd \/ GlobalTeardownEnd
  <2>1. PICK t \in Threads, to \in Labels \ {"main"} :
           /\ pc[t] \notin {"main", "off"} /\ Returned(t)
           /\ Pop(t) /\ Restore(t) /\ Goto(t, to)
    BY <1>9, ThreadFacts DEF GlobalSetupEnd, GlobalTeardownEnd, LeaveGlobal, Labels
  <2> QED
    BY <2>1, CloseBlock
<1>10. ASSUME NEW t \in Threads, EndTest(t) PROVE Visible'
  <2>1. "loop" \in Labels \ {"main"}
    BY DEF Labels
  <2> QED
    BY <1>10, <2>1, CloseBlock DEF EndTest
<1>11. ASSUME NEW t \in Threads, NEW f \in Funcs, CallReal(t, f) PROVE Visible'
  BY <1>11, CallsVisible DEF CallReal, MayCall
<1>12. ASSUME NEW t \in Threads, NEW f \in Funcs, CallMock(t, f) PROVE Visible'
  <2>1. CASE Push(t, "invoked") \/ Push(t, "framework")
    BY <1>12, <2>1, CallsVisible DEF CallMock, MayCall, Mocked
  <2>2. CASE UNCHANGED stack
    BY <1>12, <1>1, <2>2 DEF CallMock, Same
  <2> QED
    BY <1>12, <2>1, <2>2 DEF CallMock
<1>13. ASSUME NEW t \in Threads, Assertion(t) PROVE Visible'
  <2>1. stack[t] # << >> /\ ~Hidden(t)
    BY <1>13 DEF Assertion, Scripted, Running, Hidden
  <2>2. ~force_disable[t]
    BY <2>1, Started DEF Visible, HiddenFromOthers, Hidden
  <2> QED
    BY <1>13, <2>1, <2>2, CallsVisible DEF Assertion
<1>14. ASSUME NEW t \in Threads, Return(t) PROVE Visible'
  <2>1. /\ Running(t) \in {"real", "invoked", "framework"} /\ stack[t] # << >>
        /\ Pop(t) /\ UNCHANGED pc
        /\ force_disable' = IF Running(t) = "real"
                            THEN [force_disable EXCEPT ![t] = Last(stack[t]).saved]
                            ELSE force_disable
    BY <1>14 DEF Return, Running, Restore
  <2>2. pc[0] # "main" /\ \A u \in Threads : force_disable[u] <=> Hidden(u)
    BY <2>1, Started DEF Visible, HiddenFromOthers, Hidden
  <2>3. /\ \A u \in Threads : u # t => stack'[u] = stack[u] /\ Running(u)' = Running(u)
        /\ \A i \in 1..Len(stack'[t]) : i \in 1..Len(stack[t]) /\ stack'[t][i] = stack[t][i]
        /\ Last(stack[t]).saved \in BOOLEAN
        /\ Last(stack[t]).saved <=> Hidden(t)'
        /\ Running(t) \in {"invoked", "framework"} => ~Hidden(t)'
        /\ Nested'
    BY <2>1, PopEffect DEF Visible
  <2>4. \A u \in Threads : u # t => force_disable'[u] = force_disable[u]
    BY <1>a, <2>1
  <2>5. force_disable'[t] <=> Hidden(t)'
    <3>1. CASE Running(t) = "real"
      BY <1>a, <2>1, <2>3, <3>1
    <3>2. CASE Running(t) # "real"
      BY <2>1, <2>2, <2>3, <3>2 DEF Hidden
    <3> QED
      BY <3>1, <3>2
  <2>6. HiddenFromOthers'
    BY <2>1, <2>2, <2>3, <2>4, <2>5 DEF HiddenFromOthers, Hidden
  <2>7. Closed'
    BY <2>1, <2>3 DEF Visible, Closed
  <2> QED
    BY <2>3, <2>6, <2>7 DEF Visible
<1> QED
  BY <1>1, <1>2, <1>3, <1>4, <1>5, <1>6, <1>7, <1>8, <1>9, <1>10, <1>11, <1>12,
     <1>13, <1>14 DEF Next, RunnerStep, CodeStep, Finished

-----------------------------------------------------------------------------
(* The loops of WHEN_CALLED.                                               *)

\* No loop runs initially.
LEMMA LoopingInit == Init => Looping
  BY DEF Init, Looping

\* Outside of the tests and the global procedures there are no loops.
LEMMA NoLoop ==
    ASSUME Typed, Visible, Looping, NEW t \in Threads, pc[t] \notin Open
    PROVE  arming[t] = NotArming /\ Hidden(t)
<1>1. Hidden(t)
  BY UserOpen DEF Visible
<1> QED
  BY <1>1 DEF Hidden, Looping

\* A loop fills the contexts from next up to max; in a test, only its own.
LEMMA LoopingNext ==
    ASSUME Typed, PhaseInv, ContextOpen, Looping, [Next]_vars
    PROVE  Looping'
<1>a. /\ pc \in [Threads -> Labels]
      /\ stack \in [Threads -> Seq(Frame)]
      /\ arming \in [Threads -> Loop \cup {NotArming}]
  BY DEF Typed
<1>b. ASSUME NEW t \in Threads, stack[t] = << >> PROVE arming[t] = NotArming
  BY <1>b DEF Looping, Running
<1> DEFINE Same ==
       /\ arming' = arming
       /\ \A t \in Threads : arming[t] # NotArming =>
             stack'[t] = stack[t] /\ (pc'[t] = "test" => pc[t] = "test")
<1>1. CASE Same
  BY <1>1 DEF Looping, Running
<1>2. UNCHANGED vars => Same
  BY DEF vars
<1>3. cldm_mock_disable_all \/ Barrier => Same
  BY DEF cldm_mock_disable_all, Barrier
<1>4. GlobalSetup \/ GlobalTeardown => Same
  BY <1>a, <1>b, ThreadFacts DEF GlobalSetup, GlobalTeardown, EnterGlobal, Push, Goto
<1>5. GlobalSetupEnd \/ GlobalTeardownEnd => Same
  BY <1>a, ThreadFacts DEF GlobalSetupEnd, GlobalTeardownEnd, LeaveGlobal, Pop, Goto,
     Returned
<1>6. ASSUME NEW t \in Threads, Ready(t) \/ LoopDone(t) PROVE Same
  BY <1>6, <1>a DEF Ready, LoopDone, Goto
<1>7. ASSUME NEW t \in Threads, BeginTest(t) \/ EndTest(t) PROVE Same
  BY <1>7, <1>a, <1>b DEF BeginTest, EndTest, Returned, Push, Pop, Goto
<1>8. ASSUME NEW t \in Threads, Assertion(t) \/ Return(t) PROVE Same
  BY <1>8, <1>a DEF Assertion, Return, Scripted, Push, Pop
<1>9. ASSUME NEW t \in Threads, NEW f \in Funcs, CallMock(t, f) \/ CallReal(t, f)
      PROVE  Same
  BY <1>9, <1>a DEF CallMock, CallReal, MayCall, Push
<1> HIDE DEF Same
<1>10. ASSUME NEW t \in Threads, WhenCalled(t) PROVE Looping'
  <2>1. PICK f \in Funcs, n \in Counts, o \in Actions :
           arming' = [arming EXCEPT ![t] =
               [func |-> f, count |-> n, op |-> o,
                next |-> lower_bound(t), max |-> upper_bound(t)]]
    BY <1>10 DEF WhenCalled
  <2>2. Running(t) \in {"block", "invoked"} /\ UNCHANGED <<pc, stack>>
    BY <1>10 DEF WhenCalled, Scripted
  <2>3. /\ arming'[t].next = lower_bound(t) /\ arming'[t].max = upper_bound(t)
        /\ \A u \in Threads : u # t => arming'[u] = arming[u]
    BY <1>a, <2>1
  <2>4. t \in Nat /\ t < Jobs /\ Jobs \in Nat /\ Jobs >= 1
    BY ThreadFacts
  <2>5. lower_bound(t) < upper_bound(t) /\ upper_bound(t) <= Jobs
    BY <2>4 DEF lower_bound, upper_bound
  <2>6. pc[t] = "test" => lower_bound(t) = t /\ upper_bound(t) = t + 1
    BY WhichPhase, NotGlobal DEF ContextOpen, lower_bound, upper_bound
  <2> QED
    BY <2>2, <2>3, <2>5, <2>6 DEF Looping, Running
<1>11. ASSUME NEW t \in Threads, Should(t) PROVE Looping'
  <2>1. /\ UNCHANGED <<pc, stack>> /\ arming[t] # NotArming
        /\ \/ arming' = [arming EXCEPT ![t] = arming[t]]
           \/ arming' = [arming EXCEPT ![t] = NotArming]
           \/ /\ arming' = [arming EXCEPT ![t] = [arming[t] EXCEPT !.next = @ + 1]]
              /\ arming[t].next + 1 # arming[t].max
    BY <1>11 DEF Should
  <2>2. \A u \in Threads : u # t => arming'[u] = arming[u]
    BY <1>a, <2>1
  <2>3. /\ arming[t] \in Loop /\ arming[t].next < arming[t].max
        /\ arming[t].max <= Jobs /\ Running(t) \in {"block", "invoked"}
        /\ pc[t] = "test" => arming[t].next = t /\ arming[t].max = t + 1
    BY <1>a, <2>1 DEF Looping
  <2>4. arming[t].next \in Nat /\ arming[t].max \in Nat
    BY <2>3 DEF Loop
  <2>5. \/ arming'[t] \in {arming[t], NotArming}
        \/ /\ arming'[t].next = arming[t].next + 1 /\ arming'[t].max = arming[t].max
           /\ arming[t].next + 1 # arming[t].max
    BY <1>a, <2>1, <2>3 DEF Loop
  <2>6. arming'[t] # NotArming =>
           /\ arming'[t].next < arming'[t].max /\ arming'[t].max <= Jobs
           /\ pc[t] = "test" => arming'[t].next = t /\ arming'[t].max = t + 1
    BY <2>3, <2>4, <2>5
  <2> QED
    BY <2>1, <2>2, <2>3, <2>6 DEF Looping, Running
<1> QED
  BY <1>1, <1>2, <1>3, <1>4, <1>5, <1>6, <1>7, <1>8, <1>9, <1>10, <1>11
     DEF Next, RunnerStep, CodeStep, Finished

-----------------------------------------------------------------------------
(* Types.                                                                  *)

\* The types hold initially.
LEMMA TypedInit == Init => Typed
<1> SUFFICES ASSUME Init PROVE Typed
  OBVIOUS
<1>1. [invocations |-> 0, op |-> "invoke"] \in Context
  BY DEF Context, mockop
<1>2. ctx \in [Funcs -> [Threads -> Context]]
  BY <1>1 DEF Init
<1>3. stack \in [Threads -> Seq(Frame)]
  BY DEF Init
<1> QED
  BY <1>2, <1>3 DEF Init, Typed, Labels

\* The contexts stay contexts when a loop or a wrapper writes to one.
LEMMA ContextType ==
    ASSUME Typed, NEW f \in Funcs, NEW t \in Threads, NEW r \in Context
    PROVE  [ctx EXCEPT ![f][t] = r] \in [Funcs -> [Threads -> Context]]
<1>1. ctx \in [Funcs -> [Threads -> Context]] /\ ctx[f] \in [Threads -> Context]
  BY DEF Typed
<1>2. [ctx[f] EXCEPT ![t] = r] \in [Threads -> Context]
  BY <1>1
<1> QED
  BY <1>1, <1>2

\* Every step keeps the types.
LEMMA TypedNext ==
    ASSUME Typed, Visible, Looping, [Next]_vars
    PROVE  Typed'
<1>a. /\ pc \in [Threads -> Labels]
      /\ force_disable \in [Threads -> BOOLEAN]
      /\ global_context \in BOOLEAN
      /\ ctx \in [Funcs -> [Threads -> Context]]
      /\ arming \in [Threads -> Loop \cup {NotArming}]
      /\ stack \in [Threads -> Seq(Frame)]
  BY DEF Typed
<1>1. ASSUME UNCHANGED vars PROVE Typed'
  BY <1>1 DEF vars, Typed
<1>2. CASE cldm_mock_disable_all \/ Barrier
  BY <1>2, <1>a DEF cldm_mock_disable_all, Barrier, Typed, Labels
<1>3. ASSUME NEW t \in Threads, NEW to \in Labels, Push(t, "block"), Hide(t, FALSE),
             Goto(t, to), global_context' \in BOOLEAN, UNCHANGED <<ctx, arming>>
      PROVE  Typed'
  <2>1. stack' \in [Threads -> Seq(Frame)]
    BY <1>3, PushEffect
  <2> QED
    BY <1>a, <1>3, <2>1 DEF Hide, Goto, Typed
<1>4. ASSUME NEW t \in Threads, NEW to \in Labels, Returned(t), Pop(t), Restore(t),
             Goto(t, to), global_context' \in BOOLEAN, UNCHANGED <<ctx, arming>>
      PROVE  Typed'
  <2>1. stack[t] # << >>
    BY <1>4 DEF Returned
  <2>2. stack' \in [Threads -> Seq(Frame)] /\ Last(stack[t]).saved \in BOOLEAN
    BY <1>4, <2>1, PopEffect DEF Visible
  <2> QED
    BY <1>a, <1>4, <2>2 DEF Restore, Goto, Typed
<1>5. CASE GlobalSetup \/ GlobalTeardown
  BY <1>3, <1>5, ThreadFacts DEF GlobalSetup, GlobalTeardown, EnterGlobal, Labels
<1>6. CASE GlobalSetupEnd \/ GlobalTeardownEnd
  BY <1>4, <1>6, ThreadFacts DEF GlobalSetupEnd, GlobalTeardownEnd, LeaveGlobal, Labels
<1>7. ASSUME NEW t \in Threads, BeginTest(t) PROVE Typed'
  BY <1>a, <1>3, <1>7 DEF BeginTest, Labels
<1>8. ASSUME NEW t \in Threads, EndTest(t) PROVE Typed'
  BY <1>a, <1>4, <1>8 DEF EndTest, Labels
<1>9. ASSUME NEW t \in Threads, Ready(t) \/ LoopDone(t) PROVE Typed'
  BY <1>9, <1>a DEF Ready, LoopDone, Goto, Typed, Labels
<1>10. ASSUME NEW t \in Threads, Assertion(t) PROVE Typed'
  <2>1. Push(t, "framework") /\ UNCHANGED <<pc, force_disable, global_context, ctx, arming>>
    BY <1>10 DEF Assertion
  <2>2. stack' \in [Threads -> Seq(Frame)]
    BY <2>1, PushType
  <2> QED
    BY <1>a, <2>1, <2>2 DEF Typed
<1>11. ASSUME NEW t \in Threads, Return(t) PROVE Typed'
  <2>1. /\ stack[t] # << >> /\ Pop(t) /\ UNCHANGED <<pc, global_context, ctx, arming>>
        /\ \/ force_disable' = [force_disable EXCEPT ![t] = Last(stack[t]).saved]
           \/ force_disable' = force_disable
    BY <1>11 DEF Return, Running, Restore
  <2>2. stack' \in [Threads -> Seq(Frame)] /\ Last(stack[t]).saved \in BOOLEAN
    BY <2>1, PopEffect DEF Visible
  <2> QED
    BY <1>a, <2>1, <2>2 DEF Typed
<1>12. ASSUME NEW t \in Threads, NEW f \in Funcs, CallReal(t, f) PROVE Typed'
  <2>1. /\ Push(t, "real") /\ Hide(t, TRUE)
        /\ UNCHANGED <<pc, global_context, ctx, arming>>
    BY <1>12 DEF CallReal
  <2>2. stack' \in [Threads -> Seq(Frame)]
    BY <2>1, PushType
  <2> QED
    BY <1>a, <2>1, <2>2 DEF Hide, Typed
<1>13. ASSUME NEW t \in Threads, NEW f \in Funcs, CallMock(t, f) PROVE Typed'
  <2>1. /\ Push(t, "invoked") \/ Push(t, "framework") \/ UNCHANGED stack
        /\ ctx' = [ctx EXCEPT ![f][t].invocations = CountDown(@)]
        /\ UNCHANGED <<pc, force_disable, global_context, arming>>
    BY <1>13 DEF CallMock
  <2>2. stack' \in [Threads -> Seq(Frame)]
    BY <1>a, <2>1, PushType
  <2> DEFINE c == ctx[f][t]
             r == [c EXCEPT !.invocations = CountDown(c.invocations)]
  <2>3. c \in Context /\ r \in Context
    <3>1. c \in Context
      BY <1>a
    <3>2. CountDown(c.invocations) \in Int
      BY <3>1 DEF Context, CountDown, CLDM_MOCK_INFINITE
    <3> HIDE DEF c
    <3> QED
      BY <3>1, <3>2 DEF Context
  <2>4. ctx' = [ctx EXCEPT ![f][t] = r]
    BY <1>a, <2>1
  <2>5. ctx' \in [Funcs -> [Threads -> Context]]
    BY <2>3, <2>4, ContextType
  <2> QED
    BY <1>a, <2>1, <2>2, <2>5 DEF Typed
<1>14. ASSUME NEW t \in Threads, WhenCalled(t) PROVE Typed'
  <2>1. PICK f \in Funcs, n \in Counts, o \in Actions :
           arming' = [arming EXCEPT ![t] =
               [func |-> f, count |-> n, op |-> o,
                next |-> lower_bound(t), max |-> upper_bound(t)]]
    BY <1>14 DEF WhenCalled
  <2>2. lower_bound(t) \in Nat /\ upper_bound(t) \in Nat
    BY ThreadFacts DEF lower_bound, upper_bound
  <2>3. [func |-> f, count |-> n, op |-> o,
         next |-> lower_bound(t), max |-> upper_bound(t)] \in Loop
    BY <2>2 DEF Loop
  <2>4. arming' \in [Threads -> Loop \cup {NotArming}]
    BY <1>a, <2>1, <2>3
  <2> QED
    BY <1>14, <1>a, <2>4 DEF WhenCalled, Typed
<1>15. ASSUME NEW t \in Threads, Should(t) PROVE Typed'
  <2> DEFINE a == arming[t]
             old == ctx[a.func][a.next]
  <2>1. a \in Loop /\ a.next < a.max /\ a.max <= Jobs
    BY <1>15, <1>a DEF Should, Looping
  <2>2. /\ a.func \in Funcs /\ a.next \in Threads /\ a.next \in Nat
        /\ a.count \in Int /\ a.op \in mockop
    <3>1. /\ a.func \in Funcs /\ a.next \in Nat /\ a.max \in Nat
          /\ a.count \in Counts /\ a.op \in Actions
      BY <2>1 DEF Loop
    <3>2. a.count \in Int /\ a.op \in mockop
      BY <3>1, CountsAssumption, ActionsAssumption
    <3> HIDE DEF a
    <3>3. a.next < Jobs
      BY <2>1, <3>1, ThreadFacts
    <3> QED
      BY <3>1, <3>2, <3>3, ThreadFacts
  <2>3. PICK n \in {a.count, old.invocations} :
           ctx' = [ctx EXCEPT ![a.func][a.next] = [invocations |-> n, op |-> a.op]]
    BY <1>15, <1>a, <2>2 DEF Should
  <2>4. [invocations |-> n, op |-> a.op] \in Context
    BY <1>a, <2>2 DEF Context
  <2>5. ctx' \in [Funcs -> [Threads -> Context]]
    BY <2>2, <2>3, <2>4, ContextType
  <2>6. [a EXCEPT !.next = a.next + 1] \in Loop
    BY <2>1, <2>2 DEF Loop
  <2>7. arming' \in [Threads -> Loop \cup {NotArming}]
    <3>1. \/ arming' = [arming EXCEPT ![t] = a]
          \/ arming' = [arming EXCEPT ![t] = NotArming]
          \/ arming' = [arming EXCEPT ![t] = [a EXCEPT !.next = a.next + 1]]
      BY <1>15 DEF Should
    <3> HIDE DEF a
    <3> QED
      BY <1>a, <2>1, <2>6, <3>1
  <2>8. UNCHANGED <<pc, force_disable, global_context, stack>>
    BY <1>15 DEF Should
  <2> QED
    BY <1>a, <2>5, <2>7, <2>8 DEF Typed
<1> QED
  BY <1>1, <1>2, <1>5, <1>6, <1>7, <1>8, <1>9, <1>10, <1>11, <1>12, <1>13, <1>14,
     <1>15 DEF Next, RunnerStep, CodeStep, Finished

-----------------------------------------------------------------------------
(* The theorems about the visibility of the mocks.                         *)

\* The invariant is inductive: it holds in every reachable state.
THEOREM MockHolds == Spec => []MockInv
<1>1. Init => MockInv
  BY TypedInit, PhaseInit, VisibleInit, LoopingInit DEF MockInv
<1>2. MockInv /\ [Next]_vars => MockInv'
  BY TypedNext, PhaseNext, VisibleNext, LoopingNext DEF MockInv
<1> QED
  BY <1>1, <1>2, PTL DEF Spec

\* From the start of main on, cldm_mock_force_disable hides the mocks of a
\* thread exactly while it runs code of the runner or of a real function.
THEOREM MocksHidden == Spec => []HiddenFromOthers
<1>1. MockInv => HiddenFromOthers
  BY DEF MockInv, Visible
<1> QED
  BY <1>1, MockHolds, PTL

\* While one thread runs a global procedure, no other one runs tests.
LEMMA Alone ==
    ASSUME MockInv, NEW t \in Threads, pc[t] \in {"setup", "teardown"},
           NEW u \in Threads, u # t
    PROVE  /\ pc[u] \notin Open /\ arming[u] = NotArming /\ Hidden(u)
           /\ pc[0] # "main" /\ force_disable[u]
<1>1. Typed /\ PhaseInv /\ Visible /\ Looping
  BY DEF MockInv
<1>2. pc[u] \notin Open
  <2>1. CASE pc[t] = "setup"
    BY <1>1, <2>1, WhichPhase DEF Preparing, Open
  <2>2. CASE pc[t] = "teardown"
    BY <1>1, <2>2, WhichPhase DEF Closing, Open
  <2> QED
    BY <2>1, <2>2
<1>3. arming[u] = NotArming /\ Hidden(u)
  BY <1>1, <1>2, NoLoop
<1>4. pc[0] # "main"
  BY <1>1, Started
<1> QED
  BY <1>1, <1>2, <1>3, <1>4 DEF Visible, HiddenFromOthers, Hidden

\* A loop that fills the context of another thread is in a global procedure.
LEMMA LoopsApart ==
    ASSUME MockInv, NEW t \in Threads, NEW u \in Threads, t # u,
           arming[t] # NotArming, u \in arming[t].next..(arming[t].max - 1)
    PROVE  pc[t] \in {"setup", "teardown"}
<1>1. pc[t] \in Open
  BY NoLoop DEF MockInv
<1>2. pc[t] # "test"
  <2> SUFFICES ASSUME pc[t] = "test" PROVE FALSE
    OBVIOUS
  <2>1. arming[t].next = t /\ arming[t].max = t + 1 /\ t \in Nat
    BY ThreadFacts DEF MockInv, Looping
  <2> QED
    BY <2>1
<1> QED
  BY <1>1, <1>2 DEF Open

\* WHEN_CALLED writes a context of another thread only while the wrappers of
\* that thread do not look at it and no loop of that thread runs.
THEOREM ArmedAlone == Spec => []ArmingExclusive
<1>1. MockInv => ArmingExclusive
  BY LoopsApart, Alone DEF ArmingExclusive
<1> QED
  BY <1>1, MockHolds, PTL

-----------------------------------------------------------------------------
(* The mocks implement MockBook.                                           *)

Covers(u, t, f) == /\ arming[u] # NotArming /\ arming[u].func = f
                   /\ t \in arming[u].next..(arming[u].max - 1)

\* At most one loop fills a context.
LEMMA OneLoop ==
    ASSUME MockInv, NEW t \in Threads, NEW u \in Threads, NEW v \in Threads,
           NEW f, NEW g, Covers(u, t, f), Covers(v, t, g)
    PROVE  u = v
<1> SUFFICES ASSUME u # v PROVE FALSE
  OBVIOUS
<1>1. CASE u # t
  <2>1. pc[u] \in {"setup", "teardown"}
    BY <1>1, LoopsApart DEF Covers
  <2> QED
    BY <2>1, Alone DEF Covers
<1>2. CASE u = t
  <2>1. pc[v] \in {"setup", "teardown"}
    BY <1>2, LoopsApart DEF Covers
  <2> QED
    BY <2>1, Alone DEF Covers
<1> QED
  BY <1>1, <1>2

\* The count of the loop that fills a context is what is due.
LEMMA DueLoop ==
    MockInv => \A t, u \in Threads : \A f \in Funcs :
        Covers(u, t, f) => Due(t, f) = arming[u].count
<1> SUFFICES ASSUME MockInv, NEW t \in Threads, NEW u \in Threads, NEW f \in Funcs,
                    Covers(u, t, f)
             PROVE  Due(t, f) = arming[u].count
  OBVIOUS
<1> DEFINE loops == {v \in Threads : /\ arming[v] # NotArming /\ arming[v].func = f
                                     /\ t \in arming[v].next..(arming[v].max - 1)}
<1>1. u \in loops /\ \A v \in loops : v = u
  BY OneLoop DEF Covers
<1>2. (CHOOSE v \in loops : TRUE) = u
  BY <1>1
<1>3. Due(t, f) = arming[CHOOSE v \in loops : TRUE].count
  BY <1>1 DEF Due
<1> QED
  BY <1>2, <1>3

\* Where no loop is left to run, the context says it.
LEMMA DueContext ==
    \A t \in Threads : \A f \in Funcs :
        (\A u \in Threads : ~Covers(u, t, f)) => Due(t, f) = ctx[f][t].invocations
  BY DEF Due, Covers

\* The same of the next state.
LEMMA DueNext ==
    ASSUME MockInv'
    PROVE  /\ (\A t, u \in Threads : \A f \in Funcs :
                  Covers(u, t, f) => Due(t, f) = arming[u].count)'
           /\ (\A t \in Threads : \A f \in Funcs :
                  (\A u \in Threads : ~Covers(u, t, f)) => Due(t, f) = ctx[f][t].invocations)'
<1>1. (MockInv => \A t, u \in Threads : \A f \in Funcs :
          Covers(u, t, f) => Due(t, f) = arming[u].count)'
  BY DueLoop, PTL
<1>2. (\A t \in Threads : \A f \in Funcs :
          (\A u \in Threads : ~Covers(u, t, f)) => Due(t, f) = ctx[f][t].invocations)'
  BY DueContext, PTL
<1> QED
  BY <1>1, <1>2

\* What is due changes with the loops and the context only.
LEMMA DueSame ==
    ASSUME MockInv, MockInv', NEW t \in Threads, NEW f \in Funcs,
           \A u \in Threads : Covers(u, t, f)' <=> Covers(u, t, f),
           \A u \in Threads : Covers(u, t, f) => arming'[u].count = arming[u].count,
           ctx'[f][t].invocations = ctx[f][t].invocations
    PROVE  Due(t, f)' = Due(t, f)
<1>1. CASE \E u \in Threads : Covers(u, t, f)
  BY <1>1, DueLoop, DueNext
<1>2. CASE \A u \in Threads : ~Covers(u, t, f)
  BY <1>2, DueContext, DueNext
<1> QED
  BY <1>1, <1>2

\* The books, and the roles, of all threads.
AllDue == [t \in Threads |-> [f \in Funcs |-> Due(t, f)]]

Role(t) == CASE Running(t) \in {"block", "invoked"} -> "user"
             [] Running(t) = "framework"           -> "framework"
             [] OTHER                              -> "internal"

\* The role of a thread says whether it sees the mocks.
LEMMA Roles ==
    ASSUME Typed, NEW t \in Threads
    PROVE  Role(t) = IF Hidden(t) THEN "internal"
                     ELSE IF Running(t) = "framework" THEN "framework" ELSE "user"
  BY CodeType DEF Role, Hidden

\* A step between two pieces of code of one thread.
LEMMA SwitchStep ==
    ASSUME NEW t \in Threads, UNCHANGED <<arming, ctx, answer>>,
           \A u \in Threads : u # t => Running(u)' = Running(u)
    PROVE  Book!BookNext
<1>1. AllDue' = AllDue
  BY DEF AllDue, Due
<1>2. [u \in Threads |-> Role(u)]' = [[u \in Threads |-> Role(u)] EXCEPT ![t] = Role(t)']
  BY DEF Role
<1>3. Role(t)' \in {"user", "framework", "internal"}
  BY DEF Role
<1>4. Book!Switch(t)
  BY <1>1, <1>2, <1>3 DEF Book!Switch, AllDue, Role
<1> QED
  BY <1>4 DEF Book!BookNext

\* A step of a loop, or one that the books do not show.
LEMMA NoBook ==
    ASSUME \A t \in Threads : \A f \in Funcs : Due(t, f)' = Due(t, f),
           UNCHANGED <<stack, answer>>
    PROVE  UNCHANGED Book!bookVars
<1>1. AllDue' = AllDue
  BY DEF AllDue
<1>2. [u \in Threads |-> Role(u)]' = [u \in Threads |-> Role(u)]
  BY DEF Role, Running
<1> QED
  BY <1>1, <1>2 DEF Book!bookVars, AllDue, Role

\* The books are empty initially.
LEMMA BookInit == Init => Book!BookInit
<1> SUFFICES ASSUME Init PROVE Book!BookInit
  OBVIOUS
<1>1. \A t \in Threads : \A f \in Funcs : Due(t, f) = 0
  BY DEF Init, Due
<1>2. \A t \in Threads : Running(t) = "runner"
  BY DEF Init, Running
<1> QED
  BY <1>1, <1>2 DEF Init, Book!BookInit

\* The head of a WHEN_CALLED writes all the contexts the loop will fill.
LEMMA WhenCalledStep ==
    ASSUME MockInv, MockInv', NEW t \in Threads, WhenCalled(t)
    PROVE  Book!BookNext
<1>a. /\ Typed /\ PhaseInv /\ ContextOpen /\ Visible /\ Looping
      /\ arming \in [Threads -> Loop \cup {NotArming}]
  BY DEF MockInv, Typed
<1>1. PICK f \in Funcs, n \in Counts, o \in Actions :
         arming' = [arming EXCEPT ![t] =
             [func |-> f, count |-> n, op |-> o,
              next |-> lower_bound(t), max |-> upper_bound(t)]]
  BY DEF WhenCalled
<1>2. /\ Running(t) \in {"block", "invoked"} /\ arming[t] = NotArming
      /\ UNCHANGED <<stack, ctx, answer>>
  BY DEF WhenCalled, Scripted
<1> DEFINE in(u) == u \in lower_bound(t)..(upper_bound(t) - 1)
<1>3. /\ arming'[t] = [func |-> f, count |-> n, op |-> o,
                       next |-> lower_bound(t), max |-> upper_bound(t)]
      /\ \A u \in Threads : u # t => arming'[u] = arming[u]
  BY <1>a, <1>1
<1>4. arming'[t] # NotArming
  <2>1. upper_bound(t) # 0
    BY ThreadFacts DEF upper_bound
  <2> QED
    BY <1>3, <2>1 DEF NotArming
<1>5. \A u \in Threads : \A g \in Funcs :
         /\ Covers(t, u, g)' <=> g = f /\ in(u)
         /\ ~Covers(t, u, g)
         /\ \A v \in Threads : v # t => (Covers(v, u, g)' <=> Covers(v, u, g))
  BY <1>2, <1>3, <1>4 DEF Covers
<1>6. ASSUME NEW u \in Threads, NEW g \in Funcs
      PROVE  Due(u, g)' = IF g = f /\ in(u) THEN n ELSE Due(u, g)
  <2>1. CASE g = f /\ in(u)
    BY <1>3, <1>5, <2>1, DueNext
  <2>2. CASE ~(g = f /\ in(u))
    <3>1. \A v \in Threads : Covers(v, u, g)' <=> Covers(v, u, g)
      BY <1>5, <2>2
    <3>2. \A v \in Threads : Covers(v, u, g) => arming'[v].count = arming[v].count
      BY <1>3, <1>5
    <3> QED
      BY <1>2, <2>2, <3>1, <3>2, DueSame
  <2> QED
    BY <2>1, <2>2
<1>7. Role(t) = "user" /\ [u \in Threads |-> Role(u)]' = [u \in Threads |-> Role(u)]
  BY <1>2 DEF Role, Running
<1>8. CASE ~global_context
  <2>1. \A u \in Threads : in(u) <=> u = t
    BY <1>8, ThreadFacts DEF lower_bound, upper_bound
  <2>2. AllDue' = [AllDue EXCEPT ![t][f] = n]
    BY <1>6, <2>1 DEF AllDue
  <2>3. Book!WishOwn(t, f)
    BY <1>2, <1>7, <2>2 DEF Book!WishOwn, AllDue, Role
  <2> QED
    BY <2>3 DEF Book!BookNext
<1>9. CASE global_context
  <2>1. \A u \in Threads : in(u)
    BY <1>9, ThreadFacts DEF lower_bound, upper_bound, Threads
  <2>2. PICK w \in Threads : pc[w] \in {"setup", "teardown"}
    BY <1>a, <1>9, ThreadFacts DEF ContextOpen
  <2>3. w = t
    BY <1>2, <2>2, Alone DEF Hidden
  <2>4. \A u \in Threads \ {t} : Role(u) = "internal"
    BY <1>a, <2>2, <2>3, Alone, Roles
  <2>5. AllDue' = [u \in Threads |-> [AllDue[u] EXCEPT ![f] = n]]
    BY <1>6, <2>1 DEF AllDue
  <2>6. Book!WishAll(t, f)
    BY <1>2, <1>7, <2>4, <2>5 DEF Book!WishAll, AllDue, Role
  <2> QED
    BY <2>6 DEF Book!BookNext
<1> QED
  BY <1>8, <1>9

\* A round of a loop writes what was due already.
LEMMA ShouldStep ==
    ASSUME MockInv, MockInv', NEW t \in Threads, Should(t)
    PROVE  UNCHANGED Book!bookVars
<1> DEFINE valid == arming[t].count >= 0 \/ arming[t].count = CLDM_MOCK_INFINITE
<1>a. /\ Typed /\ Looping
      /\ arming \in [Threads -> Loop \cup {NotArming}]
      /\ ctx \in [Funcs -> [Threads -> Context]]
  BY DEF MockInv, Typed
<1>1. PICK a : a = arming[t]
  OBVIOUS
<1>2. /\ a # NotArming /\ a \in Loop /\ a.next < a.max /\ a.max <= Jobs
      /\ UNCHANGED <<stack, answer>>
  BY <1>a, <1>1 DEF Should, Looping
<1>3. /\ a.func \in Funcs /\ a.next \in Nat /\ a.max \in Nat /\ a.next \in Threads
  <2>1. a.func \in Funcs /\ a.next \in Nat /\ a.max \in Nat
    BY <1>2 DEF Loop
  <2>2. a.next < Jobs
    BY <1>2, <2>1, ThreadFacts
  <2> QED
    BY <2>1, <2>2, ThreadFacts
<1>4. CASE ~valid
  <2>1. arming' = arming
    BY <1>a, <1>4 DEF Should
  <2>2. \A u \in Threads : \A f \in Funcs :
           ctx'[f][u].invocations = ctx[f][u].invocations
    BY <1>a, <1>4 DEF Should
  <2>3. \A u \in Threads : \A f \in Funcs : Due(u, f)' = Due(u, f)
    BY <2>1, <2>2 DEF Due
  <2> QED
    BY <1>2, <2>3, NoBook
<1>5. CASE valid
  <2>1. /\ ctx' = [ctx EXCEPT ![a.func][a.next] = [invocations |-> a.count, op |-> a.op]]
        /\ arming' = [arming EXCEPT ![t] = IF a.next + 1 = a.max THEN NotArming
                                          ELSE [a EXCEPT !.next = a.next + 1]]
    BY <1>1, <1>5 DEF Should
  <2>2. /\ \A v \in Threads : v # t => arming'[v] = arming[v]
        /\ arming'[t] = IF a.next + 1 = a.max THEN NotArming
                        ELSE [a EXCEPT !.next = a.next + 1]
    BY <1>a, <2>1
  <2>3. /\ ctx'[a.func][a.next].invocations = a.count
        /\ \A u \in Threads : \A f \in Funcs :
              f # a.func \/ u # a.next => ctx'[f][u] = ctx[f][u]
    BY <1>a, <1>3, <2>1
  <2>4. Covers(t, a.next, a.func)
    BY <1>1, <1>2, <1>3 DEF Covers
  <2>5. \A u \in Threads : \A f \in Funcs :
           Covers(t, u, f)' <=> Covers(t, u, f) /\ u # a.next
    <3>1. CASE a.next + 1 = a.max
      <4>1. arming'[t] = NotArming
        BY <2>2, <3>1
      <4>2. \A u \in a.next..(a.max - 1) : u = a.next
        BY <1>3, <3>1
      <4> QED
        BY <1>1, <4>1, <4>2 DEF Covers
    <3>2. CASE a.next + 1 # a.max
      <4>1. /\ arming'[t].next = a.next + 1 /\ arming'[t].max = a.max
            /\ arming'[t].func = a.func /\ arming'[t] = [a EXCEPT !.next = a.next + 1]
        BY <1>2, <2>2, <3>2 DEF Loop
      <4>2. arming'[t] # NotArming
        BY <1>3, <4>1 DEF NotArming
      <4>3. \A u \in Threads : u \in (a.next + 1)..(a.max - 1) <=>
                                 u \in a.next..(a.max - 1) /\ u # a.next
        BY <1>3, ThreadFacts
      <4> QED
        BY <1>1, <1>2, <4>1, <4>2, <4>3 DEF Covers
    <3> QED
      BY <3>1, <3>2
  <2>6. \A v \in Threads : \A u \in Threads : \A f \in Funcs :
           v # t => (Covers(v, u, f)' <=> Covers(v, u, f))
    BY <2>2 DEF Covers
  <2>7. Due(a.next, a.func)' = Due(a.next, a.func)
    <3>1. Due(a.next, a.func) = a.count
      BY <1>1, <1>3, <2>4, DueLoop
    <3>2. \A v \in Threads : ~Covers(v, a.next, a.func)'
      <4>1. \A v \in Threads : v # t => ~Covers(v, a.next, a.func)
        BY <1>3, <2>4, OneLoop
      <4> QED
        BY <1>3, <2>5, <2>6, <4>1
    <3>3. Due(a.next, a.func)' = ctx'[a.func][a.next].invocations
      BY <1>3, <3>2, DueNext
    <3> QED
      BY <2>3, <3>1, <3>3
  <2>8. ASSUME NEW u \in Threads, NEW f \in Funcs, f # a.func \/ u # a.next
        PROVE  Due(u, f)' = Due(u, f)
    <3>1. \A v \in Threads : Covers(v, u, f)' <=> Covers(v, u, f)
      <4>1. f # a.func => ~Covers(t, u, f)
        BY <1>1 DEF Covers
      <4> QED
        BY <2>5, <2>6, <2>8, <4>1
    <3>2. \A v \in Threads : Covers(v, u, f) => arming'[v].count = arming[v].count
      <4>1. CASE Covers(t, u, f)
        <5>1. arming'[t] # NotArming
          BY <3>1, <4>1 DEF Covers
        <5>2. arming'[t].count = a.count
          BY <1>2, <2>2, <5>1 DEF Loop
        <5> QED
          BY <1>1, <2>2, <5>2
      <4>2. CASE ~Covers(t, u, f)
        BY <2>2, <4>2
      <4> QED
        BY <4>1, <4>2
    <3> QED
      BY <2>3, <2>8, <3>1, <3>2, DueSame
  <2> QED
    BY <1>2, <2>7, <2>8, NoBook
<1> QED
  BY <1>4, <1>5

\* No loop fills the context a wrapper looks at.
LEMMA NotCovered ==
    ASSUME MockInv, NEW t \in Threads, arming[t] = NotArming, ~force_disable[t],
           NEW u \in Threads, NEW f
    PROVE  ~Covers(u, t, f)
  BY LoopsApart, Alone DEF Covers

\* A mock answers a test, which asked for it, or the framework within one.
LEMMA CallMockStep ==
    ASSUME MockInv, MockInv', NEW t \in Threads, NEW f \in Funcs, CallMock(t, f)
    PROVE  Book!BookNext
<1>a. /\ Typed /\ PhaseInv /\ Visible
      /\ ctx \in [Funcs -> [Threads -> Context]]
  BY DEF MockInv, Typed
<1>1. /\ arming[t] = NotArming /\ ~force_disable[t] /\ ctx[f][t].invocations # 0
      /\ pc[t] \notin {"main", "off"} /\ UNCHANGED <<arming, force_disable>>
      /\ ctx' = [ctx EXCEPT ![f][t].invocations = CountDown(@)]
      /\ answer' = [thread |-> t, func |-> f, by |-> "mock"]
      /\ Push(t, "invoked") \/ Push(t, "framework") \/ UNCHANGED stack
  BY DEF CallMock, MayCall, Mocked, Answer
<1>2. ~Hidden(t)
  BY <1>a, <1>1, Started DEF Visible, HiddenFromOthers, Hidden
<1>b. Role(t) \in {"user", "framework"}
  BY <1>a, <1>2, Roles
<1>3. /\ Role(t)' \in {"user", "framework"}
      /\ \A u \in Threads : u # t => Role(u)' = Role(u)
  <2>1. CASE UNCHANGED stack
    BY <1>b, <2>1 DEF Role, Running
  <2>2. ASSUME NEW c \in {"invoked", "framework"}, Push(t, c)
        PROVE  /\ Role(t)' \in {"user", "framework"}
               /\ \A u \in Threads : u # t => Role(u)' = Role(u)
    <3>1. Running(t)' = c /\ \A u \in Threads : u # t => Running(u)' = Running(u)
      BY <1>a, <1>1, <2>2, PushEffect
    <3> QED
      BY <3>1 DEF Role
  <2> QED
    BY <1>1, <2>1, <2>2
<1>4. /\ ctx'[f][t].invocations = CountDown(ctx[f][t].invocations)
      /\ \A u \in Threads : \A g \in Funcs : u # t \/ g # f => ctx'[g][u] = ctx[g][u]
  <2>1. ctx[f] \in [Threads -> Context] /\ ctx[f][t] \in Context
    BY <1>a
  <2>2. ctx'[f][t].invocations = CountDown(ctx[f][t].invocations)
    BY <1>a, <1>1, <2>1 DEF Context
  <2>3. ASSUME NEW u \in Threads, NEW g \in Funcs, u # t \/ g # f
        PROVE  ctx'[g][u] = ctx[g][u]
    <3>1. CASE g # f
      BY <1>a, <1>1, <3>1
    <3>2. CASE g = f
      BY <1>a, <1>1, <2>1, <2>3, <3>2
    <3> QED
      BY <3>1, <3>2
  <2> QED
    BY <2>2, <2>3
<1>5. \A u, v \in Threads : \A g \in Funcs : Covers(v, u, g)' <=> Covers(v, u, g)
  BY <1>1 DEF Covers
<1>6. Due(t, f) = ctx[f][t].invocations /\ Due(t, f)' = CountDown(ctx[f][t].invocations)
  <2>1. \A v \in Threads : ~Covers(v, t, f)
    BY <1>1, NotCovered
  <2>2. \A v \in Threads : ~Covers(v, t, f)'
    BY <1>5, <2>1
  <2> QED
    BY <1>4, <2>1, <2>2, DueContext, DueNext
<1>7. ASSUME NEW u \in Threads, NEW g \in Funcs, u # t \/ g # f
      PROVE  Due(u, g)' = Due(u, g)
  BY <1>1, <1>4, <1>5, <1>7, DueSame
<1>8. AllDue' = [AllDue EXCEPT ![t][f] = CountDown(@)]
  BY <1>6, <1>7, ZenonT(40) DEF AllDue
<1>9. [u \in Threads |-> Role(u)]' = [[u \in Threads |-> Role(u)] EXCEPT ![t] = Role(t)']
  BY <1>3
<1>10. AllDue[t][f] # 0
  BY <1>1, <1>6 DEF AllDue
<1>11. AllDue' = [AllDue EXCEPT ![t][f] = IF @ = Book!Forever THEN @ ELSE @ - 1]
  BY <1>8 DEF CountDown, CLDM_MOCK_INFINITE, Book!Forever
<1>12. Book!ByMock(t, f)
  BY <1>1, <1>3, <1>9, <1>10, <1>11, <1>b DEF Book!ByMock, AllDue, Role
<1> QED
  BY <1>12 DEF Book!BookNext

\* The real function answers the framework, other real functions, and a test
\* that asked for no more mocks.
LEMMA CallRealStep ==
    ASSUME MockInv, MockInv', NEW t \in Threads, NEW f \in Funcs, CallReal(t, f)
    PROVE  Book!BookNext
<1>a. Typed /\ PhaseInv /\ Visible
  BY DEF MockInv
<1>1. /\ arming[t] = NotArming /\ pc[t] \notin {"main", "off"}
      /\ force_disable[t] \/ ctx[f][t].invocations = 0
      /\ Push(t, "real") /\ UNCHANGED <<arming, ctx>>
      /\ answer' = [thread |-> t, func |-> f, by |-> "real"]
  BY DEF CallReal, MayCall, Mocked, Answer
<1>2. Role(t) = "internal" \/ AllDue[t][f] = 0
  <2>1. CASE force_disable[t]
    <3>1. Hidden(t)
      BY <1>a, <1>1, <2>1, Started DEF Visible, HiddenFromOthers, Hidden
    <3> QED
      BY <1>a, <3>1, Roles
  <2>2. CASE ~force_disable[t]
    <3>1. \A u \in Threads : ~Covers(u, t, f)
      BY <1>1, <2>2, NotCovered
    <3> QED
      BY <1>1, <2>2, <3>1, DueContext DEF AllDue
  <2> QED
    BY <2>1, <2>2
<1>3. Running(t)' = "real" /\ \A u \in Threads : u # t => Running(u)' = Running(u)
  BY <1>a, <1>1, PushEffect
<1>4. [u \in Threads |-> Role(u)]' = [[u \in Threads |-> Role(u)] EXCEPT ![t] = "internal"]
  BY <1>3 DEF Role
<1>5. AllDue' = AllDue
  BY <1>1 DEF AllDue, Due
<1>6. Book!ByReal(t, f)
  BY <1>1, <1>2, <1>4, <1>5 DEF Book!ByReal, AllDue, Role
<1> QED
  BY <1>6 DEF Book!BookNext

\* Every step of the mocks is a step of MockBook, or none.
LEMMA BookStep ==
    MockInv /\ MockInv' /\ [Next]_vars => [Book!BookNext]_Book!bookVars
<1> SUFFICES ASSUME MockInv, MockInv', [Next]_vars
             PROVE  Book!BookNext \/ UNCHANGED Book!bookVars
  OBVIOUS
<1>a. /\ Typed /\ Visible /\ Nested
      /\ stack \in [Threads -> Seq(Frame)]
  BY DEF MockInv, Typed, Visible
<1> DEFINE Moves(t) == /\ UNCHANGED <<arming, ctx, answer>>
                       /\ \A u \in Threads : u # t => stack'[u] = stack[u]
<1>1. ASSUME NEW t \in Threads, Moves(t) PROVE Book!BookNext
  BY <1>1, SwitchStep DEF Running
<1>2. UNCHANGED vars => Moves(0)
  BY DEF vars
<1>3. cldm_mock_disable_all \/ Barrier => Moves(0)
  BY DEF cldm_mock_disable_all, Barrier
<1>4. GlobalSetup \/ GlobalSetupEnd => Moves(Collector)
  BY <1>a DEF GlobalSetup, GlobalSetupEnd, EnterGlobal, LeaveGlobal, Push, Pop
<1>5. GlobalTeardown \/ GlobalTeardownEnd => Moves(0)
  BY <1>a DEF GlobalTeardown, GlobalTeardownEnd, EnterGlobal, LeaveGlobal, Push, Pop
<1>6. ASSUME NEW t \in Threads, \/ Ready(t) \/ BeginTest(t) \/ EndTest(t) \/ LoopDone(t)
                               \/ Assertion(t) \/ Return(t)
      PROVE  Moves(t)
  BY <1>6, <1>a DEF Ready, BeginTest, EndTest, LoopDone, Assertion, Return, Push, Pop
<1> HIDE DEF Moves
<1>7. ASSUME NEW t \in Threads, WhenCalled(t) PROVE Book!BookNext
  BY <1>7, WhenCalledStep
<1>8. ASSUME NEW t \in Threads, Should(t) PROVE UNCHANGED Book!bookVars
  BY <1>8, ShouldStep
<1>9. ASSUME NEW t \in Threads, NEW f \in Funcs, CallMock(t, f) \/ CallReal(t, f)
      PROVE  Book!BookNext
  BY <1>9, CallMockStep, CallRealStep
<1> QED
  BY <1>1, <1>2, <1>3, <1>4, <1>5, <1>6, <1>7, <1>8, <1>9, ThreadFacts
     DEF Next, RunnerStep, CodeStep, Finished

\* For any threads, mocked functions, counts and depth of calls, the wrappers
\* and WHEN_CALLED keep the books: a mock answers as many calls as were asked
\* for, on the threads they were asked for, only to code of a test and to the
\* assertions and warnings of cldm within it.
THEOREM BookKept == Spec => ImplementsMockBook
<1> QED
  BY BookInit, BookStep, MockHolds, PTL DEF Spec, ImplementsMockBook, Book!BookSpec
=============================================================================
