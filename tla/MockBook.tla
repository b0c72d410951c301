------------------------------ MODULE MockBook ------------------------------
(***************************************************************************)
(* What the mocks of cldm do for the author of a test.  Every thread has a *)
(* book that says how many more of its calls of a function are to be       *)
(* answered by the mock.  A test writes into the book of its own thread,   *)
(* the global setup and teardown into all of them while no test runs.      *)
(*                                                                         *)
(* The book answers the calls a test makes, and just as well those cldm    *)
(* itself makes on behalf of a test, in an assertion or in a warning about *)
(* a mock.  Only the runner, between the tests, and the real functions are *)
(* sure to get the real function.  That is less than the comment at        *)
(* src/cldm/main/cldm_main.c:15 says, "Prevent mocks from interfering with *)
(* internals": a test that mocks realloc mocks the growth of the message   *)
(* log too.                                                                *)
(*                                                                         *)
(* MockCalls implements this specification.                                *)
(***************************************************************************)
EXTENDS Integers

CONSTANTS Threads, Funcs, Counts

VARIABLES due,     \* thread and function -> calls left for the mock
          role,    \* thread -> whose code runs: the author's "user", cldm's
                   \* "framework" within a test, any other "internal"
          answer   \* the last call: its thread and function, who answered

bookVars == <<due, role, answer>>

Forever == -1

BookInit ==
    /\ due = [t \in Threads |-> [f \in Funcs |-> 0]]
    /\ role = [t \in Threads |-> "internal"]
    /\ answer = [thread |-> -1, func |-> {}, by |-> "none"]

\* A test says what calls of f by its own thread are to do.
WishOwn(t, f) ==
    /\ role[t] = "user"
    /\ \E n \in Counts : due' = [due EXCEPT ![t][f] = n]
    /\ UNCHANGED <<role, answer>>

\* The global setup or teardown says it for all threads.
WishAll(t, f) ==
    /\ role[t] = "user"
    /\ \A u \in Threads \ {t} : role[u] = "internal"
    /\ \E n \in Counts : due' = [u \in Threads |-> [due[u] EXCEPT ![f] = n]]
    /\ UNCHANGED <<role, answer>>

\* The mock answers a test, or an assertion or a warning within one.
ByMock(t, f) ==
    /\ role[t] \in {"user", "framework"} /\ due[t][f] # 0
    /\ due' = [due EXCEPT ![t][f] = IF @ = Forever THEN @ ELSE @ - 1]
    /\ answer' = [thread |-> t, func |-> f, by |-> "mock"]
    /\ role' \in {[role EXCEPT ![t] = r] : r \in {"user", "framework"}}

\* The real function answers, and is running from now on.
ByReal(t, f) ==
    /\ role[t] = "internal" \/ due[t][f] = 0
    /\ answer' = [thread |-> t, func |-> f, by |-> "real"]
    /\ role' = [role EXCEPT ![t] = "internal"]
    /\ UNCHANGED due

\* A test, an assertion or a function begins or ends.
Switch(t) ==
    /\ \E r \in {"user", "framework", "internal"} : role' = [role EXCEPT ![t] = r]
    /\ UNCHANGED <<due, answer>>

BookNext ==
    \E t \in Threads :
        \/ Switch(t)
        \/ \E f \in Funcs : WishOwn(t, f) \/ WishAll(t, f) \/ ByMock(t, f) \/ ByReal(t, f)

BookSpec == BookInit /\ [][BookNext]_bookVars
=============================================================================
