------------------------- MODULE MainThread -------------------------
(***************************************************************************)
(* What the parts of the main thread share: where it is, and how many of   *)
(* the calls it makes into the C library have failed so far.               *)
(***************************************************************************)
EXTENDS Naturals

CONSTANT MaxFailures    \* bound: failing calls in one run

ASSUME MaxFailuresAssumption == MaxFailures \in Nat

VARIABLES at,       \* the part of the program that is being executed
          failures  \* history: the calls that have failed

mainVars == <<at, failures>>

Streams == {"out", "err"}   \* the standard streams that can be captured

Goto(place) == at' = place

Succeeds == UNCHANGED failures
Fails    == failures < MaxFailures /\ failures' = failures + 1
=============================================================================
