--------------------------- MODULE MCParallelRun ---------------------------
(* Instances of ParallelRun for TLC.                                       *)
EXTENDS ParallelRun

\* A passing test, a failing one, and one that fails while its log cannot
\* grow.
MCOutcomes == {[total |-> 1, failed |-> 0, logged |-> 0],
               [total |-> 1, failed |-> 1, logged |-> 1],
               [total |-> 1, failed |-> 1, logged |-> 0]}

\* The same without the failing realloc.
MCPassFail == {[total |-> 1, failed |-> 0, logged |-> 0],
               [total |-> 1, failed |-> 1, logged |-> 1]}
=============================================================================
