---------------------------- MODULE MCMockCalls -----------------------------
(***************************************************************************)
(* A small instance of MockCalls: one mocked procedure with a parameter.   *)
(***************************************************************************)
EXTENDS MockCalls

CONSTANT qsort

MCShape == [f \in {qsort} |-> ProcedureVariadic]

\* None, twice, for ever, and a count that WHEN_CALLED refuses.
MCCounts == {-2, -1, 0, 2}
=============================================================================
