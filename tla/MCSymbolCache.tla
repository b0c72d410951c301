--------------------------- MODULE MCSymbolCache ----------------------------
(***************************************************************************)
(* Small instances of SymbolCache: up to four mocked functions and two     *)
(* libraries, in each of which a function may be missing, defined, or      *)
(* found to be its own wrapper.                                            *)
(***************************************************************************)
EXTENDS SymbolCache, TLC

CONSTANTS foo, bar, baz, qux

\* The functions whose names fit are interchangeable.
Fitting == Permutations({foo, bar, baz})
=============================================================================
