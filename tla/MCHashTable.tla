---------------------------- MODULE MCHashTable -----------------------------
(***************************************************************************)
(* Small instances of HashTable: a static capacity of 3 instead of 31, so  *)
(* that four keys make the table grow twice, to 7 and to 17 slots.         *)
(***************************************************************************)
EXTENDS HashTable, TLC

CONSTANTS k1, k2, k3, k4

FourKeys == {k1, k2, k3, k4}

\* Every assignment of hash values is an initial state, so keys can be swapped.
KeySymmetry == Permutations(FourKeys)
=============================================================================
