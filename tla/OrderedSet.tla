----------------------------- MODULE OrderedSet -----------------------------
(***************************************************************************)
(* What cldm_rbtree gives its callers: a set of keys that can be walked    *)
(* through in order.  Inserting a key reports whether it was new, finding  *)
(* one whether it is there, removing one whether it was there; a walk      *)
(* visits every key once, from the least to the greatest.                  *)
(*                                                                         *)
(* A set from which keys were removed is only good for finding and for     *)
(* removing the rest: it is neither inserted into nor walked through until *)
(* it is empty.  RbTree implements this specification.                     *)
(***************************************************************************)
EXTENDS Integers, Sequences, SequencesExt

CONSTANT Keys   \* a set of integers

VARIABLES content,  \* the keys in the set
          drained,  \* are there keys left after a removal
          reply     \* the last operation, its key and its result

orderedVars == <<content, drained, reply>>

Answers(op, k, r) == reply' = [op |-> op, key |-> k, result |-> r]

OrderedInit ==
    /\ content = {}
    /\ drained = FALSE
    /\ reply = [op |-> "none", key |-> 0, result |-> << >>]

PutKey(k) ==
    /\ ~drained
    /\ Answers("insert", k, k \notin content)
    /\ content' = content \cup {k}
    /\ UNCHANGED drained

FindKey(k) == Answers("find", k, k \in content) /\ UNCHANGED <<content, drained>>

RemoveKey(k) ==
    /\ Answers("remove", k, k \in content)
    /\ content' = content \ {k}
    /\ drained' = (content' # {} /\ (drained \/ k \in content))

ClearKeys ==
    /\ Answers("clear", 0, TRUE)
    /\ content' = {}
    /\ drained' = FALSE

Walk ==
    /\ ~drained
    /\ Answers("walk", 0, SetToSortSeq(content, <))
    /\ UNCHANGED <<content, drained>>

OrderedNext ==
    \/ \E k \in Keys : PutKey(k) \/ FindKey(k) \/ RemoveKey(k)
    \/ ClearKeys
    \/ Walk

OrderedSpec == OrderedInit /\ [][OrderedNext]_orderedVars
=============================================================================
