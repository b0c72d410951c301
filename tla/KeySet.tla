------------------------------- MODULE KeySet -------------------------------
(***************************************************************************)
(* What cldm_hash gives its callers: a set of keys.  Inserting a key       *)
(* reports whether it was new, removing one whether it was there, finding  *)
(* one whether it is there.  An insertion may fail for want of memory and  *)
(* then changes nothing.                                                   *)
(*                                                                         *)
(* Nothing is promised to callers that insert after a removal, until they  *)
(* clear the set.  HashTable implements this specification.                *)
(***************************************************************************)
CONSTANT Keys

VARIABLES content,  \* the keys in the set
          mixed,    \* was a key inserted after a removal
          reply     \* the last operation, its key and its result

setVars == <<content, mixed, reply>>

Reply(op, k, r) == reply' = [op |-> op, key |-> k, result |-> r]

SetInit ==
    /\ content = {}
    /\ mixed = FALSE
    /\ reply = [op |-> "none", key |-> {}, result |-> FALSE]

SetInsert(k) ==
    \/ Reply("insert", k, k \notin content) /\ content' = content \cup {k}
    \/ Reply("insert", k, FALSE) /\ UNCHANGED content

SetFind(k) == Reply("find", k, k \in content) /\ UNCHANGED content

SetRemove(k) ==
    /\ Reply("remove", k, k \in content)
    /\ content' = content \ {k}

SetClear == Reply("clear", {}, TRUE) /\ content' = {}

SetNext ==
    \/ mixed'
    \/ /\ ~mixed'
       /\ (\E k \in Keys : SetInsert(k) \/ SetFind(k) \/ SetRemove(k)) \/ SetClear

SetSpec == SetInit /\ [][SetNext]_setVars
=============================================================================
