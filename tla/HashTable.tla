----------------------------- MODULE HashTable ------------------------------
(***************************************************************************)
(* cldm_hash.c: a hash table with linear probing, removal by marking slots *)
(* as vacated, and rehashing into a larger prime capacity at half load.    *)
(*                                                                         *)
(* A key stands for the bytes an entry points to; which hash values the    *)
(* keys have is arbitrary, so every assignment of them is an initial       *)
(* state.  The first StaticCapacity slots live inside struct cldm_ht, a    *)
(* larger table on the heap.                                               *)
(***************************************************************************)
EXTENDS Integers, FiniteSets, FiniteSetsExt

CONSTANTS
    Keys,
    HashValues,      \* the values cldm_hash_fnv1a may yield
    StaticCapacity,  \* CLDM_HASH_STATIC_SIZE
    Empty,           \* a slot with status 0
    Vacant,          \* a slot with status CLDM_HASH_VACANT
    Faults,          \* {"calloc"} if the allocation may fail
    MaxCapacity,     \* bound: the table grows no larger
    MixedCapacity    \* bound: nor is it used mixed when it is larger than this

ASSUME CapacityAssumption == StaticCapacity \in Nat \ {0, 1}
ASSUME BoundsAssumption   == MaxCapacity \in Nat /\ StaticCapacity <= MaxCapacity
                             /\ MixedCapacity \in Nat
ASSUME KeysAssumption     == IsFiniteSet(Keys) /\ Empty \notin Keys
                             /\ Vacant \notin Keys /\ Empty # Vacant
ASSUME HashAssumption     == HashValues \subseteq Nat
ASSUME FaultAssumption    == Faults \subseteq {"calloc"}

VARIABLES
    hash,     \* key -> hash value, fixed from the start
    slots,    \* the entries of the storage in use
    size,
    heap,     \* the capacities of the live heap blocks
    state,    \* "up", "freed", or how an operation went wrong
    use,      \* history: what callers did since the last clear, see Uses
    reply     \* history: the last operation, its key and its result

vars == <<hash, slots, size, heap, state, use, reply>>

\* Nothing was removed, nothing was inserted after a removal, or both happened.
Uses == {"filled", "drained", "mixed"}

Capacity == Cardinality(DOMAIN slots)

EmptyTable(cap) == [i \in 0..(cap - 1) |-> Empty]

Answer(op, k, r) == reply' = [op |-> op, key |-> k, result |-> r]

Init ==
    /\ hash \in [Keys -> HashValues]
    /\ slots = EmptyTable(StaticCapacity)
    /\ size = 0
    /\ heap = {}
    /\ state = "up"
    /\ use = "filled"
    /\ reply = [op |-> "none", key |-> {}, result |-> FALSE]

-----------------------------------------------------------------------------
(* Sizes.                                                                  *)

\* cldm_is_prime.  The test for even numbers rejects only 0, and of the two
\* candidates 6n - 1 and 6n + 1 only the first is tried as a divisor.
IsPrime(n) ==
    \/ n \in {2, 3}
    \/ /\ n # 0
       /\ n % 3 # 0
       /\ \A d \in {6 * m : m \in 1..n} :
             d * d - 2 * d < n => n % (d - 1) # 0

\* cldm_ht_sizeup: the next odd number from 2 * cap + 1 that passes.
Sizeup(cap) ==
    Min({n \in (2 * cap + 1)..(4 * cap + 5) : n % 2 = 1 /\ IsPrime(n)})

\* Slip: the table is filled to the last slot before it grows.
ShouldExpand_full == size + 1 > Capacity

ShouldExpand == size + 1 > Capacity \div 2

\* The search for a larger size, which the code does not limit, finds one, as
\* there is a prime number between 2 * c + 1 and 4 * c + 2.
ASSUME GrowthAssumption ==
    \A c \in StaticCapacity..MaxCapacity :
        \E n \in (2 * c + 1)..(4 * c + 5) : n % 2 = 1 /\ IsPrime(n)

-----------------------------------------------------------------------------
(* Probing.                                                                *)

\* The slot i steps from the key's home slot.
Position(s, k, i) ==
    LET cap == Cardinality(DOMAIN s) IN ((hash[k] % cap) + i) % cap

\* Slip: a search stops at vacated slots too.
Stops_vacant(s, k, reuse) ==
    {i \in DOMAIN s : s[Position(s, k, i)] \in {Empty, Vacant, k}}

\* The distances at which the probing loop would stop.
Stops(s, k, reuse) ==
    {i \in DOMAIN s : LET e == s[Position(s, k, i)]
                      IN  e \in {Empty, k} \/ (reuse /\ e = Vacant)}

\* cldm_ht_probe ends at the first of them, if there is one.
Ends(s, k, reuse)  == Stops(s, k, reuse) # {}
Probe(s, k, reuse) == Position(s, k, Min(Stops(s, k, reuse)))

\* The part of cldm_ht_insert behind the expansion.
Put(s, k) ==
    LET p == Probe(s, k, TRUE) IN [s EXCEPT ![p] = k]

\* The rehashing loops of cldm_ht_expand: every entry is inserted anew, slot
\* by slot.  None of these insertions expands again, the new table being more
\* than twice as large as the old one.
Rehash(s, cap) ==
    LET step[n \in 0..Cardinality(DOMAIN s)] ==
          IF n = 0 THEN EmptyTable(cap)
          ELSE IF s[n - 1] = Empty THEN step[n - 1]
          ELSE Put(step[n - 1], s[n - 1])
    IN  step[Cardinality(DOMAIN s)]

\* The number of entries of a table.
Count(s) == Cardinality({i \in DOMAIN s : s[i] \in Keys})

-----------------------------------------------------------------------------
(* The operations.                                                         *)

\* The end of cldm_ht_insert on the table s with n entries: a key that is
\* found is not inserted again.  Fewer than all slots hold an entry, so the
\* probing ends.
Store(s, n, k) ==
    LET new == s[Probe(s, k, TRUE)] # k
    IN  /\ slots' = Put(s, k)
        /\ size' = IF new THEN n + 1 ELSE n
        /\ Answer("insert", k, new)
        /\ UNCHANGED state

\* Slip: the old heap block is not freed.
Replaced_leak(cap) == heap \cup {cap}

\* The heap once a table of the given capacity has replaced the old one.
Replaced(cap) == (heap \ {Capacity}) \cup {cap}

\* The expansion inserts every slot whose status is not 0, the vacated ones
\* included, and hashes what their key points to: 1 is the address of nothing.
Expand(k) ==
    IF \E i \in DOMAIN slots : slots[i] = Vacant
      THEN state' = "crashed" /\ UNCHANGED <<slots, size, heap, reply>>
      ELSE LET cap == Sizeup(Capacity)
               s   == Rehash(slots, cap)
           IN  Store(s, Count(s), k) /\ heap' = Replaced(cap)

\* cldm_ht_insert.
Insert(k) ==
    /\ state = "up"
    /\ ShouldExpand => Sizeup(Capacity) <= MaxCapacity
    /\ use # "filled" => Capacity <= MixedCapacity
    /\ \/ ~ShouldExpand /\ Store(slots, size, k) /\ UNCHANGED heap
       \/ ShouldExpand /\ Expand(k)
       \/ /\ ShouldExpand /\ "calloc" \in Faults
          /\ Answer("insert", k, FALSE)
          /\ UNCHANGED <<slots, size, heap, state>>
    /\ use' = IF use = "filled" THEN use ELSE "mixed"
    /\ UNCHANGED hash

\* A search that does not end gives no answer.
Search(op, k, answer) ==
    IF Ends(slots, k, FALSE)
      THEN Answer(op, k, answer) /\ UNCHANGED state
      ELSE state' = "endless" /\ UNCHANGED reply

\* Is the slot at which the search for k ends the one with k?
IsThere(k) == Ends(slots, k, FALSE) /\ slots[Probe(slots, k, FALSE)] = k

\* cldm_ht_find.
Find(k) ==
    /\ state = "up"
    /\ Search("find", k, IsThere(k))
    /\ UNCHANGED <<hash, slots, size, heap, use>>

\* cldm_ht_remove: the slot stays vacated, not empty.
Remove(k) ==
    /\ state = "up"
    /\ Search("remove", k, IsThere(k))
    /\ IF IsThere(k)
         THEN /\ slots' = [slots EXCEPT ![Probe(slots, k, FALSE)] = Vacant]
              /\ size' = size - 1
              /\ use' = IF use = "mixed" THEN use ELSE "drained"
         ELSE UNCHANGED <<slots, size, use>>
    /\ UNCHANGED <<hash, heap>>

\* cldm_ht_clear.
Clear ==
    /\ state = "up"
    /\ slots' = EmptyTable(Capacity)
    /\ size' = 0
    /\ use' = "filled"
    /\ Answer("clear", {}, TRUE)
    /\ UNCHANGED <<hash, heap, state>>

\* cldm_ht_free.
Free ==
    /\ state = "up"
    /\ heap' = IF Capacity > StaticCapacity THEN heap \ {Capacity} ELSE heap
    /\ state' = "freed"
    /\ UNCHANGED <<hash, slots, size, use, reply>>

Finished == state # "up" /\ UNCHANGED vars

Next ==
    \/ \E k \in Keys : Insert(k) \/ Find(k) \/ Remove(k)
    \/ Clear \/ Free \/ Finished

Spec == Init /\ [][Next]_vars

-----------------------------------------------------------------------------
(* Correctness.                                                            *)

\* As long as nothing is inserted after a removal there is an empty slot, so
\* that a search for a missing key ends, and no vacated slot is rehashed.
RoomToStop ==
    use # "mixed" => /\ \E i \in DOMAIN slots : slots[i] = Empty
                     /\ state \in {"up", "freed"}

\* cldm_ht_free leaves no heap block behind, and before that exactly the
\* block in use is live, however often the table grew.
NoLeak ==
    /\ state = "freed" => heap = {}
    /\ state = "up" => heap = IF Capacity > StaticCapacity THEN {Capacity} ELSE {}

Abstract == INSTANCE KeySet WITH
    content <- {slots[i] : i \in DOMAIN slots} \cap Keys,
    mixed   <- use = "mixed"

\* The table answers every call as a set of keys would: what is inserted is
\* found until it is removed, across collisions, vacated slots and rehashing,
\* as long as nothing is inserted after a removal.
ImplementsKeySet == Abstract!SetSpec
=============================================================================
