----------------------------- MODULE HashProofs -----------------------------
(***************************************************************************)
(* The hash table of HashTable implements a set of keys, always has room   *)
(* for a search to stop and leaks no block: for any keys, any hash values  *)
(* they may have and any static capacity.  Inductions over slots take the  *)
(* least slot at which the claim fails.                                    *)
(***************************************************************************)
EXTENDS HashTable, FiniteSetTheorems, WellFoundedInduction, TLAPS

-----------------------------------------------------------------------------
(* Least elements, on which the inductions below and cldm_ht_probe rest.   *)

Below == {p \in Nat \X Nat : p[1] < p[2]}

\* A set of natural numbers that is not empty has a least element.
LEMMA LeastExists ==
    ASSUME NEW S, S \subseteq Nat, S # {}
    PROVE  \E n \in S : \A m \in S : n <= m
<1>1. IsWellFoundedOn(Below, Nat)
  BY NatLessThanWellFounded DEF Below, OpToRel
<1>2. PICK n \in S : \A m \in S : <<m, n>> \notin Below
  BY <1>1, WFMin
<1>3. ASSUME NEW m \in S PROVE n <= m
  <2>1. m \in Nat /\ n \in Nat
    OBVIOUS
  <2>2. <<m, n>> \in Nat \X Nat /\ <<m, n>>[1] = m /\ <<m, n>>[2] = n
    BY <2>1
  <2>3. ~(m < n)
    BY <1>2, <2>2 DEF Below
  <2> QED
    BY <2>1, <2>3
<1> QED
  BY <1>3

\* Min takes that element.
LEMMA MinIsLeast ==
    ASSUME NEW S, S \subseteq Nat, S # {}
    PROVE  Min(S) \in S /\ \A m \in S : Min(S) <= m
<1>1. \E n \in S : \A m \in S : n =< m
  BY LeastExists
<1> QED
  BY <1>1 DEF Min

\* cldm_ht_sizeup more than doubles the capacity.
LEMMA Grows ==
    ASSUME NEW c \in StaticCapacity..MaxCapacity
    PROVE  Sizeup(c) \in Nat /\ Sizeup(c) >= 2 * c + 1
<1> DEFINE S == {n \in (2 * c + 1)..(4 * c + 5) : n % 2 = 1 /\ IsPrime(n)}
<1>1. c \in Nat
  BY CapacityAssumption, BoundsAssumption
<1>2. S \subseteq Nat /\ \A n \in S : n >= 2 * c + 1
  BY <1>1
<1>3. S # {}
  BY GrowthAssumption
<1>4. Min(S) \in S
  BY <1>2, <1>3, MinIsLeast
<1> QED
  BY <1>2, <1>4 DEF Sizeup

-----------------------------------------------------------------------------
(* Probing.                                                                *)

Entries == Keys \cup {Empty, Vacant}

Tables(c) == [0..(c - 1) -> Entries]

Hashes == hash \in [Keys -> HashValues]

\* A table of c slots has capacity c.
LEMMA TableSize ==
    ASSUME NEW c \in Nat, NEW s \in Tables(c)
    PROVE  DOMAIN s = 0..(c - 1) /\ Cardinality(DOMAIN s) = c
BY FS_Interval DEF Tables

\* cldm_hash_entry goes round the table.
LEMMA PositionIs ==
    ASSUME Hashes, NEW c \in Nat \ {0}, NEW s \in Tables(c), NEW k \in Keys
    PROVE  \E a \in 0..(c - 1) : \A i \in 0..(c - 1) :
              Position(s, k, i) = IF a + i < c THEN a + i ELSE a + i - c
<1> DEFINE a == hash[k] % c
<1>1. hash[k] \in Nat
  BY HashAssumption DEF Hashes
<1>2. a \in 0..(c - 1)
  BY <1>1
<1>3. Cardinality(DOMAIN s) = c
  BY TableSize
<1>4. \A i \in 0..(c - 1) : Position(s, k, i) = (a + i) % c
  BY <1>3 DEF Position
<1> HIDE DEF a
<1>5. \A i \in 0..(c - 1) : (a + i) % c = IF a + i < c THEN a + i ELSE a + i - c
  BY <1>2
<1> QED
  BY <1>2, <1>4, <1>5

\* Within one round every slot is met exactly once.
LEMMA Round ==
    ASSUME Hashes, NEW c \in Nat \ {0}, NEW s \in Tables(c), NEW k \in Keys
    PROVE  /\ \A i \in 0..(c - 1) : Position(s, k, i) \in 0..(c - 1)
           /\ \A i, j \in 0..(c - 1) : Position(s, k, i) = Position(s, k, j) => i = j
           /\ \A p \in 0..(c - 1) : \E i \in 0..(c - 1) : Position(s, k, i) = p
<1>1. PICK a \in 0..(c - 1) : \A i \in 0..(c - 1) :
              Position(s, k, i) = IF a + i < c THEN a + i ELSE a + i - c
  BY PositionIs
<1>2. \A i \in 0..(c - 1) : Position(s, k, i) \in 0..(c - 1)
  BY <1>1
<1>3. \A i, j \in 0..(c - 1) : Position(s, k, i) = Position(s, k, j) => i = j
  BY <1>1
<1>4. ASSUME NEW p \in 0..(c - 1)
      PROVE  \E i \in 0..(c - 1) : Position(s, k, i) = p
  <2>1. CASE p >= a
    <3>1. p - a \in 0..(c - 1) /\ Position(s, k, p - a) = p
      BY <1>1, <2>1
    <3> QED
      BY <3>1
  <2>2. CASE p < a
    <3>1. p - a + c \in 0..(c - 1) /\ Position(s, k, p - a + c) = p
      BY <1>1, <2>2
    <3> QED
      BY <3>1
  <2> QED
    BY <2>1, <2>2
<1> QED
  BY <1>2, <1>3, <1>4

\* The slot that ends the probing is the first one at which it may end.
LEMMA ProbeIs ==
    ASSUME Hashes, NEW c \in Nat \ {0}, NEW s \in Tables(c), NEW k \in Keys,
           NEW reuse \in BOOLEAN, Ends(s, k, reuse)
    PROVE  \E d \in 0..(c - 1) :
              /\ d \in Stops(s, k, reuse)
              /\ \A j \in 0..(d - 1) : j \notin Stops(s, k, reuse)
              /\ Probe(s, k, reuse) = Position(s, k, d)
<1> DEFINE d == Min(Stops(s, k, reuse))
<1>1. Stops(s, k, reuse) \subseteq 0..(c - 1)
  BY TableSize DEF Stops
<1>2. Stops(s, k, reuse) # {}
  BY DEF Ends
<1>3. d \in Stops(s, k, reuse) /\ \A m \in Stops(s, k, reuse) : d <= m
  BY <1>1, <1>2, MinIsLeast
<1>4. Probe(s, k, reuse) = Position(s, k, d)
  BY DEF Probe
<1> HIDE DEF d
<1>5. d \in 0..(c - 1)
  BY <1>1, <1>3
<1>6. \A j \in 0..(d - 1) : j \notin Stops(s, k, reuse)
  BY <1>3, <1>5
<1> QED
  BY <1>3, <1>4, <1>5, <1>6

\* Membership in Stops.
LEMMA StopsAt ==
    ASSUME NEW c \in Nat \ {0}, NEW s \in Tables(c), NEW k, NEW reuse,
           NEW i \in 0..(c - 1)
    PROVE  i \in Stops(s, k, reuse) <=>
              \/ s[Position(s, k, i)] = Empty
              \/ s[Position(s, k, i)] = k
              \/ reuse /\ s[Position(s, k, i)] = Vacant
<1>1. i \in DOMAIN s
  BY TableSize
<1> QED
  BY <1>1 DEF Stops

-----------------------------------------------------------------------------
(* Counting slots.                                                         *)

UsedSlots(s) == {i \in DOMAIN s : s[i] # Empty}

\* The slots at which a search does not stop for want of an entry.
Used(s) == Cardinality(UsedSlots(s))

\* Tables have finitely many slots.
LEMMA SlotsFinite ==
    ASSUME NEW c \in Nat, NEW s \in Tables(c), NEW S, S \subseteq DOMAIN s
    PROVE  IsFiniteSet(S) /\ Cardinality(S) \in Nat /\ Cardinality(S) <= c
<1>1. DOMAIN s = 0..(c - 1) /\ Cardinality(DOMAIN s) = c
  BY TableSize
<1>2. IsFiniteSet(DOMAIN s)
  BY <1>1, FS_Interval
<1> QED
  BY <1>1, <1>2, FS_Subset, FS_CardinalityType

\* The two counts of a table; a slot with an entry is used.
LEMMA CountTypes ==
    ASSUME NEW c \in Nat, NEW s \in Tables(c)
    PROVE  /\ Count(s) \in Nat /\ Used(s) \in Nat
           /\ Count(s) <= Used(s) /\ Used(s) <= c
<1>1. {i \in DOMAIN s : s[i] \in Keys} \subseteq UsedSlots(s)
  BY KeysAssumption DEF UsedSlots
<1>2. UsedSlots(s) \subseteq DOMAIN s
  BY DEF UsedSlots
<1>3. IsFiniteSet(UsedSlots(s)) /\ Used(s) \in Nat /\ Used(s) <= c
  BY <1>2, SlotsFinite DEF Used
<1> QED
  BY <1>1, <1>3, FS_Subset, FS_CardinalityType DEF Count, Used

\* An entry that takes a slot is one more, and one more used slot if the slot
\* was empty.
LEMMA CountPut ==
    ASSUME NEW c \in Nat, NEW s \in Tables(c), NEW p \in 0..(c - 1), NEW k \in Keys,
           s[p] \notin Keys
    PROVE  /\ Count([s EXCEPT ![p] = k]) = Count(s) + 1
           /\ s[p] = Empty => Used([s EXCEPT ![p] = k]) = Used(s) + 1
<1> DEFINE t == [s EXCEPT ![p] = k]
           A == {i \in DOMAIN s : s[i] \in Keys}
<1>1. DOMAIN s = 0..(c - 1)
  BY TableSize
<1>2. {i \in DOMAIN t : t[i] \in Keys} = A \cup {p} /\ p \notin A /\ IsFiniteSet(A)
  BY <1>1, SlotsFinite
<1>3. Count(t) = Count(s) + 1
  BY <1>2, FS_AddElement DEF Count
<1>4. ASSUME s[p] = Empty PROVE Used(t) = Used(s) + 1
  <2>1. /\ UsedSlots(t) = UsedSlots(s) \cup {p} /\ p \notin UsedSlots(s)
        /\ UsedSlots(s) \subseteq DOMAIN s
    BY <1>1, <1>4, KeysAssumption DEF UsedSlots
  <2> QED
    BY <2>1, SlotsFinite, FS_AddElement DEF Used
<1> QED
  BY <1>3, <1>4

\* A vacated slot holds no entry, but remains used.
LEMMA CountVacate ==
    ASSUME NEW c \in Nat, NEW s \in Tables(c), NEW p \in 0..(c - 1), s[p] \in Keys
    PROVE  /\ Count([s EXCEPT ![p] = Vacant]) = Count(s) - 1
           /\ Used([s EXCEPT ![p] = Vacant]) = Used(s)
<1> DEFINE t == [s EXCEPT ![p] = Vacant]
           A == {i \in DOMAIN s : s[i] \in Keys}
<1>1. DOMAIN s = 0..(c - 1)
  BY TableSize
<1>2. {i \in DOMAIN t : t[i] \in Keys} = A \ {p} /\ p \in A /\ IsFiniteSet(A)
  BY <1>1, SlotsFinite, KeysAssumption
<1>3. Count(t) = Count(s) - 1
  <2> HIDE DEF A, t
  <2>1. Cardinality(A \ {p}) = Cardinality(A) - 1
    BY <1>2, FS_RemoveElement
  <2>2. Count(t) = Cardinality(A \ {p})
    BY <1>2 DEF Count
  <2> QED
    BY <2>1, <2>2 DEF A, Count
<1>4. UsedSlots(t) = UsedSlots(s)
  BY <1>1, KeysAssumption DEF UsedSlots
<1> QED
  BY <1>3, <1>4 DEF Used

\* An empty table.
LEMMA CountEmpty ==
    ASSUME NEW c \in Nat
    PROVE  /\ EmptyTable(c) \in Tables(c)
           /\ Count(EmptyTable(c)) = 0 /\ Used(EmptyTable(c)) = 0
<1>1. EmptyTable(c) \in Tables(c)
  BY DEF EmptyTable, Tables, Entries
<1>2. /\ {i \in DOMAIN EmptyTable(c) : EmptyTable(c)[i] \in Keys} = {}
      /\ UsedSlots(EmptyTable(c)) = {}
  BY KeysAssumption DEF EmptyTable, UsedSlots
<1> QED
  BY <1>1, <1>2, FS_EmptySet DEF Count, Used

\* A table that is not used up has an empty slot.
LEMMA SomeEmpty ==
    ASSUME NEW c \in Nat, NEW s \in Tables(c), Used(s) < c
    PROVE  \E i \in DOMAIN s : s[i] = Empty
<1> SUFFICES ASSUME \A i \in DOMAIN s : s[i] # Empty PROVE FALSE
  OBVIOUS
<1>1. UsedSlots(s) = DOMAIN s
  BY DEF UsedSlots
<1> QED
  BY <1>1, TableSize DEF Used

\* A table with fewer entries than slots has one without an entry.
LEMMA SomeFree ==
    ASSUME NEW c \in Nat, NEW s \in Tables(c), Count(s) < c
    PROVE  \E i \in DOMAIN s : s[i] \in {Empty, Vacant}
<1> SUFFICES ASSUME \A i \in DOMAIN s : s[i] \in Keys PROVE FALSE
  BY TableSize DEF Tables, Entries
<1>1. {i \in DOMAIN s : s[i] \in Keys} = DOMAIN s
  OBVIOUS
<1> QED
  BY <1>1, TableSize DEF Count

-----------------------------------------------------------------------------
(* Sound tables: those on which linear probing works.                      *)

\* No key is stored twice.
Unique(s) ==
    \A i, j \in DOMAIN s : s[i] \in Keys /\ s[i] = s[j] => i = j

\* On the way from its home slot to a key there is no empty slot.
Reachable(s) ==
    \A k \in Keys, d \in DOMAIN s :
        s[Position(s, k, d)] = k => \A j \in 0..(d - 1) : s[Position(s, k, j)] # Empty

Sound(s) == Unique(s) /\ Reachable(s)

NoneVacant(s) == \A i \in DOMAIN s : s[i] # Vacant

Content(s) == {s[i] : i \in DOMAIN s} \cap Keys

\* The content of a table, slot by slot.
LEMMA ContentIs ==
    ASSUME NEW c \in Nat, NEW s \in Tables(c), NEW k
    PROVE  k \in Content(s) <=> k \in Keys /\ \E i \in 0..(c - 1) : s[i] = k
BY TableSize DEF Content

\* A search ends where there is an empty slot.
LEMMA SearchEnds ==
    ASSUME Hashes, NEW c \in Nat \ {0}, NEW s \in Tables(c), NEW k \in Keys,
           \E i \in DOMAIN s : s[i] = Empty
    PROVE  \A reuse \in BOOLEAN : Ends(s, k, reuse)
<1> SUFFICES ASSUME NEW reuse \in BOOLEAN PROVE Ends(s, k, reuse)
  OBVIOUS
<1>1. PICK p \in 0..(c - 1) : s[p] = Empty
  BY TableSize
<1>2. PICK i \in 0..(c - 1) : Position(s, k, i) = p
  BY Round
<1>3. i \in Stops(s, k, reuse)
  BY <1>1, <1>2, StopsAt
<1> QED
  BY <1>3 DEF Ends

\* cldm_ht_probe finds the keys in a sound table, and no others.
LEMMA Finds ==
    ASSUME Hashes, NEW c \in Nat \ {0}, NEW s \in Tables(c), NEW k \in Keys,
           NEW reuse \in BOOLEAN, reuse => NoneVacant(s),
           Sound(s), \E i \in DOMAIN s : s[i] = Empty
    PROVE  /\ Probe(s, k, reuse) \in 0..(c - 1)
           /\ s[Probe(s, k, reuse)] = IF k \in Content(s) THEN k ELSE Empty
           /\ \E d \in 0..(c - 1) :
                 /\ Probe(s, k, reuse) = Position(s, k, d)
                 /\ \A j \in 0..(d - 1) : s[Position(s, k, j)] # Empty
<1>1. Ends(s, k, reuse)
  BY SearchEnds
<1>2. PICK d \in 0..(c - 1) :
              /\ d \in Stops(s, k, reuse)
              /\ \A j \in 0..(d - 1) : j \notin Stops(s, k, reuse)
              /\ Probe(s, k, reuse) = Position(s, k, d)
  BY <1>1, ProbeIs
<1>3. \A i \in 0..(c - 1) : Position(s, k, i) \in 0..(c - 1)
  BY Round
<1>4. \A i \in 0..(c - 1) :
         i \in Stops(s, k, reuse) <=> s[Position(s, k, i)] \in {Empty, k}
  <2> SUFFICES ASSUME NEW i \in 0..(c - 1)
               PROVE  i \in Stops(s, k, reuse) <=> s[Position(s, k, i)] \in {Empty, k}
    OBVIOUS
  <2>1. reuse => s[Position(s, k, i)] # Vacant
    BY <1>3, TableSize DEF NoneVacant
  <2> QED
    BY <2>1, StopsAt
<1>5. \A j \in 0..(d - 1) : s[Position(s, k, j)] \notin {Empty, k}
  BY <1>2, <1>4
<1>6. ASSUME k \in Content(s) PROVE s[Position(s, k, d)] = k
  <2>1. PICK p \in 0..(c - 1) : s[p] = k
    BY <1>6, ContentIs
  <2>2. PICK e \in 0..(c - 1) : Position(s, k, e) = p
    BY Round
  <2>3. \A j \in 0..(e - 1) : s[Position(s, k, j)] # Empty
    BY <2>1, <2>2, TableSize DEF Sound, Reachable
  <2>4. d <= e
    BY <1>5, <2>1, <2>2
  <2>5. CASE d = e
    BY <2>1, <2>2, <2>5
  <2>6. CASE d < e
    BY <1>2, <1>4, <2>3, <2>6
  <2> QED
    BY <2>4, <2>5, <2>6
<1>7. ASSUME k \notin Content(s) PROVE s[Position(s, k, d)] = Empty
  BY <1>2, <1>3, <1>4, <1>7, ContentIs
<1> QED
  BY <1>2, <1>3, <1>5, <1>6, <1>7

\* Positions depend on the capacity only.
LEMMA SamePosition ==
    ASSUME NEW c \in Nat, NEW s \in Tables(c), NEW t \in Tables(c)
    PROVE  \A k, i : Position(s, k, i) = Position(t, k, i)
<1>1. Cardinality(DOMAIN s) = Cardinality(DOMAIN t)
  BY TableSize
<1> QED
  BY <1>1 DEF Position

\* What storing a key in a sound table without vacated slots gives.
Stored(s, t, k) ==
    /\ Sound(t) /\ NoneVacant(t)
    /\ Content(t) = Content(s) \cup {k}
    /\ Count(t) = IF k \in Content(s) THEN Count(s) ELSE Count(s) + 1

\* The table stays one, wherever the probing ends.
LEMMA PutType ==
    ASSUME NEW c \in Nat, NEW s \in Tables(c), NEW k \in Keys
    PROVE  Put(s, k) \in Tables(c)
BY DEF Put, Tables, Entries

\* A key that is there is not stored again; one that is not goes to the first
\* empty slot on its way, so that it is reachable, and so remain the others.
LEMMA PutStores ==
    ASSUME Hashes, NEW c \in Nat \ {0}, NEW s \in Tables(c), NEW k \in Keys,
           NoneVacant(s), Sound(s), \E i \in DOMAIN s : s[i] = Empty
    PROVE  Stored(s, Put(s, k), k)
<1> DEFINE p == Probe(s, k, TRUE)
           t == [s EXCEPT ![p] = k]
<1>1. /\ p \in 0..(c - 1)
      /\ s[p] = IF k \in Content(s) THEN k ELSE Empty
  BY Finds
<1>2. PICK d \in 0..(c - 1) :
         p = Position(s, k, d) /\ \A j \in 0..(d - 1) : s[Position(s, k, j)] # Empty
  BY Finds
<1>3. Put(s, k) = t /\ t \in Tables(c)
  BY PutType DEF Put
<1> HIDE DEF p
<1>4. DOMAIN s = 0..(c - 1) /\ DOMAIN t = 0..(c - 1)
  BY <1>3, TableSize
<1>5. CASE k \in Content(s)
  <2>1. t = s
    BY <1>1, <1>5, <1>4 DEF Tables
  <2>2. Content(s) = Content(s) \cup {k}
    BY <1>5
  <2> QED
    BY <1>3, <1>5, <2>1, <2>2 DEF Stored
<1>6. CASE k \notin Content(s)
  <2>1. s[p] = Empty /\ \A i \in 0..(c - 1) : s[i] # k
    BY <1>1, <1>6, ContentIs
  <2>2. \A i \in 0..(c - 1) : t[i] = IF i = p THEN k ELSE s[i]
    BY <1>4
  <2> HIDE DEF t
  <2>3. Unique(t)
    BY <1>4, <2>1, <2>2 DEF Sound, Unique
  <2>4. NoneVacant(t)
    BY <1>4, <2>2, KeysAssumption DEF NoneVacant
  <2>5. Content(t) = Content(s) \cup {k}
    <3>1. \A x : x \in Content(t) <=> x \in Content(s) \cup {k}
      <4> SUFFICES ASSUME NEW x PROVE x \in Content(t) <=> x \in Content(s) \cup {k}
        OBVIOUS
      <4>1. x \in Content(t) <=> x \in Keys /\ \E i \in 0..(c - 1) : t[i] = x
        BY <1>3, ContentIs
      <4>2. x \in Content(s) <=> x \in Keys /\ \E i \in 0..(c - 1) : s[i] = x
        BY ContentIs
      <4> QED
        BY <1>1, <2>1, <2>2, <4>1, <4>2, KeysAssumption
    <3> QED
      BY <3>1
  <2>6. Count(t) = Count(s) + 1
    BY <1>1, <2>1, CountPut, KeysAssumption DEF t
  <2>7. Reachable(t)
    <3> SUFFICES ASSUME NEW q \in Keys, NEW e \in 0..(c - 1), t[Position(t, q, e)] = q,
                        NEW j \in 0..(e - 1)
                 PROVE  t[Position(t, q, j)] # Empty
      BY <1>4 DEF Reachable
    <3>1. \A l, i : Position(s, l, i) = Position(t, l, i)
      BY <1>3, SamePosition
    <3>2. j \in 0..(c - 1)
      OBVIOUS
    <3>3. Position(s, q, e) \in 0..(c - 1) /\ Position(s, q, j) \in 0..(c - 1)
      BY <3>2, Round
    <3>4. CASE Position(s, q, e) = p
      <4>1. q = k
        BY <2>2, <3>1, <3>3, <3>4
      <4>2. e = d
        BY <1>2, <3>4, <4>1, Round
      <4>3. s[Position(s, q, j)] # Empty
        BY <1>2, <4>1, <4>2
      <4> QED
        BY <2>2, <3>1, <3>3, <4>3, KeysAssumption
    <3>5. CASE Position(s, q, e) # p
      <4>1. s[Position(s, q, e)] = q
        BY <2>2, <3>1, <3>3, <3>5
      <4>2. s[Position(s, q, j)] # Empty
        BY <1>4, <4>1 DEF Sound, Reachable
      <4> QED
        BY <2>2, <3>1, <3>3, <4>2, KeysAssumption
    <3> QED
      BY <3>4, <3>5
  <2> QED
    BY <1>3, <1>6, <2>3, <2>4, <2>5, <2>6, <2>7 DEF Stored, Sound
<1> QED
  BY <1>5, <1>6

\* Vacating a slot keeps the table sound, since the slot does not become empty.
LEMMA VacateKeeps ==
    ASSUME Hashes, NEW c \in Nat \ {0}, NEW s \in Tables(c), NEW p \in 0..(c - 1),
           s[p] \in Keys, Sound(s)
    PROVE  /\ [s EXCEPT ![p] = Vacant] \in Tables(c)
           /\ Sound([s EXCEPT ![p] = Vacant])
           /\ Content([s EXCEPT ![p] = Vacant]) = Content(s) \ {s[p]}
<1> DEFINE t == [s EXCEPT ![p] = Vacant]
<1>1. t \in Tables(c)
  BY DEF Tables, Entries
<1>2. DOMAIN s = 0..(c - 1) /\ DOMAIN t = 0..(c - 1)
  BY <1>1, TableSize
<1>3. \A i \in 0..(c - 1) : t[i] = IF i = p THEN Vacant ELSE s[i]
  BY <1>2
<1> HIDE DEF t
<1>4. Unique(t)
  BY <1>2, <1>3, KeysAssumption DEF Sound, Unique
<1>5. Reachable(t)
  <2> SUFFICES ASSUME NEW q \in Keys, NEW e \in 0..(c - 1), t[Position(t, q, e)] = q,
                      NEW j \in 0..(e - 1)
               PROVE  t[Position(t, q, j)] # Empty
    BY <1>2 DEF Reachable
  <2>1. \A l, i : Position(s, l, i) = Position(t, l, i)
    BY <1>1, SamePosition
  <2>2. j \in 0..(c - 1)
    OBVIOUS
  <2>3. Position(s, q, e) \in 0..(c - 1) /\ Position(s, q, j) \in 0..(c - 1)
    BY <2>2, Round
  <2>4. s[Position(s, q, e)] = q
    BY <1>3, <2>1, <2>3, KeysAssumption
  <2>5. s[Position(s, q, j)] # Empty
    BY <1>2, <2>4 DEF Sound, Reachable
  <2> QED
    BY <1>3, <2>1, <2>3, <2>5, KeysAssumption
<1>6. \A x : x \in Content(t) <=> x \in Content(s) \ {s[p]}
  <2> SUFFICES ASSUME NEW x PROVE x \in Content(t) <=> x \in Content(s) \ {s[p]}
    OBVIOUS
  <2>1. x \in Content(t) <=> x \in Keys /\ \E i \in 0..(c - 1) : t[i] = x
    BY <1>1, ContentIs
  <2>2. x \in Content(s) <=> x \in Keys /\ \E i \in 0..(c - 1) : s[i] = x
    BY ContentIs
  <2>3. \A i \in 0..(c - 1) : s[i] = s[p] => i = p
    BY <1>2 DEF Sound, Unique
  <2> QED
    BY <1>3, <2>1, <2>2, <2>3, KeysAssumption
<1>7. Content(t) = Content(s) \ {s[p]}
  BY <1>6
<1> QED
  BY <1>1, <1>4, <1>5, <1>7 DEF Sound, t

-----------------------------------------------------------------------------
(* Rehashing.                                                              *)

\* The new table after n slots of the old one, given the tables before.
Rehashed(s, cap, g, n) ==
    IF n = 0 THEN EmptyTable(cap)
    ELSE IF s[n - 1] = Empty THEN g[n - 1]
    ELSE Put(g[n - 1], s[n - 1])

\* The loops of cldm_ht_expand up to slot m.
Loops(s, cap, m, g) ==
    /\ DOMAIN g = 0..m
    /\ \A n \in 0..m : g[n] = Rehashed(s, cap, g, n)

\* The recursion in Rehash defines these loops: for every m, by taking the
\* least one for which there were none.
LEMMA LoopsExist ==
    ASSUME NEW c \in Nat, NEW s, NEW cap
    PROVE  \E g : g = [n \in 0..c |-> Rehashed(s, cap, g, n)]
<1> DEFINE Bad == {m \in Nat : ~ \E g : Loops(s, cap, m, g)}
<1>1. Bad = {}
  <2> SUFFICES ASSUME Bad # {} PROVE FALSE
    OBVIOUS
  <2>1. PICK m \in Bad : \A n \in Bad : m <= n
    BY LeastExists
  <2>2. CASE m = 0
    <3> DEFINE g == [n \in 0..0 |-> EmptyTable(cap)]
    <3>1. Loops(s, cap, 0, g)
      BY DEF Loops, Rehashed
    <3> QED
      BY <2>1, <2>2, <3>1
  <2>3. CASE m > 0
    <3>1. m - 1 \in Nat /\ m - 1 \notin Bad
      BY <2>1, <2>3
    <3>2. PICK g : Loops(s, cap, m - 1, g)
      BY <3>1
    <3> DEFINE h == [n \in 0..m |-> IF n = m THEN Rehashed(s, cap, g, m) ELSE g[n]]
    <3>3. \A n \in 0..m : Rehashed(s, cap, h, n) = Rehashed(s, cap, g, n)
      <4> SUFFICES ASSUME NEW n \in 0..m, n # 0
                   PROVE  Rehashed(s, cap, h, n) = Rehashed(s, cap, g, n)
        BY DEF Rehashed
      <4>1. h[n - 1] = g[n - 1]
        BY <2>1
      <4> QED
        BY <4>1 DEF Rehashed
    <3>4. \A n \in 0..m : h[n] = Rehashed(s, cap, h, n)
      BY <2>1, <3>2, <3>3 DEF Loops
    <3>5. Loops(s, cap, m, h)
      BY <3>4 DEF Loops
    <3> QED
      BY <2>1, <3>5
  <2> QED
    BY <2>1, <2>2, <2>3
<1>2. PICK g : Loops(s, cap, c, g)
  BY <1>1
<1> DEFINE f == [n \in 0..c |-> g[n]]
<1>3. \A n \in 0..c : Rehashed(s, cap, f, n) = Rehashed(s, cap, g, n)
  <2> SUFFICES ASSUME NEW n \in 0..c, n # 0
               PROVE  Rehashed(s, cap, f, n) = Rehashed(s, cap, g, n)
    BY DEF Rehashed
  <2>1. f[n - 1] = g[n - 1]
    OBVIOUS
  <2> QED
    BY <2>1 DEF Rehashed
<1>4. f = [n \in 0..c |-> Rehashed(s, cap, f, n)]
  BY <1>2, <1>3 DEF Loops
<1> QED
  BY <1>4

\* What Rehash computes.
LEMMA RehashIs ==
    ASSUME NEW c \in Nat, NEW s \in Tables(c), NEW cap
    PROVE  \E g : Loops(s, cap, c, g) /\ Rehash(s, cap) = g[c]
<1> DEFINE f == CHOOSE g : g = [n \in 0..c |-> Rehashed(s, cap, g, n)]
<1>1. Cardinality(DOMAIN s) = c
  BY TableSize
<1>2. Rehash(s, cap) = f[c]
  BY <1>1 DEF Rehash, Rehashed
<1>3. f = [n \in 0..c |-> Rehashed(s, cap, f, n)]
  BY LoopsExist
<1> HIDE DEF f
<1>4. Loops(s, cap, c, f)
  BY <1>3 DEF Loops
<1> QED
  BY <1>2, <1>4

\* The first n slots.
First(s, n) == {i \in DOMAIN s : i < n}

\* How far the loops of cldm_ht_expand have got: t holds the keys of the first
\* n slots of s, and no more slots are used than there.
Carried(s, t, n) ==
    /\ Sound(t) /\ NoneVacant(t)
    /\ Content(t) = {s[i] : i \in First(s, n)} \cap Keys
    /\ Count(t) <= Cardinality({i \in First(s, n) : s[i] # Empty})

\* In a table without vacated slots the used slots are those with entries.
LEMMA CountUsed ==
    ASSUME NEW c \in Nat, NEW s \in Tables(c), NoneVacant(s)
    PROVE  Used(s) = Count(s)
<1>1. UsedSlots(s) = {i \in DOMAIN s : s[i] \in Keys}
  <2>1. \A i \in DOMAIN s : s[i] # Vacant /\ s[i] \in Entries
    BY TableSize DEF Tables, NoneVacant
  <2> QED
    BY <2>1, KeysAssumption DEF UsedSlots, Entries
<1> QED
  BY <1>1 DEF Used, Count

\* The empty table is sound.
LEMMA EmptySound ==
    ASSUME Hashes, NEW c \in Nat \ {0}
    PROVE  /\ Sound(EmptyTable(c)) /\ NoneVacant(EmptyTable(c))
           /\ Content(EmptyTable(c)) = {}
<1>1. /\ DOMAIN EmptyTable(c) = 0..(c - 1)
      /\ \A i \in DOMAIN EmptyTable(c) : EmptyTable(c)[i] = Empty
  BY DEF EmptyTable
<1>2. Unique(EmptyTable(c)) /\ NoneVacant(EmptyTable(c)) /\ Content(EmptyTable(c)) = {}
  BY <1>1, KeysAssumption DEF Unique, NoneVacant, Content
<1>3. EmptyTable(c) \in Tables(c)
  BY CountEmpty
<1>4. \A k \in Keys, d \in 0..(c - 1) : EmptyTable(c)[Position(EmptyTable(c), k, d)] = Empty
  BY <1>1, <1>3, Round
<1>5. Reachable(EmptyTable(c))
  BY <1>1, <1>4, KeysAssumption DEF Reachable
<1> QED
  BY <1>2, <1>5 DEF Sound

\* One more slot is carried over.
LEMMA CarryOne ==
    ASSUME Hashes, NEW c \in Nat \ {0}, NEW s \in Tables(c), NoneVacant(s),
           NEW cap \in Nat, cap > c,
           NEW n \in 0..(c - 1), NEW g, g[n] \in Tables(cap), Carried(s, g[n], n)
    PROVE  /\ Rehashed(s, cap, g, n + 1) \in Tables(cap)
           /\ Carried(s, Rehashed(s, cap, g, n + 1), n + 1)
<1> DEFINE A == {i \in First(s, n) : s[i] # Empty}
           B == {i \in First(s, n + 1) : s[i] # Empty}
<1>1. DOMAIN s = 0..(c - 1) /\ s[n] \in Keys \cup {Empty}
  BY TableSize DEF Tables, NoneVacant, Entries
<1>2. n + 1 # 0 /\ n + 1 - 1 = n
  OBVIOUS
<1>3. First(s, n + 1) = First(s, n) \cup {n} /\ n \notin First(s, n)
  BY <1>1 DEF First
<1>4. IsFiniteSet(A) /\ Cardinality(A) \in Nat /\ Cardinality(A) <= c
  BY SlotsFinite DEF First
<1>5. Count(g[n]) \in Nat
  BY CountTypes
<1>6. {s[i] : i \in First(s, n + 1)} = {s[i] : i \in First(s, n)} \cup {s[n]}
  BY <1>3
<1>7. CASE s[n] = Empty
  <2>1. Rehashed(s, cap, g, n + 1) = g[n]
    BY <1>2, <1>7 DEF Rehashed
  <2>2. A = B
    BY <1>3, <1>7
  <2>3. {s[i] : i \in First(s, n + 1)} \cap Keys = {s[i] : i \in First(s, n)} \cap Keys
    BY <1>6, <1>7, KeysAssumption
  <2> QED
    BY <2>1, <2>2, <2>3 DEF Carried
<1>8. CASE s[n] \in Keys
  <2>1. Rehashed(s, cap, g, n + 1) = Put(g[n], s[n])
    BY <1>2, <1>8, KeysAssumption DEF Rehashed
  <2>2. B = A \cup {n} /\ n \notin A
    BY <1>3, <1>8, KeysAssumption
  <2>3. Cardinality(B) = Cardinality(A) + 1
    BY <1>4, <2>2, FS_AddElement
  <2>4. Used(g[n]) = Count(g[n]) /\ Count(g[n]) <= Cardinality(A)
    BY CountUsed DEF Carried
  <2>5. \E i \in DOMAIN g[n] : g[n][i] = Empty
    BY <1>4, <1>5, <2>4, SomeEmpty
  <2>6. Stored(g[n], Put(g[n], s[n]), s[n])
    BY <1>8, <2>5, PutStores DEF Carried
  <2>7. Put(g[n], s[n]) \in Tables(cap)
    BY <1>8, PutType
  <2>8. Count(Put(g[n], s[n])) <= Cardinality(B)
    BY <1>4, <1>5, <2>3, <2>4, <2>6 DEF Stored
  <2>9. Content(Put(g[n], s[n])) = {s[i] : i \in First(s, n + 1)} \cap Keys
    BY <1>6, <1>8, <2>6 DEF Stored, Carried
  <2> QED
    BY <2>1, <2>6, <2>7, <2>8, <2>9 DEF Carried, Stored
<1> QED
  BY <1>1, <1>7, <1>8

\* cldm_ht_expand keeps the entries, in a table that is sound again, even if
\* the old one was not.
LEMMA RehashKeeps ==
    ASSUME Hashes, NEW c \in Nat \ {0}, NEW s \in Tables(c), NoneVacant(s),
           NEW cap \in Nat, cap > c
    PROVE  /\ Rehash(s, cap) \in Tables(cap)
           /\ Sound(Rehash(s, cap)) /\ NoneVacant(Rehash(s, cap))
           /\ Content(Rehash(s, cap)) = Content(s)
           /\ Count(Rehash(s, cap)) <= Count(s)
<1>1. PICK g : Loops(s, cap, c, g) /\ Rehash(s, cap) = g[c]
  BY RehashIs
<1> DEFINE Bad == {n \in 0..c : ~(g[n] \in Tables(cap) /\ Carried(s, g[n], n))}
<1>2. Bad = {}
  <2> SUFFICES ASSUME Bad # {} PROVE FALSE
    OBVIOUS
  <2>1. Bad \subseteq Nat
    OBVIOUS
  <2>2. PICK n \in Bad : \A m \in Bad : n <= m
    BY <2>1, LeastExists
  <2>3. g[n] = Rehashed(s, cap, g, n)
    BY <1>1 DEF Loops
  <2>4. CASE n = 0
    <3>1. g[0] = EmptyTable(cap)
      BY <2>3, <2>4 DEF Rehashed
    <3>2. {i \in First(s, 0) : s[i] # Empty} = {} /\ {s[i] : i \in First(s, 0)} = {}
      BY TableSize DEF First
    <3>3. Carried(s, g[0], 0) /\ g[0] \in Tables(cap)
      BY <3>1, <3>2, EmptySound, CountEmpty, FS_EmptySet DEF Carried
    <3> QED
      BY <2>4, <3>3
  <2>5. CASE n > 0
    <3>1. n - 1 \in 0..(c - 1) /\ n - 1 \notin Bad /\ n - 1 \in 0..c /\ (n - 1) + 1 = n
      BY <2>2, <2>5
    <3>2. g[n - 1] \in Tables(cap) /\ Carried(s, g[n - 1], n - 1)
      BY <3>1
    <3>3. /\ Rehashed(s, cap, g, (n - 1) + 1) \in Tables(cap)
          /\ Carried(s, Rehashed(s, cap, g, (n - 1) + 1), (n - 1) + 1)
      BY <3>1, <3>2, CarryOne
    <3> QED
      BY <2>3, <3>1, <3>3
  <2> QED
    BY <2>2, <2>4, <2>5
<1>3. Rehash(s, cap) \in Tables(cap) /\ Carried(s, Rehash(s, cap), c)
  BY <1>1, <1>2
<1>4. First(s, c) = DOMAIN s
  <2>1. DOMAIN s = 0..(c - 1)
    BY TableSize
  <2> QED
    BY <2>1 DEF First
<1>5. Cardinality({i \in First(s, c) : s[i] # Empty}) = Count(s)
  BY <1>4, CountUsed DEF Used, UsedSlots
<1> QED
  BY <1>3, <1>4, <1>5 DEF Carried, Content

-----------------------------------------------------------------------------
(* The inductive invariant.                                                *)

Typed ==
    /\ Hashes
    /\ Capacity \in StaticCapacity..MaxCapacity
    /\ slots \in Tables(Capacity)
    /\ state \in {"up", "freed", "crashed", "endless"}
    /\ use \in Uses

\* size counts the entries, in whatever order keys came and went, and the table
\* grows in time.
Counted == size = Count(slots) /\ size <= Capacity \div 2

\* Unless keys are inserted after a removal the table is sound, and vacated
\* slots do not use it up.
Kept ==
    use # "mixed" => /\ Sound(slots)
                     /\ Used(slots) <= Capacity \div 2
                     /\ state \in {"up", "freed"}

\* Before the first removal no slot is vacated.
Filled == use = "filled" => NoneVacant(slots)

HashInv == Typed /\ Counted /\ Kept /\ Filled /\ NoLeak

\* The capacity, and what follows from it.
LEMMA CapacityFacts ==
    ASSUME Typed
    PROVE  /\ Capacity \in Nat \ {0} /\ StaticCapacity \in Nat /\ StaticCapacity <= Capacity
           /\ Capacity \div 2 \in Nat /\ Capacity \div 2 < Capacity
           /\ DOMAIN slots = 0..(Capacity - 1)
<1>1. /\ StaticCapacity \in Nat /\ MaxCapacity \in Nat /\ 2 <= StaticCapacity
      /\ Capacity \in StaticCapacity..MaxCapacity
  BY CapacityAssumption, BoundsAssumption DEF Typed
<1>2. slots \in Tables(Capacity)
  BY DEF Typed
<1> QED
  BY <1>1, <1>2 DEF Tables

\* Hash values are fixed, so that sound tables remain sound.
LEMMA SameSound == UNCHANGED hash => (Sound(slots)' <=> Sound(slots'))
BY DEF Sound, Unique, Reachable, Position

\* The invariant holds initially.
LEMMA HashInit == Init => HashInv
<1> SUFFICES ASSUME Init PROVE HashInv
  OBVIOUS
<1>1. /\ StaticCapacity \in Nat \ {0} /\ MaxCapacity \in Nat
      /\ StaticCapacity <= MaxCapacity
  BY CapacityAssumption, BoundsAssumption
<1>2. slots \in Tables(StaticCapacity) /\ Count(slots) = 0 /\ Used(slots) = 0
  BY <1>1, CountEmpty DEF Init
<1>3. Capacity = StaticCapacity
  BY <1>1, <1>2, TableSize DEF Capacity
<1>4. Hashes
  BY DEF Init, Hashes
<1>5. Typed
  BY <1>1, <1>2, <1>3, <1>4 DEF Typed, Init, Uses
<1>6. Sound(slots) /\ NoneVacant(slots)
  BY <1>1, <1>4, EmptySound DEF Init
<1>7. Counted
  BY <1>1, <1>2, <1>3 DEF Counted, Init
<1>8. Kept /\ Filled
  BY <1>1, <1>2, <1>3, <1>6 DEF Kept, Filled, Init
<1>9. NoLeak
  BY <1>1, <1>3 DEF NoLeak, Init
<1> QED
  BY <1>5, <1>7, <1>8, <1>9 DEF HashInv

\* The end of an insertion into any table with room.
LEMMA StoreCounts ==
    ASSUME Hashes, NEW c \in Nat \ {0}, NEW s \in Tables(c), NEW k \in Keys,
           Count(s) + 1 <= c, Store(s, Count(s), k)
    PROVE  slots' \in Tables(c) /\ size' = Count(slots') /\ size' <= Count(s) + 1
<1> DEFINE p == Probe(s, k, TRUE)
<1>1. Count(s) \in Nat
  BY CountTypes
<1>2. PICK q \in 0..(c - 1) : s[q] \in {Empty, Vacant}
  BY <1>1, SomeFree, TableSize
<1>3. PICK i \in 0..(c - 1) : Position(s, k, i) = q
  BY Round
<1>4. Ends(s, k, TRUE)
  BY <1>2, <1>3, StopsAt DEF Ends
<1>5. PICK d \in 0..(c - 1) : d \in Stops(s, k, TRUE) /\ p = Position(s, k, d)
  BY <1>4, ProbeIs
<1>6. p \in 0..(c - 1) /\ s[p] \in {Empty, Vacant, k}
  <2>1. s[Position(s, k, d)] \in {Empty, Vacant, k}
    BY <1>5 DEF Stops
  <2>2. Position(s, k, d) \in 0..(c - 1)
    BY Round
  <2> QED
    BY <1>5, <2>1, <2>2
<1>7. /\ slots' = [s EXCEPT ![p] = k] /\ slots' \in Tables(c)
      /\ size' = IF s[p] # k THEN Count(s) + 1 ELSE Count(s)
  BY PutType DEF Store, Put
<1> HIDE DEF p
<1>8. CASE s[p] = k
  <2>1. slots' = s
    BY <1>6, <1>7, <1>8 DEF Tables
  <2> QED
    BY <1>1, <1>7, <1>8, <2>1
<1>9. CASE s[p] # k
  <2>1. s[p] \notin Keys
    BY <1>6, <1>9, KeysAssumption
  <2>2. Count([s EXCEPT ![p] = k]) = Count(s) + 1
    BY <1>6, <2>1, CountPut
  <2> QED
    BY <1>1, <1>7, <1>9, <2>2
<1> QED
  BY <1>8, <1>9

\* The end of an insertion into a sound table: the answer is that of a set.
LEMMA StoreAnswers ==
    ASSUME Hashes, NEW c \in Nat \ {0}, NEW s \in Tables(c), NEW k \in Keys,
           Sound(s), NoneVacant(s), Count(s) + 1 <= c, Store(s, Count(s), k)
    PROVE  /\ Sound(slots') /\ NoneVacant(slots')
           /\ Content(slots') = Content(s) \cup {k}
           /\ Answer("insert", k, k \notin Content(s))
<1>1. Count(s) \in Nat
  BY CountTypes
<1>2. \E i \in DOMAIN s : s[i] = Empty
  BY <1>1, CountUsed, SomeEmpty
<1>3. Stored(s, slots', k)
  BY <1>2, PutStores DEF Store
<1>4. s[Probe(s, k, TRUE)] # k <=> k \notin Content(s)
  BY <1>2, Finds, KeysAssumption
<1>5. Answer("insert", k, k \notin Content(s))
  BY <1>4 DEF Store, Answer
<1> QED
  BY <1>3, <1>5 DEF Stored

\* What an insertion without expansion does.
LEMMA PlainInsert ==
    ASSUME HashInv, NEW k \in Keys, state = "up", ~ShouldExpand, Store(slots, size, k),
           UNCHANGED <<hash, heap>>, use' = IF use = "filled" THEN use ELSE "mixed"
    PROVE  HashInv'
<1>1. /\ Typed /\ Counted /\ Kept /\ Filled /\ NoLeak /\ Hashes
      /\ slots \in Tables(Capacity)
  BY DEF HashInv, Typed
<1>2. /\ Capacity \in Nat \ {0} /\ Capacity \div 2 \in Nat /\ Capacity \div 2 < Capacity
  BY <1>1, CapacityFacts
<1>3. size = Count(slots) /\ Count(slots) \in Nat /\ size + 1 <= Capacity \div 2
  BY <1>1, <1>2, CountTypes DEF Counted, ShouldExpand
<1>4. Count(slots) + 1 <= Capacity /\ Store(slots, Count(slots), k)
  BY <1>2, <1>3
<1>5. slots' \in Tables(Capacity) /\ size' = Count(slots') /\ size' <= size + 1
  BY <1>1, <1>2, <1>3, <1>4, StoreCounts
<1>6. Capacity' = Capacity
  BY <1>2, <1>5, TableSize DEF Capacity
<1>7. Typed'
  <2>1. Hashes'
    BY <1>1 DEF Hashes
  <2>2. state' = state /\ use' \in Uses
    BY <1>1 DEF Store, Typed, Uses
  <2> QED
    BY <1>1, <1>5, <1>6, <2>1, <2>2 DEF Typed
<1>8. Counted'
  <2>1. Count(slots)' = Count(slots')
    BY DEF Count
  <2>2. size' \in Nat /\ size' <= Capacity \div 2
    <3>1. Count(slots') \in Nat
      BY <1>2, <1>5, CountTypes
    <3> QED
      BY <1>2, <1>3, <1>5, <3>1
  <2> QED
    BY <1>5, <1>6, <2>1, <2>2 DEF Counted
<1>9. Kept' /\ Filled'
  <2>1. CASE use = "filled"
    <3>1. Sound(slots) /\ NoneVacant(slots)
      BY <1>1, <2>1 DEF Kept, Filled
    <3>2. Sound(slots') /\ NoneVacant(slots')
      BY <1>1, <1>2, <1>4, <3>1, StoreAnswers
    <3>3. Used(slots') <= Capacity \div 2
      BY <1>2, <1>3, <1>5, <3>2, CountUsed, CountTypes
    <3>4. state' = "up"
      BY DEF Store
    <3>5. /\ Sound(slots)' /\ NoneVacant(slots)' /\ (Used(slots) <= Capacity \div 2)'
      BY <1>6, <3>2, <3>3, SameSound DEF NoneVacant, Used, UsedSlots
    <3> QED
      BY <3>4, <3>5 DEF Kept, Filled
  <2>2. CASE use # "filled"
    BY <2>2 DEF Kept, Filled
  <2> QED
    BY <2>1, <2>2
<1>10. NoLeak'
  BY <1>1, <1>6 DEF NoLeak, Store
<1> QED
  BY <1>7, <1>8, <1>9, <1>10 DEF HashInv

\* The table an expansion leaves, before the key is stored.
LEMMA ExpandGrows ==
    ASSUME HashInv, \A i \in DOMAIN slots : slots[i] # Vacant,
           Sizeup(Capacity) <= MaxCapacity
    PROVE  LET cap == Sizeup(Capacity)
               s   == Rehash(slots, cap)
           IN  /\ cap \in Nat \ {0} /\ StaticCapacity < cap /\ cap <= MaxCapacity
               /\ s \in Tables(cap) /\ Sound(s) /\ NoneVacant(s)
               /\ Content(s) = Content(slots)
               /\ Count(s) \in Nat /\ Count(s) + 1 <= cap \div 2
<1> DEFINE cap == Sizeup(Capacity)
           s   == Rehash(slots, cap)
<1>1. Typed /\ Counted /\ Hashes /\ slots \in Tables(Capacity)
  BY DEF HashInv, Typed
<1>2. /\ Capacity \in Nat \ {0} /\ StaticCapacity \in Nat /\ StaticCapacity <= Capacity
      /\ 2 <= StaticCapacity /\ MaxCapacity \in Nat
  BY <1>1, CapacityFacts, CapacityAssumption, BoundsAssumption
<1>3. cap \in Nat /\ cap >= 2 * Capacity + 1
  BY <1>1, Grows DEF Typed
<1>4. NoneVacant(slots)
  BY DEF NoneVacant
<1>5. cap > Capacity /\ StaticCapacity < cap
  BY <1>2, <1>3
<1>6. s \in Tables(cap) /\ Sound(s) /\ NoneVacant(s) /\ Content(s) = Content(slots)
      /\ Count(s) <= Count(slots)
  BY <1>1, <1>2, <1>3, <1>4, <1>5, RehashKeeps
<1>7. Count(s) \in Nat /\ Count(slots) \in Nat /\ Count(slots) <= Capacity \div 2
  BY <1>1, <1>2, <1>3, <1>6, CountTypes DEF Counted
<1> HIDE DEF s, cap
<1>8. Count(s) + 1 <= cap \div 2
  <2>1. Count(s) <= Capacity \div 2
    BY <1>2, <1>6, <1>7
  <2>2. Capacity \div 2 + 1 <= Capacity
    BY <1>2
  <2>3. Capacity <= cap \div 2
    BY <1>2, <1>3
  <2>4. cap \div 2 \in Int /\ Capacity \div 2 \in Int
    BY <1>2, <1>3
  <2> QED
    BY <1>2, <1>7, <2>1, <2>2, <2>3, <2>4
<1> QED
  BY <1>2, <1>3, <1>5, <1>6, <1>7, <1>8 DEF s, cap

\* What an insertion that expands the table does.
LEMMA ExpandInsert ==
    ASSUME HashInv, NEW k \in Keys, state = "up", Expand(k),
           Sizeup(Capacity) <= MaxCapacity,
           UNCHANGED hash, use' = IF use = "filled" THEN use ELSE "mixed"
    PROVE  HashInv'
<1>1. /\ Typed /\ Counted /\ Kept /\ Filled /\ NoLeak /\ Hashes
      /\ slots \in Tables(Capacity)
  BY DEF HashInv, Typed
<1>2. CASE \E i \in DOMAIN slots : slots[i] = Vacant
  <2>1. state' = "crashed" /\ UNCHANGED <<slots, size, heap>>
    BY <1>2 DEF Expand
  <2>2. use' = "mixed"
    BY <1>1, <1>2 DEF Filled, NoneVacant
  <2>3. Typed'
    BY <1>1, <2>1, <2>2 DEF Typed, Hashes, Capacity, Uses
  <2>4. Counted' /\ Kept' /\ Filled' /\ NoLeak'
    BY <1>1, <2>1, <2>2 DEF Counted, Count, Capacity, Kept, Filled, NoLeak
  <2> QED
    BY <2>3, <2>4 DEF HashInv
<1>3. CASE \A i \in DOMAIN slots : slots[i] # Vacant
  <2> DEFINE cap == Sizeup(Capacity)
             s   == Rehash(slots, cap)
  <2>1. /\ cap \in Nat \ {0} /\ StaticCapacity < cap /\ cap <= MaxCapacity
        /\ s \in Tables(cap) /\ Sound(s) /\ NoneVacant(s)
        /\ Count(s) \in Nat /\ Count(s) + 1 <= cap \div 2
    BY <1>3, ExpandGrows
  <2>2. Store(s, Count(s), k) /\ heap' = Replaced(cap)
    BY <1>3 DEF Expand
  <2> HIDE DEF s, cap
  <2>3. Count(s) + 1 <= cap /\ cap \div 2 \in Nat
    BY <2>1
  <2>4. slots' \in Tables(cap) /\ size' = Count(slots') /\ size' <= Count(s) + 1
    BY <1>1, <2>1, <2>2, <2>3, StoreCounts
  <2>5. Sound(slots') /\ NoneVacant(slots')
    BY <1>1, <2>1, <2>2, <2>3, StoreAnswers
  <2>6. Capacity' = cap
    BY <2>1, <2>4, TableSize DEF Capacity
  <2>7. Typed'
    <3>1. Hashes' /\ state' = "up" /\ use' \in Uses
      BY <1>1, <2>2 DEF Hashes, Store, Typed, Uses
    <3>2. cap \in StaticCapacity..MaxCapacity
      BY <2>1, CapacityAssumption, BoundsAssumption
    <3> QED
      BY <2>4, <2>6, <3>1, <3>2 DEF Typed
  <2>8. Count(slots') \in Nat /\ Count(slots') <= cap \div 2 /\ Used(slots') = Count(slots')
    BY <2>1, <2>3, <2>4, <2>5, CountTypes, CountUsed
  <2>9. Counted'
    BY <2>4, <2>6, <2>8 DEF Counted, Count
  <2>10. Kept' /\ Filled'
    <3>1. /\ Sound(slots)' /\ NoneVacant(slots)' /\ (Used(slots) <= Capacity \div 2)'
      BY <2>5, <2>6, <2>8, SameSound DEF NoneVacant, Used, UsedSlots
    <3>2. state' = "up"
      BY <2>2 DEF Store
    <3> QED
      BY <3>1, <3>2 DEF Kept, Filled
  <2>11. NoLeak'
    <3>1. heap \ {Capacity} = {}
      BY <1>1 DEF NoLeak
    <3>2. heap' = {cap}
      BY <2>2, <3>1 DEF Replaced
    <3>3. state' = "up"
      BY <2>2 DEF Store
    <3> QED
      BY <2>1, <2>6, <3>2, <3>3, CapacityAssumption DEF NoLeak
  <2> QED
    BY <2>7, <2>9, <2>10, <2>11 DEF HashInv
<1> QED
  BY <1>2, <1>3

\* Insertions keep the invariant.
LEMMA InsertKeeps == ASSUME HashInv, NEW k \in Keys, Insert(k) PROVE HashInv'
<1>1. CASE ~ShouldExpand /\ Store(slots, size, k) /\ UNCHANGED heap
  BY <1>1, PlainInsert DEF Insert
<1>2. CASE ShouldExpand /\ Expand(k)
  BY <1>2, ExpandInsert DEF Insert
<1>3. CASE UNCHANGED <<slots, size, heap, state>>
  <2>1. Typed /\ Counted /\ Kept /\ Filled /\ NoLeak
    BY DEF HashInv
  <2>2. UNCHANGED hash /\ use' = IF use = "filled" THEN use ELSE "mixed"
    BY DEF Insert
  <2>3. Typed' /\ Counted' /\ NoLeak'
    BY <1>3, <2>1, <2>2 DEF Typed, Hashes, Capacity, Uses, Counted, Count, NoLeak
  <2>4. Kept' /\ Filled'
    <3>1. use' # "mixed" => use = "filled"
      BY <2>2
    <3>2. UNCHANGED <<Used(slots), Capacity>> /\ (Sound(slots)' <=> Sound(slots))
          /\ (NoneVacant(slots)' <=> NoneVacant(slots))
      BY <1>3, <2>2, SameSound DEF Used, UsedSlots, Capacity, NoneVacant
    <3>3. use' = "filled" => use = "filled"
      BY <2>2
    <3> QED
      BY <1>3, <2>1, <3>1, <3>2, <3>3 DEF Kept, Filled
  <2> QED
    BY <2>3, <2>4 DEF HashInv
<1> QED
  BY <1>1, <1>2, <1>3 DEF Insert

\* A search on a sound table ends at the key, if it is there.
LEMMA SearchFinds ==
    ASSUME HashInv, NEW k \in Keys, use # "mixed"
    PROVE  /\ Ends(slots, k, FALSE)
           /\ IsThere(k) <=> k \in Content(slots)
           /\ Probe(slots, k, FALSE) \in 0..(Capacity - 1)
<1>1. /\ Typed /\ Hashes /\ slots \in Tables(Capacity)
      /\ Sound(slots) /\ Used(slots) <= Capacity \div 2
  BY DEF HashInv, Typed, Kept
<1>2. /\ Capacity \in Nat \ {0} /\ Capacity \div 2 \in Nat /\ Capacity \div 2 < Capacity
  BY <1>1, CapacityFacts
<1>3. Used(slots) < Capacity
  BY <1>1, <1>2, CountTypes
<1>4. \E i \in DOMAIN slots : slots[i] = Empty
  BY <1>1, <1>2, <1>3, SomeEmpty
<1>5. Ends(slots, k, FALSE)
  BY <1>1, <1>2, <1>4, SearchEnds
<1>6. /\ Probe(slots, k, FALSE) \in 0..(Capacity - 1)
      /\ slots[Probe(slots, k, FALSE)] = IF k \in Content(slots) THEN k ELSE Empty
  BY <1>1, <1>2, <1>4, Finds
<1> QED
  BY <1>5, <1>6, KeysAssumption DEF IsThere

\* The slot at which a key is found is one of the table, sound or not.
LEMMA ThereIs ==
    ASSUME Typed, NEW k \in Keys, IsThere(k)
    PROVE  /\ Probe(slots, k, FALSE) \in 0..(Capacity - 1)
           /\ slots[Probe(slots, k, FALSE)] = k
<1>1. Hashes /\ slots \in Tables(Capacity) /\ Capacity \in Nat \ {0}
  BY CapacityFacts DEF Typed
<1>2. PICK d \in 0..(Capacity - 1) : Probe(slots, k, FALSE) = Position(slots, k, d)
  BY <1>1, ProbeIs DEF IsThere
<1>3. Position(slots, k, d) \in 0..(Capacity - 1)
  BY <1>1, Round
<1> QED
  BY <1>2, <1>3 DEF IsThere

\* Searches keep the invariant.
LEMMA FindKeeps == ASSUME HashInv, NEW k \in Keys, Find(k) PROVE HashInv'
<1>1. Typed /\ Counted /\ Kept /\ Filled /\ NoLeak
  BY DEF HashInv
<1>2. UNCHANGED <<hash, slots, size, heap, use>> /\ state = "up"
      /\ state' \in {"up", "endless"} /\ (use # "mixed" => state' = "up")
  <2>1. use # "mixed" => Ends(slots, k, FALSE)
    BY SearchFinds
  <2> QED
    BY <2>1 DEF Find, Search
<1>3. Typed' /\ Counted' /\ NoLeak'
  BY <1>1, <1>2 DEF Typed, Hashes, Capacity, Uses, Counted, Count, NoLeak
<1>4. Kept' /\ Filled'
  <2>1. UNCHANGED <<Used(slots), Capacity>> /\ (Sound(slots)' <=> Sound(slots))
        /\ (NoneVacant(slots)' <=> NoneVacant(slots))
    BY <1>2, SameSound DEF Used, UsedSlots, Capacity, NoneVacant
  <2> QED
    BY <1>1, <1>2, <2>1 DEF Kept, Filled
<1> QED
  BY <1>3, <1>4 DEF HashInv

\* Removals keep the invariant.
LEMMA RemoveKeeps == ASSUME HashInv, NEW k \in Keys, Remove(k) PROVE HashInv'
<1>1. /\ Typed /\ Counted /\ Kept /\ Filled /\ NoLeak /\ Hashes
      /\ slots \in Tables(Capacity) /\ Capacity \in Nat \ {0} /\ Capacity \div 2 \in Nat
  BY CapacityFacts DEF HashInv, Typed
<1>2. UNCHANGED <<hash, heap>> /\ state = "up"
      /\ state' \in {"up", "endless"} /\ (use # "mixed" => state' = "up")
  <2>1. use # "mixed" => Ends(slots, k, FALSE)
    BY SearchFinds
  <2> QED
    BY <2>1 DEF Remove, Search
<1>3. CASE ~IsThere(k)
  <2>1. UNCHANGED <<slots, size, use>>
    BY <1>3 DEF Remove
  <2>2. Typed' /\ Counted' /\ NoLeak'
    BY <1>1, <1>2, <2>1 DEF Typed, Hashes, Capacity, Uses, Counted, Count, NoLeak
  <2>3. UNCHANGED <<Used(slots), Capacity>> /\ (Sound(slots)' <=> Sound(slots))
        /\ (NoneVacant(slots)' <=> NoneVacant(slots))
    BY <1>2, <2>1, SameSound DEF Used, UsedSlots, Capacity, NoneVacant
  <2>4. Kept' /\ Filled'
    BY <1>1, <1>2, <2>1, <2>3 DEF Kept, Filled
  <2> QED
    BY <2>2, <2>4 DEF HashInv
<1>4. CASE IsThere(k)
  <2> DEFINE p == Probe(slots, k, FALSE)
  <2>1. p \in 0..(Capacity - 1) /\ slots[p] \in Keys
    BY <1>1, <1>4, ThereIs
  <2>2. /\ slots' = [slots EXCEPT ![p] = Vacant] /\ size' = size - 1
        /\ use' = IF use = "mixed" THEN use ELSE "drained"
    BY <1>4 DEF Remove
  <2> HIDE DEF p
  <2>3. slots' \in Tables(Capacity)
    BY <1>1, <2>1, <2>2 DEF Tables, Entries
  <2>4. Capacity' = Capacity
    BY <1>1, <2>3, TableSize DEF Capacity
  <2>5. Count(slots') = Count(slots) - 1 /\ Used(slots') = Used(slots)
    BY <1>1, <2>1, <2>2, CountVacate
  <2>6. Typed'
    BY <1>1, <1>2, <2>2, <2>3, <2>4 DEF Typed, Hashes, Uses
  <2>7. Counted'
    <3>1. Count(slots) \in Nat
      BY <1>1, CountTypes
    <3>2. Count(slots)' = Count(slots')
      BY DEF Count
    <3> QED
      BY <1>1, <2>2, <2>4, <2>5, <3>1, <3>2 DEF Counted
  <2>8. Kept' /\ Filled'
    <3>1. use' # "mixed" => use # "mixed" /\ use' # "filled"
      BY <2>2
    <3>2. use' # "filled"
      BY <2>2
    <3>3. use # "mixed" => Sound(slots')
      BY <1>1, <2>1, <2>2, VacateKeeps DEF Kept
    <3>4. Used(slots)' = Used(slots)
      BY <2>5 DEF Used, UsedSlots
    <3> QED
      BY <1>1, <1>2, <2>4, <3>1, <3>2, <3>3, <3>4, SameSound DEF Kept, Filled
  <2>9. NoLeak'
    BY <1>1, <1>2, <2>4 DEF NoLeak
  <2> QED
    BY <2>6, <2>7, <2>8, <2>9 DEF HashInv
<1> QED
  BY <1>3, <1>4

\* Clearing the table gives a sound one, whatever it was before.
LEMMA ClearKeeps == HashInv /\ Clear => HashInv'
<1> SUFFICES ASSUME HashInv, Clear PROVE HashInv'
  OBVIOUS
<1>1. /\ Typed /\ NoLeak /\ Hashes /\ Capacity \in Nat \ {0} /\ Capacity \div 2 \in Nat
      /\ UNCHANGED <<hash, heap, state>> /\ state = "up" /\ size' = 0 /\ use' = "filled"
      /\ slots' = EmptyTable(Capacity)
  BY CapacityFacts DEF HashInv, Typed, Clear
<1>2. /\ slots' \in Tables(Capacity) /\ Count(slots') = 0 /\ Used(slots') = 0
      /\ Sound(slots') /\ NoneVacant(slots')
  BY <1>1, CountEmpty, EmptySound
<1>3. Capacity' = Capacity
  BY <1>1, <1>2, TableSize DEF Capacity
<1>4. Typed' /\ NoLeak'
  BY <1>1, <1>2, <1>3 DEF Typed, Hashes, Uses, NoLeak
<1>5. Count(slots)' = 0 /\ Used(slots)' = 0 /\ Sound(slots)' /\ NoneVacant(slots)'
  BY <1>1, <1>2, SameSound DEF Count, Used, UsedSlots, NoneVacant
<1>6. Counted' /\ Kept' /\ Filled'
  BY <1>1, <1>3, <1>5 DEF Counted, Kept, Filled
<1> QED
  BY <1>4, <1>6 DEF HashInv

\* So do freeing the table, and doing nothing.
LEMMA FreeKeeps == HashInv /\ (Free \/ UNCHANGED vars) => HashInv'
<1> SUFFICES ASSUME HashInv, Free \/ UNCHANGED vars PROVE HashInv'
  OBVIOUS
<1>1. Typed /\ Counted /\ Kept /\ Filled /\ NoLeak
  BY DEF HashInv
<1>2. /\ UNCHANGED <<hash, slots, size, use>>
      /\ UNCHANGED <<heap, state>> \/ Free
      /\ state' \in {state, "freed"}
  BY DEF Free, vars
<1>3. Typed' /\ Counted'
  BY <1>1, <1>2 DEF Typed, Hashes, Capacity, Uses, Counted, Count
<1>4. Kept' /\ Filled'
  <2>1. UNCHANGED <<Used(slots), Capacity>> /\ (Sound(slots)' <=> Sound(slots))
        /\ (NoneVacant(slots)' <=> NoneVacant(slots))
    BY <1>2, SameSound DEF Used, UsedSlots, Capacity, NoneVacant
  <2> QED
    BY <1>1, <1>2, <2>1 DEF Kept, Filled
<1>5. NoLeak'
  <2>1. CASE UNCHANGED <<heap, state>>
    BY <1>1, <1>2, <2>1 DEF NoLeak, Capacity
  <2>2. CASE Free
    BY <1>1, <2>2 DEF NoLeak, Free
  <2> QED
    BY <1>2, <2>1, <2>2
<1> QED
  BY <1>3, <1>4, <1>5 DEF HashInv

\* Every step keeps the invariant.
LEMMA HashNext == HashInv /\ [Next]_vars => HashInv'
  BY InsertKeeps, FindKeeps, RemoveKeeps, ClearKeeps, FreeKeeps DEF Next, Finished

-----------------------------------------------------------------------------
(* The results.                                                            *)

\* The table is what its functions take it for: size counts its entries, which
\* are at most half as many as its slots, and as long as nothing is inserted
\* after a removal every key can be reached from its home slot.
THEOREM HashHolds == Spec => []HashInv
<1> QED
  BY HashInit, HashNext, PTL DEF Spec

\* As long as nothing is inserted after a removal, cldm_ht_probe comes to an
\* empty slot, and cldm_ht_expand meets no vacated one.
THEOREM SearchesStop == Spec => []RoomToStop
<1>1. HashInv => RoomToStop
  <2> SUFFICES ASSUME HashInv, use # "mixed"
               PROVE  (\E i \in DOMAIN slots : slots[i] = Empty) /\ state \in {"up", "freed"}
    BY DEF RoomToStop
  <2>1. /\ Typed /\ slots \in Tables(Capacity) /\ state \in {"up", "freed"}
        /\ Used(slots) <= Capacity \div 2
    BY DEF HashInv, Typed, Kept
  <2>2. Capacity \in Nat /\ Capacity \div 2 \in Nat /\ Capacity \div 2 < Capacity
    BY <2>1, CapacityFacts
  <2>3. Used(slots) < Capacity
    BY <2>1, <2>2, CountTypes
  <2> QED
    BY <2>1, <2>2, <2>3, SomeEmpty
<1> QED
  BY <1>1, HashHolds, PTL

\* However often the table grows, and whether or not an allocation fails,
\* cldm_ht_free leaves no block behind.
THEOREM BlocksFreed == Spec => []NoLeak
<1>1. HashInv => NoLeak
  BY DEF HashInv
<1> QED
  BY <1>1, HashHolds, PTL

\* Initially the set is empty.
LEMMA SetInitially == Init => Abstract!SetInit
<1> SUFFICES ASSUME Init PROVE Abstract!SetInit
  OBVIOUS
<1>1. StaticCapacity \in Nat \ {0} /\ slots = EmptyTable(StaticCapacity)
  BY CapacityAssumption DEF Init
<1>2. Hashes
  BY DEF Init, Hashes
<1>3. Content(slots) = {}
  BY <1>1, <1>2, EmptySound
<1> QED
  BY <1>3 DEF Init, Content, Abstract!SetInit

\* An insertion that stores the key, before any removal, is one into the set.
LEMMA StoredInSet ==
    ASSUME NEW k \in Keys, use' # "mixed",
           Content(slots') = Content(slots) \cup {k},
           Answer("insert", k, k \notin Content(slots))
    PROVE  Abstract!SetNext
<1>1. Abstract!SetInsert(k)
  BY DEF Content, Answer, Abstract!SetInsert, Abstract!Reply
<1> QED
  BY <1>1 DEF Abstract!SetNext

\* Insertions are insertions into the set.
LEMMA InsertInSet == ASSUME HashInv, NEW k \in Keys, Insert(k) PROVE Abstract!SetNext
<1>1. /\ Typed /\ Counted /\ Kept /\ Filled /\ Hashes /\ slots \in Tables(Capacity)
      /\ Capacity \in Nat \ {0} /\ Capacity \div 2 \in Nat /\ Capacity \div 2 < Capacity
  BY CapacityFacts DEF HashInv, Typed
<1>2. CASE use # "filled"
  <2>1. use' = "mixed"
    BY <1>2 DEF Insert
  <2> QED
    BY <2>1 DEF Abstract!SetNext
<1>3. CASE use = "filled"
  <2>1. use' = "filled" /\ Sound(slots) /\ NoneVacant(slots)
    BY <1>1, <1>3 DEF Insert, Kept, Filled
  <2>2. CASE ~ShouldExpand /\ Store(slots, size, k)
    <3>1. Count(slots) \in Nat /\ size = Count(slots) /\ Count(slots) + 1 <= Capacity
      BY <1>1, <2>2, CountTypes DEF Counted, ShouldExpand
    <3>2. /\ Content(slots') = Content(slots) \cup {k}
          /\ Answer("insert", k, k \notin Content(slots))
      BY <1>1, <2>1, <2>2, <3>1, StoreAnswers
    <3> QED
      BY <2>1, <3>2, StoredInSet
  <2>3. CASE ShouldExpand /\ Expand(k)
    <3> DEFINE cap == Sizeup(Capacity)
               s   == Rehash(slots, cap)
    <3>1. cap <= MaxCapacity /\ \A i \in DOMAIN slots : slots[i] # Vacant
      BY <2>1, <2>3 DEF Insert, NoneVacant
    <3>2. /\ cap \in Nat \ {0} /\ s \in Tables(cap) /\ Sound(s) /\ NoneVacant(s)
          /\ Content(s) = Content(slots) /\ Count(s) \in Nat /\ Count(s) + 1 <= cap \div 2
      BY <3>1, ExpandGrows
    <3>3. Store(s, Count(s), k)
      BY <2>3, <3>1 DEF Expand
    <3> HIDE DEF s, cap
    <3>4. Count(s) + 1 <= cap
      BY <3>2
    <3>5. /\ Content(slots') = Content(s) \cup {k}
          /\ Answer("insert", k, k \notin Content(s))
      BY <1>1, <3>2, <3>3, <3>4, StoreAnswers
    <3> QED
      BY <2>1, <3>2, <3>5, StoredInSet
  <2>4. CASE Answer("insert", k, FALSE) /\ UNCHANGED slots
    <3>1. Abstract!SetInsert(k)
      BY <2>4 DEF Answer, Abstract!SetInsert, Abstract!Reply
    <3> QED
      BY <2>1, <3>1 DEF Abstract!SetNext
  <2> QED
    BY <2>2, <2>3, <2>4 DEF Insert
<1> QED
  BY <1>2, <1>3

\* The answer to a search is that of the set.
LEMMA SearchAnswers ==
    ASSUME HashInv, NEW k \in Keys, use # "mixed"
    PROVE  IsThere(k) = (k \in Content(slots))
<1>1. IsThere(k) <=> k \in Content(slots)
  BY SearchFinds
<1>2. IsThere(k) \in BOOLEAN
  BY DEF IsThere
<1>3. CASE k \in Content(slots)
  BY <1>1, <1>2, <1>3
<1>4. CASE k \notin Content(slots)
  BY <1>1, <1>2, <1>4
<1> QED
  BY <1>3, <1>4

\* Searches are searches of the set.
LEMMA FindInSet == ASSUME HashInv, NEW k \in Keys, Find(k) PROVE Abstract!SetNext
<1>1. CASE use = "mixed"
  BY <1>1 DEF Find, Abstract!SetNext
<1>2. CASE use # "mixed"
  <2>1. Answer("find", k, k \in Content(slots)) /\ UNCHANGED <<slots, use>>
    BY <1>2, SearchFinds, SearchAnswers DEF Find, Search, Answer
  <2>2. Abstract!SetFind(k)
    BY <2>1 DEF Answer, Content, Abstract!SetFind, Abstract!Reply
  <2> QED
    BY <1>2, <2>1, <2>2 DEF Abstract!SetNext
<1> QED
  BY <1>1, <1>2

\* Removals are removals from the set: the key is in no other slot.
LEMMA RemoveInSet == ASSUME HashInv, NEW k \in Keys, Remove(k) PROVE Abstract!SetNext
<1>1. CASE use = "mixed"
  <2>1. use' = "mixed"
    BY <1>1 DEF Remove
  <2> QED
    BY <2>1 DEF Abstract!SetNext
<1>2. CASE use # "mixed"
  <2>1. /\ Typed /\ Kept /\ Hashes /\ slots \in Tables(Capacity) /\ Sound(slots)
        /\ Capacity \in Nat \ {0}
    BY <1>2, CapacityFacts DEF HashInv, Typed, Kept
  <2>2. Ends(slots, k, FALSE) /\ (IsThere(k) <=> k \in Content(slots))
    BY <1>2, SearchFinds
  <2>3. Answer("remove", k, k \in Content(slots)) /\ use' # "mixed"
    BY <1>2, <2>2, SearchAnswers DEF Remove, Search, Answer
  <2>4. Content(slots') = Content(slots) \ {k}
    <3>1. CASE ~IsThere(k)
      BY <2>2, <3>1 DEF Remove
    <3>2. CASE IsThere(k)
      <4> DEFINE p == Probe(slots, k, FALSE)
      <4>1. p \in 0..(Capacity - 1) /\ slots[p] = k
        BY <2>1, <3>2, ThereIs
      <4>2. slots' = [slots EXCEPT ![p] = Vacant]
        BY <3>2 DEF Remove
      <4> HIDE DEF p
      <4> QED
        BY <2>1, <4>1, <4>2, VacateKeeps
    <3> QED
      BY <3>1, <3>2
  <2>5. Abstract!SetRemove(k)
    BY <2>3, <2>4 DEF Answer, Content, Abstract!SetRemove, Abstract!Reply
  <2> QED
    BY <2>3, <2>5 DEF Abstract!SetNext
<1> QED
  BY <1>1, <1>2

\* Clearing the table clears the set.
LEMMA ClearInSet == ASSUME HashInv, Clear PROVE Abstract!SetNext
<1>1. Capacity \in Nat \ {0} /\ Hashes
  BY CapacityFacts DEF HashInv, Typed
<1>2. Content(slots') = {}
  BY <1>1, EmptySound DEF Clear
<1>3. Abstract!SetClear /\ use' # "mixed"
  BY <1>2 DEF Clear, Answer, Content, Abstract!SetClear, Abstract!Reply
<1> QED
  BY <1>3 DEF Abstract!SetNext

\* Every step is one of the set, or changes nothing of it.
LEMMA SetStep ==
    HashInv /\ [Next]_vars => [Abstract!SetNext]_Abstract!setVars
<1> SUFFICES ASSUME HashInv, [Next]_vars
             PROVE  Abstract!SetNext \/ UNCHANGED Abstract!setVars
  OBVIOUS
<1>1. Free \/ UNCHANGED vars => UNCHANGED Abstract!setVars
  BY DEF Free, vars, Abstract!setVars
<1> QED
  BY <1>1, InsertInSet, FindInSet, RemoveInSet, ClearInSet DEF Next, Finished

\* cldm_hash answers every call as a set of keys would, whatever the keys,
\* their hash values and the capacity, across collisions, vacated slots,
\* rehashing and failing allocations, as long as nothing is inserted after a
\* removal.
THEOREM SetImplemented == Spec => ImplementsKeySet
<1> QED
  BY SetInitially, SetStep, HashHolds, PTL DEF Spec, ImplementsKeySet, Abstract!SetSpec
=============================================================================
